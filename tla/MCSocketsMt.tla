---------------------------- MODULE MCSocketsMt ----------------------------
(***************************************************************************)
(* An instance of SocketsMt for TLC: two tasks that open, use and close    *)
(* sockets as the MQTT and the UDP task of the firmware do, and one that   *)
(* shares their descriptors, sends and sets options.                       *)
(***************************************************************************)
EXTENDS SocketsMt

CONSTANTS mqtt, udp, other

MCOpsOf ==
    [t \in Tasks |-> CASE t = mqtt -> {"socket", "select", "recv", "close"}
                       [] t = udp -> {"socket", "bind", "recv", "close"}
                       [] t = other -> {"send", "wselect", "ioctl"}]
============================================================================
