---------------------------- MODULE MCKeepAlive ----------------------------
(* One MQTTYield takes two units of time, and so does the longest handler: *)
(* it outlasts a MQTTYield that has waited before, and with a second one   *)
(* the wait for a PUBACK.  One status interval is shorter than the command *)
(* timeout, the other longer than the keep-alive interval; otherwise the   *)
(* order is the device's: ping timeout < command timeout < keep-alive.     *)
EXTENDS KeepAlive
============================================================================
