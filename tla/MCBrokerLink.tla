--------------------------- MODULE MCBrokerLink ---------------------------
(* Two servers; three descriptors, one more than the two tasks ever hold.  *)
EXTENDS BrokerLink

MCAnnouncements == {[ip |-> "ip1", mac |-> "mac1"], [ip |-> "ip2", mac |-> "mac2"]}
===========================================================================
