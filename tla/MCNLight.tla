------------------------------ MODULE MCNLight ------------------------------
(***************************************************************************)
(* One channel: three statuses of it meet in a state (the current one, the *)
(* one under way, the broker's), and each has thirteen values, so that two *)
(* channels are beyond reach; the proofs cover every number of them.  A    *)
(* uint8_t has four values here.  The numbers are each value that          *)
(* switches, the least that is refused, and one that is refused as it      *)
(* stands but toggles once it has been cut to a uint8_t.                   *)
(***************************************************************************)
EXTENDS NLight

MCNumbers == {0, 1, 2, 3, ByteSpan + 2}
============================================================================
