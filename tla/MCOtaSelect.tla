---------------------------- MODULE MCOtaSelect ----------------------------
(***************************************************************************)
(* An instance of OtaSelect for TLC.                                       *)
(***************************************************************************)
EXTENDS OtaSelect

MCTables ==
    { \* Two slots and a factory image; the application calls in any order.
      [slots |-> 2, factory |-> TRUE, copies |-> FALSE, anyOrder |-> TRUE,
       chunks |-> 2, maxSeq |-> 4, maxHandles |-> 1],
      \* Three slots only; the application calls in any order.
      [slots |-> 3, factory |-> FALSE, copies |-> FALSE, anyOrder |-> TRUE,
       chunks |-> 1, maxSeq |-> 7, maxHandles |-> 2],
      \* Two slots, the second copied to the first at boot (1 MB flash).
      [slots |-> 2, factory |-> FALSE, copies |-> TRUE, anyOrder |-> FALSE,
       chunks |-> 2, maxSeq |-> 4, maxHandles |-> 2] }
=============================================================================
