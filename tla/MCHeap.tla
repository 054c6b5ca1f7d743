------------------------------- MODULE MCHeap -------------------------------
(***************************************************************************)
(* An instance of Heap for TLC.                                            *)
(***************************************************************************)
EXTENDS Heap, Sequences, TLC

CONSTANTS t1, t2

(* Instruction memory, for 32 bit accesses only, and data memory.          *)
MCCaps == <<{"32BIT"}, {"8BIT", "32BIT", "DMA"}>>
MCStart == <<1, 9>>
MCEnd == <<5, 18>>
MCNeeds == {{"32BIT"}, {"8BIT"}}

Symmetry == Permutations(Tasks)
============================================================================
