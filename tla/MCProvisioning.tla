-------------------------- MODULE MCProvisioning --------------------------
(* Intervals 2 to 5 in nine-valued "16-bit" numbers.  The requests lie     *)
(* below, at the ends of and above the range; the last two have more than  *)
(* 16 bits, one of them falls into the range when it is cut.               *)
EXTENDS Provisioning

MCRequested == {0, 1, 2, 5, 6, ShortSpan + 1, ShortSpan + 4}
===========================================================================
