-------------------------------- MODULE MCNvs --------------------------------
(***************************************************************************)
(* Instances of Nvs: a counter (one entry), a short string (a header and   *)
(* an entry of data) and a long one (a header and two whole data entries), *)
(* as "power_count", "ssid" and "pass" of csro_system.c are.               *)
(***************************************************************************)
EXTENDS Nvs, TLC

CONSTANTS count, ssid, pass

Symmetry == Permutations(Pages) \cup Permutations(Vals)

MCWhole == (count :> 0) @@ (ssid :> 1) @@ (pass :> 3)
MCRest == (count :> 0) @@ (ssid :> 1) @@ (pass :> 0)

(* No two keys have the same hash. *)
Distinct == (count :> 1) @@ (ssid :> 2) @@ (pass :> 3)
==============================================================================
