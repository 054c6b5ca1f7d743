---------------------------- MODULE AtomicStore ----------------------------
(***************************************************************************)
(* What the callers of the non-volatile storage library rely on            *)
(* (csro_system.c, csro_sc.c, csro_datetime.c and the models of them):     *)
(* a store of one value per key whose calls take effect at one instant     *)
(* between call and return, or not at all when they fail, and whose        *)
(* content no power loss and no mount ever changes.  README.rst:64 of      *)
(* nvs_flash promises it: powering off at any point "should not result in  *)
(* loss of data, expect for the new key-value pair if it was being         *)
(* written".                                                               *)
(***************************************************************************)
CONSTANTS Keys,     \* the keys of the store
          Vals,     \* the values a key may be given
          Absent,   \* the value of a key that is not stored
          NoCall,   \* the library is idle
          Off       \* the library is not mounted

VARIABLES store,    \* the value of every key
          call,     \* the call being served, NoCall or Off
          done      \* the call being served has taken effect

vars == <<store, call, done>>

Calls == [key : Keys, val : Vals \cup {Absent}]

Init == /\ store = [k \in Keys |-> Absent]
        /\ call = Off
        /\ done = FALSE

(* nvs_set_* or nvs_erase_key is called (a value of Absent is an erasure). *)
Begin == /\ call = NoCall
         /\ call' \in Calls
         /\ done' = FALSE
         /\ UNCHANGED store

(* The one instant at which the call changes the store. *)
Apply == /\ call \in Calls
         /\ ~done
         /\ store' = [store EXCEPT ![call.key] = call.val]
         /\ done' = TRUE
         /\ UNCHANGED call

(* The call returns ESP_OK, which it may not do before it took effect. *)
Return == /\ call \in Calls
          /\ done
          /\ call' = NoCall
          /\ done' = FALSE
          /\ UNCHANGED store

(* The call returns an error, which it may not do once it took effect. *)
Fail == /\ call \in Calls
        /\ ~done
        /\ call' = NoCall
        /\ UNCHANGED <<store, done>>

PowerLoss == /\ call' = Off
             /\ done' = FALSE
             /\ UNCHANGED store

Mount == /\ call = Off
         /\ call' = NoCall
         /\ UNCHANGED <<store, done>>

Next == Begin \/ Apply \/ Return \/ Fail \/ PowerLoss \/ Mount

Spec == Init /\ [][Next]_vars
============================================================================
