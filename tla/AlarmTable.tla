---------------------------- MODULE AlarmTable ----------------------------
(***************************************************************************)
(* The alarm table of csro_datetime.c as a data structure: the array       *)
(* alarms[ALARM_NUMBER], what csro_alarm_add, csro_alarm_modify,           *)
(* csro_alarm_delete and csro_alarm_clear do to it, and the 32-bit word    *)
(* that an alarm is packed into for flash.                                 *)
(*                                                                         *)
(* A slot whose `valid' is false is Free.  The code never reads the other  *)
(* fields of such a slot before it has written them all again, so they are *)
(* not kept.                                                               *)
(*                                                                         *)
(* The word has 7 bits of weekday above 11 bits of minutes above 14 bits   *)
(* of action.  The widths are the constants WeekdaySpan = 2^7,             *)
(* MinutesSpan = 2^11, ActionSpan = 2^14; the struct's own fields are      *)
(* wider (uint8, uint16, uint16), so a field can exceed its span.          *)
(***************************************************************************)
EXTENDS Integers, FiniteSets

CONSTANTS ALARM_NUMBER,   \* number of slots
          WeekdaySpan, MinutesSpan, ActionSpan,
          ByteSpan        \* values of a uint8_t: 256 in the code

ASSUME TableAssumption ==
    /\ ALARM_NUMBER \in Nat \ {0}
    /\ WeekdaySpan \in Nat \ {0}
    /\ MinutesSpan \in Nat \ {0}
    /\ ActionSpan \in Nat \ {0}
    /\ ByteSpan \in Nat
    /\ ALARM_NUMBER < ByteSpan

Slots == 0 .. ALARM_NUMBER - 1

Alarm == [weekday : Nat, minutes : Nat, action : Nat]

(* The value of an invalid slot; no alarm, since an alarm's weekday is a   *)
(* natural number.                                                         *)
Free == [weekday |-> -1, minutes |-> -1, action |-> -1]

Tables == [Slots -> Alarm \cup {Free}]

Valid(t, i) == t[i] # Free

EmptyTable == [i \in Slots |-> Free]

MkAlarm(w, m, a) == [weekday |-> w, minutes |-> m, action |-> a]

(***************************************************************************)
(* Packing.                                                                *)
(***************************************************************************)
WordSpan == WeekdaySpan * (MinutesSpan * ActionSpan)

Words == 0 .. WordSpan - 1

(* The sum of the three shifted fields, in 32 bits: a field that exceeds   *)
(* its span carries into the field above it, or out of the word.           *)
Pack(a) ==
    (a.weekday * (MinutesSpan * ActionSpan) + a.minutes * ActionSpan + a.action)
        % WordSpan

Unpack(v) ==
    MkAlarm((v \div ActionSpan) \div MinutesSpan,
            (v \div ActionSpan) % MinutesSpan,
            v % ActionSpan)

InSpan(a) ==
    a.weekday < WeekdaySpan /\ a.minutes < MinutesSpan /\ a.action < ActionSpan

(***************************************************************************)
(* The operations on the table.  SameTime(t, a) is the set of slots the    *)
(* first loop of csro_alarm_add looks for; the loop stops at the lowest.   *)
(***************************************************************************)
Lowest(S) == CHOOSE i \in S : \A j \in S : i <= j

SameTime(t, a) ==
    {i \in Slots : Valid(t, i) /\ t[i].weekday = a.weekday /\ t[i].minutes = a.minutes}

FreeSlots(t) == {i \in Slots : ~Valid(t, i)}

AddTarget(t, a) == IF SameTime(t, a) # {} THEN SameTime(t, a) ELSE FreeSlots(t)

(* Does the call reach save_alarm_to_nvs ?  A new alarm that finds the     *)
(* table full is dropped silently.                                         *)
AddSaves(t, a) == AddTarget(t, a) # {}

AddTo(t, a) ==
    IF AddSaves(t, a) THEN [t EXCEPT ![Lowest(AddTarget(t, a))] = a] ELSE t

(* The index arrives as a uint8_t; beyond the table, or in an invalid      *)
(* slot, the call returns without touching anything.                       *)
IndexHit(t, idx) == idx <= ALARM_NUMBER - 1 /\ Valid(t, idx)

ModifyIn(t, idx, a) == IF IndexHit(t, idx) THEN [t EXCEPT ![idx] = a] ELSE t

(* The loop of csro_alarm_delete moves every later valid alarm one slot    *)
(* down.                                                                   *)
DeleteFrom(t, idx) ==
    IF IndexHit(t, idx)
      THEN [i \in Slots |->
              IF i < idx THEN t[i]
              ELSE IF i < ALARM_NUMBER - 1 THEN t[i + 1]
              ELSE Free]
      ELSE t

(***************************************************************************)
(* What the loops that stop at the first invalid slot see.                 *)
(***************************************************************************)
ValidSlots(t) == {i \in Slots : Valid(t, i)}

(* The valid slots are a prefix of the table.                              *)
Prefix(t) == \A i \in Slots : \A j \in Slots : Valid(t, i) /\ j < i => Valid(t, j)

(* Number of slots in front of the first invalid one.                      *)
PrefixLength(t) == IF FreeSlots(t) = {} THEN ALARM_NUMBER ELSE Lowest(FreeSlots(t))
===========================================================================
