---------------------------- MODULE AlarmStore ----------------------------
(***************************************************************************)
(* The alarm component: the table in RAM, its copy in the "alarms"         *)
(* namespace of flash, the alarm commands of csro_device_handle_self_      *)
(* message, the timer message that reports the table, and power loss.      *)
(*                                                                         *)
(* Everything here is done by the MQTT task, except that the power may go  *)
(* at any moment.  nvs_set_u32 and nvs_set_u8 write flash before they      *)
(* return and nvs_commit writes nothing (nvs_api.cpp), so every nvs_set of *)
(* save_alarm_to_nvs is a step of its own here and a restart may come      *)
(* between any two of them.  One nvs_set is atomic: the library writes the *)
(* new item before it erases the old one and completes that at the next    *)
(* initialisation.                                                         *)
(***************************************************************************)
EXTENDS AlarmTable, Sequences

CONSTANTS Commands,       \* alarm commands that a payload can carry
          MaxCommands     \* bound: commands in one payload

(* A complete command.  The alarm's fields are those that csro_alarm_xxx   *)
(* receives, cut to a uint8_t and two uint16_t by the call.  The index is  *)
(* the 32-bit number of the payload; SlotOf below does its arithmetic.     *)
ASSUME CommandAssumption ==
    /\ Commands \subseteq
         [op : {"add"}, alarm : Alarm] \cup
         [op : {"modify"}, index : Nat, alarm : Alarm] \cup
         [op : {"delete"}, index : Nat] \cup
         [op : {"clear"}]
    /\ MaxCommands \in Nat

VARIABLES
    alarms,      \* the table in RAM
    alarm_count, \* flash: "alarm_count"; 0 while the key does not exist
    alarm_value, \* flash: "alarm0" .. ; 0 while the key does not exist
    pc,          \* what the MQTT task is doing
    todo,        \* commands of the current payload still to be executed
    pos,         \* loop index of save_alarm_to_nvs
    alarm_msg,   \* alarm_msg_semaphore
    report,      \* last timer message prepared since power-on
    saved        \* history: the flash contents when the last save was over

flash == <<alarm_count, alarm_value>>
vars == <<alarms, alarm_count, alarm_value, pc, todo, pos, alarm_msg, report, saved>>

NoReport == [sent |-> FALSE, alarms |-> <<>>, counted |-> FALSE]

(* What load_alarm_from_nvs builds from a given flash contents.            *)
LoadedFrom(count, value) ==
    [i \in Slots |-> IF i < count THEN Unpack(value[i]) ELSE Free]

Loaded == LoadedFrom(alarm_count, alarm_value)

Init ==
    /\ alarms = EmptyTable
    /\ alarm_count = 0
    /\ alarm_value = [i \in Slots |-> 0]
    /\ pc = "idle"
    /\ todo = <<>>
    /\ pos = 0
    /\ alarm_msg = FALSE
    /\ report = NoReport
    /\ saved = [count |-> 0, value |-> [i \in Slots |-> 0]]

(***************************************************************************)
(* csro_device_handle_self_message.  The code looks for the four commands  *)
(* in a fixed order, each at most once in a payload, and sets off the      *)
(* timer message when at least one of them was complete.                   *)
(***************************************************************************)
Rank(c) == CASE c.op = "add" -> 1 [] c.op = "modify" -> 2
             [] c.op = "delete" -> 3 [] c.op = "clear" -> 4

Payloads ==
    {p \in UNION {[1 .. n -> Commands] : n \in 1 .. MaxCommands} :
        \A i, j \in DOMAIN p : i < j => Rank(p[i]) < Rank(p[j])}

HandleSelfMessage ==
    /\ pc = "idle"
    /\ todo' \in Payloads
    /\ pc' = "handle"
    /\ UNCHANGED <<alarms, alarm_count, alarm_value, pos, alarm_msg, report, saved>>

(* Fault: the reported number is used as the slot.                         *)
SlotAsReported(c) == c.index % ByteSpan

(* Indices of the table are 0-based.  alarm_delete counts from 1, as the   *)
(* timer message does; alarm_modify passes its index on as it is.  Both    *)
(* are cut to a uint8_t by the call.                                       *)
SlotOf(c) ==
    IF c.op = "delete" THEN (c.index - 1) % ByteSpan ELSE c.index % ByteSpan

(* Fault: csro_alarm_delete does not save.                                 *)
SavesNoDelete(t, c) == c.op # "delete" /\ (c.op = "add" => AddSaves(t, c.alarm))

Saves(t, c) ==
    CASE c.op = "add" -> AddSaves(t, c.alarm)
      [] c.op \in {"modify", "delete"} -> IndexHit(t, SlotOf(c))
      [] c.op = "clear" -> TRUE

Execute(t, c) ==
    CASE c.op = "add" -> AddTo(t, c.alarm)
      [] c.op = "modify" -> ModifyIn(t, SlotOf(c), c.alarm)
      [] c.op = "delete" -> DeleteFrom(t, SlotOf(c))
      [] c.op = "clear" -> EmptyTable

(* Fault: the save begins with alarm_count.                                *)
RunCommandCountFirst ==
    /\ pc = "handle"
    /\ todo # <<>>
    /\ alarms' = Execute(alarms, Head(todo))
    /\ todo' = Tail(todo)
    /\ alarm_count' = PrefixLength(alarms')
    /\ pc' = IF Saves(alarms, Head(todo)) THEN "save" ELSE pc
    /\ UNCHANGED <<alarm_value, pos, alarm_msg, report, saved>>

(* One csro_alarm_xxx up to the point where it saves, or returns.          *)
RunCommand ==
    /\ pc = "handle"
    /\ todo # <<>>
    /\ alarms' = Execute(alarms, Head(todo))
    /\ todo' = Tail(todo)
    /\ pc' = IF Saves(alarms, Head(todo)) THEN "save" ELSE pc
    /\ UNCHANGED <<alarm_count, alarm_value, pos, alarm_msg, report, saved>>

(* Fault: only "alarminfo" sets off a timer message.                       *)
EndMessageQuiet ==
    /\ pc = "handle"
    /\ todo = <<>>
    /\ pc' = "idle"
    /\ UNCHANGED <<alarms, alarm_count, alarm_value, todo, pos, alarm_msg, report, saved>>

(* The end of the handler: csro_mqtt_msg_trigger_alarm.                    *)
EndMessage ==
    /\ pc = "handle"
    /\ todo = <<>>
    /\ pc' = "idle"
    /\ alarm_msg' = TRUE
    /\ UNCHANGED <<alarms, alarm_count, alarm_value, todo, pos, report, saved>>

(* A payload with "alarminfo": 1.                                          *)
RequestReport ==
    /\ pc = "idle"
    /\ alarm_msg' = TRUE
    /\ UNCHANGED <<alarms, alarm_count, alarm_value, pc, todo, pos, report, saved>>

(***************************************************************************)
(* save_alarm_to_nvs.                                                      *)
(***************************************************************************)
SaveEntry ==
    /\ pc = "save"
    /\ pos < ALARM_NUMBER
    /\ Valid(alarms, pos)
    /\ alarm_value' = [alarm_value EXCEPT ![pos] = Pack(alarms[pos])]
    /\ pos' = pos + 1
    /\ UNCHANGED <<alarms, alarm_count, pc, todo, alarm_msg, report, saved>>

SaveCount ==
    /\ pc = "save"
    /\ pos < ALARM_NUMBER => ~Valid(alarms, pos)
    /\ alarm_count' = pos
    /\ pc' = "commit"
    /\ UNCHANGED <<alarms, alarm_value, todo, pos, alarm_msg, report, saved>>

(* nvs_commit: "no-op for now" in nvs_api.cpp.                             *)
SaveCommit ==
    /\ pc = "commit"
    /\ pc' = "handle"
    /\ pos' = 0
    /\ saved' = [count |-> alarm_count, value |-> alarm_value]
    /\ UNCHANGED <<alarms, alarm_count, alarm_value, todo, alarm_msg, report>>

(***************************************************************************)
(* csro_device_prepare_timer_message, when the main loop has taken the     *)
(* semaphore.  The alarms are listed up to the first invalid slot; "count" *)
(* is added when that slot is met, hence not when the table is full.       *)
(***************************************************************************)
Listing(t) == [k \in 1 .. PrefixLength(t) |-> t[k - 1]]

PrepareReport ==
    /\ pc = "idle"
    /\ alarm_msg
    /\ alarm_msg' = FALSE
    /\ report' = [sent |-> TRUE, alarms |-> Listing(alarms), counted |-> FreeSlots(alarms) # {}]
    /\ UNCHANGED <<alarms, alarm_count, alarm_value, pc, todo, pos, saved>>

(* Power loss, or esp_restart on a payload with "restart": 1, and the boot *)
(* that follows: csro_datetime_init loads the table.                       *)
Restart ==
    /\ alarms' = Loaded
    /\ pc' = "idle"
    /\ todo' = <<>>
    /\ pos' = 0
    /\ alarm_msg' = FALSE
    /\ report' = NoReport
    /\ saved' = [count |-> alarm_count, value |-> alarm_value]
    /\ UNCHANGED flash

Next ==
    \/ HandleSelfMessage \/ RunCommand \/ EndMessage \/ RequestReport
    \/ SaveEntry \/ SaveCount \/ SaveCommit
    \/ PrepareReport
    \/ Restart

Spec == Init /\ [][Next]_vars

---------------------------------------------------------------------------
(***************************************************************************)
(* Properties.                                                             *)
(***************************************************************************)

(* Every variable holds a value of the kind the code gives it; the packed  *)
(* words fit their 32 bits and the count never exceeds the table.          *)
TypeOK ==
    /\ alarms \in Tables
    /\ alarm_count \in 0 .. ALARM_NUMBER
    /\ alarm_value \in [Slots -> Words]
    /\ pc \in {"idle", "handle", "save", "commit"}
    /\ todo \in Seq(Commands)
    /\ pos \in 0 .. ALARM_NUMBER
    /\ alarm_msg \in BOOLEAN
    /\ report \in [sent : BOOLEAN, alarms : Seq(Alarm), counted : BOOLEAN]
    /\ saved \in [count : 0 .. ALARM_NUMBER, value : [Slots -> Words]]

(* The valid alarms are always a prefix of the table: the save loop and    *)
(* the report loop stop at the first invalid slot, so an alarm behind a    *)
(* hole would be neither stored nor reported.                              *)
Compact == Prefix(alarms)

(* Packed words of the alarms: in RAM, and in a given flash contents.      *)
WordsInRam == {Pack(alarms[i]) : i \in ValidSlots(alarms)}
WordsIn(count, value) == {value[i] : i \in {j \in Slots : j < count}}
WordsStored == WordsIn(alarm_count, alarm_value)
WordsBefore == WordsIn(saved.count, saved.value)

(* Outside save_alarm_to_nvs the flash holds exactly the table in RAM, in  *)
(* the same order: a restart then changes no alarm beyond what packing     *)
(* does to it.                                                             *)
FlashAgrees ==
    pc \in {"idle", "handle", "commit"} =>
        /\ \A i \in Slots : Valid(alarms, i) <=> i < alarm_count
        /\ \A i \in Slots : i < alarm_count => alarm_value[i] = Pack(alarms[i])

(* Whenever the power goes, also between two writes of a save, an alarm    *)
(* that was stored before the command and is kept by it is still found at  *)
(* the next boot.                                                          *)
SurvivorsKept == WordsBefore \cap WordsInRam \subseteq WordsStored

(* Whenever the power goes, the next boot finds no alarm other than those  *)
(* stored before the command and those it leaves in the table: one that    *)
(* was deleted earlier, whose word is still in flash behind the count,     *)
(* does not come back.                                                     *)
NothingResurrected == WordsStored \subseteq WordsBefore \cup WordsInRam

(* A restart that does not interrupt a save leaves every alarm whose       *)
(* fields fit their spans as it was.                                       *)
RestartKeepsAlarms ==
    [][Restart /\ pc \in {"idle", "handle"} =>
         \A i \in Slots : Valid(alarms, i) /\ InSpan(alarms[i]) => alarms'[i] = alarms[i]]_vars

(* The report is never stale: when no timer message is due and no command  *)
(* is being handled, the last one that was prepared lists the table as it  *)
(* is.                                                                     *)
ReportFresh ==
    report.sent /\ ~alarm_msg /\ pc = "idle" => report.alarms = Listing(alarms)

(* alarm_delete with index k removes the alarm that a reader of a fresh    *)
(* report knows as "alarm<k>", and keeps all others in their order.        *)
DeleteHitsReported ==
    [][\A k \in 1 .. Len(report.alarms) :
         /\ RunCommand
         /\ Head(todo) = [op |-> "delete", index |-> k]
         /\ report.alarms = Listing(alarms)
         => Listing(alarms') =
              SubSeq(report.alarms, 1, k - 1) \o
              SubSeq(report.alarms, k + 1, Len(report.alarms))]_vars

===========================================================================
