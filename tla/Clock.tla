------------------------------- MODULE Clock -------------------------------
(***************************************************************************)
(* The clock half of csro_datetime.c: csro_datetime_set, called by the UDP *)
(* task with the time of an announcement, second_timer_callback, run once  *)
(* a second by the timer daemon, and datetime_check_alarm, its scan of the *)
(* alarm table, which the MQTT task changes meanwhile.                     *)
(*                                                                         *)
(* Priorities: timer daemon 2, UDP task 5, MQTT task 10.  The daemon can   *)
(* be preempted between any two accesses to shared data, so each is a step *)
(* of its own, also the two of an increment.  It cannot preempt the UDP    *)
(* task, which does not block in csro_datetime_set, nor the MQTT task in a *)
(* change of the table.                                                    *)
(*                                                                         *)
(* A time is a number of seconds.  Of struct tm two parts are kept: the    *)
(* second, and the minute with its hour and date.                          *)
(***************************************************************************)
EXTENDS AlarmTable

CONSTANTS MinuteLength, MinutesPerDay, DaysPerWeek,  \* 60, 1440, 7
          SyncSecond,     \* 30 in csro_datetime_set
          FirstTime,      \* the beginning of 2018
          PowerOn,        \* environment: true time of power-on
          MaxSkew,        \* environment: how far the clock drifts between corrections
          MaxDelay,       \* environment: how old an announcement can be
          MaxTime,        \* bound: end of the true time
          Changes         \* alarm commands

ASSUME ClockAssumption ==
    /\ MinutesPerDay \in Nat \ {0} /\ DaysPerWeek \in Nat \ {0}
    /\ MinuteLength \in Nat /\ SyncSecond \in Nat
    /\ FirstTime \in Nat /\ PowerOn \in Nat /\ MaxTime \in Nat
    /\ MaxSkew \in Nat /\ MaxDelay \in Nat
    /\ MaxDelay <= MaxSkew /\ MaxSkew <= FirstTime
    /\ MaxSkew + MaxDelay < SyncSecond
    /\ MaxSkew + MaxDelay < MinuteLength - SyncSecond
    /\ Changes \subseteq
         [op : {"add"}, alarm : Alarm] \cup
         [op : {"modify"}, index : Nat, alarm : Alarm] \cup
         [op : {"delete"}, index : Nat] \cup
         [op : {"clear"}]

VARIABLES
    real,                        \* the server's clock
    heard,                       \* time of the last announcement that arrived
    time_now, time_on, time_run, \* members of datetime
    time_info,                   \* datetime.time_info
    time_sync,
    tpc, reg, left,              \* timer daemon: next step, value in hand,
                                 \* members of time_info still to be written
    alarms,
    now_minute, pos,             \* datetime_check_alarm: its minute, loop index
    scanned,                     \* history: last minute for which the table was scanned
    fired, kept                  \* history of a scan: slots that fired, slots left alone

datetime == <<time_now, time_on, time_run, time_info, time_sync>>
daemon == <<tpc, reg, left, now_minute, pos>>
vars == <<real, heard, time_now, time_on, time_run, time_info, time_sync, tpc, reg, left,
          alarms, now_minute, pos, scanned, fired, kept>>

Members == {"sec", "minute"}

MemberOf(t, m) == IF m = "sec" THEN t % MinuteLength ELSE t \div MinuteLength

Broken(t) == [m \in Members |-> MemberOf(t, m)]

Init ==
    /\ real = PowerOn /\ heard = 0
    /\ time_now = 0 /\ time_on = 0 /\ time_run = 0
    /\ time_info = Broken(0)
    /\ time_sync = FALSE
    /\ tpc = "idle" /\ reg = 0 /\ left = {}
    /\ alarms = EmptyTable
    /\ now_minute = 0 /\ pos = 0
    /\ scanned = 0 /\ fired = {} /\ kept = {}

---------------------------------------------------------------------------
(***************************************************************************)
(* csro_datetime_set.                                                      *)
(***************************************************************************)
Accepted(t) == t >= FirstTime

(* Fault: every announcement corrects the clock.                           *)
CorrectsAlways(t) == Accepted(t)

(* A synchronised clock is only corrected at second 30.                    *)
Corrects(t) == Accepted(t) /\ (~time_sync \/ t % MinuteLength = SyncSecond)

SetClock(t) ==
    /\ time_info' = Broken(t)
    /\ time_now' = t
    /\ time_sync' = TRUE
    /\ time_on' = IF time_sync THEN time_on ELSE t - time_run
    /\ time_run' = t - time_on'

(* An announcement with a time arrives, up to MaxDelay after it was sent   *)
(* and after all earlier ones.  Those that change nothing are left out.    *)
DatetimeSet ==
    /\ \E t \in real - MaxDelay .. real :
         /\ t > heard
         /\ Corrects(t)
         /\ SetClock(t)
    /\ heard' = time_now'
    /\ scanned' = IF time_sync THEN scanned ELSE time_now' \div MinuteLength
    /\ UNCHANGED <<real, daemon, alarms, fired, kept>>

---------------------------------------------------------------------------
(***************************************************************************)
(* second_timer_callback.                                                  *)
(***************************************************************************)

(* What the clock shows, and what it should: before the first              *)
(* announcement only the running time can be compared.                     *)
Ahead == IF time_sync THEN time_now - real ELSE time_run - (real - PowerOn)

(* The timer expires.  The crystal and the delays of the daemon let the    *)
(* clock run ahead or behind by MaxSkew.                                   *)
TimerExpires ==
    /\ tpc = "idle"
    /\ Ahead < MaxSkew
    /\ reg' = time_run
    /\ tpc' = "run"
    /\ UNCHANGED <<real, heard, datetime, left, alarms, now_minute, pos, scanned, fired, kept>>

(* time_run++ is stored.                                                   *)
StoreRun ==
    /\ tpc = "run"
    /\ time_run' = reg + 1
    /\ tpc' = "sync"
    /\ UNCHANGED <<real, heard, time_now, time_on, time_info, time_sync, reg, left, alarms, now_minute,
                   pos, scanned, fired, kept>>

(* time_sync is tested and time_now loaded.                                *)
LoadNow ==
    /\ tpc = "sync"
    /\ IF time_sync THEN tpc' = "store" /\ reg' = time_now ELSE tpc' = "idle" /\ reg' = 0
    /\ UNCHANGED <<real, heard, datetime, left, alarms, now_minute, pos, scanned, fired, kept>>

(* time_now++ is stored, over a correction that came in between.           *)
StoreNow ==
    /\ tpc = "store"
    /\ time_now' = reg + 1
    /\ tpc' = "local"
    /\ UNCHANGED <<real, heard, time_on, time_run, time_info, time_sync, reg, left, alarms, now_minute,
                   pos, scanned, fired, kept>>

(* localtime_r reads time_now, then writes the members of time_info, in an *)
(* order that is the library's own.                                        *)
Localtime ==
    /\ tpc = "local"
    /\ reg' = time_now
    /\ left' = Members
    /\ tpc' = "info"
    /\ UNCHANGED <<real, heard, datetime, alarms, now_minute, pos, scanned, fired, kept>>

WriteMember ==
    /\ tpc = "info"
    /\ \E m \in left :
         /\ time_info' = [time_info EXCEPT ![m] = MemberOf(reg, m)]
         /\ left' = left \ {m}
    /\ tpc' = IF left' = {} THEN "second" ELSE "info"
    /\ UNCHANGED <<real, heard, time_now, time_on, time_run, time_sync, reg, alarms, now_minute, pos,
                   scanned, fired, kept>>

(* Fault: the table is scanned in the first two seconds of a minute.       *)
SecondToScanTwice == time_info.sec <= 1

SecondToScan == time_info.sec = 0

(* The test for second 0, and datetime_check_alarm up to its loop.         *)
TestSecond ==
    /\ tpc = "second"
    /\ reg' = 0
    /\ IF SecondToScan
         THEN /\ tpc' = "scan" /\ pos' = 0
              /\ now_minute' = time_info.minute
              /\ scanned' = time_info.minute
              /\ fired' = {} /\ kept' = Slots
         ELSE tpc' = "idle" /\ UNCHANGED <<pos, now_minute, scanned, fired, kept>>
    /\ UNCHANGED <<real, heard, datetime, left, alarms>>

(* Bit tm_wday of the weekday mask.                                        *)
OnWeekday(a, minute) ==
    (a.weekday \div 2 ^ ((minute \div MinutesPerDay) % DaysPerWeek)) % 2 = 1

AtMinute(a, minute) == a.minutes = minute % MinutesPerDay

(* The loop goes on with the next slot, or the callback ends.              *)
NextSlot ==
    /\ pos' = pos + 1
    /\ tpc' = IF pos' = ALARM_NUMBER THEN "idle" ELSE "scan"

(* valid and minutes of a slot are read.                                   *)
ScanSlot ==
    /\ tpc = "scan"
    /\ IF Valid(alarms, pos) /\ AtMinute(alarms[pos], now_minute)
         THEN tpc' = "weekday" /\ pos' = pos
         ELSE NextSlot
    /\ UNCHANGED <<real, heard, datetime, reg, left, alarms, now_minute, scanned, fired, kept>>

(* Fault: the loop ends with the first alarm that fires.                   *)
ScanWeekdayOnce ==
    /\ tpc = "weekday"
    /\ IF Valid(alarms, pos) /\ OnWeekday(alarms[pos], now_minute)
         THEN fired' = fired \cup {pos} /\ tpc' = "idle" /\ pos' = ALARM_NUMBER
         ELSE fired' = fired /\ NextSlot
    /\ UNCHANGED <<real, heard, datetime, reg, left, alarms, now_minute, scanned, kept>>

(* Its weekday is read, whatever the slot holds by now.  `valid' is not    *)
(* tested again: of a slot that was invalidated in between the old weekday *)
(* is read, which is not kept here and may be any.                         *)
ScanWeekday ==
    /\ tpc = "weekday"
    /\ \/ /\ Valid(alarms, pos) => OnWeekday(alarms[pos], now_minute)
          /\ fired' = fired \cup {pos}
       \/ /\ Valid(alarms, pos) => ~OnWeekday(alarms[pos], now_minute)
          /\ fired' = fired
    /\ NextSlot
    /\ UNCHANGED <<real, heard, datetime, reg, left, alarms, now_minute, scanned, kept>>

---------------------------------------------------------------------------
(***************************************************************************)
(* The MQTT task changes the table.  The daemon sees such a change as one. *)
(***************************************************************************)
Changed(c) ==
    CASE c.op = "add" -> AddTo(alarms, c.alarm)
      [] c.op = "modify" -> ModifyIn(alarms, c.index, c.alarm)
      [] c.op = "delete" -> DeleteFrom(alarms, c.index)
      [] c.op = "clear" -> EmptyTable

ChangeTable ==
    /\ \E c \in Changes : alarms' = Changed(c)
    /\ kept' = {i \in kept : alarms'[i] = alarms[i]}
    /\ UNCHANGED <<real, heard, datetime, daemon, scanned, fired>>

(* True time.                                                              *)
RealTick ==
    /\ real < MaxTime
    /\ -MaxSkew < Ahead
    /\ real' = real + 1
    /\ UNCHANGED <<heard, datetime, daemon, alarms, scanned, fired, kept>>

Callback ==
    \/ TimerExpires \/ StoreRun \/ LoadNow \/ StoreNow \/ Localtime \/ WriteMember
    \/ TestSecond \/ ScanSlot \/ ScanWeekday

Next == DatetimeSet \/ Callback \/ ChangeTable \/ RealTick

Spec == Init /\ [][Next]_vars

---------------------------------------------------------------------------
(***************************************************************************)
(* Properties.                                                             *)
(***************************************************************************)

(* Every variable holds a value of its kind; no time is negative.          *)
TypeOK ==
    /\ {real, heard, time_now, time_run, reg} \subseteq Nat
    /\ time_on \in Int
    /\ time_info \in [Members -> Nat]
    /\ time_sync \in BOOLEAN
    /\ tpc \in {"idle", "run", "sync", "store", "local", "info", "second", "scan", "weekday"}
    /\ left \in SUBSET Members
    /\ alarms \in Tables
    /\ now_minute \in Nat
    /\ pos \in 0 .. ALARM_NUMBER
    /\ scanned \in Nat
    /\ fired \in SUBSET Slots /\ kept \in SUBSET Slots

(* Between two callbacks the table has been scanned for the minute that    *)
(* the clock shows: neither a correction nor a correction that is lost in  *)
(* the middle of an increment makes it jump over the test for second 0.    *)
(* The minute of the first announcement counts as scanned.                 *)
MinuteScanned == time_sync /\ tpc = "idle" => scanned = time_now \div MinuteLength

(* ... and minutes are scanned in turn, none twice: a clock that is set    *)
(* back does not repeat an alarm.                                          *)
EveryMinuteOnce == [][time_sync /\ TestSecond /\ SecondToScan => scanned' = scanned + 1]_vars

(* The power-on time of the system message is right up to drift and delay, *)
(* although the first announcement may interrupt time_run++.               *)
PowerOnTimeRight ==
    time_sync =>
        /\ time_on - PowerOn <= MaxSkew + 1
        /\ PowerOn - time_on <= MaxSkew + MaxDelay

(* The clock is right whatever an announcement interrupts: in what it      *)
(* shows, in what it has scanned, and in when the device was started.      *)
TimeRight == TypeOK /\ MinuteScanned /\ PowerOnTimeRight

(* Whatever the MQTT task does to the table during a scan, an alarm that   *)
(* stays in its slot fires if and only if it is due.                       *)
ScanExact ==
    \A i \in kept : i < pos =>
        (i \in fired <=>
            /\ Valid(alarms, i)
            /\ AtMinute(alarms[i], now_minute)
            /\ OnWeekday(alarms[i], now_minute))
============================================================================
