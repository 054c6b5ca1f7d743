---------------------------- MODULE ClockProofs ----------------------------
(***************************************************************************)
(* Two results about the clock, for every size of the table, every set of  *)
(* alarm commands and every interleaving of the timer daemon with the MQTT *)
(* and UDP tasks.                                                          *)
(*                                                                         *)
(* First, the alarm scan is exact for the alarms that stay in place.       *)
(*                                                                         *)
(* Second, the clock is right, and every minute is scanned once.  A        *)
(* correction comes at second 30, and drift and delay are less than the    *)
(* distance from there to either end of the minute; so a correction never  *)
(* changes the minute, and neither does an increment that overwrites one   *)
(* (Corrected).  The second case leaves the clock behind by more than the  *)
(* drift, but shortly after an announcement (Recent), and the next one at  *)
(* second 30 is a whole minute away (WholeMinutes).                        *)
(***************************************************************************)
EXTENDS Clock, TLAPS

(* An alarm that is due at the minute of the scan.                         *)
DueAt(i) ==
    /\ Valid(alarms, i)
    /\ AtMinute(alarms[i], now_minute)
    /\ OnWeekday(alarms[i], now_minute)

(* Where the loop of datetime_check_alarm stands.                          *)
LoopIndex ==
    /\ pos \in 0 .. ALARM_NUMBER
    /\ tpc \in {"scan", "weekday"} => pos < ALARM_NUMBER
    /\ kept \subseteq Slots

(* Only slots that the loop has left have fired.                           *)
FiredBehind == \A i \in fired : i \in Nat /\ i < pos

(* Between the test of a slot's minutes and that of its weekday the first  *)
(* one stays good, unless the MQTT task has written the slot.              *)
HalfTested ==
    tpc = "weekday" /\ pos \in kept => Valid(alarms, pos) /\ AtMinute(alarms[pos], now_minute)

Exact == \A i \in kept : i < pos => (i \in fired <=> DueAt(i))

IInv == LoopIndex /\ FiredBehind /\ HalfTested /\ Exact

(* The slots are the indices of the loop.                                  *)
LEMMA SlotFacts == ALARM_NUMBER \in Nat /\ ALARM_NUMBER > 0 /\ Slots = 0 .. ALARM_NUMBER - 1
  BY TableAssumption DEF Slots

(* Steps that leave the scan and the table alone.                          *)
LEMMA ScanUntouched ==
    ASSUME IInv, UNCHANGED <<alarms, now_minute, pos, fired, kept>>,
           tpc' \in {"scan", "weekday"} => tpc' = tpc
    PROVE  IInv'
  BY DEF IInv, LoopIndex, FiredBehind, HalfTested, Exact, DueAt, Valid, AtMinute, OnWeekday

(* Steps of the loop to the next slot, after a decision on this one.       *)
LEMMA LoopGoesOn ==
    ASSUME IInv, tpc \in {"scan", "weekday"}, NextSlot, UNCHANGED <<alarms, now_minute, kept>>,
           fired' \in {fired, fired \cup {pos}},
           pos \in kept => (pos \in fired' <=> DueAt(pos))
    PROVE  IInv'
<1>1. LoopIndex'
  BY SlotFacts DEF IInv, LoopIndex, NextSlot
<1>2. FiredBehind'
  BY DEF IInv, LoopIndex, FiredBehind, NextSlot
<1>3. HalfTested'
  BY DEF NextSlot, HalfTested
<1>4. Exact'
  <2> SUFFICES ASSUME NEW i \in kept, i < pos + 1
               PROVE  i \in fired' <=> DueAt(i)
    BY DEF Exact, NextSlot, DueAt, Valid, AtMinute, OnWeekday
  <2>1. i \in Nat /\ pos \in Nat
    BY SlotFacts DEF IInv, LoopIndex
  <2>2. CASE i = pos
    BY <2>2
  <2>3. CASE i # pos
    <3>1. i < pos
      BY <2>1, <2>3
    <3>2. i \in fired' <=> i \in fired
      BY <2>3
    <3> QED
      BY <3>1, <3>2 DEF IInv, Exact
  <2> QED
    BY <2>2, <2>3
<1> QED
  BY <1>1, <1>2, <1>3, <1>4 DEF IInv

(* The invariant of the loop holds at the start...                         *)
LEMMA LoopStarts == Init => IInv
  BY SlotFacts DEF Init, IInv, LoopIndex, FiredBehind, HalfTested, Exact

(* ... and every step keeps it.                                            *)
LEMMA LoopKept == IInv /\ [Next]_vars => IInv'
<1> SUFFICES ASSUME IInv, [Next]_vars PROVE IInv'
  OBVIOUS
<1>1. CASE DatetimeSet
  BY <1>1, ScanUntouched DEF DatetimeSet, daemon
<1>2. CASE TimerExpires \/ StoreRun \/ StoreNow \/ Localtime
  BY <1>2, ScanUntouched DEF TimerExpires, StoreRun, StoreNow, Localtime
<1>3. CASE LoadNow
  BY <1>3, ScanUntouched DEF LoadNow
<1>4. CASE WriteMember
  BY <1>4, ScanUntouched DEF WriteMember
<1>5. CASE TestSecond
  <2>1. CASE SecondToScan
    BY <1>5, <2>1, SlotFacts
    DEF TestSecond, IInv, LoopIndex, FiredBehind, HalfTested, Exact
  <2>2. CASE ~SecondToScan
    BY <1>5, <2>2, ScanUntouched DEF TestSecond
  <2> QED
    BY <2>1, <2>2
<1>6. CASE ScanSlot
  <2>1. CASE Valid(alarms, pos) /\ AtMinute(alarms[pos], now_minute)
    BY <1>6, <2>1
    DEF ScanSlot, IInv, LoopIndex, FiredBehind, HalfTested, Exact, DueAt, Valid, AtMinute,
        OnWeekday
  <2>2. CASE ~(Valid(alarms, pos) /\ AtMinute(alarms[pos], now_minute))
    <3>1. pos \notin fired
      BY <1>6 DEF IInv, LoopIndex, FiredBehind
    <3>2. ~DueAt(pos)
      BY <2>2 DEF DueAt
    <3> QED
      BY <1>6, <2>2, <3>1, <3>2, LoopGoesOn DEF ScanSlot
  <2> QED
    BY <2>1, <2>2
<1>7. CASE ScanWeekday
  <2>1. pos \notin fired
    BY <1>7 DEF IInv, LoopIndex, FiredBehind
  <2>2. pos \in kept => Valid(alarms, pos) /\ AtMinute(alarms[pos], now_minute)
    BY <1>7 DEF ScanWeekday, IInv, HalfTested
  <2>3. CASE fired' = fired \cup {pos} /\ (Valid(alarms, pos) => OnWeekday(alarms[pos], now_minute))
    BY <1>7, <2>2, <2>3, LoopGoesOn DEF ScanWeekday, DueAt
  <2>4. CASE fired' = fired /\ (Valid(alarms, pos) => ~OnWeekday(alarms[pos], now_minute))
    BY <1>7, <2>1, <2>2, <2>4, LoopGoesOn DEF ScanWeekday, DueAt
  <2> QED
    BY <1>7, <2>3, <2>4 DEF ScanWeekday
<1>8. CASE ChangeTable
  <2>1. kept' \subseteq kept /\ \A i \in kept' : alarms'[i] = alarms[i]
    BY <1>8 DEF ChangeTable
  <2>2. UNCHANGED <<tpc, pos, now_minute, fired>>
    BY <1>8 DEF ChangeTable, daemon
  <2> QED
    BY <2>1, <2>2
    DEF IInv, LoopIndex, FiredBehind, HalfTested, Exact, DueAt, Valid, AtMinute, OnWeekday
<1>9. CASE RealTick \/ UNCHANGED vars
  BY <1>9, ScanUntouched DEF RealTick, daemon, vars
<1> QED
  BY <1>1, <1>2, <1>3, <1>4, <1>5, <1>6, <1>7, <1>8, <1>9 DEF Next, Callback

(* Whatever the MQTT task does to the table while datetime_check_alarm     *)
(* runs, an alarm that stays in its slot fires if and only if it is due.   *)
THEOREM ScanIsExact == Spec => []ScanExact
<1>1. IInv => ScanExact
  BY DEF IInv, Exact, ScanExact, DueAt
<1> QED
  BY <1>1, LoopStarts, LoopKept, PTL DEF Spec

---------------------------------------------------------------------------
(***************************************************************************)
(* The clock itself.                                                       *)
(***************************************************************************)

(* True time has not gone far since the last correction at second 30.  As  *)
(* long as this is so, no other correction is possible.                    *)
Recent ==
    /\ heard % MinuteLength = SyncSecond
    /\ real <= heard + MaxSkew

(* Before the first announcement the device counts its running time.       *)
Counting ==
    ~time_sync =>
        /\ tpc \in {"idle", "run", "sync"}
        /\ time_run - (real - PowerOn) <= MaxSkew
        /\ (real - PowerOn) - time_run <= MaxSkew
        /\ tpc = "run" => reg = time_run /\ time_run - (real - PowerOn) < MaxSkew

(* A clock that may not drift does not run at all.                         *)
Still ==
    MaxSkew = 0 =>
        /\ tpc = "idle"
        /\ IF time_sync THEN time_now = real ELSE time_run = real - PowerOn

(* How far the clock is from true time.  It is behind by more than the     *)
(* drift only when an increment has overwritten a correction.              *)
Drift ==
    time_sync =>
        /\ time_now - real <= MaxSkew
        /\ real - time_now > MaxSkew => Recent
        /\ tpc \in {"run", "sync"} => time_now - real < MaxSkew
        /\ tpc = "store" => reg - real < MaxSkew /\ (real - reg > MaxSkew => Recent)

(* The minute for which the table must have been scanned before the clock  *)
(* is tested at time t.                                                    *)
Before(t) == IF t % MinuteLength = 0 THEN (t \div MinuteLength) - 1 ELSE t \div MinuteLength

(* A correction came after the daemon had loaded time_now; it was in the   *)
(* same minute.                                                            *)
Corrected ==
    /\ time_now = heard /\ Recent
    /\ reg % MinuteLength # 0
    /\ time_now \div MinuteLength = reg \div MinuteLength

Minutes ==
    time_sync =>
        /\ tpc \in {"idle", "run", "sync", "scan", "weekday"} =>
               scanned = time_now \div MinuteLength
        /\ tpc = "store" => scanned = reg \div MinuteLength
        /\ tpc = "local" => scanned = Before(time_now)
        /\ tpc \in {"info", "second"} => scanned = Before(reg)
        /\ tpc \in {"store", "info", "second"} => time_now = reg \/ Corrected

(* The members of time_info that localtime_r has written.                  *)
MembersWritten ==
    tpc \in {"info", "second"} =>
        /\ tpc = "second" => left = {}
        /\ "sec" \notin left => (time_info["sec"] = 0 <=> reg % MinuteLength = 0)
        /\ "minute" \notin left => time_info["minute"] = reg \div MinuteLength

(* The power-on time lies before the announcements it was computed from.   *)
PowerOnTime == time_sync => time_on <= heard /\ PowerOnTimeRight

ClockInv == TypeOK /\ Counting /\ Still /\ Drift /\ Minutes /\ MembersWritten /\ PowerOnTime

(* The assumption on the constants: a minute is longer than twice the      *)
(* drift and the delay, and second 30 lies in the middle of it.            *)
LEMMA Bounds ==
    /\ MinuteLength \in Nat \ {0} /\ SyncSecond \in Nat \ {0} /\ SyncSecond < MinuteLength
    /\ MaxSkew \in Nat /\ MaxDelay \in Nat /\ MaxDelay <= MaxSkew
    /\ MaxSkew + MaxDelay < SyncSecond /\ MaxSkew + MaxDelay < MinuteLength - SyncSecond
    /\ FirstTime \in Nat /\ PowerOn \in Nat
  BY ClockAssumption

(* Division with remainder...                                              *)
LEMMA Division ==
    ASSUME NEW n \in Nat, NEW d \in Nat \ {0}
    PROVE  /\ n \div d \in Nat
           /\ n % d \in 0 .. d - 1
           /\ n = d * (n \div d) + (n % d)
  OBVIOUS

(* ... is unique.                                                          *)
LEMMA Quotient ==
    ASSUME NEW d \in Nat \ {0}, NEW q \in Nat, NEW r \in 0 .. d - 1
    PROVE  (d * q + r) \div d = q /\ (d * q + r) % d = r
<1> DEFINE n == d * q + r
           p == n \div d
           s == n % d
<1>1. n \in Nat
  OBVIOUS
<1>2. p \in Nat /\ s \in 0 .. d - 1 /\ n = d * p + s
  BY <1>1, Division
<1>3. d * (p - q) = r - s
  BY <1>2
<1>4. p = q
  <2>1. CASE p > q
    <3>1. p - q >= 1 /\ p - q \in Int
      BY <2>1, <1>2
    <3>2. d * (p - q) >= d
      BY <3>1
    <3> QED
      BY <3>2, <1>2, <1>3
  <2>2. CASE p < q
    <3>1. p - q <= -1 /\ p - q \in Int
      BY <2>2, <1>2
    <3>2. d * (p - q) <= -d
      BY <3>1
    <3> QED
      BY <3>2, <1>2, <1>3
  <2> QED
    BY <2>1, <2>2, <1>2
<1> QED
  BY <1>2, <1>3, <1>4

(* Two times whose second is the same are whole minutes apart.             *)
LEMMA WholeMinutes ==
    ASSUME NEW h \in Nat, NEW t \in Nat, t % MinuteLength = h % MinuteLength, h < t
    PROVE  h + MinuteLength <= t
<1> DEFINE p == t \div MinuteLength
           q == h \div MinuteLength
<1>1. /\ p \in Nat /\ t = MinuteLength * p + (t % MinuteLength)
      /\ q \in Nat /\ h = MinuteLength * q + (h % MinuteLength)
      /\ t % MinuteLength \in Nat
  <2>1. p \in Nat /\ t = MinuteLength * p + (t % MinuteLength)
    BY Division, Bounds
  <2>2. q \in Nat /\ h = MinuteLength * q + (h % MinuteLength)
    BY Division, Bounds
  <2>3. t % MinuteLength \in Nat
    BY Bounds
  <2> QED
    BY <2>1, <2>2, <2>3
<1> HIDE DEF p, q
<1>2. t - h = MinuteLength * (p - q)
  BY <1>1, Bounds
<1>3. p - q >= 1
  <2>1. CASE p - q <= 0
    <3>1. MinuteLength * (p - q) <= 0
      BY <1>1, <2>1, Bounds
    <3> QED
      BY <1>2, <3>1
  <2> QED
    BY <1>1, <2>1
<1>4. MinuteLength * (p - q) >= MinuteLength
  BY <1>1, <1>3, Bounds
<1> QED
  BY <1>1, <1>2, <1>4, Bounds

(* A time less than half a minute from second 30 is in the same minute,    *)
(* and not at second 0.                                                    *)
LEMMA SameMinute ==
    ASSUME NEW t \in Nat, t % MinuteLength = SyncSecond, NEW n \in Nat,
           t - n < SyncSecond, n - t < MinuteLength - SyncSecond
    PROVE  n \div MinuteLength = t \div MinuteLength /\ n % MinuteLength # 0
<1> DEFINE q == t \div MinuteLength
           r == n - MinuteLength * q
<1>1. q \in Nat /\ t = MinuteLength * q + SyncSecond
  BY Division, Bounds
<1>2. MinuteLength * q \in Nat
  BY <1>1, Bounds
<1>3. r \in 1 .. MinuteLength - 1 /\ n = MinuteLength * q + r
  BY <1>1, <1>2, Bounds
<1> HIDE DEF q, r
<1>4. n \div MinuteLength = q /\ n % MinuteLength = r
  <2>1. r \in 0 .. MinuteLength - 1
    BY <1>3, Bounds
  <2> QED
    BY <1>1, <1>3, <2>1, Quotient, Bounds
<1> QED
  BY <1>3, <1>4 DEF q

(* A second later the minute before is the one of the second before.       *)
LEMMA NextSecond == ASSUME NEW n \in Nat PROVE Before(n + 1) = n \div MinuteLength
<1> DEFINE q == n \div MinuteLength
           r == n % MinuteLength
<1>1. q \in Nat /\ r \in 0 .. MinuteLength - 1 /\ n = MinuteLength * q + r
  BY Division, Bounds
<1> HIDE DEF q, r
<1>2. CASE r = MinuteLength - 1
  <2>1. n + 1 = MinuteLength * (q + 1) + 0
    BY <1>1, <1>2, Bounds
  <2>2. (n + 1) \div MinuteLength = q + 1 /\ (n + 1) % MinuteLength = 0
    BY <1>1, <2>1, Quotient, Bounds
  <2> QED
    BY <1>1, <2>2 DEF Before, q
<1>3. CASE r < MinuteLength - 1
  <2>1. n + 1 = MinuteLength * q + (r + 1) /\ r + 1 \in 1 .. MinuteLength - 1
    BY <1>1, <1>3, Bounds
  <2>2. (n + 1) \div MinuteLength = q /\ (n + 1) % MinuteLength = r + 1
    BY <1>1, <2>1, Quotient, Bounds
  <2> QED
    BY <2>1, <2>2 DEF Before, q
<1> QED
  BY <1>1, <1>2, <1>3, Bounds

(* Numbers that ClockInv speaks of.                                        *)
LEMMA Numbers ==
    ASSUME TypeOK
    PROVE  /\ real \in Nat /\ heard \in Nat /\ time_now \in Nat /\ time_run \in Nat /\ reg \in Nat
           /\ time_on \in Int /\ scanned \in Nat /\ time_sync \in BOOLEAN
  BY DEF TypeOK

(* Minutes and seconds are natural numbers.                                *)
LEMMA BrokenType ==
    ASSUME NEW t \in Nat
    PROVE  /\ t \div MinuteLength \in Nat /\ t % MinuteLength \in Nat
           /\ Broken(t) \in [Members -> Nat]
           /\ \A m \in Members : MemberOf(t, m) \in Nat
<1>1. t \div MinuteLength \in Nat /\ t % MinuteLength \in Nat
  BY Bounds
<1>2. \A m \in Members : MemberOf(t, m) \in Nat
  BY <1>1 DEF MemberOf
<1> QED
  BY <1>1, <1>2 DEF Broken

(* A correction of a synchronised clock stays in the minute that the clock *)
(* shows, which is not at second 0, and no other correction came shortly   *)
(* before.                                                                 *)
LEMMA CorrectionInMinute ==
    ASSUME ClockInv, time_sync, NEW t \in Nat, t >= real - MaxDelay, t <= real, t > heard,
           t % MinuteLength = SyncSecond
    PROVE  /\ ~Recent
           /\ time_now \div MinuteLength = t \div MinuteLength
           /\ time_now % MinuteLength # 0
<1>1. real \in Nat /\ heard \in Nat /\ time_now \in Nat
  BY Numbers DEF ClockInv
<1>2. ~Recent
  <2> SUFFICES ASSUME Recent PROVE FALSE
    OBVIOUS
  <2>1. heard + MinuteLength <= t
    BY <1>1, WholeMinutes DEF Recent
  <2> QED
    BY <2>1, <1>1, Bounds DEF Recent
<1>3. time_now - real <= MaxSkew /\ real - time_now <= MaxSkew
  BY <1>1, <1>2, Bounds DEF ClockInv, Drift
<1>4. t - time_now < SyncSecond /\ time_now - t < MinuteLength - SyncSecond
  BY <1>1, <1>3, Bounds
<1>5. /\ time_now \div MinuteLength = t \div MinuteLength
      /\ time_now % MinuteLength # 0
  BY <1>1, <1>4, SameMinute
<1> QED
  BY <1>2, <1>5

(* The first announcement.                                                 *)
LEMMA FirstAnnouncement ==
    ASSUME ClockInv, ~time_sync, DatetimeSet
    PROVE  ClockInv'
<1>1. PICK t \in real - MaxDelay .. real : t > heard /\ Corrects(t) /\ SetClock(t)
  BY DEF DatetimeSet
<1>2. /\ real \in Nat /\ heard \in Nat /\ time_run \in Nat /\ reg \in Nat /\ time_on \in Int
      /\ tpc \in {"idle", "run", "sync"}
      /\ time_run - (real - PowerOn) <= MaxSkew
      /\ (real - PowerOn) - time_run <= MaxSkew
  BY Numbers DEF ClockInv, Counting
<1>3. t \in Nat
  BY <1>1, <1>2, Bounds DEF Corrects, Accepted
<1>4. /\ time_info' = Broken(t) /\ time_now' = t /\ time_sync' = TRUE
      /\ time_on' = t - time_run /\ time_run' = t - (t - time_run)
      /\ heard' = t /\ scanned' = t \div MinuteLength
      /\ UNCHANGED <<real, tpc, reg, left, now_minute, pos, alarms, fired, kept>>
  BY <1>1 DEF SetClock, DatetimeSet, daemon
<1>5. time_run' = time_run
  BY <1>2, <1>3, <1>4
<1>6. TypeOK'
  BY <1>2, <1>3, <1>4, <1>5, BrokenType DEF ClockInv, TypeOK
<1>7. Counting' /\ Minutes' /\ MembersWritten'
  BY <1>2, <1>4 DEF Counting, Minutes, MembersWritten
<1>8. MaxSkew = 0 => tpc = "idle" /\ time_now' = real
  BY <1>1, <1>2, <1>4, Bounds DEF ClockInv, Still
<1>9. Still'
  BY <1>4, <1>8 DEF Still
<1>10. Drift'
  <2>1. t - real <= 0 /\ real - t <= MaxSkew
    BY <1>1, <1>2, <1>3, Bounds
  <2>2. tpc # "idle" => MaxSkew > 0
    BY <1>8, Bounds
  <2> QED
    BY <1>2, <1>3, <1>4, <2>1, <2>2, Bounds DEF Drift
<1>11. PowerOnTime'
  BY <1>1, <1>2, <1>3, <1>4, Bounds DEF PowerOnTime, PowerOnTimeRight
<1> QED
  BY <1>6, <1>7, <1>9, <1>10, <1>11 DEF ClockInv

(* A later announcement.                                                   *)
LEMMA Correction ==
    ASSUME ClockInv, time_sync, DatetimeSet
    PROVE  ClockInv'
<1>1. PICK t \in real - MaxDelay .. real : t > heard /\ Corrects(t) /\ SetClock(t)
  BY DEF DatetimeSet
<1>2. /\ real \in Nat /\ heard \in Nat /\ time_run \in Nat /\ reg \in Nat /\ time_on \in Int
      /\ time_now \in Nat /\ time_on <= heard
  BY Numbers DEF ClockInv, PowerOnTime
<1>3. t \in Nat /\ t % MinuteLength = SyncSecond
  BY <1>1, <1>2, Bounds DEF Corrects, Accepted
<1>4. /\ time_info' = Broken(t) /\ time_now' = t /\ time_sync' = TRUE
      /\ time_on' = time_on /\ time_run' = t - time_on
      /\ heard' = t /\ scanned' = scanned
      /\ UNCHANGED <<real, tpc, reg, left, now_minute, pos, alarms, fired, kept>>
  BY <1>1 DEF SetClock, DatetimeSet, daemon
<1>5. /\ ~Recent
      /\ time_now \div MinuteLength = t \div MinuteLength
      /\ time_now % MinuteLength # 0
  BY <1>1, <1>2, <1>3, CorrectionInMinute
<1>6. Recent'
  BY <1>1, <1>2, <1>3, <1>4, Bounds DEF Recent
<1>7. TypeOK'
  BY <1>1, <1>2, <1>3, <1>4, BrokenType DEF ClockInv, TypeOK
<1>8. MaxSkew = 0 => tpc = "idle" /\ time_now' = real
  BY <1>1, <1>2, <1>4, Bounds DEF ClockInv, Still
<1>9. Still' /\ Counting'
  BY <1>4, <1>8 DEF Still, Counting
<1>10. Drift'
  <2>1. t - real <= 0
    BY <1>1, <1>2, <1>3
  <2>2. tpc # "idle" => MaxSkew > 0
    BY <1>8, Bounds
  <2>3. tpc = "store" => reg - real < MaxSkew
    BY DEF ClockInv, Drift
  <2> QED
    BY <1>2, <1>3, <1>4, <1>6, <2>1, <2>2, <2>3, Bounds DEF Drift
<1>11. tpc \in {"store", "info", "second"} => time_now = reg
  BY <1>5 DEF ClockInv, Minutes, Corrected
<1>12. Minutes'
  <2>1. tpc \in {"store", "info", "second"} => Corrected'
    BY <1>4, <1>5, <1>6, <1>11 DEF Corrected
  <2>2. Before(time_now) = t \div MinuteLength /\ Before(t) = t \div MinuteLength
    BY <1>3, <1>5, Bounds DEF Before
  <2> QED
    BY <1>4, <1>5, <1>11, <2>1, <2>2 DEF Minutes, ClockInv, Before
<1>13. MembersWritten'
  <2> SUFFICES ASSUME tpc \in {"info", "second"}
               PROVE  MembersWritten'
    BY <1>4 DEF MembersWritten
  <2>1. Broken(t)["sec"] = SyncSecond /\ Broken(t)["minute"] = t \div MinuteLength
    BY <1>3 DEF Broken, Members, MemberOf
  <2>2. reg % MinuteLength # 0 /\ reg \div MinuteLength = t \div MinuteLength
    BY <1>5, <1>11
  <2>3. tpc = "second" => left = {}
    BY DEF ClockInv, MembersWritten
  <2> QED
    BY <1>4, <2>1, <2>2, <2>3, Bounds DEF MembersWritten
<1>14. PowerOnTime'
  BY <1>1, <1>2, <1>3, <1>4 DEF ClockInv, PowerOnTime, PowerOnTimeRight
<1> QED
  BY <1>7, <1>9, <1>10, <1>12, <1>13, <1>14 DEF ClockInv

(* Steps that leave the times alone and move within the same phase of the  *)
(* callback.                                                               *)
LEMMA ClockUntouched ==
    ASSUME ClockInv, TypeOK',
           UNCHANGED <<real, heard, datetime, reg, left, scanned>>,
           \/ tpc' = tpc
           \/ tpc \in {"scan", "weekday"} /\ tpc' \in {"idle", "scan", "weekday"}
    PROVE  ClockInv'
<1>1. Counting' /\ Still'
  BY DEF ClockInv, Counting, Still, datetime
<1>2. Drift' /\ PowerOnTime'
  BY DEF ClockInv, Drift, Recent, PowerOnTime, PowerOnTimeRight, datetime
<1>3. Minutes' /\ MembersWritten'
  BY DEF ClockInv, Minutes, MembersWritten, Corrected, Recent, Before, datetime
<1> QED
  BY <1>1, <1>2, <1>3 DEF ClockInv

(* A clock that is between two callbacks and not ahead of its drift can    *)
(* drift.                                                                  *)
LEMMA TimerExpiresKeeps == ASSUME ClockInv, TimerExpires PROVE ClockInv'
<1>1. /\ tpc = "idle" /\ tpc' = "run" /\ reg' = time_run /\ Ahead < MaxSkew
      /\ UNCHANGED <<real, heard, time_now, time_on, time_run, time_info, time_sync, left, alarms,
                     now_minute, pos, scanned, fired, kept>>
  BY DEF TimerExpires, datetime
<1>2. /\ real \in Nat /\ heard \in Nat /\ time_now \in Nat /\ time_run \in Nat
      /\ time_sync \in BOOLEAN
  BY Numbers DEF ClockInv
<1>3. TypeOK'
  BY <1>1, <1>2 DEF ClockInv, TypeOK
<1>4. MaxSkew # 0
  BY <1>1, <1>2, Bounds DEF ClockInv, Still, Ahead
<1>5. Still' /\ Counting'
  BY <1>1, <1>2, <1>4, Bounds DEF ClockInv, Still, Counting, Ahead
<1>6. Drift'
  BY <1>1, <1>2 DEF ClockInv, Drift, Recent, Ahead
<1>7. Minutes' /\ MembersWritten'
  BY <1>1 DEF ClockInv, Minutes, MembersWritten
<1>8. PowerOnTime'
  BY <1>1 DEF ClockInv, PowerOnTime, PowerOnTimeRight
<1> QED
  BY <1>3, <1>5, <1>6, <1>7, <1>8 DEF ClockInv

(* time_run++ is stored.                                                   *)
LEMMA StoreRunKeeps == ASSUME ClockInv, StoreRun PROVE ClockInv'
<1>1. /\ tpc = "run" /\ tpc' = "sync" /\ time_run' = reg + 1
      /\ UNCHANGED <<real, heard, time_now, time_on, time_info, time_sync, reg, left, alarms,
                     now_minute, pos, scanned, fired, kept>>
  BY DEF StoreRun
<1>2. /\ real \in Nat /\ time_run \in Nat /\ reg \in Nat /\ time_sync \in BOOLEAN
  BY Numbers DEF ClockInv
<1>3. TypeOK'
  BY <1>1, <1>2 DEF ClockInv, TypeOK
<1>4. Still' /\ Counting'
  BY <1>1, <1>2, Bounds DEF ClockInv, Still, Counting
<1>5. Drift'
  BY <1>1 DEF ClockInv, Drift, Recent
<1>6. Minutes' /\ MembersWritten' /\ PowerOnTime'
  BY <1>1 DEF ClockInv, Minutes, MembersWritten, PowerOnTime, PowerOnTimeRight
<1> QED
  BY <1>3, <1>4, <1>5, <1>6 DEF ClockInv

(* time_sync is tested and time_now loaded.                                *)
LEMMA LoadNowKeeps == ASSUME ClockInv, LoadNow PROVE ClockInv'
<1>1. /\ tpc = "sync"
      /\ IF time_sync THEN tpc' = "store" /\ reg' = time_now ELSE tpc' = "idle" /\ reg' = 0
      /\ UNCHANGED <<real, heard, time_now, time_on, time_run, time_info, time_sync, left, alarms,
                     now_minute, pos, scanned, fired, kept>>
  BY DEF LoadNow, datetime
<1>2. time_now \in Nat /\ time_sync \in BOOLEAN
  BY Numbers DEF ClockInv
<1>3. TypeOK'
  BY <1>1, <1>2 DEF ClockInv, TypeOK
<1>4. Still' /\ Counting'
  BY <1>1, <1>2 DEF ClockInv, Still, Counting
<1>5. Drift'
  BY <1>1, <1>2 DEF ClockInv, Drift, Recent
<1>6. Minutes' /\ MembersWritten' /\ PowerOnTime'
  BY <1>1, <1>2 DEF ClockInv, Minutes, MembersWritten, PowerOnTime, PowerOnTimeRight
<1> QED
  BY <1>3, <1>4, <1>5, <1>6 DEF ClockInv

(* time_now++ is stored, over a correction or not: either way the value it *)
(* replaces is a second younger than the new one, and of the same minute   *)
(* as the correction.                                                      *)
LEMMA StoreNowKeeps == ASSUME ClockInv, StoreNow PROVE ClockInv'
<1>1. /\ tpc = "store" /\ tpc' = "local" /\ time_now' = reg + 1
      /\ UNCHANGED <<real, heard, time_on, time_run, time_info, time_sync, reg, left, alarms,
                     now_minute, pos, scanned, fired, kept>>
  BY DEF StoreNow
<1>2. real \in Nat /\ reg \in Nat /\ time_sync \in BOOLEAN
  BY Numbers DEF ClockInv
<1>3. TypeOK'
  BY <1>1, <1>2 DEF ClockInv, TypeOK
<1>4. time_sync
  BY <1>1 DEF ClockInv, Counting
<1>5. Still' /\ Counting'
  BY <1>1, <1>4 DEF ClockInv, Still, Counting
<1>6. Drift'
  BY <1>1, <1>2, <1>4, Bounds DEF ClockInv, Drift, Recent
<1>7. scanned' = Before(time_now')
  BY <1>1, <1>2, <1>4, NextSecond DEF ClockInv, Minutes
<1>8. Minutes' /\ MembersWritten' /\ PowerOnTime'
  <2>1. Minutes'
    BY <1>1, <1>7 DEF Minutes, Before
  <2> QED
    BY <1>1, <2>1 DEF ClockInv, MembersWritten, PowerOnTime, PowerOnTimeRight
<1> QED
  BY <1>3, <1>5, <1>6, <1>8 DEF ClockInv

(* localtime_r reads the time.                                             *)
LEMMA LocaltimeKeeps == ASSUME ClockInv, Localtime PROVE ClockInv'
<1>1. /\ tpc = "local" /\ tpc' = "info" /\ reg' = time_now /\ left' = Members
      /\ UNCHANGED <<real, heard, time_now, time_on, time_run, time_info, time_sync, alarms,
                     now_minute, pos, scanned, fired, kept>>
  BY DEF Localtime, datetime
<1>2. time_now \in Nat
  BY Numbers DEF ClockInv
<1>3. TypeOK'
  BY <1>1, <1>2 DEF ClockInv, TypeOK
<1>4. Still' /\ Counting' /\ PowerOnTime'
  BY <1>1 DEF ClockInv, Still, Counting, PowerOnTime, PowerOnTimeRight
<1>5. Drift'
  BY <1>1 DEF ClockInv, Drift, Recent
<1>6. Minutes' /\ MembersWritten'
  BY <1>1 DEF ClockInv, Minutes, MembersWritten, Members, Before
<1> QED
  BY <1>3, <1>4, <1>5, <1>6 DEF ClockInv

(* ... and writes a member of time_info.                                   *)
LEMMA WriteMemberKeeps == ASSUME ClockInv, WriteMember PROVE ClockInv'
<1>1. PICK m \in left : /\ time_info' = [time_info EXCEPT ![m] = MemberOf(reg, m)]
                        /\ left' = left \ {m}
  BY DEF WriteMember
<1>2. /\ tpc = "info" /\ tpc' \in {"info", "second"} /\ (tpc' = "second" => left' = {})
      /\ UNCHANGED <<real, heard, time_now, time_on, time_run, time_sync, reg, alarms, now_minute,
                     pos, scanned, fired, kept>>
  BY DEF WriteMember
<1>3. reg \in Nat /\ left \subseteq Members /\ time_info \in [Members -> Nat]
  BY DEF ClockInv, TypeOK
<1>4. time_info' \in [Members -> Nat]
  BY <1>1, <1>3, BrokenType
<1>5. TypeOK'
  BY <1>1, <1>2, <1>3, <1>4 DEF ClockInv, TypeOK
<1>6. Still' /\ Counting' /\ PowerOnTime'
  BY <1>2 DEF ClockInv, Still, Counting, PowerOnTime, PowerOnTimeRight
<1>7. Drift'
  BY <1>2 DEF ClockInv, Drift, Recent
<1>8. Minutes'
  BY <1>2 DEF ClockInv, Minutes, Corrected, Recent, Before
<1>9. MembersWritten'
  <2>1. "sec" \notin left' => (time_info'["sec"] = 0 <=> reg % MinuteLength = 0)
    BY <1>1, <1>2, <1>3 DEF ClockInv, MembersWritten, Members, MemberOf
  <2>2. "minute" \notin left' => time_info'["minute"] = reg \div MinuteLength
    BY <1>1, <1>2, <1>3 DEF ClockInv, MembersWritten, Members, MemberOf
  <2> QED
    BY <1>2, <2>1, <2>2 DEF MembersWritten
<1> QED
  BY <1>5, <1>6, <1>7, <1>8, <1>9 DEF ClockInv

(* What the callback knows when it tests for second 0.                     *)
LEMMA AtTheTest ==
    ASSUME ClockInv, tpc = "second"
    PROVE  /\ SecondToScan <=> reg % MinuteLength = 0
           /\ time_info["minute"] = reg \div MinuteLength
           /\ scanned = Before(reg)
           /\ time_now \div MinuteLength = reg \div MinuteLength
           /\ time_sync
<1>1. time_sync
  BY DEF ClockInv, Counting, TypeOK
<1>2. SecondToScan <=> reg % MinuteLength = 0
  BY DEF ClockInv, MembersWritten, SecondToScan
<1>3. time_info["minute"] = reg \div MinuteLength
  BY DEF ClockInv, MembersWritten
<1>4. scanned = Before(reg) /\ time_now \div MinuteLength = reg \div MinuteLength
  BY <1>1 DEF ClockInv, Minutes, Corrected
<1> QED
  BY <1>1, <1>2, <1>3, <1>4

(* The test for second 0.                                                  *)
LEMMA TestSecondKeeps == ASSUME ClockInv, TestSecond PROVE ClockInv'
<1>1. /\ tpc = "second" /\ reg' = 0 /\ tpc' \in {"scan", "idle"}
      /\ UNCHANGED <<real, heard, time_now, time_on, time_run, time_info, time_sync, left, alarms>>
  BY DEF TestSecond, datetime
<1>2. reg \in Nat
  BY Numbers DEF ClockInv
<1>3. TypeOK'
  <2>1. /\ pos' \in 0 .. ALARM_NUMBER /\ now_minute' \in Nat /\ scanned' \in Nat
        /\ fired' \subseteq Slots /\ kept' \subseteq Slots
    <3>1. time_info["minute"] \in Nat
      BY <1>1, <1>2, AtTheTest, BrokenType
    <3>2. CASE SecondToScan
      BY <3>1, <3>2, SlotFacts DEF TestSecond
    <3>3. CASE ~SecondToScan
      BY <3>3 DEF TestSecond, ClockInv, TypeOK
    <3> QED
      BY <3>2, <3>3
  <2> QED
    BY <1>1, <2>1 DEF ClockInv, TypeOK
<1>4. MaxSkew # 0
  BY <1>1 DEF ClockInv, Still
<1>5. Still' /\ Counting' /\ PowerOnTime'
  BY <1>1, <1>4, AtTheTest DEF ClockInv, Still, Counting, PowerOnTime, PowerOnTimeRight
<1>6. Drift'
  BY <1>1 DEF ClockInv, Drift, Recent
<1>7. scanned' = time_now \div MinuteLength
  BY <1>1, AtTheTest DEF TestSecond, Before
<1>8. Minutes' /\ MembersWritten'
  BY <1>1, <1>7 DEF Minutes, MembersWritten
<1> QED
  BY <1>3, <1>5, <1>6, <1>8 DEF ClockInv

(* True time goes on, as long as the clock is not too far behind.          *)
LEMMA RealTickKeeps == ASSUME ClockInv, RealTick PROVE ClockInv'
<1>1. /\ real' = real + 1 /\ -MaxSkew < Ahead
      /\ UNCHANGED <<heard, time_now, time_on, time_run, time_info, time_sync, tpc, reg, left,
                     now_minute, pos, alarms, scanned, fired, kept>>
  BY DEF RealTick, datetime, daemon
<1>2. /\ real \in Nat /\ heard \in Nat /\ time_now \in Nat /\ time_run \in Nat /\ reg \in Nat
      /\ time_sync \in BOOLEAN
  BY Numbers DEF ClockInv
<1>3. TypeOK'
  BY <1>1, <1>2 DEF ClockInv, TypeOK
<1>4. MaxSkew # 0
  BY <1>1, <1>2, Bounds DEF ClockInv, Still, Ahead
<1>5. Still' /\ Counting' /\ PowerOnTime'
  BY <1>1, <1>2, <1>4, Bounds
  DEF ClockInv, Still, Counting, PowerOnTime, PowerOnTimeRight, Ahead
<1>6. time_sync => real' - time_now <= MaxSkew
  BY <1>1, <1>2, Bounds DEF Ahead
<1>7. time_sync /\ Corrected => Corrected'
  BY <1>1, <1>2, <1>6, Bounds DEF Corrected, Recent
<1>8. Drift'
  <2> SUFFICES ASSUME time_sync PROVE Drift'
    BY <1>1 DEF Drift
  <2>1. tpc = "store" => reg - real' < MaxSkew /\ (real' - reg > MaxSkew => Recent')
    BY <1>1, <1>2, <1>6, <1>7, Bounds DEF ClockInv, Drift, Minutes, Corrected
  <2> QED
    BY <1>1, <1>2, <1>6, <2>1, Bounds DEF ClockInv, Drift
<1>9. Minutes' /\ MembersWritten'
  BY <1>1, <1>7 DEF ClockInv, Minutes, MembersWritten, Before
<1> QED
  BY <1>3, <1>5, <1>8, <1>9 DEF ClockInv

(* A command leaves a table.                                               *)
LEMMA ChangedType ==
    ASSUME alarms \in Tables, NEW c \in Changes
    PROVE  Changed(c) \in Tables
<1>1. EmptyTable \in Tables
  BY DEF EmptyTable, Tables
<1>2. ASSUME NEW a \in Alarm, NEW i PROVE [alarms EXCEPT ![i] = a] \in Tables
  BY DEF Tables
<1>3. ASSUME NEW i \in Nat PROVE DeleteFrom(alarms, i) \in Tables
  BY SlotFacts DEF DeleteFrom, Tables
<1>4. CASE c.op = "add"
  <2>1. c.alarm \in Alarm
    BY <1>4, ClockAssumption
  <2>2. AddTo(alarms, c.alarm) \in Tables
    BY <1>2, <2>1 DEF AddTo
  <2> QED
    BY <1>4, <2>2 DEF Changed
<1>5. CASE c.op = "modify"
  <2>1. c.alarm \in Alarm
    BY <1>5, ClockAssumption
  <2>2. ModifyIn(alarms, c.index, c.alarm) \in Tables
    BY <1>2, <2>1 DEF ModifyIn
  <2> QED
    BY <1>5, <2>2 DEF Changed
<1>6. CASE c.op = "delete"
  <2>1. c.index \in Nat
    BY <1>6, ClockAssumption
  <2> QED
    BY <1>3, <1>6, <2>1 DEF Changed
<1>7. CASE c.op = "clear"
  BY <1>1, <1>7 DEF Changed
<1>8. c.op \in {"add", "modify", "delete", "clear"}
  BY ClockAssumption
<1> QED
  BY <1>4, <1>5, <1>6, <1>7, <1>8

(* The type invariant over the loop and over a change of the table.        *)
LEMMA ScanType ==
    ASSUME ClockInv, IInv, ScanSlot \/ ScanWeekday \/ ChangeTable
    PROVE  TypeOK'
<1>1. CASE ScanSlot
  <2>1. pos' \in 0 .. ALARM_NUMBER /\ tpc' \in {"idle", "scan", "weekday"}
    BY <1>1, SlotFacts DEF ScanSlot, NextSlot, IInv, LoopIndex
  <2> QED
    BY <1>1, <2>1 DEF ScanSlot, datetime, ClockInv, TypeOK
<1>2. CASE ScanWeekday
  <2>1. pos' \in 0 .. ALARM_NUMBER /\ tpc' \in {"idle", "scan", "weekday"}
    BY <1>2, SlotFacts DEF ScanWeekday, NextSlot, IInv, LoopIndex
  <2>2. fired' \subseteq Slots
    BY <1>2, SlotFacts DEF ScanWeekday, IInv, LoopIndex, ClockInv, TypeOK
  <2> QED
    BY <1>2, <2>1, <2>2 DEF ScanWeekday, datetime, ClockInv, TypeOK
<1>3. CASE ChangeTable
  <2>1. alarms' \in Tables
    BY <1>3, ChangedType DEF ChangeTable, ClockInv, TypeOK
  <2>2. kept' \subseteq Slots
    BY <1>3 DEF ChangeTable, ClockInv, TypeOK
  <2> QED
    BY <1>3, <2>1, <2>2 DEF ChangeTable, datetime, daemon, ClockInv, TypeOK
<1> QED
  BY <1>1, <1>2, <1>3

(* The loop of the scan and the MQTT task leave the clock alone.           *)
LEMMA ScanKeeps ==
    ASSUME ClockInv, IInv, ScanSlot \/ ScanWeekday \/ ChangeTable
    PROVE  ClockInv'
<1>1. UNCHANGED <<real, heard, datetime, reg, left, scanned>>
  BY DEF ScanSlot, ScanWeekday, ChangeTable, daemon
<1>2. \/ tpc' = tpc
      \/ tpc \in {"scan", "weekday"} /\ tpc' \in {"idle", "scan", "weekday"}
  BY DEF ScanSlot, ScanWeekday, ChangeTable, NextSlot, daemon
<1> QED
  BY <1>1, <1>2, ScanType, ClockUntouched

(* The clock's invariant, together with that of the loop.                  *)
THEOREM ClockKept == Spec => [](ClockInv /\ IInv)
<1>1. Init => ClockInv
  <2> SUFFICES ASSUME Init PROVE ClockInv
    OBVIOUS
  <2>1. TypeOK
    <3>1. EmptyTable \in Tables
      BY DEF EmptyTable, Tables
    <3>2. Broken(0) \in [Members -> Nat]
      BY BrokenType
    <3>3. /\ pos \in 0 .. ALARM_NUMBER /\ real \in Nat /\ heard \in Nat /\ time_now \in Nat
          /\ time_run \in Nat /\ reg \in Nat /\ time_on \in Int /\ now_minute \in Nat
          /\ scanned \in Nat
      BY SlotFacts, Bounds DEF Init
    <3>4. /\ tpc = "idle" /\ time_sync \in BOOLEAN /\ left = {} /\ fired = {} /\ kept = {}
          /\ time_info = Broken(0) /\ alarms = EmptyTable
      BY DEF Init
    <3>5. {real, heard, time_now, time_run, reg} \subseteq Nat
      BY <3>3
    <3> QED
      BY <3>1, <3>2, <3>3, <3>4, <3>5, Zenon DEF TypeOK
  <2>2. Counting /\ Still
    BY Bounds DEF Init, Counting, Still
  <2>3. Drift /\ Minutes /\ MembersWritten /\ PowerOnTime
    BY DEF Init, Drift, Minutes, MembersWritten, PowerOnTime
  <2> QED
    BY <2>1, <2>2, <2>3 DEF ClockInv
<1>2. ClockInv /\ IInv /\ [Next]_vars => ClockInv'
  <2> SUFFICES ASSUME ClockInv, IInv, [Next]_vars PROVE ClockInv'
    OBVIOUS
  <2>1. CASE DatetimeSet
    BY <2>1, FirstAnnouncement, Correction
  <2>2. CASE TimerExpires \/ StoreRun \/ LoadNow
    BY <2>2, TimerExpiresKeeps, StoreRunKeeps, LoadNowKeeps
  <2>3. CASE StoreNow \/ Localtime \/ WriteMember
    BY <2>3, StoreNowKeeps, LocaltimeKeeps, WriteMemberKeeps
  <2>4. CASE TestSecond \/ RealTick
    BY <2>4, TestSecondKeeps, RealTickKeeps
  <2>5. CASE ScanSlot \/ ScanWeekday \/ ChangeTable
    BY <2>5, ScanKeeps
  <2>6. CASE UNCHANGED vars
    <3>1. TypeOK'
      BY <2>6 DEF vars, ClockInv, TypeOK
    <3> QED
      BY <2>6, <3>1, ClockUntouched DEF vars, datetime
  <2> QED
    BY <2>1, <2>2, <2>3, <2>4, <2>5, <2>6 DEF Next, Callback
<1> QED
  BY <1>1, <1>2, LoopStarts, LoopKept, PTL DEF Spec

(* The clock is right, for every length of the minute, second of the       *)
(* correction, drift and delay that satisfy the assumption, and whatever   *)
(* the announcements interrupt: between two callbacks the table has been   *)
(* scanned for the minute that the clock shows, and the power-on time is   *)
(* right up to drift and delay.                                            *)
THEOREM TimeAlwaysRight == Spec => []TimeRight
<1>1. ClockInv => TimeRight
  BY DEF ClockInv, Minutes, PowerOnTime, TimeRight, MinuteScanned, PowerOnTimeRight
<1> QED
  BY <1>1, ClockKept, PTL

(* No minute is left out by the scan and none is scanned twice: a          *)
(* correction sets the clock neither back nor forward over second 0, and   *)
(* one that is lost in an increment does not either.                       *)
THEOREM MinutesScannedOnce == Spec => EveryMinuteOnce
<1>1. ClockInv => [time_sync /\ TestSecond /\ SecondToScan => scanned' = scanned + 1]_vars
  <2> SUFFICES ASSUME ClockInv, TestSecond, SecondToScan PROVE scanned' = scanned + 1
    OBVIOUS
  <2>1. tpc = "second" /\ scanned' = time_info["minute"]
    BY DEF TestSecond
  <2>2. reg \in Nat
    BY Numbers DEF ClockInv
  <2>3. scanned = (reg \div MinuteLength) - 1 /\ scanned' = reg \div MinuteLength
    BY <2>1, AtTheTest DEF Before
  <2> QED
    BY <2>2, <2>3, BrokenType
<1> QED
  BY <1>1, ClockKept, PTL DEF EveryMinuteOnce
============================================================================
