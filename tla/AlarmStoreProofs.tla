------------------------- MODULE AlarmStoreProofs -------------------------
(***************************************************************************)
(* Proofs about AlarmStore, for every size of the table, every width of    *)
(* the packed fields and every set of commands.                            *)
(***************************************************************************)
EXTENDS AlarmStore, WellFoundedInduction, SequenceTheorems, TLAPS

(***************************************************************************)
(* Lemmas about the table.                                                 *)
(***************************************************************************)

(* The loops of csro_alarm_add that stop at the first slot that qualifies  *)
(* find the lowest one.                                                    *)
LEMMA LowestIsLowest ==
  ASSUME NEW S \in SUBSET Nat, S # {}
  PROVE  /\ Lowest(S) \in S
         /\ \A j \in S : Lowest(S) <= j
<1>1. \E m \in S : \A j \in S : ~(<<j, m>> \in OpToRel(<, Nat))
  BY NatLessThanWellFounded, WFMin
<1>2. PICK m \in S : \A j \in S : ~(<<j, m>> \in OpToRel(<, Nat))
  BY <1>1
<1>3. ASSUME NEW j \in S PROVE m <= j
  <2>1. j \in Nat /\ m \in Nat
    OBVIOUS
  <2>2. ~(j < m)
    BY <1>2, <2>1 DEF OpToRel
  <2> QED
    BY <2>1, <2>2
<1> QED
  BY <1>3 DEF Lowest

(* Quotient and remainder, as the masks and shifts of                      *)
(* load_alarm_from_nvs take a word apart.                                  *)
LEMMA Division ==
  ASSUME NEW n \in Nat, NEW d \in Nat \ {0}
  PROVE  /\ n \div d \in Nat
         /\ n % d \in 0 .. d - 1
         /\ n = d * (n \div d) + (n % d)
OBVIOUS

(* A packed alarm is a 32-bit word.                                        *)
LEMMA PackType ==
  ASSUME NEW a \in Alarm
  PROVE  Pack(a) \in Words
<1>1. WordSpan \in Nat /\ WordSpan > 0
  BY TableAssumption DEF WordSpan
<1>2. a.weekday * (MinutesSpan * ActionSpan) + a.minutes * ActionSpan + a.action \in Nat
  BY TableAssumption DEF Alarm
<1> QED
  BY <1>1, <1>2 DEF Pack, Words

(* What load_alarm_from_nvs unpacks is an alarm.                           *)
LEMMA UnpackType ==
  ASSUME NEW v \in Words
  PROVE  Unpack(v) \in Alarm
<1>1. WordSpan \in Nat /\ v \in Nat
  BY TableAssumption DEF WordSpan, Words
<1>2. v \div ActionSpan \in Nat /\ v % ActionSpan \in Nat
  BY <1>1, TableAssumption
<1>3. (v \div ActionSpan) \div MinutesSpan \in Nat /\ (v \div ActionSpan) % MinutesSpan \in Nat
  BY <1>2, TableAssumption
<1> QED
  BY <1>2, <1>3 DEF Unpack, MkAlarm, Alarm

(* Loading a word and saving it again writes the same word: a restart      *)
(* followed by any save does not change the stored alarms.                 *)
LEMMA PackUnpack ==
  ASSUME NEW v \in Words
  PROVE  Pack(Unpack(v)) = v
<1> DEFINE q == v \div ActionSpan
           r == v % ActionSpan
           h == q \div MinutesSpan
           l == q % MinutesSpan
<1>1. v \in Nat /\ WordSpan \in Nat /\ v < WordSpan
  BY TableAssumption DEF WordSpan, Words
<1>2. q \in Nat /\ r \in Nat /\ v = ActionSpan * q + r
  <2>1. v \in Nat /\ ActionSpan \in Nat \ {0}
    BY <1>1, TableAssumption
  <2>2. r \in 0 .. ActionSpan - 1 => r \in Nat
    BY <2>1
  <2> QED
    BY <2>1, <2>2, Division, Zenon
<1> HIDE DEF q, r
<1>3. h \in Nat /\ l \in Nat /\ q = MinutesSpan * h + l
  <2>1. q \in Nat /\ MinutesSpan \in Nat \ {0}
    BY <1>2, TableAssumption
  <2>2. l \in 0 .. MinutesSpan - 1 => l \in Nat
    BY <2>1
  <2> QED
    BY <2>1, <2>2, Division, Zenon
<1> HIDE DEF h, l
<1>4. h * (MinutesSpan * ActionSpan) = ActionSpan * (MinutesSpan * h)
  BY <1>3, TableAssumption
<1>5. ActionSpan * (MinutesSpan * h + l) = ActionSpan * (MinutesSpan * h) + l * ActionSpan
  <2>1. MinutesSpan * h \in Int
    BY <1>3, TableAssumption
  <2> QED
    BY <2>1, <1>3, TableAssumption
<1>6. h * (MinutesSpan * ActionSpan) + l * ActionSpan + r = v
  BY <1>2, <1>3, <1>4, <1>5, TableAssumption
<1>7. Unpack(v) = [weekday |-> h, minutes |-> l, action |-> r]
  BY DEF Unpack, MkAlarm, q, r, h, l
<1>8. Pack(Unpack(v)) = v % WordSpan
  BY <1>6, <1>7 DEF Pack
<1> QED
  BY <1>1, <1>8

(* An alarm whose fields fit their spans comes back from flash as it was.  *)
LEMMA UnpackPack ==
  ASSUME NEW a \in Alarm, InSpan(a)
  PROVE  Unpack(Pack(a)) = a
<1> DEFINE w == a.weekday
           m == a.minutes
           c == a.action
           q == w * MinutesSpan + m
<1>1. /\ w \in Nat /\ m \in Nat /\ c \in Nat
      /\ w < WeekdaySpan /\ m < MinutesSpan /\ c < ActionSpan
      /\ a = [weekday |-> w, minutes |-> m, action |-> c]
  BY DEF Alarm, InSpan
<1> HIDE DEF w, m, c
<1>2. q \in Nat /\ q < WeekdaySpan * MinutesSpan
  <2>1. w * MinutesSpan <= (WeekdaySpan - 1) * MinutesSpan
    BY <1>1, TableAssumption
  <2>2. (WeekdaySpan - 1) * MinutesSpan = WeekdaySpan * MinutesSpan - MinutesSpan
    BY TableAssumption
  <2> QED
    BY <1>1, <2>1, <2>2, TableAssumption
<1>3. w * (MinutesSpan * ActionSpan) + m * ActionSpan + c = q * ActionSpan + c
  BY <1>1, TableAssumption
<1>4. q \div MinutesSpan = w /\ q % MinutesSpan = m
  BY <1>1, TableAssumption
<1> HIDE DEF q
<1>5. q * ActionSpan + c < WordSpan
  <2>1. q * ActionSpan <= (WeekdaySpan * MinutesSpan - 1) * ActionSpan
    BY <1>2, TableAssumption
  <2>2. (WeekdaySpan * MinutesSpan - 1) * ActionSpan = WordSpan - ActionSpan
    BY TableAssumption DEF WordSpan
  <2>3. WordSpan \in Nat /\ q * ActionSpan \in Nat
    BY <1>2, TableAssumption DEF WordSpan
  <2> QED
    BY <1>1, <2>1, <2>2, <2>3, TableAssumption
<1>6. Pack(a) = q * ActionSpan + c
  <2>1. q * ActionSpan + c \in Nat /\ WordSpan \in Nat
    BY <1>1, <1>2, TableAssumption DEF WordSpan
  <2>2. Pack(a) = (q * ActionSpan + c) % WordSpan
    BY <1>3 DEF Pack, w, m, c
  <2> QED
    BY <1>5, <2>1, <2>2
<1>7. (q * ActionSpan + c) \div ActionSpan = q /\ (q * ActionSpan + c) % ActionSpan = c
  BY <1>1, <1>2, TableAssumption
<1> QED
  BY <1>1, <1>4, <1>6, <1>7 DEF Unpack, MkAlarm

(* An invalid slot is no alarm.                                            *)
LEMMA FreeIsNoAlarm == Free \notin Alarm
BY DEF Free, Alarm

(* A uint8_t index is a natural number.                                    *)
LEMMA SlotOfType ==
  ASSUME NEW c \in Commands, c.op \in {"modify", "delete"}
  PROVE  SlotOf(c) \in Nat
<1>1. c.index \in Nat
  BY CommandAssumption
<1> QED
  BY <1>1, TableAssumption DEF SlotOf

(* csro_alarm_add writes one slot, the first with the same time or the     *)
(* first free one, or none at all.                                         *)
LEMMA AddWritesOneSlot ==
  ASSUME NEW t \in Tables, NEW a \in Alarm, AddSaves(t, a), Prefix(t)
  PROVE  \E k \in Slots :
            /\ AddTo(t, a) = [t EXCEPT ![k] = a]
            /\ \A j \in Slots : j < k => Valid(t, j)
<1> DEFINE T == AddTarget(t, a)
           k == Lowest(T)
<1>1. T \in SUBSET Slots /\ T # {}
  BY DEF AddSaves, AddTarget, SameTime, FreeSlots
<1>2. T \in SUBSET Nat
  BY <1>1, TableAssumption DEF Slots
<1>3. k \in T /\ \A j \in T : k <= j
  BY <1>1, <1>2, LowestIsLowest
<1> HIDE DEF k
<1>4. ASSUME NEW j \in Slots, j < k PROVE Valid(t, j)
  <2>1. CASE SameTime(t, a) # {}
    <3>1. Valid(t, k) /\ k \in Slots
      BY <1>3, <2>1 DEF AddTarget, SameTime
    <3> QED
      BY <3>1, <1>4 DEF Prefix
  <2>2. CASE SameTime(t, a) = {}
    <3>1. T = FreeSlots(t)
      BY <2>2 DEF AddTarget
    <3>2. j \notin FreeSlots(t)
      <4>1. k \in Int /\ j \in Int
        BY <1>2, <1>3, TableAssumption DEF Slots
      <4>2. j \in FreeSlots(t) => k <= j
        BY <1>3, <3>1
      <4> QED
        BY <1>4, <4>1, <4>2
    <3> QED
      BY <3>2 DEF FreeSlots
  <2> QED
    BY <2>1, <2>2
<1> QED
  BY <1>1, <1>3, <1>4 DEF AddTo, k

(* Every command keeps the table well formed and compact.                  *)
LEMMA ExecuteKeepsTable ==
  ASSUME NEW t \in Tables, Prefix(t), NEW c \in Commands
  PROVE  Execute(t, c) \in Tables /\ Prefix(Execute(t, c))
<1>1. CASE c.op = "add"
  <2>1. c.alarm \in Alarm
    BY <1>1, CommandAssumption
  <2>2. Execute(t, c) = AddTo(t, c.alarm)
    BY <1>1 DEF Execute
  <2>3. CASE AddSaves(t, c.alarm)
    <3>1. PICK k \in Slots :
            /\ AddTo(t, c.alarm) = [t EXCEPT ![k] = c.alarm]
            /\ \A j \in Slots : j < k => Valid(t, j)
      BY <2>1, <2>3, AddWritesOneSlot
    <3> QED
      BY <2>1, <2>2, <3>1, FreeIsNoAlarm DEF Tables, Prefix, Valid, Slots
  <2> QED
    BY <2>2, <2>3 DEF AddTo
<1>2. CASE c.op = "modify"
  <2>1. c.alarm \in Alarm /\ SlotOf(c) \in Nat
    BY <1>2, CommandAssumption, SlotOfType
  <2>2. Execute(t, c) = ModifyIn(t, SlotOf(c), c.alarm)
    BY <1>2 DEF Execute
  <2> QED
    BY <2>1, <2>2, FreeIsNoAlarm DEF ModifyIn, IndexHit, Tables, Prefix, Valid, Slots
<1>3. CASE c.op = "delete"
  <2>1. SlotOf(c) \in Nat
    BY <1>3, SlotOfType
  <2>2. Execute(t, c) = DeleteFrom(t, SlotOf(c))
    BY <1>3 DEF Execute
  <2> HIDE DEF Execute
  <2>3. DeleteFrom(t, SlotOf(c)) \in Tables
    BY <2>1, TableAssumption DEF DeleteFrom, IndexHit, Tables, Slots
  <2>4. Prefix(DeleteFrom(t, SlotOf(c)))
    BY <2>1, TableAssumption DEF DeleteFrom, IndexHit, Tables, Prefix, Valid, Slots
  <2> QED
    BY <2>2, <2>3, <2>4
<1>4. CASE c.op = "clear"
  BY <1>4 DEF Execute, EmptyTable, Tables, Prefix, Valid
<1> QED
  BY <1>1, <1>2, <1>3, <1>4, CommandAssumption

(* A command that does not save has not changed the table.                 *)
LEMMA UnsavedUnchanged ==
  ASSUME NEW t \in Tables, NEW c \in Commands, ~Saves(t, c)
  PROVE  Execute(t, c) = t
BY CommandAssumption DEF Saves, Execute, AddTo, ModifyIn, DeleteFrom

(***************************************************************************)
(* The inductive invariant.                                                *)
(***************************************************************************)

(* Between saves the history variable is the flash contents.               *)
SavedIsFlash ==
    pc \in {"idle", "handle"} =>
        pos = 0 /\ saved = [count |-> alarm_count, value |-> alarm_value]

(* In a save, the entries in front of the loop index are those of RAM, the *)
(* others and the count are still the old ones.                            *)
SaveProgress ==
    pc = "save" =>
        /\ alarm_count = saved.count
        /\ \A i \in Slots : i < pos => Valid(alarms, i) /\ alarm_value[i] = Pack(alarms[i])
        /\ \A i \in Slots : i >= pos => alarm_value[i] = saved.value[i]

(* What makes the ascending order of the writes safe: an alarm that the    *)
(* command keeps moves by at most one slot, downwards, within the entries  *)
(* that count.  Wherever the loop stands, its old or its new entry is      *)
(* there.                                                                  *)
MovesDownByOne(t, count, value) ==
    \A i \in Slots :
        Valid(t, i) /\ Pack(t[i]) \in WordsIn(count, value) =>
            \E j \in Slots :
                /\ j < count /\ Valid(t, j) /\ Pack(t[j]) = Pack(t[i])
                /\ \/ value[j] = Pack(t[j])
                   \/ j + 1 < count /\ value[j + 1] = Pack(t[j])

SaveSafe == pc = "save" => MovesDownByOne(alarms, saved.count, saved.value)

IInv ==
    /\ TypeOK /\ Compact /\ FlashAgrees
    /\ SavedIsFlash /\ SaveProgress /\ SaveSafe

(* A command that meets a table that agrees with flash leaves one whose    *)
(* alarms have moved down by at most one slot.                             *)
LEMMA CommandsMoveDownByOne ==
  ASSUME NEW t \in Tables, Prefix(t), NEW c \in Commands, Saves(t, c),
         NEW n \in 0 .. ALARM_NUMBER, NEW v \in [Slots -> Words],
         \A i \in Slots : Valid(t, i) <=> i < n,
         \A i \in Slots : i < n => v[i] = Pack(t[i])
  PROVE  MovesDownByOne(Execute(t, c), n, v)
<1> DEFINE u == Execute(t, c)
<1>1. SUFFICES ASSUME NEW i \in Slots, Valid(u, i), Pack(u[i]) \in WordsIn(n, v)
               PROVE  \E j \in Slots :
                        /\ j < n /\ Valid(u, j) /\ Pack(u[j]) = Pack(u[i])
                        /\ \/ v[j] = Pack(u[j])
                           \/ j + 1 < n /\ v[j + 1] = Pack(u[j])
  BY DEF MovesDownByOne
<1>2. PICK l \in Slots : l < n /\ v[l] = Pack(u[i])
  BY <1>1 DEF WordsIn
<1>3. CASE c.op \in {"add", "modify"}
  <2>1. \E k \in Slots, a \in Alarm : u = [t EXCEPT ![k] = a]
    <3>1. c.alarm \in Alarm
      BY <1>3, CommandAssumption
    <3>2. CASE c.op = "add"
      BY <3>1, <3>2, AddWritesOneSlot DEF Saves, Execute
    <3>3. CASE c.op = "modify"
      BY <3>1, <3>3, SlotOfType DEF Saves, Execute, ModifyIn, IndexHit, Slots
    <3> QED
      BY <1>3, <3>2, <3>3
  <2>2. PICK k \in Slots, a \in Alarm : u = [t EXCEPT ![k] = a]
    BY <2>1
  <2> HIDE DEF u
  <2>3. CASE l # k
    <3>1. u[l] = t[l] /\ Valid(u, l)
      BY <1>2, <2>2, <2>3 DEF Tables, Valid
    <3> QED
      BY <1>2, <3>1
  <2>4. CASE l = k /\ i = k
    <3>1. Valid(u, l) /\ Pack(u[l]) = Pack(u[i])
      BY <1>1, <2>4
    <3> QED
      BY <1>2, <3>1
  <2>5. CASE l = k /\ i # k
    <3>1. u[i] = t[i] /\ Valid(t, i)
      BY <1>1, <2>2, <2>5 DEF Tables, Valid
    <3>2. i < n /\ v[i] = Pack(u[i])
      BY <3>1
    <3> QED
      BY <1>1, <3>2
  <2> QED
    BY <2>3, <2>4, <2>5
<1>4. CASE c.op = "delete"
  <2>1. SlotOf(c) \in Nat /\ IndexHit(t, SlotOf(c))
    BY <1>4, SlotOfType DEF Saves
  <2>2. u = [x \in Slots |-> IF x < SlotOf(c) THEN t[x]
                             ELSE IF x < ALARM_NUMBER - 1 THEN t[x + 1] ELSE Free]
    BY <1>4, <2>1 DEF Execute, DeleteFrom
  <2> HIDE DEF u
  <2>3. CASE i < SlotOf(c)
    <3>1. u[i] = t[i] /\ Valid(t, i)
      BY <1>1, <2>2, <2>3 DEF Valid
    <3>2. i < n /\ v[i] = Pack(u[i])
      BY <3>1
    <3> QED
      BY <1>1, <3>2
  <2>4. CASE ~(i < SlotOf(c))
    <3>1. i < ALARM_NUMBER - 1 /\ u[i] = t[i + 1]
      BY <1>1, <2>2, <2>4 DEF Valid
    <3>2. i + 1 \in Slots /\ Valid(t, i + 1)
      BY <1>1, <3>1, TableAssumption DEF Valid, Slots
    <3>3. i + 1 < n /\ v[i + 1] = Pack(u[i])
      BY <3>1, <3>2
    <3>4. i < n
      BY <3>3 DEF Slots
    <3> QED
      BY <1>1, <3>3, <3>4
  <2> QED
    BY <2>3, <2>4
<1>5. CASE c.op = "clear"
  BY <1>1, <1>5 DEF Execute, EmptyTable, Valid
<1> QED
  BY <1>3, <1>4, <1>5, CommandAssumption

(* A report lists alarms only: it stops at the first invalid slot.         *)
LEMMA ListingType ==
  ASSUME NEW t \in Tables
  PROVE  Listing(t) \in Seq(Alarm)
<1> DEFINE n == PrefixLength(t)
<1>1. n \in 0 .. ALARM_NUMBER /\ \A i \in Slots : i < n => Valid(t, i)
  <2>1. CASE FreeSlots(t) = {}
    BY <2>1, TableAssumption DEF PrefixLength, FreeSlots
  <2>2. CASE FreeSlots(t) # {}
    <3> DEFINE m == Lowest(FreeSlots(t))
    <3>1. FreeSlots(t) \in SUBSET Nat /\ FreeSlots(t) \in SUBSET Slots
      BY TableAssumption DEF FreeSlots, Slots
    <3>2. m \in FreeSlots(t) /\ \A j \in FreeSlots(t) : m <= j
      BY <2>2, <3>1, LowestIsLowest
    <3> HIDE DEF m
    <3>3. m \in 0 .. ALARM_NUMBER
      BY <3>1, <3>2, TableAssumption DEF Slots
    <3>4. ASSUME NEW i \in Slots, i < m PROVE Valid(t, i)
      <4>1. i \in FreeSlots(t) => m <= i
        BY <3>2
      <4>2. i \in Int /\ m \in Int
        BY <3>3, TableAssumption DEF Slots
      <4>3. i \notin FreeSlots(t)
        BY <3>4, <4>1, <4>2
      <4> QED
        BY <4>3 DEF FreeSlots
    <3> QED
      BY <2>2, <3>3, <3>4 DEF PrefixLength, m
  <2> QED
    BY <2>1, <2>2
<1> HIDE DEF n
<1>2. ASSUME NEW k \in 1 .. n PROVE t[k - 1] \in Alarm
  <2>1. k - 1 \in Slots /\ k - 1 < n
    BY <1>1, <1>2, TableAssumption DEF Slots
  <2> QED
    BY <1>1, <2>1 DEF Tables, Valid
<1>3. Listing(t) \in [1 .. n -> Alarm]
  BY <1>2 DEF Listing, n
<1>4. n \in Nat
  BY <1>1, TableAssumption
<1> QED
  BY <1>3, <1>4, SeqDef

(* The payload's commands form a sequence.                                 *)
LEMMA PayloadType == Payloads \subseteq Seq(Commands)
<1>1. ASSUME NEW p \in Payloads PROVE p \in Seq(Commands)
  <2>1. PICK n \in 1 .. MaxCommands : p \in [1 .. n -> Commands]
    BY DEF Payloads
  <2>2. n \in Nat
    BY CommandAssumption
  <2> QED
    BY <2>1, <2>2, SeqDef
<1> QED
  BY <1>1

(* The table that a boot finds is well formed and compact.                 *)
LEMMA LoadedType ==
  ASSUME NEW n \in 0 .. ALARM_NUMBER, NEW v \in [Slots -> Words]
  PROVE  /\ LoadedFrom(n, v) \in Tables
         /\ \A i \in Slots : Valid(LoadedFrom(n, v), i) <=> i < n
         /\ \A i \in Slots : i < n => Pack(LoadedFrom(n, v)[i]) = v[i]
         /\ Prefix(LoadedFrom(n, v))
<1> DEFINE t == LoadedFrom(n, v)
<1>1. ASSUME NEW i \in Slots, i < n
      PROVE  t[i] = Unpack(v[i]) /\ t[i] \in Alarm /\ Pack(t[i]) = v[i]
  <2>1. t[i] = Unpack(v[i]) /\ v[i] \in Words
    BY <1>1 DEF LoadedFrom
  <2> QED
    BY <2>1, UnpackType, PackUnpack
<1>2. ASSUME NEW i \in Slots, ~(i < n)
      PROVE  t[i] = Free
  BY <1>2 DEF LoadedFrom
<1>3. t = [i \in Slots |-> t[i]]
  BY DEF LoadedFrom
<1> HIDE DEF t
<1>4. t \in Tables
  BY <1>1, <1>2, <1>3 DEF Tables
<1>5. \A i \in Slots : Valid(t, i) <=> i < n
  BY <1>1, <1>2, FreeIsNoAlarm DEF Valid
<1>6. Prefix(t)
  BY <1>5 DEF Prefix, Slots
<1> QED
  BY <1>1, <1>4, <1>5, <1>6 DEF t

(***************************************************************************)
(* Invariance.                                                             *)
(***************************************************************************)
(* The invariant holds on a new device: an empty table and empty flash.    *)
LEMMA InitIInv == Init => IInv
<1> SUFFICES ASSUME Init PROVE IInv
  OBVIOUS
<1>1. 0 \in Words
  BY TableAssumption DEF Words, WordSpan
<1>2. <<>> \in Seq(Commands) /\ <<>> \in Seq(Alarm)
  OBVIOUS
<1>3. TypeOK
  <2>1. alarms \in Tables
    BY DEF Init, Tables, EmptyTable
  <2>2. alarm_value \in [Slots -> Words] /\ alarm_count \in 0 .. ALARM_NUMBER
    BY <1>1, TableAssumption DEF Init
  <2>3. saved \in [count : 0 .. ALARM_NUMBER, value : [Slots -> Words]]
    BY <1>1, TableAssumption DEF Init
  <2>4. report \in [sent : BOOLEAN, alarms : Seq(Alarm), counted : BOOLEAN]
    BY <1>2 DEF Init, NoReport
  <2> QED
    BY <1>2, <2>1, <2>2, <2>3, <2>4 DEF Init, TypeOK
<1>4. Compact /\ FlashAgrees
  BY TableAssumption DEF Init, Compact, Prefix, FlashAgrees, EmptyTable, Valid, Slots
<1> QED
  BY <1>3, <1>4 DEF Init, IInv, SavedIsFlash, SaveProgress, SaveSafe

(* The steps that touch neither the table nor the flash nor the save.      *)
LEMMA QuietIInv ==
  ASSUME IInv, HandleSelfMessage \/ EndMessage \/ RequestReport \/ PrepareReport
  PROVE  IInv'
<1> USE DEF IInv
<1>1. /\ UNCHANGED <<alarms, alarm_count, alarm_value, pos, saved>>
      /\ pc \in {"idle", "handle"} /\ pc' \in {"idle", "handle"}
  BY DEF HandleSelfMessage, EndMessage, RequestReport, PrepareReport
<1>2. TypeOK'
  <2>1. todo' \in Seq(Commands)
    BY PayloadType DEF HandleSelfMessage, EndMessage, RequestReport, PrepareReport, TypeOK
  <2>2. report' \in [sent : BOOLEAN, alarms : Seq(Alarm), counted : BOOLEAN]
    <3>1. CASE PrepareReport
      <4>1. Listing(alarms) \in Seq(Alarm)
        BY ListingType DEF TypeOK
      <4> QED
        BY <3>1, <4>1 DEF PrepareReport
    <3>2. CASE HandleSelfMessage \/ EndMessage \/ RequestReport
      BY <3>2 DEF HandleSelfMessage, EndMessage, RequestReport, TypeOK
    <3> QED
      BY <3>1, <3>2
  <2>3. alarm_msg' \in BOOLEAN
    BY DEF HandleSelfMessage, EndMessage, RequestReport, PrepareReport, TypeOK
  <2> QED
    BY <1>1, <2>1, <2>2, <2>3 DEF TypeOK
<1>3. Compact' /\ FlashAgrees'
  BY <1>1 DEF Compact, Prefix, FlashAgrees, Valid
<1>4. SavedIsFlash' /\ SaveProgress' /\ SaveSafe'
  BY <1>1 DEF SavedIsFlash, SaveProgress, SaveSafe
<1> QED
  BY <1>2, <1>3, <1>4

(* A command either leaves everything or changes the table and starts a    *)
(* save that is safe to interrupt.                                         *)
LEMMA RunCommandIInv ==
  ASSUME IInv, RunCommand
  PROVE  IInv'
<1> DEFINE c == Head(todo)
<1> USE DEF IInv
<1>1. c \in Commands /\ Tail(todo) \in Seq(Commands) /\ alarms \in Tables /\ Prefix(alarms)
  BY DEF RunCommand, TypeOK, Compact
<1>2. /\ alarms' = Execute(alarms, c) /\ todo' = Tail(todo) /\ pc = "handle"
      /\ pc' = (IF Saves(alarms, c) THEN "save" ELSE pc)
      /\ UNCHANGED <<alarm_count, alarm_value, pos, alarm_msg, report, saved>>
  BY DEF RunCommand
<1> HIDE DEF c
<1>3. alarms' \in Tables /\ Prefix(alarms')
  BY <1>1, <1>2, ExecuteKeepsTable
<1>4. TypeOK' /\ Compact'
  BY <1>1, <1>2, <1>3 DEF TypeOK, Compact
<1>5. CASE ~Saves(alarms, c)
  <2>1. alarms' = alarms
    BY <1>1, <1>2, <1>5, UnsavedUnchanged
  <2> QED
    BY <1>2, <1>4, <1>5, <2>1
    DEF FlashAgrees, Valid, SavedIsFlash, SaveProgress, SaveSafe
<1>6. CASE Saves(alarms, c)
  <2>1. pc' = "save"
    BY <1>2, <1>6
  <2>2. /\ pos = 0 /\ saved.count = alarm_count /\ saved.value = alarm_value
        /\ \A i \in Slots : Valid(alarms, i) <=> i < alarm_count
        /\ \A i \in Slots : i < alarm_count => alarm_value[i] = Pack(alarms[i])
    BY <1>2 DEF SavedIsFlash, FlashAgrees
  <2>3. MovesDownByOne(alarms', alarm_count, alarm_value)
    BY <1>1, <1>2, <1>6, <2>2, CommandsMoveDownByOne DEF TypeOK
  <2>4. SaveProgress' /\ SaveSafe'
    BY <1>2, <2>1, <2>2, <2>3, TableAssumption DEF SaveProgress, SaveSafe, Slots
  <2> QED
    BY <1>4, <2>1, <2>4 DEF FlashAgrees, SavedIsFlash
<1> QED
  BY <1>5, <1>6

(* Writing one alarm keeps what is behind it in flash.                     *)
LEMMA SaveEntryIInv ==
  ASSUME IInv, SaveEntry
  PROVE  IInv'
<1> USE DEF IInv
<1>1. /\ pc = "save" /\ pos \in Slots /\ Valid(alarms, pos) /\ pos' = pos + 1
      /\ alarm_value' = [alarm_value EXCEPT ![pos] = Pack(alarms[pos])]
      /\ UNCHANGED <<alarms, alarm_count, pc, todo, alarm_msg, report, saved>>
  BY TableAssumption DEF SaveEntry, TypeOK, Slots
<1>2. Pack(alarms[pos]) \in Words
  BY <1>1, PackType DEF TypeOK, Tables, Valid
<1>3. TypeOK'
  BY <1>1, <1>2, TableAssumption DEF TypeOK, Slots
<1>4. SaveProgress'
  BY <1>1, TableAssumption DEF SaveProgress, TypeOK, Slots, Valid
<1> QED
  BY <1>1, <1>3, <1>4 DEF Compact, FlashAgrees, SavedIsFlash, SaveSafe

(* Writing the count completes the copy.                                   *)
LEMMA SaveCountIInv ==
  ASSUME IInv, SaveCount
  PROVE  IInv'
<1> USE DEF IInv
<1>1. /\ pc = "save" /\ pc' = "commit" /\ alarm_count' = pos
      /\ pos < ALARM_NUMBER => ~Valid(alarms, pos)
      /\ UNCHANGED <<alarms, alarm_value, todo, pos, alarm_msg, report, saved>>
  BY DEF SaveCount
<1>2. TypeOK'
  BY <1>1 DEF TypeOK
<1>3. ASSUME NEW i \in Slots PROVE Valid(alarms, i) <=> i < pos
  <2>1. i < pos => Valid(alarms, i)
    BY <1>1 DEF SaveProgress
  <2>2. CASE ~(i < pos)
    <3>1. pos \in Slots /\ ~Valid(alarms, pos) /\ (pos < i \/ pos = i)
      BY <1>1, <2>2, TableAssumption DEF TypeOK, Slots
    <3> QED
      BY <2>2, <3>1 DEF Compact, Prefix
  <2> QED
    BY <2>1, <2>2
<1>4. FlashAgrees'
  BY <1>1, <1>3 DEF FlashAgrees, SaveProgress, Valid
<1> QED
  BY <1>1, <1>2, <1>4 DEF Compact, SavedIsFlash, SaveProgress, SaveSafe

(* nvs_commit changes nothing in flash.                                    *)
LEMMA SaveCommitIInv ==
  ASSUME IInv, SaveCommit
  PROVE  IInv'
BY TableAssumption
DEF IInv, SaveCommit, TypeOK, Compact, FlashAgrees, Valid, SavedIsFlash, SaveProgress, SaveSafe

(* A restart at any point loads a table that flash agrees with.            *)
LEMMA RestartIInv ==
  ASSUME IInv, Restart
  PROVE  IInv'
<1> USE DEF IInv
<1>1. /\ alarms' = LoadedFrom(alarm_count, alarm_value) /\ pc' = "idle"
      /\ pos' = 0 /\ UNCHANGED <<alarm_count, alarm_value>>
      /\ saved' = [count |-> alarm_count, value |-> alarm_value]
  BY DEF Restart, Loaded, flash
<1>2. /\ alarms' \in Tables /\ Prefix(alarms')
      /\ \A i \in Slots : Valid(alarms', i) <=> i < alarm_count
      /\ \A i \in Slots : i < alarm_count => Pack(alarms'[i]) = alarm_value[i]
  BY <1>1, LoadedType DEF TypeOK
<1>3. todo' = <<>> /\ todo' \in Seq(Commands) /\ alarm_msg' = FALSE /\ report' = NoReport
  BY DEF Restart
<1>4. NoReport \in [sent : BOOLEAN, alarms : Seq(Alarm), counted : BOOLEAN]
  BY DEF NoReport
<1>5. TypeOK'
  <2>1. saved' \in [count : 0 .. ALARM_NUMBER, value : [Slots -> Words]]
    BY <1>1 DEF TypeOK
  <2>2. pos' \in 0 .. ALARM_NUMBER
    BY <1>1, TableAssumption
  <2>3. report' \in [sent : BOOLEAN, alarms : Seq(Alarm), counted : BOOLEAN]
    BY <1>3, <1>4
  <2>4. alarm_msg' \in BOOLEAN /\ pc' \in {"idle", "handle", "save", "commit"}
    BY <1>1, <1>3
  <2> QED
    BY <1>1, <1>2, <1>3, <2>1, <2>2, <2>3, <2>4 DEF TypeOK
<1> QED
  BY <1>1, <1>2, <1>5 DEF Compact, FlashAgrees, Valid, SavedIsFlash, SaveProgress, SaveSafe

(* Every step keeps the invariant.                                         *)
LEMMA NextIInv ==
  ASSUME IInv, [Next]_vars
  PROVE  IInv'
<1>1. CASE UNCHANGED vars
  BY <1>1
  DEF vars, IInv, TypeOK, Compact, Prefix, FlashAgrees, Valid, SavedIsFlash, SaveProgress, SaveSafe
<1>2. CASE Next
  BY <1>2, QuietIInv, RunCommandIInv, SaveEntryIInv, SaveCountIInv, SaveCommitIInv, RestartIInv
  DEF Next
<1> QED
  BY <1>1, <1>2

(* The strengthened invariant holds of every behaviour of the alarm        *)
(* component.                                                              *)
THEOREM Invariance == Spec => []IInv
BY InitIInv, NextIInv, PTL DEF Spec

(* Type correctness of the alarm component.                                *)
THEOREM TypeCorrect == Spec => []TypeOK
<1>1. IInv => TypeOK
  BY DEF IInv
<1> QED
  BY <1>1, Invariance, PTL

(* The table never has a hole: save_alarm_to_nvs and the timer message,    *)
(* which stop at the first invalid slot, always see every alarm.           *)
THEOREM AlwaysCompact == Spec => []Compact
<1>1. IInv => Compact
  BY DEF IInv
<1> QED
  BY <1>1, Invariance, PTL

(* Whenever no save is under way, flash holds the table.                   *)
THEOREM FlashAlwaysAgrees == Spec => []FlashAgrees
<1>1. IInv => FlashAgrees
  BY DEF IInv
<1> QED
  BY <1>1, Invariance, PTL

(* Once the flash agrees with RAM, the words in both are the same.         *)
LEMMA AgreeingWords ==
  ASSUME IInv, pc \in {"idle", "handle", "commit"}
  PROVE  WordsStored = WordsInRam
<1>1. /\ \A i \in Slots : Valid(alarms, i) <=> i < alarm_count
      /\ \A i \in Slots : i < alarm_count => alarm_value[i] = Pack(alarms[i])
  BY DEF IInv, FlashAgrees
<1> QED
  BY <1>1 DEF WordsStored, WordsIn, WordsInRam, ValidSlots

(* No alarm that a command keeps is lost, at whatever write the power      *)
(* goes.                                                                   *)
THEOREM SurvivorsAlwaysKept == Spec => []SurvivorsKept
<1>1. IInv => SurvivorsKept
  <2> SUFFICES ASSUME IInv, NEW x \in WordsBefore, x \in WordsInRam
               PROVE  x \in WordsStored
    BY DEF SurvivorsKept
  <2>1. CASE pc # "save"
    BY <2>1, AgreeingWords DEF IInv, TypeOK
  <2>2. CASE pc = "save"
    <3>1. PICK i \in Slots : Valid(alarms, i) /\ x = Pack(alarms[i])
      BY DEF WordsInRam, ValidSlots
    <3>2. PICK j \in Slots :
            /\ j < saved.count /\ Valid(alarms, j) /\ Pack(alarms[j]) = x
            /\ \/ saved.value[j] = Pack(alarms[j])
               \/ j + 1 < saved.count /\ saved.value[j + 1] = Pack(alarms[j])
      BY <2>2, <3>1 DEF IInv, SaveSafe, MovesDownByOne, WordsBefore
    <3>3. alarm_count = saved.count
      BY <2>2 DEF IInv, SaveProgress
    <3>4. CASE j < pos \/ saved.value[j] = x
      <4>1. alarm_value[j] = x
        <5>1. j < pos => alarm_value[j] = x
          BY <2>2, <3>2 DEF IInv, SaveProgress
        <5>2. j >= pos => alarm_value[j] = saved.value[j]
          BY <2>2 DEF IInv, SaveProgress
        <5>3. j \in Int /\ pos \in Int
          BY TableAssumption DEF IInv, TypeOK, Slots
        <5> QED
          BY <3>4, <5>1, <5>2, <5>3
      <4> QED
        BY <3>2, <3>3, <4>1 DEF WordsStored, WordsIn
    <3>5. CASE ~(j < pos) /\ saved.value[j] # x
      <4>1. j + 1 \in Slots /\ j + 1 >= pos /\ j + 1 < saved.count /\ saved.value[j + 1] = x
        BY <3>2, <3>5, TableAssumption DEF IInv, TypeOK, Slots
      <4>2. alarm_value[j + 1] = x
        BY <2>2, <4>1 DEF IInv, SaveProgress
      <4> QED
        BY <3>3, <4>1, <4>2 DEF WordsStored, WordsIn
    <3> QED
      BY <3>4, <3>5
  <2> QED
    BY <2>1, <2>2
<1> QED
  BY <1>1, Invariance, PTL

(* No alarm comes back from the dead, at whatever write the power goes:    *)
(* the words of deleted alarms stay in flash, behind the count.            *)
THEOREM NothingEverResurrected == Spec => []NothingResurrected
<1>1. IInv => NothingResurrected
  <2> SUFFICES ASSUME IInv, NEW x \in WordsStored
               PROVE  x \in WordsBefore \cup WordsInRam
    BY DEF NothingResurrected
  <2>1. CASE pc # "save"
    BY <2>1, AgreeingWords DEF IInv, TypeOK
  <2>2. CASE pc = "save"
    <3>1. PICK i \in Slots : i < alarm_count /\ x = alarm_value[i]
      BY DEF WordsStored, WordsIn
    <3>2. CASE i < pos
      BY <2>2, <3>1, <3>2 DEF IInv, SaveProgress, WordsInRam, ValidSlots
    <3>3. CASE ~(i < pos)
      <4>1. i >= pos
        BY <3>3, TableAssumption DEF IInv, TypeOK, Slots
      <4> QED
        BY <2>2, <3>1, <4>1 DEF IInv, SaveProgress, WordsBefore, WordsIn
    <3> QED
      BY <3>2, <3>3
  <2> QED
    BY <2>1, <2>2
<1> QED
  BY <1>1, Invariance, PTL

(* A restart outside a save keeps every alarm whose fields fit the packed  *)
(* word.                                                                   *)
THEOREM RestartAlwaysKeeps == Spec => RestartKeepsAlarms
<1>1. ASSUME IInv, Restart, pc \in {"idle", "handle"},
             NEW i \in Slots, Valid(alarms, i), InSpan(alarms[i])
      PROVE  alarms'[i] = alarms[i]
  <2>1. i < alarm_count /\ alarm_value[i] = Pack(alarms[i])
    BY <1>1 DEF IInv, FlashAgrees
  <2>2. alarms'[i] = Unpack(Pack(alarms[i]))
    BY <1>1, <2>1 DEF Restart, Loaded, LoadedFrom
  <2>3. alarms[i] \in Alarm
    BY <1>1 DEF IInv, TypeOK, Tables, Valid
  <2> QED
    BY <1>1, <2>2, <2>3, UnpackPack
<1>2. ASSUME IInv
      PROVE  Restart /\ pc \in {"idle", "handle"} =>
               \A i \in Slots :
                 Valid(alarms, i) /\ InSpan(alarms[i]) => alarms'[i] = alarms[i]
  BY <1>1, <1>2
<1> QED
  BY <1>2, Invariance, PTL DEF RestartKeepsAlarms

(* The last timer message is never out of date unless a new one is due or  *)
(* a command is being handled.                                             *)
THEOREM ReportAlwaysFresh == Spec => []ReportFresh
<1>1. Init => ReportFresh
  BY DEF Init, ReportFresh, NoReport
<1>2. ReportFresh /\ [Next]_vars => ReportFresh'
  <2> SUFFICES ASSUME ReportFresh, [Next]_vars PROVE ReportFresh'
    OBVIOUS
  <2>1. CASE PrepareReport
    BY <2>1 DEF PrepareReport, ReportFresh
  <2>2. CASE HandleSelfMessage \/ EndMessage \/ RequestReport
    BY <2>2 DEF HandleSelfMessage, EndMessage, RequestReport, ReportFresh
  <2>3. CASE RunCommand \/ SaveEntry \/ SaveCount \/ SaveCommit
    BY <2>3 DEF RunCommand, SaveEntry, SaveCount, SaveCommit, ReportFresh
  <2>4. CASE Restart
    BY <2>4 DEF Restart, NoReport, ReportFresh
  <2>5. CASE UNCHANGED vars
    BY <2>5 DEF vars, ReportFresh
  <2> QED
    BY <2>1, <2>2, <2>3, <2>4, <2>5 DEF Next
<1> QED
  BY <1>1, <1>2, PTL DEF Spec

(* In a table without a hole the loops that stop at the first invalid slot *)
(* stop behind the last valid one.                                         *)
LEMMA PrefixCounts ==
  ASSUME NEW t \in Tables, NEW m \in 0 .. ALARM_NUMBER, \A i \in Slots : Valid(t, i) <=> i < m
  PROVE  PrefixLength(t) = m
<1>1. ALARM_NUMBER \in Nat /\ Slots = 0 .. ALARM_NUMBER - 1
  BY TableAssumption DEF Slots
<1>2. CASE m = ALARM_NUMBER
  <2>1. FreeSlots(t) = {}
    BY <1>1, <1>2 DEF FreeSlots
  <2> QED
    BY <1>2, <2>1 DEF PrefixLength
<1>3. CASE m # ALARM_NUMBER
  <2>1. m \in FreeSlots(t) /\ FreeSlots(t) \in SUBSET Nat
    BY <1>1, <1>3 DEF FreeSlots
  <2>2. /\ Lowest(FreeSlots(t)) \in FreeSlots(t)
        /\ Lowest(FreeSlots(t)) <= m
    BY <2>1, LowestIsLowest
  <2>3. \A i \in FreeSlots(t) : i \in Int /\ ~(i < m)
    BY <1>1 DEF FreeSlots
  <2>4. Lowest(FreeSlots(t)) = m
    BY <2>2, <2>3
  <2> QED
    BY <2>1, <2>4 DEF PrefixLength
<1> QED
  BY <1>2, <1>3

(* Deleting slot d of a table with n alarms leaves the others, those       *)
(* behind it one slot lower.                                               *)
LEMMA DeleteShifts ==
  ASSUME NEW t \in Tables, NEW n \in 0 .. ALARM_NUMBER, NEW d \in Nat, d < n,
         \A i \in Slots : Valid(t, i) <=> i < n
  PROVE  LET u == DeleteFrom(t, d) IN
         /\ u \in Tables
         /\ \A i \in Slots : Valid(u, i) <=> i < n - 1
         /\ \A i \in Slots : i < d => u[i] = t[i]
         /\ \A i \in Slots : d <= i /\ i < n - 1 => u[i] = t[i + 1]
<1> DEFINE u == DeleteFrom(t, d)
<1>1. ALARM_NUMBER \in Nat \ {0} /\ Slots = 0 .. ALARM_NUMBER - 1
  BY TableAssumption DEF Slots
<1>2. d \in Slots /\ IndexHit(t, d)
  BY <1>1 DEF IndexHit
<1>3. u = [i \in Slots |-> IF i < d THEN t[i] ELSE IF i < ALARM_NUMBER - 1 THEN t[i + 1] ELSE Free]
  BY <1>2 DEF DeleteFrom
<1> HIDE DEF u
<1>4. \A i \in Slots : i < ALARM_NUMBER - 1 => i + 1 \in Slots
  BY <1>1
<1>5. u \in Tables
  BY <1>3, <1>4 DEF Tables
<1>6. ASSUME NEW i \in Slots PROVE Valid(u, i) <=> i < n - 1
  <2>1. CASE i < d
    <3>1. u[i] = t[i] /\ i < n /\ i < n - 1
      BY <1>1, <1>3, <2>1
    <3> QED
      BY <3>1 DEF Valid
  <2>2. CASE ~(i < d) /\ i < ALARM_NUMBER - 1
    <3>1. u[i] = t[i + 1] /\ i + 1 \in Slots
      BY <1>3, <1>4, <2>2
    <3>2. Valid(t, i + 1) <=> i + 1 < n
      BY <3>1
    <3> QED
      BY <1>1, <3>1, <3>2 DEF Valid
  <2>3. CASE ~(i < d) /\ ~(i < ALARM_NUMBER - 1)
    <3>1. u[i] = Free /\ ~(i < n - 1)
      BY <1>1, <1>3, <2>3
    <3> QED
      BY <3>1 DEF Valid
  <2> QED
    BY <2>1, <2>2, <2>3
<1>7. \A i \in Slots : i < d => u[i] = t[i]
  BY <1>3
<1>8. \A i \in Slots : d <= i /\ i < n - 1 => u[i] = t[i + 1]
  BY <1>1, <1>3
<1> QED
  BY <1>5, <1>6, <1>7, <1>8 DEF u

(* A sequence without its k-th element.                                    *)
LEMMA WithoutOne ==
  ASSUME NEW S, NEW L \in Seq(S), NEW k \in 1 .. Len(L), NEW M \in Seq(S),
         Len(M) = Len(L) - 1, \A i \in 1 .. Len(M) : M[i] = IF i < k THEN L[i] ELSE L[i + 1]
  PROVE  M = SubSeq(L, 1, k - 1) \o SubSeq(L, k + 1, Len(L))
<1> DEFINE n == Len(L)
           A == SubSeq(L, 1, k - 1)
           B == SubSeq(L, k + 1, n)
<1>1. n \in Nat /\ k \in Nat /\ 1 <= k /\ k <= n
  OBVIOUS
<1>2. \A i \in 1 .. n : L[i] \in S
  BY ElementOfSeq
<1> HIDE DEF n
<1>3. A \in Seq(S) /\ Len(A) = k - 1 /\ \A i \in 1 .. k - 1 : A[i] = L[i]
  <2>1. 1 \in Int /\ k - 1 \in Int /\ \A i \in 1 .. k - 1 : L[i] \in S
    BY <1>1, <1>2
  <2>2. /\ A \in Seq(S)
        /\ Len(A) = IF 1 <= k - 1 THEN (k - 1) - 1 + 1 ELSE 0
        /\ \A i \in 1 .. (k - 1) - 1 + 1 : A[i] = L[1 + i - 1]
    BY <2>1, SubSeqProperties
  <2> HIDE DEF A
  <2> QED
    BY <1>1, <2>2
<1>4. B \in Seq(S) /\ Len(B) = n - k /\ \A i \in 1 .. n - k : B[i] = L[k + i]
  <2>1. k + 1 \in Int /\ n \in Int /\ \A i \in k + 1 .. n : L[i] \in S
    BY <1>1, <1>2
  <2>2. /\ B \in Seq(S)
        /\ Len(B) = IF k + 1 <= n THEN n - (k + 1) + 1 ELSE 0
        /\ \A i \in 1 .. n - (k + 1) + 1 : B[i] = L[k + 1 + i - 1]
    BY <2>1, SubSeqProperties
  <2> HIDE DEF B
  <2> QED
    BY <1>1, <2>2
<1> HIDE DEF A, B
<1>5. /\ A \o B \in Seq(S)
      /\ Len(A \o B) = Len(A) + Len(B)
      /\ \A i \in 1 .. Len(A) + Len(B) :
           (A \o B)[i] = IF i <= Len(A) THEN A[i] ELSE B[i - Len(A)]
  BY <1>3, <1>4, ConcatProperties, Zenon
<1> DEFINE C == A \o B
<1>6. C \in Seq(S) /\ Len(C) = n - 1
  BY <1>1, <1>3, <1>4, <1>5
<1>7. \A i \in 1 .. n - 1 : C[i] = IF i <= k - 1 THEN A[i] ELSE B[i - (k - 1)]
  BY <1>1, <1>3, <1>4, <1>5
<1> HIDE DEF C
<1>8. ASSUME NEW i \in 1 .. n - 1 PROVE M[i] = C[i]
  <2>1. i \in 1 .. Len(M)
    BY DEF n
  <2>2. CASE i <= k - 1
    BY <1>1, <1>3, <1>7, <2>1, <2>2
  <2>3. CASE ~(i <= k - 1)
    <3>1. i - (k - 1) \in 1 .. n - k /\ k + (i - (k - 1)) = i + 1
      BY <1>1, <2>3
    <3> QED
      BY <1>1, <1>4, <1>7, <2>1, <2>3, <3>1
  <2> QED
    BY <2>2, <2>3
<1>9. M = C
  BY <1>6, <1>8, SeqEqual DEF n
<1> QED
  BY <1>9 DEF C, A, B, n

(* What the timer message lists.                                           *)
LEMMA Listed ==
  ASSUME NEW t \in Tables, NEW n \in 0 .. ALARM_NUMBER, \A i \in Slots : Valid(t, i) <=> i < n
  PROVE  /\ n \in Nat /\ Listing(t) \in Seq(Alarm) /\ Len(Listing(t)) = n
         /\ \A i \in 1 .. n : Listing(t)[i] = t[i - 1]
<1>1. n \in Nat
  BY TableAssumption
<1>2. Listing(t) = [i \in 1 .. n |-> t[i - 1]]
  BY PrefixCounts DEF Listing
<1>3. Listing(t) \in Seq(Alarm)
  BY ListingType
<1>4. \A i \in 1 .. n : Listing(t)[i] = t[i - 1]
  BY <1>2
<1>5. DOMAIN Listing(t) = 1 .. n /\ DOMAIN Listing(t) = 1 .. Len(Listing(t))
  BY <1>2, <1>3, LenProperties
<1>6. Len(Listing(t)) = n
  BY <1>1, <1>3, <1>5, LenProperties
<1> QED
  BY <1>1, <1>3, <1>4, <1>6

(* The entry that a reader of the timer message knows as alarm<k> is the   *)
(* one that alarm_delete with index k removes, up to the last one of a     *)
(* full table; all others stay, in their order.                            *)
THEOREM DeleteAlwaysHitsReported == Spec => DeleteHitsReported
<1>1. ASSUME IInv, RunCommand, NEW k \in 1 .. Len(Listing(alarms)),
             Head(todo) = [op |-> "delete", index |-> k]
      PROVE  Listing(alarms') =
               SubSeq(Listing(alarms), 1, k - 1) \o
               SubSeq(Listing(alarms), k + 1, Len(Listing(alarms)))
  <2> DEFINE n == alarm_count
             u == DeleteFrom(alarms, k - 1)
             L == Listing(alarms)
             M == Listing(u)
  <2>1. /\ n \in 0 .. ALARM_NUMBER /\ alarms \in Tables
        /\ \A i \in Slots : Valid(alarms, i) <=> i < n
    BY <1>1 DEF IInv, TypeOK, FlashAgrees, RunCommand
  <2>2. /\ ALARM_NUMBER \in Nat \ {0} /\ ALARM_NUMBER < ByteSpan /\ ByteSpan \in Nat
        /\ Slots = 0 .. ALARM_NUMBER - 1
    BY TableAssumption DEF Slots
  <2>3. /\ n \in Nat /\ L \in Seq(Alarm) /\ Len(L) = n
        /\ \A i \in 1 .. n : L[i] = alarms[i - 1]
    BY <2>1, Listed
  <2>4. k \in 1 .. n /\ k - 1 \in Nat /\ k - 1 < n /\ k \in 1 .. Len(L)
    BY <2>3
  <2>5. alarms' = u
    <3> DEFINE c == [op |-> "delete", index |-> k]
    <3>1. alarms' = Execute(alarms, c)
      BY <1>1 DEF RunCommand
    <3>2. c.op = "delete" /\ c.index = k
      OBVIOUS
    <3> HIDE DEF c
    <3>3. (k - 1) % ByteSpan = k - 1
      <4>1. k - 1 \in Nat /\ ByteSpan \in Nat \ {0} /\ k - 1 < ByteSpan
        BY <2>1, <2>2, <2>4
      <4> QED
        BY <4>1
    <3>4. SlotOf(c) = k - 1
      BY <3>2, <3>3 DEF SlotOf
    <3> QED
      BY <3>1, <3>2, <3>4 DEF Execute
  <2> HIDE DEF n, u, L
  <2>6. /\ u \in Tables
        /\ \A i \in Slots : Valid(u, i) <=> i < n - 1
        /\ \A i \in Slots : i < k - 1 => u[i] = alarms[i]
        /\ \A i \in Slots : k - 1 <= i /\ i < n - 1 => u[i] = alarms[i + 1]
    BY <2>1, <2>4, DeleteShifts DEF u
  <2>7. n - 1 \in 0 .. ALARM_NUMBER
    BY <2>1, <2>2, <2>4
  <2>8. M \in Seq(Alarm) /\ Len(M) = n - 1 /\ \A i \in 1 .. n - 1 : M[i] = u[i - 1]
    BY <2>6, <2>7, Listed
  <2> HIDE DEF M
  <2>9. ASSUME NEW i \in 1 .. n - 1 PROVE M[i] = IF i < k THEN L[i] ELSE L[i + 1]
    <3>1. i - 1 \in Slots /\ i \in 1 .. n /\ i + 1 \in 1 .. n /\ (i + 1) - 1 = i /\ (i - 1) + 1 = i
      BY <2>1, <2>2, <2>3
    <3>2. CASE i < k
      <4>1. i - 1 < k - 1
        BY <2>3, <2>4, <3>2
      <4> QED
        BY <2>3, <2>6, <2>8, <3>1, <3>2, <4>1
    <3>3. CASE ~(i < k)
      <4>1. k - 1 <= i - 1 /\ i - 1 < n - 1
        BY <2>3, <2>4, <3>3
      <4>2. u[i - 1] = alarms[i]
        BY <2>6, <3>1, <4>1
      <4>3. L[i + 1] = alarms[i]
        BY <2>3, <3>1
      <4> QED
        BY <2>8, <3>3, <4>2, <4>3
    <3> QED
      BY <3>2, <3>3
  <2>10. M = SubSeq(L, 1, k - 1) \o SubSeq(L, k + 1, Len(L))
    BY <2>3, <2>4, <2>8, <2>9, WithoutOne
  <2> QED
    BY <2>5, <2>10 DEF L, M
<1>2. ASSUME IInv
      PROVE  \A k \in 1 .. Len(report.alarms) :
               /\ RunCommand
               /\ Head(todo) = [op |-> "delete", index |-> k]
               /\ report.alarms = Listing(alarms)
               => Listing(alarms') =
                    SubSeq(report.alarms, 1, k - 1) \o
                    SubSeq(report.alarms, k + 1, Len(report.alarms))
  BY <1>1, <1>2
<1> QED
  BY <1>2, Invariance, PTL DEF DeleteHitsReported
===========================================================================
