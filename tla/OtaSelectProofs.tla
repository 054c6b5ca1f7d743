-------------------------- MODULE OtaSelectProofs --------------------------
(***************************************************************************)
(* Proofs about OtaSelect, for every partition table, image size, number   *)
(* of versions and bound.                                                  *)
(*                                                                         *)
(* ReportsBoot needs the kinds of value only.  NeverBricked and            *)
(* BootsPromised rest on OtaInv: an app that runs is whole and nobody      *)
(* writes it; a switch works on the sector that does not hold the newest   *)
(* number, so that the choice stays the old one until it is the new one;   *)
(* the copy that the bootloader makes is described operation by operation, *)
(* so that slot 1 stays chosen, and whole, until slot 0 equals it.         *)
(***************************************************************************)
EXTENDS OtaSelect, SequenceTheorems, WellFoundedInduction, TLAPS

(* What an image sector can hold, and the flash operations.                *)
Contents == Versions \cup {Erased, Bad}
Ops ==
    [on : {"select"}, s : 0 .. 1, n : {Unset} \cup 1 .. MaxSeq] \cup
    [on : {"image"}, p : Slots, c : 1 .. Chunks, v : Contents]

(* The kinds of value of the variables.                                    *)
Typed ==
    /\ table \in Tables
    /\ sec \in [0 .. 1 -> {Unset, Torn} \cup 1 .. MaxSeq]
    /\ img \in [Apps -> [1 .. Chunks -> Contents]]
    /\ running \in Apps \cup {Off}
    /\ boot \in Slots \cup {Factory, Off}
    /\ open \in Seq([part : Slots, wrote : 0 .. Chunks])
    /\ work \in Seq(Ops)
    /\ target \in Apps \cup {Off}
    /\ promised \in SUBSET Apps

(* The partition that the application is told will boot.                   *)
Reported == esp_ota_get_boot_partition

OnImage(o) == o.on = "image"

(* While an app runs its own image is whole and nobody writes it.          *)
RunningWhole ==
    running # Off =>
        /\ Verified(running)
        /\ \A i \in DOMAIN open : open[i].part # running
        /\ \A i \in DOMAIN work : OnImage(work[i]) => work[i].p # running

(* A switch of the boot partition to slot t works on sector s, which does  *)
(* not hold the newest number, and will write a number there that is not   *)
(* less.                                                                   *)
Switching(s, n, t) ==
    /\ work \in {<<Select(s, Unset), Select(s, n)>>, <<Select(s, n)>>}
    /\ (n - 1) % OtaCount = t
    /\ ota_select_valid(s) => ota_select_valid(1 - s) /\ sec[s] <= sec[1 - s]
    /\ ota_select_valid(1 - s) => sec[1 - s] <= n

(* What the flash operations still to do belong to: nothing after a        *)
(* restart, an image while no switch is in progress, else the switch.      *)
CallInProgress ==
    /\ running = Off => open = << >> /\ target = Off
    /\ running = Off /\ boot = Off => work = << >>
    /\ running # Off /\ target = Off => \A i \in DOMAIN work : OnImage(work[i])
    /\ target \in Slots => \E s \in 0 .. 1, n \in 1 .. MaxSeq : Switching(s, n, target)
    /\ target = Factory =>
        /\ HasFactory
        /\ promised = Apps
        /\ \/ work = EraseSelect
           \/ work = <<Select(1, Unset)>> /\ sec[0] = Unset
    /\ target # Off => target \in promised

(* The partition that the next boot is to start is one of those promised,  *)
(* or slot 0 holds a copy of one.                                          *)
KeepsPromise ==
    \/ Reported \in promised
    \/ CopyApp /\ running = Off /\ 1 \in promised /\ img[0] = img[1]

(* What the bootloader has chosen.                                         *)
Choice == running = Off /\ boot # Off /\ work = << >> => boot = get_selected_boot_partition

(* The i-th operation of esp_patition_copy_ota1_to_ota0.                   *)
CopyOp(i) ==
    IF i <= 2 * Chunks
      THEN Image(0, (i + 1) \div 2, IF i % 2 = 1 THEN Erased ELSE img[1][i \div 2])
      ELSE Select(i - 2 * Chunks - 1, Unset)

(* It has done i of them.                                                  *)
Copied(i) ==
    /\ Len(work) = 2 * Chunks + 2 - i
    /\ \A j \in 1 .. Len(work) : work[j] = CopyOp(i + j)
    /\ \A c \in 1 .. Chunks : 2 * c <= i => img[0][c] = img[1][c]
    /\ \A c \in 1 .. Chunks : 2 * c = i + 1 => img[0][c] = Erased
    /\ i <= 2 * Chunks => Reported = 1
    /\ i > 2 * Chunks => sec[0] = Unset

(* Without copying the bootloader writes nothing.  With it, the app runs   *)
(* in slot 0, and the slot that is chosen is whole: either slot 1 has been *)
(* checked and nobody has touched it since, or it is not chosen.           *)
CopyPhase ==
    /\ running = Off /\ work # << >> =>
        /\ CopyApp /\ boot = 0 /\ 1 \in promised /\ Verified(1)
        /\ \E i \in 0 .. 2 * Chunks + 1 : Copied(i)
    /\ CopyApp =>
        /\ running \in {Off, 0}
        /\ Reported = 1 => Verified(1)
        /\ Reported # 1 => Verified(0)
        /\ running = 0 /\ (open # << >> \/ \E i \in DOMAIN work : OnImage(work[i])) =>
               Reported = 0
        /\ target # Off => open = << >>
        /\ target = 1 => Verified(1)
        /\ running = Off /\ boot # Off /\ work = << >> => Reported # 1

OtaInv ==
    /\ Typed /\ RunningWhole /\ CallInProgress /\ KeepsPromise /\ Choice /\ CopyPhase
    /\ \E p \in Apps : Verified(p)

---------------------------------------------------------------------------
(***************************************************************************)
(* Numbers.                                                                *)
(***************************************************************************)

(* The largest element of a set, and the least.                            *)
LEMMA MaxIs ==
    ASSUME NEW S \in SUBSET Int, NEW m \in S, \A y \in S : y <= m
    PROVE  Max(S) = m
<1>1. \E x \in S : \A y \in S : x >= y
  <2>1. \A y \in S : m >= y
    OBVIOUS
  <2> QED
    BY <2>1
<1>2. Max(S) \in S /\ \A y \in S : Max(S) >= y
  BY <1>1 DEF Max
<1>3. Max(S) \in Int /\ m \in Int /\ Max(S) >= m /\ Max(S) <= m
  BY <1>2
<1> QED
  BY <1>3

(* The least element of a set.                                             *)
LEMMA MinIs ==
    ASSUME NEW S \in SUBSET Int, NEW m \in S, \A y \in S : m <= y
    PROVE  Min(S) = m
<1>1. Min(S) \in S /\ \A y \in S : Min(S) <= y
  BY DEF Min
<1>2. Min(S) \in Int /\ m \in Int /\ Min(S) >= m /\ Min(S) <= m
  BY <1>1
<1> QED
  BY <1>2

(* A set of natural numbers has a least element.                           *)
LEMMA LeastNatural ==
    ASSUME NEW T \in SUBSET Nat, T # {}
    PROVE  \E m \in T : \A j \in T : m <= j
<1>1. PICK m \in T : \A j \in T : ~(<<j, m>> \in OpToRel(<, Nat))
  BY NatLessThanWellFounded, WFMin
<1>2. ASSUME NEW j \in T PROVE m <= j
  <2>1. j \in Nat /\ m \in Nat
    OBVIOUS
  <2>2. ~(j < m)
    BY <1>1, <2>1 DEF OpToRel
  <2> QED
    BY <2>1, <2>2
<1> QED
  BY <1>2

(* Sets of integers with a bound have a least or a largest element.        *)
LEMMA MinExists ==
    ASSUME NEW S \in SUBSET Int, S # {}, NEW b \in Int, \A y \in S : b <= y
    PROVE  Min(S) \in S /\ \A y \in S : Min(S) <= y
<1> DEFINE T == {y - b : y \in S}
<1>1. T \in SUBSET Nat /\ T # {}
  <2>1. PICK y \in S : TRUE
    OBVIOUS
  <2>2. y - b \in T
    BY <2>1
  <2>3. \A z \in S : z - b \in Nat
    OBVIOUS
  <2> QED
    BY <2>2, <2>3
<1>2. PICK m \in T : \A j \in T : m <= j
  BY <1>1, LeastNatural
<1>3. PICK x \in S : m = x - b
  BY <1>2
<1>4. ASSUME NEW y \in S PROVE x <= y
  <2>1. y - b \in T
    OBVIOUS
  <2>2. x - b <= y - b
    BY <1>2, <1>3, <2>1
  <2> QED
    BY <2>2
<1>5. Min(S) = x
  BY <1>4, MinIs
<1> QED
  BY <1>4, <1>5

(* The same for the largest.                                               *)
LEMMA MaxExists ==
    ASSUME NEW S \in SUBSET Int, S # {}, NEW b \in Int, \A y \in S : y <= b
    PROVE  Max(S) \in S /\ \A y \in S : y <= Max(S)
<1> DEFINE T == {b - y : y \in S}
<1>1. T \in SUBSET Nat /\ T # {}
  <2>1. PICK y \in S : TRUE
    OBVIOUS
  <2>2. b - y \in T
    BY <2>1
  <2>3. \A z \in S : b - z \in Nat
    OBVIOUS
  <2> QED
    BY <2>2, <2>3
<1>2. PICK m \in T : \A j \in T : m <= j
  BY <1>1, LeastNatural
<1>3. PICK x \in S : m = b - x
  BY <1>2
<1>4. ASSUME NEW y \in S PROVE y <= x
  <2>1. b - y \in T
    OBVIOUS
  <2>2. b - x <= b - y
    BY <1>2, <1>3, <2>1
  <2> QED
    BY <2>2
<1>5. Max(S) = x
  BY <1>4, MaxIs
<1> QED
  BY <1>4, <1>5

(* Division with remainder...                                              *)
LEMMA Division ==
    ASSUME NEW n \in Nat, NEW d \in Nat \ {0}
    PROVE  n \div d \in Nat /\ n % d \in 0 .. d - 1 /\ n = d * (n \div d) + (n % d)
  OBVIOUS

(* ... is unique.                                                          *)
LEMMA Remainder ==
    ASSUME NEW d \in Nat \ {0}, NEW q \in Nat, NEW r \in 0 .. d - 1
    PROVE  (d * q + r) % d = r
<1> DEFINE n == d * q + r
           p == n \div d
           s == n % d
<1>1. n \in Nat
  OBVIOUS
<1>2. p \in Nat /\ s \in 0 .. d - 1 /\ n = d * p + s
  BY <1>1, Division
<1>3. d * (p - q) = r - s
  BY <1>2
<1>4. p = q
  <2>1. CASE p > q
    <3>1. p - q >= 1 /\ p - q \in Int
      BY <2>1, <1>2
    <3>2. d * (p - q) >= d
      BY <3>1
    <3> QED
      BY <3>2, <1>2, <1>3
  <2>2. CASE p < q
    <3>1. p - q <= -1 /\ p - q \in Int
      BY <2>2, <1>2
    <3>2. d * (p - q) <= -d
      BY <3>1
    <3> QED
      BY <3>2, <1>2, <1>3
  <2> QED
    BY <2>1, <2>2, <1>2
<1> QED
  BY <1>2, <1>3, <1>4

(* The number before one that stands for the slot after p stands for p.    *)
LEMMA SlotOfNumber ==
    ASSUME NEW d \in Nat \ {0}, NEW p \in 0 .. d - 1, NEW n \in Nat \ {0}, n % d = (p + 1) % d
    PROVE  (n - 1) % d = p
<1> DEFINE a == n \div d
           r == n % d
<1>1. a \in Nat /\ r \in 0 .. d - 1 /\ n = d * a + r
  BY Division
<1> HIDE DEF a
<1>2. CASE p + 1 < d
  <2>1. (d * 0 + (p + 1)) % d = p + 1
    BY <1>2, Remainder
  <2>2. r = p + 1
    BY <2>1
  <2> HIDE DEF r
  <2>3. n - 1 = d * a + p
    BY <1>1, <2>2
  <2> QED
    BY <1>1, <2>3, Remainder
<1>3. CASE p + 1 = d
  <2>1. (d * 1 + 0) % d = 0
    BY Remainder
  <2>2. r = 0
    BY <1>3, <2>1
  <2> HIDE DEF r
  <2>3. a # 0
    BY <1>1, <2>2
  <2>4. a - 1 \in Nat /\ n - 1 = d * (a - 1) + p
    BY <1>1, <1>3, <2>2, <2>3
  <2> QED
    BY <2>4, Remainder
<1> QED
  BY <1>2, <1>3

(* Among d numbers in a row one stands for every slot.                     *)
LEMMA NumberForSlot ==
    ASSUME NEW d \in Nat \ {0}, NEW m \in Nat, NEW r \in 0 .. d - 1
    PROVE  \E n \in m .. m + d - 1 : n % d = r
<1> DEFINE a == m \div d
           s == m % d
<1>1. a \in Nat /\ s \in 0 .. d - 1 /\ m = d * a + s
  BY Division
<1> HIDE DEF a, s
<1>2. CASE s <= r
  <2>1. d * a + r \in m .. m + d - 1
    BY <1>1, <1>2
  <2>2. (d * a + r) % d = r
    BY <1>1, Remainder
  <2> QED
    BY <2>1, <2>2
<1>3. CASE ~(s <= r)
  <2>1. d * (a + 1) + r = d * a + d + r
    BY <1>1
  <2>2. d * (a + 1) + r \in m .. m + d - 1
    BY <1>1, <1>3, <2>1
  <2>3. a + 1 \in Nat
    BY <1>1
  <2>4. (d * (a + 1) + r) % d = r
    BY <2>3, Remainder
  <2> QED
    BY <2>2, <2>4
<1> QED
  BY <1>2, <1>3
---------------------------------------------------------------------------
(***************************************************************************)
(* Reading the choice.  What two sectors with contents f say, on a device  *)
(* with k slots and default partition d.                                   *)
(***************************************************************************)
Sectors(M) == [0 .. 1 -> {Unset, Torn} \cup 1 .. M]
Readable(f) == {s \in 0 .. 1 : f[s] \notin {Unset, Torn}}
Chosen(f, k, d) ==
    IF Readable(f) = {} THEN d ELSE (Max({f[s] : s \in Readable(f)}) - 1) % k

(* Which sectors can be read.                                              *)
LEMMA ReadableCases ==
    ASSUME NEW M \in Nat, NEW f \in Sectors(M)
    PROVE  /\ f[0] \in 1 .. M <=> 0 \in Readable(f)
           /\ f[1] \in 1 .. M <=> 1 \in Readable(f)
           /\ f[0] \in {Unset, Torn} <=> 0 \notin Readable(f)
           /\ f[1] \in {Unset, Torn} <=> 1 \notin Readable(f)
           /\ Readable(f) \in {{}, {0}, {1}, {0, 1}}
<1>1. ASSUME NEW s \in 0 .. 1
      PROVE  /\ f[s] \in 1 .. M <=> s \in Readable(f)
             /\ f[s] \in {Unset, Torn} <=> s \notin Readable(f)
  <2>1. f[s] \in {Unset, Torn} \cup 1 .. M
    BY DEF Sectors
  <2>2. Unset \notin 1 .. M /\ Torn \notin 1 .. M
    BY DEF Unset, Torn
  <2> QED
    BY <2>1, <2>2 DEF Readable
<1>2. 0 .. 1 = {0, 1}
  OBVIOUS
<1>3. Readable(f) \subseteq {0, 1}
  BY <1>2 DEF Readable
<1>4. Readable(f) \in {{}, {0}, {1}, {0, 1}}
  BY <1>3
<1> QED
  BY <1>1, <1>2, <1>4

(* The choice, case by case.                                               *)
LEMMA ChosenCases ==
    ASSUME NEW M \in Nat, NEW f \in Sectors(M), NEW k \in Nat \ {0}, NEW d
    PROVE  /\ 0 \notin Readable(f) /\ 1 \notin Readable(f) => Chosen(f, k, d) = d
           /\ 0 \in Readable(f) /\ 1 \notin Readable(f) => Chosen(f, k, d) = (f[0] - 1) % k
           /\ 0 \notin Readable(f) /\ 1 \in Readable(f) => Chosen(f, k, d) = (f[1] - 1) % k
           /\ 0 \in Readable(f) /\ 1 \in Readable(f) /\ f[1] <= f[0] =>
                  Chosen(f, k, d) = (f[0] - 1) % k
           /\ 0 \in Readable(f) /\ 1 \in Readable(f) /\ f[0] <= f[1] =>
                  Chosen(f, k, d) = (f[1] - 1) % k
<1> DEFINE R == Readable(f)
           V == {f[s] : s \in R}
<1>1. R \in {{}, {0}, {1}, {0, 1}}
  BY ReadableCases
<1>2. \A s \in R : f[s] \in 1 .. M
  BY <1>1, ReadableCases
<1>3. V \in SUBSET Int
  BY <1>2
<1>4. ASSUME NEW s \in R, \A q \in R : f[q] <= f[s]
      PROVE  Chosen(f, k, d) = (f[s] - 1) % k
  <2>1. f[s] \in V /\ \A y \in V : y <= f[s]
    BY <1>4
  <2>2. Max(V) = f[s]
    <3> HIDE DEF V
    <3> QED
      BY <1>3, <2>1, MaxIs
  <2>3. Chosen(f, k, d) = (Max(V) - 1) % k
    BY DEF Chosen
  <2> QED
    BY <2>2, <2>3
<1>5. ASSUME NEW s \in R PROVE f[s] <= f[s]
  BY <1>2
<1>6. CASE R = {}
  BY <1>6 DEF Chosen
<1>7. CASE R = {0}
  <2>1. \A q \in R : f[q] <= f[0]
    BY <1>7, <1>5
  <2> QED
    BY <1>4, <1>7, <2>1
<1>8. CASE R = {1}
  <2>1. \A q \in R : f[q] <= f[1]
    BY <1>8, <1>5
  <2> QED
    BY <1>4, <1>8, <2>1
<1>9. CASE R = {0, 1}
  <2>1. ASSUME f[1] <= f[0] PROVE Chosen(f, k, d) = (f[0] - 1) % k
    <3>1. \A q \in R : f[q] <= f[0]
      BY <1>9, <1>5, <2>1
    <3> QED
      BY <1>4, <1>9, <3>1
  <2>2. ASSUME f[0] <= f[1] PROVE Chosen(f, k, d) = (f[1] - 1) % k
    <3>1. \A q \in R : f[q] <= f[1]
      BY <1>9, <1>5, <2>2
    <3> QED
      BY <1>4, <1>9, <3>1
  <2> QED
    BY <1>9, <2>1, <2>2
<1> QED
  BY <1>1, <1>6, <1>7, <1>8, <1>9

(* A slot, or the default partition.                                       *)
LEMMA ChosenType ==
    ASSUME NEW M \in Nat, NEW f \in Sectors(M), NEW k \in Nat \ {0}, NEW d
    PROVE  /\ Readable(f) = {} => Chosen(f, k, d) = d
           /\ Readable(f) # {} => Chosen(f, k, d) \in 0 .. k - 1
<1>1. ASSUME NEW n \in 1 .. M PROVE (n - 1) % k \in 0 .. k - 1
  <2>1. n - 1 \in Nat
    OBVIOUS
  <2> QED
    BY <2>1, Division
<1>2. 0 \in Readable(f) => (f[0] - 1) % k \in 0 .. k - 1
  BY <1>1, ReadableCases
<1>3. 1 \in Readable(f) => (f[1] - 1) % k \in 0 .. k - 1
  BY <1>1, ReadableCases
<1>4. 0 \in Readable(f) /\ 1 \in Readable(f) => f[0] <= f[1] \/ f[1] <= f[0]
  <2>1. 0 \in Readable(f) /\ 1 \in Readable(f) => f[0] \in 1 .. M /\ f[1] \in 1 .. M
    BY ReadableCases
  <2> QED
    BY <2>1
<1>5. Readable(f) \subseteq {0, 1}
  BY ReadableCases
<1> QED
  BY <1>2, <1>3, <1>4, <1>5, ChosenCases

(* Losing a number that is not the newest changes nothing.                 *)
LEMMA LoseOlder ==
    ASSUME NEW M \in Nat, NEW f \in Sectors(M), NEW g \in Sectors(M), NEW k \in Nat \ {0}, NEW d,
           NEW s \in 0 .. 1,
           s \in Readable(f) => 1 - s \in Readable(f) /\ f[s] <= f[1 - s],
           g[s] \in {Unset, Torn}, g[1 - s] = f[1 - s]
    PROVE  Chosen(g, k, d) = Chosen(f, k, d)
<1>1. /\ s \notin Readable(g)
      /\ 1 - s \in Readable(g) <=> 1 - s \in Readable(f)
  BY DEF Readable
<1>2. s \in {0, 1} /\ 0 # 1 /\ 1 - 0 = 1 /\ 1 - 1 = 0
  OBVIOUS
<1>3. CASE s = 0
  BY <1>1, <1>2, <1>3, ChosenCases
<1>4. CASE s = 1
  BY <1>1, <1>2, <1>4, ChosenCases
<1> QED
  BY <1>2, <1>3, <1>4

(* Writing a number that is not below the other makes it the choice.       *)
LEMMA WriteNewest ==
    ASSUME NEW M \in Nat, NEW f \in Sectors(M), NEW g \in Sectors(M), NEW k \in Nat \ {0}, NEW d,
           NEW s \in 0 .. 1,
           g[s] \in 1 .. M, g[1 - s] = f[1 - s],
           1 - s \in Readable(f) => f[1 - s] <= g[s]
    PROVE  Chosen(g, k, d) = (g[s] - 1) % k
<1>1. Unset \notin 1 .. M /\ Torn \notin 1 .. M
  BY DEF Unset, Torn
<1>2. s \in Readable(g) /\ (1 - s \in Readable(g) => 1 - s \in Readable(f))
  BY <1>1 DEF Readable
<1>3. s \in {0, 1} /\ 0 # 1 /\ 1 - 0 = 1 /\ 1 - 1 = 0
  OBVIOUS
<1>4. CASE s = 0
  BY <1>2, <1>3, <1>4, ChosenCases
<1>5. CASE s = 1
  BY <1>2, <1>3, <1>5, ChosenCases
<1> QED
  BY <1>3, <1>4, <1>5
---------------------------------------------------------------------------
(***************************************************************************)
(* The device, and what the application and the bootloader read.           *)
(***************************************************************************)

(* Sizes and partitions of a device.                                       *)
LEMMA Device ==
    ASSUME table \in Tables
    PROVE  /\ OtaCount \in Nat \ {0} /\ Chunks \in Nat \ {0} /\ MaxSeq \in Nat
           /\ CopyApp => OtaCount = 2 /\ 0 \in Slots /\ 1 \in Slots
           /\ Slots \subseteq Apps /\ Apps \in SUBSET Int /\ 0 \in Slots
           /\ Factory \notin Slots /\ Off \notin Apps /\ Factory # Off /\ Off \notin Slots
           /\ \A p \in Apps : -1 <= p /\ p <= OtaCount
           /\ \A p \in Apps : p \in Slots \/ (p = Factory /\ HasFactory)
           /\ HasFactory => Factory \in Apps
           /\ ~HasFactory => Apps = Slots
           /\ find_default_boot_partition \in Apps
<1>1. /\ OtaCount \in Nat \ {0} /\ Chunks \in Nat \ {0} /\ MaxSeq \in Nat
      /\ CopyApp => OtaCount = 2
  BY OtaAssumption DEF OtaCount, Chunks, MaxSeq, CopyApp
<1>2. /\ Slots \in SUBSET Int /\ 0 \in Slots
      /\ \A p \in Slots : 0 <= p /\ p <= OtaCount
      /\ CopyApp => 1 \in Slots
      /\ Factory \notin Slots /\ Off \notin Slots /\ Factory \in Int /\ Factory # Off
      /\ -1 <= Factory /\ Factory <= OtaCount
  BY <1>1 DEF Slots, Factory, Off
<1>3. /\ HasFactory => Apps = Slots \cup {Factory}
      /\ ~HasFactory => Apps = Slots
  BY DEF Apps
<1>4. \A p \in Apps : -1 <= p /\ p <= OtaCount
  <2>1. \A p \in Slots : -1 <= p /\ p <= OtaCount
    BY <1>1 DEF Slots
  <2> QED
    BY <1>2, <1>3, <2>1
<1>5. find_default_boot_partition \in Apps
  BY <1>2, <1>3 DEF find_default_boot_partition
<1> QED
  BY <1>1, <1>2, <1>3, <1>4, <1>5

(* A device keeps its partition table.                                     *)
LEMMA Fixed ==
    ASSUME table' = table
    PROVE  /\ OtaCount' = OtaCount /\ HasFactory' = HasFactory /\ CopyApp' = CopyApp
           /\ AnyOrder' = AnyOrder /\ Chunks' = Chunks /\ MaxSeq' = MaxSeq
           /\ Slots' = Slots /\ Apps' = Apps /\ Ops' = Ops
           /\ find_default_boot_partition' = find_default_boot_partition
<1>1. /\ OtaCount' = OtaCount /\ HasFactory' = HasFactory /\ CopyApp' = CopyApp
      /\ AnyOrder' = AnyOrder /\ Chunks' = Chunks /\ MaxSeq' = MaxSeq
  BY DEF OtaCount, HasFactory, CopyApp, AnyOrder, Chunks, MaxSeq
<1>2. Slots' = Slots
  BY <1>1 DEF Slots
<1>3. Apps' = Apps /\ Ops' = Ops /\ find_default_boot_partition' = find_default_boot_partition
  BY <1>1, <1>2 DEF Apps, Ops, find_default_boot_partition, Contents, Factory, Unset
<1> QED
  BY <1>1, <1>2, <1>3

(* The partition reported and the one the bootloader looks at first.       *)
LEMMA ReportedIs ==
    /\ Reported = Chosen(sec, OtaCount, find_default_boot_partition)
    /\ ValidSecs = Readable(sec)
    /\ Readable(sec) # {} => get_selected_boot_partition = Reported
    /\ Readable(sec) = {} =>
           get_selected_boot_partition \in {find_default_boot_partition, Factory}
  BY DEF Reported, esp_ota_get_boot_partition, get_selected_boot_partition, ValidSecs,
         ota_select_valid, Newest, Chosen, Readable

(* The same after a step.                                                  *)
LEMMA ReportedNext ==
    ASSUME table' = table
    PROVE  /\ Reported' = Chosen(sec', OtaCount, find_default_boot_partition)
           /\ ValidSecs' = Readable(sec')
           /\ Readable(sec') # {} => get_selected_boot_partition' = Reported'
           /\ Readable(sec') = {} =>
                  get_selected_boot_partition' \in {find_default_boot_partition, Factory}
<1>1. OtaCount' = OtaCount /\ find_default_boot_partition' = find_default_boot_partition
  BY Fixed
<1> QED
  BY <1>1 DEF Reported, esp_ota_get_boot_partition, get_selected_boot_partition, ValidSecs,
         ota_select_valid, Newest, Chosen, Readable, Factory

(* The partition reported exists.                                          *)
LEMMA ReportedType ==
    ASSUME Typed
    PROVE  /\ sec \in Sectors(MaxSeq)
           /\ Reported \in Apps
           /\ Readable(sec) # {} => Reported \in Slots
           /\ Readable(sec) = {} => Reported = find_default_boot_partition
<1>1. table \in Tables /\ sec \in Sectors(MaxSeq)
  BY DEF Typed, Sectors
<1>2. /\ Readable(sec) # {} => Reported \in 0 .. OtaCount - 1
      /\ Readable(sec) = {} => Reported = find_default_boot_partition
  BY <1>1, Device, ReportedIs, ChosenType
<1> QED
  BY <1>1, <1>2, Device DEF Slots

(* The bootloader loads a whole image if there is one.                     *)
LEMMA Loads ==
    ASSUME table \in Tables, NEW i \in Int, \E p \in Apps : Verified(p)
    PROVE  load_boot_image(i) \in Apps /\ Verified(load_boot_image(i))
<1> DEFINE good   == {p \in Apps : Verified(p)}
           before == {p \in good : p <= i}
<1>1. good \in SUBSET Int /\ good # {} /\ \A p \in good : -1 <= p /\ p <= OtaCount
  BY Device
<1>2. before \in SUBSET Int /\ before \subseteq good /\ \A p \in before : p <= OtaCount
  BY <1>1
<1>3. OtaCount \in Int /\ -1 \in Int
  BY Device
<1>4. load_boot_image(i) = IF before # {} THEN Max(before) ELSE Min(good)
  BY DEF load_boot_image
<1> HIDE DEF good, before
<1>5. before # {} => Max(before) \in before
  BY <1>2, <1>3, MaxExists
<1>6. Min(good) \in good
  BY <1>1, <1>3, MinExists
<1>7. load_boot_image(i) \in good
  BY <1>2, <1>4, <1>5, <1>6
<1> QED
  BY <1>7 DEF good

(* It is the one reported, if that is whole.                               *)
LEMMA LoadsReported ==
    ASSUME Typed, Verified(Reported)
    PROVE  load_boot_image(get_selected_boot_partition) = Reported
<1> DEFINE good   == {p \in Apps : Verified(p)}
           index  == get_selected_boot_partition
           before == {p \in good : p <= index}
<1>1. table \in Tables
  BY DEF Typed
<1>2. Reported \in good /\ good \in SUBSET Int
  BY <1>1, Device, ReportedType
<1>3. load_boot_image(index) = IF before # {} THEN Max(before) ELSE Min(good)
  BY DEF load_boot_image
<1>4. CASE index = Reported
  <2>1. before \in SUBSET Int /\ Reported \in before /\ \A y \in before : y <= Reported
    BY <1>2, <1>4
  <2> HIDE DEF good, index, before
  <2>2. Max(before) = Reported
    BY <2>1, MaxIs
  <2> QED
    BY <1>3, <2>1, <2>2 DEF index
<1>5. CASE index # Reported
  <2>1. Reported = find_default_boot_partition /\ index = Factory
    BY <1>5, ReportedIs, ReportedType
  <2>2. ~HasFactory /\ Reported = 0
    BY <1>5, <2>1 DEF find_default_boot_partition
  <2>3. \A y \in good : 0 <= y
    BY <1>1, <2>2, Device DEF Slots
  <2>4. before = {}
    BY <1>2, <2>1, <2>3 DEF Factory
  <2> HIDE DEF good, index, before
  <2>5. Min(good) = 0
    BY <1>2, <2>2, <2>3, MinIs
  <2> QED
    BY <1>3, <2>2, <2>4, <2>5 DEF index
<1> QED
  BY <1>4, <1>5
---------------------------------------------------------------------------
(***************************************************************************)
(* Switching.                                                              *)
(***************************************************************************)

(* The new number stands for the slot and is not below any that is stored. *)
LEMMA NewNumber ==
    ASSUME Typed, NEW p \in Slots
    PROVE  /\ SeqFor(p) \in Nat \ {0}
           /\ (SeqFor(p) - 1) % OtaCount = p
           /\ \A s \in ValidSecs : sec[s] <= SeqFor(p)
<1>1. /\ OtaCount \in Nat \ {0} /\ MaxSeq \in Nat /\ sec \in Sectors(MaxSeq)
      /\ p \in 0 .. OtaCount - 1
      /\ ValidSecs = Readable(sec)
  BY Device, ReportedType, ReportedIs DEF Typed, Slots
<1>2. \A s \in ValidSecs : sec[s] \in 1 .. MaxSeq
  BY <1>1, ReadableCases
<1>3. CASE ValidSecs = {}
  <2>1. SeqFor(p) = p + 1
    BY <1>3 DEF SeqFor
  <2>2. (OtaCount * 0 + p) % OtaCount = p
    BY <1>1, Remainder
  <2>3. p + 1 - 1 = OtaCount * 0 + p
    BY <1>1
  <2> QED
    BY <1>1, <1>3, <2>1, <2>2, <2>3
<1>4. CASE ValidSecs # {}
  <2> DEFINE V == {sec[s] : s \in ValidSecs}
             r == (p + 1) % OtaCount
             N == {n \in Newest .. Newest + OtaCount - 1 : n % OtaCount = r}
  <2>1. V \in SUBSET Int /\ V # {} /\ \A y \in V : 1 <= y /\ y <= MaxSeq
    BY <1>2, <1>4
  <2>2. Newest = Max(V)
    BY DEF Newest
  <2>3. \A s \in ValidSecs : sec[s] \in V
    OBVIOUS
  <2> HIDE DEF V
  <2>4. Newest \in V /\ \A y \in V : y <= Newest
    BY <1>1, <2>1, <2>2, MaxExists
  <2>5. Newest \in Nat \ {0}
    BY <2>1, <2>4
  <2>6. r \in 0 .. OtaCount - 1
    <3>1. p + 1 \in Nat
      BY <1>1
    <3> QED
      BY <1>1, <3>1, Division
  <2>7. PICK n \in Newest .. Newest + OtaCount - 1 : n % OtaCount = r
    <3> HIDE DEF r
    <3> QED
      BY <1>1, <2>5, <2>6, NumberForSlot
  <2>8. SeqFor(p) = Min(N)
    BY <1>4 DEF SeqFor
  <2>9. N \in SUBSET Int /\ N # {} /\ \A y \in N : Newest <= y
    <3>1. n \in N
      BY <2>7
    <3>2. \A y \in N : y \in Int /\ Newest <= y
      BY <1>1, <2>5
    <3> QED
      BY <3>1, <3>2
  <2>10. Min(N) \in N
    <3> HIDE DEF N
    <3> QED
      BY <2>5, <2>9, MinExists
  <2>11. Min(N) \in Nat \ {0} /\ Newest <= Min(N) /\ Min(N) % OtaCount = (p + 1) % OtaCount
    BY <1>1, <2>5, <2>10
  <2> HIDE DEF N, r
  <2>12. (Min(N) - 1) % OtaCount = p
    BY <1>1, <2>11, SlotOfNumber
  <2>13. \A s \in ValidSecs : sec[s] <= Min(N)
    BY <1>2, <2>3, <2>4, <2>5, <2>11
  <2> QED
    BY <2>8, <2>11, <2>12, <2>13
<1> QED
  BY <1>3, <1>4

(* The sector that is overwritten does not hold the newest number.         *)
LEMMA OlderSector ==
    ASSUME Typed
    PROVE  /\ SectorFor \in 0 .. 1
           /\ SectorFor \in ValidSecs =>
                  1 - SectorFor \in ValidSecs /\ sec[SectorFor] <= sec[1 - SectorFor]
<1>1. /\ MaxSeq \in Nat /\ sec \in Sectors(MaxSeq) /\ ValidSecs = Readable(sec)
  BY Device, ReportedType, ReportedIs DEF Typed
<1>2. ValidSecs \in {{}, {0}, {1}, {0, 1}} /\ \A s \in ValidSecs : sec[s] \in 1 .. MaxSeq
  BY <1>1, ReadableCases
<1>3. /\ 0 .. 1 = {0, 1} /\ 1 - 0 = 1 /\ 1 - 1 = 0
      /\ {0, 1} # {0} /\ {} # {0} /\ {0} # {0, 1} /\ {1} # {0}
      /\ {} # {0, 1} /\ {1} # {0, 1}
  <2>1. 0 .. 1 = {0, 1} /\ 1 - 0 = 1 /\ 1 - 1 = 0 /\ 0 # 1
    OBVIOUS
  <2>2. 0 \in {0, 1} /\ 1 \in {0, 1} /\ 1 \notin {0} /\ 0 \notin {1} /\ 0 \in {0} /\ 0 \notin {}
    BY <2>1
  <2>3. {0, 1} # {0} /\ {0} # {0, 1}
    BY <2>2
  <2>4. {} # {0} /\ {1} # {0}
    BY <2>2
  <2>5. {} # {0, 1} /\ {1} # {0, 1}
    BY <2>2
  <2> QED
    BY <2>1, <2>3, <2>4, <2>5
<1>4. CASE ValidSecs = {0, 1}
  <2>1. SectorFor = IF sec[0] >= sec[1] THEN 1 ELSE 0
    BY <1>3, <1>4 DEF SectorFor
  <2>2. sec[0] \in 1 .. MaxSeq /\ sec[1] \in 1 .. MaxSeq
    BY <1>2, <1>4
  <2> QED
    BY <1>3, <1>4, <2>1, <2>2
<1>5. CASE ValidSecs = {0}
  <2>1. SectorFor = 1
    BY <1>3, <1>5 DEF SectorFor
  <2> QED
    BY <1>5, <2>1
<1>6. CASE ValidSecs \in {{}, {1}}
  <2>1. SectorFor = 0
    BY <1>3, <1>6 DEF SectorFor
  <2> QED
    BY <1>6, <2>1
<1> QED
  BY <1>2, <1>4, <1>5, <1>6
---------------------------------------------------------------------------
(***************************************************************************)
(* Flash operations.                                                       *)
(***************************************************************************)
OpSelect == [on : {"select"}, s : 0 .. 1, n : {Unset} \cup 1 .. MaxSeq]
OpImage  == [on : {"image"}, p : Slots, c : 1 .. Chunks, v : Contents]

(* An operation is of one of the two kinds.                                *)
LEMMA OpKinds ==
    /\ \A o \in Ops : o.on = "select" =>
           o.s \in 0 .. 1 /\ o.n \in {Unset} \cup 1 .. MaxSeq /\ ~OnImage(o)
    /\ \A o \in Ops : o.on # "select" =>
           /\ OnImage(o) /\ o.on = "image"
           /\ o.p \in Slots /\ o.c \in 1 .. Chunks /\ o.v \in Contents
    /\ \A s \in 0 .. 1, n \in {Unset} \cup 1 .. MaxSeq :
           /\ Select(s, n) \in Ops /\ ~OnImage(Select(s, n)) /\ Select(s, n).on = "select"
           /\ Select(s, n).s = s /\ Select(s, n).n = n
    /\ \A p \in Slots, c \in 1 .. Chunks, v \in Contents :
           /\ Image(p, c, v) \in Ops /\ OnImage(Image(p, c, v))
           /\ Image(p, c, v).p = p /\ Image(p, c, v).c = c /\ Image(p, c, v).v = v
<1>1. Ops = OpSelect \cup OpImage
  BY DEF Ops, OpSelect, OpImage
<1>2. \A o \in OpSelect :
          o.on = "select" /\ o.s \in 0 .. 1 /\ o.n \in {Unset} \cup 1 .. MaxSeq /\ ~OnImage(o)
  BY DEF OpSelect, OnImage
<1>3. \A o \in OpImage :
          /\ o.on # "select" /\ OnImage(o) /\ o.on = "image"
          /\ o.p \in Slots /\ o.c \in 1 .. Chunks /\ o.v \in Contents
  BY DEF OpImage, OnImage
<1>4. \A s \in 0 .. 1, n \in {Unset} \cup 1 .. MaxSeq :
           /\ Select(s, n) \in OpSelect
           /\ Select(s, n).s = s /\ Select(s, n).n = n
  BY DEF Select, OpSelect
<1>5. \A p \in Slots, c \in 1 .. Chunks, v \in Contents :
           /\ Image(p, c, v) \in OpImage
           /\ Image(p, c, v).p = p /\ Image(p, c, v).c = c /\ Image(p, c, v).v = v
  BY DEF Image, OpImage
<1> QED
  BY <1>1, <1>2, <1>3, <1>4, <1>5

(* What an operation leaves behind, done, undone or cut short.             *)
LEMMA WriteTyped ==
    ASSUME Typed, NEW o \in Ops, NEW n \in {Unset, Torn} \cup 1 .. MaxSeq, NEW v \in Contents,
           Does(o, n, v)
    PROVE  /\ sec' \in Sectors(MaxSeq)
           /\ img' \in [Apps -> [1 .. Chunks -> Contents]]
           /\ OnImage(o) => sec' = sec /\ \A p \in Apps : p # o.p => img'[p] = img[p]
           /\ OnImage(o) => img'[o.p] = [img[o.p] EXCEPT ![o.c] = v]
           /\ ~OnImage(o) => img' = img /\ sec' = [sec EXCEPT ![o.s] = n]
<1>1. /\ sec \in Sectors(MaxSeq) /\ img \in [Apps -> [1 .. Chunks -> Contents]]
      /\ table \in Tables
  BY DEF Typed, Sectors
<1>2. CASE o.on = "select"
  <2>1. sec' = [sec EXCEPT ![o.s] = n] /\ img' = img
    BY <1>2 DEF Does
  <2>2. ~OnImage(o)
    BY <1>2 DEF OnImage
  <2>3. sec' \in Sectors(MaxSeq)
    BY <1>1, <2>1 DEF Sectors
  <2> QED
    BY <1>1, <2>1, <2>2, <2>3
<1>3. CASE o.on # "select"
  <2>1. OnImage(o) /\ o.on = "image" /\ o.p \in Slots /\ o.c \in 1 .. Chunks
    BY <1>3, OpKinds
  <2>2. sec' = sec /\ img' = [img EXCEPT ![o.p][o.c] = v]
    BY <1>3, <2>1 DEF Does
  <2>3. o.p \in Apps
    BY <1>1, <2>1, Device
  <2>4. img' = [img EXCEPT ![o.p] = [img[o.p] EXCEPT ![o.c] = v]]
    BY <2>2
  <2>5. [img[o.p] EXCEPT ![o.c] = v] \in [1 .. Chunks -> Contents]
    BY <1>1, <2>3
  <2> QED
    BY <1>1, <2>1, <2>2, <2>3, <2>4, <2>5
<1> QED
  BY <1>2, <1>3

(* The operations of esp_patition_copy_ota1_to_ota0.                       *)
LEMMA CopyList ==
    ASSUME Typed, CopyApp
    PROVE  /\ esp_patition_copy_ota1_to_ota0 \in Seq(Ops)
           /\ Len(esp_patition_copy_ota1_to_ota0) = 2 * Chunks + 2
           /\ \A i \in 1 .. 2 * Chunks + 2 :
                  esp_patition_copy_ota1_to_ota0[i] = CopyOp(i) /\ CopyOp(i) \in Ops
<1> DEFINE a == [i \in 1 .. 2 * Chunks |->
                    Image(0, (i + 1) \div 2, IF i % 2 = 1 THEN Erased ELSE img[1][i \div 2])]
<1>1. /\ Chunks \in Nat \ {0} /\ 0 \in Slots /\ 1 \in Apps
      /\ img \in [Apps -> [1 .. Chunks -> Contents]]
  BY Device DEF Typed
<1>2. ASSUME NEW i \in 1 .. 2 * Chunks
      PROVE  a[i] = CopyOp(i) /\ CopyOp(i) \in Ops
  <2>1. (i + 1) \div 2 \in 1 .. Chunks
    BY <1>1
  <2>2. i % 2 # 1 => i \div 2 \in 1 .. Chunks
    BY <1>1
  <2>3. (IF i % 2 = 1 THEN Erased ELSE img[1][i \div 2]) \in Contents
    BY <1>1, <2>2 DEF Contents
  <2>4. a[i] = CopyOp(i)
    <3>1. i <= 2 * Chunks
      BY <1>1
    <3> QED
      BY <3>1 DEF CopyOp
  <2>5. a[i] \in Ops
    BY <1>1, <2>1, <2>3, OpKinds
  <2> QED
    BY <2>4, <2>5
<1>3. a \in Seq(Ops) /\ Len(a) = 2 * Chunks
  <2>1. \A i \in 1 .. 2 * Chunks : a[i] \in Ops
    BY <1>2
  <2>2. 2 * Chunks \in Nat
    BY <1>1
  <2> QED
    BY <2>1, <2>2
<1>4. EraseSelect \in Seq(Ops) /\ Len(EraseSelect) = 2
  <2>1. Select(0, Unset) \in Ops /\ Select(1, Unset) \in Ops
    BY OpKinds
  <2> QED
    BY <2>1 DEF EraseSelect
<1>5. esp_patition_copy_ota1_to_ota0 = a \o EraseSelect
  BY DEF esp_patition_copy_ota1_to_ota0
<1> HIDE DEF a
<1>6. /\ a \o EraseSelect \in Seq(Ops) /\ Len(a \o EraseSelect) = 2 * Chunks + 2
      /\ \A i \in 1 .. 2 * Chunks + 2 :
            (a \o EraseSelect)[i] =
                IF i <= 2 * Chunks THEN a[i] ELSE EraseSelect[i - 2 * Chunks]
  <2>1. /\ a \o EraseSelect \in Seq(Ops)
        /\ Len(a \o EraseSelect) = Len(a) + Len(EraseSelect)
        /\ \A i \in 1 .. Len(a) + Len(EraseSelect) :
              (a \o EraseSelect)[i] = IF i <= Len(a) THEN a[i] ELSE EraseSelect[i - Len(a)]
    BY <1>3, <1>4, ConcatProperties
  <2> QED
    BY <1>3, <1>4, <2>1
<1>7. ASSUME NEW i \in 1 .. 2 * Chunks + 2, ~(i <= 2 * Chunks)
      PROVE  EraseSelect[i - 2 * Chunks] = CopyOp(i) /\ CopyOp(i) \in Ops
  <2>1. CopyOp(i) = Select(i - 2 * Chunks - 1, Unset)
    BY <1>7 DEF CopyOp
  <2>2. \/ i - 2 * Chunks = 1 /\ i - 2 * Chunks - 1 = 0
        \/ i - 2 * Chunks = 2 /\ i - 2 * Chunks - 1 = 1
    BY <1>1, <1>7
  <2>3. EraseSelect[1] = Select(0, Unset) /\ EraseSelect[2] = Select(1, Unset)
    BY DEF EraseSelect
  <2>4. Select(0, Unset) \in Ops /\ Select(1, Unset) \in Ops
    BY OpKinds
  <2> QED
    BY <2>1, <2>2, <2>3, <2>4
<1>8. ASSUME NEW i \in 1 .. 2 * Chunks + 2
      PROVE  esp_patition_copy_ota1_to_ota0[i] = CopyOp(i) /\ CopyOp(i) \in Ops
  <2>1. CASE i <= 2 * Chunks
    BY <1>1, <1>2, <1>5, <1>6, <2>1
  <2>2. CASE ~(i <= 2 * Chunks)
    BY <1>5, <1>6, <1>7, <2>2
  <2> QED
    BY <2>1, <2>2
<1> QED
  BY <1>5, <1>6, <1>8

(* The first of the operations to do, and the others.                      *)
LEMMA Rest ==
    ASSUME NEW S, NEW q \in Seq(S), q # << >>
    PROVE  /\ Head(q) = q[1] /\ q[1] \in S /\ 1 \in DOMAIN q /\ Len(q) \in Nat \ {0}
           /\ Tail(q) \in Seq(S) /\ Len(Tail(q)) = Len(q) - 1
           /\ \A i \in DOMAIN Tail(q) : i + 1 \in DOMAIN q /\ Tail(q)[i] = q[i + 1]
           /\ Tail(q) = << >> <=> Len(q) = 1
<1>1. /\ Head(q) = q[1] /\ q[1] \in S /\ 1 \in DOMAIN q /\ Len(q) \in Nat \ {0}
  OBVIOUS
<1>2. /\ Tail(q) \in Seq(S) /\ Len(Tail(q)) = Len(q) - 1
      /\ \A i \in 1 .. Len(Tail(q)) : Tail(q)[i] = q[i + 1]
  BY HeadTailProperties
<1>3. \A i \in DOMAIN Tail(q) : i + 1 \in DOMAIN q /\ Tail(q)[i] = q[i + 1]
  BY <1>1, <1>2
<1>4. Tail(q) = << >> <=> Len(Tail(q)) = 0
  BY <1>2, EmptySeq
<1> QED
  BY <1>1, <1>2, <1>3, <1>4

(* What the next operation writes when it is done.                         *)
LEMMA FlashDoes ==
    ASSUME Typed, FlashStep
    PROVE  \E n \in {Unset, Torn} \cup 1 .. MaxSeq, v \in Contents :
               /\ Does(Head(work), n, v)
               /\ ~OnImage(Head(work)) => n = Head(work).n
               /\ OnImage(Head(work)) =>
                      v = Programmed(img[Head(work).p][Head(work).c], Head(work).v)
<1> DEFINE o == Head(work)
<1>1. o \in Ops
  BY Rest DEF FlashStep, Typed
<1>2. CASE o.on = "select"
  <2>1. Does(o, o.n, Erased)
    BY <1>2 DEF FlashStep
  <2>2. o.n \in {Unset, Torn} \cup 1 .. MaxSeq /\ ~OnImage(o) /\ Erased \in Contents
    BY <1>1, <1>2, OpKinds DEF Contents
  <2> QED
    BY <2>1, <2>2
<1>3. CASE o.on # "select"
  <2>1. Does(o, Unset, Programmed(img[o.p][o.c], o.v))
    BY <1>3 DEF FlashStep
  <2>2. o.v \in Contents /\ OnImage(o)
    BY <1>1, <1>3, OpKinds
  <2>3. Programmed(img[o.p][o.c], o.v) \in Contents
    BY <2>2 DEF Programmed, Contents
  <2> QED
    BY <2>1, <2>2, <2>3
<1> QED
  BY <1>2, <1>3
---------------------------------------------------------------------------
(***************************************************************************)
(* Kinds of value.                                                         *)
(***************************************************************************)
Update == [part : Slots, wrote : 0 .. Chunks]

(* The device leaves the factory well-typed ...                            *)
LEMMA TypedInit == Init => Typed
<1> SUFFICES ASSUME Init PROVE Typed
  OBVIOUS
<1>1. table \in Tables /\ find_default_boot_partition \in Apps
  BY Device DEF Init
<1>2. sec \in [0 .. 1 -> {Unset, Torn} \cup 1 .. MaxSeq]
  BY DEF Init
<1>3. img \in [Apps -> [1 .. Chunks -> Contents]]
  <2>1. Shipped \in Contents /\ Erased \in Contents
    BY OtaAssumption DEF Contents
  <2> QED
    BY <2>1 DEF Init
<1>4. open \in Seq([part : Slots, wrote : 0 .. Chunks]) /\ work \in Seq(Ops)
  BY DEF Init
<1> QED
  BY <1>1, <1>2, <1>3, <1>4 DEF Init, Typed

(* What a step of the application or of the bootloader has to show.        *)
LEMMA TypedFrom ==
    ASSUME Typed, table' = table,
           sec' \in Sectors(MaxSeq),
           img' \in [Apps -> [1 .. Chunks -> Contents]],
           running' \in Apps \cup {Off},
           boot' \in Slots \cup {Factory, Off},
           open' \in Seq(Update),
           work' \in Seq(Ops),
           target' \in Apps \cup {Off},
           promised' \in SUBSET Apps
    PROVE  Typed'
<1>1. /\ Chunks' = Chunks /\ MaxSeq' = MaxSeq /\ Slots' = Slots /\ Apps' = Apps
      /\ Ops' = Ops
  BY Fixed
<1>2. table' \in Tables
  BY DEF Typed
<1>3. Contents' = Contents /\ Off' = Off /\ Factory' = Factory /\ Unset' = Unset /\ Torn' = Torn
  BY DEF Contents, Off, Factory, Unset, Torn
<1> QED
  BY <1>1, <1>2, <1>3 DEF Typed, Sectors, Update

(* ... and every step keeps it so.                                         *)
LEMMA TypedStep == Typed /\ [Next]_vars => Typed'
<1> SUFFICES ASSUME Typed, [Next]_vars PROVE Typed'
  OBVIOUS
<1>1. /\ table \in Tables
      /\ sec \in Sectors(MaxSeq)
      /\ img \in [Apps -> [1 .. Chunks -> Contents]]
      /\ running \in Apps \cup {Off}
      /\ boot \in Slots \cup {Factory, Off}
      /\ open \in Seq(Update)
      /\ work \in Seq(Ops)
      /\ target \in Apps \cup {Off}
      /\ promised \in SUBSET Apps
  BY DEF Typed, Sectors, Update
<1>2. Slots \subseteq Apps /\ Chunks \in Nat \ {0} /\ MaxSeq \in Nat /\ Apps \in SUBSET Int
  BY <1>1, Device
<1>3. Erased \in Contents /\ Bad \in Contents /\ Versions \subseteq Contents
  BY DEF Contents
<1>4. \A s \in 0 .. 1 : Select(s, Unset) \in Ops
  BY OpKinds
<1>5. ASSUME NEW p \in Apps, NEW n \in 1 .. Chunks, esp_ota_begin(p, n) PROVE Typed'
  <2>1. p \in Slots
    BY <1>5 DEF esp_ota_begin
  <2>2. work' = EraseImage(p, n) /\ open' = Append(open, [part |-> p, wrote |-> 0])
    BY <1>5 DEF esp_ota_begin
  <2>3. \A c \in 1 .. n : Image(p, c, Erased) \in Ops
    BY <1>2, <1>3, <2>1, OpKinds
  <2>4. EraseImage(p, n) \in Seq(Ops)
    BY <2>3 DEF EraseImage
  <2>5. [part |-> p, wrote |-> 0] \in Update
    BY <1>2, <2>1 DEF Update
  <2>6. open' \in Seq(Update)
    BY <1>1, <2>2, <2>5
  <2> QED
    BY <1>1, <1>5, <2>2, <2>4, <2>6, TypedFrom DEF esp_ota_begin
<1>6. ASSUME NEW h \in DOMAIN open, NEW v \in Versions \cup {Bad}, esp_ota_write(h, v)
      PROVE  Typed'
  <2>1. h \in 1 .. Len(open) /\ open[h] \in Update
    BY <1>1
  <2>2. open[h].part \in Slots /\ open[h].wrote \in 0 .. Chunks /\ open[h].wrote < Chunks
    BY <1>6, <2>1 DEF esp_ota_write, Update
  <2>3. open[h].wrote + 1 \in 1 .. Chunks
    BY <1>2, <2>2
  <2>4. Image(open[h].part, open[h].wrote + 1, v) \in Ops
    BY <1>3, <2>2, <2>3, OpKinds
  <2>5. work' \in Seq(Ops)
    BY <1>6, <2>4 DEF esp_ota_write
  <2>6. [open[h] EXCEPT !.wrote = open[h].wrote + 1] \in Update
    BY <1>2, <2>1, <2>3 DEF Update
  <2>7. open' = [open EXCEPT ![h] = [open[h] EXCEPT !.wrote = open[h].wrote + 1]]
    BY <1>6 DEF esp_ota_write
  <2>8. open' \in Seq(Update)
    BY <1>1, <2>1, <2>6, <2>7
  <2> QED
    BY <1>1, <1>6, <2>5, <2>8, TypedFrom DEF esp_ota_write
<1>7. ASSUME NEW h \in DOMAIN open, esp_ota_end(h) PROVE Typed'
  <2>1. h \in 1 .. Len(open) /\ Len(open) \in Nat /\ \A i \in 1 .. Len(open) : open[i] \in Update
    BY <1>1
  <2>2. Len(open) - 1 \in Nat
    BY <2>1
  <2>3. \A i \in 1 .. Len(open) - 1 : (IF i < h THEN open[i] ELSE open[i + 1]) \in Update
    BY <2>1
  <2>4. open' = [i \in 1 .. Len(open) - 1 |-> IF i < h THEN open[i] ELSE open[i + 1]]
    BY <1>7 DEF esp_ota_end
  <2>5. open' \in Seq(Update)
    BY <2>2, <2>3, <2>4
  <2> QED
    BY <1>1, <1>7, <2>5, TypedFrom DEF esp_ota_end
<1>8. ASSUME NEW p \in Apps, esp_ota_set_boot_partition(p) PROVE Typed'
  <2>1. work' \in Seq(Ops)
    <3>1. CASE p = Factory
      <4>1. work' = <<Select(0, Unset), Select(1, Unset)>>
        BY <1>8, <3>1 DEF esp_ota_set_boot_partition, EraseSelect
      <4> QED
        BY <1>4, <4>1
    <3>2. CASE p # Factory
      <4>1. p \in Slots
        BY <1>1, <3>2, Device
      <4>2. /\ SeqFor(p) <= MaxSeq
            /\ work' = <<Select(SectorFor, Unset), Select(SectorFor, SeqFor(p))>>
        BY <1>8, <3>2 DEF esp_ota_set_boot_partition, rewrite_ota_seq
      <4>3. SeqFor(p) \in 1 .. MaxSeq /\ SectorFor \in 0 .. 1
        <5>1. SeqFor(p) \in Nat \ {0} /\ SectorFor \in 0 .. 1
          BY <4>1, NewNumber, OlderSector
        <5> QED
          BY <1>2, <4>2, <5>1
      <4>4. Select(SectorFor, Unset) \in Ops /\ Select(SectorFor, SeqFor(p)) \in Ops
        BY <4>3, OpKinds
      <4> QED
        BY <4>2, <4>4
    <3> QED
      BY <3>1, <3>2
  <2>2. target' \in Apps \cup {Off} /\ promised' \in SUBSET Apps
    BY <1>1, <1>8 DEF esp_ota_set_boot_partition
  <2> QED
    BY <1>1, <1>8, <2>1, <2>2, TypedFrom DEF esp_ota_set_boot_partition
<1>9. CASE FlashStep
  <2> DEFINE o == Head(work)
  <2>1. work # << >> /\ o \in Ops /\ work' \in Seq(Ops)
    BY <1>1, <1>9 DEF FlashStep
  <2>2. PICK n \in {Unset, Torn} \cup 1 .. MaxSeq, v \in Contents : Does(o, n, v)
    BY <1>9, FlashDoes
  <2>3. sec' \in Sectors(MaxSeq) /\ img' \in [Apps -> [1 .. Chunks -> Contents]]
    BY <2>1, <2>2, WriteTyped
  <2>4. target' \in Apps \cup {Off} /\ promised' \in SUBSET Apps
    BY <1>1, <1>9 DEF FlashStep
  <2> QED
    BY <1>1, <1>9, <2>1, <2>3, <2>4, TypedFrom DEF FlashStep
<1>10. CASE esp_restart
  <2>1. open' \in Seq(Update) /\ work' \in Seq(Ops)
    BY <1>10 DEF esp_restart, Halt
  <2> QED
    BY <1>1, <1>10, <2>1, TypedFrom DEF esp_restart, Halt
<1>11. CASE PowerLoss
  <2>1. open' \in Seq(Update) /\ work' \in Seq(Ops)
    BY <1>11 DEF PowerLoss, Halt
  <2>2. sec' \in Sectors(MaxSeq) /\ img' \in [Apps -> [1 .. Chunks -> Contents]]
    <3>1. CASE UNCHANGED <<sec, img>>
      BY <1>1, <3>1
    <3>2. CASE work # << >> /\ Does(Head(work), Torn, Bad)
      <4>1. Head(work) \in Ops
        BY <1>1, <3>2
      <4> QED
        BY <1>3, <3>2, <4>1, WriteTyped
    <3> QED
      BY <1>11, <3>1, <3>2 DEF PowerLoss
  <2> QED
    BY <1>1, <1>11, <2>1, <2>2, TypedFrom DEF PowerLoss, Halt
<1>12. CASE selected_boot_partition
  <2> DEFINE copies == CopyApp /\ get_selected_boot_partition = 1
  <2>1. /\ boot' = IF copies THEN 0 ELSE get_selected_boot_partition
        /\ work' = IF copies THEN esp_patition_copy_ota1_to_ota0 ELSE << >>
    BY <1>12 DEF selected_boot_partition
  <2>2. get_selected_boot_partition \in Slots \cup {Factory}
    BY <1>1, ReportedIs, ReportedType, Device
  <2>3. boot' \in Slots \cup {Factory, Off}
    BY <1>1, <2>1, <2>2, Device
  <2>4. work' \in Seq(Ops)
    BY <2>1, CopyList
  <2> QED
    BY <1>1, <1>12, <2>3, <2>4, TypedFrom DEF selected_boot_partition
<1>13. CASE load_image
  <2>1. running' = load_boot_image(boot) /\ \E p \in Apps : Verified(p)
    BY <1>13 DEF load_image
  <2>2. boot \in Int
    BY <1>1, <1>2 DEF Factory, Off
  <2>3. running' \in Apps
    BY <1>1, <2>1, <2>2, Loads
  <2>4. promised' \in SUBSET Apps
    BY <1>1, <1>13, <2>3 DEF load_image
  <2> QED
    BY <1>1, <1>13, <2>3, <2>4, TypedFrom DEF load_image
<1>14. CASE UNCHANGED vars
  BY <1>1, <1>14, TypedFrom DEF vars
<1> QED
  BY <1>5, <1>6, <1>7, <1>8, <1>9, <1>10, <1>11, <1>12, <1>13, <1>14 DEF Next

(* Every variable keeps its kind of value, and a sector of the OTA data    *)
(* never holds a number but those that esp_rewrite_ota_data gives out.     *)
THEOREM TypesKept == Spec => []Typed
  BY TypedInit, TypedStep, PTL DEF Spec

(* esp_ota_get_boot_partition names the partition that the bootloader      *)
(* starts, whenever the power has failed and on every partition table.     *)
THEOREM ReportsBootAlways == Spec => []ReportsBoot
<1>1. Typed => ReportsBoot
  BY LoadsReported DEF ReportsBoot, Reported
<1> QED
  BY <1>1, TypesKept, PTL
---------------------------------------------------------------------------
(***************************************************************************)
(* The application's calls, restart and the bootloader, which write no     *)
(* flash themselves.                                                       *)
(***************************************************************************)

(* The bootloader copies only where there is no factory partition, and the *)
(* application then keeps to the order of the example.                     *)
CopyTables == \A t \in Tables : t.copies => ~t.factory /\ ~t.anyOrder

(* What that says of a device whose bootloader copies.                     *)
LEMMA Copying ==
    ASSUME CopyTables, table \in Tables, CopyApp
    PROVE  /\ ~HasFactory /\ ~AnyOrder /\ find_default_boot_partition = 0
           /\ Apps = {0, 1} /\ Slots = {0, 1}
<1>1. ~HasFactory /\ ~AnyOrder
  BY DEF CopyTables, HasFactory, AnyOrder, CopyApp
<1>2. OtaCount = 2 /\ Apps = Slots
  BY <1>1, Device
<1>3. Slots = {0, 1}
  BY <1>2 DEF Slots
<1> QED
  BY <1>1, <1>2, <1>3 DEF find_default_boot_partition

(* Between two calls no switch is in progress.                             *)
LEMMA IdleFree ==
    ASSUME OtaInv, Idle
    PROVE  /\ target = Off /\ Reported \in promised /\ running # Off /\ running \in Apps
           /\ CopyApp => running = 0
<1>1. running # Off /\ work = << >> /\ running \in Apps
  BY DEF Idle, OtaInv, Typed
<1>2. target \notin Slots
  <2>1. ASSUME target \in Slots PROVE FALSE
    <3>1. PICK s \in 0 .. 1, n \in 1 .. MaxSeq : Switching(s, n, target)
      BY <2>1 DEF OtaInv, CallInProgress
    <3>2. work \in {<<Select(s, Unset), Select(s, n)>>, <<Select(s, n)>>}
      BY <3>1 DEF Switching
    <3> QED
      BY <1>1, <3>2
  <2> QED
    BY <2>1
<1>3. target # Factory
  BY <1>1 DEF OtaInv, CallInProgress, EraseSelect
<1>4. target \in Apps \cup {Off} /\ table \in Tables
  BY DEF OtaInv, Typed
<1>5. target = Off
  BY <1>2, <1>3, <1>4, Device
<1>6. CopyApp => running = 0
  BY <1>1 DEF OtaInv, CopyPhase
<1>7. Reported \in promised
  BY <1>1 DEF OtaInv, KeepsPromise
<1> QED
  BY <1>1, <1>5, <1>6, <1>7

(* Nothing written, nothing read differently.                              *)
LEMMA Unwritten ==
    ASSUME table' = table, sec' = sec, img' = img
    PROVE  /\ Reported' = Reported
           /\ get_selected_boot_partition' = get_selected_boot_partition
           /\ Verified(0)' = Verified(0) /\ Verified(1)' = Verified(1)
           /\ (\E p \in Apps : Verified(p))' <=> (\E p \in Apps : Verified(p))
<1>1. /\ Chunks' = Chunks /\ Apps' = Apps /\ OtaCount' = OtaCount
      /\ find_default_boot_partition' = find_default_boot_partition
  BY Fixed
<1>2. ValidSecs' = ValidSecs /\ Newest' = Newest
  BY DEF ValidSecs, ota_select_valid, Newest, Unset, Torn
<1>3. Reported' = Reported
  BY <1>1, <1>2 DEF Reported, esp_ota_get_boot_partition
<1>4. get_selected_boot_partition' = get_selected_boot_partition
  BY <1>1, <1>2 DEF get_selected_boot_partition, Unset, Factory
<1>5. \A p : Verified(p)' <=> Verified(p)
  BY <1>1 DEF Verified
<1> QED
  BY <1>1, <1>3, <1>4, <1>5 DEF Verified

(* esp_ota_begin, esp_ota_write and esp_ota_end while an app runs.         *)
LEMMA UpdateKeeps ==
    ASSUME CopyTables, OtaInv, Typed', Idle,
           UNCHANGED <<table, sec, img, running, boot, target, promised>>,
           \A i \in DOMAIN work' : OnImage(work'[i]) /\ work'[i].p # running,
           \A i \in DOMAIN open' : open'[i].part # running,
           CopyApp /\ (open' # << >> \/ work' # << >>) => Reported = 0
    PROVE  OtaInv'
<1>1. /\ target = Off /\ Reported \in promised /\ running # Off
      /\ CopyApp => running = 0
  BY IdleFree
<1>2. /\ Chunks' = Chunks /\ CopyApp' = CopyApp /\ Apps' = Apps /\ Slots' = Slots
      /\ HasFactory' = HasFactory /\ Off' = Off
  BY Fixed DEF Off
<1>3. table \in Tables
  BY DEF OtaInv, Typed
<1>4. Off \notin Slots /\ Off # Factory
  BY <1>3, Device
<1>5. RunningWhole'
  <2>1. Verified(running)
    BY <1>1 DEF OtaInv, RunningWhole
  <2>2. Verified(running)'
    BY <1>2, <2>1 DEF Verified
  <2> QED
    BY <2>2 DEF RunningWhole, OnImage
<1>6. CallInProgress'
  BY <1>1, <1>2, <1>4 DEF CallInProgress, OnImage, Factory
<1>7. KeepsPromise'
  <2>1. Reported' = Reported
    BY Unwritten
  <2> QED
    BY <1>1, <2>1 DEF KeepsPromise
<1>8. Choice'
  BY <1>1, <1>2 DEF Choice
<1>9. CopyPhase'
  <2>1. Reported' = Reported /\ Verified(0)' = Verified(0) /\ Verified(1)' = Verified(1)
    BY Unwritten
  <2>2. CopyApp => (Reported = 1 => Verified(1)) /\ (Reported # 1 => Verified(0))
    BY DEF OtaInv, CopyPhase
  <2>3. (\E i \in DOMAIN work' : OnImage(work'[i])) => work' # << >>
    OBVIOUS
  <2>4. running' # Off /\ target' = Off
    BY <1>1
  <2>5. CopyApp' => /\ running' \in {Off, 0}
                    /\ Reported' = 1 => Verified(1)'
                    /\ Reported' # 1 => Verified(0)'
    BY <1>1, <1>2, <2>1, <2>2
  <2>6. CopyApp' => /\ open' # << >> => Reported' = 0
                    /\ (\E i \in DOMAIN work' : OnImage(work'[i])) => Reported' = 0
    BY <1>2, <2>1, <2>3
  <2>7. target' # 1
    BY <1>1 DEF Off
  <2> QED
    BY <1>2, <2>4, <2>5, <2>6, <2>7 DEF CopyPhase, OnImage
<1>10. (\E p \in Apps : Verified(p))'
  BY Unwritten DEF OtaInv
<1> QED
  BY <1>5, <1>6, <1>7, <1>8, <1>9, <1>10 DEF OtaInv

(* esp_ota_begin refuses the running partition.                            *)
LEMMA BeginKeeps ==
    ASSUME CopyTables, OtaInv, Typed', NEW p \in Apps, NEW n \in 1 .. Chunks,
           esp_ota_begin(p, n)
    PROVE  OtaInv'
<1>1. /\ Idle /\ p \in Slots /\ p # running
      /\ AnyOrder \/ InTurn(p)
      /\ work' = EraseImage(p, n)
      /\ open' = Append(open, [part |-> p, wrote |-> 0])
      /\ UNCHANGED <<table, sec, img, running, boot, target, promised>>
  BY DEF esp_ota_begin
<1>2. table \in Tables /\ open \in Seq(Update) /\ Chunks \in Nat
  BY Device DEF OtaInv, Typed, Update
<1>3. \A c \in 1 .. Chunks : OnImage(Image(p, c, Erased)) /\ Image(p, c, Erased).p = p
  BY DEF OnImage, Image
<1>4. \A i \in DOMAIN work' : OnImage(work'[i]) /\ work'[i].p # running
  BY <1>1, <1>2, <1>3 DEF EraseImage
<1>5. \A i \in DOMAIN open' : open'[i].part # running
  <2>1. running # Off
    BY <1>1 DEF Idle
  <2>2. \A i \in DOMAIN open : open[i].part # running
    BY <2>1 DEF OtaInv, RunningWhole
  <2>3. [part |-> p, wrote |-> 0].part = p
    OBVIOUS
  <2>4. \A i \in DOMAIN open' : \/ i \in DOMAIN open /\ open'[i] = open[i]
                                \/ open'[i] = [part |-> p, wrote |-> 0]
    BY <1>1, <1>2
  <2> QED
    BY <1>1, <2>2, <2>3, <2>4
<1>6. CopyApp => Reported = 0
  <2>1. ASSUME CopyApp PROVE Reported = 0
    <3>1. promised = {running}
      BY <1>1, <1>2, <2>1, Copying DEF InTurn
    <3> QED
      BY <1>1, <2>1, <3>1, IdleFree
  <2> QED
    BY <2>1
<1> QED
  BY <1>1, <1>4, <1>5, <1>6, UpdateKeeps

(* esp_ota_write writes the partition of its handle.                       *)
LEMMA WriteKeeps ==
    ASSUME CopyTables, OtaInv, Typed', NEW h \in DOMAIN open, NEW v \in Versions \cup {Bad},
           esp_ota_write(h, v)
    PROVE  OtaInv'
<1>1. /\ Idle
      /\ work' = <<Image(open[h].part, open[h].wrote + 1, v)>>
      /\ open' = [open EXCEPT ![h].wrote = @ + 1]
      /\ UNCHANGED <<table, sec, img, running, boot, target, promised>>
  BY DEF esp_ota_write
<1>2. open \in Seq(Update) /\ running # Off /\ table \in Tables
  BY <1>1 DEF OtaInv, Typed, Update, Idle
<1>3. \A i \in DOMAIN open : open[i].part # running /\ open[i] \in Update
  BY <1>2 DEF OtaInv, RunningWhole
<1>4. \A i \in DOMAIN work' : OnImage(work'[i]) /\ work'[i].p # running
  <2>1. /\ Image(open[h].part, open[h].wrote + 1, v).p = open[h].part
        /\ OnImage(Image(open[h].part, open[h].wrote + 1, v))
    BY DEF Image, OnImage
  <2> QED
    BY <1>1, <1>3, <2>1
<1>5. \A i \in DOMAIN open' : open'[i].part # running
  <2>1. DOMAIN open' = DOMAIN open
    BY <1>1, <1>2
  <2>2. \A i \in DOMAIN open : open'[i].part = open[i].part
    <3>1. open' = [open EXCEPT ![h] = [open[h] EXCEPT !.wrote = open[h].wrote + 1]]
      BY <1>1
    <3>2. [open[h] EXCEPT !.wrote = open[h].wrote + 1].part = open[h].part
      BY <1>3 DEF Update
    <3> QED
      BY <1>2, <3>1, <3>2
  <2> QED
    BY <1>3, <2>1, <2>2
<1>6. CopyApp => Reported = 0
  <2>1. open # << >>
    BY <1>2
  <2> QED
    BY <1>1, <2>1, IdleFree DEF OtaInv, CopyPhase
<1> QED
  BY <1>1, <1>4, <1>5, <1>6, UpdateKeeps

(* esp_ota_end closes a handle.                                            *)
LEMMA EndKeeps ==
    ASSUME CopyTables, OtaInv, Typed', NEW h \in DOMAIN open, esp_ota_end(h)
    PROVE  OtaInv'
<1>1. /\ Idle /\ work' = work
      /\ open' = [i \in 1 .. Len(open) - 1 |-> IF i < h THEN open[i] ELSE open[i + 1]]
      /\ UNCHANGED <<table, sec, img, running, boot, target, promised>>
  BY DEF esp_ota_end
<1>2. open \in Seq(Update) /\ running # Off /\ work = << >>
  BY <1>1 DEF OtaInv, Typed, Update, Idle
<1>3. \A i \in DOMAIN open : open[i].part # running
  BY <1>2 DEF OtaInv, RunningWhole
<1>4. \A i \in DOMAIN work' : OnImage(work'[i]) /\ work'[i].p # running
  BY <1>1, <1>2
<1>5. \A i \in DOMAIN open' : open'[i].part # running
  BY <1>1, <1>2, <1>3
<1>6. CopyApp => Reported = 0
  <2>1. open # << >>
    BY <1>2
  <2> QED
    BY <1>1, <2>1, IdleFree DEF OtaInv, CopyPhase
<1> QED
  BY <1>1, <1>4, <1>5, <1>6, UpdateKeeps

(* esp_ota_set_boot_partition starts a switch, or the erasing.             *)
LEMMA SetBootKeeps ==
    ASSUME CopyTables, OtaInv, Typed', NEW p \in Apps, esp_ota_set_boot_partition(p)
    PROVE  OtaInv'
<1>1. /\ Idle /\ Verified(p) /\ target' = p
      /\ AnyOrder \/ open = << >>
      /\ promised' = IF p = Factory THEN Apps ELSE promised \cup {p}
      /\ UNCHANGED <<table, sec, img, running, boot, open>>
  BY DEF esp_ota_set_boot_partition
<1>2. /\ Chunks' = Chunks /\ CopyApp' = CopyApp /\ Apps' = Apps /\ Slots' = Slots
      /\ HasFactory' = HasFactory /\ OtaCount' = OtaCount /\ MaxSeq' = MaxSeq
  BY <1>1, Fixed
<1>3. /\ table \in Tables /\ Typed /\ promised \in SUBSET Apps
      /\ p # Off /\ Off \notin Slots /\ Off # Factory
      /\ p \in Slots \/ (p = Factory /\ HasFactory)
      /\ Factory \notin Slots
  BY Device DEF OtaInv, Typed
<1>4. Reported \in promised /\ running # Off /\ (CopyApp => running = 0)
  BY <1>1, IdleFree
<1>5. Reported' = Reported
  BY <1>1, Unwritten
<1>6. ASSUME p = Factory
      PROVE  work' = EraseSelect
  BY <1>6 DEF esp_ota_set_boot_partition
<1>7. ASSUME p # Factory
      PROVE  \E s \in 0 .. 1, n \in 1 .. MaxSeq :
                 work' = <<Select(s, Unset), Select(s, n)>> /\ Switching(s, n, target)'
  <2>1. /\ SeqFor(p) <= MaxSeq
        /\ work' = <<Select(SectorFor, Unset), Select(SectorFor, SeqFor(p))>>
    BY <1>7 DEF esp_ota_set_boot_partition, rewrite_ota_seq
  <2>2. /\ SeqFor(p) \in Nat \ {0} /\ (SeqFor(p) - 1) % OtaCount = p
        /\ \A s \in ValidSecs : sec[s] <= SeqFor(p)
    BY <1>3, <1>7, NewNumber
  <2>3. /\ SectorFor \in 0 .. 1
        /\ SectorFor \in ValidSecs =>
               1 - SectorFor \in ValidSecs /\ sec[SectorFor] <= sec[1 - SectorFor]
    BY <1>3, OlderSector
  <2>4. SeqFor(p) \in 1 .. MaxSeq
    <3>1. MaxSeq \in Nat
      BY <1>3, Device
    <3> QED
      BY <2>1, <2>2, <3>1
  <2>5. \A s \in 0 .. 1 : (s \in ValidSecs <=> ota_select_valid(s)) /\ 1 - s \in 0 .. 1
    BY DEF ValidSecs
  <2>6. PICK s \in 0 .. 1, n \in 1 .. MaxSeq : s = SectorFor /\ n = SeqFor(p)
    BY <2>3, <2>4
  <2>7. /\ ota_select_valid(s) => ota_select_valid(1 - s) /\ sec[s] <= sec[1 - s]
        /\ ota_select_valid(1 - s) => sec[1 - s] <= n
    BY <2>2, <2>3, <2>5, <2>6
  <2>8. work' = <<Select(s, Unset), Select(s, n)>> /\ (n - 1) % OtaCount = p
    BY <2>1, <2>2, <2>6
  <2>9. Switching(s, n, target)'
    BY <1>1, <1>2, <2>7, <2>8 DEF Switching, ota_select_valid, Select, Unset, Torn
  <2> QED
    BY <2>8, <2>9
<1>8. work' # << >> /\ \A i \in DOMAIN work' : ~OnImage(work'[i])
  <2>1. \A s, n : ~OnImage(Select(s, n))
    BY DEF OnImage, Select
  <2>2. CASE p = Factory
    BY <1>6, <2>1, <2>2 DEF EraseSelect
  <2>3. CASE p # Factory
    <3>1. PICK s \in 0 .. 1, n \in 1 .. MaxSeq : work' = <<Select(s, Unset), Select(s, n)>>
      BY <1>7, <2>3
    <3> QED
      BY <2>1, <3>1
  <2> QED
    BY <2>2, <2>3
<1>9. RunningWhole'
  <2>1. Verified(running) /\ \A i \in DOMAIN open : open[i].part # running
    BY <1>4 DEF OtaInv, RunningWhole
  <2>2. Verified(running)'
    BY <1>1, <1>2, <2>1 DEF Verified
  <2> QED
    BY <1>1, <1>8, <2>1, <2>2 DEF RunningWhole, OnImage
<1>10. CallInProgress'
  <2>1. running' # Off' /\ target' # Off' /\ target' \in promised' /\ target' = p
    BY <1>1, <1>3, <1>4 DEF Off
  <2>2. target' \in Slots' => \E s \in 0 .. 1, n \in 1 .. MaxSeq' : Switching(s, n, target)'
    BY <1>1, <1>2, <1>3, <1>7
  <2>3. p = Factory => HasFactory' /\ promised' = Apps' /\ work' = EraseSelect
    BY <1>1, <1>2, <1>3, <1>6
  <2> QED
    BY <2>1, <2>2, <2>3 DEF CallInProgress, EraseSelect, Select, Unset, Factory
<1>11. KeepsPromise'
  <2>1. Reported' \in promised'
    BY <1>1, <1>3, <1>4, <1>5
  <2> QED
    BY <2>1 DEF KeepsPromise
<1>12. Choice'
  BY <1>1, <1>4 DEF Choice, Off
<1>13. CopyPhase'
  <2>1. running' # Off'
    BY <1>1, <1>4 DEF Off
  <2>2. CASE CopyApp
    <3>1. open' = << >> /\ running' = 0
      BY <1>1, <1>3, <1>4, <2>2, Copying
    <3>2. Verified(0)' = Verified(0) /\ Verified(1)' = Verified(1)
      BY <1>1, Unwritten
    <3>3. (Reported = 1 => Verified(1)) /\ (Reported # 1 => Verified(0))
      BY <2>2 DEF OtaInv, CopyPhase
    <3>4. target' = 1 => Verified(1)'
      BY <1>1, <3>2
    <3> QED
      BY <1>5, <1>8, <2>1, <3>1, <3>2, <3>3, <3>4 DEF CopyPhase, OnImage
  <2>3. CASE ~CopyApp
    BY <1>2, <2>1, <2>3 DEF CopyPhase
  <2> QED
    BY <2>2, <2>3
<1>14. (\E q \in Apps : Verified(q))'
  BY <1>1, Unwritten DEF OtaInv
<1> QED
  BY <1>9, <1>10, <1>11, <1>12, <1>13, <1>14 DEF OtaInv

(* What is left when the power goes or esp_restart ends the app.           *)
LEMMA HaltFrom ==
    ASSUME OtaInv, Typed', Halt, UNCHANGED <<table, promised>>, KeepsPromise',
           CopyApp => (Reported' = 1 => Verified(1)') /\ (Reported' # 1 => Verified(0)'),
           (\E p \in Apps : Verified(p))'
    PROVE  OtaInv'
<1>1. /\ running' = Off /\ boot' = Off /\ open' = << >> /\ work' = << >> /\ target' = Off
  BY DEF Halt
<1>2. CopyApp' = CopyApp /\ Slots' = Slots /\ Off' = Off /\ Factory' = Factory
  BY Fixed DEF Off, Factory
<1>3. Off \notin Slots /\ Off # Factory
  BY Device DEF OtaInv, Typed
<1>4. RunningWhole' /\ Choice'
  BY <1>1, <1>2 DEF RunningWhole, Choice
<1>5. CallInProgress'
  BY <1>1, <1>2, <1>3 DEF CallInProgress
<1>6. CopyPhase'
  <2>1. target' # 1 /\ running' # 0
    BY <1>1 DEF Off
  <2> QED
    BY <1>1, <1>2, <2>1 DEF CopyPhase
<1> QED
  BY <1>4, <1>5, <1>6 DEF OtaInv

(* Between two flash operations.                                           *)
LEMMA HaltKeeps ==
    ASSUME OtaInv, Typed', Halt, UNCHANGED <<table, sec, img, promised>>
    PROVE  OtaInv'
<1>1. /\ Reported' = Reported /\ Verified(0)' = Verified(0) /\ Verified(1)' = Verified(1)
      /\ (\E p \in Apps : Verified(p))' <=> (\E p \in Apps : Verified(p))
  BY Unwritten
<1>2. KeepsPromise'
  <2>1. running' = Off' /\ CopyApp' = CopyApp
    BY Fixed DEF Halt, Off
  <2> QED
    BY <1>1, <2>1 DEF OtaInv, KeepsPromise
<1>3. CopyApp => (Reported = 1 => Verified(1)) /\ (Reported # 1 => Verified(0))
  BY DEF OtaInv, CopyPhase
<1>4. \E p \in Apps : Verified(p)
  BY DEF OtaInv
<1> QED
  BY <1>1, <1>2, <1>3, <1>4, HaltFrom

(* The bootloader chooses, and starts to copy slot 1 if it chose that.     *)
LEMMA ChooseKeeps ==
    ASSUME CopyTables, OtaInv, Typed', selected_boot_partition
    PROVE  OtaInv'
<1> DEFINE index == get_selected_boot_partition
           copies == CopyApp /\ index = 1
<1>1. /\ running = Off /\ boot = Off
      /\ boot' = IF copies THEN 0 ELSE index
      /\ work' = IF copies THEN esp_patition_copy_ota1_to_ota0 ELSE << >>
      /\ UNCHANGED <<table, sec, img, running, open, target, promised>>
  BY DEF selected_boot_partition
<1> HIDE DEF index
<1>2. /\ CopyApp' = CopyApp /\ Slots' = Slots /\ Apps' = Apps /\ Chunks' = Chunks
      /\ Off' = Off /\ Factory' = Factory
  BY <1>1, Fixed DEF Off, Factory
<1>3. /\ Reported' = Reported /\ Verified(0)' = Verified(0) /\ Verified(1)' = Verified(1)
      /\ get_selected_boot_partition' = get_selected_boot_partition
      /\ (\E p \in Apps : Verified(p))' <=> (\E p \in Apps : Verified(p))
  BY <1>1, Unwritten
<1>4. /\ table \in Tables /\ Typed /\ open = << >> /\ target = Off
      /\ Off \notin Slots /\ Off # Factory
  BY <1>1, Device DEF OtaInv, CallInProgress, Typed
<1>5. CopyApp => (index = 1 <=> Reported = 1)
  <2>1. CASE Readable(sec) # {}
    BY <2>1, ReportedIs DEF index
  <2>2. CASE CopyApp /\ Readable(sec) = {}
    <3>1. Reported = 0
      BY <1>4, <2>2, ReportedType, Copying
    <3>2. index \in {0, Factory}
      BY <1>4, <2>2, ReportedIs, Copying DEF index
    <3> QED
      BY <3>1, <3>2 DEF Factory
  <2> QED
    BY <2>1, <2>2
<1>6. copies => work' # << >>
  <2>1. ASSUME copies PROVE work' # << >>
    <3>1. Len(work') = 2 * Chunks + 2 /\ Chunks \in Nat /\ Len(<< >>) = 0
      BY <1>1, <1>4, <2>1, CopyList, Device
    <3> QED
      BY <3>1
  <2> QED
    BY <2>1
<1>7. RunningWhole'
  BY <1>1, <1>2 DEF RunningWhole
<1>8. CallInProgress'
  <2>1. boot' # Off
    <3>1. index \in Slots \cup {Factory}
      BY <1>4, ReportedIs, ReportedType, Device DEF index
    <3> QED
      BY <1>1, <1>4, <3>1 DEF Off
  <2> QED
    BY <1>1, <1>2, <1>4, <2>1 DEF CallInProgress
<1>9. KeepsPromise'
  BY <1>1, <1>2, <1>3 DEF OtaInv, KeepsPromise
<1>10. Choice'
  BY <1>1, <1>3, <1>6 DEF Choice, index
<1>11. CopyApp => (Reported = 1 => Verified(1)) /\ (Reported # 1 => Verified(0))
  BY DEF OtaInv, CopyPhase
<1>12. ASSUME copies
       PROVE  /\ CopyApp /\ boot' = 0 /\ 1 \in promised /\ Verified(1)
              /\ Copied(0)'
  <2>1. CopyApp /\ boot' = 0 /\ Reported = 1 /\ Verified(1)
    BY <1>1, <1>5, <1>11, <1>12
  <2>2. 1 \in promised
    BY <2>1 DEF OtaInv, KeepsPromise
  <2>3. /\ Len(work') = 2 * Chunks + 2 /\ Chunks \in Nat
        /\ \A i \in 1 .. 2 * Chunks + 2 : work'[i] = CopyOp(i)
    BY <1>1, <1>4, <1>12, CopyList, Device
  <2>4. \A i : CopyOp(i)' = CopyOp(i)
    BY <1>1, <1>2 DEF CopyOp, Image, Select, Unset
  <2>5. Copied(0)'
    <3>1. Len(work') = 2 * Chunks + 2 - 0
      BY <2>3
    <3>2. \A j \in 1 .. Len(work') : work'[j] = CopyOp(0 + j)'
      <4>1. \A j \in 1 .. Len(work') : j = 0 + j /\ work'[j] = CopyOp(j)
        BY <2>3
      <4>2. \A j \in 1 .. Len(work') : CopyOp(0 + j)' = CopyOp(0 + j)
        BY <2>4
      <4> QED
        BY <4>1, <4>2
    <3>3. \A c \in 1 .. Chunks : ~(2 * c <= 0) /\ 2 * c # 0 + 1
      OBVIOUS
    <3>4. ~(0 > 2 * Chunks) /\ Reported' = 1
      BY <1>3, <2>1, <2>3
    <3> QED
      BY <1>2, <3>1, <3>2, <3>3, <3>4 DEF Copied
  <2> QED
    BY <2>1, <2>2, <2>5
<1>13. CopyPhase'
  <2>1. work' # << >> => copies
    BY <1>1
  <2>2. copies => \E i \in 0 .. 2 * Chunks + 1 : Copied(i)'
    <3>1. 0 \in 0 .. 2 * Chunks + 1
      BY <1>4, Device
    <3> QED
      BY <1>12, <3>1
  <2>3. work' # << >> => /\ CopyApp' /\ boot' = 0 /\ 1 \in promised' /\ Verified(1)'
                         /\ \E i \in 0 .. 2 * Chunks' + 1 : Copied(i)'
    BY <1>1, <1>2, <1>3, <1>12, <2>1, <2>2
  <2>4. running' = Off /\ target' = Off /\ target' # 1 /\ running' # 0
    BY <1>1, <1>4 DEF Off
  <2>5. CopyApp /\ work' = << >> => Reported' # 1
    BY <1>3, <1>5, <1>6
  <2> QED
    BY <1>2, <1>3, <1>11, <2>3, <2>4, <2>5 DEF CopyPhase
<1> QED
  BY <1>3, <1>7, <1>8, <1>9, <1>10, <1>13 DEF OtaInv

(* The bootloader starts the partition that is reported, if that is whole. *)
LEMMA StartsReported ==
    ASSUME CopyTables, OtaInv, load_image
    PROVE  /\ running' \in Apps /\ Verified(running') /\ running' # Off
           /\ Verified(Reported) => running' = Reported
           /\ CopyApp => Reported = 0 /\ Verified(0) /\ running' = 0
<1>1. running = Off /\ boot # Off /\ work = << >> /\ running' = load_boot_image(boot)
  BY DEF load_image
<1>2. Typed /\ table \in Tables /\ \E p \in Apps : Verified(p)
  BY DEF OtaInv, Typed
<1>3. boot \in Int
  <2>1. Apps \in SUBSET Int /\ Slots \subseteq Apps /\ boot \in Slots \cup {Factory, Off}
    BY <1>2, Device DEF Typed
  <2> QED
    BY <2>1 DEF Factory, Off
<1>4. running' \in Apps /\ Verified(running')
  BY <1>1, <1>2, <1>3, Loads
<1>5. boot = get_selected_boot_partition
  BY <1>1 DEF OtaInv, Choice
<1>6. Verified(Reported) => running' = Reported
  BY <1>1, <1>2, <1>5, LoadsReported
<1>7. ASSUME CopyApp PROVE Reported = 0 /\ Verified(0)
  <2>1. Reported # 1 /\ Verified(0)
    BY <1>1, <1>7 DEF OtaInv, CopyPhase
  <2>2. Reported \in {0, 1}
    BY <1>2, <1>7, Copying, ReportedType
  <2> QED
    BY <2>1, <2>2
<1> QED
  BY <1>2, <1>4, <1>6, <1>7, Device

(* It starts an app.                                                       *)
LEMMA LoadKeeps ==
    ASSUME CopyTables, OtaInv, Typed', load_image
    PROVE  OtaInv'
<1>1. /\ running = Off /\ work = << >>
      /\ promised' = {running'} \cup {p \in promised : ~Verified(p)}
      /\ UNCHANGED <<table, sec, img, boot, open, work, target>>
  BY DEF load_image
<1>2. CopyApp' = CopyApp /\ Slots' = Slots /\ Chunks' = Chunks /\ Off' = Off /\ Factory' = Factory
  BY <1>1, Fixed DEF Off, Factory
<1>3. /\ Reported' = Reported /\ Verified(0)' = Verified(0) /\ Verified(1)' = Verified(1)
      /\ (\E p \in Apps : Verified(p))' <=> (\E p \in Apps : Verified(p))
  BY <1>1, Unwritten
<1>4. /\ running' # Off /\ Verified(running')
      /\ Verified(Reported) => running' = Reported
      /\ CopyApp => Reported = 0 /\ Verified(0) /\ running' = 0
  BY StartsReported
<1>5. open = << >> /\ target = Off /\ Off \notin Slots /\ Off # Factory
  BY <1>1, Device DEF OtaInv, CallInProgress, Typed
<1>6. RunningWhole'
  <2>1. Verified(running)'
    BY <1>1, <1>2, <1>4 DEF Verified
  <2> QED
    BY <1>1, <1>5, <2>1 DEF RunningWhole
<1>7. CallInProgress'
  BY <1>1, <1>2, <1>4, <1>5 DEF CallInProgress
<1>8. KeepsPromise'
  <2>1. Reported \in promised \/ CopyApp
    BY DEF OtaInv, KeepsPromise
  <2>2. Reported \in promised'
    BY <1>1, <1>4, <2>1
  <2> QED
    BY <1>3, <2>2 DEF KeepsPromise
<1>9. Choice'
  BY <1>2, <1>4 DEF Choice
<1>10. CopyPhase'
  <2>1. target' # 1 /\ target' = Off
    BY <1>1, <1>5 DEF Off
  <2> QED
    BY <1>1, <1>2, <1>3, <1>4, <1>5, <2>1 DEF CopyPhase
<1> QED
  BY <1>3, <1>6, <1>7, <1>8, <1>9, <1>10 DEF OtaInv

(* The device as it leaves the factory.                                    *)
LEMMA OtaInit ==
    ASSUME CopyTables, Init
    PROVE  OtaInv
<1> DEFINE d == find_default_boot_partition
<1>1. /\ table \in Tables /\ Typed
      /\ sec = [s \in 0 .. 1 |-> Unset]
      /\ running = Off /\ boot = Off /\ open = << >> /\ work = << >> /\ target = Off
      /\ promised = {d}
  BY TypedInit DEF Init
<1>2. d \in Apps /\ Off \notin Slots /\ Off # Factory /\ Chunks \in Nat \ {0}
  BY <1>1, Device
<1>3. Verified(d)
  <2>1. \A c \in 1 .. Chunks : img[d][c] = Shipped
    BY <1>2 DEF Init
  <2> QED
    BY <2>1, OtaAssumption DEF Verified
<1>4. Reported = d
  <2>1. Readable(sec) = {}
    BY <1>1 DEF Readable
  <2> QED
    BY <1>1, <2>1, ReportedType
<1> HIDE DEF d
<1>5. RunningWhole /\ Choice
  BY <1>1 DEF RunningWhole, Choice
<1>6. CallInProgress
  BY <1>1, <1>2 DEF CallInProgress
<1>7. KeepsPromise
  BY <1>1, <1>4 DEF KeepsPromise
<1>8. CopyPhase
  <2>1. CopyApp => Reported = 0 /\ Verified(0)
    BY <1>1, <1>3, <1>4, Copying DEF d
  <2>2. target # 1 /\ running # 0
    BY <1>1 DEF Off
  <2> QED
    BY <1>1, <2>1, <2>2 DEF CopyPhase
<1> QED
  BY <1>1, <1>2, <1>3, <1>5, <1>6, <1>7, <1>8 DEF OtaInv
---------------------------------------------------------------------------
(***************************************************************************)
(* Flash operations, done or cut short.  An image sector while an app      *)
(* runs: it belongs to another partition than the running one.             *)
(***************************************************************************)
(* Neither the running image nor the choice changes.                       *)
LEMMA ImageWrite ==
    ASSUME CopyTables, OtaInv, running # Off, work # << >>, OnImage(Head(work)), table' = table,
           NEW n \in {Unset, Torn} \cup 1 .. MaxSeq, NEW v \in Contents,
           Does(Head(work), n, v)
    PROVE  /\ sec' = sec /\ Reported' = Reported /\ target = Off /\ Reported \in promised
           /\ img'[running] = img[running] /\ Verified(running) /\ running \in Apps
           /\ (\E p \in Apps : Verified(p))'
           /\ CopyApp => running = 0 /\ Reported = 0 /\ Verified(0)'
<1>1. Typed /\ work \in Seq(Ops) /\ table \in Tables /\ running \in Apps
  BY DEF OtaInv, Typed
<1>2. Head(work) = work[1] /\ work[1] \in Ops /\ 1 \in DOMAIN work
  BY <1>1, Rest
<1>3. Verified(running) /\ Head(work).p # running
  BY <1>2 DEF OtaInv, RunningWhole
<1>4. sec' = sec /\ img'[running] = img[running]
  BY <1>1, <1>2, <1>3, WriteTyped
<1>5. target = Off
  <2>1. \A s, k : ~OnImage(Select(s, k))
    BY DEF OnImage, Select
  <2>2. target \notin Slots
    <3>1. ASSUME target \in Slots PROVE FALSE
      <4>1. PICK s \in 0 .. 1, k \in 1 .. MaxSeq : Switching(s, k, target)
        BY <3>1 DEF OtaInv, CallInProgress
      <4>2. work \in {<<Select(s, Unset), Select(s, k)>>, <<Select(s, k)>>}
        BY <4>1 DEF Switching
      <4> QED
        BY <2>1, <4>2
    <3> QED
      BY <3>1
  <2>3. target # Factory
    BY <2>1 DEF OtaInv, CallInProgress, EraseSelect
  <2>4. target \in Apps \cup {Off}
    BY <1>1 DEF Typed
  <2> QED
    BY <1>1, <2>2, <2>3, <2>4, Device
<1>6. Reported' = Reported
  BY <1>4, ReportedIs, ReportedNext
<1>7. Reported \in promised
  BY DEF OtaInv, KeepsPromise
<1>8. Chunks' = Chunks /\ Apps' = Apps
  BY Fixed
<1>9. (\E p \in Apps : Verified(p))'
  <2>1. PICK w \in Versions : \A c \in 1 .. Chunks : img'[running][c] = w
    BY <1>3, <1>4 DEF Verified
  <2>2. PICK q \in Apps : q = running
    BY <1>1
  <2>3. Verified(q)'
    BY <1>8, <2>1, <2>2 DEF Verified
  <2> QED
    BY <1>8, <2>3
<1>10. ASSUME CopyApp PROVE running = 0 /\ Reported = 0 /\ Verified(0)'
  <2>1. running = 0
    BY <1>10 DEF OtaInv, CopyPhase
  <2>2. Reported = 0
    BY <1>2, <1>10, <2>1 DEF OtaInv, CopyPhase
  <2>3. Verified(0)'
    BY <1>3, <1>4, <1>8, <2>1 DEF Verified
  <2> QED
    BY <2>1, <2>2, <2>3
<1> QED
  BY <1>1, <1>3, <1>4, <1>5, <1>6, <1>7, <1>9, <1>10

(***************************************************************************)
(* A switch to a slot.  Until its last operation is done the choice is the *)
(* old one, and then it is the new one.                                    *)
(***************************************************************************)
(* The number that is lost, or half erased, was not the newest.            *)
LEMMA SwitchBegun ==
    ASSUME OtaInv, NEW s \in 0 .. 1, NEW n \in 1 .. MaxSeq, NEW t, Switching(s, n, t),
           table' = table, sec' \in Sectors(MaxSeq),
           sec'[s] \in {Unset, Torn}, sec'[1 - s] = sec[1 - s]
    PROVE  Reported' = Reported
<1>1. /\ Typed /\ MaxSeq \in Nat /\ OtaCount \in Nat \ {0} /\ sec \in Sectors(MaxSeq)
  BY Device, ReportedType DEF OtaInv, Typed
<1>2. s \in Readable(sec) => 1 - s \in Readable(sec) /\ sec[s] <= sec[1 - s]
  <2>1. 1 - s \in 0 .. 1
    OBVIOUS
  <2> QED
    BY <2>1 DEF Switching, ota_select_valid, Readable
<1>3. Chosen(sec', OtaCount, find_default_boot_partition)
          = Chosen(sec, OtaCount, find_default_boot_partition)
  BY <1>1, <1>2, LoseOlder
<1> QED
  BY <1>3, ReportedIs, ReportedNext

(* The number that is written is not below the other.                      *)
LEMMA SwitchDone ==
    ASSUME OtaInv, NEW s \in 0 .. 1, NEW n \in 1 .. MaxSeq, NEW t, Switching(s, n, t),
           table' = table, sec' \in Sectors(MaxSeq), sec'[s] = n, sec'[1 - s] = sec[1 - s]
    PROVE  Reported' = t
<1>1. /\ Typed /\ MaxSeq \in Nat /\ OtaCount \in Nat \ {0} /\ sec \in Sectors(MaxSeq)
  BY Device, ReportedType DEF OtaInv, Typed
<1>2. 1 - s \in Readable(sec) => sec[1 - s] <= n
  BY DEF Switching, ota_select_valid, Readable
<1>3. Chosen(sec', OtaCount, find_default_boot_partition) = (sec'[s] - 1) % OtaCount
  BY <1>1, <1>2, WriteNewest
<1> QED
  BY <1>3, ReportedNext DEF Switching

(* Both sectors blank: the default partition.                              *)
LEMMA BothBlank ==
    ASSUME table' = table, sec'[0] = Unset, sec'[1] = Unset
    PROVE  /\ Reported' = find_default_boot_partition
           /\ get_selected_boot_partition' = find_default_boot_partition
<1>1. \A s \in 0 .. 1 : sec'[s] = Unset
  <2>1. \A s \in 0 .. 1 : s = 0 \/ s = 1
    OBVIOUS
  <2> QED
    BY <2>1
<1>2. ValidSecs' = {}
  BY <1>1 DEF ValidSecs, ota_select_valid, Unset, Torn
<1>3. find_default_boot_partition' = find_default_boot_partition
  BY Fixed
<1> QED
  BY <1>1, <1>2, <1>3
  DEF Reported, esp_ota_get_boot_partition, get_selected_boot_partition, Unset

(* Whatever an operation writes, the one reported is a partition.          *)
LEMMA ReportedSomewhere ==
    ASSUME Typed', table' = table
    PROVE  Reported' \in Apps
<1>1. table \in Tables /\ sec' \in Sectors(MaxSeq) /\ MaxSeq \in Nat /\ OtaCount \in Nat \ {0}
  <2>1. table \in Tables /\ MaxSeq' = MaxSeq
    BY Fixed DEF Typed
  <2>2. Sectors(MaxSeq) = [0 .. 1 -> {Unset, Torn} \cup 1 .. MaxSeq]
    BY DEF Sectors
  <2>3. sec' \in [0 .. 1 -> {Unset, Torn} \cup 1 .. MaxSeq]
    BY <2>1 DEF Typed, Unset, Torn
  <2> QED
    BY <2>1, <2>2, <2>3, Device
<1>2. /\ Readable(sec') # {} => Reported' \in 0 .. OtaCount - 1
      /\ Readable(sec') = {} => Reported' = find_default_boot_partition
  BY <1>1, ReportedNext, ChosenType
<1> QED
  BY <1>1, <1>2, Device DEF Slots

(* What an operation on a sector of the OTA data leaves behind.            *)
LEMMA SelectWrite ==
    ASSUME Typed, NEW s \in 0 .. 1, NEW m \in {Unset} \cup 1 .. MaxSeq,
           NEW n \in {Unset, Torn} \cup 1 .. MaxSeq, NEW v \in Contents,
           Does(Select(s, m), n, v)
    PROVE  /\ img' = img /\ sec' \in Sectors(MaxSeq)
           /\ sec'[s] = n /\ sec'[1 - s] = sec[1 - s]
<1>1. /\ Select(s, m) \in Ops /\ ~OnImage(Select(s, m)) /\ Select(s, m).s = s
  BY OpKinds
<1>2. img' = img /\ sec' \in Sectors(MaxSeq) /\ sec' = [sec EXCEPT ![s] = n]
  BY <1>1, WriteTyped
<1>3. sec \in [0 .. 1 -> {Unset, Torn} \cup 1 .. MaxSeq] /\ 1 - s \in 0 .. 1 /\ 1 - s # s
  BY DEF Typed
<1> QED
  BY <1>2, <1>3

(* While an app runs and a sector of the OTA data is written, a switch is  *)
(* in progress.                                                            *)
LEMMA SwitchInProgress ==
    ASSUME OtaInv, running # Off, work # << >>, ~OnImage(Head(work))
    PROVE  /\ target \in Slots \/ target = Factory
           /\ running \in Apps /\ Verified(running)
<1>1. /\ work \in Seq(Ops) /\ table \in Tables /\ running \in Apps /\ target \in Apps \cup {Off}
  BY DEF OtaInv, Typed
<1>2. Head(work) = work[1] /\ 1 \in DOMAIN work
  BY <1>1, Rest
<1>3. target # Off
  BY <1>2 DEF OtaInv, CallInProgress
<1>4. Verified(running)
  BY DEF OtaInv, RunningWhole
<1> QED
  BY <1>1, <1>3, <1>4, Device

(***************************************************************************)
(* The bootloader copies slot 1 to slot 0.                                 *)
(***************************************************************************)
(* Functions are equal when their values are.                              *)
LEMMA SameFunction ==
    ASSUME NEW A, NEW B, NEW f \in [A -> B], NEW g \in [A -> B], \A a \in A : f[a] = g[a]
    PROVE  f = g
  OBVIOUS

(* After the sectors of the image come those of the OTA data.              *)
LEMMA LastCopies ==
    ASSUME NEW i \in Nat, Chunks \in Nat, ~(i + 1 <= 2 * Chunks)
    PROVE  CopyOp(i + 1) = Select(i - 2 * Chunks, Unset)
<1>1. ASSUME NEW k \in Nat, ~(k <= 2 * Chunks)
      PROVE  CopyOp(k) = Select(k - 2 * Chunks - 1, Unset)
  BY <1>1 DEF CopyOp
<1>2. i + 1 \in Nat /\ i + 1 - 2 * Chunks - 1 = i - 2 * Chunks
  OBVIOUS
<1> QED
  BY <1>1, <1>2

(* The next operation, and what holds before it.                           *)
LEMMA NextCopy ==
    ASSUME CopyTables, OtaInv, running = Off, work # << >>,
           NEW i \in 0 .. 2 * Chunks + 1, Copied(i)
    PROVE  /\ CopyApp /\ 1 \in promised /\ boot = 0 /\ Verified(1) /\ target = Off
           /\ Head(work) = CopyOp(i + 1)
           /\ i < 2 * Chunks =>
                 /\ Head(work) = Image(0, (i + 2) \div 2,
                        IF (i + 1) % 2 = 1 THEN Erased ELSE img[1][(i + 1) \div 2])
                 /\ Head(work) \in Ops
                 /\ OnImage(Head(work)) /\ Head(work).p = 0
                 /\ Reported = 1
           /\ ~(i < 2 * Chunks) =>
                 /\ i - 2 * Chunks \in 0 .. 1
                 /\ Head(work) = Select(i - 2 * Chunks, Unset)
                 /\ img[0] = img[1] /\ Verified(0)
<1>1. /\ Typed /\ work \in Seq(Ops) /\ table \in Tables /\ Chunks \in Nat \ {0}
      /\ img \in [Apps -> [1 .. Chunks -> Contents]]
  BY Device DEF OtaInv, Typed
<1>2. CopyApp /\ 1 \in promised /\ boot = 0 /\ Verified(1) /\ target = Off
  BY DEF OtaInv, CopyPhase, CallInProgress
<1>3. Head(work) = work[1] /\ work[1] \in Ops /\ Len(work) \in Nat \ {0} /\ 1 \in 1 .. Len(work)
  BY <1>1, Rest
<1>4. Head(work) = CopyOp(i + 1)
  BY <1>3 DEF Copied
<1>5. ASSUME i < 2 * Chunks
      PROVE  /\ Head(work) = Image(0, (i + 2) \div 2,
                    IF (i + 1) % 2 = 1 THEN Erased ELSE img[1][(i + 1) \div 2])
             /\ Reported = 1
  <2>1. i + 1 <= 2 * Chunks /\ i <= 2 * Chunks /\ i + 1 + 1 = i + 2
    BY <1>1, <1>5
  <2>2. Reported = 1
    BY <2>1 DEF Copied
  <2> QED
    BY <1>4, <2>1, <2>2 DEF CopyOp
<1>6. ASSUME i < 2 * Chunks
      PROVE  OnImage(Head(work)) /\ Head(work).p = 0
  BY <1>5, <1>6 DEF OnImage, Image
<1>7. ASSUME ~(i < 2 * Chunks)
      PROVE  /\ i - 2 * Chunks \in 0 .. 1
             /\ Head(work) = Select(i - 2 * Chunks, Unset)
             /\ img[0] = img[1] /\ Verified(0)
  <2>1. /\ ~(i + 1 <= 2 * Chunks) /\ i - 2 * Chunks \in 0 .. 1
        /\ i + 1 - 2 * Chunks - 1 = i - 2 * Chunks
        /\ \A c \in 1 .. Chunks : 2 * c <= i
    BY <1>1, <1>7
  <2>2. Head(work) = Select(i - 2 * Chunks, Unset)
    BY <1>1, <1>4, <2>1, LastCopies
  <2>3. \A c \in 1 .. Chunks : img[0][c] = img[1][c]
    BY <2>1 DEF Copied
  <2>4. img[0] \in [1 .. Chunks -> Contents] /\ img[1] \in [1 .. Chunks -> Contents]
    BY <1>1, <1>2, Device
  <2>5. img[0] = img[1]
    <3> DEFINE A == 1 .. Chunks
    <3>1. /\ img[0] \in [A -> Contents] /\ img[1] \in [A -> Contents]
          /\ \A c \in A : img[0][c] = img[1][c]
      BY <2>3, <2>4
    <3> HIDE DEF A
    <3> QED
      BY <3>1, SameFunction
  <2>6. Verified(0)
    BY <1>2, <2>3 DEF Verified
  <2> QED
    BY <2>1, <2>2, <2>5, <2>6
<1> QED
  BY <1>2, <1>3, <1>4, <1>5, <1>6, <1>7

(* An operation of the copying leaves slot 1 alone.                        *)
LEMMA CopyWrite ==
    ASSUME CopyTables, OtaInv, running = Off, work # << >>, table' = table,
           NEW i \in 0 .. 2 * Chunks + 1, Copied(i),
           NEW n \in {Unset, Torn} \cup 1 .. MaxSeq, NEW v \in Contents,
           Does(Head(work), n, v)
    PROVE  /\ img'[1] = img[1] /\ Verified(1)'
           /\ i < 2 * Chunks => sec' = sec /\ Reported' = 1
           /\ i < 2 * Chunks => img'[0] = [img[0] EXCEPT ![(i + 2) \div 2] = v]
           /\ ~(i < 2 * Chunks) =>
                 /\ img' = img /\ Verified(0)'
                 /\ sec'[i - 2 * Chunks] = n
                 /\ sec'[1 - (i - 2 * Chunks)] = sec[1 - (i - 2 * Chunks)]
<1>1. /\ Typed /\ table \in Tables /\ Chunks' = Chunks
  BY Fixed DEF OtaInv, Typed
<1>2. CopyApp /\ Verified(1)
  BY NextCopy
<1>3. 0 \in Apps /\ 1 \in Apps
  BY <1>1, <1>2, Device
<1>4. ASSUME i < 2 * Chunks
      PROVE  /\ img'[1] = img[1] /\ sec' = sec
             /\ img'[0] = [img[0] EXCEPT ![(i + 2) \div 2] = v]
  <2>1. Head(work) \in Ops /\ OnImage(Head(work)) /\ Head(work).p = 0
    BY <1>4, NextCopy
  <2>2. Head(work).c = (i + 2) \div 2
    BY <1>4, NextCopy DEF Image
  <2> QED
    BY <1>1, <1>3, <2>1, <2>2, WriteTyped
<1>5. ASSUME ~(i < 2 * Chunks)
      PROVE  /\ img' = img
             /\ sec'[i - 2 * Chunks] = n
             /\ sec'[1 - (i - 2 * Chunks)] = sec[1 - (i - 2 * Chunks)]
  <2>1. i - 2 * Chunks \in 0 .. 1 /\ Head(work) = Select(i - 2 * Chunks, Unset)
    BY <1>5, NextCopy
  <2>2. PICK s \in 0 .. 1 : s = i - 2 * Chunks
    BY <2>1
  <2>3. Does(Select(s, Unset), n, v)
    BY <2>1, <2>2
  <2> QED
    BY <1>1, <2>2, <2>3, SelectWrite
<1>6. img'[1] = img[1]
  BY <1>4, <1>5
<1>7. Verified(1)'
  BY <1>1, <1>2, <1>6 DEF Verified
<1>8. ~(i < 2 * Chunks) => Verified(0)'
  <2>1. ~(i < 2 * Chunks) => Verified(0) /\ img' = img
    BY <1>5, NextCopy
  <2> QED
    BY <1>1, <2>1 DEF Verified
<1>9. i < 2 * Chunks => Reported' = 1
  <2>1. i < 2 * Chunks => Reported = 1
    BY NextCopy
  <2> QED
    BY <1>4, <2>1, ReportedIs, ReportedNext
<1> QED
  BY <1>4, <1>5, <1>6, <1>7, <1>8, <1>9
---------------------------------------------------------------------------
(***************************************************************************)
(* The power fails.                                                        *)
(***************************************************************************)
(* Between two operations, or in the middle of one.                        *)
LEMMA PowerKeeps ==
    ASSUME CopyTables, OtaInv, Typed', PowerLoss
    PROVE  OtaInv'
<1>1. Halt /\ UNCHANGED <<table, promised>> /\ running' = Off /\ Typed /\ table \in Tables
  BY DEF PowerLoss, Halt, OtaInv, Typed
<1>2. CopyApp' = CopyApp /\ Off' = Off /\ Chunks' = Chunks /\ Apps' = Apps
  BY <1>1, Fixed DEF Off
<1>3. CASE UNCHANGED <<sec, img>>
  BY <1>1, <1>3, HaltKeeps
<1>4. CASE work # << >> /\ Does(Head(work), Torn, Bad)
  <2>1. PICK n \in {Unset, Torn} \cup 1 .. MaxSeq, v \in Contents :
            n = Torn /\ v = Bad /\ Does(Head(work), n, v)
    BY <1>4 DEF Contents
  <2>2. CASE running # Off /\ OnImage(Head(work))
    <3>1. /\ Reported' = Reported /\ Reported \in promised
          /\ (\E p \in Apps : Verified(p))'
          /\ CopyApp => Reported = 0 /\ Verified(0)'
      BY <1>1, <1>4, <2>1, <2>2, ImageWrite
    <3>2. KeepsPromise'
      BY <1>1, <3>1 DEF KeepsPromise
    <3> QED
      BY <1>1, <3>1, <3>2, HaltFrom
  <2>3. CASE running # Off /\ ~OnImage(Head(work)) /\ target \in Slots
    <3>1. PICK s \in 0 .. 1, k \in 1 .. MaxSeq : Switching(s, k, target)
      BY <2>3 DEF OtaInv, CallInProgress
    <3>2. PICK m \in {Unset} \cup 1 .. MaxSeq : Head(work) = Select(s, m)
      BY <3>1 DEF Switching
    <3>3. /\ img' = img /\ sec' \in Sectors(MaxSeq)
          /\ sec'[s] \in {Unset, Torn} /\ sec'[1 - s] = sec[1 - s]
      BY <1>1, <2>1, <3>2, SelectWrite
    <3>4. PICK t : t = target
      OBVIOUS
    <3>5. Reported' = Reported
      BY <1>1, <3>1, <3>3, <3>4, SwitchBegun
    <3>6. \A p : Verified(p)' <=> Verified(p)
      BY <1>2, <3>3 DEF Verified
    <3>7. Reported \in promised
      BY <2>3 DEF OtaInv, KeepsPromise
    <3>8. KeepsPromise'
      BY <1>1, <3>5, <3>7 DEF KeepsPromise
    <3>9. CopyApp => (Reported' = 1 => Verified(1)') /\ (Reported' # 1 => Verified(0)')
      BY <3>5, <3>6 DEF OtaInv, CopyPhase
    <3>10. (\E p \in Apps : Verified(p))'
      BY <1>2, <3>6 DEF OtaInv
    <3> QED
      BY <1>1, <3>8, <3>9, <3>10, HaltFrom
  <2>4. CASE running # Off /\ ~OnImage(Head(work)) /\ target = Factory
    <3>1. promised = Apps /\ HasFactory /\ ~CopyApp
      BY <1>1, <2>4, Copying DEF OtaInv, CallInProgress
    <3>2. KeepsPromise'
      BY <1>1, <3>1, ReportedSomewhere DEF KeepsPromise
    <3>3. PICK s \in 0 .. 1 : Head(work) = Select(s, Unset)
      BY <2>4 DEF OtaInv, CallInProgress, EraseSelect
    <3>4. img' = img
      BY <1>1, <2>1, <3>3, SelectWrite
    <3>5. \A p : Verified(p)' <=> Verified(p)
      BY <1>2, <3>4 DEF Verified
    <3>6. (\E p \in Apps : Verified(p))'
      BY <1>2, <3>5 DEF OtaInv
    <3> QED
      BY <1>1, <3>1, <3>2, <3>6, HaltFrom
  <2>5. CASE running = Off
    <3>1. PICK i \in 0 .. 2 * Chunks + 1 : Copied(i)
      BY <1>4, <2>5 DEF OtaInv, CopyPhase
    <3>2. CopyApp /\ 1 \in promised /\ 1 \in Apps
      BY <1>1, <1>4, <2>5, <3>1, NextCopy, Device
    <3>3. /\ Verified(1)'
          /\ i < 2 * Chunks => Reported' = 1
          /\ ~(i < 2 * Chunks) => img' = img /\ Verified(0)'
      BY <1>1, <1>4, <2>1, <2>5, <3>1, CopyWrite
    <3>4. KeepsPromise'
      <4>1. CASE i < 2 * Chunks
        BY <1>1, <3>2, <3>3, <4>1 DEF KeepsPromise
      <4>2. CASE ~(i < 2 * Chunks)
        <5>1. img'[0] = img'[1]
          BY <1>4, <2>5, <3>1, <3>3, <4>2, NextCopy
        <5> QED
          BY <1>1, <1>2, <3>2, <5>1 DEF KeepsPromise
      <4> QED
        BY <4>1, <4>2
    <3>5. (\E p \in Apps : Verified(p))'
      BY <1>2, <3>2, <3>3
    <3> QED
      BY <1>1, <3>3, <3>4, <3>5, HaltFrom
  <2> QED
    BY <1>4, <2>2, <2>3, <2>4, <2>5, SwitchInProgress
<1> QED
  BY <1>3, <1>4 DEF PowerLoss
---------------------------------------------------------------------------
(***************************************************************************)
(* A flash operation is done: first while an app runs.                     *)
(***************************************************************************)
(* A sector of an image.                                                   *)
LEMMA AppFlash ==
    ASSUME CopyTables, OtaInv, Typed', FlashStep, running # Off, OnImage(Head(work))
    PROVE  OtaInv'
<1>1. /\ work # << >> /\ work' = Tail(work) /\ Typed /\ work \in Seq(Ops) /\ table \in Tables
      /\ UNCHANGED <<table, running, boot, open>>
  BY DEF FlashStep, OtaInv, Typed
<1>2. PICK n \in {Unset, Torn} \cup 1 .. MaxSeq, v \in Contents : Does(Head(work), n, v)
  BY <1>1, FlashDoes
<1>3. /\ Reported' = Reported /\ target = Off /\ Reported \in promised
      /\ img'[running] = img[running] /\ Verified(running) /\ running \in Apps
      /\ (\E p \in Apps : Verified(p))'
      /\ CopyApp => running = 0 /\ Reported = 0 /\ Verified(0)'
  BY <1>1, <1>2, ImageWrite
<1>4. target' = Off /\ promised' = promised
  BY <1>3 DEF FlashStep
<1>5. /\ Chunks' = Chunks /\ CopyApp' = CopyApp /\ Slots' = Slots
      /\ Off' = Off /\ Factory' = Factory /\ Off \notin Slots /\ Off # Factory
  BY <1>1, Fixed, Device DEF Off, Factory
<1>6. \A i \in DOMAIN work' : i + 1 \in DOMAIN work /\ work'[i] = work[i + 1]
  BY <1>1, Rest
<1>7. /\ \A i \in DOMAIN open : open[i].part # running
      /\ \A i \in DOMAIN work : OnImage(work[i]) => work[i].p # running
      /\ \A i \in DOMAIN work : OnImage(work[i])
  BY <1>3 DEF OtaInv, RunningWhole, CallInProgress
<1>8. RunningWhole'
  <2>1. Verified(running)'
    BY <1>1, <1>3, <1>5 DEF Verified
  <2> QED
    BY <1>1, <1>6, <1>7, <2>1 DEF RunningWhole, OnImage
<1>9. CallInProgress'
  BY <1>1, <1>4, <1>5, <1>6, <1>7 DEF CallInProgress, OnImage
<1>10. KeepsPromise'
  BY <1>3, <1>4 DEF KeepsPromise
<1>11. Choice'
  BY <1>1, <1>5 DEF Choice
<1>12. CopyPhase'
  <2>1. target' # 1
    BY <1>4 DEF Off
  <2> QED
    BY <1>1, <1>3, <1>4, <1>5, <2>1 DEF CopyPhase
<1> QED
  BY <1>3, <1>8, <1>9, <1>10, <1>11, <1>12 DEF OtaInv

(* A sector of the OTA data while an app runs.  What has to be shown:      *)
LEMMA SwitchFrom ==
    ASSUME CopyTables, OtaInv, Typed', running # Off, table' = table, img' = img,
           UNCHANGED <<running, boot, open>>,
           \A i \in DOMAIN work' : ~OnImage(work'[i]),
           CallInProgress',
           Reported' \in promised',
           Reported' \in {Reported, target},
           target' \in {Off, target},
           target # Off
    PROVE  OtaInv'
<1>1. /\ Chunks' = Chunks /\ CopyApp' = CopyApp /\ Off' = Off /\ Apps' = Apps
  BY Fixed DEF Off
<1>2. \A p : Verified(p)' <=> Verified(p)
  BY <1>1 DEF Verified
<1>3. RunningWhole'
  <2>1. Verified(running) /\ \A i \in DOMAIN open : open[i].part # running
    BY DEF OtaInv, RunningWhole
  <2>2. Verified(running)'
    BY <1>1, <2>1 DEF Verified
  <2> QED
    BY <2>1, <2>2 DEF RunningWhole, OnImage
<1>4. KeepsPromise' /\ Choice'
  BY <1>1 DEF KeepsPromise, Choice
<1>5. CopyPhase'
  <2>1. CASE CopyApp
    <3>1. /\ running = 0 /\ open = << >>
          /\ target = 1 => Verified(1)
          /\ Reported = 1 => Verified(1)
      BY <2>1 DEF OtaInv, CopyPhase
    <3>2. Verified(0)
      BY <3>1 DEF OtaInv, RunningWhole
    <3>3. target' = 1 => Verified(1)
      BY <3>1 DEF Off
    <3> QED
      BY <1>1, <1>2, <3>1, <3>2, <3>3 DEF CopyPhase, OnImage
  <2>2. CASE ~CopyApp
    BY <1>1, <2>2 DEF CopyPhase
  <2> QED
    BY <2>1, <2>2
<1>6. (\E p \in Apps : Verified(p))'
  BY <1>1, <1>2 DEF OtaInv
<1> QED
  BY <1>3, <1>4, <1>5, <1>6 DEF OtaInv

(* A sector of the OTA data in a switch to a slot.                         *)
LEMMA SwitchFlash ==
    ASSUME CopyTables, OtaInv, Typed', FlashStep, running # Off, ~OnImage(Head(work)),
           target \in Slots
    PROVE  OtaInv'
<1>1. /\ work # << >> /\ work' = Tail(work) /\ Typed /\ work \in Seq(Ops) /\ table \in Tables
      /\ UNCHANGED <<table, running, boot, open>>
  BY DEF FlashStep, OtaInv, Typed
<1>2. PICK n \in {Unset, Torn} \cup 1 .. MaxSeq, v \in Contents :
          Does(Head(work), n, v) /\ n = Head(work).n
  BY <1>1, FlashDoes
<1>3. PICK s \in 0 .. 1, k \in 1 .. MaxSeq : Switching(s, k, target)
  BY DEF OtaInv, CallInProgress
<1>4. PICK t : t = target
  OBVIOUS
<1>5. /\ Slots' = Slots /\ MaxSeq' = MaxSeq /\ Off' = Off /\ Factory' = Factory
      /\ OtaCount' = OtaCount
      /\ Off \notin Slots /\ Off # Factory /\ Factory \notin Slots
  BY <1>1, Fixed, Device DEF Off, Factory
<1>6. Reported \in promised /\ target \in promised
  BY <1>5 DEF OtaInv, KeepsPromise, CallInProgress
<1>7. \A q, m : ~OnImage(Select(q, m)) /\ Select(q, m).n = m
  BY DEF OnImage, Select
<1>8. CASE work = <<Select(s, Unset), Select(s, k)>>
  <2>1. /\ Head(work) = Select(s, Unset) /\ work' = <<Select(s, k)>> /\ Len(work) = 2
    BY <1>1, <1>8
  <2>2. /\ img' = img /\ sec' \in Sectors(MaxSeq)
        /\ sec'[s] = Unset /\ sec'[1 - s] = sec[1 - s]
    <3>1. n = Unset /\ Does(Select(s, Unset), n, v)
      BY <1>2, <1>7, <2>1
    <3>2. sec'[s] = n /\ img' = img /\ sec' \in Sectors(MaxSeq) /\ sec'[1 - s] = sec[1 - s]
      BY <1>1, <3>1, SelectWrite
    <3> QED
      BY <3>1, <3>2
  <2>3. target' = target /\ promised' = promised
    BY <2>1 DEF FlashStep
  <2>4. Reported' = Reported
    BY <1>1, <1>3, <1>4, <2>2, SwitchBegun
  <2>5. Switching(s, k, target)'
    <3>1. ~ota_select_valid(s)'
      BY <2>2 DEF ota_select_valid, Unset, Torn
    <3>2. ota_select_valid(1 - s)' => ota_select_valid(1 - s)
      BY <2>2 DEF ota_select_valid, Unset, Torn
    <3>3. (ota_select_valid(1 - s) => sec[1 - s] <= k) /\ (k - 1) % OtaCount = target
      BY <1>3 DEF Switching
    <3>4. work' = <<Select(s, k)>>'
      BY <2>1 DEF Select
    <3> QED
      BY <1>5, <2>2, <2>3, <3>1, <3>2, <3>3, <3>4 DEF Switching
  <2>6. CallInProgress'
    BY <1>1, <1>5, <1>6, <2>3, <2>5 DEF CallInProgress
  <2>7. \A i \in DOMAIN work' : ~OnImage(work'[i])
    BY <1>7, <2>1
  <2> QED
    BY <1>1, <1>5, <1>6, <2>2, <2>3, <2>4, <2>6, <2>7, SwitchFrom
<1>9. CASE work = <<Select(s, k)>>
  <2>1. /\ Head(work) = Select(s, k) /\ work' = << >> /\ Len(work) = 1
    BY <1>1, <1>9
  <2>2. /\ img' = img /\ sec' \in Sectors(MaxSeq)
        /\ sec'[s] = k /\ sec'[1 - s] = sec[1 - s]
    BY <1>1, <1>2, <1>7, <2>1, SelectWrite
  <2>3. target' = Off /\ promised' = {target}
    BY <1>5, <2>1 DEF FlashStep
  <2>4. Reported' = target
    BY <1>1, <1>3, <1>4, <2>2, SwitchDone
  <2>5. CallInProgress'
    BY <1>1, <1>5, <2>1, <2>3 DEF CallInProgress
  <2>6. \A i \in DOMAIN work' : ~OnImage(work'[i])
    BY <2>1
  <2> QED
    BY <1>1, <1>5, <2>2, <2>3, <2>4, <2>5, <2>6, SwitchFrom
<1> QED
  BY <1>3, <1>8, <1>9 DEF Switching

(* The same when the factory partition is set: any app may boot until then.*)
LEMMA EraseFlash ==
    ASSUME CopyTables, OtaInv, Typed', FlashStep, running # Off, ~OnImage(Head(work)),
           target = Factory
    PROVE  OtaInv'
<1>1. /\ work # << >> /\ work' = Tail(work) /\ Typed /\ work \in Seq(Ops) /\ table \in Tables
      /\ UNCHANGED <<table, running, boot, open>>
  BY DEF FlashStep, OtaInv, Typed
<1>2. PICK n \in {Unset, Torn} \cup 1 .. MaxSeq, v \in Contents :
          Does(Head(work), n, v) /\ n = Head(work).n
  BY <1>1, FlashDoes
<1>3. /\ Slots' = Slots /\ Off' = Off /\ Factory' = Factory /\ Apps' = Apps
      /\ HasFactory' = HasFactory /\ CopyApp' = CopyApp /\ Chunks' = Chunks
      /\ Off \notin Slots /\ Off # Factory /\ Factory \notin Slots
  BY <1>1, Fixed, Device DEF Off, Factory
<1>4. /\ HasFactory /\ promised = Apps /\ ~CopyApp /\ Factory \in Apps
      /\ find_default_boot_partition = Factory
  BY <1>1, Copying, Device DEF OtaInv, CallInProgress, find_default_boot_partition
<1>5. /\ \A q, m : ~OnImage(Select(q, m)) /\ Select(q, m).n = m
      /\ 0 \in 0 .. 1 /\ 1 \in 0 .. 1 /\ 1 - 0 = 1 /\ 1 - 1 = 0
  BY DEF OnImage, Select
<1>6. /\ \/ work = <<Select(0, Unset), Select(1, Unset)>>
         \/ work = <<Select(1, Unset)>> /\ sec[0] = Unset
  BY DEF OtaInv, CallInProgress, EraseSelect
<1>7. Verified(running) /\ \A i \in DOMAIN open : open[i].part # running
  BY DEF OtaInv, RunningWhole
<1>8. /\ img' = img
      /\ \A i \in DOMAIN work' : ~OnImage(work'[i])
      /\ CallInProgress' /\ KeepsPromise'
  <2>1. CASE work = <<Select(0, Unset), Select(1, Unset)>>
    <3>1. /\ Head(work) = Select(0, Unset) /\ work' = <<Select(1, Unset)>> /\ Len(work) = 2
      BY <1>1, <2>1
    <3>2. img' = img /\ sec'[0] = Unset
      <4>1. n = Unset /\ Does(Select(0, Unset), n, v)
        BY <1>2, <1>5, <3>1
      <4>2. img' = img /\ sec'[0] = n
        BY <1>1, <1>5, <4>1, SelectWrite
      <4> QED
        BY <4>1, <4>2
    <3>3. target' = target /\ promised' = promised
      BY <3>1 DEF FlashStep
    <3>4. CallInProgress'
      BY <1>1, <1>3, <1>4, <3>1, <3>2, <3>3 DEF CallInProgress, Select, Unset
    <3>5. KeepsPromise'
      BY <1>1, <1>4, <3>3, ReportedSomewhere DEF KeepsPromise
    <3> QED
      BY <1>5, <3>1, <3>2, <3>4, <3>5
  <2>2. CASE work = <<Select(1, Unset)>> /\ sec[0] = Unset
    <3>1. /\ Head(work) = Select(1, Unset) /\ work' = << >> /\ Len(work) = 1
      BY <1>1, <2>2
    <3>2. img' = img /\ sec'[1] = Unset /\ sec'[0] = Unset
      BY <1>1, <1>2, <1>5, <2>2, <3>1, SelectWrite
    <3>3. target' = Off /\ promised' = {Factory}
      BY <1>3, <3>1 DEF FlashStep
    <3>4. Reported' = Factory
      BY <1>1, <1>4, <3>2, BothBlank
    <3>5. CallInProgress'
      BY <1>1, <1>3, <3>1, <3>3 DEF CallInProgress
    <3>6. KeepsPromise'
      BY <3>3, <3>4 DEF KeepsPromise
    <3> QED
      BY <3>1, <3>2, <3>5, <3>6
  <2> QED
    BY <1>6, <2>1, <2>2
<1>9. RunningWhole'
  <2>1. Verified(running)'
    BY <1>1, <1>3, <1>7, <1>8 DEF Verified
  <2> QED
    BY <1>1, <1>7, <1>8, <2>1 DEF RunningWhole, OnImage
<1>10. Choice' /\ CopyPhase'
  BY <1>1, <1>3, <1>4 DEF Choice, CopyPhase
<1>11. (\E p \in Apps : Verified(p))'
  <2>1. \A p : Verified(p)' <=> Verified(p)
    BY <1>3, <1>8 DEF Verified
  <2> QED
    BY <1>3, <2>1 DEF OtaInv
<1> QED
  BY <1>8, <1>9, <1>10, <1>11 DEF OtaInv

(***************************************************************************)
(* The next operation of the copying: a sector of slot 0 erased or         *)
(* written, ...                                                            *)
(***************************************************************************)

(* Which sector, and which of the two.                                     *)
LEMMA CopySector ==
    ASSUME NEW C \in Nat \ {0}, NEW i \in 0 .. 2 * C - 1
    PROVE  LET a == (i + 2) \div 2 IN
           /\ a \in 1 .. C
           /\ (i + 1) % 2 = 1 => 2 * a = i + 2 /\ \A c \in 1 .. C : 2 * c # i + 1
           /\ (i + 1) % 2 # 1 => 2 * a = i + 1 /\ (i + 1) \div 2 = a
           /\ \A c \in 1 .. C : 2 * c <= i => c # a
           /\ \A c \in 1 .. C : 2 * c = i + 1 \/ 2 * c = i + 2 => c = a
<1> DEFINE a == (i + 2) \div 2
           q == i \div 2
           r == i % 2
<1>1. q \in Nat /\ r \in 0 .. 1 /\ i = 2 * q + r
  OBVIOUS
<1>2. r = 0 => a = q + 1 /\ (i + 1) % 2 = 1
  BY <1>1
<1>3. r = 1 => a = q + 1 /\ (i + 1) % 2 = 0 /\ (i + 1) \div 2 = q + 1
  BY <1>1
<1> HIDE DEF a, q, r
<1>4. a = q + 1 /\ a \in 1 .. C
  BY <1>1, <1>2, <1>3
<1>5. (i + 1) % 2 = 1 => 2 * a = i + 2 /\ \A c \in 1 .. C : 2 * c # i + 1
  BY <1>1, <1>2, <1>3, <1>4
<1>6. (i + 1) % 2 # 1 => 2 * a = i + 1 /\ (i + 1) \div 2 = a
  BY <1>1, <1>2, <1>3, <1>4
<1>7. \A c \in 1 .. C : 2 * c <= i => c # a
  BY <1>1, <1>4
<1>8. \A c \in 1 .. C : 2 * c = i + 1 \/ 2 * c = i + 2 => c = a
  BY <1>1, <1>4
<1> QED
  BY <1>4, <1>5, <1>6, <1>7, <1>8 DEF a

(* The operations that remain do not depend on slot 0.                     *)
LEMMA CopyRest ==
    ASSUME OtaInv, table' = table, work # << >>, work' = Tail(work), img'[1] = img[1],
           NEW i \in 0 .. 2 * Chunks + 1, Copied(i)
    PROVE  /\ Len(work') = 2 * Chunks + 2 - (i + 1)
           /\ \A j \in 1 .. Len(work') : work'[j] = CopyOp((i + 1) + j)'
           /\ work' = << >> <=> i = 2 * Chunks + 1
<1>1. work \in Seq(Ops) /\ table \in Tables /\ Chunks \in Nat \ {0} /\ Chunks' = Chunks
  BY Fixed, Device DEF OtaInv, Typed
<1>2. /\ Len(work') = Len(work) - 1 /\ work' \in Seq(Ops)
      /\ \A j \in DOMAIN work' : j + 1 \in DOMAIN work /\ work'[j] = work[j + 1]
      /\ work' = << >> <=> Len(work) = 1
  BY <1>1, Rest
<1>3. Len(work) = 2 * Chunks + 2 - i /\ \A j \in 1 .. Len(work) : work[j] = CopyOp(i + j)
  BY DEF Copied
<1>4. \A k : CopyOp(k)' = CopyOp(k)
  BY <1>1 DEF CopyOp, Image, Select, Unset
<1>5. ASSUME NEW j \in 1 .. Len(work') PROVE work'[j] = CopyOp((i + 1) + j)'
  <2>1. j \in DOMAIN work' /\ j \in Nat
    BY <1>2
  <2>2. j + 1 \in 1 .. Len(work) /\ work'[j] = work[j + 1]
    BY <1>1, <1>2, <2>1
  <2>3. work'[j] = CopyOp(i + (j + 1))
    BY <1>3, <2>2
  <2>4. i + (j + 1) = (i + 1) + j
    BY <2>1
  <2>5. CopyOp((i + 1) + j)' = CopyOp((i + 1) + j)
    BY <1>4
  <2> QED
    BY <2>3, <2>4, <2>5
<1> QED
  BY <1>1, <1>2, <1>3, <1>5

(* One more sector of slot 0 is erased, or equals that of slot 1.          *)
LEMMA CopyingImage ==
    ASSUME CopyTables, OtaInv, FlashStep, running = Off, table' = table,
           NEW i \in 0 .. 2 * Chunks + 1, Copied(i), i < 2 * Chunks
    PROVE  Copied(i + 1)' /\ Verified(1)' /\ Reported' = 1 /\ work' # << >>
<1>1. /\ work # << >> /\ work' = Tail(work) /\ Typed /\ table \in Tables
      /\ Chunks \in Nat \ {0} /\ Chunks' = Chunks
      /\ img \in [Apps -> [1 .. Chunks -> Contents]]
  BY Fixed, Device DEF FlashStep, OtaInv, Typed
<1>2. PICK n \in {Unset, Torn} \cup 1 .. MaxSeq, v \in Contents :
          /\ Does(Head(work), n, v)
          /\ OnImage(Head(work)) =>
                 v = Programmed(img[Head(work).p][Head(work).c], Head(work).v)
  BY <1>1, FlashDoes
<1> DEFINE a == (i + 2) \div 2
           odd == (i + 1) % 2 = 1
           w == IF odd THEN Erased ELSE img[1][(i + 1) \div 2]
<1>3. OnImage(Head(work)) /\ Head(work) = Image(0, a, w)
  BY <1>1, NextCopy
<1>4. Head(work).p = 0 /\ Head(work).c = a /\ Head(work).v = w
  BY <1>3 DEF Image
<1>5. /\ img'[1] = img[1] /\ Verified(1)' /\ Reported' = 1
      /\ img'[0] = [img[0] EXCEPT ![a] = v]
  BY <1>1, <1>2, CopyWrite
<1>6. i \in 0 .. 2 * Chunks - 1 /\ i + 1 <= 2 * Chunks /\ i # 2 * Chunks + 1
  BY <1>1
<1>7. /\ a \in 1 .. Chunks
      /\ odd => 2 * a = i + 2 /\ \A c \in 1 .. Chunks : 2 * c # i + 1
      /\ ~odd => 2 * a = i + 1 /\ (i + 1) \div 2 = a
      /\ \A c \in 1 .. Chunks : 2 * c <= i => c # a
      /\ \A c \in 1 .. Chunks : 2 * c = i + 1 \/ 2 * c = i + 2 => c = a
  BY <1>1, <1>6, CopySector
<1>8. img[0] \in [1 .. Chunks -> Contents]
  <2>1. 0 \in Apps
    BY <1>1, Device
  <2> QED
    BY <1>1, <2>1
<1> HIDE DEF a, odd
<1>9. v = Programmed(img[0][a], w)
  BY <1>2, <1>3, <1>4
<1>10. odd => v = Erased
  BY <1>9 DEF Programmed
<1>11. ~odd => v = img[1][a]
  <2>1. ASSUME ~odd PROVE v = img[1][a]
    <3>1. w = img[1][a] /\ img[0][a] = Erased
      BY <1>7, <2>1 DEF Copied
    <3> QED
      BY <1>9, <3>1 DEF Programmed
  <2> QED
    BY <2>1
<1> HIDE DEF w
<1>12. img'[0][a] = v /\ \A c \in 1 .. Chunks : c # a => img'[0][c] = img[0][c]
  BY <1>5, <1>7, <1>8
<1>13. ASSUME NEW c \in 1 .. Chunks, 2 * c <= i + 1 PROVE img'[0][c] = img'[1][c]
  <2>1. CASE 2 * c <= i
    BY <1>5, <1>7, <1>12, <2>1 DEF Copied
  <2>2. CASE 2 * c = i + 1
    <3>1. c = a /\ ~odd
      BY <1>7, <2>2
    <3> QED
      BY <1>5, <1>11, <1>12, <3>1
  <2> QED
    BY <1>13, <2>1, <2>2
<1>14. ASSUME NEW c \in 1 .. Chunks, 2 * c = (i + 1) + 1 PROVE img'[0][c] = Erased
  <2>1. 2 * c = i + 2
    BY <1>14
  <2>2. c = a
    BY <1>7, <2>1
  <2>3. odd
    <3>1. ~odd => 2 * a = i + 1
      BY <1>7
    <3> QED
      BY <2>1, <2>2, <3>1
  <2> QED
    BY <1>10, <1>12, <2>2, <2>3
<1>15. /\ Len(work') = 2 * Chunks + 2 - (i + 1)
       /\ \A j \in 1 .. Len(work') : work'[j] = CopyOp((i + 1) + j)'
       /\ work' # << >>
  BY <1>1, <1>5, <1>6, CopyRest
<1>16. ~(i + 1 > 2 * Chunks)
  BY <1>1, <1>6
<1>17. Copied(i + 1)'
  BY <1>1, <1>5, <1>13, <1>14, <1>15, <1>16 DEF Copied
<1> QED
  BY <1>5, <1>15, <1>17

(* ... or a sector of the OTA data erased.                                 *)
LEMMA CopyingDone ==
    ASSUME CopyTables, OtaInv, FlashStep, running = Off, table' = table,
           NEW i \in 0 .. 2 * Chunks + 1, Copied(i), ~(i < 2 * Chunks)
    PROVE  /\ img'[0] = img'[1] /\ Verified(0)' /\ Verified(1)'
           /\ i = 2 * Chunks => Copied(i + 1)' /\ work' # << >>
           /\ i # 2 * Chunks =>
                 /\ work' = << >> /\ Reported' = 0 /\ get_selected_boot_partition' = 0
<1>1. /\ work # << >> /\ work' = Tail(work) /\ Typed /\ table \in Tables
      /\ Chunks \in Nat \ {0} /\ Chunks' = Chunks
  BY Fixed, Device DEF FlashStep, OtaInv, Typed
<1>2. /\ i - 2 * Chunks \in 0 .. 1 /\ Head(work) = Select(i - 2 * Chunks, Unset)
      /\ img[0] = img[1] /\ CopyApp
  BY <1>1, NextCopy
<1>3. \A q : ~OnImage(Select(q, Unset)) /\ Select(q, Unset).n = Unset
  BY DEF OnImage, Select
<1>4. PICK n \in {Unset, Torn} \cup 1 .. MaxSeq, v \in Contents :
          n = Unset /\ Does(Head(work), n, v)
  BY <1>1, <1>2, <1>3, FlashDoes
<1>5. /\ Verified(1)' /\ img' = img /\ Verified(0)'
      /\ sec'[i - 2 * Chunks] = Unset
      /\ sec'[1 - (i - 2 * Chunks)] = sec[1 - (i - 2 * Chunks)]
  BY <1>1, <1>4, CopyWrite
<1>6. /\ Len(work') = 2 * Chunks + 2 - (i + 1)
      /\ \A j \in 1 .. Len(work') : work'[j] = CopyOp((i + 1) + j)'
      /\ work' = << >> <=> i = 2 * Chunks + 1
  BY <1>1, <1>5, CopyRest
<1>7. ASSUME i = 2 * Chunks PROVE Copied(i + 1)' /\ work' # << >>
  <2>1. /\ i - 2 * Chunks = 0 /\ i # 2 * Chunks + 1 /\ ~(i + 1 <= 2 * Chunks)
        /\ \A c \in 1 .. Chunks : 2 * c # (i + 1) + 1
    BY <1>1, <1>7
  <2>2. sec'[0] = Unset /\ \A c \in 1 .. Chunks : img'[0][c] = img'[1][c]
    BY <1>2, <1>5, <2>1
  <2>3. Copied(i + 1)'
    BY <1>1, <1>6, <2>1, <2>2 DEF Copied, Unset
  <2> QED
    BY <1>6, <2>1, <2>3
<1>8. ASSUME i # 2 * Chunks
      PROVE  work' = << >> /\ Reported' = 0 /\ get_selected_boot_partition' = 0
  <2>1. /\ i - 2 * Chunks = 1 /\ 1 - (i - 2 * Chunks) = 0
        /\ i = 2 * Chunks + 1 /\ i > 2 * Chunks
    BY <1>1, <1>2, <1>8
  <2>2. sec[0] = Unset
    BY <2>1 DEF Copied
  <2>3. sec'[1] = Unset /\ sec'[0] = Unset
    BY <1>5, <2>1, <2>2
  <2> QED
    BY <1>1, <1>2, <1>6, <2>1, <2>3, BothBlank, Copying
<1> QED
  BY <1>2, <1>5, <1>7, <1>8

(* The copying keeps the invariant.                                        *)
LEMMA CopyFlash ==
    ASSUME CopyTables, OtaInv, Typed', FlashStep, running = Off
    PROVE  OtaInv'
<1>1. /\ work # << >> /\ table \in Tables /\ Typed
      /\ UNCHANGED <<table, running, boot, open>>
  BY DEF FlashStep, OtaInv, Typed
<1>2. PICK i \in 0 .. 2 * Chunks + 1 : Copied(i)
  BY <1>1 DEF OtaInv, CopyPhase
<1>3. CopyApp /\ 1 \in promised /\ boot = 0 /\ target = Off /\ open = << >>
  BY <1>1, <1>2, NextCopy DEF OtaInv, CallInProgress
<1>4. target' = Off /\ promised' = promised
  BY <1>3 DEF FlashStep
<1>5. /\ Slots' = Slots /\ Off' = Off /\ Factory' = Factory /\ Apps' = Apps
      /\ CopyApp' = CopyApp /\ Chunks' = Chunks /\ Chunks \in Nat /\ 1 \in Apps
      /\ Off \notin Slots /\ Off # Factory /\ boot # Off
  BY <1>1, <1>3, Fixed, Device DEF Off, Factory
<1>6. RunningWhole'
  BY <1>1, <1>5 DEF RunningWhole
<1>7. CallInProgress'
  BY <1>1, <1>3, <1>4, <1>5 DEF CallInProgress
<1>8. /\ KeepsPromise' /\ Verified(1)' /\ Choice'
      /\ Reported' # 1 => Verified(0)'
      /\ work' # << >> => \E k \in 0 .. 2 * Chunks + 1 : Copied(k)'
      /\ work' = << >> => Reported' # 1
  <2>1. CASE i < 2 * Chunks
    <3>1. Copied(i + 1)' /\ Verified(1)' /\ Reported' = 1 /\ work' # << >>
      BY <1>1, <1>2, <2>1, CopyingImage
    <3>2. PICK k \in 0 .. 2 * Chunks + 1 : k = i + 1
      BY <1>5, <2>1
    <3>3. Copied(k)'
      BY <3>1, <3>2
    <3> QED
      BY <1>3, <1>4, <3>1, <3>3 DEF KeepsPromise, Choice
  <2>2. CASE ~(i < 2 * Chunks)
    <3>1. /\ img'[0] = img'[1] /\ Verified(0)' /\ Verified(1)'
          /\ i = 2 * Chunks => Copied(i + 1)' /\ work' # << >>
          /\ i # 2 * Chunks =>
                /\ work' = << >> /\ Reported' = 0 /\ get_selected_boot_partition' = 0
      BY <1>1, <1>2, <2>2, CopyingDone
    <3>2. KeepsPromise'
      BY <1>1, <1>3, <1>4, <1>5, <3>1 DEF KeepsPromise
    <3>3. Choice'
      BY <1>1, <1>3, <3>1 DEF Choice
    <3>4. work' # << >> => \E k \in 0 .. 2 * Chunks + 1 : Copied(k)'
      <4>1. ASSUME work' # << >> PROVE \E k \in 0 .. 2 * Chunks + 1 : Copied(k)'
        <5>1. i = 2 * Chunks /\ Copied(i + 1)'
          BY <3>1, <4>1
        <5>2. PICK k \in 0 .. 2 * Chunks + 1 : k = i + 1
          BY <1>5, <5>1
        <5> QED
          BY <5>1, <5>2
      <4> QED
        BY <4>1
    <3>5. work' = << >> => Reported' # 1
      BY <3>1
    <3> QED
      BY <3>1, <3>2, <3>3, <3>4, <3>5
  <2> QED
    BY <2>1, <2>2
<1>9. CopyPhase'
  <2>1. target' # 1 /\ running' # 0
    BY <1>1, <1>4 DEF Off
  <2> QED
    BY <1>1, <1>3, <1>4, <1>5, <1>8, <2>1 DEF CopyPhase
<1>10. (\E p \in Apps : Verified(p))'
  BY <1>5, <1>8
<1> QED
  BY <1>6, <1>7, <1>8, <1>9, <1>10 DEF OtaInv
---------------------------------------------------------------------------
(***************************************************************************)
(* Every step keeps the invariant.                                         *)
(***************************************************************************)
(* One case per action.                                                    *)
LEMMA OtaStep ==
    ASSUME CopyTables, OtaInv, [Next]_vars
    PROVE  OtaInv'
<1>1. Typed'
  BY TypedStep DEF OtaInv
<1>2. CASE \E p \in Apps, n \in 1 .. Chunks : esp_ota_begin(p, n)
  BY <1>1, <1>2, BeginKeeps
<1>3. CASE \E h \in DOMAIN open, v \in Versions \cup {Bad} : esp_ota_write(h, v)
  BY <1>1, <1>3, WriteKeeps
<1>4. CASE \E h \in DOMAIN open : esp_ota_end(h)
  BY <1>1, <1>4, EndKeeps
<1>5. CASE \E p \in Apps : esp_ota_set_boot_partition(p)
  BY <1>1, <1>5, SetBootKeeps
<1>6. CASE FlashStep
  <2>1. CASE running = Off
    BY <1>1, <1>6, <2>1, CopyFlash
  <2>2. CASE running # Off /\ OnImage(Head(work))
    BY <1>1, <1>6, <2>2, AppFlash
  <2>3. CASE running # Off /\ ~OnImage(Head(work))
    <3>1. target \in Slots \/ target = Factory
      BY <1>6, <2>3, SwitchInProgress DEF FlashStep
    <3> QED
      BY <1>1, <1>6, <2>3, <3>1, SwitchFlash, EraseFlash
  <2> QED
    BY <2>1, <2>2, <2>3
<1>7. CASE esp_restart
  BY <1>1, <1>7, HaltKeeps DEF esp_restart
<1>8. CASE PowerLoss
  BY <1>1, <1>8, PowerKeeps
<1>9. CASE selected_boot_partition
  BY <1>1, <1>9, ChooseKeeps
<1>10. CASE load_image
  BY <1>1, <1>10, LoadKeeps
<1>11. CASE UNCHANGED vars
  <2>1. UNCHANGED <<table, sec, img, running, boot, open, work, target, promised>>
    BY <1>11 DEF vars
  <2>2. /\ Reported' = Reported
        /\ get_selected_boot_partition' = get_selected_boot_partition
        /\ Verified(0)' = Verified(0) /\ Verified(1)' = Verified(1)
        /\ (\E p \in Apps : Verified(p))' <=> (\E p \in Apps : Verified(p))
    BY <2>1, Unwritten
  <2>3. /\ OtaCount' = OtaCount /\ HasFactory' = HasFactory /\ CopyApp' = CopyApp
        /\ Chunks' = Chunks /\ MaxSeq' = MaxSeq /\ Slots' = Slots /\ Apps' = Apps
    BY <2>1, Fixed
  <2>4. RunningWhole'
    <3>1. running # Off => Verified(running)'
      BY <2>1, <2>3 DEF OtaInv, RunningWhole, Verified
    <3> QED
      BY <2>1, <3>1 DEF OtaInv, RunningWhole, OnImage, Off
  <2>5. CallInProgress'
    <3>1. \A s, n : Switching(s, n, target) => Switching(s, n, target)'
      BY <2>1, <2>3 DEF Switching, ota_select_valid, Select, Unset, Torn
    <3> QED
      BY <2>1, <2>3, <3>1
      DEF OtaInv, CallInProgress, OnImage, EraseSelect, Select, Unset, Off, Factory
  <2>6. KeepsPromise' /\ Choice'
    BY <2>1, <2>2, <2>3 DEF OtaInv, KeepsPromise, Choice, Off
  <2>7. CopyPhase'
    <3>1. \A i : Copied(i) => Copied(i)'
      <4>1. \A i : CopyOp(i)' = CopyOp(i)
        BY <2>1, <2>3 DEF CopyOp, Image, Select, Unset
      <4> QED
        BY <2>1, <2>2, <2>3, <4>1 DEF Copied, Unset
    <3> QED
      BY <2>1, <2>2, <2>3, <3>1 DEF OtaInv, CopyPhase, OnImage, Off
  <2> QED
    BY <1>1, <2>2, <2>4, <2>5, <2>6, <2>7 DEF OtaInv
<1> QED
  BY <1>2, <1>3, <1>4, <1>5, <1>6, <1>7, <1>8, <1>9, <1>10, <1>11 DEF Next

(* The invariant that the next two theorems rest on.                       *)
THEOREM OtaKept ==
    ASSUME CopyTables
    PROVE  Spec => []OtaInv
<1>1. Init => OtaInv
  BY OtaInit
<1>2. OtaInv /\ [Next]_vars => OtaInv'
  BY OtaStep
<1> QED
  BY <1>1, <1>2, PTL DEF Spec

(* Wherever the power fails, in an update, in a switch or while the        *)
(* bootloader copies, there is a whole image to start.                     *)
THEOREM NeverBrickedAlways ==
    ASSUME CopyTables
    PROVE  Spec => []NeverBricked
<1>1. OtaInv => NeverBricked
  <2> SUFFICES ASSUME OtaInv PROVE NeverBricked
    OBVIOUS
  <2>1. Typed /\ table \in Tables /\ MaxSeq \in Nat /\ sec \in Sectors(MaxSeq)
    BY Device, ReportedType DEF OtaInv, Typed
  <2>2. \A s \in ValidSecs : sec[s] \in 1 .. MaxSeq
    <3>1. \A s \in Readable(sec) : s \in {0, 1}
      BY DEF Readable
    <3> QED
      BY <2>1, <3>1, ReadableCases, ReportedIs
  <2>3. ASSUME CopyApp, get_selected_boot_partition = 1 PROVE Verified(1)
    <3>1. Readable(sec) # {}
      <4>1. find_default_boot_partition # 1 /\ Factory # 1
        BY <2>1, <2>3, Copying DEF Factory
      <4> QED
        BY <2>3, <4>1, ReportedIs
    <3>2. Reported = 1
      BY <2>3, <3>1, ReportedIs
    <3> QED
      BY <2>3, <3>2 DEF OtaInv, CopyPhase
  <2>4. \E p \in Apps : Verified(p)
    BY DEF OtaInv
  <2> QED
    BY <2>2, <2>3, <2>4 DEF NeverBricked
<1> QED
  BY <1>1, OtaKept, PTL

(* The bootloader starts what esp_ota_set_boot_partition promised, or what *)
(* was promised before a switch that the power cut short.                  *)
THEOREM PromisedBoots ==
    ASSUME CopyTables
    PROVE  Spec => BootsPromised
<1> DEFINE Promised ==
             running = Off /\ running' # Off /\ (\A q \in promised : Verified(q))
               => \E q \in promised : /\ img'[running'] = img[q]
                                      /\ ~CopyApp => running' = q
<1>1. OtaInv /\ [Next]_vars => [Promised]_vars
  <2> SUFFICES ASSUME OtaInv, Next, running = Off, running' # Off,
                      \A q \in promised : Verified(q)
               PROVE  \E q \in promised : /\ img'[running'] = img[q]
                                          /\ ~CopyApp => running' = q
    OBVIOUS
  <2>1. load_image
    <3>1. ~Idle
      BY DEF Idle
    <3> QED
      BY <3>1
      DEF Next, esp_ota_begin, esp_ota_write, esp_ota_end, esp_ota_set_boot_partition, FlashStep,
          esp_restart, PowerLoss, Halt, selected_boot_partition
  <2>2. /\ Verified(Reported) => running' = Reported
        /\ CopyApp => Reported = 0 /\ running' = 0
        /\ img' = img
    BY <2>1, StartsReported DEF load_image
  <2>3. CASE Reported \in promised
    BY <2>2, <2>3
  <2>4. CASE CopyApp /\ 1 \in promised /\ img[0] = img[1]
    BY <2>2, <2>4
  <2> QED
    BY <2>3, <2>4 DEF OtaInv, KeepsPromise
<1> HIDE DEF Promised
<1>2. Spec => [][Promised]_vars
  BY <1>1, OtaKept, PTL DEF Spec
<1> QED
  BY <1>2 DEF BootsPromised, Promised
=============================================================================
