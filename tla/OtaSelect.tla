----------------------------- MODULE OtaSelect -----------------------------
(***************************************************************************)
(* Firmware update: the calls of esp_ota_ops.c that write a new image and  *)
(* choose what to boot, and the bootloader that reads the choice.          *)
(*                                                                         *)
(* The choice is kept in two flash sectors, each a sequence number with    *)
(* its CRC: number n stands for slot (n - 1) % slots, the larger valid     *)
(* number wins, and a switch overwrites the sector that does not hold it.  *)
(* A flash operation touches one sector; the power may fail before it,     *)
(* leaving it undone, or during it, leaving the sector unreadable.         *)
(***************************************************************************)
EXTENDS Integers, Sequences, FiniteSetsExt

CONSTANTS Tables,       \* the devices considered, see below
          Versions,     \* images that can be downloaded
          Shipped,      \* the image on the device when it leaves the factory
          Erased, Bad   \* contents of an image sector that belong to no version

\* A device: its partition table, its bootloader, and bounds for TLC.
ASSUME OtaAssumption ==
    /\ Shipped \in Versions
    /\ \A t \in Tables :
          /\ t.slots \in Nat \ {0} /\ t.chunks \in Nat \ {0}
          /\ t.factory \in BOOLEAN /\ t.copies \in BOOLEAN /\ t.anyOrder \in BOOLEAN
          /\ t.maxSeq \in Nat /\ t.maxHandles \in Nat
          /\ t.copies => t.slots = 2

VARIABLES table,    \* the device, as it leaves the factory
          sec,      \* the two sectors of the OTA data partition
          img,      \* the image sectors of every app partition
          running,  \* the partition whose app runs, Off in the bootloader
          boot,     \* the bootloader's choice of partition, Off before it
          open,     \* the updates begun: handle -> partition and sectors written
          work,     \* flash operations the current call still has to do
          target,   \* the partition esp_ota_set_boot_partition is setting
          promised  \* history: the partitions the next boot may start

vars == <<table, sec, img, running, boot, open, work, target, promised>>

Factory == -1
Off     == -2

\* Contents of an OTA data sector that are no sequence number.
Unset == -1
Torn  == -2

OtaCount   == table.slots       \* number of OTA slots of the partition table
HasFactory == table.factory     \* the table has a factory partition
CopyApp    == table.copies      \* CONFIG_ESP8266_BOOT_COPY_APP
AnyOrder   == table.anyOrder    \* the application calls the functions in any order
Chunks     == table.chunks      \* sectors of an image
MaxSeq     == table.maxSeq      \* bound on sequence numbers
MaxHandles == table.maxHandles  \* bound on updates open at a time

Slots == 0 .. OtaCount - 1
Apps  == Slots \cup (IF HasFactory THEN {Factory} ELSE {})

(***************************************************************************)
(* Reading the choice.                                                     *)
(***************************************************************************)
ota_select_valid(s) == sec[s] \notin {Unset, Torn}

ValidSecs == {s \in 0 .. 1 : ota_select_valid(s)}
Newest    == Max({sec[s] : s \in ValidSecs})

\* esp_image_load with ESP_IMAGE_VERIFY: the checksum covers every sector.
Verified(p) == \E v \in Versions : \A c \in 1 .. Chunks : img[p][c] = v

find_default_boot_partition == IF HasFactory THEN Factory ELSE 0

\* Fault: reports the first sector that is valid, whatever the other says.
BootPartitionOfFirst ==
    IF ValidSecs = {} THEN find_default_boot_partition
    ELSE (sec[Min(ValidSecs)] - 1) % OtaCount

esp_ota_get_boot_partition ==
    IF ValidSecs = {} THEN find_default_boot_partition
    ELSE (Newest - 1) % OtaCount

\* The bootloader's half.  Without a valid sector it starts its search at the
\* factory partition, there or not; blank sectors and no factory mean slot 0.
get_selected_boot_partition ==
    IF ValidSecs # {} THEN (Newest - 1) % OtaCount
    ELSE IF \A s \in 0 .. 1 : sec[s] = Unset THEN find_default_boot_partition
    ELSE Factory

\* Backwards from the chosen partition to the factory one, then forwards.
load_boot_image(index) ==
    LET good   == {p \in Apps : Verified(p)}
        before == {p \in good : p <= index}
    IN  IF before # {} THEN Max(before) ELSE Min(good)

\* The slot after the running one, the first slot if there is none.
esp_ota_get_next_update_partition ==
    IF running + 1 \in Slots THEN running + 1 ELSE 0

(***************************************************************************)
(* Flash operations.  What one writes into an image sector that was not    *)
(* erased is mixed with what was there.                                    *)
(***************************************************************************)
Select(s, n) == [on |-> "select", s |-> s, n |-> n]
Image(p, c, v) == [on |-> "image", p |-> p, c |-> c, v |-> v]

Programmed(old, v) == IF v = Erased \/ old \in {Erased, v} THEN v ELSE Bad

\* The effect of operation o, with n or v in place of what it writes.
Does(o, n, v) ==
    /\ sec' = IF o.on = "select" THEN [sec EXCEPT ![o.s] = n] ELSE sec
    /\ img' = IF o.on = "image" THEN [img EXCEPT ![o.p][o.c] = v] ELSE img

EraseImage(p, n) == [c \in 1 .. n |-> Image(p, c, Erased)]
EraseSelect      == <<Select(0, Unset), Select(1, Unset)>>

(***************************************************************************)
(* The device leaves the factory with one image and blank OTA data.        *)
(***************************************************************************)
Init ==
    /\ table \in Tables
    /\ sec = [s \in 0 .. 1 |-> Unset]
    /\ img = [p \in Apps |-> [c \in 1 .. Chunks |->
                  IF p = find_default_boot_partition THEN Shipped ELSE Erased]]
    /\ running = Off /\ boot = Off
    /\ open = << >>
    /\ work = << >>
    /\ target = Off
    /\ promised = {find_default_boot_partition}

Idle == running # Off /\ work = << >>

(***************************************************************************)
(* esp_ota_begin: the image size, known or not, decides how much of the    *)
(* partition is erased.  An application that keeps to the order of the     *)
(* example updates the next slot, chooses it once the update has ended,    *)
(* and restarts.                                                           *)
(***************************************************************************)
InTurn(p) == p = esp_ota_get_next_update_partition /\ promised = {running}

\* Fault: the running partition is not refused.
BeginAnywhere(p, n) ==
    /\ Idle /\ p \in Slots /\ (AnyOrder \/ InTurn(p))
    /\ Len(open) < MaxHandles
    /\ work' = EraseImage(p, n)
    /\ open' = Append(open, [part |-> p, wrote |-> 0])
    /\ UNCHANGED <<table, sec, img, running, boot, target, promised>>

esp_ota_begin(p, n) ==
    /\ Idle /\ p \in Slots /\ (AnyOrder \/ InTurn(p))
    /\ p # running
    /\ Len(open) < MaxHandles
    /\ work' = EraseImage(p, n)
    /\ open' = Append(open, [part |-> p, wrote |-> 0])
    /\ UNCHANGED <<table, sec, img, running, boot, target, promised>>

\* One sector of image v, after what the handle has written so far.
esp_ota_write(h, v) ==
    /\ Idle
    /\ open[h].wrote < Chunks
    /\ work' = <<Image(open[h].part, open[h].wrote + 1, v)>>
    /\ open' = [open EXCEPT ![h].wrote = @ + 1]
    /\ UNCHANGED <<table, sec, img, running, boot, target, promised>>

\* The handle is gone whatever the verification says.
esp_ota_end(h) ==
    /\ Idle
    /\ open' = [i \in 1 .. Len(open) - 1 |-> IF i < h THEN open[i] ELSE open[i + 1]]
    /\ UNCHANGED <<table, sec, img, running, boot, work, target, promised>>

(***************************************************************************)
(* esp_rewrite_ota_data: the least number for the slot that is not below   *)
(* the newest one, into the sector that does not hold the newest.          *)
(***************************************************************************)
SeqFor(id) ==
    IF ValidSecs = {} THEN id + 1
    ELSE Min({n \in Newest .. Newest + OtaCount - 1 : n % OtaCount = (id + 1) % OtaCount})

\* Fault: the sector with the newest number is the one overwritten.
SectorOfNewest == IF ValidSecs = {} \/ sec[0] = Newest THEN 0 ELSE 1

SectorFor ==
    CASE ValidSecs = 0 .. 1 -> IF sec[0] >= sec[1] THEN 1 ELSE 0
      [] ValidSecs = {0}    -> 1
      [] OTHER              -> 0

rewrite_ota_seq(n, s) == <<Select(s, Unset), Select(s, n)>>

\* Setting the factory partition erases the OTA data; cut short, it may leave
\* the older of two numbers, and so any app.
esp_ota_set_boot_partition(p) ==
    /\ Idle /\ (AnyOrder \/ open = << >>)
    /\ Verified(p)
    /\ IF p = Factory
         THEN work' = EraseSelect
         ELSE SeqFor(p) <= MaxSeq /\ work' = rewrite_ota_seq(SeqFor(p), SectorFor)
    /\ target' = p
    /\ promised' = IF p = Factory THEN Apps ELSE promised \cup {p}
    /\ UNCHANGED <<table, sec, img, running, boot, open>>

\* The next flash operation of the current call, the last one ending the call.
FlashStep ==
    /\ work # << >>
    /\ LET o == Head(work) IN
         IF o.on = "select" THEN Does(o, o.n, Erased)
                            ELSE Does(o, Unset, Programmed(img[o.p][o.c], o.v))
    /\ work' = Tail(work)
    /\ IF Len(work) = 1 /\ target # Off
         THEN target' = Off /\ promised' = {target}
         ELSE UNCHANGED <<target, promised>>
    /\ UNCHANGED <<table, running, boot, open>>

(***************************************************************************)
(* Restart, power loss, and the bootloader.                                *)
(***************************************************************************)
Halt == running' = Off /\ boot' = Off /\ open' = << >> /\ work' = << >> /\ target' = Off

esp_restart == Idle /\ Halt /\ UNCHANGED <<table, sec, img, promised>>

PowerLoss ==
    /\ running # Off \/ boot # Off
    /\ Halt
    /\ UNCHANGED <<table, promised>>
    /\ \/ UNCHANGED <<sec, img>>
       \/ work # << >> /\ Does(Head(work), Torn, Bad)

\* Sector by sector, erased and written, and only then the choice is erased.
esp_patition_copy_ota1_to_ota0 ==
    [i \in 1 .. 2 * Chunks |->
        Image(0, (i + 1) \div 2, IF i % 2 = 1 THEN Erased ELSE img[1][i \div 2])]
    \o EraseSelect

selected_boot_partition ==
    /\ running = Off /\ boot = Off
    /\ LET index  == get_selected_boot_partition
           copies == CopyApp /\ index = 1
       IN  /\ boot' = IF copies THEN 0 ELSE index
           /\ work' = IF copies THEN esp_patition_copy_ota1_to_ota0 ELSE << >>
    /\ UNCHANGED <<table, sec, img, running, open, target, promised>>

load_image ==
    /\ running = Off /\ boot # Off /\ work = << >>
    /\ \E p \in Apps : Verified(p)
    /\ running' = load_boot_image(boot)
    /\ promised' = {running'} \cup {p \in promised : ~Verified(p)}
    /\ UNCHANGED <<table, sec, img, boot, open, work, target>>

Next ==
    \/ \E p \in Apps, n \in 1 .. Chunks : esp_ota_begin(p, n)
    \/ \E h \in DOMAIN open, v \in Versions \cup {Bad} : esp_ota_write(h, v)
    \/ \E h \in DOMAIN open : esp_ota_end(h)
    \/ \E p \in Apps : esp_ota_set_boot_partition(p)
    \/ FlashStep
    \/ esp_restart
    \/ PowerLoss
    \/ selected_boot_partition
    \/ load_image

Spec == Init /\ [][Next]_vars

(***************************************************************************)
(* Properties.                                                             *)
(***************************************************************************)
\* "If this function returns ESP_OK, calling esp_restart() will boot the newly
\* configured app partition" (esp_ota_ops.h), and a switch to a slot that the
\* power cuts short leaves the old choice or the new one, as long as their
\* images are whole.  With CopyApp it is the image that counts.
BootsPromised ==
    [][ running = Off /\ running' # Off /\ (\A q \in promised : Verified(q))
          => \E q \in promised : /\ img'[running'] = img[q]
                                 /\ ~CopyApp => running' = q ]_vars

\* Whenever the power fails the bootloader finds a whole image to start, and
\* no number 0 is ever stored, from which the slot would be (0 - 1) % slots.
\* With CopyApp it overwrites slot 0 with slot 1 before it looks at either, so
\* there the chosen slot 1 itself has to be whole.
NeverBricked ==
    /\ \A s \in ValidSecs : sec[s] \in 1 .. MaxSeq
    /\ IF CopyApp /\ get_selected_boot_partition = 1
         THEN Verified(1)
         ELSE \E p \in Apps : Verified(p)

\* esp_ota_get_boot_partition, which re-implements the bootloader's choice
\* ("this logic matches the logic of bootloader"), names the partition the
\* bootloader starts when that holds a whole image, unless it is copied first.
ReportsBoot ==
    LET p == esp_ota_get_boot_partition IN
    Verified(p) /\ ~CopyApp => load_boot_image(get_selected_boot_partition) = p
=============================================================================
