------------------------ MODULE ProvisioningProofs ------------------------
(***************************************************************************)
(* Proofs about Provisioning, for all limits and spans.  The inductive     *)
(* invariant says what holds at every point where the power may go: which  *)
(* of the four nvs_set calls of SmartConfig have been made, and how the    *)
(* flags in RAM follow those in flash.                                     *)
(*                                                                         *)
(* The second half is about NLight, which shares nothing with the settings.*)
(***************************************************************************)
EXTENDS Provisioning, NLight, TLAPS

(* How far SmartConfig has come.                                           *)
StoringInOrder ==
    /\ pc \in Boot => ~has_ssid /\ bits = {}
    /\ pc = "sc" /\ has_ssid => has_pass
    /\ pc = "sc" /\ "DONE" \in bits => has_ssid
    /\ pc \in {"ssid", "pass", "router"} => has_ssid /\ has_pass
    /\ pc \in {"pass", "router"} => ssid
    /\ pc = "router" => pass
    /\ pc \in {"sc", "ssid", "pass", "router"} => router = 0
    /\ pc = "flag" => router = 1

(* The two copies of sc_flag, and what a restart by csro_mqtt_task leaves. *)
FlagsAgree ==
    /\ router = 0 => sc_flag = 0 /\ giveups = 0
    /\ pc = "flag" => giveups = 0
    /\ giveups \in {0, 1}
    /\ giveups = 1 => sc_flag = 0
    /\ ram_sc_flag = 1 /\ pc # "restart" => sc_flag = 1
    /\ pc = "clear" => ram_sc_flag = 1

(* Flash holds a legal interval, also before it is applied.                *)
StoredInRange == pc \notin {"info", "interval"} => InRange(interval)

IInv ==
    TypeOK /\ RouterHasCredentials /\ IntervalAgrees /\ StoredInRange /\ StoringInOrder /\ FlagsAgree

(* A request cut to 16 bits is a 16-bit number.                            *)
LEMMA CutToShort == \A n \in Nat : n % ShortSpan \in 0 .. ShortSpan - 1
  BY SettingsAssumption

(* The invariant holds when a new device is switched on.                   *)
LEMMA InitIInv == Init => IInv
<1> SUFFICES ASSUME Init PROVE IInv
  OBVIOUS
<1>1. 0 \in 0 .. ShortSpan - 1 /\ 0 \in 0 .. CountSpan - 1
  BY SettingsAssumption
<1>2. TypeOK
  BY <1>1, Zenon DEF Init, TypeOK, ControlPoints, Boot
<1>3. RouterHasCredentials /\ IntervalAgrees /\ StoredInRange /\ StoringInOrder /\ FlagsAgree
  BY DEF Init, RouterHasCredentials, IntervalAgrees, StoredInRange, StoringInOrder, FlagsAgree, Boot
<1> QED
  BY <1>2, <1>3 DEF IInv

(* Every step of boot, SmartConfig and normal operation keeps it, and so   *)
(* does a power loss at any point.                                         *)
LEMMA NextIInv == IInv /\ [Next]_vars => IInv'
<1> SUFFICES ASSUME IInv, [Next]_vars PROVE IInv'
  OBVIOUS
<1> USE SettingsAssumption
<1> USE DEF IInv, TypeOK, RouterHasCredentials, IntervalAgrees, StoredInRange, StoringInOrder,
            FlagsAgree, ControlPoints, Boot, Storing, InRange, credentials, flash, ram
<1>1. CASE GetInfo
  <2>1. power_count' \in 0 .. CountSpan - 1
    BY <1>1 DEF GetInfo
  <2> QED
    BY <1>1, <2>1 DEF GetInfo
<1>2. CASE GetInterval
  BY <1>2 DEF GetInterval
<1>3. CASE GetWifiInfo
  <2>1. CASE router = 1
    <3>1. has_ssid' = TRUE /\ has_pass' = TRUE /\ pc' = "mqtt"
      BY <1>3, <2>1, Zenon DEF GetWifiInfo
    <3>2. UNCHANGED <<flash, ram_sc_flag, ram_interval, wifi_retry, bits, giveups>>
      BY <1>3, Zenon DEF GetWifiInfo
    <3> QED
      BY <1>3, <2>1, <3>1, <3>2 DEF GetWifiInfo
  <2>2. CASE router # 1
    BY <1>3, <2>2 DEF GetWifiInfo
  <2> QED
    BY <2>1, <2>2
<1>4. CASE SmartConfig
  <2>1. CASE Link
    BY <2>1 DEF Link
  <2>2. CASE LinkOver
    BY <2>2 DEF LinkOver
  <2>3. CASE GotIp
    BY <2>3 DEF GotIp
  <2>4. CASE Disconnected
    BY <2>4 DEF Disconnected
  <2>5. CASE WaitBits
    BY <2>5 DEF WaitBits
  <2> QED
    BY <1>4, <2>1, <2>2, <2>3, <2>4, <2>5 DEF SmartConfig
<1>5. CASE Store
  <2>1. CASE StoreSsid
    BY <2>1 DEF StoreSsid
  <2>2. CASE StorePass
    BY <2>2 DEF StorePass
  <2>3. CASE StoreRouter
    BY <2>3 DEF StoreRouter
  <2>4. CASE StoreFlag
    BY <2>4 DEF StoreFlag
  <2> QED
    BY <1>5, <2>1, <2>2, <2>3, <2>4 DEF Store
<1>6. CASE WifiFails
  <2>1. wifi_retry' \in 0 .. ShortSpan - 1
    BY <1>6 DEF WifiFails
  <2> QED
    BY <1>6, <2>1 DEF WifiFails
<1>7. CASE ClearFlag
  BY <1>7 DEF ClearFlag
<1>8. CASE SetInterval
  <2>1. PICK v \in Requested : InRange(v % ShortSpan) /\ interval' = v % ShortSpan
    BY <1>8 DEF SetInterval
  <2>2. interval' \in 0 .. ShortSpan - 1
    BY <2>1, CutToShort
  <2> QED
    BY <1>8, <2>2 DEF SetInterval
<1>9. CASE ApplyInterval
  BY <1>9 DEF ApplyInterval
<1>10. CASE CommandRestart
  BY <1>10 DEF CommandRestart
<1>11. CASE Restart \/ PowerLoss
  <2>1. has_ssid' \in BOOLEAN /\ has_pass' \in BOOLEAN /\ ~has_ssid'
    BY <1>11, Zenon DEF Restart, PowerLoss, Reset
  <2>2. UNCHANGED <<ssid, pass, router, sc_flag, interval, power_count, giveups>> /\ pc' = "info"
    BY <1>11, Zenon DEF Restart, PowerLoss, Reset
  <2>3. ram_sc_flag' = 0 /\ ram_interval' = 0 /\ wifi_retry' = 0 /\ bits' = {}
    BY <1>11, Zenon DEF Restart, PowerLoss, Reset
  <2> QED
    BY <2>1, <2>2, <2>3
<1>12. CASE UNCHANGED vars
  BY <1>12 DEF vars
<1> QED
  BY <1>1, <1>2, <1>3, <1>4, <1>5, <1>6, <1>7, <1>8, <1>9, <1>10, <1>11, <1>12 DEF Next

(* The invariant holds throughout.                                         *)
THEOREM Invariance == Spec => []IInv
  BY InitIInv, NextIInv, PTL DEF Spec

(* The settings and flags keep their types and widths, with 16-bit and     *)
(* 32-bit counters wrapping.                                               *)
THEOREM TypeCorrect == Spec => []TypeOK
<1>1. IInv => TypeOK
  BY DEF IInv
<1> QED
  BY <1>1, Invariance, PTL

(* No power loss during provisioning leaves a device that believes it has  *)
(* a network and has no name or password for it.                           *)
THEOREM CredentialsAlwaysThere == Spec => []RouterHasCredentials
<1>1. IInv => RouterHasCredentials
  BY DEF IInv
<1> QED
  BY <1>1, Invariance, PTL

(* Wi-Fi failures restart a device at most once in its life.               *)
THEOREM AlwaysGivesUpOnce == Spec => []GivesUpOnce
<1>1. IInv => GivesUpOnce
  BY DEF IInv, FlagsAgree, GivesUpOnce
<1> QED
  BY <1>1, Invariance, PTL

(* After boot the reporting interval is legal and is the one in flash.     *)
THEOREM IntervalAlwaysAgrees == Spec => []IntervalAgrees
<1>1. IInv => IntervalAgrees
  BY DEF IInv
<1> QED
  BY <1>1, Invariance, PTL

(* Once the router flag is set, SmartConfig is never entered again.        *)
THEOREM SmartConfigIsOver == Spec => NeverBackToSmartConfig
<1>1. IInv /\ router = 1 => pc \notin {"sc", "ssid", "pass"}
  BY DEF IInv, StoringInOrder
<1>2. router = 1 /\ [Next]_vars => (router = 1)'
  BY DEF Next, vars, credentials, flash, ram, GetInfo, GetInterval, GetWifiInfo, SmartConfig, Link,
         LinkOver, GotIp, Disconnected, WaitBits, Store, StoreSsid, StorePass, StoreRouter,
         StoreFlag, WifiFails, ClearFlag, SetInterval, ApplyInterval, CommandRestart, Restart,
         PowerLoss, Reset
<1> QED
  BY <1>1, <1>2, Invariance, PTL DEF Spec, NeverBackToSmartConfig

----------------------------------------------------------------------------
(***************************************************************************)
(* Proofs about NLight, for every number of channels, every width of the   *)
(* byte a command is cut to and every set of numbers in the commands.      *)
(***************************************************************************)

(* nlight_channel_set leaves a channel that is on or off, and one that     *)
(* names who switched it, when it is called with a source.                 *)
Told(ch) ==
    /\ ch.state = 1 => ch.on_source # 0
    /\ ch.state = 0 /\ ch.on_source # 0 => ch.off_source # 0

(* nlight_channel_set, called with a value that is a uint8_t and a source  *)
(* other than none, returns a channel and keeps Told.                      *)
LEMMA ChannelSetSound ==
    ASSUME NEW ch \in Switch, NEW value \in Nat, NEW source \in Sources \ {0}
    PROVE  /\ ChannelSet(ch, value, source) \in Switch
           /\ Told(ch) => Told(ChannelSet(ch, value, source))
  <1> DEFINE new == IF value = 2 THEN 1 - ch.state ELSE value
  <1>1. /\ ch.state \in {0, 1}
        /\ ch.on_source \in Sources /\ ch.off_source \in Sources
        /\ DOMAIN ch = {"state", "on_source", "off_source"}
        /\ ch = [state |-> ch.state, on_source |-> ch.on_source, off_source |-> ch.off_source]
    BY DEF Switch
  <1>2. CASE value > 2
    BY <1>2 DEF ChannelSet
  <1>3. CASE ~(value > 2) /\ new = 1
    <2>1. ChannelSet(ch, value, source)
            = [state |-> 1, on_source |-> source, off_source |-> ch.off_source]
      BY <1>1, <1>3 DEF ChannelSet, SwitchedOn
    <2> QED
      BY <1>1, <2>1 DEF Switch, Told, Sources
  <1>4. CASE ~(value > 2) /\ new # 1
    <2>1. new = 0
      BY <1>1, <1>4
    <2>2. ChannelSet(ch, value, source)
            = [state |-> 0, on_source |-> ch.on_source, off_source |-> source]
      BY <1>1, <1>4, <2>1 DEF ChannelSet, SwitchedOff
    <2> QED
      BY <1>1, <2>2 DEF Switch, Told, Sources
  <1> QED
    BY <1>2, <1>3, <1>4

(* The state of all channels is one of the right kind in every reachable   *)
(* state: SourceTold is proved together with it, for both rest on what     *)
(* nlight_channel_set does to one channel.                                 *)
THEOREM ChannelsAlwaysSound == LightSpec => [](LightTypeOK /\ SourceTold)
  <1>0. /\ ByteSpan \in Nat /\ ByteSpan > 2
        /\ Numbers \subseteq Nat
    BY LightAssumption
  <1>1. LightInit => LightTypeOK /\ SourceTold
    <2> SUFFICES ASSUME LightInit PROVE LightTypeOK /\ SourceTold
      OBVIOUS
    <2>1. Off \in Switch
      BY DEF Off, Switch, Sources
    <2>2. channel \in [Channels -> Switch]
      BY <2>1 DEF LightInit
    <2>3. \A c \in Channels : channel[c].state = 0 /\ channel[c].on_source = 0
      BY DEF LightInit, Off
    <2>4. LightTypeOK
      BY <2>2, Zenon DEF LightInit, LightTypeOK
    <2>5. SourceTold
      BY <2>3 DEF SourceTold
    <2> QED
      BY <2>4, <2>5
  <1>2. LightTypeOK /\ SourceTold /\ [LightNext]_lightvars
            => (LightTypeOK /\ SourceTold)'
    <2> SUFFICES ASSUME LightTypeOK, SourceTold, [LightNext]_lightvars
                 PROVE  LightTypeOK' /\ SourceTold'
      OBVIOUS
    <2>0. \A c \in Channels : channel[c] \in Switch /\ Told(channel[c])
      BY DEF LightTypeOK, SourceTold, Told
    <2> DEFINE Kept(c) == channel'[c] \in Switch /\ Told(channel'[c])
    <2>1. CASE HandleSelfMessage
      <3>1. PICK named \in SUBSET Channels : \E number \in [named -> Numbers] :
               channel' = [c \in Channels |->
                             IF c \in named
                               THEN ChannelSet(channel[c], number[c] % ByteSpan, 1)
                             ELSE channel[c]]
        BY <2>1, Zenon DEF HandleSelfMessage
      <3>2. PICK number \in [named -> Numbers] :
               channel' = [c \in Channels |->
                             IF c \in named
                               THEN ChannelSet(channel[c], number[c] % ByteSpan, 1)
                             ELSE channel[c]]
        BY <3>1
      <3>3. ASSUME NEW c \in Channels PROVE Kept(c)
        <4>1. CASE c \in named
          <5>1. number[c] % ByteSpan \in Nat
            <6>1. number[c] \in Nat
              BY <1>0, <4>1
            <6>2. ByteSpan \in Nat /\ ByteSpan > 0
              BY <1>0
            <6> QED
              BY <6>1, <6>2
          <5>2. channel'[c] = ChannelSet(channel[c], number[c] % ByteSpan, 1)
            BY <3>2, <4>1
          <5>3. 1 \in Sources \ {0}
            BY DEF Sources
          <5> QED
            BY <2>0, <5>1, <5>2, <5>3, ChannelSetSound
        <4>2. CASE c \notin named
          BY <2>0, <3>2, <4>2
        <4> QED
          BY <4>1, <4>2
      <3>4. channel' \in [Channels -> Switch]
        <4>1. channel' = [c \in Channels |-> channel'[c]]
          BY <3>2
        <4> QED
          BY <3>3, <4>1
      <3> QED
        BY <2>1, <3>3, <3>4 DEF HandleSelfMessage, LightTypeOK, SourceTold, Told
    <2>2. CASE HandleHassMessage
      <3>1. PICK c \in Channels, value \in {0, 1} :
              channel' = [channel EXCEPT ![c] = ChannelSet(@, value, 2)]
        <4>1. PICK c \in Channels, text \in {"on", "off", "o", "other"} :
                \E word \in Readings(text) :
                  channel' = [channel EXCEPT ![c] =
                                ChannelSet(@, IF word = "on" THEN 1 ELSE 0, 2)]
          BY <2>2 DEF HandleHassMessage
        <4> PICK word \in Readings(text) :
              channel' = [channel EXCEPT ![c] =
                            ChannelSet(@, IF word = "on" THEN 1 ELSE 0, 2)]
          BY <4>1
        <4>2. CASE word = "on"
          BY <4>2
        <4>3. CASE word # "on"
          BY <4>3
        <4> QED
          BY <4>2, <4>3
      <3>2. 2 \in Sources \ {0}
        BY DEF Sources
      <3>3. /\ ChannelSet(channel[c], value, 2) \in Switch
            /\ Told(ChannelSet(channel[c], value, 2))
        BY <2>0, <3>2, ChannelSetSound
      <3>4. channel' \in [Channels -> Switch]
        BY <3>1, <3>3 DEF LightTypeOK
      <3>5. ASSUME NEW d \in Channels PROVE Told(channel'[d])
        <4>1. CASE d = c
          BY <3>1, <3>3, <4>1 DEF LightTypeOK
        <4>2. CASE d # c
          <5>1. channel'[d] = channel[d]
            BY <3>1, <4>2 DEF LightTypeOK
          <5> QED
            BY <2>0, <5>1
        <4> QED
          BY <4>1, <4>2
      <3> QED
        BY <2>2, <3>4, <3>5 DEF HandleHassMessage, LightTypeOK, SourceTold, Told
    <2>3. CASE HandleGroupMessage \/ StatusTimer
      BY <2>3 DEF HandleGroupMessage, StatusTimer, LightTypeOK, SourceTold
    <2>4. CASE \/ Connect \/ Connected \/ ConnectFails
               \/ NothingDue \/ YieldEnds \/ YieldFails
      BY <2>4 DEF Connect, Connected, ConnectFails,
                  NothingDue, YieldEnds, YieldFails,
                  LightTypeOK, SourceTold
    <2>5. CASE PublishStatus \/ Acknowledged \/ PublishFails
      BY <2>5 DEF PublishStatus, Acknowledged, PublishFails,
                  LightTypeOK, SourceTold
    <2>6. CASE UNCHANGED lightvars
      BY <2>6 DEF lightvars, LightTypeOK, SourceTold
    <2> QED
      BY <2>1, <2>2, <2>3, <2>4, <2>5, <2>6 DEF LightNext, Command, Loop, Failure
  <1> QED
    BY <1>1, <1>2, PTL DEF LightSpec

---------------------------------------------------------------------------
(***************************************************************************)
(* StatusFresh speaks of the time before and after a publication.  What    *)
(* carries it across: while the message is under way, it says what the     *)
(* channels are unless a handler has given the semaphore again.            *)
(***************************************************************************)
WaitingFresh == mpc = "wait" /\ ~status_sem => content = channel

LightInv == StatusFresh /\ WaitingFresh /\ status_sem \in BOOLEAN /\ missed \in BOOLEAN

(* No change of a channel is lost between its handler and the status       *)
(* message of csro_mqtt_task, at whatever point of the task's calls the    *)
(* handler runs.                                                           *)
THEOREM StatusIsFresh == LightSpec => []StatusFresh
  <1>1. LightInit => LightInv
    BY DEF LightInit, LightInv, StatusFresh, WaitingFresh
  <1>2. LightInv /\ [LightNext]_lightvars => LightInv'
    <2> SUFFICES ASSUME LightInv, [LightNext]_lightvars PROVE LightInv'
      OBVIOUS
    <2> USE DEF LightInv, StatusFresh, WaitingFresh
    <2>1. CASE \/ HandleSelfMessage \/ HandleHassMessage
               \/ HandleGroupMessage \/ StatusTimer
      BY <2>1 DEF HandleSelfMessage, HandleHassMessage,
                  HandleGroupMessage, StatusTimer
    <2>2. CASE PublishStatus
      BY <2>2 DEF PublishStatus
    <2>3. CASE Acknowledged
      BY <2>3 DEF Acknowledged
    <2>4. CASE PublishFails
      BY <2>4 DEF PublishFails
    <2>5. CASE \/ Connect \/ Connected \/ ConnectFails
               \/ NothingDue \/ YieldEnds \/ YieldFails
      BY <2>5 DEF Connect, Connected, ConnectFails,
                  NothingDue, YieldEnds, YieldFails
    <2>6. CASE UNCHANGED lightvars
      BY <2>6 DEF lightvars
    <2> QED
      BY <2>1, <2>2, <2>3, <2>4, <2>5, <2>6 DEF LightNext, Command, Loop, Failure
  <1>3. LightInv => StatusFresh
    BY DEF LightInv
  <1> QED
    BY <1>1, <1>2, <1>3, PTL DEF LightSpec
============================================================================
