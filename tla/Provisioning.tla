--------------------------- MODULE Provisioning ---------------------------
(***************************************************************************)
(* Boot, SmartConfig provisioning and the settings kept in the "system"    *)
(* namespace of flash: csro_init, csro_system_get_info,                    *)
(* csro_system_get_wifi_info, csro_system_set_interval, csro_sc.c and the  *)
(* restart that csro_mqtt_task makes after too many Wi-Fi failures.        *)
(*                                                                         *)
(* Every nvs_set is durable when it returns (see AlarmStore), so each is a *)
(* step, and the power may go between any two.  Only one task runs this    *)
(* code at a time, except that the SmartConfig library and the event loop  *)
(* set event bits while smartconfig_task waits.                            *)
(***************************************************************************)
EXTENDS Integers, FiniteSets

CONSTANTS MIN_INTERVAL, MAX_INTERVAL,
          DefaultInterval,   \* 5 in csro_system_get_info
          ShortSpan,         \* values of a uint16_t: 65536
          CountSpan,         \* values of a uint32_t
          RetryLimit,        \* 10 in csro_mqtt_task
          Requested          \* "interval" numbers that a payload may carry

ASSUME SettingsAssumption ==
    /\ MIN_INTERVAL \in Nat \ {0} /\ MAX_INTERVAL \in Nat
    /\ DefaultInterval \in MIN_INTERVAL .. MAX_INTERVAL
    /\ ShortSpan \in Nat /\ MAX_INTERVAL < ShortSpan
    /\ CountSpan \in Nat \ {0}
    /\ RetryLimit \in Nat \ {0} /\ RetryLimit < ShortSpan
    /\ Requested \subseteq Nat

VARIABLES
    ssid, pass,              \* flash: key present ?
    router, sc_flag,         \* flash; 0 while the key does not exist
    interval, power_count,   \* flash; 0 while the key does not exist
    pc,                      \* control point of the running task
    has_ssid, has_pass,      \* sysinfo.router_ssid, router_pass are set
    ram_sc_flag,             \* sysinfo.sc_flag
    ram_interval,            \* mqtt.interval
    wifi_retry,              \* static of csro_mqtt_task
    bits,                    \* wifi_event_group of csro_sc.c
    giveups                  \* history: restarts decided by csro_mqtt_task

credentials == <<ssid, pass, router>>
flash == <<ssid, pass, router, sc_flag, interval, power_count>>
ram == <<has_ssid, has_pass, ram_sc_flag, ram_interval, wifi_retry, bits>>
vars == <<ssid, pass, router, sc_flag, interval, power_count, pc, has_ssid, has_pass,
          ram_sc_flag, ram_interval, wifi_retry, bits, giveups>>

Boot == {"info", "interval", "wifi"}
Storing == {"ssid", "pass", "router", "flag"}
ControlPoints == Boot \cup Storing \cup {"sc", "mqtt", "apply", "clear", "restart"}

InRange(n) == n >= MIN_INTERVAL /\ n <= MAX_INTERVAL

Init ==
    /\ ssid = FALSE /\ pass = FALSE
    /\ router = 0 /\ sc_flag = 0 /\ interval = 0 /\ power_count = 0
    /\ giveups = 0
    /\ pc = "info"
    /\ has_ssid = FALSE /\ has_pass = FALSE
    /\ ram_sc_flag = 0 /\ ram_interval = 0 /\ wifi_retry = 0
    /\ bits = {}

---------------------------------------------------------------------------
(***************************************************************************)
(* Boot.                                                                   *)
(***************************************************************************)

(* The start of csro_system_get_info: sc_flag is read, power_count goes    *)
(* up by one, in 32 bits.                                                  *)
GetInfo ==
    /\ pc = "info"
    /\ ram_sc_flag' = sc_flag
    /\ power_count' = (power_count + 1) % CountSpan
    /\ pc' = "interval"
    /\ UNCHANGED <<credentials, sc_flag, interval, has_ssid, has_pass, ram_interval,
                   wifi_retry, bits, giveups>>

(* Fault: the default is not written back.                                 *)
GetIntervalNoStore ==
    /\ pc = "interval"
    /\ ram_interval' = IF InRange(interval) THEN interval ELSE DefaultInterval
    /\ pc' = "wifi"
    /\ UNCHANGED <<flash, has_ssid, has_pass, ram_sc_flag, wifi_retry, bits, giveups>>

(* The rest of it: a missing or impossible interval is replaced by the     *)
(* default, in RAM and in flash.                                           *)
GetInterval ==
    /\ pc = "interval"
    /\ ram_interval' = IF InRange(interval) THEN interval ELSE DefaultInterval
    /\ interval' = ram_interval'
    /\ pc' = "wifi"
    /\ UNCHANGED <<credentials, sc_flag, power_count, has_ssid, has_pass, ram_sc_flag,
                   wifi_retry, bits, giveups>>

(* csro_system_get_wifi_info, and csro_init's choice of the task to start. *)
GetWifiInfo ==
    /\ pc = "wifi"
    /\ IF router = 1
         THEN has_ssid' = ssid /\ has_pass' = pass /\ pc' = "mqtt"
         ELSE pc' = "sc" /\ UNCHANGED <<has_ssid, has_pass>>
    /\ UNCHANGED <<flash, ram_sc_flag, ram_interval, wifi_retry, bits, giveups>>

---------------------------------------------------------------------------
(***************************************************************************)
(* SmartConfig.                                                            *)
(***************************************************************************)

(* smartconfig_callback with SC_STATUS_LINK.  The code stores a constant   *)
(* name and password here, not those the phone sent.                       *)
Link ==
    /\ pc = "sc"
    /\ has_ssid' = TRUE /\ has_pass' = TRUE
    /\ UNCHANGED <<flash, pc, ram_sc_flag, ram_interval, wifi_retry, bits, giveups>>

(* With SC_STATUS_LINK_OVER, which the library reports after LINK.         *)
LinkOver ==
    /\ pc = "sc"
    /\ has_ssid
    /\ bits' = bits \cup {"DONE"}
    /\ UNCHANGED <<flash, pc, has_ssid, has_pass, ram_sc_flag, ram_interval, wifi_retry, giveups>>

(* wifi_event_handler.                                                     *)
GotIp ==
    /\ pc = "sc"
    /\ has_ssid
    /\ bits' = bits \cup {"CONNECTED"}
    /\ UNCHANGED <<flash, pc, has_ssid, has_pass, ram_sc_flag, ram_interval, wifi_retry, giveups>>

Disconnected ==
    /\ pc = "sc"
    /\ bits' = bits \ {"CONNECTED"}
    /\ UNCHANGED <<flash, pc, has_ssid, has_pass, ram_sc_flag, ram_interval, wifi_retry, giveups>>

(* Fault: CONNECTED is looked at first.                                    *)
WaitBitsConnectedFirst ==
    /\ pc = "sc"
    /\ bits # {}
    /\ pc' = IF "CONNECTED" \in bits THEN "sc" ELSE "ssid"
    /\ bits' = {}
    /\ UNCHANGED <<flash, has_ssid, has_pass, ram_sc_flag, ram_interval, wifi_retry, giveups>>

(* xEventGroupWaitBits for either bit, clearing both on exit.              *)
WaitBits ==
    /\ pc = "sc"
    /\ bits # {}
    /\ pc' = IF "DONE" \in bits THEN "ssid" ELSE "sc"
    /\ bits' = {}
    /\ UNCHANGED <<flash, has_ssid, has_pass, ram_sc_flag, ram_interval, wifi_retry, giveups>>

(* Fault: router is set before the credentials are there.                  *)
StoreSsidLast ==
    /\ pc = "ssid"
    /\ router' = 1
    /\ pc' = "pass"
    /\ UNCHANGED <<ssid, pass, sc_flag, interval, power_count, ram, giveups>>

(* The four nvs_set calls of smartconfig_task.                             *)
StoreSsid ==
    /\ pc = "ssid"
    /\ ssid' = has_ssid
    /\ pc' = "pass"
    /\ UNCHANGED <<pass, router, sc_flag, interval, power_count, ram, giveups>>

StorePass ==
    /\ pc = "pass"
    /\ pass' = has_pass
    /\ pc' = "router"
    /\ UNCHANGED <<ssid, router, sc_flag, interval, power_count, ram, giveups>>

StoreRouter ==
    /\ pc = "router"
    /\ router' = 1
    /\ pc' = "flag"
    /\ UNCHANGED <<ssid, pass, sc_flag, interval, power_count, ram, giveups>>

StoreFlag ==
    /\ pc = "flag"
    /\ sc_flag' = 1
    /\ pc' = "restart"
    /\ UNCHANGED <<credentials, interval, power_count, ram, giveups>>

---------------------------------------------------------------------------
(***************************************************************************)
(* Normal operation.                                                       *)
(***************************************************************************)

(* An iteration of csro_mqtt_task without an address.  wifi_retry is never *)
(* reset while the device runs.                                            *)
WifiFails ==
    /\ pc = "mqtt"
    /\ wifi_retry' = (wifi_retry + 1) % ShortSpan
    /\ pc' = IF ram_sc_flag = 1 /\ wifi_retry' >= RetryLimit THEN "clear" ELSE "mqtt"
    /\ UNCHANGED <<flash, has_ssid, has_pass, ram_sc_flag, ram_interval, bits, giveups>>

(* Fault: the device goes back to SmartConfig.                             *)
ClearFlagAndRouter ==
    /\ pc = "clear"
    /\ sc_flag' = 0 /\ router' = 0
    /\ giveups' = giveups + 1
    /\ pc' = "restart"
    /\ UNCHANGED <<ssid, pass, interval, power_count, ram>>

(* The first failures after provisioning: forget sc_flag and restart.      *)
ClearFlag ==
    /\ pc = "clear"
    /\ sc_flag' = 0
    /\ giveups' = giveups + 1
    /\ pc' = "restart"
    /\ UNCHANGED <<credentials, interval, power_count, ram>>

(* csro_system_set_interval: the number of the payload is cut to 16 bits   *)
(* by the call, then tested; ApplyInterval is what follows the nvs_set.    *)
SetInterval ==
    /\ pc = "mqtt"
    /\ \E v \in Requested :
         /\ InRange(v % ShortSpan)
         /\ interval' = v % ShortSpan
    /\ pc' = "apply"
    /\ UNCHANGED <<credentials, sc_flag, power_count, ram, giveups>>

ApplyInterval ==
    /\ pc = "apply"
    /\ ram_interval' = interval
    /\ pc' = "mqtt"
    /\ UNCHANGED <<flash, has_ssid, has_pass, ram_sc_flag, wifi_retry, bits, giveups>>

(* A payload with "restart": 1.                                            *)
CommandRestart ==
    /\ pc = "mqtt"
    /\ pc' = "restart"
    /\ UNCHANGED <<flash, ram, giveups>>

(* A reset: RAM is zeroed, the flash stays as it is.                       *)
Reset ==
    /\ pc' = "info"
    /\ has_ssid' = FALSE /\ has_pass' = FALSE
    /\ ram_sc_flag' = 0 /\ ram_interval' = 0 /\ wifi_retry' = 0
    /\ bits' = {}
    /\ UNCHANGED <<flash, giveups>>

(* esp_restart.                                                            *)
Restart == pc = "restart" /\ Reset

(* Power loss, anywhere.                                                   *)
PowerLoss == pc # "info" /\ Reset

SmartConfig == Link \/ LinkOver \/ GotIp \/ Disconnected \/ WaitBits

Store == StoreSsid \/ StorePass \/ StoreRouter \/ StoreFlag

Next ==
    \/ GetInfo \/ GetInterval \/ GetWifiInfo
    \/ SmartConfig \/ Store
    \/ WifiFails \/ ClearFlag \/ SetInterval \/ ApplyInterval
    \/ CommandRestart \/ Restart \/ PowerLoss

Spec == Init /\ [][Next]_vars

(* Steps of the program itself, none of which waits for anything outside   *)
(* it; and the phone, which tries until it is told that it succeeded.      *)
Progress ==
    \/ GetInfo \/ GetInterval \/ GetWifiInfo \/ WaitBits \/ Store
    \/ ClearFlag \/ ApplyInterval \/ Restart

FairSpec ==
    /\ Spec
    /\ WF_vars(Progress)
    /\ WF_vars(Link)
    /\ WF_vars(LinkOver)

---------------------------------------------------------------------------
(***************************************************************************)
(* Properties.                                                             *)
(***************************************************************************)

(* Every variable holds a value of its width.                              *)
TypeOK ==
    /\ ssid \in BOOLEAN /\ pass \in BOOLEAN
    /\ router \in {0, 1} /\ sc_flag \in {0, 1}
    /\ interval \in 0 .. ShortSpan - 1
    /\ power_count \in 0 .. CountSpan - 1
    /\ pc \in ControlPoints
    /\ has_ssid \in BOOLEAN /\ has_pass \in BOOLEAN
    /\ ram_sc_flag \in {0, 1}
    /\ ram_interval \in 0 .. ShortSpan - 1
    /\ wifi_retry \in 0 .. ShortSpan - 1
    /\ bits \in SUBSET {"CONNECTED", "DONE"}
    /\ giveups \in Nat

(* Wherever the power goes during provisioning, a device whose router flag *)
(* is set has both credentials in flash, and one that runs csro_mqtt_task  *)
(* has them in RAM: it never starts with an empty network name, from which *)
(* no restart would bring it back to SmartConfig.                          *)
RouterHasCredentials ==
    /\ router = 1 => ssid /\ pass
    /\ pc \in {"mqtt", "apply", "clear"} => has_ssid /\ has_pass

(* A device gives up and restarts at most once in its life because of      *)
(* Wi-Fi failures, whatever power losses come between.                     *)
GivesUpOnce == giveups <= 1

(* Once booted, the interval in RAM is a legal timer period and the one    *)
(* the next boot will find, although requests are truncated to 16 bits and *)
(* flash may hold nothing.                                                 *)
IntervalAgrees ==
    pc \notin {"info", "interval"} =>
        InRange(ram_interval) /\ (pc # "apply" => interval = ram_interval)

(* A device whose router flag was ever set never sets up SmartConfig       *)
(* again, over all later restarts.                                         *)
NeverBackToSmartConfig ==
    [](router = 1 => [](pc \notin {"sc", "ssid", "pass"}))

(* When power losses and commanded restarts have ended, restarts end, with *)
(* or without Wi-Fi, and the device is in normal operation for good.       *)
SettlesDown ==
    <>[][~PowerLoss /\ ~CommandRestart]_vars => <>[](pc \in {"mqtt", "apply"})
===========================================================================
