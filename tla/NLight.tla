------------------------------- MODULE NLight -------------------------------
(***************************************************************************)
(* The light channels (csro_nlight.c) and how their state gets to the      *)
(* broker: the message handlers change a channel and give                  *)
(* status_msg_semaphore, the loop of csro_mqtt_task takes it, writes the   *)
(* status message and publishes it.                                        *)
(*                                                                         *)
(* All of this is the MQTT task's, but the handlers run in the middle of   *)
(* its calls: MQTTYield, MQTTSubscribe and also MQTTPublish read whatever  *)
(* arrives while they wait for an answer.  The times of the last switching *)
(* are left out, the rest of a channel is kept.                            *)
(***************************************************************************)
EXTENDS Integers

CONSTANTS NLIGHT,      \* number of channels
          ByteSpan,    \* values of a uint8_t: 256
          Numbers      \* numbers that a payload may carry for a channel

ASSUME LightAssumption ==
    /\ NLIGHT \in Nat
    /\ ByteSpan \in Nat /\ ByteSpan > 2
    /\ Numbers \subseteq Nat

VARIABLES
    channel,      \* channel[0] .. channel[2], numbered as in the messages
    status_sem,   \* status_msg_semaphore
    mpc,          \* call that the MQTT task is in, "loop" between two
    online,       \* mqtt.client.isconnected
    content,      \* mqtt.content: the status message that was written last
    published,    \* the status that the broker has
    missed        \* history: the broker lacks a status that was not acknowledged

lightvars == <<channel, status_sem, mpc, online, content, published, missed>>

Channels == 1 .. NLIGHT

Sources == {0, 1, 2}   \* none, command topic, Home Assistant

Switch == [state : {0, 1}, on_source : Sources, off_source : Sources]

Off == [state |-> 0, on_source |-> 0, off_source |-> 0]

LightInit ==
    /\ channel = [c \in Channels |-> Off]
    /\ status_sem = FALSE
    /\ mpc = "loop"
    /\ online = FALSE
    /\ content = channel
    /\ published = channel
    /\ missed = TRUE

---------------------------------------------------------------------------
(***************************************************************************)
(* nlight_channel_set.                                                     *)
(***************************************************************************)

SwitchedOn(ch, source) ==
    [state |-> 1, on_source |-> source, off_source |-> ch.off_source]

SwitchedOff(ch, source) ==
    [state |-> 0, on_source |-> ch.on_source, off_source |-> source]

(* 0 and 1 switch, 2 toggles, other values are refused.                    *)
ChannelSet(ch, value, source) ==
    LET new == IF value = 2 THEN 1 - ch.state ELSE value IN
    IF value > 2 THEN ch
    ELSE IF new = 1 THEN SwitchedOn(ch, source)
    ELSE SwitchedOff(ch, source)

(* Handlers run while the task waits for a packet.  A session that has     *)
(* been closed has no handlers any more.                                   *)
Listening == mpc \in {"connect", "wait"} \/ (mpc = "yield" /\ online)

(* csro_nlight_handle_self_message: a payload with numbers for some of the *)
(* channels, each cut to a uint8_t by the call.  The semaphore is given    *)
(* when there was a number, accepted or not.                               *)
HandleSelfMessage ==
    /\ Listening
    /\ \E named \in (SUBSET Channels) \ {{}} : \E number \in [named -> Numbers] :
         channel' = [c \in Channels |->
                       IF c \in named THEN ChannelSet(channel[c], number[c] % ByteSpan, 1)
                       ELSE channel[c]]
    /\ status_sem' = TRUE
    /\ UNCHANGED <<mpc, online, content, published, missed>>

(***************************************************************************)
(* csro_nlight_handle_hass_message.  The payload is copied without its end *)
(* into a buffer with undefined contents, so what strcmp reads may be      *)
(* longer: "on" may be missed, and the letter "o" alone may be taken for   *)
(* either word.                                                            *)
(***************************************************************************)
Readings(text) ==
    CASE text = "on" -> {"on", "other"}
      [] text = "off" -> {"off", "other"}
      [] text = "o" -> {"on", "off", "other"}
      [] text = "other" -> {"other"}

HandleHassMessage ==
    /\ Listening
    /\ \E c \in Channels : \E text \in {"on", "off", "o", "other"} : \E word \in Readings(text) :
         /\ word # "other"
         /\ channel' = [channel EXCEPT ![c] = ChannelSet(@, IF word = "on" THEN 1 ELSE 0, 2)]
    /\ status_sem' = TRUE
    /\ UNCHANGED <<mpc, online, content, published, missed>>

(* csro_device_handle_group_message with "update": 1, and status_msg_timer *)
(* both call csro_mqtt_msg_trigger_status.                                 *)
HandleGroupMessage ==
    /\ Listening
    /\ status_sem' = TRUE
    /\ UNCHANGED <<channel, mpc, online, content, published, missed>>

(* Fault: the timer stops after a message that was not acknowledged.       *)
StatusTimerStops ==
    /\ ~status_sem
    /\ ~missed
    /\ status_sem' = TRUE
    /\ UNCHANGED <<channel, mpc, online, content, published, missed>>

StatusTimer ==
    /\ ~status_sem
    /\ status_sem' = TRUE
    /\ UNCHANGED <<channel, mpc, online, content, published, missed>>

---------------------------------------------------------------------------
(***************************************************************************)
(* The loop of csro_mqtt_task.                                             *)
(***************************************************************************)
Connect ==
    /\ mpc = "loop"
    /\ ~online
    /\ mpc' = "connect"
    /\ UNCHANGED <<channel, status_sem, online, content, published, missed>>

Connected ==
    /\ mpc = "connect"
    /\ mpc' = "loop"
    /\ online' = TRUE
    /\ UNCHANGED <<channel, status_sem, content, published, missed>>

ConnectFails ==
    /\ mpc = "connect"
    /\ mpc' = "loop"
    /\ UNCHANGED <<channel, status_sem, online, content, published, missed>>

(* xSemaphoreTake, csro_nlight_prepare_status_message, and into            *)
(* MQTTPublish.                                                            *)
PublishStatus ==
    /\ mpc = "loop"
    /\ online
    /\ status_sem
    /\ status_sem' = FALSE
    /\ content' = channel
    /\ mpc' = "wait"
    /\ UNCHANGED <<channel, online, published, missed>>

(* Fault: the semaphore is taken when the message has been acknowledged.   *)
AcknowledgedLate ==
    /\ mpc = "wait"
    /\ published' = content
    /\ missed' = FALSE
    /\ status_sem' = FALSE
    /\ mpc' = "yield"
    /\ UNCHANGED <<channel, online, content>>

(* PUBACK.                                                                 *)
Acknowledged ==
    /\ mpc = "wait"
    /\ published' = content
    /\ missed' = FALSE
    /\ mpc' = "yield"
    /\ UNCHANGED <<channel, status_sem, online, content>>

(* No PUBACK: the broker may have the message or not.  The semaphore is    *)
(* not given again.                                                        *)
PublishFails ==
    /\ mpc = "wait"
    /\ published' \in {published, content}
    /\ missed' = TRUE
    /\ online' = FALSE
    /\ mpc' = "yield"
    /\ UNCHANGED <<channel, status_sem, content>>

NothingDue ==
    /\ mpc = "loop"
    /\ online
    /\ ~status_sem
    /\ mpc' = "yield"
    /\ UNCHANGED <<channel, status_sem, online, content, published, missed>>

(* MQTTYield returns.  YieldFails also stands for the UDP task, which      *)
(* resets isconnected when it is told another broker.                      *)
YieldEnds ==
    /\ mpc = "yield"
    /\ mpc' = "loop"
    /\ UNCHANGED <<channel, status_sem, online, content, published, missed>>

YieldFails ==
    /\ mpc = "yield"
    /\ online
    /\ mpc' = "loop"
    /\ online' = FALSE
    /\ UNCHANGED <<channel, status_sem, content, published, missed>>

Command == HandleSelfMessage \/ HandleHassMessage

Failure == ConnectFails \/ PublishFails \/ YieldFails

Loop ==
    \/ Connect \/ Connected \/ PublishStatus \/ Acknowledged
    \/ NothingDue \/ YieldEnds \/ Failure

LightNext == Command \/ HandleGroupMessage \/ StatusTimer \/ Loop

LightSpec == LightInit /\ [][LightNext]_lightvars

(* The loop waits for nothing without a timeout, and the timer runs.       *)
LightFairSpec == LightSpec /\ WF_lightvars(Loop) /\ WF_lightvars(StatusTimer)

---------------------------------------------------------------------------
(***************************************************************************)
(* Properties.                                                             *)
(***************************************************************************)

(* Every variable holds a value of its kind: a channel is on or off.       *)
LightTypeOK ==
    /\ channel \in [Channels -> Switch]
    /\ content \in [Channels -> Switch]
    /\ published \in [Channels -> Switch]
    /\ status_sem \in BOOLEAN /\ online \in BOOLEAN /\ missed \in BOOLEAN
    /\ mpc \in {"loop", "connect", "wait", "yield"}

(* A change is never lost between the handler and the message: when no     *)
(* status message is due or under way, and none went without PUBACK, the   *)
(* broker has the state of all channels, although handlers run while a     *)
(* status message waits for its PUBACK.                                    *)
StatusFresh == ~status_sem /\ mpc # "wait" /\ ~missed => published = channel

(* Who switched: a channel that is on names who switched it on, and one    *)
(* that has been on and is off names who switched it off, toggles          *)
(* included.                                                               *)
SourceTold ==
    \A c \in Channels :
        /\ channel[c].state = 1 => channel[c].on_source # 0
        /\ channel[c].state = 0 /\ channel[c].on_source # 0 => channel[c].off_source # 0

(* A status that was lost is made up for: when commands and failures have  *)
(* ended, the broker ends up with the state of all channels.               *)
StatusCatchesUp == <>[][~Command /\ ~Failure]_lightvars => <>[](published = channel)
============================================================================
