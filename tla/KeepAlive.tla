----------------------------- MODULE KeepAlive -----------------------------
(***************************************************************************)
(* Time in an open session: the keep-alive timers of the MQTT client       *)
(* (MQTTClient.c) under the loop of csro_mqtt_task, which publishes the    *)
(* device's status when status_msg_timer fires and otherwise calls         *)
(* MQTTYield.  A broker that answers does so within MaxAnswer.  On a       *)
(* silent link nothing that the device sends arrives any more, though TCP  *)
(* still accepts it and messages for the device may still come.            *)
(*                                                                         *)
(* Time is discrete.  It passes while the client is blocked in select()    *)
(* with nothing to read, while a message handler runs (flash writes,       *)
(* debug output), in the delay of the loop and while there is no session;  *)
(* all else takes no time.  Timers count down to 0, which is "expired",    *)
(* and stay there.                                                         *)
(***************************************************************************)
EXTENDS Integers, Sequences

CONSTANTS KeepAliveInterval,  \* keepAliveInterval, 60 s
          PingTimeout,        \* CONFIG_MQTT_PING_TIMEOUT, 3 s
          CommandTimeout,     \* command_timeout_ms, 5 s
          YieldTime,          \* argument of MQTTYield, 50 ms
          DelayTime,          \* delay of the loop without an address, 1 s
          Intervals,          \* values of mqtt.interval, from 2 s to 120 s
          HandlerTime,        \* longest time that a message handler takes
          MaxAnswer,          \* environment: longest time to an answer
          MaxPushed,          \* bound: messages in the receive queue
          MaxUnanswered       \* bound: where the count unanswered_for stops

ASSUME TimeAssumption ==
    /\ {KeepAliveInterval, PingTimeout, CommandTimeout, YieldTime, DelayTime} \subseteq Nat \ {0}
    /\ Intervals \subseteq Nat \ {0} /\ Intervals # {}
    /\ HandlerTime \in Nat /\ MaxAnswer \in Nat /\ MaxPushed \in Nat /\ MaxUnanswered \in Nat
    /\ MaxAnswer < PingTimeout /\ MaxAnswer < CommandTimeout
    /\ CommandTimeout + YieldTime < KeepAliveInterval
    /\ DelayTime <= CommandTimeout

VARIABLES
    ip,                        \* the station interface has an address
    link,                      \* "up", "silent", "dead"
    isconnected,               \* c->isconnected
    mpc,                       \* "loop", "yield", "wait" (for PUBACK), "published",
                               \* "delay" (no address), "down" (no session)
    timer,                     \* local timer of MQTTYield or MQTTPublish, or of the delay
    running, ran,              \* message whose handler runs, or "none", and for how long
    last_sent, last_received, ping_wait, ping_outstanding,
    interval,                  \* mqtt.interval
    status_timer, status_sem,  \* status_msg_timer and its semaphore
    pending,                   \* requests at the broker: [kind, age]
    inbox,                     \* packets the client can read
    overran,                   \* history: a handler has outlasted the timer of the call it
                               \* ran in, and the client has not caught up with its inbox
    since_sent,                \* history: time since a packet was sent on a living connection
    silent_for,                \* history: time since the broker fell silent, the interval was
                               \* changed or the address came back, whatever was last
    unanswered_for             \* history: time since a PINGREQ without answer, as far as counted

clientvars == <<last_sent, last_received, ping_wait, ping_outstanding>>
statusvars == <<interval, status_timer, status_sem>>
handlervars == <<running, ran, overran>>
historyvars == <<since_sent, silent_for, unanswered_for>>
vars == <<ip, link, isconnected, mpc, timer, running, ran, last_sent, last_received, ping_wait,
          ping_outstanding, interval, status_timer, status_sem, pending, inbox, overran,
          since_sent, silent_for, unanswered_for>>

Requests == {"PINGREQ", "PUBLISH"}
AnswerTo(kind) == IF kind = "PINGREQ" THEN "PINGRESP" ELSE "PUBACK"

(* Messages for the device, with QoS 0 or 1.                               *)
Pushed == {"QOS0", "QOS1"}
Packets == Pushed \cup {"PINGRESP", "PUBACK"}

Init ==
    /\ ip = TRUE
    /\ link = "up" /\ isconnected = 1 /\ mpc = "loop" /\ timer = 0
    /\ running = "none" /\ ran = 0 /\ overran = FALSE
    /\ last_sent = KeepAliveInterval /\ last_received = KeepAliveInterval
    /\ ping_wait = 0 /\ ping_outstanding = FALSE
    /\ interval \in Intervals /\ status_timer = interval /\ status_sem = FALSE
    /\ pending = <<>> /\ inbox = <<>>
    /\ since_sent = 0 /\ silent_for = 0 /\ unanswered_for = 0

(* What has been sent reaches the broker unless it is silent.              *)
Deliver(queue, kind) ==
    IF link = "up" THEN Append(queue, [kind |-> kind, age |-> 0]) ELSE queue

---------------------------------------------------------------------------
(***************************************************************************)
(* cycle(): readPacket, the handler of a message, then keepalive.          *)
(***************************************************************************)
Answers == {"PINGRESP", "PUBACK"}

(* Fault: a PINGRESP is not noted.                                         *)
AfterReadDeaf(kind) ==
    [sent |-> IF kind = "QOS1" THEN KeepAliveInterval ELSE last_sent,
     received |-> IF kind \in Answers THEN KeepAliveInterval ELSE last_received,
     outstanding |-> ping_outstanding]

(* Timers when keepalive is called: after an answer has been read, or a    *)
(* message has been handled and, for QoS 1, acknowledged; "none" if the    *)
(* read timed out.                                                         *)
AfterRead(kind) ==
    [sent |-> IF kind = "QOS1" THEN KeepAliveInterval ELSE last_sent,
     received |-> IF kind \in Answers THEN KeepAliveInterval ELSE last_received,
     outstanding |-> kind # "PINGRESP" /\ ping_outstanding]

(* Fault: keepalive only looks at what it received.                        *)
DueOnSilence(c) == c.received = 0

Due(c) == c.sent = 0 \/ c.received = 0

(* PINGRESP not received in time.                                          *)
PingLost(c) == Due(c) /\ c.outstanding /\ ping_wait = 0

(* The session is given up: MQTTYield or MQTTPublish has failed and        *)
(* isconnected = 0.  What belongs to the connection is dropped here; the   *)
(* code does it when it sets up the next one, and may call MQTTYield once  *)
(* more before that (see MqttClient).                                      *)
GiveUp ==
    /\ isconnected' = 0
    /\ mpc' = "down"
    /\ timer' = 0
    /\ running' = "none" /\ ran' = 0
    /\ ping_outstanding' = FALSE
    /\ pending' = <<>> /\ inbox' = <<>>
    /\ unanswered_for' = 0
    /\ UNCHANGED <<ip, link, last_sent, last_received, ping_wait, statusvars, overran,
                   since_sent, silent_for>>

(* A cycle that has dealt with kind and goes on at next.  A PINGREQ        *)
(* restarts ping_wait, also while another one is unanswered.               *)
CycleGoesOn(kind, next) ==
    LET c == AfterRead(kind) IN
    /\ ~PingLost(c)
    /\ last_received' = c.received
    /\ IF Due(c)
         THEN /\ last_sent' = KeepAliveInterval
              /\ ping_wait' = PingTimeout
              /\ ping_outstanding' = TRUE
              /\ pending' = Deliver(pending, "PINGREQ")
         ELSE /\ last_sent' = c.sent
              /\ ping_outstanding' = c.outstanding
              /\ UNCHANGED <<ping_wait, pending>>
    /\ since_sent' = IF Due(c) \/ kind = "QOS1" THEN 0 ELSE since_sent
    /\ unanswered_for' = IF c.outstanding THEN unanswered_for ELSE 0
    /\ mpc' = next
    /\ running' = "none" /\ ran' = 0
    /\ UNCHANGED <<ip, link, isconnected, timer, statusvars, silent_for>>

(* The client has caught up when there is nothing left to read.            *)
CaughtUp(queue) == overran' = (overran /\ queue # <<>>)

Blocking == {"yield", "wait"}

(* The select() in readPacket finds data before its timer has expired.     *)
Readable ==
    /\ mpc \in Blocking
    /\ running = "none"
    /\ link # "dead"
    /\ timer > 0 /\ inbox # <<>>

(* An answer of the broker is read.                                        *)
ReadAnswer ==
    /\ Readable
    /\ Head(inbox) \in Answers
    /\ \/ /\ CycleGoesOn(Head(inbox),
                         IF mpc = "wait" /\ Head(inbox) = "PUBACK" THEN "published" ELSE mpc)
          /\ inbox' = Tail(inbox)
          /\ CaughtUp(Tail(inbox))
       \/ PingLost(AfterRead(Head(inbox))) /\ GiveUp

(* A message is read and deliverMessage calls its handler.                 *)
ReadMessage ==
    /\ Readable
    /\ Head(inbox) \in Pushed
    /\ running' = Head(inbox) /\ ran' = 0
    /\ inbox' = Tail(inbox)
    /\ last_received' = KeepAliveInterval
    /\ UNCHANGED <<ip, link, isconnected, mpc, timer, last_sent, ping_wait, ping_outstanding,
                   statusvars, pending, overran, historyvars>>

(* The handler asks for a status message, which also restarts the status   *)
(* timer (csro_mqtt_msg_trigger_status), or sets mqtt.interval, which      *)
(* restarts it with the new period (csro_mqtt_change_status_msg_timer).    *)
HandlerCommands ==
    /\ running # "none"
    /\ \/ /\ status_sem' = TRUE
          /\ status_timer' = interval
          /\ UNCHANGED <<interval, silent_for>>
       \/ /\ \E i \in Intervals : interval' = i /\ status_timer' = i
          /\ silent_for' = 0
          /\ UNCHANGED status_sem
    /\ UNCHANGED <<ip, link, isconnected, mpc, timer, clientvars, handlervars, pending, inbox,
                   since_sent, unanswered_for>>

(* sendPacket sends nothing once its timer has expired.                    *)
AckExpired == running = "QOS1" /\ timer = 0

(* The handler returns, a QoS 1 message is acknowledged, keepalive; then   *)
(* MQTTYield ends if its time is over.                                     *)
HandlerReturns ==
    /\ running # "none"
    /\ \/ /\ ~AckExpired
          /\ CycleGoesOn(running, IF mpc = "yield" /\ timer = 0 THEN "loop" ELSE mpc)
          /\ CaughtUp(inbox)
          /\ UNCHANGED inbox
       \/ PingLost(AfterRead(running)) /\ GiveUp

(* The acknowledgement of a QoS 1 message fails: the handler has outlasted *)
(* the timer of the call it ran in, or the connection is dead.             *)
AckFails ==
    /\ AckExpired \/ (running = "QOS1" /\ link = "dead")
    /\ GiveUp

---------------------------------------------------------------------------
(***************************************************************************)
(* The loop of csro_mqtt_task.                                             *)
(***************************************************************************)

(* Nothing to publish, or PUBACK received: the loop enters MQTTYield.      *)
StartYield ==
    /\ \/ mpc = "loop" /\ ip /\ ~status_sem
       \/ mpc = "published"
    /\ mpc' = "yield"
    /\ timer' = YieldTime
    /\ UNCHANGED <<ip, link, isconnected, clientvars, statusvars, handlervars, pending, inbox,
                   historyvars>>

(* The select() in MQTTYield times out, keepalive, and back to the loop.   *)
YieldEnds ==
    /\ mpc = "yield"
    /\ running = "none"
    /\ link # "dead"
    /\ timer = 0
    /\ \/ CycleGoesOn("none", "loop") /\ UNCHANGED <<inbox, overran>>
       \/ PingLost(AfterRead("none")) /\ GiveUp

(* The loop takes the semaphore; MQTTPublish sends.                        *)
PublishStatus ==
    /\ mpc = "loop"
    /\ ip
    /\ status_sem
    /\ status_sem' = FALSE
    /\ last_sent' = KeepAliveInterval
    /\ since_sent' = 0
    /\ pending' = Deliver(pending, "PUBLISH")
    /\ timer' = CommandTimeout
    /\ mpc' = "wait"
    /\ UNCHANGED <<ip, link, isconnected, last_received, ping_wait, ping_outstanding, interval,
                   status_timer, handlervars, inbox, silent_for, unanswered_for>>

(* Fault: a missing PUBACK is ignored.                                     *)
PublishTimesOutUnchecked ==
    /\ mpc = "wait" /\ running = "none" /\ timer = 0
    /\ mpc' = "published"
    /\ UNCHANGED <<ip, link, isconnected, timer, clientvars, statusvars, handlervars, pending,
                   inbox, historyvars>>

(* waitfor() has run out of time.                                          *)
PublishTimesOut ==
    /\ mpc = "wait"
    /\ running = "none"
    /\ timer = 0
    /\ GiveUp

(* A read or write on a connection that TCP has given up.                  *)
SocketError ==
    /\ mpc \in Blocking
    /\ running = "none"
    /\ link = "dead"
    /\ GiveUp

(* Top of the loop without an address: a delay, and the session is left    *)
(* as it is.                                                               *)
NoAddress ==
    /\ mpc = "loop"
    /\ ~ip
    /\ mpc' = "delay"
    /\ timer' = DelayTime
    /\ UNCHANGED <<ip, link, isconnected, clientvars, statusvars, handlervars, pending, inbox,
                   historyvars>>

DelayEnds ==
    /\ mpc = "delay"
    /\ timer = 0
    /\ mpc' = "loop"
    /\ UNCHANGED <<ip, link, isconnected, timer, clientvars, statusvars, handlervars, pending,
                   inbox, historyvars>>

(* broker_is_connected sets up a new session with a broker that answers.   *)
Reconnect ==
    /\ mpc = "down"
    /\ ip
    /\ isconnected' = 1 /\ mpc' = "loop" /\ link' = "up"
    /\ last_sent' = KeepAliveInterval /\ last_received' = KeepAliveInterval
    /\ ping_wait' = 0
    /\ overran' = FALSE
    /\ since_sent' = 0 /\ silent_for' = 0
    /\ UNCHANGED <<ip, timer, running, ran, ping_outstanding, statusvars, pending, inbox,
                   unanswered_for>>

---------------------------------------------------------------------------
(***************************************************************************)
(* The broker and the network.                                             *)
(***************************************************************************)
client == <<isconnected, mpc, timer, clientvars, statusvars, handlervars, since_sent,
            unanswered_for>>

Answer ==
    /\ link = "up"
    /\ pending # <<>>
    /\ inbox' = Append(inbox, AnswerTo(Head(pending).kind))
    /\ pending' = Tail(pending)
    /\ UNCHANGED <<ip, link, silent_for, client>>

Push ==
    /\ link # "dead" /\ mpc # "down"
    /\ Len(inbox) < MaxPushed
    /\ \E m \in Pushed : inbox' = Append(inbox, m)
    /\ UNCHANGED <<ip, link, pending, silent_for, client>>

GoSilent ==
    /\ link = "up" /\ mpc # "down"
    /\ link' = "silent"
    /\ pending' = <<>>
    /\ UNCHANGED <<ip, inbox, silent_for, client>>

(* TCP gives up: retransmissions exhausted, or a reset from the peer.      *)
Die ==
    /\ link = "silent"
    /\ link' = "dead"
    /\ UNCHANGED <<ip, pending, inbox, silent_for, client>>

(* The interface loses its address, and lwIP aborts the connection.        *)
LoseAddress ==
    /\ ip
    /\ ip' = FALSE
    /\ link' = "dead"
    /\ pending' = <<>>
    /\ silent_for' = 0
    /\ UNCHANGED <<inbox, client>>

GainAddress ==
    /\ ~ip
    /\ ip' = TRUE
    /\ UNCHANGED <<link, pending, inbox, silent_for, client>>

(* A timer that counts down and stays expired.                             *)
Less(n) == IF n > 0 THEN n - 1 ELSE 0

Older(queue) == [i \in DOMAIN queue |-> [queue[i] EXCEPT !.age = @ + 1]]

(* Who lets time pass: a handler, the delay, a select() that finds nothing *)
(* to read, a client without a session.                                    *)
TimePasses ==
    \/ mpc = "down"
    \/ mpc = "delay" /\ timer > 0
    \/ running # "none" /\ ran < HandlerTime
    \/ mpc \in Blocking /\ running = "none" /\ link # "dead" /\ inbox = <<>> /\ timer > 0

(* One unit of time.                                                       *)
Tick ==
    /\ TimePasses
    /\ \A i \in DOMAIN pending : pending[i].age < MaxAnswer
    /\ timer' = Less(timer)
    /\ last_sent' = Less(last_sent)
    /\ last_received' = Less(last_received)
    /\ ping_wait' = Less(ping_wait)
    /\ status_timer' = IF status_timer = 1 THEN interval ELSE status_timer - 1
    /\ status_sem' = (status_sem \/ status_timer = 1)
    /\ pending' = Older(pending)
    /\ ran' = IF running = "none" THEN 0 ELSE ran + 1
    /\ overran' = (overran \/ (running # "none" /\ timer' = 0))
    /\ since_sent' = IF mpc = "down" \/ link = "dead" THEN 0 ELSE since_sent + 1
    /\ silent_for' = IF link = "up" \/ mpc = "down" \/ ~ip THEN 0 ELSE silent_for + 1
    /\ unanswered_for' = IF ~ping_outstanding THEN 0
                         ELSE IF unanswered_for < MaxUnanswered THEN unanswered_for + 1
                         ELSE unanswered_for
    /\ UNCHANGED <<ip, link, isconnected, mpc, running, ping_outstanding, interval, inbox>>

Client ==
    \/ ReadAnswer \/ ReadMessage \/ HandlerCommands \/ HandlerReturns \/ AckFails
    \/ StartYield \/ YieldEnds \/ PublishStatus \/ PublishTimesOut \/ SocketError
    \/ NoAddress \/ DelayEnds \/ Reconnect

Network == Answer \/ Push \/ GoSilent \/ Die \/ LoseAddress \/ GainAddress

Next == Client \/ Network \/ Tick

Spec == Init /\ [][Next]_vars

---------------------------------------------------------------------------
(***************************************************************************)
(* Properties.                                                             *)
(***************************************************************************)

(* Timers stay within what they were set to.                               *)
TypeOK ==
    /\ ip \in BOOLEAN
    /\ link \in {"up", "silent", "dead"}
    /\ isconnected \in {0, 1}
    /\ mpc \in {"loop", "yield", "published", "wait", "delay", "down"}
    /\ timer \in 0 .. CommandTimeout + YieldTime
    /\ running \in Pushed \cup {"none"} /\ ran \in 0 .. HandlerTime
    /\ last_sent \in 0 .. KeepAliveInterval
    /\ last_received \in 0 .. KeepAliveInterval
    /\ ping_wait \in 0 .. PingTimeout
    /\ ping_outstanding \in BOOLEAN
    /\ interval \in Intervals /\ status_timer \in 1 .. interval
    /\ status_sem \in BOOLEAN
    /\ pending \in Seq([kind : Requests, age : 0 .. MaxAnswer])
    /\ inbox \in Seq(Packets)
    /\ overran \in BOOLEAN
    /\ {since_sent, silent_for, unanswered_for} \subseteq Nat

(* The client keeps the promise of its CONNECT: while the connection lives *)
(* some packet is sent every keep-alive interval, late by one MQTTYield    *)
(* and one handler at most, whatever it receives or is waiting for.        *)
SentInTime ==
    isconnected = 1 /\ link # "dead" => since_sent <= KeepAliveInterval + YieldTime + HandlerTime

(* A broker that answers within MaxAnswer is given up in one case only:    *)
(* after a message handler that took longer than what was left of the      *)
(* MQTTYield or MQTTPublish it was called from, while there was more to    *)
(* read or its message was to be acknowledged.                             *)
HealthyStaysUp == isconnected = 0 /\ link = "up" => overran

(* The session with a silent broker ends with the next status publication: *)
(* at the latest after the status interval (or the publication under way), *)
(* a command timeout, a yield and a handler in each; counted from the last *)
(* change of the interval or return of the address.                        *)
SilenceNoticed ==
    isconnected = 1 =>
        \E patience \in {interval, CommandTimeout} :
            silent_for <= patience + CommandTimeout + YieldTime + 2 * HandlerTime

(* components/mqtt/Kconfig, MQTT_PING_TIMEOUT: "If the ESP device does not *)
(* receive any ping response within MQTT_PING_TIMEOUT, it will terminate   *)
(* the MQTT connection."  A command timeout is granted on top.             *)
PingTimeoutTerminates ==
    isconnected = 1 => unanswered_for <= PingTimeout + CommandTimeout + YieldTime
============================================================================
