---------------------------- MODULE MqttClient ----------------------------
(***************************************************************************)
(* What becomes of messages: the calls of the MQTT client library          *)
(* (MQTTClient.c) over TCP connections to a broker, from connect to close, *)
(* with all three qualities of service in both directions.                 *)
(*                                                                         *)
(* A connection is a FIFO queue of packets in each direction that can      *)
(* break at any time.  A call is made of the packet that starts it and of  *)
(* one step per cycle().  Time is left to KeepAlive; here a wait, or the   *)
(* timer of a packet to be sent, may expire whenever it can.  The caller   *)
(* makes one call at a time, as csro_mqtt_task does, and asks for a clean  *)
(* session, as MQTTPacket_connectData_initializer does.                    *)
(***************************************************************************)
EXTENDS Naturals, Sequences, FiniteSets, TopicMatch

CONSTANTS
    Topics, Inbound, Outbound,  \* filters, messages of the broker, of the caller
    TopicOf,                    \* topic name of each message in Inbound
    QosOf,                      \* quality of service of each message
    Refused,                    \* filters the broker refuses
    MaxHandlers,                \* MAX_MESSAGE_HANDLERS
    MaxPacketId,                \* MAX_PACKET_ID
    Words, MaxLevels,           \* bound: levels of the filters DeliversByFilter is about
    MaxFaults                   \* bound: failures and MQTTDisconnect calls

ASSUME MqttAssumption ==
    /\ DOMAIN TopicOf = Inbound
    /\ QosOf \in [Inbound \cup Outbound -> 0 .. 2]
    /\ Inbound \cap Outbound = {}
    /\ Refused \subseteq Topics
    /\ MaxHandlers \in Nat \ {0} /\ MaxPacketId \in Nat \ {0}
    /\ MaxLevels \in Nat \ {0}
    /\ \A w \in Words : w # <<>> /\ \A i \in DOMAIN w : w[i] \notin {"/", "+", "#"}
    /\ MaxFaults \in Nat

VARIABLES
    isconnected, handlers,      \* c->isconnected, filters in c->messageHandlers
    next_packetid,              \* c->next_packetid
    call,                       \* the call in progress
    open, tobroker, toclient,   \* the TCP connection and its two streams
    session,                    \* broker: connected or not, subscriptions,
                                \* messages not acknowledged, identifiers of QoS 2 messages
    faults,                     \* failures so far
    tried, pushed,              \* messages the caller, the broker has sent
    succeeded, received,        \* history: publishes reported as SUCCESS; messages the broker took
    handled,                    \* history: calls of a handler per message, 2 for more
    acknowledged, late          \* history: messages acknowledged; read without a session

clientvars == <<isconnected, handlers, next_packetid, call>>
netvars == <<open, tobroker, toclient>>
history == <<tried, pushed, succeeded, received, handled, acknowledged, late>>
vars == <<clientvars, netvars, session, faults, history>>

NoCall == [op |-> "none"]
NoSession == [active |-> FALSE, subs |-> {}, out |-> <<>>, ids |-> {}]

Init ==
    /\ isconnected = FALSE /\ handlers = {} /\ next_packetid = 1 /\ call = NoCall
    /\ open = FALSE /\ tobroker = <<>> /\ toclient = <<>>
    /\ session = NoSession
    /\ faults = 0
    /\ tried = {} /\ pushed = {} /\ succeeded = {} /\ received = {}
    /\ handled = [m \in Inbound |-> 0] /\ acknowledged = {} /\ late = {}

---------------------------------------------------------------------------
(***************************************************************************)
(* Parts of the calls.                                                     *)
(***************************************************************************)

getNextPacketId == IF next_packetid = MaxPacketId THEN 1 ELSE next_packetid + 1

(* Fault: the session survives a call that has failed.                     *)
CloseSessionLater == UNCHANGED <<isconnected, handlers>>

MQTTCloseSession == isconnected' = FALSE /\ handlers' = {}

(* What cycle() does when it fails.                                        *)
CloseIfConnected ==
    IF isconnected THEN MQTTCloseSession ELSE UNCHANGED <<isconnected, handlers>>

(* sendPacket succeeds on a connection that has not broken: TCP takes the  *)
(* packet.                                                                 *)
sendPacket(p) == open /\ tobroker' = Append(tobroker, p)

(* sendPacket fails: the connection is broken or the timer has expired.    *)
(* When a first write was cut short the packet is complete at the broker   *)
(* all the same, because the second one starts where the first one ended   *)
(* and only runs too far.                                                  *)
SendFails(p) ==
    /\ ~open \/ faults < MaxFaults
    /\ faults' = IF open THEN faults + 1 ELSE faults
    /\ tobroker' \in {tobroker} \cup (IF open THEN {Append(tobroker, p)} ELSE {})

Waiting(op, arg) == call' = [op |-> op, arg |-> arg]

(* A call that sends p and then waits, or fails and closes the session.    *)
Request(op, arg, p) ==
    /\ \/ /\ sendPacket(p)
          /\ Waiting(op, arg)
          /\ UNCHANGED <<isconnected, handlers, faults>>
       \/ /\ SendFails(p)
          /\ MQTTCloseSession
          /\ UNCHANGED call
    /\ UNCHANGED <<open, toclient>>

(* What waitfor() looks for; MQTTYield waits for nothing.                  *)
Answer ==
    CASE call.op = "connect" -> "CONNACK"
      [] call.op = "subscribe" -> "SUBACK"
      [] call.op = "unsubscribe" -> "UNSUBACK"
      [] call.op = "publish" -> IF QosOf[call.arg] = 1 THEN "PUBACK" ELSE "PUBCOMP"
      [] OTHER -> "none"

---------------------------------------------------------------------------
(***************************************************************************)
(* The calls.                                                              *)
(***************************************************************************)

Idle == call = NoCall

ConnectPacket == [type |-> "CONNECT"]

(* A new connection, as broker_is_connected makes it: close, NetworkInit,  *)
(* NetworkConnect, MQTTClientInit and MQTTConnect, which does not close    *)
(* the session when it fails.                                              *)
MQTTConnect ==
    /\ Idle /\ ~isconnected
    /\ open' = TRUE /\ toclient' = <<>>
    /\ handlers' = {} /\ next_packetid' = 1
    /\ \/ tobroker' = <<ConnectPacket>> /\ Waiting("connect", "none") /\ UNCHANGED faults
       \/ /\ faults < MaxFaults /\ faults' = faults + 1
          /\ tobroker' \in {<<>>, <<ConnectPacket>>} /\ UNCHANGED call
    /\ session' = NoSession
    /\ UNCHANGED <<isconnected, history>>

MQTTSubscribe(t) ==
    /\ Idle /\ isconnected
    /\ next_packetid' = getNextPacketId
    /\ Request("subscribe", t, [type |-> "SUBSCRIBE", topic |-> t])
    /\ UNCHANGED <<session, tried, pushed, succeeded, received, handled, acknowledged, late>>

MQTTUnsubscribe(t) ==
    /\ Idle /\ isconnected
    /\ next_packetid' = getNextPacketId
    /\ Request("unsubscribe", t, [type |-> "UNSUBSCRIBE", topic |-> t])
    /\ UNCHANGED <<session, tried, pushed, succeeded, received, handled, acknowledged, late>>

(* QoS 0 is done when the packet is sent and uses no packet identifier.    *)
MQTTPublish(m) ==
    LET id == IF QosOf[m] = 0 THEN 0 ELSE getNextPacketId
        p == [type |-> "PUBLISH", msg |-> m, id |-> id] IN
    /\ Idle /\ isconnected
    /\ m \notin tried
    /\ tried' = tried \cup {m}
    /\ next_packetid' = IF QosOf[m] = 0 THEN next_packetid ELSE id
    /\ IF QosOf[m] = 0
         THEN /\ \/ sendPacket(p) /\ UNCHANGED <<isconnected, handlers, faults>>
                 \/ SendFails(p) /\ MQTTCloseSession
              /\ UNCHANGED <<call, open, toclient>>
         ELSE Request("publish", m, p)
    /\ UNCHANGED <<session, pushed, succeeded, received, handled, acknowledged, late>>

(* Also called without a session: the loop of csro_mqtt_task does so after *)
(* a publish that has failed.                                              *)
MQTTYield ==
    /\ Idle
    /\ Waiting("yield", "none")
    /\ UNCHANGED <<isconnected, handlers, next_packetid, netvars, session, faults, history>>

MQTTDisconnect ==
    /\ Idle /\ isconnected
    /\ faults < MaxFaults /\ faults' = faults + 1
    /\ IF open THEN tobroker' \in {tobroker, Append(tobroker, [type |-> "DISCONNECT"])}
               ELSE UNCHANGED tobroker
    /\ MQTTCloseSession
    /\ UNCHANGED <<next_packetid, call, open, toclient, session,
                   tried, pushed, succeeded, received, handled, acknowledged, late>>

---------------------------------------------------------------------------
(***************************************************************************)
(* cycle(): one packet is read and acted upon.                             *)
(***************************************************************************)

(* Fault: the handler table is full but the filter is entered all the same *)
(* as far as the caller can tell.                                          *)
SetHandlerUnchecked(t) ==
    /\ IF Cardinality(handlers) < MaxHandlers
         THEN handlers' = handlers \cup {t}
         ELSE UNCHANGED handlers
    /\ UNCHANGED isconnected

(* MQTTSetMessageHandler for a granted subscription; MQTTSubscribe fails,  *)
(* and closes the session, when there is no free slot.                     *)
SetHandler(t) ==
    IF t \in handlers \/ Cardinality(handlers) < MaxHandlers
      THEN handlers' = handlers \cup {t} /\ UNCHANGED isconnected
      ELSE MQTTCloseSession

(* Fault: a refused subscription is entered in the table.                  *)
SubscribeEndsGranted(p) == SetHandler(call.arg) /\ UNCHANGED <<next_packetid, succeeded>>

(* A refused subscription changes nothing, and is reported as SUCCESS.     *)
SubscribeEnds(p) ==
    /\ IF p.granted
         THEN SetHandler(call.arg)
         ELSE UNCHANGED <<isconnected, handlers>>
    /\ UNCHANGED <<next_packetid, succeeded>>

(* The packet that the call was waiting for: what the call does with it.   *)
(* The identifier in it is read but not compared.                          *)
CallEnds(p) ==
    /\ call' = NoCall
    /\ CASE call.op = "connect" ->
              /\ isconnected' = p.granted
              /\ UNCHANGED <<handlers, next_packetid, succeeded>>
         [] call.op = "subscribe" -> SubscribeEnds(p)
         [] call.op = "unsubscribe" ->
              /\ handlers' = handlers \ {call.arg}
              /\ UNCHANGED <<isconnected, next_packetid, succeeded>>
         [] call.op = "publish" ->
              /\ succeeded' = succeeded \cup {call.arg}
              /\ UNCHANGED <<isconnected, handlers, next_packetid>>

(* The acknowledgement that cycle() sends for a packet, if any.            *)
Reply(p) ==
    CASE p.type = "PUBLISH" /\ QosOf[p.msg] = 1 -> {[type |-> "PUBACK", msg |-> p.msg]}
      [] p.type = "PUBLISH" /\ QosOf[p.msg] = 2 -> {[type |-> "PUBREC", msg |-> p.msg]}
      [] p.type = "PUBREL" -> {[type |-> "PUBCOMP", msg |-> p.msg]}
      [] p.type = "PUBREC" -> {[type |-> "PUBREL", id |-> p.id]}
      [] OTHER -> {}

(* How often a message has been handed over once every handler has seen    *)
(* it whose filter it passes; 2 stands for more.                           *)
Handed(m) ==
    LET n == handled[m] + Cardinality({f \in handlers : Delivered(f, TopicOf[m])})
    IN  IF n > 2 THEN 2 ELSE n

(* Fault: a QoS 2 message is delivered when it comes and when it is        *)
(* released.                                                               *)
DeliverOnRelease(p) ==
    handled' = IF p.type \in {"PUBLISH", "PUBREL"}
                 THEN [handled EXCEPT ![p.msg] = Handed(p.msg)]
                 ELSE handled

(* deliverMessage calls every handler with a matching filter, if there is  *)
(* one; its result is not looked at, and a message is delivered before it  *)
(* is acknowledged.                                                        *)
deliverMessage(p) ==
    handled' = IF p.type = "PUBLISH"
                 THEN [handled EXCEPT ![p.msg] = Handed(p.msg)]
                 ELSE handled

cycle ==
    LET p == Head(toclient) IN
    /\ ~Idle /\ open /\ toclient # <<>>
    /\ toclient' = Tail(toclient)
    /\ deliverMessage(p)
    /\ late' = late \cup {m \in Inbound : p.type = "PUBLISH" /\ m = p.msg /\ ~isconnected}
    /\ IF Reply(p) = {}
         THEN /\ IF p.type = Answer
                   THEN CallEnds(p)
                   ELSE UNCHANGED <<clientvars, succeeded>>
              /\ UNCHANGED <<tobroker, faults, acknowledged>>
         ELSE \E r \in Reply(p) :
              /\ \/ /\ sendPacket(r)
                    /\ UNCHANGED <<clientvars, faults>>
                 \/ /\ SendFails(r)
                    /\ CloseIfConnected
                    /\ call' = NoCall
                    /\ UNCHANGED next_packetid
              /\ acknowledged' = acknowledged \cup
                   {m \in Inbound : p.type = "PUBLISH" /\ m = p.msg /\ tobroker' # tobroker}
              /\ UNCHANGED succeeded
    /\ UNCHANGED <<open, session, tried, pushed, received>>

(* waitfor() runs out of time, keepalive() or a read fails: the call fails *)
(* and the session is closed.  MQTTConnect just returns.                   *)
WaitFails ==
    /\ ~Idle
    /\ ~open \/ faults < MaxFaults
    /\ faults' = IF open THEN faults + 1 ELSE faults
    /\ call' = NoCall
    /\ CloseIfConnected
    /\ UNCHANGED <<next_packetid, netvars, session,
                   tried, pushed, succeeded, received, handled, acknowledged, late>>

(* The time given to MQTTYield is over.                                    *)
YieldEnds ==
    /\ call.op = "yield" /\ toclient = <<>>
    /\ call' = NoCall
    /\ UNCHANGED <<isconnected, handlers, next_packetid, netvars, session, faults, history>>

---------------------------------------------------------------------------
(***************************************************************************)
(* The broker and the network: environment, MQTT 3.1.1.                    *)
(***************************************************************************)

Push(ps) == toclient' = toclient \o ps

BrokerConnect(p) ==
    /\ p.type = "CONNECT"
    /\ \/ /\ session' = [NoSession EXCEPT !.active = TRUE]
          /\ Push(<<[type |-> "CONNACK", granted |-> TRUE]>>)
          /\ UNCHANGED faults
       \/ /\ faults < MaxFaults /\ faults' = faults + 1
          /\ Push(<<[type |-> "CONNACK", granted |-> FALSE]>>)
          /\ UNCHANGED session
    /\ UNCHANGED <<received, open>>

BrokerSubscribe(p) ==
    /\ p.type = "SUBSCRIBE"
    /\ session' = [session EXCEPT !.subs = @ \cup ({p.topic} \ Refused)]
    /\ Push(<<[type |-> "SUBACK", granted |-> p.topic \notin Refused]>>)
    /\ UNCHANGED <<received, faults, open>>

BrokerUnsubscribe(p) ==
    /\ p.type = "UNSUBSCRIBE"
    /\ session' = [session EXCEPT !.subs = @ \ {p.topic}]
    /\ Push(<<[type |-> "UNSUBACK"]>>)
    /\ UNCHANGED <<received, faults, open>>

(* A QoS 2 message under an identifier that is in use is a repetition.     *)
BrokerTakes(p) ==
    /\ p.type = "PUBLISH"
    /\ LET q == QosOf[p.msg]
           repeated == q = 2 /\ p.id \in session.ids IN
       /\ received' = IF repeated THEN received ELSE received \cup {p.msg}
       /\ session' = [session EXCEPT !.ids = IF q = 2 THEN @ \cup {p.id} ELSE @]
       /\ Push(CASE q = 0 -> <<>>
                 [] q = 1 -> <<[type |-> "PUBACK", id |-> p.id]>>
                 [] q = 2 -> <<[type |-> "PUBREC", id |-> p.id]>>)
    /\ UNCHANGED <<faults, open>>

BrokerReleases(p) ==
    /\ p.type = "PUBREL"
    /\ session' = [session EXCEPT !.ids = @ \ {p.id}]
    /\ Push(<<[type |-> "PUBCOMP", id |-> p.id]>>)
    /\ UNCHANGED <<received, faults, open>>

BrokerAcked(p) ==
    /\ p.type \in {"PUBACK", "PUBREC", "PUBCOMP"}
    /\ session' = [session EXCEPT !.out =
         IF p.type = "PUBREC"
           THEN [i \in DOMAIN @ |-> IF @[i].msg = p.msg THEN [@[i] EXCEPT !.released = TRUE]
                                                        ELSE @[i]]
           ELSE SelectSeq(@, LAMBDA o : o.msg # p.msg)]
    /\ Push(IF p.type = "PUBREC" THEN <<[type |-> "PUBREL", msg |-> p.msg]>> ELSE <<>>)
    /\ UNCHANGED <<received, faults, open>>

BrokerDisconnect(p) ==
    /\ p.type = "DISCONNECT"
    /\ session' = NoSession
    /\ open' = FALSE
    /\ UNCHANGED <<toclient, received, faults>>

BrokerReads ==
    LET p == Head(tobroker) IN
    /\ open /\ tobroker # <<>>
    /\ tobroker' = IF p.type = "DISCONNECT" THEN <<>> ELSE Tail(tobroker)
    /\ \/ BrokerConnect(p)
       \/ session.active /\ \/ BrokerSubscribe(p)
                            \/ BrokerUnsubscribe(p)
                            \/ BrokerTakes(p)
                            \/ BrokerReleases(p)
                            \/ BrokerAcked(p)
                            \/ BrokerDisconnect(p)
    /\ UNCHANGED <<clientvars, tried, pushed, succeeded, handled, acknowledged, late>>

(* A message for a subscription.  QoS 0 is not kept for later.             *)
BrokerPush(m) ==
    /\ session.active /\ open /\ m \notin pushed
    /\ \E f \in session.subs : Matches(f, TopicOf[m])
    /\ pushed' = pushed \cup {m}
    /\ session' = IF QosOf[m] = 0
                    THEN session
                    ELSE [session EXCEPT !.out = Append(@, [msg |-> m, released |-> FALSE])]
    /\ Push(<<[type |-> "PUBLISH", msg |-> m]>>)
    /\ UNCHANGED <<clientvars, open, tobroker, faults,
                   tried, succeeded, received, handled, acknowledged, late>>

(* The connection breaks.  What is on its way is lost; the end that did    *)
(* not read it yet could have read it before.                              *)
Break ==
    /\ open /\ faults < MaxFaults
    /\ faults' = faults + 1
    /\ open' = FALSE /\ tobroker' = <<>> /\ toclient' = <<>>
    /\ session' = NoSession
    /\ UNCHANGED <<clientvars, history>>

---------------------------------------------------------------------------
Call == \/ MQTTConnect \/ MQTTYield \/ MQTTDisconnect
        \/ \E t \in Topics : MQTTSubscribe(t) \/ MQTTUnsubscribe(t)
        \/ \E m \in Outbound : MQTTPublish(m)

Environment == BrokerReads \/ (\E m \in Inbound : BrokerPush(m)) \/ Break

Next == Call \/ cycle \/ WaitFails \/ YieldEnds \/ Environment

Spec == Init /\ [][Next]_vars

---------------------------------------------------------------------------
(***************************************************************************)
(* Properties.                                                             *)
(***************************************************************************)

(* A message that MQTTPublish reports as sent with QoS 1 or 2 is at the    *)
(* broker, although the call takes any PUBACK or PUBCOMP for its own       *)
(* whatever identifier it carries.                                         *)
SuccessMeansReceived == succeeded \subseteq received

(* The name of m is the parent level of a filter that ends in #.           *)
NamesParent(m) == \E f \in Topics : AtParent(f, TopicOf[m])

(* A message that the client has acknowledged, and that the broker         *)
(* therefore forgets, has been passed to a handler, although cycle() does  *)
(* not look at the result of deliverMessage and the handler of a new       *)
(* subscription is entered only after its SUBACK.  There are two           *)
(* exceptions and no other: a message read by a MQTTYield after the session*)
(* has been closed, and one sent for # without a level in its place.       *)
AcknowledgedWasHandled ==
    \A m \in acknowledged : handled[m] > 0 \/ m \in late \/ NamesParent(m)

(* No message is handled twice, whatever breaks between the handler's call *)
(* and the end of the handshake, when no two filters overlap: a command    *)
(* that toggles a light is not repeated.                                   *)
HandledAtMostOnce == \A m \in Inbound : handled[m] <= 1

(* Between two calls of an open session the filters in the handler table,  *)
(* which does not grow past its slots, are the ones the broker sends       *)
(* messages for, although a refused subscription is reported as SUCCESS.   *)
HandlersMatchSubscriptions ==
    /\ Cardinality(handlers) <= MaxHandlers
    /\ isconnected /\ Idle /\ open /\ tobroker = <<>> => handlers = session.subs

(* The meaning of filters except that # stands for one level at least.     *)
Routed(f, name) == Matches(f, name) /\ ~AtParent(f, name)

(* Filters and names of up to MaxLevels levels that deliverMessage and     *)
(* Routed decide differently.                                              *)
Misrouted ==
    LET Up(S) == UNION {[1 .. n -> S] : n \in 1 .. MaxLevels}
        Filters == {f \in Up(Words \cup {<<"+">>, <<"#">>}) :
                       \A i \in 1 .. Len(f) - 1 : f[i] # <<"#">>}
    IN  {x \in Filters \X Up(Words) : Delivered(x[1], x[2]) # Routed(x[1], x[2])}

(* A message goes to the handlers whose filter it matches and to no other, *)
(* but for a # that stands for no level: isTopicMatched, which walks       *)
(* characters, agrees with the meaning of + and # on levels, for the       *)
(* filters in the table and for all others in the correct format.          *)
DeliversByFilter ==
    /\ \A f \in handlers, m \in Inbound : Delivered(f, TopicOf[m]) = Routed(f, TopicOf[m])
    /\ Misrouted = {}
============================================================================
