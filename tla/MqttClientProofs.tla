------------------------- MODULE MqttClientProofs -------------------------
(***************************************************************************)
(* Proofs about MqttClient, for every set of filters and of messages,      *)
(* every size of the handler table and every number of failures.           *)
(*                                                                         *)
(* They rest on MqttInv.  As long as the client uses a connection there is *)
(* in both queues together exactly one packet that belongs to the call in  *)
(* progress: the request, the answer to it or the release of a QoS 2       *)
(* message.  That is why the client may take any answer of the right type  *)
(* for its own, and why the handler table and the broker's subscriptions   *)
(* differ only while the answer that brings them together is under way.    *)
(***************************************************************************)
EXTENDS MqttClient, FiniteSetTheorems, SequenceTheorems, TLAPS

(***************************************************************************)
(* Packets.  Mine are the ones that the client sends for a call of its     *)
(* own, Theirs the broker's answers to them; the others belong to messages *)
(* of the broker, or to publishes with QoS 0.                              *)
(***************************************************************************)
Mine ==
    [type : {"CONNECT", "DISCONNECT"}] \cup
    [type : {"SUBSCRIBE", "UNSUBSCRIBE"}, topic : Topics] \cup
    [type : {"PUBLISH"}, msg : {m \in Outbound : QosOf[m] # 0}, id : Nat] \cup
    [type : {"PUBREL"}, id : Nat]
Others ==
    [type : {"PUBACK", "PUBREC", "PUBCOMP"}, msg : Inbound] \cup
    [type : {"PUBLISH"}, msg : {m \in Outbound : QosOf[m] = 0}, id : {0}]
Theirs ==
    [type : {"CONNACK", "SUBACK"}, granted : BOOLEAN] \cup
    [type : {"UNSUBACK"}] \cup
    [type : {"PUBACK", "PUBREC", "PUBCOMP"}, id : Nat]
Messages == [type : {"PUBLISH", "PUBREL"}, msg : Inbound]

(* The two queues.                                                         *)
ToBroker == Seq(Mine \cup Others)
ToClient == Seq(Theirs \cup Messages)

(* The calls in progress, by what they wait for.                           *)
Calls ==
    {NoCall} \cup
    [op : {"connect", "yield"}, arg : {"none"}] \cup
    [op : {"subscribe", "unsubscribe"}, arg : Topics] \cup
    [op : {"publish"}, arg : {m \in Outbound : QosOf[m] # 0}]

(* Where in queue q packets of the set S are.                              *)
At(q, S) == {j \in DOMAIN q : q[j] \in S}

(***************************************************************************)
(* The packet for which call c waits is on its way to the broker, or the   *)
(* answer to it on its way back; h are the handlers' filters, s is the     *)
(* broker's session, r what the broker has taken.                          *)
(***************************************************************************)
Sent(p, c, h, s, r) ==
    /\ h = s.subs
    /\ \/ c.op = "connect" /\ p.type = "CONNECT" /\ h = {} /\ s.ids = {}
       \/ c.op = "subscribe" /\ p.type = "SUBSCRIBE" /\ p.topic = c.arg /\ s.ids = {}
       \/ c.op = "unsubscribe" /\ p.type = "UNSUBSCRIBE" /\ p.topic = c.arg /\ s.ids = {}
       \/ c.op = "publish" /\ p.type = "PUBLISH" /\ p.msg = c.arg /\ s.ids = {}
       \/ /\ c.op = "publish" /\ p.type = "PUBREL" /\ QosOf[c.arg] = 2
          /\ s.ids = {p.id} /\ c.arg \in r

(* The broker has done what was asked, and its answer says so.             *)
Answered(p, c, h, s, r) ==
    \/ c.op = "connect" /\ p.type = "CONNACK" /\ h = {} /\ s.subs = {} /\ s.ids = {}
    \/ /\ c.op = "subscribe" /\ p.type = "SUBACK" /\ p.granted = (c.arg \notin Refused)
       /\ s.subs = h \cup ({c.arg} \ Refused) /\ s.ids = {}
    \/ /\ c.op = "unsubscribe" /\ p.type = "UNSUBACK"
       /\ s.subs = h \ {c.arg} /\ s.ids = {}
    \/ /\ c.op = "publish" /\ c.arg \in r /\ h = s.subs
       /\ \/ p.type = "PUBACK" /\ QosOf[c.arg] = 1 /\ s.ids = {}
          \/ p.type = "PUBREC" /\ QosOf[c.arg] = 2 /\ s.ids = {p.id}
          \/ p.type = "PUBCOMP" /\ QosOf[c.arg] = 2 /\ s.ids = {}

(* Exactly one such packet while a call waits for an answer, none else.    *)
OneToken(c, h, s, r, tb, tc) ==
    \/ /\ c.op \in {"none", "yield"}
       /\ At(tb, Mine) = {} /\ At(tc, Theirs) = {}
       /\ h = s.subs /\ s.ids = {}
    \/ \E k \in Nat : At(tb, Mine) = {k} /\ At(tc, Theirs) = {} /\ Sent(tb[k], c, h, s, r)
    \/ \E k \in Nat : At(tb, Mine) = {} /\ At(tc, Theirs) = {k} /\ Answered(tc[k], c, h, s, r)

(* A message is matched by a handler when the client gets to it: by one of *)
(* now, unless the answer that changes the handlers comes first.           *)
Expected(h, s, tc) ==
    \A j \in DOMAIN tc : tc[j].type = "PUBLISH" =>
        \E f \in IF \E k \in At(tc, Theirs) : k < j THEN s.subs ELSE h :
            Matches(f, TopicOf[tc[j].msg])

(* The client uses the connection, or is about to.                         *)
Live == open /\ (isconnected \/ call.op = "connect")

(* What holds of it then.                                                  *)
SessionInv ==
    Live => /\ OneToken(call, handlers, session, received, tobroker, toclient)
            /\ Expected(handlers, session, toclient)

(* A message that is on its way to the client has not been handled.        *)
OnTheWay(tc, p, h) ==
    /\ \A j \in DOMAIN tc : tc[j].type = "PUBLISH" => tc[j].msg \in p /\ h[tc[j].msg] = 0
    /\ \A j, k \in DOMAIN tc :
          tc[j].type = "PUBLISH" /\ tc[k].type = "PUBLISH" /\ tc[j].msg = tc[k].msg => j = k
    /\ \A m \in Inbound \ p : h[m] = 0

(* MQTTConnect is called without a session, MQTTYield with one or without, *)
(* all others with one.                                                    *)
CallState ==
    /\ call.op \notin {"none", "connect", "yield"} => isconnected
    /\ call.op = "connect" => ~isconnected

(* The fields of a broker's session that the proofs are about.             *)
Shape(s) ==
    /\ s = [active |-> s.active, subs |-> s.subs, out |-> s.out, ids |-> s.ids]
    /\ s.subs \subseteq Topics /\ s.ids \subseteq Nat

(* The kinds of value.                                                     *)
Typed ==
    /\ isconnected \in BOOLEAN /\ open \in BOOLEAN
    /\ handlers \subseteq Topics /\ IsFiniteSet(handlers) /\ Cardinality(handlers) <= MaxHandlers
    /\ next_packetid \in Nat
    /\ call \in Calls
    /\ tobroker \in ToBroker /\ toclient \in ToClient
    /\ Shape(session)
    /\ pushed \subseteq Inbound
    /\ handled \in [Inbound -> Nat]

(* What the properties say.                                                *)
Kept ==
    /\ succeeded \subseteq received
    /\ acknowledged \subseteq Inbound

(* The inductive invariant.                                                *)
MqttInv == Typed /\ CallState /\ SessionInv /\ OnTheWay(toclient, pushed, handled) /\ Kept

---------------------------------------------------------------------------
(***************************************************************************)
(* Queues.                                                                 *)
(***************************************************************************)

(* A packet that is added comes last ...                                   *)
LEMMA AtAppend ==
    ASSUME NEW T, NEW q \in Seq(T), NEW p \in T, NEW S
    PROVE  /\ p \in S => At(Append(q, p), S) = At(q, S) \cup {Len(q) + 1}
           /\ p \notin S => At(Append(q, p), S) = At(q, S)
<1>1. /\ DOMAIN q = 1 .. Len(q) /\ DOMAIN Append(q, p) = 1 .. Len(q) + 1 /\ Len(q) \in Nat
      /\ \A j \in 1 .. Len(q) : Append(q, p)[j] = q[j]
      /\ Append(q, p)[Len(q) + 1] = p
  OBVIOUS
<1>2. ASSUME NEW j
      PROVE  j \in At(Append(q, p), S) <=> \/ j \in At(q, S)
                                           \/ j = Len(q) + 1 /\ p \in S
  BY <1>1 DEF At
<1> QED BY <1>2

(* ... and the others move up when the first one is read.                  *)
LEMMA AtTail ==
    ASSUME NEW T, NEW q \in Seq(T), q # <<>>, NEW S
    PROVE  /\ Head(q) = q[1] /\ 1 \in DOMAIN q
           /\ Tail(q) \in Seq(T)
           /\ \A j \in DOMAIN Tail(q) : j \in Nat /\ j + 1 \in DOMAIN q /\ Tail(q)[j] = q[j + 1]
           /\ Head(q) \in S <=> 1 \in At(q, S)
           /\ At(q, S) = {} => At(Tail(q), S) = {}
           /\ At(q, S) = {1} => At(Tail(q), S) = {}
           /\ \A k \in Nat : At(q, S) = {k} /\ k # 1 =>
                At(Tail(q), S) = {k - 1} /\ k - 1 \in Nat /\ Tail(q)[k - 1] = q[k]
<1>1. /\ DOMAIN q = 1 .. Len(q) /\ Len(q) \in Nat /\ Len(q) > 0
      /\ Tail(q) \in Seq(T)
      /\ DOMAIN Tail(q) = 1 .. Len(q) - 1
      /\ \A j \in 1 .. Len(q) - 1 : Tail(q)[j] = q[j + 1]
      /\ Head(q) = q[1]
  OBVIOUS
<1>2. \A j \in DOMAIN Tail(q) : j \in Nat /\ j + 1 \in DOMAIN q /\ Tail(q)[j] = q[j + 1]
  BY <1>1
<1>3. 1 \in DOMAIN q
  BY <1>1
<1>4. Head(q) \in S <=> 1 \in At(q, S)
  BY <1>1, <1>3 DEF At
<1>5. \A j \in At(Tail(q), S) : j \in Nat /\ j # 0 /\ j + 1 \in At(q, S)
  BY <1>1, <1>2 DEF At
<1>6. At(q, S) = {} => At(Tail(q), S) = {}
  BY <1>5
<1>7. At(q, S) = {1} => At(Tail(q), S) = {}
  BY <1>5
<1>8. ASSUME NEW k \in Nat, At(q, S) = {k}, k # 1
      PROVE  At(Tail(q), S) = {k - 1} /\ k - 1 \in Nat /\ Tail(q)[k - 1] = q[k]
  <2>1. k \in DOMAIN q /\ q[k] \in S
    BY <1>8 DEF At
  <2>2. k - 1 \in 1 .. Len(q) - 1 /\ (k - 1) + 1 = k
    BY <1>1, <1>8, <2>1
  <2>3. Tail(q)[k - 1] = q[k]
    BY <1>1, <2>2
  <2>4. k - 1 \in At(Tail(q), S)
    BY <1>1, <2>1, <2>2, <2>3 DEF At
  <2>5. \A j \in At(Tail(q), S) : j = k - 1
    BY <1>5, <1>8
  <2> QED BY <2>2, <2>3, <2>4, <2>5
<1> QED BY <1>1, <1>2, <1>3, <1>4, <1>6, <1>7, <1>8

(* What becomes of packets when one is added.                              *)
LEMMA Appended ==
    ASSUME NEW T, NEW q \in Seq(T), NEW p \in T
    PROVE  /\ Append(q, p) \in Seq(T) /\ Append(q, p) # q
           /\ DOMAIN Append(q, p) = DOMAIN q \cup {Len(q) + 1}
           /\ Len(q) + 1 \notin DOMAIN q /\ Len(q) + 1 \in Nat
           /\ \A j \in DOMAIN q : j \in Nat /\ j < Len(q) + 1 /\ Append(q, p)[j] = q[j]
           /\ Append(q, p)[Len(q) + 1] = p
<1>1. Len(q) \in Nat /\ DOMAIN q = 1 .. Len(q) /\ Append(q, p) \in Seq(T)
  OBVIOUS
<1>2. Len(Append(q, p)) = Len(q) + 1 /\ DOMAIN Append(q, p) = 1 .. Len(q) + 1
  OBVIOUS
<1>3. \A j \in 1 .. Len(q) : Append(q, p)[j] = q[j]
  OBVIOUS
<1>4. Append(q, p)[Len(q) + 1] = p
  OBVIOUS
<1>5. Append(q, p) # q
  <2>1. SUFFICES ASSUME Append(q, p) = q
                 PROVE  FALSE
    OBVIOUS
  <2>2. Len(q) = Len(q) + 1
    BY <1>2, <2>1
  <2> QED BY <1>1, <2>2
<1>6. 1 .. Len(q) + 1 = (1 .. Len(q)) \cup {Len(q) + 1} /\ Len(q) + 1 \notin 1 .. Len(q)
  BY <1>1
<1>7. \A j \in 1 .. Len(q) : j \in Nat /\ j < Len(q) + 1
  BY <1>1
<1>8. DOMAIN Append(q, p) = DOMAIN q \cup {Len(q) + 1} /\ Len(q) + 1 \notin DOMAIN q
  BY <1>1, <1>2, <1>6, Zenon
<1>9. \A j \in DOMAIN q : j \in Nat /\ j < Len(q) + 1 /\ Append(q, p)[j] = q[j]
  BY <1>1, <1>3, <1>7
<1>10. Len(q) + 1 \in Nat
  BY <1>1
<1> QED BY <1>1, <1>4, <1>5, <1>8, <1>9, <1>10

(* Pushing one packet, or none.                                            *)
LEMMA Pushed ==
    ASSUME NEW T, NEW q \in Seq(T), NEW p \in T
    PROVE  q \o <<p>> = Append(q, p) /\ q \o <<>> = q
<1>1. q \o <<p>> = Append(q, p)
  BY AppendIsConcat
<1>2. q \o <<>> = q
  BY ConcatEmptySeq
<1> QED BY <1>1, <1>2

---------------------------------------------------------------------------
(***************************************************************************)
(* Packets, by their type.                                                 *)
(***************************************************************************)

(* What a packet for the client is, by its type ...                        *)
LEMMA FromBroker ==
    ASSUME NEW p \in Theirs \cup Messages
    PROVE  /\ p \in Theirs <=> p.type \notin {"PUBLISH", "PUBREL"}
           /\ p.type \in {"CONNACK", "SUBACK", "UNSUBACK", "PUBACK", "PUBREC", "PUBCOMP",
                          "PUBLISH", "PUBREL"}
           /\ p.type \in {"PUBLISH", "PUBREL"} => p.msg \in Inbound
           /\ p.type = "PUBREC" => p.id \in Nat
           /\ p.type = "CONNACK" => p.granted \in BOOLEAN
<1>1. CASE p \in [type : {"CONNACK", "SUBACK"}, granted : BOOLEAN]
  BY <1>1 DEF Theirs
<1>2. CASE p \in [type : {"UNSUBACK"}]
  BY <1>2 DEF Theirs
<1>3. CASE p \in [type : {"PUBACK", "PUBREC", "PUBCOMP"}, id : Nat]
  BY <1>3 DEF Theirs
<1>4. CASE p \in Messages
  <2>1. p.type \in {"PUBLISH", "PUBREL"} /\ p.msg \in Inbound
    BY <1>4 DEF Messages
  <2>2. p \notin Theirs
    BY <2>1 DEF Theirs
  <2> QED BY <2>1, <2>2
<1> QED BY <1>1, <1>2, <1>3, <1>4 DEF Theirs

(* ... and one for the broker.                                             *)
LEMMA FromClient ==
    ASSUME NEW p \in Mine \cup Others
    PROVE  /\ p.type = "PUBLISH" => (p \in Mine <=> QosOf[p.msg] # 0)
           /\ p.type # "PUBLISH" => (p \in Mine <=> p.type \notin {"PUBACK", "PUBREC", "PUBCOMP"})
           /\ p.type \in {"CONNECT", "DISCONNECT", "SUBSCRIBE", "UNSUBSCRIBE", "PUBLISH",
                          "PUBREL", "PUBACK", "PUBREC", "PUBCOMP"}
           /\ p.type \in {"SUBSCRIBE", "UNSUBSCRIBE"} => p.topic \in Topics
           /\ p.type = "PUBLISH" => p.msg \in Outbound /\ p.id \in Nat
           /\ p.type = "PUBREL" => p.id \in Nat
           /\ p.type \in {"PUBACK", "PUBREC", "PUBCOMP"} => p.msg \in Inbound
<1>1. CASE p \in [type : {"CONNECT", "DISCONNECT"}]
  BY <1>1 DEF Mine
<1>2. CASE p \in [type : {"SUBSCRIBE", "UNSUBSCRIBE"}, topic : Topics]
  BY <1>2 DEF Mine
<1>3. CASE p \in [type : {"PUBLISH"}, msg : {m \in Outbound : QosOf[m] # 0}, id : Nat]
  BY <1>3 DEF Mine
<1>4. CASE p \in [type : {"PUBREL"}, id : Nat]
  BY <1>4 DEF Mine
<1>5. CASE p \in [type : {"PUBACK", "PUBREC", "PUBCOMP"}, msg : Inbound]
  <2>1. p.type \in {"PUBACK", "PUBREC", "PUBCOMP"} /\ p.msg \in Inbound
    BY <1>5
  <2>2. p \notin Mine
    BY <2>1 DEF Mine
  <2> QED BY <2>1, <2>2
<1>6. CASE p \in [type : {"PUBLISH"}, msg : {m \in Outbound : QosOf[m] = 0}, id : {0}]
  <2>1. p.type = "PUBLISH" /\ p.msg \in Outbound /\ QosOf[p.msg] = 0 /\ p.id = 0
    BY <1>6
  <2>2. p \notin Mine
    BY <2>1 DEF Mine
  <2> QED BY <2>1, <2>2
<1> QED BY <1>1, <1>2, <1>3, <1>4, <1>5, <1>6 DEF Mine, Others

(* The packets that the actions build.                                     *)
LEMMA Built ==
    /\ [type |-> "CONNECT"] \in Mine /\ [type |-> "DISCONNECT"] \in Mine
    /\ \A t \in Topics : /\ [type |-> "SUBSCRIBE", topic |-> t] \in Mine
                         /\ [type |-> "UNSUBSCRIBE", topic |-> t] \in Mine
    /\ \A m \in Outbound, i \in Nat :
          /\ QosOf[m] # 0 => [type |-> "PUBLISH", msg |-> m, id |-> i] \in Mine
          /\ QosOf[m] = 0 => [type |-> "PUBLISH", msg |-> m, id |-> 0] \in Others
    /\ \A i \in Nat : /\ [type |-> "PUBREL", id |-> i] \in Mine
                      /\ [type |-> "PUBACK", id |-> i] \in Theirs
                      /\ [type |-> "PUBREC", id |-> i] \in Theirs
                      /\ [type |-> "PUBCOMP", id |-> i] \in Theirs
    /\ \A m \in Inbound : /\ [type |-> "PUBACK", msg |-> m] \in Others
                          /\ [type |-> "PUBREC", msg |-> m] \in Others
                          /\ [type |-> "PUBCOMP", msg |-> m] \in Others
                          /\ [type |-> "PUBLISH", msg |-> m] \in Messages
                          /\ [type |-> "PUBREL", msg |-> m] \in Messages
    /\ \A g \in BOOLEAN : /\ [type |-> "CONNACK", granted |-> g] \in Theirs
                          /\ [type |-> "SUBACK", granted |-> g] \in Theirs
    /\ [type |-> "UNSUBACK"] \in Theirs
<1>1. [type |-> "CONNECT"] \in Mine /\ [type |-> "DISCONNECT"] \in Mine
  BY DEF Mine
<1>2. ASSUME NEW t \in Topics
      PROVE  /\ [type |-> "SUBSCRIBE", topic |-> t] \in Mine
             /\ [type |-> "UNSUBSCRIBE", topic |-> t] \in Mine
  BY DEF Mine
<1>3. ASSUME NEW m \in Outbound, NEW i \in Nat
      PROVE  /\ QosOf[m] # 0 => [type |-> "PUBLISH", msg |-> m, id |-> i] \in Mine
             /\ QosOf[m] = 0 => [type |-> "PUBLISH", msg |-> m, id |-> 0] \in Others
  BY DEF Mine, Others
<1>4. ASSUME NEW i \in Nat
      PROVE  [type |-> "PUBREL", id |-> i] \in Mine
  BY DEF Mine
<1>5. ASSUME NEW i \in Nat
      PROVE  /\ [type |-> "PUBACK", id |-> i] \in Theirs
             /\ [type |-> "PUBREC", id |-> i] \in Theirs
             /\ [type |-> "PUBCOMP", id |-> i] \in Theirs
  BY DEF Theirs
<1>6. ASSUME NEW m \in Inbound
      PROVE  /\ [type |-> "PUBACK", msg |-> m] \in Others
             /\ [type |-> "PUBREC", msg |-> m] \in Others
             /\ [type |-> "PUBCOMP", msg |-> m] \in Others
  BY DEF Others
<1>7. ASSUME NEW m \in Inbound
      PROVE  /\ [type |-> "PUBLISH", msg |-> m] \in Messages
             /\ [type |-> "PUBREL", msg |-> m] \in Messages
  BY DEF Messages
<1>8. ASSUME NEW g \in BOOLEAN
      PROVE  /\ [type |-> "CONNACK", granted |-> g] \in Theirs
             /\ [type |-> "SUBACK", granted |-> g] \in Theirs
  BY DEF Theirs
<1>9. [type |-> "UNSUBACK"] \in Theirs
  BY DEF Theirs
<1> QED BY <1>1, <1>2, <1>3, <1>4, <1>5, <1>6, <1>7, <1>8, <1>9

(* A packet of a message is not an answer.                                 *)
LEMMA Apart ==
    /\ \A p \in Messages : p \notin Theirs
    /\ \A p \in Others : p \notin Mine
<1>1. ASSUME NEW p \in Messages PROVE p \notin Theirs
  <2>1. p.type \in {"PUBLISH", "PUBREL"}
    BY DEF Messages
  <2> QED BY <2>1, FromBroker
<1>2. ASSUME NEW p \in Others PROVE p \notin Mine
  <2>1. \/ p.type \in {"PUBACK", "PUBREC", "PUBCOMP"}
        \/ p.type = "PUBLISH" /\ QosOf[p.msg] = 0
    BY DEF Others
  <2>2. p \in Mine \cup Others
    OBVIOUS
  <2>3. CASE p.type \in {"PUBACK", "PUBREC", "PUBCOMP"}
    <3>1. p.type # "PUBLISH"
      BY <2>3
    <3> QED BY <2>2, <2>3, <3>1, FromClient
  <2>4. CASE p.type = "PUBLISH" /\ QosOf[p.msg] = 0
    BY <2>2, <2>4, FromClient
  <2> QED BY <2>1, <2>3, <2>4
<1> QED BY <1>1, <1>2

(* The calls, by their names.                                              *)
LEMMA CallKinds ==
    ASSUME NEW c \in Calls
    PROVE  /\ c.op \in {"none", "connect", "yield", "subscribe", "unsubscribe", "publish"}
           /\ c.op = "none" <=> c = NoCall
           /\ c.op \in {"subscribe", "unsubscribe"} => c.arg \in Topics
           /\ c.op = "publish" => c.arg \in Outbound /\ QosOf[c.arg] \in {1, 2}
<1>1. CASE c = NoCall
  BY <1>1 DEF NoCall
<1>2. CASE c \in [op : {"connect", "yield"}, arg : {"none"}]
  BY <1>2 DEF NoCall
<1>3. CASE c \in [op : {"subscribe", "unsubscribe"}, arg : Topics]
  BY <1>3 DEF NoCall
<1>4. CASE c \in [op : {"publish"}, arg : {m \in Outbound : QosOf[m] # 0}]
  <2>1. c.op = "publish" /\ c.arg \in Outbound /\ QosOf[c.arg] # 0
    BY <1>4
  <2>2. QosOf[c.arg] \in 0 .. 2
    BY <2>1, MqttAssumption
  <2>3. QosOf[c.arg] \in {1, 2}
    BY <2>1, <2>2
  <2> QED BY <2>1, <2>3 DEF NoCall
<1> QED BY <1>1, <1>2, <1>3, <1>4 DEF Calls

---------------------------------------------------------------------------
(***************************************************************************)
(* The packet of the call in progress.                                     *)
(***************************************************************************)
(* No packet while no call waits; and the other way round.                 *)
LEMMA NoToken ==
    ASSUME NEW c, NEW h, NEW s, NEW r, NEW tb, NEW tc, OneToken(c, h, s, r, tb, tc)
    PROVE  /\ c.op \in {"none", "yield"} => At(tb, Mine) = {} /\ At(tc, Theirs) = {}
           /\ c.op \in {"none", "yield"} => h = s.subs /\ s.ids = {}
           /\ At(tb, Mine) = {} /\ At(tc, Theirs) = {} => c.op \in {"none", "yield"}
           /\ At(tc, Theirs) = {} => h = s.subs
<1>1. CASE /\ c.op \in {"none", "yield"}
           /\ At(tb, Mine) = {} /\ At(tc, Theirs) = {}
           /\ h = s.subs /\ s.ids = {}
  BY <1>1
<1>2. CASE \E k \in Nat : At(tb, Mine) = {k} /\ At(tc, Theirs) = {} /\ Sent(tb[k], c, h, s, r)
  <2>1. PICK k \in Nat : At(tb, Mine) = {k} /\ At(tc, Theirs) = {} /\ Sent(tb[k], c, h, s, r)
    BY <1>2
  <2>2. c.op \notin {"none", "yield"} /\ h = s.subs
    BY <2>1 DEF Sent
  <2>3. At(tb, Mine) # {}
    BY <2>1
  <2> QED BY <2>2, <2>3
<1>3. CASE \E k \in Nat : At(tb, Mine) = {} /\ At(tc, Theirs) = {k}
                          /\ Answered(tc[k], c, h, s, r)
  <2>1. PICK k \in Nat : At(tb, Mine) = {} /\ At(tc, Theirs) = {k} /\ Answered(tc[k], c, h, s, r)
    BY <1>3
  <2>2. c.op \notin {"none", "yield"}
    BY <2>1 DEF Answered
  <2>3. At(tc, Theirs) # {}
    BY <2>1
  <2> QED BY <2>2, <2>3
<1> QED BY <1>1, <1>2, <1>3 DEF OneToken

(* What OneToken looks at of a session: its filters and its identifiers;   *)
(* and a message that is taken stays taken.                                *)
LEMMA TokenStays ==
    ASSUME NEW c, NEW h, NEW s, NEW r, NEW tb, NEW tc, OneToken(c, h, s, r, tb, tc),
           NEW s2, s2.subs = s.subs, s2.ids = s.ids, NEW r2, r \subseteq r2
    PROVE  OneToken(c, h, s2, r2, tb, tc)
<1>1. ASSUME NEW p, Sent(p, c, h, s, r) PROVE Sent(p, c, h, s2, r2)
  BY <1>1 DEF Sent
<1>2. ASSUME NEW p, Answered(p, c, h, s, r) PROVE Answered(p, c, h, s2, r2)
  BY <1>2 DEF Answered
<1> QED BY <1>1, <1>2 DEF OneToken

(* A packet that belongs to no call joins one of the queues.               *)
LEMMA TokenAppend ==
    ASSUME NEW c, NEW h, NEW s, NEW r, NEW tb \in ToBroker, NEW tc \in ToClient,
           OneToken(c, h, s, r, tb, tc)
    PROVE  /\ \A p \in Others : OneToken(c, h, s, r, Append(tb, p), tc)
           /\ \A p \in Messages : OneToken(c, h, s, r, tb, Append(tc, p))
<1>1. ASSUME NEW p \in Others PROVE OneToken(c, h, s, r, Append(tb, p), tc)
  <2>1. At(Append(tb, p), Mine) = At(tb, Mine)
    BY Apart, AtAppend DEF ToBroker
  <2>2. \A k \in At(tb, Mine) : Append(tb, p)[k] = tb[k]
    BY Appended DEF ToBroker, At
  <2> QED BY <2>1, <2>2 DEF OneToken
<1>2. ASSUME NEW p \in Messages PROVE OneToken(c, h, s, r, tb, Append(tc, p))
  <2>1. At(Append(tc, p), Theirs) = At(tc, Theirs)
    BY Apart, AtAppend DEF ToClient
  <2>2. \A k \in At(tc, Theirs) : Append(tc, p)[k] = tc[k]
    BY Appended DEF ToClient, At
  <2> QED BY <2>1, <2>2 DEF OneToken
<1> QED BY <1>1, <1>2

(* A packet that belongs to no call is read.                               *)
LEMMA TokenTail ==
    ASSUME NEW c, NEW h, NEW s, NEW r, NEW tb \in ToBroker, NEW tc \in ToClient,
           OneToken(c, h, s, r, tb, tc)
    PROVE  /\ tb # <<>> /\ Head(tb) \notin Mine => OneToken(c, h, s, r, Tail(tb), tc)
           /\ tc # <<>> /\ Head(tc) \notin Theirs => OneToken(c, h, s, r, tb, Tail(tc))
<1>1. ASSUME tb # <<>>, Head(tb) \notin Mine PROVE OneToken(c, h, s, r, Tail(tb), tc)
  <2>1. 1 \notin At(tb, Mine)
    BY <1>1, AtTail DEF ToBroker
  <2>2. At(tb, Mine) = {} => At(Tail(tb), Mine) = {}
    BY <1>1, AtTail DEF ToBroker
  <2>3. \A k \in Nat : At(tb, Mine) = {k} =>
           At(Tail(tb), Mine) = {k - 1} /\ k - 1 \in Nat /\ Tail(tb)[k - 1] = tb[k]
    <3>1. SUFFICES ASSUME NEW k \in Nat, At(tb, Mine) = {k}
                   PROVE  /\ At(Tail(tb), Mine) = {k - 1} /\ k - 1 \in Nat
                          /\ Tail(tb)[k - 1] = tb[k]
      OBVIOUS
    <3>2. k # 1
      BY <2>1, <3>1
    <3> QED BY <1>1, <3>1, <3>2, AtTail DEF ToBroker
  <2>4. CASE \E k \in Nat : At(tb, Mine) = {k} /\ At(tc, Theirs) = {} /\ Sent(tb[k], c, h, s, r)
    <3>1. PICK k \in Nat : At(tb, Mine) = {k} /\ At(tc, Theirs) = {} /\ Sent(tb[k], c, h, s, r)
      BY <2>4
    <3>2. At(Tail(tb), Mine) = {k - 1} /\ k - 1 \in Nat /\ Sent(Tail(tb)[k - 1], c, h, s, r)
      BY <2>3, <3>1
    <3> QED BY <3>1, <3>2 DEF OneToken
  <2> QED BY <2>2, <2>4 DEF OneToken
<1>2. ASSUME tc # <<>>, Head(tc) \notin Theirs PROVE OneToken(c, h, s, r, tb, Tail(tc))
  <2>1. 1 \notin At(tc, Theirs)
    BY <1>2, AtTail DEF ToClient
  <2>2. At(tc, Theirs) = {} => At(Tail(tc), Theirs) = {}
    BY <1>2, AtTail DEF ToClient
  <2>3. \A k \in Nat : At(tc, Theirs) = {k} =>
           At(Tail(tc), Theirs) = {k - 1} /\ k - 1 \in Nat /\ Tail(tc)[k - 1] = tc[k]
    <3>1. SUFFICES ASSUME NEW k \in Nat, At(tc, Theirs) = {k}
                   PROVE  /\ At(Tail(tc), Theirs) = {k - 1} /\ k - 1 \in Nat
                          /\ Tail(tc)[k - 1] = tc[k]
      OBVIOUS
    <3>2. k # 1
      BY <2>1, <3>1
    <3> QED BY <1>2, <3>1, <3>2, AtTail DEF ToClient
  <2>4. CASE \E k \in Nat : At(tb, Mine) = {} /\ At(tc, Theirs) = {k}
                            /\ Answered(tc[k], c, h, s, r)
    <3>1. PICK k \in Nat : /\ At(tb, Mine) = {} /\ At(tc, Theirs) = {k}
                           /\ Answered(tc[k], c, h, s, r)
      BY <2>4
    <3>2. /\ At(Tail(tc), Theirs) = {k - 1} /\ k - 1 \in Nat
          /\ Answered(Tail(tc)[k - 1], c, h, s, r)
      BY <2>3, <3>1
    <3> QED BY <3>1, <3>2 DEF OneToken
  <2> QED BY <2>2, <2>4 DEF OneToken
<1> QED BY <1>1, <1>2

(* A call sends its packet.                                                *)
LEMMA TokenStarts ==
    ASSUME NEW c, NEW h, NEW s, NEW r, NEW tb \in ToBroker, NEW tc,
           At(tb, Mine) = {}, At(tc, Theirs) = {},
           NEW p \in Mine, Sent(p, c, h, s, r)
    PROVE  OneToken(c, h, s, r, Append(tb, p), tc)
<1>1. At(Append(tb, p), Mine) = {Len(tb) + 1}
  BY AtAppend DEF ToBroker
<1>2. Append(tb, p)[Len(tb) + 1] = p /\ Len(tb) + 1 \in Nat
  BY Appended DEF ToBroker
<1> QED BY <1>1, <1>2 DEF OneToken

(* The broker reads it ...                                                 *)
LEMMA TokenRead ==
    ASSUME NEW c, NEW h, NEW s, NEW r, NEW tb \in ToBroker, NEW tc,
           OneToken(c, h, s, r, tb, tc), tb # <<>>, Head(tb) \in Mine
    PROVE  /\ Sent(Head(tb), c, h, s, r)
           /\ At(Tail(tb), Mine) = {} /\ At(tc, Theirs) = {}
<1>1. 1 \in At(tb, Mine) /\ Head(tb) = tb[1]
  BY AtTail DEF ToBroker
<1>2. PICK k \in Nat : At(tb, Mine) = {k} /\ At(tc, Theirs) = {} /\ Sent(tb[k], c, h, s, r)
  BY <1>1 DEF OneToken
<1>3. k = 1
  BY <1>1, <1>2
<1> QED BY <1>1, <1>2, <1>3, AtTail DEF ToBroker

(* ... and answers.                                                        *)
LEMMA TokenAnswered ==
    ASSUME NEW c, NEW h, NEW s, NEW r, NEW tb, NEW tc \in ToClient,
           At(tb, Mine) = {}, At(tc, Theirs) = {},
           NEW p \in Theirs, Answered(p, c, h, s, r)
    PROVE  OneToken(c, h, s, r, tb, Append(tc, p))
<1>1. At(Append(tc, p), Theirs) = {Len(tc) + 1}
  BY AtAppend DEF ToClient
<1>2. Append(tc, p)[Len(tc) + 1] = p /\ Len(tc) + 1 \in Nat
  BY Appended DEF ToClient
<1> QED BY <1>1, <1>2 DEF OneToken

(* The client reads the answer.                                            *)
LEMMA TokenBack ==
    ASSUME NEW c, NEW h, NEW s, NEW r, NEW tb, NEW tc \in ToClient,
           OneToken(c, h, s, r, tb, tc), tc # <<>>, Head(tc) \in Theirs
    PROVE  /\ Answered(Head(tc), c, h, s, r)
           /\ At(tb, Mine) = {} /\ At(tc, Theirs) = {1} /\ At(Tail(tc), Theirs) = {}
<1>1. 1 \in At(tc, Theirs) /\ Head(tc) = tc[1]
  BY AtTail DEF ToClient
<1>2. PICK k \in Nat : At(tb, Mine) = {} /\ At(tc, Theirs) = {k} /\ Answered(tc[k], c, h, s, r)
  BY <1>1 DEF OneToken
<1>3. k = 1
  BY <1>1, <1>2
<1> QED BY <1>1, <1>2, <1>3, AtTail DEF ToClient

---------------------------------------------------------------------------
(***************************************************************************)
(* The messages that are expected.                                         *)
(***************************************************************************)

(* What Expected looks at: the filters on both sides, and those of the     *)
(* broker only behind an answer.                                           *)
LEMMA ExpectedStays ==
    ASSUME NEW h, NEW s, NEW tc, Expected(h, s, tc), NEW s2,
           s2.subs = s.subs \/ At(tc, Theirs) = {}
    PROVE  Expected(h, s2, tc)
BY DEF Expected

(* A packet that is no message is pushed behind an empty way.              *)
LEMMA ExpectedAnswer ==
    ASSUME NEW h, NEW s, NEW tc \in ToClient, Expected(h, s, tc),
           NEW p \in Theirs \cup Messages, p.type # "PUBLISH"
    PROVE  Expected(h, s, Append(tc, p))
<1> DEFINE q == Append(tc, p)
           n == Len(tc) + 1
<1>1. /\ DOMAIN q = DOMAIN tc \cup {n} /\ n \notin DOMAIN tc /\ n \in Nat
      /\ \A j \in DOMAIN tc : j \in Nat /\ j < n /\ q[j] = tc[j]
      /\ q[n] = p
  BY Appended DEF ToClient
<1> HIDE DEF q, n
<1>2. SUFFICES ASSUME NEW j \in DOMAIN q, q[j].type = "PUBLISH"
               PROVE  \E f \in IF \E k \in At(q, Theirs) : k < j THEN s.subs ELSE h :
                         Matches(f, TopicOf[q[j].msg])
  BY DEF Expected, q
<1>3. j \in DOMAIN tc /\ q[j] = tc[j]
  BY <1>1, <1>2
<1>4. (\E k \in At(q, Theirs) : k < j) <=> (\E k \in At(tc, Theirs) : k < j)
  <2>1. ASSUME NEW k \in At(q, Theirs), k < j PROVE k \in At(tc, Theirs)
    BY <1>1, <1>3, <2>1 DEF At
  <2>2. ASSUME NEW k \in At(tc, Theirs) PROVE k \in At(q, Theirs)
    BY <1>1 DEF At
  <2> QED BY <2>1, <2>2
<1>5. \E f \in IF \E k \in At(tc, Theirs) : k < j THEN s.subs ELSE h :
         Matches(f, TopicOf[tc[j].msg])
  BY <1>2, <1>3 DEF Expected
<1> QED BY <1>3, <1>4, <1>5

(* A message for one of the broker's filters is pushed.                    *)
LEMMA ExpectedPush ==
    ASSUME NEW h, NEW s, NEW tc \in ToClient, Expected(h, s, tc),
           At(tc, Theirs) = {} => h = s.subs,
           NEW p \in Messages, NEW g \in s.subs, Matches(g, TopicOf[p.msg])
    PROVE  Expected(h, s, Append(tc, p))
<1> DEFINE q == Append(tc, p)
           n == Len(tc) + 1
<1>1. /\ DOMAIN q = DOMAIN tc \cup {n} /\ n \notin DOMAIN tc /\ n \in Nat
      /\ \A j \in DOMAIN tc : j \in Nat /\ j < n /\ q[j] = tc[j]
      /\ q[n] = p
  BY Appended DEF ToClient
<1>2. At(q, Theirs) = At(tc, Theirs)
  BY Apart, AtAppend DEF ToClient
<1> HIDE DEF q, n
<1>3. SUFFICES ASSUME NEW j \in DOMAIN q, q[j].type = "PUBLISH"
               PROVE  \E f \in IF \E k \in At(tc, Theirs) : k < j THEN s.subs ELSE h :
                         Matches(f, TopicOf[q[j].msg])
  BY <1>2 DEF Expected, q
<1>4. CASE j \in DOMAIN tc
  BY <1>1, <1>3, <1>4 DEF Expected
<1>5. CASE j = n
  <2>1. g \in IF \E k \in At(tc, Theirs) : k < j THEN s.subs ELSE h
    <3>1. CASE At(tc, Theirs) = {}
      BY <3>1
    <3>2. CASE At(tc, Theirs) # {}
      <4>1. PICK k \in At(tc, Theirs) : TRUE
        BY <3>2
      <4>2. k < j
        BY <1>1, <1>5, <4>1 DEF At
      <4> QED BY <4>1, <4>2
    <3> QED BY <3>1, <3>2
  <2>2. q[j].msg = p.msg
    BY <1>1, <1>5
  <2> QED BY <2>1, <2>2
<1> QED BY <1>1, <1>3, <1>4, <1>5

(* The client reads a packet that is no answer ...                         *)
LEMMA ExpectedTail ==
    ASSUME NEW h, NEW s, NEW tc \in ToClient, Expected(h, s, tc),
           tc # <<>>, Head(tc) \notin Theirs
    PROVE  Expected(h, s, Tail(tc))
<1> DEFINE q == Tail(tc)
<1>1. /\ \A j \in DOMAIN q : j \in Nat /\ j + 1 \in DOMAIN tc /\ q[j] = tc[j + 1]
      /\ 1 \notin At(tc, Theirs) /\ q \in ToClient
  BY AtTail DEF ToClient
<1>2. \A k \in At(tc, Theirs) : k \in Nat /\ k # 1 /\ k - 1 \in DOMAIN q /\ q[k - 1] = tc[k]
  <2>1. Len(tc) \in Nat /\ DOMAIN tc = 1 .. Len(tc) /\ DOMAIN q = 1 .. Len(tc) - 1
    BY DEF ToClient
  <2>2. SUFFICES ASSUME NEW k \in At(tc, Theirs)
                 PROVE  k \in Nat /\ k # 1 /\ k - 1 \in DOMAIN q /\ q[k - 1] = tc[k]
    OBVIOUS
  <2>3. k \in DOMAIN tc /\ k # 1
    BY <1>1 DEF At
  <2>4. k \in Nat /\ k - 1 \in DOMAIN q /\ (k - 1) + 1 = k
    BY <2>1, <2>3
  <2> QED BY <1>1, <2>3, <2>4
<1> HIDE DEF q
<1>3. SUFFICES ASSUME NEW j \in DOMAIN q, q[j].type = "PUBLISH"
               PROVE  \E f \in IF \E k \in At(q, Theirs) : k < j THEN s.subs ELSE h :
                         Matches(f, TopicOf[q[j].msg])
  BY DEF Expected, q
<1>4. j \in Nat /\ j + 1 \in DOMAIN tc /\ q[j] = tc[j + 1]
  BY <1>1
<1>5. (\E k \in At(q, Theirs) : k < j) <=> (\E k \in At(tc, Theirs) : k < j + 1)
  <2>1. ASSUME NEW k \in At(q, Theirs), k < j
        PROVE  k + 1 \in At(tc, Theirs) /\ k + 1 < j + 1
    BY <1>1, <1>4, <2>1 DEF At
  <2>2. ASSUME NEW k \in At(tc, Theirs), k < j + 1
        PROVE  k - 1 \in At(q, Theirs) /\ k - 1 < j
    BY <1>2, <1>4, <2>2 DEF At
  <2> QED BY <2>1, <2>2
<1>6. \E f \in IF \E k \in At(tc, Theirs) : k < j + 1 THEN s.subs ELSE h :
         Matches(f, TopicOf[tc[j + 1].msg])
  BY <1>3, <1>4 DEF Expected
<1> QED BY <1>4, <1>5, <1>6

(* ... or the answer: from now on the filters are the broker's.            *)
LEMMA ExpectedBack ==
    ASSUME NEW h, NEW s, NEW tc \in ToClient, Expected(h, s, tc),
           tc # <<>>, Head(tc) \in Theirs, At(Tail(tc), Theirs) = {},
           NEW s2
    PROVE  Expected(s.subs, s2, Tail(tc))
<1> DEFINE q == Tail(tc)
<1>1. /\ \A j \in DOMAIN q : j \in Nat /\ j + 1 \in DOMAIN tc /\ q[j] = tc[j + 1]
      /\ 1 \in At(tc, Theirs)
  BY AtTail DEF ToClient
<1>0. \A j \in DOMAIN q : 1 < j + 1
  BY DEF ToClient
<1> HIDE DEF q
<1>2. SUFFICES ASSUME NEW j \in DOMAIN q, q[j].type = "PUBLISH"
               PROVE  \E f \in s.subs : Matches(f, TopicOf[q[j].msg])
  BY DEF Expected, q
<1>3. j \in Nat /\ j + 1 \in DOMAIN tc /\ q[j] = tc[j + 1] /\ 1 < j + 1
  BY <1>1, <1>0
<1>4. \E f \in IF \E k \in At(tc, Theirs) : k < j + 1 THEN s.subs ELSE h :
         Matches(f, TopicOf[tc[j + 1].msg])
  BY <1>2, <1>3 DEF Expected
<1> QED BY <1>1, <1>3, <1>4

(* The next message that the client reads is matched by a handler.         *)
LEMMA ExpectedNow ==
    ASSUME NEW h, NEW s, NEW tc \in ToClient, Expected(h, s, tc),
           tc # <<>>, Head(tc).type = "PUBLISH"
    PROVE  \E f \in h : Matches(f, TopicOf[Head(tc).msg])
<1>1. 1 \in DOMAIN tc /\ Head(tc) = tc[1]
  BY AtTail DEF ToClient
<1>2. ~ \E k \in At(tc, Theirs) : k < 1
  <2>1. DOMAIN tc = 1 .. Len(tc) /\ Len(tc) \in Nat
    BY DEF ToClient
  <2> QED BY <2>1 DEF At
<1>3. \E f \in IF \E k \in At(tc, Theirs) : k < 1 THEN s.subs ELSE h :
         Matches(f, TopicOf[tc[1].msg])
  BY <1>1 DEF Expected
<1> QED BY <1>1, <1>2, <1>3

---------------------------------------------------------------------------
(***************************************************************************)
(* The messages on their way to the client.                                *)
(***************************************************************************)

(* A packet that is no message joins the queue ...                         *)
LEMMA WayAppend ==
    ASSUME NEW tc \in ToClient, NEW P, NEW H, OnTheWay(tc, P, H),
           NEW p \in Theirs \cup Messages, p.type # "PUBLISH"
    PROVE  OnTheWay(Append(tc, p), P, H)
<1> DEFINE q == Append(tc, p)
           n == Len(tc) + 1
<1>1. /\ DOMAIN q = DOMAIN tc \cup {n}
      /\ \A j \in DOMAIN tc : q[j] = tc[j]
      /\ q[n] = p
  BY Appended DEF ToClient
<1> HIDE DEF q, n
<1>2. \A j \in DOMAIN q : q[j].type = "PUBLISH" => j \in DOMAIN tc /\ q[j] = tc[j]
  BY <1>1
<1>3. OnTheWay(q, P, H)
  BY <1>2 DEF OnTheWay
<1> QED BY <1>3 DEF q

(* ... or a message that has not been sent before.                         *)
LEMMA WayPush ==
    ASSUME NEW tc \in ToClient, NEW P, NEW H, OnTheWay(tc, P, H),
           NEW m \in Inbound \ P, NEW p \in Theirs \cup Messages, p.msg = m
    PROVE  OnTheWay(Append(tc, p), P \cup {m}, H)
<1> DEFINE q == Append(tc, p)
           n == Len(tc) + 1
<1>1. /\ DOMAIN q = DOMAIN tc \cup {n}
      /\ \A j \in DOMAIN tc : q[j] = tc[j]
      /\ q[n] = p
  BY Appended DEF ToClient
<1> HIDE DEF q, n
<1>2. \A j \in DOMAIN q : j = n \/ (j \in DOMAIN tc /\ q[j] = tc[j])
  BY <1>1
<1>3. H[m] = 0
  BY DEF OnTheWay
<1>4. \A j \in DOMAIN q : q[j].type = "PUBLISH" => q[j].msg \in P \cup {m} /\ H[q[j].msg] = 0
  BY <1>1, <1>2, <1>3 DEF OnTheWay
<1>5. ASSUME NEW j \in DOMAIN q, NEW k \in DOMAIN q,
             q[j].type = "PUBLISH", q[k].type = "PUBLISH", q[j].msg = q[k].msg
      PROVE  j = k
  <2>1. \A i \in DOMAIN tc : tc[i].type = "PUBLISH" => tc[i].msg # m
    BY DEF OnTheWay
  <2>2. CASE j = n
    BY <1>1, <1>2, <1>5, <2>1, <2>2
  <2>3. CASE k = n
    BY <1>1, <1>2, <1>5, <2>1, <2>3
  <2>4. CASE j # n /\ k # n
    BY <1>2, <1>5, <2>4 DEF OnTheWay
  <2> QED BY <2>2, <2>3, <2>4
<1>6. \A i \in Inbound \ (P \cup {m}) : H[i] = 0
  BY DEF OnTheWay
<1>7. OnTheWay(q, P \cup {m}, H)
  BY <1>4, <1>5, <1>6 DEF OnTheWay
<1> QED BY <1>7 DEF q

(* The first packet is read.                                               *)
LEMMA WayTail ==
    ASSUME NEW tc \in ToClient, NEW P, NEW H, OnTheWay(tc, P, H), tc # <<>>
    PROVE  OnTheWay(Tail(tc), P, H)
<1> DEFINE q == Tail(tc)
<1>1. \A j \in DOMAIN q : j \in Nat /\ j + 1 \in DOMAIN tc /\ q[j] = tc[j + 1]
  BY AtTail DEF ToClient
<1> HIDE DEF q
<1>2. ASSUME NEW j \in DOMAIN q, NEW k \in DOMAIN q,
             q[j].type = "PUBLISH", q[k].type = "PUBLISH", q[j].msg = q[k].msg
      PROVE  j = k
  <2>1. j + 1 = k + 1
    BY <1>1, <1>2 DEF OnTheWay
  <2> QED BY <1>1, <2>1
<1>3. \A j \in DOMAIN q : q[j].type = "PUBLISH" => q[j].msg \in P /\ H[q[j].msg] = 0
  BY <1>1 DEF OnTheWay
<1>4. \A i \in Inbound \ P : H[i] = 0
  BY DEF OnTheWay
<1>5. OnTheWay(q, P, H)
  BY <1>2, <1>3, <1>4, Zenon DEF OnTheWay
<1> QED BY <1>5 DEF q

(* A message has come: it is not on its way any more.                      *)
LEMMA WayHandled ==
    ASSUME NEW tc \in ToClient, NEW P, NEW H \in [Inbound -> Nat], OnTheWay(tc, P, H),
           tc # <<>>, Head(tc).type = "PUBLISH", NEW n
    PROVE  OnTheWay(Tail(tc), P, [H EXCEPT ![Head(tc).msg] = n])
<1> DEFINE q == Tail(tc)
           m == Head(tc).msg
           G == [H EXCEPT ![m] = n]
<1>1. /\ \A j \in DOMAIN q : j \in Nat /\ j + 1 \in DOMAIN tc /\ q[j] = tc[j + 1]
      /\ 1 \in DOMAIN tc /\ Head(tc) = tc[1]
  BY AtTail DEF ToClient
<1>2. \A j \in DOMAIN q : j # 0
  BY DEF ToClient
<1>3. m = tc[1].msg /\ tc[1].type = "PUBLISH"
  BY <1>1
<1>4. m \in P
  BY <1>1, <1>3 DEF OnTheWay
<1>5. \A i \in Inbound : i # m => G[i] = H[i]
  OBVIOUS
<1>6. OnTheWay(q, P, H)
  BY WayTail
<1> HIDE DEF q, m, G
<1>7. \A j \in DOMAIN q : q[j].type = "PUBLISH" => q[j].msg \in Inbound
  <2>1. q \in ToClient
    BY AtTail DEF ToClient, q
  <2>2. SUFFICES ASSUME NEW j \in DOMAIN q, q[j].type = "PUBLISH" PROVE q[j].msg \in Inbound
    OBVIOUS
  <2>3. q[j] \in Theirs \cup Messages
    BY <2>1 DEF ToClient
  <2> QED BY <2>2, <2>3, FromBroker
<1>8. \A j \in DOMAIN q : q[j].type = "PUBLISH" => q[j].msg # m
  <2>1. SUFFICES ASSUME NEW j \in DOMAIN q, q[j].type = "PUBLISH", q[j].msg = m
                 PROVE  FALSE
    OBVIOUS
  <2>2. j + 1 \in DOMAIN tc /\ tc[j + 1].type = "PUBLISH" /\ tc[j + 1].msg = tc[1].msg
    BY <1>1, <1>3, <2>1
  <2>3. j + 1 = 1
    BY <1>1, <1>3, <2>2 DEF OnTheWay
  <2> QED BY <1>1, <1>2, <2>3
<1>9. OnTheWay(q, P, G)
  BY <1>4, <1>5, <1>6, <1>7, <1>8 DEF OnTheWay
<1> QED BY <1>9 DEF q, m, G

(* Empty queues.                                                           *)
LEMMA EmptyQueues ==
    /\ <<>> \in ToBroker /\ <<>> \in ToClient
    /\ \A S : At(<<>>, S) = {}
    /\ \A h, s : Expected(h, s, <<>>)
    /\ \A tc, P, H : OnTheWay(tc, P, H) => OnTheWay(<<>>, P, H)
    /\ IsFiniteSet({}) /\ Cardinality({}) <= MaxHandlers
    /\ Shape(NoSession)
<1>1. DOMAIN <<>> = {}
  OBVIOUS
<1>2. <<>> \in ToBroker /\ <<>> \in ToClient
  BY DEF ToBroker, ToClient
<1>3. \A S : At(<<>>, S) = {}
  BY <1>1 DEF At
<1>4. \A h, s : Expected(h, s, <<>>)
  BY <1>1 DEF Expected
<1>5. ASSUME NEW tc, NEW P, NEW H, OnTheWay(tc, P, H) PROVE OnTheWay(<<>>, P, H)
  BY <1>1, <1>5 DEF OnTheWay
<1>6. IsFiniteSet({}) /\ Cardinality({}) <= MaxHandlers
  BY FS_EmptySet, MqttAssumption
<1>7. Shape(NoSession)
  BY DEF Shape, NoSession
<1> QED BY <1>2, <1>3, <1>4, <1>5, <1>6, <1>7

---------------------------------------------------------------------------
(***************************************************************************)
(* The client's side: every call, and every way in which one ends.         *)
(***************************************************************************)

(* The session is closed, or was before, whatever is left in the queues.   *)
LEMMA ClosingKeeps ==
    ASSUME Typed, Kept,
           isconnected' = FALSE, handlers' \in {{}, handlers}, call' = NoCall,
           open' = open, next_packetid' \in Nat,
           tobroker' \in ToBroker, toclient' \in ToClient, session' = session,
           pushed' = pushed, handled' \in [Inbound -> Nat],
           OnTheWay(toclient', pushed', handled'),
           succeeded' = succeeded, received' = received, acknowledged' \subseteq Inbound
    PROVE  MqttInv'
<1>1. Typed'
  BY EmptyQueues DEF Typed, Calls
<1>2. CallState' /\ ~Live'
  BY DEF CallState, Live, NoCall
<1>3. SessionInv'
  BY <1>2 DEF SessionInv
<1>4. Kept'
  BY DEF Kept
<1> QED BY <1>1, <1>2, <1>3, <1>4 DEF MqttInv

(* A packet that could not be sent may be at the broker all the same.      *)
LEMMA SentOrNot ==
    ASSUME tobroker \in ToBroker, NEW p \in Mine \cup Others,
           tobroker' \in {tobroker} \cup (IF open THEN {Append(tobroker, p)} ELSE {})
    PROVE  tobroker' \in ToBroker
<1>1. Append(tobroker, p) \in ToBroker
  BY Appended DEF ToBroker
<1> QED BY <1>1

(* What holds between two calls of an open session.                        *)
LEMMA BetweenCalls ==
    ASSUME MqttInv, Idle, isconnected, open
    PROVE  /\ At(tobroker, Mine) = {} /\ At(toclient, Theirs) = {}
           /\ handlers = session.subs /\ session.ids = {}
<1>1. call.op = "none" /\ Live
  BY DEF Idle, NoCall, Live
<1>2. OneToken(call, handlers, session, received, tobroker, toclient)
  BY <1>1 DEF MqttInv, SessionInv
<1> QED BY <1>1, <1>2, NoToken

(* A new connection starts with empty queues.                              *)
LEMMA ConnectKeeps ==
    ASSUME MqttInv, MQTTConnect
    PROVE  MqttInv'
<1>1. /\ open' = TRUE /\ toclient' = <<>> /\ handlers' = {} /\ next_packetid' = 1
      /\ session' = NoSession /\ isconnected' = FALSE
      /\ UNCHANGED history
      /\ \/ tobroker' = <<ConnectPacket>> /\ call' = [op |-> "connect", arg |-> "none"]
         \/ tobroker' \in {<<>>, <<ConnectPacket>>} /\ call' = NoCall
  BY DEF MQTTConnect, Idle, Waiting, MqttInv, Typed
<1>2. /\ <<ConnectPacket>> = Append(<<>>, ConnectPacket)
      /\ <<ConnectPacket>> \in ToBroker
      /\ ConnectPacket \in Mine
  BY Built DEF ToBroker, ConnectPacket
<1>3. Typed'
  <2>1. call' \in Calls
    BY <1>1 DEF Calls
  <2> QED BY <1>1, <1>2, <2>1, EmptyQueues DEF MqttInv, Typed, history
<1>4. CallState'
  BY <1>1 DEF CallState, NoCall
<1>5. OnTheWay(toclient', pushed', handled')
  BY <1>1, EmptyQueues DEF MqttInv, history
<1>6. Kept'
  BY <1>1 DEF MqttInv, Kept, history
<1>7. ASSUME Live' PROVE OneToken(call', handlers', session', received', tobroker', toclient')
  <2>1. tobroker' = Append(<<>>, ConnectPacket) /\ call' = [op |-> "connect", arg |-> "none"]
    BY <1>1, <1>2, <1>7 DEF Live, NoCall
  <2>2. Sent(ConnectPacket, call', handlers', session', received')
    BY <1>1, <2>1 DEF Sent, ConnectPacket, NoSession
  <2>3. OneToken(call', handlers', session', received', Append(<<>>, ConnectPacket), <<>>)
    BY <1>2, <2>2, EmptyQueues, TokenStarts
  <2> QED BY <1>1, <2>1, <2>3
<1>8. Expected(handlers', session', toclient')
  BY <1>1, EmptyQueues
<1>9. SessionInv'
  BY <1>7, <1>8 DEF SessionInv
<1> QED BY <1>3, <1>4, <1>5, <1>6, <1>9 DEF MqttInv

(* A call that sends a packet of its own and waits.                        *)
LEMMA RequestKeeps ==
    ASSUME MqttInv, Idle, isconnected, next_packetid' \in Nat,
           NEW op, NEW arg, NEW p \in Mine, Request(op, arg, p),
           [op |-> op, arg |-> arg] \in Calls, op \notin {"none", "connect"},
           open => Sent(p, [op |-> op, arg |-> arg], handlers, session, received),
           UNCHANGED <<session, pushed, succeeded, received, handled, acknowledged>>
    PROVE  MqttInv'
<1>1. UNCHANGED <<open, toclient>>
  BY DEF Request
<1>2. CASE sendPacket(p) /\ Waiting(op, arg) /\ UNCHANGED <<isconnected, handlers, faults>>
  <2>1. open /\ tobroker' = Append(tobroker, p) /\ call' = [op |-> op, arg |-> arg]
    BY <1>2 DEF sendPacket, Waiting
  <2>2. Typed'
    <3>1. tobroker' \in ToBroker
      BY <2>1, Appended DEF MqttInv, Typed, ToBroker
    <3> QED BY <1>1, <1>2, <2>1, <3>1 DEF MqttInv, Typed
  <2>3. CallState'
    BY <1>2, <2>1 DEF CallState
  <2>4. OneToken(call', handlers', session', received', tobroker', toclient')
    <3>1. At(tobroker, Mine) = {} /\ At(toclient, Theirs) = {}
      BY <2>1, BetweenCalls
    <3>2. OneToken([op |-> op, arg |-> arg], handlers, session, received,
                   Append(tobroker, p), toclient)
      BY <2>1, <3>1, TokenStarts DEF MqttInv, Typed
    <3> QED BY <1>1, <1>2, <2>1, <3>2
  <2>5. Expected(handlers', session', toclient')
    BY <1>1, <1>2, <2>1 DEF MqttInv, SessionInv, Live
  <2>6. OnTheWay(toclient', pushed', handled') /\ Kept'
    BY <1>1 DEF MqttInv, Kept
  <2> QED BY <2>2, <2>3, <2>4, <2>5, <2>6 DEF MqttInv, SessionInv
<1>3. CASE SendFails(p) /\ MQTTCloseSession /\ UNCHANGED call
  <2>1. isconnected' = FALSE /\ handlers' = {} /\ call' = NoCall
    BY <1>3 DEF MQTTCloseSession, Idle
  <2>2. tobroker' \in ToBroker
    BY <1>3, SentOrNot DEF SendFails, MqttInv, Typed
  <2>3. toclient' \in ToClient /\ handled' \in [Inbound -> Nat] /\ acknowledged' \subseteq Inbound
        /\ OnTheWay(toclient', pushed', handled') /\ Typed /\ Kept
    BY <1>1 DEF MqttInv, Typed, Kept
  <2> QED BY <1>1, <2>1, <2>2, <2>3, ClosingKeeps
<1> QED BY <1>2, <1>3 DEF Request

(* Packet identifiers are numbers.                                         *)
LEMMA PacketIdType ==
    ASSUME next_packetid \in Nat
    PROVE  getNextPacketId \in Nat
BY DEF getNextPacketId

(* MQTTSubscribe sends its packet and waits, or fails.                     *)
LEMMA SubscribeKeeps ==
    ASSUME MqttInv, NEW t \in Topics, MQTTSubscribe(t)
    PROVE  MqttInv'
<1> DEFINE p == [type |-> "SUBSCRIBE", topic |-> t]
           c == [op |-> "subscribe", arg |-> t]
<1>1. p \in Mine /\ c \in Calls
  BY Built DEF Calls
<1>2. next_packetid' \in Nat
  BY PacketIdType DEF MQTTSubscribe, MqttInv, Typed
<1>3. ASSUME open PROVE Sent(p, c, handlers, session, received)
  BY <1>3, BetweenCalls DEF MQTTSubscribe, Sent
<1> HIDE DEF p
<1>4. Request("subscribe", t, p) /\ Idle /\ isconnected
      /\ UNCHANGED <<session, pushed, succeeded, received, handled, acknowledged>>
  BY DEF MQTTSubscribe, p
<1> QED BY <1>1, <1>2, <1>3, <1>4, RequestKeeps

(* So does MQTTUnsubscribe.                                                *)
LEMMA UnsubscribeKeeps ==
    ASSUME MqttInv, NEW t \in Topics, MQTTUnsubscribe(t)
    PROVE  MqttInv'
<1> DEFINE p == [type |-> "UNSUBSCRIBE", topic |-> t]
           c == [op |-> "unsubscribe", arg |-> t]
<1>1. p \in Mine /\ c \in Calls
  BY Built DEF Calls
<1>2. next_packetid' \in Nat
  BY PacketIdType DEF MQTTUnsubscribe, MqttInv, Typed
<1>3. ASSUME open PROVE Sent(p, c, handlers, session, received)
  BY <1>3, BetweenCalls DEF MQTTUnsubscribe, Sent
<1> HIDE DEF p
<1>4. Request("unsubscribe", t, p) /\ Idle /\ isconnected
      /\ UNCHANGED <<session, pushed, succeeded, received, handled, acknowledged>>
  BY DEF MQTTUnsubscribe, p
<1> QED BY <1>1, <1>2, <1>3, <1>4, RequestKeeps

(* So does MQTTPublish, unless with QoS 0, which waits for nothing.        *)
LEMMA PublishKeeps ==
    ASSUME MqttInv, NEW m \in Outbound, MQTTPublish(m)
    PROVE  MqttInv'
<1>1. /\ Idle /\ isconnected
      /\ UNCHANGED <<session, pushed, succeeded, received, handled, acknowledged>>
  BY DEF MQTTPublish
<1>2. CASE QosOf[m] # 0
  <2> DEFINE p == [type |-> "PUBLISH", msg |-> m, id |-> getNextPacketId]
             c == [op |-> "publish", arg |-> m]
  <2>1. getNextPacketId \in Nat
    BY PacketIdType DEF MqttInv, Typed
  <2>2. p \in Mine /\ c \in Calls
    BY <1>2, <2>1, Built DEF Calls
  <2>3. next_packetid' \in Nat
    BY <1>2, <2>1 DEF MQTTPublish
  <2>4. ASSUME open PROVE Sent(p, c, handlers, session, received)
    BY <1>1, <2>4, BetweenCalls DEF Sent
  <2>5. Request("publish", m, p)
    BY <1>2 DEF MQTTPublish
  <2> HIDE DEF p
  <2> QED BY <1>1, <2>2, <2>3, <2>4, <2>5, RequestKeeps
<1>3. CASE QosOf[m] = 0
  <2> DEFINE p == [type |-> "PUBLISH", msg |-> m, id |-> 0]
  <2>1. p \in Others
    BY <1>3, Built
  <2>2. /\ \/ sendPacket(p) /\ UNCHANGED <<isconnected, handlers, faults>>
           \/ SendFails(p) /\ MQTTCloseSession
        /\ UNCHANGED <<call, open, toclient>>
        /\ next_packetid' = next_packetid
    BY <1>3 DEF MQTTPublish
  <2> HIDE DEF p
  <2>3. CASE sendPacket(p) /\ UNCHANGED <<isconnected, handlers, faults>>
    <3>1. open /\ tobroker' = Append(tobroker, p)
      BY <2>3 DEF sendPacket
    <3>2. Typed'
      <4>1. tobroker' \in ToBroker
        BY <2>1, <3>1, Appended DEF MqttInv, Typed, ToBroker
      <4> QED BY <1>1, <2>2, <2>3, <4>1 DEF MqttInv, Typed
    <3>3. CallState' /\ OnTheWay(toclient', pushed', handled') /\ Kept'
      BY <1>1, <2>2, <2>3 DEF MqttInv, CallState, Kept
    <3>4. /\ OneToken(call, handlers, session, received, tobroker, toclient)
          /\ Expected(handlers, session, toclient)
      BY <1>1, <3>1 DEF MqttInv, SessionInv, Live
    <3>5. OneToken(call, handlers, session, received, Append(tobroker, p), toclient)
      BY <2>1, <3>4, TokenAppend DEF MqttInv, Typed
    <3>6. SessionInv'
      BY <1>1, <2>2, <2>3, <3>1, <3>4, <3>5 DEF SessionInv
    <3> QED BY <3>2, <3>3, <3>6 DEF MqttInv
  <2>4. CASE SendFails(p) /\ MQTTCloseSession
    <3>1. isconnected' = FALSE /\ handlers' = {} /\ call' = NoCall
      BY <1>1, <2>2, <2>4 DEF MQTTCloseSession, Idle
    <3>2. tobroker' \in ToBroker
      BY <2>1, <2>4, SentOrNot DEF SendFails, MqttInv, Typed
    <3>3. /\ toclient' \in ToClient /\ handled' \in [Inbound -> Nat]
          /\ acknowledged' \subseteq Inbound
          /\ OnTheWay(toclient', pushed', handled') /\ Typed /\ Kept
          /\ next_packetid' \in Nat
      BY <1>1, <2>2 DEF MqttInv, Typed, Kept
    <3> QED BY <1>1, <2>2, <3>1, <3>2, <3>3, ClosingKeeps
  <2> QED BY <2>2, <2>3, <2>4
<1> QED BY <1>2, <1>3

(* MQTTDisconnect closes the session.                                      *)
LEMMA DisconnectKeeps ==
    ASSUME MqttInv, MQTTDisconnect
    PROVE  MqttInv'
<1> DEFINE p == [type |-> "DISCONNECT"]
<1>1. p \in Mine
  BY Built
<1>2. /\ isconnected' = FALSE /\ handlers' = {} /\ call' = NoCall
      /\ UNCHANGED <<next_packetid, open, toclient, session,
                     pushed, succeeded, received, handled, acknowledged>>
  BY DEF MQTTDisconnect, MQTTCloseSession, Idle
<1>3. tobroker' \in ToBroker
  <2>1. tobroker' \in {tobroker} \cup (IF open THEN {Append(tobroker, p)} ELSE {})
    BY DEF MQTTDisconnect
  <2> HIDE DEF p
  <2> QED BY <1>1, <2>1, SentOrNot DEF MqttInv, Typed
<1>4. /\ toclient' \in ToClient /\ handled' \in [Inbound -> Nat]
      /\ acknowledged' \subseteq Inbound
      /\ OnTheWay(toclient', pushed', handled') /\ Typed /\ Kept
      /\ next_packetid' \in Nat
  BY <1>2 DEF MqttInv, Typed, Kept
<1> QED BY <1>2, <1>3, <1>4, ClosingKeeps

(* MQTTYield starts and ends: no packet of its own.                        *)
LEMMA YieldKeeps ==
    ASSUME MqttInv, NEW c \in Calls, c.op \in {"none", "yield"}, call' = c,
           call.op \in {"none", "yield"},
           UNCHANGED <<isconnected, handlers, next_packetid, netvars, session, faults, history>>
    PROVE  MqttInv'
<1>1. Typed'
  BY DEF MqttInv, Typed, netvars, history
<1>2. CallState'
  BY DEF CallState
<1>3. OnTheWay(toclient', pushed', handled') /\ Kept'
  BY DEF MqttInv, Kept, netvars, history
<1>4. ASSUME open, isconnected
      PROVE  /\ OneToken(call', handlers', session', received', tobroker', toclient')
             /\ Expected(handlers', session', toclient')
  <2>1. /\ OneToken(call, handlers, session, received, tobroker, toclient)
        /\ Expected(handlers, session, toclient)
    BY <1>4 DEF MqttInv, SessionInv, Live
  <2>2. /\ At(tobroker, Mine) = {} /\ At(toclient, Theirs) = {}
        /\ handlers = session.subs /\ session.ids = {}
    BY <2>1, NoToken
  <2>3. OneToken(c, handlers, session, received, tobroker, toclient)
    BY <2>2 DEF OneToken
  <2> QED BY <2>1, <2>3 DEF netvars, history
<1>5. SessionInv'
  BY <1>4 DEF SessionInv, Live, netvars
<1> QED BY <1>1, <1>2, <1>3, <1>5 DEF MqttInv

(* So does a call that gives up; MQTTConnect has none to close.            *)
LEMMA WaitFailsKeeps ==
    ASSUME MqttInv, WaitFails
    PROVE  MqttInv'
<1>1. /\ UNCHANGED <<next_packetid, open, tobroker, toclient, session,
                     pushed, succeeded, received, handled, acknowledged>>
      /\ call' = NoCall
      /\ IF isconnected THEN isconnected' = FALSE /\ handlers' = {}
                        ELSE UNCHANGED <<isconnected, handlers>>
  BY DEF WaitFails, netvars, MQTTCloseSession, CloseIfConnected
<1>2. isconnected' = FALSE
  BY <1>1 DEF MqttInv, Typed
<1>3. Typed'
  <2>1. /\ handlers' \subseteq Topics /\ IsFiniteSet(handlers')
        /\ Cardinality(handlers') <= MaxHandlers
    BY <1>1, EmptyQueues DEF MqttInv, Typed
  <2>2. call' \in Calls
    BY <1>1 DEF Calls
  <2> QED BY <1>1, <1>2, <2>1, <2>2 DEF MqttInv, Typed
<1>4. CallState' /\ ~Live'
  BY <1>1, <1>2 DEF CallState, Live, NoCall
<1>5. OnTheWay(toclient', pushed', handled') /\ Kept'
  BY <1>1 DEF MqttInv, Kept
<1> QED BY <1>3, <1>4, <1>5 DEF MqttInv, SessionInv

---------------------------------------------------------------------------
(***************************************************************************)
(* The broker and the network.                                             *)
(***************************************************************************)

(* The connection breaks.                                                  *)
LEMMA BreakKeeps ==
    ASSUME MqttInv, Break
    PROVE  MqttInv'
<1>1. /\ open' = FALSE /\ tobroker' = <<>> /\ toclient' = <<>> /\ session' = NoSession
      /\ UNCHANGED <<isconnected, handlers, next_packetid, call,
                     pushed, succeeded, received, handled, acknowledged>>
  BY DEF Break, clientvars, history
<1>2. Typed'
  BY <1>1, EmptyQueues DEF MqttInv, Typed
<1>3. CallState' /\ ~Live'
  BY <1>1 DEF MqttInv, CallState, Live
<1>4. OnTheWay(toclient', pushed', handled') /\ Kept'
  BY <1>1, EmptyQueues DEF MqttInv, Kept
<1> QED BY <1>2, <1>3, <1>4 DEF MqttInv, SessionInv

(* What a step of the broker leaves alone, and what it has to show.        *)
LEMMA BrokerKeeps ==
    ASSUME MqttInv,
           UNCHANGED <<isconnected, handlers, next_packetid, call,
                       succeeded, handled, acknowledged>>,
           open' \in BOOLEAN, open' => open,
           tobroker' \in ToBroker, toclient' \in ToClient, Shape(session'),
           pushed' \subseteq Inbound, OnTheWay(toclient', pushed', handled'),
           received \subseteq received',
           Live /\ open' => /\ OneToken(call, handlers, session', received', tobroker', toclient')
                            /\ Expected(handlers, session', toclient')
    PROVE  MqttInv'
<1>1. Typed'
  BY DEF MqttInv, Typed
<1>2. CallState'
  BY DEF MqttInv, CallState
<1>3. Kept'
  BY DEF MqttInv, Kept
<1>4. SessionInv'
  BY DEF SessionInv, Live
<1> QED BY <1>1, <1>2, <1>3, <1>4 DEF MqttInv

(* The broker sends a message for one of its filters.                      *)
LEMMA PushKeeps ==
    ASSUME MqttInv, NEW m \in Inbound, BrokerPush(m)
    PROVE  MqttInv'
<1> DEFINE p == [type |-> "PUBLISH", msg |-> m]
<1>1. p \in Messages /\ p.msg = m
  BY Built
<1>2. /\ toclient' = Append(toclient, p)
      /\ toclient' \in ToClient
  <2>1. toclient' = toclient \o <<p>>
    BY DEF BrokerPush, Push
  <2> HIDE DEF p
  <2>2. toclient' = Append(toclient, p)
    BY <1>1, <2>1, Pushed DEF MqttInv, Typed, ToClient
  <2> QED BY <1>1, <2>2, Appended DEF MqttInv, Typed, ToClient
<1>3. /\ UNCHANGED <<isconnected, handlers, next_packetid, call, open, tobroker,
                     succeeded, received, handled, acknowledged>>
      /\ m \notin pushed /\ pushed' = pushed \cup {m}
  BY DEF BrokerPush, clientvars
<1>4. Shape(session') /\ session'.subs = session.subs /\ session'.ids = session.ids
  <2>1. Shape(session)
    BY DEF MqttInv, Typed
  <2>2. PICK a, b, o, d : session = [active |-> a, subs |-> b, out |-> o, ids |-> d]
    BY <2>1 DEF Shape
  <2>3. CASE QosOf[m] = 0
    BY <2>1, <2>3 DEF BrokerPush
  <2>4. CASE QosOf[m] # 0
    <3>1. PICK x : session' = [session EXCEPT !.out = x]
      BY <2>4 DEF BrokerPush
    <3>2. session' = [active |-> a, subs |-> b, out |-> x, ids |-> d]
      BY <2>2, <3>1
    <3> QED BY <2>1, <2>2, <3>2 DEF Shape
  <2> QED BY <2>3, <2>4
<1> HIDE DEF p
<1>5. OnTheWay(toclient', pushed', handled')
  BY <1>1, <1>2, <1>3, WayPush DEF MqttInv, Typed
<1>6. ASSUME Live
      PROVE  /\ OneToken(call, handlers, session', received', tobroker', toclient')
             /\ Expected(handlers, session', toclient')
  <2>1. /\ OneToken(call, handlers, session, received, tobroker, toclient)
        /\ Expected(handlers, session, toclient)
    BY <1>6 DEF MqttInv, SessionInv
  <2>2. OneToken(call, handlers, session, received, tobroker, Append(toclient, p))
    BY <1>1, <2>1, TokenAppend DEF MqttInv, Typed
  <2>3. OneToken(call, handlers, session', received, tobroker, Append(toclient, p))
    BY <1>4, <2>2, TokenStays
  <2>4. PICK g \in session.subs : Matches(g, TopicOf[m])
    BY DEF BrokerPush
  <2>5. At(toclient, Theirs) = {} => handlers = session.subs
    BY <2>1, NoToken
  <2>6. Expected(handlers, session, Append(toclient, p))
    BY <1>1, <2>1, <2>4, <2>5, ExpectedPush DEF MqttInv, Typed
  <2>7. Expected(handlers, session', Append(toclient, p))
    BY <1>4, <2>6, ExpectedStays
  <2> QED BY <1>2, <1>3, <2>3, <2>7
<1>7. pushed' \subseteq Inbound /\ tobroker' \in ToBroker /\ open' \in BOOLEAN
  BY <1>3 DEF MqttInv, Typed
<1> QED BY <1>2, <1>3, <1>4, <1>5, <1>6, <1>7, BrokerKeeps

(* The broker answers the packet of the call.                              *)
LEMMA AnswerKeeps ==
    ASSUME MqttInv, open, tobroker # <<>>, Head(tobroker) \in Mine,
           tobroker' = Tail(tobroker), NEW a \in Theirs, toclient' = toclient \o <<a>>,
           Shape(session'), received \subseteq received', open' = open,
           UNCHANGED <<isconnected, handlers, next_packetid, call, pushed,
                       succeeded, handled, acknowledged>>,
           Sent(Head(tobroker), call, handlers, session, received) =>
             Answered(a, call, handlers, session', received')
    PROVE  MqttInv'
<1>1. tobroker \in ToBroker /\ toclient \in ToClient
  BY DEF MqttInv, Typed
<1>2. tobroker' \in ToBroker
  BY <1>1, AtTail DEF ToBroker
<1>3. toclient' = Append(toclient, a) /\ Append(toclient, a) \in ToClient
  BY <1>1, Pushed, Appended DEF ToClient
<1>4. a.type # "PUBLISH"
  BY FromBroker
<1>5. OnTheWay(toclient', pushed', handled')
  BY <1>1, <1>3, <1>4, WayAppend DEF MqttInv
<1>6. ASSUME Live
      PROVE  /\ OneToken(call, handlers, session', received', tobroker', toclient')
             /\ Expected(handlers, session', toclient')
  <2>1. /\ OneToken(call, handlers, session, received, tobroker, toclient)
        /\ Expected(handlers, session, toclient)
    BY <1>6 DEF MqttInv, SessionInv
  <2>2. /\ Sent(Head(tobroker), call, handlers, session, received)
        /\ At(Tail(tobroker), Mine) = {} /\ At(toclient, Theirs) = {}
    BY <1>1, <2>1, TokenRead
  <2>3. Answered(a, call, handlers, session', received')
    BY <2>2
  <2>4. OneToken(call, handlers, session', received', Tail(tobroker), Append(toclient, a))
    BY <1>1, <2>2, <2>3, TokenAnswered
  <2>5. Expected(handlers, session', toclient)
    BY <2>1, <2>2, ExpectedStays
  <2>6. Expected(handlers, session', Append(toclient, a))
    BY <1>1, <1>4, <2>5, ExpectedAnswer
  <2> QED BY <1>3, <2>4, <2>6
<1>7. pushed' \subseteq Inbound /\ open' \in BOOLEAN
  BY DEF MqttInv, Typed
<1> QED BY <1>2, <1>3, <1>5, <1>6, <1>7, BrokerKeeps

(* The broker reads a packet that belongs to no call.                      *)
LEMMA OtherKeeps ==
    ASSUME MqttInv, open, tobroker # <<>>, Head(tobroker) \notin Mine,
           tobroker' = Tail(tobroker),
           \/ toclient' = toclient \o <<>>
           \/ \E a \in Messages : a.type # "PUBLISH" /\ toclient' = toclient \o <<a>>,
           Shape(session'), session'.subs = session.subs, session'.ids = session.ids,
           received \subseteq received', open' = open,
           UNCHANGED <<isconnected, handlers, next_packetid, call, pushed,
                       succeeded, handled, acknowledged>>
    PROVE  MqttInv'
<1>1. tobroker \in ToBroker /\ toclient \in ToClient
  BY DEF MqttInv, Typed
<1>2. tobroker' \in ToBroker
  BY <1>1, AtTail DEF ToBroker
<1>3. \/ toclient' = toclient
      \/ \E a \in Messages : a.type # "PUBLISH" /\ toclient' = Append(toclient, a)
  <2>1. CASE toclient' = toclient \o <<>>
    <3>1. toclient \o <<>> = toclient
      BY <1>1, ConcatEmptySeq DEF ToClient
    <3> QED BY <2>1, <3>1
  <2>2. CASE \E a \in Messages : a.type # "PUBLISH" /\ toclient' = toclient \o <<a>>
    <3>1. PICK a \in Messages : a.type # "PUBLISH" /\ toclient' = toclient \o <<a>>
      BY <2>2
    <3>2. toclient' = Append(toclient, a)
      BY <1>1, <3>1, Pushed DEF ToClient
    <3> QED BY <3>1, <3>2
  <2> QED BY <2>1, <2>2
<1>4. toclient' \in ToClient /\ OnTheWay(toclient', pushed', handled')
  <2>1. ASSUME NEW a \in Messages, a.type # "PUBLISH"
        PROVE  /\ Append(toclient, a) \in ToClient
               /\ OnTheWay(Append(toclient, a), pushed, handled)
    BY <1>1, <2>1, Appended, WayAppend DEF MqttInv, ToClient
  <2>2. toclient \in ToClient /\ OnTheWay(toclient, pushed, handled)
    BY <1>1 DEF MqttInv
  <2> QED BY <1>3, <2>1, <2>2
<1>5. ASSUME Live
      PROVE  /\ OneToken(call, handlers, session', received', tobroker', toclient')
             /\ Expected(handlers, session', toclient')
  <2>1. /\ OneToken(call, handlers, session, received, tobroker, toclient)
        /\ Expected(handlers, session, toclient)
    BY <1>5 DEF MqttInv, SessionInv
  <2>2. OneToken(call, handlers, session, received, Tail(tobroker), toclient)
    BY <1>1, <2>1, TokenTail
  <2>3. /\ OneToken(call, handlers, session', received', tobroker', toclient)
        /\ Expected(handlers, session', toclient)
    BY <2>1, <2>2, TokenStays, ExpectedStays
  <2>4. ASSUME NEW a \in Messages, a.type # "PUBLISH"
        PROVE  /\ OneToken(call, handlers, session', received', tobroker', Append(toclient, a))
               /\ Expected(handlers, session', Append(toclient, a))
    BY <1>1, <1>2, <2>3, <2>4, TokenAppend, ExpectedAnswer
  <2> QED BY <1>3, <2>3, <2>4
<1>6. pushed' \subseteq Inbound /\ open' \in BOOLEAN
  BY DEF MqttInv, Typed
<1> QED BY <1>2, <1>4, <1>5, <1>6, BrokerKeeps

(* Sessions with one field changed.                                        *)
LEMMA SessionParts ==
    ASSUME Shape(session)
    PROVE  /\ \A x : LET s == [session EXCEPT !.subs = x] IN
                /\ s.subs = x /\ s.ids = session.ids
                /\ x \subseteq Topics => Shape(s)
           /\ \A x : LET s == [session EXCEPT !.ids = x] IN
                /\ s.subs = session.subs /\ s.ids = x
                /\ x \subseteq Nat => Shape(s)
           /\ \A x : LET s == [session EXCEPT !.out = x] IN
                s.subs = session.subs /\ s.ids = session.ids /\ Shape(s)
<1>1. PICK a, b, o, d : session = [active |-> a, subs |-> b, out |-> o, ids |-> d]
  BY DEF Shape
<1>2. b \subseteq Topics /\ d \subseteq Nat
  BY <1>1 DEF Shape
<1>3. ASSUME NEW x
      PROVE  /\ [session EXCEPT !.subs = x] = [active |-> a, subs |-> x, out |-> o, ids |-> d]
             /\ [session EXCEPT !.ids = x] = [active |-> a, subs |-> b, out |-> o, ids |-> x]
             /\ [session EXCEPT !.out = x] = [active |-> a, subs |-> b, out |-> x, ids |-> d]
  BY <1>1
<1> QED BY <1>1, <1>2, <1>3 DEF Shape

(* The broker reads a packet: one case per kind.                           *)
LEMMA ReadsKeeps ==
    ASSUME MqttInv, BrokerReads
    PROVE  MqttInv'
<1>1. PICK p : p = Head(tobroker)
  OBVIOUS
<1>2. /\ open /\ tobroker # <<>>
      /\ tobroker' = IF p.type = "DISCONNECT" THEN <<>> ELSE Tail(tobroker)
      /\ UNCHANGED <<isconnected, handlers, next_packetid, call, pushed,
                     succeeded, handled, acknowledged>>
  BY <1>1 DEF BrokerReads, clientvars
<1>3. p \in Mine \cup Others
  <2>1. tobroker \in Seq(Mine \cup Others)
    BY DEF MqttInv, Typed, ToBroker
  <2> QED BY <1>1, <1>2, <2>1
<1>4. Shape(session) /\ session.subs \subseteq Topics /\ session.ids \subseteq Nat
  BY DEF MqttInv, Typed, Shape
<1>5. CASE BrokerConnect(p)
  <2>1. p.type = "CONNECT" /\ p \in Mine
    BY <1>3, <1>5, FromClient DEF BrokerConnect
  <2>2. PICK g \in BOOLEAN : toclient' = toclient \o <<[type |-> "CONNACK", granted |-> g]>>
    BY <1>5 DEF BrokerConnect, Push
  <2>3. PICK a : a = [type |-> "CONNACK", granted |-> g]
    OBVIOUS
  <2>4. a \in Theirs /\ a.type = "CONNACK"
    BY <2>3, Built
  <2>5. /\ session' = session \/ session' = [NoSession EXCEPT !.active = TRUE]
        /\ received' = received /\ open' = open
    BY <1>5 DEF BrokerConnect
  <2>6. Shape(session') /\ (session'.subs = session.subs \/ session'.subs = {})
                        /\ (session'.ids = session.ids \/ session'.ids = {})
    BY <1>4, <2>5 DEF Shape, NoSession
  <2>7. Sent(p, call, handlers, session, received) =>
           Answered(a, call, handlers, session', received')
    BY <2>1, <2>4, <2>6 DEF Sent, Answered
  <2>8. tobroker' = Tail(tobroker) /\ toclient' = toclient \o <<a>>
    BY <1>2, <2>1, <2>2, <2>3
  <2> QED BY <1>1, <1>2, <2>1, <2>4, <2>5, <2>6, <2>7, <2>8, AnswerKeeps
<1>6. CASE BrokerSubscribe(p)
  <2>1. p.type = "SUBSCRIBE" /\ p \in Mine /\ p.topic \in Topics
    BY <1>3, <1>6, FromClient DEF BrokerSubscribe
  <2>2. PICK a : a = [type |-> "SUBACK", granted |-> p.topic \notin Refused]
    OBVIOUS
  <2>3. a \in Theirs /\ a.type = "SUBACK" /\ a.granted = (p.topic \notin Refused)
    <3>1. (p.topic \notin Refused) \in BOOLEAN
      OBVIOUS
    <3> QED BY <2>2, <3>1, Built
  <2>4. /\ session' = [session EXCEPT !.subs = session.subs \cup ({p.topic} \ Refused)]
        /\ toclient' = toclient \o <<a>> /\ received' = received /\ open' = open
    BY <1>6, <2>2 DEF BrokerSubscribe, Push
  <2>5. /\ session'.subs = session.subs \cup ({p.topic} \ Refused)
        /\ session'.ids = session.ids /\ Shape(session')
    BY <1>4, <2>1, <2>4, SessionParts
  <2>6. Sent(p, call, handlers, session, received) =>
           Answered(a, call, handlers, session', received')
    BY <2>1, <2>3, <2>5 DEF Sent, Answered
  <2>7. tobroker' = Tail(tobroker)
    BY <1>2, <2>1
  <2> QED BY <1>1, <1>2, <2>1, <2>3, <2>4, <2>5, <2>6, <2>7, AnswerKeeps
<1>7. CASE BrokerUnsubscribe(p)
  <2>1. p.type = "UNSUBSCRIBE" /\ p \in Mine
    BY <1>3, <1>7, FromClient DEF BrokerUnsubscribe
  <2>2. PICK a : a = [type |-> "UNSUBACK"]
    OBVIOUS
  <2>3. a \in Theirs /\ a.type = "UNSUBACK"
    BY <2>2, Built
  <2>4. /\ session' = [session EXCEPT !.subs = session.subs \ {p.topic}]
        /\ toclient' = toclient \o <<a>> /\ received' = received /\ open' = open
    BY <1>7, <2>2 DEF BrokerUnsubscribe, Push
  <2>5. /\ session'.subs = session.subs \ {p.topic}
        /\ session'.ids = session.ids /\ Shape(session')
    BY <1>4, <2>4, SessionParts
  <2>6. Sent(p, call, handlers, session, received) =>
           Answered(a, call, handlers, session', received')
    BY <2>1, <2>3, <2>5 DEF Sent, Answered
  <2>7. tobroker' = Tail(tobroker)
    BY <1>2, <2>1
  <2> QED BY <1>1, <1>2, <2>1, <2>3, <2>4, <2>5, <2>6, <2>7, AnswerKeeps
<1>8. CASE BrokerTakes(p)
  <2>1. p.type = "PUBLISH" /\ p.msg \in Outbound /\ p.id \in Nat
    BY <1>3, <1>8, FromClient DEF BrokerTakes
  <2>2. QosOf[p.msg] \in 0 .. 2 /\ (p \in Mine <=> QosOf[p.msg] # 0)
    BY <1>3, <2>1, FromClient, MqttAssumption
  <2>3. /\ tobroker' = Tail(tobroker) /\ open' = open
        /\ received \subseteq received'
    BY <1>2, <1>8, <2>1 DEF BrokerTakes
  <2>4. CASE QosOf[p.msg] = 0
    <3>1. /\ session' = [session EXCEPT !.ids = session.ids]
          /\ toclient' = toclient \o <<>>
      BY <1>8, <2>4 DEF BrokerTakes, Push
    <3>2. session'.subs = session.subs /\ session'.ids = session.ids /\ Shape(session')
      BY <1>4, <3>1, SessionParts
    <3>3. p \notin Mine
      BY <2>2, <2>4
    <3> QED BY <1>1, <1>2, <2>3, <3>1, <3>2, <3>3, OtherKeeps
  <2>5. CASE QosOf[p.msg] = 1
    <3>1. PICK a : a = [type |-> "PUBACK", id |-> p.id]
      OBVIOUS
    <3>2. a \in Theirs /\ a.type = "PUBACK"
      BY <2>1, <3>1, Built
    <3>3. /\ session' = [session EXCEPT !.ids = session.ids]
          /\ received' = received \cup {p.msg}
          /\ toclient' = toclient \o <<a>>
      BY <1>8, <2>5, <3>1 DEF BrokerTakes, Push
    <3>4. session'.subs = session.subs /\ session'.ids = session.ids /\ Shape(session')
      BY <1>4, <3>3, SessionParts
    <3>5. Sent(p, call, handlers, session, received) =>
             Answered(a, call, handlers, session', received')
      BY <2>1, <2>5, <3>2, <3>3, <3>4 DEF Sent, Answered
    <3>6. p \in Mine
      BY <2>2, <2>5
    <3> QED BY <1>1, <1>2, <2>3, <3>2, <3>3, <3>4, <3>5, <3>6, AnswerKeeps
  <2>6. CASE QosOf[p.msg] = 2
    <3>1. PICK a : a = [type |-> "PUBREC", id |-> p.id]
      OBVIOUS
    <3>2. a \in Theirs /\ a.type = "PUBREC" /\ a.id = p.id
      BY <2>1, <3>1, Built
    <3>3. /\ session' = [session EXCEPT !.ids = session.ids \cup {p.id}]
          /\ received' = IF p.id \in session.ids THEN received ELSE received \cup {p.msg}
          /\ toclient' = toclient \o <<a>>
      BY <1>8, <2>6, <3>1 DEF BrokerTakes, Push
    <3>4. /\ session'.subs = session.subs /\ session'.ids = session.ids \cup {p.id}
          /\ Shape(session')
      BY <1>4, <2>1, <3>3, SessionParts
    <3>5. Sent(p, call, handlers, session, received) =>
             Answered(a, call, handlers, session', received')
      BY <2>1, <2>6, <3>2, <3>3, <3>4 DEF Sent, Answered
    <3>6. p \in Mine
      BY <2>2, <2>6
    <3> QED BY <1>1, <1>2, <2>3, <3>2, <3>3, <3>4, <3>5, <3>6, AnswerKeeps
  <2> QED BY <2>2, <2>4, <2>5, <2>6
<1>9. CASE BrokerReleases(p)
  <2>1. p.type = "PUBREL" /\ p \in Mine /\ p.id \in Nat
    BY <1>3, <1>9, FromClient DEF BrokerReleases
  <2>2. PICK a : a = [type |-> "PUBCOMP", id |-> p.id]
    OBVIOUS
  <2>3. a \in Theirs /\ a.type = "PUBCOMP"
    BY <2>1, <2>2, Built
  <2>4. /\ session' = [session EXCEPT !.ids = session.ids \ {p.id}]
        /\ toclient' = toclient \o <<a>> /\ received' = received /\ open' = open
    BY <1>9, <2>2 DEF BrokerReleases, Push
  <2>5. /\ session'.subs = session.subs /\ session'.ids = session.ids \ {p.id}
        /\ Shape(session')
    BY <1>4, <2>4, SessionParts
  <2>6. Sent(p, call, handlers, session, received) =>
           Answered(a, call, handlers, session', received')
    BY <2>1, <2>3, <2>4, <2>5 DEF Sent, Answered
  <2>7. tobroker' = Tail(tobroker)
    BY <1>2, <2>1
  <2> QED BY <1>1, <1>2, <2>1, <2>3, <2>4, <2>5, <2>6, <2>7, AnswerKeeps
<1>10. CASE BrokerAcked(p)
  <2>1. p.type \in {"PUBACK", "PUBREC", "PUBCOMP"} /\ p \notin Mine /\ p.msg \in Inbound
    BY <1>3, <1>10, FromClient DEF BrokerAcked
  <2>2. PICK x : session' = [session EXCEPT !.out = x]
    BY <1>10 DEF BrokerAcked
  <2>3. session'.subs = session.subs /\ session'.ids = session.ids /\ Shape(session')
    BY <1>4, <2>2, SessionParts
  <2>4. /\ received' = received /\ open' = open
        /\ tobroker' = Tail(tobroker)
    BY <1>2, <1>10, <2>1 DEF BrokerAcked
  <2>5. \/ toclient' = toclient \o <<>>
        \/ \E a \in Messages : a.type # "PUBLISH" /\ toclient' = toclient \o <<a>>
    <3>1. PICK a : a = [type |-> "PUBREL", msg |-> p.msg]
      OBVIOUS
    <3>2. a \in Messages /\ a.type # "PUBLISH"
      BY <2>1, <3>1, Built
    <3>3. toclient' = toclient \o <<>> \/ toclient' = toclient \o <<a>>
      BY <1>10, <3>1 DEF BrokerAcked, Push
    <3> QED BY <3>2, <3>3
  <2> QED BY <1>1, <1>2, <2>1, <2>3, <2>4, <2>5, OtherKeeps
<1>11. CASE BrokerDisconnect(p)
  <2>1. /\ session' = NoSession /\ open' = FALSE /\ tobroker' = <<>>
        /\ UNCHANGED <<toclient, received>>
    BY <1>2, <1>11 DEF BrokerDisconnect
  <2>2. /\ tobroker' \in ToBroker /\ toclient' \in ToClient /\ Shape(session')
        /\ pushed' \subseteq Inbound /\ OnTheWay(toclient', pushed', handled')
    BY <1>2, <2>1, EmptyQueues DEF MqttInv, Typed
  <2> QED BY <1>2, <2>1, <2>2, BrokerKeeps
<1> QED BY <1>1, <1>5, <1>6, <1>7, <1>8, <1>9, <1>10, <1>11 DEF BrokerReads

---------------------------------------------------------------------------
(***************************************************************************)
(* cycle().                                                                *)
(***************************************************************************)

(* Handlers called are counted by a number.                                *)
LEMMA HandedType ==
    ASSUME Typed, NEW m \in Inbound
    PROVE  /\ Handed(m) \in Nat
           /\ IsFiniteSet({f \in handlers : Delivered(f, TopicOf[m])})
<1> DEFINE S == {f \in handlers : Delivered(f, TopicOf[m])}
<1>1. IsFiniteSet(handlers) /\ S \subseteq handlers /\ handled[m] \in Nat
  BY DEF Typed
<1> HIDE DEF S
<1>2. IsFiniteSet(S) /\ Cardinality(S) \in Nat
  BY <1>1, FS_Subset, FS_CardinalityType
<1>3. Handed(m) = IF handled[m] + Cardinality(S) > 2 THEN 2 ELSE handled[m] + Cardinality(S)
  BY DEF Handed, S
<1>4. Handed(m) \in Nat
  BY <1>1, <1>2, <1>3
<1> QED BY <1>2, <1>4 DEF S

(* What reading the next packet does to the queue and to the messages.     *)
LEMMA CycleReads ==
    ASSUME MqttInv, cycle, NEW p, p = Head(toclient)
    PROVE  /\ p \in Theirs \cup Messages
           /\ toclient' = Tail(toclient) /\ toclient' \in ToClient
           /\ handled' \in [Inbound -> Nat]
           /\ OnTheWay(toclient', pushed', handled')
           /\ acknowledged' \subseteq Inbound
           /\ open /\ toclient # <<>>
           /\ Live \/ (call.op = "yield" /\ ~isconnected)
           /\ Live => /\ OneToken(call, handlers, session, received, tobroker, toclient)
                      /\ Expected(handlers, session, toclient)
           /\ UNCHANGED <<open, session, pushed, received>>
<1>1. /\ ~Idle /\ open /\ toclient # <<>>
      /\ toclient' = Tail(toclient)
      /\ UNCHANGED <<open, session, pushed, received>>
  BY DEF cycle
<1>2. toclient \in ToClient /\ handled \in [Inbound -> Nat] /\ call \in Calls
      /\ OnTheWay(toclient, pushed, handled)
  BY DEF MqttInv, Typed
<1>3. p \in Theirs \cup Messages
  <2>1. toclient \in Seq(Theirs \cup Messages)
    BY <1>2 DEF ToClient
  <2> QED BY <1>1, <2>1
<1>4. toclient' \in ToClient
  BY <1>1, <1>2, AtTail DEF ToClient
<1>5. deliverMessage(p)
  BY DEF cycle
<1>6. handled' \in [Inbound -> Nat] /\ OnTheWay(toclient', pushed', handled')
  <2>1. CASE p.type = "PUBLISH"
    <3>1. p.msg \in Inbound
      BY <1>3, <2>1, FromBroker
    <3>2. Handed(p.msg) \in Nat
      BY <3>1, HandedType DEF MqttInv
    <3>3. handled' = [handled EXCEPT ![p.msg] = Handed(p.msg)]
      BY <1>5, <2>1 DEF deliverMessage
    <3>4. OnTheWay(Tail(toclient), pushed, [handled EXCEPT ![p.msg] = Handed(p.msg)])
      BY <1>1, <1>2, <2>1, WayHandled
    <3> QED BY <1>1, <1>2, <3>2, <3>3, <3>4
  <2>2. CASE p.type # "PUBLISH"
    <3>1. handled' = handled
      BY <1>5, <2>2 DEF deliverMessage
    <3> QED BY <1>1, <1>2, <3>1, WayTail
  <2> QED BY <2>1, <2>2
<1>7. acknowledged' \subseteq Inbound
  <2>1. acknowledged \subseteq Inbound
    BY DEF MqttInv, Kept
  <2>2. CASE Reply(p) = {}
    BY <2>1, <2>2 DEF cycle
  <2>3. CASE Reply(p) # {}
    <3>1. acknowledged' = acknowledged \cup
             {m \in Inbound : p.type = "PUBLISH" /\ m = p.msg /\ tobroker' # tobroker}
      BY <2>3 DEF cycle
    <3> QED BY <2>1, <3>1
  <2> QED BY <2>2, <2>3
<1>8. Live \/ (call.op = "yield" /\ ~isconnected)
  BY <1>1, <1>2, CallKinds DEF MqttInv, CallState, Live, Idle
<1> QED BY <1>1, <1>3, <1>4, <1>6, <1>7, <1>8 DEF MqttInv, SessionInv

(* A call that has its answer ends: the broker's filters are the handlers'.*)
LEMMA EndKeeps ==
    ASSUME MqttInv, cycle, Live, Head(toclient) \in Theirs,
           call' = NoCall, isconnected' = TRUE, handlers' = session.subs,
           IsFiniteSet(handlers'), Cardinality(handlers') <= MaxHandlers,
           session.ids = {}, next_packetid' = next_packetid, tobroker' = tobroker,
           succeeded' \subseteq received
    PROVE  MqttInv'
<1> DEFINE p == Head(toclient)
<1>1. /\ toclient' = Tail(toclient) /\ toclient' \in ToClient
      /\ handled' \in [Inbound -> Nat]
      /\ OnTheWay(toclient', pushed', handled')
      /\ acknowledged' \subseteq Inbound
      /\ OneToken(call, handlers, session, received, tobroker, toclient)
      /\ Expected(handlers, session, toclient) /\ toclient # <<>>
      /\ UNCHANGED <<open, session, pushed, received>>
  BY CycleReads
<1>2. /\ toclient \in ToClient /\ Shape(session) /\ session.subs \subseteq Topics
      /\ next_packetid \in Nat /\ tobroker \in ToBroker /\ open \in BOOLEAN
      /\ pushed \subseteq Inbound
  BY DEF MqttInv, Typed, Shape
<1>3. Typed'
  <2>1. call' \in Calls
    BY DEF Calls
  <2> QED BY <1>1, <1>2, <2>1 DEF Typed
<1>4. CallState' /\ Kept'
  BY <1>1 DEF CallState, Kept, NoCall
<1>5. /\ At(tobroker, Mine) = {} /\ At(Tail(toclient), Theirs) = {}
  BY <1>1, <1>2, TokenBack
<1>6. OneToken(call', handlers', session', received', tobroker', toclient')
  BY <1>1, <1>5 DEF OneToken, NoCall
<1>7. Expected(handlers', session', toclient')
  BY <1>1, <1>2, <1>5, ExpectedBack
<1> QED BY <1>1, <1>3, <1>4, <1>6, <1>7 DEF MqttInv, SessionInv

(* The handler table after a subscription or an end of one.                *)
LEMMA HandlerTable ==
    ASSUME Typed, NEW t
    PROVE  /\ t \in handlers \/ Cardinality(handlers) < MaxHandlers =>
                /\ IsFiniteSet(handlers \cup {t})
                /\ Cardinality(handlers \cup {t}) <= MaxHandlers
           /\ IsFiniteSet(handlers \ {t}) /\ Cardinality(handlers \ {t}) <= MaxHandlers
<1>1. IsFiniteSet(handlers) /\ Cardinality(handlers) <= MaxHandlers /\ MaxHandlers \in Nat
      /\ Cardinality(handlers) \in Nat
  BY FS_CardinalityType, MqttAssumption DEF Typed
<1>2. ASSUME t \in handlers \/ Cardinality(handlers) < MaxHandlers
      PROVE  /\ IsFiniteSet(handlers \cup {t})
             /\ Cardinality(handlers \cup {t}) <= MaxHandlers
  <2>1. CASE t \in handlers
    <3>1. handlers \cup {t} = handlers
      BY <2>1
    <3> QED BY <1>1, <3>1
  <2>2. CASE t \notin handlers
    <3>1. /\ IsFiniteSet(handlers \cup {t})
          /\ Cardinality(handlers \cup {t}) = Cardinality(handlers) + 1
      BY <1>1, <2>2, FS_AddElement
    <3> QED BY <1>1, <1>2, <2>2, <3>1
  <2> QED BY <2>1, <2>2
<1>3. IsFiniteSet(handlers \ {t}) /\ Cardinality(handlers \ {t}) <= MaxHandlers
  <2>1. handlers \ {t} \subseteq handlers
    OBVIOUS
  <2>2. /\ IsFiniteSet(handlers \ {t}) /\ Cardinality(handlers \ {t}) <= Cardinality(handlers)
        /\ Cardinality(handlers \ {t}) \in Nat
    BY <1>1, <2>1, FS_Subset, FS_CardinalityType
  <2> QED BY <1>1, <2>2
<1> QED BY <1>2, <1>3

(* The answer that the call was waiting for.                               *)
LEMMA AnsweredKeeps ==
    ASSUME MqttInv, cycle, Live, NEW p, p = Head(toclient), p \in Theirs, p.type # "PUBREC"
    PROVE  MqttInv'
<1>1. /\ toclient' = Tail(toclient) /\ toclient' \in ToClient
      /\ handled' \in [Inbound -> Nat]
      /\ OnTheWay(toclient', pushed', handled')
      /\ acknowledged' \subseteq Inbound
      /\ Live /\ toclient # <<>>
      /\ OneToken(call, handlers, session, received, tobroker, toclient)
      /\ UNCHANGED <<open, session, pushed, received>>
  BY CycleReads
<1>2. /\ toclient \in ToClient /\ tobroker \in ToBroker /\ next_packetid \in Nat
      /\ IsFiniteSet(handlers) /\ Cardinality(handlers) <= MaxHandlers
      /\ isconnected \in BOOLEAN
      /\ Typed /\ Kept
  BY DEF MqttInv, Typed
<1>3. Answered(p, call, handlers, session, received)
  BY <1>1, <1>2, TokenBack
<1>4. p.type \notin {"PUBLISH", "PUBREL", "PUBREC"}
  BY FromBroker
<1>5. Reply(p) = {}
  BY <1>4 DEF Reply
<1>6. p.type = Answer
  BY <1>3, <1>4 DEF Answered, Answer
<1>7. CallEnds(p) /\ tobroker' = tobroker
  BY <1>5, <1>6 DEF cycle
<1>8. call' = NoCall
  BY <1>7 DEF CallEnds
<1>9. CASE call.op = "connect"
  <2>1. /\ isconnected' = p.granted
        /\ UNCHANGED <<handlers, next_packetid, succeeded>>
    BY <1>7, <1>9 DEF CallEnds
  <2>2. handlers = {} /\ session.subs = {} /\ session.ids = {} /\ p.type = "CONNACK"
    BY <1>3, <1>9 DEF Answered
  <2>3. p.granted \in BOOLEAN
    BY <2>2, FromBroker
  <2>4. CASE p.granted = TRUE
    <3>1. succeeded' \subseteq received
      BY <1>2, <2>1 DEF Kept
    <3> QED BY <1>2, <1>7, <1>8, <2>1, <2>2, <2>4, <3>1, EndKeeps
  <2>5. CASE p.granted = FALSE
    BY <1>1, <1>2, <1>7, <1>8, <2>1, <2>2, <2>5, ClosingKeeps
  <2> QED BY <2>3, <2>4, <2>5
<1>10. ASSUME call.op # "connect" PROVE isconnected = TRUE
  BY <1>1, <1>2, <1>10 DEF Live
<1>11. CASE call.op = "subscribe"
  <2>1. SubscribeEnds(p)
    BY <1>7, <1>11 DEF CallEnds
  <2>2. /\ p.granted = (call.arg \notin Refused)
        /\ session.subs = handlers \cup ({call.arg} \ Refused) /\ session.ids = {}
    BY <1>3, <1>11 DEF Answered
  <2>3. succeeded' \subseteq received /\ UNCHANGED <<next_packetid, succeeded>>
    BY <1>2, <2>1 DEF Kept, SubscribeEnds
  <2>4. CASE call.arg \in Refused
    <3>1. session.subs = handlers
      BY <2>2, <2>4
    <3>2. UNCHANGED <<isconnected, handlers>>
      BY <2>1, <2>2, <2>4 DEF SubscribeEnds
    <3> QED BY <1>2, <1>7, <1>8, <1>10, <1>11, <2>2, <2>3, <3>1, <3>2, EndKeeps
  <2>5. CASE call.arg \notin Refused
    <3>1. session.subs = handlers \cup {call.arg} /\ SetHandler(call.arg)
      BY <2>1, <2>2, <2>5 DEF SubscribeEnds
    <3>2. CASE call.arg \in handlers \/ Cardinality(handlers) < MaxHandlers
      <4>1. handlers' = handlers \cup {call.arg} /\ UNCHANGED isconnected
        BY <3>1, <3>2 DEF SetHandler
      <4>2. IsFiniteSet(handlers') /\ Cardinality(handlers') <= MaxHandlers
        BY <1>2, <3>2, <4>1, HandlerTable
      <4> QED BY <1>7, <1>8, <1>10, <1>11, <2>2, <2>3, <3>1, <4>1, <4>2, EndKeeps
    <3>3. CASE ~(call.arg \in handlers \/ Cardinality(handlers) < MaxHandlers)
      <4>1. isconnected' = FALSE /\ handlers' = {}
        BY <3>1, <3>3 DEF SetHandler, MQTTCloseSession
      <4> QED BY <1>1, <1>2, <1>7, <1>8, <2>3, <4>1, ClosingKeeps
    <3> QED BY <3>2, <3>3
  <2> QED BY <2>4, <2>5
<1>12. CASE call.op = "unsubscribe"
  <2>1. handlers' = handlers \ {call.arg} /\ UNCHANGED <<isconnected, next_packetid, succeeded>>
    BY <1>7, <1>12 DEF CallEnds
  <2>2. session.subs = handlers \ {call.arg} /\ session.ids = {}
    BY <1>3, <1>12 DEF Answered
  <2>3. IsFiniteSet(handlers') /\ Cardinality(handlers') <= MaxHandlers
    BY <1>2, <2>1, HandlerTable
  <2>4. succeeded' \subseteq received
    BY <1>2, <2>1 DEF Kept
  <2> QED BY <1>7, <1>8, <1>10, <1>12, <2>1, <2>2, <2>3, <2>4, EndKeeps
<1>13. CASE call.op = "publish"
  <2>1. /\ succeeded' = succeeded \cup {call.arg}
        /\ UNCHANGED <<isconnected, handlers, next_packetid>>
    BY <1>7, <1>13 DEF CallEnds
  <2>2. call.arg \in received /\ handlers = session.subs /\ session.ids = {}
    BY <1>3, <1>4, <1>13 DEF Answered
  <2>3. succeeded' \subseteq received
    BY <1>2, <2>1, <2>2 DEF Kept
  <2> QED BY <1>2, <1>7, <1>8, <1>10, <1>13, <2>1, <2>2, <2>3, EndKeeps
<1> QED BY <1>3, <1>9, <1>11, <1>12, <1>13 DEF Answered

(* The call goes on: the token stays one, in the queues that cycle leaves. *)
LEMMA WaitingKeeps ==
    ASSUME MqttInv, cycle, tobroker' \in ToBroker, UNCHANGED <<clientvars, succeeded>>,
           OneToken(call, handlers, session, received, tobroker', Tail(toclient)),
           Expected(handlers, session, Tail(toclient))
    PROVE  MqttInv'
<1>1. /\ toclient' = Tail(toclient) /\ toclient' \in ToClient
      /\ handled' \in [Inbound -> Nat]
      /\ OnTheWay(toclient', pushed', handled')
      /\ acknowledged' \subseteq Inbound
      /\ UNCHANGED <<open, session, pushed, received>>
  BY CycleReads
<1>2. Typed'
  BY <1>1 DEF MqttInv, Typed, clientvars
<1>3. CallState'
  BY DEF MqttInv, CallState, clientvars
<1>4. Kept'
  BY <1>1 DEF MqttInv, Kept
<1>5. SessionInv'
  BY <1>1 DEF SessionInv, clientvars
<1> QED BY <1>1, <1>2, <1>3, <1>4, <1>5 DEF MqttInv

(* What cycle() sends for a packet.                                        *)
LEMMA ReplyType ==
    ASSUME NEW p \in Theirs \cup Messages, NEW r \in Reply(p)
    PROVE  \/ p \in Messages /\ r \in Others
           \/ /\ p \in Theirs /\ p.type = "PUBREC"
              /\ r = [type |-> "PUBREL", id |-> p.id] /\ r \in Mine
<1>1. CASE p.type \in {"PUBLISH", "PUBREL"}
  <2>1. p \in Messages /\ p.msg \in Inbound
    BY <1>1, FromBroker
  <2>2. r \in {[type |-> "PUBACK", msg |-> p.msg], [type |-> "PUBREC", msg |-> p.msg],
               [type |-> "PUBCOMP", msg |-> p.msg]}
    BY <1>1 DEF Reply
  <2> QED BY <2>1, <2>2, Built
<1>2. CASE p.type = "PUBREC"
  <2>1. p \in Theirs /\ p.id \in Nat
    BY <1>2, FromBroker
  <2>2. r = [type |-> "PUBREL", id |-> p.id]
    BY <1>2 DEF Reply
  <2> QED BY <1>2, <2>1, <2>2, Built
<1>3. CASE p.type \notin {"PUBLISH", "PUBREL", "PUBREC"}
  BY <1>3 DEF Reply
<1> QED BY <1>1, <1>2, <1>3

(* MQTTYield without a session: nothing is said of what it reads.          *)
LEMMA LateKeeps ==
    ASSUME MqttInv, cycle, call.op = "yield", ~isconnected
    PROVE  MqttInv'
<1>1. PICK p : p = Head(toclient)
  OBVIOUS
<1>2. /\ p \in Theirs \cup Messages
      /\ toclient' = Tail(toclient) /\ toclient' \in ToClient
      /\ handled' \in [Inbound -> Nat]
      /\ OnTheWay(toclient', pushed', handled')
      /\ acknowledged' \subseteq Inbound
      /\ UNCHANGED <<open, session, pushed, received>>
  BY <1>1, CycleReads
<1>3. /\ tobroker \in ToBroker /\ next_packetid \in Nat /\ isconnected \in BOOLEAN
      /\ Typed /\ Kept
  BY DEF MqttInv, Typed
<1>4. ASSUME tobroker' \in ToBroker, UNCHANGED <<clientvars, succeeded>>
      PROVE  MqttInv'
  <2>1. Typed'
    BY <1>2, <1>3, <1>4 DEF Typed, clientvars
  <2>2. CallState' /\ ~Live'
    BY <1>4 DEF MqttInv, CallState, Live, clientvars
  <2>3. Kept'
    BY <1>2, <1>3, <1>4 DEF Kept
  <2> QED BY <1>2, <2>1, <2>2, <2>3 DEF MqttInv, SessionInv
<1>5. CASE Reply(p) = {}
  <2>1. p.type # Answer
    BY <1>2, FromBroker DEF Answer
  <2>2. UNCHANGED <<clientvars, succeeded>> /\ tobroker' = tobroker
    BY <1>1, <1>5, <2>1 DEF cycle
  <2> QED BY <1>3, <1>4, <2>2
<1>6. CASE Reply(p) # {}
  <2>1. PICK r \in Reply(p) :
          /\ \/ /\ sendPacket(r)
                /\ UNCHANGED <<clientvars, faults>>
             \/ /\ SendFails(r)
                /\ CloseIfConnected
                /\ call' = NoCall
                /\ UNCHANGED next_packetid
          /\ UNCHANGED succeeded
    BY <1>1, <1>6 DEF cycle
  <2>2. r \in Mine \cup Others
    BY <1>2, ReplyType
  <2>3. CASE sendPacket(r) /\ UNCHANGED <<clientvars, faults>>
    <3>1. tobroker' \in ToBroker
      BY <1>3, <2>2, <2>3, Appended DEF sendPacket, ToBroker
    <3> QED BY <1>4, <2>1, <2>3, <3>1
  <2>4. CASE SendFails(r) /\ CloseIfConnected /\ call' = NoCall /\ UNCHANGED next_packetid
    <3>1. tobroker' \in ToBroker
      BY <1>3, <2>2, <2>4, SentOrNot DEF SendFails
    <3>2. isconnected' = FALSE /\ handlers' = handlers
      BY <1>3, <2>4 DEF CloseIfConnected
    <3> QED BY <1>2, <1>3, <2>1, <2>4, <3>1, <3>2, ClosingKeeps
  <2> QED BY <2>1, <2>3, <2>4
<1> QED BY <1>5, <1>6

(* cycle() reads an answer, or a message that it may have to acknowledge.  *)
LEMMA LiveCycleKeeps ==
    ASSUME MqttInv, cycle, Live
    PROVE  MqttInv'
<1>1. PICK p : p = Head(toclient)
  OBVIOUS
<1>2. /\ p \in Theirs \cup Messages
      /\ toclient' = Tail(toclient) /\ toclient' \in ToClient
      /\ handled' \in [Inbound -> Nat]
      /\ OnTheWay(toclient', pushed', handled')
      /\ acknowledged' \subseteq Inbound
      /\ toclient # <<>>
      /\ OneToken(call, handlers, session, received, tobroker, toclient)
      /\ Expected(handlers, session, toclient)
      /\ UNCHANGED <<open, session, pushed, received>>
  BY <1>1, CycleReads
<1>3. /\ toclient \in ToClient /\ tobroker \in ToBroker /\ next_packetid \in Nat
      /\ Typed /\ Kept
  BY DEF MqttInv, Typed
<1>4. CASE Reply(p) = {}
  <2>1. CASE p \in Theirs
    <3>1. p.type # "PUBREC"
      <4>1. ASSUME p.type = "PUBREC" PROVE Reply(p) = {[type |-> "PUBREL", id |-> p.id]}
        BY <4>1 DEF Reply
      <4> QED BY <1>4, <4>1
    <3> QED BY <1>1, <2>1, <3>1, AnsweredKeeps
  <2>2. CASE p \notin Theirs
    <3>1. p.type \in {"PUBLISH", "PUBREL"}
      BY <1>2, <2>2, FromBroker
    <3>2. Answer \notin {"PUBLISH", "PUBREL"}
      BY DEF Answer
    <3>3. UNCHANGED <<clientvars, succeeded>> /\ tobroker' = tobroker
      BY <1>1, <1>4, <3>1, <3>2 DEF cycle
    <3>4. OneToken(call, handlers, session, received, tobroker', Tail(toclient))
      BY <1>1, <1>2, <1>3, <2>2, <3>3, TokenTail
    <3>5. Expected(handlers, session, Tail(toclient))
      BY <1>1, <1>2, <1>3, <2>2, ExpectedTail
    <3> QED BY <1>3, <3>3, <3>4, <3>5, WaitingKeeps
  <2> QED BY <2>1, <2>2
<1>5. CASE Reply(p) # {}
  <2>1. PICK r \in Reply(p) :
          /\ \/ /\ sendPacket(r)
                /\ UNCHANGED <<clientvars, faults>>
             \/ /\ SendFails(r)
                /\ CloseIfConnected
                /\ call' = NoCall
                /\ UNCHANGED next_packetid
          /\ UNCHANGED succeeded
    BY <1>1, <1>5 DEF cycle
  <2>2. \/ p \in Messages /\ r \in Others
        \/ p \in Theirs /\ p.type = "PUBREC" /\ r = [type |-> "PUBREL", id |-> p.id] /\ r \in Mine
    BY <1>2, ReplyType
  <2>3. CASE sendPacket(r) /\ UNCHANGED <<clientvars, faults>>
    <3>1. tobroker' = Append(tobroker, r) /\ tobroker' \in ToBroker
      BY <1>3, <2>2, <2>3, Appended DEF sendPacket, ToBroker
    <3>2. CASE p \in Messages /\ r \in Others
      <4>1. p \notin Theirs
        BY <3>2, Apart
      <4>2. OneToken(call, handlers, session, received, tobroker, Tail(toclient))
        BY <1>1, <1>2, <1>3, <4>1, TokenTail
      <4>3. OneToken(call, handlers, session, received, tobroker', Tail(toclient))
        BY <1>2, <1>3, <3>1, <3>2, <4>2, TokenAppend
      <4>4. Expected(handlers, session, Tail(toclient))
        BY <1>1, <1>2, <1>3, <4>1, ExpectedTail
      <4> QED BY <2>1, <2>3, <3>1, <4>3, <4>4, WaitingKeeps
    <3>3. CASE p \in Theirs /\ p.type = "PUBREC" /\ r = [type |-> "PUBREL", id |-> p.id]
               /\ r \in Mine
      <4>1. /\ Answered(p, call, handlers, session, received)
            /\ At(tobroker, Mine) = {} /\ At(Tail(toclient), Theirs) = {}
        BY <1>1, <1>2, <1>3, <3>3, TokenBack
      <4>2. r.type = "PUBREL" /\ r.id = p.id
        BY <3>3
      <4>3. Sent(r, call, handlers, session, received) /\ handlers = session.subs
        BY <3>3, <4>1, <4>2 DEF Answered, Sent
      <4>4. OneToken(call, handlers, session, received, tobroker', Tail(toclient))
        BY <1>3, <3>1, <3>3, <4>1, <4>3, TokenStarts
      <4>5. Expected(handlers, session, Tail(toclient))
        BY <1>1, <1>2, <1>3, <3>3, <4>1, <4>3, ExpectedBack
      <4> QED BY <2>1, <2>3, <3>1, <4>4, <4>5, WaitingKeeps
    <3> QED BY <2>2, <3>2, <3>3
  <2>4. CASE SendFails(r) /\ CloseIfConnected /\ call' = NoCall /\ UNCHANGED next_packetid
    <3>1. tobroker' \in ToBroker
      BY <1>3, <2>2, <2>4, SentOrNot DEF SendFails
    <3>2. isconnected' = FALSE /\ handlers' \in {{}, handlers}
      BY <1>3, <2>4 DEF CloseIfConnected, MQTTCloseSession, Typed
    <3> QED BY <1>2, <1>3, <2>1, <2>4, <3>1, <3>2, ClosingKeeps
  <2> QED BY <2>1, <2>3, <2>4
<1> QED BY <1>4, <1>5

(* In a session or without one.                                            *)
LEMMA CycleKeeps ==
    ASSUME MqttInv, cycle
    PROVE  MqttInv'
<1>1. Live \/ (call.op = "yield" /\ ~isconnected)
  BY CycleReads
<1> QED BY <1>1, LateKeeps, LiveCycleKeeps

---------------------------------------------------------------------------
(***************************************************************************)
(* The invariant, and the properties.                                      *)
(***************************************************************************)

(* Before the first connection nothing is under way.                       *)
LEMMA MqttInit == Init => MqttInv
<1> SUFFICES ASSUME Init PROVE MqttInv
  OBVIOUS
<1>1. Typed
  <2>1. NoCall \in Calls
    BY DEF Calls
  <2> QED BY <2>1, EmptyQueues DEF Init, Typed
<1>2. CallState /\ ~Live
  BY DEF Init, CallState, Live, NoCall
<1>3. OnTheWay(toclient, pushed, handled)
  <2>1. DOMAIN <<>> = {}
    OBVIOUS
  <2> QED BY <2>1 DEF Init, OnTheWay
<1>4. Kept
  BY DEF Init, Kept
<1> QED BY <1>1, <1>2, <1>3, <1>4 DEF MqttInv, SessionInv

(* One case per action.                                                    *)
LEMMA MqttStep ==
    ASSUME MqttInv, [Next]_vars
    PROVE  MqttInv'
<1>1. CASE MQTTConnect
  BY <1>1, ConnectKeeps
<1>2. CASE MQTTYield
  <2>1. PICK c : c = [op |-> "yield", arg |-> "none"]
    OBVIOUS
  <2>2. c \in Calls /\ c.op = "yield" /\ call' = c
    BY <1>2, <2>1 DEF MQTTYield, Waiting, Calls
  <2>3. call.op = "none"
        /\ UNCHANGED <<isconnected, handlers, next_packetid, netvars, session, faults, history>>
    BY <1>2 DEF MQTTYield, Idle, NoCall
  <2> QED BY <2>2, <2>3, YieldKeeps
<1>3. CASE MQTTDisconnect
  BY <1>3, DisconnectKeeps
<1>4. CASE \E t \in Topics : MQTTSubscribe(t) \/ MQTTUnsubscribe(t)
  BY <1>4, SubscribeKeeps, UnsubscribeKeeps
<1>5. CASE \E m \in Outbound : MQTTPublish(m)
  BY <1>5, PublishKeeps
<1>6. CASE cycle
  BY <1>6, CycleKeeps
<1>7. CASE WaitFails
  BY <1>7, WaitFailsKeeps
<1>8. CASE YieldEnds
  <2>1. NoCall \in Calls /\ NoCall.op = "none" /\ call' = NoCall
    BY <1>8 DEF YieldEnds, Calls, NoCall
  <2>2. call.op = "yield"
        /\ UNCHANGED <<isconnected, handlers, next_packetid, netvars, session, faults, history>>
    BY <1>8 DEF YieldEnds, MqttInv, CallState
  <2> QED BY <2>1, <2>2, YieldKeeps
<1>9. CASE BrokerReads
  BY <1>9, ReadsKeeps
<1>10. CASE \E m \in Inbound : BrokerPush(m)
  BY <1>10, PushKeeps
<1>11. CASE Break
  BY <1>11, BreakKeeps
<1>12. CASE UNCHANGED vars
  <2>1. UNCHANGED <<isconnected, handlers, next_packetid, call, open, tobroker, toclient,
                    session, pushed, succeeded, received, handled, acknowledged>>
    BY <1>12 DEF vars, clientvars, netvars, history
  <2>2. Typed' /\ CallState' /\ Kept' /\ OnTheWay(toclient', pushed', handled')
    BY <2>1 DEF MqttInv, Typed, CallState, Kept
  <2>3. SessionInv'
    BY <2>1 DEF MqttInv, SessionInv, Live
  <2> QED BY <2>2, <2>3 DEF MqttInv
<1> QED BY <1>1, <1>2, <1>3, <1>4, <1>5, <1>6, <1>7, <1>8, <1>9, <1>10, <1>11, <1>12
        DEF Next, Call, Environment

(* The invariant holds for every set of filters and messages, every        *)
(* quality of service and every number of failures.                        *)
THEOREM MqttKept == Spec => []MqttInv
<1>1. Init => MqttInv
  BY MqttInit
<1>2. MqttInv /\ [Next]_vars => MqttInv'
  BY MqttStep
<1> QED BY <1>1, <1>2, PTL DEF Spec

(* A publish that is reported as SUCCESS is at the broker: the answer that *)
(* the call takes for its own can only be the one to its own packet, since *)
(* a session that fails is never used again and a new one starts with      *)
(* empty queues.                                                           *)
THEOREM SuccessAlwaysReceived == Spec => []SuccessMeansReceived
<1>1. MqttInv => SuccessMeansReceived
  BY DEF MqttInv, Kept, SuccessMeansReceived
<1> QED BY <1>1, MqttKept, PTL

(* The handler table does not grow past its slots, and between two calls   *)
(* of an open session it holds the broker's subscriptions.                 *)
THEOREM HandlersAlwaysMatch == Spec => []HandlersMatchSubscriptions
<1>1. MqttInv => HandlersMatchSubscriptions
  <2>1. ASSUME MqttInv PROVE Cardinality(handlers) <= MaxHandlers
    BY <2>1 DEF MqttInv, Typed
  <2>2. ASSUME MqttInv, isconnected, Idle, open PROVE handlers = session.subs
    BY <2>2, BetweenCalls
  <2> QED BY <2>1, <2>2 DEF HandlersMatchSubscriptions
<1> QED BY <1>1, MqttKept, PTL

---------------------------------------------------------------------------
(* Only cycle() hands messages over and acknowledges them.                 *)
LEMMA OthersDoNotHandle ==
    ASSUME [Next]_vars, ~cycle
    PROVE  UNCHANGED <<handled, acknowledged, late>>
<1>1. CASE Call
  BY <1>1 DEF Call, MQTTConnect, MQTTYield, MQTTDisconnect, MQTTSubscribe, MQTTUnsubscribe,
              MQTTPublish, history
<1>2. CASE WaitFails \/ YieldEnds
  BY <1>2 DEF WaitFails, YieldEnds, history
<1>3. CASE Environment
  BY <1>3 DEF Environment, BrokerReads, BrokerPush, Break, history
<1>4. CASE UNCHANGED vars
  BY <1>4 DEF vars, history
<1> QED BY <1>1, <1>2, <1>3, <1>4 DEF Next

(* No message passes two of the filters that the client may subscribe to.  *)
NonOverlap ==
    \A m \in Inbound, f, g \in Topics :
        Delivered(f, TopicOf[m]) /\ Delivered(g, TopicOf[m]) => f = g

(* No message is handled twice when no two filters overlap: the broker     *)
(* sends it once in a session, the sessions after a failure are clean, and *)
(* the release of a QoS 2 message delivers nothing.                        *)
THEOREM HandledOnce ==
    ASSUME NonOverlap
    PROVE  Spec => []HandledAtMostOnce
<1>1. Init => HandledAtMostOnce
  BY DEF Init, HandledAtMostOnce
<1>2. ASSUME MqttInv, HandledAtMostOnce, [Next]_vars
      PROVE  HandledAtMostOnce'
  <2>1. CASE ~cycle
    BY <1>2, <2>1, OthersDoNotHandle DEF HandledAtMostOnce
  <2>2. CASE cycle
    <3>1. PICK p : p = Head(toclient)
      OBVIOUS
    <3>2. p \in Theirs \cup Messages /\ toclient # <<>>
      BY <1>2, <2>2, <3>1, CycleReads
    <3>3. deliverMessage(p)
      BY <2>2, <3>1 DEF cycle
    <3>4. CASE p.type # "PUBLISH"
      BY <1>2, <3>3, <3>4 DEF deliverMessage, HandledAtMostOnce
    <3>5. CASE p.type = "PUBLISH"
      <4> DEFINE S == {f \in handlers : Delivered(f, TopicOf[p.msg])}
      <4>1. p.msg \in Inbound
        BY <3>2, <3>5, FromBroker
      <4>2. handled[p.msg] = 0
        <5>1. 1 \in DOMAIN toclient /\ toclient[1] = p
          BY <1>2, <3>1, <3>2, AtTail DEF MqttInv, Typed, ToClient
        <5> QED BY <1>2, <3>5, <5>1 DEF MqttInv, OnTheWay
      <4>3. IsFiniteSet(S) /\ Cardinality(S) <= 1 /\ Cardinality(S) \in Nat
        <5>1. IsFiniteSet(S)
          BY <1>2, <4>1, HandedType DEF MqttInv
        <5>2. handlers \subseteq Topics
          BY <1>2 DEF MqttInv, Typed
        <5>3. \A f, g \in S : f = g
          BY <4>1, <5>2 DEF NonOverlap
        <5>4. S = {} \/ \E x : S = {x}
          BY <5>3
        <5> HIDE DEF S
        <5> QED BY <5>1, <5>4, FS_EmptySet, FS_Singleton
      <4>4. Handed(p.msg) = IF 0 + Cardinality(S) > 2 THEN 2 ELSE 0 + Cardinality(S)
        BY <4>2 DEF Handed
      <4> HIDE DEF S
      <4>5. Handed(p.msg) <= 1
        BY <4>3, <4>4
      <4>6. handled' = [handled EXCEPT ![p.msg] = Handed(p.msg)]
        BY <3>3, <3>5 DEF deliverMessage
      <4>7. handled \in [Inbound -> Nat]
        BY <1>2 DEF MqttInv, Typed
      <4> QED BY <1>2, <4>1, <4>5, <4>6, <4>7 DEF HandledAtMostOnce
    <3> QED BY <3>4, <3>5
  <2> QED BY <2>1, <2>2
<1>3. MqttInv /\ HandledAtMostOnce /\ [Next]_vars => HandledAtMostOnce'
  BY <1>2
<1> QED BY <1>1, <1>3, MqttKept, PTL DEF Spec

(* A message that matches a filter passes deliverMessage's test for it,    *)
(* unless # stands for no level: what the run checks as DeliversByFilter.  *)
Routes ==
    \A m \in Inbound, f \in Topics : Routed(f, TopicOf[m]) => Delivered(f, TopicOf[m])

(* A message that the client has acknowledged has been handled, was read   *)
(* by a MQTTYield without a session, or names the parent level of a #.     *)
(* Although the table changes only after the broker's, the answer that     *)
(* changes it is in the queue in front of every message it is needed for.  *)
THEOREM AcknowledgedAlwaysHandled ==
    ASSUME Routes
    PROVE  Spec => []AcknowledgedWasHandled
<1>1. Init => AcknowledgedWasHandled
  BY DEF Init, AcknowledgedWasHandled
<1>2. ASSUME MqttInv, AcknowledgedWasHandled, [Next]_vars
      PROVE  AcknowledgedWasHandled'
  <2>1. CASE ~cycle
    BY <1>2, <2>1, OthersDoNotHandle DEF AcknowledgedWasHandled
  <2>2. CASE cycle
    <3>1. PICK p : p = Head(toclient)
      OBVIOUS
    <3>2. /\ p \in Theirs \cup Messages /\ toclient # <<>>
          /\ isconnected => Expected(handlers, session, toclient)
      BY <1>2, <2>2, <3>1, CycleReads DEF Live
    <3>3. late' = late \cup {m \in Inbound : p.type = "PUBLISH" /\ m = p.msg /\ ~isconnected}
      BY <2>2, <3>1 DEF cycle
    <3>4. deliverMessage(p)
      BY <2>2, <3>1 DEF cycle
    <3>5. \A m \in acknowledged' : m \in acknowledged \/ (p.type = "PUBLISH" /\ m = p.msg)
      <4>1. CASE Reply(p) = {}
        BY <2>2, <3>1, <4>1 DEF cycle
      <4>2. CASE Reply(p) # {}
        <5>1. acknowledged' = acknowledged \cup
                {m \in Inbound : p.type = "PUBLISH" /\ m = p.msg /\ tobroker' # tobroker}
          BY <2>2, <3>1, <4>2 DEF cycle
        <5> QED BY <5>1
      <4> QED BY <4>1, <4>2
    <3>6. CASE p.type # "PUBLISH"
      BY <1>2, <3>4, <3>5, <3>6, <3>3 DEF deliverMessage, AcknowledgedWasHandled
    <3>7. CASE p.type = "PUBLISH"
      <4> DEFINE S == {f \in handlers : Delivered(f, TopicOf[p.msg])}
      <4>1. p.msg \in Inbound
        BY <3>2, <3>7, FromBroker
      <4>2. ASSUME isconnected, ~NamesParent(p.msg)
            PROVE  S # {}
        <5>1. PICK f \in handlers : Matches(f, TopicOf[p.msg])
          BY <1>2, <3>1, <3>2, <3>7, <4>2, ExpectedNow DEF MqttInv, Typed
        <5>2. f \in Topics
          BY <1>2, <5>1 DEF MqttInv, Typed
        <5>3. Routed(f, TopicOf[p.msg])
          BY <4>2, <5>1, <5>2 DEF Routed, NamesParent
        <5> QED BY <4>1, <5>1, <5>2, <5>3 DEF Routes
      <4>3. IsFiniteSet(S)
        BY <1>2, <4>1, HandedType DEF MqttInv
      <4>4. handled \in [Inbound -> Nat]
        BY <1>2 DEF MqttInv, Typed
      <4>5. /\ Handed(p.msg) = IF handled[p.msg] + Cardinality(S) > 2
                                 THEN 2 ELSE handled[p.msg] + Cardinality(S)
        BY DEF Handed
      <4> HIDE DEF S
      <4>6. Cardinality(S) \in Nat /\ (S # {} => Cardinality(S) # 0)
        BY <4>3, FS_CardinalityType, FS_EmptySet
      <4>7. handled[p.msg] \in Nat
        BY <4>1, <4>4
      <4>8. (S # {} => Handed(p.msg) > 0) /\ (handled[p.msg] > 0 => Handed(p.msg) > 0)
        BY <4>5, <4>6, <4>7
      <4>9. handled' = [handled EXCEPT ![p.msg] = Handed(p.msg)]
        BY <3>4, <3>7 DEF deliverMessage
      <4>10. handled'[p.msg] > 0 \/ p.msg \in late' \/ NamesParent(p.msg)
        BY <3>7, <3>3, <4>1, <4>2, <4>4, <4>8, <4>9
      <4>11. ASSUME NEW m \in acknowledged
             PROVE  handled'[m] > 0 \/ m \in late' \/ NamesParent(m)
        <5>1. m \in Inbound
          BY <1>2 DEF MqttInv, Kept
        <5>2. handled[m] > 0 \/ m \in late \/ NamesParent(m)
          BY <1>2 DEF AcknowledgedWasHandled
        <5>3. m # p.msg => handled'[m] = handled[m]
          BY <4>4, <4>9, <5>1
        <5> QED BY <3>3, <4>10, <5>2, <5>3
      <4> QED BY <3>5, <4>10, <4>11 DEF AcknowledgedWasHandled
    <3> QED BY <3>6, <3>7
  <2> QED BY <2>1, <2>2
<1>3. MqttInv /\ AcknowledgedWasHandled /\ [Next]_vars => AcknowledgedWasHandled'
  BY <1>2
<1> QED BY <1>1, <1>3, MqttKept, PTL DEF Spec
============================================================================
