-------------------------- MODULE KeepAliveProofs --------------------------
(***************************************************************************)
(* Proofs for all lengths of the timers.                                   *)
(*                                                                         *)
(* First the types, with where the loop can stand.  Then the keep-alive    *)
(* promise: since_sent is tied to the two timers that limit it, to         *)
(* last_sent while that one runs, and to the time left in the MQTTYield or *)
(* MQTTPublish in which last_sent runs out.  Last, a broker that answers   *)
(* is not given up unless a handler has overrun, and a silent one is       *)
(* noticed with the next status publication.                               *)
(***************************************************************************)
EXTENDS KeepAlive, TLAPS

(* Times are natural numbers; what the assumptions say of their order.     *)
LEMMA AllTimes ==
    /\ KeepAliveInterval \in Nat \ {0} /\ CommandTimeout \in Nat \ {0} /\ YieldTime \in Nat \ {0}
    /\ PingTimeout \in Nat \ {0} /\ DelayTime \in Nat \ {0} /\ MaxAnswer \in Nat
    /\ HandlerTime \in Nat /\ MaxUnanswered \in Nat
    /\ \A i \in Intervals : i \in Nat \ {0}
    /\ MaxAnswer < PingTimeout /\ MaxAnswer < CommandTimeout
    /\ CommandTimeout + YieldTime < KeepAliveInterval /\ DelayTime <= CommandTimeout
  BY TimeAssumption

---------------------------------------------------------------------------
(***************************************************************************)
(* Type correctness.  The age of a request stays within MaxAnswer because  *)
(* time does not pass while one is that old.                               *)
(***************************************************************************)

Asked == [kind : Requests, age : 0 .. MaxAnswer]
Queue == Seq(Asked)
Places == {"loop", "yield", "published", "wait", "delay", "down"}

(* A request joins the queue, or the link is down.                         *)
LEMMA DeliverType ==
    ASSUME pending \in Queue, NEW k \in Requests PROVE Deliver(pending, k) \in Queue
<1> DEFINE r == [kind |-> k, age |-> 0]
<1>1. r \in Asked
  BY AllTimes DEF Asked
<1>2. Deliver(pending, k) \in {pending, Append(pending, r)}
  BY DEF Deliver
<1> HIDE DEF r
<1>3. Append(pending, r) \in Queue
  BY <1>1 DEF Queue
<1> QED
  BY <1>2, <1>3

(* The requests grow older, none past MaxAnswer.                           *)
LEMMA OlderType ==
    ASSUME pending \in Queue, \A i \in DOMAIN pending : pending[i].age < MaxAnswer
    PROVE  Older(pending) \in Queue
<1> DEFINE older(i) == [pending[i] EXCEPT !.age = @ + 1]
<1>1. DOMAIN pending = 1 .. Len(pending) /\ Len(pending) \in Nat
  BY DEF Queue
<1>2. ASSUME NEW i \in 1 .. Len(pending) PROVE older(i) \in Asked
  <2>1. pending[i] \in Asked
    BY DEF Queue
  <2>2. pending[i].age \in Nat /\ pending[i].age + 1 \in 0 .. MaxAnswer
    BY <1>1, <2>1, AllTimes DEF Asked
  <2> QED
    BY <2>1, <2>2 DEF Asked
<1> HIDE DEF older
<1>3. [i \in 1 .. Len(pending) |-> older(i)] \in Queue
  BY <1>1, <1>2 DEF Queue
<1>4. Older(pending) = [i \in 1 .. Len(pending) |-> older(i)]
  BY <1>1 DEF Older, older
<1> QED
  BY <1>3, <1>4

(* The types, by what the provers need for them.                           *)
Numbers ==
    /\ link \in {"up", "silent", "dead"}
    /\ isconnected \in {0, 1}
    /\ mpc \in Places
    /\ timer \in 0 .. CommandTimeout + YieldTime
    /\ running \in Pushed \cup {"none"} /\ ran \in 0 .. HandlerTime
    /\ last_sent \in 0 .. KeepAliveInterval
    /\ last_received \in 0 .. KeepAliveInterval
    /\ ping_wait \in 0 .. PingTimeout
    /\ interval \in Intervals /\ status_timer \in 1 .. interval
    /\ {since_sent, silent_for, unanswered_for} \subseteq Nat
Flags ==
    /\ ip \in BOOLEAN /\ ping_outstanding \in BOOLEAN /\ status_sem \in BOOLEAN
    /\ overran \in BOOLEAN
Queues == pending \in Queue /\ inbox \in Seq(Packets)

(* Where the loop can stand: handlers run in MQTTYield or MQTTPublish, and *)
(* a session that is down waits for nothing.                               *)
Where ==
    /\ isconnected = 1 <=> mpc # "down"
    /\ running # "none" => mpc \in Blocking
    /\ mpc = "yield" => timer <= YieldTime
    /\ mpc = "wait" => timer <= CommandTimeout
    /\ mpc = "delay" => timer <= DelayTime
    /\ mpc = "delay" \/ ~ip => link = "dead"

Known == Numbers /\ Flags /\ Queues /\ Where

(* The types are among what is known.                                      *)
LEMMA Parts == Known => TypeOK
  BY Zenon DEF TypeOK, Known, Numbers, Flags, Queues, Queue, Asked, Places

(* What a cycle that goes on does to the timers.                           *)
LEMMA CycleDoes ==
    ASSUME Numbers, NEW kind, NEW next, CycleGoesOn(kind, next)
    PROVE  /\ mpc' = next /\ running' = "none" /\ ran' = 0
           /\ UNCHANGED <<ip, link, isconnected, timer, interval, status_timer, status_sem,
                          silent_for>>
           /\ last_received' \in {KeepAliveInterval, last_received}
           /\ unanswered_for' \in {0, unanswered_for}
           /\ \/ /\ last_sent' = KeepAliveInterval /\ since_sent' = 0
                 /\ ping_outstanding' = TRUE /\ ping_wait' = PingTimeout
                 /\ pending' = Deliver(pending, "PINGREQ")
              \/ /\ \/ last_sent' = KeepAliveInterval /\ since_sent' = 0
                    \/ last_sent > 0 /\ last_sent' = last_sent /\ since_sent' = since_sent
                 /\ ping_outstanding' = (kind # "PINGRESP" /\ ping_outstanding)
                 /\ UNCHANGED <<ping_wait, pending>>
<1> DEFINE c == AfterRead(kind)
<1>1. /\ mpc' = next /\ running' = "none" /\ ran' = 0
      /\ UNCHANGED <<ip, link, isconnected, timer, interval, status_timer, status_sem, silent_for>>
  BY DEF CycleGoesOn, statusvars
<1>2. /\ last_received' = c.received
      /\ unanswered_for' \in {0, unanswered_for}
      /\ since_sent' = IF Due(c) \/ kind = "QOS1" THEN 0 ELSE since_sent
  BY DEF CycleGoesOn
<1>3. \/ /\ Due(c)
         /\ last_sent' = KeepAliveInterval /\ ping_wait' = PingTimeout /\ ping_outstanding' = TRUE
         /\ pending' = Deliver(pending, "PINGREQ")
      \/ /\ ~Due(c)
         /\ last_sent' = c.sent /\ ping_outstanding' = c.outstanding
         /\ UNCHANGED <<ping_wait, pending>>
  BY DEF CycleGoesOn
<1>4. /\ c.sent = IF kind = "QOS1" THEN KeepAliveInterval ELSE last_sent
      /\ c.received \in {KeepAliveInterval, last_received}
      /\ c.outstanding = (kind # "PINGRESP" /\ ping_outstanding)
  BY DEF AfterRead
<1>5. ~Due(c) => c.sent # 0
  BY DEF Due
<1> HIDE DEF c
<1>6. last_sent \in Nat
  BY AllTimes DEF Numbers
<1>7. \/ last_sent' = KeepAliveInterval /\ since_sent' = 0
      \/ last_sent > 0 /\ last_sent' = last_sent /\ since_sent' = since_sent
  <2>1. CASE Due(c) \/ kind = "QOS1"
    BY <1>2, <1>3, <1>4, <2>1
  <2>2. CASE ~Due(c) /\ kind # "QOS1"
    BY <1>2, <1>3, <1>4, <1>5, <1>6, <2>2
  <2> QED
    BY <2>1, <2>2
<1>8. CASE Due(c)
  BY <1>1, <1>2, <1>3, <1>4, <1>8
<1>9. CASE ~Due(c)
  BY <1>1, <1>2, <1>3, <1>4, <1>7, <1>9
<1> QED
  BY <1>8, <1>9

(* Where a cycle goes on.                                                  *)
LEMMA CyclePlaces ==
    /\ ReadAnswer => \/ GiveUp
                     \/ /\ Readable /\ Head(inbox) \in Answers
                        /\ \E next \in {mpc, "published"} : CycleGoesOn(Head(inbox), next)
                        /\ inbox' = Tail(inbox) /\ CaughtUp(Tail(inbox))
    /\ HandlerReturns => \/ GiveUp
                         \/ /\ running # "none"
                            /\ \E next \in {mpc, "loop"} : CycleGoesOn(running, next)
                            /\ inbox' = inbox /\ CaughtUp(inbox)
    /\ YieldEnds => \/ GiveUp
                    \/ /\ mpc = "yield" /\ timer = 0 /\ running = "none"
                       /\ CycleGoesOn("none", "loop") /\ UNCHANGED <<inbox, overran>>
  BY DEF ReadAnswer, HandlerReturns, YieldEnds

(* What only the device's own steps and time change.                       *)
LEMMA ClientRests ==
    ASSUME Network
    PROVE  UNCHANGED <<isconnected, mpc, timer, last_sent, last_received, ping_wait,
                       ping_outstanding, interval, status_timer, status_sem, running, ran, overran,
                       since_sent, unanswered_for>>
<1>1. UNCHANGED client
  BY Zenon DEF Network, Answer, Push, GoSilent, Die, LoseAddress, GainAddress
<1> QED
  BY <1>1 DEF client, clientvars, statusvars, handlervars

(* Flags are set, reset or left alone.                                     *)
LEMMA FlagsType == Numbers /\ Flags /\ [Next]_vars => Flags'
<1> SUFFICES ASSUME Numbers, Flags, [Next]_vars PROVE Flags'
  OBVIOUS
<1>1. ASSUME GiveUp PROVE Flags'
  BY <1>1, Zenon DEF Flags, GiveUp, statusvars
<1>2. ASSUME NEW kind, NEW next, CycleGoesOn(kind, next), overran' \in BOOLEAN PROVE Flags'
  <2>1. ip' = ip /\ status_sem' = status_sem
    BY <1>2, CycleDoes
  <2>2. ping_outstanding' \in {TRUE, kind # "PINGRESP" /\ ping_outstanding}
    BY <1>2, CycleDoes
  <2>3. ping_outstanding' \in BOOLEAN
    BY <2>2, Zenon
  <2> QED
    BY <1>2, <2>1, <2>3, Zenon DEF Flags
<1>3. ASSUME NEW q, CaughtUp(q) PROVE overran' \in BOOLEAN
  BY <1>3, Zenon DEF CaughtUp
<1>4. CASE ReadAnswer \/ HandlerReturns \/ YieldEnds
  BY <1>1, <1>2, <1>3, <1>4, CyclePlaces, Zenon DEF Flags
<1>5. CASE PublishTimesOut \/ SocketError \/ AckFails
  BY <1>1, <1>5, Zenon DEF PublishTimesOut, SocketError, AckFails
<1>6. CASE ReadMessage \/ HandlerCommands
  BY <1>6, Zenon DEF Flags, ReadMessage, HandlerCommands, clientvars, statusvars, handlervars
<1>7. CASE StartYield \/ NoAddress \/ DelayEnds \/ PublishStatus \/ Reconnect
  BY <1>7, Zenon DEF Flags, StartYield, NoAddress, DelayEnds, PublishStatus, Reconnect, clientvars,
                     statusvars, handlervars
<1>8. CASE Network
  BY <1>8, Zenon DEF Flags, Network, Answer, Push, GoSilent, Die, LoseAddress, GainAddress, client,
                     clientvars, statusvars, handlervars
<1>9. CASE Tick
  BY <1>9, Zenon DEF Flags, Tick
<1>10. CASE UNCHANGED vars
  BY <1>10, Zenon DEF Flags, vars
<1> QED
  BY <1>4, <1>5, <1>6, <1>7, <1>8, <1>9, <1>10, Zenon DEF Next, Client

(* Timers and counters, and where the loop stands.                         *)
LEMMA NumbersType == Numbers /\ Where /\ [Next]_vars => Numbers' /\ Where'
<1> SUFFICES ASSUME Numbers, Where, [Next]_vars PROVE Numbers' /\ Where'
  OBVIOUS
<1> USE AllTimes
<1>1. ASSUME GiveUp PROVE Numbers' /\ Where'
  BY <1>1 DEF Numbers, Where, GiveUp, Places, statusvars
<1>2. ASSUME NEW kind, NEW next \in {mpc, "loop", "published"}, mpc \in Blocking,
             CycleGoesOn(kind, next)
      PROVE  Numbers' /\ Where'
  <2>1. /\ mpc' = next /\ running' = "none" /\ ran' = 0
        /\ UNCHANGED <<ip, link, isconnected, timer, interval, status_timer, silent_for>>
        /\ last_received' \in {KeepAliveInterval, last_received}
        /\ unanswered_for' \in {0, unanswered_for}
        /\ last_sent' \in {KeepAliveInterval, last_sent} /\ since_sent' \in {0, since_sent}
        /\ ping_wait' \in {PingTimeout, ping_wait}
    BY <1>2, CycleDoes
  <2>2. Numbers'
    BY <1>2, <2>1 DEF Numbers, Places
  <2>3. Where'
    BY <1>2, <2>1 DEF Numbers, Where, Blocking
  <2> QED
    BY <2>2, <2>3
<1>3. CASE ReadAnswer \/ HandlerReturns \/ YieldEnds
  <2>1. GiveUp \/ mpc \in Blocking
    BY <1>3, CyclePlaces DEF Readable, Where, Blocking
  <2> QED
    BY <1>1, <1>2, <1>3, <2>1, CyclePlaces
<1>4. CASE PublishTimesOut \/ SocketError \/ AckFails
  BY <1>1, <1>4 DEF PublishTimesOut, SocketError, AckFails
<1>5. CASE ReadMessage
  BY <1>5 DEF Numbers, Where, ReadMessage, Readable, statusvars, historyvars
<1>6. CASE HandlerCommands
  <2>1. interval' \in Intervals /\ status_timer' \in 1 .. interval'
    BY <1>6 DEF HandlerCommands, Numbers
  <2>2. silent_for' \in Nat
    BY <1>6 DEF HandlerCommands, Numbers
  <2>3. UNCHANGED <<ip, link, isconnected, mpc, timer, running, ran, last_sent, last_received,
                    ping_wait, since_sent, unanswered_for>>
    BY <1>6 DEF HandlerCommands, clientvars, handlervars
  <2> QED
    BY <2>1, <2>2, <2>3 DEF Numbers, Where
<1>7. CASE StartYield \/ NoAddress \/ DelayEnds
  <2>1. /\ UNCHANGED <<ip, link, isconnected, running, ran, last_sent, last_received, ping_wait,
                       interval, status_timer, since_sent, silent_for, unanswered_for>>
        /\ mpc # "down" /\ mpc \notin Blocking
        /\ \/ mpc' = "yield" /\ timer' = YieldTime
           \/ mpc' = "delay" /\ timer' = DelayTime /\ mpc = "loop" /\ ~ip
           \/ mpc' = "loop" /\ timer' = timer
    BY <1>7 DEF StartYield, NoAddress, DelayEnds, clientvars, statusvars, handlervars, historyvars,
                Blocking
  <2> QED
    BY <2>1 DEF Numbers, Where, Places
<1>8. CASE PublishStatus \/ Reconnect
  BY <1>8 DEF Numbers, Where, Places, PublishStatus, Reconnect, handlervars, statusvars, Blocking
<1>9. CASE Network
  <2>1. UNCHANGED <<isconnected, mpc, timer, running, ran, last_sent, last_received, ping_wait,
                    interval, status_timer, since_sent, unanswered_for>>
    BY <1>9, ClientRests
  <2>2. silent_for' \in {0, silent_for}
    BY <1>9 DEF Network, Answer, Push, GoSilent, Die, LoseAddress, GainAddress
  <2>3. link' \in {"up", "silent", "dead"} /\ ((mpc = "delay" \/ ~ip') => link' = "dead")
    BY <1>9 DEF Network, Answer, Push, GoSilent, Die, LoseAddress, GainAddress, Numbers, Where
  <2> QED
    BY <2>1, <2>2, <2>3 DEF Numbers, Where
<1>10. CASE Tick
  <2>1. /\ timer' = Less(timer) /\ last_sent' = Less(last_sent)
        /\ last_received' = Less(last_received) /\ ping_wait' = Less(ping_wait)
        /\ status_timer' = IF status_timer = 1 THEN interval ELSE status_timer - 1
        /\ since_sent' \in {0, since_sent + 1} /\ silent_for' \in {0, silent_for + 1}
        /\ unanswered_for' \in {0, unanswered_for, unanswered_for + 1}
        /\ UNCHANGED <<ip, link, isconnected, mpc, running, interval>>
    BY <1>10 DEF Tick
  <2>2. ran' \in 0 .. HandlerTime
    <3>1. running # "none" => ran < HandlerTime
      BY <1>10 DEF Tick, TimePasses, Where, Blocking
    <3>2. ran' = IF running = "none" THEN 0 ELSE ran + 1
      BY <1>10 DEF Tick
    <3> QED
      BY <3>1, <3>2 DEF Numbers
  <2>3. Numbers'
    BY <2>1, <2>2 DEF Numbers, Less
  <2> QED
    BY <2>1, <2>3 DEF Numbers, Where, Less
<1>11. CASE UNCHANGED vars
  BY <1>11 DEF Numbers, Where, vars
<1> QED
  BY <1>3, <1>4, <1>5, <1>6, <1>7, <1>8, <1>9, <1>10, <1>11 DEF Next, Client

(* What is on its way to the broker and back.                              *)
LEMMA QueuesType == Numbers /\ Queues /\ [Next]_vars => Queues'
<1> SUFFICES ASSUME Numbers, Queues, [Next]_vars PROVE Queues'
  OBVIOUS
<1>1. ASSUME GiveUp PROVE Queues'
  BY <1>1 DEF Queues, Queue, GiveUp
<1>2. ASSUME NEW k \in Requests PROVE Deliver(pending, k) \in Queue
  BY <1>2, DeliverType DEF Queues
<1>3. ASSUME NEW kind, NEW next, CycleGoesOn(kind, next) PROVE pending' \in Queue
  <2>1. pending' \in {pending, Deliver(pending, "PINGREQ")}
    BY <1>3, CycleDoes
  <2> QED
    BY <1>2, <2>1 DEF Queues, Requests
<1>4. inbox # <<>> => Tail(inbox) \in Seq(Packets)
  BY DEF Queues
<1>5. CASE ReadAnswer \/ HandlerReturns \/ YieldEnds
  BY <1>1, <1>3, <1>4, <1>5, CyclePlaces DEF Queues, Readable
<1>6. CASE PublishTimesOut \/ SocketError \/ AckFails
  BY <1>1, <1>6 DEF PublishTimesOut, SocketError, AckFails
<1>7. CASE ReadMessage
  BY <1>4, <1>7 DEF Queues, ReadMessage, Readable
<1>8. CASE HandlerCommands \/ StartYield \/ NoAddress \/ DelayEnds \/ Reconnect
  BY <1>8 DEF Queues, HandlerCommands, StartYield, NoAddress, DelayEnds, Reconnect
<1>9. CASE PublishStatus
  BY <1>2, <1>9 DEF Queues, PublishStatus, Requests
<1>10. CASE Answer
  <2>1. Tail(pending) \in Queue
    BY <1>10 DEF Queues, Queue, Answer
  <2>2. AnswerTo(Head(pending).kind) \in Packets
    BY DEF AnswerTo, Packets
  <2>3. inbox' \in Seq(Packets)
    BY <1>10, <2>2 DEF Queues, Answer
  <2> QED
    BY <1>10, <2>1, <2>3 DEF Queues, Answer
<1>11. CASE Push
  BY <1>11 DEF Queues, Push, Packets, Pushed
<1>12. CASE GoSilent \/ Die \/ LoseAddress \/ GainAddress
  <2>1. pending' \in {pending, <<>>} /\ inbox' = inbox
    BY <1>12 DEF GoSilent, Die, LoseAddress, GainAddress
  <2>2. <<>> \in Queue
    BY DEF Queue
  <2> QED
    BY <2>1, <2>2 DEF Queues
<1>13. CASE Tick
  <2>1. pending \in Queue /\ \A i \in DOMAIN pending : pending[i].age < MaxAnswer
    BY <1>13 DEF Queues, Tick
  <2>2. Older(pending) \in Queue
    BY <2>1, OlderType
  <2>3. pending' = Older(pending) /\ inbox' = inbox
    BY <1>13 DEF Tick
  <2> QED
    BY <2>2, <2>3 DEF Queues
<1>14. CASE UNCHANGED vars
  BY <1>14 DEF Queues, vars
<1> QED
  BY <1>5, <1>6, <1>7, <1>8, <1>9, <1>10, <1>11, <1>12, <1>13, <1>14 DEF Next, Client, Network

(* All this is so at the start...                                          *)
LEMMA KnownFirst == Init => Known
<1> SUFFICES ASSUME Init PROVE Known
  OBVIOUS
<1>1. Numbers
  BY AllTimes DEF Init, Numbers, Places
<1>2. Flags
  BY DEF Init, Flags
<1>3. Queues
  BY DEF Init, Queues, Queue
<1>4. Where
  BY AllTimes DEF Init, Where
<1> QED
  BY <1>1, <1>2, <1>3, <1>4 DEF Known

(* ... and after every step.                                               *)
LEMMA KnownKept == Known /\ [Next]_vars => Known'
  BY FlagsType, NumbersType, QueuesType DEF Known

(* No timer of the client or of the status message exceeds what it was set *)
(* to, and every request is answered or dropped by MaxAnswer.              *)
THEOREM TypeCorrect == Spec => []TypeOK
  BY KnownFirst, KnownKept, Parts, PTL DEF Spec

---------------------------------------------------------------------------
(***************************************************************************)
(* The keep-alive promise.                                                 *)
(***************************************************************************)

(* Time left in an MQTTYield or MQTTPublish; negative once a handler has   *)
(* outlasted its timer.                                                    *)
Left == IF timer > 0 THEN timer ELSE IF running = "none" THEN -HandlerTime ELSE -ran

(* How long ago the client can have sent something.                        *)
SentSoon ==
    link # "dead" /\ mpc # "down" =>
        /\ last_sent > 0 => since_sent + last_sent = KeepAliveInterval
        /\ mpc \in {"loop", "published"} => last_sent > 0
        /\ mpc = "wait" => since_sent + Left <= CommandTimeout
        /\ mpc = "wait" /\ timer > 0 => last_sent > 0
        /\ mpc = "yield" => since_sent + Left <= KeepAliveInterval + YieldTime

(* The time left is a number, and the timer while that one runs.           *)
LEMMA LeftType ==
    Numbers => Left \in Int /\ Left >= -HandlerTime /\ Left <= timer /\ (timer > 0 => Left = timer)
  BY AllTimes DEF Numbers, Left

(* No time is gained when a handler starts or returns.                     *)
LEMMA LeftKept ==
    ASSUME Numbers, timer' = timer, \/ running' = "none" /\ running # "none"
                                    \/ timer > 0
                                    \/ UNCHANGED <<running, ran>>
    PROVE  Left' \in Int /\ Left' <= Left
  BY AllTimes DEF Numbers, Left

(* The time left goes down with the clock.                                 *)
LEMMA LeftTicks ==
    ASSUME Known, Tick, mpc \in Blocking
    PROVE  Left' \in Int /\ Left' <= Left - 1
<1>1. timer' = Less(timer) /\ running' = running
      /\ ran' = IF running = "none" THEN 0 ELSE ran + 1
  BY DEF Tick
<1>2. running = "none" => timer > 0
  BY DEF Tick, TimePasses, Blocking
<1> QED
  BY <1>1, <1>2, AllTimes DEF Known, Numbers, Left, Less

(* The bound on since_sent holds after every step.                         *)
LEMMA SentKept == Known /\ SentSoon /\ [Next]_vars => SentSoon'
<1> SUFFICES ASSUME Known, SentSoon, [Next]_vars PROVE SentSoon'
  OBVIOUS
<1>k. Numbers /\ Where /\ Numbers'
  BY KnownKept DEF Known
<1>m. /\ Left' \in Int /\ (timer' > 0 => Left' = timer') /\ timer' \in Nat
  <2>1. timer' \in Nat /\ ran' \in Nat
    BY <1>k, AllTimes DEF Numbers
  <2>2. Left' \in Int
    BY <2>1, AllTimes DEF Left
  <2>3. timer' > 0 => Left' = timer'
    BY <2>1 DEF Left
  <2> QED
    BY <2>1, <2>2, <2>3
<1>l. Left \in Int /\ (timer > 0 => Left = timer) /\ Left >= -HandlerTime
  BY <1>k, LeftType
<1>n. /\ timer \in Nat /\ last_sent \in Nat /\ since_sent \in Nat /\ last_sent <= KeepAliveInterval
      /\ Left \in Int /\ (timer > 0 => Left = timer) /\ Left' \in Int /\ Left >= -HandlerTime
      /\ (timer' > 0 => Left' = timer') /\ timer' \in Nat
  BY <1>k, <1>l, <1>m, AllTimes DEF Numbers
<1>1. ASSUME GiveUp PROVE SentSoon'
  BY <1>1 DEF SentSoon, GiveUp
<1>2. ASSUME NEW kind, NEW next, CycleGoesOn(kind, next), mpc \in Blocking,
             \/ next = mpc
             \/ next = "loop" /\ mpc = "yield"
             \/ next = "published" /\ mpc = "wait" /\ timer > 0,
             running # "none" \/ timer > 0 \/ next = "loop"
      PROVE  SentSoon'
  <2>1. /\ mpc' = next /\ UNCHANGED <<link, timer>> /\ running' = "none"
        /\ \/ last_sent' = KeepAliveInterval /\ since_sent' = 0
           \/ last_sent > 0 /\ last_sent' = last_sent /\ since_sent' = since_sent
    BY <1>k, <1>2, CycleDoes
  <2>2. next # "loop" => Left' <= Left
    BY <1>k, <1>2, <2>1, LeftKept
  <2>3. (mpc = "yield" => timer <= YieldTime) /\ (mpc = "wait" => timer <= CommandTimeout)
    BY <1>k DEF Where
  <2> HIDE DEF Left
  <2> QED
    BY <1>2, <1>n, <2>1, <2>2, <2>3, AllTimes DEF SentSoon, Blocking
<1>3. CASE ReadAnswer
  <2>1. GiveUp \/ (Readable /\ CycleGoesOn(Head(inbox),
                     IF mpc = "wait" /\ Head(inbox) = "PUBACK" THEN "published" ELSE mpc))
    BY <1>3 DEF ReadAnswer
  <2> QED
    BY <1>1, <1>2, <2>1 DEF Readable
<1>4. CASE HandlerReturns
  <2>1. GiveUp \/ CycleGoesOn(running, IF mpc = "yield" /\ timer = 0 THEN "loop" ELSE mpc)
    BY <1>4 DEF HandlerReturns
  <2>2. mpc \in Blocking /\ running # "none"
    BY <1>4, <1>k DEF HandlerReturns, Where
  <2> QED
    BY <1>1, <1>2, <2>1, <2>2
<1>5. CASE YieldEnds
  BY <1>1, <1>2, <1>5, CyclePlaces DEF Blocking
<1>6. CASE PublishTimesOut \/ SocketError \/ AckFails
  BY <1>1, <1>6 DEF PublishTimesOut, SocketError, AckFails
<1>7. CASE ReadMessage
  <2>1. timer > 0 /\ UNCHANGED <<link, mpc, timer, last_sent, since_sent>>
    BY <1>7 DEF ReadMessage, Readable, historyvars
  <2>2. Left' <= Left
    BY <1>k, <2>1, LeftKept
  <2> HIDE DEF Left
  <2> QED
    BY <1>n, <2>1, <2>2, AllTimes DEF SentSoon
<1>8. CASE HandlerCommands
  <2>1. UNCHANGED <<link, mpc, timer, last_sent, since_sent, running, ran>>
    BY <1>8 DEF HandlerCommands, clientvars, handlervars
  <2> QED
    BY <2>1 DEF SentSoon, Left
<1>9. CASE StartYield
  <2>1. /\ mpc \in {"loop", "published"} /\ mpc' = "yield" /\ timer' = YieldTime
        /\ UNCHANGED <<link, last_sent, since_sent>>
    BY <1>9 DEF StartYield, clientvars, historyvars
  <2>2. Left' = YieldTime
    BY <1>m, <2>1, AllTimes
  <2>3. link # "dead" => since_sent + Left' <= KeepAliveInterval + YieldTime
    BY <1>n, <2>1, <2>2, AllTimes DEF SentSoon
  <2> QED
    BY <2>1, <2>3 DEF SentSoon
<1>10. CASE NoAddress \/ DelayEnds
  <2>1. UNCHANGED <<link, last_sent, since_sent>> /\ mpc' \in {"delay", "loop"}
        /\ (mpc' = "loop" => link = "dead") /\ mpc # "down"
    BY <1>10, <1>k DEF NoAddress, DelayEnds, clientvars, historyvars, Where
  <2> QED
    BY <2>1 DEF SentSoon
<1>11. CASE PublishStatus \/ Reconnect
  <2>1. /\ last_sent' = KeepAliveInterval /\ since_sent' = 0
        /\ mpc' = "loop" \/ (mpc' = "wait" /\ timer' = CommandTimeout)
    BY <1>11 DEF PublishStatus, Reconnect
  <2>2. mpc' = "wait" => Left' = CommandTimeout
    BY <1>m, <2>1, AllTimes
  <2> QED
    BY <2>1, <2>2, AllTimes DEF SentSoon
<1>12. CASE Network
  <2>1. UNCHANGED <<mpc, timer, last_sent, since_sent, running, ran>>
    BY <1>12, ClientRests
  <2>2. link' # "dead" => link # "dead"
    BY <1>12 DEF Network, Answer, Push, GoSilent, Die, LoseAddress, GainAddress
  <2> QED
    BY <2>1, <2>2 DEF SentSoon, Left
<1>13. CASE Tick
  <2> SUFFICES ASSUME link # "dead", mpc # "down" PROVE SentSoon'
    BY <1>13 DEF Tick, SentSoon
  <2>1. mpc \in Blocking
    BY <1>13, <1>k DEF Tick, TimePasses, Where
  <2>2. /\ UNCHANGED <<link, mpc>> /\ last_sent' = Less(last_sent) /\ since_sent' = since_sent + 1
        /\ timer' = Less(timer)
    BY <1>13 DEF Tick
  <2>3. Left' <= Left - 1
    BY <1>13, <2>1, LeftTicks
  <2> HIDE DEF Left
  <2>4. last_sent' > 0 => last_sent > 0 /\ last_sent' = last_sent - 1
    BY <1>n, <2>2 DEF Less
  <2>5. timer' > 0 => timer > 0 /\ timer' = timer - 1
    BY <1>n, <2>2 DEF Less
  <2>6. mpc = "wait" /\ timer' > 0 => last_sent' > 0
    <3> SUFFICES ASSUME mpc = "wait", timer' > 0 PROVE last_sent' > 0
      OBVIOUS
    <3>1. /\ since_sent + timer <= CommandTimeout /\ since_sent + last_sent = KeepAliveInterval
          /\ timer > 1
      BY <1>n, <2>5 DEF SentSoon
    <3>2. last_sent > 1
      BY <1>n, <3>1, AllTimes
    <3> QED
      BY <1>n, <2>2, <3>2 DEF Less
  <2>7. /\ mpc = "wait" => since_sent' + Left' <= CommandTimeout
        /\ mpc = "yield" => since_sent' + Left' <= KeepAliveInterval + YieldTime
    <3>1. /\ mpc = "wait" => since_sent + Left <= CommandTimeout
          /\ mpc = "yield" => since_sent + Left <= KeepAliveInterval + YieldTime
      BY DEF SentSoon
    <3>2. PICK a \in Int, b \in Int : a = Left /\ b = Left'
      BY <1>l, <1>m
    <3>3. b <= a - 1
      BY <2>3, <3>2
    <3>4. /\ mpc = "wait" => since_sent + a <= CommandTimeout
          /\ mpc = "yield" => since_sent + a <= KeepAliveInterval + YieldTime
      BY <3>1, <3>2
    <3>5. /\ mpc = "wait" => since_sent' + b <= CommandTimeout
          /\ mpc = "yield" => since_sent' + b <= KeepAliveInterval + YieldTime
      BY <1>n, <2>2, <3>3, <3>4, AllTimes
    <3> QED
      BY <3>2, <3>5
  <2>8. last_sent' > 0 => since_sent' + last_sent' = KeepAliveInterval
    BY <1>n, <2>2, <2>4 DEF SentSoon
  <2> QED
    BY <2>1, <2>2, <2>6, <2>7, <2>8 DEF SentSoon, Blocking
<1>14. CASE UNCHANGED vars
  BY <1>14 DEF SentSoon, Left, vars
<1> QED
  BY <1>3, <1>4, <1>5, <1>6, <1>7, <1>8, <1>9, <1>10, <1>11, <1>12, <1>13, <1>14 DEF Next, Client

(* In an open session something is sent in every keep-alive interval, at   *)
(* most one MQTTYield and one handler late: for all timer lengths with     *)
(* which a command and a yield do not outlast the keep-alive interval.     *)
THEOREM AlwaysSentInTime == Spec => []SentInTime
<1>1. Init => SentSoon
  BY AllTimes DEF Init, SentSoon
<1>2. Known /\ SentSoon => SentInTime
  <2> SUFFICES ASSUME Known, SentSoon, mpc # "down", link # "dead"
               PROVE  since_sent <= KeepAliveInterval + YieldTime + HandlerTime
    BY DEF SentInTime, Known, Where
  <2>1. /\ Left \in Int /\ Left >= -HandlerTime /\ since_sent \in Nat /\ last_sent \in Nat
        /\ mpc \in {"loop", "yield", "published", "wait"}
    BY LeftType, AllTimes DEF Known, Numbers, Where, Places
  <2> HIDE DEF Left
  <2> QED
    BY <2>1, AllTimes DEF SentSoon
<1> QED
  BY <1>1, <1>2, KnownFirst, KnownKept, SentKept, PTL DEF Spec

---------------------------------------------------------------------------
(***************************************************************************)
(* Healthy brokers.  An answer is followed on its way: its request grows   *)
(* older at the broker as fast as the timer that waits for it runs down,   *)
(* and once it can be read time only passes while a handler runs.          *)
(***************************************************************************)

(* A packet is in a queue; it is there at most once.                       *)
Has(q, p) == \E i \in DOMAIN q : q[i] = p
Once(q, p) == \A i, j \in DOMAIN q : q[i] = p /\ q[j] = p => i = j

(* A request is in a queue; there is at most one of its kind.              *)
HasAsked(q, k) == \E i \in DOMAIN q : q[i].kind = k
AskedOnce(q, k) == \A i, j \in DOMAIN q : q[i].kind = k /\ q[j].kind = k => i = j

(* A session that is down waits for nothing, nor does a silent broker have *)
(* anything to answer.                                                     *)
NothingLeft ==
    /\ mpc = "down" => ~ping_outstanding /\ inbox = <<>> /\ pending = <<>>
    /\ link # "up" => pending = <<>>

(* The publication that waits for its PUBACK is the only one.              *)
OnePublish ==
    /\ Once(inbox, "PUBACK") /\ AskedOnce(pending, "PUBLISH")
    /\ ~(Has(inbox, "PUBACK") /\ HasAsked(pending, "PUBLISH"))
    /\ Has(inbox, "PUBACK") \/ HasAsked(pending, "PUBLISH") => mpc = "wait"

(* The timers that were set with a request have not run down faster than   *)
(* it has grown old.                                                       *)
InStep(q, wait, sent, t) ==
    \A i \in DOMAIN q :
        /\ q[i].kind = "PINGREQ" => /\ wait + q[i].age >= PingTimeout
                                    /\ sent + q[i].age >= KeepAliveInterval
        /\ q[i].kind = "PUBLISH" => t + q[i].age >= CommandTimeout
OnTime == InStep(pending, ping_wait, last_sent, timer)

(* A handler that outlasts the timer of its call is noted, and the others  *)
(* end long before keepalive misses a packet.                              *)
Overruns ==
    /\ running # "none" /\ timer = 0 => overran
    /\ running # "none" /\ timer > 0 => last_received > timer

(* A PINGRESP that can be read was asked for not long ago.                 *)
Recent(place, t, wait, sent) ==
    /\ place \in {"loop", "published"} => sent + CommandTimeout >= KeepAliveInterval
    /\ place = "yield" => sent + CommandTimeout + YieldTime >= KeepAliveInterval + t
    /\ place = "yield" /\ t = 0 => wait > 0 /\ sent + CommandTimeout >= KeepAliveInterval
Fresh == Recent(mpc, timer, ping_wait, last_sent)

(* While the broker answers, every answer that the client waits for is on  *)
(* its way, and none is late unless a handler has overrun.                 *)
AnswersCome ==
    link = "up" =>
        /\ mpc = "down" => overran
        /\ ping_outstanding => HasAsked(pending, "PINGREQ") \/ Has(inbox, "PINGRESP")
        /\ mpc = "wait" => \/ HasAsked(pending, "PUBLISH")
                           \/ Has(inbox, "PUBACK") /\ (timer > 0 \/ overran)
        /\ ping_outstanding /\ Has(inbox, "PINGRESP") /\ ~overran => Fresh

Session == NothingLeft /\ OnePublish /\ OnTime /\ Overruns /\ AnswersCome

(* Elements of a sequence that grows...                                    *)
LEMMA AppendFacts ==
    ASSUME NEW S, NEW s \in Seq(S), NEW e \in S
    PROVE  /\ DOMAIN Append(s, e) = DOMAIN s \cup {Len(s) + 1}
           /\ Append(s, e)[Len(s) + 1] = e
           /\ \A i \in DOMAIN s : Append(s, e)[i] = s[i] /\ i # Len(s) + 1
  OBVIOUS

(* ... and of one that loses its head.                                     *)
LEMMA TailFacts ==
    ASSUME NEW S, NEW s \in Seq(S), s # <<>>
    PROVE  /\ 1 \in DOMAIN s /\ Head(s) = s[1]
           /\ \A i \in DOMAIN Tail(s) :
                i \in Nat \ {0} /\ i + 1 \in DOMAIN s /\ Tail(s)[i] = s[i + 1]
           /\ \A i \in DOMAIN s : i = 1 \/ (i \in Nat /\ i - 1 \in DOMAIN Tail(s))
  OBVIOUS

(* A packet joins the inbox.                                               *)
LEMMA InboxGrows ==
    ASSUME NEW q \in Seq(Packets), NEW e \in Packets
    PROVE  /\ \A p : Has(Append(q, e), p) <=> Has(q, p) \/ p = e
           /\ \A p : Once(q, p) /\ (p = e => ~Has(q, p)) => Once(Append(q, e), p)
<1>1. \A p : Has(Append(q, e), p) <=> Has(q, p) \/ p = e
  BY AppendFacts DEF Has
<1>2. \A p : Once(q, p) /\ (p = e => ~Has(q, p)) => Once(Append(q, e), p)
  BY AppendFacts DEF Has, Once
<1> QED
  BY <1>1, <1>2

(* A packet is read.                                                       *)
LEMMA InboxRead ==
    ASSUME NEW q \in Seq(Packets), q # <<>>
    PROVE  /\ \A p : Has(q, p) <=> Has(Tail(q), p) \/ p = Head(q)
           /\ \A p : Once(q, p) => Once(Tail(q), p) /\ ~(p = Head(q) /\ Has(Tail(q), p))
<1>1. \A p : Has(q, p) <=> Has(Tail(q), p) \/ p = Head(q)
  <2> TAKE p
  <2>1. Has(Tail(q), p) \/ p = Head(q) => Has(q, p)
    BY TailFacts DEF Has
  <2>2. ASSUME Has(q, p), p # Head(q) PROVE Has(Tail(q), p)
    <3>1. PICK i \in DOMAIN q : q[i] = p
      BY <2>2 DEF Has
    <3>2. i # 1 /\ i \in Nat /\ i - 1 \in DOMAIN Tail(q)
      BY <2>2, <3>1, TailFacts
    <3>3. Tail(q)[i - 1] = q[(i - 1) + 1] /\ (i - 1) + 1 = i
      BY <3>2, TailFacts
    <3> QED
      BY <3>1, <3>2, <3>3 DEF Has
  <2> QED
    BY <2>1, <2>2
<1>2. ASSUME NEW p, Once(q, p) PROVE Once(Tail(q), p) /\ ~(p = Head(q) /\ Has(Tail(q), p))
  <2>1. Once(Tail(q), p)
    <3> SUFFICES ASSUME NEW i \in DOMAIN Tail(q), NEW j \in DOMAIN Tail(q),
                        Tail(q)[i] = p, Tail(q)[j] = p
                 PROVE  i = j
      BY DEF Once
    <3>1. i + 1 = j + 1
      BY <1>2, TailFacts DEF Once
    <3> QED
      BY <3>1, TailFacts
  <2>2. ASSUME p = Head(q), NEW i \in DOMAIN Tail(q), Tail(q)[i] = p PROVE FALSE
    <3>1. i + 1 = 1 /\ i \in Nat \ {0}
      BY <1>2, <2>2, TailFacts DEF Once
    <3> QED
      BY <3>1
  <2> QED
    BY <2>1, <2>2 DEF Has
<1> QED
  BY <1>1, <1>2

(* The ages of requests.                                                   *)
LEMMA Aged ==
    ASSUME NEW q \in Queue, NEW i \in DOMAIN q
    PROVE  q[i] \in Asked /\ q[i].age \in Nat /\ q[i].age <= MaxAnswer
<1>1. q[i] \in Asked
  BY DEF Queue
<1> QED
  BY <1>1, AllTimes DEF Asked

(* A request reaches the broker.                                           *)
LEMMA BrokerAsked ==
    ASSUME NEW q \in Queue, NEW k \in Requests
    PROVE  LET n == Append(q, [kind |-> k, age |-> 0]) IN
           /\ \A h : HasAsked(n, h) <=> HasAsked(q, h) \/ h = k
           /\ \A h : AskedOnce(q, h) /\ (h = k => ~HasAsked(q, h)) => AskedOnce(n, h)
           /\ \A i \in DOMAIN n : \/ i \in DOMAIN q /\ n[i] = q[i]
                                  \/ n[i].kind = k /\ n[i].age = 0
<1> DEFINE r == [kind |-> k, age |-> 0]
           n == Append(q, r)
<1>1. r \in Asked /\ r.kind = k /\ r.age = 0
  BY AllTimes DEF Asked
<1>2. q \in Seq(Asked)
  BY DEF Queue
<1> HIDE DEF r
<1>3. /\ DOMAIN n = DOMAIN q \cup {Len(q) + 1}
      /\ n[Len(q) + 1] = r
      /\ \A i \in DOMAIN q : n[i] = q[i] /\ i # Len(q) + 1
  BY <1>1, <1>2, AppendFacts
<1> HIDE DEF n
<1>4. \A h : HasAsked(n, h) <=> HasAsked(q, h) \/ h = k
  BY <1>1, <1>3 DEF HasAsked
<1>5. \A h : AskedOnce(q, h) /\ (h = k => ~HasAsked(q, h)) => AskedOnce(n, h)
  BY <1>1, <1>3 DEF HasAsked, AskedOnce
<1>6. \A i \in DOMAIN n : \/ i \in DOMAIN q /\ n[i] = q[i]
                          \/ n[i].kind = k /\ n[i].age = 0
  BY <1>1, <1>3
<1> QED
  BY <1>4, <1>5, <1>6 DEF n, r

(* The oldest request leaves the broker.                                   *)
LEMMA BrokerAnswers ==
    ASSUME NEW q \in Queue, q # <<>>
    PROVE  /\ Head(q) \in Asked /\ \E j \in DOMAIN q : Head(q) = q[j]
           /\ \A i \in DOMAIN Tail(q) : \E j \in DOMAIN q : Tail(q)[i] = q[j]
           /\ \A h : HasAsked(q, h) <=> HasAsked(Tail(q), h) \/ h = Head(q).kind
           /\ \A h : AskedOnce(q, h) => /\ AskedOnce(Tail(q), h)
                                        /\ ~(h = Head(q).kind /\ HasAsked(Tail(q), h))
<1>1. q \in Seq(Asked)
  BY DEF Queue
<1>2. Head(q) \in Asked /\ \E j \in DOMAIN q : Head(q) = q[j]
  BY <1>1, TailFacts
<1>3. \A i \in DOMAIN Tail(q) : \E j \in DOMAIN q : Tail(q)[i] = q[j]
  BY <1>1, TailFacts
<1>4. \A h : HasAsked(Tail(q), h) \/ h = Head(q).kind => HasAsked(q, h)
  BY <1>2, <1>3 DEF HasAsked
<1>5. ASSUME NEW h, HasAsked(q, h), h # Head(q).kind
      PROVE  HasAsked(Tail(q), h)
  <2>1. PICK i \in DOMAIN q : q[i].kind = h
    BY <1>5 DEF HasAsked
  <2>2. i # 1 /\ i \in Nat /\ i - 1 \in DOMAIN Tail(q)
    BY <1>1, <1>5, <2>1, TailFacts
  <2>3. Tail(q)[i - 1] = q[(i - 1) + 1] /\ (i - 1) + 1 = i
    BY <1>1, <2>2, TailFacts
  <2> QED
    BY <2>1, <2>2, <2>3 DEF HasAsked
<1>6. ASSUME NEW h, AskedOnce(q, h)
      PROVE  AskedOnce(Tail(q), h) /\ ~(h = Head(q).kind /\ HasAsked(Tail(q), h))
  <2>1. AskedOnce(Tail(q), h)
    <3> SUFFICES ASSUME NEW i \in DOMAIN Tail(q), NEW j \in DOMAIN Tail(q),
                        Tail(q)[i].kind = h, Tail(q)[j].kind = h
                 PROVE  i = j
      BY DEF AskedOnce
    <3>1. i + 1 = j + 1
      BY <1>1, <1>6, TailFacts DEF AskedOnce
    <3> QED
      BY <1>1, <3>1, TailFacts
  <2>2. ASSUME h = Head(q).kind, NEW i \in DOMAIN Tail(q), Tail(q)[i].kind = h PROVE FALSE
    <3>1. i + 1 = 1 /\ i \in Nat \ {0}
      BY <1>1, <1>6, <2>2, TailFacts DEF AskedOnce
    <3> QED
      BY <3>1
  <2> QED
    BY <2>1, <2>2 DEF HasAsked
<1> QED
  BY <1>2, <1>3, <1>4, <1>5, <1>6

(* A unit of time passes at the broker.                                    *)
LEMMA BrokerWaits ==
    ASSUME NEW q \in Queue
    PROVE  /\ \A h : HasAsked(Older(q), h) <=> HasAsked(q, h)
           /\ \A h : AskedOnce(q, h) => AskedOnce(Older(q), h)
           /\ DOMAIN Older(q) = DOMAIN q
           /\ \A i \in DOMAIN q : Older(q)[i].kind = q[i].kind /\ Older(q)[i].age = q[i].age + 1
<1>1. q \in Seq(Asked)
  BY DEF Queue
<1>2. DOMAIN Older(q) = DOMAIN q
  BY DEF Older
<1>3. \A i \in DOMAIN q : q[i].age \in Nat /\ q[i] \in Asked
  BY Aged
<1>4. \A i \in DOMAIN q : Older(q)[i].kind = q[i].kind /\ Older(q)[i].age = q[i].age + 1
  BY <1>3 DEF Older, Asked
<1> QED
  BY <1>2, <1>4 DEF HasAsked, AskedOnce

(* Nothing is in an empty queue.                                           *)
LEMMA Empty ==
    /\ \A p : ~Has(<<>>, p) /\ Once(<<>>, p)
    /\ \A k : ~HasAsked(<<>>, k) /\ AskedOnce(<<>>, k)
    /\ \A a, b, c : InStep(<<>>, a, b, c)
  BY DEF Has, Once, HasAsked, AskedOnce, InStep

(* The timers stay in step with the requests when they are set anew, ...   *)
LEMMA StepKept ==
    ASSUME NEW q \in Queue, NEW w \in Nat, NEW s \in Nat, NEW t \in Nat, InStep(q, w, s, t),
           NEW w2 \in Nat, NEW s2 \in Nat, NEW t2 \in Nat, w2 >= w, s2 >= s,
           t2 >= t \/ ~HasAsked(q, "PUBLISH")
    PROVE  InStep(q, w2, s2, t2)
<1>1. \A i \in DOMAIN q : q[i].age \in Nat
  BY Aged
<1> QED
  BY <1>1, AllTimes DEF InStep, HasAsked

(* ... with a new request, ...                                             *)
LEMMA StepAsked ==
    ASSUME NEW q \in Queue, NEW k \in Requests, NEW w \in Nat, NEW s \in Nat, NEW t \in Nat,
           InStep(q, w, s, t),
           \/ k = "PINGREQ" /\ w = PingTimeout /\ s = KeepAliveInterval
           \/ k = "PUBLISH" /\ t = CommandTimeout
    PROVE  InStep(Append(q, [kind |-> k, age |-> 0]), w, s, t)
<1> DEFINE n == Append(q, [kind |-> k, age |-> 0])
<1>1. \A i \in DOMAIN n : \/ i \in DOMAIN q /\ n[i] = q[i]
                          \/ n[i].kind = k /\ n[i].age = 0
  BY BrokerAsked
<1> HIDE DEF n
<1>2. InStep(n, w, s, t)
  BY <1>1, AllTimes DEF InStep
<1> QED
  BY <1>2 DEF n

(* ... and as time passes.                                                 *)
LEMMA StepTicks ==
    ASSUME NEW q \in Queue, NEW w \in Nat, NEW s \in Nat, NEW t \in Nat, InStep(q, w, s, t)
    PROVE  InStep(Older(q), Less(w), Less(s), Less(t))
<1>1. \A i \in DOMAIN q : q[i].age \in Nat
  BY Aged
<1>2. DOMAIN Older(q) = DOMAIN q
      /\ \A i \in DOMAIN q : Older(q)[i].kind = q[i].kind /\ Older(q)[i].age = q[i].age + 1
  BY BrokerWaits
<1>3. Less(w) + 1 >= w /\ Less(s) + 1 >= s /\ Less(t) + 1 >= t
      /\ Less(w) \in Nat /\ Less(s) \in Nat /\ Less(t) \in Nat
  BY DEF Less
<1> QED
  BY <1>1, <1>2, <1>3, AllTimes DEF InStep

(* A packet that is sent anew makes an answer no older, nor does the way   *)
(* of the loop.                                                            *)
LEMMA RecentKept ==
    ASSUME NEW m, NEW t \in Nat, NEW w \in Nat, NEW s \in Nat, Recent(m, t, w, s),
           NEW s2 \in Nat, s2 >= s
    PROVE  /\ Recent(m, t, w, s2)
           /\ m = "yield" /\ t = 0 => Recent("loop", t, w, s2)
           /\ m \in {"loop", "published"} => Recent("yield", YieldTime, w, s2)
  BY AllTimes DEF Recent

(* As time passes during a call.                                           *)
LEMMA RecentTicks ==
    ASSUME NEW t \in Nat, NEW w \in Nat, NEW s \in Nat, Recent("yield", t, w, s), t > 1
    PROVE  Recent("yield", t - 1, Less(w), Less(s))
<1>1. s > 0 /\ Less(s) = s - 1 /\ t - 1 # 0
  BY AllTimes DEF Recent, Less
<1>2. Less(s) + CommandTimeout + YieldTime >= KeepAliveInterval + (t - 1)
  BY <1>1, AllTimes DEF Recent
<1> QED
  BY <1>1, <1>2 DEF Recent

(* An answer that has just come.                                           *)
LEMMA RecentNow ==
    ASSUME NEW m, NEW t \in Nat, NEW w \in Nat, NEW s \in Nat, w > 0,
           s + CommandTimeout >= KeepAliveInterval, m = "yield" => t <= YieldTime
    PROVE  Recent(m, t, w, s)
  BY AllTimes DEF Recent

(* While the broker answers and no handler has overrun, the timers that    *)
(* wait for it do not run out.                                             *)
LEMMA InTime ==
    ASSUME Known, SentSoon, Session, link = "up", ~overran
    PROVE  /\ ping_outstanding /\ mpc \in Blocking /\ timer > 0 => ping_wait > 0 \/ last_sent > 0
           /\ ping_outstanding /\ mpc = "yield" /\ timer = 0 => ping_wait > 0
           /\ mpc = "wait" => timer > 0
<1>1. timer \in Nat /\ ping_wait \in Nat /\ last_sent \in Nat /\ pending \in Queue
  BY AllTimes DEF Known, Numbers, Queues
<1>2. HasAsked(pending, "PINGREQ") => ping_wait > 0
  BY <1>1, Aged, AllTimes DEF Session, OnTime, InStep, HasAsked
<1>3. HasAsked(pending, "PUBLISH") => timer > 0
  BY <1>1, Aged, AllTimes DEF Session, OnTime, InStep, HasAsked
<1>4. ping_outstanding /\ ~HasAsked(pending, "PINGREQ") => Fresh
  BY DEF Session, AnswersCome
<1>5. mpc = "wait" => timer > 0
  BY <1>3 DEF Session, AnswersCome
<1>6. ping_outstanding /\ mpc = "yield" /\ timer = 0 => ping_wait > 0
  BY <1>2, <1>4 DEF Fresh, Recent
<1>7. ASSUME ping_outstanding, mpc = "yield", timer > 0 PROVE ping_wait > 0 \/ last_sent > 0
  BY <1>1, <1>2, <1>4, <1>7, AllTimes DEF Fresh, Recent
<1>8. ASSUME mpc = "wait", timer > 0 PROVE last_sent > 0
  BY <1>8 DEF SentSoon
<1> QED
  BY <1>5, <1>6, <1>7, <1>8 DEF Blocking

(* A broker that answers is only given up after an overrun.                *)
LEMMA GivenUp ==
    ASSUME Known, SentSoon, Session, link = "up", GiveUp,
           \/ ReadAnswer /\ PingLost(AfterRead(Head(inbox)))
           \/ HandlerReturns /\ PingLost(AfterRead(running))
           \/ YieldEnds /\ PingLost(AfterRead("none"))
           \/ AckFails \/ PublishTimesOut \/ SocketError
    PROVE  overran
<1> SUFFICES ASSUME ~overran PROVE FALSE
  OBVIOUS
<1>1. /\ ping_outstanding /\ mpc \in Blocking /\ timer > 0 => ping_wait > 0 \/ last_sent > 0
      /\ ping_outstanding /\ mpc = "yield" /\ timer = 0 => ping_wait > 0
      /\ mpc = "wait" => timer > 0
  BY InTime
<1>2. timer \in Nat /\ KeepAliveInterval # 0 /\ last_received \in Nat
  BY AllTimes DEF Known, Numbers
<1>3. ASSUME NEW kind, PingLost(AfterRead(kind))
      PROVE  /\ ping_outstanding /\ ping_wait = 0
             /\ \/ kind # "QOS1" /\ last_sent = 0
                \/ kind \notin Answers /\ last_received = 0
  <2> DEFINE c == AfterRead(kind)
  <2>1. /\ c.sent = IF kind = "QOS1" THEN KeepAliveInterval ELSE last_sent
        /\ c.received = IF kind \in Answers THEN KeepAliveInterval ELSE last_received
        /\ c.outstanding = (kind # "PINGRESP" /\ ping_outstanding)
    BY DEF AfterRead
  <2>2. (c.sent = 0 \/ c.received = 0) /\ c.outstanding /\ ping_wait = 0
    BY <1>3 DEF PingLost, Due
  <2> HIDE DEF c
  <2>3. ping_outstanding
    BY <2>1, <2>2, Zenon
  <2>4. \/ kind # "QOS1" /\ last_sent = 0
        \/ kind \notin Answers /\ last_received = 0
    BY <1>2, <2>1, <2>2
  <2> QED
    BY <2>2, <2>3, <2>4
<1>4. CASE ReadAnswer /\ PingLost(AfterRead(Head(inbox)))
  BY <1>1, <1>3, <1>4 DEF ReadAnswer, Readable
<1>5. CASE HandlerReturns /\ PingLost(AfterRead(running))
  <2>1. running # "none" /\ mpc \in Blocking /\ timer > 0 /\ last_received > timer
    BY <1>2, <1>5 DEF HandlerReturns, Known, Where, Session, Overruns
  <2> QED
    BY <1>1, <1>2, <1>3, <1>5, <2>1
<1>6. CASE YieldEnds /\ PingLost(AfterRead("none"))
  BY <1>1, <1>3, <1>6 DEF YieldEnds
<1>7. CASE AckFails
  BY <1>7 DEF AckFails, AckExpired, Session, Overruns
<1>8. CASE PublishTimesOut \/ SocketError
  BY <1>1, <1>8 DEF PublishTimesOut, SocketError
<1> QED
  BY <1>4, <1>5, <1>6, <1>7, <1>8

(* Nothing of a session is left when it is given up.                       *)
LEMMA GiveUpSession == ASSUME Known, GiveUp, link = "up" => overran PROVE Session'
<1>1. /\ mpc' = "down" /\ pending' = <<>> /\ inbox' = <<>> /\ ping_outstanding' = FALSE
      /\ running' = "none" /\ UNCHANGED <<link, overran>>
  BY DEF GiveUp
<1>2. NothingLeft' /\ AnswersCome'
  BY <1>1 DEF NothingLeft, AnswersCome
<1>3. OnePublish'
  BY <1>1, Empty DEF OnePublish
<1>4. OnTime' /\ Overruns'
  BY <1>1, Empty DEF OnTime, Overruns
<1> QED
  BY <1>2, <1>3, <1>4 DEF Session

(* What can be said of the requests after a cycle.                         *)
LEMMA CycleAsked ==
    ASSUME Known, Session, NEW kind, NEW next, CycleGoesOn(kind, next)
    PROVE  /\ HasAsked(pending', "PUBLISH") <=> HasAsked(pending, "PUBLISH")
           /\ AskedOnce(pending', "PUBLISH")
           /\ OnTime'
           /\ link # "up" => pending' = <<>>
           /\ link = "up" /\ ping_outstanding' =>
                \/ HasAsked(pending', "PINGREQ") /\ ping_wait' = PingTimeout
                   /\ last_sent' = KeepAliveInterval
                \/ /\ kind # "PINGRESP" /\ ping_outstanding /\ UNCHANGED <<ping_wait, pending>>
                   /\ last_sent' >= last_sent
<1>1. /\ AskedOnce(pending, "PUBLISH") /\ pending \in Queue
      /\ InStep(pending, ping_wait, last_sent, timer) /\ (link # "up" => pending = <<>>)
  BY DEF Known, Queues, Session, OnePublish, OnTime, NothingLeft
<1>2. /\ timer \in Nat /\ ping_wait \in 0 .. PingTimeout /\ last_sent \in 0 .. KeepAliveInterval
      /\ timer' = timer
  <2>1. timer' = timer
    BY CycleDoes DEF Known
  <2> QED
    BY <2>1, AllTimes DEF Known, Numbers
<1>3. CASE /\ last_sent' = KeepAliveInterval /\ ping_wait' = PingTimeout
           /\ pending' = Deliver(pending, "PINGREQ") /\ link = "up"
  <2>1. pending' = Append(pending, [kind |-> "PINGREQ", age |-> 0]) /\ "PINGREQ" \in Requests
    BY <1>3 DEF Deliver, Requests
  <2>2. InStep(pending, PingTimeout, KeepAliveInterval, timer)
    BY <1>1, <1>2, StepKept, AllTimes
  <2>3. InStep(pending', PingTimeout, KeepAliveInterval, timer)
    BY <1>1, <1>2, <2>1, <2>2, StepAsked, AllTimes
  <2>4. OnTime'
    BY <1>2, <1>3, <2>3 DEF OnTime
  <2>5. /\ \A h : HasAsked(pending', h) <=> HasAsked(pending, h) \/ h = "PINGREQ"
        /\ AskedOnce(pending', "PUBLISH")
    BY <1>1, <2>1, BrokerAsked
  <2> QED
    BY <1>3, <2>4, <2>5
<1>4. CASE /\ last_sent' = KeepAliveInterval /\ ping_wait' = PingTimeout
           /\ pending' = Deliver(pending, "PINGREQ") /\ link # "up"
  <2>1. pending' = <<>>
    BY <1>1, <1>4 DEF Deliver
  <2> QED
    BY <1>1, <1>4, <2>1, Empty DEF OnTime
<1>5. CASE /\ last_sent' \in {KeepAliveInterval, last_sent}
           /\ ping_outstanding' = (kind # "PINGRESP" /\ ping_outstanding)
           /\ UNCHANGED <<ping_wait, pending>>
  <2>1. last_sent' >= last_sent /\ last_sent' \in Nat
    BY <1>2, <1>5, AllTimes
  <2>2. InStep(pending, ping_wait, last_sent', timer)
    BY <1>1, <1>2, <2>1, StepKept, AllTimes
  <2>3. OnTime'
    BY <1>2, <1>5, <2>2 DEF OnTime
  <2> QED
    BY <1>1, <1>5, <2>1, <2>3
<1>6. \/ /\ last_sent' = KeepAliveInterval /\ ping_wait' = PingTimeout
         /\ pending' = Deliver(pending, "PINGREQ")
      \/ /\ last_sent' \in {KeepAliveInterval, last_sent}
         /\ ping_outstanding' = (kind # "PINGRESP" /\ ping_outstanding)
         /\ UNCHANGED <<ping_wait, pending>>
  BY CycleDoes DEF Known
<1> QED
  BY <1>3, <1>4, <1>5, <1>6

(* A cycle that goes on: what it has not read is still there.              *)
LEMMA CycleSession ==
    ASSUME Known, SentSoon, Session, NEW kind, NEW next, CycleGoesOn(kind, next),
           mpc \in Blocking,
           \/ next = mpc /\ (timer > 0 \/ running # "none")
           \/ next = "loop" /\ mpc = "yield" /\ timer = 0 /\ kind \notin Answers
           \/ next = "published" /\ mpc = "wait" /\ timer > 0 /\ kind = "PUBACK",
           \A p : Has(inbox, p) <=> Has(inbox', p) \/ (p = kind /\ kind \in Answers),
           Once(inbox', "PUBACK"),
           kind = "PUBACK" => ~Has(inbox', "PUBACK"),
           next = "published" \/ (mpc = "wait" => kind # "PUBACK"),
           (\E p : Has(inbox', p)) => overran' = overran,
           running = "none" => kind = "none" \/ timer > 0
    PROVE  Session'
<1>1. /\ mpc' = next /\ running' = "none" /\ UNCHANGED <<link, timer>>
  BY CycleDoes DEF Known
<1>2. /\ HasAsked(pending', "PUBLISH") <=> HasAsked(pending, "PUBLISH")
      /\ AskedOnce(pending', "PUBLISH")
      /\ OnTime'
      /\ link # "up" => pending' = <<>>
      /\ link = "up" /\ ping_outstanding' =>
           \/ HasAsked(pending', "PINGREQ") /\ ping_wait' = PingTimeout
              /\ last_sent' = KeepAliveInterval
           \/ /\ kind # "PINGRESP" /\ ping_outstanding /\ UNCHANGED <<ping_wait, pending>>
              /\ last_sent' >= last_sent
  BY CycleAsked
<1>3. mpc \in {"yield", "wait"} /\ next \in {"yield", "wait", "loop", "published"}
  BY DEF Blocking
<1>4. NothingLeft'
  BY <1>1, <1>2, <1>3 DEF NothingLeft
<1>5. OnePublish'
  <2>1. ~(Has(inbox', "PUBACK") /\ HasAsked(pending', "PUBLISH"))
    BY <1>2 DEF Session, OnePublish
  <2>2. Has(inbox', "PUBACK") \/ HasAsked(pending', "PUBLISH") => mpc' = "wait"
    <3>1. Has(inbox', "PUBACK") \/ HasAsked(pending', "PUBLISH") => mpc = "wait"
      BY <1>2 DEF Session, OnePublish
    <3>2. kind = "PUBACK" => ~HasAsked(pending', "PUBLISH")
      BY <1>2 DEF Session, OnePublish, Answers
    <3> QED
      BY <1>1, <3>1, <3>2
  <2> QED
    BY <1>2, <2>1, <2>2 DEF OnePublish
<1>6. Overruns'
  BY <1>1 DEF Overruns
<1>7. AnswersCome'
  <2> SUFFICES ASSUME link = "up" PROVE AnswersCome'
    BY <1>1 DEF AnswersCome
  <2>1. mpc' # "down"
    BY <1>1, <1>3
  <2>2. ping_outstanding' => HasAsked(pending', "PINGREQ") \/ Has(inbox', "PINGRESP")
    BY <1>2 DEF Session, AnswersCome
  <2>3. mpc' = "wait" => \/ HasAsked(pending', "PUBLISH")
                         \/ Has(inbox', "PUBACK") /\ (timer' > 0 \/ overran')
    BY <1>1, <1>2, <1>3 DEF Session, AnswersCome
  <2>4. ASSUME ping_outstanding', Has(inbox', "PINGRESP"), ~overran' PROVE Fresh'
    <3>1. ~overran /\ Has(inbox, "PINGRESP")
      BY <2>4
    <3>2. /\ timer \in Nat /\ last_sent \in Nat /\ last_sent' \in Nat /\ ping_wait \in Nat
          /\ timer <= CommandTimeout + YieldTime
      <4>1. last_sent' \in {KeepAliveInterval, last_sent}
        BY CycleDoes DEF Known
      <4> QED
        BY <4>1, AllTimes DEF Known, Numbers
    <3>3. (mpc = "yield" => timer <= YieldTime) /\ (mpc = "wait" => timer <= CommandTimeout)
      BY DEF Known, Where
    <3>4. CASE ping_wait' = PingTimeout /\ last_sent' = KeepAliveInterval
      <4>1. Recent(next, timer, PingTimeout, KeepAliveInterval)
        BY <3>2, <3>3, RecentNow, AllTimes
      <4> QED
        BY <1>1, <3>4, <4>1 DEF Fresh
    <3>5. CASE ping_outstanding /\ ping_wait' = ping_wait /\ last_sent' >= last_sent
      <4>1. Recent(mpc, timer, ping_wait, last_sent)
        BY <3>1, <3>5 DEF Session, AnswersCome, Fresh
      <4>2. CASE next = mpc \/ (next = "loop" /\ mpc = "yield" /\ timer = 0)
        <5>1. Recent(next, timer, ping_wait, last_sent')
          BY <3>2, <3>5, <4>1, <4>2, RecentKept
        <5> QED
          BY <1>1, <3>5, <5>1 DEF Fresh
      <4>3. CASE next = "published" /\ mpc = "wait" /\ timer > 0
        <5>1. /\ last_sent > 0 /\ since_sent + last_sent = KeepAliveInterval
              /\ since_sent + timer <= CommandTimeout /\ since_sent \in Nat
          <6>1. Left = timer /\ since_sent \in Nat
            BY <4>3, LeftType DEF Known, Numbers
          <6>2. /\ last_sent > 0 /\ since_sent + last_sent = KeepAliveInterval
                /\ since_sent + Left <= CommandTimeout
            BY <4>3 DEF SentSoon
          <6> QED
            BY <6>1, <6>2
        <5>2. last_sent' + CommandTimeout >= KeepAliveInterval
          <6>1. CommandTimeout \in Nat /\ KeepAliveInterval \in Nat
            BY AllTimes
          <6>2. last_sent + CommandTimeout >= KeepAliveInterval
            BY <3>2, <5>1, <6>1
          <6>3. PICK n \in Nat : n = last_sent'
            BY <3>2
          <6>4. n >= last_sent
            BY <3>5, <6>3
          <6>5. n + CommandTimeout >= KeepAliveInterval
            BY <3>2, <6>1, <6>2, <6>4
          <6> QED
            BY <6>3, <6>5
        <5> QED
          BY <1>1, <4>3, <5>2, Zenon DEF Fresh, Recent
      <4> QED
        BY <4>2, <4>3
    <3> QED
      BY <1>2, <2>4, <3>4, <3>5
  <2> QED
    BY <1>1, <2>1, <2>2, <2>3, <2>4 DEF AnswersCome
<1> QED
  BY <1>2, <1>4, <1>5, <1>6, <1>7 DEF Session

(* Has(q, p) for the packets of a sequence, or for no packet at all.       *)
LEMMA HasSome == ASSUME NEW q \in Seq(Packets) PROVE q # <<>> <=> \E p : Has(q, p)
<1>1. ASSUME q # <<>> PROVE Has(q, Head(q))
  BY <1>1, TailFacts DEF Has
<1>2. ASSUME NEW p, Has(q, p) PROVE q # <<>>
  BY <1>2, Empty
<1> QED
  BY <1>1, <1>2

(* keepalive is called with what was read, handled or not received.        *)
LEMMA CyclesSession ==
    ASSUME Known, SentSoon, Session, ReadAnswer \/ HandlerReturns \/ YieldEnds
    PROVE  Session'
<1>1. inbox \in Seq(Packets) /\ (inbox # <<>> => Tail(inbox) \in Seq(Packets))
  BY DEF Known, Queues
<1>2. ASSUME GiveUp, \/ ReadAnswer /\ PingLost(AfterRead(Head(inbox)))
                     \/ HandlerReturns /\ PingLost(AfterRead(running))
                     \/ YieldEnds /\ PingLost(AfterRead("none"))
      PROVE  Session'
  BY <1>2, GivenUp, GiveUpSession
<1>3. ASSUME NEW q \in Seq(Packets), CaughtUp(q) PROVE (\E p : Has(q, p)) => overran' = overran
  BY <1>3, HasSome DEF CaughtUp, Known, Flags
<1>4. CASE ReadAnswer
  <2> DEFINE kind == Head(inbox)
             next == IF mpc = "wait" /\ kind = "PUBACK" THEN "published" ELSE mpc
  <2>1. Readable /\ kind \in Answers
    BY <1>4 DEF ReadAnswer
  <2>2. mpc \in Blocking /\ running = "none" /\ timer > 0 /\ inbox # <<>>
    BY <2>1 DEF Readable
  <2>3. CASE PingLost(AfterRead(kind)) /\ GiveUp
    BY <1>2, <1>4, <2>3
  <2>4. CASE CycleGoesOn(kind, next) /\ inbox' = Tail(inbox) /\ CaughtUp(Tail(inbox))
    <3>1. /\ \A p : Has(inbox, p) <=> Has(inbox', p) \/ p = kind
          /\ \A p : Once(inbox, p) => Once(inbox', p) /\ ~(p = kind /\ Has(inbox', p))
      BY <1>1, <2>2, <2>4, InboxRead
    <3>2. Once(inbox', "PUBACK") /\ (kind = "PUBACK" => ~Has(inbox', "PUBACK"))
      BY <3>1 DEF Session, OnePublish
    <3>3. (\E p : Has(inbox', p)) => overran' = overran
      BY <1>1, <1>3, <2>2, <2>4
    <3>4. \/ next = mpc
          \/ next = "published" /\ mpc = "wait" /\ kind = "PUBACK"
      OBVIOUS
    <3>5. next = "published" \/ (mpc = "wait" => kind # "PUBACK")
      OBVIOUS
    <3>6. \A p : Has(inbox, p) <=> Has(inbox', p) \/ (p = kind /\ kind \in Answers)
      BY <2>1, <3>1
    <3> HIDE DEF kind, next
    <3> QED
      BY <2>2, <2>4, <3>2, <3>3, <3>4, <3>5, <3>6, CycleSession
  <2> QED
    BY <1>4, <2>3, <2>4 DEF ReadAnswer
<1>5. CASE HandlerReturns
  <2> DEFINE next == IF mpc = "yield" /\ timer = 0 THEN "loop" ELSE mpc
  <2>1. running # "none" /\ mpc \in Blocking /\ running \notin Answers /\ running # "PUBACK"
    BY <1>5 DEF HandlerReturns, Known, Where, Numbers, Pushed, Answers
  <2>2. CASE PingLost(AfterRead(running)) /\ GiveUp
    BY <1>2, <1>5, <2>2
  <2>3. CASE CycleGoesOn(running, next) /\ inbox' = inbox /\ CaughtUp(inbox)
    <3>1. Once(inbox', "PUBACK")
      BY <2>3 DEF Session, OnePublish
    <3>2. (\E p : Has(inbox', p)) => overran' = overran
      BY <1>1, <1>3, <2>3
    <3>3. \/ next = mpc
          \/ next = "loop" /\ mpc = "yield" /\ timer = 0
      OBVIOUS
    <3>4. \A p : Has(inbox, p) <=> Has(inbox', p) \/ (p = running /\ running \in Answers)
      BY <2>1, <2>3
    <3> HIDE DEF next
    <3> QED
      BY <2>1, <2>3, <3>1, <3>2, <3>3, <3>4, CycleSession
  <2> QED
    BY <1>5, <2>2, <2>3 DEF HandlerReturns
<1>6. CASE YieldEnds
  <2>1. mpc = "yield" /\ running = "none" /\ timer = 0 /\ mpc \in Blocking
    BY <1>6 DEF YieldEnds, Blocking
  <2>2. CASE PingLost(AfterRead("none")) /\ GiveUp
    BY <1>2, <1>6, <2>2
  <2>3. CASE CycleGoesOn("none", "loop") /\ UNCHANGED <<inbox, overran>>
    <3>1. Once(inbox', "PUBACK") /\ "none" \notin Answers
      BY <2>3 DEF Session, OnePublish, Answers
    <3> QED
      BY <2>1, <2>3, <3>1, CycleSession
  <2> QED
    BY <1>6, <2>2, <2>3 DEF YieldEnds
<1> QED
  BY <1>4, <1>5, <1>6

(* A message is read.                                                      *)
LEMMA ReadSession ==
    ASSUME Known, SentSoon, Session, ReadMessage
    PROVE  Session'
<1>1. /\ UNCHANGED <<link, mpc, timer, last_sent, ping_wait, ping_outstanding, pending, overran>>
      /\ inbox' = Tail(inbox) /\ inbox # <<>> /\ timer > 0 /\ mpc \in Blocking
      /\ last_received' = KeepAliveInterval /\ Head(inbox) \in Pushed
  BY DEF ReadMessage, Readable
<1>2. /\ \A p : Has(inbox, p) <=> Has(inbox', p) \/ p = Head(inbox)
      /\ \A p : Once(inbox, p) => Once(inbox', p)
  BY <1>1, InboxRead DEF Known, Queues
<1>3. Head(inbox) # "PUBACK" /\ Head(inbox) # "PINGRESP"
  BY <1>1 DEF Pushed
<1>4. NothingLeft' /\ OnePublish'
  BY <1>1, <1>2, <1>3 DEF Session, NothingLeft, OnePublish, Blocking
<1>5. OnTime'
  BY <1>1 DEF Session, OnTime
<1>6. Overruns'
  <2>1. timer \in Nat /\ timer <= CommandTimeout + YieldTime
    BY AllTimes DEF Known, Numbers
  <2> QED
    BY <1>1, <2>1, AllTimes DEF Overruns
<1>7. AnswersCome'
  BY <1>1, <1>2, <1>3 DEF Session, AnswersCome, Fresh
<1> QED
  BY <1>4, <1>5, <1>6, <1>7 DEF Session

(* Steps that touch neither the queues nor the timers of the client.       *)
LEMMA QuietSession ==
    ASSUME Known, Session, HandlerCommands \/ UNCHANGED vars
    PROVE  Session'
<1>1. UNCHANGED <<link, mpc, timer, last_sent, last_received, ping_wait, ping_outstanding, pending,
                  inbox, overran, running>>
  BY DEF HandlerCommands, clientvars, handlervars, vars
<1>2. NothingLeft' /\ OnePublish' /\ OnTime' /\ Overruns'
  BY <1>1 DEF Session, NothingLeft, OnePublish, OnTime, Overruns
<1>3. AnswersCome'
  BY <1>1 DEF Session, AnswersCome, Fresh
<1> QED
  BY <1>2, <1>3 DEF Session

(* The loop goes on to MQTTYield, or to a delay and back.                  *)
LEMMA LoopSession ==
    ASSUME Known, Session, StartYield \/ NoAddress \/ DelayEnds
    PROVE  Session'
<1>1. /\ mpc \in {"loop", "published", "delay"} /\ mpc' \in {"yield", "delay", "loop"}
      /\ UNCHANGED <<link, last_sent, last_received, ping_wait, ping_outstanding, pending, inbox,
                     overran, running>>
      /\ timer' \in {YieldTime, DelayTime, timer}
  BY DEF StartYield, NoAddress, DelayEnds, clientvars, handlervars
<1>2. running = "none"
  BY <1>1 DEF Known, Where, Blocking
<1>3. ~Has(inbox, "PUBACK") /\ ~HasAsked(pending, "PUBLISH")
  BY <1>1 DEF Session, OnePublish
<1>4. NothingLeft' /\ OnePublish' /\ Overruns'
  BY <1>1, <1>2, <1>3 DEF Session, NothingLeft, OnePublish, Overruns
<1>5. /\ timer \in Nat /\ ping_wait \in Nat /\ last_sent \in Nat /\ pending \in Queue
      /\ timer' \in Nat
  BY <1>1, AllTimes DEF Known, Numbers, Queues
<1>6. OnTime'
  <2>1. InStep(pending, ping_wait, last_sent, timer')
    BY <1>3, <1>5, StepKept DEF Session, OnTime
  <2> QED
    BY <1>1, <2>1 DEF OnTime
<1>7. AnswersCome'
  <2> SUFFICES ASSUME link = "up" PROVE AnswersCome'
    BY <1>1 DEF AnswersCome
  <2>1. mpc \in {"loop", "published"} /\ mpc' = "yield" /\ timer' = YieldTime
    <3>1. mpc # "delay" /\ (~ip => FALSE)
      BY DEF Known, Where
    <3> QED
      BY <3>1 DEF StartYield, NoAddress, DelayEnds
  <2>2. Recent(mpc, timer, ping_wait, last_sent) => Recent("yield", YieldTime, ping_wait, last_sent)
    BY <1>5, <2>1, RecentKept
  <2> QED
    BY <1>1, <2>1, <2>2 DEF Session, AnswersCome, Fresh
<1> QED
  BY <1>4, <1>6, <1>7 DEF Session

(* A new session begins.                                                   *)
LEMMA ReconnectSession == ASSUME Known, Session, Reconnect PROVE Session'
<1>1. /\ mpc = "down" /\ mpc' = "loop" /\ link' = "up"
      /\ UNCHANGED <<timer, running, ping_outstanding, pending, inbox>>
  BY DEF Reconnect
<1>2. pending = <<>> /\ inbox = <<>> /\ ~ping_outstanding /\ running = "none"
  BY <1>1 DEF Session, NothingLeft, Known, Where, Blocking
<1>3. NothingLeft' /\ Overruns' /\ AnswersCome'
  BY <1>1, <1>2 DEF NothingLeft, Overruns, AnswersCome
<1>4. OnePublish' /\ OnTime'
  BY <1>1, <1>2, Empty DEF OnePublish, OnTime
<1> QED
  BY <1>3, <1>4 DEF Session

(* The status is published: no other publication is on its way.            *)
LEMMA PublishSession == ASSUME Known, Session, PublishStatus PROVE Session'
<1>1. /\ mpc = "loop" /\ mpc' = "wait" /\ timer' = CommandTimeout /\ last_sent' = KeepAliveInterval
      /\ pending' = Deliver(pending, "PUBLISH")
      /\ UNCHANGED <<link, ping_wait, ping_outstanding, inbox, running, overran>>
  BY DEF PublishStatus, handlervars
<1>2. ~Has(inbox, "PUBACK") /\ ~HasAsked(pending, "PUBLISH")
  BY <1>1 DEF Session, OnePublish
<1>3. /\ timer \in Nat /\ ping_wait \in Nat /\ last_sent \in Nat /\ pending \in Queue
      /\ last_sent <= KeepAliveInterval /\ "PUBLISH" \in Requests
  BY AllTimes DEF Known, Numbers, Queues, Requests
<1>4. running = "none"
  BY <1>1 DEF Known, Where, Blocking
<1>5. Overruns'
  BY <1>1, <1>4 DEF Overruns
<1>6. CASE link = "up"
  <2>1. pending' = Append(pending, [kind |-> "PUBLISH", age |-> 0])
    BY <1>1, <1>6 DEF Deliver
  <2>2. /\ \A h : HasAsked(pending', h) <=> HasAsked(pending, h) \/ h = "PUBLISH"
        /\ AskedOnce(pending', "PUBLISH")
    BY <1>2, <1>3, <2>1, BrokerAsked DEF Session, OnePublish
  <2>3. InStep(pending, ping_wait, KeepAliveInterval, CommandTimeout)
    BY <1>2, <1>3, StepKept, AllTimes DEF Session, OnTime
  <2>4. InStep(pending', ping_wait, KeepAliveInterval, CommandTimeout)
    BY <1>3, <2>1, <2>3, StepAsked, AllTimes
  <2>5. OnTime'
    BY <1>1, <2>4 DEF OnTime
  <2>6. NothingLeft' /\ OnePublish'
    BY <1>1, <1>2, <1>6, <2>2 DEF Session, NothingLeft, OnePublish
  <2>7. AnswersCome'
    BY <1>1, <2>2 DEF Session, AnswersCome, Fresh, Recent
  <2> QED
    BY <1>5, <2>5, <2>6, <2>7 DEF Session
<1>7. CASE link # "up"
  <2>1. pending' = <<>> /\ pending = <<>>
    BY <1>1, <1>7 DEF Deliver, Session, NothingLeft
  <2>2. NothingLeft' /\ AnswersCome'
    BY <1>1, <1>7, <2>1 DEF NothingLeft, AnswersCome
  <2>3. OnePublish' /\ OnTime'
    BY <1>1, <1>2, <2>1, Empty DEF OnePublish, OnTime, Session
  <2> QED
    BY <1>5, <2>2, <2>3 DEF Session
<1> QED
  BY <1>6, <1>7

(* The broker answers, in time.                                            *)
LEMMA AnswerSession == ASSUME Known, Session, Answer PROVE Session'
<1> DEFINE k == Head(pending).kind
           e == AnswerTo(k)
<1>1. link = "up" /\ pending # <<>> /\ inbox' = Append(inbox, e) /\ pending' = Tail(pending)
      /\ link' = link
  BY DEF Answer
<1>2. UNCHANGED <<mpc, timer, last_sent, last_received, ping_wait, ping_outstanding, running,
                  overran>>
  BY ClientRests DEF Network
<1>3. pending \in Queue /\ inbox \in Seq(Packets) /\ e \in Packets
  BY DEF Known, Queues, AnswerTo, Packets
<1>4. /\ Head(pending) \in Asked /\ \E j \in DOMAIN pending : Head(pending) = pending[j]
      /\ \A i \in DOMAIN pending' : \E j \in DOMAIN pending : pending'[i] = pending[j]
      /\ \A h : HasAsked(pending, h) <=> HasAsked(pending', h) \/ h = k
      /\ \A h : AskedOnce(pending, h) => AskedOnce(pending', h) /\ ~(h = k /\ HasAsked(pending', h))
  BY <1>1, <1>3, BrokerAnswers
<1>5. k \in Requests
  BY <1>4 DEF Asked
<1>6. ASSUME k = "PINGREQ" PROVE ping_wait > 0 /\ last_sent + CommandTimeout >= KeepAliveInterval
  <2>1. PICK j \in DOMAIN pending : Head(pending) = pending[j]
    BY <1>4
  <2>2. /\ ping_wait + pending[j].age >= PingTimeout
        /\ last_sent + pending[j].age >= KeepAliveInterval
    BY <1>6, <2>1 DEF Session, OnTime, InStep
  <2>3. pending[j].age \in Nat /\ pending[j].age <= MaxAnswer
    BY <1>3, Aged
  <2>4. ping_wait \in Nat /\ last_sent \in Nat
    BY AllTimes DEF Known, Numbers
  <2> QED
    BY <2>2, <2>3, <2>4, AllTimes
<1>7. ASSUME k = "PUBLISH" PROVE timer > 0
  <2>1. PICK j \in DOMAIN pending : Head(pending) = pending[j]
    BY <1>4
  <2>2. timer + pending[j].age >= CommandTimeout
    BY <1>7, <2>1 DEF Session, OnTime, InStep
  <2>3. pending[j].age \in Nat /\ pending[j].age <= MaxAnswer /\ timer \in Nat
    BY <1>3, Aged, AllTimes DEF Known, Numbers
  <2> QED
    BY <2>2, <2>3, AllTimes
<1>8. OnTime'
  <2>1. InStep(pending', ping_wait, last_sent, timer)
    BY <1>4 DEF Session, OnTime, InStep
  <2> QED
    BY <1>2, <2>1 DEF OnTime
<1>9. /\ \A p : Has(inbox', p) <=> Has(inbox, p) \/ p = e
      /\ \A p : Once(inbox, p) /\ (p = e => ~Has(inbox, p)) => Once(inbox', p)
  BY <1>1, <1>3, InboxGrows
<1>10. (e = "PUBACK" <=> k = "PUBLISH") /\ (e = "PINGRESP" <=> k = "PINGREQ")
  BY <1>5 DEF AnswerTo, Requests
<1> HIDE DEF e, k
<1>11. NothingLeft' /\ Overruns'
  <2>1. mpc # "down"
    BY <1>1 DEF Session, NothingLeft
  <2> QED
    BY <1>1, <1>2, <2>1 DEF Session, NothingLeft, Overruns
<1>12. OnePublish'
  <2>1. CASE k = "PUBLISH"
    BY <1>2, <1>4, <1>9, <1>10, <2>1 DEF Session, OnePublish
  <2>2. CASE k # "PUBLISH"
    BY <1>2, <1>4, <1>9, <1>10, <2>2 DEF Session, OnePublish
  <2> QED
    BY <2>1, <2>2
<1>13. AnswersCome'
  <2>1. ping_outstanding => HasAsked(pending', "PINGREQ") \/ Has(inbox', "PINGRESP")
    BY <1>1, <1>4, <1>9, <1>10 DEF Session, AnswersCome
  <2>2. mpc = "wait" => HasAsked(pending', "PUBLISH")
                        \/ (Has(inbox', "PUBACK") /\ (timer > 0 \/ overran))
    BY <1>1, <1>4, <1>7, <1>9, <1>10 DEF Session, AnswersCome
  <2>3. ASSUME ping_outstanding, Has(inbox', "PINGRESP"), ~overran PROVE Fresh
    <3>1. CASE k = "PINGREQ"
      <4>1. /\ timer \in Nat /\ ping_wait \in Nat /\ last_sent \in Nat
            /\ mpc = "yield" => timer <= YieldTime
        BY AllTimes DEF Known, Numbers, Where
      <4> QED
        BY <1>6, <3>1, <4>1, RecentNow DEF Fresh
    <3>2. CASE k # "PINGREQ"
      BY <1>1, <1>9, <1>10, <2>3, <3>2 DEF Session, AnswersCome
    <3> QED
      BY <3>1, <3>2
  <2>4. Fresh => Fresh'
    BY <1>2 DEF Fresh
  <2>5. mpc # "down"
    BY <1>1 DEF Session, NothingLeft
  <2> QED
    BY <1>1, <1>2, <2>1, <2>2, <2>3, <2>4, <2>5 DEF AnswersCome
<1> QED
  BY <1>8, <1>11, <1>12, <1>13 DEF Session

(* Messages for the device, and a link that is lost or found.              *)
LEMMA NetworkSession ==
    ASSUME Known, Session, Push \/ GoSilent \/ Die \/ LoseAddress \/ GainAddress
    PROVE  Session'
<1>1. UNCHANGED <<mpc, timer, last_sent, last_received, ping_wait, ping_outstanding, running,
                  overran>>
  BY ClientRests DEF Network
<1>2. CASE Push
  <2>1. PICK m \in Pushed : inbox' = Append(inbox, m)
    BY <1>2 DEF Push
  <2>2. m \in Packets /\ m # "PUBACK" /\ m # "PINGRESP" /\ inbox \in Seq(Packets)
    BY DEF Pushed, Packets, Known, Queues
  <2>3. /\ \A p : Has(inbox', p) <=> Has(inbox, p) \/ p = m
        /\ Once(inbox, "PUBACK") => Once(inbox', "PUBACK")
    BY <2>1, <2>2, InboxGrows
  <2>4. UNCHANGED <<link, pending>> /\ mpc # "down"
    BY <1>2 DEF Push
  <2>5. NothingLeft' /\ OnePublish' /\ Overruns'
    BY <1>1, <2>2, <2>3, <2>4 DEF Session, NothingLeft, OnePublish, Overruns
  <2>6. OnTime'
    BY <1>1, <2>4 DEF Session, OnTime
  <2>7. AnswersCome'
    BY <1>1, <2>2, <2>3, <2>4 DEF Session, AnswersCome, Fresh
  <2> QED
    BY <2>5, <2>6, <2>7 DEF Session
<1>3. CASE GoSilent \/ Die \/ LoseAddress
  <2>1. link' # "up" /\ pending' = <<>> /\ inbox' = inbox
    BY <1>3 DEF GoSilent, Die, LoseAddress, Session, NothingLeft
  <2>2. NothingLeft' /\ AnswersCome' /\ Overruns'
    BY <1>1, <2>1 DEF Session, NothingLeft, AnswersCome, Overruns
  <2>3. OnTime' /\ OnePublish'
    BY <1>1, <2>1, Empty DEF Session, OnTime, OnePublish
  <2> QED
    BY <2>2, <2>3 DEF Session
<1>4. CASE GainAddress
  <2>1. UNCHANGED <<link, pending, inbox>>
    BY <1>4 DEF GainAddress
  <2>2. NothingLeft' /\ OnePublish' /\ OnTime' /\ Overruns'
    BY <1>1, <2>1 DEF Session, NothingLeft, OnePublish, OnTime, Overruns
  <2>3. AnswersCome'
    BY <1>1, <2>1 DEF Session, AnswersCome, Fresh
  <2> QED
    BY <2>2, <2>3 DEF Session
<1> QED
  BY <1>2, <1>3, <1>4

(* Time passes: then nothing is there to be read, or a handler runs.       *)
LEMMA TickSession == ASSUME Known, SentSoon, Session, Tick PROVE Session'
<1>1. /\ UNCHANGED <<link, mpc, running, ping_outstanding, inbox>>
      /\ timer' = Less(timer) /\ ping_wait' = Less(ping_wait) /\ last_sent' = Less(last_sent)
      /\ last_received' = Less(last_received) /\ pending' = Older(pending)
      /\ overran' = (overran \/ (running # "none" /\ timer' = 0))
  BY DEF Tick
<1>2. /\ \A h : HasAsked(pending', h) <=> HasAsked(pending, h)
      /\ \A h : AskedOnce(pending, h) => AskedOnce(pending', h)
  BY <1>1, BrokerWaits DEF Known, Queues
<1>3. /\ timer \in Nat /\ ping_wait \in Nat /\ last_sent \in Nat /\ last_received \in Nat
      /\ pending \in Queue
  BY AllTimes DEF Known, Numbers, Queues
<1>4. NothingLeft'
  <2>1. pending = <<>> => pending' = <<>>
    BY <1>1 DEF Older
  <2> QED
    BY <1>1, <2>1 DEF Session, NothingLeft
<1>5. OnePublish'
  BY <1>1, <1>2 DEF Session, OnePublish
<1>6. OnTime'
  <2>1. InStep(Older(pending), Less(ping_wait), Less(last_sent), Less(timer))
    BY <1>3, StepTicks DEF Session, OnTime
  <2> QED
    BY <1>1, <2>1 DEF OnTime
<1>7. Overruns'
  <2>1. running # "none" /\ timer' = 0 => overran'
    BY <1>1
  <2>2. running # "none" /\ timer' > 0 => last_received' > timer'
    BY <1>1, <1>3 DEF Session, Overruns, Less
  <2> QED
    BY <1>1, <2>1, <2>2 DEF Overruns
<1>8. AnswersCome'
  <2> SUFFICES ASSUME link = "up" PROVE AnswersCome'
    BY <1>1 DEF AnswersCome
  <2>1. overran => overran'
    BY <1>1
  <2>2. ping_outstanding' => HasAsked(pending', "PINGREQ") \/ Has(inbox', "PINGRESP")
    BY <1>1, <1>2 DEF Session, AnswersCome
  <2>3. ASSUME \E p : Has(inbox, p), mpc # "down", ~overran'
        PROVE  running # "none" /\ timer > 1 /\ ~overran
    <3>1. inbox # <<>>
      BY <2>3, Empty
    <3>2. mpc # "delay"
      BY DEF Known, Where
    <3>3. running # "none"
      BY <2>3, <3>1, <3>2 DEF Tick, TimePasses
    <3>4. timer' # 0 /\ ~overran
      BY <1>1, <2>3, <3>3
    <3> QED
      BY <1>1, <1>3, <3>3, <3>4 DEF Less
  <2>4. mpc' = "wait" => \/ HasAsked(pending', "PUBLISH")
                         \/ Has(inbox', "PUBACK") /\ (timer' > 0 \/ overran')
    <3>0. /\ mpc' = mpc /\ inbox' = inbox
          /\ HasAsked(pending', "PUBLISH") <=> HasAsked(pending, "PUBLISH")
      BY <1>1, <1>2
    <3> SUFFICES ASSUME mpc = "wait", ~HasAsked(pending, "PUBLISH")
                 PROVE  Has(inbox, "PUBACK") /\ (timer' > 0 \/ overran')
      BY <3>0, Zenon
    <3>1. Has(inbox, "PUBACK")
      BY DEF Session, AnswersCome
    <3>2. ASSUME ~overran' PROVE timer' > 0
      <4>1. timer > 1
        BY <2>3, <3>1, <3>2
      <4> QED
        BY <1>1, <1>3, <4>1 DEF Less
    <3> QED
      BY <3>1, <3>2, Zenon
  <2>5. ASSUME ping_outstanding, Has(inbox, "PINGRESP"), ~overran' PROVE Fresh'
    <3>1. mpc # "down"
      BY <2>5 DEF Session, NothingLeft
    <3>2. running # "none" /\ timer > 1 /\ ~overran
      BY <2>3, <2>5, <3>1
    <3>3. mpc \in {"yield", "wait"}
      BY <3>2 DEF Known, Where, Blocking
    <3>4. CASE mpc = "wait"
      BY <1>1, <3>4 DEF Fresh, Recent
    <3>5. CASE mpc = "yield"
      <4>1. Recent("yield", timer, ping_wait, last_sent)
        BY <2>5, <3>2, <3>5 DEF Session, AnswersCome, Fresh
      <4>2. Recent("yield", timer - 1, Less(ping_wait), Less(last_sent))
        BY <1>3, <3>2, <4>1, RecentTicks
      <4>3. timer' = timer - 1
        BY <1>1, <1>3, <3>2 DEF Less
      <4> QED
        BY <1>1, <3>5, <4>2, <4>3 DEF Fresh
    <3> QED
      BY <3>3, <3>4, <3>5
  <2> QED
    BY <1>1, <2>1, <2>2, <2>4, <2>5 DEF Session, AnswersCome
<1> QED
  BY <1>4, <1>5, <1>6, <1>7, <1>8 DEF Session

(* Every step keeps what is known of the session.                          *)
LEMMA SessionKept == Known /\ SentSoon /\ Session /\ [Next]_vars => Session'
<1> SUFFICES ASSUME Known, SentSoon, Session, [Next]_vars PROVE Session'
  OBVIOUS
<1>1. CASE AckFails \/ PublishTimesOut \/ SocketError
  <2>1. GiveUp
    BY <1>1 DEF AckFails, PublishTimesOut, SocketError
  <2> QED
    BY <1>1, <2>1, GivenUp, GiveUpSession
<1> QED
  BY <1>1, CyclesSession, ReadSession, QuietSession, LoopSession, ReconnectSession, PublishSession,
     AnswerSession, NetworkSession, TickSession
  DEF Next, Client, Network

(* What is known of the session, with the types and the bound on           *)
(* since_sent.                                                             *)
THEOREM SessionAlways == Spec => [](Known /\ SentSoon /\ Session)
<1>1. Init => SentSoon
  BY AllTimes DEF Init, SentSoon
<1>2. Init => Session
  <2> SUFFICES ASSUME Init PROVE Session
    OBVIOUS
  <2>1. /\ link = "up" /\ mpc = "loop" /\ ~ping_outstanding /\ running = "none"
        /\ pending = <<>> /\ inbox = <<>>
    BY DEF Init
  <2>2. NothingLeft /\ Overruns /\ AnswersCome
    BY <2>1 DEF NothingLeft, Overruns, AnswersCome
  <2>3. OnePublish /\ OnTime
    BY <2>1, Empty DEF OnePublish, OnTime
  <2> QED
    BY <2>2, <2>3 DEF Session
<1> QED
  BY <1>1, <1>2, KnownFirst, KnownKept, SentKept, SessionKept, PTL DEF Spec

(* A broker that answers in time is given up after an overrun only:        *)
(* whatever pings, publications and pushed messages meet, the answer is    *)
(* read before the timer that waits for it runs out, unless a handler has  *)
(* outlasted the call it ran in.                                           *)
THEOREM HealthyAlwaysUp == Spec => []HealthyStaysUp
<1>1. Known /\ Session => HealthyStaysUp
  BY DEF Known, Where, Session, AnswersCome, HealthyStaysUp
<1> QED
  BY <1>1, SessionAlways, PTL

---------------------------------------------------------------------------
(***************************************************************************)
(* Silent brokers.  How long one can have been silent: until               *)
(* status_msg_timer fires, until the MQTTYield ends in which it did, until *)
(* the PUBACK is missed.                                                   *)
(***************************************************************************)

(* The status interval, or the time for a publication if that is longer.   *)
Longer(iv) == IF iv > CommandTimeout THEN iv ELSE CommandTimeout

(* At a place of the loop, with the time since the broker fell silent, the *)
(* time left in the call, its timer, the status timer and its interval.    *)
(* Acked: the PUBACK that the client waits for had come before.            *)
Patient(place, acked, sem, since, left, t, status, iv) ==
    /\ ~sem /\ (place # "wait" \/ acked) => since + status <= iv
    /\ place = "wait" /\ acked => since + left <= CommandTimeout
    /\ place = "published" => since <= CommandTimeout
    /\ place = "yield" => since + left <= Longer(iv) + YieldTime
    /\ place = "loop" => since <= Longer(iv) + YieldTime + HandlerTime
    /\ place = "wait" /\ ~acked =>
         since + left <= Longer(iv) + CommandTimeout + YieldTime + HandlerTime
    /\ place = "delay" => since + t <= DelayTime

Acked == Has(inbox, "PUBACK")
PatientNow == Patient(mpc, Acked, status_sem, silent_for, Left, timer, status_timer, interval)

SilentSoon ==
    /\ link = "up" \/ ~ip => silent_for = 0
    /\ link # "up" /\ mpc # "down" => PatientNow

(* No interval is longer than this.                                        *)
LEMMA LongerFacts ==
    ASSUME NEW iv \in Nat
    PROVE  Longer(iv) \in Nat /\ Longer(iv) >= iv /\ Longer(iv) >= CommandTimeout
  BY AllTimes DEF Longer

(* When silence begins, or is counted anew.                                *)
LEMMA PatientFirst ==
    ASSUME NEW m, NEW acked, NEW sem, NEW iv \in Nat, NEW st \in 1 .. iv, NEW t \in Nat,
           NEW l \in Int, l <= t, m = "yield" => t <= YieldTime, m = "wait" => t <= CommandTimeout,
           m = "delay" => t <= DelayTime
    PROVE  Patient(m, acked, sem, 0, l, t, st, iv)
  BY LongerFacts, AllTimes DEF Patient

(* Less time may be left; a status message may be asked for.               *)
LEMMA PatientKept ==
    ASSUME NEW m, NEW acked, NEW sem, NEW since \in Nat, NEW l \in Int, NEW t \in Nat,
           NEW st \in Nat, NEW iv \in Nat, Patient(m, acked, sem, since, l, t, st, iv),
           NEW l2 \in Int, l2 <= l
    PROVE  /\ Patient(m, acked, sem, since, l2, t, st, iv)
           /\ \A st2 : Patient(m, acked, TRUE, since, l2, t, st2, iv)
<1>1. Longer(iv) \in Nat
  BY LongerFacts
<1> HIDE DEF Longer
<1> QED
  BY <1>1, AllTimes DEF Patient

(* The ways of the loop.                                                   *)
LEMMA PatientMoves ==
    ASSUME NEW acked \in BOOLEAN, NEW sem \in BOOLEAN, NEW since \in Nat, NEW l \in Int,
           NEW t \in Nat, NEW st \in Nat \ {0}, NEW iv \in Nat, NEW m,
           Patient(m, acked, sem, since, l, t, st, iv), l >= -HandlerTime,
           NEW t2 \in Nat, NEW l2 \in Int
    PROVE  /\ m = "wait" /\ acked /\ l > 0 =>
                Patient("published", FALSE, sem, since, l2, t2, st, iv)
           /\ m = "yield" => Patient("loop", FALSE, sem, since, l2, t2, st, iv)
           /\ (m = "loop" /\ ~sem) \/ m = "published" =>
                Patient("yield", FALSE, sem, since, YieldTime, YieldTime, st, iv)
           /\ m = "loop" =>
                Patient("wait", FALSE, FALSE, since, CommandTimeout, CommandTimeout, st, iv)
           /\ m = "delay" /\ t = 0 => Patient("loop", FALSE, sem, since, l2, t2, st, iv)
<1>1. Longer(iv) \in Nat /\ Longer(iv) >= iv /\ Longer(iv) >= CommandTimeout
  BY LongerFacts
<1> USE AllTimes
<1>2. ASSUME m = "wait", acked, l > 0
      PROVE  Patient("published", FALSE, sem, since, l2, t2, st, iv)
  BY <1>1, <1>2 DEF Patient
<1>3. ASSUME m = "yield" PROVE Patient("loop", FALSE, sem, since, l2, t2, st, iv)
  BY <1>1, <1>3 DEF Patient
<1>4. ASSUME (m = "loop" /\ ~sem) \/ m = "published"
      PROVE  Patient("yield", FALSE, sem, since, YieldTime, YieldTime, st, iv)
  <2>1. since <= Longer(iv)
    BY <1>1, <1>4 DEF Patient
  <2>2. ~sem => since + st <= iv
    BY <1>4 DEF Patient
  <2> QED
    BY <1>1, <2>1, <2>2 DEF Patient
<1>5. ASSUME m = "loop"
      PROVE  Patient("wait", FALSE, FALSE, since, CommandTimeout, CommandTimeout, st, iv)
  BY <1>1, <1>5 DEF Patient
<1>6. ASSUME m = "delay", t = 0 PROVE Patient("loop", FALSE, sem, since, l2, t2, st, iv)
  <2>1. since <= Longer(iv)
    BY <1>1, <1>6 DEF Patient
  <2>2. ~sem => since + st <= iv
    BY <1>6 DEF Patient
  <2> QED
    BY <1>1, <2>1, <2>2 DEF Patient
<1> QED
  BY <1>2, <1>3, <1>4, <1>5, <1>6

(* A unit of time passes.                                                  *)
LEMMA PatientTicks ==
    ASSUME NEW m, NEW acked \in BOOLEAN, NEW sem \in BOOLEAN, NEW since \in Nat, NEW l \in Int,
           NEW t \in Nat, NEW st \in Nat \ {0}, NEW iv \in Nat,
           Patient(m, acked, sem, since, l, t, st, iv),
           NEW l2 \in Int, NEW t2 \in Nat,
           NEW sem2, NEW st2, ~sem2 => ~sem /\ st2 = st - 1,
           \/ m \in Blocking /\ l2 <= l - 1
           \/ m = "delay" /\ t > 0 /\ t2 = t - 1
    PROVE  Patient(m, acked, sem2, since + 1, l2, t2, st2, iv)
<1>1. Longer(iv) \in Nat
  BY LongerFacts
<1> HIDE DEF Longer
<1> USE AllTimes
<1>2. ~sem2 /\ (m # "wait" \/ acked) => (since + 1) + st2 <= iv
  <2>1. ~sem /\ (m # "wait" \/ acked) => since + st <= iv
    BY DEF Patient
  <2> QED
    BY <2>1
<1>3. CASE m \in Blocking /\ l2 <= l - 1
  <2>1. m \in {"yield", "wait"}
    BY <1>3 DEF Blocking
  <2>2. /\ m = "wait" /\ acked => (since + 1) + l2 <= CommandTimeout
        /\ m = "yield" => (since + 1) + l2 <= Longer(iv) + YieldTime
        /\ m = "wait" /\ ~acked =>
             (since + 1) + l2 <= Longer(iv) + CommandTimeout + YieldTime + HandlerTime
    <3>1. /\ m = "wait" /\ acked => since + l <= CommandTimeout
          /\ m = "yield" => since + l <= Longer(iv) + YieldTime
          /\ m = "wait" /\ ~acked =>
               since + l <= Longer(iv) + CommandTimeout + YieldTime + HandlerTime
      BY DEF Patient
    <3> QED
      BY <1>1, <1>3, <3>1
  <2> QED
    BY <1>2, <2>1, <2>2, Zenon DEF Patient
<1>4. CASE m = "delay" /\ t > 0 /\ t2 = t - 1
  BY <1>1, <1>2, <1>4 DEF Patient
<1> QED
  BY <1>3, <1>4

(* The types of what the bound speaks of.                                  *)
LEMMA PatientTypes ==
    ASSUME Known
    PROVE  /\ silent_for \in Nat /\ timer \in Nat /\ interval \in Nat
           /\ status_timer \in 1 .. interval /\ status_timer \in Nat \ {0}
           /\ Left \in Int /\ Left >= -HandlerTime /\ Left <= timer /\ (timer > 0 => Left = timer)
           /\ status_sem \in BOOLEAN /\ Acked \in BOOLEAN
           /\ mpc = "yield" => timer <= YieldTime
           /\ mpc = "wait" => timer <= CommandTimeout
           /\ mpc = "delay" => timer <= DelayTime
<1>1. /\ silent_for \in Nat /\ timer \in Nat /\ interval \in Intervals
      /\ status_timer \in 1 .. interval
  BY AllTimes DEF Known, Numbers
<1>2. interval \in Nat /\ status_timer \in Nat \ {0}
  BY <1>1, AllTimes
<1>3. Left \in Int /\ Left >= -HandlerTime /\ Left <= timer /\ (timer > 0 => Left = timer)
  BY LeftType DEF Known
<1>4. status_sem \in BOOLEAN
  BY DEF Known, Flags
<1>5. Acked \in BOOLEAN
  BY DEF Acked, Has
<1> QED
  BY <1>1, <1>2, <1>3, <1>4, <1>5 DEF Known, Where

(* The steps of the client.                                                *)
LEMMA ClientSilent ==
    ASSUME Known, Known', Session, Session', SilentSoon, Client, silent_for' # 0, link' # "up",
           mpc' # "down"
    PROVE  PatientNow'
<1>1. link = link' /\ silent_for' = silent_for /\ mpc # "down"
  <2>1. CASE ReadAnswer \/ HandlerReturns \/ YieldEnds
    <3>1. ~GiveUp
      BY DEF GiveUp
    <3>2. \E kind, next : CycleGoesOn(kind, next)
      BY <2>1, <3>1, CyclePlaces
    <3>3. mpc \in Blocking
      BY <2>1, <3>1, CyclePlaces DEF Readable, Known, Where, Blocking
    <3> QED
      BY <3>2, <3>3, CycleDoes DEF Known, Blocking
  <2>2. CASE AckFails \/ PublishTimesOut \/ SocketError \/ Reconnect
    BY <2>2 DEF AckFails, PublishTimesOut, SocketError, Reconnect, GiveUp
  <2>3. CASE ReadMessage \/ HandlerCommands
    BY <2>3 DEF ReadMessage, Readable, HandlerCommands, historyvars, Known, Where, Blocking
  <2>4. CASE StartYield \/ NoAddress \/ DelayEnds \/ PublishStatus
    BY <2>4 DEF StartYield, NoAddress, DelayEnds, PublishStatus, historyvars
  <2> QED
    BY <2>1, <2>2, <2>3, <2>4 DEF Client
<1>2. PatientNow
  BY <1>1 DEF SilentSoon
<1>3. Patient(mpc, Acked, status_sem, silent_for, Left, timer, status_timer, interval)
  BY <1>2 DEF PatientNow
<1>4. /\ silent_for \in Nat /\ timer \in Nat /\ interval \in Nat /\ status_timer \in Nat \ {0}
      /\ Left \in Int /\ Left >= -HandlerTime /\ (timer > 0 => Left = timer)
      /\ status_sem \in BOOLEAN /\ Acked \in BOOLEAN
  BY PatientTypes
<1>5. PICK l \in Int : l = Left'
  <2>1. timer' \in Nat /\ ran' \in Nat
    BY AllTimes DEF Known, Numbers
  <2>2. Left' \in Int
    BY <2>1, AllTimes DEF Left
  <2> QED
    BY <2>2
<1>6. timer' \in Nat /\ Acked' \in BOOLEAN /\ (timer' > 0 => l = timer')
  <2>1. timer' \in Nat
    BY AllTimes DEF Known, Numbers
  <2>2. Acked' \in BOOLEAN
    BY DEF Acked, Has
  <2>3. timer' > 0 => l = timer'
    BY <1>5 DEF Left
  <2> QED
    BY <2>1, <2>2, <2>3
<1> SUFFICES Patient(mpc', Acked', status_sem', silent_for, l, timer', status_timer', interval')
  BY <1>1, <1>5 DEF PatientNow
<1>7. mpc' # "wait" => Acked' = FALSE
  BY <1>6 DEF Session, OnePublish, Acked
<1>8. ASSUME UNCHANGED <<mpc, timer, status_sem, status_timer, interval>>, Acked' <=> Acked,
             l <= Left
      PROVE  Patient(mpc', Acked', status_sem', silent_for, l, timer', status_timer', interval')
  <2>1. Acked' = Acked
    BY <1>4, <1>6, <1>8
  <2>2. Patient(mpc, Acked, status_sem, silent_for, l, timer, status_timer, interval)
    BY <1>3, <1>4, <1>8, PatientKept
  <2> QED
    BY <1>8, <2>1, <2>2
<1>9. CASE ReadAnswer
  <2>1. /\ Readable /\ timer > 0 /\ inbox # <<>> /\ inbox \in Seq(Packets)
        /\ CycleGoesOn(Head(inbox),
               IF mpc = "wait" /\ Head(inbox) = "PUBACK" THEN "published" ELSE mpc)
        /\ inbox' = Tail(inbox)
    BY <1>9 DEF ReadAnswer, Readable, GiveUp, Known, Queues
  <2>2. /\ UNCHANGED <<timer, interval, status_timer, status_sem>>
        /\ mpc' = IF mpc = "wait" /\ Head(inbox) = "PUBACK" THEN "published" ELSE mpc
    <3>1. PICK next : /\ next = IF mpc = "wait" /\ Head(inbox) = "PUBACK" THEN "published" ELSE mpc
                      /\ CycleGoesOn(Head(inbox), next)
      BY <2>1
    <3>2. mpc' = next /\ UNCHANGED <<timer, interval, status_timer, status_sem>>
      BY <3>1 DEF CycleGoesOn, statusvars
    <3> QED
      BY <3>1, <3>2
  <2>3. \A p : Has(inbox, p) <=> Has(inbox', p) \/ p = Head(inbox)
    BY <2>1, InboxRead
  <2>4. Left = timer /\ l = timer /\ timer > 0
    BY <1>4, <1>6, <2>1, <2>2
  <2>5. CASE Head(inbox) = "PUBACK"
    <3>1. Acked = TRUE /\ mpc = "wait"
      BY <1>4, <2>3, <2>5 DEF Acked, Session, OnePublish
    <3>2. mpc' = "published" /\ Acked' = FALSE
      BY <1>7, <2>2, <2>5, <3>1
    <3>3. Patient("published", FALSE, status_sem, silent_for, l, timer, status_timer, interval)
      BY <1>3, <1>4, <2>4, <3>1, PatientMoves
    <3> QED
      BY <2>2, <3>2, <3>3
  <2>6. CASE Head(inbox) # "PUBACK"
    <3>1. Acked' <=> Acked
      BY <2>3, <2>6 DEF Acked
    <3>2. mpc' = mpc
      BY <2>2, <2>6
    <3>3. l <= Left
      BY <1>4, <2>4
    <3> QED
      BY <1>8, <2>2, <3>1, <3>2, <3>3
  <2> QED
    BY <2>5, <2>6
<1>10. ASSUME mpc = "yield", mpc' = "loop", UNCHANGED <<status_sem, status_timer, interval>>
       PROVE  Patient(mpc', Acked', status_sem', silent_for, l, timer', status_timer', interval')
  <2>1. Patient("loop", FALSE, status_sem, silent_for, l, timer', status_timer, interval)
    BY <1>3, <1>4, <1>6, <1>10, PatientMoves
  <2>2. Acked' = FALSE
    BY <1>7, <1>10
  <2> QED
    BY <1>10, <2>1, <2>2
<1>11. CASE HandlerReturns
  <2>1. /\ running # "none" /\ inbox' = inbox
        /\ CycleGoesOn(running, IF mpc = "yield" /\ timer = 0 THEN "loop" ELSE mpc)
    BY <1>11 DEF HandlerReturns, GiveUp
  <2>2. /\ UNCHANGED <<timer, interval, status_timer, status_sem>> /\ running' = "none"
        /\ mpc' = IF mpc = "yield" /\ timer = 0 THEN "loop" ELSE mpc
    <3>1. PICK next : /\ next = IF mpc = "yield" /\ timer = 0 THEN "loop" ELSE mpc
                      /\ CycleGoesOn(running, next)
      BY <2>1
    <3>2. mpc' = next /\ UNCHANGED <<timer, interval, status_timer, status_sem>>
          /\ running' = "none"
      BY <3>1 DEF CycleGoesOn, statusvars
    <3> QED
      BY <3>1, <3>2
  <2>3. CASE mpc' = mpc
    <3>1. Left' <= Left
      BY <2>1, <2>2, LeftKept DEF Known
    <3>2. l <= Left
      BY <1>5, <3>1
    <3>3. Acked' <=> Acked
      BY <2>1 DEF Acked
    <3> QED
      BY <1>8, <2>2, <2>3, <3>2, <3>3
  <2>4. CASE mpc = "yield" /\ mpc' = "loop"
    BY <1>10, <2>2, <2>4
  <2> QED
    BY <2>2, <2>3, <2>4
<1>12. CASE YieldEnds
  <2>1. mpc = "yield" /\ CycleGoesOn("none", "loop")
    BY <1>12 DEF YieldEnds, GiveUp
  <2>2. UNCHANGED <<interval, status_timer, status_sem>> /\ mpc' = "loop"
    BY <2>1, CycleDoes DEF Known
  <2> QED
    BY <1>10, <2>1, <2>2
<1>13. CASE ReadMessage
  <2>1. /\ UNCHANGED <<mpc, timer, interval, status_timer, status_sem>> /\ timer > 0
        /\ inbox' = Tail(inbox) /\ Head(inbox) \in Pushed /\ inbox # <<>> /\ inbox \in Seq(Packets)
    BY <1>13 DEF ReadMessage, Readable, statusvars, Known, Queues
  <2>2. \A p : Has(inbox, p) <=> Has(inbox', p) \/ p = Head(inbox)
    BY <2>1, InboxRead
  <2>3. Acked' <=> Acked
    BY <2>1, <2>2 DEF Acked, Pushed
  <2>4. l <= Left
    BY <1>4, <1>6, <2>1
  <2> QED
    BY <1>8, <2>1, <2>3, <2>4
<1>14. CASE HandlerCommands
  <2>1. /\ status_sem' = TRUE /\ interval' = interval
        /\ UNCHANGED <<mpc, timer, running, ran, inbox>>
    BY <1>14 DEF HandlerCommands, handlervars
  <2>2. Acked' = Acked /\ Left' = Left
    BY <2>1 DEF Acked, Left
  <2>3. l = Left
    BY <1>5, <2>2
  <2>4. Patient(mpc, Acked, TRUE, silent_for, l, timer, status_timer', interval)
    <3>1. l <= Left /\ l \in Int /\ status_timer \in Nat
      BY <1>4, <1>5, <2>3
    <3> QED
      BY <1>3, <1>4, <3>1, PatientKept
  <2> QED
    BY <2>1, <2>2, <2>4
<1>15. CASE StartYield
  <2>1. /\ (mpc = "loop" /\ ~status_sem) \/ mpc = "published"
        /\ mpc' = "yield" /\ timer' = YieldTime
        /\ UNCHANGED <<interval, status_timer, status_sem>>
    BY <1>15 DEF StartYield, statusvars
  <2>2. Acked' = FALSE /\ l = YieldTime
    BY <1>6, <1>7, <2>1, AllTimes
  <2>3. Patient("yield", FALSE, status_sem, silent_for, YieldTime, YieldTime, status_timer,
                interval)
    BY <1>3, <1>4, <2>1, PatientMoves, AllTimes
  <2> QED
    BY <2>1, <2>2, <2>3
<1>16. CASE NoAddress
  BY <1>1, <1>16 DEF NoAddress, SilentSoon
<1>17. CASE DelayEnds
  <2>1. /\ mpc = "delay" /\ timer = 0 /\ mpc' = "loop"
        /\ UNCHANGED <<interval, status_timer, status_sem>>
    BY <1>17 DEF DelayEnds, statusvars
  <2>2. Acked' = FALSE
    BY <1>7, <2>1
  <2>3. Patient("loop", FALSE, status_sem, silent_for, l, timer', status_timer, interval)
    BY <1>3, <1>4, <1>6, <2>1, PatientMoves
  <2> QED
    BY <2>1, <2>2, <2>3
<1>18. CASE PublishStatus
  <2>1. /\ mpc = "loop" /\ mpc' = "wait" /\ timer' = CommandTimeout /\ status_sem' = FALSE
        /\ UNCHANGED <<interval, status_timer, inbox>>
    BY <1>18 DEF PublishStatus
  <2>2. ~Acked
    BY <2>1 DEF Session, OnePublish, Acked
  <2>3. Acked' = FALSE /\ l = CommandTimeout
    BY <1>6, <2>1, <2>2, AllTimes DEF Acked
  <2>4. Patient("wait", FALSE, FALSE, silent_for, CommandTimeout, CommandTimeout, status_timer,
                interval)
    <3>1. Patient("loop", Acked, status_sem, silent_for, Left, timer, status_timer, interval)
      BY <1>3, <2>1
    <3> QED
      BY <1>4, <1>5, <3>1, PatientMoves
  <2> QED
    BY <2>1, <2>3, <2>4
<1>19. CASE AckFails \/ PublishTimesOut \/ SocketError \/ Reconnect
  BY <1>19 DEF AckFails, PublishTimesOut, SocketError, Reconnect, GiveUp
<1> QED
  BY <1>9, <1>11, <1>12, <1>13, <1>14, <1>15, <1>16, <1>17, <1>18, <1>19 DEF Client

(* The steps of the network.                                               *)
LEMMA NetworkSilent ==
    ASSUME Known, Session, SilentSoon, Network, silent_for' # 0, link' # "up", mpc' # "down"
    PROVE  PatientNow'
<1>1. UNCHANGED <<mpc, timer, running, ran, status_sem, status_timer, interval>>
  BY ClientRests
<1>2. link # "up" /\ silent_for' = silent_for
  BY DEF Network, Answer, Push, GoSilent, Die, LoseAddress, GainAddress, SilentSoon
<1>3. PatientNow
  BY <1>1, <1>2 DEF SilentSoon
<1>4. Left' = Left
  BY <1>1 DEF Left
<1>5. Acked' <=> Acked
  <2>1. CASE Push
    <3>1. PICK m \in Pushed : inbox' = Append(inbox, m)
      BY <2>1 DEF Push
    <3>2. m \in Packets /\ m # "PUBACK" /\ inbox \in Seq(Packets)
      BY DEF Pushed, Packets, Known, Queues
    <3>3. Has(inbox', "PUBACK") <=> Has(inbox, "PUBACK")
      BY <3>1, <3>2, InboxGrows
    <3> QED
      BY <3>3 DEF Acked
  <2>2. CASE inbox' = inbox
    BY <2>2 DEF Acked
  <2> QED
    BY <1>2, <2>1, <2>2 DEF Network, Answer, GoSilent, Die, LoseAddress, GainAddress
<1>6. Acked' = Acked
  BY <1>5 DEF Acked, Has
<1> QED
  BY <1>1, <1>2, <1>3, <1>4, <1>6 DEF PatientNow

(* A unit of time.                                                         *)
LEMMA TickSilent ==
    ASSUME Known, Session, SilentSoon, Tick, silent_for' # 0, link' # "up", mpc' # "down"
    PROVE  PatientNow'
<1>1. /\ UNCHANGED <<ip, link, mpc, running, inbox, interval>> /\ timer' = Less(timer)
      /\ status_timer' = IF status_timer = 1 THEN interval ELSE status_timer - 1
      /\ status_sem' = (status_sem \/ status_timer = 1)
      /\ silent_for' = IF link = "up" \/ mpc = "down" \/ ~ip THEN 0 ELSE silent_for + 1
  BY DEF Tick
<1>2. link # "up" /\ mpc # "down" /\ silent_for' = silent_for + 1
  BY <1>1
<1>3. Patient(mpc, Acked, status_sem, silent_for, Left, timer, status_timer, interval)
  BY <1>2 DEF SilentSoon, PatientNow
<1>4. /\ silent_for \in Nat /\ timer \in Nat /\ interval \in Nat /\ status_timer \in Nat \ {0}
      /\ Left \in Int /\ status_sem \in BOOLEAN /\ Acked \in BOOLEAN
  BY PatientTypes
<1>5. Acked' = Acked
  BY <1>1 DEF Acked
<1>6. timer' \in Nat
  BY <1>1, <1>4 DEF Less
<1>7. ASSUME NEW l \in Int, l = Left',
             \/ mpc \in Blocking /\ l <= Left - 1
             \/ mpc = "delay" /\ timer > 0 /\ timer' = timer - 1
      PROVE  PatientNow'
  <2>1. Patient(mpc, Acked, status_sem', silent_for + 1, l, timer', status_timer', interval)
    <3>1. ~status_sem' => ~status_sem /\ status_timer' = status_timer - 1
      BY <1>1
    <3> QED
      BY <1>3, <1>4, <1>6, <1>7, <3>1, PatientTicks
  <2> QED
    BY <1>1, <1>2, <1>5, <1>7, <2>1 DEF PatientNow
<1>8. CASE mpc \in Blocking
  <2>1. Left' \in Int /\ Left' <= Left - 1
    BY <1>8, LeftTicks
  <2>2. PICK l \in Int : l = Left'
    BY <2>1
  <2>3. l <= Left - 1
    BY <2>1, <2>2
  <2> QED
    BY <1>7, <1>8, <2>2, <2>3
<1>9. CASE mpc \notin Blocking
  <2>1. mpc = "delay" /\ timer > 0 /\ running = "none"
    BY <1>2, <1>9 DEF Tick, TimePasses, Known, Where
  <2>2. timer' = timer - 1
    BY <1>1, <1>4, <2>1 DEF Less
  <2>3. Left' \in Int
    BY <1>1, <1>6, <2>1, AllTimes DEF Left
  <2>4. PICK l \in Int : l = Left'
    BY <2>3
  <2> QED
    BY <1>7, <2>1, <2>2, <2>4
<1> QED
  BY <1>8, <1>9

(* Silence is not counted while the broker answers or there is no address. *)
LEMMA SilentWhen ==
    ASSUME Known, SilentSoon, [Next]_vars, link' = "up" \/ ~ip'
    PROVE  silent_for' = 0
<1>1. ASSUME GiveUp PROVE silent_for' = 0
  BY <1>1 DEF GiveUp, SilentSoon
<1>2. ASSUME NEW kind, NEW next, CycleGoesOn(kind, next) PROVE silent_for' = 0
  BY <1>2 DEF CycleGoesOn, SilentSoon
<1>3. CASE ReadAnswer \/ HandlerReturns \/ YieldEnds
  BY <1>1, <1>2, <1>3, CyclePlaces
<1>4. CASE AckFails \/ PublishTimesOut \/ SocketError
  BY <1>1, <1>4 DEF AckFails, PublishTimesOut, SocketError
<1>5. CASE ReadMessage \/ HandlerCommands
  BY <1>5 DEF ReadMessage, HandlerCommands, historyvars, SilentSoon
<1>6. CASE StartYield \/ NoAddress \/ DelayEnds \/ PublishStatus \/ Reconnect
  BY <1>6 DEF StartYield, NoAddress, DelayEnds, PublishStatus, Reconnect, historyvars, SilentSoon
<1>7. CASE Network
  BY <1>7 DEF Network, Answer, Push, GoSilent, Die, LoseAddress, GainAddress, SilentSoon
<1>8. CASE Tick
  BY <1>8 DEF Tick
<1>9. CASE UNCHANGED vars
  BY <1>9 DEF vars, SilentSoon
<1> QED
  BY <1>3, <1>4, <1>5, <1>6, <1>7, <1>8, <1>9 DEF Next, Client

(* The bound on silent_for holds after every step.                         *)
LEMMA SilentKept ==
    ASSUME Known, SentSoon, Session, SilentSoon, [Next]_vars
    PROVE  SilentSoon'
<1>1. Known' /\ Session'
  BY KnownKept, SessionKept
<1>2. CASE silent_for' = 0
  <2>1. /\ interval' \in Nat /\ status_timer' \in 1 .. interval' /\ timer' \in Nat /\ ran' \in Nat
        /\ mpc' = "yield" => timer' <= YieldTime
        /\ mpc' = "wait" => timer' <= CommandTimeout
        /\ mpc' = "delay" => timer' <= DelayTime
    BY <1>1, AllTimes DEF Known, Numbers, Where
  <2>2. Left' \in Int
    BY <2>1, AllTimes DEF Left
  <2>3. PICK l \in Int : l = Left'
    BY <2>2
  <2>4. l <= timer'
    <3>1. CASE timer' > 0
      BY <2>1, <2>3, <3>1 DEF Left
    <3>2. CASE timer' = 0 /\ running' = "none"
      BY <2>1, <2>3, <3>2, AllTimes DEF Left
    <3>3. CASE timer' = 0 /\ running' # "none"
      <4>1. PICK r \in Nat : r = ran'
        BY <2>1
      <4>2. l = -r
        BY <2>3, <3>3, <4>1 DEF Left
      <4> QED
        BY <3>3, <4>2
    <3> QED
      BY <2>1, <3>1, <3>2, <3>3
  <2>5. Patient(mpc', Acked', status_sem', 0, l, timer', status_timer', interval')
    BY <2>1, <2>4, PatientFirst
  <2> QED
    BY <1>2, <2>3, <2>5 DEF SilentSoon, PatientNow
<1>3. CASE silent_for' # 0
  <2>1. ASSUME link' = "up" \/ ~ip' PROVE FALSE
    BY <1>3, <2>1, SilentWhen
  <2>2. ASSUME link' # "up", mpc' # "down" PROVE PatientNow'
    <3>1. CASE Client
      BY <1>1, <1>3, <2>2, <3>1, ClientSilent
    <3>2. CASE Network
      BY <1>3, <2>2, <3>2, NetworkSilent
    <3>3. CASE Tick
      BY <1>3, <2>2, <3>3, TickSilent
    <3>4. CASE UNCHANGED vars
      <4>1. PatientNow
        BY <2>2, <3>4 DEF SilentSoon, vars
      <4> QED
        BY <3>4, <4>1 DEF PatientNow, Acked, Left, vars
    <3> QED
      BY <3>1, <3>2, <3>3, <3>4 DEF Next
  <2> QED
    BY <2>1, <2>2 DEF SilentSoon
<1> QED
  BY <1>2, <1>3

(* A silent broker is noticed with the next status publication, although   *)
(* its keep-alive may be postponed for ever by messages that still come.   *)
THEOREM SilenceAlwaysNoticed == Spec => []SilenceNoticed
<1>1. Init => SilentSoon
  BY DEF Init, SilentSoon
<1>2. ASSUME Known, SilentSoon PROVE SilenceNoticed
  <2> SUFFICES ASSUME mpc # "down"
               PROVE  \E patience \in {interval, CommandTimeout} :
                 silent_for <= patience + CommandTimeout + YieldTime + 2 * HandlerTime
    BY <1>2 DEF SilenceNoticed, Known, Where
  <2>1. /\ silent_for \in Nat /\ timer \in Nat /\ interval \in Nat /\ status_timer \in Nat \ {0}
        /\ Left \in Int /\ Left >= -HandlerTime
    BY <1>2, PatientTypes
  <2>2. /\ Longer(interval) \in {interval, CommandTimeout}
        /\ Longer(interval) \in Nat /\ Longer(interval) >= CommandTimeout
    BY <2>1, LongerFacts, AllTimes DEF Longer
  <2>3. silent_for <= Longer(interval) + CommandTimeout + YieldTime + 2 * HandlerTime
    <3>1. CASE silent_for = 0
      BY <2>2, <3>1, AllTimes
    <3>2. CASE silent_for # 0
      <4>1. Patient(mpc, Acked, status_sem, silent_for, Left, timer, status_timer, interval)
        BY <1>2, <3>2 DEF SilentSoon, PatientNow
      <4>2. mpc \in {"loop", "yield", "published", "wait", "delay"}
        BY <1>2 DEF Known, Numbers, Places
      <4> QED
        BY <2>1, <2>2, <4>1, <4>2, AllTimes DEF Patient
    <3> QED
      BY <3>1, <3>2
  <2> QED
    BY <2>2, <2>3
<1> QED
  BY <1>1, <1>2, SilentKept, SessionAlways, KnownKept, PTL DEF Spec
============================================================================
