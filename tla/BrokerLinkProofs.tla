------------------------- MODULE BrokerLinkProofs -------------------------
(***************************************************************************)
(* Proofs about BrokerLink, for any set of announcements and any number of *)
(* descriptors.  No property of the session is inductive by itself: the    *)
(* invariant follows the MQTT task through its handshake, where it holds   *)
(* a socket but no session, and the UDP task through the three statements  *)
(* that apply an announcement.                                             *)
(***************************************************************************)
EXTENDS BrokerLink, TLAPS

(* An announcement that is being applied is one.                           *)
NewsIsReal == upc \in {"broker", "prefix", "reset"} => news \in Announcements

(* Where a task is about to open a socket, it has none open.               *)
OpensOnlyOne ==
    /\ mpc = "resolve" => \A f \in Fds : socks[f] # "tcp"
    /\ upc = "delay" => \A f \in Fds : socks[f] # "udp"

(* The handshake starts without a session and holds its socket.            *)
HandshakeHasSocket ==
    /\ mpc \in {"tcp", "connect"} => socks[my_socket] = "tcp"
    /\ mpc \in Handshake => isconnected = 0

(* What the handshake has read so far is current, unless an announcement   *)
(* is being applied or has been during the handshake.                      *)
HandshakeIsCurrent ==
    ~raced /\ upc \notin {"prefix", "reset"} =>
        /\ mpc \in Handshake => peer = broker
        /\ mpc = "connect" => topics = prefix

Safe ==
    /\ NoLeak /\ OpensOnlyOne
    /\ SessionHasSocket /\ HandshakeHasSocket
    /\ SessionIsCurrent /\ HandshakeIsCurrent

IInv == TypeOK /\ NewsIsReal /\ Safe

(* The invariant holds at power-on.                                        *)
LEMMA InitIInv == Init => IInv
<1> SUFFICES ASSUME Init PROVE IInv
  OBVIOUS
<1>1. 0 \in Fds
  BY LinkAssumption DEF Fds
<1>2. TypeOK
  BY <1>1 DEF Init, TypeOK, LinkStates, NoNews
<1>3. NewsIsReal
  BY DEF Init, NewsIsReal
<1>4. Safe
  BY <1>1 DEF Init, Safe, NoLeak, OpensOnlyOne, SessionHasSocket, HandshakeHasSocket,
              SessionIsCurrent, HandshakeIsCurrent, Handshake
<1> QED
  BY <1>2, <1>3, <1>4 DEF IInv

(* The flags stay Boolean.                                                 *)
LEMMA FlagsStayBoolean ==
    ASSUME TypeOK, [Next]_vars
    PROVE  /\ ip' \in BOOLEAN /\ up' \in BOOLEAN /\ is_connect' \in BOOLEAN
           /\ stolen' \in BOOLEAN /\ busy' \in BOOLEAN /\ raced' \in BOOLEAN
<1> USE DEF TypeOK, wifivars, mqttvars, taskvars, confvars
<1>1. CASE MqttTask
  <2>0. busy' \in BOOLEAN
    <3>1. busy' = (upc' \in Midway)
      BY <1>1, Zenon DEF MqttTask
    <3> QED
      BY <3>1, SMT
  <2>1. CASE NoWifi \/ StillConnected \/ NoBrokerKnown \/ CloseOld
    BY <2>0, <2>1, Zenon DEF NoWifi, StillConnected, NoBrokerKnown, CloseOld
  <2>2. CASE ResolveFails \/ OpenTcp \/ TcpFails \/ TcpConnects
    BY <2>0, <2>2, Zenon DEF ResolveFails, OpenTcp, TcpFails, TcpConnects
  <2>3. CASE Connected \/ Subscribed \/ OnlinePublished \/ HandshakeFails
    BY <2>0, <2>3, Zenon DEF Connected, Subscribed, OnlinePublished, HandshakeFails
  <2>4. CASE NothingToPublish \/ Publish \/ PublishRefused \/ Acknowledged \/ PublishFails
    BY <2>0, <2>4, Zenon DEF NothingToPublish, Publish, PublishRefused, Acknowledged, PublishFails
  <2>5. CASE Delivered \/ Yield \/ WakeUp
    BY <2>0, <2>5, Zenon DEF Delivered, Yield, WakeUp
  <2> QED
    BY <1>1, <2>1, <2>2, <2>3, <2>4, <2>5 DEF MqttTask
<1>2. CASE UdpTask
  BY <1>2, Zenon DEF UdpTask, CreateServer, BindFails, ReceiveAnnouncement, CopyBroker, CopyPrefix,
     ResetConnected, Processed, ReceiveAgain, TakeReadLock, StealAnswer, TcpReadFails
<1>3. CASE Environment
  BY <1>3, Zenon DEF Environment, WifiUp, WifiDown, BrokerUp, BrokerDown, TcpGivesUp, BrokerGivesUp,
     StatusTimer
<1>4. CASE UNCHANGED vars
  BY <1>4, Zenon DEF vars
<1> QED
  BY <1>1, <1>2, <1>3, <1>4 DEF Next

(* Every step of either task and of the environment keeps the types.       *)
LEMMA NextTypes == IInv /\ [Next]_vars => (TypeOK /\ NewsIsReal)'
<1> SUFFICES ASSUME IInv, [Next]_vars PROVE (TypeOK /\ NewsIsReal)'
  OBVIOUS
<1> USE FlagsStayBoolean, LinkAssumption
<1> USE DEF IInv, TypeOK, NewsIsReal, Names, NoNews, LinkStates, Messages, Midway,
            SubscribeOrder, AckWait, Fds, wifivars, mqttvars, taskvars, confvars
<1>1. CASE MqttTask
  <2>1. CASE NoWifi
    BY <2>1 DEF NoWifi
  <2>2. CASE StillConnected
    BY <2>2 DEF StillConnected
  <2>3. CASE NoBrokerKnown
    BY <2>3 DEF NoBrokerKnown, NoServer
  <2>4. CASE CloseOld
    BY <2>4 DEF CloseOld, Close
  <2>5. CASE ResolveFails
    BY <2>5 DEF ResolveFails, NoServer
  <2>6. CASE OpenTcp
    BY <2>6 DEF OpenTcp, LowestFree, FreeFds
  <2>7. CASE TcpFails
    BY <2>7 DEF TcpFails, Close, NoServer
  <2>8. CASE TcpConnects
    BY <2>8 DEF TcpConnects
  <2>9. CASE Connected
    BY <2>9 DEF Connected
  <2>10. CASE Subscribed
    BY <2>10 DEF Subscribed, SubscribeOrder, NoServer
  <2>11. CASE OnlinePublished
    BY <2>11 DEF OnlinePublished
  <2>12. CASE HandshakeFails
    BY <2>12 DEF HandshakeFails, NoServer, SubscribeOrder
  <2>13. CASE NothingToPublish
    BY <2>13 DEF NothingToPublish, MessageOrder
  <2>14. CASE Publish
    BY <2>14 DEF Publish, AckWait, AfterSending
  <2>15. CASE PublishRefused
    BY <2>15 DEF PublishRefused, MessageOrder
  <2>16. CASE Acknowledged
    BY <2>16 DEF Acknowledged, MessageOrder, AckWait
  <2>17. CASE PublishFails
    BY <2>17 DEF PublishFails, MessageOrder, AckWait
  <2>18. CASE Delivered
    BY <2>18 DEF Delivered
  <2>19. CASE Yield
    BY <2>19 DEF Yield, AfterSending
  <2>20. CASE WakeUp
    BY <2>20 DEF WakeUp
  <2> QED
    BY <1>1, <2>1, <2>2, <2>3, <2>4, <2>5, <2>6, <2>7, <2>8, <2>9, <2>10, <2>11, <2>12,
       <2>13, <2>14, <2>15, <2>16,
       <2>17, <2>18, <2>19, <2>20 DEF MqttTask
<1>2. CASE UdpTask
  <2>1. CASE CreateServer
    BY <2>1 DEF CreateServer, LowestFree, FreeFds
  <2>2. CASE BindFails
    BY <2>2 DEF BindFails, LowestFree, FreeFds
  <2>3. CASE ReceiveAnnouncement
    BY <2>3 DEF ReceiveAnnouncement
  <2>4. CASE CopyBroker
    BY <2>4 DEF CopyBroker
  <2>5. CASE CopyPrefix
    BY <2>5 DEF CopyPrefix
  <2>6. CASE ResetConnected
    BY <2>6 DEF ResetConnected
  <2>7. CASE Processed
    BY <2>7 DEF Processed
  <2>8. CASE ReceiveAgain
    BY <2>8 DEF ReceiveAgain
  <2>9. CASE StealAnswer
    BY <2>9 DEF StealAnswer, UdpHoldsTcp
  <2>10. CASE TcpReadFails
    BY <2>10 DEF TcpReadFails, UdpHoldsTcp
  <2>11. CASE TakeReadLock
    BY <2>11 DEF TakeReadLock
  <2> QED
    BY <1>2, <2>1, <2>2, <2>3, <2>4, <2>5, <2>6, <2>7, <2>8, <2>9, <2>10, <2>11 DEF UdpTask
<1>3. CASE Environment
  <2>1. CASE WifiUp
    BY <2>1 DEF WifiUp
  <2>2. CASE WifiDown
    BY <2>2 DEF WifiDown, Established
  <2>3. CASE BrokerUp
    BY <2>3 DEF BrokerUp
  <2>4. CASE BrokerDown
    BY <2>4 DEF BrokerDown
  <2>5. CASE BrokerGivesUp
    BY <2>5 DEF BrokerGivesUp, UdpHoldsTcp
  <2>6. CASE StatusTimer
    BY <2>6 DEF StatusTimer
  <2>7. CASE TcpGivesUp
    BY <2>7 DEF TcpGivesUp
  <2> QED
    BY <1>3, <2>1, <2>2, <2>3, <2>4, <2>5, <2>6, <2>7 DEF Environment
<1>4. CASE UNCHANGED vars
  BY <1>4 DEF vars
<1> QED
  BY <1>1, <1>2, <1>3, <1>4 DEF Next

(* Every step keeps the descriptors and the session consistent.            *)
LEMMA NextSafe == IInv /\ [Next]_vars => Safe'
<1> SUFFICES ASSUME IInv, [Next]_vars PROVE Safe'
  OBVIOUS
<1> USE DEF IInv, TypeOK, Safe, NoLeak, OpensOnlyOne, SessionHasSocket, HandshakeHasSocket,
            SessionIsCurrent, HandshakeIsCurrent,
            Handshake, Messages, Midway,
            wifivars, mqttvars, taskvars, confvars
<1>1. CASE MqttTask
  <2>1. CASE NoWifi
    BY <2>1 DEF NoWifi
  <2>2. CASE StillConnected
    BY <2>2 DEF StillConnected
  <2>3. CASE NoBrokerKnown
    BY <2>3 DEF NoBrokerKnown, NoServer
  <2>4. CASE CloseOld
    BY <2>4 DEF CloseOld, Close
  <2>5. CASE ResolveFails
    BY <2>5 DEF ResolveFails, NoServer
  <2>6. CASE OpenTcp
    BY <2>6 DEF OpenTcp, LowestFree, FreeFds
  <2>7. CASE TcpFails
    BY <2>7 DEF TcpFails, Close, NoServer
  <2>8. CASE TcpConnects
    BY <2>8 DEF TcpConnects
  <2>9. CASE Connected
    BY <2>9 DEF Connected
  <2>10. CASE Subscribed
    BY <2>10 DEF Subscribed, SubscribeOrder, NoServer
  <2>11. CASE OnlinePublished
    BY <2>11 DEF OnlinePublished
  <2>12. CASE HandshakeFails
    BY <2>12 DEF HandshakeFails, NoServer, SubscribeOrder
  <2>13. CASE NothingToPublish
    BY <2>13 DEF NothingToPublish, MessageOrder
  <2>14. CASE Publish
    BY <2>14 DEF Publish, AckWait, AfterSending
  <2>15. CASE PublishRefused
    BY <2>15 DEF PublishRefused, MessageOrder
  <2>16. CASE Acknowledged
    BY <2>16 DEF Acknowledged, MessageOrder, AckWait
  <2>17. CASE PublishFails
    BY <2>17 DEF PublishFails, MessageOrder, AckWait
  <2>18. CASE Delivered
    BY <2>18 DEF Delivered
  <2>19. CASE Yield
    BY <2>19 DEF Yield, AfterSending
  <2>20. CASE WakeUp
    BY <2>20 DEF WakeUp
  <2> QED
    BY <1>1, <2>1, <2>2, <2>3, <2>4, <2>5, <2>6, <2>7, <2>8, <2>9, <2>10, <2>11, <2>12,
       <2>13, <2>14, <2>15, <2>16,
       <2>17, <2>18, <2>19, <2>20 DEF MqttTask
<1>2. CASE UdpTask
  <2>1. CASE CreateServer
    BY <2>1 DEF CreateServer, LowestFree, FreeFds
  <2>2. CASE BindFails
    BY <2>2 DEF BindFails, LowestFree, FreeFds
  <2>3. CASE ReceiveAnnouncement
    BY <2>3 DEF ReceiveAnnouncement
  <2>4. CASE CopyBroker
    BY <2>4 DEF CopyBroker
  <2>5. CASE CopyPrefix
    BY <2>5 DEF CopyPrefix
  <2>6. CASE ResetConnected
    <3>1. raced \/ mpc \in Handshake => raced'
      BY <2>6, Zenon DEF ResetConnected
    <3>2. isconnected' = 0 /\ upc' = "again"
      BY <2>6 DEF ResetConnected
    <3>3. UNCHANGED <<broker, prefix, peer, topics, mpc, my_socket, socks, udp_sock>>
      BY <2>6 DEF ResetConnected
    <3>4. HandshakeIsCurrent'
      BY <3>1, <3>2, <3>3, <2>6 DEF ResetConnected
    <3> QED
      BY <3>2, <3>3, <3>4, <2>6 DEF ResetConnected
  <2>7. CASE Processed
    BY <2>7 DEF Processed
  <2>8. CASE ReceiveAgain
    BY <2>8 DEF ReceiveAgain
  <2>9. CASE StealAnswer
    BY <2>9 DEF StealAnswer, UdpHoldsTcp
  <2>10. CASE TcpReadFails
    BY <2>10 DEF TcpReadFails, UdpHoldsTcp
  <2>11. CASE TakeReadLock
    BY <2>11 DEF TakeReadLock
  <2> QED
    BY <1>2, <2>1, <2>2, <2>3, <2>4, <2>5, <2>6, <2>7, <2>8, <2>9, <2>10, <2>11 DEF UdpTask
<1>3. CASE Environment
  <2>1. CASE WifiUp
    BY <2>1 DEF WifiUp
  <2>2. CASE WifiDown
    BY <2>2 DEF WifiDown, Established
  <2>3. CASE BrokerUp
    BY <2>3 DEF BrokerUp
  <2>4. CASE BrokerDown
    BY <2>4 DEF BrokerDown
  <2>5. CASE BrokerGivesUp
    BY <2>5 DEF BrokerGivesUp, UdpHoldsTcp
  <2>6. CASE StatusTimer
    BY <2>6 DEF StatusTimer
  <2>7. CASE TcpGivesUp
    BY <2>7 DEF TcpGivesUp
  <2> QED
    BY <1>3, <2>1, <2>2, <2>3, <2>4, <2>5, <2>6, <2>7 DEF Environment
<1>4. CASE UNCHANGED vars
  BY <1>4 DEF vars
<1> QED
  BY <1>1, <1>2, <1>3, <1>4 DEF Next

(* The invariant holds throughout.                                         *)
THEOREM Invariance == Spec => []IInv
<1>1. IInv /\ [Next]_vars => IInv'
  BY NextTypes, NextSafe DEF IInv
<1> QED
  BY InitIInv, <1>1, PTL DEF Spec

(* The variables of both tasks and the descriptor table keep their types.  *)
THEOREM TypeCorrect == Spec => []TypeOK
<1>1. IInv => TypeOK
  BY DEF IInv
<1> QED
  BY <1>1, Invariance, PTL

(* A session always has its socket: for any number of descriptors and of   *)
(* reconnects, no close() of a stale number takes it away.                 *)
THEOREM SessionAlwaysHasSocket == Spec => []SessionHasSocket
<1>1. IInv => SessionHasSocket
  BY DEF IInv, Safe
<1> QED
  BY <1>1, Invariance, PTL

(* No descriptor is ever lost by both tasks, so reconnecting cannot use    *)
(* them up.                                                                *)
THEOREM NeverLeaks == Spec => []NoLeak
<1>1. IInv => NoLeak
  BY DEF IInv, Safe
<1> QED
  BY <1>1, Invariance, PTL

(* Without the race in the handshake, every session is with the broker and *)
(* under the prefix announced last.                                        *)
THEOREM SessionAlwaysCurrent == Spec => []SessionIsCurrent
<1>1. IInv => SessionIsCurrent
  BY DEF IInv, Safe
<1> QED
  BY <1>1, Invariance, PTL
===========================================================================
