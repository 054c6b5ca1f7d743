---------------------------- MODULE BrokerLink ----------------------------
(***************************************************************************)
(* The network side of the firmware: csro_mqtt_task (csro_mqtt.c) keeps a  *)
(* session with a broker whose address the UDP task (csro_udp.c) learns    *)
(* from announcements, over the lwIP descriptors that both tasks use.      *)
(*                                                                         *)
(* Scheduling.  The MQTT task has priority 10, the UDP task 5.  The MQTT   *)
(* task can preempt the UDP task anywhere; the UDP task only runs while    *)
(* the MQTT task is blocked (in a network call, a delay, a semaphore).     *)
(* So the MQTT task's actions reach from one blocking call to the next,    *)
(* and every statement of the UDP task that touches shared data is an      *)
(* action of its own.                                                      *)
(*                                                                         *)
(* Descriptors.  socket() returns the lowest free one, starting with 0     *)
(* (LWIP_SOCKET_OFFSET is 0).  close() of a descriptor that another task   *)
(* is blocked on in recvfrom() wakes that task with an error before the    *)
(* descriptor is freed (sockets_mt.c).  recvfrom() on a descriptor that    *)
(* was freed fails; on one that was given out again it reads the new       *)
(* socket: it waits for that socket's receive lock and then holds it as    *)
(* long as nothing arrives, for neither task sets a receive timeout or TCP *)
(* keep-alive on its socket.                                               *)
(***************************************************************************)
EXTENDS Integers, FiniteSets

CONSTANTS Announcements,  \* [ip, mac] pairs a server may announce
          NoName,         \* the empty string: nothing announced yet
          NumFds          \* LWIP_MAX_SOCKETS

Names == {a.ip : a \in Announcements} \cup {a.mac : a \in Announcements}

ASSUME LinkAssumption ==
    /\ NumFds \in Nat /\ NumFds >= 3
    /\ \A a \in Announcements : a = [ip |-> a.ip, mac |-> a.mac]
    /\ NoName \notin Names

Fds == 0 .. NumFds - 1

VARIABLES
    ip,          \* the station interface has an address
    up,          \* the announced broker answers (environment)
    link,        \* TCP connection on my_socket: see LinkStates
    broker, prefix,          \* mqtt.broker, mqtt.prefix
    isconnected,             \* mqtt.client.isconnected
    peer, topics,            \* broker and prefix that the session, or the one being set up,
                             \* is built with
    mpc,                     \* blocking call of the MQTT task
    upc, news,               \* step of the UDP task, announcement being applied
    socks,                   \* descriptor table
    my_socket, udp_sock,     \* the two tasks' descriptors
    status, is_connect,      \* sysinfo.status, static of csro_system_get_wifi_status
    sem,                     \* semaphores that are given
    stolen,                  \* the answer the MQTT task waits for was read by the UDP task
    busy,                    \* history: the UDP task has been midway since the MQTT
                             \* task's last step
    raced                    \* history: an isconnected = 0 fell into the handshake

wifivars == <<ip, up>>
confvars == <<broker, prefix>>
vars == <<ip, up, link, broker, prefix, isconnected, peer, topics, mpc, upc, news,
          socks, my_socket, udp_sock, status, is_connect, sem, stolen, busy, raced>>

(* "up": both ends work.  "silent": the peer is gone without a word and    *)
(* nothing is on its way to it, so lwIP has no reason to doubt the         *)
(* connection.  "retrying": lwIP repeats what the peer does not            *)
(* acknowledge, until it gives up.  "dead": lwIP knows, reads fail.        *)
LinkStates == {"none", "opening", "up", "silent", "retrying", "dead"}

Messages == {"status", "system", "alarm"}

NoNews == [ip |-> NoName, mac |-> NoName]

Init ==
    /\ ip = FALSE /\ up \in BOOLEAN
    /\ link = "none"
    /\ broker = NoName /\ prefix = NoName
    /\ isconnected = 0
    /\ peer = NoName /\ topics = NoName
    /\ mpc = "top"
    /\ upc = "delay" /\ news = NoNews
    /\ socks = [f \in Fds |-> "free"]
    /\ my_socket = 0 /\ udp_sock = 0
    /\ status = "NOWIFI" /\ is_connect = FALSE
    /\ sem = {}
    /\ stolen = FALSE /\ busy = FALSE /\ raced = FALSE

FreeFds == {f \in Fds : socks[f] = "free"}

LowestFree(f) == f \in FreeFds /\ \A g \in FreeFds : f <= g

(* The UDP task sits in recvfrom() on the MQTT task's TCP socket and holds *)
(* the lock that every read of the MQTT task needs.                        *)
UdpHoldsTcp == upc = "recv" /\ socks[udp_sock] = "tcp"

(* The UDP task reads a connection on which nothing will ever arrive: it   *)
(* keeps the lock, and the MQTT task polls for it in _sock_lock.           *)
Hung == UdpHoldsTcp /\ link = "silent"

(* Steps of the UDP task between two blocking calls.                       *)
Midway == {"same", "broker", "prefix", "reset", "again"}

(* Fault: close() frees the descriptor and lets the UDP task sleep on.     *)
CloseNoWake(f) == socks' = [socks EXCEPT ![f] = "free"] /\ upc' = upc

(* close(f).  A UDP task blocked on f, in the read or before its lock,     *)
(* fails with -1 and goes to its one-second delay before it makes a new    *)
(* socket.                                                                 *)
Close(f) ==
    /\ socks' = [socks EXCEPT ![f] = "free"]
    /\ upc' = IF upc \in {"recv", "lock"} /\ udp_sock = f THEN "delay" ELSE upc

---------------------------------------------------------------------------
(***************************************************************************)
(* The MQTT task.                                                          *)
(***************************************************************************)

(* NO BROKER: status and the one-second delay.  There is no session.       *)
NoServer ==
    /\ peer' = NoName /\ topics' = NoName
    /\ status' = "NOSERVER"
    /\ mpc' = "delay"

(* Fault: the lost session's socket is closed at once but isconnected      *)
(* stays.                                                                  *)
NoWifiCloses ==
    /\ mpc = "top" /\ ~ip
    /\ Close(my_socket)
    /\ status' = "NOWIFI" /\ is_connect' = FALSE /\ mpc' = "delay"
    /\ UNCHANGED <<wifivars, confvars, link, isconnected, peer, topics, news,
                   my_socket, udp_sock, sem, stolen, raced>>

(* Top of the loop without an address.  The session is left as it is.      *)
NoWifi ==
    /\ mpc = "top"
    /\ ~ip
    /\ status' = "NOWIFI"
    /\ is_connect' = FALSE
    /\ mpc' = "delay"
    /\ UNCHANGED <<wifivars, confvars, link, isconnected, peer, topics, upc, news,
                   socks, my_socket, udp_sock, sem, stolen, raced>>

(* Top of the loop with an address and isconnected == 1.                   *)
StillConnected ==
    /\ mpc = "top"
    /\ ip
    /\ isconnected = 1
    /\ is_connect' = TRUE
    /\ status' = "OK"
    /\ mpc' = "status"
    /\ UNCHANGED <<wifivars, confvars, link, isconnected, peer, topics, upc, news,
                   socks, my_socket, udp_sock, sem, stolen, raced>>

(* Nothing announced yet.  Both copies of the announcement are needed.     *)
NoBrokerKnown ==
    /\ mpc = "top"
    /\ ip
    /\ isconnected = 0
    /\ broker = NoName \/ prefix = NoName
    /\ is_connect' = TRUE
    /\ NoServer
    /\ UNCHANGED <<wifivars, confvars, link, isconnected, upc, news,
                   socks, my_socket, udp_sock, sem, stolen, raced>>

(* Fault: NetworkInit zeroes my_socket before it is closed.                *)
CloseOldTooLate ==
    /\ mpc = "top" /\ ip /\ isconnected = 0
    /\ broker # NoName /\ prefix # NoName
    /\ is_connect' = TRUE
    /\ Close(0)
    /\ my_socket' = 0 /\ link' = "none" /\ peer' = broker /\ topics' = NoName
    /\ mpc' = "resolve"
    /\ raced' = FALSE /\ stolen' = FALSE
    /\ UNCHANGED <<wifivars, confvars, isconnected, news, udp_sock, status, sem>>

(* close(mqtt.network.my_socket); NetworkInit; and into gethostbyname()    *)
(* with the broker's name.  my_socket may be a descriptor that this task   *)
(* has closed already, or 0 by default: then it closes what another task   *)
(* was given.                                                              *)
CloseOld ==
    /\ mpc = "top"
    /\ ip
    /\ isconnected = 0
    /\ broker # NoName /\ prefix # NoName
    /\ is_connect' = TRUE
    /\ status' = IF is_connect THEN status ELSE "NOSERVER"
    /\ Close(my_socket)
    /\ my_socket' = 0
    /\ link' = "none"
    /\ peer' = broker /\ topics' = NoName
    /\ mpc' = "resolve"
    /\ raced' = FALSE
    /\ stolen' = FALSE
    /\ UNCHANGED <<wifivars, confvars, isconnected, news, udp_sock, sem>>

Reachable == ip /\ up

(* gethostbyname() fails: NetworkConnect returns before socket().          *)
ResolveFails ==
    /\ mpc = "resolve"
    /\ ~Reachable
    /\ NoServer
    /\ UNCHANGED <<wifivars, confvars, link, isconnected, upc, news,
                   socks, my_socket, udp_sock, is_connect, sem, stolen, raced>>

(* gethostbyname() returns, socket(), and into connect().                  *)
OpenTcp ==
    /\ mpc = "resolve"
    /\ \E f \in Fds :
         /\ LowestFree(f)
         /\ my_socket' = f
         /\ socks' = [socks EXCEPT ![f] = "tcp"]
    /\ link' = "opening"
    /\ mpc' = "tcp"
    /\ UNCHANGED <<wifivars, confvars, isconnected, peer, topics, upc, news,
                   udp_sock, status, is_connect, sem, stolen, raced>>

(* connect() fails: NetworkConnect closes the socket and keeps its number. *)
TcpFails ==
    /\ mpc = "tcp"
    /\ ~Reachable
    /\ Close(my_socket)
    /\ link' = "none"
    /\ NoServer
    /\ UNCHANGED <<wifivars, confvars, isconnected, news,
                   my_socket, udp_sock, is_connect, sem, stolen, raced>>

(* connect() succeeds: the topics are built, MQTTClientInit, CONNECT sent. *)
TcpConnects ==
    /\ mpc = "tcp"
    /\ Reachable
    /\ link' = "up"
    /\ topics' = prefix
    /\ isconnected' = 0
    /\ mpc' = "connect"
    /\ UNCHANGED <<wifivars, confvars, peer, upc, news, socks, my_socket, udp_sock,
                   status, is_connect, sem, stolen, raced>>

(* Can the exchange the MQTT task is waiting in end well ?                 *)
Answered == link = "up" /\ ~stolen

(* Fault: the CONNACK is read without the socket's receive lock.           *)
ConnectedUnlocked ==
    /\ mpc = "connect" /\ Answered
    /\ isconnected' = 1 /\ mpc' = "sub_self"
    /\ UNCHANGED <<wifivars, confvars, link, peer, topics, upc, news, socks, my_socket,
                   udp_sock, status, is_connect, sem, stolen, raced>>

(* CONNACK: MQTTConnect sets isconnected, whatever its value is by then.   *)
Connected ==
    /\ mpc = "connect"
    /\ ~UdpHoldsTcp
    /\ Answered
    /\ isconnected' = 1
    /\ mpc' = "sub_self"
    /\ UNCHANGED <<wifivars, confvars, link, peer, topics, upc, news, socks, my_socket,
                   udp_sock, status, is_connect, sem, stolen, raced>>

SubscribeOrder == [sub_self |-> "sub_hass", sub_hass |-> "sub_group", sub_group |-> "online"]

(* SUBACK for one of the three topics, and the next packet is sent; but    *)
(* MQTTSubscribe and MQTTPublish refuse at once when isconnected is 0.     *)
Subscribed ==
    /\ mpc \in DOMAIN SubscribeOrder
    /\ ~UdpHoldsTcp
    /\ Answered
    /\ \/ isconnected = 1 /\ mpc' = SubscribeOrder[mpc] /\ UNCHANGED <<peer, topics, status>>
       \/ isconnected = 0 /\ NoServer
    /\ UNCHANGED <<wifivars, confvars, link, isconnected, upc, news, socks,
                   my_socket, udp_sock, is_connect, sem, stolen, raced>>

(* PUBACK for "online": broker_is_connected returns true, whatever         *)
(* isconnected is by then.                                                 *)
OnlinePublished ==
    /\ mpc = "online"
    /\ ~UdpHoldsTcp
    /\ Answered
    /\ status' = "OK"
    /\ mpc' = "status"
    /\ UNCHANGED <<wifivars, confvars, link, isconnected, peer, topics, upc, news, socks,
                   my_socket, udp_sock, is_connect, sem, stolen, raced>>

(* Fault: the answer is waited for without a timeout.                      *)
HandshakeWaitsOn ==
    /\ mpc \in {"connect", "online"} \cup DOMAIN SubscribeOrder
    /\ ~UdpHoldsTcp /\ link = "dead"
    /\ isconnected' = 0 /\ stolen' = FALSE /\ NoServer
    /\ UNCHANGED <<wifivars, confvars, link, upc, news, socks, my_socket,
                   udp_sock, is_connect, sem, raced>>

(* Any of these calls fails: no answer in time, or an error.               *)
HandshakeFails ==
    /\ mpc \in {"connect", "online"} \cup DOMAIN SubscribeOrder
    /\ ~UdpHoldsTcp
    /\ ~Answered
    /\ isconnected' = 0
    /\ stolen' = FALSE
    /\ NoServer
    /\ UNCHANGED <<wifivars, confvars, link, upc, news, socks, my_socket,
                   udp_sock, is_connect, sem, raced>>

MessageOrder == [status |-> "system", system |-> "alarm", alarm |-> "yield"]

(* Where the MQTT task waits for the PUBACK of each message.               *)
AckWait == [status |-> "status_sent", system |-> "system_sent", alarm |-> "alarm_sent"]

(* xSemaphoreTake finds nothing.                                           *)
NothingToPublish ==
    /\ mpc \in Messages
    /\ mpc \notin sem
    /\ mpc' = MessageOrder[mpc]
    /\ UNCHANGED <<wifivars, confvars, link, isconnected, peer, topics, upc, news, socks,
                   my_socket, udp_sock, status, is_connect, sem, stolen, raced>>

(* What is sent on a silent connection is repeated until lwIP gives up.    *)
AfterSending(l) == IF l = "silent" THEN "retrying" ELSE l

(* Take the semaphore and send the message with QoS 1.  Sending needs the  *)
(* send lock only, which the UDP task never takes.                         *)
Publish ==
    /\ mpc \in Messages
    /\ mpc \in sem
    /\ isconnected = 1
    /\ sem' = sem \ {mpc}
    /\ link' = AfterSending(link)
    /\ stolen' = FALSE
    /\ mpc' = AckWait[mpc]
    /\ UNCHANGED <<wifivars, confvars, isconnected, peer, topics, upc, news, socks, my_socket,
                   udp_sock, status, is_connect, raced>>

(* MQTTPublish refuses because isconnected is 0, or the write fails: the   *)
(* message is gone, for its semaphore has been taken.                      *)
PublishRefused ==
    /\ mpc \in Messages
    /\ mpc \in sem
    /\ isconnected = 0 \/ link = "dead"
    /\ sem' = sem \ {mpc}
    /\ isconnected' = 0
    /\ mpc' = MessageOrder[mpc]
    /\ UNCHANGED <<wifivars, confvars, link, peer, topics, upc, news, socks, my_socket,
                   udp_sock, status, is_connect, stolen, raced>>

(* PUBACK: MQTTPublish succeeds, whatever isconnected is by then.          *)
Acknowledged ==
    /\ \E m \in Messages : mpc = AckWait[m] /\ mpc' = MessageOrder[m]
    /\ ~UdpHoldsTcp
    /\ Answered
    /\ UNCHANGED <<wifivars, confvars, link, isconnected, peer, topics, upc, news, socks,
                   my_socket, udp_sock, status, is_connect, sem, stolen, raced>>

(* No PUBACK in time, or an error: MQTTCloseSession, and the message is    *)
(* gone with the session.                                                  *)
PublishFails ==
    /\ \E m \in Messages : mpc = AckWait[m] /\ mpc' = MessageOrder[m]
    /\ ~UdpHoldsTcp
    /\ ~Answered
    /\ isconnected' = 0
    /\ stolen' = FALSE
    /\ UNCHANGED <<wifivars, confvars, link, peer, topics, upc, news, socks, my_socket,
                   udp_sock, status, is_connect, sem, raced>>

(* Waits in which cycle() may find a message for a handler.                *)
DeliveryWaits == {"sub_hass", "sub_group", "online", "yield"} \cup {AckWait[m] : m \in Messages}

(* A command arrives while the task waits, for this or for something else, *)
(* and its handler gives a semaphore.                                      *)
Delivered ==
    /\ mpc \in DeliveryWaits
    /\ ~UdpHoldsTcp
    /\ link = "up"
    /\ \E m \in Messages \ sem : sem' = sem \cup {m}
    /\ UNCHANGED <<wifivars, confvars, link, isconnected, peer, topics, mpc, upc, news, socks,
                   my_socket, udp_sock, status, is_connect, stolen, raced>>

(* The end of MQTTYield: its time is over, perhaps with a PINGREQ sent, or *)
(* a read or the keep-alive fails and the session is closed.               *)
Yield ==
    /\ mpc = "yield"
    /\ ~UdpHoldsTcp
    /\ mpc' = "top"
    /\ stolen' = FALSE
    /\ \/ link # "dead" /\ link' \in {link, AfterSending(link)} /\ UNCHANGED isconnected
       \/ link # "up" /\ isconnected' = 0 /\ UNCHANGED link
    /\ UNCHANGED <<wifivars, confvars, peer, topics, upc, news, socks, my_socket,
                   udp_sock, status, is_connect, sem, raced>>

(* End of the one-second delay.                                            *)
WakeUp ==
    /\ mpc = "delay"
    /\ mpc' = "top"
    /\ UNCHANGED <<wifivars, confvars, link, isconnected, peer, topics, upc, news, socks,
                   my_socket, udp_sock, status, is_connect, sem, stolen, raced>>

MqttTask ==
    /\ \/ NoWifi \/ StillConnected \/ NoBrokerKnown
       \/ CloseOld \/ ResolveFails \/ OpenTcp \/ TcpFails \/ TcpConnects
       \/ Connected \/ Subscribed \/ OnlinePublished \/ HandshakeFails
       \/ NothingToPublish \/ Publish \/ PublishRefused \/ Acknowledged \/ PublishFails
       \/ Delivered \/ Yield \/ WakeUp
    /\ busy' = (upc' \in Midway)

---------------------------------------------------------------------------
(***************************************************************************)
(* The UDP task.                                                           *)
(***************************************************************************)
mqttvars == <<link, isconnected, peer, topics, mpc, my_socket, status, is_connect, sem>>

(* create_udp_server after its one-second delay.                           *)
CreateServer ==
    /\ upc = "delay"
    /\ \E f \in Fds :
         /\ LowestFree(f)
         /\ udp_sock' = f
         /\ socks' = [socks EXCEPT ![f] = "udp"]
    /\ upc' = "recv"
    /\ UNCHANGED <<wifivars, confvars, mqttvars, news, stolen, raced>>

(* bind() fails: the socket is closed again and the delay repeated.        *)
BindFails ==
    /\ upc = "delay"
    /\ \E f \in Fds : LowestFree(f) /\ udp_sock' = f
    /\ UNCHANGED <<wifivars, confvars, mqttvars, upc, news, socks, stolen, raced>>

(* A datagram: process_udp_message compares the announced pair with the    *)
(* current one.                                                            *)
ReceiveAnnouncement ==
    /\ upc = "recv"
    /\ socks[udp_sock] = "udp"
    /\ ip
    /\ \E a \in Announcements :
         IF a.ip # broker \/ a.mac # prefix
           THEN news' = a /\ upc' = "broker"
           ELSE news' = news /\ upc' = "same"
    /\ UNCHANGED <<wifivars, confvars, mqttvars, socks, udp_sock, stolen, raced>>

CopyBroker ==
    /\ upc = "broker"
    /\ broker' = news.ip
    /\ upc' = "prefix"
    /\ UNCHANGED <<wifivars, prefix, mqttvars, news, socks, udp_sock, stolen, raced>>

CopyPrefix ==
    /\ upc = "prefix"
    /\ prefix' = news.mac
    /\ upc' = "reset"
    /\ UNCHANGED <<wifivars, broker, mqttvars, news, socks, udp_sock, stolen, raced>>

Handshake == {"resolve", "tcp", "connect"}

(* Fault: the announcement is stored but the session is not given up.      *)
ResetNothing ==
    /\ upc = "reset"
    /\ news' = NoNews /\ upc' = "again"
    /\ UNCHANGED <<wifivars, confvars, mqttvars, socks, udp_sock, stolen, raced>>

(* mqtt.client.isconnected = 0.                                            *)
ResetConnected ==
    /\ upc = "reset"
    /\ isconnected' = 0
    /\ raced' = (raced \/ mpc \in Handshake)
    /\ news' = NoNews
    /\ upc' = "again"
    /\ UNCHANGED <<wifivars, confvars, link, peer, topics, mpc, my_socket, status, is_connect,
                   sem, socks, udp_sock, stolen>>

Processed ==
    /\ upc = "same"
    /\ upc' = "again"
    /\ UNCHANGED <<wifivars, confvars, mqttvars, news, socks, udp_sock, stolen, raced>>

(* The waits in which the MQTT task holds the receive lock of its socket,  *)
(* or polls for it.                                                        *)
ReadWaits == {"connect", "sub_self"} \cup DeliveryWaits

(* The next recvfrom(udp_sock): -1 on a descriptor that was closed.  If it *)
(* is the MQTT task's socket by now, the lock is free or may be taken.     *)
ReceiveAgain ==
    /\ upc = "again"
    /\ \/ socks[udp_sock] = "free" /\ upc' = "delay"
       \/ socks[udp_sock] # "free" /\ upc' = "recv"
       \/ socks[udp_sock] = "tcp" /\ mpc \in ReadWaits /\ upc' = "lock"
    /\ UNCHANGED <<wifivars, confvars, mqttvars, news, socks, udp_sock, stolen, raced>>

(* _sock_lock finds the lock free, between two of the MQTT task's reads.   *)
TakeReadLock ==
    /\ upc = "lock"
    /\ upc' = "recv"
    /\ UNCHANGED <<wifivars, confvars, mqttvars, news, socks, udp_sock, stolen, raced>>

(* recvfrom() on the TCP socket: the answer the MQTT task is waiting for,  *)
(* and what arrives with it, comes here and is no JSON.                    *)
StealAnswer ==
    /\ UdpHoldsTcp
    /\ link = "up"
    /\ ~stolen
    /\ mpc # "delay"
    /\ stolen' = TRUE
    /\ upc' = "same"
    /\ UNCHANGED <<wifivars, confvars, mqttvars, news, socks, udp_sock, raced>>

(* recvfrom() on the TCP socket of a connection that has ended: -1, for a  *)
(* FIN after a first call that returns 0 and an empty message.             *)
TcpReadFails ==
    /\ UdpHoldsTcp
    /\ link = "dead"
    /\ upc' = "delay"
    /\ UNCHANGED <<wifivars, confvars, mqttvars, news, socks, udp_sock, stolen, raced>>

(* The MQTT task does not block between a wait and the top of its loop, so *)
(* the UDP task does not run while it is there.                            *)
UdpTask ==
    /\ mpc # "top"
    /\ \/ CreateServer \/ BindFails \/ ReceiveAnnouncement
       \/ CopyBroker \/ CopyPrefix \/ ResetConnected \/ Processed
       \/ ReceiveAgain \/ TakeReadLock \/ StealAnswer \/ TcpReadFails
    /\ busy' = (busy /\ upc' \in Midway)

---------------------------------------------------------------------------
(***************************************************************************)
(* The environment: access point, broker, status timer.                    *)
(***************************************************************************)
taskvars == <<confvars, isconnected, peer, topics, mpc, upc, news, socks, my_socket, udp_sock,
              status, is_connect, stolen, busy, raced>>

Established == {"up", "silent", "retrying"}

(* IP_EVENT: address obtained.                                             *)
WifiUp ==
    /\ ~ip
    /\ ip' = TRUE
    /\ UNCHANGED <<up, link, sem, taskvars>>

(* Disconnected: the interface loses its address and lwIP aborts the TCP   *)
(* connections bound to it.                                                *)
WifiDown ==
    /\ ip
    /\ ip' = FALSE
    /\ link' = IF link \in Established THEN "dead" ELSE link
    /\ UNCHANGED <<up, sem, taskvars>>

BrokerUp ==
    /\ ~up
    /\ up' = TRUE
    /\ UNCHANGED <<ip, link, sem, taskvars>>

(* The broker stops: with a FIN or RST, or without a word, with or without *)
(* something unacknowledged on its way.                                    *)
BrokerDown ==
    /\ up
    /\ up' = FALSE
    /\ IF link = "up" THEN link' \in {"silent", "retrying", "dead"} ELSE link' = link
    /\ UNCHANGED <<ip, sem, taskvars>>

(* lwIP's retransmissions are used up.                                     *)
TcpGivesUp ==
    /\ link = "retrying"
    /\ link' = "dead"
    /\ UNCHANGED <<wifivars, sem, taskvars>>

(* A client that cannot read soon sends nothing, and the broker closes the *)
(* connection when its keep-alive time is over.                            *)
BrokerGivesUp ==
    /\ link = "up"
    /\ UdpHoldsTcp
    /\ link' = "dead"
    /\ UNCHANGED <<wifivars, sem, taskvars>>

(* csro_mqtt_msg_trigger_status by status_msg_timer.                       *)
StatusTimer ==
    /\ "status" \notin sem
    /\ sem' = sem \cup {"status"}
    /\ UNCHANGED <<wifivars, link, taskvars>>

Environment ==
    WifiUp \/ WifiDown \/ BrokerUp \/ BrokerDown \/ TcpGivesUp \/ BrokerGivesUp \/ StatusTimer

Next == MqttTask \/ UdpTask \/ Environment

Spec == Init /\ [][Next]_vars

(***************************************************************************)
(* For liveness: both tasks are scheduled, the timer runs, and the few     *)
(* statements the UDP task executes between two blocking calls take less   *)
(* time than one wait of the MQTT task (a round trip, a tick, a second).   *)
(* The top of the loop and the resolution of a numeric address do not      *)
(* wait.  The UDP task gets the processor again and again, though never    *)
(* at the top of the MQTT task's loop: hence strong fairness.  Nothing     *)
(* says that a datagram or anything on the session's socket ever arrives.  *)
(***************************************************************************)
Timely == mpc' # mpc /\ mpc \notin {"top", "resolve"} => ~busy

UdpProgress == UdpTask /\ ~BindFails /\ ~ReceiveAnnouncement /\ ~StealAnswer

FairSpec ==
    /\ Init
    /\ [][Next /\ Timely]_vars
    /\ WF_vars(MqttTask /\ Timely)
    /\ SF_vars(UdpProgress)
    /\ WF_vars(StatusTimer)
    /\ WF_vars(TcpGivesUp)
    /\ WF_vars(BrokerGivesUp)

---------------------------------------------------------------------------
(***************************************************************************)
(* Properties.                                                             *)
(***************************************************************************)

(* Every variable holds a value of its kind.                               *)
TypeOK ==
    /\ ip \in BOOLEAN /\ up \in BOOLEAN
    /\ link \in LinkStates
    /\ broker \in Names \cup {NoName} /\ prefix \in Names \cup {NoName}
    /\ peer \in Names \cup {NoName} /\ topics \in Names \cup {NoName}
    /\ isconnected \in {0, 1}
    /\ mpc \in {"top", "resolve", "tcp", "connect", "online", "yield", "delay"}
                 \cup DOMAIN SubscribeOrder \cup Messages \cup {AckWait[m] : m \in Messages}
    /\ upc \in {"delay", "recv", "lock"} \cup Midway
    /\ news \in Announcements \cup {NoNews}
    /\ socks \in [Fds -> {"free", "tcp", "udp"}]
    /\ my_socket \in Fds /\ udp_sock \in Fds
    /\ status \in {"NOWIFI", "NOSERVER", "OK"}
    /\ is_connect \in BOOLEAN
    /\ sem \in SUBSET Messages
    /\ stolen \in BOOLEAN /\ busy \in BOOLEAN /\ raced \in BOOLEAN

(* While the client says it is connected, my_socket is an open TCP socket: *)
(* neither task's close() has taken it away, although both reuse stale     *)
(* descriptor numbers.                                                     *)
SessionHasSocket == isconnected = 1 => socks[my_socket] = "tcp"

(* No descriptor leaks, over any number of reconnects and of sockets lost  *)
(* to the other task's close(): each open one is known to the task that    *)
(* opened it and will be closed by it.                                     *)
NoLeak ==
    \A f \in Fds :
        /\ socks[f] = "tcp" => f = my_socket
        /\ socks[f] = "udp" => f = udp_sock

(* A change of broker or prefix takes effect: unless the UDP task's        *)
(* isconnected = 0 fell between the close of the old socket and the        *)
(* CONNACK, a session is with the broker and under the prefix that were    *)
(* announced last.                                                         *)
SessionIsCurrent ==
    isconnected = 1 /\ ~raced /\ upc \notin {"prefix", "reset"} =>
        peer = broker /\ topics = prefix

(* The UDP task may come to read the socket of a handshake, but never that *)
(* of a session: the broker's messages and acknowledgements are read by    *)
(* the MQTT task alone.  When the UDP task gets there first, it gets the   *)
(* CONNACK, and there is no session.                                       *)
SessionReadsAlone ==
    isconnected = 1 => ~(upc \in {"recv", "lock"} /\ socks[udp_sock] = "tcp")

(* With an address and a broker that answers, and no new announcement      *)
(* being applied, the device ends up in a working session and stays there, *)
(* from whatever descriptor mix-up it was in.  The one way not to get      *)
(* there is to hang for ever in the UDP task's read of a silent            *)
(* connection.                                                             *)
Settled ==
    /\ ip /\ up /\ broker # NoName /\ prefix # NoName
    /\ upc \notin {"broker", "prefix", "reset"}

Reconnects ==
    <>[]Settled /\ []<>~Hung => <>[](isconnected = 1 /\ link = "up" /\ status = "OK")

(* What is lost for good is noticed from every blocking call of the loop,  *)
(* also a broker that went without a word: the status ends at              *)
(* NORMAL_START_NOSERVER, or at NORMAL_START_NOWIFI without access point.  *)
(* Only the UDP task's read of a silent connection can keep the MQTT task  *)
(* from noticing, and that only while the access point stays.              *)
LossShown ==
    /\ <>[](ip /\ ~up) /\ []<>~Hung => <>[](status = "NOSERVER")
    /\ <>[](~ip) => <>[](status = "NOWIFI")

(* The UDP task gets a listening socket again and again, however often the *)
(* MQTT task closes it and whatever happens to the connection it reads     *)
(* instead, unless it hangs.                                               *)
ListenerReturns == []<>(upc = "recv" /\ socks[udp_sock] = "udp") \/ <>[]Hung
===========================================================================
