------------------------- MODULE MqttSessionProofs -------------------------
(***************************************************************************)
(* Proofs about MqttSession, for any sets of identifiers and timers and    *)
(* any number of messages, faults and changes of the link.                 *)
(*                                                                         *)
(* The invariant follows the three things that the tasks share without a   *)
(* lock: the socket with xState, the ping fields, and the transactions.    *)
(***************************************************************************)
EXTENDS MqttSession, TLAPS

(* The socket.  Unless the timer task has closed it meanwhile, the process *)
(* task has one from the moment CONNECT is sent until it sees in its loop  *)
(* that the session is over; a socket left over from an old session is     *)
(* none that could carry anything.                                         *)
HasSocket == ~late /\ process.at \in {"greet", "subscribed", "recv", "handle", "cancel", "check"}
               => sock # "none"
Opening   == process.at \in {"connect", "greet"} => xState # "connected"
LeftOver  == xState # "connected" /\ process.at # "greet"
               => sock \notin {"live", "broken"}

SocketInv == ConnectedHasSocket /\ HasSocket /\ Opening /\ LeftOver

(* The pings.  At most one timer is armed, xPingTimer's, and only in a     *)
(* session that counts as connected; then no new ping becomes due, and all *)
(* counted pings but the last have timed out since the last answer.        *)
Armed    == ping.armed # {} => /\ ping.armed = {ping.timer}
                               /\ xState = "connected" /\ ~ping.due
                               /\ ping.count <= lost + 1
GivenUp  == timer = "close" => ping.armed = {} /\ ~ping.due
Closing  == At("close") \/ (At("cancel") /\ process.id = 0) => ping.armed = {}
DueEarly == xState # "connected" /\ ping.due => process.at \in {"delay", "connect", "greet"}

PingInv == Armed /\ GivenUp /\ Closing /\ DueEarly

(* The transactions.  On a live connection the answer to each one, pushed  *)
(* or still in a task's hand, is on its way or being handled.              *)
InHandle  == process.at # "handle" => process.what = NoPacket
Subscribing == At("subscribed") => process.id \in Ids
Numbered  == \A pkt \in inbox \cup {process.what} :
               pkt.type \in {"CONNACK", "REFUSED", "PINGRESP"} => pkt.id = 0
Open      == (trans \cup InHand) \ orphans
Closed    == sock \notin {"live", "broken"} => Open = {}
Waiting   == sock = "live" =>
               \A i \in Open : \E pkt \in inbox \cup {process.what} : pkt.id = i

TransInv == InHandle /\ Subscribing /\ Numbered /\ Closed /\ Waiting

IInv == TypeOK /\ SocketInv /\ PingInv /\ TransInv

-----------------------------------------------------------------------------
(* Helpers. *)
PingType == [count : 0 .. 3, timer : TimerIds \cup {0}, armed : SUBSET TimerIds, due : BOOLEAN]

LEMMA ZeroIsNone == 0 \notin Ids /\ 0 \notin TimerIds
  BY MqttAssumption

LEMMA PacketTypes ==
  /\ NoPacket \in Packets /\ NoPacket.id = 0 /\ NoPacket.type = "REFUSED"
  /\ \A t \in {"CONNACK", "REFUSED", "PINGRESP"} :
       Packet(t, 0) \in Packets /\ Packet(t, 0).id = 0 /\ Packet(t, 0).type = t
  /\ \A t \in {"SUBACK", "PUBACK", "PUBREC", "PUBCOMP"}, i \in Ids :
       Packet(t, i) \in Packets /\ Packet(t, i).id = i /\ Packet(t, i).type = t
  BY DEF NoPacket, Packet, Packets

LEMMA Spent ==
  ASSUME left \in [Budget -> Nat], NEW b \in Budget, Spend(b)
  PROVE  left' \in [Budget -> Nat]
  <1>1. left[b] - 1 \in Nat
    BY DEF Spend
  <1> QED
    BY <1>1 DEF Spend

LEMMA Went ==
  ASSUME NEW a \in ProcessAt, Goto(a)
  PROVE  process' \in Process /\ process'.at = a /\ process'.what = NoPacket /\ process'.id = 0
  BY PacketTypes DEF Goto, Process

LEMMA FreshTimerType ==
  ASSUME HaveTimer
  PROVE  FreshTimer \in TimerIds /\ FreshTimer \notin UsedTimers
  BY DEF HaveTimer, FreshTimer

LEMMA AnsweredType ==
  ASSUME inbox \subseteq Packets, NEW pkts \in SUBSET Packets, Answered(pkts)
  PROVE  inbox' \subseteq Packets /\ inbox \subseteq inbox' /\ inbox' \subseteq inbox \cup pkts
  BY DEF Answered

LEMMA Queueing ==
  ASSUME NEW q \in QoS \cup {1}, queue \in Seq(QoS \cup {1}), Queued(q)
  PROVE  queue' \in Seq(QoS \cup {1})
  BY DEF Queued

LEMMA InHandType ==
  ASSUME TypeOK, Subscribing
  PROVE  InHand \subseteq Ids
  BY DEF TypeOK, Subscribing, InHand

(* A PINGREQ, counted and armed, or counted alone. *)
LEMMA PingingType ==
  ASSUME NEW p \in PingType, p.count < 3, inbox \subseteq Packets, left \in [Budget -> Nat],
         PingSent(p) \/ PingNotSent(p)
  PROVE  /\ ping' \in PingType /\ inbox' \subseteq Packets /\ left' \in [Budget -> Nat]
         /\ inbox \subseteq inbox' /\ inbox' \subseteq inbox \cup {Packet("PINGRESP", 0)}
         /\ ping'.count = p.count + 1 /\ ping'.due = p.due
         /\ \/ ping'.armed = p.armed
            \/ ping'.armed = p.armed \cup {ping'.timer}
  <1>1. p.count + 1 \in 0 .. 3
    BY DEF PingType
  <1>2. CASE PingSent(p)
    <2>1. FreshTimer \in TimerIds /\ ping' =
            [p EXCEPT !.count = p.count + 1, !.timer = FreshTimer,
                      !.armed = p.armed \cup {FreshTimer}]
      BY <1>2, FreshTimerType DEF PingSent
    <2>2. Answered({Packet("PINGRESP", 0)}) /\ left' = left
      BY <1>2 DEF PingSent
    <2>3. /\ inbox' \subseteq Packets
          /\ inbox \subseteq inbox' /\ inbox' \subseteq inbox \cup {Packet("PINGRESP", 0)}
      BY <2>2, AnsweredType, PacketTypes
    <2>4. ping' \in PingType
      BY <1>1, <2>1, Zenon DEF PingType
    <2>5. /\ ping'.count = p.count + 1 /\ ping'.due = p.due
          /\ ping'.armed = p.armed \cup {ping'.timer}
      BY <2>1 DEF PingType
    <2> QED
      BY <2>2, <2>3, <2>4, <2>5
  <1>3. CASE PingNotSent(p)
    <2>1. ping' = [p EXCEPT !.count = p.count + 1, !.timer = 0] /\ inbox' = inbox
      BY <1>3 DEF PingNotSent
    <2>2. left' \in [Budget -> Nat]
      BY <1>3, Spent DEF PingNotSent, Budget
    <2> QED
      BY <1>1, <2>1, <2>2 DEF PingType
  <1> QED
    BY <1>2, <1>3

LEMMA CancelType ==
  ASSUME NEW p \in PingType
  PROVE  /\ CancelPing(p) \in PingType /\ CancelPing(p).due = p.due
         /\ p.armed = {p.timer} => CancelPing(p).armed = {}
         /\ p.armed = {} => CancelPing(p).armed = {}
  <1>1. CASE p.timer = 0
    BY <1>1, ZeroIsNone DEF CancelPing, PingType
  <1>2. CASE p.timer # 0
    <2> DEFINE t == IF p.timer \in p.armed THEN 0 ELSE p.timer
               a == p.armed \ {p.timer}
    <2>1. CancelPing(p) = [p EXCEPT !.count = 0, !.timer = t, !.armed = a]
      BY <1>2 DEF CancelPing
    <2>2. t \in TimerIds \cup {0} /\ a \in SUBSET TimerIds /\ 0 \in 0 .. 3
      BY DEF PingType
    <2> HIDE DEF t, a
    <2>3. CancelPing(p) \in PingType
      BY <2>1, <2>2, Zenon DEF PingType
    <2>4. CancelPing(p).due = p.due /\ CancelPing(p).armed = a
      BY <2>1 DEF PingType
    <2> QED
      BY <2>3, <2>4 DEF a
  <1> QED
    BY <1>1, <1>2

-----------------------------------------------------------------------------
(* The types. *)
LEMMA CallbacksType ==
  ASSUME TypeOK, Subscribing, Callbacks
  PROVE  TypeOK'
  <1>1. CASE STATE_CB_uninitialized
    BY <1>1 DEF STATE_CB_uninitialized, TypeOK, net, history
  <1>2. CASE STATE_CB_initialized
    <2>1. process' \in Process /\ left' \in [Budget -> Nat] /\ sock' \in Sockets
      BY <1>2, Went, Spent DEF STATE_CB_initialized, TypeOK, Budget, ProcessAt, Sockets
    <2> QED
      BY <1>2, <2>1 DEF STATE_CB_initialized, TypeOK, history
  <1>3. CASE ConnectSent
    <2>1. process' \in Process /\ inbox' \subseteq Packets
      BY <1>3, Went, PacketTypes DEF ConnectSent, ProcessAt
    <2> QED
      BY <1>3, <2>1 DEF ConnectSent, TypeOK, Sockets, history
  <1>4. CASE ConnectFails
    <2>1. process' \in Process /\ left' \in [Budget -> Nat]
      BY <1>4, Went, Spent DEF ConnectFails, TypeOK, Budget, ProcessAt
    <2> QED
      BY <1>4, <2>1 DEF ConnectFails, TypeOK, Sockets, history
  <1>5. CASE Connected
    <2>1. process' \in Process
      BY <1>5, Went DEF Connected, ProcessAt
    <2>2. ping' \in PingType
      <3>1. ping \in PingType /\ 0 \in 0 .. 3
        BY DEF TypeOK, PingType
      <3> QED
        BY <1>5, <3>1, Zenon DEF Connected, PingType
    <2> QED
      BY <1>5, <2>1, <2>2 DEF Connected, TypeOK, PingType, net
  <1>6. CASE Subscribe
    <2>1. process' \in Process /\ left' \in [Budget -> Nat] /\ inbox' \subseteq Packets
          /\ queue' \in Seq(QoS \cup {1})
      <3>1. ASSUME NEW i \in Ids, process' = [process EXCEPT !.at = "subscribed", !.id = i]
            PROVE  process' \in Process
        BY <3>1 DEF TypeOK, Process, ProcessAt
      <3>2. ASSUME NEW i \in Ids, Answered({Packet("SUBACK", i)})
            PROVE  inbox' \subseteq Packets
        BY <3>2, AnsweredType, PacketTypes DEF TypeOK
      <3>3. Goto("loop") => process' \in Process
        BY Went DEF ProcessAt
      <3>4. Queued(1) => queue' \in Seq(QoS \cup {1})
        BY Queueing DEF TypeOK
      <3>5. Spend("fault") => left' \in [Budget -> Nat]
        BY Spent DEF TypeOK, Budget
      <3> QED
        BY <1>6, <3>1, <3>2, <3>3, <3>4, <3>5 DEF Subscribe, TypeOK
    <2> QED
      BY <1>6, <2>1 DEF Subscribe, TypeOK, history
  <1>7. CASE Subscribed
    <2>1. process' \in Process /\ queue' \in Seq(QoS \cup {1})
      BY <1>7, Went, Queueing DEF Subscribed, TypeOK, ProcessAt
    <2> QED
      BY <1>7, <2>1 DEF Subscribed, Subscribing, TypeOK, net, history
  <1>8. CASE Loop
    <2>1. process' \in Process
      BY <1>8, Went DEF Loop, ProcessAt
    <2> QED
      BY <1>8, <2>1 DEF Loop, TypeOK, net, history
  <1>9. CASE STATE_CB_disconnected
    BY <1>9 DEF STATE_CB_disconnected, TypeOK, net
  <1> QED
    BY <1>1, <1>2, <1>3, <1>4, <1>5, <1>6, <1>7, <1>8, <1>9 DEF Callbacks

LEMMA HandlersType ==
  ASSUME TypeOK, Subscribing, Receive \/ RecvNothing \/ Handlers
  PROVE  TypeOK'
  <1>1. CASE Receive
    <2>1. PICK pkt \in inbox : RecvPacket(pkt)
      BY <1>1 DEF Receive
    <2>2. process' \in Process /\ inbox' \subseteq Packets
      BY <2>1 DEF RecvPacket, TypeOK, Process, ProcessAt
    <2> QED
      BY <2>1, <2>2 DEF RecvPacket, TypeOK, history
  <1>2. CASE RecvNothing
    <2>1. process' \in Process
      BY <1>2, Went DEF RecvNothing, ProcessAt
    <2> QED
      BY <1>2, <2>1 DEF RecvNothing, TypeOK, net, history
  <1>3. CASE CONNACK
    <2>1. process' \in Process
      BY <1>3, Went DEF CONNACK, ProcessAt
    <2> QED
      BY <1>3, <2>1 DEF CONNACK, TypeOK, net, history
  <1>4. CASE ACK
    <2>1. process' \in Process
      BY <1>4, Went DEF ACK, ProcessAt
    <2> QED
      BY <1>4, <2>1, InHandType DEF ACK, TypeOK, net
  <1>5. CASE PUBREC
    <2>1. process' \in Process
      BY <1>5, Went DEF PUBREC, ProcessAt
    <2>2. inbox' \subseteq Packets
      <3>1. {Packet("PUBCOMP", i) : i \in {process.what.id} \cap trans} \subseteq Packets
        BY PacketTypes DEF TypeOK
      <3> QED
        BY <1>5, <3>1, AnsweredType DEF PUBREC, TypeOK
    <2>3. orphans' \subseteq Ids
      BY <1>5, InHandType DEF PUBREC, TypeOK
    <2> QED
      BY <1>5, <2>1, <2>2, <2>3 DEF PUBREC, TypeOK
  <1>6. CASE PINGRESP
    <2>1. process' \in Process
      BY <1>6, PacketTypes DEF PINGRESP, TypeOK, Process, ProcessAt
    <2> QED
      BY <1>6, <2>1 DEF PINGRESP, TypeOK, net, history
  <1>7. CASE PINGRESP_cancel
    <2>1. process' \in Process
      BY <1>7, Went DEF PINGRESP_cancel, ProcessAt
    <2>2. ping' \in PingType
      <3>1. /\ ping \in PingType /\ 0 \in 0 .. 3 /\ 0 \in TimerIds \cup {0}
            /\ ping.armed \ {process.id} \in SUBSET TimerIds
        BY DEF TypeOK, PingType
      <3> QED
        BY <1>7, <3>1 DEF PINGRESP_cancel, PingType
    <2>3. /\ UNCHANGED <<xState, net, trans, queue, sender, timer, linkUp, left, late, orphans>>
          /\ lost' = 0
      BY <1>7 DEF PINGRESP_cancel
    <2> QED
      BY <2>1, <2>2, <2>3 DEF TypeOK, PingType, net
  <1> QED
    BY <1>1, <1>2, <1>3, <1>4, <1>5, <1>6, <1>7 DEF Handlers

LEMMA ChecksType ==
  ASSUME TypeOK, Subscribing, Checks
  PROVE  TypeOK'
  <1>1. CASE LinkLost
    <2>1. process' \in Process
      BY <1>1, Went DEF LinkLost, ProcessAt
    <2>2. ping' \in PingType
      BY <1>1, CancelType DEF LinkLost, TypeOK, PingType
    <2> QED
      BY <1>1, <2>1, <2>2 DEF LinkLost, TypeOK, PingType, net, history
  <1>2. CASE Close
    <2>1. process' \in Process
      BY <1>2, Went DEF Close, ProcessAt
    <2> QED
      BY <1>2, <2>1, InHandType DEF Close, Disconnected, TypeOK, Sockets
  <1>3. CASE NoPingDue
    <2>1. process' \in Process
      BY <1>3, Went DEF NoPingDue, ProcessAt
    <2> QED
      BY <1>3, <2>1 DEF NoPingDue, TypeOK, net, history
  <1>4. CASE PingDue
    <2>1. process' \in Process
      BY <1>4, Went DEF PingDue, ProcessAt
    <2> DEFINE p == [ping EXCEPT !.due = FALSE]
    <2>2. p \in PingType /\ p.count = 0
      BY <1>4 DEF PingDue, Due, TypeOK, PingType
    <2>3. PingSent(p) \/ PingNotSent(p)
      BY <1>4 DEF PingDue
    <2> HIDE DEF p
    <2>4. ping' \in PingType /\ inbox' \subseteq Packets /\ left' \in [Budget -> Nat]
      BY <2>2, <2>3, PingingType DEF TypeOK
    <2> QED
      BY <1>4, <2>1, <2>4 DEF PingDue, TypeOK, PingType, history
  <1> QED
    BY <1>1, <1>2, <1>3, <1>4 DEF Checks

LEMMA TimeoutType ==
  ASSUME TypeOK, Subscribing, Timeout
  PROVE  TypeOK'
  <1>1. ASSUME NEW k \in TimerIds, PING_timeout(k)
        PROVE  TypeOK'
    <2> DEFINE p == [ping EXCEPT !.armed = @ \ {k}]
    <2>1. p \in PingType
      BY DEF TypeOK, PingType
    <2>2. \/ p.count < 3 /\ (PingSent(p) \/ PingNotSent(p)) /\ timer' = timer
          \/ ping' = [p EXCEPT !.timer = 0] /\ timer' = "close" /\ inbox' = inbox /\ left' = left
      BY <1>1 DEF PING_timeout, TimeoutAfter
    <2> HIDE DEF p
    <2>3. /\ ping' \in PingType /\ inbox' \subseteq Packets /\ left' \in [Budget -> Nat]
          /\ timer' \in {"idle", "close"}
      <3>1. CASE p.count < 3 /\ (PingSent(p) \/ PingNotSent(p)) /\ timer' = timer
        BY <2>1, <3>1, PingingType DEF TypeOK
      <3>2. CASE /\ ping' = [p EXCEPT !.timer = 0] /\ timer' = "close"
                 /\ inbox' = inbox /\ left' = left
        BY <2>1, <3>2 DEF TypeOK, PingType
      <3> QED
        BY <2>2, <3>1, <3>2
    <2>4. lost' \in 0 .. 3
      BY <1>1 DEF PING_timeout, TimeoutAfter, TypeOK
    <2> QED
      BY <1>1, <2>3, <2>4 DEF PING_timeout, TimeoutAfter, TypeOK, PingType
  <1>2. CASE PING_timeout_close
    BY <1>2, InHandType DEF PING_timeout_close, Disconnected, TypeOK, Sockets
  <1> QED
    BY <1>1, <1>2 DEF Timeout

LEMMA SendingType ==
  ASSUME TypeOK, (\E q \in QoS : FTE_MQTT_publish(q)) \/ Sending \/ Break \/ Flap \/ Elapse
  PROVE  TypeOK'
  <1>1. ASSUME NEW q \in QoS, FTE_MQTT_publish(q)
        PROVE  TypeOK'
    <2>1. left' \in [Budget -> Nat] /\ queue' \in Seq(QoS \cup {1})
      BY <1>1, Spent, Queueing DEF FTE_MQTT_publish, TypeOK, Budget
    <2> QED
      BY <1>1, <2>1 DEF FTE_MQTT_publish, TypeOK, net, history
  <1>2. ASSUME Dequeued PROVE queue' \in Seq(QoS \cup {1})
    BY <1>2 DEF Dequeued, TypeOK
  <1>3. CASE Publish0
    BY <1>2, <1>3 DEF Publish0, TypeOK, net, history
  <1>4. CASE PublishSent
    <2>1. PICK i \in Ids :
            /\ sender' = i
            /\ Answered({Packet(IF Head(queue) = 1 THEN "PUBACK" ELSE "PUBREC", i)})
      BY <1>4 DEF PublishSent
    <2>2. inbox' \subseteq Packets
      BY <2>1, AnsweredType, PacketTypes DEF TypeOK
    <2> QED
      BY <1>2, <1>4, <2>1, <2>2 DEF PublishSent, TypeOK, history
  <1>5. CASE PublishFails
    <2>1. left' \in [Budget -> Nat]
      BY <1>5, Spent DEF PublishFails, TypeOK, Budget
    <2> QED
      BY <1>2, <1>5, <2>1 DEF PublishFails, TypeOK, net, history
  <1>6. CASE TRANS_push
    BY <1>6 DEF TRANS_push, TypeOK, net, history
  <1>7. CASE Break
    <2>1. left' \in [Budget -> Nat]
      BY <1>7, Spent DEF Break, TypeOK, Budget
    <2> QED
      BY <1>7, <2>1 DEF Break, TypeOK, Sockets, history
  <1>8. CASE Flap
    <2>1. left' \in [Budget -> Nat]
      BY <1>8, Spent DEF Flap, TypeOK, Budget
    <2>2. linkUp' \in BOOLEAN
      BY <1>8, Zenon DEF Flap, TypeOK
    <2> QED
      BY <1>8, <2>1, <2>2 DEF Flap, TypeOK, net, history
  <1>9. CASE Elapse
    <2>1. ping' \in PingType
      BY <1>9 DEF Elapse, TypeOK, PingType
    <2> QED
      BY <1>9, <2>1 DEF Elapse, TypeOK, PingType, net, history
  <1> QED
    BY <1>1, <1>3, <1>4, <1>5, <1>6, <1>7, <1>8, <1>9 DEF Sending

LEMMA TypeStep ==
  ASSUME TypeOK, Subscribing, Next
  PROVE  TypeOK'
  BY CallbacksType, HandlersType, ChecksType, TimeoutType, SendingType DEF Next

-----------------------------------------------------------------------------
(* The socket and xState. *)
LEMMA SocketStep ==
  ASSUME TypeOK, SocketInv, Next
  PROVE  SocketInv'
  <1> USE DEF SocketInv, ConnectedHasSocket, HasSocket, Opening, LeftOver, At, ProcessAt
  <1>1. CASE STATE_CB_uninitialized \/ STATE_CB_disconnected
    BY <1>1 DEF STATE_CB_uninitialized, STATE_CB_disconnected, net, history
  <1>2. CASE STATE_CB_initialized
    BY <1>2, Went DEF STATE_CB_initialized, history
  <1>3. CASE ConnectSent \/ ConnectFails
    BY <1>3, Went DEF ConnectSent, ConnectFails, history
  <1>4. CASE Connected
    BY <1>4, Went DEF Connected, net
  <1>5. CASE Subscribe
    <2>1. /\ UNCHANGED <<xState, sock, late>>
          /\ \/ process'.at = "loop"
             \/ process'.at = "subscribed" /\ sock # "none"
      BY <1>5, Went DEF Subscribe, SendSucceeds, history, TypeOK, Process
    <2> QED
      BY <1>5, <2>1 DEF Subscribe
  <1>6. CASE Subscribed \/ Loop
    BY <1>6, Went DEF Subscribed, Loop, net, history
  <1>7. CASE Receive
    <2>1. process.at = "recv" /\ process'.at = "handle" /\ UNCHANGED <<xState, sock, late>>
      BY <1>7 DEF Receive, RecvPacket, TypeOK, Process, history
    <2> QED
      BY <2>1
  <1>8. CASE RecvNothing \/ CONNACK \/ ACK \/ PUBREC
    BY <1>8, Went DEF RecvNothing, CONNACK, ACK, PUBREC, Handling, net, history
  <1>9. CASE PINGRESP
    <2>1. process.at = "handle" /\ process'.at = "cancel" /\ UNCHANGED <<xState, sock, late>>
      BY <1>9 DEF PINGRESP, Handling, TypeOK, Process, net, history
    <2> QED
      BY <2>1
  <1>10. CASE PINGRESP_cancel \/ LinkLost \/ NoPingDue \/ PingDue
    <2>1. /\ process.at \in {"cancel", "check"} /\ process'.at \in {"check", "close", "loop"}
          /\ UNCHANGED <<xState, sock, late>>
          /\ process'.at = "check" => process.at = "cancel"
      BY <1>10, Went DEF PINGRESP_cancel, LinkLost, NoPingDue, PingDue, net, history
    <2> QED
      BY <2>1
  <1>11. CASE Close
    BY <1>11, Went DEF Close, Disconnected
  <1>12. CASE PING_timeout_close
    <2>1. sock' = "none" /\ xState' = "disconnected" /\ process' = process
          /\ (late' <=> (late \/ process.at \notin {"delay", "loop"}))
      BY <1>12 DEF PING_timeout_close, Disconnected
    <2> QED
      BY <2>1
  <1>13. CASE \/ \E k \in TimerIds : PING_timeout(k)
              \/ \E q \in QoS : FTE_MQTT_publish(q)
              \/ Sending \/ Break \/ Flap \/ Elapse
    <2>1. UNCHANGED <<xState, process, late>> /\ (sock' = sock \/ (sock = "live" /\ sock' = "broken"))
      BY <1>13 DEF PING_timeout, TimeoutAfter, FTE_MQTT_publish, Sending, Publish0, PublishSent,
                   PublishFails, TRANS_push, Break, Flap, Elapse, net, history
    <2> QED
      BY <2>1
  <1> QED
    BY <1>1, <1>2, <1>3, <1>4, <1>5, <1>6, <1>7, <1>8, <1>9, <1>10, <1>11, <1>12, <1>13
       DEF Next, Callbacks, Handlers, Checks, Timeout

-----------------------------------------------------------------------------
(* The pings. *)
LEMMA PingStep ==
  ASSUME TypeOK, SocketInv, PingInv, Next
  PROVE  PingInv'
  <1> USE DEF PingInv, Armed, GivenUp, Closing, DueEarly, At, ProcessAt
  <1>0. ping \in PingType /\ lost \in 0 .. 3
    BY DEF TypeOK, PingType
  <1>1. CASE STATE_CB_uninitialized \/ STATE_CB_disconnected
    BY <1>1 DEF STATE_CB_uninitialized, STATE_CB_disconnected, history
  <1>2. CASE STATE_CB_initialized \/ ConnectSent \/ ConnectFails
    <2>1. /\ xState # "connected" /\ xState' # "connected" /\ UNCHANGED <<ping, timer, lost>>
          /\ process'.at \in {"delay", "connect", "greet"}
      BY <1>2, Went DEF STATE_CB_initialized, ConnectSent, ConnectFails, history, SocketInv, Opening
    <2> QED
      BY <2>1
  <1>3. CASE Connected
    <2>1. /\ xState # "connected" /\ process'.at = "delay" /\ timer' = timer
          /\ ping'.armed = ping.armed /\ ping'.due = ping.due
      BY <1>0, <1>3, Went DEF Connected, PingType, SocketInv, Opening
    <2> QED
      BY <2>1
  <1>4. CASE Subscribe \/ Subscribed \/ Loop
    <2>1. /\ UNCHANGED <<xState, ping, timer, lost>>
          /\ process'.at \in {"subscribed", "loop", "recv", "delay"}
      BY <1>4, Went DEF Subscribe, Subscribed, Loop, history, TypeOK, Process
    <2>2. \/ xState = "connected"
          \/ process'.at = "delay"
          \/ process.at \notin {"delay", "connect", "greet"}
      BY <1>4 DEF Subscribe, Subscribed, Loop
    <2> QED
      BY <2>1, <2>2
  <1>5. CASE Receive \/ RecvNothing
    <2>1. /\ UNCHANGED <<xState, ping, timer, lost>>
          /\ process.at = "recv" /\ process'.at \in {"handle", "check"}
      BY <1>5, Went DEF Receive, RecvPacket, RecvNothing, history, TypeOK, Process
    <2> QED
      BY <2>1
  <1>6. CASE CONNACK \/ ACK \/ PUBREC
    <2>1. /\ UNCHANGED <<ping, timer, lost>> /\ (xState' = xState \/ xState' = "connected")
          /\ process.at = "handle" /\ process'.at = "check"
      BY <1>6, Went DEF CONNACK, ACK, PUBREC, Handling, history
    <2> QED
      BY <2>1
  <1>7. CASE PINGRESP
    <2>1. /\ UNCHANGED <<xState, ping, timer, lost>>
          /\ process.at = "handle" /\ process'.at = "cancel" /\ process'.id = ping.timer
      BY <1>7 DEF PINGRESP, Handling, TypeOK, Process, history
    <2>2. process'.id = 0 => ping.armed = {}
      BY <1>0, <2>1, ZeroIsNone DEF PingType
    <2> QED
      BY <2>1, <2>2
  <1>8. CASE PINGRESP_cancel
    <2>1. /\ UNCHANGED <<xState, timer>> /\ lost' = 0
          /\ process.at = "cancel" /\ process'.at = "check"
      BY <1>8, Went DEF PINGRESP_cancel
    <2>2. CASE process.id = 0
      <3>1. ping' = ping
        BY <1>8, <2>2 DEF PINGRESP_cancel
      <3> QED
        BY <2>1, <2>2, <3>1
    <2>3. CASE process.id # 0 /\ process.id \in ping.armed
      <3>1. ping'.armed = {} /\ ping'.due = ping.due
        BY <1>0, <1>8, <2>3 DEF PINGRESP_cancel, PingType
      <3> QED
        BY <2>1, <3>1
    <2>4. CASE process.id # 0 /\ process.id \notin ping.armed
      <3>1. ping' = [ping EXCEPT !.count = 0]
        BY <1>8, <2>4 DEF PINGRESP_cancel
      <3>2. /\ ping'.armed = ping.armed /\ ping'.due = ping.due
            /\ ping'.timer = ping.timer /\ ping'.count = 0
        BY <1>0, <3>1 DEF PingType
      <3> QED
        BY <2>1, <3>2
    <2> QED
      BY <2>2, <2>3, <2>4
  <1>9. CASE LinkLost
    <2>1. /\ UNCHANGED <<xState, timer, lost>> /\ ping' = CancelPing(ping)
          /\ process.at = "check" /\ process'.at = "close"
      BY <1>9, Went DEF LinkLost, history
    <2>2. ping'.armed = {} /\ ping'.due = ping.due
      BY <1>0, <2>1, CancelType
    <2> QED
      BY <2>1, <2>2
  <1>10. CASE Close
    <2>1. UNCHANGED <<ping, timer, lost>> /\ process.at = "close" /\ process'.at = "delay"
      BY <1>10, Went DEF Close
    <2> QED
      BY <2>1
  <1>11. CASE NoPingDue
    <2>1. UNCHANGED <<xState, ping, timer, lost>> /\ process.at = "check" /\ process'.at = "loop"
      BY <1>11, Went DEF NoPingDue, history
    <2> QED
      BY <2>1
  <1>12. CASE PingDue
    <2> DEFINE p == [ping EXCEPT !.due = FALSE]
    <2>1. /\ process.at = "check" /\ process'.at = "loop" /\ UNCHANGED <<xState, timer, lost>>
          /\ ping.due /\ ping.count = 0 /\ (PingSent(p) \/ PingNotSent(p))
      BY <1>12, Went DEF PingDue, Due, history
    <2>2. xState = "connected" /\ ping.armed = {} /\ timer # "close"
      BY <2>1
    <2>3. p \in PingType /\ p.count = 0 /\ p.armed = {} /\ ~p.due
      BY <1>0, <2>1, <2>2 DEF PingType
    <2> HIDE DEF p
    <2>4. ping'.armed \in {{}, {ping'.timer}} /\ ping'.count = 1 /\ ~ping'.due
      BY <2>1, <2>3, PingingType DEF TypeOK
    <2> QED
      BY <1>0, <2>1, <2>2, <2>4
  <1>13. ASSUME NEW k \in TimerIds, PING_timeout(k)
         PROVE  PingInv'
    <2> DEFINE p == [ping EXCEPT !.armed = @ \ {k}]
    <2>1. /\ UNCHANGED <<xState, process>> /\ k \in ping.armed /\ timer = "idle"
          /\ lost' = IF lost < 3 THEN lost + 1 ELSE lost
      BY <1>13 DEF PING_timeout, TimeoutAfter
    <2>2. \/ p.count < 3 /\ (PingSent(p) \/ PingNotSent(p)) /\ timer' = timer
          \/ ping' = [p EXCEPT !.timer = 0] /\ timer' = "close"
      BY <1>13 DEF PING_timeout, TimeoutAfter
    <2>3. p \in PingType /\ p.armed = {} /\ ~p.due /\ p.count = ping.count /\ p.count <= lost + 1
      BY <1>0, <2>1 DEF PingType
    <2> HIDE DEF p
    <2>4. CASE p.count < 3 /\ (PingSent(p) \/ PingNotSent(p)) /\ timer' = timer
      <3>1. ping'.armed \in {{}, {ping'.timer}} /\ ping'.count = p.count + 1 /\ ~ping'.due
        BY <2>3, <2>4, PingingType DEF TypeOK
      <3>2. p.count + 1 <= lost' + 1
        BY <1>0, <2>1, <2>3, <2>4 DEF PingType
      <3> QED
        BY <2>1, <2>4, <3>1, <3>2
    <2>5. CASE ping' = [p EXCEPT !.timer = 0] /\ timer' = "close"
      <3>1. ping'.armed = {} /\ ~ping'.due
        BY <2>3, <2>5 DEF PingType
      <3> QED
        BY <2>1, <2>5, <3>1
    <2> QED
      BY <2>2, <2>4, <2>5
  <1>14. CASE PING_timeout_close
    <2>1. UNCHANGED <<ping, process, lost>> /\ timer = "close" /\ timer' = "idle"
      BY <1>14 DEF PING_timeout_close
    <2> QED
      BY <2>1
  <1>15. CASE (\E q \in QoS : FTE_MQTT_publish(q)) \/ Sending \/ Break \/ Flap
    <2>1. UNCHANGED <<xState, ping, timer, process, lost>>
      BY <1>15 DEF FTE_MQTT_publish, Sending, Publish0, PublishSent, PublishFails, TRANS_push,
                   Break, Flap, history
    <2> QED
      BY <2>1
  <1>16. CASE Elapse
    <2>1. /\ UNCHANGED <<xState, timer, process, lost>> /\ ping.armed = {} /\ timer = "idle"
          /\ process.at = "delay" \/ xState = "connected"
          /\ ping'.armed = ping.armed
      BY <1>0, <1>16 DEF Elapse, history, PingType
    <2> QED
      BY <2>1
  <1> QED
    BY <1>1, <1>2, <1>3, <1>4, <1>5, <1>6, <1>7, <1>8, <1>9, <1>10, <1>11, <1>12, <1>13, <1>14,
       <1>15, <1>16 DEF Next, Callbacks, Handlers, Checks, Timeout

-----------------------------------------------------------------------------
(* The transactions. *)
LEMMA OpenType ==
  ASSUME TypeOK, Subscribing
  PROVE  Open \subseteq Ids /\ 0 \notin Open
  BY InHandType, ZeroIsNone DEF Open, TypeOK

(* A step that leaves the connection and the transactions alone. *)
LEMMA QuietStep ==
  ASSUME TypeOK, TransInv, UNCHANGED <<sock, trans, sender, orphans>>,
         inbox \subseteq inbox', inbox' \subseteq inbox \cup {Packet("PINGRESP", 0)},
         \/ process' = process
         \/ /\ process.at \notin {"handle", "subscribed"} /\ process'.what = NoPacket
            /\ process'.at \notin {"handle", "subscribed"}
  PROVE  TransInv'
  <1> USE DEF TransInv
  <1>1. InHandle' /\ Subscribing' /\ process'.what = process.what
    BY DEF InHandle, Subscribing, At
  <1>2. Numbered'
    BY <1>1, PacketTypes DEF Numbered
  <1>3. Open' = Open
    BY DEF Open, InHand, At
  <1>4. Closed' /\ Waiting'
    BY <1>1, <1>3 DEF Closed, Waiting
  <1> QED
    BY <1>1, <1>2, <1>4

(* A step that ends the connection. *)
LEMMA EndStep ==
  ASSUME TypeOK, TransInv, Disconnected, sender' = sender,
         \/ process' = process
         \/ At("close") /\ process'.at = "delay" /\ process'.what = NoPacket
  PROVE  TransInv'
  <1> USE DEF TransInv
  <1>1. InHandle' /\ Subscribing' /\ process'.what = process.what
    BY DEF InHandle, Subscribing, At
  <1>2. Numbered'
    BY <1>1 DEF Numbered, Disconnected
  <1>3. Open' = {}
    BY DEF Open, InHand, At, Disconnected
  <1> QED
    BY <1>1, <1>2, <1>3 DEF Closed, Waiting, Disconnected

LEMMA TransStep ==
  ASSUME TypeOK, SocketInv, TransInv, Next
  PROVE  TransInv'
  <1> USE DEF TransInv, ProcessAt
  <1>1. CASE \/ STATE_CB_uninitialized \/ Connected \/ Loop \/ STATE_CB_disconnected
             \/ RecvNothing \/ PINGRESP_cancel \/ LinkLost \/ NoPingDue
             \/ (\E q \in QoS : FTE_MQTT_publish(q)) \/ Publish0 \/ PublishFails \/ Flap \/ Elapse
    <2>1. /\ UNCHANGED <<sock, inbox, trans, sender, orphans>>
          /\ \/ process' = process
             \/ /\ process.at \notin {"handle", "subscribed"} /\ process'.what = NoPacket
                /\ process'.at \notin {"handle", "subscribed"}
      BY <1>1, Went
         DEF STATE_CB_uninitialized, Connected, Loop, STATE_CB_disconnected, RecvNothing,
             PINGRESP_cancel, LinkLost, NoPingDue, FTE_MQTT_publish, Publish0, PublishFails,
             Flap, Elapse, net, history, At
    <2> QED
      BY <2>1, QuietStep
  <1>2. CASE PingDue \/ \E k \in TimerIds : PING_timeout(k)
    <2>1. /\ UNCHANGED <<sock, trans, sender, orphans>>
          /\ \/ process' = process
             \/ /\ process.at \notin {"handle", "subscribed"} /\ process'.what = NoPacket
                /\ process'.at \notin {"handle", "subscribed"}
      BY <1>2, Went DEF PingDue, PING_timeout, TimeoutAfter, history, At
    <2>2. inbox' = inbox \/ Answered({Packet("PINGRESP", 0)})
      BY <1>2 DEF PingDue, PING_timeout, TimeoutAfter, PingSent, PingNotSent
    <2>3. inbox \subseteq inbox' /\ inbox' \subseteq inbox \cup {Packet("PINGRESP", 0)}
      BY <2>2 DEF Answered
    <2> QED
      BY <2>1, <2>3, QuietStep
  <1>3. CASE STATE_CB_initialized \/ ConnectFails
    <2>1. /\ inbox' = {} /\ UNCHANGED <<trans, sender, orphans>>
          /\ process'.at \notin {"handle", "subscribed"} /\ process'.what = NoPacket
          /\ sock' \notin {"live", "broken"} /\ process.at # "subscribed"
      BY <1>3, Went DEF STATE_CB_initialized, ConnectFails, history, At, InHandle
    <2>2. sock \notin {"live", "broken"}
      BY <1>3 DEF STATE_CB_initialized, ConnectFails, SocketInv, Opening, LeftOver, At
    <2> QED
      BY <2>1, <2>2, PacketTypes
         DEF InHandle, Subscribing, Numbered, Closed, Waiting, Open, InHand, At
  <1>4. CASE ConnectSent
    <2>1. /\ inbox' \in {{Packet("CONNACK", 0)}, {Packet("REFUSED", 0)}}
          /\ UNCHANGED <<trans, sender, orphans>>
          /\ process'.at = "greet" /\ process'.what = NoPacket /\ process.at = "connect"
          /\ sock = "new"
      BY <1>4, Went DEF ConnectSent, history, At
    <2>2. Open' = Open /\ Open = {}
      BY <2>1 DEF Open, InHand, At, Closed
    <2>3. Numbered'
      BY <2>1, PacketTypes DEF Numbered
    <2> QED
      BY <2>1, <2>2, <2>3 DEF InHandle, Subscribing, Closed, Waiting, At
  <1>5. CASE Subscribe
    <2>1. CASE /\ UNCHANGED <<sock, inbox, trans, sender, orphans>>
               /\ process.at = "delay" /\ Goto("loop")
      <3>1. /\ process'.at \notin {"handle", "subscribed"} /\ process'.what = NoPacket
            /\ process.at \notin {"handle", "subscribed"}
        BY <2>1, Went
      <3> QED
        BY <2>1, <3>1, QuietStep
    <2>2. ASSUME NEW i \in Ids,
                 process.at = "delay", SendSucceeds, UNCHANGED <<sock, trans, sender, orphans>>,
                 process' = [process EXCEPT !.at = "subscribed", !.id = i],
                 Answered({Packet("SUBACK", i)})
          PROVE  TransInv'
      <3>1. process'.at = "subscribed" /\ process'.id = i /\ process'.what = process.what
        BY <2>2 DEF TypeOK, Process
      <3>2. inbox \subseteq inbox' /\ inbox' \subseteq inbox \cup {Packet("SUBACK", i)}
        BY <2>2 DEF Answered
      <3>3. Open' \subseteq Open \cup {i}
        BY <2>2, <3>1, ZeroIsNone DEF Open, InHand, At
      <3>4. Numbered'
        BY <3>1, <3>2, PacketTypes DEF Numbered
      <3>5. Waiting'
        <4>1. sock = "live" => Packet("SUBACK", i) \in inbox' /\ Packet("SUBACK", i).id = i
          BY <2>2, PacketTypes DEF Answered
        <4> QED
          BY <2>2, <3>1, <3>2, <3>3, <4>1 DEF Waiting
      <3> QED
        BY <2>2, <3>1, <3>4, <3>5 DEF InHandle, Subscribing, Closed, SendSucceeds, At
    <2> QED
      BY <1>5, <2>1, <2>2 DEF Subscribe, history, At
  <1>6. CASE Subscribed
    <2>1. /\ UNCHANGED <<sock, inbox, sender, orphans>> /\ trans' = trans \cup {process.id}
          /\ process.at = "subscribed" /\ process'.at = "loop" /\ process'.what = NoPacket
      BY <1>6, Went DEF Subscribed, net, history, At
    <2>2. process'.what = process.what /\ process.id # 0
      BY <2>1, ZeroIsNone DEF InHandle, Subscribing, At
    <2>3. Open' = Open
      BY <2>1, <2>2 DEF Open, InHand, At
    <2> QED
      BY <2>1, <2>2, <2>3 DEF InHandle, Subscribing, Numbered, Closed, Waiting, At
  <1>7. CASE Receive
    <2>1. PICK pkt \in inbox : RecvPacket(pkt)
      BY <1>7 DEF Receive
    <2>2. /\ UNCHANGED <<sock, trans, sender, orphans>> /\ inbox' = inbox \ {pkt}
          /\ process.at = "recv" /\ process'.at = "handle" /\ process'.what = pkt
      BY <2>1 DEF RecvPacket, history, At, TypeOK, Process
    <2>3. process.what.id = 0
      BY <2>2, PacketTypes DEF InHandle
    <2>4. Open' = Open /\ 0 \notin Open
      BY <2>2, OpenType DEF Open, InHand, At
    <2>5. Waiting'
      BY <2>2, <2>3, <2>4 DEF Waiting
    <2> QED
      BY <2>2, <2>4, <2>5 DEF InHandle, Subscribing, Numbered, Closed, At
  <1>8. CASE CONNACK \/ PINGRESP
    <2>1. /\ UNCHANGED <<sock, inbox, trans, sender, orphans>>
          /\ process.at = "handle" /\ process'.at \in {"check", "cancel"} /\ process'.what = NoPacket
          /\ process.what.type \in {"CONNACK", "REFUSED", "PINGRESP"}
      BY <1>8, Went DEF CONNACK, PINGRESP, Handling, net, history, At, TypeOK, Process
    <2>2. process.what.id = 0
      BY <2>1 DEF Numbered
    <2>3. Open' = Open /\ 0 \notin Open
      BY <2>1, OpenType DEF Open, InHand, At
    <2>4. Waiting'
      BY <2>1, <2>2, <2>3 DEF Waiting
    <2> QED
      BY <2>1, <2>3, <2>4, PacketTypes DEF InHandle, Subscribing, Numbered, Closed, At
  <1>9. CASE ACK
    <2>1. /\ UNCHANGED <<sock, inbox, sender>> /\ trans' = trans \ {process.what.id}
          /\ orphans' = orphans \cup ({process.what.id} \cap InHand)
          /\ process.at = "handle" /\ process'.at = "check" /\ process'.what = NoPacket
      BY <1>9, Went DEF ACK, Handling, net, At
    <2>2. Open' = Open \ {process.what.id}
      BY <2>1 DEF Open, InHand, At
    <2>3. Waiting'
      BY <2>1, <2>2 DEF Waiting
    <2> QED
      BY <2>1, <2>2, <2>3, PacketTypes DEF InHandle, Subscribing, Numbered, Closed, At
  <1>10. CASE PUBREC
    <2> DEFINE i == process.what.id
    <2>1. /\ UNCHANGED <<sock, trans, sender>>
          /\ orphans' = orphans \cup ({i} \cap InHand)
          /\ Answered({Packet("PUBCOMP", j) : j \in {i} \cap trans})
          /\ process.at = "handle" /\ process'.at = "check" /\ process'.what = NoPacket
      BY <1>10, Went DEF PUBREC, Handling, At
    <2>2. /\ inbox \subseteq inbox'
          /\ inbox' \subseteq inbox \cup {Packet("PUBCOMP", j) : j \in {i} \cap trans}
      BY <2>1 DEF Answered
    <2>3. Open' \subseteq Open /\ (i \in Open' => i \in trans)
      BY <2>1 DEF Open, InHand, At
    <2>4. trans \subseteq Ids
      BY DEF TypeOK
    <2>5. Waiting'
      <3>1. sock = "live" /\ i \in trans
              => Packet("PUBCOMP", i) \in inbox' /\ Packet("PUBCOMP", i).id = i
        BY <2>1, <2>4, PacketTypes DEF Answered
      <3> HIDE DEF i
      <3>2. \A j \in Open : j # i /\ sock = "live" => \E pkt \in inbox : pkt.id = j
        BY DEF Waiting, i
      <3> QED
        BY <2>1, <2>2, <2>3, <3>1, <3>2 DEF Waiting
    <2>6. Numbered'
      BY <2>1, <2>2, <2>4, PacketTypes DEF Numbered
    <2> QED
      BY <2>1, <2>3, <2>5, <2>6 DEF InHandle, Subscribing, Closed, At
  <1>11. CASE Close \/ PING_timeout_close
    <2>1. /\ Disconnected /\ sender' = sender
          /\ \/ process' = process
             \/ At("close") /\ process'.at = "delay" /\ process'.what = NoPacket
      BY <1>11, Went DEF Close, PING_timeout_close
    <2> QED
      BY <2>1, EndStep
  <1>12. CASE PublishSent
    <2>1. PICK i \in Ids :
            /\ sender' = i
            /\ Answered({Packet(IF Head(queue) = 1 THEN "PUBACK" ELSE "PUBREC", i)})
      BY <1>12 DEF PublishSent
    <2> DEFINE t == IF Head(queue) = 1 THEN "PUBACK" ELSE "PUBREC"
    <2>2. /\ UNCHANGED <<sock, trans, process, orphans>> /\ sender = 0
          /\ sock \in {"live", "broken"}
      BY <1>12 DEF PublishSent, Dequeued, SendSucceeds, history
    <2>3. /\ inbox \subseteq inbox' /\ inbox' \subseteq inbox \cup {Packet(t, i)}
          /\ sock = "live" => Packet(t, i) \in inbox'
      BY <2>1 DEF Answered
    <2>4. Packet(t, i).id = i /\ Packet(t, i).type = t /\ t \in {"PUBACK", "PUBREC"}
      BY PacketTypes
    <2> HIDE DEF t
    <2>5. Open' \subseteq Open \cup {i}
      BY <2>1, <2>2, ZeroIsNone DEF Open, InHand, At
    <2>6. Numbered'
      BY <2>2, <2>3, <2>4 DEF Numbered
    <2>7. Waiting'
      BY <2>2, <2>3, <2>4, <2>5 DEF Waiting
    <2> QED
      BY <2>2, <2>6, <2>7 DEF InHandle, Subscribing, Closed, At
  <1>13. CASE TRANS_push
    <2>1. /\ UNCHANGED <<sock, inbox, process, orphans>> /\ sender # 0
          /\ trans' = trans \cup {sender} /\ sender' = 0
      BY <1>13 DEF TRANS_push, net, history
    <2>2. Open' = Open
      BY <2>1 DEF Open, InHand, At
    <2> QED
      BY <2>1, <2>2 DEF InHandle, Subscribing, Numbered, Closed, Waiting, At
  <1>14. CASE Break
    <2>1. /\ UNCHANGED <<trans, sender, process, orphans>>
          /\ sock' = "broken" /\ inbox' \subseteq inbox
      BY <1>14 DEF Break, history
    <2>2. Open' = Open
      BY <2>1 DEF Open, InHand, At
    <2> QED
      BY <2>1, <2>2 DEF InHandle, Subscribing, Numbered, Closed, Waiting, At
  <1> QED
    BY <1>1, <1>2, <1>3, <1>4, <1>5, <1>6, <1>7, <1>8, <1>9, <1>10, <1>11, <1>12, <1>13, <1>14
       DEF Next, Callbacks, Handlers, Checks, Timeout, Sending

-----------------------------------------------------------------------------
LEMMA InitIInv == Init => IInv
  <1> SUFFICES ASSUME Init PROVE IInv
    OBVIOUS
  <1>1. TypeOK
    <2>1. left \in [Budget -> Nat]
      <3>1. \A b \in Budget : left[b] \in {MaxPubs, MaxFlaps, MaxFaults}
        BY DEF Init, Budget
      <3> QED
        BY <3>1, MqttAssumption DEF Init
    <2>2. process \in Process
      BY PacketTypes DEF Init, Process, ProcessAt
    <2>3. ping \in PingType
      BY DEF Init, PingType
    <2>4. /\ xState = "uninitialized" /\ sock = "none" /\ inbox = {} /\ trans = {}
          /\ queue = << >> /\ sender = 0 /\ timer = "idle" /\ linkUp \in BOOLEAN
          /\ lost = 0 /\ late = FALSE /\ orphans = {}
      BY Zenon DEF Init
    <2>5. << >> \in Seq(QoS \cup {1}) /\ 0 \in 0 .. 3
      OBVIOUS
    <2> QED
      BY <2>1, <2>2, <2>3, <2>4, <2>5, Zenon DEF TypeOK, PingType, Sockets
  <1>2. SocketInv
    BY DEF Init, SocketInv, ConnectedHasSocket, HasSocket, Opening, LeftOver
  <1>3. PingInv
    BY DEF Init, PingInv, Armed, GivenUp, Closing, DueEarly, At
  <1>4. TransInv
    BY PacketTypes DEF Init, TransInv, InHandle, Subscribing, Numbered, Closed, Waiting, Open, InHand, At
  <1> QED
    BY <1>1, <1>2, <1>3, <1>4 DEF IInv

LEMMA NextIInv == IInv /\ [Next]_vars => IInv'
  <1> SUFFICES ASSUME IInv, [Next]_vars PROVE IInv'
    OBVIOUS
  <1>1. CASE Next
    BY <1>1, TypeStep, SocketStep, PingStep, TransStep DEF IInv, TransInv
  <1>2. CASE UNCHANGED vars
    <2>1. TypeOK' /\ SocketInv' /\ PingInv'
      BY <1>2 DEF IInv, vars, net, history, TypeOK, SocketInv, ConnectedHasSocket, HasSocket,
                  Opening, LeftOver, PingInv, Armed, GivenUp, Closing, DueEarly, At
    <2>2. TransInv'
      BY <1>2, QuietStep DEF IInv, vars, net, history
    <2> QED
      BY <2>1, <2>2 DEF IInv
  <1> QED
    BY <1>1, <1>2

(* The inductive invariant holds throughout. *)
THEOREM SessionInvariance == Spec => []IInv
  <1>1. Init => IInv
    BY InitIInv
  <1>2. IInv /\ [Next]_vars => IInv'
    BY NextIInv
  <1> QED
    BY <1>1, <1>2, PTL DEF Spec

(* Every field of the session's context has its type, ulPingTimeout stays  *)
(* within the three retries.                                               *)
THEOREM SessionTypeCorrect == Spec => []TypeOK
  <1>1. IInv => TypeOK
    BY DEF IInv
  <1> QED
    BY <1>1, SessionInvariance, PTL

(* A session that counts as connected has a socket, unless the timer       *)
(* task's FTE_MQTT_disconnect came while the process task was at work on a *)
(* packet.                                                                 *)
THEOREM ConnectedSocket == Spec => []ConnectedHasSocket
  <1>1. IInv => ConnectedHasSocket
    BY DEF IInv, SocketInv
  <1> QED
    BY <1>1, SessionInvariance, PTL

(* No transaction of a live connection waits for an answer that cannot     *)
(* come any more, unless the answer was handled, or the connection ended,  *)
(* between the send and FTE_MQTT_TRANS_push.                               *)
THEOREM TransactionsEnd == Spec => []WaitsForAnswer
  <1>1. IInv => WaitsForAnswer
    BY DEF IInv, TransInv, Waiting, Open, WaitsForAnswer
  <1> QED
    BY <1>1, SessionInvariance, PTL

(* FTE_MQTT_PING_timeout closes a session only at the third timeout since  *)
(* the last PINGRESP or CONNECT, although CB_PINGResponse mostly leaves    *)
(* ulPingTimeout as it is and the timer may expire while it is cancelled.  *)
THEOREM AliveIsNotGivenUp == Spec => NoFalseDeath
  <1>1. IInv /\ [Next]_vars => [timer' = "close" /\ timer # "close" => lost' >= 3]_vars
    <2> SUFFICES ASSUME IInv, Next, timer' = "close", timer # "close" PROVE lost' >= 3
      BY DEF vars
    <2>1. PICK k \in TimerIds : PING_timeout(k)
      <3>1. CASE Callbacks \/ Receive \/ RecvNothing
        BY <3>1
           DEF Callbacks, STATE_CB_uninitialized, STATE_CB_initialized, ConnectSent,
               ConnectFails, Connected, Subscribe, Subscribed, Loop, STATE_CB_disconnected,
               Receive, RecvPacket, RecvNothing
      <3>2. CASE Handlers \/ Checks \/ PING_timeout_close
        BY <3>2
           DEF Handlers, CONNACK, ACK, PUBREC, PINGRESP, PINGRESP_cancel, Checks, LinkLost,
               Close, NoPingDue, PingDue, PING_timeout_close
      <3>3. CASE (\E q \in QoS : FTE_MQTT_publish(q)) \/ Sending \/ Break \/ Flap \/ Elapse
        BY <3>3
           DEF FTE_MQTT_publish, Sending, Publish0, PublishSent, PublishFails, TRANS_push,
               Break, Flap, Elapse
      <3> QED
        BY <3>1, <3>2, <3>3 DEF Next, Timeout
    <2> DEFINE p == [ping EXCEPT !.armed = @ \ {k}]
    <2>2. /\ k \in ping.armed /\ p.count >= 3
          /\ lost' = IF lost < 3 THEN lost + 1 ELSE lost
      BY <2>1 DEF PING_timeout, TimeoutAfter
    <2>3. p.count = ping.count /\ ping.count \in 0 .. 3 /\ lost \in 0 .. 3
      BY DEF IInv, TypeOK
    <2>4. ping.count <= lost + 1
      BY <2>2 DEF IInv, PingInv, Armed
    <2> HIDE DEF p
    <2> QED
      BY <2>2, <2>3, <2>4
  <1> QED
    BY <1>1, SessionInvariance, PTL DEF Spec, NoFalseDeath
=============================================================================
