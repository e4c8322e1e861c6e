---------------------------- MODULE MqttSession ----------------------------
(***************************************************************************)
(* The MQTT client's session (fte_mqtt.c).  Four actors share its context: *)
(* the process task, which connects, subscribes and receives; the sender   *)
(* task, which publishes what others have queued; the timer task, which    *)
(* runs FTE_MQTT_PING_timeout and preempts the others; and those who       *)
(* publish.  Nothing protects xState, the socket and the ping fields.      *)
(*                                                                         *)
(* A step ends where a task can lose the processor: at a send, at a delay, *)
(* or between a read and a write that the timer task may come between.     *)
(***************************************************************************)
EXTENDS Naturals, Sequences

CONSTANTS
  Ids,        \* bound: message identifiers in use at a time
  QoS,        \* the qualities of service that are published with
  TimerIds,   \* bound: MQX timers in use at a time
  MaxQueue,   \* messages the heap has room for
  MaxPubs,    \* bound: messages published
  MaxFlaps,   \* bound: times the link changes
  MaxFaults   \* bound: broken connections, failing calls, lack of memory

ASSUME MqttAssumption ==
  /\ Ids \subseteq Nat \ {0}
  /\ TimerIds \subseteq Nat \ {0}
  /\ QoS \subseteq {0, 1, 2}
  /\ {MaxQueue, MaxPubs, MaxFlaps, MaxFaults} \subseteq Nat

VARIABLES
  xState,   \* FTE_MQTT_STATE
  sock,     \* nSocketID: "none" is 0
  inbox,    \* packets of the broker that are on their way
  ping,     \* count: ulPingTimeout, timer: xPingTimer, armed: MQX timers,
            \* due: ulKeepalive - 5 seconds have passed since xTime
  trans,    \* xTransList: identifiers that wait for an acknowledgement
  queue,    \* xSendMsgPool
  process,  \* the process task
  sender,   \* the sender task
  timer,    \* the timer task
  linkUp,   \* FTE_STATE_CONNECTED
  left,     \* what remains of the bounds
  (* History, read by no action's guard: *)
  lost,     \* timeouts since the last PINGRESP or CONNECT
  late,     \* the timer task closed the socket under the process task
  orphans   \* identifiers whose acknowledgement, or whose connection's end,
            \* came before FTE_MQTT_TRANS_push

history == <<lost, late, orphans>>
net  == <<sock, inbox>>
vars == <<xState, net, ping, trans, queue, process, sender, timer, linkUp, left, history>>

Sockets == {"none", "invalid", "new", "live", "broken"}
Packets == [type : {"CONNACK", "REFUSED", "SUBACK", "PUBACK", "PUBREC", "PUBCOMP", "PINGRESP"},
            id : Ids \cup {0}]
Packet(type, id) == [type |-> type, id |-> id]
NoPacket == Packet("REFUSED", 0)
Budget == {"publish", "flap", "fault"}

(* at: where the task stands; what: the packet being handled; id: the      *)
(* message identifier, or the timer's, that the task has in hand.          *)
ProcessAt == {"delay", "connect", "greet", "subscribed", "loop", "recv",
              "handle", "cancel", "check", "close"}
Process == [at : ProcessAt, what : Packets, id : Ids \cup TimerIds \cup {0}]

TypeOK ==
  /\ xState \in {"uninitialized", "initialized", "connected", "disconnected"}
  /\ sock \in Sockets
  /\ inbox \subseteq Packets
  /\ ping \in [count : 0 .. 3, timer : TimerIds \cup {0}, armed : SUBSET TimerIds,
              due : BOOLEAN]
  /\ trans \subseteq Ids
  /\ queue \in Seq(QoS \cup {1})
  /\ process \in Process
  /\ sender \in Ids \cup {0}
  /\ timer \in {"idle", "close"}
  /\ linkUp \in BOOLEAN
  /\ left \in [Budget -> Nat]
  /\ lost \in 0 .. 3
  /\ late \in BOOLEAN
  /\ orphans \subseteq Ids

Init ==
  /\ xState = "uninitialized"
  /\ sock = "none"
  /\ inbox = {}
  /\ ping = [count |-> 0, timer |-> 0, armed |-> {}, due |-> TRUE]
  /\ trans = {}
  /\ queue = << >>
  /\ process = [at |-> "delay", what |-> NoPacket, id |-> 0]
  /\ sender = 0
  /\ timer = "idle"
  /\ linkUp \in BOOLEAN
  /\ left = [b \in Budget |-> CASE b = "publish" -> MaxPubs
                                [] b = "flap"    -> MaxFlaps
                                [] b = "fault"   -> MaxFaults]
  /\ lost = 0
  /\ late = FALSE
  /\ orphans = {}

Spend(b) == left[b] > 0 /\ left' = [left EXCEPT ![b] = @ - 1]

At(a) == process.at = a
Goto(a) == process' = [at |-> a, what |-> NoPacket, id |-> 0]

-----------------------------------------------------------------------------
(* External: what a send comes to.  A live connection takes it and the     *)
(* broker's answer is on its way; a broken one may still take it; without  *)
(* a connection it fails.  libemqtt turns a failure into -1, never into 0. *)
SendSucceeds == sock \in {"live", "broken"}
SendFails    == sock # "live"
Answered(pkts) == inbox' = IF sock = "live" THEN inbox \cup pkts ELSE inbox

(* External: the broker or the path to it fails. *)
Break ==
  /\ sock = "live"
  /\ Spend("fault")
  /\ sock' = "broken"
  /\ inbox' \in SUBSET inbox
  /\ UNCHANGED <<xState, ping, trans, queue, process, sender, timer, linkUp, history>>

(* External: FTE_NET_bind and FTE_NET_unbind report the link's state. *)
Flap ==
  /\ Spend("flap")
  /\ linkUp' = ~linkUp
  /\ UNCHANGED <<xState, net, ping, trans, queue, process, sender, timer, history>>

(* External: so much time passes.  It is longer than a ping's timers take  *)
(* (1 + 2 + 3 seconds: ulKeepalive > 11; it is 60 or 180 by default), and  *)
(* than the process task is away from its waiting.                         *)
Elapse ==
  /\ ~ping.due
  /\ ping.armed = {} /\ timer = "idle"
  /\ At("delay") \/ (At("recv") /\ xState = "connected")
  /\ ping' = [ping EXCEPT !.due = TRUE]
  /\ UNCHANGED <<xState, net, trans, queue, process, sender, timer, linkUp, left, history>>

UsedIds == trans \cup {pkt.id : pkt \in inbox} \cup {sender, process.id, process.what.id}
FreshId(i) == i = CHOOSE j \in Ids : j \notin UsedIds
HaveId == Ids \ UsedIds # {}

UsedTimers == ping.armed \cup {ping.timer} \cup (IF At("cancel") THEN {process.id} ELSE {})
FreshTimer == CHOOSE k \in TimerIds : k \notin UsedTimers
HaveTimer == TimerIds \ UsedTimers # {}

-----------------------------------------------------------------------------
(* FTE_MQTT_disconnect, up to mqtt_disconnect's send and from there on. *)
CancelPing(p) ==
  IF p.timer = 0 THEN p
  ELSE [p EXCEPT !.count = 0,
                 !.timer = IF @ \in p.armed THEN 0 ELSE @,
                 !.armed = @ \ {p.timer}]

(* Identifiers that have been sent and not yet pushed. *)
InHand == {sender, IF At("subscribed") THEN process.id ELSE 0} \ {0}

(* Mutant: the session goes on without a socket. *)
Disconnected_KeepsState ==
  /\ sock' = "none"
  /\ inbox' = {}
  /\ trans' = {}
  /\ orphans' = InHand
  /\ UNCHANGED xState

(* Transactions of the closed connection stay in xTransList for good; no   *)
(* packet names them again, identifiers counting up, and they are left out *)
(* here.                                                                   *)
Disconnected ==
  /\ sock' = "none"
  /\ inbox' = {}
  /\ trans' = {}
  /\ orphans' = InHand
  /\ xState' = "disconnected"

(* Mutant: every PINGREQ is counted as the first. *)
PingSent_CountsOnce(p) ==
  /\ HaveTimer
  /\ ping' = [p EXCEPT !.count = 1, !.timer = FreshTimer, !.armed = @ \cup {FreshTimer}]
  /\ Answered({Packet("PINGRESP", 0)})
  /\ UNCHANGED left

(* FTE_MQTT_PING_send: the next timeout is counted and armed, then the     *)
(* PINGREQ is sent; without a timer it is not.                             *)
PingSent(p) ==
  /\ HaveTimer
  /\ ping' = [p EXCEPT !.count = @ + 1, !.timer = FreshTimer, !.armed = @ \cup {FreshTimer}]
  /\ Answered({Packet("PINGRESP", 0)})
  /\ UNCHANGED left

PingNotSent(p) ==
  /\ Spend("fault")
  /\ ping' = [p EXCEPT !.count = @ + 1, !.timer = 0]
  /\ UNCHANGED inbox

-----------------------------------------------------------------------------
(***************************************************************************)
(* The process task: the state's callback, once a second.                  *)
(***************************************************************************)
STATE_CB_uninitialized ==
  /\ At("delay") /\ xState = "uninitialized"
  /\ xState' = "initialized"
  /\ UNCHANGED <<net, ping, trans, queue, process, sender, timer, linkUp, left, history>>

(* FTE_MQTT_connect: a socket that is still there is forgotten. *)
STATE_CB_initialized ==
  /\ At("delay") /\ xState = "initialized" /\ linkUp
  /\ xState' = IF sock # "none" THEN "uninitialized" ELSE xState
  /\ \/ /\ sock' = "new"
        /\ Goto("connect")
        /\ UNCHANGED left
     \/ /\ sock' = "invalid"   \* RTCS_SOCKET_ERROR stays in nSocketID
        /\ Spend("fault")
        /\ UNCHANGED process
  /\ inbox' = {}
  /\ UNCHANGED <<ping, trans, queue, sender, timer, linkUp, history>>

(* connect and SSL succeed, CONNECT is sent. *)
ConnectSent ==
  /\ At("connect") /\ sock = "new"
  /\ sock' = "live"
  /\ inbox' \in {{Packet("CONNACK", 0)}, {Packet("REFUSED", 0)}}
  /\ Goto("greet")
  /\ UNCHANGED <<xState, ping, trans, queue, sender, timer, linkUp, left, history>>

(* The "error" exit. *)
ConnectFails ==
  /\ At("connect")
  /\ IF sock = "new" THEN Spend("fault") ELSE UNCHANGED left
  /\ sock' = "none"
  /\ inbox' = {}
  /\ Goto("delay")
  /\ UNCHANGED <<xState, ping, trans, queue, sender, timer, linkUp, history>>

Connected ==
  /\ At("greet")
  /\ ping' = [ping EXCEPT !.count = 0, !.timer = 0]
  /\ xState' = "connected"
  /\ lost' = 0
  /\ Goto("delay")
  /\ UNCHANGED <<net, trans, queue, sender, timer, linkUp, left, late, orphans>>

(* FTE_MQTT_publish: what the heap has no room for is dropped in silence.  *)
Queued(q) == queue' = IF xState = "connected" /\ Len(queue) < MaxQueue
                        THEN Append(queue, q) ELSE queue

(* STATE_CB_connected: FTE_MQTT_subscribe, whose transaction is lost if    *)
(* the send fails, ...                                                     *)
Subscribe ==
  /\ At("delay") /\ xState = "connected"
  /\ \/ /\ SendSucceeds
        /\ \E i \in Ids \ UsedIds :
             /\ FreshId(i)
             /\ process' = [process EXCEPT !.at = "subscribed", !.id = i]
             /\ Answered({Packet("SUBACK", i)})
        /\ UNCHANGED <<queue, left>>
     \/ /\ SendFails
        /\ Queued(1)
        /\ Goto("loop")
        /\ UNCHANGED <<inbox, left>>
     \/ /\ Spend("fault")      \* FTE_MQTT_TRANS_create finds no memory
        /\ Queued(1)
        /\ Goto("loop")
        /\ UNCHANGED inbox
  /\ UNCHANGED <<xState, sock, ping, trans, sender, timer, linkUp, history>>

(* ... FTE_MQTT_TRANS_push and the note. *)
Subscribed ==
  /\ At("subscribed")
  /\ trans' = trans \cup {process.id}
  /\ Queued(1)
  /\ Goto("loop")
  /\ UNCHANGED <<xState, net, ping, sender, timer, linkUp, left, history>>

Loop ==
  /\ At("loop")
  /\ IF xState = "connected" THEN Goto("recv") ELSE Goto("delay")
  /\ UNCHANGED <<xState, net, ping, trans, queue, sender, timer, linkUp, left, history>>

STATE_CB_disconnected ==
  /\ At("delay") /\ xState = "disconnected"
  /\ xState' = "uninitialized"
  /\ late' = FALSE
  /\ UNCHANGED <<net, ping, trans, queue, process, sender, timer, linkUp, left, lost, orphans>>

-----------------------------------------------------------------------------
RecvPacket(pkt) ==
  /\ At("recv") /\ pkt \in inbox
  /\ inbox' = inbox \ {pkt}
  /\ process' = [process EXCEPT !.at = "handle", !.what = pkt]
  /\ UNCHANGED <<xState, sock, ping, trans, queue, sender, timer, linkUp, left, history>>

RecvNothing ==
  /\ At("recv")
  /\ Goto("check")
  /\ UNCHANGED <<xState, net, ping, trans, queue, sender, timer, linkUp, left, history>>

Handling(types) == At("handle") /\ process.what.type \in types

CONNACK ==
  /\ Handling({"CONNACK", "REFUSED"})
  /\ xState' = IF process.what.type = "CONNACK" THEN "connected" ELSE xState
  /\ Goto("check")
  /\ UNCHANGED <<net, ping, trans, queue, sender, timer, linkUp, left, history>>

(* publishACK, publishCompleted and subscribeACK, which also sets xState. *)
ACK ==
  /\ Handling({"PUBACK", "PUBCOMP", "SUBACK"})
  /\ trans' = trans \ {process.what.id}
  /\ xState' = IF process.what.type = "SUBACK" /\ process.what.id \in trans
                 THEN "connected" ELSE xState
  /\ orphans' = orphans \cup ({process.what.id} \cap InHand)
  /\ Goto("check")
  /\ UNCHANGED <<net, ping, queue, sender, timer, linkUp, left, lost, late>>

(* Mutant: no PUBREL is sent. *)
PUBREC_NoRelease ==
  /\ Handling({"PUBREC"})
  /\ orphans' = orphans \cup ({process.what.id} \cap InHand)
  /\ Goto("check")
  /\ UNCHANGED <<xState, net, ping, trans, queue, sender, timer, linkUp, left, lost, late>>

(* publishReceived: PUBREL for a known identifier only. *)
PUBREC ==
  /\ Handling({"PUBREC"})
  /\ Answered({Packet("PUBCOMP", i) : i \in {process.what.id} \cap trans})
  /\ orphans' = orphans \cup ({process.what.id} \cap InHand)
  /\ Goto("check")
  /\ UNCHANGED <<xState, sock, ping, trans, queue, sender, timer, linkUp, left, lost, late>>

(* PINGResponse: FTE_TIMER_cancel reads xPingTimer ... *)
PINGRESP ==
  /\ Handling({"PINGRESP"})
  /\ process' = [process EXCEPT !.at = "cancel", !.what = NoPacket, !.id = ping.timer]
  /\ UNCHANGED <<xState, net, ping, trans, queue, sender, timer, linkUp, left, history>>

(* ... and cancels it; ulPingTimeout is reset only if that fails. *)
PINGRESP_cancel ==
  /\ At("cancel")
  /\ ping' = IF process.id = 0 THEN ping
             ELSE IF process.id \in ping.armed
               THEN [ping EXCEPT !.timer = 0, !.armed = @ \ {process.id}]
               ELSE [ping EXCEPT !.count = 0]
  /\ lost' = 0
  /\ Goto("check")
  /\ UNCHANGED <<xState, net, trans, queue, sender, timer, linkUp, left, late, orphans>>

(* After each packet: the link, then the keepalive. *)
LinkLost ==
  /\ At("check") /\ ~linkUp
  /\ ping' = CancelPing(ping)
  /\ Goto("close")
  /\ UNCHANGED <<xState, net, trans, queue, sender, timer, linkUp, left, history>>

Close ==
  /\ At("close")
  /\ Disconnected
  /\ Goto("delay")
  /\ UNCHANGED <<ping, queue, sender, timer, linkUp, left, lost, late>>

(* No ping is out and the keepalive time has passed: xTime is set to now. *)
Due == ping.count = 0 /\ ping.due

PingDue ==
  /\ At("check") /\ linkUp
  /\ Due
  /\ LET p == [ping EXCEPT !.due = FALSE] IN PingSent(p) \/ PingNotSent(p)
  /\ Goto("loop")
  /\ UNCHANGED <<xState, sock, trans, queue, sender, timer, linkUp, history>>

NoPingDue ==
  /\ At("check") /\ linkUp
  /\ ~Due
  /\ Goto("loop")
  /\ UNCHANGED <<xState, net, ping, trans, queue, sender, timer, linkUp, left, history>>

-----------------------------------------------------------------------------
(* The timer task: FTE_MQTT_PING_timeout, and the rest of its disconnect.  *)
TimeoutAfter(k, retries) ==
  /\ timer = "idle" /\ k \in ping.armed
  /\ LET p == [ping EXCEPT !.armed = @ \ {k}] IN
       \/ /\ p.count < retries
          /\ PingSent(p) \/ PingNotSent(p)
          /\ UNCHANGED timer
       \/ /\ p.count >= retries
          /\ ping' = [p EXCEPT !.timer = 0]
          /\ timer' = "close"
          /\ UNCHANGED <<inbox, left>>
  /\ lost' = IF lost < 3 THEN lost + 1 ELSE lost
  /\ UNCHANGED <<xState, sock, trans, queue, process, sender, linkUp, late, orphans>>

(* Mutants: one PINGREQ too few, one too many. *)
PING_timeout_Early(k) == TimeoutAfter(k, 2)
PING_timeout_Late(k)  == TimeoutAfter(k, 4)

PING_timeout(k) == TimeoutAfter(k, 3)

PING_timeout_close ==
  /\ timer = "close"
  /\ Disconnected
  /\ timer' = "idle"
  /\ late' = (late \/ process.at \notin {"delay", "loop"})
  /\ UNCHANGED <<ping, queue, process, sender, linkUp, left, lost>>

-----------------------------------------------------------------------------
(* FTE_MQTT_publish by the event task and others. *)
FTE_MQTT_publish(q) ==
  /\ Spend("publish")
  /\ Queued(q)
  /\ UNCHANGED <<xState, net, ping, trans, process, sender, timer, linkUp, history>>

(* The sender task: FTE_MQTT_INTERNAL_publish. *)
Dequeued == sender = 0 /\ linkUp /\ queue # << >> /\ queue' = Tail(queue)

Publish0 ==
  /\ Dequeued /\ Head(queue) = 0
  /\ SendSucceeds \/ SendFails
  /\ UNCHANGED <<xState, net, ping, trans, process, sender, timer, linkUp, left, history>>

PublishSent ==
  /\ Dequeued /\ Head(queue) # 0
  /\ SendSucceeds
  /\ \E i \in Ids \ UsedIds :
       /\ FreshId(i)
       /\ sender' = i
       /\ Answered({Packet(IF Head(queue) = 1 THEN "PUBACK" ELSE "PUBREC", i)})
  /\ UNCHANGED <<xState, sock, ping, trans, process, timer, linkUp, left, history>>

(* The transaction is given back, or there was none to be had. *)
PublishFails ==
  /\ Dequeued /\ Head(queue) # 0
  /\ \/ SendFails /\ UNCHANGED left
     \/ Spend("fault")
  /\ UNCHANGED <<xState, net, ping, trans, process, sender, timer, linkUp, history>>

TRANS_push ==
  /\ sender # 0
  /\ trans' = trans \cup {sender}
  /\ sender' = 0
  /\ UNCHANGED <<xState, net, ping, queue, process, timer, linkUp, left, history>>

-----------------------------------------------------------------------------
Callbacks == \/ STATE_CB_uninitialized \/ STATE_CB_initialized
             \/ ConnectSent \/ ConnectFails \/ Connected
             \/ Subscribe \/ Subscribed \/ Loop \/ STATE_CB_disconnected
Handlers  == CONNACK \/ ACK \/ PUBREC \/ PINGRESP \/ PINGRESP_cancel
Checks    == LinkLost \/ Close \/ NoPingDue \/ PingDue
Timeout   == (\E k \in TimerIds : PING_timeout(k)) \/ PING_timeout_close
Sending   == Publish0 \/ PublishSent \/ PublishFails \/ TRANS_push
Receive   == \E pkt \in inbox : RecvPacket(pkt)

Next ==
  \/ Callbacks
  \/ Receive
  \/ RecvNothing
  \/ Handlers
  \/ Checks
  \/ Timeout
  \/ \E q \in QoS : FTE_MQTT_publish(q)
  \/ Sending
  \/ Break
  \/ Flap
  \/ Elapse

Spec == Init /\ [][Next]_vars

(* Every task gets the processor, timers expire, the time for a ping comes *)
(* and what the network carries arrives.                                   *)
Fairness ==
  /\ WF_vars(Callbacks \/ RecvNothing \/ Handlers \/ Checks)
  /\ WF_vars(Timeout)
  /\ WF_vars(Sending)
  /\ SF_vars(Elapse)
  /\ SF_vars(Receive)

FairSpec == Spec /\ Fairness

-----------------------------------------------------------------------------
(* A session that counts as connected has a socket: FTE_MQTT_publish       *)
(* accepts messages and STATE_CB_connected receives on that ground.  The   *)
(* one exception is what no lock prevents: the timer task disconnects      *)
(* while the process task handles a packet, and CONNACK or SUBACK set the  *)
(* state back to connected.                                                *)
ConnectedHasSocket == xState = "connected" /\ ~late => sock # "none"

(* FTE_MQTT_PING_timeout gives a session up only after three timeouts with *)
(* no PINGRESP between them, whatever the order in which answers, timers   *)
(* and reconnections come.                                                 *)
NoFalseDeath == [][timer' = "close" /\ timer # "close" => lost' >= 3]_vars

(* A PINGRESP is on its way or in hand. *)
AnswerComes == \/ Packet("PINGRESP", 0) \in inbox
               \/ process.what.type = "PINGRESP"
               \/ At("cancel")

(* A broker that is gone is noticed by the keepalive, although every error *)
(* of send and recv is ignored: the session ends.  That holds as long as   *)
(* no PINGREQ is out or answered (ulPingTimeout = 0): CB_PINGResponse      *)
(* leaves the count as it is when it cancels the timer, and a count other  *)
(* than 0 stops the pings for the rest of the session.                     *)
BreakNoticed ==
  sock = "broken" /\ xState = "connected" /\ ping.count = 0 /\ ~AnswerComes
    ~> xState # "connected"

(* A transaction of the live connection can end: the packet that moves it  *)
(* on (PUBACK, PUBREC, PUBCOMP, SUBACK) is on its way or in hand.  Only a  *)
(* packet handled between the send and FTE_MQTT_TRANS_push leaves its      *)
(* transaction in xTransList for good: nothing times it out.               *)
WaitsForAnswer ==
  sock = "live" =>
    \A i \in trans \ orphans : \E pkt \in inbox \cup {process.what} : pkt.id = i
=============================================================================
