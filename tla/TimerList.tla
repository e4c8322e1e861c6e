----------------------------- MODULE TimerList -----------------------------
(***************************************************************************)
(* The software timers of fte_timer.c: a linked list of timer objects,     *)
(* each with its timeout relative to the one before it, over MQX one-shot  *)
(* timers that call FTE_TIMER_handler.                                     *)
(*                                                                         *)
(* One step of the clock is one MQX tick, TickUnits units of time.         *)
(* FTE_TIMER_getValue is the time since start-up, cut to 32 bits.          *)
(***************************************************************************)
EXTENDS Integers, Sequences, FiniteSets

CONSTANTS
  Timers,       \* the timer objects
  NULL,         \* the null pointer
  Values,       \* arguments of FTE_TIMER_setValue
  MinValue,     \* ulMinValue
  TicksPerSec,  \* _time_get_ticks_per_sec()
  TickUnits,    \* units of time in a tick
  Width,        \* 2^32, in units: where a FTE_UINT32 wraps
  MaxStale      \* bound: one-shots that outlive their purpose

ASSUME TimerAssumption ==
  /\ IsFiniteSet(Timers) /\ NULL \notin Timers /\ "idle" \notin Timers \cup {NULL}
  /\ {TicksPerSec, TickUnits, Width} \subseteq Nat \ {0}
  /\ MinValue \in 0 .. Width - 1 /\ Values \subseteq 0 .. Width - 1 /\ MaxStale \in Nat

VARIABLES
  q,        \* the list: head, next, ulTimestamp, bIsRunning and one-shots
  reload,   \* ulReloadValue of each timer
  clock,    \* the time since start-up, modulo Width
  cursor,   \* where FTE_TIMER_handler stands in its second loop, or "idle"
  calling   \* is the callback of that timer running?

vars == <<q, reload, clock, cursor, calling>>

Bounded(v) == IF v < MinValue THEN MinValue ELSE v
Reloads    == {Bounded(v) : v \in Values}
MaxReload  == CHOOSE m \in Reloads : \A v \in Reloads : v <= m

(* FTE_TIMER_setTimeout: the product is cut to 32 bits before the division. *)
Ticks(v) == ((TicksPerSec * v) % Width) \div (TicksPerSec * TickUnits)
MaxTicks == (Width - 1) \div (TicksPerSec * TickUnits)
MaxTotal == Cardinality(Timers) * MaxReload

(* 32-bit arithmetic. *)
Minus(a, b) == (a - b) % Width
Plus(a, b)  == (a + b) % Width

-----------------------------------------------------------------------------
(* The list from t on, as a sequence; Next pointers form no cycle. *)
Chain(l) ==
  LET from[n \in 0 .. Cardinality(Timers)] ==
        [t \in Timers \cup {NULL} |->
           IF n = 0 \/ t = NULL THEN << >> ELSE <<t>> \o from[n - 1][l.next[t]]]
  IN  from[Cardinality(Timers)][l.head]

First(S) == CHOOSE x \in S : \A y \in S : x <= y

Listed(l) == {Chain(l)[i] : i \in 1 .. Len(Chain(l))}

(* Of a timer's own one-shots the last one is shot[t], ticks to go or -1;  *)
(* stale[n] is the number of others that fire n ticks from now.  MQX       *)
(* refuses a one-shot of no ticks, and FTE_TIMER_setTimeout does not look: *)
(* refused says that it did since a timer was started on an empty list.    *)
setTimeout(l, t) ==
  LET ticks == Ticks(l.ts[t])
  IN  [l EXCEPT
         !.stale = [n \in DOMAIN @ |-> IF n = l.shot[t] THEN @[n] + 1 ELSE @[n]],
         !.shot[t] = IF ticks = 0 THEN -1 ELSE ticks,
         !.refused = @ \/ ticks = 0]

NumStale(l) ==
  LET sum[n \in -1 .. MaxTicks] == IF n = -1 THEN 0 ELSE l.stale[n] + sum[n - 1]
  IN  sum[MaxTicks]

(* Mutant: the two timeouts are subtracted the wrong way round. *)
insertNewHeadTimer_Swapped(l, t, remaining) ==
  LET old == l.head
      m   == IF old = NULL THEN l
             ELSE [l EXCEPT !.ts[old] = Minus(l.ts[t], remaining),
                            !.running = @ \ {old}]
  IN  setTimeout([m EXCEPT !.next[t] = old, !.running = @ \cup {t}, !.head = t], t)

insertNewHeadTimer(l, t, remaining) ==
  LET old == l.head
      m   == IF old = NULL THEN l
             ELSE [l EXCEPT !.ts[old] = Minus(remaining, l.ts[t]),
                            !.running = @ \ {old}]
  IN  setTimeout([m EXCEPT !.next[t] = old, !.running = @ \cup {t}, !.head = t], t)

(* The remaining time of the head and the timeouts behind it, added up. *)
Aggregated(l, remaining) ==
  LET agg[j \in 1 .. Len(Chain(l))] ==
        IF j = 1 THEN remaining ELSE Plus(agg[j - 1], l.ts[Chain(l)[j]])
  IN  agg

insertTimer(l, t, remaining) ==
  LET chain == Chain(l)
      agg == Aggregated(l, remaining)
      at  == First({j \in 1 .. Len(chain) : j = Len(chain) \/ agg[j + 1] > l.ts[t]})
      gap == Minus(l.ts[t], agg[at])
      m   == [l EXCEPT !.ts[t] = gap, !.next[chain[at]] = t, !.next[t] = l.next[chain[at]]]
  IN  IF at = Len(chain) THEN m
      ELSE [m EXCEPT !.ts[chain[at + 1]] = Minus(@, gap)]

Lesser(a, b) == IF a > b THEN b ELSE a

(* Mutant: the one-shot cancelled is that of the running head. *)
Start_CancelsHead(l, t) ==
  LET m == [l EXCEPT !.ts[t] = reload[t], !.running = @ \ {t}]
      h == l.head
      c == IF h \in m.running THEN [m EXCEPT !.shot[h] = -1] ELSE m
      remaining == IF h \in m.running
                     THEN m.ts[h] - Lesser(clock, m.ts[h])
                     ELSE m.ts[h]
  IN  IF t \in Listed(l) THEN l
      ELSE IF h = NULL THEN insertNewHeadTimer([m EXCEPT !.refused = FALSE], t, m.ts[t])
      ELSE IF m.ts[t] < remaining THEN insertNewHeadTimer(c, t, remaining)
      ELSE insertTimer(c, t, remaining)

(* FTE_TIMER_start: against a running head it cancels the one-shot of the  *)
(* timer it is starting.                                                   *)
Start(l, t) ==
  LET m == [l EXCEPT !.ts[t] = reload[t], !.running = @ \ {t}]
      h == l.head
      c == IF h \in m.running THEN [m EXCEPT !.shot[t] = -1] ELSE m
      remaining == IF h \in m.running
                     THEN m.ts[h] - Lesser(clock, m.ts[h])
                     ELSE m.ts[h]
  IN  IF t \in Listed(l) THEN l
      ELSE IF h = NULL THEN insertNewHeadTimer([m EXCEPT !.refused = FALSE], t, m.ts[t])
      ELSE IF m.ts[t] < remaining THEN insertNewHeadTimer(c, t, remaining)
      ELSE insertTimer(c, t, remaining)

(* FTE_TIMER_stop: no one-shot is cancelled. *)
Stop(l, t) ==
  LET n == l.next[t]
      isHead == l.head = t
      runs == isHead /\ t \in l.running
      remaining == IF runs THEN l.ts[t] - Lesser(clock, l.ts[t]) ELSE l.ts[t]
      m == [l EXCEPT !.head = IF isHead THEN n ELSE @,
                     !.next = [u \in Timers |-> IF ~isHead /\ u \in Listed(l) /\ @[u] = t
                                                  THEN n ELSE @[u]],
                     !.ts = [u \in Timers |-> IF u = n THEN Plus(@[u], remaining) ELSE @[u]]]
  IN  IF t \notin Listed(l) THEN l
      ELSE IF runs /\ n # NULL
             THEN setTimeout([m EXCEPT !.running = (@ \ {t}) \cup {n}], n)
             ELSE m

(* FTE_TIMER_handler takes the timers off the list that have nothing left  *)
(* to wait: the head is the first one that has.                            *)
Unexpired(l) ==
  LET waiting == {j \in 1 .. Len(Chain(l)) : l.ts[Chain(l)[j]] # 0}
  IN  IF waiting = {} THEN NULL ELSE Chain(l)[First(waiting)]

-----------------------------------------------------------------------------
TypeOK ==
  /\ q \in [head : Timers \cup {NULL}, next : [Timers -> Timers \cup {NULL}],
            ts : [Timers -> 0 .. Width - 1], running : SUBSET Timers,
            shot : [Timers -> -1 .. MaxTicks], stale : [0 .. MaxTicks -> Nat],
            refused : BOOLEAN]
  /\ reload \in [Timers -> Reloads]
  /\ clock \in 0 .. Width - 1
  /\ cursor \in Timers \cup {NULL, "idle"}
  /\ calling \in BOOLEAN

(* FTE_TIMER_init and a first FTE_TIMER_setValue of every timer are over. *)
Init ==
  /\ reload \in [Timers -> Reloads]
  /\ q = [head |-> NULL, next |-> [t \in Timers |-> NULL],
          ts |-> reload, running |-> {},
          shot |-> [t \in Timers |-> -1], stale |-> [n \in 0 .. MaxTicks |-> 0],
          refused |-> FALSE]
  /\ clock = 0
  /\ cursor = "idle"
  /\ calling = FALSE

Idle == cursor = "idle"

(* Who may call: a task, which the timer task preempts but never the other *)
(* way round, or a callback.                                               *)
MayCall == Idle \/ calling

Change(l) == NumStale(l) <= MaxStale /\ q' = l

FTE_TIMER_start(t) ==
  /\ MayCall
  /\ Change(Start(q, t))
  /\ UNCHANGED <<reload, clock, cursor, calling>>

FTE_TIMER_stop(t) ==
  /\ MayCall
  /\ Change(Stop(q, t))
  /\ UNCHANGED <<reload, clock, cursor, calling>>

FTE_TIMER_reset(t) ==
  /\ MayCall
  /\ Change(Start(Stop(q, t), t))
  /\ UNCHANGED <<reload, clock, cursor, calling>>

(* Mutant: the reload value is not raised to the minimum. *)
FTE_TIMER_setValue_NoMinimum(t, v) ==
  /\ MayCall
  /\ Change([Stop(q, t) EXCEPT !.ts[t] = Bounded(v)])
  /\ reload' = [reload EXCEPT ![t] = v]
  /\ UNCHANGED <<clock, cursor, calling>>

FTE_TIMER_setValue(t, v) ==
  /\ MayCall
  /\ Change([Stop(q, t) EXCEPT !.ts[t] = Bounded(v)])
  /\ reload' = [reload EXCEPT ![t] = Bounded(v)]
  /\ UNCHANGED <<clock, cursor, calling>>

(* External: MQX's clock; no one-shot that is due waits for a tick. *)
Tick ==
  /\ Idle
  /\ q.stale[0] = 0 /\ \A t \in Timers : q.shot[t] # 0
  /\ clock' = (clock + TickUnits) % Width
  /\ q' = [q EXCEPT !.shot = [t \in Timers |-> IF @[t] = -1 THEN -1 ELSE @[t] - 1],
                    !.stale = [n \in DOMAIN @ |-> IF n = MaxTicks THEN 0 ELSE @[n + 1]]]
  /\ UNCHANGED <<reload, cursor, calling>>

(* A one-shot, whosever it was, fires FTE_TIMER_handler. *)
Fire(l) ==
  /\ Idle
  /\ IF l.head = NULL
       THEN q' = l /\ UNCHANGED cursor
       ELSE LET h == l.head
                m == [l EXCEPT !.ts[h] = IF clock > @ THEN 0 ELSE @ - clock]
            IN  q' = [m EXCEPT !.head = Unexpired(m)] /\ cursor' = h
  /\ UNCHANGED <<reload, clock, calling>>

FireShot(t) == q.shot[t] = 0 /\ Fire([q EXCEPT !.shot[t] = -1])
FireStale   == q.stale[0] > 0 /\ Fire([q EXCEPT !.stale[0] = @ - 1])

(* The callbacks of the expired timers.  A callback may call anything, on  *)
(* any timer (LoRaMac's OnMacStateCheckTimerEvent sets and starts its own  *)
(* again); the walk then goes on where the Next pointer leads by now.      *)
CallbackBegins(t) ==
  /\ ~calling /\ cursor = t /\ q.ts[t] = 0
  /\ calling' = TRUE
  /\ UNCHANGED <<q, reload, clock, cursor>>

(* Mutant: the walk does not move on. *)
CallbackReturns_Stays ==
  /\ calling
  /\ calling' = FALSE
  /\ UNCHANGED <<q, reload, clock, cursor>>

CallbackReturns ==
  /\ calling
  /\ calling' = FALSE
  /\ cursor' = q.next[cursor]
  /\ UNCHANGED <<q, reload, clock>>

(* The walk is over; the new head is started. *)
HandlerEnds ==
  /\ ~calling
  /\ cursor = NULL \/ (cursor \in Timers /\ q.ts[cursor] # 0)
  /\ cursor' = "idle"
  /\ q' = IF q.head = NULL THEN q
            ELSE setTimeout([q EXCEPT !.running = @ \cup {q.head}], q.head)
  /\ UNCHANGED <<reload, clock, calling>>

-----------------------------------------------------------------------------
Handler == \/ \E t \in Timers : FireShot(t) \/ CallbackBegins(t)
           \/ FireStale
           \/ CallbackReturns
           \/ HandlerEnds

Next ==
  \/ \E t \in Timers : \/ FTE_TIMER_start(t)
                       \/ FTE_TIMER_stop(t)
                       \/ FTE_TIMER_reset(t)
  \/ \E t \in Timers, v \in Values : FTE_TIMER_setValue(t, v)
  \/ Tick
  \/ Handler

Spec == Init /\ [][Next]_vars

(* Time passes, one-shots fire and the handler runs to its end. *)
FairSpec == Spec /\ WF_vars(Tick) /\ WF_vars(Handler)

-----------------------------------------------------------------------------
Armed == (\E t \in Timers : q.shot[t] >= 0) \/ NumStale(q) > 0

(* A list that is not empty has a one-shot to wake it, unless MQX refused  *)
(* one: FTE_TIMER_start and FTE_TIMER_stop arm and cancel one-shots of     *)
(* other timers than the head, and still leave one.                        *)
ArmedUnlessRefused == Idle /\ q.head # NULL /\ ~q.refused => Armed

(* No relative timeout wraps, however wrong the elapsed time is that start *)
(* and stop work with: insertTimer and insertNewHeadTimer subtract only    *)
(* what is there, and what stop adds to the next timer stays below the sum *)
(* of the timers' own timeouts.  (Behind a head that was refused, stops    *)
(* may add to a timer without end.)                                        *)
NoTimestampWraps == ~q.refused => \A t \in Listed(q) : q.ts[t] <= MaxTotal

(* Once nobody starts, stops or sets timers any more, the list drains, or  *)
(* MQX refuses a one-shot: the one-shots and FTE_TIMER_handler alone bring *)
(* every timer to its expiry.                                              *)
ListDrains ==
  <>[][Tick \/ Handler]_vars => <>[](q.head = NULL \/ q.refused)

(* FTE_TIMER_handler: "start the next pTimerListHead if it exists".  A     *)
(* head with less than a tick to wait is not started: no one-shot wakes it *)
(* or the timers behind it.                                                *)
HeadIsStarted == Idle /\ q.head \in q.running => Armed
=============================================================================
