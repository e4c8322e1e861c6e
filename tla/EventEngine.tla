---------------------------- MODULE EventEngine ----------------------------
(***************************************************************************)
(* From a measured value to a report: obj/fte_event.c with the object     *)
(* management task (task/fte_task_object_management.c) and the conversion  *)
(* callbacks of the objects, obj/fte_ifce.c for all of them.               *)
(*                                                                         *)
(* Three actors share the objects and events without a lock.  Callbacks of *)
(* MQX's timer task store a value and set the object's CHANGED flag; they  *)
(* preempt the others at any point.  The object manager checks the events  *)
(* of the objects whose flag is set.  The event task reports the events    *)
(* that changed, to the log, as SNMP traps and by MQTT.  These two tasks   *)
(* have the same priority and no time slice: one takes over only when the  *)
(* other waits, which the event task does in the middle of its reports,    *)
(* for the locks of the log and of the queues.  A time unit is the event   *)
(* task's 100 ms; ages count from a time stamp to now, up to MaxAge.       *)
(***************************************************************************)
EXTENDS Integers, FiniteSets

CONSTANTS
  Unset,               \* a time stamp of zero seconds
  NumObjs, NumEvents,  \* objects and events, in the order of their lists
  Values,              \* what a conversion can deliver
  Configs,             \* the event configurations the flash may hold
  Word,                \* stands for 2^32, the word of values and limits
  Width,               \* stands for 2^32, the word of the event task's times
  Period,              \* the event task's 100 ms
  MaxAge,              \* cap of the ages
  MaxLate,             \* how long a ready task waits and works at most
  Jump, MaxSets        \* steps of the wall clock: their size and number

Objs   == 1 .. NumObjs
Events == 1 .. NumEvents

Conditions == {"ABOVE", "BELOW", "INSIDE", "OUTSIDE", "CHANGED", "INTERVAL"}

(* An event's record: xCondition, the limits (a limit is lower = upper),   *)
(* ulThreshold, ulHoldTime, ulInterval, and the objects it is attached to: *)
(* one endpoint, or every object of a class.                               *)
EventConfig == [cond : Conditions, lower : Int, upper : Int, thr : Nat,
                hold : Nat, interval : Nat, of : SUBSET Objs]

ASSUME SizeAssumption ==
  /\ NumObjs \in Nat \ {0} /\ NumEvents \in Nat \ {0}
  /\ Values \subseteq Int /\ Unset \notin Int
  /\ Configs \subseteq [Events -> EventConfig]
ASSUME TimeAssumption ==
  /\ Word \in Nat \ {0} /\ Period \in Nat \ {0}
  /\ Width \in Nat /\ MaxAge \in Nat /\ MaxLate \in Nat
  /\ Jump \in Nat /\ MaxSets \in Nat
  /\ Width > 2 * (Period + MaxLate + Jump)
(* The cap leaves the ages that are compared with these times apart.       *)
ASSUME CapAssumption ==
  \A c \in Configs : \A e \in Events : c[e].hold < MaxAge /\ c[e].interval <= MaxAge

VARIABLES
  conf,   \* the configuration of this node
  obj,    \* the objects: value, bChanged of the value, its age, CHANGED flag
  ev,     \* the events: bOccurred, bChanged, age of xTimeStamp
  om,     \* the object manager
  et,     \* the event task
  sets,   \* steps of the wall clock so far
  hist    \* history: see Init

vars == <<conf, obj, ev, om, et, sets, hist>>

-----------------------------------------------------------------------------
(* The comparisons of FTE_EVENT_check.  The thresholds are unsigned, so    *)
(* that C computes and compares in unsigned words whenever one is used.    *)
U(x) == x % Word

Raise(c, v) ==
  CASE c.cond = "ABOVE"   -> c.upper <= v
    [] c.cond = "BELOW"   -> c.lower >= v
    [] c.cond = "INSIDE"  -> c.upper >= v /\ c.lower <= v
    [] c.cond = "OUTSIDE" -> c.upper <= v \/ c.lower >= v

(* Mutant: the threshold widens the range of an ABOVE event. *)
Release_Inward(c, v) ==
  CASE c.cond = "ABOVE"   -> U(v) < U(c.upper + c.thr)
    [] c.cond = "BELOW"   -> U(c.lower + c.thr) < U(v)
    [] c.cond = "INSIDE"  -> U(c.upper + c.thr) < U(v) \/ U(c.lower - c.thr) > U(v)
    [] c.cond = "OUTSIDE" -> U(c.upper - c.thr) > U(v) /\ U(c.lower + c.thr) < U(v)

Release(c, v) ==
  CASE c.cond = "ABOVE"   -> U(v) < U(c.upper - c.thr)
    [] c.cond = "BELOW"   -> U(c.lower + c.thr) < U(v)
    [] c.cond = "INSIDE"  -> U(c.upper + c.thr) < U(v) \/ U(c.lower - c.thr) > U(v)
    [] c.cond = "OUTSIDE" -> U(c.upper - c.thr) > U(v) /\ U(c.lower + c.thr) < U(v)

(* FTE_TIME_diffMilliseconds turns the operands round when they overflow. *)
Elapsed(a) == IF a < 0 THEN -a ELSE a

(* Whether the check of event e toggles it: v the copy of the value, c the *)
(* value's own bChanged at the time it is looked at.                       *)
Holding(e) == ev[e].occ /\ ev[e].age # Unset /\ Elapsed(ev[e].age) <= conf[e].hold

Toggles(e, v, c) ==
  /\ ~Holding(e)
  /\ IF conf[e].cond = "CHANGED" THEN c
       ELSE IF ev[e].occ THEN Release(conf[e], v) ELSE Raise(conf[e], v)

Watched(o) == {e \in Events : o \in conf[e].of /\ conf[e].cond # "INTERVAL"}

-----------------------------------------------------------------------------
(* om.seen and hist are history.  hist.missed: the last look of the event  *)
(* at the object was followed by a new value before the flag was cleared,  *)
(* or ended at the hold time, or there was none yet.  hist.sent: bOccurred *)
(* in the last report.  hist.dropped: the event toggled after its report   *)
(* and before the reset of its bChanged.  hist.overrun: a round of the     *)
(* event task, with its wait for the processor, took longer than Period.   *)
Init ==
  /\ conf \in Configs
  /\ obj = [o \in Objs |-> [val |-> 0, new |-> FALSE, age |-> 0, chg |-> FALSE]]
  /\ ev  = [e \in Events |-> [occ |-> FALSE, chg |-> FALSE, age |-> Unset]]
  /\ om  = [at |-> "idle", o |-> 1, left |-> {}, read |-> 0, seen |-> {}]
  /\ et  = [at |-> "idle", e |-> 1, left |-> {}, slack |-> 0, sleep |-> 0, late |-> 0,
            stalled |-> FALSE]
  /\ sets = 0
  /\ hist = [missed  |-> [o \in Objs |-> Events],
             sent    |-> [e \in Events |-> FALSE],
             dropped |-> {},
             overrun |-> FALSE]

First(S) == CHOOSE x \in S : \A y \in S : x <= y

(* Mutant: only a rising value sets the flag. *)
Convert_RisingOnly(o, v) ==
  /\ obj' = [obj EXCEPT ![o] = [val |-> v, new |-> v # @.val, age |-> 0,
                                chg |-> @.chg \/ v > @.val]]
  /\ hist' = IF v # obj[o].val /\ om.o = o
               THEN [hist EXCEPT !.missed[o] = @ \cup om.seen] ELSE hist
  /\ UNCHANGED <<conf, ev, om, et, sets>>

(* FTE_IFCE_restartConvert in the timer task: the value, then the flag     *)
(* unless the value is the old one.  It preempts the tasks as a whole.     *)
Convert(o, v) ==
  /\ obj' = [obj EXCEPT ![o] = [val |-> v, new |-> v # @.val, age |-> 0,
                                chg |-> @.chg \/ v # @.val]]
  /\ hist' = IF v # obj[o].val /\ om.o = o
               THEN [hist EXCEPT !.missed[o] = @ \cup om.seen] ELSE hist
  /\ UNCHANGED <<conf, ev, om, et, sets>>

-----------------------------------------------------------------------------
(* The object management task.  It comes round every 200 ms, or later: its *)
(* loop, unlike the event task's, steps to a time that lies ahead.         *)
ManagerWakes ==
  /\ om.at = "idle" /\ et.at # "proc"
  /\ om' = [om EXCEPT !.at = "test"]
  /\ UNCHANGED <<conf, obj, ev, et, sets, hist>>

(* An object whose flag is not set is passed over. *)
TestObject ==
  /\ om.at = "test"
  /\ om' = IF obj[om.o].chg THEN [om EXCEPT !.at = "check", !.left = Watched(om.o)]
             ELSE IF om.o = NumObjs THEN [om EXCEPT !.at = "idle", !.o = 1]
             ELSE [om EXCEPT !.o = @ + 1]
  /\ UNCHANGED <<conf, obj, ev, et, sets, hist>>

(* FTE_EVENT_check of the next event of the list copies the value ...      *)
CheckRead ==
  /\ om.at = "check" /\ om.left # {}
  /\ om' = [om EXCEPT !.at = "decide", !.read = obj[om.o].val,
                      !.seen = @ \cup {First(om.left)}]
  /\ hist' = [hist EXCEPT !.missed[om.o] = @ \ {First(om.left)}]
  /\ UNCHANGED <<conf, obj, ev, et, sets>>

(* Mutant: only an event that occurs is marked. *)
Toggled_RaiseOnly(e, a) == [occ |-> ~ev[e].occ, chg |-> ev[e].chg \/ ~ev[e].occ, age |-> a]

Toggled(e, a) == [occ |-> ~ev[e].occ, chg |-> TRUE, age |-> a]

(* ... and decides by the copy, but takes the time stamp, and for CHANGED  *)
(* events the value's bChanged, from the value itself.                     *)
CheckDecide ==
  /\ om.at = "decide"
  /\ LET e == First(om.left)
         o == om.o
         t == Toggles(e, om.read, obj[o].new)
     IN  /\ ev' = IF t THEN [ev EXCEPT ![e] = Toggled(e, obj[o].age)] ELSE ev
         /\ obj' = IF t /\ conf[e].cond = "CHANGED" THEN [obj EXCEPT ![o].new = FALSE] ELSE obj
         /\ hist' = [hist EXCEPT
                      !.missed[o] = IF Holding(e) THEN @ \cup {e} ELSE @,
                      !.dropped   = IF t /\ et.e = e /\ et.at = "reset" THEN @ \cup {e} ELSE @]
         /\ om' = [om EXCEPT !.at = "check", !.read = 0, !.left = @ \ {e}]
  /\ UNCHANGED <<conf, et, sets>>

(* All events have been checked: the flag is cleared, whatever has come in *)
(* meanwhile.                                                              *)
ClearFlag ==
  /\ om.at = "check" /\ om.left = {}
  /\ obj' = [obj EXCEPT ![om.o].chg = FALSE]
  /\ om' = IF om.o = NumObjs THEN [om EXCEPT !.at = "idle", !.o = 1, !.seen = {}]
             ELSE [om EXCEPT !.at = "test", !.o = @ + 1, !.seen = {}]
  /\ UNCHANGED <<conf, ev, et, sets, hist>>

-----------------------------------------------------------------------------
(* The event task. *)
EventTaskWakes ==
  /\ om.at = "idle" /\ et.at = "idle" /\ et.sleep = 0 /\ ~et.stalled
  /\ et' = [et EXCEPT !.at = "proc", !.e = 1]
  /\ UNCHANGED <<conf, obj, ev, om, sets, hist>>

(* FTE_EVENT_proc for an interval event: its time stamp is the next time   *)
(* of a report, which is over when its age is above 0; it is put off to    *)
(* ulInterval after the last time stamp of any other event of the same     *)
(* endpoint.  FTE_EVENT_proc compares with the time its round began, at    *)
(* most MaxLate ago, in whole seconds; here that is now.                   *)
Others(e) == {f \in Events : conf[f].cond # "INTERVAL" /\ conf[f].of = conf[e].of}

(* Mutant: an event that never occurred puts the report off as well. *)
PutOff_FromNow(e) ==
  LET ages == {ev[e].age} \cup {(IF ev[f].age = Unset THEN 0 ELSE ev[f].age) - conf[e].interval :
                                  f \in Others(e)}
  IN  First(ages)

PutOff(e) ==
  LET ages == {ev[e].age} \cup {ev[f].age - conf[e].interval :
                                  f \in {g \in Others(e) : ev[g].age # Unset}}
  IN  First(ages)

IntervalEvent(e) ==
  LET i == conf[e].interval
  IN  IF ev[e].age = Unset THEN [ev[e] EXCEPT !.age = -i]
        ELSE IF ev[e].age <= 0 THEN ev[e]
        ELSE IF PutOff(e) <= 0 THEN [ev[e] EXCEPT !.age = PutOff(e)]
        ELSE [ev[e] EXCEPT !.chg = TRUE, !.age = PutOff(e) - i]

(* Mutant: ulNextTime is not moved on. *)
Delay_NotMoved == et.slack

(* Where the task goes after event e.  After the last one it sleeps for    *)
(* the unsigned difference of ulNextTime and the wall clock; what exceeds  *)
(* the period is days, and the task is not waited for.                     *)
Delay == (et.slack + Period) % Width

(* Mutant: one event too many. *)
EtAfter_OneMore(e) ==
  IF e <= NumEvents THEN [et EXCEPT !.at = "proc", !.e = e + 1]
    ELSE [et EXCEPT !.at = "idle", !.e = 1, !.late = 0, !.slack = Delay, !.sleep = Delay]

EtAfter(e) ==
  IF e < NumEvents THEN [et EXCEPT !.at = "proc", !.e = e + 1]
    ELSE IF Delay <= Period
    THEN [et EXCEPT !.at = "idle", !.e = 1, !.late = 0, !.slack = Delay, !.sleep = Delay]
    ELSE [et EXCEPT !.at = "idle", !.e = 1, !.late = 0, !.slack = 0, !.stalled = TRUE]

HistAfter(e) ==
  IF e < NumEvents THEN hist ELSE [hist EXCEPT !.overrun = @ \/ et.late > Period]

Proc ==
  /\ om.at = "idle" /\ et.at = "proc"
  /\ LET e == et.e
         n == IF conf[e].cond = "INTERVAL" THEN IntervalEvent(e) ELSE ev[e]
     IN  /\ ev' = [ev EXCEPT ![e] = n]
         /\ et' = IF n.chg THEN [et EXCEPT !.at = "report", !.left = conf[e].of] ELSE EtAfter(e)
         /\ hist' = IF n.chg THEN hist ELSE HistAfter(e)
  /\ UNCHANGED <<conf, obj, om, sets>>

(* One round of the loop over the event's objects: a log entry, a trap     *)
(* with bOccurred as it is by now, a publish.                              *)
Report ==
  /\ om.at = "idle" /\ et.at = "report"
  /\ et' = IF et.left \in {{}, {First(et.left)}} THEN [et EXCEPT !.at = "reset", !.left = {}]
             ELSE [et EXCEPT !.left = @ \ {First(@)}]
  /\ hist' = [hist EXCEPT !.sent[et.e] = ev[et.e].occ, !.dropped = @ \ {et.e}]
  /\ UNCHANGED <<conf, obj, ev, om, sets>>

Reset ==
  /\ om.at = "idle" /\ et.at = "reset"
  /\ ev' = [ev EXCEPT ![et.e].chg = FALSE]
  /\ et' = EtAfter(et.e)
  /\ hist' = HistAfter(et.e)
  /\ UNCHANGED <<conf, obj, om, sets>>

-----------------------------------------------------------------------------
Older(a, d) == IF a = Unset THEN Unset ELSE IF a + d > MaxAge THEN MaxAge ELSE a + d

(* External: time passes, whatever the tasks are doing; a ready task is    *)
(* kept waiting, or busy, for MaxLate at most.                             *)
Tick ==
  /\ et.sleep = 0 /\ ~et.stalled => et.late < MaxLate
  /\ obj' = [o \in Objs |-> [obj[o] EXCEPT !.age = Older(@, 1)]]
  /\ ev'  = [e \in Events |-> [ev[e] EXCEPT !.age = Older(@, 1)]]
  /\ et'  = IF et.stalled THEN et
               ELSE [et EXCEPT !.slack = (@ - 1) % Width,
                               !.sleep = IF @ = 0 THEN 0 ELSE @ - 1,
                               !.late  = IF et.sleep = 0 THEN @ + 1 ELSE 0]
  /\ UNCHANGED <<conf, om, sets, hist>>

(* The shell's time command or MIB_set_adminSystemTime sets the wall clock *)
(* forward or back; elapsed ticks, and with them all sleeps, go on.        *)
SetClock(d) ==
  /\ sets < MaxSets
  /\ sets' = sets + 1
  /\ obj' = [o \in Objs |-> [obj[o] EXCEPT !.age = Older(@, d)]]
  /\ ev'  = [e \in Events |-> [ev[e] EXCEPT !.age = Older(@, d)]]
  /\ et'  = IF et.stalled THEN et ELSE [et EXCEPT !.slack = (@ - d) % Width]
  /\ UNCHANGED <<conf, om, hist>>

-----------------------------------------------------------------------------
Manager   == ManagerWakes \/ TestObject \/ CheckRead \/ CheckDecide \/ ClearFlag
EventTask == EventTaskWakes \/ Proc \/ Report \/ Reset

Next ==
  \/ \E o \in Objs, v \in Values : Convert(o, v)
  \/ Manager
  \/ EventTask
  \/ Tick
  \/ \E d \in {Jump, -Jump} : SetClock(d)

Spec == Init /\ [][Next]_vars

(* Time passes.  The tasks have equal priority and are scheduled in turn:  *)
(* the event task is not passed over for ever when it is ready.            *)
FairSpec == Spec /\ WF_vars(Tick) /\ WF_vars(Manager) /\ SF_vars(EventTask)

-----------------------------------------------------------------------------
Age == -(MaxAge + Jump * MaxSets) .. MaxAge

TypeOK ==
  /\ conf \in Configs
  /\ obj \in [Objs -> [val : Values \cup {0}, new : BOOLEAN, age : Age, chg : BOOLEAN]]
  /\ ev \in [Events -> [occ : BOOLEAN, chg : BOOLEAN, age : Age \cup {Unset}]]
  /\ om \in [at : {"idle", "test", "check", "decide"}, o : Objs, left : SUBSET Events,
             read : Values \cup {0}, seen : SUBSET Events]
  /\ et \in [at : {"idle", "proc", "report", "reset"}, e : Events, left : SUBSET Objs,
             slack : 0 .. Width - 1, sleep : 0 .. Period, late : 0 .. MaxLate,
             stalled : BOOLEAN]
  /\ sets \in 0 .. MaxSets
  /\ hist \in [missed : [Objs -> SUBSET Events], sent : [Events -> BOOLEAN],
               dropped : SUBSET Events, overrun : BOOLEAN]

(* When the manager has left an object alone with its flag clear, every    *)
(* event that belongs to this object only agrees with its value: checked   *)
(* again it would not toggle.  The exceptions are the ones the code has: a *)
(* value that came between the check and the clearing of the flag, and a   *)
(* check that ended at the hold time (FTE_EVENT_check:257), after which    *)
(* the flag is cleared all the same.  A value that both raises and         *)
(* releases an event, as unsigned comparison may have it, never settles.   *)
Steady(c, v) == c.cond = "CHANGED" \/ ~(Raise(c, v) /\ Release(c, v))

Settled ==
  \A o \in Objs : ~obj[o].chg =>
    \A e \in Watched(o) \ hist.missed[o] :
      conf[e].of = {o} /\ Steady(conf[e], obj[o].val) => ~Toggles(e, obj[o].val, obj[o].new)

(* An event that is not marked as changed has been reported as it is,      *)
(* unless it toggled again in the moment between the report and the reset  *)
(* of the mark (FTE_EVENT_proc:442).                                       *)
ReportedAsIs ==
  \A e \in Events : ~ev[e].chg /\ e \notin hist.dropped => hist.sent[e] = ev[e].occ

(* FTE_EVENT_task:981 delays for an unsigned difference, which wraps to 49 *)
(* days when a round ends behind its time.  ulNextTime is never put right, *)
(* but rounds that each stay within the period do not add up: the task     *)
(* oversleeps only after a single round that took longer, or if somebody   *)
(* sets the clock.                                                         *)
OversleepsOnlyIfLate == et.stalled => hist.overrun \/ sets > 0

(* No event is released by a value that satisfies its condition, so that a *)
(* steady value cannot make it chatter; for limits and thresholds that     *)
(* stay clear of zero (unsigned arithmetic, see U).                        *)
Sane(c) ==
  /\ c.cond \notin {"CHANGED", "INTERVAL"} /\ {c.lower, c.upper} \subseteq 0 .. Word - 1
  /\ c.cond \in {"ABOVE", "OUTSIDE"} => c.upper - c.thr >= 0
  /\ c.cond \in {"BELOW", "OUTSIDE"} => c.lower + c.thr < Word
  /\ c.cond = "INSIDE" => c.lower - c.thr >= 0 /\ c.upper + c.thr < Word

NoChatter ==
  [][\A e \in Events : ev[e].occ /\ ~ev'[e].occ /\ Sane(conf[e]) /\ om.read \in 0 .. Word - 1
       => ~Raise(conf[e], om.read)]_vars

(* An interval event goes on being reported, once the other events of its  *)
(* endpoint are quiet and unless the task oversleeps: putting it off       *)
(* (FTE_EVENT_proc:399) ends when nothing happens.                         *)
Quiet(e) == \A f \in Others(e) : ev'[f].age # Unset /\ ev[f].age # Unset => ev'[f].age >= ev[f].age

IntervalRecurs ==
  \A e \in Events :
    (conf[e].cond = "INTERVAL" /\ <>[][Quiet(e)]_vars) => []<>(ev[e].chg \/ et.stalled)
=============================================================================
