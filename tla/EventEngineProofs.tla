------------------------- MODULE EventEngineProofs -------------------------
(***************************************************************************)
(* Proofs about EventEngine, for any number of objects and events, any     *)
(* configurations and values.                                              *)
(*                                                                         *)
(* Each of the properties crosses an unlocked boundary: between the timer  *)
(* task's conversion and the manager's check (Checked), the manager's      *)
(* toggle and the event task's report (Resetting), and the clock and the   *)
(* event task's pace (Paced).                                              *)
(***************************************************************************)
EXTENDS EventEngine, WellFoundedInduction, NaturalsInduction, TLAPS

(* Ages: a time stamp lies in the future by steps of the clock only, and   *)
(* the next report of an interval event by its interval besides.           *)
Ahead(e) == IF conf[e].cond = "INTERVAL" THEN conf[e].interval ELSE 0

AgesBounded ==
  /\ \A o \in Objs : obj[o].age >= -(Jump * sets)
  /\ \A e \in Events : ev[e].age # Unset => ev[e].age >= -(Jump * sets) - Ahead(e)

(* The manager, in the middle of an object: its flag is set, and its       *)
(* events are those it has seen and those left.                            *)
Checking == om.at \in {"check", "decide"}
InCheck ==
  /\ ~Checking => om.seen = {}
  /\ Checking =>
       /\ obj[om.o].chg
       /\ om.left \subseteq Watched(om.o)
       /\ om.seen \cup om.left = Watched(om.o)
  /\ om.at = "check" => om.seen \cap om.left = {}
  /\ om.at = "decide" => om.left # {} /\ om.seen \cap om.left = {First(om.left)}

(* The condition by which event e toggles for value v, its hold time       *)
(* aside.                                                                  *)
Differs(e, v, c) ==
  IF conf[e].cond = "CHANGED" THEN c
    ELSE IF ev[e].occ THEN Release(conf[e], v) ELSE Raise(conf[e], v)

Agrees(e, o) ==
  conf[e].of = {o} /\ Steady(conf[e], obj[o].val) => ~Differs(e, obj[o].val, obj[o].new)

(* What was checked agrees with the value, unless that changed meanwhile;  *)
(* the copy that is being checked is the value, unless that changed.       *)
Checked ==
  /\ \A o \in Objs : ~obj[o].chg => \A e \in Watched(o) \ hist.missed[o] : Agrees(e, o)
  /\ \A e \in om.seen \ hist.missed[om.o] :
       IF om.at = "decide" /\ e = First(om.left) THEN om.read = obj[om.o].val
         ELSE Agrees(e, om.o)

(* The event that is about to be reset was reported as it is. *)
Resetting ==
  et.at = "reset" /\ et.e \notin hist.dropped => hist.sent[et.e] = ev[et.e].occ

(* The pace: ulNextTime lies as far ahead as the task sleeps, or as far    *)
(* behind as its round is late.                                            *)
Paced ==
  /\ et.sleep > 0 => et.at = "idle" /\ et.late = 0
  /\ ~et.stalled /\ sets = 0 => et.slack = IF et.late = 0 THEN et.sleep ELSE Width - et.late

IInv ==
  /\ TypeOK /\ AgesBounded
  /\ InCheck /\ Checked
  /\ ReportedAsIs /\ Resetting
  /\ Paced /\ OversleepsOnlyIfLate

-----------------------------------------------------------------------------
(* Helpers. *)
ObjRec  == [val : Values \cup {0}, new : BOOLEAN, age : Age, chg : BOOLEAN]
EvRec   == [occ : BOOLEAN, chg : BOOLEAN, age : Age \cup {Unset}]
OmRec   == [at : {"idle", "test", "check", "decide"}, o : Objs, left : SUBSET Events,
            read : Values \cup {0}, seen : SUBSET Events]
EtRec   == [at : {"idle", "proc", "report", "reset"}, e : Events, left : SUBSET Objs,
            slack : 0 .. Width - 1, sleep : 0 .. Period, late : 0 .. MaxLate,
            stalled : BOOLEAN]
HistRec == [missed : [Objs -> SUBSET Events], sent : [Events -> BOOLEAN],
            dropped : SUBSET Events, overrun : BOOLEAN]

LEMMA TypeOKIs ==
  TypeOK <=> /\ conf \in Configs /\ obj \in [Objs -> ObjRec] /\ ev \in [Events -> EvRec]
             /\ om \in OmRec /\ et \in EtRec /\ sets \in 0 .. MaxSets /\ hist \in HistRec
  BY DEF TypeOK, ObjRec, EvRec, OmRec, EtRec, HistRec

LEMMA ConstantsType ==
  /\ NumObjs \in Nat \ {0} /\ NumEvents \in Nat \ {0} /\ Word \in Nat \ {0}
  /\ Period \in Nat \ {0} /\ Width \in Nat \ {0} /\ MaxAge \in Nat /\ MaxLate \in Nat
  /\ Jump \in Nat /\ MaxSets \in Nat
  /\ Width > Period + MaxLate
  BY SizeAssumption, TimeAssumption

LEMMA ConfType ==
  ASSUME conf \in Configs
  PROVE  \A e \in Events :
           /\ conf[e] \in EventConfig
           /\ conf[e].interval \in 0 .. MaxAge /\ conf[e].of \in SUBSET Objs
           /\ Ahead(e) \in 0 .. MaxAge
  <1> TAKE e \in Events
  <1>1. conf[e] \in EventConfig
    BY SizeAssumption
  <1>2. conf[e].interval \in 0 .. MaxAge
    BY <1>1, CapAssumption, ConstantsType DEF EventConfig
  <1> QED
    BY <1>1, <1>2, ConstantsType DEF EventConfig, Ahead

(* A non-empty set of integers that is bounded below has a first one. *)
LEMMA FirstOf ==
  ASSUME NEW lo \in Int, NEW S, S \subseteq Int, \A x \in S : lo <= x, S # {}
  PROVE  First(S) \in S /\ \A y \in S : First(S) <= y
  <1> DEFINE T == {x - lo : x \in S}
  <1>1. T \subseteq Nat /\ T # {}
    OBVIOUS
  <1>2. PICK t \in T : \A y \in T : ~(<<y, t>> \in OpToRel(<, Nat))
    <2> HIDE DEF T
    <2> QED
      BY <1>1, NatLessThanWellFounded, WFMin
  <1>3. PICK x \in S : t = x - lo
    OBVIOUS
  <1>4. \A y \in S : x <= y
    <2> TAKE y \in S
    <2>1. y - lo \in T
      OBVIOUS
    <2> HIDE DEF T
    <2>2. ~(y - lo < t)
      BY <1>1, <1>2, <2>1 DEF OpToRel
    <2> QED
      BY <1>3, <2>2
  <1>5. \E z \in S : \A y \in S : z <= y
    BY <1>4
  <1> HIDE DEF T
  <1> QED
    BY <1>5, Zenon DEF First

LEMMA FirstEvent ==
  ASSUME NEW S \in SUBSET Events, S # {}
  PROVE  First(S) \in S
  <1>1. 0 \in Int /\ S \subseteq Int /\ \A x \in S : 0 <= x
    BY ConstantsType DEF Events
  <1> QED
    BY <1>1, FirstOf, Zenon

(* Steps of the clock and the ages. *)
LEMMA Steps ==
  ASSUME NEW s \in 0 .. MaxSets
  PROVE  /\ Jump * s \in Nat /\ Jump * s <= Jump * MaxSets /\ Jump * MaxSets \in Nat
         /\ Jump * (s + 1) = Jump * s + Jump
  BY ConstantsType

LEMMA AgeType ==
  ASSUME NEW s \in 0 .. MaxSets, NEW a \in Int, a <= MaxAge, a >= -(Jump * s) - MaxAge
  PROVE  a \in Age
  BY Steps, ConstantsType DEF Age

LEMMA AgeInt == Age \subseteq Int /\ \A a \in Age : a <= MaxAge
  <1>1. Jump * MaxSets \in Nat
    BY ConstantsType
  <1> QED
    BY <1>1, ConstantsType DEF Age

LEMMA Aging ==
  ASSUME NEW a \in Age \cup {Unset}, NEW s \in 0 .. MaxSets, NEW r \in 0 .. MaxSets,
         NEW d \in Int, NEW h \in 0 .. MaxAge,
         a # Unset => a >= -(Jump * s) - h,
         Jump * r >= Jump * s, d >= Jump * s - Jump * r
  PROVE  /\ Older(a, d) \in Age \cup {Unset} /\ (a # Unset => Older(a, d) \in Age)
         /\ Older(a, d) # Unset => Older(a, d) >= -(Jump * r) - h
  <1>1. Jump * s \in Nat /\ Jump * r \in Nat
    BY Steps
  <1>2. CASE a = Unset
    BY <1>2 DEF Older
  <1>3. CASE a # Unset /\ a + d > MaxAge
    <2>1. Older(a, d) = MaxAge /\ MaxAge >= -(Jump * r) - h
      BY <1>1, <1>3, ConstantsType DEF Older
    <2> QED
      BY <1>1, <2>1, ConstantsType, AgeType
  <1>4. CASE a # Unset /\ ~(a + d > MaxAge)
    <2>1. Older(a, d) = a + d /\ a \in Int
      BY <1>4, AgeInt DEF Older
    <2>2. a + d >= -(Jump * r) - h /\ a + d <= MaxAge /\ a + d >= -(Jump * r) - MaxAge
      BY <1>1, <1>4, <2>1, ConstantsType
    <2> QED
      BY <1>4, <2>1, <2>2, AgeType
  <1> QED
    BY <1>2, <1>3, <1>4

-----------------------------------------------------------------------------
(* Types and ages. *)

(* The next report of an interval event. *)
LEMMA IntervalType ==
  ASSUME TypeOK, AgesBounded, NEW e \in Events, conf[e].cond = "INTERVAL"
  PROVE  /\ IntervalEvent(e) \in EvRec /\ IntervalEvent(e).occ = ev[e].occ
         /\ ev[e].chg => IntervalEvent(e).chg
         /\ IntervalEvent(e).age # Unset => IntervalEvent(e).age >= -(Jump * sets) - Ahead(e)
  <1> DEFINE i == conf[e].interval
             ages == {ev[e].age} \cup {ev[f].age - i : f \in {g \in Others(e) : ev[g].age # Unset}}
             lo == -(Jump * sets) - i
  <1>1. /\ i \in 0 .. MaxAge /\ Ahead(e) = i /\ Jump * sets \in Nat /\ MaxAge \in Nat
        /\ sets \in 0 .. MaxSets /\ lo \in Int
    BY ConfType, Steps, ConstantsType DEF TypeOK, Ahead
  <1>2. ev[e] \in EvRec
    BY TypeOKIs
  <1>3. -i \in Age /\ -i >= lo
    BY <1>1, AgeType
  <1>4. CASE ev[e].age = Unset
    <2>1. IntervalEvent(e) = [ev[e] EXCEPT !.age = -i]
      BY <1>4 DEF IntervalEvent
    <2> QED
      BY <1>1, <1>2, <1>3, <2>1 DEF EvRec
  <1>5. ev[e].age # Unset => ev[e].age \in Int /\ ev[e].age \in Age /\ ev[e].age >= lo
    BY <1>1, <1>2, AgeInt DEF EvRec, AgesBounded
  <1>6. ASSUME ev[e].age # Unset
        PROVE  /\ PutOff(e) \in Int /\ PutOff(e) >= lo /\ PutOff(e) \in Age
               /\ PutOff(e) <= ev[e].age
    <2>1. \A f \in Others(e) : ev[f].age # Unset =>
             ev[f].age \in Int /\ ev[f].age >= -(Jump * sets)
      <3> TAKE f \in Others(e)
      <3>1. f \in Events /\ Ahead(f) = 0 /\ ev[f] \in EvRec
        BY TypeOKIs DEF Others, Ahead
      <3>2. ev[f].age # Unset => ev[f].age \in Int
        BY <3>1, AgeInt DEF EvRec
      <3>3. ev[f].age # Unset => ev[f].age >= -(Jump * sets) - Ahead(f)
        BY <3>1 DEF AgesBounded
      <3> QED
        BY <1>1, <3>1, <3>2, <3>3
    <2>2. ages \subseteq Int /\ \A a \in ages : lo <= a
      BY <1>1, <1>5, <1>6, <2>1
    <2>3. PutOff(e) = First(ages) /\ ev[e].age \in ages
      BY DEF PutOff
    <2> HIDE DEF ages, lo
    <2>4. PutOff(e) \in ages /\ PutOff(e) <= ev[e].age
      BY <1>1, <2>2, <2>3, FirstOf
    <2>5. PutOff(e) \in Int /\ PutOff(e) >= lo
      BY <1>1, <2>2, <2>4
    <2>6. PutOff(e) <= MaxAge
      BY <1>1, <1>5, <1>6, <2>4, <2>5, AgeInt
    <2>7. PutOff(e) >= -(Jump * sets) - MaxAge
      BY <1>1, <2>5 DEF lo
    <2> QED
      BY <1>1, <2>4, <2>5, <2>6, <2>7, AgeType
  <1>7. CASE ev[e].age # Unset /\ ev[e].age <= 0
    <2>1. IntervalEvent(e) = ev[e]
      BY <1>7 DEF IntervalEvent
    <2> QED
      BY <1>1, <1>2, <1>5, <1>7, <2>1
  <1>8. CASE ev[e].age # Unset /\ ~(ev[e].age <= 0) /\ PutOff(e) <= 0
    <2>1. IntervalEvent(e) = [ev[e] EXCEPT !.age = PutOff(e)]
      BY <1>8 DEF IntervalEvent
    <2> QED
      BY <1>1, <1>2, <1>6, <1>8, <2>1 DEF EvRec
  <1>9. CASE ev[e].age # Unset /\ ~(ev[e].age <= 0) /\ ~(PutOff(e) <= 0)
    <2>1. IntervalEvent(e) = [ev[e] EXCEPT !.chg = TRUE, !.age = PutOff(e) - i]
      BY <1>9 DEF IntervalEvent
    <2>2. PutOff(e) - i \in Int /\ PutOff(e) - i >= lo /\ PutOff(e) - i <= MaxAge
      BY <1>1, <1>6, <1>9, AgeInt
    <2>3. PutOff(e) - i \in Age
      BY <1>1, <2>2, AgeType
    <2> QED
      BY <1>1, <1>2, <2>1, <2>2, <2>3 DEF EvRec
  <1> QED
    BY <1>4, <1>7, <1>8, <1>9

(* What the tasks write into the history has its type. *)
LEMMA MissedType ==
  ASSUME hist \in HistRec, NEW o \in Objs, NEW S \in SUBSET Events
  PROVE  /\ [hist EXCEPT !.missed[o] = S] \in HistRec
         /\ \A D \in SUBSET Events : [hist EXCEPT !.missed[o] = S, !.dropped = D] \in HistRec
  <1>1. [hist.missed EXCEPT ![o] = S] \in [Objs -> SUBSET Events]
    BY DEF HistRec
  <1> QED
    BY <1>1 DEF HistRec

LEMMA SentType ==
  ASSUME hist \in HistRec, NEW e \in Events, NEW b \in BOOLEAN, NEW D \in SUBSET Events
  PROVE  [hist EXCEPT !.sent[e] = b, !.dropped = D] \in HistRec
  <1>1. [hist.sent EXCEPT ![e] = b] \in [Events -> BOOLEAN]
    BY DEF HistRec
  <1> QED
    BY <1>1 DEF HistRec

LEMMA ConvertType ==
  ASSUME TypeOK, AgesBounded, NEW o \in Objs, NEW v \in Values, Convert(o, v)
  PROVE  TypeOK' /\ AgesBounded'
  <1>0. /\ conf \in Configs /\ obj \in [Objs -> ObjRec] /\ ev \in [Events -> EvRec]
        /\ om \in OmRec /\ et \in EtRec /\ sets \in 0 .. MaxSets /\ hist \in HistRec
    BY TypeOKIs
  <1>1. UNCHANGED <<conf, ev, om, et, sets>>
    BY DEF Convert
  <1>2. 0 \in Age /\ Jump * sets \in Nat
    BY <1>0, Steps, AgeType, ConstantsType
  <1>3. /\ obj' = [obj EXCEPT ![o] = [val |-> v, new |-> v # obj[o].val, age |-> 0,
                                      chg |-> obj[o].chg \/ v # obj[o].val]]
        /\ \/ hist' = hist
           \/ hist' = [hist EXCEPT !.missed[o] = hist.missed[o] \cup om.seen]
    BY DEF Convert
  <1>4. obj' \in [Objs -> ObjRec]
    <2>1. [val |-> v, new |-> v # obj[o].val, age |-> 0, chg |-> obj[o].chg \/ v # obj[o].val]
            \in ObjRec
      BY <1>0, <1>2 DEF ObjRec
    <2> QED
      BY <1>0, <1>3, <2>1
  <1>5. hist' \in HistRec
    <2>1. hist.missed[o] \cup om.seen \in SUBSET Events
      BY <1>0 DEF HistRec, OmRec
    <2> QED
      BY <1>0, <1>3, <2>1, MissedType
  <1>6. TypeOK'
    BY <1>0, <1>1, <1>4, <1>5, TypeOKIs DEF TypeOK, ObjRec, HistRec
  <1>7. \A p \in Objs : obj'[p].age >= -(Jump * sets)
    BY <1>0, <1>2, <1>3 DEF AgesBounded
  <1> QED
    BY <1>1, <1>6, <1>7 DEF AgesBounded, Ahead

LEMMA ManagerType ==
  ASSUME TypeOK, AgesBounded, InCheck, Manager
  PROVE  TypeOK' /\ AgesBounded'
  <1>0. /\ conf \in Configs /\ obj \in [Objs -> ObjRec] /\ ev \in [Events -> EvRec]
        /\ om \in OmRec /\ et \in EtRec /\ sets \in 0 .. MaxSets /\ hist \in HistRec
    BY TypeOKIs
  <1>1. CASE ManagerWakes \/ TestObject
    <2>1. UNCHANGED <<conf, obj, ev, et, sets, hist>>
      BY <1>1 DEF ManagerWakes, TestObject
    <2>2. om' \in OmRec
      <3>1. CASE ManagerWakes
        BY <1>0, <3>1 DEF ManagerWakes, OmRec
      <3>2. CASE TestObject /\ obj[om.o].chg
        <4>1. Watched(om.o) \in SUBSET Events
          BY DEF Watched
        <4> QED
          BY <1>0, <3>2, <4>1 DEF TestObject, OmRec
      <3>3. CASE TestObject /\ ~obj[om.o].chg /\ om.o = NumObjs
        <4>1. 1 \in Objs
          BY ConstantsType DEF Objs
        <4> QED
          BY <1>0, <3>3, <4>1 DEF TestObject, OmRec
      <3>4. CASE TestObject /\ ~obj[om.o].chg /\ om.o # NumObjs
        <4>1. om.o + 1 \in Objs
          BY <1>0, <3>4, ConstantsType DEF OmRec, Objs
        <4> QED
          BY <1>0, <3>4, <4>1 DEF TestObject, OmRec
      <3> QED
        BY <1>1, <3>1, <3>2, <3>3, <3>4
    <2> QED
      BY <1>0, <2>1, <2>2 DEF TypeOK, OmRec, AgesBounded, Ahead
  <1>2. CASE CheckRead
    <2>1. First(om.left) \in Events
      BY <1>0, <1>2, FirstEvent DEF CheckRead, OmRec
    <2>2. om.o \in Objs /\ obj[om.o].val \in Values \cup {0}
      BY <1>0 DEF OmRec, ObjRec
    <2>3. om' \in OmRec
      <3>1. om.seen \cup {First(om.left)} \in SUBSET Events
        BY <1>0, <2>1 DEF OmRec
      <3> QED
        BY <1>0, <1>2, <2>2, <3>1 DEF CheckRead, OmRec
    <2>4. hist' \in HistRec
      <3>1. hist.missed[om.o] \ {First(om.left)} \in SUBSET Events
        BY <1>0, <2>2 DEF HistRec
      <3> QED
        BY <1>0, <1>2, <2>2, <3>1, MissedType DEF CheckRead
    <2>5. UNCHANGED <<conf, obj, ev, et, sets>>
      BY <1>2 DEF CheckRead
    <2> QED
      BY <1>0, <2>3, <2>4, <2>5 DEF TypeOK, OmRec, HistRec, AgesBounded, Ahead
  <1>3. CASE CheckDecide
    <2> DEFINE e == First(om.left)
               o == om.o
               t == Toggles(e, om.read, obj[o].new)
    <2>1. e \in om.left /\ e \in Events /\ o \in Objs /\ conf[e].cond # "INTERVAL"
      <3>1. om.left # {} /\ om.left \subseteq Watched(o)
        BY <1>3 DEF CheckDecide, InCheck, Checking
      <3>2. e \in om.left
        BY <1>0, <3>1, FirstEvent DEF OmRec
      <3> QED
        BY <1>0, <3>1, <3>2 DEF OmRec, Watched
    <2>2. /\ ev' = IF t THEN [ev EXCEPT ![e] = Toggled(e, obj[o].age)] ELSE ev
          /\ obj' = IF t /\ conf[e].cond = "CHANGED" THEN [obj EXCEPT ![o].new = FALSE] ELSE obj
          /\ hist' = [hist EXCEPT
                       !.missed[o] = IF Holding(e) THEN hist.missed[o] \cup {e} ELSE hist.missed[o],
                       !.dropped = IF t /\ et.e = e /\ et.at = "reset"
                                     THEN hist.dropped \cup {e} ELSE hist.dropped]
          /\ om' = [om EXCEPT !.at = "check", !.read = 0, !.left = om.left \ {e}]
          /\ UNCHANGED <<conf, et, sets>>
      BY <1>3 DEF CheckDecide
    <2> HIDE DEF e, o, t
    <2>3. ev' \in [Events -> EvRec]
      <3>1. Toggled(e, obj[o].age) \in EvRec
        BY <1>0, <2>1 DEF Toggled, EvRec, ObjRec
      <3> QED
        BY <1>0, <2>1, <2>2, <3>1
    <2>4. obj' \in [Objs -> ObjRec]
      <3>1. [obj[o] EXCEPT !.new = FALSE] \in ObjRec
        BY <1>0, <2>1 DEF ObjRec
      <3> QED
        BY <1>0, <2>1, <2>2, <3>1
    <2>5. hist' \in HistRec
      <3> DEFINE S == IF Holding(e) THEN hist.missed[o] \cup {e} ELSE hist.missed[o]
                 D == IF t /\ et.e = e /\ et.at = "reset" THEN hist.dropped \cup {e} ELSE hist.dropped
      <3>1. S \in SUBSET Events /\ D \in SUBSET Events
        BY <1>0, <2>1 DEF HistRec
      <3>2. hist' = [hist EXCEPT !.missed[o] = S, !.dropped = D]
        BY <2>2
      <3> HIDE DEF S, D
      <3> QED
        BY <1>0, <2>1, <3>1, <3>2, MissedType
    <2>6. om' \in OmRec
      <3>1. om.left \ {e} \in SUBSET Events
        BY <1>0 DEF OmRec
      <3> QED
        BY <1>0, <2>2, <3>1 DEF OmRec
    <2>7. AgesBounded'
      <3>1. \A p \in Objs : obj'[p].age = obj[p].age
        BY <1>0, <2>1, <2>2 DEF ObjRec
      <3>2. \A f \in Events : ev'[f].age # Unset => ev'[f].age >= -(Jump * sets) - Ahead(f)
        <4> TAKE f \in Events
        <4>1. CASE t /\ f = e
          <5>1. ev'[f].age = obj[o].age /\ Ahead(f) = 0
            BY <1>0, <2>1, <2>2, <4>1 DEF Toggled, Ahead
          <5>2. obj[o].age \in Int /\ obj[o].age >= -(Jump * sets) /\ Jump * sets \in Nat
            BY <1>0, <2>1, AgeInt, Steps DEF ObjRec, AgesBounded
          <5> QED
            BY <5>1, <5>2
        <4>2. CASE ~(t /\ f = e)
          <5>1. ev'[f] = ev[f]
            BY <1>0, <2>1, <2>2, <4>2
          <5> QED
            BY <5>1 DEF AgesBounded
        <4> QED
          BY <4>1, <4>2
      <3> QED
        BY <2>2, <3>1, <3>2 DEF AgesBounded, Ahead
    <2>8. TypeOK'
      BY <1>0, <2>2, <2>3, <2>4, <2>5, <2>6 DEF TypeOK, ObjRec, EvRec, OmRec, HistRec
    <2> QED
      BY <2>7, <2>8
  <1>4. CASE ClearFlag
    <2>1. /\ obj' = [obj EXCEPT ![om.o].chg = FALSE] /\ UNCHANGED <<conf, ev, et, sets, hist>>
          /\ om' = IF om.o = NumObjs THEN [om EXCEPT !.at = "idle", !.o = 1, !.seen = {}]
                     ELSE [om EXCEPT !.at = "test", !.o = om.o + 1, !.seen = {}]
      BY <1>4 DEF ClearFlag
    <2>2. om.o \in Objs /\ obj' \in [Objs -> ObjRec] /\ \A p \in Objs : obj'[p].age = obj[p].age
      BY <1>0, <2>1 DEF OmRec, ObjRec
    <2>3. om' \in OmRec
      <3>1. CASE om.o = NumObjs
        <4>1. 1 \in Objs
          BY ConstantsType DEF Objs
        <4> QED
          BY <1>0, <2>1, <3>1, <4>1 DEF OmRec
      <3>2. CASE om.o # NumObjs
        <4>1. om.o + 1 \in Objs
          BY <2>2, <3>2, ConstantsType DEF Objs
        <4> QED
          BY <1>0, <2>1, <3>2, <4>1 DEF OmRec
      <3> QED
        BY <3>1, <3>2
    <2> QED
      BY <1>0, <2>1, <2>2, <2>3 DEF TypeOK, OmRec, ObjRec, AgesBounded, Ahead
  <1> QED
    BY <1>1, <1>2, <1>3, <1>4 DEF Manager

(* The end of an event, and of a round. *)
LEMMA AfterType ==
  ASSUME et \in EtRec, hist \in HistRec, NEW e \in Events
  PROVE  EtAfter(e) \in EtRec /\ HistAfter(e) \in HistRec
  <1>1. Delay \in 0 .. Width - 1
    BY ConstantsType DEF Delay, EtRec
  <1>2. HistAfter(e) \in HistRec
    <2>1. (hist.overrun \/ et.late > Period) \in BOOLEAN
      OBVIOUS
    <2> QED
      BY <2>1 DEF HistAfter, HistRec
  <1>3. CASE e < NumEvents
    <2>1. e + 1 \in Events
      BY <1>3, ConstantsType DEF Events
    <2> QED
      BY <1>2, <1>3, <2>1 DEF EtAfter, EtRec
  <1>4. 1 \in Events /\ 0 \in 0 .. MaxLate /\ 0 \in 0 .. Width - 1
    BY ConstantsType DEF Events
  <1> HIDE DEF Delay
  <1>5. CASE ~(e < NumEvents) /\ Delay <= Period
    <2>1. Delay \in 0 .. Period
      BY <1>1, <1>5, ConstantsType
    <2>2. EtAfter(e) =
            [et EXCEPT !.at = "idle", !.e = 1, !.late = 0, !.slack = Delay, !.sleep = Delay]
      BY <1>5 DEF EtAfter
    <2> QED
      BY <1>1, <1>2, <1>4, <2>1, <2>2, Zenon DEF EtRec
  <1>6. CASE ~(e < NumEvents) /\ ~(Delay <= Period)
    <2>1. EtAfter(e) =
            [et EXCEPT !.at = "idle", !.e = 1, !.late = 0, !.slack = 0, !.stalled = TRUE]
      BY <1>6 DEF EtAfter
    <2> QED
      BY <1>2, <1>4, <2>1, Zenon DEF EtRec
  <1> QED
    BY <1>3, <1>5, <1>6

LEMMA EventTaskType ==
  ASSUME TypeOK, AgesBounded, EventTask
  PROVE  TypeOK' /\ AgesBounded'
  <1>0. /\ conf \in Configs /\ obj \in [Objs -> ObjRec] /\ ev \in [Events -> EvRec]
        /\ om \in OmRec /\ et \in EtRec /\ sets \in 0 .. MaxSets /\ hist \in HistRec
        /\ et.e \in Events
    BY TypeOKIs DEF EtRec
  <1>1. CASE EventTaskWakes
    <2>1. 1 \in Events
      BY ConstantsType DEF Events
    <2>2. et' \in EtRec /\ UNCHANGED <<conf, obj, ev, om, sets, hist>>
      BY <1>0, <1>1, <2>1 DEF EventTaskWakes, EtRec
    <2> QED
      BY <1>0, <2>2 DEF TypeOK, EtRec, AgesBounded, Ahead
  <1>2. CASE Proc
    <2> DEFINE e == et.e
               n == IF conf[e].cond = "INTERVAL" THEN IntervalEvent(e) ELSE ev[e]
    <2>1. /\ ev' = [ev EXCEPT ![e] = n]
          /\ et' = IF n.chg THEN [et EXCEPT !.at = "report", !.left = conf[e].of] ELSE EtAfter(e)
          /\ hist' = IF n.chg THEN hist ELSE HistAfter(e)
          /\ UNCHANGED <<conf, obj, om, sets>>
      BY <1>2 DEF Proc
    <2>2. n \in EvRec /\ (n.age # Unset => n.age >= -(Jump * sets) - Ahead(e))
      BY <1>0, IntervalType DEF AgesBounded
    <2> HIDE DEF n
    <2>3. ev' \in [Events -> EvRec]
      BY <1>0, <2>1, <2>2
    <2>4. et' \in EtRec /\ hist' \in HistRec
      <3>1. [et EXCEPT !.at = "report", !.left = conf[e].of] \in EtRec
        BY <1>0, ConfType DEF EtRec
      <3> QED
        BY <1>0, <2>1, <3>1, AfterType
    <2>5. AgesBounded'
      <3>1. \A f \in Events : ev'[f].age # Unset => ev'[f].age >= -(Jump * sets) - Ahead(f)
        BY <1>0, <2>1, <2>2 DEF AgesBounded
      <3> QED
        BY <2>1, <3>1 DEF AgesBounded, Ahead
    <2> QED
      BY <1>0, <2>1, <2>3, <2>4, <2>5 DEF TypeOK, EvRec, EtRec, HistRec
  <1>3. CASE Report
    <2>1. UNCHANGED <<conf, obj, ev, om, sets>>
      BY <1>3 DEF Report
    <2>2. et' \in EtRec
      <3>1. et.left \ {First(et.left)} \in SUBSET Objs
        BY <1>0 DEF EtRec
      <3> QED
        BY <1>0, <1>3, <3>1 DEF Report, EtRec
    <2>3. hist' \in HistRec
      <3>1. ev[et.e].occ \in BOOLEAN /\ hist.dropped \ {et.e} \in SUBSET Events
        BY <1>0 DEF EvRec, HistRec
      <3> QED
        BY <1>0, <1>3, <3>1, SentType DEF Report
    <2> QED
      BY <1>0, <2>1, <2>2, <2>3 DEF TypeOK, EtRec, HistRec, AgesBounded, Ahead
  <1>4. CASE Reset
    <2>1. /\ ev' = [ev EXCEPT ![et.e].chg = FALSE] /\ et' = EtAfter(et.e)
          /\ hist' = HistAfter(et.e) /\ UNCHANGED <<conf, obj, om, sets>>
      BY <1>4 DEF Reset
    <2>2. ev' \in [Events -> EvRec] /\ \A f \in Events : ev'[f].age = ev[f].age
      BY <1>0, <2>1 DEF EvRec
    <2>3. et' \in EtRec /\ hist' \in HistRec
      BY <1>0, <2>1, AfterType
    <2> QED
      BY <1>0, <2>1, <2>2, <2>3 DEF TypeOK, EvRec, EtRec, HistRec, AgesBounded, Ahead
  <1> QED
    BY <1>1, <1>2, <1>3, <1>4 DEF EventTask

(* Time passes, or the clock is set: r is the number of steps afterwards. *)
LEMMA AgesMove ==
  ASSUME TypeOK, AgesBounded, NEW r \in 0 .. MaxSets, NEW d \in Int, conf' = conf, sets' = r,
         Jump * r >= Jump * sets, d >= Jump * sets - Jump * r,
         obj' = [o \in Objs |-> [obj[o] EXCEPT !.age = Older(@, d)]],
         ev' = [e \in Events |-> [ev[e] EXCEPT !.age = Older(@, d)]]
  PROVE  obj' \in [Objs -> ObjRec] /\ ev' \in [Events -> EvRec] /\ AgesBounded'
  <1>0. /\ conf \in Configs /\ obj \in [Objs -> ObjRec] /\ ev \in [Events -> EvRec]
        /\ sets \in 0 .. MaxSets
    BY TypeOKIs
  <1>1. \A o \in Objs : obj'[o] \in ObjRec /\ obj'[o].age >= -(Jump * r)
    <2>0. Unset \notin Age
      BY AgeInt, SizeAssumption
    <2> TAKE o \in Objs
    <2>1. obj[o].age \in Age /\ obj[o].age >= -(Jump * sets) - 0 /\ 0 \in 0 .. MaxAge
      BY <1>0, AgeInt, Steps, ConstantsType DEF ObjRec, AgesBounded
    <2>2. Older(obj[o].age, d) \in Age /\ Older(obj[o].age, d) >= -(Jump * r) - 0
      BY <1>0, <2>0, <2>1, Aging
    <2>3. Older(obj[o].age, d) \in Int /\ Jump * r \in Nat
      BY <2>2, AgeInt, Steps
    <2>4. Older(obj[o].age, d) >= -(Jump * r)
      BY <2>2, <2>3
    <2>5. obj'[o] = [obj[o] EXCEPT !.age = Older(obj[o].age, d)]
      OBVIOUS
    <2>6. obj'[o] \in ObjRec /\ obj'[o].age = Older(obj[o].age, d)
      BY <1>0, <2>2, <2>5 DEF ObjRec
    <2> QED
      BY <2>4, <2>6
  <1>2. \A e \in Events :
          ev'[e] \in EvRec /\ (ev'[e].age # Unset => ev'[e].age >= -(Jump * r) - Ahead(e))
    <2> TAKE e \in Events
    <2>1. /\ ev[e].age \in Age \cup {Unset} /\ Ahead(e) \in 0 .. MaxAge
          /\ ev[e].age # Unset => ev[e].age >= -(Jump * sets) - Ahead(e)
      BY <1>0, ConfType DEF EvRec, AgesBounded
    <2>2. /\ Older(ev[e].age, d) \in Age \cup {Unset}
          /\ Older(ev[e].age, d) # Unset => Older(ev[e].age, d) >= -(Jump * r) - Ahead(e)
      BY <1>0, <2>1, Aging
    <2> QED
      BY <1>0, <2>2 DEF EvRec
  <1> QED
    BY <1>1, <1>2 DEF AgesBounded, Ahead

LEMMA TimeType ==
  ASSUME TypeOK, AgesBounded, Tick \/ \E d \in {Jump, -Jump} : SetClock(d)
  PROVE  TypeOK' /\ AgesBounded'
  <1>0. /\ conf \in Configs /\ om \in OmRec /\ et \in EtRec /\ sets \in 0 .. MaxSets
        /\ hist \in HistRec /\ Jump * sets \in Nat
    BY TypeOKIs, Steps
  <1>1. CASE Tick
    <2>1. UNCHANGED <<conf, om, sets, hist>>
      BY <1>1 DEF Tick
    <2>2. obj' \in [Objs -> ObjRec] /\ ev' \in [Events -> EvRec] /\ AgesBounded'
      <3>1. 1 \in Int /\ Jump * sets >= Jump * sets /\ 1 >= Jump * sets - Jump * sets
        BY <1>0
      <3> QED
        BY <1>0, <1>1, <3>1, AgesMove DEF Tick
    <2>3. et' \in EtRec
      <3>1. CASE et.stalled
        BY <1>0, <1>1, <3>1 DEF Tick
      <3>2. CASE ~et.stalled
        <4> DEFINE sl == (et.slack - 1) % Width
                   sp == IF et.sleep = 0 THEN 0 ELSE et.sleep - 1
                   la == IF et.sleep = 0 THEN et.late + 1 ELSE 0
        <4>1. et' = [et EXCEPT !.slack = sl, !.sleep = sp, !.late = la]
          BY <1>1, <3>2 DEF Tick
        <4>2. sl \in 0 .. Width - 1
          BY <1>0, ConstantsType DEF EtRec
        <4>3. sp \in 0 .. Period
          BY <1>0, ConstantsType DEF EtRec
        <4>4. la \in 0 .. MaxLate
          BY <1>0, <1>1, <3>2, ConstantsType DEF EtRec, Tick
        <4> HIDE DEF sl, sp, la
        <4> QED
          BY <1>0, <4>1, <4>2, <4>3, <4>4, Zenon DEF EtRec
      <3> QED
        BY <3>1, <3>2
    <2> QED
      BY <1>0, <2>1, <2>2, <2>3 DEF TypeOK, ObjRec, EvRec, EtRec
  <1>2. ASSUME NEW d \in {Jump, -Jump}, SetClock(d)
        PROVE  TypeOK' /\ AgesBounded'
    <2>1. UNCHANGED <<conf, om, hist>> /\ sets' = sets + 1 /\ sets + 1 \in 0 .. MaxSets
      BY <1>0, <1>2, ConstantsType DEF SetClock
    <2>2. /\ d \in Int /\ Jump * (sets + 1) = Jump * sets + Jump
          /\ d >= Jump * sets - Jump * (sets + 1) /\ Jump * (sets + 1) >= Jump * sets
      <3>1. Jump * (sets + 1) = Jump * sets + Jump
        BY <1>0, Steps
      <3> QED
        BY <1>0, <3>1, ConstantsType
    <2>3. obj' \in [Objs -> ObjRec] /\ ev' \in [Events -> EvRec] /\ AgesBounded'
      BY <1>0, <1>2, <2>1, <2>2, AgesMove DEF SetClock
    <2>4. et' \in EtRec
      <3>1. (et.slack - d) % Width \in 0 .. Width - 1
        BY <1>0, <2>2, ConstantsType DEF EtRec
      <3> QED
        BY <1>0, <1>2, <3>1 DEF SetClock, EtRec
    <2> QED
      BY <1>0, <2>1, <2>3, <2>4 DEF TypeOK, ObjRec, EvRec, EtRec
  <1> QED
    BY <1>1, <1>2

LEMMA TypeStep ==
  ASSUME TypeOK, AgesBounded, InCheck, Next
  PROVE  TypeOK' /\ AgesBounded'
  BY ConvertType, ManagerType, EventTaskType, TimeType DEF Next

-----------------------------------------------------------------------------
(* The pace of the event task. *)
LEMMA PaceStep ==
  ASSUME TypeOK, Paced, OversleepsOnlyIfLate, Next
  PROVE  Paced' /\ OversleepsOnlyIfLate'
  <1> USE DEF Paced, OversleepsOnlyIfLate
  <1>0. /\ et \in EtRec /\ hist \in HistRec /\ sets \in Nat /\ et.e \in Events
        /\ et.slack \in 0 .. Width - 1 /\ et.sleep \in 0 .. Period /\ et.late \in 0 .. MaxLate
        /\ et.stalled \in BOOLEAN
    BY TypeOKIs DEF EtRec
  <1>1. CASE \E o \in Objs, v \in Values : Convert(o, v)
    <2>1. UNCHANGED <<et, sets>> /\ hist'.overrun = hist.overrun
      BY <1>0, <1>1 DEF Convert, HistRec
    <2> QED
      BY <2>1
  <1>2. CASE Manager
    <2>1. UNCHANGED <<et, sets>> /\ hist'.overrun = hist.overrun
      BY <1>0, <1>2 DEF Manager, ManagerWakes, TestObject, CheckRead, CheckDecide, ClearFlag, HistRec
    <2> QED
      BY <2>1
  <1>3. CASE EventTaskWakes \/ Report
    <2>1. /\ UNCHANGED sets /\ hist'.overrun = hist.overrun
          /\ et'.slack = et.slack /\ et'.sleep = et.sleep /\ et'.late = et.late
          /\ et'.stalled = et.stalled
          /\ et.sleep = 0
      <3>1. sets' = sets /\ hist'.overrun = hist.overrun
        BY <1>0, <1>3 DEF EventTaskWakes, Report, HistRec
      <3>2. /\ et'.slack = et.slack /\ et'.sleep = et.sleep /\ et'.late = et.late
            /\ et'.stalled = et.stalled
        BY <1>0, <1>3 DEF EventTaskWakes, Report, EtRec
      <3>3. et.sleep = 0
        BY <1>0, <1>3 DEF EventTaskWakes, Report
      <3> QED
        BY <3>1, <3>2, <3>3
    <2> QED
      BY <1>0, <2>1
  <1>4. ASSUME et.at # "idle", et' = EtAfter(et.e), hist' = HistAfter(et.e), sets' = sets
        PROVE  Paced' /\ OversleepsOnlyIfLate'
    <2>1. et.sleep = 0
      BY <1>0, <1>4
    <2>2. CASE et.e < NumEvents
      <3>1. /\ hist' = hist /\ et'.slack = et.slack /\ et'.sleep = et.sleep /\ et'.late = et.late
            /\ et'.stalled = et.stalled
        BY <1>0, <1>4, <2>2 DEF EtAfter, HistAfter, EtRec
      <3> QED
        BY <1>0, <1>4, <2>1, <3>1
    <2>3. CASE ~(et.e < NumEvents)
      <3>1. hist.overrun \/ et.late > Period => hist'.overrun
        BY <1>0, <1>4, <2>3 DEF HistAfter, HistRec
      <3>2. Delay \in Nat
        BY <1>0, ConstantsType DEF Delay
      <3>3. ~et.stalled /\ sets = 0 /\ et.late <= Period => Delay = Period - et.late
        <4> SUFFICES ASSUME ~et.stalled, sets = 0, et.late <= Period
                     PROVE  (et.slack + Period) % Width = Period - et.late
          BY DEF Delay
        <4>1. CASE et.late = 0
          BY <1>0, <2>1, <4>1, ConstantsType
        <4>2. CASE et.late > 0
          <5>1. et.slack + Period = (Period - et.late) + Width /\ Period - et.late \in 0 .. Width - 1
            BY <1>0, <2>1, <4>2, ConstantsType
          <5>2. \A x \in 0 .. Width - 1 : (x + Width) % Width = x
            BY ConstantsType
          <5> QED
            BY <5>1, <5>2
        <4> QED
          BY <1>0, <4>1, <4>2
      <3> HIDE DEF Delay
      <3>4. CASE Delay <= Period
        <4>1. /\ et'.at = "idle" /\ et'.late = 0 /\ et'.slack = Delay /\ et'.sleep = Delay
              /\ et'.stalled = et.stalled
          BY <1>0, <1>4, <2>3, <3>4 DEF EtAfter, EtRec
        <4> QED
          BY <1>4, <3>1, <4>1
      <3>5. CASE ~(Delay <= Period)
        <4>1. et'.at = "idle" /\ et'.late = 0 /\ et'.sleep = et.sleep /\ et'.stalled
          BY <1>0, <1>4, <2>3, <3>5 DEF EtAfter, EtRec
        <4>2. ~et.stalled /\ sets = 0 => et.late > Period
          BY <1>0, <3>3, <3>5, ConstantsType
        <4> QED
          BY <1>0, <1>4, <2>1, <3>1, <4>1, <4>2
      <3> QED
        BY <3>4, <3>5
    <2> QED
      BY <2>2, <2>3
  <1>5. CASE Proc
    <2>1. CASE et' = EtAfter(et.e) /\ hist' = HistAfter(et.e)
      BY <1>4, <1>5, <2>1 DEF Proc
    <2>2. CASE et' = [et EXCEPT !.at = "report", !.left = conf[et.e].of] /\ hist' = hist
      <3>1. /\ et'.slack = et.slack /\ et'.sleep = et.sleep /\ et'.late = et.late
            /\ et'.stalled = et.stalled /\ sets' = sets /\ et.sleep = 0
        <4>1. sets' = sets /\ et.at = "proc"
          BY <1>5 DEF Proc
        <4>2. et.sleep = 0
          BY <1>0, <4>1
        <4> QED
          BY <1>0, <2>2, <4>1, <4>2 DEF EtRec
      <3> QED
        BY <1>0, <2>2, <3>1
    <2> QED
      BY <1>5, <2>1, <2>2 DEF Proc
  <1>6. CASE Reset
    BY <1>4, <1>6 DEF Reset
  <1>7. CASE Tick
    <2>1. sets' = sets /\ hist' = hist
      BY <1>7 DEF Tick
    <2>2. CASE et.stalled
      BY <1>7, <2>1, <2>2 DEF Tick
    <2>3. CASE ~et.stalled
      <3>1. /\ et'.slack = (et.slack - 1) % Width
            /\ et'.sleep = IF et.sleep = 0 THEN 0 ELSE et.sleep - 1
            /\ et'.late = IF et.sleep = 0 THEN et.late + 1 ELSE 0
            /\ et'.stalled = et.stalled /\ et'.at = et.at
            /\ et.sleep = 0 => et.late < MaxLate
        BY <1>0, <1>7, <2>3 DEF Tick, EtRec
      <3>2. et'.sleep > 0 => et'.at = "idle" /\ et'.late = 0
        BY <1>0, <3>1
      <3>3. ASSUME sets = 0
            PROVE  et'.slack = IF et'.late = 0 THEN et'.sleep ELSE Width - et'.late
        <4>1. CASE et.sleep > 0
          <5>1. et.slack = et.sleep /\ et.slack - 1 \in 0 .. Width - 1
            BY <1>0, <2>3, <3>3, <4>1, ConstantsType
          <5>2. (et.slack - 1) % Width = et.slack - 1
            BY <5>1, ConstantsType
          <5> QED
            BY <1>0, <3>1, <4>1, <5>1, <5>2
        <4>2. CASE et.sleep = 0 /\ et.late = 0
          <5>1. et.slack - 1 = -1
            BY <1>0, <2>3, <3>3, <4>2
          <5>2. (-1) % Width = Width - 1
            BY ConstantsType
          <5> QED
            BY <3>1, <4>2, <5>1, <5>2
        <4>3. CASE et.sleep = 0 /\ et.late > 0
          <5>1. et.slack = Width - et.late /\ et.slack - 1 \in 0 .. Width - 1
            BY <1>0, <2>3, <3>1, <3>3, <4>3, ConstantsType
          <5>2. (et.slack - 1) % Width = et.slack - 1
            BY <5>1, ConstantsType
          <5> QED
            BY <1>0, <3>1, <4>3, <5>1, <5>2, ConstantsType
        <4> QED
          BY <1>0, <4>1, <4>2, <4>3
      <3> QED
        BY <2>1, <2>3, <3>1, <3>2, <3>3
    <2> QED
      BY <2>2, <2>3
  <1>8. ASSUME NEW d \in {Jump, -Jump}, SetClock(d)
        PROVE  Paced' /\ OversleepsOnlyIfLate'
    <2>1. /\ sets' = sets + 1 /\ sets' > 0 /\ hist' = hist
          /\ et'.sleep = et.sleep /\ et'.late = et.late /\ et'.at = et.at
      BY <1>0, <1>8 DEF SetClock, EtRec
    <2> QED
      BY <1>0, <2>1
  <1> QED
    BY <1>1, <1>2, <1>3, <1>5, <1>6, <1>7, <1>8 DEF Next, EventTask

-----------------------------------------------------------------------------
(* Reports. *)

(* A step that leaves the reports alone, and the events but for their      *)
(* ages and for marks it sets.                                             *)
LEMMA UnreportedStep ==
  ASSUME TypeOK, ReportedAsIs, Resetting,
         hist'.sent = hist.sent, hist'.dropped = hist.dropped,
         \A e \in Events : ev'[e].occ = ev[e].occ /\ (ev[e].chg => ev'[e].chg),
         et'.at = "reset" => et.at = "reset" /\ et'.e = et.e
  PROVE  ReportedAsIs' /\ Resetting'
  <1>1. et.e \in Events
    BY DEF TypeOK
  <1> QED
    BY <1>1 DEF ReportedAsIs, Resetting

LEMMA ReportStep ==
  ASSUME TypeOK, AgesBounded, InCheck, ReportedAsIs, Resetting, Next
  PROVE  ReportedAsIs' /\ Resetting'
  <1>0. /\ ev \in [Events -> EvRec] /\ om \in OmRec /\ et \in EtRec /\ hist \in HistRec
        /\ et.e \in Events
    BY TypeOKIs DEF EtRec
  <1>1. CASE \E o \in Objs, v \in Values : Convert(o, v)
    <2>1. UNCHANGED <<ev, et>> /\ hist'.sent = hist.sent /\ hist'.dropped = hist.dropped
      BY <1>0, <1>1 DEF Convert, HistRec
    <2> QED
      BY <2>1, UnreportedStep
  <1>2. CASE ManagerWakes \/ TestObject \/ CheckRead \/ ClearFlag
    <2>1. UNCHANGED <<ev, et>> /\ hist'.sent = hist.sent /\ hist'.dropped = hist.dropped
      BY <1>0, <1>2 DEF ManagerWakes, TestObject, CheckRead, ClearFlag, HistRec
    <2> QED
      BY <2>1, UnreportedStep
  <1>3. CASE CheckDecide
    <2> DEFINE e == First(om.left)
               t == Toggles(e, om.read, obj[om.o].new)
    <2>1. e \in Events
      BY <1>0, <1>3, FirstEvent DEF CheckDecide, InCheck, OmRec
    <2>2. /\ ev' = IF t THEN [ev EXCEPT ![e] = Toggled(e, obj[om.o].age)] ELSE ev
          /\ UNCHANGED et
      BY <1>3 DEF CheckDecide
    <2>3. /\ hist'.sent = hist.sent
          /\ hist'.dropped = IF t /\ et.e = e /\ et.at = "reset"
                               THEN hist.dropped \cup {e} ELSE hist.dropped
      BY <1>0, <1>3 DEF CheckDecide, HistRec
    <2> HIDE DEF e, t
    <2>4. CASE ~t
      BY <2>2, <2>3, <2>4, UnreportedStep
    <2>5. CASE t
      <3>1. /\ \A f \in Events : f # e => ev'[f] = ev[f]
            /\ ev'[e].chg
        BY <1>0, <2>1, <2>2, <2>5 DEF Toggled
      <3>2. ReportedAsIs'
        BY <2>3, <2>5, <3>1 DEF ReportedAsIs
      <3>3. Resetting'
        BY <1>0, <2>2, <2>3, <2>5, <3>1 DEF Resetting
      <3> QED
        BY <3>2, <3>3
    <2> QED
      BY <2>4, <2>5
  <1>4. CASE EventTaskWakes
    <2>1. UNCHANGED <<ev, hist>> /\ et'.at = "proc"
      BY <1>0, <1>4 DEF EventTaskWakes, EtRec
    <2> QED
      BY <2>1, UnreportedStep
  <1>5. EtAfter(et.e).at # "reset" /\ HistAfter(et.e).sent = hist.sent
          /\ HistAfter(et.e).dropped = hist.dropped
    BY <1>0 DEF EtAfter, HistAfter, EtRec, HistRec
  <1>6. CASE Proc
    <2> DEFINE e == et.e
               n == IF conf[e].cond = "INTERVAL" THEN IntervalEvent(e) ELSE ev[e]
    <2>1. /\ ev' = [ev EXCEPT ![e] = n]
          /\ et' \in {[et EXCEPT !.at = "report", !.left = conf[e].of], EtAfter(e)}
          /\ hist' \in {hist, HistAfter(e)}
      BY <1>6 DEF Proc
    <2>2. n.occ = ev[e].occ /\ (ev[e].chg => n.chg)
      BY <1>0, IntervalType
    <2> HIDE DEF n
    <2>3. \A f \in Events : ev'[f].occ = ev[f].occ /\ (ev[f].chg => ev'[f].chg)
      BY <1>0, <2>1, <2>2
    <2>4. et'.at # "reset" /\ hist'.sent = hist.sent /\ hist'.dropped = hist.dropped
      BY <1>0, <1>5, <2>1 DEF EtRec
    <2> QED
      BY <2>3, <2>4, UnreportedStep
  <1>7. CASE Report
    <2>1. /\ ev' = ev /\ hist'.sent = [hist.sent EXCEPT ![et.e] = ev[et.e].occ]
          /\ hist'.dropped = hist.dropped \ {et.e}
      BY <1>0, <1>7 DEF Report, HistRec
    <2>2. et'.e = et.e
      BY <1>0, <1>7 DEF Report, EtRec
    <2>3. hist.sent \in [Events -> BOOLEAN]
      BY <1>0 DEF HistRec
    <2>4. /\ hist'.sent[et.e] = ev[et.e].occ
          /\ \A f \in Events : f # et.e => hist'.sent[f] = hist.sent[f]
      BY <1>0, <2>1, <2>3
    <2>5. ReportedAsIs'
      BY <2>1, <2>4 DEF ReportedAsIs
    <2>6. Resetting'
      BY <2>1, <2>2, <2>4 DEF Resetting
    <2> QED
      BY <2>5, <2>6
  <1>8. CASE Reset
    <2>1. /\ ev' = [ev EXCEPT ![et.e].chg = FALSE] /\ et' = EtAfter(et.e)
          /\ hist' = HistAfter(et.e) /\ et.at = "reset"
      BY <1>8 DEF Reset
    <2>2. /\ \A f \in Events : ev'[f].occ = ev[f].occ
          /\ \A f \in Events : f # et.e => ev'[f] = ev[f]
      BY <1>0, <2>1 DEF EvRec
    <2>3. ReportedAsIs'
      BY <1>5, <2>1, <2>2 DEF ReportedAsIs, Resetting
    <2> QED
      BY <1>5, <2>1, <2>3 DEF Resetting
  <1>9. CASE Tick \/ \E d \in {Jump, -Jump} : SetClock(d)
    <2>1. /\ hist' = hist /\ et'.at = et.at /\ et'.e = et.e
      BY <1>0, <1>9 DEF Tick, SetClock, EtRec
    <2>2. \A e \in Events : ev'[e].occ = ev[e].occ /\ ev'[e].chg = ev[e].chg
      BY <1>0, <1>9 DEF Tick, SetClock, EvRec
    <2> QED
      BY <2>1, <2>2, UnreportedStep
  <1> QED
    BY <1>1, <1>2, <1>3, <1>4, <1>6, <1>7, <1>8, <1>9 DEF Next, Manager, EventTask

-----------------------------------------------------------------------------
(* Checks. *)
LEMMA StillAgrees ==
  ASSUME NEW e, NEW o, Agrees(e, o), conf' = conf, obj'[o].val = obj[o].val,
         obj'[o].new => obj[o].new, ev'[e].occ = ev[e].occ
  PROVE  Agrees(e, o)'
  BY DEF Agrees, Differs, Steady, Raise, Release

(* A step that leaves the manager, the values and what was missed alone. *)
LEMMA UncheckedStep ==
  ASSUME TypeOK, InCheck, Checked, conf' = conf, om' = om, hist'.missed = hist.missed,
         \A o \in Objs : /\ obj'[o].val = obj[o].val /\ obj'[o].new = obj[o].new
                         /\ obj'[o].chg = obj[o].chg,
         \A e \in Events : ev'[e].occ = ev[e].occ
  PROVE  InCheck' /\ Checked'
  <1>1. om.o \in Objs /\ om.seen \subseteq Events
    BY DEF TypeOK
  <1>2. \A o \in Objs : Watched(o)' = Watched(o) /\ Watched(o) \subseteq Events
    BY DEF Watched
  <1>3. InCheck'
    BY <1>1, <1>2 DEF InCheck, Checking
  <1>4. \A o \in Objs, e \in Events : Agrees(e, o) => Agrees(e, o)'
    BY StillAgrees
  <1>5. Checked'
    BY <1>1, <1>2, <1>4 DEF Checked
  <1> QED
    BY <1>3, <1>5

LEMMA ConvertChecked ==
  ASSUME TypeOK, InCheck, Checked, NEW o \in Objs, NEW v \in Values, Convert(o, v)
  PROVE  InCheck' /\ Checked'
  <1>0. /\ obj \in [Objs -> ObjRec] /\ om \in OmRec /\ hist \in HistRec
        /\ om.o \in Objs /\ om.seen \subseteq Events
    BY TypeOKIs DEF OmRec
  <1>1. UNCHANGED <<conf, ev, om>> /\ \A p \in Objs : p # o => obj'[p] = obj[p]
    BY <1>0 DEF Convert
  <1>2. /\ obj'[o].val = v /\ (obj'[o].new <=> v # obj[o].val)
        /\ obj'[o].chg <=> (obj[o].chg \/ v # obj[o].val)
    BY <1>0 DEF Convert
  <1>3. \A p \in Objs : Watched(p)' = Watched(p) /\ Watched(p) \subseteq Events
    BY <1>1 DEF Watched
  <1>4. InCheck'
    <2>1. \A p \in Objs : obj[p].chg => obj'[p].chg
      BY <1>1, <1>2
    <2> QED
      BY <1>0, <1>1, <1>3, <2>1 DEF InCheck, Checking
  <1>5. CASE v = obj[o].val
    <2>1. hist' = hist
      BY <1>5 DEF Convert
    <2>2. \A p \in Objs, e \in Events : Agrees(e, p) => Agrees(e, p)'
      BY <1>1, <1>2, <1>5, StillAgrees
    <2>3. \A p \in Objs : (obj'[p].chg <=> obj[p].chg) /\ obj'[p].val = obj[p].val
      BY <1>1, <1>2, <1>5
    <2> QED
      BY <1>0, <1>1, <1>3, <1>4, <2>1, <2>2, <2>3 DEF Checked
  <1>6. CASE v # obj[o].val
    <2>1. \A p \in Objs, e \in Events : p # o /\ Agrees(e, p) => Agrees(e, p)'
      BY <1>1, StillAgrees
    <2>2. /\ \A p \in Objs : p # o => hist'.missed[p] = hist.missed[p]
          /\ om.o = o => om.seen \subseteq hist'.missed[o]
      <3>1. CASE om.o = o
        <4>1. hist' = [hist EXCEPT !.missed[o] = hist.missed[o] \cup om.seen]
          BY <1>6, <3>1 DEF Convert
        <4> QED
          BY <1>0, <4>1 DEF HistRec
      <3>2. CASE om.o # o
        BY <3>2 DEF Convert
      <3> QED
        BY <3>1, <3>2
    <2>3. obj'[o].chg
      BY <1>2, <1>6
    <2>4. ASSUME NEW p \in Objs, ~obj'[p].chg PROVE \A e \in Watched(p)' \ hist'.missed[p] : Agrees(e, p)'
      BY <1>1, <1>3, <2>1, <2>2, <2>3, <2>4 DEF Checked
    <2>5. ASSUME NEW e \in om.seen \ hist'.missed[om.o]
          PROVE  IF om.at = "decide" /\ e = First(om.left) THEN om.read = obj'[om.o].val
                   ELSE Agrees(e, om.o)'
      <3>1. om.o # o /\ e \in om.seen \ hist.missed[om.o] /\ obj'[om.o] = obj[om.o] /\ e \in Events
        BY <1>0, <1>1, <2>2, <2>5
      <3> QED
        BY <1>0, <1>1, <2>1, <3>1 DEF Checked
    <2>6. Checked'
      BY <1>1, <2>4, <2>5 DEF Checked
    <2> QED
      BY <1>4, <2>6
  <1> QED
    BY <1>5, <1>6

LEMMA DecideChecked ==
  ASSUME TypeOK, InCheck, Checked, CheckDecide,
         NEW e, e = First(om.left), NEW o, o = om.o
  PROVE  InCheck' /\ Checked'
  <1> DEFINE t == Toggles(e, om.read, obj[o].new)
  <1>0. /\ obj \in [Objs -> ObjRec] /\ ev \in [Events -> EvRec] /\ om \in OmRec
        /\ hist \in HistRec /\ o \in Objs /\ om.seen \subseteq Events
    BY TypeOKIs DEF OmRec
  <1>1. /\ om.at = "decide" /\ obj[o].chg /\ om.left \subseteq Watched(o)
        /\ om.seen \cup om.left = Watched(o) /\ om.seen \cap om.left = {e} /\ om.left # {}
    BY DEF CheckDecide, InCheck, Checking
  <1>2. e \in om.left /\ e \in om.seen /\ e \in Events /\ o \in conf[e].of
    BY <1>1 DEF Watched
  <1>3. /\ ev' = IF t THEN [ev EXCEPT ![e] = Toggled(e, obj[o].age)] ELSE ev
        /\ obj' = IF t /\ conf[e].cond = "CHANGED" THEN [obj EXCEPT ![o].new = FALSE] ELSE obj
        /\ om' = [om EXCEPT !.at = "check", !.read = 0, !.left = om.left \ {e}]
        /\ conf' = conf
    BY DEF CheckDecide
  <1>4. /\ \A p \in Objs : p # o => hist'.missed[p] = hist.missed[p]
        /\ hist'.missed[o] = IF Holding(e) THEN hist.missed[o] \cup {e} ELSE hist.missed[o]
    BY <1>0 DEF CheckDecide, HistRec
  <1>5. om'.at = "check" /\ om'.o = o /\ om'.left = om.left \ {e} /\ om'.seen = om.seen
    BY <1>0, <1>3 DEF OmRec
  <1>6. t <=> ~Holding(e) /\ Differs(e, om.read, obj[o].new)
    BY DEF Toggles, Differs
  <1> HIDE DEF t
  <1>7. \A p \in Objs : Watched(p)' = Watched(p) /\ Watched(p) \subseteq Events
    BY <1>3 DEF Watched
  <1>8. /\ \A p \in Objs : obj'[p].val = obj[p].val /\ obj'[p].chg = obj[p].chg
        /\ \A p \in Objs : obj'[p].new => obj[p].new
        /\ t /\ conf[e].cond = "CHANGED" => ~obj'[o].new
    BY <1>0, <1>3 DEF ObjRec
  <1>9. /\ \A f \in Events : f # e => ev'[f] = ev[f]
        /\ ev'[e].occ <=> (IF t THEN ~ev[e].occ ELSE ev[e].occ)
    BY <1>0, <1>2, <1>3 DEF Toggled
  <1>10. InCheck'
    <2>1. obj'[o].chg
      BY <1>0, <1>1, <1>8
    <2> QED
      BY <1>0, <1>1, <1>2, <1>5, <1>7, <2>1 DEF InCheck, Checking
  <1>11. \A f \in Events, p \in Objs : f # e /\ Agrees(f, p) => Agrees(f, p)'
    BY <1>3, <1>8, <1>9, StillAgrees
  <1>12. ASSUME NEW p \in Objs, ~obj'[p].chg, NEW f \in Watched(p) \ hist'.missed[p]
         PROVE  Agrees(f, p)'
    <2>1. p # o /\ f \in Watched(p) \ hist.missed[p] /\ f \in Events
      BY <1>1, <1>4, <1>7, <1>8, <1>12
    <2>2. Agrees(f, p)
      BY <1>8, <1>12, <2>1 DEF Checked
    <2>3. CASE f = e
      BY <1>2, <1>3, <2>1, <2>3 DEF Agrees
    <2> QED
      BY <1>11, <2>1, <2>2, <2>3
  <1>13. ASSUME NEW f \in om.seen \ hist'.missed[o] PROVE Agrees(f, o)'
    <2>1. f \in om.seen \ hist.missed[o] /\ f \in Events
      BY <1>0, <1>4, <1>13
    <2>2. CASE f # e
      <3>1. Agrees(f, o)
        BY <1>1, <2>1, <2>2 DEF Checked
      <3> QED
        BY <1>0, <1>11, <2>1, <2>2, <3>1
    <2>3. CASE f = e
      <3>1. om.read = obj[o].val /\ ~Holding(e)
        BY <1>1, <1>4, <1>13, <2>1, <2>3 DEF Checked
      <3>2. t <=> Differs(e, obj[o].val, obj[o].new)
        BY <1>6, <3>1
      <3>3. CASE conf[e].cond = "CHANGED"
        BY <1>0, <1>3, <1>8, <2>3, <3>2, <3>3 DEF Agrees, Differs
      <3>4. CASE conf[e].cond # "CHANGED"
        <4> SUFFICES ASSUME Steady(conf[e], obj[o].val) PROVE ~Differs(e, obj[o].val, obj[o].new)'
          BY <1>0, <1>3, <1>8, <2>3 DEF Agrees, Steady, Raise, Release
        <4>1. ~(Raise(conf[e], obj[o].val) /\ Release(conf[e], obj[o].val))
          BY <3>4 DEF Steady
        <4>2. t <=> IF ev[e].occ THEN Release(conf[e], obj[o].val) ELSE Raise(conf[e], obj[o].val)
          BY <3>2, <3>4 DEF Differs
        <4>3. ~(IF ev'[e].occ THEN Release(conf[e], obj[o].val) ELSE Raise(conf[e], obj[o].val))
          BY <1>9, <4>1, <4>2
        <4> QED
          BY <1>0, <1>3, <1>8, <3>4, <4>3 DEF Differs, Raise, Release
      <3> QED
        BY <3>3, <3>4
    <2> QED
      BY <2>2, <2>3
  <1>14. Checked'
    <2>1. \A p \in Objs : ~obj'[p].chg => \A f \in Watched(p)' \ hist'.missed[p] : Agrees(f, p)'
      BY <1>7, <1>12
    <2>2. \A f \in om'.seen \ hist'.missed[om'.o] : Agrees(f, om.o)'
      BY <1>5, <1>13
    <2> QED
      BY <1>5, <2>1, <2>2 DEF Checked
  <1> QED
    BY <1>10, <1>14

(* The manager goes on to an object, reads the value for the next event,   *)
(* and clears the flag when no event is left.                              *)
LEMMA ReadChecked ==
  ASSUME TypeOK, InCheck, Checked, CheckRead, NEW e, e = First(om.left), NEW o, o = om.o
  PROVE  InCheck' /\ Checked'
  <1>0. om \in OmRec /\ hist \in HistRec /\ o \in Objs /\ om.seen \subseteq Events
    BY TypeOKIs DEF OmRec
  <1>1. /\ om.at = "check" /\ obj[o].chg /\ om.left \subseteq Watched(o) /\ om.left # {}
        /\ om.seen \cup om.left = Watched(o) /\ om.seen \cap om.left = {}
    BY DEF CheckRead, InCheck, Checking
  <1>2. UNCHANGED <<conf, obj, ev>>
    BY DEF CheckRead
  <1>3. \A p \in Objs : Watched(p)' = Watched(p) /\ Watched(p) \subseteq Events
    BY <1>2 DEF Watched
  <1>4. e \in om.left
    BY <1>0, <1>1, <1>3, FirstEvent
  <1>5. /\ om'.at = "decide" /\ om'.o = o /\ om'.left = om.left
        /\ om'.read = obj[o].val /\ om'.seen = om.seen \cup {e}
    BY <1>0 DEF CheckRead, OmRec
  <1>6. /\ \A p \in Objs : p # o => hist'.missed[p] = hist.missed[p]
        /\ hist'.missed[o] = hist.missed[o] \ {e}
    BY <1>0 DEF CheckRead, HistRec
  <1>7. InCheck'
    BY <1>0, <1>1, <1>2, <1>3, <1>4, <1>5 DEF InCheck, Checking
  <1>8. \A p \in Objs, f \in Events : Agrees(f, p) => Agrees(f, p)'
    BY <1>2, StillAgrees
  <1>9. ASSUME NEW p \in Objs, ~obj'[p].chg, NEW f \in Watched(p) \ hist'.missed[p]
        PROVE  Agrees(f, p)'
    <2>1. p # o /\ f \in Watched(p) \ hist.missed[p] /\ f \in Events /\ ~obj[p].chg
      BY <1>1, <1>2, <1>3, <1>6, <1>9
    <2>2. Agrees(f, p)
      BY <2>1 DEF Checked
    <2> QED
      BY <1>8, <2>1, <2>2
  <1>10. ASSUME NEW f \in om.seen \cup {e}, f \notin hist'.missed[o], f # e
         PROVE  Agrees(f, o)'
    <2>1. f \in om.seen \ hist.missed[o] /\ f \in Events
      BY <1>0, <1>6, <1>10
    <2>2. Agrees(f, o)
      BY <1>1, <2>1 DEF Checked
    <2> QED
      BY <1>0, <1>8, <2>1, <2>2
  <1>11. Checked'
    <2>1. \A p \in Objs : ~obj'[p].chg => \A f \in Watched(p)' \ hist'.missed[p] : Agrees(f, p)'
      BY <1>3, <1>9
    <2>2. \A f \in om'.seen \ hist'.missed[om'.o] : f # e => Agrees(f, o)'
      BY <1>5, <1>10
    <2>3. First(om'.left) = e
      BY <1>5
    <2> QED
      BY <1>2, <1>5, <2>1, <2>2, <2>3 DEF Checked
  <1> QED
    BY <1>7, <1>11

LEMMA ClearChecked ==
  ASSUME TypeOK, InCheck, Checked, ClearFlag, NEW o, o = om.o
  PROVE  InCheck' /\ Checked'
  <1>0. obj \in [Objs -> ObjRec] /\ om \in OmRec /\ o \in Objs /\ om.seen \subseteq Events
    BY TypeOKIs DEF OmRec
  <1>1. om.at = "check" /\ om.seen = Watched(o)
    BY DEF ClearFlag, InCheck, Checking
  <1>2. UNCHANGED <<conf, ev, hist>> /\ om'.seen = {} /\ om'.at \in {"idle", "test"}
    BY <1>0 DEF ClearFlag, OmRec
  <1>3. \A p \in Objs : /\ obj'[p].val = obj[p].val /\ obj'[p].new = obj[p].new
                        /\ p # o => obj'[p].chg = obj[p].chg
    BY <1>0 DEF ClearFlag, ObjRec
  <1>4. \A p \in Objs : Watched(p)' = Watched(p) /\ Watched(p) \subseteq Events
    BY <1>2 DEF Watched
  <1>5. InCheck'
    BY <1>2 DEF InCheck, Checking
  <1>6. \A p \in Objs, f \in Events : Agrees(f, p) => Agrees(f, p)'
    BY <1>2, <1>3, StillAgrees
  <1>7. ASSUME NEW p \in Objs, ~obj'[p].chg, NEW f \in Watched(p) \ hist.missed[p]
        PROVE  Agrees(f, p)'
    <2>1. Agrees(f, p)
      <3>1. CASE p = o
        BY <1>1, <1>7, <3>1 DEF Checked
      <3>2. CASE p # o
        BY <1>3, <1>7, <3>2 DEF Checked
      <3> QED
        BY <3>1, <3>2
    <2> QED
      BY <1>4, <1>6, <2>1
  <1>8. Checked'
    BY <1>2, <1>4, <1>7 DEF Checked
  <1> QED
    BY <1>5, <1>8

LEMMA TestChecked ==
  ASSUME TypeOK, InCheck, Checked, ManagerWakes \/ TestObject
  PROVE  InCheck' /\ Checked'
  <1>0. om \in OmRec /\ om.o \in Objs
    BY TypeOKIs DEF OmRec
  <1>1. UNCHANGED <<conf, obj, ev, hist>>
    BY DEF ManagerWakes, TestObject
  <1>2. om.seen = {} /\ om'.seen = {}
    BY <1>0 DEF ManagerWakes, TestObject, InCheck, Checking, OmRec
  <1>3. \A p \in Objs : Watched(p)' = Watched(p) /\ Watched(p) \subseteq Events
    BY <1>1 DEF Watched
  <1>4. \/ om'.at \in {"idle", "test"}
        \/ om'.at = "check" /\ om'.o = om.o /\ obj[om.o].chg /\ om'.left = Watched(om.o)
    BY <1>0 DEF ManagerWakes, TestObject, OmRec
  <1>5. InCheck'
    BY <1>0, <1>1, <1>2, <1>3, <1>4 DEF InCheck, Checking
  <1>6. \A p \in Objs, f \in Events : Agrees(f, p) => Agrees(f, p)'
    BY <1>1, StillAgrees
  <1>7. Checked'
    BY <1>1, <1>2, <1>3, <1>6 DEF Checked
  <1> QED
    BY <1>5, <1>7

LEMMA CheckStep ==
  ASSUME TypeOK, InCheck, Checked, Next
  PROVE  InCheck' /\ Checked'
  <1>0. /\ obj \in [Objs -> ObjRec] /\ ev \in [Events -> EvRec] /\ hist \in HistRec
    BY TypeOKIs
  <1>1. CASE \E o \in Objs, v \in Values : Convert(o, v)
    BY <1>1, ConvertChecked
  <1>2. CASE ManagerWakes \/ TestObject
    BY <1>2, TestChecked
  <1>3. CASE CheckRead
    BY <1>3, ReadChecked
  <1>4. CASE CheckDecide
    BY <1>4, DecideChecked
  <1>5. CASE ClearFlag
    BY <1>5, ClearChecked
  <1>6. CASE EventTask
    <2>1. UNCHANGED <<conf, obj, om>>
      BY <1>6 DEF EventTask, EventTaskWakes, Proc, Report, Reset
    <2>2. hist'.missed = hist.missed
      BY <1>0, <1>6 DEF EventTask, EventTaskWakes, Proc, Report, Reset, HistAfter, HistRec
    <2>3. \A e \in Events : ev'[e].occ = ev[e].occ
      <3>1. CASE EventTaskWakes \/ Report
        BY <3>1 DEF EventTaskWakes, Report
      <3>2. CASE Reset
        BY <1>0, <3>2 DEF Reset, EvRec
      <3>3. CASE Proc
        <4>1. \A e \in Events : IntervalEvent(e).occ = ev[e].occ
          BY <1>0 DEF IntervalEvent, EvRec
        <4> QED
          BY <1>0, <3>3, <4>1 DEF Proc
      <3> QED
        BY <1>6, <3>1, <3>2, <3>3 DEF EventTask
    <2> QED
      BY <2>1, <2>2, <2>3, UncheckedStep
  <1>7. CASE Tick \/ \E d \in {Jump, -Jump} : SetClock(d)
    <2>1. UNCHANGED <<conf, om, hist>>
      BY <1>7 DEF Tick, SetClock
    <2>2. \A o \in Objs : /\ obj'[o].val = obj[o].val /\ obj'[o].new = obj[o].new
                          /\ obj'[o].chg = obj[o].chg
      BY <1>0, <1>7 DEF Tick, SetClock, ObjRec
    <2>3. \A e \in Events : ev'[e].occ = ev[e].occ
      BY <1>0, <1>7 DEF Tick, SetClock, EvRec
    <2> QED
      BY <2>1, <2>2, <2>3, UncheckedStep
  <1> QED
    BY <1>1, <1>2, <1>3, <1>4, <1>5, <1>6, <1>7 DEF Next, Manager

-----------------------------------------------------------------------------
LEMMA InitIInv == Init => IInv
  <1> SUFFICES ASSUME Init PROVE IInv
    OBVIOUS
  <1>1. /\ 0 \in Values \cup {0} /\ 0 \in Age /\ 1 \in Objs /\ 1 \in Events
        /\ 0 \in 0 .. Width - 1 /\ 0 \in 0 .. Period /\ 0 \in 0 .. MaxLate /\ 0 \in 0 .. MaxSets
    <2>1. Jump * MaxSets \in Nat
      BY ConstantsType
    <2> QED
      BY <2>1, ConstantsType DEF Age, Objs, Events
  <1>2. TypeOK
    <2>1. [val |-> 0, new |-> FALSE, age |-> 0, chg |-> FALSE] \in ObjRec
      BY <1>1 DEF ObjRec
    <2>2. [occ |-> FALSE, chg |-> FALSE, age |-> Unset] \in EvRec
      BY DEF EvRec
    <2>3. om \in OmRec
      BY <1>1, Zenon DEF Init, OmRec
    <2>4. et \in EtRec
      BY <1>1, Zenon DEF Init, EtRec
    <2>5. hist \in HistRec
      <3>1. [o \in Objs |-> Events] \in [Objs -> SUBSET Events]
        OBVIOUS
      <3>2. [e \in Events |-> FALSE] \in [Events -> BOOLEAN]
        OBVIOUS
      <3> QED
        BY <3>1, <3>2, Zenon DEF Init, HistRec
    <2> QED
      BY <1>1, <2>1, <2>2, <2>3, <2>4, <2>5, TypeOKIs DEF Init
  <1>3. AgesBounded
    <2>1. sets = 0 /\ Jump * sets = 0
      BY ConstantsType DEF Init
    <2> QED
      BY <2>1 DEF AgesBounded, Init
  <1>4. InCheck
    BY DEF Init, InCheck, Checking
  <1>5. Checked
    <2>1. \A o \in Objs : hist.missed[o] = Events /\ Watched(o) \subseteq Events
      BY DEF Init, Watched
    <2>2. om.seen = {}
      BY DEF Init
    <2> QED
      BY <2>1, <2>2 DEF Checked
  <1>6. ReportedAsIs /\ Resetting
    BY DEF Init, ReportedAsIs, Resetting
  <1>7. Paced /\ OversleepsOnlyIfLate
    BY DEF Init, Paced, OversleepsOnlyIfLate
  <1> QED
    BY <1>2, <1>3, <1>4, <1>5, <1>6, <1>7 DEF IInv

LEMMA NextIInv == IInv /\ [Next]_vars => IInv'
  <1> SUFFICES ASSUME IInv, [Next]_vars PROVE IInv'
    OBVIOUS
  <1>1. CASE Next
    BY <1>1, TypeStep, PaceStep, ReportStep, CheckStep DEF IInv
  <1>2. CASE UNCHANGED vars
    <2> USE <1>2 DEF vars
    <2>1. TypeOK' /\ AgesBounded'
      BY DEF IInv, TypeOK, AgesBounded, Ahead
    <2>2. InCheck' /\ Checked'
      BY UncheckedStep DEF IInv
    <2>3. ReportedAsIs' /\ Resetting'
      BY DEF IInv, ReportedAsIs, Resetting
    <2>4. Paced' /\ OversleepsOnlyIfLate'
      BY DEF IInv, Paced, OversleepsOnlyIfLate
    <2> QED
      BY <2>1, <2>2, <2>3, <2>4 DEF IInv
  <1> QED
    BY <1>1, <1>2

(* The inductive invariant: what the unlocked exchanges between the timer  *)
(* task, the object manager and the event task preserve at every step.     *)
THEOREM EventInvariance == Spec => []IInv
  BY InitIInv, NextIInv, PTL DEF Spec

(* The types; in particular an age stays within the cap and the steps of   *)
(* the clock, however the put-offs of FTE_EVENT_proc add up.               *)
THEOREM EventTypeCorrect == Spec => []TypeOK
  <1>1. IInv => TypeOK
    BY DEF IInv
  <1> QED
    BY <1>1, EventInvariance, PTL

(* An object with a clear flag has events that agree with its value: what  *)
(* the manager passes over (FTE_OBJ_wasChanged) needs no check, but for    *)
(* the exceptions Settled names.                                           *)
THEOREM EventsSettle == Spec => []Settled
  <1>1. IInv => Settled
    <2>1. \A e, v, c : Toggles(e, v, c) => Differs(e, v, c)
      BY DEF Toggles, Differs
    <2> QED
      BY <2>1, Zenon DEF IInv, Checked, Settled, Agrees
  <1> QED
    BY <1>1, EventInvariance, PTL

(* FTE_EVENT_proc's reset of bChanged loses nothing but a toggle in the    *)
(* moment between the last report and the reset.                           *)
THEOREM ReportsAreTrue == Spec => []ReportedAsIs
  <1>1. IInv => ReportedAsIs
    BY DEF IInv
  <1> QED
    BY <1>1, EventInvariance, PTL

(* FTE_EVENT_task's unsigned delay wraps only after a round longer than    *)
(* the period, or a step of the clock: short delays do not accumulate.     *)
THEOREM OversleepNeedsOverrun == Spec => []OversleepsOnlyIfLate
  <1>1. IInv => OversleepsOnlyIfLate
    BY DEF IInv
  <1> QED
    BY <1>1, EventInvariance, PTL

-----------------------------------------------------------------------------
(* Thresholds. *)
LEMMA SmallWord ==
  ASSUME NEW x \in 0 .. Word - 1
  PROVE  U(x) = x
  BY ConstantsType DEF U

(* The unsigned comparisons of FTE_EVENT_check are the intended ones where *)
(* no operand wraps: a value does not both raise and release an event.     *)
LEMMA SaneIsSteady ==
  ASSUME NEW c \in EventConfig, Sane(c), NEW v \in 0 .. Word - 1
  PROVE  ~(Raise(c, v) /\ Release(c, v))
  <1>0. /\ c.cond \in {"ABOVE", "BELOW", "INSIDE", "OUTSIDE"} /\ c.thr \in Nat
        /\ c.lower \in 0 .. Word - 1 /\ c.upper \in 0 .. Word - 1
    BY DEF Sane, EventConfig, Conditions
  <1>1. U(v) = v
    BY SmallWord
  <1> USE ConstantsType
  <1>2. CASE c.cond = "ABOVE"
    <2>1. U(c.upper - c.thr) = c.upper - c.thr
      BY <1>0, <1>2, SmallWord DEF Sane
    <2> QED
      BY <1>0, <1>1, <1>2, <2>1 DEF Raise, Release
  <1>3. CASE c.cond = "BELOW"
    <2>1. U(c.lower + c.thr) = c.lower + c.thr
      BY <1>0, <1>3, SmallWord DEF Sane
    <2> QED
      BY <1>0, <1>1, <1>3, <2>1 DEF Raise, Release
  <1>4. CASE c.cond = "INSIDE"
    <2>1. /\ U(c.upper + c.thr) = c.upper + c.thr
          /\ U(c.lower - c.thr) = c.lower - c.thr
      BY <1>0, <1>4, SmallWord DEF Sane
    <2> QED
      BY <1>0, <1>1, <1>4, <2>1 DEF Raise, Release
  <1>5. CASE c.cond = "OUTSIDE"
    <2>1. /\ U(c.upper - c.thr) = c.upper - c.thr
          /\ U(c.lower + c.thr) = c.lower + c.thr
      BY <1>0, <1>5, SmallWord DEF Sane
    <2> QED
      BY <1>0, <1>1, <1>5, <2>1 DEF Raise, Release
  <1> QED
    BY <1>0, <1>2, <1>3, <1>4, <1>5

(* Only a check releases an event, and only by a value that releases it.   *)
LEMMA OnlyReleased ==
  ASSUME IInv, Next, NEW e \in Events, ev[e].occ, ~ev'[e].occ, conf[e].cond # "CHANGED"
  PROVE  Release(conf[e], om.read)
  <1>0. /\ obj \in [Objs -> ObjRec] /\ ev \in [Events -> EvRec]
    BY TypeOKIs DEF IInv
  <1>1. CASE \/ \E o \in Objs, v \in Values : Convert(o, v)
             \/ ManagerWakes \/ TestObject \/ CheckRead \/ ClearFlag
             \/ EventTaskWakes \/ Report
    BY <1>1 DEF Convert, ManagerWakes, TestObject, CheckRead, ClearFlag, EventTaskWakes, Report
  <1>2. CASE CheckDecide
    <2>1. Toggles(e, om.read, obj[om.o].new)
      <3>1. ev' # ev /\ (First(om.left) # e => ev'[e] = ev[e])
        BY <1>0, <1>2 DEF CheckDecide
      <3> QED
        BY <1>2, <3>1 DEF CheckDecide
    <2> QED
      BY <2>1 DEF Toggles
  <1>3. CASE Reset
    BY <1>0, <1>3 DEF Reset, EvRec
  <1>4. CASE Proc
    <2>1. IntervalEvent(e).occ = ev[e].occ
      BY <1>0 DEF IntervalEvent, EvRec
    <2> QED
      BY <1>0, <1>4, <2>1 DEF Proc
  <1>5. CASE Tick \/ \E d \in {Jump, -Jump} : SetClock(d)
    BY <1>0, <1>5 DEF Tick, SetClock, EvRec
  <1> QED
    BY <1>1, <1>2, <1>3, <1>4, <1>5 DEF Next, Manager, EventTask

(* No event chatters at a steady value: FTE_EVENT_check never releases by  *)
(* a value that satisfies the event's own condition, for every limit and   *)
(* threshold that stays within the word.                                   *)
THEOREM SaneDoesNotChatter == Spec => NoChatter
  <1>1. ASSUME IInv, [Next]_vars
        PROVE  [\A e \in Events :
                  ev[e].occ /\ ~ev'[e].occ /\ Sane(conf[e]) /\ om.read \in 0 .. Word - 1
                    => ~Raise(conf[e], om.read)]_vars
    <2> SUFFICES ASSUME Next, NEW e \in Events, ev[e].occ, ~ev'[e].occ, Sane(conf[e]),
                        om.read \in 0 .. Word - 1
                 PROVE  ~Raise(conf[e], om.read)
      BY <1>1
    <2>1. conf[e] \in EventConfig
      BY <1>1, ConfType DEF IInv, TypeOK
    <2>2. Release(conf[e], om.read)
      BY <1>1, OnlyReleased DEF Sane
    <2> QED
      BY <2>1, <2>2, SaneIsSteady
  <1> QED
    BY <1>1, EventInvariance, PTL DEF Spec, NoChatter
=============================================================================
