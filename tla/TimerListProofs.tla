-------------------------- MODULE TimerListProofs --------------------------
(***************************************************************************)
(* Proofs about TimerList, for any number of timers, any timeouts and any  *)
(* word.                                                                   *)
(*                                                                         *)
(* What keeps a list awake is the one-shot of its head: whenever the timer *)
(* task is idle, the head is marked as running and has its one-shot.       *)
(***************************************************************************)
EXTENDS TimerList, FiniteSetTheorems, SequenceTheorems, WellFoundedInduction,
        NaturalsInduction, TLAPS

N == Cardinality(Timers)
Links == Timers \cup {NULL}

QRec == [head : Links, next : [Timers -> Links],
         ts : [Timers -> 0 .. Width - 1], running : SUBSET Timers,
         shot : [Timers -> -1 .. MaxTicks], stale : [0 .. MaxTicks -> Nat],
         refused : BOOLEAN]

(* The list wakes up: its head runs and has a one-shot, unless refused. *)
Awake(l) ==
  l.head # NULL => l.head \in l.running /\ (l.refused \/ l.shot[l.head] >= 0)

IInv ==
  /\ TypeOK
  /\ Idle => Awake(q)
  /\ calling => cursor \in Timers

-----------------------------------------------------------------------------
(* Induction: a set of numbers with 0 and the successor of each of its     *)
(* members below n has all up to n.                                        *)
LEMMA Induct ==
  ASSUME NEW S, NEW n \in Nat, 0 \in S, \A i \in 0 .. n - 1 : i \in S => i + 1 \in S
  PROVE  \A i \in 0 .. n : i \in S
  <1> DEFINE T == {i \in 0 .. n : i \notin S}
  <1> SUFFICES ASSUME T # {} PROVE FALSE
    OBVIOUS
  <1>1. T \subseteq Nat
    OBVIOUS
  <1>2. PICK i \in T : \A j \in T : ~(<<j, i>> \in OpToRel(<, Nat))
    <2> HIDE DEF T
    <2> QED
      BY <1>1, NatLessThanWellFounded, WFMin
  <1>3. i # 0 /\ i - 1 \in 0 .. n - 1
    OBVIOUS
  <1>4. i - 1 \notin T
    <2>1. i \in Nat /\ i - 1 \in Nat /\ i - 1 < i
      BY <1>1, <1>3
    <2> HIDE DEF T
    <2> QED
      BY <1>2, <2>1 DEF OpToRel
  <1>5. i - 1 \in S
    BY <1>3, <1>4
  <1> QED
    BY <1>3, <1>5

(* A recursion over 0 .. n has a solution: step[i] takes the value at i to *)
(* that at i + 1.                                                          *)
Steps(step, n, V) == \A i \in 0 .. n - 1 : \A v \in V : step[i][v] \in V
Solves(f, step, n, v0, V) ==
  f \in [0 .. n -> V] /\ f[0] = v0 /\ \A i \in 0 .. n - 1 : f[i + 1] = step[i][f[i]]

LEMMA Recursion ==
  ASSUME NEW n \in Nat, NEW V, NEW v0 \in V, NEW step, Steps(step, n, V)
  PROVE  \E f : Solves(f, step, n, v0, V)
  <1> DEFINE S == {k \in 0 .. n : \E f : Solves(f, step, k, v0, V)}
  <1> USE DEF Solves, Steps
  <1>1. 0 \in S
    <2> DEFINE f == [i \in 0 .. 0 |-> v0]
    <2>1. f \in [0 .. 0 -> V] /\ f[0] = v0
      OBVIOUS
    <2>2. \A i \in 0 .. 0 - 1 : f[i + 1] = step[i][f[i]]
      OBVIOUS
    <2>3. Solves(f, step, 0, v0, V) /\ 0 \in 0 .. n
      BY <2>1, <2>2
    <2> HIDE DEF Solves, f
    <2> QED
      BY <2>3
  <1>2. ASSUME NEW k \in 0 .. n - 1, k \in S PROVE k + 1 \in S
    <2>1. PICK f : Solves(f, step, k, v0, V)
      BY <1>2
    <2> DEFINE g == [i \in 0 .. k + 1 |-> IF i = k + 1 THEN step[k][f[k]] ELSE f[i]]
    <2>2. step[k][f[k]] \in V
      BY <2>1
    <2>3. g \in [0 .. k + 1 -> V] /\ g[0] = v0
      BY <2>1, <2>2
    <2>4. ASSUME NEW i \in 0 .. (k + 1) - 1 PROVE g[i + 1] = step[i][g[i]]
      <3>1. g[i] = f[i]
        OBVIOUS
      <3>2. CASE i = k
        BY <3>1, <3>2
      <3>3. CASE i # k
        <4>1. i \in 0 .. k - 1 /\ g[i + 1] = f[i + 1]
          BY <3>3
        <4> QED
          BY <2>1, <3>1, <4>1
      <3> QED
        BY <3>2, <3>3
    <2> HIDE DEF g
    <2>5. Solves(g, step, k + 1, v0, V)
      BY <2>3, <2>4
    <2> QED
      BY <2>5
  <1>3. n \in S
    <2> HIDE DEF S
    <2>1. \A i \in 0 .. n : i \in S
      BY <1>1, <1>2, Induct
    <2> QED
      BY <2>1
  <1> QED
    BY <1>3

LEMMA Constants ==
  /\ N \in Nat /\ Width \in Nat \ {0} /\ MaxTicks \in Nat
  /\ \A v \in 0 .. Width - 1 : Ticks(v) \in 0 .. MaxTicks
  /\ Reloads \subseteq 0 .. Width - 1
  <1>1. N \in Nat
    BY TimerAssumption, FS_CardinalityType DEF N
  <1>2. /\ Width \in Nat \ {0} /\ TicksPerSec * TickUnits \in Nat \ {0}
    BY TimerAssumption
  <1>3. MaxTicks \in Nat
    BY <1>2 DEF MaxTicks
  <1>4. ASSUME NEW v \in 0 .. Width - 1 PROVE Ticks(v) \in 0 .. MaxTicks
    <2>1. TicksPerSec * v \in Nat
      BY TimerAssumption
    <2>2. (TicksPerSec * v) % Width \in 0 .. Width - 1
      BY <1>2, <2>1
    <2> DEFINE x == (TicksPerSec * v) % Width
               d == TicksPerSec * TickUnits
    <2> HIDE DEF x, d
    <2>3. x \in 0 .. Width - 1 /\ d \in Nat \ {0}
      BY <1>2, <2>2 DEF x, d
    <2>4. x \div d \in 0 .. (Width - 1) \div d
      BY <1>2, <2>3
    <2> QED
      BY <2>4 DEF Ticks, MaxTicks, x, d
  <1>5. Reloads \subseteq 0 .. Width - 1
    BY TimerAssumption DEF Reloads, Bounded
  <1> QED
    BY <1>1, <1>2, <1>3, <1>4, <1>5

LEMMA WordType ==
  ASSUME NEW a \in 0 .. Width - 1, NEW b \in 0 .. Width - 1
  PROVE  Plus(a, b) \in 0 .. Width - 1 /\ Minus(a, b) \in 0 .. Width - 1
  BY Constants DEF Plus, Minus

(* The function Chain is defined by has a value at every place. *)
LEMMA ChainIs ==
  ASSUME NEW l \in QRec
  PROVE  /\ Chain(l) \in Seq(Timers)
         /\ l.head # NULL => Len(Chain(l)) > 0 /\ Chain(l)[1] = l.head
  <1> DEFINE Walks == [Links -> Seq(Timers)]
             after(s) == [t \in Links |-> IF t = NULL THEN << >> ELSE <<t>> \o s[l.next[t]]]
             walk == [i \in 0 .. N - 1 |-> [s \in Walks |-> after(s)]]
             empty == [t \in Links |-> << >>]
             Def(f) == f = [n \in 0 .. N |->
                              [t \in Links |-> IF n = 0 \/ t = NULL THEN << >>
                                                 ELSE <<t>> \o f[n - 1][l.next[t]]]]
             from == CHOOSE f : Def(f)
  <1>0. Chain(l) = from[N][l.head]
    BY DEF Chain, N, Links
  <1>1. \A s \in Walks : after(s) \in Walks
    <2> SUFFICES ASSUME NEW s \in Walks, NEW t \in Links
                 PROVE  (IF t = NULL THEN << >> ELSE <<t>> \o s[l.next[t]]) \in Seq(Timers)
      OBVIOUS
    <2>1. CASE t = NULL
      BY <2>1
    <2>2. CASE t # NULL
      <3>1. t \in Timers /\ l.next[t] \in Links
        BY <2>2 DEF Links, QRec
      <3>2. <<t>> \in Seq(Timers) /\ s[l.next[t]] \in Seq(Timers)
        BY <3>1
      <3>3. <<t>> \o s[l.next[t]] \in Seq(Timers)
        BY <3>2, ConcatProperties
      <3> QED
        BY <2>2, <3>3
    <2> QED
      BY <2>1, <2>2
  <1>2. empty \in Walks /\ N \in Nat
    BY Constants
  <1>3. \A i \in 0 .. N - 1 : \A s \in Walks : walk[i][s] \in Walks
    <2> HIDE DEF Walks, after
    <2> QED
      BY <1>1
  <1>4. PICK g \in [0 .. N -> Walks] :
          g[0] = empty /\ \A i \in 0 .. N - 1 : g[i + 1] = walk[i][g[i]]
    <2> HIDE DEF Walks, walk, empty
    <2>1. \E f : Solves(f, walk, N, empty, Walks)
      BY <1>2, <1>3, Recursion DEF Steps
    <2> QED
      BY <2>1 DEF Solves
  <1>5. \A n \in 0 .. N : g[n] = [t \in Links |-> IF n = 0 \/ t = NULL THEN << >>
                                                    ELSE <<t>> \o g[n - 1][l.next[t]]]
    <2> TAKE n \in 0 .. N
    <2>1. CASE n = 0
      <3>1. g[n] = empty
        BY <1>4, <2>1
      <3> QED
        BY <2>1, <3>1
    <2>2. CASE n # 0
      <3>1. n - 1 \in 0 .. N - 1 /\ n - 1 \in 0 .. N /\ n = (n - 1) + 1
        BY <1>2, <2>2
      <3>2. g[n - 1] \in Walks
        BY <1>4, <3>1
      <3>3. g[n] = walk[n - 1][g[n - 1]]
        BY <1>4, <3>1
      <3>4. g[n] = after(g[n - 1])
        <4> HIDE DEF Walks, after
        <4> QED
          BY <3>1, <3>2, <3>3
      <3> QED
        BY <2>2, <3>4
    <2> QED
      BY <2>1, <2>2
  <1>6. Def(g)
    <2> HIDE DEF Walks
    <2> QED
      BY <1>4, <1>5
  <1>7. Def(from)
    <2> HIDE DEF Def
    <2> QED
      BY <1>6
  <1> HIDE DEF from
  <1>8. \A n \in 0 .. N : from[n] = [t \in Links |-> IF n = 0 \/ t = NULL THEN << >>
                                                       ELSE <<t>> \o from[n - 1][l.next[t]]]
    BY <1>7
  <1> DEFINE S == {n \in 0 .. N : from[n] \in Walks}
  <1>9. \A n \in 0 .. N : n \in S
    <2>1. 0 \in S
      <3>1. from[0] = empty
        BY <1>2, <1>8
      <3> HIDE DEF empty, Walks
      <3> QED
        BY <1>2, <3>1
    <2>2. ASSUME NEW n \in 0 .. N - 1, n \in S PROVE n + 1 \in S
      <3>1. n + 1 \in 0 .. N /\ n + 1 # 0 /\ (n + 1) - 1 = n
        BY <1>2
      <3>2. from[n + 1] = after(from[n])
        BY <1>8, <3>1
      <3>3. from[n] \in Walks
        BY <2>2
      <3> HIDE DEF Walks, after
      <3> QED
        BY <1>1, <3>1, <3>2, <3>3
    <2> HIDE DEF S
    <2> QED
      BY <1>2, <2>1, <2>2, Induct
  <1>10. l.head \in Links /\ from[N] \in Walks
    BY <1>2, <1>9 DEF QRec
  <1>11. Chain(l) \in Seq(Timers)
    BY <1>0, <1>10
  <1>12. ASSUME l.head # NULL PROVE Len(Chain(l)) > 0 /\ Chain(l)[1] = l.head
    <2>1. l.head \in Timers /\ l.next[l.head] \in Links
      BY <1>10, <1>12 DEF QRec, Links
    <2>2. N # 0
      BY <2>1, TimerAssumption, FS_EmptySet DEF N
    <2>3. N \in 0 .. N /\ N - 1 \in 0 .. N
      BY <1>2, <2>2
    <2>4. Chain(l) = <<l.head>> \o from[N - 1][l.next[l.head]]
      <3>1. from[N] = [t \in Links |-> IF N = 0 \/ t = NULL THEN << >>
                                         ELSE <<t>> \o from[N - 1][l.next[t]]]
        BY <1>8, <2>3, Zenon
      <3> QED
        BY <1>0, <1>10, <1>12, <2>2, <3>1, Zenon
    <2>5. from[N - 1][l.next[l.head]] \in Seq(Timers)
      BY <1>9, <2>1, <2>3
    <2>6. <<l.head>> \in Seq(Timers) /\ Len(<<l.head>>) = 1 /\ <<l.head>>[1] = l.head
      BY <2>1
    <2>7. /\ Len(Chain(l)) = 1 + Len(from[N - 1][l.next[l.head]])
          /\ Chain(l)[1] = l.head
      <3> DEFINE r == from[N - 1][l.next[l.head]]
      <3> HIDE DEF r
      <3>1. Chain(l) = <<l.head>> \o r /\ r \in Seq(Timers)
        BY <2>4, <2>5 DEF r
      <3>2. Len(Chain(l)) = 1 + Len(r) /\ Chain(l)[1] = l.head
        BY <2>6, <3>1
      <3> QED
        BY <3>2 DEF r
    <2>8. Len(from[N - 1][l.next[l.head]]) \in Nat
      BY <2>5
    <2> QED
      BY <2>7, <2>8
  <1> QED
    BY <1>11, <1>12

LEMMA AggregatedType ==
  ASSUME NEW l \in QRec, l.head # NULL, NEW r \in 0 .. Width - 1
  PROVE  Aggregated(l, r) \in [1 .. Len(Chain(l)) -> 0 .. Width - 1]
  <1> DEFINE c == Chain(l)
             W == 0 .. Width - 1
             K == Len(c) - 1
             walk == [i \in 0 .. K - 1 |-> [v \in W |-> Plus(v, l.ts[c[i + 2]])]]
             Def(f) == f = [j \in 1 .. Len(c) |-> IF j = 1 THEN r ELSE Plus(f[j - 1], l.ts[c[j]])]
             agg == CHOOSE f : Def(f)
  <1>0. Aggregated(l, r) = agg
    BY DEF Aggregated
  <1>1. /\ Len(c) \in Nat /\ Len(c) > 0 /\ K \in Nat
        /\ \A j \in 1 .. Len(c) : l.ts[c[j]] \in W
    <2>1. c \in Seq(Timers) /\ Len(c) > 0
      BY ChainIs
    <2>2. l.ts \in [Timers -> W]
      BY DEF QRec
    <2> HIDE DEF c, W
    <2>3. Len(c) \in Nat /\ \A j \in 1 .. Len(c) : c[j] \in Timers
      BY <2>1
    <2> QED
      BY <2>1, <2>2, <2>3
  <1>2. \A v \in W, w \in W : Plus(v, w) \in W
    BY WordType
  <1> HIDE DEF c, W
  <1>3. Steps(walk, K, W) /\ r \in W
    <2>1. r \in W
      BY DEF W
    <2>2. ASSUME NEW i \in 0 .. K - 1, NEW v \in W PROVE walk[i][v] \in W
      <3>1. i + 2 \in 1 .. Len(c)
        BY <1>1
      <3> QED
        BY <1>1, <1>2, <3>1
    <2> HIDE DEF walk
    <2> QED
      BY <2>1, <2>2 DEF Steps
  <1>4. PICK f : Solves(f, walk, K, r, W)
    <2> HIDE DEF walk, K
    <2> QED
      BY <1>1, <1>3, Recursion
  <1>5. /\ f \in [0 .. K -> W] /\ f[0] = r
        /\ \A i \in 0 .. K - 1 : f[i + 1] = Plus(f[i], l.ts[c[i + 2]])
    <2>1. /\ f \in [0 .. K -> W] /\ f[0] = r
          /\ \A i \in 0 .. K - 1 : f[i + 1] = walk[i][f[i]]
      <3> HIDE DEF walk, K
      <3> QED
        BY <1>4 DEF Solves
    <2>2. \A i \in 0 .. K - 1 : f[i] \in W
      BY <1>1, <2>1
    <2> QED
      BY <2>1, <2>2
  <1> DEFINE g == [j \in 1 .. Len(c) |-> f[j - 1]]
  <1>6. Def(g)
    <2>1. ASSUME NEW j \in 1 .. Len(c)
          PROVE  g[j] = IF j = 1 THEN r ELSE Plus(g[j - 1], l.ts[c[j]])
      <3>1. CASE j = 1
        BY <1>5, <3>1
      <3>2. CASE j # 1
        <4>1. j - 2 \in 0 .. K - 1 /\ (j - 2) + 1 = j - 1 /\ (j - 2) + 2 = j
              /\ j - 1 \in 1 .. Len(c) /\ (j - 1) - 1 = j - 2
          BY <1>1, <3>2
        <4>2. f[j - 1] = Plus(f[j - 2], l.ts[c[j]])
          BY <1>5, <4>1
        <4>3. g[j] = f[j - 1] /\ g[j - 1] = f[j - 2]
          BY <4>1
        <4> QED
          BY <3>2, <4>2, <4>3
      <3> QED
        BY <3>1, <3>2
    <2> QED
      BY <2>1
  <1>7. Def(agg)
    <2> HIDE DEF Def, g
    <2> QED
      BY <1>6
  <1> HIDE DEF agg
  <1>8. /\ DOMAIN agg = 1 .. Len(c) /\ agg = [j \in 1 .. Len(c) |-> agg[j]]
        /\ \A j \in 1 .. Len(c) : agg[j] = IF j = 1 THEN r ELSE Plus(agg[j - 1], l.ts[c[j]])
    BY <1>7
  <1> DEFINE S == {i \in 0 .. K : agg[i + 1] \in W}
  <1>9. \A i \in 0 .. K : i \in S
    <2>1. 0 \in S
      BY <1>1, <1>3, <1>8
    <2>2. ASSUME NEW i \in 0 .. K - 1, i \in S PROVE i + 1 \in S
      <3>1. i + 1 \in 0 .. K /\ i + 2 \in 1 .. Len(c) /\ i + 2 # 1 /\ (i + 2) - 1 = i + 1
            /\ (i + 1) + 1 = i + 2
        BY <1>1
      <3>2. agg[i + 2] = Plus(agg[i + 1], l.ts[c[i + 2]])
        BY <1>8, <3>1
      <3>3. agg[i + 2] \in W
        BY <1>1, <1>2, <2>2, <3>1, <3>2
      <3> QED
        BY <3>1, <3>3
    <2> HIDE DEF S, K
    <2> QED
      BY <1>1, <2>1, <2>2, Induct
  <1>10. \A j \in 1 .. Len(c) : agg[j] \in W
    <2> TAKE j \in 1 .. Len(c)
    <2>1. j - 1 \in 0 .. K /\ (j - 1) + 1 = j
      BY <1>1
    <2> QED
      BY <1>9, <2>1
  <1> QED
    BY <1>0, <1>8, <1>10 DEF c, W

LEMMA FirstOf ==
  ASSUME NEW S \in SUBSET Nat, S # {}
  PROVE  First(S) \in S
  <1>1. PICK x \in S : \A y \in S : ~(<<y, x>> \in OpToRel(<, Nat))
    BY NatLessThanWellFounded, WFMin
  <1>2. ASSUME NEW y \in S PROVE x <= y
    <2>1. x \in Nat /\ y \in Nat
      OBVIOUS
    <2>2. ~(y < x)
      BY <1>1, <2>1 DEF OpToRel
    <2> QED
      BY <2>1, <2>2
  <1> QED
    BY <1>2, Zenon DEF First

-----------------------------------------------------------------------------
(* The operations on the list. *)
LEMMA Fields ==
  ASSUME NEW l \in QRec
  PROVE  /\ l.head \in Links /\ l.next \in [Timers -> Links] /\ l.running \in SUBSET Timers
         /\ l.ts \in [Timers -> 0 .. Width - 1] /\ l.shot \in [Timers -> -1 .. MaxTicks]
         /\ l.stale \in [0 .. MaxTicks -> Nat] /\ l.refused \in BOOLEAN
  BY DEF QRec

(* Field by field. *)
LEMMA ChangedHead ==
  ASSUME NEW l \in QRec, NEW h \in Links
  PROVE  [l EXCEPT !.head = h] \in QRec
  BY DEF QRec

LEMMA ChangedNext ==
  ASSUME NEW l \in QRec, NEW n \in [Timers -> Links]
  PROVE  [l EXCEPT !.next = n] \in QRec
  BY DEF QRec

LEMMA ChangedTs ==
  ASSUME NEW l \in QRec, NEW ts \in [Timers -> 0 .. Width - 1]
  PROVE  [l EXCEPT !.ts = ts] \in QRec
  BY DEF QRec

LEMMA ChangedRunning ==
  ASSUME NEW l \in QRec, NEW r \in SUBSET Timers
  PROVE  [l EXCEPT !.running = r] \in QRec
  BY DEF QRec

LEMMA SetTimeout ==
  ASSUME NEW l \in QRec, NEW t \in Timers
  PROVE  /\ setTimeout(l, t) \in QRec
         /\ setTimeout(l, t).head = l.head /\ setTimeout(l, t).running = l.running
         /\ setTimeout(l, t).refused \/ setTimeout(l, t).shot[t] >= 0
  <1> DEFINE ticks == Ticks(l.ts[t])
             stale == [n \in 0 .. MaxTicks |-> IF n = l.shot[t] THEN l.stale[n] + 1 ELSE l.stale[n]]
             shot == [l.shot EXCEPT ![t] = IF ticks = 0 THEN -1 ELSE ticks]
             refused == l.refused \/ ticks = 0
             m == setTimeout(l, t)
  <1>0. /\ l.ts[t] \in 0 .. Width - 1 /\ l.shot \in [Timers -> -1 .. MaxTicks]
        /\ l.stale \in [0 .. MaxTicks -> Nat] /\ l.refused \in BOOLEAN
    BY Fields
  <1>1. ticks \in 0 .. MaxTicks /\ MaxTicks \in Nat
    BY <1>0, Constants
  <1>2. m = [l EXCEPT !.stale = stale, !.shot = shot, !.refused = refused]
    <2>1. DOMAIN l.stale = 0 .. MaxTicks
      BY <1>0
    <2> QED
      BY <2>1, Zenon DEF setTimeout, QRec
  <1> HIDE DEF m
  <1>3. stale \in [0 .. MaxTicks -> Nat]
    <2>1. \A n \in 0 .. MaxTicks : l.stale[n] \in Nat
      BY <1>0, Zenon
    <2>2. \A x \in Nat : x + 1 \in Nat
      OBVIOUS
    <2> QED
      BY <2>1, <2>2, Zenon
  <1>4. shot \in [Timers -> -1 .. MaxTicks] /\ shot[t] = IF ticks = 0 THEN -1 ELSE ticks
    <2> HIDE DEF ticks
    <2> QED
      BY <1>0, <1>1
  <1>5. refused \in BOOLEAN /\ (refused \/ shot[t] >= 0)
    <2> HIDE DEF ticks, shot
    <2>1. refused \in BOOLEAN
      OBVIOUS
    <2>2. ticks # 0 => shot[t] >= 0
      BY <1>1, <1>4
    <2> QED
      BY <2>1, <2>2
  <1> HIDE DEF stale, shot, refused
  <1>6. /\ m.head = l.head /\ m.running = l.running /\ m.shot = shot /\ m.refused = refused
    BY <1>2 DEF QRec
  <1>7. m \in QRec
    BY <1>2, <1>3, <1>4, <1>5 DEF QRec
  <1> QED
    BY <1>5, <1>6, <1>7 DEF m

LEMMA NewHead ==
  ASSUME NEW l \in QRec, NEW t \in Timers, NEW r \in 0 .. Width - 1
  PROVE  /\ insertNewHeadTimer(l, t, r) \in QRec
         /\ Awake(insertNewHeadTimer(l, t, r))
  <1> DEFINE old == l.head
             m == IF old = NULL THEN l
                    ELSE [l EXCEPT !.ts[old] = Minus(r, l.ts[t]), !.running = @ \ {old}]
             k == [m EXCEPT !.next[t] = old, !.running = @ \cup {t}, !.head = t]
  <1>1. m \in QRec
    <2>1. CASE old = NULL
      BY <2>1
    <2>2. CASE old # NULL
      <3>1. Minus(r, l.ts[t]) \in 0 .. Width - 1
        BY Fields, WordType
      <3>2. [l.ts EXCEPT ![old] = Minus(r, l.ts[t])] \in [Timers -> 0 .. Width - 1]
        BY <3>1, Fields
      <3>3. m = [[l EXCEPT !.ts = [l.ts EXCEPT ![old] = Minus(r, l.ts[t])]]
                   EXCEPT !.running = l.running \ {old}]
        BY <2>2 DEF QRec
      <3>4. l.running \ {old} \in SUBSET Timers
        BY Fields
      <3>5. [l EXCEPT !.ts = [l.ts EXCEPT ![old] = Minus(r, l.ts[t])]] \in QRec
        BY <3>2, ChangedTs, Zenon
      <3> QED
        BY <3>3, <3>4, <3>5, ChangedRunning, Zenon
    <2> QED
      BY <2>1, <2>2
  <1>2. k \in QRec /\ k.head = t /\ t \in k.running
    <2> HIDE DEF m
    <2>1. [m.next EXCEPT ![t] = old] \in [Timers -> Links]
      BY <1>1, Fields
    <2>2. m.running \cup {t} \in SUBSET Timers /\ t \in Links
      BY <1>1, Fields DEF Links
    <2>3. k = [[[m EXCEPT !.next = [m.next EXCEPT ![t] = old]]
                  EXCEPT !.running = m.running \cup {t}] EXCEPT !.head = t]
      BY <1>1 DEF QRec
    <2>4. k \in QRec
      <3>1. [m EXCEPT !.next = [m.next EXCEPT ![t] = old]] \in QRec
        BY <1>1, <2>1, ChangedNext, Zenon
      <3>2. [[m EXCEPT !.next = [m.next EXCEPT ![t] = old]]
               EXCEPT !.running = m.running \cup {t}] \in QRec
        BY <2>2, <3>1, ChangedRunning, Zenon
      <3> QED
        BY <2>2, <2>3, <3>2, ChangedHead, Zenon
    <2>5. k.head = t /\ t \in k.running
      BY <1>1 DEF QRec
    <2> QED
      BY <2>4, <2>5
  <1>3. insertNewHeadTimer(l, t, r) = setTimeout(k, t)
    BY DEF insertNewHeadTimer
  <1> HIDE DEF k
  <1> QED
    BY <1>2, <1>3, SetTimeout DEF Awake

LEMMA Inserted ==
  ASSUME NEW l \in QRec, NEW t \in Timers, NEW r \in 0 .. Width - 1, l.head # NULL
  PROVE  /\ insertTimer(l, t, r) \in QRec
         /\ Awake(l) => Awake(insertTimer(l, t, r))
  <1> DEFINE c == Chain(l)
             agg == Aggregated(l, r)
             J == {j \in 1 .. Len(c) : j = Len(c) \/ agg[j + 1] > l.ts[t]}
             at == First(J)
             gap == Minus(l.ts[t], agg[at])
             m == [l EXCEPT !.ts[t] = gap, !.next[c[at]] = t, !.next[t] = l.next[c[at]]]
             k == IF at = Len(c) THEN m ELSE [m EXCEPT !.ts[c[at + 1]] = Minus(@, gap)]
  <1>0. insertTimer(l, t, r) = k
    BY DEF insertTimer
  <1>1. /\ c \in Seq(Timers) /\ Len(c) \in Nat /\ Len(c) > 0
        /\ agg \in [1 .. Len(c) -> 0 .. Width - 1]
    BY ChainIs, AggregatedType
  <1> HIDE DEF c, agg
  <1>2. at \in 1 .. Len(c)
    <2>1. J \in SUBSET Nat /\ Len(c) \in J /\ J \subseteq 1 .. Len(c)
      BY <1>1
    <2> HIDE DEF J
    <2> QED
      BY <2>1, FirstOf
  <1> HIDE DEF at
  <1>3. c[at] \in Timers /\ gap \in 0 .. Width - 1
    <2>1. c[at] \in Timers /\ agg[at] \in 0 .. Width - 1
      BY <1>1, <1>2
    <2>2. l.ts[t] \in 0 .. Width - 1
      BY Fields
    <2> QED
      BY <2>1, <2>2, WordType, Zenon
  <1> HIDE DEF gap
  <1>4. m \in QRec /\ m.head = l.head /\ m.running = l.running /\ m.shot = l.shot
        /\ m.refused = l.refused
    <2> DEFINE ts == [l.ts EXCEPT ![t] = gap]
               next == [[l.next EXCEPT ![c[at]] = t] EXCEPT ![t] = l.next[c[at]]]
    <2>1. ts \in [Timers -> 0 .. Width - 1]
      BY <1>3, Fields
    <2>2. next \in [Timers -> Links]
      <3>1. l.next \in [Timers -> Links] /\ t \in Links
        BY Fields DEF Links
      <3> QED
        BY <1>3, <3>1
    <2>3. m = [[l EXCEPT !.ts = ts] EXCEPT !.next = next]
      BY DEF QRec
    <2> HIDE DEF ts, next, m
    <2>4. m \in QRec
      <3>1. [l EXCEPT !.ts = ts] \in QRec
        BY <2>1, ChangedTs, Zenon
      <3> QED
        BY <2>2, <2>3, <3>1, ChangedNext, Zenon
    <2>5. /\ m.head = l.head /\ m.running = l.running /\ m.shot = l.shot
          /\ m.refused = l.refused
      BY <2>3 DEF QRec
    <2> QED
      BY <2>4, <2>5
  <1> HIDE DEF m
  <1>5. k \in QRec /\ k.head = m.head /\ k.running = m.running /\ k.shot = m.shot
        /\ k.refused = m.refused
    <2>1. CASE at = Len(c)
      BY <1>4, <2>1
    <2>2. CASE at # Len(c)
      <3>1. c[at + 1] \in Timers
        BY <1>1, <1>2, <2>2
      <3> DEFINE u == c[at + 1]
                 ts == [m.ts EXCEPT ![u] = Minus(m.ts[u], gap)]
      <3>2. k = [m EXCEPT !.ts = ts]
        BY <1>4, <2>2 DEF QRec
      <3>3. m.ts \in [Timers -> 0 .. Width - 1]
        BY <1>4, Fields
      <3> HIDE DEF u, k
      <3>4. ts \in [Timers -> 0 .. Width - 1]
        <4>1. u \in Timers
          BY <3>1 DEF u
        <4>2. Minus(m.ts[u], gap) \in 0 .. Width - 1
          BY <1>3, <3>3, <4>1, WordType
        <4> QED
          BY <3>3, <4>2
      <3> HIDE DEF ts
      <3>5. k \in QRec
        BY <1>4, <3>2, <3>4, ChangedTs, Zenon
      <3> QED
        BY <1>4, <3>2, <3>5 DEF QRec
    <2> QED
      BY <2>1, <2>2
  <1> HIDE DEF k
  <1> QED
    BY <1>0, <1>4, <1>5 DEF Awake

(* What is left to wait for the head, by the clock. *)
LEMMA RemainingType ==
  ASSUME NEW a \in 0 .. Width - 1, NEW b \in 0 .. Width - 1
  PROVE  b - Lesser(a, b) \in 0 .. Width - 1
  BY Constants DEF Lesser

LEMMA HeadListed ==
  ASSUME NEW l \in QRec, l.head # NULL
  PROVE  l.head \in Listed(l)
  BY ChainIs DEF Listed

LEMMA Started ==
  ASSUME TypeOK, NEW l \in QRec, NEW t \in Timers
  PROVE  /\ Start(l, t) \in QRec
         /\ Awake(l) => Awake(Start(l, t))
  <1> DEFINE m == [l EXCEPT !.ts[t] = reload[t], !.running = @ \ {t}]
             h == l.head
             c == IF h \in m.running THEN [m EXCEPT !.shot[t] = -1] ELSE m
             remaining == IF h \in m.running THEN m.ts[h] - Lesser(clock, m.ts[h]) ELSE m.ts[h]
             z == [m EXCEPT !.refused = FALSE]
  <1>0. /\ reload[t] \in 0 .. Width - 1 /\ clock \in 0 .. Width - 1
        /\ h \in Links
    BY Constants, Fields DEF TypeOK
  <1>1. m \in QRec /\ m.head = h /\ m.running = l.running \ {t} /\ m.refused = l.refused
        /\ m.shot = l.shot /\ m.ts[t] = reload[t]
    <2> DEFINE ts == [l.ts EXCEPT ![t] = reload[t]]
    <2>1. ts \in [Timers -> 0 .. Width - 1] /\ l.running \ {t} \in SUBSET Timers
      BY <1>0, Fields
    <2>2. m = [[l EXCEPT !.ts = ts] EXCEPT !.running = l.running \ {t}]
      BY DEF QRec
    <2>3. m \in QRec
      <3> HIDE DEF m, ts
      <3>1. [l EXCEPT !.ts = ts] \in QRec
        BY <2>1, ChangedTs, Zenon
      <3> QED
        BY <2>1, <2>2, <3>1, ChangedRunning, Zenon
    <2>4. /\ m.head = h /\ m.running = l.running \ {t} /\ m.refused = l.refused
          /\ m.shot = l.shot /\ m.ts[t] = reload[t]
      BY Fields DEF QRec
    <2> QED
      BY <2>3, <2>4
  <1> HIDE DEF m
  <1>2. CASE t \in Listed(l)
    <2>1. Start(l, t) = l
      BY <1>2 DEF Start
    <2> QED
      BY <2>1
  <1>3. CASE t \notin Listed(l) /\ h = NULL
    <2>1. Start(l, t) = insertNewHeadTimer(z, t, m.ts[t])
      BY <1>3 DEF Start, m
    <2>2. z \in QRec
      BY <1>1 DEF QRec
    <2> HIDE DEF z
    <2> QED
      BY <1>0, <1>1, <2>1, <2>2, NewHead
  <1>4. CASE t \notin Listed(l) /\ h # NULL
    <2>1. t # h /\ h \in Timers
      BY <1>0, <1>4, HeadListed DEF Links
    <2>2. c \in QRec /\ c.head = h /\ c.running = l.running \ {t} /\ c.refused = l.refused
          /\ c.shot[h] = l.shot[h]
      <3>1. CASE h \in m.running
        <4>1. -1 \in -1 .. MaxTicks
          BY Constants
        <4>2. c = [m EXCEPT !.shot = [m.shot EXCEPT ![t] = -1]]
          BY <1>1, <3>1 DEF QRec
        <4>3. [m.shot EXCEPT ![t] = -1] \in [Timers -> -1 .. MaxTicks]
          BY <1>1, <4>1, Fields
        <4>4. c \in QRec
          BY <1>1, <4>2, <4>3 DEF QRec
        <4>5. c.shot[h] = m.shot[h]
          BY <1>1, <2>1, <4>2, Fields DEF QRec
        <4> QED
          BY <1>1, <4>2, <4>4, <4>5 DEF QRec
      <3>2. CASE h \notin m.running
        BY <1>1, <3>2
      <3> QED
        BY <3>1, <3>2
    <2>3. remaining \in 0 .. Width - 1
      <3>1. m.ts[h] \in 0 .. Width - 1
        BY <1>1, <2>1, Fields
      <3> QED
        BY <1>0, <3>1, RemainingType
    <2>4. Start(l, t) = IF m.ts[t] < remaining THEN insertNewHeadTimer(c, t, remaining)
                          ELSE insertTimer(c, t, remaining)
      BY <1>4 DEF Start, m
    <2> HIDE DEF c, remaining
    <2>5. Awake(l) => Awake(c)
      BY <2>1, <2>2 DEF Awake
    <2>6. CASE m.ts[t] < remaining
      BY <2>2, <2>3, <2>4, <2>6, NewHead
    <2>7. CASE ~(m.ts[t] < remaining)
      BY <1>4, <2>2, <2>3, <2>4, <2>5, <2>7, Inserted
    <2> QED
      BY <2>6, <2>7
  <1> QED
    BY <1>2, <1>3, <1>4

LEMMA Stopped ==
  ASSUME TypeOK, NEW l \in QRec, NEW t \in Timers
  PROVE  /\ Stop(l, t) \in QRec
         /\ Awake(l) => Awake(Stop(l, t))
  <1> DEFINE n == l.next[t]
             isHead == l.head = t
             runs == isHead /\ t \in l.running
             remaining == IF runs THEN l.ts[t] - Lesser(clock, l.ts[t]) ELSE l.ts[t]
             head == IF isHead THEN n ELSE l.head
             next == [u \in Timers |-> IF ~isHead /\ u \in Listed(l) /\ l.next[u] = t
                                         THEN n ELSE l.next[u]]
             ts == [u \in Timers |-> IF u = n THEN Plus(l.ts[u], remaining) ELSE l.ts[u]]
             m == [l EXCEPT !.head = head, !.next = next, !.ts = ts]
             k == [m EXCEPT !.running = (@ \ {t}) \cup {n}]
  <1>0. /\ l.next \in [Timers -> Links] /\ l.ts \in [Timers -> 0 .. Width - 1]
        /\ l.head \in Links /\ clock \in 0 .. Width - 1 /\ n \in Links
    BY Fields DEF TypeOK
  <1>1. Stop(l, t) = IF t \notin Listed(l) THEN l
                       ELSE IF runs /\ n # NULL THEN setTimeout(k, n) ELSE m
    BY DEF Stop
  <1>2. remaining \in 0 .. Width - 1
    BY <1>0, RemainingType
  <1> HIDE DEF remaining
  <1>3. head \in Links /\ next \in [Timers -> Links]
    BY <1>0
  <1>4. ts \in [Timers -> 0 .. Width - 1]
    <2>1. ASSUME NEW u \in Timers PROVE Plus(l.ts[u], remaining) \in 0 .. Width - 1
      BY <1>0, <1>2, WordType
    <2> QED
      BY <1>0, <2>1
  <1> HIDE DEF next, ts
  <1>5. m \in QRec /\ m.head = head /\ m.running = l.running /\ m.shot = l.shot
        /\ m.refused = l.refused
    <2> HIDE DEF head
    <2>1. m = [[[l EXCEPT !.head = head] EXCEPT !.next = next] EXCEPT !.ts = ts]
      BY DEF QRec
    <2> HIDE DEF m
    <2>2. m \in QRec
      <3>1. [l EXCEPT !.head = head] \in QRec
        BY <1>3, ChangedHead, Zenon
      <3>2. [[l EXCEPT !.head = head] EXCEPT !.next = next] \in QRec
        BY <1>3, <3>1, ChangedNext, Zenon
      <3> QED
        BY <1>4, <2>1, <3>2, ChangedTs, Zenon
    <2>3. m.head = head /\ m.running = l.running /\ m.shot = l.shot /\ m.refused = l.refused
      BY <2>1 DEF QRec
    <2> QED
      BY <2>2, <2>3
  <1> HIDE DEF m
  <1>6. CASE t \notin Listed(l)
    BY <1>1, <1>6
  <1>7. CASE t \in Listed(l) /\ runs /\ n # NULL
    <2>1. n \in Timers /\ (l.running \ {t}) \cup {n} \in SUBSET Timers
      BY <1>0, <1>7, Fields DEF Links
    <2>2. k = [m EXCEPT !.running = (l.running \ {t}) \cup {n}]
      BY <1>5
    <2>3. k \in QRec
      BY <1>5, <2>1, <2>2, ChangedRunning, Zenon
    <2>4. k.head = n /\ n \in k.running
      BY <1>5, <1>7, <2>2 DEF QRec
    <2>5. Stop(l, t) = setTimeout(k, n)
      BY <1>1, <1>7
    <2> HIDE DEF k, n
    <2> QED
      BY <2>1, <2>3, <2>4, <2>5, SetTimeout DEF Awake
  <1>8. CASE t \in Listed(l) /\ ~(runs /\ n # NULL)
    <2>1. Stop(l, t) = m
      BY <1>1, <1>8
    <2>2. Awake(l) => Awake(m)
      <3>1. CASE isHead
        BY <1>5, <1>8, <3>1, TimerAssumption DEF Awake
      <3>2. CASE ~isHead
        BY <1>5, <3>2 DEF Awake
      <3> QED
        BY <3>1, <3>2
    <2> QED
      BY <1>5, <2>1, <2>2
  <1> QED
    BY <1>6, <1>7, <1>8

-----------------------------------------------------------------------------
(* The steps. *)
LEMMA TypeOKIs ==
  TypeOK <=> /\ q \in QRec /\ reload \in [Timers -> Reloads] /\ clock \in 0 .. Width - 1
             /\ cursor \in Timers \cup {NULL, "idle"} /\ calling \in BOOLEAN
  BY DEF TypeOK, QRec, Links

LEMMA InitIInv == Init => IInv
  <1> SUFFICES ASSUME Init PROVE IInv
    OBVIOUS
  <1>1. reload \in [Timers -> 0 .. Width - 1] /\ reload \in [Timers -> Reloads]
    BY Constants DEF Init
  <1>2. q \in QRec
    <2>1. [t \in Timers |-> NULL] \in [Timers -> Links] /\ NULL \in Links
      BY DEF Links
    <2>2. [t \in Timers |-> -1] \in [Timers -> -1 .. MaxTicks]
      BY Constants
    <2>3. [n \in 0 .. MaxTicks |-> 0] \in [0 .. MaxTicks -> Nat]
      OBVIOUS
    <2> QED
      BY <1>1, <2>1, <2>2, <2>3, Zenon DEF Init, QRec
  <1>3. clock \in 0 .. Width - 1
    BY TimerAssumption DEF Init
  <1>4. cursor \in Timers \cup {NULL, "idle"} /\ calling \in BOOLEAN
    BY Zenon DEF Init
  <1>5. TypeOK
    BY <1>1, <1>2, <1>3, <1>4, TypeOKIs, Zenon
  <1> QED
    BY <1>5 DEF Init, IInv, Awake

(* Somebody starts, stops or sets a timer. *)
LEMMA CallStep ==
  ASSUME IInv, NEW t \in Timers,
         \/ FTE_TIMER_start(t) \/ FTE_TIMER_stop(t) \/ FTE_TIMER_reset(t)
         \/ \E v \in Values : FTE_TIMER_setValue(t, v)
  PROVE  IInv'
  <1>0. TypeOK /\ q \in QRec /\ reload \in [Timers -> Reloads] /\ (Idle => Awake(q))
    BY TypeOKIs DEF IInv
  <1>1. UNCHANGED <<clock, cursor, calling>>
    BY DEF FTE_TIMER_start, FTE_TIMER_stop, FTE_TIMER_reset, FTE_TIMER_setValue
  <1>2. q' \in QRec /\ (Awake(q) => Awake(q')) /\ reload' \in [Timers -> Reloads]
    <2>1. CASE FTE_TIMER_start(t)
      <3>1. q' = Start(q, t) /\ reload' = reload
        BY <2>1 DEF FTE_TIMER_start, Change
      <3> QED
        BY <1>0, <3>1, Started
    <2>2. CASE FTE_TIMER_stop(t)
      <3>1. q' = Stop(q, t) /\ reload' = reload
        BY <2>2 DEF FTE_TIMER_stop, Change
      <3> QED
        BY <1>0, <3>1, Stopped
    <2>3. CASE FTE_TIMER_reset(t)
      <3>1. q' = Start(Stop(q, t), t) /\ reload' = reload
        BY <2>3 DEF FTE_TIMER_reset, Change
      <3>2. Stop(q, t) \in QRec /\ (Awake(q) => Awake(Stop(q, t)))
        BY <1>0, Stopped
      <3> QED
        BY <1>0, <3>1, <3>2, Started
    <2>4. ASSUME NEW v \in Values, FTE_TIMER_setValue(t, v)
          PROVE  q' \in QRec /\ (Awake(q) => Awake(q')) /\ reload' \in [Timers -> Reloads]
      <3> DEFINE s == Stop(q, t)
                 ts == [s.ts EXCEPT ![t] = Bounded(v)]
      <3>1. s \in QRec /\ (Awake(q) => Awake(s))
        BY <1>0, Stopped
      <3>2. q' = [s EXCEPT !.ts[t] = Bounded(v)] /\ reload' = [reload EXCEPT ![t] = Bounded(v)]
        BY <2>4 DEF FTE_TIMER_setValue, Change
      <3>3. Bounded(v) \in Reloads /\ Bounded(v) \in 0 .. Width - 1
        BY Constants DEF Reloads
      <3> HIDE DEF s
      <3>4. q' = [s EXCEPT !.ts = ts]
        BY <3>1, <3>2 DEF QRec
      <3>5. ts \in [Timers -> 0 .. Width - 1]
        BY <3>1, <3>3, Fields
      <3> HIDE DEF ts
      <3>6. q' \in QRec
        BY <3>1, <3>4, <3>5, ChangedTs, Zenon
      <3>7. q'.head = s.head /\ q'.running = s.running /\ q'.refused = s.refused /\ q'.shot = s.shot
        BY <3>1, <3>4 DEF QRec
      <3>8. reload' \in [Timers -> Reloads]
        BY <1>0, <3>2, <3>3
      <3> QED
        BY <3>1, <3>6, <3>7, <3>8 DEF Awake
    <2> QED
      BY <2>1, <2>2, <2>3, <2>4
  <1>3. TypeOK'
    BY <1>1, <1>2, TypeOKIs DEF TypeOK, IInv, QRec, Links
  <1>4. Idle' => Awake(q')
    BY <1>0, <1>1, <1>2 DEF Idle
  <1>5. calling' => cursor' \in Timers
    BY <1>1 DEF IInv
  <1> QED
    BY <1>3, <1>4, <1>5 DEF IInv, Awake

LEMMA TickStep == IInv /\ Tick => IInv'
  <1> SUFFICES ASSUME IInv, Tick PROVE IInv'
    OBVIOUS
  <1> DEFINE shot == [t \in Timers |-> IF q.shot[t] = -1 THEN -1 ELSE q.shot[t] - 1]
             stale == [n \in 0 .. MaxTicks |-> IF n = MaxTicks THEN 0 ELSE q.stale[n + 1]]
  <1>0. q \in QRec /\ clock \in 0 .. Width - 1 /\ (q.head # NULL => q.head \in Timers)
    BY TypeOKIs DEF IInv, QRec, Links
  <1>1. q.shot \in [Timers -> -1 .. MaxTicks] /\ q.stale \in [0 .. MaxTicks -> Nat]
        /\ MaxTicks \in Nat
    BY <1>0, Constants, Fields
  <1>2. q' = [q EXCEPT !.shot = shot, !.stale = stale]
    <2>1. DOMAIN q.stale = 0 .. MaxTicks
      BY <1>1
    <2> QED
      BY <1>0, <2>1, Zenon DEF Tick
  <1>3. \A t \in Timers : q.shot[t] >= 0 => q.shot[t] > 0
    BY <1>1 DEF Tick
  <1>4. shot \in [Timers -> -1 .. MaxTicks] /\ \A t \in Timers : q.shot[t] >= 0 => shot[t] >= 0
    <2>1. \A t \in Timers : q.shot[t] \in -1 .. MaxTicks /\ q.shot[t] # 0
      BY <1>1 DEF Tick
    <2> QED
      BY <1>1, <2>1
  <1>5. stale \in [0 .. MaxTicks -> Nat]
    <2>1. \A n \in 0 .. MaxTicks : n # MaxTicks => n + 1 \in 0 .. MaxTicks
      BY <1>1
    <2>2. \A n \in 0 .. MaxTicks : n # MaxTicks => q.stale[n + 1] \in Nat
      BY <1>1, <2>1, Zenon
    <2>3. 0 \in Nat
      OBVIOUS
    <2> QED
      BY <2>2, <2>3, Zenon
  <1> HIDE DEF shot, stale
  <1>6. q' \in QRec /\ q'.head = q.head /\ q'.running = q.running /\ q'.shot = shot
        /\ q'.refused = q.refused
    BY <1>0, <1>2, <1>4, <1>5 DEF QRec
  <1>7. clock' \in 0 .. Width - 1
    <2>1. clock + TickUnits \in Nat
      BY <1>0, Constants, TimerAssumption
    <2> QED
      BY <2>1, Constants DEF Tick
  <1>8. UNCHANGED <<reload, cursor, calling>>
    BY DEF Tick
  <1>9. TypeOK'
    BY <1>6, <1>7, <1>8 DEF TypeOK, IInv, QRec, Links
  <1>10. Awake(q) => Awake(q)'
    BY <1>0, <1>4, <1>6 DEF Awake
  <1> QED
    BY <1>8, <1>9, <1>10 DEF IInv, Idle

LEMMA FireStep ==
  ASSUME IInv, NEW l \in QRec, Fire(l), l.head = q.head
  PROVE  IInv'
  <1>0. clock \in 0 .. Width - 1 /\ UNCHANGED <<reload, clock, calling>> /\ Idle
    BY DEF IInv, TypeOK, Fire
  <1>1. CASE l.head = NULL
    <2>1. q' = l /\ cursor' = cursor
      BY <1>1 DEF Fire
    <2>2. TypeOK'
      BY <1>0, <2>1 DEF TypeOK, IInv, QRec, Links
    <2>3. Awake(q)'
      BY <1>1, <2>1 DEF Awake
    <2> QED
      BY <1>0, <2>1, <2>2, <2>3 DEF IInv
  <1>2. CASE l.head # NULL
    <2> DEFINE h == l.head
               x == IF clock > l.ts[h] THEN 0 ELSE l.ts[h] - clock
               ts == [l.ts EXCEPT ![h] = x]
               m == [l EXCEPT !.ts = ts]
               waiting == {j \in 1 .. Len(Chain(m)) : m.ts[Chain(m)[j]] # 0}
    <2>1. h \in Timers
      BY <1>2, Fields DEF Links
    <2>2. x \in 0 .. Width - 1
      <3>1. l.ts[h] \in 0 .. Width - 1
        BY <2>1, Fields
      <3> QED
        BY <1>0, <3>1, Constants
    <2>3. ts \in [Timers -> 0 .. Width - 1]
      BY <2>2, Fields
    <2>4. q' = [m EXCEPT !.head = Unexpired(m)] /\ cursor' = h
      <3>1. m = [l EXCEPT !.ts[h] = IF clock > l.ts[h] THEN 0 ELSE l.ts[h] - clock]
        BY DEF QRec
      <3> QED
        BY <1>2, <3>1 DEF Fire
    <2> HIDE DEF ts
    <2>5. m \in QRec
      BY <2>3, ChangedTs, Zenon
    <2> HIDE DEF m
    <2>6. Unexpired(m) \in Links
      <3>1. Chain(m) \in Seq(Timers)
        BY <2>5, ChainIs
      <3>2. CASE waiting = {}
        BY <3>2 DEF Unexpired, Links
      <3>3. CASE waiting # {}
        <4>1. waiting \in SUBSET Nat /\ waiting \subseteq 1 .. Len(Chain(m))
          BY <3>1
        <4>2. First(waiting) \in waiting
          <5> HIDE DEF waiting
          <5> QED
            BY <3>3, <4>1, FirstOf
        <4>3. First(waiting) \in 1 .. Len(Chain(m))
          BY <4>1, <4>2
        <4>4. Chain(m)[First(waiting)] \in Timers
          <5> HIDE DEF waiting
          <5> QED
            BY <3>1, <4>3, ElementOfSeq
        <4>5. Unexpired(m) = Chain(m)[First(waiting)]
          BY <3>3 DEF Unexpired
        <4> QED
          BY <4>4, <4>5 DEF Links
      <3> QED
        BY <3>2, <3>3
    <2>7. q' \in QRec
      BY <2>4, <2>5, <2>6, ChangedHead, Zenon
    <2>8. TypeOK'
      BY <1>0, <2>1, <2>4, <2>7 DEF TypeOK, IInv, QRec, Links
    <2>9. ~Idle'
      BY <2>1, <2>4, TimerAssumption DEF Idle
    <2>10. calling' => cursor' \in Timers
      BY <2>1, <2>4
    <2> QED
      BY <2>8, <2>9, <2>10 DEF IInv
  <1> QED
    BY <1>1, <1>2

LEMMA HandlerStep == IInv /\ Handler => IInv'
  <1> SUFFICES ASSUME IInv, Handler PROVE IInv'
    OBVIOUS
  <1>0. q \in QRec /\ (q.head # NULL => q.head \in Timers)
    BY TypeOKIs DEF IInv, QRec, Links
  <1>1. ASSUME NEW t \in Timers, FireShot(t) PROVE IInv'
    <2> DEFINE shot == [q.shot EXCEPT ![t] = -1]
    <2>1. shot \in [Timers -> -1 .. MaxTicks]
      <3>1. -1 \in -1 .. MaxTicks
        BY Constants
      <3> QED
        BY <1>0, <3>1, Fields
    <2>2. Fire([q EXCEPT !.shot = shot])
      <3>1. [q EXCEPT !.shot[t] = -1] = [q EXCEPT !.shot = shot]
        BY <1>0 DEF QRec
      <3> QED
        BY <1>1, <3>1 DEF FireShot
    <2> HIDE DEF shot
    <2>3. [q EXCEPT !.shot = shot] \in QRec /\ [q EXCEPT !.shot = shot].head = q.head
      BY <1>0, <2>1 DEF QRec
    <2> QED
      BY <2>2, <2>3, FireStep
  <1>2. CASE FireStale
    <2> DEFINE stale == [q.stale EXCEPT ![0] = q.stale[0] - 1]
    <2>1. stale \in [0 .. MaxTicks -> Nat]
      <3>1. q.stale \in [0 .. MaxTicks -> Nat] /\ 0 \in 0 .. MaxTicks
        BY <1>0, Constants, Fields
      <3>2. q.stale[0] \in Nat
        BY <3>1, Zenon
      <3>3. q.stale[0] - 1 \in Nat
        BY <1>2, <3>2 DEF FireStale
      <3> QED
        BY <3>1, <3>3, Zenon
    <2>2. Fire([q EXCEPT !.stale = stale])
      <3>1. [q EXCEPT !.stale[0] = q.stale[0] - 1] = [q EXCEPT !.stale = stale]
        BY <1>0 DEF QRec
      <3> QED
        BY <1>2, <3>1 DEF FireStale
    <2> HIDE DEF stale
    <2>3. [q EXCEPT !.stale = stale] \in QRec /\ [q EXCEPT !.stale = stale].head = q.head
      BY <1>0, <2>1 DEF QRec
    <2> QED
      BY <2>2, <2>3, FireStep
  <1>3. ASSUME NEW t \in Timers, CallbackBegins(t) PROVE IInv'
    <2>1. UNCHANGED <<q, reload, clock, cursor>> /\ cursor \in Timers /\ calling' \in BOOLEAN
      BY <1>3 DEF CallbackBegins
    <2> QED
      BY <2>1, TimerAssumption DEF IInv, TypeOK, Idle, Awake
  <1>4. CASE CallbackReturns
    <2>1. /\ UNCHANGED <<q, reload, clock>> /\ cursor \in Timers /\ ~calling'
          /\ cursor' = q.next[cursor] /\ calling' \in BOOLEAN
      BY <1>4 DEF CallbackReturns, IInv
    <2>2. cursor' \in Links
      BY <1>0, <2>1, Fields
    <2>3. ~Idle'
      BY <2>2, TimerAssumption DEF Idle, Links
    <2> QED
      BY <2>1, <2>2, <2>3 DEF IInv, TypeOK, Links
  <1>5. CASE HandlerEnds
    <2>1. UNCHANGED <<reload, clock, calling>> /\ ~calling /\ cursor' = "idle"
      BY <1>5 DEF HandlerEnds
    <2>2. q' \in QRec /\ Awake(q')
      <3>1. CASE q.head = NULL
        BY <1>0, <1>5, <3>1 DEF HandlerEnds, Awake
      <3>2. CASE q.head # NULL
        <4> DEFINE k == [q EXCEPT !.running = q.running \cup {q.head}]
        <4>1. q' = setTimeout(k, q.head) /\ q.head \in Timers
          BY <1>0, <1>5, <3>2 DEF HandlerEnds
        <4>2. k \in QRec
          <5>1. q.running \cup {q.head} \in SUBSET Timers
            BY <1>0, <4>1, Fields
          <5> QED
            BY <1>0, <5>1, ChangedRunning, Zenon
        <4>3. k.head = q.head /\ q.head \in k.running
          BY <1>0 DEF QRec
        <4> HIDE DEF k
        <4> QED
          BY <4>1, <4>2, <4>3, SetTimeout DEF Awake
      <3> QED
        BY <3>1, <3>2
    <2> QED
      BY <2>1, <2>2 DEF IInv, TypeOK, QRec, Links, Awake
  <1> QED
    BY <1>1, <1>2, <1>3, <1>4, <1>5 DEF Handler

LEMMA NextIInv == IInv /\ [Next]_vars => IInv'
  <1> SUFFICES ASSUME IInv, [Next]_vars PROVE IInv'
    OBVIOUS
  <1>1. CASE UNCHANGED vars
    BY <1>1 DEF vars, IInv, TypeOK, Idle, Awake
  <1>2. CASE Next
    BY <1>2, CallStep, TickStep, HandlerStep DEF Next
  <1> QED
    BY <1>1, <1>2

(* The inductive invariant of the timers. *)
THEOREM TimerInvariance == Spec => []IInv
  BY InitIInv, NextIInv, PTL DEF Spec

(* The types of the list: relative timeouts are words, whatever            *)
(* FTE_TIMER_start and FTE_TIMER_stop subtract from them, and the list     *)
(* holds timers only.                                                      *)
THEOREM TimerTypeCorrect == Spec => []TypeOK
  <1>1. IInv => TypeOK
    BY DEF IInv
  <1> QED
    BY <1>1, TimerInvariance, PTL

(* The timer list never sleeps for good: a list that is not empty has a    *)
(* one-shot, that of its head, unless MQX refused one.                     *)
THEOREM TimersStayArmed == Spec => []ArmedUnlessRefused
  <1>1. IInv => ArmedUnlessRefused
    BY DEF IInv, TypeOK, Awake, ArmedUnlessRefused, Armed
  <1> QED
    BY <1>1, TimerInvariance, PTL
=============================================================================
