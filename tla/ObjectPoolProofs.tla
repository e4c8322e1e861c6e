-------------------------- MODULE ObjectPoolProofs --------------------------
(***************************************************************************)
(* Proofs about ObjectPool, for any number of sensors, places and          *)
(* commands.                                                               *)
(*                                                                         *)
(* Everything is said of a pool and the objects made from it (Fit), so     *)
(* that it can be carried through the loop of a discovery, through a start *)
(* and through the operations on a single record.                          *)
(***************************************************************************)
EXTENDS ObjectPool, FiniteSetTheorems, FunctionTheorems, SequenceTheorems,
        WellFoundedInduction, NaturalsInduction, TLAPS

Ids == Slots \X BOOLEAN
Places(s, id) == {i \in DOMAIN s : Id(s[i]) = id}

(* Every number is on at least as many records as objects. *)
Stored(p, s) ==
  \A id \in Ids : Cardinality(Places(s, id)) <= Cardinality(SlotsOf(p, id))

(* The records fill the first places, in the order of their numbers. *)
Tidy(p) ==
  \A i \in Slots : IF i <= p.count THEN p.rec[i] # Empty /\ p.rec[i].num = i
                     ELSE p.rec[i] = Empty

(* No sensor has two records. *)
Unique(p) ==
  \A i, j \in Used(p) : p.rec[i].rom = p.rec[j].rom /\ p.rec[i].rom # 0 => i = j

(* Every sensor with a record has its object. *)
Represented(p, s) ==
  \A i \in Used(p) : p.rec[i].rom # 0 => \E j \in DOMAIN s : s[j] = p.rec[i]

Kept(p, gap, twice) == (~gap => Tidy(p)) /\ (~gap /\ ~twice => Unique(p))

Fit(p, s, gap, gone, twice) ==
  /\ Stored(p, s)
  /\ Kept(p, gap, twice)
  /\ ~gap /\ ~gone => s = SubSeq(p.rec, 1, p.count)
  /\ ~gap /\ ~twice => Represented(p, s)

IInv ==
  /\ TypeOK
  /\ Fit(pool, live, hist.gap, hist.gone, hist.twice)
  /\ Kept(flash, hist.gap, hist.twice)

-----------------------------------------------------------------------------
(* Induction: a set of numbers with 0 and the successor of each of its     *)
(* members below n has all up to n.                                        *)
LEMMA Induct ==
  ASSUME NEW S, NEW n \in Nat, 0 \in S, \A i \in 0 .. n - 1 : i \in S => i + 1 \in S
  PROVE  \A i \in 0 .. n : i \in S
  <1> DEFINE T == {i \in 0 .. n : i \notin S}
  <1> SUFFICES ASSUME T # {} PROVE FALSE
    OBVIOUS
  <1>1. T \subseteq Nat
    OBVIOUS
  <1>2. PICK i \in T : \A j \in T : ~(<<j, i>> \in OpToRel(<, Nat))
    <2> HIDE DEF T
    <2> QED
      BY <1>1, NatLessThanWellFounded, WFMin
  <1>3. i # 0 /\ i - 1 \in 0 .. n - 1
    OBVIOUS
  <1>4. i - 1 \notin T
    <2>1. i \in Nat /\ i - 1 \in Nat /\ i - 1 < i
      BY <1>1, <1>3
    <2> HIDE DEF T
    <2> QED
      BY <1>2, <2>1 DEF OpToRel
  <1>5. i - 1 \in S
    BY <1>3, <1>4
  <1> QED
    BY <1>3, <1>5

(* A recursion over 0 .. n has a solution: step[i] takes the value at i to *)
(* that at i + 1.                                                          *)
Steps(step, n, V) == \A i \in 0 .. n - 1 : \A v \in V : step[i][v] \in V
Solves(f, step, n, v0, V) ==
  f \in [0 .. n -> V] /\ f[0] = v0 /\ \A i \in 0 .. n - 1 : f[i + 1] = step[i][f[i]]

LEMMA Recursion ==
  ASSUME NEW n \in Nat, NEW V, NEW v0 \in V, NEW step, Steps(step, n, V)
  PROVE  \E f : Solves(f, step, n, v0, V)
  <1> DEFINE S == {k \in 0 .. n : \E f : Solves(f, step, k, v0, V)}
  <1> USE DEF Solves, Steps
  <1>1. 0 \in S
    <2> DEFINE f == [i \in 0 .. 0 |-> v0]
    <2>1. f \in [0 .. 0 -> V] /\ f[0] = v0
      OBVIOUS
    <2>2. \A i \in 0 .. 0 - 1 : f[i + 1] = step[i][f[i]]
      OBVIOUS
    <2>3. Solves(f, step, 0, v0, V) /\ 0 \in 0 .. n
      BY <2>1, <2>2
    <2> HIDE DEF Solves, f
    <2> QED
      BY <2>3
  <1>2. ASSUME NEW k \in 0 .. n - 1, k \in S PROVE k + 1 \in S
    <2>1. PICK f : Solves(f, step, k, v0, V)
      BY <1>2
    <2> DEFINE g == [i \in 0 .. k + 1 |-> IF i = k + 1 THEN step[k][f[k]] ELSE f[i]]
    <2>2. step[k][f[k]] \in V
      BY <2>1
    <2>3. g \in [0 .. k + 1 -> V] /\ g[0] = v0
      BY <2>1, <2>2
    <2>4. ASSUME NEW i \in 0 .. (k + 1) - 1 PROVE g[i + 1] = step[i][g[i]]
      <3>1. g[i] = f[i]
        OBVIOUS
      <3>2. CASE i = k
        BY <3>1, <3>2
      <3>3. CASE i # k
        <4>1. i \in 0 .. k - 1 /\ g[i + 1] = f[i + 1]
          BY <3>3
        <4> QED
          BY <2>1, <3>1, <4>1
      <3> QED
        BY <3>2, <3>3
    <2> HIDE DEF g
    <2>5. Solves(g, step, k + 1, v0, V)
      BY <2>3, <2>4
    <2> QED
      BY <2>5
  <1>3. n \in S
    <2> HIDE DEF S
    <2>1. \A i \in 0 .. n : i \in S
      BY <1>1, <1>2, Induct
    <2> QED
      BY <2>1
  <1> QED
    BY <1>3

-----------------------------------------------------------------------------
(* Records, numbers and places. *)
LEMMA Numbered ==
  /\ \A r \in Record : /\ Id(r) \in Ids /\ r # Empty
                       /\ r.num \in Slots /\ r.rom \in Roms \cup {0}
  /\ \A r1, r2 \in Record : Id(r1) = Id(r2) => r1.num = r2.num
  <1>1. ASSUME NEW r \in Record
        PROVE  r # Empty /\ r.num \in Slots /\ r.rom \in Roms \cup {0}
    BY PoolAssumption DEF Record, Empty, Slots
  <1>2. ASSUME NEW r \in Record PROVE Id(r) \in Ids
    <2>1. (r.rom # 0) \in BOOLEAN
      OBVIOUS
    <2> QED
      BY <1>1, <2>1, Zenon DEF Id, Ids
  <1>3. ASSUME NEW r1 \in Record, NEW r2 \in Record, Id(r1) = Id(r2)
        PROVE  r1.num = r2.num
    <2>1. Id(r1)[1] = r1.num /\ Id(r2)[1] = r2.num
      BY DEF Id
    <2> QED
      BY <1>3, <2>1
  <1> QED
    BY <1>1, <1>2, <1>3

LEMMA FirstOf ==
  ASSUME NEW S, S \subseteq Nat, S # {}
  PROVE  First(S) \in S /\ \A i \in S : First(S) <= i
  <1>1. PICK i \in S : \A j \in S : ~(<<j, i>> \in OpToRel(<, Nat))
    BY NatLessThanWellFounded, WFMin
  <1>2. \A j \in S : i <= j
    <2> SUFFICES ASSUME NEW j \in S, j < i PROVE FALSE
      OBVIOUS
    <2>1. <<j, i>> \in OpToRel(<, Nat)
      BY DEF OpToRel
    <2> QED
      BY <1>1, <2>1
  <1>3. \E x \in S : \A y \in S : x <= y
    BY <1>2
  <1> QED
    BY <1>3 DEF First

LEMMA SlotsFinite ==
  /\ IsFiniteSet(Slots) /\ Cardinality(Slots) = MaxRecords
  /\ \A S : S \subseteq Slots => IsFiniteSet(S) /\ Cardinality(S) \in Nat
  <1>1. IsFiniteSet(Slots) /\ Cardinality(Slots) = MaxRecords
    BY PoolAssumption, FS_Interval DEF Slots
  <1> QED
    BY <1>1, FS_Subset, FS_CardinalityType

-----------------------------------------------------------------------------
(* Sequences: what InsertAt and RemoveAt do, and how many objects with a   *)
(* number there are then.                                                  *)
LEMMA Inserted ==
  ASSUME NEW s \in Seq(Record), NEW r \in Record, NEW k \in 1 .. Len(s) + 1
  PROVE  /\ InsertAt(s, k, r) \in Seq(Record)
         /\ Len(InsertAt(s, k, r)) = Len(s) + 1
         /\ \A i \in 1 .. Len(s) + 1 :
              InsertAt(s, k, r)[i] = IF i < k THEN s[i] ELSE IF i = k THEN r ELSE s[i - 1]
  <1> DEFINE a == SubSeq(s, 1, k - 1)
             b == SubSeq(s, k, Len(s))
  <1>1. /\ a \in Seq(Record) /\ Len(a) = k - 1
        /\ \A i \in 1 .. k - 1 : a[i] = s[i]
    OBVIOUS
  <1>2. /\ b \in Seq(Record) /\ Len(b) = Len(s) - k + 1
        /\ \A i \in 1 .. Len(s) - k + 1 : b[i] = s[i + k - 1]
    OBVIOUS
  <1> HIDE DEF a, b
  <1>3. /\ a \o <<r>> \in Seq(Record) /\ Len(a \o <<r>>) = k
        /\ \A i \in 1 .. k : (a \o <<r>>)[i] = IF i < k THEN s[i] ELSE r
    BY <1>1
  <1>4. InsertAt(s, k, r) = (a \o <<r>>) \o b
    BY DEF InsertAt, a, b
  <1> DEFINE c == a \o <<r>>
  <1>5. /\ c \in Seq(Record) /\ Len(c) = k /\ InsertAt(s, k, r) = c \o b
        /\ \A i \in 1 .. k : c[i] = IF i < k THEN s[i] ELSE r
    BY <1>3, <1>4
  <1> HIDE DEF c
  <1>6. /\ c \o b \in Seq(Record) /\ Len(c \o b) = Len(s) + 1
        /\ \A i \in 1 .. Len(s) + 1 : (c \o b)[i] = IF i <= k THEN c[i] ELSE b[i - k]
    BY <1>2, <1>5, ConcatProperties
  <1>7. ASSUME NEW i \in 1 .. Len(s) + 1
        PROVE  (c \o b)[i] = IF i < k THEN s[i] ELSE IF i = k THEN r ELSE s[i - 1]
    <2>1. CASE i <= k
      BY <1>5, <1>6, <2>1
    <2>2. CASE i > k
      <3>1. i - k \in 1 .. Len(s) - k + 1 /\ i - k + k - 1 = i - 1
        BY <2>2
      <3> QED
        BY <1>2, <1>6, <2>2, <3>1
    <2>3. i <= k \/ i > k
      OBVIOUS
    <2> QED
      BY <2>1, <2>2, <2>3, Zenon
  <1> QED
    BY <1>5, <1>6, <1>7

LEMMA Removed ==
  ASSUME NEW s \in Seq(Record), NEW k \in 1 .. Len(s)
  PROVE  /\ RemoveAt(s, k) \in Seq(Record)
         /\ Len(RemoveAt(s, k)) = Len(s) - 1
         /\ \A i \in 1 .. Len(s) - 1 :
              RemoveAt(s, k)[i] = IF i < k THEN s[i] ELSE s[i + 1]
  <1> DEFINE a == SubSeq(s, 1, k - 1)
             b == SubSeq(s, k + 1, Len(s))
  <1>1. /\ a \in Seq(Record) /\ Len(a) = k - 1
        /\ \A i \in 1 .. k - 1 : a[i] = s[i]
    OBVIOUS
  <1>2. /\ b \in Seq(Record) /\ Len(b) = Len(s) - k
        /\ \A i \in 1 .. Len(s) - k : b[i] = s[i + k]
    OBVIOUS
  <1> HIDE DEF a, b
  <1>3. RemoveAt(s, k) = a \o b
    BY DEF RemoveAt, a, b
  <1>4. /\ a \o b \in Seq(Record) /\ Len(a \o b) = Len(s) - 1
        /\ \A i \in 1 .. Len(s) - 1 : (a \o b)[i] = IF i <= k - 1 THEN a[i] ELSE b[i - (k - 1)]
    BY <1>1, <1>2, ConcatProperties
  <1>5. ASSUME NEW i \in 1 .. Len(s) - 1
        PROVE  (a \o b)[i] = IF i < k THEN s[i] ELSE s[i + 1]
    <2>1. CASE i < k
      BY <1>1, <1>4, <2>1
    <2>2. CASE i >= k
      <3>1. i - (k - 1) \in 1 .. Len(s) - k /\ i - (k - 1) + k = i + 1
        BY <2>2
      <3> QED
        BY <1>2, <1>4, <2>2, <3>1
    <2>3. i < k \/ i >= k
      OBVIOUS
    <2> QED
      BY <2>1, <2>2, <2>3, Zenon
  <1> QED
    BY <1>3, <1>4, <1>5

LEMMA PlacesFinite ==
  ASSUME NEW s \in Seq(Record), NEW id
  PROVE  /\ Places(s, id) \subseteq 1 .. Len(s)
         /\ IsFiniteSet(Places(s, id)) /\ Cardinality(Places(s, id)) \in Nat
  <1>1. IsFiniteSet(1 .. Len(s))
    BY FS_Interval
  <1>2. Places(s, id) \subseteq 1 .. Len(s)
    BY DEF Places
  <1> QED
    BY <1>1, <1>2, FS_Subset, FS_CardinalityType

LEMMA NoMore ==
  ASSUME NEW A, NEW B, IsFiniteSet(B), NEW f \in [A -> B],
         \A x, y \in A : f[x] = f[y] => x = y
  PROVE  IsFiniteSet(A) /\ Cardinality(A) <= Cardinality(B)
  <1>1. f \in Injection(A, B)
    BY DEF Injection, IsInjective
  <1> QED
    BY <1>1, FS_Injection

LEMMA PlacesInserted ==
  ASSUME NEW s \in Seq(Record), NEW r \in Record, NEW k \in 1 .. Len(s) + 1, NEW id
  PROVE  Cardinality(Places(InsertAt(s, k, r), id))
           <= Cardinality(Places(s, id)) + (IF Id(r) = id THEN 1 ELSE 0)
  <1> DEFINE t == InsertAt(s, k, r)
             A == Places(t, id) \ {k}
             f == [i \in A |-> IF i < k THEN i ELSE i - 1]
  <1>1. /\ t \in Seq(Record) /\ Len(t) = Len(s) + 1
        /\ \A i \in 1 .. Len(s) + 1 :
             t[i] = IF i < k THEN s[i] ELSE IF i = k THEN r ELSE s[i - 1]
    BY Inserted
  <1>2. /\ IsFiniteSet(Places(t, id)) /\ Places(t, id) \subseteq 1 .. Len(s) + 1
        /\ Cardinality(Places(t, id)) \in Nat
        /\ IsFiniteSet(Places(s, id)) /\ Cardinality(Places(s, id)) \in Nat
    BY <1>1, PlacesFinite
  <1> HIDE DEF t
  <1>3. ASSUME NEW i \in A PROVE (IF i < k THEN i ELSE i - 1) \in Places(s, id)
    <2>1. i \in 1 .. Len(s) + 1 /\ i # k /\ Id(t[i]) = id
      BY <1>2 DEF Places
    <2>2. CASE i < k
      BY <1>1, <2>1, <2>2 DEF Places
    <2>3. CASE i > k
      BY <1>1, <2>1, <2>3 DEF Places
    <2> QED
      BY <2>1, <2>2, <2>3
  <1>4. f \in [A -> Places(s, id)]
    BY <1>3
  <1>5. \A x, y \in A : f[x] = f[y] => x = y
    BY <1>2
  <1> HIDE DEF f
  <1>6. Cardinality(A) <= Cardinality(Places(s, id))
    <2> HIDE DEF A
    <2> QED
      BY <1>2, <1>4, <1>5, NoMore
  <1>7. Cardinality(A) = IF k \in Places(t, id) THEN Cardinality(Places(t, id)) - 1
                           ELSE Cardinality(Places(t, id))
    BY <1>2, FS_RemoveElement
  <1>8. k \in Places(t, id) => Id(r) = id
    BY <1>1 DEF Places
  <1> HIDE DEF A
  <1>9. Cardinality(Places(t, id)) <= Cardinality(Places(s, id)) + (IF Id(r) = id THEN 1 ELSE 0)
    BY <1>2, <1>6, <1>7, <1>8
  <1> QED
    BY <1>9 DEF t

LEMMA PlacesRemoved ==
  ASSUME NEW s \in Seq(Record), NEW k \in 1 .. Len(s), NEW id
  PROVE  Cardinality(Places(RemoveAt(s, k), id))
           <= Cardinality(Places(s, id)) - (IF Id(s[k]) = id THEN 1 ELSE 0)
  <1> DEFINE t == RemoveAt(s, k)
             B == Places(s, id) \ {k}
             f == [i \in Places(t, id) |-> IF i < k THEN i ELSE i + 1]
  <1>1. /\ t \in Seq(Record) /\ Len(t) = Len(s) - 1
        /\ \A i \in 1 .. Len(s) - 1 : t[i] = IF i < k THEN s[i] ELSE s[i + 1]
    BY Removed
  <1>2. /\ IsFiniteSet(Places(t, id)) /\ Places(t, id) \subseteq 1 .. Len(s) - 1
        /\ Cardinality(Places(t, id)) \in Nat
        /\ IsFiniteSet(Places(s, id)) /\ Cardinality(Places(s, id)) \in Nat
    BY <1>1, PlacesFinite
  <1> HIDE DEF t
  <1>3. ASSUME NEW i \in Places(t, id) PROVE (IF i < k THEN i ELSE i + 1) \in B
    <2>1. i \in 1 .. Len(s) - 1 /\ Id(t[i]) = id
      BY <1>2 DEF Places
    <2>2. CASE i < k
      BY <1>1, <2>1, <2>2 DEF Places
    <2>3. CASE ~(i < k)
      BY <1>1, <2>1, <2>3 DEF Places
    <2> QED
      BY <2>2, <2>3
  <1>4. f \in [Places(t, id) -> B]
    BY <1>3
  <1>5. \A x, y \in Places(t, id) : f[x] = f[y] => x = y
    BY <1>2
  <1> HIDE DEF f
  <1>6. IsFiniteSet(B)
        /\ Cardinality(B) = IF k \in Places(s, id) THEN Cardinality(Places(s, id)) - 1
                              ELSE Cardinality(Places(s, id))
    BY <1>2, FS_RemoveElement
  <1>7. Id(s[k]) = id => k \in Places(s, id)
    BY DEF Places
  <1> HIDE DEF B
  <1>8. Cardinality(Places(t, id)) <= Cardinality(B)
    BY <1>4, <1>5, <1>6, NoMore
  <1>9. Cardinality(Places(t, id)) <= Cardinality(Places(s, id)) - (IF Id(s[k]) = id THEN 1 ELSE 0)
    BY <1>2, <1>6, <1>7, <1>8
  <1> QED
    BY <1>9 DEF t

(* Where FTE_LIST_pushSort puts an object. *)
Behind(s, r) == Cardinality({i \in DOMAIN s : s[i].num <= r.num})

LEMMA PushedWhere ==
  ASSUME NEW s \in Seq(Record), NEW r \in Record
  PROVE  /\ Behind(s, r) + 1 \in 1 .. Len(s) + 1
         /\ PushSort(s, r) = InsertAt(s, Behind(s, r) + 1, r)
         /\ (\A i \in 1 .. Len(s) : s[i].num <= r.num) => Behind(s, r) = Len(s)
  <1> DEFINE S == {i \in DOMAIN s : s[i].num <= r.num}
  <1>1. S \subseteq 1 .. Len(s) /\ Len(s) \in Nat
    OBVIOUS
  <1>2. IsFiniteSet(1 .. Len(s)) /\ Cardinality(1 .. Len(s)) = Len(s)
    BY <1>1, FS_Interval
  <1>3. Cardinality(S) \in Nat /\ Cardinality(S) <= Len(s)
    <2> HIDE DEF S
    <2> QED
      BY <1>1, <1>2, FS_Subset, FS_CardinalityType
  <1>4. (\A i \in 1 .. Len(s) : s[i].num <= r.num) => S = 1 .. Len(s)
    OBVIOUS
  <1>5. Behind(s, r) = Cardinality(S) /\ PushSort(s, r) = InsertAt(s, Behind(s, r) + 1, r)
    BY DEF Behind, PushSort
  <1> HIDE DEF S
  <1> QED
    BY <1>1, <1>2, <1>3, <1>4, <1>5

-----------------------------------------------------------------------------
(* Pools: what FTE_CFG_OBJ_alloc, free and save do to the records and to   *)
(* the number of records with a number.                                    *)
Recs == Record \cup {Empty}

LEMMA PoolIs ==
  \A p : p \in Pools <=> /\ p \in [rec : [Slots -> Recs], count : 0 .. MaxRecords]
                         /\ p.count = Cardinality(Used(p))
  BY DEF Pools, Recs

LEMMA Records ==
  ASSUME NEW p, p.rec \in [Slots -> Recs]
  PROVE  /\ Used(p) \subseteq Slots /\ IsFiniteSet(Used(p)) /\ Cardinality(Used(p)) \in 0 .. MaxRecords
         /\ Used(p) # Slots => Cardinality(Used(p)) < MaxRecords
         /\ \A i \in Used(p) : p.rec[i] \in Record
         /\ \A id : /\ SlotsOf(p, id) \subseteq Used(p) /\ SlotsOf(p, id) \subseteq Nat
                    /\ IsFiniteSet(SlotsOf(p, id)) /\ Cardinality(SlotsOf(p, id)) \in Nat
  <1>1. Used(p) \subseteq Slots
    BY DEF Used
  <1>2. \A i \in Used(p) : p.rec[i] \in Record
    BY DEF Used, Recs
  <1>3. \A id : SlotsOf(p, id) \subseteq Used(p) /\ SlotsOf(p, id) \subseteq Slots /\ SlotsOf(p, id) \subseteq Nat
    BY <1>1 DEF SlotsOf, Slots
  <1>4. IsFiniteSet(Slots) /\ Cardinality(Slots) = MaxRecords /\ MaxRecords \in Nat
    BY SlotsFinite, PoolAssumption
  <1>5. /\ Cardinality(Used(p)) <= MaxRecords
        /\ Cardinality(Used(p)) = MaxRecords => Used(p) = Slots
    BY <1>1, <1>4, FS_Subset
  <1>6. IsFiniteSet(Used(p)) /\ Cardinality(Used(p)) \in Nat
    BY <1>1, SlotsFinite
  <1>7. \A id : IsFiniteSet(SlotsOf(p, id)) /\ Cardinality(SlotsOf(p, id)) \in Nat
    BY <1>3, SlotsFinite
  <1>8. /\ Cardinality(Used(p)) \in 0 .. MaxRecords
        /\ Used(p) # Slots => Cardinality(Used(p)) < MaxRecords
    BY <1>4, <1>5, <1>6
  <1> QED
    BY <1>1, <1>2, <1>3, <1>6, <1>7, <1>8

(* p with record x in place k. *)
With(p, k, x) == [p.rec EXCEPT ![k] = x]

LEMMA Changed ==
  ASSUME NEW p \in Pools, NEW q, NEW k \in Slots, NEW x \in Recs, q.rec = With(p, k, x)
  PROVE  /\ q.rec \in [Slots -> Recs]
         /\ \A i \in Slots : q.rec[i] = IF i = k THEN x ELSE p.rec[i]
         /\ Used(q) = IF x = Empty THEN Used(p) \ {k} ELSE Used(p) \cup {k}
         /\ \A id : SlotsOf(q, id) = IF x # Empty /\ Id(x) = id THEN SlotsOf(p, id) \cup {k}
                                       ELSE SlotsOf(p, id) \ {k}
  <1>1. p.rec \in [Slots -> Recs]
    BY PoolIs
  <1>2. q.rec \in [Slots -> Recs]
    BY <1>1 DEF With
  <1>3. \A i \in Slots : q.rec[i] = IF i = k THEN x ELSE p.rec[i]
    BY <1>1 DEF With
  <1>4. Used(q) = IF x = Empty THEN Used(p) \ {k} ELSE Used(p) \cup {k}
    BY <1>3 DEF Used
  <1>5. ASSUME NEW id
        PROVE  SlotsOf(q, id) = IF x # Empty /\ Id(x) = id THEN SlotsOf(p, id) \cup {k}
                                  ELSE SlotsOf(p, id) \ {k}
    <2>1. \A i \in Used(p) \ {k} : Id(q.rec[i]) = Id(p.rec[i])
      BY <1>3 DEF Used
    <2>2. Id(q.rec[k]) = Id(x)
      BY <1>3
    <2>3. CASE x = Empty
      BY <1>4, <2>1, <2>3 DEF SlotsOf
    <2>4. CASE x # Empty /\ Id(x) = id
      BY <1>4, <2>1, <2>2, <2>4 DEF SlotsOf
    <2>5. CASE x # Empty /\ Id(x) # id
      BY <1>4, <2>1, <2>2, <2>5 DEF SlotsOf
    <2> QED
      BY <2>3, <2>4, <2>5
  <1> QED
    BY <1>2, <1>3, <1>4, <1>5

FreePlace(p) == First(Slots \ Used(p))

LEMMA Allocated ==
  ASSUME NEW p \in Pools, Room(p), NEW r \in Record
  PROVE  /\ FreePlace(p) \in Slots \ Used(p)
         /\ OBJ_alloc(p, r) \in Pools /\ OBJ_alloc(p, r).count = p.count + 1
         /\ OBJ_alloc(p, r).rec = With(p, FreePlace(p), r)
         /\ \A i \in Slots : OBJ_alloc(p, r).rec[i] = IF i = FreePlace(p) THEN r ELSE p.rec[i]
         /\ Used(OBJ_alloc(p, r)) = Used(p) \cup {FreePlace(p)}
         /\ \A id : Cardinality(SlotsOf(OBJ_alloc(p, r), id))
                      = Cardinality(SlotsOf(p, id)) + (IF Id(r) = id THEN 1 ELSE 0)
         /\ NextNum(p) \in Slots
         /\ Tidy(p) => FreePlace(p) = p.count + 1 /\ NextNum(p) = p.count + 1
  <1> DEFINE k == FreePlace(p)
             q == OBJ_alloc(p, r)
  <1>1. /\ p.rec \in [Slots -> Recs] /\ p.count = Cardinality(Used(p)) /\ p.count \in 0 .. MaxRecords
        /\ MaxRecords \in Nat
    BY PoolIs, PoolAssumption
  <1>2. /\ Used(p) \subseteq Slots /\ IsFiniteSet(Used(p)) /\ Used(p) # Slots
        /\ Cardinality(Used(p)) < MaxRecords
        /\ \A id : SlotsOf(p, id) \subseteq Used(p)
        /\ \A id : IsFiniteSet(SlotsOf(p, id)) /\ Cardinality(SlotsOf(p, id)) \in Nat
    BY <1>1, Records DEF Room
  <1>3. k \in Slots \ Used(p) /\ \A i \in Slots \ Used(p) : k <= i
    <2>1. Slots \ Used(p) \subseteq Nat
      BY DEF Slots
    <2>2. Slots \ Used(p) # {}
      BY <1>2
    <2> QED
      BY <2>1, <2>2, FirstOf, Zenon DEF FreePlace, k
  <1>4. r # Empty /\ r \in Recs
    BY Numbered DEF Recs
  <1>5. q = [rec |-> With(p, k, r), count |-> p.count + 1]
    BY DEF OBJ_alloc, With, FreePlace
  <1>6. q.rec = With(p, k, r) /\ q.count = p.count + 1
    BY <1>5
  <1> HIDE DEF q, k
  <1>7. /\ q.rec \in [Slots -> Recs]
        /\ \A i \in Slots : q.rec[i] = IF i = k THEN r ELSE p.rec[i]
        /\ Used(q) = Used(p) \cup {k}
        /\ \A id : SlotsOf(q, id) = IF Id(r) = id THEN SlotsOf(p, id) \cup {k}
                                       ELSE SlotsOf(p, id) \ {k}
    BY <1>3, <1>4, <1>6, Changed
  <1>8. q \in Pools
    <2>1. Cardinality(Used(q)) = Cardinality(Used(p)) + 1
      <3>1. Cardinality(Used(p) \cup {k}) = IF k \in Used(p) THEN Cardinality(Used(p)) ELSE Cardinality(Used(p)) + 1
        BY <1>2, FS_AddElement
      <3> QED
        BY <1>3, <1>7, <3>1
    <2>2. p.count + 1 \in 0 .. MaxRecords /\ With(p, k, r) \in [Slots -> Recs]
      BY <1>1, <1>2, <1>6, <1>7
    <2>3. q \in [rec : [Slots -> Recs], count : 0 .. MaxRecords]
      BY <1>5, <2>2 DEF q
    <2> QED
      BY <1>1, <1>6, <2>1, <2>3, PoolIs
  <1>9. ASSUME NEW id
        PROVE  Cardinality(SlotsOf(q, id))
                 = Cardinality(SlotsOf(p, id)) + (IF Id(r) = id THEN 1 ELSE 0)
    <2>1. k \notin SlotsOf(p, id)
      BY <1>2, <1>3
    <2>2. CASE Id(r) = id
      <3>1. SlotsOf(q, id) = SlotsOf(p, id) \cup {k}
        BY <1>7, <2>2
      <3>2. Cardinality(SlotsOf(q, id)) = Cardinality(SlotsOf(p, id)) + 1
        BY <1>2, <2>1, <3>1, FS_AddElement
      <3> QED
        BY <2>2, <3>2
    <2>3. CASE Id(r) # id
      <3>1. SlotsOf(q, id) = SlotsOf(p, id)
        BY <1>7, <2>1, <2>3
      <3> QED
        BY <1>2, <2>3, <3>1
    <2> QED
      BY <2>2, <2>3
  <1>10. NextNum(p) = p.count + 1 /\ NextNum(p) \in Slots
    BY <1>1, <1>2 DEF NextNum, Slots
  <1>11. ASSUME Tidy(p) PROVE k = p.count + 1
    <2>1. p.count + 1 \in Slots \ Used(p)
      <3>1. p.count + 1 \in Slots /\ ~(p.count + 1 <= p.count)
        BY <1>1, <1>2 DEF Slots
      <3> QED
        BY <1>11, <3>1 DEF Tidy, Used
    <2>2. \A i \in Slots : i <= p.count => i \in Used(p)
      BY <1>11 DEF Tidy, Used
    <2> QED
      <3>1. k \in Int /\ k >= 1 /\ k <= p.count + 1 /\ p.count + 1 \in Nat
        BY <1>1, <1>3, <2>1 DEF Slots
      <3>2. ~(k <= p.count)
        BY <1>3, <2>2
      <3> QED
        BY <1>1, <3>1, <3>2
  <1> QED
    BY <1>3, <1>6, <1>7, <1>8, <1>9, <1>10, <1>11 DEF q, k

PlaceOf(p, id) == First(SlotsOf(p, id))

LEMMA PlaceIs ==
  ASSUME NEW p \in Pools, NEW id, SlotsOf(p, id) # {}
  PROVE  /\ PlaceOf(p, id) \in SlotsOf(p, id) /\ PlaceOf(p, id) \in Used(p) /\ PlaceOf(p, id) \in Slots
         /\ p.rec[PlaceOf(p, id)] \in Record /\ Id(p.rec[PlaceOf(p, id)]) = id
  <1>1. p.rec \in [Slots -> Recs]
    BY PoolIs
  <1>2. SlotsOf(p, id) \subseteq Nat
    BY <1>1, Records
  <1>3. PlaceOf(p, id) \in SlotsOf(p, id)
    BY <1>2, FirstOf, Zenon DEF PlaceOf
  <1> QED
    BY <1>1, <1>3, Records DEF SlotsOf

LEMMA Freed ==
  ASSUME NEW p \in Pools, NEW id, SlotsOf(p, id) # {}
  PROVE  /\ OBJ_free(p, id) \in Pools /\ OBJ_free(p, id).count = p.count - 1
         /\ \A i \in Slots : OBJ_free(p, id).rec[i] = IF i = PlaceOf(p, id) THEN Empty ELSE p.rec[i]
         /\ Used(OBJ_free(p, id)) = Used(p) \ {PlaceOf(p, id)}
         /\ \A j : Cardinality(SlotsOf(OBJ_free(p, id), j))
                     = Cardinality(SlotsOf(p, j)) - (IF j = id THEN 1 ELSE 0)
  <1> DEFINE k == PlaceOf(p, id)
             q == OBJ_free(p, id)
  <1>1. /\ p.rec \in [Slots -> Recs] /\ p.count = Cardinality(Used(p)) /\ p.count \in 0 .. MaxRecords
        /\ MaxRecords \in Nat
    BY PoolIs, PoolAssumption
  <1>2. /\ IsFiniteSet(Used(p)) /\ Cardinality(Used(p)) \in Nat
        /\ \A j : IsFiniteSet(SlotsOf(p, j)) /\ Cardinality(SlotsOf(p, j)) \in Nat
    BY <1>1, Records
  <1>3. k \in SlotsOf(p, id) /\ k \in Used(p) /\ k \in Slots /\ Id(p.rec[k]) = id
    BY PlaceIs
  <1>4. Empty \in Recs
    BY DEF Recs
  <1>5. q = [rec |-> With(p, k, Empty), count |-> p.count - 1]
    BY DEF OBJ_free, With, PlaceOf
  <1>6. q.rec = With(p, k, Empty) /\ q.count = p.count - 1
    BY <1>5
  <1> HIDE DEF q, k
  <1>7. /\ q.rec \in [Slots -> Recs]
        /\ \A i \in Slots : q.rec[i] = IF i = k THEN Empty ELSE p.rec[i]
        /\ Used(q) = Used(p) \ {k}
        /\ \A j : SlotsOf(q, j) = SlotsOf(p, j) \ {k}
    BY <1>3, <1>4, <1>6, Changed
  <1>8. q \in Pools
    <2>1. Cardinality(Used(q)) = Cardinality(Used(p)) - 1
      <3>1. Cardinality(Used(p) \ {k})
              = IF k \in Used(p) THEN Cardinality(Used(p)) - 1 ELSE Cardinality(Used(p))
        BY <1>2, FS_RemoveElement
      <3> QED
        BY <1>3, <1>7, <3>1
    <2>2. Cardinality(Used(q)) \in Nat
      <3>1. Cardinality(Used(q)) \in 0 .. MaxRecords
        BY <1>7, Records
      <3> QED
        BY <1>1, <3>1
    <2>3. p.count - 1 \in 0 .. MaxRecords /\ With(p, k, Empty) \in [Slots -> Recs]
      BY <1>1, <1>6, <1>7, <2>1, <2>2
    <2>4. q \in [rec : [Slots -> Recs], count : 0 .. MaxRecords]
      BY <1>5, <2>3
    <2> QED
      BY <1>1, <1>6, <2>1, <2>4, PoolIs
  <1>9. ASSUME NEW j
        PROVE  Cardinality(SlotsOf(q, j)) = Cardinality(SlotsOf(p, j)) - (IF j = id THEN 1 ELSE 0)
    <2>1. Cardinality(SlotsOf(p, j) \ {k})
            = IF k \in SlotsOf(p, j) THEN Cardinality(SlotsOf(p, j)) - 1 ELSE Cardinality(SlotsOf(p, j))
      BY <1>2, FS_RemoveElement
    <2>2. k \in SlotsOf(p, j) <=> j = id
      BY <1>3 DEF SlotsOf
    <2> QED
      BY <1>2, <1>7, <2>1, <2>2
  <1> QED
    BY <1>6, <1>7, <1>8, <1>9 DEF q, k

LEMMA Saved ==
  ASSUME NEW p \in Pools, NEW r \in Record
  PROVE  /\ OBJ_save(p, r) \in Pools /\ OBJ_save(p, r).count = p.count
         /\ Used(OBJ_save(p, r)) = Used(p)
         /\ \A id : SlotsOf(OBJ_save(p, r), id) = SlotsOf(p, id)
         /\ SlotsOf(p, Id(r)) = {} => OBJ_save(p, r) = p
         /\ SlotsOf(p, Id(r)) # {} =>
              \A i \in Slots : OBJ_save(p, r).rec[i] = IF i = PlaceOf(p, Id(r)) THEN r ELSE p.rec[i]
  <1>1. CASE SlotsOf(p, Id(r)) = {}
    <2>1. OBJ_save(p, r) = p
      BY <1>1 DEF OBJ_save
    <2> QED
      BY <1>1, <2>1
  <1>2. CASE SlotsOf(p, Id(r)) # {}
    <2> DEFINE k == PlaceOf(p, Id(r))
               q == OBJ_save(p, r)
    <2>1. p \in [rec : [Slots -> Recs], count : 0 .. MaxRecords] /\ p.count = Cardinality(Used(p))
      BY PoolIs
    <2>2. k \in SlotsOf(p, Id(r)) /\ k \in Used(p) /\ k \in Slots
      BY <1>2, PlaceIs
    <2>3. r # Empty /\ r \in Recs
      BY Numbered DEF Recs
    <2>4. q = [p EXCEPT !.rec = With(p, k, r)]
      BY <1>2, <2>1 DEF OBJ_save, With, PlaceOf
    <2> HIDE DEF k, q
    <2>5. q.rec = With(p, k, r) /\ q.count = p.count
      BY <2>1, <2>4
    <2>6. /\ q.rec \in [Slots -> Recs]
          /\ \A i \in Slots : q.rec[i] = IF i = k THEN r ELSE p.rec[i]
          /\ Used(q) = Used(p) \cup {k}
          /\ \A id : SlotsOf(q, id) = IF Id(r) = id THEN SlotsOf(p, id) \cup {k}
                                         ELSE SlotsOf(p, id) \ {k}
      BY <2>2, <2>3, <2>5, Changed
    <2>7. Used(q) = Used(p)
      BY <2>2, <2>6
    <2>8. ASSUME NEW id PROVE SlotsOf(q, id) = SlotsOf(p, id)
      <3>1. CASE Id(r) = id
        BY <2>2, <2>6, <3>1
      <3>2. CASE Id(r) # id
        <4>1. k \notin SlotsOf(p, id)
          BY <2>2, <3>2 DEF SlotsOf
        <4> QED
          BY <2>6, <3>2, <4>1
      <3> QED
        BY <3>1, <3>2
    <2>9. q \in [rec : [Slots -> Recs], count : 0 .. MaxRecords]
      BY <2>1, <2>4, <2>5, <2>6
    <2>10. q \in Pools
      BY <2>1, <2>5, <2>7, <2>9, PoolIs
    <2> QED
      BY <1>2, <2>5, <2>6, <2>7, <2>8, <2>10 DEF q, k
  <1> QED
    BY <1>1, <1>2

-----------------------------------------------------------------------------
(* Tidy pools: a place is known by its number. *)
LEMMA SamePool ==
  ASSUME NEW p \in Pools, NEW q \in Pools, p.count = q.count,
         \A i \in Slots : p.rec[i] = q.rec[i]
  PROVE  p = q
  <1>1. /\ p \in [rec : [Slots -> Recs], count : 0 .. MaxRecords]
        /\ q \in [rec : [Slots -> Recs], count : 0 .. MaxRecords]
    BY PoolIs
  <1>2. p.rec = q.rec
    BY <1>1
  <1> QED
    BY <1>1, <1>2

LEMMA TidyPlaces ==
  ASSUME NEW p \in Pools, Tidy(p)
  PROVE  /\ Used(p) = 1 .. p.count /\ p.count \in Nat /\ p.count <= MaxRecords
         /\ \A i \in Used(p) : i \in Slots /\ p.rec[i] \in Record /\ p.rec[i].num = i
         /\ \A i \in Used(p), j \in Used(p) : Id(p.rec[i]) = Id(p.rec[j]) => i = j
  <1>1. p.rec \in [Slots -> Recs] /\ p.count \in 0 .. MaxRecords /\ MaxRecords \in Nat
    BY PoolIs, PoolAssumption
  <1>2. p.count \in Nat /\ p.count <= MaxRecords
    BY <1>1
  <1>3. \A i \in Slots : i \in Used(p) <=> i <= p.count
    BY DEF Tidy, Used
  <1>4. Used(p) = 1 .. p.count
    <2>1. Used(p) \subseteq Slots
      BY DEF Used
    <2>2. \A i \in 1 .. p.count : i \in Slots /\ i <= p.count
      BY <1>1, <1>2 DEF Slots
    <2>3. \A i \in Slots : i <= p.count => i \in 1 .. p.count
      BY <1>1, <1>2 DEF Slots
    <2> QED
      BY <1>3, <2>1, <2>2, <2>3
  <1>5. \A i \in Used(p) : i \in Slots /\ p.rec[i] \in Record /\ p.rec[i].num = i
    BY <1>1, <1>3, Records DEF Tidy
  <1>6. \A i \in Used(p), j \in Used(p) : Id(p.rec[i]) = Id(p.rec[j]) => i = j
    BY <1>5, Numbered
  <1> QED
    BY <1>2, <1>4, <1>5, <1>6

LEMMA TidyPlaceOf ==
  ASSUME NEW p \in Pools, Tidy(p), NEW i \in Used(p)
  PROVE  SlotsOf(p, Id(p.rec[i])) # {} /\ PlaceOf(p, Id(p.rec[i])) = i
  <1>1. i \in SlotsOf(p, Id(p.rec[i]))
    BY DEF SlotsOf
  <1>2. PlaceOf(p, Id(p.rec[i])) \in Used(p)
        /\ Id(p.rec[PlaceOf(p, Id(p.rec[i]))]) = Id(p.rec[i])
    BY <1>1, PlaceIs
  <1> QED
    BY <1>1, <1>2, TidyPlaces

(* The objects of a tidy pool, one for each record. *)
LEMMA TidyObjects ==
  ASSUME NEW p \in Pools, Tidy(p)
  PROVE  /\ SubSeq(p.rec, 1, p.count) \in Seq(Record)
         /\ Len(SubSeq(p.rec, 1, p.count)) = p.count
         /\ \A i \in 1 .. p.count : SubSeq(p.rec, 1, p.count)[i] = p.rec[i]
  <1>1. /\ p.count \in Nat /\ \A i \in 1 .. p.count : p.rec[i] \in Record
    BY TidyPlaces
  <1>2. /\ SubSeq(p.rec, 1, p.count) \in Seq(Record)
        /\ Len(SubSeq(p.rec, 1, p.count)) = IF 1 <= p.count THEN p.count - 1 + 1 ELSE 0
        /\ \A i \in 1 .. p.count - 1 + 1 : SubSeq(p.rec, 1, p.count)[i] = p.rec[1 + i - 1]
    BY <1>1, SubSeqProperties
  <1> QED
    BY <1>1, <1>2

LEMMA InsertedHas ==
  ASSUME NEW s \in Seq(Record), NEW r \in Record, NEW k \in 1 .. Len(s) + 1
  PROVE  /\ \E j \in DOMAIN InsertAt(s, k, r) : InsertAt(s, k, r)[j] = r
         /\ \A i \in DOMAIN s : \E j \in DOMAIN InsertAt(s, k, r) : InsertAt(s, k, r)[j] = s[i]
  <1> DEFINE t == InsertAt(s, k, r)
  <1>1. /\ t \in Seq(Record) /\ Len(t) = Len(s) + 1
        /\ \A i \in 1 .. Len(s) + 1 : t[i] = IF i < k THEN s[i] ELSE IF i = k THEN r ELSE s[i - 1]
    BY Inserted
  <1> HIDE DEF t
  <1>2. DOMAIN t = 1 .. Len(s) + 1 /\ DOMAIN s = 1 .. Len(s) /\ Len(s) \in Nat
    BY <1>1
  <1>3. k \in DOMAIN t /\ t[k] = r
    BY <1>1, <1>2
  <1>4. ASSUME NEW i \in DOMAIN s PROVE \E j \in DOMAIN t : t[j] = s[i]
    <2>1. CASE i < k
      <3>1. i \in DOMAIN t /\ t[i] = s[i]
        BY <1>1, <1>2, <2>1
      <3> QED
        BY <3>1
    <2>2. CASE i >= k
      <3>1. i + 1 \in DOMAIN t /\ t[i + 1] = s[i]
        BY <1>1, <1>2, <2>2
      <3> QED
        BY <3>1
    <2>3. i < k \/ i >= k
      BY <1>2
    <2> QED
      BY <2>1, <2>2, <2>3
  <1> QED
    BY <1>3, <1>4 DEF t

LEMMA Pushed ==
  ASSUME NEW s \in Seq(Record), NEW r \in Record
  PROVE  /\ PushSort(s, r) \in Seq(Record) /\ Len(PushSort(s, r)) = Len(s) + 1
         /\ \A id : Cardinality(Places(PushSort(s, r), id))
                      <= Cardinality(Places(s, id)) + (IF Id(r) = id THEN 1 ELSE 0)
         /\ \E j \in DOMAIN PushSort(s, r) : PushSort(s, r)[j] = r
         /\ \A i \in DOMAIN s : \E j \in DOMAIN PushSort(s, r) : PushSort(s, r)[j] = s[i]
         /\ (\A i \in 1 .. Len(s) : s[i].num <= r.num) =>
              \A i \in 1 .. Len(s) + 1 : PushSort(s, r)[i] = IF i <= Len(s) THEN s[i] ELSE r
  <1> DEFINE k == Behind(s, r) + 1
             t == PushSort(s, r)
  <1>1. /\ k \in 1 .. Len(s) + 1 /\ t = InsertAt(s, k, r) /\ Len(s) \in Nat
        /\ (\A i \in 1 .. Len(s) : s[i].num <= r.num) => k = Len(s) + 1
    BY PushedWhere
  <1> HIDE DEF k, t
  <1>2. /\ t \in Seq(Record) /\ Len(t) = Len(s) + 1
        /\ \A i \in 1 .. Len(s) + 1 : t[i] = IF i < k THEN s[i] ELSE IF i = k THEN r ELSE s[i - 1]
    <2>1. k \in 1 .. Len(s) + 1
      BY <1>1
    <2>2. /\ InsertAt(s, k, r) \in Seq(Record) /\ Len(InsertAt(s, k, r)) = Len(s) + 1
          /\ \A i \in 1 .. Len(s) + 1 :
               InsertAt(s, k, r)[i] = IF i < k THEN s[i] ELSE IF i = k THEN r ELSE s[i - 1]
      BY <2>1, Inserted, Zenon
    <2>3. t = InsertAt(s, k, r)
      BY <1>1
    <2> HIDE DEF InsertAt
    <2> QED
      BY <2>2, <2>3, Zenon
  <1>3. \A id : Cardinality(Places(t, id)) <= Cardinality(Places(s, id)) + (IF Id(r) = id THEN 1 ELSE 0)
    BY <1>1, PlacesInserted
  <1>4. /\ \E j \in DOMAIN t : t[j] = r
        /\ \A i \in DOMAIN s : \E j \in DOMAIN t : t[j] = s[i]
    BY <1>1, InsertedHas
  <1>5. ASSUME \A i \in 1 .. Len(s) : s[i].num <= r.num
        PROVE  \A i \in 1 .. Len(s) + 1 : t[i] = IF i <= Len(s) THEN s[i] ELSE r
    <2>1. k = Len(s) + 1
      BY <1>1, <1>5
    <2> QED
      BY <1>1, <1>2, <2>1
  <1> QED
    BY <1>2, <1>3, <1>4, <1>5 DEF t

-----------------------------------------------------------------------------
(* A new object: FTE_DS18B20_create. *)
Fresh(p, rom) == [num |-> NextNum(p), rom |-> rom]

(* FTE_DS18B20_isExistROMCode, as far as it tells the truth. *)
Unseen(s, rom) == \A j \in DOMAIN s : s[j].rom # rom

LEMMA FreshIs ==
  ASSUME NEW p \in Pools, Room(p), NEW rom \in Roms
  PROVE  /\ Fresh(p, rom) \in Record /\ Fresh(p, rom).num = NextNum(p) /\ Fresh(p, rom).rom = rom
         /\ rom # 0
  <1>1. NextNum(p) \in Slots
    <2>1. /\ p.rec \in [Slots -> Recs] /\ MaxRecords \in Nat
      BY PoolIs, PoolAssumption
    <2>2. Cardinality(Used(p)) \in 0 .. MaxRecords /\ Cardinality(Used(p)) < MaxRecords
      BY <2>1, Records DEF Room
    <2> QED
      BY <2>1, <2>2 DEF NextNum, Slots
  <1> QED
    BY <1>1, PoolAssumption DEF Fresh, Record, Slots, Roms

LEMMA CreatedTidy ==
  ASSUME NEW p \in Pools, Room(p), NEW r \in Record, r.num = NextNum(p), Tidy(p)
  PROVE  /\ Tidy(OBJ_alloc(p, r))
         /\ OBJ_save(OBJ_alloc(p, r), r) = OBJ_alloc(p, r)
         /\ OBJ_free(OBJ_alloc(p, r), Id(r)) = p
  <1> DEFINE a == OBJ_alloc(p, r)
             k == FreePlace(p)
  <1>1. /\ k \in Slots \ Used(p) /\ a \in Pools /\ a.count = p.count + 1
        /\ \A i \in Slots : a.rec[i] = IF i = k THEN r ELSE p.rec[i]
        /\ Used(a) = Used(p) \cup {k}
        /\ k = p.count + 1 /\ r.num = k
    BY Allocated
  <1>2. r # Empty /\ p.count \in Nat
    BY Numbered, TidyPlaces
  <1> HIDE DEF a, k
  <1>3. Tidy(a)
    <2> SUFFICES ASSUME NEW i \in Slots
                 PROVE  IF i <= a.count THEN a.rec[i] # Empty /\ a.rec[i].num = i ELSE a.rec[i] = Empty
      BY DEF Tidy
    <2>1. IF i <= p.count THEN p.rec[i] # Empty /\ p.rec[i].num = i ELSE p.rec[i] = Empty
      BY DEF Tidy
    <2>2. i \in Int
      BY DEF Slots
    <2>3. CASE i = k
      BY <1>1, <1>2, <2>3
    <2>4. CASE i # k
      <3>1. i <= a.count <=> i <= p.count
        BY <1>1, <1>2, <2>2, <2>4
      <3> QED
        BY <1>1, <2>1, <2>4, <3>1
    <2> QED
      BY <2>3, <2>4
  <1>4. k \in Used(a) /\ a.rec[k] = r /\ k \in Slots
    BY <1>1
  <1>5. SlotsOf(a, Id(r)) # {} /\ PlaceOf(a, Id(r)) = k
    BY <1>1, <1>3, <1>4, TidyPlaceOf
  <1>6. OBJ_save(a, r) = a
    <2>1. /\ OBJ_save(a, r) \in Pools /\ OBJ_save(a, r).count = a.count
          /\ \A i \in Slots : OBJ_save(a, r).rec[i] = IF i = k THEN r ELSE a.rec[i]
      BY <1>1, <1>5, Saved
    <2>2. \A i \in Slots : OBJ_save(a, r).rec[i] = a.rec[i]
      BY <1>4, <2>1
    <2> QED
      BY <1>1, <2>1, <2>2, SamePool
  <1>7. OBJ_free(a, Id(r)) = p
    <2>1. /\ OBJ_free(a, Id(r)) \in Pools /\ OBJ_free(a, Id(r)).count = a.count - 1
          /\ \A i \in Slots : OBJ_free(a, Id(r)).rec[i] = IF i = k THEN Empty ELSE a.rec[i]
      BY <1>1, <1>5, Freed
    <2>2. p.rec[k] = Empty
      BY <1>1 DEF Used
    <2>3. \A i \in Slots : OBJ_free(a, Id(r)).rec[i] = p.rec[i]
      BY <1>1, <2>1, <2>2
    <2>4. OBJ_free(a, Id(r)).count = p.count
      BY <1>1, <1>2, <2>1
    <2> QED
      BY <2>1, <2>3, <2>4, SamePool
  <1> QED
    BY <1>3, <1>6, <1>7 DEF a

LEMMA CreatedFits ==
  ASSUME NEW p \in Pools, NEW s \in Seq(Record), Room(p),
         NEW r \in Record, r.num = NextNum(p), r.rom # 0,
         NEW gap, NEW gone, NEW twice, Fit(p, s, gap, gone, twice),
         ~twice => Unseen(s, r.rom)
  PROVE  Fit(OBJ_alloc(p, r), PushSort(s, r), gap, gone, twice)
  <1> DEFINE a == OBJ_alloc(p, r)
             k == FreePlace(p)
             t == PushSort(s, r)
  <1>1. /\ k \in Slots \ Used(p) /\ a \in Pools /\ a.count = p.count + 1
        /\ \A i \in Slots : a.rec[i] = IF i = k THEN r ELSE p.rec[i]
        /\ Used(a) = Used(p) \cup {k} /\ Used(p) \subseteq Slots
        /\ \A id : Cardinality(SlotsOf(a, id)) = Cardinality(SlotsOf(p, id)) + (IF Id(r) = id THEN 1 ELSE 0)
    BY Allocated DEF Used
  <1>2. /\ t \in Seq(Record) /\ Len(t) = Len(s) + 1
        /\ \A id : Cardinality(Places(t, id)) <= Cardinality(Places(s, id)) + (IF Id(r) = id THEN 1 ELSE 0)
        /\ \E j \in DOMAIN t : t[j] = r
        /\ \A i \in DOMAIN s : \E j \in DOMAIN t : t[j] = s[i]
        /\ (\A i \in 1 .. Len(s) : s[i].num <= r.num) =>
             \A i \in 1 .. Len(s) + 1 : t[i] = IF i <= Len(s) THEN s[i] ELSE r
    BY Pushed
  <1> HIDE DEF a, k, t
  <1>3. Stored(a, t)
    <2> SUFFICES ASSUME NEW id \in Ids
                 PROVE  Cardinality(Places(t, id)) <= Cardinality(SlotsOf(a, id))
      BY DEF Stored
    <2>1. Cardinality(Places(s, id)) <= Cardinality(SlotsOf(p, id))
      BY DEF Fit, Stored
    <2>2. /\ Cardinality(Places(s, id)) \in Nat /\ Cardinality(Places(t, id)) \in Nat
          /\ Cardinality(SlotsOf(p, id)) \in Nat
      BY <1>2, PlacesFinite, PoolIs, Records
    <2>3. /\ Cardinality(SlotsOf(a, id)) = Cardinality(SlotsOf(p, id)) + (IF Id(r) = id THEN 1 ELSE 0)
          /\ Cardinality(Places(t, id)) <= Cardinality(Places(s, id)) + (IF Id(r) = id THEN 1 ELSE 0)
      BY <1>1, <1>2
    <2> QED
      BY <2>1, <2>2, <2>3
  <1>4. ~gap => Tidy(p) /\ Tidy(a)
    BY CreatedTidy DEF Fit, Kept, a
  <1>5. \A i \in Used(p) : a.rec[i] = p.rec[i]
    BY <1>1
  <1>6. ASSUME ~gap, ~twice PROVE Unique(a)
    <2>1. Unique(p) /\ Represented(p, s) /\ Unseen(s, r.rom)
      BY <1>6 DEF Fit, Kept
    <2>2. \A i \in Used(p) : p.rec[i].rom # r.rom
      BY <2>1 DEF Represented, Unseen
    <2>3. a.rec[k] = r
      BY <1>1
    <2> SUFFICES ASSUME NEW i \in Used(a), NEW j \in Used(a),
                        a.rec[i].rom = a.rec[j].rom, a.rec[i].rom # 0
                 PROVE  i = j
      BY DEF Unique
    <2>4. CASE i \in Used(p) /\ j \in Used(p)
      BY <1>5, <2>1, <2>4 DEF Unique
    <2>5. CASE i = k /\ j \in Used(p)
      BY <1>5, <2>2, <2>3, <2>5
    <2>6. CASE i \in Used(p) /\ j = k
      BY <1>5, <2>2, <2>3, <2>6
    <2> QED
      BY <1>1, <2>4, <2>5, <2>6
  <1>7. ASSUME ~gap, ~twice PROVE Represented(a, t)
    <2>1. Represented(p, s)
      BY <1>7 DEF Fit
    <2>2. ASSUME NEW i \in Used(p), p.rec[i].rom # 0 PROVE \E j \in DOMAIN t : t[j] = a.rec[i]
      BY <1>2, <1>5, <2>1, <2>2 DEF Represented
    <2>3. a.rec[k] = r
      BY <1>1
    <2> QED
      BY <1>1, <1>2, <1>5, <2>2, <2>3 DEF Represented
  <1>8. ASSUME ~gap, ~gone PROVE t = SubSeq(a.rec, 1, a.count)
    <2>1. s = SubSeq(p.rec, 1, p.count) /\ Tidy(p) /\ Tidy(a)
      BY <1>4, <1>8 DEF Fit
    <2>2. /\ p.count \in Nat /\ Used(p) = 1 .. p.count
          /\ \A i \in 1 .. p.count : p.rec[i].num = i
      BY <2>1, TidyPlaces
    <2>3. Len(s) = p.count /\ \A i \in 1 .. p.count : s[i] = p.rec[i]
      BY <2>1, TidyObjects
    <2>4. k = p.count + 1 /\ r.num = k
      BY <2>1, Allocated DEF k
    <2>5. \A i \in 1 .. Len(s) : s[i].num <= r.num
      BY <2>2, <2>3, <2>4
    <2>6. \A i \in 1 .. p.count + 1 : t[i] = IF i <= p.count THEN s[i] ELSE r
      BY <1>2, <2>3, <2>5
    <2>7. \A i \in 1 .. p.count + 1 : t[i] = a.rec[i]
      BY <1>1, <1>5, <2>2, <2>3, <2>4, <2>6
    <2> DEFINE u == SubSeq(a.rec, 1, a.count)
    <2>8. u \in Seq(Record) /\ Len(u) = p.count + 1 /\ \A i \in 1 .. p.count + 1 : u[i] = a.rec[i]
      BY <1>1, <2>1, TidyObjects
    <2> HIDE DEF u
    <2>9. t = u
      <3>1. Len(t) = Len(u) /\ \A i \in 1 .. Len(t) : t[i] = u[i]
        BY <1>2, <2>3, <2>7, <2>8
      <3> QED
        BY <1>2, <2>8, <3>1, SeqEqual, Zenon
    <2> QED
      BY <2>9 DEF u
  <1> QED
    BY <1>3, <1>4, <1>6, <1>7, <1>8 DEF Fit, Kept, a, t

(* What a discovery changes, and when it fits. *)
QRec == [pool : Pools, live : Seq(Record), stop : BOOLEAN, lost : SUBSET Roms]
Goods(gap, gone, twice) == {q \in QRec : Fit(q.pool, q.live, gap, gone, twice)}

LEMMA FitWithGap ==
  ASSUME NEW p, NEW s, NEW gap, NEW gone, NEW twice, gap, Stored(p, s)
  PROVE  Fit(p, s, gap, gone, twice)
  BY DEF Fit, Kept

LEMMA StoredSame ==
  ASSUME NEW p, NEW q, NEW s, Stored(p, s),
         \A id : Cardinality(SlotsOf(q, id)) = Cardinality(SlotsOf(p, id))
  PROVE  Stored(q, s)
  BY DEF Stored

LEMMA CreateGood ==
  ASSUME NEW gap, NEW gone, NEW twice, NEW q \in Goods(gap, gone, twice), Room(q.pool),
         NEW rom \in Roms, ~twice => Unseen(q.live, rom), NEW keep \in BOOLEAN, NEW fail
  PROVE  Create(q, rom, keep, fail) \in Goods(gap, gone, twice)
  <1> DEFINE p == q.pool
             n == Fresh(p, rom)
             a == OBJ_alloc(p, n)
             c == Create(q, rom, keep, fail)
  <1>1. q \in QRec /\ p \in Pools /\ q.live \in Seq(Record) /\ Fit(p, q.live, gap, gone, twice)
    BY DEF Goods, QRec
  <1>2. n \in Record /\ n.num = NextNum(p) /\ n.rom = rom /\ n.rom # 0
    BY <1>1, FreshIs
  <1>3. c = IF rom = fail THEN [q EXCEPT !.pool = OBJ_free(a, Id(n)), !.stop = TRUE, !.lost = {rom}]
              ELSE [q EXCEPT !.pool = IF keep THEN OBJ_save(a, n) ELSE a, !.live = PushSort(q.live, n)]
    BY <1>1 DEF Create, Fresh, QRec
  <1> HIDE DEF c, n, p
  <1>4. /\ a \in Pools
        /\ \A id : Cardinality(SlotsOf(a, id)) = Cardinality(SlotsOf(p, id)) + (IF Id(n) = id THEN 1 ELSE 0)
        /\ \A id : Cardinality(SlotsOf(p, id)) \in Nat
    BY <1>1, <1>2, Allocated, PoolIs, Records DEF p
  <1>5. ~gap => OBJ_save(a, n) = a /\ OBJ_free(a, Id(n)) = p
    <2>1. ~gap => Tidy(p)
      BY <1>1 DEF Fit, Kept
    <2> QED
      BY <1>1, <1>2, <2>1, CreatedTidy DEF p
  <1> HIDE DEF a
  <1>6. CASE rom = fail
    <2> DEFINE f == OBJ_free(a, Id(n))
    <2>1. SlotsOf(a, Id(n)) # {}
      <3>1. Cardinality(SlotsOf(a, Id(n))) # 0
        BY <1>4
      <3> QED
        BY <3>1, FS_EmptySet
    <2>2. /\ f \in Pools
          /\ \A id : Cardinality(SlotsOf(f, id)) = Cardinality(SlotsOf(a, id)) - (IF id = Id(n) THEN 1 ELSE 0)
      BY <1>4, <2>1, Freed
    <2> HIDE DEF f
    <2>3. \A id : Cardinality(SlotsOf(f, id)) = Cardinality(SlotsOf(p, id))
      BY <1>4, <2>2
    <2>4. Fit(f, q.live, gap, gone, twice)
      <3>1. CASE gap
        <4>1. Stored(f, q.live)
          BY <1>1, <2>3, StoredSame DEF Fit
        <4> QED
          BY <3>1, <4>1, FitWithGap
      <3>2. CASE ~gap
        BY <1>1, <1>5, <3>2 DEF f
      <3> QED
        BY <3>1, <3>2
    <2>5. c = [q EXCEPT !.pool = f, !.stop = TRUE, !.lost = {rom}]
      BY <1>3, <1>6 DEF f
    <2>6. c \in QRec /\ c.pool = f /\ c.live = q.live
      BY <1>1, <2>2, <2>5 DEF QRec
    <2> QED
      BY <2>4, <2>6 DEF Goods, c
  <1>7. CASE rom # fail
    <2> DEFINE f == IF keep THEN OBJ_save(a, n) ELSE a
               t == PushSort(q.live, n)
    <2>1. Fit(a, t, gap, gone, twice)
      BY <1>1, <1>2, CreatedFits DEF a, p
    <2>2. f \in Pools /\ \A id : SlotsOf(f, id) = SlotsOf(a, id)
      BY <1>2, <1>4, Saved
    <2>3. Fit(f, t, gap, gone, twice)
      <3>1. CASE gap
        <4>1. Stored(a, t)
          BY <2>1 DEF Fit
        <4> HIDE DEF f, t
        <4>2. Stored(f, t)
          BY <2>2, <4>1, StoredSame
        <4> QED
          BY <3>1, <4>2, FitWithGap
      <3>2. CASE ~gap
        <4>1. f = a
          BY <1>5, <3>2
        <4> QED
          BY <2>1, <4>1
      <3> QED
        BY <3>1, <3>2
    <2>4. t \in Seq(Record)
      BY <1>1, <1>2, Pushed
    <2>5. c = [q EXCEPT !.pool = f, !.live = t]
      BY <1>3, <1>7
    <2> HIDE DEF f, t
    <2>6. c \in QRec /\ c.pool = f /\ c.live = t
      BY <1>1, <2>2, <2>4, <2>5 DEF QRec
    <2> QED
      BY <2>3, <2>6 DEF Goods, c
  <1> QED
    BY <1>6, <1>7

LEMMA DiscoverGood ==
  ASSUME NEW gap, NEW gone, NEW twice, NEW q \in Goods(gap, gone, twice),
         NEW rom \in Roms, NEW seen, NEW fail
  PROVE  Discover(q, rom, seen, fail) \in Goods(gap, gone, twice)
  <1>1. CASE q.stop \/ Exists(q, rom, seen)
    BY <1>1 DEF Discover
  <1>2. CASE ~(q.stop \/ Exists(q, rom, seen)) /\ ~Room(q.pool)
    <2> DEFINE d == [q EXCEPT !.stop = TRUE]
    <2>1. Discover(q, rom, seen, fail) = d
      BY <1>2 DEF Discover
    <2>2. d \in QRec /\ d.pool = q.pool /\ d.live = q.live
      BY DEF Goods, QRec
    <2> QED
      BY <2>1, <2>2 DEF Goods
  <1>3. CASE ~(q.stop \/ Exists(q, rom, seen)) /\ Room(q.pool)
    <2>1. Unseen(q.live, rom)
      BY <1>3 DEF Exists, Unseen
    <2>2. Discover(q, rom, seen, fail) = Create(q, rom, TRUE, fail)
      BY <1>3 DEF Discover
    <2> QED
      BY <1>3, <2>1, <2>2, CreateGood
  <1> QED
    BY <1>1, <1>2, <1>3

(* The loop of a discovery keeps what each of its rounds keeps. *)
LEMMA DiscoveredGood ==
  ASSUME NEW gap, NEW gone, NEW twice, Now \in Goods(gap, gone, twice),
         NEW S, NEW seen, NEW fail
  PROVE  Discovered(S, seen, fail) \in Goods(gap, gone, twice)
  <1> DEFINE V == Goods(gap, gone, twice)
             step(r, q) == IF r \in S THEN Discover(q, r, seen, fail) ELSE q
             walk == [i \in 0 .. NumRoms - 1 |-> [q \in V |-> step(i + 1, q)]]
             Def(f) == f = [r \in 0 .. NumRoms |->
                              IF r = 0 THEN Now
                                ELSE IF r \in S THEN Discover(f[r - 1], r, seen, fail) ELSE f[r - 1]]
             after == CHOOSE f : Def(f)
  <1>0. Discovered(S, seen, fail) = after[NumRoms] /\ NumRoms \in Nat
    BY PoolAssumption DEF Discovered
  <1>1. \A r \in Roms : \A q \in V : step(r, q) \in V
    BY DiscoverGood
  <1> HIDE DEF V
  <1>2. \A i \in 0 .. NumRoms - 1 : i + 1 \in Roms
    BY <1>0 DEF Roms
  <1>3. \A i \in 0 .. NumRoms - 1 : \A q \in V : walk[i][q] \in V /\ walk[i][q] = step(i + 1, q)
    <2> HIDE DEF step
    <2> QED
      BY <1>1, <1>2
  <1>4. PICK g \in [0 .. NumRoms -> V] :
          g[0] = Now /\ \A i \in 0 .. NumRoms - 1 : g[i + 1] = walk[i][g[i]]
    <2> HIDE DEF walk
    <2>1. Now \in V
      BY DEF V
    <2>2. \E f : Solves(f, walk, NumRoms, Now, V)
      BY <1>0, <1>3, <2>1, Recursion DEF Steps
    <2> QED
      BY <2>2 DEF Solves
  <1>5. \A r \in 0 .. NumRoms :
          g[r] = IF r = 0 THEN Now
                   ELSE IF r \in S THEN Discover(g[r - 1], r, seen, fail) ELSE g[r - 1]
    <2> TAKE r \in 0 .. NumRoms
    <2>1. CASE r = 0
      BY <1>4, <2>1
    <2>2. CASE r # 0
      <3>1. r - 1 \in 0 .. NumRoms - 1 /\ r - 1 \in 0 .. NumRoms /\ r = (r - 1) + 1
        BY <1>0, <2>2
      <3>2. g[r - 1] \in V
        BY <1>4, <3>1
      <3>3. g[r] = walk[r - 1][g[r - 1]]
        BY <1>4, <3>1
      <3> HIDE DEF walk
      <3>4. g[r] = step(r, g[r - 1])
        BY <1>3, <3>1, <3>2, <3>3
      <3> QED
        BY <2>2, <3>4
    <2> QED
      BY <2>1, <2>2
  <1>6. Def(g)
    BY <1>4, <1>5
  <1>7. Def(after)
    <2> HIDE DEF Def
    <2> QED
      BY <1>6
  <1>8. \A r \in 0 .. NumRoms :
          after[r] = IF r = 0 THEN Now
                       ELSE IF r \in S THEN Discover(after[r - 1], r, seen, fail) ELSE after[r - 1]
    BY <1>7
  <1> HIDE DEF after, Def, walk
  <1>9. \A r \in 0 .. NumRoms : r \in {i \in 0 .. NumRoms : after[i] \in V}
    <2> DEFINE T == {i \in 0 .. NumRoms : after[i] \in V}
    <2>1. 0 \in T
      BY <1>0, <1>8 DEF V
    <2>2. ASSUME NEW i \in 0 .. NumRoms - 1, i \in T PROVE i + 1 \in T
      <3>1. i + 1 \in 0 .. NumRoms /\ i + 1 # 0 /\ (i + 1) - 1 = i /\ i + 1 \in Roms
        BY <1>0 DEF Roms
      <3>2. after[i + 1] = step(i + 1, after[i])
        BY <1>8, <3>1
      <3>3. after[i] \in V
        BY <2>2
      <3> HIDE DEF step
      <3>4. after[i + 1] \in V
        BY <1>1, <3>1, <3>2, <3>3
      <3> QED
        BY <3>1, <3>4
    <2> HIDE DEF T
    <2>3. \A r \in 0 .. NumRoms : r \in T
      BY <1>0, <2>1, <2>2, Induct
    <2> QED
      BY <2>3 DEF T
  <1>10. after[NumRoms] \in V
    BY <1>0, <1>9
  <1> QED
    BY <1>0, <1>10 DEF V

-----------------------------------------------------------------------------
(* A start: the objects made from a pool. *)
LEMMA MadeIs ==
  ASSUME NEW p \in Pools
  PROVE  /\ Made(p, 0) = << >>
         /\ \A n \in 0 .. MaxRecords : Made(p, n) \in Seq(Record)
         /\ \A n \in 0 .. MaxRecords - 1 :
              Made(p, n + 1) = IF p.rec[n + 1] = Empty THEN Made(p, n)
                                 ELSE PushSort(Made(p, n), p.rec[n + 1])
  <1> DEFINE V == Seq(Record)
             step(n, s) == IF p.rec[n] = Empty THEN s ELSE PushSort(s, p.rec[n])
             walk == [i \in 0 .. MaxRecords - 1 |-> [s \in V |-> step(i + 1, s)]]
             Def(f) == f = [n \in 0 .. MaxRecords |->
                              IF n = 0 THEN << >>
                                ELSE IF p.rec[n] = Empty THEN f[n - 1] ELSE PushSort(f[n - 1], p.rec[n])]
             made == CHOOSE f : Def(f)
  <1>0. MaxRecords \in Nat /\ \A k : Made(p, k) = made[k]
    BY PoolAssumption DEF Made
  <1>1. \A n \in Slots : \A s \in V : step(n, s) \in V
    <2> SUFFICES ASSUME NEW n \in Slots, NEW s \in V PROVE step(n, s) \in V
      OBVIOUS
    <2>1. p.rec[n] \in Recs
      BY PoolIs
    <2>2. CASE p.rec[n] = Empty
      BY <2>2
    <2>3. CASE p.rec[n] # Empty
      <3>1. p.rec[n] \in Record
        BY <2>1, <2>3 DEF Recs
      <3> QED
        BY <2>3, <3>1, Pushed
    <2> QED
      BY <2>2, <2>3
  <1>2. << >> \in V
    OBVIOUS
  <1> HIDE DEF V
  <1>3. \A i \in 0 .. MaxRecords - 1 : i + 1 \in Slots
    BY <1>0 DEF Slots
  <1>4. \A i \in 0 .. MaxRecords - 1 : \A s \in V : walk[i][s] \in V /\ walk[i][s] = step(i + 1, s)
    <2> HIDE DEF step
    <2> QED
      BY <1>1, <1>3
  <1>5. PICK g \in [0 .. MaxRecords -> V] :
          g[0] = << >> /\ \A i \in 0 .. MaxRecords - 1 : g[i + 1] = walk[i][g[i]]
    <2> HIDE DEF walk
    <2>1. \E f : Solves(f, walk, MaxRecords, << >>, V)
      BY <1>0, <1>2, <1>4, Recursion DEF Steps
    <2> QED
      BY <2>1 DEF Solves
  <1>6. \A n \in 0 .. MaxRecords :
          g[n] = IF n = 0 THEN << >>
                   ELSE IF p.rec[n] = Empty THEN g[n - 1] ELSE PushSort(g[n - 1], p.rec[n])
    <2> TAKE n \in 0 .. MaxRecords
    <2>1. CASE n = 0
      BY <1>5, <2>1
    <2>2. CASE n # 0
      <3>1. n - 1 \in 0 .. MaxRecords - 1 /\ n - 1 \in 0 .. MaxRecords /\ n = (n - 1) + 1
        BY <1>0, <2>2
      <3>2. g[n - 1] \in V
        BY <1>5, <3>1
      <3>3. g[n] = walk[n - 1][g[n - 1]]
        BY <1>5, <3>1
      <3> HIDE DEF walk
      <3>4. g[n] = step(n, g[n - 1])
        BY <1>4, <3>1, <3>2, <3>3
      <3> QED
        BY <2>2, <3>4
    <2> QED
      BY <2>1, <2>2
  <1>7. Def(g)
    BY <1>5, <1>6
  <1>8. Def(made)
    <2> HIDE DEF Def
    <2> QED
      BY <1>7
  <1>9. \A n \in 0 .. MaxRecords :
          made[n] = IF n = 0 THEN << >>
                      ELSE IF p.rec[n] = Empty THEN made[n - 1] ELSE PushSort(made[n - 1], p.rec[n])
    BY <1>8
  <1> HIDE DEF made, Def, walk
  <1>10. made[0] = << >> /\ \A i \in 0 .. MaxRecords - 1 : made[i + 1] = step(i + 1, made[i])
    <2>1. made[0] = << >>
      BY <1>0, <1>9
    <2>2. ASSUME NEW i \in 0 .. MaxRecords - 1 PROVE made[i + 1] = step(i + 1, made[i])
      <3>1. i + 1 \in 0 .. MaxRecords /\ i + 1 # 0 /\ (i + 1) - 1 = i
        BY <1>0
      <3> QED
        BY <1>9, <3>1
    <2> QED
      BY <2>1, <2>2
  <1>11. \A n \in 0 .. MaxRecords : made[n] \in V
    <2> DEFINE T == {i \in 0 .. MaxRecords : made[i] \in V}
    <2>1. 0 \in T
      BY <1>0, <1>2, <1>10
    <2>2. ASSUME NEW i \in 0 .. MaxRecords - 1, i \in T PROVE i + 1 \in T
      <3>1. i + 1 \in 0 .. MaxRecords /\ i + 1 \in Slots /\ made[i] \in V
        BY <1>0, <2>2 DEF Slots
      <3> HIDE DEF step
      <3>2. made[i + 1] \in V
        BY <1>1, <1>10, <3>1
      <3> QED
        BY <3>1, <3>2
    <2>3. \A n \in 0 .. MaxRecords : n \in T
      <3> HIDE DEF T
      <3> QED
        BY <1>0, <2>1, <2>2, Induct
    <2> QED
      BY <2>3
  <1> QED
    BY <1>0, <1>10, <1>11 DEF V

LEMMA MadeStored ==
  ASSUME NEW p \in Pools, NEW id
  PROVE  \A n \in 0 .. MaxRecords :
           Cardinality(Places(Made(p, n), id)) <= Cardinality(SlotsOf(p, id) \cap 1 .. n)
  <1> DEFINE slots(n) == SlotsOf(p, id) \cap 1 .. n
             T == {n \in 0 .. MaxRecords : Cardinality(Places(Made(p, n), id)) <= Cardinality(slots(n))}
  <1>0. MaxRecords \in Nat /\ p.rec \in [Slots -> Recs]
    BY PoolAssumption, PoolIs
  <1>1. \A n : IsFiniteSet(slots(n)) /\ Cardinality(slots(n)) \in Nat
    <2>1. \A n : slots(n) \subseteq Slots
      BY DEF SlotsOf, Used
    <2> QED
      BY <2>1, SlotsFinite
  <1>2. 0 \in T
    <2>1. Made(p, 0) = << >>
      BY MadeIs
    <2>2. Places(Made(p, 0), id) = {}
      BY <2>1 DEF Places
    <2>3. Cardinality(Places(Made(p, 0), id)) = 0
      BY <2>2, FS_EmptySet
    <2>4. Cardinality(slots(0)) \in Nat
      BY <1>1
    <2> HIDE DEF slots
    <2> QED
      BY <1>0, <2>3, <2>4
  <1>3. ASSUME NEW n \in 0 .. MaxRecords - 1, n \in T PROVE n + 1 \in T
    <2> DEFINE k == n + 1
               s == Made(p, n)
               r == p.rec[k]
    <2>1. k \in Slots /\ k \in 0 .. MaxRecords /\ n \in 0 .. MaxRecords /\ n \in Nat /\ r \in Recs
      BY <1>0 DEF Slots
    <2>2. s \in Seq(Record) /\ Made(p, k) = IF r = Empty THEN s ELSE PushSort(s, r)
      BY <2>1, MadeIs
    <2>3. Cardinality(Places(s, id)) <= Cardinality(slots(n))
      BY <1>3
    <2>4. slots(k) = IF k \in SlotsOf(p, id) THEN slots(n) \cup {k} ELSE slots(n)
      BY <2>1
    <2>5. k \notin slots(n)
      BY <2>1
    <2>6. k \in SlotsOf(p, id) <=> r # Empty /\ Id(r) = id
      BY <2>1 DEF SlotsOf, Used
    <2>7. /\ Cardinality(slots(n)) \in Nat /\ Cardinality(Places(s, id)) \in Nat
          /\ Cardinality(slots(n) \cup {k}) = Cardinality(slots(n)) + 1
      <3>1. IsFiniteSet(slots(n)) /\ Cardinality(slots(n)) \in Nat
        BY <1>1
      <3> HIDE DEF slots, s, k
      <3> QED
        BY <2>2, <2>5, <3>1, FS_AddElement, PlacesFinite
    <2> HIDE DEF slots, k, s, r
    <2>8. Cardinality(Places(Made(p, k), id)) <= Cardinality(slots(k))
      <3>1. CASE r = Empty
        BY <2>2, <2>3, <2>4, <2>6, <3>1
      <3>2. CASE r # Empty
        <4>1. r \in Record
          BY <2>1, <3>2 DEF Recs
        <4>2. /\ PushSort(s, r) \in Seq(Record)
              /\ Cardinality(Places(PushSort(s, r), id))
                   <= Cardinality(Places(s, id)) + (IF Id(r) = id THEN 1 ELSE 0)
          BY <2>2, <4>1, Pushed
        <4>3. Cardinality(Places(PushSort(s, r), id)) \in Nat
          BY <4>2, PlacesFinite
        <4>4. Made(p, k) = PushSort(s, r)
          BY <2>2, <3>2
        <4>5. CASE Id(r) = id
          BY <2>3, <2>4, <2>6, <2>7, <3>2, <4>2, <4>3, <4>4, <4>5
        <4>6. CASE Id(r) # id
          BY <2>3, <2>4, <2>6, <2>7, <3>2, <4>2, <4>3, <4>4, <4>6
        <4> QED
          BY <4>5, <4>6
      <3> QED
        BY <3>1, <3>2
    <2> QED
      BY <2>1, <2>8 DEF k
  <1>4. \A n \in 0 .. MaxRecords : n \in T
    <2> HIDE DEF T
    <2> QED
      BY <1>0, <1>2, <1>3, Induct
  <1> QED
    BY <1>4

LEMMA MadeTidy ==
  ASSUME NEW p \in Pools, Tidy(p)
  PROVE  Created(p) = SubSeq(p.rec, 1, p.count)
  <1> DEFINE c == p.count
             Is(n) == /\ Len(Made(p, n)) = n
                      /\ \A i \in 1 .. n : Made(p, n)[i] = p.rec[i]
             T == {n \in 0 .. c : Is(n)}
  <1>0. /\ c \in Nat /\ c <= MaxRecords /\ MaxRecords \in Nat
        /\ \A i \in 1 .. c : i \in Slots /\ p.rec[i] \in Record /\ p.rec[i].num = i /\ p.rec[i] # Empty
    BY TidyPlaces, PoolAssumption DEF Used
  <1>1. 0 \in T
    <2>1. Made(p, 0) = << >>
      BY MadeIs
    <2> QED
      BY <1>0, <2>1
  <1>2. ASSUME NEW n \in 0 .. c - 1, n \in T PROVE n + 1 \in T
    <2> DEFINE k == n + 1
               s == Made(p, n)
               r == p.rec[k]
    <2>1. /\ n \in Nat /\ k \in 1 .. c /\ n \in 0 .. MaxRecords - 1 /\ n \in 0 .. MaxRecords
          /\ r \in Record /\ r.num = k /\ r # Empty
      BY <1>0
    <2>2. s \in Seq(Record) /\ Made(p, k) = PushSort(s, r)
      BY <2>1, MadeIs
    <2>3. Len(s) = n /\ \A i \in 1 .. n : s[i] = p.rec[i]
      BY <1>2
    <2>4. \A i \in 1 .. Len(s) : s[i].num <= r.num
      BY <1>0, <2>1, <2>3
    <2> HIDE DEF s, r
    <2>5. Len(PushSort(s, r)) = n + 1 /\ \A i \in 1 .. n + 1 : PushSort(s, r)[i] = IF i <= n THEN s[i] ELSE r
      <3>1. r \in Record
        BY <2>1
      <3>2. /\ Len(PushSort(s, r)) = Len(s) + 1
            /\ \A i \in 1 .. Len(s) + 1 : PushSort(s, r)[i] = IF i <= Len(s) THEN s[i] ELSE r
        BY <2>2, <2>4, <3>1, Pushed, Zenon
      <3> QED
        BY <2>3, <3>2
    <2>6. ASSUME NEW i \in 1 .. n + 1 PROVE PushSort(s, r)[i] = p.rec[i]
      <3>1. CASE i <= n
        BY <2>3, <2>5, <3>1
      <3>2. CASE i = n + 1
        BY <2>1, <2>5, <3>2 DEF r
      <3> QED
        BY <2>1, <3>1, <3>2
    <2>7. Is(k)
      BY <2>2, <2>5, <2>6
    <2> HIDE DEF Is
    <2> QED
      BY <2>1, <2>7
  <1>3. \A n \in 0 .. c : n \in T
    <2> HIDE DEF T, c
    <2> QED
      BY <1>0, <1>1, <1>2, Induct
  <1>4. Is(c) /\ Created(p) = Made(p, c) /\ Made(p, c) \in Seq(Record)
    BY <1>0, <1>3, MadeIs DEF Created
  <1> DEFINE u == SubSeq(p.rec, 1, p.count)
  <1>5. u \in Seq(Record) /\ Len(u) = c /\ \A i \in 1 .. c : u[i] = p.rec[i]
    BY TidyObjects
  <1> HIDE DEF u
  <1>6. Made(p, c) = u
    <2>1. Len(Made(p, c)) = Len(u) /\ \A i \in 1 .. Len(u) : Made(p, c)[i] = u[i]
      BY <1>4, <1>5
    <2> QED
      BY <1>4, <1>5, <2>1, SeqEqual, Zenon
  <1> QED
    BY <1>4, <1>6 DEF u

LEMMA StartFits ==
  ASSUME NEW p \in Pools, NEW gap, NEW twice, NEW gone, Kept(p, gap, twice)
  PROVE  Created(p) \in Seq(Record) /\ Fit(p, Created(p), gap, gone, twice)
  <1>1. p.rec \in [Slots -> Recs] /\ p.count \in 0 .. MaxRecords
    BY PoolIs
  <1>2. Created(p) \in Seq(Record)
    BY <1>1, MadeIs DEF Created
  <1>3. Stored(p, Created(p))
    <2> SUFFICES ASSUME NEW id \in Ids
                 PROVE  Cardinality(Places(Created(p), id)) <= Cardinality(SlotsOf(p, id))
      BY DEF Stored
    <2> DEFINE S == SlotsOf(p, id) \cap 1 .. p.count
    <2>1. Cardinality(Places(Created(p), id)) <= Cardinality(S)
      BY <1>1, MadeStored DEF Created
    <2>2. IsFiniteSet(SlotsOf(p, id)) /\ Cardinality(SlotsOf(p, id)) \in Nat
      BY <1>1, Records
    <2>3. Cardinality(S) <= Cardinality(SlotsOf(p, id)) /\ IsFiniteSet(S)
      BY <2>2, FS_Subset
    <2>4. Cardinality(S) \in Nat /\ Cardinality(Places(Created(p), id)) \in Nat
      BY <1>2, <2>3, FS_CardinalityType, PlacesFinite
    <2> HIDE DEF S
    <2> QED
      BY <2>1, <2>2, <2>3, <2>4
  <1>4. ASSUME ~gap PROVE Created(p) = SubSeq(p.rec, 1, p.count) /\ Represented(p, Created(p))
    <2>1. Tidy(p)
      BY <1>4 DEF Kept
    <2>2. Created(p) = SubSeq(p.rec, 1, p.count)
      BY <2>1, MadeTidy
    <2>3. /\ Len(Created(p)) = p.count /\ \A i \in 1 .. p.count : Created(p)[i] = p.rec[i]
          /\ Used(p) = 1 .. p.count
      BY <2>1, <2>2, TidyObjects, TidyPlaces
    <2>4. DOMAIN Created(p) = 1 .. p.count
      BY <1>2, <2>3
    <2> QED
      BY <2>2, <2>3, <2>4 DEF Represented
  <1> QED
    BY <1>2, <1>3, <1>4 DEF Fit

(* The product's own records. *)
LEMMA DefaultIs ==
  /\ Default \in Pools /\ Tidy(Default) /\ Unique(Default)
  /\ \A i \in Used(Default) : Default.rec[i].rom = 0
  <1>0. Fixed \in Nat /\ MaxRecords \in Nat /\ Fixed <= MaxRecords
    BY PoolAssumption
  <1>1. \A i \in Slots : [num |-> i, rom |-> 0] \in Record
    BY DEF Record, Slots
  <1>2. /\ Default.rec = [i \in Slots |-> IF i <= Fixed THEN [num |-> i, rom |-> 0] ELSE Empty]
        /\ Default.count = Fixed
    BY DEF Default
  <1>3. Default.rec \in [Slots -> Recs]
    <2> SUFFICES ASSUME NEW i \in Slots
                 PROVE  (IF i <= Fixed THEN [num |-> i, rom |-> 0] ELSE Empty) \in Recs
      BY <1>2
    <2> QED
      BY <1>1 DEF Recs
  <1>4. ASSUME NEW i \in Slots
        PROVE  IF i <= Fixed THEN Default.rec[i] # Empty /\ Default.rec[i].num = i /\ Default.rec[i].rom = 0
                 ELSE Default.rec[i] = Empty
    <2>1. CASE i <= Fixed
      <3>1. Default.rec[i] = [num |-> i, rom |-> 0]
        BY <1>2, <2>1
      <3>2. Default.rec[i] \in Record
        BY <1>1, <3>1
      <3> QED
        BY <2>1, <3>1, <3>2, Numbered
    <2>2. CASE ~(i <= Fixed)
      BY <1>2, <2>2
    <2> QED
      BY <2>1, <2>2
  <1>5. Tidy(Default)
    BY <1>2, <1>4 DEF Tidy
  <1>6. Used(Default) = 1 .. Fixed
    <2>1. \A i \in Slots : i \in Used(Default) <=> i <= Fixed
      BY <1>4 DEF Used
    <2>2. Used(Default) \subseteq Slots
      BY DEF Used
    <2>3. 1 .. Fixed \subseteq Slots /\ \A i \in Slots : i <= Fixed <=> i \in 1 .. Fixed
      BY <1>0 DEF Slots
    <2> QED
      BY <2>1, <2>2, <2>3
  <1>7. Default \in Pools
    <2>1. Cardinality(1 .. Fixed) = Fixed
      BY <1>0, FS_Interval
    <2>2. Default \in [rec : [Slots -> Recs], count : 0 .. MaxRecords]
      <3>1. Default = [rec |-> Default.rec, count |-> Fixed]
        BY DEF Default
      <3> QED
        BY <1>0, <1>3, <3>1
    <2> QED
      BY <1>2, <1>6, <2>1, <2>2, PoolIs
  <1>8. \A i \in Used(Default) : Default.rec[i].rom = 0
    BY <1>4 DEF Used
  <1> QED
    BY <1>5, <1>7, <1>8 DEF Unique

-----------------------------------------------------------------------------
(* An object goes: FTE_OBJ_destroy, with or without its record. *)
LEMMA RemovedHas ==
  ASSUME NEW s \in Seq(Record), NEW k \in DOMAIN s, NEW i \in DOMAIN s, i # k
  PROVE  \E j \in DOMAIN RemoveAt(s, k) : RemoveAt(s, k)[j] = s[i]
  <1> DEFINE t == RemoveAt(s, k)
  <1>0. k \in 1 .. Len(s) /\ i \in 1 .. Len(s) /\ Len(s) \in Nat
    OBVIOUS
  <1>1. /\ t \in Seq(Record) /\ Len(t) = Len(s) - 1
        /\ \A j \in 1 .. Len(s) - 1 : t[j] = IF j < k THEN s[j] ELSE s[j + 1]
    BY <1>0, Removed
  <1> HIDE DEF t
  <1>2. DOMAIN t = 1 .. Len(s) - 1
    BY <1>1
  <1>3. CASE i < k
    <2>1. i \in DOMAIN t /\ t[i] = s[i]
      BY <1>0, <1>1, <1>2, <1>3
    <2> QED
      BY <2>1 DEF t
  <1>4. CASE i > k
    <2>1. i - 1 \in 1 .. Len(s) - 1 /\ ~(i - 1 < k) /\ (i - 1) + 1 = i
      BY <1>0, <1>4
    <2>2. i - 1 \in DOMAIN t /\ t[i - 1] = s[i]
      BY <1>1, <1>2, <2>1
    <2> QED
      BY <2>2 DEF t
  <1> QED
    BY <1>0, <1>3, <1>4

LEMMA StoredHere ==
  ASSUME NEW p \in Pools, NEW s \in Seq(Record), Stored(p, s), NEW i \in DOMAIN s
  PROVE  s[i] \in Record /\ Id(s[i]) \in Ids /\ SlotsOf(p, Id(s[i])) # {}
  <1> DEFINE id == Id(s[i])
  <1>1. s[i] \in Record /\ id \in Ids
    BY Numbered
  <1>2. i \in Places(s, id)
    BY DEF Places
  <1>3. IsFiniteSet(Places(s, id)) /\ Cardinality(Places(s, id)) \in Nat
    BY PlacesFinite
  <1> HIDE DEF id
  <1>4. Cardinality(Places(s, id)) # 0
    BY <1>2, <1>3, FS_EmptySet
  <1>5. Cardinality(Places(s, id)) <= Cardinality(SlotsOf(p, id)) /\ Cardinality(SlotsOf(p, id)) \in Nat
    BY <1>1, PoolIs, Records DEF Stored
  <1>6. Cardinality(SlotsOf(p, id)) # 0
    BY <1>3, <1>4, <1>5
  <1> QED
    BY <1>1, <1>6, FS_EmptySet DEF id

(* The record of the object is freed, and the object destroyed: the record *)
(* freed is the object's own if only the last one was ever freed.          *)
Hole(p, id) == \E i \in Used(p) : \E j \in SlotsOf(p, id) : i > j

LEMMA DeletedFits ==
  ASSUME NEW p \in Pools, NEW s \in Seq(Record), NEW i \in DOMAIN s,
         NEW gap, NEW gone, NEW twice, Fit(p, s, gap, gone, twice),
         NEW f, f = OBJ_free(p, Id(s[i])),
         NEW h, h <=> gap \/ Hole(p, Id(s[i]))
  PROVE  /\ SlotsOf(p, Id(s[i])) # {}
         /\ f \in Pools /\ Kept(f, h, twice)
         /\ OBJ_save(f, s[i]) \in Pools /\ RemoveAt(s, i) \in Seq(Record)
         /\ Fit(OBJ_save(f, s[i]), RemoveAt(s, i), h, gone, twice)
  <1> DEFINE id == Id(s[i])
             k == PlaceOf(p, id)
             g == OBJ_save(f, s[i])
             t == RemoveAt(s, i)
  <1>1. s[i] \in Record /\ id \in Ids /\ SlotsOf(p, id) # {} /\ Stored(p, s)
    BY StoredHere DEF Fit
  <1>2. /\ f \in Pools /\ f.count = p.count - 1
        /\ \A j \in Slots : f.rec[j] = IF j = k THEN Empty ELSE p.rec[j]
        /\ Used(f) = Used(p) \ {k}
        /\ \A j : Cardinality(SlotsOf(f, j)) = Cardinality(SlotsOf(p, j)) - (IF j = id THEN 1 ELSE 0)
    BY <1>1, Freed
  <1>3. k \in SlotsOf(p, id) /\ k \in Used(p) /\ k \in Slots /\ Id(p.rec[k]) = id /\ Used(p) \subseteq Slots
    BY <1>1, PlaceIs DEF Used
  <1>4. /\ g \in Pools /\ \A j : SlotsOf(g, j) = SlotsOf(f, j)
        /\ SlotsOf(f, id) = {} => g = f
    BY <1>1, <1>2, Saved
  <1>5. /\ i \in 1 .. Len(s) /\ Len(s) \in Nat
        /\ t \in Seq(Record) /\ Len(t) = Len(s) - 1
        /\ \A j \in 1 .. Len(s) - 1 : t[j] = IF j < i THEN s[j] ELSE s[j + 1]
        /\ \A j : Cardinality(Places(t, j)) <= Cardinality(Places(s, j)) - (IF id = j THEN 1 ELSE 0)
    <2>1. i \in 1 .. Len(s) /\ Len(s) \in Nat
      OBVIOUS
    <2>2. /\ t \in Seq(Record) /\ Len(t) = Len(s) - 1
          /\ \A j \in 1 .. Len(s) - 1 : t[j] = IF j < i THEN s[j] ELSE s[j + 1]
      BY <2>1, Removed, Zenon
    <2>3. \A j : Cardinality(Places(t, j)) <= Cardinality(Places(s, j)) - (IF id = j THEN 1 ELSE 0)
      BY <2>1, PlacesRemoved, Zenon
    <2> HIDE DEF t, id
    <2> QED
      BY <2>1, <2>2, <2>3, Zenon
  <1>6. \A m \in DOMAIN s : m # i => \E j \in DOMAIN t : t[j] = s[m]
    BY RemovedHas
  <1> HIDE DEF id, k, g, t
  <1>7. Stored(g, t)
    <2> SUFFICES ASSUME NEW j \in Ids
                 PROVE  Cardinality(Places(t, j)) <= Cardinality(SlotsOf(g, j))
      BY DEF Stored
    <2>1. Cardinality(Places(s, j)) <= Cardinality(SlotsOf(p, j))
      BY <1>1 DEF Stored
    <2>2. /\ Cardinality(Places(s, j)) \in Nat /\ Cardinality(Places(t, j)) \in Nat
          /\ Cardinality(SlotsOf(p, j)) \in Nat
      BY <1>5, PlacesFinite, PoolIs, Records
    <2>3. /\ Cardinality(SlotsOf(g, j)) = Cardinality(SlotsOf(p, j)) - (IF j = id THEN 1 ELSE 0)
          /\ Cardinality(Places(t, j)) <= Cardinality(Places(s, j)) - (IF id = j THEN 1 ELSE 0)
      BY <1>2, <1>4, <1>5
    <2> QED
      BY <2>1, <2>2, <2>3
  <1>8. ASSUME ~h
        PROVE  /\ Tidy(p) /\ Tidy(f) /\ g = f /\ k = p.count
               /\ \A j \in Used(f) : f.rec[j] = p.rec[j] /\ Id(p.rec[j]) # id
    <2>1. Tidy(p)
      BY <1>8 DEF Fit, Kept
    <2>2. /\ Used(p) = 1 .. p.count /\ p.count \in Nat
          /\ \A j \in Used(p) : p.rec[j] \in Record /\ p.rec[j].num = j
          /\ \A j \in Used(p), m \in Used(p) : Id(p.rec[j]) = Id(p.rec[m]) => j = m
      BY <2>1, TidyPlaces
    <2>3. k = p.count
      <3>1. \A j \in Used(p) : ~(j > k)
        BY <1>3, <1>8 DEF Hole, id
      <3>2. k \in 1 .. p.count /\ p.count \in 1 .. p.count
        BY <1>3, <2>2
      <3> QED
        BY <2>2, <3>1, <3>2
    <2>4. \A j \in Used(f) : f.rec[j] = p.rec[j] /\ Id(p.rec[j]) # id
      BY <1>2, <1>3, <2>2
    <2>5. SlotsOf(f, id) = {}
      BY <2>4 DEF SlotsOf
    <2>6. Tidy(f)
      <3> SUFFICES ASSUME NEW j \in Slots
                   PROVE  IF j <= f.count THEN f.rec[j] # Empty /\ f.rec[j].num = j ELSE f.rec[j] = Empty
        BY DEF Tidy
      <3>1. IF j <= p.count THEN p.rec[j] # Empty /\ p.rec[j].num = j ELSE p.rec[j] = Empty
        BY <2>1 DEF Tidy
      <3>2. j \in Int
        BY DEF Slots
      <3>3. CASE j = k
        BY <1>2, <2>2, <2>3, <3>3
      <3>4. CASE j # k
        <4>1. j <= f.count <=> j <= p.count
          BY <1>2, <2>2, <2>3, <3>2, <3>4
        <4> QED
          BY <1>2, <3>1, <3>4, <4>1
      <3> QED
        BY <3>3, <3>4
    <2> QED
      BY <1>4, <2>1, <2>3, <2>4, <2>5, <2>6
  <1>9. ASSUME ~h, ~twice PROVE Unique(f) /\ Represented(f, t)
    <2>1. Unique(p) /\ Represented(p, s)
      BY <1>9 DEF Fit, Kept
    <2>2. Unique(f)
      BY <1>2, <1>8, <1>9, <2>1 DEF Unique
    <2>3. ASSUME NEW j \in Used(f), f.rec[j].rom # 0 PROVE \E m \in DOMAIN t : t[m] = f.rec[j]
      <3>1. j \in Used(p) /\ f.rec[j] = p.rec[j] /\ Id(p.rec[j]) # id
        BY <1>2, <1>8, <1>9
      <3>2. PICK m \in DOMAIN s : s[m] = p.rec[j]
        BY <2>1, <2>3, <3>1 DEF Represented
      <3>3. m # i
        BY <3>1, <3>2 DEF id
      <3> QED
        BY <1>6, <3>1, <3>2, <3>3
    <2> QED
      BY <2>2, <2>3 DEF Represented
  <1>10. ASSUME ~h, ~gone PROVE t = SubSeq(f.rec, 1, f.count)
    <2>1. s = SubSeq(p.rec, 1, p.count) /\ Tidy(p) /\ Tidy(f) /\ k = p.count
      BY <1>8, <1>10 DEF Fit
    <2>2. /\ p.count \in Nat /\ Used(p) = 1 .. p.count
          /\ \A j \in Used(p), m \in Used(p) : Id(p.rec[j]) = Id(p.rec[m]) => j = m
      BY <2>1, TidyPlaces
    <2>3. Len(s) = p.count /\ \A j \in 1 .. p.count : s[j] = p.rec[j]
      BY <2>1, TidyObjects
    <2>4. i = k
      <3>1. i \in Used(p) /\ Id(p.rec[i]) = id
        BY <1>5, <2>2, <2>3 DEF id
      <3> QED
        BY <1>3, <2>2, <3>1
    <2> DEFINE u == SubSeq(f.rec, 1, f.count)
    <2>5. u \in Seq(Record) /\ Len(u) = p.count - 1 /\ \A j \in 1 .. p.count - 1 : u[j] = f.rec[j]
      BY <1>2, <2>1, TidyObjects
    <2> HIDE DEF u
    <2>6. ASSUME NEW j \in 1 .. p.count - 1 PROVE t[j] = u[j]
      <3>1. j \in Used(p) /\ j \in Slots /\ j # k /\ j < i /\ j \in 1 .. p.count
        BY <1>3, <2>1, <2>2, <2>4
      <3>2. f.rec[j] = p.rec[j] /\ t[j] = s[j] /\ s[j] = p.rec[j]
        BY <1>2, <1>5, <2>3, <3>1
      <3> QED
        BY <2>5, <3>2
    <2>7. t = u
      <3>1. Len(t) = Len(u) /\ \A j \in 1 .. Len(t) : t[j] = u[j]
        BY <1>5, <2>3, <2>5, <2>6
      <3> QED
        BY <1>5, <2>5, <3>1, SeqEqual, Zenon
    <2> QED
      BY <2>7 DEF u
  <1>11. Kept(f, h, twice)
    BY <1>8, <1>9 DEF Kept
  <1>12. Fit(g, t, h, gone, twice)
    <2>1. CASE h
      BY <1>7, <2>1, FitWithGap
    <2>2. CASE ~h
      <3>1. g = f
        BY <1>8, <2>2
      <3> QED
        BY <1>7, <1>9, <1>10, <1>11, <2>2, <3>1 DEF Fit
    <2> QED
      BY <2>1, <2>2
  <1> QED
    BY <1>1, <1>2, <1>4, <1>5, <1>11, <1>12 DEF id, g, t

LEMMA DestroyedFits ==
  ASSUME NEW p \in Pools, NEW s \in Seq(Record), NEW i \in DOMAIN s,
         NEW gap, NEW gone, NEW twice, Fit(p, s, gap, gone, twice)
  PROVE  /\ OBJ_save(p, s[i]) \in Pools /\ RemoveAt(s, i) \in Seq(Record)
         /\ Fit(OBJ_save(p, s[i]), RemoveAt(s, i), gap, TRUE, TRUE)
  <1> DEFINE id == Id(s[i])
             k == PlaceOf(p, id)
             g == OBJ_save(p, s[i])
             t == RemoveAt(s, i)
  <1>1. s[i] \in Record /\ id \in Ids /\ SlotsOf(p, id) # {} /\ Stored(p, s)
    BY StoredHere DEF Fit
  <1>2. k \in Used(p) /\ k \in Slots /\ p.rec[k] \in Record /\ Id(p.rec[k]) = id
    BY <1>1, PlaceIs
  <1>3. /\ g \in Pools /\ g.count = p.count /\ \A j : SlotsOf(g, j) = SlotsOf(p, j)
        /\ \A j \in Slots : g.rec[j] = IF j = k THEN s[i] ELSE p.rec[j]
    BY <1>1, Saved
  <1>4. /\ i \in 1 .. Len(s) /\ t \in Seq(Record)
        /\ \A j : Cardinality(Places(t, j)) <= Cardinality(Places(s, j)) - (IF id = j THEN 1 ELSE 0)
    BY Removed, PlacesRemoved
  <1>5. s[i].num = p.rec[k].num /\ s[i] # Empty /\ p.rec[k] # Empty
    BY <1>1, <1>2, Numbered
  <1> HIDE DEF id, k, g, t
  <1>6. Stored(g, t)
    <2> SUFFICES ASSUME NEW j \in Ids
                 PROVE  Cardinality(Places(t, j)) <= Cardinality(SlotsOf(g, j))
      BY DEF Stored
    <2>1. Cardinality(Places(s, j)) <= Cardinality(SlotsOf(p, j))
      BY <1>1 DEF Stored
    <2>2. /\ Cardinality(Places(s, j)) \in Nat /\ Cardinality(Places(t, j)) \in Nat
          /\ Cardinality(SlotsOf(p, j)) \in Nat
      BY <1>4, PlacesFinite, PoolIs, Records
    <2> QED
      BY <1>3, <1>4, <2>1, <2>2
  <1>7. ~gap => Tidy(g)
    <2>1. ~gap => Tidy(p)
      BY DEF Fit, Kept
    <2> QED
      BY <1>3, <1>5, <2>1 DEF Tidy
  <1> QED
    BY <1>3, <1>4, <1>6, <1>7 DEF Fit, Kept, g, t

-----------------------------------------------------------------------------
(* The history, and what its flags allow. *)
HistRec == [gap : BOOLEAN, twice : BOOLEAN, gone : BOOLEAN, sought : BOOLEAN,
            cmds : 0 .. MaxCmds, plugs : 0 .. MaxPlugs, crashes : 0 .. MaxCrashes, faults : 0 .. MaxFaults]

LEMMA Bounds == /\ MaxCmds \in Nat /\ MaxPlugs \in Nat /\ MaxCrashes \in Nat /\ MaxFaults \in Nat
  BY PoolAssumption

(* A command counts itself, and leaves the rest of the history to its caller. *)
LEMMA Commanded ==
  ASSUME NEW h \in HistRec, h.cmds = hist.cmds, Command(h)
  PROVE  /\ hist' \in HistRec
         /\ hist'.gap = h.gap /\ hist'.gone = h.gone /\ hist'.twice = h.twice
  <1>1. hist.cmds < MaxCmds /\ hist' = [h EXCEPT !.cmds = @ + 1]
    BY DEF Command
  <1> QED
    BY <1>1, Bounds DEF HistRec

LEMMA FailedIs ==
  ASSUME hist \in HistRec, NEW f \in Fails
  PROVE  /\ Failed(f) \in HistRec
         /\ Failed(f).gap = hist.gap /\ Failed(f).gone = hist.gone /\ Failed(f).twice = hist.twice
         /\ Failed(f).cmds = hist.cmds
  <1>1. f = 0 \/ hist.faults < MaxFaults
    BY DEF Fails
  <1> QED
    BY <1>1, Bounds DEF Failed, HistRec

(* Fit says less where more has happened. *)
LEMMA FitWeaker ==
  ASSUME NEW p, NEW s, NEW gap \in BOOLEAN, NEW gone \in BOOLEAN, NEW twice \in BOOLEAN,
         NEW more \in BOOLEAN, twice => more, Fit(p, s, gap, gone, twice)
  PROVE  Fit(p, s, gap, gone, more)
  BY DEF Fit, Kept

LEMMA KeptWeaker ==
  ASSUME NEW p, NEW gap \in BOOLEAN, NEW twice \in BOOLEAN,
         NEW more \in BOOLEAN, twice => more, Kept(p, gap, twice)
  PROVE  Kept(p, gap, more)
  BY DEF Kept

LEMMA IInvParts ==
  ASSUME IInv
  PROVE  /\ pool \in Pools /\ flash \in Pools /\ dirty \in BOOLEAN /\ live \in Seq(Record)
         /\ ghosts \subseteq Roms /\ wire \subseteq Roms /\ found \subseteq Roms /\ hist \in HistRec
         /\ hist.gap \in BOOLEAN /\ hist.gone \in BOOLEAN /\ hist.twice \in BOOLEAN
         /\ Fit(pool, live, hist.gap, hist.gone, hist.twice)
         /\ Kept(pool, hist.gap, hist.twice) /\ Kept(flash, hist.gap, hist.twice)
         /\ Now \in Goods(hist.gap, hist.gone, hist.twice) /\ Now.live = live /\ Now.pool = pool
  <1>1. /\ pool \in Pools /\ flash \in Pools /\ dirty \in BOOLEAN /\ live \in Seq(Record)
        /\ ghosts \subseteq Roms /\ wire \subseteq Roms /\ found \subseteq Roms /\ hist \in HistRec
    BY DEF IInv, TypeOK, HistRec
  <1>2. hist.gap \in BOOLEAN /\ hist.gone \in BOOLEAN /\ hist.twice \in BOOLEAN
    BY <1>1 DEF HistRec
  <1>3. Fit(pool, live, hist.gap, hist.gone, hist.twice) /\ Kept(flash, hist.gap, hist.twice)
    BY DEF IInv
  <1>4. Kept(pool, hist.gap, hist.twice)
    BY <1>3 DEF Fit
  <1>5. Now \in QRec /\ Now.live = live /\ Now.pool = pool
    BY <1>1 DEF Now, QRec
  <1>6. Now \in Goods(hist.gap, hist.gone, hist.twice)
    BY <1>3, <1>5 DEF Goods
  <1> QED
    BY <1>1, <1>2, <1>3, <1>4, <1>5, <1>6

LEMMA IInvNext ==
  ASSUME pool' \in Pools, flash' \in Pools, dirty' \in BOOLEAN, live' \in Seq(Record),
         ghosts' \subseteq Roms, wire' \subseteq Roms, found' \subseteq Roms, hist' \in HistRec,
         Fit(pool', live', hist'.gap, hist'.gone, hist'.twice),
         Kept(flash', hist'.gap, hist'.twice)
  PROVE  IInv'
  BY DEF IInv, TypeOK, HistRec

-----------------------------------------------------------------------------
LEMMA InitIInv ==
  ASSUME Init PROVE IInv
  <1>1. /\ pool = Default /\ flash = Default /\ dirty = FALSE /\ live = Created(Default)
        /\ ghosts = {} /\ wire \in SUBSET Roms /\ found = wire
    BY DEF Init
  <1>2. hist \in HistRec /\ hist.gap = FALSE /\ hist.twice = FALSE /\ hist.gone = FALSE
    BY Bounds DEF Init, HistRec
  <1>3. Default \in Pools /\ Kept(Default, FALSE, FALSE)
    BY DefaultIs DEF Kept
  <1>4. Created(Default) \in Seq(Record) /\ Fit(Default, Created(Default), FALSE, FALSE, FALSE)
    BY <1>3, StartFits
  <1>5. TypeOK
    BY <1>1, <1>2, <1>3, <1>4 DEF TypeOK, HistRec
  <1> QED
    BY <1>1, <1>2, <1>3, <1>4, <1>5 DEF IInv

LEMMA MainSavesIInv ==
  ASSUME IInv, MainSaves PROVE IInv'
  <1>1. /\ pool' = pool /\ flash' = pool /\ dirty' = FALSE /\ live' = live /\ ghosts' = ghosts
        /\ wire' = wire /\ found' = found /\ hist' = hist
    BY DEF MainSaves, Keep
  <1> QED
    BY <1>1, IInvParts, IInvNext

LEMMA RestartIInv ==
  ASSUME IInv, Restart PROVE IInv'
  <1>1. /\ pool' = flash /\ flash' = flash /\ dirty' = FALSE /\ live' = Created(flash) /\ ghosts' = {}
        /\ wire' = wire /\ found' = wire
    BY DEF Restart
  <1>2. /\ hist.crashes < MaxCrashes
        /\ hist' = [hist EXCEPT !.gone = FALSE, !.sought = FALSE, !.crashes = @ + 1]
    BY DEF Restart
  <1>3. hist' \in HistRec /\ hist'.gap = hist.gap /\ hist'.twice = hist.twice
    <2>1. hist \in HistRec
      BY IInvParts
    <2>2. hist.crashes + 1 \in 0 .. MaxCrashes
      BY <1>2, <2>1, Bounds DEF HistRec
    <2> QED
      BY <1>2, <2>1, <2>2 DEF HistRec
  <1>4. live' \in Seq(Record) /\ Fit(pool', live', hist'.gap, hist'.gone, hist'.twice)
    BY <1>1, <1>3, IInvParts, StartFits
  <1>5. Kept(flash', hist'.gap, hist'.twice)
    BY <1>1, <1>3, IInvParts
  <1> QED
    BY <1>1, <1>3, <1>4, <1>5, IInvParts, IInvNext

LEMMA PlugIInv ==
  ASSUME IInv, NEW r \in Roms, Plug(r) PROVE IInv'
  <1>1. /\ pool' = pool /\ flash' = flash /\ dirty' = dirty /\ live' = live /\ ghosts' = ghosts
        /\ found' = found /\ wire' = (IF r \in wire THEN wire \ {r} ELSE wire \cup {r})
    BY DEF Plug
  <1>2. hist.plugs < MaxPlugs /\ hist' = [hist EXCEPT !.plugs = @ + 1]
    BY DEF Plug
  <1>3. /\ hist' \in HistRec /\ hist'.gap = hist.gap /\ hist'.gone = hist.gone
        /\ hist'.twice = hist.twice
    BY <1>2, IInvParts, Bounds DEF HistRec
  <1>4. wire' \subseteq Roms
    BY <1>1, IInvParts
  <1> QED
    BY <1>1, <1>3, <1>4, IInvParts, IInvNext

LEMMA SearchIInv ==
  ASSUME IInv, Search PROVE IInv'
  <1>1. /\ pool' = pool /\ flash' = flash /\ dirty' = dirty /\ live' = live /\ ghosts' = ghosts
        /\ wire' = wire /\ found' = wire /\ Command(hist)
    BY DEF Search
  <1>2. /\ hist' \in HistRec /\ hist'.gap = hist.gap /\ hist'.gone = hist.gone
        /\ hist'.twice = hist.twice
    BY <1>1, IInvParts, Commanded
  <1> QED
    BY <1>1, <1>2, IInvParts, IInvNext

-----------------------------------------------------------------------------
(* Discovery, and the shell's attach. *)
LEMMA GoodIs ==
  ASSUME NEW gap, NEW gone, NEW twice, NEW q \in Goods(gap, gone, twice)
  PROVE  /\ q.pool \in Pools /\ q.live \in Seq(Record) /\ q.stop \in BOOLEAN
         /\ q.lost \subseteq Roms
         /\ Fit(q.pool, q.live, gap, gone, twice) /\ Kept(q.pool, gap, twice)
  <1>1. q \in QRec /\ Fit(q.pool, q.live, gap, gone, twice)
    BY DEF Goods
  <1> QED
    BY <1>1 DEF QRec, Fit

LEMMA StartDiscoveryIInv ==
  ASSUME IInv, NEW seen, NEW f \in Fails, StartDiscovery(seen, f) PROVE IInv'
  <1> DEFINE q == Discovered(wire, seen, f)
  <1>1. /\ pool' = q.pool /\ flash' = q.pool /\ dirty' = FALSE /\ live' = q.live
        /\ ghosts' \in {ghosts, ghosts \cup q.lost}
        /\ wire' = wire /\ found' = wire /\ hist' = [Failed(f) EXCEPT !.sought = TRUE]
    BY DEF StartDiscovery, Keep
  <1>2. q \in Goods(hist.gap, hist.gone, hist.twice)
    BY IInvParts, DiscoveredGood
  <1> HIDE DEF q
  <1>3. /\ q.pool \in Pools /\ q.live \in Seq(Record) /\ q.lost \subseteq Roms
        /\ Fit(q.pool, q.live, hist.gap, hist.gone, hist.twice)
        /\ Kept(q.pool, hist.gap, hist.twice)
    BY <1>2, GoodIs
  <1>4. /\ hist' \in HistRec /\ hist'.gap = hist.gap /\ hist'.gone = hist.gone
        /\ hist'.twice = hist.twice
    <2>1. /\ Failed(f) \in HistRec
          /\ Failed(f).gap = hist.gap /\ Failed(f).gone = hist.gone /\ Failed(f).twice = hist.twice
      BY IInvParts, FailedIs
    <2> QED
      BY <1>1, <2>1 DEF HistRec
  <1>5. ghosts' \subseteq Roms
    BY <1>1, <1>3, IInvParts
  <1> QED
    BY <1>1, <1>3, <1>4, <1>5, IInvParts, IInvNext

LEMMA SnmpDiscoveryIInv ==
  ASSUME IInv, NEW seen, NEW f \in Fails, SnmpDiscovery(seen, f) PROVE IInv'
  <1> DEFINE q == Discovered(found, seen, f)
  <1>1. /\ pool' = q.pool /\ flash' = (IF q.stop THEN flash ELSE q.pool)
        /\ dirty' = (q.stop /\ (dirty \/ q.live # live)) /\ live' = q.live
        /\ ghosts' \in {ghosts, ghosts \cup q.lost}
        /\ wire' = wire /\ found' = found /\ Command(Failed(f))
    BY DEF SnmpDiscovery
  <1>2. q \in Goods(hist.gap, hist.gone, hist.twice)
    BY IInvParts, DiscoveredGood
  <1> HIDE DEF q
  <1>3. /\ q.pool \in Pools /\ q.live \in Seq(Record) /\ q.lost \subseteq Roms
        /\ Fit(q.pool, q.live, hist.gap, hist.gone, hist.twice)
        /\ Kept(q.pool, hist.gap, hist.twice)
    BY <1>2, GoodIs
  <1>4. /\ hist' \in HistRec /\ hist'.gap = hist.gap /\ hist'.gone = hist.gone
        /\ hist'.twice = hist.twice
    <2>1. /\ Failed(f) \in HistRec
          /\ Failed(f).gap = hist.gap /\ Failed(f).gone = hist.gone /\ Failed(f).twice = hist.twice
          /\ Failed(f).cmds = hist.cmds
      BY IInvParts, FailedIs
    <2> HIDE DEF Failed
    <2> QED
      BY <1>1, <2>1, Commanded
  <1>5. ghosts' \subseteq Roms
    BY <1>1, <1>3, IInvParts
  <1>6. flash' \in Pools /\ Kept(flash', hist.gap, hist.twice)
    BY <1>1, <1>3, IInvParts
  <1>7. dirty' \in BOOLEAN
    BY <1>1
  <1> QED
    BY <1>1, <1>3, <1>4, <1>5, <1>6, <1>7, IInvParts, IInvNext

LEMMA ShellAttachIInv ==
  ASSUME IInv, NEW r \in Roms, NEW seen, NEW all \in BOOLEAN, NEW answers \in BOOLEAN,
         NEW f \in Fails, ShellAttach(r, seen, all, answers, f)
  PROVE  IInv'
  <1> DEFINE q == Create(Now, r, answers, f)
             more == hist.twice \/ ~all
             h == [Failed(f) EXCEPT !.twice = @ \/ ~all]
  <1>1. /\ pool' = q.pool /\ flash' = flash /\ live' = q.live
        /\ dirty' = (dirty \/ (answers /\ ~q.stop))
        /\ ghosts' \in {ghosts, ghosts \cup q.lost}
        /\ wire' = wire /\ found' = found /\ Command(h)
        /\ Room(pool) /\ (all => ~Exists(Now, r, seen))
    BY DEF ShellAttach
  <1>2. more \in BOOLEAN /\ (hist.twice => more)
    BY IInvParts
  <1>3. /\ Failed(f) \in HistRec
        /\ Failed(f).gap = hist.gap /\ Failed(f).gone = hist.gone /\ Failed(f).twice = hist.twice
        /\ Failed(f).cmds = hist.cmds
    BY IInvParts, FailedIs
  <1>4. h = [Failed(f) EXCEPT !.twice = more]
    BY <1>3
  <1> HIDE DEF more, h, Failed
  <1>5. /\ h \in HistRec /\ h.cmds = hist.cmds
        /\ h.gap = hist.gap /\ h.gone = hist.gone /\ h.twice = more
    BY <1>2, <1>3, <1>4 DEF HistRec
  <1>6. /\ hist' \in HistRec /\ hist'.gap = hist.gap /\ hist'.gone = hist.gone
        /\ hist'.twice = more
    BY <1>1, <1>5, Commanded
  <1>7. Now \in Goods(hist.gap, hist.gone, more) /\ Now.live = live /\ Now.pool = pool
    <2>1. Now \in QRec /\ Now.live = live /\ Now.pool = pool
      BY IInvParts DEF Goods
    <2>2. Fit(pool, live, hist.gap, hist.gone, more)
      BY <1>2, IInvParts, FitWeaker
    <2> QED
      BY <2>1, <2>2 DEF Goods
  <1>8. ~more => Unseen(Now.live, r)
    <2> SUFFICES ASSUME all PROVE Unseen(Now.live, r)
      BY DEF more
    <2> QED
      BY <1>1 DEF Exists, Unseen
  <1>9. q \in Goods(hist.gap, hist.gone, more)
    BY <1>1, <1>7, <1>8, CreateGood
  <1> HIDE DEF q
  <1>10. /\ q.pool \in Pools /\ q.live \in Seq(Record) /\ q.lost \subseteq Roms
         /\ Fit(q.pool, q.live, hist.gap, hist.gone, more)
    BY <1>9, GoodIs
  <1>11. ghosts' \subseteq Roms
    BY <1>1, <1>10, IInvParts
  <1>12. Kept(flash', hist.gap, more)
    BY <1>1, <1>2, IInvParts, KeptWeaker
  <1>13. dirty' \in BOOLEAN
    BY <1>1
  <1> QED
    BY <1>1, <1>6, <1>10, <1>11, <1>12, <1>13, IInvParts, IInvNext

-----------------------------------------------------------------------------
(* Deletion.  The object found is one of those with the number. *)
LEMMA ObjectIs ==
  ASSUME live \in Seq(Record), NEW id \in Numbers
  PROVE  Object(id) \in DOMAIN live /\ Id(live[Object(id)]) = id
  <1> DEFINE S == {i \in DOMAIN live : Id(live[i]) = id}
  <1>1. S # {} /\ S \subseteq Nat
    BY DEF Numbers
  <1>2. First(S) \in S
    <2> HIDE DEF S
    <2> QED
      BY <1>1, FirstOf
  <1> QED
    BY <1>2 DEF Object

LEMMA DestroyedGhosts ==
  ASSUME IInv, NEW i \in DOMAIN live, Destroyed(i)
  PROVE  live' = RemoveAt(live, i) /\ ghosts' \subseteq Roms
  <1>1. live[i] \in Record
    BY IInvParts
  <1>2. live[i].rom \in Roms \cup {0}
    BY <1>1, Numbered
  <1> QED
    BY <1>2, IInvParts DEF Destroyed

LEMMA CMD_delIInv ==
  ASSUME IInv, NEW id \in Numbers, CMD_del(id) PROVE IInv'
  <1> DEFINE f == OBJ_free(pool, id)
             i == Object(id)
             x == hist.gap \/ Hole(pool, id)
             h == [hist EXCEPT !.gap = @ \/ Hole(pool, id)]
  <1>1. /\ flash' = (IF SlotsOf(pool, id) = {} THEN flash ELSE f)
        /\ pool' = OBJ_save(f, live[i])
        /\ dirty' = (SlotsOf(f, id) # {} \/ (dirty /\ SlotsOf(pool, id) = {}))
        /\ Destroyed(i) /\ wire' = wire /\ found' = found /\ Command(h)
    BY DEF CMD_del, Hole
  <1>2. i \in DOMAIN live /\ Id(live[i]) = id
    BY IInvParts, ObjectIs
  <1>3. x \in BOOLEAN /\ (x <=> hist.gap \/ Hole(pool, id))
    BY IInvParts
  <1>4. h = [hist EXCEPT !.gap = x]
    BY IInvParts DEF HistRec
  <1> HIDE DEF x, h, f, i
  <1>5. /\ h \in HistRec /\ h.cmds = hist.cmds
        /\ h.gap = x /\ h.gone = hist.gone /\ h.twice = hist.twice
    BY <1>3, <1>4, IInvParts DEF HistRec
  <1>6. /\ hist' \in HistRec /\ hist'.gap = x /\ hist'.gone = hist.gone
        /\ hist'.twice = hist.twice
    BY <1>1, <1>5, Commanded
  <1>7. live' = RemoveAt(live, i) /\ ghosts' \subseteq Roms
    BY <1>1, <1>2, DestroyedGhosts
  <1>8. f = OBJ_free(pool, Id(live[i])) /\ (x <=> hist.gap \/ Hole(pool, Id(live[i])))
    BY <1>2, <1>3 DEF f
  <1>9. /\ SlotsOf(pool, id) # {} /\ f \in Pools /\ Kept(f, x, hist.twice)
        /\ OBJ_save(f, live[i]) \in Pools /\ RemoveAt(live, i) \in Seq(Record)
        /\ Fit(OBJ_save(f, live[i]), RemoveAt(live, i), x, hist.gone, hist.twice)
    BY <1>2, <1>8, IInvParts, DeletedFits
  <1>10. flash' = f /\ dirty' \in BOOLEAN
    BY <1>1, <1>9
  <1> QED
    BY <1>1, <1>6, <1>7, <1>9, <1>10, IInvParts, IInvNext

LEMMA SnmpDestroyIInv ==
  ASSUME IInv, NEW id \in Numbers, SnmpDestroy(id) PROVE IInv'
  <1> DEFINE i == Object(id)
             h == [hist EXCEPT !.twice = TRUE, !.gone = TRUE]
  <1>1. /\ pool' = OBJ_save(pool, live[i]) /\ flash' = flash
        /\ dirty' = (dirty \/ SlotsOf(pool, id) # {})
        /\ Destroyed(i) /\ wire' = wire /\ found' = found /\ Command(h)
    BY DEF SnmpDestroy
  <1>2. i \in DOMAIN live
    BY IInvParts, ObjectIs
  <1>3. /\ h \in HistRec /\ h.cmds = hist.cmds
        /\ h.gap = hist.gap /\ h.gone = TRUE /\ h.twice = TRUE
    BY IInvParts DEF HistRec
  <1> HIDE DEF h, i
  <1>4. /\ hist' \in HistRec /\ hist'.gap = hist.gap /\ hist'.gone = TRUE
        /\ hist'.twice = TRUE
    BY <1>1, <1>3, Commanded
  <1>5. live' = RemoveAt(live, i) /\ ghosts' \subseteq Roms
    BY <1>1, <1>2, DestroyedGhosts
  <1>6. /\ OBJ_save(pool, live[i]) \in Pools /\ RemoveAt(live, i) \in Seq(Record)
        /\ Fit(OBJ_save(pool, live[i]), RemoveAt(live, i), hist.gap, TRUE, TRUE)
    BY <1>2, IInvParts, DestroyedFits
  <1>7. Kept(flash, hist.gap, TRUE)
    BY IInvParts, KeptWeaker
  <1>8. dirty' \in BOOLEAN
    BY <1>1
  <1> QED
    BY <1>1, <1>4, <1>5, <1>6, <1>7, <1>8, IInvParts, IInvNext

LEMMA ClearedFits ==
  << >> \in Seq(Record) /\ Fit(Default, << >>, FALSE, TRUE, FALSE) /\ Kept(Default, FALSE, FALSE)
  <1>1. ASSUME NEW id \in Ids
        PROVE  Cardinality(Places(<< >>, id)) <= Cardinality(SlotsOf(Default, id))
    <2>1. Places(<< >>, id) = {}
      BY DEF Places
    <2>2. Cardinality(SlotsOf(Default, id)) \in Nat
      BY DefaultIs, PoolIs, Records
    <2>3. Cardinality(Places(<< >>, id)) = 0
      BY <2>1, FS_EmptySet, Zenon
    <2> QED
      BY <2>2, <2>3
  <1>2. Stored(Default, << >>)
    BY <1>1 DEF Stored
  <1>3. Represented(Default, << >>)
    BY DefaultIs DEF Represented
  <1>4. Kept(Default, FALSE, FALSE)
    BY DefaultIs DEF Kept
  <1>5. Fit(Default, << >>, FALSE, TRUE, FALSE)
    BY <1>2, <1>3, <1>4, Zenon DEF Fit
  <1>6. << >> \in Seq(Record)
    OBVIOUS
  <1> QED
    BY <1>4, <1>5, <1>6, Zenon

LEMMA CMD_delAllIInv ==
  ASSUME IInv, CMD_delAll PROVE IInv'
  <1> DEFINE h == [hist EXCEPT !.gap = FALSE, !.twice = FALSE, !.gone = TRUE]
  <1>1. /\ pool' = Default /\ flash' = Default /\ dirty' = FALSE /\ live' = << >>
        /\ ghosts' = ghosts \cup ({live[i].rom : i \in DOMAIN live} \ {0})
        /\ wire' = wire /\ found' = found /\ Command(h)
    BY DEF CMD_delAll, Keep
  <1>2. /\ h \in HistRec /\ h.cmds = hist.cmds
        /\ h.gap = FALSE /\ h.gone = TRUE /\ h.twice = FALSE
    BY IInvParts DEF HistRec
  <1> HIDE DEF h
  <1>3. /\ hist' \in HistRec /\ hist'.gap = FALSE /\ hist'.gone = TRUE
        /\ hist'.twice = FALSE
    BY <1>1, <1>2, Commanded
  <1>4. ghosts' \subseteq Roms
    <2>1. ASSUME NEW i \in DOMAIN live PROVE live[i].rom \in Roms \cup {0}
      <3>1. live[i] \in Record
        BY IInvParts
      <3> QED
        BY <3>1, Numbered
    <2> QED
      BY <1>1, <2>1, IInvParts
  <1> QED
    BY <1>1, <1>3, <1>4, IInvParts, DefaultIs, ClearedFits, IInvNext

-----------------------------------------------------------------------------
LEMMA NextIInv ==
  ASSUME IInv, [Next]_vars PROVE IInv'
  <1>1. CASE MainSaves
    BY <1>1, MainSavesIInv
  <1>2. CASE Restart
    BY <1>2, RestartIInv
  <1>3. CASE \E r \in Roms : Plug(r)
    BY <1>3, PlugIInv
  <1>4. CASE Search
    BY <1>4, SearchIInv
  <1>5. CASE \E seen \in SUBSET ghosts, f \in Fails : StartDiscovery(seen, f) \/ SnmpDiscovery(seen, f)
    BY <1>5, StartDiscoveryIInv, SnmpDiscoveryIInv
  <1>6. CASE \E r \in Roms, seen \in SUBSET ghosts, all, answers \in BOOLEAN, f \in Fails :
               ShellAttach(r, seen, all, answers, f)
    BY <1>6, ShellAttachIInv
  <1>7. CASE \E id \in Numbers : CMD_del(id) \/ SnmpDestroy(id)
    BY <1>7, CMD_delIInv, SnmpDestroyIInv
  <1>8. CASE CMD_delAll
    BY <1>8, CMD_delAllIInv
  <1>9. CASE UNCHANGED vars
    <2>1. /\ pool' = pool /\ flash' = flash /\ dirty' = dirty /\ live' = live /\ ghosts' = ghosts
          /\ wire' = wire /\ found' = found /\ hist' = hist
      BY <1>9 DEF vars
    <2> QED
      BY <2>1, IInvParts, IInvNext
  <1> QED
    BY <1>1, <1>2, <1>3, <1>4, <1>5, <1>6, <1>7, <1>8, <1>9 DEF Next

(* The invariant the properties follow from holds of every behaviour of    *)
(* the pool: the objects fit the records, and what is on flash can be      *)
(* started from.                                                           *)
THEOREM PoolInvariance == Spec => []IInv
  <1>1. Init => IInv
    BY InitIInv
  <1>2. IInv /\ [Next]_vars => IInv'
    BY NextIInv
  <1> QED
    BY <1>1, <1>2, PTL DEF Spec

(* The types, and uiObjectCount: FTE_CFG_OBJ_alloc, FTE_CFG_OBJ_free and   *)
(* FTE_CFG_OBJ_save keep it the number of records, in RAM and on flash,    *)
(* for any number of sensors, records and commands.                        *)
THEOREM PoolTypeCorrect == Spec => []TypeOK
  <1>1. IInv => TypeOK
    BY DEF IInv
  <1> QED
    BY <1>1, PoolInvariance, PTL

(* No object is without a record, although FTE_CFG_OBJ_free and            *)
(* FTE_CFG_OBJ_save take the first record with the object's number and     *)
(* that may be another object's.                                           *)
THEOREM LiveObjectsStored == Spec => []LiveIsStored
  <1>1. IInv => LiveIsStored
    <2> SUFFICES ASSUME IInv, NEW id \in Numbers
                 PROVE  Cardinality({i \in DOMAIN live : Id(live[i]) = id}) <= Cardinality(SlotsOf(pool, id))
      BY DEF LiveIsStored
    <2>1. PICK i \in DOMAIN live : id = Id(live[i])
      BY DEF Numbers
    <2>2. live[i] \in Record
      BY IInvParts
    <2>3. id \in Ids
      BY <2>1, <2>2, Numbered
    <2> QED
      BY <2>3, IInvParts DEF Fit, Stored, Places
  <1> QED
    BY <1>1, PoolInvariance, PTL

(* As long as only the youngest record was ever deleted, the objects are   *)
(* the records, in their order: a start finds them all, and discovery,     *)
(* attach and deletion keep the list and the pool in step.                 *)
THEOREM ObjectsMirrorRecords == Spec => []ObjectsAreRecords
  <1>1. IInv => ObjectsAreRecords
    BY DEF IInv, Fit, ObjectsAreRecords
  <1> QED
    BY <1>1, PoolInvariance, PTL

(* A sensor gets one record however often it is searched for and the node  *)
(* restarts in between: FTE_DS18B20_isExistROMCode asks the objects, and   *)
(* every sensor with a record has one.                                     *)
THEOREM OneRecordPerSensor == Spec => []OneRecordEach
  <1>1. IInv => OneRecordEach
    BY DEF IInv, Fit, Kept, Unique, OneRecordEach
  <1> QED
    BY <1>1, PoolInvariance, PTL

=============================================================================
