--------------------------- MODULE LogPoolProofs ---------------------------
(***************************************************************************)
(* Proofs about LogPool, for every size of the ring and every bound.       *)
(*                                                                         *)
(* What a boot can read back depends on the parity of serial numbers: a    *)
(* save writes the sector of its number's parity, a boot continues with    *)
(* the number it found in log0, which is even.                             *)
(***************************************************************************)
EXTENDS LogPool, SequenceTheorems, TLAPS

(* How many entries can still be logged: each event, and one per boot. *)
BootEntry == IF main \in {"loop", "write", "flag"} THEN 0 ELSE 1

EntriesLeft ==
  logged + left["event"] + left["crash"] + BootEntry <= MaxEvents + MaxCrashes + 1

(* A sector holds numbers of its own parity; 0 is the number of no image. *)
Parity == \A k \in {0, 1} : flash[k].ulID = 0 \/ flash[k].ulID % 2 = k

(* The number in RAM is that of the last save tried.  If it was even, it   *)
(* is in log0, and if it was odd, the one before it is.                    *)
Behind ==
  ~missed =>
    /\ main \in {"boot", "loop", "flag", "bootSave", "bootFlag"} /\ xPool.ulID % 2 = 0
         => flash[0].ulID = xPool.ulID
    /\ main # "off" /\ xPool.ulID % 2 = 1 /\ xPool.ulID > 1
         => flash[0].ulID = xPool.ulID - 1

(* Whoever has written, and whoever has nothing to write, has in its       *)
(* sector what is in RAM.                                                  *)
Clean ==
  main \in {"flag", "bootFlag"} \/ (main \in {"boot", "loop"} /\ ~bPoolModified)
    => excused \/ flash[Sector(xPool.ulID)] = xPool

IInv == TypeOK /\ EntriesLeft /\ Parity /\ Behind /\ Clean

-----------------------------------------------------------------------------
LEMMA ModCell == ASSUME NEW x \in Nat PROVE x % MAX_LOG_COUNT \in Cells
  BY LogAssumption DEF Cells

LEMMA EmptyPool == Empty \in Pool /\ Empty.ulID = 0
  BY LogAssumption DEF Empty, Pool, Cells, Entry

LEMMA RenumberedPool ==
  ASSUME xPool \in Pool
  PROVE  /\ Renumbered \in Pool
         /\ Renumbered.ulID = xPool.ulID + 1
  BY DEF Renumbered, Pool

LEMMA PushedPool ==
  ASSUME NEW pool \in Pool, NEW e \in Entry
  PROVE  /\ Pushed(pool, e) \in Pool
         /\ Pushed(pool, e).ulID = pool.ulID
  <1>1. /\ (pool.ulTail + 1) % MAX_LOG_COUNT \in Cells
        /\ (pool.ulHead + 1) % MAX_LOG_COUNT \in Cells
    <2>1. pool.ulTail + 1 \in Nat /\ pool.ulHead + 1 \in Nat
      BY LogAssumption DEF Pool, Cells
    <2> QED
      BY <2>1, ModCell
  <1>2. MAX_LOG_COUNT - 1 \in Nat
    BY LogAssumption
  <1> DEFINE full == pool.ulCount + 1 >= MAX_LOG_COUNT
             logs == [pool.pLogs EXCEPT ![pool.ulTail] = e]
             head == IF full THEN (pool.ulHead + 1) % MAX_LOG_COUNT ELSE pool.ulHead
             count == IF full THEN MAX_LOG_COUNT - 1 ELSE pool.ulCount + 1
  <1>3. logs \in [Cells -> Entry \cup {0}]
    BY DEF Pool
  <1>4. head \in Cells /\ count \in Nat
    BY <1>1, <1>2 DEF Pool
  <1>5. Pushed(pool, e) = [pool EXCEPT !.pLogs = logs, !.ulTail = (pool.ulTail + 1) % MAX_LOG_COUNT,
                                      !.ulHead = head, !.ulCount = count]
    BY DEF Pushed, Pool
  <1> HIDE DEF logs, head, count
  <1> QED
    BY <1>1, <1>3, <1>4, <1>5 DEF Pool

(* Serial numbers, modulo 2. *)
LEMMA Alternate ==
  ASSUME NEW n \in Nat
  PROVE  /\ n % 2 \in {0, 1}
         /\ (n + 1) % 2 = 0 <=> n % 2 = 1
         /\ (n + 1) % 2 = 1 <=> n % 2 = 0
  OBVIOUS

-----------------------------------------------------------------------------
(* The first state. *)
LEMMA InitIInv == Init => IInv
  <1> SUFFICES ASSUME Init PROVE IInv
    OBVIOUS
  <1>1. TypeOK
    BY EmptyPool, LogAssumption DEF Init, TypeOK, MainStates, Budget
  <1>2. EntriesLeft
    BY LogAssumption DEF Init, EntriesLeft, BootEntry, Budget
  <1>3. Parity /\ Behind /\ Clean
    BY EmptyPool DEF Init, Parity, Behind, Clean
  <1> QED
    BY <1>1, <1>2, <1>3 DEF IInv

(* A boot continues with the image in log0, if there is one. *)
LEMMA InitStep == IInv /\ FTE_LOG_init => IInv'
  <1> SUFFICES ASSUME IInv, FTE_LOG_init PROVE IInv'
    OBVIOUS
  <1>1. TypeOK'
    BY DEF IInv, TypeOK, FTE_LOG_init, MainStates
  <1>2. EntriesLeft'
    BY DEF IInv, FTE_LOG_init, EntriesLeft, BootEntry
  <1>3. flash[0].ulID \in Nat
    BY DEF IInv, TypeOK, Pool
  <1>4. flash[0].ulID % 2 = 0
    BY <1>3 DEF IInv, Parity
  <1>5. Parity' /\ Behind'
    BY <1>3, <1>4 DEF IInv, Parity, Behind, FTE_LOG_init
  <1>6. Clean'
    BY <1>3, <1>4 DEF Clean, FTE_LOG_init, Sector
  <1> QED
    BY <1>1, <1>2, <1>5, <1>6 DEF IInv

LEMMA CrashStep == IInv /\ Crash => IInv'
  <1> SUFFICES ASSUME IInv, Crash PROVE IInv'
    OBVIOUS
  <1>1. TypeOK'
    <2>1. left' \in [Budget -> Nat]
      BY DEF IInv, TypeOK, Crash, Spend, Budget
    <2>2. bPoolModified' \in BOOLEAN /\ excused' \in BOOLEAN /\ missed' \in BOOLEAN
      BY Zenon DEF IInv, TypeOK, Crash, history
    <2>3. xPool' \in Pool /\ flash' \in [{0, 1} -> Pool] /\ main' \in MainStates
      BY EmptyPool DEF IInv, TypeOK, Crash, MainStates
    <2>4. /\ logged' \in Entry \cup {0}
          /\ deleted' \subseteq Entry \cup {0} /\ settled' \subseteq deleted'
      BY DEF IInv, TypeOK, Crash, history
    <2> QED
      BY <2>1, <2>2, <2>3, <2>4 DEF TypeOK
  <1>2. EntriesLeft'
    BY LogAssumption DEF IInv, TypeOK, Crash, Spend, EntriesLeft, BootEntry, Budget, Entry
  <1>3. Parity' /\ Behind' /\ Clean'
    BY DEF IInv, Crash, Parity, Behind, Clean, history
  <1> QED
    BY <1>1, <1>2, <1>3 DEF IInv

(* An entry is new, and the numbers stay. *)
LEMMA AddStep ==
  IInv /\ (FTE_LOG_addSystem \/ FTE_LOG_addEvent) => IInv'
  <1> SUFFICES ASSUME IInv, FTE_LOG_addSystem \/ FTE_LOG_addEvent PROVE IInv'
    OBVIOUS
  <1> USE DEF IInv
  <1>1. logged + 1 \in Entry /\ EntriesLeft'
    <2>1. CASE FTE_LOG_addSystem
      BY <2>1, LogAssumption
         DEF TypeOK, FTE_LOG_addSystem, Add, EntriesLeft, BootEntry, Budget, Entry
    <2>2. CASE FTE_LOG_addEvent
      BY <2>2, LogAssumption
         DEF TypeOK, FTE_LOG_addEvent, Spend, Add, EntriesLeft, BootEntry, Budget, Entry
    <2> QED
      BY <2>1, <2>2
  <1>2. xPool' \in Pool /\ xPool'.ulID = xPool.ulID
    BY <1>1, PushedPool DEF TypeOK, FTE_LOG_addSystem, FTE_LOG_addEvent, Add
  <1>3. TypeOK'
    <2>1. left' \in [Budget -> Nat]
      BY DEF TypeOK, FTE_LOG_addSystem, FTE_LOG_addEvent, Spend, Budget
    <2>2. bPoolModified' \in BOOLEAN /\ missed' \in BOOLEAN
      BY Zenon DEF TypeOK, FTE_LOG_addSystem, FTE_LOG_addEvent, Add
    <2>3. excused' \in BOOLEAN
      <3>1. CASE FTE_LOG_addSystem
        BY <3>1, Zenon DEF TypeOK, FTE_LOG_addSystem
      <3>2. CASE FTE_LOG_addEvent
        BY <3>2, Zenon DEF FTE_LOG_addEvent
      <3> QED
        BY <3>1, <3>2
    <2>4. flash' \in [{0, 1} -> Pool] /\ main' \in MainStates
      BY DEF TypeOK, FTE_LOG_addSystem, FTE_LOG_addEvent, Add, MainStates
    <2>5. /\ logged' \in Entry \cup {0}
          /\ deleted' \subseteq Entry \cup {0} /\ settled' \subseteq deleted'
      BY <1>1 DEF TypeOK, FTE_LOG_addSystem, FTE_LOG_addEvent, Add
    <2> QED
      BY <1>2, <2>1, <2>2, <2>3, <2>4, <2>5 DEF TypeOK
  <1>4. Parity' /\ Behind'
    BY <1>2 DEF Parity, Behind, FTE_LOG_addSystem, FTE_LOG_addEvent, Add
  <1>5. Clean'
    BY DEF Clean, FTE_LOG_addSystem, FTE_LOG_addEvent, Add
  <1> QED
    BY <1>1, <1>3, <1>4, <1>5

(* What the log shows are cells of the ring. *)
LEMMA LoggedType ==
  ASSUME NEW pool \in Pool
  PROVE  Logged(pool) \subseteq Entry \cup {0}
  <1>1. ASSUME NEW i \in 1 .. pool.ulCount
        PROVE  Entries(pool)[i] \in Entry \cup {0}
    <2>1. pool.ulHead + i - 1 \in Nat
      BY LogAssumption DEF Pool, Cells
    <2>2. (pool.ulHead + i - 1) % MAX_LOG_COUNT \in Cells
      BY <2>1, ModCell
    <2> QED
      BY <2>2 DEF Entries, Pool
  <1> QED
    BY <1>1 DEF Logged

LEMMA DelStep ==
  ASSUME IInv, NEW n \in 1 .. MAX_LOG_COUNT, FTE_LOG_del(n)
  PROVE  IInv'
  <1> USE DEF IInv
  <1>1. xPool' \in Pool /\ xPool'.ulID = xPool.ulID
    <2>1. (xPool.ulHead + n) % MAX_LOG_COUNT \in Cells
      <3>1. xPool.ulHead + n \in Nat
        BY LogAssumption DEF TypeOK, Pool, Cells
      <3> QED
        BY <3>1, ModCell
    <2>2. CASE n >= xPool.ulCount
      <3>1. xPool' = [xPool EXCEPT !.ulHead = xPool.ulTail, !.ulCount = 0]
        BY <2>2 DEF FTE_LOG_del
      <3> QED
        BY <3>1 DEF TypeOK, Pool
    <2>3. CASE ~(n >= xPool.ulCount)
      <3>1. xPool' = [xPool EXCEPT !.ulHead = (@ + n) % MAX_LOG_COUNT, !.ulCount = @ - n]
        BY <2>3 DEF FTE_LOG_del
      <3>2. xPool.ulCount - n \in Nat
        BY <2>3, LogAssumption DEF TypeOK, Pool
      <3> QED
        BY <2>1, <3>1, <3>2 DEF TypeOK, Pool
    <2> QED
      BY <2>2, <2>3
  <1>2. deleted' \subseteq Entry \cup {0} /\ settled' \subseteq deleted'
    <2>1. Logged(xPool) \subseteq Entry \cup {0}
      BY LoggedType DEF TypeOK
    <2> QED
      BY <2>1 DEF TypeOK, FTE_LOG_del
  <1>3. TypeOK'
    BY <1>1, <1>2 DEF TypeOK, FTE_LOG_del, Spend, Budget
  <1>4. EntriesLeft'
    BY DEF TypeOK, FTE_LOG_del, Spend, Budget, EntriesLeft, BootEntry
  <1>5. Parity' /\ Behind' /\ Clean'
    BY <1>1 DEF Parity, Behind, Clean, FTE_LOG_del
  <1> QED
    BY <1>3, <1>4, <1>5

-----------------------------------------------------------------------------
(* The steps of FTE_LOG_save. *)
LEMMA OpenStep == IInv /\ Open => IInv'
  <1> SUFFICES ASSUME IInv, Open PROVE IInv'
    OBVIOUS
  <1> USE DEF IInv
  <1>1. xPool' \in Pool /\ xPool'.ulID = xPool.ulID + 1 /\ xPool.ulID \in Nat
    BY RenumberedPool DEF TypeOK, Open, Pool
  <1>2. Sector(xPool'.ulID) \in {0, 1}
    BY <1>1 DEF Sector
  <1>3. /\ flash' \in [{0, 1} -> Pool]
        /\ \A k \in {0, 1} : flash'[k].ulID \in {0, flash[k].ulID}
        /\ Sector(xPool'.ulID) # 0 => flash'[0] = flash[0]
    BY <1>2, EmptyPool DEF TypeOK, Open
  <1>4. TypeOK'
    BY <1>1, <1>3 DEF TypeOK, Open, history, MainStates
  <1>5. EntriesLeft'
    BY DEF TypeOK, Open, Selected, EntriesLeft, BootEntry
  <1>6. Parity'
    BY <1>3 DEF Parity
  <1>7. Behind'
    <2>1. main \in {"bootSave", "loop"} /\ main' \in {"write", "bootWrite"} /\ missed' = missed
      BY DEF Open, Selected, history
    <2>2. xPool'.ulID % 2 = 1 => xPool.ulID % 2 = 0
      BY <1>1
    <2>3. xPool'.ulID % 2 = 1 => flash'[0] = flash[0]
      BY <1>3 DEF Sector
    <2> QED
      BY <1>1, <2>1, <2>2, <2>3 DEF Behind
  <1>8. Clean'
    BY DEF Open, Clean
  <1> QED
    BY <1>4, <1>5, <1>6, <1>7, <1>8

LEMMA OpenFailsStep == IInv /\ OpenFails => IInv'
  <1> SUFFICES ASSUME IInv, OpenFails PROVE IInv'
    OBVIOUS
  <1> USE DEF IInv
  <1>1. xPool' \in Pool
    BY RenumberedPool DEF TypeOK, OpenFails
  <1>2. TypeOK'
    BY <1>1 DEF TypeOK, OpenFails, MainStates, Spend, Budget
  <1>3. EntriesLeft'
    BY DEF TypeOK, OpenFails, Selected, Spend, Budget, EntriesLeft, BootEntry
  <1>4. Parity' /\ Behind' /\ Clean'
    BY DEF OpenFails, Parity, Behind, Clean
  <1> QED
    BY <1>2, <1>3, <1>4

LEMMA WriteStep == IInv /\ Write => IInv'
  <1> SUFFICES ASSUME IInv, Write PROVE IInv'
    OBVIOUS
  <1> USE DEF IInv
  <1>1. xPool \in Pool /\ xPool' = xPool /\ xPool.ulID \in Nat
    BY DEF TypeOK, Write, Pool
  <1>2. Sector(xPool.ulID) \in {0, 1}
    BY <1>1 DEF Sector
  <1>3. /\ flash' \in [{0, 1} -> Pool]
        /\ flash'[Sector(xPool.ulID)] = xPool
        /\ \A k \in {0, 1} : k # Sector(xPool.ulID) => flash'[k] = flash[k]
    BY <1>1, <1>2 DEF TypeOK, Write
  <1>4. TypeOK'
    BY <1>3 DEF TypeOK, Write, Unlock, MainStates
  <1>5. EntriesLeft'
    BY DEF TypeOK, Write, Locked, Unlock, EntriesLeft, BootEntry
  <1>6. Parity'
    BY <1>2, <1>3 DEF Parity, Sector
  <1>7. Behind'
    <2>1. main \in {"write", "bootWrite"} /\ main' \in {"flag", "bootFlag"}
      BY DEF Write, Locked, Unlock
    <2>2. CASE xPool.ulID % 2 = 0
      BY <1>1, <1>3, <2>2 DEF Behind, Sector
    <2>3. CASE xPool.ulID % 2 = 1
      <3>1. flash'[0] = flash[0]
        BY <1>3, <2>3 DEF Sector
      <3>2. ~missed' => ~missed
        <4>1. Sector(xPool.ulID) # 0
          BY <2>3 DEF Sector
        <4>2. missed' = (missed /\ Sector(xPool.ulID) # 0)
          BY DEF Write
        <4> QED
          BY <4>1, <4>2, Zenon DEF TypeOK
      <3>3. ~missed /\ xPool.ulID > 1 => flash[0].ulID = xPool.ulID - 1
        BY <2>1, <2>3 DEF Behind
      <3> QED
        BY <1>1, <2>3, <3>1, <3>2, <3>3 DEF Behind
    <2> QED
      BY <1>2, <2>2, <2>3 DEF Sector
  <1>8. Clean'
    BY <1>1, <1>3 DEF Clean
  <1> QED
    BY <1>4, <1>5, <1>6, <1>7, <1>8

LEMMA WriteFailsStep == IInv /\ WriteFails => IInv'
  <1> SUFFICES ASSUME IInv, WriteFails PROVE IInv'
    OBVIOUS
  <1> USE DEF IInv
  <1>1. TypeOK'
    BY DEF TypeOK, WriteFails, Unlock, MainStates, Spend, Budget
  <1>2. EntriesLeft'
    BY DEF TypeOK, WriteFails, Locked, Unlock, Spend, Budget, EntriesLeft, BootEntry
  <1>3. Parity' /\ Behind' /\ Clean'
    BY DEF WriteFails, Parity, Behind, Clean
  <1> QED
    BY <1>1, <1>2, <1>3

LEMMA FlagStep == IInv /\ (ResetFlag \/ NothingToSave \/ UNCHANGED vars) => IInv'
  <1> SUFFICES ASSUME IInv, ResetFlag \/ NothingToSave \/ UNCHANGED vars PROVE IInv'
    OBVIOUS
  <1> USE DEF IInv
  <1>1. CASE ResetFlag
    <2>1. TypeOK' /\ EntriesLeft'
      BY <1>1 DEF TypeOK, ResetFlag, MainStates, history, EntriesLeft, BootEntry
    <2>2. Parity' /\ Behind' /\ Clean'
      BY <1>1 DEF ResetFlag, history, Parity, Behind, Clean
    <2> QED
      BY <2>1, <2>2
  <1>2. CASE NothingToSave
    <2>1. TypeOK' /\ EntriesLeft'
      BY <1>2 DEF TypeOK, NothingToSave, EntriesLeft, BootEntry
    <2>2. Parity' /\ Behind' /\ Clean'
      BY <1>2 DEF NothingToSave, Parity, Behind, Clean
    <2> QED
      BY <2>1, <2>2
  <1>3. CASE UNCHANGED vars
    BY <1>3 DEF vars, history, TypeOK, EntriesLeft, BootEntry, Parity, Behind, Clean
  <1> QED
    BY <1>1, <1>2, <1>3

LEMMA NextIInv == IInv /\ [Next]_vars => IInv'
  BY InitStep, CrashStep, AddStep, DelStep, OpenStep, OpenFailsStep, WriteStep,
     WriteFailsStep, FlagStep DEF Next, FTE_LOG_save

-----------------------------------------------------------------------------
(* The inductive invariant of the log: parity of the serial numbers, what  *)
(* log0 holds, and what is clean.                                          *)
THEOREM LogInvariance == Spec => []IInv
  BY InitIInv, NextIInv, PTL DEF Spec

(* The log's variables keep their types: the ring's head and tail stay     *)
(* cells however FTE_LOG_addEvent and FTE_LOG_del move them.               *)
THEOREM LogTypeCorrect == Spec => []TypeOK
  <1>1. IInv => TypeOK
    BY DEF IInv
  <1> QED
    BY <1>1, LogInvariance, PTL

(* FTE_LOG_save rests only when the sector of the newest serial number is  *)
(* what is in RAM, with the exceptions CleanLogIsSaved names.              *)
THEOREM LogNothingForgotten == Spec => []CleanLogIsSaved
  <1>1. IInv => CleanLogIsSaved
    BY DEF IInv, Clean, CleanLogIsSaved
  <1> QED
    BY <1>1, LogInvariance, PTL

(* What FTE_LOG_init would read back is at most one save old, although it  *)
(* reads one of the two sectors only.                                      *)
THEOREM LogOneBehind == Spec => []OneSaveBehind
  <1>1. IInv => OneSaveBehind
    <2> SUFFICES ASSUME IInv, main \in {"loop", "flag"}, ~missed, xPool.ulID > 1
                 PROVE  flash[0].ulID \in {xPool.ulID, xPool.ulID - 1}
      BY DEF OneSaveBehind
    <2>1. xPool.ulID \in Nat
      BY DEF IInv, TypeOK, Pool
    <2> QED
      BY <2>1, Alternate DEF IInv, Behind
  <1> QED
    BY <1>1, LogInvariance, PTL

-----------------------------------------------------------------------------
(* The refinement.  A pool is a ring: one cell is free, and the tail is    *)
(* where the count says.                                                   *)
M == MAX_LOG_COUNT   \* for short
Ring(pool) == pool.ulCount <= M - 1 /\ pool.ulTail = (pool.ulHead + pool.ulCount) % M
Rings == Ring(xPool) /\ \A k \in {0, 1} : Ring(flash[k])

LEMMA Wrap ==
  ASSUME NEW m \in Nat \ {0}, NEW x \in 0 .. m - 1, NEW y \in 0 .. m
  PROVE  (x + y) % m = IF x + y < m THEN x + y ELSE x + y - m
  OBVIOUS

(* What a step of head, tail and count comes to, without the modulus. *)
LEMMA PushedRing ==
  ASSUME NEW pool \in Pool, Ring(pool), NEW e \in Entry
  PROVE  Ring(Pushed(pool, e))
  <1> DEFINE h == pool.ulHead
             c == pool.ulCount
             t == pool.ulTail
             q == Pushed(pool, e)
  <1>0. /\ M \in Nat \ {0} /\ h \in 0 .. M - 1 /\ c \in 0 .. M - 1 /\ t \in 0 .. M - 1
    BY LogAssumption DEF Pool, Cells, M, Ring
  <1>1. /\ q.ulTail = (t + 1) % M
        /\ q.ulHead = IF c + 1 >= M THEN (h + 1) % M ELSE h
        /\ q.ulCount = IF c + 1 >= M THEN M - 1 ELSE c + 1
    BY DEF Pushed, Pool, M
  <1>2. t = IF h + c < M THEN h + c ELSE h + c - M
    <2>1. t = (h + c) % M
      BY DEF Ring
    <2> HIDE DEF h, c, t
    <2> QED
      BY <1>0, <2>1
  <1> HIDE DEF h, c, t, q
  <1>3. /\ (t + 1) % M = IF t + 1 < M THEN t + 1 ELSE t + 1 - M
        /\ (h + 1) % M = IF h + 1 < M THEN h + 1 ELSE h + 1 - M
    BY <1>0
  <1>4. q.ulCount <= M - 1 /\ q.ulHead \in 0 .. M - 1 /\ q.ulCount \in 0 .. M - 1
    BY <1>0, <1>1, <1>3
  <1>5. (q.ulHead + q.ulCount) % M =
          IF q.ulHead + q.ulCount < M THEN q.ulHead + q.ulCount ELSE q.ulHead + q.ulCount - M
    BY <1>0, <1>4
  <1>6. q.ulTail = (q.ulHead + q.ulCount) % M
    <2>1. CASE c + 1 >= M
      BY <1>0, <1>1, <1>2, <1>3, <1>5, <2>1
    <2>2. CASE c + 1 < M
      BY <1>0, <1>1, <1>2, <1>3, <1>5, <2>2
    <2> QED
      BY <1>0, <2>1, <2>2
  <1> QED
    BY <1>4, <1>6 DEF Ring, q

(* FTE_LOG_del's pool. *)
Del(pool, n) ==
  IF n >= pool.ulCount THEN [pool EXCEPT !.ulHead = pool.ulTail, !.ulCount = 0]
    ELSE [pool EXCEPT !.ulHead = (@ + n) % MAX_LOG_COUNT, !.ulCount = @ - n]

LEMMA DelRing ==
  ASSUME NEW pool \in Pool, Ring(pool), NEW n \in 1 .. M
  PROVE  Ring(Del(pool, n))
  <1> DEFINE h == pool.ulHead
             c == pool.ulCount
             t == pool.ulTail
  <1>0. /\ M \in Nat \ {0} /\ h \in 0 .. M - 1 /\ c \in 0 .. M - 1 /\ t \in 0 .. M - 1
    BY LogAssumption DEF Pool, Cells, M, Ring
  <1>1. t = IF h + c < M THEN h + c ELSE h + c - M
    <2>1. t = (h + c) % M
      BY DEF Ring
    <2> HIDE DEF h, c, t
    <2> QED
      BY <1>0, <2>1
  <1>2. CASE n >= c
    <2>1. Del(pool, n).ulHead = t /\ Del(pool, n).ulTail = t /\ Del(pool, n).ulCount = 0
      BY <1>2 DEF Del, Pool
    <2> HIDE DEF h, c, t
    <2>2. t + 0 = t /\ t % M = t
      BY <1>0, Wrap
    <2> QED
      BY <1>0, <2>1, <2>2 DEF Ring
  <1>3. CASE n < c
    <2>1. /\ Del(pool, n).ulHead = (h + n) % M /\ Del(pool, n).ulTail = t
          /\ Del(pool, n).ulCount = c - n
      BY <1>0, <1>3 DEF Del, Pool, M
    <2> HIDE DEF h, c, t
    <2>2. (h + n) % M = IF h + n < M THEN h + n ELSE h + n - M
      BY <1>0, <1>3
    <2>3. (h + n) % M \in 0 .. M - 1 /\ c - n \in 0 .. M
      BY <1>0, <1>3, <2>2
    <2>4. (((h + n) % M) + (c - n)) % M = t
      <3>1. (((h + n) % M) + (c - n)) % M =
              IF ((h + n) % M) + (c - n) < M THEN ((h + n) % M) + (c - n)
                ELSE ((h + n) % M) + (c - n) - M
        BY <1>0, <2>3, Wrap
      <3> QED
        BY <1>0, <1>1, <1>3, <2>2, <3>1
    <2> QED
      BY <1>0, <1>3, <2>1, <2>4 DEF Ring
  <1> QED
    BY <1>0, <1>2, <1>3

LEMMA EmptyRing == Ring(Empty)
  BY LogAssumption DEF Empty, Ring, M

LEMMA RingsStep ==
  ASSUME IInv, IInv', Rings, [Next]_vars
  PROVE  Rings'
  <1> USE DEF Rings
  <1>0. xPool \in Pool /\ flash \in [{0, 1} -> Pool]
    BY DEF IInv, TypeOK
  <1>1. CASE FTE_LOG_init
    BY <1>1 DEF FTE_LOG_init
  <1>2. CASE Crash
    BY <1>2, EmptyRing DEF Crash
  <1>3. CASE FTE_LOG_addSystem \/ FTE_LOG_addEvent
    <2>1. xPool' = Pushed(xPool, logged + 1) /\ flash' = flash /\ logged' = logged + 1
      BY <1>3 DEF FTE_LOG_addSystem, FTE_LOG_addEvent, Add
    <2>2. logged + 1 \in Entry
      BY <2>1, LogAssumption DEF IInv, TypeOK, Entry
    <2> QED
      BY <1>0, <2>1, <2>2, PushedRing
  <1>4. ASSUME NEW n \in 1 .. MAX_LOG_COUNT, FTE_LOG_del(n) PROVE Rings'
    <2>1. xPool' = Del(xPool, n) /\ flash' = flash
      BY <1>4 DEF FTE_LOG_del, Del
    <2> QED
      BY <1>0, <2>1, DelRing DEF M
  <1>5. CASE Open \/ OpenFails
    <2>1. Ring(Renumbered)
      BY <1>0 DEF Renumbered, Ring, Pool
    <2>2. xPool' = Renumbered /\ \A k \in {0, 1} : flash'[k] \in {Empty, flash[k]}
      BY <1>0, <1>5 DEF Open, OpenFails
    <2> QED
      BY <2>1, <2>2, EmptyRing
  <1>6. CASE Write \/ WriteFails
    <2>1. xPool' = xPool /\ \A k \in {0, 1} : flash'[k] \in {xPool, flash[k]}
      BY <1>0, <1>6 DEF Write, WriteFails
    <2> QED
      BY <2>1
  <1>7. CASE ResetFlag \/ NothingToSave \/ UNCHANGED vars
    BY <1>7 DEF ResetFlag, NothingToSave, vars
  <1> QED
    BY <1>1, <1>2, <1>3, <1>4, <1>5, <1>6, <1>7 DEF Next, FTE_LOG_save

-----------------------------------------------------------------------------
(* The entries of a pool, as a sequence. *)
Contents == Entry \cup {0}

LEMMA EntriesSeq ==
  ASSUME NEW pool \in Pool
  PROVE  /\ Entries(pool) \in Seq(Contents) /\ Len(Entries(pool)) = pool.ulCount
         /\ pool.ulCount \in Nat
         /\ \A i \in 1 .. pool.ulCount :
              Entries(pool)[i] = pool.pLogs[(pool.ulHead + i - 1) % MAX_LOG_COUNT]
  <1>1. pool.ulCount \in Nat
    BY DEF Pool
  <1>2. \A i \in 1 .. pool.ulCount :
          pool.pLogs[(pool.ulHead + i - 1) % MAX_LOG_COUNT] \in Contents
    <2> TAKE i \in 1 .. pool.ulCount
    <2>1. pool.ulHead + i - 1 \in Nat
      BY LogAssumption DEF Pool, Cells
    <2>2. (pool.ulHead + i - 1) % MAX_LOG_COUNT \in Cells
      BY <2>1, ModCell
    <2> QED
      BY <2>2 DEF Pool, Contents
  <1>3. Entries(pool) \in [1 .. pool.ulCount -> Contents]
    BY <1>2 DEF Entries
  <1>4. Entries(pool) \in Seq(Contents)
    BY <1>1, <1>3
  <1>5. DOMAIN Entries(pool) = 1 .. pool.ulCount
    BY DEF Entries
  <1>6. Len(Entries(pool)) = pool.ulCount
    BY <1>1, <1>4, <1>5, LenProperties
  <1> QED
    BY <1>1, <1>4, <1>6 DEF Entries

(* The cells of the log follow each other, and the tail comes after them. *)
LEMMA CellsApart ==
  ASSUME NEW pool \in Pool, Ring(pool)
  PROVE  /\ \A i \in 1 .. pool.ulCount : (pool.ulHead + i - 1) % M # pool.ulTail
         /\ \A i \in 1 .. M - 1 : (((pool.ulHead + 1) % M) + i - 1) % M = (pool.ulHead + i) % M
  <1> DEFINE h == pool.ulHead
             c == pool.ulCount
             t == pool.ulTail
  <1>0. /\ M \in Nat \ {0} /\ h \in 0 .. M - 1 /\ c \in 0 .. M - 1 /\ t \in 0 .. M - 1
        /\ t = (h + c) % M
    BY LogAssumption DEF Pool, Cells, M, Ring
  <1> HIDE DEF h, c, t
  <1>1. ASSUME NEW i \in 1 .. c PROVE (h + i - 1) % M # t
    <2>1. h + i - 1 = h + (i - 1) /\ i - 1 \in 0 .. M
      BY <1>0
    <2>2. (h + i - 1) % M = IF h + i - 1 < M THEN h + i - 1 ELSE h + i - 1 - M
      BY <1>0, <2>1
    <2>3. (h + c) % M = IF h + c < M THEN h + c ELSE h + c - M
      BY <1>0
    <2> QED
      BY <1>0, <2>2, <2>3
  <1>2. ASSUME NEW i \in 1 .. M - 1 PROVE (((h + 1) % M) + i - 1) % M = (h + i) % M
    <2>1. (h + 1) % M = IF h + 1 < M THEN h + 1 ELSE 0
      BY <1>0
    <2>2. CASE h + 1 < M
      BY <1>0, <2>1, <2>2
    <2>3. CASE ~(h + 1 < M)
      <3>1. h = M - 1 /\ (h + 1) % M = 0
        BY <1>0, <2>1, <2>3
      <3>2. (h + i) % M = i - 1
        BY <1>0, <3>1
      <3>3. (0 + i - 1) % M = i - 1
        BY <1>0
      <3> QED
        BY <3>1, <3>2, <3>3
    <2> QED
      BY <2>2, <2>3
  <1> QED
    BY <1>1, <1>2 DEF h, c, t

(* An entry more, without the oldest one if the log is full. *)
LEMMA PushedEntries ==
  ASSUME NEW pool \in Pool, Ring(pool), NEW e \in Entry
  PROVE  Entries(Pushed(pool, e)) = Abstract!Latest(Append(Entries(pool), e))
  <1> DEFINE h == pool.ulHead
             c == pool.ulCount
             t == pool.ulTail
             q == Pushed(pool, e)
             s == Entries(pool)
             a == Append(s, e)
             r == Abstract!Latest(a)
  <1>0. /\ M \in Nat \ {0} /\ h \in 0 .. M - 1 /\ c \in 0 .. M - 1 /\ t \in Cells
        /\ t = (h + c) % M /\ pool.pLogs \in [Cells -> Contents]
    BY LogAssumption DEF Pool, Cells, M, Ring, Contents
  <1>1. /\ q.pLogs = [pool.pLogs EXCEPT ![t] = e]
        /\ q.ulHead = IF c + 1 >= M THEN (h + 1) % M ELSE h
        /\ q.ulCount = IF c + 1 >= M THEN M - 1 ELSE c + 1
    BY DEF Pushed, Pool, M
  <1>2. /\ s \in Seq(Contents) /\ Len(s) = c
        /\ \A i \in 1 .. c : s[i] = pool.pLogs[(h + i - 1) % M]
    BY EntriesSeq DEF M
  <1>3. q \in Pool
    BY PushedPool
  <1>4. /\ Entries(q) \in Seq(Contents) /\ Len(Entries(q)) = q.ulCount
        /\ \A i \in 1 .. q.ulCount : Entries(q)[i] = q.pLogs[(q.ulHead + i - 1) % M]
    <2> HIDE DEF q
    <2> QED
      BY <1>3, EntriesSeq DEF M
  <1>5. /\ \A i \in 1 .. c : (h + i - 1) % M # t
        /\ \A i \in 1 .. M - 1 : (((h + 1) % M) + i - 1) % M = (h + i) % M
    BY CellsApart
  <1>6. /\ a \in Seq(Contents) /\ a # << >> /\ Len(a) = c + 1
        /\ \A i \in 1 .. c : a[i] = s[i]
        /\ a[c + 1] = e
    <2> HIDE DEF s, c
    <2>1. e \in Contents
      BY DEF Contents
    <2> QED
      BY <1>2, <2>1, AppendProperties
  <1>7. r = IF c + 1 > M - 1 THEN Tail(a) ELSE a
    BY <1>6 DEF Abstract!Latest, M
  <1> HIDE DEF h, c, t, q, s, a, r
  <1>8. \A x \in Cells : q.pLogs[x] = IF x = t THEN e ELSE pool.pLogs[x]
    BY <1>0, <1>1
  <1>9. \A i \in 1 .. M : (h + i - 1) % M \in Cells /\ (h + i) % M \in Cells
    <2> TAKE i \in 1 .. M
    <2>1. h + i - 1 \in Nat /\ h + i \in Nat
      BY <1>0
    <2> QED
      BY <2>1, ModCell DEF M
  <1>10. ASSUME c + 1 < M PROVE Entries(q) = r
    <2>1. q.ulHead = h /\ q.ulCount = c + 1 /\ r = a
      BY <1>0, <1>1, <1>7, <1>10
    <2>2. ASSUME NEW i \in 1 .. c + 1 PROVE Entries(q)[i] = a[i]
      <3>1. Entries(q)[i] = q.pLogs[(h + i - 1) % M] /\ (h + i - 1) % M \in Cells
        <4>1. i \in 1 .. M /\ i \in 1 .. q.ulCount
          BY <1>0, <1>10, <2>1
        <4> QED
          BY <1>4, <1>9, <2>1, <4>1, Zenon
      <3>2. CASE i = c + 1
        <4>1. h + i - 1 = h + c
          BY <1>0, <3>2
        <4> QED
          BY <1>0, <1>6, <1>8, <3>1, <3>2, <4>1, Zenon
      <3>3. CASE i # c + 1
        <4>1. i \in 1 .. c
          BY <1>0, <3>3
        <4> QED
          BY <1>2, <1>5, <1>6, <1>8, <3>1, <4>1
      <3> QED
        BY <3>2, <3>3
    <2>3. Len(Entries(q)) = c + 1 /\ Len(a) = c + 1
      BY <1>4, <1>6, <2>1
    <2>4. Entries(q) = a
      BY <1>4, <1>6, <2>2, <2>3, SeqEqual, Zenon
    <2> QED
      BY <2>1, <2>4
  <1>11. ASSUME ~(c + 1 < M) PROVE Entries(q) = r
    <2>1. c = M - 1 /\ q.ulHead = (h + 1) % M /\ q.ulCount = c /\ r = Tail(a)
      BY <1>0, <1>1, <1>7, <1>11
    <2>2. /\ r \in Seq(Contents) /\ Len(r) = c /\ \A i \in 1 .. c : r[i] = a[i + 1]
      <3>1. /\ Tail(a) \in Seq(Contents) /\ Len(Tail(a)) = Len(a) - 1
            /\ \A i \in 1 .. Len(Tail(a)) : Tail(a)[i] = a[i + 1]
        BY <1>6, HeadTailProperties
      <3>2. c + 1 - 1 = c
        BY <1>0
      <3> QED
        BY <1>6, <2>1, <3>1, <3>2
    <2>3. ASSUME NEW i \in 1 .. c PROVE Entries(q)[i] = r[i]
      <3>1. i \in 1 .. M - 1 /\ i \in 1 .. M
        BY <1>0, <2>1
      <3>2. Entries(q)[i] = q.pLogs[(h + i) % M] /\ (h + i) % M \in Cells
        BY <1>4, <1>5, <1>9, <2>1, <3>1
      <3>3. CASE i = c
        BY <1>0, <1>6, <1>8, <2>2, <3>2, <3>3
      <3>4. CASE i # c
        <4>1. i + 1 \in 1 .. c /\ h + (i + 1) - 1 = h + i
          BY <1>0, <3>4
        <4>2. s[i + 1] = pool.pLogs[(h + i) % M] /\ (h + i) % M # t
          BY <1>2, <1>5, <4>1
        <4> QED
          BY <1>6, <1>8, <2>2, <3>2, <4>1, <4>2
      <3> QED
        BY <3>3, <3>4
    <2>4. Len(Entries(q)) = c
      BY <1>4, <2>1
    <2> QED
      BY <1>4, <2>2, <2>3, <2>4, SeqEqual, Zenon
  <1>12. Entries(q) = r
    BY <1>10, <1>11
  <1> QED
    BY <1>12 DEF q, r, a, s

(* The oldest n entries are gone. *)
LEMMA DelEntries ==
  ASSUME NEW pool \in Pool, Ring(pool), NEW n \in 1 .. M, Del(pool, n) \in Pool
  PROVE  \/ pool.ulCount = 0 /\ Entries(Del(pool, n)) = Entries(pool)
         \/ \E k \in 1 .. Len(Entries(pool)) :
              Entries(Del(pool, n)) = SubSeq(Entries(pool), k + 1, Len(Entries(pool)))
  <1> DEFINE h == pool.ulHead
             c == pool.ulCount
             q == Del(pool, n)
             s == Entries(pool)
             k == IF n >= c THEN c ELSE n
             u == SubSeq(s, k + 1, c)
  <1>0. /\ M \in Nat \ {0} /\ h \in 0 .. M - 1 /\ c \in 0 .. M - 1 /\ n \in 1 .. M
    BY LogAssumption DEF Pool, Cells, M, Ring
  <1>1. /\ q.pLogs = pool.pLogs /\ q.ulCount = c - k
        /\ n < c => q.ulHead = (h + n) % M
    BY <1>0 DEF Del, Pool, M
  <1>2. /\ s \in Seq(Contents) /\ Len(s) = c
        /\ \A i \in 1 .. c : s[i] = pool.pLogs[(h + i - 1) % M]
    BY EntriesSeq DEF M
  <1>3. /\ Entries(q) \in Seq(Contents) /\ Len(Entries(q)) = q.ulCount
        /\ \A i \in 1 .. q.ulCount : Entries(q)[i] = q.pLogs[(q.ulHead + i - 1) % M]
    <2> HIDE DEF q
    <2>1. q \in Pool
      BY DEF q
    <2> QED
      BY <2>1, EntriesSeq DEF M
  <1> HIDE DEF h, c, q, s
  <1>4. k \in 0 .. c /\ k <= n /\ (c > 0 => k \in 1 .. c)
    BY <1>0
  <1>5. u \in Seq(Contents) /\ Len(u) = c - k /\ \A i \in 1 .. c - k : u[i] = s[k + i]
    <2> HIDE DEF k
    <2>1. \A i \in k + 1 .. c : s[i] \in Contents
      <3> TAKE i \in k + 1 .. c
      <3>1. i \in 1 .. Len(s)
        BY <1>0, <1>2, <1>4
      <3> QED
        BY <1>2, <3>1, ElementOfSeq
    <2>2. k + 1 \in Int /\ c \in Int
      BY <1>0, <1>4
    <2>3. /\ u \in Seq(Contents) /\ Len(u) = IF k + 1 <= c THEN c - (k + 1) + 1 ELSE 0
          /\ \A i \in 1 .. c - (k + 1) + 1 : u[i] = s[k + 1 + i - 1]
      BY <2>1, <2>2, SubSeqProperties
    <2> HIDE DEF u
    <2>4. c - (k + 1) + 1 = c - k /\ \A i \in 1 .. c - k : k + 1 + i - 1 = k + i
      BY <1>0, <1>4
    <2>5. Len(u) = c - k
      BY <1>0, <1>4, <2>3
    <2> QED
      BY <2>3, <2>4, <2>5
  <1> HIDE DEF u
  <1>6. ASSUME NEW i \in 1 .. c - k PROVE Entries(q)[i] = u[i]
    <2>1. n < c /\ k = n
      BY <1>0
    <2> HIDE DEF k
    <2>2. (q.ulHead + i - 1) % M = (h + n + i - 1) % M
      <3>1. q.ulHead = IF h + n < M THEN h + n ELSE h + n - M
        BY <1>0, <1>1, <2>1
      <3>2. CASE h + n < M
        BY <3>1, <3>2
      <3>3. CASE ~(h + n < M)
        <4>1. /\ q.ulHead = h + n - M /\ h + n - M + i - 1 \in 0 .. M - 1
              /\ h + n + i - 1 = (h + n - M + i - 1) + M
          BY <1>0, <1>4, <2>1, <3>1, <3>3
        <4>2. (h + n - M + i - 1) % M = h + n - M + i - 1
          BY <1>0, <4>1
        <4>3. (h + n + i - 1) % M = h + n - M + i - 1
          BY <1>0, <4>1
        <4> QED
          BY <4>1, <4>2, <4>3
      <3> QED
        BY <3>2, <3>3
    <2>3. k + i \in 1 .. c /\ h + (k + i) - 1 = h + n + i - 1
      BY <1>0, <1>4, <2>1
    <2>4. i \in 1 .. q.ulCount
      BY <1>1
    <2>5. Entries(q)[i] = pool.pLogs[(h + n + i - 1) % M]
      BY <1>1, <1>3, <2>2, <2>4
    <2>6. u[i] = pool.pLogs[(h + n + i - 1) % M]
      BY <1>2, <1>5, <2>3
    <2> QED
      BY <2>5, <2>6
  <1> HIDE DEF k
  <1>7. Entries(q) = u
    BY <1>1, <1>3, <1>5, <1>6, SeqEqual, Zenon
  <1>8. CASE c = 0
    <2>0. k \in 0 .. 0
      BY <1>4, <1>8, Zenon
    <2>1. c - k = 0
      <3>1. k = 0
        BY <2>0
      <3>2. 0 - 0 = 0
        OBVIOUS
      <3> QED
        BY <1>8, <3>1, <3>2, Zenon
    <2>2. Entries(q) = s
      <3>1. Len(Entries(q)) = 0 /\ Len(s) = 0
        BY <1>1, <1>2, <1>3, <1>8, <2>1
      <3>2. \A i \in 1 .. 0 : Entries(q)[i] = s[i]
        OBVIOUS
      <3> QED
        BY <1>2, <1>3, <3>1, <3>2, SeqEqual, Zenon
    <2>3. pool.ulCount = 0
      BY <1>8 DEF c
    <2> QED
      BY <2>2, <2>3, Zenon DEF q, s
  <1>9. CASE c # 0
    <2>1. k \in 1 .. Len(s) /\ Entries(q) = SubSeq(s, k + 1, Len(s))
      BY <1>0, <1>2, <1>4, <1>7, <1>9 DEF u
    <2> QED
      BY <2>1 DEF q, s
  <1> QED
    BY <1>8, <1>9

LEMMA EmptyEntries == Entries(Empty) = << >>
  <1>1. Empty.ulCount = 0
    BY DEF Empty
  <1>2. Entries(Empty) \in Seq(Contents) /\ Len(Entries(Empty)) = 0
    BY <1>1, EmptyPool, EntriesSeq
  <1> QED
    BY <1>2

(* Every step of the log is a step of BoundedLog or a stutter. *)
LEMMA LogStepRefines ==
  ASSUME IInv, IInv', Rings, [Next]_vars
  PROVE  [Abstract!Next]_(Abstract!vars)
  <1>0. xPool \in Pool /\ flash \in [{0, 1} -> Pool] /\ xPool' \in Pool /\ Ring(xPool)
    BY DEF IInv, TypeOK, Rings
  <1>1. CASE FTE_LOG_init
    <2>1. Abstract!Restart
      BY <1>1 DEF FTE_LOG_init, Abstract!Restart
    <2> QED
      BY <2>1 DEF Abstract!Next
  <1>2. CASE Crash
    <2>1. Abstract!Stop
      BY <1>2, EmptyEntries DEF Crash, Abstract!Stop
    <2> QED
      BY <2>1 DEF Abstract!Next
  <1>3. CASE FTE_LOG_addSystem \/ FTE_LOG_addEvent
    <2>1. /\ xPool' = Pushed(xPool, logged + 1) /\ flash' = flash /\ logged' = logged + 1
          /\ main # "off" /\ main' # "off"
      BY <1>3 DEF FTE_LOG_addSystem, FTE_LOG_addEvent, Add
    <2>2. logged + 1 \in Entry
      BY <2>1, LogAssumption DEF IInv, TypeOK, Entry
    <2>3. Entries(xPool)' = Abstract!Latest(Append(Entries(xPool), logged + 1))
      BY <1>0, <2>1, <2>2, PushedEntries
    <2>4. Abstract!Add(logged + 1)
      BY <2>1, <2>3 DEF Abstract!Add
    <2> QED
      BY <2>2, <2>4 DEF Abstract!Next
  <1>4. ASSUME NEW n \in 1 .. MAX_LOG_COUNT, FTE_LOG_del(n)
        PROVE  [Abstract!Next]_(Abstract!vars)
    <2>1. xPool' = Del(xPool, n) /\ flash' = flash /\ main # "off" /\ main' = main
      BY <1>4 DEF FTE_LOG_del, Del
    <2>2. CASE Entries(xPool)' = Entries(xPool)
      BY <2>1, <2>2 DEF Abstract!vars
    <2>3. ASSUME NEW k \in 1 .. Len(Entries(xPool)),
                 Entries(xPool)' = SubSeq(Entries(xPool), k + 1, Len(Entries(xPool)))
          PROVE  Abstract!Next
      <3>1. Abstract!DeleteOldest(k)
        BY <2>1, <2>3 DEF Abstract!DeleteOldest
      <3> QED
        BY <3>1 DEF Abstract!Next
    <2> QED
      BY <1>0, <2>1, <2>2, <2>3, DelEntries DEF M
  <1>5. CASE Open \/ OpenFails
    <2>1. Entries(Renumbered) = Entries(xPool)
      BY <1>0 DEF Renumbered, Entries, Pool
    <2>2. /\ xPool' = Renumbered /\ flash'[0] \in {Empty, flash[0]}
          /\ main # "off" /\ main' # "off"
      BY <1>0, <1>5 DEF Open, OpenFails, Selected
    <2>3. CASE flash'[0] = flash[0]
      BY <2>1, <2>2, <2>3 DEF Abstract!vars
    <2>4. CASE flash'[0] = Empty
      <3>1. Abstract!Rewrite
        BY <2>1, <2>2, <2>4, EmptyEntries DEF Abstract!Rewrite
      <3> QED
        BY <3>1 DEF Abstract!Next
    <2> QED
      BY <2>2, <2>3, <2>4
  <1>6. CASE Write \/ WriteFails
    <2>1. /\ xPool' = xPool /\ flash'[0] \in {xPool, flash[0]}
          /\ main # "off" /\ main' # "off"
      BY <1>0, <1>6 DEF Write, WriteFails, Locked, Unlock
    <2>2. CASE flash'[0] = flash[0]
      BY <2>1, <2>2 DEF Abstract!vars
    <2>3. CASE flash'[0] = xPool
      <3>1. Abstract!Save
        BY <2>1, <2>3 DEF Abstract!Save
      <3> QED
        BY <3>1 DEF Abstract!Next
    <2> QED
      BY <2>1, <2>2, <2>3
  <1>7. CASE ResetFlag \/ NothingToSave \/ UNCHANGED vars
    <2>1. xPool' = xPool /\ flash' = flash /\ (main # "off" <=> main' # "off")
      BY <1>7 DEF ResetFlag, NothingToSave, vars
    <2> QED
      BY <2>1 DEF Abstract!vars
  <1> QED
    BY <1>1, <1>2, <1>3, <1>4, <1>5, <1>6, <1>7 DEF Next, FTE_LOG_save

(* The ring of FTE_LOG_addSystem, addEvent and del and the two sectors of  *)
(* FTE_LOG_save implement a bounded log, for every size of the ring.       *)
THEOREM LogIsBounded == Spec => IsBoundedLog
  <1>1. Init => Rings /\ Abstract!Init
    <2> SUFFICES ASSUME Init PROVE Rings /\ Abstract!Init
      OBVIOUS
    <2>1. xPool = Empty /\ \A k \in {0, 1} : flash[k] = Empty
      BY DEF Init
    <2> QED
      BY <2>1, EmptyRing, EmptyEntries DEF Init, Rings, Abstract!Init
  <1>2. IInv /\ IInv' /\ Rings /\ [Next]_vars => Rings' /\ [Abstract!Next]_(Abstract!vars)
    BY RingsStep, LogStepRefines
  <1> QED
    BY <1>1, <1>2, LogInvariance, PTL DEF Spec, IsBoundedLog, Abstract!Spec
=============================================================================
