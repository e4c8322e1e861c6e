-------------------------- MODULE NetDaemonProofs --------------------------
(***************************************************************************)
(* Proofs about NetDaemon, for every number of managers, slots, tries and  *)
(* traps.                                                                  *)
(*                                                                         *)
(* The three tables of trap servers agree although two tasks change RTCS's *)
(* table in turn and each removes "the first entry of this host", perhaps  *)
(* the other's: the entries are one per server that has been entered, and  *)
(* one more for the manager that is being answered.  That ends with an     *)
(* addition that the configuration refuses.                                *)
(***************************************************************************)
EXTENDS NetDaemon, FunctionTheorems, FiniteSetTheorems, TLAPS

(* An interface that is being bound is not bound. *)
Binding == netd.at = "bind" => ip # "BOUND"

(* Who is made a receiver for one trap, and when; a trap that was taken is *)
(* one of those left for this round.                                       *)
Temporary ==
  /\ netd.temp => netd.at \in {"add", "send", "remove"} /\ netd.msg.type = "DISCOVERY"
  /\ netd.at \in {"add", "remove"} => netd.temp
  /\ netd.at \in {"add", "send", "remove"} => netd.left > 0

Fits == Cardinality(stored) <= MaxServers

Adding   == shell.at \in {"add", "store"}
Removing == shell.at \in {"remove", "unstore"}

(* No addition has been refused, and none is going to be. *)
Orderly == hist.refused = {} /\ (Adding => Room)

(* The list and the configuration differ by the addition that is going on. *)
Listed ==
  /\ shell.at # "idle" => shell.host \in Hosts
  /\ hist.refused = {} =>
       /\ servers = IF Adding THEN stored \cup {shell.host} ELSE stored
       /\ Adding => shell.host \in Hosts \ stored
       /\ Removing => shell.host \in stored

(* The servers in RTCS's table, and the manager that is there for a trap.  *)
Entered ==
  IF shell.at = "store" THEN stored \cup {shell.host}
    ELSE IF shell.at = "unstore" THEN stored \ {shell.host} ELSE stored
Answering == netd.temp /\ netd.at \in {"send", "remove"}

(* Slot a is the answered manager's, 0 if there is none; the others hold   *)
(* each server once.                                                       *)
Table(t, a) ==
  /\ IF Answering THEN a \in 1 .. Slots /\ t[a] = netd.msg.host ELSE a = 0
  /\ \A i \in 1 .. Slots : i # a /\ t[i] # None => t[i] \in Entered
  /\ \A i, j \in 1 .. Slots : i # a /\ j # a /\ t[i] = t[j] /\ t[i] # None => i = j
  /\ \A h \in Entered : \E i \in 1 .. Slots : i # a /\ t[i] = h

Agreed == Orderly => \E a \in 0 .. Slots : Table(targets, a)

IInv ==
  /\ TypeOK
  /\ QueueBounded
  /\ TriesAreBack /\ Binding
  /\ Temporary /\ Fits /\ Listed /\ Agreed

-----------------------------------------------------------------------------
(* External operators and helpers of the model. *)

(* A set of slots has a first one. *)
LEMMA FirstSlot ==
  ASSUME NEW S \in SUBSET (1 .. Slots), S # {}
  PROVE  First(S) \in S
  <1>1. Slots \in Nat
    BY NetAssumption
  <1>2. S \subseteq Nat
    BY <1>1
  <1>3. PICK x \in S : \A y \in S : ~(<<y, x>> \in OpToRel(<, Nat))
    BY <1>2, NatLessThanWellFounded, WFMin
  <1>4. \A y \in S : x <= y
    <2> TAKE y \in S
    <2>1. ~(y < x)
      BY <1>2, <1>3 DEF OpToRel
    <2> QED
      BY <1>2, <2>1
  <1> QED
    BY <1>4 DEF First

(* A server more, a server less. *)
LEMMA OneMoreOneLess ==
  ASSUME NEW S, IsFiniteSet(S), NEW x
  PROVE  /\ IsFiniteSet(S \cup {x}) /\ IsFiniteSet(S \ {x})
         /\ Cardinality(S) \in Nat
         /\ Cardinality(S \cup {x}) \in Nat /\ Cardinality(S \cup {x}) <= Cardinality(S) + 1
         /\ Cardinality(S \ {x}) \in Nat /\ Cardinality(S \ {x}) <= Cardinality(S)
  <1>1. IsFiniteSet(S \cup {x}) /\ IsFiniteSet(S \ {x})
    BY FS_AddElement, FS_RemoveElement
  <1>2. /\ Cardinality(S) \in Nat /\ Cardinality(S \cup {x}) \in Nat
        /\ Cardinality(S \ {x}) \in Nat
    BY <1>1, FS_CardinalityType
  <1>3. Cardinality(S \cup {x}) = IF x \in S THEN Cardinality(S) ELSE Cardinality(S) + 1
    BY FS_AddElement
  <1>4. Cardinality(S \ {x}) = IF x \in S THEN Cardinality(S) - 1 ELSE Cardinality(S)
    BY FS_RemoveElement
  <1> QED
    BY <1>1, <1>2, <1>3, <1>4

(* What Insert and Remove do to the table. *)
LEMMA InsertType ==
  ASSUME NEW h \in Hosts, targets \in [1 .. Slots -> Hosts \cup {None}], Insert(h)
  PROVE  /\ targets' \in [1 .. Slots -> Hosts \cup {None}]
         /\ SlotsOf(None) # {} => \E k \in SlotsOf(None) : targets' = [targets EXCEPT ![k] = h]
  <1>1. CASE SlotsOf(None) = {}
    BY <1>1 DEF Insert
  <1>2. CASE SlotsOf(None) # {}
    <2>1. First(SlotsOf(None)) \in SlotsOf(None)
      BY <1>2, FirstSlot DEF SlotsOf
    <2> QED
      BY <1>2, <2>1 DEF Insert, SlotsOf
  <1> QED
    BY <1>1, <1>2

LEMMA RemoveType ==
  ASSUME NEW h \in Hosts, targets \in [1 .. Slots -> Hosts \cup {None}], Remove(h)
  PROVE  /\ targets' \in [1 .. Slots -> Hosts \cup {None}]
         /\ SlotsOf(h) # {} => \E k \in SlotsOf(h) : targets' = [targets EXCEPT ![k] = None]
  <1>1. CASE SlotsOf(h) = {}
    BY <1>1 DEF Remove
  <1>2. CASE SlotsOf(h) # {}
    <2>1. First(SlotsOf(h)) \in SlotsOf(h)
      BY <1>2, FirstSlot DEF SlotsOf
    <2> QED
      BY <1>2, <2>1 DEF Remove, SlotsOf
  <1> QED
    BY <1>1, <1>2

(* After a start the table holds each stored server once. *)
LEMMA StartTable ==
  ASSUME NEW S \in SUBSET Hosts, Cardinality(S) <= MaxServers, NEW t \in Tables(S)
  PROVE  /\ t \in [1 .. Slots -> Hosts \cup {None}]
         /\ \A i \in 1 .. Slots : t[i] # None => t[i] \in S
         /\ \A i, j \in 1 .. Slots : t[i] = t[j] /\ t[i] # None => i = j
         /\ \A h \in S : \E i \in 1 .. Slots : t[i] = h
  <1> DEFINE n == Cardinality(S)
             D == {i \in 1 .. Slots : t[i] \in S}
             f == [i \in D |-> t[i]]
  <1>1. IsFiniteSet(S) /\ n \in Nat /\ Slots \in Nat
    BY NetAssumption, FS_Subset, FS_CardinalityType
  <1>2. /\ t \in [1 .. Slots -> S \cup {None}]
        /\ \A h \in S : \E i \in 1 .. n : t[i] = h
        /\ \A i \in n + 1 .. Slots : t[i] = None
    BY DEF Tables
  <1>3. None \notin S
    BY NetAssumption
  <1>4. D \subseteq 1 .. n
    BY <1>1, <1>2, <1>3
  <1>5. IsFiniteSet(D) /\ Cardinality(D) <= n
    <2>1. IsFiniteSet(1 .. n) /\ Cardinality(1 .. n) = n
      BY <1>1, FS_Interval
    <2> QED
      BY <1>4, <2>1, FS_Subset
  <1>6. \A h \in S : \E i \in D : t[i] = h
    <2> TAKE h \in S
    <2>1. PICK i \in 1 .. n : t[i] = h
      BY <1>2
    <2>2. i \in 1 .. Slots
      BY <1>1, NetAssumption
    <2> QED
      BY <2>1, <2>2
  <1>7. f \in Surjection(D, S)
    BY <1>6 DEF Surjection
  <1>8. n <= Cardinality(D) /\ (n = Cardinality(D) <=> f \in Injection(D, S))
    BY <1>5, <1>7, FS_Surjection
  <1>9. f \in Injection(D, S)
    BY <1>1, <1>5, <1>8, FS_CardinalityType
  <1>10. \A i, j \in D : t[i] = t[j] => i = j
    BY <1>9 DEF Injection, IsInjective
  <1> QED
    BY <1>2, <1>3, <1>6, <1>10

-----------------------------------------------------------------------------
(* The table of receivers, action by action. *)

(* There is room for one entry more than those of the entered servers. *)
LEMMA FreeSlot ==
  ASSUME TypeOK, Fits, Orderly, Listed, NEW a \in 0 .. Slots, Table(targets, a),
         Answering => shell.at = "add"
  PROVE  SlotsOf(None) # {}
  <1> DEFINE D == {i \in 1 .. Slots : i # a /\ targets[i] # None}
             f == [i \in D |-> targets[i]]
  <1>1. Slots \in Nat /\ MaxServers \in Nat /\ MaxServers < Slots
    BY NetAssumption
  <1>2. IsFiniteSet(stored) /\ Cardinality(stored) \in Nat
    BY NetAssumption, FS_Subset, FS_CardinalityType DEF TypeOK
  <1>3. IsFiniteSet(Entered) /\ Cardinality(Entered) \in Nat
    <2>1. /\ IsFiniteSet(stored \cup {shell.host})
          /\ IsFiniteSet(stored \ {shell.host})
      BY <1>2, FS_AddElement, FS_RemoveElement
    <2>2. IsFiniteSet(Entered)
      BY <1>2, <2>1 DEF Entered
    <2> QED
      BY <2>2, FS_CardinalityType
  <1>4. Cardinality(Entered) + (IF Answering THEN 1 ELSE 0) <= MaxServers
    <2>1. CASE shell.at = "store"
      <3>1. Cardinality(stored \cup {shell.host}) <= Cardinality(stored) + 1
        BY <1>2, FS_AddElement
      <3>2. Cardinality(stored) < MaxServers
        BY <2>1 DEF Orderly, Adding, Room
      <3> QED
        BY <1>1, <1>2, <1>3, <2>1, <3>1, <3>2 DEF Entered
    <2>2. CASE shell.at = "unstore"
      <3>1. Cardinality(stored \ {shell.host}) <= Cardinality(stored)
        BY <1>2, FS_RemoveElement
      <3> QED
        BY <1>1, <1>2, <1>3, <2>2, <3>1 DEF Entered, Fits
    <2>3. CASE shell.at = "add"
      BY <1>1, <1>2, <2>3 DEF Entered, Orderly, Adding, Room
    <2>4. CASE shell.at \notin {"store", "unstore", "add"}
      BY <1>1, <1>2, <2>4 DEF Entered, Fits
    <2> QED
      BY <2>1, <2>2, <2>3, <2>4
  <1>5. f \in Injection(D, Entered)
    BY DEF Table, Injection, IsInjective
  <1> HIDE DEF D
  <1>6. IsFiniteSet(D) /\ Cardinality(D) <= Cardinality(Entered)
    BY <1>3, <1>5, FS_Injection
  <1>7. SUFFICES ASSUME SlotsOf(None) = {} PROVE FALSE
    OBVIOUS
  <1>8. IsFiniteSet(1 .. Slots) /\ Cardinality(1 .. Slots) = Slots
    BY <1>1, FS_Interval
  <1>9. Cardinality(D) \in Nat
    BY <1>6, FS_CardinalityType
  <1>10. CASE Answering
    <2>1. 1 .. Slots \subseteq D \cup {a}
      BY <1>7 DEF D, SlotsOf
    <2>2. Cardinality(D \cup {a}) <= Cardinality(D) + 1 /\ IsFiniteSet(D \cup {a})
      BY <1>6, <1>9, FS_AddElement
    <2>3. Slots <= Cardinality(D \cup {a}) /\ Cardinality(D \cup {a}) \in Nat
      BY <1>8, <2>1, <2>2, FS_Subset, FS_CardinalityType
    <2> QED
      BY <1>1, <1>3, <1>4, <1>6, <1>9, <1>10, <2>2, <2>3
  <1>11. CASE ~Answering
    <2>1. 1 .. Slots \subseteq D
      BY <1>1, <1>7, <1>11 DEF D, SlotsOf, Table
    <2>2. Slots <= Cardinality(D)
      <3>1. 1 .. Slots \in SUBSET D
        BY <2>1
      <3>2. Cardinality(1 .. Slots) <= Cardinality(D)
        BY <1>6, <3>1, FS_Subset
      <3> QED
        BY <1>8, <3>2
    <2> QED
      BY <1>1, <1>3, <1>4, <1>6, <1>9, <1>11, <2>2
  <1> QED
    BY <1>10, <1>11

(* Nothing that the table depends on changes. *)
LEMMA SameTable ==
  ASSUME Agreed, UNCHANGED <<targets, shell, servers, stored>>, hist'.refused = hist.refused,
         Answering' <=> Answering, Answering => netd'.msg = netd.msg
  PROVE  Agreed'
  <1>1. Orderly' <=> Orderly
    BY DEF Orderly, Adding, Room
  <1>3. Entered' = Entered
    BY DEF Entered
  <1>4. \A a \in 0 .. Slots : Table(targets, a) => Table(targets, a)'
    BY <1>3 DEF Table
  <1> QED
    BY <1>1, <1>4 DEF Agreed

(* The answered manager comes and goes. *)
LEMMA AskerEnters ==
  ASSUME TypeOK, Temporary, Fits, Listed, Agreed, AddAsker
  PROVE  Agreed'
  <1> SUFFICES ASSUME Orderly' PROVE \E a \in 0 .. Slots : Table(targets, a)'
    BY DEF Agreed
  <1>1. Orderly
    BY DEF AddAsker, Orderly, Adding, Room
  <1>2. ~Answering /\ Answering' /\ netd'.msg = netd.msg /\ netd.msg.host \in Hosts
    BY DEF AddAsker, Answering, TypeOK, Temporary, Messages, Ask, Alert
  <1>3. PICK a \in 0 .. Slots : Table(targets, a)
    BY <1>1 DEF Agreed
  <1>4. SlotsOf(None) # {}
    BY <1>1, <1>2, <1>3, FreeSlot
  <1>5. PICK k \in SlotsOf(None) : targets' = [targets EXCEPT ![k] = netd.msg.host]
    BY <1>2, <1>4, InsertType DEF AddAsker, TypeOK
  <1>6. Entered' = Entered
    BY DEF Entered, AddAsker
  <1>7. Table(targets, k)'
    <2>1. a = 0 /\ k \in 1 .. Slots /\ targets[k] = None
      BY <1>2, <1>3 DEF Table, SlotsOf
    <2>2. /\ targets'[k] = netd.msg.host
          /\ \A i \in 1 .. Slots : i # k => targets'[i] = targets[i]
      BY <1>5, <2>1 DEF TypeOK
    <2>3. None \notin Entered
      BY <1>1, NetAssumption DEF Entered, Listed, Orderly, Adding, TypeOK
    <2> QED
      BY <1>2, <1>3, <1>6, <2>1, <2>2, <2>3 DEF Table
  <1>8. k \in 0 .. Slots
    BY NetAssumption DEF SlotsOf
  <1> QED
    BY <1>7, <1>8

LEMMA AskerLeaves ==
  ASSUME TypeOK, Temporary, Listed, Agreed, RemoveAsker
  PROVE  Agreed'
  <1> SUFFICES ASSUME Orderly' PROVE \E a \in 0 .. Slots : Table(targets, a)'
    BY DEF Agreed
  <1>1. Orderly
    BY DEF RemoveAsker, Orderly, Adding, Room
  <1>2. Answering /\ ~Answering' /\ netd.msg.host \in Hosts
    BY DEF RemoveAsker, Answering, TypeOK, Temporary, Messages, Ask, Alert
  <1>3. PICK a \in 0 .. Slots : Table(targets, a)
    BY <1>1 DEF Agreed
  <1>4. a \in SlotsOf(netd.msg.host)
    BY <1>2, <1>3 DEF Table, SlotsOf
  <1>5. PICK k \in SlotsOf(netd.msg.host) : targets' = [targets EXCEPT ![k] = None]
    BY <1>2, <1>4, RemoveType DEF RemoveAsker, TypeOK
  <1>6. Entered' = Entered
    BY DEF Entered, RemoveAsker
  <1>7. 0 \in 0 .. Slots /\ 0 \notin 1 .. Slots /\ None \notin Hosts
    BY NetAssumption
  <1>8. Table(targets, 0)'
    <2>1. \A i \in 1 .. Slots : targets'[i] # None => targets'[i] \in Entered
      BY <1>2, <1>3, <1>4, <1>5, <1>7 DEF Table, SlotsOf, TypeOK
    <2> QED
      BY <1>2, <1>3, <1>4, <1>5, <1>6, <1>7, <2>1 DEF Table, SlotsOf, TypeOK
  <1> QED
    BY <1>7, <1>8

(* The shell's additions and deletions. *)
LEMMA ShellAddKeeps ==
  ASSUME TypeOK, Listed, Agreed, NEW h \in Hosts, ShellAdd(h)
  PROVE  Agreed'
  <1> SUFFICES ASSUME Orderly' PROVE \E a \in 0 .. Slots : Table(targets, a)'
    BY DEF Agreed
  <1>1. Orderly
    BY DEF ShellAdd, Orderly, Adding, TypeOK
  <1>3. Entered' = Entered /\ (Answering' <=> Answering) /\ netd' = netd /\ targets' = targets
    BY DEF ShellAdd, Entered, Answering
  <1>4. \A a \in 0 .. Slots : Table(targets, a) => Table(targets, a)'
    BY <1>3 DEF Table
  <1> QED
    BY <1>1, <1>4 DEF Agreed

LEMMA ShellAddTargetKeeps ==
  ASSUME TypeOK, Temporary, Fits, Listed, Agreed, ShellAddTarget
  PROVE  Agreed'
  <1> SUFFICES ASSUME Orderly' PROVE \E a \in 0 .. Slots : Table(targets, a)'
    BY DEF Agreed
  <1>1. shell.at = "add" /\ shell'.at = "store" /\ shell'.host = shell.host
    BY DEF ShellAddTarget, TypeOK
  <1>2. Orderly
    BY <1>1 DEF ShellAddTarget, Orderly, Adding, Room
  <1>3. PICK a \in 0 .. Slots : Table(targets, a)
    BY <1>2 DEF Agreed
  <1>4. SlotsOf(None) # {}
    BY <1>1, <1>2, <1>3, FreeSlot
  <1>5. shell.host \in Hosts /\ shell.host \notin Entered
    BY <1>1, <1>2 DEF Listed, Orderly, Adding, Entered
  <1>6. PICK k \in SlotsOf(None) : targets' = [targets EXCEPT ![k] = shell.host]
    BY <1>4, <1>5, InsertType DEF ShellAddTarget, TypeOK
  <1>7. Entered' = Entered \cup {shell.host}
    BY <1>1 DEF Entered, ShellAddTarget
  <1>8. Table(targets, a)'
    <2>1. k \in 1 .. Slots /\ targets[k] = None /\ None \notin Hosts
      BY NetAssumption DEF SlotsOf
    <2>2. /\ targets'[k] = shell.host
          /\ \A i \in 1 .. Slots : i # k => targets'[i] = targets[i]
      BY <1>6, <2>1 DEF TypeOK
    <2>3. None \notin Entered
      BY <1>1, <1>2, <2>1 DEF Entered, Listed, Orderly, Adding, TypeOK
    <2>4. (Answering' <=> Answering) /\ netd' = netd
      BY DEF ShellAddTarget, Answering
    <2>5. k # a
      <3>1. Answering => netd.msg.host \in Hosts
        BY DEF Answering, TypeOK, Temporary, Messages, Ask, Alert
      <3> QED
        BY <1>3, <2>1, <3>1 DEF Table
    <2>6. \A i \in 1 .. Slots : i # a /\ targets'[i] # None => targets'[i] \in Entered'
      BY <1>3, <1>7, <2>2 DEF Table
    <2>7. \A h \in Entered' : \E i \in 1 .. Slots : i # a /\ targets'[i] = h
      BY <1>3, <1>7, <2>1, <2>2, <2>3, <2>5 DEF Table
    <2>8. \A i, j \in 1 .. Slots :
             i # a /\ j # a /\ targets'[i] = targets'[j] /\ targets'[i] # None => i = j
      BY <1>3, <1>5, <2>1, <2>2, <2>5 DEF Table
    <2>9. IF Answering' THEN a \in 1 .. Slots /\ targets'[a] = netd'.msg.host ELSE a = 0
      BY <1>3, <2>2, <2>4, <2>5 DEF Table
    <2> QED
      BY <2>6, <2>7, <2>8, <2>9 DEF Table
  <1> QED
    BY <1>8

LEMMA ShellStoreKeeps ==
  ASSUME TypeOK, Fits, Listed, Agreed, ShellStore
  PROVE  Agreed' /\ Fits'
  <1>1. shell.at = "store" /\ shell'.at = "idle"
    BY DEF ShellStore, ShellIdle
  <1>2. IsFiniteSet(stored) /\ Cardinality(stored) \in Nat /\ MaxServers \in Nat
    BY NetAssumption, FS_Subset, FS_CardinalityType DEF TypeOK
  <1>3. Fits'
    <2>1. CASE Room
      <3>1. /\ Cardinality(stored \cup {shell.host}) <= Cardinality(stored) + 1
            /\ Cardinality(stored \cup {shell.host}) \in Nat
        BY <1>2, OneMoreOneLess
      <3> QED
        BY <1>2, <2>1, <3>1 DEF ShellStore, Fits, Room
    <2>2. CASE ~Room
      BY <2>2 DEF ShellStore, Fits
    <2> QED
      BY <2>1, <2>2
  <1>4. Agreed'
    <2> SUFFICES ASSUME Orderly' PROVE \E a \in 0 .. Slots : Table(targets, a)'
      BY DEF Agreed
    <2>1. Room
      <3> SUFFICES ASSUME ~Room PROVE FALSE
        OBVIOUS
      <3>1. shell.host \in stored /\ hist' = hist
        BY DEF Orderly, ShellStore, TypeOK
      <3> QED
        BY <1>1, <3>1 DEF Listed, Orderly, Adding
    <2>2. Orderly
      BY <1>1, <2>1 DEF Orderly, Adding, ShellStore
    <2>3. stored' = stored \cup {shell.host}
      BY <2>1 DEF ShellStore
    <2>5. Entered' = Entered /\ (Answering' <=> Answering) /\ netd' = netd /\ targets' = targets
      BY <1>1, <2>3 DEF ShellStore, Entered, Answering
    <2>6. \A a \in 0 .. Slots : Table(targets, a) => Table(targets, a)'
      BY <2>5 DEF Table
    <2> QED
      BY <2>2, <2>6 DEF Agreed
  <1> QED
    BY <1>3, <1>4

LEMMA ShellDelKeeps ==
  ASSUME TypeOK, Agreed, NEW h \in Hosts, ShellDel(h)
  PROVE  Agreed'
  <1> SUFFICES ASSUME Orderly' PROVE \E a \in 0 .. Slots : Table(targets, a)'
    BY DEF Agreed
  <1>1. Orderly
    BY DEF ShellDel, Orderly, Adding, TypeOK
  <1>2. Entered' = Entered /\ (Answering' <=> Answering) /\ netd' = netd /\ targets' = targets
    BY DEF ShellDel, Entered, Answering
  <1>3. \A a \in 0 .. Slots : Table(targets, a) => Table(targets, a)'
    BY <1>2 DEF Table
  <1> QED
    BY <1>1, <1>3 DEF Agreed

(* The entry removed may be that of the manager being answered: then this  *)
(* one is answered through the server's.                                   *)
LEMMA ShellRemoveTargetKeeps ==
  ASSUME TypeOK, Temporary, Listed, Agreed, ShellRemoveTarget
  PROVE  Agreed'
  <1> SUFFICES ASSUME Orderly' PROVE \E a \in 0 .. Slots : Table(targets, a)'
    BY DEF Agreed
  <1> DEFINE h == shell.host
  <1>1. shell.at = "remove" /\ shell'.at = "unstore" /\ shell'.host = h
    BY DEF ShellRemoveTarget, TypeOK
  <1>2. Orderly
    BY <1>1 DEF ShellRemoveTarget, Orderly, Adding
  <1>3. PICK a \in 0 .. Slots : Table(targets, a)
    BY <1>2 DEF Agreed
  <1>4. h \in Entered /\ h \in Hosts /\ Entered' = Entered \ {h}
    BY <1>1, <1>2 DEF Listed, Orderly, Removing, Entered, ShellRemoveTarget, TypeOK
  <1>5. PICK s \in 1 .. Slots : s # a /\ targets[s] = h
    BY <1>3, <1>4 DEF Table
  <1>6. PICK k \in SlotsOf(h) : targets' = [targets EXCEPT ![k] = None]
    <2>1. SlotsOf(h) # {}
      BY <1>5 DEF SlotsOf
    <2> QED
      BY <1>4, <2>1, RemoveType DEF ShellRemoveTarget, TypeOK
  <1>7. k \in 1 .. Slots /\ targets[k] = h /\ (k = s \/ k = a)
    BY <1>3, <1>4, <1>5, NetAssumption DEF SlotsOf, Table
  <1>8. /\ targets'[k] = None /\ None \notin Hosts
        /\ \A i \in 1 .. Slots : i # k => targets'[i] = targets[i]
    BY <1>6, <1>7, NetAssumption DEF TypeOK
  <1>9. (Answering' <=> Answering) /\ netd' = netd
    BY DEF ShellRemoveTarget, Answering
  <1> HIDE DEF h
  <1>10. CASE k = s
    <2>1. \A i \in 1 .. Slots : i # a /\ targets'[i] # None => targets'[i] \in Entered'
      BY <1>3, <1>4, <1>5, <1>8, <1>10 DEF Table
    <2>2. \A g \in Entered' : \E i \in 1 .. Slots : i # a /\ targets'[i] = g
      BY <1>3, <1>4, <1>5, <1>7, <1>8, <1>10 DEF Table
    <2>3. \A i, j \in 1 .. Slots :
             i # a /\ j # a /\ targets'[i] = targets'[j] /\ targets'[i] # None => i = j
      BY <1>3, <1>8 DEF Table
    <2>4. IF Answering' THEN a \in 1 .. Slots /\ targets'[a] = netd'.msg.host ELSE a = 0
      BY <1>3, <1>5, <1>8, <1>9, <1>10 DEF Table
    <2>5. Table(targets, a)'
      BY <2>1, <2>2, <2>3, <2>4 DEF Table
    <2> QED
      BY <2>5
  <1>11. CASE k = a /\ k # s
    <2>0. a \in 1 .. Slots /\ s \in 0 .. Slots /\ Answering /\ netd.msg.host = h
      <3>1. Answering
        BY <1>3, <1>7, <1>11, NetAssumption DEF Table
      <3> QED
        BY <1>3, <1>7, <1>11, <3>1, NetAssumption DEF Table
    <2>1. \A i \in 1 .. Slots : i # s /\ targets'[i] # None => targets'[i] \in Entered'
      BY <1>3, <1>4, <1>5, <1>8, <1>11 DEF Table
    <2>2. \A g \in Entered' : \E i \in 1 .. Slots : i # s /\ targets'[i] = g
      BY <1>3, <1>4, <1>5, <1>7, <1>8, <1>11 DEF Table
    <2>3. \A i, j \in 1 .. Slots :
             i # s /\ j # s /\ targets'[i] = targets'[j] /\ targets'[i] # None => i = j
      BY <1>3, <1>8, <1>11 DEF Table
    <2>4. IF Answering' THEN s \in 1 .. Slots /\ targets'[s] = netd'.msg.host ELSE s = 0
      BY <1>5, <1>8, <1>9, <1>11, <2>0
    <2>5. Table(targets, s)'
      BY <2>1, <2>2, <2>3, <2>4 DEF Table
    <2> QED
      BY <2>0, <2>5
  <1> QED
    BY <1>7, <1>10, <1>11

LEMMA ShellUnstoreKeeps ==
  ASSUME TypeOK, Fits, Agreed, ShellUnstore
  PROVE  Agreed' /\ Fits'
  <1>1. shell.at = "unstore" /\ shell'.at = "idle" /\ stored' = stored \ {shell.host}
    BY DEF ShellUnstore, ShellIdle
  <1>2. Fits'
    <2>1. IsFiniteSet(stored) /\ Cardinality(stored) \in Nat /\ MaxServers \in Nat
      BY NetAssumption, FS_Subset, FS_CardinalityType DEF TypeOK
    <2>2. /\ Cardinality(stored \ {shell.host}) <= Cardinality(stored)
          /\ Cardinality(stored \ {shell.host}) \in Nat
      BY <2>1, OneMoreOneLess
    <2> QED
      BY <1>1, <2>1, <2>2 DEF Fits
  <1>3. Agreed'
    <2> SUFFICES ASSUME Orderly' PROVE \E a \in 0 .. Slots : Table(targets, a)'
      BY DEF Agreed
    <2>1. Orderly
      BY <1>1 DEF ShellUnstore, Orderly, Adding
    <2>2. Entered' = Entered /\ (Answering' <=> Answering) /\ netd' = netd /\ targets' = targets
      BY <1>1 DEF ShellUnstore, Entered, Answering
    <2>3. \A a \in 0 .. Slots : Table(targets, a) => Table(targets, a)'
      BY <2>2 DEF Table
    <2> QED
      BY <2>1, <2>3 DEF Agreed
  <1> QED
    BY <1>2, <1>3

(* A start, the first or after the last failing bind. *)
LEMMA StartAgrees ==
  ASSUME stored \subseteq Hosts, Fits, targets \in Tables(stored),
         shell = ShellIdle, netd = NetdIdle
  PROVE  Agreed
  <1>1. Entered = stored /\ ~Answering /\ 0 \in 0 .. Slots
    BY NetAssumption DEF Entered, Answering, ShellIdle, NetdIdle
  <1>2. Table(targets, 0)
    BY <1>1, StartTable DEF Fits, Table
  <1> QED
    BY <1>1, <1>2 DEF Agreed

-----------------------------------------------------------------------------
(* The invariant, one conjunct after the other. *)

LEMMA ConstantsType ==
  /\ MaxTraps \in Nat /\ MaxServers \in Nat /\ Slots \in Nat /\ Burst \in Nat /\ Tries \in Nat
  /\ MaxAlerts \in Nat /\ MaxAsks \in Nat /\ MaxCmds \in Nat /\ MaxFaults \in Nat
  BY NetAssumption

LEMMA TrimType ==
  ASSUME queue \in Seq(Messages)
  PROVE  /\ Trim(queue) \in Seq(Messages)
         /\ Len(Trim(queue)) = IF Len(queue) > MaxTraps THEN Len(queue) - 1 ELSE Len(queue)
  <1>1. CASE Len(queue) > MaxTraps
    <2>1. queue # << >>
      BY <1>1, ConstantsType
    <2> QED
      BY <1>1, <2>1 DEF Trim
  <1>2. CASE ~(Len(queue) > MaxTraps)
    BY <1>2 DEF Trim
  <1> QED
    BY <1>1, <1>2

LEMMA AddingTrap ==
  ASSUME NEW q \in Seq(Messages), NEW m \in Messages
  PROVE  Append(q, m) \in Seq(Messages) /\ Len(Append(q, m)) = Len(q) + 1 /\ Len(q) \in Nat
  OBVIOUS

LEMMA SomeMessages == Alert \in Messages /\ \A h \in Hosts : Ask(h) \in Messages
  BY DEF Messages

HistType == [alerts : 0 .. MaxAlerts, asked : 0 .. MaxAsks, cmds : 0 .. MaxCmds,
             faults : 0 .. MaxFaults, refused : SUBSET Hosts]

NetdType == [at : {"top", "bind", "traps", "add", "send", "remove"}, retry : 0 .. Tries,
             left : 0 .. Burst, msg : Messages, temp : BOOLEAN]

(* The bounds, and what a manager refused adds, keep the history's type. *)
LEMMA Counted ==
  ASSUME NEW h \in HistType
  PROVE  /\ h.alerts < MaxAlerts => [h EXCEPT !.alerts = @ + 1] \in HistType
         /\ h.asked < MaxAsks => [h EXCEPT !.asked = @ + 1] \in HistType
         /\ h.cmds < MaxCmds => [h EXCEPT !.cmds = @ + 1] \in HistType
         /\ h.faults < MaxFaults => [h EXCEPT !.faults = @ + 1] \in HistType
         /\ h.faults < MaxFaults =>
              [h EXCEPT !.faults = @ + 1, !.asked = 0, !.refused = {}] \in HistType
         /\ \A g \in Hosts : [h EXCEPT !.refused = @ \cup {g}] \in HistType
  <1> USE ConstantsType
  <1>1. ASSUME h.alerts < MaxAlerts PROVE [h EXCEPT !.alerts = @ + 1] \in HistType
    <2>1. h.alerts + 1 \in 0 .. MaxAlerts
      BY <1>1 DEF HistType
    <2> QED
      BY <2>1 DEF HistType
  <1>2. ASSUME h.asked < MaxAsks PROVE [h EXCEPT !.asked = @ + 1] \in HistType
    <2>1. h.asked + 1 \in 0 .. MaxAsks
      BY <1>2 DEF HistType
    <2> QED
      BY <2>1 DEF HistType
  <1>3. ASSUME h.cmds < MaxCmds PROVE [h EXCEPT !.cmds = @ + 1] \in HistType
    <2>1. h.cmds + 1 \in 0 .. MaxCmds
      BY <1>3 DEF HistType
    <2> QED
      BY <2>1 DEF HistType
  <1>4. ASSUME h.faults < MaxFaults
        PROVE  /\ [h EXCEPT !.faults = @ + 1] \in HistType
               /\ [h EXCEPT !.faults = @ + 1, !.asked = 0, !.refused = {}] \in HistType
    <2>1. h.faults + 1 \in 0 .. MaxFaults /\ 0 \in 0 .. MaxAsks /\ {} \in SUBSET Hosts
      BY <1>4 DEF HistType
    <2>2. [h EXCEPT !.faults = @ + 1] \in HistType
      BY <2>1 DEF HistType
    <2> QED
      BY <2>1, <2>2, Zenon DEF HistType
  <1>5. ASSUME NEW g \in Hosts PROVE [h EXCEPT !.refused = @ \cup {g}] \in HistType
    <2>1. h.refused \cup {g} \in SUBSET Hosts
      BY DEF HistType
    <2> QED
      BY <2>1 DEF HistType
  <1> QED
    BY <1>1, <1>2, <1>3, <1>4, <1>5

(* The environment and the producers of traps. *)
LEMMA OutsideStep ==
  ASSUME IInv,
         \/ SendAlert \/ SendAlertNoMemory
         \/ \E h \in Hosts : Discovery(h)
         \/ LinkChanges \/ LeaseLost
  PROVE  IInv'
  <1> USE DEF IInv
  <1>1. UNCHANGED <<netd, targets, shell, servers, stored>> /\ hist'.refused = hist.refused
    BY DEF TypeOK, SendAlert, SendAlertNoMemory, Discovery, LinkChanges, LeaseLost, Fault
  <1>2. hist' \in HistType /\ hist'.asked \in Nat /\ hist.asked \in Nat /\ hist'.asked >= hist.asked
    <2>1. hist \in HistType
      BY DEF HistType, TypeOK
    <2>2. hist' \in HistType
      BY <2>1, Counted, Zenon DEF SendAlert, Discovery, SendAlertNoMemory, LinkChanges, LeaseLost, Fault
    <2>3. hist.asked \in Nat /\ hist'.asked \in {hist.asked, hist.asked + 1}
      BY <2>1, ConstantsType
         DEF HistType, SendAlert, Discovery, SendAlertNoMemory, LinkChanges, LeaseLost, Fault
    <2> QED
      BY <2>2, <2>3
  <1>9. queue' \in Seq(Messages) /\ QueueBounded'
    <2>0. queue \in Seq(Messages) /\ Len(queue) \in Nat /\ Len(queue) <= MaxTraps + 1 + hist.asked
      BY DEF TypeOK, QueueBounded
    <2>1. CASE SendAlert
      <3>1. queue' = Append(Trim(queue), Alert)
        BY <2>1 DEF SendAlert
      <3>2. /\ queue' \in Seq(Messages)
            /\ Len(queue') = Len(Trim(queue)) + 1
        BY <2>0, <3>1, TrimType, AddingTrap, SomeMessages
      <3> QED
        BY <1>2, <2>0, <3>2, TrimType, ConstantsType DEF QueueBounded
    <2>2. CASE SendAlertNoMemory
      <3>1. queue' = Trim(queue)
        BY <2>2 DEF SendAlertNoMemory
      <3> QED
        BY <1>2, <2>0, <3>1, TrimType, ConstantsType DEF QueueBounded
    <2>3. CASE \E h \in Hosts : Discovery(h)
      <3>1. PICK h \in Hosts : Discovery(h)
        BY <2>3
      <3>2. queue' = Append(queue, Ask(h)) /\ hist'.asked = hist.asked + 1
        BY <3>1 DEF Discovery, TypeOK
      <3>3. queue' \in Seq(Messages) /\ Len(queue') = Len(queue) + 1
        BY <2>0, <3>2, AddingTrap, SomeMessages
      <3> QED
        BY <1>2, <2>0, <3>2, <3>3, ConstantsType DEF QueueBounded
    <2>4. CASE LinkChanges \/ LeaseLost
      <3>1. queue' = queue
        BY <2>4 DEF LinkChanges, LeaseLost
      <3> QED
        BY <1>2, <2>0, <3>1, ConstantsType DEF QueueBounded
    <2> QED
      BY <2>1, <2>2, <2>3, <2>4
  <1>3. link' \in BOOLEAN
    BY Zenon DEF TypeOK, SendAlert, SendAlertNoMemory, Discovery, LinkChanges, LeaseLost
  <1>4. /\ ip' \in {"UNBOUND", "BUSY", "BOUND"}
        /\ ip' = "BOUND" => ip = "BOUND"
    BY DEF TypeOK, SendAlert, SendAlertNoMemory, Discovery, LinkChanges, LeaseLost
  <1>5. TypeOK'
    BY <1>1, <1>2, <1>3, <1>4, <1>9 DEF TypeOK, HistType
  <1>6. TriesAreBack' /\ Binding' /\ Temporary' /\ Fits'
    BY <1>1, <1>4 DEF TriesAreBack, Binding, Temporary, Fits
  <1>7. Listed'
    BY <1>1 DEF Listed, Adding, Removing
  <1>8. Agreed'
    BY <1>1, SameTable DEF Answering
  <1> QED
    BY <1>5, <1>6, <1>7, <1>8, <1>9

(* The daemon's rounds and its bind. *)
LEMMA BindStep ==
  ASSUME IInv,
         StartBind \/ StartTraps \/ Unbind \/ BindSucceeds \/ BindFails \/ EndTraps
  PROVE  IInv'
  <1> USE DEF IInv
  <1>1. /\ UNCHANGED <<link, queue, targets, shell, servers, stored>>
        /\ hist'.refused = hist.refused /\ hist'.asked = hist.asked
    BY DEF TypeOK, StartBind, StartTraps, Unbind, BindSucceeds, BindFails, EndTraps, Fault
  <1>2. /\ netd' \in NetdType /\ netd'.temp = netd.temp /\ netd'.msg = netd.msg
        /\ ~netd.temp /\ netd'.at \in {"top", "bind", "traps"}
    <2>1. netd \in NetdType /\ netd.at \in {"top", "bind", "traps"}
      BY DEF NetdType, TypeOK, StartBind, StartTraps, Unbind, BindSucceeds, BindFails, EndTraps
    <2>2. ~netd.temp
      BY <2>1 DEF Temporary
    <2>3. /\ netd'.temp = netd.temp /\ netd'.msg = netd.msg
          /\ netd'.at \in {"top", "bind", "traps"}
      BY <2>1 DEF NetdType, StartBind, StartTraps, Unbind, BindSucceeds, BindFails, EndTraps
    <2>4. netd' \in NetdType
      <3>1. 0 \in 0 .. Tries /\ 0 \in 0 .. Burst /\ Burst \in 0 .. Burst
        BY ConstantsType
      <3>2. CASE StartBind \/ StartTraps \/ Unbind \/ EndTraps \/ BindSucceeds
        BY <2>1, <3>1, <3>2 DEF NetdType, StartBind, StartTraps, Unbind, EndTraps, BindSucceeds
      <3>3. CASE BindFails
        <4>1. netd.retry + 1 \in 0 .. Tries
          BY <2>1, <3>3, ConstantsType DEF NetdType, BindFails
        <4> QED
          BY <2>1, <3>3, <4>1 DEF NetdType, BindFails
      <3> QED
        BY <3>2, <3>3
    <2> QED
      BY <2>2, <2>3, <2>4
  <1>3. hist' \in HistType
    <2>1. hist \in HistType
      BY DEF HistType, TypeOK
    <2> QED
      BY <2>1, Counted, Zenon DEF StartBind, StartTraps, Unbind, BindSucceeds, BindFails, EndTraps, Fault
  <1>4. ip' \in {"UNBOUND", "BUSY", "BOUND"} /\ TriesAreBack' /\ Binding'
    <2>1. CASE StartBind
      BY <2>1 DEF TypeOK, StartBind, NeedsBind, TriesAreBack, Binding
    <2>2. CASE StartTraps \/ Unbind \/ EndTraps
      BY <2>2 DEF TypeOK, StartTraps, Unbind, EndTraps, TriesAreBack, Binding
    <2>3. CASE BindSucceeds
      BY <2>3 DEF TypeOK, BindSucceeds, TriesAreBack, Binding
    <2>4. CASE BindFails
      BY <2>4 DEF TypeOK, BindFails, TriesAreBack, Binding
    <2> QED
      BY <2>1, <2>2, <2>3, <2>4
  <1>5. TypeOK'
    BY <1>1, <1>2, <1>3, <1>4 DEF TypeOK, NetdType, HistType
  <1>6. QueueBounded' /\ Temporary' /\ Fits' /\ Listed'
    BY <1>1, <1>2 DEF QueueBounded, Temporary, Fits, Listed, Adding, Removing
  <1>7. Agreed'
    BY <1>1, <1>2, SameTable DEF Answering
  <1> QED
    BY <1>4, <1>5, <1>6, <1>7

(* The last failing bind. *)
LEMMA RestartStep ==
  ASSUME IInv, LastBindFails
  PROVE  IInv'
  <1> USE DEF IInv
  <1>1. /\ netd' = NetdIdle /\ shell' = ShellIdle /\ stored' = stored /\ servers' = stored
        /\ targets' \in Tables(stored) /\ ip' = "UNBOUND" /\ queue' = << >> /\ link' = link
    BY DEF LastBindFails
  <1>2. hist' \in HistType /\ hist'.refused = {} /\ hist'.asked = 0
    <2>1. hist \in HistType
      BY DEF HistType, TypeOK
    <2>2. hist' \in HistType
      BY <2>1, Counted, Zenon DEF LastBindFails
    <2> QED
      BY <2>1, <2>2 DEF HistType, LastBindFails
  <1>3. stored \subseteq Hosts /\ Cardinality(stored) <= MaxServers
    BY DEF TypeOK, Fits
  <1>4. TypeOK' /\ QueueBounded'
    <2>1. targets' \in [1 .. Slots -> Hosts \cup {None}]
      BY <1>1, <1>3, StartTable
    <2>2. netd' \in NetdType
      BY <1>1, SomeMessages, ConstantsType DEF NetdIdle, NetdType
    <2>3. queue' \in Seq(Messages) /\ Len(queue') = 0
      BY <1>1
    <2>4. QueueBounded'
      BY <1>2, <2>3, ConstantsType DEF QueueBounded
    <2> QED
      BY <1>1, <1>2, <1>3, <2>1, <2>2, <2>3, <2>4
         DEF TypeOK, NetdType, HistType, ShellIdle
  <1>5. TriesAreBack' /\ Binding' /\ Temporary' /\ Fits' /\ Listed'
    BY <1>1, <1>2
       DEF NetdIdle, ShellIdle, TriesAreBack, Binding, Temporary, Fits, Listed, Adding, Removing
  <1>6. Agreed'
    <2>1. Entered' = stored /\ ~Answering' /\ 0 \in 0 .. Slots
      BY <1>1, NetAssumption DEF Entered, Answering, ShellIdle, NetdIdle
    <2>2. Table(targets, 0)'
      BY <1>1, <1>3, <2>1, StartTable DEF Table
    <2> QED
      BY <2>1, <2>2 DEF Agreed
  <1> QED
    BY <1>4, <1>5, <1>6

(* A trap is taken, sent and answered for. *)
LEMMA TrapStep ==
  ASSUME IInv, TakeTrap \/ AddAsker \/ Send \/ RemoveAsker
  PROVE  IInv'
  <1> USE DEF IInv
  <1>1. UNCHANGED <<link, ip, servers, stored, shell, hist>>
    BY DEF TakeTrap, AddAsker, Send, RemoveAsker
  <1>2. netd \in NetdType
    BY DEF NetdType, TypeOK
  <1>3. /\ netd' \in NetdType /\ netd'.retry = netd.retry /\ netd'.at # "bind"
        /\ netd'.temp => netd'.at \in {"add", "send", "remove"} /\ netd'.msg.type = "DISCOVERY"
        /\ netd'.at \in {"add", "remove"} => netd'.temp
        /\ netd'.at \in {"add", "send", "remove"} => netd'.left > 0
        /\ queue' \in Seq(Messages) /\ Len(queue') <= Len(queue)
    <2>1. CASE TakeTrap
      <3>1. queue \in Seq(Messages) /\ queue # << >>
        BY <2>1 DEF TakeTrap, TypeOK
      <3>2. Head(queue) \in Messages /\ Tail(queue) \in Seq(Messages) /\ Len(Tail(queue)) <= Len(queue)
        BY <3>1
      <3>0. netd.left > 0
        BY <2>1 DEF TakeTrap
      <3> DEFINE m == Head(queue)
                 t == m.type = "DISCOVERY" /\ m.host \notin stored
      <3>3. /\ netd' = [netd EXCEPT !.at = IF t THEN "add" ELSE "send", !.msg = m, !.temp = t]
            /\ queue' = Tail(queue)
        BY <2>1 DEF TakeTrap
      <3>4. t \in BOOLEAN /\ m \in Messages /\ (t => m.type = "DISCOVERY")
        BY <3>2
      <3> HIDE DEF m, t
      <3>5. CASE t
        BY <1>2, <3>0, <3>2, <3>3, <3>4, <3>5 DEF NetdType
      <3>6. CASE ~t
        BY <1>2, <3>0, <3>2, <3>3, <3>4, <3>6 DEF NetdType
      <3> QED
        BY <3>5, <3>6
    <2>2. CASE AddAsker
      BY <1>2, <2>2 DEF AddAsker, NetdType, Temporary, TypeOK
    <2>3. CASE Send /\ netd.temp
      BY <1>2, <2>3 DEF Send, NetdType, Temporary, TypeOK
    <2>4. CASE (Send /\ ~netd.temp) \/ RemoveAsker
      <3>1. netd.left - 1 \in 0 .. Burst
        BY <1>2, <2>4, ConstantsType DEF Send, RemoveAsker, NetdType, Temporary
      <3>2. netd' \in NetdType
        BY <1>2, <2>4, <3>1, SomeMessages, Zenon DEF Send, RemoveAsker, NetdType
      <3>3. netd'.at = "traps" /\ netd'.retry = netd.retry /\ ~netd'.temp
        BY <1>2, <2>4 DEF Send, RemoveAsker, NetdType
      <3>4. queue' = queue /\ Len(queue) \in Nat /\ queue \in Seq(Messages)
        BY <2>4 DEF Send, RemoveAsker, TypeOK
      <3> QED
        BY <3>2, <3>3, <3>4
    <2> QED
      BY <2>1, <2>2, <2>3, <2>4
  <1>4. targets' \in [1 .. Slots -> Hosts \cup {None}]
    <2>1. CASE TakeTrap \/ Send
      BY <2>1 DEF TakeTrap, Send, TypeOK
    <2>2. CASE AddAsker \/ RemoveAsker
      <3>1. netd.msg.host \in Hosts
        BY <2>2 DEF AddAsker, RemoveAsker, TypeOK, Temporary, Messages, Ask, Alert
      <3> QED
        BY <2>2, <3>1, InsertType, RemoveType DEF AddAsker, RemoveAsker, TypeOK
    <2> QED
      BY <2>1, <2>2
  <1>5. TypeOK'
    BY <1>1, <1>3, <1>4 DEF TypeOK, NetdType
  <1>6. QueueBounded'
    <2>1. Len(queue) \in Nat /\ Len(queue') \in Nat /\ hist.asked \in Nat
      BY <1>3, ConstantsType DEF TypeOK
    <2> QED
      BY <1>1, <1>3, <2>1, ConstantsType DEF QueueBounded
  <1>7. TriesAreBack' /\ Binding' /\ Temporary' /\ Fits' /\ Listed'
    BY <1>1, <1>3 DEF TriesAreBack, Binding, Temporary, Fits, Listed, Adding, Removing
  <1>8. Agreed'
    <2>1. CASE TakeTrap
      <3>1. ~Answering /\ ~Answering' /\ targets' = targets
        BY <1>2, <2>1 DEF TakeTrap, Answering, NetdType
      <3> QED
        BY <1>1, <3>1, SameTable
    <2>2. CASE Send
      <3>1. targets' = targets /\ (Answering' <=> Answering) /\ (Answering => netd'.msg = netd.msg)
        BY <1>2, <2>2 DEF Send, Answering, NetdType
      <3> QED
        BY <1>1, <3>1, SameTable
    <2>3. CASE AddAsker
      BY <2>3, AskerEnters
    <2>4. CASE RemoveAsker
      BY <2>4, AskerLeaves
    <2> QED
      BY <2>1, <2>2, <2>3, <2>4
  <1> QED
    BY <1>5, <1>6, <1>7, <1>8

(* The shell's commands. *)
LEMMA ShellStep ==
  ASSUME IInv, Shell
  PROVE  IInv'
  <1> USE DEF IInv
  <1>1. UNCHANGED <<link, ip, netd, queue>> /\ hist'.asked = hist.asked
    BY DEF Shell, ShellAdd, ShellDel, ShellAddTarget, ShellStore, ShellRemoveTarget, ShellUnstore,
           TypeOK
  <1>2. /\ hist' \in HistType
        /\ servers' \subseteq Hosts /\ stored' \subseteq Hosts
        /\ shell' \in [at : {"idle", "add", "store", "remove", "unstore"}, host : Hosts \cup {None}]
        /\ targets' \in [1 .. Slots -> Hosts \cup {None}]
        /\ Listed'
    <2> DEFINE OK == /\ hist' \in HistType
                     /\ servers' \subseteq Hosts /\ stored' \subseteq Hosts
                     /\ shell' \in [at : {"idle", "add", "store", "remove", "unstore"},
                                    host : Hosts \cup {None}]
                     /\ targets' \in [1 .. Slots -> Hosts \cup {None}]
                     /\ Listed'
    <2>1. hist \in HistType /\ TypeOK /\ Listed
      BY DEF HistType, TypeOK
    <2>2. ASSUME NEW h \in Hosts, ShellAdd(h) \/ ShellDel(h)
          PROVE  OK
      <3>1. hist' \in HistType /\ hist'.refused = hist.refused
        <4>1. hist' = [hist EXCEPT !.cmds = @ + 1] /\ hist.cmds < MaxCmds
          BY <2>2 DEF ShellAdd, ShellDel
        <4>2. hist' \in HistType
          BY <2>1, <4>1, Counted, Zenon
        <4> QED
          BY <2>1, <4>1, <4>2 DEF HistType
      <3> QED
        BY <2>1, <2>2, <3>1 DEF ShellAdd, ShellDel, TypeOK, Listed, Adding, Removing
    <2>3. CASE ShellAddTarget \/ ShellRemoveTarget
      <3>1. shell.host \in Hosts
        BY <2>1, <2>3 DEF ShellAddTarget, ShellRemoveTarget, Listed
      <3>2. targets' \in [1 .. Slots -> Hosts \cup {None}]
        BY <2>1, <2>3, <3>1, InsertType, RemoveType DEF ShellAddTarget, ShellRemoveTarget, TypeOK
      <3> QED
        BY <2>1, <2>3, <3>1, <3>2
           DEF ShellAddTarget, ShellRemoveTarget, TypeOK, Listed, Adding, Removing
    <2>4. CASE ShellStore
      <3>1. shell.host \in Hosts
        BY <2>1, <2>4 DEF ShellStore, Listed
      <3>2. hist' \in HistType
        BY <2>1, <2>4, <3>1, Counted, Zenon DEF ShellStore
      <3>3. hist'.refused = {} => hist' = hist /\ hist.refused = {} /\ Room
        BY <2>1, <2>4 DEF ShellStore, HistType, Listed, Adding
      <3>4. Listed'
        BY <2>1, <2>4, <3>3 DEF ShellStore, Listed, Adding, Removing, ShellIdle
      <3> QED
        BY <2>1, <2>4, <3>1, <3>2, <3>4 DEF ShellStore, TypeOK, ShellIdle
    <2>5. CASE ShellUnstore
      BY <2>1, <2>5 DEF ShellUnstore, TypeOK, Listed, Adding, Removing, ShellIdle
    <2> QED
      BY <2>2, <2>3, <2>4, <2>5 DEF Shell
  <1>3. TypeOK'
    BY <1>1, <1>2 DEF TypeOK, HistType
  <1>4. QueueBounded' /\ TriesAreBack' /\ Binding' /\ Temporary'
    BY <1>1 DEF QueueBounded, TriesAreBack, Binding, Temporary
  <1>5. Fits' /\ Agreed'
    <2>1. ASSUME NEW h \in Hosts, ShellAdd(h) PROVE Fits' /\ Agreed'
      BY <2>1, ShellAddKeeps DEF ShellAdd, Fits
    <2>2. ASSUME NEW h \in Hosts, ShellDel(h) PROVE Fits' /\ Agreed'
      BY <2>2, ShellDelKeeps DEF ShellDel, Fits
    <2>3. CASE ShellAddTarget
      BY <2>3, ShellAddTargetKeeps DEF ShellAddTarget, Fits
    <2>4. CASE ShellRemoveTarget
      BY <2>4, ShellRemoveTargetKeeps DEF ShellRemoveTarget, Fits
    <2> QED
      BY <2>1, <2>2, <2>3, <2>4, ShellStoreKeeps, ShellUnstoreKeeps DEF Shell
  <1> QED
    BY <1>2, <1>3, <1>4, <1>5

-----------------------------------------------------------------------------
LEMMA InitIInv == Init => IInv
  <1> SUFFICES ASSUME Init PROVE IInv
    OBVIOUS
  <1>1. stored \subseteq Hosts /\ Fits /\ servers = stored /\ hist.refused = {} /\ hist.asked = 0
    BY DEF Init, Fits
  <1>2. TypeOK
    <2>1. targets \in [1 .. Slots -> Hosts \cup {None}]
      BY <1>1, StartTable DEF Init, Fits
    <2>2. netd \in NetdType
      BY SomeMessages, ConstantsType DEF Init, NetdIdle, NetdType
    <2>3. hist \in HistType
      BY ConstantsType DEF Init, HistType
    <2> QED
      BY <1>1, <2>1, <2>2, <2>3 DEF Init, TypeOK, NetdType, HistType, ShellIdle
  <1>3. QueueBounded
    <2>1. Len(queue) = 0
      BY DEF Init
    <2> QED
      BY <1>1, <2>1, ConstantsType DEF QueueBounded
  <1>4. TriesAreBack /\ Binding /\ Temporary /\ Listed
    BY <1>1 DEF Init, NetdIdle, ShellIdle, TriesAreBack, Binding, Temporary, Listed,
                Adding, Removing
  <1>5. Agreed
    BY <1>1, StartAgrees DEF Init
  <1> QED
    BY <1>1, <1>2, <1>3, <1>4, <1>5 DEF IInv

LEMMA NextIInv == IInv /\ [Next]_vars => IInv'
  <1> SUFFICES ASSUME IInv, [Next]_vars PROVE IInv'
    OBVIOUS
  <1>1. CASE Daemon
    BY <1>1, BindStep, RestartStep, TrapStep DEF Daemon
  <1>2. CASE Shell
    BY <1>2, ShellStep
  <1>3. CASE \/ SendAlert \/ SendAlertNoMemory
             \/ \E h \in Hosts : Discovery(h)
             \/ LinkChanges \/ LeaseLost
    BY <1>3, OutsideStep
  <1>4. CASE UNCHANGED vars
    <2>1. TypeOK' /\ QueueBounded' /\ TriesAreBack' /\ Binding' /\ Temporary' /\ Fits' /\ Listed'
      BY <1>4 DEF IInv, vars, TypeOK, QueueBounded, TriesAreBack, Binding, Temporary, Fits,
                  Listed, Adding, Removing
    <2>2. Agreed'
      BY <1>4, SameTable DEF IInv, vars, Answering
    <2> QED
      BY <2>1, <2>2 DEF IInv
  <1> QED
    BY <1>1, <1>2, <1>3, <1>4 DEF Next

(* The inductive invariant holds throughout: the queue's bound, the tries, *)
(* the commands of the shell and the three tables of trap servers.         *)
THEOREM NetInvariance == Spec => []IInv
  <1>1. Init => IInv
    BY InitIInv
  <1>2. IInv /\ [Next]_vars => IInv'
    BY NextIInv
  <1> QED
    BY <1>1, <1>2, PTL DEF Spec

(* Every field of the daemon, of the shell's command and of the tables has *)
(* its type; nRetry never passes the tries, loop_count never goes below 0. *)
THEOREM NetTypeCorrect == Spec => []TypeOK
  <1>1. IInv => TypeOK
    BY DEF IInv
  <1> QED
    BY <1>1, NetInvariance, PTL

(* FTE_SNMPD_TRAP_sendAlert keeps _trapList within one of the limit and    *)
(* the discoveries of this start.                                          *)
THEOREM TrapQueueBounded == Spec => []QueueBounded
  <1>1. IInv => QueueBounded
    BY DEF IInv
  <1> QED
    BY <1>1, NetInvariance, PTL

(* FTE_TASK_net gives a bound interface all its tries again. *)
THEOREM TriesReturn == Spec => []TriesAreBack
  <1>1. IInv => TriesAreBack
    BY DEF IInv
  <1> QED
    BY <1>1, NetInvariance, PTL

(* Between commands and answers the list of servers, the configuration and *)
(* RTCS's table agree until an addition is refused, however the shell's    *)
(* FTE_SNMPD_TRAP_add and _del interleave with the daemon's answers to     *)
(* managers, the same hosts' included.                                     *)
THEOREM TablesAgree == Spec => []ServersServed
  <1>1. IInv => ServersServed
    <2> SUFFICES ASSUME IInv, Quiet, hist.refused = {}
                 PROVE  servers = stored /\ {targets[i] : i \in 1 .. Slots} \ {None} = stored
      BY DEF ServersServed
    <2>1. shell.at = "idle" /\ ~Answering /\ Orderly /\ Entered = stored
      BY DEF Quiet, Answering, Orderly, Adding, Entered
    <2>2. servers = stored
      BY <2>1 DEF IInv, Listed, Adding
    <2>3. PICK a \in 0 .. Slots : Table(targets, a)
      BY <2>1 DEF IInv, Agreed
    <2>4. a \notin 1 .. Slots /\ None \notin stored
      BY <2>1, <2>3, NetAssumption DEF Table, IInv, TypeOK
    <2>5. {targets[i] : i \in 1 .. Slots} \ {None} = stored
      BY <2>1, <2>3, <2>4 DEF Table
    <2> QED
      BY <2>2, <2>5
  <1> QED
    BY <1>1, NetInvariance, PTL

(* The manager that FTE_SNMPD_TRAP_processing answers is among the         *)
(* receivers when its trap is sent, as long as no addition was refused and *)
(* the shell is not in the middle of a command.                            *)
THEOREM AskersHear == Spec => []AskerHears
  <1>1. IInv => AskerHears
    <2> SUFFICES ASSUME IInv, netd.at = "send", netd.msg.type = "DISCOVERY",
                        netd.temp \/ netd.msg.host \in stored,
                        hist.refused = {}, shell.at = "idle"
                 PROVE  SlotsOf(netd.msg.host) # {}
      BY DEF AskerHears
    <2>1. Orderly /\ Entered = stored
      BY DEF Orderly, Adding, Entered
    <2>2. PICK a \in 0 .. Slots : Table(targets, a)
      BY <2>1 DEF IInv, Agreed
    <2>3. \E i \in 1 .. Slots : targets[i] = netd.msg.host
      BY <2>1, <2>2 DEF Table, Answering
    <2> QED
      BY <2>3 DEF SlotsOf
  <1> QED
    BY <1>1, NetInvariance, PTL
=============================================================================
