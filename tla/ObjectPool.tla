----------------------------- MODULE ObjectPool -----------------------------
(***************************************************************************)
(* The records of objects in the configuration (fte_config.c, FTE_CFG_OBJ) *)
(* and the objects made from them (obj/fte_object.c), for the objects that *)
(* come and go: the 1-wire sensors of obj/fte_ds18b20.c.                   *)
(*                                                                         *)
(* A record has no identity but its number, which is its place among the   *)
(* objects of its class when it is made.  Objects and records are matched  *)
(* by that number, sensors on the wire and objects by the ROM code.        *)
(* Operations run to their end before another task comes in: they do not   *)
(* wait.  Saving is atomic here; ConfigStore says when it is.              *)
(***************************************************************************)
EXTENDS Integers, Sequences, FiniteSets, SequencesExt

CONSTANTS
  NumRoms,     \* sensors there are, by their ROM codes
  Fixed,       \* records of this class that the product comes with
  MaxRecords,  \* FTE_OBJ_MAX_COUNT
  MaxCmds, MaxPlugs, MaxCrashes, MaxFaults   \* bounds of the environment

ASSUME PoolAssumption ==
  /\ {NumRoms, Fixed, MaxRecords} \subseteq Nat /\ Fixed <= MaxRecords
  /\ {MaxCmds, MaxPlugs, MaxCrashes, MaxFaults} \subseteq Nat

VARIABLES
  pool,    \* xObjectPool: the records and uiObjectCount
  dirty,   \* bObjectPoolModified
  flash,   \* the pool a boot would load
  live,    \* _xObjList, the objects in the order of their numbers
  ghosts,  \* ROM codes of destroyed objects that the driver still lists
  wire,    \* sensors on the wire
  found,   \* pROMCodes, the sensors the last search found
  hist     \* history and bounds: see Init

vars == <<pool, dirty, flash, live, ghosts, wire, found, hist>>

(* ROM codes, in the order the bus search finds them. *)
Roms == 1 .. NumRoms

(* A record, and the copy of it that an object holds.  rom is 0 for the    *)
(* product's own sensors, which are of another type and cannot be deleted. *)
Empty == [num |-> 0, rom |-> 0]
Record == [num : 1 .. MaxRecords, rom : Roms \cup {0}]
Id(r) == <<r.num, r.rom # 0>>

Slots == 1 .. MaxRecords
First(S) == CHOOSE x \in S : \A y \in S : x <= y
Used(p) == {i \in Slots : p.rec[i] # Empty}
SlotsOf(p, id) == {i \in Used(p) : Id(p.rec[i]) = id}

-----------------------------------------------------------------------------
(* Mutant: an object that is deleted leaves its place counted. *)
OBJ_free_Counted(p, id) ==
  IF SlotsOf(p, id) = {} THEN p
    ELSE [p EXCEPT !.rec[First(SlotsOf(p, id))] = Empty]

(* FTE_CFG_OBJ_free and FTE_CFG_OBJ_save take the first record with the    *)
(* number.                                                                 *)
OBJ_free(p, id) ==
  IF SlotsOf(p, id) = {} THEN p
    ELSE [rec |-> [p.rec EXCEPT ![First(SlotsOf(p, id))] = Empty], count |-> p.count - 1]

OBJ_save(p, r) ==
  IF SlotsOf(p, Id(r)) = {} THEN p
    ELSE [p EXCEPT !.rec[First(SlotsOf(p, Id(r)))] = r]

(* FTE_CFG_OBJ_alloc. *)
Room(p) == p.count # MaxRecords /\ Used(p) # Slots

OBJ_alloc(p, r) ==
  [rec |-> [p.rec EXCEPT ![First(Slots \ Used(p))] = r], count |-> p.count + 1]

(* The number of a new object: the count of its class and one. *)
NextNum(p) == Cardinality(Used(p)) + 1

(* FTE_LIST_pushSort, by number; a new object goes behind its equals. *)
PushSort(s, r) ==
  LET n == Cardinality({i \in DOMAIN s : s[i].num <= r.num})
  IN  InsertAt(s, n + 1, r)

-----------------------------------------------------------------------------
(* The objects made from the first k places; an empty one has no type and  *)
(* is passed over.                                                         *)
Made(p, k) ==
  LET made[n \in 0 .. MaxRecords] ==
        IF n = 0 THEN << >>
          ELSE IF p.rec[n] = Empty THEN made[n - 1] ELSE PushSort(made[n - 1], p.rec[n])
  IN  made[k]

(* Mutant: the last record is left out. *)
Created_Short(p) == Made(p, p.count - 1)

(* The platform's start makes objects from the first uiObjectCount places. *)
Created(p) == Made(p, p.count)

Default ==
  [rec |-> [i \in Slots |-> IF i <= Fixed THEN [num |-> i, rom |-> 0] ELSE Empty],
   count |-> Fixed]

(* hist.gap: a record other than the last was deleted since the pool was   *)
(* last cleared.  hist.twice: since then a sensor was attached without the *)
(* test whether it has an object, or an object was destroyed and its       *)
(* record kept.  hist.gone: since the start an object was destroyed and    *)
(* its record kept, or the pool was cleared.  hist.sought: the object      *)
(* manager has searched for sensors since the start.                       *)
Init ==
  /\ pool = Default /\ flash = Default /\ dirty = FALSE
  /\ live = Created(Default)
  /\ ghosts = {}
  /\ wire \in SUBSET Roms /\ found = wire
  /\ hist = [gap |-> FALSE, twice |-> FALSE, gone |-> FALSE, sought |-> FALSE,
             cmds |-> 0, plugs |-> 0, crashes |-> 0, faults |-> 0]

Command(h) == hist.cmds < MaxCmds /\ hist' = [h EXCEPT !.cmds = @ + 1]
Keep(p) == pool' = p /\ flash' = p /\ dirty' = FALSE    \* FTE_CFG_save(TRUE)

(* FTE_TASK_main's save. *)
MainSaves ==
  /\ dirty
  /\ Keep(pool)
  /\ UNCHANGED <<live, ghosts, wire, found, hist>>

(* FTE_PLATFORM_init, with the search of FTE_1WIRE_attach. *)
Restart ==
  /\ hist.crashes < MaxCrashes
  /\ pool' = flash /\ dirty' = FALSE
  /\ live' = Created(flash)
  /\ ghosts' = {} /\ found' = wire
  /\ hist' = [hist EXCEPT !.gone = FALSE, !.sought = FALSE, !.crashes = @ + 1]
  /\ UNCHANGED <<flash, wire>>

(* External: a sensor is connected or taken away. *)
Plug(r) ==
  /\ hist.plugs < MaxPlugs
  /\ wire' = IF r \in wire THEN wire \ {r} ELSE wire \cup {r}
  /\ hist' = [hist EXCEPT !.plugs = @ + 1]
  /\ UNCHANGED <<pool, dirty, flash, live, ghosts, found>>

-----------------------------------------------------------------------------
(* FTE_DS18B20_create for a sensor, and FTE_CFG_OBJ_save if keep is TRUE.  *)
(* q is what changes.  fail is the sensor whose object cannot be made: its *)
(* record is freed again, by number, and the object, if it got as far as   *)
(* that, left to the driver's list (lost).                                 *)
Create(q, r, keep, fail) ==
  LET n == [num |-> NextNum(q.pool), rom |-> r]
      p == OBJ_alloc(q.pool, n)
  IN  IF r = fail THEN [q EXCEPT !.pool = OBJ_free(p, Id(n)), !.stop = TRUE, !.lost = {r}]
        ELSE [q EXCEPT !.pool = IF keep THEN OBJ_save(p, n) ELSE p, !.live = PushSort(@, n)]

Now == [pool |-> pool, live |-> live, stop |-> FALSE, lost |-> {}]

(* Mutant: only the driver's left-overs are asked. *)
Exists_LeftOver(q, r, seen) == r \in seen

(* FTE_DS18B20_isExistROMCode walks the driver's list, which destroyed     *)
(* objects stay in: seen are the ones whose memory still shows their code. *)
Exists(q, r, seen) == r \in seen \/ \E i \in DOMAIN q.live : q.live[i].rom = r

(* One sensor after the other, until one fails or there is no room. *)
Discover(q, r, seen, fail) ==
  IF q.stop \/ Exists(q, r, seen) THEN q
    ELSE IF ~Room(q.pool) THEN [q EXCEPT !.stop = TRUE]
    ELSE Create(q, r, TRUE, fail)

Discovered(S, seen, fail) ==
  LET after[r \in 0 .. NumRoms] ==
        IF r = 0 THEN Now
          ELSE IF r \in S THEN Discover(after[r - 1], r, seen, fail) ELSE after[r - 1]
  IN  after[NumRoms]

Fails == IF hist.faults < MaxFaults THEN Roms \cup {0} ELSE {0}
Failed(f) == [hist EXCEPT !.faults = IF f = 0 THEN @ ELSE @ + 1]

(* The shell's "1wire discovery" searches the bus and makes nothing.       *)
Search ==
  /\ found # wire
  /\ Command(hist)
  /\ found' = wire
  /\ UNCHANGED <<pool, dirty, flash, live, ghosts, wire>>

(* FTE_OBJ_1WIRE_discovery, once when the object manager starts, searches  *)
(* the bus, makes objects until one fails, and saves.                      *)
StartDiscovery(seen, f) ==
  /\ ~hist.sought
  /\ hist' = [Failed(f) EXCEPT !.sought = TRUE]
  /\ found' = wire
  /\ LET q == Discovered(wire, seen, f)
     IN  Keep(q.pool) /\ live' = q.live /\ ghosts' \in {ghosts, ghosts \cup q.lost}
  /\ UNCHANGED wire

(* MIB_set_smDiscovery uses what the last search found.  It saves only if  *)
(* no object failed; otherwise the pool stays marked for the main task.    *)
SnmpDiscovery(seen, f) ==
  /\ Command(Failed(f))
  /\ LET q == Discovered(found, seen, f)
     IN  /\ pool' = q.pool
         /\ flash' = IF q.stop THEN flash ELSE q.pool
         /\ dirty' = (q.stop /\ (dirty \/ q.live # live))
         /\ live' = q.live /\ ghosts' \in {ghosts, ghosts \cup q.lost}
  /\ UNCHANGED <<wire, found>>

(* The shell's "ds18b20 attach" uses what the last search found and does   *)
(* not save: FTE_OBJ_start marks the pool, if the sensor answers.  Only    *)
(* "attach all" looks whether there is an object already.                  *)
ShellAttach(r, seen, all, answers, f) ==
  /\ r \in found /\ Room(pool)
  /\ all => ~Exists(Now, r, seen)
  /\ Command([Failed(f) EXCEPT !.twice = @ \/ ~all])
  /\ LET q == Create(Now, r, answers, f)
     IN  /\ pool' = q.pool /\ live' = q.live /\ ghosts' \in {ghosts, ghosts \cup q.lost}
         /\ dirty' = (dirty \/ (answers /\ ~q.stop))
  /\ UNCHANGED <<flash, wire, found>>

-----------------------------------------------------------------------------
(* FTE_OBJ_destroy stops the object, which clears its ENABLE flag and      *)
(* saves it into the record with its number, and leaves it to the driver's *)
(* list.  FTE_OBJ_get finds the first object with a number.                *)
Numbers == {Id(live[i]) : i \in DOMAIN live}
Object(id) == First({i \in DOMAIN live : Id(live[i]) = id})

Destroyed(i) ==
  /\ live' = RemoveAt(live, i)
  /\ ghosts' = ghosts \cup ({live[i].rom} \ {0})

(* FTE_OBJ_CMD_del: the record is freed and the pool saved, and then the   *)
(* object destroyed.                                                       *)
CMD_del(id) ==
  /\ id \in Numbers /\ id[2]
  /\ Command([hist EXCEPT !.gap = @ \/ \E i \in Used(pool) : \E j \in SlotsOf(pool, id) : i > j])
  /\ LET p == OBJ_free(pool, id)
         i == Object(id)
     IN  /\ flash' = IF SlotsOf(pool, id) = {} THEN flash ELSE p
         /\ pool' = OBJ_save(p, live[i])
         /\ dirty' = (SlotsOf(p, id) # {} \/ (dirty /\ SlotsOf(pool, id) = {}))
         /\ Destroyed(i)
  /\ UNCHANGED <<wire, found>>

(* Mutant: the pool is cleared and the objects are left. *)
CMD_delAll_Keep ==
  /\ Command([hist EXCEPT !.gap = FALSE, !.twice = FALSE, !.gone = TRUE])
  /\ Keep(Default)
  /\ UNCHANGED <<live, ghosts, wire, found>>

(* FTE_OBJ_CMD_del with "all": every object, and FTE_CFG_clearObject.      *)
CMD_delAll ==
  /\ Command([hist EXCEPT !.gap = FALSE, !.twice = FALSE, !.gone = TRUE])
  /\ live' = << >>
  /\ ghosts' = ghosts \cup ({live[i].rom : i \in DOMAIN live} \ {0})
  /\ Keep(Default)
  /\ UNCHANGED <<wire, found>>

(* MIB_set_smDestroyDynamicObject destroys any object and keeps its record. *)
SnmpDestroy(id) ==
  /\ id \in Numbers
  /\ Command([hist EXCEPT !.twice = TRUE, !.gone = TRUE])
  /\ LET i == Object(id)
     IN  /\ pool' = OBJ_save(pool, live[i])
         /\ dirty' = (dirty \/ SlotsOf(pool, id) # {})
         /\ Destroyed(i)
  /\ UNCHANGED <<flash, wire, found>>

-----------------------------------------------------------------------------
Next ==
  \/ MainSaves \/ Restart
  \/ \E r \in Roms : Plug(r)
  \/ Search
  \/ \E seen \in SUBSET ghosts, f \in Fails : StartDiscovery(seen, f) \/ SnmpDiscovery(seen, f)
  \/ \E r \in Roms, seen \in SUBSET ghosts, all, answers \in BOOLEAN, f \in Fails :
       ShellAttach(r, seen, all, answers, f)
  \/ \E id \in Numbers : CMD_del(id) \/ SnmpDestroy(id)
  \/ CMD_delAll

Spec == Init /\ [][Next]_vars

-----------------------------------------------------------------------------
(* A pool's uiObjectCount counts its records, in RAM and on flash, also    *)
(* where numbers are given twice and records are freed by number:          *)
(* FTE_CFG_OBJ_alloc refuses exactly when there is no room.                *)
Pools == {p \in [rec : [Slots -> Record \cup {Empty}], count : 0 .. MaxRecords] :
            p.count = Cardinality(Used(p))}

TypeOK ==
  /\ pool \in Pools /\ flash \in Pools /\ dirty \in BOOLEAN
  /\ live \in Seq(Record)
  /\ ghosts \subseteq Roms /\ wire \subseteq Roms /\ found \subseteq Roms
  /\ hist \in [gap : BOOLEAN, twice : BOOLEAN, gone : BOOLEAN, sought : BOOLEAN,
               cmds : 0 .. MaxCmds, plugs : 0 .. MaxPlugs, crashes : 0 .. MaxCrashes, faults : 0 .. MaxFaults]

(* No object without a record, even where objects have the same number and *)
(* the wrong record may be freed or overwritten: every number is on at     *)
(* least as many records as objects.                                       *)
LiveIsStored ==
  \A id \in Numbers :
    Cardinality({i \in DOMAIN live : Id(live[i]) = id}) <= Cardinality(SlotsOf(pool, id))

(* As long as only the youngest record was ever deleted, numbers are       *)
(* unique, a start finds every record, and the objects are the records.    *)
(* Any other deletion leaves a hole: the start misses the last record      *)
(* (mach/fte_common.c:2188), and FTE_CFG_OBJ_create:823 and                *)
(* FTE_DS18B20_create:79 give a number again.                              *)
ObjectsAreRecords ==
  ~hist.gap /\ ~hist.gone => live = SubSeq(pool.rec, 1, pool.count)

(* A sensor has one record, however often the bus is searched and the node *)
(* restarted, unless the shell attached it unseen or SNMP destroyed its    *)
(* object: FTE_DS18B20_isExistROMCode asks the objects, not the records.   *)
OneRecordEach ==
  ~hist.gap /\ ~hist.twice =>
    \A i, j \in Used(pool) : pool.rec[i].rom = pool.rec[j].rom /\ pool.rec[i].rom # 0 => i = j
=============================================================================
