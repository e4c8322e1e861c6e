---------------------------- MODULE ConfigStore ----------------------------
(***************************************************************************)
(* The persistent configuration of the edge node (fte_config.c).           *)
(*                                                                         *)
(* _config holds pools (main, objects, events, extensions), each with a    *)
(* serial number nID, a "modified" flag and two flash slots.  A save       *)
(* writes a modified pool twice, to the slot nID & 1 each time; a boot     *)
(* takes of the two slots the valid one with the higher nID.  The power    *)
(* may fail between any two steps, a flash open or a write may fail, and   *)
(* a factory reset clears the pools piecewise and restarts nID at 0.       *)
(*                                                                         *)
(* A pool's content is one abstract value; a slot whose checksum does not  *)
(* match (blank, or torn by a power failure) is NoSlot, serial number 0.   *)
(***************************************************************************)
EXTENDS Naturals

CONSTANTS
  NumPools,   \* pools 1 .. NumPools in the order FTE_CFG_save writes them
  Seeded,     \* the pools whose defaults set the modified flag
  Vals,       \* contents a user can configure
  Default,    \* the product's factory content
  Blank,      \* a pool whose defaults are not all in place
  MaxEdits,   \* bound: configuration changes
  MaxForces,  \* bound: saves requested from the shell, SNMP, CGI
  MaxClears,  \* bound: factory resets
  MaxFaults,  \* bound: failing flash accesses
  MaxCrashes  \* bound: power failures and resets

Main     == 1
Pools    == 1 .. NumPools
Contents == Vals \cup {Default, Blank}

ASSUME PoolAssumption ==
  /\ NumPools \in Nat \ {0}
  /\ Seeded \subseteq Pools
  /\ Main \in Seeded
ASSUME ContentAssumption ==
  /\ Default \notin Vals
  /\ Blank \notin Vals \cup {Default}
ASSUME BoundAssumption ==
  /\ MaxEdits \in Nat
  /\ MaxForces \in Nat
  /\ MaxClears \in Nat
  /\ MaxFaults \in Nat
  /\ MaxCrashes \in Nat

VARIABLES
  up,        \* the node is powered and past FTE_CFG_init's loading
  slot,      \* slot[p][k]: the flash partition pMTDs[2 * (p - 1) + k]
  id,        \* id[p]: nID of the pool in RAM
  val,       \* val[p]: content of the pool in RAM
  crc,       \* the content the main pool's ulCRC was computed over
  dirty,     \* the pools whose modified flag is TRUE
  save,      \* the FTE_CFG_save that holds the lock, if one does
  clear,     \* progress of FTE_CFG_clear, 0 when none runs
  left,      \* what remains of the bounds
  (* History, read by no action's guard: *)
  faulted,   \* pools with a failed write and no complete save since
  unflagged, \* pools changed without their flag since their last save
  overlap    \* a save wrote a pool in the middle of a factory reset

flashVars   == <<slot>>
ramVars     == <<id, val, crc, dirty>>
historyVars == <<faulted, unflagged, overlap>>
vars == <<up, slot, id, val, crc, dirty, save, clear, left, historyVars>>

-----------------------------------------------------------------------------
Slot   == [id : Nat, val : Contents]
NoSlot == [id |-> 0, val |-> Blank]
Budget == {"edit", "force", "clear", "fault", "crash"}

(* pool: the pool being looked at; first: what became of the first of its  *)
(* two writes; phase "write": a sector of it is being written.             *)
SaveStates == [phase : {"none", "next", "write"}, pool : 1 .. NumPools + 1,
               first : {"todo", "done", "missed"}, mode : {"modified", "force"}]
NoSave == [phase |-> "none", pool |-> Main, first |-> "todo", mode |-> "modified"]

TypeOK ==
  /\ up \in BOOLEAN
  /\ slot \in [Pools -> [{0, 1} -> Slot]]
  /\ id \in [Pools -> Nat]
  /\ val \in [Pools -> Contents]
  /\ crc \in Contents
  /\ dirty \subseteq Pools
  /\ save \in SaveStates
  /\ clear \in 0 .. NumPools + 2
  /\ left \in [Budget -> Nat]
  /\ faulted \subseteq Pools
  /\ unflagged \subseteq Pools
  /\ overlap \in BOOLEAN

-----------------------------------------------------------------------------
(* Loading: slot 0 first, then slot 1 if it is valid and newer. *)
Newer(s, t) == IF s.id > t.id THEN s ELSE t

Best(pair) == Newer(pair[1], Newer(pair[0], NoSlot))

Load(p) == Best(slot[p])

(* The main pool gates the others: if it cannot be loaded, they are not read. *)
Loaded(p) == IF Load(Main).id = 0 THEN NoSlot ELSE Load(p)

(* The content a boot gives p, now that the flash is as it is. *)
Recovered(p) == IF Loaded(p).id = 0 THEN Default ELSE Loaded(p).val

(* FTE_CFG_clear restarts nID at 0, so that slot 1 is written first: only  *)
(* if slot 0 carries what a boot would load is nothing lost on the way.    *)
ResetIsSafe(p) ==
  \/ Load(p).id = 0
  \/ slot[p][0].id > 0 /\ slot[p][0].val = Load(p).val

-----------------------------------------------------------------------------
Init ==
  /\ up = FALSE
  /\ slot = [p \in Pools |-> [k \in {0, 1} |-> NoSlot]]
  /\ id = [p \in Pools |-> 0]
  /\ val = [p \in Pools |-> Blank]
  /\ crc = Blank
  /\ dirty = {}
  /\ save = NoSave
  /\ clear = 0
  /\ left = [b \in Budget |->
               CASE b = "edit"  -> MaxEdits
                 [] b = "force" -> MaxForces
                 [] b = "clear" -> MaxClears
                 [] b = "fault" -> MaxFaults
                 [] b = "crash" -> MaxCrashes]
  /\ faulted = {}
  /\ unflagged = {}
  /\ overlap = FALSE

Spend(b) == left[b] > 0 /\ left' = [left EXCEPT ![b] = @ - 1]

(* Interrupts are off and the lock is held while a save runs. *)
Unlocked == up /\ save.phase = "none"

StartSave(m) == save' = [NoSave EXCEPT !.phase = "next", !.mode = m]

(***************************************************************************)
(* FTE_CFG_init: load the pools, install the defaults of the missing ones, *)
(* and save what the defaults modified.  If the main pool is lost, the     *)
(* other pools restart at nID 0 over slots that still carry old contents.  *)
(***************************************************************************)
Boot ==
  /\ ~up
  /\ up' = TRUE
  /\ id' = [p \in Pools |-> Loaded(p).id]
  /\ val' = [p \in Pools |-> Recovered(p)]
  /\ crc' = IF Loaded(Main).id = 0 THEN Blank ELSE Loaded(Main).val
  /\ dirty' = {p \in Seeded : Loaded(p).id = 0}
  /\ StartSave("modified")
  /\ faulted' = faulted \cup {p \in Pools : Loaded(p).id # Load(p).id}
  /\ unflagged' = {}
  /\ UNCHANGED <<slot, clear, left, overlap>>

(* Power failure, watchdog or reset: whatever ran is gone, flash remains. *)
Crash ==
  /\ up
  /\ Spend("crash")
  /\ up' = FALSE
  /\ id' = [p \in Pools |-> 0]
  /\ val' = [p \in Pools |-> Blank]
  /\ crc' = Blank
  /\ dirty' = {}
  /\ save' = NoSave
  /\ clear' = 0
  /\ unflagged' = {}
  /\ UNCHANGED <<slot, faulted, overlap>>

-----------------------------------------------------------------------------
(* Changing a field of a pool that is being reset leaves it incomplete. *)
Edited(c, v) == IF c = Blank THEN Blank ELSE v

(* The setters: content and modified flag. *)
Set(p, v) ==
  /\ Unlocked
  /\ Spend("edit")
  /\ val' = [val EXCEPT ![p] = Edited(@, v)]
  /\ dirty' = dirty \cup {p}
  /\ UNCHANGED <<up, slot, id, crc, save, clear, historyVars>>

(* FTE_CFG_OBJ_free, FTE_CFG_EVENT_alloc, FTE_CFG_EVENT_free and the      *)
(* writes through FTE_CFG_NET_get's pointer: content without the flag.    *)
SetUnflagged(p, v) ==
  /\ Unlocked
  /\ Spend("edit")
  /\ val' = [val EXCEPT ![p] = Edited(@, v)]
  /\ unflagged' = unflagged \cup {p}
  /\ UNCHANGED <<up, slot, id, crc, dirty, save, clear, faulted, overlap>>

(* Mutant: only the main pool's flag makes the main task save. *)
MainTaskSave_MainOnly ==
  /\ Unlocked
  /\ Main \in dirty
  /\ StartSave("modified")
  /\ UNCHANGED <<up, slot, ramVars, clear, left, historyVars>>

-----------------------------------------------------------------------------
(* The main task's loop: FTE_CFG_save(FALSE). *)
MainTaskSave ==
  /\ Unlocked
  /\ StartSave("modified")
  /\ UNCHANGED <<up, slot, ramVars, clear, left, historyVars>>

(* FTE_CFG_autoSave looks at the main pool's flag only. *)
AutoSave ==
  /\ Unlocked
  /\ Main \in dirty
  /\ StartSave("modified")
  /\ UNCHANGED <<up, slot, ramVars, clear, left, historyVars>>

(* FTE_CFG_save(TRUE) from SNMP or from an object, event or MQTT command. *)
ForceSave ==
  /\ Unlocked
  /\ Spend("force")
  /\ StartSave("force")
  /\ UNCHANGED <<up, slot, ramVars, clear, historyVars>>

(* The shell's "cfg save" and "save" (forced): take over the running IP   *)
(* address and let the checksum tell whether the main pool was changed    *)
(* behind its flag.                                                       *)
ShellSave(v, m) ==
  /\ Unlocked
  /\ Spend("force")
  /\ val' = [val EXCEPT ![Main] = Edited(@, v)]
  /\ dirty' = IF v # val[Main] \/ val'[Main] # crc THEN dirty \cup {Main} ELSE dirty
  /\ StartSave(m)
  /\ UNCHANGED <<up, slot, id, crc, clear, historyVars>>

-----------------------------------------------------------------------------
(***************************************************************************)
(* FTE_CFG_save, one step per flash access.                                *)
(***************************************************************************)
Saving(p) == up /\ save.phase # "none" /\ save.pool = p

(* "force" or the pool's modified flag, looked at before the first write. *)
Chosen(p) == save.mode = "force" \/ p \in dirty

SkipPool(p) ==
  /\ Saving(p) /\ save.phase = "next" /\ save.first = "todo"
  /\ ~Chosen(p)
  /\ save' = [save EXCEPT !.pool = @ + 1]
  /\ UNCHANGED <<up, slot, ramVars, clear, left, historyVars>>

Selected(p) ==
  /\ Saving(p) /\ save.phase = "next"
  /\ save.first = "todo" => Chosen(p)

(* Mutant: the serial number moves on by two, and to the same slot again. *)
Stamp_Twice(p) ==
  /\ id' = [id EXCEPT ![p] = @ + 2]
  /\ crc' = IF p = Main THEN val[Main] ELSE crc

(* nID++ and the checksum, which every write starts with. *)
Stamp(p) ==
  /\ id' = [id EXCEPT ![p] = @ + 1]
  /\ crc' = IF p = Main THEN val[Main] ELSE crc

(* Mutant: one pool's save resets all flags. *)
AfterSecond_AllFlags(p, res) ==
  /\ save' = [save EXCEPT !.pool = @ + 1, !.first = "todo", !.phase = "next"]
  /\ dirty' = {}
  /\ unflagged' = unflagged \ {p}
  /\ faulted' = IF res = "done" /\ save.first = "done"
                   THEN faulted \ {p}
                   ELSE faulted \cup {p}

(* The first write is over. *)
AfterFirst(p, res) ==
  /\ save' = [save EXCEPT !.first = res, !.phase = "next"]
  /\ faulted' = IF res = "done" THEN faulted ELSE faulted \cup {p}
  /\ UNCHANGED <<dirty, unflagged>>

(* The second write is over: the flag is reset, the next pool is looked at. *)
AfterSecond(p, res) ==
  /\ save' = [save EXCEPT !.pool = @ + 1, !.first = "todo", !.phase = "next"]
  /\ dirty' = dirty \ {p}
  /\ unflagged' = unflagged \ {p}
  /\ faulted' = IF res = "done" /\ save.first = "done"
                   THEN faulted \ {p}
                   ELSE faulted \cup {p}

AfterWrite(p, res) ==
  \/ save.first = "todo" /\ AfterFirst(p, res)
  \/ save.first # "todo" /\ AfterSecond(p, res)

(* fopen succeeds and the sector is being rewritten. *)
BeginWrite(p) ==
  /\ Selected(p)
  /\ Stamp(p)
  /\ slot' = [slot EXCEPT ![p][id'[p] % 2] = NoSlot]
  /\ save' = [save EXCEPT !.phase = "write"]
  /\ overlap' = (overlap \/ clear # 0)
  /\ UNCHANGED <<up, val, dirty, clear, left, faulted, unflagged>>

(* A pool other than the main one waits for its ulTag while a reset has    *)
(* not come to it; when the reset is at it, the tag may be there or not.   *)
TagMissing(p) == p # Main /\ clear \in 1 .. p
TagMayMiss(p) == p # Main /\ clear \in 1 .. p + 1

EndWrite(p) ==
  /\ Saving(p) /\ save.phase = "write"
  /\ ~TagMissing(p)
  /\ slot' = [slot EXCEPT ![p][id[p] % 2] = [id |-> id[p], val |-> val[p]]]
  /\ AfterWrite(p, "done")
  /\ UNCHANGED <<up, id, val, crc, clear, left, overlap>>

(* An image without its tag is written; no boot will take it for valid. *)
WriteUntagged(p) ==
  /\ Saving(p) /\ save.phase = "write"
  /\ TagMayMiss(p)
  /\ AfterWrite(p, "missed")
  /\ UNCHANGED <<up, slot, id, val, crc, clear, left, overlap>>

(* fopen fails: this write is passed over without a word. *)
OpenFails(p) ==
  /\ Selected(p)
  /\ Spend("fault")
  /\ Stamp(p)
  /\ AfterWrite(p, "missed")
  /\ UNCHANGED <<up, slot, val, clear, overlap>>

(* "goto error": the rest of the save is dropped, flags stay as they are. *)
AbortSave(p) ==
  /\ save' = NoSave
  /\ faulted' = faulted \cup {p} \cup
                  (IF save.mode = "force" THEN {q \in Pools : q > p} ELSE {})

(* write() refuses before it has touched the sector. *)
WriteRefused(p) ==
  /\ Selected(p)
  /\ Spend("fault")
  /\ Stamp(p)
  /\ AbortSave(p)
  /\ UNCHANGED <<up, slot, val, dirty, clear, unflagged, overlap>>

(* write() fails with the sector half written. *)
WriteFails(p) ==
  /\ Saving(p) /\ save.phase = "write"
  /\ Spend("fault")
  /\ AbortSave(p)
  /\ UNCHANGED <<up, slot, ramVars, clear, unflagged, overlap>>

EndSave ==
  /\ Saving(NumPools + 1)
  /\ save' = NoSave
  /\ UNCHANGED <<up, slot, ramVars, clear, left, historyVars>>

-----------------------------------------------------------------------------
(***************************************************************************)
(* FTE_CFG_clear (all pools) and FTE_CFG_clearObject (all but the main     *)
(* one).  The lock is given back between the pieces.                       *)
(***************************************************************************)
ClearPools(S) ==
  /\ Unlocked /\ clear = 0
  /\ Spend("clear")
  /\ id' = [p \in Pools |-> IF p \in S THEN 0 ELSE id[p]]
  /\ val' = [p \in Pools |-> IF p \in S THEN Blank ELSE val[p]]
  /\ clear' = 1
  /\ faulted' = faulted \cup {p \in S : ~ResetIsSafe(p)}
  /\ UNCHANGED <<up, slot, crc, dirty, save, unflagged, overlap>>

FTE_CFG_clear       == ClearPools(Pools)
FTE_CFG_clearObject == ClearPools(Pools \ {Main})

(* Mutant: the reset saves before the defaults are in place. *)
ClearMainPart_SaveFirst ==
  /\ Unlocked /\ clear = 1
  /\ val' \in {[val EXCEPT ![Main] = Edited(@, v)] : v \in Vals}
  /\ dirty' = dirty \cup {Main}
  /\ clear' = NumPools + 2
  /\ UNCHANGED <<up, slot, id, crc, save, left, historyVars>>

(* FTE_CFG_SYS_set and FTE_CFG_SHELL_set: part of the main pool. *)
ClearMainPart ==
  /\ Unlocked /\ clear = 1
  /\ val' \in {[val EXCEPT ![Main] = Edited(@, v)] : v \in Vals}
  /\ dirty' = dirty \cup {Main}
  /\ clear' = 2
  /\ UNCHANGED <<up, slot, id, crc, save, left, historyVars>>

(* The rest of a pool's defaults; pool clear - 1 is next. *)
ClearInstall ==
  /\ Unlocked /\ clear \in 2 .. NumPools + 1
  /\ val' = [val EXCEPT ![clear - 1] = Default]
  /\ dirty' = dirty \cup ({clear - 1} \cap Seeded)
  /\ clear' = clear + 1
  /\ UNCHANGED <<up, slot, id, crc, save, left, historyVars>>

ClearSave ==
  /\ Unlocked /\ clear = NumPools + 2
  /\ StartSave("force")
  /\ clear' = 0
  /\ UNCHANGED <<up, slot, ramVars, left, historyVars>>

-----------------------------------------------------------------------------
SaveStep(p) ==
  \/ SkipPool(p)
  \/ BeginWrite(p)
  \/ EndWrite(p)

Next ==
  \/ Boot
  \/ Crash
  \/ \E p \in Pools, v \in Vals : Set(p, v) \/ SetUnflagged(p, v)
  \/ MainTaskSave
  \/ AutoSave
  \/ ForceSave
  \/ \E v \in Vals \cup {val[Main]}, m \in {"modified", "force"} :
       ShellSave(v, m)
  \/ \E p \in Pools : SaveStep(p)
  \/ \E p \in Pools : \/ WriteUntagged(p) \/ OpenFails(p)
                      \/ WriteRefused(p) \/ WriteFails(p)
  \/ EndSave
  \/ FTE_CFG_clear
  \/ FTE_CFG_clearObject
  \/ ClearMainPart
  \/ ClearInstall
  \/ ClearSave

Spec == Init /\ [][Next]_vars

(***************************************************************************)
(* The main task comes round to FTE_CFG_save again and again, a save that  *)
(* runs and a reset that runs finish unless the power fails, and a node    *)
(* that is down is started again.                                          *)
(***************************************************************************)
Fairness ==
  /\ WF_vars(Boot)
  /\ WF_vars(MainTaskSave)
  /\ \A p \in Pools : WF_vars(SaveStep(p) \/ WriteUntagged(p))
  /\ WF_vars(EndSave)
  /\ WF_vars(ClearMainPart)
  /\ WF_vars(ClearInstall)
  /\ WF_vars(ClearSave)

FairSpec == Spec /\ Fairness

-----------------------------------------------------------------------------
(***************************************************************************)
(* The two-slot scheme of FTE_CFG_save and FTE_CFG_init implements one     *)
(* durable register per pool: at whatever instant the power fails, a boot  *)
(* brings back the content before the save or the one being saved, never   *)
(* an older one and never none, unless a flash access has failed.          *)
(***************************************************************************)
Store == INSTANCE AtomicStore WITH
  mem <- val, durable <- [p \in Pools |-> Recovered(p)]
IsAtomicStore == Store!Spec

(* When FTE_CFG_save has left a pool's modified flag FALSE, a reboot gives *)
(* the pool the content it has in RAM: nobody's change is forgotten, if    *)
(* every change raises the flag and no flash access failed.                *)
CleanMeansSaved ==
  Unlocked /\ clear = 0 =>
    \A p \in Pools :
      p \notin dirty \cup unflagged \cup faulted /\ Main \notin faulted
        => Recovered(p) = val[p]

(* A power failure in the middle of FTE_CFG_clear never leaves a half      *)
(* reset pool to boot from, unless another task's FTE_CFG_save ran in the  *)
(* gaps where FTE_CFG_clear gives the lock back.                           *)
WholeUnlessOverlap ==
  ~overlap => \A p \in Pools : Recovered(p) # Blank

(* A flagged change of a pool reaches flash by the main task's periodic    *)
(* FTE_CFG_save, unless it is overwritten, the power fails first or a      *)
(* flash access fails.                                                     *)
ChangesReachFlash ==
  \A p \in Pools, v \in Vals :
    up /\ p \in dirty /\ val[p] = v
      ~> \/ Recovered(p) = v
         \/ val[p] # v
         \/ {p, Main} \cap faulted # {}

-----------------------------------------------------------------------------
(***************************************************************************)
(* The inductive invariant behind the two invariants and the refinement.   *)
(***************************************************************************)
Content(p) == IF Load(p).id = 0 THEN Default ELSE Load(p).val

(* The other slot of the pair. *)
Other(k) == 1 - k

(* Slot k of p holds the content in RAM under the serial number n. *)
Stored(p, k, n) == slot[p][k] = [id |-> n, val |-> val[p]]

(* A slot takes only serial numbers of its own parity. *)
Parity ==
  \A p \in Pools, k \in {0, 1} : slot[p][k].id > 0 => slot[p][k].id % 2 = k

Quiescence ==
  /\ save.phase # "none" => up
  /\ save.phase = "none" => save = NoSave
  /\ clear # 0 => up
  /\ save.phase = "write" \/ save.first # "todo" =>
       save.pool \in Pools /\ Chosen(save.pool)
  /\ save.first = "missed" => save.pool \in faulted

(* The save of p has changed its slots, or is about to. *)
InSave(p) == save.pool = p /\ (save.first # "todo" \/ save.phase = "write")

(* Between saves the next write hits the slot that is not the current one. *)
Aligned ==
  \A p \in Pools \ faulted :
    up /\ ~InSave(p) =>
      id[p] = Load(p).id \/ (id[p] = 0 /\ ResetIsSafe(p))

(* The first write of p is under way: the other slot has the old content. *)
FirstWrite ==
  \A p \in Pools :
    InSave(p) /\ save.first = "todo" =>
      /\ id[p] > 0
      /\ slot[p][id[p] % 2].id = 0
      /\ p \notin faulted =>
           id[p] = 1 \/ slot[p][Other(id[p] % 2)].id = id[p] - 1

(* The first write is done; the slot to be written next is the older one,  *)
(* or a reset has restarted the serial number at 1.                        *)
Between ==
  \A p \in Pools :
    InSave(p) /\ save.first # "todo" /\ save.phase = "next" =>
      /\ id[p] > 0
      /\ save.first = "done" => Stored(p, id[p] % 2, id[p])
      /\ p \notin faulted =>
           id[p] = 1 \/ slot[p][Other(id[p] % 2)].id < id[p]

SecondWrite ==
  \A p \in Pools :
    InSave(p) /\ save.first # "todo" /\ save.phase = "write" =>
      /\ id[p] > 1
      /\ slot[p][id[p] % 2].id = 0
      /\ save.first = "done" => Stored(p, Other(id[p] % 2), id[p] - 1)

(* While the main pool is not on flash, no other pool is. *)
Gate ==
  Main \notin faulted /\ Load(Main).id = 0 =>
    /\ \A p \in Pools \ faulted : Load(p).id = 0
    /\ up => Main \in dirty
    /\ save.pool = Main

(* The pools a forced save still has to write. *)
Owed(p) == save.phase # "none" /\ save.mode = "force" /\ save.pool <= p

Clean ==
  \A p \in Pools \ (dirty \cup unflagged \cup faulted) :
    up /\ clear = 0 /\ ~Owed(p) => Content(p) = val[p]

Whole ==
  /\ ~overlap => \A p \in Pools, k \in {0, 1} :
                   slot[p][k].id > 0 => slot[p][k].val # Blank
  /\ ~overlap /\ up /\ clear = 0 => \A p \in Pools : val[p] # Blank
  /\ ~overlap /\ save.phase = "write" => clear = 0
  /\ \A p \in Pools : p < clear - 1 => val[p] # Blank

Shape ==
  /\ Parity
  /\ Quiescence
  /\ Aligned
  /\ FirstWrite
  /\ Between
  /\ SecondWrite
  /\ Gate
  /\ Clean
  /\ Whole

IInv == TypeOK /\ Shape
=============================================================================
