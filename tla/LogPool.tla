------------------------------ MODULE LogPool ------------------------------
(***************************************************************************)
(* The node's log (fte_log.c): a ring of entries in RAM, written as a      *)
(* whole to one of two flash sectors.  The main task saves it when         *)
(* bPoolModified is set; the event task adds entries, the shell deletes    *)
(* the oldest ones.  A boot reads the sector log0 only.                    *)
(*                                                                         *)
(* An entry is the number under which it was logged.  A pool image whose   *)
(* tag or checksum is wrong is Empty, the zeroed pool, serial number 0.    *)
(***************************************************************************)
EXTENDS Naturals, Sequences

CONSTANTS
  MAX_LOG_COUNT,  \* cells of the ring
  MaxEvents,      \* bound: events logged
  MaxDels,        \* bound: deletions
  MaxFaults,      \* bound: failing flash accesses
  MaxCrashes      \* bound: resets and power failures

ASSUME LogAssumption ==
  /\ MAX_LOG_COUNT \in Nat \ {0}
  /\ MaxEvents \in Nat
  /\ MaxDels \in Nat
  /\ MaxFaults \in Nat
  /\ MaxCrashes \in Nat

VARIABLES
  xPool,          \* the pool in RAM
  flash,          \* flash[k]: the image in sector "flashx:logk"
  bPoolModified,
  main,           \* the main task: off, or where it is in FTE_LOG_save
  logged,         \* entries logged so far
  left,           \* what remains of the bounds
  (* History, read by no action's guard: *)
  excused,        \* RAM differs from the last image without the flag
  missed,         \* a sector was not written since log0 was
  deleted,        \* entries deleted from the log
  settled         \* those of them an FTE_LOG_save has found nothing to do about

history == <<excused, missed, deleted, settled>>
vars == <<xPool, flash, bPoolModified, main, logged, left, history>>

Cells == 0 .. MAX_LOG_COUNT - 1
Entry == 1 .. MaxEvents + MaxCrashes + 1   \* each boot logs one too
Pool  == [ulID : Nat, ulCount : Nat, ulHead : Cells, ulTail : Cells,
          pLogs : [Cells -> Entry \cup {0}]]
Empty == [ulID |-> 0, ulCount |-> 0, ulHead |-> 0, ulTail |-> 0,
          pLogs |-> [c \in Cells |-> 0]]
Budget == {"event", "del", "fault", "crash"}

(* "boot...": in FTE_CFG_init, "loop": in the main loop.  "...Save": about *)
(* to save, "...rite": in FTE_LOG_save with the lock, "...lag": the lock   *)
(* given back, the flag not yet reset.                                     *)
MainStates == {"off", "bootSave", "bootWrite", "bootFlag", "boot",
               "loop", "write", "flag"}
Locked == main \in {"bootWrite", "write"}

(* FTE_LOG_getAt for every index: the entries, oldest first. *)
Entries(pool) ==
  [i \in 1 .. pool.ulCount |-> pool.pLogs[(pool.ulHead + i - 1) % MAX_LOG_COUNT]]

Logged(pool) == {Entries(pool)[i] : i \in 1 .. pool.ulCount}

TypeOK ==
  /\ xPool \in Pool
  /\ flash \in [{0, 1} -> Pool]
  /\ bPoolModified \in BOOLEAN
  /\ main \in MainStates
  /\ logged \in Entry \cup {0}
  /\ left \in [Budget -> Nat]
  /\ excused \in BOOLEAN
  /\ missed \in BOOLEAN
  /\ deleted \subseteq Entry \cup {0}
  /\ settled \subseteq deleted

Init ==
  /\ xPool = Empty
  /\ flash = [k \in {0, 1} |-> Empty]
  /\ bPoolModified = FALSE
  /\ main = "off"
  /\ logged = 0
  /\ left = [b \in Budget |-> CASE b = "event" -> MaxEvents
                                [] b = "del"   -> MaxDels
                                [] b = "fault" -> MaxFaults
                                [] b = "crash" -> MaxCrashes]
  /\ excused = FALSE
  /\ missed = FALSE
  /\ deleted = {}
  /\ settled = {}

Spend(b) == left[b] > 0 /\ left' = [left EXCEPT ![b] = @ - 1]

-----------------------------------------------------------------------------
(* FTE_LOG_init: read log0; without a valid image save an empty pool.      *)
FTE_LOG_init ==
  /\ main = "off"
  /\ xPool' = flash[0]
  /\ bPoolModified' = (flash[0].ulID = 0)
  /\ main' = IF flash[0].ulID = 0 THEN "bootSave" ELSE "boot"
  /\ excused' = FALSE
  /\ missed' = FALSE
  /\ UNCHANGED <<flash, logged, left, deleted, settled>>

Crash ==
  /\ main # "off"
  /\ Spend("crash")
  /\ main' = "off"
  /\ xPool' = Empty
  /\ bPoolModified' = FALSE
  /\ UNCHANGED <<flash, logged, history>>

-----------------------------------------------------------------------------
(* Mutant: the tail wraps one cell too late. *)
Pushed_Outside(pool, e) ==
  LET full == pool.ulCount + 1 >= MAX_LOG_COUNT IN
  [pool EXCEPT
     !.pLogs[pool.ulTail] = e,
     !.ulTail  = (@ + 1) % (MAX_LOG_COUNT + 1),
     !.ulHead  = IF full THEN (@ + 1) % MAX_LOG_COUNT ELSE @,
     !.ulCount = IF full THEN MAX_LOG_COUNT - 1 ELSE @ + 1]

(* Mutant: the head stays when the ring is full. *)
Pushed_NoDrop(pool, e) ==
  LET full == pool.ulCount + 1 >= MAX_LOG_COUNT IN
  [pool EXCEPT
     !.pLogs[pool.ulTail] = e,
     !.ulTail  = (@ + 1) % MAX_LOG_COUNT,
     !.ulCount = IF full THEN MAX_LOG_COUNT - 1 ELSE @ + 1]

(* The ring with one entry more; the oldest one makes room. *)
Pushed(pool, e) ==
  LET full == pool.ulCount + 1 >= MAX_LOG_COUNT IN
  [pool EXCEPT
     !.pLogs[pool.ulTail] = e,
     !.ulTail  = (@ + 1) % MAX_LOG_COUNT,
     !.ulHead  = IF full THEN (@ + 1) % MAX_LOG_COUNT ELSE @,
     !.ulCount = IF full THEN MAX_LOG_COUNT - 1 ELSE @ + 1]

(* Mutant: the entry does not set the flag. *)
Add_Unflagged ==
  /\ logged' = logged + 1
  /\ xPool' = Pushed(xPool, logged + 1)
  /\ UNCHANGED <<flash, bPoolModified, missed, deleted, settled>>

(* FTE_LOG_addSystem and FTE_LOG_addEvent: an entry and the flag. *)
Add ==
  /\ logged' = logged + 1
  /\ xPool' = Pushed(xPool, logged + 1)
  /\ bPoolModified' = TRUE
  /\ UNCHANGED <<flash, missed, deleted, settled>>

(* The boot entry, before any other task runs. *)
FTE_LOG_addSystem ==
  /\ main = "boot"
  /\ Add
  /\ main' = "loop"
  /\ UNCHANGED <<left, excused>>

(* FTE_EVENT_process: it may find the lock free before the flag is reset. *)
FTE_LOG_addEvent ==
  /\ main \in {"loop", "flag"}
  /\ Spend("event")
  /\ Add
  /\ excused' = (excused \/ main = "flag")
  /\ UNCHANGED main

(* The oldest n entries go; the flag is not set. *)
FTE_LOG_del(n) ==
  /\ main \in {"loop", "flag"}
  /\ Spend("del")
  /\ xPool' = IF n >= xPool.ulCount
                THEN [xPool EXCEPT !.ulHead = xPool.ulTail, !.ulCount = 0]
                ELSE [xPool EXCEPT !.ulHead = (@ + n) % MAX_LOG_COUNT,
                                   !.ulCount = @ - n]
  /\ excused' = TRUE
  /\ deleted' = deleted \cup (Logged(xPool) \ Logged(xPool'))
  /\ UNCHANGED <<flash, bPoolModified, main, logged, missed, settled>>

-----------------------------------------------------------------------------
(* Mutant: the wrong bit of the serial number chooses the sector. *)
Sector_WrongBit(id) == (id \div 2) % 2

(* The sector that the next save goes to. *)
Sector(id) == id % 2

(* FTE_LOG_save finds the flag set and takes the lock. *)
Selected == main = "bootSave" \/ (main = "loop" /\ bPoolModified)

Renumbered == [xPool EXCEPT !.ulID = @ + 1]

(* The sector is opened and is being rewritten. *)
Open ==
  /\ Selected
  /\ main' = IF main = "loop" THEN "write" ELSE "bootWrite"
  /\ xPool' = Renumbered
  /\ flash' = [flash EXCEPT ![Sector(xPool'.ulID)] = Empty]
  /\ UNCHANGED <<bPoolModified, logged, left, history>>

(* fopen fails: FTE_LOG_save goes on as if it had written. *)
OpenFails ==
  /\ Selected
  /\ Spend("fault")
  /\ main' = IF main = "loop" THEN "flag" ELSE "bootFlag"
  /\ xPool' = Renumbered
  /\ excused' = TRUE
  /\ missed' = TRUE
  /\ UNCHANGED <<flash, bPoolModified, logged, deleted, settled>>

(* The lock is given back. *)
Unlock == main' = IF main = "write" THEN "flag" ELSE "bootFlag"

Write ==
  /\ Locked
  /\ Unlock
  /\ flash' = [flash EXCEPT ![Sector(xPool.ulID)] = xPool]
  /\ excused' = FALSE
  /\ missed' = (missed /\ Sector(xPool.ulID) # 0)
  /\ UNCHANGED <<xPool, bPoolModified, logged, left, deleted, settled>>

(* write() fails: a message is printed, FTE_LOG_save goes on. *)
WriteFails ==
  /\ Locked
  /\ Spend("fault")
  /\ Unlock
  /\ excused' = TRUE
  /\ missed' = TRUE
  /\ UNCHANGED <<xPool, flash, bPoolModified, logged, deleted, settled>>

ResetFlag ==
  /\ main \in {"flag", "bootFlag"}
  /\ main' = IF main = "flag" THEN "loop" ELSE "boot"
  /\ bPoolModified' = FALSE
  /\ UNCHANGED <<xPool, flash, logged, left, history>>

(* FTE_LOG_save finds the flag FALSE and returns. *)
NothingToSave ==
  /\ main = "loop" /\ ~bPoolModified
  /\ settled' = deleted
  /\ UNCHANGED <<xPool, flash, bPoolModified, main, logged, left, excused, missed, deleted>>

-----------------------------------------------------------------------------
FTE_LOG_save == Open \/ Write \/ ResetFlag \/ NothingToSave

Next ==
  \/ FTE_LOG_init
  \/ Crash
  \/ FTE_LOG_addSystem
  \/ FTE_LOG_addEvent
  \/ \E n \in 1 .. MAX_LOG_COUNT : FTE_LOG_del(n)
  \/ FTE_LOG_save
  \/ OpenFails
  \/ WriteFails

Spec == Init /\ [][Next]_vars

(* The node is started again, its boot goes on, and the main task comes    *)
(* round to FTE_LOG_save and through it.                                   *)
Fairness ==
  /\ WF_vars(FTE_LOG_init)
  /\ WF_vars(FTE_LOG_addSystem)
  /\ WF_vars(FTE_LOG_save)

FairSpec == Spec /\ Fairness

-----------------------------------------------------------------------------
(* The ring arithmetic of FTE_LOG_addSystem, addEvent and del, and the     *)
(* saves, implement a bounded log, oldest entry first, that a restart      *)
(* brings back as it was at an earlier save or empty.                      *)
Abstract == INSTANCE BoundedLog WITH
  Cap <- MAX_LOG_COUNT - 1,
  log <- Entries(xPool), saved <- Entries(flash[0]), up <- main # "off"
IsBoundedLog == Abstract!Spec

(* FTE_LOG_save may rest only when the newest image on flash is what is in *)
(* RAM: exempt are an entry that came in between its unlocking and its     *)
(* resetting of the flag, a deletion and a failed flash access.            *)
CleanLogIsSaved ==
  main = "loop" /\ ~bPoolModified /\ ~excused =>
    flash[Sector(xPool.ulID)] = xPool

(* Only every other save can be read back by FTE_LOG_init: while the node  *)
(* runs, log0 is at most one save behind, unless a flash access failed.    *)
OneSaveBehind ==
  main \in {"loop", "flag"} /\ ~missed /\ xPool.ulID > 1 =>
    flash[0].ulID \in {xPool.ulID, xPool.ulID - 1}

(* An entry that FTE_LOG_addEvent has taken gets to one of the sectors, if *)
(* it is not displaced or deleted before, and the flag is not lost.        *)
EntriesReachFlash ==
  \A e \in Entry :
    e \in Logged(xPool)
      ~> \/ e \notin Logged(xPool)
         \/ e \in Logged(flash[0]) \cup Logged(flash[1])
         \/ excused

(* The shell's help says of "del": "Delete the oldest n logs."  Once       *)
(* FTE_LOG_save has come round after it, no restart brings them back.      *)
DeletedStayDeleted == settled \cap Logged(xPool) = {}
=============================================================================
