------------------------- MODULE ConfigStoreProofs -------------------------
(***************************************************************************)
(* Proofs about ConfigStore, for every number of pools, every set of       *)
(* contents and every bound on edits, faults, resets and crashes.          *)
(*                                                                         *)
(* The types come first.  Shape, the inductive part, is then preserved by  *)
(* each action in a lemma of its own (StartStep ... ClearSaveStep), which  *)
(* InductiveStep puts together.  The two invariants follow from it, and    *)
(* the refinement of AtomicStore is shown step by step under it.           *)
(***************************************************************************)
EXTENDS ConfigStore, TLAPS

(* The serial number chooses the slot by its parity. *)
LEMMA ParityFacts ==
  ASSUME NEW n \in Nat
  PROVE  /\ n % 2 \in {0, 1}
         /\ (n + 1) % 2 = 1 - (n % 2)
         /\ (n + 2) % 2 = n % 2
         /\ n > 0 => (n - 1) % 2 = 1 - (n % 2)
  OBVIOUS

(* The node before its first boot has the types of TypeOK. *)
LEMMA InitTypeOK == Init => TypeOK
  <1> SUFFICES ASSUME Init PROVE TypeOK
    OBVIOUS
  <1> USE PoolAssumption, ContentAssumption, BoundAssumption
  <1>1. Main \in Pools
    BY DEF Main, Pools
  <1>2. NoSlot \in Slot
    BY DEF NoSlot, Slot, Contents
  <1>3. slot \in [Pools -> [{0, 1} -> Slot]]
    BY <1>2 DEF Init
  <1>4. save \in SaveStates
    BY DEF Init, NoSave, SaveStates, Main
  <1>5. left \in [Budget -> Nat]
    BY DEF Init, Budget
  <1>6. clear \in 0 .. NumPools + 2
    BY DEF Init
  <1>7. /\ id \in [Pools -> Nat]
        /\ val \in [Pools -> Contents]
        /\ crc \in Contents
    BY DEF Init, Contents
  <1>8. /\ up \in BOOLEAN
        /\ dirty \subseteq Pools
        /\ faulted \subseteq Pools
        /\ unflagged \subseteq Pools
        /\ overlap \in BOOLEAN
    BY DEF Init
  <1> QED
    BY <1>3, <1>4, <1>5, <1>6, <1>7, <1>8 DEF TypeOK

(* What FTE_CFG_init loads of a pool is a slot, and so has a content.      *)
LEMMA LoadTypes ==
  ASSUME TypeOK, NEW p \in Pools
  PROVE  /\ slot[p][0] \in Slot /\ slot[p][1] \in Slot
         /\ Load(p) \in Slot
         /\ Loaded(p) \in Slot
         /\ Recovered(p) \in Contents
  <1> USE PoolAssumption
  <1>0. Main \in Pools
    BY DEF Main, Pools
  <1>1. NoSlot \in Slot
    BY DEF NoSlot, Slot, Contents
  <1>2. ASSUME NEW q \in Pools
        PROVE  slot[q][0] \in Slot /\ slot[q][1] \in Slot /\ Load(q) \in Slot
    BY <1>1, <1>2 DEF TypeOK, Load, Best, Newer
  <1>3. Loaded(p) \in Slot
    BY <1>0, <1>1, <1>2 DEF Loaded
  <1>4. Recovered(p) \in Contents
    BY <1>3 DEF Recovered, Slot, Contents
  <1> QED
    BY <1>2, <1>3, <1>4

(* A save that starts is a save state. *)
LEMMA StartSaveType ==
  /\ NoSave \in SaveStates
  /\ \A m \in {"modified", "force"} : StartSave(m) => save' \in SaveStates
  <1> NoSave \in SaveStates
    BY PoolAssumption DEF NoSave, SaveStates, Main
  <1> QED
    BY DEF StartSave, SaveStates

(* Every step keeps the types; one step of the proof per action. *)
LEMMA TypeStep == TypeOK /\ [Next]_vars => TypeOK'
  <1> SUFFICES ASSUME TypeOK, [Next]_vars
               PROVE  TypeOK'
    OBVIOUS
  <1> USE PoolAssumption, StartSaveType DEF historyVars, ramVars
  <1>0. Main \in Pools /\ Pools \subseteq Nat /\ NoSlot \in Slot
    BY DEF Main, Pools, NoSlot, Slot, Contents
  <1>s. ASSUME NEW b \in Budget, Spend(b)
        PROVE  left' \in [Budget -> Nat]
    BY <1>s DEF Spend, TypeOK
  <1>b. \A b \in {"edit", "force", "clear", "fault", "crash"} : b \in Budget
    BY DEF Budget
  <1>1. CASE Boot
    BY <1>1, LoadTypes, <1>0 DEF Boot, TypeOK, Slot, Contents
  <1>2. CASE Crash
    <2>1. /\ id' \in [Pools -> Nat]
          /\ val' \in [Pools -> Contents]
          /\ crc' \in Contents
      BY <1>2 DEF Crash, Contents
    <2>2. left' \in [Budget -> Nat]
      BY <1>2, <1>s, <1>b DEF Crash
    <2>3. clear' \in 0 .. NumPools + 2
      BY <1>2 DEF Crash
    <2> QED
      BY <1>2, <2>1, <2>2, <2>3 DEF Crash, TypeOK
  <1>3. ASSUME NEW p \in Pools, NEW v \in Vals, Set(p, v) \/ SetUnflagged(p, v)
        PROVE  TypeOK'
    BY <1>3, <1>s, <1>b DEF Set, SetUnflagged, TypeOK, Contents, Edited
  <1>4. CASE MainTaskSave \/ AutoSave
    BY <1>4 DEF MainTaskSave, AutoSave, TypeOK
  <1>5. CASE ForceSave
    BY <1>5, <1>s, <1>b DEF ForceSave, TypeOK
  <1>6. ASSUME NEW v \in Vals \cup {val[Main]}, NEW m \in {"modified", "force"}, ShellSave(v, m)
        PROVE  TypeOK'
    BY <1>6, <1>s, <1>b, <1>0 DEF ShellSave, TypeOK, Contents, Edited
  <1>p. ASSUME NEW p \in Pools, save.pool = p
        PROVE  save.pool + 1 \in 1 .. NumPools + 1
    BY <1>p DEF Pools
  <1>7. ASSUME NEW p \in Pools, SkipPool(p)
        PROVE  TypeOK'
    <2>1. save' \in SaveStates
      BY <1>7, <1>p DEF SkipPool, Saving, TypeOK, SaveStates
    <2> QED
      BY <1>7, <2>1 DEF SkipPool, TypeOK
  <1>8. ASSUME NEW p \in Pools, BeginWrite(p)
        PROVE  TypeOK'
    <2>1. save' \in SaveStates
      BY <1>8 DEF BeginWrite, TypeOK, SaveStates
    <2>2. id' \in [Pools -> Nat] /\ crc' \in Contents
      BY <1>8, <1>0 DEF BeginWrite, Stamp, TypeOK
    <2>3. slot' \in [Pools -> [{0, 1} -> Slot]]
      BY <1>8, <1>0, <2>2, ParityFacts DEF BeginWrite, TypeOK
    <2>4. overlap' \in BOOLEAN
      BY <1>8 DEF BeginWrite
    <2> QED
      BY <1>8, <2>1, <2>2, <2>3, <2>4 DEF BeginWrite, TypeOK
  <1>a. ASSUME NEW p \in Pools, NEW res \in {"done", "missed"},
               save.pool = p, AfterWrite(p, res)
        PROVE  /\ save' \in SaveStates
               /\ dirty' \subseteq Pools
               /\ faulted' \subseteq Pools
               /\ unflagged' \subseteq Pools
    <2>1. CASE AfterFirst(p, res)
      BY <2>1, <1>a DEF AfterFirst, TypeOK, SaveStates
    <2>2. CASE AfterSecond(p, res)
      BY <2>2, <1>a, <1>p DEF AfterSecond, TypeOK, SaveStates
    <2> QED
      BY <1>a, <2>1, <2>2 DEF AfterWrite
  <1>9. ASSUME NEW p \in Pools, EndWrite(p)
        PROVE  TypeOK'
    <2>1. AfterWrite(p, "done") /\ save.pool = p
      BY <1>9 DEF EndWrite, Saving
    <2>2. slot' \in [Pools -> [{0, 1} -> Slot]]
      <3>1. [id |-> id[p], val |-> val[p]] \in Slot
        BY DEF TypeOK, Slot
      <3>2. id[p] % 2 \in {0, 1}
        BY ParityFacts DEF TypeOK
      <3> QED
        BY <1>9, <3>1, <3>2 DEF EndWrite, TypeOK
    <2> QED
      BY <1>9, <1>a, <2>1, <2>2 DEF EndWrite, TypeOK
  <1>10. ASSUME NEW p \in Pools, OpenFails(p)
        PROVE  TypeOK'
    <2>1. AfterWrite(p, "missed") /\ save.pool = p
      BY <1>10 DEF OpenFails, Selected, Saving
    <2>2. id' \in [Pools -> Nat] /\ crc' \in Contents
      BY <1>10, <1>0 DEF OpenFails, Stamp, TypeOK
    <2>3. left' \in [Budget -> Nat]
      BY <1>10, <1>s, <1>b DEF OpenFails
    <2> QED
      BY <1>10, <1>a, <2>1, <2>2, <2>3 DEF OpenFails, TypeOK
  <1>u. ASSUME NEW p \in Pools, WriteUntagged(p)
        PROVE  TypeOK'
    <2>1. AfterWrite(p, "missed") /\ save.pool = p
      BY <1>u DEF WriteUntagged, Saving
    <2> QED
      BY <1>u, <1>a, <2>1 DEF WriteUntagged, TypeOK
  <1>11. ASSUME NEW p \in Pools, WriteRefused(p) \/ WriteFails(p)
        PROVE  TypeOK'
    <2>1. save' \in SaveStates /\ faulted' \subseteq Pools
      BY <1>11 DEF WriteRefused, WriteFails, AbortSave, TypeOK
    <2>2. id' \in [Pools -> Nat] /\ crc' \in Contents
      BY <1>11, <1>0 DEF WriteRefused, WriteFails, Stamp, TypeOK
    <2>3. left' \in [Budget -> Nat]
      BY <1>11, <1>s, <1>b DEF WriteRefused, WriteFails
    <2> QED
      BY <1>11, <2>1, <2>2, <2>3 DEF WriteRefused, WriteFails, TypeOK
  <1>12. CASE EndSave
    BY <1>12 DEF EndSave, Saving, TypeOK
  <1>13. CASE FTE_CFG_clear \/ FTE_CFG_clearObject
    BY <1>13, <1>s, <1>b DEF FTE_CFG_clear, FTE_CFG_clearObject, ClearPools, TypeOK, Contents
  <1>14. CASE ClearMainPart
    BY <1>14, <1>0 DEF ClearMainPart, TypeOK, Contents, Edited
  <1>15. CASE ClearInstall
    BY <1>15, <1>0 DEF ClearInstall, TypeOK, Contents, Pools
  <1>16. CASE ClearSave
    BY <1>16 DEF ClearSave, TypeOK
  <1>17. CASE UNCHANGED vars
    BY <1>17 DEF vars, TypeOK
  <1> QED
    BY <1>1, <1>2, <1>3, <1>4, <1>5, <1>6, <1>7, <1>8, <1>9, <1>10, <1>u,
       <1>11, <1>12, <1>13, <1>14, <1>15, <1>16, <1>17 DEF Next, SaveStep

-----------------------------------------------------------------------------
(* What FTE_CFG_init picks of a pair of slots. *)
LEMMA BestFacts ==
  ASSUME NEW pair \in [{0, 1} -> Slot]
  PROVE  /\ Best(pair) \in Slot
         /\ \A k \in {0, 1} : Best(pair).id >= pair[k].id
         /\ Best(pair).id > 0 => \E k \in {0, 1} : Best(pair) = pair[k]
         /\ pair[0].id > pair[1].id => Best(pair) = pair[0]
         /\ pair[1].id > pair[0].id => Best(pair) = pair[1]
  <1>1. pair[0] \in Slot /\ pair[1] \in Slot /\ NoSlot \in Slot
    BY DEF NoSlot, Slot, Contents
  <1>2. /\ pair[0].id \in Nat /\ pair[1].id \in Nat
        /\ NoSlot.id = 0
    BY <1>1 DEF NoSlot, Slot
  <1> QED
    BY <1>1, <1>2 DEF Best, Newer

(* While no save runs, no pool is between its two writes. *)
LEMMA IdleFacts ==
  ASSUME Quiescence, save.phase = "none"
  PROVE  /\ save = NoSave
         /\ save.first = "todo" /\ save.pool = Main
         /\ \A p : ~InSave(p) /\ ~Owed(p)
  BY DEF Quiescence, NoSave, InSave, Owed

(* A save that starts: nothing is written yet, and if it is forced every   *)
(* pool is owed.                                                           *)
LEMMA StartFacts ==
  ASSUME NEW m \in {"modified", "force"}, StartSave(m)
  PROVE  /\ save'.phase = "next" /\ save'.first = "todo"
         /\ save'.pool = Main /\ save'.mode = m
         /\ \A p : ~InSave(p)'
         /\ \A p \in Pools : Owed(p)' <=> m = "force"
  BY PoolAssumption DEF StartSave, NoSave, InSave, Owed, Main, Pools

(* What a step that leaves the flash alone cannot disturb. *)
LEMMA FlashFrame ==
  ASSUME slot' = slot
  PROVE  /\ \A p : Load(p)' = Load(p) /\ Content(p)' = Content(p)
         /\ \A p : ResetIsSafe(p)' = ResetIsSafe(p)
         /\ Parity => Parity'
  BY DEF Load, Content, ResetIsSafe, Parity

(* A save starts while nothing else changes (main task, autosave, force).  *)
LEMMA StartStep ==
  ASSUME IInv, NEW m \in {"modified", "force"}, Unlocked, StartSave(m),
         UNCHANGED <<up, slot, id, val, clear, faulted, unflagged, overlap>>,
         dirty \subseteq dirty'
  PROVE  Shape'
  <1> USE StartFacts, FlashFrame, IdleFacts DEF IInv, Shape
  <1>1. Quiescence'
    BY DEF Quiescence, Unlocked
  <1>2. Aligned'
    BY DEF Aligned, Unlocked
  <1>3. FirstWrite' /\ Between' /\ SecondWrite'
    BY DEF FirstWrite, Between, SecondWrite
  <1>4. Gate'
    BY DEF Gate
  <1>5. Clean'
    BY DEF Clean, Unlocked
  <1>6. Whole'
    BY DEF Whole
  <1> QED
    BY <1>1, <1>2, <1>3, <1>4, <1>5, <1>6

(* A boot. *)
LEMMA BootStep ==
  ASSUME IInv, Boot
  PROVE  Shape'
  <1> USE PoolAssumption DEF IInv, Shape
  <1>0. Main \in Pools /\ TypeOK /\ Pools \subseteq Nat
    BY DEF Main, Pools
  <1>1. /\ save'.phase = "next" /\ save'.first = "todo"
        /\ save'.pool = Main /\ save'.mode = "modified"
        /\ \A p : ~InSave(p)'
    BY StartFacts DEF Boot
  <1>2. /\ slot' = slot
        /\ \A p : Load(p)' = Load(p) /\ Content(p)' = Content(p)
        /\ Parity'
    BY FlashFrame DEF Boot
  <1>3. clear = 0 /\ clear' = 0 /\ up' /\ overlap' = overlap
    BY DEF Boot, Quiescence
  <1>4. Quiescence'
    BY <1>1, <1>3 DEF Quiescence
  <1>5. Aligned'
    BY <1>1, <1>2 DEF Aligned, Boot
  <1>6. FirstWrite' /\ Between' /\ SecondWrite'
    BY <1>1 DEF FirstWrite, Between, SecondWrite
  <1>7. Gate'
    BY <1>0, <1>1, <1>2 DEF Gate, Boot, Loaded, NoSlot
  <1>8. Clean'
    BY <1>0, <1>2 DEF Clean, Boot, Content, Recovered, Loaded, NoSlot
  <1>9. Whole'
    <2>1. ASSUME NEW p \in Pools, ~overlap PROVE Recovered(p) # Blank
      <3>1. slot[p] \in [{0, 1} -> Slot]
        BY <1>0 DEF TypeOK
      <3>2. Load(p).id > 0 => Load(p).val # Blank
        BY <2>1, <3>1, BestFacts DEF Load, Whole
      <3>3. Load(p).id \in Nat
        BY <3>1, BestFacts DEF Load, Slot
      <3> QED
        BY <3>2, <3>3, ContentAssumption DEF Recovered, Loaded, NoSlot
    <2>2. \A p \in Pools : ~(p < clear' - 1)
      BY <1>0, <1>3
    <2>3. val' = [p \in Pools |-> Recovered(p)]
      BY DEF Boot
    <2> QED
      BY <1>1, <1>2, <1>3, <2>1, <2>2, <2>3 DEF Whole
  <1> QED
    BY <1>2, <1>4, <1>5, <1>6, <1>7, <1>8, <1>9


(* A step between saves that keeps the flash and leaves no save behind. *)
LEMMA IdleStep ==
  ASSUME IInv, slot' = slot, save' = NoSave, Unlocked \/ ~up', overlap' = overlap,
         up' => up, faulted \subseteq faulted', clear' # 0 => up'
  PROVE  /\ Parity' /\ Quiescence' /\ FirstWrite' /\ Between' /\ SecondWrite'
         /\ \A p : ~InSave(p)' /\ ~Owed(p)'
         /\ \A p : up' => ~InSave(p) /\ ~Owed(p)
         /\ up' => save.pool = Main
         /\ save'.pool = Main /\ save'.phase = "none"
  <1> USE FlashFrame, IdleFacts DEF IInv, Shape
  <1>1. save'.phase = "none" /\ save'.first = "todo" /\ save'.pool = Main
    BY DEF NoSave
  <1>2. \A p : ~InSave(p)' /\ ~Owed(p)'
    BY <1>1 DEF InSave, Owed
  <1>3. Quiescence'
    BY <1>1 DEF Quiescence
  <1>4. FirstWrite' /\ Between' /\ SecondWrite'
    BY <1>2 DEF FirstWrite, Between, SecondWrite
  <1> QED
    BY <1>1, <1>2, <1>3, <1>4 DEF Unlocked

(* The power fails: only what is on flash is left to keep. *)
LEMMA CrashStep ==
  ASSUME IInv, Crash
  PROVE  Shape'
  <1> USE PoolAssumption DEF IInv, Shape
  <1>1. /\ slot' = slot /\ save' = NoSave /\ ~up' /\ overlap' = overlap
        /\ faulted' = faulted /\ clear' = 0
    BY DEF Crash
  <1>2. \A p : Load(p)' = Load(p)
    BY <1>1, FlashFrame
  <1>3. Parity' /\ Quiescence' /\ FirstWrite' /\ Between' /\ SecondWrite'
    BY <1>1, IdleStep
  <1>4. save'.pool = Main /\ save'.phase = "none"
    BY <1>1 DEF NoSave
  <1>5. Aligned' /\ Clean'
    BY <1>1 DEF Aligned, Clean
  <1>6. Gate'
    BY <1>1, <1>2, <1>4 DEF Gate
  <1>7. Whole'
    BY <1>1, <1>4 DEF Whole, Pools
  <1> QED
    BY <1>3, <1>5, <1>6, <1>7

(* A setter, with or without the modified flag. *)
LEMMA SetStep ==
  ASSUME IInv, NEW p \in Pools, NEW v \in Vals, Set(p, v) \/ SetUnflagged(p, v)
  PROVE  Shape'
  <1> USE PoolAssumption DEF IInv, Shape
  <1>1. /\ slot' = slot /\ save' = save /\ up' = up /\ overlap' = overlap
        /\ faulted' = faulted /\ clear' = clear /\ id' = id /\ Unlocked
    BY DEF Set, SetUnflagged, historyVars
  <1>2. save = NoSave
    BY <1>1, IdleFacts DEF Unlocked
  <1>3. /\ Parity' /\ Quiescence' /\ FirstWrite' /\ Between' /\ SecondWrite'
        /\ \A q : ~InSave(q)' /\ ~Owed(q)'
        /\ \A q : ~InSave(q) /\ ~Owed(q)
        /\ save'.pool = Main /\ save.pool = Main /\ save'.phase = "none"
    BY <1>1, <1>2, IdleStep DEF Quiescence, Unlocked
  <1>4. \A q : Load(q)' = Load(q) /\ Content(q)' = Content(q)
               /\ ResetIsSafe(q)' = ResetIsSafe(q)
    BY <1>1, FlashFrame
  <1>5. Aligned'
    BY <1>1, <1>3, <1>4 DEF Aligned
  <1>6. Gate'
    BY <1>1, <1>3, <1>4 DEF Gate, Set, SetUnflagged
  <1>7. val' = [val EXCEPT ![p] = Edited(@, v)] /\ v # Blank
    BY ContentAssumption DEF Set, SetUnflagged
  <1>8. Clean'
    <2> SUFFICES ASSUME NEW q \in Pools, q \notin dirty' \cup unflagged' \cup faulted', clear' = 0, up'
                 PROVE  Content(q)' = val'[q]
      BY DEF Clean
    <2>1. q # p /\ q \notin dirty \cup unflagged \cup faulted
      BY <1>1 DEF Set, SetUnflagged, historyVars
    <2> QED
      BY <2>1, <1>1, <1>3, <1>4, <1>7 DEF Clean, TypeOK
  <1>9. \A q \in Pools : val[q] # Blank => val'[q] # Blank
    BY <1>7 DEF Edited, TypeOK
  <1>10. Whole'
    BY <1>1, <1>3, <1>9 DEF Whole
  <1> QED
    BY <1>3, <1>5, <1>6, <1>8, <1>10

(* The shell's save, which may change the main pool first. *)
LEMMA ShellSaveStep ==
  ASSUME IInv, NEW v \in Vals \cup {val[Main]}, NEW m \in {"modified", "force"},
         ShellSave(v, m)
  PROVE  Shape'
  <1> USE PoolAssumption, ContentAssumption DEF IInv, Shape
  <1>0. Main \in Pools /\ val \in [Pools -> Contents]
    BY DEF Main, Pools, TypeOK
  <1>1. /\ slot' = slot /\ up' = up /\ overlap' = overlap /\ unflagged' = unflagged
        /\ faulted' = faulted /\ clear' = clear /\ id' = id /\ Unlocked /\ StartSave(m)
        /\ dirty \subseteq dirty'
    BY DEF ShellSave, historyVars
  <1>2. \A q : Load(q)' = Load(q) /\ Content(q)' = Content(q)
               /\ ResetIsSafe(q)' = ResetIsSafe(q)
    BY <1>1, FlashFrame
  <1>3. \A q : ~InSave(q) /\ ~Owed(q)
    BY <1>1, IdleFacts DEF Unlocked
  <1>4. /\ save'.phase = "next" /\ save'.first = "todo" /\ save'.pool = Main
        /\ \A q : ~InSave(q)'
    BY <1>1, StartFacts
  <1>5. Parity' /\ Quiescence' /\ Aligned' /\ FirstWrite' /\ Between' /\ SecondWrite' /\ Gate'
    BY <1>1, <1>2, <1>3, <1>4, FlashFrame
       DEF Quiescence, Aligned, FirstWrite, Between, SecondWrite, Gate, Unlocked
  <1>6. /\ \A q \in Pools \ {Main} : val'[q] = val[q]
        /\ val'[Main] = Edited(val[Main], v)
        /\ Main \notin dirty' => val'[Main] = val[Main]
    BY <1>0 DEF ShellSave, Edited
  <1>7. Clean'
    BY <1>1, <1>2, <1>3, <1>6 DEF Clean
  <1>8. \A q \in Pools : val[q] # Blank => val'[q] # Blank
    BY <1>6 DEF Edited
  <1>9. Whole'
    BY <1>1, <1>4, <1>8 DEF Whole
  <1> QED
    BY <1>5, <1>7, <1>9


-----------------------------------------------------------------------------
(* A pool is passed over. *)
LEMMA SkipStep ==
  ASSUME IInv, NEW p \in Pools, SkipPool(p)
  PROVE  Shape'
  <1> USE PoolAssumption DEF IInv, Shape
  <1>0. p \in Nat /\ Main \in Nat /\ Pools \subseteq Nat
    BY DEF Main, Pools
  <1>1. /\ slot' = slot /\ up' = up /\ overlap' = overlap /\ unflagged' = unflagged
        /\ faulted' = faulted /\ clear' = clear /\ id' = id /\ val' = val /\ dirty' = dirty
        /\ up /\ save.phase = "next" /\ save.first = "todo" /\ save.pool = p
        /\ save.mode # "force" /\ p \notin dirty
    BY DEF SkipPool, Saving, Chosen, historyVars, ramVars
  <1>2. /\ save'.phase = "next" /\ save'.first = "todo" /\ save'.pool = p + 1
        /\ save'.mode # "force"
    BY <1>1 DEF SkipPool, TypeOK, SaveStates
  <1>3. \A q : /\ Load(q)' = Load(q) /\ Content(q)' = Content(q)
               /\ ResetIsSafe(q)' = ResetIsSafe(q)
    BY <1>1, FlashFrame
  <1>4. \A q : ~InSave(q) /\ ~InSave(q)' /\ ~Owed(q) /\ ~Owed(q)'
    BY <1>1, <1>2 DEF InSave, Owed
  <1>5. Parity' /\ Quiescence' /\ Aligned' /\ FirstWrite' /\ Between' /\ SecondWrite'
    BY <1>1, <1>2, <1>3, <1>4, FlashFrame
       DEF Quiescence, Aligned, FirstWrite, Between, SecondWrite
  <1>6. Gate'
    BY <1>1, <1>3 DEF Gate
  <1>7. Clean' /\ Whole'
    BY <1>1, <1>2, <1>3, <1>4 DEF Clean, Whole
  <1> QED
    BY <1>5, <1>6, <1>7

(* The last pool is behind the save. *)
LEMMA EndSaveStep ==
  ASSUME IInv, EndSave
  PROVE  Shape'
  <1> USE PoolAssumption DEF IInv, Shape
  <1>0. Pools \subseteq Nat /\ NumPools + 1 \notin Pools /\ NumPools + 1 # Main
        /\ \A q \in Pools : ~(NumPools + 1 <= q)
    BY DEF Main, Pools
  <1>1. /\ slot' = slot /\ up' = up /\ overlap' = overlap /\ unflagged' = unflagged
        /\ faulted' = faulted /\ clear' = clear /\ id' = id /\ val' = val /\ dirty' = dirty
        /\ up /\ save.pool = NumPools + 1
    BY DEF EndSave, Saving, historyVars, ramVars
  <1>2. save' = NoSave /\ save'.phase = "none" /\ save'.first = "todo" /\ save'.pool = Main
    BY DEF EndSave, NoSave
  <1>3. \A q : /\ Load(q)' = Load(q) /\ Content(q)' = Content(q)
               /\ ResetIsSafe(q)' = ResetIsSafe(q)
    BY <1>1, FlashFrame
  <1>4. \A q \in Pools : ~InSave(q) /\ ~InSave(q)' /\ ~Owed(q) /\ ~Owed(q)'
    BY <1>0, <1>1, <1>2 DEF InSave, Owed
  <1>5. Parity' /\ Quiescence' /\ Aligned' /\ FirstWrite' /\ Between' /\ SecondWrite'
    BY <1>1, <1>2, <1>3, <1>4, FlashFrame
       DEF Quiescence, Aligned, FirstWrite, Between, SecondWrite
  <1>6. Gate'
    BY <1>0, <1>1, <1>3 DEF Gate
  <1>7. Clean' /\ Whole'
    BY <1>1, <1>2, <1>3, <1>4 DEF Clean, Whole
  <1> QED
    BY <1>5, <1>6, <1>7

(* A failed write ends the save. *)
LEMMA AbortStep ==
  ASSUME IInv, NEW p \in Pools, WriteRefused(p) \/ WriteFails(p)
  PROVE  Shape'
  <1> USE PoolAssumption DEF IInv, Shape
  <1>0. Pools \subseteq Nat
    BY DEF Pools
  <1>1. /\ slot' = slot /\ up' = up /\ overlap' = overlap /\ unflagged' = unflagged
        /\ clear' = clear /\ val' = val /\ dirty' = dirty
        /\ up /\ save.pool = p /\ save.phase # "none" /\ AbortSave(p)
    BY DEF WriteRefused, WriteFails, Selected, Saving, ramVars
  <1>2. /\ save' = NoSave /\ save'.phase = "none" /\ save'.first = "todo"
        /\ save'.pool = Main
    BY <1>1 DEF AbortSave, NoSave
  <1>3. /\ faulted \subseteq faulted' /\ p \in faulted'
        /\ \A q \in Pools : Owed(q) => q \in faulted'
    BY <1>0, <1>1 DEF AbortSave, Owed
  <1>4. \A q \in Pools \ {p} : id'[q] = id[q]
    BY DEF WriteRefused, WriteFails, Stamp, TypeOK, ramVars
  <1>5. \A q : /\ Load(q)' = Load(q) /\ Content(q)' = Content(q)
               /\ ResetIsSafe(q)' = ResetIsSafe(q)
    BY <1>1, FlashFrame
  <1>6. \A q \in Pools : (q # p => ~InSave(q)) /\ ~InSave(q)' /\ ~Owed(q)'
    BY <1>1, <1>2 DEF InSave, Owed
  <1>7. Parity' /\ Quiescence' /\ Aligned' /\ FirstWrite' /\ Between' /\ SecondWrite'
    BY <1>1, <1>2, <1>3, <1>4, <1>5, <1>6, FlashFrame
       DEF Quiescence, Aligned, FirstWrite, Between, SecondWrite
  <1>8. Gate'
    BY <1>1, <1>2, <1>3, <1>5 DEF Gate
  <1>9. Clean' /\ Whole'
    BY <1>1, <1>2, <1>3, <1>5, <1>6 DEF Clean, Whole
  <1> QED
    BY <1>7, <1>8, <1>9

(* A write that could not be opened, or whose image has no tag, is passed  *)
(* over.                                                                   *)
LEMMA MissedStep ==
  ASSUME IInv, NEW p \in Pools, OpenFails(p) \/ WriteUntagged(p)
  PROVE  Shape'
  <1> USE PoolAssumption DEF IInv, Shape
  <1>0. Pools \subseteq Nat
    BY DEF Pools
  <1>1. /\ slot' = slot /\ up' = up /\ overlap' = overlap
        /\ clear' = clear /\ val' = val
        /\ up /\ save.pool = p /\ save.phase # "none" /\ AfterWrite(p, "missed")
    BY DEF OpenFails, WriteUntagged, Selected, Saving
  <1>2. id'[p] > 0 /\ \A q \in Pools \ {p} : id'[q] = id[q]
    <2>1. CASE OpenFails(p)
      BY <2>1 DEF OpenFails, Stamp, TypeOK
    <2>2. CASE WriteUntagged(p)
      <3>1. id' = id /\ InSave(p) /\ save.phase = "write"
        BY <2>2 DEF WriteUntagged, Saving, InSave
      <3>2. id[p] > 0
        BY <3>1 DEF FirstWrite, SecondWrite, TypeOK
      <3> QED
        BY <3>1, <3>2
    <2> QED
      BY <2>1, <2>2
  <1>3. \A q : /\ Load(q)' = Load(q) /\ Content(q)' = Content(q)
               /\ ResetIsSafe(q)' = ResetIsSafe(q)
    BY <1>1, FlashFrame
  <1>4. Chosen(p)
    BY <1>1 DEF OpenFails, WriteUntagged, Saving, Selected, Quiescence
  <1>5. /\ faulted' = faulted \cup {p} /\ save'.phase = "next" /\ save'.mode = save.mode
        /\ \/ /\ save'.first = "missed" /\ save'.pool = p
              /\ dirty' = dirty /\ unflagged' = unflagged
           \/ /\ save'.first = "todo" /\ save'.pool = p + 1
              /\ dirty' = dirty \ {p} /\ unflagged' = unflagged \ {p}
    <2>1. CASE AfterFirst(p, "missed")
      BY <1>1, <2>1 DEF AfterFirst, TypeOK, SaveStates
    <2>2. CASE AfterSecond(p, "missed")
      BY <1>1, <2>2 DEF AfterSecond, TypeOK, SaveStates
    <2> QED
      BY <1>1, <2>1, <2>2 DEF AfterWrite
  <1>6. ASSUME NEW q \in Pools, q # p
        PROVE  ~InSave(q) /\ ~InSave(q)' /\ (Owed(q) => Owed(q)')
    <2>1. q \in Nat /\ p \in Nat /\ (p <= q <=> p + 1 <= q)
      BY <1>0, <1>6
    <2> QED
      BY <1>1, <1>5, <1>6, <2>1 DEF InSave, Owed
  <1>7. Quiescence'
    BY <1>1, <1>4, <1>5 DEF Quiescence, Chosen
  <1>8. Aligned'
    <2> SUFFICES ASSUME NEW q \in Pools \ faulted', up', ~InSave(q)'
                 PROVE  id'[q] = Load(q)'.id \/ (id'[q] = 0 /\ ResetIsSafe(q)')
      BY DEF Aligned
    <2>1. q \in Pools /\ q # p /\ q \in Pools \ faulted
      BY <1>5
    <2>2. id[q] = Load(q).id \/ (id[q] = 0 /\ ResetIsSafe(q))
      BY <2>1, <1>1, <1>6 DEF Aligned
    <2> QED
      BY <2>1, <2>2, <1>2, <1>3
  <1>9. FirstWrite' /\ SecondWrite' /\ Between'
    BY <1>1, <1>2, <1>5, <1>6 DEF FirstWrite, Between, SecondWrite, InSave
  <1>10. Gate'
    BY <1>1, <1>3, <1>5 DEF Gate
  <1>11. Clean'
    <2> SUFFICES ASSUME NEW q \in Pools \ (dirty' \cup unflagged' \cup faulted'),
                        clear' = 0, ~Owed(q)'
                 PROVE  Content(q)' = val'[q]
      BY DEF Clean
    <2>1. q \in Pools /\ q # p /\ q \notin dirty \cup unflagged \cup faulted
      BY <1>5
    <2> QED
      BY <2>1, <1>1, <1>3, <1>6 DEF Clean
  <1>12. Whole'
    BY <1>1, <1>5 DEF Whole
  <1> QED
    BY <1>1, <1>7, <1>8, <1>9, <1>10, <1>11, <1>12, FlashFrame


(* A sector is about to be rewritten: for the first time in this save ...  *)
LEMMA BeginFirstStep ==
  ASSUME IInv, NEW p \in Pools, BeginWrite(p), save.first = "todo"
  PROVE  /\ Shape'
         /\ p \notin faulted => Content(p)' = Content(p)
         /\ \A q \in Pools \ {p} : slot'[q] = slot[q]
  <1> DEFINE n == id[p]
             k == id[p] % 2
  <1> USE PoolAssumption DEF IInv, Shape
  <1>0. Pools \subseteq Nat /\ n \in Nat /\ slot[p] \in [{0, 1} -> Slot]
        /\ Main \in Pools
    BY DEF Pools, Main, TypeOK
  <1>1. /\ up' = up /\ up /\ val' = val /\ dirty' = dirty /\ clear' = clear
        /\ faulted' = faulted /\ unflagged' = unflagged
        /\ save.pool = p /\ save.phase = "next" /\ Chosen(p)
        /\ overlap' = (overlap \/ clear # 0)
    BY DEF BeginWrite, Selected, Saving
  <1>2. /\ save'.phase = "write" /\ save'.first = "todo" /\ save'.pool = p
        /\ save'.mode = save.mode
    BY <1>1 DEF BeginWrite, TypeOK, SaveStates
  <1>3. id' = [id EXCEPT ![p] = n + 1] /\ id'[p] = n + 1 /\ id'[p] % 2 = 1 - k /\ k \in {0, 1}
    BY <1>0, ParityFacts DEF BeginWrite, Stamp, TypeOK
  <1>4. /\ slot' = [slot EXCEPT ![p][1 - k] = NoSlot]
        /\ slot'[p] = [slot[p] EXCEPT ![1 - k] = NoSlot]
        /\ slot'[p] \in [{0, 1} -> Slot]
        /\ slot'[p][k] = slot[p][k] /\ slot'[p][1 - k] = NoSlot /\ NoSlot.id = 0
    <2>1. slot' = [slot EXCEPT ![p][1 - k] = NoSlot]
      BY <1>3 DEF BeginWrite
    <2>2. NoSlot \in Slot /\ 1 - k \in {0, 1} /\ 1 - k # k /\ NoSlot.id = 0
      BY <1>3 DEF NoSlot, Slot, Contents
    <2> QED
      BY <2>1, <2>2, <1>3, <1>0 DEF TypeOK
  <1>5. ASSUME NEW q \in Pools, q # p
        PROVE  /\ slot'[q] = slot[q] /\ id'[q] = id[q]
               /\ ~InSave(q) /\ ~InSave(q)' /\ (Owed(q) => Owed(q)')
               /\ Load(q)' = Load(q) /\ Content(q)' = Content(q)
               /\ ResetIsSafe(q)' = ResetIsSafe(q)
    <2>1. slot'[q] = slot[q] /\ id'[q] = id[q]
      BY <1>3, <1>4, <1>5 DEF TypeOK
    <2> QED
      BY <2>1, <1>1, <1>2, <1>5 DEF InSave, Owed, Load, Content, ResetIsSafe
  <1>6. Parity'
    BY <1>3, <1>4, <1>5 DEF Parity
  <1>7. Quiescence'
    BY <1>1, <1>2 DEF Quiescence, Chosen
  <1>8. InSave(p)' /\ ~InSave(p)
    BY <1>1, <1>2 DEF InSave
  (* The slot that is kept has the current content. *)
  <1>9. ASSUME p \notin faulted, Load(p).id > 0
        PROVE  slot[p][k].id > 0 /\ (n > 0 => slot[p][k].id = n)
    <2>1. n = Load(p).id \/ (n = 0 /\ ResetIsSafe(p))
      BY <1>1, <1>8, <1>9 DEF Aligned
    <2>2. CASE n = Load(p).id
      BY <2>2, <1>0, <1>3, <1>9, BestFacts DEF Load, Parity
    <2>3. CASE n = 0 /\ ResetIsSafe(p)
      BY <2>3, <1>9 DEF ResetIsSafe
    <2> QED
      BY <2>1, <2>2, <2>3
  <1>10. Aligned'
    BY <1>1, <1>5, <1>8 DEF Aligned
  <1>11. FirstWrite'
    <2>1. p \notin faulted => id'[p] = 1 \/ slot'[p][k].id = id'[p] - 1
      <3> SUFFICES ASSUME p \notin faulted, n > 0
                   PROVE  slot'[p][k].id = n
        BY <1>3, <1>0
      <3>1. n = Load(p).id
        BY <1>1, <1>8, <1>0 DEF Aligned
      <3> QED
        BY <3>1, <1>9, <1>4
    <2>2. Other(id'[p] % 2) = k
      BY <1>3 DEF Other
    <2> QED
      BY <2>1, <2>2, <1>0, <1>1, <1>3, <1>4, <1>5 DEF FirstWrite
  <1>12. Between' /\ SecondWrite'
    BY <1>2 DEF Between, SecondWrite
  <1>13. Gate'
    <2>1. CASE p # Main
      BY <2>1, <1>0, <1>1, <1>2, <1>5 DEF Gate
    <2>2. CASE p = Main
      <3> SUFFICES ASSUME Main \notin faulted, Load(Main)'.id = 0
                   PROVE  Load(Main).id = 0
        BY <1>1, <1>2, <1>5, <2>2 DEF Gate
      <3>1. slot'[p][k].id = 0
        BY <2>2, <1>3, <1>4, BestFacts DEF Load, Slot
      <3>2. Load(p).id \in Nat
        BY <1>0, BestFacts DEF Load, Slot
      <3> QED
        BY <2>2, <3>1, <3>2, <1>4, <1>9
    <2> QED
      BY <2>1, <2>2
  <1>14. Clean'
    <2> SUFFICES ASSUME NEW q \in Pools \ (dirty' \cup unflagged' \cup faulted'),
                        clear' = 0, ~Owed(q)'
                 PROVE  Content(q)' = val'[q]
      BY DEF Clean
    <2>1. q # p
      BY <1>0, <1>1, <1>2 DEF Chosen, Owed
    <2> QED
      BY <2>1, <1>1, <1>5 DEF Clean
  <1>15. Whole'
    <2>1. ASSUME NEW q \in Pools, NEW j \in {0, 1}, ~overlap, slot'[q][j].id > 0
          PROVE  slot'[q][j].val # Blank
      <3>1. slot'[q][j] = slot[q][j]
        BY <2>1, <1>3, <1>4, <1>5
      <3> QED
        BY <2>1, <3>1 DEF Whole
    <2> QED
      BY <2>1, <1>1 DEF Whole
  <1>16. ASSUME p \notin faulted
         PROVE  Content(p)' = Content(p)
    <2>0. /\ Load(p).id \in Nat /\ slot[p][k].id \in Nat /\ slot[p][1 - k].id \in Nat
          /\ Load(p).id >= slot[p][k].id
      BY <1>0, <1>3, BestFacts DEF Load, Slot
    <2>1. CASE Load(p).id = 0
      <3>1. slot'[p][0].id = 0 /\ slot'[p][1].id = 0
        BY <2>0, <2>1, <1>3, <1>4
      <3>2. Load(p)'.id = 0
        BY <3>1, <1>4, BestFacts DEF Load, Slot
      <3> QED
        BY <2>1, <3>2 DEF Content
    <2>2. CASE Load(p).id > 0
      <3>1. slot[p][k].id > 0
        BY <2>2, <1>9, <1>16
      <3>2. Load(p)' = slot[p][k]
        BY <3>1, <1>3, <1>4, BestFacts DEF Load
      <3>3. n = Load(p).id \/ (n = 0 /\ ResetIsSafe(p))
        BY <1>1, <1>8, <1>16 DEF Aligned
      <3>4. CASE n = Load(p).id
        BY <3>4, <3>1, <3>2, <2>0, <2>2, <1>0, <1>3, BestFacts DEF Load, Parity, Content
      <3>5. CASE n = 0 /\ ResetIsSafe(p)
        BY <3>5, <3>1, <3>2, <2>2 DEF ResetIsSafe, Content
      <3> QED
        BY <3>3, <3>4, <3>5
    <2> QED
      BY <2>0, <2>1, <2>2
  <1> QED
    BY <1>5, <1>6, <1>7, <1>10, <1>11, <1>12, <1>13, <1>14, <1>15, <1>16

(* ... and for the second time. *)
LEMMA BeginSecondStep ==
  ASSUME IInv, NEW p \in Pools, BeginWrite(p), save.first # "todo"
  PROVE  /\ Shape'
         /\ p \notin faulted => Content(p)' = val[p]
         /\ \A q \in Pools \ {p} : slot'[q] = slot[q]
  <1> DEFINE n == id[p]
             k == id[p] % 2
  <1> USE PoolAssumption DEF IInv, Shape
  <1>0. Pools \subseteq Nat /\ n \in Nat /\ slot[p] \in [{0, 1} -> Slot]
        /\ Main \in Pools
    BY DEF Pools, Main, TypeOK
  <1>1. /\ up' = up /\ up /\ val' = val /\ dirty' = dirty /\ clear' = clear
        /\ faulted' = faulted /\ unflagged' = unflagged
        /\ save.pool = p /\ save.phase = "next"
        /\ overlap' = (overlap \/ clear # 0)
    BY DEF BeginWrite, Selected, Saving
  <1>c. Chosen(p)
    BY <1>1 DEF Quiescence
  <1>2. /\ save'.phase = "write" /\ save'.first = save.first /\ save'.pool = p
        /\ save'.mode = save.mode
    BY <1>1 DEF BeginWrite, TypeOK, SaveStates
  <1>3. id' = [id EXCEPT ![p] = n + 1] /\ id'[p] = n + 1 /\ id'[p] % 2 = 1 - k /\ k \in {0, 1}
    BY <1>0, ParityFacts DEF BeginWrite, Stamp, TypeOK
  <1>4. /\ slot' = [slot EXCEPT ![p][1 - k] = NoSlot]
        /\ slot'[p] \in [{0, 1} -> Slot]
        /\ slot'[p][k] = slot[p][k] /\ slot'[p][1 - k] = NoSlot /\ NoSlot.id = 0
    <2>1. slot' = [slot EXCEPT ![p][1 - k] = NoSlot]
      BY <1>3 DEF BeginWrite
    <2>2. NoSlot \in Slot /\ 1 - k \in {0, 1} /\ 1 - k # k /\ NoSlot.id = 0
      BY <1>3 DEF NoSlot, Slot, Contents
    <2> QED
      BY <2>1, <2>2, <1>3, <1>0 DEF TypeOK
  <1>5. ASSUME NEW q \in Pools, q # p
        PROVE  /\ slot'[q] = slot[q] /\ id'[q] = id[q]
               /\ ~InSave(q) /\ ~InSave(q)' /\ (Owed(q) => Owed(q)')
               /\ Load(q)' = Load(q) /\ Content(q)' = Content(q)
               /\ ResetIsSafe(q)' = ResetIsSafe(q)
    <2>1. slot'[q] = slot[q] /\ id'[q] = id[q]
      BY <1>3, <1>4, <1>5 DEF TypeOK
    <2> QED
      BY <2>1, <1>1, <1>2, <1>5 DEF InSave, Owed, Load, Content, ResetIsSafe
  <1>6. Parity'
    BY <1>3, <1>4, <1>5 DEF Parity
  <1>7. Quiescence'
    BY <1>1, <1>c, <1>2 DEF Quiescence, Chosen
  <1>8. InSave(p)' /\ InSave(p)
    BY <1>1, <1>2 DEF InSave
  <1>9. n > 0 /\ (save.first = "done" => slot[p][k] = [id |-> n, val |-> val[p]])
    BY <1>1, <1>8 DEF Between, Stored
  <1>10. Aligned'
    BY <1>1, <1>5, <1>8 DEF Aligned
  <1>11. FirstWrite' /\ Between'
    BY <1>2 DEF FirstWrite, Between
  <1>12. SecondWrite'
    <2>1. Other(id'[p] % 2) = k /\ id'[p] - 1 = n /\ id'[p] > 1
      BY <1>0, <1>3, <1>9 DEF Other
    <2> QED
      BY <2>1, <1>1, <1>2, <1>3, <1>4, <1>5, <1>9 DEF SecondWrite, Stored
  <1>13. Gate'
    <2>1. CASE p # Main
      BY <2>1, <1>0, <1>1, <1>2, <1>5 DEF Gate
    <2>2. CASE p = Main
      <3> SUFFICES ASSUME Main \notin faulted, Load(Main)'.id = 0
                   PROVE  FALSE
        BY <1>1 DEF Gate
      <3>1. save.first = "done"
        BY <1>1, <2>2 DEF Quiescence, TypeOK, SaveStates
      <3>2. slot'[p][k].id = n
        BY <3>1, <1>9, <1>4
      <3> QED
        BY <2>2, <3>2, <1>0, <1>3, <1>4, <1>9, BestFacts DEF Load, Slot
    <2> QED
      BY <2>1, <2>2
  <1>14. Clean'
    <2> SUFFICES ASSUME NEW q \in Pools \ (dirty' \cup unflagged' \cup faulted'),
                        clear' = 0, ~Owed(q)'
                 PROVE  Content(q)' = val'[q]
      BY DEF Clean
    <2>1. q # p
      BY <1>0, <1>1, <1>c, <1>2 DEF Chosen, Owed
    <2> QED
      BY <2>1, <1>1, <1>5 DEF Clean
  <1>15. Whole'
    <2>1. ASSUME NEW q \in Pools, NEW j \in {0, 1}, ~overlap, slot'[q][j].id > 0
          PROVE  slot'[q][j].val # Blank
      <3>1. slot'[q][j] = slot[q][j]
        BY <2>1, <1>3, <1>4, <1>5
      <3> QED
        BY <2>1, <3>1 DEF Whole
    <2> QED
      BY <2>1, <1>1 DEF Whole
  <1>16. ASSUME p \notin faulted
         PROVE  Content(p)' = val[p]
    <2>1. save.first = "done"
      BY <1>1, <1>16 DEF Quiescence, TypeOK, SaveStates
    <2>2. slot'[p][k] = [id |-> n, val |-> val[p]] /\ slot'[p][1 - k].id = 0
      BY <2>1, <1>9, <1>4
    <2>3. Load(p)' = slot'[p][k]
      BY <2>2, <1>0, <1>3, <1>4, <1>9, BestFacts DEF Load
    <2> QED
      BY <2>2, <2>3, <1>0, <1>9 DEF Content
  <1> QED
    BY <1>5, <1>6, <1>7, <1>10, <1>11, <1>12, <1>13, <1>14, <1>15, <1>16


(* A sector has been written: the first of the two ... *)
LEMMA EndFirstStep ==
  ASSUME IInv, NEW p \in Pools, EndWrite(p), save.first = "todo"
  PROVE  /\ Shape'
         /\ p \notin faulted => Content(p)' = val[p] \/ Content(p)' = Content(p)
         /\ \A q \in Pools \ {p} : slot'[q] = slot[q]
  <1> DEFINE n == id[p]
             k == id[p] % 2
  <1> USE PoolAssumption DEF IInv, Shape
  <1>0. Pools \subseteq Nat /\ n \in Nat /\ slot[p] \in [{0, 1} -> Slot]
        /\ Main \in Pools /\ k \in {0, 1} /\ [id |-> n, val |-> val[p]] \in Slot
    BY ParityFacts DEF Pools, Main, TypeOK, Slot
  <1>1. /\ up' = up /\ up /\ val' = val /\ dirty' = dirty /\ clear' = clear
        /\ faulted' = faulted /\ unflagged' = unflagged /\ id' = id
        /\ save.pool = p /\ save.phase = "write" /\ overlap' = overlap
    BY DEF EndWrite, Saving, AfterWrite, AfterFirst
  <1>2. /\ save'.phase = "next" /\ save'.first = "done" /\ save'.pool = p
        /\ save'.mode = save.mode
    BY <1>1 DEF EndWrite, AfterWrite, AfterFirst, TypeOK, SaveStates
  <1>3. InSave(p) /\ InSave(p)' /\ Chosen(p)
    BY <1>1, <1>2 DEF InSave, Quiescence
  <1>4. /\ slot'[p] \in [{0, 1} -> Slot]
        /\ slot'[p][k] = [id |-> n, val |-> val[p]]
        /\ \A j \in {0, 1} \ {k} : slot'[p][j] = slot[p][j]
        /\ \A q \in Pools \ {p} : slot'[q] = slot[q]
    BY <1>0 DEF EndWrite, TypeOK
  <1>5. ASSUME NEW q \in Pools, q # p
        PROVE  /\ slot'[q] = slot[q]
               /\ ~InSave(q) /\ ~InSave(q)' /\ (Owed(q) => Owed(q)')
               /\ Load(q)' = Load(q) /\ Content(q)' = Content(q)
               /\ ResetIsSafe(q)' = ResetIsSafe(q)
    BY <1>1, <1>2, <1>4, <1>5 DEF InSave, Owed, Load, Content, ResetIsSafe
  <1>6. Parity'
    BY <1>0, <1>4, <1>5 DEF Parity
  <1>7. Quiescence'
    BY <1>1, <1>2, <1>3 DEF Quiescence, Chosen
  <1>8. Aligned'
    BY <1>1, <1>5, <1>3 DEF Aligned
  <1>9. FirstWrite' /\ SecondWrite'
    BY <1>2 DEF FirstWrite, SecondWrite
  <1>10. Between'
    <2>1. n > 0 /\ (p \notin faulted => n = 1 \/ slot[p][1 - k].id = n - 1)
      BY <1>3 DEF FirstWrite, Other
    <2>2. slot'[p][1 - k].id = slot[p][1 - k].id
      BY <1>0, <1>4
    <2> QED
      BY <2>1, <2>2, <1>0, <1>1, <1>2, <1>4, <1>5 DEF Between, Stored, Other
  <1>11. Load(p)'.id > 0
    BY <1>0, <1>3, <1>4, BestFacts DEF Load, Slot, FirstWrite
  <1>12. Gate'
    <2>1. CASE p # Main
      BY <2>1, <1>0, <1>1, <1>2, <1>5 DEF Gate
    <2>2. CASE p = Main
      BY <2>2, <1>11 DEF Gate
    <2> QED
      BY <2>1, <2>2
  <1>13. Clean'
    <2> SUFFICES ASSUME NEW q \in Pools \ (dirty' \cup unflagged' \cup faulted'),
                        clear' = 0, ~Owed(q)'
                 PROVE  Content(q)' = val'[q]
      BY DEF Clean
    <2>1. q # p
      BY <1>0, <1>1, <1>2, <1>3 DEF Chosen, Owed
    <2> QED
      BY <2>1, <1>1, <1>5 DEF Clean
  <1>14. Whole'
    <2>1. ASSUME NEW q \in Pools, NEW j \in {0, 1}, ~overlap, slot'[q][j].id > 0
          PROVE  slot'[q][j].val # Blank
      <3>1. val[q] # Blank
        BY <2>1, <1>1 DEF Whole
      <3>2. CASE q = p /\ j = k
        BY <3>1, <3>2, <1>4
      <3>3. CASE ~(q = p /\ j = k)
        BY <2>1, <3>3, <1>4, <1>5 DEF Whole
      <3> QED
        BY <3>2, <3>3
    <2> QED
      BY <2>1, <1>1, <1>2 DEF Whole
  <1>15. ASSUME p \notin faulted
         PROVE  Content(p)' = val[p] \/ Content(p)' = Content(p)
    <2>1. /\ n > 0 /\ slot[p][k].id = 0
          /\ n = 1 \/ slot[p][1 - k].id = n - 1
      BY <1>3, <1>15 DEF FirstWrite, Other
    <2>2. /\ slot'[p][1 - k] = slot[p][1 - k] /\ slot'[p][k].id = n
          /\ slot[p][1 - k].id \in Nat /\ 1 - k \in {0, 1}
      BY <1>0, <1>4 DEF Slot
    <2>3. CASE slot[p][1 - k].id < n
      <3>1. Load(p)' = slot'[p][k]
        BY <2>2, <2>3, <1>0, <1>4, BestFacts DEF Load
      <3> QED
        BY <3>1, <2>1, <1>0, <1>4 DEF Content
    <2>4. CASE slot[p][1 - k].id >= n
      <3>1. n = 1
        BY <2>1, <2>2, <2>4, <1>0
      <3>2. slot[p][1 - k].id # 1
        <4>1. slot[p][1 - k].id > 0 => slot[p][1 - k].id % 2 = 1 - k
          BY <2>2 DEF Parity
        <4> QED
          BY <3>1, <4>1
      <3>3. slot[p][1 - k].id > n
        BY <3>1, <3>2, <2>2, <2>4
      <3>4. Load(p)' = slot[p][1 - k] /\ Load(p) = slot[p][1 - k]
        BY <3>3, <2>1, <2>2, <1>0, <1>4, BestFacts DEF Load
      <3> QED
        BY <3>4 DEF Content
    <2> QED
      BY <2>2, <2>3, <2>4, <1>0
  <1> QED
    BY <1>5, <1>6, <1>7, <1>8, <1>9, <1>10, <1>12, <1>13, <1>14, <1>15

(* ... and the second one: the flag is reset. *)
LEMMA EndSecondStep ==
  ASSUME IInv, NEW p \in Pools, EndWrite(p), save.first # "todo"
  PROVE  /\ Shape'
         /\ save.first = "done" => Content(p)' = val[p] /\ Load(p)'.id # 0
         /\ \A q \in Pools \ {p} : slot'[q] = slot[q]
  <1> DEFINE n == id[p]
             k == id[p] % 2
  <1> USE PoolAssumption DEF IInv, Shape
  <1>0. Pools \subseteq Nat /\ n \in Nat /\ slot[p] \in [{0, 1} -> Slot]
        /\ Main \in Pools /\ k \in {0, 1} /\ [id |-> n, val |-> val[p]] \in Slot
    BY ParityFacts DEF Pools, Main, TypeOK, Slot
  <1>1. /\ up' = up /\ up /\ val' = val /\ clear' = clear /\ id' = id
        /\ dirty' = dirty \ {p} /\ unflagged' = unflagged \ {p}
        /\ faulted' = (IF save.first = "done" THEN faulted \ {p} ELSE faulted \cup {p})
        /\ save.pool = p /\ save.phase = "write" /\ overlap' = overlap
    BY DEF EndWrite, Saving, AfterWrite, AfterSecond
  <1>2. /\ save'.phase = "next" /\ save'.first = "todo" /\ save'.pool = p + 1
        /\ save'.mode = save.mode
    BY <1>1 DEF EndWrite, AfterWrite, AfterSecond, TypeOK, SaveStates
  <1>3. InSave(p)
    BY <1>1 DEF InSave
  <1>4. /\ slot'[p] \in [{0, 1} -> Slot]
        /\ slot'[p][k] = [id |-> n, val |-> val[p]]
        /\ \A j \in {0, 1} \ {k} : slot'[p][j] = slot[p][j]
        /\ \A q \in Pools \ {p} : slot'[q] = slot[q]
    BY <1>0 DEF EndWrite, TypeOK
  <1>5. ASSUME NEW q \in Pools, q # p
        PROVE  /\ slot'[q] = slot[q]
               /\ ~InSave(q) /\ (Owed(q) => Owed(q)')
               /\ Load(q)' = Load(q) /\ Content(q)' = Content(q)
               /\ ResetIsSafe(q)' = ResetIsSafe(q)
    <2>1. q \in Nat /\ p \in Nat /\ (p <= q <=> p + 1 <= q)
      BY <1>0, <1>5
    <2> QED
      BY <2>1, <1>1, <1>2, <1>4, <1>5 DEF InSave, Owed, Load, Content, ResetIsSafe
  <1>i. \A q : ~InSave(q)'
    BY <1>2 DEF InSave
  <1>6. Parity'
    BY <1>0, <1>4, <1>5 DEF Parity
  <1>7. Quiescence'
    BY <1>1, <1>2 DEF Quiescence
  <1>8. /\ Load(p)'.id > 0
        /\ save.first = "done" => Load(p)' = [id |-> n, val |-> val[p]]
    <2>1. n > 1 /\ (save.first = "done" => slot[p][1 - k] = [id |-> n - 1, val |-> val[p]])
      BY <1>1, <1>3 DEF SecondWrite, Stored, Other
    <2>2. slot'[p][1 - k] = slot[p][1 - k] /\ slot'[p][k].id = n
      BY <1>0, <1>4
    <2>3. Load(p)'.id >= n
      BY <1>0, <1>4, <2>2, BestFacts DEF Load
    <2>4. Load(p)'.id > 0
      BY <2>1, <2>3, <1>0, <1>4, BestFacts DEF Load, Slot
    <2>5. ASSUME save.first = "done" PROVE Load(p)' = slot'[p][k]
      <3>1. slot'[p][1 - k].id = n - 1
        BY <2>1, <2>2, <2>5
      <3> QED
        BY <3>1, <2>2, <1>0, <1>4, BestFacts DEF Load
    <2> QED
      BY <2>4, <2>5, <1>4
  <1>9. Aligned'
    BY <1>1, <1>5, <1>8 DEF Aligned
  <1>10. FirstWrite' /\ SecondWrite' /\ Between'
    BY <1>i DEF FirstWrite, SecondWrite, Between
  <1>12. Gate'
    <2>1. CASE p # Main
      <3> SUFFICES ASSUME Main \notin faulted', Load(Main)'.id = 0
                   PROVE  FALSE
        BY DEF Gate
      <3> QED
        BY <2>1, <1>0, <1>1, <1>5 DEF Gate
    <2>2. CASE p = Main
      BY <2>2, <1>8 DEF Gate
    <2> QED
      BY <2>1, <2>2
  <1>13. Clean'
    <2> SUFFICES ASSUME NEW q \in Pools \ (dirty' \cup unflagged' \cup faulted'),
                        clear' = 0, ~Owed(q)'
                 PROVE  Content(q)' = val'[q]
      BY DEF Clean
    <2>1. CASE q # p
      BY <2>1, <1>1, <1>5 DEF Clean
    <2>2. CASE q = p
      BY <2>2, <1>1, <1>8 DEF Content
    <2> QED
      BY <2>1, <2>2
  <1>14. Whole'
    <2>1. ASSUME NEW q \in Pools, NEW j \in {0, 1}, ~overlap, slot'[q][j].id > 0
          PROVE  slot'[q][j].val # Blank
      <3>1. val[q] # Blank
        BY <2>1, <1>1 DEF Whole
      <3>2. CASE q = p /\ j = k
        BY <3>1, <3>2, <1>4
      <3>3. CASE ~(q = p /\ j = k)
        BY <2>1, <3>3, <1>4, <1>5 DEF Whole
      <3> QED
        BY <3>2, <3>3
    <2> QED
      BY <2>1, <1>1, <1>2 DEF Whole
  <1>15. save.first = "done" => Content(p)' = val[p] /\ Load(p)'.id # 0
    BY <1>0, <1>8 DEF Content
  <1> QED
    BY <1>5, <1>6, <1>7, <1>9, <1>10, <1>12, <1>13, <1>14, <1>15

-----------------------------------------------------------------------------
(* The pieces of a factory reset. *)
LEMMA ClearStep ==
  ASSUME IInv,
         \/ FTE_CFG_clear \/ FTE_CFG_clearObject
         \/ ClearMainPart \/ ClearInstall
  PROVE  Shape'
  <1> USE PoolAssumption, ContentAssumption DEF IInv, Shape
  <1>0. Pools \subseteq Nat /\ Main \in Pools /\ clear \in Nat
    BY DEF Pools, Main, TypeOK
  <1>1. /\ slot' = slot /\ save' = save /\ up' = up /\ overlap' = overlap
        /\ unflagged' = unflagged /\ Unlocked /\ dirty \subseteq dirty'
        /\ faulted \subseteq faulted' /\ clear' # 0
    BY <1>0 DEF FTE_CFG_clear, FTE_CFG_clearObject, ClearPools, ClearMainPart,
                ClearInstall, historyVars
  <1>2. save = NoSave
    BY <1>1, IdleFacts DEF Unlocked
  <1>3. /\ Parity' /\ Quiescence' /\ FirstWrite' /\ Between' /\ SecondWrite'
        /\ \A q : ~InSave(q)' /\ ~InSave(q)
        /\ save'.pool = Main /\ save.pool = Main /\ save'.phase = "none"
    BY <1>1, <1>2, IdleStep DEF Unlocked
  <1>4. \A q : Load(q)' = Load(q) /\ ResetIsSafe(q)' = ResetIsSafe(q)
    BY <1>1, FlashFrame
  <1>5. Gate'
    BY <1>1, <1>3, <1>4 DEF Gate
  <1>6. Clean'
    BY <1>0, <1>1 DEF Clean
  <1>7. Aligned'
    <2>1. CASE id' = id
      BY <2>1, <1>1, <1>3, <1>4 DEF Aligned, Unlocked
    <2>2. ASSUME NEW S \in SUBSET Pools, ClearPools(S) PROVE Aligned'
      BY <2>2, <1>1, <1>3, <1>4 DEF Aligned, Unlocked, ClearPools
    <2> QED
      BY <2>1, <2>2 DEF FTE_CFG_clear, FTE_CFG_clearObject, ClearMainPart, ClearInstall
  <1>8. \A q \in Pools : q < clear' - 1 => val'[q] # Blank
    <2>1. CASE FTE_CFG_clear \/ FTE_CFG_clearObject \/ ClearMainPart
      BY <2>1, <1>0 DEF FTE_CFG_clear, FTE_CFG_clearObject, ClearPools, ClearMainPart, Pools
    <2>2. CASE ClearInstall
      BY <2>2, <1>0 DEF ClearInstall, Whole, TypeOK, Pools
    <2> QED
      BY <2>1, <2>2
  <1>9. Whole'
    BY <1>0, <1>1, <1>3, <1>8 DEF Whole
  <1> QED
    BY <1>3, <1>5, <1>6, <1>7, <1>9

(* The save that ends a factory reset. *)
LEMMA ClearSaveStep ==
  ASSUME IInv, ClearSave
  PROVE  Shape'
  <1> USE PoolAssumption DEF IInv, Shape
  <1>0. Pools \subseteq Nat /\ Main \in Pools
    BY DEF Pools, Main
  <1>1. /\ slot' = slot /\ up' = up /\ overlap' = overlap /\ id' = id /\ val' = val
        /\ unflagged' = unflagged /\ faulted' = faulted /\ dirty' = dirty
        /\ Unlocked /\ StartSave("force") /\ clear = NumPools + 2 /\ clear' = 0
    BY DEF ClearSave, historyVars, ramVars
  <1>2. /\ save'.phase = "next" /\ save'.first = "todo" /\ save'.pool = Main
        /\ \A q : ~InSave(q)'
        /\ \A q \in Pools : Owed(q)'
    BY <1>1, StartFacts
  <1>3. \A q : ~InSave(q)
    BY <1>1, IdleFacts DEF Unlocked
  <1>4. \A q : Load(q)' = Load(q) /\ ResetIsSafe(q)' = ResetIsSafe(q)
    BY <1>1, FlashFrame
  <1>5. Parity' /\ Quiescence' /\ Aligned' /\ FirstWrite' /\ Between' /\ SecondWrite'
    BY <1>1, <1>2, <1>3, <1>4, FlashFrame
       DEF Quiescence, Aligned, FirstWrite, Between, SecondWrite, Unlocked
  <1>6. Gate' /\ Clean'
    BY <1>1, <1>2, <1>4 DEF Gate, Clean
  <1>7. \A q \in Pools : q < clear - 1 /\ ~(q < clear' - 1)
    BY <1>1 DEF Pools
  <1>8. Whole'
    BY <1>1, <1>2, <1>7 DEF Whole
  <1> QED
    BY <1>5, <1>6, <1>8


(* Every reachable state of the store has the types of TypeOK, whatever    *)
(* the number of pools, their contents and the bounds.                     *)
THEOREM TypeCorrect == Spec => []TypeOK
  BY InitTypeOK, TypeStep, PTL DEF Spec

-----------------------------------------------------------------------------
(* Blank flash satisfies every part of Shape. *)
LEMMA InitShape == Init => Shape
  <1> SUFFICES ASSUME Init PROVE Shape
    OBVIOUS
  <1> USE PoolAssumption
  <1>0. Main \in Pools /\ TypeOK /\ ~up /\ save = NoSave /\ clear = 0 /\ ~overlap
    BY InitTypeOK DEF Init, Main, Pools
  <1>1. save.phase = "none" /\ save.first = "todo" /\ save.pool = Main
    BY <1>0 DEF NoSave
  <1>2. \A p \in Pools, k \in {0, 1} : slot[p][k].id = 0
    BY DEF Init, NoSlot
  <1>3. \A p \in Pools : Load(p).id = 0
    BY <1>2, LoadTypes, <1>0 DEF Load, Best, Newer, NoSlot
  <1>4. \A p \in Pools : ~(p < clear - 1)
    BY <1>0 DEF Pools
  <1>5. Parity /\ Quiescence /\ Aligned
    BY <1>0, <1>1, <1>2 DEF Parity, Quiescence, Aligned
  <1>6. FirstWrite /\ Between /\ SecondWrite
    BY <1>1 DEF FirstWrite, Between, SecondWrite, InSave
  <1>7. Gate /\ Clean
    BY <1>0, <1>1, <1>3 DEF Gate, Clean
  <1>8. Whole
    BY <1>0, <1>1, <1>2, <1>4 DEF Whole
  <1> QED
    BY <1>5, <1>6, <1>7, <1>8 DEF Shape

(* IInv is inductive: one step per action. *)
LEMMA InductiveStep == IInv /\ [Next]_vars => IInv'
  <1> SUFFICES ASSUME IInv, [Next]_vars
               PROVE  Shape'
    BY TypeStep DEF IInv
  <1>1. CASE Boot
    BY <1>1, BootStep
  <1>2. CASE Crash
    BY <1>2, CrashStep
  <1>3. ASSUME NEW p \in Pools, NEW v \in Vals, Set(p, v) \/ SetUnflagged(p, v)
        PROVE  Shape'
    BY <1>3, SetStep
  <1>4. CASE MainTaskSave \/ AutoSave
    BY <1>4, StartStep DEF MainTaskSave, AutoSave, ramVars, historyVars
  <1>5. CASE ForceSave
    BY <1>5, StartStep DEF ForceSave, ramVars, historyVars
  <1>6. ASSUME NEW v \in Vals \cup {val[Main]}, NEW m \in {"modified", "force"}, ShellSave(v, m)
        PROVE  Shape'
    BY <1>6, ShellSaveStep
  <1>7. ASSUME NEW p \in Pools, SaveStep(p)
        PROVE  Shape'
    BY <1>7, SkipStep, BeginFirstStep, BeginSecondStep, EndFirstStep, EndSecondStep DEF SaveStep
  <1>8. ASSUME NEW p \in Pools,
               WriteUntagged(p) \/ OpenFails(p) \/ WriteRefused(p) \/ WriteFails(p)
        PROVE  Shape'
    BY <1>8, MissedStep, AbortStep
  <1>9. CASE EndSave
    BY <1>9, EndSaveStep
  <1>10. CASE FTE_CFG_clear \/ FTE_CFG_clearObject \/ ClearMainPart \/ ClearInstall
    BY <1>10, ClearStep
  <1>11. CASE ClearSave
    BY <1>11, ClearSaveStep
  <1>12. CASE UNCHANGED vars
    BY <1>12 DEF vars, historyVars, IInv, Shape, Parity, Quiescence, Aligned, FirstWrite,
       Between, SecondWrite, Gate, Clean, Whole, Chosen, InSave, Owed, Content, Load,
       ResetIsSafe, Stored
  <1> QED
    BY <1>1, <1>2, <1>3, <1>4, <1>5, <1>6, <1>7, <1>8, <1>9, <1>10, <1>11, <1>12 DEF Next

(* The inductive invariant holds of the two-slot scheme. *)
THEOREM Invariance == Spec => []IInv
  <1>1. Init => IInv
    BY InitTypeOK, InitShape DEF IInv
  <1> QED
    BY <1>1, InductiveStep, PTL DEF Spec

(* What a boot brings back is what the pool's own slots hold, if the main  *)
(* pool has not been hit by a flash fault.                                 *)
LEMMA RecoveredFacts ==
  ASSUME IInv, NEW p \in Pools \ faulted, Main \notin faulted
  PROVE  Recovered(p) = Content(p)
  BY PoolAssumption DEF IInv, Shape, Gate, Recovered, Loaded, Content, NoSlot

(* FTE_CFG_save and the setters that raise the modified flag lose no       *)
(* change, for any number of pools and any number of crashes.              *)
THEOREM NothingForgotten == Spec => []CleanMeansSaved
  <1>1. IInv => CleanMeansSaved
    <2> SUFFICES ASSUME IInv, Unlocked, clear = 0,
                        NEW p \in Pools, p \notin dirty \cup unflagged \cup faulted,
                        Main \notin faulted
                 PROVE  Recovered(p) = val[p]
      BY DEF CleanMeansSaved
    <2>1. ~Owed(p)
      BY IdleFacts DEF IInv, Shape, Unlocked
    <2>2. Content(p) = val[p]
      BY <2>1 DEF IInv, Shape, Clean, Unlocked
    <2> QED
      BY <2>2, RecoveredFacts
  <1> QED
    BY <1>1, Invariance, PTL

(* FTE_CFG_clear leaves nothing half reset to boot from, if no save of     *)
(* another task falls into it.                                             *)
THEOREM ResetIsWhole == Spec => []WholeUnlessOverlap
  <1>1. IInv => WholeUnlessOverlap
    <2> SUFFICES ASSUME IInv, ~overlap, NEW p \in Pools
                 PROVE  Recovered(p) # Blank
      BY DEF WholeUnlessOverlap
    <2>1. slot[p] \in [{0, 1} -> Slot]
      BY DEF IInv, TypeOK
    <2>2. Load(p).id \in Nat /\ (Load(p).id > 0 => Load(p).val # Blank)
      BY <2>1, BestFacts DEF IInv, Shape, Whole, Load, Slot
    <2> QED
      BY <2>2, ContentAssumption DEF Recovered, Loaded, NoSlot
  <1> QED
    BY <1>1, Invariance, PTL

-----------------------------------------------------------------------------
(***************************************************************************)
(* The store implements AtomicStore.                                       *)
(***************************************************************************)
(* What a boot brings back while the main pool is sound. *)
LEMMA RecoveredNext ==
  ASSUME IInv', NEW p \in Pools, p \notin faulted', Main \notin faulted'
  PROVE  Recovered(p)' = Content(p)'
  BY PoolAssumption DEF IInv, Shape, Gate, Recovered, Loaded, Content, NoSlot

(* A step that leaves the flash alone changes nothing a boot brings back. *)
LEMMA DurableFrame ==
  ASSUME slot' = slot
  PROVE  [p \in Pools |-> Recovered(p)]' = [p \in Pools |-> Recovered(p)]
  BY DEF Recovered, Loaded, Load

(* The refinement mapping has the type AtomicStore gives "durable". *)
LEMMA DurableType ==
  /\ TypeOK => [p \in Pools |-> Recovered(p)] \in [Pools -> Contents]
  /\ TypeOK' => [p \in Pools |-> Recovered(p)]' \in [Pools -> Contents]
  <1>1. TypeOK => [p \in Pools |-> Recovered(p)] \in [Pools -> Contents]
    BY LoadTypes
  <1>2. ASSUME TypeOK' PROVE \A p \in Pools : Recovered(p)' \in Contents
    <2> TAKE p \in Pools
    <2>1. slot'[p] \in [{0, 1} -> Slot]
      BY <1>2 DEF TypeOK
    <2>2. Load(p)' \in Slot /\ NoSlot \in Slot
      BY <2>1, BestFacts DEF Load, NoSlot, Slot, Contents
    <2> QED
      BY <2>2 DEF Recovered, Loaded, Slot, Contents
  <1> QED
    BY <1>1, <1>2

(* Where a write of p leaves the promise in force, only p may change. *)
LEMMA WriteKeeps ==
  ASSUME IInv, IInv', NEW p \in Pools, NEW q \in Pools, q # p,
         \A r \in Pools \ {p} : slot'[r] = slot[r],
         q \notin faulted, Main \notin faulted,
         faulted' \subseteq faulted
  PROVE  Recovered(q)' = Recovered(q)
  <1>1. Content(q)' = Content(q)
    BY DEF Content, Load
  <1>2. Recovered(q) = Content(q)
    BY RecoveredFacts
  <1>3. Recovered(q)' = Content(q)'
    BY RecoveredNext
  <1> QED
    BY <1>1, <1>2, <1>3

(* The end of a sector's write is a Commit, a Complete or a Lose of the    *)
(* abstract store, or changes nothing it can see.                          *)
LEMMA WriteRefines ==
  ASSUME IInv, IInv', NEW p \in Pools, BeginWrite(p) \/ EndWrite(p)
  PROVE  [Store!Next]_(Store!vars)
  <1> DEFINE D == [q \in Pools |-> Recovered(q)]
  <1> USE PoolAssumption
  <1>0. D' \in [Pools -> Contents] /\ Main \in Pools
    BY DurableType DEF IInv, Main, Pools
  <1>1. up /\ up' = up /\ val' = val
    BY DEF BeginWrite, EndWrite, Selected, Saving
  <1>2. \A r \in Pools \ {p} : slot'[r] = slot[r]
    BY BeginFirstStep, BeginSecondStep, EndFirstStep, EndSecondStep
  <1>3. ASSUME faulted' = faulted
        PROVE  [Store!Next]_(Store!vars)
    <2>1. ASSUME NEW q \in Pools \ {p}, q \notin faulted, Main \notin faulted
          PROVE  D'[q] = D[q]
      BY <1>2, <1>3, <2>1, WriteKeeps
    <2>2. CASE p \in faulted \/ Main \in faulted
      <3>1. Store!Lose
        BY <1>0, <1>1, <1>3, <2>1, <2>2 DEF Store!Lose, Store!Unreliable
      <3> QED
        BY <3>1 DEF Store!Next
    <2>3. CASE p \notin faulted /\ Main \notin faulted
      <3>1. Content(p)' = val[p] \/ Content(p)' = Content(p)
        <4>1. CASE BeginWrite(p)
          BY <4>1, <2>3, BeginFirstStep, BeginSecondStep
        <4>2. CASE EndWrite(p) /\ save.first = "todo"
          BY <4>2, <2>3, EndFirstStep
        <4>3. CASE EndWrite(p) /\ save.first # "todo"
          <5>1. save.first = "done"
            BY <4>3, <2>3 DEF IInv, Shape, Quiescence, EndWrite, Saving, TypeOK, SaveStates
          <5> QED
            BY <4>3, <5>1, EndSecondStep
        <4> QED
          BY <4>1, <4>2, <4>3
      <3>2. Recovered(p) = Content(p) /\ Recovered(p)' = Content(p)'
        BY <2>3, <1>3, RecoveredFacts, RecoveredNext
      <3>3. CASE Content(p)' = val[p]
        <4>1. D'[p] = val[p]
          BY <3>2, <3>3
        <4>2. Store!Commit(p)
          BY <1>0, <1>1, <1>3, <2>1, <2>3, <4>1
             DEF Store!Commit, Store!OthersKeep, Store!Unreliable
        <4> QED
          BY <4>2 DEF Store!Next
      <3>4. CASE Content(p)' = Content(p)
        <4>1. D'[p] = D[p]
          BY <3>2, <3>4
        <4>2. Store!Lose
          BY <1>0, <1>1, <1>3, <2>1, <2>3, <4>1 DEF Store!Lose, Store!Unreliable
        <4> QED
          BY <4>2 DEF Store!Next
      <3> QED
        BY <3>1, <3>3, <3>4
    <2> QED
      BY <2>2, <2>3
  <1>4. ASSUME faulted' # faulted
        PROVE  [Store!Next]_(Store!vars)
    <2>1. EndWrite(p) /\ save.first = "done" /\ faulted' = faulted \ {p}
          /\ save.phase = "write" /\ save.pool = p
      <3>1. EndWrite(p) /\ save.phase = "write" /\ save.pool = p
        BY <1>4 DEF BeginWrite, EndWrite, Saving
      <3>2. AfterSecond(p, "done")
        BY <1>4, <3>1 DEF EndWrite, AfterWrite, AfterFirst
      <3>3. save.first \in {"todo", "done", "missed"} /\ save.first # "todo"
        BY <1>4, <3>1 DEF IInv, TypeOK, SaveStates, EndWrite, AfterWrite, AfterFirst
      <3>4. save.first # "missed"
        BY <1>4, <3>1, <3>2 DEF AfterSecond, IInv, Shape, Quiescence
      <3> QED
        BY <3>1, <3>2, <3>3, <3>4 DEF AfterSecond
    <2>2. Content(p)' = val[p]
      BY <2>1, EndSecondStep
    <2>3. ASSUME Main \notin faulted'
          PROVE  D'[p] = val[p]
      BY <2>1, <2>2, <2>3, RecoveredNext
    <2>4. p = Main => Main \notin faulted'
      BY <2>1
    <2>5. ASSUME NEW q \in Pools \ {p}, q \notin faulted, Main \notin faulted
          PROVE  D'[q] = D[q]
      BY <1>2, <2>1, <2>5, WriteKeeps
    <2>6. Store!OthersKeep(p)
      BY <1>0, <2>5 DEF Store!OthersKeep, Store!Unreliable
    <2>7. D'[p] = val[p] \/ (p # Main /\ Main \in faulted)
      BY <2>1, <2>3, <2>4
    <2>8. Store!Complete(p)
      BY <1>0, <1>1, <2>1, <2>6, <2>7 DEF Store!Complete
    <2> QED
      BY <2>8 DEF Store!Next
  <1> QED
    BY <1>3, <1>4

(* Every step of the store is a step of AtomicStore or a stutter. *)
LEMMA StepRefines ==
  ASSUME IInv, IInv', [Next]_vars
  PROVE  [Store!Next]_(Store!vars)
  <1> DEFINE D == [q \in Pools |-> Recovered(q)]
  <1>0. /\ val \in [Pools -> Contents] /\ val' \in [Pools -> Contents]
        /\ faulted \subseteq Pools /\ faulted' \subseteq Pools
    BY DEF IInv, TypeOK
  <1>1. CASE Boot
    <2>1. D' = D /\ val' = D
      BY <1>1, DurableFrame DEF Boot
    <2>2. Store!Boot
      BY <1>1, <1>0, <2>1 DEF Boot, Store!Boot
    <2> QED
      BY <2>2 DEF Store!Next
  <1>2. CASE Crash
    <2>1. D' = D
      BY <1>2, DurableFrame DEF Crash
    <2>2. Store!Crash
      BY <1>2, <1>0, <2>1 DEF Crash, Store!Crash
    <2> QED
      BY <2>2 DEF Store!Next
  <1>3. CASE \/ \E p \in Pools, v \in Vals : Set(p, v) \/ SetUnflagged(p, v)
             \/ \E v \in Vals \cup {val[Main]}, m \in {"modified", "force"} : ShellSave(v, m)
             \/ ClearMainPart \/ ClearInstall
    <2>1. slot' = slot /\ up /\ up' = up /\ faulted' = faulted
      BY <1>3 DEF Set, SetUnflagged, ShellSave, ClearMainPart, ClearInstall, Unlocked, historyVars
    <2>2. D' = D
      BY <2>1, DurableFrame
    <2>3. Store!Edit
      BY <1>0, <2>1, <2>2 DEF Store!Edit
    <2> QED
      BY <2>3 DEF Store!Next
  <1>4. CASE \/ MainTaskSave \/ AutoSave \/ ForceSave \/ EndSave \/ ClearSave
             \/ UNCHANGED vars
             \/ \E p \in Pools : SkipPool(p)
    <2>1. slot' = slot /\ val' = val /\ up' = up /\ faulted' = faulted
      BY <1>4 DEF MainTaskSave, AutoSave, ForceSave, EndSave, ClearSave, SkipPool,
                  vars, ramVars, historyVars
    <2>2. D' = D
      BY <2>1, DurableFrame
    <2> QED
      BY <2>1, <2>2 DEF Store!vars
  <1>5. CASE \E p \in Pools : BeginWrite(p) \/ EndWrite(p)
    BY <1>5, WriteRefines
  <1>6. CASE \E p \in Pools :
               WriteUntagged(p) \/ OpenFails(p) \/ WriteRefused(p) \/ WriteFails(p)
    <2>1. slot' = slot /\ val' = val /\ up /\ up' = up /\ faulted \subseteq faulted'
      BY <1>6 DEF WriteUntagged, OpenFails, WriteRefused, WriteFails, Selected, Saving, AfterWrite,
                  AfterFirst, AfterSecond, AbortSave, ramVars
    <2>2. D' = D
      BY <2>1, DurableFrame
    <2>3. Store!Fault
      BY <1>0, <2>1, <2>2 DEF Store!Fault
    <2> QED
      BY <2>3 DEF Store!Next
  <1>7. CASE FTE_CFG_clear \/ FTE_CFG_clearObject
    <2>1. slot' = slot /\ up /\ up' = up /\ faulted \subseteq faulted'
      BY <1>7 DEF FTE_CFG_clear, FTE_CFG_clearObject, ClearPools, Unlocked
    <2>2. D' = D
      BY <2>1, DurableFrame
    <2>3. Store!Reset
      BY <1>0, <2>1, <2>2 DEF Store!Reset
    <2> QED
      BY <2>3 DEF Store!Next
  <1> QED
    BY <1>1, <1>2, <1>3, <1>4, <1>5, <1>6, <1>7 DEF Next, SaveStep

(* The two-slot scheme of FTE_CFG_save and FTE_CFG_init implements one     *)
(* durable register per pool, for any number of pools, contents, crashes   *)
(* and faults.                                                             *)
THEOREM Refinement == Spec => IsAtomicStore
  <1>1. Init => Store!Init
    <2> SUFFICES ASSUME Init PROVE Store!Init
      OBVIOUS
    <2>1. TypeOK
      BY InitTypeOK
    <2>2. [p \in Pools |-> Recovered(p)] \in [Pools -> Contents]
      BY <2>1, DurableType
    <2> QED
      BY <2>1, <2>2 DEF Init, Store!Init, TypeOK
  <1>2. IInv /\ IInv' /\ [Next]_vars => [Store!Next]_(Store!vars)
    BY StepRefines
  <1> QED
    BY <1>1, <1>2, Invariance, PTL DEF Spec, IsAtomicStore, Store!Spec
=============================================================================
