---------------------------- MODULE AtomicStore ----------------------------
(***************************************************************************)
(* What a configuration store promises: each pool is a durable register.   *)
(* "durable" is what a reboot would bring back, "mem" the working copy.    *)
(* A pool's durable content moves only to the working copy, in one step,   *)
(* whenever the power may fail.  The promise is suspended for a pool on    *)
(* which a flash access has failed, and for every pool while the main pool *)
(* is in that condition, until a save of the pool goes through.            *)
(***************************************************************************)
CONSTANTS Pools,      \* the pools of the store
          Main,       \* the pool that gates the loading of the others
          Contents    \* what a pool can hold

VARIABLES mem, durable, faulted, up
vars == <<mem, durable, faulted, up>>

TypeOK ==
  /\ mem \in [Pools -> Contents]
  /\ durable \in [Pools -> Contents]
  /\ faulted \subseteq Pools
  /\ up \in BOOLEAN

Init ==
  /\ up = FALSE
  /\ mem \in [Pools -> Contents]
  /\ durable \in [Pools -> Contents]
  /\ faulted = {}

(* The pools for which nothing is promised at this moment. *)
Unreliable == IF Main \in faulted THEN Pools ELSE faulted

(* Nothing else than an unreliable pool, or p itself, changes on flash. *)
OthersKeep(p) ==
  \A q \in Pools \ (Unreliable \cup {p}) : durable'[q] = durable[q]

(* The working copies change. *)
Edit ==
  /\ up
  /\ mem' \in [Pools -> Contents]
  /\ UNCHANGED <<durable, faulted, up>>

(* A flash access fails, on one pool or on several. *)
Fault ==
  /\ up
  /\ faulted \subseteq faulted' /\ faulted' \subseteq Pools
  /\ UNCHANGED <<mem, durable, up>>

(* The working copies are cleared, which some pools may not survive. *)
Reset ==
  /\ up
  /\ mem' \in [Pools -> Contents]
  /\ faulted \subseteq faulted' /\ faulted' \subseteq Pools
  /\ UNCHANGED <<durable, up>>

(* The working copy of p becomes the durable one, at one instant. *)
Commit(p) ==
  /\ up
  /\ durable' \in [Pools -> Contents]
  /\ durable'[p] = mem[p]
  /\ OthersKeep(p)
  /\ UNCHANGED <<mem, faulted, up>>

(* A save of p has gone through: the promise holds again for p, and if the *)
(* main pool is sound its working copy is the durable one.                 *)
Complete(p) ==
  /\ up
  /\ durable' \in [Pools -> Contents]
  /\ durable'[p] = mem[p] \/ (p # Main /\ Main \in faulted)
  /\ OthersKeep(p)
  /\ faulted' = faulted \ {p}
  /\ UNCHANGED <<mem, up>>

(* The content of an unreliable pool may be lost. *)
Lose ==
  /\ durable' \in [Pools -> Contents]
  /\ \A q \in Pools \ Unreliable : durable'[q] = durable[q]
  /\ UNCHANGED <<mem, faulted, up>>

Crash ==
  /\ up /\ up' = FALSE
  /\ mem' \in [Pools -> Contents]
  /\ UNCHANGED <<durable, faulted>>

(* A boot brings back the durable contents. *)
Boot ==
  /\ ~up /\ up' = TRUE
  /\ mem' = durable
  /\ faulted \subseteq faulted' /\ faulted' \subseteq Pools
  /\ UNCHANGED durable

Next ==
  \/ Edit
  \/ Fault
  \/ Reset
  \/ \E p \in Pools : Commit(p) \/ Complete(p)
  \/ Lose
  \/ Crash
  \/ Boot

Spec == Init /\ [][Next]_vars
=============================================================================
