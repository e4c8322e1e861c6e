---------------------------- MODULE BoundedLog -----------------------------
(***************************************************************************)
(* What the node's log promises: it keeps the last Cap entries, oldest     *)
(* first, and a restart brings back the log as some save found it, or an   *)
(* empty one if the power failed while the only copy was being rewritten.  *)
(***************************************************************************)
EXTENDS Naturals, Sequences

CONSTANTS Entry,   \* what can be logged
          Cap      \* the number of entries the log can hold

VARIABLES log, saved, up
vars == <<log, saved, up>>

Init ==
  /\ log = << >>
  /\ saved = << >>
  /\ up = FALSE

Latest(s) == IF Len(s) > Cap THEN Tail(s) ELSE s

Add(e) ==
  /\ up
  /\ log' = Latest(Append(log, e))
  /\ UNCHANGED <<saved, up>>

DeleteOldest(n) ==
  /\ up
  /\ log' = SubSeq(log, n + 1, Len(log))
  /\ UNCHANGED <<saved, up>>

Save ==
  /\ up
  /\ saved' = log
  /\ UNCHANGED <<log, up>>

Rewrite ==
  /\ up
  /\ saved' = << >>
  /\ UNCHANGED <<log, up>>

Restart ==
  /\ ~up /\ up' = TRUE
  /\ log' = saved
  /\ UNCHANGED saved

Stop ==
  /\ up /\ up' = FALSE
  /\ log' = << >>
  /\ UNCHANGED saved

Next ==
  \/ \E e \in Entry : Add(e)
  \/ \E n \in 1 .. Len(log) : DeleteOldest(n)
  \/ Save
  \/ Rewrite
  \/ Restart
  \/ Stop

Spec == Init /\ [][Next]_vars
=============================================================================
