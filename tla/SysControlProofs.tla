-------------------------- MODULE SysControlProofs --------------------------
(***************************************************************************)
(* Proofs about SysControl, for every detection time, keepalive time,      *)
(* period of the main loop and delay of its saves.                         *)
(*                                                                         *)
(* A reset by supervision and a factory reset each have their cause.  For  *)
(* the first, the code's clock (age of _xLastCheckTime) is what it should  *)
(* measure, and nothing makes a stable system unstable but a fault or the  *)
(* silence of the managers.  For the second, a timer that runs although    *)
(* the button is released is younger, in the main loop's own time, than    *)
(* the loop's longest round.                                               *)
(***************************************************************************)
EXTENDS SysControl, TLAPS

(* Where the main task is in its round, and for how long at most. *)
MainInTime ==
  /\ main.at = "sleep" => main.t <= Period
  /\ main.at = "save"  => main.t <= MaxLate
  /\ main.at = "alert" => main.t <= ResetDelay /\ ~stable

(* Whoever is unstable has a reason to be. *)
Caused ==
  /\ age = hist.silent
  /\ monitor /\ hist.silent > KeepAlive => hist.lost
  /\ ~stable => hist.lost

(* How long ago the button of a running timer may have been released: the  *)
(* part of the main task's round that is over.                             *)
Unseen ==
  CASE main.at = "sleep" -> Period - main.t
    [] main.at = "save"  -> Period + main.t
    [] main.at = "alert" -> Period + MaxLate + ResetDelay - main.t

Held ==
  /\ button => hist.gap = 0
  /\ timer # Off => hist.gap <= Unseen

IInv == TypeOK /\ MainInTime /\ Caused /\ Held

-----------------------------------------------------------------------------
(* A reset leads to a state like the first one. *)
LEMMA RestartStep == IInv /\ Restart => IInv'
  <1> SUFFICES ASSUME IInv, Restart PROVE IInv'
    OBVIOUS
  <1> USE SysAssumption DEF Off, Late
  <1>1. TypeOK'
    <2>1. hist' \in [gap : 0 .. Late + 1, silent : 0 .. KeepAlive + 1, lost : BOOLEAN]
      BY DEF IInv, TypeOK, Restart
    <2>2. /\ button' \in BOOLEAN /\ link' \in BOOLEAN
          /\ conf' \in BOOLEAN /\ monitor' \in BOOLEAN /\ stable' \in BOOLEAN
      BY Zenon DEF IInv, TypeOK, Restart
    <2>3. /\ age' \in 0 .. KeepAlive + 1
          /\ main' \in [at : {"sleep", "save", "alert"}, t : 0 .. Late]
          /\ timer' \in Off .. Detect /\ cb' \in Off .. ResetDelay
      BY DEF Restart
    <2> QED
      BY <2>1, <2>2, <2>3 DEF TypeOK
  <1>2. MainInTime' /\ Caused' /\ Held'
    BY DEF IInv, TypeOK, MainInTime, Caused, Held, Unseen, Restart
  <1> QED
    BY <1>1, <1>2 DEF IInv

(* The steps of the main task, the net daemon, the managers, the shell and *)
(* the environment, except for the passing of time.                        *)
LEMMA TaskStep ==
  ASSUME IInv,
         \/ MainWakes \/ MainAlerts \/ MainPolls \/ Clear \/ NetdLooks \/ Touch
         \/ MonitorStart \/ MonitorStop \/ Fault \/ Press \/ Release \/ Plug
  PROVE  IInv'
  <1> USE SysAssumption DEF IInv, TypeOK, MainInTime, Caused, Held, Unseen, Off, Late
  <1>1. CASE MainWakes
    BY <1>1 DEF MainWakes
  <1>2. CASE MainAlerts
    BY <1>2 DEF MainAlerts
  <1>3. CASE MainPolls
    BY <1>3 DEF MainPolls, Poll
  <1>4. CASE Clear
    <2>1. conf' \in BOOLEAN
      BY <1>4, Zenon DEF Clear
    <2>2. cb' \in Off .. ResetDelay
      BY <1>4 DEF Clear
    <2> QED
      BY <1>4, <2>1, <2>2 DEF Clear
  <1>5. CASE NetdLooks
    BY <1>5 DEF NetdLooks
  <1>6. CASE Touch
    BY <1>6 DEF Touch
  <1>7. CASE MonitorStart
    BY <1>7 DEF MonitorStart
  <1>8. CASE MonitorStop
    BY <1>8 DEF MonitorStop
  <1>9. CASE Fault
    BY <1>9 DEF Fault
  <1>10. CASE Press
    BY <1>10 DEF Press
  <1>11. CASE Release
    BY <1>11 DEF Release
  <1>12. CASE Plug
    BY <1>12 DEF Plug
  <1> QED
    BY <1>1, <1>2, <1>3, <1>4, <1>5, <1>6, <1>7, <1>8, <1>9, <1>10, <1>11, <1>12

(* Time passes for the timers, the ages and the main task alike. *)
LEMMA TickStep == IInv /\ Tick => IInv'
  <1> SUFFICES ASSUME IInv, Tick PROVE IInv'
    OBVIOUS
  <1> USE SysAssumption DEF Off, Late
  <1>1. TypeOK'
    BY DEF IInv, TypeOK, MainInTime, Tick, Down, Cap
  <1>2. MainInTime'
    BY DEF IInv, TypeOK, MainInTime, Tick
  <1>3. Caused'
    BY DEF IInv, TypeOK, Caused, Tick, Cap
  <1>4. Held'
    BY DEF IInv, TypeOK, MainInTime, Held, Unseen, Tick, Down, Cap
  <1> QED
    BY <1>1, <1>2, <1>3, <1>4 DEF IInv

(* Every behaviour of the supervision keeps the inductive invariant.       *)
THEOREM SysInvariance == Spec => []IInv
  <1>1. Init => IInv
    BY SysAssumption DEF Init, IInv, TypeOK, MainInTime, Caused, Held, Unseen, Off, Late
  <1>2. IInv /\ [Next]_vars => IInv'
    <2> SUFFICES ASSUME IInv, [Next]_vars PROVE IInv'
      OBVIOUS
    <2>1. CASE UNCHANGED vars
      BY <2>1 DEF vars, IInv, TypeOK, MainInTime, Caused, Held, Unseen
    <2>2. CASE MainResets \/ CallbackResets
      BY <2>2, RestartStep DEF MainResets, CallbackResets
    <2>3. CASE Tick
      BY <2>3, TickStep
    <2>4. CASE \/ MainWakes \/ MainAlerts \/ MainPolls \/ Clear \/ NetdLooks \/ Touch
               \/ MonitorStart \/ MonitorStop \/ Fault \/ Press \/ Release \/ Plug
      BY <2>4, TaskStep
    <2> QED
      BY <2>1, <2>2, <2>3, <2>4 DEF Next, Main, TimerTask
  <1> QED
    BY <1>1, <1>2, PTL DEF Spec

(* The variables of the supervision keep their types: no counter runs out  *)
(* of its range, whatever the times are.                                   *)
THEOREM SysTypeCorrect == Spec => []TypeOK
  <1>1. IInv => TypeOK
    BY DEF IInv
  <1> QED
    BY <1>1, SysInvariance, PTL

(* FTE_SYS_liveCheckAndReset resets the node only for a fault or for a     *)
(* silence of more than KeepAlive while it was monitored.                  *)
THEOREM ResetHasCause == Spec => []AlertHasCause
  <1>1. IInv => AlertHasCause
    BY DEF IInv, MainInTime, Caused, AlertHasCause
  <1> QED
    BY <1>1, SysInvariance, PTL

(* _FTE_SYS_CB_factoryReset clears the configuration only while the button *)
(* is held or at most a round of the main loop after its release.          *)
THEOREM ClearIsWanted == Spec => ClearsWhenHeld
  <1>1. IInv /\ [Next]_vars => [cb = Off /\ cb' # Off => hist.gap <= Late]_vars
    <2> SUFFICES ASSUME IInv, Next, cb = Off, cb' # Off
                 PROVE  hist.gap <= Late
      OBVIOUS
    <2>1. Clear
      BY DEF Next, Main, TimerTask, MainWakes, MainAlerts, MainResets, MainPolls,
             CallbackResets, Restart, NetdLooks, Touch, MonitorStart, MonitorStop, Fault,
             Press, Release, Plug, Tick, Down, Off
    <2>2. timer # Off
      BY <2>1 DEF Clear, Off
    <2> QED
      BY <2>2, SysAssumption DEF IInv, TypeOK, MainInTime, Held, Unseen, Late
  <1> QED
    BY <1>1, SysInvariance, PTL DEF Spec, ClearsWhenHeld
=============================================================================
