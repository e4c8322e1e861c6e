----------------------------- MODULE SysControl -----------------------------
(***************************************************************************)
(* When the node restarts itself: the supervision in sys/fte_sys.c and     *)
(* net/fte_net.c, called from the main loop (task/fte_task_main.c), the    *)
(* net daemon and the object manager, and the factory reset button.        *)
(*                                                                         *)
(* The main task comes round every Period: it saves what has changed,      *)
(* which takes up to MaxLate, looks whether the system is stable, and      *)
(* polls the button.  A press it sees starts a timer, a release it sees    *)
(* cancels it; the timer's callback, in MQX's timer task, clears the       *)
(* configuration and resets the node one second later.  A time unit is     *)
(* the second of the main loop; ages count up to a cap.                    *)
(***************************************************************************)
EXTENDS Integers

CONSTANTS
  Detect,      \* FTE_FACTORY_RESET_DETECT_TIME
  KeepAlive,   \* _ulKeepAliveTime
  Period,      \* FTE_SYS_LIVE_CHECK_INTERVAL * 10 ms
  MaxLate,     \* how long the saves of the main loop take at most
  ResetDelay   \* the delays before FTE_SYS_reset

ASSUME SysAssumption ==
  /\ Detect \in Nat /\ KeepAlive \in Nat /\ Period \in Nat
  /\ MaxLate \in Nat /\ ResetDelay \in Nat
  /\ Detect > 0 /\ Period > 0
  /\ KeepAlive > Detect + Period + MaxLate + ResetDelay

VARIABLES
  button,    \* the pin, and with it _bFactoryResetPushed
  link,      \* the cable
  conf,      \* bSystemMonitor of the configuration
  monitor,   \* _bLiveCheck
  age,       \* time since _xLastCheckTime
  stable,    \* bSystemIsStable
  main,      \* the main task: where it is, and for how long still or already
  timer,     \* what the timer _hFactoryResetTimer has left, or Off
  cb,        \* what the callback has left until the reset, or Off
  hist       \* history: see Init

vars == <<button, link, conf, monitor, age, stable, main, timer, cb, hist>>

Off == -1

(* From one poll of the button to the next, or to a reset by supervision. *)
Late == Period + MaxLate + ResetDelay
Cap(n, max) == IF n > max THEN max ELSE n

(* hist.gap: time since the button was last pressed.  hist.silent: time    *)
(* since a manager was heard, monitoring began or the node started.        *)
(* hist.lost: that was longer than KeepAlive while monitoring was on, or   *)
(* an object stopped measuring or the memory ran out, since the start.     *)
Init ==
  /\ button \in BOOLEAN /\ link \in BOOLEAN /\ conf \in BOOLEAN
  /\ monitor = conf
  /\ age = 0 /\ stable = TRUE
  /\ main = [at |-> "save", t |-> 0]
  /\ timer = Off /\ cb = Off
  /\ hist = [gap |-> IF button THEN 0 ELSE Late + 1, silent |-> 0, lost |-> FALSE]

(* FTE_SYS_reset: the node starts again from its configuration. *)
Restart ==
  /\ monitor' = conf
  /\ age' = 0 /\ stable' = TRUE
  /\ main' = [at |-> "save", t |-> 0]
  /\ timer' = Off /\ cb' = Off
  /\ hist' = [gap |-> hist.gap, silent |-> 0, lost |-> FALSE]
  /\ UNCHANGED <<button, link, conf>>

-----------------------------------------------------------------------------
(* The main task. *)
MainWakes ==
  /\ main = [at |-> "sleep", t |-> 0]
  /\ main' = [at |-> "save", t |-> 0]
  /\ UNCHANGED <<button, link, conf, monitor, age, stable, timer, cb, hist>>

(* Mutant: the state is shown and the loop goes on. *)
MainAlerts_ShowOnly ==
  /\ main.at = "save" /\ monitor /\ ~stable
  /\ main' = [at |-> "sleep", t |-> Period]
  /\ UNCHANGED <<button, link, conf, monitor, age, stable, timer, cb, hist>>

(* FTE_SYS_liveCheckAndReset finds the system unstable ... *)
MainAlerts ==
  /\ main.at = "save" /\ monitor /\ ~stable
  /\ main' = [at |-> "alert", t |-> ResetDelay]
  /\ UNCHANGED <<button, link, conf, monitor, age, stable, timer, cb, hist>>

MainResets ==
  /\ main = [at |-> "alert", t |-> 0]
  /\ Restart

(* Mutant: every poll starts the timer again. *)
Poll_Again == IF button THEN Detect ELSE Off

(* Mutant: a release leaves the timer running. *)
Poll_NoCancel == IF button /\ timer = Off THEN Detect ELSE timer

(* ... or the loop goes on to FTE_SYS_factoryReset, and sleeps until the   *)
(* next full Period.                                                       *)
Poll == IF ~button THEN Off ELSE IF timer = Off THEN Detect ELSE timer

MainPolls ==
  /\ main.at = "save" /\ ~(monitor /\ ~stable)
  /\ timer' = Poll
  /\ main' = [at |-> "sleep", t |-> IF main.t < Period THEN Period - main.t ELSE 0]
  /\ UNCHANGED <<button, link, conf, monitor, age, stable, cb, hist>>

-----------------------------------------------------------------------------
(* MQX's timer task: _FTE_SYS_CB_factoryReset clears the configuration,    *)
(* waits for one second in all, and resets.  It leaves the handle of its   *)
(* timer, so that a release seen meanwhile reports a reset as canceled     *)
(* that goes on.  (MQX holds the lock of its timers while it calls back:   *)
(* the main task then waits in _timer_cancel.  Here it goes on; the reset  *)
(* ends it either way.)                                                    *)
Clear ==
  /\ timer = 0 /\ cb = Off
  /\ conf' = FALSE
  /\ cb' = ResetDelay
  /\ UNCHANGED <<button, link, monitor, age, stable, main, timer, hist>>

CallbackResets ==
  /\ cb = 0
  /\ Restart

-----------------------------------------------------------------------------
(* The net daemon finds that no manager has called for too long.           *)
NetdLooks ==
  /\ link /\ monitor /\ age > KeepAlive
  /\ stable' = FALSE
  /\ UNCHANGED <<button, link, conf, monitor, age, main, timer, cb, hist>>

(* FTE_NET_liveTouch: a manager calls, at the management port or by SNMP.  *)
Touch ==
  /\ link
  /\ age' = 0
  /\ hist' = [hist EXCEPT !.silent = 0]
  /\ UNCHANGED <<button, link, conf, monitor, stable, main, timer, cb>>

(* Mutant: starting the monitor leaves _xLastCheckTime alone. *)
MonitorStart_Stale ==
  /\ conf' = TRUE /\ monitor' = TRUE
  /\ hist' = [hist EXCEPT !.silent = 0]
  /\ UNCHANGED <<button, link, age, stable, main, timer, cb>>

(* The shell's "sys monitor start" and "stop". *)
MonitorStart ==
  /\ conf' = TRUE /\ monitor' = TRUE
  /\ age' = 0
  /\ hist' = [hist EXCEPT !.silent = 0]
  /\ UNCHANGED <<button, link, stable, main, timer, cb>>

MonitorStop ==
  /\ monitor
  /\ conf' = FALSE /\ monitor' = FALSE
  /\ UNCHANGED <<button, link, age, stable, main, timer, cb, hist>>

(* FTE_SYS_setUnstable by the object manager, for an object that stopped   *)
(* measuring, or where memory runs out.                                    *)
Fault ==
  /\ stable
  /\ stable' = FALSE
  /\ hist' = [hist EXCEPT !.lost = TRUE]
  /\ UNCHANGED <<button, link, conf, monitor, age, main, timer, cb>>

-----------------------------------------------------------------------------
(* External: the button, with its interrupt that follows the level, the    *)
(* cable, and time.  The timer task is punctual, the main task within      *)
(* MaxLate.                                                                *)
Press   == ~button /\ button' = TRUE /\ hist' = [hist EXCEPT !.gap = 0]
           /\ UNCHANGED <<link, conf, monitor, age, stable, main, timer, cb>>
Release == button /\ button' = FALSE
           /\ UNCHANGED <<link, conf, monitor, age, stable, main, timer, cb, hist>>
Plug    == link' = ~link
           /\ UNCHANGED <<button, conf, monitor, age, stable, main, timer, cb, hist>>

(* Mutant: timers that are off count as well. *)
Down_Always(t) == t - 1

Down(t) == IF t > 0 THEN t - 1 ELSE t

Tick ==
  /\ main.at = "save" => main.t < MaxLate
  /\ main.at # "save" => main.t > 0
  /\ timer = 0 => cb # Off
  /\ cb # 0
  /\ age' = Cap(age + 1, KeepAlive + 1)
  /\ main' = [main EXCEPT !.t = IF main.at = "save" THEN @ + 1 ELSE @ - 1]
  /\ timer' = Down(timer)
  /\ cb' = Down(cb)
  /\ hist' = [gap    |-> IF button THEN 0 ELSE Cap(hist.gap + 1, Late + 1),
              silent |-> Cap(hist.silent + 1, KeepAlive + 1),
              lost   |-> hist.lost \/ (monitor /\ hist.silent >= KeepAlive)]
  /\ UNCHANGED <<button, link, conf, monitor, stable>>

Main == MainWakes \/ MainAlerts \/ MainResets \/ MainPolls
TimerTask == Clear \/ CallbackResets

Next ==
  \/ Main \/ TimerTask
  \/ NetdLooks \/ Touch \/ MonitorStart \/ MonitorStop \/ Fault
  \/ Press \/ Release \/ Plug
  \/ Tick

Spec == Init /\ [][Next]_vars

(* The tasks run and time passes. *)
FairSpec == Spec /\ WF_vars(Main) /\ WF_vars(TimerTask) /\ WF_vars(Tick)

-----------------------------------------------------------------------------
TypeOK ==
  /\ button \in BOOLEAN /\ link \in BOOLEAN
  /\ conf \in BOOLEAN /\ monitor \in BOOLEAN /\ stable \in BOOLEAN
  /\ age \in 0 .. KeepAlive + 1
  /\ main \in [at : {"sleep", "save", "alert"}, t : 0 .. Late]
  /\ timer \in Off .. Detect /\ cb \in Off .. ResetDelay
  /\ hist \in [gap : 0 .. Late + 1, silent : 0 .. KeepAlive + 1, lost : BOOLEAN]

(* The configuration is cleared only while the button is held, or so soon  *)
(* after its release that the main task has not come round to see it: a    *)
(* release stops a factory reset whatever the timer has left.  The main    *)
(* task does not look while it waits to reset an unstable node.            *)
ClearsWhenHeld == [][cb = Off /\ cb' # Off => hist.gap <= Late]_vars

(* The node resets itself for a fault, or because it was monitored and no  *)
(* manager had called for longer than KeepAlive: never for the time before *)
(* monitoring began.                                                       *)
AlertHasCause == main.at = "alert" => hist.lost

(* A monitored node that is unstable is reset (FTE_SYS_liveCheckAndReset), *)
(* whatever else happens.                                                  *)
UnstableResets == (~stable /\ monitor) ~> (stable \/ ~monitor)

(* Holding the button clears the configuration, although the node may be   *)
(* reset meanwhile, again and again, because no manager calls: KeepAlive   *)
(* leaves time for it.  Endless faults may prevent it.                     *)
HoldingClears == (<>[]button /\ <>[][~Fault]_vars) => <>(cb # Off)
=============================================================================
