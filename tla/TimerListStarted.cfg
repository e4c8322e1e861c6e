\* The comment in FTE_TIMER_handler on its last step, with timeouts of more
\* than a tick and no overflow.
CONSTANTS
  A = A
  B = B
  NULL = NULL
  Timers <- MCTimers
  Values = {4, 7}
  MinValue = 1
  TicksPerSec = 1
  TickUnits = 3
  Width = 18
  MaxStale = 0
SPECIFICATION Spec
INVARIANT HeadIsStarted
