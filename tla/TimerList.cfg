\* Two timers.  Timeouts are no multiples of a tick, so that relative ones are
\* less than a tick at times, and the 32-bit product of FTE_TIMER_setTimeout
\* overflows for sums of the two (2 * 11 > 18).
CONSTANTS
  A = A
  B = B
  NULL = NULL
  Timers <- MCTimers
  Values = {1, 7}
  MinValue = 4
  TicksPerSec = 2
  TickUnits = 3
  Width = 18
  MaxStale = 1
SPECIFICATION FairSpec
INVARIANTS
  TypeOK
  
  
 
