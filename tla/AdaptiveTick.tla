---------------------------- MODULE AdaptiveTick ----------------------------
(***************************************************************************)
(* kernel/loop.py, class AdaptiveTick: how long the kernel loop sleeps     *)
(* after a tick.  KernelLoop extends this module.                          *)
(***************************************************************************)
EXTENDS Integers

CONSTANTS
  BaseMs,    \* base_ms, the interval of a busy system
  MaxMs,     \* max_ms; equal to base_ms when the tick is not adaptive
  Factor,    \* _IDLE_BACKOFF_FACTOR
  IdleCap    \* bound: _idle_ticks is not counted beyond this

\* config/default.json has base 16 and maximum 1000; the factor is 2. Counting
\* idle ticks stops where the interval has long reached its maximum.
ASSUME AdaptiveTickAssumption ==
  /\ BaseMs \in Nat \ {0} /\ MaxMs \in Nat /\ BaseMs <= MaxMs
  /\ Factor \in Nat \ {0}
  /\ IdleCap \in Nat /\ IdleCap > 3

VARIABLES interval,  \* _current
          idle       \* _idle_ticks

tickerVars == <<interval, idle>>

TickerTypeOK == interval \in Nat /\ idle \in 0..IdleCap

Smaller(a, b) == IF a < b THEN a ELSE b

TickerInit == interval = BaseMs /\ idle = 0

MarkBusy == interval' = BaseMs /\ idle' = 0

\* Three idle ticks are let pass, then every further one stretches the interval.
MarkIdle ==
  /\ idle' = Smaller(idle + 1, IdleCap)
  /\ interval' = IF idle + 1 > 3 THEN Smaller(interval * Factor, MaxMs)
                                 ELSE interval

TickerNext == MarkBusy \/ MarkIdle
TickerSpec == TickerInit /\ [][TickerNext]_tickerVars

\* The loop never sleeps less than the base interval nor more than the maximum,
\* and has left the base only after the grace period.
IntervalBounded ==
  /\ BaseMs <= interval /\ interval <= MaxMs
  /\ idle <= 3 => interval = BaseMs

\* Idle ticks never shorten the interval; a step that does is a busy tick and
\* returns it to the base at once.
OnlyBusyShortens ==
  [][interval' < interval => interval' = BaseMs /\ idle' = 0]_tickerVars
=============================================================================
