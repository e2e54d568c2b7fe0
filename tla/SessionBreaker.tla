--------------------------- MODULE SessionBreaker ---------------------------
(***************************************************************************)
(* The two-tier circuit breaker of smart_battery/listeners.py              *)
(* (_with_circuit_breaker), as functions on the session dict it keeps its  *)
(* counters in.  Both listeners run every tick through it.                 *)
(*                                                                         *)
(* A session dict d carries d.errors (consecutive_error_count), d.open     *)
(* (circuit_open) and d.ticks (circuit_open_ticks).                        *)
(***************************************************************************)
EXTENDS Integers

CONSTANTS MaxAdapterErrors, \* MAX_CONSECUTIVE_ADAPTER_ERRORS
          BreakerTicks      \* CIRCUIT_BREAKER_TICKS_BEFORE_ABORT

ASSUME BreakerAssumption == /\ MaxAdapterErrors \in Nat \ {0}
                            /\ BreakerTicks \in Nat \ {0}

\* Closed, nothing counted: what a new session dict holds.
ClosedBreaker == [errors |-> 0, open |-> FALSE, ticks |-> 0]

\* As TickSucceeded, but one success forgives one error only.
TickSucceededDecays(d) ==
  [d EXCEPT !.errors = @ - 1,
            !.open   = FALSE,
            !.ticks  = IF d.open THEN 0 ELSE @]

\* As TickSucceeded, but the breaker, once open, is left to the held ticks.
TickSucceededStaysOpen(d) ==
  [d EXCEPT !.errors = 0]

\* The tick's body returned: the error run is over and, if another tick of
\* the same session opened the breaker meanwhile, the breaker closes again.
TickSucceeded(d) ==
  [d EXCEPT !.errors = 0,
            !.open   = FALSE,
            !.ticks  = IF d.open THEN 0 ELSE @]

\* The tick's body raised.
TickFailed(d) ==
  IF d.errors + 1 < MaxAdapterErrors
  THEN [d EXCEPT !.errors = @ + 1]
  ELSE [d EXCEPT !.errors = @ + 1, !.open = TRUE, !.ticks = 0]

\* A tick that finds the breaker open only counts itself ...
TickHeld(d) == [d EXCEPT !.ticks = @ + 1]

\* ... and aborts the session when it is the last one the breaker grants.
HoldExhausted(d) == d.open /\ d.ticks + 1 >= BreakerTicks
=============================================================================
