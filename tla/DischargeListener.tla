-------------------------- MODULE DischargeListener --------------------------
(***************************************************************************)
(* A smart-discharge session from the service call that creates it to its  *)
(* end: setup_smart_discharge_listeners and everything it registers        *)
(* (smart_battery/listeners.py), cancel_smart_session                      *)
(* (smart_battery/session.py), the service handlers that start and clear a *)
(* session (custom_components/foxess_control/_services.py) and the         *)
(* coordinator's retry of a failed clean-up (coordinator.py).              *)
(*                                                                         *)
(* Actions, calls in flight and inputs are as in ChargeListener.  A tick   *)
(* is started by the periodic timer and by every WebSocket message, so the *)
(* ticks of one session overlap in normal operation.                       *)
(*                                                                         *)
(* No export-limit entity is configured: the listener paces the discharge  *)
(* by the power of the override (the software path of                      *)
(* _apply_discharge_power), and _restore_export_limit does nothing.        *)
(***************************************************************************)
EXTENDS SessionBreaker

CONSTANTS Sessions,       \* session_id values, each used once
          Paced,          \* those with pacing_enabled
          Limited,        \* those with a feedin_energy_limit_kwh
          None,           \* no session; no override on the inverter
          Calls,          \* coroutines suspended on the inverter at one time
          Powers,         \* powers the pacing algorithm may ask for
          MaxPower,       \* max_power_w
          MinPowerChange, \* min_power_change
          MaxSocMissing,  \* MAX_SOC_UNAVAILABLE_COUNT
          FloorReadings,  \* readings at min_soc that end the session
          Faults,         \* what an outage of the adapter may do to a call
          CloudMode       \* FoxESS cloud backend (its coordinator retries)

ASSUME DischargeAssumption ==
  /\ None \notin Sessions \cup Nat
  /\ Paced \subseteq Sessions /\ Limited \subseteq Sessions
  /\ Powers \subseteq Nat \ {0}
  /\ MaxPower \in Powers
  /\ MinPowerChange \in Nat \ {0}
  /\ MaxSocMissing \in Nat \ {0}
  /\ FloorReadings \in Nat \ {0, 1}
  /\ Faults \subseteq {"refused", "lostReply"}
  /\ CloudMode \in BOOLEAN

VARIABLES
  session,        \* session_id of dd.smart_discharge_state, or None
  state,          \* the dict dd.smart_discharge_state (NoDict without session)
  unsubs,         \* the session whose handles dd.smart_discharge_unsubs holds
  intervals,      \* sessions whose periodic tick is registered
  expiries,       \* sessions whose window-end timer is registered
  stops,          \* sessions whose one-shot feed-in stop is registered
  calls,          \* coroutines awaiting the inverter
  inverter,       \* power of the ForceDischarge override; None is self-use
  pendingCleanup, \* dd.pending_override_cleanup is set
  stored,         \* session in the Store under "smart_discharge"
  used,           \* session ids handed out
  over,           \* sessions whose window has ended
  adapterUp       \* the adapter's backend can be reached

timers  == <<unsubs, intervals, expiries, stops>>
device  == <<inverter, pendingCleanup>>
world   == <<used, over, adapterUp>>
vars    == <<session, state, unsubs, intervals, expiries, stops, calls,
             inverter, pendingCleanup, stored, used, over, adapterUp>>

-----------------------------------------------------------------------------
(* Data *)

Removals == {"endRemove", "suspendRemove", "floorRemove", "clearRemove",
             "cleanupRemove"}
Applies  == {"serviceApply", "startApply", "adjustApply", "holdApply"}

Idle == [pc |-> "idle", sid |-> None, power |-> 0, done |-> FALSE]

Call(pc, s, p) == [pc |-> pc, sid |-> s, power |-> p, done |-> FALSE]

\* The baseline of the feed-in meter: not taken, taken, and compared with a
\* later reading at least once.
NoBaseline == 0
Baseline   == 1
Observed   == 2

NewSession(p) ==
  [started |-> p # 0, suspended |-> FALSE, power |-> p, missing |-> 0,
   below |-> 0, latch |-> FALSE, feedin |-> NoBaseline, stop |-> FALSE,
   errors |-> 0, open |-> FALSE, ticks |-> 0]

NoDict == NewSession(0)

Abs(n) == IF n < 0 THEN -n ELSE n

\* A coroutine reaches an await on the inverter.
Await(pc, s, p) ==
  \E c \in Calls : /\ calls[c].pc = "idle"
                   /\ calls' = [calls EXCEPT ![c] = Call(pc, s, p)]

\* A coroutine of session s writes its dict, which nobody reads any more once
\* the session is not the current one.
WriteDict(s, d) == state' = IF session = s THEN d ELSE state

\* session_data_from_discharge_state of session s.
Record(s, started) == [sid |-> s, started |-> started]

-----------------------------------------------------------------------------
(* Sessions begin and end *)

\* cancel_smart_session: what dd.smart_discharge_unsubs holds is unsubscribed,
\* the one-shot feed-in stop among it.
CancelSmartDischarge ==
  /\ session'   = None
  /\ state'     = NoDict
  /\ unsubs'    = None
  /\ intervals' = intervals \ {unsubs}
  /\ expiries'  = expiries \ {unsubs}
  /\ stops'     = stops \ {unsubs}
  /\ stored'    = None

\* As EndIfStarted, but discharging_started is read after the cancel cleared
\* it.
EndIfStartedReadsLate ==
  /\ CancelSmartDischarge
  /\ UNCHANGED calls

\* _on_timer_expire, _abort_discharge, _handle_soc_unavailable: cancel, then
\* remove the override if discharging had started.
EndIfStarted ==
  /\ CancelSmartDischarge
  /\ IF state.started THEN Await("endRemove", session, 0)
                      ELSE UNCHANGED calls

\* Feed-in limit, early stop and the confirmed floor: cancel, then remove the
\* override in any case.
EndRemoving ==
  /\ CancelSmartDischarge
  /\ Await("endRemove", session, 0)

\* setup_smart_discharge_listeners on a new dict, and the save that follows.
SetUpListeners(s, p, unsubscribed) ==
  /\ session'   = s
  /\ state'     = NewSession(p)
  /\ unsubs'    = s
  /\ intervals' = (intervals \ unsubscribed) \cup {s}
  /\ expiries'  = (expiries \ unsubscribed) \cup {s}
  /\ stops'     = stops \ unsubscribed
  /\ stored'    = Record(s, p # 0)

\* _do_smart_discharge, start deferred, which only a paced session does: from
\* the cancel of the old session to the listeners of the new one there is no
\* await.
StartDeferred(s) ==
  /\ s \in Paced \ used
  /\ used' = used \cup {s}
  /\ SetUpListeners(s, 0, {unsubs})
  /\ UNCHANGED <<calls, device, over, adapterUp>>

\* _do_smart_discharge, start at once: the old session is cancelled and the
\* override of the new one awaited before the new session exists.
StartNow(s, p) ==
  /\ s \notin used
  /\ used' = used \cup {s}
  /\ CancelSmartDischarge
  /\ Await("serviceApply", s, p)
  /\ UNCHANGED <<device, over, adapterUp>>

\* handle_clear_overrides.
ClearOverrides ==
  /\ CancelSmartDischarge
  /\ Await("clearRemove", None, 0)
  /\ UNCHANGED <<device, world>>

\* _on_timer_expire; the timer of a session that is no longer the current one
\* finds so and returns.  A timer that fires leaves expiries either way: the
\* current session's is among the handles the cancel drops.
TimerExpire(s) ==
  /\ s \in expiries /\ s \in over
  /\ IF session = s
     THEN EndIfStarted
     ELSE /\ expiries' = expiries \ {s}
          /\ UNCHANGED <<session, state, unsubs, intervals, stops, stored,
                         calls>>
  /\ UNCHANGED <<device, world>>

\* As EarlyStop, but the callback does not look whose session it ends.
EarlyStopUnchecked(s) ==
  /\ s \in stops
  /\ EndRemoving
  /\ UNCHANGED <<device, world>>

\* _early_stop, the one-shot timer the feed-in check registers.
EarlyStop(s) ==
  /\ s \in stops
  /\ IF session = s
     THEN EndRemoving
     ELSE /\ stops' = stops \ {s}
          /\ UNCHANGED <<session, state, unsubs, intervals, expiries, stored,
                         calls>>
  /\ UNCHANGED <<device, world>>

WindowEnds(s) ==
  /\ s \in used \ over
  /\ over' = over \cup {s}
  /\ UNCHANGED <<session, state, timers, calls, device, stored, used,
                 adapterUp>>

-----------------------------------------------------------------------------
(* The tick: _check_discharge_soc_inner inside _with_circuit_breaker *)

TickHold(s) ==
  /\ session = s /\ state.open /\ ~HoldExhausted(state)
  /\ state' = TickHeld(state)
  /\ UNCHANGED <<session, timers, calls, device, stored, world>>

\* The breaker was open too long: _abort_discharge.
TickAbort(s) ==
  /\ session = s /\ HoldExhausted(state)
  /\ EndIfStarted
  /\ UNCHANGED <<device, world>>

\* The tick gets past the session check and the breaker.
Runs(s) == session = s /\ ~state.open

\* Deferred, SoC above the floor, too early.
TickDefer(s) ==
  /\ Runs(s) /\ s \notin over /\ ~state.started
  /\ state' = TickSucceeded(state)
  /\ UNCHANGED <<session, timers, calls, device, stored, world>>

\* Deferred, SoC above the floor, time to start: the override is awaited
\* first.
TickStart(s) ==
  /\ Runs(s) /\ ~state.started
  /\ \E p \in Powers : Await("startApply", s, p)
  /\ UNCHANGED <<session, state, timers, device, stored, world>>

\* The feed-in energy has reached its limit.  A deferred session gets here
\* too, with its SoC missing or at the floor.
TickFeedinLimit(s) ==
  /\ Runs(s) /\ s \in Limited /\ state.feedin # NoBaseline
  /\ EndRemoving
  /\ UNCHANGED <<device, world>>

\* _check_feedin_limit below the limit, with the meter reading (known) or
\* without: what it makes of the dict d of session s.
Metered(s, d, known) ==
  IF ~known THEN {d}
  ELSE CASE d.feedin = NoBaseline -> {[d EXCEPT !.feedin = Baseline]}
         [] d.feedin = Baseline   -> {[d EXCEPT !.feedin = Observed]}
         [] OTHER                 -> {d, [d EXCEPT !.stop = TRUE]}

MeterKnown(s) == IF s \in Limited THEN BOOLEAN ELSE {FALSE}

\* As FeedinChecked, but the flag is set without the timer.
FeedinCheckedFlagOnly(s, d, known) ==
  /\ known \in MeterKnown(s)
  /\ d \in Metered(s, state, known)
  /\ stops' = stops

\* The tick of s goes on after the feed-in check with the dict d: the one-shot
\* stop is registered when d says so first.
FeedinChecked(s, d, known) ==
  /\ known \in MeterKnown(s)
  /\ d \in Metered(s, state, known)
  /\ stops' = IF d.stop THEN stops \cup {s} ELSE stops

\* The handles and the record while the session goes on; the save that takes
\* the feed-in baseline writes what the record already says.
SessionGoesOn ==
  UNCHANGED <<session, unsubs, intervals, expiries, stored>>

\* _handle_soc_unavailable.
TickSocMissing(s) ==
  /\ Runs(s)
  /\ IF state.missing + 1 >= MaxSocMissing
     THEN EndIfStarted
     ELSE /\ \E known \in BOOLEAN :
               \E d \in Metered(s, state, known) :
                 /\ FeedinChecked(s, d, known)
                 /\ state' = TickSucceeded([d EXCEPT !.missing = @ + 1])
          /\ SessionGoesOn
          /\ UNCHANGED calls
  /\ UNCHANGED <<device, world>>

\* The power asked for differs enough from the last one, or is the maximum.
ShouldUpdate(d, p) ==
  Abs(p - d.power) >= MinPowerChange \/ p = MaxPower

\* What _apply_discharge_power writes into the dict d of a started session
\* and what it then awaits, when the algorithm asks for p.  The call is made
\* in any case; only an update is saved after it.
ApplyDischargePower(d, p, wasSuspended, known) ==
  IF known /\ p < MinPowerChange /\ d.power # 0
  THEN [dict |-> [d EXCEPT !.power = 0], pc |-> "selfUseApply", power |-> 0]
  ELSE IF ShouldUpdate(d, p) \/ wasSuspended
  THEN [dict |-> [d EXCEPT !.power = p], pc |-> "adjustApply", power |-> p]
  ELSE [dict |-> d, pc |-> "holdApply", power |-> d.power]

\* Pacing is on and the SoC above the floor before the window's end.
Paces(s) == Runs(s) /\ state.started /\ s \in Paced \ over

\* _handle_suspend_resume suspends; the flag is written before the removal is
\* awaited.
TickSuspend(s) ==
  /\ Paces(s) /\ ~state.suspended
  /\ \E known \in BOOLEAN :
       \E d \in Metered(s, state, known) :
         /\ FeedinChecked(s, d, known)
         /\ state' = [d EXCEPT !.missing = 0, !.suspended = TRUE]
  /\ Await("suspendRemove", s, 0)
  /\ SessionGoesOn
  /\ UNCHANGED <<device, world>>

TickStaySuspended(s) ==
  /\ Paces(s) /\ state.suspended
  /\ \E known \in BOOLEAN :
       \E d \in Metered(s, state, known) :
         /\ FeedinChecked(s, d, known)
         /\ state' = TickSucceeded([d EXCEPT !.missing = 0])
  /\ SessionGoesOn
  /\ UNCHANGED <<calls, device, world>>

\* The session is not, or no longer, to be suspended: its power is applied.
TickPace(s) ==
  /\ Paces(s)
  /\ \E known \in BOOLEAN, p \in Powers :
       \E d \in Metered(s, state, known) :
         LET resumed == [d EXCEPT !.missing = 0, !.suspended = FALSE]
             a == ApplyDischargePower(resumed, p, d.suspended, known)
         IN /\ FeedinChecked(s, d, known)
            /\ state' = a.dict
            /\ Await(a.pc, s, a.power)
  /\ SessionGoesOn
  /\ UNCHANGED <<device, world>>

\* As AboveFloor, but the latch is left.
AboveFloorKeepsLatch(d) == [d EXCEPT !.below = 0]

\* _check_soc_threshold with the SoC above the floor.
AboveFloor(d) == [d EXCEPT !.below = 0, !.latch = FALSE]

\* SoC above the floor, nothing to pace; a window that has ended also lifts
\* the suspension.
TickAboveFloor(s) ==
  /\ Runs(s) /\ state.started /\ (s \notin Paced \/ s \in over)
  /\ \E known \in BOOLEAN :
       \E d \in Metered(s, state, known) :
         /\ FeedinChecked(s, d, known)
         /\ state' = TickSucceeded(AboveFloor([d EXCEPT !.missing = 0,
                                                        !.suspended = FALSE]))
  /\ SessionGoesOn
  /\ UNCHANGED <<calls, device, world>>

\* _check_soc_threshold at the floor, first reading: the override is removed
\* at once.
TickFloor(s) ==
  /\ Runs(s) /\ ~state.latch
  /\ \E known \in BOOLEAN :
       \E d \in Metered(s, state, known) :
         /\ FeedinChecked(s, d, known)
         /\ state' = [d EXCEPT !.missing = 0, !.below = @ + 1,
                               !.latch = TRUE]
  /\ Await("floorRemove", s, 0)
  /\ SessionGoesOn
  /\ UNCHANGED <<device, world>>

\* ... and a later reading, which ends the session when it is the last of
\* FloorReadings in a row.
TickFloorConfirmed(s) ==
  /\ Runs(s) /\ state.latch
  /\ IF state.below + 1 >= FloorReadings
     THEN EndRemoving
     ELSE /\ \E known \in BOOLEAN :
               \E d \in Metered(s, state, known) :
                 /\ FeedinChecked(s, d, known)
                 /\ state' = TickSucceeded([d EXCEPT !.missing = 0,
                                                     !.below = @ + 1])
          /\ SessionGoesOn
          /\ UNCHANGED calls
  /\ UNCHANGED <<device, world>>

Tick(s) ==
  \/ TickHold(s)        \/ TickAbort(s)      \/ TickDefer(s)
  \/ TickStart(s)       \/ TickFeedinLimit(s) \/ TickSocMissing(s)
  \/ TickSuspend(s)     \/ TickStaySuspended(s) \/ TickPace(s)
  \/ TickAboveFloor(s)  \/ TickFloor(s)      \/ TickFloorConfirmed(s)

-----------------------------------------------------------------------------
(* Calls on the inverter *)

\* _retry_pending_cleanup, on a successful poll of the cloud coordinator;
\* polls do not overlap.
CleanupRetry ==
  /\ CloudMode /\ adapterUp /\ pendingCleanup
  /\ \A c \in Calls : calls[c].pc # "cleanupRemove"
  /\ Await("cleanupRemove", None, 0)
  /\ UNCHANGED <<session, state, timers, device, stored, world>>

\* The backend goes away, and comes back.
AdapterDown ==
  /\ adapterUp /\ Faults # {}
  /\ adapterUp' = FALSE
  /\ UNCHANGED <<session, state, timers, calls, device, stored, used, over>>

AdapterUp ==
  /\ ~adapterUp
  /\ adapterUp' = TRUE
  /\ UNCHANGED <<session, state, timers, calls, device, stored, used, over>>

\* The adapter's request reaches the inverter.
Effect(c) ==
  /\ adapterUp
  /\ calls[c].pc # "idle" /\ ~calls[c].done
  /\ calls' = [calls EXCEPT ![c].done = TRUE]
  /\ inverter' = IF calls[c].pc \in Applies THEN calls[c].power ELSE None
  /\ UNCHANGED <<session, state, timers, pendingCleanup, stored, world>>

\* The call in slot c is answered, normally or with an exception: the request
\* was refused, or it reached the inverter and the reply was lost.
Answered(c, pc, raised) ==
  /\ calls[c].pc = pc
  /\ IF raised
     THEN /\ ~adapterUp
          /\ (IF calls[c].done THEN "lostReply" ELSE "refused") \in Faults
     ELSE calls[c].done

\* The coroutine in slot c ends, or goes on to another call.
Leaves(c) == calls' = [calls EXCEPT ![c] = Idle]
GoesOn(c, call) == calls' = [calls EXCEPT ![c] = call]

\* A service handler resumes.  An exception is the user's to see; a handler
\* that comes back after another one takes the session's place.
ServiceApplied(c) ==
  /\ \E raised \in BOOLEAN :
       /\ Answered(c, "serviceApply", raised)
       /\ IF raised THEN UNCHANGED <<session, state, timers, stored>>
                    ELSE SetUpListeners(calls[c].sid, calls[c].power, {})
  /\ Leaves(c)
  /\ UNCHANGED <<device, world>>

OverridesCleared(c) ==
  /\ \E raised \in BOOLEAN : Answered(c, "clearRemove", raised)
  /\ Leaves(c)
  /\ UNCHANGED <<session, state, timers, device, stored, world>>

CleanupRetried(c) ==
  /\ \E raised \in BOOLEAN :
       /\ Answered(c, "cleanupRemove", raised)
       /\ pendingCleanup' = (pendingCleanup /\ raised)
  /\ Leaves(c)
  /\ UNCHANGED <<session, state, timers, inverter, stored, world>>

\* As OverrideRemoved, but the failure is only logged.
OverrideRemovedBestEffort(c, pc) ==
  \E raised \in BOOLEAN :
    /\ Answered(c, pc, raised)
    /\ pendingCleanup' = pendingCleanup

\* _remove_discharge_override swallows the exception and notes the failure in
\* dd.pending_override_cleanup.
OverrideRemoved(c, pc) ==
  \E raised \in BOOLEAN :
    /\ Answered(c, pc, raised)
    /\ pendingCleanup' = (pendingCleanup \/ raised)

\* The call at the end of a session.
Ended(c) ==
  /\ OverrideRemoved(c, "endRemove")
  /\ Leaves(c)
  /\ UNCHANGED <<session, state, timers, inverter, stored, world>>

\* The tick that found the SoC at the floor resumes and reads the count again.
FloorRemoved(c) ==
  LET s == calls[c].sid
  IN /\ OverrideRemoved(c, "floorRemove")
     /\ IF session = s /\ state.below >= FloorReadings
        THEN /\ CancelSmartDischarge
             /\ GoesOn(c, Call("endRemove", s, 0))
        ELSE /\ WriteDict(s, TickSucceeded(state))
             /\ Leaves(c)
             /\ UNCHANGED <<session, timers, stored>>
     /\ UNCHANGED <<inverter, world>>

\* A suspending tick resumes and checks that the session is still its own.  It
\* reads the suspended flag again: when a tick in between has lifted it, this
\* one goes on to apply a power.
SuspendRemoved(c) ==
  LET s == calls[c].sid
  IN /\ OverrideRemoved(c, "suspendRemove")
     /\ stored' = IF session = s THEN Record(s, state.started) ELSE stored
     /\ IF session = s /\ ~state.suspended
        THEN \E p \in Powers, known \in MeterKnown(s) :
               LET a == ApplyDischargePower(state, p, FALSE, known)
               IN /\ state' = a.dict
                  /\ GoesOn(c, Call(a.pc, s, a.power))
        ELSE /\ WriteDict(s, TickSucceeded(state))
             /\ Leaves(c)
     /\ UNCHANGED <<session, timers, inverter, world>>

\* A starting tick resumes.  The discharging_started flag is only set when the
\* call returned and the session is still its own; else it just leaves.
StartApplied(c) ==
  LET s == calls[c].sid
  IN /\ \E raised \in BOOLEAN :
          /\ Answered(c, "startApply", raised)
          /\ WriteDict(s,
               IF raised THEN TickFailed(state)
               ELSE TickSucceeded([state EXCEPT !.started = TRUE,
                                                !.power = calls[c].power]))
          /\ stored' = IF session = s /\ ~raised
                       THEN Record(s, TRUE) ELSE stored
     /\ Leaves(c)
     /\ UNCHANGED <<session, timers, device, world>>

\* A pacing tick resumes and ends with the threshold check, on the SoC it read
\* before the call.
PowerApplied(c) ==
  LET s == calls[c].sid
  IN /\ \E raised \in BOOLEAN, pc \in {"adjustApply", "holdApply",
                                       "selfUseApply"} :
          /\ Answered(c, pc, raised)
          /\ WriteDict(s, IF raised THEN TickFailed(state)
                                    ELSE TickSucceeded(AboveFloor(state)))
          /\ stored' = IF session = s /\ ~raised /\ pc # "holdApply"
                       THEN Record(s, state.started) ELSE stored
     /\ Leaves(c)
     /\ UNCHANGED <<session, timers, device, world>>

Return(c) ==
  \/ ServiceApplied(c) \/ OverridesCleared(c) \/ CleanupRetried(c)
  \/ Ended(c)          \/ FloorRemoved(c)     \/ SuspendRemoved(c)
  \/ StartApplied(c)   \/ PowerApplied(c)

-----------------------------------------------------------------------------
Init ==
  /\ session = None /\ unsubs = None /\ stored = None
  /\ state = NoDict
  /\ intervals = {} /\ expiries = {} /\ stops = {}
  /\ used = {} /\ over = {}
  /\ calls = [c \in Calls |-> Idle]
  /\ inverter = None /\ pendingCleanup = FALSE
  /\ adapterUp = TRUE

User == \/ \E s \in Sessions : StartDeferred(s)
        \/ \E s \in Sessions, p \in Powers : StartNow(s, p)
        \/ ClearOverrides

Next == \/ User
        \/ \E s \in Sessions : WindowEnds(s) \/ TimerExpire(s) \/ EarlyStop(s)
        \/ \E s \in Sessions : Tick(s)
        \/ CleanupRetry \/ AdapterDown \/ AdapterUp
        \/ \E c \in Calls : Effect(c) \/ Return(c)

Spec == Init /\ [][Next]_vars

\* Timers fire, requests are answered, polls come and outages end.  A timer
\* or a poll may find every slot of Calls taken, which the program has no
\* counterpart of: hence the strong fairness.
Fairness ==
  /\ \A s \in Sessions : SF_vars(TimerExpire(s)) /\ SF_vars(EarlyStop(s))
  /\ \A c \in Calls : SF_vars(Effect(c)) /\ WF_vars(Return(c))
  /\ SF_vars(CleanupRetry) /\ WF_vars(AdapterUp)

FairSpec == Spec /\ Fairness

-----------------------------------------------------------------------------
(* Properties *)

\* Calls whose coroutine goes on with its session when it resumes.
Owned == Applies \cup {"selfUseApply", "suspendRemove", "floorRemove"}

CallRecord ==
  [pc : Owned, sid : Sessions, power : Powers \cup {0}, done : BOOLEAN]
  \cup [pc : (Removals \ Owned) \cup {"idle"}, sid : Sessions \cup {None},
        power : {0}, done : BOOLEAN]

SessionDict == [started : BOOLEAN, suspended : BOOLEAN,
                power : Powers \cup {0}, missing : Nat, below : Nat,
                latch : BOOLEAN, feedin : {NoBaseline, Baseline, Observed},
                stop : BOOLEAN,
                errors : Nat, open : BOOLEAN, ticks : Nat]

\* The type of every variable: the ids, the dict, handles and calls in flight
\* that setup_smart_discharge_listeners keeps.
TypeOK ==
  /\ session \in Sessions \cup {None}
  /\ state \in SessionDict
  /\ unsubs \in Sessions \cup {None}
  /\ intervals \subseteq Sessions /\ expiries \subseteq Sessions
  /\ stops \subseteq Sessions
  /\ calls \in [Calls -> CallRecord]
  /\ inverter \in Powers \cup {0, None}
  /\ pendingCleanup \in BOOLEAN
  /\ stored \in [sid : Sessions, started : BOOLEAN] \cup {None}
  /\ used \subseteq Sessions /\ over \subseteq used
  /\ adapterUp \in BOOLEAN

\* A session that exists can always tick, always has its window-end timer, and
\* has a feed-in stop registered when its dict says so: the flag keeps a second
\* stop from being registered, so that a flag without its timer would let the
\* feed-in run over the limit.
TimersCoverSession ==
  session # None => /\ unsubs = session
                    /\ session \in intervals
                    /\ session \in expiries
                    /\ (state.stop => session \in stops)

\* G1: whatever ticks overlap, the latch that removes the override at the floor
\* and the count that ends the session are set and cleared together, and a
\* session whose count is full has ended: the first reading always removes the
\* override, and only FloorReadings readings without one above the floor
\* confirmed in between end the session.
FloorCounted ==
  /\ state.latch <=> state.below > 0
  /\ state.below < FloorReadings

\* What a restart would recover is the current session, in the phase the
\* listener believes it to be in: a coroutine of an ended session never writes
\* it back to the Store.
StoredAgrees ==
  IF session = None THEN stored = None
                    ELSE stored = Record(session, state.started)

\* The step is a service call's: it creates, clears or sets up a session.
UserActed ==
  \/ used' # used
  \/ \E c \in Calls :
       \/ calls[c].pc = "idle" /\ calls'[c].pc = "clearRemove"
       \/ calls[c].pc = "serviceApply" /\ calls'[c].pc = "idle"

\* A step that ends a session does so because its window is over, its SoC was
\* missing too often in a row, its breaker was open too long, its SoC has been
\* at the floor before, its feed-in is metered against a limit, its own feed-in
\* stop is due, or the user said so.
EndJustified ==
  \A s \in Sessions : session = s /\ session' # s =>
    \/ s \in over
    \/ state.missing + 1 >= MaxSocMissing
    \/ HoldExhausted(state)
    \/ state.below + 1 >= FloorReadings
    \/ s \in Limited /\ state.feedin # NoBaseline
    \/ s \in stops
    \/ UserActed

\* C-003: timers, one-shot stops and late coroutines of other sessions, which
\* all go on firing after their session was replaced, never end the current
\* one.
EndsForAReason == [][EndJustified]_vars

Quiet == \A c \in Calls : calls[c].pc = "idle"

\* G2: with every call answered, and no failed removal left to the coordinator,
\* a suspended session does not force the battery to discharge, whatever
\* failed, was answered late or ended on the way there.  (With calls one at a
\* time: see the README for what overlapping ticks do to it.)
SuspensionStopsDischarge ==
  Quiet /\ state.suspended /\ ~pendingCleanup => inverter = None

\* The inverter is being, or will be, returned to self-use: the removal at the
\* end of the session is awaited, or the override is off, or the failure of
\* its removal is on record for the coordinator.
Attended ==
  inverter = None \/ pendingCleanup \/ \E c \in Calls : calls[c].pc = "endRemove"

\* What a step leaves of the override of a session that ends in it, and of one
\* whose removal returns in it.
CleanedUp ==
  /\ session # None /\ session' = None /\ ~UserActed =>
       \/ Attended'
       \/ \E c \in Calls : calls[c].pc = "startApply" /\ calls[c].sid = session
  /\ \A c \in Calls :
       calls[c].pc = "endRemove" /\ calls'[c].pc = "idle" => Attended'

\* C-024, C-025: a session the listener ends, for whichever of its reasons,
\* does not leave its override behind unnoticed, unless its first apply was
\* still in flight when it ended; nor does a removal that failed go unrecorded.
ListenerCleansUp == [][CleanedUp]_vars

\* C-024: once the listener has ended a session, the override does not persist,
\* however often its removal fails before it succeeds.
OverrideEventuallyRemoved ==
  \A c \in Calls : calls[c].pc = "endRemove" ~> inverter = None

\* A session that has scheduled its feed-in stop ends, whatever its ticks do
\* afterwards: it is suspended, loses its SoC readings or its adapter.
FeedinStopEnds ==
  \A s \in Sessions : session = s /\ state.stop ~> session # s

=============================================================================
