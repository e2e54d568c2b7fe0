--------------------------- MODULE ChargeListener ---------------------------
(***************************************************************************)
(* A smart-charge session from the service call that creates it to its     *)
(* end: setup_smart_charge_listeners and everything it registers           *)
(* (smart_battery/listeners.py), cancel_smart_session                      *)
(* (smart_battery/session.py), the service handlers that start and clear a *)
(* session (custom_components/foxess_control/_services.py) and the         *)
(* coordinator's retry of a failed clean-up (coordinator.py).              *)
(*                                                                         *)
(* Everything runs on one event loop: an action is the code between two    *)
(* awaits.  An await on the inverter is a call in flight: it is issued by  *)
(* one action, takes effect on the inverter by Effect, and one of the      *)
(* Return actions resumes the coroutine, with an exception if the adapter  *)
(* raised.  Coroutines overlap freely, as Home Assistant starts a task for *)
(* every callback.                                                         *)
(*                                                                         *)
(* What the pacing algorithms answer (defer or start, how much power, is   *)
(* the target reachable) and what the battery reports (SoC) are inputs of  *)
(* the tick.                                                               *)
(***************************************************************************)
EXTENDS SessionBreaker

CONSTANTS Sessions,       \* session_id values, each used once
          None,           \* no session
          Calls,          \* coroutines suspended on the inverter at one time
          Powers,         \* powers the pacing algorithm may ask for
          MaxPower,       \* max_power_w
          MinPowerChange, \* min_power_change
          MaxSocMissing,  \* MAX_SOC_UNAVAILABLE_COUNT
          Faults,         \* what an outage of the adapter may do to a call
          CloudMode       \* FoxESS cloud backend (its coordinator retries)

ASSUME ChargeAssumption ==
  /\ None \notin Sessions
  /\ Powers \subseteq Nat \ {0}
  /\ MaxPower \in Powers
  /\ MinPowerChange \in Nat \ {0}
  /\ MaxSocMissing \in Nat \ {0}
  /\ Faults \subseteq {"refused", "lostReply"}
  /\ CloudMode \in BOOLEAN

VARIABLES
  session,        \* session_id of dd.smart_charge_state, or None
  state,          \* the dict dd.smart_charge_state (NoDict if session = None)
  unsubs,         \* the session whose handles dd.smart_charge_unsubs holds
  intervals,      \* sessions whose periodic tick is registered
  expiries,       \* sessions whose window-end timer is registered
  wakes,          \* sessions with a one-shot deferred-start wake armed
  calls,          \* coroutines awaiting the inverter
  inverter,       \* power of the ForceCharge override; 0 is self-use
  pendingCleanup, \* dd.pending_override_cleanup is set
  stored,         \* session in the Store under "smart_charge"
  issue,          \* the charge_target_unreachable repair issue is shown
  used,           \* session ids handed out
  over,           \* sessions whose window has ended
  adapterUp       \* the adapter's backend can be reached

handles == <<session, unsubs, intervals, expiries>>
device  == <<inverter, pendingCleanup>>
world   == <<used, over, adapterUp>>
vars    == <<session, state, unsubs, intervals, expiries, wakes, calls,
             inverter, pendingCleanup, stored, issue, used, over, adapterUp>>

-----------------------------------------------------------------------------
(* Data *)

Removals == {"endRemove", "targetRemove", "redeferRemove", "clearRemove",
             "cleanupRemove"}
Applies  == {"serviceApply", "startApply", "adjustApply"}

Idle == [pc |-> "idle", sid |-> None, power |-> 0, done |-> FALSE]

NewSession(p) ==
  [started |-> p # 0, reached |-> FALSE, power |-> p, missing |-> 0,
   unreachable |-> FALSE, errors |-> 0, open |-> FALSE, ticks |-> 0]

NoDict == NewSession(0)

Abs(n) == IF n < 0 THEN -n ELSE n

\* A coroutine reaches an await on the inverter.
Await(pc, s, p) ==
  \E c \in Calls :
    /\ calls[c].pc = "idle"
    /\ calls' = [calls EXCEPT ![c] = [pc |-> pc, sid |-> s, power |-> p,
                                      done |-> FALSE]]

\* A coroutine of session s writes its dict, which nobody reads any more once
\* the session is not the current one.
WriteDict(s, d) == state' = IF session = s THEN d ELSE state

-----------------------------------------------------------------------------
(* Sessions begin and end *)

\* cancel_smart_session: what dd.smart_charge_unsubs holds is unsubscribed; a
\* one-shot wake is not in it and stays armed.
CancelSmartCharge(fired) ==
  /\ session'   = None
  /\ state'     = NoDict
  /\ unsubs'    = None
  /\ intervals' = intervals \ {unsubs}
  /\ expiries'  = expiries \ ({unsubs} \cup fired)
  /\ stored'    = None

\* As EndSession, but charging_started is read after the cancel cleared it.
EndSessionReadsLate(fired) ==
  /\ CancelSmartCharge(fired)
  /\ UNCHANGED calls

\* Every end the listener decides itself: cancel, then remove the override
\* if charging had started.
EndSession(fired) ==
  /\ CancelSmartCharge(fired)
  /\ IF state.started THEN Await("endRemove", session, 0)
                      ELSE UNCHANGED calls

\* As SetUpListeners, but handles already there are kept.
SetUpListenersKeepsHandles(s, p, unsubscribed) ==
  /\ session'   = s
  /\ state'     = NewSession(p)
  /\ unsubs'    = IF unsubs \in unsubscribed \cup {None} THEN s ELSE unsubs
  /\ intervals' = (intervals \ unsubscribed) \cup {s}
  /\ expiries'  = (expiries \ unsubscribed) \cup {s}
  /\ stored'    = [sid |-> s, started |-> p # 0]
  /\ issue'     = FALSE

\* setup_smart_charge_listeners on a new dict, and the save that follows it.
SetUpListeners(s, p, unsubscribed) ==
  /\ session'   = s
  /\ state'     = NewSession(p)
  /\ unsubs'    = s
  /\ intervals' = (intervals \ unsubscribed) \cup {s}
  /\ expiries'  = (expiries \ unsubscribed) \cup {s}
  /\ stored'    = [sid |-> s, started |-> p # 0]
  /\ issue'     = FALSE

\* _do_smart_charge, start deferred: from the cancel of the old session to
\* the listeners of the new one there is no await.
StartDeferred(s) ==
  /\ s \notin used
  /\ used' = used \cup {s}
  /\ SetUpListeners(s, 0, {unsubs})
  /\ UNCHANGED <<wakes, calls, device, over, adapterUp>>

\* _do_smart_charge, start at once: the old session is cancelled and the
\* override of the new one awaited before the new session exists.
StartNow(s, p) ==
  /\ s \notin used
  /\ used' = used \cup {s}
  /\ CancelSmartCharge({})
  /\ Await("serviceApply", s, p)
  /\ UNCHANGED <<wakes, device, issue, over, adapterUp>>

\* handle_clear_overrides.
ClearOverrides ==
  /\ CancelSmartCharge({})
  /\ Await("clearRemove", None, 0)
  /\ UNCHANGED <<wakes, device, issue, world>>

\* As TimerExpire, but the callback does not look whose session it ends.
TimerExpireUnchecked(s) ==
  /\ s \in expiries /\ s \in over
  /\ EndSession({s})
  /\ issue' = FALSE
  /\ UNCHANGED <<wakes, device, world>>

\* _on_charge_timer_expire; the timer of a session that is no longer the
\* current one finds so and returns.
TimerExpire(s) ==
  /\ s \in expiries /\ s \in over
  /\ IF session = s
     THEN /\ EndSession({s})
          /\ issue' = FALSE
     ELSE /\ expiries' = expiries \ {s}
          /\ UNCHANGED <<session, state, unsubs, intervals, stored, calls,
                         issue>>
  /\ UNCHANGED <<wakes, device, world>>

WindowEnds(s) ==
  /\ s \in used \ over
  /\ over' = over \cup {s}
  /\ UNCHANGED <<handles, state, wakes, calls, device, stored, issue, used,
                 adapterUp>>

-----------------------------------------------------------------------------
(* The tick: _adjust_charge_power inside _with_circuit_breaker *)

\* Armed wakes once the tick has been called by the interval, or by the wake.
Fired(s) == (IF s \in intervals THEN {wakes} ELSE {})
            \cup (IF s \in wakes THEN {wakes \ {s}} ELSE {})

\* The wake of a session that is no longer the current one.
StaleWake(s) ==
  /\ s \in wakes /\ session # s
  /\ wakes' = wakes \ {s}
  /\ UNCHANGED <<handles, state, calls, device, stored, issue, world>>

TickHold(s) ==
  /\ session = s /\ state.open /\ ~HoldExhausted(state)
  /\ wakes' \in Fired(s)
  /\ state' = TickHeld(state)
  /\ UNCHANGED <<handles, calls, device, stored, issue, world>>

\* The breaker was open too long: _abort_charge.
TickAbort(s) ==
  /\ session = s /\ HoldExhausted(state)
  /\ wakes' \in Fired(s)
  /\ issue' = FALSE
  /\ EndSession({})
  /\ UNCHANGED <<device, world>>

\* The tick gets past the session check and the breaker.
Runs(s) == session = s /\ ~state.open

TickSocMissing(s) ==
  /\ Runs(s)
  /\ wakes' \in Fired(s)
  /\ IF state.missing + 1 >= MaxSocMissing
     THEN EndSession({})
     ELSE /\ state' = TickSucceeded([state EXCEPT !.missing = @ + 1])
          /\ UNCHANGED <<handles, stored, calls>>
  /\ UNCHANGED <<device, issue, world>>

\* SoC at or above target: the override is removed, the session goes on.
TickTarget(s) ==
  /\ Runs(s)
  /\ wakes' \in Fired(s)
  /\ LET d == [state EXCEPT !.missing = 0]
     IN IF d.started /\ ~d.reached
        THEN /\ state' = d
             /\ Await("targetRemove", s, 0)
        ELSE /\ state' = TickSucceeded([d EXCEPT !.reached = TRUE])
             /\ UNCHANGED calls
  /\ UNCHANGED <<handles, device, stored, issue, world>>

TickPastEnd(s) ==
  /\ Runs(s) /\ s \in over
  /\ wakes' \in Fired(s)
  /\ EndSession({})
  /\ UNCHANGED <<device, issue, world>>

\* What the tick writes once it knows that the SoC is below target.
BelowTarget == [state EXCEPT !.missing = 0, !.reached = FALSE]

\* _maybe_clear_unreachable_on_early_return: the flag, and with it the issue
\* (IssueAfterEarlyReturnKept forgets the issue).
EarlyReturn(reachable) == [BelowTarget EXCEPT !.unreachable = @ /\ ~reachable]
IssueAfterEarlyReturnKept(reachable) == issue
IssueAfterEarlyReturn(reachable) ==
  IF state.unreachable /\ reachable THEN FALSE ELSE issue

\* Not started, too early: commit the deferred start, (re)arm the wake.
TickDefer(s) ==
  /\ Runs(s) /\ s \notin over /\ ~state.started
  /\ \E w \in Fired(s) : wakes' = w \cup {s}
  /\ \E reachable \in BOOLEAN :
       /\ issue' = IssueAfterEarlyReturn(reachable)
       /\ state' = TickSucceeded(EarlyReturn(reachable))
  /\ UNCHANGED <<handles, calls, device, stored, world>>

\* Not started, time to start: the override is awaited first.
TickStart(s) ==
  /\ Runs(s) /\ s \notin over /\ ~state.started
  /\ \E w \in Fired(s) : wakes' = w \ {s}
  /\ state' = BelowTarget
  /\ \E p \in Powers : Await("startApply", s, p)
  /\ UNCHANGED <<handles, device, stored, issue, world>>

\* Charging ahead of schedule: the override is removed first.
TickRedefer(s) ==
  /\ Runs(s) /\ s \notin over /\ state.started
  /\ wakes' \in Fired(s)
  /\ \E reachable \in BOOLEAN :
       /\ issue' = IssueAfterEarlyReturn(reachable)
       /\ state' = EarlyReturn(reachable)
  /\ Await("redeferRemove", s, 0)
  /\ UNCHANGED <<handles, device, stored, world>>

\* The power asked for is too close to the last one to be worth a call.
BelowThreshold(p) ==
  Abs(p - state.power) < MinPowerChange /\ p # MaxPower

TickSkip(s) ==
  /\ Runs(s) /\ s \notin over /\ state.started
  /\ wakes' \in Fired(s)
  /\ \E p \in Powers : BelowThreshold(p)
  /\ state' = TickSucceeded(BelowTarget)
  /\ UNCHANGED <<handles, calls, device, stored, issue, world>>

\* last_power_w is written before the call is awaited.
TickAdjust(s) ==
  /\ Runs(s) /\ s \notin over /\ state.started
  /\ wakes' \in Fired(s)
  /\ \E p \in Powers, reachable \in BOOLEAN :
       /\ ~BelowThreshold(p)
       /\ issue' = IF reachable = state.unreachable THEN ~reachable ELSE issue
       /\ state' = [BelowTarget EXCEPT !.power = p, !.unreachable = ~reachable]
       /\ Await("adjustApply", s, p)
  /\ UNCHANGED <<handles, device, stored, world>>

Tick(s) ==
  \/ TickHold(s)    \/ TickAbort(s)  \/ TickSocMissing(s) \/ TickTarget(s)
  \/ TickPastEnd(s) \/ TickDefer(s)  \/ TickStart(s)      \/ TickRedefer(s)
  \/ TickSkip(s)    \/ TickAdjust(s)

-----------------------------------------------------------------------------
(* Calls on the inverter *)

\* _retry_pending_cleanup, on a successful poll of the cloud coordinator;
\* polls do not overlap.
CleanupRetry ==
  /\ CloudMode /\ adapterUp /\ pendingCleanup
  /\ \A c \in Calls : calls[c].pc # "cleanupRemove"
  /\ Await("cleanupRemove", None, 0)
  /\ UNCHANGED <<handles, state, wakes, device, stored, issue, world>>

\* The backend goes away, and comes back.
AdapterDown ==
  /\ adapterUp /\ Faults # {}
  /\ adapterUp' = FALSE
  /\ UNCHANGED <<handles, state, wakes, calls, device, stored, issue, used,
                 over>>

AdapterUp ==
  /\ ~adapterUp
  /\ adapterUp' = TRUE
  /\ UNCHANGED <<handles, state, wakes, calls, device, stored, issue, used,
                 over>>

\* The adapter's request reaches the inverter.
Effect(c) ==
  /\ adapterUp
  /\ calls[c].pc # "idle" /\ ~calls[c].done
  /\ calls' = [calls EXCEPT ![c].done = TRUE]
  /\ inverter' = IF calls[c].pc \in Applies THEN calls[c].power ELSE 0
  /\ UNCHANGED <<handles, state, wakes, pendingCleanup, stored, issue,
                 world>>

\* The coroutine in slot c resumes, normally or with an exception: the request
\* was refused, or it reached the inverter and the reply was lost.
Resume(c, pc, raised) ==
  /\ calls[c].pc = pc
  /\ IF raised
     THEN /\ ~adapterUp
          /\ (IF calls[c].done THEN "lostReply" ELSE "refused") \in Faults
     ELSE calls[c].done
  /\ calls' = [calls EXCEPT ![c] = Idle]

\* A service handler resumes.  An exception is the user's to see; a handler
\* that comes back after another one takes the session's place.
ServiceApplied(c) ==
  /\ \E raised \in BOOLEAN :
       /\ Resume(c, "serviceApply", raised)
       /\ IF raised THEN UNCHANGED <<handles, state, stored, issue>>
                    ELSE SetUpListeners(calls[c].sid, calls[c].power, {})
  /\ UNCHANGED <<wakes, device, world>>

OverridesCleared(c) ==
  /\ \E raised \in BOOLEAN : Resume(c, "clearRemove", raised)
  /\ UNCHANGED <<handles, state, wakes, device, stored, issue, world>>

CleanupRetried(c) ==
  /\ \E raised \in BOOLEAN :
       /\ Resume(c, "cleanupRemove", raised)
       /\ pendingCleanup' = (pendingCleanup /\ raised)
  /\ UNCHANGED <<handles, state, wakes, inverter, stored, issue, world>>

\* As OverrideRemoved, but the failure is only logged.
OverrideRemovedBestEffort(c, pc) ==
  \E raised \in BOOLEAN :
    /\ Resume(c, pc, raised)
    /\ pendingCleanup' = pendingCleanup

\* _remove_charge_override swallows the exception and notes the failure in
\* dd.pending_override_cleanup.
OverrideRemoved(c, pc) ==
  \E raised \in BOOLEAN :
    /\ Resume(c, pc, raised)
    /\ pendingCleanup' = (pendingCleanup \/ raised)

\* The call at the end of a session.
Ended(c) ==
  /\ OverrideRemoved(c, "endRemove")
  /\ UNCHANGED <<handles, state, wakes, inverter, stored, issue, world>>

\* The tick that found the target reached resumes.
TargetRemoved(c) ==
  /\ OverrideRemoved(c, "targetRemove")
  /\ WriteDict(calls[c].sid, TickSucceeded([state EXCEPT !.reached = TRUE]))
  /\ UNCHANGED <<handles, wakes, inverter, stored, issue, world>>

\* As RedeferRemoved, but the tick saves without checking again.
RedeferRemovedUnchecked(c) ==
  LET s == calls[c].sid
  IN /\ OverrideRemoved(c, "redeferRemove")
     /\ WriteDict(s, TickSucceeded([state EXCEPT !.started = FALSE]))
     /\ wakes' = wakes \cup {s}
     /\ stored' = [sid |-> s, started |-> FALSE]
     /\ UNCHANGED <<handles, inverter, issue, world>>

\* A re-deferring tick resumes and checks that the session is still its own.
RedeferRemoved(c) ==
  LET s == calls[c].sid
  IN /\ OverrideRemoved(c, "redeferRemove")
     /\ WriteDict(s, TickSucceeded([state EXCEPT !.started = FALSE]))
     /\ IF session = s
        THEN /\ wakes' = wakes \cup {s}
             /\ stored' = [sid |-> s, started |-> FALSE]
        ELSE UNCHANGED <<wakes, stored>>
     /\ UNCHANGED <<handles, inverter, issue, world>>

\* A starting tick resumes.  The charging_started flag is only set when the
\* call returned and the session is still its own; else it just leaves.
StartApplied(c) ==
  LET s == calls[c].sid
  IN /\ \E raised \in BOOLEAN :
          /\ Resume(c, "startApply", raised)
          /\ WriteDict(s,
               IF raised THEN TickFailed(state)
               ELSE TickSucceeded([state EXCEPT !.started = TRUE,
                                                !.power = calls[c].power]))
          /\ stored' = IF session = s /\ ~raised
                       THEN [sid |-> s, started |-> TRUE] ELSE stored
     /\ UNCHANGED <<handles, wakes, device, issue, world>>

AdjustApplied(c) ==
  LET s == calls[c].sid
  IN /\ \E raised \in BOOLEAN :
          /\ Resume(c, "adjustApply", raised)
          /\ WriteDict(s, IF raised THEN TickFailed(state)
                                    ELSE TickSucceeded(state))
          /\ stored' = IF session = s /\ ~raised
                       THEN [sid |-> s, started |-> state.started] ELSE stored
     /\ UNCHANGED <<handles, wakes, device, issue, world>>

Return(c) ==
  \/ ServiceApplied(c) \/ OverridesCleared(c) \/ CleanupRetried(c)
  \/ Ended(c)          \/ TargetRemoved(c)    \/ RedeferRemoved(c)
  \/ StartApplied(c)   \/ AdjustApplied(c)

-----------------------------------------------------------------------------
Init ==
  /\ session = None /\ unsubs = None /\ stored = None
  /\ state = NoDict
  /\ intervals = {} /\ expiries = {} /\ wakes = {}
  /\ used = {} /\ over = {}
  /\ calls = [c \in Calls |-> Idle]
  /\ inverter = 0 /\ pendingCleanup = FALSE /\ issue = FALSE
  /\ adapterUp = TRUE

User == \/ \E s \in Sessions : StartDeferred(s)
        \/ \E s \in Sessions, p \in Powers : StartNow(s, p)
        \/ ClearOverrides

Next == \/ User
        \/ \E s \in Sessions : WindowEnds(s) \/ TimerExpire(s) \/ StaleWake(s)
        \/ \E s \in Sessions : Tick(s)
        \/ CleanupRetry \/ AdapterDown \/ AdapterUp
        \/ \E c \in Calls : Effect(c) \/ Return(c)

Spec == Init /\ [][Next]_vars

\* Timers fire, requests are answered, polls come and outages end.  A timer,
\* a tick or a poll may find every slot of Calls taken, which the program has
\* no counterpart of: hence the strong fairness.
Fairness ==
  /\ \A s \in Sessions : SF_vars(TimerExpire(s)) /\ SF_vars(Tick(s))
  /\ \A c \in Calls : SF_vars(Effect(c)) /\ WF_vars(Return(c))
  /\ SF_vars(CleanupRetry) /\ WF_vars(AdapterUp)

FairSpec == Spec /\ Fairness

-----------------------------------------------------------------------------
(* Properties *)

\* Calls whose coroutine goes on with its session when it resumes.
Owned == Applies \cup {"targetRemove", "redeferRemove"}

CallRecord ==
  [pc : Owned, sid : Sessions, power : Powers \cup {0}, done : BOOLEAN]
  \cup [pc : (Removals \ Owned) \cup {"idle"}, sid : Sessions \cup {None},
        power : {0}, done : BOOLEAN]

SessionDict == [started : BOOLEAN, reached : BOOLEAN,
                power : Powers \cup {0}, missing : Nat,
                unreachable : BOOLEAN,
                errors : Nat, open : BOOLEAN, ticks : Nat]

\* The type of every variable: the ids, the dict, handles and calls in flight
\* that setup_smart_charge_listeners keeps.
TypeOK ==
  /\ session \in Sessions \cup {None}
  /\ state \in SessionDict
  /\ unsubs \in Sessions \cup {None}
  /\ intervals \subseteq Sessions /\ expiries \subseteq Sessions
  /\ wakes \subseteq Sessions
  /\ calls \in [Calls -> CallRecord]
  /\ inverter \in Powers \cup {0}
  /\ pendingCleanup \in BOOLEAN /\ issue \in BOOLEAN
  /\ stored \in [sid : Sessions, started : BOOLEAN] \cup {None}
  /\ used \subseteq Sessions /\ over \subseteq used
  /\ adapterUp \in BOOLEAN

\* A session that exists can always tick and always has its window-end timer:
\* no overlap of service calls, ends and re-starts strands the current session
\* without the timers that would end it (unsubs overwritten by a second
\* handler, a cancel that unsubscribes the wrong session's handles).
TimersCoverSession ==
  session # None => /\ unsubs = session
                    /\ session \in intervals
                    /\ session \in expiries

\* The repair issue the user sees and the flag that will one day clear it
\* agree while a session runs; an issue left over from a session that ended
\* without clearing it does not survive the start of the next one.
IssueAgrees == session # None => (issue <=> state.unreachable)

\* The breaker of the session is open exactly when its error run has reached
\* the limit, whichever way the ticks of that session overlap.
BreakerAgrees == state.open <=> state.errors >= MaxAdapterErrors

\* What a restart would recover is the current session, in the phase the
\* listener believes it to be in: a coroutine of an ended session never writes
\* it back to the Store.
StoredAgrees ==
  IF session = None THEN stored = None
  ELSE stored = [sid |-> session, started |-> state.started]

\* The step is a service call's: it creates, clears or sets up a session.
UserActed ==
  \/ used' # used
  \/ \E c \in Calls :
       \/ calls[c].pc = "idle" /\ calls'[c].pc = "clearRemove"
       \/ calls[c].pc = "serviceApply" /\ calls'[c].pc = "idle"

\* The inverter is being, or will be, returned to self-use: the removal at the
\* end of the session is awaited, or the override is off, or the failure of
\* its removal is on record for the coordinator.
Attended ==
  inverter = 0 \/ pendingCleanup \/ \E c \in Calls : calls[c].pc = "endRemove"

\* What a step leaves of the override of a session that ends in it, and of one
\* whose removal returns in it.
CleanedUp ==
  /\ session # None /\ session' = None /\ ~UserActed =>
       \/ Attended'
       \/ \E c \in Calls : calls[c].pc = "startApply" /\ calls[c].sid = session
  /\ \A c \in Calls :
       calls[c].pc = "endRemove" /\ calls'[c].pc = "idle" => Attended'

\* C-024, C-025: a session the listener ends does not leave its override behind
\* unnoticed, unless its first apply was still in flight when it ended; nor
\* does a removal that failed go unrecorded.
ListenerCleansUp == [][CleanedUp]_vars

\* C-024: once the listener has ended a session, the override does not persist,
\* however often its removal fails before it succeeds.
OverrideEventuallyRemoved ==
  \A c \in Calls : calls[c].pc = "endRemove" ~> inverter = 0

\* A step that ends a session does so because its window is over, its SoC was
\* missing too often in a row, its breaker was open too long, or the user said
\* so.
EndJustified ==
  \A s \in Sessions : session = s /\ session' # s =>
    \/ s \in over
    \/ state.missing + 1 >= MaxSocMissing
    \/ HoldExhausted(state)
    \/ UserActed

\* C-003: timers, wakes and late coroutines of other sessions, which all go on
\* firing after their session was replaced, never end the current one.
EndsForAReason == [][EndJustified]_vars

=============================================================================
