---------------------------- MODULE SessionStore ----------------------------
(***************************************************************************)
(* What of a smart session survives: the records kept in Home Assistant's  *)
(* Store (smart_battery/session.py), the crash, stop or reload of the      *)
(* integration, the recovery at the next setup and the replay of a session *)
(* the circuit breaker aborted (both in __init__.py).  The Store is not    *)
(* part of the repository: a delayed save is visible to the next load at   *)
(* once and on disk later, a save is on disk at once.  What a session does *)
(* while it runs is ChargeListener's and DischargeListener's; here it only *)
(* starts, pauses, resumes and ends, and puts its override on and off.     *)
(***************************************************************************)
EXTENDS Integers, FiniteSets

CONSTANTS DayLen,        \* marks of the clock in a day
          LastMark,      \* the clock stops here
          Windows,       \* windows <<from, to>> of a service call, in marks of a day
          MaxAttempts,   \* _MAX_REPLAY_ATTEMPTS
          CallsInSetup,  \* a service may be called while setup recovers
          MaxCalls,      \* sessions created in a run
          MaxRestarts    \* crashes, stops and reloads in a run

Keys == {"smart_charge", "smart_discharge"}
Marks == 0 .. LastMark
Ids == 0 .. MaxCalls
Date(t) == t \div DayLen

ASSUME StoreAssumption ==
    /\ DayLen \in Nat \ {0} /\ LastMark \in Nat
    /\ Windows \subseteq {w \in Nat \X Nat : w[1] < w[2] /\ w[2] < DayLen}
    /\ MaxAttempts \in Nat /\ CallsInSetup \in BOOLEAN
    /\ MaxCalls \in Nat /\ MaxRestarts \in Nat

(* A record of the store; id tells one service call's session from another *)
(* and is kept through recovery (the code's session_id is new each time).  *)
Record == [id : Ids, from : Nat, to : Nat, started : BOOLEAN]
NoRecord == [id |-> 0, from |-> 0, to |-> 0, started |-> FALSE]
NoRecords == [k \in Keys |-> NoRecord]

(* A session: its record and paused, the flag that its override is off     *)
(* while it goes on (target_reached, suspended), which is not saved.       *)
Session == [rec : Record, paused : BOOLEAN]
NoSession == [rec |-> NoRecord, paused |-> FALSE]

NoneLeft == [k \in Keys |-> [rec |-> NoRecord, held |-> TRUE]]
NoReplay == [key |-> "none", to |-> 0]
NoRecovery == [stored |-> NoRecords, at |-> "end", has |-> "unread", changed |-> FALSE]

VARIABLES clock,
          entity,     \* entity mode, which has no schedule to look at
          proc,       \* the integration: "down", "setup" or "up"
          failed,     \* the last setup failed, and recovery stopped with it
          session,    \* smart_charge_state and smart_discharge_state
          view,       \* the records as the next load returns them
          disk,       \* the records a new process finds
          override,   \* the override of the mode is on the inverter
          cleanup,    \* its removal is under way, or pending_override_cleanup
          recovery,   \* _recover_sessions: the loaded records, where it is
          replay,     \* replay_pending
          attempts,   \* replay_attempts
          timer,      \* replay_unsub is set: its 5 minute timer runs
          leaked,     \* timers of earlier setups, which nothing can cancel
          probe,      \* the pending replay of an attempt awaiting its probe
          used, restarts,
          ended,      \* history: the ids whose session was ended or cancelled
          left        \* history: the records of the sessions the last stop or
                      \* reload found, and if their override was as they had it
store == <<view, disk>>
replaying == <<replay, attempts, timer, leaked, probe>>
vars == <<clock, entity, proc, failed, session, view, disk, override, cleanup,
          recovery, replay, attempts, timer, leaked, probe, used, restarts, ended, left>>

Live(k) == session[k].rec.id # 0

---------------------------------------------------------------------------
(* The store.                                                              *)

save_session(k, rec) == view' = [view EXCEPT ![k] = rec] /\ UNCHANGED disk

Cleared(ks) == [k \in Keys |-> IF k \in ks THEN NoRecord ELSE view[k]]

(* As clear_stored_session, but the write is left to the delayed save.     *)
ClearDelayed(ks) == view' = Cleared(ks) /\ UNCHANGED disk

clear_stored_session(ks) ==
    /\ view' = Cleared(ks)
    /\ disk' = IF Cleared(ks) = view THEN disk ELSE Cleared(ks)

DelayedWrite ==
    /\ proc # "down" /\ disk # view
    /\ disk' = view
    /\ UNCHANGED <<clock, entity, proc, failed, session, view, override, cleanup,
                   recovery, replaying, used, restarts, ended, left>>

(* cancel_smart_session on ks: the state and its record are gone at once.  *)
Without(ks) == [k \in Keys |-> IF k \in ks THEN NoSession ELSE session[k]]
EndedBy(ks) == ended \union ((UNION {{session[k].rec.id, view[k].id} : k \in ks}) \ {0})

Init ==
    /\ clock = 0 /\ entity \in BOOLEAN
    /\ proc = "up" /\ failed = FALSE
    /\ session = [k \in Keys |-> NoSession]
    /\ view = NoRecords /\ disk = NoRecords
    /\ override = [k \in Keys |-> FALSE] /\ cleanup = [k \in Keys |-> FALSE]
    /\ recovery = NoRecovery
    /\ replay = NoReplay /\ attempts = 0 /\ timer = FALSE /\ leaked = 0 /\ probe = NoReplay
    /\ used = 0 /\ restarts = 0
    /\ ended = {} /\ left = NoneLeft

Tick ==
    /\ clock < LastMark /\ clock' = clock + 1
    /\ UNCHANGED <<entity, proc, failed, session, store, override, cleanup,
                   recovery, replaying, used, restarts, ended, left>>

---------------------------------------------------------------------------
(* Services.                                                               *)

Callable == proc = "up" \/ (CallsInSetup /\ proc = "setup")

(* A start cancels both sessions and, unless it is deferred, writes the    *)
(* new override; only when that went well is there a session and a record. *)
(* A failed write may or may not have reached the inverter.                *)
Created(k, id, from, to, deferred) ==
    LET rec == [id |-> id, from |-> from, to |-> to, started |-> ~deferred]
    IN  /\ session' = [Without(Keys) EXCEPT ![k] = [rec |-> rec, paused |-> FALSE]]
        /\ view' = [NoRecords EXCEPT ![k] = rec]
        /\ disk' = IF view = NoRecords THEN disk ELSE NoRecords
        /\ override' = [override EXCEPT ![k] = @ \/ ~deferred]
NotCreated(k) ==
    /\ session' = Without(Keys) /\ clear_stored_session(Keys)
    /\ override' \in {override, [override EXCEPT ![k] = TRUE]}

StartSession(k, from, to) ==
    /\ used < MaxCalls /\ used' = used + 1
    /\ ended' = EndedBy(Keys)
    /\ \/ \E deferred \in BOOLEAN : Created(k, used + 1, from, to, deferred)
       \/ NotCreated(k)

SmartService(k) ==
    /\ Callable
    /\ \E w \in Windows :
          StartSession(k, Date(clock) * DayLen + w[1], Date(clock) * DayLen + w[2])
    /\ UNCHANGED <<clock, entity, proc, failed, cleanup, recovery, replaying, restarts, left>>

(* handle_clear_overrides without a filter; its write may fail.            *)
ClearOverrides ==
    /\ Callable
    /\ session' = Without(Keys) /\ clear_stored_session(Keys) /\ ended' = EndedBy(Keys)
    /\ override' \in {override, [k \in Keys |-> FALSE]}
    /\ UNCHANGED <<clock, entity, proc, failed, cleanup, recovery, replaying,
                   used, restarts, left>>

---------------------------------------------------------------------------
(* The session's listeners, as far as they change what must survive.       *)

Runs(k) == proc # "down" /\ Live(k)

(* As SetStarted, but the phase is saved only when the session begins.     *)
SetStartedSavedOnce(k, b) ==
    LET s == [session[k] EXCEPT !.rec.started = b, !.paused = FALSE]
    IN  /\ session' = [session EXCEPT ![k] = s]
        /\ IF b THEN save_session(k, s.rec) ELSE UNCHANGED store
        /\ override' = [override EXCEPT ![k] = b]

SetStarted(k, b) ==
    LET s == [session[k] EXCEPT !.rec.started = b, !.paused = FALSE]
    IN  /\ session' = [session EXCEPT ![k] = s]
        /\ save_session(k, s.rec)
        /\ override' = [override EXCEPT ![k] = b]

Begin(k) ==
    /\ Runs(k) /\ ~session[k].rec.started
    /\ clock >= session[k].rec.from /\ clock < session[k].rec.to
    /\ SetStarted(k, TRUE)
    /\ UNCHANGED <<clock, entity, proc, failed, cleanup, recovery, replaying,
                   used, restarts, ended, left>>

Redefer ==
    LET k == "smart_charge"
    IN  /\ Runs(k) /\ session[k].rec.started /\ ~session[k].paused
        /\ clock < session[k].rec.to
        /\ SetStarted(k, FALSE)
        /\ UNCHANGED <<clock, entity, proc, failed, cleanup, recovery, replaying,
                       used, restarts, ended, left>>

(* The target is reached, or the discharge is suspended; and the way back. *)
SetPaused(k) ==
    /\ Runs(k) /\ session[k].rec.started /\ clock < session[k].rec.to
    /\ session' = [session EXCEPT ![k].paused = ~@]
    /\ override' = [override EXCEPT ![k] = session[k].paused]
    /\ UNCHANGED <<clock, entity, proc, failed, store, cleanup, recovery, replaying,
                   used, restarts, ended, left>>

(* The end of the window, the floor, or the breaker: cancel first, then    *)
(* remove.  Only the breaker's abort leaves a replay, inside the window.   *)
Cancel(k) ==
    /\ Runs(k)
    /\ session' = Without({k}) /\ clear_stored_session({k}) /\ ended' = EndedBy({k})
    /\ cleanup' = [cleanup EXCEPT ![k] = TRUE]
    /\ UNCHANGED <<clock, entity, proc, failed, override, recovery, leaked, probe,
                   used, restarts, left>>

Finish(k) == Cancel(k) /\ UNCHANGED <<replay, attempts, timer>>

_on_circuit_breaker_abort(k) ==
    /\ session[k].rec.started /\ clock < session[k].rec.to /\ proc = "up"
    /\ replay' = [key |-> k, to |-> session[k].rec.to]
    /\ attempts' = 0 /\ timer' = TRUE
    /\ Cancel(k)

CleanupDone(k) ==
    /\ proc # "down" /\ cleanup[k]
    /\ cleanup' = [cleanup EXCEPT ![k] = FALSE]
    /\ override' = [override EXCEPT ![k] = FALSE]
    /\ UNCHANGED <<clock, entity, proc, failed, session, store, recovery, replaying,
                   used, restarts, ended, left>>

---------------------------------------------------------------------------
(* The replay of an aborted session.  Any timer that runs makes attempts,  *)
(* and works on the state of the present setup.                            *)

(* As _cancel_replay, but what was pending stays.                          *)
CancelTimerOnly == attempts' = 0 /\ timer' = FALSE /\ UNCHANGED replay

_cancel_replay == replay' = NoReplay /\ attempts' = 0 /\ timer' = FALSE
Rest == <<clock, entity, proc, failed, cleanup, recovery, restarts, left>>

(* Nothing is pending, the window is over, or the attempts are used up.    *)
ReplayOver == replay = NoReplay \/ clock >= replay.to \/ attempts >= MaxAttempts

_attempt_replay ==
    /\ proc # "down" /\ probe = NoReplay /\ (timer \/ leaked > 0)
    /\ \/ ReplayOver /\ _cancel_replay /\ UNCHANGED probe
       \/ ~ReplayOver /\ attempts' = attempts + 1 /\ probe' = replay /\ UNCHANGED <<replay, timer>>
    /\ UNCHANGED <<Rest, session, store, override, leaked, used, ended>>

ProbeFails ==
    /\ probe # NoReplay /\ probe' = NoReplay
    /\ UNCHANGED <<Rest, session, store, override, replay, attempts, timer, leaked, used, ended>>

(* The probe got through: the service is called, whatever runs by now.  It *)
(* refuses a window that ended during the probe.                           *)
ProbeDone ==
    /\ probe # NoReplay /\ probe' = NoReplay
    /\ _cancel_replay
    /\ IF clock < probe.to /\ used < MaxCalls THEN StartSession(probe.key, clock, probe.to)
       ELSE UNCHANGED <<session, store, override, used, ended>>
    /\ UNCHANGED <<Rest, leaked>>

---------------------------------------------------------------------------
(* The process.                                                            *)

(* What a process that goes down takes with it.  A removal under way may   *)
(* still get through.                                                      *)
Down ==
    /\ proc' = "down" /\ failed' = FALSE
    /\ restarts < MaxRestarts /\ restarts' = restarts + 1
    /\ session' = [k \in Keys |-> NoSession]
    /\ cleanup' = [k \in Keys |-> FALSE]
    /\ override' \in {override, [k \in Keys |-> override[k] /\ ~cleanup[k]]}
    /\ recovery' = NoRecovery
    /\ _cancel_replay /\ probe' = NoReplay
    /\ UNCHANGED <<clock, entity, used, ended>>

Crash ==
    /\ proc # "down"
    /\ Down /\ leaked' = 0
    /\ view' = disk /\ left' = NoneLeft /\ UNCHANGED disk

_persist_active_sessions == [k \in Keys |-> IF Live(k) THEN session[k].rec ELSE view[k]]

(* A stop of Home Assistant, or the unload of a reload, which forgets the  *)
(* timer of a pending replay without cancelling it.                        *)
Leave ==
    /\ proc = "up" /\ Down
    /\ view' = _persist_active_sessions /\ disk' = view'
    /\ left' = [k \in Keys |-> [rec |-> session[k].rec,
                                held |-> session[k].rec.started => override'[k]]]
_on_ha_stop == Leave /\ leaked' = 0
async_unload_entry == Leave /\ ~failed /\ leaked' = leaked + (IF timer THEN 1 ELSE 0)

---------------------------------------------------------------------------
(* Setup: _recover_sessions loads the records once, judges them one after  *)
(* the other around its awaits, and writes back what it loaded.            *)

Recovering(k) == proc = "setup" /\ recovery.at = k /\ recovery.stored[k] # NoRecord
NextKey(k) == IF k = "smart_charge" THEN "smart_discharge" ELSE "end"
InWindow(rec) == Date(rec.from) = Date(clock) /\ clock < rec.to
Kept(k) == [recovery EXCEPT !.at = NextKey(k), !.has = "unread"]
Dropped(k) == [Kept(k) EXCEPT !.stored[k] = NoRecord, !.changed = TRUE]
InSetup == <<clock, entity, cleanup, replaying, used, restarts, ended, left>>

async_setup_entry ==
    /\ proc = "down" /\ proc' = "setup"
    /\ recovery' = [stored |-> view, at |-> "smart_charge", has |-> "unread", changed |-> FALSE]
    /\ UNCHANGED <<InSetup, failed, session, store, override>>

RecoverNothing(k) ==
    /\ proc = "setup" /\ recovery.at = k /\ recovery.stored[k] = NoRecord
    /\ recovery' = Kept(k)
    /\ UNCHANGED <<InSetup, proc, failed, session, store, override>>

(* A record of another day goes; one whose window is over goes when its    *)
(* override is removed, or that failed.                                    *)
RecoverExpired(k) ==
    /\ Recovering(k) /\ recovery.has = "unread" /\ ~InWindow(recovery.stored[k])
    /\ recovery' = Dropped(k)
    /\ \/ UNCHANGED override
       \/ /\ Date(recovery.stored[k].from) = Date(clock)
          /\ override' = [override EXCEPT ![k] = FALSE]
    /\ UNCHANGED <<InSetup, proc, failed, session, store>>

_has_matching_schedule_group(k) ==
    /\ Recovering(k) /\ recovery.has = "unread" /\ InWindow(recovery.stored[k])
    /\ recovery' = [recovery EXCEPT !.has = IF entity \/ override[k] THEN "yes" ELSE "no"]
    /\ UNCHANGED <<InSetup, proc, failed, session, store, override>>

(* The schedule cannot be read: nothing catches it, and the setup fails.   *)
SetupFails(k) ==
    /\ Recovering(k) /\ recovery.has = "unread" /\ InWindow(recovery.stored[k]) /\ ~entity
    /\ proc' = "up" /\ failed' = TRUE /\ recovery' = NoRecovery
    /\ UNCHANGED <<InSetup, session, store, override>>

(* As Resumable, but a deferred session too must have its group.           *)
ResumableWithGroup(k) == recovery.has = "yes"

Resumable(k) == recovery.has = "yes" \/ ~recovery.stored[k].started

Resume(k) ==
    /\ Recovering(k) /\ recovery.has # "unread" /\ Resumable(k)
    /\ session' = [session EXCEPT ![k] = [rec |-> recovery.stored[k], paused |-> FALSE]]
    /\ recovery' = Kept(k)
    /\ UNCHANGED <<InSetup, proc, failed, store, override>>

Discard(k) ==
    /\ Recovering(k) /\ recovery.has # "unread" /\ ~Resumable(k)
    /\ recovery' = Dropped(k)
    /\ UNCHANGED <<InSetup, proc, failed, session, store, override>>

RecoveryDone ==
    /\ proc = "setup" /\ recovery.at = "end"
    /\ proc' = "up" /\ recovery' = NoRecovery
    /\ IF recovery.changed THEN view' = recovery.stored /\ disk' = view'
       ELSE UNCHANGED store
    /\ UNCHANGED <<InSetup, failed, session, override>>

_recover_sessions ==
    \/ \E k \in Keys : \/ RecoverNothing(k) \/ RecoverExpired(k) \/ _has_matching_schedule_group(k)
                       \/ SetupFails(k) \/ Resume(k) \/ Discard(k)
    \/ RecoveryDone

Listeners == \E k \in Keys : Begin(k) \/ SetPaused(k) \/ Finish(k) \/ CleanupDone(k)
                             \/ _on_circuit_breaker_abort(k)
Replaying == _attempt_replay \/ ProbeFails \/ ProbeDone
Process == Crash \/ _on_ha_stop \/ async_unload_entry \/ async_setup_entry

Next == \/ Tick \/ DelayedWrite \/ ClearOverrides \/ (\E k \in Keys : SmartService(k))
        \/ Listeners \/ Redefer \/ Replaying \/ Process \/ _recover_sessions

(* The timer fires and a probe is answered, one way or the other.          *)
Fairness == WF_vars(_attempt_replay) /\ WF_vars(ProbeFails \/ ProbeDone)

Spec == Init /\ [][Next]_vars
FairSpec == Spec /\ Fairness

---------------------------------------------------------------------------
TypeOK ==
    /\ clock \in Marks /\ entity \in BOOLEAN
    /\ proc \in {"down", "setup", "up"} /\ failed \in BOOLEAN
    /\ session \in [Keys -> Session]
    /\ view \in [Keys -> Record] /\ disk \in [Keys -> Record]
    /\ override \in [Keys -> BOOLEAN] /\ cleanup \in [Keys -> BOOLEAN]
    /\ recovery \in [stored : [Keys -> Record], at : Keys \union {"end"},
                     has : {"unread", "yes", "no"}, changed : BOOLEAN]
    /\ replay \in [key : Keys \union {"none"}, to : Nat]
    /\ probe \in [key : Keys \union {"none"}, to : Nat]
    /\ attempts \in 0 .. MaxAttempts /\ timer \in BOOLEAN /\ leaked \in 0 .. MaxRestarts
    /\ used \in Ids /\ restarts \in 0 .. MaxRestarts
    /\ ended \subseteq Ids /\ left \in [Keys -> [rec : Record, held : BOOLEAN]]

(* A running session has its own record in the store, as it is now; and    *)
(* once a setup went through, the store holds no record that nothing runs: *)
(* what the next process will resume is what this one would have gone on   *)
(* with (save_session, clear_stored_session, _recover_sessions).           *)
StoreAgrees ==
    \A k \in Keys : /\ Live(k) => view[k] = session[k].rec
                    /\ proc = "up" /\ ~failed /\ ~Live(k) => view[k] = NoRecord

(* A session that ended or was cancelled never runs again, whatever crash, *)
(* stop or reload follows, and before or after the delayed write: its      *)
(* record is off the disk (clear_stored_session does not delay its save).  *)
NoResurrection == \A k \in Keys : Live(k) => session[k].rec.id \notin ended

(* Recovery that gets past a record has resumed the session of it that a   *)
(* stop or a reload left, if its window is not over.                       *)
Resumed(k) ==
    recovery.at = k /\ recovery'.at # k /\ proc' # "down" /\ ~failed'
    /\ left[k].rec # NoRecord /\ InWindow(left[k].rec)
    => session'[k].rec = left[k].rec

(* A session that the stop found deferred, or with its override on, is     *)
(* resumed as it was.                                                      *)
RestartResumes == [][\A k \in Keys : left[k].held => Resumed(k)]_vars

(* A replay that is pending is started, given up or superseded in the end: *)
(* its timer runs as long as it is pending and every firing counts.        *)
ReplaySettles == replay # NoReplay ~> replay = NoReplay

=============================================================================
