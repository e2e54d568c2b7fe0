----------------------- MODULE ChargeListener_proofs -----------------------
(***************************************************************************)
(* What holds of ChargeListener for any number of sessions and overlapping *)
(* coroutines, any powers, thresholds and faults.                          *)
(***************************************************************************)
EXTENDS ChargeListener, TLAPS

-----------------------------------------------------------------------------
(* The session dict under the operators that write it *)

\* Writing one field of a dict keeps its type.
LEMMA DictUpdates ==
  ASSUME NEW d \in SessionDict
  PROVE  /\ \A b \in BOOLEAN : [d EXCEPT !.started = b] \in SessionDict
         /\ \A b \in BOOLEAN : [d EXCEPT !.reached = b] \in SessionDict
         /\ \A b \in BOOLEAN : [d EXCEPT !.unreachable = b] \in SessionDict
         /\ \A b \in BOOLEAN : [d EXCEPT !.open = b] \in SessionDict
         /\ \A p \in Powers \cup {0} : [d EXCEPT !.power = p] \in SessionDict
         /\ \A n \in Nat : [d EXCEPT !.missing = n] \in SessionDict
         /\ \A n \in Nat : [d EXCEPT !.errors = n] \in SessionDict
         /\ \A n \in Nat : [d EXCEPT !.ticks = n] \in SessionDict
BY DEF SessionDict

\* What the breaker does to a dict is within its type and leaves the session's
\* phase and its issue flag alone; the breaker agrees with its error run after
\* every outcome of a tick (_with_circuit_breaker).
LEMMA BreakerSteps ==
  ASSUME NEW d \in SessionDict
  PROVE  /\ TickSucceeded(d) \in SessionDict
         /\ TickFailed(d) \in SessionDict
         /\ TickHeld(d) \in SessionDict
         /\ \A e \in {TickSucceeded(d), TickFailed(d), TickHeld(d)} :
              e.started = d.started /\ e.unreachable = d.unreachable
         /\ TickSucceeded(d).open <=> TickSucceeded(d).errors >= MaxAdapterErrors
         /\ (d.open <=> d.errors >= MaxAdapterErrors) =>
              /\ TickFailed(d).open <=> TickFailed(d).errors >= MaxAdapterErrors
              /\ TickHeld(d).open <=> TickHeld(d).errors >= MaxAdapterErrors
<1>1. TickSucceeded(d) \in SessionDict
  <2>1. [d EXCEPT !.errors = 0] \in SessionDict
    BY DictUpdates
  <2>2. [d EXCEPT !.errors = 0, !.open = FALSE] \in SessionDict
    BY <2>1, DictUpdates
  <2>3. [d EXCEPT !.errors = 0, !.open = FALSE, !.ticks = 0] \in SessionDict
    BY <2>2, DictUpdates
  <2>4. CASE d.open
    BY <2>3, <2>4 DEF TickSucceeded
  <2>5. CASE ~d.open
    <3>1. TickSucceeded(d) = [d EXCEPT !.errors = 0, !.open = FALSE]
      BY <2>5 DEF TickSucceeded, SessionDict
    <3> QED BY <3>1, <2>2
  <2> QED BY <2>4, <2>5
<1>2. TickFailed(d) \in SessionDict
  <2>1. d.errors + 1 \in Nat
    BY DEF SessionDict
  <2>2. [d EXCEPT !.errors = @ + 1] \in SessionDict
    BY <2>1, DictUpdates
  <2>3. [d EXCEPT !.errors = @ + 1, !.open = TRUE] \in SessionDict
    BY <2>2, DictUpdates
  <2>4. [d EXCEPT !.errors = @ + 1, !.open = TRUE, !.ticks = 0] \in SessionDict
    BY <2>3, DictUpdates
  <2> QED BY <2>2, <2>4 DEF TickFailed
<1>3. TickHeld(d) \in SessionDict
  BY DEF SessionDict, TickHeld
<1>4. \A e \in {TickSucceeded(d), TickFailed(d), TickHeld(d)} :
        e.started = d.started /\ e.unreachable = d.unreachable
  BY DEF SessionDict, TickSucceeded, TickFailed, TickHeld
<1>5. TickSucceeded(d).open <=> TickSucceeded(d).errors >= MaxAdapterErrors
  BY BreakerAssumption DEF SessionDict, TickSucceeded
<1>6. (d.open <=> d.errors >= MaxAdapterErrors) =>
        /\ TickFailed(d).open <=> TickFailed(d).errors >= MaxAdapterErrors
        /\ TickHeld(d).open <=> TickHeld(d).errors >= MaxAdapterErrors
  BY BreakerAssumption DEF SessionDict, TickFailed, TickHeld
<1> QED BY <1>1, <1>2, <1>3, <1>4, <1>5, <1>6

\* A new dict is well typed, with the breaker closed and no issue flag.
LEMMA NewSessionDict ==
  ASSUME NEW p \in Powers \cup {0}
  PROVE  /\ NewSession(p) \in SessionDict
         /\ NewSession(p).started = (p # 0)
         /\ ~NewSession(p).unreachable
         /\ NewSession(p).open <=> NewSession(p).errors >= MaxAdapterErrors
BY BreakerAssumption, ChargeAssumption DEF NewSession, SessionDict

LEMMA NoDictType == NoDict \in SessionDict
                    /\ (NoDict.open <=> NoDict.errors >= MaxAdapterErrors)
BY NewSessionDict DEF NoDict

-----------------------------------------------------------------------------
(* Type correctness *)

\* A coroutine that suspends, and one that resumes, leave calls well typed.
LEMMA AwaitType ==
  ASSUME TypeOK, NEW pc, NEW s, NEW p, Await(pc, s, p),
         \/ pc \in Owned /\ s \in Sessions /\ p \in Powers \cup {0}
         \/ pc \in Removals \ Owned /\ s \in Sessions \cup {None} /\ p = 0
  PROVE  calls' \in [Calls -> CallRecord]
BY DEF TypeOK, Await, CallRecord

LEMMA ResumeType ==
  ASSUME TypeOK, NEW c \in Calls, NEW pc, NEW raised, Resume(c, pc, raised)
  PROVE  /\ calls' \in [Calls -> CallRecord]
         /\ calls[c] \in CallRecord
         /\ calls[c].pc = pc
BY ChargeAssumption DEF TypeOK, Resume, CallRecord, Idle

\* What a session's coroutine resumes with.
LEMMA OwnedCall ==
  ASSUME TypeOK, NEW c \in Calls, calls[c].pc \in Owned
  PROVE  calls[c].sid \in Sessions /\ calls[c].power \in Powers \cup {0}
BY DEF TypeOK, CallRecord, Removals, Owned, Applies

LEMMA CancelType ==
  ASSUME TypeOK, NEW fired, CancelSmartCharge(fired)
  PROVE  /\ session' \in Sessions \cup {None}
         /\ state' \in SessionDict
         /\ unsubs' \in Sessions \cup {None}
         /\ intervals' \subseteq Sessions /\ expiries' \subseteq Sessions
         /\ stored' \in [sid : Sessions, started : BOOLEAN] \cup {None}
BY NoDictType DEF TypeOK, CancelSmartCharge

LEMMA EndType ==
  ASSUME TypeOK, NEW fired, EndSession(fired)
  PROVE  /\ session' \in Sessions \cup {None}
         /\ state' \in SessionDict
         /\ unsubs' \in Sessions \cup {None}
         /\ intervals' \subseteq Sessions /\ expiries' \subseteq Sessions
         /\ stored' \in [sid : Sessions, started : BOOLEAN] \cup {None}
         /\ calls' \in [Calls -> CallRecord]
<1>1. CancelSmartCharge(fired)
  BY DEF EndSession
<1>2. calls' \in [Calls -> CallRecord]
  <2>1. CASE state.started
    <3>1. Await("endRemove", session, 0)
      BY <2>1 DEF EndSession
    <3>2. "endRemove" \in Removals \ Owned /\ session \in Sessions \cup {None}
      BY DEF Removals, Owned, Applies, TypeOK
    <3> QED BY <3>1, <3>2, AwaitType
  <2>2. CASE ~state.started
    BY <2>2 DEF EndSession, TypeOK
  <2> QED BY <2>1, <2>2
<1> QED BY <1>1, <1>2, CancelType

LEMMA SetUpType ==
  ASSUME TypeOK, NEW s \in Sessions, NEW p \in Powers \cup {0}, NEW unsubscribed,
         SetUpListeners(s, p, unsubscribed)
  PROVE  /\ session' \in Sessions \cup {None}
         /\ state' \in SessionDict
         /\ unsubs' \in Sessions \cup {None}
         /\ intervals' \subseteq Sessions /\ expiries' \subseteq Sessions
         /\ stored' \in [sid : Sessions, started : BOOLEAN] \cup {None}
         /\ issue' \in BOOLEAN
BY NewSessionDict DEF TypeOK, SetUpListeners

\* A firing timer's wake handling.
LEMMA FiredType ==
  ASSUME TypeOK, NEW s \in Sessions
  PROVE  \A w \in Fired(s) : w \subseteq Sessions
BY DEF TypeOK, Fired

LEMMA WriteDictType ==
  ASSUME TypeOK, NEW s, NEW d \in SessionDict, WriteDict(s, d)
  PROVE  state' \in SessionDict
BY DEF TypeOK, WriteDict

-----------------------------------------------------------------------------
(* The dicts a tick writes before or without an await *)

LEMMA BelowTargetDict ==
  ASSUME TypeOK
  PROVE  /\ BelowTarget \in SessionDict
         /\ BelowTarget.started = state.started
         /\ BelowTarget.unreachable = state.unreachable
         /\ BelowTarget.open = state.open /\ BelowTarget.errors = state.errors
<1>1. [state EXCEPT !.missing = 0] \in SessionDict
  BY DictUpdates DEF TypeOK
<1>2. BelowTarget \in SessionDict
  BY <1>1, DictUpdates DEF BelowTarget
<1> QED BY <1>2 DEF TypeOK, SessionDict, BelowTarget

LEMMA EarlyReturnDict ==
  ASSUME TypeOK, NEW reachable \in BOOLEAN
  PROVE  /\ EarlyReturn(reachable) \in SessionDict
         /\ EarlyReturn(reachable).started = state.started
         /\ EarlyReturn(reachable).unreachable
              <=> state.unreachable /\ ~reachable
         /\ EarlyReturn(reachable).open = state.open
         /\ EarlyReturn(reachable).errors = state.errors
<1>1. (BelowTarget.unreachable /\ ~reachable) \in BOOLEAN
  OBVIOUS
<1>2. EarlyReturn(reachable) \in SessionDict
  BY <1>1, BelowTargetDict, DictUpdates DEF EarlyReturn
<1>3. EarlyReturn(reachable).unreachable <=> state.unreachable /\ ~reachable
  BY BelowTargetDict DEF EarlyReturn, SessionDict
<1> QED BY <1>2, <1>3, BelowTargetDict DEF EarlyReturn, SessionDict

-----------------------------------------------------------------------------
(* Every action keeps the types *)

LEMMA UserType ==
  ASSUME TypeOK, User
  PROVE  TypeOK'
<1> USE DEF handles, device, world
<1>1. ASSUME NEW s \in Sessions, StartDeferred(s)
      PROVE  TypeOK'
  BY <1>1, SetUpType DEF StartDeferred, TypeOK
<1>2. ASSUME NEW s \in Sessions, NEW p \in Powers, StartNow(s, p)
      PROVE  TypeOK'
  <2>1. CancelSmartCharge({}) /\ Await("serviceApply", s, p)
    BY <1>2 DEF StartNow
  <2>2. calls' \in [Calls -> CallRecord]
    BY <2>1, AwaitType DEF Owned, Applies
  <2> QED BY <1>2, <2>1, <2>2, CancelType DEF StartNow, TypeOK
<1>3. CASE ClearOverrides
  <2>1. CancelSmartCharge({}) /\ Await("clearRemove", None, 0)
    BY <1>3 DEF ClearOverrides
  <2>2. "clearRemove" \in Removals \ Owned
    BY DEF Removals, Owned, Applies
  <2>3. calls' \in [Calls -> CallRecord]
    BY <2>1, <2>2, AwaitType
  <2> QED BY <1>3, <2>1, <2>3, CancelType DEF ClearOverrides, TypeOK
<1> QED BY <1>1, <1>2, <1>3 DEF User

LEMMA TimerType ==
  ASSUME TypeOK, NEW s \in Sessions,
         WindowEnds(s) \/ TimerExpire(s) \/ StaleWake(s)
  PROVE  TypeOK'
<1> USE DEF handles, device, world
<1>1. CASE WindowEnds(s)
  BY <1>1 DEF WindowEnds, TypeOK
<1>2. CASE TimerExpire(s)
  <2>1. CASE session = s
    BY <1>2, <2>1, EndType DEF TimerExpire, TypeOK
  <2>2. CASE session # s
    BY <1>2, <2>2 DEF TimerExpire, TypeOK
  <2> QED BY <2>1, <2>2
<1>3. CASE StaleWake(s)
  BY <1>3 DEF StaleWake, TypeOK
<1> QED BY <1>1, <1>2, <1>3

LEMMA TickType ==
  ASSUME TypeOK, NEW s \in Sessions, Tick(s)
  PROVE  TypeOK'
<1> USE DEF handles, device, world
<1>w. \A w \in Fired(s) : w \subseteq Sessions
  BY FiredType
<1>1. CASE TickHold(s)
  BY <1>1, <1>w, BreakerSteps DEF TickHold, TypeOK
<1>2. CASE TickAbort(s)
  BY <1>2, <1>w, EndType DEF TickAbort, TypeOK
<1>3. CASE TickSocMissing(s)
  <2>1. CASE state.missing + 1 >= MaxSocMissing
    BY <1>3, <2>1, <1>w, EndType DEF TickSocMissing, TypeOK
  <2>2. CASE ~(state.missing + 1 >= MaxSocMissing)
    <3>1. state.missing + 1 \in Nat
      BY DEF TypeOK, SessionDict
    <3>2. [state EXCEPT !.missing = @ + 1] \in SessionDict
      BY <3>1, DictUpdates DEF TypeOK
    <3>3. state' \in SessionDict
      BY <1>3, <2>2, <3>2, BreakerSteps DEF TickSocMissing
    <3> QED BY <1>3, <2>2, <3>3, <1>w DEF TickSocMissing, TypeOK
  <2> QED BY <2>1, <2>2
<1>4. CASE TickTarget(s)
  <2>1. [state EXCEPT !.missing = 0] \in SessionDict
    BY DictUpdates DEF TypeOK
  <2>2. [state EXCEPT !.missing = 0, !.reached = TRUE] \in SessionDict
    BY <2>1, DictUpdates
  <2>3. state' \in SessionDict
    BY <1>4, <2>1, <2>2, BreakerSteps DEF TickTarget
  <2>4. calls' \in [Calls -> CallRecord]
    <3>1. Await("targetRemove", s, 0) \/ UNCHANGED calls
      BY <1>4 DEF TickTarget
    <3> QED BY <3>1, AwaitType DEF TypeOK, Owned
  <2> QED BY <1>4, <2>3, <2>4, <1>w DEF TickTarget, TypeOK
<1>5. CASE TickPastEnd(s)
  BY <1>5, <1>w, EndType DEF TickPastEnd, TypeOK
<1>6. CASE TickDefer(s)
  <2>1. wakes' \subseteq Sessions
    BY <1>6, <1>w DEF TickDefer
  <2>2. PICK reachable \in BOOLEAN :
          /\ issue' = IssueAfterEarlyReturn(reachable)
          /\ state' = TickSucceeded(EarlyReturn(reachable))
    BY <1>6 DEF TickDefer
  <2>3. state' \in SessionDict /\ issue' \in BOOLEAN
    BY <2>2, EarlyReturnDict, BreakerSteps DEF IssueAfterEarlyReturn, TypeOK
  <2> QED BY <1>6, <2>1, <2>3 DEF TickDefer, TypeOK
<1>7. CASE TickStart(s)
  <2>1. wakes' \subseteq Sessions
    BY <1>7, <1>w DEF TickStart
  <2>2. calls' \in [Calls -> CallRecord]
    BY <1>7, AwaitType DEF TickStart, Owned, Applies
  <2> QED BY <1>7, <2>1, <2>2, BelowTargetDict DEF TickStart, TypeOK
<1>8. CASE TickRedefer(s)
  <2>1. PICK reachable \in BOOLEAN :
          /\ issue' = IssueAfterEarlyReturn(reachable)
          /\ state' = EarlyReturn(reachable)
    BY <1>8 DEF TickRedefer
  <2>2. state' \in SessionDict /\ issue' \in BOOLEAN
    BY <2>1, EarlyReturnDict DEF IssueAfterEarlyReturn, TypeOK
  <2>3. calls' \in [Calls -> CallRecord]
    BY <1>8, AwaitType DEF TickRedefer, Owned
  <2> QED BY <1>8, <2>2, <2>3, <1>w DEF TickRedefer, TypeOK
<1>9. CASE TickSkip(s)
  BY <1>9, <1>w, BelowTargetDict, BreakerSteps DEF TickSkip, TypeOK
<1>10. CASE TickAdjust(s)
  <2>1. PICK p \in Powers, reachable \in BOOLEAN :
          /\ issue' = IF reachable = state.unreachable THEN ~reachable ELSE issue
          /\ state' = [BelowTarget EXCEPT !.power = p,
                                          !.unreachable = ~reachable]
          /\ Await("adjustApply", s, p)
    BY <1>10 DEF TickAdjust
  <2>2. [BelowTarget EXCEPT !.power = p] \in SessionDict
    BY BelowTargetDict, DictUpdates
  <2>3. state' \in SessionDict
    BY <2>1, <2>2, DictUpdates
  <2>4. issue' \in BOOLEAN
    BY <2>1 DEF TypeOK
  <2>5. calls' \in [Calls -> CallRecord]
    BY <2>1, AwaitType DEF Owned, Applies
  <2> QED BY <1>10, <2>3, <2>4, <2>5, <1>w DEF TickAdjust, TypeOK
<1> QED BY <1>1, <1>2, <1>3, <1>4, <1>5, <1>6, <1>7, <1>8, <1>9, <1>10 DEF Tick

LEMMA DeviceType ==
  ASSUME TypeOK,
         \/ CleanupRetry \/ AdapterDown \/ AdapterUp
         \/ \E c \in Calls : Effect(c)
  PROVE  TypeOK'
<1> USE DEF handles, device, world
<1>1. CASE CleanupRetry
  <2>1. Await("cleanupRemove", None, 0)
    BY <1>1 DEF CleanupRetry
  <2>2. "cleanupRemove" \in Removals \ Owned
    BY DEF Removals, Owned, Applies
  <2>3. calls' \in [Calls -> CallRecord]
    BY <2>1, <2>2, AwaitType
  <2> QED BY <1>1, <2>3 DEF CleanupRetry, TypeOK
<1>2. CASE AdapterDown \/ AdapterUp
  BY <1>2 DEF AdapterDown, AdapterUp, TypeOK
<1>3. ASSUME NEW c \in Calls, Effect(c)
      PROVE  TypeOK'
  <2>1. calls' \in [Calls -> CallRecord]
    <3>1. calls[c] \in CallRecord
      BY DEF TypeOK
    <3>2. [calls[c] EXCEPT !.done = TRUE] \in CallRecord
      BY <3>1 DEF CallRecord
    <3>3. calls' = [calls EXCEPT ![c] = [calls[c] EXCEPT !.done = TRUE]]
      BY <1>3 DEF Effect
    <3> QED BY <3>2, <3>3 DEF TypeOK
  <2>2. inverter' \in Powers \cup {0}
    BY <1>3, OwnedCall DEF Effect, TypeOK, Owned
  <2> QED BY <1>3, <2>1, <2>2 DEF Effect, TypeOK
<1> QED BY <1>1, <1>2, <1>3

LEMMA ReturnType ==
  ASSUME TypeOK, NEW c \in Calls, Return(c)
  PROVE  TypeOK'
<1> USE DEF handles, device, world
<1>1. CASE ServiceApplied(c)
  <2>1. PICK raised \in BOOLEAN :
          /\ Resume(c, "serviceApply", raised)
          /\ IF raised THEN UNCHANGED <<handles, state, stored, issue>>
             ELSE SetUpListeners(calls[c].sid, calls[c].power, {})
    BY <1>1 DEF ServiceApplied
  <2>2. calls' \in [Calls -> CallRecord] /\ calls[c].pc = "serviceApply"
    BY <2>1, ResumeType
  <2>3. calls[c].sid \in Sessions /\ calls[c].power \in Powers \cup {0}
    BY <2>2, OwnedCall DEF Owned, Applies
  <2>4. CASE raised
    BY <1>1, <2>1, <2>2, <2>4 DEF ServiceApplied, TypeOK
  <2>5. CASE ~raised
    <3>1. SetUpListeners(calls[c].sid, calls[c].power, {})
      BY <2>1, <2>5
    <3> QED BY <1>1, <2>2, <2>3, <3>1, SetUpType DEF ServiceApplied, TypeOK
  <2> QED BY <2>4, <2>5
<1>2. CASE OverridesCleared(c)
  BY <1>2, ResumeType DEF OverridesCleared, TypeOK
<1>3. CASE CleanupRetried(c)
  BY <1>3, ResumeType DEF CleanupRetried, TypeOK
<1>4. CASE Ended(c)
  BY <1>4, ResumeType DEF Ended, OverrideRemoved, TypeOK
<1>5. CASE TargetRemoved(c)
  <2>1. calls' \in [Calls -> CallRecord] /\ pendingCleanup' \in BOOLEAN
    BY <1>5, ResumeType DEF TargetRemoved, OverrideRemoved, TypeOK
  <2>2. [state EXCEPT !.reached = TRUE] \in SessionDict
    BY DictUpdates DEF TypeOK
  <2>3. state' \in SessionDict
    BY <1>5, <2>2, BreakerSteps, WriteDictType DEF TargetRemoved
  <2> QED BY <1>5, <2>1, <2>3 DEF TargetRemoved, TypeOK
<1>6. CASE RedeferRemoved(c)
  <2>1. calls' \in [Calls -> CallRecord] /\ pendingCleanup' \in BOOLEAN
        /\ calls[c].pc = "redeferRemove"
    BY <1>6, ResumeType DEF RedeferRemoved, OverrideRemoved, TypeOK
  <2>2. calls[c].sid \in Sessions
    BY <2>1, OwnedCall DEF Owned
  <2>3. [state EXCEPT !.started = FALSE] \in SessionDict
    BY DictUpdates DEF TypeOK
  <2>4. state' \in SessionDict
    BY <1>6, <2>3, BreakerSteps, WriteDictType DEF RedeferRemoved
  <2>5. wakes' \subseteq Sessions
    BY <1>6, <2>2 DEF RedeferRemoved, TypeOK
  <2>6. [sid |-> calls[c].sid, started |-> FALSE]
          \in [sid : Sessions, started : BOOLEAN]
    BY <2>2
  <2>7. stored' \in [sid : Sessions, started : BOOLEAN] \cup {None}
    BY <1>6, <2>6, Zenon DEF RedeferRemoved, TypeOK
  <2> QED BY <1>6, <2>1, <2>4, <2>5, <2>7 DEF RedeferRemoved, TypeOK
<1>7. CASE StartApplied(c)
  <2>1. PICK raised \in BOOLEAN :
          /\ Resume(c, "startApply", raised)
          /\ WriteDict(calls[c].sid,
               IF raised THEN TickFailed(state)
               ELSE TickSucceeded([state EXCEPT !.started = TRUE,
                                                !.power = calls[c].power]))
          /\ stored' = IF session = calls[c].sid /\ ~raised
                       THEN [sid |-> calls[c].sid, started |-> TRUE] ELSE stored
    BY <1>7 DEF StartApplied
  <2>2. calls' \in [Calls -> CallRecord] /\ calls[c].pc = "startApply"
    BY <2>1, ResumeType
  <2>3. calls[c].sid \in Sessions /\ calls[c].power \in Powers \cup {0}
    BY <2>2, OwnedCall DEF Owned, Applies
  <2>4. [state EXCEPT !.started = TRUE] \in SessionDict
    BY DictUpdates DEF TypeOK
  <2>5. [state EXCEPT !.started = TRUE, !.power = calls[c].power] \in SessionDict
    BY <2>3, <2>4, DictUpdates
  <2>6. (IF raised THEN TickFailed(state)
         ELSE TickSucceeded([state EXCEPT !.started = TRUE,
                                          !.power = calls[c].power]))
        \in SessionDict
    BY <2>5, BreakerSteps DEF TypeOK
  <2>7. state' \in SessionDict
    BY <2>1, <2>6, WriteDictType
  <2>8. stored' \in [sid : Sessions, started : BOOLEAN] \cup {None}
    BY <2>1, <2>3 DEF TypeOK
  <2> QED BY <1>7, <2>2, <2>7, <2>8 DEF StartApplied, TypeOK
<1>8. CASE AdjustApplied(c)
  <2>1. PICK raised \in BOOLEAN :
          /\ Resume(c, "adjustApply", raised)
          /\ WriteDict(calls[c].sid, IF raised THEN TickFailed(state)
                                               ELSE TickSucceeded(state))
          /\ stored' = IF session = calls[c].sid /\ ~raised
                       THEN [sid |-> calls[c].sid, started |-> state.started]
                       ELSE stored
    BY <1>8 DEF AdjustApplied
  <2>2. calls' \in [Calls -> CallRecord] /\ calls[c].pc = "adjustApply"
    BY <2>1, ResumeType
  <2>3. calls[c].sid \in Sessions
    BY <2>2, OwnedCall DEF Owned, Applies
  <2>4. (IF raised THEN TickFailed(state) ELSE TickSucceeded(state))
        \in SessionDict
    BY BreakerSteps DEF TypeOK
  <2>5. state' \in SessionDict
    BY <2>1, <2>4, WriteDictType
  <2>6. state.started \in BOOLEAN
    BY DEF TypeOK, SessionDict
  <2>7. stored' \in [sid : Sessions, started : BOOLEAN] \cup {None}
    BY <2>1, <2>3, <2>6 DEF TypeOK
  <2> QED BY <1>8, <2>2, <2>5, <2>7 DEF AdjustApplied, TypeOK
<1> QED BY <1>1, <1>2, <1>3, <1>4, <1>5, <1>6, <1>7, <1>8 DEF Return

LEMMA TypeStep ==
  ASSUME TypeOK, [Next]_vars
  PROVE  TypeOK'
<1>1. CASE UNCHANGED vars
  BY <1>1 DEF vars, TypeOK
<1>2. CASE User
  BY <1>2, UserType
<1>3. ASSUME NEW s \in Sessions, WindowEnds(s) \/ TimerExpire(s) \/ StaleWake(s)
      PROVE  TypeOK'
  BY <1>3, TimerType
<1>4. ASSUME NEW s \in Sessions, Tick(s)
      PROVE  TypeOK'
  BY <1>4, TickType
<1>5. CASE CleanupRetry \/ AdapterDown \/ AdapterUp
  BY <1>5, DeviceType
<1>6. ASSUME NEW c \in Calls, Effect(c) \/ Return(c)
      PROVE  TypeOK'
  BY <1>6, DeviceType, ReturnType
<1> QED BY <1>1, <1>2, <1>3, <1>4, <1>5, <1>6 DEF Next

LEMMA TypeInit == Init => TypeOK
<1>1. Idle \in CallRecord
  BY DEF Idle, CallRecord
<1> QED BY <1>1, NoDictType DEF Init, TypeOK

\* Every variable keeps its type, however many service calls, ticks, timers and
\* answers overlap: no coroutine that resumes late puts a session, a dict or a
\* stored record where it does not belong.
THEOREM TypeCorrect == Spec => []TypeOK
<1> QED BY TypeInit, TypeStep, PTL DEF Spec

-----------------------------------------------------------------------------
(* The session, its timers, its issue and its stored record *)

\* The inductive invariant.  TypeOK knows which calls carry a session, so that
\* a coroutine that resumes finds one; the other parts support each other only
\* through the current session's dict.
Inv == /\ TypeOK
       /\ TimersCoverSession
       /\ IssueAgrees
       /\ BreakerAgrees
       /\ StoredAgrees

Agree == TimersCoverSession /\ IssueAgrees /\ BreakerAgrees /\ StoredAgrees

\* Cancelling a session satisfies every agreement: nothing is left to agree.
LEMMA CancelAgrees ==
  ASSUME NEW fired, CancelSmartCharge(fired)
  PROVE  Agree'
BY NoDictType DEF CancelSmartCharge, Agree, TimersCoverSession, IssueAgrees,
                  BreakerAgrees, StoredAgrees

LEMMA EndAgrees ==
  ASSUME NEW fired, EndSession(fired)
  PROVE  Agree'
BY CancelAgrees DEF EndSession

\* So does setting up a new one.
LEMMA SetUpAgrees ==
  ASSUME NEW s \in Sessions, NEW p \in Powers \cup {0}, NEW unsubscribed,
         SetUpListeners(s, p, unsubscribed)
  PROVE  Agree'
<1>1. BreakerAgrees'
  BY NewSessionDict DEF SetUpListeners, BreakerAgrees
<1>2. IssueAgrees'
  BY NewSessionDict DEF SetUpListeners, IssueAgrees
<1>3. StoredAgrees'
  BY NewSessionDict, ChargeAssumption DEF SetUpListeners, StoredAgrees
<1>4. TimersCoverSession'
  BY DEF SetUpListeners, TimersCoverSession
<1> QED BY <1>1, <1>2, <1>3, <1>4 DEF Agree

\* A step that keeps the session and its handles keeps the agreements if what
\* it writes in the dict, in the issue registry and in the Store belongs
\* together.
LEMMA DictAgrees ==
  ASSUME Inv, UNCHANGED handles,
         session # None => (issue' <=> state'.unreachable),
         state'.open <=> state'.errors >= MaxAdapterErrors,
         IF session = None THEN stored' = None
         ELSE stored' = [sid |-> session, started |-> state'.started]
  PROVE  Agree'
BY DEF Inv, Agree, handles, TimersCoverSession, IssueAgrees, BreakerAgrees,
       StoredAgrees

\* The most common case: neither the issue nor the Store is touched.
LEMMA QuietAgrees ==
  ASSUME Inv, UNCHANGED <<handles, stored, issue>>,
         state'.started = state.started, state'.unreachable = state.unreachable,
         state'.open <=> state'.errors >= MaxAdapterErrors
  PROVE  Agree'
BY DictAgrees DEF Inv, IssueAgrees, StoredAgrees

LEMMA SameDictAgrees ==
  ASSUME Inv, UNCHANGED <<handles, stored, issue, state>>
  PROVE  Agree'
BY QuietAgrees DEF Inv, BreakerAgrees

LEMMA UserAgrees ==
  ASSUME Inv, User
  PROVE  Agree'
<1>1. ASSUME NEW s \in Sessions, StartDeferred(s)
      PROVE  Agree'
  BY <1>1, SetUpAgrees DEF StartDeferred
<1>2. ASSUME NEW s \in Sessions, NEW p \in Powers, StartNow(s, p)
      PROVE  Agree'
  BY <1>2, CancelAgrees DEF StartNow
<1>3. CASE ClearOverrides
  BY <1>3, CancelAgrees DEF ClearOverrides
<1> QED BY <1>1, <1>2, <1>3 DEF User

LEMMA TimerAgrees ==
  ASSUME Inv, NEW s \in Sessions,
         WindowEnds(s) \/ TimerExpire(s) \/ StaleWake(s)
  PROVE  Agree'
<1>1. CASE WindowEnds(s) \/ StaleWake(s)
  BY <1>1, SameDictAgrees DEF WindowEnds, StaleWake
<1>2. CASE TimerExpire(s)
  <2>1. CASE session = s
    BY <1>2, <2>1, EndAgrees DEF TimerExpire
  <2>2. CASE session # s
    BY <1>2, <2>2 DEF TimerExpire, Inv, Agree, TimersCoverSession, IssueAgrees,
                      BreakerAgrees, StoredAgrees
  <2> QED BY <2>1, <2>2
<1> QED BY <1>1, <1>2

LEMMA TickAgrees ==
  ASSUME Inv, NEW s \in Sessions, Tick(s)
  PROVE  Agree'
<1>i. TypeOK /\ BreakerAgrees
  BY DEF Inv
<1>d. state \in SessionDict
  BY <1>i DEF TypeOK
<1>s. session = s /\ session # None
  BY ChargeAssumption DEF Tick, TickHold, TickAbort, TickSocMissing, TickTarget,
     TickPastEnd, TickDefer, TickStart, TickRedefer, TickSkip, TickAdjust, Runs
<1>a. (session # None => (issue <=> state.unreachable))
      /\ stored = [sid |-> session, started |-> state.started]
  BY <1>s DEF Inv, IssueAgrees, StoredAgrees
<1>1. CASE TickHold(s)
  BY <1>1, <1>d, <1>i, BreakerSteps, QuietAgrees DEF TickHold, BreakerAgrees
<1>2. CASE TickAbort(s) \/ TickPastEnd(s)
  BY <1>2, EndAgrees DEF TickAbort, TickPastEnd
<1>3. CASE TickSocMissing(s)
  <2>1. CASE state.missing + 1 >= MaxSocMissing
    BY <1>3, <2>1, EndAgrees DEF TickSocMissing
  <2>2. CASE ~(state.missing + 1 >= MaxSocMissing)
    <3> DEFINE d == [state EXCEPT !.missing = @ + 1]
    <3>1. d \in SessionDict
      BY <1>d DEF SessionDict
    <3>2. d.started = state.started /\ d.unreachable = state.unreachable
      BY <1>d DEF SessionDict
    <3>3. state' = TickSucceeded(d) /\ UNCHANGED <<handles, stored, issue>>
      BY <1>3, <2>2 DEF TickSocMissing
    <3> HIDE DEF d
    <3> QED BY <3>1, <3>2, <3>3, BreakerSteps, QuietAgrees
  <2> QED BY <2>1, <2>2
<1>4. CASE TickTarget(s)
  <2> DEFINE d == [state EXCEPT !.missing = 0]
             e == [state EXCEPT !.missing = 0, !.reached = TRUE]
  <2>1. d \in SessionDict
    BY <1>d, DictUpdates
  <2>2. e \in SessionDict
    BY <2>1, DictUpdates
  <2>3. /\ d.started = state.started /\ d.unreachable = state.unreachable
        /\ e.started = state.started /\ e.unreachable = state.unreachable
        /\ d.open = state.open /\ d.errors = state.errors
    BY <1>d DEF SessionDict
  <2>4. (state' = d \/ state' = TickSucceeded(e))
        /\ UNCHANGED <<handles, stored, issue>>
    BY <1>4 DEF TickTarget
  <2> HIDE DEF d, e
  <2>5. CASE state' = d
    BY <2>3, <2>4, <2>5, <1>i, QuietAgrees DEF BreakerAgrees
  <2>6. CASE state' = TickSucceeded(e)
    BY <2>2, <2>3, <2>4, <2>6, BreakerSteps, QuietAgrees
  <2> QED BY <2>4, <2>5, <2>6
<1>5. CASE TickDefer(s)
  <2>1. PICK reachable \in BOOLEAN :
          /\ issue' = IssueAfterEarlyReturn(reachable)
          /\ state' = TickSucceeded(EarlyReturn(reachable))
    BY <1>5 DEF TickDefer
  <2>2. /\ state'.started = state.started
        /\ state'.unreachable <=> state.unreachable /\ ~reachable
        /\ state'.open <=> state'.errors >= MaxAdapterErrors
    BY <2>1, <1>i, EarlyReturnDict, BreakerSteps
  <2>3. issue' <=> state'.unreachable
    BY <2>1, <2>2, <1>a, <1>s DEF IssueAfterEarlyReturn
  <2> QED BY <1>5, <2>2, <2>3, <1>a, <1>s, DictAgrees DEF TickDefer
<1>6. CASE TickStart(s)
  BY <1>6, <1>i, BelowTargetDict, QuietAgrees DEF TickStart, BreakerAgrees
<1>7. CASE TickRedefer(s)
  <2>1. PICK reachable \in BOOLEAN :
          /\ issue' = IssueAfterEarlyReturn(reachable)
          /\ state' = EarlyReturn(reachable)
    BY <1>7 DEF TickRedefer
  <2>2. /\ state'.started = state.started
        /\ state'.unreachable <=> state.unreachable /\ ~reachable
        /\ state'.open <=> state'.errors >= MaxAdapterErrors
    BY <2>1, <1>i, EarlyReturnDict DEF BreakerAgrees
  <2>3. issue' <=> state'.unreachable
    BY <2>1, <2>2, <1>a, <1>s DEF IssueAfterEarlyReturn
  <2> QED BY <1>7, <2>2, <2>3, <1>a, <1>s, DictAgrees DEF TickRedefer
<1>8. CASE TickSkip(s)
  BY <1>8, <1>i, BelowTargetDict, BreakerSteps, QuietAgrees DEF TickSkip
<1>9. CASE TickAdjust(s)
  <2>1. PICK p \in Powers, reachable \in BOOLEAN :
          /\ issue' = IF reachable = state.unreachable THEN ~reachable ELSE issue
          /\ state' = [BelowTarget EXCEPT !.power = p,
                                          !.unreachable = ~reachable]
    BY <1>9 DEF TickAdjust
  <2>2. /\ state'.started = state.started
        /\ state'.unreachable = ~reachable
        /\ state'.open <=> state'.errors >= MaxAdapterErrors
    BY <2>1, <1>i, BelowTargetDict DEF BreakerAgrees, SessionDict
  <2>3. state.unreachable \in BOOLEAN
    BY <1>d DEF SessionDict
  <2>4. issue' <=> state'.unreachable
    BY <2>1, <2>2, <2>3, <1>a, <1>s
  <2> QED BY <1>9, <2>2, <2>4, <1>a, <1>s, DictAgrees DEF TickAdjust
<1> QED BY <1>1, <1>2, <1>3, <1>4, <1>5, <1>6, <1>7, <1>8, <1>9 DEF Tick

\* The coroutine of a session that is no longer the current one writes to a
\* dict that nobody reads; that of the current one writes what belongs to it.
LEMMA ReturnAgrees ==
  ASSUME Inv, NEW c \in Calls, Return(c)
  PROVE  Agree'
<1>i. TypeOK /\ BreakerAgrees /\ StoredAgrees /\ IssueAgrees
  BY DEF Inv
<1>d. state \in SessionDict
  BY <1>i DEF TypeOK
<1>1. CASE ServiceApplied(c)
  <2>1. PICK raised \in BOOLEAN :
          /\ Resume(c, "serviceApply", raised)
          /\ IF raised THEN UNCHANGED <<handles, state, stored, issue>>
             ELSE SetUpListeners(calls[c].sid, calls[c].power, {})
    BY <1>1 DEF ServiceApplied
  <2>2. calls[c].sid \in Sessions /\ calls[c].power \in Powers \cup {0}
    BY <2>1, <1>i, ResumeType, OwnedCall DEF Owned, Applies
  <2>3. CASE raised
    BY <2>1, <2>3, SameDictAgrees
  <2>4. CASE ~raised
    BY <2>1, <2>2, <2>4, SetUpAgrees
  <2> QED BY <2>3, <2>4
<1>2. CASE OverridesCleared(c) \/ CleanupRetried(c) \/ Ended(c)
  BY <1>2, SameDictAgrees DEF OverridesCleared, CleanupRetried, Ended
<1>3. CASE TargetRemoved(c)
  <2> DEFINE d == [state EXCEPT !.reached = TRUE]
  <2>1. d \in SessionDict
    BY <1>d, DictUpdates
  <2>2. d.started = state.started /\ d.unreachable = state.unreachable
    BY <1>d DEF SessionDict
  <2>3. (state' = TickSucceeded(d) \/ state' = state)
        /\ UNCHANGED <<handles, stored, issue>>
    BY <1>3 DEF TargetRemoved, WriteDict
  <2> HIDE DEF d
  <2>4. CASE state' = TickSucceeded(d)
    BY <2>1, <2>2, <2>3, <2>4, BreakerSteps, QuietAgrees
  <2>5. CASE state' = state
    BY <2>3, <2>5, SameDictAgrees
  <2> QED BY <2>3, <2>4, <2>5
<1>4. CASE RedeferRemoved(c)
  <2> DEFINE d == [state EXCEPT !.started = FALSE]
  <2>1. d \in SessionDict
    BY <1>d, DictUpdates
  <2>2. d.unreachable = state.unreachable /\ ~d.started
    BY <1>d DEF SessionDict
  <2>3. CASE session = calls[c].sid
    <3>1. /\ state' = TickSucceeded(d)
          /\ stored' = [sid |-> calls[c].sid, started |-> FALSE]
          /\ UNCHANGED <<handles, issue>>
      BY <1>4, <2>3 DEF RedeferRemoved, WriteDict
    <3> HIDE DEF d
    <3>2. /\ ~state'.started /\ state'.unreachable = state.unreachable
          /\ state'.open <=> state'.errors >= MaxAdapterErrors
      BY <3>1, <2>1, <2>2, BreakerSteps
    <3>3. calls[c].sid # None
      BY <1>4, <1>i, ResumeType, OwnedCall, ChargeAssumption
         DEF RedeferRemoved, OverrideRemoved, Owned
    <3>4. state'.started = FALSE
      BY <3>1, <2>1, <2>2, BreakerSteps DEF SessionDict
    <3> QED BY <2>3, <3>1, <3>2, <3>3, <3>4, <1>i, DictAgrees DEF IssueAgrees
  <2>4. CASE session # calls[c].sid
    BY <1>4, <2>4, SameDictAgrees DEF RedeferRemoved, WriteDict
  <2> QED BY <2>3, <2>4
<1>5. CASE StartApplied(c)
  <2> DEFINE d == [state EXCEPT !.started = TRUE, !.power = calls[c].power]
  <2>1. PICK raised \in BOOLEAN :
          /\ Resume(c, "startApply", raised)
          /\ WriteDict(calls[c].sid, IF raised THEN TickFailed(state)
                                               ELSE TickSucceeded(d))
          /\ stored' = IF session = calls[c].sid /\ ~raised
                       THEN [sid |-> calls[c].sid, started |-> TRUE] ELSE stored
          /\ UNCHANGED <<handles, issue>>
    BY <1>5 DEF StartApplied
  <2>2. /\ calls[c].sid \in Sessions /\ calls[c].sid # None
        /\ calls[c].power \in Powers \cup {0}
    BY <2>1, <1>i, ResumeType, OwnedCall, ChargeAssumption DEF Owned, Applies
  <2>3. [state EXCEPT !.started = TRUE] \in SessionDict
    BY <1>d, DictUpdates
  <2>4. d \in SessionDict
    BY <2>2, <2>3, DictUpdates
  <2>5. d.unreachable = state.unreachable /\ d.started = TRUE
    BY <1>d DEF SessionDict
  <2> HIDE DEF d
  <2>6. CASE session # calls[c].sid
    BY <2>1, <2>6, SameDictAgrees DEF WriteDict
  <2>7. CASE session = calls[c].sid /\ raised
    BY <2>1, <2>7, <1>i, <1>d, BreakerSteps, QuietAgrees
       DEF WriteDict, BreakerAgrees
  <2>8. CASE session = calls[c].sid /\ ~raised
    <3>1. state' = TickSucceeded(d)
          /\ stored' = [sid |-> session, started |-> TRUE]
      BY <2>1, <2>8 DEF WriteDict
    <3>2. /\ state'.started = TRUE /\ state'.unreachable = state.unreachable
          /\ state'.open <=> state'.errors >= MaxAdapterErrors
      BY <3>1, <2>4, <2>5, BreakerSteps
    <3> QED BY <2>1, <2>2, <2>8, <3>1, <3>2, <1>i, DictAgrees DEF IssueAgrees
  <2> QED BY <2>6, <2>7, <2>8
<1>6. CASE AdjustApplied(c)
  <2>1. PICK raised \in BOOLEAN :
          /\ Resume(c, "adjustApply", raised)
          /\ WriteDict(calls[c].sid, IF raised THEN TickFailed(state)
                                               ELSE TickSucceeded(state))
          /\ stored' = IF session = calls[c].sid /\ ~raised
                       THEN [sid |-> calls[c].sid, started |-> state.started]
                       ELSE stored
          /\ UNCHANGED <<handles, issue>>
    BY <1>6 DEF AdjustApplied
  <2>2. calls[c].sid # None
    BY <2>1, <1>i, ResumeType, OwnedCall, ChargeAssumption DEF Owned, Applies
  <2>3. stored' = stored
    BY <2>1, <2>2, <1>i DEF StoredAgrees
  <2>4. \/ state' = state
        \/ state' = TickFailed(state)
        \/ state' = TickSucceeded(state)
    BY <2>1 DEF WriteDict
  <2>5. /\ state'.started = state.started
        /\ state'.unreachable = state.unreachable
        /\ state'.open <=> state'.errors >= MaxAdapterErrors
    BY <2>4, <1>i, <1>d, BreakerSteps DEF BreakerAgrees
  <2> QED BY <2>1, <2>3, <2>5, QuietAgrees
<1> QED BY <1>1, <1>2, <1>3, <1>4, <1>5, <1>6 DEF Return

LEMMA InvStep ==
  ASSUME Inv, [Next]_vars
  PROVE  Inv'
<1>1. TypeOK'
  BY TypeStep DEF Inv
<1>2. Agree'
  <2>1. CASE UNCHANGED vars
    BY <2>1, SameDictAgrees DEF vars, handles
  <2>2. CASE User
    BY <2>2, UserAgrees
  <2>3. ASSUME NEW s \in Sessions,
               WindowEnds(s) \/ TimerExpire(s) \/ StaleWake(s)
        PROVE  Agree'
    BY <2>3, TimerAgrees
  <2>4. ASSUME NEW s \in Sessions, Tick(s)
        PROVE  Agree'
    BY <2>4, TickAgrees
  <2>5. CASE CleanupRetry \/ AdapterDown \/ AdapterUp
    BY <2>5, SameDictAgrees DEF CleanupRetry, AdapterDown, AdapterUp
  <2>6. ASSUME NEW c \in Calls, Effect(c) \/ Return(c)
        PROVE  Agree'
    BY <2>6, SameDictAgrees, ReturnAgrees DEF Effect, handles
  <2> QED BY <2>1, <2>2, <2>3, <2>4, <2>5, <2>6 DEF Next
<1> QED BY <1>1, <1>2 DEF Inv, Agree

LEMMA InvInit == Init => Inv
<1> SUFFICES ASSUME Init PROVE Inv
  OBVIOUS
<1>1. TypeOK
  BY TypeInit
<1>2. TimersCoverSession /\ IssueAgrees /\ StoredAgrees
  BY DEF Init, TimersCoverSession, IssueAgrees, StoredAgrees
<1>3. BreakerAgrees
  BY NoDictType DEF Init, BreakerAgrees
<1> QED BY <1>1, <1>2, <1>3 DEF Inv

LEMMA InvHolds == Spec => []Inv
<1> QED BY InvInit, InvStep, PTL DEF Spec

\* The current session always has the handles, the tick and the window-end
\* timer that will end it: no overlap of service calls, ends and late set-ups
\* leaves it without them.
THEOREM TimersCover == Spec => []TimersCoverSession
<1>1. Inv => TimersCoverSession
  BY DEF Inv
<1> QED BY <1>1, InvHolds, PTL

\* The repair issue is shown exactly while the running session's own flag says
\* so, whichever tick, early return or end wrote it last.
THEOREM IssueShown == Spec => []IssueAgrees
<1>1. Inv => IssueAgrees
  BY DEF Inv
<1> QED BY <1>1, InvHolds, PTL

\* The breaker is open exactly when the run of errors reached the limit, even
\* when several ticks of a session are in flight and their outcomes interleave.
THEOREM BreakerCounts == Spec => []BreakerAgrees
<1>1. Inv => BreakerAgrees
  BY DEF Inv
<1> QED BY <1>1, InvHolds, PTL

\* What a restart would recover is the current session in its current phase; a
\* coroutine of an ended session never writes it back.
THEOREM StoreFollows == Spec => []StoredAgrees
<1>1. Inv => StoredAgrees
  BY DEF Inv
<1> QED BY <1>1, InvHolds, PTL

-----------------------------------------------------------------------------
(* Why a session ends *)

\* A service handler that suspends shows as the call it makes.
LEMMA AwaitActs ==
  ASSUME TypeOK, NEW s, NEW p, Await("clearRemove", s, p)
  PROVE  UserActed
<1>1. PICK c \in Calls :
        /\ calls[c].pc = "idle"
        /\ calls' = [calls EXCEPT ![c] = [pc |-> "clearRemove", sid |-> s,
                                          power |-> p, done |-> FALSE]]
  BY DEF Await
<1>2. calls'[c].pc = "clearRemove"
  BY <1>1 DEF TypeOK
<1> QED BY <1>1, <1>2 DEF UserActed

LEMMA EndStep ==
  ASSUME Inv, [Next]_vars
  PROVE  EndJustified
<1> USE DEF handles
<1>1. SUFFICES ASSUME session' # session
              PROVE  \/ session \in over
                     \/ state.missing + 1 >= MaxSocMissing
                     \/ HoldExhausted(state)
                     \/ UserActed
  BY DEF EndJustified
<1>2. CASE UNCHANGED vars
  BY <1>1, <1>2 DEF vars
<1>3. CASE User
  <2>1. ASSUME NEW s \in Sessions, StartDeferred(s)
        PROVE  UserActed
    BY <2>1 DEF StartDeferred, UserActed
  <2>2. ASSUME NEW s \in Sessions, NEW p \in Powers, StartNow(s, p)
        PROVE  UserActed
    BY <2>2 DEF StartNow, UserActed
  <2>3. CASE ClearOverrides
    BY <2>3, AwaitActs DEF ClearOverrides, Inv
  <2> QED BY <1>3, <2>1, <2>2, <2>3 DEF User
<1>4. ASSUME NEW s \in Sessions, WindowEnds(s) \/ TimerExpire(s) \/ StaleWake(s)
      PROVE  session \in over
  BY <1>1, <1>4 DEF WindowEnds, TimerExpire, StaleWake
<1>5. ASSUME NEW s \in Sessions, Tick(s)
      PROVE  \/ session \in over
             \/ state.missing + 1 >= MaxSocMissing
             \/ HoldExhausted(state)
  BY <1>1, <1>5 DEF Tick, TickHold, TickAbort, TickSocMissing, TickTarget,
     TickPastEnd, TickDefer, TickStart, TickRedefer, TickSkip, TickAdjust, Runs
<1>6. CASE CleanupRetry \/ AdapterDown \/ AdapterUp
  BY <1>1, <1>6 DEF CleanupRetry, AdapterDown, AdapterUp
<1>7. ASSUME NEW c \in Calls, Effect(c) \/ Return(c)
      PROVE  UserActed
  <2>1. ServiceApplied(c)
    BY <1>1, <1>7 DEF Effect, Return, OverridesCleared, CleanupRetried, Ended,
       TargetRemoved, RedeferRemoved, StartApplied, AdjustApplied
  <2>2. PICK raised \in BOOLEAN : Resume(c, "serviceApply", raised)
    BY <2>1 DEF ServiceApplied
  <2>3. calls[c].pc = "serviceApply" /\ calls'[c].pc = "idle"
    BY <2>2 DEF Resume, Inv, TypeOK, Idle
  <2> QED BY <2>3 DEF UserActed
<1> QED BY <1>2, <1>3, <1>4, <1>5, <1>6, <1>7 DEF Next

\* A session ends for a reason of its own or at the user's word: the timers,
\* wakes and coroutines that earlier sessions leave behind never end it.
THEOREM EndsJustified == Spec => EndsForAReason
<1>1. Inv /\ [Next]_vars => EndJustified
  BY EndStep
<1> QED BY <1>1, InvHolds, PTL DEF Spec, EndsForAReason

-----------------------------------------------------------------------------
(* What a session leaves behind *)

\* What ListenerCleansUp takes from the environment.  While an override is
\* being applied no other call is in flight: an apply that lands after the
\* removal of the session's end brings the override back, and a removal that
\* lands after an apply takes away what the session believes it has.
ApplyAlone ==
  \A c, d \in Calls : calls[c].pc \in Applies /\ calls[d].pc # "idle" => c = d

\* A session that starts deferred finds no override on the inverter, or one that
\* is being removed or is on record, and none on its way there: it knows nothing
\* of an override it did not set.
BeginsAttended ==
  used' # used /\ session' # None =>
    Attended /\ \A c \in Calls : calls[c].pc \notin Applies

Off == inverter = 0 \/ pendingCleanup
Starting(c) == calls[c].pc = "startApply" /\ calls[c].sid = session

\* A session that has not started has no override, or one that is being removed
\* or is on record, unless it is starting.
DeferredOff ==
  session # None /\ ~state.started => Attended \/ \E c \in Calls : Starting(c)

\* What each call in flight says of the session and of the inverter.
CallAgrees(c) ==
  /\ calls[c].pc \in Removals /\ calls[c].done => inverter = 0
  /\ calls[c].pc = "startApply" /\ session # None =>
       calls[c].sid = session /\ (~calls[c].done => Off)
  /\ calls[c].pc = "adjustApply" /\ session # None => state.started
  /\ calls[c].pc = "serviceApply" => session = None /\ calls[c].power # 0

\* The inductive invariant behind ListenerCleansUp.
CleanInv == DeferredOff /\ \A c \in Calls : CallAgrees(c)

\* A coroutine that suspends takes an idle slot and leaves the others alone.
Takes(c, pc, s, p) ==
  /\ calls[c].pc = "idle"
  /\ calls'[c].pc = pc /\ calls'[c].sid = s /\ calls'[c].power = p
  /\ ~calls'[c].done
  /\ \A d \in Calls : d # c => calls'[d] = calls[d]

LEMMA AwaitSlot ==
  ASSUME TypeOK, NEW pc, NEW s, NEW p, Await(pc, s, p)
  PROVE  \E c \in Calls : Takes(c, pc, s, p)
BY DEF TypeOK, Await, Takes

\* So does one that resumes, which leaves its own idle.
LEMMA ResumeSlot ==
  ASSUME TypeOK, NEW c \in Calls, NEW pc, NEW raised, Resume(c, pc, raised)
  PROVE  /\ calls[c].pc = pc
         /\ ~raised => calls[c].done
         /\ raised => (IF calls[c].done THEN "lostReply" ELSE "refused") \in Faults
         /\ calls'[c].pc = "idle"
         /\ \A d \in Calls : d # c => calls'[d] = calls[d]
BY DEF TypeOK, Resume, Idle

LEMMA PcsDiffer ==
  /\ Removals \cap Applies = {} /\ "idle" \notin Removals \cup Applies
  /\ Applies = {"serviceApply", "startApply", "adjustApply"}
BY DEF Removals, Applies

\* With no session, only what the removals say is left to keep.
LEMMA EndedClean ==
  ASSUME TypeOK, CleanInv, session' = None, UNCHANGED inverter,
         \/ UNCHANGED calls
         \/ \E pc, s, p : Await(pc, s, p) /\ (pc = "serviceApply" => p # 0)
  PROVE  CleanInv'
<1>1. CASE UNCHANGED calls
  BY <1>1 DEF CleanInv, DeferredOff, CallAgrees
<1>2. CASE \E pc, s, p : Await(pc, s, p) /\ (pc = "serviceApply" => p # 0)
  <2>1. PICK pc, s, p : Await(pc, s, p) /\ (pc = "serviceApply" => p # 0)
    BY <1>2
  <2>2. PICK c \in Calls : Takes(c, pc, s, p)
    BY <2>1, AwaitSlot
  <2>3. CallAgrees(c)'
    BY <2>1, <2>2 DEF CallAgrees, Takes
  <2>4. ASSUME NEW d \in Calls, d # c
        PROVE  CallAgrees(d)'
    BY <2>2, <2>4 DEF CallAgrees, CleanInv, Takes
  <2> QED BY <2>3, <2>4 DEF CleanInv, DeferredOff
<1> QED BY <1>1, <1>2

\* A step that neither calls nor starts anything.
LEMMA SameClean ==
  ASSUME CleanInv, UNCHANGED <<session, calls, inverter, pendingCleanup>>,
         session # None => state'.started = state.started
  PROVE  CleanInv'
BY DEF CleanInv, DeferredOff, CallAgrees, Off, Starting, Attended

\* A tick, or the coordinator's retry, makes a call: a removal, the apply that
\* starts a session or the one that adjusts a session that has started.
LEMMA AwaitClean ==
  ASSUME TypeOK, CleanInv, ApplyAlone', NEW pc, NEW s, NEW p, Await(pc, s, p),
         UNCHANGED <<session, device>>,
         session # None => state'.started = state.started,
         \/ pc \in Removals
         \/ pc = "startApply" /\ s = session /\ ~state.started
         \/ pc = "adjustApply" /\ state.started
  PROVE  CleanInv'
<1>1. PICK c \in Calls : Takes(c, pc, s, p)
  BY AwaitSlot
<1>2. DeferredOff'
  BY <1>1, PcsDiffer DEF CleanInv, DeferredOff, Attended, Starting, device, Takes
<1>3. pc = "startApply" /\ session # None => Off
  BY <1>1, PcsDiffer DEF CleanInv, DeferredOff, Attended, Off, Starting, ApplyAlone, Takes
<1>4. CallAgrees(c)'
  BY <1>1, <1>3, PcsDiffer DEF CallAgrees, Off, device, Takes
<1>5. ASSUME NEW d \in Calls, d # c
      PROVE  CallAgrees(d)'
  BY <1>1, <1>5 DEF CallAgrees, CleanInv, Off, device, Takes
<1> QED BY <1>2, <1>4, <1>5 DEF CleanInv

\* A coroutine resumes, is not the one that starts the session, and leaves the
\* session in its phase.
LEMMA ResumeClean ==
  ASSUME TypeOK, CleanInv, NEW c \in Calls, NEW pc, NEW raised, Resume(c, pc, raised),
         pc # "startApply", UNCHANGED <<session, inverter>>, Off => Off',
         pc = "endRemove" => Off', session # None => state'.started = state.started
  PROVE  CleanInv'
<1>1. DeferredOff'
  BY ResumeSlot DEF CleanInv, DeferredOff, Starting, Attended, Off
<1>2. CallAgrees(c)'
  BY ResumeSlot, PcsDiffer DEF CallAgrees
<1>3. ASSUME NEW d \in Calls, d # c
      PROVE  CallAgrees(d)'
  BY <1>3, ResumeSlot DEF CallAgrees, CleanInv
<1> QED BY <1>1, <1>2, <1>3 DEF CleanInv

LEMMA UserClean ==
  ASSUME TypeOK, CleanInv, BeginsAttended, User
  PROVE  CleanInv'
<1>1. ASSUME NEW s \in Sessions, StartDeferred(s)
      PROVE  CleanInv'
  <2>1. used' # used /\ session' # None
    BY <1>1, ChargeAssumption DEF StartDeferred, SetUpListeners
  <2>2. Attended /\ \A c \in Calls : calls[c].pc \notin Applies
    BY <2>1 DEF BeginsAttended
  <2>3. UNCHANGED <<calls, inverter, pendingCleanup>>
    BY <1>1 DEF StartDeferred, device
  <2> QED BY <2>2, <2>3, PcsDiffer DEF CleanInv, DeferredOff, CallAgrees, Attended
<1>2. ASSUME NEW s \in Sessions, NEW p \in Powers, StartNow(s, p)
      PROVE  CleanInv'
  <2>1. session' = None /\ UNCHANGED inverter
        /\ Await("serviceApply", s, p) /\ p # 0
    BY <1>2, ChargeAssumption DEF StartNow, CancelSmartCharge, device
  <2> QED BY <2>1, EndedClean
<1>3. CASE ClearOverrides
  <2>1. session' = None /\ UNCHANGED inverter /\ Await("clearRemove", None, 0)
    BY <1>3 DEF ClearOverrides, CancelSmartCharge, device
  <2> QED BY <2>1, EndedClean
<1> QED BY <1>1, <1>2, <1>3 DEF User

LEMMA EndClean ==
  ASSUME TypeOK, CleanInv, NEW fired, EndSession(fired), UNCHANGED device
  PROVE  CleanInv'
<1>1. session' = None /\ UNCHANGED inverter
      /\ (UNCHANGED calls \/ Await("endRemove", session, 0))
  BY DEF EndSession, CancelSmartCharge, device
<1> QED BY <1>1, EndedClean

LEMMA TimerClean ==
  ASSUME TypeOK, CleanInv, NEW s \in Sessions,
         WindowEnds(s) \/ TimerExpire(s) \/ StaleWake(s)
  PROVE  CleanInv'
<1>1. CASE UNCHANGED <<session, state, calls, device>>
  BY <1>1, SameClean DEF device
<1>2. CASE EndSession({s}) /\ UNCHANGED device
  BY <1>2, EndClean
<1> QED BY <1>1, <1>2 DEF WindowEnds, TimerExpire, StaleWake, handles

LEMMA TickClean ==
  ASSUME TypeOK, CleanInv, ApplyAlone', NEW s \in Sessions, Tick(s)
  PROVE  CleanInv'
<1>d. state \in SessionDict
  BY DEF TypeOK
<1>1. CASE TickHold(s) \/ TickDefer(s) \/ TickSkip(s)
  <2>1. state'.started = state.started
    BY <1>1, <1>d, BreakerSteps, BelowTargetDict, EarlyReturnDict
       DEF TickHold, TickDefer, TickSkip
  <2> QED BY <1>1, <2>1, SameClean DEF TickHold, TickDefer, TickSkip, handles, device
<1>2. CASE TickAbort(s) \/ TickPastEnd(s)
  BY <1>2, EndClean DEF TickAbort, TickPastEnd, device
<1>3. CASE TickSocMissing(s)
  <2>1. CASE state.missing + 1 >= MaxSocMissing
    BY <1>3, <2>1, EndClean DEF TickSocMissing
  <2>2. CASE ~(state.missing + 1 >= MaxSocMissing)
    <3>1. state.missing + 1 \in Nat
      BY <1>d DEF SessionDict
    <3> DEFINE d == [state EXCEPT !.missing = @ + 1]
    <3>2. d \in SessionDict /\ d.started = state.started
      BY <1>d, <3>1, DictUpdates DEF SessionDict
    <3>3. state' = TickSucceeded(d)
      BY <1>3, <2>2 DEF TickSocMissing
    <3> HIDE DEF d
    <3>4. state'.started = state.started
      BY <3>2, <3>3, BreakerSteps
    <3> QED BY <1>3, <2>2, <3>4, SameClean DEF TickSocMissing, handles, device
  <2> QED BY <2>1, <2>2
<1>4. CASE TickTarget(s)
  <2> DEFINE d == [state EXCEPT !.missing = 0]
             r == [d EXCEPT !.reached = TRUE]
  <2>1. d \in SessionDict /\ d.started = state.started
    BY <1>d, DictUpdates DEF SessionDict
  <2>2. r \in SessionDict /\ r.started = state.started
    BY <2>1, DictUpdates DEF SessionDict
  <2>3. \/ state' = d /\ Await("targetRemove", s, 0)
        \/ state' = TickSucceeded(r) /\ UNCHANGED calls
    BY <1>4 DEF TickTarget
  <2> HIDE DEF d, r
  <2>4. state'.started = state.started
    BY <2>1, <2>2, <2>3, BreakerSteps
  <2>5. CASE UNCHANGED calls
    BY <1>4, <2>4, <2>5, SameClean DEF TickTarget, handles, device
  <2>6. CASE Await("targetRemove", s, 0)
    BY <1>4, <2>4, <2>6, AwaitClean DEF TickTarget, handles, Removals
  <2> QED BY <2>3, <2>5, <2>6
<1>5. CASE TickStart(s)
  <2>1. PICK p \in Powers : Await("startApply", s, p)
    BY <1>5 DEF TickStart
  <2>2. state'.started = state.started /\ ~state.started /\ s = session
    BY <1>5, BelowTargetDict DEF TickStart, Runs
  <2> QED BY <1>5, <2>1, <2>2, AwaitClean DEF TickStart, handles
<1>6. CASE TickRedefer(s)
  <2>1. state'.started = state.started
    BY <1>6, EarlyReturnDict DEF TickRedefer
  <2> QED BY <1>6, <2>1, AwaitClean DEF TickRedefer, handles, Removals
<1>7. CASE TickAdjust(s)
  <2>1. PICK p \in Powers, reachable \in BOOLEAN :
          /\ issue' = IF reachable = state.unreachable THEN ~reachable ELSE issue
          /\ state' = [BelowTarget EXCEPT !.power = p,
                                          !.unreachable = ~reachable]
          /\ Await("adjustApply", s, p)
    BY <1>7, ZenonT(40) DEF TickAdjust
  <2>2. state'.started = state.started
    BY <2>1, BelowTargetDict DEF SessionDict
  <2> QED BY <1>7, <2>1, <2>2, AwaitClean DEF TickAdjust, handles
<1> QED BY <1>1, <1>2, <1>3, <1>4, <1>5, <1>6, <1>7 DEF Tick

LEMMA DeviceClean ==
  ASSUME TypeOK, CleanInv, ApplyAlone, ApplyAlone',
         \/ CleanupRetry \/ AdapterDown \/ AdapterUp
         \/ \E c \in Calls : Effect(c)
  PROVE  CleanInv'
<1>1. CASE CleanupRetry
  BY <1>1, AwaitClean DEF CleanupRetry, handles, Removals
<1>2. CASE AdapterDown \/ AdapterUp
  BY <1>2, SameClean DEF AdapterDown, AdapterUp, handles, device
<1>3. ASSUME NEW c \in Calls, Effect(c)
      PROVE  CleanInv'
  <2>1. /\ calls[c].pc # "idle"
        /\ calls'[c].pc = calls[c].pc /\ calls'[c].sid = calls[c].sid
        /\ calls'[c].power = calls[c].power /\ calls'[c].done
        /\ \A d \in Calls : d # c => calls'[d] = calls[d]
        /\ UNCHANGED <<session, state, pendingCleanup>>
        /\ inverter' = IF calls[c].pc \in Applies THEN calls[c].power ELSE 0
    BY <1>3 DEF Effect, TypeOK, CallRecord, handles
  <2>2. CASE calls[c].pc \in Applies
    <3>1. \A d \in Calls : d # c => calls[d].pc = "idle"
      BY <2>2 DEF ApplyAlone
    <3>2. CallAgrees(c)'
      BY <2>1, <2>2, PcsDiffer DEF CleanInv, CallAgrees
    <3>3. ASSUME NEW d \in Calls, d # c
          PROVE  CallAgrees(d)'
      BY <2>1, <3>1, <3>3, PcsDiffer DEF CallAgrees
    <3>4. DeferredOff'
      <4>1. SUFFICES ASSUME session # None, ~state.started
                     PROVE  Starting(c)'
        BY <2>1 DEF DeferredOff
      <4>2. calls[c].pc = "startApply" /\ calls[c].sid = session
        BY <2>2, <4>1, PcsDiffer DEF CleanInv, CallAgrees
      <4> QED BY <2>1, <4>2 DEF Starting
    <3> QED BY <3>2, <3>3, <3>4 DEF CleanInv
  <2>3. CASE calls[c].pc \notin Applies
    <3>1. inverter' = 0
      BY <2>1, <2>3
    <3>2. DeferredOff'
      BY <3>1 DEF DeferredOff, Attended
    <3>3. CallAgrees(c)'
      BY <2>1, <2>3, <3>1, PcsDiffer DEF CallAgrees
    <3>4. ASSUME NEW d \in Calls, d # c
          PROVE  CallAgrees(d)'
      BY <2>1, <3>1, <3>4 DEF CleanInv, CallAgrees, Off
    <3> QED BY <3>2, <3>3, <3>4 DEF CleanInv
  <2> QED BY <2>2, <2>3
<1> QED BY <1>1, <1>2, <1>3

LEMMA ReturnClean ==
  ASSUME TypeOK, CleanInv, ApplyAlone, "lostReply" \notin Faults,
         NEW c \in Calls, Return(c)
  PROVE  CleanInv'
<1> USE DEF handles, device
<1>d. state \in SessionDict
  BY DEF TypeOK
<1>a. CallAgrees(c) /\ DeferredOff
  BY DEF CleanInv
<1>1. CASE ServiceApplied(c)
  <2>1. PICK raised \in BOOLEAN :
          /\ Resume(c, "serviceApply", raised)
          /\ IF raised THEN UNCHANGED <<handles, state, stored, issue>>
             ELSE SetUpListeners(calls[c].sid, calls[c].power, {})
    BY <1>1 DEF ServiceApplied
  <2>2. calls[c].pc = "serviceApply" /\ session = None /\ calls[c].power # 0
    BY <1>a, <2>1, ResumeSlot DEF CallAgrees
  <2>3. CASE raised
    BY <1>1, <2>1, <2>3, ResumeClean DEF ServiceApplied, Off
  <2>4. CASE ~raised
    <3>1. state' = NewSession(calls[c].power)
      BY <2>1, <2>4 DEF SetUpListeners
    <3>2. state'.started
      BY <2>2, <3>1 DEF NewSession
    <3>3. \A d \in Calls : calls'[d].pc = "idle"
      BY <2>1, <2>2, ResumeSlot DEF ApplyAlone, Applies
    <3> QED BY <3>2, <3>3, PcsDiffer DEF CleanInv, DeferredOff, CallAgrees
  <2> QED BY <2>3, <2>4
<1>2. CASE OverridesCleared(c)
  BY <1>2, ResumeClean DEF OverridesCleared, Off
<1>3. CASE CleanupRetried(c)
  <2>1. PICK raised \in BOOLEAN :
          /\ Resume(c, "cleanupRemove", raised)
          /\ pendingCleanup' = (pendingCleanup /\ raised)
    BY <1>3 DEF CleanupRetried
  <2>2. ~raised => inverter = 0
    BY <1>a, <2>1, ResumeSlot DEF CallAgrees, Removals
  <2>3. Off => Off'
    BY <1>3, <2>1, <2>2 DEF CleanupRetried, Off
  <2> QED BY <1>3, <2>1, <2>3, ResumeClean DEF CleanupRetried
<1>4. CASE Ended(c)
  <2>1. PICK raised \in BOOLEAN :
          /\ Resume(c, "endRemove", raised)
          /\ pendingCleanup' = (pendingCleanup \/ raised)
    BY <1>4 DEF Ended, OverrideRemoved
  <2>2. ~raised => inverter = 0
    BY <1>a, <2>1, ResumeSlot DEF CallAgrees, Removals
  <2> QED BY <1>4, <2>1, <2>2, ResumeClean DEF Ended, Off
<1>5. CASE TargetRemoved(c)
  <2>1. PICK raised \in BOOLEAN :
          /\ Resume(c, "targetRemove", raised)
          /\ pendingCleanup' = (pendingCleanup \/ raised)
    BY <1>5 DEF TargetRemoved, OverrideRemoved
  <2> DEFINE r == [state EXCEPT !.reached = TRUE]
  <2>2. r \in SessionDict /\ r.started = state.started
    BY <1>d, DictUpdates DEF SessionDict
  <2>3. state' = TickSucceeded(r) \/ state' = state
    BY <1>5 DEF TargetRemoved, WriteDict
  <2> HIDE DEF r
  <2>4. state'.started = state.started
    BY <2>2, <2>3, BreakerSteps
  <2> QED BY <1>5, <2>1, <2>4, ResumeClean DEF TargetRemoved, Off
<1>6. CASE RedeferRemoved(c)
  <2>1. PICK raised \in BOOLEAN :
          /\ Resume(c, "redeferRemove", raised)
          /\ pendingCleanup' = (pendingCleanup \/ raised)
    BY <1>6 DEF RedeferRemoved, OverrideRemoved
  <2>2. ~raised => inverter = 0
    BY <1>a, <2>1, ResumeSlot DEF CallAgrees, Removals
  <2>3. Off' /\ UNCHANGED <<session, inverter>>
    BY <1>6, <2>1, <2>2 DEF RedeferRemoved, Off
  <2>4. \A d \in Calls : calls[d].pc \notin Applies
    BY <2>1, ResumeSlot, PcsDiffer DEF ApplyAlone
  <2>5. \A d \in Calls : calls'[d].pc \notin Applies
    BY <2>1, <2>4, ResumeSlot, PcsDiffer
  <2>6. CallAgrees(c)'
    BY <2>1, ResumeSlot, PcsDiffer DEF CallAgrees
  <2>7. ASSUME NEW d \in Calls, d # c
        PROVE  CallAgrees(d)'
    BY <2>1, <2>3, <2>5, <2>7, ResumeSlot, PcsDiffer DEF CleanInv, CallAgrees
  <2> QED BY <2>3, <2>6, <2>7 DEF CleanInv, DeferredOff, Attended, Off
<1>7. CASE StartApplied(c)
  <2>1. PICK raised \in BOOLEAN :
          /\ Resume(c, "startApply", raised)
          /\ WriteDict(calls[c].sid,
               IF raised THEN TickFailed(state)
               ELSE TickSucceeded([state EXCEPT !.started = TRUE,
                                                !.power = calls[c].power]))
    BY <1>7 DEF StartApplied
  <2>2. UNCHANGED <<session, inverter, pendingCleanup>> /\ calls[c].pc = "startApply"
    BY <1>7, <2>1, ResumeSlot DEF StartApplied
  <2>3. \A d \in Calls : calls'[d].pc = "idle"
    BY <2>1, <2>2, ResumeSlot DEF ApplyAlone, Applies
  <2>4. ASSUME session # None, ~state'.started
        PROVE  Off'
    <3>1. calls[c].sid = session /\ (~calls[c].done => Off)
      BY <1>a, <2>2, <2>4 DEF CallAgrees
    <3>2. raised
      <4>1. SUFFICES ASSUME ~raised PROVE FALSE
        OBVIOUS
      <4> DEFINE e == [state EXCEPT !.started = TRUE, !.power = calls[c].power]
      <4>2. calls[c].power \in Powers \cup {0}
        BY <2>2, OwnedCall DEF Owned, Applies
      <4>3. e \in SessionDict /\ e.started
        BY <1>d, <4>2 DEF SessionDict
      <4>4. state' = TickSucceeded(e)
        BY <2>1, <3>1, <4>1 DEF WriteDict
      <4> HIDE DEF e
      <4> QED BY <2>4, <4>3, <4>4, BreakerSteps
    <3>3. ~calls[c].done
      BY <2>1, <3>2, ResumeSlot
    <3> QED BY <2>2, <3>1, <3>3 DEF Off
  <2> QED BY <2>2, <2>3, <2>4, PcsDiffer DEF CleanInv, DeferredOff, CallAgrees, Attended, Off
<1>8. CASE AdjustApplied(c)
  <2>1. PICK raised \in BOOLEAN :
          /\ Resume(c, "adjustApply", raised)
          /\ WriteDict(calls[c].sid, IF raised THEN TickFailed(state)
                                               ELSE TickSucceeded(state))
    BY <1>8 DEF AdjustApplied
  <2>2. state'.started = state.started
    BY <1>d, <2>1, BreakerSteps DEF WriteDict
  <2> QED BY <1>8, <2>1, <2>2, ResumeClean DEF AdjustApplied, Off
<1> QED BY <1>1, <1>2, <1>3, <1>4, <1>5, <1>6, <1>7, <1>8 DEF Return

LEMMA CleanStep ==
  ASSUME TypeOK, CleanInv, ApplyAlone, ApplyAlone', "lostReply" \notin Faults,
         [Next]_vars, [BeginsAttended]_vars
  PROVE  CleanInv'
<1>1. CASE UNCHANGED vars
  BY <1>1, SameClean DEF vars
<1>2. CASE User
  <2>1. used' # used \/ used' = used
    OBVIOUS
  <2>2. BeginsAttended
    BY DEF BeginsAttended, vars
  <2> QED BY <1>2, <2>2, UserClean
<1>3. ASSUME NEW s \in Sessions, WindowEnds(s) \/ TimerExpire(s) \/ StaleWake(s)
      PROVE  CleanInv'
  BY <1>3, TimerClean
<1>4. ASSUME NEW s \in Sessions, Tick(s)
      PROVE  CleanInv'
  BY <1>4, TickClean
<1>5. CASE CleanupRetry \/ AdapterDown \/ AdapterUp
  BY <1>5, DeviceClean
<1>6. ASSUME NEW c \in Calls, Effect(c) \/ Return(c)
      PROVE  CleanInv'
  BY <1>6, DeviceClean, ReturnClean
<1> QED BY <1>1, <1>2, <1>3, <1>4, <1>5, <1>6 DEF Next

LEMMA EndAttended ==
  ASSUME TypeOK, CleanInv, session # None, NEW fired, EndSession(fired), UNCHANGED device
  PROVE  Attended' \/ \E c \in Calls : Starting(c)
<1>1. CASE state.started
  <2>1. Await("endRemove", session, 0)
    BY <1>1 DEF EndSession
  <2>2. PICK c \in Calls : Takes(c, "endRemove", session, 0)
    BY <2>1, AwaitSlot
  <2> QED BY <2>2 DEF Takes, Attended
<1>2. CASE ~state.started
  BY <1>2 DEF CleanInv, DeferredOff, Attended, device, EndSession
<1> QED BY <1>1, <1>2

\* What a tick does to the session and to the calls in flight.
LEMMA TickCalls ==
  ASSUME NEW s \in Sessions, Tick(s)
  PROVE  \/ UNCHANGED session /\ (UNCHANGED calls \/ \E pc, r, p : Await(pc, r, p))
         \/ UNCHANGED device /\ EndSession({})
<1> USE DEF handles
<1>1. CASE TickHold(s) \/ TickDefer(s) \/ TickSkip(s)
  BY <1>1 DEF TickHold, TickDefer, TickSkip
<1>2. CASE TickAbort(s) \/ TickPastEnd(s)
  BY <1>2 DEF TickAbort, TickPastEnd
<1>3. CASE TickSocMissing(s)
  BY <1>3 DEF TickSocMissing
<1>4. CASE TickTarget(s)
  BY <1>4 DEF TickTarget
<1>5. CASE TickStart(s)
  BY <1>5 DEF TickStart
<1>6. CASE TickRedefer(s)
  BY <1>6 DEF TickRedefer
<1>7. CASE TickAdjust(s)
  BY <1>7, ZenonT(40) DEF TickAdjust
<1> QED BY <1>1, <1>2, <1>3, <1>4, <1>5, <1>6, <1>7 DEF Tick

\* A step that ends a session is one of EndSession, or the user's.
LEMMA EndsByItself ==
  ASSUME TypeOK, [Next]_vars, session # None, session' = None, ~UserActed
  PROVE  UNCHANGED device /\ \E fired : EndSession(fired)
<1> USE DEF handles, device
<1>1. CASE UNCHANGED vars
  BY <1>1 DEF vars
<1>2. CASE User
  <2>1. CASE ClearOverrides
    BY <2>1, AwaitActs DEF ClearOverrides
  <2>2. CASE used' # used
    BY <2>2 DEF UserActed
  <2> QED BY <1>2, <2>1, <2>2 DEF User, StartDeferred, StartNow
<1>3. ASSUME NEW s \in Sessions, WindowEnds(s) \/ TimerExpire(s) \/ StaleWake(s)
      PROVE  UNCHANGED device /\ \E fired : EndSession(fired)
  BY <1>3 DEF WindowEnds, TimerExpire, StaleWake
<1>4. ASSUME NEW s \in Sessions, Tick(s)
      PROVE  UNCHANGED device /\ \E fired : EndSession(fired)
  BY <1>4, TickCalls
<1>5. CASE CleanupRetry \/ AdapterDown \/ AdapterUp
  BY <1>5 DEF CleanupRetry, AdapterDown, AdapterUp
<1>6. ASSUME NEW c \in Calls, Effect(c) \/ Return(c)
      PROVE  UNCHANGED device /\ \E fired : EndSession(fired)
  <2>1. ServiceApplied(c)
    BY <1>6 DEF Effect, Return, OverridesCleared, CleanupRetried, Ended,
       TargetRemoved, RedeferRemoved, StartApplied, AdjustApplied
  <2>2. PICK raised \in BOOLEAN : Resume(c, "serviceApply", raised)
    BY <2>1 DEF ServiceApplied
  <2> QED BY <2>2, ResumeSlot DEF UserActed
<1> QED BY <1>1, <1>2, <1>3, <1>4, <1>5, <1>6 DEF Next

\* The removal at the end of a session returns when the override is off, or
\* leaves a record of its failure.
LEMMA RemovalAttended ==
  ASSUME TypeOK, CleanInv, [Next]_vars, NEW c \in Calls,
         calls[c].pc = "endRemove", calls'[c].pc = "idle"
  PROVE  Attended'
<1>1. calls' # calls
  OBVIOUS
<1>2. \A pc, s, p : Await(pc, s, p) => calls'[c].pc = "endRemove"
  <2>1. SUFFICES ASSUME NEW pc, NEW s, NEW p, Await(pc, s, p)
                 PROVE  calls'[c].pc = "endRemove"
    OBVIOUS
  <2>2. PICK d \in Calls : Takes(d, pc, s, p)
    BY <2>1, AwaitSlot
  <2> QED BY <2>2 DEF Takes
<1>3. \A fired : ~EndSession(fired)
  BY <1>1, <1>2 DEF EndSession
<1>4. ~User
  BY <1>1, <1>2 DEF User, StartDeferred, StartNow, ClearOverrides
<1>5. \A s \in Sessions : ~WindowEnds(s) /\ ~TimerExpire(s) /\ ~StaleWake(s)
  BY <1>1, <1>3 DEF WindowEnds, TimerExpire, StaleWake
<1>6. \A s \in Sessions : ~Tick(s)
  BY <1>1, <1>2, <1>3, TickCalls
<1>7. ~CleanupRetry /\ ~AdapterDown /\ ~AdapterUp
  BY <1>1, <1>2 DEF CleanupRetry, AdapterDown, AdapterUp
<1>8. ASSUME NEW d \in Calls, Effect(d)
      PROVE  FALSE
  <2>1. calls'[c].pc = calls[c].pc
    BY <1>8 DEF Effect, TypeOK, CallRecord
  <2> QED BY <2>1
<1>9. PICK d \in Calls : Return(d)
  BY <1>1, <1>4, <1>5, <1>6, <1>7, <1>8 DEF Next, vars
<1>10. \E pc, raised : Resume(d, pc, raised)
  BY <1>9 DEF Return, ServiceApplied, OverridesCleared, CleanupRetried, Ended,
     TargetRemoved, RedeferRemoved, StartApplied, AdjustApplied, OverrideRemoved
<1>11. d = c
  BY <1>10, ResumeSlot
<1>12. Ended(c)
  BY <1>9, <1>11 DEF Return, ServiceApplied, OverridesCleared, CleanupRetried, Resume,
     TargetRemoved, RedeferRemoved, StartApplied, AdjustApplied, OverrideRemoved
<1>13. PICK raised \in BOOLEAN :
         /\ Resume(c, "endRemove", raised)
         /\ pendingCleanup' = (pendingCleanup \/ raised)
  BY <1>12 DEF Ended, OverrideRemoved
<1>14. ~raised => inverter = 0
  BY <1>13, ResumeSlot DEF CleanInv, CallAgrees, Removals
<1> QED BY <1>12, <1>13, <1>14 DEF Ended, Attended

LEMMA CleanInit == Init => CleanInv
BY DEF Init, CleanInv, DeferredOff, CallAgrees, Idle, Removals

\* C-024, C-025: a session that the listener ends leaves no override behind
\* unnoticed, and no failed removal goes unrecorded, in every behaviour in
\* which overrides are applied one at a time, no deferred session begins over an
\* override and an outage refuses requests rather than loses their replies.
THEOREM LeavesNoOverride ==
  ASSUME "lostReply" \notin Faults
  PROVE  Spec /\ []ApplyAlone /\ [][BeginsAttended]_vars => ListenerCleansUp
<1>1. TypeOK /\ CleanInv /\ ApplyAlone /\ ApplyAlone' /\ [Next]_vars /\ [BeginsAttended]_vars
        => CleanInv'
  BY CleanStep
<1>2. TypeOK /\ CleanInv /\ [Next]_vars => CleanedUp
  <2>1. SUFFICES ASSUME TypeOK, CleanInv, [Next]_vars PROVE CleanedUp
    OBVIOUS
  <2>2. ASSUME session # None, session' = None, ~UserActed
        PROVE  Attended' \/ \E c \in Calls : Starting(c)
    <3>1. UNCHANGED device /\ \E fired : EndSession(fired)
      BY <2>1, <2>2, EndsByItself
    <3>2. PICK fired : EndSession(fired)
      BY <3>1
    <3> QED BY <2>1, <2>2, <3>1, <3>2, EndAttended
  <2>3. ASSUME NEW c \in Calls, calls[c].pc = "endRemove", calls'[c].pc = "idle"
        PROVE  Attended'
    BY <2>1, <2>3, RemovalAttended
  <2> QED BY <2>2, <2>3 DEF CleanedUp, Starting
<1> QED BY <1>1, <1>2, CleanInit, TypeCorrect, PTL DEF Spec, ListenerCleansUp
=============================================================================
