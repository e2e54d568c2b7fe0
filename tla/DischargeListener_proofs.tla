---------------------- MODULE DischargeListener_proofs ----------------------
(***************************************************************************)
(* What holds of DischargeListener for any number of sessions and          *)
(* overlapping coroutines, any powers, thresholds and faults.              *)
(***************************************************************************)
EXTENDS DischargeListener, TLAPS

-----------------------------------------------------------------------------
(* The session dict under the operators that write it *)

\* The part of a dict that the session's handles and its stored record mirror.
SameMirror(d, e) == e.started = d.started /\ e.stop = d.stop

\* The floor's count and its latch in the dict d.
FloorOf(d) == (d.latch <=> d.below > 0) /\ d.below < FloorReadings

SameFloor(d, e) == e.latch = d.latch /\ e.below = d.below

\* Writing one field of a dict keeps its type.
LEMMA DictUpdates ==
  ASSUME NEW d \in SessionDict
  PROVE  /\ \A b \in BOOLEAN : [d EXCEPT !.started = b] \in SessionDict
         /\ \A b \in BOOLEAN : [d EXCEPT !.suspended = b] \in SessionDict
         /\ \A b \in BOOLEAN : [d EXCEPT !.latch = b] \in SessionDict
         /\ \A b \in BOOLEAN : [d EXCEPT !.stop = b] \in SessionDict
         /\ \A b \in BOOLEAN : [d EXCEPT !.open = b] \in SessionDict
         /\ \A p \in Powers \cup {0} : [d EXCEPT !.power = p] \in SessionDict
         /\ \A n \in Nat : [d EXCEPT !.missing = n] \in SessionDict
         /\ \A n \in Nat : [d EXCEPT !.below = n] \in SessionDict
         /\ \A n \in Nat : [d EXCEPT !.errors = n] \in SessionDict
         /\ \A n \in Nat : [d EXCEPT !.ticks = n] \in SessionDict
         /\ \A n \in {NoBaseline, Baseline, Observed} :
              [d EXCEPT !.feedin = n] \in SessionDict
BY DEF SessionDict

\* What the breaker does to a dict is within its type and leaves all that the
\* session itself keeps there alone (_with_circuit_breaker).
LEMMA BreakerSteps ==
  ASSUME NEW d \in SessionDict
  PROVE  /\ TickSucceeded(d) \in SessionDict
         /\ TickFailed(d) \in SessionDict
         /\ TickHeld(d) \in SessionDict
         /\ \A e \in {TickSucceeded(d), TickFailed(d), TickHeld(d)} :
              SameMirror(d, e) /\ SameFloor(d, e)
<1>1. TickSucceeded(d) \in SessionDict
  <2>1. [d EXCEPT !.errors = 0] \in SessionDict
    BY DictUpdates
  <2>2. [d EXCEPT !.errors = 0, !.open = FALSE] \in SessionDict
    BY <2>1, DictUpdates
  <2>3. [d EXCEPT !.errors = 0, !.open = FALSE, !.ticks = 0] \in SessionDict
    BY <2>2, DictUpdates
  <2>4. CASE d.open
    BY <2>3, <2>4 DEF TickSucceeded
  <2>5. CASE ~d.open
    <3>1. TickSucceeded(d) = [d EXCEPT !.errors = 0, !.open = FALSE]
      BY <2>5 DEF TickSucceeded, SessionDict
    <3> QED BY <3>1, <2>2
  <2> QED BY <2>4, <2>5
<1>2. TickFailed(d) \in SessionDict
  <2>1. d.errors + 1 \in Nat
    BY DEF SessionDict
  <2>2. [d EXCEPT !.errors = @ + 1] \in SessionDict
    BY <2>1, DictUpdates
  <2>3. [d EXCEPT !.errors = @ + 1, !.open = TRUE] \in SessionDict
    BY <2>2, DictUpdates
  <2>4. [d EXCEPT !.errors = @ + 1, !.open = TRUE, !.ticks = 0] \in SessionDict
    BY <2>3, DictUpdates
  <2> QED BY <2>2, <2>4 DEF TickFailed
<1>3. TickHeld(d) \in SessionDict
  BY DEF SessionDict, TickHeld
<1>4. \A e \in {TickSucceeded(d), TickFailed(d), TickHeld(d)} :
        SameMirror(d, e) /\ SameFloor(d, e)
  BY DEF SessionDict, TickSucceeded, TickFailed, TickHeld, SameMirror, SameFloor
<1> QED BY <1>1, <1>2, <1>3, <1>4

\* A new dict is well typed, with no feed-in stop and nothing counted.
LEMMA NewSessionDict ==
  ASSUME NEW p \in Powers \cup {0}
  PROVE  /\ NewSession(p) \in SessionDict
         /\ NewSession(p).started = (p # 0)
         /\ NewSession(p).stop = FALSE
         /\ FloorOf(NewSession(p))
BY DischargeAssumption DEF NewSession, SessionDict, FloorOf, NoBaseline

LEMMA NoDictType == NoDict \in SessionDict /\ FloorOf(NoDict)
BY NewSessionDict DEF NoDict

\* A reading above the floor, and one at the floor that is not the last.
LEMMA FloorSteps ==
  ASSUME NEW d \in SessionDict
  PROVE  /\ AboveFloor(d) \in SessionDict
         /\ SameMirror(d, AboveFloor(d))
         /\ FloorOf(AboveFloor(d))
<1>1. [d EXCEPT !.below = 0] \in SessionDict
  BY DictUpdates
<1>2. AboveFloor(d) \in SessionDict
  BY <1>1, DictUpdates DEF AboveFloor
<1>3. AboveFloor(d).below = 0 /\ AboveFloor(d).latch = FALSE
  BY DEF AboveFloor, SessionDict
<1>4. SameMirror(d, AboveFloor(d))
  BY DEF AboveFloor, SessionDict, SameMirror
<1> QED BY <1>2, <1>3, <1>4, DischargeAssumption DEF FloorOf

\* The feed-in check of the current session's dict.
LEMMA MeteredDict ==
  ASSUME state \in SessionDict, NEW s, NEW known, NEW d \in Metered(s, state, known)
  PROVE  /\ d \in SessionDict
         /\ d.started = state.started
         /\ SameFloor(state, d)
         /\ d.stop = state.stop \/ d.stop = TRUE
<1>1. \/ d = state
      \/ d = [state EXCEPT !.feedin = Baseline]
      \/ d = [state EXCEPT !.feedin = Observed]
      \/ d = [state EXCEPT !.stop = TRUE]
  BY DEF Metered
<1>2. d \in SessionDict
  BY <1>1, DictUpdates
<1>3. d.started = state.started /\ SameFloor(state, d)
  BY <1>1 DEF SessionDict, SameFloor
<1>4. d.stop = state.stop \/ d.stop = TRUE
  BY <1>1 DEF SessionDict
<1> QED BY <1>2, <1>3, <1>4

\* What a pacing tick writes and asks for.
LEMMA PowerDict ==
  ASSUME NEW d \in SessionDict, NEW p \in Powers, NEW wasSuspended, NEW known,
         NEW a, a = ApplyDischargePower(d, p, wasSuspended, known)
  PROVE  /\ a.dict \in SessionDict
         /\ SameMirror(d, a.dict) /\ SameFloor(d, a.dict)
         /\ a.pc \in Owned
         /\ a.power \in Powers \cup {0}
<1>1. PICK q \in Powers \cup {0} :
        a.dict = [d EXCEPT !.power = q] \/ a.dict = d
  BY DEF ApplyDischargePower
<1>2. a.dict \in SessionDict
  BY <1>1, DictUpdates
<1>3. SameMirror(d, a.dict) /\ SameFloor(d, a.dict)
  BY <1>1 DEF SessionDict, SameMirror, SameFloor
<1>4. d.power \in Powers \cup {0}
  BY DEF SessionDict
<1>5. a.pc \in Owned /\ a.power \in Powers \cup {0}
  BY <1>4 DEF ApplyDischargePower, Owned, Applies
<1> QED BY <1>2, <1>3, <1>5

-----------------------------------------------------------------------------
(* Type correctness *)

StoredType == [sid : Sessions, started : BOOLEAN] \cup {None}

\* A coroutine that suspends, and one that resumes, leave calls well typed.
LEMMA CallType ==
  ASSUME NEW pc, NEW s, NEW p,
         \/ pc \in Owned /\ s \in Sessions /\ p \in Powers \cup {0}
         \/ pc \in Removals \ Owned /\ s \in Sessions \cup {None} /\ p = 0
  PROVE  Call(pc, s, p) \in CallRecord
BY DEF Call, CallRecord

LEMMA EndCalls ==
  {"endRemove", "clearRemove", "cleanupRemove"} \subseteq Removals \ Owned
BY DEF Removals, Owned, Applies

LEMMA AwaitType ==
  ASSUME TypeOK, NEW pc, NEW s, NEW p, Await(pc, s, p),
         Call(pc, s, p) \in CallRecord
  PROVE  calls' \in [Calls -> CallRecord]
BY DEF TypeOK, Await

LEMMA LeavesType ==
  ASSUME TypeOK, NEW c \in Calls, Leaves(c)
  PROVE  calls' \in [Calls -> CallRecord]
BY DEF TypeOK, Leaves, CallRecord, Idle

LEMMA GoesOnType ==
  ASSUME TypeOK, NEW c \in Calls, NEW call \in CallRecord, GoesOn(c, call)
  PROVE  calls' \in [Calls -> CallRecord]
BY DEF TypeOK, GoesOn

\* What a session's coroutine resumes with.
LEMMA OwnedCall ==
  ASSUME TypeOK, NEW c \in Calls, calls[c].pc \in Owned
  PROVE  /\ calls[c].sid \in Sessions /\ calls[c].sid # None
         /\ calls[c].power \in Powers \cup {0}
BY DischargeAssumption DEF TypeOK, CallRecord, Removals, Owned, Applies

LEMMA CancelType ==
  ASSUME TypeOK, CancelSmartDischarge
  PROVE  /\ session' \in Sessions \cup {None}
         /\ state' \in SessionDict
         /\ unsubs' \in Sessions \cup {None}
         /\ intervals' \subseteq Sessions /\ expiries' \subseteq Sessions
         /\ stops' \subseteq Sessions
         /\ stored' \in StoredType
BY NoDictType DEF TypeOK, CancelSmartDischarge, StoredType

LEMMA EndType ==
  ASSUME TypeOK, EndIfStarted \/ EndRemoving, UNCHANGED <<device, world>>
  PROVE  TypeOK'
<1>1. CancelSmartDischarge
  BY DEF EndIfStarted, EndRemoving
<1>2. Await("endRemove", session, 0) \/ UNCHANGED calls
  BY DEF EndIfStarted, EndRemoving
<1>3. Call("endRemove", session, 0) \in CallRecord
  BY CallType, EndCalls DEF TypeOK
<1>4. calls' \in [Calls -> CallRecord]
  BY <1>2, <1>3, AwaitType DEF TypeOK
<1> QED BY <1>1, <1>4, CancelType DEF TypeOK, StoredType, device, world

LEMMA RecordType ==
  ASSUME NEW s \in Sessions, NEW b \in BOOLEAN
  PROVE  Record(s, b) \in StoredType
BY DEF Record, StoredType

LEMMA SetUpType ==
  ASSUME TypeOK, NEW s \in Sessions, NEW p \in Powers \cup {0}, NEW unsubscribed,
         SetUpListeners(s, p, unsubscribed)
  PROVE  /\ session' \in Sessions \cup {None}
         /\ state' \in SessionDict
         /\ unsubs' \in Sessions \cup {None}
         /\ intervals' \subseteq Sessions /\ expiries' \subseteq Sessions
         /\ stops' \subseteq Sessions
         /\ stored' \in StoredType
<1>1. (p # 0) \in BOOLEAN
  OBVIOUS
<1> QED BY <1>1, NewSessionDict, RecordType DEF TypeOK, SetUpListeners

LEMMA WriteDictType ==
  ASSUME TypeOK, NEW s, NEW d \in SessionDict, WriteDict(s, d)
  PROVE  state' \in SessionDict
BY DEF TypeOK, WriteDict

\* A step of the current session's tick that keeps the session going.
LEMMA GoingOnType ==
  ASSUME TypeOK, SessionGoesOn, UNCHANGED <<device, world>>,
         state' \in SessionDict,
         stops' \subseteq Sessions,
         calls' \in [Calls -> CallRecord]
  PROVE  TypeOK'
BY DEF TypeOK, SessionGoesOn, device, world

LEMMA FeedinType ==
  ASSUME TypeOK, NEW s \in Sessions, NEW d, NEW known, FeedinChecked(s, d, known)
  PROVE  /\ stops' \subseteq Sessions
         /\ d \in SessionDict
<1>1. state \in SessionDict
  BY DEF TypeOK
<1>2. d \in Metered(s, state, known)
  BY DEF FeedinChecked
<1> QED BY <1>1, <1>2, MeteredDict DEF FeedinChecked, TypeOK

-----------------------------------------------------------------------------
(* Every action keeps the types *)

LEMMA UserType ==
  ASSUME TypeOK, User
  PROVE  TypeOK'
<1> USE DEF timers, device, world
<1>1. ASSUME NEW s \in Sessions, StartDeferred(s)
      PROVE  TypeOK'
  BY <1>1, SetUpType DEF StartDeferred, TypeOK, StoredType
<1>2. ASSUME NEW s \in Sessions, NEW p \in Powers, StartNow(s, p)
      PROVE  TypeOK'
  <2>1. CancelSmartDischarge /\ Await("serviceApply", s, p)
    BY <1>2 DEF StartNow
  <2>2. Call("serviceApply", s, p) \in CallRecord
    BY CallType DEF Owned, Applies
  <2> QED BY <1>2, <2>1, <2>2, AwaitType, CancelType DEF StartNow, TypeOK, StoredType
<1>3. CASE ClearOverrides
  <2>1. CancelSmartDischarge /\ Await("clearRemove", None, 0)
    BY <1>3 DEF ClearOverrides
  <2>2. Call("clearRemove", None, 0) \in CallRecord
    BY CallType, EndCalls
  <2> QED BY <1>3, <2>1, <2>2, AwaitType, CancelType DEF ClearOverrides, TypeOK, StoredType
<1> QED BY <1>1, <1>2, <1>3 DEF User

LEMMA TimerType ==
  ASSUME TypeOK, NEW s \in Sessions,
         WindowEnds(s) \/ TimerExpire(s) \/ EarlyStop(s)
  PROVE  TypeOK'
<1> USE DEF timers, device, world
<1>1. CASE WindowEnds(s)
  BY <1>1 DEF WindowEnds, TypeOK
<1>2. CASE TimerExpire(s)
  <2>1. CASE session = s
    BY <1>2, <2>1, EndType DEF TimerExpire
  <2>2. CASE session # s
    BY <1>2, <2>2 DEF TimerExpire, TypeOK
  <2> QED BY <2>1, <2>2
<1>3. CASE EarlyStop(s)
  <2>1. CASE session = s
    BY <1>3, <2>1, EndType DEF EarlyStop
  <2>2. CASE session # s
    BY <1>3, <2>2 DEF EarlyStop, TypeOK
  <2> QED BY <2>1, <2>2
<1> QED BY <1>1, <1>2, <1>3

LEMMA TickType ==
  ASSUME TypeOK, NEW s \in Sessions, Tick(s)
  PROVE  TypeOK'
<1>d. state \in SessionDict /\ calls \in [Calls -> CallRecord]
  BY DEF TypeOK
<1>1. CASE TickHold(s)
  BY <1>1, <1>d, BreakerSteps DEF TickHold, TypeOK, timers, device, world
<1>2. CASE TickAbort(s) \/ TickFeedinLimit(s)
  BY <1>2, EndType DEF TickAbort, TickFeedinLimit
<1>3. CASE TickDefer(s)
  BY <1>3, <1>d, BreakerSteps DEF TickDefer, TypeOK, timers, device, world
<1>4. CASE TickStart(s)
  <2>1. PICK p \in Powers : Await("startApply", s, p)
    BY <1>4 DEF TickStart
  <2>2. Call("startApply", s, p) \in CallRecord
    BY CallType DEF Owned, Applies
  <2> QED BY <1>4, <2>1, <2>2, AwaitType
          DEF TickStart, TypeOK, timers, device, world
<1>5. CASE TickSocMissing(s)
  <2>1. CASE state.missing + 1 >= MaxSocMissing
    BY <1>5, <2>1, EndType DEF TickSocMissing
  <2>2. CASE ~(state.missing + 1 >= MaxSocMissing)
    <3>1. PICK known, d :
            /\ FeedinChecked(s, d, known)
            /\ state' = TickSucceeded([d EXCEPT !.missing = @ + 1])
      BY <1>5, <2>2 DEF TickSocMissing
    <3>2. d \in SessionDict /\ stops' \subseteq Sessions
      BY <3>1, FeedinType
    <3>3. d.missing + 1 \in Nat
      BY <3>2 DEF SessionDict
    <3>4. [d EXCEPT !.missing = @ + 1] \in SessionDict
      BY <3>2, <3>3, DictUpdates
    <3>5. state' \in SessionDict
      BY <3>1, <3>4, BreakerSteps
    <3> QED BY <1>5, <2>2, <1>d, <3>2, <3>5, GoingOnType DEF TickSocMissing
  <2> QED BY <2>1, <2>2
<1>6. CASE TickSuspend(s)
  <2>1. PICK known, d :
          /\ FeedinChecked(s, d, known)
          /\ state' = [d EXCEPT !.missing = 0, !.suspended = TRUE]
    BY <1>6 DEF TickSuspend
  <2>2. d \in SessionDict /\ stops' \subseteq Sessions
    BY <2>1, FeedinType
  <2>3. [d EXCEPT !.missing = 0] \in SessionDict
    BY <2>2, DictUpdates
  <2>4. state' \in SessionDict
    BY <2>1, <2>3, DictUpdates
  <2>5. Call("suspendRemove", s, 0) \in CallRecord
    BY CallType DEF Owned
  <2>6. calls' \in [Calls -> CallRecord]
    BY <1>6, <2>5, AwaitType DEF TickSuspend
  <2> QED BY <1>6, <2>2, <2>4, <2>6, GoingOnType DEF TickSuspend
<1>7. CASE TickStaySuspended(s)
  <2>1. PICK known, d :
          /\ FeedinChecked(s, d, known)
          /\ state' = TickSucceeded([d EXCEPT !.missing = 0])
    BY <1>7 DEF TickStaySuspended
  <2>2. d \in SessionDict /\ stops' \subseteq Sessions
    BY <2>1, FeedinType
  <2>3. [d EXCEPT !.missing = 0] \in SessionDict
    BY <2>2, DictUpdates
  <2>4. state' \in SessionDict
    BY <2>1, <2>3, BreakerSteps
  <2> QED BY <1>7, <1>d, <2>2, <2>4, GoingOnType DEF TickStaySuspended
<1>8. CASE TickPace(s)
  <2>0. PICK known \in BOOLEAN, p \in Powers :
          \E d \in Metered(s, state, known) :
            LET resumed == [d EXCEPT !.missing = 0, !.suspended = FALSE]
                a == ApplyDischargePower(resumed, p, d.suspended, known)
            IN /\ FeedinChecked(s, d, known)
               /\ state' = a.dict
               /\ Await(a.pc, s, a.power)
    BY <1>8 DEF TickPace
  <2>1. PICK d \in Metered(s, state, known) :
          LET resumed == [d EXCEPT !.missing = 0, !.suspended = FALSE]
              a == ApplyDischargePower(resumed, p, d.suspended, known)
          IN /\ FeedinChecked(s, d, known)
             /\ state' = a.dict
             /\ Await(a.pc, s, a.power)
    BY <2>0
  <2> DEFINE r == [d EXCEPT !.missing = 0, !.suspended = FALSE]
             a == ApplyDischargePower(r, p, d.suspended, known)
  <2>2. FeedinChecked(s, d, known) /\ state' = a.dict /\ Await(a.pc, s, a.power)
    BY <2>1
  <2>3. d \in SessionDict /\ stops' \subseteq Sessions
    BY <2>2, FeedinType
  <2>4. [d EXCEPT !.missing = 0] \in SessionDict
    BY <2>3, DictUpdates
  <2>5. r \in SessionDict
    BY <2>4, DictUpdates
  <2> HIDE DEF r
  <2>6. /\ a.dict \in SessionDict
        /\ a.pc \in Owned /\ a.power \in Powers \cup {0}
    BY <2>5, PowerDict
  <2> HIDE DEF a
  <2>7. Call(a.pc, s, a.power) \in CallRecord
    BY <2>6, CallType
  <2>8. calls' \in [Calls -> CallRecord]
    BY <2>2, <2>7, AwaitType
  <2> QED BY <1>8, <2>2, <2>3, <2>6, <2>8, GoingOnType DEF TickPace
<1>9. CASE TickAboveFloor(s)
  <2>1. PICK known, d :
          /\ FeedinChecked(s, d, known)
          /\ state' = TickSucceeded(AboveFloor([d EXCEPT !.missing = 0,
                                                         !.suspended = FALSE]))
    BY <1>9 DEF TickAboveFloor
  <2>2. d \in SessionDict /\ stops' \subseteq Sessions
    BY <2>1, FeedinType
  <2>3. [d EXCEPT !.missing = 0] \in SessionDict
    BY <2>2, DictUpdates
  <2>4. [d EXCEPT !.missing = 0, !.suspended = FALSE] \in SessionDict
    BY <2>3, DictUpdates
  <2>5. state' \in SessionDict
    BY <2>1, <2>4, FloorSteps, BreakerSteps
  <2> QED BY <1>9, <1>d, <2>2, <2>5, GoingOnType DEF TickAboveFloor
<1>10. CASE TickFloor(s)
  <2>1. PICK known, d :
          /\ FeedinChecked(s, d, known)
          /\ state' = [d EXCEPT !.missing = 0, !.below = @ + 1, !.latch = TRUE]
    BY <1>10 DEF TickFloor
  <2>2. d \in SessionDict /\ stops' \subseteq Sessions
    BY <2>1, FeedinType
  <2>3. d.below + 1 \in Nat
    BY <2>2 DEF SessionDict
  <2>4. [d EXCEPT !.missing = 0] \in SessionDict
    BY <2>2, DictUpdates
  <2>5. [d EXCEPT !.missing = 0, !.below = @ + 1] \in SessionDict
    BY <2>2, <2>3, <2>4, DictUpdates DEF SessionDict
  <2>6. state' \in SessionDict
    BY <2>1, <2>5, DictUpdates
  <2>7. Call("floorRemove", s, 0) \in CallRecord
    BY CallType DEF Owned
  <2>8. calls' \in [Calls -> CallRecord]
    BY <1>10, <2>7, AwaitType DEF TickFloor
  <2> QED BY <1>10, <2>2, <2>6, <2>8, GoingOnType DEF TickFloor
<1>11. CASE TickFloorConfirmed(s)
  <2>1. CASE state.below + 1 >= FloorReadings
    BY <1>11, <2>1, EndType DEF TickFloorConfirmed
  <2>2. CASE ~(state.below + 1 >= FloorReadings)
    <3>1. PICK known, d :
            /\ FeedinChecked(s, d, known)
            /\ state' = TickSucceeded([d EXCEPT !.missing = 0, !.below = @ + 1])
      BY <1>11, <2>2 DEF TickFloorConfirmed
    <3>2. d \in SessionDict /\ stops' \subseteq Sessions
      BY <3>1, FeedinType
    <3>3. d.below + 1 \in Nat
      BY <3>2 DEF SessionDict
    <3>4. [d EXCEPT !.missing = 0, !.below = @ + 1] \in SessionDict
      BY <3>2, <3>3, DictUpdates DEF SessionDict
    <3>5. state' \in SessionDict
      BY <3>1, <3>4, BreakerSteps
    <3> QED BY <1>11, <2>2, <1>d, <3>2, <3>5, GoingOnType DEF TickFloorConfirmed
  <2> QED BY <2>1, <2>2
<1> QED BY <1>1, <1>2, <1>3, <1>4, <1>5, <1>6, <1>7, <1>8, <1>9, <1>10, <1>11
        DEF Tick

LEMMA DeviceType ==
  ASSUME TypeOK,
         \/ CleanupRetry \/ AdapterDown \/ AdapterUp
         \/ \E c \in Calls : Effect(c)
  PROVE  TypeOK'
<1> USE DEF timers, device, world
<1>1. CASE CleanupRetry
  <2>1. Call("cleanupRemove", None, 0) \in CallRecord
    BY CallType, EndCalls
  <2>2. calls' \in [Calls -> CallRecord]
    BY <1>1, <2>1, AwaitType DEF CleanupRetry
  <2> QED BY <1>1, <2>2 DEF CleanupRetry, TypeOK
<1>2. CASE AdapterDown \/ AdapterUp
  BY <1>2 DEF AdapterDown, AdapterUp, TypeOK
<1>3. ASSUME NEW c \in Calls, Effect(c)
      PROVE  TypeOK'
  <2>1. calls' \in [Calls -> CallRecord]
    <3>1. calls[c] \in CallRecord
      BY DEF TypeOK
    <3>2. [calls[c] EXCEPT !.done = TRUE] \in CallRecord
      BY <3>1 DEF CallRecord
    <3>3. calls' = [calls EXCEPT ![c] = [calls[c] EXCEPT !.done = TRUE]]
      BY <1>3 DEF Effect
    <3> QED BY <3>2, <3>3 DEF TypeOK
  <2>2. inverter' \in Powers \cup {0, None}
    BY <1>3, OwnedCall DEF Effect, TypeOK, Owned
  <2> QED BY <1>3, <2>1, <2>2 DEF Effect, TypeOK
<1> QED BY <1>1, <1>2, <1>3

LEMMA ReturnType ==
  ASSUME TypeOK, NEW c \in Calls, Return(c)
  PROVE  TypeOK'
<1> USE DEF timers, device, world, StoredType
<1>d. state \in SessionDict /\ state.started \in BOOLEAN
  BY DEF TypeOK, SessionDict
<1>s. stored \in StoredType
  BY DEF TypeOK
<1>1. CASE ServiceApplied(c)
  <2>1. calls' \in [Calls -> CallRecord]
    BY <1>1, LeavesType DEF ServiceApplied
  <2>2. CASE UNCHANGED <<session, state, timers, stored>>
    BY <1>1, <2>1, <2>2 DEF ServiceApplied, TypeOK
  <2>3. CASE SetUpListeners(calls[c].sid, calls[c].power, {})
    <3>1. calls[c].pc = "serviceApply"
      BY <1>1 DEF ServiceApplied, Answered
    <3>2. calls[c].sid \in Sessions /\ calls[c].power \in Powers \cup {0}
      BY <3>1, OwnedCall DEF Owned, Applies
    <3> QED BY <1>1, <2>1, <2>3, <3>2, SetUpType DEF ServiceApplied, TypeOK
  <2> QED BY <1>1, <2>2, <2>3 DEF ServiceApplied
<1>2. CASE OverridesCleared(c)
  BY <1>2, LeavesType DEF OverridesCleared, TypeOK
<1>3. CASE CleanupRetried(c)
  BY <1>3, LeavesType DEF CleanupRetried, TypeOK
<1>4. CASE Ended(c)
  BY <1>4, LeavesType DEF Ended, OverrideRemoved, TypeOK
<1>5. CASE FloorRemoved(c)
  <2>1. pendingCleanup' \in BOOLEAN /\ calls[c].pc = "floorRemove"
    BY <1>5 DEF FloorRemoved, OverrideRemoved, Answered, TypeOK
  <2>2. calls[c].sid \in Sessions
    BY <2>1, OwnedCall DEF Owned
  <2>3. CASE CancelSmartDischarge /\ GoesOn(c, Call("endRemove", calls[c].sid, 0))
    <3>1. Call("endRemove", calls[c].sid, 0) \in CallRecord
      BY <2>2, CallType, EndCalls
    <3> QED BY <1>5, <2>1, <2>3, <3>1, GoesOnType, CancelType
            DEF FloorRemoved, TypeOK
  <2>4. CASE /\ WriteDict(calls[c].sid, TickSucceeded(state))
             /\ Leaves(c) /\ UNCHANGED <<session, timers, stored>>
    <3>1. state' \in SessionDict
      BY <2>4, <1>d, BreakerSteps, WriteDictType
    <3> QED BY <1>5, <2>1, <2>4, <3>1, LeavesType DEF FloorRemoved, TypeOK
  <2> QED BY <1>5, <2>3, <2>4 DEF FloorRemoved
<1>6. CASE SuspendRemoved(c)
  <2>1. pendingCleanup' \in BOOLEAN /\ calls[c].pc = "suspendRemove"
    BY <1>6 DEF SuspendRemoved, OverrideRemoved, Answered, TypeOK
  <2>2. calls[c].sid \in Sessions
    BY <2>1, OwnedCall DEF Owned
  <2>3. stored' \in StoredType
    <3>1. Record(calls[c].sid, state.started) \in StoredType
      BY <1>d, <2>2, RecordType
    <3> HIDE DEF StoredType
    <3> QED BY <1>6, <1>s, <3>1 DEF SuspendRemoved
  <2>4. state' \in SessionDict /\ calls' \in [Calls -> CallRecord]
    <3>1. CASE \E p \in Powers, known \in MeterKnown(calls[c].sid) :
                 LET a == ApplyDischargePower(state, p, FALSE, known)
                 IN /\ state' = a.dict
                    /\ GoesOn(c, Call(a.pc, calls[c].sid, a.power))
      <4>0. PICK p \in Powers, known \in MeterKnown(calls[c].sid) :
              LET a == ApplyDischargePower(state, p, FALSE, known)
              IN /\ state' = a.dict
                 /\ GoesOn(c, Call(a.pc, calls[c].sid, a.power))
        BY <3>1
      <4>1. PICK a :
              /\ a = ApplyDischargePower(state, p, FALSE, known)
              /\ state' = a.dict
              /\ GoesOn(c, Call(a.pc, calls[c].sid, a.power))
        BY <4>0
      <4>2. /\ a.dict \in SessionDict
            /\ a.pc \in Owned /\ a.power \in Powers \cup {0}
        BY <4>1, <1>d, PowerDict
      <4>3. Call(a.pc, calls[c].sid, a.power) \in CallRecord
        BY <2>2, <4>2, CallType
      <4> QED BY <4>1, <4>2, <4>3, GoesOnType
    <3>2. CASE WriteDict(calls[c].sid, TickSucceeded(state)) /\ Leaves(c)
      BY <3>2, <1>d, BreakerSteps, WriteDictType, LeavesType
    <3> QED BY <1>6, <3>1, <3>2 DEF SuspendRemoved
  <2> QED BY <1>6, <2>1, <2>3, <2>4 DEF SuspendRemoved, TypeOK
<1>7. CASE StartApplied(c)
  <2> DEFINE d == [state EXCEPT !.started = TRUE, !.power = calls[c].power]
  <2>1. PICK raised \in BOOLEAN :
          /\ Answered(c, "startApply", raised)
          /\ WriteDict(calls[c].sid, IF raised THEN TickFailed(state)
                                               ELSE TickSucceeded(d))
          /\ stored' = IF session = calls[c].sid /\ ~raised
                       THEN Record(calls[c].sid, TRUE) ELSE stored
    BY <1>7 DEF StartApplied
  <2>2. calls[c].sid \in Sessions /\ calls[c].power \in Powers \cup {0}
    BY <2>1, OwnedCall DEF Answered, Owned, Applies
  <2>3. [state EXCEPT !.started = TRUE] \in SessionDict
    BY <1>d, DictUpdates
  <2>4. d \in SessionDict
    BY <2>2, <2>3, DictUpdates
  <2> HIDE DEF d
  <2>5. (IF raised THEN TickFailed(state) ELSE TickSucceeded(d)) \in SessionDict
    BY <1>d, <2>4, BreakerSteps
  <2>6. state' \in SessionDict
    BY <2>1, <2>5, WriteDictType
  <2>7. Record(calls[c].sid, TRUE) \in StoredType
    BY <2>2, RecordType
  <2>8. stored' \in StoredType
    <3> HIDE DEF StoredType
    <3> QED BY <2>1, <2>7, <1>s
  <2> QED BY <1>7, <2>6, <2>8, LeavesType DEF StartApplied, TypeOK
<1>8. CASE PowerApplied(c)
  <2>1. PICK raised \in BOOLEAN, pc \in {"adjustApply", "holdApply",
                                         "selfUseApply"} :
          /\ Answered(c, pc, raised)
          /\ WriteDict(calls[c].sid, IF raised THEN TickFailed(state)
                                     ELSE TickSucceeded(AboveFloor(state)))
          /\ stored' = IF session = calls[c].sid /\ ~raised /\ pc # "holdApply"
                       THEN Record(calls[c].sid, state.started) ELSE stored
    BY <1>8 DEF PowerApplied
  <2>2. calls[c].sid \in Sessions
    BY <2>1, OwnedCall DEF Answered, Owned, Applies
  <2>3. (IF raised THEN TickFailed(state) ELSE TickSucceeded(AboveFloor(state)))
        \in SessionDict
    BY <1>d, FloorSteps, BreakerSteps
  <2>4. state' \in SessionDict
    BY <2>1, <2>3, WriteDictType
  <2>5. Record(calls[c].sid, state.started) \in StoredType
    BY <1>d, <2>2, RecordType
  <2>6. stored' \in StoredType
    <3> HIDE DEF StoredType
    <3> QED BY <2>1, <2>5, <1>s
  <2> QED BY <1>8, <2>4, <2>6, LeavesType DEF PowerApplied, TypeOK
<1> QED BY <1>1, <1>2, <1>3, <1>4, <1>5, <1>6, <1>7, <1>8 DEF Return

LEMMA TypeStep ==
  ASSUME TypeOK, [Next]_vars
  PROVE  TypeOK'
<1>1. CASE UNCHANGED vars
  BY <1>1 DEF vars, TypeOK
<1>2. CASE User
  BY <1>2, UserType
<1>3. ASSUME NEW s \in Sessions, WindowEnds(s) \/ TimerExpire(s) \/ EarlyStop(s)
      PROVE  TypeOK'
  BY <1>3, TimerType
<1>4. ASSUME NEW s \in Sessions, Tick(s)
      PROVE  TypeOK'
  BY <1>4, TickType
<1>5. CASE CleanupRetry \/ AdapterDown \/ AdapterUp
  BY <1>5, DeviceType
<1>6. ASSUME NEW c \in Calls, Effect(c) \/ Return(c)
      PROVE  TypeOK'
  BY <1>6, DeviceType, ReturnType
<1> QED BY <1>1, <1>2, <1>3, <1>4, <1>5, <1>6 DEF Next

LEMMA TypeInit == Init => TypeOK
<1>1. Idle \in CallRecord
  BY DEF Idle, CallRecord
<1> QED BY <1>1, NoDictType DEF Init, TypeOK

\* Every variable keeps its type, however many service calls, ticks, timers and
\* answers overlap: no coroutine that resumes late puts a session, a dict or a
\* stored record where it does not belong.
THEOREM TypeCorrect == Spec => []TypeOK
<1> QED BY TypeInit, TypeStep, PTL DEF Spec

-----------------------------------------------------------------------------
(* The session, its timers, its floor count and its stored record *)

\* The inductive invariant.  TypeOK knows which calls carry a session, so that
\* a coroutine that resumes finds one; the other parts support each other only
\* through the current session's dict.
Inv == /\ TypeOK
       /\ TimersCoverSession
       /\ FloorCounted
       /\ StoredAgrees

Agree == TimersCoverSession /\ FloorCounted /\ StoredAgrees

\* Cancelling a session satisfies every agreement: nothing is left to agree.
LEMMA CancelAgrees ==
  ASSUME CancelSmartDischarge
  PROVE  Agree'
BY NoDictType DEF CancelSmartDischarge, Agree, TimersCoverSession, FloorCounted,
                  FloorOf, StoredAgrees

LEMMA EndAgrees ==
  ASSUME EndIfStarted \/ EndRemoving
  PROVE  Agree'
BY CancelAgrees DEF EndIfStarted, EndRemoving

\* So does setting up a new one.
LEMMA SetUpAgrees ==
  ASSUME NEW s \in Sessions, NEW p \in Powers \cup {0}, NEW unsubscribed,
         SetUpListeners(s, p, unsubscribed)
  PROVE  Agree'
<1>1. FloorCounted'
  BY NewSessionDict DEF SetUpListeners, FloorCounted, FloorOf
<1>2. StoredAgrees'
  BY NewSessionDict, DischargeAssumption DEF SetUpListeners, StoredAgrees
<1>3. TimersCoverSession'
  BY NewSessionDict DEF SetUpListeners, TimersCoverSession
<1> QED BY <1>1, <1>2, <1>3 DEF Agree

\* A step that keeps the session and its handles keeps the agreements if what
\* it writes in the dict, in the timers and in the Store belongs together.
LEMMA DictAgrees ==
  ASSUME Inv, UNCHANGED <<session, unsubs, intervals, expiries>>,
         session # None => (state'.stop => session \in stops'),
         FloorOf(state'),
         IF session = None THEN stored' = None
         ELSE stored' = Record(session, state'.started)
  PROVE  Agree'
BY DEF Inv, Agree, TimersCoverSession, FloorCounted, FloorOf, StoredAgrees

\* The most common case: neither the timers nor the Store are touched.
LEMMA QuietAgrees ==
  ASSUME Inv, UNCHANGED <<session, timers, stored>>,
         SameMirror(state, state'), FloorOf(state')
  PROVE  Agree'
BY DictAgrees DEF Inv, timers, SameMirror, TimersCoverSession, StoredAgrees

LEMMA SameDictAgrees ==
  ASSUME Inv, UNCHANGED <<session, timers, stored, state>>
  PROVE  Agree'
BY QuietAgrees DEF Inv, FloorCounted, FloorOf, SameMirror

\* A tick that goes on after the feed-in check and keeps what it found.
LEMMA FeedinAgrees ==
  ASSUME Inv, NEW s \in Sessions, session = s, NEW d, NEW known,
         FeedinChecked(s, d, known), SessionGoesOn,
         SameMirror(d, state'), FloorOf(state')
  PROVE  Agree'
<1>1. state \in SessionDict /\ d \in Metered(s, state, known) /\ session # None
  BY DischargeAssumption DEF Inv, TypeOK, FeedinChecked
<1>2. /\ d.started = state.started
      /\ d.stop = state.stop \/ d.stop = TRUE
  BY <1>1, MeteredDict
<1>3. state'.stop => session \in stops'
  BY <1>1, <1>2 DEF FeedinChecked, Inv, TimersCoverSession, SameMirror
<1>4. stored' = Record(session, state'.started)
  BY <1>1, <1>2 DEF Inv, StoredAgrees, SessionGoesOn, SameMirror
<1> QED BY <1>1, <1>3, <1>4, DictAgrees DEF SessionGoesOn

LEMMA UserAgrees ==
  ASSUME Inv, User
  PROVE  Agree'
<1>1. ASSUME NEW s \in Sessions, StartDeferred(s)
      PROVE  Agree'
  BY <1>1, SetUpAgrees DEF StartDeferred
<1>2. ASSUME NEW s \in Sessions, NEW p \in Powers, StartNow(s, p)
      PROVE  Agree'
  BY <1>2, CancelAgrees DEF StartNow
<1>3. CASE ClearOverrides
  BY <1>3, CancelAgrees DEF ClearOverrides
<1> QED BY <1>1, <1>2, <1>3 DEF User

LEMMA TimerAgrees ==
  ASSUME Inv, NEW s \in Sessions,
         WindowEnds(s) \/ TimerExpire(s) \/ EarlyStop(s)
  PROVE  Agree'
<1>1. CASE WindowEnds(s)
  BY <1>1, SameDictAgrees DEF WindowEnds
<1>2. CASE session = s /\ (TimerExpire(s) \/ EarlyStop(s))
  BY <1>2, EndAgrees DEF TimerExpire, EarlyStop
<1>3. CASE session # s /\ (TimerExpire(s) \/ EarlyStop(s))
  BY <1>3 DEF TimerExpire, EarlyStop, Inv, Agree, TimersCoverSession,
              FloorCounted, StoredAgrees
<1> QED BY <1>1, <1>2, <1>3

LEMMA TickAgrees ==
  ASSUME Inv, NEW s \in Sessions, Tick(s)
  PROVE  Agree'
<1>d. state \in SessionDict /\ FloorOf(state)
  BY DEF Inv, TypeOK, FloorCounted, FloorOf
<1>s. session = s
  BY DEF Tick, TickHold, TickAbort, TickDefer, TickStart, TickFeedinLimit,
     TickSocMissing, TickSuspend, TickStaySuspended, TickPace, TickAboveFloor,
     TickFloor, TickFloorConfirmed, Runs, Paces
<1>m. ASSUME NEW known, NEW d, FeedinChecked(s, d, known)
      PROVE  d \in SessionDict /\ FloorOf(d) /\ SameFloor(state, d)
  <2>1. d \in Metered(s, state, known)
    BY <1>m DEF FeedinChecked
  <2> QED BY <1>d, <2>1, MeteredDict DEF FloorOf, SameFloor
<1>1. CASE TickHold(s) \/ TickDefer(s)
  <2>1. state' = TickHeld(state) \/ state' = TickSucceeded(state)
    BY <1>1 DEF TickHold, TickDefer
  <2>2. SameMirror(state, state') /\ FloorOf(state')
    BY <2>1, <1>d, BreakerSteps DEF FloorOf, SameFloor
  <2> QED BY <1>1, <2>2, QuietAgrees DEF TickHold, TickDefer
<1>2. CASE TickAbort(s) \/ TickFeedinLimit(s)
  BY <1>2, EndAgrees DEF TickAbort, TickFeedinLimit
<1>3. CASE TickStart(s)
  BY <1>3, SameDictAgrees DEF TickStart
<1>4. CASE TickSocMissing(s)
  <2>1. CASE state.missing + 1 >= MaxSocMissing
    BY <1>4, <2>1, EndAgrees DEF TickSocMissing
  <2>2. CASE ~(state.missing + 1 >= MaxSocMissing)
    <3>1. PICK known, d :
            /\ FeedinChecked(s, d, known)
            /\ state' = TickSucceeded([d EXCEPT !.missing = @ + 1])
      BY <1>4, <2>2 DEF TickSocMissing
    <3> DEFINE e == [d EXCEPT !.missing = @ + 1]
    <3>2. d \in SessionDict /\ FloorOf(d)
      BY <3>1, <1>m
    <3>3. e \in SessionDict /\ SameMirror(d, e) /\ FloorOf(e)
      BY <3>2 DEF SessionDict, SameMirror, FloorOf
    <3>4. state' = TickSucceeded(e)
      BY <3>1
    <3> HIDE DEF e
    <3>5. SameMirror(d, state') /\ FloorOf(state')
      BY <3>3, <3>4, BreakerSteps DEF SameMirror, SameFloor, FloorOf
    <3> QED BY <1>4, <2>2, <1>s, <3>1, <3>5, FeedinAgrees DEF TickSocMissing
  <2> QED BY <2>1, <2>2
<1>5. CASE TickSuspend(s)
  <2>1. PICK known, d :
          /\ FeedinChecked(s, d, known)
          /\ state' = [d EXCEPT !.missing = 0, !.suspended = TRUE]
    BY <1>5 DEF TickSuspend
  <2>2. d \in SessionDict /\ FloorOf(d)
    BY <2>1, <1>m
  <2>3. SameMirror(d, state') /\ FloorOf(state')
    BY <2>1, <2>2 DEF SessionDict, SameMirror, FloorOf
  <2> QED BY <1>5, <1>s, <2>1, <2>3, FeedinAgrees DEF TickSuspend
<1>6. CASE TickStaySuspended(s)
  <2>1. PICK known, d :
          /\ FeedinChecked(s, d, known)
          /\ state' = TickSucceeded([d EXCEPT !.missing = 0])
    BY <1>6 DEF TickStaySuspended
  <2> DEFINE e == [d EXCEPT !.missing = 0]
  <2>2. d \in SessionDict /\ FloorOf(d)
    BY <2>1, <1>m
  <2>3. e \in SessionDict /\ SameMirror(d, e) /\ FloorOf(e)
    BY <2>2 DEF SessionDict, SameMirror, FloorOf
  <2>4. state' = TickSucceeded(e)
    BY <2>1
  <2> HIDE DEF e
  <2>5. SameMirror(d, state') /\ FloorOf(state')
    BY <2>3, <2>4, BreakerSteps DEF SameMirror, SameFloor, FloorOf
  <2> QED BY <1>6, <1>s, <2>1, <2>5, FeedinAgrees DEF TickStaySuspended
<1>7. CASE TickPace(s)
  <2>0. PICK known \in BOOLEAN, p \in Powers :
          \E d \in Metered(s, state, known) :
            LET resumed == [d EXCEPT !.missing = 0, !.suspended = FALSE]
                a == ApplyDischargePower(resumed, p, d.suspended, known)
            IN FeedinChecked(s, d, known) /\ state' = a.dict
    BY <1>7 DEF TickPace
  <2>1. PICK d \in Metered(s, state, known) :
          LET resumed == [d EXCEPT !.missing = 0, !.suspended = FALSE]
              a == ApplyDischargePower(resumed, p, d.suspended, known)
          IN FeedinChecked(s, d, known) /\ state' = a.dict
    BY <2>0
  <2> DEFINE r == [d EXCEPT !.missing = 0, !.suspended = FALSE]
             a == ApplyDischargePower(r, p, d.suspended, known)
  <2>2. FeedinChecked(s, d, known) /\ state' = a.dict
    BY <2>1
  <2>3. d \in SessionDict /\ FloorOf(d)
    BY <2>2, <1>m
  <2>4. r \in SessionDict /\ SameMirror(d, r) /\ FloorOf(r)
    BY <2>3 DEF SessionDict, SameMirror, FloorOf
  <2> HIDE DEF r
  <2>5. SameMirror(r, a.dict) /\ SameFloor(r, a.dict)
    BY <2>4, PowerDict
  <2> HIDE DEF a
  <2>6. SameMirror(d, state') /\ FloorOf(state')
    BY <2>2, <2>4, <2>5 DEF SameMirror, SameFloor, FloorOf
  <2> QED BY <1>7, <1>s, <2>2, <2>6, FeedinAgrees DEF TickPace
<1>8. CASE TickAboveFloor(s)
  <2>1. PICK known, d :
          /\ FeedinChecked(s, d, known)
          /\ state' = TickSucceeded(AboveFloor([d EXCEPT !.missing = 0,
                                                         !.suspended = FALSE]))
    BY <1>8 DEF TickAboveFloor
  <2> DEFINE e == [d EXCEPT !.missing = 0, !.suspended = FALSE]
  <2>2. d \in SessionDict
    BY <2>1, <1>m
  <2>3. e \in SessionDict /\ SameMirror(d, e)
    BY <2>2 DEF SessionDict, SameMirror
  <2>4. state' = TickSucceeded(AboveFloor(e))
    BY <2>1
  <2> HIDE DEF e
  <2>5. SameMirror(d, state') /\ FloorOf(state')
    BY <2>3, <2>4, FloorSteps, BreakerSteps DEF SameMirror, SameFloor, FloorOf
  <2> QED BY <1>8, <1>s, <2>1, <2>5, FeedinAgrees DEF TickAboveFloor
<1>9. CASE TickFloor(s)
  <2>1. PICK known, d :
          /\ FeedinChecked(s, d, known)
          /\ state' = [d EXCEPT !.missing = 0, !.below = @ + 1, !.latch = TRUE]
    BY <1>9 DEF TickFloor
  <2>2. d \in SessionDict /\ FloorOf(d) /\ ~d.latch
    BY <2>1, <1>m, <1>9 DEF TickFloor, SameFloor
  <2>3. state'.below = 1 /\ state'.latch = TRUE /\ SameMirror(d, state')
    BY <2>1, <2>2 DEF SessionDict, SameMirror, FloorOf
  <2>4. FloorOf(state')
    BY <2>3, DischargeAssumption DEF FloorOf
  <2> QED BY <1>9, <1>s, <2>1, <2>3, <2>4, FeedinAgrees DEF TickFloor
<1>10. CASE TickFloorConfirmed(s)
  <2>1. CASE state.below + 1 >= FloorReadings
    BY <1>10, <2>1, EndAgrees DEF TickFloorConfirmed
  <2>2. CASE ~(state.below + 1 >= FloorReadings)
    <3>1. PICK known, d :
            /\ FeedinChecked(s, d, known)
            /\ state' = TickSucceeded([d EXCEPT !.missing = 0, !.below = @ + 1])
      BY <1>10, <2>2 DEF TickFloorConfirmed
    <3> DEFINE e == [d EXCEPT !.missing = 0, !.below = @ + 1]
    <3>2. d \in SessionDict /\ d.below = state.below /\ d.latch
      BY <3>1, <1>m, <1>10 DEF TickFloorConfirmed, SameFloor
    <3>a. [d EXCEPT !.missing = 0] \in SessionDict /\ d.below + 1 \in Nat
      BY <3>2, DictUpdates DEF SessionDict
    <3>b. e \in SessionDict
      BY <3>2, <3>a, DictUpdates DEF SessionDict
    <3>c. SameMirror(d, e) /\ e.latch = d.latch /\ e.below = d.below + 1
      BY <3>2 DEF SessionDict, SameMirror
    <3>3. e \in SessionDict /\ SameMirror(d, e)
          /\ e.latch /\ e.below = state.below + 1
      BY <3>2, <3>b, <3>c
    <3>4. FloorOf(e)
      BY <3>3, <2>2, <1>d, DischargeAssumption DEF FloorOf, SessionDict
    <3>5. state' = TickSucceeded(e)
      BY <3>1
    <3> HIDE DEF e
    <3>6. SameMirror(d, state') /\ FloorOf(state')
      BY <3>3, <3>4, <3>5, BreakerSteps DEF SameMirror, SameFloor, FloorOf
    <3> QED BY <1>10, <2>2, <1>s, <3>1, <3>6, FeedinAgrees DEF TickFloorConfirmed
  <2> QED BY <2>1, <2>2
<1> QED BY <1>1, <1>2, <1>3, <1>4, <1>5, <1>6, <1>7, <1>8, <1>9, <1>10 DEF Tick

\* The coroutine of a session that is no longer the current one writes to a
\* dict that nobody reads; that of the current one writes what belongs to it.
LEMMA ReturnAgrees ==
  ASSUME Inv, NEW c \in Calls, Return(c)
  PROVE  Agree'
<1>d. state \in SessionDict /\ FloorOf(state) /\ TypeOK /\ StoredAgrees
  BY DEF Inv, TypeOK, FloorCounted, FloorOf
<1>o. ASSUME calls[c].pc \in Owned
      PROVE  calls[c].sid \in Sessions /\ calls[c].sid # None
             /\ calls[c].power \in Powers \cup {0}
  BY <1>d, <1>o, OwnedCall
<1>1. CASE ServiceApplied(c)
  <2>1. CASE UNCHANGED <<session, state, timers, stored>>
    BY <2>1, SameDictAgrees
  <2>2. CASE SetUpListeners(calls[c].sid, calls[c].power, {})
    <3>1. calls[c].pc \in Owned
      BY <1>1 DEF ServiceApplied, Answered, Owned, Applies
    <3> QED BY <2>2, <3>1, <1>o, SetUpAgrees
  <2> QED BY <1>1, <2>1, <2>2 DEF ServiceApplied
<1>2. CASE OverridesCleared(c) \/ CleanupRetried(c) \/ Ended(c)
  BY <1>2, SameDictAgrees DEF OverridesCleared, CleanupRetried, Ended
<1>3. CASE FloorRemoved(c)
  <2>1. CASE CancelSmartDischarge
    BY <2>1, CancelAgrees
  <2>2. CASE WriteDict(calls[c].sid, TickSucceeded(state))
             /\ UNCHANGED <<session, timers, stored>>
    <3>1. state' = state \/ state' = TickSucceeded(state)
      BY <2>2 DEF WriteDict
    <3>2. SameMirror(state, state') /\ FloorOf(state')
      BY <3>1, <1>d, BreakerSteps DEF FloorOf, SameFloor, SameMirror
    <3> QED BY <2>2, <3>2, QuietAgrees
  <2> QED BY <1>3, <2>1, <2>2 DEF FloorRemoved
<1>4. CASE SuspendRemoved(c)
  <2>1. calls[c].sid # None
    BY <1>4, <1>o DEF SuspendRemoved, OverrideRemoved, Answered, Owned
  <2>2. stored' = stored
    BY <1>4, <1>d, <2>1 DEF SuspendRemoved, StoredAgrees
  <2>3. SameMirror(state, state') /\ FloorOf(state')
    <3>1. CASE \E p \in Powers, known \in MeterKnown(calls[c].sid) :
                 LET a == ApplyDischargePower(state, p, FALSE, known)
                 IN state' = a.dict
      <4>0. PICK p \in Powers, known \in MeterKnown(calls[c].sid) :
              LET a == ApplyDischargePower(state, p, FALSE, known)
              IN state' = a.dict
        BY <3>1
      <4>1. PICK a :
              /\ a = ApplyDischargePower(state, p, FALSE, known)
              /\ state' = a.dict
        BY <4>0
      <4>2. SameMirror(state, a.dict) /\ SameFloor(state, a.dict)
        BY <4>1, <1>d, PowerDict
      <4> QED BY <4>1, <4>2, <1>d DEF FloorOf, SameFloor
    <3>2. CASE WriteDict(calls[c].sid, TickSucceeded(state))
      <4>1. state' = state \/ state' = TickSucceeded(state)
        BY <3>2 DEF WriteDict
      <4> QED BY <4>1, <1>d, BreakerSteps DEF FloorOf, SameFloor, SameMirror
    <3> QED BY <1>4, <3>1, <3>2 DEF SuspendRemoved
  <2> QED BY <1>4, <2>2, <2>3, QuietAgrees DEF SuspendRemoved
<1>5. CASE StartApplied(c)
  <2> DEFINE d == [state EXCEPT !.started = TRUE, !.power = calls[c].power]
  <2>1. PICK raised \in BOOLEAN :
          /\ Answered(c, "startApply", raised)
          /\ WriteDict(calls[c].sid, IF raised THEN TickFailed(state)
                                               ELSE TickSucceeded(d))
          /\ stored' = IF session = calls[c].sid /\ ~raised
                       THEN Record(calls[c].sid, TRUE) ELSE stored
          /\ UNCHANGED <<session, timers>>
    BY <1>5 DEF StartApplied
  <2>2. calls[c].sid # None /\ calls[c].power \in Powers \cup {0}
    BY <2>1, <1>o DEF Answered, Owned, Applies
  <2>3. [state EXCEPT !.started = TRUE] \in SessionDict
    BY <1>d, DictUpdates
  <2>4. d \in SessionDict
    BY <2>2, <2>3, DictUpdates
  <2>5. d.stop = state.stop /\ d.started = TRUE /\ SameFloor(state, d)
    BY <1>d DEF SessionDict, SameFloor
  <2> HIDE DEF d
  <2>6. CASE session # calls[c].sid
    BY <2>1, <2>6, SameDictAgrees DEF WriteDict
  <2>7. CASE session = calls[c].sid /\ raised
    <3>1. state' = TickFailed(state) /\ stored' = stored
      BY <2>1, <2>7 DEF WriteDict
    <3>2. SameMirror(state, state') /\ FloorOf(state')
      BY <3>1, <1>d, BreakerSteps DEF FloorOf, SameFloor
    <3> QED BY <2>1, <3>1, <3>2, QuietAgrees
  <2>8. CASE session = calls[c].sid /\ ~raised
    <3>1. state' = TickSucceeded(d) /\ stored' = Record(session, TRUE)
      BY <2>1, <2>8 DEF WriteDict
    <3>2. state'.started = TRUE /\ state'.stop = state.stop /\ FloorOf(state')
      BY <3>1, <1>d, <2>4, <2>5, BreakerSteps DEF SameMirror, FloorOf, SameFloor
    <3>3. session # None => (state'.stop => session \in stops')
      BY <2>1, <3>2 DEF Inv, TimersCoverSession, timers
    <3> QED BY <2>1, <2>2, <2>8, <3>1, <3>2, <3>3, DictAgrees DEF timers
  <2> QED BY <2>6, <2>7, <2>8
<1>6. CASE PowerApplied(c)
  <2>1. PICK raised \in BOOLEAN, pc \in {"adjustApply", "holdApply",
                                         "selfUseApply"} :
          /\ Answered(c, pc, raised)
          /\ WriteDict(calls[c].sid, IF raised THEN TickFailed(state)
                                     ELSE TickSucceeded(AboveFloor(state)))
          /\ stored' = IF session = calls[c].sid /\ ~raised /\ pc # "holdApply"
                       THEN Record(calls[c].sid, state.started) ELSE stored
          /\ UNCHANGED <<session, timers>>
    BY <1>6 DEF PowerApplied
  <2>2. calls[c].sid # None
    BY <2>1, <1>o DEF Answered, Owned, Applies
  <2>3. stored' = stored
    BY <2>1, <2>2, <1>d DEF StoredAgrees
  <2>4. \/ state' = state
        \/ state' = TickFailed(state)
        \/ state' = TickSucceeded(AboveFloor(state))
    BY <2>1 DEF WriteDict
  <2>5. SameMirror(state, state') /\ FloorOf(state')
    BY <2>4, <1>d, FloorSteps, BreakerSteps DEF FloorOf, SameFloor, SameMirror
  <2> QED BY <2>1, <2>3, <2>5, QuietAgrees
<1> QED BY <1>1, <1>2, <1>3, <1>4, <1>5, <1>6 DEF Return

LEMMA InvStep ==
  ASSUME Inv, [Next]_vars
  PROVE  Inv'
<1>1. TypeOK'
  BY TypeStep DEF Inv
<1>2. Agree'
  <2>1. CASE UNCHANGED vars
    BY <2>1, SameDictAgrees DEF vars, timers
  <2>2. CASE User
    BY <2>2, UserAgrees
  <2>3. ASSUME NEW s \in Sessions,
               WindowEnds(s) \/ TimerExpire(s) \/ EarlyStop(s)
        PROVE  Agree'
    BY <2>3, TimerAgrees
  <2>4. ASSUME NEW s \in Sessions, Tick(s)
        PROVE  Agree'
    BY <2>4, TickAgrees
  <2>5. CASE CleanupRetry \/ AdapterDown \/ AdapterUp
    BY <2>5, SameDictAgrees DEF CleanupRetry, AdapterDown, AdapterUp
  <2>6. ASSUME NEW c \in Calls, Effect(c) \/ Return(c)
        PROVE  Agree'
    BY <2>6, SameDictAgrees, ReturnAgrees DEF Effect
  <2> QED BY <2>1, <2>2, <2>3, <2>4, <2>5, <2>6 DEF Next
<1> QED BY <1>1, <1>2 DEF Inv, Agree

LEMMA InvInit == Init => Inv
<1> SUFFICES ASSUME Init PROVE Inv
  OBVIOUS
<1>1. TypeOK
  BY TypeInit
<1>2. TimersCoverSession /\ StoredAgrees
  BY DEF Init, TimersCoverSession, StoredAgrees
<1>3. FloorCounted
  BY NoDictType DEF Init, FloorCounted, FloorOf
<1> QED BY <1>1, <1>2, <1>3 DEF Inv

LEMMA InvHolds == Spec => []Inv
<1> QED BY InvInit, InvStep, PTL DEF Spec

\* The current session always has the handles, the tick, the window-end timer
\* and the feed-in stop it counts on: no overlap of service calls, ends and
\* late set-ups leaves it without them.
THEOREM TimersCover == Spec => []TimersCoverSession
<1>1. Inv => TimersCoverSession
  BY DEF Inv
<1> QED BY <1>1, InvHolds, PTL

\* The latch and the count of the floor move together and the count never fills
\* without ending the session, even when ticks that read different states of
\* charge are in flight and finish in any order.
THEOREM FloorCounts == Spec => []FloorCounted
<1>1. Inv => FloorCounted
  BY DEF Inv
<1> QED BY <1>1, InvHolds, PTL

\* What a restart would recover is the current session in its current phase; a
\* coroutine of an ended session never writes it back.
THEOREM StoreFollows == Spec => []StoredAgrees
<1>1. Inv => StoredAgrees
  BY DEF Inv
<1> QED BY <1>1, InvHolds, PTL

-----------------------------------------------------------------------------
(* Why a session ends *)

\* A service handler that suspends shows as the call it makes.
LEMMA AwaitActs ==
  ASSUME TypeOK, NEW s, NEW p, Await("clearRemove", s, p)
  PROVE  UserActed
<1>1. PICK c \in Calls :
        /\ calls[c].pc = "idle"
        /\ calls' = [calls EXCEPT ![c] = Call("clearRemove", s, p)]
  BY DEF Await
<1>2. calls'[c].pc = "clearRemove"
  BY <1>1 DEF TypeOK, Call
<1> QED BY <1>1, <1>2 DEF UserActed

LEMMA EndStep ==
  ASSUME Inv, [Next]_vars
  PROVE  EndJustified
<1>f. FloorCounted /\ state \in SessionDict
  BY DEF Inv, TypeOK
<1>1. SUFFICES ASSUME NEW s \in Sessions, session = s, session' # s
              PROVE  \/ s \in over
                     \/ state.missing + 1 >= MaxSocMissing
                     \/ HoldExhausted(state)
                     \/ state.below + 1 >= FloorReadings
                     \/ s \in Limited /\ state.feedin # NoBaseline
                     \/ s \in stops
                     \/ UserActed
  BY DEF EndJustified
<1>2. CASE UNCHANGED vars
  BY <1>1, <1>2 DEF vars
<1>3. CASE User
  <2>1. ASSUME NEW r \in Sessions, StartDeferred(r)
        PROVE  UserActed
    BY <2>1 DEF StartDeferred, UserActed
  <2>2. ASSUME NEW r \in Sessions, NEW p \in Powers, StartNow(r, p)
        PROVE  UserActed
    BY <2>2 DEF StartNow, UserActed
  <2>3. CASE ClearOverrides
    BY <2>3, AwaitActs DEF ClearOverrides, Inv
  <2> QED BY <1>3, <2>1, <2>2, <2>3 DEF User
<1>4. ASSUME NEW r \in Sessions, WindowEnds(r) \/ TimerExpire(r) \/ EarlyStop(r)
      PROVE  s \in over \/ s \in stops
  BY <1>1, <1>4 DEF WindowEnds, TimerExpire, EarlyStop
<1>5. ASSUME NEW r \in Sessions, Tick(r)
      PROVE  \/ state.missing + 1 >= MaxSocMissing
             \/ HoldExhausted(state)
             \/ state.below + 1 >= FloorReadings
             \/ s \in Limited /\ state.feedin # NoBaseline
  <2>1. \/ TickAbort(r) \/ TickFeedinLimit(r)
        \/ TickSocMissing(r) \/ TickFloorConfirmed(r)
    BY <1>1, <1>5 DEF Tick, TickHold, TickDefer, TickStart, TickSuspend,
       TickStaySuspended, TickPace, TickAboveFloor, TickFloor, SessionGoesOn
  <2>2. CASE TickSocMissing(r)
    BY <1>1, <2>2 DEF TickSocMissing, SessionGoesOn
  <2>3. CASE TickFloorConfirmed(r)
    BY <1>1, <2>3 DEF TickFloorConfirmed, SessionGoesOn
  <2> QED BY <1>1, <2>1, <2>2, <2>3 DEF TickAbort, TickFeedinLimit, Runs
<1>6. CASE CleanupRetry \/ AdapterDown \/ AdapterUp
  BY <1>1, <1>6 DEF CleanupRetry, AdapterDown, AdapterUp
<1>7. ASSUME NEW c \in Calls, Effect(c) \/ Return(c)
      PROVE  UserActed
  <2>1. CASE FloorRemoved(c)
    <3>1. ~(state.below >= FloorReadings)
      BY <1>f, DischargeAssumption DEF FloorCounted, SessionDict
    <3> QED BY <1>1, <2>1, <3>1 DEF FloorRemoved
  <2>2. CASE ServiceApplied(c)
    <3>1. calls[c].pc = "serviceApply" /\ Leaves(c)
      BY <2>2 DEF ServiceApplied, Answered
    <3>2. calls'[c].pc = "idle"
      BY <3>1 DEF Leaves, Inv, TypeOK, Idle
    <3> QED BY <3>1, <3>2 DEF UserActed
  <2> QED BY <1>1, <1>7, <2>1, <2>2 DEF Effect, Return, OverridesCleared,
          CleanupRetried, Ended, SuspendRemoved, StartApplied, PowerApplied
<1> QED BY <1>2, <1>3, <1>4, <1>5, <1>6, <1>7 DEF Next

\* A session ends for a reason of its own or at the user's word: the timers,
\* stops and coroutines that earlier sessions leave behind never end it.
THEOREM EndsJustified == Spec => EndsForAReason
<1>1. Inv /\ [Next]_vars => EndJustified
  BY EndStep
<1> QED BY <1>1, InvHolds, PTL DEF Spec, EndsForAReason

-----------------------------------------------------------------------------
(* What each step does to the session's phase, the calls and the override *)

\* While an override is being applied no other call is in flight: an apply that
\* lands after a removal brings the override back, and a removal that lands
\* after an apply takes away what the session believes it has.
ApplyAlone ==
  \A c, d \in Calls : calls[c].pc \in Applies /\ calls[d].pc # "idle" => c = d

\* The override is off, or the failure of its removal is on record.
Off == inverter = None \/ pendingCleanup

\* The calls a pacing tick ends with.
PaceCalls == {"adjustApply", "holdApply", "selfUseApply"}

SameSuspension(d, e) == e.suspended = d.suspended /\ e.started = d.started

\* A coroutine that suspends takes an idle slot.
Takes(c, pc, s, p) ==
  /\ calls[c].pc = "idle"
  /\ calls'[c].pc = pc /\ calls'[c].sid = s /\ calls'[c].power = p
  /\ ~calls'[c].done
  /\ \A d \in Calls : d # c => calls'[d] = calls[d]

\* One that resumes leaves its slot idle, or goes on to another call.
Frees(c) ==
  /\ calls'[c].pc = "idle"
  /\ \A d \in Calls : d # c => calls'[d] = calls[d]

Turns(c, pc, s, p) ==
  /\ calls'[c].pc = pc /\ calls'[c].sid = s /\ calls'[c].power = p
  /\ ~calls'[c].done
  /\ \A d \in Calls : d # c => calls'[d] = calls[d]

LEMMA AwaitSlot ==
  ASSUME TypeOK, NEW pc, NEW s, NEW p, Await(pc, s, p)
  PROVE  \E c \in Calls : Takes(c, pc, s, p)
BY DEF TypeOK, Await, Takes, Call

LEMMA LeaveSlot ==
  ASSUME TypeOK, NEW c \in Calls, Leaves(c)
  PROVE  Frees(c)
BY DEF TypeOK, Leaves, Frees, Idle

LEMMA TurnSlot ==
  ASSUME TypeOK, NEW c \in Calls, NEW pc, NEW s, NEW p, GoesOn(c, Call(pc, s, p))
  PROVE  Turns(c, pc, s, p)
BY DEF TypeOK, GoesOn, Turns, Call

LEMMA PcsDiffer ==
  /\ Removals \cap Applies = {} /\ "idle" \notin Removals \cup Applies
  /\ Applies = {"serviceApply", "startApply", "adjustApply", "holdApply"}
  /\ "selfUseApply" \notin Removals \cup Applies
BY DEF Removals, Applies

\* The breaker and the floor leave the suspension alone, and so does what paces.
LEMMA SuspensionSteps ==
  ASSUME NEW d \in SessionDict
  PROVE  \A e \in {TickSucceeded(d), TickFailed(d), TickHeld(d), AboveFloor(d)} :
           SameSuspension(d, e)
BY DEF SessionDict, TickSucceeded, TickFailed, TickHeld, AboveFloor, SameSuspension

LEMMA PowerSuspension ==
  ASSUME NEW d \in SessionDict, NEW p \in Powers, NEW wasSuspended, NEW known,
         NEW a, a = ApplyDischargePower(d, p, wasSuspended, known)
  PROVE  SameSuspension(d, a.dict) /\ a.pc \in PaceCalls
<1>1. PICK q : a.dict = [d EXCEPT !.power = q] \/ a.dict = d
  BY DEF ApplyDischargePower
<1>2. a.pc \in PaceCalls
  BY DEF ApplyDischargePower, PaceCalls
<1> QED BY <1>1, <1>2 DEF SessionDict, SameSuspension

LEMMA MeteredSuspension ==
  ASSUME state \in SessionDict, NEW s, NEW known, NEW d \in Metered(s, state, known)
  PROVE  SameSuspension(state, d)
<1>1. \/ d = state
      \/ d = [state EXCEPT !.feedin = Baseline]
      \/ d = [state EXCEPT !.feedin = Observed]
      \/ d = [state EXCEPT !.stop = TRUE]
  BY DEF Metered
<1> QED BY <1>1 DEF SessionDict, SameSuspension

LEMMA NewNotSuspended == ~NoDict.suspended /\ \A p : ~NewSession(p).suspended
BY DEF NewSession, NoDict

\* The session ends: its dict is gone, and its override is being removed if it
\* had started.
Ends ==
  /\ CancelSmartDischarge /\ UNCHANGED device
  /\ Await("endRemove", session, 0) \/ (UNCHANGED calls /\ ~state.started)

LEMMA EndKinds ==
  ASSUME EndIfStarted \/ EndRemoving, UNCHANGED device
  PROVE  Ends
BY DEF EndIfStarted, EndRemoving, Ends

\* What a tick of session s is, in terms of the phase and the calls.
TickKind(s) ==
  \/ Ends
  \/ /\ UNCHANGED <<session, device, calls>>
     /\ state'.started = state.started /\ (state'.suspended => state.suspended)
  \/ /\ UNCHANGED <<session, device>> /\ SameSuspension(state, state')
     /\ Await("floorRemove", s, 0)
  \/ /\ UNCHANGED <<session, device, state>> /\ session = s /\ ~state.started
     /\ \E p \in Powers : Await("startApply", s, p)
  \/ /\ UNCHANGED <<session, device>> /\ state.started /\ state'.started
     /\ Await("suspendRemove", s, 0)
  \/ /\ UNCHANGED <<session, device>> /\ state.started /\ state'.started
     /\ ~state'.suspended
     /\ \E pc \in PaceCalls, p \in Powers \cup {0} : Await(pc, s, p)

LEMMA TickKinds ==
  ASSUME TypeOK, NEW s \in Sessions, Tick(s)
  PROVE  TickKind(s)
<1>d. state \in SessionDict
  BY DEF TypeOK
<1>m. ASSUME NEW d, NEW known, FeedinChecked(s, d, known)
      PROVE  d \in SessionDict /\ SameSuspension(state, d)
  BY <1>d, <1>m, MeteredDict, MeteredSuspension DEF FeedinChecked
<1>q. ASSUME UNCHANGED <<session, device, calls>>,
             state'.started = state.started, state'.suspended => state.suspended
      PROVE  TickKind(s)
  BY <1>q DEF TickKind
<1>e. ASSUME EndIfStarted \/ EndRemoving, UNCHANGED device
      PROVE  TickKind(s)
  BY <1>e, EndKinds DEF TickKind
<1>1. CASE TickHold(s) \/ TickDefer(s)
  <2>1. SameSuspension(state, state')
    BY <1>1, <1>d, SuspensionSteps DEF TickHold, TickDefer
  <2> QED BY <1>1, <2>1, <1>q DEF TickHold, TickDefer, SameSuspension
<1>2. CASE TickAbort(s) \/ TickFeedinLimit(s)
  BY <1>2, <1>e DEF TickAbort, TickFeedinLimit
<1>3. CASE TickStart(s)
  BY <1>3 DEF TickStart, TickKind, Runs
<1>4. CASE TickSocMissing(s)
  <2>1. CASE state.missing + 1 >= MaxSocMissing
    BY <1>4, <2>1, <1>e DEF TickSocMissing
  <2>2. CASE ~(state.missing + 1 >= MaxSocMissing)
    <3>1. PICK known, d :
            /\ FeedinChecked(s, d, known)
            /\ state' = TickSucceeded([d EXCEPT !.missing = @ + 1])
      BY <1>4, <2>2 DEF TickSocMissing
    <3> DEFINE e == [d EXCEPT !.missing = @ + 1]
    <3>2. d \in SessionDict /\ SameSuspension(state, d) /\ d.missing + 1 \in Nat
      BY <3>1, <1>m DEF SessionDict
    <3>3. e \in SessionDict
      BY <3>2, DictUpdates
    <3>4. SameSuspension(d, e)
      BY <3>2 DEF SessionDict, SameSuspension
    <3>5. state' = TickSucceeded(e)
      BY <3>1
    <3> HIDE DEF e
    <3>6. SameSuspension(state, state')
      BY <3>2, <3>3, <3>4, <3>5, SuspensionSteps DEF SameSuspension
    <3> QED BY <1>4, <2>2, <3>6, <1>q DEF TickSocMissing, SameSuspension, SessionGoesOn
  <2> QED BY <2>1, <2>2
<1>5. CASE TickSuspend(s)
  <2>1. PICK known, d :
          /\ FeedinChecked(s, d, known)
          /\ state' = [d EXCEPT !.missing = 0, !.suspended = TRUE]
    BY <1>5 DEF TickSuspend
  <2>2. d \in SessionDict /\ SameSuspension(state, d)
    BY <2>1, <1>m
  <2>3. state.started /\ state'.started
    BY <1>5, <2>1, <2>2 DEF TickSuspend, Paces, SameSuspension, SessionDict
  <2> QED BY <1>5, <2>3 DEF TickSuspend, TickKind, SessionGoesOn
<1>6. CASE TickStaySuspended(s)
  <2>1. PICK known, d :
          /\ FeedinChecked(s, d, known)
          /\ state' = TickSucceeded([d EXCEPT !.missing = 0])
    BY <1>6 DEF TickStaySuspended
  <2> DEFINE e == [d EXCEPT !.missing = 0]
  <2>2. d \in SessionDict /\ SameSuspension(state, d)
    BY <2>1, <1>m
  <2>3. e \in SessionDict /\ SameSuspension(d, e)
    BY <2>2, DictUpdates DEF SessionDict, SameSuspension
  <2>4. state' = TickSucceeded(e)
    BY <2>1
  <2> HIDE DEF e
  <2>5. SameSuspension(state, state')
    BY <2>2, <2>3, <2>4, SuspensionSteps DEF SameSuspension
  <2> QED BY <1>6, <2>5, <1>q DEF TickStaySuspended, SameSuspension, SessionGoesOn
<1>7. CASE TickPace(s)
  <2>0. PICK known \in BOOLEAN, p \in Powers :
          \E d \in Metered(s, state, known) :
            LET resumed == [d EXCEPT !.missing = 0, !.suspended = FALSE]
                a == ApplyDischargePower(resumed, p, d.suspended, known)
            IN FeedinChecked(s, d, known) /\ state' = a.dict /\ Await(a.pc, s, a.power)
    BY <1>7 DEF TickPace
  <2>1. PICK d \in Metered(s, state, known) :
          LET resumed == [d EXCEPT !.missing = 0, !.suspended = FALSE]
              a == ApplyDischargePower(resumed, p, d.suspended, known)
          IN FeedinChecked(s, d, known) /\ state' = a.dict /\ Await(a.pc, s, a.power)
    BY <2>0
  <2> DEFINE r == [d EXCEPT !.missing = 0, !.suspended = FALSE]
             a == ApplyDischargePower(r, p, d.suspended, known)
  <2>2. FeedinChecked(s, d, known) /\ state' = a.dict /\ Await(a.pc, s, a.power)
    BY <2>1
  <2>3. d \in SessionDict /\ SameSuspension(state, d) /\ state.started
    BY <1>7, <2>2, <1>m DEF TickPace, Paces
  <2>4. r \in SessionDict /\ ~r.suspended /\ r.started
    BY <2>3 DEF SessionDict, SameSuspension
  <2> HIDE DEF r
  <2>5. SameSuspension(r, a.dict) /\ a.pc \in PaceCalls
    BY <2>4, PowerSuspension
  <2>6. a.power \in Powers \cup {0}
    BY <2>4, PowerDict
  <2> HIDE DEF a
  <2>7. ~state'.suspended /\ state'.started
    BY <2>2, <2>4, <2>5 DEF SameSuspension
  <2> QED BY <1>7, <2>2, <2>3, <2>5, <2>6, <2>7 DEF TickPace, TickKind, SessionGoesOn
<1>8. CASE TickAboveFloor(s)
  <2>1. PICK known, d :
          /\ FeedinChecked(s, d, known)
          /\ state' = TickSucceeded(AboveFloor([d EXCEPT !.missing = 0,
                                                         !.suspended = FALSE]))
    BY <1>8 DEF TickAboveFloor
  <2> DEFINE e == [d EXCEPT !.missing = 0, !.suspended = FALSE]
  <2>2. d \in SessionDict /\ SameSuspension(state, d)
    BY <2>1, <1>m
  <2>3. e \in SessionDict /\ ~e.suspended /\ e.started = d.started
    BY <2>2 DEF SessionDict
  <2>4. state' = TickSucceeded(AboveFloor(e))
    BY <2>1
  <2> HIDE DEF e
  <2>5. ~state'.suspended /\ state'.started = state.started
    <3>1. AboveFloor(e) \in SessionDict /\ SameSuspension(e, AboveFloor(e))
      BY <2>3, FloorSteps, SuspensionSteps
    <3>2. SameSuspension(AboveFloor(e), state')
      BY <2>4, <3>1, SuspensionSteps
    <3> QED BY <2>2, <2>3, <3>1, <3>2 DEF SameSuspension
  <2> QED BY <1>8, <2>5, <1>q DEF TickAboveFloor, SessionGoesOn
<1>9. CASE TickFloor(s)
  <2>1. PICK known, d :
          /\ FeedinChecked(s, d, known)
          /\ state' = [d EXCEPT !.missing = 0, !.below = @ + 1, !.latch = TRUE]
    BY <1>9 DEF TickFloor
  <2>2. d \in SessionDict /\ SameSuspension(state, d)
    BY <2>1, <1>m
  <2>3. SameSuspension(state, state')
    BY <2>1, <2>2 DEF SessionDict, SameSuspension
  <2> QED BY <1>9, <2>3 DEF TickFloor, TickKind, SessionGoesOn
<1>10. CASE TickFloorConfirmed(s)
  <2>1. CASE state.below + 1 >= FloorReadings
    BY <1>10, <2>1, <1>e DEF TickFloorConfirmed
  <2>2. CASE ~(state.below + 1 >= FloorReadings)
    <3>1. PICK known, d :
            /\ FeedinChecked(s, d, known)
            /\ state' = TickSucceeded([d EXCEPT !.missing = 0, !.below = @ + 1])
      BY <1>10, <2>2 DEF TickFloorConfirmed
    <3> DEFINE e == [d EXCEPT !.missing = 0, !.below = @ + 1]
    <3>2. d \in SessionDict /\ SameSuspension(state, d)
      BY <3>1, <1>m
    <3>3. [d EXCEPT !.missing = 0] \in SessionDict /\ d.below + 1 \in Nat
      BY <3>2, DictUpdates DEF SessionDict
    <3>4. e \in SessionDict
      BY <3>2, <3>3, DictUpdates DEF SessionDict
    <3>5. SameSuspension(d, e)
      BY <3>2 DEF SessionDict, SameSuspension
    <3>6. state' = TickSucceeded(e)
      BY <3>1
    <3> HIDE DEF e
    <3>7. SameSuspension(state, state')
      BY <3>2, <3>4, <3>5, <3>6, SuspensionSteps DEF SameSuspension
    <3> QED BY <1>10, <2>2, <3>7, <1>q DEF TickFloorConfirmed, SameSuspension, SessionGoesOn
  <2> QED BY <2>1, <2>2
<1> QED BY <1>1, <1>2, <1>3, <1>4, <1>5, <1>6, <1>7, <1>8, <1>9, <1>10 DEF Tick

\* What a coroutine of slot c that resumes does, besides the two that finish
\* the start of a session.
ReturnKind(c) ==
  \/ /\ calls[c].pc \in (Removals \cup PaceCalls)
     /\ UNCHANGED <<session, inverter>> /\ SameSuspension(state, state')
     /\ (Off => Off') /\ (calls[c].pc \in {"suspendRemove", "endRemove"} => Off')
     /\ Leaves(c)
  \/ /\ calls[c].pc = "floorRemove" /\ UNCHANGED inverter
     /\ CancelSmartDischarge /\ GoesOn(c, Call("endRemove", calls[c].sid, 0))
  \/ /\ calls[c].pc = "suspendRemove"
     /\ UNCHANGED <<session, inverter>> /\ SameSuspension(state, state')
     /\ session # None /\ ~state.suspended /\ (Off => Off')
     /\ \E pc \in PaceCalls, p \in Powers \cup {0} :
          GoesOn(c, Call(pc, calls[c].sid, p))

\* A removal that reached the inverter has taken the override off.
RemovalsTake ==
  \A c \in Calls : calls[c].pc \in Removals /\ calls[c].done => inverter = None

\* A removal that is answered normally has reached the inverter; one that is not
\* is on record.
LEMMA RemovedOff ==
  ASSUME TypeOK, RemovalsTake, NEW c \in Calls, NEW pc \in Removals,
         OverrideRemoved(c, pc), UNCHANGED inverter
  PROVE  Off' /\ calls[c].pc = pc
BY DEF OverrideRemoved, Answered, RemovalsTake, Off, TypeOK

LEMMA ReturnKinds ==
  ASSUME TypeOK, RemovalsTake, NEW c \in Calls, Return(c)
  PROVE  ReturnKind(c) \/ ServiceApplied(c) \/ StartApplied(c)
<1>d. state \in SessionDict
  BY DEF TypeOK
<1>1. CASE OverridesCleared(c)
  BY <1>1 DEF OverridesCleared, Answered, ReturnKind, SameSuspension, Removals, Off, device
<1>2. CASE CleanupRetried(c)
  <2>1. PICK raised \in BOOLEAN :
          /\ Answered(c, "cleanupRemove", raised)
          /\ pendingCleanup' = (pendingCleanup /\ raised)
    BY <1>2 DEF CleanupRetried
  <2>2. calls[c].pc = "cleanupRemove" /\ UNCHANGED <<session, state, inverter>> /\ Leaves(c)
    BY <1>2, <2>1 DEF CleanupRetried, Answered
  <2>3. raised \/ inverter = None
    BY <2>1, <2>2 DEF Answered, RemovalsTake, Removals
  <2>4. Off => Off'
    BY <2>1, <2>2, <2>3 DEF Off
  <2> QED BY <2>2, <2>4 DEF ReturnKind, SameSuspension, Removals
<1>3. CASE Ended(c)
  <2>1. OverrideRemoved(c, "endRemove") /\ UNCHANGED <<session, state, inverter>> /\ Leaves(c)
    BY <1>3 DEF Ended
  <2>2. Off' /\ calls[c].pc = "endRemove"
    BY <2>1, RemovedOff DEF Removals
  <2> QED BY <2>1, <2>2 DEF ReturnKind, SameSuspension, Removals
<1>4. CASE FloorRemoved(c)
  <2>1. OverrideRemoved(c, "floorRemove") /\ UNCHANGED inverter
    BY <1>4 DEF FloorRemoved
  <2>2. Off' /\ calls[c].pc = "floorRemove"
    BY <2>1, RemovedOff DEF Removals
  <2>3. CASE CancelSmartDischarge /\ GoesOn(c, Call("endRemove", calls[c].sid, 0))
    BY <2>1, <2>2, <2>3 DEF ReturnKind
  <2>4. CASE WriteDict(calls[c].sid, TickSucceeded(state)) /\ Leaves(c) /\ UNCHANGED session
    <3>1. SameSuspension(state, state')
      BY <2>4, <1>d, SuspensionSteps DEF WriteDict, SameSuspension
    <3> QED BY <2>1, <2>2, <2>4, <3>1 DEF ReturnKind, Removals
  <2> QED BY <1>4, <2>3, <2>4 DEF FloorRemoved
<1>5. CASE SuspendRemoved(c)
  <2>1. OverrideRemoved(c, "suspendRemove") /\ UNCHANGED <<session, inverter>>
    BY <1>5 DEF SuspendRemoved
  <2>2. Off' /\ calls[c].pc = "suspendRemove"
    BY <2>1, RemovedOff DEF Removals
  <2>3. CASE /\ session = calls[c].sid /\ ~state.suspended
             /\ \E p \in Powers, known \in MeterKnown(calls[c].sid) :
                  LET a == ApplyDischargePower(state, p, FALSE, known)
                  IN state' = a.dict /\ GoesOn(c, Call(a.pc, calls[c].sid, a.power))
    <3>1. PICK p \in Powers, known \in MeterKnown(calls[c].sid) :
            LET a == ApplyDischargePower(state, p, FALSE, known)
            IN state' = a.dict /\ GoesOn(c, Call(a.pc, calls[c].sid, a.power))
      BY <2>3
    <3>2. PICK a : /\ a = ApplyDischargePower(state, p, FALSE, known)
                   /\ state' = a.dict /\ GoesOn(c, Call(a.pc, calls[c].sid, a.power))
      BY <3>1
    <3>3. SameSuspension(state, a.dict) /\ a.pc \in PaceCalls
      BY <1>d, <3>2, PowerSuspension
    <3>4. a.power \in Powers \cup {0}
      BY <1>d, <3>2, PowerDict
    <3>5. session # None
      BY <2>2, <2>3, OwnedCall DEF Owned
    <3>6. \E pc \in PaceCalls, q \in Powers \cup {0} :
            GoesOn(c, Call(pc, calls[c].sid, q))
      BY <3>2, <3>3, <3>4
    <3>7. SameSuspension(state, state')
      BY <3>2, <3>3
    <3> QED BY <2>1, <2>2, <2>3, <3>5, <3>6, <3>7 DEF ReturnKind
  <2>4. CASE WriteDict(calls[c].sid, TickSucceeded(state)) /\ Leaves(c)
    <3>1. SameSuspension(state, state')
      BY <2>4, <1>d, SuspensionSteps DEF WriteDict, SameSuspension
    <3> QED BY <2>1, <2>2, <2>4, <3>1 DEF ReturnKind, Removals
  <2> QED BY <1>5, <2>3, <2>4 DEF SuspendRemoved
<1>6. CASE PowerApplied(c)
  <2>1. PICK raised \in BOOLEAN, pc \in {"adjustApply", "holdApply", "selfUseApply"} :
          /\ Answered(c, pc, raised)
          /\ WriteDict(calls[c].sid, IF raised THEN TickFailed(state)
                                     ELSE TickSucceeded(AboveFloor(state)))
    BY <1>6 DEF PowerApplied
  <2>2. SameSuspension(state, state')
    <3>1. AboveFloor(state) \in SessionDict
      BY <1>d, FloorSteps
    <3>2. state' \in {state, TickFailed(state), TickSucceeded(AboveFloor(state))}
      BY <2>1 DEF WriteDict
    <3>3. SameSuspension(state, TickFailed(state)) /\ SameSuspension(state, AboveFloor(state))
      BY <1>d, SuspensionSteps
    <3>4. SameSuspension(AboveFloor(state), TickSucceeded(AboveFloor(state)))
      BY <3>1, SuspensionSteps
    <3> QED BY <3>2, <3>3, <3>4 DEF SameSuspension
  <2>3. calls[c].pc \in PaceCalls
    BY <2>1 DEF Answered, PaceCalls
  <2>4. Leaves(c) /\ UNCHANGED <<session, inverter, pendingCleanup>>
    BY <1>6 DEF PowerApplied, device
  <2> QED BY <2>2, <2>3, <2>4 DEF ReturnKind, Off, PaceCalls
<1> QED BY <1>1, <1>2, <1>3, <1>4, <1>5, <1>6 DEF Return

\* What happens to the calls in any step but one that reaches the inverter.
CallsMove ==
  \/ UNCHANGED calls
  \/ \E pc, s, p : Await(pc, s, p)
  \/ \E c \in Calls : Leaves(c) \/ \E pc, s, p : GoesOn(c, Call(pc, s, p))

LEMMA RemovalsTakeStep ==
  ASSUME TypeOK, RemovalsTake, ApplyAlone, [Next]_vars
  PROVE  RemovalsTake'
<1>1. CASE UNCHANGED inverter /\ CallsMove
  <2>1. CASE UNCHANGED calls
    BY <1>1, <2>1 DEF RemovalsTake
  <2>2. ASSUME NEW pc, NEW s, NEW p, Await(pc, s, p)
        PROVE  RemovalsTake'
    <3>1. PICK c \in Calls : Takes(c, pc, s, p)
      BY <2>2, AwaitSlot
    <3> QED BY <1>1, <3>1 DEF Takes, RemovalsTake
  <2>3. ASSUME NEW c \in Calls, Leaves(c)
        PROVE  RemovalsTake'
    BY <1>1, <2>3, LeaveSlot, PcsDiffer DEF Frees, RemovalsTake
  <2>4. ASSUME NEW c \in Calls, NEW pc, NEW s, NEW p, GoesOn(c, Call(pc, s, p))
        PROVE  RemovalsTake'
    BY <1>1, <2>4, TurnSlot DEF Turns, RemovalsTake
  <2> QED BY <1>1, <2>1, <2>2, <2>3, <2>4 DEF CallsMove
<1>2. ASSUME NEW c \in Calls, Effect(c)
      PROVE  RemovalsTake'
  <2>1. \A d \in Calls : calls'[d].pc = calls[d].pc
    BY <1>2 DEF Effect, TypeOK, CallRecord
  <2>2. CASE calls[c].pc \in Applies
    <3>1. \A d \in Calls : calls[d].pc \notin Removals
      BY <2>2, PcsDiffer DEF ApplyAlone
    <3> QED BY <2>1, <3>1 DEF RemovalsTake
  <2>3. CASE calls[c].pc \notin Applies
    BY <1>2, <2>3 DEF Effect, RemovalsTake
  <2> QED BY <2>2, <2>3
<1>3. CASE UNCHANGED vars
  BY <1>1, <1>3 DEF vars, CallsMove
<1>4. CASE User
  <2>1. ASSUME NEW s \in Sessions, StartDeferred(s)
        PROVE  UNCHANGED inverter /\ CallsMove
    BY <2>1 DEF StartDeferred, device, CallsMove
  <2>2. ASSUME NEW s \in Sessions, NEW p \in Powers, StartNow(s, p)
        PROVE  UNCHANGED inverter /\ CallsMove
    BY <2>2 DEF StartNow, device, CallsMove
  <2>3. CASE ClearOverrides
    BY <1>1, <2>3 DEF ClearOverrides, device, CallsMove
  <2> QED BY <1>1, <1>4, <2>1, <2>2, <2>3 DEF User
<1>5. ASSUME Ends
      PROVE  RemovalsTake'
  BY <1>1, <1>5 DEF Ends, device, CallsMove
<1>6. ASSUME NEW s \in Sessions, WindowEnds(s) \/ TimerExpire(s) \/ EarlyStop(s)
      PROVE  RemovalsTake'
  <2>1. Ends \/ UNCHANGED <<calls, device>>
    BY <1>6, EndKinds DEF WindowEnds, TimerExpire, EarlyStop
  <2> QED BY <1>1, <1>5, <2>1 DEF device, CallsMove
<1>7. ASSUME NEW s \in Sessions, Tick(s)
      PROVE  RemovalsTake'
  <2>1. TickKind(s)
    BY <1>7, TickKinds
  <2>2. Ends \/ (UNCHANGED inverter /\ CallsMove)
    BY <2>1 DEF TickKind, device, CallsMove
  <2> QED BY <1>1, <1>5, <2>2
<1>8. CASE CleanupRetry \/ AdapterDown \/ AdapterUp
  BY <1>1, <1>8 DEF CleanupRetry, AdapterDown, AdapterUp, device, CallsMove
<1>9. ASSUME NEW c \in Calls, Return(c)
      PROVE  RemovalsTake'
  <2>1. ReturnKind(c) \/ ServiceApplied(c) \/ StartApplied(c)
    BY <1>9, ReturnKinds
  <2>2. UNCHANGED inverter /\ CallsMove
    BY <2>1 DEF ReturnKind, ServiceApplied, StartApplied, device, CallsMove
  <2> QED BY <1>1, <2>2
<1> QED BY <1>2, <1>3, <1>4, <1>6, <1>7, <1>8, <1>9 DEF Next

LEMMA AloneInit == Init => RemovalsTake
BY DEF Init, RemovalsTake, Idle, Removals

-----------------------------------------------------------------------------
(* A suspended session *)

\* A suspended session has started; no power is being applied, and the override
\* is off, or being taken off, or left to the coordinator.
SuspendedOff ==
  state.suspended =>
    /\ state.started
    /\ \A c \in Calls : calls[c].pc \notin Applies
    /\ Off \/ \E c \in Calls : calls[c].pc = "suspendRemove"

\* The session stays suspended, or is not: no apply is issued, and the removal
\* goes on being awaited.
LEMMA StaysSuspended ==
  ASSUME SuspendedOff, state'.suspended => state.suspended,
         state'.started = state.started, Off => Off',
         \A c \in Calls : \/ calls'[c].pc = calls[c].pc
                          \/ /\ calls[c].pc = "suspendRemove" => Off'
                             /\ calls'[c].pc \notin Applies
  PROVE  SuspendedOff'
BY DEF SuspendedOff

LEMMA NotSuspended ==
  ASSUME ~state'.suspended
  PROVE  SuspendedOff'
BY DEF SuspendedOff

LEMMA SuspendedStep ==
  ASSUME TypeOK, RemovalsTake, SuspendedOff, ApplyAlone, ApplyAlone', [Next]_vars
  PROVE  SuspendedOff'
<1>1. CASE UNCHANGED vars
  BY <1>1 DEF vars, SuspendedOff, Off
<1>2. CASE CancelSmartDischarge
  BY <1>2, NewNotSuspended, NotSuspended DEF CancelSmartDischarge
<1>3. CASE User
  BY <1>2, <1>3, NewNotSuspended, NotSuspended
     DEF User, StartDeferred, StartNow, ClearOverrides, SetUpListeners
<1>4. ASSUME NEW s \in Sessions, WindowEnds(s) \/ TimerExpire(s) \/ EarlyStop(s)
      PROVE  SuspendedOff'
  <2>1. CancelSmartDischarge \/ UNCHANGED <<state, calls, device>>
    BY <1>4 DEF WindowEnds, TimerExpire, EarlyStop, EndIfStarted, EndRemoving
  <2> QED BY <1>2, <2>1 DEF device, SuspendedOff, Off
<1>a. ASSUME NEW pc, NEW s, NEW p, Await(pc, s, p), pc \notin Applies,
             UNCHANGED device, SameSuspension(state, state')
      PROVE  SuspendedOff'
  <2>1. PICK c \in Calls : Takes(c, pc, s, p)
    BY <1>a, AwaitSlot
  <2> QED BY <1>a, <2>1, StaysSuspended DEF Takes, device, Off, SameSuspension
<1>5. ASSUME NEW s \in Sessions, Tick(s)
      PROVE  SuspendedOff'
  <2>1. TickKind(s)
    BY <1>5, TickKinds
  <2>2. CASE Ends
    BY <1>2, <2>2 DEF Ends
  <2>3. CASE /\ UNCHANGED <<session, device, calls>>
             /\ state'.started = state.started /\ (state'.suspended => state.suspended)
    BY <2>3, StaysSuspended DEF device, Off
  <2>4. CASE /\ UNCHANGED <<session, device>> /\ SameSuspension(state, state')
             /\ Await("floorRemove", s, 0)
    BY <1>a, <2>4 DEF Applies
  <2>5. CASE /\ UNCHANGED <<session, device, state>> /\ session = s /\ ~state.started
             /\ \E p \in Powers : Await("startApply", s, p)
    BY <2>5, NotSuspended DEF SuspendedOff
  <2>6. CASE /\ UNCHANGED <<session, device>> /\ state.started /\ state'.started
             /\ Await("suspendRemove", s, 0)
    <3>1. PICK c \in Calls : Takes(c, "suspendRemove", s, 0)
      BY <2>6, AwaitSlot
    <3>2. calls'[c].pc = "suspendRemove"
      BY <3>1 DEF Takes
    <3>3. \A d \in Calls : calls'[d].pc \notin Applies
      BY <3>2, PcsDiffer DEF ApplyAlone, Applies
    <3> QED BY <2>6, <3>2, <3>3 DEF SuspendedOff
  <2>7. CASE ~state'.suspended
    BY <2>7, NotSuspended
  <2> QED BY <2>1, <2>2, <2>3, <2>4, <2>5, <2>6, <2>7 DEF TickKind
<1>6. CASE CleanupRetry
  BY <1>6, <1>a DEF CleanupRetry, Applies, SameSuspension
<1>7. CASE AdapterDown \/ AdapterUp
  BY <1>7 DEF AdapterDown, AdapterUp, device, SuspendedOff, Off
<1>8. ASSUME NEW c \in Calls, Effect(c)
      PROVE  SuspendedOff'
  <2>1. \A d \in Calls : calls'[d].pc = calls[d].pc
    BY <1>8 DEF Effect, TypeOK, CallRecord
  <2>2. CASE calls[c].pc \in Applies
    BY <1>8, <2>2, NotSuspended DEF Effect, SuspendedOff
  <2>3. CASE calls[c].pc \notin Applies
    BY <1>8, <2>1, <2>3 DEF Effect, SuspendedOff, Off
  <2> QED BY <2>2, <2>3
<1>9. ASSUME NEW c \in Calls, Return(c)
      PROVE  SuspendedOff'
  <2>1. ReturnKind(c) \/ ServiceApplied(c) \/ StartApplied(c)
    BY <1>9, ReturnKinds
  <2>2. ASSUME SameSuspension(state, state'), Off => Off',
               calls[c].pc = "suspendRemove" => Off', Leaves(c)
        PROVE  SuspendedOff'
    <3>1. Frees(c)
      BY <2>2, LeaveSlot
    <3>2. calls'[c].pc \notin Applies
      BY <3>1, PcsDiffer DEF Frees
    <3> QED BY <2>2, <3>1, <3>2, StaysSuspended DEF Frees, SameSuspension
  <2>3. CASE ReturnKind(c)
    BY <1>2, <2>2, <2>3, NotSuspended DEF ReturnKind, SameSuspension
  <2>4. CASE ServiceApplied(c)
    <3>1. ~state.suspended
      BY <2>4 DEF ServiceApplied, Answered, Applies, SuspendedOff
    <3> QED BY <2>4, <3>1, NewNotSuspended, NotSuspended DEF ServiceApplied, SetUpListeners
  <2>5. CASE StartApplied(c)
    <3> DEFINE d == [state EXCEPT !.started = TRUE, !.power = calls[c].power]
    <3>1. PICK raised \in BOOLEAN :
            /\ Answered(c, "startApply", raised)
            /\ WriteDict(calls[c].sid, IF raised THEN TickFailed(state) ELSE TickSucceeded(d))
      BY <2>5 DEF StartApplied
    <3>2. ~state.suspended /\ calls[c].power \in Powers \cup {0} /\ state \in SessionDict
      BY <3>1, OwnedCall DEF Answered, Applies, Owned, SuspendedOff, TypeOK
    <3>3. [state EXCEPT !.started = TRUE] \in SessionDict
      BY <3>2, DictUpdates
    <3>4. d \in SessionDict
      BY <3>2, <3>3, DictUpdates
    <3>5. d.suspended = state.suspended
      BY <3>2 DEF SessionDict
    <3> HIDE DEF d
    <3>6. state' \in {state, TickFailed(state), TickSucceeded(d)}
      BY <3>1 DEF WriteDict
    <3>7. ~state'.suspended
      BY <3>2, <3>4, <3>5, <3>6, SuspensionSteps DEF SameSuspension
    <3> QED BY <3>7, NotSuspended
  <2> QED BY <2>1, <2>3, <2>4, <2>5
<1> QED BY <1>1, <1>3, <1>4, <1>5, <1>6, <1>7, <1>8, <1>9 DEF Next

\* While an override is applied only with no other call in flight, a suspended
\* session does not force the battery to discharge once its calls are answered,
\* whichever of them was refused or lost its reply, unless the coordinator
\* still has to remove the override.
THEOREM SuspensionStops == Spec /\ []ApplyAlone => []SuspensionStopsDischarge
<1>1. Init => SuspendedOff
  BY NewNotSuspended DEF Init, SuspendedOff
<1>2. TypeOK /\ RemovalsTake /\ ApplyAlone /\ [Next]_vars => RemovalsTake'
  BY RemovalsTakeStep
<1>3. TypeOK /\ RemovalsTake /\ SuspendedOff /\ ApplyAlone /\ ApplyAlone' /\ [Next]_vars
        => SuspendedOff'
  BY SuspendedStep
<1>4. SuspendedOff => SuspensionStopsDischarge
  BY DEF SuspendedOff, SuspensionStopsDischarge, Quiet, Off
<1> QED BY <1>1, <1>2, <1>3, <1>4, AloneInit, TypeCorrect, PTL DEF Spec

-----------------------------------------------------------------------------
(* What a session leaves behind *)

\* The calls of a session that has started.
StartedCalls == PaceCalls \cup {"suspendRemove"}

\* A session that starts deferred finds no override on the inverter, or one that
\* is being removed or is on record, and no other session at work on it: it
\* knows nothing of an override it did not set.
BeginsAttended ==
  used' # used /\ session' # None =>
    Attended /\ \A c \in Calls : calls[c].pc \notin Applies \cup StartedCalls

Starting(c) == calls[c].pc = "startApply" /\ calls[c].sid = session

\* A session that has not started has no override, or one that is being removed
\* or is on record, unless it is starting.
DeferredOff ==
  session # None /\ ~state.started => Attended \/ \E c \in Calls : Starting(c)

\* What each call in flight says of the session and of the inverter.
CallAgrees(c) ==
  /\ calls[c].pc = "startApply" /\ session # None =>
       calls[c].sid = session /\ (~calls[c].done => Off)
  /\ calls[c].pc \in StartedCalls /\ session # None => state.started
  /\ calls[c].pc = "serviceApply" => session = None /\ calls[c].power # 0

\* With RemovalsTake, the inductive invariant behind ListenerCleansUp.
CleanInv == DeferredOff /\ \A c \in Calls : CallAgrees(c)

LEMMA StartedPcs ==
  /\ StartedCalls \cap {"idle", "serviceApply", "startApply", "endRemove", "floorRemove",
                        "clearRemove", "cleanupRemove"} = {}
  /\ PaceCalls \subseteq StartedCalls /\ "suspendRemove" \in StartedCalls
  /\ Applies \subseteq StartedCalls \cup {"serviceApply", "startApply"}
BY DEF StartedCalls, PaceCalls, Applies

\* With no session, only the service handlers' calls are left to keep.
LEMMA EndedClean ==
  ASSUME TypeOK, CleanInv, session' = None,
         \/ UNCHANGED calls
         \/ \E pc, s, p : Await(pc, s, p) /\ (pc = "serviceApply" => p # 0)
         \/ \E c \in Calls : \E s : GoesOn(c, Call("endRemove", s, 0))
  PROVE  CleanInv'
<1>1. CASE UNCHANGED calls
  BY <1>1 DEF CleanInv, DeferredOff, CallAgrees
<1>2. ASSUME NEW pc, NEW s, NEW p, Await(pc, s, p), pc = "serviceApply" => p # 0
      PROVE  CleanInv'
  <2>1. PICK c \in Calls : Takes(c, pc, s, p)
    BY <1>2, AwaitSlot
  <2> QED BY <1>2, <2>1 DEF Takes, CleanInv, DeferredOff, CallAgrees
<1>3. ASSUME NEW c \in Calls, NEW s, GoesOn(c, Call("endRemove", s, 0))
      PROVE  CleanInv'
  <2>1. Turns(c, "endRemove", s, 0)
    BY <1>3, TurnSlot
  <2> QED BY <2>1 DEF Turns, CleanInv, DeferredOff, CallAgrees
<1> QED BY <1>1, <1>2, <1>3

\* A step that neither calls nor starts anything.
LEMMA SameClean ==
  ASSUME CleanInv, UNCHANGED <<session, calls, device>>, state'.started = state.started
  PROVE  CleanInv'
BY DEF CleanInv, DeferredOff, CallAgrees, Off, Starting, Attended, device

\* A tick, or the coordinator's retry, makes a call.
LEMMA AwaitClean ==
  ASSUME TypeOK, CleanInv, ApplyAlone', NEW pc, NEW s, NEW p, Await(pc, s, p),
         UNCHANGED <<session, device>>, state'.started = state.started,
         \/ pc \in {"floorRemove", "cleanupRemove"}
         \/ pc \in StartedCalls /\ state.started
         \/ pc = "startApply" /\ s = session /\ ~state.started
  PROVE  CleanInv'
<1>1. PICK c \in Calls : Takes(c, pc, s, p)
  BY AwaitSlot
<1>2. DeferredOff'
  BY <1>1, PcsDiffer DEF CleanInv, DeferredOff, Attended, Starting, device, Takes
<1>3. pc = "startApply" /\ session # None => Off
  BY <1>1, PcsDiffer, StartedPcs
     DEF CleanInv, DeferredOff, Attended, Off, Starting, ApplyAlone, Takes
<1>4. CallAgrees(c)'
  BY <1>1, <1>3, StartedPcs DEF CallAgrees, Off, device, Takes
<1>5. ASSUME NEW d \in Calls, d # c
      PROVE  CallAgrees(d)'
  BY <1>1, <1>5 DEF CallAgrees, CleanInv, Off, device, Takes
<1> QED BY <1>2, <1>4, <1>5 DEF CleanInv

\* A coroutine resumes, is not the one that starts the session, and leaves the
\* session in its phase.
LEMMA ResumeClean ==
  ASSUME TypeOK, CleanInv, NEW c \in Calls, Leaves(c), calls[c].pc # "startApply",
         UNCHANGED <<session, inverter>>, Off => Off', calls[c].pc = "endRemove" => Off',
         state'.started = state.started
  PROVE  CleanInv'
<1>1. Frees(c)
  BY LeaveSlot
<1>2. DeferredOff'
  BY <1>1 DEF CleanInv, DeferredOff, Starting, Attended, Off, Frees
<1>3. CallAgrees(c)'
  BY <1>1, StartedPcs DEF CallAgrees, Frees
<1>4. ASSUME NEW d \in Calls, d # c
      PROVE  CallAgrees(d)'
  BY <1>1, <1>4 DEF CallAgrees, CleanInv, Frees
<1> QED BY <1>2, <1>3, <1>4 DEF CleanInv

LEMMA CleanStep ==
  ASSUME TypeOK, RemovalsTake, CleanInv, ApplyAlone, ApplyAlone', "lostReply" \notin Faults,
         [Next]_vars, [BeginsAttended]_vars
  PROVE  CleanInv'
<1>d. state \in SessionDict
  BY DEF TypeOK
<1>1. CASE UNCHANGED vars
  BY <1>1, SameClean DEF vars, device
<1>2. CASE User
  <2>1. BeginsAttended
    BY DEF BeginsAttended, vars
  <2>2. ASSUME NEW s \in Sessions, StartDeferred(s)
        PROVE  CleanInv'
    <3>1. used' # used /\ session' # None
      BY <2>2, DischargeAssumption DEF StartDeferred, SetUpListeners
    <3>2. Attended /\ \A c \in Calls : calls[c].pc \notin Applies \cup StartedCalls
      BY <2>1, <3>1 DEF BeginsAttended
    <3>3. UNCHANGED <<calls, device>>
      BY <2>2 DEF StartDeferred
    <3> QED BY <3>2, <3>3, PcsDiffer DEF CleanInv, DeferredOff, CallAgrees, Attended, device
  <2>3. ASSUME NEW s \in Sessions, NEW p \in Powers, StartNow(s, p)
        PROVE  CleanInv'
    <3>1. session' = None /\ Await("serviceApply", s, p) /\ p # 0
      BY <2>3, DischargeAssumption DEF StartNow, CancelSmartDischarge
    <3> QED BY <3>1, EndedClean
  <2>4. CASE ClearOverrides
    <3>1. session' = None /\ Await("clearRemove", None, 0)
      BY <2>4 DEF ClearOverrides, CancelSmartDischarge
    <3> QED BY <3>1, EndedClean
  <2> QED BY <1>2, <2>2, <2>3, <2>4 DEF User
<1>e. ASSUME Ends PROVE CleanInv'
  <2>1. session' = None /\ (UNCHANGED calls \/ Await("endRemove", session, 0))
    BY <1>e DEF Ends, CancelSmartDischarge
  <2> QED BY <2>1, EndedClean
<1>3. ASSUME NEW s \in Sessions, WindowEnds(s) \/ TimerExpire(s) \/ EarlyStop(s)
      PROVE  CleanInv'
  <2>1. Ends \/ UNCHANGED <<session, state, calls, device>>
    BY <1>3, EndKinds DEF WindowEnds, TimerExpire, EarlyStop
  <2> QED BY <1>e, <2>1, SameClean
<1>4. ASSUME NEW s \in Sessions, Tick(s)
      PROVE  CleanInv'
  <2>1. TickKind(s)
    BY <1>4, TickKinds
  <2>2. CASE /\ UNCHANGED <<session, device, calls>>
             /\ state'.started = state.started /\ (state'.suspended => state.suspended)
    BY <2>2, SameClean
  <2>3. CASE /\ UNCHANGED <<session, device>> /\ SameSuspension(state, state')
             /\ Await("floorRemove", s, 0)
    BY <2>3, AwaitClean DEF SameSuspension
  <2>4. CASE /\ UNCHANGED <<session, device, state>> /\ session = s /\ ~state.started
             /\ \E p \in Powers : Await("startApply", s, p)
    <3>1. PICK p \in Powers : Await("startApply", s, p)
      BY <2>4
    <3> QED BY <2>4, <3>1, AwaitClean
  <2>5. CASE /\ UNCHANGED <<session, device>> /\ state.started /\ state'.started
             /\ Await("suspendRemove", s, 0)
    <3>1. state'.started = state.started
      BY <1>d, <2>5, TypeStep DEF TypeOK, SessionDict
    <3> QED BY <2>5, <3>1, AwaitClean, StartedPcs
  <2>6. CASE /\ UNCHANGED <<session, device>> /\ state.started /\ state'.started
             /\ ~state'.suspended
             /\ \E pc \in PaceCalls, p \in Powers \cup {0} : Await(pc, s, p)
    <3>1. PICK pc \in PaceCalls, p \in Powers \cup {0} : Await(pc, s, p)
      BY <2>6
    <3>2. state'.started = state.started
      BY <1>d, <2>6, TypeStep DEF TypeOK, SessionDict
    <3> QED BY <2>6, <3>1, <3>2, AwaitClean, StartedPcs
  <2> QED BY <1>e, <2>1, <2>2, <2>3, <2>4, <2>5, <2>6 DEF TickKind
<1>5. CASE CleanupRetry
  BY <1>5, AwaitClean DEF CleanupRetry
<1>6. CASE AdapterDown \/ AdapterUp
  BY <1>6, SameClean DEF AdapterDown, AdapterUp
<1>7. ASSUME NEW c \in Calls, Effect(c)
      PROVE  CleanInv'
  <2>1. /\ calls[c].pc # "idle"
        /\ calls'[c].pc = calls[c].pc /\ calls'[c].sid = calls[c].sid
        /\ calls'[c].power = calls[c].power /\ calls'[c].done
        /\ \A d \in Calls : d # c => calls'[d] = calls[d]
        /\ UNCHANGED <<session, state, pendingCleanup>>
        /\ inverter' = IF calls[c].pc \in Applies THEN calls[c].power ELSE None
    BY <1>7 DEF Effect, TypeOK, CallRecord
  <2>2. CASE calls[c].pc \in Applies
    <3>1. \A d \in Calls : d # c => calls[d].pc = "idle"
      BY <2>2 DEF ApplyAlone
    <3>2. CallAgrees(c)'
      BY <2>1 DEF CleanInv, CallAgrees
    <3>3. ASSUME NEW d \in Calls, d # c
          PROVE  CallAgrees(d)'
      BY <2>1, <3>1, <3>3, StartedPcs DEF CallAgrees
    <3>4. DeferredOff'
      <4>1. SUFFICES ASSUME session # None, ~state.started
                     PROVE  Starting(c)'
        BY <2>1 DEF DeferredOff
      <4>2. calls[c].pc = "startApply" /\ calls[c].sid = session
        BY <2>2, <4>1, StartedPcs DEF CleanInv, CallAgrees
      <4> QED BY <2>1, <4>2 DEF Starting
    <3> QED BY <3>2, <3>3, <3>4 DEF CleanInv
  <2>3. CASE calls[c].pc \notin Applies
    <3>1. inverter' = None
      BY <2>1, <2>3
    <3>2. DeferredOff'
      BY <3>1 DEF DeferredOff, Attended
    <3>3. CallAgrees(c)'
      BY <2>1, <3>1 DEF CallAgrees, CleanInv, Off
    <3>4. ASSUME NEW d \in Calls, d # c
          PROVE  CallAgrees(d)'
      BY <2>1, <3>1, <3>4 DEF CleanInv, CallAgrees, Off
    <3> QED BY <3>2, <3>3, <3>4 DEF CleanInv
  <2> QED BY <2>2, <2>3
<1>8. ASSUME NEW c \in Calls, Return(c)
      PROVE  CleanInv'
  <2>1. ReturnKind(c) \/ ServiceApplied(c) \/ StartApplied(c)
    BY <1>8, ReturnKinds
  <2>a. CallAgrees(c)
    BY DEF CleanInv
  <2>2. CASE ReturnKind(c)
    <3>1. CASE /\ calls[c].pc \in (Removals \cup PaceCalls)
               /\ UNCHANGED <<session, inverter>> /\ SameSuspension(state, state')
               /\ (Off => Off') /\ (calls[c].pc = "endRemove" => Off') /\ Leaves(c)
      <4>1. calls[c].pc # "startApply"
        BY <3>1 DEF Removals, PaceCalls
      <4> QED BY <3>1, <4>1, ResumeClean DEF SameSuspension
    <3>2. CASE CancelSmartDischarge /\ GoesOn(c, Call("endRemove", calls[c].sid, 0))
      <4>1. session' = None
        BY <3>2 DEF CancelSmartDischarge
      <4> QED BY <3>2, <4>1, EndedClean
    <3>3. CASE /\ calls[c].pc = "suspendRemove"
               /\ UNCHANGED <<session, inverter>> /\ SameSuspension(state, state')
               /\ session # None /\ ~state.suspended /\ (Off => Off')
               /\ \E pc \in PaceCalls, p \in Powers \cup {0} :
                    GoesOn(c, Call(pc, calls[c].sid, p))
      <4>1. PICK pc \in PaceCalls, p \in Powers \cup {0} :
              GoesOn(c, Call(pc, calls[c].sid, p))
        BY <3>3
      <4>2. Turns(c, pc, calls[c].sid, p)
        BY <4>1, TurnSlot
      <4>3. state'.started
        BY <2>a, <3>3, StartedPcs DEF CallAgrees, SameSuspension
      <4>4. CallAgrees(c)'
        BY <3>3, <4>1, <4>2, <4>3, StartedPcs DEF CallAgrees, Turns
      <4>5. ASSUME NEW d \in Calls, d # c
            PROVE  CallAgrees(d)'
        BY <3>3, <4>2, <4>3, <4>5 DEF CallAgrees, CleanInv, Turns
      <4> QED BY <4>3, <4>4, <4>5 DEF CleanInv, DeferredOff
    <3> QED BY <2>2, <3>1, <3>2, <3>3 DEF ReturnKind
  <2>3. CASE ServiceApplied(c)
    <3>1. PICK raised \in BOOLEAN :
            /\ Answered(c, "serviceApply", raised)
            /\ IF raised THEN UNCHANGED <<session, state, timers, stored>>
               ELSE SetUpListeners(calls[c].sid, calls[c].power, {})
      BY <2>3 DEF ServiceApplied
    <3>2. calls[c].pc = "serviceApply" /\ session = None /\ calls[c].power # 0
      BY <2>a, <3>1 DEF CallAgrees, Answered
    <3>3. CASE raised
      BY <2>3, <3>1, <3>2, <3>3, ResumeClean DEF ServiceApplied, Off, device
    <3>4. CASE ~raised
      <4>1. state' = NewSession(calls[c].power)
        BY <3>1, <3>4 DEF SetUpListeners
      <4>2. state'.started
        BY <3>2, <4>1 DEF NewSession
      <4>3. Frees(c)
        BY <2>3, LeaveSlot DEF ServiceApplied
      <4>4. \A d \in Calls : calls'[d].pc = "idle"
        BY <3>2, <4>3 DEF ApplyAlone, Applies, Frees
      <4> QED BY <4>2, <4>4, StartedPcs DEF CleanInv, DeferredOff, CallAgrees
    <3> QED BY <3>3, <3>4
  <2>4. CASE StartApplied(c)
    <3> DEFINE e == [state EXCEPT !.started = TRUE, !.power = calls[c].power]
    <3>1. PICK raised \in BOOLEAN :
            /\ Answered(c, "startApply", raised)
            /\ WriteDict(calls[c].sid, IF raised THEN TickFailed(state) ELSE TickSucceeded(e))
      BY <2>4 DEF StartApplied
    <3>2. /\ UNCHANGED <<session, inverter, pendingCleanup>>
          /\ calls[c].pc = "startApply" /\ Frees(c)
      BY <2>4, <3>1, LeaveSlot DEF StartApplied, Answered, device
    <3>3. \A d \in Calls : calls'[d].pc = "idle"
      BY <3>2 DEF ApplyAlone, Applies, Frees
    <3>4. calls[c].power \in Powers \cup {0}
      BY <3>2, OwnedCall DEF Owned, Applies
    <3>5. [state EXCEPT !.started = TRUE] \in SessionDict
      BY <1>d, DictUpdates
    <3>6. e \in SessionDict
      BY <3>4, <3>5, DictUpdates
    <3>7. e.started
      BY <1>d DEF SessionDict
    <3> HIDE DEF e
    <3>8. ASSUME session # None, ~state'.started
          PROVE  Off'
      <4>1. calls[c].sid = session /\ (~calls[c].done => Off)
        BY <2>a, <3>2, <3>8 DEF CallAgrees
      <4>2. ~raised => state'.started
        BY <3>1, <3>6, <3>7, <4>1, SuspensionSteps DEF WriteDict, SameSuspension
      <4>3. raised /\ ~calls[c].done
        BY <3>1, <3>8, <4>2 DEF Answered
      <4> QED BY <3>2, <4>1, <4>3 DEF Off
    <3> QED BY <3>2, <3>3, <3>8, StartedPcs DEF CleanInv, DeferredOff, CallAgrees, Attended, Off
  <2> QED BY <2>1, <2>2, <2>3, <2>4
<1> QED BY <1>1, <1>2, <1>3, <1>4, <1>5, <1>6, <1>7, <1>8 DEF Next

LEMMA EndAttended ==
  ASSUME TypeOK, CleanInv, session # None, Ends
  PROVE  Attended' \/ \E c \in Calls : Starting(c)
<1>1. CASE Await("endRemove", session, 0)
  <2>1. PICK c \in Calls : Takes(c, "endRemove", session, 0)
    BY <1>1, AwaitSlot
  <2> QED BY <2>1 DEF Takes, Attended
<1>2. CASE UNCHANGED calls /\ ~state.started
  BY <1>2 DEF Ends, CleanInv, DeferredOff, Attended, device
<1> QED BY <1>1, <1>2 DEF Ends

\* A step that ends a session is one of Ends, or the user's, or that of a floor
\* tick that goes on to the removal.
LEMMA EndsByItself ==
  ASSUME TypeOK, RemovalsTake, [Next]_vars, session # None, session' = None, ~UserActed
  PROVE  Ends \/ Attended'
<1>1. CASE UNCHANGED vars
  BY <1>1 DEF vars
<1>2. CASE User
  <2>1. CASE ClearOverrides
    BY <2>1, AwaitActs DEF ClearOverrides
  <2>2. CASE used' # used
    BY <2>2 DEF UserActed
  <2>3. ASSUME NEW s \in Sessions, StartDeferred(s)
        PROVE  used' # used
    BY <2>3 DEF StartDeferred
  <2>4. ASSUME NEW s \in Sessions, NEW p \in Powers, StartNow(s, p)
        PROVE  used' # used
    BY <2>4 DEF StartNow
  <2> QED BY <1>2, <2>1, <2>2, <2>3, <2>4 DEF User
<1>3. ASSUME NEW s \in Sessions, WindowEnds(s) \/ TimerExpire(s) \/ EarlyStop(s)
      PROVE  Ends
  BY <1>3, EndKinds DEF WindowEnds, TimerExpire, EarlyStop
<1>4. ASSUME NEW s \in Sessions, Tick(s)
      PROVE  Ends
  BY <1>4, TickKinds DEF TickKind
<1>5. CASE CleanupRetry \/ AdapterDown \/ AdapterUp
  BY <1>5 DEF CleanupRetry, AdapterDown, AdapterUp
<1>6. ASSUME NEW c \in Calls, Effect(c)
      PROVE  FALSE
  BY <1>6 DEF Effect
<1>7. ASSUME NEW c \in Calls, Return(c)
      PROVE  Attended'
  <2>1. CASE ServiceApplied(c)
    <3>1. calls[c].pc = "serviceApply"
      BY <2>1 DEF ServiceApplied, Answered
    <3>2. Frees(c)
      BY <2>1, LeaveSlot DEF ServiceApplied
    <3> QED BY <3>1, <3>2 DEF Frees, UserActed
  <2>2. CASE StartApplied(c)
    BY <2>2 DEF StartApplied
  <2>3. CASE ReturnKind(c)
    <3>1. GoesOn(c, Call("endRemove", calls[c].sid, 0))
      BY <2>3 DEF ReturnKind
    <3>2. Turns(c, "endRemove", calls[c].sid, 0)
      BY <3>1, TurnSlot
    <3> QED BY <3>2 DEF Turns, Attended
  <2> QED BY <1>7, <2>1, <2>2, <2>3, ReturnKinds
<1> QED BY <1>1, <1>2, <1>3, <1>4, <1>5, <1>6, <1>7 DEF Next

\* The removal at the end of a session returns when the override is off, or
\* leaves a record of its failure.
LEMMA RemovalAttended ==
  ASSUME TypeOK, RemovalsTake, [Next]_vars, NEW c \in Calls,
         calls[c].pc = "endRemove", calls'[c].pc = "idle"
  PROVE  Attended'
<1>1. calls' # calls
  OBVIOUS
<1>2. \A pc, s, p : ~Await(pc, s, p)
  <2>1. SUFFICES ASSUME NEW pc, NEW s, NEW p, Await(pc, s, p)
                 PROVE  FALSE
    OBVIOUS
  <2>2. PICK d \in Calls : Takes(d, pc, s, p)
    BY <2>1, AwaitSlot
  <2> QED BY <2>2 DEF Takes
<1>3. ~Ends
  BY <1>1, <1>2 DEF Ends
<1>4. ~User
  BY <1>1, <1>2 DEF User, StartDeferred, StartNow, ClearOverrides
<1>5. \A s \in Sessions : ~WindowEnds(s) /\ ~TimerExpire(s) /\ ~EarlyStop(s)
  BY <1>1, <1>2 DEF WindowEnds, TimerExpire, EarlyStop, EndIfStarted, EndRemoving
<1>6. ASSUME NEW s \in Sessions, Tick(s)
      PROVE  FALSE
  BY <1>1, <1>2, <1>3, <1>6, TickKinds DEF TickKind
<1>7. ~CleanupRetry /\ ~AdapterDown /\ ~AdapterUp
  BY <1>1, <1>2 DEF CleanupRetry, AdapterDown, AdapterUp
<1>8. ASSUME NEW d \in Calls, Effect(d)
      PROVE  FALSE
  <2>1. calls'[c].pc = calls[c].pc
    BY <1>8 DEF Effect, TypeOK, CallRecord
  <2> QED BY <2>1
<1>9. PICK d \in Calls : Return(d)
  BY <1>1, <1>4, <1>5, <1>6, <1>7, <1>8 DEF Next, vars
<1>10. d = c
  <2>1. Leaves(d) \/ \E pc, s, p : GoesOn(d, Call(pc, s, p))
    BY <1>9, ReturnKinds DEF ReturnKind, ServiceApplied, StartApplied
  <2>2. \A e \in Calls : e # d => calls'[e] = calls[e]
    <3>1. CASE Leaves(d)
      BY <3>1, LeaveSlot DEF Frees
    <3>2. ASSUME NEW pc, NEW s, NEW p, GoesOn(d, Call(pc, s, p))
          PROVE  \A e \in Calls : e # d => calls'[e] = calls[e]
      BY <3>2, TurnSlot DEF Turns
    <3> QED BY <2>1, <3>1, <3>2
  <2> QED BY <2>2
<1>11. Ended(c)
  BY <1>9, <1>10 DEF Return, ServiceApplied, OverridesCleared, CleanupRetried, FloorRemoved,
     SuspendRemoved, StartApplied, PowerApplied, OverrideRemoved, Answered
<1>12. OverrideRemoved(c, "endRemove") /\ UNCHANGED inverter
  BY <1>11 DEF Ended
<1>13. Off'
  BY <1>12, RemovedOff DEF Removals
<1> QED BY <1>13 DEF Off, Attended

LEMMA CleanInit == Init => CleanInv
BY DEF Init, CleanInv, DeferredOff, CallAgrees, Idle, StartedCalls, PaceCalls

\* C-024, C-025: a session that the listener ends, for whichever of its reasons,
\* leaves no override behind unnoticed, and no failed removal goes unrecorded,
\* in every behaviour in which overrides are applied one at a time, no deferred
\* session begins over an override and an outage refuses requests rather than
\* loses their replies.
THEOREM LeavesNoOverride ==
  ASSUME "lostReply" \notin Faults
  PROVE  Spec /\ []ApplyAlone /\ [][BeginsAttended]_vars => ListenerCleansUp
<1>1. TypeOK /\ RemovalsTake /\ CleanInv /\ ApplyAlone /\ ApplyAlone' /\ [Next]_vars
        /\ [BeginsAttended]_vars => CleanInv'
  BY CleanStep
<1>2. TypeOK /\ RemovalsTake /\ ApplyAlone /\ [Next]_vars => RemovalsTake'
  BY RemovalsTakeStep
<1>3. TypeOK /\ RemovalsTake /\ CleanInv /\ [Next]_vars => CleanedUp
  <2>1. SUFFICES ASSUME TypeOK, RemovalsTake, CleanInv, [Next]_vars PROVE CleanedUp
    OBVIOUS
  <2>2. ASSUME session # None, session' = None, ~UserActed
        PROVE  Attended' \/ \E c \in Calls : Starting(c)
    BY <2>1, <2>2, EndsByItself, EndAttended
  <2>3. ASSUME NEW c \in Calls, calls[c].pc = "endRemove", calls'[c].pc = "idle"
        PROVE  Attended'
    BY <2>1, <2>3, RemovalAttended
  <2> QED BY <2>2, <2>3 DEF CleanedUp, Starting
<1> QED BY <1>1, <1>2, <1>3, CleanInit, AloneInit, TypeCorrect, PTL
        DEF Spec, ListenerCleansUp
=============================================================================
