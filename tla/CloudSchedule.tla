--------------------------- MODULE CloudSchedule ---------------------------
(***************************************************************************)
(* The schedule on the FoxESS cloud and everything that writes it: the     *)
(* smart sessions through FoxESSCloudAdapter (foxess_adapter.py), the      *)
(* services (_services.py), the retry of a failed removal (coordinator.py) *)
(* and the FoxESS app.  The cloud knows no partial update: a writer reads  *)
(* all the groups, computes the new ones and writes them all, each a       *)
(* request of its own from an executor thread, and nothing keeps two       *)
(* writers apart.  An operation is a job in a slot, stepped request by     *)
(* request; with one slot the operations come one at a time.               *)
(***************************************************************************)
EXTENDS Integers, FiniteSets

CONSTANTS Slots,        \* the operations that may be under way together
          Day,          \* the last mark of the day
          Windows,      \* the windows <<from, to>> the services are called with
          AppGroups,    \* the groups the app may set and the API may report
          AppRaces,     \* the app may edit while an operation is under way
          MaxCalls,     \* service calls in a run
          MaxActs,      \* ticks and ends of sessions in a run
          MaxEdits      \* app edits in a run

SessionModes == {"ForceCharge", "ForceDischarge"}
OwnModes == SessionModes \union {"Feedin"}
_MANAGED_WORK_MODES == OwnModes \union {"SelfUse"}
_PLACEHOLDER_MODES == {"Invalid"}
Modes == _MANAGED_WORK_MODES \union _PLACEHOLDER_MODES \union {"Backup"}

(* SoC settings, down to how they compare with the API's least fdSoc.      *)
Soc == 0 .. 2
DEFAULT_API_MIN_SOC == 1
Group == [mode : Modes, from : 0 .. Day, to : 0 .. Day, fdSoc : Soc, minSocOnGrid : Soc]

_is_placeholder(g) == g.mode \in _PLACEHOLDER_MODES \/ g.from = g.to
_groups_overlap(g, h) == g.from < h.to /\ h.from < g.to
Apart(gs) == \A g, h \in gs : g # h => ~_groups_overlap(g, h)

ASSUME ScheduleAssumption ==
    /\ Day \in Nat \ {0}
    /\ Windows \subseteq {w \in (0 .. Day) \X (0 .. Day) : w[1] < w[2]}
    /\ AppGroups \subseteq {g \in Group : g.from <= g.to}
    /\ AppRaces \in BOOLEAN
    /\ MaxCalls \in Nat /\ MaxActs \in Nat /\ MaxEdits \in Nat

VARIABLES cloud,     \* the groups of the inverter's schedule
          session,   \* for each session mode, "none", "deferred" or "active"
          terms,     \* the window and replace_conflicts of its session
          cache,     \* _groups of its session's adapter
          job,       \* the operation in each slot
          pending,   \* pending_override_cleanup: a session mode or "none"
          overlapped, \* history: when a service last cancelled both sessions, one
                     \* for the other mode was past its own cancel
          calls, acts, edits
vars == <<cloud, session, terms, cache, job, pending, overlapped, calls, acts, edits>>

---------------------------------------------------------------------------
(* What the operations compute from the groups they read.                  *)

Least(a, b) == IF a < b THEN a ELSE b
Greatest(a, b) == IF a < b THEN b ELSE a

_sanitize_group(g) ==
    LET fd == Greatest(g.fdSoc, DEFAULT_API_MIN_SOC)
    IN  [g EXCEPT !.fdSoc = fd, !.minSocOnGrid = Least(@, fd)]

_check_schedule_safe(gs) ==
    \A g \in gs : ~_is_placeholder(g) => g.mode \in _MANAGED_WORK_MODES

_build_override_group(m, from, to) ==
    [mode |-> m, from |-> from, to |-> to, minSocOnGrid |-> 1,
     fdSoc |-> IF m = "ForceCharge" THEN 2 ELSE DEFAULT_API_MIN_SOC]

SelfUseDay == _build_override_group("SelfUse", 0, Day)

Kept(gs, m) == {_sanitize_group(g) : g \in {h \in gs : ~_is_placeholder(h) /\ h.mode # m}}
Beside(gs, new) == {g \in Kept(gs, new.mode) : g.mode # "SelfUse"}
Conflict(gs, new) == \E g \in Beside(gs, new) : _groups_overlap(g, new)

MergeRaises(gs, new, force) == ~_check_schedule_safe(gs) \/ (~force /\ Conflict(gs, new))
(* As _merge_with_existing, but what it overlaps stays when it is forced.   *)
MergeKeepingOverlaps(gs, new) == Beside(gs, new) \union {new}

_merge_with_existing(gs, new) == {g \in Beside(gs, new) : ~_groups_overlap(g, new)} \union {new}

(* As _remove_mode_from_schedule, but without regard to the mode.          *)
RemoveEveryMode(gs, m) == {SelfUseDay}

_remove_mode_from_schedule(gs, m) == IF Kept(gs, m) = {} THEN {SelfUseDay} ELSE Kept(gs, m)

(* The fast path of apply_mode: the first group of the mode, there is      *)
(* mostly one, gets the new end.                                           *)
Adjusted(gs, m, to) ==
    LET own == {g \in gs : g.mode = m}
    IN  IF own = {} THEN {gs} ELSE {(gs \ {g}) \union {[g EXCEPT !.to = to]} : g \in own}

(* What _safe_end may return for the session of mode m that asks for as at *)
(* mark now: a discharge ends at its safe horizon, which every tick moves. *)
Ends(m, as, now) == IF as = "ForceDischarge" THEN (now + 1) .. terms[m].to ELSE {terms[m].to}

(* A running discharge whose feed-in is nearly used up asks for self-use.  *)
AsksFor(m) == {m} \union {as \in {"SelfUse"} : m = "ForceDischarge" /\ session[m] = "active"}

---------------------------------------------------------------------------
(* Jobs.  op: who runs; mode: the mode it acts for ("all" for a clear      *)
(* without a filter); new: the group it merges; pc: its next request;      *)
(* groups: what it will write; live: its session is still the current one. *)

(* Only a charge session keeps its replace_conflicts for later merges.    *)
Terms(m, from, to, force) ==
    [from |-> from, to |-> to, force |-> m = "ForceCharge" /\ force]
NoTerms == [from |-> 0, to |-> Day, force |-> FALSE]

NewJob(op, m, pc, new, force) ==
    [op |-> op, mode |-> m, new |-> new, force |-> force, pc |-> pc, groups |-> {}, live |-> TRUE]
Start(op, m, pc) == NewJob(op, m, pc, SelfUseDay, FALSE)
NoJob == [Start("none", "all", "idle") EXCEPT !.live = FALSE]
Idle(s) == job[s] = NoJob
Writing(b, gs) == [b EXCEPT !.pc = "write", !.groups = gs]

(* The calls a session makes in its middle: the first override of one that *)
(* was deferred and the next ones, removals after which it goes on.        *)
Applying == {"begin", "tick"}
Removing == {"suspend", "redefer"}

(* The jobs when s becomes b and the sessions in ms are cancelled: a call  *)
(* of theirs under way goes on, for a session that is gone.                *)
JobsWith(s, b, ms) ==
    [t \in Slots |-> IF t = s THEN b
                     ELSE IF job[t].op \in Applying \union Removing /\ job[t].mode \in ms
                     THEN [job[t] EXCEPT !.live = FALSE] ELSE job[t]]
(* As Cancelled, but only where nothing has been started.                   *)
CancelledUnlessActive(ms) ==
    [m \in SessionModes |-> IF m \in ms /\ session[m] # "active" THEN "none" ELSE session[m]]
Cancelled(ms) == [m \in SessionModes |-> IF m \in ms THEN "none" ELSE session[m]]
Unset(ms) == [m \in SessionModes |-> IF m \in ms THEN NoTerms ELSE terms[m]]
Forgotten(ms) == [m \in SessionModes |-> IF m \in ms THEN {} ELSE cache[m]]

(* A charge that is put off again is deferred whether its removal failed   *)
(* or not.                                                                 *)
Left(b) == IF b.op = "redefer" /\ b.live THEN [session EXCEPT ![b.mode] = "deferred"] ELSE session

(* As Failed, but recording also the removal of a clear, whatever its mode.*)
FailedRecordingAny(s) ==
    /\ job' = [job EXCEPT ![s] = NoJob]
    /\ session' = Left(job[s])
    /\ pending' = IF job[s].op \in {"end", "clear"} \union Removing THEN job[s].mode ELSE pending

(* As Failed, but a retry that fails is given up.                          *)
FailedForGood(s) ==
    /\ job' = [job EXCEPT ![s] = NoJob]
    /\ session' = Left(job[s])
    /\ pending' = CASE job[s].op \in {"end"} \union Removing -> job[s].mode
                     [] job[s].op = "cleanup" -> "none"
                     [] OTHER -> pending

(* A job's request failed, or the code raised on its answer.  A session    *)
(* has every removal that failed retried, also one in its middle.          *)
Failed(s) ==
    /\ job' = [job EXCEPT ![s] = NoJob]
    /\ session' = Left(job[s])
    /\ pending' = IF job[s].op \in {"end"} \union Removing THEN job[s].mode ELSE pending

Init ==
    /\ cloud \in {gs \in SUBSET AppGroups : Apart(gs)}
    /\ session = [m \in SessionModes |-> "none"]
    /\ terms = [m \in SessionModes |-> NoTerms]
    /\ cache = [m \in SessionModes |-> {}]
    /\ job = [s \in Slots |-> NoJob]
    /\ pending = "none" /\ overlapped = FALSE
    /\ calls = 0 /\ acts = 0 /\ edits = 0

---------------------------------------------------------------------------
(* Services.  A call that is not deferred goes on to merge and write; one  *)
(* that is deferred leaves the schedule to the session's later ticks.      *)

Call(s) == Idle(s) /\ calls < MaxCalls /\ calls' = calls + 1

(* A smart service between its cancel and its own session.                 *)
Starting(t) == job[t].op = "start" /\ job[t].pc \in {"merge", "write"}

(* Cancel both sessions, then defer the new one or go on with the merge.   *)
Replace(s, m, w, force) ==
    LET new == _build_override_group(m, w[1], w[2])
    IN  /\ cache' = Forgotten(SessionModes)
        /\ overlapped' = \E t \in Slots \ {s} : Starting(t) /\ job[t].mode # m
        /\ \/ /\ session' = [Cancelled(SessionModes) EXCEPT ![m] = "deferred"]
              /\ terms' = [Unset(SessionModes) EXCEPT ![m] = Terms(m, w[1], w[2], force)]
              /\ job' = JobsWith(s, NoJob, SessionModes)
           \/ /\ session' = Cancelled(SessionModes) /\ terms' = Unset(SessionModes)
              /\ job' = JobsWith(s, NewJob("start", m, "merge", new, force), SessionModes)

_do_smart_discharge(s) ==
    /\ Call(s)
    /\ \E w \in Windows, force \in BOOLEAN : Replace(s, "ForceDischarge", w, force)
    /\ UNCHANGED <<cloud, pending, acts, edits>>

(* A charge is merged once for its errors before anything is cancelled.    *)
_do_smart_charge(s) ==
    /\ Call(s)
    /\ \E w \in Windows, force \in BOOLEAN :
          job' = [job EXCEPT ![s] = NewJob("start", "ForceCharge", "validate",
                     _build_override_group("ForceCharge", w[1], w[2]), force)]
    /\ UNCHANGED <<cloud, session, terms, cache, pending, overlapped, acts, edits>>

Validate(s) ==
    /\ job[s].pc = "validate"
    /\ LET b == job[s]
       IN  IF MergeRaises(cloud, b.new, b.force)
           THEN Failed(s) /\ UNCHANGED <<terms, cache, overlapped>>
           ELSE Replace(s, b.mode, <<b.new.from, b.new.to>>, b.force) /\ UNCHANGED pending
    /\ UNCHANGED <<cloud, calls, acts, edits>>

handle_feedin(s) ==
    /\ Call(s)
    /\ \E w \in Windows, force \in BOOLEAN :
          job' = [job EXCEPT ![s] = NewJob("feedin", "Feedin", "merge",
                     _build_override_group("Feedin", w[1], w[2]), force)]
    /\ UNCHANGED <<cloud, session, terms, cache, pending, overlapped, acts, edits>>

handle_clear_overrides(s) ==
    /\ Call(s)
    /\ \E m \in OwnModes \union {"all"} :
          LET gone == IF m = "all" THEN SessionModes ELSE SessionModes \intersect {m}
          IN  /\ session' = Cancelled(gone)
              /\ cache' = Forgotten(gone) /\ terms' = Unset(gone)
              /\ job' = JobsWith(s, Start("clear", m, "remove"), gone)
    /\ UNCHANGED <<cloud, pending, overlapped, acts, edits>>

---------------------------------------------------------------------------
(* Sessions.  A tick renews the override; a session that ends removes it,  *)
(* and so does one that goes on without: a discharge that is suspended or  *)
(* at its floor, a charge at its target or ahead of its schedule.          *)

Act(s) == Idle(s) /\ acts < MaxActs /\ acts' = acts + 1

Tick(m) == IF session[m] = "deferred" THEN "begin" ELSE "tick"

(* apply_mode with groups in the cache writes them without reading.        *)
ApplyCached(s, m) ==
    /\ Act(s) /\ session[m] # "none" /\ cache[m] # {}
    /\ \E now \in {t \in terms[m].from .. (terms[m].to - 1) :
                      \A g \in cache[m] : g.mode = m => g.from <= t}, as \in AsksFor(m) :
       \E to \in Ends(m, as, now) : \E gs \in Adjusted(cache[m], as, to) :
          /\ cache' = [cache EXCEPT ![m] = gs]
          /\ job' = [job EXCEPT ![s] = Writing(Start(Tick(m), m, "write"), gs)]
    /\ UNCHANGED <<cloud, session, terms, pending, overlapped, calls, edits>>

(* Without, it reads once to check the schedule and once more to merge.    *)
ApplyMerged(s, m) ==
    /\ Act(s) /\ session[m] # "none" /\ cache[m] = {}
    /\ \E now \in terms[m].from .. (terms[m].to - 1), as \in AsksFor(m) :
       \E to \in Ends(m, as, now) :
          job' = [job EXCEPT ![s] = NewJob(Tick(m), m, "check",
                     _build_override_group(as, now, to), terms[m].force)]
    /\ UNCHANGED <<cloud, session, terms, cache, pending, overlapped, calls, edits>>

Check(s) ==
    /\ job[s].pc = "check"
    /\ IF _check_schedule_safe(cloud)
       THEN job' = [job EXCEPT ![s].pc = "merge"] /\ UNCHANGED <<session, pending>>
       ELSE Failed(s)
    /\ UNCHANGED <<cloud, terms, cache, overlapped, calls, acts, edits>>

Merge(s) ==
    /\ job[s].pc = "merge"
    /\ LET b == job[s]
           gs == _merge_with_existing(cloud, b.new)
       IN  IF MergeRaises(cloud, b.new, b.force)
           THEN Failed(s) /\ UNCHANGED cache
           ELSE /\ job' = [job EXCEPT ![s] = Writing(@, gs)]
                /\ cache' = IF b.op \in Applying /\ b.live THEN [cache EXCEPT ![b.mode] = gs] ELSE cache
                /\ UNCHANGED <<session, pending>>
    /\ UNCHANGED <<cloud, terms, overlapped, calls, acts, edits>>

(* A discharge at its floor removes the override, begun or not.            *)
MayRemove(m) == session[m] = "active" \/ (m = "ForceDischarge" /\ session[m] # "none")

EndStarted(s, m) ==
    /\ Act(s) /\ MayRemove(m)
    /\ session' = Cancelled({m}) /\ cache' = Forgotten({m}) /\ terms' = Unset({m})
    /\ job' = JobsWith(s, Start("end", m, "remove"), {m})
    /\ UNCHANGED <<cloud, pending, overlapped, calls, edits>>

EndDeferred(s, m) ==
    /\ Act(s) /\ session[m] = "deferred"
    /\ session' = Cancelled({m}) /\ cache' = Forgotten({m}) /\ terms' = Unset({m})
    /\ job' = JobsWith(s, NoJob, {m})
    /\ UNCHANGED <<cloud, pending, overlapped, calls, edits>>

Suspend(s, m) ==
    /\ Act(s) /\ MayRemove(m)
    /\ job' = [job EXCEPT ![s] = Start("suspend", m, "remove")]
    /\ UNCHANGED <<cloud, session, terms, cache, pending, overlapped, calls, edits>>

Redefer(s) ==
    /\ Act(s) /\ session["ForceCharge"] = "active"
    /\ job' = [job EXCEPT ![s] = Start("redefer", "ForceCharge", "remove")]
    /\ UNCHANGED <<cloud, session, terms, cache, pending, overlapped, calls, edits>>

(* The poll retries a removal that failed.                                 *)
_retry_pending_cleanup(s) ==
    /\ Idle(s) /\ pending # "none"
    /\ \A t \in Slots : job[t].op # "cleanup"
    /\ job' = [job EXCEPT ![s] = Start("cleanup", pending, "remove")]
    /\ UNCHANGED <<cloud, session, terms, cache, pending, overlapped, calls, acts, edits>>

Remove(s) ==
    /\ job[s].pc = "remove"
    /\ IF _check_schedule_safe(cloud)
       THEN /\ job' = [job EXCEPT ![s] = Writing(@,
                          IF @.mode = "all" THEN {SelfUseDay}
                          ELSE _remove_mode_from_schedule(cloud, @.mode))]
            /\ UNCHANGED <<session, pending>>
       ELSE Failed(s)
    /\ UNCHANGED <<cloud, terms, cache, overlapped, calls, acts, edits>>

---------------------------------------------------------------------------
(* Requests that fail, and the write.  The API refuses groups that overlap *)
(* (docs/api/foxess-cloud-api.md, 5), and then only WriteFails is left.    *)

ReadFails(s) ==
    /\ job[s].pc \in {"validate", "check", "merge", "remove"}
    /\ Failed(s)
    /\ UNCHANGED <<cloud, terms, cache, overlapped, calls, acts, edits>>

(* The retry takes the record back, whatever was recorded since.           *)
PendingAfter(b) == IF b.op = "cleanup" THEN "none" ELSE pending

Write(s) ==
    /\ job[s].pc = "write" /\ Apart(job[s].groups)
    /\ LET b == job[s]
           mine == b.mode \in SessionModes
       IN  /\ cloud' = b.groups
           /\ job' = JobsWith(s, NoJob, IF b.op = "start" THEN {b.mode} ELSE {})
           /\ session' = IF mine /\ (b.op = "start" \/ (b.op = "begin" /\ b.live))
                         THEN [session EXCEPT ![b.mode] = "active"] ELSE Left(b)
           /\ terms' = IF b.op = "start" THEN [terms EXCEPT ![b.mode] = Terms(b.mode, b.new.from, b.new.to, b.force)]
                       ELSE terms
           /\ cache' = CASE b.op = "start" -> [cache EXCEPT ![b.mode] = b.groups]
                         [] b.op \in Removing /\ b.live -> [cache EXCEPT ![b.mode] = {}]
                         [] OTHER -> cache
           /\ pending' = PendingAfter(b)
    /\ UNCHANGED <<overlapped, calls, acts, edits>>

WriteFails(s) ==
    /\ job[s].pc = "write"
    /\ Failed(s)
    /\ UNCHANGED <<cloud, terms, cache, overlapped, calls, acts, edits>>

(* The write takes effect and its answer is lost.                          *)
ReplyLost(s) ==
    /\ job[s].pc = "write" /\ Apart(job[s].groups)
    /\ cloud' = job[s].groups
    /\ Failed(s)
    /\ UNCHANGED <<terms, cache, overlapped, calls, acts, edits>>

(* The write takes effect, its answer is lost and the client sends it once *)
(* more, over whatever was written meanwhile; at most TRANSIENT_RETRIES    *)
(* times, which fairness stands for.                                       *)
PostRetried(s) ==
    /\ job[s].pc = "write" /\ Apart(job[s].groups) /\ cloud # job[s].groups
    /\ cloud' = job[s].groups
    /\ UNCHANGED <<session, terms, cache, job, pending, overlapped, calls, acts, edits>>

(* The app sets a group that fits, or deletes one.                         *)
App ==
    /\ edits < MaxEdits /\ edits' = edits + 1
    /\ AppRaces \/ \A s \in Slots : Idle(s)
    /\ \/ \E g \in AppGroups : /\ \A h \in cloud : ~_groups_overlap(g, h)
                              /\ cloud' = cloud \union {g}
       \/ \E g \in cloud : cloud' = cloud \ {g}
    /\ UNCHANGED <<session, terms, cache, job, pending, overlapped, calls, acts>>

Services(s) == _do_smart_charge(s) \/ _do_smart_discharge(s) \/ handle_feedin(s) \/ handle_clear_overrides(s)
Session(s) ==
    \/ \E m \in SessionModes : \/ ApplyCached(s, m) \/ ApplyMerged(s, m)
                              \/ EndStarted(s, m) \/ EndDeferred(s, m) \/ Suspend(s, m)
    \/ Redefer(s)
Answer(s) == Validate(s) \/ Check(s) \/ Merge(s) \/ Remove(s) \/ Write(s)
Fault(s) == ReadFails(s) \/ WriteFails(s) \/ ReplyLost(s)

Next == App \/ \E s \in Slots : Services(s) \/ Session(s) \/ _retry_pending_cleanup(s) \/ Answer(s) \/ Fault(s) \/ PostRetried(s)

Spec == Init /\ [][Next]_vars

(* Every request is answered or fails; the poll comes round again whatever *)
(* else is going on, and a cloud that is asked again and again answers.    *)
Fairness == /\ \A s \in Slots : WF_vars(Answer(s) \/ Fault(s))
            /\ SF_vars(\E s \in Slots : _retry_pending_cleanup(s))
            /\ SF_vars(\E s \in Slots : job[s].op = "cleanup" /\ Remove(s))
            /\ SF_vars(\E s \in Slots : job[s].op = "cleanup" /\ Write(s))
FairSpec == Spec /\ Fairness

---------------------------------------------------------------------------
Job == [op : {"none", "start", "feedin", "clear", "begin", "tick", "end", "suspend", "redefer", "cleanup"},
        mode : OwnModes \union {"all"}, new : Group, force : BOOLEAN,
        pc : {"idle", "validate", "check", "merge", "remove", "write"},
        groups : SUBSET Group, live : BOOLEAN]

(* The values the variables take.                                          *)
TypeOK ==
    /\ cloud \in SUBSET Group
    /\ session \in [SessionModes -> {"none", "deferred", "active"}]
    /\ terms \in [SessionModes -> [from : 0 .. Day, to : 0 .. Day, force : BOOLEAN]]
    /\ cache \in [SessionModes -> SUBSET Group]
    /\ job \in [Slots -> Job]
    /\ pending \in SessionModes \union {"none"} /\ overlapped \in BOOLEAN
    /\ calls \in 0 .. MaxCalls /\ acts \in 0 .. MaxActs /\ edits \in 0 .. MaxEdits

(* The hard invariants of the API on a group (docs/api/foxess-cloud-api.md,*)
(* 5): no placeholder, no fdSoc below its least, no minSocOnGrid above it; *)
(* and C-018: no mode the integration does not manage is ever part of what *)
(* it writes.                                                              *)
WellFormed(g) ==
    /\ ~_is_placeholder(g) /\ g.mode \in _MANAGED_WORK_MODES
    /\ g.fdSoc >= DEFAULT_API_MIN_SOC /\ g.minSocOnGrid <= g.fdSoc

(* A discharge whose end moved out runs into a group that begins later.    *)
RunsInto(b, g, h) ==
    /\ b.op \in Applying /\ b.mode = "ForceDischarge"
    /\ g.mode = b.mode /\ g.from < h.from

(* Whatever the app put into the schedule and whoever else writes it, each *)
(* schedule the integration sends is made of groups the API accepts, also  *)
(* when it was cached and adjusted since; and no two overlap, with one     *)
(* exception: a tick of a discharge that was merged up to a near horizon   *)
(* sends it with a later end, which may run into what was kept behind it   *)
(* (foxess_adapter.py:454).  The API refuses that one.                     *)
SendsValid ==
    \A s \in Slots : job[s].pc = "write" =>
        LET b == job[s]
        IN  /\ b.groups # {} /\ \A g \in b.groups : WellFormed(g)
            /\ \A g, h \in b.groups :
                  g # h /\ _groups_overlap(g, h) => RunsInto(b, g, h) \/ RunsInto(b, h, g)

(* README 247 and 286: a smart charge and a smart discharge never run      *)
(* together.  Each service cancels the other's session, but awaits the     *)
(* cloud before it sets its own: both are there only after a service       *)
(* cancelled while one for the other mode was between its cancel and its   *)
(* session.                                                                *)
OneSession == (\A m \in SessionModes : session[m] # "none") => overlapped

(* A removal that failed is made good once the cloud answers: the schedule *)
(* is without a group of the mode at some time after.  Unless a group of   *)
(* an unmanaged mode forbids any change; or the one record was taken for a *)
(* failure of the other mode; or the retry for the other mode was already  *)
(* under way, whose success drops the record (coordinator.py:282).         *)
CleanupEventually ==
    <>[]_check_schedule_safe(cloud) =>
        \A m \in SessionModes :
            (pending = m /\ \A s \in Slots : job[s].op = "cleanup" => job[s].mode = m)
                ~> ((\A g \in cloud : g.mode # m) \/ pending \in SessionModes \ {m})

(* The operations, one at a time, implement the atomic ones of Overrides.  *)
OverridesOf(gs) ==
    {[mode |-> g.mode, from |-> g.from, to |-> g.to] :
        g \in {h \in gs : ~_is_placeholder(h) /\ h.mode # "SelfUse"}}
Abstract == INSTANCE Overrides WITH
    AppOverrides <- OverridesOf(AppGroups),
    inForce <- OverridesOf(cloud),
    plan <- [m \in SessionModes |-> {OverridesOf(gs) : gs \in {cache[m]} \ {{}}}]
ImplementsOverrides == Abstract!Spec

=============================================================================
