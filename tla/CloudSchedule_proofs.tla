------------------------ MODULE CloudSchedule_proofs ------------------------
(***************************************************************************)
(* Whatever is sent is made of groups the API accepts, for any number of   *)
(* operations under way together, and there are never two sessions but     *)
(* where two services started them together.  With one operation at a      *)
(* time, each read-modify-write of the schedule does to the overrides what *)
(* one atomic operation of Overrides does.                                 *)
(***************************************************************************)
EXTENDS CloudSchedule, TLAPS

Sendable(g) == g \in Group /\ g.from < g.to /\ WellFormed(g)
Sent(gs) == gs # {} /\ Apart(gs) /\ \A g \in gs : Sendable(g)

-----------------------------------------------------------------------------
(* What the operations compute.                                            *)

LEMMA Sanitized ==
    ASSUME NEW g \in Group
    PROVE  /\ _sanitize_group(g) \in Group
           /\ _sanitize_group(g).mode = g.mode /\ _sanitize_group(g).from = g.from
           /\ _sanitize_group(g).to = g.to
           /\ _sanitize_group(g).fdSoc >= DEFAULT_API_MIN_SOC
           /\ _sanitize_group(g).minSocOnGrid <= _sanitize_group(g).fdSoc
<1> DEFINE fd == Greatest(g.fdSoc, DEFAULT_API_MIN_SOC)
           least == Least(g.minSocOnGrid, fd)
           q == _sanitize_group(g)
<1>1. g.fdSoc \in Soc /\ g.minSocOnGrid \in Soc
  BY DEF Group
<1>2. fd \in Soc /\ fd >= DEFAULT_API_MIN_SOC
  BY <1>1 DEF Soc, Greatest, DEFAULT_API_MIN_SOC
<1>3. least \in Soc /\ least <= fd
  BY <1>1, <1>2 DEF Soc, Least
<1>4. q = [g EXCEPT !.fdSoc = fd, !.minSocOnGrid = least]
  BY DEF _sanitize_group
<1> HIDE DEF fd, least, q
<1>5. q \in Group
  BY <1>2, <1>3, <1>4 DEF Group
<1>6. q.mode = g.mode /\ q.from = g.from /\ q.to = g.to
  BY <1>4 DEF Group
<1>7. q.fdSoc = fd /\ q.minSocOnGrid = least
  BY <1>4 DEF Group
<1> QED BY <1>2, <1>3, <1>5, <1>6, <1>7 DEF q

(* What is kept is made good for the API, where it was.                    *)
LEMMA KeptGroups ==
    ASSUME NEW gs \in SUBSET Group, NEW m, Apart(gs), _check_schedule_safe(gs),
           \A g \in gs : g.from <= g.to
    PROVE  /\ Apart(Kept(gs, m))
           /\ \A g \in Kept(gs, m) : Sendable(g) /\ g.mode # m
<1>1. \A g \in Kept(gs, m) : \E h \in gs : ~_is_placeholder(h) /\ h.mode # m /\ g = _sanitize_group(h)
  BY DEF Kept
<1>2. \A g \in Kept(gs, m) : Sendable(g) /\ g.mode # m
  <2> SUFFICES ASSUME NEW g \in Kept(gs, m) PROVE Sendable(g) /\ g.mode # m
    OBVIOUS
  <2>1. PICK h \in gs : ~_is_placeholder(h) /\ h.mode # m /\ g = _sanitize_group(h)
    BY <1>1
  <2>2. /\ g \in Group /\ g.mode = h.mode /\ g.from = h.from /\ g.to = h.to
        /\ g.fdSoc >= DEFAULT_API_MIN_SOC /\ g.minSocOnGrid <= g.fdSoc
    BY <2>1, Sanitized
  <2>3. h.mode \in _MANAGED_WORK_MODES
    BY <2>1 DEF _check_schedule_safe
  <2>4. h.from < h.to
    <3>1. h.from <= h.to /\ h.from # h.to /\ h \in Group
      BY <2>1 DEF _is_placeholder
    <3> QED BY <3>1, ScheduleAssumption DEF Group
  <2>5. ~_is_placeholder(h)
    BY <2>1
  <2> QED BY <2>1, <2>2, <2>3, <2>4, <2>5 DEF Sendable, WellFormed, _is_placeholder
<1>3. ASSUME NEW g \in Kept(gs, m), NEW h \in Kept(gs, m), g # h PROVE ~_groups_overlap(g, h)
  <2>1. PICK a \in gs : g = _sanitize_group(a)
    BY <1>1
  <2>2. PICK b \in gs : h = _sanitize_group(b)
    BY <1>1
  <2>3. g.from = a.from /\ g.to = a.to /\ h.from = b.from /\ h.to = b.to
    BY <2>1, <2>2, Sanitized
  <2>4. ~_groups_overlap(a, b)
    BY <1>3, <2>1, <2>2 DEF Apart
  <2> QED BY <2>3, <2>4 DEF _groups_overlap
<1> QED BY <1>2, <1>3 DEF Apart

LEMMA OverrideSendable ==
    ASSUME NEW m \in _MANAGED_WORK_MODES, NEW from \in 0 .. Day, NEW to \in 0 .. Day, from < to
    PROVE  /\ Sendable(_build_override_group(m, from, to))
           /\ _build_override_group(m, from, to).mode = m
           /\ _build_override_group(m, from, to).from = from
           /\ _build_override_group(m, from, to).to = to
  BY ScheduleAssumption DEF Sendable, WellFormed, _build_override_group, _is_placeholder, Group,
     Modes, _MANAGED_WORK_MODES, OwnModes, SessionModes, _PLACEHOLDER_MODES, Soc, DEFAULT_API_MIN_SOC

LEMMA SelfUseDaySent == Sent({SelfUseDay})
<1>1. "SelfUse" \in _MANAGED_WORK_MODES /\ 0 \in 0 .. Day /\ Day \in 0 .. Day /\ 0 < Day
  BY ScheduleAssumption DEF _MANAGED_WORK_MODES
<1>2. Sendable(SelfUseDay)
  BY <1>1, OverrideSendable DEF SelfUseDay
<1> QED BY <1>2 DEF Sent, Apart

(* A merge that does not raise: what it overlaps is gone or was not there. *)
LEMMA MergeSent ==
    ASSUME NEW gs \in SUBSET Group, Apart(gs), \A g \in gs : g.from <= g.to,
           NEW new, Sendable(new), NEW force \in BOOLEAN,
           ~MergeRaises(gs, new, force)
    PROVE  /\ Sent(_merge_with_existing(gs, new))
           /\ \A g \in _merge_with_existing(gs, new) : g.mode = new.mode => g = new
<1> DEFINE kept == {g \in Beside(gs, new) : ~_groups_overlap(g, new)}
<1>1. Apart(Kept(gs, new.mode)) /\ \A g \in Kept(gs, new.mode) : Sendable(g) /\ g.mode # new.mode
  BY KeptGroups DEF MergeRaises
<1>2. kept \subseteq Kept(gs, new.mode) /\ \A g \in kept : ~_groups_overlap(g, new)
  BY DEF Beside
<1>3. _merge_with_existing(gs, new) = kept \union {new}
  BY DEF _merge_with_existing
<1> HIDE DEF kept
<1>4. Apart(kept \union {new})
  <2> SUFFICES ASSUME NEW g \in kept \union {new}, NEW h \in kept \union {new}, g # h
               PROVE  ~_groups_overlap(g, h)
    BY DEF Apart
  <2>1. \A x \in kept : ~_groups_overlap(x, new) /\ ~_groups_overlap(new, x)
    BY <1>2 DEF _groups_overlap
  <2>2. \A x, y \in kept : x # y => ~_groups_overlap(x, y)
    BY <1>1, <1>2 DEF Apart
  <2> QED BY <2>1, <2>2
<1> QED BY <1>1, <1>2, <1>3, <1>4 DEF Sent

LEMMA RemoveSent ==
    ASSUME NEW gs \in SUBSET Group, Apart(gs), \A g \in gs : g.from <= g.to,
           _check_schedule_safe(gs), NEW m
    PROVE  Sent(_remove_mode_from_schedule(gs, m))
  BY KeptGroups, SelfUseDaySent DEF _remove_mode_from_schedule, Sent

-----------------------------------------------------------------------------
(* What a session may cache, to send again and again: a discharge, whose   *)
(* end moves, may have been moved into groups that begin later; the groups *)
(* of the other mode that the session asks for end where it does.          *)
Near(gs, m) ==
    \A g, h \in gs : g # h /\ _groups_overlap(g, h) =>
        /\ m = "ForceDischarge"
        /\ (g.mode = m /\ g.from < h.from) \/ (h.mode = m /\ h.from < g.from)
Fixed(m) == IF m = "ForceDischarge" THEN {"SelfUse"} ELSE {m}
EndsAt(gs, m, to) == \A g \in gs : g.mode \in Fixed(m) => g.to = to
Cacheable(gs, m, to) ==
    gs # {} /\ (\A g \in gs : Sendable(g)) /\ Near(gs, m) /\ EndsAt(gs, m, to)

LEMMA SendableTypes ==
    ASSUME NEW g, Sendable(g)
    PROVE  /\ g \in Group /\ g.from \in Nat /\ g.to \in Nat /\ g.from < g.to
           /\ g.from \in 0 .. Day /\ g.to \in 0 .. Day
  BY ScheduleAssumption DEF Sendable, Group

(* Two groups of a cached schedule are told apart by their marks.          *)
LEMMA MarksDiffer ==
    ASSUME NEW gs, NEW m, \A g \in gs : Sendable(g), Near(gs, m),
           NEW g \in gs, NEW h \in gs, g # h
    PROVE  g.from # h.from
<1> SUFFICES ASSUME g.from = h.from PROVE FALSE
  OBVIOUS
<1>1. g.from \in Nat /\ g.to \in Nat /\ g.from < g.to
  BY SendableTypes
<1>2. h.from \in Nat /\ h.to \in Nat /\ h.from < h.to
  BY SendableTypes
<1>3. _groups_overlap(g, h)
  BY <1>1, <1>2 DEF _groups_overlap
<1>4. g.from < h.from \/ h.from < g.from
  BY <1>3 DEF Near
<1> QED BY <1>1, <1>2, <1>4

(* A discharge that begins by now and ends later, moved.                   *)
LEMMA MovedNear ==
    ASSUME NEW gs, \A g \in gs : Sendable(g), Near(gs, "ForceDischarge"),
           NEW g \in gs, g.mode = "ForceDischarge", NEW q, q.mode = g.mode, q.from = g.from,
           NEW h \in gs, h # g, q.to \in Nat
    PROVE  _groups_overlap(q, h) \/ _groups_overlap(h, q) =>
              \/ q.from < h.from
              \/ h.mode = "ForceDischarge" /\ h.from < q.from
<1>1. g.from \in Nat /\ g.to \in Nat /\ g.from < g.to
  BY SendableTypes
<1>2. h.from \in Nat /\ h.to \in Nat /\ h.from < h.to
  BY SendableTypes
<1>3. g.from # h.from
  BY MarksDiffer
<1>4. SUFFICES ASSUME h.from < g.from, h.mode # "ForceDischarge", h.from < q.to /\ q.from < h.to
               PROVE  FALSE
  BY <1>1, <1>2, <1>3 DEF _groups_overlap
<1>5. _groups_overlap(g, h)
  BY <1>1, <1>2, <1>4 DEF _groups_overlap
<1>6. g.from < h.from
  BY <1>4, <1>5 DEF Near
<1> QED BY <1>1, <1>2, <1>4, <1>6

(* A group with another end.                                               *)
LEMMA EndMoved ==
    ASSUME NEW g, Sendable(g), NEW to \in 0 .. Day, g.from < to, NEW q, q = [g EXCEPT !.to = to]
    PROVE  Sendable(q) /\ q.mode = g.mode /\ q.from = g.from /\ q.to = to
<1>1. g \in Group
  BY DEF Sendable
<1>2. /\ q \in Group /\ q.mode = g.mode /\ q.from = g.from /\ q.to = to
      /\ q.fdSoc = g.fdSoc /\ q.minSocOnGrid = g.minSocOnGrid
  BY <1>1 DEF Group
<1>3. q.from # q.to
  BY <1>1, <1>2, ScheduleAssumption DEF Group
<1>4. WellFormed(q)
  BY <1>2, <1>3 DEF Sendable, WellFormed, _is_placeholder
<1> QED BY <1>2, <1>4 DEF Sendable

(* A tick that writes its cache again sends what it may cache.             *)
LEMMA AdjustedCacheable ==
    ASSUME NEW gs, NEW m \in SessionModes, NEW as, NEW end, Cacheable(gs, m, end),
           NEW to \in 0 .. Day,
           \/ as \in Fixed(m) /\ to = end
           \/ as = m /\ m = "ForceDischarge" /\ \A g \in gs : g.mode = m => g.from < to,
           NEW new \in Adjusted(gs, as, to)
    PROVE  /\ Cacheable(new, m, end)
           /\ as \in Fixed(m) => new = gs
<1>1. /\ gs # {} /\ \A g \in gs : Sendable(g)
      /\ Near(gs, m) /\ EndsAt(gs, m, end)
  BY DEF Cacheable
<1>2. CASE new = gs
  BY <1>2
<1>3. CASE new # gs
  <2>1. PICK g \in gs : g.mode = as /\ new = (gs \ {g}) \union {[g EXCEPT !.to = to]}
    BY <1>3 DEF Adjusted
  <2> DEFINE q == [g EXCEPT !.to = to]
  <2>2. as \notin Fixed(m)
    <3> SUFFICES ASSUME as \in Fixed(m) PROVE FALSE
      OBVIOUS
    <3>1. to = end /\ g.to = to
      BY <1>1, <2>1 DEF EndsAt, Fixed, SessionModes
    <3>2. g \in Group
      BY <1>1 DEF Sendable
    <3>3. q = g
      BY <3>1, <3>2 DEF Group
    <3> HIDE DEF q
    <3>4. new = (gs \ {g}) \union {q}
      BY <2>1 DEF q
    <3> QED BY <1>3, <3>3, <3>4
  <2>3. m = "ForceDischarge" /\ as = m /\ g.from < to /\ g.mode = m
    BY <2>1, <2>2
  <2> HIDE DEF q
  <2>4. q = [g EXCEPT !.to = to] /\ new = (gs \ {g}) \union {q}
    BY <2>1 DEF q
  <2>5. Sendable(q) /\ q.mode = g.mode /\ q.from = g.from /\ q.to = to
    BY <1>1, <2>3, <2>4, EndMoved
  <2>6. to \in Nat
    BY ScheduleAssumption
  <2>7. ASSUME NEW h \in gs, h # g, _groups_overlap(q, h) \/ _groups_overlap(h, q)
        PROVE  q.from < h.from \/ (h.mode = m /\ h.from < q.from)
    BY <1>1, <2>3, <2>5, <2>6, <2>7, MovedNear
  <2>8. Near(new, m)
    <3> SUFFICES ASSUME NEW x \in new, NEW y \in new, x # y, _groups_overlap(x, y)
                 PROVE  (x.mode = m /\ x.from < y.from) \/ (y.mode = m /\ y.from < x.from)
      BY <2>3 DEF Near
    <3>1. CASE x = q
      BY <2>3, <2>4, <2>5, <2>7, <3>1
    <3>2. CASE y = q
      BY <2>3, <2>4, <2>5, <2>7, <3>2
    <3>3. CASE x # q /\ y # q
      BY <1>1, <2>4, <3>3 DEF Near
    <3> QED BY <3>1, <3>2, <3>3
  <2>9. EndsAt(new, m, end)
    BY <1>1, <2>3, <2>4, <2>5 DEF EndsAt, Fixed
  <2>10. new # {} /\ \A x \in new : Sendable(x)
    BY <1>1, <2>4, <2>5
  <2> QED BY <2>2, <2>8, <2>9, <2>10 DEF Cacheable
<1> QED BY <1>2, <1>3

(* So is what a session's tick, or a service, has merged.                  *)
LEMMA MergedCacheable ==
    ASSUME NEW gs \in SUBSET Group, Apart(gs), \A g \in gs : g.from <= g.to,
           NEW new, Sendable(new), NEW force \in BOOLEAN, ~MergeRaises(gs, new, force),
           NEW m \in SessionModes, NEW to,
           new.mode = m \/ (m = "ForceDischarge" /\ new.mode = "SelfUse"),
           new.mode \in Fixed(m) => new.to = to
    PROVE  Cacheable(_merge_with_existing(gs, new), m, to)
<1> DEFINE merged == _merge_with_existing(gs, new)
<1>1. Sent(merged) /\ \A g \in merged : g.mode = new.mode => g = new
  BY MergeSent
<1>2. \A g \in merged : g.mode # "SelfUse" \/ g = new
  BY DEF _merge_with_existing, Beside
<1> HIDE DEF merged
<1>3. EndsAt(merged, m, to)
  BY <1>1, <1>2 DEF EndsAt, Fixed
<1>4. Cacheable(merged, m, to)
  BY <1>1, <1>3 DEF Cacheable, Sent, Near, Apart
<1> QED BY <1>4 DEF merged

-----------------------------------------------------------------------------
(* The invariant: the groups of the schedule are apart, a cached schedule  *)
(* may be sent, and so may what a job has computed; what a live tick is    *)
(* about to merge ends where its session wants it.                         *)
Ops == {"none", "start", "feedin", "clear", "begin", "tick", "end", "suspend", "redefer", "cleanup"}
Pcs == {"idle", "validate", "check", "merge", "remove", "write"}
Before == {"validate", "check", "merge"}
TermsType == [from : 0 .. Day, to : 0 .. Day, force : BOOLEAN]
OfSession == {"start", "end", "cleanup"} \union Applying \union Removing

CloudInv == Apart(cloud) /\ \A g \in cloud : g.from <= g.to
CacheInv == \A m \in SessionModes : cache[m] # {} => Cacheable(cache[m], m, terms[m].to)
TermsInv == ~terms["ForceDischarge"].force

NewOK(b) ==
    /\ Sendable(b.new)
    /\ b.op \in {"start", "feedin"} \union Applying
    /\ \/ b.new.mode = b.mode
       \/ b.op \in Applying /\ b.mode = "ForceDischarge" /\ b.new.mode = "SelfUse" /\ ~b.force
SentOK(b) ==
    /\ b.groups # {} /\ \A g \in b.groups : Sendable(g)
    /\ Near(b.groups, IF b.op \in Applying THEN b.mode ELSE "all")
    /\ b.op = "start" => EndsAt(b.groups, b.mode, b.new.to)
JobOK(b, window) ==
    /\ b.op \in OfSession => b.mode \in SessionModes
    /\ b.pc \in Before => NewOK(b)
    /\ b.pc = "validate" => b.op = "start"
    /\ b.pc = "check" => b.op \in Applying
    /\ b.pc = "remove" => b.op \notin {"start"} \union Applying
    /\ b.pc = "write" => SentOK(b)
    /\ b.op \in Applying /\ b.live /\ b.pc \in Before /\ b.new.mode \in Fixed(b.mode)
          => b.new.to = window[b.mode].to

JobInv == \A s \in Slots : JobOK(job[s], terms)
Inv == TypeOK /\ CloudInv /\ CacheInv /\ TermsInv /\ JobInv

LEMMA SelfUseDayGroup == SelfUseDay \in Group
  BY SelfUseDaySent DEF Sent, Sendable

LEMMA NoJobOK == NoJob \in Job /\ (\A window : JobOK(NoJob, window)) /\ NoJob.op = "none" /\ NoJob.pc = "idle"
<1> DEFINE b == Start("none", "all", "idle")
<1>1. b = NewJob("none", "all", "idle", SelfUseDay, FALSE) /\ NoJob = [b EXCEPT !.live = FALSE]
  BY DEF NoJob, Start
<1> HIDE DEF b
<1>2. b \in Job /\ b.op = "none" /\ b.pc = "idle"
  BY <1>1, SelfUseDayGroup DEF NewJob, Job
<1>3. NoJob \in Job /\ NoJob.op = "none" /\ NoJob.pc = "idle"
  BY <1>1, <1>2 DEF Job
<1> QED BY <1>3 DEF JobOK, Before, OfSession, Applying, Removing

(* A job that only removes.                                                *)
LEMMA RemoverOK ==
    ASSUME NEW op \in {"clear", "end", "cleanup"} \union Removing, NEW m \in OwnModes \union {"all"},
           op # "clear" => m \in SessionModes
    PROVE  /\ Start(op, m, "remove") \in Job /\ (\A window : JobOK(Start(op, m, "remove"), window))
           /\ Start(op, m, "remove").op = op /\ Start(op, m, "remove").mode = m
           /\ Start(op, m, "remove").pc = "remove"
<1> DEFINE b == Start(op, m, "remove")
<1>1. b = NewJob(op, m, "remove", SelfUseDay, FALSE)
  BY DEF Start
<1> HIDE DEF b
<1>2. b \in Job /\ b.op = op /\ b.pc = "remove" /\ b.mode = m
  BY <1>1, SelfUseDayGroup DEF NewJob, Job, Removing
<1>3. \A window : JobOK(b, window)
  BY <1>2 DEF JobOK, Before, Applying, Removing, OfSession
<1> QED BY <1>2, <1>3 DEF b

(* A job that goes on to write.                                            *)
LEMMA WritingFields ==
    ASSUME NEW b \in Job, NEW gs, NEW q, q = Writing(b, gs)
    PROVE  /\ q.op = b.op /\ q.mode = b.mode /\ q.new = b.new
           /\ (q.force <=> b.force) /\ (q.live <=> b.live) /\ q.pc = "write" /\ q.groups = gs
  BY DEF Writing, Job

LEMMA WritingOK ==
    ASSUME NEW b \in Job, NEW gs, gs \in SUBSET Group, NEW q, q = Writing(b, gs)
    PROVE  q \in Job
  BY DEF Writing, Job

(* The jobs of the slots but one, when the sessions in ms are cancelled.   *)
LEMMA JobsWithOK ==
    ASSUME Inv, NEW s \in Slots, NEW b \in Job, NEW ms \in SUBSET SessionModes,
           NEW window, \A m \in SessionModes \ ms : window[m] = terms[m], JobOK(b, window),
           job' = JobsWith(s, b, ms)
    PROVE  job' \in [Slots -> Job] /\ \A t \in Slots : JobOK(job'[t], window)
<1>1. \A t \in Slots : job[t] \in Job /\ JobOK(job[t], terms)
  BY DEF Inv, TypeOK, JobInv
<1>2. ASSUME NEW t \in Slots PROVE job'[t] \in Job /\ JobOK(job'[t], window)
  <2>1. CASE t = s
    BY <2>1 DEF JobsWith
  <2>2. CASE t # s /\ job[t].op \in Applying \union Removing /\ job[t].mode \in ms
    <3> DEFINE q == job'[t]
    <3>1. q = [job[t] EXCEPT !.live = FALSE]
      BY <2>2 DEF JobsWith
    <3> HIDE DEF q
    <3>2. q \in Job /\ ~q.live /\ q.op = job[t].op /\ q.mode = job[t].mode /\ q.new = job[t].new
          /\ q.pc = job[t].pc /\ q.groups = job[t].groups /\ (q.force <=> job[t].force)
      BY <1>1, <3>1 DEF Job
    <3>3. NewOK(job[t]) => NewOK(q)
      BY <3>2 DEF NewOK
    <3>4. SentOK(job[t]) => SentOK(q)
      BY <3>2 DEF SentOK
    <3>5. JobOK(q, window)
      BY <1>1, <3>2, <3>3, <3>4 DEF JobOK
    <3> QED BY <3>2, <3>5 DEF q
  <2>3. CASE t # s /\ ~(job[t].op \in Applying \union Removing /\ job[t].mode \in ms)
    <3>1. job'[t] = job[t]
      BY <2>3 DEF JobsWith
    <3>2. JobOK(job[t], window)
      BY <1>1, <2>3 DEF JobOK, OfSession
    <3> QED BY <1>1, <3>1, <3>2
  <2> QED BY <2>1, <2>2, <2>3
<1>3. job' \in [Slots -> Job]
  BY <1>2 DEF JobsWith
<1> QED BY <1>2, <1>3

(* The job of one slot changes and the windows do not.                     *)
LEMMA JobSetOK ==
    ASSUME Inv, NEW s \in Slots, NEW b \in Job, JobOK(b, terms), UNCHANGED terms,
           job' = [job EXCEPT ![s] = b]
    PROVE  job' \in [Slots -> Job] /\ JobInv'
  BY DEF Inv, TypeOK, JobInv

States == {"none", "deferred", "active"}

LEMMA LeftOK ==
    ASSUME Inv, NEW s \in Slots
    PROVE  /\ Left(job[s]) \in [SessionModes -> States]
           /\ \A m \in SessionModes : \/ Left(job[s])[m] = session[m]
                                      \/ /\ job[s].op = "redefer" /\ job[s].live /\ job[s].mode = m
                                         /\ Left(job[s])[m] = "deferred"
<1>1. session \in [SessionModes -> States]
  BY DEF Inv, TypeOK, States
<1> QED BY <1>1 DEF Left, States

LEMMA FailedOK ==
    ASSUME Inv, NEW s \in Slots, Failed(s), UNCHANGED terms
    PROVE  /\ job' \in [Slots -> Job] /\ JobInv' /\ pending' \in SessionModes \union {"none"}
           /\ session' \in [SessionModes -> States]
<1>1. job' \in [Slots -> Job] /\ JobInv'
  BY NoJobOK, JobSetOK DEF Failed
<1>2. pending' \in SessionModes \union {"none"}
  BY DEF Failed, Inv, TypeOK, JobInv, JobOK, OfSession
<1>3. session' \in [SessionModes -> States]
  BY LeftOK DEF Failed
<1> QED BY <1>1, <1>2, <1>3

LEMMA ForgottenOK ==
    ASSUME Inv, NEW ms \in SUBSET SessionModes, cache' = Forgotten(ms),
           \A m \in SessionModes \ ms : terms'[m] = terms[m]
    PROVE  cache' \in [SessionModes -> SUBSET Group] /\ CacheInv'
<1>1. cache' \in [SessionModes -> SUBSET Group]
  BY DEF Forgotten, Inv, TypeOK
<1>2. \A m \in SessionModes : cache'[m] # {} => m \notin ms /\ cache'[m] = cache[m]
  BY DEF Forgotten
<1>3. CacheInv'
  BY <1>2 DEF Inv, CacheInv
<1> QED BY <1>1, <1>3

LEMMA CancelledType ==
    ASSUME Inv, NEW ms PROVE Cancelled(ms) \in [SessionModes -> States]
  BY DEF Cancelled, Inv, TypeOK, States

LEMMA NoTermsOK == NoTerms \in TermsType /\ ~NoTerms.force
  BY ScheduleAssumption DEF NoTerms, TermsType

LEMMA TermsOK ==
    ASSUME NEW m, NEW from \in 0 .. Day, NEW to \in 0 .. Day, NEW force \in BOOLEAN
    PROVE  /\ Terms(m, from, to, force) \in TermsType /\ Terms(m, from, to, force).to = to
           /\ m = "ForceDischarge" => ~Terms(m, from, to, force).force
<1> DEFINE f == m = "ForceCharge" /\ force
<1>1. f \in BOOLEAN /\ (m = "ForceDischarge" => ~f)
  OBVIOUS
<1>2. Terms(m, from, to, force) = [from |-> from, to |-> to, force |-> f]
  BY DEF Terms
<1> HIDE DEF f
<1> QED BY <1>1, <1>2 DEF TermsType

LEMMA UnsetOK ==
    ASSUME Inv, NEW ms
    PROVE  /\ Unset(ms) \in [SessionModes -> TermsType]
           /\ ~Unset(ms)["ForceDischarge"].force
           /\ \A m \in SessionModes \ ms : Unset(ms)[m] = terms[m]
<1>1. terms \in [SessionModes -> TermsType] /\ ~terms["ForceDischarge"].force
  BY DEF Inv, TypeOK, TermsType, TermsInv
<1>2. "ForceDischarge" \in SessionModes
  BY DEF SessionModes
<1>3. \A m \in SessionModes : Unset(ms)[m] = IF m \in ms THEN NoTerms ELSE terms[m]
  BY DEF Unset
<1>4. Unset(ms) \in [SessionModes -> TermsType]
  BY <1>1, NoTermsOK DEF Unset
<1>5. Unset(ms)["ForceDischarge"] \in {NoTerms, terms["ForceDischarge"]}
  BY <1>2, <1>3
<1>6. ~Unset(ms)["ForceDischarge"].force
  BY <1>1, <1>5, NoTermsOK
<1> QED BY <1>3, <1>4, <1>6

(* A session gets its window.                                              *)
LEMMA TermsSet ==
    ASSUME NEW before \in [SessionModes -> TermsType], ~before["ForceDischarge"].force,
           NEW m \in SessionModes, NEW from \in 0 .. Day, NEW to \in 0 .. Day, NEW force \in BOOLEAN,
           terms' = [before EXCEPT ![m] = Terms(m, from, to, force)]
    PROVE  /\ terms' \in [SessionModes -> TermsType] /\ TermsInv' /\ terms'[m].to = to
           /\ \A n \in SessionModes : n # m => terms'[n] = before[n]
<1> DEFINE x == Terms(m, from, to, force)
<1>1. x \in TermsType /\ x.to = to /\ (m = "ForceDischarge" => ~x.force)
  BY TermsOK
<1>2. terms' = [before EXCEPT ![m] = x]
  OBVIOUS
<1> HIDE DEF x
<1>3. terms' \in [SessionModes -> TermsType] /\ terms'[m] = x
  BY <1>1, <1>2
<1>4. \A n \in SessionModes : n # m => terms'[n] = before[n]
  BY <1>2
<1>5. "ForceDischarge" \in SessionModes
  BY DEF SessionModes
<1>6. TermsInv'
  <2>1. CASE m = "ForceDischarge"
    BY <1>1, <1>3, <2>1 DEF TermsInv
  <2>2. CASE m # "ForceDischarge"
    <3>1. terms'["ForceDischarge"] = before["ForceDischarge"]
      BY <1>4, <1>5, <2>2
    <3> QED BY <3>1 DEF TermsInv
  <2> QED BY <2>1, <2>2
<1> QED BY <1>1, <1>3, <1>4, <1>6

(* The inductive invariant holds in the initial states.                    *)
THEOREM InvInit == Init => Inv
<1> SUFFICES ASSUME Init PROVE Inv
  OBVIOUS
<1>1. cloud \in SUBSET Group /\ CloudInv
  BY ScheduleAssumption DEF Init, CloudInv
<1>2. terms \in [SessionModes -> TermsType] /\ TermsInv
  <2>1. terms["ForceDischarge"] = NoTerms
    BY DEF Init, SessionModes
  <2> QED BY <2>1, NoTermsOK DEF Init, TermsInv
<1>3. job \in [Slots -> Job] /\ JobInv
  BY NoJobOK DEF Init, JobInv
<1>4. calls \in 0 .. MaxCalls /\ acts \in 0 .. MaxActs /\ edits \in 0 .. MaxEdits
  BY ScheduleAssumption DEF Init
<1>5. CacheInv /\ cache \in [SessionModes -> SUBSET Group]
  BY DEF Init, CacheInv
<1>6. session \in [SessionModes -> States] /\ pending = "none" /\ overlapped = FALSE
  BY DEF Init, States
<1> QED BY <1>1, <1>2, <1>3, <1>4, <1>5, <1>6 DEF Inv, TypeOK, TermsType, States

-----------------------------------------------------------------------------
(* The services.                                                           *)
Typed == /\ session \in [SessionModes -> States]
         /\ pending \in SessionModes \union {"none"} /\ overlapped \in BOOLEAN
         /\ calls \in 0 .. MaxCalls /\ acts \in 0 .. MaxActs /\ edits \in 0 .. MaxEdits

LEMMA TypeParts ==
    /\ TypeOK <=> /\ Typed /\ cloud \in SUBSET Group /\ terms \in [SessionModes -> TermsType]
                  /\ cache \in [SessionModes -> SUBSET Group] /\ job \in [Slots -> Job]
    /\ TypeOK' <=> /\ Typed' /\ cloud' \in SUBSET Group /\ terms' \in [SessionModes -> TermsType]
                   /\ cache' \in [SessionModes -> SUBSET Group] /\ job' \in [Slots -> Job]
  BY DEF TypeOK, Typed, TermsType, States

MayAsk(op, m, as, force) ==
    as = m \/ (op \in Applying /\ m = "ForceDischarge" /\ as = "SelfUse" /\ ~force)

Mergeable(op, m, pc, new, force, window) ==
    /\ op \in {"start", "feedin"} \union Applying /\ m \in OwnModes /\ Sendable(new)
    /\ op # "feedin" => m \in SessionModes
    /\ MayAsk(op, m, new.mode, force)
    /\ pc \in Before /\ (pc = "validate" => op = "start") /\ (pc = "check" => op \in Applying)
    /\ op \in Applying /\ new.mode \in Fixed(m) => new.to = window[m].to

LEMMA ToMerge ==
    ASSUME NEW op, NEW m, NEW pc, NEW new, NEW force \in BOOLEAN, NEW window,
           Mergeable(op, m, pc, new, force, window)
    PROVE  NewJob(op, m, pc, new, force) \in Job /\ JobOK(NewJob(op, m, pc, new, force), window)
<1> DEFINE b == NewJob(op, m, pc, new, force)
<1>1. new \in Group /\ m \in OwnModes
  BY DEF Sendable, Mergeable
<1>2. b = [op |-> op, mode |-> m, new |-> new, force |-> force, pc |-> pc, groups |-> {}, live |-> TRUE]
  BY DEF NewJob
<1> HIDE DEF b
<1>3. pc \in Pcs /\ pc # "write" /\ pc # "remove"
  BY DEF Pcs, Before, Mergeable
<1>4. op \in Ops
  BY DEF Ops, Applying, Mergeable
<1>5. b \in Job
  BY <1>1, <1>2, <1>3, <1>4 DEF Job, Ops, Pcs
<1>6. b.op = op /\ b.mode = m /\ b.new = new /\ b.pc = pc /\ (b.force <=> force) /\ b.live
  BY <1>2
<1>7. NewOK(b)
  BY <1>6 DEF NewOK, MayAsk, Mergeable
<1>8. op \in OfSession => m \in SessionModes
  BY DEF OfSession, Applying, Removing, Mergeable
<1>9. JobOK(b, window)
  BY <1>3, <1>6, <1>7, <1>8 DEF JobOK, Mergeable
<1> QED BY <1>5, <1>9 DEF b

LEMMA ReplaceOK ==
    ASSUME Inv, NEW s \in Slots, NEW m \in SessionModes, NEW w, NEW force \in BOOLEAN,
           w[1] \in 0 .. Day, w[2] \in 0 .. Day, w[1] < w[2], Replace(s, m, w, force)
    PROVE  /\ terms' \in [SessionModes -> TermsType] /\ TermsInv'
           /\ cache' \in [SessionModes -> SUBSET Group] /\ CacheInv'
           /\ session' \in [SessionModes -> States] /\ overlapped' \in BOOLEAN
           /\ job' \in [Slots -> Job] /\ JobInv'
<1> DEFINE new == _build_override_group(m, w[1], w[2])
           b == NewJob("start", m, "merge", new, force)
<1>1. cache' = Forgotten(SessionModes)
  BY DEF Replace
<1>2. terms' \in [SessionModes -> TermsType] /\ TermsInv'
  <2>1. Unset(SessionModes) \in [SessionModes -> TermsType] /\ ~Unset(SessionModes)["ForceDischarge"].force
    BY UnsetOK
  <2>2. CASE terms' = Unset(SessionModes)
    BY <2>1, <2>2 DEF TermsInv
  <2>3. CASE terms' = [Unset(SessionModes) EXCEPT ![m] = Terms(m, w[1], w[2], force)]
    BY <2>1, <2>3, TermsSet
  <2> QED BY <2>2, <2>3 DEF Replace
<1>3. cache' \in [SessionModes -> SUBSET Group] /\ CacheInv'
  BY <1>1, ForgottenOK
<1>4. session' \in [SessionModes -> States]
  BY CancelledType DEF Replace, States
<1>5. job' = JobsWith(s, NoJob, SessionModes) \/ job' = JobsWith(s, b, SessionModes)
  BY DEF Replace
<1>6. b \in Job /\ JobOK(b, terms')
  <2>1. m \in _MANAGED_WORK_MODES /\ m \in OwnModes
    BY DEF _MANAGED_WORK_MODES, OwnModes
  <2>2. Sendable(new) /\ new.mode = m
    BY <2>1, OverrideSendable
  <2> HIDE DEF new
  <2>3. Mergeable("start", m, "merge", new, force, terms')
    BY <2>1, <2>2 DEF Mergeable, Before, Applying, MayAsk
  <2> QED BY <2>3, ToMerge, Zenon
<1> HIDE DEF b
<1>7. job' \in [Slots -> Job] /\ \A t \in Slots : JobOK(job'[t], terms')
  <2>1. CASE job' = JobsWith(s, NoJob, SessionModes)
    BY <2>1, NoJobOK, JobsWithOK
  <2>2. CASE job' = JobsWith(s, b, SessionModes)
    BY <2>2, <1>6, JobsWithOK
  <2> QED BY <1>5, <2>1, <2>2
<1>8. overlapped' \in BOOLEAN
  <2>1. overlapped' = \E t \in Slots \ {s} : Starting(t) /\ job[t].mode # m
    BY DEF Replace
  <2> QED BY <2>1
<1> QED BY <1>2, <1>3, <1>4, <1>7, <1>8 DEF JobInv

LEMMA WindowTypes == ASSUME NEW w \in Windows PROVE w[1] \in 0 .. Day /\ w[2] \in 0 .. Day /\ w[1] < w[2]
  BY ScheduleAssumption

LEMMA InvServices == ASSUME Inv, NEW s \in Slots, Services(s) PROVE Inv'
<1>1. calls' \in 0 .. MaxCalls /\ UNCHANGED <<cloud, pending, acts, edits>>
  BY ScheduleAssumption DEF Services, _do_smart_charge, _do_smart_discharge, handle_feedin,
     handle_clear_overrides, Call, Inv, TypeOK
<1>2. CASE _do_smart_discharge(s)
  <2>1. PICK w \in Windows, force \in BOOLEAN : Replace(s, "ForceDischarge", w, force)
    BY <1>2 DEF _do_smart_discharge
  <2>2. "ForceDischarge" \in SessionModes
    BY DEF SessionModes
  <2>3. /\ terms' \in [SessionModes -> TermsType] /\ TermsInv'
        /\ cache' \in [SessionModes -> SUBSET Group] /\ CacheInv'
        /\ session' \in [SessionModes -> States] /\ overlapped' \in BOOLEAN
        /\ job' \in [Slots -> Job] /\ JobInv'
    BY <2>1, <2>2, WindowTypes, ReplaceOK
  <2> QED BY <1>1, <2>3, TypeParts DEF Inv, Typed, CloudInv
<1>3. CASE _do_smart_charge(s) \/ handle_feedin(s)
  <2>1. PICK w \in Windows, force \in BOOLEAN :
          \/ job' = [job EXCEPT ![s] = NewJob("start", "ForceCharge", "validate",
                     _build_override_group("ForceCharge", w[1], w[2]), force)]
          \/ job' = [job EXCEPT ![s] = NewJob("feedin", "Feedin", "merge",
                     _build_override_group("Feedin", w[1], w[2]), force)]
    BY <1>3 DEF _do_smart_charge, handle_feedin
  <2>2. UNCHANGED <<session, terms, cache, overlapped>>
    BY <1>3 DEF _do_smart_charge, handle_feedin
  <2>3. w[1] \in 0 .. Day /\ w[2] \in 0 .. Day /\ w[1] < w[2]
    BY WindowTypes
  <2> DEFINE newc == _build_override_group("ForceCharge", w[1], w[2])
             newf == _build_override_group("Feedin", w[1], w[2])
             charge == NewJob("start", "ForceCharge", "validate", newc, force)
             feedin == NewJob("feedin", "Feedin", "merge", newf, force)
  <2>4. charge \in Job /\ JobOK(charge, terms)
    <3>1. Sendable(newc) /\ newc.mode = "ForceCharge"
      BY <2>3, OverrideSendable DEF _MANAGED_WORK_MODES, OwnModes, SessionModes
    <3> HIDE DEF newc
    <3>2. Mergeable("start", "ForceCharge", "validate", newc, force, terms)
      BY <3>1 DEF Mergeable, OwnModes, SessionModes, Before, Applying, MayAsk
    <3> QED BY <3>2, ToMerge, Zenon
  <2>5. feedin \in Job /\ JobOK(feedin, terms)
    <3>1. Sendable(newf) /\ newf.mode = "Feedin"
      BY <2>3, OverrideSendable DEF _MANAGED_WORK_MODES, OwnModes
    <3> HIDE DEF newf
    <3>2. Mergeable("feedin", "Feedin", "merge", newf, force, terms)
      BY <3>1 DEF Mergeable, OwnModes, Before, Applying, MayAsk
    <3> QED BY <3>2, ToMerge, Zenon
  <2> HIDE DEF charge, feedin
  <2>6. job' = [job EXCEPT ![s] = charge] \/ job' = [job EXCEPT ![s] = feedin]
    BY <2>1 DEF charge, feedin
  <2>7. job' \in [Slots -> Job] /\ JobInv'
    BY <2>2, <2>4, <2>5, <2>6, JobSetOK
  <2> QED BY <1>1, <2>2, <2>7, TypeParts DEF Inv, Typed, CloudInv, CacheInv, TermsInv
<1>4. CASE handle_clear_overrides(s)
  <2>1. PICK m \in OwnModes \union {"all"}, gone \in SUBSET SessionModes :
          /\ session' = Cancelled(gone) /\ cache' = Forgotten(gone) /\ terms' = Unset(gone)
          /\ job' = JobsWith(s, Start("clear", m, "remove"), gone)
    BY <1>4 DEF handle_clear_overrides
  <2>2. UNCHANGED overlapped
    BY <1>4 DEF handle_clear_overrides
  <2>3. Start("clear", m, "remove") \in Job /\ JobOK(Start("clear", m, "remove"), terms')
    BY RemoverOK
  <2>4. /\ terms' \in [SessionModes -> TermsType] /\ TermsInv'
        /\ \A n \in SessionModes \ gone : terms'[n] = terms[n]
    BY <2>1, UnsetOK DEF TermsInv
  <2>5. job' \in [Slots -> Job] /\ \A t \in Slots : JobOK(job'[t], terms')
    BY <2>1, <2>3, <2>4, JobsWithOK
  <2>6. cache' \in [SessionModes -> SUBSET Group] /\ CacheInv'
    BY <2>1, <2>4, ForgottenOK
  <2>7. session' \in [SessionModes -> States]
    BY <2>1, CancelledType
  <2> QED BY <1>1, <2>2, <2>4, <2>5, <2>6, <2>7, TypeParts DEF Inv, Typed, CloudInv, JobInv
<1> QED BY <1>2, <1>3, <1>4 DEF Services

-----------------------------------------------------------------------------
(* The sessions.                                                           *)
LEMMA TickIs == \A m : Tick(m) \in Applying
  BY DEF Tick, Applying

LEMMA EndsLater ==
    ASSUME Day \in Nat, NEW m, terms[m].from \in 0 .. Day, terms[m].to \in 0 .. Day, NEW as,
           NEW now \in terms[m].from .. (terms[m].to - 1), NEW to \in Ends(m, as, now)
    PROVE  to \in 0 .. Day /\ now \in 0 .. Day /\ now \in Nat /\ now < to
<1>1. now \in 0 .. Day /\ now \in Nat /\ now < terms[m].to
  OBVIOUS
<1>2. CASE to = terms[m].to
  BY <1>1, <1>2
<1>3. CASE to \in (now + 1) .. terms[m].to
  BY <1>1, <1>3
<1> QED BY <1>2, <1>3 DEF Ends

(* A tick that writes what is cached, moved.                               *)
LEMMA CachedPicked ==
    ASSUME Inv, NEW s \in Slots, NEW m \in SessionModes, ApplyCached(s, m)
    PROVE  \E as, to, gs :
              /\ as \in AsksFor(m) /\ to \in 0 .. Day /\ gs \in Adjusted(cache[m], as, to)
              /\ \/ as \in Fixed(m) /\ to = terms[m].to
                 \/ as = m /\ m = "ForceDischarge" /\ \A g \in cache[m] : g.mode = m => g.from < to
              /\ as = m => \A g \in cache[m] : g.mode = m => g.from < to
              /\ cache' = [cache EXCEPT ![m] = gs]
              /\ job' = [job EXCEPT ![s] = Writing(Start(Tick(m), m, "write"), gs)]
<1>1. PICK now \in terms[m].from .. (terms[m].to - 1), as \in AsksFor(m) :
          /\ \A g \in cache[m] : g.mode = m => g.from <= now
          /\ \E to \in Ends(m, as, now) : \E gs \in Adjusted(cache[m], as, to) :
                /\ cache' = [cache EXCEPT ![m] = gs]
                /\ job' = [job EXCEPT ![s] = Writing(Start(Tick(m), m, "write"), gs)]
  BY DEF ApplyCached
<1>2. PICK to \in Ends(m, as, now) : \E gs \in Adjusted(cache[m], as, to) :
                /\ cache' = [cache EXCEPT ![m] = gs]
                /\ job' = [job EXCEPT ![s] = Writing(Start(Tick(m), m, "write"), gs)]
  BY <1>1
<1>3. PICK gs \in Adjusted(cache[m], as, to) :
                /\ cache' = [cache EXCEPT ![m] = gs]
                /\ job' = [job EXCEPT ![s] = Writing(Start(Tick(m), m, "write"), gs)]
  BY <1>2
<1>4. terms[m].from \in 0 .. Day /\ terms[m].to \in 0 .. Day /\ Day \in Nat
  BY ScheduleAssumption DEF Inv, TypeOK
<1>5. to \in 0 .. Day /\ now < to /\ now \in Nat
  BY <1>4, EndsLater
<1>6. as \in Fixed(m) => to = terms[m].to
  BY DEF Ends, Fixed, SessionModes
<1>7. as \in Fixed(m) \/ (as = m /\ m = "ForceDischarge")
  BY DEF AsksFor, Fixed
<1>8. \A g \in cache[m] : g.mode = m => g.from < to
  <2> SUFFICES ASSUME NEW g \in cache[m], g.mode = m PROVE g.from < to
    OBVIOUS
  <2>1. g.from \in Nat /\ g.from <= now
    BY <1>1, <1>4 DEF Inv, TypeOK, Group
  <2> QED BY <1>5, <2>1
<1> QED BY <1>3, <1>5, <1>6, <1>7, <1>8

LEMMA InvCached ==
    ASSUME Inv, NEW s \in Slots, NEW m \in SessionModes, ApplyCached(s, m) PROVE Inv'
<1>1. UNCHANGED <<cloud, session, terms, pending, overlapped, calls, edits>> /\ cache[m] # {}
  BY DEF ApplyCached
<1>2. acts' \in 0 .. MaxActs
  BY ScheduleAssumption DEF ApplyCached, Act, Inv, TypeOK
<1>3. PICK as, to, gs :
              /\ as \in AsksFor(m) /\ to \in 0 .. Day /\ gs \in Adjusted(cache[m], as, to)
              /\ \/ as \in Fixed(m) /\ to = terms[m].to
                 \/ as = m /\ m = "ForceDischarge" /\ \A g \in cache[m] : g.mode = m => g.from < to
              /\ cache' = [cache EXCEPT ![m] = gs]
              /\ job' = [job EXCEPT ![s] = Writing(Start(Tick(m), m, "write"), gs)]
  BY CachedPicked
<1> DEFINE end == terms[m].to
           b == Start(Tick(m), m, "write")
           q == Writing(b, gs)
<1>4. Cacheable(cache[m], m, end)
  BY <1>1 DEF Inv, CacheInv
<1>5. Cacheable(gs, m, end)
  BY <1>3, <1>4, AdjustedCacheable
<1>6. gs \in SUBSET Group
  BY <1>5 DEF Cacheable, Sendable
<1>7. b \in Job /\ b.op \in Applying /\ b.mode = m
  <2>1. m \in OwnModes /\ Tick(m) \in Applying
    BY TickIs DEF OwnModes
  <2> QED BY <2>1, SelfUseDayGroup DEF Start, NewJob, Job, Applying
<1> HIDE DEF end, b
<1>8. q \in Job
  BY <1>6, <1>7, WritingOK
<1>9. q.op = b.op /\ q.mode = m /\ q.pc = "write" /\ q.groups = gs
  BY <1>7, WritingFields
<1>10. job' = [job EXCEPT ![s] = q]
  BY <1>3 DEF b
<1> HIDE DEF q
<1>11. SentOK(q)
  BY <1>5, <1>7, <1>9 DEF SentOK, Cacheable, Applying
<1>12. JobOK(q, terms)
  BY <1>7, <1>9, <1>11 DEF JobOK, Before, Applying
<1>13. job' \in [Slots -> Job] /\ JobInv'
  BY <1>1, <1>8, <1>10, <1>12, JobSetOK
<1>14. cache \in [SessionModes -> SUBSET Group] /\ CacheInv
  BY DEF Inv, TypeOK
<1>15. \A n \in SessionModes : cache'[n] = IF n = m THEN gs ELSE cache[n]
  BY <1>3, <1>14
<1>16. cache' \in [SessionModes -> SUBSET Group]
  BY <1>3, <1>6, <1>14
<1>17. CacheInv'
  <2> SUFFICES ASSUME NEW n \in SessionModes, cache'[n] # {} PROVE Cacheable(cache'[n], n, terms[n].to)
    BY <1>1 DEF CacheInv
  <2> QED BY <1>5, <1>14, <1>15 DEF CacheInv, end
<1> QED BY <1>1, <1>2, <1>13, <1>16, <1>17, TypeParts DEF Inv, Typed, CloudInv, TermsInv

LEMMA ToCheck ==
    ASSUME NEW op \in Applying, NEW m \in SessionModes, NEW as, NEW force \in BOOLEAN,
           MayAsk(op, m, as, force), NEW from \in 0 .. Day, NEW to \in 0 .. Day, from < to,
           NEW window, as \in Fixed(m) => to = window[m].to
    PROVE  /\ NewJob(op, m, "check", _build_override_group(as, from, to), force) \in Job
           /\ JobOK(NewJob(op, m, "check", _build_override_group(as, from, to), force), window)
<1>1. as \in _MANAGED_WORK_MODES /\ m \in OwnModes
  BY DEF _MANAGED_WORK_MODES, OwnModes, MayAsk
<1>2. PICK new : new = _build_override_group(as, from, to)
  OBVIOUS
<1>3. Sendable(_build_override_group(as, from, to))
  BY <1>1, OverrideSendable
<1>4. new.mode = as /\ new.to = to
  BY <1>2 DEF _build_override_group
<1>5. Sendable(new)
  BY <1>2, <1>3
<1>6. op \in {"start", "feedin"} \union Applying /\ "check" \in Before /\ "check" # "validate"
  BY DEF Before
<1>7. MayAsk(op, m, new.mode, force) /\ (new.mode \in Fixed(m) => new.to = window[m].to)
  BY <1>4, Zenon
<1>8. Mergeable(op, m, "check", new, force, window)
  BY <1>1, <1>5, <1>6, <1>7, Zenon DEF Mergeable
<1> QED BY <1>2, <1>8, ToMerge, Zenon

LEMMA InvMerged ==
    ASSUME Inv, NEW s \in Slots, NEW m \in SessionModes, ApplyMerged(s, m) PROVE Inv'
<1>1. UNCHANGED <<cloud, session, terms, cache, pending, overlapped, calls, edits>>
  BY DEF ApplyMerged
<1>2. acts' \in 0 .. MaxActs
  BY ScheduleAssumption DEF ApplyMerged, Act, Inv, TypeOK
<1>3. PICK now \in terms[m].from .. (terms[m].to - 1), as \in AsksFor(m) :
        \E to \in Ends(m, as, now) :
          job' = [job EXCEPT ![s] = NewJob(Tick(m), m, "check",
                     _build_override_group(as, now, to), terms[m].force)]
  BY DEF ApplyMerged
<1>4. PICK to \in Ends(m, as, now) :
          job' = [job EXCEPT ![s] = NewJob(Tick(m), m, "check",
                     _build_override_group(as, now, to), terms[m].force)]
  BY <1>3
<1>5. terms \in [SessionModes -> TermsType] /\ TermsInv
  BY TypeParts DEF Inv
<1>6. terms[m].from \in 0 .. Day /\ terms[m].to \in 0 .. Day /\ Day \in Nat /\ terms[m].force \in BOOLEAN
  BY <1>5, ScheduleAssumption DEF TermsType
<1>7. now \in 0 .. Day /\ to \in 0 .. Day /\ now < to
  BY <1>6, EndsLater
<1>8. as \in Fixed(m) => to = terms[m].to
  BY DEF Ends, Fixed, SessionModes
<1>9. MayAsk(Tick(m), m, as, terms[m].force)
  BY <1>5, TickIs DEF AsksFor, TermsInv, MayAsk
<1>10. m \in OwnModes /\ "check" \in Before /\ Tick(m) \in Applying
  BY TickIs DEF OwnModes, Before
<1> DEFINE b == NewJob(Tick(m), m, "check", _build_override_group(as, now, to), terms[m].force)
<1>11. b \in Job /\ JobOK(b, terms)
  BY <1>6, <1>7, <1>8, <1>9, <1>10, ToCheck, Zenon
<1>12. job' = [job EXCEPT ![s] = b]
  BY <1>4
<1> HIDE DEF b
<1>13. job' \in [Slots -> Job] /\ JobInv'
  BY <1>1, <1>11, <1>12, JobSetOK
<1> QED BY <1>1, <1>2, <1>13, TypeParts DEF Inv, Typed, CloudInv, CacheInv, TermsInv

LEMMA InvEnds ==
    ASSUME Inv, NEW s \in Slots, NEW m \in SessionModes, EndStarted(s, m) \/ EndDeferred(s, m)
    PROVE  Inv'
<1>1. /\ UNCHANGED <<cloud, pending, overlapped, calls, edits>>
      /\ session' = Cancelled({m}) /\ cache' = Forgotten({m}) /\ terms' = Unset({m})
      /\ \/ job' = JobsWith(s, Start("end", m, "remove"), {m})
         \/ job' = JobsWith(s, NoJob, {m})
  BY DEF EndStarted, EndDeferred
<1>2. acts' \in 0 .. MaxActs
  BY ScheduleAssumption DEF EndStarted, EndDeferred, Act, Inv, TypeOK
<1>3. {m} \in SUBSET SessionModes /\ m \in OwnModes
  BY DEF OwnModes
<1>4. /\ terms' \in [SessionModes -> TermsType] /\ TermsInv'
      /\ \A n \in SessionModes \ {m} : terms'[n] = terms[n]
  BY <1>1, UnsetOK DEF TermsInv
<1>5. Start("end", m, "remove") \in Job /\ JobOK(Start("end", m, "remove"), terms')
  BY <1>3, RemoverOK
<1>6. job' \in [Slots -> Job] /\ \A t \in Slots : JobOK(job'[t], terms')
  <2>1. CASE job' = JobsWith(s, Start("end", m, "remove"), {m})
    BY <1>3, <1>4, <1>5, <2>1, JobsWithOK
  <2>2. CASE job' = JobsWith(s, NoJob, {m})
    BY <1>3, <1>4, <2>2, NoJobOK, JobsWithOK
  <2> QED BY <1>1, <2>1, <2>2
<1>7. cache' \in [SessionModes -> SUBSET Group] /\ CacheInv'
  BY <1>1, <1>3, <1>4, ForgottenOK
<1>8. session' \in [SessionModes -> States]
  BY <1>1, CancelledType
<1> QED BY <1>1, <1>2, <1>4, <1>6, <1>7, <1>8, TypeParts DEF Inv, Typed, CloudInv, JobInv

LEMMA InvRemovers ==
    ASSUME Inv, NEW s \in Slots,
           (\E m \in SessionModes : Suspend(s, m)) \/ Redefer(s) \/ _retry_pending_cleanup(s)
    PROVE  Inv'
<1>1. UNCHANGED <<cloud, session, terms, cache, pending, overlapped, calls, edits>>
  BY DEF Suspend, Redefer, _retry_pending_cleanup
<1>2. acts' \in 0 .. MaxActs
  BY ScheduleAssumption DEF Suspend, Redefer, _retry_pending_cleanup, Act, Inv, TypeOK
<1>3. PICK op \in {"cleanup"} \union Removing, m \in SessionModes :
        job' = [job EXCEPT ![s] = Start(op, m, "remove")]
  BY DEF Suspend, Redefer, _retry_pending_cleanup, Inv, TypeOK, SessionModes, Removing
<1>4. m \in OwnModes
  BY DEF OwnModes
<1>5. Start(op, m, "remove") \in Job /\ JobOK(Start(op, m, "remove"), terms)
  BY <1>4, RemoverOK
<1>6. job' \in [Slots -> Job] /\ JobInv'
  BY <1>1, <1>3, <1>5, JobSetOK
<1> QED BY <1>1, <1>2, <1>6, TypeParts DEF Inv, Typed, CloudInv, CacheInv, TermsInv

-----------------------------------------------------------------------------
(* The answers.                                                            *)
LEMMA InvFailed ==
    ASSUME Inv, NEW s \in Slots, Failed(s), UNCHANGED <<terms, cache, overlapped, calls, acts, edits>>,
           cloud' \in SUBSET Group, CloudInv'
    PROVE  Inv'
  BY FailedOK, TypeParts DEF Inv, Typed, CacheInv, TermsInv

LEMMA InvValidate == ASSUME Inv, NEW s \in Slots, Validate(s) PROVE Inv'
<1> DEFINE b == job[s]
<1>1. UNCHANGED <<cloud, calls, acts, edits>> /\ b.pc = "validate"
  BY DEF Validate
<1>2. b \in Job /\ JobOK(b, terms)
  BY DEF Inv, TypeOK, JobInv
<1>3. CASE Failed(s) /\ UNCHANGED <<terms, cache, overlapped>>
  BY <1>1, <1>3, InvFailed DEF Inv, TypeOK, CloudInv
<1>4. CASE Replace(s, b.mode, <<b.new.from, b.new.to>>, b.force) /\ UNCHANGED pending
  <2> DEFINE w == <<b.new.from, b.new.to>>
  <2>1. Sendable(b.new) /\ b.mode \in SessionModes
    BY <1>1, <1>2 DEF JobOK, NewOK, Before, OfSession
  <2>2. b.force \in BOOLEAN
    BY <1>2 DEF Job
  <2>3. w[1] \in 0 .. Day /\ w[2] \in 0 .. Day /\ w[1] < w[2]
    BY <2>1, SendableTypes
  <2> HIDE DEF b
  <2>4. Replace(s, b.mode, w, b.force)
    BY <1>4
  <2> HIDE DEF w
  <2>5. /\ terms' \in [SessionModes -> TermsType] /\ TermsInv'
        /\ cache' \in [SessionModes -> SUBSET Group] /\ CacheInv'
        /\ session' \in [SessionModes -> States] /\ overlapped' \in BOOLEAN
        /\ job' \in [Slots -> Job] /\ JobInv'
    BY <2>1, <2>2, <2>3, <2>4, ReplaceOK
  <2> QED BY <1>1, <1>4, <2>5, TypeParts DEF Inv, Typed, CloudInv
<1> QED BY <1>3, <1>4 DEF Validate

LEMMA InvCheck == ASSUME Inv, NEW s \in Slots, Check(s) PROVE Inv'
<1> DEFINE b == job[s]
           q == job'[s]
<1>1. UNCHANGED <<cloud, terms, cache, overlapped, calls, acts, edits>> /\ b.pc = "check"
  BY DEF Check
<1>2. b \in Job /\ JobOK(b, terms)
  BY DEF Inv, TypeOK, JobInv
<1>3. CASE Failed(s)
  BY <1>1, <1>3, InvFailed DEF Inv, TypeOK, CloudInv
<1>4. CASE job' = [job EXCEPT ![s].pc = "merge"] /\ UNCHANGED <<session, pending>>
  <2>1. q = [b EXCEPT !.pc = "merge"] /\ job' = [job EXCEPT ![s] = q]
    BY <1>4 DEF Inv, TypeOK
  <2> HIDE DEF b, q
  <2>2. /\ q \in Job /\ q.op = b.op /\ q.mode = b.mode /\ q.pc = "merge" /\ q.new = b.new
        /\ (q.live <=> b.live) /\ (q.force <=> b.force)
    BY <1>2, <2>1 DEF Job
  <2>3. NewOK(b) => NewOK(q)
    BY <2>2 DEF NewOK
  <2>4. JobOK(q, terms)
    BY <1>1, <1>2, <2>2, <2>3 DEF JobOK, Before
  <2>5. job' \in [Slots -> Job] /\ JobInv'
    BY <1>1, <2>1, <2>2, <2>4, JobSetOK
  <2> QED BY <1>1, <1>4, <2>5, TypeParts DEF Inv, Typed, CloudInv, CacheInv, TermsInv
<1> QED BY <1>3, <1>4 DEF Check

LEMMA InvMerge == ASSUME Inv, NEW s \in Slots, Merge(s) PROVE Inv'
<1> DEFINE b == job[s]
           gs == _merge_with_existing(cloud, b.new)
           q == Writing(b, gs)
<1>1. UNCHANGED <<cloud, terms, overlapped, calls, acts, edits>> /\ b.pc = "merge"
  BY DEF Merge
<1>2. b \in Job /\ JobOK(b, terms)
  BY DEF Inv, TypeOK, JobInv
<1>3. CASE Failed(s) /\ UNCHANGED cache
  BY <1>1, <1>3, InvFailed DEF Inv, TypeOK, CloudInv
<1>4. CASE ~MergeRaises(cloud, b.new, b.force) /\ ~(Failed(s) /\ UNCHANGED cache)
  <2>1. /\ job' = [job EXCEPT ![s] = q] /\ UNCHANGED <<session, pending>>
        /\ cache' = IF b.op \in Applying /\ b.live THEN [cache EXCEPT ![b.mode] = gs] ELSE cache
    BY <1>4 DEF Merge
  <2>2. /\ NewOK(b) /\ b.force \in BOOLEAN
        /\ b.op \in {"start"} \union Applying => b.mode \in SessionModes
        /\ b.op \in Applying /\ b.live /\ b.new.mode \in Fixed(b.mode) => b.new.to = terms[b.mode].to
    BY <1>1, <1>2 DEF JobOK, Before, Job, OfSession
  <2>3. Sendable(b.new) /\ b.op \in {"start", "feedin"} \union Applying
    BY <2>2 DEF NewOK
  <2>4. cloud \in SUBSET Group /\ Apart(cloud) /\ \A g \in cloud : g.from <= g.to
    BY DEF Inv, TypeOK, CloudInv
  <2>5. Sent(gs)
    BY <1>4, <2>2, <2>3, <2>4, MergeSent
  <2>6. ASSUME b.op \in {"start"} \union Applying, NEW to,
               b.new.mode \in Fixed(b.mode) => b.new.to = to
        PROVE  Cacheable(gs, b.mode, to)
    <3>1. b.mode \in SessionModes
      BY <2>2, <2>6
    <3>2. b.new.mode = b.mode \/ (b.mode = "ForceDischarge" /\ b.new.mode = "SelfUse")
      BY <2>2 DEF NewOK
    <3> HIDE DEF b
    <3> QED BY <1>4, <2>2, <2>3, <2>4, <2>6, <3>1, <3>2, MergedCacheable
  <2>7. b.op \in Applying /\ b.live => Cacheable(gs, b.mode, terms[b.mode].to)
    BY <2>2, <2>6
  <2>8. b.op = "start" => EndsAt(gs, b.mode, b.new.to)
    BY <2>6 DEF Cacheable
  <2>9. gs \in SUBSET Group
    BY <2>5 DEF Sent, Sendable
  <2> HIDE DEF b, gs
  <2>10. /\ q.op = b.op /\ q.mode = b.mode /\ q.pc = "write" /\ q.groups = gs
         /\ q.new = b.new /\ (q.live <=> b.live)
    BY <1>2, WritingFields
  <2>11. q \in Job
    BY <1>2, <2>9, WritingOK
  <2> HIDE DEF q
  <2>12. SentOK(q)
    BY <2>5, <2>8, <2>10 DEF SentOK, Sent, Near, Apart
  <2>13. JobOK(q, terms)
    BY <1>2, <2>10, <2>12 DEF JobOK, Before
  <2>14. job' \in [Slots -> Job] /\ JobInv'
    BY <1>1, <2>1, <2>11, <2>13, JobSetOK
  <2>15. cache \in [SessionModes -> SUBSET Group] /\ CacheInv
    BY DEF Inv, TypeOK
  <2>16. CASE b.op \in Applying /\ b.live
    <3>1. cache' = [cache EXCEPT ![b.mode] = gs]
      BY <2>1, <2>16
    <3>2. \A n \in SessionModes : cache'[n] = IF n = b.mode THEN gs ELSE cache[n]
      BY <2>15, <3>1
    <3>3. CacheInv'
      <4> SUFFICES ASSUME NEW n \in SessionModes, cache'[n] # {} PROVE Cacheable(cache'[n], n, terms[n].to)
        BY <1>1 DEF CacheInv
      <4> QED BY <2>7, <2>15, <2>16, <3>2 DEF CacheInv
    <3>4. cache' \in [SessionModes -> SUBSET Group]
      BY <2>9, <2>15, <3>1
    <3> QED BY <1>1, <2>1, <2>14, <3>3, <3>4, TypeParts DEF Inv, Typed, CloudInv, TermsInv
  <2>17. CASE ~(b.op \in Applying /\ b.live)
    <3>1. cache' = cache
      BY <2>1, <2>17
    <3> QED BY <1>1, <2>1, <2>14, <2>15, <3>1, TypeParts DEF Inv, Typed, CloudInv, TermsInv, CacheInv
  <2> QED BY <2>16, <2>17
<1> QED BY <1>3, <1>4 DEF Merge

LEMMA InvRemove == ASSUME Inv, NEW s \in Slots, Remove(s) PROVE Inv'
<1> DEFINE b == job[s]
           gs == IF b.mode = "all" THEN {SelfUseDay} ELSE _remove_mode_from_schedule(cloud, b.mode)
           q == Writing(b, gs)
<1>1. UNCHANGED <<cloud, terms, cache, overlapped, calls, acts, edits>> /\ b.pc = "remove"
  BY DEF Remove
<1>2. b \in Job /\ JobOK(b, terms)
  BY DEF Inv, TypeOK, JobInv
<1>3. CASE Failed(s)
  BY <1>1, <1>3, InvFailed DEF Inv, TypeOK, CloudInv
<1>4. CASE _check_schedule_safe(cloud) /\ job' = [job EXCEPT ![s] = q] /\ UNCHANGED <<session, pending>>
  <2>1. Sent(gs)
    BY <1>4, SelfUseDaySent, RemoveSent DEF Inv, TypeOK, CloudInv
  <2>2. b.op \notin {"start"} \union Applying
    BY <1>1, <1>2 DEF JobOK
  <2>3. gs \in SUBSET Group
    BY <2>1 DEF Sent, Sendable
  <2> HIDE DEF b, gs
  <2>4. /\ q.op = b.op /\ q.mode = b.mode /\ q.pc = "write" /\ q.groups = gs
    BY <1>2, WritingFields
  <2>5. q \in Job
    BY <1>2, <2>3, WritingOK
  <2> HIDE DEF q
  <2>6. SentOK(q)
    BY <2>1, <2>2, <2>4 DEF SentOK, Sent, Near, Apart
  <2>7. JobOK(q, terms)
    BY <1>2, <2>2, <2>4, <2>6 DEF JobOK, Before
  <2>8. job' \in [Slots -> Job] /\ JobInv'
    BY <1>1, <1>4, <2>5, <2>7, JobSetOK
  <2> QED BY <1>1, <1>4, <2>8, TypeParts DEF Inv, Typed, CloudInv, CacheInv, TermsInv
<1> QED BY <1>3, <1>4 DEF Remove

(* What the API takes is a schedule.                                       *)
LEMMA TakenOK ==
    ASSUME Inv, NEW s \in Slots, job[s].pc = "write", Apart(job[s].groups), cloud' = job[s].groups
    PROVE  cloud' \in SUBSET Group /\ CloudInv'
<1>1. \A g \in job[s].groups : Sendable(g)
  BY DEF Inv, JobInv, JobOK, SentOK
<1>2. \A g \in job[s].groups : g \in Group /\ g.from <= g.to
  BY <1>1, SendableTypes
<1> QED BY <1>2 DEF CloudInv

LEMMA InvWrite == ASSUME Inv, NEW s \in Slots, Write(s) PROVE Inv'
<1> DEFINE b == job[s]
           ms == IF b.op = "start" THEN {b.mode} ELSE {}
<1>1. /\ UNCHANGED <<overlapped, calls, acts, edits>> /\ b.pc = "write" /\ cloud' = b.groups
      /\ Apart(b.groups) /\ job' = JobsWith(s, NoJob, ms)
  BY DEF Write
<1>2. /\ session' \in {Left(b), [session EXCEPT ![b.mode] = "active"]}
      /\ pending' \in {"none", pending}
  BY DEF Write, PendingAfter
<1>3. /\ terms' = IF b.op = "start" THEN [terms EXCEPT ![b.mode] = Terms(b.mode, b.new.from, b.new.to, b.force)]
                  ELSE terms
      /\ \/ b.op = "start" /\ cache' = [cache EXCEPT ![b.mode] = b.groups]
         \/ b.op # "start" /\ cache' \in {cache, [cache EXCEPT ![b.mode] = {}]}
  BY DEF Write, Removing
<1>4. b \in Job /\ JobOK(b, terms)
  BY DEF Inv, TypeOK, JobInv
<1>5. cloud' \in SUBSET Group /\ CloudInv'
  BY <1>1, TakenOK
<1>6. Typed'
  <2>1. Left(b) \in [SessionModes -> States]
    BY LeftOK
  <2>2. [session EXCEPT ![b.mode] = "active"] \in [SessionModes -> States]
    BY DEF Inv, TypeOK, States
  <2> QED BY <1>1, <1>2, <2>1, <2>2 DEF Inv, TypeOK, Typed
<1>7. /\ SentOK(b) /\ b.groups \in SUBSET Group /\ b.force \in BOOLEAN /\ b.new \in Group
      /\ b.op = "start" => b.mode \in SessionModes
  BY <1>1, <1>4 DEF JobOK, Job, OfSession
<1> HIDE DEF b
<1>8. /\ terms' \in [SessionModes -> TermsType] /\ TermsInv'
      /\ b.op = "start" => terms'[b.mode].to = b.new.to
      /\ \A m \in SessionModes \ ms : terms'[m] = terms[m]
  <2>1. b.new.from \in 0 .. Day /\ b.new.to \in 0 .. Day
    BY <1>7 DEF Group
  <2>2. terms \in [SessionModes -> TermsType] /\ ~terms["ForceDischarge"].force
    BY TypeParts DEF Inv, TermsInv
  <2>3. CASE b.op = "start"
    <3>1. terms' = [terms EXCEPT ![b.mode] = Terms(b.mode, b.new.from, b.new.to, b.force)]
      BY <1>3, <2>3
    <3>2. b.mode \in SessionModes /\ b.force \in BOOLEAN
      BY <1>7, <2>3
    <3>3. /\ terms' \in [SessionModes -> TermsType] /\ TermsInv' /\ terms'[b.mode].to = b.new.to
          /\ \A n \in SessionModes : n # b.mode => terms'[n] = terms[n]
      BY <2>1, <2>2, <3>1, <3>2, TermsSet
    <3> QED BY <2>3, <3>3
  <2>4. CASE b.op # "start"
    BY <1>3, <2>2, <2>4 DEF TermsInv
  <2> QED BY <2>3, <2>4
<1>9. job' \in [Slots -> Job] /\ \A t \in Slots : JobOK(job'[t], terms')
  <2>1. ms \in SUBSET SessionModes
    BY <1>7
  <2> HIDE DEF ms
  <2> QED BY <1>1, <1>8, <2>1, NoJobOK, JobsWithOK
<1>10. cache \in [SessionModes -> SUBSET Group] /\ CacheInv
  BY DEF Inv, TypeOK
<1>11. cache' \in [SessionModes -> SUBSET Group] /\ CacheInv'
  <2>1. CASE b.op = "start"
    <3>1. Cacheable(b.groups, b.mode, b.new.to)
      BY <1>7, <2>1 DEF SentOK, Cacheable, Near, Applying
    <3>2. \A n \in SessionModes : cache'[n] = IF n = b.mode THEN b.groups ELSE cache[n]
      BY <1>3, <1>10, <2>1
    <3>3. CacheInv'
      <4> SUFFICES ASSUME NEW n \in SessionModes, cache'[n] # {}
                   PROVE  Cacheable(cache'[n], n, terms'[n].to)
        BY DEF CacheInv
      <4>1. CASE n = b.mode
        BY <1>8, <2>1, <3>1, <3>2, <4>1
      <4>2. CASE n # b.mode
        BY <1>8, <1>10, <2>1, <3>2, <4>2 DEF CacheInv
      <4> QED BY <4>1, <4>2
    <3>4. cache' \in [SessionModes -> SUBSET Group]
      BY <1>3, <1>7, <1>10, <2>1
    <3> QED BY <3>3, <3>4
  <2>2. CASE b.op # "start"
    <3>1. cache' \in [SessionModes -> SUBSET Group]
      BY <1>3, <1>10, <2>2
    <3>2. \A n \in SessionModes : cache'[n] \in {{}, cache[n]}
      BY <1>3, <1>10, <2>2
    <3>3. UNCHANGED terms
      BY <1>3, <2>2
    <3> QED BY <1>10, <3>1, <3>2, <3>3 DEF CacheInv
  <2> QED BY <2>1, <2>2
<1> QED BY <1>5, <1>6, <1>8, <1>9, <1>11, TypeParts DEF Inv, JobInv

LEMMA InvFaults == ASSUME Inv, NEW s \in Slots, Fault(s) \/ PostRetried(s) PROVE Inv'
<1>1. CASE ReadFails(s) \/ WriteFails(s)
  BY <1>1, InvFailed DEF ReadFails, WriteFails, Inv, TypeOK, CloudInv
<1>2. CASE ReplyLost(s)
  BY <1>2, TakenOK, InvFailed DEF ReplyLost
<1>3. CASE PostRetried(s)
  BY <1>3, TakenOK, TypeParts DEF PostRetried, Inv, Typed, CacheInv, JobInv, TermsInv
<1> QED BY <1>1, <1>2, <1>3 DEF Fault

LEMMA InvApp == ASSUME Inv, App PROVE Inv'
<1>1. UNCHANGED <<session, terms, cache, job, pending, overlapped, calls, acts>> /\ edits' \in 0 .. MaxEdits
  BY ScheduleAssumption DEF App, Inv, TypeOK
<1>2. cloud' \in SUBSET Group /\ CloudInv'
  <2>1. CASE \E g \in AppGroups : /\ \A h \in cloud : ~_groups_overlap(g, h)
                                 /\ cloud' = cloud \union {g}
    <3>1. PICK g \in AppGroups : /\ \A h \in cloud : ~_groups_overlap(g, h) /\ ~_groups_overlap(h, g)
                                /\ cloud' = cloud \union {g}
      BY <2>1 DEF _groups_overlap
    <3>2. g \in Group /\ g.from <= g.to
      BY ScheduleAssumption
    <3> QED BY <3>1, <3>2 DEF Inv, TypeOK, CloudInv, Apart
  <2>2. CASE \E g \in cloud : cloud' = cloud \ {g}
    BY <2>2 DEF Inv, TypeOK, CloudInv, Apart
  <2> QED BY <2>1, <2>2 DEF App
<1> QED BY <1>1, <1>2, TypeParts DEF Inv, Typed, CacheInv, JobInv, TermsInv

LEMMA InvStutter == ASSUME Inv, UNCHANGED vars PROVE Inv'
  BY TypeParts DEF vars, Inv, Typed, CloudInv, CacheInv, JobInv, TermsInv

(* Every step keeps it.                                                    *)
THEOREM InvInductive == Inv /\ [Next]_vars => Inv'
<1> SUFFICES ASSUME Inv, [Next]_vars PROVE Inv'
  OBVIOUS
<1>1. CASE App
  BY <1>1, InvApp
<1>2. CASE UNCHANGED vars
  BY <1>2, InvStutter
<1>3. ASSUME NEW s \in Slots, Services(s) PROVE Inv'
  BY <1>3, InvServices
<1>4. ASSUME NEW s \in Slots, Session(s) PROVE Inv'
  <2>1. ASSUME NEW m \in SessionModes, ApplyCached(s, m) PROVE Inv'
    BY <2>1, InvCached
  <2>2. ASSUME NEW m \in SessionModes, ApplyMerged(s, m) PROVE Inv'
    BY <2>2, InvMerged
  <2>3. ASSUME NEW m \in SessionModes, EndStarted(s, m) \/ EndDeferred(s, m) PROVE Inv'
    BY <2>3, InvEnds
  <2>4. CASE (\E m \in SessionModes : Suspend(s, m)) \/ Redefer(s)
    BY <2>4, InvRemovers
  <2> QED BY <1>4, <2>1, <2>2, <2>3, <2>4 DEF Session
<1>5. ASSUME NEW s \in Slots, _retry_pending_cleanup(s) PROVE Inv'
  BY <1>5, InvRemovers
<1>6. ASSUME NEW s \in Slots, Answer(s) PROVE Inv'
  BY <1>6, InvValidate, InvCheck, InvMerge, InvRemove, InvWrite DEF Answer
<1>7. ASSUME NEW s \in Slots, Fault(s) \/ PostRetried(s) PROVE Inv'
  BY <1>7, InvFaults
<1> QED BY <1>1, <1>2, <1>3, <1>4, <1>5, <1>6, <1>7 DEF Next

-----------------------------------------------------------------------------
(* Each schedule that is sent, by however many operations under way        *)
(* together, is made of groups the API accepts, and its groups are apart   *)
(* but where a discharge that was cached is sent with a later end.         *)
THEOREM SentSchedulesValid == Spec => []SendsValid
<1>1. Inv => SendsValid
  <2> SUFFICES ASSUME Inv, NEW s \in Slots, job[s].pc = "write"
               PROVE  /\ job[s].groups # {} /\ \A g \in job[s].groups : WellFormed(g)
                      /\ \A g, h \in job[s].groups : g # h /\ _groups_overlap(g, h)
                            => RunsInto(job[s], g, h) \/ RunsInto(job[s], h, g)
    BY DEF SendsValid
  <2>1. SentOK(job[s])
    BY DEF Inv, JobInv, JobOK
  <2>2. job[s].groups # {} /\ \A g \in job[s].groups : WellFormed(g)
    BY <2>1 DEF SentOK, Sendable
  <2>3. ASSUME NEW g \in job[s].groups, NEW h \in job[s].groups, g # h, _groups_overlap(g, h)
        PROVE  RunsInto(job[s], g, h) \/ RunsInto(job[s], h, g)
    BY <2>1, <2>3 DEF SentOK, Near, RunsInto
  <2> QED BY <2>2, <2>3
<1> QED BY <1>1, InvInit, InvInductive, PTL DEF Spec

(* The type invariant.                                                     *)
THEOREM TypeCorrect == Spec => []TypeOK
<1>1. Inv => TypeOK
  BY DEF Inv
<1> QED BY <1>1, InvInit, InvInductive, PTL DEF Spec

-----------------------------------------------------------------------------
(* A session is claimed by itself, and by the service that has cancelled   *)
(* both sessions and not yet started it.  Two are claimed only after two   *)
(* services have overlapped; and a call that is live has its session.      *)
Claims(m) == session[m] # "none" \/ \E t \in Slots : Starting(t) /\ job[t].mode = m
Middle == Applying \union Removing

OneClaim == ~overlapped => \A m, n \in SessionModes : Claims(m) /\ Claims(n) => m = n
LiveInv == \A t \in Slots : job[t].op \in Middle /\ job[t].live => session[job[t].mode] # "none"
Single == OneClaim /\ LiveInv

StartsAs(b, c) ==
    b.op = "start" /\ b.pc \in {"merge", "write"} =>
        c.op = "start" /\ c.pc \in {"merge", "write"} /\ c.mode = b.mode

LEMMA NoJobStarts == \A c : StartsAs(NoJob, c)
  BY NoJobOK DEF StartsAs

(* What the jobs of the other slots are after a step of slot s.            *)
LEMMA OthersAre ==
    ASSUME Inv, NEW s \in Slots, NEW b, NEW ms,
           job' = JobsWith(s, b, ms), NEW t \in Slots, t # s
    PROVE  /\ job'[t].op = job[t].op /\ job'[t].pc = job[t].pc /\ job'[t].mode = job[t].mode
           /\ job'[t].live /\ job[t].op \in Middle => job[t].live /\ job[t].mode \notin ms
<1>1. job[t] \in Job
  BY DEF Inv, TypeOK
<1>2. CASE job[t].op \in Middle /\ job[t].mode \in ms
  <2>1. job'[t] = [job[t] EXCEPT !.live = FALSE]
    BY <1>2 DEF JobsWith, Middle
  <2> QED BY <1>1, <2>1 DEF Job
<1>3. CASE ~(job[t].op \in Middle /\ job[t].mode \in ms)
  <2>1. job'[t] = job[t]
    BY <1>3 DEF JobsWith, Middle
  <2> QED BY <1>3, <2>1
<1> QED BY <1>2, <1>3

LEMMA JobsWithSelf ==
    ASSUME NEW s \in Slots, NEW b, NEW ms, job' = JobsWith(s, b, ms) PROVE job'[s] = b
  BY DEF JobsWith

LEMMA JobsWithNone ==
    ASSUME Inv, NEW s \in Slots, NEW b, job' = [job EXCEPT ![s] = b] PROVE job' = JobsWith(s, b, {})
  BY DEF JobsWith, Inv, TypeOK

(* A step that claims no session more keeps both.                          *)
LEMMA SlotStep ==
    ASSUME Inv, Single, NEW s \in Slots, NEW b, NEW ms \in SUBSET SessionModes,
           job' = JobsWith(s, b, ms), UNCHANGED overlapped, StartsAs(b, job[s]),
           \A m \in SessionModes : session'[m] # "none" => Claims(m),
           \A m \in SessionModes \ ms : session[m] # "none" => session'[m] # "none",
           b.op \in Middle => session'[b.mode] # "none"
    PROVE  Single'
<1>1. job'[s] = b
  BY JobsWithSelf
<1>2. \A t \in Slots : t # s =>
        /\ job'[t].op = job[t].op /\ job'[t].pc = job[t].pc /\ job'[t].mode = job[t].mode
        /\ job'[t].live /\ job[t].op \in Middle => job[t].live /\ job[t].mode \notin ms
  BY OthersAre
<1>3. ASSUME NEW m \in SessionModes, Claims(m)' PROVE Claims(m)
  <2>1. CASE session'[m] # "none"
    BY <2>1
  <2>2. ASSUME NEW t \in Slots, Starting(t)', job'[t].mode = m PROVE Claims(m)
    <3>1. CASE t = s
      BY <1>1, <2>2, <3>1 DEF StartsAs, Starting, Claims
    <3>2. CASE t # s
      BY <1>2, <2>2, <3>2 DEF Starting, Claims
    <3> QED BY <3>1, <3>2
  <2> QED BY <1>3, <2>1, <2>2 DEF Claims
<1>4. OneClaim'
  BY <1>3 DEF Single, OneClaim
<1>5. ASSUME NEW t \in Slots, job'[t].op \in Middle, job'[t].live
      PROVE  session'[job'[t].mode] # "none"
  <2>1. CASE t = s
    BY <1>1, <1>5, <2>1
  <2>2. CASE t # s
    <3>1. /\ job[t].op \in Middle /\ job[t].live /\ job[t].mode \notin ms
          /\ job'[t].mode = job[t].mode
      BY <1>2, <1>5, <2>2
    <3>2. job[t].mode \in SessionModes
      BY <3>1 DEF Inv, JobInv, JobOK, OfSession, Middle
    <3> QED BY <3>1, <3>2 DEF Single, LiveInv
  <2> QED BY <2>1, <2>2
<1> QED BY <1>4, <1>5 DEF Single, LiveInv

LEMMA SameStep ==
    ASSUME Single, UNCHANGED <<session, job, overlapped>> PROVE Single'
  BY DEF Single, OneClaim, LiveInv, Claims, Starting

(* A job that answers and the sessions as they are.                        *)
LEMMA AnswerStep ==
    ASSUME Inv, Single, NEW s \in Slots, NEW b, job' = [job EXCEPT ![s] = b], UNCHANGED overlapped,
           StartsAs(b, job[s]), \A m \in SessionModes : session'[m] # "none" <=> session[m] # "none",
           b.op \in Middle => session'[b.mode] # "none"
    PROVE  Single'
<1>1. job' = JobsWith(s, b, {})
  BY JobsWithNone
<1> QED BY <1>1, SlotStep DEF Claims

(* A charge put off again was there.                                       *)
LEMMA LeftSame ==
    ASSUME Inv, Single, NEW s \in Slots
    PROVE  \A m \in SessionModes : Left(job[s])[m] # "none" <=> session[m] # "none"
<1> SUFFICES ASSUME NEW m \in SessionModes PROVE Left(job[s])[m] # "none" <=> session[m] # "none"
  OBVIOUS
<1>1. CASE Left(job[s])[m] = session[m]
  BY <1>1
<1>2. CASE /\ job[s].op = "redefer" /\ job[s].live /\ job[s].mode = m
           /\ Left(job[s])[m] = "deferred"
  BY <1>2 DEF Single, LiveInv, Middle, Removing
<1> QED BY <1>1, <1>2, LeftOK

LEMMA FailedStep ==
    ASSUME Inv, Single, NEW s \in Slots, Failed(s), UNCHANGED overlapped PROVE Single'
<1>1. job' = [job EXCEPT ![s] = NoJob] /\ session' = Left(job[s])
  BY DEF Failed
<1>2. NoJob.op \notin Middle
  BY NoJobOK DEF Middle, Applying, Removing
<1> QED BY <1>1, <1>2, LeftSame, NoJobStarts, AnswerStep

(* A service that cancels both sessions leaves its own, and those of the   *)
(* services that are about to start one.                                   *)
LEMMA ReplaceSingle ==
    ASSUME Inv, Single, NEW s \in Slots, NEW m \in SessionModes, NEW w, NEW force, Replace(s, m, w, force)
    PROVE  Single'
<1> DEFINE new == _build_override_group(m, w[1], w[2])
<1>1. PICK b \in {NoJob, NewJob("start", m, "merge", new, force)} :
        job' = JobsWith(s, b, SessionModes)
  BY DEF Replace
<1>2. b.op \notin Middle /\ (b = NoJob \/ b.mode = m)
  BY <1>1, NoJobOK DEF NewJob, Middle, Applying, Removing
<1>3. job'[s] = b
  BY <1>1, JobsWithSelf
<1>4. \A t \in Slots : t # s =>
        /\ job'[t].op = job[t].op /\ job'[t].pc = job[t].pc /\ job'[t].mode = job[t].mode
        /\ job'[t].live /\ job[t].op \in Middle => job[t].live /\ job[t].mode \notin SessionModes
  BY <1>1, OthersAre
<1>5. \A n \in SessionModes : session'[n] # "none" => n = m
  BY DEF Replace, Cancelled
<1>6. ~overlapped' => \A t \in Slots \ {s} : Starting(t) => job[t].mode = m
  BY DEF Replace
<1>7. ASSUME ~overlapped', NEW n \in SessionModes, Claims(n)' PROVE n = m
  <2>1. CASE session'[n] # "none"
    BY <1>5, <2>1
  <2>2. ASSUME NEW t \in Slots, Starting(t)', job'[t].mode = n PROVE n = m
    <3>1. CASE t = s
      BY <1>2, <1>3, <2>2, <3>1, NoJobOK DEF Starting
    <3>2. CASE t # s
      BY <1>4, <1>6, <1>7, <2>2, <3>2 DEF Starting
    <3> QED BY <3>1, <3>2
  <2> QED BY <1>7, <2>1, <2>2 DEF Claims
<1>8. OneClaim'
  BY <1>7 DEF OneClaim
<1>9. LiveInv'
  <2> SUFFICES ASSUME NEW t \in Slots, job'[t].op \in Middle, job'[t].live PROVE FALSE
    BY DEF LiveInv
  <2>1. t # s
    BY <1>2, <1>3
  <2>2. job[t].op \in Middle /\ job[t].mode \notin SessionModes
    BY <1>4, <2>1
  <2> QED BY <2>2 DEF Inv, JobInv, JobOK, OfSession, Middle
<1> QED BY <1>8, <1>9 DEF Single

LEMMA CancelledLess ==
    ASSUME NEW ms, session' = Cancelled(ms)
    PROVE  /\ \A m \in SessionModes : session'[m] # "none" => Claims(m)
           /\ \A m \in SessionModes \ ms : session[m] # "none" => session'[m] # "none"
  BY DEF Cancelled, Claims

LEMMA SingleServices == ASSUME Inv, Single, NEW s \in Slots, Services(s) PROVE Single'
<1>1. CASE _do_smart_discharge(s)
  BY <1>1, ReplaceSingle DEF _do_smart_discharge, SessionModes
<1>2. ASSUME NEW op \in {"start", "feedin"}, NEW m, NEW pc, NEW new, NEW force,
             job' = [job EXCEPT ![s] = NewJob(op, m, pc, new, force)], op = "start" => pc = "validate",
             UNCHANGED <<session, overlapped>>
      PROVE  Single'
  <2> DEFINE b == NewJob(op, m, pc, new, force)
  <2>1. b.op = op /\ b.pc = pc
    BY DEF NewJob
  <2>2. StartsAs(b, job[s]) /\ b.op \notin Middle
    BY <1>2, <2>1 DEF StartsAs, Middle, Applying, Removing
  <2>3. job' = [job EXCEPT ![s] = b]
    BY <1>2
  <2> HIDE DEF b
  <2> QED BY <1>2, <2>2, <2>3, AnswerStep
<1>4. CASE _do_smart_charge(s)
  BY <1>2, <1>4 DEF _do_smart_charge
<1>5. CASE handle_feedin(s)
  BY <1>2, <1>5 DEF handle_feedin
<1>3. CASE handle_clear_overrides(s)
  <2>1. PICK m \in OwnModes \union {"all"}, gone \in SUBSET SessionModes :
          session' = Cancelled(gone) /\ job' = JobsWith(s, Start("clear", m, "remove"), gone)
    BY <1>3 DEF handle_clear_overrides
  <2> DEFINE b == Start("clear", m, "remove")
  <2>2. b.op = "clear"
    BY RemoverOK
  <2>3. StartsAs(b, job[s]) /\ b.op \notin Middle
    BY <2>2 DEF StartsAs, Middle, Applying, Removing
  <2>4. UNCHANGED overlapped /\ job' = JobsWith(s, b, gone)
    BY <1>3, <2>1 DEF handle_clear_overrides
  <2> HIDE DEF b
  <2> QED BY <2>1, <2>3, <2>4, CancelledLess, SlotStep
<1> QED BY <1>1, <1>3, <1>4, <1>5 DEF Services

LEMMA SingleSession ==
    ASSUME Inv, Single, NEW s \in Slots, Session(s) \/ _retry_pending_cleanup(s) PROVE Single'
<1>1. ASSUME NEW b, job' = [job EXCEPT ![s] = b], UNCHANGED <<session, overlapped>>,
             b.op \in Middle \union {"cleanup"}, b.op \in Middle => session[b.mode] # "none"
      PROVE  Single'
  <2>1. StartsAs(b, job[s])
    BY <1>1 DEF StartsAs, Middle, Applying, Removing
  <2> QED BY <1>1, <2>1, AnswerStep
<1>2. ASSUME NEW m \in SessionModes, ApplyCached(s, m) PROVE Single'
  <2>1. PICK gs : job' = [job EXCEPT ![s] = Writing(Start(Tick(m), m, "write"), gs)]
    BY <1>2 DEF ApplyCached
  <2> DEFINE q == Start(Tick(m), m, "write")
             b == Writing(q, gs)
  <2>2. q = [op |-> Tick(m), mode |-> m, new |-> SelfUseDay, force |-> FALSE, pc |-> "write",
             groups |-> {}, live |-> TRUE]
    BY DEF Start, NewJob
  <2> HIDE DEF q
  <2>3. b = [q EXCEPT !.pc = "write", !.groups = gs]
    BY DEF Writing
  <2>4. b.op = Tick(m) /\ b.mode = m
    BY <2>2, <2>3
  <2>5. UNCHANGED <<session, overlapped>> /\ session[m] # "none" /\ job' = [job EXCEPT ![s] = b]
    BY <1>2, <2>1 DEF ApplyCached, q
  <2> HIDE DEF b
  <2> QED BY <1>1, <2>4, <2>5, TickIs DEF Middle
<1>3. ASSUME NEW m \in SessionModes, ApplyMerged(s, m) PROVE Single'
  <2>1. PICK new, force : job' = [job EXCEPT ![s] = NewJob(Tick(m), m, "check", new, force)]
    BY <1>3 DEF ApplyMerged
  <2> DEFINE b == NewJob(Tick(m), m, "check", new, force)
  <2>2. b.op = Tick(m) /\ b.mode = m
    BY DEF NewJob
  <2>3. UNCHANGED <<session, overlapped>> /\ session[m] # "none" /\ job' = [job EXCEPT ![s] = b]
    BY <1>3, <2>1 DEF ApplyMerged
  <2> HIDE DEF b
  <2> QED BY <1>1, <2>2, <2>3, TickIs DEF Middle
<1>4. ASSUME NEW m \in SessionModes, EndStarted(s, m) \/ EndDeferred(s, m) PROVE Single'
  <2>1. session' = Cancelled({m}) /\ UNCHANGED overlapped
    BY <1>4 DEF EndStarted, EndDeferred
  <2>2. PICK b \in {Start("end", m, "remove"), NoJob} : job' = JobsWith(s, b, {m})
    BY <1>4 DEF EndStarted, EndDeferred
  <2>3. b.op \in {"end", "none"}
    BY <2>2, RemoverOK, NoJobOK DEF OwnModes
  <2>4. StartsAs(b, job[s]) /\ b.op \notin Middle
    BY <2>3 DEF StartsAs, Middle, Applying, Removing
  <2>5. /\ \A n \in SessionModes : session'[n] # "none" => Claims(n)
        /\ \A n \in SessionModes \ {m} : session[n] # "none" => session'[n] # "none"
    BY <2>1, CancelledLess
  <2>6. {m} \in SUBSET SessionModes
    OBVIOUS
  <2> QED BY <2>1, <2>2, <2>4, <2>5, <2>6, SlotStep
<1>5. ASSUME NEW op \in {"cleanup"} \union Removing, NEW m \in SessionModes,
             job' = [job EXCEPT ![s] = Start(op, m, "remove")], UNCHANGED <<session, overlapped>>,
             op # "cleanup" => session[m] # "none"
      PROVE  Single'
  <2> DEFINE b == Start(op, m, "remove")
  <2>1. b.op = op /\ b.mode = m
    BY RemoverOK DEF OwnModes
  <2> HIDE DEF b
  <2>2. job' = [job EXCEPT ![s] = b]
    BY <1>5 DEF b
  <2>3. b.op \in Middle \union {"cleanup"} /\ (b.op \in Middle => session[b.mode] # "none")
    BY <1>5, <2>1 DEF Middle, Applying, Removing
  <2> QED BY <1>1, <1>5, <2>2, <2>3
<1>6. ASSUME NEW m \in SessionModes, Suspend(s, m) PROVE Single'
  <2>1. session[m] # "none"
    BY <1>6 DEF Suspend, MayRemove
  <2> QED BY <1>5, <1>6, <2>1 DEF Suspend, Removing
<1>7. CASE Redefer(s)
  BY <1>5, <1>7 DEF Redefer, Removing, SessionModes
<1>8. CASE _retry_pending_cleanup(s)
  BY <1>5, <1>8 DEF _retry_pending_cleanup, Inv, TypeOK
<1> QED BY <1>2, <1>3, <1>4, <1>6, <1>7, <1>8 DEF Session

LEMMA SingleAnswers ==
    ASSUME Inv, Single, NEW s \in Slots, Answer(s) \/ Fault(s) PROVE Single'
<1> DEFINE b == job[s]
<1>1. b \in Job /\ JobOK(b, terms)
  BY DEF Inv, TypeOK, JobInv
<1>2. b.op \in Middle => b.mode \in SessionModes
  BY <1>1 DEF JobOK, OfSession, Middle
<1>3. CASE Validate(s)
  <2>1. CASE Failed(s) /\ UNCHANGED overlapped
    BY <2>1, FailedStep
  <2>2. CASE Replace(s, b.mode, <<b.new.from, b.new.to>>, b.force)
    <3>1. b.mode \in SessionModes
      BY <1>1, <1>3 DEF Validate, JobOK, OfSession
    <3> QED BY <2>2, <3>1, ReplaceSingle
  <2> QED BY <1>3, <2>1, <2>2 DEF Validate
(* A live tick keeps its session; so does any that was cancelled, as       *)
(* nothing is asked of it.                                                 *)
<1>4. ASSUME NEW q, job' = [job EXCEPT ![s] = q], UNCHANGED <<session, overlapped>>,
             q.op = b.op, q.mode = b.mode, q.live <=> b.live, StartsAs(q, b)
      PROVE  Single'
  <2>1. job'[s] = q /\ \A t \in Slots : t # s => job'[t] = job[t]
    BY <1>4 DEF Inv, TypeOK
  <2>2. LiveInv'
    BY <1>4, <2>1 DEF Single, LiveInv
  <2>3. ASSUME NEW m \in SessionModes, Claims(m)' PROVE Claims(m)
    <3>1. CASE session'[m] # "none"
      BY <1>4, <3>1 DEF Claims
    <3>2. ASSUME NEW t \in Slots, Starting(t)', job'[t].mode = m PROVE Claims(m)
      BY <1>4, <2>1, <3>2 DEF Starting, Claims, StartsAs
    <3> QED BY <2>3, <3>1, <3>2 DEF Claims
  <2>4. OneClaim'
    BY <1>4, <2>3 DEF Single, OneClaim
  <2> QED BY <2>2, <2>4 DEF Single
<1>5. CASE Check(s)
  <2>1. CASE Failed(s)
    BY <1>5, <2>1, FailedStep DEF Check
  <2>2. CASE job' = [job EXCEPT ![s].pc = "merge"] /\ UNCHANGED session
    <3> DEFINE q == [b EXCEPT !.pc = "merge"]
    <3>1. q.op = b.op /\ q.mode = b.mode /\ (q.live <=> b.live)
      BY <1>1 DEF Job
    <3>2. b.op # "start"
      BY <1>1, <1>5 DEF Check, JobOK, Applying
    <3>3. job' = [job EXCEPT ![s] = q]
      BY <2>2
    <3> HIDE DEF q
    <3>4. StartsAs(q, b)
      BY <3>1, <3>2 DEF StartsAs
    <3>5. UNCHANGED overlapped
      BY <1>5 DEF Check
    <3> QED BY <1>4, <2>2, <3>1, <3>3, <3>4, <3>5
  <2> QED BY <1>5, <2>1, <2>2 DEF Check
<1>6. CASE Merge(s) \/ Remove(s)
  <2>1. UNCHANGED overlapped /\ b.pc \in {"merge", "remove"}
    BY <1>6 DEF Merge, Remove
  <2>2. CASE Failed(s)
    BY <2>1, <2>2, FailedStep
  <2>3. CASE (\E gs : job' = [job EXCEPT ![s] = Writing(@, gs)]) /\ UNCHANGED session
    <3>1. PICK gs : job' = [job EXCEPT ![s] = Writing(b, gs)]
      BY <2>3
    <3> DEFINE q == Writing(b, gs)
    <3>2. q.op = b.op /\ q.mode = b.mode /\ (q.live <=> b.live) /\ q.pc = "write"
      BY <1>1, WritingFields
    <3> HIDE DEF q
    <3>3. b.op = "start" => b.pc = "merge"
      BY <1>1, <2>1 DEF JobOK
    <3>4. StartsAs(q, b)
      BY <3>2, <3>3 DEF StartsAs
    <3> QED BY <1>4, <2>1, <2>3, <3>1, <3>2, <3>4 DEF q
  <2> QED BY <1>6, <2>2, <2>3 DEF Merge, Remove
<1>7. CASE Write(s)
  <2> DEFINE ms == IF b.op = "start" THEN {b.mode} ELSE {}
  <2>1. /\ UNCHANGED overlapped /\ b.pc = "write" /\ job' = JobsWith(s, NoJob, ms)
        /\ \/ session' = Left(b)
           \/ /\ session' = [session EXCEPT ![b.mode] = "active"] /\ b.mode \in SessionModes
              /\ b.op = "start" \/ (b.op = "begin" /\ b.live)
    BY <1>7 DEF Write
  <2>2. ms \in SUBSET SessionModes
    BY <1>1 DEF JobOK, OfSession
  <2>3. NoJob.op \notin Middle
    BY NoJobOK DEF Middle, Applying, Removing
  <2>4. session \in [SessionModes -> States]
    BY DEF Inv, TypeOK, States
  <2>5. /\ \A m \in SessionModes : session'[m] # "none" => Claims(m)
        /\ \A m \in SessionModes \ ms : session[m] # "none" => session'[m] # "none"
    <3>1. CASE session' = Left(b)
      BY <3>1, LeftSame DEF Claims
    <3>2. CASE /\ session' = [session EXCEPT ![b.mode] = "active"] /\ b.mode \in SessionModes
               /\ b.op = "start" \/ (b.op = "begin" /\ b.live)
      <4>1. Claims(b.mode)
        <5>1. CASE b.op = "start"
          BY <2>1, <5>1 DEF Claims, Starting
        <5>2. CASE b.op = "begin" /\ b.live
          BY <5>2 DEF Claims, Single, LiveInv, Middle, Applying
        <5> QED BY <3>2, <5>1, <5>2
      <4>2. \A m \in SessionModes : session'[m] = IF m = b.mode THEN "active" ELSE session[m]
        BY <2>4, <3>2
      <4> QED BY <4>1, <4>2 DEF Claims
    <3> QED BY <2>1, <3>1, <3>2
  <2> HIDE DEF ms, b
  <2> QED BY <2>1, <2>2, <2>3, <2>5, NoJobStarts, SlotStep
<1>8. CASE Fault(s)
  BY <1>8, FailedStep DEF Fault, ReadFails, WriteFails, ReplyLost
<1> QED BY <1>3, <1>5, <1>6, <1>7, <1>8 DEF Answer

(* A smart charge and a smart discharge are never both there, whatever     *)
(* operations are under way together, but after a service cancelled the    *)
(* sessions while one for the other mode was between its own cancel and    *)
(* its session.                                                            *)
THEOREM NeverTwoSessions == Spec => []OneSession
<1>1. Init => Inv /\ Single
  <2> SUFFICES ASSUME Init PROVE Single
    BY InvInit
  <2>1. \A t \in Slots : ~Starting(t) /\ job[t].op \notin Middle
    BY NoJobOK DEF Init, Starting, Middle, Applying, Removing
  <2>2. \A m \in SessionModes : ~Claims(m)
    BY <2>1 DEF Init, Claims
  <2> QED BY <2>1, <2>2 DEF Single, OneClaim, LiveInv
<1>2. Inv /\ Single /\ [Next]_vars => Inv' /\ Single'
  <2> SUFFICES ASSUME Inv, Single, [Next]_vars PROVE Inv' /\ Single'
    OBVIOUS
  <2>1. Inv'
    BY InvInductive
  <2>2. CASE App
    BY <2>1, <2>2, SameStep DEF App
  <2>3. CASE UNCHANGED vars
    BY <2>1, <2>3, SameStep DEF vars
  <2>4. ASSUME NEW s \in Slots, PostRetried(s) PROVE Single'
    BY <2>4, SameStep DEF PostRetried
  <2>5. ASSUME NEW s \in Slots, Services(s) PROVE Single'
    BY <2>5, SingleServices
  <2>6. ASSUME NEW s \in Slots, Session(s) \/ _retry_pending_cleanup(s) PROVE Single'
    BY <2>6, SingleSession
  <2>7. ASSUME NEW s \in Slots, Answer(s) \/ Fault(s) PROVE Single'
    BY <2>7, SingleAnswers
  <2> QED BY <2>1, <2>2, <2>3, <2>4, <2>5, <2>6, <2>7 DEF Next
<1>3. Single => OneSession
  <2> SUFFICES ASSUME Single, \A m \in SessionModes : session[m] # "none", ~overlapped PROVE FALSE
    BY DEF OneSession
  <2>1. Claims("ForceCharge") /\ Claims("ForceDischarge")
    BY DEF Claims, SessionModes
  <2> QED BY <2>1 DEF Single, OneClaim, SessionModes
<1> QED BY <1>1, <1>2, <1>3, PTL DEF Spec

-----------------------------------------------------------------------------
(* With one operation at a time, and no edit in the app while it is under  *)
(* way, the schedule implements Overrides.                                 *)

(* The override of a group, and the groups that are one.                   *)
As(g) == [mode |-> g.mode, from |-> g.from, to |-> g.to]
Shown(g) == ~_is_placeholder(g) /\ g.mode # "SelfUse"

(* The operators of Overrides, on any set of overrides.                    *)
Clashing(o, p) == o.from < p.to /\ p.from < o.to
Rest(F, m) == {o \in F : o.mode # m}
AllOwn(F) == \A o \in F : o.mode \in OwnModes
Allowed(F, o, replace) == AllOwn(F) /\ (replace \/ \A p \in Rest(F, o.mode) : ~Clashing(o, p))
Result(F, o, replace) == {p \in Rest(F, o.mode) : ~replace \/ ~Clashing(o, p)} \union {o}
MovedOne(F, o, to) == (F \ {o}) \union {[o EXCEPT !.to = to]}

LEMMA OverridesAre ==
    ASSUME NEW gs, NEW o PROVE o \in OverridesOf(gs) <=> \E g \in gs : Shown(g) /\ o = As(g)
  BY DEF OverridesOf, Shown, As

LEMMA AsFields == \A g : As(g).mode = g.mode /\ As(g).from = g.from /\ As(g).to = g.to
  BY DEF As

LEMMA SafeMeans ==
    ASSUME NEW gs \in SUBSET Group PROVE _check_schedule_safe(gs) <=> AllOwn(OverridesOf(gs))
<1>1. ASSUME _check_schedule_safe(gs), NEW o \in OverridesOf(gs) PROVE o.mode \in OwnModes
  <2>1. PICK g \in gs : Shown(g) /\ o = As(g)
    BY <1>1, OverridesAre
  <2> QED BY <1>1, <2>1, AsFields DEF _check_schedule_safe, Shown, _MANAGED_WORK_MODES
<1>2. ASSUME AllOwn(OverridesOf(gs)), NEW g \in gs, ~_is_placeholder(g)
      PROVE  g.mode \in _MANAGED_WORK_MODES
  <2>1. CASE g.mode = "SelfUse"
    BY <2>1 DEF _MANAGED_WORK_MODES
  <2>2. CASE g.mode # "SelfUse"
    <3>1. As(g) \in OverridesOf(gs)
      BY <1>2, <2>2, OverridesAre DEF Shown
    <3> QED BY <1>2, <3>1, AsFields DEF AllOwn, _MANAGED_WORK_MODES
  <2> QED BY <2>1, <2>2
<1> QED BY <1>1, <1>2 DEF AllOwn, _check_schedule_safe

(* What is kept of a schedule are the overrides of the other modes.        *)
LEMMA KeptMeans ==
    ASSUME NEW gs \in SUBSET Group, NEW m PROVE OverridesOf(Kept(gs, m)) = Rest(OverridesOf(gs), m)
<1>1. ASSUME NEW o \in OverridesOf(Kept(gs, m)) PROVE o \in Rest(OverridesOf(gs), m)
  <2>1. PICK q \in Kept(gs, m) : Shown(q) /\ o = As(q)
    BY <1>1, OverridesAre
  <2>2. PICK g \in gs : ~_is_placeholder(g) /\ g.mode # m /\ q = _sanitize_group(g)
    BY <2>1 DEF Kept
  <2>3. q.mode = g.mode /\ q.from = g.from /\ q.to = g.to
    BY <2>2, Sanitized
  <2>4. o = As(g) /\ Shown(g)
    BY <2>1, <2>2, <2>3 DEF As, Shown
  <2>5. o \in OverridesOf(gs)
    BY <2>4, OverridesAre
  <2> QED BY <2>2, <2>4, <2>5, AsFields DEF Rest
<1>2. ASSUME NEW o \in Rest(OverridesOf(gs), m) PROVE o \in OverridesOf(Kept(gs, m))
  <2>1. PICK g \in gs : Shown(g) /\ o = As(g)
    BY <1>2, OverridesAre DEF Rest
  <2> DEFINE q == _sanitize_group(g)
  <2>2. q.mode = g.mode /\ q.from = g.from /\ q.to = g.to
    BY Sanitized
  <2>3. q \in Kept(gs, m)
    BY <1>2, <2>1, AsFields DEF Kept, Rest, Shown
  <2> HIDE DEF q
  <2>4. o = As(q) /\ Shown(q)
    BY <2>1, <2>2 DEF As, Shown, _is_placeholder
  <2> QED BY <2>3, <2>4, OverridesAre
<1> QED BY <1>1, <1>2

LEMMA SelfUseDayMeans == OverridesOf({SelfUseDay}) = {}
<1>1. SelfUseDay.mode = "SelfUse"
  BY DEF SelfUseDay, _build_override_group
<1> QED BY <1>1, OverridesAre DEF Shown

LEMMA RemoveMeans ==
    ASSUME NEW gs \in SUBSET Group, NEW m
    PROVE  OverridesOf(_remove_mode_from_schedule(gs, m)) = Rest(OverridesOf(gs), m)
<1>1. CASE Kept(gs, m) = {}
  <2>1. OverridesOf(Kept(gs, m)) = {}
    BY <1>1, OverridesAre
  <2> QED BY <1>1, <2>1, KeptMeans, SelfUseDayMeans DEF _remove_mode_from_schedule
<1>2. CASE Kept(gs, m) # {}
  BY <1>2, KeptMeans DEF _remove_mode_from_schedule
<1> QED BY <1>1, <1>2

(* A merge that does not raise puts the new override beside the others.    *)
LEMMA MergeMeans ==
    ASSUME NEW gs \in SUBSET Group, NEW new, Shown(new), NEW force \in BOOLEAN,
           ~MergeRaises(gs, new, force)
    PROVE  /\ Allowed(OverridesOf(gs), As(new), force)
           /\ OverridesOf(_merge_with_existing(gs, new)) = Result(OverridesOf(gs), As(new), force)
<1> DEFINE F == OverridesOf(gs)
           kept == {g \in Beside(gs, new) : ~_groups_overlap(g, new)}
<1>1. _check_schedule_safe(gs) /\ (force \/ ~Conflict(gs, new))
  BY DEF MergeRaises
<1>2. \A p \in Rest(F, new.mode) : \E g \in Beside(gs, new) : Shown(g) /\ p = As(g)
  <2> SUFFICES ASSUME NEW p \in Rest(F, new.mode)
               PROVE  \E g \in Beside(gs, new) : Shown(g) /\ p = As(g)
    OBVIOUS
  <2>1. PICK g \in Kept(gs, new.mode) : Shown(g) /\ p = As(g)
    BY KeptMeans, OverridesAre
  <2> QED BY <2>1 DEF Beside, Shown
<1>3. \A g \in Beside(gs, new) : Shown(g) => As(g) \in Rest(F, new.mode)
  <2> SUFFICES ASSUME NEW g \in Beside(gs, new), Shown(g) PROVE As(g) \in Rest(F, new.mode)
    OBVIOUS
  <2>1. As(g) \in OverridesOf(Kept(gs, new.mode))
    BY OverridesAre DEF Beside
  <2> QED BY <2>1, KeptMeans
<1>4. \A g : _groups_overlap(g, new) <=> Clashing(As(new), As(g))
  BY AsFields DEF _groups_overlap, Clashing
<1>5. As(new).mode = new.mode
  BY AsFields
<1>6. Allowed(F, As(new), force)
  <2>1. AllOwn(F)
    BY <1>1, SafeMeans
  <2>2. ASSUME ~force, NEW p \in Rest(F, new.mode) PROVE ~Clashing(As(new), p)
    BY <1>1, <1>2, <1>4, <2>2 DEF Conflict
  <2> QED BY <1>5, <2>1, <2>2 DEF Allowed
<1>7. _merge_with_existing(gs, new) = kept \union {new}
  BY DEF _merge_with_existing
<1> HIDE DEF F
<1>8. ASSUME NEW o \in OverridesOf(kept \union {new}) PROVE o \in Result(F, As(new), force)
  <2>1. PICK g \in kept \union {new} : Shown(g) /\ o = As(g)
    BY <1>8, OverridesAre
  <2>2. CASE g = new
    BY <2>1, <2>2 DEF Result
  <2>3. CASE g \in kept
    BY <1>3, <1>4, <1>5, <2>1, <2>3 DEF Result
  <2> QED BY <2>2, <2>3
<1>9. ASSUME NEW o \in Result(F, As(new), force) PROVE o \in OverridesOf(kept \union {new})
  <2>1. CASE o = As(new)
    BY <2>1, OverridesAre
  <2>2. CASE o # As(new)
    <3>1. o \in Rest(F, new.mode) /\ (~force \/ ~Clashing(As(new), o))
      BY <1>5, <1>9, <2>2 DEF Result
    <3>2. ~Clashing(As(new), o)
      BY <1>5, <1>6, <3>1 DEF Allowed
    <3>3. PICK g \in Beside(gs, new) : Shown(g) /\ o = As(g)
      BY <1>2, <3>1
    <3>4. g \in kept
      BY <1>4, <3>2, <3>3
    <3> HIDE DEF kept
    <3> QED BY <3>3, <3>4, OverridesAre
  <2> QED BY <2>1, <2>2
<1> HIDE DEF kept
<1>10. OverridesOf(kept \union {new}) = Result(F, As(new), force)
  BY <1>8, <1>9
<1> QED BY <1>6, <1>7, <1>10 DEF F

(* A merge of self-use leaves the overrides as they are.                   *)
LEMMA SelfUseMeans ==
    ASSUME NEW gs \in SUBSET Group, NEW new, new.mode = "SelfUse", NEW force, ~force,
           ~MergeRaises(gs, new, force)
    PROVE  /\ AllOwn(OverridesOf(gs))
           /\ OverridesOf(_merge_with_existing(gs, new)) = OverridesOf(gs)
<1> DEFINE F == OverridesOf(gs)
           merged == _merge_with_existing(gs, new)
<1>1. AllOwn(F)
  BY SafeMeans DEF MergeRaises
<1>2. \A g \in Beside(gs, new) : ~_groups_overlap(g, new)
  BY DEF MergeRaises, Conflict
<1>3. merged = Beside(gs, new) \union {new}
  BY <1>2 DEF _merge_with_existing
<1>4. Rest(F, "SelfUse") = OverridesOf(Kept(gs, new.mode))
  BY KeptMeans
<1>5. \A o \in F : o.mode # "SelfUse"
  BY OverridesAre, AsFields DEF Shown
<1> HIDE DEF F, merged
<1>6. ASSUME NEW o PROVE o \in OverridesOf(merged) <=> o \in F
  <2>1. o \in OverridesOf(merged) <=> \E g \in merged : Shown(g) /\ o = As(g)
    BY OverridesAre
  <2>2. o \in OverridesOf(Kept(gs, new.mode)) <=> \E g \in Kept(gs, new.mode) : Shown(g) /\ o = As(g)
    BY OverridesAre
  <2>3. \A g : g \in merged /\ Shown(g) <=> g \in Kept(gs, new.mode) /\ Shown(g)
    BY <1>3 DEF Beside, Shown
  <2>4. o \in OverridesOf(merged) <=> o \in Rest(F, "SelfUse")
    BY <1>4, <2>1, <2>2, <2>3
  <2> QED BY <1>5, <2>4 DEF Rest
<1>7. OverridesOf(merged) = F
  BY <1>6
<1> QED BY <1>1, <1>7 DEF F, merged

(* Putting or removing again what is done already changes nothing.         *)
LEMMA Idempotent ==
    ASSUME NEW F, NEW o, NEW force \in BOOLEAN, o.mode \in OwnModes
    PROVE  /\ Allowed(F, o, force)
              => /\ Allowed(Result(F, o, force), o, force)
                 /\ Result(Result(F, o, force), o, force) = Result(F, o, force)
           /\ \A m : AllOwn(F) => AllOwn(Rest(F, m)) /\ Rest(Rest(F, m), m) = Rest(F, m)
<1>1. \A m : AllOwn(F) => AllOwn(Rest(F, m)) /\ Rest(Rest(F, m), m) = Rest(F, m)
  BY DEF AllOwn, Rest
<1>2. Rest(Result(F, o, force), o.mode) = {p \in Rest(F, o.mode) : ~force \/ ~Clashing(o, p)}
  BY DEF Result, Rest
<1>3. ASSUME Allowed(F, o, force) PROVE Allowed(Result(F, o, force), o, force)
  BY <1>2, <1>3 DEF Allowed, AllOwn, Result, Rest
<1>4. Result(Result(F, o, force), o, force) = Result(F, o, force)
  BY <1>2 DEF Result
<1> QED BY <1>1, <1>3, <1>4

(* One of a session's own overrides, moved within what it cached.          *)
LEMMA MovedMeans ==
    ASSUME NEW gs, NEW m \in SessionModes, \A g \in gs : Sendable(g), Near(gs, m),
           NEW g \in gs, g.mode = m, NEW to \in 0 .. Day, g.from < to,
           NEW new, new = (gs \ {g}) \union {[g EXCEPT !.to = to]}
    PROVE  /\ As(g) \in OverridesOf(gs) /\ As(g).mode = m
           /\ OverridesOf(new) = MovedOne(OverridesOf(gs), As(g), to)
<1> DEFINE q == [g EXCEPT !.to = to]
<1>1. Sendable(q) /\ q.mode = g.mode /\ q.from = g.from /\ q.to = to
  BY EndMoved
<1> HIDE DEF q
<1>2. new = (gs \ {g}) \union {q}
  BY DEF q
<1>3. Shown(g) /\ Shown(q)
  BY <1>1 DEF Shown, Sendable, WellFormed, SessionModes
<1>4. As(q) = [As(g) EXCEPT !.to = to]
  BY <1>1 DEF As
<1>5. As(g) \in OverridesOf(gs) /\ As(g).mode = m
  BY <1>3, OverridesAre, AsFields
<1>6. \A h \in gs : h # g => As(h) # As(g)
  <2> SUFFICES ASSUME NEW h \in gs, h # g PROVE As(h) # As(g)
    OBVIOUS
  <2>1. h.from # g.from
    BY MarksDiffer
  <2> QED BY <2>1, AsFields
<1>7. \A o : o \in OverridesOf(new) <=> \E h \in new : Shown(h) /\ o = As(h)
  BY OverridesAre
<1>8. \A o : o \in OverridesOf(gs) <=> \E h \in gs : Shown(h) /\ o = As(h)
  BY OverridesAre
<1>9. ASSUME NEW o PROVE o \in OverridesOf(new) <=> o \in MovedOne(OverridesOf(gs), As(g), to)
  <2>1. ASSUME o \in OverridesOf(new) PROVE o \in MovedOne(OverridesOf(gs), As(g), to)
    <3>1. PICK h \in new : Shown(h) /\ o = As(h)
      BY <1>7, <2>1
    <3>2. CASE h = q
      BY <1>4, <3>1, <3>2 DEF MovedOne
    <3>3. CASE h \in gs /\ h # g
      BY <1>6, <1>8, <3>1, <3>3 DEF MovedOne
    <3> QED BY <1>2, <3>1, <3>2, <3>3
  <2>2. ASSUME o \in MovedOne(OverridesOf(gs), As(g), to) PROVE o \in OverridesOf(new)
    <3>1. CASE o = [As(g) EXCEPT !.to = to]
      BY <1>2, <1>3, <1>4, <1>7, <3>1
    <3>2. CASE o \in OverridesOf(gs) /\ o # As(g)
      BY <1>2, <1>7, <1>8, <3>2
    <3> QED BY <2>2, <3>1, <3>2 DEF MovedOne
  <2> QED BY <2>1, <2>2
<1>10. OverridesOf(new) = MovedOne(OverridesOf(gs), As(g), to)
  BY <1>9
<1> QED BY <1>5, <1>10

-----------------------------------------------------------------------------
(* The invariant: what a job is about to write is what one step makes of   *)
(* the overrides there are, or what its session has cached.                *)
OneSlot == \A s, t \in Slots : s = t
PutOps == {"start", "feedin"}
RemoveOps == {"clear", "end", "suspend", "redefer", "cleanup"}

JobMeans(b, F, plans) ==
    /\ b.op # "none" => b.live
    /\ b.pc = "remove" => b.op \in RemoveOps
    /\ b.pc = "write" =>
        /\ b.op # "none"
        /\ b.op \in PutOps =>
            /\ b.mode \in OwnModes /\ b.new.mode = b.mode
            /\ b.new.from \in 0 .. Day /\ b.new.to \in 0 .. Day
            /\ Allowed(F, As(b.new), b.force)
            /\ OverridesOf(b.groups) = Result(F, As(b.new), b.force)
        /\ b.op \in Applying =>
            /\ b.mode \in SessionModes
            /\ b.groups = plans[b.mode] /\ plans[b.mode] # {}
        /\ b.op \in RemoveOps =>
            /\ AllOwn(F)
            /\ OverridesOf(b.groups) = IF b.mode = "all" THEN {} ELSE Rest(F, b.mode)

Means == \A s \in Slots : JobMeans(job[s], OverridesOf(cloud), cache)

(* The plan of a session that caches the groups c.                         *)
PlanOf(c) == {OverridesOf(gs) : gs \in {c} \ {{}}}

LEMMA PlanIs == \A c : PlanOf(c) = IF c = {} THEN {} ELSE {OverridesOf(c)}
  BY DEF PlanOf

Refines == Abstract!Next \/ UNCHANGED Abstract!vars

LEMMA AbstractVars ==
    /\ Abstract!vars = <<OverridesOf(cloud), [m \in SessionModes |-> PlanOf(cache[m])]>>
    /\ Abstract!SessionModes = SessionModes /\ Abstract!OwnModes = OwnModes
  BY DEF Abstract!vars, Abstract!SessionModes, SessionModes, Abstract!OwnModes, OwnModes, PlanOf

LEMMA AbstractSteps ==
    /\ \A o \in Abstract!Override, replace \in BOOLEAN :
          Abstract!Put(o, replace) \/ Abstract!Plan(o, replace) => Refines
    /\ \A m \in SessionModes : Abstract!Renew(m) \/ Abstract!HandOver(m) => Refines
    /\ \A m \in SessionModes, to \in 0 .. Day : Abstract!Move(m, to) => Refines
    /\ \A m \in OwnModes : Abstract!Remove(m) => Refines
    /\ Abstract!Clear => Refines
    /\ \A ms \in SUBSET SessionModes : Abstract!Forget(ms) => Refines
    /\ Abstract!App => Refines
<1>1. SessionModes = Abstract!SessionModes /\ OwnModes = Abstract!OwnModes
  BY AbstractVars
<1>2. \A o \in Abstract!Override, replace \in BOOLEAN :
          Abstract!Put(o, replace) \/ Abstract!Plan(o, replace) => Abstract!Next
  BY Zenon DEF Abstract!Next
<1>3. \A m \in SessionModes : Abstract!Renew(m) \/ Abstract!HandOver(m) => Abstract!Next
  BY <1>1, Zenon DEF Abstract!Next
<1>4. \A m \in SessionModes, to \in 0 .. Day : Abstract!Move(m, to) => Abstract!Next
  BY <1>1, Zenon DEF Abstract!Next
<1>5. \A m \in OwnModes : Abstract!Remove(m) => Abstract!Next
  BY <1>1, Zenon DEF Abstract!Next
<1>6. Abstract!Clear => Abstract!Next
  BY Zenon DEF Abstract!Next
<1>7. \A ms \in SUBSET SessionModes : Abstract!Forget(ms) => Abstract!Next
  BY <1>1, Zenon DEF Abstract!Next
<1>8. Abstract!App => Abstract!Next
  BY Zenon DEF Abstract!Next
<1> QED BY <1>2, <1>3, <1>4, <1>5, <1>6, <1>7, <1>8, Zenon DEF Refines

(* The operators of Overrides are the ones above.                          *)
LEMMA AbstractMeans ==
    /\ Abstract!Safe <=> AllOwn(OverridesOf(cloud))
    /\ \A m : Abstract!Others(m) = Rest(OverridesOf(cloud), m)
    /\ \A o, force : /\ Abstract!PutAllowed(o, force) <=> Allowed(OverridesOf(cloud), o, force)
                     /\ Abstract!PutResult(o, force) = Result(OverridesOf(cloud), o, force)
<1>1. \A m : Abstract!Others(m) = Rest(OverridesOf(cloud), m)
  BY DEF Abstract!Others, Rest
<1>2. \A o, p : Abstract!Clash(o, p) <=> Clashing(o, p)
  BY DEF Abstract!Clash, Clashing
<1>3. Abstract!Safe <=> AllOwn(OverridesOf(cloud))
  BY AbstractVars DEF Abstract!Safe, AllOwn
<1>4. \A o, force : Abstract!PutAllowed(o, force) <=> Allowed(OverridesOf(cloud), o, force)
  BY <1>1, <1>2, <1>3 DEF Abstract!PutAllowed, Allowed
<1>5. \A o, force : Abstract!PutResult(o, force) = Result(OverridesOf(cloud), o, force)
  BY <1>1, <1>2 DEF Abstract!PutResult, Result
<1> QED BY <1>1, <1>3, <1>4, <1>5

PlansOf(c) == [m \in SessionModes |-> PlanOf(c[m])]

LEMMA AbstractPut ==
    ASSUME NEW o, NEW force \in BOOLEAN, o \in Abstract!Override, Allowed(OverridesOf(cloud), o, force),
           OverridesOf(cloud') = Result(OverridesOf(cloud), o, force),
           \/ PlansOf(cache') = PlansOf(cache)
           \/ o.mode \in SessionModes /\ PlansOf(cache') = [PlansOf(cache) EXCEPT ![o.mode] = {OverridesOf(cloud')}]
    PROVE  Refines
<1>1. Abstract!PutAllowed(o, force) /\ OverridesOf(cloud') = Abstract!PutResult(o, force)
  BY AbstractMeans
<1>2. o.mode \in SessionModes => o.mode \in Abstract!SessionModes \intersect {o.mode}
  BY AbstractVars
<1>3. Abstract!Put(o, force)
  BY <1>1, <1>2 DEF Abstract!Put, PlansOf, PlanOf
<1> QED BY <1>3, AbstractSteps, Zenon

LEMMA AbstractRemove ==
    ASSUME NEW m \in OwnModes, AllOwn(OverridesOf(cloud)),
           OverridesOf(cloud') = Rest(OverridesOf(cloud), m),
           \/ PlansOf(cache') = PlansOf(cache)
           \/ PlansOf(cache') = [n \in SessionModes |-> IF n = m THEN {} ELSE PlansOf(cache)[n]]
    PROVE  Refines
<1>1. Abstract!Safe /\ OverridesOf(cloud') = Abstract!Others(m)
  BY AbstractMeans
<1>2. Abstract!SessionModes = SessionModes
  BY AbstractVars
<1>3. Abstract!Remove(m)
  BY <1>1, <1>2 DEF Abstract!Remove, PlansOf, PlanOf
<1> QED BY <1>3, AbstractSteps, Zenon

(* A job that has not come to its write, and no change of what it is for.  *)
Early(b) ==
    /\ b.pc # "write"
    /\ b.pc = "remove" => b.op \in RemoveOps
    /\ b.op # "none" => b.live

LEMMA EarlyMeans == \A b, F, plans : Early(b) => JobMeans(b, F, plans)
  BY DEF Early, JobMeans

LEMMA QuietStep ==
    ASSUME OneSlot, Means, UNCHANGED <<cloud, cache>>, NEW s \in Slots, Early(job'[s])
    PROVE  Means' /\ Refines
<1>1. Means'
  BY EarlyMeans DEF Means, OneSlot
<1>2. UNCHANGED Abstract!vars
  BY AbstractVars DEF Abstract!vars
<1> QED BY <1>1, <1>2 DEF Refines

LEMMA ForgetStep ==
    ASSUME OneSlot, Means, UNCHANGED cloud, NEW ms \in SUBSET SessionModes, cache' = Forgotten(ms),
           NEW s \in Slots, Early(job'[s])
    PROVE  Means' /\ Refines
<1>1. Means'
  BY EarlyMeans DEF Means, OneSlot
<1>2. \A m \in SessionModes : cache'[m] = IF m \in ms THEN {} ELSE cache[m]
  BY DEF Forgotten
<1>3. \A m \in SessionModes : PlanOf(cache'[m]) = IF m \in ms THEN {} ELSE PlanOf(cache[m])
  BY <1>2, PlanIs
<1>4. Abstract!Forget(ms)
  BY <1>3, AbstractVars DEF Abstract!Forget, PlanOf
<1>5. Refines
  BY <1>4, AbstractSteps
<1> QED BY <1>1, <1>5

(* The groups are written.                                                 *)
LEMMA JobTypes ==
    ASSUME Inv, NEW s \in Slots
    PROVE  /\ job[s] \in Job /\ job[s].force \in BOOLEAN /\ job[s].groups \in SUBSET Group
           /\ job[s].new \in Group /\ job[s].mode \in OwnModes \union {"all"}
           /\ cloud \in SUBSET Group
  BY DEF Inv, TypeOK, Job

LEMMA SessionModesOwn == SessionModes \subseteq OwnModes /\ "all" \notin OwnModes
  BY DEF OwnModes, SessionModes

LEMMA WriteAgain ==
    ASSUME Inv, Means, NEW s \in Slots, job[s].pc = "write", cloud' = job[s].groups
    PROVE  JobMeans(job[s], OverridesOf(cloud'), cache)
<1> DEFINE b == job[s]
           F == OverridesOf(cloud)
           W == OverridesOf(cloud')
<1>1. JobMeans(b, F, cache) /\ W = OverridesOf(b.groups) /\ b.force \in BOOLEAN
  BY JobTypes DEF Means
<1>2. As(b.new).mode = b.new.mode
  BY AsFields
<1> HIDE DEF F, W, b
<1>3. b.pc = "write"
  BY DEF b
<1>4. ASSUME b.op \in PutOps
      PROVE  Allowed(W, As(b.new), b.force) /\ OverridesOf(b.groups) = Result(W, As(b.new), b.force)
  <2>1. /\ As(b.new).mode \in OwnModes
        /\ Allowed(F, As(b.new), b.force) /\ W = Result(F, As(b.new), b.force)
    BY <1>1, <1>2, <1>3, <1>4 DEF JobMeans
  <2> QED BY <1>1, <2>1, Idempotent
<1>5. ASSUME b.op \in RemoveOps
      PROVE  AllOwn(W) /\ OverridesOf(b.groups) = IF b.mode = "all" THEN {} ELSE Rest(W, b.mode)
  <2>1. AllOwn(F) /\ W = IF b.mode = "all" THEN {} ELSE Rest(F, b.mode)
    BY <1>1, <1>3, <1>5 DEF JobMeans
  <2>2. AllOwn({})
    BY DEF AllOwn
  <2>3. AllOwn(Rest(F, b.mode)) /\ Rest(Rest(F, b.mode), b.mode) = Rest(F, b.mode)
    BY <2>1 DEF AllOwn, Rest
  <2> QED BY <1>1, <2>1, <2>2, <2>3
<1>6. JobMeans(b, W, cache)
  BY <1>1, <1>3, <1>4, <1>5 DEF JobMeans
<1> QED BY <1>6 DEF b, W

(* A write is the atomic operation, whatever of the session goes with it.  *)
PlanKept(b) ==
    \/ cache' = cache
    \/ b.op = "start" /\ cache' = [cache EXCEPT ![b.mode] = b.groups]
    \/ b.op \in Removing /\ cache' = [cache EXCEPT ![b.mode] = {}]

LEMMA WriteRefines ==
    ASSUME Inv, Means, NEW s \in Slots, job[s].pc = "write", cloud' = job[s].groups,
           PlanKept(job[s])
    PROVE  Refines
<1> DEFINE b == job[s]
           F == OverridesOf(cloud)
           W == OverridesOf(cloud')
           o == As(b.new)
           plans == [m \in SessionModes |-> PlanOf(cache[m])]
<1>1. JobMeans(b, F, cache) /\ W = OverridesOf(b.groups) /\ b.pc = "write"
  BY DEF Means
<1>2. b.force \in BOOLEAN /\ b.op \in Ops /\ JobOK(b, terms) /\ b.groups # {}
      /\ b.mode \in OwnModes \union {"all"}
  BY JobTypes DEF Inv, JobInv, JobOK, Job, Ops, SentOK
<1>3. cache \in [SessionModes -> SUBSET Group]
  BY DEF Inv, TypeOK
<1>4. o.mode = b.new.mode /\ o.from = b.new.from /\ o.to = b.new.to
  BY AsFields
<1>5. PlanOf({}) = {} /\ PlanOf(b.groups) = {W}
  BY <1>1, <1>2, PlanIs
<1>6. Abstract!vars' = <<W, [m \in SessionModes |-> PlanOf(cache'[m])]>>
  BY AbstractVars DEF Abstract!vars, PlanOf
<1>7. CASE b.op \in PutOps
  <2>1. /\ b.mode \in OwnModes /\ b.new.mode = b.mode
        /\ b.new.from \in 0 .. Day /\ b.new.to \in 0 .. Day
        /\ Allowed(F, o, b.force) /\ W = Result(F, o, b.force)
    BY <1>1, <1>7 DEF JobMeans
  <2>2. o \in Abstract!Override
    BY <2>1, AbstractVars DEF Abstract!Override, As
  <2>3. CASE cache' = cache
    <3> HIDE DEF o, b, F, W
    <3> QED BY <1>2, <2>1, <2>2, <2>3, AbstractPut DEF F, W
  <2>4. CASE b.op = "start" /\ cache' = [cache EXCEPT ![b.mode] = b.groups]
    <3>1. b.mode \in SessionModes
      BY <1>2, <2>4 DEF JobOK, OfSession
    <3>2. \A m \in SessionModes : cache'[m] = IF m = b.mode THEN b.groups ELSE cache[m]
      BY <1>3, <2>4
    <3>3. PlansOf(cache') = [PlansOf(cache) EXCEPT ![b.mode] = {W}]
      BY <1>5, <3>1, <3>2 DEF PlansOf
    <3>4. o.mode = b.mode
      BY <1>4, <2>1
    <3> HIDE DEF o, b, F, W
    <3> QED BY <1>2, <2>1, <2>2, <3>1, <3>3, <3>4, AbstractPut DEF F, W
  <2> QED BY <1>7, <2>3, <2>4 DEF PlanKept, PutOps, Removing
<1>8. CASE b.op \in Applying
  <2>1. b.mode \in SessionModes /\ b.groups = cache[b.mode] /\ cache[b.mode] # {}
    BY <1>1, <1>8 DEF JobMeans
  <2>2. cache' = cache
    BY <1>8 DEF PlanKept, Applying, Removing
  <2>3. W \in PlanOf(cache[b.mode])
    BY <1>5, <2>1
  <2>4. Abstract!Renew(b.mode)
    BY <2>1, <2>2, <2>3, AbstractVars DEF Abstract!Renew, PlanOf
  <2> QED BY <2>1, <2>4, AbstractSteps, Zenon
<1>9. CASE b.op \in RemoveOps
  <2>1. AllOwn(F) /\ W = IF b.mode = "all" THEN {} ELSE Rest(F, b.mode)
    BY <1>1, <1>9 DEF JobMeans
  <2>2. CASE cache' = cache /\ b.mode = "all"
    <3>1. Abstract!Safe
      BY <2>1, AbstractMeans
    <3>2. Abstract!Clear
      BY <2>1, <2>2, <3>1 DEF Abstract!Clear
    <3> QED BY <3>2, AbstractSteps, Zenon
  <2>3. CASE cache' = cache /\ b.mode # "all"
    <3>1. b.mode \in OwnModes
      BY <1>2, <2>3
    <3> HIDE DEF o, b, F, W
    <3> QED BY <2>1, <2>3, <3>1, AbstractRemove DEF F, W
  <2>4. CASE b.op \in Removing /\ cache' = [cache EXCEPT ![b.mode] = {}]
    <3>1. b.mode \in SessionModes
      BY <1>2, <2>4 DEF JobOK, OfSession
    <3>2. \A m \in SessionModes : cache'[m] = IF m = b.mode THEN {} ELSE cache[m]
      BY <1>3, <2>4
    <3>3. PlansOf(cache') = [m \in SessionModes |-> IF m = b.mode THEN {} ELSE PlansOf(cache)[m]]
      BY <1>5, <3>2 DEF PlansOf
    <3>4. b.mode \in OwnModes /\ b.mode # "all"
      BY <3>1, SessionModesOwn
    <3> HIDE DEF o, b, F, W
    <3> QED BY <2>1, <3>3, <3>4, AbstractRemove DEF F, W
  <2> QED BY <1>9, <2>2, <2>3, <2>4 DEF PlanKept, RemoveOps
<1> QED
  <2>1. b.op # "none"
    BY <1>1 DEF JobMeans
  <2> HIDE DEF b
  <2>2. b.op \in PutOps \/ b.op \in Applying \/ b.op \in RemoveOps
    BY <1>2, <2>1 DEF Ops, PutOps, Applying, RemoveOps
  <2> QED BY <1>7, <1>8, <1>9, <2>2

-----------------------------------------------------------------------------
(* The actions.                                                            *)
LEMMA EarlyJobs ==
    /\ Early(NoJob)
    /\ \A op, m, pc, new, force :
          pc # "write" /\ (pc = "remove" => op \in RemoveOps) => Early(NewJob(op, m, pc, new, force))
    /\ \A op \in RemoveOps : \A m : Early(Start(op, m, "remove"))
  BY DEF Early, NoJob, NewJob, Start

LEMMA FailedEarly == ASSUME Inv, NEW s \in Slots, Failed(s) PROVE Early(job'[s])
  BY EarlyJobs DEF Failed, Inv, TypeOK

LEMMA ReplaceStep ==
    ASSUME OneSlot, Inv, Means, NEW s \in Slots, NEW m \in SessionModes, NEW w, NEW force,
           Replace(s, m, w, force), UNCHANGED cloud
    PROVE  Means' /\ Refines
<1>1. Early(job'[s])
  BY JobsWithSelf, EarlyJobs DEF Replace
<1>2. cache' = Forgotten(SessionModes)
  BY DEF Replace
<1> QED BY <1>1, <1>2, ForgetStep

LEMMA ServiceSteps ==
    ASSUME OneSlot, Inv, Means, NEW s \in Slots, Services(s) PROVE Means' /\ Refines
<1>1. CASE _do_smart_discharge(s)
  <2>1. "ForceDischarge" \in SessionModes
    BY DEF SessionModes
  <2> QED BY <1>1, <2>1, ReplaceStep DEF _do_smart_discharge
<1>2. CASE _do_smart_charge(s) \/ handle_feedin(s)
  <2>1. Early(job'[s])
    BY <1>2, EarlyJobs DEF _do_smart_charge, handle_feedin, Inv, TypeOK
  <2> QED BY <1>2, <2>1, QuietStep DEF _do_smart_charge, handle_feedin
<1>3. CASE handle_clear_overrides(s)
  <2>1. PICK m \in OwnModes \union {"all"}, gone \in SUBSET SessionModes :
            cache' = Forgotten(gone) /\ job' = JobsWith(s, Start("clear", m, "remove"), gone)
    BY <1>3 DEF handle_clear_overrides
  <2>2. Early(job'[s])
    BY <2>1, JobsWithSelf, EarlyJobs DEF RemoveOps
  <2> QED BY <1>3, <2>1, <2>2, ForgetStep DEF handle_clear_overrides
<1> QED BY <1>1, <1>2, <1>3 DEF Services

LEMMA MoveStep ==
    ASSUME UNCHANGED cloud, NEW m \in SessionModes, NEW S \in PlanOf(cache[m]), NEW o \in S, o.mode = m, NEW to,
           [n \in SessionModes |-> PlanOf(cache'[n])]
              = [[n \in SessionModes |-> PlanOf(cache[n])] EXCEPT ![m] = {Abstract!Moved(S, o, to)}]
    PROVE  Abstract!Move(m, to)
<1> DEFINE plans == [n \in SessionModes |-> PlanOf(cache[n])]
<1>1. S \in plans[m] /\ o \in {p \in S : p.mode = m}
  OBVIOUS
<1>2. UNCHANGED OverridesOf(cloud)
  OBVIOUS
<1>3. \E T \in plans[m] : \E p \in {q \in T : q.mode = m} :
          plans' = [plans EXCEPT ![m] = {Abstract!Moved(T, p, to)}]
  BY <1>1
<1> QED BY <1>2, <1>3 DEF Abstract!Move, PlanOf

LEMMA CachedStep ==
    ASSUME OneSlot, Inv, Means, NEW s \in Slots, NEW m \in SessionModes, ApplyCached(s, m)
    PROVE  Means' /\ Refines
<1>1. PICK as, to, gs :
              /\ as \in AsksFor(m) /\ to \in 0 .. Day /\ gs \in Adjusted(cache[m], as, to)
              /\ \/ as \in Fixed(m) /\ to = terms[m].to
                 \/ as = m /\ m = "ForceDischarge" /\ \A g \in cache[m] : g.mode = m => g.from < to
              /\ as = m => \A g \in cache[m] : g.mode = m => g.from < to
              /\ cache' = [cache EXCEPT ![m] = gs]
              /\ job' = [job EXCEPT ![s] = Writing(Start(Tick(m), m, "write"), gs)]
  BY CachedPicked
<1>2. cache[m] # {} /\ UNCHANGED cloud
  BY DEF ApplyCached
<1>3. cache \in [SessionModes -> SUBSET Group] /\ job \in [Slots -> Job]
  BY DEF Inv, TypeOK
<1> DEFINE end == terms[m].to
           b == Writing(Start(Tick(m), m, "write"), gs)
           plans == [n \in SessionModes |-> PlanOf(cache[n])]
<1>4. Cacheable(cache[m], m, end)
  BY <1>2 DEF Inv, CacheInv
<1>5. Cacheable(gs, m, end) /\ (as \in Fixed(m) => gs = cache[m])
  BY <1>1, <1>4, AdjustedCacheable
<1>6. b.op \in Applying /\ b.mode = m /\ b.live /\ b.pc = "write" /\ b.groups = gs
  BY TickIs DEF Writing, Start, NewJob
<1>7. job'[s] = b
  BY <1>1, <1>3
<1>8. \A n \in SessionModes : cache'[n] = IF n = m THEN gs ELSE cache[n]
  BY <1>1, <1>3
<1> HIDE DEF b, end
<1>9. Means'
  <2>1. JobMeans(b, OverridesOf(cloud), cache')
    BY <1>5, <1>6, <1>8 DEF JobMeans, PutOps, RemoveOps, Applying, Cacheable
  <2> QED BY <1>2, <1>7, <2>1 DEF Means, OneSlot
<1>10. CASE gs = cache[m]
  <2>1. \A n \in SessionModes : PlanOf(cache'[n]) = PlanOf(cache[n])
    BY <1>8, <1>10
  <2>2. UNCHANGED Abstract!vars
    BY <1>2, <2>1, AbstractVars DEF Abstract!vars, PlanOf
  <2> QED BY <1>9, <2>2 DEF Refines
<1>11. CASE gs # cache[m]
  <2>1. PICK g \in cache[m] : g.mode = as /\ gs = (cache[m] \ {g}) \union {[g EXCEPT !.to = to]}
    BY <1>1, <1>11 DEF Adjusted
  <2>2. as = m /\ g.from < to
    BY <1>1, <1>5, <1>11, <2>1 DEF AsksFor, Fixed
  <2>3. \A h \in cache[m] : Sendable(h)
    BY <1>4 DEF Cacheable
  <2>4. Near(cache[m], m)
    BY <1>4 DEF Cacheable
  <2> DEFINE S == OverridesOf(cache[m])
             o == As(g)
  <2>5. o \in S /\ o.mode = m /\ OverridesOf(gs) = MovedOne(S, o, to)
    <3>1. to \in 0 .. Day
      BY <1>1
    <3> QED BY <2>1, <2>2, <2>3, <2>4, <3>1, MovedMeans
  <2>6. S \in plans[m] /\ PlanOf(gs) = {MovedOne(S, o, to)}
    <3>1. gs # {}
      BY <1>5 DEF Cacheable
    <3> QED BY <1>2, <2>5, <3>1, PlanIs
  <2> HIDE DEF S, o
  <2>7. [n \in SessionModes |-> PlanOf(cache'[n])] = [plans EXCEPT ![m] = {MovedOne(S, o, to)}]
    BY <1>8, <2>6
  <2>8. Abstract!Moved(S, o, to) = MovedOne(S, o, to)
    BY DEF Abstract!Moved, MovedOne
  <2>9. Abstract!Move(m, to)
    BY <1>2, <2>5, <2>6, <2>7, <2>8, MoveStep
  <2>10. to \in 0 .. Day
    BY <1>1
  <2>11. Refines
    BY <2>9, <2>10, AbstractSteps, Zenon
  <2> QED BY <1>9, <2>11
<1> QED BY <1>10, <1>11

LEMMA SessionSteps ==
    ASSUME OneSlot, Inv, Means, NEW s \in Slots, Session(s) \/ _retry_pending_cleanup(s)
    PROVE  Means' /\ Refines
<1>1. job \in [Slots -> Job]
  BY DEF Inv, TypeOK
<1>2. ASSUME NEW m \in SessionModes, EndStarted(s, m) \/ EndDeferred(s, m) PROVE Means' /\ Refines
  <2>1. Early(job'[s])
    BY <1>2, JobsWithSelf, EarlyJobs DEF EndStarted, EndDeferred, RemoveOps
  <2>2. cache' = Forgotten({m}) /\ UNCHANGED cloud
    BY <1>2 DEF EndStarted, EndDeferred
  <2> QED BY <2>1, <2>2, ForgetStep
<1>3. ASSUME NEW m \in SessionModes, ApplyMerged(s, m) PROVE Means' /\ Refines
  <2>1. PICK new, force : job' = [job EXCEPT ![s] = NewJob(Tick(m), m, "check", new, force)]
    BY <1>3 DEF ApplyMerged
  <2>2. job'[s] = NewJob(Tick(m), m, "check", new, force)
    BY <1>1, <2>1
  <2>3. Early(job'[s])
    BY <2>2, EarlyJobs
  <2> QED BY <1>3, <2>3, QuietStep DEF ApplyMerged
<1>4. CASE (\E m \in SessionModes : Suspend(s, m)) \/ Redefer(s) \/ _retry_pending_cleanup(s)
  <2>1. Early(job'[s])
    BY <1>1, <1>4, EarlyJobs DEF Suspend, Redefer, _retry_pending_cleanup, RemoveOps
  <2> QED BY <1>4, <2>1, QuietStep DEF Suspend, Redefer, _retry_pending_cleanup
<1> QED BY <1>2, <1>3, <1>4, CachedStep DEF Session

(* A session's own merge is its plan.                                      *)
LEMMA AbstractPlan ==
    ASSUME UNCHANGED cloud, NEW m \in SessionModes, NEW o, NEW force \in BOOLEAN, o \in Abstract!Override, o.mode = m,
           Allowed(OverridesOf(cloud), o, force),
           PlansOf(cache') = [PlansOf(cache) EXCEPT ![m] = {Result(OverridesOf(cloud), o, force)}]
    PROVE  Refines
<1>1. /\ Abstract!PutAllowed(o, force) /\ UNCHANGED OverridesOf(cloud)
      /\ Abstract!PutResult(o, force) = Result(OverridesOf(cloud), o, force)
  BY AbstractMeans
<1>2. o.mode \in Abstract!SessionModes
  BY AbstractVars
<1>3. Abstract!Plan(o, force)
  BY <1>1, <1>2 DEF Abstract!Plan, PlansOf, PlanOf
<1> QED BY <1>3, AbstractSteps, Zenon

LEMMA AbstractHandOver ==
    ASSUME UNCHANGED cloud, NEW m \in SessionModes, AllOwn(OverridesOf(cloud)),
           PlansOf(cache') = [PlansOf(cache) EXCEPT ![m] = {OverridesOf(cloud)}]
    PROVE  Refines
<1>1. Abstract!Safe /\ UNCHANGED OverridesOf(cloud)
  BY AbstractMeans
<1>2. Abstract!HandOver(m)
  BY <1>1 DEF Abstract!HandOver, PlansOf, PlanOf
<1> QED BY <1>2, AbstractSteps, Zenon

LEMMA SamePermission ==
    ASSUME NEW p \in BOOLEAN, NEW q \in BOOLEAN, p <=> q, NEW F, NEW o
    PROVE  (Allowed(F, o, p) <=> Allowed(F, o, q)) /\ Result(F, o, p) = Result(F, o, q)
  BY DEF Allowed, Result

LEMMA MergeStep ==
    ASSUME OneSlot, Inv, Means, NEW s \in Slots, Merge(s) PROVE Means' /\ Refines
<1> DEFINE b == job[s]
           gs == _merge_with_existing(cloud, b.new)
           F == OverridesOf(cloud)
           o == As(b.new)
           w == Writing(b, gs)
<1>1. CASE MergeRaises(cloud, b.new, b.force)
  BY <1>1, FailedEarly, QuietStep DEF Merge
<1>2. CASE ~MergeRaises(cloud, b.new, b.force)
  <2>1. /\ job \in [Slots -> Job] /\ cache \in [SessionModes -> SUBSET Group]
        /\ b \in Job /\ b.force \in BOOLEAN /\ cloud \in SUBSET Group /\ b.mode \in OwnModes \union {"all"}
    BY JobTypes DEF Inv, TypeOK
  <2>2. /\ b.pc = "merge" /\ UNCHANGED cloud /\ job'[s] = w
        /\ cache' = IF b.op \in Applying /\ b.live THEN [cache EXCEPT ![b.mode] = gs] ELSE cache
    BY <1>2, <2>1 DEF Merge
  <2>3. /\ NewOK(b)
        /\ b.op \in {"start"} \union Applying => b.mode \in SessionModes
    BY <2>2 DEF Inv, JobInv, JobOK, Before, OfSession
  <2>4. /\ Sendable(b.new) /\ b.new.from \in 0 .. Day /\ b.new.to \in 0 .. Day
        /\ b.op \in {"start", "feedin"} \union Applying
    BY <2>3 DEF NewOK, Sendable, Group
  <2>5. b.live
    BY <2>2, <2>4 DEF Means, JobMeans, Applying
  <2>6. /\ w.op = b.op /\ w.mode = b.mode /\ w.new = b.new /\ (w.force <=> b.force)
        /\ (w.live <=> b.live) /\ w.pc = "write" /\ w.groups = gs
    BY <2>1, WritingFields
  <2>7. w.force \in BOOLEAN /\ gs \in SUBSET Group /\ gs # {}
    <3>1. gs # {}
      BY DEF _merge_with_existing
    <3>2. Sent(gs)
      BY <1>2, <2>1, <2>4, MergeSent DEF Inv, CloudInv
    <3>3. gs \in SUBSET Group
      BY <3>2 DEF Sent, Sendable
    <3>4. w \in Job
      BY <2>1, <3>3, WritingOK
    <3>5. w.force \in BOOLEAN
      BY <3>4 DEF Job
    <3> QED BY <3>1, <3>3, <3>5
  <2>8. PlanOf(gs) = {OverridesOf(gs)}
    BY <2>7, PlanIs
  <2>9. o.mode = b.new.mode /\ o.from = b.new.from /\ o.to = b.new.to /\ As(w.new) = o
    BY <2>6, AsFields
  <2>10. b.op \in Applying => PlansOf(cache') = [PlansOf(cache) EXCEPT ![b.mode] = {OverridesOf(gs)}]
    <3>1. SUFFICES ASSUME b.op \in Applying
                   PROVE  PlansOf(cache') = [PlansOf(cache) EXCEPT ![b.mode] = {OverridesOf(gs)}]
      OBVIOUS
    <3>2. cache' = [cache EXCEPT ![b.mode] = gs] /\ b.mode \in SessionModes
      BY <2>2, <2>3, <2>5, <3>1
    <3> HIDE DEF b, gs
    <3>3. \A n \in SessionModes : cache'[n] = IF n = b.mode THEN gs ELSE cache[n]
      BY <2>1, <3>2
    <3>4. \A n \in SessionModes : PlanOf(cache'[n]) = IF n = b.mode THEN {OverridesOf(gs)} ELSE PlanOf(cache[n])
      BY <2>8, <3>3
    <3> QED BY <3>2, <3>4 DEF PlansOf
  <2>11. ASSUME b.new.mode = b.mode
         PROVE  /\ b.mode \in OwnModes /\ o \in Abstract!Override
                /\ Allowed(F, o, b.force) /\ OverridesOf(gs) = Result(F, o, b.force)
    <3>1. b.mode \in OwnModes
      BY <2>1, <2>4, <2>11 DEF Sendable, Group, Modes, _MANAGED_WORK_MODES, _PLACEHOLDER_MODES
    <3>2. Shown(b.new)
      BY <2>4, <2>11, <3>1 DEF Sendable, WellFormed, Shown, OwnModes, SessionModes
    <3>3. o \in Abstract!Override
      BY <2>4, <2>11, <3>1, AbstractVars DEF Abstract!Override, As
    <3>4. Allowed(F, o, b.force) /\ OverridesOf(gs) = Result(F, o, b.force)
      BY <1>2, <2>1, <3>2, MergeMeans
    <3> QED BY <3>1, <3>3, <3>4
  <2>12. CASE b.op \in Applying
    <3>1. b.mode \in SessionModes /\ cache'[b.mode] = gs
      BY <2>1, <2>2, <2>3, <2>5, <2>12
    <3>2. w.op # "none" /\ w.op \notin PutOps /\ w.op \notin RemoveOps
      BY <2>6, <2>12 DEF Applying, PutOps, RemoveOps
    <3> HIDE DEF b, gs, F, o, w
    <3>3. JobMeans(w, F, cache')
      BY <2>5, <2>6, <2>7, <3>1, <3>2 DEF JobMeans
    <3>4. Means'
      BY <2>2, <3>3 DEF Means, OneSlot, F
    <3>5. CASE b.new.mode = b.mode
      <4>1. PlansOf(cache') = [PlansOf(cache) EXCEPT ![b.mode] = {Result(F, o, b.force)}]
        BY <2>10, <2>11, <2>12, <3>5
      <4>2. o.mode = b.mode /\ o \in Abstract!Override /\ Allowed(F, o, b.force)
        BY <2>9, <2>11, <3>5
      <4>3. UNCHANGED cloud /\ b.force \in BOOLEAN
        BY <2>1, <2>2
      <4>4. Refines
        BY <3>1, <4>1, <4>2, <4>3, AbstractPlan DEF F
      <4> QED BY <3>4, <4>4
    <3>6. CASE b.new.mode # b.mode
      <4>1. b.new.mode = "SelfUse" /\ ~b.force
        BY <2>3, <3>6 DEF NewOK
      <4>2. AllOwn(F) /\ OverridesOf(gs) = F
        BY <1>2, <2>1, <4>1, SelfUseMeans DEF F, gs
      <4>3. PlansOf(cache') = [PlansOf(cache) EXCEPT ![b.mode] = {F}]
        BY <2>10, <2>12, <4>2
      <4>4. Refines
        BY <2>2, <3>1, <4>2, <4>3, AbstractHandOver DEF F
      <4> QED BY <3>4, <4>4
    <3> QED BY <3>5, <3>6
  <2>13. CASE b.op \notin Applying
    <3>1. cache' = cache /\ b.op \in PutOps /\ b.new.mode = b.mode
      BY <2>2, <2>3, <2>4, <2>13 DEF NewOK, PutOps
    <3>2. Allowed(F, As(w.new), w.force) /\ OverridesOf(gs) = Result(F, As(w.new), w.force)
      <4> HIDE DEF b, gs, F, o, w
      <4> QED BY <2>1, <2>6, <2>7, <2>9, <2>11, <3>1, SamePermission
    <3>3. w.op \notin Applying /\ w.op \notin RemoveOps
      BY <2>6, <3>1 DEF Applying, PutOps, RemoveOps
    <3> HIDE DEF b, gs, F, o, w
    <3>4. JobMeans(w, F, cache')
      BY <2>4, <2>5, <2>6, <2>11, <3>1, <3>2, <3>3 DEF JobMeans, PutOps
    <3>5. Means'
      BY <2>2, <3>4 DEF Means, OneSlot, F
    <3>6. UNCHANGED Abstract!vars
      BY <2>2, <3>1, AbstractVars DEF Abstract!vars
    <3> QED BY <3>5, <3>6 DEF Refines
  <2> QED BY <2>12, <2>13
<1> QED BY <1>1, <1>2

LEMMA RemoveStep ==
    ASSUME OneSlot, Inv, Means, NEW s \in Slots, Remove(s) PROVE Means' /\ Refines
<1> DEFINE b == job[s]
           gs == IF b.mode = "all" THEN {SelfUseDay} ELSE _remove_mode_from_schedule(cloud, b.mode)
           F == OverridesOf(cloud)
           w == Writing(b, gs)
<1>1. CASE ~_check_schedule_safe(cloud)
  BY <1>1, FailedEarly, QuietStep DEF Remove
<1>2. CASE _check_schedule_safe(cloud)
  <2>1. job \in [Slots -> Job] /\ b \in Job /\ cloud \in SUBSET Group
    BY JobTypes DEF Inv, TypeOK
  <2>2. b.pc = "remove" /\ UNCHANGED <<cloud, cache>> /\ job'[s] = w
    BY <1>2, <2>1 DEF Remove
  <2>3. b.op \in RemoveOps /\ b.live
    BY <2>2 DEF Means, JobMeans, RemoveOps
  <2>4. AllOwn(F) /\ OverridesOf(gs) = IF b.mode = "all" THEN {} ELSE Rest(F, b.mode)
    BY <1>2, <2>1, SafeMeans, RemoveMeans, SelfUseDayMeans
  <2>5. /\ w.op = b.op /\ w.mode = b.mode /\ (w.live <=> b.live) /\ w.pc = "write" /\ w.groups = gs
    BY <2>1, WritingFields
  <2> HIDE DEF b, gs, F, w
  <2>6. JobMeans(w, F, cache)
    BY <2>3, <2>4, <2>5 DEF JobMeans, PutOps, RemoveOps, Applying
  <2>7. Means'
    BY <2>2, <2>6 DEF Means, OneSlot, F
  <2>8. UNCHANGED Abstract!vars
    BY <2>2, AbstractVars DEF Abstract!vars
  <2> QED BY <2>7, <2>8 DEF Refines
<1> QED BY <1>1, <1>2

LEMMA AnswerSteps ==
    ASSUME OneSlot, Inv, Means, NEW s \in Slots, Answer(s) \/ Fault(s) \/ PostRetried(s)
    PROVE  Means' /\ Refines
<1>1. job \in [Slots -> Job]
  BY DEF Inv, TypeOK
<1>2. CASE Validate(s)
  <2>1. CASE MergeRaises(cloud, job[s].new, job[s].force)
    <3>1. Early(job'[s])
      BY <1>2, <2>1, FailedEarly DEF Validate
    <3> QED BY <1>2, <2>1, <3>1, QuietStep DEF Validate
  <2>2. CASE ~MergeRaises(cloud, job[s].new, job[s].force)
    <3>1. job[s].mode \in SessionModes
      BY <1>2 DEF Validate, Inv, JobInv, JobOK, OfSession
    <3>2. /\ Replace(s, job[s].mode, <<job[s].new.from, job[s].new.to>>, job[s].force)
          /\ UNCHANGED cloud
      BY <1>2, <2>2 DEF Validate
    <3> QED BY <3>1, <3>2, ReplaceStep
  <2> QED BY <2>1, <2>2
<1>3. CASE Check(s)
  <2>1. CASE _check_schedule_safe(cloud)
    <3>1. job'[s].pc = "merge" /\ job'[s].op = job[s].op /\ (job'[s].live <=> job[s].live)
      BY <1>1, <1>3, <2>1 DEF Check, Job
    <3>2. Early(job'[s])
      BY <3>1 DEF Means, JobMeans, Early
    <3> QED BY <1>3, <3>2, QuietStep DEF Check
  <2>2. CASE ~_check_schedule_safe(cloud)
    BY <1>3, <2>2, FailedEarly, QuietStep DEF Check
  <2> QED BY <2>1, <2>2
<1>4. CASE ReadFails(s) \/ WriteFails(s)
  BY <1>4, FailedEarly, QuietStep DEF ReadFails, WriteFails
<1>5. CASE Write(s)
  <2>1. PlanKept(job[s]) /\ job[s].pc = "write" /\ cloud' = job[s].groups
    BY <1>5 DEF Write, PlanKept
  <2>2. Refines
    BY <2>1, WriteRefines
  <2>3. Early(job'[s])
    BY <1>5, JobsWithSelf, EarlyJobs DEF Write
  <2> QED BY <2>2, <2>3, EarlyMeans DEF Means, OneSlot
<1>6. CASE ReplyLost(s)
  <2>1. Refines
    BY <1>6, WriteRefines DEF ReplyLost, PlanKept
  <2>2. Early(job'[s])
    BY <1>6, FailedEarly DEF ReplyLost
  <2> QED BY <2>1, <2>2, EarlyMeans DEF Means, OneSlot
<1>7. CASE PostRetried(s)
  <2>1. Refines
    BY <1>7, WriteRefines DEF PostRetried, PlanKept
  <2>2. JobMeans(job'[s], OverridesOf(cloud'), cache')
    BY <1>7, WriteAgain DEF PostRetried
  <2> QED BY <2>1, <2>2 DEF Means, OneSlot
<1>8. CASE Merge(s) \/ Remove(s)
  BY <1>8, MergeStep, RemoveStep
<1> QED BY <1>2, <1>3, <1>4, <1>5, <1>6, <1>7, <1>8 DEF Answer, Fault

(* Deleting a group deletes its override, or none if another is the same.  *)
LEMMA AppStep ==
    ASSUME OneSlot, Inv, Means, ~AppRaces, App PROVE Means' /\ Refines
<1>1. UNCHANGED cache /\ \A s \in Slots : job'[s] = NoJob
  BY DEF App, Idle
<1>2. Means'
  BY <1>1, EarlyJobs, EarlyMeans DEF Means
<1>3. PlansOf(cache') = PlansOf(cache)
  BY <1>1
<1>4. ASSUME NEW g \in AppGroups, cloud' = cloud \union {g} PROVE Refines
  <2> DEFINE W == OverridesOf(cloud')
             F == OverridesOf(cloud)
  <2>1. \A o : o \in W <=> \E h \in cloud \union {g} : Shown(h) /\ o = As(h)
    BY <1>4, OverridesAre
  <2>2. \A o : o \in F <=> \E h \in cloud : Shown(h) /\ o = As(h)
    BY OverridesAre
  <2>3. Shown(g) => As(g) \in OverridesOf(AppGroups)
    BY OverridesAre
  <2> HIDE DEF W, F
  <2>4. CASE Shown(g)
    <3>1. W = F \union {As(g)}
      BY <2>1, <2>2, <2>4
    <3>2. Abstract!App
      BY <1>3, <2>3, <2>4, <3>1 DEF Abstract!App, PlansOf, PlanOf, F, W
    <3> QED BY <3>2, AbstractSteps, Zenon
  <2>5. CASE ~Shown(g)
    <3>1. W = F
      BY <2>1, <2>2, <2>5
    <3> QED BY <1>3, <3>1 DEF Refines, Abstract!vars, PlansOf, PlanOf, F, W
  <2> QED BY <2>4, <2>5
<1>5. ASSUME NEW g \in cloud, cloud' = cloud \ {g} PROVE Refines
  <2> DEFINE W == OverridesOf(cloud')
             F == OverridesOf(cloud)
  <2>1. \A o : o \in W <=> \E h \in cloud \ {g} : Shown(h) /\ o = As(h)
    BY <1>5, OverridesAre
  <2>2. \A o : o \in F <=> \E h \in cloud : Shown(h) /\ o = As(h)
    BY OverridesAre
  <2> HIDE DEF W, F
  <2>3. CASE Shown(g) /\ ~\E h \in cloud \ {g} : Shown(h) /\ As(h) = As(g)
    <3>1. As(g) \in F /\ W = F \ {As(g)}
      BY <2>1, <2>2, <2>3
    <3>2. Abstract!App
      BY <1>3, <3>1 DEF Abstract!App, PlansOf, PlanOf, F, W
    <3> QED BY <3>2, AbstractSteps, Zenon
  <2>4. CASE ~Shown(g) \/ \E h \in cloud \ {g} : Shown(h) /\ As(h) = As(g)
    <3>1. W = F
      BY <2>1, <2>2, <2>4
    <3> QED BY <1>3, <3>1 DEF Refines, Abstract!vars, PlansOf, PlanOf, F, W
  <2> QED BY <2>3, <2>4
<1> QED BY <1>2, <1>4, <1>5 DEF App

(* Every step keeps the invariant and is a step of Overrides or stutters.  *)
THEOREM StepRefines ==
    ASSUME OneSlot, ~AppRaces
    PROVE  Inv /\ Means /\ [Next]_vars => Means' /\ [Abstract!Next]_(Abstract!vars)
<1> SUFFICES ASSUME Inv, Means, [Next]_vars PROVE Means' /\ Refines
  BY DEF Refines
<1>1. CASE App
  BY <1>1, AppStep
<1>2. CASE UNCHANGED vars
  <2>1. UNCHANGED <<cloud, cache, job>>
    BY <1>2 DEF vars
  <2> QED BY <2>1, AbstractVars DEF Means, Refines, Abstract!vars
<1> QED BY <1>1, <1>2, ServiceSteps, SessionSteps, AnswerSteps DEF Next

LEMMA InitRefines == Init => Means /\ Abstract!Init
<1> SUFFICES ASSUME Init PROVE Means /\ Abstract!Init
  OBVIOUS
<1>1. Means
  BY EarlyJobs, EarlyMeans DEF Init, Means
<1>2. OverridesOf(cloud) \in SUBSET OverridesOf(AppGroups)
  BY OverridesAre DEF Init
<1>3. \A m \in SessionModes : PlanOf(cache[m]) = {}
  BY PlanIs DEF Init
<1> QED BY <1>1, <1>2, <1>3, AbstractVars DEF Abstract!Init, PlanOf

(* With one operation at a time, and the app idle while it is under way,   *)
(* the operations on the schedule are the atomic ones of Overrides,        *)
(* whatever fails, is lost or is sent again.                               *)
THEOREM OperationsAreAtomic ==
    ASSUME OneSlot, ~AppRaces PROVE Spec => ImplementsOverrides
<1>1. Init => Inv /\ Means /\ Abstract!Init
  BY InvInit, InitRefines
<1>2. Inv /\ Means /\ [Next]_vars => Inv' /\ Means' /\ [Abstract!Next]_(Abstract!vars)
  BY InvInductive, StepRefines
<1> QED BY <1>1, <1>2, PTL DEF Spec, ImplementsOverrides, Abstract!Spec
=============================================================================
