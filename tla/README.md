# TLA+ verification of FoxESS Control

FoxESS Control is a Home Assistant integration that charges and discharges a home
battery behind a FoxESS inverter.  The user asks for a *smart session* (reach 80 % by
06:00, sell until 20 %) and the integration defers, starts, paces, suspends and ends
it by writing overrides to the inverter, over the FoxESS cloud or, in *entity mode*,
over the entities of a local integration.

This directory holds TLA+ models of its control code, the TLC configurations that
check them, and proofs that TLAPS checks.  All lines below refer to `src/`.

The control core exists twice, as `src/smart_battery/` and, vendored and byte for byte
the same, as `src/custom_components/foxess_control/smart_battery/`.  The two listener
modules are mapped to the first copy, the modules that also model the brand layer to
the second.

## 1. The system

| Part | State it keeps | Operations | Talks to |
|---|---|---|---|
| Smart-charge listener (`listeners.py`, `setup_smart_charge_listeners`) | the dict `smart_charge_state`, its handles `smart_charge_unsubs`, a wake in the dict | a 5-minute tick, a wake at the deferred start, the window-end timer | adapter, Store, issue registry, replay |
| Smart-discharge listener (`setup_smart_discharge_listeners`) | `smart_discharge_state`, handles, an early-stop timer | a 1-minute tick (and one per frame), window end, early stop at the feed-in limit | adapter (mode and export limit), Store, replay |
| Circuit breaker (`_with_circuit_breaker`) | three counters of the session dict | wraps each tick | both listeners |
| Services (`_services.py`) | none | start or replace a session, one-shot modes, clear overrides | everything below |
| Retry of clean-ups (`coordinator.py`, `_retry_pending_cleanup`) | one slot `pending_override_cleanup` | on every poll | cloud schedule |
| Store and recovery (`session.py`, `__init__.py`) | a `.storage` file with one record per session kind | save, clear, save on stop, recover at set-up | everything that owns a session |
| Replay (`__init__.py`) | `replay_pending`, attempts, timer | left by an abort, probes every 5 minutes | services |
| Cloud schedule (`foxess_adapter.py`, `foxess/inverter.py`) | the inverter's schedule groups, the groups each session's adapter last wrote | read, compute, write | FoxESS cloud, its app |
| Entity adapter (`foxess_adapter.py`, `_helpers.py`) | the inverter's entities | several service calls per mode | Home Assistant entities |
| Stream (`foxess/realtime_ws.py`, `__init__.py`) | connection, stop and linger flags, portal token | start, listen, reconnect, stop | coordinator, sessions |
| Coordinator (`coordinator.py`) | `self.data` and its timestamps | poll, merge frames, extrapolate, fetch temperature | sensors, listeners |
| Pacing and taper (`algorithms.py`, `taper.py`) | the learned taper | pure functions; recording | listeners, sensors |
| Sensors (`sensor_base.py`) | none | derive phase, power, countdown, forecast | the session dict, the coordinator |

Everything but the requests to the cloud, which run in executor threads, runs on one
event loop: two pieces of code interleave only where one of them awaits.  The
difficulties are all of this kind: a coroutine that resumes in a world that changed
(a session replaced, a schedule rewritten, a stream stopped); a request refused, lost,
or done without its answer; a timer of something that is over; a stop or a crash
between two writes; and arithmetic that bounds the same power from several sides.
`PROJECT.json` lists them line by line as hazards, with the properties that would
catch each going wrong.

What makes the parts correct:

* **Listeners.**  A session ends for a reason of its own; its override is removed
  however it ends; what is persisted is what runs; a transient failure is ridden out.
* **Cloud schedule.**  Each operation does to the schedule what it would do in one
  step; what is sent is acceptable to the API; charge and discharge exclude each other.
* **Store, recovery, replay.**  What ended stays ended, what ran goes on, and a replay
  comes to an end.
* **Entities.**  No mode, floor or export limit outlives its session.
* **Stream.**  Open while a session is paced, closed while none is, and never up again
  once it was told to stop; the badge "ws" tells the truth.
* **Coordinator.**  Its writers neither starve the poll, nor count energy twice, nor
  show an estimate that contradicts the reading.
* **Pacing.**  Targets are met by the end of the window, discharge never imports from
  the grid, the sensors show what the listener does.

## 2. Modules

| Module | Models | Composed with |
|---|---|---|
| `SessionBreaker` | `_with_circuit_breaker`, operators on a session dict | extended by both listeners |
| `ChargeListener` | a smart-charge session from service call to end | `SessionBreaker` |
| `DischargeListener` | a smart-discharge session from service call to end | `SessionBreaker` |
| `Overrides` | what the cloud schedule is for: an abstract specification | instantiated by `CloudSchedule` |
| `CloudSchedule` | everything that writes the schedule, request by request | implements `Overrides` |
| `SessionStore` | records, crash, stop, reload, recovery, replay | |
| `RealtimeWS` | the life of the stream, its start and stop, the portal token | |
| `Coordinator` | the writers of `self.data` | |
| `EntityMode` | both kinds of session over entity service calls | |
| `TaperProfile` | the charge histogram of `taper.py` | extended by `PacingAlgorithms` |
| `PacingAlgorithms` | `algorithms.py` on integers | extended by `Pacing` |
| `Pacing` | both listeners' ticks in a loop with inverter, battery and house | extended by `Display` |
| `Display` | what the sensors derive from a state of `Pacing` | |

`MC...` modules give the constants that a `.cfg` cannot spell, `..._proofs` modules hold
the theorems; that `CloudSchedule` implements `Overrides` is proved in
`CloudSchedule_proofs`.

The listener modules leave the pacing answers, the store and the adapter open; each of
the other modules takes sessions as simply as its question allows and details one of
those.  Where two modules meet, the meaning of the shared state is the same:
`pending_override_cleanup` is `pendingCleanup`, `pending` and `cleanup`; the session's
override is `inverter`, `cloud`, `override` and `entity.mode`.

### ChargeListener and DischargeListener

An action is the code between two awaits.  An await on the inverter is a record in
`calls`: `Await` puts it there, `Effect` is the request reaching the inverter, and one
of the `Return` actions is the coroutine going on, with or without an exception.
`calls[c].done` separates the request's effect from its answer, so that an answer can
be lost after the effect (`"lostReply"`) or the request refused (`"refused"`).

| Variable | Code |
|---|---|
| `session`, `state` | `session_id` and the other keys of the dict |
| `unsubs` | whose handles the domain data holds |
| `intervals`, `expiries`, `wakes`, `stops` | the timers each session has registered with Home Assistant |
| `inverter` | power of the override (`None`, or 0 for a charge: self-use) |
| `pendingCleanup` | `dd.pending_override_cleanup` |
| `stored` | the record in the Store |
| `issue` | the `charge_target_unreachable` repair issue |

One disjunct of `Tick` is one way through the tick's body, in the order it tests them;
`TickHold` and `TickAbort` are the open breaker's.  The answers of the pacing
algorithms and of the battery are choices: what holds for every answer holds for the
algorithms'.  The Store is atomic here.  The validation a service makes before it
cancels the old session changes nothing and is no step.  Ticks of a discharge are
started by the timer and by every frame and overlap in normal operation, which `Calls`
allows for.

### CloudSchedule

The cloud knows no partial update: a writer reads all groups, computes, and writes all
of them.  An operation is a job in a slot: `Validate`, `Check`, `Merge`, `Remove` are
the read and what is computed from it, `Write` the second request.  `live` says whether
the session a call was made for is still the current one when it returns.  `cache` is
`_groups` of a session's adapter, which the next power change writes again with a new
end, unread (`Adjusted`: the first group of the mode): a discharge's end is its safe
horizon, which every tick moves, a charge's is its window's (`Ends`).  `ReplyLost` and
`PostRetried` are a POST that arrived but was not answered, and was sent again.  The API
refuses groups that overlap (`Apart`), so such a write can only fail.  SoC settings are
kept down to how they compare with the API's least value; times are marks of a day.

Sessions of both kinds also lose their override while they go on: `Suspend` is a
suspension, the floor seen once or a target reached, `Redefer` a charge that is put off
again, and `as = "SelfUse"` in the apply actions the hand-over of a discharge whose
feed-in is nearly used up.  `MayRemove` says when: the floor takes the override of a discharge off
whether it has begun or not.  `acts` counts what sessions do.  `overlapped` is history: at
the last time a service cancelled both sessions, was one for the other mode past its own
cancel and short of its session?

`Overrides` has one variable for the overrides in force and one for the plan a session
holds.  A session may put its plan in force (`Renew`), move the end of its own override
in it (`Move`) and hand over to self-use (`HandOver`).  The mapping forgets placeholders,
self-use groups and settings.

### SessionStore

`view` is what the next load returns, `disk` what a new process finds: `save_session`
changes the first, `DelayedWrite` follows up, `clear_stored_session` changes both.
`Crash`, `_on_ha_stop`, `async_unload_entry` and `async_setup_entry` are the process;
recovery is stepped record by record, since it awaits the schedule between them and
writes back what it loaded.  `id` tells sessions apart through recovery.  `leaked`
counts replay timers that an unload left behind.

### RealtimeWS

A stream object is `"new"`, `"up"`, or in one of three places of its reconnect loop.
`_maybe_start_realtime_ws` awaits the plant id and the connection, and nothing keeps two
calls apart; `request_stop` turns reconnecting off at once and lingers for one frame;
the end of a session leaves a stop that runs after the override's removal (`owed`).

### Coordinator

Time is in ticks; SoC and battery powers are in hundredths of a percent, energies are
doubled so that trapezoids stay whole.  `refresh` and `extrap` are timers,
`async_set_updated_data` sets the first back.  `asOf`, `polled`, `rest` and `setbacks`
remember what the properties are about.  A frame is complete and its values current; a
REST reading counts as of its answer.

### EntityMode

A mode is two service calls that are not waited for, an export limit is one that is;
they arrive in the order sent, are refused, or are lost.  `top` and `inKw` are the
range and the unit of the limit's entity.  `Rest` is every tick that puts a session in
self-use while it goes on: a suspension (1475-1500), a floor seen once (1767-1777, begun or
not: `MayRemove`), the hand-over of a discharge whose feed-in is nearly used up (1639-1669)
and a charge's target reached (705-717).  `session[k].off` is set there and cleared by
`Resume`, the tick that paces again, or a new start; `Redefer` puts a charge off again
(924-976).  `excuse` records what happened in a run that
the code does not protect itself against, and each property names those it allows.

### Pacing and Display

A minute is a step.  Power is in watts, energy in watt-minutes, ratios in thousandths.
Where the code compares times the model compares exactly; the hours that a percent of
the battery takes are rounded up to a hundredth of a minute, so that a sum over percents
is never less than the energy over the power; a power that the code
truncates to an `int` is divided once, at the end.  The inverter and
the battery are those of `InverterModel.tick` in `src/simulator/model.py`, at its default
efficiency of 1 and without its discharge taper (section 6).  `Dies` is the end of
Home Assistant, after which the override runs to its end by itself.  `Display` has one
operator per sensor, a function of the state; `SensorsAgree` compares them with the
listener and with each other at every step.

## 3. Runs

| Run | Module | Asks |
|---|---|---|
| `charge_overlap` | `ChargeListener` | do session, timers, breaker, issue and stored record agree, and does a session end only for its own reason, with two sessions, two coroutines in flight, refused calls and lost replies? |
| `charge_alone` | `ChargeListener` | is the override of a session the listener ends removed, and in the end for good? |
| `discharge_overlap` | `DischargeListener` | types, the floor's count and latch, reasons to end, as in `charge_overlap` with a paced and an unpaced session |
| `discharge_alone` | `DischargeListener` | does a suspension stop the discharge, does the override go, does the scheduled feed-in stop end its session? |
| `schedule_serial` | `CloudSchedule` | do the operations, one at a time, implement `Overrides`, through two service calls, moved ends, hand-overs and removals in mid-session? |
| `schedule_concurrent` | `CloudSchedule` | is every schedule that is sent acceptable to the API, whoever wrote between the read and the write; when are charge and discharge both sessions; and is the schedule in the end free of a mode whose removal failed? |
| `store_recovery` | `SessionStore` | what do crashes, stops, reloads and replays make of sessions and records? |
| `ws_stream` | `RealtimeWS` | do overlapping starts and stops, drops, refusals and a revoked token leave the right stream open, and the badge true? |
| `coordinator_writers` | `Coordinator` | what do the writers of `self.data` make of SoC, feed-in, poll and badge, in any order? |
| `entity_boundary` | `EntityMode` | does anything a session wrote to the entities outlive it, and is a running session in force? |
| `pacing_loop` | `Pacing`, `Display` | floor, horizon, target, and the sensors' agreement, with a house that changes its draw |
| `pacing_force` | `Pacing` | a violation: a force charge is put off at its first tick |

**Bounds, and why they are enough.**

* *Listeners.*  Two sessions are the one that runs and the one that replaces it; two
  slots of `Calls` let every pair of coroutines overlap, and a third meets the same
  tests.  In the overlap runs the thresholds are 2, the least at which "once" and
  "often enough" differ, and one power suffices, as no property there depends on it.
  In the `alone` runs the thresholds are the code's (3, 3, 5 and 2) and the powers 1, 2
  and 4 with `MinPowerChange` 2 give changes below and above it and the maximum, which
  is exempt.  One slot and one session give what `ListenerCleansUp` and
  `SuspensionStopsDischarge` need and the proofs name: no apply in flight beside another
  call, no session begun over an override.  With two slots a discharge tick whose apply is
  answered after another tick's suspension leaves the suspended session discharging, see
  section 5.
* *Schedule.*  Three marks give windows that overlap, touch and contain each other; the
  app sets a placeholder, a group in need of repair and one of an unmanaged mode.  What
  the app sets is ordered in time (`ScheduleAssumption`).  Two service calls and four acts
  of sessions in `schedule_serial` are a session that merges, moves its cached end twice
  and is replaced or ends.  In `schedule_concurrent` two slots let any two operations
  interleave, two services among them; two acts are the end whose removal fails and one
  more of the other mode, which may take its record.  Its day has two marks, of which the
  app's groups take the later: a discharge that is merged with an earlier end keeps them,
  and moves its end into them.  Placeholders, which every merge drops at once, are left to
  the serial run.
* *Store.*  Two calls are a session and its successor, two restarts a restart after a
  restart; the clock passes the window's end and the end of the day; two attempts let
  a replay run out of them.
* *Stream.*  Two starts together and two streams give one nobody tracks; two faults let
  a reconnect fail after the drop that began it.
* *Coordinator.*  A flow over ten times the other meets the plausibility filter; the SoC
  starts near the edge of two percents; six ticks hold three polls, two fetches and two
  troubles, and exceed the delay that `PollOnCadence` grants a poll nothing set back.
  Its clock stops at `Horizon`.
* *Entities.*  Two sessions of either kind, four calls on their way, one refused or lost.
  One limit is below the hardware's, so that clamping shows.  Nothing bounds rests,
  resumptions and re-deferrals.
* *Pacing.*  A battery of 2 kWh behind 3 kW sees a whole session in a window of 15
  minutes: deferred, begun, given up and begun again, or down to its floor.  The draws
  are above the dead band, none, and a small surplus; the profiles are empty, learned,
  and ruined by sensors in the wrong unit.  A discharge also begins at its floor, with a
  feed-in limit so high that it is not put off.

Deadlock is checked in the listeners', store, stream and entity runs.  The schedule
rests when `MaxCalls` and `MaxEdits` are used up, the coordinator when its clock is at
`Horizon`, the pacing loop when its window is over: those cfgs do not check it.

**Fairness.**  A user, a fault and the app are never fair.

* *Listeners* (`charge_alone`, `discharge_alone`).  The event loop fires timers and
  resumes coroutines, the coordinator polls, requests are answered, outages end.
  `Tick`, `TimerExpire`, `EarlyStop`, `CleanupRetry` and `Effect` have strong fairness:
  the first four since the bound on `Calls`, which the program does not have, may
  disable them each time; the last says that an adapter that comes and goes is not
  always gone exactly while a request is pending.
* *Schedule* (`schedule_concurrent`).  Every request is answered or fails (weak).  For the
  clean-up the retry comes round whatever else is going on and the cloud answers now and
  then (strong): without it a cloud that refuses for ever refutes any promise.
* *Store.*  The replay's timer fires, its probe is answered one way or the other.
* *Stream.*  Ticks and watchdog come while there is something to tick for, awaits are
  answered, back-off and linger end, the temperature, whose fetch finds the compound
  id, is fetched on its cadence.  All weak.

**What the passing properties leave out** is said in each one's statement: premises such
as `bms` in `PacedStreamOpens` or an `excuse` of `EntityMode` are there because the code
does not keep the property without them; section 5 says what happens then.

## 4. Proofs

TLC checks small instances.  TLAPS proves, for every value of the constants that the
modules' named assumptions allow (any number of sessions, coroutines, slots, streams,
records' ids, faults, any thresholds):

| Theorem | Module | Property | Further assumption |
|---|---|---|---|
| `TypeCorrect`, `TimersCover`, `IssueShown`, `BreakerCounts`, `StoreFollows`, `EndsJustified` | `ChargeListener_proofs` | `TypeOK`, `TimersCoverSession`, `IssueAgrees`, `BreakerAgrees`, `StoredAgrees`, `EndsForAReason` | |
| `TypeCorrect`, `TimersCover`, `FloorCounts`, `StoreFollows`, `EndsJustified` | `DischargeListener_proofs` | `TypeOK`, `TimersCoverSession`, `FloorCounted`, `StoredAgrees`, `EndsForAReason` | |
| `SuspensionStops` | `DischargeListener_proofs` | `SuspensionStopsDischarge` | `[]ApplyAlone` |
| `LeavesNoOverride` | `ChargeListener_proofs`, `DischargeListener_proofs` | `ListenerCleansUp` | `[]ApplyAlone`, `[][BeginsAttended]_vars`, no lost replies |
| `TypeCorrect`, `SentSchedulesValid`, `NeverTwoSessions` | `CloudSchedule_proofs` | `TypeOK`, `SendsValid`, `OneSession` | |
| `OperationsAreAtomic` | `CloudSchedule_proofs` | `ImplementsOverrides` | `~AppRaces`, one slot |
| `TypeCorrect`, `StoreFollows`, `EndedStaysEnded`, `RestartsResume` | `SessionStore_proofs` | `TypeOK`, `StoreAgrees`, `NoResurrection`, `RestartResumes` | `~CallsInSetup` |
| `TypeCorrect`, `BadgeIsHonest`, `StoppedStays` | `RealtimeWS_proofs` | `TypeOK`, `BadgeHonest`, `StoppedStaysDown` | |
| `TypeCorrect`, `EstimateRounds`, `CountedOnce`, `BadgeHonest`, `PollKept` | `Coordinator_proofs` | `TypeOK`, `RoundsToReported`, `FeedinCountedOnce`, `BadgeMeansFresh`, `PollOnCadence` | |
| `TypeCorrect`, `ForcedHasSession`, `FloorOfMode`, `LimitBack`, `RunningInForce` | `EntityMode_proofs` | `TypeOK`, `ForcedMeansSession`, `FloorFollowsMode`, `LimitRestored`, `SessionInForce` | |
| `FloorHeld`, `HorizonEnds`, `PacingTyped` | `Pacing_proofs` | `FloorWithinBand`, `HorizonProtects`, `TypeOK` | |
| `SensorsAgreeAlways` | `Pacing_proofs` | `SensorsAgree` | a headroom, or draws below `MaxPower` |

Each proof has the same shape: an invariant `Inv` that implies the property, `InvInit`,
`InvInductive` (one lemma per action or group of actions), and a temporal step.

* **Listeners.**  The type invariant is inductive because the type of a call says which
  calls carry a session: a coroutine that resumes finds the id it was started with.
  `StoredAgrees` needs this (a resuming tick has a session, so `session = s` excludes
  `None`).  `TimersCoverSession` of a discharge includes that a dict that says a stop is
  scheduled has its timer; `FloorCounted` is inductive since count and latch are only
  written together, and `EndsForAReason` needs it for the tick that resumes from the
  floor's removal.
* **What a session leaves behind.**  `SuspensionStops` and `LeavesNoOverride` are of the
  rely-guarantee kind: for every behaviour of `Spec` in which the environment keeps to
  what the theorem names, for any number of sessions and coroutines.  `ApplyAlone`: while
  an override is being applied no other call is in flight (removals may overlap).
  `BeginsAttended`: a deferred session begins with no override on the inverter, or with
  one that is being removed or on record.  One slot gives the first, one session the
  second; without either, or with a first apply that succeeds while its reply is lost, an
  override really is left behind (section 5), so none can be dropped.
  The invariants say what each coroutine in flight knows: a removal that was done has
  taken the override off even when its reply is lost (`RemovalsTake`); while suspended no
  power is being applied and the override is off, being taken off or left to the
  coordinator (`SuspendedOff`); a session that has not started has no override unless it
  is starting (`DeferredOff`), and the apply that starts it finds it so (`CallAgrees`).  A
  session that ends unstarted then leaves nothing, and one that has started is followed by
  the removal of its end (`EndAttended`, `RemovalAttended`).
* **Schedule.**  What a job is about to write is valid only because what it read was
  free of overlaps, what it merges is a well-formed window, and what it caches was
  valid when it was cached and only its own end has changed since: `CloudInv`,
  `CacheInv` and `JobInv`.  A cached discharge whose end moves out again may meet a group
  that was merged under the shorter one: `Near` says that this is the only way for two
  cached groups to overlap, and that it is always the discharge that begins first.  A
  charge and a hand-over ask for the end their group has (`EndsAt`), so their groups never
  overlap.  That no two sessions run but after overlapping services is about claims
  (`Single`): a mode is claimed by its session, and by a service that is past its cancel
  and short of its session.  A cancel leaves no claim but its own service's and those of
  other services past theirs, which is what `overlapped` remembers; and a coroutine whose
  session is still its own cannot bring back one that is gone (`LiveInv`).
* **Refinement.**  One lemma for each helper on groups says what it does to the overrides
  they stand for (`MergeMeans`, `RemoveMeans`, `SelfUseMeans` for a hand-over, `MovedMeans`
  for a moved end, each for any set of groups), and one for each operator of `Overrides`
  that it is that.  One invariant joins the schedule's: the job about to write holds what
  its operation makes of the overrides in force, or its session's plan, or has already had
  that effect and may only repeat it (`Means`).  The write is then the atomic step; every
  other step stutters, or moves the plan.  A moved end is one override of the plan with
  another end because no two groups of a cache begin together (`MarksDiffer`), also where
  they overlap.  One slot and no edit by the app in between keep the overrides in force
  what the job read.
* **Store.**  At most one record is in view, the disk lags behind it only in contents,
  never in whose record it is, and during recovery the loaded copy agrees with the view
  for the records not yet judged.  `Fresh` says that no id in use has ended.
  `RestartResumes` adds an invariant of what a stop left behind and what the set-up has
  made of it so far.
* **Stream.**  `StartsInv` (a start that awaits its connection owns a new stream),
  `StopsInv` (a stream told to stop is up: one that was not is taken down at once, and
  one that goes down afterwards does not reconnect) and `TriesInv`; the badge follows
  since each way down takes it along.  That a stopped stream stays down is a fact about
  a step: `OneStreamChanges` reduces it to the one stream that each action changes.
* **Coordinator.**  The estimate pairs with the reading it was clamped to in every copy
  that an await keeps; feed-in runs ahead of the meter's last reading by at most the
  steepest flow times the time since, and each writer's interval begins where the
  previous one ended.  `BadgeInv`: a stream that is up was heard lately, the badge is
  there only while it is, and what is shown lags behind what was heard by at most the
  poll that overwrote it.  `CadenceInv` bounds when the next poll is due by the set-backs
  counted so far and the one push that a temperature due or on its way still has to come.
* **Entities.**  While calls are on their way the entities agree with nothing, so the
  invariant speaks of `Final`, the value an entity will have when they have arrived.
  On those values session, mode, floor and limit agree (`FloorInv`, `ForcedInv`,
  `InForceInv`, `LimitInv`), up to the excuses the properties name.  An arrival then
  changes nothing, and a service, a tick or an end is judged by the last call it sends to
  each entity.  A discharge that waits for its limit to be written is on its way
  (`OnItsWay`) and counts as a session whose mode is to come; the late answer starts its
  own session only, which needs that no other session has its id.  A session at rest (`off`)
  has sent the removal and counts as one that does not run; the tick that goes on sends the
  mode again, or is the actuator's, which is excused.
* **Pacing.**  `HorizonInv` says that half as much again as the override can still drain
  is above the floor: each forced minute takes from both sides, and since nothing
  charges meanwhile the net draw does not matter.  `FloorInv` says that the power is
  within the dead band of the floor of the remembered peak, or that the session began at
  its battery's floor and will stay there.  It is inductive only with `ModeInv`: a
  session that waits or is suspended has nothing forced, so its peak may move unwatched,
  and one at full power is forced at full power.  Both rest on what the algorithms
  return for any argument (`DischargeRange`, `SafeEnd`).
* **Sensors.**  `Shown` joins `Inv`: what is forced is the session's own, at its power, and
  a discharge under way is forced but for the exceptions `StateAgrees` names (`ForcedAs`);
  once its tick is taken a charge that waits has its wake ahead (`WakeInv`) and what was
  fed in has not passed the limit (`FeedinInv`); the profile is within its bounds
  (`Profiled`).  Verdict, countdown and forecast need what the algorithms compute for
  every profile.  A sum over percents is a fold and a forecast a recursive function: an
  induction over them cannot be cited, for the library states it for an operator, but
  that a set of naturals has a least element can (`Least`).  The least input at which a
  function defined by recursion is missing or wrong (`SumExists`, `Sums`, `SeriesExists`,
  `Series`) has a predecessor at which it is not.  From there: a house that draws is not
  charged for faster than one that does not (`ChargeHours`, `Buffered`), a charge
  is put off to a minute of its window (`DeferredStart`), and up to it the slower forecast
  still waits (`ForecastWaits`).  The further assumption keeps the charging power from
  being nothing, where the code divides by zero (section 5).  It enters through
  `VerdictAgrees` only.

**Only model-checked.**

* Liveness (`OverrideEventuallyRemoved`, `FeedinStopEnds`, `CleanupEventually`,
  `ReplaySettles`, `ParkedStreamCloses`, `PacedStreamOpens`), which needs fairness and
  `ENABLED`, beyond the prover.
* `ChargeMeetsTarget`.  It is about the instance: the tolerance it grants is what one
  minute, or the minutes between two ticks, can cost in a window of a quarter of an hour
  with those draws and profiles.  A profile that is wrong for longer, or draws that
  follow each other, cost more.

## 5. Disagreements seen while modelling

**Checked by a run.**  `pacing_force`: a force charge is put off like a smart charge.  The
check for a session that is ahead (`listeners.py:924-975`) does not ask for `full_power`,
so the override is removed at the first tick and the battery idles until the deferred
start; without a capacity that is the end of the window, so it idles for good.
`README.md:200` promises maximum power for the duration, `session-management.md:174` "no
deferral".

**Reached by the models, without a run of their own.**  The passing properties are stated
so that they hold in spite of these.

*Listeners* (`src/smart_battery/listeners.py`)

* The first apply is in flight when the session ends: it lands on an inverter without a
  session (869; C-024).  The same when its reply is lost.  When the target is reached
  meanwhile, nothing is removed until the window ends (706; `README.md:240`).
* A refused power change is not repeated: `last_power_w` was written before it (1074;
  C-024, "retried on the next timer tick").
* An open breaker never lets a tick through, so a recovered adapter is not noticed and
  the fifth tick aborts (330; C-024).
* Without pacing, one reading at the floor removes a discharge for good, while the state
  stays "discharging" (1767; the comment at 1753 says "the next tick resumes").
* The hand-off to self-use is undone by the next tick with the same small power (1639;
  `smart-discharge-contract.md:893-899`).  On the cloud, when it merges anew (the cache is
  empty, as after a suspension or a restart), it caches a schedule without the discharge,
  and every later tick writes that one again: the session never discharges any more
  (`foxess_adapter.py:453-463`).
* A discharge that waits for its start is at its floor: the tick removes an override of
  its mode that it never set (1767-1777).
* Ticks that defer or stay suspended leave the floor's count standing, so that two dips
  far apart end a session (1531; `smart-discharge-contract.md:250-253`).
* Overlapping discharge ticks: a power may land after the removal of a suspension or of
  the floor (1711).  `ListenerCleansUp` fails likewise with two slots.
* The resume after the target may be skipped by the dead band of the power (706-725,
  1018-1040; `smart-charge-contract.md:858-866`), and the unreachable issue goes stale
  there (`README.md:239`, C-022).  `_is_charge_reachable` passes neither the net draw nor
  the headroom (C-038).
* A deferred discharge starts forced without the suspension check, for one tick.

*Services and schedule* (`_services.py`, `foxess_adapter.py`, `coordinator.py`)

* A deferred session that replaces a charging one leaves its override on (`_services.py:565`;
  C-025).  A discharge that starts at once is written up to
  the end of its window, not to a safe horizon (`_services.py:361-404`; C-027,
  `README.md:839`).
* Two smart services that overlap leave a charge and a discharge session side by side: each
  cancels the other's session, then awaits the cloud (`_services.py:397-404`, 674-684)
  before it sets its own (440, 691), so that the cancel of the second comes before the
  session of the first.  `README.md:247` and 286 say that starting one cancels the other.
  `OneSession` holds but for this (`overlapped`).
* Two operations under way lose each other's groups (`foxess_adapter.py:223`); a retried
  clean-up removes the override of a new session of the mode (`coordinator.py:275`) and
  its success drops the other mode's failure, for there is one slot (282), as does that
  failure's own record (`listeners.py:585`).  The removal that lost its record is never
  repeated and the override runs to the end of its window: the two exceptions in
  `CleanupEventually`.
* A client's retry of a POST whose reply was lost overwrites what was written since.
* The adapter's cached groups overwrite edits made in the app (429-454; C-018), and when
  asked for self-use it writes its force-discharge groups again (454).
* A discharge is merged up to a near horizon, which leaves the groups behind it in the
  cache; each tick moves the end out, and when it meets one of those groups the two
  overlap (`foxess_adapter.py:454-463`).  The API refuses (`foxess-cloud-api.md:573-577`)
  and the tick fails, again and again until the breaker opens.  `SendsValid` names this
  one exception.
* An edit in the app between a read and its write is lost, as `README.md:845` says.

*Store, recovery, replay*

* A crash between the cancel and the removal leaves an override on and no record, as
  `pending_override_cleanup` is in memory only.  Within 60 s of a save the record may be
  lost.
* `suspended` and `target_reached` are not stored (`session.py:108`): such a session is
  discarded at recovery for want of its group.  A record of another date is discarded
  without a removal (`__init__.py:409`).
* A failing read of the schedule in recovery fails the set-up (453).  A service called
  while set-up runs can be undone by recovery's write-back: the properties of the store
  have the premise `~CallsInSetup`.
* A replay restarts its session after the user cleared the overrides, or in place of one
  started since, with the whole feed-in limit again (1622-1650); an unload does not
  cancel its timer (1663, 1692).

*Stream and coordinator*

* The stream of a session that ends while its start awaits the connection is opened all
  the same (`__init__.py:1178-1191`) and stays until it drops.  The change from deferred
  to active may start two (282, 320-355; the docstring at 1084 says one).  The one that
  connects last is tracked (1152), the other is never asked to stop, parked session or
  not: `ParkedStreamCloses` follows the stream that is tracked and ends where another took
  its place.
* Discovering the battery's id with a revoked token fails without renewing it
  (`web_session.py:171-245`): hence the premise `bms`.
* The plausibility filter drops a true change of more than ten times as long as it lasts
  (`realtime_ws.py:399-404`); the badge stays "ws".  A failing poll keeps it too.
* The fetch of the temperature, begun by frames, ends in `async_set_updated_data` and sets
  the poll's timer back.  If `bms_polling_interval` is shorter than `polling_interval`,
  which the options allow (from 60 s, against up to 600 s), or the fetches fail once a
  temperature is known (each frame then begins another), the poll is never due while the
  stream is up, which the comment at `coordinator.py:723-731` says cannot happen.  The
  premise of `PollOnCadence` and its `setbacks` are this.  The defaults are equal.
* A slow REST result overwrites newer frames.

*Entity mode*

* A resume with an export-limit actuator writes the limit and leaves the mode self-use
  (`listeners.py:1545-1580`; `smart-discharge.md:286-288`): the excuse `"resumed"`.
* The hook of a cancel writes raw watts, neither converted nor clamped
  (`_helpers.py:217-248`; D-056): the excuse `"unit"`.
* Failures of calls that are not waited for are not seen, and a failed removal is not
  retried: `"fault"`.  Clearing one mode sets self-use while the other's session runs,
  feed-in overrides a running session: `"overridden"`.  A session that ends while its
  deferred start awaits the limit leaves the mode on: `"raced"`.  A deferred session
  replaces a running one without taking its mode back: `"replaced"`.

*Pacing and display*

* The safety floor may be missed by up to the dead band of a power change, 100 W: a rise of
  the floor by less is not written (`listeners.py:1671-1684`; C-001).  `FloorWithinBand`
  grants it.
* A discharge with a high feed-in limit that begins at or below its floor is forced at
  once, at the least power, which may be less than the safety floor of the draw, until
  its first tick (`algorithms.py:497`, 646).  The battery serves nobody there, which is
  the premise `energy > MinE` of `FloorWithinBand`.
* `discharge_clamp_active` compares the power after clamping and never lights
  (`README.md:432`).  The charge forecast drops to the target when the SoC is above it;
  the discharge forecast may rise when feed-in overshoots.  A discharge that waits and sees
  its floor once begins to count feed-in there (`listeners.py:1364-1370`), and what the
  sun then exports may pass the limit before it has started: hence `session.low = 0` in
  `ForecastAgrees`.
* `OverrideStatus`, the power sensor and the icon show a suspended session as
  discharging.  When the sun meets the target of a charge that is put off, its committed
  start still passes: the power sensor and the icon then say "charging"
  (`sensor_base.py:366-381`), the binary sensor "deferred" (1904), the overview
  "target_reached", and nothing charges (C-038).  `PhasesAgree` leaves this case out.
* `_buffered_charge_hours` divides by zero with no headroom and a draw of the whole
  charging power (`algorithms.py:195-215`).
* The taper is recorded against the rated power, not the requested one
  (`listeners.py:464-474`).

## 6. Not modelled, and what the models simplify

* **Listeners.**  The pacing answers are choices there; the discharge paced by the
  export-limit actuator is in `EntityMode` only.
* **Schedule.**  A cached schedule with a second group of the session's mode is adjusted in
  any one of the two, the code in the first of the list, which a set does not know.  A tick
  comes when the session's own cached group has begun.  Left out are the text of
  validation errors, windows past midnight, and the notification of a conflicting schedule
  (`__init__.py:1526-1555`).
* **Store.**  Its operations are atomic and in order; two that overlap are a hazard
  without a property.  The delayed write is one for both kinds.
* **Stream.**  Parsing of the messages and the sign of the grid power
  (`realtime_ws.py:100-200`); signatures and HTTP beyond the retry and the token.
* **Coordinator.**  Frames are complete.  A reading is that of the time it is answered.
  Unchanged frames do not refresh `_data_last_update` and the extrapolation is not
  scheduled anew after a frame, as in the code.  `BmsInterval` is above `PollInterval`
  in the run, see section 5.  `EntityCoordinator` reads entities and is left out.
* **Entities.**  The entity for the power, whose call stands between the two modelled.
* **Pacing.**  Temperature bins of the taper (`taper.py:110-257`), its use for
  discharges, the early stop timer at the feed-in limit, stale readings, and recovery.
  The simulator's discharge taper (`model.py:201-207`, 230, 249) only slows the battery's
  fall and makes its floor later, so without it the house and the battery are the worse
  case for floor and horizon.  Its `efficiency` (318-325) is 1, the default: losses are not
  in the loop, neither in what a charge stores nor in what a discharge draws.
  `SensorsAgree` claims that what is forced is shown, and of a discharge the converse but
  for the cases it names; of a charge it fails under draws heavier than the battery's
  power.
* **Display.**  Debug, taper and polled sensors are views of data modelled elsewhere.
* **Whole parts.**  Configuration flows, events, structured logs and their replay, cards,
  scripts, tests, the simulator's server, and the generic services of the vendored core,
  which this integration does not register: none controls the inverter.
