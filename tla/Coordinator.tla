---------------------------- MODULE Coordinator ----------------------------
(***************************************************************************)
(* The data coordinator of the cloud (coordinator.py): the REST poll, the  *)
(* frames of the real-time stream, the fetch of the battery's temperature  *)
(* and the extrapolation of the SoC all write one dictionary, self.data,   *)
(* and share its timestamps.  Home Assistant's DataUpdateCoordinator polls *)
(* on a timer that async_set_updated_data sets back.  Everything runs on   *)
(* one event loop; the poll and the fetch await their answers.             *)
(*                                                                         *)
(* Time is in ticks, the SoC in hundredths of a percent, a battery power   *)
(* in hundredths of a percent of SoC per tick and an exported power in     *)
(* units of energy per tick; energies are kept doubled, for the            *)
(* trapezoids halve.                                                       *)
(***************************************************************************)
EXTENDS Integers

CONSTANTS PollInterval,    \* update_interval
          ExtrapInterval,  \* _SOC_EXTRAP_INTERVAL
          BmsInterval,     \* _bms_fetch_interval
          FreshFor,        \* _WS_FRESH_INJECT_WINDOW_S
          Stale,           \* STALE_TIMEOUT of the stream
          MaxRequest,      \* what a request may take
          NearZero,        \* 0.1 kW, as a battery power and as an exported one
          Flows,           \* [bat, export]: what the battery and the grid may do
          FirstSoc,        \* the battery's SoC at first
          Horizon, MaxChanges,
          Troubles, MaxTroubles  \* what may go wrong or end, and how often in a run

Full == 100 * 100

ASSUME CoordinatorAssumption ==
    /\ PollInterval \in Nat /\ MaxRequest \in Nat /\ MaxRequest < PollInterval
    /\ ExtrapInterval \in Nat \ {0} /\ BmsInterval \in Nat \ {0}
    /\ FreshFor \in Nat /\ Stale \in Nat \ {0}
    /\ NearZero \in [bat : Nat, export : Nat]
    /\ Flows \subseteq [bat : Int, export : Nat] /\ Flows # {}
    /\ \A f \in Flows : f.bat % 2 = 0
    /\ FirstSoc \in 0 .. Full
    /\ Troubles \subseteq {"poll", "bms", "drop", "session"}
    /\ {Horizon, MaxChanges, MaxTroubles} \subseteq Nat

VARIABLES clock,
          flow, soc, meter,  \* the plant: powers, SoC and exported energy
          data,        \* self.data
          asOf,        \* when what it says was read, or last confirmed
          interp,      \* _soc_interpolated
          reported,    \* _soc_last_reported
          lastBat,     \* _soc_last_bat_kw
          lastTime,    \* _ws_last_time
          wsFeedin,    \* _ws_feedin_power_kw
          lastInject,  \* _ws_last_inject_monotonic
          refresh,     \* when the refresh timer fires
          extrap,      \* when the extrapolation timer fires
          poll,        \* the poll under way
          bms,         \* _bms_last_fetch, and the start of a fetch in flight
          ws,          \* the stream: connected, when it was last heard, the flow
                       \* of _last_accepted, and whether a frame was dropped since
          polled,      \* when the last poll began
          setbacks,    \* avoidable pushes that set the timer back since then
          rest,        \* the last REST reading
          changes, troubles
plant == <<flow, soc, meter>>
estimate == <<interp, reported, lastBat, lastTime, wsFeedin, lastInject>>
bounds == <<changes, troubles>>
vars == <<clock, plant, data, asOf, estimate, refresh, extrap, poll, bms, ws, polled,
          setbacks, rest, bounds>>

Never == Horizon + PollInterval + ExtrapInterval + BmsInterval + 1
None == -1

Rounded(s) == (s + 50) \div 100
Within(lo, hi, x) == IF x < lo THEN lo ELSE IF x > hi THEN hi ELSE x
(* As Clamped, but to half a percent, which rounds up.                     *)
ClampedToHalf(r, x) == Within(100 * r - 50, 100 * r + 50, x)

(* The bucket that rounds to the reported percent.                         *)
Clamped(r, x) == Within(100 * r - 50, 100 * r + 44, x)
(* The trapezoid from the last power to this one, and within 0 to 100 %.   *)
Advanced(bat) ==
    Within(0, Full, interp + ((lastBat + bat) \div 2) * (clock - lastTime))

Reading == [soc |-> Rounded(soc), bat |-> flow.bat, export |-> flow.export,
            feedin |-> meter, at |-> clock]
NoFrame == [bat |-> 0, export |-> 0]
Idle == [pc |-> "idle", since |-> 0, r |-> None]

(* After the first refresh, which set-up awaits.                           *)
Init ==
    /\ clock = 0
    /\ flow \in Flows /\ soc = FirstSoc /\ meter = 0
    /\ data = [soc |-> Rounded(soc), interp |-> 100 * Rounded(soc), bat |-> flow.bat,
               export |-> flow.export, feedin |-> 0, source |-> "api", temp |-> FALSE]
    /\ asOf = 0
    /\ interp = 100 * Rounded(soc) /\ reported = Rounded(soc)
    /\ lastBat = flow.bat /\ lastTime = 0
    /\ wsFeedin = 0 /\ lastInject = None
    /\ refresh = PollInterval
    /\ extrap = IF flow.bat = 0 THEN Never ELSE ExtrapInterval
    /\ poll = Idle
    /\ bms = [last |-> None, since |-> None]
    /\ ws = [up |-> FALSE, heard |-> 0, accepted |-> NoFrame, dropping |-> FALSE]
    /\ polled = 0 /\ setbacks = 0 /\ rest = Reading
    /\ changes = 0 /\ troubles = 0

Trouble(kind) ==
    kind \in Troubles /\ troubles < MaxTroubles /\ troubles' = troubles + 1

---------------------------------------------------------------------------
(* Time and the plant.                                                     *)

(* Timers fire when due, requests are answered or time out, and a stream   *)
(* that is silent is closed.                                               *)
Tick ==
    /\ clock < Horizon
    /\ clock < refresh /\ clock < extrap
    /\ poll.pc # "idle" => clock < poll.since + MaxRequest
    /\ bms.since # None => clock < bms.since + MaxRequest
    /\ ws.up => clock < ws.heard + Stale
    /\ clock' = clock + 1
    /\ soc' = Within(0, Full, soc + flow.bat)
    /\ meter' = meter + 2 * flow.export
    /\ UNCHANGED <<flow, data, asOf, estimate, refresh, extrap, poll, bms, ws, polled,
                   setbacks, rest, bounds>>

FlowChanges ==
    /\ changes < MaxChanges /\ changes' = changes + 1
    /\ flow' \in Flows \ {flow}
    /\ UNCHANGED <<clock, soc, meter, data, asOf, estimate, refresh, extrap, poll, bms, ws,
                   polled, setbacks, rest, troubles>>

---------------------------------------------------------------------------
(* The poll.                                                               *)

(* DataUpdateCoordinator: the timer fires and is set again when the poll   *)
(* is done; async_set_updated_data cancels it and sets it anew.            *)
async_set_updated_data(d) == data' = d /\ refresh' = clock + PollInterval

PollStarts ==
    /\ clock >= refresh /\ poll = Idle
    /\ refresh' = Never
    /\ poll' = [Idle EXCEPT !.pc = "reading", !.since = clock]
    /\ polled' = clock /\ setbacks' = 0
    /\ UNCHANGED <<clock, plant, data, asOf, estimate, extrap, bms, ws, rest, bounds>>

(* The answer came: the cleanup and the temperature are awaited with it in *)
(* hand.                                                                   *)
_fetch_all ==
    /\ poll.pc = "reading"
    /\ poll' = [poll EXCEPT !.pc = "merging", !.r = Reading]
    /\ UNCHANGED <<clock, plant, data, asOf, estimate, refresh, extrap, bms, ws, polled,
                   setbacks, rest, bounds>>

(* What is known is kept.                                                  *)
PollFails ==
    /\ poll.pc = "reading"
    /\ Trouble("poll")
    /\ poll' = Idle
    /\ refresh' = clock + PollInterval
    /\ UNCHANGED <<clock, plant, data, asOf, estimate, extrap, bms, ws, polled, setbacks,
                   rest, changes>>

(* The temperature, fresh or carried over.                                 *)
_preserve_bms_temperature(ok) == ok \/ data.temp

(* As _is_ws_alive, but a stream that was fresh is taken for alive.        *)
AliveIfFresh == TRUE

_is_ws_alive == ws.up
_ws_recently_injected == lastInject # None /\ clock - lastInject < FreshFor

_schedule_soc_extrapolation(bat) ==
    extrap' = IF bat = 0 THEN Never ELSE clock + ExtrapInterval

(* The reading replaces whatever frames put there meanwhile.  A percent    *)
(* that changed only clamps the estimate, one that did not advances it.    *)
_async_update_data(ok) ==
    LET r == poll.r
    IN  /\ poll.pc = "merging" /\ poll' = Idle
        /\ bms' = [bms EXCEPT !.last = IF ok THEN clock ELSE @]
        /\ IF ok THEN UNCHANGED troubles ELSE Trouble("bms")
        /\ interp' = Clamped(r.soc, IF r.soc # reported THEN interp ELSE Advanced(r.bat))
        /\ reported' = r.soc
        /\ lastBat' = r.bat /\ lastTime' = clock /\ wsFeedin' = 0
        /\ async_set_updated_data(
             [soc |-> r.soc, interp |-> interp', bat |-> r.bat, export |-> r.export,
              feedin |-> r.feedin, temp |-> _preserve_bms_temperature(ok),
              source |-> IF _ws_recently_injected /\ _is_ws_alive THEN "ws" ELSE "api"])
        /\ asOf' = r.at /\ rest' = r
        /\ _schedule_soc_extrapolation(r.bat)
        /\ UNCHANGED <<clock, plant, lastInject, ws, polled, setbacks, changes>>

---------------------------------------------------------------------------
(* The extrapolation between polls.  Once it sees the stream's badge it    *)
(* does not set its timer again.                                           *)
ExtrapolationTick ==
    /\ clock >= extrap
    /\ IF data.source = "ws" \/ clock = lastTime
       THEN extrap' = Never /\ UNCHANGED <<data, interp, lastTime>>
       ELSE /\ interp' = Clamped(reported,
                            Within(0, Full, interp + lastBat * (clock - lastTime)))
            /\ lastTime' = clock
            /\ data' = [data EXCEPT !.interp = interp']
            /\ _schedule_soc_extrapolation(lastBat)
    /\ UNCHANGED <<clock, plant, asOf, reported, lastBat, wsFeedin, lastInject, refresh, poll,
                   bms, ws, polled, setbacks, rest, bounds>>

---------------------------------------------------------------------------
(* The stream.                                                             *)

StreamUp ==
    /\ ~ws.up
    /\ ws' = [up |-> TRUE, heard |-> clock, accepted |-> NoFrame, dropping |-> FALSE]
    /\ UNCHANGED <<clock, plant, data, asOf, estimate, refresh, extrap, poll, bms, polled,
                   setbacks, rest, bounds>>

(* on_disconnect, of a stream that was dropped, fell silent or was stopped. *)
StreamDown ==
    /\ ws.up /\ ws' = [ws EXCEPT !.up = FALSE]
    /\ Trouble("drop")
    /\ async_set_updated_data([data EXCEPT !.source = "api"])
    /\ setbacks' = setbacks + 1
    /\ UNCHANGED <<clock, plant, asOf, estimate, extrap, poll, bms, polled, rest, changes>>

(* A fetch begins unless one is in flight or the last success is recent.   *)
_maybe_schedule_bms_fetch ==
    IF bms.since = None /\ (bms.last = None \/ clock - bms.last >= BmsInterval)
    THEN bms' = [bms EXCEPT !.since = clock]
    ELSE UNCHANGED bms

(* As FeedinDelta, but since the last reading of the counter.              *)
FeedinDeltaSinceReading == (wsFeedin + flow.export) * (clock - rest.at)

(* The energy fed in since lastTime, whoever set it.                       *)
FeedinDelta == (wsFeedin + flow.export) * (clock - lastTime)
Frame ==
    LET r == Rounded(soc)
        kept == IF r # reported THEN Clamped(r, interp) ELSE interp
    IN  [data EXCEPT !.soc = r, !.bat = flow.bat, !.source = "ws",
                     !.interp = Clamped(r, Within(0, Full,
                        kept + ((lastBat + flow.bat) \div 2) * (clock - lastTime))),
                     !.export = flow.export,
                     !.feedin = @ + FeedinDelta]

(* As ShowFrame, but by way of the push that sets the timer back.          *)
PushFrame == async_set_updated_data(Frame)

(* The listeners are told, and the timer of the poll is left alone.        *)
ShowFrame == data' = Frame /\ UNCHANGED refresh

(* No power is ten times what it was, but for one that was next to nothing *)
(* or is nothing now; of no reference (NoFrame) all are next to nothing.   *)
_is_plausible(f, last) ==
    LET Jumps(x, y, low) == y > low /\ x > 0 /\ (x > 10 * y \/ y > 10 * x)
    IN  /\ ~Jumps(f.bat, last.bat, NearZero.bat)
        /\ ~Jumps(-f.bat, -last.bat, NearZero.bat)
        /\ ~Jumps(f.export, last.export, NearZero.export)

(* A change that is genuine is dropped like one that is not, for as long   *)
(* as it lasts: what it is compared with stays.                            *)
FrameDropped ==
    /\ ws.up /\ ~_is_plausible(flow, ws.accepted)
    /\ ws' = [ws EXCEPT !.heard = clock, !.dropping = TRUE]
    /\ UNCHANGED <<clock, plant, data, asOf, estimate, refresh, extrap, poll, bms, polled,
                   setbacks, rest, bounds>>

(* The estimate advances, and the extrapolation ends, even if nothing that *)
(* is shown changed.                                                       *)
inject_realtime_data ==
    /\ ws.up /\ _is_plausible(flow, ws.accepted)
    /\ ws' = [ws EXCEPT !.heard = clock, !.accepted = flow, !.dropping = FALSE]
    /\ extrap' = Never
    /\ interp' = Frame.interp
    /\ reported' = Rounded(soc)
    /\ lastBat' = flow.bat /\ lastTime' = clock /\ lastInject' = clock
    /\ wsFeedin' = flow.export
    /\ ShowFrame
    /\ asOf' = clock
    /\ IF Frame = data THEN UNCHANGED bms ELSE _maybe_schedule_bms_fetch
    /\ UNCHANGED <<clock, plant, poll, polled, setbacks, rest, bounds>>

(* A temperature that is known is pushed, a fetch that failed pushes the   *)
(* old one.                                                                *)
BmsDone(ok) ==
    /\ bms.since # None
    /\ bms' = [last |-> IF ok THEN clock ELSE bms.last, since |-> None]
    /\ IF ok THEN UNCHANGED troubles ELSE Trouble("bms")
    /\ IF _preserve_bms_temperature(ok)
       THEN /\ async_set_updated_data([data EXCEPT !.temp = TRUE])
            /\ setbacks' = IF ok THEN setbacks ELSE setbacks + 1
       ELSE UNCHANGED <<data, refresh, setbacks>>
    /\ UNCHANGED <<clock, plant, asOf, estimate, extrap, poll, ws, polled, rest, changes>>

(* The end of a session pushes the data again, to refresh the sensors.     *)
SessionPushes ==
    /\ Trouble("session")
    /\ async_set_updated_data(data)
    /\ setbacks' = setbacks + 1
    /\ UNCHANGED <<clock, plant, asOf, estimate, extrap, poll, bms, ws, polled, rest, changes>>

Next ==
    \/ Tick \/ FlowChanges
    \/ PollStarts \/ _fetch_all \/ PollFails
    \/ \E ok \in BOOLEAN : _async_update_data(ok)
    \/ ExtrapolationTick
    \/ StreamUp \/ StreamDown
    \/ inject_realtime_data \/ FrameDropped
    \/ \E ok \in BOOLEAN : BmsDone(ok)
    \/ SessionPushes

Spec == Init /\ [][Next]_vars

---------------------------------------------------------------------------
(* Properties.                                                             *)

TypeOK ==
    /\ clock \in 0 .. Horizon
    /\ flow \in Flows /\ soc \in 0 .. Full /\ meter \in Nat
    /\ data \in [soc : 0 .. 100, interp : -50 .. Full + 44, bat : {f.bat : f \in Flows},
                 export : {f.export : f \in Flows}, feedin : Nat,
                 source : {"api", "ws"}, temp : BOOLEAN]
    /\ interp \in -50 .. Full + 44 /\ reported \in 0 .. 100
    /\ lastTime \in 0 .. clock /\ asOf \in 0 .. clock
    /\ lastBat \in {f.bat : f \in Flows} /\ wsFeedin \in Nat
    /\ lastInject \in {None} \union (0 .. clock)
    /\ refresh \in 0 .. Never /\ extrap \in 0 .. Never
    /\ ws.heard \in 0 .. clock /\ ws.accepted \in Flows \union {NoFrame}
    /\ poll.pc \in {"idle", "reading", "merging"}
    /\ bms.last \in {None} \union (0 .. clock)
    /\ bms.since \in {None} \union (0 .. clock)
    /\ polled \in 0 .. clock /\ setbacks \in Nat

(* The estimate shown beside the SoC rounds to it, whichever of the poll,  *)
(* the frames and the extrapolation wrote last (the comments at            *)
(* coordinator.py:482 and 689 promise the display this).                   *)
RoundsToReported ==
    data.interp >= 100 * data.soc - 50 /\ data.interp <= 100 * data.soc + 44

(* The feed-in counter a session's limit is read from never runs ahead of  *)
(* the last REST reading by more than the most the grid could have taken   *)
(* since: no interval is counted twice, by two frames or by a frame and    *)
(* the poll that overwrites it.                                            *)
FeedinCountedOnce ==
    \A most \in {f.export : f \in Flows} :
        (\A f \in Flows : f.export <= most)
            => data.feedin <= rest.feedin + 2 * most * (clock - rest.at)

(* The REST poll is never starved while the temperature is fetched less    *)
(* often than the poll is due: a push that a frame or a fetch on its own   *)
(* cadence makes costs it an interval, each other one two, and what is     *)
(* left is the interval.  Frames, however fast, cost it nothing.  With a   *)
(* fetch more often than the poll, each fetch sets the timer back again.   *)
PollOnCadence ==
    BmsInterval > PollInterval =>
        clock - polled <= 2 * (1 + setbacks) * PollInterval + MaxRequest

(* What is shown with the badge of the stream is not older than a stream   *)
(* may be silent and a request may take, unless its frames are being       *)
(* dropped as implausible.                                                 *)
BadgeMeansFresh ==
    data.source = "ws" => clock - asOf <= Stale + MaxRequest \/ ws.dropping
=============================================================================
