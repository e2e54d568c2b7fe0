------------------------------- MODULE Display -------------------------------
(***************************************************************************)
(* What the sensors show of a session (smart_battery/sensor_base.py), as   *)
(* functions of the state Pacing reaches.  They are read at any moment,    *)
(* between the listener's ticks too, and compute what they show afresh     *)
(* from the readings and the session's dict.  A session begins with its    *)
(* window; texts are left out.                                             *)
(***************************************************************************)
EXTENDS Pacing

\* The listener's commitment, never a calculation of the sensor's own.
is_effectively_charging == session.started \/ session.wake <= now

charging    == session.kind = "charge"
discharging == session.kind = "discharge"

\* The state of the smart operations sensor.
Overview ==
  CASE charging /\ session.reached -> "target_reached"
    [] charging /\ ~session.reached ->
         IF is_effectively_charging THEN "charging" ELSE "deferred"
    [] discharging ->
         IF ~session.started THEN "discharge_deferred"
         ELSE IF session.suspended THEN "discharge_suspended"
         ELSE "discharging"
    [] OTHER -> "idle"

-----------------------------------------------------------------------------
(* Phases, as each sensor has them *)

Icon ==
  CASE charging    -> IF is_effectively_charging THEN "charging" ELSE "deferred"
    [] discharging -> IF session.started THEN "discharging" ELSE "deferred"
    [] OTHER       -> "idle"

\* The override status, its power left to OverridePower.
OverrideStatus ==
  CASE charging    -> IF is_effectively_charging THEN "Chg" ELSE "Wait"
    [] discharging -> IF session.started THEN "Dchg" ELSE "Wait"
    [] OTHER       -> "Idle"

\* Its attributes, and those of the sensors of either power.
OverridePhase ==
  CASE charging    -> IF is_effectively_charging THEN "charging" ELSE "deferred"
    [] discharging -> IF session.started THEN "discharging" ELSE "deferred"
    [] OTHER       -> "none"

charge_phase == IF is_effectively_charging THEN "charging" ELSE "deferred"

discharge_phase ==
  IF ~session.started THEN "deferred"
  ELSE IF session.suspended THEN "suspended" ELSE "discharging"

\* The attribute of the binary sensor knows the listener's start only.
SmartChargeActivePhase == IF session.started THEN "charging" ELSE "deferred"

-----------------------------------------------------------------------------
(* Powers *)

get_actual_discharge_power_w(requested) == Smaller(Discharge, requested)

ChargePower ==
  IF session.power = 0 /\ is_effectively_charging THEN MaxPower ELSE session.power

DischargePower ==
  IF session.started THEN get_actual_discharge_power_w(session.power) ELSE 0

OverridePower ==
  IF charging THEN IF session.power # 0 THEN session.power ELSE MaxPower
  ELSE get_actual_discharge_power_w(session.power)

-----------------------------------------------------------------------------
(* Countdowns, in minutes *)

\* As charge_time_slack, but without the draw and the profile.
SlackOfIdleHouse ==
  AtLeast0(calculate_deferred_start(<<>>, energy, session.target, 0, 0, Window) - now)

charge_time_slack ==
  AtLeast0(calculate_deferred_start(profile, energy, session.target, net, 0, Window) - now)

discharge_time_slack ==
  AtLeast0(calculate_discharge_deferred_start(profile, energy, net, session.peak,
             session.limit, exportLimit, 0, Window) - now)

Says(what, amount) == [what |-> what, amount |-> amount]

\* A wait of less than a minute is not worth saying.
estimate_charge_remaining ==
  LET wait == calculate_deferred_start(profile, energy, session.target, net, 0, Window) - now
  IN  IF remaining <= 0 THEN Says("ending", 0)
      ELSE IF is_effectively_charging \/ energy >= TargetE \/ wait < 1
      THEN Says("left", remaining)
      ELSE Says("starts in", wait)

\* The share of the feed-in limit that is spent is ahead of the time.
SpentAhead == Spent * Window > now * session.limit

estimate_discharge_remaining ==
  LET deferred == calculate_discharge_deferred_start(profile, energy, net,
                    session.peak, session.limit, exportLimit, 0, Window)
  IN  IF ~session.started
      THEN IF now < deferred THEN Says("defers", deferred - now)
           ELSE Says("left", remaining)
      ELSE IF remaining <= 0 THEN Says("ending", 0)
      ELSE IF session.limit # NoLimit /\ session.baseline >= 0 /\ SpentAhead
      THEN Says("kWh left", AtLeast0(session.limit - Spent))
      ELSE Says("left", remaining)

\* Of a session with a limit, what is fed in by the end at the rate so far.
feedin_projected == Smaller((Spent * Window) \div now, session.limit)

-----------------------------------------------------------------------------
(* The forecast *)

_FORECAST_STEP == 5
Points == {t \in 0 .. Window : t % _FORECAST_STEP = 0}

\* The energy at each point: flat up to now and on flat, then a step at
\* the power the profile lets through, never past the bound.
project_soc_series(flat, power, direction, bound) ==
  LET held(t) == t <= now \/ t \in flat
      step(e) == (_FORECAST_STEP * power * _ratio(profile, int(e))) \div 1000
      after(e) == IF direction > 0 THEN Smaller(e + step(e), bound)
                  ELSE Larger(e - step(e), bound)
      soc[t \in Points] ==
        IF held(t) \/ t = 0 \/ held(t - _FORECAST_STEP) THEN energy
        ELSE after(soc[t - _FORECAST_STEP])
  IN  soc

\* The forecast of a charge that is deferred takes it to start in time for
\* the headroom taken twice, at that power, whatever the house draws.
deferred_power_fraction == (100 - Headroom) * (100 - Headroom)
ForecastFlat(t) ==
  /\ ~is_effectively_charging
  /\ (remaining + now - t) * MaxPower * deferred_power_fraction
       > 10000 * (TargetE - energy)

ChargeForecast ==
  project_soc_series({t \in Points : ForecastFlat(t)},
    IF is_effectively_charging THEN session.power
    ELSE (MaxPower * deferred_power_fraction) \div 10000, 1, TargetE)

DischargeForecast ==
  project_soc_series({}, session.power, -1,
    IF session.limit = NoLimit THEN MinE
    ELSE Larger(MinE, energy - (session.limit - Spent)))

-----------------------------------------------------------------------------
(* Reachability of a charge that is on *)

\* Hundredths of a minute to spare, before the headroom is taken off.
charge_reachability_slack ==
  remaining * (100 - Headroom) - _buffered_charge_hours(profile, energy, session.target, net)

\* The overview leaves the house's draw out.
_is_charge_reachable ==
  is_charge_target_reachable(profile, energy, session.target, 0, remaining)

-----------------------------------------------------------------------------

\* The listener has taken its tick and the window is not over.
Settled == up /\ ~due /\ now < Window

\* A mode that is forced is shown, and a discharge that is shown is forced,
\* unless the battery was left to the house, the floor was seen once, which at
\* full power is not made good when the battery rises again, or the schedule
\* ended it first.
StateAgrees ==
  Settled =>
    /\ InForce = "ForceCharge" => Overview = "charging"
    /\ InForce = "ForceDischarge" => Overview = "discharging"
    /\ Overview = "discharging" =>
         \/ InForce = "ForceDischarge"
         \/ session.power = 0 \/ session.low > 0 \/ now >= override.end
         \/ session.full

\* What the overview says cannot be reached, the slack has negative.
VerdictAgrees ==
  Overview = "charging" /\ remaining > 0 /\ ~_is_charge_reachable
    => charge_reachability_slack < 0

\* The sensors agree on the phase among themselves; the binary sensor, which
\* does not look at the commitment, too, unless the target was reached.
PhasesAgree ==
  Settled =>
    /\ charging /\ ~session.reached =>
         charge_phase = SmartChargeActivePhase /\ charge_phase = Overview
    /\ discharging /\ InForce = "ForceDischarge" => discharge_phase = "discharging"
    /\ OverrideStatus = "Wait" => InForce = "SelfUse" /\ Icon = "deferred"
    /\ OverridePhase = "none" => InForce = "SelfUse"

\* The power shown is the power in force, or what the house and the battery
\* leave of it.
PowersAgree ==
  Settled =>
    /\ InForce = "ForceCharge" => ChargePower = override.power /\ OverridePower = ChargePower
    /\ InForce = "ForceDischarge" =>
         /\ DischargePower = Discharge /\ OverridePower = DischargePower
         /\ DischargePower <= override.power

\* What is left of the feed-in is shown for the time once the limit will be
\* met, and only then.
FeedinAgrees ==
  Settled /\ discharging /\ session.limit # NoLimit /\ session.baseline >= 0 /\ now > 0
    => (estimate_discharge_remaining.what = "kWh left" => feedin_projected = session.limit)

\* The forecast of a discharge never rises, for what was fed in has not passed
\* the limit, unless the floor was seen once, where one that waits begins to
\* count; that of a charge short of its target never falls.
ForecastAgrees ==
  /\ Settled /\ discharging /\ energy >= MinE /\ session.low = 0 =>
       \A t \in Points : DischargeForecast[t] <= energy
  /\ Settled /\ charging /\ energy <= TargetE =>
       \A t \in Points : ChargeForecast[t] >= energy

\* Right after a tick that puts a session off, its countdowns end when the
\* listener will act and the forecast takes it to start no earlier; a
\* discharge at its floor is not put off.
CountdownAgrees ==
  /\ Overview = "deferred" =>
       /\ now + charge_time_slack = session.wake
       /\ estimate_charge_remaining = Says("starts in", charge_time_slack)
       /\ \A t \in now + 1 .. session.wake - 1 : ForecastFlat(t)
  /\ Overview = "discharge_deferred" /\ energy > MinE =>
       /\ discharge_time_slack > 0
       /\ estimate_discharge_remaining = Says("defers", discharge_time_slack)

\* C-038 and C-020: what the sensors work out for themselves is what the
\* listener decided, and the same on each of them, at every moment and, of a
\* countdown, when it decides.
SensorsAgree ==
  [][ /\ StateAgrees' /\ VerdictAgrees' /\ PhasesAgree' /\ PowersAgree'
      /\ FeedinAgrees' /\ ForecastAgrees'
      /\ (Tick /\ up /\ session.kind # "over") => CountdownAgrees' ]_vars
=============================================================================
