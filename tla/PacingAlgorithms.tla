-------------------------- MODULE PacingAlgorithms --------------------------
(***************************************************************************)
(* The pacing algorithms (smart_battery/algorithms.py), over the integers: *)
(* energy in watt-minutes, power in watts, time in minutes.  The headroom  *)
(* is a percentage.  Where the code compares times, the model compares     *)
(* exactly; the powers it truncates to an int are divided once, at the     *)
(* end.                                                                    *)
(***************************************************************************)
EXTENDS TaperProfile

CONSTANTS CapacityWh,   \* battery_capacity_kwh
          MaxPower,     \* max_power_w
          Headroom,     \* smart_headroom, the percent the options form allows
          MinSoc

ASSUME PacingAssumption ==
  /\ CapacityWh \in Nat /\ CapacityWh > 0 /\ CapacityWh % 5 = 0
  /\ MaxPower \in Nat /\ MaxPower >= 100
  /\ Headroom \in 0 .. 25
  /\ MinSoc \in Buckets

MIN_CHARGE_POWER_W    == 100
MIN_DISCHARGE_POWER_W == 100
MAX_FEEDIN_HEADROOM   == 40
NoLimit               == 0       \* no feed-in energy limit

\* A percent of the battery.
soc_energy == (CapacityWh * 60) \div 100
Capacity   == 100 * soc_energy
MinE       == MinSoc * soc_energy
int(e)     == e \div soc_energy

AtLeast0(x)   == IF x < 0 THEN 0 ELSE x
Larger(a, b)  == IF a < b THEN b ELSE a
Smaller(a, b) == IF a < b THEN a ELSE b

-----------------------------------------------------------------------------
(* Charging *)

\* What the battery gets of the inverter at full power: the house keeps what
\* it draws now, and never less than the headroom.
effective_charge(net) ==
  LET kept == Larger(100 * AtLeast0(net), MaxPower * Headroom)
      left == 100 * MaxPower - kept
  IN  (IF left <= 0 THEN MaxPower * Headroom ELSE left) \div 100

energy_needed(e, target) == target * soc_energy - e

\* The quotient by 1 - headroom is left to the comparison: b hundredths of a
\* minute of charging fit in m minutes iff b <= m * (100 - Headroom).
charge_hundredths(bins, e, target, net) ==
  IF energy_needed(e, target) <= 0 THEN 0
  ELSE estimate_charge_hours(bins, int(e), target, soc_energy, effective_charge(net))

\* The least estimate: the profile percent by percent, or its median.
_buffered_charge_hours(bins, e, target, net) ==
  LET ratio  == Within(MIN_RATIO, MAX_RATIO,
                       _median_trusted_charge_ratio(bins, int(e), target))
      median == (100 * ((1000 * energy_needed(e, target)) \div effective_charge(net))) \div ratio
  IN  IF energy_needed(e, target) <= 0 THEN 0
      ELSE Smaller(charge_hundredths(bins, e, target, net), median)

is_charge_target_reachable(bins, e, target, net, remaining) ==
  \/ energy_needed(e, target) <= 0
  \/ /\ remaining > 0
     /\ _buffered_charge_hours(bins, e, target, net) <= remaining * (100 - Headroom)

\* As calculate_deferred_start, but without the headroom.
DeferredToTheLast(bins, e, target, net, start, end) ==
  IF energy_needed(e, target) <= 0 THEN end
  ELSE Larger(start, end - charge_hundredths(bins, e, target, net) \div 100)

\* The minute at which now < deferred turns false.
calculate_deferred_start(bins, e, target, net, start, end) ==
  LET deferred == end - charge_hundredths(bins, e, target, net) \div (100 - Headroom)
  IN  IF energy_needed(e, target) <= 0 THEN end
      ELSE IF effective_charge(net) <= 0 THEN start
      ELSE Larger(start, deferred)

\* Behind the straight line from the energy charging began with to the target
\* at the end of the window less its headroom, by more than the dead band
\* holds back.  The code's check with a profile is the same comparison.
Behind(e, target, startEnergy, elapsed, window, tolerance) ==
  LET toAdd   == target * soc_energy - startEnergy
      planned == window * (100 - Headroom)
  IN  /\ elapsed > 0 /\ planned > 0 /\ Headroom > 0 /\ toAdd > 0
      /\ Smaller(100 * elapsed, planned) * toAdd
           > (e - startEnergy + tolerance) * planned

\* The paced rate with the house's draw, both times 1 + headroom.
calculate_charge_power(e, target, net, remaining, behind) ==
  LET needed == energy_needed(e, target)
      time   == remaining * (100 - Headroom)
      power  == ((100 * needed + AtLeast0(net) * time) * (100 + Headroom))
                  \div (100 * time)
  IN  IF needed <= 0 THEN MIN_CHARGE_POWER_W
      ELSE IF remaining <= 0 \/ behind THEN MaxPower
      ELSE Larger(MIN_CHARGE_POWER_W, Smaller(power, MaxPower))

-----------------------------------------------------------------------------
(* Discharging *)

\* DISCHARGE_SAFETY_FACTOR is 3/2.
safety_floor_w(peak) == (3 * peak) \div 2

\* _END_GUARD_MINUTES is 10.
should_suspend_discharge(e, net, peak, remaining) ==
  LET energy      == e - MinE
      consumption == Larger(AtLeast0(net), peak)
  IN  /\ remaining > 0
      /\ \/ energy <= 0
         \/ /\ consumption > 0
            /\ \/ energy < 15 * consumption
               \/ 100 * energy <= consumption * remaining * (100 + Headroom)

\* The power for a floor that is in force or not.
DischargePowerWithFloor(e, net, peak, remaining, feedin, limited, floored) ==
  LET energy      == e - MinE
      consumption == AtLeast0(net)
      floor       == safety_floor_w(Larger(consumption, peak))
      budget      == feedin + consumption * remaining
      drain       == IF limited /\ feedin >= 0 /\ budget < energy
                     THEN budget ELSE energy
      time        == remaining * (100 - Headroom)
      paced       == ((100 * drain - consumption * time) * (100 + Headroom))
                       \div (100 * time)
  IN  IF energy <= 0 THEN MIN_DISCHARGE_POWER_W
      ELSE IF remaining <= 0 THEN MaxPower
      ELSE IF drain <= 0
           THEN IF floored THEN Larger(MIN_DISCHARGE_POWER_W, floor)
                ELSE MIN_DISCHARGE_POWER_W
      ELSE Larger(MIN_DISCHARGE_POWER_W,
                  Smaller(IF floored THEN Larger(paced, floor) ELSE paced, MaxPower))

\* As calculate_discharge_power, but the peak is forgotten.
DischargePowerOfPresentDraw(e, net, peak, remaining, feedin, limited) ==
  LET floor == safety_floor_w(AtLeast0(net))
  IN  DischargePowerWithFloor(e, net, 0, remaining, feedin, limited,
                              0 < floor /\ floor <= MaxPower)

\* The safety floor is left out when it is more than the inverter can give.
calculate_discharge_power(e, net, peak, remaining, feedin, limited) ==
  LET floor == safety_floor_w(Larger(AtLeast0(net), peak))
  IN  DischargePowerWithFloor(e, net, peak, remaining, feedin, limited,
                              0 < floor /\ floor <= MaxPower)

Clamped(power, exportLimit) ==
  IF exportLimit > 0 THEN Smaller(power, exportLimit) ELSE power

\* Hundredths of a minute from the SoC to its floor at full power less the
\* house, or to the end of the feed-in budget if that comes first.
discharge_hundredths(bins, e, net, limit, exportLimit) ==
  LET power == MaxPower - AtLeast0(net)
      drain == estimate_discharge_hours(bins, int(e), MinSoc, soc_energy, power)
  IN  IF power <= 0 THEN 0
      ELSE IF limit = NoLimit THEN drain
      ELSE Smaller(drain, (100 * limit) \div Clamped(power, exportLimit))

\* FEEDIN_FALLBACK_RATIO is 1/10.
feedin_hundredths(load, limit, exportLimit) ==
  LET power == Clamped(MaxPower - load, exportLimit)
  IN  (100 * limit) \div (IF power <= 0 THEN MaxPower \div 10 ELSE power)

\* Spikes of the load eat export, so the headroom is doubled, unless the
\* export clamp leaves slack for the load expected.
feedin_headroom(load, exportLimit) ==
  LET slack == 0 < exportLimit /\ exportLimit < MaxPower
                 /\ load <= MaxPower - exportLimit
  IN  Smaller(IF slack THEN Headroom ELSE 2 * Headroom, MAX_FEEDIN_HEADROOM)

calculate_discharge_deferred_start(bins, e, net, peak, limit, exportLimit, start, end) ==
  LET load == Larger(AtLeast0(net), peak)
      socDeadline ==
        IF e - MinE <= 0 THEN end
        ELSE end - discharge_hundredths(bins, e, net, limit, exportLimit)
                     \div (100 - Headroom)
      feedinDeadline ==
        IF limit = NoLimit THEN end
        ELSE end - feedin_hundredths(load, limit, exportLimit)
                     \div (100 - feedin_headroom(load, exportLimit))
  IN  Larger(start, Smaller(socDeadline, feedinDeadline))

\* The horizon of a battery that may be drained to the end.
SafeEndAtEmpty(e, power, now, end) ==
  IF power <= 0 \/ e <= MinE THEN end
  ELSE Smaller(end, now + (2 * e) \div (3 * power))

\* The schedule holds whole minutes, so the horizon is rounded down.
compute_safe_schedule_end(e, power, now, end) ==
  IF power <= 0 \/ e <= MinE THEN end
  ELSE Smaller(end, now + (2 * (e - MinE)) \div (3 * power))
=============================================================================
