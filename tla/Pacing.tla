------------------------------- MODULE Pacing -------------------------------
(***************************************************************************)
(* A smart session, its pacing and the battery, in a closed loop: the tick *)
(* of the charge and of the discharge listener (smart_battery/listeners.py)*)
(* reads the battery and the house, asks the algorithms and sets the       *)
(* inverter's override; the inverter and the battery follow, as the        *)
(* repository's simulator has them (simulator/model.py); the house's net   *)
(* draw changes when it likes.  Home Assistant may die and leave the       *)
(* override to end by the schedule.                                        *)
(*                                                                         *)
(* Readings are current, the requests to the inverter are immediate and    *)
(* never fail (ChargeListener and DischargeListener have those), and the   *)
(* battery's temperature is unknown.                                       *)
(***************************************************************************)
EXTENDS PacingAlgorithms

CONSTANTS Window,          \* the length of the session's window, in minutes
          Adjust,          \* minutes between ticks of the charge listener
          MinPowerChange,  \* min_power_change
          Nets,            \* net draws of the house; negative is solar surplus
          MaxChanges,      \* how often the draw may change
          ChargeSocs, DischargeSocs,  \* the SoC when a session begins
          Targets,         \* the target_soc of a smart charge
          FeedinLimits,    \* feed-in energy limits, or NoLimit
          ExportLimits,    \* grid_export_limit_w, 0 is none
          Profiles,        \* taper profiles an earlier run stored
          TaperSoc,        \* charge_taper_soc: above it the battery takes less
          MayDie           \* Home Assistant may die

ASSUME LoopAssumption ==
  /\ Window \in Nat /\ Adjust \in Nat \ {0}
  /\ MinPowerChange \in Nat
  /\ Nets \subseteq Int /\ MaxChanges \in Nat
  /\ ChargeSocs \subseteq Buckets /\ DischargeSocs \subseteq Buckets
  /\ Targets \subseteq Buckets
  /\ FeedinLimits \subseteq Nat /\ ExportLimits \subseteq Nat
  /\ \A raw \in Profiles : /\ DOMAIN raw \subseteq Int
                           /\ \A k \in DOMAIN raw : raw[k] \in [ratio : Nat, count : Nat]
  /\ TaperSoc \in Buckets
  /\ MayDie \in BOOLEAN

VARIABLES now,       \* minutes into the window
          due,       \* the listener's tick of this minute is still to come
          energy,    \* in the battery
          net,       \* loads less solar
          override,  \* mode, power and end of the group on the inverter
          session,   \* the session's dict
          profile,   \* its taper profile, for the kind of the session
          exported,  \* fed into the grid, the feed-in counter
          imported,  \* drawn from the grid in the last minute
          exportLimit, up, changes
vars == <<now, due, energy, net, override, session, profile, exported,
          imported, exportLimit, up, changes>>

Never == Window + 1
SelfUse == [mode |-> "SelfUse", power |-> 0, end |-> Window]
Over == [kind |-> "over", started |-> FALSE, startedAt |-> 0, startEnergy |-> 0,
         power |-> 0, reached |-> FALSE, suspended |-> FALSE, issued |-> FALSE,
         peak |-> 0, wake |-> Never, low |-> 0, limit |-> NoLimit,
         baseline |-> -1, adjusted |-> FALSE, target |-> 0, full |-> FALSE]
Session == [kind : {"none", "charge", "discharge", "over"}, started : BOOLEAN,
            startedAt : 0 .. Window, startEnergy : 0 .. Capacity,
            power : 0 .. MaxPower, reached : BOOLEAN, suspended : BOOLEAN,
            issued : BOOLEAN, peak : Nat, wake : 0 .. Never, low : 0 .. 1,
            limit : Nat, baseline : Nat \union {-1}, adjusted : BOOLEAN,
            target : Buckets, full : BOOLEAN]
NoSession == [Over EXCEPT !.kind = "none"]
TargetE == session.target * soc_energy

remaining == Window - now

-----------------------------------------------------------------------------
(* The inverter and the battery: a minute of the simulator *)

InForce == IF now < override.end THEN override.mode ELSE "SelfUse"

\* Above charge_taper_soc the battery takes less, down to nothing when full.
_charge_taper_factor ==
  IF energy <= TaperSoc * soc_energy THEN 1000
  ELSE (1000 * (Capacity - energy)) \div (Capacity - TaperSoc * soc_energy)

Charge ==
  IF energy >= Capacity THEN 0
  ELSE CASE InForce = "ForceCharge" ->
              (Smaller(override.power, MaxPower) * _charge_taper_factor) \div 1000
         [] InForce = "SelfUse" ->
              (Smaller(AtLeast0(-net), MaxPower) * _charge_taper_factor) \div 1000
         [] OTHER -> 0

\* At its floor the battery serves nobody.  Past the export clamp it gives
\* less.  Above its floor it gives all that is asked, without the simulator's
\* discharge taper, which would spare it, and without loss, the simulator's
\* default.
Discharge ==
  LET power == Smaller(override.power, MaxPower)
      over  == IF exportLimit > 0 THEN AtLeast0(power - net - exportLimit) ELSE 0
  IN  IF energy <= MinE THEN 0
      ELSE CASE InForce = "ForceDischarge" -> AtLeast0(power - over)
             [] InForce = "SelfUse" -> Smaller(AtLeast0(net), MaxPower)
             [] OTHER -> 0

\* The discharge listener ticks every minute; the charge listener every
\* Adjust minutes and when its wake fires.
DueAt(t) ==
  \/ session.kind = "discharge"
  \/ session.kind = "charge" /\ (t % Adjust = 0 \/ t = session.wake \/ t = Window)

\* What the meter sees is what the battery and the house leave.
Minute ==
  /\ ~due /\ now < Window
  /\ LET grid == net + Charge - Discharge
     IN  /\ energy'   = Within(0, Capacity, energy + Charge - Discharge)
         /\ exported' = exported + Clamped(AtLeast0(-grid), exportLimit)
         /\ imported' = AtLeast0(grid)
  /\ now' = now + 1
  /\ due' = (up /\ DueAt(now + 1))
  /\ UNCHANGED <<net, override, session, profile, exportLimit, up, changes>>

\* The house's draw and the sun.
DrawChanges ==
  /\ changes < MaxChanges
  /\ net' \in Nets \ {net}
  /\ changes' = changes + 1
  /\ UNCHANGED <<now, due, energy, override, session, profile, exported,
                 imported, exportLimit, up>>

Dies ==
  /\ MayDie /\ up /\ session.kind \in {"charge", "discharge"}
  /\ up' = FALSE /\ due' = FALSE
  /\ UNCHANGED <<now, energy, net, override, session, profile, exported,
                 imported, exportLimit, changes>>

-----------------------------------------------------------------------------
(* Setting the override *)

\* The window is the end of a charge and of the group a service writes.
ForceCharge(power) ==
  override' = [mode |-> "ForceCharge", power |-> power, end |-> Window]

ServiceDischarge(power) ==
  override' = [mode |-> "ForceDischarge", power |-> power, end |-> Window]

\* The adapter ends what the listener applies at the safe horizon.
ForceDischarge(power) ==
  override' = [mode |-> "ForceDischarge", power |-> power,
               end |-> compute_safe_schedule_end(energy, power, now, Window)]

EndSession ==
  /\ session' = Over
  /\ override' = SelfUse

-----------------------------------------------------------------------------
(* The services *)

_do_smart_charge(soc, target) ==
  /\ session = NoSession
  /\ energy' = soc * soc_energy
  /\ LET e == soc * soc_energy
         new == [NoSession EXCEPT !.kind = "charge", !.target = target]
         deferred == calculate_deferred_start(profile, e, target, net, now, Window)
         power == calculate_charge_power(e, target, net, remaining, FALSE)
     IN  IF now < deferred
         THEN /\ session' = new
              /\ override' = override
         ELSE /\ session' = [new EXCEPT !.started = TRUE, !.startedAt = now,
                                        !.startEnergy = e, !.power = power]
              /\ ForceCharge(power)
  /\ UNCHANGED <<now, due, net, profile, exported, imported, exportLimit, up,
                 changes>>

\* A smart session at full power, to the top or the bottom: it does not wait.
handle_force_charge(soc) ==
  /\ session = NoSession
  /\ energy' = soc * soc_energy
  /\ session' = [NoSession EXCEPT !.kind = "charge", !.target = 100, !.full = TRUE,
                   !.started = TRUE, !.startedAt = now,
                   !.startEnergy = soc * soc_energy, !.power = MaxPower]
  /\ ForceCharge(MaxPower)
  /\ UNCHANGED <<now, due, net, profile, exported, imported, exportLimit, up,
                 changes>>

handle_force_discharge(soc) ==
  /\ session = NoSession
  /\ energy' = soc * soc_energy
  /\ session' = [NoSession EXCEPT !.kind = "discharge", !.full = TRUE,
                   !.started = TRUE, !.power = MaxPower, !.peak = AtLeast0(net)]
  /\ ServiceDischarge(MaxPower)
  /\ UNCHANGED <<now, due, net, profile, exported, imported, exportLimit, up,
                 changes>>

\* Paced at once unless an export limit is configured: then full power until
\* the first tick.
_do_smart_discharge(soc, limit) ==
  /\ session = NoSession
  /\ energy' = soc * soc_energy
  /\ LET e == soc * soc_energy
         new == [NoSession EXCEPT !.kind = "discharge", !.peak = AtLeast0(net),
                                  !.limit = limit]
         deferred == calculate_discharge_deferred_start(
                       profile, e, net, 0, limit, exportLimit, now, Window)
         power == IF exportLimit = 0
                  THEN calculate_discharge_power(e, net, 0, remaining, limit,
                                                 limit # NoLimit)
                  ELSE MaxPower
     IN  IF now < deferred
         THEN session' = new /\ override' = override
         ELSE /\ session' = [new EXCEPT !.started = TRUE, !.power = power]
              /\ ServiceDischarge(power)
  /\ UNCHANGED <<now, due, net, profile, exported, imported, exportLimit, up,
                 changes>>

-----------------------------------------------------------------------------
(* The charge listener *)

\* What the battery took of the inverter's full power.
_record_taper_observation(power, actual) ==
  profile' = IF power < 500 THEN profile
             ELSE _record(profile, int(energy), MaxPower, actual)

ChargeTick == due /\ session.kind = "charge" /\ remaining > 0

\* The override goes when the target is reached, and the session watches on.
TargetReached ==
  /\ ChargeTick /\ energy >= TargetE
  /\ due' = FALSE
  /\ session' = [session EXCEPT !.reached = TRUE]
  /\ override' = IF session.started /\ ~session.reached THEN SelfUse ELSE override
  /\ profile' = profile

Deferred == calculate_deferred_start(profile', energy, session.target, net, 0, Window)

Reachable == is_charge_target_reachable(profile', energy, session.target, net, remaining)

\* Short of the target, but there is time.  A charge that is ahead is given
\* up again (D-043); a wake is set for the deferred start.
Defer ==
  /\ ChargeTick /\ energy < TargetE
  /\ due' = FALSE
  /\ IF session.started THEN _record_taper_observation(session.power, Charge)
                        ELSE profile' = profile
  /\ now < Deferred
  /\ session' = [session EXCEPT !.reached = FALSE, !.started = FALSE,
                   !.wake = Deferred, !.issued = @ /\ ~Reachable]
  /\ override' = IF session.started THEN SelfUse ELSE override

StartCharge ==
  /\ ChargeTick /\ energy < TargetE
  /\ due' = FALSE
  /\ ~session.started /\ profile' = profile
  /\ now >= Deferred
  /\ LET power == calculate_charge_power(energy, session.target, net, remaining, FALSE)
     IN  /\ session' = [session EXCEPT !.reached = FALSE, !.started = TRUE,
                          !.startedAt = now, !.startEnergy = energy,
                          !.power = power, !.wake = Never]
         /\ ForceCharge(power)

\* A change within the dead band is skipped, and the check of the target with
\* it.  Full power is not looked into any further.
_adjust_charge_power ==
  /\ ChargeTick /\ energy < TargetE
  /\ due' = FALSE
  /\ session.started /\ _record_taper_observation(session.power, Charge)
  /\ now >= Deferred
  /\ LET behind == Behind(energy, session.target, session.startEnergy, now - session.startedAt,
                          Window - session.startedAt, MinPowerChange * remaining)
         power  == IF session.full THEN MaxPower
                   ELSE calculate_charge_power(energy, session.target, net, remaining, behind)
         skip   == Distance(power, session.power) < MinPowerChange /\ power # MaxPower
     IN  IF skip
         THEN /\ session' = [session EXCEPT !.reached = FALSE]
              /\ override' = override
         ELSE /\ session' = [session EXCEPT !.reached = FALSE, !.power = power,
                                            !.issued = ~Reachable]
              /\ ForceCharge(power)

-----------------------------------------------------------------------------
(* The discharge listener *)

DischargeTick == due /\ session.kind = "discharge" /\ remaining > 0

\* PEAK_DECAY_PER_TICK is 85/100.
peak == Larger(AtLeast0(net), (85 * session.peak) \div 100)
peaked == [session EXCEPT !.peak = peak]

pre_start ==
  calculate_discharge_deferred_start(profile, energy, net, peak, session.limit,
                                     exportLimit, 0, Window)

DeferDischarge ==
  /\ DischargeTick /\ ~session.started /\ energy > MinE /\ now < pre_start
  /\ due' = FALSE
  /\ session' = peaked
  /\ UNCHANGED <<override, profile>>

_start_deferred_discharge ==
  /\ DischargeTick /\ ~session.started /\ energy > MinE /\ now >= pre_start
  /\ due' = FALSE
  /\ LET power == calculate_discharge_power(energy, net, peak, remaining, 0, FALSE)
     IN  /\ session' = [peaked EXCEPT !.started = TRUE, !.power = power,
                                      !.adjusted = TRUE]
         /\ ForceDischarge(power)
  /\ profile' = profile

\* The rest of the tick.
Past == DischargeTick /\ (session.started \/ energy <= MinE)

\* _check_feedin_limit: the first tick takes the baseline.
Spent == IF session.baseline < 0 THEN 0 ELSE exported - session.baseline
counted == [peaked EXCEPT !.baseline =
              IF session.limit # NoLimit /\ @ < 0 THEN exported ELSE @]

FeedinLimitReached ==
  /\ Past /\ session.limit # NoLimit /\ session.baseline >= 0
  /\ Spent >= session.limit
  /\ due' = FALSE /\ profile' = profile
  /\ EndSession

Paced ==
  /\ Past /\ (session.limit = NoLimit \/ session.baseline < 0 \/ Spent < session.limit)
  /\ due' = FALSE
  /\ IF session.suspended THEN profile' = profile
     ELSE _record_taper_observation(session.power, Discharge)

ShouldSuspend == should_suspend_discharge(energy, net, peak, remaining)

Suspend ==
  /\ Paced /\ ~session.full /\ energy > MinE /\ ShouldSuspend
  /\ session' = [counted EXCEPT !.suspended = TRUE]
  /\ override' = IF session.suspended THEN override ELSE SelfUse

\* _apply_discharge_power.  With a feed-in budget and little left to pace the
\* battery is left to the house; a change within the dead band is skipped.
Adjusted(new, feedin) ==
  LET d == [counted EXCEPT !.suspended = FALSE, !.low = 0, !.adjusted = TRUE]
      selfUse == feedin /\ new < MinPowerChange /\ session.power # 0
      update == \/ Distance(new, session.power) >= MinPowerChange
                \/ new = MaxPower
                \/ session.suspended
      power == IF update THEN new ELSE session.power
  IN  IF selfUse
      THEN session' = [d EXCEPT !.power = 0] /\ override' = SelfUse
      ELSE session' = [d EXCEPT !.power = power] /\ ForceDischarge(power)

_apply_discharge_power ==
  /\ Paced /\ ~session.full /\ energy > MinE /\ ~ShouldSuspend
  /\ LET feedin == session.limit # NoLimit
     IN  Adjusted(calculate_discharge_power(energy, net, peak, remaining,
                    session.limit - Spent, feedin), feedin)

\* At full power the tick looks at the floor only.
Unpaced ==
  /\ Paced /\ session.full /\ energy > MinE
  /\ session' = [counted EXCEPT !.low = 0]
  /\ override' = override

\* _check_soc_threshold: at the floor the override goes at once, the session
\* at the second tick.
AtFloor ==
  /\ Paced /\ energy <= MinE
  /\ override' = SelfUse
  /\ session' = IF session.low + 1 < 2 THEN [counted EXCEPT !.low = @ + 1] ELSE Over

-----------------------------------------------------------------------------

WindowEnds ==
  /\ due /\ remaining <= 0
  /\ due' = FALSE /\ profile' = profile
  /\ EndSession

Tick ==
  /\ \/ TargetReached \/ Defer \/ StartCharge \/ _adjust_charge_power
     \/ DeferDischarge \/ _start_deferred_discharge \/ FeedinLimitReached
     \/ Suspend \/ _apply_discharge_power \/ Unpaced \/ AtFloor \/ WindowEnds
  /\ UNCHANGED <<now, energy, net, exported, imported, exportLimit, up, changes>>

Init ==
  /\ now = 0 /\ due = FALSE /\ energy = 0 /\ net \in Nets
  /\ override = SelfUse /\ session = NoSession
  /\ profile \in {loaded(raw) : raw \in Profiles}
  /\ exported = 0 /\ imported = 0 /\ exportLimit \in ExportLimits
  /\ up = TRUE /\ changes = 0

Next ==
  \/ \E soc \in ChargeSocs : \/ \E target \in Targets : _do_smart_charge(soc, target)
                             \/ handle_force_charge(soc)
  \/ \E soc \in DischargeSocs : \/ \E limit \in FeedinLimits : _do_smart_discharge(soc, limit)
                                \/ handle_force_discharge(soc)
  \/ Tick
  \/ session # NoSession /\ (Minute \/ DrawChanges \/ Dies)

Spec == Init /\ [][Next]_vars

-----------------------------------------------------------------------------

TypeOK ==
  /\ now \in 0 .. Window /\ due \in BOOLEAN
  /\ energy \in 0 .. Capacity
  /\ net \in Nets /\ exportLimit \in ExportLimits
  /\ override \in [mode : {"SelfUse", "ForceCharge", "ForceDischarge"},
                   power : 0 .. MaxPower, end : 0 .. Window]
  /\ session \in Session
  /\ DOMAIN profile \subseteq Buckets
  /\ \A k \in DOMAIN profile : profile[k] \in TaperBin
  /\ exported \in Nat /\ imported \in Nat
  /\ up \in BOOLEAN /\ changes \in 0 .. MaxChanges

\* C-001, as far as the dead band lets it: while a discharge is forced and the
\* battery serves the house, the power on the inverter is short of the safety
\* floor of the highest draw of the recent ticks by less than min_power_change,
\* unless the floor is more than the inverter can give.  A draw that rises, a
\* peak that decays and a change that is skipped come together.
FloorWithinBand ==
  session.kind = "discharge" /\ override.mode = "ForceDischarge" /\ energy > MinE
    /\ safety_floor_w(session.peak) <= MaxPower
  => override.power + Larger(MinPowerChange, 1) > safety_floor_w(session.peak)

\* C-001, C-027: what the listener applied last ends before the battery is at
\* its floor, where the inverter stops serving the house and the grid does,
\* whatever the house draws meanwhile: no forced discharge stands there, while
\* the listener goes on renewing it or after Home Assistant has died.
HorizonProtects ==
  session.adjusted /\ InForce = "ForceDischarge" => energy > MinE

\* A charge ends its window on target, or was there at the last look, though it
\* put charging off as long as it could and may have given it up on the way.
\* It may be short of what a battery that takes less than its profile knows
\* does not take in the last minute, and of what a house that changes its draw
\* can take between two ticks.
ChargeMeetsTarget ==
  session.kind = "charge" /\ ~session.full /\ up /\ now = Window
    => \/ session.reached
       \/ energy + (IF changes = 0 THEN MaxPower ELSE Adjust * Max(Nets)) >= TargetE

\* README 200: a force charge charges at maximum inverter power until the
\* window ends or the battery is full.
ForceChargeCharges ==
  session.kind = "charge" /\ session.full /\ up /\ ~due /\ now < Window
    /\ energy < Capacity
  => InForce = "ForceCharge" /\ override.power = MaxPower
=============================================================================
