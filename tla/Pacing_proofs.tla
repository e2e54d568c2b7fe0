---------------------------- MODULE Pacing_proofs ----------------------------
(***************************************************************************)
(* The safety floor and the schedule horizon of a paced discharge, and the *)
(* agreement of the sensors with the listener and with each other, hold    *)
(* for every battery, inverter, window, house, profile and dead band.      *)
(***************************************************************************)
EXTENDS Display, FiniteSetTheorems, WellFoundedInduction, TLAPS

-----------------------------------------------------------------------------
(* Arithmetic.                                                             *)
LEMMA Products == \A a, b \in Nat : a * b \in Nat /\ (a > 0 /\ b > 0 => a * b > 0)
  BY SMT

LEMMA Energies == soc_energy \in Nat /\ soc_energy > 0 /\ Capacity \in Nat /\ MinE \in 0 .. Capacity
<1>1. soc_energy \in Nat /\ soc_energy > 0
  BY PacingAssumption DEF soc_energy
<1>2. MinSoc \in 0 .. 100
  BY PacingAssumption DEF Buckets
<1>3. \A m \in 0 .. 100, u \in Nat : m * u \in 0 .. 100 * u
  BY SMT
<1> HIDE DEF soc_energy
<1> QED BY <1>1, <1>2, <1>3 DEF Capacity, MinE

LEMMA SocEnergy == ASSUME NEW soc \in Buckets PROVE soc * soc_energy \in 0 .. Capacity
<1>1. \A m \in 0 .. 100, u \in Nat : m * u \in 0 .. 100 * u
  BY SMT
<1> QED BY <1>1, Energies DEF Buckets, Capacity

(* What the time less its headroom makes a divisor.                        *)
LEMMA PacedTime ==
    ASSUME NEW m \in Int, m > 0
    PROVE  m * (100 - Headroom) \in Nat /\ 100 * (m * (100 - Headroom)) > 0
<1>1. 100 - Headroom \in Nat /\ 100 - Headroom > 0 /\ m \in Nat
  BY PacingAssumption
<1>2. m * (100 - Headroom) \in Nat /\ m * (100 - Headroom) > 0
  BY <1>1, Products
<1> QED BY <1>2

(* A charge is given at least the least power and at most the inverter's.  *)
LEMMA PacedCharge ==
    ASSUME NEW e \in Int, NEW target \in Buckets, NEW n \in Int, NEW m \in Int, NEW behind
    PROVE  /\ calculate_charge_power(e, target, n, m, behind) \in 0 .. MaxPower
           /\ calculate_charge_power(e, target, n, m, behind) > 0
<1> DEFINE needed == energy_needed(e, target)
           time == m * (100 - Headroom)
           num == (100 * needed + AtLeast0(n) * time) * (100 + Headroom)
           power == num \div (100 * time)
<1>1. needed \in Int /\ AtLeast0(n) \in Int
  BY SocEnergy DEF energy_needed, AtLeast0
<1>2. CASE needed > 0 /\ m > 0 /\ ~behind
  <2>1. time \in Nat /\ 100 * time > 0
    BY <1>2, PacedTime
  <2>2. num \in Int
    BY <1>1, <2>1, PacingAssumption
  <2> HIDE DEF num, time, needed
  <2>3. power \in Int
    BY <2>1, <2>2
  <2> HIDE DEF power
  <2>4. calculate_charge_power(e, target, n, m, behind)
          = Larger(MIN_CHARGE_POWER_W, Smaller(power, MaxPower))
    BY <1>1, <1>2 DEF calculate_charge_power, needed, power, num, time
  <2> QED BY <2>3, <2>4, PacingAssumption DEF Larger, Smaller, MIN_CHARGE_POWER_W
<1>3. CASE ~(needed > 0 /\ m > 0 /\ ~behind)
  BY <1>1, <1>3, PacingAssumption DEF calculate_charge_power, MIN_CHARGE_POWER_W
<1> QED BY <1>2, <1>3

(* A discharge is given at most the inverter's power, and above its floor  *)
(* at least the safety floor that the inverter can give.                   *)
LEMMA DischargeRange ==
    ASSUME NEW e \in Int, NEW n \in Int, NEW peaks \in Nat, NEW m \in Int, NEW feedin \in Int,
           NEW limited \in BOOLEAN
    PROVE  LET p == calculate_discharge_power(e, n, peaks, m, feedin, limited)
               f == safety_floor_w(Larger(AtLeast0(n), peaks))
           IN  p \in 0 .. MaxPower /\ (e > MinE /\ f <= MaxPower => f <= p)
<1> DEFINE consumption == AtLeast0(n)
           floor == safety_floor_w(Larger(consumption, peaks))
           floored == 0 < floor /\ floor <= MaxPower
           budget == feedin + consumption * m
           drain == IF limited /\ feedin >= 0 /\ budget < e - MinE THEN budget ELSE e - MinE
           time == m * (100 - Headroom)
           num == (100 * drain - consumption * time) * (100 + Headroom)
           paced == num \div (100 * time)
           P == calculate_discharge_power(e, n, peaks, m, feedin, limited)
<1>1. consumption \in Nat /\ floor \in Nat /\ MinE \in Nat /\ Headroom \in Nat
  BY Energies, PacingAssumption DEF AtLeast0, Larger, safety_floor_w
<1>2. budget \in Int /\ drain \in Int
  BY <1>1
<1>3. CASE e - MinE <= 0
  BY <1>1, <1>3, PacingAssumption
     DEF calculate_discharge_power, DischargePowerWithFloor, MIN_DISCHARGE_POWER_W
<1>4. CASE e - MinE > 0 /\ m <= 0
  BY <1>1, <1>4, PacingAssumption
     DEF calculate_discharge_power, DischargePowerWithFloor, MIN_DISCHARGE_POWER_W
<1>5. CASE e - MinE > 0 /\ m > 0
  <2>1. time \in Nat /\ 100 * time > 0
    BY <1>5, PacedTime
  <2>2. num \in Int
    BY <1>1, <1>2, <2>1
  <2> HIDE DEF num, time
  <2>3. paced \in Int
    BY <2>1, <2>2
  <2>4. P = IF drain <= 0
            THEN IF floored THEN Larger(MIN_DISCHARGE_POWER_W, floor) ELSE MIN_DISCHARGE_POWER_W
            ELSE Larger(MIN_DISCHARGE_POWER_W,
                        Smaller(IF floored THEN Larger(paced, floor) ELSE paced, MaxPower))
    BY <1>1, <1>2, <1>5 DEF calculate_discharge_power, DischargePowerWithFloor, time, num
  <2> HIDE DEF paced, drain, floor, P
  <2> QED BY <1>1, <1>2, <2>3, <2>4, PacingAssumption
          DEF Larger, Smaller, MIN_DISCHARGE_POWER_W, P, floor
<1> QED BY <1>1, <1>3, <1>4, <1>5

(* The horizon is one by which the power cannot have drained what is above *)
(* the floor, with half as much again to spare.                            *)
LEMMA SafeEnd ==
    ASSUME NEW e \in Int, e > MinE, NEW power \in Nat, NEW t \in Nat, NEW end \in Nat, t <= end
    PROVE  LET h == compute_safe_schedule_end(e, power, t, end)
           IN  h \in 0 .. end /\ (t < h => 3 * power * (h - t) <= 2 * (e - MinE))
<1> DEFINE h == compute_safe_schedule_end(e, power, t, end)
           q == (2 * (e - MinE)) \div (3 * power)
<1>1. MinE \in Nat /\ e - MinE \in Nat
  BY Energies
<1>2. CASE power = 0
  BY <1>1, <1>2 DEF compute_safe_schedule_end
<1>3. CASE power > 0
  <2>1. q \in Nat /\ 3 * power * q <= 2 * (e - MinE)
    <3>1. \A a \in Nat, b \in Nat : b > 0 => a \div b \in Nat /\ b * (a \div b) <= a
      BY SMT
    <3>2. 2 * (e - MinE) \in Nat /\ 3 * power \in Nat /\ 3 * power > 0
      BY <1>1, <1>3
    <3> QED BY <3>1, <3>2
  <2>2. h = Smaller(end, t + q)
    BY <1>1, <1>3 DEF compute_safe_schedule_end
  <2> HIDE DEF q, h
  <2>3. h \in 0 .. end /\ h - t <= q
    BY <2>1, <2>2 DEF Smaller
  <2>4. \A c \in Nat, a \in Nat, b \in Nat : a <= b => c * a <= c * b
    BY SMT
  <2>5. t < h => 3 * power * (h - t) <= 3 * power * q
    BY <2>1, <2>3, <2>4
  <2> QED BY <1>1, <2>1, <2>3, <2>5 DEF h
<1> QED BY <1>2, <1>3

-----------------------------------------------------------------------------
(* The invariant.                                                          *)

(* All but the minute of a charge's wake, which is a sum over percents.    *)
SessionTyped(s) ==
    s \in [kind : {"none", "charge", "discharge", "over"}, started : BOOLEAN,
           startedAt : 0 .. Window, startEnergy : 0 .. Capacity,
           power : 0 .. MaxPower, reached : BOOLEAN, suspended : BOOLEAN,
           issued : BOOLEAN, peak : Nat, wake : {s.wake}, low : 0 .. 1,
           limit : Nat, baseline : Nat \union {-1}, adjusted : BOOLEAN,
           target : Buckets, full : BOOLEAN]
OverrideType == [mode : {"SelfUse", "ForceCharge", "ForceDischarge"},
                 power : 0 .. MaxPower, end : 0 .. Window]
Typed ==
    /\ now \in 0 .. Window /\ energy \in 0 .. Capacity
    /\ net \in Int /\ exportLimit \in Nat /\ exported \in Nat
    /\ override \in OverrideType
    /\ SessionTyped(session)

(* A discharge that waits or is suspended has nothing forced; one at full  *)
(* power is forced at full power.                                          *)
ModeInv(s, o) ==
    /\ s.kind = "none" => o.mode = "SelfUse"
    /\ s.kind = "discharge" =>
         /\ ~s.started => o.mode # "ForceDischarge" /\ ~s.full /\ ~s.suspended
         /\ s.suspended => o.mode # "ForceDischarge"
         /\ s.full /\ o.mode = "ForceDischarge" => o.power = MaxPower

(* The power is within the dead band of the floor of the peak.  A session  *)
(* that began at its own floor has the least power, and stays there until  *)
(* the window or a tick ends it.                                           *)
FloorInv(s, o, e) ==
    s.kind = "discharge" /\ o.mode = "ForceDischarge" /\ safety_floor_w(s.peak) <= MaxPower
      => \/ o.power + Larger(MinPowerChange, 1) > safety_floor_w(s.peak)
         \/ e <= MinE /\ o.end = Window

(* Half as much again as the override can still drain is above the floor.  *)
HorizonInv(s, o, e, t) ==
    s.adjusted /\ o.mode = "ForceDischarge" /\ t < o.end
      => e > MinE /\ 3 * o.power * (o.end - t) <= 2 * (e - MinE)

Inv == /\ Typed
       /\ ModeInv(session, override)
       /\ FloorInv(session, override, energy)
       /\ HorizonInv(session, override, energy, now)

LEMMA NoSessionTyped ==
    /\ SessionTyped(NoSession) /\ SessionTyped(Over)
    /\ NoSession.kind = "none" /\ ~NoSession.adjusted /\ NoSession.suspended = FALSE
    /\ NoSession.started = FALSE /\ NoSession.full = FALSE
    /\ Over.kind = "over" /\ ~Over.adjusted
<1>1. 0 \in 0 .. Window /\ 0 \in 0 .. Capacity /\ 0 \in 0 .. MaxPower /\ 0 \in Buckets
  BY LoopAssumption, Energies, PacingAssumption DEF Buckets
<1>2. NoLimit \in Nat /\ 0 \in Nat /\ 0 \in 0 .. 1 /\ -1 \in Nat \union {-1}
  BY DEF NoLimit
<1> HIDE DEF Never, NoLimit
<1>3. SessionTyped(Over) /\ Over.kind = "over" /\ ~Over.adjusted
  BY <1>1, <1>2, Zenon DEF SessionTyped, Over
<1>4. SessionTyped(NoSession)
  BY <1>3, SMT DEF SessionTyped, NoSession
<1>5. /\ NoSession.kind = "none" /\ ~NoSession.adjusted /\ NoSession.suspended = FALSE
      /\ NoSession.started = FALSE /\ NoSession.full = FALSE
  BY Zenon DEF NoSession, Over
<1> QED BY <1>3, <1>4, <1>5

LEMMA SelfUseTyped == SelfUse \in OverrideType /\ SelfUse.mode = "SelfUse"
  BY LoopAssumption, PacingAssumption DEF SelfUse, OverrideType

THEOREM InvInit == Init => Inv
<1> SUFFICES ASSUME Init PROVE Inv
  OBVIOUS
<1>1. Typed
  BY NoSessionTyped, SelfUseTyped, Energies, LoopAssumption DEF Init, Typed
<1>2. override.mode = "SelfUse" /\ session.kind = "none"
  BY SelfUseTyped, NoSessionTyped DEF Init
<1> QED BY <1>1, <1>2 DEF Inv, ModeInv, FloorInv, HorizonInv

(* What the battery takes and gives in a minute: nothing is taken while a  *)
(* discharge is forced, and at most its power is given, above the floor.   *)
LEMMA Flows ==
    ASSUME Typed
    PROVE  /\ Charge \in Int /\ Discharge \in Nat
           /\ InForce = "ForceDischarge" =>
                /\ Charge = 0 /\ Discharge <= override.power
                /\ energy <= MinE => Discharge = 0
<1>1. /\ override.power \in 0 .. MaxPower /\ energy \in 0 .. Capacity /\ net \in Int
      /\ exportLimit \in Nat /\ MaxPower \in Nat /\ Capacity \in Nat /\ MinE \in Nat
  BY Energies, PacingAssumption DEF Typed, OverrideType
<1>2. Charge \in Int
  <2>1. CASE energy >= Capacity
    BY <2>1 DEF Charge
  <2>2. CASE energy < Capacity
    <3>1. TaperSoc * soc_energy \in Nat
      BY Energies, SocEnergy, LoopAssumption
    <3>2. _charge_taper_factor \in Int
      <4> DEFINE edge == TaperSoc * soc_energy
      <4> HIDE DEF edge
      <4>1. edge \in Nat /\ _charge_taper_factor = IF energy <= edge THEN 1000
              ELSE (1000 * (Capacity - energy)) \div (Capacity - edge)
        BY <3>1, Zenon DEF _charge_taper_factor, edge
      <4> QED BY <1>1, <2>2, <4>1
    <3> HIDE DEF _charge_taper_factor
    <3>3. \A p \in Int : (p * _charge_taper_factor) \div 1000 \in Int
      BY <3>2, SMT
    <3>4. Smaller(override.power, MaxPower) \in Int /\ Smaller(AtLeast0(-net), MaxPower) \in Int
      BY <1>1 DEF Smaller, AtLeast0
    <3> QED BY <2>2, <3>3, <3>4, <1>1 DEF Charge
  <2> QED BY <1>1, <2>1, <2>2
<1>3. Discharge \in Nat /\ (InForce = "ForceDischarge" => Discharge <= override.power)
  BY <1>1 DEF Discharge, Smaller, AtLeast0
<1>4. InForce = "ForceDischarge" => Charge = 0
  BY <1>1 DEF Charge
<1>5. energy <= MinE => Discharge = 0
  BY <1>1 DEF Discharge
<1> QED BY <1>2, <1>3, <1>4, <1>5

LEMMA InvMinute == ASSUME Inv, Minute PROVE Inv'
<1> DEFINE e2 == Within(0, Capacity, energy + Charge - Discharge)
           grid == net + Charge - Discharge
<1>1. Typed /\ now < Window /\ now' = now + 1 /\ energy' = e2 /\ UNCHANGED <<net, override, session, exportLimit>>
  BY DEF Inv, Minute
<1>2. /\ now \in 0 .. Window /\ Window \in Nat /\ energy \in 0 .. Capacity /\ net \in Int /\ exportLimit \in Nat
      /\ exported \in Nat /\ Capacity \in Nat /\ MinE \in 0 .. Capacity
      /\ override.power \in Nat /\ override.end \in Nat
  BY <1>1, Energies, LoopAssumption, PacingAssumption DEF Typed, OverrideType
<1>3. /\ Charge \in Int /\ Discharge \in Nat
      /\ InForce = "ForceDischarge" =>
           /\ Charge = 0 /\ Discharge <= override.power
           /\ energy <= MinE => Discharge = 0
  BY <1>1, Flows
<1>4. exported' = exported + Clamped(AtLeast0(-grid), exportLimit)
  BY DEF Minute
<1> HIDE DEF Charge, Discharge
<1>5. exported' \in Nat
  BY <1>2, <1>3, <1>4 DEF Clamped, AtLeast0, Smaller
<1>6. e2 \in 0 .. Capacity
  BY <1>2, <1>3 DEF Within
<1>7. Typed'
  <2>1. SessionTyped(session)'
    BY <1>1 DEF Typed, SessionTyped
  <2> QED BY <1>1, <1>2, <1>5, <1>6, <2>1 DEF Typed
<1>8. ModeInv(session, override)'
  BY <1>1 DEF Inv, ModeInv
<1>9. FloorInv(session, override, energy)'
  <2> SUFFICES ASSUME override.mode = "ForceDischarge", energy <= MinE, override.end = Window
               PROVE  e2 <= MinE
    BY <1>1 DEF Inv, FloorInv
  <2>1. InForce = "ForceDischarge"
    BY <1>1 DEF InForce
  <2> QED BY <1>2, <1>3, <2>1 DEF Within
<1>10. HorizonInv(session, override, energy, now)'
  <2> SUFFICES ASSUME session.adjusted, override.mode = "ForceDischarge", now + 1 < override.end
               PROVE  e2 > MinE /\ 3 * override.power * (override.end - (now + 1)) <= 2 * (e2 - MinE)
    BY <1>1 DEF HorizonInv
  <2>1. InForce = "ForceDischarge" /\ now < override.end
    BY <1>2 DEF InForce
  <2>2. energy > MinE /\ 3 * override.power * (override.end - now) <= 2 * (energy - MinE)
    BY <2>1 DEF Inv, HorizonInv
  <2> DEFINE p == override.power
             m == override.end - (now + 1)
  <2>3. p \in Nat /\ m \in Nat /\ m > 0 /\ override.end - now = m + 1
    BY <1>2
  <2> HIDE DEF p, m
  <2>4. 3 * p * (m + 1) = 3 * p * m + 3 * p /\ 3 * p * m \in Nat /\ p <= p * m
    BY <2>3, SMT
  <2>5. 3 * p * m + 3 * p <= 2 * (energy - MinE)
    BY <2>2, <2>3, <2>4 DEF p
  <2>6. Charge = 0 /\ Discharge <= p
    BY <1>3, <2>1 DEF p
  <2>7. energy + Charge - Discharge > MinE
    BY <1>2, <1>3, <2>2, <2>3, <2>4, <2>5, <2>6
  <2>8. e2 = energy + Charge - Discharge
    BY <1>2, <1>3, <2>6, <2>7 DEF Within
  <2> HIDE DEF e2
  <2>9. e2 > MinE /\ 3 * p * m <= 2 * (e2 - MinE)
    BY <1>2, <1>3, <2>2, <2>3, <2>4, <2>5, <2>6, <2>8
  <2> QED BY <2>9, Zenon DEF p, m
<1> QED BY <1>7, <1>8, <1>9, <1>10 DEF Inv

-----------------------------------------------------------------------------
(* The sessions that ticks make of a session.                              *)
Begun(s, p) == [s EXCEPT !.started = TRUE, !.power = p, !.adjusted = TRUE]

LEMMA BegunDict ==
    ASSUME NEW s, SessionTyped(s), NEW p \in 0 .. MaxPower
    PROVE  LET d == Begun(s, p)
           IN  /\ SessionTyped(d) /\ d.kind = s.kind /\ d.peak = s.peak /\ d.full = s.full
               /\ d.started = TRUE /\ d.suspended = s.suspended
  BY DEF SessionTyped, Begun

Resumed(s) == [s EXCEPT !.suspended = FALSE, !.low = 0, !.adjusted = TRUE]
WithPower(s, p) == [s EXCEPT !.power = p]

LEMMA ResumedDict ==
    ASSUME NEW s, SessionTyped(s)
    PROVE  LET d == Resumed(s)
           IN  /\ SessionTyped(d) /\ d.kind = s.kind /\ d.peak = s.peak /\ d.full = s.full
               /\ d.started = s.started /\ d.suspended = FALSE
<1> DEFINE d == Resumed(s)
<1>1. SessionTyped(d)
  <2>1. 0 \in 0 .. 1
    OBVIOUS
  <2> QED BY <2>1 DEF SessionTyped, Resumed
<1>2. d.kind = s.kind /\ d.peak = s.peak /\ d.full = s.full /\ d.started = s.started
  BY DEF SessionTyped, Resumed
<1>3. d.suspended = FALSE
  BY DEF SessionTyped, Resumed
<1> QED BY <1>1, <1>2, <1>3

LEMMA PowerDict ==
    ASSUME NEW s, SessionTyped(s), NEW p \in 0 .. MaxPower
    PROVE  LET d == WithPower(s, p)
           IN  /\ SessionTyped(d) /\ d.kind = s.kind /\ d.peak = s.peak /\ d.full = s.full
               /\ d.started = s.started /\ d.suspended = s.suspended
  BY DEF SessionTyped, WithPower

LEMMA LowDict ==
    ASSUME NEW s, SessionTyped(s), NEW l \in 0 .. 1
    PROVE  LET d == [s EXCEPT !.low = l]
           IN  /\ SessionTyped(d) /\ d.kind = s.kind /\ d.peak = s.peak /\ d.full = s.full
               /\ d.started = s.started /\ d.suspended = s.suspended /\ d.adjusted = s.adjusted
  BY DEF SessionTyped

-----------------------------------------------------------------------------
(* What a tick leaves alone, and the three kinds of tick: nothing is       *)
(* forced after it, or a discharge is, or it is a charge's.                *)
Still == UNCHANGED <<now, energy, net, exported, exportLimit>>

LEMMA NothingForced ==
    ASSUME Inv, Still, SessionTyped(session'), override' \in OverrideType,
           override'.mode # "ForceDischarge", session'.kind = "none" => override'.mode = "SelfUse",
           session'.kind = "discharge" /\ ~session'.started => ~session'.full /\ ~session'.suspended
    PROVE  Inv'
<1>1. Typed'
  BY DEF Inv, Typed, Still
<1> QED BY <1>1 DEF Inv, ModeInv, FloorInv, HorizonInv

LEMMA ChargeStep ==
    ASSUME Inv, Still, SessionTyped(session'), session'.kind = "charge",
           session'.adjusted = session.adjusted,
           \/ override' = override
           \/ override' \in OverrideType /\ override'.mode # "ForceDischarge"
    PROVE  Inv'
<1>1. Typed'
  BY DEF Inv, Typed, Still
<1>2. HorizonInv(session, override, energy, now)'
  BY DEF Inv, HorizonInv, Still
<1> QED BY <1>1, <1>2 DEF Inv, ModeInv, FloorInv

LEMMA ForcedStep ==
    ASSUME Inv, Still, SessionTyped(session'), NEW power \in 0 .. MaxPower, energy > MinE,
           ForceDischarge(power), session'.kind = "discharge", session'.started,
           ~session'.suspended, ~session'.full,
           safety_floor_w(session'.peak) <= MaxPower
             => power + Larger(MinPowerChange, 1) > safety_floor_w(session'.peak)
    PROVE  Inv'
<1> DEFINE h == compute_safe_schedule_end(energy, power, now, Window)
<1>1. now \in 0 .. Window /\ Window \in Nat /\ energy \in 0 .. Capacity /\ Capacity \in Nat
      /\ power \in Nat /\ MaxPower \in Nat
  BY LoopAssumption, PacingAssumption, Energies DEF Inv, Typed
<1>2. h \in 0 .. Window /\ (now < h => 3 * power * (h - now) <= 2 * (energy - MinE))
  <2>1. /\ energy \in Int /\ energy > MinE /\ power \in Nat /\ now \in Nat /\ Window \in Nat
        /\ now <= Window
    BY <1>1
  <2> QED BY <2>1, SafeEnd, Zenon DEF h
<1> HIDE DEF h
<1>3. override' = [mode |-> "ForceDischarge", power |-> power, end |-> h]
  BY DEF ForceDischarge, h
<1>4. override' \in OverrideType /\ override'.mode = "ForceDischarge" /\ override'.power = power
      /\ override'.end = h
  BY <1>1, <1>2, <1>3 DEF OverrideType
<1>5. Typed'
  BY <1>4 DEF Inv, Typed, Still
<1>6. ModeInv(session, override)' /\ FloorInv(session, override, energy)'
  BY <1>4 DEF ModeInv, FloorInv
<1>7. HorizonInv(session, override, energy, now)'
  BY <1>2, <1>4 DEF HorizonInv, Still
<1> QED BY <1>5, <1>6, <1>7 DEF Inv

LEMMA ForceCharged ==
    ASSUME NEW power \in 0 .. MaxPower, ForceCharge(power)
    PROVE  override' \in OverrideType /\ override'.mode = "ForceCharge" /\ override'.power = power
  BY LoopAssumption DEF ForceCharge, OverrideType

-----------------------------------------------------------------------------
(* The ticks of a charge.                                                  *)
LEMMA InvCharges ==
    ASSUME Inv, Still, TargetReached \/ Defer \/ StartCharge \/ _adjust_charge_power
    PROVE  Inv'
<1>1. SessionTyped(session) /\ override \in OverrideType /\ energy \in 0 .. Capacity /\ net \in Int
      /\ now \in 0 .. Window /\ Window \in Nat /\ Capacity \in Nat
  BY LoopAssumption, Energies DEF Inv, Typed
<1>2. session.kind = "charge" /\ session.target \in Buckets /\ remaining \in Int
      /\ session.issued \in BOOLEAN
  <2>1. session.kind = "charge"
    BY Zenon DEF TargetReached, Defer, StartCharge, _adjust_charge_power, ChargeTick
  <2>2. session.target \in Buckets /\ session.issued \in BOOLEAN
    BY <1>1 DEF SessionTyped
  <2> QED BY <1>1, <2>1, <2>2 DEF remaining
<1>3. CASE TargetReached
  <2>1. session' = [session EXCEPT !.reached = TRUE]
    BY <1>3 DEF TargetReached
  <2>2. SessionTyped(session') /\ session'.kind = "charge" /\ session'.adjusted = session.adjusted
    BY <1>1, <1>2, <2>1 DEF SessionTyped
  <2>3. override' = override \/ override' = SelfUse
    BY <1>3 DEF TargetReached
  <2> QED BY <2>2, <2>3, SelfUseTyped, ChargeStep
<1>4. CASE Defer
  <2> DEFINE b == session.issued /\ ~Reachable
  <2>1. b \in BOOLEAN
    BY <1>2
  <2>2. session' = [session EXCEPT !.reached = FALSE, !.started = FALSE, !.wake = Deferred,
                                   !.issued = b]
    BY <1>4, Zenon DEF Defer
  <2> HIDE DEF b, Deferred
  <2>3. SessionTyped(session') /\ session'.kind = "charge" /\ session'.adjusted = session.adjusted
    BY <1>1, <1>2, <2>1, <2>2 DEF SessionTyped
  <2>4. override' = override \/ override' = SelfUse
    BY <1>4 DEF Defer
  <2> QED BY <2>3, <2>4, SelfUseTyped, ChargeStep
<1>5. CASE StartCharge
  <2> DEFINE power == calculate_charge_power(energy, session.target, net, remaining, FALSE)
  <2>1. power \in 0 .. MaxPower
    <3>1. energy \in Int
      BY <1>1
    <3> QED BY <1>1, <1>2, <3>1, PacedCharge, Zenon
  <2>2. /\ session' = [session EXCEPT !.reached = FALSE, !.started = TRUE, !.startedAt = now,
                                      !.startEnergy = energy, !.power = power, !.wake = Never]
        /\ ForceCharge(power)
    BY <1>5 DEF StartCharge
  <2> HIDE DEF power, Never
  <2>3. SessionTyped(session') /\ session'.kind = "charge" /\ session'.adjusted = session.adjusted
    BY <1>1, <1>2, <2>1, <2>2 DEF SessionTyped
  <2> QED BY <2>1, <2>2, <2>3, ForceCharged, ChargeStep
<1>6. CASE _adjust_charge_power
  <2> DEFINE behind == Behind(energy, session.target, session.startEnergy, now - session.startedAt,
                              Window - session.startedAt, MinPowerChange * remaining)
             power == IF session.full THEN MaxPower
                      ELSE calculate_charge_power(energy, session.target, net, remaining, behind)
             b == ~Reachable
  <2>1. power \in 0 .. MaxPower
    <3> HIDE DEF behind
    <3>1. calculate_charge_power(energy, session.target, net, remaining, behind) \in 0 .. MaxPower
      BY <1>1, <1>2, PacedCharge
    <3> QED BY <3>1, PacingAssumption
  <2>2. \/ session' = [session EXCEPT !.reached = FALSE] /\ override' = override
        \/ session' = [session EXCEPT !.reached = FALSE, !.power = power, !.issued = b]
           /\ ForceCharge(power)
    BY <1>6, Zenon DEF _adjust_charge_power
  <2>3. b \in BOOLEAN
    OBVIOUS
  <2> HIDE DEF power, b
  <2>4. CASE session' = [session EXCEPT !.reached = FALSE] /\ override' = override
    <3>1. SessionTyped(session') /\ session'.kind = "charge" /\ session'.adjusted = session.adjusted
      BY <1>1, <1>2, <2>4 DEF SessionTyped
    <3> QED BY <2>4, <3>1, ChargeStep
  <2>5. CASE session' = [session EXCEPT !.reached = FALSE, !.power = power, !.issued = b]
             /\ ForceCharge(power)
    <3>1. SessionTyped(session') /\ session'.kind = "charge" /\ session'.adjusted = session.adjusted
      BY <1>1, <1>2, <2>1, <2>3, <2>5 DEF SessionTyped
    <3> QED BY <2>1, <2>5, <3>1, ForceCharged, ChargeStep
  <2> QED BY <2>2, <2>4, <2>5
<1> QED BY <1>3, <1>4, <1>5, <1>6

-----------------------------------------------------------------------------
(* The ticks of a discharge.                                               *)

(* Whatever the tick does next, it looks at the peak and the feed-in.      *)
LEMMA Peaked ==
    ASSUME Typed
    PROVE  /\ peak \in Nat /\ Larger(AtLeast0(net), peak) = peak /\ Spent \in Int
           /\ SessionTyped(peaked) /\ peaked.peak = peak
           /\ peaked.kind = session.kind /\ peaked.started = session.started
           /\ peaked.suspended = session.suspended /\ peaked.full = session.full
           /\ peaked.adjusted = session.adjusted /\ peaked.low = session.low
           /\ SessionTyped(counted) /\ counted.peak = peak
           /\ counted.kind = session.kind /\ counted.started = session.started
           /\ counted.suspended = session.suspended /\ counted.full = session.full
           /\ counted.adjusted = session.adjusted /\ counted.low = session.low
<1>1. net \in Int /\ exported \in Nat /\ SessionTyped(session)
  BY DEF Typed
<1>2. session.peak \in Nat /\ session.baseline \in Nat \union {-1}
  BY <1>1 DEF SessionTyped
<1>3. peak \in Nat /\ Larger(AtLeast0(net), peak) = peak /\ Spent \in Int
  BY <1>1, <1>2 DEF peak, Larger, AtLeast0, Spent
<1> HIDE DEF peak
<1> DEFINE base == IF session.limit # NoLimit /\ peaked.baseline < 0 THEN exported
                   ELSE peaked.baseline
<1>4. /\ SessionTyped(peaked) /\ peaked.peak = peak /\ peaked.baseline = session.baseline
      /\ peaked.kind = session.kind /\ peaked.started = session.started
      /\ peaked.suspended = session.suspended /\ peaked.full = session.full
      /\ peaked.adjusted = session.adjusted /\ peaked.low = session.low
  BY <1>1, <1>3 DEF SessionTyped, peaked
<1> HIDE DEF peaked
<1>5. base \in Nat \union {-1} /\ counted = [peaked EXCEPT !.baseline = base]
  BY <1>1, <1>2, <1>4 DEF counted
<1> HIDE DEF base, counted
<1>6. /\ SessionTyped(counted) /\ counted.peak = peaked.peak
      /\ counted.kind = peaked.kind /\ counted.started = peaked.started
      /\ counted.suspended = peaked.suspended /\ counted.full = peaked.full
      /\ counted.adjusted = peaked.adjusted /\ counted.low = peaked.low
  BY <1>4, <1>5 DEF SessionTyped
<1> QED BY <1>3, <1>4, <1>6

(* What the algorithm gives for the peak of the tick.                      *)
LEMMA PacedPower ==
    ASSUME Typed, NEW feedin \in Int, NEW limited \in BOOLEAN
    PROVE  LET p == calculate_discharge_power(energy, net, peak, remaining, feedin, limited)
           IN  /\ p \in 0 .. MaxPower
               /\ energy > MinE /\ safety_floor_w(peak) <= MaxPower => safety_floor_w(peak) <= p
<1>1. energy \in Int /\ net \in Int /\ remaining \in Int
  BY LoopAssumption, Energies DEF Typed, remaining
<1>2. peak \in Nat /\ Larger(AtLeast0(net), peak) = peak
  BY Peaked
<1> HIDE DEF peak
<1>3. /\ calculate_discharge_power(energy, net, peak, remaining, feedin, limited) \in 0 .. MaxPower
      /\ energy > MinE /\ safety_floor_w(Larger(AtLeast0(net), peak)) <= MaxPower
           => safety_floor_w(Larger(AtLeast0(net), peak))
                <= calculate_discharge_power(energy, net, peak, remaining, feedin, limited)
  BY <1>1, <1>2, DischargeRange, Zenon
<1> QED BY <1>2, <1>3

LEMMA InvWaits == ASSUME Inv, Still, DeferDischarge PROVE Inv'
<1>1. Typed /\ session.kind = "discharge" /\ ~session.started /\ session' = peaked
      /\ override' = override
  BY DEF Inv, DeferDischarge, DischargeTick
<1>2. override \in OverrideType /\ override.mode # "ForceDischarge" /\ ~session.full
      /\ ~session.suspended
  BY <1>1 DEF Inv, Typed, ModeInv
<1>3. SessionTyped(session') /\ session'.kind = "discharge" /\ ~session'.full /\ ~session'.suspended
  BY <1>1, <1>2, Peaked
<1> QED BY <1>1, <1>2, <1>3, NothingForced

LEMMA InvStarts == ASSUME Inv, Still, _start_deferred_discharge PROVE Inv'
<1> DEFINE power == calculate_discharge_power(energy, net, peak, remaining, 0, FALSE)
<1>1. /\ Typed /\ session.kind = "discharge" /\ ~session.started /\ energy > MinE
      /\ session' = [peaked EXCEPT !.started = TRUE, !.power = power, !.adjusted = TRUE]
      /\ ForceDischarge(power)
  BY DEF Inv, _start_deferred_discharge, DischargeTick
<1>2. ~session.full /\ ~session.suspended
  BY <1>1 DEF Inv, ModeInv
<1>3. /\ power \in 0 .. MaxPower
      /\ safety_floor_w(peak) <= MaxPower => safety_floor_w(peak) <= power
  <2>1. 0 \in Int /\ FALSE \in BOOLEAN
    OBVIOUS
  <2> QED BY <1>1, <2>1, PacedPower, Zenon
<1>4. /\ SessionTyped(peaked) /\ peaked.peak = peak /\ peaked.kind = "discharge"
      /\ ~peaked.full /\ ~peaked.suspended /\ peak \in Nat
  BY <1>1, <1>2, Peaked
<1> HIDE DEF power, peaked, peak
<1>5. /\ SessionTyped(session') /\ session'.kind = peaked.kind /\ session'.peak = peaked.peak
      /\ session'.full = peaked.full /\ session'.suspended = peaked.suspended
      /\ session'.started = TRUE
  <2>1. session' = Begun(peaked, power)
    BY <1>1, Zenon DEF Begun
  <2> QED BY <1>3, <1>4, <2>1, BegunDict
<1>6. MinPowerChange \in Nat /\ MaxPower \in Nat /\ safety_floor_w(peak) \in Int
  BY <1>4, LoopAssumption, PacingAssumption DEF safety_floor_w
<1>7. safety_floor_w(session'.peak) <= MaxPower
        => power + Larger(MinPowerChange, 1) > safety_floor_w(session'.peak)
  BY <1>3, <1>4, <1>5, <1>6 DEF Larger
<1> QED BY <1>1, <1>3, <1>4, <1>5, <1>7, ForcedStep

LEMMA InvEnds == ASSUME Inv, Still, EndSession PROVE Inv'
<1>1. session' = Over /\ override' = SelfUse
  BY DEF EndSession
<1>2. SessionTyped(session') /\ session'.kind = "over"
  BY <1>1, NoSessionTyped
<1>3. override' \in OverrideType /\ override'.mode = "SelfUse"
  BY <1>1, SelfUseTyped
<1> QED BY <1>2, <1>3, NothingForced

(* Above its floor only a discharge that has started comes to the rest of  *)
(* the tick.                                                               *)
LEMMA PastStarted ==
    ASSUME Typed, Past, energy > MinE PROVE session.kind = "discharge" /\ session.started
<1>1. energy \in Int /\ MinE \in Int
  BY Energies DEF Typed
<1> QED BY <1>1 DEF Past, DischargeTick

LEMMA InvSuspend == ASSUME Inv, Still, Suspend PROVE Inv'
<1>1. /\ Typed /\ session.kind = "discharge" /\ session.started
      /\ session' = [counted EXCEPT !.suspended = TRUE]
      /\ override' = IF session.suspended THEN override ELSE SelfUse
  <2>1. Typed /\ Past /\ energy > MinE
    BY Zenon DEF Inv, Suspend, Paced
  <2> QED BY <2>1, PastStarted, Zenon DEF Suspend
<1>2. SessionTyped(counted) /\ counted.kind = "discharge" /\ counted.started = session.started
  BY <1>1, Peaked
<1> HIDE DEF counted
<1>3. SessionTyped(session') /\ session'.kind = "discharge" /\ session'.started
  BY <1>1, <1>2 DEF SessionTyped
<1>4. override' \in OverrideType /\ override'.mode # "ForceDischarge"
  BY <1>1, SelfUseTyped DEF Inv, Typed, ModeInv
<1> QED BY <1>3, <1>4, NothingForced

LEMMA InvApplies == ASSUME Inv, Still, _apply_discharge_power PROVE Inv'
<1> DEFINE feedin == session.limit # NoLimit
           new == calculate_discharge_power(energy, net, peak, remaining,
                                            session.limit - Spent, feedin)
           d == [counted EXCEPT !.suspended = FALSE, !.low = 0, !.adjusted = TRUE]
           update == \/ Distance(new, session.power) >= MinPowerChange
                     \/ new = MaxPower
                     \/ session.suspended
           power == IF update THEN new ELSE session.power
<1>1. /\ Typed /\ session.kind = "discharge" /\ session.started /\ ~session.full /\ energy > MinE
      /\ \/ session' = [d EXCEPT !.power = 0] /\ override' = SelfUse
         \/ session' = [d EXCEPT !.power = power] /\ ForceDischarge(power)
  <2>1. Adjusted(new, feedin) /\ Paced /\ ~session.full /\ energy > MinE
    BY Zenon DEF _apply_discharge_power
  <2>2. \/ session' = [d EXCEPT !.power = 0] /\ override' = SelfUse
        \/ session' = [d EXCEPT !.power = power] /\ ForceDischarge(power)
    BY <2>1, Zenon DEF Adjusted
  <2>3. Typed /\ session.kind = "discharge" /\ session.started
    BY <2>1, PastStarted, Zenon DEF Inv, Paced
  <2> QED BY <2>1, <2>2, <2>3
<1>2. session.limit - Spent \in Int /\ session.power \in 0 .. MaxPower
  <2>1. session.limit \in Nat /\ session.power \in 0 .. MaxPower
    BY <1>1 DEF Typed, SessionTyped
  <2> QED BY <1>1, <2>1, Peaked
<1>3. /\ new \in 0 .. MaxPower
      /\ safety_floor_w(peak) <= MaxPower => safety_floor_w(peak) <= new
  BY <1>1, <1>2, PacedPower
<1>4. /\ SessionTyped(counted) /\ counted.peak = peak /\ counted.kind = "discharge"
      /\ counted.full = session.full /\ counted.started = session.started /\ peak \in Nat
  BY <1>1, Peaked
<1>5. MinPowerChange \in Nat /\ MaxPower \in Nat /\ safety_floor_w(peak) \in Int
  BY <1>4, LoopAssumption, PacingAssumption DEF safety_floor_w
<1> HIDE DEF new, counted, peak
<1>6. /\ power \in 0 .. MaxPower
      /\ safety_floor_w(peak) <= MaxPower
           => power + Larger(MinPowerChange, 1) > safety_floor_w(peak)
  BY <1>2, <1>3, <1>5 DEF Larger, Distance
<1> HIDE DEF power
<1>7. ASSUME NEW p \in 0 .. MaxPower, session' = [d EXCEPT !.power = p]
      PROVE  /\ SessionTyped(session') /\ session'.kind = "discharge" /\ session'.peak = peak
             /\ ~session'.full /\ session'.started /\ ~session'.suspended
  <2>1. /\ SessionTyped(session') /\ session'.kind = counted.kind /\ session'.peak = counted.peak
        /\ session'.full = counted.full /\ session'.started = counted.started
        /\ session'.suspended = FALSE
    <3>1. session' = WithPower(Resumed(counted), p)
      BY <1>7, Zenon DEF WithPower, Resumed
    <3>2. /\ SessionTyped(Resumed(counted)) /\ Resumed(counted).kind = counted.kind
          /\ Resumed(counted).peak = counted.peak /\ Resumed(counted).full = counted.full
          /\ Resumed(counted).started = counted.started /\ Resumed(counted).suspended = FALSE
      BY <1>4, ResumedDict
    <3> QED BY <1>7, <3>1, <3>2, PowerDict
  <2> QED BY <1>1, <1>4, <2>1
<1>8. CASE session' = [d EXCEPT !.power = 0] /\ override' = SelfUse
  <2>1. 0 \in 0 .. MaxPower
    BY <1>5
  <2>2. SessionTyped(session') /\ session'.kind = "discharge" /\ session'.started
    BY <1>7, <1>8, <2>1
  <2> QED BY <1>8, <2>2, SelfUseTyped, NothingForced
<1>9. CASE session' = [d EXCEPT !.power = power] /\ ForceDischarge(power)
  <2>1. /\ SessionTyped(session') /\ session'.kind = "discharge" /\ session'.peak = peak
        /\ ~session'.full /\ session'.started /\ ~session'.suspended
    BY <1>6, <1>7, <1>9
  <2> QED BY <1>1, <1>6, <1>9, <2>1, ForcedStep
<1> QED BY <1>1, <1>8, <1>9

LEMMA InvUnpaced == ASSUME Inv, Still, Unpaced PROVE Inv'
<1>1. /\ Typed /\ Past /\ energy > MinE /\ session.full /\ override' = override
      /\ session' = [counted EXCEPT !.low = 0]
  BY Zenon DEF Inv, Unpaced, Paced
<1>2. session.kind = "discharge" /\ session.started
  BY <1>1, PastStarted
<1>3. /\ SessionTyped(counted) /\ counted.kind = session.kind /\ counted.started = session.started
      /\ counted.suspended = session.suspended /\ counted.full = session.full
      /\ counted.adjusted = session.adjusted /\ counted.peak = peak /\ peak \in Nat
  BY <1>1, Peaked
<1> HIDE DEF counted, peak
<1>4. /\ SessionTyped(session') /\ session'.kind = counted.kind
      /\ session'.started = counted.started /\ session'.suspended = counted.suspended
      /\ session'.full = counted.full /\ session'.adjusted = counted.adjusted
      /\ session'.peak = counted.peak
  <2>1. 0 \in 0 .. 1
    OBVIOUS
  <2> QED BY <1>1, <1>3, <2>1, LowDict
<1>5. /\ MaxPower \in Nat /\ MinPowerChange \in Nat /\ safety_floor_w(peak) \in Int
      /\ override.power \in Nat
  BY <1>1, <1>3, LoopAssumption, PacingAssumption DEF safety_floor_w, Typed, OverrideType
<1>6. Typed'
  BY <1>1, <1>4 DEF Typed, Still
<1>7. ModeInv(session, override)'
  BY <1>1, <1>2, <1>3, <1>4 DEF Inv, ModeInv
<1>8. override.mode = "ForceDischarge" => override.power = MaxPower
  BY <1>1, <1>2 DEF Inv, ModeInv
<1>9. FloorInv(session, override, energy)'
  <2>1. safety_floor_w(peak) <= MaxPower /\ override.power = MaxPower
          => override.power + Larger(MinPowerChange, 1) > safety_floor_w(peak)
    BY <1>5 DEF Larger
  <2> QED BY <1>1, <1>3, <1>4, <1>8, <2>1 DEF FloorInv
<1>10. HorizonInv(session, override, energy, now)'
  BY <1>1, <1>3, <1>4 DEF Inv, HorizonInv, Still
<1> QED BY <1>6, <1>7, <1>9, <1>10 DEF Inv

LEMMA InvAtFloor == ASSUME Inv, Still, AtFloor PROVE Inv'
<1>1. /\ Typed /\ session.kind = "discharge" /\ override' = SelfUse
      /\ session' = IF session.low + 1 < 2 THEN [counted EXCEPT !.low = @ + 1] ELSE Over
  BY Zenon DEF Inv, AtFloor, Paced, Past, DischargeTick
<1>2. /\ SessionTyped(counted) /\ counted.kind = "discharge" /\ counted.low = session.low
      /\ counted.started = session.started /\ counted.full = session.full
      /\ counted.suspended = session.suspended
  BY <1>1, Peaked
<1>3. override' \in OverrideType /\ override'.mode = "SelfUse"
  BY <1>1, SelfUseTyped
<1>4. ~session.started => ~session.full /\ ~session.suspended
  BY <1>1 DEF Inv, ModeInv
<1>5. session.low \in 0 .. 1
  BY <1>1 DEF Typed, SessionTyped
<1> HIDE DEF counted
<1>6. CASE session.low + 1 < 2
  <2>1. session.low + 1 \in 0 .. 1 /\ session' = [counted EXCEPT !.low = session.low + 1]
    BY <1>1, <1>2, <1>5, <1>6
  <2>2. /\ SessionTyped(session') /\ session'.kind = "discharge"
        /\ session'.started = counted.started /\ session'.full = counted.full
        /\ session'.suspended = counted.suspended
    BY <1>2, <2>1 DEF SessionTyped
  <2> QED BY <1>2, <1>3, <1>4, <2>2, NothingForced
<1>7. CASE ~(session.low + 1 < 2)
  <2>1. SessionTyped(session') /\ session'.kind = "over"
    BY <1>1, <1>7, NoSessionTyped
  <2> QED BY <1>3, <2>1, NothingForced
<1> QED BY <1>6, <1>7

LEMMA InvTick == ASSUME Inv, Tick PROVE Inv'
<1>1. Still
  BY DEF Tick, Still
<1>2. ASSUME FeedinLimitReached \/ WindowEnds PROVE EndSession
  BY <1>2, Zenon DEF FeedinLimitReached, WindowEnds
<1> QED BY <1>1, <1>2, InvCharges, InvWaits, InvStarts, InvEnds, InvSuspend, InvApplies, InvUnpaced,
           InvAtFloor, Zenon DEF Tick

-----------------------------------------------------------------------------
(* The services.                                                           *)
ServiceStill == UNCHANGED <<now, net, exported, exportLimit>>

LEMMA ServiceDischarged ==
    ASSUME NEW power \in 0 .. MaxPower, ServiceDischarge(power)
    PROVE  /\ override' \in OverrideType /\ override'.mode = "ForceDischarge"
           /\ override'.power = power /\ override'.end = Window
  BY LoopAssumption DEF ServiceDischarge, OverrideType

LEMMA Idle ==
    ASSUME Inv, session = NoSession PROVE override \in OverrideType /\ override.mode = "SelfUse"
  BY NoSessionTyped DEF Inv, Typed, ModeInv

(* A session of the services, which no tick has adjusted.                  *)
LEMMA ServiceStep ==
    ASSUME Inv, ServiceStill, energy' \in 0 .. Capacity, SessionTyped(session'),
           ~session'.adjusted, override' \in OverrideType,
           ModeInv(session, override)', FloorInv(session, override, energy)'
    PROVE  Inv'
<1>1. Typed'
  BY DEF Inv, Typed, ServiceStill
<1> QED BY <1>1 DEF Inv, HorizonInv

LEMMA ServiceCharges ==
    ASSUME Inv, ServiceStill, energy' \in 0 .. Capacity, SessionTyped(session'),
           ~session'.adjusted, override' \in OverrideType, override'.mode # "ForceDischarge",
           session'.kind = "charge"
    PROVE  Inv'
  BY ServiceStep DEF ModeInv, FloorInv

LEMMA InvSmartCharge ==
    ASSUME Inv, NEW soc \in ChargeSocs, NEW target \in Targets, _do_smart_charge(soc, target)
    PROVE  Inv'
<1> DEFINE e == soc * soc_energy
           new == [NoSession EXCEPT !.kind = "charge", !.target = target]
           power == calculate_charge_power(e, target, net, remaining, FALSE)
           begun == [new EXCEPT !.started = TRUE, !.startedAt = now,
                                !.startEnergy = e, !.power = power]
<1>1. /\ Typed /\ session = NoSession /\ energy' = e /\ ServiceStill
      /\ \/ session' = new /\ override' = override
         \/ session' = begun /\ ForceCharge(power)
  BY Zenon DEF Inv, _do_smart_charge, ServiceStill
<1>2. e \in 0 .. Capacity /\ target \in Buckets
  BY LoopAssumption, SocEnergy
<1>3. net \in Int /\ remaining \in Int /\ now \in 0 .. Window /\ Capacity \in Nat
  BY <1>1, LoopAssumption, Energies DEF Typed, remaining
<1> HIDE DEF e
<1>4. power \in 0 .. MaxPower
  <2>1. e \in Int
    BY <1>2, <1>3
  <2> QED BY <1>2, <1>3, <2>1, PacedCharge, Zenon
<1> HIDE DEF power
<1>5. SessionTyped(new) /\ new.kind = "charge" /\ ~new.adjusted
  <2> HIDE DEF NoSession
  <2> QED BY <1>2, NoSessionTyped DEF SessionTyped
<1> HIDE DEF new
<1>6. SessionTyped(begun) /\ begun.kind = "charge" /\ ~begun.adjusted
  BY <1>2, <1>3, <1>4, <1>5 DEF SessionTyped
<1> HIDE DEF begun
<1>7. CASE session' = new /\ override' = override
  BY <1>1, <1>2, <1>5, <1>7, Idle, ServiceCharges
<1>8. CASE session' = begun /\ ForceCharge(power)
  BY <1>1, <1>2, <1>4, <1>6, <1>8, ForceCharged, ServiceCharges
<1> QED BY <1>1, <1>7, <1>8

LEMMA InvForceCharge ==
    ASSUME Inv, NEW soc \in ChargeSocs, handle_force_charge(soc) PROVE Inv'
<1> DEFINE e == soc * soc_energy
           begun == [NoSession EXCEPT !.kind = "charge", !.target = 100, !.full = TRUE,
                       !.started = TRUE, !.startedAt = now, !.startEnergy = e, !.power = MaxPower]
<1>1. Typed /\ energy' = e /\ ServiceStill /\ session' = begun /\ ForceCharge(MaxPower)
  BY Zenon DEF Inv, handle_force_charge, ServiceStill
<1>2. e \in 0 .. Capacity
  BY LoopAssumption, SocEnergy
<1>3. MaxPower \in 0 .. MaxPower /\ now \in 0 .. Window /\ 100 \in Buckets
  BY <1>1, PacingAssumption DEF Typed, Buckets
<1> HIDE DEF e
<1>4. SessionTyped(begun) /\ begun.kind = "charge" /\ ~begun.adjusted
  <2> HIDE DEF NoSession, Buckets
  <2> QED BY <1>2, <1>3, NoSessionTyped DEF SessionTyped
<1> HIDE DEF begun
<1> QED BY <1>1, <1>2, <1>3, <1>4, ForceCharged, ServiceCharges

LEMMA InvSmartDischarge ==
    ASSUME Inv, NEW soc \in DischargeSocs, NEW limit \in FeedinLimits,
           _do_smart_discharge(soc, limit)
    PROVE  Inv'
<1> DEFINE e == soc * soc_energy
           new == [NoSession EXCEPT !.kind = "discharge", !.peak = AtLeast0(net), !.limit = limit]
           limited == limit # NoLimit
           paced == calculate_discharge_power(e, net, 0, remaining, limit, limited)
           power == IF exportLimit = 0 THEN paced ELSE MaxPower
           begun == [new EXCEPT !.started = TRUE, !.power = power]
           floor == safety_floor_w(AtLeast0(net))
<1>1. /\ Typed /\ session = NoSession /\ energy' = e /\ ServiceStill
      /\ \/ session' = new /\ override' = override
         \/ session' = begun /\ ServiceDischarge(power)
  BY Zenon DEF Inv, _do_smart_discharge, ServiceStill
<1>2. e \in 0 .. Capacity /\ limit \in Nat /\ limit \in Int /\ Capacity \in Nat /\ MinE \in Nat
  BY LoopAssumption, SocEnergy, Energies
<1>3. /\ net \in Int /\ remaining \in Int /\ AtLeast0(net) \in Nat
      /\ Larger(AtLeast0(net), 0) = AtLeast0(net)
  BY <1>1, LoopAssumption DEF Typed, remaining, AtLeast0, Larger
<1>4. MaxPower \in Nat /\ MinPowerChange \in Nat /\ floor \in Int
  BY <1>3, LoopAssumption, PacingAssumption DEF safety_floor_w
<1> HIDE DEF e, floor
<1>5. paced \in 0 .. MaxPower /\ (e > MinE /\ floor <= MaxPower => floor <= paced)
  <2>1. e \in Int /\ 0 \in Nat /\ limited \in BOOLEAN
    BY <1>2
  <2> HIDE DEF limited
  <2>2. /\ calculate_discharge_power(e, net, 0, remaining, limit, limited) \in 0 .. MaxPower
        /\ e > MinE /\ safety_floor_w(Larger(AtLeast0(net), 0)) <= MaxPower
             => safety_floor_w(Larger(AtLeast0(net), 0))
                  <= calculate_discharge_power(e, net, 0, remaining, limit, limited)
    BY <1>2, <1>3, <2>1, DischargeRange, Zenon
  <2> QED BY <1>3, <2>2 DEF floor
<1> HIDE DEF paced
<1>6. power \in 0 .. MaxPower /\ (e > MinE /\ floor <= MaxPower => floor <= power)
  BY <1>4, <1>5
<1> HIDE DEF power
<1>7. /\ SessionTyped(new) /\ new.kind = "discharge" /\ new.adjusted = FALSE
      /\ new.suspended = FALSE /\ new.full = FALSE /\ new.peak = AtLeast0(net)
  <2> HIDE DEF NoSession
  <2> QED BY <1>2, <1>3, NoSessionTyped DEF SessionTyped
<1> HIDE DEF new
<1>8. /\ SessionTyped(begun) /\ begun.kind = "discharge" /\ begun.adjusted = FALSE
      /\ begun.suspended = FALSE /\ begun.full = FALSE /\ begun.peak = AtLeast0(net)
      /\ begun.started = TRUE
  BY <1>6, <1>7 DEF SessionTyped
<1> HIDE DEF begun
<1>9. CASE session' = new /\ override' = override
  <2>1. override' \in OverrideType /\ override'.mode = "SelfUse"
    BY <1>1, <1>9, Idle
  <2>2. ModeInv(session, override)' /\ FloorInv(session, override, energy)'
    BY <1>7, <1>9, <2>1 DEF ModeInv, FloorInv
  <2> QED BY <1>1, <1>2, <1>7, <1>9, <2>1, <2>2, ServiceStep
<1>10. CASE session' = begun /\ ServiceDischarge(power)
  <2>1. /\ override' \in OverrideType /\ override'.mode = "ForceDischarge"
        /\ override'.power = power /\ override'.end = Window
    BY <1>6, <1>10, ServiceDischarged
  <2>2. ModeInv(session, override)'
    BY <1>8, <1>10, <2>1 DEF ModeInv
  <2>3. floor <= MaxPower => power + Larger(MinPowerChange, 1) > floor \/ e <= MinE
    BY <1>2, <1>4, <1>6 DEF Larger
  <2>4. FloorInv(session, override, energy)'
    BY <1>1, <1>8, <1>10, <2>1, <2>3 DEF FloorInv, floor
  <2> QED BY <1>1, <1>2, <1>8, <1>10, <2>1, <2>2, <2>4, ServiceStep
<1> QED BY <1>1, <1>9, <1>10

LEMMA InvForceDischarge ==
    ASSUME Inv, NEW soc \in DischargeSocs, handle_force_discharge(soc) PROVE Inv'
<1> DEFINE e == soc * soc_energy
           begun == [NoSession EXCEPT !.kind = "discharge", !.full = TRUE, !.started = TRUE,
                                      !.power = MaxPower, !.peak = AtLeast0(net)]
<1>1. Typed /\ energy' = e /\ ServiceStill /\ session' = begun /\ ServiceDischarge(MaxPower)
  BY Zenon DEF Inv, handle_force_discharge, ServiceStill
<1>2. e \in 0 .. Capacity
  BY LoopAssumption, SocEnergy
<1>3. MaxPower \in Nat /\ MaxPower \in 0 .. MaxPower /\ MinPowerChange \in Nat /\ AtLeast0(net) \in Nat
  BY <1>1, LoopAssumption, PacingAssumption DEF Typed, AtLeast0
<1> HIDE DEF e
<1>4. /\ SessionTyped(begun) /\ begun.kind = "discharge" /\ begun.adjusted = FALSE
      /\ begun.started = TRUE /\ begun.suspended = FALSE /\ begun.peak = AtLeast0(net)
  <2> HIDE DEF NoSession
  <2> QED BY <1>3, NoSessionTyped DEF SessionTyped
<1> HIDE DEF begun
<1>5. /\ override' \in OverrideType /\ override'.mode = "ForceDischarge"
      /\ override'.power = MaxPower /\ override'.end = Window
  BY <1>1, <1>3, ServiceDischarged
<1>6. ModeInv(session, override)'
  BY <1>1, <1>4, <1>5 DEF ModeInv
<1>7. FloorInv(session, override, energy)'
  <2>1. session'.peak \in Nat
    BY <1>1, <1>3, <1>4
  <2>2. safety_floor_w(session'.peak) \in Int
    BY <2>1 DEF safety_floor_w
  <2> QED BY <1>3, <1>5, <2>2 DEF FloorInv, Larger
<1> QED BY <1>1, <1>2, <1>4, <1>5, <1>6, <1>7, ServiceStep

-----------------------------------------------------------------------------
LEMMA InvWorld == ASSUME Inv, DrawChanges \/ Dies \/ UNCHANGED vars PROVE Inv'
<1>1. UNCHANGED <<now, energy, override, session, exported, exportLimit>>
  BY DEF DrawChanges, Dies, vars
<1>2. net' \in Int
  BY LoopAssumption DEF DrawChanges, Dies, vars, Inv, Typed
<1>3. SessionTyped(session)'
  BY <1>1 DEF Inv, Typed, SessionTyped
<1>4. Typed'
  BY <1>1, <1>2, <1>3 DEF Inv, Typed
<1> QED BY <1>1, <1>4 DEF Inv, ModeInv, FloorInv, HorizonInv

THEOREM InvInductive == Inv /\ [Next]_vars => Inv'
<1> SUFFICES ASSUME Inv, [Next]_vars PROVE Inv'
  OBVIOUS
<1>1. ASSUME NEW soc \in ChargeSocs, NEW target \in Targets, _do_smart_charge(soc, target)
      PROVE  Inv'
  BY <1>1, InvSmartCharge
<1>2. ASSUME NEW soc \in ChargeSocs, handle_force_charge(soc) PROVE Inv'
  BY <1>2, InvForceCharge
<1>3. ASSUME NEW soc \in DischargeSocs, NEW limit \in FeedinLimits,
             _do_smart_discharge(soc, limit)
      PROVE  Inv'
  BY <1>3, InvSmartDischarge
<1>4. ASSUME NEW soc \in DischargeSocs, handle_force_discharge(soc) PROVE Inv'
  BY <1>4, InvForceDischarge
<1>5. ASSUME Tick \/ Minute \/ DrawChanges \/ Dies \/ UNCHANGED vars PROVE Inv'
  BY <1>5, InvTick, InvMinute, InvWorld
<1> QED BY <1>1, <1>2, <1>3, <1>4, <1>5 DEF Next

(* C-001: while a discharge is forced and the battery serves the house, the *)
(* inverter's power is within the dead band of the safety floor             *)
(* (algorithms.py, calculate_discharge_power; listeners.py, the discharge   *)
(* listener's tick), whatever the draws, the peaks and the changes skipped. *)
THEOREM FloorHeld == Spec => []FloorWithinBand
<1>1. Inv => FloorWithinBand
  <2> SUFFICES ASSUME Inv, energy > MinE, energy <= MinE PROVE FALSE
    BY DEF Inv, FloorInv, FloorWithinBand
  <2> QED BY Energies DEF Inv, Typed
<1> QED BY <1>1, InvInit, InvInductive, PTL DEF Spec

(* C-001, C-027: what the discharge listener applied last ends before the   *)
(* battery is at its floor (algorithms.py, compute_safe_schedule_end),      *)
(* whether Home Assistant goes on or dies.                                  *)
THEOREM HorizonEnds == Spec => []HorizonProtects
<1>1. Inv => HorizonProtects
  BY DEF Inv, HorizonInv, HorizonProtects, InForce
<1> QED BY <1>1, InvInit, InvInductive, PTL DEF Spec

-----------------------------------------------------------------------------
(* Least elements. What the folds and the forecast define by recursion is  *)
(* reached from the least input it could be wrong for: the library's       *)
(* theorem of well-founded sets takes no operator, as its theorems of      *)
(* induction do.                                                           *)
(* A set of naturals that is not empty has a least element.                *)
LEMMA Least ==
    ASSUME NEW T, T \subseteq Nat, T # {}
    PROVE  \E n \in T : \A m \in T : n <= m
<1>1. IsWellFoundedOn(OpToRel(<, Nat), Nat)
  BY NatLessThanWellFounded, Zenon
<1>2. PICK n \in T : \A m \in T : ~(<<m, n>> \in OpToRel(<, Nat))
  BY <1>1, WFMin, Zenon
<1>3. ASSUME NEW m \in T PROVE n <= m
  <2>1. m \in Nat /\ n \in Nat
    OBVIOUS
  <2>2. ~(m < n)
    BY <1>2, <2>1, Zenon DEF OpToRel
  <2> QED BY <2>1, <2>2
<1> QED BY <1>3

LEMMA LeastBy ==
    ASSUME NEW S, S # {}, NEW val, \A k \in S : val[k] \in Nat
    PROVE  \E k \in S : \A j \in S : val[k] <= val[j]
<1> DEFINE T == {val[k] : k \in S}
<1>1. T \subseteq Nat /\ T # {}
  OBVIOUS
<1>2. PICK n \in T : \A m \in T : n <= m
  BY <1>1, Least
<1>3. PICK k \in S : n = val[k]
  OBVIOUS
<1> QED BY <1>2, <1>3

(* Sums over a finite set, as the folds of the library have them.          *)
Pick(s) == CHOOSE x \in s : TRUE
Summing(w, h, D) ==
  h = [s \in D |-> IF s = {} THEN 0 ELSE w[Pick(s)] + h[s \ {Pick(s)}]]
Small(S, n) == {s \in SUBSET S : Cardinality(s) <= n}

LEMMA Removing ==
    ASSUME NEW S, IsFiniteSet(S), NEW s \in SUBSET S, s # {}
    PROVE  /\ Pick(s) \in S /\ Pick(s) \in s /\ s \ {Pick(s)} \in SUBSET S
           /\ Cardinality(s) \in Nat /\ Cardinality(s) > 0
           /\ Cardinality(s \ {Pick(s)}) = Cardinality(s) - 1
<1>1. Pick(s) \in s
  BY DEF Pick
<1>2. IsFiniteSet(s)
  BY FS_Subset
<1>3. Cardinality(s) \in Nat /\ Cardinality(s) # 0
  BY <1>2, FS_CardinalityType, FS_EmptySet
<1> HIDE DEF Pick
<1>4. Cardinality(s \ {Pick(s)}) = Cardinality(s) - 1
  BY <1>1, <1>2, FS_RemoveElement
<1> QED BY <1>1, <1>3, <1>4

(* The function the fold is defined by exists: the sets too large for it   *)
(* have a least size.                                                      *)
LEMMA SumExists ==
    ASSUME NEW S, IsFiniteSet(S), NEW w
    PROVE  \E h : Summing(w, h, SUBSET S)
<1> DEFINE T == {n \in Nat : ~ \E h : Summing(w, h, Small(S, n))}
<1>1. T = {}
  <2> SUFFICES ASSUME T # {} PROVE FALSE
    OBVIOUS
  <2>1. PICK n \in T : \A m \in T : n <= m
    BY Least
  <2>2. n \in Nat /\ \A h : ~Summing(w, h, Small(S, n))
    OBVIOUS
  <2>3. CASE n = 0
    <3> DEFINE h == [s \in Small(S, n) |-> 0]
    <3>1. \A s \in Small(S, n) : s = {}
      <4> TAKE s \in Small(S, n)
      <4> SUFFICES ASSUME s # {} PROVE FALSE
        OBVIOUS
      <4>1. s \in SUBSET S /\ Cardinality(s) <= 0
        BY <2>3 DEF Small
      <4>2. Cardinality(s) \in Nat /\ Cardinality(s) > 0
        BY <4>1, Removing, Zenon
      <4> QED BY <4>1, <4>2
    <3>2. h = [s \in Small(S, n) |-> IF s = {} THEN 0 ELSE w[Pick(s)] + h[s \ {Pick(s)}]]
      <4>1. ASSUME NEW s \in Small(S, n)
            PROVE  0 = IF s = {} THEN 0 ELSE w[Pick(s)] + h[s \ {Pick(s)}]
        BY <3>1
      <4> QED BY <4>1, Zenon
    <3> QED BY <2>2, <3>2 DEF Summing
  <2>4. CASE n > 0
    <3>1. n - 1 \in Nat /\ n - 1 \notin T
      BY <2>1, <2>2, <2>4
    <3>2. PICK g : Summing(w, g, Small(S, n - 1))
      BY <3>1
    <3> DEFINE h == [s \in Small(S, n) |-> IF s = {} THEN 0 ELSE w[Pick(s)] + g[s \ {Pick(s)}]]
    <3>3. ASSUME NEW s \in Small(S, n), s # {}
          PROVE  h[s \ {Pick(s)}] = g[s \ {Pick(s)}]
      <4> DEFINE r == s \ {Pick(s)}
      <4>1. s \in SUBSET S /\ Cardinality(s) <= n
        BY DEF Small
      <4>2. r \in SUBSET S /\ Cardinality(r) = Cardinality(s) - 1 /\ Cardinality(s) \in Nat
        BY <3>3, <4>1, Removing
      <4> HIDE DEF r
      <4>3. r \in Small(S, n - 1) /\ r \in Small(S, n)
        BY <2>2, <4>1, <4>2 DEF Small
      <4>4. g[r] = IF r = {} THEN 0 ELSE w[Pick(r)] + g[r \ {Pick(r)}]
        BY <3>2, <4>3, Zenon DEF Summing
      <4> QED BY <4>3, <4>4, Zenon DEF r
    <3>4. h = [s \in Small(S, n) |-> IF s = {} THEN 0 ELSE w[Pick(s)] + h[s \ {Pick(s)}]]
      <4>1. ASSUME NEW s \in Small(S, n)
            PROVE  (IF s = {} THEN 0 ELSE w[Pick(s)] + g[s \ {Pick(s)}])
                     = IF s = {} THEN 0 ELSE w[Pick(s)] + h[s \ {Pick(s)}]
        <5> HIDE DEF h
        <5> QED BY <3>3, Zenon
      <4> QED BY <4>1, Zenon
    <3> QED BY <2>2, <3>4, Zenon DEF Summing
  <2> QED BY <2>2, <2>3, <2>4
<1>2. Cardinality(S) \in Nat /\ Small(S, Cardinality(S)) = SUBSET S
  <2>1. Cardinality(S) \in Nat
    BY FS_CardinalityType
  <2>2. \A s \in SUBSET S : Cardinality(s) <= Cardinality(S)
    BY FS_Subset
  <2> QED BY <2>1, <2>2 DEF Small
<1>3. Cardinality(S) \notin T
  BY <1>1
<1> QED BY <1>2, <1>3

Ordered(S, c, w, v) ==
  \A k \in S : w[k] \in Nat /\ v[k] \in Nat /\ c <= w[k] /\ w[k] <= v[k]

(* Weights that are ordered have sums that are, none less than the least   *)
(* weight times as many.                                                   *)
LEMMA Sums ==
    ASSUME NEW S, IsFiniteSet(S), NEW w, NEW g, Summing(w, g, SUBSET S),
           NEW v, NEW h, Summing(v, h, SUBSET S), NEW c \in Nat,
           Ordered(S, c, w, v),
           NEW s \in SUBSET S
    PROVE  g[s] \in Nat /\ h[s] \in Nat /\ c * Cardinality(s) <= g[s] /\ g[s] <= h[s]
<1> DEFINE P(r) == g[r] \in Nat /\ h[r] \in Nat /\ c * Cardinality(r) <= g[r] /\ g[r] <= h[r]
           T == {n \in Nat : \E r \in SUBSET S : Cardinality(r) = n /\ ~P(r)}
<1>1. T = {}
  <2> SUFFICES ASSUME T # {} PROVE FALSE
    OBVIOUS
  <2>1. PICK n \in T : \A m \in T : n <= m
    BY Least
  <2>2. PICK r \in SUBSET S : Cardinality(r) = n /\ ~P(r)
    OBVIOUS
  <2>3. CASE r = {}
    <3>1. g[r] = 0 /\ h[r] = 0
      BY <2>3, Zenon DEF Summing
    <3>2. Cardinality(r) = 0
      BY <2>3, FS_EmptySet
    <3> QED BY <2>2, <3>1, <3>2
  <2>4. CASE r # {}
    <3> DEFINE x == Pick(r)
               q == r \ {x}
    <3>1. x \in S /\ q \in SUBSET S /\ Cardinality(r) \in Nat /\ Cardinality(r) > 0
          /\ Cardinality(q) = Cardinality(r) - 1
      BY <2>4, Removing
    <3>2. g[r] = w[x] + g[q] /\ h[r] = v[x] + h[q]
      <4>1. g[r] = w[x] + g[q]
        BY <2>4, Zenon DEF Summing
      <4>2. h[r] = v[x] + h[q]
        BY <2>4, Zenon DEF Summing
      <4> QED BY <4>1, <4>2
    <3> HIDE DEF x, q
    <3>3. Cardinality(q) \in Nat /\ Cardinality(q) \notin T
      BY <2>1, <2>2, <3>1
    <3>4. P(q)
      BY <3>1, <3>3
    <3>5. w[x] \in Nat /\ v[x] \in Nat /\ c <= w[x] /\ w[x] <= v[x]
      BY <3>1 DEF Ordered
    <3> DEFINE a == Cardinality(q)
    <3>6. a \in Nat /\ c * (a + 1) = c * a + c /\ Cardinality(r) = a + 1
      BY <3>1, <3>3
    <3>7. c * a \in Nat
      BY <3>6
    <3> HIDE DEF a, P
    <3>8. g[q] \in Nat /\ h[q] \in Nat /\ c * a <= g[q] /\ g[q] <= h[q]
      BY <3>4 DEF P, a
    <3>9. P(r)
      BY <3>2, <3>5, <3>6, <3>7, <3>8 DEF P
    <3> QED BY <2>2, <3>9
  <2> QED BY <2>3, <2>4
<1>2. Cardinality(s) \in Nat
  BY FS_Subset, FS_CardinalityType
<1> QED BY <1>1, <1>2

Ceiling(a, b) == -((-a) \div b)

(* A quotient rounded up, and the order of two.                            *)
LEMMA CeilingOrder ==
    ASSUME NEW a \in Nat, NEW b \in Nat, NEW d \in Nat, 0 < b, b <= d
    PROVE  /\ Ceiling(a, b) \in Nat /\ a <= Ceiling(a, b) * b
           /\ Ceiling(a, d) \in Nat /\ Ceiling(a, d) <= Ceiling(a, b)
<1> DEFINE m == Ceiling(a, b)
           n == Ceiling(a, d)
<1>1. \A x, y \in Nat : y > 0 =>
        /\ Ceiling(x, y) \in Int /\ y * Ceiling(x, y) >= x /\ y * (Ceiling(x, y) - 1) < x
  <2> SUFFICES ASSUME NEW x \in Nat, NEW y \in Nat, y > 0
               PROVE /\ Ceiling(x, y) \in Int /\ y * Ceiling(x, y) >= x
                     /\ y * (Ceiling(x, y) - 1) < x
    OBVIOUS
  <2> DEFINE r == (-x) \div y
  <2>1. r \in Int /\ y * r <= -x /\ -x < y * r + y
    OBVIOUS
  <2> HIDE DEF r
  <2>2. y * (-r) = -(y * r) /\ y * (-r - 1) = -(y * r) - y
    BY <2>1
  <2>3. Ceiling(x, y) = -r
    BY DEF Ceiling, r
  <2> QED BY <2>1, <2>2, <2>3
<1>2. m \in Int /\ b * m >= a /\ b * (m - 1) < a
  BY <1>1
<1>3. n \in Int /\ d * n >= a /\ d * (n - 1) < a
  BY <1>1
<1> HIDE DEF m, n
<1>4. m \in Nat
  <2> SUFFICES ASSUME m < 0 PROVE FALSE
    BY <1>2
  <2> QED BY <1>2
<1>5. n \in Nat
  <2> SUFFICES ASSUME n < 0 PROVE FALSE
    BY <1>3
  <2> QED BY <1>3
<1>6. n <= m
  <2> SUFFICES ASSUME n - 1 >= m PROVE FALSE
    BY <1>4, <1>5
  <2>1. \A x, y, z \in Nat : x <= y => z * x <= z * y /\ x * z <= y * z
    OBVIOUS
  <2>2. n - 1 \in Nat
    BY <1>4, <1>5
  <2>3. d * m <= d * (n - 1) /\ b * m <= d * m
    BY <1>4, <2>1, <2>2
  <2> QED BY <1>2, <1>3, <1>4, <2>2, <2>3
<1>7. b * m = m * b
  BY <1>4
<1> QED BY <1>2, <1>4, <1>5, <1>6, <1>7 DEF m, n

(* The profile a session has: what is stored is brought into range.        *)
Profiled(bins) == DOMAIN bins \subseteq Buckets /\ \A k \in DOMAIN bins : bins[k] \in TaperBin

LEMMA TrustedBins ==
    ASSUME NEW bins, Profiled(bins)
    PROVE  /\ Trusted(bins) \subseteq 0 .. 100
           /\ \A k \in Trusted(bins) : bins[k].ratio \in MIN_RATIO .. MAX_RATIO
<1>1. \A k \in DOMAIN bins : k \in 0 .. 100 /\ bins[k].ratio \in MIN_RATIO .. MAX_RATIO
  BY DEF Profiled, TaperBin, Buckets
<1> QED BY <1>1 DEF Trusted

(* Whatever the profile has seen, a percent takes a ratio of the power     *)
(* within the bounds (taper.py, _ratio).                                   *)
LEMMA RatioRange ==
    ASSUME NEW bins, Profiled(bins), NEW b \in Int
    PROVE  _ratio(bins, b) \in MIN_RATIO .. MAX_RATIO
<1> DEFINE trusted == Trusted(bins)
           near == {k \in trusted : Distance(k, b) <= 5}
           First(k) == \A j \in near : \/ Distance(k, b) < Distance(j, b)
                                       \/ Distance(k, b) = Distance(j, b) /\ k <= j
           closest == CHOOSE k \in near : First(k)
<1>1. trusted \subseteq 0 .. 100 /\ \A k \in trusted : bins[k].ratio \in MIN_RATIO .. MAX_RATIO
  BY TrustedBins
<1>2. MAX_RATIO \in MIN_RATIO .. MAX_RATIO
  BY DEF MIN_RATIO, MAX_RATIO
<1>3. _ratio(bins, b) =
        IF near # {} THEN bins[closest].ratio
        ELSE IF trusted # {} /\ b > Max(trusted) THEN bins[Max(trusted)].ratio
        ELSE IF trusted # {} /\ b < Min(trusted) THEN bins[Min(trusted)].ratio
        ELSE MAX_RATIO
  BY DEF _ratio
<1> HIDE DEF trusted
<1>4. CASE near # {}
  <2> DEFINE val == [k \in near |-> 101 * Distance(k, b) + k]
  <2>1. \A k \in near : k \in 0 .. 100 /\ Distance(k, b) \in Nat
    BY <1>1 DEF Distance
  <2>2. \A k \in near : val[k] = 101 * Distance(k, b) + k /\ val[k] \in Nat
    BY <2>1
  <2> HIDE DEF val, near
  <2>3. PICK k \in near : \A j \in near : val[k] <= val[j]
    BY <1>4, <2>2, LeastBy
  <2>4. ASSUME NEW j \in near
        PROVE  \/ Distance(k, b) < Distance(j, b)
               \/ Distance(k, b) = Distance(j, b) /\ k <= j
    BY <2>1, <2>2, <2>3
  <2>5. First(k)
    BY <2>4
  <2> HIDE DEF First
  <2>6. closest \in near
    BY <2>5, Zenon
  <2> HIDE DEF closest
  <2>7. closest \in trusted
    BY <2>6 DEF near
  <2> QED BY <1>1, <1>3, <1>4, <2>7
<1>5. CASE near = {} /\ trusted # {}
  <2> HIDE DEF near, closest
  <2>1. \A k \in trusted : k \in 0 .. 100
    BY <1>1
  <2>2. Max(trusted) \in trusted
    <3> DEFINE val == [k \in trusted |-> 100 - k]
    <3>1. \A k \in trusted : val[k] = 100 - k /\ val[k] \in Nat
      BY <2>1
    <3> HIDE DEF val
    <3>2. PICK k \in trusted : \A j \in trusted : val[k] <= val[j]
      BY <1>5, <3>1, LeastBy
    <3>3. \A j \in trusted : k >= j
      BY <2>1, <3>1, <3>2
    <3> QED BY <3>3, Zenon DEF Max
  <2>3. Min(trusted) \in trusted
    <3>1. trusted \subseteq Nat
      BY <2>1
    <3>2. PICK k \in trusted : \A m \in trusted : k <= m
      BY <1>5, <3>1, Least
    <3> QED BY <3>2 DEF Min
  <2> QED BY <1>1, <1>2, <1>3, <1>5, <2>2, <2>3
<1>6. CASE near = {} /\ trusted = {}
  BY <1>2, <1>3, <1>6
<1> QED BY <1>4, <1>5, <1>6

(* Of n distinct values, each number below n counts those below one of     *)
(* them: the middle one of the ratios exists.                              *)
LEMMA Ranked ==
    ASSUME NEW S, IsFiniteSet(S), NEW val, \A k \in S : val[k] \in Nat,
           \A j, k \in S : val[j] = val[k] => j = k,
           NEW n \in Nat, n < Cardinality(S)
    PROVE  \E k \in S : Cardinality({j \in S : val[j] < val[k]}) = n
<1> DEFINE Under(k) == {j \in S : val[j] < val[k]}
           T == {m \in Nat : m < Cardinality(S) /\ ~ \E k \in S : Cardinality(Under(k)) = m}
<1>1. Cardinality(S) \in Nat /\ \A k : IsFiniteSet(Under(k))
  BY FS_CardinalityType, FS_Subset
<1>2. T = {}
  <2> SUFFICES ASSUME T # {} PROVE FALSE
    OBVIOUS
  <2> HIDE DEF Under
  <2>1. PICK m \in T : \A l \in T : m <= l
    BY Least
  <2>2. m \in Nat /\ m < Cardinality(S) /\ ~ \E k \in S : Cardinality(Under(k)) = m
    OBVIOUS
  <2>3. CASE m = 0
    <3>1. S # {}
      BY <2>2, <2>3, FS_EmptySet
    <3>2. PICK k \in S : \A j \in S : val[k] <= val[j]
      BY <3>1, LeastBy
    <3>3. Under(k) = {}
      <4>1. ASSUME NEW j \in S PROVE ~(val[j] < val[k])
        <5>1. val[j] \in Nat /\ val[k] \in Nat /\ val[k] <= val[j]
          BY <3>2
        <5> QED BY <5>1
      <4> QED BY <4>1, Zenon DEF Under
    <3> QED BY <2>2, <2>3, <3>3, FS_EmptySet
  <2>4. CASE m > 0
    <3>1. m - 1 \in Nat /\ m - 1 \notin T /\ m - 1 < Cardinality(S)
      BY <1>1, <2>1, <2>2, <2>4
    <3>2. PICK k \in S : Cardinality(Under(k)) = m - 1
      BY <3>1
    <3> DEFINE U == {j \in S : val[k] < val[j]}
               R == Under(k) \union {k}
    <3>3. k \notin Under(k)
      <4>1. ~(val[k] < val[k])
        OBVIOUS
      <4> QED BY <4>1, Zenon DEF Under
    <3>4. IsFiniteSet(R) /\ Cardinality(R) = m
      <4>1. IsFiniteSet(Under(k))
        BY <1>1
      <4>2. IsFiniteSet(R) /\ Cardinality(R) = Cardinality(Under(k)) + 1
        BY <3>3, <4>1, FS_AddElement
      <4> QED BY <2>2, <3>2, <4>2
    <3>5. U # {}
      <4> SUFFICES ASSUME U = {} PROVE FALSE
        OBVIOUS
      <4>1. ASSUME NEW j \in S PROVE val[j] < val[k] \/ j = k
        <5>1. val[j] \in Nat /\ val[k] \in Nat /\ ~(val[k] < val[j])
          OBVIOUS
        <5>2. val[j] < val[k] \/ val[j] = val[k]
          BY <5>1
        <5> QED BY <5>2
      <4>2. S \subseteq R
        BY <4>1, Zenon DEF Under
      <4>3. R \subseteq S
        BY Zenon DEF Under
      <4>4. S = R
        BY <4>2, <4>3
      <4> QED BY <2>2, <3>4, <4>4
    <3>6. PICK l \in U : \A j \in U : val[l] <= val[j]
      <4>1. \A j \in U : val[j] \in Nat
        OBVIOUS
      <4> HIDE DEF U
      <4> QED BY <3>5, <4>1, LeastBy
    <3>7. Under(l) = R
      <4>1. ASSUME NEW j \in S PROVE val[j] < val[l] <=> val[j] < val[k] \/ j = k
        <5>1. val[j] \in Nat /\ val[k] \in Nat /\ val[l] \in Nat /\ val[k] < val[l]
          OBVIOUS
        <5>2. val[k] < val[j] => val[l] <= val[j]
          BY <3>6
        <5>3. val[j] = val[k] => j = k
          OBVIOUS
        <5> QED BY <5>1, <5>2, <5>3
      <4> QED BY <4>1 DEF Under
    <3>8. l \in S
      OBVIOUS
    <3> QED BY <2>2, <3>4, <3>7, <3>8
  <2> QED BY <2>2, <2>3, <2>4
<1> QED BY <1>1, <1>2

LEMMA MedianRange ==
    ASSUME NEW bins, Profiled(bins), NEW from \in Int, NEW to \in Int
    PROVE  _median_trusted_charge_ratio(bins, from, to) \in MIN_RATIO .. MAX_RATIO
<1> DEFINE seen == {k \in Trusted(bins) : from <= k /\ k < to}
           Less(j, k) == \/ bins[j].ratio < bins[k].ratio
                         \/ bins[j].ratio = bins[k].ratio /\ j < k
           Below(k) == {j \in seen : Less(j, k)}
           middle == CHOOSE k \in seen : Cardinality(Below(k)) = Cardinality(seen) \div 2
<1>1. _median_trusted_charge_ratio(bins, from, to) = IF seen = {} THEN MAX_RATIO ELSE bins[middle].ratio
  BY DEF _median_trusted_charge_ratio
<1> HIDE DEF Below, middle
<1>2. \A k \in seen : k \in 0 .. 100 /\ bins[k].ratio \in MIN_RATIO .. MAX_RATIO
  <2>1. /\ Trusted(bins) \subseteq 0 .. 100
        /\ \A k \in Trusted(bins) : bins[k].ratio \in MIN_RATIO .. MAX_RATIO
    BY TrustedBins
  <2> QED BY <2>1
<1>3. CASE seen # {}
  <2> DEFINE val == [k \in seen |-> 101 * bins[k].ratio + k]
             n == Cardinality(seen) \div 2
  <2>1. IsFiniteSet(seen)
    <3>1. IsFiniteSet(0 .. 100)
      <4>1. 0 \in Int /\ 100 \in Int
        OBVIOUS
      <4> QED BY <4>1, FS_Interval, Zenon
    <3> HIDE DEF seen
    <3>2. seen \in SUBSET (0 .. 100)
      BY <1>2
    <3> QED BY <3>1, <3>2, FS_Subset
  <2> HIDE DEF seen
  <2>2. \A k \in seen : val[k] = 101 * bins[k].ratio + k /\ val[k] \in Nat
    <3>1. \A k \in seen : bins[k].ratio \in Nat /\ k \in Nat
      BY <1>2 DEF MIN_RATIO
    <3> QED BY <3>1
  <2> HIDE DEF val
  <2>3. n \in Nat /\ n < Cardinality(seen)
    <3>1. Cardinality(seen) \in Nat /\ Cardinality(seen) # 0
      <4>1. Cardinality(seen) \in Nat
        BY <2>1, FS_CardinalityType
      <4>2. Cardinality(seen) # 0
        BY <1>3, <2>1, FS_EmptySet
      <4> QED BY <4>1, <4>2
    <3> DEFINE c == Cardinality(seen)
    <3> HIDE DEF c
    <3>2. c \in Nat /\ c # 0 => c \div 2 \in Nat /\ c \div 2 < c
      OBVIOUS
    <3> QED BY <3>1, <3>2 DEF c
  <2> HIDE DEF n
  <2>4. ASSUME NEW j \in seen, NEW k \in seen
        PROVE  /\ val[j] = val[k] => j = k
               /\ val[j] < val[k] <=> Less(j, k)
    <3>1. /\ bins[j].ratio \in Nat /\ j \in 0 .. 100 /\ bins[k].ratio \in Nat /\ k \in 0 .. 100
          /\ val[j] = 101 * bins[j].ratio + j /\ val[k] = 101 * bins[k].ratio + k
      BY <1>2, <2>2 DEF MIN_RATIO
    <3> QED BY <3>1
  <2> HIDE DEF Less
  <2>5. PICK k \in seen : Cardinality({j \in seen : val[j] < val[k]}) = n
    <3>1. \A k \in seen : val[k] \in Nat
      BY <2>2
    <3>2. \A j, k \in seen : val[j] = val[k] => j = k
      BY <2>4
    <3> QED BY <2>1, <2>3, <3>1, <3>2, Ranked
  <2>6. {j \in seen : val[j] < val[k]} = Below(k)
    BY <2>4 DEF Below
  <2>7. Cardinality(Below(k)) = Cardinality(seen) \div 2
    BY <2>5, <2>6 DEF n
  <2>8. middle \in seen
    BY <2>7, Zenon DEF middle
  <2> QED BY <1>1, <1>2, <1>3, <2>8
<1>4. CASE seen = {}
  BY <1>1, <1>4 DEF MIN_RATIO, MAX_RATIO
<1> QED BY <1>3, <1>4

Weights(bins, S, pct, p) == [k \in S |-> percent_hours(pct, p, _ratio(bins, k))]

LEMMA HoursAreSum ==
    ASSUME NEW bins, NEW S, IsFiniteSet(S), NEW pct, NEW p \in Int, p > 0
    PROVE  \E g : /\ Summing(Weights(bins, S, pct, p), g, SUBSET S)
                  /\ _estimate_hours(bins, S, pct, p) = g[S]
<1> DEFINE w == Weights(bins, S, pct, p)
           Body(h, s) == IF s = {} THEN 0
                         ELSE percent_hours(pct, p, _ratio(bins, Pick(s))) + h[s \ {Pick(s)}]
           iter == CHOOSE h : h = [s \in SUBSET S |-> Body(h, s)]
<1>1. ~(p <= 0)
  OBVIOUS
<1>2. _estimate_hours(bins, S, pct, p) = iter[S]
  BY <1>1, Zenon DEF _estimate_hours, MapThenSumSet, MapThenFoldSet, Pick
<1>3. ASSUME NEW h, NEW s \in SUBSET S
      PROVE  Body(h, s) = IF s = {} THEN 0 ELSE w[Pick(s)] + h[s \ {Pick(s)}]
  <2>1. CASE s # {}
    <3>1. Pick(s) \in S
      BY <2>1, Removing, Zenon
    <3>2. w[Pick(s)] = percent_hours(pct, p, _ratio(bins, Pick(s)))
      BY <3>1, Zenon DEF Weights
    <3> QED BY <2>1, <3>2, Zenon
  <2> QED BY <2>1, Zenon
<1> HIDE DEF Body, w
<1>4. PICK f : Summing(w, f, SUBSET S)
  BY SumExists
<1>5. f = [s \in SUBSET S |-> Body(f, s)]
  BY <1>3, <1>4, Zenon DEF Summing
<1>6. iter = [s \in SUBSET S |-> Body(iter, s)]
  BY <1>5, Zenon
<1> HIDE DEF iter
<1>7. Summing(w, iter, SUBSET S)
  BY <1>3, <1>6, Zenon DEF Summing
<1> QED BY <1>2, <1>7, Zenon DEF w

LEMMA PercentHours ==
    ASSUME NEW pct \in Nat, NEW p \in Nat, NEW q \in Nat, 0 < p, p <= q,
           NEW r \in MIN_RATIO .. MAX_RATIO
    PROVE  /\ percent_hours(pct, p, r) \in Nat /\ percent_hours(pct, q, r) \in Nat
           /\ percent_hours(pct, q, r) <= percent_hours(pct, p, r)
           /\ Ceiling(100 * pct, q) \in Nat
           /\ Ceiling(100 * pct, q) <= percent_hours(pct, q, r)
<1> DEFINE x == 1000 * (100 * pct)
<1>1. x \in Nat /\ -100 * 1000 * pct = -x
  OBVIOUS
<1>2. r \in Nat /\ 0 < r /\ r <= 1000
  BY DEF MIN_RATIO, MAX_RATIO
<1>3. p * r \in Nat /\ q * r \in Nat /\ 0 < p * r /\ 0 < q * r
  BY <1>2, Products
<1>4. \A a, b, c \in Nat : a <= b => c * a <= c * b /\ a * c <= b * c
  OBVIOUS
<1>5. p * r <= q * r /\ q * r <= q * 1000
  BY <1>2, <1>4
<1>6. percent_hours(pct, p, r) = Ceiling(x, p * r) /\ percent_hours(pct, q, r) = Ceiling(x, q * r)
  BY <1>1 DEF percent_hours, Ceiling
<1>7. Ceiling(x, q * 1000) = Ceiling(100 * pct, q)
  <2>1. \A a, b \in Nat : b > 0 => (-(1000 * a)) \div (b * 1000) = (-a) \div b
    <3> SUFFICES ASSUME NEW a \in Nat, NEW b \in Nat, b > 0
                 PROVE  (-(1000 * a)) \div (b * 1000) = (-a) \div b
      OBVIOUS
    <3> DEFINE u == (-a) \div b
               v == (-(1000 * a)) \div (b * 1000)
    <3>1. u \in Int /\ b * u <= -a /\ -a < b * u + b
      OBVIOUS
    <3>2. v \in Int /\ (b * 1000) * v <= -(1000 * a) /\ -(1000 * a) < (b * 1000) * v + b * 1000
      OBVIOUS
    <3> HIDE DEF u, v
    <3>3. (b * 1000) * v = 1000 * (b * v)
      BY <3>2
    <3>4. b * v \in Int /\ b * u \in Int
      BY <3>1, <3>2
    <3>5. b * v <= -a /\ -a < b * v + b
      BY <3>2, <3>3, <3>4
    <3>6. b * (v + 1) = b * v + b /\ b * (u + 1) = b * u + b
      BY <3>1, <3>2
    <3>7. b * v < b * (u + 1) /\ b * u < b * (v + 1)
      BY <3>1, <3>4, <3>5, <3>6
    <3>8. \A i, j \in Int : b * i < b * j => i < j
      OBVIOUS
    <3>9. v < u + 1 /\ u < v + 1
      BY <3>1, <3>2, <3>7, <3>8
    <3>10. u = v
      BY <3>1, <3>2, <3>9
    <3> QED BY <3>10 DEF u, v
  <2>2. (-x) \div (q * 1000) = (-(100 * pct)) \div q
    BY <2>1
  <2> QED BY <2>2 DEF Ceiling
<1> HIDE DEF x
<1>8. /\ Ceiling(x, p * r) \in Nat /\ Ceiling(x, q * r) \in Nat
      /\ Ceiling(x, q * r) <= Ceiling(x, p * r)
  <2> DEFINE b == p * r
             d == q * r
  <2>1. b \in Nat /\ d \in Nat /\ 0 < b /\ b <= d
    BY <1>3, <1>5
  <2> HIDE DEF b, d
  <2>2. Ceiling(x, b) \in Nat /\ Ceiling(x, d) \in Nat /\ Ceiling(x, d) <= Ceiling(x, b)
    BY <1>1, <2>1, CeilingOrder
  <2> QED BY <2>2 DEF b, d
<1>9. Ceiling(x, q * 1000) \in Nat /\ Ceiling(x, q * 1000) <= Ceiling(x, q * r)
  <2>1. q * 1000 \in Nat
    OBVIOUS
  <2> QED BY <1>1, <1>3, <1>5, <2>1, CeilingOrder
<1> QED BY <1>6, <1>7, <1>8, <1>9

LEMMA Hours ==
    ASSUME NEW bins, Profiled(bins), NEW S, IsFiniteSet(S), S \subseteq Int, NEW pct \in Nat,
           NEW p \in Nat, NEW q \in Nat, 0 < p, p <= q
    PROVE  /\ _estimate_hours(bins, S, pct, p) \in Nat /\ _estimate_hours(bins, S, pct, q) \in Nat
           /\ _estimate_hours(bins, S, pct, q) <= _estimate_hours(bins, S, pct, p)
           /\ Ceiling(100 * pct, q) * Cardinality(S) <= _estimate_hours(bins, S, pct, q)
<1> DEFINE v == Weights(bins, S, pct, p)
           w == Weights(bins, S, pct, q)
           c == Ceiling(100 * pct, q)
<1>1. PICK h : Summing(v, h, SUBSET S) /\ _estimate_hours(bins, S, pct, p) = h[S]
  <2>1. p \in Int /\ p > 0
    OBVIOUS
  <2> QED BY <2>1, HoursAreSum
<1>2. PICK g : Summing(w, g, SUBSET S) /\ _estimate_hours(bins, S, pct, q) = g[S]
  <2>1. q \in Int /\ q > 0
    OBVIOUS
  <2> QED BY <2>1, HoursAreSum
<1>3. c \in Nat
  <2>1. 1000 \in MIN_RATIO .. MAX_RATIO
    BY DEF MIN_RATIO, MAX_RATIO
  <2>2. \A i \in MIN_RATIO .. MAX_RATIO : Ceiling(100 * pct, q) \in Nat
    BY PercentHours
  <2> QED BY <2>1, <2>2
<1>4. ASSUME NEW k \in S
      PROVE  w[k] \in Nat /\ v[k] \in Nat /\ c <= w[k] /\ w[k] <= v[k]
  <2>1. _ratio(bins, k) \in MIN_RATIO .. MAX_RATIO
    BY RatioRange
  <2>2. v[k] = percent_hours(pct, p, _ratio(bins, k)) /\ w[k] = percent_hours(pct, q, _ratio(bins, k))
    BY DEF Weights
  <2> QED BY <2>1, <2>2, PercentHours
<1>5. S \in SUBSET S /\ Ordered(S, c, w, v)
  BY <1>4 DEF Ordered
<1> HIDE DEF v, w, c
<1>6. g[S] \in Nat /\ h[S] \in Nat /\ c * Cardinality(S) <= g[S] /\ g[S] <= h[S]
  <2>1. Summing(w, g, SUBSET S) /\ Summing(v, h, SUBSET S)
    BY <1>1, <1>2
  <2>2. \A s \in SUBSET S :
          g[s] \in Nat /\ h[s] \in Nat /\ c * Cardinality(s) <= g[s] /\ g[s] <= h[s]
    BY <1>3, <1>5, <2>1, Sums
  <2> QED BY <1>5, <2>2
<1> QED BY <1>1, <1>2, <1>6 DEF c

(* Charging for a house that draws is no faster than for one that does     *)
(* not, and never faster than the power the headroom leaves.               *)
LEMMA Effective ==
    ASSUME NEW n \in Int
    PROVE  LET p == effective_charge(n)
           IN  /\ p \in Nat /\ p <= effective_charge(0) /\ effective_charge(0) \in Nat
               /\ effective_charge(0) > 0 /\ 100 * p <= MaxPower * (100 - Headroom)
               /\ Headroom > 0 \/ n < MaxPower => p > 0
<1> DEFINE k == MaxPower * Headroom
           room == MaxPower * (100 - Headroom)
           kept(m) == Larger(100 * AtLeast0(m), k)
           whole(m) == IF 100 * MaxPower - kept(m) <= 0 THEN k ELSE 100 * MaxPower - kept(m)
<1>1. MaxPower \in Nat /\ MaxPower >= 100 /\ Headroom \in 0 .. 25
  BY PacingAssumption
<1>2. k \in Nat /\ room \in Nat /\ room = 100 * MaxPower - k /\ 3 * k <= room
      /\ (Headroom > 0 => k >= 100) /\ room >= 7500
  <2>1. \A a \in Nat, b \in 0 .. 25 : a * b \in 0 .. 25 * a /\ (b > 0 => a * b >= a)
    OBVIOUS
  <2>2. k \in 0 .. 25 * MaxPower /\ (Headroom > 0 => k >= MaxPower)
    BY <1>1, <2>1
  <2>3. room = 100 * MaxPower - k
    BY <1>1
  <2> HIDE DEF k, room
  <2> QED BY <1>1, <2>2, <2>3
<1>3. \A m \in Int : effective_charge(m) = whole(m) \div 100
  BY DEF effective_charge
<1> HIDE DEF k, room
<1>4. whole(n) \in Nat /\ whole(n) <= room
      /\ (Headroom > 0 \/ n < MaxPower => whole(n) >= 100)
  BY <1>1, <1>2 DEF Larger, AtLeast0
<1>5. whole(0) = room
  BY <1>1, <1>2 DEF Larger, AtLeast0
<1> HIDE DEF whole
<1>6. effective_charge(n) = whole(n) \div 100 /\ effective_charge(0) = room \div 100
  BY <1>3, <1>5
<1> QED BY <1>2, <1>4, <1>6 DEF room

(* The energy missing is at most that of the percents from the whole one   *)
(* the battery is in up to the target.                                     *)
LEMMA WholePercents ==
    ASSUME NEW e \in Nat, NEW target \in Buckets, energy_needed(e, target) > 0
    PROVE  /\ int(e) \in Nat /\ int(e) < target /\ energy_needed(e, target) \in Nat
           /\ energy_needed(e, target) <= (target - int(e)) * soc_energy
<1> DEFINE u == soc_energy
           i == int(e)
           r == e - u * i
<1>1. u \in Nat /\ u > 0 /\ target \in Nat
  BY Energies DEF Buckets
<1>2. i \in Nat /\ u * i \in Nat /\ u * i <= e
  BY <1>1 DEF int
<1>3. energy_needed(e, target) = target * u - e /\ target * u \in Nat
  BY <1>1 DEF energy_needed
<1> HIDE DEF u, i
<1>4. u * i < target * u
  BY <1>2, <1>3
<1>5. \A a, b, c \in Nat : a * b < c * a => b < c
  <2> SUFFICES ASSUME NEW a \in Nat, NEW b \in Nat, NEW c \in Nat, c <= b PROVE c * a <= a * b
    BY SMT
  <2> QED BY SMT
<1>6. i < target
  BY <1>1, <1>2, <1>4, <1>5
<1>7. (target - i) * u = target * u - u * i
  BY <1>1, <1>2
<1> QED BY <1>2, <1>3, <1>6, <1>7 DEF i, u

(* The time a charge is given is no less than its energy at its power      *)
(* takes, and than that of a house that draws nothing.                     *)
LEMMA ChargeHours ==
    ASSUME NEW bins, Profiled(bins), NEW e \in Nat, NEW target \in Buckets, NEW n \in Int
    PROVE  /\ charge_hundredths(bins, e, target, n) \in Nat
           /\ energy_needed(e, target) > 0 /\ effective_charge(n) > 0
                => /\ 100 * energy_needed(e, target)
                        <= charge_hundredths(bins, e, target, n) * effective_charge(n)
                   /\ charge_hundredths(bins, e, target, 0) <= charge_hundredths(bins, e, target, n)
<1> DEFINE needed == energy_needed(e, target)
           p == effective_charge(n)
           q == effective_charge(0)
           S == int(e) .. target - 1
           u == soc_energy
           c == Ceiling(100 * u, p)
           hours(m) == charge_hundredths(bins, e, target, m)
<1>1. u \in Nat /\ u > 0 /\ target \in Nat /\ needed \in Int
  BY Energies, SocEnergy DEF Buckets, energy_needed
<1>2. p \in Nat /\ q \in Nat /\ p <= q
  BY Effective
<1>3. CASE needed <= 0
  BY <1>1, <1>3 DEF charge_hundredths
<1>4. CASE needed > 0 /\ p = 0
  BY <1>1, <1>2, <1>4 DEF charge_hundredths, estimate_charge_hours, _estimate_hours
<1>5. CASE needed > 0 /\ p > 0
  <2>1. int(e) \in Nat /\ int(e) < target /\ needed \in Nat /\ needed <= (target - int(e)) * u
    BY <1>5, WholePercents
  <2>2. IsFiniteSet(S) /\ Cardinality(S) = target - int(e) /\ S \subseteq Int
    <3>1. int(e) \in Int /\ target - 1 \in Int /\ ~(int(e) > target - 1)
      BY <1>1, <2>1
    <3>2. IsFiniteSet(S) /\ Cardinality(S) = (target - 1) - int(e) + 1
      BY <3>1, FS_Interval
    <3> QED BY <1>1, <2>1, <3>2
  <2>3. /\ hours(n) = _estimate_hours(bins, S, u, p)
        /\ hours(0) = _estimate_hours(bins, S, u, q)
    BY <1>1, <1>5 DEF charge_hundredths, estimate_charge_hours
  <2> HIDE DEF S, p, q, hours
  <2>4. 0 < p /\ p <= p
    BY <1>2, <1>5 DEF p
  <2> HIDE DEF u
  <2>5. /\ hours(n) \in Nat /\ hours(0) \in Nat /\ hours(0) <= hours(n)
        /\ c * Cardinality(S) <= hours(n)
    <3>1. /\ _estimate_hours(bins, S, u, p) \in Nat /\ _estimate_hours(bins, S, u, q) \in Nat
          /\ _estimate_hours(bins, S, u, q) <= _estimate_hours(bins, S, u, p)
      BY <1>1, <1>2, <2>2, <2>4, Hours, Zenon
    <3>2. Ceiling(100 * u, p) * Cardinality(S) <= _estimate_hours(bins, S, u, p)
      BY <1>1, <1>2, <2>2, <2>4, Hours, Zenon
    <3> QED BY <2>3, <3>1, <3>2, Zenon
  <2>6. c \in Nat /\ 100 * u <= c * p
    <3>1. 100 * u \in Nat /\ p <= p
      BY <1>1, <1>2
    <3> QED BY <1>2, <1>5, <3>1, CeilingOrder
  <2> DEFINE m == target - int(e)
  <2>7. m \in Nat /\ c * m <= hours(n) /\ needed <= m * u
    BY <1>1, <2>1, <2>2, <2>5
  <2> HIDE DEF m, u, c, needed
  <2>8. \A a, b, d \in Nat : a <= b => a * d <= b * d
    OBVIOUS
  <2>9. (c * m) * p <= hours(n) * p
    BY <1>2, <2>5, <2>6, <2>7, <2>8
  <2>10. (100 * u) * m <= (c * p) * m
    BY <1>1, <1>2, <2>6, <2>7, <2>8
  <2>11. (c * m) * p = (c * p) * m /\ (100 * u) * m = 100 * (m * u)
    BY <1>1, <1>2, <2>6, <2>7
  <2>12. 100 * needed <= hours(n) * p
    <3>1. hours(n) * p \in Nat /\ m * u \in Nat /\ (c * p) * m \in Nat
      BY <1>1, <1>2, <2>5, <2>6, <2>7
    <3> QED BY <1>1, <2>7, <2>9, <2>10, <2>11, <3>1
  <2> QED BY <2>5, <2>12 DEF p, needed, hours
<1> QED BY <1>1, <1>2, <1>3, <1>4, <1>5

LEMMA FloorOrder ==
    ASSUME NEW a \in Nat, NEW x \in Nat, a <= x, NEW b \in Nat, NEW d \in Nat, 0 < b, b <= d
    PROVE  a \div d \in Nat /\ x \div b \in Nat /\ a \div d <= x \div b
<1> DEFINE m == x \div b
           n == a \div d
<1>1. \A i, j \in Nat : j > 0 => i \div j \in Nat /\ j * (i \div j) <= i /\ i < j * (i \div j) + j
  OBVIOUS
<1>2. m \in Nat /\ x < b * m + b
  BY <1>1
<1>3. n \in Nat /\ d * n <= a
  BY <1>1
<1> HIDE DEF m, n
<1>4. n <= m
  <2> SUFFICES ASSUME n >= m + 1 PROVE FALSE
    BY <1>2, <1>3
  <2>1. \A i, j, k \in Nat : i <= j => k * i <= k * j /\ i * k <= j * k
    OBVIOUS
  <2>2. d * (m + 1) <= d * n /\ b * (m + 1) <= d * (m + 1)
    BY <1>2, <1>3, <2>1
  <2>3. b * (m + 1) = b * m + b /\ b * m \in Nat /\ d * (m + 1) \in Nat /\ d * n \in Nat
    BY <1>2, <1>3
  <2> QED BY <1>2, <1>3, <2>2, <2>3
<1> QED BY <1>2, <1>3, <1>4 DEF m, n

(* A charge is put off to a minute of its window.                          *)
LEMMA DeferredStart ==
    ASSUME NEW bins, Profiled(bins), NEW e \in Nat, NEW target \in Buckets, NEW n \in Int
    PROVE  calculate_deferred_start(bins, e, target, n, 0, Window) \in 0 .. Window
<1> DEFINE h == charge_hundredths(bins, e, target, n)
           q == h \div (100 - Headroom)
<1>1. h \in Nat /\ effective_charge(n) \in Nat /\ Window \in Nat /\ Headroom \in 0 .. 25
      /\ energy_needed(e, target) \in Int
  <2>1. h \in Nat
    BY ChargeHours
  <2>2. effective_charge(n) \in Nat
    BY Effective
  <2>3. energy_needed(e, target) \in Int
    BY SocEnergy, Energies DEF energy_needed
  <2> HIDE DEF h
  <2> QED BY <2>1, <2>2, <2>3, LoopAssumption, PacingAssumption
<1> HIDE DEF h
<1>2. q \in Nat
  BY <1>1
<1>3. calculate_deferred_start(bins, e, target, n, 0, Window)
        = IF energy_needed(e, target) <= 0 THEN Window
          ELSE IF effective_charge(n) <= 0 THEN 0 ELSE Larger(0, Window - q)
  BY DEF calculate_deferred_start, q, h
<1> HIDE DEF q
<1> QED BY <1>1, <1>2, <1>3 DEF Larger

(* Up to the deferred start, the charge the forecast takes to be slower by *)
(* the headroom taken twice has the energy to come in time.                *)
LEMMA ForecastWaits ==
    ASSUME NEW bins, Profiled(bins), NEW e \in Nat, NEW target \in Buckets, NEW n \in Int,
           energy_needed(e, target) > 0, NEW t \in Nat,
           t < calculate_deferred_start(bins, e, target, n, 0, Window)
    PROVE  (Window - t) * MaxPower * deferred_power_fraction > 10000 * energy_needed(e, target)
<1> DEFINE h == charge_hundredths(bins, e, target, n)
           f == 100 - Headroom
           q == h \div f
           p == effective_charge(n)
           needed == energy_needed(e, target)
           m == Window - t
           w == MaxPower * f
<1>1. h \in Nat /\ p \in Nat /\ Window \in Nat /\ f \in Nat /\ f > 0 /\ needed \in Nat
      /\ MaxPower \in Nat /\ MaxPower > 0
  <2>1. h \in Nat
    BY ChargeHours
  <2>2. p \in Nat
    BY Effective
  <2>3. needed \in Nat
    BY WholePercents
  <2> HIDE DEF h, p, needed
  <2> QED BY <2>1, <2>2, <2>3, LoopAssumption, PacingAssumption
<1>2. ~(needed <= 0) /\ (p <= 0 => p = 0)
  BY <1>1
<1>3. p > 0 /\ t < Larger(0, Window - q)
  <2>1. t < IF p <= 0 THEN 0 ELSE Larger(0, Window - q)
    BY <1>2 DEF calculate_deferred_start
  <2> QED BY <1>1, <2>1
<1>4. 100 * needed <= h * p /\ 100 * p <= w
  BY <1>1, <1>3, ChargeHours, Effective
<1>5. w \in Nat /\ w > 0
  BY <1>1, Products
<1> HIDE DEF h, f, p, needed, w
<1>6. q \in Nat /\ h < f * q + f
  BY <1>1
<1> HIDE DEF q
<1>7. m \in Nat /\ q + 1 <= m
  BY <1>1, <1>3, <1>6 DEF Larger
<1> HIDE DEF m
<1>8. \A a, b, c \in Nat : a <= b => c * a <= c * b
  OBVIOUS
<1>9. f * (q + 1) <= f * m /\ f * (q + 1) = f * q + f
  BY <1>1, <1>6, <1>7, <1>8
<1>10. h + 1 <= f * m /\ f * m \in Nat /\ f * q \in Nat
  BY <1>1, <1>6, <1>7, <1>9
<1>11. w * (h + 1) <= w * (f * m) /\ w * (h + 1) = w * h + w
  BY <1>1, <1>5, <1>8, <1>10
<1>12. h * (100 * p) <= h * w /\ h * (100 * p) = 100 * (h * p) /\ h * w = w * h
  BY <1>1, <1>4, <1>5, <1>8
<1>13. 10000 * needed < w * (f * m)
  <2>1. h * p \in Nat /\ w * h \in Nat /\ w * (f * m) \in Nat
    BY <1>1, <1>5, <1>10
  <2> QED BY <1>1, <1>4, <1>5, <1>11, <1>12, <2>1
<1>14. m * MaxPower * (f * f) = w * (f * m)
  BY <1>1, <1>7 DEF w
<1> QED BY <1>13, <1>14 DEF deferred_power_fraction, f, m, needed

(* What is not reachable for a house that draws nothing is not for one     *)
(* that does.                                                              *)
LEMMA Buffered ==
    ASSUME NEW bins, Profiled(bins), NEW e \in Nat, NEW target \in Buckets, NEW n \in Int,
           Headroom > 0 \/ n < MaxPower
    PROVE  /\ _buffered_charge_hours(bins, e, target, n) \in Nat
           /\ _buffered_charge_hours(bins, e, target, 0) \in Nat
           /\ _buffered_charge_hours(bins, e, target, 0) <= _buffered_charge_hours(bins, e, target, n)
<1> DEFINE needed == energy_needed(e, target)
           ratio == Within(MIN_RATIO, MAX_RATIO, _median_trusted_charge_ratio(bins, int(e), target))
           median(m) == (100 * ((1000 * needed) \div effective_charge(m))) \div ratio
           hours(m) == charge_hundredths(bins, e, target, m)
<1>1. \A m : _buffered_charge_hours(bins, e, target, m)
               = IF needed <= 0 THEN 0 ELSE Smaller(hours(m), median(m))
  BY DEF _buffered_charge_hours
<1>2. needed \in Int
  BY SocEnergy, Energies DEF energy_needed
<1>3. CASE needed > 0
  <2>1. int(e) \in Int /\ target \in Int /\ needed \in Nat
    <3>1. int(e) \in Nat /\ needed \in Nat
      BY <1>3, WholePercents
    <3>2. target \in Nat
      BY DEF Buckets
    <3> HIDE DEF needed
    <3> QED BY <3>1, <3>2
  <2>2. ratio \in Nat /\ ratio > 0
    BY <2>1, MedianRange DEF Within, MIN_RATIO, MAX_RATIO
  <2> HIDE DEF ratio
  <2> DEFINE p == effective_charge(n)
             q == effective_charge(0)
             x == (1000 * needed) \div p
             y == (1000 * needed) \div q
  <2>3. p \in Nat /\ q \in Nat /\ 0 < p /\ p <= q
    BY Effective
  <2>4. hours(n) \in Nat /\ hours(0) \in Nat /\ hours(0) <= hours(n)
    <3>1. hours(n) \in Nat /\ hours(0) <= hours(n)
      BY <1>3, <2>3, ChargeHours
    <3>2. hours(0) \in Nat
      BY ChargeHours
    <3> QED BY <3>1, <3>2
  <2>5. x \in Nat /\ y \in Nat /\ y <= x
    <3> HIDE DEF p, q, needed
    <3>1. 1000 * needed \in Nat /\ 1000 * needed <= 1000 * needed
      BY <2>1
    <3> QED BY <2>3, <3>1, FloorOrder
  <2>6. median(n) = (100 * x) \div ratio /\ median(0) = (100 * y) \div ratio
    OBVIOUS
  <2> HIDE DEF x, y, median, hours
  <2>7. median(n) \in Nat /\ median(0) \in Nat /\ median(0) <= median(n)
    <3>1. 100 * x \in Nat /\ 100 * y \in Nat /\ 100 * y <= 100 * x /\ ratio <= ratio
      BY <2>2, <2>5
    <3> QED BY <2>2, <2>6, <3>1, FloorOrder
  <2> QED BY <1>1, <1>2, <1>3, <2>4, <2>7 DEF Smaller
<1>4. CASE needed <= 0
  BY <1>1, <1>4
<1> QED BY <1>2, <1>3, <1>4

-----------------------------------------------------------------------------
(* The forecast, point by point.                                           *)
Held(flat, t) == t <= now \/ t \in flat
Step(power, e) == (_FORECAST_STEP * power * _ratio(profile, int(e))) \div 1000
After(power, direction, bound, e) ==
  IF direction > 0 THEN Smaller(e + Step(power, e), bound) ELSE Larger(e - Step(power, e), bound)
Point(flat, power, direction, bound, h, t) ==
  IF Held(flat, t) \/ t = 0 \/ Held(flat, t - _FORECAST_STEP) THEN energy
  ELSE After(power, direction, bound, h[t - _FORECAST_STEP])

IsSeries(h, D, flat, power, direction, bound) ==
  h = [t \in D |-> Point(flat, power, direction, bound, h, t)]

LEMMA Previous ==
    ASSUME NEW t \in Points, t # 0
    PROVE  t \in Nat /\ t - _FORECAST_STEP \in Points /\ t - _FORECAST_STEP \in Nat
           /\ t - _FORECAST_STEP < t
<1>1. \A i \in Nat : i % 5 = 0 /\ i # 0 => i >= 5 /\ (i - 5) % 5 = 0
  OBVIOUS
<1>2. t \in Nat /\ t <= Window /\ t % 5 = 0 /\ Window \in Nat
  BY LoopAssumption DEF Points, _FORECAST_STEP
<1>3. t >= 5 /\ (t - 5) % 5 = 0
  BY <1>1, <1>2
<1> QED BY <1>2, <1>3 DEF Points, _FORECAST_STEP

(* The function of the forecast exists: the minutes it does not reach have *)
(* a least one.                                                            *)
LEMMA SeriesExists ==
    ASSUME NEW flat, NEW power, NEW direction, NEW bound
    PROVE  \E h : IsSeries(h, Points, flat, power, direction, bound)
<1> DEFINE P(n) == {t \in Points : t <= n}
           Body(h, t) == Point(flat, power, direction, bound, h, t)
           Good(h, n) == IsSeries(h, P(n), flat, power, direction, bound)
           T == {n \in Nat : ~ \E h : Good(h, n)}
<1>1. T = {}
  <2> SUFFICES ASSUME T # {} PROVE FALSE
    OBVIOUS
  <2>1. PICK n \in T : \A m \in T : n <= m
    BY Least
  <2>2. n \in Nat /\ \A h : ~Good(h, n)
    OBVIOUS
  <2>3. \E g : \A t \in P(n) : t # 0 =>
          g[t - _FORECAST_STEP] = Body(g, t - _FORECAST_STEP)
    <3>1. CASE n = 0
      <4>1. \A t \in P(n) : t = 0
        <5> SUFFICES ASSUME NEW t \in P(n), t # 0 PROVE FALSE
          OBVIOUS
        <5>1. t \in Nat
          BY Previous
        <5> QED BY <3>1, <5>1
      <4> QED BY <4>1
    <3>2. CASE n > 0
      <4>1. n - 1 \in Nat /\ n - 1 \notin T
        <5> HIDE DEF T
        <5>1. n - 1 \in T => n <= n - 1
          BY <2>1
        <5> QED BY <2>2, <3>2, <5>1
      <4>2. PICK g : Good(g, n - 1)
        BY <4>1
      <4> HIDE DEF Body
      <4>3. ASSUME NEW t \in P(n), t # 0
            PROVE  g[t - _FORECAST_STEP] = Body(g, t - _FORECAST_STEP)
        <5> DEFINE r == t - _FORECAST_STEP
        <5>1. t \in Nat /\ r \in Points /\ r \in Nat /\ r < t /\ t <= n
          BY <4>3, Previous
        <5> HIDE DEF r
        <5>2. r \in P(n - 1)
          BY <2>2, <5>1
        <5>3. g[r] = Body(g, r)
          BY <4>2, <5>2, Zenon DEF IsSeries, Body
        <5> QED BY <5>3 DEF r
      <4> QED BY <4>3
    <3> QED BY <2>2, <3>1, <3>2
  <2>4. PICK g : \A t \in P(n) : t # 0 => g[t - _FORECAST_STEP] = Body(g, t - _FORECAST_STEP)
    BY <2>3
  <2> DEFINE h == [t \in P(n) |-> Body(g, t)]
  <2>5. ASSUME NEW t \in P(n) PROVE Body(g, t) = Body(h, t)
    <3>1. CASE t = 0
      BY <3>1, Zenon DEF Point
    <3>2. CASE t # 0
      <4> DEFINE r == t - _FORECAST_STEP
      <4>1. t \in Nat /\ r \in Points /\ r \in Nat /\ r < t /\ t <= n
        BY <3>2, Previous
      <4>2. g[r] = Body(g, r)
        BY <2>4, <3>2
      <4> HIDE DEF r, Body
      <4>3. r \in P(n)
        BY <2>2, <4>1
      <4>4. h[r] = g[r]
        BY <4>2, <4>3, Zenon
      <4> QED BY <4>4, Zenon DEF Body, Point, r
    <3> QED BY <3>1, <3>2
  <2>6. Good(h, n)
    <3> HIDE DEF Body, P
    <3>1. h = [t \in P(n) |-> Body(h, t)]
      BY <2>5, Zenon
    <3> HIDE DEF h
    <3> QED BY <3>1, Zenon DEF IsSeries, Body
  <2> QED BY <2>2, <2>6
<1>2. P(Window) = Points /\ Window \in Nat
  BY LoopAssumption DEF Points
<1>3. Window \notin T
  BY <1>1
<1>4. PICK h : Good(h, Window)
  BY <1>2, <1>3
<1> QED BY <1>2, <1>4

(* A forecast upwards never falls below the energy now, one downwards      *)
(* never rises above it.                                                   *)
LEMMA Series ==
    ASSUME Profiled(profile), energy \in Nat, NEW flat, NEW power \in Nat, NEW direction \in {1, -1},
           NEW bound \in Int, direction > 0 => energy <= bound, direction < 0 => bound <= energy,
           NEW t \in Points
    PROVE  LET e == project_soc_series(flat, power, direction, bound)[t]
           IN  /\ direction > 0 => energy <= e
               /\ direction < 0 => e <= energy
<1> DEFINE Body(h, i) == Point(flat, power, direction, bound, h, i)
           soc == CHOOSE h : h = [i \in Points |-> Body(h, i)]
           Fine(e) == e \in Int /\ (direction > 0 => energy <= e) /\ (direction < 0 => e <= energy)
           T == {i \in Points : ~Fine(soc[i])}
<1>1. project_soc_series(flat, power, direction, bound) = soc
  BY Zenon DEF project_soc_series, Point, After, Step, Held
<1>2. soc = [i \in Points |-> Body(soc, i)]
  <2>1. PICK h : IsSeries(h, Points, flat, power, direction, bound)
    BY SeriesExists
  <2>2. h = [i \in Points |-> Body(h, i)]
    BY <2>1, Zenon DEF IsSeries
  <2> HIDE DEF Body
  <2> QED BY <2>2, Zenon
<1> HIDE DEF soc
<1>3. ASSUME NEW e, Fine(e) PROVE Fine(After(power, direction, bound, e))
  <2>1. int(e) \in Int
    BY <1>3, Energies DEF int
  <2>2. _ratio(profile, int(e)) \in Nat
    BY <2>1, RatioRange DEF MIN_RATIO
  <2>3. _FORECAST_STEP * power * _ratio(profile, int(e)) \in Nat
    <3>1. \A i, j \in Nat : 5 * i * j \in Nat
      OBVIOUS
    <3> QED BY <2>2, <3>1 DEF _FORECAST_STEP
  <2>4. Step(power, e) \in Nat
    BY <2>3 DEF Step
  <2> QED BY <1>3, <2>4 DEF After, Smaller, Larger
<1>4. T = {}
  <2> SUFFICES ASSUME T # {} PROVE FALSE
    OBVIOUS
  <2>1. T \subseteq Nat
    BY DEF Points
  <2>2. PICK i \in T : \A j \in T : i <= j
    <3> HIDE DEF T
    <3> QED BY <2>1, Least
  <2>3. i \in Points /\ ~Fine(soc[i]) /\ soc[i] = Body(soc, i)
    BY <1>2
  <2>4. Fine(energy)
    OBVIOUS
  <2> HIDE DEF Fine
  <2>5. i # 0 /\ soc[i] = After(power, direction, bound, soc[i - _FORECAST_STEP])
    BY <2>3, <2>4, Zenon DEF Point
  <2>6. i \in Nat /\ i - _FORECAST_STEP \in Points /\ i - _FORECAST_STEP \in Nat
        /\ i - _FORECAST_STEP < i
    BY <2>3, <2>5, Previous
  <2>7. Fine(soc[i - _FORECAST_STEP])
    <3> DEFINE r == i - _FORECAST_STEP
    <3> HIDE DEF r
    <3>1. r \in T => i <= r
      BY <2>2
    <3>2. r \in Points /\ r \in Nat /\ r < i /\ i \in Nat
      BY <2>6 DEF r
    <3> QED BY <3>1, <3>2 DEF r
  <2> QED BY <1>3, <2>3, <2>5, <2>7
<1>5. Fine(soc[t])
  BY <1>4
<1> QED BY <1>1, <1>5

-----------------------------------------------------------------------------
(* What the sensors are shown of the listener's decisions.                 *)
(* A mode that is forced is its session's, at its power, and a discharge   *)
(* that is under way is forced, with the exceptions StateAgrees names.     *)
ForcedAs(s, o) ==
    /\ o.mode = "ForceCharge" =>
         /\ s.kind = "charge" /\ s.started /\ ~s.reached
         /\ s.power = o.power /\ o.power > 0
    /\ o.mode = "ForceDischarge" =>
         /\ s.kind = "discharge" /\ s.started /\ ~s.suspended
         /\ s.power = o.power
    /\ s.kind = "discharge" /\ s.started /\ ~s.suspended /\ s.power # 0 /\ s.low = 0 /\ ~s.full
         => o.mode = "ForceDischarge"

(* A charge that waits, once its tick is taken, has its wake ahead.        *)
WakeInv ==
    /\ session.wake \in 0 .. Never
    /\ session.kind = "charge" /\ ~session.started /\ ~session.reached /\ up /\ ~due
         => now < session.wake

(* What was fed in has not passed the limit once the tick is taken.  A     *)
(* discharge that waits has not begun to count.                            *)
FeedinInv ==
    session.kind = "discharge" /\ session.limit # NoLimit /\ session.low = 0 =>
      /\ ~session.started => session.baseline < 0
      /\ up /\ ~due => Spent <= session.limit

(* What the sensors' agreement rests on beside Inv.                        *)
Shown == Profiled(profile) /\ ForcedAs(session, override) /\ WakeInv /\ FeedinInv

LEMMA ShownOfCharge ==
    ASSUME Profiled(profile'), ForcedAs(session', override'), WakeInv', session'.kind # "discharge"
    PROVE  Shown'
  BY DEF Shown, FeedinInv

LEMMA ShownOfDischarge ==
    ASSUME Profiled(profile'), ForcedAs(session', override'), FeedinInv', session'.kind # "charge",
           session'.wake \in 0 .. Never
    PROVE  Shown'
  BY DEF Shown, WakeInv

(* A reading keeps the profile in range.                                   *)
LEMMA RecordProfiled ==
    ASSUME Inv, Profiled(profile), NEW power, NEW actual \in Int,
           _record_taper_observation(power, actual)
    PROVE  Profiled(profile')
<1> DEFINE k == int(energy)
           ratio == Within(MIN_RATIO, MAX_RATIO, (actual * 1000) \div MaxPower)
           bin == IF k \in DOMAIN profile /\ profile[k].count > 0
                  THEN [ratio |-> Within(MIN_RATIO, MAX_RATIO,
                                    (3 * ratio + 7 * profile[k].ratio) \div 10),
                        count |-> profile[k].count + 1]
                  ELSE [ratio |-> ratio, count |-> 1]
           new == [j \in DOMAIN profile \union {k} |-> IF j = k THEN bin ELSE profile[j]]
<1>1. profile' = profile \/ profile' = new
  BY Zenon DEF _record_taper_observation, _record
<1>2. k \in Buckets
  <2> DEFINE u == soc_energy
  <2>1. energy \in 0 .. 100 * u /\ u \in Nat /\ u > 0
    BY Energies DEF Inv, Typed, Capacity
  <2> HIDE DEF u
  <2>2. energy \div u \in 0 .. 100
    <3>1. \A a, b \in Nat : b > 0 => a \div b \in Nat /\ b * (a \div b) <= a
      OBVIOUS
    <3> DEFINE q == energy \div u
    <3>2. q \in Nat /\ u * q <= 100 * u
      BY <2>1, <3>1
    <3> HIDE DEF q
    <3>3. q <= 100
      <4> SUFFICES ASSUME q >= 101 PROVE FALSE
        BY <3>2
      <4>1. \A a, b, c \in Nat : a <= b => c * a <= c * b
        OBVIOUS
      <4>2. u * 101 <= u * q
        BY <2>1, <3>2, <4>1
      <4> QED BY <2>1, <3>2, <4>2
    <3> QED BY <3>2, <3>3 DEF q
  <2> QED BY <2>2 DEF int, u, Buckets
<1>3. \A x \in Int : Within(MIN_RATIO, MAX_RATIO, x) \in MIN_RATIO .. MAX_RATIO
  BY DEF Within, MIN_RATIO, MAX_RATIO
<1>4. ratio \in MIN_RATIO .. MAX_RATIO /\ ratio \in Int
  <2>1. (actual * 1000) \div MaxPower \in Int
    BY PacingAssumption
  <2>2. ratio \in MIN_RATIO .. MAX_RATIO
    BY <1>3, <2>1
  <2> HIDE DEF ratio
  <2> QED BY <2>2 DEF MIN_RATIO, MAX_RATIO
<1> HIDE DEF k, ratio
<1>5. bin \in TaperBin
  <2>1. CASE k \in DOMAIN profile /\ profile[k].count > 0
    <3>1. profile[k].ratio \in Int /\ profile[k].count \in Nat
      BY <2>1 DEF Profiled, TaperBin, MIN_RATIO, MAX_RATIO
    <3>2. (3 * ratio + 7 * profile[k].ratio) \div 10 \in Int
      BY <1>4, <3>1
    <3>3. Within(MIN_RATIO, MAX_RATIO, (3 * ratio + 7 * profile[k].ratio) \div 10)
            \in MIN_RATIO .. MAX_RATIO
      BY <1>3, <3>2
    <3> QED BY <2>1, <3>1, <3>3 DEF TaperBin
  <2>2. CASE ~(k \in DOMAIN profile /\ profile[k].count > 0)
    BY <1>4, <2>2 DEF TaperBin
  <2> QED BY <2>1, <2>2
<1> HIDE DEF bin
<1>6. Profiled(new)
  BY <1>2, <1>5 DEF Profiled
<1> QED BY <1>1, <1>6

LEMMA LoadedProfiled == ASSUME NEW raw \in Profiles PROVE Profiled(loaded(raw))
<1> DEFINE source(k) == CHOOSE j \in DOMAIN raw : Within(0, 100, j) = k
           bin(k) == [raw[source(k)] EXCEPT !.ratio = Within(MIN_RATIO, MAX_RATIO, @)]
           keys == {Within(0, 100, j) : j \in DOMAIN raw}
<1>1. DOMAIN raw \subseteq Int /\ \A k \in DOMAIN raw : raw[k] \in [ratio : Nat, count : Nat]
  BY LoopAssumption
<1>2. from_dict(raw) = [k \in keys |-> bin(k)]
  BY Zenon DEF from_dict
<1>3. keys \subseteq Buckets
  BY <1>1 DEF Within, Buckets
<1>4. ASSUME NEW k \in keys PROVE bin(k) \in TaperBin
  <2>1. \E j \in DOMAIN raw : Within(0, 100, j) = k
    OBVIOUS
  <2>2. source(k) \in DOMAIN raw
    BY <2>1, Zenon
  <2> HIDE DEF source
  <2>3. raw[source(k)] \in [ratio : Nat, count : Nat]
    BY <1>1, <2>2
  <2>4. \A x \in Nat : Within(MIN_RATIO, MAX_RATIO, x) \in MIN_RATIO .. MAX_RATIO
    BY DEF Within, MIN_RATIO, MAX_RATIO
  <2> QED BY <2>3, <2>4 DEF TaperBin
<1> HIDE DEF bin, keys
<1>5. Profiled(from_dict(raw)) /\ Profiled([k \in {} |-> 0])
  BY <1>2, <1>3, <1>4 DEF Profiled
<1> QED BY <1>5 DEF loaded

LEMMA ShownInit == Init => Shown
<1> SUFFICES ASSUME Init PROVE Shown
  OBVIOUS
<1>1. Profiled(profile)
  BY LoadedProfiled DEF Init
<1>2. override.mode = "SelfUse" /\ session.kind = "none"
  BY SelfUseTyped, NoSessionTyped DEF Init
<1>3. session.wake \in 0 .. Never
  <2>1. NoSession.wake = Never
    BY Zenon DEF NoSession, Over
  <2>2. Never \in 0 .. Never
    BY LoopAssumption DEF Never
  <2> QED BY <2>1, <2>2 DEF Init
<1> QED BY <1>1, <1>2, <1>3 DEF Shown, ForcedAs, WakeInv, FeedinInv

(* The ticks of a charge.                                                  *)
LEMMA ShownTarget == ASSUME Inv, Shown, Still, TargetReached PROVE Shown'
<1>1. /\ session.kind = "charge" /\ session' = [session EXCEPT !.reached = TRUE]
      /\ override' = IF session.started /\ ~session.reached THEN SelfUse ELSE override
      /\ profile' = profile /\ SessionTyped(session)
  BY Zenon DEF TargetReached, ChargeTick, Inv, Typed
<1>2. /\ session'.kind = "charge" /\ session'.reached = TRUE /\ session'.wake = session.wake
  BY <1>1 DEF SessionTyped
<1>3. override'.mode # "ForceCharge" /\ override'.mode # "ForceDischarge"
  BY <1>1, SelfUseTyped DEF Shown, ForcedAs
<1>4. ForcedAs(session', override')
  BY <1>2, <1>3 DEF ForcedAs
<1>5. WakeInv'
  BY <1>2 DEF WakeInv, Shown, Never
<1> QED BY <1>1, <1>2, <1>4, <1>5, ShownOfCharge DEF Shown

LEMMA ShownDefer == ASSUME Inv, Shown, Still, Defer PROVE Shown'
<1> DEFINE b == session.issued /\ ~Reachable
<1>1. /\ session.kind = "charge" /\ now < Deferred /\ SessionTyped(session)
      /\ session' = [session EXCEPT !.reached = FALSE, !.started = FALSE, !.wake = Deferred,
                                    !.issued = b]
      /\ override' = IF session.started THEN SelfUse ELSE override
  BY Zenon DEF Defer, ChargeTick, Inv, Typed
<1>2. Profiled(profile')
  <2>1. \/ profile' = profile
        \/ _record_taper_observation(session.power, Charge)
    BY DEF Defer
  <2>2. Charge \in Int
    BY Flows DEF Inv
  <2> QED BY <2>1, <2>2, RecordProfiled DEF Shown
<1>3. Deferred \in 0 .. Window
  <2>1. session.target \in Buckets /\ energy \in Nat /\ net \in Int
    BY <1>1, Energies DEF Inv, Typed, SessionTyped
  <2> QED BY <1>2, <2>1, DeferredStart DEF Deferred
<1> HIDE DEF b, Deferred
<1>4. session'.kind = "charge" /\ session'.started = FALSE /\ session'.wake = Deferred
  BY <1>1 DEF SessionTyped
<1>5. override'.mode # "ForceCharge" /\ override'.mode # "ForceDischarge"
  BY <1>1, SelfUseTyped DEF Shown, ForcedAs
<1>6. ForcedAs(session', override')
  BY <1>4, <1>5 DEF ForcedAs
<1>7. WakeInv'
  BY <1>1, <1>3, <1>4, LoopAssumption DEF WakeInv, Still, Never
<1> QED BY <1>2, <1>4, <1>6, <1>7, ShownOfCharge

LEMMA ForceChargeShown ==
    ASSUME NEW s, s.kind = "charge", s.started, s.reached = FALSE,
           NEW power \in 0 .. MaxPower, power > 0, s.power = power, ForceCharge(power)
    PROVE  ForcedAs(s, override')
  BY ForceCharged DEF ForcedAs

LEMMA ShownStart == ASSUME Inv, Shown, Still, StartCharge PROVE Shown'
<1> DEFINE power == calculate_charge_power(energy, session.target, net, remaining, FALSE)
<1>1. /\ session.kind = "charge" /\ ForceCharge(power) /\ profile' = profile /\ SessionTyped(session)
      /\ session' = [session EXCEPT !.reached = FALSE, !.started = TRUE, !.startedAt = now,
                                    !.startEnergy = energy, !.power = power, !.wake = Never]
  BY Zenon DEF StartCharge, ChargeTick, Inv, Typed
<1>2. power \in 0 .. MaxPower /\ power > 0
  <2>1. session.target \in Buckets /\ energy \in Int /\ net \in Int /\ remaining \in Int
    BY <1>1, LoopAssumption, Energies DEF Inv, Typed, SessionTyped, remaining
  <2> QED BY <2>1, PacedCharge, Zenon
<1> HIDE DEF power, Never
<1>3. /\ session'.kind = "charge" /\ session'.started = TRUE /\ session'.wake = Never
      /\ session'.reached = FALSE /\ session'.power = power
  BY <1>1 DEF SessionTyped
<1>4. ForcedAs(session', override')
  BY <1>1, <1>2, <1>3, ForceChargeShown
<1>5. WakeInv'
  BY <1>3, LoopAssumption DEF WakeInv, Never
<1> QED BY <1>1, <1>3, <1>4, <1>5, ShownOfCharge DEF Shown

LEMMA ShownAdjust == ASSUME Inv, Shown, Still, _adjust_charge_power PROVE Shown'
<1> DEFINE behind == Behind(energy, session.target, session.startEnergy, now - session.startedAt,
                            Window - session.startedAt, MinPowerChange * remaining)
           power == IF session.full THEN MaxPower
                    ELSE calculate_charge_power(energy, session.target, net, remaining, behind)
           b == ~Reachable
<1>1. /\ session.kind = "charge" /\ session.started /\ SessionTyped(session)
      /\ _record_taper_observation(session.power, Charge)
      /\ \/ session' = [session EXCEPT !.reached = FALSE] /\ override' = override
         \/ session' = [session EXCEPT !.reached = FALSE, !.power = power, !.issued = b]
            /\ ForceCharge(power)
  BY Zenon DEF _adjust_charge_power, ChargeTick, Inv, Typed
<1>2. Profiled(profile')
  <2>1. Charge \in Int
    BY Flows DEF Inv
  <2> QED BY <1>1, <2>1, RecordProfiled DEF Shown
<1>3. power \in 0 .. MaxPower /\ power > 0
  <2> HIDE DEF behind
  <2>1. session.target \in Buckets /\ energy \in Int /\ net \in Int /\ remaining \in Int
    BY <1>1, LoopAssumption, Energies DEF Inv, Typed, SessionTyped, remaining
  <2>2. /\ calculate_charge_power(energy, session.target, net, remaining, behind) \in 0 .. MaxPower
        /\ calculate_charge_power(energy, session.target, net, remaining, behind) > 0
    BY <2>1, PacedCharge, Zenon
  <2> QED BY <2>2, PacingAssumption
<1> HIDE DEF power, b
<1>4. CASE session' = [session EXCEPT !.reached = FALSE] /\ override' = override
  <2>1. /\ session'.kind = "charge" /\ session'.started = session.started
        /\ session'.wake = session.wake /\ session'.reached = FALSE /\ session'.power = session.power
    BY <1>1, <1>4 DEF SessionTyped
  <2>2. ForcedAs(session', override')
    BY <1>1, <1>4, <2>1 DEF ForcedAs, Shown
  <2>3. WakeInv'
    BY <1>1, <2>1 DEF WakeInv, Shown, Never
  <2> QED BY <1>2, <2>1, <2>2, <2>3, ShownOfCharge
<1>5. CASE session' = [session EXCEPT !.reached = FALSE, !.power = power, !.issued = b]
           /\ ForceCharge(power)
  <2>1. /\ session'.kind = "charge" /\ session'.started = session.started
        /\ session'.wake = session.wake /\ session'.reached = FALSE /\ session'.power = power
    BY <1>1, <1>5 DEF SessionTyped
  <2>2. ForcedAs(session', override')
    BY <1>1, <1>3, <1>5, <2>1, ForceChargeShown
  <2>3. WakeInv'
    BY <1>1, <2>1 DEF WakeInv, Shown, Never
  <2> QED BY <1>2, <2>1, <2>2, <2>3, ShownOfCharge
<1> QED BY <1>1, <1>4, <1>5

(* The ticks of a discharge.                                               *)
LEMMA PeakedRest ==
    ASSUME Typed
    PROVE  /\ peaked.power = session.power /\ peaked.wake = session.wake
           /\ peaked.limit = session.limit /\ peaked.baseline = session.baseline
           /\ counted.power = session.power /\ counted.wake = session.wake
           /\ counted.limit = session.limit
           /\ counted.baseline = IF session.limit # NoLimit /\ session.baseline < 0 THEN exported
                                 ELSE session.baseline
<1>1. SessionTyped(session) /\ peak \in Nat
  BY Peaked DEF Typed
<1> HIDE DEF peak
<1>2. /\ peaked.power = session.power /\ peaked.wake = session.wake
      /\ peaked.limit = session.limit /\ peaked.baseline = session.baseline
  BY <1>1 DEF SessionTyped, peaked
<1> DEFINE base == IF session.limit # NoLimit /\ peaked.baseline < 0 THEN exported
                   ELSE peaked.baseline
<1>3. SessionTyped(peaked)
  BY Peaked
<1> HIDE DEF peaked
<1>4. counted = [peaked EXCEPT !.baseline = base]
  BY <1>2, <1>3 DEF counted, SessionTyped
<1>5. base = IF session.limit # NoLimit /\ session.baseline < 0 THEN exported
             ELSE session.baseline
  BY <1>2
<1> HIDE DEF base, counted
<1>6. /\ counted.power = peaked.power /\ counted.wake = peaked.wake
      /\ counted.limit = peaked.limit /\ counted.baseline = base
  BY <1>3, <1>4 DEF SessionTyped
<1> QED BY <1>2, <1>5, <1>6

LEMMA CountedFeedin ==
    ASSUME Typed, Still, session'.baseline = counted.baseline, session'.limit = session.limit,
           session'.started = TRUE,
           session.limit = NoLimit \/ session.baseline < 0 \/ Spent < session.limit
    PROVE  FeedinInv'
<1> SUFFICES ASSUME session'.limit # NoLimit PROVE Spent' <= session'.limit
  BY DEF FeedinInv
<1>1. /\ session.limit \in Nat /\ session.baseline \in Nat \union {-1} /\ exported \in Nat
      /\ exported' = exported
  BY DEF Typed, SessionTyped, Still
<1>2. counted.baseline = IF session.baseline < 0 THEN exported ELSE session.baseline
  BY PeakedRest
<1>3. Spent' = IF session'.baseline < 0 THEN 0 ELSE exported - session'.baseline
  BY <1>1 DEF Spent
<1>4. CASE session.baseline < 0
  BY <1>1, <1>2, <1>3, <1>4
<1>5. CASE session.baseline >= 0
  BY <1>1, <1>2, <1>3, <1>5 DEF Spent
<1> QED BY <1>1, <1>4, <1>5

(* A discharge that waits has not begun to count what it feeds in, unless  *)
(* it saw its floor.                                                       *)
LEMMA UncountedFeedin ==
    ASSUME Typed, Shown, Still, session.kind = "discharge", ~session.started,
           session'.baseline = session.baseline, session'.limit = session.limit,
           session'.low = session.low
    PROVE  FeedinInv'
<1> SUFFICES ASSUME session'.limit # NoLimit, session'.low = 0
             PROVE  session'.baseline < 0 /\ Spent' <= session'.limit
  BY DEF FeedinInv
<1>1. session.baseline < 0
  BY DEF Shown, FeedinInv
<1>2. session.limit \in Nat
  BY DEF Typed, SessionTyped
<1> QED BY <1>1, <1>2 DEF Spent

LEMMA WakeKept == ASSUME Shown, session'.wake = session.wake PROVE session'.wake \in 0 .. Never
  BY DEF Shown, WakeInv

LEMMA ShownWaits == ASSUME Inv, Shown, Still, DeferDischarge PROVE Shown'
<1>1. /\ Typed /\ session.kind = "discharge" /\ ~session.started /\ session' = peaked
      /\ override' = override /\ profile' = profile
  BY DEF Inv, DeferDischarge, DischargeTick
<1>2. /\ session'.kind = "discharge" /\ session'.started = session.started
      /\ session'.low = session.low /\ session'.wake = session.wake
      /\ session'.baseline = session.baseline /\ session'.limit = session.limit
  BY <1>1, Peaked, PeakedRest
<1>3. ForcedAs(session', override')
  BY <1>1, <1>2 DEF ForcedAs, Shown
<1>4. FeedinInv'
  BY <1>1, <1>2, UncountedFeedin
<1> QED BY <1>1, <1>2, <1>3, <1>4, WakeKept, ShownOfDischarge DEF Shown

LEMMA ForceDischargeShown ==
    ASSUME NEW s, s.kind = "discharge", s.started, s.suspended = FALSE,
           NEW power, s.power = power, ForceDischarge(power)
    PROVE  ForcedAs(s, override')
<1>1. override'.mode = "ForceDischarge" /\ override'.power = power
  BY DEF ForceDischarge
<1> QED BY <1>1 DEF ForcedAs

LEMMA ShownStarts == ASSUME Inv, Shown, Still, _start_deferred_discharge PROVE Shown'
<1> DEFINE power == calculate_discharge_power(energy, net, peak, remaining, 0, FALSE)
<1>1. /\ Typed /\ session.kind = "discharge" /\ ~session.started /\ profile' = profile
      /\ session' = [peaked EXCEPT !.started = TRUE, !.power = power, !.adjusted = TRUE]
      /\ ForceDischarge(power) /\ ~session.suspended
  BY DEF Inv, ModeInv, _start_deferred_discharge, DischargeTick
<1>2. /\ SessionTyped(peaked) /\ peaked.kind = "discharge" /\ peaked.suspended = session.suspended
      /\ peaked.low = session.low /\ session.suspended \in BOOLEAN
  BY <1>1, Peaked DEF Typed, SessionTyped
<1>3. /\ peaked.wake = session.wake
      /\ peaked.baseline = session.baseline /\ peaked.limit = session.limit
  BY <1>1, PeakedRest
<1> HIDE DEF power, peaked
<1>4. /\ session'.kind = "discharge" /\ session'.started = TRUE /\ session'.power = power
      /\ session'.suspended = session.suspended /\ session'.low = session.low
      /\ session'.wake = session.wake /\ session'.baseline = session.baseline
      /\ session'.limit = session.limit
  BY <1>1, <1>2, <1>3 DEF SessionTyped
<1>5. ForcedAs(session', override')
  BY <1>1, <1>2, <1>4, ForceDischargeShown
<1>6. FeedinInv'
  BY <1>1, <1>4, UncountedFeedin
<1> QED BY <1>1, <1>4, <1>5, <1>6, WakeKept, ShownOfDischarge DEF Shown

LEMMA ShownEnds == ASSUME Shown, EndSession, profile' = profile PROVE Shown'
<1>1. session' = Over /\ override' = SelfUse
  BY DEF EndSession
<1>2. session'.kind = "over" /\ session'.wake = Never
  BY <1>1, Zenon DEF Over
<1>3. override'.mode = "SelfUse"
  BY <1>1, SelfUseTyped
<1>4. Never \in 0 .. Never
  BY LoopAssumption DEF Never
<1>5. ForcedAs(session', override') /\ FeedinInv'
  BY <1>2, <1>3 DEF ForcedAs, FeedinInv
<1> QED BY <1>2, <1>4, <1>5, ShownOfDischarge DEF Shown

(* What all the rest of the tick shares.                                   *)
LEMMA PacedShares ==
    ASSUME Inv, Shown, Paced
    PROVE  /\ Typed /\ Profiled(profile') /\ session.kind = "discharge"
           /\ session.limit = NoLimit \/ session.baseline < 0 \/ Spent < session.limit
           /\ energy > MinE => session.started = TRUE
           /\ SessionTyped(counted) /\ counted.kind = "discharge"
           /\ counted.started = session.started /\ counted.suspended = session.suspended
           /\ counted.full = session.full /\ counted.low = session.low
           /\ counted.power = session.power /\ counted.wake = session.wake
           /\ counted.limit = session.limit
<1>1. Typed /\ session.kind = "discharge" /\ Past
  BY Zenon DEF Inv, Paced, Past, DischargeTick
<1>2. session.limit = NoLimit \/ session.baseline < 0 \/ Spent < session.limit
  BY DEF Paced
<1>3. Profiled(profile')
  <2>1. profile' = profile \/ _record_taper_observation(session.power, Discharge)
    BY DEF Paced
  <2>2. Discharge \in Int
    BY <1>1, Flows
  <2> QED BY <2>1, <2>2, RecordProfiled DEF Shown
<1>4. energy > MinE => session.started = TRUE
  <2>1. session.started \in BOOLEAN
    BY <1>1 DEF Typed, SessionTyped
  <2> QED BY <1>1, <2>1, PastStarted
<1> QED BY <1>1, <1>2, <1>3, <1>4, Peaked, PeakedRest

LEMMA ShownSuspend == ASSUME Inv, Shown, Still, Suspend PROVE Shown'
<1>1. /\ Paced /\ energy > MinE /\ session' = [counted EXCEPT !.suspended = TRUE]
      /\ override' = IF session.suspended THEN override ELSE SelfUse
  BY Zenon DEF Suspend
<1>2. /\ Typed /\ Profiled(profile') /\ session.kind = "discharge"
      /\ session.limit = NoLimit \/ session.baseline < 0 \/ Spent < session.limit
      /\ session.started = TRUE
      /\ SessionTyped(counted) /\ counted.kind = "discharge" /\ counted.started = session.started
      /\ counted.wake = session.wake /\ counted.limit = session.limit
  BY <1>1, PacedShares
<1> HIDE DEF counted
<1>3. /\ session'.kind = "discharge" /\ session'.started = TRUE /\ session'.suspended = TRUE
      /\ session'.wake = session.wake /\ session'.limit = session.limit
      /\ session'.baseline = counted.baseline
  BY <1>1, <1>2 DEF SessionTyped
<1>4. override'.mode # "ForceCharge" /\ override'.mode # "ForceDischarge"
  BY <1>1, <1>2, SelfUseTyped DEF Shown, ForcedAs
<1>5. ForcedAs(session', override')
  BY <1>3, <1>4 DEF ForcedAs
<1>6. FeedinInv'
  BY <1>2, <1>3, CountedFeedin
<1> QED BY <1>2, <1>3, <1>5, <1>6, WakeKept, ShownOfDischarge

LEMMA ShownApplies == ASSUME Inv, Shown, Still, _apply_discharge_power PROVE Shown'
<1> DEFINE feedin == session.limit # NoLimit
           new == calculate_discharge_power(energy, net, peak, remaining,
                                            session.limit - Spent, feedin)
           d == [counted EXCEPT !.suspended = FALSE, !.low = 0, !.adjusted = TRUE]
           update == \/ Distance(new, session.power) >= MinPowerChange
                     \/ new = MaxPower
                     \/ session.suspended
           power == IF update THEN new ELSE session.power
<1>1. /\ Paced /\ energy > MinE
      /\ \/ session' = [d EXCEPT !.power = 0] /\ override' = SelfUse
         \/ session' = [d EXCEPT !.power = power] /\ ForceDischarge(power)
  <2>1. Adjusted(new, feedin) /\ Paced /\ energy > MinE
    BY Zenon DEF _apply_discharge_power
  <2> QED BY <2>1, Zenon DEF Adjusted
<1>2. /\ Typed /\ Profiled(profile') /\ session.kind = "discharge"
      /\ session.limit = NoLimit \/ session.baseline < 0 \/ Spent < session.limit
      /\ session.started = TRUE
      /\ SessionTyped(counted) /\ counted.kind = "discharge" /\ counted.started = session.started
      /\ counted.wake = session.wake /\ counted.limit = session.limit
  BY <1>1, PacedShares
<1> HIDE DEF power, counted
<1>3. /\ SessionTyped(d) /\ d.kind = "discharge" /\ d.started = TRUE /\ d.suspended = FALSE
      /\ d.wake = session.wake /\ d.limit = session.limit /\ d.baseline = counted.baseline
  <2>1. SessionTyped(d)
    BY <1>2, ResumedDict DEF Resumed
  <2>2. d.kind = "discharge" /\ d.started = TRUE /\ d.suspended = FALSE
    BY <1>2, ResumedDict DEF Resumed
  <2>3. d.wake = session.wake /\ d.limit = session.limit /\ d.baseline = counted.baseline
    BY <1>2 DEF SessionTyped
  <2> QED BY <2>1, <2>2, <2>3
<1> HIDE DEF d
<1>4. ASSUME NEW p, session' = [d EXCEPT !.power = p]
      PROVE  /\ session'.kind = "discharge" /\ session'.started = TRUE /\ session'.suspended = FALSE
             /\ session'.wake = session.wake /\ session'.limit = session.limit
             /\ session'.baseline = counted.baseline /\ session'.power = p
  BY <1>3, <1>4 DEF SessionTyped
<1>5. CASE session' = [d EXCEPT !.power = 0] /\ override' = SelfUse
  <2>1. ForcedAs(session', override')
    BY <1>4, <1>5, SelfUseTyped DEF ForcedAs
  <2>2. FeedinInv'
    BY <1>2, <1>4, <1>5, CountedFeedin
  <2> QED BY <1>2, <1>4, <1>5, <2>1, <2>2, WakeKept, ShownOfDischarge
<1>6. CASE session' = [d EXCEPT !.power = power] /\ ForceDischarge(power)
  <2>1. ForcedAs(session', override')
    BY <1>4, <1>6, ForceDischargeShown
  <2>2. FeedinInv'
    BY <1>2, <1>4, <1>6, CountedFeedin
  <2> QED BY <1>2, <1>4, <1>6, <2>1, <2>2, WakeKept, ShownOfDischarge
<1> QED BY <1>1, <1>5, <1>6

LEMMA ShownUnpaced == ASSUME Inv, Shown, Still, Unpaced PROVE Shown'
<1>1. /\ Paced /\ energy > MinE /\ session.full /\ session' = [counted EXCEPT !.low = 0]
      /\ override' = override
  BY Zenon DEF Unpaced
<1>2. /\ Typed /\ Profiled(profile') /\ session.kind = "discharge"
      /\ session.limit = NoLimit \/ session.baseline < 0 \/ Spent < session.limit
      /\ session.started = TRUE
      /\ SessionTyped(counted) /\ counted.kind = "discharge" /\ counted.started = session.started
      /\ counted.suspended = session.suspended /\ counted.full = session.full
      /\ counted.power = session.power
      /\ counted.wake = session.wake /\ counted.limit = session.limit
  BY <1>1, PacedShares
<1> HIDE DEF counted
<1>3. /\ session'.kind = "discharge" /\ session'.started = session.started
      /\ session'.suspended = session.suspended /\ session'.full = session.full
      /\ session'.power = session.power
      /\ session'.wake = session.wake /\ session'.limit = session.limit
      /\ session'.baseline = counted.baseline
  BY <1>1, <1>2 DEF SessionTyped
<1>4. ForcedAs(session', override')
  BY <1>1, <1>2, <1>3 DEF ForcedAs, Shown
<1>5. FeedinInv'
  BY <1>2, <1>3, CountedFeedin
<1> QED BY <1>2, <1>3, <1>4, <1>5, WakeKept, ShownOfDischarge

LEMMA ShownAtFloor == ASSUME Inv, Shown, Still, AtFloor PROVE Shown'
<1>1. /\ Paced /\ override' = SelfUse
      /\ session' = IF session.low + 1 < 2 THEN [counted EXCEPT !.low = @ + 1] ELSE Over
  BY Zenon DEF AtFloor
<1>2. /\ Typed /\ Profiled(profile') /\ session.kind = "discharge"
      /\ SessionTyped(counted) /\ counted.kind = "discharge"
      /\ counted.low = session.low /\ counted.wake = session.wake
  BY <1>1, PacedShares
<1>3. session.low \in 0 .. 1 /\ override'.mode = "SelfUse"
  BY <1>1, <1>2, SelfUseTyped DEF Typed, SessionTyped
<1> HIDE DEF counted
<1>4. CASE session.low + 1 < 2
  <2>1. session' = [counted EXCEPT !.low = session.low + 1]
    BY <1>1, <1>2, <1>4
  <2>2. /\ session'.kind = "discharge" /\ session'.wake = session.wake
        /\ session'.low = session.low + 1
    BY <1>2, <2>1 DEF SessionTyped
  <2>3. ForcedAs(session', override') /\ FeedinInv'
    BY <1>3, <2>2 DEF ForcedAs, FeedinInv
  <2> QED BY <1>2, <2>2, <2>3, WakeKept, ShownOfDischarge
<1>5. CASE ~(session.low + 1 < 2)
  <2>1. session' = Over
    BY <1>1, <1>5
  <2>2. session'.kind = "over" /\ session'.wake = Never
    BY <2>1, Zenon DEF Over
  <2>3. Never \in 0 .. Never
    BY LoopAssumption DEF Never
  <2>4. ForcedAs(session', override') /\ FeedinInv'
    BY <1>3, <2>2 DEF ForcedAs, FeedinInv
  <2> QED BY <1>2, <2>2, <2>3, <2>4, ShownOfDischarge
<1> QED BY <1>4, <1>5

LEMMA ShownTick == ASSUME Inv, Shown, Tick PROVE Shown'
<1>1. Still
  BY DEF Tick, Still
<1>2. ASSUME FeedinLimitReached \/ WindowEnds PROVE EndSession /\ profile' = profile
  BY <1>2, Zenon DEF FeedinLimitReached, WindowEnds
<1> QED BY <1>1, <1>2, ShownTarget, ShownDefer, ShownStart, ShownAdjust, ShownWaits, ShownStarts,
           ShownEnds, ShownSuspend, ShownApplies, ShownUnpaced, ShownAtFloor, Zenon DEF Tick

(* The services.                                                           *)
LEMMA NoSessionRest ==
    /\ NoSession.wake = Never /\ NoSession.baseline = -1 /\ NoSession.reached = FALSE
    /\ NoSession.low = 0 /\ Never \in 0 .. Never
<1>1. NoSession.wake = Never /\ NoSession.baseline = -1 /\ NoSession.reached = FALSE /\ NoSession.low = 0
  BY Zenon DEF NoSession, Over
<1>2. Never \in 0 .. Never
  BY LoopAssumption DEF Never
<1> QED BY <1>1, <1>2

LEMMA NewWake ==
    ASSUME Typed, UNCHANGED now, session'.wake = Never PROVE WakeInv'
  BY LoopAssumption DEF Typed, WakeInv, Never

LEMMA NewFeedin ==
    ASSUME session'.limit \in Nat, session'.baseline = -1 PROVE FeedinInv'
<1>1. Spent' = 0
  BY DEF Spent
<1> QED BY <1>1 DEF FeedinInv

LEMMA ShownSmartCharge ==
    ASSUME Inv, Shown, NEW soc \in ChargeSocs, NEW target \in Targets, _do_smart_charge(soc, target)
    PROVE  Shown'
<1> DEFINE e == soc * soc_energy
           new == [NoSession EXCEPT !.kind = "charge", !.target = target]
           power == calculate_charge_power(e, target, net, remaining, FALSE)
           begun == [new EXCEPT !.started = TRUE, !.startedAt = now,
                                !.startEnergy = e, !.power = power]
<1>1. /\ Typed /\ session = NoSession /\ UNCHANGED now /\ profile' = profile
      /\ \/ session' = new /\ override' = override
         \/ session' = begun /\ ForceCharge(power)
  BY Zenon DEF Inv, _do_smart_charge
<1>2. e \in 0 .. Capacity /\ target \in Buckets
  BY LoopAssumption, SocEnergy
<1>3. net \in Int /\ remaining \in Int /\ Capacity \in Nat
  BY <1>1, LoopAssumption, Energies DEF Typed, remaining
<1> HIDE DEF e
<1>4. power \in 0 .. MaxPower /\ power > 0
  <2>1. e \in Int
    BY <1>2, <1>3
  <2> QED BY <1>2, <1>3, <2>1, PacedCharge, Zenon
<1> HIDE DEF power, Never
<1>5. /\ SessionTyped(new) /\ new.kind = "charge" /\ new.wake = Never /\ new.started = FALSE
      /\ new.reached = FALSE
  <2> HIDE DEF NoSession
  <2>1. SessionTyped(new)
    BY <1>2, NoSessionTyped DEF SessionTyped
  <2>2. new.kind = "charge" /\ new.wake = Never /\ new.started = FALSE /\ new.reached = FALSE
    BY NoSessionTyped, NoSessionRest DEF SessionTyped
  <2> QED BY <2>1, <2>2
<1> HIDE DEF new
<1>6. /\ begun.kind = "charge" /\ begun.wake = Never /\ begun.started = TRUE
      /\ begun.reached = FALSE /\ begun.power = power
  BY <1>5 DEF SessionTyped
<1> HIDE DEF begun
<1>7. CASE session' = new /\ override' = override
  <2>1. override'.mode = "SelfUse"
    BY <1>1, <1>7, Idle
  <2>2. ForcedAs(session', override')
    BY <1>5, <1>7, <2>1 DEF ForcedAs
  <2>3. WakeInv'
    BY <1>1, <1>5, <1>7, NewWake
  <2> QED BY <1>1, <1>5, <1>7, <2>2, <2>3, ShownOfCharge DEF Shown
<1>8. CASE session' = begun /\ ForceCharge(power)
  <2>1. ForcedAs(session', override')
    BY <1>4, <1>6, <1>8, ForceChargeShown
  <2>2. WakeInv'
    BY <1>1, <1>6, <1>8, NewWake
  <2> QED BY <1>1, <1>6, <1>8, <2>1, <2>2, ShownOfCharge DEF Shown
<1> QED BY <1>1, <1>7, <1>8

LEMMA ShownForceCharge ==
    ASSUME Inv, Shown, NEW soc \in ChargeSocs, handle_force_charge(soc) PROVE Shown'
<1> DEFINE e == soc * soc_energy
           begun == [NoSession EXCEPT !.kind = "charge", !.target = 100, !.full = TRUE,
                       !.started = TRUE, !.startedAt = now, !.startEnergy = e, !.power = MaxPower]
<1>1. Typed /\ UNCHANGED now /\ profile' = profile /\ session' = begun /\ ForceCharge(MaxPower)
  BY Zenon DEF Inv, handle_force_charge
<1> HIDE DEF e
<1>2. MaxPower \in 0 .. MaxPower /\ MaxPower > 0
  BY PacingAssumption
<1>3. /\ begun.kind = "charge" /\ begun.wake = Never /\ begun.started = TRUE
      /\ begun.reached = FALSE /\ begun.power = MaxPower
  <2> HIDE DEF NoSession, Never
  <2> QED BY NoSessionTyped, NoSessionRest DEF SessionTyped
<1> HIDE DEF begun, Never
<1>4. ForcedAs(session', override')
  BY <1>1, <1>2, <1>3, ForceChargeShown
<1>5. WakeInv'
  BY <1>1, <1>3, NewWake
<1> QED BY <1>1, <1>3, <1>4, <1>5, ShownOfCharge DEF Shown

LEMMA ServiceDischargeShown ==
    ASSUME NEW s, s.kind = "discharge", s.started, s.suspended = FALSE,
           NEW power, s.power = power, ServiceDischarge(power)
    PROVE  ForcedAs(s, override')
<1>1. override'.mode = "ForceDischarge" /\ override'.power = power
  BY DEF ServiceDischarge
<1> QED BY <1>1 DEF ForcedAs

LEMMA ShownSmartDischarge ==
    ASSUME Inv, Shown, NEW soc \in DischargeSocs, NEW limit \in FeedinLimits,
           _do_smart_discharge(soc, limit)
    PROVE  Shown'
<1> DEFINE e == soc * soc_energy
           p == AtLeast0(net)
           new == [NoSession EXCEPT !.kind = "discharge", !.peak = p, !.limit = limit]
           power == IF exportLimit = 0
                    THEN calculate_discharge_power(e, net, 0, remaining, limit, limit # NoLimit)
                    ELSE MaxPower
           begun == [new EXCEPT !.started = TRUE, !.power = power]
<1>1. /\ Typed /\ session = NoSession /\ profile' = profile
      /\ \/ session' = new /\ override' = override
         \/ session' = begun /\ ServiceDischarge(power)
  BY Zenon DEF Inv, _do_smart_discharge
<1>2. limit \in Nat
  BY LoopAssumption
<1>3. p \in Nat
  BY <1>1 DEF Typed, AtLeast0
<1> HIDE DEF e, power, p, Never
<1>4. /\ SessionTyped(new) /\ new.kind = "discharge" /\ new.wake = Never /\ new.started = FALSE
      /\ new.suspended = FALSE /\ new.limit = limit /\ new.baseline = -1
  <2> HIDE DEF NoSession
  <2>1. SessionTyped(new)
    BY <1>2, <1>3, NoSessionTyped DEF SessionTyped
  <2>2. /\ new.kind = "discharge" /\ new.wake = Never /\ new.started = FALSE
        /\ new.suspended = FALSE /\ new.limit = limit /\ new.baseline = -1
    BY NoSessionTyped, NoSessionRest DEF SessionTyped
  <2> QED BY <2>1, <2>2
<1> HIDE DEF new
<1>5. /\ begun.kind = "discharge" /\ begun.wake = Never /\ begun.started = TRUE
      /\ begun.suspended = FALSE /\ begun.limit = limit /\ begun.baseline = -1
      /\ begun.power = power
  BY <1>4 DEF SessionTyped
<1> HIDE DEF begun
<1>6. CASE session' = new /\ override' = override
  <2>1. override'.mode = "SelfUse"
    BY <1>1, <1>6, Idle
  <2>2. ForcedAs(session', override')
    BY <1>4, <1>6, <2>1 DEF ForcedAs
  <2>3. FeedinInv'
    BY <1>2, <1>4, <1>6, NewFeedin
  <2> QED BY <1>1, <1>4, <1>6, <2>2, <2>3, NoSessionRest, ShownOfDischarge DEF Shown
<1>7. CASE session' = begun /\ ServiceDischarge(power)
  <2>1. ForcedAs(session', override')
    BY <1>5, <1>7, ServiceDischargeShown
  <2>2. FeedinInv'
    BY <1>2, <1>5, <1>7, NewFeedin
  <2> QED BY <1>1, <1>5, <1>7, <2>1, <2>2, NoSessionRest, ShownOfDischarge DEF Shown
<1> QED BY <1>1, <1>6, <1>7

LEMMA ShownForceDischarge ==
    ASSUME Inv, Shown, NEW soc \in DischargeSocs, handle_force_discharge(soc) PROVE Shown'
<1> DEFINE p == AtLeast0(net)
           begun == [NoSession EXCEPT !.kind = "discharge", !.full = TRUE, !.started = TRUE,
                                      !.power = MaxPower, !.peak = p]
<1>1. profile' = profile /\ session' = begun /\ ServiceDischarge(MaxPower)
  BY Zenon DEF handle_force_discharge
<1> HIDE DEF p
<1>2. /\ begun.kind = "discharge" /\ begun.wake = Never /\ begun.started = TRUE
      /\ begun.suspended = FALSE /\ begun.limit = NoSession.limit /\ begun.baseline = -1
      /\ begun.power = MaxPower
  <2> HIDE DEF NoSession, Never
  <2> QED BY NoSessionTyped, NoSessionRest DEF SessionTyped
<1>3. NoSession.limit \in Nat
  <2> HIDE DEF NoSession
  <2> QED BY NoSessionTyped DEF SessionTyped
<1> HIDE DEF begun, Never, NoSession
<1>4. ForcedAs(session', override')
  BY <1>1, <1>2, ServiceDischargeShown
<1>5. FeedinInv'
  BY <1>1, <1>2, <1>3, NewFeedin
<1> QED BY <1>1, <1>2, <1>4, <1>5, NoSessionRest, ShownOfDischarge DEF Shown

(* The minutes, and what the world does.                                   *)
LEMMA ShownMinute == ASSUME Inv, Shown, Minute PROVE Shown'
<1>1. /\ Typed /\ now' = now + 1 /\ due' = (up /\ DueAt(now + 1)) /\ up' = up /\ ~due
      /\ session' = session /\ override' = override /\ profile' = profile
  BY Zenon DEF Inv, Minute
<1>2. ForcedAs(session', override') /\ Profiled(profile')
  BY <1>1 DEF Shown
<1>3. WakeInv'
  <2>1. session.wake \in 0 .. Never /\ now \in 0 .. Window
    BY <1>1 DEF Shown, WakeInv, Typed
  <2>2. ASSUME session.kind = "charge", ~session.started, ~session.reached, up, ~due'
        PROVE  now + 1 < session.wake
    <3>1. now < session.wake
      BY <1>1, <2>2 DEF Shown, WakeInv
    <3>2. now + 1 # session.wake
      BY <1>1, <2>2 DEF DueAt
    <3> QED BY <2>1, <3>1, <3>2, LoopAssumption DEF Never
  <2> QED BY <1>1, <2>1, <2>2 DEF WakeInv, Never
<1>4. FeedinInv'
  <2>1. session.kind = "discharge" /\ up => due'
    BY <1>1 DEF DueAt
  <2> QED BY <1>1, <2>1 DEF FeedinInv, Shown
<1> QED BY <1>2, <1>3, <1>4 DEF Shown

LEMMA ShownWorld == ASSUME Inv, Shown, DrawChanges \/ Dies \/ UNCHANGED vars PROVE Shown'
<1>1. /\ UNCHANGED <<now, override, session, profile, exported>>
      /\ UNCHANGED <<due, up>> \/ ~up'
  BY DEF DrawChanges, Dies, vars
<1>2. ForcedAs(session', override') /\ Profiled(profile')
  BY <1>1 DEF Shown
<1>3. WakeInv'
  BY <1>1 DEF Shown, WakeInv, Never
<1>4. FeedinInv'
  BY <1>1 DEF Shown, FeedinInv, Spent
<1> QED BY <1>2, <1>3, <1>4 DEF Shown

LEMMA ShownInductive == Inv /\ Shown /\ [Next]_vars => Shown'
<1> SUFFICES ASSUME Inv, Shown, [Next]_vars PROVE Shown'
  OBVIOUS
<1>1. ASSUME NEW soc \in ChargeSocs, NEW target \in Targets, _do_smart_charge(soc, target)
      PROVE  Shown'
  BY <1>1, ShownSmartCharge
<1>2. ASSUME NEW soc \in ChargeSocs, handle_force_charge(soc) PROVE Shown'
  BY <1>2, ShownForceCharge
<1>3. ASSUME NEW soc \in DischargeSocs, NEW limit \in FeedinLimits,
             _do_smart_discharge(soc, limit)
      PROVE  Shown'
  BY <1>3, ShownSmartDischarge
<1>4. ASSUME NEW soc \in DischargeSocs, handle_force_discharge(soc) PROVE Shown'
  BY <1>4, ShownForceDischarge
<1>5. ASSUME Tick \/ Minute \/ DrawChanges \/ Dies \/ UNCHANGED vars PROVE Shown'
  BY <1>5, ShownTick, ShownMinute, ShownWorld
<1> QED BY <1>1, <1>2, <1>3, <1>4, <1>5 DEF Next

-----------------------------------------------------------------------------
(* What the sensors show of a state.                                       *)
LEMMA Overviews ==
    /\ session.kind = "charge" =>
         Overview = IF session.reached THEN "target_reached"
                    ELSE IF session.started \/ session.wake <= now THEN "charging"
                    ELSE "deferred"
    /\ session.kind = "discharge" =>
         Overview = IF ~session.started THEN "discharge_deferred"
                    ELSE IF session.suspended THEN "discharge_suspended"
                    ELSE "discharging"
    /\ session.kind \notin {"charge", "discharge"} => Overview = "idle"
<1>1. CASE session.kind = "charge"
  BY <1>1 DEF Overview, charging, discharging, is_effectively_charging
<1>2. CASE session.kind = "discharge"
  BY <1>2 DEF Overview, charging, discharging
<1>3. CASE session.kind \notin {"charge", "discharge"}
  BY <1>3 DEF Overview, charging, discharging
<1> QED BY <1>1, <1>2, <1>3

LEMMA InForceMode ==
    /\ InForce \in {"ForceCharge", "ForceDischarge"} => override.mode = InForce
    /\ now < override.end => InForce = override.mode
  BY DEF InForce

LEMMA StatesAgree == ASSUME Inv, Shown PROVE StateAgrees
<1>1. /\ ForcedAs(session, override) /\ session.low \in 0 .. 1 /\ now \in Nat
      /\ override.end \in Nat
  BY LoopAssumption DEF Inv, Typed, SessionTyped, OverrideType, Shown
<1>2. ASSUME InForce = "ForceCharge" PROVE Overview = "charging"
  <2>1. session.kind = "charge" /\ session.started /\ ~session.reached
    BY <1>1, <1>2, InForceMode DEF ForcedAs
  <2> QED BY <2>1, Overviews
<1>3. ASSUME InForce = "ForceDischarge" PROVE Overview = "discharging"
  <2>1. session.kind = "discharge" /\ session.started /\ ~session.suspended
    BY <1>1, <1>3, InForceMode DEF ForcedAs
  <2> QED BY <2>1, Overviews
<1>4. ASSUME Overview = "discharging"
      PROVE  \/ InForce = "ForceDischarge"
             \/ session.power = 0 \/ session.low > 0 \/ now >= override.end
             \/ session.full
  <2>1. session.kind = "discharge" /\ session.started /\ ~session.suspended
    <3>1. CASE session.kind = "charge"
      BY <1>4, <3>1, Overviews
    <3>2. CASE session.kind = "discharge"
      BY <1>4, <3>2, Overviews
    <3>3. CASE session.kind \notin {"charge", "discharge"}
      BY <1>4, <3>3, Overviews
    <3> QED BY <3>1, <3>2, <3>3
  <2>2. session.power # 0 /\ session.low = 0 /\ ~session.full => override.mode = "ForceDischarge"
    BY <1>1, <2>1 DEF ForcedAs
  <2>3. session.low = 0 \/ session.low > 0
    BY <1>1
  <2>4. now < override.end \/ now >= override.end
    BY <1>1
  <2> QED BY <2>2, <2>3, <2>4, InForceMode, Zenon
<1> QED BY <1>2, <1>3, <1>4 DEF StateAgrees

LEMMA VerdictsAgree ==
    ASSUME Inv, Shown, Headroom > 0 \/ net < MaxPower PROVE VerdictAgrees
<1> DEFINE buffered(n) == _buffered_charge_hours(profile, energy, session.target, n)
<1> SUFFICES ASSUME remaining > 0, ~_is_charge_reachable PROVE charge_reachability_slack < 0
  BY DEF VerdictAgrees
<1>1. /\ Profiled(profile) /\ energy \in Nat /\ session.target \in Buckets /\ net \in Int
  BY Energies DEF Inv, Typed, SessionTyped, Shown
<1>2. buffered(net) \in Nat /\ buffered(0) \in Nat /\ buffered(0) <= buffered(net)
  BY <1>1, Buffered
<1>3. ~(buffered(0) <= remaining * (100 - Headroom))
  BY DEF _is_charge_reachable, is_charge_target_reachable
<1>4. remaining * (100 - Headroom) \in Int
  BY LoopAssumption, PacingAssumption DEF remaining, Inv, Typed
<1>5. charge_reachability_slack = remaining * (100 - Headroom) - buffered(net)
  BY DEF charge_reachability_slack
<1> HIDE DEF buffered
<1> QED BY <1>2, <1>3, <1>4, <1>5

LEMMA PhasesAre == ASSUME Inv, Shown PROVE PhasesAgree
<1> SUFFICES ASSUME Settled PROVE
      /\ charging /\ ~session.reached =>
           charge_phase = SmartChargeActivePhase /\ charge_phase = Overview
      /\ discharging /\ InForce = "ForceDischarge" => discharge_phase = "discharging"
      /\ OverrideStatus = "Wait" => InForce = "SelfUse" /\ Icon = "deferred"
      /\ OverridePhase = "none" => InForce = "SelfUse"
  BY DEF PhasesAgree
<1>1. /\ ForcedAs(session, override) /\ now \in Nat /\ session.wake \in Int
      /\ override.mode \in {"SelfUse", "ForceCharge", "ForceDischarge"}
  BY LoopAssumption DEF Inv, Typed, OverrideType, Shown, WakeInv
<1>2. InForce \in {"SelfUse", "ForceCharge", "ForceDischarge"}
  BY <1>1 DEF InForce
<1>3. ASSUME charging, ~session.reached
      PROVE  charge_phase = SmartChargeActivePhase /\ charge_phase = Overview
  <2>1. session.kind = "charge" /\ (session.started \/ ~(session.wake <= now))
    BY <1>1, <1>3 DEF Shown, WakeInv, Settled, charging
  <2> QED BY <1>3, <2>1, Overviews
          DEF charge_phase, SmartChargeActivePhase, is_effectively_charging
<1>4. ASSUME discharging, InForce = "ForceDischarge" PROVE discharge_phase = "discharging"
  <2>1. session.started /\ ~session.suspended
    BY <1>1, <1>4, InForceMode DEF ForcedAs
  <2> QED BY <2>1 DEF discharge_phase
<1>5. ASSUME session.kind \notin {"charge", "discharge"} \/ ~session.started PROVE InForce = "SelfUse"
  <2>1. InForce # "ForceCharge"
    BY <1>1, <1>5, InForceMode DEF ForcedAs
  <2>2. InForce # "ForceDischarge"
    BY <1>1, <1>5, InForceMode DEF ForcedAs
  <2> QED BY <1>2, <2>1, <2>2
<1>6. ASSUME OverrideStatus = "Wait" PROVE InForce = "SelfUse" /\ Icon = "deferred"
  <2>1. CASE charging
    <3>1. ~is_effectively_charging
      BY <1>6, <2>1 DEF OverrideStatus, charging, discharging
    <3>2. ~session.started
      BY <3>1 DEF is_effectively_charging
    <3>3. Icon = "deferred"
      BY <2>1, <3>1 DEF Icon, charging, discharging
    <3> QED BY <1>5, <3>2, <3>3
  <2>2. CASE discharging
    <3>1. ~session.started
      BY <1>6, <2>2 DEF OverrideStatus, charging, discharging
    <3>2. Icon = "deferred"
      BY <2>2, <3>1 DEF Icon, charging, discharging
    <3> QED BY <1>5, <3>1, <3>2
  <2>3. CASE ~charging /\ ~discharging
    BY <1>6, <2>3 DEF OverrideStatus
  <2> QED BY <2>1, <2>2, <2>3
<1>7. ASSUME OverridePhase = "none" PROVE InForce = "SelfUse"
  <2>1. ~charging
    <3> SUFFICES ASSUME charging PROVE FALSE
      OBVIOUS
    <3> QED BY <1>7 DEF OverridePhase, charging, discharging
  <2>2. ~discharging
    <3> SUFFICES ASSUME discharging PROVE FALSE
      OBVIOUS
    <3> QED BY <1>7 DEF OverridePhase, charging, discharging
  <2> QED BY <1>5, <2>1, <2>2 DEF charging, discharging
<1> QED BY <1>3, <1>4, <1>6, <1>7

LEMMA PowersAre == ASSUME Inv, Shown PROVE PowersAgree
<1>1. /\ ForcedAs(session, override) /\ override.power \in 0 .. MaxPower /\ MaxPower \in Nat
      /\ Discharge \in Nat /\ (InForce = "ForceDischarge" => Discharge <= override.power)
  BY Flows, PacingAssumption DEF Inv, Typed, OverrideType, Shown
<1>2. ASSUME InForce = "ForceCharge"
      PROVE  ChargePower = override.power /\ OverridePower = ChargePower
  <2>1. session.kind = "charge" /\ session.power = override.power /\ override.power > 0
    BY <1>1, <1>2, InForceMode DEF ForcedAs
  <2>2. session.power # 0 /\ charging
    BY <1>1, <2>1 DEF charging
  <2> QED BY <2>1, <2>2 DEF ChargePower, OverridePower
<1>3. ASSUME InForce = "ForceDischarge"
      PROVE  /\ DischargePower = Discharge /\ OverridePower = DischargePower
             /\ DischargePower <= override.power
  <2>1. session.kind = "discharge" /\ session.started /\ session.power = override.power
    BY <1>1, <1>3, InForceMode DEF ForcedAs
  <2>2. get_actual_discharge_power_w(session.power) = Discharge
    BY <1>1, <1>3, <2>1 DEF get_actual_discharge_power_w, Smaller
  <2>3. ~charging
    BY <2>1 DEF charging
  <2> QED BY <1>1, <1>3, <2>1, <2>2, <2>3 DEF DischargePower, OverridePower
<1> QED BY <1>2, <1>3 DEF PowersAgree

LEMMA KwhLeft == estimate_discharge_remaining.what = "kWh left" => SpentAhead
<1> DEFINE deferred == calculate_discharge_deferred_start(profile, energy, net, session.peak,
                         session.limit, exportLimit, 0, Window)
           shown == estimate_discharge_remaining
<1>1. ASSUME ~SpentAhead
      PROVE  shown \in {Says("defers", deferred - now), Says("left", remaining), Says("ending", 0)}
  <2> HIDE DEF SpentAhead
  <2> QED BY <1>1, Zenon DEF estimate_discharge_remaining
<1>2. \A x : /\ Says("defers", x).what # "kWh left" /\ Says("left", x).what # "kWh left"
            /\ Says("ending", x).what # "kWh left"
  BY DEF Says
<1> HIDE DEF deferred, shown
<1>3. shown.what = "kWh left" => SpentAhead
  BY <1>1, <1>2, Zenon
<1> QED BY <1>3, Zenon DEF shown

LEMMA FeedinsAgree == ASSUME Inv, Shown PROVE FeedinAgrees
<1> SUFFICES ASSUME session.limit # NoLimit, session.baseline >= 0, now > 0, SpentAhead
             PROVE  feedin_projected = session.limit
  BY KwhLeft DEF FeedinAgrees
<1>1. /\ session.limit \in Nat /\ session.baseline \in Nat /\ exported \in Nat /\ now \in Nat
      /\ Window \in Nat
  BY LoopAssumption DEF Inv, Typed, SessionTyped
<1>2. Spent \in Int
  BY <1>1 DEF Spent
<1> DEFINE x == Spent * Window
           q == x \div now
<1>4. x > now * session.limit /\ x \in Int /\ now * session.limit \in Int
  BY <1>1, <1>2 DEF SpentAhead
<1> HIDE DEF x
<1>5. q \in Int /\ x < now * q + now
  BY <1>1, <1>4
<1>6. q >= session.limit
  <2> HIDE DEF q
  <2> SUFFICES ASSUME q + 1 <= session.limit PROVE FALSE
    BY <1>1, <1>5
  <2>1. \A a \in Nat, b, c \in Int : b <= c => a * b <= a * c
    OBVIOUS
  <2>2. now * (q + 1) <= now * session.limit /\ now * (q + 1) = now * q + now
    BY <1>1, <1>5, <2>1
  <2> QED BY <1>4, <1>5, <2>2, <1>1
<1>7. feedin_projected = Smaller(q, session.limit)
  BY DEF feedin_projected, x
<1> HIDE DEF q
<1> QED BY <1>1, <1>5, <1>6, <1>7 DEF Smaller

LEMMA ForecastsAgree == ASSUME Inv, Shown PROVE ForecastAgrees
<1>1. /\ Profiled(profile) /\ energy \in Nat /\ energy \in Int /\ session.power \in Nat /\ MinE \in Int
      /\ session.target \in Buckets /\ session.limit \in Nat
  BY Energies, PacingAssumption DEF Inv, Typed, SessionTyped, Shown
<1>2. ASSUME Settled, discharging, energy >= MinE, session.low = 0, NEW t \in Points
      PROVE  DischargeForecast[t] <= energy
  <2> DEFINE bound == IF session.limit = NoLimit THEN MinE
                      ELSE Larger(MinE, energy - (session.limit - Spent))
             d == -1
             e == project_soc_series({}, session.power, d, bound)[t]
  <2>1. bound \in Int /\ bound <= energy
    <3>1. CASE session.limit = NoLimit
      BY <1>1, <1>2, <3>1
    <3>2. CASE session.limit # NoLimit
      <4>1. Spent <= session.limit
        BY <1>2, <3>2 DEF Shown, FeedinInv, Settled, discharging
      <4>2. Spent \in Int
        BY DEF Spent, Inv, Typed, SessionTyped
      <4> QED BY <1>1, <1>2, <3>2, <4>1, <4>2 DEF Larger
    <3> QED BY <3>1, <3>2
  <2> HIDE DEF bound
  <2>2. d \in {1, -1} /\ d < 0 /\ ~(d > 0)
    OBVIOUS
  <2> HIDE DEF d
  <2>3. (d > 0 => energy <= e) /\ (d < 0 => e <= energy)
    BY <1>1, <2>1, <2>2, Series
  <2>4. DischargeForecast[t] = e
    BY Zenon DEF DischargeForecast, bound, d
  <2> HIDE DEF e
  <2> QED BY <2>2, <2>3, <2>4
<1>3. ASSUME charging, energy <= TargetE, NEW t \in Points
      PROVE  ChargeForecast[t] >= energy
  <2> DEFINE flat == {i \in Points : ForecastFlat(i)}
             power == IF is_effectively_charging THEN session.power
                      ELSE (MaxPower * deferred_power_fraction) \div 10000
             d == 1
             e == project_soc_series(flat, power, d, TargetE)[t]
  <2>1. power \in Nat
    <3>1. deferred_power_fraction \in Nat
      <4>1. 100 - Headroom \in Nat
        BY PacingAssumption
      <4> QED BY <4>1, Products DEF deferred_power_fraction
    <3>2. MaxPower * deferred_power_fraction \in Nat
      BY <3>1, PacingAssumption, Products
    <3>3. \A m \in Nat : m \div 10000 \in Nat
      OBVIOUS
    <3>4. (MaxPower * deferred_power_fraction) \div 10000 \in Nat
      BY <3>2, <3>3
    <3> QED BY <1>1, <3>4
  <2>2. TargetE \in Int
    BY <1>1, SocEnergy, Energies DEF TargetE
  <2> HIDE DEF flat, power, TargetE
  <2>3. d \in {1, -1} /\ d > 0 /\ ~(d < 0)
    OBVIOUS
  <2> HIDE DEF d
  <2>4. (d > 0 => energy <= e) /\ (d < 0 => e <= energy)
    BY <1>1, <1>3, <2>1, <2>2, <2>3, Series
  <2>5. ChargeForecast[t] = e
    <3>1. ChargeForecast = project_soc_series(flat, power, 1, TargetE)
      BY Zenon DEF ChargeForecast, flat, power
    <3>2. d = 1
      BY DEF d
    <3> HIDE DEF d
    <3> QED BY <3>1, <3>2
  <2>6. energy <= e
    BY <2>3, <2>4
  <2> HIDE DEF e
  <2> QED BY <2>5, <2>6
<1> QED BY <1>2, <1>3 DEF ForecastAgrees

-----------------------------------------------------------------------------
(* What the sensors count down after a tick.                               *)
(* The deferred start of a discharge is a whole minute.                    *)
LEMMA DischargeStart ==
    ASSUME NEW bins, Profiled(bins), NEW e \in Nat, NEW n \in Int, NEW peaks \in Nat,
           NEW limit \in Nat, NEW clamp \in Nat
    PROVE  calculate_discharge_deferred_start(bins, e, n, peaks, limit, clamp, 0, Window) \in Int
<1> DEFINE load == Larger(AtLeast0(n), peaks)
           soc == discharge_hundredths(bins, e, n, limit, clamp)
           feedin == feedin_hundredths(load, limit, clamp)
           room == feedin_headroom(load, clamp)
           socDeadline == IF e - MinE <= 0 THEN Window ELSE Window - soc \div (100 - Headroom)
           feedinDeadline == IF limit = NoLimit THEN Window ELSE Window - feedin \div (100 - room)
<1>1. /\ MaxPower \in Nat /\ MaxPower >= 100 /\ Headroom \in 0 .. 25 /\ Window \in Nat
      /\ MinE \in Int /\ load \in Nat
  BY Energies, LoopAssumption, PacingAssumption DEF Larger, AtLeast0
<1>2. soc \in Int
  <2> DEFINE power == MaxPower - AtLeast0(n)
             drain == estimate_discharge_hours(bins, int(e), MinSoc, soc_energy, power)
             spent == (100 * limit) \div Clamped(power, clamp)
  <2>1. power \in Int
    BY <1>1 DEF AtLeast0
  <2> HIDE DEF power
  <2>2. ASSUME power > 0 PROVE drain \in Int /\ spent \in Int
    <3>1. drain \in Nat
      <4> DEFINE S == MinSoc + 1 .. int(e)
      <4>1. MinSoc \in Nat /\ int(e) \in Int
        BY Energies, PacingAssumption DEF int, Buckets
      <4>2. IsFiniteSet(S)
        <5>1. MinSoc + 1 \in Int /\ int(e) \in Int
          BY <4>1
        <5> QED BY <5>1, FS_Interval, Zenon
      <4>3. S \subseteq Int
        BY <4>1
      <4>4. soc_energy \in Nat /\ power \in Nat /\ 0 < power /\ power <= power
        BY <2>1, <2>2, Energies
      <4> HIDE DEF S, soc_energy
      <4>5. _estimate_hours(bins, S, soc_energy, power) \in Nat
        BY <4>2, <4>3, <4>4, Hours
      <4> QED BY <4>5, Zenon DEF estimate_discharge_hours, S
    <3>2. Clamped(power, clamp) \in Nat /\ Clamped(power, clamp) > 0
      BY <2>1, <2>2 DEF Clamped, Smaller
    <3> HIDE DEF drain
    <3> QED BY <3>1, <3>2
  <2>3. soc = IF power <= 0 THEN 0 ELSE IF limit = NoLimit THEN drain ELSE Smaller(drain, spent)
    BY Zenon DEF discharge_hundredths, power, drain, spent
  <2> HIDE DEF soc, drain, spent
  <2> QED BY <2>1, <2>2, <2>3 DEF Smaller
<1>3. feedin \in Int
  <2> DEFINE power == Clamped(MaxPower - load, clamp)
             by == IF power <= 0 THEN MaxPower \div 10 ELSE power
  <2> HIDE DEF load
  <2>1. power \in Int
    BY <1>1 DEF Clamped, Smaller
  <2>2. feedin = (100 * limit) \div by
    BY Zenon DEF feedin_hundredths, power, by
  <2> HIDE DEF power, feedin
  <2>3. by \in Nat /\ by > 0
    BY <1>1, <2>1
  <2> HIDE DEF by
  <2> QED BY <2>2, <2>3
<1>4. room \in Int /\ 100 - room > 0
  <2> HIDE DEF load
  <2> QED BY <1>1 DEF feedin_headroom, Smaller, MAX_FEEDIN_HEADROOM
<1> HIDE DEF soc, feedin, room
<1>5. socDeadline \in Int /\ feedinDeadline \in Int
  BY <1>1, <1>2, <1>3, <1>4
<1>6. calculate_discharge_deferred_start(bins, e, n, peaks, limit, clamp, 0, Window)
        = Larger(0, Smaller(socDeadline, feedinDeadline))
  BY Zenon DEF calculate_discharge_deferred_start, load, soc, feedin, room, socDeadline,
               feedinDeadline
<1> HIDE DEF socDeadline, feedinDeadline
<1> QED BY <1>5, <1>6 DEF Larger, Smaller

OverviewDeferred ==
    /\ Overview = "deferred" =>
         session.kind = "charge" /\ ~session.reached /\ ~session.started /\ ~(session.wake <= now)
    /\ Overview = "discharge_deferred" => session.kind = "discharge" /\ ~session.started

LEMMA OverviewsDeferred == OverviewDeferred
<1>1. CASE session.kind = "charge"
  BY <1>1, Overviews DEF OverviewDeferred
<1>2. CASE session.kind = "discharge"
  BY <1>2, Overviews DEF OverviewDeferred
<1>3. CASE session.kind \notin {"charge", "discharge"}
  BY <1>3, Overviews DEF OverviewDeferred
<1> QED BY <1>1, <1>2, <1>3

LEMMA OverviewsDeferredNext == OverviewDeferred'
  BY OverviewsDeferred, PTL

(* Only Defer puts a charge off.                                           *)
LEMMA ChargeTicks ==
    ASSUME Typed
    PROVE  /\ TargetReached => session'.reached
           /\ StartCharge => session'.started
           /\ _adjust_charge_power => session'.started
<1>1. SessionTyped(session)
  BY DEF Typed
<1>2. ASSUME TargetReached PROVE session'.reached
  <2>1. session' = [session EXCEPT !.reached = TRUE]
    BY <1>2 DEF TargetReached
  <2> QED BY <1>1, <2>1 DEF SessionTyped
<1>3. ASSUME StartCharge PROVE session'.started
  <2> DEFINE power == calculate_charge_power(energy, session.target, net, remaining, FALSE)
  <2>1. session' = [session EXCEPT !.reached = FALSE, !.started = TRUE, !.startedAt = now,
                      !.startEnergy = energy, !.power = power, !.wake = Never]
    BY <1>3, Zenon DEF StartCharge
  <2> HIDE DEF power, Never
  <2> QED BY <1>1, <2>1 DEF SessionTyped
<1>4. ASSUME _adjust_charge_power PROVE session'.started
  <2> DEFINE behind == Behind(energy, session.target, session.startEnergy, now - session.startedAt,
                              Window - session.startedAt, MinPowerChange * remaining)
             power == IF session.full THEN MaxPower
                      ELSE calculate_charge_power(energy, session.target, net, remaining, behind)
             b == ~Reachable
  <2>1. /\ session.started
        /\ \/ session' = [session EXCEPT !.reached = FALSE]
           \/ session' = [session EXCEPT !.reached = FALSE, !.power = power, !.issued = b]
    BY <1>4, Zenon DEF _adjust_charge_power
  <2> HIDE DEF power, b
  <2> QED BY <1>1, <2>1 DEF SessionTyped
<1> QED BY <1>2, <1>3, <1>4

LEMMA ChargeKinds ==
    ASSUME Typed, TargetReached \/ Defer \/ StartCharge \/ _adjust_charge_power
    PROVE  session'.kind = "charge"
<1>1. SessionTyped(session) /\ session.kind = "charge"
  BY Zenon DEF Typed, TargetReached, Defer, StartCharge, _adjust_charge_power, ChargeTick
<1>2. CASE TargetReached
  <2>1. session' = [session EXCEPT !.reached = TRUE]
    BY <1>2 DEF TargetReached
  <2> QED BY <1>1, <2>1 DEF SessionTyped
<1>3. CASE Defer
  <2> DEFINE b == session.issued /\ ~Reachable
  <2>1. session' = [session EXCEPT !.reached = FALSE, !.started = FALSE, !.wake = Deferred,
                                   !.issued = b]
    BY <1>3, Zenon DEF Defer
  <2> HIDE DEF b, Deferred
  <2> QED BY <1>1, <2>1 DEF SessionTyped
<1>4. CASE StartCharge
  <2> DEFINE power == calculate_charge_power(energy, session.target, net, remaining, FALSE)
  <2>1. session' = [session EXCEPT !.reached = FALSE, !.started = TRUE, !.startedAt = now,
                      !.startEnergy = energy, !.power = power, !.wake = Never]
    BY <1>4, Zenon DEF StartCharge
  <2> HIDE DEF power, Never
  <2> QED BY <1>1, <2>1 DEF SessionTyped
<1>5. CASE _adjust_charge_power
  <2> DEFINE behind == Behind(energy, session.target, session.startEnergy, now - session.startedAt,
                              Window - session.startedAt, MinPowerChange * remaining)
             power == IF session.full THEN MaxPower
                      ELSE calculate_charge_power(energy, session.target, net, remaining, behind)
             b == ~Reachable
  <2>1. \/ session' = [session EXCEPT !.reached = FALSE]
        \/ session' = [session EXCEPT !.reached = FALSE, !.power = power, !.issued = b]
    BY <1>5, Zenon DEF _adjust_charge_power
  <2> HIDE DEF power, b
  <2> QED BY <1>1, <2>1 DEF SessionTyped
<1> QED BY <1>2, <1>3, <1>4, <1>5

(* A discharge above its floor is put off by DeferDischarge only.          *)
LEMMA DischargeTicks ==
    ASSUME Inv, Shown,
           \/ _start_deferred_discharge \/ FeedinLimitReached \/ Suspend \/ _apply_discharge_power
           \/ Unpaced \/ WindowEnds
           \/ /\ AtFloor
              /\ energy > MinE
    PROVE  /\ session'.kind # "charge"
           /\ session'.kind = "discharge" => session'.started
<1>1. CASE _start_deferred_discharge
  <2> DEFINE power == calculate_discharge_power(energy, net, peak, remaining, 0, FALSE)
  <2>1. /\ SessionTyped(peaked) /\ session.kind = "discharge" /\ peaked.kind = session.kind
        /\ session' = [peaked EXCEPT !.started = TRUE, !.power = power, !.adjusted = TRUE]
    BY <1>1, Peaked DEF _start_deferred_discharge, DischargeTick, Inv
  <2> HIDE DEF power, peaked
  <2> QED BY <2>1 DEF SessionTyped
<1>2. CASE FeedinLimitReached \/ WindowEnds
  <2>1. session' = Over
    BY <1>2, Zenon DEF FeedinLimitReached, WindowEnds, EndSession
  <2> QED BY <2>1, Zenon DEF Over
<1>3. CASE Suspend
  <2>1. Paced /\ energy > MinE /\ session' = [counted EXCEPT !.suspended = TRUE]
    BY <1>3, Zenon DEF Suspend
  <2>2. SessionTyped(counted) /\ counted.kind = "discharge" /\ counted.started = TRUE
    BY <2>1, PacedShares
  <2> HIDE DEF counted
  <2> QED BY <2>1, <2>2 DEF SessionTyped
<1>4. CASE _apply_discharge_power
  <2> DEFINE feedin == session.limit # NoLimit
             new == calculate_discharge_power(energy, net, peak, remaining,
                                              session.limit - Spent, feedin)
             d == [counted EXCEPT !.suspended = FALSE, !.low = 0, !.adjusted = TRUE]
             update == \/ Distance(new, session.power) >= MinPowerChange
                       \/ new = MaxPower
                       \/ session.suspended
             power == IF update THEN new ELSE session.power
  <2>1. /\ Paced /\ energy > MinE
        /\ session' = [d EXCEPT !.power = 0] \/ session' = [d EXCEPT !.power = power]
    <3>1. Adjusted(new, feedin) /\ Paced /\ energy > MinE
      BY <1>4, Zenon DEF _apply_discharge_power
    <3> QED BY <3>1, Zenon DEF Adjusted
  <2>2. SessionTyped(counted) /\ counted.kind = "discharge" /\ counted.started = TRUE
    BY <2>1, PacedShares
  <2> HIDE DEF power, counted
  <2>3. SessionTyped(d) /\ d.kind = "discharge" /\ d.started = TRUE
    BY <2>2, ResumedDict DEF Resumed
  <2> HIDE DEF d
  <2> QED BY <2>1, <2>3 DEF SessionTyped
<1>5. CASE Unpaced
  <2>1. Paced /\ energy > MinE /\ session' = [counted EXCEPT !.low = 0]
    BY <1>5, Zenon DEF Unpaced
  <2>2. SessionTyped(counted) /\ counted.kind = "discharge" /\ counted.started = TRUE
    BY <2>1, PacedShares
  <2> HIDE DEF counted
  <2> QED BY <2>1, <2>2 DEF SessionTyped
<1>6. ASSUME AtFloor, energy > MinE PROVE FALSE
  <2>1. energy <= MinE
    BY <1>6 DEF AtFloor
  <2> QED BY <1>6, <2>1, Energies DEF Inv, Typed
<1> QED BY <1>1, <1>2, <1>3, <1>4, <1>5, <1>6

LEMMA DischargeKinds ==
    ASSUME Inv, Shown, DeferDischarge \/ AtFloor
    PROVE  session'.kind \in {"discharge", "over"}
<1>1. CASE DeferDischarge
  <2>1. session' = peaked /\ peaked.kind = "discharge"
    BY <1>1, Peaked DEF DeferDischarge, DischargeTick, Inv
  <2> QED BY <2>1
<1>2. CASE AtFloor
  <2>1. Paced /\ (session' = [counted EXCEPT !.low = @ + 1] \/ session' = Over)
    BY <1>2, Zenon DEF AtFloor
  <2>2. SessionTyped(counted) /\ counted.kind = "discharge"
    BY <2>1, PacedShares
  <2>3. Over.kind = "over"
    BY NoSessionTyped
  <2> HIDE DEF counted, Over
  <2> QED BY <2>1, <2>2, <2>3 DEF SessionTyped
<1> QED BY <1>1, <1>2

(* The countdown of a charge the listener puts off ends at its wake.       *)
LEMMA ChargeCountdown ==
    ASSUME Inv, Shown, Still, Defer, Overview' = "deferred"
    PROVE  (/\ now + charge_time_slack = session.wake
            /\ estimate_charge_remaining = Says("starts in", charge_time_slack)
            /\ \A t \in now + 1 .. session.wake - 1 : ForecastFlat(t))'
<1> DEFINE b == session.issued /\ ~Reachable
           wait == Deferred - now
           target == session.target
<1>1. /\ session.kind = "charge" /\ now < Deferred /\ SessionTyped(session)
      /\ session' = [session EXCEPT !.reached = FALSE, !.started = FALSE, !.wake = Deferred,
                                    !.issued = b]
      /\ energy < TargetE /\ remaining > 0
      /\ now' = now /\ energy' = energy /\ net' = net
  BY Zenon DEF Defer, ChargeTick, Inv, Typed, Still
<1>2. Shown'
  BY ShownDefer
<1>3. /\ Profiled(profile') /\ energy \in Nat /\ net \in Int /\ target \in Buckets
      /\ now \in Nat /\ Window \in Nat /\ TargetE \in Int
  BY <1>1, <1>2, SocEnergy, Energies, LoopAssumption
     DEF Shown, Inv, Typed, SessionTyped, TargetE
<1>4. Deferred = calculate_deferred_start(profile', energy, target, net, 0, Window)
  BY DEF Deferred
<1>5. Deferred \in Nat /\ Deferred <= Window
  <2>1. calculate_deferred_start(profile', energy, target, net, 0, Window) \in 0 .. Window
    BY <1>3, DeferredStart
  <2> QED BY <1>3, <1>4, <2>1
<1>6. session'.wake = Deferred /\ session'.target = target
  <2> HIDE DEF b, Deferred
  <2> QED BY <1>1 DEF SessionTyped
<1>7. ~(is_effectively_charging')
  <2>1. ~session'.started /\ ~(session'.wake <= now')
    BY OverviewsDeferredNext DEF OverviewDeferred
  <2> QED BY <2>1 DEF is_effectively_charging
<1>8. calculate_deferred_start(profile, energy, session.target, net, 0, Window)' = Deferred
  BY <1>1, <1>4, <1>6
<1>9. /\ charge_time_slack' = wait /\ TargetE' = TargetE /\ remaining' = remaining
      /\ wait \in Int /\ wait >= 1
  <2>1. charge_time_slack' = AtLeast0(Deferred - now)
    BY <1>1, <1>8 DEF charge_time_slack
  <2>2. Deferred - now \in Int /\ Deferred - now >= 1
    BY <1>1, <1>3, <1>5
  <2>3. TargetE' = TargetE /\ remaining' = remaining
    BY <1>1, <1>6 DEF TargetE, remaining
  <2> HIDE DEF Deferred
  <2> QED BY <2>1, <2>2, <2>3 DEF AtLeast0
<1>10. now' + charge_time_slack' = session'.wake
  <2> HIDE DEF Deferred
  <2> QED BY <1>1, <1>3, <1>5, <1>6, <1>9
<1>11. estimate_charge_remaining' = Says("starts in", charge_time_slack')
  <2>1. ~(remaining' <= 0) /\ ~(energy' >= TargetE') /\ ~(Deferred - now' < 1)
    <3> HIDE DEF Deferred
    <3>1. remaining \in Int
      BY <1>3 DEF remaining
    <3> HIDE DEF remaining, TargetE
    <3> QED BY <1>1, <1>3, <1>5, <1>9, <3>1
  <2>2. estimate_charge_remaining' =
          IF remaining' <= 0 THEN Says("ending", 0)
          ELSE IF is_effectively_charging' \/ energy' >= TargetE' \/ Deferred - now' < 1
          THEN Says("left", remaining')
          ELSE Says("starts in", Deferred - now')
    BY <1>8, Zenon DEF estimate_charge_remaining
  <2>3. estimate_charge_remaining' = Says("starts in", Deferred - now')
    BY <1>7, <2>1, <2>2, Zenon
  <2> QED BY <1>1, <1>9, <2>3, Zenon
<1>12. ASSUME NEW t \in now' + 1 .. session'.wake - 1 PROVE ForecastFlat(t)'
  <2>1. t \in Nat /\ t < Deferred
    <3> HIDE DEF Deferred
    <3> QED BY <1>1, <1>3, <1>5, <1>6
  <2>2. energy_needed(energy, target) = TargetE - energy
    BY DEF energy_needed, TargetE
  <2>3. (Window - t) * MaxPower * deferred_power_fraction > 10000 * (TargetE - energy)
    <3>1. energy_needed(energy, target) > 0
      BY <1>1, <1>3, <2>2
    <3>2. t < calculate_deferred_start(profile', energy, target, net, 0, Window)
      BY <1>4, <2>1
    <3> HIDE DEF target
    <3>3. (Window - t) * MaxPower * deferred_power_fraction > 10000 * energy_needed(energy, target)
      BY <1>3, <2>1, <3>1, <3>2, ForecastWaits
    <3> QED BY <2>2, <3>3
  <2>4. remaining' + now' - t = Window - t
    BY <1>1, <1>3, <2>1 DEF remaining
  <2> QED BY <1>1, <1>7, <1>9, <2>3, <2>4 DEF ForecastFlat
<1> QED BY <1>10, <1>11, <1>12

LEMMA DischargeCountdown ==
    ASSUME Inv, Shown, Still, DeferDischarge
    PROVE  (/\ discharge_time_slack > 0
            /\ estimate_discharge_remaining = Says("defers", discharge_time_slack))'
<1> DEFINE start == calculate_discharge_deferred_start(profile, energy, net, peak, session.limit,
                                                       exportLimit, 0, Window)
<1>1. /\ Typed /\ ~session.started /\ now < start /\ session' = peaked /\ profile' = profile
      /\ UNCHANGED <<now, energy, net, exportLimit>>
  BY DEF DeferDischarge, pre_start, Inv, Still
<1>2. /\ session'.started = session.started /\ session'.peak = peak /\ peak \in Nat
      /\ session'.limit = session.limit
  BY <1>1, Peaked, PeakedRest
<1>3. /\ energy \in Nat /\ net \in Int /\ exportLimit \in Nat /\ session.limit \in Nat
      /\ now \in Nat /\ Profiled(profile)
  BY <1>1, Energies, LoopAssumption DEF Typed, SessionTyped, Shown
<1> HIDE DEF peak
<1>4. start \in Int
  BY <1>2, <1>3, DischargeStart
<1>5. calculate_discharge_deferred_start(profile, energy, net, session.peak, session.limit,
                                         exportLimit, 0, Window)' = start
  BY <1>1, <1>2
<1> HIDE DEF start
<1>6. discharge_time_slack' = start - now /\ start - now > 0
  <2>1. discharge_time_slack' = AtLeast0(start - now)
    BY <1>1, <1>5 DEF discharge_time_slack
  <2> QED BY <1>1, <1>3, <1>4, <2>1 DEF AtLeast0
<1>7. estimate_discharge_remaining' = Says("defers", start - now)
  <2>1. ~session'.started /\ now' < start
    BY <1>1, <1>2
  <2>2. estimate_discharge_remaining' = Says("defers", start - now')
    BY <1>5, <2>1, Zenon DEF estimate_discharge_remaining
  <2> QED BY <1>1, <2>2
<1> QED BY <1>6, <1>7

LEMMA CountdownsAgree == ASSUME Inv, Shown, Tick PROVE CountdownAgrees'
<1>1. Still /\ Typed /\ energy' = energy
  BY DEF Tick, Still, Inv
<1>2. ASSUME Overview' = "deferred" PROVE Defer
  <2>1. session'.kind = "charge" /\ ~session'.reached /\ ~session'.started
    BY <1>2, OverviewsDeferredNext DEF OverviewDeferred
  <2>2. \/ TargetReached \/ Defer \/ StartCharge \/ _adjust_charge_power
        \/ DeferDischarge \/ _start_deferred_discharge \/ FeedinLimitReached
        \/ Suspend \/ _apply_discharge_power \/ Unpaced \/ AtFloor \/ WindowEnds
    BY DEF Tick
  <2>3. ~(DeferDischarge \/ AtFloor)
    BY <2>1, DischargeKinds
  <2>4. ~(\/ _start_deferred_discharge \/ FeedinLimitReached \/ Suspend \/ _apply_discharge_power
          \/ Unpaced \/ WindowEnds)
    BY <2>1, DischargeTicks
  <2> QED BY <1>1, <2>1, <2>2, <2>3, <2>4, ChargeTicks, Zenon
<1>3. ASSUME Overview' = "discharge_deferred", energy' > MinE PROVE DeferDischarge
  <2>1. session'.kind = "discharge" /\ ~session'.started
    BY <1>3, OverviewsDeferredNext DEF OverviewDeferred
  <2>2. \/ TargetReached \/ Defer \/ StartCharge \/ _adjust_charge_power
        \/ DeferDischarge \/ _start_deferred_discharge \/ FeedinLimitReached
        \/ Suspend \/ _apply_discharge_power \/ Unpaced \/ AtFloor \/ WindowEnds
    BY DEF Tick
  <2>3. ~(\/ _start_deferred_discharge \/ FeedinLimitReached \/ Suspend \/ _apply_discharge_power
          \/ Unpaced \/ WindowEnds \/ AtFloor)
    BY <1>1, <1>3, <2>1, DischargeTicks
  <2>4. ~(TargetReached \/ Defer \/ StartCharge \/ _adjust_charge_power)
    BY <1>1, <2>1, ChargeKinds
  <2> QED BY <2>2, <2>3, <2>4, Zenon
<1>4. Overview' = "deferred" =>
        (/\ now + charge_time_slack = session.wake
         /\ estimate_charge_remaining = Says("starts in", charge_time_slack)
         /\ \A t \in now + 1 .. session.wake - 1 : ForecastFlat(t))'
  BY <1>1, <1>2, ChargeCountdown
<1>5. Overview' = "discharge_deferred" /\ energy' > MinE =>
        (/\ discharge_time_slack > 0
         /\ estimate_discharge_remaining = Says("defers", discharge_time_slack))'
  BY <1>1, <1>3, DischargeCountdown
<1> QED BY <1>4, <1>5, Zenon DEF CountdownAgrees

-----------------------------------------------------------------------------
(* The rest of the types.                                                  *)
Rest == /\ net \in Nets /\ exportLimit \in ExportLimits
        /\ due \in BOOLEAN /\ up \in BOOLEAN
        /\ changes \in 0 .. MaxChanges /\ imported \in Nat

LEMMA RestInit == Init => Rest
<1> SUFFICES ASSUME Init PROVE Rest
  OBVIOUS
<1>1. net \in Nets /\ exportLimit \in ExportLimits /\ due = FALSE /\ up = TRUE
  BY Zenon DEF Init
<1>2. changes = 0 /\ imported = 0
  BY Zenon DEF Init
<1>3. changes \in 0 .. MaxChanges /\ imported \in Nat
  BY <1>2, LoopAssumption
<1> QED BY <1>1, <1>3, Zenon DEF Rest

LEMMA RestInductive == Inv /\ Rest /\ [Next]_vars => Rest'
<1> SUFFICES ASSUME Inv, Rest, [Next]_vars PROVE Rest'
  OBVIOUS
<1>1. ASSUME UNCHANGED <<net, exportLimit, due, up, changes, imported>> PROVE Rest'
  BY <1>1 DEF Rest
<1>2. ASSUME NEW soc \in ChargeSocs, NEW target \in Targets, _do_smart_charge(soc, target)
      PROVE  UNCHANGED <<net, exportLimit, due, up, changes, imported>>
  BY <1>2, Zenon DEF _do_smart_charge
<1>3. ASSUME NEW soc \in ChargeSocs, handle_force_charge(soc)
      PROVE  UNCHANGED <<net, exportLimit, due, up, changes, imported>>
  BY <1>3, Zenon DEF handle_force_charge
<1>4. ASSUME NEW soc \in DischargeSocs, NEW limit \in FeedinLimits, _do_smart_discharge(soc, limit)
      PROVE  UNCHANGED <<net, exportLimit, due, up, changes, imported>>
  BY <1>4, Zenon DEF _do_smart_discharge
<1>5. ASSUME NEW soc \in DischargeSocs, handle_force_discharge(soc)
      PROVE  UNCHANGED <<net, exportLimit, due, up, changes, imported>>
  BY <1>5, Zenon DEF handle_force_discharge
<1>6. CASE Tick
  <2>1. due' = FALSE
    BY <1>6, Zenon DEF Tick, TargetReached, Defer, StartCharge, _adjust_charge_power, DeferDischarge,
       _start_deferred_discharge, FeedinLimitReached, Paced, Suspend, _apply_discharge_power,
       Unpaced, AtFloor, WindowEnds
  <2>2. UNCHANGED <<net, exportLimit, up, changes, imported>>
    BY <1>6 DEF Tick
  <2> QED BY <2>1, <2>2 DEF Rest
<1>7. CASE Minute
  <2> DEFINE grid == net + Charge - Discharge
  <2>1. Charge \in Int /\ Discharge \in Nat /\ net \in Int
    BY Flows DEF Inv, Typed
  <2>2. imported' = AtLeast0(grid) /\ UNCHANGED <<net, exportLimit, up, changes>>
    BY <1>7 DEF Minute
  <2>3. imported' \in Nat
    BY <2>1, <2>2 DEF AtLeast0
  <2>4. due' = (up /\ DueAt(now + 1))
    BY <1>7, Zenon DEF Minute
  <2>5. due' \in BOOLEAN
    BY <2>4, Zenon
  <2> QED BY <2>2, <2>3, <2>5 DEF Rest
<1>8. CASE DrawChanges
  BY <1>8, LoopAssumption DEF DrawChanges, Rest
<1>9. CASE Dies
  BY <1>9 DEF Dies, Rest
<1>10. CASE UNCHANGED vars
  BY <1>10 DEF vars, Rest
<1> QED BY <1>1, <1>2, <1>3, <1>4, <1>5, <1>6, <1>7, <1>8, <1>9, <1>10, Zenon DEF Next

(* The types of the session, the override, the profile and the readings,    *)
(* and with them the range of every wake, every power and every horizon.    *)
THEOREM PacingTyped == Spec => []TypeOK
<1> DEFINE Reads == Inv /\ Shown /\ Rest
<1>1. Init => Reads
  BY InvInit, ShownInit, RestInit
<1>2. Reads /\ [Next]_vars => Reads'
  BY InvInductive, ShownInductive, RestInductive
<1>3. Reads => TypeOK
  <2> SUFFICES ASSUME Reads PROVE TypeOK
    OBVIOUS
  <2>1. session \in Session
    <3>1. SessionTyped(session) /\ session.wake \in 0 .. Never
      BY DEF Inv, Typed, Shown, WakeInv
    <3> HIDE DEF Never
    <3> QED BY <3>1 DEF SessionTyped, Session
  <2>2. /\ now \in 0 .. Window /\ energy \in 0 .. Capacity /\ exported \in Nat
        /\ override \in OverrideType
    BY DEF Inv, Typed
  <2>3. DOMAIN profile \subseteq Buckets /\ \A k \in DOMAIN profile : profile[k] \in TaperBin
    BY DEF Shown, Profiled
  <2> QED BY <2>1, <2>2, <2>3, Zenon DEF TypeOK, Rest, OverrideType
<1> HIDE DEF Reads
<1> QED BY <1>1, <1>2, <1>3, PTL DEF Spec

(* C-038, C-020: what the sensors work out for themselves of a session      *)
(* (sensor_base.py) is what the listener decided, and the same on each of   *)
(* them, at every moment and, of a countdown, when it decides.  With no     *)
(* headroom a house that takes all of the inverter leaves no power to       *)
(* divide by.                                                               *)
THEOREM SensorsAgreeAlways ==
    ASSUME Headroom > 0 \/ \A n \in Nets : n < MaxPower
    PROVE  Spec => SensorsAgree
<1> DEFINE Reads == Inv /\ Shown /\ Rest
           Agrees == /\ StateAgrees /\ VerdictAgrees /\ PhasesAgree /\ PowersAgree
                     /\ FeedinAgrees /\ ForecastAgrees
           Counts == (Tick /\ up /\ session.kind # "over") => CountdownAgrees'
<1>1. Init => Reads
  BY InvInit, ShownInit, RestInit
<1>2. Reads /\ [Next]_vars => Reads'
  BY InvInductive, ShownInductive, RestInductive
<1>3. Reads => Agrees
  <2> SUFFICES ASSUME Reads PROVE Agrees
    OBVIOUS
  <2>1. Headroom > 0 \/ net < MaxPower
    BY DEF Rest
  <2>2. VerdictAgrees
    BY <2>1, VerdictsAgree
  <2> QED BY <2>2, StatesAgree, PhasesAre, PowersAre, FeedinsAgree, ForecastsAgree
<1>4. Reads => Counts
  BY CountdownsAgree, Zenon
<1>5. Agrees' /\ Counts =>
        /\ StateAgrees' /\ VerdictAgrees' /\ PhasesAgree' /\ PowersAgree'
        /\ FeedinAgrees' /\ ForecastAgrees'
        /\ (Tick /\ up /\ session.kind # "over") => CountdownAgrees'
  BY Zenon
<1> HIDE DEF Reads, Agrees, Counts
<1> QED BY <1>1, <1>2, <1>3, <1>4, <1>5, PTL DEF Spec, SensorsAgree
=============================================================================
