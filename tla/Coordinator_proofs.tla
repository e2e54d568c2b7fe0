------------------------- MODULE Coordinator_proofs -------------------------
(***************************************************************************)
(* The SoC estimate rounds to the SoC that is shown, and no feed-in is     *)
(* counted twice, for every value of the constants.                        *)
(***************************************************************************)
EXTENDS Coordinator, TLAPS

(* A value in the bucket of r rounds to r, and clamping always gives one.  *)
LEMMA WithinBounds ==
    ASSUME NEW lo \in Int, NEW hi \in Int, lo <= hi, NEW x \in Int
    PROVE  Within(lo, hi, x) \in Int /\ lo <= Within(lo, hi, x) /\ Within(lo, hi, x) <= hi
  BY DEF Within

LEMMA ClampedRounds ==
    ASSUME NEW r \in Int, NEW x \in Int
    PROVE  Clamped(r, x) \in Int /\ 100 * r - 50 <= Clamped(r, x) /\ Clamped(r, x) <= 100 * r + 44
  BY WithinBounds DEF Clamped

LEMMA Hundredths ==
    ASSUME NEW s \in Int, 0 <= s, s <= Full + 50 PROVE s \div 100 \in 0 .. 100
  BY DEF Full

LEMMA RoundedType == ASSUME NEW s \in 0 .. Full PROVE Rounded(s) \in 0 .. 100
  <1>1. s + 50 \in Int /\ 0 <= s + 50 /\ s + 50 <= Full + 50
    BY DEF Full
  <1> QED BY <1>1, Hundredths DEF Rounded

LEMMA HalfType == ASSUME NEW s \in Int PROVE s \div 2 \in Int
  OBVIOUS

LEMMA ProductType == ASSUME NEW a \in Int, NEW b \in Int PROVE a * b \in Int
  OBVIOUS

LEMMA NatProduct == ASSUME NEW a \in Nat, NEW b \in Nat PROVE a * b \in Nat
  OBVIOUS

LEMMA FullType == Full \in Nat
  BY DEF Full

LEMMA WithinFull == ASSUME NEW x \in Int PROVE Within(0, Full, x) \in 0 .. Full
  BY WithinBounds, FullType

-----------------------------------------------------------------------------
Percent == 0 .. 100
Bats == {f.bat : f \in Flows}
Exports == {f.export : f \in Flows}
Times == 0 .. clock
ReadingType == [soc : Percent, bat : Bats, export : Exports, feedin : Nat, at : Times]

(* A percent and an estimate beside it that rounds to it.                  *)
Paired(s, x) == s \in Percent /\ x \in Int /\ 100 * s - 50 <= x /\ x <= 100 * s + 44

LEMMA ClampedPairs ==
    ASSUME NEW r \in Percent, NEW x \in Int PROVE Paired(r, Clamped(r, x))
  <1>1. r \in Int
    BY DEF Percent
  <1> QED BY <1>1, ClampedRounds DEF Paired

LEMMA PairedBounds == ASSUME NEW s, NEW x, Paired(s, x) PROVE x \in -50 .. Full + 44
  <1>1. s \in Int /\ 0 <= s /\ s <= 100 /\ x \in Int /\ 100 * s - 50 <= x /\ x <= 100 * s + 44
    BY DEF Paired, Percent
  <1>2. 0 <= 100 * s /\ 100 * s <= 100 * 100
    BY <1>1
  <1>3. -50 <= x /\ x <= Full + 44
    BY <1>1, <1>2 DEF Full
  <1> QED BY <1>1, <1>3, FullType

LEMMA RoundedPercent == ASSUME NEW s \in 0 .. Full PROVE Rounded(s) \in Percent
  BY RoundedType DEF Percent

(* The parts of the state, each with its type.                             *)
PlantInv == flow \in Flows /\ soc \in 0 .. Full /\ meter \in Nat
DataInv ==
    /\ data \in [soc : Percent, interp : Int, bat : Bats, export : Exports, feedin : Nat,
                 source : {"api", "ws"}, temp : BOOLEAN]
    /\ Paired(data.soc, data.interp)
EstimateInv ==
    /\ interp = data.interp /\ reported = data.soc
    /\ lastBat \in Bats /\ wsFeedin \in Exports \union {0}
    /\ lastTime \in Times /\ rest.at <= lastTime
    /\ lastInject \in {None} \union Times
PollInv ==
    /\ poll \in [pc : {"idle", "reading", "merging"}, since : Times,
                 r : {None} \union ReadingType]
    /\ poll.pc = "merging" => poll.r \in ReadingType
    /\ rest \in ReadingType
ClockInv ==
    /\ clock \in 0 .. Horizon
    /\ asOf \in Times /\ refresh \in 0 .. Never /\ extrap \in 0 .. Never
    /\ polled \in Times /\ setbacks \in Nat
    /\ bms \in [last : {None} \union Times, since : {None} \union Times]
    /\ ws \in [up : BOOLEAN, heard : Times, accepted : Flows \union {NoFrame},
               dropping : BOOLEAN]

(* What the frames have added since the last reading is within the most    *)
(* that can be exported until lastTime.                                    *)
FeedinInv ==
    \A most \in Exports :
        (\A f \in Flows : f.export <= most)
            => data.feedin <= rest.feedin + 2 * most * (lastTime - rest.at)

Inv == PlantInv /\ DataInv /\ EstimateInv /\ PollInv /\ ClockInv /\ FeedinInv

LEMMA FlowTypes ==
    /\ Bats \subseteq Int /\ Exports \subseteq Nat
    /\ \A f \in Flows : f.bat \in Bats /\ f.export \in Exports /\ f.bat \in Int /\ f.export \in Nat
  BY CoordinatorAssumption DEF Bats, Exports

LEMMA ConstTypes ==
    /\ PollInterval \in Nat /\ ExtrapInterval \in Nat /\ BmsInterval \in Nat
    /\ Horizon \in Nat /\ Never \in Nat
    /\ \A t \in 0 .. Horizon : t + PollInterval \in 0 .. Never /\ t + ExtrapInterval \in 0 .. Never
  BY CoordinatorAssumption DEF Never

(* The inductive invariant holds in the initial states.                    *)
THEOREM InvInit == Init => Inv
<1> SUFFICES ASSUME Init PROVE Inv
  OBVIOUS
<1>1. PlantInv
  BY CoordinatorAssumption DEF Init, PlantInv
<1>2. Rounded(soc) \in Percent
  BY <1>1, RoundedPercent DEF PlantInv
<1>3. DataInv
  <2>1. data.soc = Rounded(soc) /\ data.interp = 100 * Rounded(soc)
    BY DEF Init
  <2>2. Paired(data.soc, data.interp)
    BY <2>1, <1>2 DEF Paired, Percent
  <2> QED BY <1>1, <1>2, <2>2, FlowTypes DEF Init, DataInv, PlantInv, Percent
<1>4. Reading \in ReadingType
  BY <1>1, <1>2, FlowTypes DEF Init, Reading, ReadingType, PlantInv, Times
<1>5. PollInv
  BY <1>4 DEF Init, PollInv, Idle, Times
<1>6. EstimateInv
  BY <1>1, <1>2, <1>4, FlowTypes DEF Init, EstimateInv, PlantInv, Times, Reading, None
<1>7. ClockInv
  BY ConstTypes DEF Init, ClockInv, Times, None
<1>8. FeedinInv
  <2> SUFFICES ASSUME NEW most \in Exports
               PROVE  data.feedin <= rest.feedin + 2 * most * (lastTime - rest.at)
    BY DEF FeedinInv
  <2>1. data.feedin = 0 /\ rest.feedin = 0 /\ lastTime - rest.at = 0
    BY DEF Init, Reading
  <2> QED BY <2>1, FlowTypes
<1> QED BY <1>1, <1>3, <1>5, <1>6, <1>7, <1>8 DEF Inv

-----------------------------------------------------------------------------
(* What a plausible frame puts into data, and that it counts the feed-in   *)
(* since lastTime once.                                                    *)
LEMMA FrameTypes ==
    ASSUME PlantInv, DataInv, EstimateInv, ClockInv
    PROVE  /\ Frame.soc = Rounded(soc) /\ Paired(Frame.soc, Frame.interp)
           /\ Frame.feedin = data.feedin + FeedinDelta /\ FeedinDelta \in Nat
           /\ Frame \in [soc : Percent, interp : Int, bat : Bats, export : Exports,
                         feedin : Nat, source : {"api", "ws"}, temp : BOOLEAN]
<1>1. Rounded(soc) \in Percent
  BY RoundedPercent DEF PlantInv
<1>2. FeedinDelta \in Nat
  <2>1. wsFeedin + flow.export \in Nat
    BY FlowTypes DEF EstimateInv, PlantInv
  <2>2. clock - lastTime \in Nat
    BY DEF EstimateInv, ClockInv, Times
  <2> QED BY <2>1, <2>2, NatProduct DEF FeedinDelta
<1> DEFINE kept == IF Rounded(soc) # reported THEN Clamped(Rounded(soc), interp) ELSE interp
           energy == ((lastBat + flow.bat) \div 2) * (clock - lastTime)
           inside == Within(0, Full, kept + energy)
<1>3. kept \in Int
  BY <1>1, ClampedPairs DEF EstimateInv, DataInv, Paired
<1>4. energy \in Int
  <2>1. lastBat + flow.bat \in Int /\ clock - lastTime \in Int
    BY FlowTypes DEF EstimateInv, PlantInv, ClockInv, Times
  <2>2. (lastBat + flow.bat) \div 2 \in Int
    BY <2>1, HalfType
  <2> QED BY <2>1, <2>2, ProductType
<1>5. inside \in Int
  <2> HIDE DEF kept, energy
  <2>1. kept + energy \in Int
    BY <1>3, <1>4
  <2> QED BY <2>1, WithinFull
<1>6. Paired(Rounded(soc), Clamped(Rounded(soc), inside))
  <2> HIDE DEF inside
  <2> QED BY <1>1, <1>5, ClampedPairs
<1>7. Frame = [data EXCEPT !.soc = Rounded(soc), !.bat = flow.bat, !.source = "ws",
                           !.interp = Clamped(Rounded(soc), inside),
                           !.export = flow.export, !.feedin = @ + FeedinDelta]
  BY DEF Frame
<1>8. flow.bat \in Bats /\ flow.export \in Exports
  BY FlowTypes DEF PlantInv
<1> DEFINE estimated == Clamped(Rounded(soc), inside)
           percent == Rounded(soc)
<1>9. estimated \in Int
  BY <1>6 DEF Paired
<1> HIDE DEF inside, estimated, percent
<1>10. Frame = [data EXCEPT !.soc = percent, !.bat = flow.bat, !.source = "ws",
                            !.interp = estimated,
                            !.export = flow.export, !.feedin = @ + FeedinDelta]
  BY <1>7 DEF estimated, percent
<1>11. percent \in Percent /\ Paired(percent, estimated)
  BY <1>1, <1>6 DEF estimated, percent
<1>12. data.feedin + FeedinDelta \in Nat
  BY <1>2 DEF DataInv
<1>13. /\ Frame.soc = percent /\ Frame.interp = estimated
       /\ Frame.feedin = data.feedin + FeedinDelta
  BY <1>10 DEF DataInv
<1>14. Frame \in [soc : Percent, interp : Int, bat : Bats, export : Exports,
                  feedin : Nat, source : {"api", "ws"}, temp : BOOLEAN]
  BY <1>8, <1>9, <1>10, <1>11, <1>12 DEF DataInv
<1>15. Frame.soc = Rounded(soc)
  BY <1>13 DEF percent
<1> QED BY <1>2, <1>11, <1>13, <1>14, <1>15

LEMMA ReadingTyped == ASSUME PlantInv, ClockInv PROVE Reading \in ReadingType
<1>1. Rounded(soc) \in Percent
  BY RoundedPercent DEF PlantInv
<1>2. clock \in Times
  BY DEF Times, ClockInv
<1> QED BY <1>1, <1>2, FlowTypes DEF Reading, ReadingType, PlantInv

(* The poll's estimate, from what is left of the last or advanced.         *)
LEMMA PolledPaired ==
    ASSUME PlantInv, DataInv, EstimateInv, ClockInv, NEW r \in ReadingType
    PROVE  Paired(r.soc, Clamped(r.soc, IF r.soc # reported THEN interp ELSE Advanced(r.bat)))
<1>1. r.soc \in Percent /\ r.bat \in Int
  BY FlowTypes DEF ReadingType
<1>2. Advanced(r.bat) \in Int
  <2>1. lastBat + r.bat \in Int /\ clock - lastTime \in Int
    BY <1>1, FlowTypes DEF EstimateInv, ClockInv, Times
  <2>2. ((lastBat + r.bat) \div 2) * (clock - lastTime) \in Int
    BY <2>1, HalfType, ProductType
  <2>3. interp + ((lastBat + r.bat) \div 2) * (clock - lastTime) \in Int
    BY <2>2 DEF EstimateInv, DataInv, Paired
  <2> QED BY <2>3, WithinFull DEF Advanced
<1>3. (IF r.soc # reported THEN interp ELSE Advanced(r.bat)) \in Int
  BY <1>2 DEF EstimateInv, DataInv, Paired
<1> QED BY <1>1, <1>3, ClampedPairs

(* Later ticks and more energy keep a bound that grows with both.          *)
LEMMA GrowingBound ==
    ASSUME NEW f \in Int, NEW base \in Int, NEW most \in Nat, NEW from \in Int, NEW to \in Int,
           NEW now \in Int, NEW rate \in Nat, from <= to, to <= now, rate <= 2 * most,
           f <= base + 2 * most * (to - from)
    PROVE  f + rate * (now - to) <= base + 2 * most * (now - from)
<1>1. rate * (now - to) <= 2 * most * (now - to)
  <2>1. now - to \in Nat
    OBVIOUS
  <2>2. \A a, b, c \in Nat : a <= b => a * c <= b * c
    OBVIOUS
  <2>3. 2 * most \in Nat
    OBVIOUS
  <2> QED BY <2>1, <2>2, <2>3
<1>2. 2 * most * (now - from) = 2 * most * (now - to) + 2 * most * (to - from)
  <2>1. \A a, b, c, d \in Int : a * (b - d) = a * (b - c) + a * (c - d)
    OBVIOUS
  <2>2. 2 * most \in Int
    OBVIOUS
  <2> QED BY <2>1, <2>2
<1>3. rate * (now - to) \in Int /\ 2 * most * (now - to) \in Int /\ 2 * most * (to - from) \in Int
  BY ProductType
<1> QED BY <1>1, <1>2, <1>3

-----------------------------------------------------------------------------
(* The part of the state that says who wrote the data is left alone.       *)
LEMMA FeedinKept ==
    ASSUME FeedinInv, UNCHANGED <<data.feedin, rest, lastTime>> PROVE FeedinInv'
  BY DEF FeedinInv

(* Time moves on: what was in the past still is.                           *)
LEMMA InvTick == ASSUME Inv, Tick PROVE Inv'
<1> USE DEF Inv
<1>1. clock' \in 0 .. Horizon /\ clock' = clock + 1
  BY ConstTypes DEF ClockInv, Tick
<1>2. Times \subseteq Times'
  BY <1>1, ConstTypes DEF Times, ClockInv
<1>3. PlantInv'
  <2>1. soc + flow.bat \in Int /\ meter + 2 * flow.export \in Nat
    BY FlowTypes DEF PlantInv
  <2> QED BY <2>1, WithinFull DEF Tick, PlantInv
<1>4. ReadingType \subseteq ReadingType'
  BY <1>2 DEF ReadingType
<1> QED BY <1>1, <1>2, <1>3, <1>4, FeedinKept
     DEF Tick, DataInv, EstimateInv, PollInv, ClockInv, estimate, bounds

(* The steps that leave the clock alone keep what is said of it.           *)
LEMMA SameTimes == ASSUME UNCHANGED clock PROVE UNCHANGED <<Times, ReadingType>>
  BY DEF Times, ReadingType

LEMMA InvPoll == ASSUME Inv, PollStarts \/ _fetch_all \/ PollFails PROVE Inv'
<1> USE DEF Inv
<1>1. UNCHANGED <<clock, plant, data, asOf, estimate, extrap, bms, ws, rest>>
  BY DEF PollStarts, _fetch_all, PollFails, bounds
<1>2. UNCHANGED <<Times, ReadingType>>
  BY <1>1, SameTimes
<1>3. clock \in Times /\ clock + PollInterval \in 0 .. Never /\ Never \in 0 .. Never
  BY ConstTypes DEF ClockInv, Times
<1>4. PollInv'
  <2>1. CASE PollStarts \/ PollFails
    <3>1. 0 \in Times
      BY ConstTypes DEF Times, ClockInv
    <3>2. poll' \in {[pc |-> "idle", since |-> 0, r |-> None],
                    [pc |-> "reading", since |-> clock, r |-> None]}
      BY <2>1 DEF PollStarts, PollFails, Idle
    <3> QED BY <1>1, <1>2, <1>3, <3>1, <3>2 DEF PollInv
  <2>2. CASE _fetch_all
    BY <1>1, <1>2, <2>2, ReadingTyped DEF PollInv, _fetch_all
  <2> QED BY <2>1, <2>2
<1>5. ClockInv'
  BY <1>1, <1>2, <1>3 DEF ClockInv, PollStarts, _fetch_all, PollFails
<1> QED BY <1>1, <1>2, <1>4, <1>5, FeedinKept DEF plant, estimate, PlantInv, DataInv, EstimateInv

(* Nothing of the poll changes with the push of the data.                  *)
LEMMA InvUpdate == ASSUME Inv, NEW ok \in BOOLEAN, _async_update_data(ok) PROVE Inv'
<1> USE DEF Inv
<1>1. poll.r \in ReadingType
  BY DEF _async_update_data, PollInv
<1>2. UNCHANGED <<clock, plant, lastInject, ws, polled, setbacks>>
  BY DEF _async_update_data
<1>3. UNCHANGED <<Times, ReadingType>>
  BY <1>2, SameTimes
<1> DEFINE r == poll.r
<1>4. /\ reported' = r.soc /\ lastBat' = r.bat /\ lastTime' = clock /\ wsFeedin' = 0
      /\ asOf' = r.at /\ rest' = r /\ poll' = Idle
      /\ interp' = Clamped(r.soc, IF r.soc # reported THEN interp ELSE Advanced(r.bat))
      /\ bms' = [bms EXCEPT !.last = IF ok THEN clock ELSE @]
      /\ refresh' = clock + PollInterval
      /\ extrap' = IF r.bat = 0 THEN Never ELSE clock + ExtrapInterval
  BY DEF _async_update_data, async_set_updated_data, _schedule_soc_extrapolation
<1>5. PICK source \in {"api", "ws"} :
         data' = [soc |-> r.soc, interp |-> interp', bat |-> r.bat, export |-> r.export,
                  feedin |-> r.feedin, temp |-> _preserve_bms_temperature(ok), source |-> source]
  BY DEF _async_update_data, async_set_updated_data
<1>6. Paired(r.soc, interp')
  BY <1>1, <1>4, PolledPaired
<1>7. _preserve_bms_temperature(ok) \in BOOLEAN
  BY DEF _preserve_bms_temperature, DataInv
<1>8. r.soc \in Percent /\ r.bat \in Bats /\ r.export \in Exports /\ r.feedin \in Nat /\ r.at \in Times
  BY <1>1 DEF ReadingType
<1>9. PlantInv'
  BY <1>2 DEF plant, PlantInv
<1>10. DataInv'
  <2>1. interp' \in Int
    BY <1>6 DEF Paired
  <2>2. data'.soc = r.soc /\ data'.interp = interp'
    BY <1>5
  <2> HIDE DEF r
  <2> QED BY <1>5, <1>6, <1>7, <1>8, <2>1, <2>2 DEF DataInv
<1>11. EstimateInv'
  <2>1. data'.soc = r.soc /\ data'.interp = interp'
    BY <1>5
  <2>2. r.at <= clock /\ clock \in Times
    BY <1>8, ConstTypes DEF Times, ClockInv
  <2> QED BY <1>2, <1>3, <1>4, <1>8, <2>1, <2>2 DEF EstimateInv
<1>12. PollInv'
  <2>1. 0 \in Times
    BY ConstTypes DEF Times, ClockInv
  <2> QED BY <1>1, <1>3, <1>4, <2>1 DEF PollInv, Idle
<1>13. ClockInv'
  <2>1. clock \in Times /\ clock + PollInterval \in 0 .. Never /\ Never \in 0 .. Never
        /\ clock + ExtrapInterval \in 0 .. Never
    BY ConstTypes DEF ClockInv, Times
  <2>2. bms' \in [last : {None} \union Times, since : {None} \union Times]
    BY <1>4, <2>1 DEF ClockInv
  <2> HIDE DEF r
  <2> QED BY <1>2, <1>3, <1>4, <1>8, <2>1, <2>2 DEF ClockInv
<1>14. FeedinInv'
  <2> SUFFICES ASSUME NEW most \in Exports
               PROVE  data'.feedin <= rest'.feedin + 2 * most * (lastTime' - rest'.at)
    BY DEF FeedinInv
  <2>1. data'.feedin = r.feedin /\ rest'.feedin = r.feedin /\ rest'.at = r.at /\ lastTime' = clock
    BY <1>4, <1>5
  <2>2. clock - r.at \in Nat /\ most \in Nat
    BY <1>8, FlowTypes, ConstTypes DEF Times, ClockInv
  <2>3. 2 * most * (clock - r.at) \in Nat
    BY <2>2, NatProduct
  <2> HIDE DEF r
  <2> QED BY <1>8, <2>1, <2>3
<1> QED BY <1>9, <1>10, <1>11, <1>12, <1>13, <1>14

-----------------------------------------------------------------------------
LEMMA InvExtrapolation == ASSUME Inv, ExtrapolationTick PROVE Inv'
<1> USE DEF Inv
<1>1. UNCHANGED <<clock, plant, asOf, reported, lastBat, wsFeedin, lastInject, refresh, poll, bms,
                  ws, polled, setbacks, rest>>
  BY DEF ExtrapolationTick
<1>2. UNCHANGED <<Times, ReadingType>>
  BY <1>1, SameTimes
<1>3. clock \in Times /\ clock + ExtrapInterval \in 0 .. Never /\ Never \in 0 .. Never
      /\ lastTime <= clock
  BY ConstTypes DEF ClockInv, EstimateInv, Times
<1>4. extrap' \in 0 .. Never
  BY <1>3 DEF ExtrapolationTick, _schedule_soc_extrapolation
<1>5. PlantInv' /\ PollInv' /\ ClockInv'
  BY <1>1, <1>2, <1>4 DEF plant, PlantInv, PollInv, ClockInv
<1>6. CASE data.source = "ws" \/ clock = lastTime
  BY <1>1, <1>2, <1>5, <1>6, FeedinKept DEF ExtrapolationTick, DataInv, EstimateInv
<1>7. CASE ~(data.source = "ws" \/ clock = lastTime)
  <2>1. /\ interp' = Clamped(reported, Within(0, Full, interp + lastBat * (clock - lastTime)))
        /\ lastTime' = clock /\ data' = [data EXCEPT !.interp = interp']
    BY <1>7 DEF ExtrapolationTick
  <2>2. Within(0, Full, interp + lastBat * (clock - lastTime)) \in Int
    <3>1. lastBat \in Int /\ clock - lastTime \in Int
      BY FlowTypes DEF EstimateInv, ClockInv, Times
    <3>2. lastBat * (clock - lastTime) \in Int
      BY <3>1, ProductType
    <3>3. interp + lastBat * (clock - lastTime) \in Int
      BY <3>2 DEF EstimateInv, DataInv, Paired
    <3> QED BY <3>3, WithinFull
  <2>3. Paired(data.soc, interp')
    <3>1. reported \in Percent /\ reported = data.soc
      BY DEF EstimateInv, DataInv
    <3> QED BY <2>1, <2>2, <3>1, ClampedPairs
  <2>4. interp' \in Int
    BY <2>3 DEF Paired
  <2>5. data'.soc = data.soc /\ data'.interp = interp' /\ data'.feedin = data.feedin
    BY <2>1 DEF DataInv
  <2>6. DataInv'
    BY <2>1, <2>3, <2>4, <2>5 DEF DataInv
  <2>7. EstimateInv'
    <3>1. rest.at <= lastTime'
      BY <1>3, <2>1 DEF EstimateInv, PollInv, ReadingType, ClockInv, Times
    <3> QED BY <1>1, <1>2, <1>3, <2>1, <2>5, <3>1 DEF EstimateInv
  <2>8. FeedinInv'
    <3> SUFFICES ASSUME NEW most \in Exports, \A f \in Flows : f.export <= most
                 PROVE  data'.feedin <= rest'.feedin + 2 * most * (lastTime' - rest'.at)
      BY DEF FeedinInv
    <3>1. data.feedin <= rest.feedin + 2 * most * (lastTime - rest.at)
      BY DEF FeedinInv
    <3>2. /\ data.feedin \in Int /\ rest.feedin \in Int /\ most \in Nat /\ rest.at \in Int
          /\ lastTime \in Int /\ clock \in Int /\ rest.at <= lastTime /\ lastTime <= clock
      BY FlowTypes DEF DataInv, PollInv, ReadingType, EstimateInv, ClockInv, Times
    <3>3. data.feedin + 0 * (clock - lastTime) <= rest.feedin + 2 * most * (clock - rest.at)
      BY <3>1, <3>2, GrowingBound
    <3>4. data.feedin + 0 * (clock - lastTime) = data.feedin
      BY <3>2
    <3> QED BY <1>1, <2>1, <2>5, <3>3, <3>4
  <2> QED BY <1>5, <2>6, <2>7, <2>8
<1> QED BY <1>6, <1>7

LEMMA InvFrame == ASSUME Inv, inject_realtime_data PROVE Inv'
<1> USE DEF Inv
<1>1. /\ UNCHANGED <<clock, plant, poll, polled, setbacks, rest, refresh>>
      /\ ws' = [ws EXCEPT !.heard = clock, !.accepted = flow, !.dropping = FALSE]
      /\ extrap' = Never /\ interp' = Frame.interp /\ reported' = Rounded(soc)
      /\ lastBat' = flow.bat /\ lastTime' = clock /\ lastInject' = clock
      /\ wsFeedin' = flow.export /\ data' = Frame /\ asOf' = clock
  BY DEF inject_realtime_data, ShowFrame
<1>2. UNCHANGED <<Times, ReadingType>>
  BY <1>1, SameTimes
<1>3. clock \in Times /\ Never \in 0 .. Never /\ lastTime <= clock /\ rest.at <= clock
  BY ConstTypes DEF ClockInv, EstimateInv, Times, PollInv, ReadingType
<1>4. bms' \in [last : {None} \union Times, since : {None} \union Times]
  <2>1. bms' \in {bms, [bms EXCEPT !.since = clock]}
    BY DEF inject_realtime_data, _maybe_schedule_bms_fetch
  <2> QED BY <1>3, <2>1 DEF ClockInv
<1>5. PlantInv' /\ PollInv'
  BY <1>1, <1>2 DEF plant, PlantInv, PollInv
<1>6. DataInv'
  BY <1>1, FrameTypes DEF DataInv
<1>7. EstimateInv'
  <2>1. flow.bat \in Bats /\ flow.export \in Exports
    BY FlowTypes DEF PlantInv
  <2> QED BY <1>1, <1>2, <1>3, <2>1, FrameTypes DEF EstimateInv
<1>8. ClockInv'
  <2>1. ws' \in [up : BOOLEAN, heard : Times, accepted : Flows \union {NoFrame}, dropping : BOOLEAN]
    BY <1>1, <1>3 DEF ClockInv, PlantInv
  <2> QED BY <1>1, <1>2, <1>3, <1>4, <2>1 DEF ClockInv
<1>9. FeedinInv'
  <2> SUFFICES ASSUME NEW most \in Exports, \A f \in Flows : f.export <= most
               PROVE  data'.feedin <= rest'.feedin + 2 * most * (lastTime' - rest'.at)
    BY DEF FeedinInv
  <2>1. data.feedin <= rest.feedin + 2 * most * (lastTime - rest.at)
    BY DEF FeedinInv
  <2>2. /\ data.feedin \in Int /\ rest.feedin \in Int /\ most \in Nat /\ rest.at \in Int
        /\ lastTime \in Int /\ clock \in Int /\ rest.at <= lastTime /\ lastTime <= clock
    BY FlowTypes DEF DataInv, PollInv, ReadingType, EstimateInv, ClockInv, Times
  <2>3. wsFeedin + flow.export \in Nat /\ wsFeedin + flow.export <= 2 * most
    <3>1. wsFeedin \in Nat /\ wsFeedin <= most
      BY FlowTypes DEF EstimateInv, Exports
    <3>2. flow.export \in Nat /\ flow.export <= most
      BY FlowTypes DEF PlantInv
    <3> QED BY <2>2, <3>1, <3>2
  <2>4. data.feedin + (wsFeedin + flow.export) * (clock - lastTime)
          <= rest.feedin + 2 * most * (clock - rest.at)
    BY <2>1, <2>2, <2>3, GrowingBound
  <2>5. data'.feedin = data.feedin + (wsFeedin + flow.export) * (clock - lastTime)
    BY <1>1, FrameTypes DEF FeedinDelta
  <2> QED BY <1>1, <2>4, <2>5
<1> QED BY <1>5, <1>6, <1>7, <1>8, <1>9

(* A flow, the stream's state and a push of data that is as it was, but    *)
(* for the badge and the temperature.                                      *)
LEMMA InvRest ==
    ASSUME Inv, FlowChanges \/ StreamUp \/ StreamDown \/ FrameDropped \/ SessionPushes
                \/ \E ok \in BOOLEAN : BmsDone(ok)
    PROVE  Inv'
<1> USE DEF Inv
<1>1. UNCHANGED <<clock, soc, meter, asOf, estimate, extrap, poll, polled, rest>>
  BY DEF FlowChanges, StreamUp, StreamDown, FrameDropped, SessionPushes, BmsDone, plant
<1>2. UNCHANGED <<Times, ReadingType>>
  BY <1>1, SameTimes
<1>3. clock \in Times /\ clock + PollInterval \in 0 .. Never
  BY ConstTypes DEF ClockInv, Times
<1>4. PlantInv'
  BY <1>1 DEF FlowChanges, StreamUp, StreamDown, FrameDropped, SessionPushes, BmsDone, plant, PlantInv
<1>5. data' \in {data, [data EXCEPT !.source = "api"], [data EXCEPT !.temp = TRUE]}
  BY DEF FlowChanges, StreamUp, StreamDown, FrameDropped, SessionPushes, BmsDone,
         async_set_updated_data
<1>6. data'.soc = data.soc /\ data'.interp = data.interp /\ data'.feedin = data.feedin
  BY <1>5 DEF DataInv
<1>7. DataInv'
  BY <1>5, <1>6 DEF DataInv
<1>8. EstimateInv' /\ PollInv' /\ FeedinInv'
  BY <1>1, <1>2, <1>6, FeedinKept DEF estimate, EstimateInv, PollInv
<1>9. refresh' \in 0 .. Never /\ setbacks' \in Nat
  BY <1>3 DEF FlowChanges, StreamUp, StreamDown, FrameDropped, SessionPushes, BmsDone,
              async_set_updated_data, ClockInv
<1>10. ws' \in [up : BOOLEAN, heard : Times, accepted : Flows \union {NoFrame}, dropping : BOOLEAN]
  <2>1. ws' \in {ws, [up |-> TRUE, heard |-> clock, accepted |-> NoFrame, dropping |-> FALSE],
                  [ws EXCEPT !.up = FALSE], [ws EXCEPT !.heard = clock, !.dropping = TRUE]}
    BY DEF FlowChanges, StreamUp, StreamDown, FrameDropped, SessionPushes, BmsDone
  <2> DEFINE T == Flows \union {NoFrame}
             StreamType == [up : BOOLEAN, heard : Times, accepted : T, dropping : BOOLEAN]
  <2>2. NoFrame \in T /\ ws \in StreamType
    BY DEF ClockInv
  <2> HIDE DEF T
  <2>3. [up |-> TRUE, heard |-> clock, accepted |-> NoFrame, dropping |-> FALSE] \in StreamType
    BY <1>3, <2>2
  <2>4. [ws EXCEPT !.up = FALSE] \in StreamType
    BY <2>2
  <2>5. [ws EXCEPT !.heard = clock, !.dropping = TRUE] \in StreamType
    BY <1>3, <2>2
  <2>6. ws' \in StreamType
    <3> HIDE DEF StreamType
    <3> QED BY <2>1, <2>2, <2>3, <2>4, <2>5
  <2> QED BY <2>6 DEF T
<1>11. bms' \in [last : {None} \union Times, since : {None} \union Times]
  <2>1. bms' = bms \/ bms' = [last |-> clock, since |-> None] \/ bms' = [last |-> bms.last, since |-> None]
    BY DEF FlowChanges, StreamUp, StreamDown, FrameDropped, SessionPushes, BmsDone
  <2> QED BY <1>3, <2>1 DEF ClockInv
<1>12. ClockInv'
  BY <1>1, <1>2, <1>9, <1>10, <1>11 DEF ClockInv
<1> QED BY <1>4, <1>7, <1>8, <1>12

LEMMA InvStutter == ASSUME Inv, UNCHANGED vars PROVE Inv'
  BY DEF vars, plant, estimate, Inv, PlantInv, DataInv, EstimateInv, PollInv, ClockInv, FeedinInv,
         Times, ReadingType

(* Every step keeps it.                                                    *)
THEOREM InvInductive == Inv /\ [Next]_vars => Inv'
  BY InvTick, InvPoll, InvUpdate, InvExtrapolation, InvFrame, InvRest, InvStutter DEF Next

(* It holds in every reachable state.                                      *)
THEOREM Invariant == Spec => []Inv
  BY InvInit, InvInductive, PTL DEF Spec

-----------------------------------------------------------------------------
(* The estimate beside the SoC rounds to it, whoever of the poll, the      *)
(* frames and the extrapolation wrote last.                                *)
THEOREM EstimateRounds == Spec => []RoundsToReported
<1>1. Inv => RoundsToReported
  BY DEF Inv, DataInv, Paired, RoundsToReported
<1> QED BY <1>1, Invariant, PTL

(* No energy is counted twice, whatever mix of frames and polls counted it. *)
THEOREM CountedOnce == Spec => []FeedinCountedOnce
<1>1. ASSUME Inv PROVE FeedinCountedOnce
  <2> SUFFICES ASSUME NEW most \in Exports, \A f \in Flows : f.export <= most
               PROVE  data.feedin <= rest.feedin + 2 * most * (clock - rest.at)
    BY DEF FeedinCountedOnce, Exports
  <2>1. data.feedin <= rest.feedin + 2 * most * (lastTime - rest.at)
    BY <1>1 DEF Inv, FeedinInv
  <2>2. /\ data.feedin \in Int /\ rest.feedin \in Int /\ most \in Nat /\ rest.at \in Int
        /\ lastTime \in Int /\ clock \in Int /\ rest.at <= lastTime /\ lastTime <= clock
    BY <1>1, FlowTypes DEF Inv, DataInv, PollInv, ReadingType, EstimateInv, ClockInv, Times
  <2>3. data.feedin + 0 * (clock - lastTime) <= rest.feedin + 2 * most * (clock - rest.at)
    BY <2>1, <2>2, GrowingBound
  <2>4. data.feedin + 0 * (clock - lastTime) = data.feedin
    BY <2>2
  <2> QED BY <2>3, <2>4
<1> QED BY <1>1, Invariant, PTL

(* The type invariant, from the parts of the inductive one.                *)
THEOREM TypeCorrect == Spec => []TypeOK
<1>1. ASSUME Inv PROVE TypeOK
  <2>1. interp \in -50 .. Full + 44
    BY <1>1, PairedBounds DEF Inv, DataInv, EstimateInv
  <2>2. data \in [soc : 0 .. 100, interp : -50 .. Full + 44, bat : Bats, export : Exports,
                  feedin : Nat, source : {"api", "ws"}, temp : BOOLEAN]
    BY <1>1, <2>1 DEF Inv, DataInv, EstimateInv, Percent
  <2>3. reported \in 0 .. 100 /\ wsFeedin \in Nat
    BY <1>1, <2>2, FlowTypes DEF Inv, EstimateInv
  <2> QED BY <1>1, <2>1, <2>2, <2>3
      DEF TypeOK, Inv, PlantInv, DataInv, EstimateInv, PollInv, ClockInv, Times, Bats, Exports
<1> QED BY <1>1, Invariant, PTL
-----------------------------------------------------------------------------
(* What makes the badge honest: a stream that is up was heard lately, the  *)
(* badge is only there while it is, and what is shown is no older than     *)
(* what was last heard by more than the poll that overwrote it took.       *)
BadgeInv ==
    /\ poll.pc # "idle" => clock <= poll.since + MaxRequest
    /\ poll.pc = "merging" => poll.since <= poll.r.at
    /\ ws.up => clock <= ws.heard + Stale
    /\ data.source = "ws" => ws.up
    /\ data.source = "ws" /\ ~ws.dropping => ws.heard <= asOf + MaxRequest

LEMMA BoundTypes == MaxRequest \in Nat /\ Stale \in Nat
  BY CoordinatorAssumption

(* The times of the invariant are integers, and none lies ahead.           *)
LEMMA TimesPast ==
    ASSUME Inv
    PROVE  /\ clock \in Nat /\ asOf \in Nat /\ ws.heard \in Nat /\ poll.since \in Nat
           /\ polled \in Nat /\ refresh \in Nat
           /\ asOf <= clock /\ ws.heard <= clock /\ poll.since <= clock /\ polled <= clock
           /\ poll.pc = "merging" => poll.r.at \in Nat /\ poll.r.at <= clock
<1> USE DEF Inv
<1>1. clock \in Nat
  BY ConstTypes DEF ClockInv
<1>2. asOf \in Times /\ ws.heard \in Times /\ poll.since \in Times /\ polled \in Times
      /\ (poll.pc = "merging" => poll.r.at \in Times)
  BY DEF ClockInv, PollInv, ReadingType
<1>3. refresh \in Nat
  BY ConstTypes DEF ClockInv
<1> QED BY <1>1, <1>2, <1>3 DEF Times

LEMMA BadgeInit == Init => BadgeInv
  BY BoundTypes DEF Init, BadgeInv, Idle

LEMMA BadgeTick == ASSUME Inv, BadgeInv, Tick PROVE BadgeInv'
<1>1. UNCHANGED <<data, asOf, poll, ws>> /\ clock' = clock + 1
  BY DEF Tick
<1>2. /\ poll.pc # "idle" => clock < poll.since + MaxRequest
      /\ ws.up => clock < ws.heard + Stale
  BY DEF Tick
<1> QED BY <1>1, <1>2, TimesPast, BoundTypes DEF BadgeInv

(* A poll is fresh when it starts, and what it reads it reads after that.  *)
LEMMA BadgePoll ==
    ASSUME Inv, BadgeInv, PollStarts \/ _fetch_all \/ PollFails PROVE BadgeInv'
<1>1. UNCHANGED <<clock, data, asOf, ws>>
  BY DEF PollStarts, _fetch_all, PollFails
<1>2. CASE PollStarts
  <2>1. poll'.pc = "reading" /\ poll'.since = clock
    BY <1>2 DEF PollStarts, Idle
  <2> QED BY <1>1, <2>1, TimesPast, BoundTypes DEF BadgeInv
<1>3. CASE _fetch_all
  <2>1. poll'.since = poll.since /\ poll'.r.at = clock /\ poll.pc # "idle"
    BY <1>3 DEF _fetch_all, Reading, PollInv, Inv
  <2> QED BY <1>1, <2>1, TimesPast, BoundTypes DEF BadgeInv
<1>4. CASE PollFails
  <2>1. poll'.pc = "idle"
    BY <1>4 DEF PollFails, Idle
  <2> QED BY <1>1, <2>1 DEF BadgeInv
<1> QED BY <1>2, <1>3, <1>4

(* The poll keeps the badge only of a stream that is up, and what it shows *)
(* it read since it began.                                                 *)
LEMMA BadgeUpdate == ASSUME Inv, BadgeInv, NEW ok \in BOOLEAN, _async_update_data(ok) PROVE BadgeInv'
<1>1. UNCHANGED <<clock, ws>> /\ poll'.pc = "idle" /\ asOf' = poll.r.at /\ poll.pc = "merging"
  BY DEF _async_update_data, Idle
<1>2. data'.source = IF _ws_recently_injected /\ _is_ws_alive THEN "ws" ELSE "api"
  BY DEF _async_update_data, async_set_updated_data
<1>3. data'.source = "ws" => ws.up
  BY <1>2 DEF _is_ws_alive
<1>4. ws.heard <= asOf' + MaxRequest
  <2>1. clock <= poll.since + MaxRequest /\ poll.since <= poll.r.at
    BY <1>1 DEF BadgeInv
  <2> QED BY <1>1, <2>1, TimesPast, BoundTypes
<1> QED BY <1>1, <1>3, <1>4 DEF BadgeInv

LEMMA BadgeFrame == ASSUME Inv, BadgeInv, inject_realtime_data PROVE BadgeInv'
<1>1. UNCHANGED <<clock, poll>> /\ asOf' = clock /\ ws.up
  BY DEF inject_realtime_data
<1>2. ws'.heard = clock /\ ws'.up
  BY <1>1 DEF inject_realtime_data, Inv, ClockInv
<1> QED BY <1>1, <1>2, TimesPast, BoundTypes DEF BadgeInv

(* A stream that goes takes its badge along; one that comes finds none.    *)
LEMMA BadgeStream ==
    ASSUME Inv, BadgeInv, StreamUp \/ StreamDown \/ FrameDropped PROVE BadgeInv'
<1>1. UNCHANGED <<clock, poll, asOf>>
  BY DEF StreamUp, StreamDown, FrameDropped
<1>2. CASE StreamUp
  <2>1. ws'.heard = clock /\ UNCHANGED data /\ ~ws.up /\ ws'.up
    BY <1>2 DEF StreamUp
  <2> QED BY <1>1, <2>1, TimesPast, BoundTypes DEF BadgeInv
<1>3. CASE StreamDown
  <2>1. data'.source = "api" /\ ~ws'.up
    BY <1>3 DEF StreamDown, async_set_updated_data, Inv, DataInv, ClockInv
  <2> QED BY <1>1, <2>1 DEF BadgeInv
<1>4. CASE FrameDropped
  <2>1. ws'.heard = clock /\ ws'.up /\ ws'.dropping /\ UNCHANGED data
    BY <1>4 DEF FrameDropped, Inv, ClockInv
  <2> QED BY <1>1, <2>1, TimesPast, BoundTypes DEF BadgeInv
<1> QED BY <1>2, <1>3, <1>4

(* No other step touches the badge, or what it vouches for.                *)
LEMMA BadgeOthers ==
    ASSUME Inv, BadgeInv,
           FlowChanges \/ ExtrapolationTick \/ SessionPushes \/ UNCHANGED vars
           \/ \E ok \in BOOLEAN : BmsDone(ok)
    PROVE  BadgeInv'
<1>1. UNCHANGED <<clock, poll, asOf, ws>>
  BY DEF FlowChanges, ExtrapolationTick, SessionPushes, BmsDone, vars
<1>2. data'.source = data.source
  <2>1. \/ data' = data \/ data' = [data EXCEPT !.temp = TRUE]
        \/ data' = [data EXCEPT !.interp = interp']
    BY DEF FlowChanges, ExtrapolationTick, SessionPushes, BmsDone, vars, async_set_updated_data
  <2> QED BY <2>1 DEF Inv, DataInv
<1> QED BY <1>1, <1>2 DEF BadgeInv

(* What is shown with the badge of the stream is no older than the stream  *)
(* may be silent and a request may take (_is_ws_alive, on_disconnect and   *)
(* the poll that keeps the badge).                                         *)
THEOREM BadgeHonest == Spec => []BadgeMeansFresh
<1>1. ASSUME Inv, BadgeInv PROVE BadgeMeansFresh
  <2> SUFFICES ASSUME data.source = "ws", ~ws.dropping PROVE clock - asOf <= Stale + MaxRequest
    BY DEF BadgeMeansFresh
  <2>1. clock <= ws.heard + Stale /\ ws.heard <= asOf + MaxRequest
    BY <1>1 DEF BadgeInv
  <2> QED BY <1>1, <2>1, TimesPast, BoundTypes
<1>2. Inv /\ BadgeInv /\ [Next]_vars => BadgeInv'
  BY BadgeTick, BadgePoll, BadgeUpdate, BadgeFrame, BadgeStream, BadgeOthers DEF Next
<1> QED BY <1>1, <1>2, BadgeInit, Invariant, PTL DEF Spec
-----------------------------------------------------------------------------
(* The poll keeps its cadence.  Lag(s) is what s avoidable pushes and the  *)
(* interval itself may cost; a temperature that is on its way, or that the *)
(* next frame may send for, has one push of its own to come.               *)
Lag(s) == (2 * s + 1) * PollInterval
FetchDue == bms.since # None \/ bms.last = None \/ bms.last + BmsInterval <= refresh
ToCome == IF FetchDue THEN 0 ELSE PollInterval

CadenceInv ==
    /\ clock <= refresh
    /\ poll.pc # "idle" => polled = poll.since /\ clock <= polled + MaxRequest
    /\ poll.pc = "idle" => refresh <= polled + MaxRequest + Lag(setbacks) + ToCome

LEMMA LagGrows ==
    ASSUME NEW s \in Nat
    PROVE  /\ Lag(s) \in Nat /\ PollInterval <= Lag(s)
           /\ Lag(s + 1) = Lag(s) + 2 * PollInterval
           /\ 2 * (1 + s) * PollInterval = Lag(s) + PollInterval
<1>1. \A n, p \in Nat : /\ (2 * n + 1) * p \in Nat /\ p <= (2 * n + 1) * p
                       /\ (2 * (n + 1) + 1) * p = (2 * n + 1) * p + 2 * p
                       /\ 2 * (1 + n) * p = (2 * n + 1) * p + p
  <2> SUFFICES ASSUME NEW n \in Nat, NEW p \in Nat
               PROVE  /\ (2 * n + 1) * p \in Nat /\ p <= (2 * n + 1) * p
                      /\ (2 * (n + 1) + 1) * p = (2 * n + 1) * p + 2 * p
                      /\ 2 * (1 + n) * p = (2 * n + 1) * p + p
    OBVIOUS
  <2>1. n * p \in Nat
    BY NatProduct
  <2>2. (2 * n + 1) * p = 2 * (n * p) + p
    OBVIOUS
  <2>3. (2 * (n + 1) + 1) * p = 2 * (n * p) + 3 * p
    OBVIOUS
  <2>4. 2 * (1 + n) * p = 2 * (n * p) + 2 * p
    OBVIOUS
  <2> QED BY <2>1, <2>2, <2>3, <2>4
<1> QED BY <1>1, ConstTypes DEF Lag

LEMMA ToComeType == ToCome \in Nat /\ ToCome <= PollInterval
  BY ConstTypes DEF ToCome

LEMMA CadenceTypes ==
    ASSUME Inv
    PROVE  /\ setbacks \in Nat /\ bms.since \in {None} \union Times
           /\ bms.last \in {None} \union Times /\ None \notin Times
  BY ConstTypes DEF Inv, ClockInv, Times, None

LEMMA CadenceInit == Init => CadenceInv
<1> SUFFICES ASSUME Init PROVE CadenceInv
  OBVIOUS
<1>1. clock = 0 /\ refresh = PollInterval /\ poll.pc = "idle" /\ polled = 0 /\ setbacks = 0
  BY DEF Init, Idle
<1>2. PollInterval <= Lag(0) /\ Lag(0) \in Nat
  BY LagGrows
<1> QED BY <1>1, <1>2, ToComeType, BoundTypes, ConstTypes DEF CadenceInv

LEMMA CadenceTick == ASSUME Inv, CadenceInv, Tick PROVE CadenceInv'
<1>1. UNCHANGED <<poll, polled, refresh, setbacks, bms>> /\ clock' = clock + 1
  BY DEF Tick, bounds
<1>2. clock < refresh /\ (poll.pc # "idle" => clock < poll.since + MaxRequest)
  BY DEF Tick
<1>3. UNCHANGED ToCome
  BY <1>1 DEF ToCome, FetchDue
<1> QED BY <1>1, <1>2, <1>3, TimesPast, BoundTypes DEF CadenceInv

(* A poll that ends sets the timer an interval ahead, and it took no       *)
(* longer than a request may.                                              *)
LEMMA CadencePollEnds ==
    ASSUME Inv, CadenceInv, poll.pc # "idle", poll'.pc = "idle",
           refresh' = clock + PollInterval, UNCHANGED <<clock, polled, setbacks>>
    PROVE  CadenceInv'
<1>1. clock <= polled + MaxRequest
  BY DEF CadenceInv
<1>2. PollInterval <= Lag(setbacks) /\ Lag(setbacks) \in Nat
  BY LagGrows, CadenceTypes
<1>3. ToCome' \in Nat
  BY ConstTypes DEF ToCome
<1>4. clock <= refresh'
  BY TimesPast, ConstTypes
<1>5. refresh' <= polled + MaxRequest + Lag(setbacks) + ToCome'
  BY <1>1, <1>2, <1>3, TimesPast, BoundTypes, ConstTypes
<1> QED BY <1>4, <1>5 DEF CadenceInv

(* An avoidable push costs two intervals: one, and what a fetch had to     *)
(* come.                                                                   *)
LEMMA CadencePush ==
    ASSUME Inv, CadenceInv, refresh' = clock + PollInterval, setbacks' = setbacks + 1,
           UNCHANGED <<clock, poll, polled>>
    PROVE  CadenceInv'
<1>1. clock <= refresh' /\ refresh' <= refresh + PollInterval
  BY TimesPast, ConstTypes DEF CadenceInv
<1>2. Lag(setbacks') = Lag(setbacks) + 2 * PollInterval /\ Lag(setbacks) \in Nat
  BY LagGrows, CadenceTypes
<1>3. ToCome' \in Nat
  BY ConstTypes DEF ToCome
<1>4. ASSUME poll.pc = "idle"
      PROVE  refresh' <= polled + MaxRequest + Lag(setbacks') + ToCome'
  <2>1. refresh <= polled + MaxRequest + Lag(setbacks) + ToCome
    BY <1>4 DEF CadenceInv
  <2> QED BY <1>1, <1>2, <1>3, <2>1, ToComeType, TimesPast, BoundTypes, ConstTypes
<1> QED BY <1>1, <1>4 DEF CadenceInv

LEMMA CadencePoll ==
    ASSUME Inv, CadenceInv,
           PollStarts \/ _fetch_all \/ PollFails \/ \E ok \in BOOLEAN : _async_update_data(ok)
    PROVE  CadenceInv'
<1>1. CASE PollStarts
  <2>1. poll'.pc = "reading" /\ poll'.since = clock /\ polled' = clock /\ clock' = clock
        /\ refresh' = Never
    BY <1>1 DEF PollStarts, Idle
  <2>2. clock <= Never
    BY ConstTypes, CoordinatorAssumption DEF Never, Inv, ClockInv
  <2> QED BY <2>1, <2>2, TimesPast, BoundTypes DEF CadenceInv
<1>2. CASE _fetch_all
  <2>1. UNCHANGED <<clock, refresh, polled>> /\ poll.pc # "idle" /\ poll'.pc = "merging"
        /\ poll'.since = poll.since
    BY <1>2 DEF _fetch_all, Inv, PollInv
  <2> QED BY <2>1 DEF CadenceInv
<1>3. CASE PollFails
  <2>1. UNCHANGED <<clock, polled, setbacks>> /\ poll.pc # "idle" /\ poll'.pc = "idle"
        /\ refresh' = clock + PollInterval
    BY <1>3 DEF PollFails, Idle
  <2> QED BY <2>1, CadencePollEnds
<1>4. CASE \E ok \in BOOLEAN : _async_update_data(ok)
  <2>1. UNCHANGED <<clock, polled, setbacks>> /\ poll.pc # "idle" /\ poll'.pc = "idle"
        /\ refresh' = clock + PollInterval
    BY <1>4 DEF _async_update_data, Idle, async_set_updated_data
  <2> QED BY <2>1, CadencePollEnds
<1> QED BY <1>1, <1>2, <1>3, <1>4

(* A frame leaves the timer alone, and sends for a temperature only when   *)
(* one is due.                                                             *)
LEMMA CadenceFrame == ASSUME Inv, CadenceInv, inject_realtime_data PROVE CadenceInv'
<1>1. UNCHANGED <<clock, poll, polled, setbacks, refresh>>
  BY DEF inject_realtime_data, ShowFrame
<1>2. FetchDue' => FetchDue
  <2>1. CASE bms' = bms
    BY <1>1, <2>1 DEF FetchDue
  <2>2. CASE bms' # bms
    <3>1. bms.last = None \/ clock - bms.last >= BmsInterval
      BY <2>2 DEF inject_realtime_data, _maybe_schedule_bms_fetch
    <3>2. bms.last \in {None} \union Times
      BY CadenceTypes
    <3> QED BY <3>1, <3>2, TimesPast, ConstTypes DEF FetchDue, CadenceInv, Times
  <2> QED BY <2>1, <2>2
<1>3. ToCome <= ToCome' /\ ToCome' \in Nat
  BY <1>2, ConstTypes DEF ToCome
<1>4. Lag(setbacks) \in Nat
  BY LagGrows, CadenceTypes
<1> QED BY <1>1, <1>3, <1>4, TimesPast, BoundTypes, ToComeType DEF CadenceInv

(* The push of a temperature that came takes the place of the one to come: *)
(* the next is not due before the poll is.                                 *)
LEMMA CadenceFetch ==
    ASSUME Inv, CadenceInv, BmsInterval > PollInterval, NEW ok \in BOOLEAN, BmsDone(ok)
    PROVE  CadenceInv'
<1>1. UNCHANGED <<clock, poll, polled>> /\ bms.since # None
      /\ bms' = [last |-> IF ok THEN clock ELSE bms.last, since |-> None]
  BY DEF BmsDone
<1>2. CASE ok
  <2>1. refresh' = clock + PollInterval /\ setbacks' = setbacks
    BY <1>2 DEF BmsDone, _preserve_bms_temperature, async_set_updated_data
  <2>2. ~FetchDue'
    <3>1. bms'.since = None /\ bms'.last = clock
      BY <1>1, <1>2
    <3> QED BY <2>1, <3>1, TimesPast, ConstTypes DEF FetchDue, None
  <2>3. ToCome = 0 /\ ToCome' = PollInterval
    BY <1>1, <2>2 DEF ToCome, FetchDue
  <2>4. clock <= refresh' /\ refresh' <= refresh + PollInterval
    BY <2>1, TimesPast, ConstTypes DEF CadenceInv
  <2>5. Lag(setbacks) \in Nat
    BY LagGrows, CadenceTypes
  <2> QED BY <1>1, <2>1, <2>3, <2>4, <2>5, TimesPast, BoundTypes, ConstTypes DEF CadenceInv
<1>3. CASE ~ok /\ data.temp
  <2>1. refresh' = clock + PollInterval /\ setbacks' = setbacks + 1
    BY <1>3 DEF BmsDone, _preserve_bms_temperature, async_set_updated_data
  <2> QED BY <1>1, <2>1, CadencePush
<1>4. CASE ~ok /\ ~data.temp
  <2>1. UNCHANGED <<refresh, setbacks>>
    BY <1>4 DEF BmsDone, _preserve_bms_temperature
  <2>2. ToCome = 0 /\ ToCome' \in Nat
    BY <1>1, ConstTypes DEF ToCome, FetchDue
  <2>3. Lag(setbacks) \in Nat
    BY LagGrows, CadenceTypes
  <2> QED BY <1>1, <2>1, <2>2, <2>3, TimesPast, BoundTypes DEF CadenceInv
<1> QED BY <1>2, <1>3, <1>4

LEMMA CadenceOthers ==
    ASSUME Inv, CadenceInv,
           FlowChanges \/ ExtrapolationTick \/ StreamUp \/ StreamDown \/ FrameDropped
           \/ SessionPushes \/ UNCHANGED vars
    PROVE  CadenceInv'
<1>1. CASE StreamDown \/ SessionPushes
  <2>1. refresh' = clock + PollInterval /\ setbacks' = setbacks + 1
        /\ UNCHANGED <<clock, poll, polled>>
    BY <1>1 DEF StreamDown, SessionPushes, async_set_updated_data
  <2> QED BY <2>1, CadencePush
<1>2. CASE FlowChanges \/ ExtrapolationTick \/ StreamUp \/ FrameDropped \/ UNCHANGED vars
  <2>1. UNCHANGED <<clock, poll, polled, refresh, setbacks, bms>>
    BY <1>2 DEF FlowChanges, ExtrapolationTick, StreamUp, FrameDropped, vars
  <2>2. UNCHANGED ToCome
    BY <2>1 DEF ToCome, FetchDue
  <2> QED BY <2>1, <2>2 DEF CadenceInv
<1> QED BY <1>1, <1>2

(* The REST poll is never starved by frames, by fetches of the temperature *)
(* that are rarer than it is, or by more than two intervals for each of    *)
(* the other pushes (async_set_updated_data).                              *)
THEOREM PollKept == Spec => []PollOnCadence
<1> DEFINE Rare == BmsInterval > PollInterval
           Kept == Rare => CadenceInv
<1>1. ASSUME Inv, Kept PROVE PollOnCadence
  <2> SUFFICES ASSUME Rare
               PROVE  clock - polled <= 2 * (1 + setbacks) * PollInterval + MaxRequest
    BY DEF PollOnCadence
  <2>1. Lag(setbacks) \in Nat /\ 2 * (1 + setbacks) * PollInterval = Lag(setbacks) + PollInterval
    BY <1>1, LagGrows, CadenceTypes
  <2>2. CadenceInv
    BY <1>1
  <2>3. CASE poll.pc = "idle"
    <3>1. clock <= refresh /\ refresh <= polled + MaxRequest + Lag(setbacks) + ToCome
      BY <2>2, <2>3 DEF CadenceInv
    <3>2. clock - polled <= (Lag(setbacks) + PollInterval) + MaxRequest
      BY <1>1, <2>1, <3>1, TimesPast, ToComeType, BoundTypes, ConstTypes
    <3> QED BY <2>1, <3>2
  <2>4. CASE poll.pc # "idle"
    <3>1. clock <= polled + MaxRequest
      BY <2>2, <2>4 DEF CadenceInv
    <3>2. clock - polled <= (Lag(setbacks) + PollInterval) + MaxRequest
      BY <1>1, <2>1, <3>1, TimesPast, BoundTypes, ConstTypes
    <3> QED BY <2>1, <3>2
  <2> QED BY <2>3, <2>4
<1>2. Inv /\ Kept /\ [Next]_vars => Kept'
  <2> SUFFICES ASSUME Inv, CadenceInv, Rare, [Next]_vars PROVE CadenceInv'
    OBVIOUS
  <2> QED BY CadenceTick, CadencePoll, CadenceFrame, CadenceFetch, CadenceOthers DEF Next
<1>3. Init => Kept
  BY CadenceInit
<1> QED BY <1>1, <1>2, <1>3, Invariant, PTL DEF Spec
=============================================================================
