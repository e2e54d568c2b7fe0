---------------------------- MODULE TaperProfile ----------------------------
(***************************************************************************)
(* The adaptive BMS taper model (smart_battery/taper.py): for each percent *)
(* of charge seen, an exponential average of how much of the power asked   *)
(* for the battery took, and how many readings it averages.  A profile is  *)
(* one of the dicts of a TaperProfile: a function from the buckets seen to *)
(* their bins.  Ratios are in thousandths, rounded down; times are in      *)
(* hundredths of a minute, rounded up at each percent.                     *)
(***************************************************************************)
EXTENDS Integers, FiniteSetsExt

MIN_TRUST_COUNT == 2
MIN_RATIO       == 50
MAX_RATIO       == 1000
MIN_REQUESTED_W == 500
MIN_ACTUAL_W    == 50

Buckets  == 0 .. 100
TaperBin == [ratio : MIN_RATIO .. MAX_RATIO, count : Nat]

Within(lo, hi, x) == IF x < lo THEN lo ELSE IF x > hi THEN hi ELSE x

Trusted(bins) == {k \in DOMAIN bins : bins[k].count >= MIN_TRUST_COUNT}

\* EMA_ALPHA is 3/10.  A reading too small to be taper is dropped.
_record(bins, bucket, requested, actual) ==
  IF requested < MIN_REQUESTED_W \/ actual < MIN_ACTUAL_W
  THEN bins
  ELSE LET ratio == Within(MIN_RATIO, MAX_RATIO, (actual * 1000) \div requested)
           bin   == IF bucket \in DOMAIN bins /\ bins[bucket].count > 0
                    THEN [ratio |-> Within(MIN_RATIO, MAX_RATIO,
                                      (3 * ratio + 7 * bins[bucket].ratio) \div 10),
                          count |-> bins[bucket].count + 1]
                    ELSE [ratio |-> ratio, count |-> 1]
       IN  [k \in DOMAIN bins \union {bucket} |->
              IF k = bucket THEN bin ELSE bins[k]]

Distance(a, b) == IF a < b THEN b - a ELSE a - b

\* The nearest trusted bin within five percent, the lower of two; past all
\* of them, the one at the edge; between two far ones, no taper.
_ratio(bins, bucket) ==
  LET trusted == Trusted(bins)
      near    == {k \in trusted : Distance(k, bucket) <= 5}
      closest == CHOOSE k \in near :
                   \A j \in near : \/ Distance(k, bucket) < Distance(j, bucket)
                                   \/ /\ Distance(k, bucket) = Distance(j, bucket)
                                      /\ k <= j
  IN  IF near # {} THEN bins[closest].ratio
      ELSE IF trusted # {} /\ bucket > Max(trusted) THEN bins[Max(trusted)].ratio
      ELSE IF trusted # {} /\ bucket < Min(trusted) THEN bins[Min(trusted)].ratio
      ELSE MAX_RATIO

\* Hundredths of a minute for a percent at a power of which it takes a ratio.
percent_hours(pct, power, ratio) == -((-100 * 1000 * pct) \div (power * ratio))

\* ... and to move the battery through the whole percents between two readings.
_estimate_hours(bins, percents, pct, power) ==
  IF power <= 0 THEN 0
  ELSE MapThenSumSet(LAMBDA k : percent_hours(pct, power, _ratio(bins, k)), percents)

estimate_charge_hours(bins, from, to, pct, power) ==
  _estimate_hours(bins, from .. to - 1, pct, power)

estimate_discharge_hours(bins, from, to, pct, power) ==
  _estimate_hours(bins, to + 1 .. from, pct, power)

\* The middle one of the trusted ratios of a stretch, the upper of two.
_median_trusted_charge_ratio(bins, from, to) ==
  LET seen == {k \in Trusted(bins) : from <= k /\ k < to}
      Below(k) == {j \in seen : \/ bins[j].ratio < bins[k].ratio
                                \/ bins[j].ratio = bins[k].ratio /\ j < k}
      middle == CHOOSE k \in seen : Cardinality(Below(k)) = Cardinality(seen) \div 2
  IN  IF seen = {} THEN MAX_RATIO ELSE bins[middle].ratio

-----------------------------------------------------------------------------
(* The stored profile *)

\* What is out of range is brought into it.
from_dict(raw) ==
  [k \in {Within(0, 100, j) : j \in DOMAIN raw} |->
     LET bin == raw[CHOOSE j \in DOMAIN raw : Within(0, 100, j) = k]
     IN  [bin EXCEPT !.ratio = Within(MIN_RATIO, MAX_RATIO, @)]]

is_plausible(bins) == _median_trusted_charge_ratio(bins, 0, 101) > 2 * MIN_RATIO

\* A profile that sensors in the wrong unit ruined is not used.
loaded(raw) == IF is_plausible(from_dict(raw)) THEN from_dict(raw) ELSE [k \in {} |-> 0]
=============================================================================
