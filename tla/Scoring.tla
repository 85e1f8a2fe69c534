------------------------------ MODULE Scoring -------------------------------
(***************************************************************************)
(* The score of internal/campaign/campaign.go, summarize: the loop that    *)
(* counts the statuses, and the comparison of two float64 values           *)
(*     float64(killed) / float64(scorable) * 100 >= threshold.             *)
(* A float64 is a significand of 53 bits and a scale: significand divided  *)
(* by 2^scale.  The significand is held in limbs of 17, 18 and 18 bits.    *)
(* Division and multiplication round to nearest, ties to even.  Module     *)
(* Campaign abstracts the comparison as MeetsThreshold.                    *)
(***************************************************************************)
EXTENDS Integers

CONSTANTS N,         (* bound: results of a campaign                       *)
          Thresholds (* options.Threshold, float64 from 0 to 100           *)

MaxShift == 30     (* bound: a campaign has at most 2^30 results          *)
MaxScale == 76     (* bound: a threshold above 0 is at least 2^-24, which *)
                   (* is below every score above 0                        *)
Limb == 2^18

Normal == [scale : 46..MaxScale, hi : 2^16..(2^17 - 1),
           mid : 0..(Limb - 1), lo : 0..(Limb - 1)]
Zero    == [scale |-> MaxScale, hi |-> 0, mid |-> 0, lo |-> 0]
Hundred == [scale |-> 46, hi |-> 100 * 2^10, mid |-> 0, lo |-> 0]

(* x >= y                                                                  *)
AtLeast(x, y) ==
  \/ x.scale < y.scale
  \/ /\ x.scale = y.scale
     /\ \/ x.hi > y.hi
        \/ x.hi = y.hi /\ (x.mid > y.mid \/ (x.mid = y.mid /\ x.lo >= y.lo))

(* Checked by campaign.go:50.                                              *)
ASSUME ScoringAssumption ==
  /\ N \in 0..(2^MaxShift)
  /\ \A t \in Thresholds : t = Zero \/ (t \in Normal /\ AtLeast(Hundred, t))

(* The next larger float64.                                                *)
Successor(x) ==
  LET lo  == x.lo + 1
      mid == x.mid + (lo \div Limb)
      hi  == x.hi + (mid \div Limb)
  IN  IF hi = 2^17 THEN [scale |-> x.scale - 1, hi |-> 2^16, mid |-> 0, lo |-> 0]
      ELSE [scale |-> x.scale, hi |-> hi, mid |-> mid % Limb, lo |-> lo % Limb]

(* x was cut off: the discarded part is below, at or above one half.       *)
Round(x, discarded, half) ==
  IF discarded > half \/ (discarded = half /\ x.lo % 2 = 1) THEN Successor(x) ELSE x

(* float64(k) / float64(s) for 0 < k <= s: long division by limbs.         *)
Quotient(k, s) ==
  LET shift == CHOOSE n \in 0..MaxShift : k * 2^n >= s /\ (n = 0 \/ k * 2^(n-1) < s)
      first  == k * 2^shift * 2^16
      second == (first % s) * Limb
      third  == (second % s) * Limb
  IN  Round([scale |-> shift + 52, hi |-> first \div s, mid |-> second \div s,
             lo |-> third \div s], 2 * (third % s), s)

(* n times the significand of x, in limbs of which the first may be large. *)
Times(x, n) ==
  LET lo  == x.lo * n
      mid == x.mid * n + lo \div Limb
  IN  [hi |-> x.hi * n + mid \div Limb, mid |-> mid % Limb, lo |-> lo % Limb]

(* q * 100: the product has 6 or 7 bits too many.                          *)
TimesHundred(q) ==
  LET product == Times(q, 100)
      drop == IF product.hi < 2^23 THEN 6 ELSE 7
      unit == 2^drop
  IN  Round([scale |-> q.scale - drop,
             hi  |-> product.hi \div unit,
             mid |-> ((product.hi % unit) * Limb + product.mid) \div unit,
             lo  |-> ((product.mid % unit) * Limb + product.lo) \div unit],
            product.lo % unit, unit \div 2)

(* summary.Score, which stays 0 when nothing was scored.                   *)
Score(killed, scorable) ==
  IF scorable = 0 \/ killed = 0 THEN Zero ELSE TimesHundred(Quotient(killed, scorable))

(* 100 * k in units of the first limb of t.                                *)
Hundredfold(k, t) == 100 * 2^10 * k * 2^(t.scale - 46)

(* The exact score killed / scorable * 100, compared with t.               *)
ExactlyAtLeast(killed, scorable, t) ==
  \/ t = Zero
  \/ /\ scorable # 0
     /\ LET exact == Hundredfold(killed, t)
            wanted == Times(t, scorable)
        IN  exact > wanted.hi \/ (exact = wanted.hi /\ wanted.mid = 0 /\ wanted.lo = 0)

(* Mutant: the gate compares the score in whole percent.                   *)
ScoreAtLeastWhole(killed, scorable, t) ==
  IF scorable = 0 THEN t = Zero
  ELSE ExactlyAtLeast((100 * killed) \div scorable, 100, t)

(* Mutant: the score must exceed the threshold.                            *)
ScoreAtLeastStrict(killed, scorable, t) == ~AtLeast(t, Score(killed, scorable))

(* summary.Score >= threshold                                              *)
ScoreAtLeast(killed, scorable, t) == AtLeast(Score(killed, scorable), t)

-----------------------------------------------------------------------------
(* The loop: results arrive in the order of the slice, which the counters  *)
(* do not remember.                                                        *)

VARIABLES killed, survived,
          unscored,  (* timeouts + errors                                  *)
          threshold  (* options.Threshold                                  *)

vars == <<killed, survived, unscored, threshold>>

Init == killed = 0 /\ survived = 0 /\ unscored = 0 /\ threshold \in Thresholds

More == killed + survived + unscored < N

CountKilled ==
  /\ More /\ killed' = killed + 1
  /\ UNCHANGED <<survived, unscored, threshold>>

CountSurvived ==
  /\ More /\ survived' = survived + 1
  /\ UNCHANGED <<killed, unscored, threshold>>

CountUnscored ==
  /\ More /\ unscored' = unscored + 1
  /\ UNCHANGED <<killed, survived, threshold>>

(* The loop may end after any number of results.                           *)
Next == CountKilled \/ CountSurvived \/ CountUnscored

Spec == Init /\ [][Next]_vars

PassedGate == unscored = 0 /\ ScoreAtLeast(killed, killed + survived, threshold)
ExactGate  == unscored = 0 /\ ExactlyAtLeast(killed, killed + survived, threshold)

(* The threshold has at most 17 significant bits: a whole number, or one   *)
(* with halves, quarters, ... such as 92.5.                                *)
Short(t) == t.mid = 0 /\ t.lo = 0

(* docs/architecture.md:140.  Rounding decides the gate of a short         *)
(* threshold only when the exact score equals it, and then it never lets   *)
(* one pass that should not: 29 of 50 fail at 58 percent.  For any other   *)
(* threshold it may decide either way, but only when the exact score lies  *)
(* within two units in the last place below the threshold or one above:    *)
(* 5 of 6 pass at 83.33333333333334 percent.                               *)
RoundingOnlyNearEquality ==
  LET scorable == killed + survived
      Units(d) == [threshold EXCEPT !.lo = @ + d]
  IN  PassedGate # ExactGate =>
        IF Short(threshold)
        THEN /\ ExactGate
             /\ Hundredfold(killed, threshold) = threshold.hi * scorable
        ELSE /\ ExactlyAtLeast(killed, scorable, Units(-2))
             /\ ~ExactlyAtLeast(killed, scorable, Units(1))

(* A suite that catches every mutant passes every threshold, 100 included. *)
FullScorePasses ==
  unscored = 0 /\ survived = 0 /\ killed > 0 => PassedGate
=============================================================================
