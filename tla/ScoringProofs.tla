---------------------------- MODULE ScoringProofs ----------------------------
(***************************************************************************)
(* The score of every campaign of at most 2^MaxShift results, against any  *)
(* float64 threshold.  The quotient is within half a unit in its last      *)
(* place of killed / scorable, and 100 times it, rounded, is within 41/32  *)
(* units of the exact score.  So a threshold that lies between the two is  *)
(* less than two units away, and a short threshold, being a multiple of    *)
(* 2^36 units, cannot lie strictly between them.  All numbers here are     *)
(* integers: significands, and multiples of them.                          *)
(***************************************************************************)
EXTENDS Scoring, WellFoundedInduction, TLAPS

-----------------------------------------------------------------------------
(* Integers.                                                               *)

(* A set of numbers has a least one.                                       *)
LEMMA LeastNumber ==
  ASSUME NEW T, T \subseteq Nat, T # {}
  PROVE  \E n \in T : \A m \in T : n <= m
<1>1. PICK n \in T : \A m \in T : <<m, n>> \notin OpToRel(<, Nat)
  BY NatLessThanWellFounded, WFMin
<1>2. \A m \in T : ~(m < n)
  BY <1>1, Zenon DEF OpToRel
<1>3. \A m \in T : n <= m
  BY <1>2
<1> QED
  BY <1>3

(* Products grow with their factors.                                       *)
LEMMA Comparing ==
  ASSUME NEW a \in Int, NEW b \in Int, NEW s \in Nat, a <= b
  PROVE  a * s <= b * s
<1>1. (b - a) * s >= 0
  OBVIOUS
<1>2. (b - a) * s = b * s - a * s
  OBVIOUS
<1> QED
  BY <1>1, <1>2

(* Division with remainder.                                                *)
LEMMA Division ==
  ASSUME NEW s \in Nat \ {0}, NEW a \in Nat
  PROVE  /\ a \div s \in Int /\ a % s \in Int /\ 0 <= a % s /\ a % s < s
         /\ a = (a \div s) * s + (a % s)
OBVIOUS

(* A quotient lies between low and high when the dividend lies between     *)
(* their multiples.                                                        *)
LEMMA QuotientBetween ==
  ASSUME NEW s \in Nat \ {0}, NEW q \in Int, NEW r \in Int, 0 <= r, r < s,
         NEW low \in Int, NEW high \in Int, NEW a \in Int, a = q * s + r,
         NEW least, NEW most, least = low * s, most = high * s, least <= a, a < most
  PROVE  low <= q /\ q < high
<1>1. low <= q
  <2> SUFFICES ASSUME q + 1 <= low PROVE FALSE
    OBVIOUS
  <2>1. (q + 1) * s <= low * s
    BY Comparing
  <2>2. (q + 1) * s = q * s + s
    OBVIOUS
  <2>3. q * s \in Int /\ low * s \in Int
    OBVIOUS
  <2> QED
    BY <2>1, <2>2, <2>3
<1>2. q < high
  <2> SUFFICES ASSUME high <= q PROVE FALSE
    OBVIOUS
  <2>1. high * s <= q * s
    BY Comparing
  <2>2. q * s \in Int /\ high * s \in Int
    OBVIOUS
  <2> QED
    BY <2>1, <2>2
<1> QED
  BY <1>1, <1>2

(* One limb of a long division.                                            *)
LEMMA LimbBetween ==
  ASSUME NEW s \in Nat \ {0}, NEW q \in Int, NEW r \in Int, 0 <= r, r < s
  PROVE  /\ 0 <= q * s + r /\ q * s + r < 262144 * s => 0 <= q /\ q < 262144
         /\ 65536 * s <= q * s + r /\ q * s + r < 131072 * s => 65536 <= q /\ q < 131072
<1> DEFINE a == q * s + r
<1>1. a \in Int /\ a = q * s + r
  BY SMT
<1> HIDE DEF a
<1>2. ASSUME NEW low \in Int, NEW high \in Int, low * s <= a, a < high * s
      PROVE  low <= q /\ q < high
  BY <1>1, <1>2, QuotientBetween, SMT
<1>3. ASSUME 0 <= a, a < 262144 * s PROVE 0 <= q /\ q < 262144
  <2> DEFINE low  == 0
             high == 262144
  <2>1. low \in Int /\ high \in Int /\ low * s <= a /\ a < high * s
    BY <1>3, SMT
  <2> HIDE DEF low, high
  <2>2. low <= q /\ q < high
    BY <1>2, <2>1, SMT
  <2> QED
    BY <2>2, SMT DEF low, high
<1>4. ASSUME 65536 * s <= a, a < 131072 * s PROVE 65536 <= q /\ q < 131072
  <2> DEFINE low  == 65536
             high == 131072
  <2>1. low \in Int /\ high \in Int /\ low * s <= a /\ a < high * s
    BY <1>4, SMT
  <2> HIDE DEF low, high
  <2>2. low <= q /\ q < high
    BY <1>2, <2>1, SMT
  <2> QED
    BY <2>2, SMT DEF low, high
<1> QED
  BY <1>3, <1>4, SMT DEF a

(* The powers of two that the model uses.                                  *)
LEMMA Powers ==
  \A n \in 0..31 : 2^n \in Nat \ {0} /\ 2^(n + 1) = 2 * 2^n
<1> DEFINE pow == [n \in 0..32 |-> 2^n]
<1>1. \A n \in 0..32 : pow[n] = 2^n
  OBVIOUS
<1>2. /\ pow[0] = 1 /\ pow[1] = 2 /\ pow[2] = 4 /\ pow[3] = 8
      /\ pow[4] = 16 /\ pow[5] = 32 /\ pow[6] = 64 /\ pow[7] = 128
      /\ pow[8] = 256 /\ pow[9] = 512 /\ pow[10] = 1024 /\ pow[11] = 2048
      /\ pow[12] = 4096 /\ pow[13] = 8192 /\ pow[14] = 16384
      /\ pow[15] = 32768 /\ pow[16] = 65536 /\ pow[17] = 131072
      /\ pow[18] = 262144 /\ pow[19] = 524288 /\ pow[20] = 1048576
      /\ pow[21] = 2097152 /\ pow[22] = 4194304 /\ pow[23] = 8388608
      /\ pow[24] = 16777216 /\ pow[25] = 33554432 /\ pow[26] = 67108864
      /\ pow[27] = 134217728 /\ pow[28] = 268435456 /\ pow[29] = 536870912
      /\ pow[30] = 1073741824 /\ pow[31] = 2147483648
      /\ pow[32] = 4294967296
  BY SMT
<1> HIDE DEF pow
<1>3. \A n \in 0..31 : pow[n] \in Nat \ {0} /\ pow[n + 1] = 2 * pow[n]
  BY <1>2, SMT
<1>4. \A n \in 0..31 : n \in 0..32 /\ n + 1 \in 0..32
  OBVIOUS
<1> QED
  BY <1>1, <1>3, <1>4

(* The powers of two that a shift may have.                                *)
LEMMA ShiftPowers ==
  \A n \in 0..MaxShift : 2^n \in Nat \ {0} /\ 2^(n + 1) = 2 * 2^n
<1>1. \A n \in 0..MaxShift : n \in 0..31
  BY DEF MaxShift
<1> QED
  BY <1>1, Powers, Zenon

(* The powers of two that are written out.                                 *)
LEMMA Literals ==
  /\ 2^0 = 1 /\ 2^6 = 64 /\ 2^7 = 128 /\ 2^10 = 1024 /\ 2^16 = 65536 /\ 2^17 = 131072
  /\ 2^18 = 262144 /\ 2^23 = 8388608 /\ 2^30 = 1073741824
BY SMT

(* A larger exponent at least doubles the power.                           *)
LEMMA PowersGrow ==
  ASSUME NEW m \in 0..31, NEW n \in 0..31, m < n
  PROVE  2 * 2^m <= 2^n
<1> DEFINE T == {l \in 0..31 : m < l /\ ~(2 * 2^m <= 2^l)}
<1> SUFFICES ASSUME T # {} PROVE FALSE
  OBVIOUS
<1>1. T \subseteq Nat
  OBVIOUS
<1> HIDE DEF T
<1>2. PICK l \in T : \A j \in T : l <= j
  BY <1>1, LeastNumber
<1>3. l \in 0..31 /\ m < l /\ ~(2 * 2^m <= 2^l)
  BY <1>2 DEF T
<1>4. l - 1 \in 0..31 /\ l - 1 \notin T /\ (l - 1) + 1 = l
  BY <1>2, <1>3
<1>5. m = l - 1 \/ 2 * 2^m <= 2^(l - 1)
  BY <1>3, <1>4 DEF T
<1>6. 2^m \in Nat /\ 2^(l - 1) \in Nat /\ 2^l = 2 * 2^(l - 1)
  BY <1>4, Powers
<1> QED
  BY <1>3, <1>5, <1>6

-----------------------------------------------------------------------------
(* Floats by their significands.                                           *)

Significand(x) == 68719476736 * x.hi + 262144 * x.mid + x.lo

(* r is the rest of a division by Limb.                                    *)
Rest(r) == r \in Int /\ 0 <= r /\ r <= 262143

(* A float64 of any scale.                                                 *)
Scaled(x) ==
  /\ x \in [scale : Int, hi : Int, mid : Int, lo : Int]
  /\ 65536 <= x.hi /\ x.hi <= 131071 /\ Rest(x.mid) /\ Rest(x.lo)

(* y is x, moved by `by' units in the last place of x.                     *)
Moved(x, y, by) ==
  \/ y.scale = x.scale /\ Significand(y) = Significand(x) + by
  \/ y.scale = x.scale - 1 /\ 2 * Significand(y) = Significand(x) + by

(* The base of the limbs, written out.                                     *)
LEMMA LimbIs == Limb = 262144
BY Literals, SMT DEF Limb

(* The members of an interval.                                             *)
LEMMA Between ==
  ASSUME NEW a \in Int, NEW b \in Int
  PROVE  a..b \subseteq Int /\ \A i \in a..b : a <= i /\ i <= b
OBVIOUS

(* Every threshold above zero is a float64 with all its bits.              *)
LEMMA NormalIsScaled ==
  ASSUME NEW x \in Normal
  PROVE  Scaled(x) /\ 46 <= x.scale /\ x.scale <= MaxScale
<1> DEFINE least == 2^16
           most  == 2^17 - 1
           last  == Limb - 1
<1>1. x \in [scale : 46..MaxScale, hi : least..most, mid : 0..last, lo : 0..last]
  BY Zenon DEF Normal
<1>2. /\ least = 65536 /\ most = 131071 /\ last = 262143
  BY Literals, LimbIs, SMT
<1>3. 46 \in Int /\ 0 \in Int /\ least \in Int /\ most \in Int /\ last \in Int
      /\ MaxScale \in Int
  BY <1>2, SMT DEF MaxScale
<1> HIDE DEF least, most, last
<1>4. /\ 46..MaxScale \subseteq Int /\ \A i \in 46..MaxScale : 46 <= i /\ i <= MaxScale
      /\ least..most \subseteq Int /\ \A i \in least..most : least <= i /\ i <= most
      /\ 0..last \subseteq Int /\ \A i \in 0..last : 0 <= i /\ i <= last
  BY <1>3, Between, SMT
<1>5. x \in [scale : Int, hi : Int, mid : Int, lo : Int]
  BY <1>1, <1>4, SMT
<1>6. x.scale \in 46..MaxScale /\ x.hi \in least..most /\ x.mid \in 0..last
      /\ x.lo \in 0..last
  BY <1>1, SMT
<1>7. /\ 46 <= x.scale /\ x.scale <= MaxScale /\ least <= x.hi /\ x.hi <= most
      /\ 0 <= x.mid /\ x.mid <= last /\ 0 <= x.lo /\ x.lo <= last
  BY <1>4, <1>6, SMT
<1> QED
  BY <1>2, <1>5, <1>7, SMT DEF Scaled, Rest

(* A significand has 53 bits.                                              *)
LEMMA SignificandBounds ==
  ASSUME NEW x, Scaled(x)
  PROVE  /\ Significand(x) \in Nat
         /\ 4503599627370496 <= Significand(x)
         /\ Significand(x) + 1 <= 9007199254740992
BY SMT DEF Scaled, Rest, Significand

(* Comparing floats compares scales, then significands.                    *)
LEMMA AtLeastBySignificand ==
  ASSUME NEW x, Scaled(x), NEW y, Scaled(y)
  PROVE  AtLeast(x, y) <=> \/ x.scale < y.scale
                           \/ x.scale = y.scale /\ Significand(x) >= Significand(y)
<1>1. /\ x.hi \in Int /\ Rest(x.mid) /\ Rest(x.lo)
      /\ y.hi \in Int /\ Rest(y.mid) /\ Rest(y.lo)
  BY SMT DEF Scaled
<1>2. Significand(x) >= Significand(y) <=>
        \/ x.hi > y.hi
        \/ x.hi = y.hi /\ (x.mid > y.mid \/ (x.mid = y.mid /\ x.lo >= y.lo))
  BY <1>1, SMT DEF Significand, Rest
<1> QED
  BY <1>2, SMT DEF AtLeast

(* A limb and what is carried from it.                                     *)
LEMMA Carrying ==
  ASSUME NEW a \in Int
  PROVE  /\ a \div Limb \in Int /\ Rest(a % Limb)
         /\ a = 262144 * (a \div Limb) + (a % Limb)
<1>1. /\ a \div 262144 \in Int /\ Rest(a % 262144)
      /\ a = 262144 * (a \div 262144) + (a % 262144)
  BY SMT DEF Rest
<1> QED
  BY <1>1, LimbIs, SMT

(* Rounding up moves by one unit.                                          *)
LEMMA SuccessorMoves ==
  ASSUME NEW x, Scaled(x)
  PROVE  Scaled(Successor(x)) /\ Moved(x, Successor(x), 1)
<1> DEFINE lo  == x.lo + 1
           mid == x.mid + (lo \div Limb)
           hi  == x.hi + (mid \div Limb)
           y   == Successor(x)
<1>1. /\ x.scale \in Int /\ x.hi \in Int /\ Rest(x.mid) /\ Rest(x.lo)
      /\ 65536 <= x.hi /\ x.hi <= 131071
  BY SMT DEF Scaled
<1>2. y = IF hi = 131072 THEN [scale |-> x.scale - 1, hi |-> 65536, mid |-> 0, lo |-> 0]
          ELSE [scale |-> x.scale, hi |-> hi, mid |-> mid % Limb, lo |-> lo % Limb]
  BY Literals, SMT DEF Successor
<1> HIDE DEF y
<1>3. lo \in Int /\ lo <= 262144 /\ 1 <= lo
  BY <1>1, SMT DEF Rest
<1>4. lo \div Limb \in Int /\ Rest(lo % Limb)
      /\ lo = 262144 * (lo \div Limb) + (lo % Limb)
  BY <1>3, Carrying, SMT
<1>5. mid = x.mid + (lo \div Limb) /\ mid \in Int
  BY <1>1, <1>4, SMT DEF Rest
<1>6. mid \div Limb \in Int /\ Rest(mid % Limb)
      /\ mid = 262144 * (mid \div Limb) + (mid % Limb)
  BY <1>5, Carrying, SMT
<1>7. hi = x.hi + (mid \div Limb) /\ hi \in Int
  BY <1>1, <1>6, SMT
<1>8. Significand(x) + 1 = 68719476736 * x.hi + 262144 * x.mid + lo
  BY <1>1, SMT DEF Significand, Rest
<1> DEFINE q == lo \div Limb
           r == lo % Limb
           u == mid \div Limb
           v == mid % Limb
           a == x.hi
           b == x.mid
<1> HIDE DEF lo, mid, hi
<1>9. /\ lo = 262144 * q + r /\ mid = b + q /\ mid = 262144 * u + v /\ hi = a + u
      /\ q \in Int /\ r \in Int /\ u \in Int /\ v \in Int /\ a \in Int /\ b \in Int
  BY <1>1, <1>4, <1>5, <1>6, <1>7, SMT DEF Rest
<1> HIDE DEF q, r, u, v, a, b
<1>10. 68719476736 * hi + 262144 * v + r = 68719476736 * a + 262144 * b + lo
  BY <1>9, SMT
<1> USE DEF r, v, a, b
<1>11. 68719476736 * hi + 262144 * (mid % Limb) + (lo % Limb) = Significand(x) + 1
  BY <1>8, <1>10, SMT
<1>12. x.hi <= hi /\ hi <= 131072
  BY <1>1, <1>3, <1>4, <1>5, <1>6, <1>7, SMT DEF Rest
<1>13. CASE hi = 131072
  <2>1. y = [scale |-> x.scale - 1, hi |-> 65536, mid |-> 0, lo |-> 0]
    BY <1>2, <1>13, SMT
  <2>2. mid % Limb = 0 /\ lo % Limb = 0
    BY <1>1, <1>3, <1>4, <1>6, <1>8, <1>11, <1>13, SMT DEF Rest
  <2>3. Significand(y) = 4503599627370496
    BY <2>1, SMT DEF Significand
  <2>4. 2 * Significand(y) = Significand(x) + 1
    BY <1>11, <1>13, <2>2, <2>3, SMT
  <2>5. Scaled(y)
    BY <1>1, <2>1, SMT DEF Scaled, Rest
  <2> QED
    BY <1>1, <2>1, <2>4, <2>5, SMT DEF Moved, y
<1>14. CASE hi # 131072
  <2>1. y = [scale |-> x.scale, hi |-> hi, mid |-> mid % Limb, lo |-> lo % Limb]
    BY <1>2, <1>14, SMT
  <2>2. Significand(y) = Significand(x) + 1
    BY <1>11, <2>1, SMT DEF Significand
  <2>3. Scaled(y)
    BY <1>1, <1>4, <1>6, <1>7, <1>12, <1>14, <2>1, SMT DEF Scaled, Rest
  <2> QED
    BY <1>1, <2>1, <2>2, <2>3, SMT DEF Moved, y
<1> QED
  BY <1>13, <1>14, SMT

(* Rounding to nearest: what is added or cut off is at most one half.      *)
LEMMA RoundMoves ==
  ASSUME NEW x, Scaled(x), NEW discarded \in Int, NEW half \in Int
  PROVE  /\ Scaled(Round(x, discarded, half))
         /\ \/ discarded <= half /\ Round(x, discarded, half) = x
            \/ discarded >= half /\ Moved(x, Round(x, discarded, half), 1)
<1>1. CASE discarded > half \/ (discarded = half /\ x.lo % 2 = 1)
  <2>1. Round(x, discarded, half) = Successor(x)
    BY <1>1, SMT DEF Round
  <2> QED
    BY <1>1, <2>1, SuccessorMoves, SMT
<1>2. CASE ~(discarded > half \/ (discarded = half /\ x.lo % 2 = 1))
  <2>1. Round(x, discarded, half) = x
    BY <1>2, Zenon DEF Round
  <2>2. discarded <= half
    BY <1>2, SMT
  <2> QED
    BY <2>1, <2>2, Zenon
<1> QED
  BY <1>1, <1>2, Zenon

(* Times multiplies the significand.                                       *)
LEMMA TimesMultiplies ==
  ASSUME NEW x, x.hi \in Int, x.mid \in Int, x.lo \in Int, NEW n \in Nat
  PROVE  /\ Significand(Times(x, n)) = n * Significand(x)
         /\ Times(x, n).hi \in Int
         /\ Rest(Times(x, n).mid) /\ Rest(Times(x, n).lo)
<1> DEFINE lo  == x.lo * n
           mid == x.mid * n + lo \div Limb
           p == Times(x, n)
<1>1. p.hi = x.hi * n + mid \div Limb /\ p.mid = mid % Limb /\ p.lo = lo % Limb
  BY SMT DEF Times
<1>2. lo \in Int /\ lo \div Limb \in Int /\ Rest(lo % Limb)
      /\ lo = 262144 * (lo \div Limb) + (lo % Limb)
  BY Carrying, SMT
<1> HIDE DEF lo
<1>3. mid \in Int
  BY <1>2, SMT
<1>4. mid \div Limb \in Int /\ Rest(mid % Limb)
      /\ mid = 262144 * (mid \div Limb) + (mid % Limb)
  BY <1>3, Carrying, SMT
<1>5. mid = x.mid * n + lo \div Limb
  BY SMT
<1> HIDE DEF mid, p
<1>6. p.hi \in Int /\ Rest(p.mid) /\ Rest(p.lo)
  BY <1>1, <1>2, <1>4, SMT
<1>7. n * Significand(x) = 68719476736 * (x.hi * n) + 262144 * (x.mid * n) + lo
  BY SMT DEF Significand, lo
<1>8. x.hi * n \in Int /\ x.mid * n \in Int
  BY SMT
<1>9. Significand(p) = 68719476736 * p.hi + 262144 * p.mid + p.lo
  BY SMT DEF Significand
<1> DEFINE q == lo \div Limb
           r == lo % Limb
           u == mid \div Limb
           v == mid % Limb
           a == x.hi * n
           b == x.mid * n
<1>10. /\ lo = 262144 * q + r /\ mid = b + q /\ mid = 262144 * u + v /\ p.hi = a + u
       /\ p.mid = v /\ p.lo = r
       /\ q \in Int /\ r \in Int /\ u \in Int /\ v \in Int /\ a \in Int /\ b \in Int
  BY <1>1, <1>2, <1>4, <1>5, <1>8, SMT DEF Rest
<1>11. n * Significand(x) = 68719476736 * a + 262144 * b + lo
  BY <1>7, SMT
<1> HIDE DEF q, r, u, v, a, b
<1>12. 68719476736 * (a + u) + 262144 * v + r = 68719476736 * a + 262144 * b + lo
  BY <1>10, SMT
<1>13. Significand(p) = n * Significand(x)
  BY <1>9, <1>10, <1>11, <1>12, SMT
<1> QED
  BY <1>6, <1>13, SMT DEF p

-----------------------------------------------------------------------------
(* The quotient of two counts.                                             *)

(* The shift of Quotient.                                                  *)
Shift(k, s) == CHOOSE n \in 0..MaxShift : k * 2^n >= s /\ (n = 0 \/ k * 2^(n-1) < s)

(* The shift brings the quotient between 1 and 2.                          *)
LEMMA ShiftExact ==
  ASSUME NEW k \in Nat \ {0}, NEW s \in k..(2^MaxShift)
  PROVE  /\ Shift(k, s) \in 0..MaxShift /\ 2^Shift(k, s) \in Nat \ {0}
         /\ s <= k * 2^Shift(k, s) /\ k * 2^Shift(k, s) < 2 * s
<1> DEFINE Fits(m) == k * 2^m >= s /\ (m = 0 \/ k * 2^(m-1) < s)
           T == {m \in 0..MaxShift : k * 2^m >= s}
<1>1. MaxShift \in Nat /\ 2^MaxShift \in Nat \ {0}
  BY ShiftPowers DEF MaxShift
<1>2. MaxShift \in T
  <2>1. k * 2^MaxShift >= 2^MaxShift
    BY <1>1
  <2> QED
    BY <1>1, <2>1
<1>3. T \subseteq Nat
  OBVIOUS
<1>4. \E m \in 0..MaxShift : Fits(m)
  <2> HIDE DEF T
  <2>1. PICK m \in T : \A l \in T : m <= l
    BY <1>2, <1>3, LeastNumber
  <2> USE DEF T
  <2>2. m = 0 \/ (m - 1 \in 0..MaxShift /\ m - 1 \notin T)
    BY <1>1, <2>1
  <2>3. m - 1 \in 0..MaxShift => k * 2^(m - 1) \in Nat
    BY ShiftPowers
  <2>4. m = 0 \/ k * 2^(m - 1) < s
    BY <2>2, <2>3
  <2> QED
    BY <2>1, <2>4
<1> DEFINE n == Shift(k, s)
<1>5. n \in 0..MaxShift /\ Fits(n)
  <2>1. n = CHOOSE m \in 0..MaxShift : Fits(m)
    BY Zenon DEF Shift
  <2> HIDE DEF Fits, n
  <2> QED
    BY <1>4, <2>1, Zenon
<1> HIDE DEF n
<1>6. 2^n \in Nat \ {0}
  BY <1>5, ShiftPowers
<1>7. k * 2^n < 2 * s
  <2>1. CASE n = 0
    <3>1. 2^0 = 1
      OBVIOUS
    <3> QED
      BY <2>1, <3>1
  <2>2. CASE n # 0
    <3>1. n - 1 \in 0..MaxShift /\ (n - 1) + 1 = n
      BY <1>1, <1>5, <2>2
    <3>2. 2^(n - 1) \in Nat /\ 2^n = 2 * 2^(n - 1)
      BY <3>1, ShiftPowers
    <3>3. k * 2^n = 2 * (k * 2^(n - 1)) /\ k * 2^(n - 1) \in Nat
      BY <3>2
    <3> QED
      BY <1>5, <2>2, <3>3
  <2> QED
    BY <2>1, <2>2
<1> QED
  BY <1>5, <1>6, <1>7 DEF n

(* The significand of 1.                                                   *)
Whole == 4503599627370496

(* Three limbs of a long division of x by s, and what is left.             *)
LEMMA LongDivision ==
  ASSUME NEW s \in Nat \ {0}, NEW x \in Nat, s <= x, x < 2 * s, NEW scale \in Int,
         NEW first, first = x * 2^16, NEW second, second = (first % s) * Limb,
         NEW third, third = (second % s) * Limb,
         NEW y, y = [scale |-> scale, hi |-> first \div s, mid |-> second \div s,
                     lo |-> third \div s]
  PROVE  /\ Scaled(y) /\ y.scale = scale
         /\ third % s \in Int /\ 0 <= third % s /\ third % s < s
         /\ Significand(y) * s + (third % s) = Whole * x
<1> DEFINE hi  == first \div s
           mid == second \div s
           lo  == third \div s
           r   == first % s
           q   == second % s
           p   == third % s
<1>1. first = 65536 * x /\ first \in Nat /\ 65536 * s <= first /\ first < 131072 * s
  BY Literals, SMT
<1>2. hi \in Int /\ r \in Int /\ 0 <= r /\ r < s /\ first = hi * s + r
  BY <1>1, Division, SMT
<1>3. second = r * Limb /\ third = q * Limb
  BY Zenon
<1>4. y = [scale |-> scale, hi |-> hi, mid |-> mid, lo |-> lo]
  BY Zenon
<1> HIDE DEF hi, r
<1>5. 65536 <= hi /\ hi < 131072
  BY <1>1, <1>2, LimbBetween, SMT
<1>6. second = 262144 * r /\ second \in Nat /\ 0 <= second /\ second < 262144 * s
  BY <1>2, <1>3, LimbIs, SMT
<1>7. second \in Nat
  BY <1>6, SMT
<1>8. mid \in Int /\ q \in Int /\ 0 <= q /\ q < s /\ second = mid * s + q
  BY <1>7, Division
<1> HIDE DEF mid, q
<1>9. 0 <= mid /\ mid < 262144
  BY <1>6, <1>8, LimbBetween, SMT
<1>10. third = 262144 * q /\ third \in Nat /\ 0 <= third /\ third < 262144 * s
  BY <1>3, <1>8, LimbIs, SMT
<1>11. third \in Nat
  BY <1>10, SMT
<1>12. lo \in Int /\ p \in Int /\ 0 <= p /\ p < s /\ third = lo * s + p
  BY <1>11, Division
<1> HIDE DEF lo, p
<1>13. 0 <= lo /\ lo < 262144
  BY <1>10, <1>12, LimbBetween, SMT
<1>14. Scaled(y) /\ y.scale = scale /\ y.hi = hi /\ y.mid = mid /\ y.lo = lo
  BY <1>2, <1>4, <1>5, <1>8, <1>9, <1>12, <1>13, SMT DEF Scaled, Rest
<1>15. Significand(y) = 68719476736 * hi + 262144 * mid + lo
  BY <1>14, SMT DEF Significand
<1> DEFINE a == hi * s
           b == mid * s
           c == lo * s
<1>16. Significand(y) * s = 68719476736 * a + 262144 * b + c
  BY <1>2, <1>8, <1>12, <1>15, SMT
<1>17. a \in Int /\ b \in Int /\ c \in Int
  BY <1>2, <1>8, <1>12, SMT
<1>18. first = a + r /\ second = b + q /\ third = c + p
  BY <1>2, <1>8, <1>12
<1> HIDE DEF a, b, c
<1>19. /\ 65536 * x = a + r /\ 262144 * r = b + q /\ 262144 * q = c + p
       /\ r \in Int /\ q \in Int /\ p \in Int
  BY <1>1, <1>2, <1>6, <1>8, <1>10, <1>12, <1>18, SMT
<1>20. 68719476736 * a + 262144 * b + c + p = Whole * x
  BY <1>17, <1>19, SMT DEF Whole
<1>21. Significand(y) * s + p = Whole * x
  BY <1>16, <1>20, SMT
<1> QED
  BY <1>12, <1>14, <1>21, SMT DEF p

(* f is the significand of x / s, rounded.                                 *)
Near(f, x, s) ==
  /\ 2 * (f * s) <= 2 * (Whole * x) + s
  /\ 2 * (Whole * x) <= 2 * (f * s) + s

(* What is left of a division decides how the quotient is rounded, which   *)
(* never becomes 2.                                                        *)
LEMMA RoundedNear ==
  ASSUME NEW s \in Nat \ {0}, s <= 2^MaxShift, NEW x \in Nat, x < 2 * s,
         NEW y, Scaled(y), NEW r \in Int, 0 <= r, r < s,
         Significand(y) * s + r = Whole * x,
         NEW z, z = Round(y, 2 * r, s)
  PROVE  Scaled(z) /\ z.scale = y.scale /\ Near(Significand(z), x, s)
<1>1. 2 * r \in Int /\ s \in Int
  BY SMT
<1>2. /\ Scaled(z)
      /\ \/ 2 * r <= s /\ z = y
         \/ 2 * r >= s /\ Moved(y, z, 1)
  BY <1>1, RoundMoves, Zenon
<1> DEFINE f == Significand(y)
           g == Significand(z)
<1>3. f \in Nat /\ g \in Nat /\ f <= 9007199254740991 /\ 4503599627370496 <= g
  BY <1>2, SignificandBounds, SMT
<1>4. f * s + r = Whole * x
  BY SMT
<1>5. Moved(y, z, 1) => \/ z.scale = y.scale /\ g = f + 1
                        \/ 2 * g = f + 1
  BY SMT DEF Moved
<1>6. CASE z = y
  <2>1. 2 * r <= s
    BY <1>2, <1>3, <1>5, <1>6, SMT
  <2>2. g = f
    BY <1>6, SMT
  <2> HIDE DEF f, g
  <2>3. f * s \in Int
    BY <1>3, SMT
  <2> QED
    BY <1>2, <1>4, <1>6, <2>1, <2>2, <2>3, SMT DEF Near, Whole, g
<1>7. CASE 2 * r >= s /\ z.scale = y.scale /\ g = f + 1
  <2> HIDE DEF f
  <2>1. g * s = f * s + s /\ f * s \in Int
    BY <1>3, <1>7, SMT
  <2> HIDE DEF g
  <2>2. Near(g, x, s)
    BY <1>4, <1>7, <2>1, SMT DEF Near, Whole
  <2> QED
    BY <1>2, <1>7, <2>2, SMT DEF g
<1>8. CASE 2 * r >= s /\ 2 * g = f + 1
  <2> HIDE DEF f, g
  <2>1. f = 9007199254740991
    BY <1>3, <1>8, SMT
  <2>2. 9007199254740991 * s + r = Whole * x
    BY <1>4, <2>1, SMT
  <2> QED
    BY <2>2, Literals, SMT DEF Whole, MaxShift
<1> QED
  BY <1>2, <1>5, <1>6, <1>7, <1>8, SMT

(* The quotient of Scoring is within half a unit of k / s.                 *)
LEMMA QuotientNear ==
  ASSUME NEW k \in Nat \ {0}, NEW s \in k..(2^MaxShift)
  PROVE  \E n \in 0..MaxShift :
           /\ Scaled(Quotient(k, s)) /\ Quotient(k, s).scale = n + 52
           /\ 2^n \in Nat \ {0} /\ Near(Significand(Quotient(k, s)), k * 2^n, s)
<1> DEFINE n      == Shift(k, s)
           x      == k * 2^n
           first  == x * 2^16
           second == (first % s) * Limb
           third  == (second % s) * Limb
           y      == [scale |-> n + 52, hi |-> first \div s, mid |-> second \div s,
                      lo |-> third \div s]
<1>1. Quotient(k, s) = Round(y, 2 * (third % s), s)
  BY Zenon DEF Quotient, Shift
<1> HIDE DEF n
<1>2. n \in 0..MaxShift /\ 2^n \in Nat \ {0} /\ s <= x /\ x < 2 * s
  BY ShiftExact, Zenon DEF n
<1>3. s \in Nat \ {0} /\ s <= 2^MaxShift
  BY Literals, SMT DEF MaxShift
<1>4. x \in Nat /\ n + 52 \in Int
  BY <1>2, SMT DEF MaxShift
<1> HIDE DEF x
<1>5. /\ Scaled(y) /\ y.scale = n + 52
      /\ third % s \in Int /\ 0 <= third % s /\ third % s < s
      /\ Significand(y) * s + (third % s) = Whole * x
  BY <1>2, <1>3, <1>4, LongDivision, SMT
<1> HIDE DEF y, third
<1>6. /\ Scaled(Quotient(k, s)) /\ Quotient(k, s).scale = y.scale
      /\ Near(Significand(Quotient(k, s)), x, s)
  BY <1>1, <1>2, <1>3, <1>4, <1>5, RoundedNear, SMT
<1> QED
  BY <1>2, <1>5, <1>6, Zenon DEF x

-----------------------------------------------------------------------------
(* A hundred times the quotient.                                           *)

Units == {64, 128}

(* A number and what is cut off from it, limb by limb.                     *)
LEMMA CutSum ==
  ASSUME NEW unit \in Units, NEW a \in Int, NEW b \in Int, NEW c \in Int,
         NEW hi \in Int, NEW mid \in Int, NEW lo \in Int,
         NEW r \in Int, NEW q \in Int, NEW v \in Int, a = hi * unit + r,
         r * Limb + b = unit * mid + q, q * Limb + c = unit * lo + v
  PROVE  68719476736 * a + 262144 * b + c
           = unit * (68719476736 * hi + 262144 * mid + lo) + v
<1>1. unit = 64 \/ unit = 128
  BY SMT DEF Units
<1>2. 262144 * r + b = unit * mid + q /\ 262144 * q + c = unit * lo + v
  BY LimbIs, SMT
<1>3. ASSUME unit = 64
      PROVE  68719476736 * a + 262144 * b + c
               = 64 * (68719476736 * hi + 262144 * mid + lo) + v
  BY <1>2, <1>3, SMT
<1>4. ASSUME unit = 128
      PROVE  68719476736 * a + 262144 * b + c
               = 128 * (68719476736 * hi + 262144 * mid + lo) + v
  BY <1>2, <1>4, SMT
<1> QED
  BY <1>1, <1>3, <1>4, SMT

(* A limb behind the rest r of the limb before it, cut by unit.            *)
LEMMA LimbCut ==
  ASSUME NEW unit \in Units, NEW r \in Int, 0 <= r, r < unit, NEW m, Rest(m),
         NEW e, e = r * Limb + m
  PROVE  /\ Rest(e \div unit) /\ m % unit \in Int /\ 0 <= m % unit /\ m % unit < unit
         /\ e = unit * (e \div unit) + (m % unit)
<1>1. e = 262144 * r + m /\ e \in Int /\ m \in Int /\ 0 <= m /\ m <= 262143
  BY LimbIs, SMT DEF Rest
<1>2. ASSUME unit = 64
      PROVE  /\ Rest(e \div 64) /\ m % 64 \in Int /\ 0 <= m % 64 /\ m % 64 < 64
             /\ e = 64 * (e \div 64) + (m % 64)
  BY <1>1, <1>2, SMT DEF Rest
<1>3. ASSUME unit = 128
      PROVE  /\ Rest(e \div 128) /\ m % 128 \in Int /\ 0 <= m % 128 /\ m % 128 < 128
             /\ e = 128 * (e \div 128) + (m % 128)
  BY <1>1, <1>3, SMT DEF Rest
<1> HIDE DEF Rest
<1>4. unit = 64 \/ unit = 128
  BY SMT DEF Units
<1> QED
  BY <1>2, <1>3, <1>4, SMT

(* hi holds a first limb and, behind it, the bits cut by unit.            *)
FirstLimb(hi, unit) == hi \in Int /\ 65536 * unit <= hi /\ hi < 131072 * unit

(* A product without its last bits.                                        *)
LEMMA ProductCut ==
  ASSUME NEW unit \in Units, NEW p, FirstLimb(p.hi, unit), Rest(p.mid),
         Rest(p.lo), NEW scale \in Int,
         NEW y, y = [scale |-> scale, hi  |-> p.hi \div unit,
                     mid |-> ((p.hi % unit) * Limb + p.mid) \div unit,
                     lo  |-> ((p.mid % unit) * Limb + p.lo) \div unit]
  PROVE  /\ Scaled(y) /\ y.scale = scale
         /\ p.lo % unit \in Int /\ 0 <= p.lo % unit /\ p.lo % unit < unit
         /\ Significand(p) = unit * Significand(y) + (p.lo % unit)
<1> DEFINE hi  == p.hi \div unit
           r   == p.hi % unit
           d   == r * Limb + p.mid
           mid == d \div unit
           q   == p.mid % unit
           e   == q * Limb + p.lo
           lo  == e \div unit
           v   == p.lo % unit
<1>1. unit \in Nat \ {0} /\ p.hi \in Nat
  BY SMT DEF FirstLimb, Units
<1>2. hi \in Int /\ r \in Int /\ 0 <= r /\ r < unit /\ p.hi = hi * unit + r
  BY <1>1, Division, Zenon
<1>3. d = r * Limb + p.mid /\ e = q * Limb + p.lo
  BY Zenon
<1>4. y = [scale |-> scale, hi |-> hi, mid |-> mid, lo |-> lo]
  BY Zenon
<1> HIDE DEF hi, r, d, e
<1>5. 65536 * unit <= hi * unit + r /\ hi * unit + r < 131072 * unit
  BY <1>2, SMT DEF FirstLimb
<1>6. 65536 <= hi /\ hi < 131072
  BY <1>1, <1>2, <1>5, LimbBetween, SMT
<1>7. /\ Rest(mid) /\ q \in Int /\ 0 <= q /\ q < unit
      /\ d = unit * mid + q
  BY <1>2, <1>3, LimbCut, Zenon
<1> HIDE DEF mid, q
<1>8. /\ Rest(lo) /\ v \in Int /\ 0 <= v /\ v < unit
      /\ e = unit * lo + v
  BY <1>3, <1>7, LimbCut, Zenon
<1> HIDE DEF lo, v
<1>9. Scaled(y) /\ y.scale = scale /\ y.hi = hi /\ y.mid = mid /\ y.lo = lo
  BY <1>2, <1>4, <1>6, <1>7, <1>8, SMT DEF Scaled, Rest
<1>10. /\ Significand(y) = 68719476736 * hi + 262144 * mid + lo
       /\ Significand(p) = 68719476736 * p.hi + 262144 * p.mid + p.lo
  BY <1>9, SMT DEF Significand
<1>11. hi \in Int /\ mid \in Int /\ lo \in Int /\ r \in Int /\ q \in Int /\ v \in Int
       /\ p.hi \in Int /\ p.mid \in Int /\ p.lo \in Int
  BY <1>1, <1>2, <1>7, <1>8, SMT DEF Rest
<1>12. Significand(p) = unit * Significand(y) + v
  BY <1>2, <1>3, <1>7, <1>8, <1>10, <1>11, CutSum, SMT
<1> QED
  BY <1>8, <1>9, <1>12, SMT DEF v

(* g is 100 * f, rounded to 53 bits by cutting off 6 or 7.                 *)
ByHundred(f, g, drop) ==
  \/ drop = 6 /\ 16 * g <= 25 * f + 8 /\ 25 * f <= 16 * g + 8
  \/ drop = 7 /\ 32 * g <= 25 * f + 16 /\ 25 * f <= 32 * g + 16

(* Multiplying by 100 errs by half a unit.                                 *)
LEMMA ProductNear ==
  ASSUME NEW q, Scaled(q)
  PROVE  /\ Scaled(TimesHundred(q))
         /\ \E drop \in {6, 7} :
              /\ TimesHundred(q).scale = q.scale - drop
              /\ ByHundred(Significand(q), Significand(TimesHundred(q)), drop)
<1> DEFINE p    == Times(q, 100)
           drop == IF p.hi < 2^23 THEN 6 ELSE 7
           unit == 2^drop
           y    == [scale |-> q.scale - drop,
                    hi  |-> p.hi \div unit,
                    mid |-> ((p.hi % unit) * Limb + p.mid) \div unit,
                    lo  |-> ((p.mid % unit) * Limb + p.lo) \div unit]
           z    == TimesHundred(q)
           f    == Significand(q)
<1>1. z = Round(y, p.lo % unit, unit \div 2)
  BY Zenon DEF TimesHundred
<1>2. q.hi \in Int /\ q.mid \in Int /\ q.lo \in Int /\ q.scale \in Int /\ 100 \in Nat
  BY SMT DEF Scaled, Rest
<1>3. /\ Significand(p) = 100 * f /\ p.hi \in Int /\ Rest(p.mid) /\ Rest(p.lo)
      /\ q.scale \in Int
  BY <1>2, TimesMultiplies, Zenon
<1>4. f \in Nat /\ 4503599627370496 <= f /\ f <= 9007199254740991
  BY SignificandBounds, SMT
<1> HIDE DEF p, f
<1>5. 6553600 <= p.hi /\ p.hi < 13107200
  BY <1>3, <1>4, SMT DEF Significand, Rest
<1>6. \/ drop = 6 /\ unit = 64 /\ p.hi < 8388608
      \/ drop = 7 /\ unit = 128 /\ 8388608 <= p.hi
  BY <1>3, Literals, SMT
<1> HIDE DEF drop, unit
<1>7. unit \in Units /\ FirstLimb(p.hi, unit) /\ q.scale - drop \in Int
  BY <1>3, <1>5, <1>6, SMT DEF FirstLimb, Units
<1>8. /\ Scaled(y) /\ y.scale = q.scale - drop
      /\ p.lo % unit \in Int /\ 0 <= p.lo % unit /\ p.lo % unit < unit
      /\ Significand(p) = unit * Significand(y) + (p.lo % unit)
  BY <1>3, <1>7, ProductCut, SMT
<1> HIDE DEF y, z
<1> DEFINE g == Significand(y)
           h == Significand(z)
           r == p.lo % unit
<1>9. unit \div 2 \in Int /\ 2 * (unit \div 2) = unit
  BY <1>6, SMT
<1>10. /\ Scaled(z)
       /\ \/ r <= unit \div 2 /\ z = y
          \/ r >= unit \div 2 /\ Moved(y, z, 1)
  BY <1>1, <1>8, <1>9, RoundMoves, SMT
<1>11. g \in Nat /\ h \in Nat /\ 4503599627370496 <= h /\ g <= 9007199254740991
  BY <1>8, <1>10, SignificandBounds, SMT
<1>12. 100 * f = unit * g + r /\ r \in Int /\ 0 <= r /\ r < unit
  BY <1>3, <1>8, SMT
<1>13. \/ 2 * r <= unit /\ z.scale = y.scale /\ h = g
       \/ 2 * r >= unit /\ z.scale = y.scale /\ h = g + 1
       \/ 2 * r >= unit /\ z.scale = y.scale - 1 /\ 2 * h = g + 1
  BY <1>9, <1>10, <1>12, SMT DEF Moved
<1> HIDE DEF g, h, r
<1>14. ASSUME unit = 64
       PROVE  \E d \in {6, 7} : z.scale = q.scale - d /\ ByHundred(f, h, d)
  <2>1. drop = 6 /\ 100 * f = 64 * g + r
    BY <1>6, <1>12, <1>14, SMT
  <2>2. \/ z.scale = q.scale - 6 /\ ByHundred(f, h, 6)
        \/ z.scale = q.scale - 7 /\ ByHundred(f, h, 7)
    BY <1>3, <1>4, <1>8, <1>11, <1>12, <1>13, <1>14, <2>1, SMT DEF ByHundred
  <2> QED
    BY <2>2, SMT
<1>15. ASSUME unit = 128
       PROVE  \E d \in {6, 7} : z.scale = q.scale - d /\ ByHundred(f, h, d)
  <2>1. drop = 7 /\ 100 * f = 128 * g + r
    BY <1>6, <1>12, <1>15, SMT
  <2>2. z.scale = q.scale - 7 /\ ByHundred(f, h, 7)
    BY <1>3, <1>4, <1>8, <1>11, <1>12, <1>13, <1>15, <2>1, SMT DEF ByHundred
  <2> QED
    BY <2>2, SMT
<1>16. unit = 64 \/ unit = 128
  BY <1>6, SMT
<1>17. \E d \in {6, 7} : z.scale = q.scale - d /\ ByHundred(f, h, d)
  BY <1>14, <1>15, <1>16, Zenon
<1> QED
  BY <1>10, <1>17, Zenon DEF f, h, z


-----------------------------------------------------------------------------
(* The score.                                                              *)

Place45 == 35184372088832

(* 100 * k in units of the last place of x.                                *)
Exact(k, x) == Place45 * (100 * (k * 2^(x.scale - 45)))

(* x is within 41/32 units in its last place of 100 * k / s.               *)
Close(k, s, x) ==
  /\ 32 * (Significand(x) * s) <= 32 * Exact(k, x) + 41 * s
  /\ 32 * Exact(k, x) <= 32 * (Significand(x) * s) + 41 * s

(* The two roundings together.                                             *)
LEMMA TwoRoundings ==
  ASSUME NEW s \in Nat, NEW x \in Int, NEW f \in Int, NEW g \in Int, NEW e \in Int,
         Near(f, x, s), NEW drop, ByHundred(f, g, drop),
         \/ drop = 6 /\ 16 * e = 25 * (Whole * x)
         \/ drop = 7 /\ 32 * e = 25 * (Whole * x)
  PROVE  32 * (g * s) <= 32 * e + 41 * s /\ 32 * e <= 32 * (g * s) + 41 * s
<1> DEFINE w == Whole * x
           a == f * s
           b == g * s
<1>1. w \in Int /\ a \in Int /\ b \in Int
  BY SMT DEF Whole
<1>2. 2 * a <= 2 * w + s /\ 2 * w <= 2 * a + s
  BY Zenon DEF Near
<1>3. \/ drop = 6 /\ 16 * e = 25 * w
      \/ drop = 7 /\ 32 * e = 25 * w
  OBVIOUS
<1>4. ASSUME 16 * g <= 25 * f + 8 PROVE 16 * b <= 25 * a + 8 * s
  <2>1. (16 * g) * s <= (25 * f + 8) * s
    BY <1>4, Comparing, SMT
  <2> QED
    BY <2>1, SMT
<1>5. ASSUME 25 * f <= 16 * g + 8 PROVE 25 * a <= 16 * b + 8 * s
  <2>1. (25 * f) * s <= (16 * g + 8) * s
    BY <1>5, Comparing, SMT
  <2> QED
    BY <2>1, SMT
<1>6. ASSUME 32 * g <= 25 * f + 16 PROVE 32 * b <= 25 * a + 16 * s
  <2>1. (32 * g) * s <= (25 * f + 16) * s
    BY <1>6, Comparing, SMT
  <2> QED
    BY <2>1, SMT
<1>7. ASSUME 25 * f <= 32 * g + 16 PROVE 25 * a <= 32 * b + 16 * s
  <2>1. (25 * f) * s <= (32 * g + 16) * s
    BY <1>7, Comparing, SMT
  <2> QED
    BY <2>1, SMT
<1> HIDE DEF w, a, b
<1>8. \/ drop = 6 /\ 16 * b <= 25 * a + 8 * s /\ 25 * a <= 16 * b + 8 * s
      \/ drop = 7 /\ 32 * b <= 25 * a + 16 * s /\ 25 * a <= 32 * b + 16 * s
  BY <1>4, <1>5, <1>6, <1>7, SMT DEF ByHundred
<1>9. 32 * b <= 32 * e + 41 * s /\ 32 * e <= 32 * b + 41 * s
  BY <1>1, <1>2, <1>3, <1>8, SMT
<1> QED
  BY <1>9, Zenon DEF b

(* The score is close to the exact one.                                    *)
LEMMA ScoreNear ==
  ASSUME NEW k \in Nat \ {0}, NEW s \in k..(2^MaxShift)
  PROVE  /\ Scaled(Score(k, s))
         /\ 45 <= Score(k, s).scale /\ Score(k, s).scale <= MaxScale
         /\ Close(k, s, Score(k, s))
<1> DEFINE q == Quotient(k, s)
           c == Score(k, s)
           f == Significand(q)
           g == Significand(c)
<1>1. s \in Nat /\ s # 0
  BY Literals, SMT DEF MaxShift
<1>2. c = TimesHundred(q)
  BY <1>1, Zenon DEF Score
<1>3. PICK n \in 0..MaxShift :
         /\ Scaled(q) /\ q.scale = n + 52
         /\ 2^n \in Nat \ {0} /\ Near(f, k * 2^n, s)
  BY QuotientNear, Zenon
<1>4. /\ Scaled(c)
      /\ \E drop \in {6, 7} : c.scale = q.scale - drop /\ ByHundred(f, g, drop)
  BY <1>2, <1>3, ProductNear, Zenon
<1>5. PICK drop \in {6, 7} : c.scale = q.scale - drop /\ ByHundred(f, g, drop)
  BY <1>4, Zenon
<1>6. f \in Int /\ g \in Int
  BY <1>3, <1>4, SignificandBounds, SMT
<1> HIDE DEF f, g, q, c
<1> DEFINE x == k * 2^n
           e == Exact(k, c)
<1>7. x \in Int
  BY <1>3, SMT
<1>8. n \in Nat /\ n <= 30 /\ (drop = 6 \/ drop = 7)
  BY SMT DEF MaxShift
<1>9. 45 <= c.scale /\ c.scale <= MaxScale
  BY <1>3, <1>5, <1>8, SMT DEF MaxScale
<1>10. \/ drop = 6 /\ c.scale - 45 = n + 1
       \/ drop = 7 /\ c.scale - 45 = n
  BY <1>3, <1>5, <1>8, SMT
<1>11. 2^(n + 1) = 2 * 2^n
  BY ShiftPowers, Zenon
<1>12. \/ drop = 6 /\ 2^(c.scale - 45) = 2 * 2^n
       \/ drop = 7 /\ 2^(c.scale - 45) = 2^n
  BY <1>10, <1>11, Zenon
<1>13. \/ drop = 6 /\ e = Place45 * (200 * x)
       \/ drop = 7 /\ e = Place45 * (100 * x)
  <2> DEFINE p == 2^n
  <2>1. p \in Nat /\ (\/ drop = 6 /\ 2^(c.scale - 45) = 2 * p
                      \/ drop = 7 /\ 2^(c.scale - 45) = p)
    BY <1>3, <1>12, Zenon
  <2>2. x = k * p
    BY Zenon
  <2> HIDE DEF p, x
  <2>3. 100 * (k * (2 * p)) = 200 * x
    BY <2>1, <2>2, SMT
  <2> QED
    BY <2>1, <2>2, <2>3, Zenon DEF Exact
<1> HIDE DEF x, e
<1>14. e \in Int /\ (\/ drop = 6 /\ 16 * e = 25 * (Whole * x)
                     \/ drop = 7 /\ 32 * e = 25 * (Whole * x))
  BY <1>7, <1>13, SMT DEF Place45, Whole
<1>15. Near(f, x, s)
  BY <1>3, Zenon DEF x
<1>16. 32 * (g * s) <= 32 * e + 41 * s /\ 32 * e <= 32 * (g * s) + 41 * s
  BY <1>1, <1>5, <1>6, <1>7, <1>14, <1>15, TwoRoundings, Zenon
<1> QED
  BY <1>4, <1>9, <1>16, Zenon DEF Close, c, e, g

-----------------------------------------------------------------------------
(* Rounded and exact decision.                                             *)

(* How far the exact score is from a threshold t, when the rounded one is  *)
(* known to reach it or not.                                               *)
LEMMA RoundedDecision ==
  ASSUME NEW k \in Nat, NEW s \in Nat, s # 0, NEW c, Scaled(c), NEW t, Scaled(t),
         45 <= c.scale, c.scale <= MaxScale, 45 <= t.scale, t.scale <= MaxScale,
         Close(k, s, c)
  PROVE  /\ AtLeast(c, t) => Significand(t) * s <= Exact(k, t) + 2 * s
         /\ ~AtLeast(c, t) => Exact(k, t) < Significand(t) * s + s
<1> DEFINE m  == c.scale - 45
           n  == t.scale - 45
           f  == Significand(t)
           g  == Significand(c)
           a  == f * s
           b  == g * s
           w  == Whole * s
           e  == Exact(k, t)
           d  == Exact(k, c)
<1>1. m \in 0..31 /\ n \in 0..31
  BY SMT DEF Scaled, MaxScale
<1>2. f \in Int /\ g \in Int /\ Whole <= f /\ Whole <= g
      /\ f + 1 <= 2 * Whole /\ g + 1 <= 2 * Whole
  BY SignificandBounds, SMT DEF Whole
<1>3. AtLeast(c, t) <=> m < n \/ (m = n /\ g >= f)
  <2>1. AtLeast(c, t) <=> c.scale < t.scale \/ (c.scale = t.scale /\ g >= f)
    BY AtLeastBySignificand, Zenon
  <2> HIDE DEF f, g
  <2> QED
    BY <2>1, SMT DEF Scaled
<1>4. 32 * b <= 32 * d + 41 * s /\ 32 * d <= 32 * b + 41 * s
  BY Zenon DEF Close
<1>5. d = Place45 * (100 * (k * 2^m)) /\ e = Place45 * (100 * (k * 2^n))
  BY Zenon DEF Exact
<1> HIDE DEF m, n, f, g, e, d
<1>6. 2^m \in Nat \ {0} /\ 2^n \in Nat \ {0}
  BY <1>1, Powers, Zenon
<1>7. /\ m < n => 2 * 2^m <= 2^n
      /\ n < m => 2 * 2^n <= 2^m
  BY <1>1, PowersGrow, Zenon
<1>8. d \in Int /\ e \in Int /\ (m = n => d = e)
      /\ (m < n => 2 * d <= e) /\ (n < m => 2 * e <= d)
  <2> DEFINE p == 2^m
             q == 2^n
  <2>1. p \in Nat /\ q \in Nat /\ (m < n => 2 * p <= q) /\ (n < m => 2 * q <= p)
    BY <1>6, <1>7, Zenon
  <2>2. d = Place45 * (100 * (k * p)) /\ e = Place45 * (100 * (k * q))
    BY <1>5, Zenon
  <2>3. m = n => p = q
    BY Zenon
  <2> HIDE DEF p, q
  <2>4. (2 * p <= q => (2 * p) * k <= q * k) /\ (2 * q <= p => (2 * q) * k <= p * k)
    BY <2>1, Comparing, SMT
  <2> DEFINE u == k * p
             v == k * q
  <2>5. /\ u \in Nat /\ v \in Nat
        /\ (2 * p <= q => 2 * u <= v) /\ (2 * q <= p => 2 * v <= u)
    BY <2>1, <2>4, SMT
  <2>6. d = Place45 * (100 * u) /\ e = Place45 * (100 * v) /\ (m = n => u = v)
    BY <2>2, <2>3, Zenon
  <2> HIDE DEF u, v
  <2> QED
    BY <2>1, <2>5, <2>6, SMT DEF Place45
<1>9. a \in Int /\ b \in Int /\ w \in Int
  BY <1>2, SMT DEF Whole
<1>10. w <= a /\ w <= b /\ a + s <= 2 * w /\ b + s <= 2 * w
  <2>1. /\ Whole * s <= f * s /\ Whole * s <= g * s
        /\ (f + 1) * s <= (2 * Whole) * s /\ (g + 1) * s <= (2 * Whole) * s
    BY <1>2, Comparing, SMT DEF Whole
  <2> QED
    BY <1>2, <2>1, SMT DEF Whole
<1>11. (g >= f => a <= b) /\ (g < f => b + s <= a)
  <2>1. (f <= g => f * s <= g * s) /\ (g + 1 <= f => (g + 1) * s <= f * s)
    BY <1>2, Comparing, SMT
  <2> QED
    BY <1>2, <2>1, SMT
<1>12. m \in Int /\ n \in Int
  BY <1>1, SMT
<1> HIDE DEF a, b, w
<1>13. AtLeast(c, t) => a <= e + 2 * s
  <2>1. ASSUME m = n, g >= f PROVE a <= e + 2 * s
    BY <1>4, <1>8, <1>9, <1>11, <2>1, SMT
  <2>2. ASSUME m < n PROVE a <= e + 2 * s
    BY <1>4, <1>8, <1>9, <1>10, <2>2, SMT
  <2> QED
    BY <1>3, <2>1, <2>2, Zenon
<1>14. ~AtLeast(c, t) => e < a + s
  <2>1. ASSUME m = n, g < f PROVE e < a + s
    BY <1>4, <1>8, <1>9, <1>11, <2>1, SMT
  <2>2. ASSUME n < m PROVE e < a + s
    BY <1>4, <1>8, <1>9, <1>10, <2>2, SMT
  <2>3. m < n \/ m = n \/ n < m
    BY <1>12, SMT
  <2>4. g >= f \/ g < f
    BY <1>2, SMT
  <2> QED
    BY <1>3, <2>1, <2>2, <2>3, <2>4, Zenon
<1> QED
  BY <1>13, <1>14, Zenon DEF a, e, f

Place36 == 68719476736

(* The exact comparison in units of the last place.                        *)
LEMMA ExactBySignificand ==
  ASSUME NEW k \in Nat, NEW s \in Nat, s # 0, NEW t, t # Zero,
         t.scale \in Int, 46 <= t.scale, t.scale <= MaxScale,
         t.hi \in Int, t.mid \in Int, t.lo \in Int
  PROVE  /\ ExactlyAtLeast(k, s, t) <=> Exact(k, t) >= Significand(t) * s
         /\ Hundredfold(k, t) \in Int
         /\ Exact(k, t) = Place36 * Hundredfold(k, t)
<1> DEFINE p == Times(t, s)
           h == Hundredfold(k, t)
           m == t.scale - 46
           e == Exact(k, t)
<1>1. ExactlyAtLeast(k, s, t) <=> h > p.hi \/ (h = p.hi /\ p.mid = 0 /\ p.lo = 0)
  BY Zenon DEF ExactlyAtLeast
<1>2. /\ Significand(p) = s * Significand(t)
      /\ p.hi \in Int /\ Rest(p.mid) /\ Rest(p.lo)
  BY TimesMultiplies, Zenon
<1>3. m \in 0..31 /\ t.scale - 45 = m + 1
  BY SMT DEF MaxScale
<1>4. 2^m \in Nat /\ 2^(t.scale - 45) = 2 * 2^m
  BY <1>3, Powers, Zenon
<1>5. h \in Int /\ e = 68719476736 * h
  <2> DEFINE q == 2^m
  <2>1. e = Place45 * (100 * (k * (2 * q))) /\ h = 100 * 2^10 * k * q /\ q \in Nat
    BY <1>4, Zenon DEF Exact, Hundredfold
  <2> HIDE DEF q, e, h
  <2> DEFINE u == k * q
  <2>2. u \in Nat /\ h = 102400 * u /\ k * (2 * q) = 2 * u
    BY <2>1, Literals, SMT
  <2> HIDE DEF u
  <2>3. e = Place45 * (100 * (2 * u))
    BY <2>1, <2>2, SMT
  <2> QED
    BY <2>2, <2>3, SMT DEF Place45
<1> HIDE DEF p, h, e
<1>6. Significand(p) = 68719476736 * p.hi + 262144 * p.mid + p.lo
  BY SMT DEF Significand
<1>7. e >= Significand(p) <=> h > p.hi \/ (h = p.hi /\ p.mid = 0 /\ p.lo = 0)
  BY <1>2, <1>5, <1>6, SMT DEF Rest
<1>8. s * Significand(t) = Significand(t) * s
  BY SMT DEF Significand
<1>9. Hundredfold(k, t) \in Int /\ Exact(k, t) = Place36 * Hundredfold(k, t)
  BY <1>5, SMT DEF h, e, Place36
<1>10. ExactlyAtLeast(k, s, t) <=> Exact(k, t) >= Significand(t) * s
  BY <1>1, <1>2, <1>7, <1>8, SMT DEF e
<1> QED
  BY <1>9, <1>10, SMT

(* A threshold above zero is a number that no score of zero reaches.       *)
LEMMA AboveZero ==
  ASSUME NEW t \in Normal
  PROVE  /\ Scaled(t) /\ 46 <= t.scale /\ t.scale <= MaxScale /\ t # Zero
         /\ t.scale \in Int /\ t.hi \in Int /\ t.mid \in Int /\ t.lo \in Int
         /\ ~AtLeast(Zero, t)
<1>1. Scaled(t) /\ 46 <= t.scale /\ t.scale <= MaxScale
  BY NormalIsScaled, Zenon
<1>2. t.scale \in Int /\ t.hi \in Int /\ t.mid \in Int /\ t.lo \in Int /\ 0 < t.hi
  BY <1>1, SMT DEF Scaled, Rest
<1>3. Zero.scale = MaxScale /\ Zero.hi = 0
  BY SMT DEF Zero
<1>4. ~AtLeast(Zero, t)
  BY <1>1, <1>2, <1>3, SMT DEF AtLeast, MaxScale
<1> QED
  BY <1>1, <1>2, <1>3, <1>4, SMT

(* Nothing killed: no threshold above zero is reached.                     *)
LEMMA NothingKilled ==
  ASSUME NEW s \in Nat, NEW t \in Normal
  PROVE  ~ScoreAtLeast(0, s, t) /\ ~ExactlyAtLeast(0, s, t)
<1>1. ~ScoreAtLeast(0, s, t)
  BY AboveZero, Zenon DEF ScoreAtLeast, Score
<1>2. ASSUME s # 0, ExactlyAtLeast(0, s, t) PROVE FALSE
  <2>1. 0 \in Nat
    BY SMT
  <2>2. Exact(0, t) >= Significand(t) * s /\ Exact(0, t) = Place36 * Hundredfold(0, t)
        /\ Hundredfold(0, t) \in Int
    BY <1>2, <2>1, AboveZero, ExactBySignificand, Zenon
  <2> DEFINE f == Significand(t)
  <2>3. f \in Nat /\ 1 <= f
    BY AboveZero, SignificandBounds, SMT
  <2> HIDE DEF f
  <2>4. 1 * s <= f * s
    BY <2>3, Comparing, SMT
  <2>5. t.scale - 46 \in 0..31
    BY AboveZero, SMT DEF MaxScale
  <2>6. 2^(t.scale - 46) \in Nat
    BY <2>5, Powers, Zenon
  <2>7. Hundredfold(0, t) = 0
    BY <2>6, Literals, SMT DEF Hundredfold
  <2>8. Exact(0, t) = 0
    BY <2>2, <2>7, SMT DEF Place36
  <2>9. f * s <= 0
    BY <2>2, <2>3, <2>8, SMT DEF f
  <2> QED
    BY <1>2, <2>3, <2>4, <2>9, SMT
<1>3. s = 0 => ~ExactlyAtLeast(0, s, t)
  BY AboveZero, Zenon DEF ExactlyAtLeast
<1> QED
  BY <1>1, <1>2, <1>3, Zenon

(* Something killed: the rounded and the exact decision.                   *)
LEMMA SomethingKilled ==
  ASSUME NEW k \in Nat \ {0}, NEW s \in k..(2^MaxShift), NEW t \in Normal
  PROVE  /\ ScoreAtLeast(k, s, t) => Significand(t) * s <= Exact(k, t) + 2 * s
         /\ ~ScoreAtLeast(k, s, t) => Exact(k, t) < Significand(t) * s + s
         /\ ExactlyAtLeast(k, s, t) <=> Exact(k, t) >= Significand(t) * s
<1>1. k \in Nat /\ s \in Nat /\ s # 0
  BY Literals, SMT DEF MaxShift
<1>2. /\ Scaled(t) /\ 45 <= t.scale /\ t.scale <= MaxScale
      /\ ExactlyAtLeast(k, s, t) <=> Exact(k, t) >= Significand(t) * s
  <2>1. 46 <= t.scale /\ t.scale \in Int
    BY AboveZero, Zenon
  <2>2. 45 <= t.scale
    BY <2>1, SMT
  <2> QED
    BY <1>1, <2>2, AboveZero, ExactBySignificand, Zenon
<1>3. /\ Scaled(Score(k, s)) /\ Close(k, s, Score(k, s))
      /\ 45 <= Score(k, s).scale /\ Score(k, s).scale <= MaxScale
  BY ScoreNear, Zenon
<1> QED
  BY <1>1, <1>2, <1>3, RoundedDecision, Zenon DEF ScoreAtLeast

(* A threshold of 17 bits is reached by the exact score whenever it is by  *)
(* the rounded one; only equality makes the converse fail.                 *)
LEMMA ShortThreshold ==
  ASSUME NEW k \in Nat \ {0}, NEW s \in k..(2^MaxShift), NEW t \in Normal, Short(t),
         ~(ScoreAtLeast(k, s, t) <=> ExactlyAtLeast(k, s, t))
  PROVE  ExactlyAtLeast(k, s, t) /\ Hundredfold(k, t) = t.hi * s
<1> DEFINE h == Hundredfold(k, t)
           f == Significand(t)
           e == Exact(k, t)
           w == t.hi * s
           rounded == ScoreAtLeast(k, s, t)
           exact   == ExactlyAtLeast(k, s, t)
<1>1. s \in Nat /\ s # 0 /\ k \in Nat
  BY Literals, SMT DEF MaxShift
<1>2. s <= 1073741824
  BY Literals, SMT DEF MaxShift
<1>3. h \in Int /\ e = Place36 * h
  BY <1>1, AboveZero, ExactBySignificand, Zenon
<1>4. w \in Int /\ f * s = Place36 * w
  <2>1. t.hi \in Int /\ f = Place36 * t.hi
    BY AboveZero, SMT DEF Short, Significand, Place36
  <2> HIDE DEF f
  <2> QED
    BY <1>1, <2>1, SMT DEF Place36
<1>5. /\ rounded => f * s <= e + 2 * s
      /\ ~rounded => e < f * s + s
      /\ exact <=> e >= f * s
  BY SomethingKilled, Zenon
<1>6. ~(rounded <=> exact)
  OBVIOUS
<1> HIDE DEF h, f, e, w, rounded, exact
<1>7. rounded => exact
  <2> SUFFICES ASSUME rounded PROVE exact
    OBVIOUS
  <2>1. f * s <= e + 2 * s
    BY <1>5, Zenon
  <2>2. e >= f * s
    BY <1>1, <1>2, <1>3, <1>4, <2>1, SMT DEF Place36
  <2> QED
    BY <1>5, <2>2, Zenon
<1>8. exact /\ ~rounded
  BY <1>6, <1>7, Zenon
<1>9. e >= f * s /\ e < f * s + s
  BY <1>5, <1>8, Zenon
<1>10. h = w
  BY <1>1, <1>2, <1>3, <1>4, <1>9, SMT DEF Place36
<1> QED
  BY <1>8, <1>10, Zenon DEF h, w, exact

(* Any other threshold is at most two units above or less than one unit    *)
(* below the exact score.                                                  *)
LEMMA LongThreshold ==
  ASSUME NEW k \in Nat \ {0}, NEW s \in k..(2^MaxShift), NEW t \in Normal,
         ~(ScoreAtLeast(k, s, t) <=> ExactlyAtLeast(k, s, t))
  PROVE  /\ ExactlyAtLeast(k, s, [t EXCEPT !.lo = @ + (-2)])
         /\ ~ExactlyAtLeast(k, s, [t EXCEPT !.lo = @ + 1])
<1> DEFINE f == Significand(t)
           e == Exact(k, t)
           rounded == ScoreAtLeast(k, s, t)
           exact   == ExactlyAtLeast(k, s, t)
<1>1. s \in Nat /\ s # 0 /\ k \in Nat
  BY Literals, SMT DEF MaxShift
<1>2. e \in Int /\ f \in Int /\ f * s \in Int
  <2>1. Hundredfold(k, t) \in Int /\ e = Place36 * Hundredfold(k, t)
    BY <1>1, AboveZero, ExactBySignificand, Zenon
  <2>2. e \in Int
    BY <2>1, SMT DEF Place36
  <2>3. f \in Int
    BY AboveZero, SignificandBounds, SMT
  <2> HIDE DEF f, e
  <2> QED
    BY <1>1, <2>2, <2>3, SMT
<1>3. /\ rounded => f * s <= e + 2 * s
      /\ ~rounded => e < f * s + s
      /\ exact <=> e >= f * s
  BY SomethingKilled, Zenon
<1>4. ~(rounded <=> exact)
  OBVIOUS
<1>5. ASSUME NEW d \in Int
      PROVE  ExactlyAtLeast(k, s, [t EXCEPT !.lo = @ + d]) <=> e >= (f + d) * s
  <2> DEFINE u == [t EXCEPT !.lo = @ + d]
  <2>1. t \in [scale : Int, hi : Int, mid : Int, lo : Int] /\ 65536 <= t.hi
    BY AboveZero, SMT DEF Scaled
  <2>2. u.scale = t.scale /\ u.hi = t.hi /\ u.mid = t.mid /\ u.lo = t.lo + d
    BY <2>1, SMT
  <2> HIDE DEF u
  <2>3. u # Zero
    BY <2>1, <2>2, SMT DEF Zero
  <2>4. u.scale \in Int /\ u.hi \in Int /\ u.mid \in Int /\ u.lo \in Int
    BY <2>1, <2>2, SMT
  <2>5. 46 <= u.scale /\ u.scale <= MaxScale
    BY <2>2, AboveZero, Zenon
  <2>6. ExactlyAtLeast(k, s, u) <=> Exact(k, u) >= Significand(u) * s
    BY <1>1, <2>3, <2>4, <2>5, ExactBySignificand, Zenon
  <2>7. Exact(k, u) = e
    BY <2>2, Zenon DEF Exact
  <2>8. Significand(u) = f + d
    BY <2>1, <2>2, SMT DEF Significand
  <2> QED
    BY <2>6, <2>7, <2>8, Zenon DEF u
<1> HIDE DEF f, e, rounded, exact
<1>6. e + 2 * s >= f * s /\ e < f * s + s
  <2>1. CASE rounded /\ ~exact
    <3>1. f * s <= e + 2 * s /\ ~(e >= f * s)
      BY <1>3, <2>1, Zenon
    <3> QED
      BY <1>1, <1>2, <3>1, SMT
  <2>2. CASE ~rounded /\ exact
    <3>1. e < f * s + s /\ e >= f * s
      BY <1>3, <2>2, Zenon
    <3> QED
      BY <1>1, <1>2, <3>1, SMT
  <2> QED
    BY <1>4, <2>1, <2>2, Zenon
<1>7. e >= (f + (-2)) * s /\ ~(e >= (f + 1) * s)
  BY <1>1, <1>2, <1>6, SMT
<1>8. -2 \in Int /\ 1 \in Int
  BY SMT
<1> QED
  BY <1>5, <1>7, <1>8, Zenon

(* A score of k out of k is a hundred.                                     *)
LEMMA FullScore ==
  ASSUME NEW k \in Nat \ {0}, k <= 2^MaxShift
  PROVE  /\ Scaled(Score(k, k)) /\ Score(k, k).scale = 46
         /\ Significand(Score(k, k)) = Significand(Hundred)
<1> DEFINE q == Quotient(k, k)
           c == Score(k, k)
           f == Significand(q)
           g == Significand(c)
<1>1. k \in k..(2^MaxShift)
  BY Literals, SMT DEF MaxShift
<1>2. c = TimesHundred(q)
  BY Zenon DEF Score
<1>3. PICK n \in 0..MaxShift :
         /\ Scaled(q) /\ q.scale = n + 52
         /\ 2^n \in Nat \ {0} /\ Near(f, k * 2^n, k)
  BY <1>1, QuotientNear, Zenon
<1>4. PICK drop \in {6, 7} : c.scale = q.scale - drop /\ ByHundred(f, g, drop)
  BY <1>2, <1>3, ProductNear, Zenon
<1>5. Scaled(c)
  BY <1>2, <1>3, ProductNear, Zenon
<1>6. f \in Int /\ Whole <= f /\ f + 1 <= 2 * Whole /\ g \in Int /\ Whole <= g
  BY <1>3, <1>5, SignificandBounds, SMT DEF Whole
<1> HIDE DEF f, g, q, c
<1> DEFINE p == 2^n
           x == Whole * k
           a == f * k
<1>7. 2 * a <= 2 * (x * p) + k /\ 2 * (x * p) <= 2 * a + k /\ p \in Nat \ {0}
  <2>1. Whole * (k * p) = x * p
    BY <1>3, SMT DEF Whole
  <2> QED
    BY <1>3, <2>1, Zenon DEF Near
<1>8. x \in Nat /\ a \in Int /\ a + k <= 2 * x /\ k <= x
  <2>1. (f + 1) * k <= (2 * Whole) * k
    BY <1>6, Comparing, SMT DEF Whole
  <2> QED
    BY <1>6, <2>1, SMT DEF Whole
<1> HIDE DEF p, a
<1>9. p = 1
  <2> SUFFICES ASSUME 2 <= p PROVE FALSE
    BY <1>7, SMT
  <2>1. 2 * x <= p * x
    BY <1>7, <1>8, Comparing, SMT
  <2> QED
    BY <1>7, <1>8, <2>1, SMT
<1>10. n = 0
  <2> SUFFICES ASSUME 0 < n PROVE FALSE
    BY SMT DEF MaxShift
  <2>1. 0 \in 0..31 /\ n \in 0..31
    BY SMT DEF MaxShift
  <2>2. 2 * 2^0 <= 2^n
    BY <2>1, PowersGrow, Zenon
  <2> QED
    BY <1>9, <2>2, Literals, SMT DEF p
<1>11. f = Whole
  <2> SUFFICES ASSUME Whole + 1 <= f PROVE FALSE
    BY <1>6, SMT DEF Whole
  <2>1. (Whole + 1) * k <= f * k
    BY <1>6, Comparing, SMT DEF Whole
  <2>2. x + k <= a
    BY <2>1, SMT DEF a, Whole
  <2> HIDE DEF x
  <2> QED
    BY <1>7, <1>8, <1>9, <2>2, SMT
<1>12. g = 7036874417766400 /\ drop = 6
  BY <1>4, <1>6, <1>11, SMT DEF ByHundred, Whole
<1>13. c.scale = 46
  BY <1>3, <1>4, <1>10, <1>12, SMT
<1>14. Significand(Hundred) = 7036874417766400
  BY Literals, SMT DEF Significand, Hundred
<1> QED
  BY <1>5, <1>12, <1>13, <1>14, SMT DEF c, g

-----------------------------------------------------------------------------
(* The gate.                                                               *)

(* The counters count the results, and the threshold is one of the         *)
(* thresholds.                                                             *)
Counted ==
  /\ killed \in Nat /\ survived \in Nat /\ unscored \in Nat
  /\ killed + survived + unscored <= N
  /\ threshold \in Thresholds

(* No more is counted than there are results.                              *)
LEMMA CountedInvariant == Spec => []Counted
<1>1. Init => Counted
  BY ScoringAssumption, Literals, SMT DEF Init, Counted, MaxShift
<1>2. Counted /\ [Next]_vars => Counted'
  BY ScoringAssumption, Literals, SMT
     DEF Counted, Next, CountKilled, CountSurvived, CountUnscored, More, vars, MaxShift
<1> QED
  BY <1>1, <1>2, PTL DEF Spec

(* What the counters compare.                                              *)
LEMMA CountedBounds ==
  ASSUME Counted
  PROVE  /\ killed + survived \in Nat
         /\ killed > 0 => /\ killed \in Nat \ {0}
                          /\ killed + survived \in killed..(2^MaxShift)
         /\ threshold = Zero \/ (threshold \in Normal /\ AtLeast(Hundred, threshold))
<1>1. N \in Nat /\ N <= 2^MaxShift /\ 2^MaxShift \in Nat
  BY ScoringAssumption, Literals, SMT DEF MaxShift
<1>2. threshold = Zero \/ (threshold \in Normal /\ AtLeast(Hundred, threshold))
  BY ScoringAssumption, Zenon DEF Counted
<1> QED
  BY <1>1, <1>2, SMT DEF Counted

(* A threshold of zero is always reached.                                  *)
LEMMA ZeroIsReached ==
  ASSUME Counted
  PROVE  /\ ScoreAtLeast(killed, killed + survived, Zero)
         /\ ExactlyAtLeast(killed, killed + survived, Zero)
<1> DEFINE s == killed + survived
           c == Score(killed, s)
<1>1. Zero.scale = MaxScale /\ Zero.hi = 0 /\ Zero.mid = 0 /\ Zero.lo = 0
  BY SMT DEF Zero
<1>2. AtLeast(Zero, Zero)
  BY <1>1, SMT DEF AtLeast
<1>3. ASSUME killed > 0 PROVE AtLeast(c, Zero)
  <2>1. Scaled(c) /\ c.scale <= MaxScale
    BY <1>3, CountedBounds, ScoreNear, Zenon
  <2> HIDE DEF c
  <2>2. c.hi \in Int /\ 0 < c.hi /\ c.scale \in Int
    BY <2>1, SMT DEF Scaled
  <2> QED
    BY <1>1, <2>1, <2>2, SMT DEF AtLeast, MaxScale
<1>4. killed = 0 => c = Zero
  BY Zenon DEF Score
<1>5. killed = 0 \/ killed > 0
  BY SMT DEF Counted
<1> QED
  BY <1>2, <1>3, <1>4, <1>5, Zenon DEF ScoreAtLeast, ExactlyAtLeast

(* A suite that kills every mutant passes the gate at every threshold, 100 *)
(* included: rounding never takes the full score away.                     *)
THEOREM FullScoreIsEnough == Spec => []FullScorePasses
<1>1. Counted => FullScorePasses
  <2> SUFFICES ASSUME Counted, unscored = 0, survived = 0, killed > 0
               PROVE  ScoreAtLeast(killed, killed + survived, threshold)
    BY Zenon DEF FullScorePasses, PassedGate
  <2> DEFINE k == killed
             c == Score(k, k)
             t == threshold
  <2>1. killed + survived = k
    BY SMT DEF Counted
  <2>2. k \in Nat \ {0} /\ k <= 2^MaxShift
    BY CountedBounds, SMT DEF Counted
  <2>3. CASE t = Zero
    BY <2>3, ZeroIsReached, Zenon
  <2>4. CASE t \in Normal /\ AtLeast(Hundred, t)
    <3>1. Scaled(c) /\ c.scale = 46 /\ Significand(c) = Significand(Hundred)
      BY <2>2, FullScore, Zenon
    <3>2. Scaled(t)
      BY <2>4, AboveZero, Zenon
    <3>3. Scaled(Hundred) /\ Hundred.scale = 46
      BY Literals, SMT DEF Hundred, Scaled, Rest
    <3>4. AtLeast(c, t)
      BY <2>4, <3>1, <3>2, <3>3, AtLeastBySignificand, Zenon
    <3> QED
      BY <2>1, <3>4, Zenon DEF ScoreAtLeast
  <2> QED
    BY <2>3, <2>4, CountedBounds, Zenon
<1> QED
  BY <1>1, CountedInvariant, PTL

(* For every float64 threshold that is 0 or at least 2^-24, and at most    *)
(* 2^30 results: the two roundings of summarize and its comparison decide  *)
(* as exact arithmetic does, unless the exact score equals a threshold of  *)
(* at most 17 bits, which may then fail, or lies within two units in the   *)
(* last place below a longer threshold or one unit above it, which may     *)
(* then be decided either way.                                             *)
THEOREM RoundingOnlyMattersNearEquality == Spec => []RoundingOnlyNearEquality
<1>1. Counted => RoundingOnlyNearEquality
  <2> SUFFICES ASSUME Counted, PassedGate # ExactGate
               PROVE  IF Short(threshold)
                      THEN /\ ExactGate
                           /\ Hundredfold(killed, threshold)
                                = threshold.hi * (killed + survived)
                      ELSE /\ ExactlyAtLeast(killed, killed + survived,
                                             [threshold EXCEPT !.lo = @ + (-2)])
                           /\ ~ExactlyAtLeast(killed, killed + survived,
                                              [threshold EXCEPT !.lo = @ + 1])
    BY Zenon DEF RoundingOnlyNearEquality
  <2> DEFINE k == killed
             s == killed + survived
             t == threshold
  <2>1. /\ ~(ScoreAtLeast(k, s, t) <=> ExactlyAtLeast(k, s, t))
        /\ ExactGate <=> ExactlyAtLeast(k, s, t)
    BY SMT DEF PassedGate, ExactGate, ScoreAtLeast, ExactlyAtLeast
  <2>2. t \in Normal
    BY <2>1, CountedBounds, ZeroIsReached, Zenon
  <2>3. k > 0
    <3>1. k # 0
      BY <2>1, <2>2, CountedBounds, NothingKilled, Zenon
    <3> QED
      BY <3>1, SMT DEF Counted
  <2>4. k \in Nat \ {0} /\ s \in k..(2^MaxShift)
    BY <2>3, CountedBounds, Zenon
  <2> HIDE DEF s
  <2>5. Short(t) => ExactlyAtLeast(k, s, t) /\ Hundredfold(k, t) = t.hi * s
    BY <2>1, <2>2, <2>4, ShortThreshold, Zenon
  <2>6. /\ ExactlyAtLeast(k, s, [t EXCEPT !.lo = @ + (-2)])
        /\ ~ExactlyAtLeast(k, s, [t EXCEPT !.lo = @ + 1])
    BY <2>1, <2>2, <2>4, LongThreshold, Zenon
  <2> QED
    BY <2>1, <2>5, <2>6, Zenon DEF s
<1> QED
  BY <1>1, CountedInvariant, PTL
=============================================================================
