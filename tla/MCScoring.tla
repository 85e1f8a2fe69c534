----------------------------- MODULE MCScoring ------------------------------
(***************************************************************************)
(* Scoring for TLC: thresholds at the ends and of the documentation, 58,   *)
(* which 29 of 50 meet exactly and rounded do not, 92.5, and the two       *)
(* float64 values next to 250/3, the upper one of which 5 of 6 meet only   *)
(* rounded.  Thresholds of at least 1/4 keep TLC's integers below 2^31.    *)
(***************************************************************************)
EXTENDS Scoring

Percent(n) ==
  LET e == CHOOSE e \in 0..6 : 2^e <= n /\ n < 2^(e + 1)
  IN  [scale |-> 52 - e, hi |-> n * 2^(16 - e), mid |-> 0, lo |-> 0]

NinetyTwoAndAHalf == [scale |-> 46, hi |-> 94720, mid |-> 0, lo |-> 0]

BelowFiveSixths == [scale |-> 46, hi |-> 85333, mid |-> 87381, lo |-> 87381]

MCThresholds ==
  {Percent(n) : n \in {1, 58, 60, 80, 100}}
    \cup {Zero, NinetyTwoAndAHalf, BelowFiveSixths, Successor(BelowFiveSixths)}
=============================================================================
