-------------------------- MODULE CampaignContract --------------------------
(***************************************************************************)
(* What a campaign promises, without workers, channels, commands or        *)
(* files: mutants get their verdicts in any order, one at a time and once  *)
(* and for all; a verdict is true, or says that none could be reached; no  *)
(* verdict is given on rules whose own tests fail; and the campaign ends   *)
(* in a refusal, or, after the last verdict, in the gate they deserve.     *)
(***************************************************************************)
EXTENDS Integers, FiniteSets

CONSTANTS N,                   (* selected mutants                         *)
          MeetsThreshold(_, _) (* (killed, scorable)                       *)

Mutant == 1..N

VARIABLES verdicts, (* of each mutant, "none" before it is decided         *)
          outcome,  (* "open", "refused", "passed" or "gated"              *)
          truth,    (* the verdict each mutant deserves                    *)
          sound     (* the original rules pass their own tests             *)

vars == <<verdicts, outcome, truth, sound>>

Undecided == "none"
Unscored  == {"timeout", "error"}
Killed    == {m \in Mutant : verdicts[m] = "killed"}

Init ==
  /\ verdicts = [m \in Mutant |-> Undecided]
  /\ outcome = "open"
  /\ truth \in [Mutant -> {"killed", "survived"} \cup Unscored]
  /\ sound \in BOOLEAN

Decide(m) ==
  /\ outcome = "open" /\ sound
  /\ verdicts[m] = Undecided
  /\ \E v \in Unscored \cup {truth[m]} :
       verdicts' = [verdicts EXCEPT ![m] = v]
  /\ UNCHANGED <<outcome, truth, sound>>

Deserved ==
  IF /\ \A m \in Mutant : verdicts[m] \notin Unscored
     /\ MeetsThreshold(Cardinality(Killed), N)
  THEN "passed" ELSE "gated"

Close ==
  /\ outcome = "open" /\ sound
  /\ \A m \in Mutant : verdicts[m] # Undecided
  /\ outcome' = Deserved
  /\ UNCHANGED <<verdicts, truth, sound>>

Refuse ==
  /\ outcome = "open"
  /\ outcome' = "refused"
  /\ UNCHANGED <<verdicts, truth, sound>>

Next == Close \/ Refuse \/ \E m \in Mutant : Decide(m)

Spec == Init /\ [][Next]_vars
=============================================================================
