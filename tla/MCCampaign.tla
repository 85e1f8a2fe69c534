----------------------------- MODULE MCCampaign -----------------------------
(***************************************************************************)
(* Campaign for TLC: one rule file, two test files, and a handful of       *)
(* behaviours of promtool from which the worlds are put together.          *)
(***************************************************************************)
EXTENDS CampaignInvariant

CONSTANTS a, b, c (* survivor file names *)

Behaviour(check, first, second) == [check |-> check, run |-> <<first, second>>]

Killed1   == Behaviour("pass", "assertion", "pass")
Killed2   == Behaviour("pass", "unrelated", "assertion")
Survivor  == Behaviour("pass", "pass", "pass")
Survivor2 == Behaviour("pass", "unrelated", "pass")
Rejected  == Behaviour("fails", "pass", "pass")
Hung1     == Behaviour("hangs", "pass", "pass")
Hung2     == Behaviour("pass", "pass", "hangs")
Both      == Behaviour("pass", "both", "assertion")
Silent    == Behaviour("pass", "pass", "silent")
Broken    == Behaviour("pass", "execution", "pass")
Untested  == Behaviour("pass", "unrelated", "unrelated")
Unusable  == Behaviour("pass", "pass", "unusable")

Sound == [k \in Baseline |-> "pass"]
Files == {a, b, c}

WorldOf(mutants, file, baseline) ==
  [check    |-> [m \in Mutant |-> mutants[m].check],
   run      |-> [m \in Mutant |-> mutants[m].run],
   file     |-> [m \in Mutant |-> file[m]],
   baseline |-> baseline]

(* The survivors of these worlds have file names of their own.             *)
MCWorlds ==
  {WorldOf(ms, <<a, b, c>>, Sound) :
     ms \in {<<Killed1, Killed2, Survivor>>, <<Survivor2, Unusable, Hung2>>,
             <<Both, Silent, Rejected>>, <<Killed2, Hung1, Broken>>,
             <<Killed1, Killed2, Untested>>}}
  \cup {WorldOf(<<Killed1, Killed2, Survivor>>, <<a, b, c>>,
                [Sound EXCEPT ![k] = e]) :
          k \in {2, 4}, e \in {"fails", "hangs"}}

(* Two sites of one expression give two survivors one name.                *)
MCSharedNameWorlds ==
  {WorldOf(<<Survivor, Survivor, Killed1>>, <<a, a, b>>, Sound)}

(* The second mutant's test leaves a child behind.                         *)
Lingering == Behaviour("pass", "pass", "lingers")
MCLingeringWorlds == {WorldOf(<<Killed1, Lingering>>, <<a, b>>, Sound)}

(* Score >= 60: two of three kills pass, one does not.                     *)
MCMeetsThreshold(killed, scorable) == 100 * killed >= 60 * scorable /\ scorable > 0
=============================================================================
