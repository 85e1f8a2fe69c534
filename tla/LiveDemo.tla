------------------------------ MODULE LiveDemo -------------------------------
(***************************************************************************)
(* demo/verify.sh and demo/incident/run.sh: scripts that start replicas of *)
(* the checkout service with Prometheus and Alertmanager, break one, and   *)
(* poll until the alerts are as the demonstration wants them.              *)
(*                                                                         *)
(* A script is its list of steps; its waits for several URLs are one step. *)
(* The containers are external and run beside it: a poll reads what they   *)
(* happen to show, or nothing when curl fails, which the scripts ignore.   *)
(* A poll of two servers is one step: no alert the scripts ask for changes *)
(* between the two.                                                        *)
(***************************************************************************)
EXTENDS Integers, Sequences, SequencesExt

CONSTANTS Scripts,  (* those of "verify" and "incident" that are run       *)
          Attempts  (* polls of one wait, 30 to 60 in the scripts          *)

ASSUME ScriptsKnown == Scripts \subseteq {"verify", "incident"} /\ Attempts \in Nat \ {0}

VARIABLES
  demo,     (* the script                                                 *)
  k,        (* the step under way                                          *)
  left,     (* its attempts left                                           *)
  status,   (* "running", "passed", "failed"                               *)
  ended,    (* the EXIT trap is done                                       *)
  trapped,  (* a signal waits for the end of the command: 0, 1, 2 (done)   *)
  keep,     (* KEEP_DEMO, KEEP_INCIDENT                                    *)
  stack,    (* the containers exist                                        *)
  downFailed, (* history: compose down failed                              *)
  running,  (* replicas that run                                           *)
  degraded,
  scraped,  (* server -> replica -> "unknown", "up", "down"                *)
  alert,    (* alert -> "inactive", "pending", "firing"                    *)
  pages,    (* alerts whose webhook checkout-1 has received                *)
  codes,    (* history: test -> exit code                                  *)
  seen      (* history: wait -> alerts as its last poll read them, of the  *)
            (* waits for alerts                                            *)

Steps ==
  IF demo = "verify"
  THEN <<"up", "url", "targets", "degrade", "stop", "alerts", "notification",
         "weak", "strong">>
  ELSE <<"build", "old test", "old score", "up", "url", "candidate targets",
         "expected targets", "stop", "comparison", "page", "new test", "new score">>

TargetWaits == {"targets", "candidate targets", "expected targets"}
Waits    == TargetWaits \cup {"url", "alerts", "notification", "comparison", "page"}
Tests    == {"weak", "strong", "old test", "old score", "new test", "new score"}
Replicas == {1, 2}
Alerts   == IF demo = "verify" THEN {"burn", "down"} ELSE {"candidate", "expected"}
Servers  == IF demo = "verify" THEN {"prometheus"} ELSE Alerts
ServerOf(a) == IF demo = "verify" THEN "prometheus" ELSE a
Nothing  == "nothing"    (* of an alert in a payload that was not read      *)

script == <<k, left, status, ended, codes, seen>>
signal == <<trapped, keep, demo>>
world  == <<stack, downFailed, running, degraded>>
watch  == <<scraped, alert, pages>>
vars   == <<script, signal, world, watch>>

Unscraped == [s \in Servers |-> [r \in Replicas |-> "unknown"]]
Quiet     == [a \in Alerts |-> "inactive"]

Init ==
  /\ demo \in Scripts
  /\ k = 1 /\ left = Attempts /\ status = "running" /\ ended = FALSE
  /\ trapped = 0 /\ keep \in BOOLEAN
  /\ stack = FALSE /\ downFailed = FALSE /\ running = {} /\ degraded = FALSE
  /\ scraped = Unscraped /\ alert = Quiet /\ pages = {}
  /\ codes = [t \in Tests |-> 0]
  /\ seen = [w \in {"alerts", "comparison"} |-> [a \in Alerts |-> Nothing]]

-----------------------------------------------------------------------------
(* The containers.                                                         *)

(* A replica that starts may miss its first scrapes.                       *)
Scrape(s, r) ==
  /\ stack
  /\ \E result \in {"up", "down"} :
       /\ r \notin running => result = "down"
       /\ r \in running /\ scraped[s][r] = "up" => result = "up"
       /\ scraped' = [scraped EXCEPT ![s][r] = result]
  /\ UNCHANGED <<script, signal, world, alert, pages>>

(* The rules: min and max of up by service, the error ratio of a replica.  *)
Holds(a) ==
  LET of(value) == {r \in Replicas : scraped[ServerOf(a)][r] = value}
  IN  CASE a \in {"down", "expected"} -> of("down") # {}
        [] a = "candidate"            -> of("down") # {} /\ of("up") = {}
        [] a = "burn"                 -> degraded

Evaluate(a) ==
  /\ stack
  /\ \/ ~Holds(a) /\ alert' = [alert EXCEPT ![a] = "inactive"]
     \/ Holds(a) /\ alert[a] = "inactive" /\ alert' = [alert EXCEPT ![a] = "pending"]
     \/ Holds(a) /\ alert[a] = "pending" /\ alert' = [alert EXCEPT ![a] = "firing"]
  /\ UNCHANGED <<script, signal, world, scraped, pages>>

Deliver(a) ==
  /\ stack /\ 1 \in running /\ alert[a] = "firing"
  /\ pages' = pages \cup {a}
  /\ UNCHANGED <<script, signal, world, scraped, alert>>

-----------------------------------------------------------------------------
(* The script.                                                             *)

Ready == status = "running" /\ trapped # 1
Now(steps) == Ready /\ k <= Len(Steps) /\ Steps[k] \in steps

Advance == k' = k + 1 /\ left' = Attempts /\ UNCHANGED status
Fail    == status' = "failed" /\ UNCHANGED <<k, left>>

Read(answered) ==
  [a \in Alerts |-> IF ServerOf(a) \in answered THEN alert[a] ELSE Nothing]

Firing(state) == state = "firing"

(* The server that is asked for its targets.                               *)
TargetsOf(wait) ==
  CASE wait = "targets"           -> "prometheus"
    [] wait = "candidate targets" -> "candidate"
    [] wait = "expected targets"  -> "expected"

(* What grep looks for in the payloads.                                    *)
Satisfied(wait, read, answered) ==
  LET Active(a) == read[a] \in {"pending", "firing"}
  IN  CASE wait = "url"     -> answered = Servers
        [] wait \in TargetWaits ->
             LET s == TargetsOf(wait)
             IN  s \in answered /\ \A r \in Replicas : scraped[s][r] = "up"
        [] wait = "alerts"  ->
             (\A a \in Alerts : Active(a)) /\ \E a \in Alerts : Firing(read[a])
        [] wait = "notification" -> answered # {} /\ pages # {}
        [] wait = "comparison"   ->
             ~Active("candidate") /\ Active("expected") /\ Firing(read["expected"])
        [] wait = "page" ->
             answered # {} /\ "expected" \in pages /\ "candidate" \notin pages

AttemptsAfter == left - 1

GivesUp == left = 1

Poll ==
  /\ Now(Waits)
  /\ \E answered \in IF stack THEN SUBSET Servers ELSE {{}} :
       LET wait == Steps[k]
           read == Read(answered)
       IN  /\ seen' = IF wait \in DOMAIN seen THEN [seen EXCEPT ![wait] = read] ELSE seen
           /\ \/ Satisfied(wait, read, answered) /\ Advance
              \/ /\ ~Satisfied(wait, read, answered) /\ ~GivesUp
                 /\ left' = AttemptsAfter /\ UNCHANGED <<k, status>>
              \/ ~Satisfied(wait, read, answered) /\ GivesUp /\ Fail
  /\ UNCHANGED <<signal, world, watch, codes, ended>>

(* set -e ends the script when a command fails.                            *)
ComposeBuild ==
  /\ Now({"build"})
  /\ Advance \/ Fail
  /\ UNCHANGED <<signal, world, watch, codes, seen, ended>>

ComposeUp ==
  /\ Now({"up"})
  /\ stack' = TRUE /\ running' = Replicas
  /\ Advance \/ Fail
  /\ UNCHANGED <<signal, downFailed, degraded, watch, codes, seen, ended>>

Degrade ==
  /\ Now({"degrade"})
  /\ \/ stack /\ degraded' = TRUE /\ Advance
     \/ UNCHANGED degraded /\ Fail
  /\ UNCHANGED <<signal, stack, downFailed, running, watch, codes, seen, ended>>

StopReplica ==
  /\ Now({"stop"})
  /\ \/ running' = running \ {2} /\ Advance
     \/ UNCHANGED running /\ Fail
  /\ UNCHANGED <<signal, stack, downFailed, degraded, watch, codes, seen, ended>>

(* Mutant: set -e is not restored after the test that has to fail.         *)
AcceptedAfterSetPlusE(test) ==
  IF test \in {"weak", "old score", "new test"} THEN {1}
  ELSE IF test \in {"strong", "new score"} THEN 0..2 ELSE {0}

(* The exit code a test must have for the script to go on.                 *)
Accepted(test) == IF test \in {"weak", "old score", "new test"} THEN {1} ELSE {0}

RunTest ==
  /\ Now(Tests)
  /\ \E code \in 0..2 :
       /\ codes' = [codes EXCEPT ![Steps[k]] = code]
       /\ IF code \in Accepted(Steps[k]) THEN Advance ELSE Fail
  /\ UNCHANGED <<signal, world, watch, seen, ended>>

Pass ==
  /\ Ready /\ k > Len(Steps)
  /\ status' = "passed"
  /\ UNCHANGED <<k, left, ended, codes, seen, signal, world, watch>>

(* compose down, unless the containers are to be kept; its failure is      *)
(* ignored.                                                                *)
cleanup ==
  \/ keep /\ UNCHANGED <<world, watch>>
  \/ /\ ~keep
     /\ stack' = FALSE /\ running' = {} /\ degraded' = FALSE
     /\ scraped' = Unscraped /\ alert' = Quiet /\ pages' = {}
     /\ UNCHANGED downFailed
  \/ /\ ~keep
     /\ downFailed' = TRUE
     /\ UNCHANGED <<stack, running, degraded, watch>>

(* TERM: the trap runs when the command has ended, and has no exit.        *)
Terminate ==
  /\ ~ended /\ trapped = 0
  /\ trapped' = 1
  /\ UNCHANGED <<script, keep, demo, world, watch>>

RunTrap ==
  /\ trapped = 1 /\ ~ended
  /\ cleanup
  /\ trapped' = 2
  /\ UNCHANGED <<script, keep, demo>>

(* Mutant: only a script that passes removes the containers.               *)
ExitTrapIfPassed == status = "passed"

ExitTrap == status # "running"

Exit ==
  /\ status # "running" /\ ~ended
  /\ IF ExitTrap THEN cleanup ELSE UNCHANGED <<world, watch>>
  /\ ended' = TRUE
  /\ UNCHANGED <<k, left, status, codes, seen, signal>>

ScriptStep == \/ ComposeBuild \/ ComposeUp \/ Poll \/ Degrade \/ StopReplica \/ RunTest
              \/ Pass \/ RunTrap \/ Exit

Container == \/ \E s \in Servers, r \in Replicas : Scrape(s, r)
             \/ \E a \in Alerts : Evaluate(a) \/ Deliver(a)

Next == ScriptStep \/ Terminate \/ Container

(* Commands end; nothing is assumed of the containers.                     *)
Spec == Init /\ [][Next]_vars /\ WF_vars(ScriptStep)

-----------------------------------------------------------------------------
(* A script that passes has seen what it says at its end: the tests ended  *)
(* as they have to, an alert fired and was the one expected, and in the    *)
(* comparison the wrong rule did not alert.                                *)
PassDemonstrated ==
  status = "passed" =>
    /\ demo = "verify" => /\ codes["weak"] = 1 /\ codes["strong"] = 0
                            /\ \E a \in Alerts : seen["alerts"][a] = "firing"
    /\ demo = "incident" =>
         /\ codes["old test"] = 0 /\ codes["old score"] = 1
         /\ codes["new test"] = 1 /\ codes["new score"] = 0
         /\ seen["comparison"]["expected"] = "firing"
         /\ seen["comparison"]["candidate"] \notin {"pending", "firing"}

(* A script ends, whatever the containers do, and however it ends, they    *)
(* are gone unless they are to be kept or docker could not remove them.    *)
Ends == <>[](ended /\ (stack => keep \/ downFailed))
=============================================================================
