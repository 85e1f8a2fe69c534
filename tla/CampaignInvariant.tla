-------------------------- MODULE CampaignInvariant -------------------------
(***************************************************************************)
(* The inductive invariant of Campaign: what a worker knows of its mutant  *)
(* at each point of Execute, what the results slice holds, and who owns    *)
(* which mutant; then what it leaves behind and reports.  TLC checks it,   *)
(* CampaignProofs proves it.                                               *)
(***************************************************************************)
EXTENDS Campaign

(* The worker has a mutant whose result is not stored yet.                 *)
Busy == {"prepare", "check", "tests", "testing", "open", "write", "cleanup",
         "record"}

(* A scored result is the undisturbed verdict, and a kill names the test.  *)
Honest(m, r) ==
  r.status \in Scored =>
    /\ r.status = Verdict(m)
    /\ r.status = "killed" => /\ r.test \in Test
                              /\ EndsAt(m, r.test)
                              /\ world.run[m][r.test] = "assertion"

(* What the control point of a worker says of its mutant.                  *)
Knows(w) ==
  /\ pc[w] \in Busy => job[w] \in Mutant
  /\ pc[w] \in {"prepare", "check"} => test[w] = 1 /\ ~tested[w]
  /\ pc[w] \in {"tests", "testing"} =>
       /\ world.check[job[w]] = "pass"
       /\ \A t \in 1..(test[w] - 1) : Benign(job[w], t)
  /\ pc[w] = "tests" /\ tested[w] =>
       \E t \in 1..(test[w] - 1) : world.run[job[w]][t] = "pass"
  /\ pc[w] = "testing" => test[w] \in Test
  /\ pc[w] \in {"open", "write"} =>
       result[w].status = "survived" /\ IsSurvivor(job[w])
  /\ pc[w] \in {"cleanup", "record"} =>
       result[w].status # "none" /\ Honest(job[w], result[w])

(* A command's context lives exactly as long as the command.               *)
Commands == /\ \A w \in Worker : ctx[w] # "none" <=> pc[w] \in {"check", "testing"}
            /\ ctx[Main] # "none" <=> main = "baseline"

WorkersKnow   == \A w \in Worker : Knows(w)
ResultsHonest == \A m \in Mutant : Honest(m, results[m])

(* No worker is born and no result stored before the baseline has passed.  *)
Early == {"load", "baseline", "failed"}

BaselineFirst ==
  /\ main \in Early => /\ \A w \in Worker : pc[w] = "unborn"
                      /\ \A m \in Mutant : results[m].status = "none"
  /\ main \in {"load", "baseline"} =>
       \A k \in 1..(step - 1) : world.baseline[k] = "pass"
  /\ main \notin Early => BaselineOK

(* Each dispatched mutant is stored or with exactly one worker.            *)
Ownership ==
  /\ \A w \in Worker : pc[w] \in Busy =>
       job[w] < next /\ results[job[w]].status = "none"
  /\ \A v, w \in Worker :
       pc[v] \in Busy /\ pc[w] \in Busy /\ job[v] = job[w] => v = w
  /\ \A m \in Mutant : m < next =>
       \/ results[m].status # "none"
       \/ \E w \in Worker : pc[w] \in Busy /\ job[w] = m
  /\ \A m \in Mutant : m >= next => results[m].status = "none"
  /\ main \in {"draining", "reported"} => next = N + 1
  /\ main \in {"canceled", "reported"} => AllExited
  /\ main = "reported" => summary = Summarize

CoreInv == /\ TypeOK /\ Commands /\ WorkersKnow /\ ResultsHonest
           /\ BaselineFirst /\ Ownership

-----------------------------------------------------------------------------
(* What the reports add: why a result differs from the verdict, which      *)
(* files exist, and what the progress counter has counted.                 *)

Noisy(m) == cancelled \/ m \in disturbed

(* A status that is not the verdict was forced on the mutant.  A worker    *)
(* that has run no test yet has met none that references its rule file.    *)
Explains(w) ==
  /\ pc[w] = "tests" /\ ~tested[w] =>
       \A t \in 1..(test[w] - 1) : world.run[job[w]][t] = "unrelated"
  /\ pc[w] = "testing" =>
       tested[w] /\ world.run[job[w]][test[w]] \notin {"unrelated", "unusable"}
  /\ ctx[w] \in {"unstarted", "canceled"} => cancelled
  /\ ctx[w] = "deadline" => Exit(w) \in {"hangs", "lingers"} \/ job[w] \in disturbed
  /\ pc[w] \in {"cleanup", "record"} =>
       result[w].status = Verdict(job[w]) \/ Noisy(job[w])

WorkersExplain == \A w \in Worker : Explains(w)

(* A workspace belongs to a worker that will remove it, unless it failed.  *)
HasWorkspace == {"check", "tests", "testing", "open", "write", "cleanup"}

WorkspacesOwned ==
  \A m \in workspaces :
    m \in disturbed \/ \E w \in Worker : pc[w] \in HasWorkspace /\ job[w] = m

(* Survivors have file names of their own.                                 *)
OwnNames == \A m, n \in Mutant :
  IsSurvivor(m) /\ IsSurvivor(n) /\ world.file[m] = world.file[n] => m = n

(* The file of a survivor is written before it is one, and no other worker *)
(* writes to it.                                                           *)
SurvivorsWritten ==
  /\ \A w \in Worker : pc[w] \in {"open", "write"} => KeepSurvivors
  /\ KeepSurvivors /\ OwnNames =>
       /\ \A w \in Worker : pc[w] \in {"cleanup", "record"} /\ result[w].status = "survived"
                               => saved[world.file[job[w]]] = job[w]
       /\ \A m \in Mutant : results[m].status = "survived" => saved[world.file[m]] = m

(* The counter is ahead of the callback by the holder of the lock, and     *)
(* behind the results by those who wait for it.                            *)
Stored  == {m \in Mutant : results[m].status # "none"}
Waiting == {w \in Worker : pc[w] = "lock"}

ProgressCounted ==
  /\ \A w \in Worker : pc[w] = "report" <=> lock = w
  /\ completed = Len(shown) + (IF lock = Free THEN 0 ELSE 1)
  /\ \A i \in DOMAIN shown : shown[i] = i
  /\ Progress => Cardinality(Stored) = completed + Cardinality(Waiting)

IInv == /\ CoreInv
        /\ WorkersExplain /\ NoiseExplained /\ WorkspacesOwned
        /\ SurvivorsWritten /\ OnlySurvivorsSaved /\ ProgressCounted
=============================================================================
