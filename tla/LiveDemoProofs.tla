--------------------------- MODULE LiveDemoProofs ---------------------------
(***************************************************************************)
(* The demonstration scripts, for any number of attempts, whatever the     *)
(* containers do and whenever a signal comes: a script that passes has     *)
(* seen all that it claims.                                                *)
(***************************************************************************)
EXTENDS LiveDemo, TLAPS

USE DEF script, signal, world, watch

-----------------------------------------------------------------------------
(* The inductive invariant: what holds behind each step of a script.       *)

BehindVerify ==
  /\ k > 6 => \E a \in Alerts : seen["alerts"][a] = "firing"
  /\ k > 8 => codes["weak"] = 1
  /\ k > 9 => codes["strong"] = 0

BehindIncident ==
  /\ k > 2 => codes["old test"] = 0
  /\ k > 3 => codes["old score"] = 1
  /\ k > 9 => /\ seen["comparison"]["expected"] = "firing"
              /\ seen["comparison"]["candidate"] \notin {"pending", "firing"}
  /\ k > 11 => codes["new test"] = 1
  /\ k > 12 => codes["new score"] = 0

ScriptInv ==
  /\ demo \in {"verify", "incident"} /\ k \in Nat \ {0}
  /\ DOMAIN codes = Tests /\ DOMAIN seen = {"alerts", "comparison"}
  /\ status = "passed" => k > Len(Steps)
  /\ demo = "verify" => BehindVerify
  /\ demo = "incident" => BehindIncident

LEMMA VerifySteps ==
  ASSUME demo = "verify"
  PROVE  /\ Len(Steps) = 9
         /\ Steps[1] = "up" /\ Steps[2] = "url" /\ Steps[3] = "targets"
         /\ Steps[4] = "degrade" /\ Steps[5] = "stop" /\ Steps[6] = "alerts"
         /\ Steps[7] = "notification" /\ Steps[8] = "weak" /\ Steps[9] = "strong"
BY DEF Steps

LEMMA IncidentSteps ==
  ASSUME demo = "incident"
  PROVE  /\ Len(Steps) = 12
         /\ Steps[1] = "build" /\ Steps[2] = "old test" /\ Steps[3] = "old score"
         /\ Steps[4] = "up" /\ Steps[5] = "url" /\ Steps[6] = "candidate targets"
         /\ Steps[7] = "expected targets" /\ Steps[8] = "stop"
         /\ Steps[9] = "comparison" /\ Steps[10] = "page" /\ Steps[11] = "new test"
         /\ Steps[12] = "new score"
BY DEF Steps

LEMMA StepsOfScripts ==
  /\ demo = "verify" => Len(Steps) = 9
  /\ demo = "incident" => Len(Steps) = 12
BY VerifySteps, IncidentSteps

(* Where the tests and the waits for alerts are.                           *)
LEMMA PlaceOfStep ==
  ASSUME ScriptInv, k \in 1..Len(Steps)
  PROVE  /\ demo = "verify" =>
              /\ Steps[k] = "alerts" <=> k = 6
              /\ Steps[k] \in Tests <=> k \in {8, 9}
              /\ k = 8 => Steps[k] = "weak"
              /\ k = 9 => Steps[k] = "strong"
         /\ demo = "incident" =>
              /\ Steps[k] = "comparison" <=> k = 9
              /\ Steps[k] \in Tests <=> k \in {2, 3, 11, 12}
              /\ k = 2 => Steps[k] = "old test"
              /\ k = 3 => Steps[k] = "old score"
              /\ k = 11 => Steps[k] = "new test"
              /\ k = 12 => Steps[k] = "new score"
<1>1. CASE demo = "verify"
  <2>0. Len(Steps) = 9
    BY <1>1, VerifySteps
  <2>1. k \in {1, 2, 3, 4, 5, 6, 7, 8, 9}
    BY <2>0
  <2> QED
    BY <1>1, <2>1, VerifySteps DEF Tests
<1>2. CASE demo = "incident"
  <2>0. Len(Steps) = 12
    BY <1>2, IncidentSteps
  <2>1. k \in {1, 2, 3, 4, 5, 6, 7, 8, 9, 10, 11, 12}
    BY <2>0
  <2> QED
    BY <1>2, <2>1, IncidentSteps DEF Tests
<1> QED
  BY <1>1, <1>2

(* Nothing but the script moves the script, and only as it says.           *)
LEMMA ScriptFrame ==
  ASSUME [Next]_vars
  PROVE  /\ demo' = demo
         /\ \/ UNCHANGED <<k, status, codes, seen>>
            \/ Poll \/ RunTest \/ Pass \/ ComposeBuild \/ ComposeUp \/ Degrade \/ StopReplica
<1>1. CASE Container \/ Terminate \/ RunTrap \/ Exit \/ UNCHANGED vars
  BY <1>1 DEF Container, Terminate, RunTrap, Exit, Scrape, Evaluate, Deliver, vars
<1>2. CASE Poll \/ RunTest \/ Pass \/ ComposeBuild \/ ComposeUp \/ Degrade \/ StopReplica
  BY <1>2 DEF Poll, RunTest, Pass, ComposeBuild, ComposeUp, Degrade, StopReplica
<1> QED
  BY <1>1, <1>2 DEF Next, ScriptStep

(* A wait that is over has read what it waited for.                        *)
LEMMA PollReads ==
  ASSUME ScriptInv, Poll
  PROVE  /\ k \in 1..Len(Steps) /\ UNCHANGED <<demo, codes>> /\ DOMAIN seen' = DOMAIN seen
         /\ status' # "passed"
         /\ \A w \in {"alerts", "comparison"} : Steps[k] # w => seen'[w] = seen[w]
         /\ k' = k \/ k' = k + 1
         /\ k' = k + 1 /\ Steps[k] = "alerts" => \E a \in Alerts : seen'["alerts"][a] = "firing"
         /\ k' = k + 1 /\ Steps[k] = "comparison" =>
              /\ seen'["comparison"]["expected"] = "firing"
              /\ seen'["comparison"]["candidate"] \notin {"pending", "firing"}
<1>1. PICK answered \in IF stack THEN SUBSET Servers ELSE {{}} :
        LET wait == Steps[k]
            read == Read(answered)
        IN  /\ seen' = IF wait \in DOMAIN seen THEN [seen EXCEPT ![wait] = read] ELSE seen
            /\ \/ Satisfied(wait, read, answered) /\ Advance
               \/ /\ ~Satisfied(wait, read, answered) /\ ~GivesUp
                  /\ left' = AttemptsAfter /\ UNCHANGED <<k, status>>
               \/ ~Satisfied(wait, read, answered) /\ GivesUp /\ Fail
  BY DEF Poll
<1>2. k \in 1..Len(Steps) /\ UNCHANGED <<demo, codes>> /\ status = "running" /\ k \in Nat
  BY StepsOfScripts DEF Poll, Now, Ready, ScriptInv
<1>3. status' # "passed" /\ (k' = k \/ (k' = k + 1 /\ Satisfied(Steps[k], Read(answered), answered)))
  BY <1>1, <1>2 DEF Advance, Fail
<1>4. /\ DOMAIN seen' = DOMAIN seen
      /\ \A w \in {"alerts", "comparison"} : Steps[k] # w => seen'[w] = seen[w]
      /\ \A w \in {"alerts", "comparison"} : Steps[k] = w => seen'[w] = Read(answered)
  BY <1>1 DEF ScriptInv
<1>5. ASSUME k' = k + 1, Steps[k] = "alerts" PROVE \E a \in Alerts : seen'["alerts"][a] = "firing"
  <2>1. Satisfied("alerts", Read(answered), answered)
    BY <1>2, <1>3, <1>5
  <2>2. \E a \in Alerts : Read(answered)[a] = "firing"
    BY <2>1 DEF Satisfied, Firing
  <2> QED
    BY <1>4, <1>5, <2>2
<1>6. ASSUME k' = k + 1, Steps[k] = "comparison"
      PROVE  /\ seen'["comparison"]["expected"] = "firing"
             /\ seen'["comparison"]["candidate"] \notin {"pending", "firing"}
  <2>1. Satisfied("comparison", Read(answered), answered)
    BY <1>2, <1>3, <1>6
  <2>2. /\ Read(answered)["expected"] = "firing"
        /\ Read(answered)["candidate"] \notin {"pending", "firing"}
    BY <2>1 DEF Satisfied, Firing
  <2> QED
    BY <1>4, <1>6, <2>2
<1> QED
  BY <1>2, <1>3, <1>4, <1>5, <1>6

(* A test that the script goes on after has ended as it had to.            *)
LEMMA TestEnds ==
  ASSUME ScriptInv, RunTest
  PROVE  /\ k \in 1..Len(Steps) /\ UNCHANGED <<demo, seen>> /\ DOMAIN codes' = DOMAIN codes
         /\ status' # "passed" /\ Steps[k] \in Tests
         /\ \A t \in Tests : Steps[k] # t => codes'[t] = codes[t]
         /\ k' = k \/ (k' = k + 1 /\ codes'[Steps[k]] \in Accepted(Steps[k]))
<1>1. PICK code \in 0..2 : /\ codes' = [codes EXCEPT ![Steps[k]] = code]
                           /\ IF code \in Accepted(Steps[k]) THEN Advance ELSE Fail
  BY DEF RunTest
<1>2. /\ k \in 1..Len(Steps) /\ UNCHANGED <<demo, seen>> /\ status = "running"
      /\ Steps[k] \in Tests
  BY StepsOfScripts DEF RunTest, Now, Ready, ScriptInv
<1> QED
  BY <1>1, <1>2 DEF Advance, Fail, ScriptInv

LEMMA InitScript == Init => ScriptInv
BY ScriptsKnown DEF Init, ScriptInv, BehindVerify, BehindIncident

(* A step that neither passes nor changes the shape of the histories.       *)
LEMMA KeepsShape ==
  ASSUME ScriptInv, demo' = demo, k' \in Nat \ {0}, status' # "passed",
         DOMAIN codes' = DOMAIN codes, DOMAIN seen' = DOMAIN seen,
         demo = "verify" => BehindVerify', demo = "incident" => BehindIncident'
  PROVE  ScriptInv'
BY Zenon DEF ScriptInv

(* One step further at most passes the step under way, and no other.       *)
LEMMA Passes ==
  ASSUME k \in Nat \ {0}, k' \in {k, k + 1}
  PROVE  /\ k' \in Nat \ {0}
         /\ \A n \in Nat : k' > n => k > n \/ (k = n /\ k' = k + 1)
OBVIOUS

(* What a step that waits for no alert and runs no test leaves behind.     *)
LEMMA StaysBehind ==
  ASSUME ScriptInv, demo' = demo, Alerts' = Alerts, k' \in {k, k + 1},
         status' # "passed", UNCHANGED <<codes, seen>>, k \in 1..Len(Steps),
         Steps[k] \notin Tests, Steps[k] \notin {"alerts", "comparison"}
  PROVE  ScriptInv'
<1>1. k \in Nat \ {0}
  BY Zenon DEF ScriptInv
<1>2. k' \in Nat \ {0}
  BY <1>1, Passes
<1>3. ASSUME demo = "verify" PROVE BehindVerify'
  <2>1. k # 6 /\ k # 8 /\ k # 9
    BY <1>3, PlaceOfStep
  <2>2. (k' > 6 => k > 6) /\ (k' > 8 => k > 8) /\ (k' > 9 => k > 9)
    BY <1>1, <2>1, Passes
  <2> QED
    BY <1>3, <2>2, Zenon DEF ScriptInv, BehindVerify
<1>4. ASSUME demo = "incident" PROVE BehindIncident'
  <2>1. k # 2 /\ k # 3 /\ k # 9 /\ k # 11 /\ k # 12
    BY <1>4, PlaceOfStep
  <2>2. /\ k' > 2 => k > 2
        /\ k' > 3 => k > 3
        /\ k' > 9 => k > 9
        /\ k' > 11 => k > 11
        /\ k' > 12 => k > 12
    BY <1>1, <2>1, Passes
  <2> QED
    BY <1>4, <2>2, Zenon DEF ScriptInv, BehindIncident
<1> QED
  BY <1>2, <1>3, <1>4, KeepsShape

LEMMA PollKeeps ==
  ASSUME ScriptInv, Poll, demo' = demo, Alerts' = Alerts
  PROVE  ScriptInv'
<1>1. /\ UNCHANGED codes /\ DOMAIN seen' = DOMAIN seen /\ status' # "passed"
      /\ k \in 1..Len(Steps) /\ Steps[k] \notin Tests /\ k' \in {k, k + 1} /\ k \in Nat \ {0}
  BY PollReads DEF Poll, Now, Waits, TargetWaits, Tests, ScriptInv
<1>2. k' \in Nat \ {0}
  BY <1>1, Passes
<1>3. ASSUME demo = "verify" PROVE BehindVerify'
  <2>1. k # 8 /\ k # 9 /\ (Steps[k] = "alerts" <=> k = 6)
    BY <1>1, <1>3, PlaceOfStep
  <2>2. /\ k' > 6 => k > 6 \/ (k = 6 /\ k' = k + 1)
        /\ k' > 8 => k > 8
        /\ k' > 9 => k > 9
    BY <1>1, <2>1, Passes
  <2>3. k > 6 => k # 6
    BY <1>1
  <2>4. k # 6 => seen'["alerts"] = seen["alerts"]
    BY <2>1, PollReads, Zenon
  <2>5. k = 6 /\ k' = k + 1 => \E a \in Alerts : seen'["alerts"][a] = "firing"
    BY <2>1, PollReads, Zenon
  <2>6. k' > 6 => \E a \in Alerts : seen'["alerts"][a] = "firing"
    BY <1>3, <2>2, <2>3, <2>4, <2>5, Zenon DEF ScriptInv, BehindVerify
  <2> QED
    BY <1>1, <1>3, <2>2, <2>6, Zenon DEF ScriptInv, BehindVerify
<1>4. ASSUME demo = "incident" PROVE BehindIncident'
  <2> DEFINE Right(state) == /\ state["expected"] = "firing"
                             /\ state["candidate"] \notin {"pending", "firing"}
  <2>1. k # 2 /\ k # 3 /\ k # 11 /\ k # 12 /\ (Steps[k] = "comparison" <=> k = 9)
    BY <1>1, <1>4, PlaceOfStep
  <2>2. /\ k' > 2 => k > 2
        /\ k' > 3 => k > 3
        /\ k' > 9 => k > 9 \/ (k = 9 /\ k' = k + 1)
        /\ k' > 11 => k > 11
        /\ k' > 12 => k > 12
    BY <1>1, <2>1, Passes
  <2>3. k > 9 => k # 9
    BY <1>1
  <2>4. k # 9 => seen'["comparison"] = seen["comparison"]
    BY <2>1, PollReads, Zenon
  <2>5. k = 9 /\ k' = k + 1 => Right(seen'["comparison"])
    BY <2>1, PollReads, Zenon
  <2>6. k' > 9 => Right(seen'["comparison"])
    <3>1. k > 9 => Right(seen["comparison"])
      BY <1>4, Zenon DEF ScriptInv, BehindIncident
    <3> QED
      BY <2>2, <2>3, <2>4, <2>5, <3>1
  <2> QED
    BY <1>1, <1>4, <2>2, <2>6, Zenon DEF ScriptInv, BehindIncident
<1> QED
  BY <1>1, <1>2, <1>3, <1>4, KeepsShape

LEMMA TestKeeps ==
  ASSUME ScriptInv, RunTest, demo' = demo, Alerts' = Alerts
  PROVE  ScriptInv'
<1> DEFINE Kept(t) == codes'[t] = codes[t]
           Over == k' = k + 1
<1>1. /\ UNCHANGED seen /\ DOMAIN codes' = DOMAIN codes /\ status' # "passed"
      /\ k \in 1..Len(Steps) /\ Steps[k] \in Tests /\ k \in Nat \ {0}
      /\ k' = k \/ (k' = k + 1 /\ codes'[Steps[k]] \in Accepted(Steps[k]))
      /\ \A t \in Tests : Steps[k] # t => Kept(t)
  BY TestEnds DEF ScriptInv
<1>2. k' \in {k, k + 1} /\ (Over => codes'[Steps[k]] \in Accepted(Steps[k]))
  BY <1>1
<1>3. k' \in Nat \ {0} /\ \A n \in Nat : k' > n => k > n \/ (k = n /\ Over)
  BY <1>1, <1>2, Passes
<1> HIDE DEF Over, Kept
<1>4. ASSUME demo = "verify" PROVE BehindVerify'
  <2>1. k \in {8, 9} /\ (k = 8 => Steps[k] = "weak") /\ (k = 9 => Steps[k] = "strong")
    BY <1>1, <1>4, PlaceOfStep
  <2>2. k > 6 /\ (k > 8 => k = 9) /\ ~(k > 9)
    BY <2>1
  <2>3. (k' > 8 => k > 8 \/ (k = 8 /\ Over)) /\ (k' > 9 => k = 9 /\ Over)
    BY <1>3, <2>2
  <2>4. k = 9 => Kept("weak")
    BY <1>1, <2>1 DEF Tests
  <2>5. (k = 8 /\ Over => codes'["weak"] = 1) /\ (k = 9 /\ Over => codes'["strong"] = 0)
    BY <1>2, <2>1 DEF Accepted
  <2>6. k > 8 => codes["weak"] = 1
    BY <1>4, Zenon DEF ScriptInv, BehindVerify
  <2>7. k' > 8 => codes'["weak"] = 1
    BY <2>2, <2>3, <2>4, <2>5, <2>6, Zenon DEF Kept
  <2> QED
    BY <1>1, <1>4, <2>2, <2>3, <2>5, <2>7, Zenon DEF ScriptInv, BehindVerify
<1>5. ASSUME demo = "incident" PROVE BehindIncident'
  <2>1. /\ k \in {2, 3, 11, 12}
        /\ k = 2 => Steps[k] = "old test"
        /\ k = 3 => Steps[k] = "old score"
        /\ k = 11 => Steps[k] = "new test"
        /\ k = 12 => Steps[k] = "new score"
    BY <1>1, <1>5, PlaceOfStep
  <2>2. /\ ~(k > 12) /\ (k > 2 => k # 2) /\ (k > 3 => k \notin {2, 3}) /\ (k > 11 => k = 12)
        /\ k' > 9 => k > 9
    <3>1. k \in {2, 3, 11, 12}
      BY <2>1
    <3>2. k' > 9 => k > 9 \/ k = 9
      BY <1>3
    <3> QED
      BY <3>1, <3>2
  <2>3. /\ k' > 2 => k > 2 \/ (k = 2 /\ Over)
        /\ k' > 3 => k > 3 \/ (k = 3 /\ Over)
        /\ k' > 11 => k > 11 \/ (k = 11 /\ Over)
        /\ k' > 12 => k = 12 /\ Over
    BY <1>3, <2>2
  <2>4. /\ k # 2 => Kept("old test")
        /\ k \notin {2, 3} => Kept("old score")
        /\ k = 12 => Kept("new test")
    BY <1>1, <2>1 DEF Tests
  <2>5. /\ k = 2 /\ Over => codes'["old test"] = 0
        /\ k = 3 /\ Over => codes'["old score"] = 1
        /\ k = 11 /\ Over => codes'["new test"] = 1
        /\ k = 12 /\ Over => codes'["new score"] = 0
    BY <1>2, <2>1 DEF Accepted
  <2>6. /\ k > 2 => codes["old test"] = 0
        /\ k > 3 => codes["old score"] = 1
        /\ k > 11 => codes["new test"] = 1
    BY <1>5, Zenon DEF ScriptInv, BehindIncident
  <2>7. k' > 2 => codes'["old test"] = 0
    BY <2>2, <2>3, <2>4, <2>5, <2>6, Zenon DEF Kept
  <2>8. k' > 3 => codes'["old score"] = 1
    BY <2>2, <2>3, <2>4, <2>5, <2>6, Zenon DEF Kept
  <2>9. k' > 11 => codes'["new test"] = 1
    BY <2>2, <2>3, <2>4, <2>5, <2>6, Zenon DEF Kept
  <2> QED
    BY <1>1, <1>5, <2>2, <2>3, <2>5, <2>7, <2>8, <2>9, Zenon DEF ScriptInv, BehindIncident
<1> QED
  BY <1>1, <1>3, <1>4, <1>5, KeepsShape

LEMMA NextScript ==
  ASSUME ScriptInv, [Next]_vars
  PROVE  ScriptInv'
<1>0. demo' = demo /\ Steps' = Steps /\ Alerts' = Alerts
  BY ScriptFrame DEF Steps, Alerts
<1>1. CASE UNCHANGED <<k, status, codes, seen>>
  BY <1>0, <1>1 DEF ScriptInv, BehindVerify, BehindIncident
<1>2. CASE Pass
  <2>1. UNCHANGED <<k, codes, seen>> /\ k > Len(Steps)
    BY <1>2 DEF Pass
  <2> QED
    BY <1>0, <2>1 DEF ScriptInv, BehindVerify, BehindIncident
<1>3. CASE Poll
  BY <1>0, <1>3, PollKeeps
<1>4. CASE RunTest
  BY <1>0, <1>4, TestKeeps
<1>5. CASE ComposeBuild \/ ComposeUp \/ Degrade \/ StopReplica
  <2>1. /\ UNCHANGED <<codes, seen>> /\ k' \in {k, k + 1} /\ status' # "passed"
        /\ k \in 1..Len(Steps) /\ Steps[k] \in {"build", "up", "degrade", "stop"}
    BY <1>5, StepsOfScripts
       DEF ComposeBuild, ComposeUp, Degrade, StopReplica, Now, Ready, Advance, Fail, ScriptInv
  <2>2. Steps[k] \notin Tests /\ Steps[k] \notin {"alerts", "comparison"}
    BY <2>1 DEF Tests
  <2> QED
    BY <1>0, <2>1, <2>2, StaysBehind
<1> QED
  BY <1>1, <1>2, <1>3, <1>4, <1>5, ScriptFrame

-----------------------------------------------------------------------------
(* Theorems.                                                               *)

(* Every reachable state satisfies the invariant.  No fairness is used.    *)
THEOREM ScriptInvariance == Spec => []ScriptInv
BY InitScript, NextScript, PTL DEF Spec

(* A script that passes has seen the alerts and the tests end as it says.  *)
THEOREM PassIsEarned == Spec => []PassDemonstrated
<1>1. ScriptInv => PassDemonstrated
  <2> SUFFICES ASSUME ScriptInv, status = "passed" PROVE PassDemonstrated
    BY DEF PassDemonstrated
  <2>1. CASE demo = "verify"
    <3>1. k > Len(Steps) /\ Len(Steps) = 9 /\ k \in Nat
      BY <2>1, StepsOfScripts, Zenon DEF ScriptInv
    <3>2. k > 6 /\ k > 8 /\ k > 9
      BY <3>1
    <3> QED
      BY <2>1, <3>2, Zenon DEF ScriptInv, BehindVerify, PassDemonstrated
  <2>2. CASE demo = "incident"
    <3>1. k > Len(Steps) /\ Len(Steps) = 12 /\ k \in Nat
      BY <2>2, StepsOfScripts, Zenon DEF ScriptInv
    <3>2. k > 2 /\ k > 3 /\ k > 9 /\ k > 11 /\ k > 12
      BY <3>1
    <3> QED
      BY <2>2, <3>2, Zenon DEF ScriptInv, BehindIncident, PassDemonstrated
  <2> QED
    BY <2>1, <2>2 DEF ScriptInv
<1> QED
  BY <1>1, ScriptInvariance, PTL
=============================================================================
