--------------------------- MODULE CampaignProofs ---------------------------
(***************************************************************************)
(* Theorems about module Campaign, for every number of mutants, workers,   *)
(* test files and rule files, every behaviour of promtool and every number *)
(* of disturbances.                                                        *)
(***************************************************************************)
EXTENDS CampaignInvariant, FiniteSetTheorems, TLAPS

USE DEF Main, Free, LastCommand, Passes

-----------------------------------------------------------------------------
(* Types.                                                                  *)

LEMMA WorkerType == Worker \subseteq Nat \ {0} /\ Worker \subseteq Process /\ Main \in Process
  BY SizeAssumption DEF Worker, Process

LEMMA InitTypeOK == Init => TypeOK
  <1> SUFFICES ASSUME Init PROVE TypeOK
    OBVIOUS
  <1> USE SizeAssumption, WorldAssumption, OptionAssumption
  <1>1. world \in World /\ cancelled \in BOOLEAN /\ disturbed \in SUBSET Mutant
    BY DEF Init, RunnerInit
  <1>2. pc \in [Worker -> PC] /\ job \in [Worker -> Mutant \cup {Free}]
    BY DEF Init, RunnerInit, PC
  <1>3. test \in [Worker -> 1..(T + 1)] /\ tested \in [Worker -> BOOLEAN]
    BY DEF Init, RunnerInit
  <1>4. NoResult \in Result
    BY DEF NoResult, Result, Status
  <1>5. result \in [Worker -> Result] /\ results \in [Mutant -> Result]
    BY <1>4 DEF Init, RunnerInit
  <1>6. ctx \in [Process -> {"none", "unstarted", "live", "deadline", "canceled"}]
    BY DEF Init, RunnerInit
  <1>7. workspaces \in SUBSET Mutant /\ saved \in [Names -> Contents]
    BY DEF Init, RunnerInit, Contents
  <1>8. summary \in Summary
    BY DEF Init, Summary, NoSummary
  <1>9. /\ main \in MainPC /\ step \in Baseline /\ next \in 1..(N + 1)
        /\ lock \in Worker \cup {Free}
        /\ completed \in Nat /\ shown \in Seq(Nat)
    BY DEF Init, MainPC, Baseline
  <1> QED BY <1>1, <1>2, <1>3, <1>5, <1>6, <1>7, <1>8, <1>9 DEF TypeOK, RunnerTypeOK

(* The steps of Execute, one by one.                                       *)
LEMMA ExecuteTypeOK ==
  ASSUME RunnerTypeOK, NEW w \in Worker, Knows(w), Execute(w)
  PROVE  RunnerTypeOK'
  <1> USE SizeAssumption DEF RunnerTypeOK, external, files, At, Goto
  <1> w \in Process
    BY WorkerType
  <1>0. job[w] \in Mutant /\ (pc[w] = "testing" => test[w] \in Test)
    BY DEF Knows, Busy, Execute, PrepareWorkspace, CheckRules, PrepareTest,
           RunTest, FinishTests, OpenSurvivor, WriteSurvivor, RemoveWorkspace
  <1>a. \A s \in Status, t \in Test \cup {0} :
          Conclude(w, s, t) => result' \in [Worker -> Result]
    BY DEF Conclude, Result
  <1>b. Disturb(w) => disturbed' \in SUBSET Mutant
    BY <1>0 DEF Disturb
  <1>c. StartCommand(w) \/ EndCommand(w) =>
          ctx' \in [Process -> {"none", "unstarted", "live", "deadline", "canceled"}]
    BY DEF StartCommand, EndCommand, NewContext
  <1>d. \A l \in PC : Goto(w, l) => pc' \in [Worker -> PC]
    OBVIOUS
  <1>e. {"idle", "prepare", "check", "tests", "testing", "open", "write",
         "cleanup", "record"} \subseteq PC
    BY DEF PC
  <1>f. {"killed", "survived", "timeout", "error"} \subseteq Status
    BY DEF Status
  <1>g. world.file[job[w]] \in Names /\ job[w] \in Contents /\ Truncated \in Contents
    BY <1>0 DEF World, Contents
  <1> HIDE DEF Goto
  <1>1. CASE PrepareWorkspace(w)
    BY <1>0, <1>1, <1>a, <1>b, <1>c, <1>d, <1>e, <1>f DEF PrepareWorkspace
  <1>2. CASE CheckRules(w)
    <2>1. \A r : StatusForError(r) \in Status
      BY DEF StatusForError, Status
    <2> QED BY <1>2, <2>1, <1>a, <1>c, <1>d, <1>e DEF CheckRules
  <1>3. CASE PrepareTest(w)
    <2>1. test[w] \in Test /\ test[w] + 1 \in 1..(T + 1)
      BY <1>3 DEF PrepareTest, Test
    <2>2. test' = [test EXCEPT ![w] = @ + 1] => test' \in [Worker -> 1..(T + 1)]
      BY <2>1
    <2> QED BY <1>3, <2>1, <2>2, <1>a, <1>b, <1>c, <1>d, <1>e, <1>f DEF PrepareTest
  <1>4. CASE RunTest(w)
    <2>1. test[w] \in Test /\ test[w] + 1 \in 1..(T + 1)
      BY <1>0, <1>4 DEF RunTest, Test
    <2>2. test' = [test EXCEPT ![w] = @ + 1] => test' \in [Worker -> 1..(T + 1)]
      BY <2>1
    <2>3. \A r : StatusForTestError(r) \in Status
      BY DEF StatusForTestError, Status
    <2> QED BY <1>4, <2>1, <2>2, <2>3, <1>a, <1>c, <1>d, <1>e DEF RunTest
  <1>5. CASE FinishTests(w)
    BY <1>5, <1>a, <1>d, <1>e, <1>f DEF FinishTests
  <1>6. CASE OpenSurvivor(w)
    BY <1>6, <1>a, <1>b, <1>d, <1>e, <1>f, <1>g DEF OpenSurvivor
  <1>7. CASE WriteSurvivor(w)
    BY <1>7, <1>a, <1>b, <1>d, <1>e, <1>f, <1>g DEF WriteSurvivor
  <1>8. CASE RemoveWorkspace(w)
    BY <1>8, <1>b, <1>d, <1>e DEF RemoveWorkspace
  <1> QED BY <1>1, <1>2, <1>3, <1>4, <1>5, <1>6, <1>7, <1>8 DEF Execute

(* Execute moves one busy worker, and nothing of another one.              *)
LEMMA ExecuteFrame ==
  ASSUME RunnerTypeOK, NEW w \in Worker, Execute(w)
  PROVE  /\ world' = world /\ job' = job
         /\ pc[w] \in Busy /\ pc'[w] \in Busy
         /\ \A v \in Worker \ {w} : /\ pc'[v] = pc[v] /\ test'[v] = test[v]
                                    /\ tested'[v] = tested[v]
                                    /\ result'[v] = result[v]
  <1> USE DEF RunnerTypeOK, external, files, At, Goto, Conclude, Busy
  <1>1. CASE PrepareWorkspace(w)  BY <1>1 DEF PrepareWorkspace
  <1>2. CASE CheckRules(w)        BY <1>2 DEF CheckRules
  <1>3. CASE PrepareTest(w)       BY <1>3 DEF PrepareTest
  <1>4. CASE RunTest(w)           BY <1>4 DEF RunTest
  <1>5. CASE FinishTests(w)       BY <1>5 DEF FinishTests
  <1>6. CASE OpenSurvivor(w)      BY <1>6 DEF OpenSurvivor
  <1>7. CASE WriteSurvivor(w)     BY <1>7 DEF WriteSurvivor
  <1>8. CASE RemoveWorkspace(w)   BY <1>8 DEF RemoveWorkspace
  <1> QED BY <1>1, <1>2, <1>3, <1>4, <1>5, <1>6, <1>7, <1>8 DEF Execute

-----------------------------------------------------------------------------
(* What a worker knows.                                                    *)

(* The operators about the ground truth keep their value while it does.    *)
LEMMA SameTruth ==
  ASSUME world' = world
  PROVE  /\ \A m, t : Benign(m, t)' <=> Benign(m, t)
         /\ \A m : Verdict(m)' = Verdict(m) /\ (IsSurvivor(m)' <=> IsSurvivor(m))
         /\ \A m, r : Honest(m, r)' <=> Honest(m, r)
         /\ BaselineOK' <=> BaselineOK
  BY DEF Benign, Verdict, IsKilled, IsSurvivor, IsHung, EndsAt, Honest, BaselineOK

(* A survivor was not killed.                                              *)
LEMMA SurvivorVerdict ==
  ASSUME NEW m \in Mutant, IsSurvivor(m)
  PROVE  Verdict(m) = "survived"
  BY DEF IsSurvivor, Verdict, IsKilled, EndsAt, Benign

(* The test that ends the loop with an assertion kills.                    *)
LEMMA KillVerdict ==
  ASSUME NEW m \in Mutant, NEW t \in Test, world.check[m] = "pass",
         EndsAt(m, t), world.run[m][t] = "assertion"
  PROVE  Verdict(m) = "killed"
  BY DEF Verdict, IsKilled

(* command() invents no success and no failed assertion: what it reports   *)
(* for an ended context is neither.                                        *)
LEMMA ReturnedIsExit ==
  ASSUME RunnerTypeOK, NEW p \in Process, NEW exit, NEW r \in Returned(p, exit),
         r \in {"pass", "assertion"}
  PROVE  r = exit
  BY DEF RunnerTypeOK, Returned

LEMMA ExecuteKnows ==
  ASSUME RunnerTypeOK, NEW w \in Worker, Knows(w), Execute(w)
  PROVE  Knows(w)'
  <1> USE SizeAssumption DEF external, files, At, Goto
  <1>0. /\ job[w] \in Mutant /\ test[w] \in 1..(T + 1) /\ job' = job
        /\ world' = world /\ w \in DOMAIN pc /\ w \in DOMAIN test /\ w \in DOMAIN tested
        /\ w \in DOMAIN result /\ world \in World
        /\ w \in Process
    BY ExecuteFrame, WorkerType DEF Knows, RunnerTypeOK
  <1>a. Knows(w) /\ world' = world /\ job' = job
    BY <1>0
  <1> USE SameTruth
  <1>1. CASE PrepareWorkspace(w)
    <2>1. CASE Goto(w, "check") /\ UNCHANGED result
      BY <2>1, <1>0, <1>1 DEF PrepareWorkspace, Knows, Busy
    <2>2. ASSUME NEW l \in {"record", "cleanup"}, Goto(w, l), Conclude(w, "error", 0)
          PROVE  Knows(w)'
      <3>1. pc'[w] = l /\ result'[w].status = "error" /\ job'[w] \in Mutant
        BY <2>2, <1>0 DEF Conclude
      <3> QED BY <3>1 DEF Knows, Honest, Scored, Busy
    <2> QED BY <2>1, <2>2, <1>1 DEF PrepareWorkspace
  <1>2. CASE CheckRules(w)
    <2>0. pc[w] = "check" /\ test[w] = 1 /\ ~tested[w] /\ UNCHANGED <<test, tested>>
      BY <1>2 DEF CheckRules, Knows
    <2>1. PICK returned \in Returned(w, world.check[job[w]]) :
            \/ returned = "pass" /\ Goto(w, "tests") /\ UNCHANGED result
            \/ /\ returned # "pass" /\ Goto(w, "cleanup")
               /\ Conclude(w, StatusForError(returned), 0)
      BY <1>2 DEF CheckRules
    <2>2. CASE returned = "pass"
      <3>1. world.check[job[w]] = "pass"
        BY <1>0, <2>2, ReturnedIsExit
      <3> QED BY <1>0, <2>0, <2>1, <2>2, <3>1 DEF Knows, Busy
    <2>3. CASE returned # "pass"
      <3>1. /\ pc'[w] = "cleanup" /\ job'[w] \in Mutant
            /\ result'[w].status \in {"timeout", "error"}
        BY <1>0, <2>1, <2>3 DEF Conclude, StatusForError
      <3> QED BY <3>1 DEF Knows, Honest, Scored, Busy
    <2> QED BY <2>2, <2>3
  <1>3. CASE PrepareTest(w)
    <2>1. test[w] \in Test /\ world' = world
      BY <1>3, <1>0 DEF PrepareTest
    <2>2. CASE world.run[job[w]][test[w]] = "unrelated" /\ UNCHANGED <<pc, tested>>
               /\ test' = [test EXCEPT ![w] = @ + 1]
      <3>1. Benign(job[w], test[w])
        BY <2>2 DEF Benign
      <3>2. \A t \in 1..(test'[w] - 1) : t \in 1..(test[w] - 1) \/ t = test[w]
        BY <2>2, <1>0
      <3>3. 1..(test[w] - 1) \subseteq 1..(test'[w] - 1)
        BY <2>2, <1>0
      <3> QED BY <2>1, <2>2, <3>1, <3>2, <3>3, <1>0, <1>3 DEF Knows, PrepareTest, Busy
    <2>3. CASE Goto(w, "testing") /\ UNCHANGED test
      BY <2>1, <2>3, <1>0, <1>3 DEF Knows, PrepareTest, Busy
    <2>4. CASE Goto(w, "cleanup") /\ Conclude(w, "error", test[w])
      <3>1. pc'[w] = "cleanup" /\ result'[w].status = "error" /\ job'[w] \in Mutant
        BY <2>4, <1>0 DEF Conclude
      <3> QED BY <3>1 DEF Knows, Honest, Scored, Busy
    <2> QED BY <1>3, <2>2, <2>3, <2>4 DEF PrepareTest
  <1>4. CASE RunTest(w)
    <2> DEFINE m == job[w]
               t == test[w]
    <2>0. /\ m \in Mutant /\ t \in Test /\ world.check[m] = "pass" /\ pc[w] = "testing"
          /\ \A u \in 1..(t - 1) : Benign(m, u)
      BY <1>4, <1>0 DEF RunTest, Knows
    <2>1. PICK returned \in Returned(w, world.run[m][t]) :
            \/ /\ returned = "pass" /\ Goto(w, "tests")
               /\ test' = [test EXCEPT ![w] = @ + 1] /\ UNCHANGED result
            \/ /\ returned # "pass" /\ Goto(w, "cleanup")
               /\ Conclude(w, StatusForTestError(returned), t)
               /\ UNCHANGED test
      BY <1>4 DEF RunTest
    <2>2. returned \in {"pass", "assertion"} => world.run[m][t] = returned
      BY <1>0, ReturnedIsExit
    <2>3. CASE returned = "pass"
      <3>1. Benign(m, t) /\ world.run[m][t] = "pass"
        BY <2>2, <2>3 DEF Benign
      <3>2. t \in 1..(test'[w] - 1) /\ \A u \in 1..(test'[w] - 1) : u \in 1..(t - 1) \/ u = t
        BY <2>1, <2>3, <1>0
      <3> HIDE DEF m, t
      <3> QED BY <2>0, <2>1, <2>3, <3>1, <3>2, <1>0 DEF Knows, Busy, m
    <2>4. CASE returned # "pass"
      <3>1. Honest(m, [status |-> StatusForTestError(returned), test |-> t])
        <4>1. CASE returned = "assertion"
          <5>1. EndsAt(m, t) /\ world.run[m][t] = "assertion"
            BY <2>0, <2>2, <4>1 DEF EndsAt, Benign
          <5>2. Verdict(m) = "killed"
            BY <2>0, <5>1, KillVerdict
          <5> QED BY <2>0, <5>1, <5>2, <4>1 DEF Honest, StatusForTestError
        <4>2. CASE returned # "assertion"
          BY <4>2 DEF Honest, Scored, StatusForTestError
        <4> QED BY <4>1, <4>2
      <3>2. StatusForTestError(returned) # "none"
        BY DEF StatusForTestError
      <3> QED BY <2>0, <2>1, <2>4, <3>1, <3>2, <1>0 DEF Knows, Conclude, Busy
    <2> QED BY <2>3, <2>4
  <1>5. CASE FinishTests(w)
    <2>1. /\ test[w] = T + 1 /\ 1..(test[w] - 1) = Test /\ pc[w] = "tests"
      BY <1>5 DEF FinishTests, Test
    <2>2. tested[w] => IsSurvivor(job[w]) /\ Verdict(job[w]) = "survived"
      BY <2>1, <1>0, SurvivorVerdict DEF Knows, IsSurvivor
    <2> QED BY <2>1, <2>2, <1>0, <1>5 DEF FinishTests, Knows, Conclude, Honest, Scored, Busy
  <1>6. CASE OpenSurvivor(w)
    BY <1>0, <1>6 DEF OpenSurvivor, Knows, Conclude, Honest, Scored, Busy
  <1>7. CASE WriteSurvivor(w)
    <2>1. Verdict(job[w]) = "survived"
      BY <1>0, <1>7, SurvivorVerdict DEF Knows, WriteSurvivor
    <2> QED BY <2>1, <1>0, <1>7 DEF WriteSurvivor, Knows, Conclude, Honest, Scored, Busy
  <1>8. CASE RemoveWorkspace(w)
    BY <1>0, <1>8 DEF RemoveWorkspace, Knows, Busy
  <1> QED BY <1>1, <1>2, <1>3, <1>4, <1>5, <1>6, <1>7, <1>8 DEF Execute

-----------------------------------------------------------------------------
(* The invariant, part by part.                                            *)

LEMMA SummarizeType == TypeOK => Summarize \in Summary
  <1> SUFFICES ASSUME TypeOK PROVE Summarize \in Summary
    OBVIOUS
  <1>1. IsFiniteSet(Mutant) /\ Cardinality(Mutant) = N
    BY SizeAssumption, FS_Interval DEF Mutant
  <1>2. ASSUME NEW S \in SUBSET Mutant PROVE Cardinality(S) \in 0..N
    BY <1>1, SizeAssumption, FS_Subset, FS_CardinalityType
  <1>3. \A s : Counted(s) \in 0..N
    BY <1>2 DEF Counted
  <1>4. Cardinality({m \in Mutant :
          results[m].status \notin {"killed", "survived", "timeout"}}) \in 0..N
    BY <1>2
  <1>5. \A k, s \in 0..N : (MeetsThreshold(k, k + s) /\ TRUE) \in BOOLEAN
    OBVIOUS
  <1> QED BY <1>3, <1>4, <1>5 DEF Summarize, Summary

LEMMA NextTypeOK == TypeOK /\ Commands /\ WorkersKnow /\ [Next]_vars => TypeOK'
  <1> SUFFICES ASSUME TypeOK, Commands, WorkersKnow, [Next]_vars PROVE TypeOK'
    OBVIOUS
  <1> USE SizeAssumption
  <1> USE DEF TypeOK, external, files, poolVars, mainVars, reportVars
  <1>0. /\ RunnerTypeOK
        /\ \A p \in Process, c \in {"none", "unstarted", "live", "deadline", "canceled"} :
             [ctx EXCEPT ![p] = c] \in [Process -> {"none", "unstarted", "live", "deadline", "canceled"}]
        /\ NewContext \in {"none", "unstarted", "live", "deadline", "canceled"}
    BY DEF RunnerTypeOK, NewContext
  <1>1. CASE LoadRules
    BY <1>1, <1>0, WorkerType DEF LoadRules, RunnerTypeOK, MainPC, StartCommand
  <1>2. CASE ValidateBaseline
    <2>1. [w \in Worker |-> "idle"] \in [Worker -> PC]
      BY DEF PC
    <2>2. ctx' \in [Process -> {"none", "unstarted", "live", "deadline", "canceled"}]
      BY <1>0, <1>2, WorkerType DEF ValidateBaseline, StartCommand, EndCommand
    <2>3. pc' = pc \/ pc' = [w \in Worker |-> "idle"]
      BY <1>2 DEF ValidateBaseline
    <2>4. pc' \in [Worker -> PC]
      BY <2>1, <2>3 DEF RunnerTypeOK
    <2>5. main' \in MainPC /\ step' \in Baseline
      BY <1>2 DEF ValidateBaseline, MainPC, Baseline
    <2> QED BY <1>2, <2>2, <2>4, <2>5, <1>0 DEF ValidateBaseline, RunnerTypeOK
  <1>3. CASE BaselineExpire
    BY <1>3, <1>0, WorkerType DEF BaselineExpire, RunnerTypeOK
  <1>4. CASE AbortDispatch \/ CloseJobs \/ ReturnCanceled
    BY <1>4, <1>0 DEF AbortDispatch, CloseJobs, ReturnCanceled, RunnerTypeOK, MainPC, runnerVars
  <1>5. CASE ReturnReport
    BY <1>5, <1>0, SummarizeType DEF ReturnReport, RunnerTypeOK, MainPC, runnerVars
  <1>6. CASE Interrupt
    <2>1. ctx' \in [Process -> {"none", "unstarted", "live", "deadline", "canceled"}]
      BY <1>0, <1>6 DEF Interrupt, Cancel, RunnerTypeOK
    <2> QED BY <1>6, <2>1, <1>0 DEF Interrupt, Cancel, RunnerTypeOK
  <1>7. CASE Terminated \/ UNCHANGED vars
    BY <1>7, <1>0 DEF Terminated, vars, RunnerTypeOK, runnerVars
  <1>8. ASSUME NEW w \in Worker PROVE
          /\ Dispatch(w) => TypeOK'
          /\ WorkerStep(w) => TypeOK'
          /\ Timeout(w) => TypeOK'
    <2>0. /\ \A l \in PC : [pc EXCEPT ![w] = l] \in [Worker -> PC]
          /\ \A m \in Mutant \cup {Free} :
               [job EXCEPT ![w] = m] \in [Worker -> Mutant \cup {Free}]
          /\ {"idle", "prepare", "lock", "report", "exited"} \subseteq PC
          /\ Knows(w) /\ w \in Process
      BY <1>0, WorkerType DEF RunnerTypeOK, PC, WorkersKnow
    <2>1. CASE Dispatch(w)
      <3>1. NoResult \in Result
        BY DEF NoResult, Result, Status
      <3>2. next \in Mutant /\ next + 1 \in 1..(N + 1)
        BY <2>1 DEF Dispatch, Mutant
      <3>3. test' \in [Worker -> 1..(T + 1)] /\ tested' \in [Worker -> BOOLEAN]
        BY <2>1, <1>0 DEF Dispatch, Take, RunnerTypeOK
      <3>4. result' \in [Worker -> Result] /\ job' \in [Worker -> Mutant \cup {Free}]
        BY <2>1, <3>1, <3>2, <1>0 DEF Dispatch, Take, RunnerTypeOK
      <3>5. pc' \in [Worker -> PC]
        BY <2>0, <2>1 DEF Dispatch, Take, Goto
      <3> QED BY <2>1, <3>2, <3>3, <3>4, <3>5, <1>0 DEF Dispatch, Take, RunnerTypeOK
    <2>2. CASE ExecuteStep(w)
      BY <2>2, <2>0, <1>0, ExecuteTypeOK DEF ExecuteStep
    <2>3. CASE RecordResult(w)
      BY <2>3, <2>0, <1>0 DEF RecordResult, Goto, RunnerTypeOK
    <2>4. CASE LockProgress(w)
      <3>1. pc' \in [Worker -> PC] /\ lock' \in Worker \cup {Free} /\ completed' \in Nat
        BY <2>4, <2>0 DEF LockProgress, Goto
      <3> QED BY <2>4, <3>1, <1>0 DEF LockProgress, RunnerTypeOK
    <2>5. CASE ReportProgress(w)
      BY <2>5, <2>0, <1>0 DEF ReportProgress, Goto, RunnerTypeOK
    <2>6. CASE WorkerExit(w)
      BY <2>6, <2>0, <1>0 DEF WorkerExit, Goto, RunnerTypeOK
    <2>7. CASE Timeout(w)
      <3>1. disturbed' \in SUBSET Mutant /\ ctx' \in [Process -> {"none", "unstarted", "live", "deadline", "canceled"}]
        <4>1. job[w] \in Mutant
          BY <2>7, <2>0 DEF Timeout, Expire, Commands, Knows, Busy
        <4> QED BY <4>1, <2>7, <2>0, <1>0 DEF Timeout, Expire, RunnerTypeOK, Disturb
      <3> QED BY <2>7, <3>1, <1>0 DEF Timeout, Expire, RunnerTypeOK
    <2> QED BY <2>1, <2>2, <2>3, <2>4, <2>5, <2>6, <2>7 DEF WorkerStep
  <1> QED BY <1>1, <1>2, <1>3, <1>4, <1>5, <1>6, <1>7, <1>8 DEF Next, MainStep

(* Execute opens and closes the context of its own commands only.          *)
LEMMA ExecuteCommands ==
  ASSUME RunnerTypeOK, NEW w \in Worker, Execute(w),
         ctx[w] # "none" <=> pc[w] \in {"check", "testing"}
  PROVE  /\ ctx'[w] # "none" <=> pc'[w] \in {"check", "testing"}
         /\ \A p \in Process \ {w} : ctx'[p] = ctx[p]
  <1> USE DEF external, files, At, Goto, EndCommand, StartCommand, NewContext
  <1>0. /\ w \in Process /\ pc \in [Worker -> PC]
        /\ ctx \in [Process -> {"none", "unstarted", "live", "deadline", "canceled"}]
    BY WorkerType DEF RunnerTypeOK
  <1>1. CASE PrepareWorkspace(w)  BY <1>0, <1>1 DEF PrepareWorkspace
  <1>2. CASE CheckRules(w)        BY <1>0, <1>2 DEF CheckRules
  <1>3. CASE PrepareTest(w)       BY <1>0, <1>3 DEF PrepareTest
  <1>4. CASE RunTest(w)           BY <1>0, <1>4 DEF RunTest
  <1>5. CASE FinishTests(w)       BY <1>0, <1>5 DEF FinishTests
  <1>6. CASE OpenSurvivor(w)      BY <1>0, <1>6 DEF OpenSurvivor
  <1>7. CASE WriteSurvivor(w)     BY <1>0, <1>7 DEF WriteSurvivor
  <1>8. CASE RemoveWorkspace(w)   BY <1>0, <1>8 DEF RemoveWorkspace
  <1> QED BY <1>1, <1>2, <1>3, <1>4, <1>5, <1>6, <1>7, <1>8 DEF Execute

LEMMA NextCommands ==
  TypeOK /\ Commands /\ BaselineFirst /\ [Next]_vars => Commands'
  <1> SUFFICES ASSUME TypeOK, Commands, BaselineFirst, [Next]_vars PROVE Commands'
    OBVIOUS
  <1> USE DEF Commands, external, files, poolVars, mainVars, reportVars, runnerVars,
              At, Goto, EndCommand, StartCommand, NewContext
  <1>0. /\ RunnerTypeOK /\ pc \in [Worker -> PC] /\ main \in MainPC
        /\ ctx \in [Process -> {"none", "unstarted", "live", "deadline", "canceled"}]
        /\ Worker \subseteq Process /\ Main \in Process /\ Main \notin Worker
    BY WorkerType DEF TypeOK, RunnerTypeOK
  <1>1. CASE LoadRules
    BY <1>1, <1>0 DEF LoadRules
  <1>2. CASE ValidateBaseline
    BY <1>2, <1>0 DEF ValidateBaseline, BaselineFirst, Early
  <1>3. CASE BaselineExpire
    BY <1>3, <1>0 DEF BaselineExpire
  <1>4. CASE AbortDispatch \/ CloseJobs \/ ReturnCanceled \/ ReturnReport
    BY <1>4, <1>0 DEF AbortDispatch, CloseJobs, ReturnCanceled, ReturnReport
  <1>5. CASE Interrupt
    BY <1>5, <1>0 DEF Interrupt, Cancel
  <1>6. CASE Terminated \/ UNCHANGED vars
    BY <1>6, <1>0 DEF Terminated, vars
  <1>7. ASSUME NEW w \in Worker, Dispatch(w) \/ WorkerStep(w) \/ Timeout(w)
        PROVE  Commands'
    <2>1. CASE Dispatch(w)
      BY <2>1, <1>0 DEF Dispatch, Take
    <2>2. CASE ExecuteStep(w)
      <3>1. \A v \in Worker \ {w} : pc'[v] = pc[v]
        BY <2>2, <1>0, ExecuteFrame DEF ExecuteStep
      <3>2. /\ ctx'[w] # "none" <=> pc'[w] \in {"check", "testing"}
            /\ \A p \in Process \ {w} : ctx'[p] = ctx[p]
        BY <2>2, <1>0, ExecuteCommands DEF ExecuteStep
      <3> QED BY <2>2, <3>1, <3>2, <1>0 DEF ExecuteStep
    <2>3. CASE RecordResult(w)
      BY <2>3, <1>0 DEF RecordResult
    <2>4. CASE LockProgress(w) \/ ReportProgress(w) \/ WorkerExit(w)
      BY <2>4, <1>0 DEF LockProgress, ReportProgress, WorkerExit
    <2>5. CASE Timeout(w)
      BY <2>5, <1>0 DEF Timeout, Expire
    <2> QED BY <1>7, <2>1, <2>2, <2>3, <2>4, <2>5 DEF WorkerStep
  <1> QED BY <1>1, <1>2, <1>3, <1>4, <1>5, <1>6, <1>7 DEF Next, MainStep

(* A worker knows what it knew while another one moves.                    *)
LEMMA FrameKnows ==
  ASSUME NEW w \in Worker, Knows(w), world' = world,
         pc'[w] = pc[w], job'[w] = job[w], test'[w] = test[w],
         tested'[w] = tested[w], result'[w] = result[w]
  PROVE  Knows(w)'
  BY SameTruth DEF Knows

LEMMA NextKnows ==
  TypeOK /\ WorkersKnow /\ ResultsHonest /\ [Next]_vars
    => world' = world /\ WorkersKnow' /\ ResultsHonest'
  <1> SUFFICES ASSUME TypeOK, WorkersKnow, ResultsHonest, [Next]_vars
               PROVE  world' = world /\ WorkersKnow' /\ ResultsHonest'
    OBVIOUS
  <1> USE DEF external, files, poolVars, mainVars, reportVars, runnerVars, At, Goto
  <1>0. RunnerTypeOK /\ pc \in [Worker -> PC] /\ \A w \in Worker : Knows(w)
    BY DEF TypeOK, RunnerTypeOK, WorkersKnow
  <1>a. ASSUME world' = world, UNCHANGED <<pc, job, test, tested, result, results>>
        PROVE  world' = world /\ WorkersKnow' /\ ResultsHonest'
    BY <1>a, SameTruth DEF WorkersKnow, ResultsHonest, Knows
  <1>b. ASSUME world' = world, NEW w \in Worker,
               \A v \in Worker \ {w} :
                 /\ pc'[v] = pc[v] /\ job'[v] = job[v] /\ test'[v] = test[v]
                 /\ tested'[v] = tested[v] /\ result'[v] = result[v],
               Knows(w)', UNCHANGED results
        PROVE  world' = world /\ WorkersKnow' /\ ResultsHonest'
    <2>1. \A v \in Worker \ {w} : Knows(v)'
      BY <1>b, <1>0, FrameKnows
    <2> QED BY <1>b, <2>1, SameTruth DEF WorkersKnow, ResultsHonest
  <1>1. CASE LoadRules
    BY <1>1, <1>a DEF LoadRules
  <1>2. CASE ValidateBaseline
    <2>1. CASE UNCHANGED pc
      BY <1>2, <2>1, <1>a DEF ValidateBaseline
    <2>2. CASE pc' = [w \in Worker |-> "idle"]
      BY <1>2, <2>2, SameTruth DEF ValidateBaseline, WorkersKnow, Knows, ResultsHonest, Busy
    <2> QED BY <1>2, <2>1, <2>2 DEF ValidateBaseline
  <1>3. CASE BaselineExpire \/ AbortDispatch \/ CloseJobs \/ ReturnCanceled \/ ReturnReport
    BY <1>3, <1>a DEF BaselineExpire, AbortDispatch, CloseJobs, ReturnCanceled, ReturnReport
  <1>4. CASE Interrupt \/ Terminated \/ UNCHANGED vars
    BY <1>4, <1>a DEF Interrupt, Cancel, Terminated, vars
  <1>5. ASSUME NEW w \in Worker, Dispatch(w) \/ WorkerStep(w) \/ Timeout(w)
        PROVE  world' = world /\ WorkersKnow' /\ ResultsHonest'
    <2> USE DEF TypeOK, RunnerTypeOK
    <2>1. CASE Dispatch(w)
      <3>1. next \in Mutant
        BY <2>1, SizeAssumption DEF Dispatch, Mutant
      <3>2. Knows(w)'
        BY <2>1, <3>1 DEF Dispatch, Take, Knows, Busy
      <3> QED BY <2>1, <3>2, <1>b DEF Dispatch, Take
    <2>2. CASE ExecuteStep(w)
      BY <2>2, <1>0, <1>b, ExecuteFrame, ExecuteKnows DEF ExecuteStep
    <2>3. CASE RecordResult(w)
      <3>1. job[w] \in Mutant /\ Honest(job[w], result[w]) /\ world' = world
        BY <2>3, <1>0 DEF RecordResult, Knows, Busy
      <3>2. \A m \in Mutant : Honest(m, results'[m])
        <4>1. results' = [results EXCEPT ![job[w]] = result[w]]
          BY <2>3 DEF RecordResult
        <4>2. \A m \in Mutant : (results'[m] = result[w] /\ m = job[w]) \/ results'[m] = results[m]
          BY <4>1
        <4> QED BY <3>1, <4>2 DEF ResultsHonest
      <3>3. \A v \in Worker : Knows(v)'
        <4>1. Knows(w)'
          <5>1. pc'[w] \in {"lock", "idle"}
            BY <2>3, <1>0 DEF RecordResult
          <5> QED BY <5>1 DEF Knows, Busy
        <4>2. \A v \in Worker \ {w} :
                 /\ pc'[v] = pc[v] /\ job'[v] = job[v] /\ test'[v] = test[v]
                 /\ tested'[v] = tested[v] /\ result'[v] = result[v]
          BY <2>3 DEF RecordResult
        <4>3. \A v \in Worker \ {w} : Knows(v)'
          BY <3>1, <4>2, <1>0, FrameKnows
        <4> QED BY <4>1, <4>3
      <3> QED BY <3>1, <3>2, <3>3, SameTruth DEF WorkersKnow, ResultsHonest
    <2>4. CASE LockProgress(w) \/ ReportProgress(w) \/ WorkerExit(w)
      <3>1. Knows(w)'
        BY <2>4 DEF LockProgress, ReportProgress, WorkerExit, Knows, Busy
      <3> QED BY <2>4, <3>1, <1>b DEF LockProgress, ReportProgress, WorkerExit
    <2>5. CASE Timeout(w)
      BY <2>5, <1>a DEF Timeout, Expire
    <2> QED BY <1>5, <2>1, <2>2, <2>3, <2>4, <2>5 DEF WorkerStep
  <1> QED BY <1>1, <1>2, <1>3, <1>4, <1>5 DEF Next, MainStep

LEMMA NextBaselineFirst ==
  TypeOK /\ BaselineFirst /\ [Next]_vars => BaselineFirst'
  <1> SUFFICES ASSUME TypeOK, BaselineFirst, [Next]_vars PROVE BaselineFirst'
    OBVIOUS
  <1> USE SizeAssumption
  <1> USE DEF BaselineFirst, Early, external, files, poolVars, mainVars, reportVars,
              runnerVars, At, Goto
  <1>0. RunnerTypeOK /\ Main \in Process /\ step \in Baseline
    BY WorkerType DEF TypeOK
  <1>1. CASE LoadRules
    BY <1>1, SameTruth DEF LoadRules, TypeOK
  <1>2. CASE ValidateBaseline
    <2>1. PICK returned \in Returned(Main, world.baseline[step]) :
            \/ returned # "pass" /\ main' = "failed" /\ UNCHANGED <<step, pc>>
            \/ /\ returned = "pass" /\ step < 1 + R + T
               /\ step' = step + 1 /\ UNCHANGED <<main, pc>>
            \/ /\ returned = "pass" /\ step = 1 + R + T
               /\ main' = "dispatch" /\ UNCHANGED step
      BY <1>2 DEF ValidateBaseline
    <2>2. /\ main = "baseline" /\ world' = world /\ results' = results
      BY <1>2 DEF ValidateBaseline
    <2>3. returned = "pass" => \A k \in 1..step : world.baseline[k] = "pass"
      BY <1>0, <2>2, ReturnedIsExit DEF Baseline
    <2>4. step' = step + 1 => 1..(step' - 1) = 1..step
      BY <1>0 DEF Baseline
    <2> QED BY <2>1, <2>2, <2>3, <2>4, SameTruth DEF BaselineOK, Baseline
  <1>3. CASE BaselineExpire \/ AbortDispatch \/ CloseJobs \/ ReturnCanceled \/ ReturnReport
    BY <1>3, SameTruth DEF BaselineExpire, AbortDispatch, CloseJobs, ReturnCanceled, ReturnReport
  <1>4. CASE Interrupt \/ Terminated \/ UNCHANGED vars
    BY <1>4, SameTruth DEF Interrupt, Cancel, Terminated, vars
  <1>5. ASSUME NEW w \in Worker, Dispatch(w) \/ WorkerStep(w) \/ Timeout(w)
        PROVE  BaselineFirst'
    <2>1. CASE Dispatch(w)
      BY <2>1, SameTruth DEF Dispatch, Take
    <2>2. CASE ExecuteStep(w)
      BY <2>2, <1>0, ExecuteFrame, SameTruth DEF ExecuteStep, Busy
    <2>3. CASE RecordResult(w)
      BY <2>3, SameTruth DEF RecordResult
    <2>4. CASE LockProgress(w) \/ ReportProgress(w) \/ WorkerExit(w)
      BY <2>4, SameTruth DEF LockProgress, ReportProgress, WorkerExit
    <2>5. CASE Timeout(w)
      BY <2>5, SameTruth DEF Timeout, Expire
    <2> QED BY <1>5, <2>1, <2>2, <2>3, <2>4, <2>5 DEF WorkerStep
  <1> QED BY <1>1, <1>2, <1>3, <1>4, <1>5 DEF Next, MainStep

(* The summary is a function of the results slice.                         *)
LEMMA SameSummary ==
  ASSUME results' = results
  PROVE  Summarize' = Summarize
  BY DEF Summarize, Counted

LEMMA NextOwnership ==
  TypeOK /\ WorkersKnow /\ BaselineFirst /\ Ownership /\ [Next]_vars => Ownership'
  <1> SUFFICES ASSUME TypeOK, WorkersKnow, BaselineFirst, Ownership, [Next]_vars
               PROVE  Ownership'
    OBVIOUS
  <1> USE SizeAssumption
  <1> USE DEF Early, external, files, poolVars, mainVars, reportVars,
              runnerVars, At, Goto, AllExited
  <1>0. /\ RunnerTypeOK /\ next \in 1..(N + 1) /\ main \in MainPC
        /\ pc \in [Worker -> PC] /\ job \in [Worker -> Mutant \cup {Free}]
        /\ results \in [Mutant -> Result] /\ result \in [Worker -> Result]
        /\ \A w \in Worker : Knows(w)
    BY DEF TypeOK, RunnerTypeOK, WorkersKnow
  <1>a. ASSUME UNCHANGED <<pc, job, results, next>>, main' \notin {"draining", "reported"},
               main' = "canceled" => AllExited
        PROVE  Ownership'
    BY <1>a DEF Ownership
  <1>b. ASSUME UNCHANGED <<pc, job, results, next, main, summary>>
        PROVE  Ownership'
    BY <1>b, SameSummary DEF Ownership
  <1>1. CASE LoadRules
    BY <1>1, <1>a DEF LoadRules
  <1>2. CASE ValidateBaseline
    <2>1. CASE UNCHANGED pc
      BY <1>2, <2>1, <1>a DEF ValidateBaseline
    <2>2. CASE pc' = [w \in Worker |-> "idle"]
      <3>1. /\ UNCHANGED <<next, results>> /\ main = "baseline"
            /\ \A w \in Worker : pc'[w] = "idle" /\ pc[w] = "unborn"
        BY <1>2, <2>2 DEF ValidateBaseline, BaselineFirst
      <3>2. main' \notin {"draining", "canceled", "reported"}
        BY <1>2 DEF ValidateBaseline
      <3> QED BY <3>1, <3>2 DEF Ownership, Busy
    <2> QED BY <1>2, <2>1, <2>2 DEF ValidateBaseline
  <1>3. CASE AbortDispatch \/ ReturnCanceled
    BY <1>3, <1>a DEF AbortDispatch, ReturnCanceled
  <1>4. CASE CloseJobs
    BY <1>4 DEF CloseJobs, Ownership
  <1>5. CASE ReturnReport
    <2>1. /\ UNCHANGED <<pc, job, results, next>> /\ summary' = Summarize
          /\ AllExited /\ main = "draining"
      BY <1>5 DEF ReturnReport
    <2> QED BY <2>1, SameSummary DEF Ownership
  <1>6. CASE BaselineExpire \/ Interrupt \/ Terminated \/ UNCHANGED vars
    BY <1>6, <1>b DEF BaselineExpire, Interrupt, Cancel, Terminated, vars
  <1>7. ASSUME NEW w \in Worker, Dispatch(w) \/ WorkerStep(w) \/ Timeout(w)
        PROVE  Ownership'
    <2>0. CASE main \in {"canceled", "reported"}
      <3>1. pc[w] = "exited"
        BY <2>0 DEF Ownership
      <3>2. Timeout(w)
        BY <1>7, <3>1, <2>0, <1>0, ExecuteFrame DEF WorkerStep, Dispatch, ExecuteStep,
             RecordResult, LockProgress, ReportProgress, WorkerExit, Busy
      <3> QED BY <3>2, <1>b DEF Timeout, Expire
    <2>1. CASE Dispatch(w)
      <3>1. /\ main' = "dispatch" /\ next \in Mutant /\ next' = next + 1
            /\ pc[w] = "idle" /\ pc'[w] = "prepare" /\ job'[w] = next
            /\ \A v \in Worker \ {w} : pc'[v] = pc[v] /\ job'[v] = job[v]
            /\ results' = results
        BY <2>1, <1>0 DEF Dispatch, Take, Mutant
      <3>2. \A m \in Mutant : m < next' => m < next \/ m = next
        BY <3>1, <1>0 DEF Mutant
      <3>3. \A v \in Worker \ {w} : pc'[v] \in Busy => job'[v] < next
        BY <3>1 DEF Ownership
      <3>4. \A v \in Worker : pc'[v] \in Busy => job'[v] < next' /\ results'[job'[v]].status = "none"
        BY <3>1, <1>0 DEF Ownership, Mutant, Knows
      <3>5. \A u, v \in Worker :
              pc'[u] \in Busy /\ pc'[v] \in Busy /\ job'[u] = job'[v] => u = v
        BY <3>1, <3>3, <1>0 DEF Ownership, Mutant
      <3>6. \A m \in Mutant : m < next' =>
              results'[m].status # "none" \/ \E v \in Worker : pc'[v] \in Busy /\ job'[v] = m
        BY <3>1, <3>2 DEF Ownership, Busy
      <3>7. \A m \in Mutant : m >= next' => results'[m].status = "none"
        BY <3>1, <1>0 DEF Ownership, Mutant
      <3> QED BY <3>1, <3>4, <3>5, <3>6, <3>7 DEF Ownership
    <2>2. CASE ExecuteStep(w)
      <3>1. /\ UNCHANGED poolVars /\ job' = job
            /\ \A v \in Worker : pc'[v] \in Busy <=> pc[v] \in Busy
        BY <2>2, <1>0, ExecuteFrame DEF ExecuteStep
      <3>2. main \notin {"canceled", "reported"}
        BY <2>2, <1>0, ExecuteFrame DEF ExecuteStep, Ownership, Busy
      <3> QED BY <3>1, <3>2 DEF Ownership
    <2>3. CASE RecordResult(w)
      <3>1. /\ UNCHANGED <<main, next>> /\ pc[w] = "record"
            /\ pc'[w] \notin Busy /\ job[w] \in Mutant
            /\ \A v \in Worker \ {w} : pc'[v] = pc[v] /\ job'[v] = job[v]
        BY <2>3, <1>0 DEF RecordResult, Busy, Knows
      <3>2. /\ results'[job[w]].status # "none"
            /\ \A m \in Mutant \ {job[w]} : results'[m] = results[m]
        BY <2>3, <3>1, <1>0 DEF RecordResult, Knows
      <3>3. main \notin {"canceled", "reported"}
        BY <3>1 DEF Ownership
      <3>4. \A v \in Worker \ {w} : pc[v] \in Busy => job[v] # job[w] /\ job[v] \in Mutant
        BY <3>1, <1>0 DEF Ownership, Busy, Knows
      <3>5. job[w] < next
        BY <3>1 DEF Ownership, Busy
      <3>6. \A m \in Mutant : m < next' =>
              results'[m].status # "none" \/ \E v \in Worker : pc'[v] \in Busy /\ job'[v] = m
        BY <3>1, <3>2 DEF Ownership
      <3>7. \A m \in Mutant : m >= next' => results'[m].status = "none"
        BY <3>1, <3>2, <3>5, <1>0 DEF Ownership, Mutant
      <3>8. \A v \in Worker : pc'[v] \in Busy => job'[v] < next' /\ results'[job'[v]].status = "none"
        BY <3>1, <3>2, <3>4 DEF Ownership
      <3>9. \A u, v \in Worker :
              pc'[u] \in Busy /\ pc'[v] \in Busy /\ job'[u] = job'[v] => u = v
        BY <3>1 DEF Ownership
      <3> QED BY <3>1, <3>3, <3>6, <3>7, <3>8, <3>9 DEF Ownership
    <2>4. CASE main \notin {"canceled", "reported"} /\ (LockProgress(w) \/ ReportProgress(w) \/ WorkerExit(w))
      <3>1. /\ UNCHANGED <<main, next, job, results>>
            /\ \A v \in Worker : pc'[v] \in Busy <=> pc[v] \in Busy
        BY <2>4, <1>0 DEF LockProgress, ReportProgress, WorkerExit, Busy
      <3> QED BY <2>4, <3>1 DEF Ownership
    <2>5. CASE Timeout(w)
      BY <2>5, <1>b DEF Timeout, Expire
    <2> QED BY <1>7, <2>0, <2>1, <2>2, <2>3, <2>4, <2>5 DEF WorkerStep
  <1> QED BY <1>1, <1>2, <1>3, <1>4, <1>5, <1>6, <1>7 DEF Next, MainStep

-----------------------------------------------------------------------------
(* The invariant holds in every reachable state.                           *)

LEMMA InitCoreInv == Init => CoreInv
  <1> SUFFICES ASSUME Init PROVE CoreInv
    OBVIOUS
  <1> USE DEF Init, RunnerInit
  <1>1. TypeOK
    BY InitTypeOK
  <1>2. Commands
    BY WorkerType, SizeAssumption DEF Commands, Worker, Process
  <1>3. WorkersKnow /\ ResultsHonest
    BY DEF WorkersKnow, Knows, Busy, ResultsHonest, Honest, NoResult, Scored
  <1>4. BaselineFirst
    BY DEF BaselineFirst, Early, NoResult
  <1>5. Ownership
    BY DEF Ownership, Busy, NoResult, Mutant
  <1> QED BY <1>1, <1>2, <1>3, <1>4, <1>5 DEF CoreInv

LEMMA NextCoreInv == CoreInv /\ [Next]_vars => CoreInv'
  BY NextTypeOK, NextCommands, NextKnows, NextBaselineFirst, NextOwnership DEF CoreInv

(* Every reachable state of Run satisfies the inductive invariant: what    *)
(* the workers know, what the results hold, and who owns which mutant.     *)
THEOREM CoreInvariance == SafeSpec => []CoreInv
  BY InitCoreInv, NextCoreInv, PTL DEF SafeSpec

(* Every variable of Run keeps its type.                                   *)
THEOREM TypeCorrect == SafeSpec => []TypeOK
  BY CoreInvariance, PTL DEF CoreInv

(* Scores are exact: a mutant recorded as killed or survived is one that   *)
(* an undisturbed promtool kills or lets survive.                          *)
THEOREM VerdictsAreExact == SafeSpec => []VerdictsExact
  <1>1. CoreInv => VerdictsExact
    BY DEF CoreInv, ResultsHonest, Honest, VerdictsExact
  <1> QED BY <1>1, CoreInvariance, PTL

(* A kill blames a test that passed on the original rules and is the first *)
(* to fail, by an assertion, on the mutant.                                *)
THEOREM KillsAreAttributable == SafeSpec => []KillsAttributable
  <1>1. ASSUME CoreInv, NEW m \in Mutant, results[m].status = "killed"
        PROVE  LET t == results[m].test IN
                 /\ t \in Test /\ EndsAt(m, t) /\ world.run[m][t] = "assertion"
                 /\ world.baseline[1 + R + t] = "pass"
    <2>1. /\ results[m].test \in Test /\ EndsAt(m, results[m].test)
          /\ world.run[m][results[m].test] = "assertion"
      BY <1>1 DEF CoreInv, ResultsHonest, Honest, Scored
    <2>2. BaselineOK
      BY <1>1 DEF CoreInv, BaselineFirst
    <2>3. 1 + R + results[m].test \in Baseline
      BY <2>1, SizeAssumption DEF Test, Baseline
    <2> QED BY <2>1, <2>2, <2>3 DEF BaselineOK
  <1>2. CoreInv => KillsAttributable
    BY <1>1 DEF KillsAttributable
  <1> QED BY <1>2, CoreInvariance, PTL

-----------------------------------------------------------------------------
(* The gate.                                                               *)

LEMMA MutantsFinite == IsFiniteSet(Mutant) /\ Cardinality(Mutant) = N
  BY SizeAssumption, FS_Interval DEF Mutant

(* summarize passes exactly when every mutant has a score and the kills    *)
(* among all of them meet the threshold.                                   *)
LEMMA GatePasses ==
  ASSUME TypeOK
  PROVE  Summarize.passed <=>
           /\ \A m \in Mutant : results[m].status \in Scored
           /\ MeetsThreshold(Cardinality({m \in Mutant : results[m].status = "killed"}), N)
  <1> DEFINE K == {m \in Mutant : results[m].status = "killed"}
             S == {m \in Mutant : results[m].status = "survived"}
             H == {m \in Mutant : results[m].status = "timeout"}
             E == {m \in Mutant : results[m].status \notin {"killed", "survived", "timeout"}}
  <1>1. IsFiniteSet(K) /\ IsFiniteSet(S) /\ IsFiniteSet(H) /\ IsFiniteSet(E)
    BY MutantsFinite, FS_Subset
  <1>2. Summarize.passed <=> /\ MeetsThreshold(Cardinality(K), Cardinality(K) + Cardinality(S))
                             /\ Cardinality(E) = 0 /\ Cardinality(H) = 0
    BY DEF Summarize, Counted
  <1>3. Cardinality(E) = 0 /\ Cardinality(H) = 0 <=> E = {} /\ H = {}
    BY <1>1, FS_EmptySet
  <1>4. E = {} /\ H = {} <=> \A m \in Mutant : results[m].status \in Scored
    BY DEF Scored
  <1>5. ASSUME E = {}, H = {} PROVE Cardinality(K) + Cardinality(S) = N
    <2>1. K \cup S = Mutant /\ K \cap S = {}
      BY <1>5
    <2>2. Cardinality(K \cup S) = Cardinality(K) + Cardinality(S) - Cardinality(K \cap S)
      BY <1>1, FS_Union
    <2>3. Cardinality(K) \in Nat /\ Cardinality(S) \in Nat
      BY <1>1, FS_CardinalityType
    <2>4. Cardinality(K \cup S) = N /\ Cardinality(K \cap S) = 0
      BY <2>1, FS_EmptySet, MutantsFinite
    <2> HIDE DEF K, S
    <2> QED BY <2>2, <2>3, <2>4, SizeAssumption
  <1> QED BY <1>2, <1>3, <1>4, <1>5

(* A passing gate is earned, whatever was interrupted or timed out.        *)
THEOREM PassingIsEarned == SafeSpec => []PassIsEarned
  <1>1. ASSUME CoreInv, main = "reported", summary.passed
        PROVE  BaselineOK /\ TrueGate
    <2>1. /\ BaselineOK /\ TypeOK /\ Summarize.passed
      BY <1>1 DEF CoreInv, BaselineFirst, Ownership, Early
    <2>2. /\ \A m \in Mutant : results[m].status \in Scored
          /\ MeetsThreshold(Cardinality({m \in Mutant : results[m].status = "killed"}), N)
      BY <2>1, GatePasses
    <2>3. \A m \in Mutant : results[m].status = Verdict(m)
      BY <1>1, <2>2 DEF CoreInv, ResultsHonest, Honest
    <2>4. {m \in Mutant : results[m].status = "killed"} = {m \in Mutant : Verdict(m) = "killed"}
      BY <2>3
    <2> QED BY <2>1, <2>2, <2>3, <2>4 DEF TrueGate, TrueKills
  <1>2. CoreInv => PassIsEarned
    BY <1>1 DEF PassIsEarned
  <1> QED BY <1>2, CoreInvariance, PTL

-----------------------------------------------------------------------------
(* Run implements its contract.                                            *)

LEMMA VerdictType == \A m : Verdict(m) \in {"killed", "survived", "timeout", "error"}
  BY DEF Verdict

LEMMA ContractInit == Init => Contract!Init
  <1> SUFFICES ASSUME Init PROVE Contract!Init
    OBVIOUS
  <1>1. [m \in Mutant |-> results[m].status] = [m \in Contract!Mutant |-> "none"]
    BY DEF Init, NoResult, Mutant, Contract!Mutant
  <1>2. [m \in Mutant |-> Verdict(m)] \in
          [Contract!Mutant -> {"killed", "survived"} \cup Contract!Unscored]
    BY VerdictType DEF Mutant, Contract!Mutant, Contract!Unscored
  <1>3. Outcome = "open" /\ BaselineOK \in BOOLEAN
    BY DEF Init, Outcome, BaselineOK
  <1> QED BY <1>1, <1>2, <1>3 DEF Contract!Init, Contract!Undecided

(* A step that neither stores a result nor returns is none of the contract.*)
LEMMA ContractStutter ==
  ASSUME world' = world, results' = results, Outcome' = Outcome
  PROVE  UNCHANGED Contract!vars
  <1>1. UNCHANGED <<BaselineOK, Outcome>>
    BY DEF BaselineOK
  <1>2. [m \in Mutant |-> Verdict(m)]' = [m \in Mutant |-> Verdict(m)]
    BY SameTruth DEF Mutant
  <1>3. [m \in Mutant |-> results[m].status]' = [m \in Mutant |-> results[m].status]
    BY DEF Mutant
  <1> QED BY <1>1, <1>2, <1>3 DEF Contract!vars

LEMMA ContractRefuse ==
  ASSUME world' = world, results' = results, Outcome = "open", Outcome' = "refused"
  PROVE  Contract!Refuse
  <1>1. BaselineOK' = BaselineOK
    BY DEF BaselineOK
  <1>2. [m \in Mutant |-> Verdict(m)]' = [m \in Mutant |-> Verdict(m)]
    BY SameTruth DEF Mutant
  <1>3. [m \in Mutant |-> results[m].status]' = [m \in Mutant |-> results[m].status]
    BY DEF Mutant
  <1> QED BY <1>1, <1>2, <1>3 DEF Contract!Refuse

(* Storing a result decides a mutant: truly, or as not judged.             *)
LEMMA ContractDecide ==
  ASSUME CoreInv, NEW w \in Worker, RecordResult(w)
  PROVE  \E m \in Contract!Mutant : Contract!Decide(m)
  <1>0. job[w] \in Mutant /\ result[w].status \in Status
    BY DEF RecordResult, At, CoreInv, TypeOK, RunnerTypeOK, Result, WorkersKnow, Knows, Busy
  <1> PICK k \in Mutant : k = job[w]
    BY <1>0
  <1> PICK v \in Status : v = result[w].status
    BY <1>0
  <1>a. /\ pc[w] = "record" /\ results' = [results EXCEPT ![k] = result[w]]
        /\ world' = world /\ UNCHANGED <<main, summary>>
    BY DEF RecordResult, At, mainVars, external
  <1>1. /\ k \in Mutant /\ results[k].status = "none" /\ Honest(k, result[w])
        /\ v \in Status \ {"none"}
    BY <1>a DEF CoreInv, TypeOK, RunnerTypeOK, Result, WorkersKnow, Knows, Ownership, Busy
  <1>2. /\ main \notin {"failed", "canceled", "reported"} /\ BaselineOK
    BY <1>a DEF CoreInv, BaselineFirst, Early, Ownership, AllExited
  <1>3. Outcome = "open" /\ Outcome' = "open"
    BY <1>a, <1>2 DEF Outcome
  <1>4. v \in Contract!Unscored \cup {Verdict(k)}
    BY <1>1 DEF Honest, Scored, Status, Contract!Unscored
  <1>5. [m \in Mutant |-> results[m].status]'
          = [[m \in Mutant |-> results[m].status] EXCEPT ![k] = v]
    <2>1. \A m \in Mutant : results'[m] = IF m = k THEN result[w] ELSE results[m]
      BY <1>a, <1>1 DEF CoreInv, TypeOK
    <2>2. [m \in Mutant |-> results[m].status]' = [m \in Mutant |-> results'[m].status]
      BY DEF Mutant
    <2> QED BY <2>1, <2>2
  <1>6. [m \in Mutant |-> Verdict(m)]' = [m \in Mutant |-> Verdict(m)] /\ BaselineOK' = BaselineOK
    BY <1>a, SameTruth DEF Mutant, BaselineOK
  <1>7. k \in Contract!Mutant
    BY <1>1 DEF Mutant, Contract!Mutant
  <1>8. Contract!Decide(k)
    BY <1>1, <1>2, <1>3, <1>4, <1>5, <1>6 DEF Contract!Decide, Contract!Undecided
  <1> QED BY <1>7, <1>8

(* The report closes the contract with the outcome the verdicts deserve.   *)
LEMMA ContractClose ==
  ASSUME CoreInv, ReturnReport
  PROVE  Contract!Close
  <1>0. /\ main = "draining" /\ AllExited /\ main' = "reported" /\ summary' = Summarize
        /\ world' = world /\ results' = results
    BY DEF ReturnReport, runnerVars
  <1>1. \A m \in Mutant : results[m].status # "none"
    <2>1. \A m \in Mutant : m < next
      BY <1>0, SizeAssumption DEF CoreInv, Ownership, Mutant
    <2> QED BY <1>0, <2>1 DEF CoreInv, Ownership, AllExited, Busy
  <1>2. BaselineOK
    BY <1>0 DEF CoreInv, BaselineFirst, Early
  <1>3. Outcome = "open" /\ Outcome' = IF Summarize.passed THEN "passed" ELSE "gated"
    BY <1>0 DEF Outcome
  <1>4. Contract!Mutant = Mutant
    BY DEF Mutant, Contract!Mutant
  <1>5. Summarize.passed <=>
          /\ \A m \in Mutant : results[m].status \notin {"timeout", "error"}
          /\ MeetsThreshold(Cardinality({m \in Mutant : results[m].status = "killed"}), N)
    <2>1. \A m \in Mutant : results[m].status \in Status
      BY DEF CoreInv, TypeOK, Result
    <2>2. \A m \in Mutant : results[m].status \in Scored <=> results[m].status \notin {"timeout", "error"}
      BY <1>1, <2>1 DEF Scored, Status
    <2> QED BY <2>2, GatePasses DEF CoreInv
  <1>6. Contract!Killed = {m \in Mutant : results[m].status = "killed"}
    BY <1>4 DEF Contract!Killed
  <1>x. Contract!Cardinality(Contract!Killed) = Cardinality(Contract!Killed)
    BY DEF Cardinality, Contract!Cardinality
  <1>7. Contract!Deserved = IF Summarize.passed THEN "passed" ELSE "gated"
    BY <1>4, <1>5, <1>6, <1>x DEF Contract!Deserved, Contract!Unscored
  <1>8. [m \in Mutant |-> Verdict(m)]' = [m \in Mutant |-> Verdict(m)] /\ BaselineOK' = BaselineOK
    BY <1>0, SameTruth DEF Mutant, BaselineOK
  <1>9. [m \in Mutant |-> results[m].status]' = [m \in Mutant |-> results[m].status]
    BY <1>0 DEF Mutant
  <1> QED BY <1>1, <1>2, <1>3, <1>4, <1>7, <1>8, <1>9 DEF Contract!Close, Contract!Undecided

LEMMA ContractStep == CoreInv /\ [Next]_vars => [Contract!Next]_(Contract!vars)
  <1> SUFFICES ASSUME CoreInv, [Next]_vars PROVE [Contract!Next]_(Contract!vars)
    OBVIOUS
  <1> USE DEF external, files, poolVars, mainVars, reportVars, runnerVars
  <1>a. ASSUME world' = world, results' = results,
               \/ UNCHANGED <<main, summary>>
               \/ {main, main'} \cap {"failed", "canceled", "reported"} = {}
        PROVE  UNCHANGED Contract!vars
    <2>1. Outcome' = Outcome
      BY <1>a DEF Outcome
    <2> QED BY <1>a, <2>1, ContractStutter
  <1>b. ASSUME world' = world, results' = results, main' \in {"failed", "canceled"},
               main \notin {"failed", "canceled", "reported"}
        PROVE  Contract!Refuse
    <2>1. Outcome = "open" /\ Outcome' = "refused"
      BY <1>b DEF Outcome
    <2> QED BY <1>b, <2>1, ContractRefuse
  <1>1. CASE LoadRules
    BY <1>1, <1>a, <1>b DEF LoadRules, Contract!Next
  <1>2. CASE ValidateBaseline
    <2>1. main = "baseline" /\ world' = world /\ results' = results
          /\ main' \in {"baseline", "dispatch", "failed"}
      BY <1>2 DEF ValidateBaseline
    <2> QED BY <2>1, <1>a, <1>b DEF Contract!Next
  <1>3. CASE BaselineExpire \/ AbortDispatch \/ CloseJobs
    BY <1>3, <1>a DEF BaselineExpire, AbortDispatch, CloseJobs
  <1>4. CASE ReturnCanceled
    BY <1>4, <1>b DEF ReturnCanceled, Contract!Next
  <1>5. CASE ReturnReport
    BY <1>5, ContractClose DEF Contract!Next
  <1>6. CASE Interrupt \/ Terminated \/ UNCHANGED vars
    BY <1>6, <1>a DEF Interrupt, Cancel, Terminated, vars
  <1>7. ASSUME NEW w \in Worker, Dispatch(w) \/ WorkerStep(w) \/ Timeout(w)
        PROVE  [Contract!Next]_(Contract!vars)
    <2>1. CASE Dispatch(w)
      BY <2>1, <1>a DEF Dispatch, Take
    <2>2. CASE ExecuteStep(w)
      BY <2>2, <1>a, ExecuteFrame DEF ExecuteStep, CoreInv, TypeOK
    <2>3. CASE RecordResult(w)
      BY <2>3, ContractDecide DEF Contract!Next
    <2>4. CASE LockProgress(w) \/ ReportProgress(w) \/ WorkerExit(w) \/ Timeout(w)
      BY <2>4, <1>a DEF LockProgress, ReportProgress, WorkerExit, Timeout, Expire
    <2> QED BY <1>7, <2>1, <2>2, <2>3, <2>4 DEF WorkerStep
  <1> QED BY <1>1, <1>2, <1>3, <1>4, <1>5, <1>6, <1>7 DEF Next, MainStep

(* Run implements its contract: verdicts are given once, truly or not at   *)
(* all, only on sound rules, and close with the outcome they deserve.      *)
THEOREM RunImplementsContract == SafeSpec => ImplementsContract
  BY ContractInit, ContractStep, CoreInvariance, PTL DEF SafeSpec, ImplementsContract, Contract!Spec

-----------------------------------------------------------------------------
(* What a campaign reports and leaves behind, from CoreInv: the causes of  *)
(* its errors and timeouts, its progress, its workspaces and its survivor  *)
(* files.                                                                  *)

(* The verdict, from where the undisturbed execution ends.                 *)

(* Rules that promtool check refuses, or hangs on, have no score.          *)
LEMMA CheckVerdict ==
  ASSUME NEW m, world.check[m] # "pass"
  PROVE  Verdict(m) = IF world.check[m] = "hangs" THEN "timeout" ELSE "error"
  BY DEF Verdict, IsKilled, IsSurvivor, IsHung

(* At most one test file ends an execution.                                *)
LEMMA EndsOnce ==
  ASSUME NEW m, NEW t \in Test, NEW u \in Test, EndsAt(m, t), EndsAt(m, u)
  PROVE  t = u
  <1>1. t \notin 1..(u - 1) /\ u \notin 1..(t - 1)
    BY DEF EndsAt
  <1> QED BY <1>1, SizeAssumption DEF Test

LEMMA EndVerdict ==
  ASSUME NEW m, world.check[m] = "pass", NEW t \in Test, EndsAt(m, t)
  PROVE  Verdict(m) = IF world.run[m][t] = "assertion" THEN "killed"
                      ELSE IF world.run[m][t] = "hangs" THEN "timeout" ELSE "error"
  <1>1. \A u \in Test : EndsAt(m, u) => u = t
    BY EndsOnce
  <1>2. IsKilled(m) <=> world.run[m][t] = "assertion"
    BY <1>1 DEF IsKilled
  <1>3. ~IsSurvivor(m)
    BY DEF IsSurvivor, EndsAt
  <1>4. IsHung(m) <=> world.run[m][t] = "hangs"
    BY <1>1 DEF IsHung
  <1> QED BY <1>2, <1>3, <1>4 DEF Verdict

LEMMA UntestedVerdict ==
  ASSUME NEW m, world.check[m] = "pass", \A t \in Test : world.run[m][t] = "unrelated"
  PROVE  Verdict(m) = "error"
  <1>1. \A t \in Test : Benign(m, t)
    BY DEF Benign
  <1> QED BY <1>1 DEF Verdict, IsKilled, IsSurvivor, IsHung, EndsAt

-----------------------------------------------------------------------------
(* Every error and timeout has a cause.                                    *)

(* What was disturbed or cancelled stays so.                               *)
LEMMA NoiseStays ==
  ASSUME CoreInv, [Next]_vars
  PROVE  world' = world /\ (cancelled => cancelled') /\ disturbed \subseteq disturbed'
  <1> USE DEF external, files, poolVars, mainVars, reportVars, runnerVars
  <1>0. world' = world
    BY NextKnows DEF CoreInv
  <1>1. CASE MainStep \/ BaselineExpire \/ Interrupt \/ Terminated \/ UNCHANGED vars
    BY <1>0, <1>1 DEF MainStep, LoadRules, ValidateBaseline, AbortDispatch, CloseJobs, ReturnReport,
           ReturnCanceled, BaselineExpire, Interrupt, Cancel, Terminated, vars
  <1>2. ASSUME NEW w \in Worker, Dispatch(w) \/ WorkerStep(w) \/ Timeout(w)
        PROVE  (cancelled => cancelled') /\ disturbed \subseteq disturbed'
    <2>1. CASE \/ Dispatch(w) \/ RecordResult(w) \/ LockProgress(w) \/ ReportProgress(w)
               \/ WorkerExit(w) \/ Timeout(w)
      BY <2>1 DEF Dispatch, Take, RecordResult, LockProgress, ReportProgress, WorkerExit,
             Timeout, Expire, Disturb
    <2>2. CASE ExecuteStep(w)
      BY <2>2 DEF ExecuteStep, Execute, PrepareWorkspace, CheckRules, PrepareTest, RunTest,
             FinishTests, OpenSurvivor, WriteSurvivor, RemoveWorkspace, Disturb
    <2> QED BY <1>2, <2>1, <2>2 DEF WorkerStep
  <1> QED BY <1>0, <1>1, <1>2 DEF Next

LEMMA FrameExplains ==
  ASSUME NEW w \in Worker, Explains(w), world' = world,
         cancelled => cancelled', disturbed \subseteq disturbed',
         pc'[w] = pc[w], job'[w] = job[w], test'[w] = test[w],
         tested'[w] = tested[w], result'[w] = result[w], ctx'[w] = ctx[w]
  PROVE  Explains(w)'
  BY SameTruth DEF Explains, Noisy, Exit

(* What command() says of a context that is over.                          *)
LEMMA ReturnedEarly ==
  ASSUME NEW p, NEW exit, NEW r \in Returned(p, exit), ctx[p] = "deadline"
  PROVE  r = ctx[p] /\ exit # "lingers"
  BY DEF Returned

LEMMA ReturnedInTime ==
  ASSUME NEW p, NEW exit, NEW r \in Returned(p, exit), ctx[p] = "live"
  PROVE  r = exit /\ exit \notin {"hangs", "lingers"}
  BY DEF Returned

LEMMA ExecuteExplains ==
  ASSUME RunnerTypeOK, NEW w \in Worker, Knows(w), Explains(w), Execute(w),
         ctx[w] # "none" <=> pc[w] \in {"check", "testing"}
  PROVE  Explains(w)'
  <1> USE SizeAssumption DEF external, files, At, Goto, Noisy
  <1>0. /\ job[w] \in Mutant /\ test[w] \in 1..(T + 1) /\ job' = job
        /\ world' = world /\ w \in DOMAIN pc /\ w \in DOMAIN test /\ w \in DOMAIN tested
        /\ w \in DOMAIN result /\ world \in World /\ w \in Process /\ w \in DOMAIN ctx
        /\ Verdict(job[w])' = Verdict(job[w])
        /\ ctx[w] \in {"none", "unstarted", "live", "deadline", "canceled"}
    BY ExecuteFrame, WorkerType, SameTruth DEF Knows, RunnerTypeOK
  <1>a. ASSUME pc'[w] \in {"cleanup", "record"}, ctx'[w] = "none",
               result'[w].status = Verdict(job[w]) \/ Noisy(job[w])'
        PROVE  Explains(w)'
    BY <1>0, <1>a DEF Explains
  <1>b. Disturb(w) => Noisy(job[w])'
    BY <1>0 DEF Disturb
  <1>c. ctx[w] = "none" => ctx[w] # "live" /\ ctx[w] # "deadline" /\ ctx[w] # "canceled"
                          /\ ctx[w] # "unstarted"
    OBVIOUS
  <1>1. CASE PrepareWorkspace(w)
    <2>1. CASE Goto(w, "check") /\ StartCommand(w) /\ UNCHANGED cancelled
      <3>1. pc'[w] = "check" /\ ctx'[w] = IF cancelled THEN "unstarted" ELSE "live"
        BY <2>1, <1>0 DEF StartCommand, NewContext
      <3> QED BY <3>1, <2>1 DEF Explains
    <2>2. CASE \E l \in {"record", "cleanup"} : Goto(w, l) /\ Disturb(w) /\ UNCHANGED ctx
      BY <2>2, <1>0, <1>1, <1>a, <1>b DEF PrepareWorkspace
    <2> QED BY <1>1, <2>1, <2>2 DEF PrepareWorkspace
  <1>2. CASE CheckRules(w)
    <2>0. /\ pc[w] = "check" /\ test[w] = 1 /\ ~tested[w] /\ UNCHANGED <<test, tested>>
          /\ ctx'[w] = "none" /\ Exit(w) = world.check[job[w]]
          /\ UNCHANGED <<cancelled, disturbed>>
      BY <1>0, <1>2 DEF CheckRules, Knows, EndCommand, Exit
    <2>1. PICK returned \in Returned(w, world.check[job[w]]) :
            \/ returned = "pass" /\ Goto(w, "tests")
            \/ /\ returned # "pass" /\ Goto(w, "cleanup")
               /\ Conclude(w, StatusForError(returned), 0)
      BY <1>2 DEF CheckRules
    <2>2. CASE returned = "pass"
      BY <1>0, <2>0, <2>1, <2>2 DEF Explains
    <2>3. CASE returned # "pass"
      <3>1. /\ pc'[w] = "cleanup" /\ result'[w].status = StatusForError(returned)
        BY <1>0, <2>1, <2>3 DEF Conclude
      <3>2. CASE ctx[w] = "live"
        <4>0. world.check[job[w]] \in CheckExit
          BY <1>0 DEF World
        <4>1. world.check[job[w]] = returned /\ returned \notin {"hangs", "lingers", "deadline"}
          BY <3>2, <4>0, ReturnedInTime DEF CheckExit
        <4> QED BY <1>a, <2>0, <2>3, <3>1, <4>1, CheckVerdict DEF StatusForError
      <3>3. CASE ctx[w] \in {"unstarted", "canceled"}
        BY <1>a, <2>0, <3>1, <3>3 DEF Explains
      <3>4. CASE ctx[w] = "deadline"
        <4>1. returned = "deadline" /\ world.check[job[w]] # "lingers"
          BY <3>4, ReturnedEarly
        <4>2. world.check[job[w]] = "hangs" \/ job[w] \in disturbed
          BY <2>0, <3>4, <4>1 DEF Explains
        <4>3. world.check[job[w]] = "hangs" => result'[w].status = Verdict(job[w])
          BY <3>1, <4>1, CheckVerdict DEF StatusForError
        <4>4. job[w] \in disturbed => Noisy(job[w])'
          BY <1>0, <2>0
        <4> QED BY <1>a, <2>0, <3>1, <4>2, <4>3, <4>4
      <3> QED BY <1>0, <2>0, <3>2, <3>3, <3>4
    <2> QED BY <2>2, <2>3
  <1>3. CASE PrepareTest(w)
    <2> DEFINE m == job[w]
               t == test[w]
    <2>0. /\ t \in Test /\ pc[w] = "tests" /\ ctx[w] = "none" /\ world.check[m] = "pass"
          /\ \A u \in 1..(t - 1) : Benign(m, u)
          /\ UNCHANGED cancelled
      BY <1>3, <1>0 DEF PrepareTest, Knows
    <2>1. CASE world.run[m][t] = "unrelated" /\ UNCHANGED <<pc, tested, ctx, result, disturbed>>
               /\ test' = [test EXCEPT ![w] = @ + 1]
      <3>1. \A u \in 1..(test'[w] - 1) : u \in 1..(t - 1) \/ u = t
        BY <2>1, <1>0
      <3> QED BY <2>0, <2>1, <3>1, <1>0 DEF Explains
    <2>2. CASE world.run[m][t] \notin {"unrelated", "unusable"} /\ Goto(w, "testing")
               /\ UNCHANGED test /\ StartCommand(w)
               /\ tested' = [tested EXCEPT ![w] = TRUE]
      <3>1. pc'[w] = "testing" /\ ctx'[w] = IF cancelled THEN "unstarted" ELSE "live"
        BY <2>2, <1>0 DEF StartCommand, NewContext
      <3> QED BY <2>0, <2>2, <3>1, <1>0 DEF Explains
    <2>3. CASE Goto(w, "cleanup") /\ Conclude(w, "error", t) /\ UNCHANGED ctx
               /\ \/ world.run[m][t] = "unusable"
                  \/ Disturb(w)
      <3>1. pc'[w] = "cleanup" /\ ctx'[w] = "none" /\ result'[w].status = "error"
        BY <2>0, <2>3, <1>0 DEF Conclude
      <3>2. world.run[m][t] = "unusable" => Verdict(m) = "error"
        BY <2>0, EndVerdict DEF EndsAt, Benign
      <3> QED BY <1>a, <1>b, <2>3, <3>1, <3>2
    <2> QED BY <1>3, <2>1, <2>2, <2>3 DEF PrepareTest
  <1>4. CASE RunTest(w)
    <2> DEFINE m == job[w]
               t == test[w]
    <2>0. /\ t \in Test /\ pc[w] = "testing" /\ ctx'[w] = "none" /\ world.check[m] = "pass"
          /\ \A u \in 1..(t - 1) : Benign(m, u)
          /\ UNCHANGED <<cancelled, disturbed, tested>>
          /\ Exit(w) = world.run[m][t] /\ world.run[m][t] \notin {"unrelated", "unusable"}
      BY <1>4, <1>0 DEF RunTest, Knows, EndCommand, Exit, Explains
    <2>1. PICK returned \in Returned(w, world.run[m][t]) :
            \/ /\ returned = "pass" /\ Goto(w, "tests")
               /\ test' = [test EXCEPT ![w] = @ + 1]
            \/ /\ returned # "pass" /\ Goto(w, "cleanup")
               /\ Conclude(w, StatusForTestError(returned), t)
      BY <1>4 DEF RunTest
    <2>2. CASE returned = "pass"
      <3>1. tested[w]
        BY <1>4, <2>0 DEF Explains, Knows
      <3> QED BY <1>0, <2>0, <2>1, <2>2, <3>1 DEF Explains
    <2>3. CASE returned # "pass"
      <3>1. pc'[w] = "cleanup" /\ result'[w].status = StatusForTestError(returned)
        BY <1>0, <2>1, <2>3 DEF Conclude
      <3>2. world.run[m][t] # "pass" => EndsAt(m, t)
        BY <2>0 DEF EndsAt, Benign
      <3>3. CASE ctx[w] = "live"
        <4>0. world.run[m][t] \in TestExit
          BY <1>0, <2>0 DEF World
        <4>1. world.run[m][t] = returned /\ returned \notin {"hangs", "lingers", "deadline"}
          BY <3>3, <4>0, ReturnedInTime DEF TestExit
        <4> QED BY <1>a, <2>0, <2>3, <3>1, <3>2, <4>1, EndVerdict DEF StatusForTestError
      <3>4. CASE ctx[w] \in {"unstarted", "canceled"}
        BY <1>a, <2>0, <3>1, <3>4 DEF Explains
      <3>5. CASE ctx[w] = "deadline"
        <4>1. returned = "deadline" /\ world.run[m][t] # "lingers"
          BY <3>5, ReturnedEarly
        <4>2. world.run[m][t] = "hangs" \/ m \in disturbed
          BY <2>0, <3>5, <4>1 DEF Explains
        <4>3. world.run[m][t] = "hangs" => result'[w].status = Verdict(m)
          BY <2>0, <3>1, <3>2, <4>1, EndVerdict DEF StatusForTestError
        <4>4. m \in disturbed => Noisy(job[w])'
          BY <1>0, <2>0
        <4> QED BY <1>a, <2>0, <3>1, <4>2, <4>3, <4>4
      <3> QED BY <1>0, <2>0, <3>3, <3>4, <3>5
    <2> QED BY <2>2, <2>3
  <1>5. CASE FinishTests(w)
    <2>1. /\ test[w] = T + 1 /\ 1..(test[w] - 1) = Test /\ pc[w] = "tests" /\ ctx'[w] = "none"
          /\ world.check[job[w]] = "pass"
      BY <1>5 DEF FinishTests, Test, Knows
    <2>2. CASE ~tested[w] /\ Goto(w, "cleanup") /\ Conclude(w, "error", 0)
      <3>1. Verdict(job[w]) = "error"
        BY <2>1, <2>2, UntestedVerdict DEF Explains
      <3> QED BY <1>0, <1>a, <2>1, <2>2, <3>1 DEF Conclude
    <2>3. CASE tested[w] /\ Conclude(w, "survived", 0)
      <3>1. Verdict(job[w]) = "survived"
        BY <2>1, <2>3, <1>0, SurvivorVerdict DEF Knows, IsSurvivor
      <3>2. pc'[w] \in {"open", "cleanup"} /\ result'[w].status = "survived"
        BY <1>0, <1>5, <2>3 DEF FinishTests, Conclude
      <3> QED BY <1>0, <1>a, <2>1, <3>1, <3>2 DEF Explains
    <2> QED BY <1>5, <2>2, <2>3 DEF FinishTests
  <1>6. CASE OpenSurvivor(w) \/ WriteSurvivor(w)
    <2>1. pc[w] \in {"open", "write"} /\ ctx'[w] = "none" /\ result[w].status = "survived"
          /\ Verdict(job[w]) = "survived" /\ UNCHANGED cancelled
      BY <1>6, <1>0, SurvivorVerdict DEF OpenSurvivor, WriteSurvivor, Knows
    <2>2. CASE pc'[w] = "write"
      BY <2>1, <2>2 DEF Explains
    <2>3. CASE pc'[w] = "cleanup"
      <3>1. result'[w] = result[w] \/ Disturb(w)
        BY <1>6, <1>0, <2>3 DEF OpenSurvivor, WriteSurvivor
      <3> QED BY <1>a, <1>b, <2>1, <2>3, <3>1
    <2> QED BY <1>6, <1>0, <2>2, <2>3 DEF OpenSurvivor, WriteSurvivor
  <1>7. CASE RemoveWorkspace(w)
    <2>1. /\ pc'[w] = "record" /\ ctx'[w] = "none" /\ UNCHANGED <<cancelled, result>>
          /\ result[w].status = Verdict(job[w]) \/ Noisy(job[w])
          /\ disturbed \subseteq disturbed'
      BY <1>7, <1>0 DEF RemoveWorkspace, Explains, Disturb
    <2>2. Noisy(job[w]) => Noisy(job[w])'
      BY <1>0, <2>1
    <2> QED BY <1>a, <2>1, <2>2
  <1> QED BY <1>1, <1>2, <1>3, <1>4, <1>5, <1>6, <1>7 DEF Execute

(* A step of one worker leaves the others where they are.                  *)
LEMMA OthersStay ==
  ASSUME CoreInv, NEW w \in Worker, Dispatch(w) \/ WorkerStep(w) \/ Timeout(w)
  PROVE  \A v \in Worker \ {w} :
           /\ pc'[v] = pc[v] /\ job'[v] = job[v] /\ test'[v] = test[v]
           /\ tested'[v] = tested[v] /\ result'[v] = result[v] /\ ctx'[v] = ctx[v]
  <1> USE DEF external, files, poolVars, mainVars, reportVars, runnerVars, At, Goto
  <1>0. /\ RunnerTypeOK /\ pc \in [Worker -> PC] /\ Worker \subseteq Process
        /\ ctx \in [Process -> {"none", "unstarted", "live", "deadline", "canceled"}]
        /\ ctx[w] # "none" <=> pc[w] \in {"check", "testing"}
    BY WorkerType DEF CoreInv, TypeOK, RunnerTypeOK, Commands
  <1>1. CASE Dispatch(w)
    BY <1>0, <1>1 DEF Dispatch, Take, CoreInv, TypeOK, RunnerTypeOK
  <1>2. CASE ExecuteStep(w)
    <2>1. \A v \in Worker \ {w} : ctx'[v] = ctx[v]
      BY <1>0, <1>2, ExecuteCommands DEF ExecuteStep
    <2> QED BY <1>0, <1>2, <2>1, ExecuteFrame DEF ExecuteStep
  <1>3. CASE RecordResult(w)
    BY <1>0, <1>3 DEF RecordResult, CoreInv, TypeOK, RunnerTypeOK
  <1>4. CASE LockProgress(w) \/ ReportProgress(w) \/ WorkerExit(w)
    BY <1>0, <1>4 DEF LockProgress, ReportProgress, WorkerExit
  <1>5. CASE Timeout(w)
    BY <1>0, <1>5 DEF Timeout, Expire
  <1> QED BY <1>1, <1>2, <1>3, <1>4, <1>5 DEF WorkerStep

LEMMA NextExplains ==
  CoreInv /\ WorkersExplain /\ NoiseExplained /\ [Next]_vars
    => WorkersExplain' /\ NoiseExplained'
  <1> SUFFICES ASSUME CoreInv, WorkersExplain, NoiseExplained, [Next]_vars
               PROVE  WorkersExplain' /\ NoiseExplained'
    OBVIOUS
  <1> USE DEF external, files, poolVars, mainVars, reportVars, runnerVars, At, Goto
  <1>0. /\ RunnerTypeOK /\ \A w \in Worker : Knows(w) /\ Explains(w)
        /\ world' = world /\ (cancelled => cancelled') /\ disturbed \subseteq disturbed'
        /\ \A m : Verdict(m)' = Verdict(m)
        /\ \A m : Noisy(m) => Noisy(m)'
        /\ \A w \in Worker : ctx[w] # "none" <=> pc[w] \in {"check", "testing"}
    BY NoiseStays, SameTruth
    DEF CoreInv, TypeOK, WorkersKnow, WorkersExplain, Commands, Noisy
  <1>t. /\ pc \in [Worker -> PC] /\ job \in [Worker -> Mutant \cup {Free}]
        /\ ctx \in [Process -> {"none", "unstarted", "live", "deadline", "canceled"}]
        /\ results \in [Mutant -> Result] /\ Worker \subseteq Process /\ Main \notin Worker
    BY WorkerType DEF CoreInv, TypeOK, RunnerTypeOK
  <1>a. ASSUME results' = results PROVE NoiseExplained'
    BY <1>0, <1>a DEF NoiseExplained, Noisy
  <1>b. ASSUME NEW w \in Worker, Dispatch(w) \/ WorkerStep(w) \/ Timeout(w), Explains(w)'
        PROVE  WorkersExplain'
    <2>1. ASSUME NEW v \in Worker \ {w} PROVE Explains(v)'
      BY <1>0, <1>b, <2>1, OthersStay, FrameExplains
    <2> QED BY <1>b, <2>1 DEF WorkersExplain
  <1>c. ASSUME UNCHANGED <<pc, job, test, tested, result>>, \A w \in Worker : ctx'[w] = ctx[w]
        PROVE  WorkersExplain'
    <2>1. ASSUME NEW v \in Worker PROVE Explains(v)'
      BY <1>0, <1>c, FrameExplains
    <2> QED BY <2>1 DEF WorkersExplain
  <1>1. CASE LoadRules \/ BaselineExpire \/ AbortDispatch \/ CloseJobs \/ ReturnReport
             \/ ReturnCanceled \/ Terminated \/ UNCHANGED vars
    <2>1. UNCHANGED <<pc, job, test, tested, result, results>>
      BY <1>1 DEF LoadRules, BaselineExpire, AbortDispatch, CloseJobs, ReturnReport,
                  ReturnCanceled, Terminated, vars
    <2>2. \A w \in Worker : ctx'[w] = ctx[w]
      BY <1>1, <1>t DEF LoadRules, BaselineExpire, AbortDispatch, CloseJobs, ReturnReport,
                        ReturnCanceled, Terminated, vars, StartCommand
    <2> QED BY <1>a, <1>c, <2>1, <2>2
  <1>2. CASE ValidateBaseline
    <2>1. UNCHANGED <<job, test, tested, result, results>> /\ \A w \in Worker : ctx'[w] = ctx[w]
      BY <1>2, <1>t DEF ValidateBaseline, StartCommand, EndCommand
    <2>2. CASE UNCHANGED pc
      BY <1>a, <1>c, <2>1, <2>2
    <2>3. CASE pc' = [w \in Worker |-> "idle"]
      <3>1. \A w \in Worker : pc'[w] = "idle" /\ ctx'[w] = "none"
        BY <1>0, <1>2, <2>1, <2>3 DEF ValidateBaseline, CoreInv, BaselineFirst, Early
      <3> QED BY <1>a, <2>1, <3>1 DEF WorkersExplain, Explains
    <2> QED BY <1>2, <2>2, <2>3 DEF ValidateBaseline
  <1>3. CASE Interrupt
    <2>1. UNCHANGED <<pc, job, test, tested, result, results>> /\ cancelled'
      BY <1>3 DEF Interrupt, Cancel
    <2>2. \A w \in Worker : ctx'[w] = IF ctx[w] = "live" THEN "canceled" ELSE ctx[w]
      BY <1>3, <1>t DEF Interrupt, Cancel
    <2>3. ASSUME NEW w \in Worker PROVE Explains(w)'
      <3>1. ctx'[w] = "deadline" => ctx[w] = "deadline"
        BY <2>2
      <3> QED BY <1>0, <2>1, <3>1 DEF Explains, Exit, Noisy
    <2> QED BY <1>a, <2>1, <2>3 DEF WorkersExplain
  <1>4. ASSUME NEW w \in Worker, Dispatch(w) \/ WorkerStep(w) \/ Timeout(w)
        PROVE  WorkersExplain' /\ NoiseExplained'
    <2>1. CASE Dispatch(w)
      <3>1. pc'[w] = "prepare" /\ ctx'[w] = "none" /\ results' = results
        BY <2>1, <1>0, <1>t DEF Dispatch, Take
      <3>2. Explains(w)'
        BY <3>1 DEF Explains
      <3> QED BY <1>4, <1>a, <1>b, <3>1, <3>2
    <2>2. CASE ExecuteStep(w)
      BY <1>0, <1>4, <1>a, <1>b, <2>2, ExecuteExplains DEF ExecuteStep
    <2>3. CASE RecordResult(w)
      <3>1. pc'[w] \in {"lock", "idle"} /\ ctx'[w] = "none"
        BY <2>3, <1>0, <1>t DEF RecordResult
      <3>2. Explains(w)'
        BY <3>1 DEF Explains
      <3>3. job[w] \in Mutant /\ (result[w].status = Verdict(job[w]) \/ Noisy(job[w]))
        BY <2>3, <1>0 DEF RecordResult, Knows, Busy, Explains
      <3>4. \A m \in Mutant : results'[m] = results[m] \/ (m = job[w] /\ results'[m] = result[w])
        BY <2>3, <1>t DEF RecordResult
      <3>5. \A m \in Mutant : results'[m].status \in {"none", Verdict(m)} \/ Noisy(m)
        BY <3>3, <3>4 DEF NoiseExplained, Noisy
      <3>6. NoiseExplained'
        BY <1>0, <3>5 DEF NoiseExplained, Noisy
      <3> QED BY <1>4, <1>b, <3>2, <3>6
    <2>4. CASE LockProgress(w) \/ ReportProgress(w) \/ WorkerExit(w)
      <3>1. pc'[w] \in {"report", "idle", "exited"} /\ ctx'[w] = "none" /\ results' = results
        BY <2>4, <1>0, <1>t DEF LockProgress, ReportProgress, WorkerExit
      <3>2. Explains(w)'
        BY <3>1 DEF Explains
      <3> QED BY <1>4, <1>a, <1>b, <3>1, <3>2
    <2>5. CASE Timeout(w)
      <3>1. /\ UNCHANGED <<pc, job, test, tested, result, results, cancelled>>
            /\ ctx'[w] = "deadline" /\ ctx[w] = "live"
            /\ Exit(w) \in {"hangs", "lingers"} \/ job[w] \in disturbed'
        BY <2>5, <1>t DEF Timeout, Expire, Disturb
      <3>2. Exit(w)' = Exit(w)
        BY <3>1, <1>0 DEF Exit
      <3>3. Explains(w)'
        BY <1>0, <3>1, <3>2 DEF Explains
      <3> QED BY <1>4, <1>a, <1>b, <3>1, <3>3
    <2> QED BY <1>4, <2>1, <2>2, <2>3, <2>4, <2>5 DEF WorkerStep
  <1> QED BY <1>1, <1>2, <1>3, <1>4 DEF Next, MainStep

-----------------------------------------------------------------------------
(* Workspaces and survivor files.                                          *)

LEMMA NextWorkspaces == CoreInv /\ WorkspacesOwned /\ [Next]_vars => WorkspacesOwned'
  <1> SUFFICES ASSUME CoreInv, WorkspacesOwned, [Next]_vars PROVE WorkspacesOwned'
    OBVIOUS
  <1> USE DEF external, files, poolVars, mainVars, reportVars, runnerVars, At, Goto
  <1>0. /\ RunnerTypeOK /\ disturbed \subseteq disturbed'
        /\ pc \in [Worker -> PC] /\ job \in [Worker -> Mutant \cup {Free}]
    BY NoiseStays DEF CoreInv, TypeOK, RunnerTypeOK
  <1>a. ASSUME workspaces' = workspaces, UNCHANGED <<pc, job>> PROVE WorkspacesOwned'
    BY <1>0, <1>a DEF WorkspacesOwned
  <1>b. ASSUME NEW w \in Worker, Dispatch(w) \/ WorkerStep(w) \/ Timeout(w),
               workspaces' \subseteq workspaces \cup {job'[w]},
               pc[w] \in HasWorkspace => job'[w] = job[w],
               \/ pc'[w] \in HasWorkspace
               \/ job'[w] \notin workspaces' \/ job'[w] \in disturbed'
               \/ job'[w] \in Mutant /\ pc[w] \notin HasWorkspace /\ workspaces' = workspaces
        PROVE  WorkspacesOwned'
    <2>1. \A v \in Worker \ {w} : pc'[v] = pc[v] /\ job'[v] = job[v]
      BY <1>b, OthersStay
    <2> QED BY <1>0, <1>b, <2>1 DEF WorkspacesOwned
  <1>1. CASE LoadRules \/ BaselineExpire \/ AbortDispatch \/ CloseJobs \/ ReturnReport
             \/ ReturnCanceled \/ Interrupt \/ Terminated \/ UNCHANGED vars
    BY <1>1, <1>a DEF LoadRules, BaselineExpire, AbortDispatch, CloseJobs, ReturnReport,
                      ReturnCanceled, Interrupt, Cancel, Terminated, vars
  <1>2. CASE ValidateBaseline
    <2>1. \A w \in Worker : pc[w] \notin HasWorkspace
      BY <1>2 DEF ValidateBaseline, CoreInv, BaselineFirst, Early, HasWorkspace
    <2> QED BY <1>0, <1>2, <2>1 DEF ValidateBaseline, WorkspacesOwned
  <1>3. ASSUME NEW w \in Worker, Dispatch(w) \/ WorkerStep(w) \/ Timeout(w)
        PROVE  WorkspacesOwned'
    <2>1. CASE Dispatch(w)
      <3>1. pc[w] = "idle" /\ workspaces' = workspaces /\ next \in Mutant /\ job'[w] = next
        BY <1>0, <2>1, SizeAssumption DEF Dispatch, Take, CoreInv, TypeOK, Mutant
      <3> QED BY <1>3, <1>b, <3>1 DEF HasWorkspace
    <2>2. CASE ExecuteStep(w)
      <3>0. job' = job /\ job[w] \in Mutant
        BY <1>0, <2>2, ExecuteFrame DEF ExecuteStep, CoreInv, WorkersKnow, Knows
      <3>1. CASE PrepareWorkspace(w)
        BY <1>0, <1>3, <1>b, <3>0, <3>1 DEF PrepareWorkspace, HasWorkspace, Disturb
      <3>2. CASE CheckRules(w) \/ PrepareTest(w) \/ RunTest(w) \/ FinishTests(w)
                 \/ OpenSurvivor(w) \/ WriteSurvivor(w)
        <4>1. pc'[w] \in HasWorkspace /\ workspaces' = workspaces
          BY <1>0, <3>2 DEF CheckRules, PrepareTest, RunTest, FinishTests, OpenSurvivor,
                            WriteSurvivor, HasWorkspace
        <4> QED BY <1>3, <1>b, <3>0, <4>1
      <3>3. CASE RemoveWorkspace(w)
        BY <1>0, <1>3, <1>b, <3>0, <3>3 DEF RemoveWorkspace, Disturb
      <3> QED BY <2>2, <3>1, <3>2, <3>3 DEF ExecuteStep, Execute
    <2>3. CASE RecordResult(w) \/ LockProgress(w) \/ ReportProgress(w) \/ WorkerExit(w)
      <3>1. pc[w] \notin HasWorkspace /\ workspaces' = workspaces
        BY <2>3 DEF RecordResult, LockProgress, ReportProgress, WorkerExit, HasWorkspace
      <3>2. \A v \in Worker \ {w} : pc'[v] = pc[v] /\ job'[v] = job[v]
        BY <1>3, OthersStay
      <3> QED BY <1>0, <3>1, <3>2 DEF WorkspacesOwned
    <2>4. CASE Timeout(w)
      BY <1>a, <2>4 DEF Timeout, Expire
    <2> QED BY <1>3, <2>1, <2>2, <2>3, <2>4 DEF WorkerStep
  <1> QED BY <1>1, <1>2, <1>3 DEF Next, MainStep

LEMMA SurvivedVerdict == ASSUME NEW m, Verdict(m) = "survived" PROVE IsSurvivor(m)
  BY DEF Verdict

(* A worker writes to the file of its own mutant, a survivor, and only     *)
(* that file; a result that survives leaves Execute with its file written. *)
LEMMA ExecuteSaves ==
  ASSUME RunnerTypeOK, NEW w \in Worker, Knows(w), Execute(w),
         pc[w] \in {"open", "write"} => KeepSurvivors
  PROVE  /\ pc'[w] \in {"open", "write"} => KeepSurvivors
         /\ \A n \in Names : n # world.file[job[w]] => saved'[n] = saved[n]
         /\ saved' # saved =>
              /\ KeepSurvivors /\ IsSurvivor(job[w])
              /\ saved'[world.file[job[w]]] \in {Truncated, job[w]}
         /\ KeepSurvivors /\ pc'[w] \in {"cleanup", "record"} /\ result'[w].status = "survived" =>
              \/ saved'[world.file[job[w]]] = job[w]
              \/ pc[w] \in {"cleanup", "record"} /\ result'[w] = result[w] /\ saved' = saved
  <1> USE SizeAssumption, OptionAssumption DEF external, files, At, Goto, Conclude
  <1>0. /\ job[w] \in Mutant /\ world.file[job[w]] \in Names /\ saved \in [Names -> Contents]
        /\ pc \in [Worker -> PC] /\ result \in [Worker -> Result]
    BY ExecuteFrame DEF Knows, RunnerTypeOK, World
  <1>1. CASE PrepareWorkspace(w)
    BY <1>0, <1>1 DEF PrepareWorkspace
  <1>2. CASE CheckRules(w)
    BY <1>0, <1>2 DEF CheckRules, StatusForError
  <1>3. CASE PrepareTest(w)
    BY <1>0, <1>3 DEF PrepareTest
  <1>4. CASE RunTest(w)
    BY <1>0, <1>4 DEF RunTest, StatusForTestError
  <1>5. CASE FinishTests(w)
    BY <1>0, <1>5 DEF FinishTests
  <1>6. CASE OpenSurvivor(w)
    BY <1>0, <1>6 DEF OpenSurvivor, Knows
  <1>7. CASE WriteSurvivor(w)
    BY <1>0, <1>7 DEF WriteSurvivor, Knows
  <1>8. CASE RemoveWorkspace(w)
    BY <1>0, <1>8 DEF RemoveWorkspace
  <1> QED BY <1>1, <1>2, <1>3, <1>4, <1>5, <1>6, <1>7, <1>8 DEF Execute

LEMMA NextSurvivors ==
  CoreInv /\ SurvivorsWritten /\ OnlySurvivorsSaved /\ [Next]_vars
    => SurvivorsWritten' /\ OnlySurvivorsSaved'
  <1> SUFFICES ASSUME CoreInv, SurvivorsWritten, OnlySurvivorsSaved, [Next]_vars
               PROVE  SurvivorsWritten' /\ OnlySurvivorsSaved'
    OBVIOUS
  <1> USE DEF external, files, poolVars, mainVars, reportVars, runnerVars, At, Goto
  <1>0. /\ RunnerTypeOK /\ world' = world /\ (OwnNames' <=> OwnNames)
        /\ \A m : IsSurvivor(m)' <=> IsSurvivor(m)
        /\ \A w \in Worker : Knows(w)
    BY NoiseStays, SameTruth DEF CoreInv, TypeOK, WorkersKnow, OwnNames
  <1>t. /\ pc \in [Worker -> PC] /\ job \in [Worker -> Mutant \cup {Free}]
        /\ result \in [Worker -> Result] /\ results \in [Mutant -> Result]
        /\ saved \in [Names -> Contents] /\ \A m \in Mutant : world.file[m] \in Names
    BY DEF CoreInv, TypeOK, RunnerTypeOK, World
  <1>a. ASSUME saved' = saved PROVE OnlySurvivorsSaved'
    BY <1>0, <1>a DEF OnlySurvivorsSaved
  <1>b. ASSUME UNCHANGED <<saved, job, result, results>>,
               \A w \in Worker : pc'[w] = pc[w] \/ pc'[w] \notin {"open", "write", "cleanup", "record"}
        PROVE  SurvivorsWritten' /\ OnlySurvivorsSaved'
    BY <1>0, <1>a, <1>b DEF SurvivorsWritten
  <1>1. CASE MainStep \/ BaselineExpire \/ Interrupt \/ Terminated \/ UNCHANGED vars
    <2>1. UNCHANGED <<saved, job, result, results>>
      BY <1>1 DEF MainStep, LoadRules, ValidateBaseline, BaselineExpire, AbortDispatch, CloseJobs,
                  ReturnReport, ReturnCanceled, Interrupt, Cancel, Terminated, vars
    <2>2. pc' = pc \/ pc' = [w \in Worker |-> "idle"]
      BY <1>1 DEF MainStep, LoadRules, ValidateBaseline, BaselineExpire, AbortDispatch, CloseJobs,
                  ReturnReport, ReturnCanceled, Interrupt, Cancel, Terminated, vars
    <2> QED BY <1>b, <2>1, <2>2
  <1>2. ASSUME NEW w \in Worker, Dispatch(w) \/ WorkerStep(w) \/ Timeout(w)
        PROVE  SurvivorsWritten' /\ OnlySurvivorsSaved'
    <2>0. \A v \in Worker \ {w} : pc'[v] = pc[v] /\ job'[v] = job[v] /\ result'[v] = result[v]
      BY <1>2, OthersStay
    <2>1. CASE Dispatch(w)
      <3>1. saved' = saved /\ results' = results /\ pc'[w] = "prepare"
        BY <1>t, <2>1 DEF Dispatch, Take
      <3> QED BY <1>0, <1>a, <2>0, <3>1 DEF SurvivorsWritten
    <2>2. CASE ExecuteStep(w)
      <3> DEFINE m == job[w]
                 f == world.file[m]
      <3>1. /\ m \in Mutant /\ f \in Names /\ pc[w] \in Busy /\ job' = job /\ results' = results
            /\ results[m].status = "none"
        BY <1>0, <1>t, <2>2, ExecuteFrame DEF ExecuteStep, Knows, CoreInv, Ownership
      <3>2. /\ pc'[w] \in {"open", "write"} => KeepSurvivors
            /\ \A n \in Names : n # f => saved'[n] = saved[n]
            /\ saved' # saved => KeepSurvivors /\ IsSurvivor(m) /\ saved'[f] \in {Truncated, m}
            /\ KeepSurvivors /\ pc'[w] \in {"cleanup", "record"} /\ result'[w].status = "survived" =>
                 \/ saved'[f] = m
                 \/ pc[w] \in {"cleanup", "record"} /\ result'[w] = result[w] /\ saved' = saved
        BY <1>0, <2>2, ExecuteSaves DEF ExecuteStep, SurvivorsWritten
      <3>3. OnlySurvivorsSaved'
        <4>1. ASSUME NEW n \in Names, saved'[n] # saved[n]
              PROVE  saved'[n] \in {Truncated, m} /\ KeepSurvivors /\ IsSurvivor(m)
          BY <3>2, <4>1
        <4>2. Truncated \notin Mutant
          BY DEF Truncated, Mutant
        <4> QED BY <1>0, <4>1, <4>2 DEF OnlySurvivorsSaved
      <3>4. ASSUME KeepSurvivors, OwnNames, NEW v \in Worker, pc'[v] \in {"cleanup", "record"},
                   result'[v].status = "survived"
            PROVE  saved'[world.file[job[v]]] = job[v]
        <4>1. CASE v = w
          BY <3>2, <3>4, <4>1 DEF SurvivorsWritten
        <4>2. CASE v # w
          <5>1. /\ pc[v] \in {"cleanup", "record"} /\ result[v].status = "survived"
                /\ saved[world.file[job[v]]] = job[v] /\ job[v] \in Mutant
            BY <1>0, <2>0, <3>4, <4>2 DEF SurvivorsWritten, Knows, Busy
          <5>2. IsSurvivor(job[v])
            BY <1>0, <5>1, SurvivedVerdict DEF Knows, Honest, Scored
          <5>3. job[v] # m
            BY <3>1, <4>2, <5>1 DEF CoreInv, Ownership, Busy
          <5>4. saved' = saved \/ world.file[job[v]] # f
            BY <3>1, <3>2, <3>4, <5>1, <5>2, <5>3 DEF OwnNames
          <5> QED BY <1>t, <3>2, <5>1, <5>4
        <4> QED BY <4>1, <4>2
      <3>5. ASSUME KeepSurvivors, OwnNames, NEW k \in Mutant, results[k].status = "survived"
            PROVE  saved'[world.file[k]] = k
        <4>1. saved[world.file[k]] = k /\ k # m
          BY <3>1, <3>5 DEF SurvivorsWritten
        <4>2. IsSurvivor(k)
          BY <3>5, SurvivedVerdict DEF CoreInv, ResultsHonest, Honest, Scored
        <4>3. saved' = saved \/ world.file[k] # f
          BY <3>1, <3>2, <3>5, <4>1, <4>2 DEF OwnNames
        <4> QED BY <1>t, <3>2, <4>1, <4>3
      <3>6. \A v \in Worker : pc'[v] \in {"open", "write"} => KeepSurvivors
        BY <2>0, <3>2 DEF SurvivorsWritten
      <3> QED BY <1>0, <3>1, <3>3, <3>4, <3>5, <3>6 DEF SurvivorsWritten
    <2>3. CASE RecordResult(w)
      <3>1. /\ saved' = saved /\ pc[w] = "record" /\ pc'[w] \in {"lock", "idle"} /\ result' = result
            /\ results' = [results EXCEPT ![job[w]] = result[w]]
        BY <1>t, <2>3 DEF RecordResult
      <3>2. \A k \in Mutant : results'[k] = results[k] \/ (k = job[w] /\ results'[k] = result[w])
        BY <1>t, <3>1
      <3> QED BY <1>0, <1>a, <2>0, <3>1, <3>2 DEF SurvivorsWritten
    <2>4. CASE LockProgress(w) \/ ReportProgress(w) \/ WorkerExit(w)
      BY <1>b, <1>t, <2>4 DEF LockProgress, ReportProgress, WorkerExit
    <2>5. CASE Timeout(w)
      BY <1>b, <2>5 DEF Timeout, Expire
    <2> QED BY <1>2, <2>1, <2>2, <2>3, <2>4, <2>5 DEF WorkerStep
  <1> QED BY <1>1, <1>2 DEF Next

-----------------------------------------------------------------------------
(* The progress counter.                                                   *)

LEMMA CountedFinite ==
  /\ IsFiniteSet(Stored) /\ IsFiniteSet(Waiting)
  /\ Cardinality(Stored) \in Nat /\ Cardinality(Waiting) \in Nat
  <1>1. IsFiniteSet(Worker)
    BY SizeAssumption, FS_Interval DEF Worker
  <1> QED BY <1>1, MutantsFinite, FS_Subset, FS_CardinalityType DEF Stored, Waiting

LEMMA NextProgress == CoreInv /\ ProgressCounted /\ [Next]_vars => ProgressCounted'
  <1> SUFFICES ASSUME CoreInv, ProgressCounted, [Next]_vars PROVE ProgressCounted'
    OBVIOUS
  <1> USE DEF external, files, poolVars, mainVars, reportVars, runnerVars, At, Goto
  <1>0. RunnerTypeOK /\ \A w \in Worker : Knows(w)
    BY DEF CoreInv, TypeOK, WorkersKnow
  <1>t. /\ pc \in [Worker -> PC] /\ results \in [Mutant -> Result] /\ lock \in Worker \cup {Free}
        /\ completed \in Nat /\ shown \in Seq(Nat) /\ Worker \subseteq Nat \ {0}
    BY WorkerType DEF CoreInv, TypeOK, RunnerTypeOK
  <1>a. ASSUME UNCHANGED <<results, reportVars>>,
               \A w \in Worker : pc'[w] = pc[w] \/ {pc[w], pc'[w]} \cap {"lock", "report"} = {}
        PROVE  ProgressCounted'
    <2>1. Stored' = Stored /\ Waiting' = Waiting
      BY <1>a DEF Stored, Waiting
    <2> QED BY <1>a, <2>1 DEF ProgressCounted
  <1>1. CASE MainStep \/ BaselineExpire \/ Interrupt \/ Terminated \/ UNCHANGED vars
    <2>1. /\ UNCHANGED <<results, reportVars>>
          /\ \/ pc' = pc
             \/ main = "baseline" /\ pc' = [w \in Worker |-> "idle"]
      BY <1>1 DEF MainStep, LoadRules, ValidateBaseline, BaselineExpire, AbortDispatch, CloseJobs,
                  ReturnReport, ReturnCanceled, Interrupt, Cancel, Terminated, vars
    <2>2. main = "baseline" => \A w \in Worker : pc[w] = "unborn"
      BY DEF CoreInv, BaselineFirst, Early
    <2> QED BY <1>a, <2>1, <2>2
  <1>2. ASSUME NEW w \in Worker, Dispatch(w) \/ WorkerStep(w) \/ Timeout(w)
        PROVE  ProgressCounted'
    <2>0. \A v \in Worker \ {w} : pc'[v] = pc[v]
      BY <1>2, OthersStay
    <2>1. CASE Dispatch(w) \/ Timeout(w)
      BY <1>a, <1>t, <2>0, <2>1 DEF Dispatch, Take, Timeout, Expire
    <2>2. CASE ExecuteStep(w)
      BY <1>0, <1>a, <2>0, <2>2, ExecuteFrame DEF ExecuteStep, Busy
    <2>3. CASE WorkerExit(w)
      BY <1>a, <1>t, <2>0, <2>3 DEF WorkerExit
    <2>4. CASE RecordResult(w)
      <3>1. /\ UNCHANGED reportVars /\ pc[w] = "record" /\ job[w] \in Mutant
            /\ pc'[w] = IF Progress THEN "lock" ELSE "idle"
            /\ results[job[w]].status = "none" /\ result[w].status # "none"
            /\ results' = [results EXCEPT ![job[w]] = result[w]]
        BY <1>0, <1>t, <2>4 DEF RecordResult, Knows, Busy, CoreInv, Ownership
      <3>2. Stored' = Stored \cup {job[w]} /\ job[w] \notin Stored
        BY <1>t, <3>1 DEF Stored
      <3>3. Cardinality(Stored') = Cardinality(Stored) + 1
        BY <3>2, CountedFinite, FS_AddElement
      <3>4. Progress => Cardinality(Waiting') = Cardinality(Waiting) + 1
        <4>1. Progress => Waiting' = Waiting \cup {w} /\ w \notin Waiting
          BY <2>0, <3>1 DEF Waiting
        <4> QED BY <4>1, CountedFinite, FS_AddElement
      <3>5. \A v \in Worker : pc'[v] = "report" <=> pc[v] = "report"
        BY <2>0, <3>1
      <3>6. Progress => Cardinality(Stored') = completed' + Cardinality(Waiting')
        <4>1. completed' = completed /\ (Progress => Cardinality(Stored) = completed + Cardinality(Waiting))
          BY <3>1 DEF ProgressCounted
        <4>2. completed \in Nat /\ Cardinality(Waiting) \in Nat
          BY <1>t, CountedFinite
        <4> QED BY <3>3, <3>4, <4>1, <4>2
      <3> QED BY <3>1, <3>5, <3>6 DEF ProgressCounted
    <2>5. CASE LockProgress(w)
      <3>1. /\ pc[w] = "lock" /\ pc'[w] = "report" /\ lock = Free /\ lock' = w
            /\ completed' = completed + 1 /\ UNCHANGED <<results, shown>>
        BY <1>t, <2>5 DEF LockProgress
      <3>2. Stored' = Stored
        BY <3>1 DEF Stored
      <3>3. Cardinality(Waiting') = Cardinality(Waiting) - 1
        <4>1. Waiting' = Waiting \ {w} /\ w \in Waiting
          BY <2>0, <3>1 DEF Waiting
        <4> QED BY <4>1, CountedFinite, FS_RemoveElement
      <3>4. \A v \in Worker : pc'[v] = "report" <=> lock' = v
        BY <1>t, <2>0, <3>1 DEF ProgressCounted
      <3>5. completed' = Len(shown') + 1 /\ lock' # Free
        BY <1>t, <3>1 DEF ProgressCounted
      <3> QED BY <1>t, <3>1, <3>2, <3>3, <3>4, <3>5, CountedFinite DEF ProgressCounted
    <2>6. CASE ReportProgress(w)
      <3>1. /\ pc[w] = "report" /\ pc'[w] = "idle" /\ lock' = Free
            /\ UNCHANGED <<completed, results>> /\ shown' = Append(shown, completed)
        BY <1>t, <2>6 DEF ReportProgress
      <3>2. lock = w /\ completed = Len(shown) + 1
        BY <1>t, <3>1 DEF ProgressCounted
      <3>3. Stored' = Stored /\ Waiting' = Waiting
        BY <2>0, <3>1 DEF Stored, Waiting
      <3>4. Len(shown') = completed' /\ \A i \in DOMAIN shown' : shown'[i] = i
        BY <1>t, <3>1, <3>2 DEF ProgressCounted
      <3>5. \A v \in Worker : pc'[v] = "report" <=> lock' = v
        BY <1>t, <2>0, <3>1, <3>2 DEF ProgressCounted
      <3> QED BY <3>1, <3>3, <3>4, <3>5 DEF ProgressCounted
    <2> QED BY <1>2, <2>1, <2>2, <2>3, <2>4, <2>5, <2>6 DEF WorkerStep
  <1> QED BY <1>1, <1>2 DEF Next

-----------------------------------------------------------------------------
(* The whole invariant, and what follows from it.                          *)

LEMMA InitIInv == Init => IInv
  <1> SUFFICES ASSUME Init PROVE IInv
    OBVIOUS
  <1> USE DEF Init, RunnerInit
  <1>1. CoreInv /\ TypeOK
    BY InitCoreInv DEF CoreInv
  <1>2. WorkersExplain /\ NoiseExplained
    BY WorkerType DEF WorkersExplain, Explains, NoiseExplained, NoResult
  <1>3. WorkspacesOwned /\ SurvivorsWritten /\ OnlySurvivorsSaved
    BY DEF WorkspacesOwned, SurvivorsWritten, OnlySurvivorsSaved, NoResult, Mutant, Absent, Stale
  <1>4. ProgressCounted
    <2>1. Stored = {} /\ Waiting = {}
      BY DEF Stored, Waiting, NoResult
    <2>2. Cardinality(Stored) = 0 /\ Cardinality(Waiting) = 0
      BY <2>1, FS_EmptySet
    <2> QED BY <2>2, WorkerType DEF ProgressCounted
  <1> QED BY <1>1, <1>2, <1>3, <1>4 DEF IInv

LEMMA NextIInv == IInv /\ [Next]_vars => IInv'
  BY NextCoreInv, NextExplains, NextWorkspaces, NextSurvivors, NextProgress DEF IInv

(* Every reachable state satisfies the whole invariant: besides CoreInv,   *)
(* what explains a result, who owns a workspace, what is in the survivors  *)
(* directory and what the progress counter counts.                         *)
THEOREM Invariance == SafeSpec => []IInv
  BY InitIInv, NextIInv, PTL DEF SafeSpec

(* A result other than the undisturbed verdict has a cause: an interrupt,  *)
(* or a spurious timeout or failed file operation of that very mutant.     *)
THEOREM NoiseIsExplained == SafeSpec => []NoiseExplained
  BY Invariance, PTL DEF IInv

(* The survivors directory gains the rules of survivors only.              *)
THEOREM OnlySurvivorsAreSaved == SafeSpec => []OnlySurvivorsSaved
  BY Invariance, PTL DEF IInv

(* Survivors with file names of their own are all saved.  Without that     *)
(* premise SurvivorsSaved fails: run survivors_one_name.                   *)
THEOREM SurvivorsAreSaved == SafeSpec => [](OwnNames => SurvivorsSaved)
  <1>1. IInv => (OwnNames => SurvivorsSaved)
    BY DEF IInv, SurvivorsWritten, SurvivorsSaved
  <1> QED BY <1>1, Invariance, PTL

(* Progress is announced as 1, 2, 3, ... and reaches N.                    *)
THEOREM ProgressIsConsecutive == SafeSpec => []ProgressConsecutive
  <1>1. ASSUME IInv, main = "reported", Progress PROVE Len(shown) = N
    <2>1. /\ AllExited /\ next = N + 1 /\ \A w \in Worker : pc[w] = "exited"
          /\ lock \in Worker \cup {Free} /\ shown \in Seq(Nat)
      BY <1>1 DEF IInv, CoreInv, TypeOK, Ownership, AllExited
    <2>2. Waiting = {} /\ lock = Free
      BY <1>1, <2>1 DEF IInv, ProgressCounted, Waiting
    <2>3. Stored = Mutant
      BY <1>1, <2>1, SizeAssumption DEF IInv, CoreInv, Ownership, Stored, Busy, Mutant
    <2>4. Cardinality(Waiting) = 0 /\ Cardinality(Stored) = N
      BY <2>2, <2>3, FS_EmptySet, MutantsFinite
    <2> QED BY <1>1, <2>1, <2>2, <2>4, SizeAssumption DEF IInv, ProgressCounted
  <1>2. IInv => ProgressConsecutive
    BY <1>1 DEF IInv, ProgressCounted, ProgressConsecutive
  <1> QED BY <1>2, Invariance, PTL

(* Run leaves no worker, command or lock behind, and no workspace whose    *)
(* removal did not fail.                                                   *)
THEOREM NothingIsLeft == SafeSpec => []NothingOutlivesRun
  <1>1. ASSUME IInv, main \in Final
        PROVE  /\ \A w \in Worker : pc[w] \in {"unborn", "exited"}
               /\ \A p \in Process : ctx[p] = "none"
               /\ lock = Free
               /\ workspaces \subseteq disturbed
    <2>1. \A w \in Worker : pc[w] \in {"unborn", "exited"}
      BY <1>1 DEF IInv, CoreInv, BaselineFirst, Early, Ownership, AllExited, Final
    <2>2. ctx[Main] = "none" /\ \A w \in Worker : ctx[w] = "none"
      BY <1>1, <2>1 DEF IInv, CoreInv, Commands, Final
    <2>3. lock = Free
      BY <1>1, <2>1 DEF IInv, CoreInv, TypeOK, ProgressCounted
    <2>4. workspaces \subseteq disturbed
      BY <1>1, <2>1 DEF IInv, WorkspacesOwned, HasWorkspace
    <2> QED BY <2>1, <2>2, <2>3, <2>4 DEF Process
  <1>2. IInv => NothingOutlivesRun
    BY <1>1 DEF NothingOutlivesRun
  <1> QED BY <1>2, Invariance, PTL

LEMMA DisjointUnion ==
  ASSUME NEW A, NEW B, IsFiniteSet(A), IsFiniteSet(B), A \cap B = {}
  PROVE  IsFiniteSet(A \cup B) /\ Cardinality(A \cup B) = Cardinality(A) + Cardinality(B)
  <1>1. Cardinality(A \cap B) = 0
    BY FS_EmptySet
  <1> QED BY <1>1, FS_Union, FS_CardinalityType

(* The four counters of a summary count every mutant once.                 *)
LEMMA SummaryAddsUp ==
  ASSUME TypeOK
  PROVE  LET s == Summarize IN s.killed + s.survived + s.timeouts + s.errors = N
  <1> DEFINE K == {m \in Mutant : results[m].status = "killed"}
             S == {m \in Mutant : results[m].status = "survived"}
             H == {m \in Mutant : results[m].status = "timeout"}
             E == {m \in Mutant : results[m].status \notin {"killed", "survived", "timeout"}}
  <1>1. IsFiniteSet(K) /\ IsFiniteSet(S) /\ IsFiniteSet(H) /\ IsFiniteSet(E)
    BY MutantsFinite, FS_Subset
  <1>2. Cardinality(K) \in Nat /\ Cardinality(S) \in Nat /\ Cardinality(H) \in Nat
        /\ Cardinality(E) \in Nat
    BY <1>1, FS_CardinalityType
  <1>3. K \cap S = {} /\ (K \cup S) \cap H = {} /\ (K \cup S \cup H) \cap E = {}
        /\ K \cup S \cup H \cup E = Mutant
    OBVIOUS
  <1>4. /\ Summarize.killed = Cardinality(K) /\ Summarize.survived = Cardinality(S)
        /\ Summarize.timeouts = Cardinality(H) /\ Summarize.errors = Cardinality(E)
    BY DEF Summarize, Counted
  <1> HIDE DEF K, S, H, E
  <1>5. IsFiniteSet(K \cup S) /\ Cardinality(K \cup S) = Cardinality(K) + Cardinality(S)
    BY <1>1, <1>3, DisjointUnion
  <1>6. /\ IsFiniteSet(K \cup S \cup H)
        /\ Cardinality(K \cup S \cup H) = Cardinality(K \cup S) + Cardinality(H)
    BY <1>1, <1>3, <1>5, DisjointUnion
  <1>7. Cardinality(K \cup S \cup H \cup E) = Cardinality(K \cup S \cup H) + Cardinality(E)
    BY <1>1, <1>3, <1>6, DisjointUnion
  <1> QED BY <1>2, <1>3, <1>4, <1>5, <1>6, <1>7, MutantsFinite

(* A report has a result of every mutant and counts each once, and the     *)
(* gate of an undisturbed campaign depends on the rules and tests alone.   *)
THEOREM ReportsAreComplete == SafeSpec => []ReportComplete
  <1>1. ASSUME IInv, main = "reported"
        PROVE  /\ \A m \in Mutant : results[m].status # "none"
               /\ summary.killed + summary.survived + summary.timeouts + summary.errors = N
               /\ disturbed = {} /\ ~cancelled => (summary.passed <=> TrueGate)
    <2>1. /\ TypeOK /\ AllExited /\ next = N + 1 /\ summary = Summarize
      BY <1>1 DEF IInv, CoreInv, Ownership
    <2>2. \A m \in Mutant : results[m].status # "none"
      BY <1>1, <2>1, SizeAssumption DEF IInv, CoreInv, Ownership, AllExited, Busy, Mutant
    <2>3. summary.killed + summary.survived + summary.timeouts + summary.errors = N
      BY <2>1, SummaryAddsUp
    <2>4. ASSUME disturbed = {}, ~cancelled PROVE summary.passed <=> TrueGate
      <3>1. \A m \in Mutant : results[m].status = Verdict(m)
        BY <1>1, <2>2, <2>4 DEF IInv, NoiseExplained
      <3>2. {m \in Mutant : results[m].status = "killed"} = {m \in Mutant : Verdict(m) = "killed"}
        BY <3>1
      <3> QED BY <2>1, <3>1, <3>2, GatePasses DEF TrueGate, TrueKills
    <2> QED BY <2>2, <2>3, <2>4
  <1>2. IInv => ReportComplete
    BY <1>1 DEF ReportComplete
  <1> QED BY <1>2, Invariance, PTL
=============================================================================
