------------------------------ MODULE Campaign ------------------------------
(***************************************************************************)
(* internal/campaign/campaign.go: Run, the pool that executes every        *)
(* selected mutant and reports whether the quality gate passed.            *)
(*                                                                         *)
(* The calling goroutine (Main) loads the rules, validates the baseline,   *)
(* and offers the mutants one by one on an unbuffered channel while it     *)
(* listens for cancellation; workers receive them, execute them (module    *)
(* Runner), store the result at the mutant's index and report progress     *)
(* under a mutex.  Run returns after every worker has exited.              *)
(***************************************************************************)
EXTENDS Runner, Sequences

CONSTANTS
  Progress,            (* options.Progress # nil                           *)
  MeetsThreshold(_, _) (* (killed, scorable): summary.Score >= threshold   *)

ASSUME ProgressAssumption == Progress \in BOOLEAN
ASSUME ThresholdAssumption ==
  \A k, s \in 0..N : MeetsThreshold(k, s) \in BOOLEAN

VARIABLES
  main,      (* where Run is                                               *)
  step,      (* the promtool command of the baseline phase                 *)
  next,      (* the mutant Run offers on the channel                       *)
  results,   (* the results slice                                          *)
  lock,      (* holder of the progress mutex, or Free                      *)
  completed, (* the shared counter                                         *)
  shown,     (* history: the counter at each call of options.Progress      *)
  summary    (* domain.Summary of the report                               *)

mainVars   == <<main, step, next>>
reportVars == <<lock, completed, shown>>
poolVars   == <<main, step, next, results, lock, completed, shown, summary>>
vars       == <<runnerVars, poolVars>>

MainPC   == {"load", "baseline", "dispatch", "aborting", "draining",
             "failed", "canceled", "reported"}
Final    == {"failed", "canceled", "reported"}
NoSummary == [killed |-> 0, survived |-> 0, timeouts |-> 0, errors |-> 0,
              passed |-> FALSE]
Summary   == [killed : 0..N, survived : 0..N, timeouts : 0..N, errors : 0..N,
              passed : BOOLEAN]

Init ==
  /\ RunnerInit
  /\ main = "load" /\ step = 1 /\ next = 1
  /\ results = [m \in Mutant |-> NoResult]
  /\ lock = Free /\ completed = 0 /\ shown = <<>>
  /\ summary = NoSummary

-----------------------------------------------------------------------------
(* The calling goroutine.                                                  *)

(* Resolve, load, generate and filter; an unreadable rule file or an empty *)
(* selection ends the campaign.  Otherwise the first command starts.       *)
LoadRules ==
  /\ main = "load"
  /\ \/ main' = "baseline" /\ StartCommand(Main)
     \/ main' = "failed" /\ UNCHANGED ctx
  /\ UNCHANGED <<external, disturbed, pc, job, test, tested, result, files>>
  /\ UNCHANGED <<step, next, results, reportVars, summary>>

(* Mutant: the last test file is not run on the original rules.            *)
LastCommandMissed == R + T

(* --version, then every rule file, then every test file.                  *)
LastCommand == 1 + R + T

(* Version and ValidateBaseline: every command must succeed before any     *)
(* worker is launched.                                                     *)
ValidateBaseline ==
  /\ main = "baseline"
  /\ \E returned \in Returned(Main, world.baseline[step]) :
       \/ /\ returned # "pass"
          /\ main' = "failed"
          /\ EndCommand(Main)
          /\ UNCHANGED <<step, pc>>
       \/ /\ returned = "pass" /\ step < LastCommand
          /\ step' = step + 1
          /\ StartCommand(Main)
          /\ UNCHANGED <<main, pc>>
       \/ /\ returned = "pass" /\ step = LastCommand
          /\ main' = "dispatch"
          /\ pc' = [w \in Worker |-> "idle"]
          /\ EndCommand(Main)
          /\ UNCHANGED step
  /\ UNCHANGED <<external, disturbed, job, test, tested, result, files>>
  /\ UNCHANGED <<next, results, reportVars, summary>>

BaselineExpire ==
  /\ ctx[Main] = "live"
  /\ ctx' = [ctx EXCEPT ![Main] = "deadline"]
  /\ UNCHANGED <<external, disturbed, pc, job, test, tested, result, files>>
  /\ UNCHANGED poolVars

(* The two cases of the select: the mutant is handed to a worker that      *)
(* waits on the channel, or the cancelled context stops the loop.  When    *)
(* both are ready Go chooses either.                                       *)
Dispatch(w) ==
  /\ main = "dispatch" /\ next <= N
  /\ Take(w, next)
  /\ next' = next + 1
  /\ UNCHANGED <<main, step, results, reportVars, summary>>

AbortDispatch ==
  /\ main = "dispatch" /\ next <= N /\ cancelled
  /\ main' = "aborting"
  /\ UNCHANGED <<step, next, results, reportVars, summary, runnerVars>>

(* Mutant: the loop ends one mutant early.                                 *)
CloseJobsEarly ==
  /\ main = "dispatch" /\ next >= N
  /\ main' = "draining"
  /\ UNCHANGED <<step, next, results, reportVars, summary, runnerVars>>

CloseJobs ==
  /\ main = "dispatch" /\ next = N + 1
  /\ main' = "draining"
  /\ UNCHANGED <<step, next, results, reportVars, summary, runnerVars>>

(* summarize: a status that is neither scored nor a timeout is an error.   *)
Counted(s) == Cardinality({m \in Mutant : results[m].status = s})

(* Mutant: timeouts do not fail the gate.                                  *)
PassesDespiteTimeouts(killed, survived, timeouts, errors) ==
  MeetsThreshold(killed, killed + survived) /\ errors = 0

Passes(killed, survived, timeouts, errors) ==
  MeetsThreshold(killed, killed + survived) /\ errors = 0 /\ timeouts = 0

Summarize ==
  LET killed   == Counted("killed")
      survived == Counted("survived")
      timeouts == Counted("timeout")
      errors   == Cardinality({m \in Mutant :
                    results[m].status \notin {"killed", "survived", "timeout"}})
  IN  [killed |-> killed, survived |-> survived, timeouts |-> timeouts,
       errors |-> errors,
       passed |-> Passes(killed, survived, timeouts, errors)]

(* Mutant: Wait returns when the first worker is done.                     *)
AnyExited == \E w \in Worker : pc[w] = "exited"

(* workers.Wait, then the end of Run on either path.                       *)
AllExited == \A w \in Worker : pc[w] = "exited"

ReturnReport ==
  /\ main = "draining" /\ AllExited
  /\ main' = "reported"
  /\ summary' = Summarize
  /\ UNCHANGED <<step, next, results, reportVars, runnerVars>>

ReturnCanceled ==
  /\ main = "aborting" /\ AllExited
  /\ main' = "canceled"
  /\ UNCHANGED <<step, next, results, reportVars, summary, runnerVars>>

-----------------------------------------------------------------------------
(* The loop of a worker around Execute.                                    *)

ExecuteStep(w) == Execute(w) /\ UNCHANGED poolVars

(* Mutant: results are appended in the order of completion.                *)
RecordResultInOrder(w) ==
  /\ At(w, "record") /\ Goto(w, IF Progress THEN "lock" ELSE "idle")
  /\ results' = [results EXCEPT ![completed + 1] = result[w]]
  /\ job' = [job EXCEPT ![w] = Free]
  /\ UNCHANGED <<external, disturbed, test, tested, result, ctx, files>>
  /\ UNCHANGED <<mainVars, reportVars, summary>>

RecordResult(w) ==
  /\ At(w, "record") /\ Goto(w, IF Progress THEN "lock" ELSE "idle")
  /\ results' = [results EXCEPT ![job[w]] = result[w]]
  /\ job' = [job EXCEPT ![w] = Free]
  /\ UNCHANGED <<external, disturbed, test, tested, result, ctx, files>>
  /\ UNCHANGED <<mainVars, reportVars, summary>>

(* Mutant: the counter is not guarded by the mutex.                        *)
LockProgressUnguarded(w) ==
  /\ At(w, "lock") /\ Goto(w, "report")
  /\ completed' = completed + 1
  /\ UNCHANGED <<external, disturbed, job, test, tested, result, ctx, files>>
  /\ UNCHANGED <<mainVars, results, lock, shown, summary>>

LockProgress(w) ==
  /\ At(w, "lock") /\ lock = Free
  /\ Goto(w, "report")
  /\ lock' = w
  /\ completed' = completed + 1
  /\ UNCHANGED <<external, disturbed, job, test, tested, result, ctx, files>>
  /\ UNCHANGED <<mainVars, results, shown, summary>>

ReportProgress(w) ==
  /\ At(w, "report") /\ Goto(w, "idle")
  /\ shown' = Append(shown, completed)
  /\ lock' = Free
  /\ UNCHANGED <<external, disturbed, job, test, tested, result, ctx, files>>
  /\ UNCHANGED <<mainVars, results, completed, summary>>

(* The closed and drained channel ends the worker's range loop.            *)
WorkerExit(w) ==
  /\ main \in {"aborting", "draining"}
  /\ At(w, "idle") /\ Goto(w, "exited")
  /\ UNCHANGED <<external, disturbed, job, test, tested, result, ctx, files>>
  /\ UNCHANGED poolVars

-----------------------------------------------------------------------------
Interrupt == main \notin Final /\ Cancel /\ UNCHANGED poolVars

Timeout(w) == Expire(w) /\ UNCHANGED poolVars

(* Run has returned.                                                       *)
Terminated == main \in Final /\ UNCHANGED vars

MainStep == \/ LoadRules \/ ValidateBaseline \/ AbortDispatch \/ CloseJobs
            \/ ReturnReport \/ ReturnCanceled

WorkerStep(w) == \/ ExecuteStep(w) \/ RecordResult(w) \/ LockProgress(w)
                 \/ ReportProgress(w) \/ WorkerExit(w)

Next ==
  \/ MainStep \/ BaselineExpire \/ Interrupt \/ Terminated
  \/ \E w \in Worker : Dispatch(w) \/ WorkerStep(w) \/ Timeout(w)

(* Goroutines that can run do run, timers fire, and the select of Run does *)
(* not starve.  Nobody has to interrupt the campaign.                      *)
Fairness ==
  /\ WF_vars(MainStep) /\ WF_vars(BaselineExpire)
  /\ WF_vars(\E w \in Worker : Dispatch(w))
  /\ \A w \in Worker : WF_vars(WorkerStep(w)) /\ WF_vars(Timeout(w))

SafeSpec == Init /\ [][Next]_vars
Spec     == SafeSpec /\ Fairness

-----------------------------------------------------------------------------
(* Properties.                                                             *)

(* Every variable keeps its type.                                          *)
TypeOK ==
  /\ RunnerTypeOK
  /\ main \in MainPC /\ step \in Baseline /\ next \in 1..(N + 1)
  /\ results \in [Mutant -> Result]
  /\ lock \in Worker \cup {Free}
  /\ completed \in Nat /\ shown \in Seq(Nat)
  /\ summary \in Summary

(* A mutant recorded as killed or survived is one that promtool, asked     *)
(* alone and undisturbed, kills or lets survive: timeouts, interrupts, IO  *)
(* errors, test execution errors, skipped test files and the worker's own  *)
(* earlier mutants never turn into a score.                                *)
VerdictsExact ==
  \A m \in Mutant : results[m].status \in Scored => results[m].status = Verdict(m)

(* A result that differs from the undisturbed one has a cause: the mutant  *)
(* met a spurious timeout or an IO error, or the campaign was interrupted. *)
NoiseExplained ==
  \A m \in Mutant : results[m].status \notin {"none", Verdict(m)}
                      => cancelled \/ m \in disturbed

(* A kill blames a test file whose original passed the baseline, that      *)
(* failed an assertion on the mutant, and before which no test file did.   *)
KillsAttributable ==
  \A m \in Mutant : results[m].status = "killed" =>
    LET t == results[m].test IN
      /\ t \in Test /\ EndsAt(m, t) /\ world.run[m][t] = "assertion"
      /\ world.baseline[1 + R + t] = "pass"

TrueKills == Cardinality({m \in Mutant : Verdict(m) = "killed"})
TrueGate  == /\ \A m \in Mutant : Verdict(m) \in Scored
             /\ MeetsThreshold(TrueKills, N)

(* The gate passes only when the rules and tests deserve it: the original  *)
(* tests pass, every mutant has a score and the true kills meet the        *)
(* threshold.  No timeout, error or interrupt can make a gate pass.        *)
PassIsEarned ==
  main = "reported" /\ summary.passed => BaselineOK /\ TrueGate

(* A report holds a result of every selected mutant, each counted once;    *)
(* left undisturbed, its gate is a function of the rules and tests: the    *)
(* number of workers and their interleaving do not show.                   *)
ReportComplete ==
  main = "reported" =>
    /\ \A m \in Mutant : results[m].status # "none"
    /\ summary.killed + summary.survived + summary.timeouts + summary.errors = N
    /\ disturbed = {} /\ ~cancelled => (summary.passed <=> TrueGate)

(* When Run returns, on any path, no worker, command or lock is left, and  *)
(* only a failed removal leaves a workspace behind.                        *)
NothingOutlivesRun ==
  main \in Final =>
    /\ \A w \in Worker : pc[w] \in {"unborn", "exited"}
    /\ \A p \in Process : ctx[p] = "none"
    /\ lock = Free
    /\ workspaces \subseteq disturbed

(* Progress is announced as 1, 2, 3, ... up to the number of mutants,      *)
(* without a repetition or a gap, whatever the workers' order.             *)
ProgressConsecutive ==
  /\ \A i \in DOMAIN shown : shown[i] = i
  /\ main = "reported" /\ Progress => Len(shown) = N

(* When a campaign with a survivors directory reports, the rules of every  *)
(* survivor are in the file persistSurvivor named after it.                *)
SurvivorsSaved ==
  main = "reported" /\ KeepSurvivors =>
    \A m \in Mutant :
      results[m].status = "survived" => saved[world.file[m]] = m

(* The directory never gains the rules of a mutant the tests caught or     *)
(* could not judge, and without the option it is left alone.               *)
OnlySurvivorsSaved ==
  \A n \in Names :
    /\ saved[n] \in Mutant => IsSurvivor(saved[n])
    /\ saved[n] \notin {Absent, Stale} => KeepSurvivors

(* Run returns: no lock, channel, hung promtool or interrupt keeps it.     *)
Terminates == <>(main \in Final)

(* docs/architecture.md:172: each command has its own deadline, and        *)
(* cancellation propagates.  A command whose context is over ends.         *)
ContextEndsCommand ==
  \A p \in Process : ctx[p] \in {"deadline", "canceled"} ~> ctx[p] \in {"none", "live"}

-----------------------------------------------------------------------------
(* The contract: what Run promises, whatever its workers do.               *)

Outcome ==
  CASE main \in {"failed", "canceled"}           -> "refused"
    [] main = "reported" /\ summary.passed       -> "passed"
    [] main = "reported" /\ ~summary.passed      -> "gated"
    [] OTHER                                     -> "open"

Contract == INSTANCE CampaignContract
              WITH verdicts <- [m \in Mutant |-> results[m].status],
                   outcome  <- Outcome,
                   truth    <- [m \in Mutant |-> Verdict(m)],
                   sound    <- BaselineOK

(* Run implements the contract of module CampaignContract.                 *)
ImplementsContract == Contract!Spec
=============================================================================
