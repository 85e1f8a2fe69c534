------------------------------- MODULE Runner -------------------------------
(***************************************************************************)
(* internal/promtool/runner.go: the execution of one mutant by one worker. *)
(*                                                                         *)
(* A worker renders the mutant into a temporary workspace, lets promtool   *)
(* check the rendered rules, runs every test file that references the      *)
(* mutated rule file until one fails, and classifies what it saw.  Every   *)
(* promtool command runs under its own deadline and under the campaign's   *)
(* context, which an interrupt cancels.  Module Campaign dispatches the    *)
(* mutants to the workers and collects their results.                      *)
(*                                                                         *)
(* promtool itself is external.  What it would answer to each command is   *)
(* the ground truth `world', chosen once in Init and never changed: the    *)
(* answers depend on the mutant and the test file, never on the worker,    *)
(* the order or the time.  Slow commands and failing file operations are   *)
(* separate, nondeterministic disturbances.                                *)
(***************************************************************************)
EXTENDS Integers, FiniteSets

CONSTANTS
  N,             (* mutants selected for the campaign                      *)
  Workers,       (* options.Workers, after the CPU-based default           *)
  T,             (* test files, in the sorted order of absolutePaths       *)
  R,             (* rule files                                             *)
  Names,         (* file names persistSurvivor can build                   *)
  Worlds,        (* the ground truths to start from                        *)
  KeepSurvivors, (* survivorsDir # ""                                      *)
  LeftOver,      (* names already in the survivors directory               *)
  MaxFaults      (* bound: how many mutants may be disturbed               *)

Mutant   == 1..N
Worker   == 1..(IF Workers <= N THEN Workers ELSE N)
Test     == 1..T
Baseline == 1..(1 + R + T)   (* --version, check rules.., test rules..     *)
Main     == 0                (* the goroutine of campaign.Run              *)
Process  == Worker \cup {Main}
Free     == 0                (* no job                                     *)

(* How promtool ends: "hangs" is a command that ends only when killed,     *)
(* "lingers" one that, killed or not, leaves a child with the output pipe: *)
(* promtool may be a wrapper script.  Of a test command, "assertion" is an *)
(* exit with failed assertions only, "execution" one with test execution   *)
(* errors, "both" one with either, and "silent" one whose JUnit file is    *)
(* missing, malformed or reports neither.  "unrelated" and "unusable" are  *)
(* test files that do not reference the mutated rule file, or that         *)
(* prepareTestFile cannot rewrite.                                         *)
CheckExit == {"pass", "fails", "hangs", "lingers"}
TestExit  == {"pass", "assertion", "execution", "both", "silent", "hangs",
              "lingers", "unrelated", "unusable"}
World     == [check    : [Mutant -> CheckExit],
              run      : [Mutant -> [Test -> TestExit]],
              file     : [Mutant -> Names],
              baseline : [Baseline -> CheckExit]]

ASSUME SizeAssumption  == /\ N \in Nat \ {0} /\ Workers \in Nat \ {0}
                          /\ T \in Nat \ {0} /\ R \in Nat \ {0}
ASSUME WorldAssumption == Worlds \subseteq World
ASSUME OptionAssumption == /\ KeepSurvivors \in BOOLEAN /\ MaxFaults \in Nat
                           /\ LeftOver \subseteq Names

Status   == {"none", "killed", "survived", "timeout", "error"}
Scored   == {"killed", "survived"}
NoResult == [status |-> "none", test |-> 0]
Result   == [status : Status, test : Test \cup {0}]

(* Contents of a survivor file: a mutant, or one of these.                 *)
Absent    == -2
Stale     == -1   (* left in the directory by an earlier campaign          *)
Truncated == 0
Contents  == Mutant \cup {Absent, Stale, Truncated}

VARIABLES
  world,      (* what promtool answers: external, constant                 *)
  cancelled,  (* ctx.Err() of the campaign context                         *)
  disturbed,  (* history: mutants that met a spurious timeout or IO error  *)
  pc, job,    (* where each worker is, and its mutant                      *)
  test,       (* index of its test loop                                    *)
  tested,     (* its `tested' flag                                         *)
  result,     (* its domain.Result so far                                  *)
  ctx,        (* context of the running command of each process            *)
  workspaces, (* mutants whose temporary directory exists                  *)
  saved       (* the survivors directory                                   *)

external   == <<world, cancelled>>
files      == <<workspaces, saved>>
runnerVars == <<world, cancelled, disturbed, pc, job, test, tested, result,
                ctx, workspaces, saved>>

PC == {"unborn", "idle", "prepare", "check", "tests", "testing", "open",
       "write", "cleanup", "record", "lock", "report", "exited"}

RunnerTypeOK ==
  /\ world \in World
  /\ cancelled \in BOOLEAN
  /\ disturbed \in SUBSET Mutant
  /\ pc \in [Worker -> PC]
  /\ job \in [Worker -> Mutant \cup {Free}]
  /\ test \in [Worker -> 1..(T + 1)]
  /\ tested \in [Worker -> BOOLEAN]
  /\ result \in [Worker -> Result]
  /\ ctx \in [Process -> {"none", "unstarted", "live", "deadline", "canceled"}]
  /\ workspaces \in SUBSET Mutant
  /\ saved \in [Names -> Contents]

RunnerInit ==
  /\ world \in Worlds
  /\ cancelled = FALSE
  /\ disturbed = {}
  /\ pc = [w \in Worker |-> "unborn"]
  /\ job = [w \in Worker |-> Free]
  /\ test = [w \in Worker |-> 1]
  /\ tested = [w \in Worker |-> FALSE]
  /\ result = [w \in Worker |-> NoResult]
  /\ ctx = [p \in Process |-> "none"]
  /\ workspaces = {}
  /\ saved = [n \in Names |-> IF n \in LeftOver THEN Stale ELSE Absent]

-----------------------------------------------------------------------------
(* The contexts of the commands.                                           *)

MayDisturb(m) == m \in disturbed \/ Cardinality(disturbed) < MaxFaults
Disturb(w)    == MayDisturb(job[w]) /\ disturbed' = disturbed \cup {job[w]}

(* context.WithTimeout(parent, r.Timeout), then exec.Cmd.Start, which      *)
(* starts no process when the parent is cancelled already.                 *)
NewContext == IF cancelled THEN "unstarted" ELSE "live"
StartCommand(p) == ctx' = [ctx EXCEPT ![p] = NewContext]
EndCommand(p)   == ctx' = [ctx EXCEPT ![p] = "none"]

(* What command() returns for a promtool that would end with `exit': the   *)
(* first error of the context if it has one, whatever promtool did.  A     *)
(* promtool that hangs does not return before its context ends.  Run waits *)
(* for the end of the output, and no WaitDelay bounds that wait once the   *)
(* process has started.                                                    *)
Returned(p, exit) ==
  IF ctx[p] = "unstarted" THEN {"canceled"}
  ELSE IF exit = "lingers" THEN {}
  ELSE IF ctx[p] # "live" THEN {ctx[p]} ELSE {exit} \ {"hangs"}

Cancel ==
  /\ ~cancelled
  /\ cancelled' = TRUE
  /\ ctx' = [p \in Process |->
               IF ctx[p] = "live" THEN "canceled" ELSE ctx[p]]
  /\ UNCHANGED <<world, disturbed, pc, job, test, tested, result, files>>

Exit(w) == IF pc[w] = "check" THEN world.check[job[w]]
                              ELSE world.run[job[w]][test[w]]

(* Mutant: no timer ends a command that hangs.                             *)
ExpireSlowOnly(w) ==
  /\ ctx[w] = "live" /\ Exit(w) # "hangs"
  /\ ctx' = [ctx EXCEPT ![w] = "deadline"]
  /\ Disturb(w)
  /\ UNCHANGED <<external, pc, job, test, tested, result, files>>

(* The deadline of a worker's command passes: that of a hung command, or   *)
(* of one that is merely slow.                                             *)
Expire(w) ==
  /\ ctx[w] = "live"
  /\ ctx' = [ctx EXCEPT ![w] = "deadline"]
  /\ \/ Exit(w) \in {"hangs", "lingers"} /\ UNCHANGED disturbed
     \/ Exit(w) \notin {"hangs", "lingers"} /\ Disturb(w)
  /\ UNCHANGED <<external, pc, job, test, tested, result, files>>

-----------------------------------------------------------------------------
(* Execute, step by step.                                                  *)

At(w, from) == pc[w] = from
Goto(w, to) == pc' = [pc EXCEPT ![w] = to]

(* result.Status = s; result.TestFile = testFiles[t]; return result        *)
Conclude(w, s, t) ==
  result' = [result EXCEPT ![w] = [status |-> s, test |-> t]]

(* Mutant: `tested' is not reset for the next mutant.                      *)
TakeStale(w, m) ==
  /\ At(w, "idle")
  /\ Goto(w, "prepare")
  /\ job' = [job EXCEPT ![w] = m]
  /\ test' = [test EXCEPT ![w] = 1]
  /\ result' = [result EXCEPT ![w] = NoResult]
  /\ UNCHANGED <<external, disturbed, tested, ctx, files>>

(* A worker receives a mutant from the jobs channel and calls Execute.     *)
Take(w, m) ==
  /\ At(w, "idle")
  /\ Goto(w, "prepare")
  /\ job' = [job EXCEPT ![w] = m]
  /\ test' = [test EXCEPT ![w] = 1]
  /\ tested' = [tested EXCEPT ![w] = FALSE]
  /\ result' = [result EXCEPT ![w] = NoResult]
  /\ UNCHANGED <<external, disturbed, ctx, files>>

(* MkdirTemp, Render and WriteFile: the first failure is the result, and   *)
(* only a workspace that was created is removed later.                     *)
PrepareWorkspace(w) ==
  /\ At(w, "prepare")
  /\ UNCHANGED <<external, job, test, tested, saved>>
  /\ \/ /\ Goto(w, "check")
        /\ workspaces' = workspaces \cup {job[w]}
        /\ StartCommand(w)
        /\ UNCHANGED <<disturbed, result>>
     \/ /\ Goto(w, "record")
        /\ Disturb(w) /\ Conclude(w, "error", 0)
        /\ UNCHANGED <<ctx, workspaces>>
     \/ /\ Goto(w, "cleanup")
        /\ workspaces' = workspaces \cup {job[w]}
        /\ Disturb(w) /\ Conclude(w, "error", 0)
        /\ UNCHANGED ctx

(* Mutant: a passed deadline is an error like any other.                   *)
StatusForErrorUniform(returned) == "error"

StatusForError(returned) ==
  IF returned = "deadline" THEN "timeout" ELSE "error"

(* `promtool check rules' on the mutated rules.                            *)
CheckRules(w) ==
  /\ At(w, "check")
  /\ EndCommand(w)
  /\ \E returned \in Returned(w, world.check[job[w]]) :
       \/ /\ returned = "pass"
          /\ Goto(w, "tests")
          /\ UNCHANGED result
       \/ /\ returned # "pass"
          /\ Goto(w, "cleanup")
          /\ Conclude(w, StatusForError(returned), 0)
  /\ UNCHANGED <<external, disturbed, job, test, tested, files>>

(* prepareTestFile for the next test file; one that does not reference the *)
(* mutated rule file is skipped.                                           *)
PrepareTest(w) ==
  /\ At(w, "tests")
  /\ test[w] \in Test
  /\ LET found == world.run[job[w]][test[w]] IN
     \/ /\ found = "unrelated"
        /\ UNCHANGED pc
        /\ test' = [test EXCEPT ![w] = @ + 1]
        /\ UNCHANGED <<disturbed, tested, result, ctx>>
     \/ /\ found \notin {"unrelated", "unusable"}
        /\ Goto(w, "testing")
        /\ tested' = [tested EXCEPT ![w] = TRUE]
        /\ StartCommand(w)
        /\ UNCHANGED <<disturbed, test, result>>
     \/ /\ Goto(w, "cleanup")
        /\ \/ found = "unusable" /\ UNCHANGED disturbed
           \/ found # "unusable" /\ Disturb(w)
        /\ Conclude(w, "error", test[w])
        /\ UNCHANGED <<test, tested, ctx>>
  /\ UNCHANGED <<external, job, files>>

(* Mutant: failed assertions kill although tests could not be executed.    *)
StatusForTestErrorLax(returned) ==
  IF returned = "deadline" THEN "timeout"
  ELSE IF returned \in {"assertion", "both"} THEN "killed" ELSE "error"

(* Only an exit with failed assertions and no execution error is a kill.   *)
StatusForTestError(returned) ==
  IF returned = "deadline" THEN "timeout"
  ELSE IF returned = "assertion" THEN "killed" ELSE "error"

(* `promtool test rules' on the prepared test file: the first failure ends *)
(* the loop.                                                               *)
RunTest(w) ==
  /\ At(w, "testing")
  /\ EndCommand(w)
  /\ \E returned \in Returned(w, world.run[job[w]][test[w]]) :
       \/ /\ returned = "pass"
          /\ Goto(w, "tests")
          /\ test' = [test EXCEPT ![w] = @ + 1]
          /\ UNCHANGED result
       \/ /\ returned # "pass"
          /\ Goto(w, "cleanup")
          /\ Conclude(w, StatusForTestError(returned), test[w])
          /\ UNCHANGED test
  /\ UNCHANGED <<external, disturbed, job, tested, files>>

(* The loop is over: no test file was run, or every one that was passed.   *)
FinishTests(w) ==
  /\ At(w, "tests")
  /\ test[w] = T + 1
  /\ \/ /\ ~tested[w]
        /\ Goto(w, "cleanup")
        /\ Conclude(w, "error", 0)
     \/ /\ tested[w]
        /\ Goto(w, IF KeepSurvivors THEN "open" ELSE "cleanup")
        /\ Conclude(w, "survived", 0)
  /\ UNCHANGED <<external, disturbed, job, test, tested, ctx, files>>

(* persistSurvivor: os.WriteFile truncates the file, then writes it; a     *)
(* failure turns the survivor into an error and leaves what was written.   *)
OpenSurvivor(w) ==
  /\ At(w, "open")
  /\ \/ /\ Goto(w, "write")
        /\ saved' = [saved EXCEPT ![world.file[job[w]]] = Truncated]
        /\ UNCHANGED <<disturbed, result>>
     \/ /\ Goto(w, "cleanup")
        /\ Disturb(w) /\ Conclude(w, "error", 0)
        /\ UNCHANGED saved
  /\ UNCHANGED <<external, job, test, tested, ctx, workspaces>>

(* Mutant: the error of a failed write is dropped.                         *)
WriteSurvivorQuietly(w) ==
  /\ At(w, "write")
  /\ Goto(w, "cleanup")
  /\ \/ /\ saved' = [saved EXCEPT ![world.file[job[w]]] = job[w]]
        /\ UNCHANGED disturbed
     \/ Disturb(w) /\ UNCHANGED saved
  /\ UNCHANGED <<external, job, test, tested, result, ctx, workspaces>>

WriteSurvivor(w) ==
  /\ At(w, "write")
  /\ Goto(w, "cleanup")
  /\ \/ /\ saved' = [saved EXCEPT ![world.file[job[w]]] = job[w]]
        /\ UNCHANGED <<disturbed, result>>
     \/ /\ Disturb(w) /\ Conclude(w, "error", 0)
        /\ UNCHANGED saved
  /\ UNCHANGED <<external, job, test, tested, ctx, workspaces>>

(* The deferred os.RemoveAll, whose error is ignored.                      *)
RemoveWorkspace(w) ==
  /\ At(w, "cleanup")
  /\ Goto(w, "record")
  /\ \/ workspaces' = workspaces \ {job[w]} /\ UNCHANGED disturbed
     \/ UNCHANGED workspaces /\ Disturb(w)
  /\ UNCHANGED <<external, job, test, tested, result, ctx, saved>>

(* Every step of Execute after the mutant was taken.                       *)
Execute(w) ==
  \/ PrepareWorkspace(w) \/ CheckRules(w) \/ PrepareTest(w) \/ RunTest(w)
  \/ FinishTests(w) \/ OpenSurvivor(w) \/ WriteSurvivor(w)
  \/ RemoveWorkspace(w)

-----------------------------------------------------------------------------
(* What an undisturbed run of one mutant, alone, concludes.                *)

Benign(m, t) == world.run[m][t] \in {"pass", "unrelated"}
EndsAt(m, t) == ~Benign(m, t) /\ \A u \in 1..(t - 1) : Benign(m, u)

IsKilled(m) == /\ world.check[m] = "pass"
               /\ \E t \in Test : EndsAt(m, t) /\ world.run[m][t] = "assertion"
IsSurvivor(m) == /\ world.check[m] = "pass"
                 /\ \A t \in Test : Benign(m, t)
                 /\ \E t \in Test : world.run[m][t] = "pass"
IsHung(m) == \/ world.check[m] = "hangs"
             \/ /\ world.check[m] = "pass"
                /\ \E t \in Test : EndsAt(m, t) /\ world.run[m][t] = "hangs"

Verdict(m) == IF IsKilled(m) THEN "killed"
              ELSE IF IsSurvivor(m) THEN "survived"
              ELSE IF IsHung(m) THEN "timeout" ELSE "error"

BaselineOK == \A k \in Baseline : world.baseline[k] = "pass"
=============================================================================
