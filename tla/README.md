# Tubicen in TLA+

Tubicen judges the unit tests of Prometheus alert rules: it changes the rules,
one small change at a time, reruns the tests with `promtool`, and passes or
fails a quality gate. This directory holds TLA+ models of it, the TLC runs that
check them, and proofs, checked by TLAPS, that the central promises hold for
every size of the system. File and line references are to the repository.

`PROJECT.json` lists components, runs, hazards, findings and theorems, and maps
every definition that models code to the lines it models.

## The system

| Component | State | Operations | Hard parts | What makes it correct |
| --- | --- | --- | --- | --- |
| Campaign pool, `internal/campaign` | results slice, job channel, progress counter and mutex, wait group | `Run`, `summarize` | workers in any order, cancellation racing the hand-over, hung commands | results belong to their mutants, the gate follows from the truth alone, nobody outlives `Run` |
| promtool runner, `internal/promtool` | workspace, `tested`, the result in progress, survivors directory | `Version`, `ValidateBaseline`, `Execute`, `command`, `prepareTestFile`, `persistSurvivor` | deadlines, partial failures, exits that mean two things | a score is promtool's verdict; all else is an error or a timeout |
| Score, `summarize` | four counters | counting, float64 comparison | two roundings before a comparison | rounding decides a gate only next to equality |
| Commands, `cmd/tubicen`, `internal/config` | request, phase, exit code | `check`, `run`, `list` | three layers of validation, paths resolved in two ways, writes that fail half-way | the exit code tells the truth; the selection is what was asked for |
| Reports, `internal/report` | files, rows of the page | terminal, JSON, JUnit, SARIF, HTML and its script, annotations | truncation, stale files, five classifications of one status, escaping | complete behind 0 and 1, in agreement, and read as meant |
| Mutation generator, `internal/mutation` | mutants so far, keys seen | `Generate` and its helpers | nodes found again by counting, clamped halves, duplicates | one change per mutant, every change once |
| Rule document, `internal/rules` | YAML tree, shared by all workers | `Load`, `Render` | aliases, merge keys, cloning | only the mutated rule changes, the shared tree never |
| Demo service, `cmd/demo-service` | flag, counters, notifications and their lock | HTTP handlers, traffic loop, shutdown | several reads for one answer, a slice under a lock, ticks across a switch | no answer older than its request, nothing accepted is lost |
| Demo scripts, `demo/verify.sh`, `demo/incident/run.sh` | step, attempts left, exit code | waits, tests, traps | containers that start, evaluate and deliver when they like | what is announced as shown was seen; the demo is taken down |
| Report schema, `internal/domain` | - | records | - | - |
| Build, action and container files | - | - | - | - |

The command accepts a request and calls `campaign.Run`. `Run` loads rule files
(`rules.Load`), generates mutants (`mutation.Generate`), has the runner validate
the originals, and starts a bounded pool. The main goroutine hands mutants over
on an unbuffered channel in a `select` with cancellation; each worker calls
`Runner.Execute`, stores the result at the mutant's index and reports progress
under a mutex. `Execute` renders the mutant from the shared tree (`rules.Render`)
into a workspace, rewrites each test file to load it (`prepareTestFile`), and
calls `promtool` as a process under a deadline. The report of `Run` goes to the
terminal, to files and to GitHub, and becomes an exit code. The demonstration is
apart: its scripts break replicas of the demo service and poll Prometheus and
Alertmanager, which scrape and page those replicas.

## Modules

```
Runner <- Campaign <- CampaignInvariant <- CampaignProofs
             |               ^-- MCCampaign (TLC)
             | implements
      CampaignContract <- CheckCommand <- CheckCommandProofs
                              ^-- MCCheckCommand (TLC)
Generator <- GeneratorProofs        RuleDocument <- RuleDocumentProofs
    ^-- MCGenerator                      ^-- MCRuleDocument
PreparedTest <- PreparedTestProofs  DemoService <- DemoServiceProofs
    ^-- MCPreparedTest                   ^-- MCDemoService
LiveDemo <- LiveDemoProofs          Scoring <- ScoringProofs
    ^-- MCLiveDemo                       ^-- MCScoring
Selection <- MCSelection            Reports <- MCReports
```

Most modules after the first five lines refine what is one step or one constant
in those: `Selection` and `Generator` are `LoadRules` of `Campaign`,
`RuleDocument` and `PreparedTest` are `PrepareWorkspace` and `PrepareTest` of
`Runner`, `Scoring` is the `MeetsThreshold` of `Campaign`, and `Reports` what `CheckCommand` writes.

**Runner** is `Execute` by the workers of the pool. One step of the model lies
between two points at which another goroutine, a timer or the user can be
noticed: making the workspace, one promtool command, rewriting one test file,
opening and writing the survivor, removing the workspace. `pc`, `test`,
`tested`, `result` are the locals of `Execute`; `ctx` is the context of the
running command. What promtool would answer is a constant ground truth, `world`,
so that "the right verdict" has a meaning (`Verdict`) that no timing enters.
Disturbances are separate: `Expire` lets a deadline pass, also of a command that
is only slow; every file operation may fail; `Cancel` is a signal. `disturbed`
is a history variable that names the mutants they met. A command whose context
has ended returns the context's error whatever promtool did (`runner.go:157`).
Two ends of promtool differ in what a kill does: one that `hangs` ends by it, one
that `lingers` leaves a child with its output pipe, for which `cmd.Run` waits. A
command whose context had ended before it began is not started at all
(`ctx = "unstarted"`) and returns at once, whatever promtool would have done.

**Campaign** adds the main goroutine and the pool: `LoadRules`,
`ValidateBaseline` (one promtool command a step), `Dispatch` and `AbortDispatch`
(the two cases of the `select`, either when both are ready), `CloseJobs`,
`ReturnReport`, `ReturnCanceled`, and for the workers `RecordResult`,
`LockProgress`, `ReportProgress`, `WorkerExit`. It has the properties.

**CampaignContract** is the abstract specification: mutants are decided one by
one, once and truthfully or not at all; then the campaign closes with the
outcome the verdicts deserve, or it refuses at any time. `Campaign` implements
it under `Contract`, by TLC and by proof.

**Scoring** computes the float64 quotient and product of `summarize` as scales
and 53-bit significands, rounded half to even, next to the exact fraction, and
compares them with a threshold that is any float64 from 0 to 100, as a policy or
a flag may give it. A significand is held in three limbs, so that TLC's integers
suffice. `Campaign` only needs `MeetsThreshold(killed, scorable)`.

**CheckCommand** is the whole command around the contract: request, campaign,
terminal, four files, gate, annotations, exit code. Each write may fail. A file
holds its old content, a truncated report, or a report, which is reduced to how
it classifies each mutant; the five classifications are transcribed from their
five renderers.

**Generator** is `Generate`. An expression is the sequence of its nodes in the
order of `parser.Inspect`, matchers included. Candidates carry the number of
their node among its kind, and `mutateNth` counts again, as in the code.
`pending` holds the candidates, then the delay mutants, of the alert under way;
each is one step of the loops of `Generate`. The sort is by counting, since the
result of `sort.Slice` is all that the code promises. A reference (`Changes`)
says declaratively which changes a rule has.

**Selection** goes from arguments to mutants: repeated flags and their comma
lists, policy paths resolved against the policy and flags against the working
directory, `uniqueSorted`, the order and IDs of `Generate`, families and
operators to keep, the limit, and the preview of `list`. The digest is an
operator `Hash` of the identity it is taken of, so a change of identity (a path
relative to another directory) shows in the order.

**RuleDocument** is the tree of `yaml.Node` with anchors, aliases and merge keys,
in an explicit heap: a pointer names the copy it points into, so that a clone
could share nodes with its original. `Load` looks for alerts as the code does;
`alerts` is a set, since each carries its indices. `BeginRender`, `ApplyMutation`
and `Encode` are the steps of `Render` in each worker, and `Reads` is what
promtool, which resolves aliases and merges, makes of a file, or `Nothing` if it
cannot. The documents are those that `yaml.Unmarshal` builds (`IsDocument`: the
place of a node is its path) and that the baseline has made promtool read
(`DocumentsAreRead`). Files in which two anchors have one name are left out: YAML
lets the later one take the name over, and the model has no order of anchors.

**PreparedTest** is `prepareTestFile` around the workspace of one mutant: each
entry of `rule_files`, globs, paths that are links, the prepared list without
duplicates, the names in the workspace, and then the globbing of promtool, which
takes every prepared path for a pattern again.

**Reports** is what is in the outputs: totals and cases of JUnit, rules and
results of SARIF, the terminal's list, the workflow commands with their escapes
next to GitHub's way of reading them, and the script of the HTML page, whose
buttons are the module's actions.

**DemoService** has each handler as its atomic reads and writes, the traffic
loop, the read-write lock of the notifications (`AppendAlert` and `CopyList`
between taking and releasing it), and start, signal and shutdown with its
deadline. `accepted`, `flags` and `known` are histories of what clients may
rely on.

**LiveDemo** is the two demo scripts as lists of steps, beside containers that
scrape, evaluate and deliver in their own time or do not answer. A poll reads
what it can and compares as `grep` does; failing commands, attempts that run
out, signals and the exit trap are as in the scripts.

**CampaignInvariant** holds the inductive invariant of the campaign, which TLC
checks too. The modules named `...Proofs` hold the theorems. The `MC`
modules hold the values of constants. A definition commented "Mutant" is a
plausible bug of the definition after it; PROJECT.json pairs each with a
property that notices it.

## Runs

| Run | Question | Size |
| --- | --- | --- |
| `campaign` | Are results, gate, report, progress and files right under every interleaving; does the pool implement the contract, and does `Run` return? | 3 mutants, 2 workers, 2 test files, 1 rule file, 9 worlds, 1 disturbed mutant, interrupt anywhere: 558 218 states |
| `scoring_gate` | What can rounding do to a gate? | all results of at most 50 mutants, thresholds 0, 1, 58, 60, 80, 92.5, 100 and the two float64 values next to 250/3: 210 834 states |
| `check_command` | Does the exit code tell the truth, and are the reports what they should be? | 2 mutants, 23 requests: 24 221 states |
| `generator` | Does generation produce every change of every rule, once, and nothing else? | 101 files of one or two alerts: 2 917 states |
| `selection` | Are the mutants of a command those it asked for, and those `list` shows? | 2118 command lines and policies, 3 rule files, 3 working directories: 9 172 states |
| `rule_document` | Does a mutant change the one thing asked for, and the shared tree stay? | 2 workers, 13 documents: 3 221 states |
| `prepared_test` | Does promtool load what it loaded before, with the mutant for the target? | 698 suites of one or two test files: 5 211 states |
| `reports` | Do totals, cases, rules, labels and rows of one report agree, and does GitHub read back what an annotation says? | every report of up to 4 results, every click, every text of up to 4 or 5 characters: 59 300 states |
| `demo_service` | Is an accepted alert kept, an answer current, a tick whole, and does every request and the service end? | 3 clients, 2 webhooks, 1 tick: 108 386 states |
| `live_demo` | Do `verify.sh` and `run.sh` end, clean up, and pass only after what they show? | 2 scripts, 2 replicas or servers, 3 attempts: 186 487 states |
| `survivors_one_name` | Is every survivor saved? (No: Findings) | 3 mutants, two with one file name |
| `campaign_lingering_child` | Does a deadline end a command? (No: Findings) | 2 mutants, one promtool with a child that lingers |

Bounds. Two workers show every race of two goroutines, and three mutants let one
worker take a second mutant while the other still has its first (collection out
of order). Two test files give "skipped, then decided",
"passed, then decided" and "none run". `MaxFaults` bounds how many mutants are
disturbed, not what happens to them; the proofs have no such bound. The worlds
were chosen to hold each answer of promtool at each position where it makes a
difference. `LeftOver` is empty in `campaign`, so that stale survivor files are
only in the proof of `OnlySurvivorsSaved`, which holds for every `LeftOver`.

Exact scores meet 60, 80 and 100 many times within 50 mutants, which is where
rounding matters for such thresholds; 29 of 50 at 58 is the first time that it
does harm. 250/3 is a score (5 of 6) that no float64 equals: the rounded score is
the upper of its neighbours, so that 83.33333333333334 is passed though the exact
score is lower. `MaxScale` leaves out thresholds between 0 and 2^-24, which every
score above 0 exceeds (the least, 100 / 2^30, is above 2^-24). The
generator's expressions have an ineligible node before an eligible one of its
kind, two equal sites, a selector that must not be negated, zero, a negative and
an infinite threshold, and a range under a second.

The documents of `rule_document` hold each place an alias can stand in: delay,
expression, labels, rule, list of rules, merge key, and a merge without an alias;
two workers are enough since they meet only in the shared tree. The suites of `prepared_test` pair every kind
of entry with every other, in the directory of the rules and outside it; a
second test file is needed for a rule file found by one suite only. The requests
of `selection` have each limit below, at and above the number of mutants of one
file. In `demo_service` two webhooks race on one slice while a third client
reads, and the switch of the scenario may come before, inside and after the
tick; `Sessions` says which requests go together. The texts of `reports` are long
enough for an escape of an escape and for a cut inside and at the end of a line
(`LineLimit` is small instead of 180). `Attempts` replaces 30 to 60 polls; three
let a wait fail, go on, and give up.

`CHECK_DEADLOCK FALSE` is set for the modules that are over when their work is
(`Scoring`, `Generator`, `RuleDocument`, `PreparedTest`, `Selection`,
`LiveDemo`), and for `campaign_lingering_child`, which is about a command that
waits for a child that never ends. The other specifications end in an explicit
stuttering step or never end, so TLC's deadlock check looks at all their other
states.

Fairness. `Campaign!Spec` assumes weak fairness of the main goroutine, of each
worker and of each command's deadline, and of the hand-over as a whole: Go
schedules every goroutine that can run, `context.WithTimeout` always fires, and
a receiver waiting on the channel is served. There is none on interrupts,
failures, or on which ready case a `select` takes. `DemoService!Spec` has weak
fairness of the server's start and shutdown, of its exit, and of each handler's
steps (a goroutine each, and Go's lock does not starve a writer); none of the
body of a webhook, which the client may hold back, of requests, or of signals.
There `Answered` is about requests whose bodies arrive, and `Exits` about all,
since the shutdown has a deadline. `LiveDemo!Spec` is fair to the script alone:
its commands return and `sleep` ends, while nothing is assumed of containers.
`CheckCommand` is one thread; it has safety properties only.

## Findings

Two runs hold a counterexample to what the repository says; PROJECT.json quotes
the lines.

1. `survivors_one_name`: two survivors with the same operator and replacement in
   one alert share one file name, so one of them is lost (`runner.go:328`).
2. `campaign_lingering_child`: a child that keeps promtool's output pipe keeps
   its worker, and `Run`, beyond deadline and interrupt (`runner.go:156`).

Where else the code does not do what its documentation says, the checked property
states what does hold and names the exception:

| Code | What it does | Property, with the exception |
| --- | --- | --- |
| `campaign.go:177` | 29 of 50 scores 57.99999999999999 and fails the threshold 58 | `RoundingOnlyNearEquality`: at a threshold of at most 17 significant bits, only at equality and never in favour |
| `campaign.go:177` | 5 of 6 scores 83.33333333333334 and passes that threshold, which is above 250/3 | `RoundingOnlyNearEquality`: at any other threshold only within two units in the last place below it or one above, either way |
| `main.go:217` | exit code 1 also for a timeout or a test error without survivors | `ExitOneRan` |
| `config.go:73` | a threshold that is not a number passes every range check, fails every gate and leaves an empty JSON file | `ExitOneRan` (`"nan"`) |
| `generator.go:440` | `for: 1s` has a `for.contract` mutant equal to the original | `NoChangeTwice`, `GeneratesEveryChange`: but for mutants without effect |
| `generator.go:58` | the comparison with the text of the rule finds a mutant without effect (a range of 1s, a threshold of +Inf) only where the rule is written as the printer writes it | `ChangesOneThing`, `NoChangeTwice`: the same |
| `generator.go:485` | of two alerts with one name the second loses delay mutants as duplicates | `GeneratesEveryChange` (`Namesake`) |
| `rules/file.go:169` | where one delay is an alias of another, a mutant changes two rules or cannot be read | `OnlySharedTextFollows` |
| `rules/file.go:72` | an alert whose name comes from a merged mapping is never mutated | `AlertsOfPlainFilesLoaded` |
| `rules/file.go:85` | an explicit `for: null` or `for: ~`, which promtool reads as no delay, is read as that text, so the rule gets no delay mutant | `DocumentsAreRead`: an explicit null is left out; null values are written as nothing |
| `runner.go:236` | an entry of `rule_files` that is a YAML alias is dropped from the prepared test | `PreparedLoadsTheSame` (`LoadedOriginally`) |
| `runner.go:243` | a rule file with brackets in its name is found by a glob, its mutant is not | `PlainNames` |
| `runner.go:100` | the mutant of a rule file named `test-000.yml` is overwritten by the prepared test | `PlainNames` |
| `main.go:252` | `list` shows the changes of a file named twice, twice; a run tests them once | `PreviewComplete` (`TimesNamed`) |
| `generator.go:475` | IDs, and with a limit the selection, depend on the working directory | `SelectionExact` takes the directory into account |
| `verify.sh:39` | two firing alerts are announced after one fired and one was pending | `PassDemonstrated`: one is firing |
| `incident/run.sh:58` | a server that does not answer counts as one without an alert | `PassDemonstrated`: as read |

## Proofs

All theorems are about the specifications that TLC runs, with the assumptions on
the constants (`ASSUME`) that TLC evaluates on its instances, and for every value
of the constants that meets them. None uses fairness.

**The campaign.** For every number of mutants, workers, test and rule files,
every behaviour of promtool and every number of disturbances; the assumptions are
that these numbers are positive, that the worlds are worlds, and that
`MeetsThreshold` is Boolean. `CampaignProofs` proves that `CoreInv` is an
invariant (`CoreInvariance`) and from it

- `VerdictsAreExact`, `KillsAreAttributable`, `PassingIsEarned`;
- `RunImplementsContract`: the refinement (safety part).

`VerdictsExact` is not inductive: to store a true verdict a worker must know
why it is true. `Knows(w)` records what each control point of `Execute` has
established (the check passed, all earlier test files were benign, one of them
was run if `tested`). `Commands` ties contexts to commands, `BaselineFirst`
carries the baseline into the phases after it, and `Ownership` says that a
dispatched mutant is stored or with exactly one worker, so that no result is
overwritten and no index is left empty when the pool has drained; that gives the
count in the gate, and the refinement mapping for `RecordResult` (`Decide`) and
`ReturnReport` (`Close`). The proof goes action by action, with frame lemmas for
the variables an action leaves alone.

Its second part adds the rest of `IInv` (`Invariance`):

- `NoiseIsExplained`, from `WorkersExplain`: a worker that is not disturbed is on
  the way to the mutant's own verdict, whatever that is;
- `OnlySurvivorsAreSaved` and, where file names differ (`OwnNames`),
  `SurvivorsAreSaved`, from `SurvivorsWritten`; `survivors_one_name` is the
  campaign without that premise;
- `ProgressIsConsecutive`, from `ProgressCounted`: the counter is behind the
  results by those who wait for the lock;
- `NothingIsLeft`, from `WorkspacesOwned`, and `ReportsAreComplete`.

**The command.** `CheckCommandProofs` proves `CommandInvariance` for every set of
requests and number of mutants, and from it all properties of the run:
`ExitZeroIsEarned`, `ExitOneHasRun`, `BadValuesAreRefused`, `ReportsAreDelivered`
and `OutputsDoAgree`. It assumes in addition that a full score meets the
threshold (`MeetsThreshold(N, N)`), which `ScoringProofs` shows of the float64
score. `CloseDeserved` is the one step that counts: if all
mutants are killed the set of the killed has N members, so a gated campaign has
one that is not. For the reports, the invariant says of each file that was passed
what it holds, also when two reports go to one file.

**The score.** `ScoringProofs` proves `RoundingOnlyMattersNearEquality` and
`FullScoreIsEnough` for every campaign of at most 2^30 results and every float64
threshold (`ScoringAssumption`). It turns limbs into integers: `Significand` is
the integer that the limbs stand for, `LongDivision` and `TimesMultiplies` say
what the division and the product compute, and `SuccessorMoves` and `RoundMoves`
what rounding adds. So the quotient is within half a unit in its last place of
killed / scorable (`QuotientNear`), the product within half a unit of 100 times
that (`ProductNear`), and the score within 41/32 units of the exact one
(`TwoRoundings`, `ScoreNear`). A threshold between the two is then less than two
units away, also where score and threshold have different scales
(`RoundedDecision`, `ExactBySignificand`); that is `LongThreshold`. A threshold of
at most 17 bits is a multiple of 2^36 units. Multiplied by the number of results,
it and the exact score are both multiples of 2^36; if they differ, they differ by
at least that, which is more than two units for each of 2^30 results. So only
equality is left, and there rounding can only fall short (`ShortThreshold`). If all are killed, the
significands of quotient and score are those of 1 and 100 (`FullScore`). 2^30
(`MaxShift`) is TLC's bound on an integer, far above any number of mutants.

**The generator.** `GeneratorProofs` is about every rule file whose alerts are
such (`DocumentsKnown`): `OneThingIsChanged`, `ChangesAreDistinct` and
`EveryChangeIsGenerated`. `NodeIsFound` is the heart of counting: the number of
earlier nodes of a kind grows strictly from one node of the kind to the next, so
the nth is the one the candidate was made for. `MutantsSound` says what each mutant
is, `KeysSeen` that `seen` is the set of their keys, and `Progress` that each
change of a rule with a name of its own is collected or still pending; a key that
was seen then belongs to the same rule, and so to the same change. That sorting by
counting is a permutation (`SortedPermutes`), and what `FlattenSeq` holds
(`FlattenOccurs`, with the existence of its recursive function), are lemmas.

**The rule document.** `RuleDocumentProofs` is about every document, of any shape
and depth, every mutation and every number of workers.

- `SourceStaysIntact`: a clone points into itself, the edits of a render keep it
  so, and no worker writes a copy other than its own (`DocumentInv`).
- `AlertsAreThoseOfPromtool`: what is read of a tree depends on the tree only
  (`SameReading`, `SameLoaded`), so the alerts stay those of the document
  (`AlertsInv`); and without aliases and merges both `Load` and promtool read the
  values behind the keys (`AlertsAreFound`, `PlainReading`).
- `OnlySharedTextChanges`: `RenderInv` says for each worker that its tree is a
  clone before the edit, and that after it promtool's reading of it is an
  `Outcome` of the source. The argument for one edit compares the edited copy
  with the source in the same heap (`Rendered`): nodes are where the source has
  them, except for two scalars that may be new and two that may be gone; keys are
  never touched, since no key is a value (`ValuesApart`, from the paths of a
  document); an alias leads to the same node, since a new node has no anchor and
  no two nodes share a name (`FollowKept`); hence groups and rules are the same
  (`StructureKept`), and so are the texts of every rule that shares none
  (`TextRendered`). In a plain document that is every rule, and the copy can be
  read (`SimpleIsReadable`). `OthersRender` lifts this over the steps of others.

They assume of the constants what `DocumentsAreTrees`, `DocumentsAreRead`,
`ChangesAreTexts` (no empty expression or delay is put in), `SourceIsShared` and
`NothingIsNoNode` state; TLC evaluates them on the documents of the run.

**The prepared test.** `PreparedTestProofs`: for all disks, suites and entries,
`PreparedTestsLoadTheSame` and `OnlyStrangersAreSkipped`, where rule files have
plain names (`PlainNames`; Findings has what happens otherwise). The invariant
follows the entries: what is resolved so far is what the entries so far match.

**The demo service.** `DemoServiceProofs`: `AlertsAreKept`, `AnswersAreCurrent` and
`CountersAreBalanced` for every number of clients, webhooks and ticks
(`NobodyKnown` names an owner of the free lock). `LockHeld` excludes readers from
a writer, `AlertsNumbered` says what the slice is while one is appended, and
`Route` what each handler has read so far.

**The demo scripts.** `LiveDemoProofs`: `PassIsEarned`, for any number of attempts;
`BehindVerify` and `BehindIncident` say what has been seen behind each step.

Only model-checked:

- liveness (`Terminates`, `Answered`, `Exits`, `Ends`): it needs fairness and
  ENABLED;
- `Selection`, whose order and limit are of sorted sequences, and `Reports`, whose
  texts are transformed by recursive functions, so that its properties would be
  inductions over data.

## Not modelled

- Wording, layout, markup and colours of reports, usage and version texts: no
  statement of the repository is about them that a state could break.
- The YAML and PromQL parsers and promtool: external. The models take promtool's
  answers as functions of mutant and test file, and input files as constant
  during a campaign; the documentation promises nothing for edits under it.
- Errors that a file system reports only on close, and a killed process: nothing
  is persisted that a later run reads.
- Prometheus, Alertmanager, Docker and GitHub: external, modelled as far as the
  scripts and the reports look at them. Prometheus evaluates in any order and at
  any time; the `for` of its alerts is a step from pending to firing.
- Build, action and container files: configuration without state.

## Plan

What the code does is modelled; what is left is proof.

`PreviewComplete` of `Selection` compares two runs of the same generation, and
`FilterShowsItsCount` of `Reports` a click with a table: both would need what a
sort, a filter or a fold of a sequence returns (`SortSeq`, `SelectSeq`,
`FoldLeft`), which is an induction over data.
