---------------------------- MODULE CheckCommand ----------------------------
(***************************************************************************)
(* cmd/tubicen/main.go: the check and run commands, from the arguments to  *)
(* the exit code, with the files of internal/report.                       *)
(*                                                                         *)
(* A request is judged three times, by config.Load or the flags, by the    *)
(* command, and by campaign.Run; then the campaign runs (its contract,     *)
(* which CampaignProofs shows Run to implement); then one report goes to   *)
(* the terminal, up to four go to files, one after the other, and a failed *)
(* gate is annotated on GitHub.  Reading and writing may fail anywhere.    *)
(* Signals have no effect after the campaign: the context they cancel is   *)
(* no longer read.                                                         *)
(***************************************************************************)
EXTENDS Integers, Sequences, FiniteSets

CONSTANTS
  N,                    (* selected mutants                                *)
  MeetsThreshold(_, _), (* (killed, scorable), for a threshold in 0..100   *)
  Paths,                (* files a report may be written to                *)
  NoPath,               (* the empty path of a report not asked for        *)
  Requests              (* command lines and policies, see Request         *)

VARIABLES
  request,                          (* the input of the command            *)
  verdicts, outcome, truth, sound,  (* the campaign: CampaignContract      *)
  phase,                            (* where the command is                *)
  format,                           (* the report file in progress         *)
  disk,                             (* contents of the paths               *)
  printed,                          (* what the terminal report says       *)
  cursor, annotated,                (* loop and output of GitHubAnnotations*)
  exit                              (* the exit code                       *)

campaignVars == <<verdicts, outcome, truth, sound>>
outputVars   == <<format, disk, printed, cursor, annotated>>
vars         == <<request, campaignVars, phase, outputVars, exit>>

Campaign == INSTANCE CampaignContract

Mutant   == 1..N
Scored   == {"killed", "survived"}
Unscored == {"timeout", "error"}

ASSUME CommandAssumption ==
  /\ N \in Nat \ {0}
  /\ NoPath \notin Paths
  /\ \A k, s \in 0..N : MeetsThreshold(k, s) \in BOOLEAN
  /\ MeetsThreshold(N, N)  (* Scoring: the full score passes *)

(* What the commands distinguish in their input.                           *)
Request == [command   : {"check", "run"},
            help      : BOOLEAN,  (* flag.ErrHelp                          *)
            parses    : BOOLEAN,  (* flags, or the one YAML document       *)
            files     : BOOLEAN,  (* a rule file and a test file are named *)
            timeout   : {"negative", "zero", "positive"},
            threshold : {"outside", "inside", "nan"},
            counts    : {"negative", "fine"},  (* workers and limit        *)
            outputs   : [1..4 -> Paths \cup {NoPath}],
            github    : BOOLEAN]

ASSUME RequestAssumption == Requests \subseteq Request

Format == <<"json", "junit", "sarif", "html">>
Old       == [format |-> "old"]
Truncated == [format |-> "truncated"]
Silent    == [m \in Mutant |-> "nothing"]
Phase     == {"arguments", "campaign", "files", "render", "annotate", "exited"}

Init ==
  /\ request \in Requests
  /\ Campaign!Init
  /\ phase = "arguments" /\ exit = -1
  /\ format = 1 /\ disk = [p \in Paths |-> Old] /\ printed = Silent
  /\ cursor = 1 /\ annotated = Silent

ExitWith(code) == phase' = "exited" /\ exit' = code

-----------------------------------------------------------------------------
(* The arguments.  A comparison with a threshold that is not a number is   *)
(* false, so neither bound refuses it.                                     *)

SharedChecks ==
  request.parses /\ request.files /\ request.threshold # "outside"
    /\ request.counts # "negative"

(* config.Load: nothing is said about the sign of the timeout.             *)
PolicyAccepted == SharedChecks

(* Mutant: the flags are checked like the policy.                          *)
FlagsAcceptedLikePolicy == SharedChecks

FlagsAccepted == SharedChecks /\ request.timeout = "positive"

(* The options that campaign.Run checks again; NewRunner later takes a     *)
(* zero timeout for the default of 30 seconds.                             *)
RunAccepts == SharedChecks /\ request.timeout # "negative"

ParseArguments ==
  /\ phase = "arguments"
  /\ \/ request.help /\ ExitWith(0)
     \/ /\ ~request.help
        /\ IF request.command = "check" THEN PolicyAccepted ELSE FlagsAccepted
        /\ phase' = "campaign" /\ UNCHANGED exit
     \/ /\ ~request.help
        /\ IF request.command = "check" THEN ~PolicyAccepted
                                        ELSE ~FlagsAccepted
        /\ ExitWith(2)
  /\ UNCHANGED <<request, campaignVars, outputVars>>

-----------------------------------------------------------------------------
(* campaign.Run.                                                           *)

RunCampaign ==
  /\ phase = "campaign"
  /\ IF RunAccepts THEN Campaign!Next ELSE Campaign!Refuse
  /\ UNCHANGED <<request, phase, outputVars, exit>>

(* Mutant: a refused campaign ends like one that missed its gate.          *)
ReportRefusalAsMissed ==
  /\ phase = "campaign" /\ outcome = "refused"
  /\ ExitWith(1)
  /\ UNCHANGED <<request, campaignVars, outputVars>>

ReportRefusal ==
  /\ phase = "campaign" /\ outcome = "refused"
  /\ ExitWith(2)
  /\ UNCHANGED <<request, campaignVars, outputVars>>

-----------------------------------------------------------------------------
(* internal/report: how each output classifies a result.                   *)

TerminalSays(m) ==
  IF verdicts[m] \in Scored THEN verdicts[m] ELSE "problem"

JSONSays(m) == IF verdicts[m] \in Unscored THEN "problem" ELSE verdicts[m]

(* Mutant: timeouts are not reported as errors.                            *)
JUnitSaysLax(m) ==
  CASE verdicts[m] = "survived" -> "survived"
    [] verdicts[m] = "error"    -> "problem"
    [] OTHER                    -> "killed"

(* A test case with neither a failure nor an error is a success.           *)
JUnitSays(m) ==
  CASE verdicts[m] = "survived"   -> "survived"
    [] verdicts[m] \in Unscored   -> "problem"
    [] OTHER                      -> "killed"

(* A result that is left out was caught; the level tells the others.       *)
SARIFSays(m) ==
  CASE verdicts[m] = "killed"     -> "killed"
    [] verdicts[m] \in Unscored   -> "problem"
    [] OTHER                      -> "survived"

HTMLSays(m) ==
  CASE verdicts[m] = "killed"     -> "killed"
    [] verdicts[m] = "survived"   -> "survived"
    [] OTHER                      -> "problem"

Says(name, m) ==
  CASE name = "json"  -> JSONSays(m)
    [] name = "junit" -> JUnitSays(m)
    [] name = "sarif" -> SARIFSays(m)
    [] name = "html"  -> HTMLSays(m)

Rendering(name) ==
  [format |-> name, says |-> [m \in Mutant |-> Says(name, m)]]

-----------------------------------------------------------------------------
(* executeCampaign after the campaign.                                     *)

(* Terminal writes to stdout; the first failed write ends the command.     *)
PrintTerminal ==
  /\ phase = "campaign" /\ outcome \in {"passed", "gated"}
  /\ \/ /\ phase' = "files" /\ UNCHANGED exit
        /\ printed' = [m \in Mutant |-> TerminalSays(m)]
     \/ ExitWith(2) /\ UNCHANGED printed
  /\ UNCHANGED <<request, campaignVars, format, disk, cursor, annotated>>

Path == request.outputs[format]

(* WriteFile with an empty path.                                           *)
SkipReport ==
  /\ phase = "files" /\ format <= 4 /\ Path = NoPath
  /\ format' = format + 1
  /\ UNCHANGED <<request, campaignVars, phase, disk, printed, cursor, annotated, exit>>

(* MkdirAll and Create: an existing file is truncated.                     *)
CreateReport ==
  /\ phase = "files" /\ format <= 4 /\ Path # NoPath
  /\ \/ /\ phase' = "render" /\ UNCHANGED exit
        /\ disk' = [disk EXCEPT ![Path] = Truncated]
     \/ ExitWith(2) /\ UNCHANGED disk
  /\ UNCHANGED <<request, campaignVars, format, printed, cursor, annotated>>

(* Mutant: a report that cannot be written is passed over.                 *)
RenderReportQuietly ==
  /\ phase = "render"
  /\ \/ disk' = [disk EXCEPT ![Path] = Rendering(Format[format])]
     \/ UNCHANGED disk
  /\ phase' = "files" /\ format' = format + 1
  /\ UNCHANGED <<request, campaignVars, printed, cursor, annotated, exit>>

(* JSON has no notation for a threshold that is not a number.              *)
Renders(name) == name = "json" => request.threshold # "nan"

(* The renderer's first failed write leaves a part of the report.          *)
RenderReport ==
  /\ phase = "render"
  /\ \/ /\ Renders(Format[format])
        /\ phase' = "files" /\ UNCHANGED exit
        /\ disk' = [disk EXCEPT ![Path] = Rendering(Format[format])]
        /\ format' = format + 1
     \/ ExitWith(2) /\ UNCHANGED <<disk, format>>
  /\ UNCHANGED <<request, campaignVars, printed, cursor, annotated>>

(* summary.PassedGate, false for a threshold that is not a number.         *)
PassedGate == outcome = "passed" /\ request.threshold # "nan"

(* Mutant: only GitHub is told that the gate failed.                       *)
GateOnGitHubOnly ==
  /\ phase = "files" /\ format = 5
  /\ IF ~PassedGate /\ request.github
     THEN phase' = "annotate" /\ UNCHANGED exit
     ELSE ExitWith(0)
  /\ UNCHANGED <<request, campaignVars, outputVars>>

Gate ==
  /\ phase = "files" /\ format = 5
  /\ \/ PassedGate /\ ExitWith(0)
     \/ /\ ~PassedGate /\ request.github
        /\ phase' = "annotate" /\ UNCHANGED exit
     \/ ~PassedGate /\ ~request.github /\ ExitWith(1)
  /\ UNCHANGED <<request, campaignVars, outputVars>>

(* GitHubAnnotations: one line to stderr for every result not killed.      *)
Annotate ==
  /\ phase = "annotate" /\ cursor <= N
  /\ \/ /\ verdicts[cursor] = "killed"
        /\ cursor' = cursor + 1
        /\ UNCHANGED <<phase, annotated, exit>>
     \/ /\ verdicts[cursor] # "killed"
        /\ annotated' = [annotated EXCEPT ![cursor] =
             IF verdicts[cursor] \in Unscored THEN "problem" ELSE "survived"]
        /\ cursor' = cursor + 1
        /\ UNCHANGED <<phase, exit>>
     \/ /\ verdicts[cursor] # "killed"
        /\ ExitWith(2)
        /\ UNCHANGED <<cursor, annotated>>
  /\ UNCHANGED <<request, campaignVars, format, disk, printed>>

FinishAnnotations ==
  /\ phase = "annotate" /\ cursor = N + 1
  /\ ExitWith(1)
  /\ UNCHANGED <<request, campaignVars, outputVars>>

Exited == phase = "exited" /\ UNCHANGED vars

Next == \/ ParseArguments \/ RunCampaign \/ ReportRefusal \/ PrintTerminal
        \/ SkipReport \/ CreateReport \/ RenderReport
        \/ Gate \/ Annotate \/ FinishAnnotations \/ Exited

SafeSpec == Init /\ [][Next]_vars

-----------------------------------------------------------------------------
(* Properties.                                                             *)

Word    == {"nothing", "killed", "survived", "problem"}
Content == {Old, Truncated}
             \cup [format : {Format[f] : f \in 1..4}, says : [Mutant -> Word \ {"nothing"}]]

Judged == exit \in {0, 1} /\ ~request.help

Deserving ==
  /\ sound
  /\ \A m \in Mutant : truth[m] \in Scored
  /\ MeetsThreshold(Cardinality({m \in Mutant : truth[m] = "killed"}), N)

(* README.md:95.  Exit code 0 (for anything but help) is earned: the       *)
(* original tests pass, promtool would judge every mutant, and the true    *)
(* kills meet the threshold.                                               *)
ExitZeroEarned == exit = 0 /\ ~request.help => Deserving

(* README.md:96, the part that holds.  Exit code 1 says that the check     *)
(* ran: the original tests pass, every mutant has a verdict, and not all   *)
(* of them were caught or the threshold is not a number.                   *)
ExitOneRan ==
  exit = 1 =>
    /\ sound
    /\ \A m \in Mutant : verdicts[m] # "none"
    /\ \/ \E m \in Mutant : verdicts[m] # "killed"
       \/ request.threshold = "nan"

Asked(f) == request.outputs[f] # NoPath
Owner(f) == \A g \in (f + 1)..4 : request.outputs[g] # request.outputs[f]

(* Reports are replaced in their order: before a path of a later report    *)
(* changes, every earlier report is complete, so an interrupted command    *)
(* leaves at most one incomplete file; and a command that did not reach a  *)
(* report leaves all the old ones.                                         *)
ReportsInOrder ==
  /\ \A f, g \in 1..4 :
       (/\ f < g /\ Asked(f) /\ Asked(g)
        /\ request.outputs[f] # request.outputs[g]
        /\ Owner(f) /\ Owner(g)
        /\ disk[request.outputs[g]] \in {Truncated, Rendering(Format[g])})
         => disk[request.outputs[f]] # Truncated
  /\ outcome \in {"open", "refused"} => disk = [p \in Paths |-> Old]

(* Behind exit codes 0 and 1 every report that was asked for is complete   *)
(* and of this campaign; of two reports with one path the later one is.    *)
(* On the way to any exit code they come in their order.                   *)
ReportsDelivered ==
  /\ Judged => \A f \in 1..4 :
       Asked(f) /\ Owner(f) => disk[request.outputs[f]] = Rendering(Format[f])
  /\ ReportsInOrder

(* The terminal and the files classify every mutant alike; and behind a    *)
(* failed gate on GitHub, exactly what is not caught is annotated, alike.  *)
OutputsAgree ==
  /\ \A p \in Paths : disk[p] \notin {Old, Truncated} => disk[p].says = printed
  /\ exit = 1 /\ request.github =>
       \A m \in Mutant :
         annotated[m] = IF printed[m] = "killed" THEN "nothing" ELSE printed[m]

(* Values that the flags, the policy or Run forbid never judge a mutant.   *)
BadValuesRefused ==
  (\/ request.threshold = "outside" \/ request.counts = "negative"
   \/ request.timeout = "negative" \/ ~request.files \/ ~request.parses
   \/ request.command = "run" /\ request.timeout = "zero")
     => verdicts = [m \in Mutant |-> "none"] /\ ~Judged

-----------------------------------------------------------------------------
(* The inductive invariant behind the exit codes.                          *)

VerdictsHonest ==
  /\ truth \in [Mutant -> Scored \cup Unscored]
  /\ verdicts \in [Mutant -> Scored \cup Unscored \cup {"none"}]
  /\ \A m \in Mutant : verdicts[m] \in Scored => verdicts[m] = truth[m]
  /\ (\E m \in Mutant : verdicts[m] # "none") => sound

Decided == \A m \in Mutant : verdicts[m] # "none"
CaughtSet == {m \in Mutant : verdicts[m] = "killed"}

OutcomeDeserved ==
  /\ outcome \in {"open", "refused", "passed", "gated"}
  /\ outcome = "passed" =>
       /\ \A m \in Mutant : verdicts[m] \in Scored
       /\ MeetsThreshold(Cardinality(CaughtSet), N)
  /\ outcome = "gated" => Decided /\ CaughtSet # Mutant

ExitJustified ==
  /\ phase \in Phase
  /\ phase \notin {"arguments", "campaign", "exited"} => outcome \in {"passed", "gated"}
  /\ phase = "annotate" => ~PassedGate
  /\ phase # "exited" => exit = -1
  /\ exit = 0 /\ ~request.help => outcome = "passed"
  /\ exit = 1 => outcome \in {"passed", "gated"} /\ ~PassedGate

(* The verdicts are honest, the outcome is the one they deserve, and the   *)
(* exit code is the one of the outcome.                                    *)
ExitInv == VerdictsHonest /\ OutcomeDeserved /\ ExitJustified

-----------------------------------------------------------------------------
(* What the outputs add.                                                   *)

Accepted == IF request.command = "check" THEN PolicyAccepted ELSE FlagsAccepted

(* A mutant is judged only for a request that passed every check.          *)
InputJudged ==
  /\ request \in Request
  /\ phase = "arguments" => outcome = "open"
  /\ phase = "campaign" => Accepted
  /\ (\E m \in Mutant : verdicts[m] # "none") \/ outcome \in {"passed", "gated"} =>
       Accepted /\ RunAccepts

(* The files of the reports before `format': of each path, the last one.   *)
PathState(path) ==
  \/ disk[path] = Old /\ \A f \in 1..(format - 1) : request.outputs[f] # path
  \/ disk[path] = Truncated /\ phase \in {"render", "exited"} /\ format <= 4 /\ Path = path
  \/ \E f \in 1..(format - 1) :
       /\ request.outputs[f] = path /\ disk[path] = Rendering(Format[f])
       /\ \A g \in (f + 1)..(format - 1) : request.outputs[g] # path

FilesWritten ==
  /\ format \in 1..5 /\ disk \in [Paths -> Content]
  /\ phase \in {"arguments", "campaign"} \/ outcome \in {"open", "refused"} =>
       format = 1 /\ disk = [p \in Paths |-> Old]
  /\ phase = "render" => format <= 4 /\ Asked(format)
  /\ phase = "annotate" \/ Judged => format = 5
  /\ \A path \in Paths : PathState(path)

(* The annotation of a mutant.                                             *)
Note(m) == IF TerminalSays(m) = "killed" THEN "nothing" ELSE TerminalSays(m)

LinesPrinted ==
  /\ phase \in {"files", "render", "annotate"} \/ format > 1 \/ exit = 1 =>
       printed = [m \in Mutant |-> TerminalSays(m)]
  /\ cursor \in 1..(N + 1) /\ annotated \in [Mutant -> Word]
  /\ phase \notin {"annotate", "exited"} => cursor = 1
  /\ phase # "exited" =>
       \A m \in Mutant : annotated[m] = IF m < cursor THEN Note(m) ELSE "nothing"
  /\ exit = 1 /\ request.github => \A m \in Mutant : annotated[m] = Note(m)

(* The inductive invariant of the commands.                                *)
CommandInv == ExitInv /\ InputJudged /\ FilesWritten /\ LinesPrinted
=============================================================================
