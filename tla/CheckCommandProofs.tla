------------------------- MODULE CheckCommandProofs -------------------------
(***************************************************************************)
(* The exit codes of the check and run commands, for every number of       *)
(* mutants, every threshold and every set of requests.                     *)
(***************************************************************************)
EXTENDS CheckCommand, FiniteSetTheorems, TLAPS

LEMMA MutantsCounted == IsFiniteSet(Mutant) /\ Cardinality(Mutant) = N
BY CommandAssumption, FS_Interval DEF Mutant

LEMMA SameCardinality ==
  ASSUME NEW S PROVE Campaign!Cardinality(S) = Cardinality(S)
BY DEF Cardinality, Campaign!Cardinality

(* A campaign that closes closes with the outcome its verdicts deserve.    *)
LEMMA CloseDeserved ==
  ASSUME VerdictsHonest, Campaign!Close
  PROVE  OutcomeDeserved'
<1>1. /\ verdicts' = verdicts /\ \A m \in Mutant : verdicts[m] # "none"
      /\ outcome' = Campaign!Deserved
  BY DEF Campaign!Close, Campaign!Mutant, Campaign!Undecided, Mutant
<1>2. Campaign!Killed = CaughtSet
  BY DEF Campaign!Killed, Campaign!Mutant, CaughtSet, Mutant
<1>3. Campaign!Deserved =
        IF /\ \A m \in Mutant : verdicts[m] \notin Unscored
           /\ MeetsThreshold(Cardinality(CaughtSet), N)
        THEN "passed" ELSE "gated"
  BY <1>2, SameCardinality
  DEF Campaign!Deserved, Campaign!Mutant, Mutant, Campaign!Unscored, Unscored
<1>4. CaughtSet' = CaughtSet
  BY <1>1 DEF CaughtSet
<1>5. CASE Campaign!Deserved = "passed"
  <2>1. \A m \in Mutant : verdicts[m] \in Scored
    BY <1>1, <1>3, <1>5 DEF VerdictsHonest, Scored, Unscored
  <2> QED
    BY <1>1, <1>3, <1>4, <1>5, <2>1 DEF OutcomeDeserved
<1>6. CASE Campaign!Deserved = "gated"
  <2>1. CaughtSet # Mutant
    <3>1. SUFFICES ASSUME CaughtSet = Mutant PROVE FALSE
      OBVIOUS
    <3>2. \A m \in Mutant : verdicts[m] = "killed"
      BY <3>1 DEF CaughtSet
    <3>3. MeetsThreshold(Cardinality(CaughtSet), N)
      BY <3>1, MutantsCounted, CommandAssumption
    <3> QED
      BY <1>3, <1>6, <3>2, <3>3 DEF Unscored
  <2> QED
    BY <1>1, <1>4, <1>6, <2>1 DEF OutcomeDeserved, Decided
<1> QED
  BY <1>3, <1>5, <1>6

(* The campaign keeps its part of the invariant.                           *)
LEMMA CampaignKeeps ==
  ASSUME VerdictsHonest, OutcomeDeserved, Campaign!Next
  PROVE  VerdictsHonest' /\ OutcomeDeserved'
<1>1. CASE Campaign!Close
  BY <1>1, CloseDeserved DEF Campaign!Close, VerdictsHonest
<1>2. CASE Campaign!Refuse
  BY <1>2 DEF Campaign!Refuse, VerdictsHonest, OutcomeDeserved
<1>3. ASSUME NEW m \in Mutant, Campaign!Decide(m)
      PROVE  VerdictsHonest' /\ OutcomeDeserved'
  <2>1. PICK v \in Unscored \cup {truth[m]} :
          verdicts' = [verdicts EXCEPT ![m] = v]
    BY <1>3 DEF Campaign!Decide, Campaign!Unscored, Unscored
  <2>2. /\ outcome = "open" /\ outcome' = "open"
        /\ sound /\ sound' = sound /\ truth' = truth
    BY <1>3 DEF Campaign!Decide
  <2>3. v \in Scored => v = truth[m]
    BY <2>1 DEF Scored, Unscored
  <2>4. \A k \in Mutant : verdicts'[k] = IF k = m THEN v ELSE verdicts[k]
    BY <2>1 DEF VerdictsHonest
  <2>5. verdicts' \in [Mutant -> Scored \cup Unscored \cup {"none"}]
    <3>1. truth[m] \in Scored \cup Unscored
      BY DEF VerdictsHonest
    <3> QED
      BY <2>1, <3>1 DEF VerdictsHonest
  <2>6. \A k \in Mutant : verdicts'[k] \in Scored => verdicts'[k] = truth'[k]
    BY <2>2, <2>3, <2>4 DEF VerdictsHonest
  <2>7. VerdictsHonest'
    BY <2>2, <2>5, <2>6 DEF VerdictsHonest
  <2> QED
    BY <2>2, <2>7 DEF OutcomeDeserved
<1> QED
  BY <1>1, <1>2, <1>3 DEF Campaign!Next, Campaign!Mutant, Mutant

LEMMA RefuseIsNext == Campaign!Refuse => Campaign!Next
BY DEF Campaign!Next

LEMMA CampaignUntouched ==
  ASSUME UNCHANGED campaignVars, VerdictsHonest, OutcomeDeserved
  PROVE  VerdictsHonest' /\ OutcomeDeserved'
BY DEF campaignVars, VerdictsHonest, OutcomeDeserved, Decided, CaughtSet

LEMMA InvInit == Init => ExitInv
<1> SUFFICES ASSUME Init PROVE ExitInv
  OBVIOUS
<1>1. /\ verdicts = [m \in Mutant |-> "none"] /\ outcome = "open"
      /\ truth \in [Mutant -> Scored \cup Unscored]
  BY DEF Init, Campaign!Init, Campaign!Mutant, Campaign!Undecided,
         Campaign!Unscored, Mutant, Scored, Unscored
<1>2. VerdictsHonest
  BY <1>1 DEF VerdictsHonest, Scored
<1>3. OutcomeDeserved
  BY <1>1 DEF OutcomeDeserved
<1>4. ExitJustified
  BY DEF Init, ExitJustified, Phase
<1> QED
  BY <1>2, <1>3, <1>4 DEF ExitInv

LEMMA InvNext == ExitInv /\ [Next]_vars => ExitInv'
<1> SUFFICES ASSUME ExitInv, [Next]_vars PROVE ExitInv'
  OBVIOUS
<1> USE DEF ExitInv
<1> DEFINE Frame == request' = request /\ UNCHANGED campaignVars
<1>1. ASSUME Frame, ExitJustified' PROVE ExitInv'
  BY <1>1, CampaignUntouched
<1>2. CASE ParseArguments
  BY <1>1, <1>2 DEF ParseArguments, ExitJustified, ExitWith, Phase, campaignVars
<1>3. CASE RunCampaign
  <2>1. Campaign!Next
    BY <1>3, RefuseIsNext DEF RunCampaign
  <2>2. VerdictsHonest' /\ OutcomeDeserved'
    BY <2>1, CampaignKeeps
  <2>3. ExitJustified'
    BY <1>3 DEF RunCampaign, ExitJustified, Phase
  <2> QED
    BY <2>2, <2>3
<1>4. CASE ReportRefusal
  BY <1>1, <1>4 DEF ReportRefusal, ExitJustified, ExitWith, Phase, campaignVars
<1>5. CASE PrintTerminal
  BY <1>1, <1>5 DEF PrintTerminal, ExitJustified, ExitWith, Phase, campaignVars
<1>6. CASE SkipReport
  BY <1>1, <1>6 DEF SkipReport, ExitJustified, ExitWith, Phase, campaignVars
<1>7. CASE CreateReport
  BY <1>1, <1>7 DEF CreateReport, ExitJustified, ExitWith, Phase, campaignVars
<1>8. CASE RenderReport
  BY <1>1, <1>8 DEF RenderReport, ExitJustified, ExitWith, Phase, campaignVars
<1>9. CASE Gate
  <2>1. PassedGate' = PassedGate /\ Frame
    BY <1>9 DEF Gate, PassedGate, campaignVars
  <2> QED
    BY <1>1, <1>9, <2>1 DEF Gate, ExitJustified, ExitWith, Phase, campaignVars, PassedGate
<1>10. CASE Annotate
  BY <1>1, <1>10
  DEF Annotate, ExitJustified, ExitWith, Phase, campaignVars, PassedGate
<1>11. CASE FinishAnnotations
  BY <1>1, <1>11
  DEF FinishAnnotations, ExitJustified, ExitWith, Phase, campaignVars, PassedGate
<1>12. CASE UNCHANGED vars
  BY <1>1, <1>12 DEF vars, ExitJustified, campaignVars, PassedGate
<1> QED
  BY <1>2, <1>3, <1>4, <1>5, <1>6, <1>7, <1>8, <1>9, <1>10, <1>11, <1>12
  DEF Next, Exited

(* In every reachable state the verdicts are honest, the outcome is the    *)
(* deserved one and the exit code reports it (main.go, executeCampaign).   *)
THEOREM ExitInvariance == SafeSpec => []ExitInv
BY InvInit, InvNext, PTL DEF SafeSpec

LEMMA InvEarned == ExitInv => ExitZeroEarned
<1> SUFFICES ASSUME ExitInv, exit = 0, ~request.help PROVE Deserving
  BY DEF ExitZeroEarned
<1>1. outcome = "passed"
  BY DEF ExitInv, ExitJustified
<1>2. /\ \A m \in Mutant : verdicts[m] \in Scored
      /\ MeetsThreshold(Cardinality(CaughtSet), N)
  BY <1>1 DEF ExitInv, OutcomeDeserved
<1>3. \A m \in Mutant : verdicts[m] = truth[m]
  BY <1>2 DEF ExitInv, VerdictsHonest
<1>4. sound
  <2>1. 1 \in Mutant
    BY CommandAssumption DEF Mutant
  <2> QED
    BY <1>2, <2>1 DEF ExitInv, VerdictsHonest, Scored
<1>5. CaughtSet = {m \in Mutant : truth[m] = "killed"}
  BY <1>3 DEF CaughtSet
<1> QED
  BY <1>2, <1>3, <1>4, <1>5 DEF Deserving

(* Exit code 0 is earned: README.md:95 holds of every request that is not  *)
(* a request for help, whatever goes wrong on the way.                     *)
THEOREM ExitZeroIsEarned == SafeSpec => []ExitZeroEarned
BY ExitInvariance, InvEarned, PTL

LEMMA InvRan == ExitInv => ExitOneRan
<1> SUFFICES ASSUME ExitInv, exit = 1
             PROVE  /\ sound
                    /\ \A m \in Mutant : verdicts[m] # "none"
                    /\ \/ \E m \in Mutant : verdicts[m] # "killed"
                       \/ request.threshold = "nan"
  BY DEF ExitOneRan
<1>1. outcome \in {"passed", "gated"} /\ ~PassedGate
  BY DEF ExitInv, ExitJustified
<1>2. \A m \in Mutant : verdicts[m] # "none"
  BY <1>1 DEF ExitInv, OutcomeDeserved, Decided, Scored
<1>3. sound
  <2>1. 1 \in Mutant
    BY CommandAssumption DEF Mutant
  <2> QED
    BY <1>2, <2>1 DEF ExitInv, VerdictsHonest
<1>4. CASE outcome = "passed"
  BY <1>1, <1>2, <1>3, <1>4 DEF PassedGate
<1>5. CASE outcome = "gated"
  <2>1. CaughtSet # Mutant
    BY <1>5 DEF ExitInv, OutcomeDeserved
  <2>2. \E m \in Mutant : verdicts[m] # "killed"
    BY <2>1 DEF CaughtSet
  <2> QED
    BY <1>2, <1>3, <2>2
<1> QED
  BY <1>1, <1>4, <1>5

(* Exit code 1 says that the check ran and that its gate was missed: no    *)
(* failure of an input, a write or the campaign has this code.             *)
THEOREM ExitOneHasRun == SafeSpec => []ExitOneRan
BY ExitInvariance, InvRan, PTL

-----------------------------------------------------------------------------
(* The outputs.                                                            *)

(* Renderings are told apart by their format, and from what is no report.  *)
LEMMA RenderingsDiffer ==
  /\ \A f \in 1..4 : Rendering(Format[f]) \notin {Old, Truncated}
  /\ \A f, g \in 1..4 : Rendering(Format[f]) = Rendering(Format[g]) => f = g
  /\ Old # Truncated
<1>1. \A name : Rendering(name).format = name
  BY DEF Rendering
<1>2. Old.format = "old" /\ Truncated.format = "truncated"
  BY DEF Old, Truncated
<1>3. \A f \in 1..4 : Format[f] \notin {"old", "truncated"}
  BY DEF Format
<1>4. \A f, g \in 1..4 : Format[f] = Format[g] => f = g
  BY DEF Format
<1> QED
  BY <1>1, <1>2, <1>3, <1>4

(* With a verdict of the campaign, all outputs say the same of a mutant.   *)
LEMMA SameWord ==
  ASSUME VerdictsHonest, Decided, NEW m \in Mutant, NEW f \in 1..4
  PROVE  Says(Format[f], m) = TerminalSays(m) /\ TerminalSays(m) \in Word \ {"nothing"}
<1>1. verdicts[m] \in {"killed", "survived", "timeout", "error"}
  BY DEF VerdictsHonest, Decided, Scored, Unscored
<1>2. Format[f] \in {"json", "junit", "sarif", "html"}
  BY DEF Format
<1> QED
  BY <1>1, <1>2
  DEF Says, JSONSays, JUnitSays, SARIFSays, HTMLSays, TerminalSays, Scored, Unscored, Word

LEMMA RenderingContent ==
  ASSUME VerdictsHonest, Decided, NEW f \in 1..4
  PROVE  Rendering(Format[f]) \in Content /\ Rendering(Format[f]).says = [m \in Mutant |-> TerminalSays(m)]
<1>1. [m \in Mutant |-> Says(Format[f], m)] = [m \in Mutant |-> TerminalSays(m)]
  BY SameWord
<1>2. [m \in Mutant |-> TerminalSays(m)] \in [Mutant -> Word \ {"nothing"}]
  BY SameWord
<1> QED
  BY <1>1, <1>2 DEF Rendering, Content

LEMMA ReportsAreOfAll == ExitInv /\ outcome \in {"passed", "gated"} => VerdictsHonest /\ Decided
BY DEF ExitInv, OutcomeDeserved, Decided, Scored

(* The reports say what they said while the verdicts stand.                *)
LEMMA SameReports ==
  ASSUME verdicts' = verdicts
  PROVE  /\ \A m : TerminalSays(m)' = TerminalSays(m) /\ Note(m)' = Note(m)
         /\ \A name : Rendering(name)' = Rendering(name)
BY DEF TerminalSays, Note, Rendering, Says, JSONSays, JUnitSays, SARIFSays, HTMLSays

LEMMA NextJudged == CommandInv /\ [Next]_vars => InputJudged'
<1> SUFFICES ASSUME CommandInv, [Next]_vars PROVE InputJudged'
  OBVIOUS
<1>1. /\ request' = request /\ InputJudged /\ VerdictsHonest /\ OutcomeDeserved
      /\ (RunAccepts' <=> RunAccepts) /\ (Accepted' <=> Accepted)
  BY DEF CommandInv, ExitInv, Next, ParseArguments, RunCampaign, ReportRefusal, PrintTerminal,
         SkipReport, CreateReport, RenderReport, Gate, Annotate, FinishAnnotations, Exited, vars,
         RunAccepts, Accepted, SharedChecks, PolicyAccepted, FlagsAccepted
<1>2. CASE ParseArguments
  BY <1>1, <1>2 DEF ParseArguments, InputJudged, Accepted, ExitWith, campaignVars
<1>3. CASE RunCampaign
  <2>1. phase' = "campaign" /\ phase = "campaign" /\ Accepted
    BY <1>1, <1>3 DEF RunCampaign, InputJudged
  <2>2. CASE RunAccepts
    BY <1>1, <2>1, <2>2 DEF InputJudged
  <2>3. CASE ~RunAccepts
    BY <1>1, <1>3, <2>1, <2>3 DEF RunCampaign, Campaign!Refuse, InputJudged
  <2> QED
    BY <2>2, <2>3
<1>4. CASE ReportRefusal \/ PrintTerminal \/ SkipReport \/ CreateReport \/ RenderReport
           \/ Gate \/ Annotate \/ FinishAnnotations \/ UNCHANGED vars
  <2>1. UNCHANGED campaignVars /\ (phase' = phase \/ phase' \notin {"arguments", "campaign"})
    BY <1>4 DEF ReportRefusal, PrintTerminal, SkipReport, CreateReport, RenderReport, Gate,
                Annotate, FinishAnnotations, vars, ExitWith
  <2> QED
    BY <1>1, <2>1 DEF InputJudged, campaignVars
<1> QED
  BY <1>2, <1>3, <1>4 DEF Next, Exited

LEMMA NextFiles == CommandInv /\ [Next]_vars => FilesWritten'
<1> SUFFICES ASSUME CommandInv, [Next]_vars PROVE FilesWritten'
  OBVIOUS
<1> USE DEF Judged, ExitWith
<1>0. /\ request' = request /\ FilesWritten /\ ExitInv /\ ExitJustified /\ InputJudged
      /\ request.outputs \in [1..4 -> Paths \cup {NoPath}] /\ NoPath \notin Paths
  BY CommandAssumption
  DEF CommandInv, ExitInv, InputJudged, Request, Next, ParseArguments, RunCampaign, ReportRefusal,
      PrintTerminal, SkipReport, CreateReport, RenderReport, Gate, Annotate, FinishAnnotations,
      Exited, vars
<1>a. ASSUME UNCHANGED <<verdicts, format, disk>>,
             phase = "render" => phase' \in {"render", "exited"},
             phase' = "render" => phase = "render",
             phase = "exited" => phase' = "exited",
             phase' \in {"arguments", "campaign"} \/ outcome' \in {"open", "refused"} =>
               phase \in {"arguments", "campaign"} \/ outcome \in {"open", "refused"},
             phase' = "annotate" \/ Judged' => format = 5
      PROVE  FilesWritten'
  <2>1. ASSUME NEW path \in Paths PROVE PathState(path)'
    BY <1>0, <1>a, <2>1, SameReports DEF FilesWritten, PathState, Path
  <2> QED
    BY <1>0, <1>a, <2>1 DEF FilesWritten, Asked
<1>1. CASE ParseArguments
  BY <1>0, <1>a, <1>1
  DEF ParseArguments, FilesWritten, ExitJustified, campaignVars, outputVars
<1>2. CASE RunCampaign
  <2>1. /\ phase = "campaign" /\ phase' = phase /\ UNCHANGED <<format, disk, exit>>
        /\ format = 1 /\ disk = [p \in Paths |-> Old] /\ ~Judged
    BY <1>0, <1>2 DEF RunCampaign, outputVars, FilesWritten, ExitJustified
  <2>2. \A path \in Paths : PathState(path)'
    BY <2>1 DEF PathState
  <2> QED
    BY <1>0, <2>1, <2>2 DEF FilesWritten
<1>3. CASE ReportRefusal
  BY <1>0, <1>a, <1>3
  DEF ReportRefusal, campaignVars, outputVars
<1>4. CASE PrintTerminal
  BY <1>0, <1>a, <1>4 DEF PrintTerminal, campaignVars, ExitJustified
<1>5. CASE SkipReport
  <2>1. /\ phase = "files" /\ format \in 1..4 /\ Path = NoPath /\ format' = format + 1
        /\ UNCHANGED <<verdicts, outcome, phase, disk, exit>>
    BY <1>0, <1>5 DEF SkipReport, FilesWritten, campaignVars
  <2>2. ASSUME NEW path \in Paths PROVE PathState(path)'
    <3>1. request.outputs[format] # path /\ \A f \in 1..(format' - 1) : f \in 1..(format - 1) \/ f = format
      BY <1>0, <2>1 DEF Path
    <3>2. \A f \in 1..(format - 1) : \A g \in (f + 1)..(format' - 1) : g \in (f + 1)..(format - 1) \/ g = format
      BY <2>1
    <3> QED
      BY <1>0, <2>1, <3>1, <3>2, SameReports DEF FilesWritten, PathState
  <2> QED
    BY <1>0, <2>1, <2>2 DEF FilesWritten, ExitJustified
<1>6. CASE CreateReport
  <2>1. CASE phase' = "exited"
    BY <1>0, <1>a, <1>6, <2>1 DEF CreateReport, campaignVars, ExitJustified
  <2>2. CASE phase' = "render"
    <3>1. /\ phase = "files" /\ format \in 1..4 /\ Path # NoPath /\ Path \in Paths
          /\ UNCHANGED <<verdicts, outcome, format, exit>>
          /\ disk' = [disk EXCEPT ![Path] = Truncated]
      BY <1>0, <1>6, <2>2 DEF CreateReport, FilesWritten, campaignVars, Path
    <3>2. ASSUME NEW path \in Paths PROVE PathState(path)'
      <4>1. CASE path = Path
        BY <1>0, <2>2, <3>1, <4>1 DEF FilesWritten, PathState, Path
      <4>2. CASE path # Path
        <5>1. disk'[path] = disk[path]
          BY <1>0, <3>1, <4>2 DEF FilesWritten
        <5> QED
          BY <1>0, <3>1, <4>2, <5>1, SameReports DEF FilesWritten, PathState
      <4> QED
        BY <4>1, <4>2
    <3>3. disk' \in [Paths -> Content]
      BY <1>0, <3>1 DEF FilesWritten, Content
    <3> QED
      BY <1>0, <2>2, <3>1, <3>2, <3>3 DEF FilesWritten, ExitJustified, Asked, Path
  <2> QED
    BY <1>6, <2>1, <2>2 DEF CreateReport
<1>7. CASE RenderReport
  <2>1. CASE phase' = "exited"
    BY <1>0, <1>a, <1>7, <2>1 DEF RenderReport, campaignVars, ExitJustified
  <2>2. CASE phase' = "files"
    <3>1. /\ phase = "render" /\ format \in 1..4 /\ Path \in Paths
          /\ UNCHANGED <<verdicts, outcome, exit>> /\ format' = format + 1
          /\ disk' = [disk EXCEPT ![Path] = Rendering(Format[format])]
      BY <1>0, <1>7, <2>2 DEF RenderReport, FilesWritten, campaignVars, Path, Asked
    <3>2. ASSUME NEW path \in Paths PROVE PathState(path)'
      <4>0. format' - 1 = format /\ \A f \in 1..format : f \in 1..(format - 1) \/ f = format
        BY <3>1
      <4>1. CASE path = Path
        <5>1. PICK f \in 1..4 : f = format
          BY <3>1
        <5>2. /\ f \in 1..(format' - 1) /\ request'.outputs[f] = path
              /\ \A g \in (f + 1)..(format' - 1) : request'.outputs[g] # path
          BY <1>0, <3>1, <4>0, <4>1, <5>1 DEF Path
        <5>3. disk'[path] = Rendering(Format[f])'
          BY <1>0, <3>1, <4>1, <5>1, SameReports DEF FilesWritten
        <5> QED
          BY <5>2, <5>3 DEF PathState
      <4>2. CASE path # Path
        <5>1. disk'[path] = disk[path]
          BY <1>0, <3>1, <4>2 DEF FilesWritten
        <5>2. \/ disk[path] = Old /\ \A f \in 1..(format - 1) : request.outputs[f] # path
              \/ \E f \in 1..(format - 1) :
                   /\ request.outputs[f] = path /\ disk[path] = Rendering(Format[f])
                   /\ \A g \in (f + 1)..(format - 1) : request.outputs[g] # path
          BY <1>0, <3>1, <4>2 DEF FilesWritten, PathState
        <5>3. \A f \in 1..(format - 1) : \A g \in (f + 1)..format :
                g \in (f + 1)..(format - 1) \/ g = format
          BY <3>1
        <5>4. request.outputs[format] # path
          BY <4>2 DEF Path
        <5>5. CASE disk[path] = Old /\ \A f \in 1..(format - 1) : request.outputs[f] # path
          BY <1>0, <4>0, <5>1, <5>4, <5>5 DEF PathState
        <5>6. ASSUME NEW f \in 1..(format - 1),
                     request.outputs[f] = path, disk[path] = Rendering(Format[f]),
                     \A g \in (f + 1)..(format - 1) : request.outputs[g] # path
              PROVE  PathState(path)'
          <6>1. f \in 1..(format' - 1) /\ disk'[path] = Rendering(Format[f])'
            BY <3>1, <4>0, <5>1, <5>6, SameReports
          <6>2. \A g \in (f + 1)..(format' - 1) : request'.outputs[g] # path
            BY <1>0, <4>0, <5>3, <5>4, <5>6
          <6> QED
            BY <1>0, <5>6, <6>1, <6>2 DEF PathState
        <5> QED
          BY <5>2, <5>5, <5>6
      <4> QED
        BY <4>1, <4>2
    <3>3. Rendering(Format[format]) \in Content /\ outcome \in {"passed", "gated"}
      BY <1>0, <3>1, RenderingContent, ReportsAreOfAll DEF ExitJustified
    <3>4. disk' \in [Paths -> Content]
      BY <1>0, <3>1, <3>3 DEF FilesWritten
    <3> QED
      BY <1>0, <2>2, <3>1, <3>2, <3>3, <3>4 DEF FilesWritten, ExitJustified
  <2> QED
    BY <1>7, <2>1, <2>2 DEF RenderReport
<1>8. CASE Gate
  BY <1>0, <1>a, <1>8 DEF Gate, campaignVars, outputVars
<1>9. CASE Annotate \/ FinishAnnotations
  BY <1>0, <1>a, <1>9 DEF Annotate, FinishAnnotations, campaignVars, outputVars, FilesWritten, ExitJustified
<1>10. CASE UNCHANGED vars
  BY <1>0, <1>a, <1>10 DEF vars, campaignVars, outputVars, FilesWritten
<1> QED
  BY <1>1, <1>2, <1>3, <1>4, <1>5, <1>6, <1>7, <1>8, <1>9, <1>10 DEF Next, Exited

LEMMA NextLines == CommandInv /\ [Next]_vars => LinesPrinted'
<1> SUFFICES ASSUME CommandInv, [Next]_vars PROVE LinesPrinted'
  OBVIOUS
<1> USE DEF ExitWith
<1>0. /\ request' = request /\ FilesWritten /\ ExitInv /\ ExitJustified /\ LinesPrinted
  BY DEF CommandInv, ExitInv, Next, ParseArguments, RunCampaign, ReportRefusal, PrintTerminal,
         SkipReport, CreateReport, RenderReport, Gate, Annotate, FinishAnnotations, Exited, vars
<1>a. ASSUME UNCHANGED <<verdicts, printed, cursor, annotated>>,
             phase' \in {"files", "render", "annotate"} \/ format' > 1 \/ exit' = 1 =>
               phase \in {"files", "render", "annotate"} \/ format > 1 \/ exit = 1,
             phase' \notin {"annotate", "exited"} => phase \notin {"annotate", "exited"},
             phase' # "exited" => phase # "exited",
             exit' = 1 /\ request.github => exit = 1 \/ (phase = "annotate" /\ cursor = N + 1)
      PROVE  LinesPrinted'
  <2>1. [m \in Mutant |-> TerminalSays(m)]' = [m \in Mutant |-> TerminalSays(m)]
    BY <1>a, SameReports DEF Mutant
  <2>2. \A m \in Mutant : Note(m)' = Note(m)
    BY <1>a, SameReports
  <2>3. phase = "annotate" /\ cursor = N + 1 => \A m \in Mutant : annotated[m] = Note(m)
    BY <1>0, CommandAssumption DEF LinesPrinted, Mutant
  <2> QED
    BY <1>0, <1>a, <2>1, <2>2, <2>3 DEF LinesPrinted
<1>1. CASE ParseArguments \/ ReportRefusal
  BY <1>0, <1>a, <1>1
  DEF ParseArguments, ReportRefusal, ExitJustified, campaignVars, outputVars
<1>2. CASE RunCampaign
  <2>1. /\ phase = "campaign" /\ phase' = phase /\ exit' = exit /\ exit = -1
        /\ UNCHANGED outputVars /\ format = 1 /\ cursor = 1
    BY <1>0, <1>2 DEF RunCampaign, ExitJustified, FilesWritten, LinesPrinted
  <2>2. \A m \in Mutant : ~(m < 1) /\ annotated[m] = "nothing"
    BY <1>0, <2>1 DEF LinesPrinted, Mutant
  <2> QED
    BY <1>0, <2>1, <2>2 DEF LinesPrinted, outputVars
<1>3. CASE PrintTerminal
  <2>1. CASE phase' = "exited"
    BY <1>0, <1>a, <1>3, <2>1 DEF PrintTerminal, ExitJustified, campaignVars
  <2>2. CASE phase' = "files"
    <3>1. /\ UNCHANGED <<verdicts, cursor, annotated, exit>> /\ phase = "campaign" /\ exit = -1
          /\ printed' = [m \in Mutant |-> TerminalSays(m)]
      BY <1>0, <1>3, <2>2 DEF PrintTerminal, ExitJustified, campaignVars
    <3>2. [m \in Mutant |-> TerminalSays(m)]' = printed'
      BY <3>1, SameReports DEF Mutant
    <3> QED
      BY <1>0, <2>2, <3>1, <3>2, SameReports DEF LinesPrinted
  <2> QED
    BY <1>3, <2>1, <2>2 DEF PrintTerminal
<1>4. CASE SkipReport \/ CreateReport \/ RenderReport
  <2>1. /\ UNCHANGED <<verdicts, printed, cursor, annotated>> /\ phase \in {"files", "render"}
        /\ phase' \in {"files", "render", "exited"} /\ exit' # 1
    BY <1>0, <1>4 DEF SkipReport, CreateReport, RenderReport, ExitJustified, campaignVars
  <2> QED
    BY <1>a, <2>1
<1>5. CASE Gate
  BY <1>0, <1>a, <1>5 DEF Gate, ExitJustified, campaignVars, outputVars
<1>6. CASE Annotate
  <2>0. /\ phase = "annotate" /\ cursor \in Mutant /\ UNCHANGED <<verdicts, outcome, printed, format>>
        /\ exit = -1 /\ VerdictsHonest /\ Decided
    BY <1>0, <1>6, CommandAssumption, ReportsAreOfAll
    DEF Annotate, campaignVars, LinesPrinted, Mutant, ExitJustified
  <2>1. CASE phase' = "exited"
    BY <1>0, <1>a, <1>6, <2>0, <2>1 DEF Annotate
  <2>2. CASE phase' # "exited"
    <3>1. phase' = "annotate" /\ cursor' = cursor + 1 /\ cursor' \in 1..(N + 1) /\ exit' = exit
      BY <1>6, <2>0, <2>2, CommandAssumption DEF Annotate, Mutant
    <3>2. \A m \in Mutant : annotated'[m] = IF m = cursor THEN Note(m) ELSE annotated[m]
      <4>1. CASE verdicts[cursor] = "killed"
        <5>1. Note(cursor) = "nothing" /\ annotated' = annotated
          BY <1>6, <2>2, <4>1 DEF Annotate, Note, TerminalSays, Scored
        <5>2. annotated[cursor] = "nothing"
          BY <1>0, <2>0 DEF LinesPrinted, Mutant
        <5> QED
          BY <5>1, <5>2
      <4>2. CASE verdicts[cursor] # "killed"
        <5>1. annotated' = [annotated EXCEPT ![cursor] =
                IF verdicts[cursor] \in Unscored THEN "problem" ELSE "survived"]
          BY <1>6, <2>2, <4>2 DEF Annotate
        <5>2. Note(cursor) = IF verdicts[cursor] \in Unscored THEN "problem" ELSE "survived"
          BY <2>0, <4>2 DEF Note, TerminalSays, Decided, VerdictsHonest, Scored, Unscored
        <5> QED
          BY <1>0, <2>0, <5>1, <5>2 DEF LinesPrinted
      <4> QED
        BY <4>1, <4>2
    <3>3. \A m \in Mutant : annotated'[m] = IF m < cursor' THEN Note(m) ELSE "nothing"
      BY <1>0, <2>0, <3>1, <3>2 DEF LinesPrinted, Mutant
    <3>4. annotated' \in [Mutant -> Word]
      BY <1>0, <1>6, <2>0 DEF Annotate, LinesPrinted, Word
    <3>5. [m \in Mutant |-> TerminalSays(m)]' = [m \in Mutant |-> TerminalSays(m)]
      BY <2>0, SameReports DEF Mutant
    <3> QED
      BY <1>0, <2>0, <3>1, <3>3, <3>4, <3>5, SameReports DEF LinesPrinted
  <2> QED
    BY <2>1, <2>2
<1>7. CASE FinishAnnotations
  BY <1>0, <1>a, <1>7 DEF FinishAnnotations, campaignVars, outputVars
<1>8. CASE UNCHANGED vars
  BY <1>0, <1>a, <1>8 DEF vars, campaignVars, outputVars
<1> QED
  BY <1>1, <1>2, <1>3, <1>4, <1>5, <1>6, <1>7, <1>8 DEF Next, Exited

LEMMA InitCommandInv == Init => CommandInv
<1> SUFFICES ASSUME Init PROVE CommandInv
  OBVIOUS
<1>1. /\ verdicts = [m \in Mutant |-> "none"] /\ outcome = "open" /\ phase = "arguments"
      /\ format = 1 /\ disk = [p \in Paths |-> Old] /\ cursor = 1 /\ annotated = Silent /\ exit = -1
  BY DEF Init, Campaign!Init, Campaign!Mutant, Campaign!Undecided, Mutant
<1>2. ExitInv
  BY InvInit
<1>3. InputJudged
  BY <1>1, RequestAssumption DEF Init, InputJudged
<1>4. FilesWritten
  BY <1>1 DEF FilesWritten, PathState, Content, Judged
<1>5. LinesPrinted
  BY <1>1, CommandAssumption DEF LinesPrinted, Silent, Word, Mutant
<1> QED
  BY <1>2, <1>3, <1>4, <1>5 DEF CommandInv

LEMMA NextCommandInv == CommandInv /\ [Next]_vars => CommandInv'
BY InvNext, NextJudged, NextFiles, NextLines DEF CommandInv

(* In every reachable state the exit code is justified, only an accepted   *)
(* request has been judged, and files, terminal and annotations hold what  *)
(* the command has written so far.                                         *)
THEOREM CommandInvariance == SafeSpec => []CommandInv
BY InitCommandInv, NextCommandInv, PTL DEF SafeSpec

(* Values that flags, policy or Run forbid never judge a mutant, and never *)
(* end with exit code 0 or 1.                                              *)
THEOREM BadValuesAreRefused == SafeSpec => []BadValuesRefused
<1>1. ASSUME CommandInv, ~BadValuesRefused PROVE FALSE
  <2>1. ~(Accepted /\ RunAccepts)
    BY <1>1 DEF BadValuesRefused, Accepted, RunAccepts, PolicyAccepted, FlagsAccepted,
                SharedChecks, CommandInv, InputJudged, Request
  <2>2. (\A m \in Mutant : verdicts[m] = "none") /\ outcome \notin {"passed", "gated"}
    BY <1>1, <2>1 DEF CommandInv, InputJudged
  <2>3. verdicts = [m \in Mutant |-> "none"]
    BY <1>1, <2>2 DEF CommandInv, ExitInv, VerdictsHonest
  <2>4. ~Judged
    BY <1>1, <2>2 DEF CommandInv, ExitInv, ExitJustified, Judged
  <2> QED
    BY <1>1, <2>3, <2>4 DEF BadValuesRefused
<1> QED
  BY <1>1, CommandInvariance, PTL

(* Reports come in their order, and exit codes 0 and 1 promise all of them.*)
THEOREM ReportsAreDelivered == SafeSpec => []ReportsDelivered
<1>0. \A f \in 1..4 : f \in Nat
  OBVIOUS
<1>1. ASSUME CommandInv, Judged, NEW f \in 1..4, Asked(f), Owner(f)
      PROVE  disk[request.outputs[f]] = Rendering(Format[f])
  <2>1. /\ format = 5 /\ request.outputs[f] \in Paths /\ PathState(request.outputs[f])
    BY <1>1 DEF CommandInv, FilesWritten, InputJudged, Request, Asked
  <2>2. PICK g \in 1..4 :
          /\ request.outputs[g] = request.outputs[f]
          /\ disk[request.outputs[f]] = Rendering(Format[g])
          /\ \A h \in (g + 1)..4 : request.outputs[h] # request.outputs[f]
    BY <2>1 DEF PathState
  <2>3. ~(f < g) /\ ~(g < f)
    BY <1>1, <2>2 DEF Owner
  <2> QED
    BY <2>2, <2>3
<1>2. ASSUME CommandInv, NEW f \in 1..4, NEW g \in 1..4, f < g, Asked(f), Asked(g),
             request.outputs[f] # request.outputs[g], Owner(f), Owner(g),
             disk[request.outputs[g]] \in {Truncated, Rendering(Format[g])},
             disk[request.outputs[f]] = Truncated
      PROVE  FALSE
  <2>1. /\ format \in 1..5 /\ request.outputs[f] \in Paths /\ request.outputs[g] \in Paths
        /\ PathState(request.outputs[f]) /\ PathState(request.outputs[g])
    BY <1>2 DEF CommandInv, FilesWritten, InputJudged, Request, Asked
  <2>2. format \in 1..4 /\ Path = request.outputs[f]
    BY <1>2, <2>1, RenderingsDiffer DEF PathState
  <2>3. ~(f < format)
    BY <1>2, <2>2 DEF Owner, Path
  <2>4. PICK h \in 1..(format - 1) : disk[request.outputs[g]] = Rendering(Format[h])
    BY <1>2, <2>1, <2>2, RenderingsDiffer DEF PathState
  <2>5. h \in 1..4 /\ h # g
    BY <1>2, <2>2, <2>3
  <2> QED
    BY <1>2, <2>4, <2>5, RenderingsDiffer
<1>3. ASSUME CommandInv PROVE ReportsDelivered
  <2>1. outcome \in {"open", "refused"} => disk = [p \in Paths |-> Old]
    BY <1>3 DEF CommandInv, FilesWritten
  <2> QED
    BY <1>1, <1>2, <1>3, <2>1 DEF ReportsDelivered, ReportsInOrder
<1> QED
  BY <1>3, CommandInvariance, PTL

(* Terminal, files and annotations never contradict each other.            *)
THEOREM OutputsDoAgree == SafeSpec => []OutputsAgree
<1>1. ASSUME CommandInv, NEW p \in Paths, disk[p] \notin {Old, Truncated}
      PROVE  disk[p].says = printed
  <2>1. PICK f \in 1..(format - 1) : disk[p] = Rendering(Format[f])
    BY <1>1 DEF CommandInv, FilesWritten, PathState
  <2>2. f \in 1..4 /\ format > 1 /\ outcome \in {"passed", "gated"}
    BY <1>1, <2>1 DEF CommandInv, FilesWritten, ExitInv, OutcomeDeserved
  <2>3. VerdictsHonest /\ Decided
    BY <1>1, <2>2, ReportsAreOfAll DEF CommandInv
  <2> QED
    BY <1>1, <2>1, <2>2, <2>3, RenderingContent DEF CommandInv, LinesPrinted
<1>2. ASSUME CommandInv, exit = 1, request.github, NEW m \in Mutant
      PROVE  annotated[m] = IF printed[m] = "killed" THEN "nothing" ELSE printed[m]
  BY <1>2 DEF CommandInv, LinesPrinted, Note
<1>3. CommandInv => OutputsAgree
  BY <1>1, <1>2 DEF OutputsAgree
<1> QED
  BY <1>3, CommandInvariance, PTL
=============================================================================
