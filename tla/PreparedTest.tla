---------------------------- MODULE PreparedTest ----------------------------
(***************************************************************************)
(* internal/promtool/runner.go: what promtool loads for one mutant.        *)
(* Execute writes the mutated rules into a workspace, and prepareTestFile  *)
(* rewrites every test file so that it loads them instead of the original. *)
(*                                                                         *)
(* A path is a pair of a directory and a name; all paths are absolute and  *)
(* clean.  Globs are matched by Matches, also the paths that Tubicen       *)
(* writes, since promtool takes every entry of rule_files for a glob.  The *)
(* sorted list without duplicates that uniqueSorted makes is a set.        *)
(***************************************************************************)
EXTENDS Integers, Sequences, SequencesExt

CONSTANTS Disk,       (* existing source path -> path without symbolic links *)
          Target,     (* File.Path of the mutated rules                    *)
          Suites,     (* sequences of test files                           *)
          Matches,    (* pattern of a name -> the names it matches         *)
          BadPatterns,(* patterns that filepath.Glob refuses               *)
          TestNames,  (* index of a test -> test-000.yml, test-001.yml ... *)
          JUnitNames  (* index of a test -> junit-000.xml ...              *)

Workspace == "workspace"
Mutant    == <<"mutant">>    (* contents of files in the workspace         *)
Prepared  == <<"prepared">>
JUnit     == <<"junit">>

(* Validate refuses a configuration without tests; the workspace is new.   *)
ASSUME SuitesKnown ==
  /\ Suites \subseteq
       Seq([valid : BOOLEAN, directory : STRING,
            rule_files : Seq([kind : STRING, directory : STRING, pattern : STRING])])
  /\ \A s \in Suites :
       /\ DOMAIN s # {} /\ DOMAIN s \subseteq DOMAIN TestNames \cap DOMAIN JUnitNames
       /\ \A i \in DOMAIN s :
            /\ s[i].directory # Workspace
            /\ \A e \in ToSet(s[i].rule_files) : e.directory # Workspace

ASSUME PathsKnown ==
  /\ Target \in DOMAIN Disk
  /\ \A p \in DOMAIN Disk : p[1] # Workspace /\ p[2] \in DOMAIN Matches

(* The code relies on two facts about names without checking them.  A name *)
(* matches itself when promtool takes it for a pattern (alerts[prod].yml   *)
(* does not), and the workspace's own names are not those of rule files.   *)
ASSUME PlainNames ==
  \A p \in DOMAIN Disk : /\ Matches[p[2]] = {p[2]}
                         /\ p[2] \notin Range(TestNames) \cup Range(JUnitNames)

VARIABLES suite,      (* testFiles                                         *)
          test,       (* index of the test file                            *)
          entry,      (* index of its entry of rule_files                  *)
          resolved,   (* the entries it will have                          *)
          referencesTarget,
          tested,
          workspace,  (* name -> content                                   *)
          loaded,     (* test -> what promtool loaded for it, if it ran    *)
          phase       (* "write", "prepare", "run", "error", "untested", "survived" *)

vars == <<suite, test, entry, resolved, referencesTarget, tested, workspace, loaded, phase>>

MutatedPath == <<Workspace, Target[2]>>

Init ==
  /\ suite \in Suites
  /\ test = 1 /\ entry = 1 /\ resolved = {}
  /\ referencesTarget = FALSE /\ tested = FALSE
  /\ workspace = [name \in {} |-> Mutant]
  /\ loaded = [i \in {} |-> {}]
  /\ phase = "write"

-----------------------------------------------------------------------------
(* Paths.                                                                  *)

Exists(path) == IF path[1] = Workspace THEN path[2] \in DOMAIN workspace
                                       ELSE path \in DOMAIN Disk

(* External: filepath.Glob.                                                *)
Glob(pattern) ==
  IF pattern[2] \notin DOMAIN Matches THEN {}
  ELSE {path \in {<<pattern[1], name>> : name \in Matches[pattern[2]]} : Exists(path)}

(* Mutant: names are compared, links are not followed.                     *)
samePathByName(left, right) == left = right

samePath(left, right) ==
  IF left \in DOMAIN Disk /\ right \in DOMAIN Disk
  THEN Disk[left] = Disk[right]
  ELSE left = right

(* Mutant: the entry is left relative to wherever the test file is.        *)
InDirectoryKept(directory, e) == <<e.directory, e.pattern>>

(* A relative entry, whose directory is ".", is joined to the directory of *)
(* the test file.                                                          *)
InDirectory(directory, e) ==
  <<IF e.directory = "." THEN directory ELSE e.directory, e.pattern>>

-----------------------------------------------------------------------------
(* Execute and prepareTestFile.                                            *)

File == suite[test]

With(f, key, value) ==
  [x \in DOMAIN f \cup {key} |-> IF x = key THEN value ELSE f[x]]

WriteMutated ==
  /\ phase = "write"
  /\ workspace' = With(workspace, Target[2], Mutant)
  /\ phase' = "prepare"
  /\ UNCHANGED <<suite, test, entry, resolved, referencesTarget, tested, loaded>>

(* A file that cannot be read, is no mapping or has no rule_files sequence.*)
RefuseFile ==
  /\ phase = "prepare" /\ entry = 1 /\ ~File.valid
  /\ phase' = "error"
  /\ UNCHANGED <<suite, test, entry, resolved, referencesTarget, tested, workspace, loaded>>

AtEntry == phase = "prepare" /\ File.valid /\ entry <= Len(File.rule_files)

SkipEntry ==
  /\ AtEntry /\ File.rule_files[entry].kind # "scalar"
  /\ entry' = entry + 1
  /\ UNCHANGED <<suite, test, resolved, referencesTarget, tested, workspace, loaded, phase>>

RefusePattern ==
  /\ AtEntry /\ File.rule_files[entry].kind = "scalar"
  /\ File.rule_files[entry].pattern \in BadPatterns
  /\ phase' = "error"
  /\ UNCHANGED <<suite, test, entry, resolved, referencesTarget, tested, workspace, loaded>>

(* The matches of a pattern; without any, its own name.                    *)
Found(pattern) == IF Glob(pattern) = {} THEN {pattern} ELSE Glob(pattern)

ResolveEntry ==
  /\ AtEntry /\ File.rule_files[entry].kind = "scalar"
  /\ File.rule_files[entry].pattern \notin BadPatterns
  /\ LET found == Found(InDirectory(File.directory, File.rule_files[entry]))
         hits  == {path \in found : samePath(path, Target)}
     IN  /\ resolved' = resolved \cup (found \ hits)
                          \cup (IF hits = {} THEN {} ELSE {MutatedPath})
         /\ referencesTarget' = (referencesTarget \/ hits # {})
  /\ entry' = entry + 1
  /\ UNCHANGED <<suite, test, tested, workspace, loaded, phase>>

NextTest ==
  /\ test' = test + 1 /\ entry' = 1 /\ resolved' = {} /\ referencesTarget' = FALSE

Skips == ~referencesTarget

(* The prepared file is written also when the suite will be skipped.       *)
WritePrepared ==
  /\ phase = "prepare" /\ File.valid /\ entry > Len(File.rule_files)
  /\ workspace' = With(workspace, TestNames[test], Prepared)
  /\ IF Skips
     THEN NextTest /\ UNCHANGED tested
          /\ phase' = IF test < Len(suite) THEN "prepare"
                      ELSE IF tested THEN "survived" ELSE "untested"
     ELSE phase' = "run" /\ tested' = TRUE
          /\ UNCHANGED <<test, entry, resolved, referencesTarget>>
  /\ UNCHANGED <<suite, loaded>>

(* External: promtool globs the entries again and loads what it finds.  A  *)
(* file is known by its path, in the workspace by its content.             *)
Content(path) == IF path[1] = Workspace THEN workspace[path[2]] ELSE path
LoadedBy(patterns) == {Content(path) : path \in UNION {Glob(p) : p \in patterns}}

(* The test passes; one that fails ends the loop and is no other case.     *)
RunTest ==
  /\ phase = "run"
  /\ loaded' = With(loaded, test, LoadedBy(resolved))
  /\ workspace' = With(workspace, JUnitNames[test], JUnit)
  /\ NextTest
  /\ phase' = IF test < Len(suite) THEN "prepare" ELSE "survived"
  /\ UNCHANGED <<suite, tested>>

Next == \/ WriteMutated \/ RefuseFile \/ SkipEntry \/ RefusePattern
        \/ ResolveEntry \/ WritePrepared \/ RunTest

Spec == Init /\ [][Next]_vars

-----------------------------------------------------------------------------
(* Properties.                                                             *)

(* What promtool loads for the original test file: it joins relative       *)
(* entries to the directory of the test, too.  It would also load what an  *)
(* alias names; prepareTestFile drops such an entry, so the properties are *)
(* about entries that are written out.                                     *)
LoadedOriginally(i) ==
  LET patterns == {<<IF e.directory = "." THEN suite[i].directory ELSE e.directory, e.pattern>> :
                     e \in {x \in ToSet(suite[i].rule_files) : x.kind = "scalar"}}
  IN  UNION {Glob(p) : p \in patterns}

LoadsTarget(i) == \E path \in LoadedOriginally(i) : Disk[path] = Disk[Target]

(* docs/architecture.md:120-125: a prepared test loads what the original   *)
(* test loads, with every name of the target replaced by the mutated rules,*)
(* wherever the file lies and however its entries are written.             *)
PreparedLoadsTheSame ==
  \A i \in DOMAIN loaded :
    loaded[i] = {IF Disk[path] = Disk[Target] THEN Mutant ELSE path :
                   path \in LoadedOriginally(i)}

(* docs/architecture.md:127: suites that do not load the target, under any *)
(* name, are skipped, and no others; a mutant survives only if a test that *)
(* passed has loaded it.                                                   *)
SuitesSkippedExactly ==
  /\ phase \in {"untested", "survived"} =>
       \A i \in DOMAIN suite : i \in DOMAIN loaded <=> LoadsTarget(i)
  /\ phase = "survived" => \E i \in DOMAIN loaded : Mutant \in loaded[i]
=============================================================================
