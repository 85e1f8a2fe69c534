------------------------- MODULE PreparedTestProofs -------------------------
(***************************************************************************)
(* What promtool loads for a mutant, for every disk, every target and all  *)
(* test files with whatever entries: the same files as before, the mutant  *)
(* in the place of the target; and the suites that are skipped are those   *)
(* that do not load the target.                                            *)
(***************************************************************************)
EXTENDS PreparedTest, SequenceTheorems, TLAPS

-----------------------------------------------------------------------------
(* Paths on the disk, where nothing changes.                               *)

OnDisk(pattern) ==
  IF pattern[2] \notin DOMAIN Matches THEN {}
  ELSE {path \in {<<pattern[1], name>> : name \in Matches[pattern[2]]} : path \in DOMAIN Disk}

IsTarget(path) == Disk[path] = Disk[Target]

LEMMA GlobOnDisk ==
  ASSUME NEW pattern, pattern[1] # Workspace
  PROVE  Glob(pattern) = OnDisk(pattern)
BY DEF Glob, OnDisk, Exists

(* An existing file is found under its own name.                           *)
LEMMA FoundPaths ==
  ASSUME NEW pattern, pattern[1] # Workspace, NEW path \in OnDisk(pattern)
  PROVE  /\ path \in DOMAIN Disk /\ path[1] # Workspace
         /\ OnDisk(path) = {path}
         /\ samePath(path, Target) <=> IsTarget(path)
<1>1. PICK name \in Matches[pattern[2]] : path = <<pattern[1], name>>
  BY DEF OnDisk
<1>2. path \in DOMAIN Disk /\ path[1] = pattern[1] /\ path[2] = name
  BY <1>1 DEF OnDisk
<1>3. path[2] \in DOMAIN Matches /\ Matches[path[2]] = {path[2]}
  BY <1>2, PathsKnown, PlainNames
<1>4. OnDisk(path) = {path}
  BY <1>1, <1>2, <1>3 DEF OnDisk
<1>5. samePath(path, Target) <=> IsTarget(path)
  BY <1>2, PathsKnown DEF samePath, IsTarget
<1> QED
  BY <1>2, <1>4, <1>5

(* A pattern without a match stays without one, and is not the target.     *)
LEMMA NothingFound ==
  ASSUME NEW pattern, pattern[1] # Workspace, OnDisk(pattern) = {},
         pattern = <<pattern[1], pattern[2]>>
  PROVE  ~samePath(pattern, Target)
<1>1. SUFFICES ASSUME pattern \in DOMAIN Disk PROVE FALSE
  BY PathsKnown DEF samePath
<1>2. pattern[2] \in DOMAIN Matches /\ pattern[2] \in Matches[pattern[2]]
  BY <1>1, PathsKnown, PlainNames
<1>3. pattern \in OnDisk(pattern)
  BY <1>1, <1>2 DEF OnDisk
<1> QED
  BY <1>3

-----------------------------------------------------------------------------
(* The entries of a test file.                                             *)

Entries(i) == suite[i].rule_files
Scalars(i, n) == {j \in 1..n : Entries(i)[j].kind = "scalar"}
Pattern(i, j) == InDirectory(suite[i].directory, Entries(i)[j])

(* What the first n entries of a test name.                                *)
Named(i, n) == UNION {OnDisk(Pattern(i, j)) : j \in Scalars(i, n)}
AllNamed(i) == Named(i, Len(Entries(i)))

LEMMA SuiteShape ==
  ASSUME suite \in Suites
  PROVE  /\ Len(suite) \in Nat \ {0} /\ DOMAIN suite = 1..Len(suite)
         /\ \A i \in 1..Len(suite) :
              /\ i \in DOMAIN TestNames /\ i \in DOMAIN JUnitNames
              /\ Len(Entries(i)) \in Nat /\ DOMAIN Entries(i) = 1..Len(Entries(i))
              /\ suite[i].directory # Workspace
              /\ \A j \in 1..Len(Entries(i)) : Entries(i)[j].directory # Workspace
<1> DEFINE Records == [valid : BOOLEAN, directory : STRING,
            rule_files : Seq([kind : STRING, directory : STRING, pattern : STRING])]
<1>1. suite \in Seq(Records)
  BY SuitesKnown
<1> HIDE DEF Records
<1>2. Len(suite) \in Nat /\ DOMAIN suite = 1..Len(suite)
  BY <1>1
<1>3. \A i \in 1..Len(suite) : suite[i] \in Records
  BY <1>1
<1>4. \A i \in 1..Len(suite) : Entries(i) \in Seq([kind : STRING, directory : STRING, pattern : STRING])
  BY <1>3 DEF Records, Entries
<1>5. \A i \in 1..Len(suite) : Len(Entries(i)) \in Nat /\ DOMAIN Entries(i) = 1..Len(Entries(i))
  BY <1>4
<1>6. \A i \in 1..Len(suite) : \A j \in 1..Len(Entries(i)) : Entries(i)[j].directory # Workspace
  BY <1>2, <1>5, SuitesKnown DEF Entries, ToSet
<1> QED
  BY <1>2, <1>5, <1>6, SuitesKnown

LEMMA PatternsOutside ==
  ASSUME suite \in Suites, NEW i \in 1..Len(suite), NEW j \in 1..Len(Entries(i))
  PROVE  Pattern(i, j)[1] # Workspace /\ Pattern(i, j) = <<Pattern(i, j)[1], Pattern(i, j)[2]>>
BY SuiteShape DEF Pattern, InDirectory

(* The first n entries and the next.                                       *)
LEMMA NamedByNext ==
  ASSUME NEW i, NEW n \in Nat
  PROVE  /\ Named(i, 0) = {}
         /\ Entries(i)[n + 1].kind = "scalar" =>
              Named(i, n + 1) = Named(i, n) \cup OnDisk(Pattern(i, n + 1))
         /\ Entries(i)[n + 1].kind # "scalar" => Named(i, n + 1) = Named(i, n)
<1>1. Scalars(i, 0) = {}
  BY DEF Scalars
<1>2. Scalars(i, n + 1) = Scalars(i, n) \cup (IF Entries(i)[n + 1].kind = "scalar" THEN {n + 1} ELSE {})
  BY DEF Scalars
<1>3. ASSUME Entries(i)[n + 1].kind = "scalar"
      PROVE  Named(i, n + 1) = Named(i, n) \cup OnDisk(Pattern(i, n + 1))
  BY <1>2, <1>3 DEF Named
<1>4. ASSUME Entries(i)[n + 1].kind # "scalar" PROVE Named(i, n + 1) = Named(i, n)
  <2>1. Scalars(i, n + 1) = Scalars(i, n)
    BY <1>2, <1>4
  <2> QED
    BY <2>1, Zenon DEF Named
<1> QED
  BY <1>1, <1>3, <1>4 DEF Named

LEMMA NamedPaths ==
  ASSUME suite \in Suites, NEW i \in 1..Len(suite), NEW n \in 0..Len(Entries(i)),
         NEW path \in Named(i, n)
  PROVE  /\ path \in DOMAIN Disk /\ path[1] # Workspace /\ OnDisk(path) = {path}
<1>1. PICK j \in Scalars(i, n) : path \in OnDisk(Pattern(i, j))
  BY DEF Named
<1>2. j \in 1..Len(Entries(i))
  BY SuiteShape DEF Scalars
<1> QED
  BY <1>1, <1>2, PatternsOutside, FoundPaths

(* Promtool's view of the original test file.                              *)
LEMMA OriginalIsNamed ==
  ASSUME suite \in Suites, NEW i \in 1..Len(suite)
  PROVE  LoadedOriginally(i) = AllNamed(i)
<1> DEFINE scalars == {x \in ToSet(suite[i].rule_files) : x.kind = "scalar"}
           joined(e) == <<IF e.directory = "." THEN suite[i].directory ELSE e.directory, e.pattern>>
<1>1. LoadedOriginally(i) = UNION {Glob(p) : p \in {joined(e) : e \in scalars}}
  BY DEF LoadedOriginally
<1>2. \A j \in Scalars(i, Len(Entries(i))) :
        Entries(i)[j] \in scalars /\ Pattern(i, j) = joined(Entries(i)[j])
        /\ Glob(Pattern(i, j)) = OnDisk(Pattern(i, j))
  BY SuiteShape, PatternsOutside, GlobOnDisk DEF Scalars, Entries, ToSet, Pattern, InDirectory
<1>3. \A e \in scalars : \E j \in Scalars(i, Len(Entries(i))) : e = Entries(i)[j]
  BY SuiteShape DEF Scalars, Entries, ToSet
<1> HIDE DEF scalars, joined
<1> QED
  BY <1>1, <1>2, <1>3 DEF AllNamed, Named

-----------------------------------------------------------------------------
(* The inductive invariant.                                                *)

Open == phase \in {"write", "prepare", "run"}

PhaseInv ==
  /\ suite \in Suites
  /\ phase \in {"write", "prepare", "run", "error", "untested", "survived"}
  /\ Open => test \in 1..Len(suite) /\ entry \in 1..(Len(Entries(test)) + 1)
  /\ phase \in {"untested", "survived"} => test = Len(suite) + 1
  /\ phase = "error" => test \in 1..Len(suite)
  /\ phase = "run" => entry = Len(Entries(test)) + 1

(* Only what refers to the target is run.                                  *)
RunsReferring == phase = "run" => referencesTarget

(* The mutated rules stay where prepared tests name them.                  *)
MutantKept ==
  phase # "write" => Target[2] \in DOMAIN workspace /\ workspace[Target[2]] = Mutant

(* The entries resolved so far load what the original ones name, with the  *)
(* mutant for the target; names without a file load nothing.               *)
EntriesResolved ==
  Open =>
    LET named == Named(test, entry - 1)
    IN  /\ \A path \in resolved :
             \/ path = MutatedPath
             \/ path \in named /\ ~IsTarget(path)
             \/ path[1] # Workspace /\ OnDisk(path) = {}
        /\ \A path \in named : IsTarget(path) \/ path \in resolved
        /\ MutatedPath \in resolved <=> \E path \in named : IsTarget(path)
        /\ referencesTarget <=> \E path \in named : IsTarget(path)

Expected(i) == {IF IsTarget(path) THEN Mutant ELSE path : path \in AllNamed(i)}
Loads(i)    == \E path \in AllNamed(i) : IsTarget(path)

TestsLoaded ==
  /\ DOMAIN loaded \subseteq 1..Len(suite)
  /\ \A i \in DOMAIN loaded : loaded[i] = Expected(i) /\ Loads(i)
  /\ phase # "error" => \A i \in 1..(test - 1) : Loads(i) => i \in DOMAIN loaded
  /\ phase = "run" => tested
  /\ tested => phase = "run" \/ DOMAIN loaded # {}
  /\ phase = "survived" => tested

PreparedInv == PhaseInv /\ RunsReferring /\ MutantKept /\ EntriesResolved /\ TestsLoaded

-----------------------------------------------------------------------------
(* What promtool loads.                                                    *)

LEMMA LoadedAsExpected ==
  ASSUME PhaseInv, MutantKept, EntriesResolved, phase = "run"
  PROVE  LoadedBy(resolved) = Expected(test)
<1>1. /\ suite \in Suites /\ test \in 1..Len(suite) /\ Len(Entries(test)) \in Nat
      /\ Named(test, entry - 1) = AllNamed(test)
  BY SuiteShape DEF PhaseInv, Open, AllNamed
<1>2. \A path \in AllNamed(test) :
        path \in DOMAIN Disk /\ path[1] # Workspace /\ OnDisk(path) = {path}
  BY <1>1, NamedPaths DEF AllNamed
<1>3. Glob(MutatedPath) = {MutatedPath} /\ Content(MutatedPath) = Mutant
  <2>1. Target[2] \in DOMAIN Matches /\ Matches[Target[2]] = {Target[2]}
    BY PathsKnown, PlainNames
  <2>2. Target[2] \in DOMAIN workspace /\ workspace[Target[2]] = Mutant
    BY DEF MutantKept
  <2> QED
    BY <2>1, <2>2 DEF Glob, MutatedPath, Exists, Content
<1>4. \A path : path[1] # Workspace => Glob(path) = OnDisk(path) /\ Content(path) = path
  BY GlobOnDisk DEF Content
<1>5. /\ \A path \in resolved :
           \/ path = MutatedPath
           \/ path \in AllNamed(test) /\ ~IsTarget(path)
           \/ path[1] # Workspace /\ OnDisk(path) = {}
      /\ \A path \in AllNamed(test) : IsTarget(path) \/ path \in resolved
      /\ MutatedPath \in resolved <=> Loads(test)
  BY <1>1 DEF EntriesResolved, Open, Loads
<1>6. ASSUME NEW c \in LoadedBy(resolved) PROVE c \in Expected(test)
  <2>1. PICK p \in resolved : \E q \in Glob(p) : c = Content(q)
    BY DEF LoadedBy
  <2>2. CASE p = MutatedPath
    <3>1. c = Mutant /\ Loads(test)
      BY <2>1, <2>2, <1>3, <1>5
    <3> QED
      BY <3>1 DEF Loads, Expected
  <2>3. CASE p \in AllNamed(test) /\ ~IsTarget(p)
    <3>1. c = p
      BY <2>1, <2>3, <1>2, <1>4
    <3> QED
      BY <3>1, <2>3 DEF Expected
  <2> QED
    BY <2>1, <2>2, <2>3, <1>4, <1>5
<1>7. ASSUME NEW c \in Expected(test) PROVE c \in LoadedBy(resolved)
  <2>1. PICK path \in AllNamed(test) : c = IF IsTarget(path) THEN Mutant ELSE path
    BY DEF Expected
  <2>2. CASE IsTarget(path)
    <3>1. MutatedPath \in resolved
      BY <2>2, <1>5 DEF Loads
    <3> QED
      BY <3>1, <2>1, <2>2, <1>3 DEF LoadedBy
  <2>3. CASE ~IsTarget(path)
    <3>1. path \in resolved /\ Glob(path) = {path} /\ Content(path) = path
      BY <2>3, <1>2, <1>4, <1>5
    <3> QED
      BY <3>1, <2>1, <2>3 DEF LoadedBy
  <2> QED
    BY <2>2, <2>3
<1> QED
  BY <1>6, <1>7

-----------------------------------------------------------------------------
(* The steps.                                                              *)

LEMMA InitPrepared == Init => PreparedInv
<1> SUFFICES ASSUME Init PROVE PreparedInv
  OBVIOUS
<1>1. PhaseInv
  BY SuiteShape DEF Init, PhaseInv, Open
<1>2. MutantKept
  BY DEF Init, MutantKept
<1>3. EntriesResolved
  BY NamedByNext DEF Init, EntriesResolved
<1>4. TestsLoaded
  BY DEF Init, TestsLoaded
<1>5. RunsReferring
  BY DEF Init, RunsReferring
<1> QED
  BY <1>1, <1>2, <1>3, <1>4, <1>5 DEF PreparedInv

LEMMA NextPhase ==
  ASSUME PhaseInv, [Next]_vars
  PROVE  PhaseInv'
<1> USE SuiteShape DEF PhaseInv, Open, Entries
<1>1. CASE UNCHANGED vars
  BY <1>1 DEF vars
<1>2. CASE WriteMutated \/ RefuseFile \/ RefusePattern
  BY <1>2 DEF WriteMutated, RefuseFile, RefusePattern, AtEntry
<1>3. CASE SkipEntry \/ ResolveEntry
  BY <1>3 DEF SkipEntry, ResolveEntry, AtEntry, File
<1>4. CASE WritePrepared
  BY <1>4 DEF WritePrepared, NextTest, File
<1>5. CASE RunTest
  BY <1>5 DEF RunTest, NextTest, File
<1> QED
  BY <1>1, <1>2, <1>3, <1>4, <1>5 DEF Next

LEMMA NextReferring ==
  ASSUME RunsReferring, [Next]_vars
  PROVE  RunsReferring'
<1>1. CASE UNCHANGED vars
  BY <1>1 DEF RunsReferring, vars
<1>2. CASE WriteMutated \/ RefuseFile \/ SkipEntry \/ RefusePattern \/ ResolveEntry \/ RunTest
  <2>1. phase' # "run"
    BY <1>2 DEF WriteMutated, RefuseFile, SkipEntry, RefusePattern, ResolveEntry, AtEntry, RunTest
  <2> QED
    BY <2>1 DEF RunsReferring
<1>3. CASE WritePrepared
  <2>1. CASE Skips
    <3>1. phase' # "run"
      BY <1>3, <2>1 DEF WritePrepared
    <3> QED
      BY <3>1 DEF RunsReferring
  <2>2. CASE ~Skips
    <3>1. referencesTarget' = referencesTarget
      BY <1>3, <2>2 DEF WritePrepared
    <3> QED
      BY <2>2, <3>1, Zenon DEF Skips, RunsReferring
  <2> QED
    BY <2>1, <2>2
<1> QED
  BY <1>1, <1>2, <1>3 DEF Next

LEMMA NextMutantKept ==
  ASSUME PhaseInv, MutantKept, [Next]_vars
  PROVE  MutantKept'
<1>1. CASE UNCHANGED vars \/ RefuseFile \/ SkipEntry \/ RefusePattern \/ ResolveEntry
  BY <1>1 DEF vars, RefuseFile, SkipEntry, RefusePattern, ResolveEntry, AtEntry, MutantKept
<1>2. CASE WriteMutated
  <2>1. Target[2] \in DOMAIN workspace' /\ workspace'[Target[2]] = Mutant
    BY <1>2 DEF WriteMutated, With
  <2> QED
    BY <2>1 DEF MutantKept
<1>3. CASE WritePrepared \/ RunTest
  <2>1. test \in 1..Len(suite) /\ suite \in Suites
    BY <1>3 DEF PhaseInv, Open, WritePrepared, RunTest
  <2>2. test \in DOMAIN TestNames /\ test \in DOMAIN JUnitNames
    BY <2>1, SuiteShape
  <2>3. Target[2] # TestNames[test] /\ Target[2] # JUnitNames[test]
    BY <2>2, PathsKnown, PlainNames DEF Range
  <2>4. phase # "write"
    BY <1>3 DEF WritePrepared, RunTest
  <2>5. PICK name, text : name # Target[2] /\ workspace' = With(workspace, name, text)
    BY <1>3, <2>3 DEF WritePrepared, RunTest
  <2> QED
    BY <2>4, <2>5 DEF MutantKept, With
<1> QED
  BY <1>1, <1>2, <1>3 DEF Next

(* One entry: what is found on the disk, without the target's names.       *)
LEMMA EntryFound ==
  ASSUME PhaseInv, ResolveEntry
  PROVE  LET found == OnDisk(Pattern(test, entry))
         IN  /\ \A path \in resolved' : \/ path \in resolved
                                        \/ path = MutatedPath /\ \E p \in found : IsTarget(p)
                                        \/ path \in found /\ ~IsTarget(path)
                                        \/ path[1] # Workspace /\ OnDisk(path) = {}
             /\ resolved \subseteq resolved'
             /\ \A path \in found : IsTarget(path) \/ path \in resolved'
             /\ (\E path \in found : IsTarget(path)) => MutatedPath \in resolved'
             /\ referencesTarget' <=> referencesTarget \/ \E path \in found : IsTarget(path)
<1> DEFINE pattern == Pattern(test, entry)
           onDisk  == OnDisk(pattern)
           found   == Found(pattern)
           hits    == {path \in found : samePath(path, Target)}
<1>1. /\ resolved' = resolved \cup (found \ hits) \cup (IF hits = {} THEN {} ELSE {MutatedPath})
      /\ referencesTarget' = (referencesTarget \/ hits # {})
  BY DEF ResolveEntry, Pattern, File, Entries
<1>2. pattern[1] # Workspace /\ pattern = <<pattern[1], pattern[2]>>
  <2>1. suite \in Suites /\ test \in 1..Len(suite) /\ entry \in 1..Len(Entries(test))
    BY SuiteShape DEF ResolveEntry, AtEntry, PhaseInv, Open, File, Entries
  <2> QED
    BY <2>1, PatternsOutside
<1>3. Glob(pattern) = onDisk
  BY <1>2, GlobOnDisk
<1>4. CASE onDisk = {}
  <2>1. found = {pattern} /\ hits = {}
    BY <1>2, <1>3, <1>4, NothingFound DEF Found
  <2> QED
    BY <1>1, <1>2, <1>4, <2>1
<1>5. CASE onDisk # {}
  <2>1. found = onDisk
    BY <1>3, <1>5 DEF Found
  <2>2. hits = {path \in onDisk : IsTarget(path)}
    BY <1>2, <2>1, FoundPaths
  <2> QED
    BY <1>1, <2>1, <2>2
<1> QED
  BY <1>4, <1>5

LEMMA NextEntries ==
  ASSUME PhaseInv, PhaseInv', EntriesResolved, [Next]_vars
  PROVE  EntriesResolved'
<1>1. CASE UNCHANGED vars \/ WriteMutated
  BY <1>1 DEF vars, WriteMutated, EntriesResolved, Open, Named, Scalars, Pattern, Entries
<1>2. CASE RefuseFile \/ RefusePattern
  BY <1>2 DEF RefuseFile, RefusePattern, EntriesResolved, Open
<1>3. CASE SkipEntry
  <2>1. /\ entry \in Nat \ {0} /\ entry' = entry + 1 /\ Open
        /\ UNCHANGED <<suite, test, resolved, referencesTarget>>
        /\ Entries(test)[entry].kind # "scalar"
    BY <1>3, SuiteShape DEF SkipEntry, AtEntry, PhaseInv, Open, File, Entries
  <2>0. PICK n \in Nat : entry = n + 1 /\ entry - 1 = n
    BY <2>1
  <2>2. Named(test, entry) = Named(test, entry - 1)
    <3>1. Entries(test)[n + 1].kind # "scalar"
      BY <2>1, <2>0
    <3>2. Named(test, n + 1) = Named(test, n)
      BY <3>1, NamedByNext, Zenon
    <3> QED
      BY <2>0, <3>2
  <2>3. Named(test, entry - 1)' = Named(test, entry)
    BY <2>1 DEF Named, Scalars, Pattern, Entries
  <2> QED
    BY <2>1, <2>2, <2>3 DEF EntriesResolved
<1>4. CASE ResolveEntry
  <2>1. /\ entry \in Nat \ {0} /\ entry' = entry + 1 /\ Open
        /\ UNCHANGED <<suite, test>>
        /\ Entries(test)[entry].kind = "scalar"
    BY <1>4, SuiteShape DEF ResolveEntry, AtEntry, PhaseInv, Open, File, Entries
  <2>0. PICK n \in Nat : entry = n + 1 /\ entry - 1 = n
    BY <2>1
  <2>2. Named(test, entry) = Named(test, entry - 1) \cup OnDisk(Pattern(test, entry))
    BY <2>1, <2>0, NamedByNext
  <2>3. Named(test, entry - 1)' = Named(test, entry)
    BY <2>1 DEF Named, Scalars, Pattern, Entries
  <2>4. MutatedPath \notin OnDisk(Pattern(test, entry))
    BY PathsKnown DEF OnDisk, MutatedPath
  <2> DEFINE named == Named(test, entry - 1)
             found == OnDisk(Pattern(test, entry))
  <2>5. /\ \A path \in resolved :
             \/ path = MutatedPath
             \/ path \in named /\ ~IsTarget(path)
             \/ path[1] # Workspace /\ OnDisk(path) = {}
        /\ \A path \in named : IsTarget(path) \/ path \in resolved
        /\ MutatedPath \in resolved <=> \E path \in named : IsTarget(path)
        /\ referencesTarget <=> \E path \in named : IsTarget(path)
    BY <2>1 DEF EntriesResolved
  <2>6. MutatedPath[1] = Workspace
    BY DEF MutatedPath
  <2>7. MutatedPath \in resolved' <=> MutatedPath \in resolved \/ \E path \in found : IsTarget(path)
    BY <1>4, <2>4, <2>6, EntryFound
  <2>8. /\ \A path \in resolved' :
             \/ path = MutatedPath
             \/ path \in (named \cup found) /\ ~IsTarget(path)
             \/ path[1] # Workspace /\ OnDisk(path) = {}
        /\ \A path \in (named \cup found) : IsTarget(path) \/ path \in resolved'
        /\ MutatedPath \in resolved' <=> \E path \in (named \cup found) : IsTarget(path)
        /\ referencesTarget' <=> \E path \in (named \cup found) : IsTarget(path)
    BY <1>4, <2>5, <2>7, EntryFound
  <2>9. Named(test, entry - 1)' = named \cup found
    BY <2>2, <2>3
  <2> HIDE DEF named, found
  <2> QED
    BY <2>8, <2>9, MutatedPath' = MutatedPath DEF EntriesResolved, IsTarget, OnDisk, MutatedPath
<1>5. CASE WritePrepared \/ RunTest
  <2>1. CASE entry' = 1 /\ resolved' = {} /\ referencesTarget' = FALSE
    <3>1. Named(test, entry - 1)' = {}
      BY <2>1 DEF Named, Scalars
    <3> QED
      BY <2>1, <3>1 DEF EntriesResolved
  <2>2. CASE UNCHANGED <<suite, test, entry, resolved, referencesTarget>>
    BY <1>5, <2>2 DEF EntriesResolved, Open, Named, Scalars, Pattern, Entries, WritePrepared, RunTest
  <2> QED
    BY <1>5, <2>1, <2>2 DEF WritePrepared, RunTest, NextTest
<1> QED
  BY <1>1, <1>2, <1>3, <1>4, <1>5 DEF Next

LEMMA NextTests ==
  ASSUME PreparedInv, [Next]_vars
  PROVE  TestsLoaded'
<1> USE DEF PreparedInv
<1>1. suite' = suite /\ \A i : Expected(i)' = Expected(i) /\ (Loads(i)' <=> Loads(i))
  <2>1. suite' = suite
    BY DEF Next, vars, WriteMutated, RefuseFile, SkipEntry, RefusePattern, ResolveEntry,
       WritePrepared, RunTest
  <2>2. \A i : AllNamed(i)' = AllNamed(i)
    BY <2>1 DEF AllNamed, Named, Scalars, Pattern, Entries
  <2> QED
    BY <2>1, <2>2 DEF Expected, Loads
<1>2. CASE UNCHANGED vars \/ WriteMutated \/ RefuseFile \/ SkipEntry \/ RefusePattern \/ ResolveEntry
  <2>1. /\ UNCHANGED <<test, tested, loaded>>
        /\ phase' = phase \/ phase' = "error" \/ (phase = "write" /\ phase' = "prepare")
        /\ phase \notin {"run", "error"} \/ phase' = phase
    BY <1>2 DEF vars, WriteMutated, RefuseFile, SkipEntry, RefusePattern, ResolveEntry, AtEntry
  <2> QED
    BY <1>1, <2>1 DEF TestsLoaded
<1>3. CASE WritePrepared /\ referencesTarget
  <2>1. UNCHANGED <<test, loaded>> /\ phase' = "run" /\ tested' /\ phase = "prepare"
    BY <1>3 DEF WritePrepared, Skips
  <2> QED
    BY <1>1, <2>1 DEF TestsLoaded
<1>4. CASE WritePrepared /\ ~referencesTarget
  <2>1. /\ test' = test + 1 /\ UNCHANGED <<loaded, tested>> /\ phase = "prepare"
        /\ phase' \in {"prepare", "untested", "survived"} /\ (phase' = "survived" => tested)
    BY <1>4 DEF WritePrepared, Skips, NextTest
  <2>2. test \in 1..Len(suite) /\ Len(suite) \in Nat /\ Named(test, entry - 1) = AllNamed(test)
    <3>1. /\ test \in 1..Len(suite) /\ Len(suite) \in Nat /\ Len(Entries(test)) \in Nat
          /\ entry \in 1..(Len(Entries(test)) + 1)
      BY <2>1, SuiteShape DEF PhaseInv, Open
    <3>2. entry > Len(Entries(test))
      BY <1>4 DEF WritePrepared, File, Entries
    <3>3. entry - 1 = Len(Entries(test))
      BY <3>1, <3>2
    <3> QED
      BY <3>1, <3>3 DEF AllNamed
  <2>3. ~Loads(test)
    BY <1>4, <2>1, <2>2 DEF EntriesResolved, Open, Loads
  <2>4. \A i \in 1..(test' - 1) : i \in 1..(test - 1) \/ i = test
    BY <2>1, <2>2
  <2> QED
    BY <1>1, <2>1, <2>3, <2>4 DEF TestsLoaded
<1>5. CASE RunTest
  <2>1. /\ phase = "run" /\ test' = test + 1 /\ UNCHANGED tested
        /\ phase' \in {"prepare", "survived"}
        /\ loaded' = With(loaded, test, LoadedBy(resolved))
    BY <1>5 DEF RunTest, NextTest
  <2>2. test \in 1..Len(suite) /\ Len(suite) \in Nat /\ Named(test, entry - 1) = AllNamed(test)
    BY <2>1, SuiteShape DEF PhaseInv, Open, AllNamed
  <2>3. Loads(test)
    BY <2>1, <2>2 DEF RunsReferring, EntriesResolved, Open, Loads
  <2>4. \A i \in 1..(test' - 1) : i \in 1..(test - 1) \/ i = test
    BY <2>1, <2>2
  <2>5. /\ DOMAIN loaded' = DOMAIN loaded \cup {test}
        /\ loaded'[test] = Expected(test)
        /\ \A i \in DOMAIN loaded : i # test => loaded'[i] = loaded[i]
    BY <2>1, LoadedAsExpected DEF With
  <2> QED
    BY <1>1, <2>1, <2>2, <2>3, <2>4, <2>5 DEF TestsLoaded
<1> QED
  BY <1>2, <1>3, <1>4, <1>5 DEF Next

-----------------------------------------------------------------------------
(* Theorems.                                                               *)

(* Every reachable state satisfies the invariant.                          *)
THEOREM PreparedInvariance == Spec => []PreparedInv
<1>1. PreparedInv /\ [Next]_vars => PreparedInv'
  BY NextPhase, NextReferring, NextMutantKept, NextEntries, NextTests DEF PreparedInv
<1> QED
  BY <1>1, InitPrepared, PTL DEF Spec

(* A prepared test loads what the original one loads, with the mutated     *)
(* rules for every name of the target.                                     *)
THEOREM PreparedTestsLoadTheSame == Spec => []PreparedLoadsTheSame
<1>1. PreparedInv => PreparedLoadsTheSame
  <2> SUFFICES ASSUME PreparedInv, NEW i \in DOMAIN loaded
               PROVE  loaded[i] = {IF Disk[path] = Disk[Target] THEN Mutant ELSE path :
                                     path \in LoadedOriginally(i)}
    BY DEF PreparedLoadsTheSame
  <2>1. loaded[i] = Expected(i) /\ LoadedOriginally(i) = AllNamed(i)
    BY OriginalIsNamed DEF PreparedInv, PhaseInv, TestsLoaded
  <2> QED
    BY <2>1 DEF Expected, IsTarget
<1> QED
  BY <1>1, PreparedInvariance, PTL

(* The suites that run are those that load the target, and a mutant that   *)
(* survives has been loaded by a test.                                     *)
THEOREM OnlyStrangersAreSkipped == Spec => []SuitesSkippedExactly
<1>1. PreparedInv => SuitesSkippedExactly
  <2> SUFFICES ASSUME PreparedInv PROVE SuitesSkippedExactly
    OBVIOUS
  <2>1. /\ suite \in Suites /\ DOMAIN suite = 1..Len(suite) /\ Len(suite) \in Nat
        /\ \A i \in DOMAIN loaded : i \in DOMAIN suite /\ loaded[i] = Expected(i) /\ Loads(i)
        /\ phase \in {"untested", "survived"} => \A i \in DOMAIN suite : Loads(i) => i \in DOMAIN loaded
        /\ phase = "survived" => DOMAIN loaded # {}
    BY SuiteShape DEF PreparedInv, PhaseInv, TestsLoaded
  <2>2. \A i \in DOMAIN suite : LoadsTarget(i) <=> Loads(i)
    BY <2>1, OriginalIsNamed DEF LoadsTarget, Loads, IsTarget
  <2>3. \A i \in DOMAIN loaded : Mutant \in loaded[i]
    BY <2>1 DEF Loads, Expected
  <2> QED
    BY <2>1, <2>2, <2>3 DEF SuitesSkippedExactly
<1> QED
  BY <1>1, PreparedInvariance, PTL
=============================================================================
