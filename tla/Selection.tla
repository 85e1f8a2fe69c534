----------------------------- MODULE Selection ------------------------------
(***************************************************************************)
(* Which mutants a command is about, and in which order: the arguments of  *)
(* cmd/tubicen, the policy of internal/config, the selection of            *)
(* campaign.Run, the order and identity of mutation.Generate, and the      *)
(* preview of tubicen list.                                                *)
(*                                                                         *)
(* Names are positive numbers in alphabetical order.  A path is the        *)
(* sequence of its components, after Slash if it is absolute; an operator  *)
(* is the pair of its family and its kind, a filter an operator or a       *)
(* family.  Blank is an item that is empty or white space.                 *)
(***************************************************************************)
EXTENDS Integers, Sequences, SequencesExt

CONSTANTS Requests,  (* command lines with the policy they name            *)
          Content,   (* path -> the changes of its alerts, in the order found *)
          Hash(_)    (* sha256 of an identity, as a number                 *)

Blank == <<>>
Slash == <<0>>

VARIABLES request,   (* the request                                        *)
          paths,     (* the rule files left to load                        *)
          mutations, (* what is collected                                  *)
          phase      (* "parse", "load", "done", "refused"                 *)

vars == <<request, paths, mutations, phase>>

Init ==
  /\ request \in Requests
  /\ paths = <<>> /\ mutations = <<>> /\ phase = "parse"

-----------------------------------------------------------------------------
(* Arguments.                                                              *)

(* The items of a flag's value, between commas.                            *)
splitList(value) == SelectSeq(value, LAMBDA item : item # Blank)

(* Mutant: the last occurrence of a flag replaces the others.              *)
FlagsReplaced(values) == splitList(Last(values))

(* Every occurrence of a repeatable flag adds its items.                   *)
Flags(values) == FlattenSeq([i \in DOMAIN values |-> splitList(values[i])])

(* filepath.Abs, for a policy after resolveAll has joined relative paths   *)
(* to its directory; a policy keeps blank entries.                         *)
Absolute(r, path) ==
  IF IsPrefix(Slash, path) THEN path
  ELSE (IF r.command = "check" THEN r.policyDirectory ELSE r.workingDirectory) \o path

Less(s, t) ==
  \E i \in DOMAIN t : /\ i - 1 <= Len(s)
                      /\ \A j \in 1..(i - 1) : s[j] = t[j]
                      /\ IF i > Len(s) THEN TRUE ELSE s[i] < t[i]

(* Mutant: repeated paths are kept.                                        *)
absolutePathsRepeated(all) == SortSeq(all, Less)

(* Paths once each, sorted.                                                *)
absolutePaths(all) == SortSeq(SetToSeq(ToSet(all)), Less)

RuleFiles(r) ==
  LET items == IF r.command = "check" THEN r.rules ELSE Flags(r.rules)
      all   == [i \in DOMAIN items |-> Absolute(r, items[i])]
  IN  IF r.command = "list" THEN all ELSE absolutePaths(all)

ParseArguments ==
  /\ phase = "parse"
  /\ paths' = RuleFiles(request)
  /\ phase' = IF paths' = <<>> THEN "refused" ELSE "load"
  /\ UNCHANGED <<request, mutations>>

-----------------------------------------------------------------------------
(* Generate, for one file: identities and order.                           *)

stablePath(directory, path) ==
  IF IsPrefix(directory, path) /\ directory # path
  THEN [inside |-> TRUE, parts |-> SubSeq(path, Len(directory) + 1, Len(path))]
  ELSE [inside |-> FALSE, parts |-> path]

newMutation(directory, path, change) ==
  [id |-> Hash([path |-> stablePath(directory, path), change |-> change]),
   path |-> path, change |-> change]

(* By group, alert, operator and ID.                                       *)
GenerateOrder(m, n) ==
  Less(<<m.change.group, m.change.alert>> \o m.change.operator \o <<m.id>>,
       <<n.change.group, n.change.alert>> \o n.change.operator \o <<n.id>>)

Generate(directory, path) ==
  SortSeq([i \in DOMAIN Content[path] |->
             newMutation(directory, path, Content[path][i])], GenerateOrder)

-----------------------------------------------------------------------------
(* Run and listMutations.                                                  *)

matchesAny(operator, filters) ==
  \E f \in ToSet(filters) : f # Blank /\ (f = operator \/ f = <<operator[1]>>)

operatorSelected(operator, only, skip) ==
  /\ ~matchesAny(operator, skip)
  /\ (only = <<>> \/ matchesAny(operator, only))

Filters(r, value) == IF r.command = "check" THEN value ELSE splitList(value)

(* list has no filters.                                                    *)
Keeps(r, m) ==
  r.command = "list" \/ operatorSelected(m.change.operator, Filters(r, r.only), Filters(r, r.skip))

LoadFile ==
  /\ phase = "load" /\ paths # <<>>
  /\ IF Head(paths) \in DOMAIN Content
     THEN /\ mutations' = mutations \o SelectSeq(Generate(request.workingDirectory, Head(paths)),
                                                 LAMBDA m : Keeps(request, m))
          /\ UNCHANGED phase
     ELSE phase' = "refused" /\ UNCHANGED mutations
  /\ paths' = Tail(paths)
  /\ UNCHANGED request

Limited(r, all) == IF r.limit > 0 /\ Len(all) > r.limit THEN SubSeq(all, 1, r.limit) ELSE all

Select ==
  /\ phase = "load" /\ paths = <<>> /\ request.command # "list"
  /\ mutations' = Limited(request, mutations)
  /\ phase' = IF mutations' = <<>> THEN "refused" ELSE "done"
  /\ UNCHANGED <<request, paths>>

(* By file, alert, operator and ID.                                        *)
ListOrder(m, n) ==
  IF m.path # n.path THEN Less(m.path, n.path)
  ELSE Less(<<m.change.alert>> \o m.change.operator \o <<m.id>>,
            <<n.change.alert>> \o n.change.operator \o <<n.id>>)

ListAll ==
  /\ phase = "load" /\ paths = <<>> /\ request.command = "list"
  /\ mutations' = SortSeq(mutations, ListOrder)
  /\ phase' = "done"
  /\ UNCHANGED <<request, paths>>

Next == ParseArguments \/ LoadFile \/ Select \/ ListAll

Spec == Init /\ [][Next]_vars

-----------------------------------------------------------------------------
(* Properties.                                                             *)

(* The reference: files are a set, filters are sets of names, and the      *)
(* mutants are numbered by how many precede them.                          *)
Named(r) == {Absolute(r, p) : p \in
               IF r.command = "check" THEN ToSet(r.rules)
               ELSE UNION {ToSet(v) : v \in ToSet(r.rules)} \ {Blank}}

Wanted(r, change) ==
  LET names == {change.operator, <<change.operator[1]>>}
  IN  /\ ToSet(r.skip) \cap names = {}
      /\ \/ ToSet(r.only) \cap names # {}
         \/ r.only = <<>>
         \/ r.command = "run" /\ ToSet(r.only) = {Blank}

All(r, directory) ==
  UNION {{newMutation(directory, p, c) : c \in ToSet(Content[p])} : p \in Named(r)}

Precedes(m, n) == IF m.path = n.path THEN GenerateOrder(m, n) ELSE Less(m.path, n.path)

(* The changes in the order of the report, for a working directory.        *)
Chosen(r, directory) ==
  LET wanted == {m \in All(r, directory) : Wanted(r, m.change)}
      place(m) == 1 + Cardinality({n \in wanted : Precedes(n, m)})
      count == IF r.limit = 0 THEN Cardinality(wanted) ELSE Min({r.limit, Cardinality(wanted)})
  IN  [i \in 1..count |-> CHOOSE m \in wanted : place(m) = i]

(* What is tested depends on the set of files named and on the filters,    *)
(* not on order, repetition or spelling of the arguments; skip wins over   *)
(* only, a family stands for its operators, a limit takes the first.  A    *)
(* command is refused exactly for a file that cannot be loaded or because  *)
(* nothing is left to test.                                                *)
SelectionExact ==
  LET chosen   == Chosen(request, request.workingDirectory)
      readable == Named(request) # {} /\ Named(request) \subseteq DOMAIN Content
      tests    == request.command # "list"
  IN  /\ phase = "done" /\ tests => mutations = chosen
      /\ phase = "done" => readable /\ (tests => chosen # <<>>)
      /\ phase = "refused" => ~readable \/ (tests /\ chosen = <<>>)

(* How often list is given a file, under whatever spelling.                *)
TimesNamed(r, path) ==
  Cardinality({<<i, j>> \in (DOMAIN r.rules) \X (1..Max({Len(v) : v \in ToSet(r.rules)})) :
                 /\ j <= Len(r.rules[i]) /\ r.rules[i][j] # Blank
                 /\ Absolute(r, r.rules[i][j]) = path})

(* A preview shows every change of every file named, and no other; unlike  *)
(* run, list shows it as often as the file is named.                       *)
PreviewComplete ==
  phase = "done" /\ request.command = "list" =>
    /\ ToSet(mutations) = All(request, request.workingDirectory)
    /\ \A m \in ToSet(mutations) :
         Cardinality({i \in DOMAIN mutations : mutations[i] = m}) = TimesNamed(request, m.path)
=============================================================================
