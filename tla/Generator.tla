----------------------------- MODULE Generator ------------------------------
(***************************************************************************)
(* internal/mutation/generator.go: Generate, which turns every alert of a  *)
(* rule file into mutants.                                                 *)
(*                                                                         *)
(* An expression is the sequence of the nodes that parser.Inspect visits,  *)
(* with a node of its own for every label matcher.  A candidate remembers  *)
(* its node as the nth of its kind and finds it again, by counting, in a   *)
(* fresh parse.  The parser and printer of Prometheus are external: two    *)
(* texts are equal when the trees are and the original text is canonical,  *)
(* and a changed tree parses again when every selector still has a matcher *)
(* that the empty string does not match.                                   *)
(***************************************************************************)
EXTENDS Integers, Sequences, SequencesExt

CONSTANTS Documents, (* rule files: sequences of alerts                    *)
          None       (* no value                                           *)

Kinds == {"binary", "aggregate", "number", "matrix", "call", "matcher"}

IsNode(x) ==
  /\ DOMAIN x = {"kind", "value", "eligible", "selector", "blank"}
  /\ x.kind \in Kinds /\ x.eligible \in BOOLEAN
  /\ x.kind = "matcher" => x.value \in {"=", "!=", "=~", "!~"}

IsAlert(x) ==
  /\ DOMAIN x = {"group", "name", "expr", "for", "parses", "canonical"}
  /\ x.group \in Int /\ x.name \in Int /\ x.for \in Int \cup {None}
  /\ DOMAIN x.expr = 1..Len(x.expr) /\ Len(x.expr) \in Nat
  /\ \A i \in DOMAIN x.expr : IsNode(x.expr[i])

ASSUME DocumentsKnown ==
  /\ None \notin Int
  /\ \A d \in Documents : /\ DOMAIN d = 1..Len(d) /\ Len(d) \in Nat
                          /\ \A i \in DOMAIN d : IsAlert(d[i])

(* Units: thresholds in thousandths, durations in milliseconds.            *)
Unit     == 1000
Second   == 1000
Infinity == 10^8   (* +Inf, half and tenfold of itself                     *)

VARIABLES file,      (* file.Alerts                                        *)
          alert,     (* index of the alert in the outer loop               *)
          pending,   (* of the alert: candidates to apply, then mutants of *)
                     (* its delay to add                                   *)
          phase,     (* "parse", "apply", "durations", "sort", "done", "failed" *)
          mutations, (* what is collected                                  *)
          seen       (* keys of addUnique                                  *)

vars == <<file, alert, pending, phase, mutations, seen>>

Init ==
  /\ file \in Documents
  /\ alert = 1 /\ pending = <<>> /\ phase = "parse"
  /\ mutations = <<>> /\ seen = {}

-----------------------------------------------------------------------------
(* The replacement tables.                                                 *)

Logical == {"and", "or", "unless"}

binaryReplacements(op) ==
  CASE op = ">"  -> <<">=", "<">>    [] op = ">=" -> <<">", "<=">>
    [] op = "<"  -> <<"<=", ">">>    [] op = "<=" -> <<"<", ">=">>
    [] op = "==" -> <<"!=">>         [] op = "!=" -> <<"==">>
    [] op = "and" -> <<"or", "unless">>
    [] op \in {"or", "unless"} -> <<"and">>
    [] OTHER -> <<>>

aggregateReplacement(op) ==
  CASE op = "sum" -> <<"avg">> [] op = "avg" -> <<"sum">>
    [] op = "max" -> <<"min">> [] op = "min" -> <<"max">>
    [] OTHER -> <<>>

functionReplacement(name) ==
  CASE name = "rate"  -> <<"irate">> [] name = "irate" -> <<"rate">>
    [] name = "sum_over_time" -> <<"avg_over_time">>
    [] name = "avg_over_time" -> <<"sum_over_time">>
    [] name = "max_over_time" -> <<"min_over_time">>
    [] name = "min_over_time" -> <<"max_over_time">>
    [] OTHER -> <<>>

negateMatcher(type) ==
  CASE type = "="  -> "!=" [] type = "!=" -> "="
    [] type = "=~" -> "!~" [] type = "!~" -> "=~"

thresholdReplacements(value) ==
  CASE value = 0        -> <<-Unit, Unit>>
    [] value = Infinity -> <<Infinity, Infinity>>
    [] OTHER            -> <<value \div 2, value * 10>>

Contracted(value) == IF value \div 2 < Second THEN Second ELSE value \div 2

rangeReplacements(value) == <<Contracted(value), value * 2>>

(* What a node may be replaced by; number literals only as an operand of a *)
(* comparison, ranges only when literal, matchers except the metric name.  *)
Replacements(node) ==
  IF ~node.eligible THEN <<>>
  ELSE CASE node.kind = "binary"    -> binaryReplacements(node.value)
         [] node.kind = "aggregate" -> aggregateReplacement(node.value)
         [] node.kind = "number"    -> thresholdReplacements(node.value)
         [] node.kind = "matrix"    -> rangeReplacements(node.value)
         [] node.kind = "call"      -> functionReplacement(node.value)
         [] node.kind = "matcher"   -> <<negateMatcher(node.value)>>

Abs(x) == IF x < 0 THEN -x ELSE x

thresholdOperator(from, to) ==
  IF from = 0 THEN IF to < 0 THEN "threshold.shift-down" ELSE "threshold.shift-up"
  ELSE IF Abs(to) < Abs(from) THEN "threshold.scale-down" ELSE "threshold.scale-up"

Operator(node, to) ==
  CASE node.kind = "binary" -> IF node.value \in Logical THEN "logical.replace"
                                                         ELSE "comparison.replace"
    [] node.kind = "aggregate" -> "aggregation.replace"
    [] node.kind = "number"    -> thresholdOperator(node.value, to)
    [] node.kind = "matrix"    -> IF to < node.value THEN "range.contract"
                                                     ELSE "range.expand"
    [] node.kind = "call"      -> "function.replace"
    [] node.kind = "matcher"   -> "selector.negate"

-----------------------------------------------------------------------------
(* Candidates: found in one parse, applied to another.                     *)

(* Mutant: ineligible nodes are not counted.                               *)
NthOfEligible(expr, i) ==
  Cardinality({j \in 1..(i - 1) : expr[j].kind = expr[i].kind /\ expr[j].eligible})

(* The counters of expressionCandidates, one per kind.                     *)
NthOf(expr, i) ==
  Cardinality({j \in 1..(i - 1) : expr[j].kind = expr[i].kind})

CandidateOf(expr, i, to) ==
  [operator |-> Operator(expr[i], to), kind |-> expr[i].kind,
   nth |-> NthOf(expr, i), original |-> expr[i].value, replacement |-> to]

CandidatesOf(expr, i) ==
  [n \in DOMAIN Replacements(expr[i]) |-> CandidateOf(expr, i, Replacements(expr[i])[n])]

expressionCandidates(expr) == FlattenSeq([i \in DOMAIN expr |-> CandidatesOf(expr, i)])

WithValue(expr, i, to) == [expr EXCEPT ![i].value = to]

(* The nodes of the kind are counted again up to the nth.                  *)
mutateNth(expr, kind, nth, to) ==
  LET hit == CHOOSE i \in DOMAIN expr :
               /\ expr[i].kind = kind
               /\ Cardinality({j \in 1..(i - 1) : expr[j].kind = kind}) = nth
  IN  WithValue(expr, hit, to)

(* External: the empty string matches a positive matcher of a blank value  *)
(* or a negative one of another; the parser wants one it does not match.   *)
MatchesEmpty(node) == (node.value \in {"=", "=~"}) <=> node.blank

Parses(expr) ==
  \A s \in {expr[i].selector : i \in DOMAIN expr} \ {None} :
    \E i \in DOMAIN expr : expr[i].selector = s /\ ~MatchesEmpty(expr[i])

-----------------------------------------------------------------------------
(* Mutants.                                                                *)

(* domain.Mutation; the ID is a hash of path, group, alert, operator,      *)
(* original and replacement.                                               *)
newMutation(i, operator, original, replacement) ==
  [rule |-> i, group |-> file[i].group, name |-> file[i].name,
   operator |-> operator, original |-> original, replacement |-> replacement,
   expression |-> <<>>, for |-> None, removeFor |-> FALSE]

durationMutations(i) ==
  LET d == file[i].for
      for(operator, to) == [newMutation(i, operator, d, to) EXCEPT !.for = to]
      removed == [newMutation(i, "for.remove", d, None) EXCEPT !.removeFor = TRUE]
  IN  IF d = None THEN <<for("for.add", 300 * Second)>>
      ELSE IF d <= 0 THEN <<>>  (* zero, or not a duration *)
      ELSE <<removed, for("for.contract", Contracted(d)), for("for.expand", d * 2)>>

Key(m) == <<m.group, m.name, m.expression, m.for, m.removeFor>>

(* Mutant: the key of a kept mutant is not remembered.                     *)
addUniqueForgetful(collected, m) ==
  IF Key(m) \in collected.seen THEN collected
  ELSE [collected EXCEPT !.list = Append(@, m)]

addUnique(collected, m) ==
  IF Key(m) \in collected.seen THEN collected
  ELSE [list |-> Append(collected.list, m), seen |-> collected.seen \cup {Key(m)}]

Collect(m) ==
  LET all == addUnique([list |-> mutations, seen |-> seen], m)
  IN  mutations' = all.list /\ seen' = all.seen

-----------------------------------------------------------------------------
(* Generate.                                                               *)

ParseAlert ==
  /\ phase = "parse" /\ alert <= Len(file)
  /\ IF file[alert].parses
     THEN phase' = "apply" /\ pending' = expressionCandidates(file[alert].expr)
     ELSE phase' = "failed" /\ UNCHANGED pending
  /\ UNCHANGED <<file, alert, mutations, seen>>

expressionMutation(c, tree) ==
  [newMutation(alert, c.operator, c.original, c.replacement) EXCEPT !.expression = tree]

(* Mutant: the candidates of an alert are applied to one tree.             *)
ApplyCandidateAccumulating ==
  /\ phase = "apply" /\ pending # <<>>
  /\ LET c == Head(pending)
         base == IF mutations # <<>> /\ Last(mutations).rule = alert
                   /\ Last(mutations).expression # <<>>
                 THEN Last(mutations).expression ELSE file[alert].expr
         tree == mutateNth(base, c.kind, c.nth, c.replacement)
     IN  IF tree = file[alert].expr \/ ~Parses(tree)
         THEN UNCHANGED <<mutations, seen>>
         ELSE Collect(expressionMutation(c, tree))
  /\ pending' = Tail(pending)
  /\ UNCHANGED <<file, alert, phase>>

(* One candidate: a text equal to the original and a tree that does not    *)
(* parse are passed over.                                                  *)
ApplyCandidate ==
  /\ phase = "apply" /\ pending # <<>>
  /\ LET c    == Head(pending)
         tree == mutateNth(file[alert].expr, c.kind, c.nth, c.replacement)
         same == file[alert].canonical /\ tree = file[alert].expr
     IN  IF same \/ ~Parses(tree)
         THEN UNCHANGED <<mutations, seen>>
         ELSE Collect(expressionMutation(c, tree))
  /\ pending' = Tail(pending)
  /\ UNCHANGED <<file, alert, phase>>

MutateDuration ==
  /\ phase = "apply" /\ pending = <<>>
  /\ phase' = "durations" /\ pending' = durationMutations(alert)
  /\ UNCHANGED <<file, alert, mutations, seen>>

AddDuration ==
  /\ phase = "durations" /\ pending # <<>>
  /\ Collect(Head(pending))
  /\ pending' = Tail(pending)
  /\ UNCHANGED <<file, alert, phase>>

NextAlert ==
  /\ phase = "durations" /\ pending = <<>>
  /\ alert' = alert + 1 /\ phase' = "parse"
  /\ UNCHANGED <<file, pending, mutations, seen>>

(* sort.Slice by group, alert, operator and ID.  The order of an alert's   *)
(* mutants, of operator names and hashes, is not modelled.                 *)
Before(m, n) == \/ m.group < n.group
                \/ m.group = n.group /\ m.name < n.name

(* How many come before the ith, which keeps its place among equals.       *)
Preceding(list, i) ==
  {j \in DOMAIN list : \/ Before(list[j], list[i])
                       \/ ~Before(list[i], list[j]) /\ j < i}

Sorted(list) ==
  [n \in DOMAIN list |->
     list[CHOOSE i \in DOMAIN list : Cardinality(Preceding(list, i)) = n - 1]]

SortMutations ==
  /\ phase = "parse" /\ alert = Len(file) + 1
  /\ mutations' = Sorted(mutations)
  /\ phase' = "done"
  /\ UNCHANGED <<file, alert, pending, seen>>

Next == \/ ParseAlert \/ ApplyCandidate \/ MutateDuration \/ AddDuration \/ NextAlert
        \/ SortMutations

Spec == Init /\ [][Next]_vars

-----------------------------------------------------------------------------
(* Properties.                                                             *)

(* What promtool is given: the tree and the delay of the mutated rule.     *)
Rendered(m) ==
  [rule |-> m.rule,
   expr |-> IF m.expression = <<>> THEN file[m.rule].expr ELSE m.expression,
   for  |-> IF m.removeFor THEN None ELSE IF m.for = None THEN file[m.rule].for ELSE m.for]

Original(i) == [rule |-> i, expr |-> file[i].expr, for |-> file[i].for]

(* The reference: every tree that differs from the original in the value   *)
(* of one node, by one of its replacements, and parses; every delay that   *)
(* differs and is a replacement.  It knows no counters and no candidates.  *)
ExprChanges(i) ==
  {t \in UNION {{WithValue(file[i].expr, n, Replacements(file[i].expr[n])[k]) :
                   k \in DOMAIN Replacements(file[i].expr[n])} :
                n \in DOMAIN file[i].expr} : Parses(t)}
ForChanges(i) ==
  LET d == file[i].for
  IN  IF d = None THEN {300 * Second}
      ELSE IF d <= 0 THEN {} ELSE {None, Contracted(d), 2 * d}
Changes(i) ==
  ({[Original(i) EXCEPT !.expr = t] : t \in ExprChanges(i)}
     \cup {[Original(i) EXCEPT !.for = d] : d \in ForChanges(i)}) \ {Original(i)}

Generated(i) == {Rendered(mutations[n]) : n \in {k \in DOMAIN mutations : mutations[k].rule = i}}

Namesake(i) == \E j \in DOMAIN file \ {i} :
                 file[j].group = file[i].group /\ file[j].name = file[i].name

(* A mutant changes one node or the delay of its own rule, if not nothing, *)
(* and original and replacement are what they were and are: no candidate   *)
(* meets a node other than its own, and none sees the change of another.   *)
ChangesOneThing ==
  \A n \in DOMAIN mutations :
    LET m == mutations[n]
        r == Rendered(m)
        changed == {i \in DOMAIN r.expr : r.expr[i] # file[m.rule].expr[i]}
    IN  \/ /\ m.expression = <<>>
           /\ m.original = file[m.rule].for /\ m.replacement = r.for
        \/ /\ m.expression # <<>> /\ r.for = file[m.rule].for
           /\ \/ changed = {} /\ m.original = m.replacement
              \/ \E i \in changed :
                   /\ changed = {i}
                   /\ m.original = file[m.rule].expr[i].value
                   /\ m.replacement = r.expr[i].value

(* When generation is done, a rule whose name is its own has every change  *)
(* of the reference; and no rule has a change outside it.                  *)
GeneratesEveryChange ==
  phase = "done" =>
    \A i \in DOMAIN file :
      /\ Generated(i) \ {Original(i)} \subseteq Changes(i)
      /\ ~Namesake(i) => Changes(i) \subseteq Generated(i)

(* No rule is tested twice with the same change, though small ranges and   *)
(* delays have one neighbour for two replacements.  Only mutants that      *)
(* change nothing may be as many as differently written texts.             *)
NoChangeTwice ==
  \A n, k \in DOMAIN mutations :
    n # k => \/ Rendered(mutations[n]) # Rendered(mutations[k])
             \/ Rendered(mutations[n]) = Original(mutations[n].rule)
=============================================================================
