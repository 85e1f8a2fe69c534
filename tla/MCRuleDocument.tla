-------------------------- MODULE MCRuleDocument ----------------------------
(***************************************************************************)
(* RuleDocument for TLC: rule files put together from scalars, mappings,   *)
(* sequences, anchors and aliases.                                         *)
(***************************************************************************)
EXTENDS RuleDocument

Leaf(kind, tag, value) ==
  <<>> :> [kind |-> kind, tag |-> tag, value |-> value, anchor |-> "", content |-> <<>>]
Text(value) == Leaf("scalar", "str", value)
Null        == Leaf("scalar", "null", "")
Alias(name) == Leaf("alias", "", name)
Anchor(name, doc) == [doc EXCEPT ![<<>>].anchor = name]

(* A node over sub-documents, which become its places <<1>>, <<2>>, ...    *)
Over(kind, docs) ==
  LET below(i) == [p \in {<<i>> \o q : q \in DOMAIN docs[i]} |->
                     [docs[i][Tail(p)] EXCEPT
                        !.content = [k \in DOMAIN @ |-> <<Source, <<i>> \o @[k][2]>>]]]
      top == Leaf(kind, "", "")
      node == [top EXCEPT ![<<>>].content = [i \in DOMAIN docs |-> <<Source, <<i>>>>]]
  IN  FoldLeft(LAMBDA d, i : d @@ below(i), node, [i \in DOMAIN docs |-> i])

List(docs)   == Over("sequence", docs)
Map(entries) == Over("mapping", [n \in 1..(2 * Len(entries)) |->
                  IF n % 2 = 1 THEN Text(entries[(n + 1) \div 2][1])
                  ELSE entries[n \div 2][2]])

Rule(name, expr, rest) == Map(<<<<"alert", Text(name)>>, <<"expr", expr>>>> \o rest)
Record(expr)           == Map(<<<<"record", Text("r")>>, <<"expr", expr>>>>)
Group(list)            == Map(<<<<"name", Text("g")>>, <<"rules", list>>>>)
File(groups)           == Map(<<<<"groups", List(groups)>>>>)
Labels                 == <<"labels", Text("page")>>

e == Text("up < 1")
For(d) == <<"for", d>>

(* Records before alerts, a group without rules, an unused anchor, every   *)
(* kind of delay.                                                          *)
PlainFile ==
  File(<<Group(List(<<Record(e), Rule("A", e, <<For(Text("10m")), Labels>>),
                      Rule("B", Anchor("e", Text("up > 0")), <<Labels>>)>>)),
         Group(Null),
         Group(List(<<Record(e), Rule("C", e, <<For(Text("0s"))>>)>>))>>)
SharedDelay ==
  File(<<Group(List(<<Rule("A", e, <<For(Anchor("d", Text("10m")))>>),
                      Rule("B", e, <<For(Alias("d"))>>)>>))>>)
SharedExpr ==
  File(<<Group(List(<<Rule("A", Anchor("x", e), <<For(Text("10m"))>>), Record(Alias("x")),
                      Rule("B", e, <<>>)>>))>>)
Merged ==
  File(<<Group(List(<<Anchor("base", Rule("A", e, <<For(Text("10m")), Labels>>)),
                      Map(<<<<"<<", Alias("base")>>, <<"alert", Text("B")>>, <<"expr", e>>>>),
                      Map(<<<<"<<", Alias("base")>>, <<"alert", Text("C")>>,
                            <<"expr", e>>, For(Text("2m"))>>)>>))>>)
SharedRules ==
  File(<<Group(Anchor("l", List(<<Rule("A", e, <<>>)>>))), Group(Alias("l"))>>)
(* The labels are shared, nothing that is ever changed.                    *)
SharedLabels ==
  File(<<Group(List(<<Rule("A", e, <<<<"labels", Anchor("t", Text("page"))>>>>),
                      Rule("B", e, <<<<"labels", Alias("t")>>, For(Text("2m"))>>)>>))>>)
AliasedRule ==
  File(<<Group(List(<<Anchor("a", Rule("A", e, <<>>))>>)),
         Group(List(<<Alias("a"), Rule("B", e, <<>>)>>))>>)
(* The name of the second alert is merged, its expression its own.         *)
MergedName ==
  File(<<Group(List(<<Anchor("base", Rule("A", e, <<Labels>>)),
                      Map(<<<<"<<", Alias("base")>>, <<"expr", Text("up > 0")>>>>)>>))>>)
(* A merge without an alias: Load does not look into it, promtool does.    *)
MergedInline ==
  File(<<Group(List(<<Rule("A", e, <<<<"<<", Map(<<For(Text("10m"))>>)>>, For(Text("2m"))>>),
                      Rule("B", e, <<>>),
                      Map(<<<<"<<", Rule("C", e, <<>>)>>, <<"expr", e>>>>)>>))>>)
NullDelay == File(<<Group(List(<<Rule("A", e, <<For(Null)>>)>>))>>)
NoExpr    == File(<<Group(List(<<Rule("A", e, <<>>), Map(<<<<"alert", Text("B")>>>>)>>))>>)
NoAlerts  == File(<<Group(List(<<Record(e)>>))>>)
NoGroups  == Map(<<<<"groups", Null>>>>)

MCDocuments == {PlainFile, SharedDelay, SharedExpr, Merged, SharedRules, SharedLabels,
                AliasedRule, MergedName, MergedInline, NullDelay,
                NoExpr, NoAlerts, NoGroups}
MCNewExprs  == {"up <= 1"}
MCDurations == {"10m", "2m"}
MCNewDelays == {"1m", "20m"}
=============================================================================
