-------------------------- MODULE MCPreparedTest ----------------------------
(***************************************************************************)
(* PreparedTest for TLC: rule files in two directories, a link to the      *)
(* target, and test files next to the rules and elsewhere.                 *)
(***************************************************************************)
EXTENDS PreparedTest, TLC

MCTestNames  == <<"test-000.yml", "test-001.yml">>
MCJUnitNames == <<"junit-000.xml", "junit-001.xml">>

MCTarget == <<"rules", "api.yml">>
MCDisk   == <<"rules", "api.yml">>  :> MCTarget
         @@ <<"rules", "link.yml">> :> MCTarget
         @@ <<"rules", "db.yml">>   :> <<"rules", "db.yml">>
         @@ <<"other", "api.yml">>  :> <<"other", "api.yml">>
Names    == {"api.yml", "link.yml", "db.yml", "gone.yml"}
MCMatches == [pattern \in Names \cup {"*.yml", "a*.yml"} |->
  CASE pattern = "*.yml"              -> Names
    [] pattern = "a*.yml"             -> {"api.yml"}
    [] OTHER                          -> {pattern}]
MCBadPatterns == {"[.yml"}

Entry(directory, pattern) == [kind |-> "scalar", directory |-> directory, pattern |-> pattern]
Alias(pattern) == [kind |-> "alias", directory |-> ".", pattern |-> pattern]
Test(directory, entries)  == [valid |-> TRUE, directory |-> directory, rule_files |-> entries]
Broken == [valid |-> FALSE, directory |-> "rules", rule_files |-> <<>>]

Entries == {Entry(".", "api.yml"), Entry(".", "*.yml"), Entry("rules", "a*.yml"),
            Entry("rules", "link.yml"), Entry("rules", "db.yml"), Entry(".", "gone.yml")}
Lists   == {<<>>} \cup {<<x>> : x \in Entries} \cup {<<x, y>> : x, y \in Entries}
Tests   == {Test(d, l) : d \in {"rules", "other"}, l \in Lists}

MCSuites ==
  {<<x>> : x \in Tests}
  \cup {<<x, y>> : x \in {Test("other", <<e>>) : e \in Entries}, y \in Tests}
  \cup {<<x, Test("rules", <<Entry(".", "api.yml"), Entry(".", "[.yml")>>)>> : x \in Tests}
  \cup {<<Test("rules", <<Entry(".", x), Alias(y)>>)>> : x, y \in {"api.yml", "db.yml", "*.yml"}}
  \cup {<<Test("rules", <<Entry(".", "db.yml"), Alias("db.yml"), Entry(".", "link.yml")>>), Broken>>}
=============================================================================
