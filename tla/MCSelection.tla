---------------------------- MODULE MCSelection -----------------------------
(***************************************************************************)
(* Selection for TLC: a repository /1 with rule files in /1/2.            *)
(***************************************************************************)
EXTENDS Selection

Change(group, alert, operator, replacement) ==
  [group |-> group, alert |-> alert, operator |-> operator, replacement |-> replacement]
(* comparison.replace, for.contract, for.expand, function.replace          *)
Comparison == <<1, 1>>
Contract   == <<2, 1>>
Expand     == <<2, 2>>
Function   == <<3, 1>>

A == <<0, 1, 2, 1>>
B == <<0, 1, 2, 2>>
Empty == <<0, 1, 2, 3>>   (* a file whose alerts have no changes              *)
MCContent ==
  A :> <<Change(2, 1, Comparison, 1), Change(2, 1, Comparison, 2), Change(2, 1, Expand, 1),
         Change(1, 2, Function, 1), Change(1, 1, Contract, 1)>>
  @@ B :> <<Change(1, 1, Function, 1), Change(1, 1, Expand, 1)>>
  @@ Empty :> <<>>

(* Two hashes of one alert swap places when the path is written another way.*)
MCHash(identity) ==
  LET n == Len(identity.path.parts)
      r == identity.change.replacement
  IN  10 * n + (IF n % 2 = 0 THEN r ELSE 5 - r)

MCWorkingDirectories == {<<0, 1>>, <<0, 1, 2>>, <<0, 3>>}
Base == [command |-> "run", workingDirectory |-> <<0, 1>>, policyDirectory |-> <<0, 1>>,
         rules |-> <<>>, only |-> <<>>, skip |-> <<>>, limit |-> 0]

Policies ==  (* lists of items                                             *)
  {<<<<2, 1>>>>, <<<<2, 2>>, A>>, <<Empty>>,
   <<B, <<2, 2>>, <<2, 1>>>>, <<A, <<0, 1, 9>>>>}
FlagValues == (* lists of lists of items                                   *)
  {<<<<<<2, 1>>>>>>, <<<<B, Blank, A>>>>, <<<<Blank>>>>,
   <<<<A>>, <<<<2, 1>>, B>>>>, <<<<A>>, <<B>>>>, <<<<A>>, <<<<0, 1, 9>>>>>>}
FilterLists == {<<>>, <<<<2>>>>, <<<<1>>, Blank>>, <<Contract, <<3>>>>, <<Blank>>}

MCRequests ==
  {[Base EXCEPT !.command = "check", !.workingDirectory = d, !.rules = p, !.only = o,
                !.skip = s, !.limit = l] :
     d \in MCWorkingDirectories, p \in Policies, o \in FilterLists, s \in FilterLists, l \in 0..3}
  \cup {[Base EXCEPT !.rules = v, !.only = o, !.skip = s, !.limit = l] :
     v \in FlagValues, o \in FilterLists, s \in FilterLists, l \in 0..3}
  \cup {[Base EXCEPT !.command = "list", !.rules = v, !.workingDirectory = d] :
     v \in FlagValues, d \in MCWorkingDirectories}
=============================================================================
