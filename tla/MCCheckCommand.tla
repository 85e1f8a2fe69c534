--------------------------- MODULE MCCheckCommand ---------------------------
(***************************************************************************)
(* CheckCommand for TLC: two mutants, a request without a flaw in several  *)
(* variants, and requests with one flaw each.                              *)
(***************************************************************************)
EXTENDS CheckCommand

CONSTANTS p, q, r (* report paths *)

Good == [command |-> "check", help |-> FALSE, parses |-> TRUE, files |-> TRUE,
         timeout |-> "positive", threshold |-> "inside", counts |-> "fine",
         outputs |-> <<p, q, NoPath, r>>, github |-> TRUE]

Flawed(req) ==
  {[req EXCEPT !.help = TRUE], [req EXCEPT !.parses = FALSE],
   [req EXCEPT !.files = FALSE], [req EXCEPT !.counts = "negative"],
   [req EXCEPT !.timeout = "negative"], [req EXCEPT !.timeout = "zero"],
   [req EXCEPT !.threshold = "outside"], [req EXCEPT !.threshold = "nan"],
   [req EXCEPT !.threshold = "nan", !.outputs[1] = NoPath]}

MCPaths == {p, q, r}

(* Every report alone in its file, no report, and two reports in one.      *)
MCRequests ==
  {Good, [Good EXCEPT !.command = "run", !.github = FALSE],
   [Good EXCEPT !.outputs = <<NoPath, p, q, NoPath>>],
   [Good EXCEPT !.outputs = <<p, q, q, r>>],
   [Good EXCEPT !.outputs = <<NoPath, NoPath, NoPath, NoPath>>]}
  \cup Flawed(Good) \cup Flawed([Good EXCEPT !.command = "run"])

(* Score >= 60.                                                            *)
MCMeetsThreshold(killed, scorable) == scorable > 0 /\ 100 * killed >= 60 * scorable
=============================================================================
