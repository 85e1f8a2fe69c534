---------------------------- MODULE MCGenerator -----------------------------
(***************************************************************************)
(* Generator for TLC: expressions as in the documentation and the tests,   *)
(* and the edges of the replacement tables.                                *)
(***************************************************************************)
EXTENDS Generator

Node(kind, value, eligible) ==
  [kind |-> kind, value |-> value, eligible |-> eligible,
   selector |-> None, blank |-> FALSE]
Matcher(type, selector, blank) ==
  [Node("matcher", type, TRUE) EXCEPT !.selector = selector, !.blank = blank]
Metric(selector) ==  (* the metric name, a matcher that is never negated   *)
  [Node("matcher", "=", FALSE) EXCEPT !.selector = selector]

(* sum(rate(x{status=~"5.."}[5m])) > 0.05                                  *)
Rate == <<Node("binary", ">", TRUE), Node("aggregate", "sum", TRUE),
          Node("call", "rate", TRUE), Node("matrix", 300000, TRUE),
          Matcher("=~", 1, FALSE), Metric(1), Node("number", 50, TRUE)>>
(* x * 100 > 0 and max(y{a="",b!="z"}) <= 4                                *)
Ratio == <<Node("binary", "and", TRUE), Node("binary", ">", TRUE),
           Node("binary", "*", TRUE), Metric(1), Node("number", 100000, FALSE),
           Node("number", 0, TRUE), Node("binary", "<=", TRUE),
           Node("aggregate", "max", TRUE), Matcher("=", 2, TRUE),
           Matcher("!=", 2, FALSE), Metric(2), Node("number", 4000, TRUE)>>
(* {job="x"} unless {job="y",env=~"p.*"} == -2                             *)
Nameless == <<Node("binary", "unless", TRUE), Matcher("=", 1, FALSE),
              Node("binary", "==", TRUE), Matcher("=", 2, FALSE),
              Matcher("=~", 2, FALSE), Node("number", -2000, TRUE)>>
(* avg_over_time(x[500ms]) < +Inf                                          *)
Edge == <<Node("binary", "<", TRUE), Node("call", "avg_over_time", TRUE),
          Node("matrix", 500, TRUE), Metric(1), Node("number", Infinity, TRUE)>>
(* x > 4 or x > 4                                                          *)
Twice == <<Node("binary", "or", TRUE), Node("binary", ">", TRUE), Metric(1),
           Node("number", 4000, TRUE), Node("binary", ">", TRUE), Metric(2),
           Node("number", 4000, TRUE)>>

Alert(group, name, expr, for) ==
  [group |-> group, name |-> name, expr |-> expr, for |-> for,
   parses |-> TRUE, canonical |-> TRUE]

Firsts  == {[Alert(1, 2, e, d) EXCEPT !.canonical = c] :
              e \in {Rate, Ratio, Nameless}, d \in {None, 600000}, c \in BOOLEAN}
Seconds == {Alert(g, 1, e, d) : g \in {1, 2}, e \in {Edge, Twice}, d \in {500, 0}}

MCDocuments ==
  {<<x, y>> : x \in Firsts, y \in Seconds}
  \cup {<<[Alert(1, 1, Edge, 1000) EXCEPT !.canonical = c]>> : c \in BOOLEAN}
  \cup {<<Alert(1, 1, Rate, None), [Alert(1, 2, Rate, None) EXCEPT !.parses = FALSE]>>}
  \cup {<<Alert(1, 1, e, 60000), Alert(1, 1, Ratio, 60000)>> : e \in {Rate, Twice}}
=============================================================================
