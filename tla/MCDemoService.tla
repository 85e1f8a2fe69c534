--------------------------- MODULE MCDemoService ----------------------------
(***************************************************************************)
(* DemoService for TLC: clients of the scenario and of the counters, or of *)
(* the notifications, which share no memory.                               *)
(***************************************************************************)
EXTENDS DemoService

CONSTANTS c1, c2, c3

Session(first, second, third) ==
  [c \in {c1, c2, c3} |-> IF c = c1 THEN first ELSE IF c = c2 THEN second ELSE third]

MCSessions == {
  Session({"degraded", "healthy"}, {"healthy", "unknown", "state", "metrics"}, {}),
  Session({"alerts"}, {"alerts", "list"}, {"list"})}
=============================================================================
