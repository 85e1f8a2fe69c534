------------------------------- MODULE Reports -------------------------------
(***************************************************************************)
(* internal/report/report.go: what the outputs of one report say.          *)
(*                                                                         *)
(* Module CheckCommand says which reports are written; this one what is in *)
(* them: totals and cases of the JUnit suite, rules and results of SARIF,  *)
(* the terminal's list, the workflow commands that GitHub reads back, and  *)
(* the HTML page, whose script filters the rows.                           *)
(*                                                                         *)
(* Texts are sequences of characters, but only as fine as escaping needs.  *)
(***************************************************************************)
EXTENDS Integers, Sequences, SequencesExt, FiniteSetsExt, TLC

CONSTANTS Reports,   (* the results of the reports to start from           *)
          LineLimit  (* bytes of firstLine, 180 in the code                *)

Buttons  == {"all", "survived", "killed", "problem"}
Statuses == {"killed", "survived", "error", "timeout"}

ASSUME LimitAssumption == LineLimit \in Nat /\ LineLimit > 3

VARIABLES results, (* report.Results                                       *)
          active,  (* the buttons of class active                          *)
          hidden   (* the rows the script has hidden                       *)

vars == <<results, active, hidden>>

Rows == DOMAIN results
Of(statuses) == {i \in Rows : results[i].status \in statuses}

-----------------------------------------------------------------------------
(* The summary, and what the outputs make of it and of the results.        *)

summary == [total    |-> Len(results),
            killed   |-> Cardinality(Of({"killed"})),
            survived |-> Cardinality(Of({"survived"})),
            timeouts |-> Cardinality(Of({"timeout"})),
            errors   |-> Cardinality(Rows \ Of({"killed", "survived", "timeout"}))]

(* Killed mutants are left out, in the order of the results.               *)
Listed == SelectSeq(results, LAMBDA r : r.status # "killed")

Terminal ==
  LET problemCount == summary.survived + summary.errors + summary.timeouts
  IN  [allCaught |-> problemCount = 0,
       lines     |-> IF problemCount = 0 THEN <<>> ELSE Listed]

(* Mutant: timeouts are no errors of the suite.                            *)
SuiteErrorsAlone == summary.errors

SuiteErrors == summary.errors + summary.timeouts

JUnit ==
  [tests |-> summary.total, failures |-> summary.survived, errors |-> SuiteErrors,
   cases |-> [i \in Rows |->
                CASE results[i].status = "survived"             -> "failure"
                  [] results[i].status \in {"error", "timeout"} -> "error"
                  [] OTHER                                      -> "success"]]

addRule(rules, operator) ==
  IF operator \in ToSet(rules) THEN rules ELSE Append(rules, operator)

SARIF ==
  [rules   |-> FoldLeft(LAMBDA rules, r : addRule(rules, r.operator), <<>>, Listed),
   results |-> [i \in DOMAIN Listed |->
                  [rule  |-> Listed[i].operator,
                   level |-> IF Listed[i].status \in {"error", "timeout"}
                             THEN "error" ELSE "warning"]]]

-----------------------------------------------------------------------------
(* Workflow commands.                                                      *)

Space == {"SP", "CR", "LF"}

Trim(text) ==
  LET kept == {i \in DOMAIN text : text[i] \notin Space}
  IN  IF kept = {} THEN <<>> ELSE SubSeq(text, Min(kept), Max(kept))

Trimmed(text) == Trim(text)

Split(text, separator) ==
  LET cuts == <<0>> \o SetToSortSeq({i \in DOMAIN text : text[i] = separator}, <)
                    \o <<Len(text) + 1>>
  IN  [k \in 1..(Len(cuts) - 1) |-> SubSeq(text, cuts[k] + 1, cuts[k + 1] - 1)]

firstLine(text) ==
  LET line == Split(Trimmed(text), "LF")[1]
  IN  IF Len(line) > LineLimit THEN SubSeq(line, 1, LineLimit - 3) \o <<".", ".", ".">>
      ELSE line

(* One pass over the text, as strings.NewReplacer makes it.                *)
Escape(text, codes) ==
  FlattenSeq([i \in DOMAIN text |->
                IF text[i] \in DOMAIN codes THEN codes[text[i]] ELSE <<text[i]>>])

MessageCodes == [c \in {"%", "CR", "LF"} |->
  CASE c = "%"  -> <<"%", "2", "5">>
    [] c = "CR" -> <<"%", "0", "D">>
    [] c = "LF" -> <<"%", "0", "A">>]
PropertyCodes == [c \in {":", ","} |->
  CASE c = ":"  -> <<"%", "3", "A">>
    [] c = ","  -> <<"%", "2", "C">>] @@ MessageCodes

(* Mutant: the percent sign is replaced after the others.                  *)
workflowPropertyTwice(text) ==
  Escape(Escape(text, PropertyCodes), [c \in {"%"} |-> MessageCodes[c]])

workflowProperty(text) == Escape(text, PropertyCodes)
workflowMessage(text)  == Escape(text, MessageCodes)

Title(r)   == IF r.status \in {"error", "timeout"} THEN <<"check failed">>
                                                   ELSE <<"change not caught">>
Message(r) == IF r.status \in {"error", "timeout"} THEN firstLine(r.output) ELSE r.change

Annotation(r) ==
  <<":", ":", "error">> \o <<"file", "=">> \o workflowProperty(r.file)
  \o <<",", "line", "=", ToString(Max({r.line, 1}))>>
  \o <<",", "title", "=">> \o workflowProperty(Title(r))
  \o <<":", ":">> \o workflowMessage(Message(r)) \o <<"LF">>

GitHubAnnotations == FlattenSeq([i \in DOMAIN Listed |-> Annotation(Listed[i])])

(* The runner of GitHub Actions: one command a line, properties up to the  *)
(* second double colon, codes replaced where a percent sign begins one.    *)
Unescape(text) ==
  LET read(state, c) ==
        IF state.code = <<>> /\ c # "%" THEN [state EXCEPT !.out = Append(@, c)]
        ELSE IF Len(state.code) < 2 THEN [state EXCEPT !.code = Append(@, c)]
        ELSE [code |-> <<>>,
              out  |-> state.out \o
                LET code == Append(state.code, c)
                    meant == {d \in DOMAIN PropertyCodes : PropertyCodes[d] = code}
                IN  IF meant = {} THEN code ELSE SetToSeq(meant)]
      end == FoldLeft(read, [code |-> <<>>, out |-> <<>>], text)
  IN  end.out \o end.code

ReadCommand(line) ==
  LET stop   == Min({i \in 4..(Len(line) - 1) : line[i] = ":" /\ line[i + 1] = ":"})
      fields == Split(SubSeq(line, 4, stop - 1), ",")
  IN  [properties |-> [i \in DOMAIN fields |->
                         <<fields[i][1], Unescape(SubSeq(fields[i], 3, Len(fields[i])))>>],
       message    |-> Unescape(SubSeq(line, stop + 2, Len(line)))]

ReadAnnotations ==
  LET lines == SelectSeq(Split(GitHubAnnotations, "LF"), LAMBDA line : line # <<>>)
  IN  [i \in DOMAIN lines |-> ReadCommand(lines[i])]

-----------------------------------------------------------------------------
(* The HTML page and its script.                                           *)

Label(button) ==
  CASE button = "all"      -> summary.total
    [] button = "survived" -> summary.survived
    [] button = "killed"   -> summary.killed
    [] button = "problem"  -> summary.errors + summary.timeouts

Init == results \in Reports /\ active = {"all"} /\ hidden = {}

activeAfter(button) == {button}

(* Mutant: only errors are shown as problems.                              *)
ShowsNoTimeouts(filter, status) ==
  filter = "all" \/ status = filter \/ (filter = "problem" /\ status = "error")

Shows(filter, status) ==
  \/ filter = "all" \/ status = filter
  \/ filter = "problem" /\ status \in {"error", "timeout"}

Click(button) ==
  /\ active' = activeAfter(button)
  /\ hidden' = {i \in Rows : ~Shows(button, results[i].status)}
  /\ UNCHANGED results

Next == \E button \in Buttons : Click(button)
Spec == Init /\ [][Next]_vars

-----------------------------------------------------------------------------
(* Whatever was clicked before, the page shows as many rows as the label   *)
(* of its active button says, and together the buttons miss no row.        *)
FilterShowsItsCount ==
  /\ \A button \in active : Cardinality(Rows \ hidden) = Label(button)
  /\ Label("survived") + Label("killed") + Label("problem") = Label("all")

(* The totals of the JUnit suite are those of its cases.                   *)
SuiteAddsUp ==
  LET Cases(kind) == {i \in Rows : JUnit.cases[i] = kind}
  IN  /\ JUnit.tests = Len(JUnit.cases)
      /\ JUnit.failures = Cardinality(Cases("failure"))
      /\ JUnit.errors = Cardinality(Cases("error"))

(* Each SARIF result names a rule that the driver declares, once, and no   *)
(* rule is declared for nothing.                                           *)
RulesDeclaredOnce ==
  /\ IsInjective(SARIF.rules)
  /\ ToSet(SARIF.rules) = {SARIF.results[i].rule : i \in DOMAIN SARIF.results}

(* The terminal says that all changes were caught exactly when no output   *)
(* has anything to complain of.                                            *)
SilentTogether ==
  /\ Terminal.allCaught <=> Of({"killed"}) = Rows
  /\ Terminal.allCaught <=> SARIF.results = <<>>
  /\ Terminal.allCaught <=> GitHubAnnotations = <<>>
  /\ Terminal.allCaught <=> JUnit.failures + JUnit.errors = 0
  /\ Len(Terminal.lines) = Len(SARIF.results)

(* All outputs of one report tell the same: JUnit, SARIF, the terminal and *)
(* the annotations.                                                        *)
OutputsOfOneReport == SuiteAddsUp /\ RulesDeclaredOnce /\ SilentTogether

(* An error is explained by one line of bounded length, which is not empty *)
(* unless promtool said nothing.                                           *)
ErrorsExplained ==
  \A i \in Of({"error", "timeout"}) :
    LET said == firstLine(results[i].output)
    IN  /\ Len(said) <= LineLimit /\ "LF" \notin ToSet(said)
        /\ said = <<>> => ToSet(results[i].output) \subseteq Space

(* GitHub reads back one annotation for each mutant that was not caught,   *)
(* in order, with the file, the line, the title and the message as they    *)
(* were before escaping.                                                   *)
AnnotationsReadBack ==
  /\ ReadAnnotations =
       [i \in DOMAIN Listed |->
          [properties |-> <<<<"file", Listed[i].file>>,
                            <<"line", <<ToString(Listed[i].line)>>>>,
                            <<"title", Title(Listed[i])>>>>,
           message    |-> Message(Listed[i])]]
  /\ ErrorsExplained
=============================================================================
