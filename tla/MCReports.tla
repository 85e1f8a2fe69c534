------------------------------ MODULE MCReports ------------------------------
(***************************************************************************)
(* Reports for TLC: every report of up to four results with plain texts,   *)
(* and reports of one or two results with every short text.                *)
(***************************************************************************)
EXTENDS Reports

ResultOf(status, operator, file, change, output) ==
  [status |-> status, operator |-> operator, file |-> file, line |-> 7,
   change |-> change, output |-> output]

Plain(status, operator) == ResultOf(status, operator, <<"x">>, <<"x">>, <<"x">>)
MCPlainReports ==
  BoundedSeq({Plain(s, o) : s \in Statuses, o \in {"comparison", "for"}}, 4) \ {<<>>}

Texts(characters, length) == BoundedSeq(characters, length)
FileTexts   == Texts({"%", "0", "A", ":", ",", "LF"}, 4) \ {<<>>}
ChangeTexts == Texts({"%", "2", "5", ":", "x"}, 4)
OutputTexts == Texts({"x", "%", "SP", "LF", "CR"}, 5)
MCTextReports ==
  {<<ResultOf("survived", "for", f, <<"x">>, <<>>)>> : f \in FileTexts}
  \cup {<<ResultOf("survived", "for", <<"x">>, c, <<>>),
          ResultOf("survived", "for", <<"x">>, c, <<>>)>> : c \in ChangeTexts}
  \cup {<<ResultOf(s, "for", <<"x">>, <<"x">>, o)>> :
          s \in {"error", "timeout"}, o \in OutputTexts}

MCReportSet == MCPlainReports \cup MCTextReports
=============================================================================
