------------------------------ MODULE MCMarks ------------------------------
(* Texts of up to three lines, diagnostics of every level, one of them over *)
(* two lines, one without a span.                                          *)
EXTENDS Marks

Said(level, line, endLine) == [level |-> level, line |-> line, endLine |-> endLine]

SmallDiagnostics ==
  {Said("error", 1, 1), Said("warning", 1, 1), Said("error", 2, 3), Said("note", 2, 2),
   Said("footer", 0, 0)}

\* Two verdicts meet on line 1; line 2 has one of its own.
SmallVerdicts ==
  LET verdict(l, ok) == [line |-> l, proved |-> ok]
  IN  {{}, {verdict(1, TRUE), verdict(1, FALSE), verdict(2, TRUE)}}

=============================================================================
