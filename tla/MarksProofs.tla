---------------------------- MODULE MarksProofs ----------------------------
(* Proofs about Marks, for texts, runs and edits of any number.            *)
EXTENDS Marks, DiagnosticWriterProofs

Findings(ds) == {d \in ToSet(ds) : IsFinding(d)}

\* Outside the wasm call there is no writer, and before it nothing came of the run.
Quiet ==
  /\ phase # "call" => ~alive
  /\ phase = "parked" => emitted = <<>> /\ diags = <<>> /\ verdicts = {}

\* The run speaks of lines of the text it was given: as long as that is the
\* present one they are there.
InText ==
  phase # "idle" \/ ~edited =>
    /\ \A i \in DOMAIN emitted : emitted[i] \in Spoken
    /\ \A v \in verdicts : v.line <= lines

\* The page's list is that of the run.
Listed == phase = "idle" => diagnostics = Findings(diags)

\* On the text that was run the marks are those that list and those verdicts
\* make, but for a flash that has still to fade.
Drawn ==
  Fresh => /\ squiggles = Squiggle(diagnostics)
           /\ bars = Bars(verdicts)
           /\ flashes = 0 => wash = Wash(diagnostics)

\* A flash has its timer.
Timed == flashes = 0 => wash \in Marks({"none", "error", "warning"})

Safe == Quiet /\ InText /\ Listed /\ Drawn /\ Timed

MarksInv == TypeOK /\ WriterInv /\ Safe

----------------------------------------------------------------------------
(* The writer under the page's steps                                       *)

\* A run begins when nothing is in the writer.
LEMMA WriterAtStart ==
  ASSUME WriterInv, ~alive, StartRun
  PROVE  WriterInv'
<1>1. emitted' = <<>> /\ diags' = <<>> /\ rest' = <<>> /\ pending' = <<>> /\ alive' = alive
  BY DEF WriterInv, StartRun
<1>2. WriterTypeOK' /\ Prefix'
  BY <1>1 DEF WriterInv, WriterTypeOK, Prefix
<1> QED BY <1>1, <1>2 DEF WriterInv

LEMMA WriterAtResume ==
  ASSUME WriterInv, Quiet, Resume
  PROVE  WriterInv'
<1>1. emitted' = <<>> /\ diags' = <<>> /\ rest' = <<>> /\ pending' = <<>> /\ alive' = TRUE
  BY DEF WriterInv, Quiet, Resume
<1>2. Stream' = <<>> /\ Owed' = <<>>
  BY <1>1, ConcatEmptySeq, SubSeqEmpty DEF Stream, Owed
<1>3. LinesOf(Stream', Owed')
  BY <1>2, LinesOfNothing
<1>4. WriterTypeOK' /\ Prefix'
  BY <1>1 DEF WriterTypeOK, Prefix
<1> QED BY <1>1, <1>3, <1>4 DEF WriterInv

LEMMA WriterStep == MarksInv /\ [Next]_vars => WriterInv'
<1> SUFFICES ASSUME MarksInv, [Next]_vars PROVE WriterInv'
  OBVIOUS
<1>1. WriterInv /\ Quiet
  BY DEF MarksInv, Safe
<1>2. CASE Run \/ Load
  BY <1>1, <1>2, WriterAtStart DEF Run, Load, UserEvent, Quiet
<1>3. CASE Resume
  BY <1>1, <1>3, WriterAtResume
<1>4. CASE Speak
  <2>1. CASE \E d \in Spoken : Emit(d)
    BY <1>1, <2>1, EmitKeeps DEF Spoken
  <2>2. CASE \E n \in 1..Len(rest) : Write(n)
    BY <1>1, <2>2, WriteKeeps
  <2>3. CASE EmitLine
    BY <1>1, <2>3, EmitLineKeeps
  <2> QED BY <1>4, <2>1, <2>2, <2>3 DEF Speak
<1>5. CASE CallEnds
  BY <1>1, <1>5, DropKeeps, AbortKeeps DEF CallEnds
<1>6. CASE UNCHANGED writerVars
  BY <1>1, <1>6, WriterStutters
<1>7. /\ FinishRun \/ Type \/ FlashEnds \/ Lint \/ UNCHANGED vars => UNCHANGED writerVars
      /\ \A l \in 1..lines : NewLine(l) \/ DeleteLine(l) => UNCHANGED writerVars
      /\ \A l \in links : Jump(l) => UNCHANGED writerVars
  BY DEF FinishRun, NewLine, DeleteLine, Type, Jump, FlashEnds, Lint, vars
<1> QED BY <1>2, <1>3, <1>4, <1>5, <1>6, <1>7 DEF Next

----------------------------------------------------------------------------
(* Marks                                                                   *)

\* A mark put in, or taken out, moves those behind it.
LEMMA MarkInserted ==
  ASSUME NEW n \in Nat, NEW S, NEW s \in [1..n -> S], NEW i \in 1..(n + 1), NEW e \in S
  PROVE  InsertAt(s, i, e) \in [1..(n + 1) -> S]
<1> DEFINE a == SubSeq(s, 1, i - 1)
           b == <<e>>
           c == SubSeq(s, i, Len(s))
<1>1. Len(s) = n /\ \A k \in 1..n : s[k] \in S
  OBVIOUS
<1>2. a \in Seq(S) /\ Len(a) = i - 1
  BY <1>1, SubSeqProperties
<1>3. b \in Seq(S) /\ Len(b) = 1
  OBVIOUS
<1>4. c \in Seq(S) /\ Len(c) = n - i + 1
  BY <1>1, SubSeqProperties
<1>5. InsertAt(s, i, e) = (a \o b) \o c
  BY DEF InsertAt
<1> HIDE DEF a, b, c
<1> DEFINE ab == a \o b
           t == ab \o c
<1>6. ab \in Seq(S) /\ Len(ab) = i
  <2>1. ab \in Seq(S) /\ Len(ab) = Len(a) + Len(b)
    BY <1>2, <1>3, ConcatProperties
  <2> QED BY <2>1, <1>2, <1>3
<1> HIDE DEF ab
<1>7. t \in Seq(S) /\ Len(t) = Len(ab) + Len(c)
  BY <1>4, <1>6, ConcatProperties
<1>8. InsertAt(s, i, e) = t
  BY <1>5 DEF ab
<1> HIDE DEF t
<1>9. Len(t) = n + 1
  BY <1>4, <1>6, <1>7
<1> QED BY <1>7, <1>8, <1>9, LenProperties

LEMMA MarkRemoved ==
  ASSUME NEW n \in Nat, NEW S, NEW s \in [1..n -> S], NEW i \in 1..n
  PROVE  RemoveAt(s, i) \in [1..(n - 1) -> S]
<1> DEFINE a == SubSeq(s, 1, i - 1)
           c == SubSeq(s, i + 1, Len(s))
<1>1. Len(s) = n /\ \A k \in 1..n : s[k] \in S
  OBVIOUS
<1>2. a \in Seq(S) /\ Len(a) = i - 1
  BY <1>1, SubSeqProperties
<1>3. c \in Seq(S) /\ Len(c) = n - i
  BY <1>1, SubSeqProperties
<1>4. RemoveAt(s, i) = a \o c
  BY DEF RemoveAt
<1> HIDE DEF a, c
<1>5. a \o c \in Seq(S) /\ Len(a \o c) = Len(a) + Len(c)
  BY <1>2, <1>3, ConcatProperties
<1>6. Len(a \o c) = n - 1
  BY <1>2, <1>3, <1>5
<1> QED BY <1>4, <1>5, <1>6, LenProperties

LEMMA MarkKept ==
  ASSUME NEW n \in Nat \ {0}, NEW m \in Nat \ {0}, NEW S, "none" \in S, NEW s \in [1..n -> S]
  PROVE  Kept(s, m) \in [1..m -> S]
BY DEF Kept, Plain

\* What the marks are made of.
LEMMA MadeMarks ==
  ASSUME NEW ds \in SUBSET Diagnostics, NEW vs
  PROVE  /\ Wash(ds) \in Marks({"none", "error", "warning"})
         /\ Bars(vs) \in Marks({"none", "ok", "bad"})
         /\ \A s \in Squiggle(ds) : s.line \in 1..s.endLine /\ OnLine(s.endLine)
<1>1. Wash(ds) \in Marks({"none", "error", "warning"})
  BY DEF Wash, Marks
<1>2. Bars(vs) \in Marks({"none", "ok", "bad"})
  BY DEF Bars, Marks
<1>3. ASSUME NEW s \in Squiggle(ds) PROVE s.line \in 1..s.endLine /\ OnLine(s.endLine)
  <2>1. PICK d \in ds : /\ d.line # 0 /\ OnLine(d.line) /\ OnLine(d.endLine)
                         /\ s = [line |-> d.line, endLine |-> d.endLine]
    BY <1>3 DEF Squiggle
  <2>2. d.line \in Nat /\ d.endLine \in Nat /\ d.line <= d.endLine
    BY DiagnosticsAssumption
  <2> QED BY <2>1, <2>2
<1> QED BY <1>1, <1>2, <1>3

----------------------------------------------------------------------------
(* Types                                                                   *)

LEMMA FindingsType ==
  ASSUME diags \in Seq(Diagnostics)
  PROVE  /\ Findings(diags) \in SUBSET Diagnostics
         /\ \A d \in Findings(diags) : \E i \in 1..Len(diags) : d = diags[i]
<1>1. DOMAIN diags = 1..Len(diags)
  OBVIOUS
<1>2. \A i \in 1..Len(diags) : diags[i] \in Diagnostics
  BY ElementOfSeq
<1>3. \A d \in ToSet(diags) : \E i \in 1..Len(diags) : d = diags[i]
  BY <1>1 DEF ToSet
<1> QED BY <1>2, <1>3 DEF Findings

LEMMA MarksInitial == Init => MarksInv
<1> SUFFICES ASSUME Init PROVE MarksInv
  OBVIOUS
<1>1. /\ emitted = <<>> /\ rest = <<>> /\ pending = <<>> /\ diags = <<>> /\ alive = FALSE
      /\ lines \in 1..MaxLines /\ phase = "parked" /\ verdicts = {} /\ diagnostics = {}
  BY DEF Init
<1>2. WriterTypeOK /\ Prefix
  <2>1. alive \in BOOLEAN
    BY DEF Init
  <2>2. /\ emitted \in Seq(Diagnostics) /\ diags \in Seq(Diagnostics)
        /\ rest \in Seq(Bytes) /\ pending \in Seq(Bytes)
    BY <1>1
  <2>3. Prefix
    BY <1>1 DEF Prefix
  <2> QED BY <2>1, <2>2, <2>3 DEF WriterTypeOK
<1>3. TypeOK
  <2>1. wash = Plain(lines) /\ mapped = Plain(lines) /\ bars = Plain(lines)
    BY DEF Init
  <2>2. \A S : "none" \in S => Plain(lines) \in Marks(S)
    BY DEF Plain, Marks
  <2> QED BY <1>1, <1>2, <2>1, <2>2 DEF Init, TypeOK
<1>4. WriterInv
  BY <1>1, <1>2 DEF WriterInv
<1>5. wash \in Marks({"none", "error", "warning"})
  BY DEF Init, Plain, Marks
<1>6. Safe
  BY <1>1, <1>5 DEF Safe, Quiet, InText, Listed, Drawn, Fresh, Timed
<1> QED BY <1>3, <1>4, <1>6 DEF MarksInv

LEMMA TypeStep == MarksInv /\ [Next]_vars => TypeOK'
<1> SUFFICES ASSUME MarksInv, [Next]_vars PROVE TypeOK'
  OBVIOUS
<1>1. TypeOK /\ WriterTypeOK'
  BY WriterStep DEF MarksInv, WriterInv
<1>2. lines \in Nat \ {0} /\ MaxLines \in Nat \ {0} /\ lines <= MaxLines
  BY <1>1, BoundsAssumption DEF TypeOK
<1>3. /\ wash \in [1..lines -> {"none", "error", "warning", "flash"}]
      /\ mapped \in [1..lines -> {"none", "error", "warning"}]
      /\ bars \in [1..lines -> {"none", "ok", "bad"}]
      /\ \A s \in squiggles : s.line \in 1..s.endLine /\ s.endLine \in 1..lines
  BY <1>1 DEF TypeOK, Marks, OnLine
<1>4. CASE Run
  BY <1>1, <1>4 DEF Run, UserEvent, StartRun, markVars, timeVars, TypeOK, Marks, OnLine
<1>5. CASE Resume
  <2>1. verdicts' \subseteq [line : 1..MaxLines, proved : BOOLEAN]
    BY <1>5, VerdictsAssumption DEF Resume
  <2> QED BY <1>1, <1>5, <2>1 DEF Resume, markVars, timeVars, TypeOK, Marks, OnLine
<1>6. CASE Speak
  <2>1. told' \in Nat /\ UNCHANGED <<runVars, markVars, timeVars, lines, links, edited, events>>
    BY <1>1, <1>6 DEF Speak, TypeOK
  <2> QED BY <1>1, <2>1 DEF runVars, markVars, timeVars, TypeOK, Marks, OnLine
<1>7. CASE CallEnds
  BY <1>1, <1>7 DEF CallEnds, markVars, timeVars, TypeOK, Marks, OnLine
<1>8. CASE FinishRun
  <2>1. diagnostics' \in SUBSET Diagnostics
    BY <1>1, <1>8, FindingsType DEF FinishRun, TypeOK, WriterTypeOK, Findings
  <2>2. /\ wash' = Wash(diagnostics') /\ mapped' = wash' /\ bars' = Bars(verdicts)
        /\ squiggles' = Squiggle(diagnostics') /\ lines' = lines
    BY <1>8 DEF FinishRun
  <2>3. /\ wash' \in Marks({"none", "error", "warning"})
        /\ bars' \in Marks({"none", "ok", "bad"})
        /\ \A s \in squiggles' : s.line \in 1..s.endLine /\ OnLine(s.endLine)
    BY <2>1, <2>2, MadeMarks
  <2>4. links' \subseteq 1..MaxLines
    BY <1>2, <1>8 DEF FinishRun
  <2> QED BY <1>1, <1>8, <2>1, <2>2, <2>3, <2>4 DEF FinishRun, timeVars, TypeOK, Marks, OnLine
<1>9. ASSUME NEW l \in 1..lines, NewLine(l) PROVE TypeOK'
  <2>1. l + 1 \in 1..(lines + 1) /\ lines' = lines + 1 /\ lines' \in 1..MaxLines
    BY <1>2, <1>9 DEF NewLine
  <2>2. /\ wash' \in [1..lines' -> {"none", "error", "warning", "flash"}]
        /\ mapped' \in [1..lines' -> {"none", "error", "warning"}]
        /\ bars' \in [1..lines' -> {"none", "ok", "bad"}]
    BY <1>2, <1>3, <1>9, <2>1, MarkInserted DEF NewLine
  <2>3. \A s \in squiggles' : s.line \in 1..s.endLine /\ s.endLine \in 1..lines'
    <3> SUFFICES ASSUME NEW s \in squiggles' PROVE s.line \in 1..s.endLine /\ s.endLine \in 1..lines'
      OBVIOUS
    <3>1. PICK u \in squiggles :
            s = [line    |-> IF u.line > l THEN u.line + 1 ELSE u.line,
                 endLine |-> IF u.endLine > l THEN u.endLine + 1 ELSE u.endLine]
      BY <1>9 DEF NewLine
    <3>2. /\ s.line = IF u.line > l THEN u.line + 1 ELSE u.line
          /\ s.endLine = IF u.endLine > l THEN u.endLine + 1 ELSE u.endLine
      BY <3>1
    <3>3. u.endLine \in 1..lines /\ u.line \in 1..u.endLine
      BY <1>3
    <3> QED BY <1>2, <2>1, <3>2, <3>3
  <2> QED BY <1>1, <1>9, <2>1, <2>2, <2>3
          DEF NewLine, UserEvent, Changed, runVars, TypeOK, Marks, OnLine
<1>10. ASSUME NEW l \in 1..lines, DeleteLine(l) PROVE TypeOK'
  <2> DEFINE gone == IF l = 1 THEN 2 ELSE l
  <2>1. gone \in 1..lines /\ lines' = lines - 1 /\ lines' \in 1..MaxLines
    BY <1>2, <1>10 DEF DeleteLine
  <2>2. wash' = RemoveAt(wash, gone) /\ mapped' = RemoveAt(mapped, gone) /\ bars' = RemoveAt(bars, gone)
    BY <1>10 DEF DeleteLine
  <2> HIDE DEF gone
  <2>3. /\ wash' \in [1..lines' -> {"none", "error", "warning", "flash"}]
        /\ mapped' \in [1..lines' -> {"none", "error", "warning"}]
        /\ bars' \in [1..lines' -> {"none", "ok", "bad"}]
    BY <1>2, <1>3, <2>1, <2>2, MarkRemoved
  <2>4. \A s \in squiggles' : s.line \in 1..s.endLine /\ s.endLine \in 1..lines'
    <3> SUFFICES ASSUME NEW s \in squiggles' PROVE s.line \in 1..s.endLine /\ s.endLine \in 1..lines'
      OBVIOUS
    <3>1. PICK u \in squiggles :
            /\ ~(u.line = l /\ u.endLine = l)
            /\ s = [line    |-> IF u.line > l THEN u.line - 1 ELSE u.line,
                    endLine |-> IF u.endLine >= l THEN u.endLine - 1 ELSE u.endLine]
      BY <1>10 DEF DeleteLine
    <3>2. /\ s.line = IF u.line > l THEN u.line - 1 ELSE u.line
          /\ s.endLine = IF u.endLine >= l THEN u.endLine - 1 ELSE u.endLine
      BY <3>1
    <3>3. u.endLine \in 1..lines /\ u.line \in 1..u.endLine
      BY <1>3
    <3> QED BY <1>2, <2>1, <3>1, <3>2, <3>3
  <2> QED BY <1>1, <1>10, <2>1, <2>3, <2>4
          DEF DeleteLine, UserEvent, Changed, runVars, TypeOK, Marks, OnLine
<1>11. CASE Type
  BY <1>1, <1>11 DEF Type, UserEvent, Changed, runVars, markVars, TypeOK, Marks, OnLine
<1>12. CASE Load
  <2>1. lines' \in 1..MaxLines /\ lines' \in Nat \ {0}
    BY <1>2, <1>12 DEF Load
  <2>2. wash' = Kept(wash, lines') /\ mapped' = Kept(mapped, lines') /\ bars' = Kept(bars, lines')
    BY <1>12 DEF Load
  <2>3. /\ wash' \in [1..lines' -> {"none", "error", "warning", "flash"}]
        /\ mapped' \in [1..lines' -> {"none", "error", "warning"}]
        /\ bars' \in [1..lines' -> {"none", "ok", "bad"}]
    BY <1>2, <1>3, <2>1, <2>2, MarkKept
  <2> QED BY <1>1, <1>12, <2>1, <2>3 DEF Load, UserEvent, Changed, StartRun, TypeOK, Marks, OnLine
<1>13. ASSUME NEW l \in links, Jump(l) PROVE TypeOK'
  <2>1. wash' \in [1..lines -> {"none", "error", "warning", "flash"}]
    BY <1>13 DEF Jump
  <2> QED BY <1>1, <1>13, <2>1 DEF Jump, UserEvent, runVars, TypeOK, Marks, OnLine
<1>14. CASE FlashEnds
  <2>1. wash' \in Marks({"none", "error", "warning"})
    BY <1>1, <1>14, MadeMarks DEF FlashEnds, TypeOK
  <2> QED BY <1>1, <1>14, <2>1 DEF FlashEnds, runVars, TypeOK, Marks, OnLine
<1>15. CASE Lint
  <2>1. \A s \in squiggles' : s.line \in 1..s.endLine /\ OnLine(s.endLine)
    BY <1>1, <1>15, MadeMarks DEF Lint, TypeOK
  <2> QED BY <1>1, <1>15, <2>1 DEF Lint, runVars, TypeOK, Marks, OnLine
<1>16. CASE UNCHANGED vars
  BY <1>1, <1>16 DEF vars, runVars, markVars, timeVars, TypeOK, Marks, OnLine
<1> QED BY <1>4, <1>5, <1>6, <1>7, <1>8, <1>9, <1>10, <1>11, <1>12, <1>13, <1>14, <1>15, <1>16
        DEF Next

----------------------------------------------------------------------------
(* The marks and the run                                                   *)

LEMMA QuietStep == MarksInv /\ [Next]_vars => Quiet'
<1> SUFFICES ASSUME MarksInv, [Next]_vars PROVE Quiet'
  OBVIOUS
<1>1. Quiet
  BY DEF MarksInv, Safe
<1>2. CASE Run \/ Load
  BY <1>1, <1>2 DEF Quiet, Run, Load, UserEvent, StartRun
<1>3. CASE Resume \/ Speak
  BY <1>3 DEF Quiet, Resume, Speak, runVars
<1>4. CASE CallEnds
  BY <1>4 DEF Quiet, CallEnds, Drop, Abort
<1>5. CASE FinishRun
  BY <1>1, <1>5 DEF Quiet, FinishRun, writerVars
<1>6. CASE UNCHANGED <<writerVars, runVars>>
  BY <1>1, <1>6 DEF Quiet, writerVars, runVars
<1>7. /\ Type \/ FlashEnds \/ Lint \/ UNCHANGED vars => UNCHANGED <<writerVars, runVars>>
      /\ \A l \in 1..lines : NewLine(l) \/ DeleteLine(l) => UNCHANGED <<writerVars, runVars>>
      /\ \A l \in links : Jump(l) => UNCHANGED <<writerVars, runVars>>
  BY DEF NewLine, DeleteLine, Type, Jump, FlashEnds, Lint, vars
<1> QED BY <1>2, <1>3, <1>4, <1>5, <1>6, <1>7 DEF Next

LEMMA InTextStep == MarksInv /\ [Next]_vars => InText'
<1> SUFFICES ASSUME MarksInv, [Next]_vars PROVE InText'
  OBVIOUS
<1>1. Quiet /\ InText /\ phase \in {"idle", "parked", "call", "over"} /\ emitted \in Seq(Diagnostics)
  BY DEF MarksInv, Safe, TypeOK, WriterTypeOK
<1>2. CASE Run \/ Load
  BY <1>2 DEF InText, Run, Load, StartRun
<1>3. CASE Resume
  BY <1>1, <1>3 DEF InText, Quiet, Resume
<1>4. CASE Speak
  <2>1. /\ phase' = "call" /\ lines' = lines /\ verdicts' = verdicts
        /\ \A i \in DOMAIN emitted : emitted[i] \in Spoken
        /\ \A v \in verdicts : v.line <= lines
    BY <1>1, <1>4 DEF InText, Speak, runVars
  <2>2. \A i \in DOMAIN emitted' : emitted'[i] \in Spoken
    <3>1. CASE emitted' = emitted
      BY <2>1, <3>1
    <3>2. ASSUME NEW d \in Spoken, emitted' = Append(emitted, d)
          PROVE  \A i \in DOMAIN emitted' : emitted'[i] \in Spoken
      <4>1. /\ emitted' \in Seq(Diagnostics) /\ Len(emitted') = Len(emitted) + 1
            /\ \A i \in 1..Len(emitted) : emitted'[i] = emitted[i]
            /\ emitted'[Len(emitted) + 1] = d
        BY <1>1, <3>2, AppendProperties DEF Spoken
      <4>2. DOMAIN emitted' = 1..(Len(emitted) + 1) /\ DOMAIN emitted = 1..Len(emitted)
        BY <1>1, <4>1
      <4> QED BY <2>1, <4>1, <4>2, <1>1
    <3> QED BY <1>4, <3>1, <3>2 DEF Speak, Emit, Write, EmitLine
  <2> QED BY <2>1, <2>2 DEF InText, Spoken
<1>5. CASE CallEnds \/ FinishRun
  <2>1. /\ phase # "idle" /\ lines' = lines /\ verdicts' = verdicts /\ emitted' = emitted
    BY <1>5 DEF CallEnds, FinishRun, Drop, Abort, writerVars
  <2> QED BY <1>1, <2>1 DEF InText, Spoken
<1>6. ASSUME UserEvent, edited' = TRUE, UNCHANGED <<writerVars, runVars>>
      PROVE  InText'
  BY <1>1, <1>6 DEF InText, Quiet, UserEvent, writerVars, runVars
<1>7. CASE Type \/ \E l \in 1..lines : NewLine(l) \/ DeleteLine(l)
  BY <1>6, <1>7 DEF Type, NewLine, DeleteLine, Changed
<1>8. ASSUME lines' = lines, edited' = edited, UNCHANGED <<writerVars, runVars>>
      PROVE  InText'
  BY <1>1, <1>8 DEF InText, Spoken, writerVars, runVars
<1>9. CASE FlashEnds \/ Lint \/ UNCHANGED vars \/ \E l \in links : Jump(l)
  BY <1>8, <1>9 DEF FlashEnds, Lint, Jump, vars
<1> QED BY <1>2, <1>3, <1>4, <1>5, <1>7, <1>9 DEF Next

LEMMA ListedStep == MarksInv /\ [Next]_vars => Listed'
<1> SUFFICES ASSUME MarksInv, [Next]_vars PROVE Listed'
  OBVIOUS
<1>1. Listed
  BY DEF MarksInv, Safe
<1>2. CASE Run \/ Load \/ Resume \/ Speak \/ CallEnds
  BY <1>2 DEF Listed, Run, Load, StartRun, Resume, Speak, CallEnds, runVars
<1>3. CASE FinishRun
  BY <1>3 DEF Listed, FinishRun, Findings, writerVars
<1>4. CASE UNCHANGED <<writerVars, runVars>>
  BY <1>1, <1>4 DEF Listed, Findings, writerVars, runVars
<1>5. /\ Type \/ FlashEnds \/ Lint \/ UNCHANGED vars => UNCHANGED <<writerVars, runVars>>
      /\ \A l \in 1..lines : NewLine(l) \/ DeleteLine(l) => UNCHANGED <<writerVars, runVars>>
      /\ \A l \in links : Jump(l) => UNCHANGED <<writerVars, runVars>>
  BY DEF NewLine, DeleteLine, Type, Jump, FlashEnds, Lint, vars
<1> QED BY <1>2, <1>3, <1>4, <1>5 DEF Next

\* What would be drawn depends on the text's length and the lists only.
LEMMA Redrawn ==
  ASSUME lines' = lines
  PROVE  /\ Squiggle(diagnostics)' = Squiggle(diagnostics')
         /\ Wash(diagnostics)' = Wash(diagnostics')
         /\ Bars(verdicts)' = Bars(verdicts')
<1>1. Squiggle(diagnostics)' = Squiggle(diagnostics')
  BY DEF Squiggle, OnLine
<1>2. Wash(diagnostics)' = Wash(diagnostics')
  BY DEF Wash, OnLine, Washable
<1>3. Bars(verdicts)' = Bars(verdicts')
  BY DEF Bars, OnLine
<1> QED BY <1>1, <1>2, <1>3

LEMMA DrawnStep == MarksInv /\ [Next]_vars => Drawn'
<1> SUFFICES ASSUME MarksInv, [Next]_vars PROVE Drawn'
  OBVIOUS
<1>1. Drawn /\ flashes \in Nat
  BY DEF MarksInv, Safe, TypeOK
<1>2. ASSUME phase' # "idle" \/ edited' = TRUE PROVE Drawn'
  BY <1>2 DEF Drawn, Fresh
<1>3. CASE Run \/ Load \/ Resume \/ Speak \/ CallEnds
  BY <1>2, <1>3 DEF Run, Load, StartRun, Resume, Speak, CallEnds, runVars
<1>4. CASE Type \/ \E l \in 1..lines : NewLine(l) \/ DeleteLine(l)
  BY <1>2, <1>4 DEF Type, NewLine, DeleteLine, Changed
<1>5. CASE FinishRun
  <2>1. /\ lines' = lines /\ verdicts' = verdicts /\ bars' = Bars(verdicts)
        /\ squiggles' = Squiggle(diagnostics') /\ wash' = Wash(diagnostics')
    BY <1>5 DEF FinishRun
  <2> QED BY <2>1, Redrawn DEF Drawn
<1>6. ASSUME phase' = phase, edited' = edited, lines' = lines, bars' = bars,
             verdicts' = verdicts, diagnostics' = diagnostics,
             squiggles' = squiggles \/ squiggles' = Squiggle(diagnostics),
             (wash' = wash /\ flashes' = flashes) \/ wash' = Wash(diagnostics) \/ flashes' # 0
      PROVE  Drawn'
  BY <1>1, <1>6, Redrawn DEF Drawn, Fresh
<1>7. CASE \E l \in links : Jump(l)
  BY <1>1, <1>6, <1>7 DEF Jump, runVars
<1>8. CASE FlashEnds \/ Lint
  BY <1>6, <1>8 DEF FlashEnds, Lint, runVars
<1>9. CASE UNCHANGED vars
  BY <1>6, <1>9 DEF vars, runVars, markVars, timeVars
<1> QED BY <1>3, <1>4, <1>5, <1>6, <1>7, <1>8, <1>9 DEF Next

LEMMA TimedStep == MarksInv /\ [Next]_vars => Timed'
<1> SUFFICES ASSUME MarksInv, [Next]_vars, flashes' = 0
             PROVE  wash' \in [1..lines' -> {"none", "error", "warning"}]
  BY DEF Timed, Marks
<1>1. /\ flashes \in Nat /\ lines \in Nat \ {0}
      /\ flashes = 0 => wash \in [1..lines -> {"none", "error", "warning"}]
      /\ diagnostics \in SUBSET Diagnostics /\ diags \in Seq(Diagnostics)
  BY DEF MarksInv, Safe, TypeOK, WriterTypeOK, Timed, Marks
<1>2. CASE UNCHANGED <<wash, lines, flashes>>
  BY <1>1, <1>2
<1>3. CASE Run \/ Resume \/ Speak \/ CallEnds \/ Type \/ Lint \/ UNCHANGED vars
  BY <1>2, <1>3 DEF Run, Resume, Speak, CallEnds, Type, Lint, vars, markVars, timeVars
<1>4. CASE FinishRun
  <2>1. Findings(diags) \in SUBSET Diagnostics
    BY <1>1, FindingsType
  <2> QED BY <1>4, <2>1, MadeMarks DEF FinishRun, Findings, Marks
<1>5. CASE FlashEnds
  BY <1>1, <1>5, MadeMarks DEF FlashEnds, Marks
<1>6. ASSUME NEW l \in 1..lines, NewLine(l)
      PROVE  wash' \in [1..lines' -> {"none", "error", "warning"}]
  <2>1. /\ wash' = InsertAt(wash, l + 1, "none") /\ lines' = lines + 1 /\ flashes' = flashes
        /\ l + 1 \in 1..(lines + 1)
    BY <1>1, <1>6 DEF NewLine
  <2> QED BY <1>1, <2>1, MarkInserted
<1>7. ASSUME NEW l \in 1..lines, DeleteLine(l)
      PROVE  wash' \in [1..lines' -> {"none", "error", "warning"}]
  <2> DEFINE gone == IF l = 1 THEN 2 ELSE l
  <2>1. /\ wash' = RemoveAt(wash, gone) /\ lines' = lines - 1 /\ flashes' = flashes
        /\ gone \in 1..lines
    BY <1>1, <1>7 DEF DeleteLine
  <2> HIDE DEF gone
  <2> QED BY <1>1, <2>1, MarkRemoved
<1>8. CASE Load
  <2>1. /\ wash' = Kept(wash, lines') /\ lines' \in Nat \ {0} /\ flashes' = flashes
    BY <1>8, BoundsAssumption DEF Load
  <2> QED BY <1>1, <2>1, MarkKept
<1>9. CASE \E l \in links : Jump(l)
  BY <1>1, <1>9 DEF Jump
<1> QED BY <1>3, <1>4, <1>5, <1>6, <1>7, <1>8, <1>9 DEF Next

----------------------------------------------------------------------------
(* Theorems                                                                *)

LEMMA Invariance == Spec => []MarksInv
<1>1. MarksInv /\ [Next]_vars => MarksInv'
  BY TypeStep, WriterStep, QuietStep, InTextStep, ListedStep, DrawnStep, TimedStep
     DEF MarksInv, Safe
<1> QED BY MarksInitial, <1>1, PTL DEF Spec

\* Whatever the user does while runs come and go: a mark or none for every line,
\* and no wash, bar or underline outside the text (app.js:1050-1102, 1010-1041).
THEOREM TypeCorrect == Spec => []TypeOK
<1>1. MarksInv => TypeOK
  BY DEF MarksInv
<1> QED BY <1>1, Invariance, PTL

\* The page's list is that of the emitter also under the runs that replace one
\* another and the traps that cut a run short (rust.rs:230-250).
THEOREM PageGetsAll == Spec => []Delivered
<1>1. MarksInv => Delivered
  BY DeliveredFollows DEF MarksInv
<1> QED BY <1>1, Invariance, PTL

\* On the text that was run, the marks say what the run said (app.js:1050-1102,
\* 1010-1041), however many flashes, lints and runs came before.
THEOREM MarksAreTrue == Spec => []MarksTellTheRun
<1>1. MarksInv => MarksTellTheRun
  <2> SUFFICES ASSUME MarksInv, Fresh PROVE MarksTellTheRun!2
    BY DEF MarksTellTheRun
  <2>1. /\ diagnostics = Findings(diags) /\ diags \in Seq(Diagnostics)
        /\ squiggles = Squiggle(diagnostics) /\ bars = Bars(verdicts)
        /\ flashes = 0 => wash = Wash(diagnostics)
        /\ \A v \in verdicts : v.line <= lines
        /\ verdicts \subseteq [line : 1..MaxLines, proved : BOOLEAN]
        /\ lines \in Nat
    BY DEF MarksInv, Safe, Listed, Drawn, InText, Fresh, TypeOK, WriterTypeOK
  <2>2. ASSUME NEW d \in Findings(diags)
        PROVE  /\ d.level \in Levels \ {"footer"} /\ d.line \in Nat /\ d.endLine \in Nat
               /\ d.line <= d.endLine /\ d.endLine <= lines /\ d.line <= lines
    <3>1. PICK i \in 1..Len(diags) : d = diags[i]
      BY <2>1, <2>2, FindingsType
    <3>2. d = emitted[i] /\ i \in DOMAIN emitted
      BY <2>1, <3>1 DEF MarksInv, WriterInv, WriterTypeOK, Prefix
    <3>3. d \in Spoken
      BY <3>2 DEF MarksInv, Safe, InText, Fresh
    <3>4. d.level # "footer"
      BY <2>2 DEF Findings, IsFinding
    <3> QED BY <3>3, <3>4, DiagnosticsAssumption DEF Spoken
  <2>3. squiggles = {[line |-> d.line, endLine |-> d.endLine] :
                      d \in {e \in ToSet(diags) : IsFinding(e) /\ e.line # 0}}
    <3>1. {e \in diagnostics : e.line # 0 /\ OnLine(e.line) /\ OnLine(e.endLine)}
          = {e \in ToSet(diags) : IsFinding(e) /\ e.line # 0}
      BY <2>1, <2>2 DEF Findings, OnLine
    <3> QED BY <2>1, <3>1 DEF Squiggle
  <2>4. ASSUME NEW l \in 1..lines
        PROVE  /\ bars[l] = "bad" <=> \E v \in verdicts : v.line = l /\ ~v.proved
               /\ bars[l] = "none" <=> \A v \in verdicts : v.line # l
    <3> DEFINE of == {v.proved : v \in {u \in verdicts : OnLine(u.line) /\ u.line = l}}
    <3>1. bars[l] = IF FALSE \in of THEN "bad" ELSE IF of = {} THEN "none" ELSE "ok"
      BY <2>1 DEF Bars
    <3>2. FALSE \in of <=> \E v \in verdicts : v.line = l /\ ~v.proved
      BY <2>1 DEF OnLine
    <3>3. of = {} <=> \A v \in verdicts : v.line # l
      BY DEF OnLine
    <3> HIDE DEF of
    <3> QED BY <3>1, <3>2, <3>3
  <2>5. ASSUME NEW l \in 1..lines, flashes = 0
        PROVE  LET said == {d \in ToSet(diags) : IsFinding(d) /\ d.line = l}
               IN  /\ wash[l] = "error" <=> \E d \in said : d.level = "error"
                   /\ wash[l] = "none" <=> \A d \in said : d.level = "note"
    <3> DEFINE said == {d \in ToSet(diags) : IsFinding(d) /\ d.line = l}
               of == {d.level : d \in {e \in diagnostics : Washable(e) /\ e.line = l}}
    <3>1. wash[l] = IF "error" \in of THEN "error" ELSE IF of = {} THEN "none" ELSE "warning"
      BY <2>1, <2>5 DEF Wash
    <3>2. \A d : d \in said <=> d \in diagnostics /\ d.line = l
      BY <2>1 DEF Findings
    <3>3. \A d \in said : Washable(d) <=> d.level # "note"
      BY <2>1, <2>2, <3>2 DEF Washable, OnLine
    <3>4. "error" \in of <=> \E d \in said : d.level = "error"
      BY <3>2, <3>3
    <3>5. of = {} <=> \A d \in said : d.level = "note"
      BY <3>2, <3>3
    <3> HIDE DEF of, said
    <3>6. /\ wash[l] = "error" <=> \E d \in said : d.level = "error"
          /\ wash[l] = "none" <=> \A d \in said : d.level = "note"
      BY <3>1, <3>4, <3>5
    <3> QED BY <3>6 DEF said
  <2> QED BY <2>3, <2>4, <2>5
<1> QED BY <1>1, Invariance, PTL

=============================================================================
