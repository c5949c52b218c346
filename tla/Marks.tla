------------------------------- MODULE Marks -------------------------------
(***************************************************************************)
(* What a run leaves in the source editor (public/app.js): the wash behind *)
(* the lines of errors and warnings, the verdict bars, the squiggles, and  *)
(* the links that jump to a line and flash it for a moment -- and how they *)
(* fare while the user edits, clicks and runs again.                       *)
(*                                                                         *)
(* A text is its number of lines; a diagnostic or a verdict speaks of line *)
(* numbers of the text that was run, a mark sits on a line of the present  *)
(* text and moves with it.  How CodeMirror maps marks through a change is  *)
(* external.  Of runWith only the newest run is kept (see LatestRun); the  *)
(* diagnostics arrive through DiagnosticWriter.                            *)
(***************************************************************************)
EXTENDS DiagnosticWriter, Integers, SequencesExt

CONSTANTS MaxLines,      \* bounds: the lines of a text,
          VerdictSets,   \* the verdicts a run can come to: sets of [line, proved]
          MaxDiags,      \* the diagnostics of all the runs together,
          MaxEvents      \* the user's actions

\* A diagnostic: its level and the lines of its primary span (0: no span); the
\* footer is rustc's "aborting due to N previous errors".
Levels == {"error", "warning", "note", "footer"}
ASSUME DiagnosticsAssumption ==
  \A d \in Diagnostics :
    d.level \in Levels /\ d.line \in Nat /\ d.endLine \in Nat /\ d.line <= d.endLine
ASSUME VerdictsAssumption ==
  {} \in VerdictSets /\ \A vs \in VerdictSets : vs \subseteq [line : 1..MaxLines, proved : BOOLEAN]
ASSUME BoundsAssumption ==
  MaxLines \in Nat \ {0} /\ MaxDiags \in Nat /\ MaxEvents \in Nat

VARIABLES
  lines,       \* view.state.doc.lines
  phase,       \* of the newest run: "parked", "call", "over" or "idle"
  verdicts,    \* _verdicts
  diagnostics, \* diagnostics: what the marks are made from, whatever its order
  wash,        \* errorLineField: a mark per line
  bars,        \* verdictLineField: a mark per line
  squiggles,   \* the lint field: [line, endLine] of each underlined span
  links,       \* the lines that links on the page can ask to jump to
  flashes,     \* setTimeouts of jumpToLoc that are pending
  lintDue,     \* the linter will run again
  edited,      \* history: the text has changed since the last run ended
  mapped,      \* history: the wash of the last run, mapped through the changes
  told,        \* how many of the MaxDiags diagnostics came
  events       \* how many of the MaxEvents user actions happened

runVars  == <<phase, verdicts, diagnostics>>
markVars == <<wash, bars, squiggles, mapped>>
timeVars == <<flashes, lintDue>>
vars == <<writerVars, runVars, markVars, timeVars, lines, links, edited, told, events>>

Plain(n) == [l \in 1..n |-> "none"]

\* The page has just loaded and asked for its first run, which waits for the
\* wasm; there is no writer yet.
Init ==
  /\ emitted = <<>> /\ rest = <<>> /\ pending = <<>> /\ diags = <<>> /\ alive = FALSE
  /\ lines \in 1..MaxLines
  /\ phase = "parked" /\ verdicts = {} /\ diagnostics = {}
  /\ wash = Plain(lines) /\ mapped = Plain(lines) /\ bars = Plain(lines)
  /\ squiggles = {} /\ links = {} /\ flashes = 0 /\ lintDue = TRUE
  /\ edited = FALSE /\ told = 0 /\ events = 0

----------------------------------------------------------------------------
(* From diagnostics and verdicts to marks                                  *)

\* There is such a line; doc.line(l) would throw otherwise.
OnLine(l) == l \in 1..lines

Washable(d) == d.line # 0 /\ d.level # "note" /\ OnLine(d.line)

\* Mutant: a warning wins over an error.
WashWarningWins(ds) ==
  LET of(l) == {d.level : d \in {e \in ds : Washable(e) /\ e.line = l}}
  IN  [l \in 1..lines |->
         IF "warning" \in of(l) THEN "warning" ELSE IF of(l) = {} THEN "none" ELSE "error"]

\* updateErrorDecorations: a mark per line, an error wins over a warning.
Wash(ds) ==
  LET of(l) == {d.level : d \in {e \in ds : Washable(e) /\ e.line = l}}
  IN  [l \in 1..lines |->
         IF "error" \in of(l) THEN "error" ELSE IF of(l) = {} THEN "none" ELSE "warning"]

\* Mutant: the end of a span is not looked at.
SquiggleAnyEnd(ds) ==
  {[line |-> d.line, endLine |-> d.endLine] :
     d \in {e \in ds : e.line # 0 /\ OnLine(e.line)}}

\* computeInlineDiagnostics skips what does not lie in the text.
Squiggle(ds) ==
  {[line |-> d.line, endLine |-> d.endLine] :
     d \in {e \in ds : e.line # 0 /\ OnLine(e.line) /\ OnLine(e.endLine)}}

\* updateVerdictMarkers: a bar per line, red if any of its verdicts failed.
Bars(vs) ==
  LET of(l) == {v.proved : v \in {u \in vs : OnLine(u.line) /\ u.line = l}}
  IN  [l \in 1..lines |->
         IF FALSE \in of(l) THEN "bad" ELSE IF of(l) = {} THEN "none" ELSE "ok"]

----------------------------------------------------------------------------
(* The run                                                                 *)

\* runWith up to its await; the marks of the run before stay.
StartRun ==
  /\ phase' = "parked"
  /\ verdicts' = {} /\ diagnostics' = {}
  /\ diags' = <<>> /\ emitted' = <<>>
  /\ UNCHANGED <<rest, pending, alive>>

UserEvent == phase \in {"idle", "parked"} /\ events < MaxEvents /\ events' = events + 1

\* Click, checkbox, auto-verify timer: anything that runs the text as it is.
Run ==
  /\ UserEvent
  /\ StartRun
  /\ UNCHANGED <<markVars, timeVars, lines, links, edited, told>>

\* The wasm call begins: a session with a writer of its own.  Which functions it
\* will have verified, and how, is chosen here.
Resume ==
  /\ phase = "parked"
  /\ phase' = "call"
  /\ alive' = TRUE
  /\ verdicts' \in {vs \in VerdictSets : \A v \in vs : v.line <= lines}
  /\ UNCHANGED <<emitted, rest, pending, diags, diagnostics, markVars, timeVars, lines, links,
                 edited, told, events>>

\* What rustc can say of the present text.
Spoken == {d \in Diagnostics : d.line <= lines /\ d.endLine <= lines}

Speak ==
  /\ phase = "call"
  /\ \/ told < MaxDiags /\ told' = told + 1 /\ \E d \in Spoken : Emit(d)
     \/ UNCHANGED told /\ ((\E n \in 1..Len(rest) : Write(n)) \/ EmitLine)
  /\ UNCHANGED <<runVars, markVars, timeVars, lines, links, edited, events>>

\* The call returns, or traps; what onError may add has no span.
CallEnds ==
  /\ phase = "call"
  /\ Drop \/ Abort
  /\ phase' = "over"
  /\ UNCHANGED <<verdicts, diagnostics, markVars, timeVars, lines, links, edited, told, events>>

\* consolidateDiags.
IsFinding(d) == d.level # "footer"

\* The tail of runWith: consolidateDiags, renderMeta with the outputs' links,
\* updateErrorDecorations, updateVerdictMarkers, buildInlineDiagnostics.
FinishRun ==
  /\ phase = "over"
  /\ phase' = "idle"
  /\ diagnostics' = {d \in ToSet(diags) : IsFinding(d)}
  /\ wash' = Wash(diagnostics') /\ mapped' = wash'
  /\ bars' = Bars(verdicts)
  /\ squiggles' = Squiggle(diagnostics')
  /\ links' = 1..lines
  /\ edited' = FALSE
  /\ UNCHANGED <<writerVars, verdicts, timeVars, lines, told, events>>

----------------------------------------------------------------------------
(* The user edits                                                          *)

Changed == edited' = TRUE /\ lintDue' = TRUE

\* Return at the end of line l: the marks below move down with their lines.
NewLine(l) ==
  /\ UserEvent /\ lines < MaxLines
  /\ lines' = lines + 1
  /\ wash' = InsertAt(wash, l + 1, "none")
  /\ mapped' = InsertAt(mapped, l + 1, "none")
  /\ bars' = InsertAt(bars, l + 1, "none")
  /\ squiggles' = {[line    |-> IF s.line > l THEN s.line + 1 ELSE s.line,
                    endLine |-> IF s.endLine > l THEN s.endLine + 1 ELSE s.endLine] : s \in squiggles}
  /\ Changed
  /\ UNCHANGED <<writerVars, runVars, flashes, links, told>>

\* A line is deleted, and its marks with it; but a mark at the very start of the
\* text stays there, and it is that of the next line that goes.
DeleteLine(l) ==
  LET gone == IF l = 1 THEN 2 ELSE l
  IN  /\ UserEvent /\ lines > 1
      /\ lines' = lines - 1
      /\ wash' = RemoveAt(wash, gone) /\ mapped' = RemoveAt(mapped, gone)
      /\ bars' = RemoveAt(bars, gone)
      /\ squiggles' =
           {[line    |-> IF s.line > l THEN s.line - 1 ELSE s.line,
             endLine |-> IF s.endLine >= l THEN s.endLine - 1 ELSE s.endLine] :
              s \in {t \in squiggles : ~(t.line = l /\ t.endLine = l)}}
      /\ Changed
      /\ UNCHANGED <<writerVars, runVars, flashes, links, told>>

\* Typing within a line.
Type ==
  /\ UserEvent
  /\ Changed
  /\ UNCHANGED <<writerVars, runVars, markVars, flashes, lines, links, told>>

Kept(marks, n) == [Plain(n) EXCEPT ![1] = marks[1]]

\* An example, a reset or a pasted link: the text is replaced as a whole, only a
\* mark at its very start survives, and a run begins.
Load ==
  /\ UserEvent
  /\ lines' \in 1..MaxLines
  /\ wash' = Kept(wash, lines') /\ mapped' = Kept(mapped, lines')
  /\ bars' = Kept(bars, lines') /\ squiggles' = {}
  /\ Changed
  /\ StartRun
  /\ UNCHANGED <<flashes, links, told>>

----------------------------------------------------------------------------
(* Jumping                                                                 *)

\* The first line of jumpToLoc.
CanJump(l) == OnLine(l)

\* jumpToLoc: the flash takes the place of all the marks.  A link was made for
\* the text of the run it shows.
Jump(l) ==
  /\ UserEvent
  /\ l \in links /\ CanJump(l)
  /\ wash' = [k \in 1..lines |-> IF k = l THEN "flash" ELSE "none"]
  /\ flashes' = flashes + 1
  /\ UNCHANGED <<writerVars, runVars, mapped, bars, squiggles, lintDue, lines, links, edited, told>>

\* The browser is at leisure: the wasm call has returned.
Free == phase \in {"idle", "parked"}

\* Mutant: with no diagnostics there is nothing to decorate.
FlashEndsIfAny ==
  /\ Free /\ flashes > 0
  /\ flashes' = flashes - 1
  /\ wash' = IF diagnostics = {} THEN wash ELSE Wash(diagnostics)
  /\ UNCHANGED <<writerVars, runVars, mapped, bars, squiggles, lintDue, lines, links, edited, told, events>>

\* The setTimeout of jumpToLoc: updateErrorDecorations.
FlashEnds ==
  /\ Free /\ flashes > 0
  /\ flashes' = flashes - 1
  /\ wash' = Wash(diagnostics)
  /\ UNCHANGED <<writerVars, runVars, mapped, bars, squiggles, lintDue, lines, links, edited, told, events>>

\* The linter runs some time after a change, on the diagnostics as they are.
Lint ==
  /\ Free /\ lintDue
  /\ lintDue' = FALSE
  /\ squiggles' = Squiggle(diagnostics)
  /\ UNCHANGED <<writerVars, runVars, wash, mapped, bars, flashes, lines, links, edited, told, events>>

----------------------------------------------------------------------------

Next ==
  \/ Run \/ Resume \/ Speak \/ CallEnds \/ FinishRun
  \/ \E l \in 1..lines : NewLine(l) \/ DeleteLine(l)
  \/ Type \/ Load
  \/ \E l \in links : Jump(l)
  \/ FlashEnds \/ Lint

Spec == Init /\ [][Next]_vars

\* The browser's timers go off and the wasm call ends; nothing obliges the user.
FairSpec ==
  Spec /\ WF_vars(FlashEnds) /\ WF_vars(Lint) /\ WF_vars(Resume)
       /\ WF_vars(Speak) /\ WF_vars(CallEnds) /\ WF_vars(FinishRun)

----------------------------------------------------------------------------
(* Properties                                                              *)

Marks(kinds) == [1..lines -> kinds]

\* The kinds of values the variables hold; in particular there is one mark, or
\* none, for every line of the present text.
TypeOK ==
  /\ WriterTypeOK
  /\ lines \in 1..MaxLines
  /\ phase \in {"idle", "parked", "call", "over"}
  /\ verdicts \subseteq [line : 1..MaxLines, proved : BOOLEAN]
  /\ diagnostics \subseteq Diagnostics
  /\ wash \in Marks({"none", "error", "warning", "flash"})
  /\ mapped \in Marks({"none", "error", "warning"})
  /\ bars \in Marks({"none", "ok", "bad"})
  /\ \A s \in squiggles : s.line \in 1..s.endLine /\ OnLine(s.endLine)
  /\ links \subseteq 1..MaxLines
  /\ flashes \in Nat /\ lintDue \in BOOLEAN
  /\ edited \in BOOLEAN /\ told \in Nat /\ events \in Nat

\* While nothing is running and the text is still the one that was run ...
Fresh == phase = "idle" /\ ~edited

\* ... the marks say what the run said, whatever flashed, faded or was linted
\* since: no error is hidden by a warning on its line, no failed verdict by a
\* proved one, and no mark of the run before is left.
MarksTellTheRun ==
  Fresh =>
    /\ squiggles = {[line |-> d.line, endLine |-> d.endLine] :
                      d \in {e \in ToSet(diags) : IsFinding(e) /\ e.line # 0}}
    /\ \A l \in 1..lines :
         LET said == {d \in ToSet(diags) : IsFinding(d) /\ d.line = l}
         IN  /\ bars[l] = "bad" <=> \E v \in verdicts : v.line = l /\ ~v.proved
             /\ bars[l] = "none" <=> \A v \in verdicts : v.line # l
             /\ flashes = 0 =>
                  /\ wash[l] = "error" <=> \E d \in said : d.level = "error"
                  /\ wash[l] = "none" <=> \A d \in said : d.level = "note"

\* Every flash fades, also when the line was edited, another flash began, the text
\* was replaced or the next run came in the meantime.
FlashesFade == []<>(\A l \in 1..lines : wash[l] # "flash")

----------------------------------------------------------------------------
(* What the comments of the code say and the code does not do.             *)

\* "decoration.map(tr.changes) keeps existing marks following edits until the
\* next parse refreshes" (app.js:492-493; also 1047-1049): between two runs the
\* wash is that of the last run, moved with its lines.
MarksFollowEdits == phase = "idle" /\ flashes = 0 => wash = mapped

=============================================================================
