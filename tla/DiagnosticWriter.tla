-------------------------- MODULE DiagnosticWriter --------------------------
(***************************************************************************)
(* The bridge between rustc's JsonEmitter and the page (rust.rs 227-272):  *)
(* the emitter writes each diagnostic as one line of JSON in pieces of any *)
(* size, DiagnosticWriter keeps the bytes until it sees the end of a line  *)
(* and hands the line over synchronously, and verus_diagnostic parses it.  *)
(*                                                                         *)
(* A byte is a numbered piece of the text of some diagnostic, or the       *)
(* newline; the text of a diagnostic has no newline in it.  How the        *)
(* emitter cuts its output into writes is a choice.                        *)
(***************************************************************************)
EXTENDS Naturals, Sequences

CONSTANTS Diagnostics,   \* what rustc can say
          NoDiagnostic,
          Parts          \* bytes in the text of a diagnostic

ASSUME WriterAssumption == NoDiagnostic \notin Diagnostics /\ Parts \in Nat \ {0}

VARIABLES
  emitted,  \* history: the diagnostics given to the emitter, in order
  rest,     \* bytes the emitter has still to write
  pending,  \* pending
  diags,    \* _diags
  alive     \* the writer exists: made in psess_created, not dropped

writerVars == <<emitted, rest, pending, diags, alive>>

Newline == [of |-> NoDiagnostic, part |-> 0]
Text(d) == [p \in 1..Parts |-> [of |-> d, part |-> p]]
Line(d) == Append(Text(d), Newline)
Bytes   == [of : Diagnostics, part : 1..Parts] \union {Newline}

----------------------------------------------------------------------------

WriterInit ==
  /\ emitted = <<>> /\ rest = <<>> /\ pending = <<>> /\ diags = <<>>
  /\ alive = TRUE

\* There is a complete line in the buffer, and where it ends.
Ready == \E i \in DOMAIN pending : pending[i] = Newline
LineEnd ==
  CHOOSE i \in DOMAIN pending :
    pending[i] = Newline /\ \A j \in 1..(i - 1) : pending[j] # Newline

\* A diagnostic is emitted; nothing says that the emitter has written out the
\* one before, only that each is a line of its own.
Emit(d) ==
  /\ alive
  /\ emitted' = Append(emitted, d)
  /\ rest' = rest \o Line(d)
  /\ UNCHANGED <<pending, diags, alive>>

\* io::Write::write: the bytes go to the buffer, then emit_complete_lines runs
\* to its end (EmitLine) before the call returns.  A flush finds nothing to do.
Write(n) ==
  /\ alive /\ ~Ready
  /\ n \in 1..Len(rest)
  /\ pending' = pending \o SubSeq(rest, 1, n)
  /\ rest' = SubSeq(rest, n + 1, Len(rest))
  /\ UNCHANGED <<emitted, diags, alive>>

\* The page's verus_diagnostic: what does not parse is dropped.
Receive(line) ==
  IF \E d \in Diagnostics : line = Text(d)
  THEN diags' = Append(diags, CHOOSE d \in Diagnostics : line = Text(d))
  ELSE UNCHANGED diags

\* Mutant: after a line the whole buffer is cleared.
EmitLineClears ==
  /\ Ready
  /\ Receive(SubSeq(pending, 1, LineEnd - 1))
  /\ pending' = <<>>
  /\ UNCHANGED <<emitted, rest, alive>>

\* One turn of emit_complete_lines.
EmitLine ==
  /\ Ready
  /\ IF LineEnd = 1 THEN UNCHANGED diags ELSE Receive(SubSeq(pending, 1, LineEnd - 1))
  /\ pending' = SubSeq(pending, LineEnd + 1, Len(pending))
  /\ UNCHANGED <<emitted, rest, alive>>

\* The session ends with its emitter idle, and the writer is dropped.
Drop ==
  /\ alive /\ rest = <<>> /\ ~Ready
  /\ alive' = FALSE
  /\ IF pending = <<>> THEN UNCHANGED diags ELSE Receive(pending)
  /\ pending' = <<>>
  /\ UNCHANGED <<emitted, rest>>

\* A panic aborts the instance, at any byte: nothing is dropped in order, and
\* what has not been handed over is gone.
Abort ==
  /\ alive
  /\ alive' = FALSE /\ rest' = <<>> /\ pending' = <<>>
  /\ UNCHANGED <<emitted, diags>>

WriterNext ==
  \/ \E d \in Diagnostics : Emit(d)
  \/ \E n \in 1..Len(rest) : Write(n)
  \/ EmitLine \/ Drop \/ Abort

WriterSpec == WriterInit /\ [][WriterNext]_writerVars

----------------------------------------------------------------------------
(* Properties                                                              *)

\* The kinds of values the writer and the page's list hold.
WriterTypeOK ==
  /\ emitted \in Seq(Diagnostics) /\ diags \in Seq(Diagnostics)
  /\ rest \in Seq(Bytes) /\ pending \in Seq(Bytes)
  /\ alive \in BOOLEAN

\* However the lines are cut into writes, the page has got the diagnostics
\* emitted so far in their order and unharmed; and "a later wasm trap can't lose
\* what already flushed" (rust.rs:230-232): once the emitter has written all it
\* was given and the writer has returned, the page has it all, without waiting
\* for the drop.
Delivered ==
  /\ Len(diags) <= Len(emitted)
  /\ \A i \in DOMAIN diags : diags[i] = emitted[i]
  /\ alive /\ rest = <<>> /\ ~Ready => diags = emitted /\ pending = <<>>

=============================================================================
