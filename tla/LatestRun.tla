----------------------------- MODULE LatestRun -----------------------------
(* What the run controller promises, without timers, buttons, parked runs  *)
(* or caches.  Runs are asked for, by anyone and at any time; at most the  *)
(* newest one is ever answered, and its answer is about the document as it *)
(* is when the answer is given.                                            *)
EXTENDS Naturals

CONSTANTS Docs, NoDoc

VARIABLES
  doc,       \* the text in the editor
  asked,     \* number of the newest run asked for
  waiting,   \* the newest run has not been answered
  answered   \* the answer on display: [run, doc]

vars == <<doc, asked, waiting, answered>>

NoAnswer == [run |-> 0, doc |-> NoDoc]

Init ==
  /\ doc \in Docs
  /\ asked = 0 /\ waiting = FALSE /\ answered = NoAnswer

\* A run is asked for, possibly together with a new document.
Ask ==
  /\ doc' \in Docs
  /\ asked' = asked + 1
  /\ waiting' = TRUE
  /\ UNCHANGED answered

Change ==
  /\ doc' \in Docs
  /\ UNCHANGED <<asked, waiting, answered>>

\* Only the newest run is answered, once, for the present document.
Answer ==
  /\ waiting
  /\ waiting' = FALSE
  /\ answered' = [run |-> asked, doc |-> doc]
  /\ UNCHANGED <<doc, asked>>

\* The page is reloaded.
Restart ==
  /\ doc' \in Docs
  /\ asked' = 0 /\ waiting' = FALSE /\ answered' = NoAnswer

Next == Ask \/ Change \/ Answer \/ Restart

Spec == Init /\ [][Next]_vars

=============================================================================
