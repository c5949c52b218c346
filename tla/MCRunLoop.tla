----------------------------- MODULE MCRunLoop -----------------------------
(* A page with two documents and a handful of user actions.  The safety    *)
(* run tells every kind of output apart; the run for liveness and for the  *)
(* refinement keeps only what any run writes.                              *)
EXTENDS RunLoop, TLC

AllOutputs == Kinds
FewOutputs == {"AST_PRE", "diag", "output"}

\* Documents are only compared with one another.
Symmetry == Permutations(Docs)

=============================================================================
