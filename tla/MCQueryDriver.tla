--------------------------- MODULE MCQueryDriver ---------------------------
(* Two external crates, queries of three asserts, a budget of two probes.  *)
EXTENDS QueryDriver

=============================================================================
