------------------------------ MODULE WasmCall ------------------------------
(***************************************************************************)
(* What one call of the wasm entry points (verify and run of lib.rs) can   *)
(* leave with the page: the contract between RunLoop, which makes the      *)
(* calls, and Pipeline, which is shown to keep it.  Of the sections only   *)
(* those are named that the page's properties tell apart: the dump made    *)
(* straight after parsing, one made in the middle, and two that are only   *)
(* written out at the very end.                                            *)
(***************************************************************************)
EXTENDS Naturals, Sequences

Modes == {"verify", "execute"}

\* Handed to the page as soon as they are made, in this order.
Streamed == [verify |-> <<"AST_PRE", "VIR_RAW">>, execute |-> <<"AST_PRE", "MIR_BUILT">>]

\* Kept in VerifyOutput until its write(), which skips the empty ones.
Late == [verify |-> {"SST_AST", "SMT_TRANSCRIPT"}, execute |-> {}]

Sections == {"AST_PRE", "VIR_RAW", "SST_AST", "SMT_TRANSCRIPT", "MIR_BUILT"}
Kinds    == Sections \union {"verdict", "diag", "output"}

\* Verdicts are streamed while verifying, program output while Miri runs.
Results == [verify |-> "verdict", execute |-> "output"]

\* The streamed sections make a prefix; diagnostics come at any time; the rest
\* comes after all the streamed sections.
Prefixes(m) == {{Streamed[m][i] : i \in 1..n} : n \in 0..Len(Streamed[m])}
AfterAll(m) == Late[m] \union {Results[m]}
Written ==
  [m \in Modes |->
     {w \in SUBSET Kinds :
        /\ w \ (AfterAll(m) \union {"diag"}) \in Prefixes(m)
        /\ w \intersect AfterAll(m) # {} =>
             {Streamed[m][i] : i \in 1..Len(Streamed[m])} \subseteq w}]

\* A call that returns has at least dumped the parsed AST; run has dumped the
\* MIR too, while verify stops early when there is no VIR to verify.
Complete ==
  [m \in Modes |->
     {w \in Written[m] : "AST_PRE" \in w /\ (m = "execute" => "MIR_BUILT" \in w)}]

=============================================================================
