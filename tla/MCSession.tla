----------------------------- MODULE MCSession -----------------------------
(* Two shipped examples, one text of the user's own that also comes in     *)
(* links, and one on which the verifier hangs.                             *)
EXTENDS Session, TLC

CONSTANTS e1, e2, p1, p2, mine, stuck

TwoExamples == {e1, e2}
TwoTexts    == e1 :> p1 @@ e2 :> p2
AllDocs     == {p1, p2, mine, stuck}
Own         == {mine}
Stuck       == {stuck}

=============================================================================
