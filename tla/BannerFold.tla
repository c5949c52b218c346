----------------------------- MODULE BannerFold -----------------------------
(* How the page turns the section markers of a dump into banners and folds *)
(* (finalizeBannerBody of app.js): one pass over the lines with a stack of *)
(* the open sections, here a line at a time.                               *)
(*                                                                         *)
(* A line opens a section (`;;>`, folded at first, or `;;v`), closes one   *)
(* (`;;<`) or is text.  The cleaned text is kept as the numbers its lines  *)
(* have in the raw body; positions are line numbers instead of offsets, so *)
(* that openLineEnd is the banner's own line and cleanedLenAtOpen the one  *)
(* before.                                                                 *)
EXTENDS Integers, FiniteSets, SequencesExt

CONSTANT Titles  \* whatever a marker or a line may be titled

VARIABLES
  raw,      \* the body as it was sent
  pos,      \* how many of its lines have been scanned
  cleaned,  \* the lines kept, by their numbers in raw
  stack,    \* the open sections, innermost last
  folds,    \* foldable; autoFolded are those with auto
  returned  \* finalizeBannerBody has returned

foldVars == <<raw, pos, cleaned, stack, folds, returned>>

\* What a line is, and what it belongs to: an item, a command or a reply by its
\* number and crate, a section by its title.
Line == [is : {"open", "close", "text"}, auto : BOOLEAN,
         title : Titles, n : Nat, krate : Nat]

\* finalizeBannerBody is called on a body.
Begin(body) ==
  /\ raw' = body
  /\ pos' = 0 /\ cleaned' = <<>> /\ stack' = <<>> /\ folds' = {}
  /\ returned' = FALSE

\* The loop comes to the next line.
Scan(is) ==
  /\ ~returned /\ pos < Len(raw)
  /\ raw[pos + 1].is = is
  /\ pos' = pos + 1
  /\ UNCHANGED <<raw, returned>>

appendLine == cleaned' = Append(cleaned, pos + 1)

ScanOpen ==
  /\ Scan("open")
  /\ appendLine
  /\ stack' = Append(stack, [banner |-> Len(cleaned) + 1, auto |-> raw[pos + 1].auto])
  /\ UNCHANGED folds

ScanText ==
  /\ Scan("text")
  /\ appendLine
  /\ UNCHANGED <<stack, folds>>

\* emitRange: the lines after the banner are foldable, if there are any.
emitRange(open) ==
  IF Len(cleaned) > open.banner
  THEN {[from |-> open.banner, to |-> Len(cleaned), auto |-> open.auto]} ELSE {}

\* Mutant: an empty section keeps its banner.
CloseSectionKeeps(open) ==
  folds' = folds \union emitRange(open) /\ UNCHANGED cleaned

\* An empty section is taken back, its banner included.
CloseSection(open) ==
  IF Len(cleaned) = open.banner
  THEN cleaned' = SubSeq(cleaned, 1, open.banner - 1) /\ UNCHANGED folds
  ELSE folds' = folds \union emitRange(open) /\ UNCHANGED cleaned

\* A close without an open section is ignored.
ScanClose ==
  /\ Scan("close")
  /\ IF stack = <<>> THEN UNCHANGED <<cleaned, stack, folds>>
     ELSE stack' = Front(stack) /\ CloseSection(Last(stack))

\* What is still open at the end reaches to the end.
Return ==
  /\ ~returned /\ pos = Len(raw)
  /\ folds' = folds \union UNION {emitRange(open) : open \in ToSet(stack)}
  /\ stack' = <<>>
  /\ returned' = TRUE
  /\ UNCHANGED <<raw, pos, cleaned>>

\* The scanner by itself, on whatever body.
FoldInit ==
  /\ raw \in Seq(Line)
  /\ pos = 0 /\ cleaned = <<>> /\ stack = <<>> /\ folds = {} /\ returned = FALSE

FoldSpec == FoldInit /\ [][ScanOpen \/ ScanText \/ ScanClose \/ Return]_foldVars

----------------------------------------------------------------------------
(* Properties                                                              *)

Marked(lines, is, i, k) == {j \in i..k : lines[j].is = is}
Balance(lines, i, k) ==
  Cardinality(Marked(lines, "open", i, k)) - Cardinality(Marked(lines, "close", i, k))

\* The sections that the k-th line of a body is in, by counting markers: where one
\* opens and, from there on, more are opened than closed.
Around(lines, k) ==
  {i \in 1..k : lines[i].is = "open" /\ \A j \in i..k : Balance(lines, i, j) > 0}

\* The banners whose folds hide the k-th line of the page.
Hiding(k) == {f.from : f \in {g \in folds : g.from < k /\ k <= g.to}}

\* The page shows every line of text that was sent, in order, and besides those only
\* banners; a line of text is hidden by the banners of exactly the sections it was
\* written in, folded at first if their marker says so; a banner has something under
\* it, unless its section is still open at the end of the body (app.js:1690-1700).
FoldsMatchSections ==
  returned =>
    /\ \A f \in folds : f.from \in DOMAIN cleaned /\ f.auto = raw[cleaned[f.from]].auto
    /\ \A i, k \in DOMAIN cleaned : i < k => cleaned[i] < cleaned[k]
    /\ \A k \in DOMAIN cleaned : raw[cleaned[k]].is # "close"
    /\ \A p \in DOMAIN raw : raw[p].is = "text" => \E k \in DOMAIN cleaned : cleaned[k] = p
    /\ \A k \in DOMAIN cleaned :
         IF raw[cleaned[k]].is = "text"
         THEN {cleaned[b] : b \in Hiding(k)} = Around(raw, cleaned[k])
         ELSE \/ \E f \in folds : f.from = k
              \/ k = Len(cleaned) /\ cleaned[k] \in Around(raw, Len(raw))

=============================================================================
