-------------------------- MODULE BannerFoldProofs --------------------------
(* The page's scanner finds the sections of any body whatsoever: its stack *)
(* holds those that are open by counting, and its folds hide a line under  *)
(* the banners of those it was written in.                                 *)
EXTENDS BannerFold, SequenceTheorems, FiniteSetTheorems, TLAPS

----------------------------------------------------------------------------
(* Counting markers                                                        *)

LEMMA MarkedFinite ==
  ASSUME NEW lines, NEW is, NEW i \in Int, NEW k \in Int
  PROVE  IsFiniteSet(Marked(lines, is, i, k)) /\ Cardinality(Marked(lines, is, i, k)) \in Nat
<1>1. IsFiniteSet(i..k) /\ Marked(lines, is, i, k) \in SUBSET (i..k)
  BY FS_Interval DEF Marked
<1> QED BY <1>1, FS_Subset, FS_CardinalityType

\* The next line counts if it is marked so.
LEMMA CountNext ==
  ASSUME NEW lines, NEW is, NEW p \in Nat, NEW i \in 1..(p + 1)
  PROVE  Cardinality(Marked(lines, is, i, p + 1)) =
           Cardinality(Marked(lines, is, i, p)) + (IF lines[p + 1].is = is THEN 1 ELSE 0)
<1>1. IsFiniteSet(Marked(lines, is, i, p)) /\ Cardinality(Marked(lines, is, i, p)) \in Nat
  BY MarkedFinite
<1>2. i..(p + 1) = (i..p) \union {p + 1} /\ p + 1 \notin Marked(lines, is, i, p)
  BY DEF Marked
<1>3. CASE lines[p + 1].is = is
  <2>1. Marked(lines, is, i, p + 1) = Marked(lines, is, i, p) \union {p + 1}
    BY <1>2, <1>3 DEF Marked
  <2>2. Cardinality(Marked(lines, is, i, p) \union {p + 1}) =
          Cardinality(Marked(lines, is, i, p)) + 1
    BY <1>1, <1>2, FS_AddElement
  <2> QED BY <1>3, <2>1, <2>2
<1>4. CASE lines[p + 1].is # is
  <2>1. Marked(lines, is, i, p + 1) = Marked(lines, is, i, p)
    BY <1>2, <1>4 DEF Marked
  <2> QED BY <1>1, <1>4, <2>1
<1> QED BY <1>3, <1>4

LEMMA BalanceNext ==
  ASSUME NEW lines \in Seq(Line), NEW p \in 0..(Len(lines) - 1), NEW i \in 1..(p + 1)
  PROVE  /\ Balance(lines, i, p) \in Int
         /\ lines[p + 1].is = "open"  => Balance(lines, i, p + 1) = Balance(lines, i, p) + 1
         /\ lines[p + 1].is = "close" => Balance(lines, i, p + 1) = Balance(lines, i, p) - 1
         /\ lines[p + 1].is = "text"  => Balance(lines, i, p + 1) = Balance(lines, i, p)
<1>1. p \in Nat /\ i \in Int /\ p \in Int
  OBVIOUS
<1>2. /\ Cardinality(Marked(lines, "open", i, p)) \in Nat
      /\ Cardinality(Marked(lines, "close", i, p)) \in Nat
  BY <1>1, MarkedFinite
<1>3. \A is : Cardinality(Marked(lines, is, i, p + 1)) =
                Cardinality(Marked(lines, is, i, p)) + (IF lines[p + 1].is = is THEN 1 ELSE 0)
  BY <1>1, CountNext
<1>4. /\ Cardinality(Marked(lines, "open", i, p + 1)) =
           Cardinality(Marked(lines, "open", i, p)) + (IF lines[p + 1].is = "open" THEN 1 ELSE 0)
      /\ Cardinality(Marked(lines, "close", i, p + 1)) =
           Cardinality(Marked(lines, "close", i, p)) + (IF lines[p + 1].is = "close" THEN 1 ELSE 0)
  BY <1>3
<1> QED BY <1>2, <1>4 DEF Balance

\* Nothing is counted before anything is scanned.
LEMMA BalanceEmpty ==
  ASSUME NEW lines, NEW p \in Nat
  PROVE  Balance(lines, p + 1, p) = 0
<1>1. (p + 1)..p = {}
  OBVIOUS
<1>2. Marked(lines, "open", p + 1, p) = {} /\ Marked(lines, "close", p + 1, p) = {}
  BY <1>1 DEF Marked
<1> QED BY <1>2, FS_EmptySet DEF Balance

\* The sections around a line and around the next.
LEMMA AroundNext ==
  ASSUME NEW lines \in Seq(Line), NEW p \in 0..(Len(lines) - 1), NEW i
  PROVE  /\ lines[p + 1].is = "open" =>
              (i \in Around(lines, p + 1) <=> i \in Around(lines, p) \/ i = p + 1)
         /\ lines[p + 1].is = "text" =>
              (i \in Around(lines, p + 1) <=> i \in Around(lines, p))
         /\ lines[p + 1].is = "close" =>
              (i \in Around(lines, p + 1) <=> i \in Around(lines, p) /\ Balance(lines, i, p) > 1)
<1>1. p \in Nat /\ Len(lines) \in Nat /\ lines[p + 1] \in Line
  <2>1. Len(lines) \in Nat
    OBVIOUS
  <2> QED BY <2>1
<1>2. lines[p + 1].is \in {"open", "close", "text"}
  BY <1>1 DEF Line
<1>3. CASE i \in 1..p
  <2>1. i..(p + 1) = (i..p) \union {p + 1} /\ i \in 1..(p + 1) /\ p \in i..p
    BY <1>1, <1>3
  <2>2. i \in Around(lines, p + 1) <=> i \in Around(lines, p) /\ Balance(lines, i, p + 1) > 0
    BY <1>3, <2>1 DEF Around
  <2>3. i \in Around(lines, p) => Balance(lines, i, p) > 0
    BY <2>1 DEF Around
  <2>4. /\ Balance(lines, i, p) \in Int
        /\ lines[p + 1].is = "open"  => Balance(lines, i, p + 1) = Balance(lines, i, p) + 1
        /\ lines[p + 1].is = "close" => Balance(lines, i, p + 1) = Balance(lines, i, p) - 1
        /\ lines[p + 1].is = "text"  => Balance(lines, i, p + 1) = Balance(lines, i, p)
    BY <2>1, BalanceNext
  <2>5. i # p + 1
    BY <1>1, <1>3
  <2> QED BY <2>2, <2>3, <2>4, <2>5
<1>4. CASE i = p + 1
  <2>1. i \notin Around(lines, p)
    BY <1>1, <1>4 DEF Around
  <2>2. CASE lines[p + 1].is = "open"
    <3>1. Balance(lines, p + 1, p + 1) = 1
      <4>1. p + 1 \in 1..(p + 1)
        BY <1>1
      <4>2. Balance(lines, p + 1, p + 1) = Balance(lines, p + 1, p) + 1
        BY <2>2, <4>1, BalanceNext
      <4> QED BY <1>1, <4>2, BalanceEmpty
    <3>2. (p + 1)..(p + 1) = {p + 1} /\ p + 1 \in 1..(p + 1)
      BY <1>1
    <3> QED BY <1>4, <2>2, <3>1, <3>2 DEF Around
  <2>3. CASE lines[p + 1].is # "open"
    BY <1>4, <2>1, <2>3 DEF Around
  <2> QED BY <2>2, <2>3
<1>5. CASE i \notin 1..(p + 1)
  <2>1. i \notin 1..p /\ i # p + 1
    BY <1>1, <1>5
  <2> QED BY <1>5, <2>1 DEF Around
<1>6. i \in 1..p \/ i = p + 1 \/ i \notin 1..(p + 1)
  BY <1>1
<1> QED BY <1>3, <1>4, <1>5, <1>6

----------------------------------------------------------------------------
(* The invariant of the scan                                               *)

FoldTypes ==
  /\ raw \in Seq(Line) /\ pos \in 0..Len(raw)
  /\ cleaned \in Seq(Nat)
  /\ stack \in Seq([banner : Nat \ {0}, auto : BOOLEAN])
  /\ folds \subseteq [from : Nat \ {0}, to : Nat, auto : BOOLEAN]
  /\ returned \in BOOLEAN

\* Of the lines scanned all text is kept, in order, and besides it only banners.
Kept ==
  /\ \A k \in 1..Len(cleaned) : cleaned[k] \in 1..pos /\ raw[cleaned[k]].is # "close"
  /\ \A i, k \in 1..Len(cleaned) : i < k => cleaned[i] < cleaned[k]
  /\ \A p \in 1..pos : raw[p].is = "text" => \E k \in 1..Len(cleaned) : cleaned[k] = p

\* The banner in line b of the page is that of an opening line, folded or not.
IsBanner(lines, kept, b, auto) ==
  /\ b \in 1..Len(kept)
  /\ lines[kept[b]].is = "open" /\ lines[kept[b]].auto = auto

\* The stack holds the sections that are open by counting, and how many are opened
\* and not closed since each of them.
Stacked ==
  /\ \A n \in 1..Len(stack) :
       /\ IsBanner(raw, cleaned, stack[n].banner, stack[n].auto)
       /\ Balance(raw, cleaned[stack[n].banner], pos) = Len(stack) - n + 1
  /\ \A m, n \in 1..Len(stack) : m < n => stack[m].banner < stack[n].banner
  /\ \A p : p \in Around(raw, pos) <=>
               \E n \in 1..Len(stack) : p = cleaned[stack[n].banner]

\* A fold has its banner and something under it, and lies beside or inside each
\* section still open.
Folded ==
  \A f \in folds :
    /\ IsBanner(raw, cleaned, f.from, f.auto)
    /\ f.from < f.to /\ f.to <= Len(cleaned)
    /\ \A n \in 1..Len(stack) : f.to < stack[n].banner \/ stack[n].banner < f.from

\* The banner in line b is that of a section line k is in, closed or still open.
Over(b, k) ==
  /\ b < k
  /\ \/ \E f \in folds : f.from = b /\ k <= f.to
     \/ \E n \in 1..Len(stack) : stack[n].banner = b

\* Each line of text has over it the banners of its sections; each banner has a fold
\* or will get one.
Nested ==
  \A k \in 1..Len(cleaned) :
    IF raw[cleaned[k]].is = "text"
    THEN \A p : p \in Around(raw, cleaned[k]) <=>
                  \E b \in 1..Len(cleaned) : p = cleaned[b] /\ Over(b, k)
    ELSE (\E f \in folds : f.from = k) \/ (\E n \in 1..Len(stack) : stack[n].banner = k)

Scanning == Kept /\ Stacked /\ Folded /\ Nested

FoldInv == FoldTypes /\ (~returned => Scanning) /\ FoldsMatchSections

----------------------------------------------------------------------------
(* What the steps share                                                    *)

LEMMA ScanNext ==
  ASSUME FoldInv, NEW is, Scan(is)
  PROVE  /\ Scanning /\ raw' = raw /\ pos' = pos + 1 /\ ~returned /\ ~returned'
         /\ pos \in Nat /\ pos \in 0..(Len(raw) - 1) /\ pos' \in 0..Len(raw)
         /\ raw[pos + 1] \in Line /\ raw[pos + 1].is = is /\ returned' \in BOOLEAN
<1>1. raw \in Seq(Line) /\ pos \in 0..Len(raw) /\ Len(raw) \in Nat
  BY DEF FoldInv, FoldTypes
<1>2. raw' = raw /\ pos' = pos + 1 /\ ~returned /\ ~returned' /\ pos < Len(raw) /\ raw[pos + 1].is = is
  BY DEF Scan
<1>3. returned' \in BOOLEAN
  BY DEF FoldInv, FoldTypes, Scan
<1>4. pos \in Nat /\ pos \in 0..(Len(raw) - 1) /\ pos + 1 \in 1..Len(raw)
  BY <1>1, <1>2
<1>5. raw[pos + 1] \in Line /\ pos' \in 0..Len(raw)
  BY <1>1, <1>2, <1>4
<1> QED BY <1>2, <1>3, <1>4, <1>5 DEF FoldInv

\* A line kept goes to the end of the page.
LEMMA LineAppended ==
  ASSUME FoldInv, NEW is \in {"open", "text"}, Scan(is), appendLine
  PROVE  /\ cleaned' \in Seq(Nat) /\ Len(cleaned) \in Nat /\ Len(cleaned') = Len(cleaned) + 1
         /\ \A k \in 1..Len(cleaned) : cleaned'[k] = cleaned[k]
         /\ cleaned'[Len(cleaned) + 1] = pos + 1
         /\ Kept'
<1>1. cleaned \in Seq(Nat) /\ Len(cleaned) \in Nat
  BY DEF FoldInv, FoldTypes
<1>2. /\ pos \in Nat /\ pos' = pos + 1 /\ raw' = raw /\ Scanning
      /\ raw[pos + 1].is = is
  BY ScanNext
<1>3. cleaned' = Append(cleaned, pos + 1) /\ pos + 1 \in Nat
  BY <1>2 DEF appendLine
<1>4. /\ cleaned' \in Seq(Nat) /\ Len(cleaned') = Len(cleaned) + 1
      /\ \A k \in 1..Len(cleaned) : cleaned'[k] = cleaned[k]
      /\ cleaned'[Len(cleaned) + 1] = pos + 1
  BY <1>1, <1>3, AppendProperties
<1>5. Kept
  BY <1>2 DEF Scanning
<1>6. 1..Len(cleaned') = 1..Len(cleaned) \union {Len(cleaned) + 1}
  BY <1>1, <1>4
<1>7. \A k \in 1..Len(cleaned') : cleaned'[k] \in 1..pos' /\ raw'[cleaned'[k]].is # "close"
  <2>1. ASSUME NEW k \in 1..Len(cleaned)
        PROVE  cleaned'[k] \in 1..pos' /\ raw'[cleaned'[k]].is # "close"
    BY <1>2, <1>4, <1>5 DEF Kept
  <2>2. cleaned'[Len(cleaned) + 1] \in 1..pos' /\ raw'[cleaned'[Len(cleaned) + 1]].is # "close"
    BY <1>2, <1>4
  <2> QED BY <1>6, <2>1, <2>2
<1>8. \A i, k \in 1..Len(cleaned') : i < k => cleaned'[i] < cleaned'[k]
  <2> SUFFICES ASSUME NEW i \in 1..Len(cleaned'), NEW k \in 1..Len(cleaned'), i < k
               PROVE  cleaned'[i] < cleaned'[k]
    OBVIOUS
  <2>1. i \in 1..Len(cleaned) /\ cleaned'[i] = cleaned[i] /\ cleaned[i] \in 1..pos
    BY <1>1, <1>4, <1>5 DEF Kept
  <2>2. CASE k \in 1..Len(cleaned)
    BY <1>4, <1>5, <2>1, <2>2 DEF Kept
  <2>3. CASE k = Len(cleaned) + 1
    BY <1>2, <1>4, <2>1, <2>3
  <2> QED BY <1>6, <2>2, <2>3
<1>9. \A p \in 1..pos' : raw'[p].is = "text" => \E k \in 1..Len(cleaned') : cleaned'[k] = p
  <2> SUFFICES ASSUME NEW p \in 1..pos', raw[p].is = "text"
               PROVE  \E k \in 1..Len(cleaned') : cleaned'[k] = p
    BY <1>2
  <2>1. CASE p \in 1..pos
    <3>1. PICK k \in 1..Len(cleaned) : cleaned[k] = p
      BY <1>5, <2>1 DEF Kept
    <3> QED BY <1>4, <1>6, <3>1
  <2>2. CASE p = pos + 1
    BY <1>4, <1>6, <2>2
  <2> QED BY <1>2, <2>1, <2>2
<1> QED BY <1>1, <1>4, <1>7, <1>8, <1>9 DEF Kept

----------------------------------------------------------------------------
(* An opening line                                                         *)

LEMMA ScanOpenStep ==
  ASSUME FoldInv, ScanOpen
  PROVE  FoldInv'
<1>1. /\ Scanning /\ raw' = raw /\ pos' = pos + 1 /\ ~returned'
      /\ pos \in Nat /\ pos \in 0..(Len(raw) - 1) /\ pos' \in 0..Len(raw)
      /\ raw[pos + 1] \in Line /\ raw[pos + 1].is = "open" /\ returned' \in BOOLEAN
  BY ScanNext DEF ScanOpen
<1>2. /\ cleaned' \in Seq(Nat) /\ Len(cleaned) \in Nat /\ Len(cleaned') = Len(cleaned) + 1
      /\ \A k \in 1..Len(cleaned) : cleaned'[k] = cleaned[k]
      /\ cleaned'[Len(cleaned) + 1] = pos + 1
      /\ Kept'
  BY LineAppended DEF ScanOpen
<1>3. /\ raw \in Seq(Line) /\ folds' = folds
      /\ stack \in Seq([banner : Nat \ {0}, auto : BOOLEAN]) /\ Len(stack) \in Nat
      /\ folds \subseteq [from : Nat \ {0}, to : Nat, auto : BOOLEAN]
  BY DEF FoldInv, FoldTypes, ScanOpen
<1> DEFINE open == [banner |-> Len(cleaned) + 1, auto |-> raw[pos + 1].auto]
<1>4. open \in [banner : Nat \ {0}, auto : BOOLEAN] /\ stack' = Append(stack, open)
  BY <1>1, <1>2 DEF Line, ScanOpen
<1>5. open.banner = Len(cleaned) + 1 /\ open.auto = raw[pos + 1].auto
  OBVIOUS
<1> HIDE DEF open
<1>6. /\ stack' \in Seq([banner : Nat \ {0}, auto : BOOLEAN]) /\ Len(stack') = Len(stack) + 1
      /\ \A n \in 1..Len(stack) : stack'[n] = stack[n]
      /\ stack'[Len(stack) + 1] = open
  BY <1>3, <1>4, AppendProperties
<1>7. 1..Len(stack') = 1..Len(stack) \union {Len(stack) + 1} /\ Len(stack) + 1 \in 1..Len(stack')
  BY <1>3, <1>6
<1>8. FoldTypes'
  BY <1>1, <1>2, <1>3, <1>6 DEF FoldTypes
<1>9. \A b, auto : IsBanner(raw, cleaned, b, auto) =>
        IsBanner(raw', cleaned', b, auto) /\ b \in 1..Len(cleaned) /\ cleaned'[b] = cleaned[b]
  BY <1>1, <1>2 DEF IsBanner
<1>10. \A n \in 1..Len(stack) :
         /\ IsBanner(raw, cleaned, stack[n].banner, stack[n].auto)
         /\ Balance(raw, cleaned[stack[n].banner], pos) = Len(stack) - n + 1
  BY <1>1 DEF Scanning, Stacked
<1>11. Stacked'
  <2>1. ASSUME NEW n \in 1..Len(stack')
        PROVE  /\ IsBanner(raw', cleaned', stack'[n].banner, stack'[n].auto)
               /\ Balance(raw', cleaned'[stack'[n].banner], pos') = Len(stack') - n + 1
    <3>1. CASE n \in 1..Len(stack)
      <4>1. /\ stack'[n] = stack[n] /\ IsBanner(raw, cleaned, stack[n].banner, stack[n].auto)
            /\ Balance(raw, cleaned[stack[n].banner], pos) = Len(stack) - n + 1
        BY <1>6, <1>10, <3>1
      <4>2. /\ IsBanner(raw', cleaned', stack[n].banner, stack[n].auto)
            /\ cleaned'[stack[n].banner] = cleaned[stack[n].banner]
            /\ stack[n].banner \in 1..Len(cleaned)
        BY <1>9, <4>1
      <4>3. cleaned[stack[n].banner] \in 1..(pos + 1)
        BY <1>1, <4>2 DEF Scanning, Kept
      <4>4. Balance(raw, cleaned[stack[n].banner], pos + 1) =
              Balance(raw, cleaned[stack[n].banner], pos) + 1
        BY <1>1, <1>3, <4>3, BalanceNext
      <4> QED BY <1>1, <1>3, <1>6, <4>1, <4>2, <4>4 DEF IsBanner
    <3>2. CASE n = Len(stack) + 1
      <4>1. stack'[n] = open
        BY <1>6, <3>2
      <4>2. IsBanner(raw', cleaned', open.banner, open.auto)
        BY <1>1, <1>2, <1>5 DEF IsBanner
      <4>3. pos + 1 \in 1..(pos + 1)
        BY <1>1
      <4>4. Balance(raw, pos + 1, pos + 1) = Balance(raw, pos + 1, pos) + 1
        BY <1>1, <1>3, <4>3, BalanceNext
      <4>5. Balance(raw, pos + 1, pos) = 0
        BY <1>1, BalanceEmpty
      <4> QED BY <1>1, <1>2, <1>3, <1>5, <1>6, <3>2, <4>1, <4>2, <4>4, <4>5 DEF IsBanner
    <3> QED BY <1>7, <3>1, <3>2
  <2>2. ASSUME NEW m \in 1..Len(stack'), NEW n \in 1..Len(stack'), m < n
        PROVE  stack'[m].banner < stack'[n].banner
    <3>1. m \in 1..Len(stack) /\ stack'[m] = stack[m] /\ stack[m].banner \in 1..Len(cleaned)
      <4>1. m \in 1..Len(stack)
        BY <1>3, <1>6, <2>2
      <4> QED BY <1>6, <1>10, <4>1 DEF IsBanner
    <3>2. CASE n \in 1..Len(stack)
      BY <1>1, <1>6, <2>2, <3>1, <3>2 DEF Scanning, Stacked
    <3>3. CASE n = Len(stack) + 1
      BY <1>2, <1>5, <1>6, <3>1, <3>3
    <3> QED BY <1>7, <3>2, <3>3
  <2>3. ASSUME NEW p
        PROVE  p \in Around(raw', pos') <=>
                 \E n \in 1..Len(stack') : p = cleaned'[stack'[n].banner]
    <3>1. p \in Around(raw, pos + 1) <=> p \in Around(raw, pos) \/ p = pos + 1
      BY <1>1, <1>3, AroundNext
    <3>2. p \in Around(raw, pos) <=> \E n \in 1..Len(stack) : p = cleaned[stack[n].banner]
      BY <1>1 DEF Scanning, Stacked
    <3>3. \A n \in 1..Len(stack) : cleaned'[stack'[n].banner] = cleaned[stack[n].banner]
      BY <1>6, <1>9, <1>10
    <3>4. cleaned'[stack'[Len(stack) + 1].banner] = pos + 1
      BY <1>2, <1>5, <1>6
    <3> QED BY <1>1, <1>7, <3>1, <3>2, <3>3, <3>4
  <2> QED BY <2>1, <2>2, <2>3 DEF Stacked
<1>12. Folded'
  <2> SUFFICES ASSUME NEW f \in folds
               PROVE  /\ IsBanner(raw', cleaned', f.from, f.auto)
                      /\ f.from < f.to /\ f.to <= Len(cleaned')
                      /\ \A n \in 1..Len(stack') :
                           f.to < stack'[n].banner \/ stack'[n].banner < f.from
    BY <1>3 DEF Folded, IsBanner
  <2>1. /\ IsBanner(raw, cleaned, f.from, f.auto) /\ f.from < f.to /\ f.to <= Len(cleaned)
        /\ \A n \in 1..Len(stack) : f.to < stack[n].banner \/ stack[n].banner < f.from
    BY <1>1 DEF Scanning, Folded
  <2>2. f.to \in Nat
    BY <1>3
  <2>3. f.to <= Len(cleaned') /\ f.to < open.banner
    BY <1>2, <1>5, <2>1, <2>2
  <2> QED BY <1>6, <1>7, <1>9, <2>1, <2>3
<1>13. Nested'
  <2> SUFFICES ASSUME NEW k \in 1..Len(cleaned')
               PROVE  IF raw'[cleaned'[k]].is = "text"
                      THEN \A p : p \in Around(raw', cleaned'[k]) <=>
                             \E b \in 1..Len(cleaned') : p = cleaned'[b] /\ Over(b, k)'
                      ELSE \/ \E f \in folds' : f.from = k
                           \/ \E n \in 1..Len(stack') : stack'[n].banner = k
    BY DEF Nested, Over
  <2>1. CASE k \in 1..Len(cleaned)
    <3>1. cleaned'[k] = cleaned[k] /\ raw' = raw
      BY <1>1, <1>2, <2>1
    <3>2. ASSUME NEW b
          PROVE  Over(b, k)' <=> Over(b, k)
      <4>1. b < k => ((\E n \in 1..Len(stack') : stack'[n].banner = b) <=>
                       (\E n \in 1..Len(stack) : stack[n].banner = b))
        <5>1. open.banner = b => ~(b < k)
          BY <1>2, <1>5, <2>1
        <5> QED BY <1>6, <1>7, <5>1
      <4> QED BY <1>3, <4>1 DEF Over
    <3>3. \A b : b \in 1..Len(cleaned') /\ Over(b, k) => b \in 1..Len(cleaned)
      BY <1>2, <2>1 DEF Over
    <3>4. \A b \in 1..Len(cleaned) : b \in 1..Len(cleaned')
      BY <1>2
    <3>5. IF raw[cleaned[k]].is = "text"
          THEN \A p : p \in Around(raw, cleaned[k]) <=>
                 \E b \in 1..Len(cleaned) : p = cleaned[b] /\ Over(b, k)
          ELSE \/ \E f \in folds : f.from = k
               \/ \E n \in 1..Len(stack) : stack[n].banner = k
      BY <1>1, <2>1 DEF Scanning, Nested
    <3>6. \A b \in 1..Len(cleaned) : cleaned'[b] = cleaned[b]
      BY <1>2
    <3>7. (\E n \in 1..Len(stack) : stack[n].banner = k) =>
            \E n \in 1..Len(stack') : stack'[n].banner = k
      BY <1>6, <1>7
    <3>8. ASSUME raw[cleaned[k]].is = "text", NEW p
          PROVE  p \in Around(raw, cleaned[k]) <=>
                   \E b \in 1..Len(cleaned') : p = cleaned'[b] /\ Over(b, k)'
      BY <3>2, <3>3, <3>4, <3>5, <3>6, <3>8
    <3> QED BY <1>3, <3>1, <3>5, <3>7, <3>8
  <2>2. CASE k = Len(cleaned) + 1
    <3>1. raw'[cleaned'[k]].is = "open"
      BY <1>1, <1>2, <2>2
    <3> QED BY <1>5, <1>6, <1>7, <2>2, <3>1
  <2> QED BY <1>2, <2>1, <2>2
<1> QED BY <1>1, <1>2, <1>8, <1>11, <1>12, <1>13 DEF FoldInv, Scanning, FoldsMatchSections

----------------------------------------------------------------------------
(* A line of text                                                          *)

LEMMA ScanTextStep ==
  ASSUME FoldInv, ScanText
  PROVE  FoldInv'
<1>1. /\ Scanning /\ raw' = raw /\ pos' = pos + 1 /\ ~returned'
      /\ pos \in Nat /\ pos \in 0..(Len(raw) - 1) /\ pos' \in 0..Len(raw)
      /\ raw[pos + 1] \in Line /\ raw[pos + 1].is = "text" /\ returned' \in BOOLEAN
  BY ScanNext DEF ScanText
<1>2. /\ cleaned' \in Seq(Nat) /\ Len(cleaned) \in Nat /\ Len(cleaned') = Len(cleaned) + 1
      /\ \A k \in 1..Len(cleaned) : cleaned'[k] = cleaned[k]
      /\ cleaned'[Len(cleaned) + 1] = pos + 1
      /\ Kept'
  BY LineAppended DEF ScanText
<1>3. /\ raw \in Seq(Line) /\ folds' = folds /\ stack' = stack
      /\ stack \in Seq([banner : Nat \ {0}, auto : BOOLEAN]) /\ Len(stack) \in Nat
      /\ folds \subseteq [from : Nat \ {0}, to : Nat, auto : BOOLEAN]
  BY DEF FoldInv, FoldTypes, ScanText
<1>4. FoldTypes'
  BY <1>1, <1>2, <1>3 DEF FoldTypes
<1>5. \A b, auto : IsBanner(raw, cleaned, b, auto) =>
        IsBanner(raw', cleaned', b, auto) /\ b \in 1..Len(cleaned) /\ cleaned'[b] = cleaned[b]
  BY <1>1, <1>2 DEF IsBanner
<1>6. \A n \in 1..Len(stack) :
        /\ IsBanner(raw, cleaned, stack[n].banner, stack[n].auto)
        /\ Balance(raw, cleaned[stack[n].banner], pos) = Len(stack) - n + 1
  BY <1>1 DEF Scanning, Stacked
<1>7. \A p : p \in Around(raw, pos + 1) <=>
              \E n \in 1..Len(stack) : p = cleaned[stack[n].banner]
  BY <1>1, <1>3, AroundNext DEF Scanning, Stacked
<1>8. Stacked'
  <2>1. ASSUME NEW n \in 1..Len(stack)
        PROVE  Balance(raw, cleaned[stack[n].banner], pos + 1) = Len(stack) - n + 1
    <3>1. cleaned[stack[n].banner] \in 1..(pos + 1)
      BY <1>1, <1>5, <1>6 DEF Scanning, Kept
    <3> QED BY <1>1, <1>3, <1>6, <3>1, BalanceNext
  <2>2. \A n \in 1..Len(stack') :
          /\ IsBanner(raw', cleaned', stack'[n].banner, stack'[n].auto)
          /\ Balance(raw', cleaned'[stack'[n].banner], pos') = Len(stack') - n + 1
    BY <1>1, <1>3, <1>5, <1>6, <2>1
  <2>3. \A m, n \in 1..Len(stack') : m < n => stack'[m].banner < stack'[n].banner
    BY <1>1, <1>3 DEF Scanning, Stacked
  <2>4. \A n \in 1..Len(stack) : cleaned'[stack[n].banner] = cleaned[stack[n].banner]
    BY <1>5, <1>6
  <2>5. \A p : p \in Around(raw', pos') <=>
                 \E n \in 1..Len(stack') : p = cleaned'[stack'[n].banner]
    <3>1. raw' = raw /\ pos' = pos + 1 /\ stack' = stack
      BY <1>1, <1>3
    <3>2. \A p : (\E n \in 1..Len(stack) : p = cleaned'[stack[n].banner]) <=>
                   (\E n \in 1..Len(stack) : p = cleaned[stack[n].banner])
      BY <2>4
    <3> SUFFICES ASSUME NEW p
                 PROVE  p \in Around(raw, pos + 1) <=>
                          \E n \in 1..Len(stack) : p = cleaned'[stack[n].banner]
      BY <3>1
    <3>3. p \in Around(raw, pos + 1) <=> \E n \in 1..Len(stack) : p = cleaned[stack[n].banner]
      BY <1>7
    <3> QED BY <3>2, <3>3
  <2> QED BY <2>2, <2>3, <2>5 DEF Stacked
<1>9. Folded'
  <2> SUFFICES ASSUME NEW f \in folds
               PROVE  /\ IsBanner(raw', cleaned', f.from, f.auto)
                      /\ f.from < f.to /\ f.to <= Len(cleaned')
                      /\ \A n \in 1..Len(stack) :
                           f.to < stack[n].banner \/ stack[n].banner < f.from
    BY <1>3 DEF Folded
  <2>1. /\ IsBanner(raw, cleaned, f.from, f.auto) /\ f.from < f.to /\ f.to <= Len(cleaned)
        /\ \A n \in 1..Len(stack) : f.to < stack[n].banner \/ stack[n].banner < f.from
    BY <1>1 DEF Scanning, Folded
  <2>2. f.to \in Nat
    BY <1>3
  <2> QED BY <1>2, <1>5, <2>1, <2>2
<1>10. Nested'
  <2> SUFFICES ASSUME NEW k \in 1..Len(cleaned')
               PROVE  IF raw[cleaned'[k]].is = "text"
                      THEN \A p : p \in Around(raw, cleaned'[k]) <=>
                             \E b \in 1..Len(cleaned') : p = cleaned'[b] /\ Over(b, k)
                      ELSE \/ \E f \in folds : f.from = k
                           \/ \E n \in 1..Len(stack) : stack[n].banner = k
    <3>1. \A b, k : Over(b, k)' <=> Over(b, k)
      BY <1>3 DEF Over
    <3> QED BY <1>1, <1>3, <3>1 DEF Nested
  <2>1. \A b \in 1..Len(cleaned) : b \in 1..Len(cleaned') /\ cleaned'[b] = cleaned[b]
    BY <1>2
  <2>2. \A b : b \in 1..Len(cleaned') /\ Over(b, k) => b \in 1..Len(cleaned)
    BY <1>2 DEF Over
  <2>3. CASE k \in 1..Len(cleaned)
    <3>1. IF raw[cleaned[k]].is = "text"
          THEN \A p : p \in Around(raw, cleaned[k]) <=>
                 \E b \in 1..Len(cleaned) : p = cleaned[b] /\ Over(b, k)
          ELSE \/ \E f \in folds : f.from = k
               \/ \E n \in 1..Len(stack) : stack[n].banner = k
      BY <1>1, <2>3 DEF Scanning, Nested
    <3>2. cleaned'[k] = cleaned[k]
      BY <1>2, <2>3
    <3>3. ASSUME raw[cleaned[k]].is = "text", NEW p
          PROVE  p \in Around(raw, cleaned[k]) <=>
                   \E b \in 1..Len(cleaned') : p = cleaned'[b] /\ Over(b, k)
      BY <2>1, <2>2, <3>1, <3>3
    <3> QED BY <3>1, <3>2, <3>3
  <2>4. CASE k = Len(cleaned) + 1
    <3>1. cleaned'[k] = pos + 1 /\ raw[pos + 1].is = "text"
      BY <1>1, <1>2, <2>4
    <3>2. ASSUME NEW b \in 1..Len(cleaned)
          PROVE  Over(b, k) <=> \E n \in 1..Len(stack) : stack[n].banner = b
      <4>1. b < k
        BY <1>2, <2>4
      <4>2. ~ \E f \in folds : f.from = b /\ k <= f.to
        <5> SUFFICES ASSUME NEW f \in folds, k <= f.to
                     PROVE  FALSE
          OBVIOUS
        <5>1. f.to <= Len(cleaned) /\ f.to \in Nat
          BY <1>1, <1>3 DEF Scanning, Folded
        <5> QED BY <1>2, <2>4, <5>1
      <4> QED BY <4>1, <4>2 DEF Over
    <3>3. \A n \in 1..Len(stack) : stack[n].banner \in 1..Len(cleaned)
      BY <1>5, <1>6
    <3>4. ASSUME NEW p
          PROVE  p \in Around(raw, pos + 1) <=>
                   \E b \in 1..Len(cleaned') : p = cleaned'[b] /\ Over(b, k)
      <4>1. (\E b \in 1..Len(cleaned') : p = cleaned'[b] /\ Over(b, k)) <=>
              (\E b \in 1..Len(cleaned) : p = cleaned[b] /\ Over(b, k))
        BY <2>1, <2>2
      <4>2. (\E b \in 1..Len(cleaned) : p = cleaned[b] /\ Over(b, k)) <=>
              (\E n \in 1..Len(stack) : p = cleaned[stack[n].banner])
        BY <3>2, <3>3
      <4> QED BY <1>7, <4>1, <4>2
    <3> QED BY <3>1, <3>4
  <2> QED BY <1>2, <2>3, <2>4
<1> QED BY <1>1, <1>2, <1>4, <1>8, <1>9, <1>10 DEF FoldInv, Scanning, FoldsMatchSections

----------------------------------------------------------------------------
(* A closing line                                                          *)

\* It is not kept itself.
LEMMA KeptPastClose ==
  ASSUME FoldInv, Scan("close"), cleaned' = cleaned
  PROVE  Kept'
<1>1. Kept /\ raw' = raw /\ pos' = pos + 1 /\ pos \in Nat /\ raw[pos + 1].is = "close"
  BY ScanNext DEF Scanning
<1>2. \A p \in 1..(pos + 1) : p \in 1..pos \/ p = pos + 1
  BY <1>1
<1>3. 1..pos \subseteq 1..(pos + 1)
  BY <1>1
<1> QED BY <1>1, <1>2, <1>3 DEF Kept

\* It ends the innermost section that is open.
LEMMA StackedPastClose ==
  ASSUME FoldInv, Scan("close"), stack # <<>>, stack' = Front(stack),
         \A n \in 1..(Len(stack) - 1) :
           stack[n].banner \in 1..Len(cleaned') /\ cleaned'[stack[n].banner] = cleaned[stack[n].banner]
  PROVE  /\ stack' \in Seq([banner : Nat \ {0}, auto : BOOLEAN])
         /\ Len(stack) \in Nat \ {0} /\ Len(stack') = Len(stack) - 1
         /\ \A n \in 1..(Len(stack) - 1) : stack'[n] = stack[n] /\ n \in 1..Len(stack)
         /\ Stacked'
<1>1. /\ Scanning /\ raw' = raw /\ pos' = pos + 1
      /\ pos \in Nat /\ pos \in 0..(Len(raw) - 1)
      /\ raw[pos + 1].is = "close"
  BY ScanNext
<1>2. /\ raw \in Seq(Line)
      /\ stack \in Seq([banner : Nat \ {0}, auto : BOOLEAN]) /\ Len(stack) \in Nat
  BY DEF FoldInv, FoldTypes
<1>3. Len(stack) # 0
  BY <1>2
<1>4. \A n \in 1..(Len(stack) - 1) : n \in 1..Len(stack)
  BY <1>2
<1>5. /\ stack' \in Seq([banner : Nat \ {0}, auto : BOOLEAN])
      /\ Len(stack') = Len(stack) - 1
      /\ \A n \in 1..(Len(stack) - 1) : stack'[n] = stack[n]
  <2>1. stack' = SubSeq(stack, 1, Len(stack) - 1)
    BY DEF Front
  <2>2. \A n \in 1..(Len(stack) - 1) : stack[n] \in [banner : Nat \ {0}, auto : BOOLEAN]
    BY <1>2, <1>4, ElementOfSeq
  <2>3. 1 \in Int /\ Len(stack) - 1 \in Int
    BY <1>2
  <2>4. /\ SubSeq(stack, 1, Len(stack) - 1) \in Seq([banner : Nat \ {0}, auto : BOOLEAN])
        /\ Len(SubSeq(stack, 1, Len(stack) - 1)) =
             IF 1 <= Len(stack) - 1 THEN Len(stack) - 1 - 1 + 1 ELSE 0
        /\ \A n \in 1..(Len(stack) - 1 - 1 + 1) :
             SubSeq(stack, 1, Len(stack) - 1)[n] = stack[1 + n - 1]
    BY <2>2, <2>3, SubSeqProperties
  <2>5. \A n \in 1..(Len(stack) - 1) : 1 + n - 1 = n
    OBVIOUS
  <2>6. Len(stack) - 1 - 1 + 1 = Len(stack) - 1
    BY <1>2
  <2> QED BY <1>2, <1>3, <2>1, <2>4, <2>5, <2>6
<1>6. \A n \in 1..Len(stack) :
        /\ IsBanner(raw, cleaned, stack[n].banner, stack[n].auto)
        /\ Balance(raw, cleaned[stack[n].banner], pos) = Len(stack) - n + 1
        /\ cleaned[stack[n].banner] \in 1..pos
  BY <1>1 DEF Scanning, Stacked, Kept, IsBanner
<1>7. ASSUME NEW n \in 1..Len(stack')
      PROVE  /\ IsBanner(raw', cleaned', stack'[n].banner, stack'[n].auto)
             /\ Balance(raw', cleaned'[stack'[n].banner], pos') = Len(stack') - n + 1
  <2>1. n \in 1..(Len(stack) - 1) /\ n \in 1..Len(stack) /\ stack'[n] = stack[n]
    BY <1>5, <1>4
  <2>2. cleaned'[stack[n].banner] = cleaned[stack[n].banner] /\ stack[n].banner \in 1..Len(cleaned')
    BY <2>1
  <2>3. cleaned[stack[n].banner] \in 1..(pos + 1)
    BY <1>1, <1>6, <2>1
  <2>4. Balance(raw, cleaned[stack[n].banner], pos + 1) =
          Balance(raw, cleaned[stack[n].banner], pos) - 1
    BY <1>1, <1>2, <2>3, BalanceNext
  <2>5. IsBanner(raw, cleaned, stack[n].banner, stack[n].auto)
    BY <1>6, <2>1
  <2>6. IsBanner(raw', cleaned', stack'[n].banner, stack'[n].auto)
    BY <1>1, <2>1, <2>2, <2>5 DEF IsBanner
  <2>7. Balance(raw, cleaned[stack[n].banner], pos) = Len(stack) - n + 1
    BY <1>6, <2>1
  <2>8. Len(stack) - n + 1 - 1 = Len(stack') - n + 1
    BY <1>2, <1>5, <2>1
  <2> QED BY <1>1, <2>1, <2>2, <2>4, <2>6, <2>7, <2>8
<1>8. \A m, n \in 1..Len(stack') : m < n => stack'[m].banner < stack'[n].banner
  <2>1. \A m, n \in 1..Len(stack) : m < n => stack[m].banner < stack[n].banner
    BY <1>1 DEF Scanning, Stacked
  <2>2. \A n \in 1..Len(stack') : n \in 1..Len(stack) /\ stack'[n] = stack[n]
    BY <1>5, <1>4
  <2> QED BY <2>1, <2>2
<1>9. ASSUME NEW p
      PROVE  p \in Around(raw', pos') <=>
               \E n \in 1..Len(stack') : p = cleaned'[stack'[n].banner]
  <2>1. p \in Around(raw, pos + 1) <=> p \in Around(raw, pos) /\ Balance(raw, p, pos) > 1
    BY <1>1, <1>2, AroundNext
  <2>2. p \in Around(raw, pos) <=> \E n \in 1..Len(stack) : p = cleaned[stack[n].banner]
    BY <1>1 DEF Scanning, Stacked
  <2>3. ASSUME NEW n \in 1..Len(stack)
        PROVE  Balance(raw, cleaned[stack[n].banner], pos) > 1 <=> n \in 1..(Len(stack) - 1)
    BY <1>2, <1>6
  <2>4. p \in Around(raw, pos + 1) <=>
          \E n \in 1..(Len(stack) - 1) : p = cleaned[stack[n].banner]
    BY <1>4, <2>1, <2>2, <2>3
  <2>5. \A n \in 1..(Len(stack) - 1) : cleaned'[stack'[n].banner] = cleaned[stack[n].banner]
    BY <1>5
  <2> QED BY <1>1, <1>5, <2>4, <2>5
<1> QED BY <1>2, <1>3, <1>5, <1>4, <1>7, <1>8, <1>9 DEF Stacked

\* Nothing is open: the line is ignored.
LEMMA StrayClose ==
  ASSUME FoldInv, ScanClose, stack = <<>>
  PROVE  FoldInv'
<1>1. /\ Scanning /\ raw' = raw /\ pos' = pos + 1 /\ ~returned'
      /\ pos \in Nat /\ pos \in 0..(Len(raw) - 1) /\ pos' \in 0..Len(raw)
      /\ raw[pos + 1].is = "close" /\ returned' \in BOOLEAN
  BY ScanNext DEF ScanClose
<1>2. cleaned' = cleaned /\ stack' = stack /\ folds' = folds
  BY DEF ScanClose
<1>3. FoldTypes /\ raw \in Seq(Line) /\ 1..Len(stack) = {}
  BY DEF FoldInv, FoldTypes
<1>4. FoldTypes'
  BY <1>1, <1>2, <1>3 DEF FoldTypes
<1>5. Kept'
  BY <1>2, KeptPastClose DEF ScanClose
<1>6. Stacked'
  <2>1. \A p : p \notin Around(raw, pos)
    BY <1>1, <1>3 DEF Scanning, Stacked
  <2>2. \A p : p \notin Around(raw, pos + 1)
    BY <1>1, <1>3, <2>1, AroundNext
  <2> QED BY <1>1, <1>2, <1>3, <2>2 DEF Stacked
<1>7. Folded'
  BY <1>1, <1>2 DEF Scanning, Folded
<1>8. Nested'
  <2>1. \A b, k : Over(b, k)' <=> Over(b, k)
    BY <1>2 DEF Over
  <2> QED BY <1>1, <1>2, <2>1 DEF Scanning, Nested
<1> QED BY <1>1, <1>4, <1>5, <1>6, <1>7, <1>8 DEF FoldInv, Scanning, FoldsMatchSections

\* What is known of the section that the line closes.
LEMMA Innermost ==
  ASSUME FoldInv, ~returned, stack # <<>>
  PROVE  /\ Len(stack) \in Nat \ {0} /\ Len(cleaned) \in Nat
         /\ Last(stack) = stack[Len(stack)]
         /\ Last(stack) \in [banner : Nat \ {0}, auto : BOOLEAN]
         /\ IsBanner(raw, cleaned, Last(stack).banner, Last(stack).auto)
         /\ \A n \in 1..(Len(stack) - 1) :
              stack[n].banner \in Nat /\ stack[n].banner \in 1..Len(cleaned)
              /\ stack[n].banner < Last(stack).banner
<1>1. Stacked
  BY DEF FoldInv, Scanning
<1>2. /\ stack \in Seq([banner : Nat \ {0}, auto : BOOLEAN]) /\ Len(stack) \in Nat
      /\ cleaned \in Seq(Nat) /\ Len(cleaned) \in Nat
  BY DEF FoldInv, FoldTypes
<1>3. Len(stack) # 0 /\ Last(stack) = stack[Len(stack)]
  BY <1>2 DEF Last
<1>4. Len(stack) \in 1..Len(stack)
  BY <1>2, <1>3
<1>5. Last(stack) \in [banner : Nat \ {0}, auto : BOOLEAN]
  <2>1. stack[Len(stack)] \in [banner : Nat \ {0}, auto : BOOLEAN]
    BY <1>2, <1>4, ElementOfSeq
  <2> QED BY <1>3, <2>1
<1>6. IsBanner(raw, cleaned, Last(stack).banner, Last(stack).auto)
  BY <1>1, <1>3, <1>4 DEF Stacked
<1>7. ASSUME NEW n \in 1..(Len(stack) - 1)
      PROVE  stack[n].banner \in Nat /\ stack[n].banner \in 1..Len(cleaned)
             /\ stack[n].banner < Last(stack).banner
  <2>1. n \in 1..Len(stack) /\ n < Len(stack)
    BY <1>2
  <2>2. stack[n].banner \in 1..Len(cleaned)
    BY <1>1, <2>1 DEF Stacked, IsBanner
  <2>3. stack[n].banner < stack[Len(stack)].banner
    BY <1>1, <1>4, <2>1 DEF Stacked
  <2> QED BY <1>2, <1>3, <2>2, <2>3
<1> QED BY <1>2, <1>3, <1>5, <1>6, <1>7

\* There is something under its banner: it becomes a fold.
LEMMA CloseFolds ==
  ASSUME FoldInv, ScanClose, stack # <<>>, Len(cleaned) # Last(stack).banner
  PROVE  FoldInv'
<1> DEFINE open == Last(stack)
<1>1. /\ Scanning /\ raw' = raw /\ pos' = pos + 1 /\ ~returned /\ ~returned'
      /\ pos' \in 0..Len(raw) /\ returned' \in BOOLEAN
  BY ScanNext DEF ScanClose
<1>2. /\ Len(stack) \in Nat \ {0} /\ Len(cleaned) \in Nat
      /\ open = stack[Len(stack)]
      /\ open \in [banner : Nat \ {0}, auto : BOOLEAN]
      /\ IsBanner(raw, cleaned, open.banner, open.auto)
      /\ \A n \in 1..(Len(stack) - 1) :
           stack[n].banner \in Nat /\ stack[n].banner \in 1..Len(cleaned)
           /\ stack[n].banner < open.banner
  BY <1>1, Innermost
<1>3. open.banner \in Nat \ {0} /\ open.banner < Len(cleaned) /\ open.auto \in BOOLEAN
  BY <1>2 DEF IsBanner
<1> DEFINE fold == [from |-> open.banner, to |-> Len(cleaned), auto |-> open.auto]
<1>4. cleaned' = cleaned /\ stack' = Front(stack) /\ folds' = folds \union {fold}
  BY <1>3 DEF ScanClose, CloseSection, emitRange
<1>5. fold \in [from : Nat \ {0}, to : Nat, auto : BOOLEAN]
  BY <1>2, <1>3
<1>6. fold.from = open.banner /\ fold.to = Len(cleaned) /\ fold.auto = open.auto
  OBVIOUS
<1> HIDE DEF open, fold
<1>7. /\ stack' \in Seq([banner : Nat \ {0}, auto : BOOLEAN])
      /\ Len(stack') = Len(stack) - 1
      /\ \A n \in 1..(Len(stack) - 1) : stack'[n] = stack[n] /\ n \in 1..Len(stack)
      /\ Stacked'
  BY <1>2, <1>4, StackedPastClose DEF ScanClose
<1>8. FoldTypes'
  <2>1. FoldTypes
    BY DEF FoldInv
  <2> QED BY <1>1, <1>4, <1>5, <1>7, <2>1 DEF FoldTypes
<1>9. Kept'
  BY <1>4, KeptPastClose DEF ScanClose
<1>10. Folded'
  <2> SUFFICES ASSUME NEW f \in folds'
               PROVE  /\ IsBanner(raw, cleaned, f.from, f.auto)
                      /\ f.from < f.to /\ f.to <= Len(cleaned)
                      /\ \A n \in 1..(Len(stack) - 1) :
                           f.to < stack[n].banner \/ stack[n].banner < f.from
    BY <1>1, <1>4, <1>7 DEF Folded
  <2>1. CASE f \in folds
    BY <1>1, <1>7, <2>1 DEF Scanning, Folded
  <2>2. CASE f = fold
    BY <1>2, <1>3, <1>6, <2>2
  <2> QED BY <1>4, <2>1, <2>2
<1>11. \A b : (\E n \in 1..Len(stack) : stack[n].banner = b) <=>
                b = open.banner \/ (\E n \in 1..Len(stack') : stack'[n].banner = b)
  <2>1. \A n \in 1..Len(stack) : n = Len(stack) \/ n \in 1..Len(stack')
    BY <1>2, <1>7
  <2>2. Len(stack) \in 1..Len(stack)
    BY <1>2
  <2>3. \A n \in 1..Len(stack') : stack'[n] = stack[n] /\ n \in 1..Len(stack)
    BY <1>7
  <2> QED BY <1>2, <2>1, <2>2, <2>3
<1>12. Nested'
  <2>1. ASSUME NEW k \in 1..Len(cleaned), NEW b
        PROVE  Over(b, k)' <=> Over(b, k)
    <3>1. (\E f \in folds' : f.from = b /\ k <= f.to) <=>
            b = open.banner \/ (\E f \in folds : f.from = b /\ k <= f.to)
      <4>1. k <= fold.to
        BY <1>2, <1>6
      <4> QED BY <1>4, <1>6, <4>1
    <3> QED BY <1>11, <3>1 DEF Over
  <2>2. ASSUME NEW k
        PROVE  (\E f \in folds : f.from = k) \/ (\E n \in 1..Len(stack) : stack[n].banner = k)
               => (\E f \in folds' : f.from = k) \/ (\E n \in 1..Len(stack') : stack'[n].banner = k)
    BY <1>4, <1>6, <1>11
  <2>3. \A k \in 1..Len(cleaned) :
          IF raw[cleaned[k]].is = "text"
          THEN \A p : p \in Around(raw, cleaned[k]) <=>
                 \E b \in 1..Len(cleaned) : p = cleaned[b] /\ Over(b, k)
          ELSE \/ \E f \in folds : f.from = k
               \/ \E n \in 1..Len(stack) : stack[n].banner = k
    BY <1>1 DEF Scanning, Nested
  <2>4. \A k \in 1..Len(cleaned) :
          IF raw[cleaned[k]].is = "text"
          THEN \A p : p \in Around(raw, cleaned[k]) <=>
                 \E b \in 1..Len(cleaned) : p = cleaned[b] /\ Over(b, k)'
          ELSE \/ \E f \in folds' : f.from = k
               \/ \E n \in 1..Len(stack') : stack'[n].banner = k
    <3> SUFFICES ASSUME NEW k \in 1..Len(cleaned)
                 PROVE  IF raw[cleaned[k]].is = "text"
                        THEN \A p : p \in Around(raw, cleaned[k]) <=>
                               \E b \in 1..Len(cleaned) : p = cleaned[b] /\ Over(b, k)'
                        ELSE \/ \E f \in folds' : f.from = k
                             \/ \E n \in 1..Len(stack') : stack'[n].banner = k
      OBVIOUS
    <3>1. CASE raw[cleaned[k]].is = "text"
      BY <2>1, <2>3, <3>1
    <3>2. CASE raw[cleaned[k]].is # "text"
      BY <2>2, <2>3, <3>2
    <3> QED BY <3>1, <3>2
  <2>5. \A k \in 1..Len(cleaned') :
          IF raw'[cleaned'[k]].is = "text"
          THEN \A p : p \in Around(raw', cleaned'[k]) <=>
                 \E b \in 1..Len(cleaned') : p = cleaned'[b] /\ Over(b, k)'
          ELSE \/ \E f \in folds' : f.from = k
               \/ \E n \in 1..Len(stack') : stack'[n].banner = k
    BY <1>1, <1>4, <2>4
  <2> QED BY <2>5 DEF Nested, Over
<1> QED BY <1>1, <1>7, <1>8, <1>9, <1>10, <1>12 DEF FoldInv, Scanning, FoldsMatchSections

\* There is nothing under its banner, which is taken back.
LEMMA CloseTakesBack ==
  ASSUME FoldInv, ScanClose, stack # <<>>, Len(cleaned) = Last(stack).banner
  PROVE  FoldInv'
<1> DEFINE open == Last(stack)
<1>1. /\ Scanning /\ raw' = raw /\ pos' = pos + 1 /\ ~returned /\ ~returned'
      /\ pos \in Nat /\ raw[pos + 1].is = "close"
      /\ pos' \in 0..Len(raw) /\ returned' \in BOOLEAN
  BY ScanNext DEF ScanClose
<1>2. /\ Len(stack) \in Nat \ {0} /\ Len(cleaned) \in Nat
      /\ open = stack[Len(stack)]
      /\ IsBanner(raw, cleaned, open.banner, open.auto)
      /\ \A n \in 1..(Len(stack) - 1) :
           stack[n].banner \in Nat /\ stack[n].banner \in 1..Len(cleaned)
           /\ stack[n].banner < open.banner
  BY <1>1, Innermost
<1>3. open.banner = Len(cleaned) /\ Len(cleaned) # 0
  BY <1>2 DEF IsBanner
<1> HIDE DEF open
<1>4. /\ cleaned' = SubSeq(cleaned, 1, Len(cleaned) - 1) /\ stack' = Front(stack)
      /\ folds' = folds
  BY <1>3 DEF ScanClose, CloseSection, open
<1>5. /\ cleaned' \in Seq(Nat) /\ Len(cleaned') = Len(cleaned) - 1
      /\ \A k \in 1..(Len(cleaned) - 1) : cleaned'[k] = cleaned[k]
  <2>1. cleaned \in Seq(Nat)
    BY DEF FoldInv, FoldTypes
  <2>2. \A k \in 1..(Len(cleaned) - 1) : k \in 1..Len(cleaned) /\ 1 + k - 1 = k
    BY <1>2
  <2>3. \A k \in 1..(Len(cleaned) - 1) : cleaned[k] \in Nat
    BY <2>1, <2>2, ElementOfSeq
  <2>4. 1 \in Int /\ Len(cleaned) - 1 \in Int
    BY <1>2
  <2>5. /\ SubSeq(cleaned, 1, Len(cleaned) - 1) \in Seq(Nat)
        /\ Len(SubSeq(cleaned, 1, Len(cleaned) - 1)) =
             IF 1 <= Len(cleaned) - 1 THEN Len(cleaned) - 1 - 1 + 1 ELSE 0
        /\ \A k \in 1..(Len(cleaned) - 1 - 1 + 1) :
             SubSeq(cleaned, 1, Len(cleaned) - 1)[k] = cleaned[1 + k - 1]
    BY <2>3, <2>4, SubSeqProperties
  <2>6. Len(cleaned) - 1 - 1 + 1 = Len(cleaned) - 1
    BY <1>2
  <2> QED BY <1>2, <1>3, <1>4, <2>2, <2>5, <2>6
<1>6. \A k \in 1..(Len(cleaned) - 1) :
        k \in 1..Len(cleaned) /\ k \in 1..Len(cleaned') /\ k # open.banner
  BY <1>2, <1>3, <1>5
<1>7. /\ stack' \in Seq([banner : Nat \ {0}, auto : BOOLEAN])
      /\ Len(stack') = Len(stack) - 1
      /\ \A n \in 1..(Len(stack) - 1) : stack'[n] = stack[n] /\ n \in 1..Len(stack)
      /\ Stacked'
  <2>1. \A n \in 1..(Len(stack) - 1) : stack[n].banner \in 1..(Len(cleaned) - 1)
    BY <1>2, <1>3
  <2>2. \A n \in 1..(Len(stack) - 1) :
          stack[n].banner \in 1..Len(cleaned') /\ cleaned'[stack[n].banner] = cleaned[stack[n].banner]
    BY <1>5, <1>6, <2>1
  <2> QED BY <1>4, <2>2, StackedPastClose DEF ScanClose
<1>8. FoldTypes'
  <2>1. FoldTypes
    BY DEF FoldInv
  <2> QED BY <1>1, <1>4, <1>5, <1>7, <2>1 DEF FoldTypes
<1>9. Kept'
  <2>1. \A k \in 1..Len(cleaned') : k \in 1..Len(cleaned) /\ cleaned'[k] = cleaned[k]
    BY <1>5, <1>6
  <2>2. \A k \in 1..Len(cleaned) : k = open.banner \/ k \in 1..Len(cleaned')
    BY <1>2, <1>3, <1>5
  <2>3. raw[cleaned[open.banner]].is = "open"
    BY <1>2 DEF IsBanner
  <2>4. \A p \in 1..(pos + 1) : p \in 1..pos \/ p = pos + 1
    BY <1>1
  <2>5. 1..pos \subseteq 1..(pos + 1)
    BY <1>1
  <2>6. Kept
    BY <1>1 DEF Scanning
  <2>7. \A p \in 1..pos' : raw'[p].is = "text" => \E k \in 1..Len(cleaned') : cleaned'[k] = p
    <3> SUFFICES ASSUME NEW p \in 1..(pos + 1), raw[p].is = "text"
                 PROVE  \E k \in 1..Len(cleaned') : cleaned'[k] = p
      BY <1>1
    <3>1. p \in 1..pos
      BY <1>1, <2>4
    <3>2. PICK k \in 1..Len(cleaned) : cleaned[k] = p
      BY <2>6, <3>1 DEF Kept
    <3>3. k # open.banner
      BY <2>3, <3>2
    <3> QED BY <2>1, <2>2, <3>2, <3>3
  <2> QED BY <1>1, <2>1, <2>5, <2>6, <2>7 DEF Kept
<1>10. \A f \in folds : f.to \in Nat /\ f.from \in Nat /\ f.to < open.banner
  <2> SUFFICES ASSUME NEW f \in folds
               PROVE  f.to \in Nat /\ f.from \in Nat /\ f.to < open.banner
    OBVIOUS
  <2>1. f.to \in Nat /\ f.from \in Nat
    BY DEF FoldInv, FoldTypes
  <2>2. f.from < f.to /\ f.to <= Len(cleaned)
    BY <1>1 DEF Scanning, Folded
  <2>3. f.to < open.banner \/ open.banner < f.from
    <3>1. Len(stack) \in 1..Len(stack)
      BY <1>2
    <3> QED BY <1>1, <1>2, <3>1 DEF Scanning, Folded
  <2> QED BY <1>2, <1>3, <2>1, <2>2, <2>3
<1>11. Folded'
  <2> SUFFICES ASSUME NEW f \in folds
               PROVE  /\ IsBanner(raw, cleaned', f.from, f.auto)
                      /\ f.from < f.to /\ f.to <= Len(cleaned')
                      /\ \A n \in 1..(Len(stack) - 1) :
                           f.to < stack[n].banner \/ stack[n].banner < f.from
    BY <1>1, <1>4, <1>7 DEF Folded
  <2>1. /\ IsBanner(raw, cleaned, f.from, f.auto) /\ f.from < f.to
        /\ \A n \in 1..Len(stack) : f.to < stack[n].banner \/ stack[n].banner < f.from
    BY <1>1 DEF Scanning, Folded
  <2>2. f.from \in 1..(Len(cleaned) - 1) /\ f.to <= Len(cleaned) - 1
    BY <1>2, <1>3, <1>10, <2>1 DEF IsBanner
  <2> QED BY <1>5, <1>6, <1>7, <2>1, <2>2 DEF IsBanner
<1>12. \A b : b # open.banner =>
         ((\E n \in 1..Len(stack') : stack'[n].banner = b) <=>
          (\E n \in 1..Len(stack) : stack[n].banner = b))
  <2>1. \A n \in 1..Len(stack) : n = Len(stack) \/ n \in 1..Len(stack')
    BY <1>2, <1>7
  <2>2. \A n \in 1..Len(stack') : stack'[n] = stack[n] /\ n \in 1..Len(stack)
    BY <1>7
  <2> QED BY <1>2, <2>1, <2>2
<1>13. Nested'
  <2> SUFFICES ASSUME NEW k \in 1..(Len(cleaned) - 1)
               PROVE  IF raw[cleaned'[k]].is = "text"
                      THEN \A p : p \in Around(raw, cleaned'[k]) <=>
                             \E b \in 1..Len(cleaned') : p = cleaned'[b] /\ Over(b, k)'
                      ELSE \/ \E f \in folds' : f.from = k
                           \/ \E n \in 1..Len(stack') : stack'[n].banner = k
    <3>1. 1..Len(cleaned') = 1..(Len(cleaned) - 1)
      BY <1>2, <1>5
    <3> QED BY <1>1, <3>1 DEF Nested, Over
  <2>1. k \in 1..Len(cleaned) /\ k \in 1..Len(cleaned') /\ k # open.banner /\ cleaned'[k] = cleaned[k]
    BY <1>5, <1>6
  <2>2. IF raw[cleaned[k]].is = "text"
        THEN \A p : p \in Around(raw, cleaned[k]) <=>
               \E b \in 1..Len(cleaned) : p = cleaned[b] /\ Over(b, k)
        ELSE \/ \E f \in folds : f.from = k
             \/ \E n \in 1..Len(stack) : stack[n].banner = k
    BY <1>1, <2>1 DEF Scanning, Nested
  <2>3. ASSUME NEW b
        PROVE  Over(b, k)' <=> Over(b, k)
    <3>1. b = open.banner => ~(b < k)
      BY <1>2, <1>3
    <3> QED BY <1>4, <1>12, <3>1 DEF Over
  <2>4. ASSUME NEW b \in 1..Len(cleaned), Over(b, k)
        PROVE  b \in 1..(Len(cleaned) - 1)
    BY <1>2, <2>4 DEF Over
  <2>5. ASSUME NEW p
        PROVE  (\E b \in 1..Len(cleaned') : p = cleaned'[b] /\ Over(b, k)') <=>
                 (\E b \in 1..Len(cleaned) : p = cleaned[b] /\ Over(b, k))
    BY <1>5, <1>6, <2>3, <2>4
  <2>6. ASSUME raw[cleaned[k]].is = "text", NEW p
        PROVE  p \in Around(raw, cleaned[k]) <=>
                 \E b \in 1..Len(cleaned') : p = cleaned'[b] /\ Over(b, k)'
    BY <2>2, <2>5, <2>6
  <2> QED BY <1>4, <1>12, <2>1, <2>2, <2>6
<1> QED BY <1>1, <1>7, <1>8, <1>9, <1>11, <1>13 DEF FoldInv, Scanning, FoldsMatchSections

LEMMA ScanCloseStep ==
  ASSUME FoldInv, ScanClose
  PROVE  FoldInv'
BY StrayClose, CloseFolds, CloseTakesBack

----------------------------------------------------------------------------
(* The end of the body                                                     *)

LEMMA ReturnStep ==
  ASSUME FoldInv, Return
  PROVE  FoldInv'
<1>1. /\ Kept /\ Stacked /\ Folded /\ Nested
      /\ raw' = raw /\ pos' = pos /\ cleaned' = cleaned /\ stack' = <<>> /\ returned'
      /\ pos = Len(raw)
      /\ folds' = folds \union UNION {emitRange(open) : open \in ToSet(stack)}
  BY DEF FoldInv, Scanning, Return
<1>2. /\ FoldTypes /\ raw \in Seq(Line) /\ Len(raw) \in Nat
      /\ cleaned \in Seq(Nat) /\ Len(cleaned) \in Nat
      /\ stack \in Seq([banner : Nat \ {0}, auto : BOOLEAN]) /\ Len(stack) \in Nat
      /\ folds \subseteq [from : Nat \ {0}, to : Nat, auto : BOOLEAN]
      /\ DOMAIN raw = 1..Len(raw) /\ DOMAIN cleaned = 1..Len(cleaned)
      /\ DOMAIN stack = 1..Len(stack)
  BY DEF FoldInv, FoldTypes
<1>3. \A n \in 1..Len(stack) :
        /\ stack[n] \in [banner : Nat \ {0}, auto : BOOLEAN]
        /\ IsBanner(raw, cleaned, stack[n].banner, stack[n].auto)
  BY <1>1, <1>2, ElementOfSeq DEF Stacked
\* What is new are the folds of the sections that have something under them.
<1> DEFINE fold(n) == [from |-> stack[n].banner, to |-> Len(cleaned), auto |-> stack[n].auto]
<1>4. ASSUME NEW f
      PROVE  f \in folds' <=>
               f \in folds \/ \E n \in 1..Len(stack) : stack[n].banner < Len(cleaned) /\ f = fold(n)
  <2>1. f \in folds' <=> f \in folds \/ \E open \in ToSet(stack) : f \in emitRange(open)
    BY <1>1
  <2>2. ToSet(stack) = {stack[n] : n \in 1..Len(stack)}
    BY <1>2 DEF ToSet
  <2>3. (\E open \in ToSet(stack) : f \in emitRange(open)) <=>
          (\E n \in 1..Len(stack) : f \in emitRange(stack[n]))
    BY <2>2
  <2>4. ASSUME NEW n \in 1..Len(stack)
        PROVE  f \in emitRange(stack[n]) <=> stack[n].banner < Len(cleaned) /\ f = fold(n)
    <3>1. Len(cleaned) > stack[n].banner <=> stack[n].banner < Len(cleaned)
      BY <1>2, <1>3
    <3> QED BY <3>1 DEF emitRange
  <2> QED BY <2>1, <2>3, <2>4
<1>5. \A n \in 1..Len(stack) :
        /\ fold(n).from = stack[n].banner /\ fold(n).to = Len(cleaned)
        /\ fold(n).auto = stack[n].auto
        /\ fold(n) \in [from : Nat \ {0}, to : Nat, auto : BOOLEAN]
  BY <1>2, <1>3
<1> HIDE DEF fold
<1>6. FoldTypes'
  <2>1. folds' \subseteq [from : Nat \ {0}, to : Nat, auto : BOOLEAN]
    BY <1>2, <1>4, <1>5
  <2>2. stack' \in Seq([banner : Nat \ {0}, auto : BOOLEAN])
    BY <1>1
  <2>3. returned' \in BOOLEAN
    BY DEF Return
  <2> QED BY <1>1, <1>2, <2>1, <2>2, <2>3 DEF FoldTypes
<1>7. \A f \in folds' : IsBanner(raw, cleaned, f.from, f.auto)
  BY <1>1, <1>3, <1>4, <1>5 DEF Folded
<1>8. ASSUME NEW k \in 1..Len(cleaned), NEW b
      PROVE  b \in Hiding(k)' <=> Over(b, k)
  <2>1. Hiding(k)' = {f.from : f \in {g \in folds' : g.from < k /\ k <= g.to}}
    BY DEF Hiding
  <2>2. b \in Hiding(k)' <=> b < k /\ \E f \in folds' : f.from = b /\ k <= f.to
    BY <2>1
  <2>3. \A n \in 1..Len(stack) : k <= fold(n).to /\ stack[n].banner \in Nat
    <3> SUFFICES ASSUME NEW n \in 1..Len(stack)
                 PROVE  k <= fold(n).to /\ stack[n].banner \in Nat
      OBVIOUS
    <3>1. k <= Len(cleaned)
      OBVIOUS
    <3>2. fold(n).to = Len(cleaned)
      BY <1>5
    <3>3. stack[n] \in [banner : Nat \ {0}, auto : BOOLEAN]
      BY <1>3
    <3> QED BY <3>1, <3>2, <3>3
  <2>4. b < k => \A n \in 1..Len(stack) : stack[n].banner = b => stack[n].banner < Len(cleaned)
    BY <1>2, <2>3
  <2>5. b < k => ((\E f \in folds' : f.from = b /\ k <= f.to) <=>
                    \/ \E f \in folds : f.from = b /\ k <= f.to
                    \/ \E n \in 1..Len(stack) : stack[n].banner = b)
    BY <1>4, <1>5, <2>3, <2>4
  <2> QED BY <2>2, <2>5 DEF Over
<1>9. ASSUME NEW k \in 1..Len(cleaned), raw[cleaned[k]].is = "text"
      PROVE  {cleaned[b] : b \in Hiding(k)'} = Around(raw, cleaned[k])
  <2>1. \A p : p \in Around(raw, cleaned[k]) <=>
                 \E b \in 1..Len(cleaned) : p = cleaned[b] /\ Over(b, k)
    BY <1>1, <1>9 DEF Nested
  <2>2. \A b : Over(b, k) => b \in 1..Len(cleaned)
    <3> SUFFICES ASSUME NEW b, Over(b, k)
                 PROVE  b \in 1..Len(cleaned)
      OBVIOUS
    <3>1. CASE \E f \in folds : f.from = b
      BY <1>1, <3>1 DEF Folded, IsBanner
    <3>2. CASE \E n \in 1..Len(stack) : stack[n].banner = b
      BY <1>3, <3>2 DEF IsBanner
    <3> QED BY <3>1, <3>2 DEF Over
  <2>3. \A p : p \in {cleaned[b] : b \in Hiding(k)'} <=>
                 \E b \in 1..Len(cleaned) : p = cleaned[b] /\ Over(b, k)
    BY <1>8, <2>2
  <2> QED BY <2>1, <2>3
<1>10. ASSUME NEW k \in 1..Len(cleaned), raw[cleaned[k]].is # "text"
       PROVE  \/ \E f \in folds' : f.from = k
              \/ k = Len(cleaned) /\ cleaned[k] \in Around(raw, Len(raw))
  <2>1. CASE \E f \in folds : f.from = k
    BY <1>4, <2>1
  <2>2. CASE \E n \in 1..Len(stack) : stack[n].banner = k
    <3>1. PICK n \in 1..Len(stack) : stack[n].banner = k
      BY <2>2
    <3>2. CASE k < Len(cleaned)
      <4>1. fold(n) \in folds' /\ fold(n).from = k
        BY <1>4, <1>5, <3>1, <3>2
      <4> QED BY <4>1
    <3>3. CASE k = Len(cleaned)
      BY <1>1, <3>1, <3>3 DEF Stacked
    <3>4. k < Len(cleaned) \/ k = Len(cleaned)
      <4>1. Len(cleaned) \in Nat
        BY <1>2
      <4> QED BY <4>1
    <3> QED BY <3>2, <3>3, <3>4
  <2> QED BY <1>1, <1>10, <2>1, <2>2 DEF Nested
<1>11. FoldsMatchSections'
  <2>1. \A f \in folds' : f.from \in 1..Len(cleaned) /\ f.auto = raw[cleaned[f.from]].auto
    BY <1>7 DEF IsBanner
  <2>2. \A k \in 1..Len(cleaned) : raw[cleaned[k]].is # "close"
    BY <1>1 DEF Kept
  <2>3. \A i, k \in 1..Len(cleaned) : i < k => cleaned[i] < cleaned[k]
    BY <1>1 DEF Kept
  <2>4. \A p \in 1..Len(raw) : raw[p].is = "text" => \E k \in 1..Len(cleaned) : cleaned[k] = p
    BY <1>1 DEF Kept
  <2>5. \A k \in 1..Len(cleaned) :
          IF raw[cleaned[k]].is = "text"
          THEN {cleaned[b] : b \in Hiding(k)'} = Around(raw, cleaned[k])
          ELSE \/ \E f \in folds' : f.from = k
               \/ k = Len(cleaned) /\ cleaned[k] \in Around(raw, Len(raw))
    BY <1>9, <1>10
  <2>6. raw' = raw /\ cleaned' = cleaned
    BY <1>1
  <2>7. /\ \A f \in folds' : f.from \in DOMAIN cleaned' /\ f.auto = raw'[cleaned'[f.from]].auto
        /\ \A i, k \in DOMAIN cleaned' : i < k => cleaned'[i] < cleaned'[k]
        /\ \A k \in DOMAIN cleaned' : raw'[cleaned'[k]].is # "close"
        /\ \A p \in DOMAIN raw' : raw'[p].is = "text" => \E k \in DOMAIN cleaned' : cleaned'[k] = p
    BY <1>2, <2>1, <2>2, <2>3, <2>4, <2>6
  <2>8. \A k \in DOMAIN cleaned' :
          IF raw'[cleaned'[k]].is = "text"
          THEN {cleaned'[b] : b \in Hiding(k)'} = Around(raw', cleaned'[k])
          ELSE \/ \E f \in folds' : f.from = k
               \/ k = Len(cleaned') /\ cleaned'[k] \in Around(raw', Len(raw'))
    BY <1>2, <2>5, <2>6
  <2> QED BY <2>7, <2>8 DEF FoldsMatchSections, Hiding
<1> QED BY <1>1, <1>6, <1>11 DEF FoldInv

----------------------------------------------------------------------------
(* The theorem                                                             *)

\* Nothing is scanned, kept or open before the first line.
LEMMA NothingYet ==
  ASSUME FoldInit
  PROVE  FoldInv
<1>1. /\ raw \in Seq(Line) /\ pos = 0 /\ cleaned = <<>> /\ stack = <<>> /\ folds = {}
      /\ returned = FALSE
  BY DEF FoldInit
<1>2. Len(cleaned) = 0 /\ Len(stack) = 0 /\ 1..0 = {} /\ pos \in 0..Len(raw)
  <2>1. Len(raw) \in Nat
    BY <1>1
  <2> QED BY <1>1, <2>1
<1>3. FoldTypes
  <2>1. cleaned \in Seq(Nat) /\ stack \in Seq([banner : Nat \ {0}, auto : BOOLEAN])
    BY <1>1
  <2>2. /\ folds \subseteq [from : Nat \ {0}, to : Nat, auto : BOOLEAN]
        /\ returned \in BOOLEAN
    BY <1>1
  <2> QED BY <1>1, <1>2, <2>1, <2>2 DEF FoldTypes
<1>4. \A p : p \notin Around(raw, pos)
  BY <1>1, <1>2 DEF Around
<1>5. Kept /\ Stacked /\ Folded /\ Nested
  BY <1>1, <1>2, <1>4 DEF Kept, Stacked, Folded, Nested
<1> QED BY <1>1, <1>3, <1>5 DEF FoldInv, Scanning, FoldsMatchSections

LEMMA FoldStep == FoldInv /\ [ScanOpen \/ ScanText \/ ScanClose \/ Return]_foldVars => FoldInv'
<1> SUFFICES ASSUME FoldInv, [ScanOpen \/ ScanText \/ ScanClose \/ Return]_foldVars
             PROVE  FoldInv'
  OBVIOUS
<1>1. CASE ScanOpen
  BY <1>1, ScanOpenStep
<1>2. CASE ScanText
  BY <1>2, ScanTextStep
<1>3. CASE ScanClose
  BY <1>3, ScanCloseStep
<1>4. CASE Return
  BY <1>4, ReturnStep
<1>5. CASE UNCHANGED foldVars
  <2>1. /\ raw' = raw /\ pos' = pos /\ cleaned' = cleaned /\ stack' = stack
        /\ folds' = folds /\ returned' = returned
    BY <1>5 DEF foldVars
  <2>2. FoldTypes' <=> FoldTypes
    BY <2>1 DEF FoldTypes
  <2>3. (Kept' <=> Kept) /\ (Stacked' <=> Stacked) /\ (Folded' <=> Folded)
    BY <2>1 DEF Kept, Stacked, Folded
  <2>4. Nested' <=> Nested
    BY <2>1 DEF Nested, Over
  <2>5. FoldsMatchSections' <=> FoldsMatchSections
    BY <2>1 DEF FoldsMatchSections, Hiding
  <2> QED BY <2>1, <2>2, <2>3, <2>4, <2>5 DEF FoldInv, Scanning
<1> QED BY <1>1, <1>2, <1>3, <1>4, <1>5

\* finalizeBannerBody on any body whatsoever, well nested or not: when it returns, the
\* page shows every line of text in order, each hidden by exactly the sections it was
\* written in, and no banner without something under it but one left open at the end
\* (app.js:1690-1740).
THEOREM FoldsAlwaysMatch == FoldSpec => []FoldsMatchSections
<1>1. FoldInit => FoldInv
  BY NothingYet
<1>2. FoldInv => FoldsMatchSections
  BY DEF FoldInv
<1> QED BY <1>1, <1>2, FoldStep, PTL DEF FoldSpec

\* A scan begun again by the page, whatever was left of the one before, begins where the
\* theorem's does.
LEMMA BeginsAnew ==
  ASSUME NEW body \in Seq(Line), Begin(body)
  PROVE  FoldInit'
BY DEF Begin, FoldInit

=============================================================================
