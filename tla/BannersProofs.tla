--------------------------- MODULE BannersProofs ---------------------------
(* The dumps and their pages: the sections that Rust opens around each     *)
(* line of text are those the page shows it under, in every view.          *)
EXTENDS Banners, BannerFoldProofs

----------------------------------------------------------------------------
(* The invariant                                                           *)

Run  == {NoRun} \union [kind : Titles, krate : Crates]
Item == [name : Nat \ {0}, kind : ItemKinds, krate : Crates \union {Local}, walk : Nat]
Fold == [from : Nat \ {0}, to : Nat, auto : BOOLEAN]

WriteTypes ==
  /\ source \in {"walk", "log"} /\ module \in Nat /\ busy \in BOOLEAN
  /\ items \in Seq(Item) /\ added \in Seq(Item)
  /\ op \in {"none", "context", "query"} /\ count \in Nat /\ replies \in Nat
  /\ wrapper \in Run /\ body \in Seq(Line) /\ sent \in BOOLEAN

PageTypes ==
  /\ read \in 0..Len(body) /\ inside \in BOOLEAN
  /\ out \in [BOOLEAN -> Seq(Nat)]
  /\ shown \in Seq([at : Seq(Nat), folds : SUBSET Fold])

\* What follows what.
WritePhases ==
  /\ source = "walk" => op = "none"
  /\ source = "log"  => items = <<>>
  /\ op # "none" => busy
  /\ ~busy => wrapper = NoRun

\* Around every line of another crate, and no line of the user's own but those of the
\* prelude and the replies, is a section that is folded at first.
Hidden(lines, p) == \E i \in Around(lines, p) : lines[i].auto
HidesOthers(lines) ==
  \A p \in 1..Len(lines) : lines[p].is = "text" =>
    /\ lines[p].krate # Local => Hidden(lines, p)
    /\ lines[p].krate = Local /\ Hidden(lines, p) => lines[p].n = 0 \/ lines[p].title = "reply"

\* The sections open after the lines are those of the sequence s, and how many are
\* open from each of them on.
Opened(lines, s) ==
  /\ \A n \in 1..Len(s) :
       s[n] \in 1..Len(lines) /\ Balance(lines, s[n], Len(lines)) = Len(s) - n + 1
  /\ Around(lines, Len(lines)) = {s[n] : n \in 1..Len(s)}

\* A body so far, with the sections s still open.
Sound(lines, s) ==
  lines \in Seq(Line) /\ s \in Seq(Nat) /\ Opened(lines, s) /\ HidesOthers(lines)

\* The wrapper of a run is opened by line w, if the run has one.
WrapperLine(run) == Open(TRUE, run.kind, 0, run.krate)
Outer(run, w) == IF run = NoRun THEN <<>> ELSE <<w>>
IsWrapper(lines, run, w) ==
  run # NoRun => w \in 1..Len(lines) /\ lines[w] = WrapperLine(run)

\* What is open: between sections the wrapper, and in an op the op's section too.
Wrapped(lines, run, w) ==
  /\ w \in 0..Len(lines) /\ IsWrapper(lines, run, w) /\ Sound(lines, Outer(run, w))

InSection(lines, run, w, o) ==
  /\ w \in 0..Len(lines) /\ IsWrapper(lines, run, w)
  /\ o \in 1..Len(lines) /\ Sound(lines, Append(Outer(run, w), o))
  /\ lines[o].auto => run # NoRun

BodyOpen ==
  \E w \in 0..Len(body) :
    IF op = "none" THEN Wrapped(body, wrapper, w)
    ELSE \E o \in 1..Len(body) : InSection(body, wrapper, w, o)

\* A response has at most one line, and only responses have replies.
LogShaped(lines) ==
  \A p \in 1..Len(lines) :
    /\ lines[p].is = "text" =>
         /\ lines[p].title \in {"command", "reply"}
         /\ lines[p].title = "reply" <=> p > 1 /\ IsResponse(lines[p - 1])
    /\ p < Len(lines) =>
         /\ IsResponse(lines[p]) => lines[p + 1].is # "open"
         /\ lines[p].is = "text" /\ lines[p].title = "reply" => lines[p + 1].is = "close"

\* The last line is not of a response.
Free(lines) ==
  Len(lines) > 0 =>
    /\ ~IsResponse(lines[Len(lines)])
    /\ lines[Len(lines)].is = "text" => lines[Len(lines)].title = "command"

\* Outside the responses of a log.
Clear(lines) == LogShaped(lines) /\ Free(lines)

LogInv == source = "log" => Clear(body)

\* An item's line, and the sections around it.
ItemLine(item) == Open(item.krate # Local, item.kind, item.name, item.krate)
ItemShaped(p) ==
  LET item == ItemAt(p)
  IN  /\ p > 1 /\ body[p].n \in 1..Len(added) /\ body[p].krate = item.krate
      /\ body[p - 1] = ItemLine(item)
      /\ IF item.krate = Local THEN Around(body, p) = {p - 1}
         ELSE \E w \in 1..(p - 2) :
                /\ Around(body, p) = {w, p - 1}
                /\ body[w] = WrapperLine(item)

\* What is added, still to be written, and written.
ItemsKnown ==
  /\ count = Len(added)
  /\ \A n \in 1..Len(added) : added[n].name = n /\ added[n].walk <= module
  /\ \A k \in 1..Len(items) :
       items[k].name \in 1..Len(added) /\ items[k] = added[items[k].name] /\ items[k].walk = module
  /\ \A i, k \in 1..Len(items) : i < k =>
       IF busy THEN Later(items[i], items[k]) ELSE items[i].name < items[k].name
  /\ \A n \in 1..Len(added) :
       (\E p \in Texts : body[p].n = n) \/ (\E k \in 1..Len(items) : items[k].name = n)

Ordered ==
  /\ \A p \in Texts :
       \/ ItemAt(p).walk < module
       \/ busy /\ ItemAt(p).walk = module /\ \A k \in 1..Len(items) : Later(ItemAt(p), items[k])
  /\ \A p, q \in Texts : p < q => Later(ItemAt(p), ItemAt(q))

NoneBetween(texts, p, q) == texts \intersect ((p + 1)..(q - 1)) = {}

\* Neighbours, the last line and the one to come.
Grouped ==
  /\ \A p, q \in Texts : p < q /\ NoneBetween(Texts, p, q) =>
       (Outermost(p) = Outermost(q) <=> Alike(ItemAt(p), ItemAt(q)))
  /\ \A q \in Texts : NoneBetween(Texts, q, Len(body) + 1) =>
       /\ ItemAt(q).walk = module => wrapper = RunOf(ItemAt(q).kind, ItemAt(q).krate)
       /\ wrapper # NoRun =>
            ItemAt(q).walk = module /\ Outermost(q) \in Around(body, Len(body))

WalkInv ==
  source = "walk" => (\A p \in Texts : ItemShaped(p)) /\ ItemsKnown /\ Ordered /\ Grouped

\* The lines that project_smt has let through, by their numbers: of the text what is
\* the view's own.
Picked(lines, at) == [k \in 1..Len(at) |-> lines[at[k]]]

Selected(lines, r, at, title) ==
  /\ \A k \in 1..Len(at) :
       at[k] \in 1..r /\ (lines[at[k]].is = "text" => lines[at[k]].title = title)
  /\ \A i, k \in 1..Len(at) : i < k => at[i] < at[k]
  /\ \A p \in 1..r : lines[p].is = "text" /\ lines[p].title = title =>
       \E k \in 1..Len(at) : at[k] = p

\* The sections open in the view are those open in the log, but for a response that
\* is left out.
Lockstep(lines, r, at, less) ==
  LET view == Picked(lines, at)
  IN  /\ \A i \in 1..Len(at) : i \in Around(view, Len(at)) <=> at[i] \in Around(lines, r)
      /\ \A i \in Around(view, Len(at)) :
           Balance(lines, at[i], r) = Balance(view, i, Len(at)) + less
      /\ \A p \in Around(lines, r) :
           \/ \E i \in 1..Len(at) : p = at[i]
           \/ less = 1 /\ Balance(lines, p, r) = 1
      /\ \A k \in 1..Len(at) : lines[at[k]].is = "text" =>
           Around(lines, at[k]) = {at[i] : i \in Around(view, k)}

\* in_response, from the lines themselves.
InResponse(lines, r) ==
  r > 0 /\ (IsResponse(lines[r]) \/ (lines[r].is = "text" /\ lines[r].title = "reply"))

ProjectInv ==
  source = "log" =>
    /\ inside <=> InResponse(body, read)
    /\ Selected(body, read, out[TRUE], "reply") /\ Selected(body, read, out[FALSE], "command")
    /\ Lockstep(body, read, out[TRUE], 0)
    /\ Lockstep(body, read, out[FALSE], IF inside THEN 1 ELSE 0)

\* A page: every line of its section's text, under the banners of the sections the
\* line is in.
PageRight(lines, from, tab, page) ==
  /\ \A i, k \in 1..Len(page.at) : i < k => page.at[i] < page.at[k]
  /\ \A k \in 1..Len(page.at) :
       /\ page.at[k] \in 1..Len(lines)
       /\ \E m \in 1..Len(from) : page.at[k] = from[m]
       /\ lines[page.at[k]].is = "text" => BannersOver(page, k) = Around(lines, page.at[k])
       /\ lines[page.at[k]].is # "text" => \E f \in page.folds : f.from = k
  /\ \A m \in 1..Len(from) : lines[from[m]].is = "text" =>
       \E k \in 1..Len(page.at) : page.at[k] = from[m]
  /\ \A f \in page.folds :
       /\ f.from \in 1..Len(page.at)
       /\ f.auto <=> tab # "response" /\ lines[page.at[f.from]].auto

PagesRight == \A t \in 1..Len(shown) : PageRight(body, Numbers(Tabs[t]), Tabs[t], shown[t])

\* What follows what: nothing is read or shown before the body is sent, and what is
\* sent is whole.
PagePhases ==
  /\ sent => ~busy /\ items = <<>>
  /\ ~sent => /\ read = 0 /\ ~inside /\ out = [keep \in BOOLEAN |-> <<>>]
              /\ shown = <<>> /\ returned
  /\ (shown # <<>> \/ ~returned) /\ source = "log" => read = Len(body)
  /\ Len(shown) <= Len(Tabs)
  /\ ~returned => Len(shown) < Len(Tabs) /\ raw = Sent(NextTab)

WriteInv   == WriteTypes /\ WritePhases /\ BodyOpen /\ LogInv /\ WalkInv
ViewInv    == PageTypes /\ PagePhases /\ ProjectInv /\ PagesRight /\ FoldInv
BannersInv == WriteInv /\ ViewInv

----------------------------------------------------------------------------
(* Lines one after another                                                 *)

\* What is counted up to a line depends on no later one.
LEMMA SamePrefix ==
  ASSUME NEW a, NEW b, NEW k \in Nat, \A j \in 1..k : a[j] = b[j]
  PROVE  Around(a, k) = Around(b, k) /\ \A i \in 1..k : Balance(a, i, k) = Balance(b, i, k)
<1>1. ASSUME NEW i \in 1..k, NEW j \in i..k
      PROVE  Balance(a, i, j) = Balance(b, i, j)
  <2>1. \A m \in i..j : a[m] = b[m]
    OBVIOUS
  <2>2. \A is : Marked(a, is, i, j) = Marked(b, is, i, j)
    BY <2>1 DEF Marked
  <2> QED BY <2>2 DEF Balance
<1>2. Around(a, k) = Around(b, k)
  BY <1>1 DEF Around
<1>3. \A i \in 1..k : k \in i..k
  OBVIOUS
<1> QED BY <1>1, <1>2, <1>3

\* One more line.
Longer(lines, line, more) ==
  /\ more \in Seq(Line) /\ Len(lines) \in Nat /\ Len(more) = Len(lines) + 1
  /\ Len(lines) \in 0..(Len(more) - 1)
  /\ \A p \in 1..Len(lines) : more[p] = lines[p] /\ Around(more, p) = Around(lines, p)
  /\ more[Len(lines) + 1] = line
  /\ Around(more, Len(lines)) = Around(lines, Len(lines))
  /\ \A i \in 1..Len(lines) : Balance(more, i, Len(lines)) = Balance(lines, i, Len(lines))

LEMMA NextLine ==
  ASSUME NEW lines \in Seq(Line), NEW line \in Line
  PROVE  Longer(lines, line, Append(lines, line))
<1> DEFINE more == Append(lines, line)
<1>1. /\ more \in Seq(Line) /\ Len(lines) \in Nat /\ Len(more) = Len(lines) + 1
      /\ \A p \in 1..Len(lines) : more[p] = lines[p]
      /\ more[Len(lines) + 1] = line
  BY AppendProperties
<1>2. \A p \in 1..Len(lines) : Around(more, p) = Around(lines, p)
  <2> SUFFICES ASSUME NEW p \in 1..Len(lines)
               PROVE  Around(more, p) = Around(lines, p)
    OBVIOUS
  <2>1. p \in Nat /\ \A j \in 1..p : more[j] = lines[j]
    BY <1>1
  <2> QED BY <2>1, SamePrefix
<1>3. /\ Around(more, Len(lines)) = Around(lines, Len(lines))
      /\ \A i \in 1..Len(lines) : Balance(more, i, Len(lines)) = Balance(lines, i, Len(lines))
  BY <1>1, SamePrefix
<1>4. Len(lines) \in 0..(Len(more) - 1)
  BY <1>1
<1> HIDE DEF more
<1>5. Longer(lines, line, more)
  BY <1>1, <1>2, <1>3, <1>4 DEF Longer
<1> QED BY <1>5 DEF more

\* What a marker or a line of text does to that.
LEMMA SoundOpen ==
  ASSUME NEW lines, NEW s, Sound(lines, s), NEW line \in Line, line.is = "open"
  PROVE  Sound(Append(lines, line), Append(s, Len(lines) + 1))
<1> DEFINE more == Append(lines, line)
           t == Append(s, Len(lines) + 1)
<1>0. more = Append(lines, line) /\ t = Append(s, Len(lines) + 1)
  OBVIOUS
<1> HIDE DEF more, t
<1>1. lines \in Seq(Line) /\ s \in Seq(Nat) /\ Opened(lines, s) /\ HidesOthers(lines)
  BY DEF Sound
<1>2. /\ more \in Seq(Line) /\ Len(lines) \in Nat /\ Len(more) = Len(lines) + 1
      /\ Len(lines) \in 0..(Len(more) - 1)
      /\ \A p \in 1..Len(lines) : more[p] = lines[p] /\ Around(more, p) = Around(lines, p)
      /\ more[Len(lines) + 1] = line
      /\ Around(more, Len(lines)) = Around(lines, Len(lines))
      /\ \A i \in 1..Len(lines) : Balance(more, i, Len(lines)) = Balance(lines, i, Len(lines))
  <2>1. Longer(lines, line, more)
    BY <1>0, <1>1, NextLine
  <2> QED BY <2>1 DEF Longer
<1>3. /\ t \in Seq(Nat) /\ Len(s) \in Nat /\ Len(t) = Len(s) + 1
      /\ \A n \in 1..Len(s) : t[n] = s[n]
      /\ t[Len(s) + 1] = Len(lines) + 1
  BY <1>0, <1>1, <1>2, AppendProperties
<1>4. \A n \in 1..Len(t) : n \in 1..Len(s) \/ n = Len(s) + 1
  BY <1>3
<1>5. \A n \in 1..Len(t) :
        t[n] \in 1..Len(more) /\ Balance(more, t[n], Len(more)) = Len(t) - n + 1
  <2>1. ASSUME NEW n \in 1..Len(s)
        PROVE  s[n] \in 1..Len(more) /\ Balance(more, s[n], Len(more)) = Len(t) - n + 1
    <3>1. s[n] \in 1..Len(lines) /\ Balance(lines, s[n], Len(lines)) = Len(s) - n + 1
      BY <1>1 DEF Opened
    <3>2. s[n] \in 1..(Len(lines) + 1)
      BY <1>2, <3>1
    <3>3. Balance(more, s[n], Len(lines) + 1) = Balance(more, s[n], Len(lines)) + 1
      BY <1>2, <3>2, BalanceNext
    <3> QED BY <1>2, <1>3, <3>1, <3>2, <3>3
  <2>2. /\ Len(lines) + 1 \in 1..Len(more)
        /\ Balance(more, Len(lines) + 1, Len(more)) = 1
    <3>1. Balance(more, Len(lines) + 1, Len(lines)) = 0
      BY <1>2, BalanceEmpty
    <3>2. Len(lines) + 1 \in 1..(Len(lines) + 1)
      BY <1>2
    <3>3. Balance(more, Len(lines) + 1, Len(lines) + 1) = Balance(more, Len(lines) + 1, Len(lines)) + 1
      BY <1>2, <3>2, BalanceNext
    <3> QED BY <1>2, <3>1, <3>2, <3>3
  <2>3. \A n \in 1..Len(s) : t[n] \in 1..Len(more) /\ Balance(more, t[n], Len(more)) = Len(t) - n + 1
    BY <1>3, <2>1
  <2>4. ASSUME NEW n, n = Len(s) + 1
        PROVE  t[n] \in 1..Len(more) /\ Balance(more, t[n], Len(more)) = Len(t) - n + 1
    BY <1>3, <2>2, <2>4
  <2> QED BY <1>4, <2>3, <2>4
<1>6. Around(more, Len(more)) = {t[n] : n \in 1..Len(t)}
  <2>1. \A i : i \in Around(more, Len(lines) + 1) <=> i \in Around(lines, Len(lines)) \/ i = Len(lines) + 1
    BY <1>2, AroundNext
  <2>2. \A i : i \in Around(lines, Len(lines)) <=> \E n \in 1..Len(s) : i = s[n]
    BY <1>1 DEF Opened
  <2>3. Len(s) + 1 \in 1..Len(t) /\ \A n \in 1..Len(s) : n \in 1..Len(t)
    BY <1>3
  <2>4. \A i : i \in Around(more, Len(lines) + 1) <=> \E n \in 1..Len(t) : i = t[n]
    BY <1>3, <1>4, <2>1, <2>2, <2>3
  <2> QED BY <1>2, <2>4
<1>7. HidesOthers(more)
  <2>1. \A p \in 1..Len(more) : p \in 1..Len(lines) \/ p = Len(lines) + 1
    BY <1>2
  <2>2. \A p \in 1..Len(lines) : Around(lines, p) \subseteq 1..Len(lines)
    BY <1>2 DEF Around
  <2>3. \A p \in 1..Len(lines) : Hidden(more, p) <=> Hidden(lines, p)
    BY <1>2, <2>2 DEF Hidden
  <2> QED BY <1>1, <1>2, <2>1, <2>3 DEF HidesOthers
<1> QED BY <1>0, <1>2, <1>3, <1>5, <1>6, <1>7 DEF Sound, Opened

LEMMA SoundText ==
  ASSUME NEW lines, NEW s, Sound(lines, s), NEW line \in Line, line.is = "text",
         line.krate # Local => \E n \in 1..Len(s) : lines[s[n]].auto,
         line.krate = Local /\ (\E n \in 1..Len(s) : lines[s[n]].auto)
           => line.n = 0 \/ line.title = "reply"
  PROVE  /\ Sound(Append(lines, line), s)
         /\ Around(Append(lines, line), Len(lines) + 1) = {s[n] : n \in 1..Len(s)}
<1> DEFINE more == Append(lines, line)
<1>0. more = Append(lines, line)
  OBVIOUS
<1> HIDE DEF more
<1>1. lines \in Seq(Line) /\ s \in Seq(Nat) /\ Opened(lines, s) /\ HidesOthers(lines)
  BY DEF Sound
<1>2. /\ more \in Seq(Line) /\ Len(lines) \in Nat /\ Len(more) = Len(lines) + 1
      /\ Len(lines) \in 0..(Len(more) - 1)
      /\ \A p \in 1..Len(lines) : more[p] = lines[p] /\ Around(more, p) = Around(lines, p)
      /\ more[Len(lines) + 1] = line
      /\ Around(more, Len(lines)) = Around(lines, Len(lines))
      /\ \A i \in 1..Len(lines) : Balance(more, i, Len(lines)) = Balance(lines, i, Len(lines))
  <2>1. Longer(lines, line, more)
    BY <1>0, <1>1, NextLine
  <2> QED BY <2>1 DEF Longer
<1>3. \A n \in 1..Len(s) :
        s[n] \in 1..Len(more) /\ Balance(more, s[n], Len(more)) = Len(s) - n + 1
  <2> SUFFICES ASSUME NEW n \in 1..Len(s)
               PROVE  s[n] \in 1..Len(more) /\ Balance(more, s[n], Len(more)) = Len(s) - n + 1
    OBVIOUS
  <2>1. s[n] \in 1..Len(lines) /\ Balance(lines, s[n], Len(lines)) = Len(s) - n + 1
    BY <1>1 DEF Opened
  <2>2. s[n] \in 1..(Len(lines) + 1)
    BY <1>2, <2>1
  <2>3. Balance(more, s[n], Len(lines) + 1) = Balance(more, s[n], Len(lines))
    BY <1>2, <2>2, BalanceNext
  <2> QED BY <1>2, <2>1, <2>2, <2>3
<1>4. Around(more, Len(more)) = {s[n] : n \in 1..Len(s)}
  <2>1. \A i : i \in Around(more, Len(lines) + 1) <=> i \in Around(lines, Len(lines))
    BY <1>2, AroundNext
  <2> QED BY <1>1, <1>2, <2>1 DEF Opened
<1>5. HidesOthers(more)
  <2>1. \A p \in 1..Len(more) : p \in 1..Len(lines) \/ p = Len(lines) + 1
    BY <1>2
  <2>2. \A p \in 1..Len(lines) : Around(lines, p) \subseteq 1..Len(lines)
    BY <1>2 DEF Around
  <2>3. \A p \in 1..Len(lines) : Hidden(more, p) <=> Hidden(lines, p)
    BY <1>2, <2>2 DEF Hidden
  <2>4. \A n \in 1..Len(s) : more[s[n]] = lines[s[n]]
    BY <1>1, <1>2 DEF Opened
  <2>5. Hidden(more, Len(lines) + 1) <=> \E n \in 1..Len(s) : lines[s[n]].auto
    BY <1>2, <1>4, <2>4 DEF Hidden
  <2> QED BY <1>1, <1>2, <2>1, <2>3, <2>5 DEF HidesOthers
<1> QED BY <1>0, <1>1, <1>2, <1>3, <1>4, <1>5 DEF Sound, Opened

\* The innermost section ends.
LEMMA SoundClose ==
  ASSUME NEW lines, NEW s \in Seq(Nat), NEW x \in Nat, Sound(lines, Append(s, x)),
         NEW line \in Line, line.is = "close"
  PROVE  Sound(Append(lines, line), s)
<1> DEFINE more == Append(lines, line)
           t == Append(s, x)
<1>0. more = Append(lines, line) /\ t = Append(s, x)
  OBVIOUS
<1> HIDE DEF more, t
<1>1. lines \in Seq(Line) /\ Opened(lines, t) /\ HidesOthers(lines)
  BY <1>0 DEF Sound
<1>2. /\ more \in Seq(Line) /\ Len(lines) \in Nat /\ Len(more) = Len(lines) + 1
      /\ Len(lines) \in 0..(Len(more) - 1)
      /\ \A p \in 1..Len(lines) : more[p] = lines[p] /\ Around(more, p) = Around(lines, p)
      /\ more[Len(lines) + 1] = line
      /\ Around(more, Len(lines)) = Around(lines, Len(lines))
      /\ \A i \in 1..Len(lines) : Balance(more, i, Len(lines)) = Balance(lines, i, Len(lines))
  <2>1. Longer(lines, line, more)
    BY <1>0, <1>1, NextLine
  <2> QED BY <2>1 DEF Longer
<1>3. /\ Len(s) \in Nat /\ Len(t) = Len(s) + 1
      /\ \A n \in 1..Len(s) : t[n] = s[n]
      /\ t[Len(s) + 1] = x
  BY <1>0, AppendProperties
<1>4. \A n \in 1..Len(t) : n \in 1..Len(s) \/ n = Len(s) + 1
  BY <1>3
<1>5. /\ \A n \in 1..Len(s) :
           s[n] \in 1..Len(lines) /\ Balance(lines, s[n], Len(lines)) = Len(s) - n + 2
      /\ Balance(lines, x, Len(lines)) = 1
  <2>1. \A n \in 1..Len(t) :
          t[n] \in 1..Len(lines) /\ Balance(lines, t[n], Len(lines)) = Len(t) - n + 1
    BY <1>1 DEF Opened
  <2>2. \A n \in 1..Len(s) : n \in 1..Len(t)
    BY <1>3
  <2>3. Len(s) + 1 \in 1..Len(t)
    BY <1>3
  <2>4. ASSUME NEW n \in 1..Len(s)
        PROVE  s[n] \in 1..Len(lines) /\ Balance(lines, s[n], Len(lines)) = Len(s) - n + 2
    BY <1>3, <2>1, <2>2
  <2>5. Balance(lines, t[Len(s) + 1], Len(lines)) = Len(t) - (Len(s) + 1) + 1
    BY <2>1, <2>3
  <2> QED BY <1>3, <2>4, <2>5
<1>6. \A n \in 1..Len(s) :
        s[n] \in 1..Len(more) /\ Balance(more, s[n], Len(more)) = Len(s) - n + 1
  <2> SUFFICES ASSUME NEW n \in 1..Len(s)
               PROVE  s[n] \in 1..Len(more) /\ Balance(more, s[n], Len(more)) = Len(s) - n + 1
    OBVIOUS
  <2>1. s[n] \in 1..(Len(lines) + 1)
    BY <1>2, <1>5
  <2>2. Balance(more, s[n], Len(lines) + 1) = Balance(more, s[n], Len(lines)) - 1
    BY <1>2, <2>1, BalanceNext
  <2> QED BY <1>2, <1>3, <1>5, <2>1, <2>2
<1>7. Around(more, Len(more)) = {s[n] : n \in 1..Len(s)}
  <2>1. \A i : i \in Around(more, Len(lines) + 1) <=>
                 i \in Around(lines, Len(lines)) /\ Balance(more, i, Len(lines)) > 1
    BY <1>2, AroundNext
  <2>2. \A i : i \in Around(lines, Len(lines)) <=> \E n \in 1..Len(t) : i = t[n]
    BY <1>1 DEF Opened
  <2>3. \A i \in Around(lines, Len(lines)) : Balance(more, i, Len(lines)) = Balance(lines, i, Len(lines))
    BY <1>2 DEF Around
  <2>4. Len(s) + 1 \in 1..Len(t) /\ \A n \in 1..Len(s) : n \in 1..Len(t)
    BY <1>3
  <2>5. \A i : i \in Around(lines, Len(lines)) <=> i = x \/ \E n \in 1..Len(s) : i = s[n]
    BY <1>3, <1>4, <2>2, <2>4
  <2>6. \A n \in 1..Len(s) : Balance(lines, s[n], Len(lines)) > 1
    <3> SUFFICES ASSUME NEW n \in 1..Len(s)
                 PROVE  Len(s) - n + 2 > 1
      BY <1>5
    <3> QED BY <1>3
  <2>7. ASSUME NEW i, i \in Around(more, Len(lines) + 1)
        PROVE  \E n \in 1..Len(s) : i = s[n]
    <3>1. i \in Around(lines, Len(lines)) /\ Balance(lines, i, Len(lines)) > 1
      BY <2>1, <2>3, <2>7
    <3>2. i # x
      BY <1>5, <3>1
    <3> QED BY <2>5, <3>1, <3>2
  <2>8. ASSUME NEW n \in 1..Len(s)
        PROVE  s[n] \in Around(more, Len(lines) + 1)
    <3>1. s[n] \in Around(lines, Len(lines))
      BY <2>5
    <3>2. Balance(more, s[n], Len(lines)) > 1
      BY <2>3, <2>6, <3>1
    <3> QED BY <2>1, <3>1, <3>2
  <2> QED BY <1>2, <2>7, <2>8
<1>8. HidesOthers(more)
  <2>1. \A p \in 1..Len(more) : p \in 1..Len(lines) \/ p = Len(lines) + 1
    BY <1>2
  <2>2. \A p \in 1..Len(lines) : Around(lines, p) \subseteq 1..Len(lines)
    BY <1>2 DEF Around
  <2>3. \A p \in 1..Len(lines) : Hidden(more, p) <=> Hidden(lines, p)
    BY <1>2, <2>2 DEF Hidden
  <2> QED BY <1>1, <1>2, <2>1, <2>3 DEF HidesOthers
<1> QED BY <1>0, <1>2, <1>6, <1>7, <1>8 DEF Sound, Opened

\* Lines appended together are appended one after another.
LEMMA OneByOne ==
  ASSUME NEW lines \in Seq(Line), NEW a \in Line, NEW b \in Line, NEW c \in Line
  PROVE  /\ lines \o <<>> = lines
         /\ lines \o <<a>> = Append(lines, a)
         /\ lines \o <<a, b>> = Append(Append(lines, a), b)
         /\ lines \o <<a, b, c>> = Append(Append(Append(lines, a), b), c)
<1>1. ASSUME NEW m \in Seq(Line), NEW t \in Seq(Line), NEW x \in Line
      PROVE  m \o Append(t, x) = Append(m \o t, x)
  <2>1. Append(t, x) \in Seq(Line) /\ m \o t \in Seq(Line)
    BY ConcatProperties, AppendProperties
  <2>2. m \o Append(t, x) \in Seq(Line) /\ Append(m \o t, x) \in Seq(Line)
    BY <2>1, ConcatProperties, AppendProperties
  <2> QED BY <2>1, <2>2
<1>2. <<a>> = Append(<<>>, a) /\ <<a, b>> = Append(<<a>>, b) /\ <<a, b, c>> = Append(<<a, b>>, c)
  OBVIOUS
<1>3. <<>> \in Seq(Line) /\ <<a>> \in Seq(Line) /\ <<a, b>> \in Seq(Line)
  BY <1>2, AppendProperties
<1>4. lines \o <<>> = lines
  BY ConcatEmptySeq
<1>5. lines \o <<a>> = Append(lines, a)
  BY <1>1, <1>2, <1>3, <1>4
<1>6. lines \o <<a, b>> = Append(Append(lines, a), b)
  BY <1>1, <1>2, <1>3, <1>5
<1>7. lines \o <<a, b, c>> = Append(Append(Append(lines, a), b), c)
  BY <1>1, <1>2, <1>3, <1>6
<1> QED BY <1>4, <1>5, <1>6, <1>7

\* The lines are of the types of lines.
\* The same of the four lines of the prelude.
LEMMA FourByOne ==
  ASSUME NEW lines \in Seq(Line), NEW a \in Line, NEW b \in Line, NEW c \in Line, NEW d \in Line
  PROVE  lines \o <<a, b, c, d>> = Append(Append(Append(Append(lines, a), b), c), d)
<1> DEFINE t == <<a, b, c>>
<1>1. t \in Seq(Line) /\ <<a, b, c, d>> = Append(t, d)
  OBVIOUS
<1>2. lines \o t = Append(Append(Append(lines, a), b), c)
  BY OneByOne
<1> HIDE DEF t
<1>3. lines \o Append(t, d) = Append(lines \o t, d)
  <2>1. Append(t, d) \in Seq(Line) /\ lines \o t \in Seq(Line)
    BY <1>1, ConcatProperties, AppendProperties
  <2>2. lines \o Append(t, d) \in Seq(Line) /\ Append(lines \o t, d) \in Seq(Line)
    BY <1>1, <2>1, ConcatProperties, AppendProperties
  <2> QED BY <1>1, <2>1, <2>2
<1> QED BY <1>1, <1>2, <1>3

LEMMA CloseTyped == Close \in Line /\ Close.is = "close" /\ ~IsResponse(Close)
<1>1. Local \in Nat
  BY DEF Local
<1>2. Close.is = "close" /\ Close \in Line
  BY <1>1, TitlesAssumption DEF Close, Line
<1> QED BY <1>2 DEF IsResponse

LEMMA TextTyped ==
  ASSUME NEW title \in Titles, NEW n \in Nat, NEW krate \in Nat
  PROVE  /\ Text(title, n, krate) \in Line /\ Text(title, n, krate).is = "text"
         /\ Text(title, n, krate).title = title /\ Text(title, n, krate).n = n
         /\ Text(title, n, krate).krate = krate
         /\ ~IsResponse(Text(title, n, krate))
BY DEF Text, Line, IsResponse

\* A line that may follow the last one.
Follows(lines, line) ==
  /\ line.is = "text" =>
       /\ line.title \in {"command", "reply"}
       /\ line.title = "reply" <=> Len(lines) > 0 /\ IsResponse(lines[Len(lines)])
  /\ Len(lines) > 0 =>
       /\ IsResponse(lines[Len(lines)]) => line.is # "open"
       /\ lines[Len(lines)].is = "text" /\ lines[Len(lines)].title = "reply" => line.is = "close"

LEMMA ShapedNext ==
  ASSUME NEW lines \in Seq(Line), NEW line \in Line, LogShaped(lines), Follows(lines, line)
  PROVE  LogShaped(Append(lines, line))
<1> DEFINE more == Append(lines, line)
<1>1. /\ Len(lines) \in Nat /\ Len(more) = Len(lines) + 1
      /\ \A p \in 1..Len(lines) : more[p] = lines[p]
      /\ more[Len(lines) + 1] = line
  BY AppendProperties
<1> HIDE DEF more
<1>2. ASSUME NEW p \in 1..Len(more)
      PROVE  p \in 1..(Len(lines) - 1) \/ (p = Len(lines) /\ p > 0) \/ p = Len(lines) + 1
  BY <1>1
<1>3. ASSUME NEW p \in 1..Len(lines)
      PROVE  p > 1 => p - 1 \in 1..Len(lines)
  BY <1>1
<1>4. ASSUME NEW p \in 1..Len(more), more[p].is = "text"
      PROVE  /\ more[p].title \in {"command", "reply"}
             /\ more[p].title = "reply" <=> p > 1 /\ IsResponse(more[p - 1])
  <2>1. CASE p \in 1..Len(lines)
    BY <1>1, <1>3, <1>4, <2>1 DEF LogShaped
  <2>2. CASE p = Len(lines) + 1
    <3>1. p > 1 <=> Len(lines) > 0
      BY <1>1, <2>2
    <3>2. Len(lines) > 0 => Len(lines) \in 1..Len(lines) /\ p - 1 = Len(lines)
      BY <1>1, <2>2
    <3> QED BY <1>1, <1>4, <2>2, <3>1, <3>2 DEF Follows
  <2>3. p \in 1..Len(lines) \/ p = Len(lines) + 1
    BY <1>1
  <2> QED BY <2>1, <2>2, <2>3
<1>5. ASSUME NEW p \in 1..Len(more), p < Len(more)
      PROVE  /\ IsResponse(more[p]) => more[p + 1].is # "open"
             /\ more[p].is = "text" /\ more[p].title = "reply" => more[p + 1].is = "close"
  <2>1. CASE p < Len(lines)
    <3>1. p \in 1..Len(lines) /\ p + 1 \in 1..Len(lines)
      BY <1>1, <2>1
    <3> QED BY <1>1, <2>1, <3>1 DEF LogShaped
  <2>2. CASE p = Len(lines)
    <3>1. Len(lines) > 0 /\ Len(lines) \in 1..Len(lines)
      BY <1>1, <2>2
    <3> QED BY <1>1, <2>2, <3>1 DEF Follows
  <2>3. p < Len(lines) \/ p = Len(lines)
    BY <1>1, <1>5
  <2> QED BY <2>1, <2>2, <2>3
<1>6. LogShaped(more)
  BY <1>4, <1>5 DEF LogShaped
<1> QED BY <1>6 DEF more

LEMMA ClearNext ==
  ASSUME NEW lines \in Seq(Line), NEW line \in Line, Clear(lines),
         ~IsResponse(line), line.is = "text" => line.title = "command"
  PROVE  Clear(Append(lines, line))
<1>1. Follows(lines, line)
  BY DEF Clear, Free, Follows
<1>2. LogShaped(Append(lines, line))
  BY <1>1, ShapedNext DEF Clear
<1>3. Len(Append(lines, line)) = Len(lines) + 1 /\ Append(lines, line)[Len(lines) + 1] = line
  BY AppendProperties
<1> QED BY <1>2, <1>3 DEF Clear, Free

\* Nothing but markers is put after the lines.
Marks(lines, more) ==
  /\ more \in Seq(Line) /\ Len(lines) <= Len(more)
  /\ \A p \in 1..Len(lines) : more[p] = lines[p] /\ Around(more, p) = Around(lines, p)
  /\ \A p \in (Len(lines) + 1)..Len(more) : more[p].is # "text"

LEMMA RunTyped ==
  ASSUME NEW run \in Run, run # NoRun
  PROVE  /\ run.kind \in Titles /\ run.krate \in Nat \ {0}
         /\ \A w : Outer(run, w) = <<w>>
BY CratesAssumption DEF Run, Outer

\* The wrapper is closed.
LEMMA WrapperCloses ==
  ASSUME NEW lines, NEW run \in Run, NEW w, Wrapped(lines, run, w), run # NoRun
  PROVE  /\ Sound(Append(lines, Close), <<>>) /\ Marks(lines, Append(lines, Close))
         /\ Clear(lines) => Clear(Append(lines, Close))
<1>1. lines \in Seq(Line)
  BY DEF Wrapped, Sound
<1>2. Sound(lines, Append(<<>>, w))
  BY RunTyped DEF Wrapped
<1>3. w \in Nat /\ <<>> \in Seq(Nat)
  BY <1>1 DEF Wrapped
<1>4. Sound(Append(lines, Close), <<>>)
  BY <1>2, <1>3, CloseTyped, SoundClose
<1>5. Longer(lines, Close, Append(lines, Close))
  BY <1>1, CloseTyped, NextLine
<1>6. Marks(lines, Append(lines, Close))
  <2>1. \A more : Longer(lines, Close, more) => Marks(lines, more)
    <3> SUFFICES ASSUME NEW more, Longer(lines, Close, more)
                 PROVE  Marks(lines, more)
      OBVIOUS
    <3>1. \A p \in (Len(lines) + 1)..Len(more) : p = Len(lines) + 1
      BY DEF Longer
    <3>2. Close.is # "text"
      BY CloseTyped
    <3> QED BY <3>1, <3>2 DEF Longer, Marks
  <2> QED BY <1>5, <2>1
<1>7. Clear(lines) => Clear(Append(lines, Close))
  BY <1>1, CloseTyped, ClearNext
<1> QED BY <1>4, <1>6, <1>7

\* A wrapper is opened.
LEMMA WrapperOpens ==
  ASSUME NEW lines, NEW run \in Run, Sound(lines, <<>>), run # NoRun,
         NEW line, line = WrapperLine(run)
  PROVE  /\ line \in Line
         /\ Wrapped(Append(lines, line), run, Len(lines) + 1)
         /\ Marks(lines, Append(lines, line))
         /\ Clear(lines) /\ run.kind # "response" => Clear(Append(lines, line))
<1>1. lines \in Seq(Line) /\ Len(lines) \in Nat
  BY DEF Sound
<1>2. /\ line \in Line /\ line.is = "open" /\ line.is # "text"
      /\ IsResponse(line) <=> run.kind = "response"
  <2>1. run.kind \in Titles /\ run.krate \in Nat /\ 0 \in Nat /\ TRUE \in BOOLEAN
    BY RunTyped
  <2>2. /\ WrapperLine(run) \in Line /\ WrapperLine(run).is = "open"
        /\ IsResponse(WrapperLine(run)) <=> run.kind = "response"
    BY <2>1 DEF WrapperLine, Open, Line, IsResponse
  <2> QED BY <2>2
<1>3. Sound(Append(lines, line), Append(<<>>, Len(lines) + 1))
  BY <1>2, SoundOpen
<1>4. Longer(lines, line, Append(lines, line))
  BY <1>1, <1>2, NextLine
<1>5. Marks(lines, Append(lines, line))
  <2>1. \A more : Longer(lines, line, more) => Marks(lines, more)
    <3> SUFFICES ASSUME NEW more, Longer(lines, line, more)
                 PROVE  Marks(lines, more)
      OBVIOUS
    <3>1. \A p \in (Len(lines) + 1)..Len(more) : p = Len(lines) + 1
      BY DEF Longer
    <3>2. line.is # "text" /\ more[Len(lines) + 1] = line
      BY <1>2 DEF Longer
    <3>3. \A p \in (Len(lines) + 1)..Len(more) : more[p].is # "text"
      BY <3>1, <3>2
    <3>4. Len(lines) <= Len(more)
      BY DEF Longer
    <3> QED BY <3>3, <3>4 DEF Longer, Marks
  <2> QED BY <1>4, <2>1
<1>6. Clear(lines) /\ run.kind # "response" => Clear(Append(lines, line))
  BY <1>1, <1>2, ClearNext
<1>7. Wrapped(Append(lines, line), run, Len(lines) + 1)
  <2>1. Sound(Append(lines, line), Outer(run, Len(lines) + 1))
    <3>1. Outer(run, Len(lines) + 1) = <<Len(lines) + 1>>
      BY RunTyped
    <3>2. <<Len(lines) + 1>> = Append(<<>>, Len(lines) + 1)
      OBVIOUS
    <3> QED BY <1>3, <3>1, <3>2
  <2>2. Append(lines, line)[Len(lines) + 1] = line /\ Len(Append(lines, line)) = Len(lines) + 1
    BY <1>4 DEF Longer
  <2>3. Len(lines) + 1 \in 0..(Len(lines) + 1) /\ Len(lines) + 1 \in 1..(Len(lines) + 1)
    BY <1>1
  <2> QED BY <2>1, <2>2, <2>3 DEF Wrapped, IsWrapper
<1> QED BY <1>2, <1>5, <1>6, <1>7

\* Where the run changes, the wrapper does.
LEMMA Rotated ==
  ASSUME wrapper \in Run, NEW w, Wrapped(body, wrapper, w), NEW run \in Run
  PROVE  \E v :
           /\ Wrapped(body \o Rotate(run), run, v) /\ Marks(body, body \o Rotate(run))
           /\ Clear(body) /\ run.kind # "response" => Clear(body \o Rotate(run))
           /\ wrapper = run => body \o Rotate(run) = body /\ v = w
           /\ wrapper # run /\ run # NoRun => v > Len(body)
<1> DEFINE line == WrapperLine(run)
           closed == Append(body, Close)
<1>0. line = WrapperLine(run) /\ closed = Append(body, Close)
  OBVIOUS
<1>1. body \in Seq(Line) /\ Len(body) \in Nat /\ Sound(body, Outer(wrapper, w))
  BY DEF Wrapped, Sound
<1>2. Close \in Line /\ closed \in Seq(Line) /\ Len(closed) = Len(body) + 1
  BY <1>1, CloseTyped, AppendProperties
<1>3. run # NoRun => line \in Line
  <2> SUFFICES ASSUME run # NoRun
               PROVE  line \in Line
    OBVIOUS
  <2>1. run.kind \in Titles /\ run.krate \in Nat
    BY RunTyped
  <2> QED BY <2>1 DEF WrapperLine, Open, Line
<1> HIDE DEF line, closed
<1>4. CASE wrapper = run
  <2>1. body \o Rotate(run) = body
    BY <1>1, <1>4, ConcatEmptySeq DEF Rotate
  <2>2. Marks(body, body)
    BY <1>1 DEF Marks
  <2> QED BY <1>4, <2>1, <2>2
<1>5. CASE wrapper # run /\ run = NoRun
  <2>1. Rotate(run) = <<Close>> \o <<>>
    BY <1>5 DEF Rotate
  <2>2. Rotate(run) = <<Close>>
    BY <2>1
  <2>3. body \o Rotate(run) = closed
    BY <1>1, <1>2, <1>0, <2>2, OneByOne
  <2>4. Wrapped(closed, run, 0)
    <3>1. Sound(closed, <<>>)
      BY <1>5, <1>0, WrapperCloses
    <3>2. 0 \in 0..Len(closed) /\ Outer(run, 0) = <<>>
      BY <1>1, <1>2, <1>5 DEF Outer
    <3> QED BY <1>5, <3>1, <3>2 DEF Wrapped, IsWrapper
  <2>5. Marks(body, closed) /\ (Clear(body) => Clear(closed))
    BY <1>5, <1>0, WrapperCloses
  <2> QED BY <1>5, <2>3, <2>4, <2>5
<1>6. CASE wrapper # run /\ run # NoRun /\ wrapper = NoRun
  <2>1. Rotate(run) = <<>> \o <<line>>
    BY <1>6, <1>0 DEF Rotate, WrapperLine
  <2>2. Rotate(run) = <<line>>
    BY <2>1
  <2>3. body \o Rotate(run) = Append(body, line)
    <3>1. body \o <<line>> = Append(body, line)
      BY <1>1, <1>3, <1>6, OneByOne
    <3> QED BY <2>2, <3>1
  <2>4. Sound(body, <<>>)
    BY <1>1, <1>6 DEF Outer
  <2>5. /\ Wrapped(Append(body, line), run, Len(body) + 1) /\ Marks(body, Append(body, line))
        /\ Clear(body) /\ run.kind # "response" => Clear(Append(body, line))
    BY <1>6, <1>0, <2>4, WrapperOpens
  <2>6. Len(body) + 1 > Len(body)
    BY <1>1
  <2> QED BY <1>6, <2>3, <2>5, <2>6
<1>7. CASE wrapper # run /\ run # NoRun /\ wrapper # NoRun
  <2>1. Rotate(run) = <<Close>> \o <<line>>
    BY <1>7, <1>0 DEF Rotate, WrapperLine
  <2>2. Rotate(run) = <<Close, line>>
    <3>1. <<Close>> \in Seq(Line) /\ <<Close, line>> = Append(<<Close>>, line)
      BY <1>2
    <3>2. <<Close>> \o <<line>> = Append(<<Close>>, line)
      BY <1>3, <1>7, <3>1, OneByOne
    <3> QED BY <2>1, <3>1, <3>2
  <2>3. body \o Rotate(run) = Append(closed, line)
    <3>1. body \o <<Close, line>> = Append(Append(body, Close), line)
      BY <1>1, <1>2, <1>3, <1>7, OneByOne
    <3> QED BY <1>0, <2>2, <3>1
  <2>4. Sound(closed, <<>>) /\ Marks(body, closed) /\ (Clear(body) => Clear(closed))
    BY <1>7, <1>0, WrapperCloses
  <2>5. /\ Wrapped(Append(closed, line), run, Len(closed) + 1) /\ Marks(closed, Append(closed, line))
        /\ Clear(closed) /\ run.kind # "response" => Clear(Append(closed, line))
    BY <1>7, <1>0, <2>4, WrapperOpens
  <2>6. Len(closed) + 1 > Len(body)
    BY <1>1, <1>2
  <2>7. Marks(body, Append(closed, line))
    <3>1. \A more : Marks(closed, more) => Marks(body, more)
      <4> SUFFICES ASSUME NEW more, Marks(closed, more)
                   PROVE  Marks(body, more)
        OBVIOUS
      <4>1. /\ more \in Seq(Line) /\ Len(closed) <= Len(more) /\ Len(more) \in Nat
            /\ Len(body) <= Len(more)
        BY <1>1, <1>2 DEF Marks
      <4>2. \A p \in 1..Len(body) : p \in 1..Len(closed)
        BY <1>1, <1>2
      <4>3. \A p \in (Len(body) + 1)..Len(more) :
              p \in (Len(closed) + 1)..Len(more) \/ p = Len(closed)
        BY <1>1, <1>2, <4>1
      <4>4. Len(closed) \in 1..Len(closed) /\ Len(closed) \in (Len(body) + 1)..Len(closed)
        BY <1>1, <1>2
      <4>5. more[Len(closed)].is # "text"
        BY <2>4, <4>4 DEF Marks
      <4> QED BY <2>4, <4>1, <4>2, <4>3, <4>5 DEF Marks
    <3> QED BY <2>5, <3>1
  <2> QED BY <1>7, <2>3, <2>4, <2>5, <2>6, <2>7
<1> QED BY <1>4, <1>5, <1>6, <1>7

\* A section and its first line of text.
Section(lines, o, t, more) ==
  /\ more \in Seq(Line) /\ Len(lines) \in Nat /\ Len(more) = Len(lines) + 2
  /\ \A p \in 1..Len(lines) : more[p] = lines[p] /\ Around(more, p) = Around(lines, p)
  /\ more[Len(lines) + 1] = o /\ more[Len(lines) + 2] = t

LEMMA SoundSection ==
  ASSUME NEW lines, NEW s, Sound(lines, s), NEW o \in Line, NEW t \in Line,
         o.is = "open", t.is = "text",
         t.krate # Local => o.auto \/ \E n \in 1..Len(s) : lines[s[n]].auto,
         t.krate = Local /\ (o.auto \/ \E n \in 1..Len(s) : lines[s[n]].auto)
           => t.n = 0 \/ t.title = "reply"
  PROVE  LET more == Append(Append(lines, o), t)
         IN  /\ Section(lines, o, t, more)
             /\ Sound(more, Append(s, Len(lines) + 1))
             /\ Around(more, Len(lines) + 2) = {s[n] : n \in 1..Len(s)} \union {Len(lines) + 1}
<1> DEFINE first == Append(lines, o)
           more  == Append(first, t)
           r     == Append(s, Len(lines) + 1)
<1>1. lines \in Seq(Line) /\ s \in Seq(Nat) /\ Opened(lines, s) /\ Len(lines) \in Nat
  BY DEF Sound
<1>2. Longer(lines, o, first)
  BY <1>1, NextLine
<1>3. Sound(first, r)
  BY SoundOpen
<1>4. /\ r \in Seq(Nat) /\ Len(s) \in Nat /\ Len(r) = Len(s) + 1
      /\ \A n \in 1..Len(s) : r[n] = s[n]
      /\ r[Len(s) + 1] = Len(lines) + 1
  BY <1>1, AppendProperties
<1>5. first \in Seq(Line)
  BY <1>2 DEF Longer
<1>6. Longer(first, t, more)
  BY <1>5, NextLine
<1> HIDE DEF first, more, r
<1>7. \A n \in 1..Len(s) : first[s[n]] = lines[s[n]]
  BY <1>1, <1>2 DEF Opened, Longer
<1>8. first[Len(lines) + 1] = o
  BY <1>2 DEF Longer
<1>9. 1..Len(r) = 1..Len(s) \union {Len(s) + 1}
  BY <1>4
<1>10. (\E n \in 1..Len(r) : first[r[n]].auto) <=> (o.auto \/ \E n \in 1..Len(s) : lines[s[n]].auto)
  <2>1. (\E n \in 1..Len(r) : first[r[n]].auto) <=>
          ((\E n \in 1..Len(s) : first[r[n]].auto) \/ first[r[Len(s) + 1]].auto)
    BY <1>9
  <2> QED BY <1>4, <1>7, <1>8, <2>1
<1>11. /\ t.krate # Local => \E n \in 1..Len(r) : first[r[n]].auto
       /\ t.krate = Local /\ (\E n \in 1..Len(r) : first[r[n]].auto) => t.n = 0 \/ t.title = "reply"
  BY <1>10
<1>12. Sound(more, r) /\ Around(more, Len(first) + 1) = {r[n] : n \in 1..Len(r)}
  BY <1>3, <1>11, SoundText DEF more
<1>13. {r[n] : n \in 1..Len(r)} = {s[n] : n \in 1..Len(s)} \union {Len(lines) + 1}
  BY <1>4, <1>9
<1>14. Len(first) = Len(lines) + 1 /\ Len(first) + 1 = Len(lines) + 2
  BY <1>1, <1>2 DEF Longer
<1>15. Section(lines, o, t, more)
  <2>1. \A p \in 1..Len(lines) : p \in 1..Len(first)
    BY <1>1, <1>14
  <2>2. Len(more) = Len(lines) + 2 /\ more[Len(lines) + 2] = t
    BY <1>1, <1>6, <1>14 DEF Longer
  <2>3. more[Len(lines) + 1] = first[Len(lines) + 1]
    <3>1. Len(lines) + 1 \in 1..Len(first)
      BY <1>1, <1>14
    <3> QED BY <1>6, <3>1 DEF Longer
  <2> QED BY <1>1, <1>2, <1>6, <1>8, <2>1, <2>2, <2>3 DEF Longer, Section
<1> QED BY <1>12, <1>13, <1>14, <1>15 DEF more, first, r

\* The sections of a run are folded, within its wrapper.
LEMMA WrapperHides ==
  ASSUME NEW lines \in Seq(Line), NEW run \in Run, NEW w \in 0..Len(lines),
         IsWrapper(lines, run, w)
  PROVE  /\ run # NoRun => /\ Outer(run, w) = <<w>> /\ w \in 1..Len(lines)
                           /\ lines[w].is = "open" /\ lines[w].auto
                           /\ run.krate # Local
         /\ run = NoRun => Outer(run, w) = <<>> /\ run.krate = Local
         /\ Outer(run, w) \in Seq(Nat)
<1>1. run # NoRun => run.krate # Local
  BY CratesAssumption DEF Run, Local
<1>2. run # NoRun => lines[w] = WrapperLine(run) /\ w \in 1..Len(lines) /\ w \in Nat
  <2>1. Len(lines) \in Nat
    OBVIOUS
  <2> QED BY <2>1 DEF IsWrapper
<1>3. run # NoRun => lines[w].is = "open" /\ lines[w].auto
  BY <1>2 DEF WrapperLine, Open
<1>4. run # NoRun => Outer(run, w) = <<w>> /\ Outer(run, w) \in Seq(Nat)
  BY <1>2 DEF Outer
<1>5. run = NoRun => Outer(run, w) = <<>> /\ Outer(run, w) \in Seq(Nat) /\ run.krate = Local
  BY DEF Outer, NoRun
<1> QED BY <1>1, <1>2, <1>3, <1>4, <1>5

LEMMA RunOfTyped ==
  ASSUME NEW kind \in Titles, NEW krate \in Crates \union {Local}
  PROVE  /\ RunOf(kind, krate) \in Run
         /\ krate = Local => RunOf(kind, krate) = NoRun
         /\ krate # Local => /\ RunOf(kind, krate) # NoRun
                             /\ RunOf(kind, krate).kind = kind /\ RunOf(kind, krate).krate = krate
         /\ krate \in Nat
<1>1. krate \in Nat
  BY CratesAssumption DEF Local
<1>2. krate # Local => [kind |-> kind, krate |-> krate] \in Run /\ [kind |-> kind, krate |-> krate] # NoRun
  BY DEF Run, NoRun
<1>3. NoRun \in Run
  BY DEF Run
<1> QED BY <1>1, <1>2, <1>3 DEF RunOf

LEMMA OpenSection ==
  ASSUME NEW lines, NEW run \in Run, NEW v, Wrapped(lines, run, v), NEW o \in Line, NEW t \in Line,
         o.is = "open", t.is = "text", t.krate = run.krate,
         run = NoRun => ~o.auto \/ t.n = 0 \/ t.title = "reply"
  PROVE  LET more == Append(Append(lines, o), t)
         IN  /\ Section(lines, o, t, more) /\ v \in 0..Len(more) /\ IsWrapper(more, run, v)
             /\ Sound(more, Append(Outer(run, v), Len(lines) + 1))
             /\ run = NoRun => Around(more, Len(lines) + 2) = {Len(lines) + 1}
             /\ run # NoRun => Around(more, Len(lines) + 2) = {v, Len(lines) + 1}
<1> DEFINE more == Append(Append(lines, o), t)
           s    == Outer(run, v)
<1>1. Sound(lines, s) /\ lines \in Seq(Line) /\ v \in 0..Len(lines) /\ IsWrapper(lines, run, v)
  BY DEF Wrapped, Sound
<1>2. /\ run # NoRun => s = <<v>> /\ v \in 1..Len(lines) /\ lines[v].auto /\ run.krate # Local
      /\ run = NoRun => s = <<>> /\ run.krate = Local
  BY <1>1, WrapperHides
<1> HIDE DEF s
<1>3. (\E n \in 1..Len(s) : lines[s[n]].auto) <=> run # NoRun
  <2>1. CASE run = NoRun
    BY <1>2, <2>1
  <2>2. CASE run # NoRun
    <3>1. Len(s) = 1 /\ s[1] = v /\ 1 \in 1..Len(s)
      <4>1. s = <<v>>
        BY <1>2, <2>2
      <4> QED BY <4>1
    <3> QED BY <1>2, <2>2, <3>1
  <2> QED BY <2>1, <2>2
<1>4. /\ t.krate # Local => o.auto \/ \E n \in 1..Len(s) : lines[s[n]].auto
      /\ t.krate = Local /\ (o.auto \/ \E n \in 1..Len(s) : lines[s[n]].auto)
           => t.n = 0 \/ t.title = "reply"
  BY <1>2, <1>3
<1>5. /\ Section(lines, o, t, more) /\ Sound(more, Append(s, Len(lines) + 1))
      /\ Around(more, Len(lines) + 2) = {s[n] : n \in 1..Len(s)} \union {Len(lines) + 1}
  BY <1>1, <1>4, SoundSection
<1> HIDE DEF more
<1>6. v \in 0..Len(more) /\ IsWrapper(more, run, v)
  <2>1. /\ Len(lines) \in Nat /\ Len(more) = Len(lines) + 2
        /\ \A p \in 1..Len(lines) : more[p] = lines[p]
    BY <1>5 DEF Section
  <2>2. \A p \in 1..Len(lines) : p \in 1..Len(more)
    BY <2>1
  <2>3. v \in 0..Len(more)
    BY <1>1, <2>1
  <2>4. IsWrapper(more, run, v)
    BY <1>1, <2>1, <2>2 DEF IsWrapper
  <2> QED BY <2>3, <2>4
<1>7. /\ run = NoRun => Around(more, Len(lines) + 2) = {Len(lines) + 1}
      /\ run # NoRun => Around(more, Len(lines) + 2) = {v, Len(lines) + 1}
  <2>1. CASE run = NoRun
    <3>1. {s[n] : n \in 1..Len(s)} = {}
      BY <1>2, <2>1
    <3> QED BY <1>5, <2>1, <3>1
  <2>2. CASE run # NoRun
    <3>1. {s[n] : n \in 1..Len(s)} = {v}
      <4>1. Len(s) = 1 /\ s[1] = v
        <5>1. s = <<v>>
          BY <1>2, <2>2
        <5> QED BY <5>1
      <4>2. 1..1 = {1}
        OBVIOUS
      <4> QED BY <4>1, <4>2
    <3> QED BY <1>5, <2>2, <3>1
  <2> QED BY <2>1, <2>2
<1> QED BY <1>5, <1>6, <1>7 DEF more, s

\* Its text is done.
LEMMA CloseSectionOf ==
  ASSUME NEW lines, NEW run \in Run, NEW v, NEW o \in Nat, v \in 0..Len(lines),
         IsWrapper(lines, run, v), Sound(lines, Append(Outer(run, v), o))
  PROVE  Wrapped(Append(lines, Close), run, v) /\ Longer(lines, Close, Append(lines, Close))
<1> DEFINE more == Append(lines, Close)
<1>1. lines \in Seq(Line) /\ Len(lines) \in Nat
  BY DEF Sound
<1>2. Outer(run, v) \in Seq(Nat)
  BY <1>1, WrapperHides
<1>3. Sound(more, Outer(run, v))
  BY <1>2, CloseTyped, SoundClose
<1>4. Longer(lines, Close, more)
  BY <1>1, CloseTyped, NextLine
<1> HIDE DEF more
<1>5. v \in 0..Len(more) /\ IsWrapper(more, run, v)
  <2>1. Len(more) = Len(lines) + 1 /\ \A p \in 1..Len(lines) : more[p] = lines[p]
    BY <1>4 DEF Longer
  <2>2. \A p \in 1..Len(lines) : p \in 1..Len(more)
    BY <1>1, <2>1
  <2>3. v \in 0..Len(more)
    BY <1>1, <2>1
  <2>4. IsWrapper(more, run, v)
    BY <1>1, <2>1, <2>2 DEF IsWrapper
  <2> QED BY <2>3, <2>4
<1> QED BY <1>3, <1>4, <1>5 DEF Wrapped, more

----------------------------------------------------------------------------
(* The actions of run_queries                                              *)

LEMMA FeedDeclsStep ==
  ASSUME WriteInv, FeedDecls
  PROVE  WriteInv'
<1> DEFINE new  == body \o Rotate(NoRun)
           o    == Open(TRUE, "AIR prelude", 0, Local)
           t    == Text("command", 0, Local)
           base == Append(new, t)
           more == Append(Append(base, o), t)
           all  == Append(more, Close)
<1>1. /\ source = "log" /\ ~busy /\ busy' = TRUE /\ source' = source /\ module' = module
      /\ items' = items /\ added' = added /\ op' = op /\ count' = count /\ replies' = replies
      /\ sent' = sent /\ wrapper' = NoRun /\ body' = new \o <<t, o, t, Close>>
  BY DEF FeedDecls, WriteIn
<1>2. op = "none" /\ WriteTypes /\ Clear(body) /\ NoRun \in Run /\ wrapper \in Run
  BY <1>1 DEF WriteInv, WritePhases, WriteTypes, LogInv, Run
<1>3. PICK w : Wrapped(body, wrapper, w)
  BY <1>2 DEF WriteInv, BodyOpen
<1>4. PICK u : Wrapped(new, NoRun, u) /\ Clear(new)
  <2>1. NoRun.kind # "response"
    BY DEF NoRun
  <2> QED BY <1>2, <1>3, <2>1, Rotated
<1>5. new \in Seq(Line) /\ Len(new) \in Nat
  BY <1>4 DEF Wrapped, Sound
<1>6. /\ o \in Line /\ o.is = "open" /\ ~IsResponse(o)
      /\ t \in Line /\ t.is = "text" /\ t.krate = Local /\ t.n = 0 /\ t.title = "command"
      /\ ~IsResponse(t)
  BY TitlesAssumption DEF Open, Text, Line, IsResponse, Local
<1> HIDE DEF new, o, t
<1>7. NoRun.krate = Local
  BY DEF NoRun
<1>8. base \in Seq(Line) /\ Len(base) \in Nat /\ Wrapped(base, NoRun, 0) /\ Clear(base)
  <2>1. Sound(new, <<>>)
    BY <1>4 DEF Wrapped, Outer
  <2>2. Sound(base, <<>>)
    BY <1>6, <2>1, SoundText
  <2>3. base \in Seq(Line)
    BY <1>5, <1>6, AppendProperties
  <2>4. Clear(base)
    BY <1>4, <1>5, <1>6, ClearNext
  <2> HIDE DEF base
  <2>5. Len(base) \in Nat
    BY <2>3
  <2>6. Wrapped(base, NoRun, 0)
    BY <2>2, <2>5 DEF Wrapped, Outer, IsWrapper
  <2> QED BY <2>3, <2>4, <2>5, <2>6
<1>9. body' = all
  BY <1>1, <1>5, <1>6, CloseTyped, FourByOne
<1> HIDE DEF base
<1>10. /\ Section(base, o, t, more) /\ 0 \in 0..Len(more) /\ IsWrapper(more, NoRun, 0)
       /\ Sound(more, Append(Outer(NoRun, 0), Len(base) + 1))
  BY <1>2, <1>6, <1>7, <1>8, OpenSection
<1>11. Wrapped(all, NoRun, 0)
  <2>1. Len(base) + 1 \in Nat
    BY <1>8
  <2> HIDE DEF more
  <2>2. Wrapped(Append(more, Close), NoRun, 0)
    BY <1>2, <1>10, <2>1, CloseSectionOf
  <2> QED BY <2>2
<1>12. Clear(all)
  <2>1. Append(base, o) \in Seq(Line) /\ more \in Seq(Line)
    BY <1>6, <1>8, AppendProperties
  <2>2. Clear(Append(base, o))
    BY <1>6, <1>8, ClearNext
  <2>3. Clear(more)
    BY <1>6, <2>1, <2>2, ClearNext
  <2> QED BY <2>1, <2>3, CloseTyped, ClearNext
<1> HIDE DEF all
<1>13. WriteTypes'
  <2>1. all \in Seq(Line)
    BY <1>11 DEF Wrapped, Sound
  <2> QED BY <1>1, <1>2, <1>9, <2>1 DEF WriteTypes
<1>14. WritePhases'
  BY <1>1, <1>2 DEF WriteInv, WritePhases
<1>15. BodyOpen'
  <2>1. op' = "none" /\ 0 \in 0..Len(all)
    BY <1>1, <1>2, <1>11 DEF Wrapped
  <2> QED BY <1>1, <1>9, <1>11, <2>1 DEF BodyOpen
<1>16. LogInv' /\ WalkInv'
  BY <1>1, <1>9, <1>12 DEF LogInv, WalkInv
<1> QED BY <1>13, <1>14, <1>15, <1>16 DEF WriteInv

LEMMA OpenOpStep ==
  ASSUME WriteInv, NEW isContext \in BOOLEAN, NEW krate \in Crates \union {Local},
         OpenOp(isContext, krate)
  PROVE  WriteInv'
<1> DEFINE run  == RunOf("crate", krate)
           new  == body \o Rotate(run)
           o    == Open(OpFolded(isContext, krate), "op", count', krate)
           t    == Text("command", count', krate)
           more == Append(Append(new, o), t)
<1>1. /\ source = "log" /\ busy /\ op = "none" /\ op' \in {"context", "query"}
      /\ busy' = busy /\ source' = source /\ module' = module
      /\ items' = items /\ added' = added /\ count' = count + 1 /\ replies' = replies
      /\ sent' = sent /\ wrapper' = run /\ body' = new \o <<o, t>>
  BY DEF OpenOp, WriteIn
<1>2. /\ WriteTypes /\ Clear(body) /\ run \in Run /\ wrapper \in Run /\ count' \in Nat /\ krate \in Nat
      /\ run.kind # "response" /\ run.krate = krate /\ (run = NoRun => krate = Local)
  <2>1. "crate" \in Titles
    BY TitlesAssumption
  <2>2. /\ run \in Run /\ krate \in Nat
        /\ krate = Local => run = NoRun
        /\ krate # Local => run # NoRun /\ run.kind = "crate" /\ run.krate = krate
    BY <2>1, RunOfTyped
  <2>3. NoRun.kind = "none" /\ NoRun.krate = Local
    BY DEF NoRun
  <2>4. WriteTypes /\ Clear(body) /\ wrapper \in Run /\ count' \in Nat
    BY <1>1 DEF WriteInv, WriteTypes, LogInv
  <2> QED BY <2>2, <2>3, <2>4
<1>3. PICK w : Wrapped(body, wrapper, w)
  BY <1>1 DEF WriteInv, BodyOpen
<1> HIDE DEF run
<1>4. PICK v : Wrapped(new, run, v) /\ Clear(new)
  BY <1>2, <1>3, Rotated
<1>5. new \in Seq(Line) /\ Len(new) \in Nat
  BY <1>4 DEF Wrapped, Sound
<1>6. /\ o \in Line /\ o.is = "open" /\ ~IsResponse(o) /\ (run = NoRun => ~o.auto)
      /\ t \in Line /\ t.is = "text" /\ t.krate = run.krate /\ t.title = "command"
      /\ ~IsResponse(t)
  <2>1. "op" \in Titles /\ "command" \in Titles
    BY TitlesAssumption
  <2>2. OpFolded(isContext, krate) \in BOOLEAN /\ (krate = Local => ~OpFolded(isContext, krate))
    BY DEF OpFolded
  <2>3. /\ o \in Line /\ o.is = "open" /\ o.auto = OpFolded(isContext, krate)
        /\ ~IsResponse(o)
    BY <1>2, <2>1, <2>2 DEF Open, Line, IsResponse
  <2>4. /\ t \in Line /\ t.is = "text" /\ t.title = "command" /\ t.krate = krate
        /\ ~IsResponse(t)
    BY <1>2, <2>1, TextTyped
  <2> QED BY <1>2, <2>2, <2>3, <2>4
<1> HIDE DEF new, o, t
<1>7. /\ Section(new, o, t, more) /\ v \in 0..Len(more) /\ IsWrapper(more, run, v)
      /\ Sound(more, Append(Outer(run, v), Len(new) + 1))
  BY <1>2, <1>4, <1>6, OpenSection
<1>8. body' = more
  BY <1>1, <1>5, <1>6, OneByOne
<1>9. Clear(more)
  <2>1. Append(new, o) \in Seq(Line) /\ more \in Seq(Line)
    BY <1>5, <1>6, AppendProperties
  <2>2. Clear(Append(new, o))
    BY <1>4, <1>5, <1>6, ClearNext
  <2> QED BY <1>6, <2>1, <2>2, ClearNext
<1> HIDE DEF more
<1>10. WriteTypes'
  <2>1. more \in Seq(Line)
    BY <1>7 DEF Section
  <2> QED BY <1>1, <1>2, <1>8, <2>1 DEF WriteTypes
<1>11. WritePhases'
  BY <1>1, <1>2 DEF WriteInv, WritePhases
<1>12. BodyOpen'
  <2>1. Len(new) + 1 \in 1..Len(more) /\ more[Len(new) + 1] = o
    BY <1>7 DEF Section
  <2>2. InSection(more, run, v, Len(new) + 1)
    BY <1>6, <1>7, <2>1 DEF InSection
  <2>3. op' # "none"
    BY <1>1
  <2> QED BY <1>1, <1>7, <1>8, <2>1, <2>2, <2>3 DEF BodyOpen
<1>13. LogInv' /\ WalkInv'
  BY <1>1, <1>8, <1>9 DEF LogInv, WalkInv
<1> QED BY <1>10, <1>11, <1>12, <1>13 DEF WriteInv

LEMMA CloseOpStep ==
  ASSUME WriteInv, CloseOp
  PROVE  WriteInv'
<1>1. /\ op # "none" /\ op' = "none" /\ body' = Append(body, Close)
      /\ busy' = busy /\ source' = source /\ module' = module
      /\ items' = items /\ added' = added /\ count' = count /\ replies' = replies
      /\ sent' = sent /\ wrapper' = wrapper
  BY DEF CloseOp
<1>2. /\ WriteTypes /\ wrapper \in Run /\ source = "log" /\ busy /\ Clear(body)
      /\ body \in Seq(Line)
  BY <1>1 DEF WriteInv, WriteTypes, WritePhases, LogInv
<1>3. PICK w, o : InSection(body, wrapper, w, o) /\ o \in Nat
  BY <1>1, <1>2 DEF WriteInv, BodyOpen
<1>4. Wrapped(body', wrapper, w)
  BY <1>1, <1>2, <1>3, CloseSectionOf DEF InSection
<1>5. Clear(body')
  BY <1>1, <1>2, CloseTyped, ClearNext
<1>6. WriteTypes'
  <2>1. body' \in Seq(Line)
    BY <1>4 DEF Wrapped, Sound
  <2> QED BY <1>1, <1>2, <2>1 DEF WriteTypes
<1>7. WritePhases'
  BY <1>1, <1>2 DEF WriteInv, WritePhases
<1>8. BodyOpen'
  BY <1>1, <1>4 DEF BodyOpen, Wrapped
<1>9. LogInv' /\ WalkInv'
  BY <1>1, <1>2, <1>5 DEF LogInv, WalkInv
<1> QED BY <1>6, <1>7, <1>8, <1>9 DEF WriteInv

\* What is there stays.
Extends(lines, more) ==
  /\ Len(lines) \in Nat /\ Len(more) \in Nat /\ Len(lines) <= Len(more)
  /\ \A p \in 1..Len(lines) : more[p] = lines[p] /\ Around(more, p) = Around(lines, p)

LEMMA ExtendsOnce ==
  ASSUME NEW lines \in Seq(Line), NEW line \in Line
  PROVE  Extends(lines, Append(lines, line)) /\ Append(lines, line) \in Seq(Line)
<1>1. Longer(lines, line, Append(lines, line))
  BY NextLine
<1>2. \A more : Longer(lines, line, more) => Extends(lines, more) /\ more \in Seq(Line)
  BY DEF Longer, Extends
<1> QED BY <1>1, <1>2

LEMMA ExtendsTwice ==
  ASSUME NEW lines, NEW more, NEW most, Extends(lines, more), Extends(more, most)
  PROVE  Extends(lines, most)
<1>1. \A p \in 1..Len(lines) : p \in 1..Len(more)
  BY DEF Extends
<1> QED BY <1>1 DEF Extends

\* The section of a response, in the op's.
LEMMA ResponseSection ==
  ASSUME NEW lines, NEW s, Sound(lines, s), Clear(lines), NEW reply \in BOOLEAN,
         NEW o \in Line, o.is = "open", o.auto, IsResponse(o),
         NEW r \in Line, r.is = "text", r.title = "reply"
  PROVE  LET first == Append(lines, o)
             more  == Append(IF reply THEN Append(first, r) ELSE first, Close)
         IN  Sound(more, s) /\ Clear(more) /\ Extends(lines, more)
<1> DEFINE first  == Append(lines, o)
           second == IF reply THEN Append(first, r) ELSE first
           more   == Append(second, Close)
           t      == Append(s, Len(lines) + 1)
<1>1. lines \in Seq(Line) /\ Len(lines) \in Nat /\ s \in Seq(Nat)
  BY DEF Sound
<1>2. /\ first \in Seq(Line) /\ Extends(lines, first) /\ Len(first) = Len(lines) + 1
      /\ first[Len(first)] = o /\ Len(first) > 0
  BY <1>1, ExtendsOnce, AppendProperties
<1>3. Sound(first, t)
  BY SoundOpen
<1>4. LogShaped(first)
  <2>1. Follows(lines, o)
    BY DEF Clear, Free, Follows
  <2> QED BY <1>1, <2>1, ShapedNext DEF Clear
<1>5. /\ Len(t) = Len(s) + 1 /\ Len(s) \in Nat /\ t[Len(s) + 1] = Len(lines) + 1
      /\ Len(s) + 1 \in 1..Len(t)
  BY <1>1, AppendProperties
<1> HIDE DEF t
<1>6. first[t[Len(s) + 1]] = o
  BY <1>2, <1>5
<1> HIDE DEF first
<1>7. ASSUME reply
      PROVE  /\ Sound(second, t) /\ second \in Seq(Line) /\ LogShaped(second)
             /\ Extends(lines, second) /\ Follows(second, Close)
  <2>1. second = Append(first, r)
    BY <1>7
  <2>2. Sound(second, t)
    <3>1. \E n \in 1..Len(t) : first[t[n]].auto
      BY <1>5, <1>6
    <3> QED BY <1>3, <2>1, <3>1, SoundText
  <2>3. second \in Seq(Line) /\ Extends(first, second)
    BY <1>2, <2>1, ExtendsOnce
  <2>4. LogShaped(second) /\ Len(second) = Len(first) + 1 /\ second[Len(second)] = r
    <3>1. Follows(first, r)
      BY <1>2 DEF Follows, IsResponse
    <3> QED BY <1>2, <1>4, <2>1, <3>1, ShapedNext, AppendProperties
  <2>5. ~IsResponse(r)
    BY DEF IsResponse
  <2> HIDE DEF second
  <2>6. Follows(second, Close)
    BY <1>2, <2>4, CloseTyped DEF Follows, IsResponse
  <2> QED BY <2>2, <2>3, <2>4, <2>6, <1>2, ExtendsTwice
<1>8. ASSUME ~reply
      PROVE  /\ Sound(second, t) /\ second \in Seq(Line) /\ LogShaped(second)
             /\ Extends(lines, second) /\ Follows(second, Close)
  <2>1. second = first
    BY <1>8
  <2>2. Follows(second, Close)
    BY <1>2, <2>1, CloseTyped DEF Follows, IsResponse
  <2> QED BY <1>2, <1>3, <1>4, <2>1, <2>2
<1>9. /\ Sound(second, t) /\ second \in Seq(Line) /\ LogShaped(second) /\ Extends(lines, second)
      /\ Follows(second, Close)
  BY <1>7, <1>8
<1> HIDE DEF second
<1>10. Sound(more, s)
  <2>1. Len(lines) + 1 \in Nat
    BY <1>1
  <2> QED BY <1>1, <1>9, <2>1, CloseTyped, SoundClose DEF t
<1>11. Clear(more)
  <2>1. LogShaped(more)
    BY <1>9, CloseTyped, ShapedNext
  <2>2. Len(more) = Len(second) + 1 /\ more[Len(second) + 1] = Close
    BY <1>9, CloseTyped, AppendProperties
  <2> QED BY <2>1, <2>2, CloseTyped DEF Clear, Free
<1>12. Extends(lines, more)
  BY <1>9, CloseTyped, ExtendsOnce, ExtendsTwice
<1> QED BY <1>10, <1>11, <1>12 DEF more, second, first

LEMMA RespondStep ==
  ASSUME WriteInv, NEW reply \in BOOLEAN, Respond(reply)
  PROVE  WriteInv'
<1> DEFINE o     == Open(TRUE, "response", count, wrapper.krate)
           r     == Text("reply", count, wrapper.krate)
           t     == Text("command", count, wrapper.krate)
           more  == Append(IF reply THEN Append(Append(body, o), r) ELSE Append(body, o), Close)
           all   == Append(more, t)
<1>1. /\ op = "query" /\ op' = op /\ replies' = replies + 1
      /\ busy' = busy /\ source' = source /\ module' = module
      /\ items' = items /\ added' = added /\ count' = count
      /\ sent' = sent /\ wrapper' = wrapper
      /\ body' = body \o <<o>> \o (IF reply THEN <<r>> ELSE <<>>) \o <<Close, t>>
  BY DEF Respond
<1>2. /\ WriteTypes /\ wrapper \in Run /\ source = "log" /\ busy /\ Clear(body)
      /\ body \in Seq(Line) /\ Len(body) \in Nat
  BY <1>1 DEF WriteInv, WriteTypes, WritePhases, LogInv
<1>3. PICK w \in 0..Len(body), x \in 1..Len(body) : InSection(body, wrapper, w, x)
  BY <1>1 DEF WriteInv, BodyOpen
<1>4. count \in Nat /\ wrapper.krate \in Nat
  <2>1. wrapper = NoRun => wrapper.krate \in Nat
    BY DEF NoRun, Local
  <2> QED BY <1>2, <2>1, RunTyped DEF WriteTypes
<1>5. /\ o \in Line /\ o.is = "open" /\ o.auto /\ IsResponse(o)
      /\ r \in Line /\ r.is = "text" /\ r.title = "reply"
      /\ t \in Line /\ t.is = "text" /\ t.title = "command" /\ t.krate = wrapper.krate
      /\ ~IsResponse(t)
  <2>1. "response" \in Titles /\ "reply" \in Titles /\ "command" \in Titles
    BY TitlesAssumption
  <2>2. o \in Line /\ o.is = "open" /\ o.auto /\ IsResponse(o)
    BY <1>4, <2>1 DEF Open, Line, IsResponse
  <2>3. r \in Line /\ r.is = "text" /\ r.title = "reply"
    BY <1>4, <2>1, TextTyped
  <2>4. /\ t \in Line /\ t.is = "text" /\ t.title = "command" /\ t.krate = wrapper.krate
        /\ ~IsResponse(t)
    BY <1>4, <2>1, TextTyped
  <2> QED BY <2>2, <2>3, <2>4
<1> HIDE DEF o, r, t
<1> DEFINE s == Append(Outer(wrapper, w), x)
<1>6. /\ Sound(body, s) /\ IsWrapper(body, wrapper, w) /\ (body[x].auto => wrapper # NoRun)
  BY <1>3 DEF InSection
<1>7. Sound(more, s) /\ Clear(more) /\ Extends(body, more)
  BY <1>2, <1>5, <1>6, ResponseSection
<1>8. body' = all
  <2>1. Append(body, o) \in Seq(Line) /\ Append(Append(body, o), r) \in Seq(Line)
    BY <1>2, <1>5, AppendProperties
  <2>2. body \o <<o>> = Append(body, o)
    BY <1>2, <1>5, OneByOne
  <2>3. CASE reply
    <3>1. Append(body, o) \o <<r>> = Append(Append(body, o), r)
      BY <1>5, <2>1, OneByOne
    <3>2. Append(Append(body, o), r) \o <<Close, t>>
            = Append(Append(Append(Append(body, o), r), Close), t)
      BY <1>5, <2>1, CloseTyped, OneByOne
    <3> QED BY <1>1, <2>2, <2>3, <3>1, <3>2
  <2>4. CASE ~reply
    <3>1. Append(body, o) \o <<>> = Append(body, o)
      BY <1>5, <2>1, OneByOne
    <3>2. Append(body, o) \o <<Close, t>> = Append(Append(Append(body, o), Close), t)
      BY <1>5, <2>1, CloseTyped, OneByOne
    <3> QED BY <1>1, <2>2, <2>4, <3>1, <3>2
  <2> QED BY <2>3, <2>4
<1> HIDE DEF more
<1>9. /\ wrapper # NoRun => /\ Outer(wrapper, w) = <<w>> /\ w \in 1..Len(body) /\ body[w].auto
                            /\ wrapper.krate # Local
      /\ wrapper = NoRun => Outer(wrapper, w) = <<>> /\ wrapper.krate = Local
      /\ Outer(wrapper, w) \in Seq(Nat)
  BY <1>2, <1>6, WrapperHides
<1>10. (\E n \in 1..Len(s) : more[s[n]].auto) <=> wrapper # NoRun
  <2>1. more[x] = body[x] /\ x \in Nat
    BY <1>7 DEF Extends
  <2>2. CASE wrapper = NoRun
    <3>1. Len(s) = 1 /\ s[1] = x
      <4>1. s = <<x>>
        BY <1>9, <2>2
      <4> QED BY <4>1
    <3>2. \A n \in 1..Len(s) : s[n] = x
      BY <3>1
    <3> QED BY <1>6, <2>1, <2>2, <3>2
  <2>3. CASE wrapper # NoRun
    <3>1. Outer(wrapper, w) = <<w>>
      BY <1>9, <2>3
    <3>2. Len(<<w>>) = 1 /\ <<w>>[1] = w /\ 1 \in 1..1 /\ 1 \in 1..2
      OBVIOUS
    <3>3. s[1] = w /\ 1 \in 1..Len(s)
      BY <1>9, <2>1, <3>1, <3>2, AppendProperties
    <3>4. more[w] = body[w] /\ body[w].auto
      BY <1>7, <1>9, <2>3 DEF Extends
    <3> QED BY <2>3, <3>3, <3>4
  <2> QED BY <2>2, <2>3
<1> HIDE DEF s
<1>11. Sound(all, s)
  <2>1. /\ t.krate # Local => \E n \in 1..Len(s) : more[s[n]].auto
        /\ t.krate = Local => ~\E n \in 1..Len(s) : more[s[n]].auto
    BY <1>5, <1>9, <1>10
  <2> QED BY <1>5, <1>7, <2>1, SoundText
<1>12. more \in Seq(Line)
  BY <1>7 DEF Sound
<1>13. Extends(body, all) /\ all \in Seq(Line)
  BY <1>5, <1>7, <1>12, ExtendsOnce, ExtendsTwice
<1>14. Clear(all)
  BY <1>5, <1>7, <1>12, ClearNext
<1> HIDE DEF all
<1>15. InSection(all, wrapper, w, x) /\ w \in 0..Len(all) /\ x \in 1..Len(all)
  <2>1. w \in 0..Len(all) /\ x \in 1..Len(all)
    BY <1>13 DEF Extends
  <2>2. IsWrapper(all, wrapper, w)
    <3>1. \A p \in 1..Len(body) : all[p] = body[p] /\ p \in 1..Len(all)
      BY <1>13 DEF Extends
    <3> QED BY <1>6, <3>1 DEF IsWrapper
  <2>3. all[x] = body[x]
    BY <1>13 DEF Extends
  <2> QED BY <1>6, <1>11, <2>1, <2>2, <2>3 DEF InSection, s
<1>16. WriteTypes'
  <2>1. replies' \in Nat
    BY <1>1, <1>2 DEF WriteTypes
  <2> QED BY <1>1, <1>2, <1>8, <1>13, <2>1 DEF WriteTypes
<1>17. WritePhases'
  BY <1>1, <1>2 DEF WriteInv, WritePhases
<1>18. BodyOpen'
  BY <1>1, <1>8, <1>15 DEF BodyOpen
<1>19. LogInv' /\ WalkInv'
  BY <1>1, <1>2, <1>8, <1>14 DEF LogInv, WalkInv
<1> QED BY <1>16, <1>17, <1>18, <1>19 DEF WriteInv

----------------------------------------------------------------------------
(* The actions of WalkBuilder                                              *)

LEMMA ItemTyped ==
  ASSUME NEW item \in Item
  PROVE  /\ item.name \in Nat /\ item.walk \in Nat /\ item.kind \in Titles
         /\ item.krate \in Crates \union {Local} /\ item.krate \in Nat
<1>1. /\ item.name \in Nat /\ item.walk \in Nat /\ item.kind \in ItemKinds
      /\ item.krate \in Crates \union {Local}
  BY DEF Item
<1>2. Crates \union {Local} \subseteq Nat
  BY CratesAssumption DEF Local
<1>3. ItemKinds \subseteq Titles
  BY TitlesAssumption
<1> QED BY <1>1, <1>2, <1>3

LEMMA MinOfTwo ==
  ASSUME NEW a \in Nat, NEW b \in Nat, a <= b
  PROVE  Min({a, b}) = a
<1>1. a \in {a, b} /\ \A y \in {a, b} : a =< y
  OBVIOUS
<1>2. \A x \in {a, b} : (\A y \in {a, b} : x =< y) => x = a
  OBVIOUS
<1> QED BY <1>1, <1>2 DEF Min

\* What the item's shape says of the outermost section.
LEMMA OutermostOf ==
  ASSUME NEW p \in Nat, ItemShaped(p)
  PROVE  /\ Outermost(p) \in 1..(p - 1)
         /\ body[Outermost(p)].title = ItemAt(p).kind
         /\ body[Outermost(p)].krate = ItemAt(p).krate
         /\ ItemAt(p).krate = Local => Around(body, p) = {p - 1} /\ Outermost(p) = p - 1
         /\ ItemAt(p).krate # Local =>
              /\ Around(body, p) = {Outermost(p), p - 1} /\ Outermost(p) # p - 1
              /\ body[Outermost(p)] = WrapperLine(ItemAt(p))
<1>1. p > 1 /\ body[p - 1] = ItemLine(ItemAt(p)) /\ p - 1 \in Nat
  BY DEF ItemShaped
<1>2. CASE ItemAt(p).krate = Local
  <2>1. Around(body, p) = {p - 1}
    BY <1>2 DEF ItemShaped
  <2>2. {p - 1} = {p - 1, p - 1}
    OBVIOUS
  <2>3. Outermost(p) = p - 1
    BY <1>1, <2>1, <2>2, MinOfTwo DEF Outermost
  <2>4. ItemLine(ItemAt(p)).title = ItemAt(p).kind /\ ItemLine(ItemAt(p)).krate = ItemAt(p).krate
    BY DEF ItemLine, Open
  <2>5. p - 1 \in 1..(p - 1)
    BY <1>1
  <2> QED BY <1>1, <1>2, <2>1, <2>3, <2>4, <2>5
<1>3. CASE ItemAt(p).krate # Local
  <2>1. PICK w \in 1..(p - 2) : Around(body, p) = {w, p - 1} /\ body[w] = WrapperLine(ItemAt(p))
    BY <1>3 DEF ItemShaped
  <2>2. w \in Nat /\ w <= p - 1 /\ w # p - 1 /\ w \in 1..(p - 1)
    BY <1>1
  <2>3. Outermost(p) = w
    BY <1>1, <2>1, <2>2, MinOfTwo DEF Outermost
  <2>4. WrapperLine(ItemAt(p)).title = ItemAt(p).kind /\ WrapperLine(ItemAt(p)).krate = ItemAt(p).krate
    BY DEF WrapperLine, Open
  <2> QED BY <1>3, <2>1, <2>2, <2>3, <2>4
<1> QED BY <1>2, <1>3

\* The items' lines that are there stay as they are.
LEMMA TextsKept ==
  ASSUME WriteInv, source = "walk", Extends(body, body'), body' \in Seq(Line),
         \A n \in 1..Len(added) : n \in 1..Len(added') /\ added'[n] = added[n]
  PROVE  \A p \in Texts : /\ p \in 1..Len(body) /\ p \in Nat /\ p \in Texts' /\ ItemAt(p)' = ItemAt(p)
                          /\ ItemShaped(p) /\ ItemShaped(p)' /\ Outermost(p)' = Outermost(p)
                          /\ Outermost(p) \in 1..Len(body)
<1> SUFFICES ASSUME NEW p \in Texts
             PROVE  /\ p \in 1..Len(body) /\ p \in Nat /\ p \in Texts' /\ ItemAt(p)' = ItemAt(p)
                    /\ ItemShaped(p) /\ ItemShaped(p)' /\ Outermost(p)' = Outermost(p)
                    /\ Outermost(p) \in 1..Len(body)
  OBVIOUS
<1>1. body \in Seq(Line) /\ Len(body) \in Nat /\ DOMAIN body = 1..Len(body)
  BY DEF WriteInv, WriteTypes
<1>2. p \in 1..Len(body) /\ p \in Nat /\ body[p].is = "text"
  BY <1>1 DEF Texts
<1>3. /\ ItemShaped(p) /\ p > 1 /\ body[p].n \in 1..Len(added)
  BY DEF WriteInv, WalkInv, ItemShaped
<1>4. /\ Len(body') \in Nat /\ Len(body) <= Len(body')
      /\ \A k \in 1..Len(body) : body'[k] = body[k] /\ Around(body', k) = Around(body, k)
  BY DEF Extends
<1>5. ItemAt(p)' = ItemAt(p)
  BY <1>2, <1>3, <1>4 DEF ItemAt
<1>6. Outermost(p)' = Outermost(p)
  BY <1>2, <1>4 DEF Outermost
<1>7. p \in 1..Len(body') /\ p - 1 \in 1..Len(body) /\ \A w \in 1..(p - 2) : w \in 1..Len(body)
  BY <1>2, <1>3, <1>4
<1>8. ItemShaped(p)'
  <2>1. body'[p].n \in 1..Len(added')
    BY <1>2, <1>3, <1>4
  <2>2. /\ body'[p - 1] = body[p - 1] /\ body'[p] = body[p] /\ Around(body', p) = Around(body, p)
        /\ \A w \in 1..(p - 2) : body'[w] = body[w]
    BY <1>2, <1>4, <1>7
  <2>3. added'[body'[p].n] = added[body[p].n]
    BY <1>3, <2>2
  <2> QED BY <1>3, <2>1, <2>2, <2>3 DEF ItemShaped, ItemAt
<1>9. Outermost(p) \in 1..Len(body)
  <2>1. Outermost(p) \in 1..(p - 1)
    BY <1>2, <1>3, OutermostOf
  <2> QED BY <1>2, <2>1
<1>10. p \in Texts'
  <2>1. p \in DOMAIN body' /\ body'[p].is = "text"
    BY <1>2, <1>4, <1>7
  <2> QED BY <2>1 DEF Texts
<1> QED BY <1>2, <1>3, <1>5, <1>6, <1>8, <1>9, <1>10

\* Nothing is written.
LEMMA BodyStays ==
  ASSUME WriteInv, source = "walk", body' = body, wrapper' = wrapper, module' = module,
         \A n \in 1..Len(added) : n \in 1..Len(added') /\ added'[n] = added[n]
  PROVE  /\ Texts' = Texts /\ Grouped'
         /\ \A p \in Texts : ItemAt(p)' = ItemAt(p) /\ ItemShaped(p)'
<1>1. body' = body /\ wrapper' = wrapper /\ module' = module
  OBVIOUS
<1>2. Grouped /\ body \in Seq(Line) /\ Len(body) \in Nat
  BY DEF WriteInv, WalkInv, WriteTypes
<1>3. Extends(body, body')
  BY <1>1, <1>2 DEF Extends
<1>4. \A p \in Texts : ItemAt(p)' = ItemAt(p) /\ ItemShaped(p)' /\ Outermost(p)' = Outermost(p)
  BY <1>1, <1>2, <1>3, TextsKept
<1>5. Texts' = Texts
  BY <1>1 DEF Texts
<1>6. Grouped'
  <2>1. \A p, q \in Texts' : p < q /\ NoneBetween(Texts', p, q) =>
          (Outermost(p)' = Outermost(q)' <=> Alike(ItemAt(p)', ItemAt(q)'))
    BY <1>2, <1>4, <1>5 DEF Grouped
  <2>2. ASSUME NEW q \in Texts, NoneBetween(Texts, q, Len(body) + 1)
        PROVE  /\ ItemAt(q)'.walk = module' => wrapper' = RunOf(ItemAt(q)'.kind, ItemAt(q)'.krate)
               /\ wrapper' # NoRun =>
                    ItemAt(q)'.walk = module' /\ Outermost(q)' \in Around(body', Len(body'))
    <3>1. /\ ItemAt(q).walk = module => wrapper = RunOf(ItemAt(q).kind, ItemAt(q).krate)
          /\ wrapper # NoRun => ItemAt(q).walk = module /\ Outermost(q) \in Around(body, Len(body))
      BY <1>2, <2>2 DEF Grouped
    <3>2. ItemAt(q)' = ItemAt(q) /\ Outermost(q)' = Outermost(q)
      BY <1>4
    <3> QED BY <1>1, <3>1, <3>2
  <2>3. \A q \in Texts' : NoneBetween(Texts', q, Len(body') + 1) =>
          /\ ItemAt(q)'.walk = module' => wrapper' = RunOf(ItemAt(q)'.kind, ItemAt(q)'.krate)
          /\ wrapper' # NoRun =>
               ItemAt(q)'.walk = module' /\ Outermost(q)' \in Around(body', Len(body'))
    BY <1>1, <1>5, <2>2
  <2> QED BY <2>1, <2>3 DEF Grouped
<1> QED BY <1>4, <1>5, <1>6

\* One more item.
LEMMA AddItemStep ==
  ASSUME WriteInv, NEW kind \in ItemKinds, NEW krate \in Crates \union {Local},
         AddItem(kind, krate)
  PROVE  WriteInv'
<1> DEFINE item == [name |-> count', kind |-> kind, krate |-> krate, walk |-> module]
<1>1. /\ source = "walk" /\ ~busy /\ source' = source /\ module' = module /\ busy' = busy
      /\ op' = op /\ replies' = replies /\ wrapper' = wrapper /\ body' = body /\ sent' = sent
      /\ count' = count + 1 /\ items' = Append(items, item) /\ added' = Append(added, item)
  BY DEF AddItem
<1>2. /\ WriteTypes /\ WritePhases /\ BodyOpen /\ ItemsKnown /\ Ordered /\ Grouped
      /\ items \in Seq(Item) /\ added \in Seq(Item) /\ module \in Nat
      /\ body \in Seq(Line) /\ DOMAIN body = 1..Len(body) /\ Len(body) \in Nat
      /\ Len(added) \in Nat /\ Len(items) \in Nat
  BY <1>1 DEF WriteInv, WalkInv, WriteTypes
<1>3. count = Len(added) /\ count' = Len(added) + 1 /\ count' \in Nat \ {0}
  BY <1>1, <1>2 DEF ItemsKnown
<1>4. item \in Item
  BY <1>2, <1>3 DEF Item
<1>5. /\ item.name = count' /\ item.walk = module
  OBVIOUS
<1> HIDE DEF item
<1>6. /\ items' \in Seq(Item) /\ Len(items') = Len(items) + 1
      /\ \A k \in 1..Len(items) : items'[k] = items[k]
      /\ items'[Len(items) + 1] = item
  BY <1>1, <1>2, <1>4, AppendProperties
<1>7. /\ added' \in Seq(Item) /\ Len(added') = Len(added) + 1
      /\ \A n \in 1..Len(added) : added'[n] = added[n]
      /\ added'[Len(added) + 1] = item
  BY <1>1, <1>2, <1>4, AppendProperties
<1>8. /\ 1..Len(items') = 1..Len(items) \union {Len(items) + 1}
      /\ 1..Len(added') = 1..Len(added) \union {Len(added) + 1}
  BY <1>2, <1>6, <1>7
<1>10. /\ Texts' = Texts /\ Grouped'
       /\ \A p \in Texts : ItemAt(p)' = ItemAt(p) /\ ItemShaped(p)'
  BY <1>1, <1>7, <1>8, BodyStays
<1>11. Texts' = Texts
  BY <1>10
<1>12. ItemsKnown'
  <2>1. count' = Len(added')
    BY <1>3, <1>7
  <2>2. \A n \in 1..Len(added') : added'[n].name = n /\ added'[n].walk <= module'
    BY <1>1, <1>2, <1>3, <1>5, <1>7, <1>8 DEF ItemsKnown
  <2>3. \A k \in 1..Len(items') :
          /\ items'[k].name \in 1..Len(added') /\ items'[k] = added'[items'[k].name]
          /\ items'[k].walk = module'
    BY <1>1, <1>2, <1>3, <1>5, <1>6, <1>7, <1>8 DEF ItemsKnown
  <2>4. ASSUME NEW i \in 1..Len(items'), NEW k \in 1..Len(items'), i < k
        PROVE  items'[i].name < items'[k].name
    <3>1. i \in 1..Len(items)
      BY <1>2, <1>8, <2>4
    <3>2. CASE k \in 1..Len(items)
      BY <1>1, <1>2, <1>6, <2>4, <3>1, <3>2 DEF ItemsKnown
    <3>3. CASE k = Len(items) + 1
      <4>1. items'[i].name \in 1..Len(added) /\ items'[k].name = Len(added) + 1
        BY <1>2, <1>3, <1>5, <1>6, <3>1, <3>3 DEF ItemsKnown
      <4> QED BY <1>2, <4>1
    <3> QED BY <1>8, <3>2, <3>3
  <2>5. \A n \in 1..Len(added') :
          (\E p \in Texts : body[p].n = n) \/ (\E k \in 1..Len(items') : items'[k].name = n)
    <3>1. items'[Len(items) + 1].name = Len(added) + 1
      BY <1>3, <1>5, <1>6
    <3> QED BY <1>2, <1>6, <1>8, <3>1 DEF ItemsKnown
  <2> QED BY <1>1, <1>11, <2>1, <2>2, <2>3, <2>4, <2>5 DEF ItemsKnown
<1>13. Ordered'
  <2>1. \A p \in Texts : ItemAt(p)'.walk < module'
    BY <1>1, <1>2, <1>10 DEF Ordered
  <2>2. \A p, q \in Texts : p < q => Later(ItemAt(p)', ItemAt(q)')
    BY <1>2, <1>10 DEF Ordered
  <2> QED BY <1>11, <2>1, <2>2 DEF Ordered
<1>15. WriteTypes' /\ WritePhases'
  <2>1. WriteTypes'
    BY <1>1, <1>2, <1>3, <1>6, <1>7 DEF WriteTypes
  <2> QED BY <1>1, <1>2, <2>1 DEF WritePhases
<1>16. BodyOpen' /\ LogInv'
  BY <1>1, <1>2 DEF BodyOpen, LogInv
<1> QED BY <1>1, <1>10, <1>12, <1>13, <1>15, <1>16 DEF WriteInv, WalkInv

\* The items are sorted.
LEMMA StartFinishStep ==
  ASSUME WriteInv, StartFinish
  PROVE  WriteInv'
<1>1. /\ ~busy /\ busy' = TRUE /\ items # <<>> /\ source' = source /\ module' = module
      /\ op' = op /\ replies' = replies /\ wrapper' = wrapper /\ body' = body /\ sent' = sent
      /\ count' = count /\ added' = added
  BY DEF StartFinish
<1>2. /\ WriteTypes /\ WritePhases /\ BodyOpen /\ source = "walk"
      /\ ItemsKnown /\ Ordered
      /\ items \in Seq(Item) /\ added \in Seq(Item) /\ module \in Nat
      /\ Len(added) \in Nat /\ Len(items) \in Nat /\ DOMAIN items = 1..Len(items)
  BY <1>1 DEF WriteInv, WalkInv, WriteTypes, WritePhases
<1>3. PICK order \in Bijection(DOMAIN items, DOMAIN items) :
        /\ \A i, k \in DOMAIN items : i < k =>
             LET a == items[order[i]]
                 b == items[order[k]]
             IN  ~Before(b, a) /\ (Before(a, b) \/ order[i] < order[k])
        /\ items' = [k \in DOMAIN items |-> items[order[k]]]
  BY DEF StartFinish
<1>4. /\ \A k \in 1..Len(items) : order[k] \in 1..Len(items)
      /\ \A k \in 1..Len(items) : \E m \in 1..Len(items) : order[m] = k
  BY <1>2 DEF Bijection, Surjection
<1>5. \A k \in 1..Len(items) : items[k] \in Item
  BY <1>2, ElementOfSeq
<1>6. /\ items' \in Seq(Item) /\ Len(items') = Len(items)
      /\ \A k \in 1..Len(items) : items'[k] = items[order[k]]
  <2>1. items' = [k \in 1..Len(items) |-> items[order[k]]]
    BY <1>2, <1>3
  <2>2. items' \in Seq(Item)
    BY <1>2, <1>4, <1>5, <2>1
  <2> QED BY <1>2, <2>1, <2>2
<1>7. /\ Texts' = Texts /\ Grouped'
      /\ \A p \in Texts : ItemAt(p)' = ItemAt(p) /\ ItemShaped(p)'
  BY <1>1, <1>2, BodyStays
<1>8. ASSUME NEW i \in 1..Len(items), NEW k \in 1..Len(items), i < k
      PROVE  Later(items'[i], items'[k])
  <2> DEFINE a == items[order[i]]
             b == items[order[k]]
  <2>1. order[i] \in 1..Len(items) /\ order[k] \in 1..Len(items)
    BY <1>4
  <2>2. ~Before(b, a) /\ (Before(a, b) \/ order[i] < order[k])
    BY <1>2, <1>3, <1>8
  <2>3. a.walk = b.walk /\ (order[i] < order[k] => a.name < b.name)
    BY <1>1, <1>2, <2>1 DEF ItemsKnown
  <2>4. a.krate \in Nat /\ b.krate \in Nat
    BY <1>5, <2>1, ItemTyped
  <2> HIDE DEF a, b
  <2>5. Later(a, b)
    BY <2>2, <2>3, <2>4 DEF Later, Before, Local
  <2> QED BY <1>6, <2>5 DEF a, b
<1>9. ItemsKnown'
  <2>1. \A k \in 1..Len(items') :
          /\ items'[k].name \in 1..Len(added) /\ items'[k] = added[items'[k].name]
          /\ items'[k].walk = module
    <3> SUFFICES ASSUME NEW k \in 1..Len(items)
                 PROVE  LET item == items[order[k]]
                        IN  item.name \in 1..Len(added) /\ item = added[item.name] /\ item.walk = module
      BY <1>6
    <3> QED BY <1>2, <1>4 DEF ItemsKnown
  <2>2. \A n \in 1..Len(added) :
          (\E p \in Texts : body[p].n = n) \/ (\E k \in 1..Len(items') : items'[k].name = n)
    <3>1. ASSUME NEW m \in 1..Len(items)
          PROVE  \E k \in 1..Len(items') : items'[k].name = items[m].name
      <4>1. PICK k \in 1..Len(items) : order[k] = m
        BY <1>4
      <4> QED BY <1>6, <4>1
    <3>2. \A n \in 1..Len(added) :
            (\E p \in Texts : body[p].n = n) \/ (\E m \in 1..Len(items) : items[m].name = n)
      BY <1>2 DEF ItemsKnown
    <3> QED BY <3>1, <3>2
  <2>3. count = Len(added) /\ \A n \in 1..Len(added) : added[n].name = n /\ added[n].walk <= module
    BY <1>2 DEF ItemsKnown
  <2> QED BY <1>1, <1>6, <1>7, <1>8, <2>1, <2>2, <2>3 DEF ItemsKnown
<1>10. Ordered'
  <2>1. \A p \in Texts : ItemAt(p)'.walk < module'
    BY <1>1, <1>2, <1>7 DEF Ordered
  <2>2. \A p, q \in Texts : p < q => Later(ItemAt(p)', ItemAt(q)')
    BY <1>2, <1>7 DEF Ordered
  <2> QED BY <1>7, <2>1, <2>2 DEF Ordered
<1>11. WriteTypes' /\ WritePhases'
  <2>1. WriteTypes'
    BY <1>1, <1>2, <1>6 DEF WriteTypes
  <2> QED BY <1>1, <1>2, <2>1 DEF WritePhases
<1>12. BodyOpen' /\ LogInv'
  BY <1>1, <1>2 DEF BodyOpen, LogInv
<1> QED BY <1>1, <1>7, <1>9, <1>10, <1>11, <1>12 DEF WriteInv, WalkInv

\* An item's section, after what closes the run before it.
LEMMA PutItemWrites ==
  ASSUME WriteInv, PutItem
  PROVE  LET item == Head(items)
             run  == RunOf(item.kind, item.krate)
         IN  \E v, w, P :
               /\ Wrapped(body, wrapper, w) /\ Wrapped(body', run, v) /\ body' \in Seq(Line)
               /\ P \in Nat /\ Len(body') = P + 1 /\ P > Len(body) + 1 /\ Extends(body, body')
               /\ \A p \in 1..Len(body') : p = P \/ p \in 1..Len(body) \/ body'[p].is # "text"
               /\ body'[P] = Text("item", item.name, item.krate)
               /\ body'[P - 1] = ItemLine(item)
               /\ run = NoRun => Around(body', P) = {P - 1}
               /\ run # NoRun => Around(body', P) = {v, P - 1}
               /\ run # NoRun => v \in 1..(P - 2) /\ body'[v] = WrapperLine(run)
               /\ wrapper = run => v = w
               /\ wrapper # run /\ run # NoRun => v > Len(body)
<1> DEFINE item == Head(items)
           run  == RunOf(item.kind, item.krate)
           new  == body \o Rotate(run)
           o    == ItemLine(item)
           t    == Text("item", item.name, item.krate)
           more == Append(Append(new, o), t)
           all  == Append(more, Close)
<1>1. /\ busy /\ items # <<>> /\ wrapper' = run /\ body' = new \o <<o, t, Close>>
  BY DEF PutItem, WriteIn, ItemLine
<1>2. /\ wrapper \in Run /\ op = "none" /\ items \in Seq(Item)
      /\ body \in Seq(Line) /\ Len(body) \in Nat
  BY <1>1 DEF WriteInv, WriteTypes, WritePhases, PutItem
<1>3. item \in Item
  BY <1>1, <1>2, HeadTailProperties
<1>4. /\ item.name \in Nat /\ item.kind \in Titles /\ item.krate \in Crates \union {Local}
      /\ item.krate \in Nat
  BY <1>3, ItemTyped
<1> HIDE DEF item
<1>5. /\ run \in Run /\ run.krate = item.krate /\ (run = NoRun <=> item.krate = Local)
      /\ run # NoRun => run.kind = item.kind
  <2>1. /\ run \in Run
        /\ item.krate = Local => run = NoRun
        /\ item.krate # Local => run # NoRun /\ run.kind = item.kind /\ run.krate = item.krate
    BY <1>4, RunOfTyped
  <2>2. NoRun.krate = Local
    BY DEF NoRun
  <2> QED BY <2>1, <2>2
<1>6. PICK w : Wrapped(body, wrapper, w)
  BY <1>2 DEF WriteInv, BodyOpen
<1> HIDE DEF run
<1>7. PICK v : /\ Wrapped(new, run, v) /\ Marks(body, new)
               /\ wrapper = run => new = body /\ v = w
               /\ wrapper # run /\ run # NoRun => v > Len(body)
  BY <1>2, <1>5, <1>6, Rotated
<1>8. new \in Seq(Line) /\ Len(new) \in Nat /\ v \in 0..Len(new) /\ IsWrapper(new, run, v)
  BY <1>7 DEF Wrapped, Sound
<1>9. /\ o \in Line /\ o.is = "open" /\ (run = NoRun => ~o.auto)
      /\ t \in Line /\ t.is = "text" /\ t.krate = run.krate
  <2>1. "item" \in Titles
    BY TitlesAssumption
  <2>2. o \in Line /\ o.is = "open" /\ (item.krate = Local => ~o.auto)
    BY <1>4 DEF ItemLine, Open, Line
  <2>3. t \in Line /\ t.is = "text" /\ t.krate = item.krate
    BY <1>4, <2>1, TextTyped
  <2> QED BY <1>5, <2>2, <2>3
<1>10. body' = all
  <2>1. new \o <<o, t, Close>> = all
    BY <1>8, <1>9, CloseTyped, OneByOne
  <2> QED BY <1>1, <2>1
<1> HIDE DEF new, o, t
<1>11. /\ Section(new, o, t, more) /\ v \in 0..Len(more) /\ IsWrapper(more, run, v)
       /\ Sound(more, Append(Outer(run, v), Len(new) + 1))
       /\ run = NoRun => Around(more, Len(new) + 2) = {Len(new) + 1}
       /\ run # NoRun => Around(more, Len(new) + 2) = {v, Len(new) + 1}
  <2>1. /\ run \in Run /\ Wrapped(new, run, v) /\ o \in Line /\ t \in Line
        /\ o.is = "open" /\ t.is = "text" /\ t.krate = run.krate
        /\ run = NoRun => ~o.auto \/ t.n = 0 \/ t.title = "reply"
    BY <1>5, <1>7, <1>9
  <2> QED BY <2>1, OpenSection
<1> HIDE DEF more
<1>12. Wrapped(all, run, v) /\ Longer(more, Close, all)
  <2>1. Len(new) + 1 \in Nat
    BY <1>8
  <2> QED BY <1>5, <1>11, <2>1, CloseSectionOf
<1> HIDE DEF all
<1>13. /\ all \in Seq(Line) /\ Len(all) = Len(new) + 3 /\ Len(body) <= Len(new)
       /\ \A p \in 1..Len(body) : p \in 1..Len(new)
       /\ \A p \in 1..Len(new) : p \in 1..Len(more)
       /\ Len(new) + 1 \in 1..Len(more) /\ Len(new) + 2 \in 1..Len(more)
  BY <1>2, <1>7, <1>8, <1>11, <1>12 DEF Section, Longer, Marks
<1>14. \A p \in 1..Len(new) : all[p] = new[p] /\ Around(all, p) = Around(new, p)
  BY <1>11, <1>12, <1>13 DEF Section, Longer
<1>15. /\ all[Len(new) + 1] = o /\ all[Len(new) + 2] = t /\ all[Len(new) + 3] = Close
       /\ Around(all, Len(new) + 2) = Around(more, Len(new) + 2)
  <2>1. Len(more) = Len(new) + 2 /\ Len(new) + 2 + 1 = Len(new) + 3
    BY <1>8, <1>11 DEF Section
  <2> QED BY <1>11, <1>12, <1>13, <2>1 DEF Section, Longer
<1>16. Extends(body, all)
  <2>1. \A p \in 1..Len(body) : all[p] = body[p] /\ Around(all, p) = Around(body, p)
    BY <1>7, <1>13, <1>14 DEF Marks
  <2>2. Len(body) <= Len(all) /\ Len(all) \in Nat
    BY <1>2, <1>8, <1>13
  <2> QED BY <1>2, <2>1, <2>2 DEF Extends
<1>17. \A p \in 1..Len(all) : p = Len(new) + 2 \/ p \in 1..Len(body) \/ all[p].is # "text"
  <2> SUFFICES ASSUME NEW p \in 1..Len(all), p # Len(new) + 2, p \notin 1..Len(body)
               PROVE  all[p].is # "text"
    OBVIOUS
  <2>1. CASE p \in 1..Len(new)
    <3>1. p \in (Len(body) + 1)..Len(new)
      BY <1>2, <1>8, <2>1
    <3> QED BY <1>7, <1>14, <2>1, <3>1 DEF Marks
  <2>2. CASE p = Len(new) + 1
    BY <1>9, <1>15, <2>2
  <2>3. CASE p = Len(new) + 3
    BY <1>15, <2>3, CloseTyped
  <2>4. p \in 1..Len(new) \/ p = Len(new) + 1 \/ p = Len(new) + 3
    BY <1>8, <1>13
  <2> QED BY <2>1, <2>2, <2>3, <2>4
<1>18. run # NoRun => v \in 1..Len(new) /\ all[v] = WrapperLine(run)
  BY <1>8, <1>14 DEF IsWrapper
<1> DEFINE P == Len(new) + 2
<1>19. P \in Nat /\ P + 1 = Len(new) + 3 /\ P - 1 = Len(new) + 1 /\ P - 2 = Len(new) /\ P > Len(body) + 1
  BY <1>2, <1>8, <1>13
<1> HIDE DEF P
<1>20. P = Len(new) + 2
  BY DEF P
<1>21. /\ Wrapped(body, wrapper, w) /\ Wrapped(body', run, v) /\ body' \in Seq(Line)
       /\ P \in Nat /\ Len(body') = P + 1 /\ P > Len(body) + 1 /\ Extends(body, body')
       /\ \A p \in 1..Len(body') : p = P \/ p \in 1..Len(body) \/ body'[p].is # "text"
       /\ body'[P] = t /\ body'[P - 1] = o
       /\ run = NoRun => Around(body', P) = {P - 1}
       /\ run # NoRun => Around(body', P) = {v, P - 1}
       /\ run # NoRun => v \in 1..(P - 2) /\ body'[v] = WrapperLine(run)
       /\ wrapper = run => v = w
       /\ wrapper # run /\ run # NoRun => v > Len(body)
  BY <1>6, <1>7, <1>10, <1>11, <1>12, <1>13, <1>15, <1>16, <1>17, <1>18, <1>19, <1>20
<1> QED BY <1>21 DEF o, t, run, item

LEMMA PutItemStep ==
  ASSUME WriteInv, PutItem
  PROVE  WriteInv'
<1> DEFINE item == Head(items)
           run  == RunOf(item.kind, item.krate)
<1>1. /\ source = "walk" /\ busy /\ items # <<>> /\ items' = Tail(items) /\ wrapper' = run
      /\ source' = source /\ module' = module /\ busy' = busy /\ added' = added /\ op' = op
      /\ count' = count /\ replies' = replies /\ sent' = sent
  BY DEF PutItem, WriteIn
<1>2. /\ WriteTypes /\ WritePhases /\ ItemsKnown /\ Ordered /\ Grouped
      /\ items \in Seq(Item) /\ added \in Seq(Item) /\ module \in Nat
      /\ Len(items) \in Nat /\ Len(added) \in Nat
      /\ body \in Seq(Line) /\ DOMAIN body = 1..Len(body) /\ Len(body) \in Nat
  BY <1>1 DEF WriteInv, WalkInv, WriteTypes
<1>3. /\ Len(items') = Len(items) - 1 /\ items' \in Seq(Item)
      /\ \A k \in 1..Len(items') : items'[k] = items[k + 1] /\ k + 1 \in 1..Len(items)
      /\ item = items[1] /\ 1 \in 1..Len(items) /\ item \in Item
  <2>1. /\ items' \in Seq(Item) /\ Len(items') = Len(items) - 1 /\ item \in Item
        /\ \A k \in 1..Len(items') : items'[k] = items[k + 1]
    BY <1>1, <1>2, HeadTailProperties
  <2>2. item = items[1]
    BY <1>1, <1>2
  <2>3. 1 \in 1..Len(items) /\ \A k \in 1..Len(items') : k + 1 \in 1..Len(items)
    BY <1>1, <1>2, <2>1
  <2> QED BY <2>1, <2>2, <2>3
<1>4. PICK v, w, P :
        /\ Wrapped(body, wrapper, w) /\ Wrapped(body', run, v) /\ body' \in Seq(Line)
        /\ P \in Nat /\ Len(body') = P + 1 /\ P > Len(body) + 1 /\ Extends(body, body')
        /\ \A p \in 1..Len(body') : p = P \/ p \in 1..Len(body) \/ body'[p].is # "text"
        /\ body'[P] = Text("item", item.name, item.krate)
        /\ body'[P - 1] = ItemLine(item)
        /\ run = NoRun => Around(body', P) = {P - 1}
        /\ run # NoRun => Around(body', P) = {v, P - 1}
        /\ run # NoRun => v \in 1..(P - 2) /\ body'[v] = WrapperLine(run)
        /\ wrapper = run => v = w
        /\ wrapper # run /\ run # NoRun => v > Len(body)
  BY PutItemWrites
<1>5. /\ item.name \in Nat /\ item.walk \in Nat /\ item.kind \in Titles
      /\ item.krate \in Crates \union {Local} /\ item.krate \in Nat
  BY <1>3, ItemTyped
<1> HIDE DEF item
<1>6. /\ run \in Run /\ (run = NoRun <=> item.krate = Local)
      /\ run # NoRun => run.kind = item.kind /\ run.krate = item.krate
  BY <1>5, RunOfTyped
<1>7. /\ item.name \in 1..Len(added) /\ item = added[item.name] /\ item.walk = module
  BY <1>2, <1>3 DEF ItemsKnown
<1>8. /\ body'[P].is = "text" /\ body'[P].n = item.name /\ body'[P].krate = item.krate
  BY <1>4 DEF Text
<1>9. /\ P \in 1..Len(body') /\ P \notin 1..Len(body) /\ DOMAIN body' = 1..Len(body')
      /\ P > 1
  BY <1>2, <1>4
<1>10. \A p \in Texts : /\ p \in 1..Len(body) /\ p \in Nat /\ p \in Texts' /\ ItemAt(p)' = ItemAt(p)
                        /\ ItemShaped(p)' /\ Outermost(p)' = Outermost(p)
                        /\ Outermost(p) \in 1..Len(body)
  BY <1>1, <1>4, TextsKept
<1>11. Texts' = Texts \union {P}
  <2>1. ASSUME NEW p \in Texts'
        PROVE  p \in Texts \union {P}
    <3>1. p \in 1..Len(body') /\ body'[p].is = "text"
      BY <1>9 DEF Texts
    <3>2. p = P \/ (p \in 1..Len(body) /\ body'[p] = body[p])
      BY <1>4, <3>1 DEF Extends
    <3> QED BY <1>2, <3>1, <3>2 DEF Texts
  <2>2. P \in Texts'
    BY <1>8, <1>9 DEF Texts
  <2> QED BY <1>10, <2>1, <2>2
<1>12. ItemAt(P)' = item
  BY <1>1, <1>7, <1>8 DEF ItemAt
<1>13. ItemShaped(P)'
  <2>1. /\ P > 1 /\ body'[P].n \in 1..Len(added') /\ body'[P].krate = ItemAt(P)'.krate
        /\ body'[P - 1] = ItemLine(ItemAt(P)')
    BY <1>1, <1>4, <1>7, <1>8, <1>9, <1>12
  <2>2. ItemAt(P)'.krate = Local => Around(body', P) = {P - 1}
    BY <1>4, <1>6, <1>12
  <2>3. ItemAt(P)'.krate # Local =>
          \E x \in 1..(P - 2) : Around(body', P) = {x, P - 1} /\ body'[x] = WrapperLine(ItemAt(P)')
    <3>1. run # NoRun => WrapperLine(run) = WrapperLine(item)
      BY <1>6 DEF WrapperLine
    <3> QED BY <1>4, <1>6, <1>12, <3>1
  <2> QED BY <2>1, <2>2, <2>3 DEF ItemShaped
<1>14. /\ run = NoRun => Outermost(P)' = P - 1
       /\ run # NoRun => Outermost(P)' = v /\ v \in Nat
  <2>1. P - 1 \in Nat
    BY <1>4, <1>9
  <2>2. CASE run = NoRun
    <3>1. Around(body', P) = {P - 1, P - 1}
      BY <1>4, <2>2
    <3> QED BY <2>1, <2>2, <3>1, MinOfTwo DEF Outermost
  <2>3. CASE run # NoRun
    <3>1. Around(body', P) = {v, P - 1} /\ v \in 1..(P - 2)
      BY <1>4, <2>3
    <3>2. v \in Nat /\ v <= P - 1
      <4>1. P \in Nat
        BY <1>4
      <4> QED BY <3>1, <4>1
    <3> QED BY <2>1, <2>3, <3>1, <3>2, MinOfTwo DEF Outermost
  <2> QED BY <2>2, <2>3
<1>15. ItemsKnown'
  <2>1. count = Len(added) /\ \A n \in 1..Len(added) : added[n].name = n /\ added[n].walk <= module
    BY <1>2 DEF ItemsKnown
  <2>2. \A k \in 1..Len(items') :
          /\ items'[k].name \in 1..Len(added) /\ items'[k] = added[items'[k].name]
          /\ items'[k].walk = module
    BY <1>2, <1>3 DEF ItemsKnown
  <2>3. ASSUME NEW i \in 1..Len(items'), NEW k \in 1..Len(items'), i < k
        PROVE  Later(items'[i], items'[k])
    <3>1. i + 1 < k + 1
      BY <2>3
    <3> QED BY <1>1, <1>2, <1>3, <3>1 DEF ItemsKnown
  <2>4. ASSUME NEW n \in 1..Len(added)
        PROVE  (\E p \in Texts' : body'[p].n = n) \/ (\E k \in 1..Len(items') : items'[k].name = n)
    <3>1. CASE \E p \in Texts : body[p].n = n
      <4>1. \A p \in Texts : body'[p] = body[p]
        BY <1>4, <1>10 DEF Extends
      <4> QED BY <1>10, <3>1, <4>1
    <3>2. CASE \E k \in 1..Len(items) : items[k].name = n
      <4>1. PICK k \in 1..Len(items) : items[k].name = n
        BY <3>2
      <4>2. CASE k = 1
        BY <1>3, <1>8, <1>11, <4>1, <4>2
      <4>3. CASE k # 1
        <5>1. k - 1 \in 1..Len(items') /\ (k - 1) + 1 = k
          BY <1>2, <1>3, <4>3
        <5> QED BY <1>3, <4>1, <5>1
      <4> QED BY <4>2, <4>3
    <3> QED BY <1>2, <3>1, <3>2 DEF ItemsKnown
  <2> QED BY <1>1, <2>1, <2>2, <2>3, <2>4 DEF ItemsKnown
<1>16. \A p \in Texts : Later(ItemAt(p), item)
  BY <1>2, <1>3, <1>7 DEF Ordered, Later
<1>17. Ordered'
  <2>1. ASSUME NEW p \in Texts'
        PROVE  \/ ItemAt(p)'.walk < module
               \/ /\ busy /\ ItemAt(p)'.walk = module
                  /\ \A k \in 1..Len(items') : Later(ItemAt(p)', items'[k])
    <3>1. CASE p \in Texts
      BY <1>2, <1>3, <1>10, <3>1 DEF Ordered
    <3>2. CASE p = P
      <4>1. \A k \in 1..Len(items') : Later(items[1], items[k + 1])
        <5>1. \A k \in 1..Len(items') : 1 < k + 1
          OBVIOUS
        <5> QED BY <1>1, <1>2, <1>3, <5>1 DEF ItemsKnown
      <4> QED BY <1>1, <1>3, <1>7, <1>12, <3>2, <4>1
    <3> QED BY <1>11, <3>1, <3>2
  <2>2. ASSUME NEW p \in Texts', NEW q \in Texts', p < q
        PROVE  Later(ItemAt(p)', ItemAt(q)')
    <3>1. CASE q \in Texts
      <4>1. p \in Texts
        BY <1>2, <1>9, <1>10, <1>11, <1>4, <2>2, <3>1
      <4> QED BY <1>2, <1>10, <2>2, <3>1, <4>1 DEF Ordered
    <3>2. CASE q = P
      <4>1. p \in Texts
        BY <1>4, <1>11, <2>2, <3>2
      <4> QED BY <1>10, <1>12, <1>16, <3>2, <4>1
    <3> QED BY <1>11, <3>1, <3>2
  <2> QED BY <1>1, <2>1, <2>2 DEF Ordered
<1>18. Grouped'
  <2>1. \A q \in Texts : P \in (q + 1)..(P + 2 - 1) /\ q < P
    BY <1>2, <1>4, <1>10
  <2>2. ASSUME NEW p \in Texts, NoneBetween(Texts', p, P)
        PROVE  NoneBetween(Texts, p, Len(body) + 1)
    <3>1. (p + 1)..(Len(body) + 1 - 1) \subseteq (p + 1)..(P - 1)
      BY <1>2, <1>4
    <3> QED BY <1>11, <2>2, <3>1 DEF NoneBetween
  <2>3. ASSUME NEW p \in Texts, NEW q \in Texts, NoneBetween(Texts', p, q)
        PROVE  NoneBetween(Texts, p, q)
    BY <1>11, <2>3 DEF NoneBetween
  <2>4. ASSUME NEW p \in Texts, NoneBetween(Texts', p, P)
        PROVE  Outermost(p) = Outermost(P)' <=> Alike(ItemAt(p), item)
    <3>1. /\ ItemAt(p).walk = module => wrapper = RunOf(ItemAt(p).kind, ItemAt(p).krate)
          /\ wrapper # NoRun => ItemAt(p).walk = module /\ Outermost(p) \in Around(body, Len(body))
      BY <1>2, <2>2, <2>4 DEF Grouped
    <3>2. wrapper # NoRun => Outermost(p) = w
      <4> SUFFICES ASSUME wrapper # NoRun
                   PROVE  Outermost(p) = w
        OBVIOUS
      <4>1. Around(body, Len(body)) = {<<w>>[n] : n \in 1..Len(<<w>>)}
        BY <1>4 DEF Wrapped, Sound, Opened, Outer
      <4>2. Around(body, Len(body)) = {w}
        <5>1. Len(<<w>>) = 1 /\ <<w>>[1] = w
          OBVIOUS
        <5>2. 1..1 = {1}
          OBVIOUS
        <5> QED BY <4>1, <5>1, <5>2
      <4> QED BY <3>1, <4>2
    <3>3. Outermost(p) \in 1..Len(body)
      BY <1>10
    <3>4. CASE item.krate = Local
      <4>1. Outermost(P)' = P - 1
        BY <1>6, <1>14, <3>4
      <4>2. Outermost(p) # P - 1
        BY <1>2, <1>4, <3>3
      <4>3. ~Alike(ItemAt(p), item)
        BY <3>4 DEF Alike
      <4> QED BY <4>1, <4>2, <4>3
    <3>5. CASE item.krate # Local /\ Alike(ItemAt(p), item)
      <4>1. ItemAt(p).walk = module /\ ItemAt(p).kind = item.kind /\ ItemAt(p).krate = item.krate
        BY <1>7, <3>5 DEF Alike
      <4>2. wrapper = run /\ run # NoRun
        BY <1>6, <3>1, <3>5, <4>1
      <4> QED BY <1>4, <1>14, <3>2, <3>5, <4>2
    <3>6. CASE item.krate # Local /\ ~Alike(ItemAt(p), item)
      <4>1. run # NoRun
        BY <1>6, <3>6
      <4>2. wrapper # run
        <5> SUFFICES ASSUME wrapper = run
                     PROVE  FALSE
          OBVIOUS
        <5>1. ItemAt(p).walk = module /\ run = RunOf(ItemAt(p).kind, ItemAt(p).krate)
          BY <3>1, <4>1
        <5>2. run = [kind |-> ItemAt(p).kind, krate |-> ItemAt(p).krate] /\ ItemAt(p).krate # Local
          BY <4>1, <5>1 DEF RunOf
        <5>3. run.kind = ItemAt(p).kind /\ run.krate = ItemAt(p).krate
          BY <5>2
        <5> QED BY <1>6, <1>7, <3>6, <4>1, <5>1, <5>2, <5>3 DEF Alike
      <4>3. v > Len(body) /\ v \in Nat /\ Outermost(P)' = v
        BY <1>4, <1>14, <4>1, <4>2
      <4>4. Outermost(p) # v
        BY <1>2, <3>3, <4>3
      <4> QED BY <3>6, <4>3, <4>4
    <3> QED BY <3>4, <3>5, <3>6
  <2>5. ASSUME NEW p \in Texts', NEW q \in Texts', p < q, NoneBetween(Texts', p, q)
        PROVE  Outermost(p)' = Outermost(q)' <=> Alike(ItemAt(p)', ItemAt(q)')
    <3>1. CASE q \in Texts
      <4>1. p \in Texts
        BY <1>4, <1>10, <1>11, <2>1, <2>5, <3>1
      <4> QED BY <1>2, <1>10, <2>3, <2>5, <3>1, <4>1 DEF Grouped
    <3>2. CASE q = P
      <4>1. p \in Texts
        BY <1>4, <1>11, <2>5, <3>2
      <4> QED BY <1>10, <1>12, <2>4, <2>5, <3>2, <4>1
    <3> QED BY <1>11, <3>1, <3>2
  <2>6. ASSUME NEW q \in Texts', NoneBetween(Texts', q, Len(body') + 1)
        PROVE  /\ ItemAt(q)'.walk = module => run = RunOf(ItemAt(q)'.kind, ItemAt(q)'.krate)
               /\ run # NoRun =>
                    ItemAt(q)'.walk = module /\ Outermost(q)' \in Around(body', Len(body'))
    <3>1. q = P
      <4>1. q \notin Texts
        <5> SUFFICES ASSUME q \in Texts
                     PROVE  FALSE
          OBVIOUS
        <5>1. P \in (q + 1)..(Len(body') + 1 - 1) /\ P \in Texts'
          BY <1>4, <1>11, <2>1
        <5> QED BY <2>6, <5>1 DEF NoneBetween
      <4> QED BY <1>11, <4>1
    <3>2. run # NoRun => v \in Around(body', Len(body'))
      <4> SUFFICES ASSUME run # NoRun
                   PROVE  v \in Around(body', Len(body'))
        OBVIOUS
      <4>1. Around(body', Len(body')) = {<<v>>[n] : n \in 1..Len(<<v>>)}
        BY <1>4 DEF Wrapped, Sound, Opened, Outer
      <4>2. Len(<<v>>) = 1 /\ <<v>>[1] = v /\ 1 \in 1..1
        OBVIOUS
      <4> QED BY <4>1, <4>2
    <3> QED BY <1>7, <1>12, <1>14, <3>1, <3>2
  <2> QED BY <1>1, <2>5, <2>6 DEF Grouped
<1>19. \A p \in Texts' : ItemShaped(p)'
  BY <1>10, <1>11, <1>13
<1>20. WriteTypes' /\ WritePhases'
  <2>1. WriteTypes'
    BY <1>1, <1>2, <1>3, <1>4, <1>6 DEF WriteTypes
  <2> QED BY <1>1, <1>2, <2>1 DEF WritePhases
<1>21. BodyOpen'
  <2>1. op' = "none" /\ v \in 0..Len(body')
    BY <1>1, <1>2, <1>4 DEF WritePhases, Wrapped
  <2> QED BY <1>1, <1>4, <2>1 DEF BodyOpen
<1>22. LogInv' /\ WalkInv'
  BY <1>1, <1>15, <1>17, <1>18, <1>19 DEF LogInv, WalkInv
<1> QED BY <1>20, <1>21, <1>22 DEF WriteInv

\* The module is done: its last wrapper is closed.
LEMMA EndModuleStep ==
  ASSUME WriteInv, EndModule
  PROVE  WriteInv'
<1> DEFINE new == body \o Rotate(NoRun)
<1>1. /\ busy /\ items = <<>> /\ op = "none" /\ busy' = FALSE /\ module' = module + 1
      /\ wrapper' = NoRun /\ body' = new \o <<>>
      /\ source' = source /\ items' = items /\ added' = added /\ op' = op
      /\ count' = count /\ replies' = replies /\ sent' = sent
  BY DEF EndModule, WriteIn
<1>2. /\ WriteTypes /\ WritePhases /\ module \in Nat /\ wrapper \in Run /\ NoRun \in Run
      /\ body \in Seq(Line) /\ Len(body) \in Nat /\ DOMAIN body = 1..Len(body)
      /\ added \in Seq(Item)
  BY DEF WriteInv, WriteTypes, Run
<1>3. PICK w : Wrapped(body, wrapper, w)
  BY <1>1 DEF WriteInv, BodyOpen
<1>4. PICK v : /\ Wrapped(new, NoRun, v) /\ Marks(body, new)
               /\ Clear(body) => Clear(new)
  <2>1. NoRun.kind # "response"
    BY DEF NoRun
  <2> QED BY <1>2, <1>3, <2>1, Rotated
<1>5. new \in Seq(Line) /\ DOMAIN new = 1..Len(new) /\ Len(new) \in Nat
  BY <1>4 DEF Wrapped, Sound
<1> HIDE DEF new
<1>6. body' = new
  BY <1>1, <1>5, ConcatEmptySeq
<1>7. WriteTypes' /\ WritePhases'
  <2>1. module' \in Nat
    BY <1>1, <1>2
  <2>2. WriteTypes'
    BY <1>1, <1>2, <1>5, <1>6, <2>1 DEF WriteTypes
  <2> QED BY <1>1, <1>2, <2>2 DEF WritePhases
<1>8. BodyOpen'
  <2>1. v \in 0..Len(new)
    BY <1>4 DEF Wrapped
  <2> QED BY <1>1, <1>4, <1>6, <2>1 DEF BodyOpen
<1>9. LogInv'
  BY <1>1, <1>4, <1>6 DEF WriteInv, LogInv
<1>10. ASSUME source = "walk"
       PROVE  (\A p \in Texts' : ItemShaped(p)') /\ ItemsKnown' /\ Ordered' /\ Grouped'
  <2>1. /\ ItemsKnown /\ Ordered /\ Grouped
    BY <1>10 DEF WriteInv, WalkInv
  <2>2. Extends(body, new)
    BY <1>2, <1>4, <1>5 DEF Marks, Extends
  <2>3. \A p \in Texts : /\ p \in 1..Len(body) /\ p \in Texts' /\ ItemAt(p)' = ItemAt(p)
                         /\ ItemShaped(p) /\ ItemShaped(p)' /\ Outermost(p)' = Outermost(p)
    BY <1>1, <1>5, <1>6, <1>10, <2>2, TextsKept
  <2>4. Texts' = Texts
    <3>1. ASSUME NEW p \in Texts'
          PROVE  p \in Texts
      <4>1. p \in 1..Len(new) /\ new[p].is = "text"
        BY <1>5, <1>6 DEF Texts
      <4>2. p \in 1..Len(body) \/ p \in (Len(body) + 1)..Len(new)
        BY <1>2, <1>5, <4>1
      <4>3. p \in 1..Len(body) /\ new[p] = body[p]
        BY <1>4, <4>1, <4>2 DEF Marks
      <4> QED BY <1>2, <4>1, <4>3 DEF Texts
    <3> QED BY <2>3, <3>1
  <2>5. \A p \in Texts : ItemAt(p).walk \in Nat /\ ItemAt(p).walk <= module
    <3> SUFFICES ASSUME NEW p \in Texts
                 PROVE  ItemAt(p).walk \in Nat /\ ItemAt(p).walk <= module
      OBVIOUS
    <3>1. body[p].n \in 1..Len(added)
      BY <2>3 DEF ItemShaped
    <3>2. ItemAt(p) \in Item /\ ItemAt(p).walk <= module
      BY <1>2, <2>1, <3>1 DEF ItemsKnown, ItemAt
    <3> QED BY <3>2, ItemTyped
  <2>6. ItemsKnown'
    <3>1. Len(items') = 0 /\ 1..0 = {} /\ Len(items) = 0
      BY <1>1
    <3>2. \A n \in 1..Len(added) : added[n].walk \in Nat
      BY <1>2, ElementOfSeq, ItemTyped
    <3>3. \A n \in 1..Len(added) : added[n].name = n /\ added[n].walk <= module + 1
      BY <1>2, <2>1, <3>2 DEF ItemsKnown
    <3>4. ASSUME NEW n \in 1..Len(added)
          PROVE  \E p \in Texts' : body'[p].n = n
      <4>1. PICK p \in Texts : body[p].n = n
        BY <2>1, <3>1 DEF ItemsKnown
      <4>2. body'[p] = body[p]
        BY <1>4, <1>6, <2>3 DEF Marks
      <4> QED BY <2>3, <4>1, <4>2
    <3> QED BY <1>1, <2>1, <3>1, <3>3, <3>4 DEF ItemsKnown
  <2>7. Ordered'
    <3>1. \A p \in Texts' : ItemAt(p)'.walk < module'
      BY <1>1, <1>2, <2>3, <2>4, <2>5
    <3>2. \A p, q \in Texts' : p < q => Later(ItemAt(p)', ItemAt(q)')
      BY <2>1, <2>3, <2>4 DEF Ordered
    <3> QED BY <3>1, <3>2 DEF Ordered
  <2>8. Grouped'
    <3>1. \A p, q \in Texts' : p < q /\ NoneBetween(Texts', p, q) =>
            (Outermost(p)' = Outermost(q)' <=> Alike(ItemAt(p)', ItemAt(q)'))
      BY <2>1, <2>3, <2>4 DEF Grouped
    <3>2. \A q \in Texts' : ItemAt(q)'.walk # module'
      BY <1>1, <1>2, <2>3, <2>4, <2>5
    <3> QED BY <1>1, <3>1, <3>2 DEF Grouped
  <2> QED BY <2>3, <2>4, <2>6, <2>7, <2>8
<1>11. WalkInv'
  BY <1>1, <1>10 DEF WalkInv
<1> QED BY <1>7, <1>8, <1>9, <1>11 DEF WriteInv

----------------------------------------------------------------------------
(* project_smt                                                             *)

LEMMA PickedLines ==
  ASSUME NEW lines \in Seq(Line), NEW at \in Seq(Nat), \A k \in 1..Len(at) : at[k] \in 1..Len(lines)
  PROVE  /\ Picked(lines, at) \in Seq(Line) /\ Len(Picked(lines, at)) = Len(at)
         /\ \A k \in 1..Len(at) : Picked(lines, at)[k] = lines[at[k]]
<1>1. Len(at) \in Nat
  OBVIOUS
<1>2. \A k \in 1..Len(at) : lines[at[k]] \in Line
  BY ElementOfSeq
<1>3. /\ Picked(lines, at) \in [1..Len(at) -> Line]
      /\ \A k \in 1..Len(at) : Picked(lines, at)[k] = lines[at[k]]
  BY <1>2 DEF Picked
<1>4. Picked(lines, at) \in Seq(Line)
  BY <1>1, <1>3
<1>5. Len(Picked(lines, at)) = Len(at)
  BY <1>1, <1>3, <1>4, LenProperties
<1> QED BY <1>3, <1>4, <1>5

\* One more line of the log, let through or not.
LEMMA SelectedMore ==
  ASSUME NEW lines, NEW r \in Nat, NEW at \in Seq(Nat), NEW title, Selected(lines, r, at, title),
         lines[r + 1].is = "text" => lines[r + 1].title = title
  PROVE  Selected(lines, r + 1, Append(at, r + 1), title)
<1> DEFINE more == Append(at, r + 1)
<1>1. /\ Len(at) \in Nat /\ Len(more) = Len(at) + 1 /\ more[Len(at) + 1] = r + 1
      /\ \A k \in 1..Len(at) : more[k] = at[k]
  BY AppendProperties
<1> HIDE DEF more
<1>2. \A k \in 1..Len(more) : k \in 1..Len(at) \/ k = Len(at) + 1
  BY <1>1
<1>3. \A p \in 1..(r + 1) : p \in 1..r \/ p = r + 1
  OBVIOUS
<1>4. ASSUME NEW k \in 1..Len(more)
      PROVE  more[k] \in 1..(r + 1) /\ (lines[more[k]].is = "text" => lines[more[k]].title = title)
  <2>1. CASE k \in 1..Len(at)
    <3>1. at[k] \in 1..r /\ (lines[at[k]].is = "text" => lines[at[k]].title = title)
      BY <2>1 DEF Selected
    <3> QED BY <1>1, <2>1, <3>1
  <2>2. CASE k = Len(at) + 1
    BY <1>1, <2>2
  <2> QED BY <1>2, <2>1, <2>2
<1>5. ASSUME NEW i \in 1..Len(more), NEW k \in 1..Len(more), i < k
      PROVE  more[i] < more[k]
  <2>1. i \in 1..Len(at) /\ more[i] = at[i] /\ at[i] \in 1..r
    BY <1>1, <1>5 DEF Selected
  <2>2. CASE k \in 1..Len(at)
    BY <1>1, <1>5, <2>1, <2>2 DEF Selected
  <2>3. CASE k = Len(at) + 1
    BY <1>1, <2>1, <2>3
  <2> QED BY <1>2, <2>2, <2>3
<1>6. ASSUME NEW p \in 1..(r + 1), lines[p].is = "text", lines[p].title = title
      PROVE  \E k \in 1..Len(more) : more[k] = p
  <2>1. CASE p \in 1..r
    <3>1. PICK k \in 1..Len(at) : at[k] = p
      BY <1>6, <2>1 DEF Selected
    <3>2. k \in 1..Len(more)
      BY <1>1
    <3> QED BY <1>1, <3>1, <3>2
  <2>2. CASE p = r + 1
    <3>1. Len(at) + 1 \in 1..Len(more)
      BY <1>1
    <3> QED BY <1>1, <2>2, <3>1
  <2> QED BY <1>3, <2>1, <2>2
<1>7. Selected(lines, r + 1, more, title)
  BY <1>4, <1>5, <1>6 DEF Selected
<1> QED BY <1>7 DEF more

LEMMA SelectedSkips ==
  ASSUME NEW lines, NEW r \in Nat, NEW at, NEW title, Selected(lines, r, at, title),
         lines[r + 1].is = "text" => lines[r + 1].title # title
  PROVE  Selected(lines, r + 1, at, title)
<1>1. \A p \in 1..(r + 1) : p \in 1..r \/ p = r + 1
  OBVIOUS
<1>2. 1..r \subseteq 1..(r + 1)
  OBVIOUS
<1> QED BY <1>1, <1>2 DEF Selected

\* A section opened just now.
LEMMA JustOpened ==
  ASSUME NEW lines \in Seq(Line), NEW p \in 0..(Len(lines) - 1), lines[p + 1].is = "open"
  PROVE  Balance(lines, p + 1, p + 1) = 1
<1>1. p \in Nat /\ p + 1 \in 1..(p + 1)
  OBVIOUS
<1>2. Balance(lines, p + 1, p) = 0
  BY <1>1, BalanceEmpty
<1>3. Balance(lines, p + 1, p + 1) = Balance(lines, p + 1, p) + 1
  BY <1>1, BalanceNext
<1> QED BY <1>2, <1>3

\* A line let through: the view is followed by the same line as the log.
LEMMA LockstepMore ==
  ASSUME NEW lines \in Seq(Line), NEW r \in 0..(Len(lines) - 1), NEW at \in Seq(Nat),
         \A k \in 1..Len(at) : at[k] \in 1..r, Lockstep(lines, r, at, 0)
  PROVE  Lockstep(lines, r + 1, Append(at, r + 1), 0)
<1> DEFINE more == Append(at, r + 1)
           view == Picked(lines, at)
           next == Picked(lines, more)
           n    == Len(at)
<1>1. /\ n \in Nat /\ Len(more) = n + 1 /\ more[n + 1] = r + 1 /\ more \in Seq(Nat)
      /\ \A k \in 1..n : more[k] = at[k]
      /\ r \in Nat /\ r + 1 \in 1..Len(lines)
  <2>1. Len(lines) \in Nat /\ r \in Nat /\ r + 1 \in Nat
    OBVIOUS
  <2>2. r + 1 \in 1..Len(lines)
    BY <2>1
  <2> QED BY <2>1, <2>2, AppendProperties
<1> HIDE DEF more
<1>2. \A k \in 1..(n + 1) : k \in 1..n \/ k = n + 1
  BY <1>1
<1>3. \A k \in 1..n : at[k] \in 1..r /\ at[k] \in 1..(r + 1) /\ at[k] \in 1..Len(lines) /\ k \in 1..(n + 1)
  BY <1>1
<1>4. /\ view \in Seq(Line) /\ Len(view) = n
      /\ \A k \in 1..n : view[k] = lines[at[k]]
  BY <1>3, PickedLines
<1>5. /\ next \in Seq(Line) /\ Len(next) = n + 1
      /\ \A k \in 1..(n + 1) : next[k] = lines[more[k]]
  <2>1. \A k \in 1..Len(more) : more[k] \in 1..Len(lines)
    BY <1>1, <1>2, <1>3
  <2> QED BY <1>1, <2>1, PickedLines
<1>6. \A k \in 1..n : next[k] = view[k]
  BY <1>1, <1>3, <1>4, <1>5
<1>7. next[n + 1] = lines[r + 1] /\ lines[r + 1].is \in {"open", "close", "text"}
  <2>1. lines[r + 1] \in Line
    BY <1>1, ElementOfSeq
  <2>2. n + 1 \in 1..(n + 1)
    BY <1>1
  <2> QED BY <1>1, <1>5, <2>1, <2>2 DEF Line
<1>8. /\ \A i \in 1..n : i \in Around(view, n) <=> at[i] \in Around(lines, r)
      /\ \A i \in Around(view, n) : Balance(lines, at[i], r) = Balance(view, i, n)
      /\ \A p \in Around(lines, r) : \E i \in 1..n : p = at[i]
      /\ \A k \in 1..n : lines[at[k]].is = "text" =>
           Around(lines, at[k]) = {at[i] : i \in Around(view, k)}
  <2>1. Around(view, n) \subseteq 1..n
    BY DEF Around
  <2>2. \A i \in Around(view, n) : Balance(view, i, n) + 0 = Balance(view, i, n)
    BY <2>1, MarkedFinite, <1>1 DEF Balance
  <2>3. /\ \A i \in 1..n : i \in Around(view, n) <=> at[i] \in Around(lines, r)
        /\ \A i \in Around(view, n) : Balance(lines, at[i], r) = Balance(view, i, n) + 0
        /\ \A p \in Around(lines, r) :
             (\E i \in 1..n : p = at[i]) \/ (0 = 1 /\ Balance(lines, p, r) = 1)
    BY DEF Lockstep
  <2>4. \A k \in 1..n : lines[at[k]].is = "text" =>
          Around(lines, at[k]) = {at[i] : i \in Around(view, k)}
    BY DEF Lockstep
  <2> HIDE DEF view
  <2>5. /\ \A i \in Around(view, n) : Balance(lines, at[i], r) = Balance(view, i, n)
        /\ \A p \in Around(lines, r) : \E i \in 1..n : p = at[i]
    BY <2>2, <2>3
  <2> QED BY <2>3, <2>4, <2>5
<1> HIDE DEF view, next
<1>9. /\ \A k \in 1..n : Around(next, k) = Around(view, k)
      /\ Around(next, n) = Around(view, n)
      /\ \A i \in 1..n : Balance(next, i, n) = Balance(view, i, n)
  <2>1. \A k \in 1..n : k \in Nat /\ \A j \in 1..k : next[j] = view[j]
    BY <1>1, <1>6
  <2>2. \A k \in 1..n : Around(next, k) = Around(view, k)
    BY <2>1, SamePrefix
  <2>3. /\ Around(next, n) = Around(view, n)
        /\ \A i \in 1..n : Balance(next, i, n) = Balance(view, i, n)
    BY <1>1, <1>6, SamePrefix
  <2> QED BY <2>2, <2>3
<1>10. n \in 0..(Len(next) - 1) /\ Around(view, n) \subseteq 1..n /\ Around(lines, r) \subseteq 1..r
  BY <1>1, <1>5 DEF Around
<1>11. \A k \in 1..n : lines[more[k]].is = "text" =>
         Around(lines, more[k]) = {more[i] : i \in Around(next, k)}
  <2> SUFFICES ASSUME NEW k \in 1..n, lines[at[k]].is = "text"
               PROVE  Around(lines, at[k]) = {more[i] : i \in Around(next, k)}
    BY <1>1
  <2>1. Around(view, k) \subseteq 1..k /\ \A i \in 1..k : i \in 1..n
    BY <1>1 DEF Around
  <2>2. \A i \in Around(view, k) : more[i] = at[i]
    BY <1>1, <2>1
  <2>3. {more[i] : i \in Around(view, k)} = {at[i] : i \in Around(view, k)}
    BY <2>2
  <2> QED BY <1>8, <1>9, <2>3
<1>12. \A i \in 1..n : /\ Balance(next, i, n) \in Int /\ Balance(lines, at[i], r) \in Int
                       /\ lines[r + 1].is = "open" =>
                            /\ Balance(next, i, n + 1) = Balance(next, i, n) + 1
                            /\ Balance(lines, at[i], r + 1) = Balance(lines, at[i], r) + 1
                       /\ lines[r + 1].is = "close" =>
                            /\ Balance(next, i, n + 1) = Balance(next, i, n) - 1
                            /\ Balance(lines, at[i], r + 1) = Balance(lines, at[i], r) - 1
                       /\ lines[r + 1].is = "text" =>
                            /\ Balance(next, i, n + 1) = Balance(next, i, n)
                            /\ Balance(lines, at[i], r + 1) = Balance(lines, at[i], r)
  BY <1>3, <1>5, <1>7, <1>10, BalanceNext
<1>13. \A i \in 1..n : i \in Around(next, n) => Balance(next, i, n) = Balance(lines, at[i], r)
  BY <1>8, <1>9
\* It may be a line of text,
<1>14. ASSUME lines[r + 1].is = "text"
       PROVE  Lockstep(lines, r + 1, more, 0)
  <2>1. \A i : i \in Around(next, n + 1) <=> i \in Around(next, n)
    BY <1>5, <1>7, <1>10, <1>14, AroundNext
  <2>2. \A p : p \in Around(lines, r + 1) <=> p \in Around(lines, r)
    BY <1>14, AroundNext
  <2>3. n + 1 \notin Around(next, n) /\ r + 1 \notin Around(lines, r)
    BY <1>1, <1>9, <1>10
  <2>4. \A i \in 1..(n + 1) : i \in Around(next, n + 1) <=> more[i] \in Around(lines, r + 1)
    BY <1>1, <1>2, <1>8, <1>9, <2>1, <2>2, <2>3
  <2>5. \A i \in Around(next, n + 1) : Balance(lines, more[i], r + 1) = Balance(next, i, n + 1) + 0
    <3> SUFFICES ASSUME NEW i \in 1..n, i \in Around(next, n)
                 PROVE  Balance(lines, at[i], r + 1) = Balance(next, i, n + 1) + 0
      BY <1>1, <1>9, <1>10, <2>1
    <3> QED BY <1>12, <1>13, <1>14
  <2>6. \A p \in Around(lines, r + 1) : \E i \in 1..(n + 1) : p = more[i]
    BY <1>1, <1>3, <1>8, <2>2
  <2>7. Around(lines, r + 1) = {more[i] : i \in Around(next, n + 1)}
    <3>1. \A i \in Around(next, n + 1) : i \in 1..(n + 1)
      BY <1>3, <1>9, <1>10, <2>1
    <3> QED BY <2>4, <2>6, <3>1
  <2>8. \A k \in 1..(n + 1) : lines[more[k]].is = "text" =>
          Around(lines, more[k]) = {more[i] : i \in Around(next, k)}
    BY <1>1, <1>2, <1>11, <2>7
  <2> QED BY <1>1, <2>4, <2>5, <2>6, <2>8 DEF Lockstep, next
\* open a section,
<1>15. ASSUME lines[r + 1].is = "open"
       PROVE  Lockstep(lines, r + 1, more, 0)
  <2>1. \A i : i \in Around(next, n + 1) <=> i \in Around(next, n) \/ i = n + 1
    BY <1>5, <1>7, <1>10, <1>15, AroundNext
  <2>2. \A p : p \in Around(lines, r + 1) <=> p \in Around(lines, r) \/ p = r + 1
    BY <1>15, AroundNext
  <2>3. \A i \in 1..n : at[i] # r + 1 /\ i # n + 1
    BY <1>1, <1>3
  <2>4. \A i \in 1..(n + 1) : i \in Around(next, n + 1) <=> more[i] \in Around(lines, r + 1)
    BY <1>1, <1>2, <1>8, <1>9, <2>1, <2>2, <2>3
  <2>5. \A i \in Around(next, n + 1) : Balance(lines, more[i], r + 1) = Balance(next, i, n + 1) + 0
    <3>1. ASSUME NEW i \in 1..n, i \in Around(next, n)
          PROVE  Balance(lines, at[i], r + 1) = Balance(next, i, n + 1) + 0
      BY <1>12, <1>13, <1>15, <3>1
    <3>2. Balance(lines, r + 1, r + 1) = 1
      BY <1>15, JustOpened
    <3>3. Balance(next, n + 1, n + 1) = 1
      BY <1>5, <1>7, <1>10, <1>15, JustOpened
    <3> QED BY <1>1, <1>9, <1>10, <2>1, <3>1, <3>2, <3>3
  <2>6. \A p \in Around(lines, r + 1) : \E i \in 1..(n + 1) : p = more[i]
    <3>1. n + 1 \in 1..(n + 1)
      BY <1>1
    <3> QED BY <1>1, <1>3, <1>8, <2>2, <3>1
  <2>7. \A k \in 1..(n + 1) : lines[more[k]].is = "text" =>
          Around(lines, more[k]) = {more[i] : i \in Around(next, k)}
    BY <1>1, <1>2, <1>11, <1>15
  <2> QED BY <1>1, <2>4, <2>5, <2>6, <2>7 DEF Lockstep, next
\* or close one.
<1>16. ASSUME lines[r + 1].is = "close"
       PROVE  Lockstep(lines, r + 1, more, 0)
  <2>1. \A i : i \in Around(next, n + 1) <=> i \in Around(next, n) /\ Balance(next, i, n) > 1
    BY <1>5, <1>7, <1>10, <1>16, AroundNext
  <2>2. \A p : p \in Around(lines, r + 1) <=> p \in Around(lines, r) /\ Balance(lines, p, r) > 1
    BY <1>16, AroundNext
  <2>3. n + 1 \notin Around(next, n) /\ r + 1 \notin Around(lines, r)
    BY <1>1, <1>9, <1>10
  <2>4. ASSUME NEW i \in 1..(n + 1)
        PROVE  i \in Around(next, n + 1) <=> more[i] \in Around(lines, r + 1)
    <3>1. CASE i \in 1..n
      <4>1. i \in Around(next, n) <=> at[i] \in Around(lines, r)
        BY <1>8, <1>9, <3>1
      <4> QED BY <1>1, <1>13, <2>1, <2>2, <3>1, <4>1
    <3>2. CASE i = n + 1
      BY <1>1, <2>1, <2>2, <2>3, <3>2
    <3> QED BY <1>2, <3>1, <3>2
  <2>5. \A i \in Around(next, n + 1) : Balance(lines, more[i], r + 1) = Balance(next, i, n + 1) + 0
    <3> SUFFICES ASSUME NEW i \in 1..n, i \in Around(next, n)
                 PROVE  Balance(lines, at[i], r + 1) = Balance(next, i, n + 1) + 0
      BY <1>1, <1>9, <1>10, <2>1
    <3> QED BY <1>12, <1>13, <1>16
  <2>6. \A p \in Around(lines, r + 1) : \E i \in 1..(n + 1) : p = more[i]
    BY <1>1, <1>3, <1>8, <2>2
  <2>7. \A k \in 1..(n + 1) : lines[more[k]].is = "text" =>
          Around(lines, more[k]) = {more[i] : i \in Around(next, k)}
    BY <1>1, <1>2, <1>11, <1>16
  <2> QED BY <1>1, <2>4, <2>5, <2>6, <2>7 DEF Lockstep, next
<1>17. Lockstep(lines, r + 1, more, 0)
  BY <1>7, <1>14, <1>15, <1>16
<1> QED BY <1>17 DEF more

\* A line left out: text, or what opens or closes a response.
LEMMA LockstepSkips ==
  ASSUME NEW lines \in Seq(Line), NEW r \in 0..(Len(lines) - 1), NEW at \in Seq(Nat),
         \A k \in 1..Len(at) : at[k] \in 1..r, NEW less \in {0, 1}, Lockstep(lines, r, at, less)
  PROVE  /\ lines[r + 1].is = "text" => Lockstep(lines, r + 1, at, less)
         /\ lines[r + 1].is = "open" /\ less = 0 => Lockstep(lines, r + 1, at, 1)
         /\ lines[r + 1].is = "close" /\ less = 1 => Lockstep(lines, r + 1, at, 0)
<1> DEFINE view == Picked(lines, at)
           n    == Len(at)
<1>1. n \in Nat /\ r \in Nat /\ \A k \in 1..n : at[k] \in 1..(r + 1) /\ at[k] # r + 1
  OBVIOUS
<1>2. Around(view, n) \subseteq 1..n /\ Around(lines, r) \subseteq 1..r
  BY <1>1 DEF Around
<1> HIDE DEF view
<1>3. /\ \A i \in 1..n : i \in Around(view, n) <=> at[i] \in Around(lines, r)
      /\ \A i \in Around(view, n) : Balance(lines, at[i], r) = Balance(view, i, n) + less
      /\ \A p \in Around(lines, r) :
           (\E i \in 1..n : p = at[i]) \/ (less = 1 /\ Balance(lines, p, r) = 1)
      /\ \A k \in 1..n : lines[at[k]].is = "text" =>
           Around(lines, at[k]) = {at[i] : i \in Around(view, k)}
  BY DEF Lockstep, view
<1>4. \A i \in Around(view, n) : Balance(view, i, n) \in Int /\ Balance(view, i, n) > 0
  <2>1. \A i \in 1..n : i \in Int /\ n \in Int
    BY <1>1
  <2>2. \A i \in 1..n : Balance(view, i, n) \in Int
    BY <2>1, MarkedFinite DEF Balance
  <2>3. \A i \in 1..n : n \in i..n
    BY <1>1
  <2>4. \A i \in Around(view, n) : Balance(view, i, n) > 0
    BY <1>2, <2>3 DEF Around
  <2> QED BY <1>2, <2>2, <2>4
<1>5. \A q \in 1..(r + 1) :
        /\ Balance(lines, q, r) \in Int
        /\ lines[r + 1].is = "open"  => Balance(lines, q, r + 1) = Balance(lines, q, r) + 1
        /\ lines[r + 1].is = "close" => Balance(lines, q, r + 1) = Balance(lines, q, r) - 1
        /\ lines[r + 1].is = "text"  => Balance(lines, q, r + 1) = Balance(lines, q, r)
  BY BalanceNext
<1>6. \A q \in Around(lines, r) : q \in 1..(r + 1)
  BY <1>1, <1>2
<1>7. ASSUME lines[r + 1].is = "text"
      PROVE  Lockstep(lines, r + 1, at, less)
  <2>1. Around(lines, r + 1) = Around(lines, r)
    <3>1. \A p : p \in Around(lines, r + 1) <=> p \in Around(lines, r)
      BY <1>7, AroundNext
    <3> QED BY <3>1
  <2>2. \A i \in Around(view, n) : Balance(lines, at[i], r + 1) = Balance(view, i, n) + less
    BY <1>1, <1>2, <1>3, <1>5, <1>7
  <2>3. \A p \in Around(lines, r + 1) :
          (\E i \in 1..n : p = at[i]) \/ (less = 1 /\ Balance(lines, p, r + 1) = 1)
    BY <1>3, <1>5, <1>6, <1>7, <2>1
  <2> QED BY <1>3, <2>1, <2>2, <2>3 DEF Lockstep, view
<1>8. ASSUME lines[r + 1].is = "open", less = 0
      PROVE  Lockstep(lines, r + 1, at, 1)
  <2>1. \A p : p \in Around(lines, r + 1) <=> p \in Around(lines, r) \/ p = r + 1
    BY <1>8, AroundNext
  <2>2. \A i \in 1..n : i \in Around(view, n) <=> at[i] \in Around(lines, r + 1)
    BY <1>1, <1>3, <2>1
  <2>3. \A i \in Around(view, n) : Balance(lines, at[i], r + 1) = Balance(view, i, n) + 1
    <3> SUFFICES ASSUME NEW i \in Around(view, n)
                 PROVE  Balance(lines, at[i], r + 1) = Balance(view, i, n) + 1
      OBVIOUS
    <3>1. Balance(lines, at[i], r) = Balance(view, i, n) + less /\ Balance(view, i, n) \in Int
      BY <1>3, <1>4
    <3>2. Balance(lines, at[i], r + 1) = Balance(lines, at[i], r) + 1
      BY <1>1, <1>2, <1>5, <1>8
    <3> QED BY <1>8, <3>1, <3>2
  <2>4. Balance(lines, r + 1, r + 1) = 1
    BY <1>8, JustOpened
  <2>5. \A p \in Around(lines, r + 1) :
          (\E i \in 1..n : p = at[i]) \/ (1 = 1 /\ Balance(lines, p, r + 1) = 1)
    BY <1>3, <1>8, <2>1, <2>4
  <2> QED BY <1>3, <2>2, <2>3, <2>5 DEF Lockstep, view
<1>9. ASSUME lines[r + 1].is = "close", less = 1
      PROVE  Lockstep(lines, r + 1, at, 0)
  <2>1. \A p : p \in Around(lines, r + 1) <=> p \in Around(lines, r) /\ Balance(lines, p, r) > 1
    BY <1>9, AroundNext
  <2>2. \A i \in Around(view, n) :
          Balance(lines, at[i], r) > 1 /\ Balance(lines, at[i], r + 1) = Balance(view, i, n) + 0
    <3> SUFFICES ASSUME NEW i \in Around(view, n)
                 PROVE  /\ Balance(lines, at[i], r) > 1
                        /\ Balance(lines, at[i], r + 1) = Balance(view, i, n) + 0
      OBVIOUS
    <3>1. /\ Balance(lines, at[i], r) = Balance(view, i, n) + less
          /\ Balance(view, i, n) \in Int /\ Balance(view, i, n) > 0
      BY <1>3, <1>4
    <3>2. Balance(lines, at[i], r + 1) = Balance(lines, at[i], r) - 1
      BY <1>1, <1>2, <1>5, <1>9
    <3> QED BY <1>9, <3>1, <3>2
  <2>3. \A i \in 1..n : i \in Around(view, n) <=> at[i] \in Around(lines, r + 1)
    BY <1>3, <2>1, <2>2
  <2>4. \A p \in Around(lines, r + 1) : \E i \in 1..n : p = at[i]
    BY <1>3, <2>1
  <2> QED BY <1>3, <2>2, <2>3, <2>4 DEF Lockstep, view
<1> QED BY <1>7, <1>8, <1>9

\* Before the first line.
LEMMA NothingRead ==
  ASSUME NEW lines, NEW title
  PROVE  /\ Selected(lines, 0, <<>>, title) /\ Lockstep(lines, 0, <<>>, 0)
         /\ ~InResponse(lines, 0)
<1>1. Len(<<>>) = 0 /\ 1..0 = {}
  OBVIOUS
<1>2. \A other : Around(other, 0) = {}
  BY <1>1 DEF Around
<1> QED BY <1>1, <1>2 DEF Selected, Lockstep, InResponse

\* What project_smt takes a line for is what it is.
LEMMA NextInResponse ==
  ASSUME NEW lines \in Seq(Line), LogShaped(lines), NEW r \in 0..(Len(lines) - 1)
  PROVE  /\ lines[r + 1].is = "text" =>
              /\ InResponse(lines, r) <=> lines[r + 1].title = "reply"
              /\ ~InResponse(lines, r) <=> lines[r + 1].title = "command"
         /\ InResponse(lines, r) => lines[r + 1].is # "open"
         /\ InResponse(lines, r + 1) <=>
              (InResponse(lines, r) \/ IsResponse(lines[r + 1])) /\ lines[r + 1].is # "close"
<1>1. r \in Nat /\ r + 1 \in 1..Len(lines) /\ (r > 0 => r \in 1..Len(lines) /\ r < Len(lines))
      /\ (r + 1 > 1 <=> r > 0) /\ (r + 1) - 1 = r /\ r + 1 > 0
  <2>1. Len(lines) \in Nat
    OBVIOUS
  <2> QED BY <2>1
<1>2. lines[r + 1].is = "text" =>
        /\ lines[r + 1].title \in {"command", "reply"}
        /\ lines[r + 1].title = "reply" <=> r > 0 /\ IsResponse(lines[r])
  BY <1>1 DEF LogShaped
<1>3. r > 0 => /\ IsResponse(lines[r]) => lines[r + 1].is # "open"
               /\ lines[r].is = "text" /\ lines[r].title = "reply" => lines[r + 1].is = "close"
  BY <1>1 DEF LogShaped
<1>4. IsResponse(lines[r + 1]) => lines[r + 1].is = "open"
  BY DEF IsResponse
<1>5. lines[r + 1].is \in {"open", "close", "text"}
  <2>1. lines[r + 1] \in Line
    BY <1>1
  <2> QED BY <2>1 DEF Line
<1> QED BY <1>1, <1>2, <1>3, <1>4, <1>5 DEF InResponse

\* The next line of the log.
LEMMA NextProjected ==
  ASSUME BannersInv, ProjectLine
  PROVE  ProjectInv' /\ out' \in [BOOLEAN -> Seq(Nat)]
<1> DEFINE kept == out[TRUE]
           left == out[FALSE]
           line == body[read + 1]
<1>1. /\ sent /\ source = "log" /\ read < Len(body) /\ read' = read + 1 /\ body' = body
      /\ source' = source
      /\ inside' <=> (inside \/ IsResponse(line)) /\ line.is # "close"
  BY DEF ProjectLine, writeVars, StaysInside, Within
<1>2. /\ out'[TRUE]  = IF inside \/ IsResponse(line) \/ line.is # "text" THEN Append(kept, read + 1) ELSE kept
      /\ out'[FALSE] = IF inside \/ IsResponse(line) THEN left ELSE Append(left, read + 1)
      /\ out' = [keep \in BOOLEAN |-> out'[keep]]
  BY DEF ProjectLine, LetsThrough, Within, IsMarker
<1>3. /\ body \in Seq(Line) /\ Len(body) \in Nat /\ read \in 0..Len(body) /\ inside \in BOOLEAN
      /\ LogShaped(body) /\ out \in [BOOLEAN -> Seq(Nat)]
  BY <1>1 DEF BannersInv, WriteInv, WriteTypes, LogInv, Clear, ViewInv, PageTypes
<1>4. kept \in Seq(Nat) /\ left \in Seq(Nat)
  BY <1>3
<1>5. /\ inside <=> InResponse(body, read)
      /\ Selected(body, read, kept, "reply") /\ Selected(body, read, left, "command")
      /\ Lockstep(body, read, kept, 0)
      /\ Lockstep(body, read, left, IF inside THEN 1 ELSE 0)
  BY <1>1 DEF BannersInv, ViewInv, ProjectInv
<1>6. /\ inside => Lockstep(body, read, left, 1)
      /\ ~inside => Lockstep(body, read, left, 0)
  BY <1>5
<1>7. read \in 0..(Len(body) - 1) /\ read \in Nat /\ read + 1 \in Nat
  BY <1>1, <1>3
<1>8. /\ line.is = "text" => (inside <=> line.title = "reply") /\ (~inside <=> line.title = "command")
      /\ inside => line.is # "open"
      /\ InResponse(body, read + 1) <=> inside'
      /\ IsResponse(line) => line.is = "open"
  BY <1>1, <1>3, <1>5, <1>7, NextInResponse DEF IsResponse
<1>9. line.is \in {"open", "close", "text"}
  <2>1. line \in Line
    BY <1>3, <1>7, ElementOfSeq
  <2> QED BY <2>1 DEF Line
<1>10. \A k \in 1..Len(kept) : kept[k] \in 1..read
  BY <1>5 DEF Selected
<1>11. \A k \in 1..Len(left) : left[k] \in 1..read
  BY <1>5 DEF Selected
<1> HIDE DEF kept, left
<1>12. /\ line.is = "text" /\ line.title = "reply" =>
            Selected(body, read + 1, Append(kept, read + 1), "reply")
       /\ line.is # "text" => Selected(body, read + 1, Append(kept, read + 1), "reply")
       /\ line.is = "text" /\ line.title # "reply" => Selected(body, read + 1, kept, "reply")
       /\ Lockstep(body, read + 1, Append(kept, read + 1), 0)
       /\ line.is = "text" => Lockstep(body, read + 1, kept, 0)
  <2>1. (line.is = "text" => line.title = "reply") => Selected(body, read + 1, Append(kept, read + 1), "reply")
    BY <1>4, <1>5, <1>7, SelectedMore
  <2>2. (line.is = "text" => line.title # "reply") => Selected(body, read + 1, kept, "reply")
    BY <1>4, <1>5, <1>7, SelectedSkips
  <2>3. Lockstep(body, read + 1, Append(kept, read + 1), 0)
    BY <1>3, <1>4, <1>5, <1>7, <1>10, LockstepMore
  <2>4. line.is = "text" => Lockstep(body, read + 1, kept, 0)
    <3>1. 0 \in {0, 1}
      OBVIOUS
    <3> QED BY <1>3, <1>4, <1>5, <1>7, <1>10, <3>1, LockstepSkips
  <2> QED BY <2>1, <2>2, <2>3, <2>4
<1>13. /\ line.is = "text" /\ line.title = "command" => Selected(body, read + 1, Append(left, read + 1), "command")
       /\ line.is # "text" => /\ Selected(body, read + 1, Append(left, read + 1), "command")
                              /\ Selected(body, read + 1, left, "command")
       /\ line.is = "text" /\ line.title # "command" => Selected(body, read + 1, left, "command")
       /\ ~inside => Lockstep(body, read + 1, Append(left, read + 1), 0)
       /\ inside /\ line.is = "text" => Lockstep(body, read + 1, left, 1)
       /\ ~inside /\ line.is = "open" => Lockstep(body, read + 1, left, 1)
       /\ inside /\ line.is = "close" => Lockstep(body, read + 1, left, 0)
  <2>1. (line.is = "text" => line.title = "command") => Selected(body, read + 1, Append(left, read + 1), "command")
    BY <1>4, <1>5, <1>7, SelectedMore
  <2>2. (line.is = "text" => line.title # "command") => Selected(body, read + 1, left, "command")
    BY <1>4, <1>5, <1>7, SelectedSkips
  <2>3. ~inside => Lockstep(body, read + 1, Append(left, read + 1), 0)
    BY <1>3, <1>4, <1>6, <1>7, <1>11, LockstepMore
  <2>4. ASSUME NEW less \in {0, 1}, Lockstep(body, read, left, less)
        PROVE  /\ line.is = "text" => Lockstep(body, read + 1, left, less)
               /\ line.is = "open" /\ less = 0 => Lockstep(body, read + 1, left, 1)
               /\ line.is = "close" /\ less = 1 => Lockstep(body, read + 1, left, 0)
    BY <1>3, <1>4, <1>7, <1>11, <2>4, LockstepSkips
  <2>5. ~inside => (line.is = "open" => Lockstep(body, read + 1, left, 1))
    BY <1>6, <2>4
  <2>6. inside => /\ line.is = "text" => Lockstep(body, read + 1, left, 1)
                  /\ line.is = "close" => Lockstep(body, read + 1, left, 0)
    BY <1>6, <2>4
  <2> QED BY <2>1, <2>2, <2>3, <2>5, <2>6
<1> HIDE DEF line
<1>14. /\ Selected(body, read + 1, out'[TRUE], "reply") /\ Lockstep(body, read + 1, out'[TRUE], 0)
  BY <1>2, <1>8, <1>9, <1>12
<1>15. Selected(body, read + 1, out'[FALSE], "command")
  BY <1>2, <1>8, <1>9, <1>13
<1>16. /\ inside'  => Lockstep(body, read + 1, out'[FALSE], 1)
       /\ ~inside' => Lockstep(body, read + 1, out'[FALSE], 0)
  BY <1>1, <1>2, <1>8, <1>9, <1>13
<1>17. out' \in [BOOLEAN -> Seq(Nat)]
  <2>1. Append(kept, read + 1) \in Seq(Nat) /\ Append(left, read + 1) \in Seq(Nat)
    BY <1>4, <1>7, AppendProperties
  <2>2. out'[TRUE] \in Seq(Nat) /\ out'[FALSE] \in Seq(Nat)
    BY <1>2, <1>4, <2>1
  <2>3. \A keep \in BOOLEAN : out'[keep] \in Seq(Nat)
    BY <2>2
  <2> QED BY <1>2, <2>3
<1>18. ProjectInv'
  BY <1>1, <1>8, <1>14, <1>15, <1>16 DEF ProjectInv
<1> QED BY <1>17, <1>18

----------------------------------------------------------------------------
(* The page                                                                *)

\* What the pages and project_smt do leaves the body and its writers alone.
LEMMA BodyDone ==
  ASSUME WriteInv, UNCHANGED writeVars, sent' \in BOOLEAN
  PROVE  WriteInv'
<1>1. /\ source' = source /\ module' = module /\ busy' = busy /\ items' = items /\ added' = added
      /\ op' = op /\ count' = count /\ replies' = replies /\ wrapper' = wrapper /\ body' = body
  BY DEF writeVars
<1>2. WriteTypes' /\ WritePhases' /\ BodyOpen' /\ LogInv'
  BY <1>1 DEF WriteInv, WriteTypes, WritePhases, BodyOpen, LogInv
<1>3. Texts' = Texts /\ \A p : ItemAt(p)' = ItemAt(p) /\ Outermost(p)' = Outermost(p)
  BY <1>1 DEF Texts, ItemAt, Outermost
<1>4. ASSUME source = "walk"
      PROVE  (\A p \in Texts' : ItemShaped(p)') /\ ItemsKnown' /\ Ordered' /\ Grouped'
  <2>1. (\A p \in Texts : ItemShaped(p)) /\ ItemsKnown /\ Ordered /\ Grouped
    BY <1>4 DEF WriteInv, WalkInv
  <2>2. \A p \in Texts' : ItemShaped(p)'
    BY <1>1, <1>3, <2>1 DEF ItemShaped
  <2>3. ItemsKnown' /\ Ordered'
    BY <1>1, <1>3, <2>1 DEF ItemsKnown, Ordered
  <2>4. Grouped'
    BY <1>1, <1>3, <2>1 DEF Grouped
  <2> QED BY <2>2, <2>3, <2>4
<1> QED BY <1>1, <1>2, <1>4 DEF WriteInv, WalkInv

\* While the body is being written there is nothing to see.
LEMMA NothingSent ==
  ASSUME BannersInv, ~sent, ~sent', UNCHANGED <<projectVars, foldVars, shown>>, WriteInv'
  PROVE  ViewInv'
<1>1. /\ read = 0 /\ ~inside /\ out = [keep \in BOOLEAN |-> <<>>] /\ shown = <<>> /\ returned
      /\ inside \in BOOLEAN /\ FoldInv
  BY DEF BannersInv, ViewInv, PagePhases, PageTypes
<1>2. read' = read /\ inside' = inside /\ out' = out /\ shown' = shown /\ returned' = returned
  BY DEF projectVars, foldVars
<1>3. FoldInv'
  BY <1>1, FoldStep
<1>4. body' \in Seq(Line) /\ Len(body') \in Nat
  BY DEF WriteInv, WriteTypes
<1>5. PageTypes'
  <2>1. <<>> \in Seq(Nat) /\ read' \in 0..Len(body')
    BY <1>1, <1>2, <1>4
  <2>2. out' \in [BOOLEAN -> Seq(Nat)]
    BY <1>1, <1>2, <2>1
  <2>3. shown' \in Seq([at : Seq(Nat), folds : SUBSET Fold])
    BY <1>1, <1>2
  <2> QED BY <1>1, <1>2, <2>1, <2>2, <2>3 DEF PageTypes
<1>6. Len(shown') = 0 /\ 1..0 = {}
  BY <1>1, <1>2
<1>7. PagePhases'
  <2>1. 0 <= Len(Tabs')
    BY DEF Tabs
  <2> QED BY <1>1, <1>2, <1>6, <2>1 DEF PagePhases
<1>8. PagesRight'
  BY <1>6 DEF PagesRight
<1>9. ProjectInv'
  <2>1. out'[TRUE] = <<>> /\ out'[FALSE] = <<>>
    BY <1>1, <1>2
  <2>2. /\ Selected(body', 0, <<>>, "reply") /\ Selected(body', 0, <<>>, "command")
        /\ Lockstep(body', 0, <<>>, 0) /\ ~InResponse(body', 0)
    BY NothingRead
  <2> QED BY <1>1, <1>2, <2>1, <2>2 DEF ProjectInv
<1> QED BY <1>3, <1>5, <1>7, <1>8, <1>9 DEF ViewInv

LEMMA WritingStep ==
  ASSUME BannersInv, WriteInv', ~sent, sent' = sent, UNCHANGED <<projectVars, foldVars, shown>>
  PROVE  BannersInv'
<1>1. ViewInv'
  BY NothingSent
<1> QED BY <1>1 DEF BannersInv

LEMMA ActionsWhileWriting ==
  ASSUME BannersInv,
         \/ \E kind \in ItemKinds, krate \in Crates \union {Local} : AddItem(kind, krate)
         \/ StartFinish \/ PutItem
         \/ FeedDecls \/ CloseOp
         \/ \E isContext \in BOOLEAN, krate \in Crates \union {Local} : OpenOp(isContext, krate)
         \/ \E reply \in BOOLEAN : Respond(reply)
         \/ EndModule
  PROVE  BannersInv'
<1>1. WriteInv /\ (busy \/ items # <<>> => ~sent) /\ (op # "none" => busy)
  BY DEF BannersInv, ViewInv, PagePhases, WriteInv, WritePhases
<1>2. CASE \E kind \in ItemKinds, krate \in Crates \union {Local} : AddItem(kind, krate)
  <2>1. WriteInv'
    BY <1>1, <1>2, AddItemStep
  <2>2. ~sent /\ sent' = sent /\ UNCHANGED <<projectVars, foldVars, shown>>
    BY <1>2 DEF AddItem
  <2> QED BY <2>1, <2>2, WritingStep
<1>3. CASE StartFinish
  <2>1. WriteInv'
    BY <1>1, <1>3, StartFinishStep
  <2>2. ~sent /\ sent' = sent /\ UNCHANGED <<projectVars, foldVars, shown>>
    BY <1>1, <1>3 DEF StartFinish
  <2> QED BY <2>1, <2>2, WritingStep
<1>4. CASE PutItem
  <2>1. WriteInv'
    BY <1>1, <1>4, PutItemStep
  <2>2. ~sent /\ sent' = sent /\ UNCHANGED <<projectVars, foldVars, shown>>
    BY <1>1, <1>4 DEF PutItem
  <2> QED BY <2>1, <2>2, WritingStep
<1>5. CASE FeedDecls
  <2>1. WriteInv'
    BY <1>1, <1>5, FeedDeclsStep
  <2>2. ~sent /\ sent' = sent /\ UNCHANGED <<projectVars, foldVars, shown>>
    BY <1>5 DEF FeedDecls
  <2> QED BY <2>1, <2>2, WritingStep
<1>6. CASE CloseOp
  <2>1. WriteInv'
    BY <1>1, <1>6, CloseOpStep
  <2>2. ~sent /\ sent' = sent /\ UNCHANGED <<projectVars, foldVars, shown>>
    BY <1>1, <1>6 DEF CloseOp
  <2> QED BY <2>1, <2>2, WritingStep
<1>7. CASE \E isContext \in BOOLEAN, krate \in Crates \union {Local} : OpenOp(isContext, krate)
  <2>1. PICK isContext \in BOOLEAN, krate \in Crates \union {Local} : OpenOp(isContext, krate)
    BY <1>7
  <2>2. WriteInv'
    BY <1>1, <2>1, OpenOpStep
  <2>3. ~sent /\ sent' = sent /\ UNCHANGED <<projectVars, foldVars, shown>>
    BY <1>1, <2>1 DEF OpenOp
  <2> QED BY <2>2, <2>3, WritingStep
<1>8. CASE \E reply \in BOOLEAN : Respond(reply)
  <2>1. PICK reply \in BOOLEAN : Respond(reply)
    BY <1>8
  <2>2. WriteInv'
    BY <1>1, <2>1, RespondStep
  <2>3. ~sent /\ sent' = sent /\ UNCHANGED <<projectVars, foldVars, shown>>
    BY <1>1, <2>1 DEF Respond
  <2> QED BY <2>2, <2>3, WritingStep
<1>9. CASE EndModule
  <2>1. WriteInv'
    BY <1>1, <1>9, EndModuleStep
  <2>2. ~sent /\ sent' = sent /\ UNCHANGED <<projectVars, foldVars, shown>>
    BY <1>1, <1>9 DEF EndModule
  <2> QED BY <2>1, <2>2, WritingStep
<1> QED BY <1>2, <1>3, <1>4, <1>5, <1>6, <1>7, <1>8, <1>9

LEMMA WriteStep ==
  ASSUME BannersInv, Write
  PROVE  BannersInv'
<1>1. /\ ~busy /\ items = <<>> /\ ~sent /\ sent' = TRUE
      /\ UNCHANGED <<writeVars, projectVars, foldVars, shown>>
  BY DEF Write
<1>2. WriteInv'
  BY <1>1, BodyDone DEF BannersInv
<1>3. /\ body' = body /\ source' = source /\ busy' = busy /\ items' = items /\ shown' = shown
      /\ read' = read /\ inside' = inside /\ out' = out /\ returned' = returned /\ raw' = raw
  BY <1>1 DEF writeVars, projectVars, foldVars
<1>4. FoldInv'
  BY <1>1, FoldStep DEF BannersInv, ViewInv
<1>5. PageTypes' /\ ProjectInv'
  BY <1>3 DEF BannersInv, ViewInv, PageTypes, ProjectInv
<1>6. shown = <<>> /\ returned
  BY <1>1 DEF BannersInv, ViewInv, PagePhases
<1>7. PagesRight'
  <2>1. Len(shown') = 0 /\ 1..0 = {}
    BY <1>3, <1>6
  <2> QED BY <2>1 DEF PagesRight
<1>8. PagePhases'
  <2>1. Len(shown') <= Len(Tabs')
    BY <1>3, <1>6 DEF Tabs
  <2> QED BY <1>1, <1>3, <1>6, <2>1 DEF PagePhases
<1> QED BY <1>2, <1>4, <1>5, <1>7, <1>8 DEF BannersInv, ViewInv

LEMMA ProjectLineStep ==
  ASSUME BannersInv, ProjectLine
  PROVE  BannersInv'
<1>1. /\ sent /\ source = "log" /\ read < Len(body) /\ read' = read + 1 /\ sent' = sent
      /\ UNCHANGED <<writeVars, foldVars, shown>>
  BY DEF ProjectLine
<1>2. WriteInv'
  BY <1>1, BodyDone DEF BannersInv, WriteInv, WriteTypes
<1>3. /\ body' = body /\ source' = source /\ busy' = busy /\ items' = items /\ shown' = shown
      /\ returned' = returned
  BY <1>1 DEF writeVars, foldVars
<1>4. FoldInv'
  BY <1>1, FoldStep DEF BannersInv, ViewInv
<1>5. ProjectInv' /\ out' \in [BOOLEAN -> Seq(Nat)]
  BY NextProjected
<1>6. shown = <<>> /\ returned /\ ~busy /\ items = <<>>
  <2>1. Len(body) \in Nat /\ read \in Nat
    BY DEF BannersInv, WriteInv, WriteTypes, ViewInv, PageTypes
  <2> QED BY <1>1, <2>1 DEF BannersInv, ViewInv, PagePhases
<1>7. PageTypes'
  <2>1. inside' \in BOOLEAN
    BY DEF ProjectLine, StaysInside
  <2>2. read' \in 0..Len(body')
    BY <1>1, <1>3 DEF BannersInv, WriteInv, WriteTypes, ViewInv, PageTypes
  <2> QED BY <1>3, <1>5, <2>1, <2>2 DEF BannersInv, ViewInv, PageTypes
<1>8. Len(shown') = 0 /\ 1..0 = {}
  BY <1>3, <1>6
<1>9. PagesRight'
  BY <1>8 DEF PagesRight
<1>10. PagePhases'
  <2>1. 0 <= Len(Tabs')
    BY DEF Tabs
  <2> QED BY <1>1, <1>3, <1>6, <1>8, <2>1 DEF PagePhases
<1> QED BY <1>2, <1>4, <1>5, <1>7, <1>9, <1>10 DEF BannersInv, ViewInv

\* What is sent: lines of the body, in order, and around them the same sections.
Faithful(lines, at) ==
  /\ at \in Seq(Nat)
  /\ \A k \in 1..Len(at) : at[k] \in 1..Len(lines)
  /\ \A i, k \in 1..Len(at) : i < k => at[i] < at[k]
  /\ Around(Picked(lines, at), Len(at)) = {}
  /\ \A k \in 1..Len(at) : lines[at[k]].is = "text" =>
       Around(lines, at[k]) = {at[i] : i \in Around(Picked(lines, at), k)}

LEMMA ViewFaithful ==
  ASSUME NEW lines, NEW at \in Seq(Nat), NEW title, Selected(lines, Len(lines), at, title),
         Lockstep(lines, Len(lines), at, 0), Around(lines, Len(lines)) = {}
  PROVE  Faithful(lines, at)
<1>1. Around(Picked(lines, at), Len(at)) \subseteq 1..Len(at)
  BY DEF Around
<1>2. Around(Picked(lines, at), Len(at)) = {}
  BY <1>1 DEF Lockstep
<1>3. \A k \in 1..Len(at) : lines[at[k]].is = "text" =>
        Around(lines, at[k]) = {at[i] : i \in Around(Picked(lines, at), k)}
  BY DEF Lockstep
<1> QED BY <1>2, <1>3 DEF Faithful, Selected

LEMMA WholeFaithful ==
  ASSUME NEW lines \in Seq(Line), Around(lines, Len(lines)) = {}
  PROVE  Faithful(lines, [k \in 1..Len(lines) |-> k])
<1> DEFINE at == [k \in 1..Len(lines) |-> k]
<1>1. /\ Len(lines) \in Nat /\ \A k \in 1..Len(lines) : at[k] = k /\ k \in Nat
  OBVIOUS
<1>2. at \in Seq(Nat)
  BY <1>1
<1>3. Len(at) = Len(lines)
  BY <1>1, <1>2, LenProperties
<1> HIDE DEF at
<1>4. Picked(lines, at) = lines
  <2>1. /\ Picked(lines, at) \in Seq(Line) /\ Len(Picked(lines, at)) = Len(lines)
        /\ \A k \in 1..Len(lines) : Picked(lines, at)[k] = lines[k]
    BY <1>1, <1>2, <1>3, PickedLines
  <2> HIDE DEF Picked
  <2> QED BY <2>1, SeqEqual
<1>5. ASSUME NEW k \in 1..Len(at)
      PROVE  Around(lines, at[k]) = {at[i] : i \in Around(lines, k)}
  <2>1. Around(lines, k) \subseteq 1..k /\ \A i \in 1..k : i \in 1..Len(lines)
    BY <1>1, <1>3 DEF Around
  <2>2. \A i \in Around(lines, k) : at[i] = i
    BY <1>1, <2>1
  <2>3. {at[i] : i \in Around(lines, k)} = Around(lines, k)
    BY <2>2
  <2> QED BY <1>1, <1>3, <2>3
<1>6. Faithful(lines, at)
  <2>1. /\ \A k \in 1..Len(at) : at[k] \in 1..Len(lines)
        /\ \A i, k \in 1..Len(at) : i < k => at[i] < at[k]
    BY <1>1, <1>3
  <2>2. Around(Picked(lines, at), Len(at)) = {}
    BY <1>3, <1>4
  <2>3. \A k \in 1..Len(at) : Around(lines, at[k]) = {at[i] : i \in Around(Picked(lines, at), k)}
    BY <1>4, <1>5
  <2> QED BY <1>2, <2>1, <2>2, <2>3 DEF Faithful
<1> QED BY <1>6 DEF at

\* What each tab shows.
LEMMA TabsOf ==
  /\ source = "log" =>
       /\ Len(Tabs) = 3 /\ Tabs[1] = "query" /\ Tabs[2] = "response" /\ Tabs[3] = "whole"
  /\ source # "log" => Len(Tabs) = 1 /\ Tabs[1] = "whole"
BY DEF Tabs

LEMMA NumbersOf ==
  /\ Numbers("query") = out[FALSE]
  /\ Numbers("response") = out[TRUE]
  /\ Numbers("whole") = [k \in DOMAIN body |-> k]
<1>1. ("query" = "response") = FALSE /\ ("response" = "response") = TRUE
  OBVIOUS
<1> QED BY <1>1 DEF Numbers

LEMMA NextTabFaithful ==
  ASSUME BannersInv, sent, source = "log" => read = Len(body), NEW t \in 1..Len(Tabs)
  PROVE  /\ Faithful(body, Numbers(Tabs[t]))
         /\ Sent(Tabs[t]) = Picked(body, Numbers(Tabs[t]))
<1>1. body \in Seq(Line) /\ DOMAIN body = 1..Len(body) /\ Len(body) \in Nat
  BY DEF BannersInv, WriteInv, WriteTypes
<1>2. Around(body, Len(body)) = {}
  <2>1. op = "none" /\ wrapper = NoRun
    BY DEF BannersInv, ViewInv, PagePhases, WriteInv, WritePhases
  <2>2. PICK w : Wrapped(body, wrapper, w)
    BY <2>1 DEF BannersInv, WriteInv, BodyOpen
  <2>3. Sound(body, <<>>)
    BY <2>1, <2>2 DEF Wrapped, Outer
  <2>4. Around(body, Len(body)) = {<<>>[n] : n \in 1..Len(<<>>)}
    BY <2>3 DEF Sound, Opened
  <2>5. 1..Len(<<>>) = {}
    OBVIOUS
  <2> QED BY <2>4, <2>5
<1>3. Faithful(body, Numbers("whole"))
  BY <1>1, <1>2, NumbersOf, WholeFaithful
<1>4. ASSUME source = "log"
      PROVE  Faithful(body, out[TRUE]) /\ Faithful(body, out[FALSE])
  <2>1. read = Len(body) /\ Clear(body)
    BY <1>4 DEF BannersInv, WriteInv, LogInv
  <2>2. /\ inside <=> InResponse(body, Len(body))
        /\ Selected(body, Len(body), out[TRUE], "reply")
        /\ Selected(body, Len(body), out[FALSE], "command")
        /\ Lockstep(body, Len(body), out[TRUE], 0)
        /\ Lockstep(body, Len(body), out[FALSE], IF inside THEN 1 ELSE 0)
    BY <1>4, <2>1 DEF BannersInv, ViewInv, ProjectInv
  <2>3. ~InResponse(body, Len(body))
    BY <2>1 DEF InResponse, Clear, Free
  <2>4. Lockstep(body, Len(body), out[FALSE], 0)
    BY <2>2, <2>3
  <2>5. out[TRUE] \in Seq(Nat) /\ out[FALSE] \in Seq(Nat)
    BY DEF BannersInv, ViewInv, PageTypes
  <2> QED BY <1>2, <2>2, <2>4, <2>5, ViewFaithful
<1>5. Faithful(body, Numbers(Tabs[t]))
  <2>1. CASE source = "log"
    <3>1. t = 1 \/ t = 2 \/ t = 3
      <4>1. Len(Tabs) = 3
        BY <2>1, TabsOf
      <4>2. t \in 1..3
        BY <4>1
      <4> QED BY <4>2
    <3> QED BY <1>3, <1>4, <2>1, <3>1, TabsOf, NumbersOf
  <2>2. CASE source # "log"
    <3>1. t = 1
      <4>1. Len(Tabs) = 1
        BY <2>2, TabsOf
      <4>2. t \in 1..1
        BY <4>1
      <4> QED BY <4>2
    <3> QED BY <1>3, <2>2, <3>1, TabsOf
  <2> QED BY <2>1, <2>2
<1>6. Sent(Tabs[t]) = Picked(body, Numbers(Tabs[t]))
  <2>1. DOMAIN Numbers(Tabs[t]) = 1..Len(Numbers(Tabs[t]))
    BY <1>5 DEF Faithful
  <2> QED BY <2>1 DEF Sent, Picked
<1> QED BY <1>5, <1>6

LEMMA StartTabStep ==
  ASSUME BannersInv, StartTab
  PROVE  BannersInv'
<1>1. /\ sent /\ (source = "log" => read = Len(body)) /\ Len(shown) # Len(Tabs) /\ returned
      /\ Begin(Sent(NextTab)) /\ sent' = sent /\ UNCHANGED <<writeVars, projectVars, shown>>
  BY DEF StartTab, AllShown
<1>2. WriteInv'
  BY <1>1, BodyDone DEF BannersInv, WriteInv, WriteTypes
<1>3. /\ body' = body /\ source' = source /\ busy' = busy /\ items' = items /\ shown' = shown
      /\ read' = read /\ inside' = inside /\ out' = out
  BY <1>1 DEF writeVars, projectVars
<1>4. /\ Len(shown) < Len(Tabs) /\ Len(shown) + 1 \in 1..Len(Tabs) /\ Len(shown) \in Nat
      /\ NextTab = Tabs[Len(shown) + 1]
  <2>1. Len(shown) <= Len(Tabs) /\ Len(shown) \in Nat
    BY DEF BannersInv, ViewInv, PagePhases, PageTypes
  <2>2. Len(Tabs) \in Nat
    BY TabsOf
  <2> QED BY <1>1, <2>1, <2>2 DEF NextTab
<1>5. Sent(NextTab) \in Seq(Line)
  <2>1. /\ Faithful(body, Numbers(NextTab)) /\ Sent(NextTab) = Picked(body, Numbers(NextTab))
    BY <1>1, <1>4, NextTabFaithful
  <2>2. body \in Seq(Line)
    BY DEF BannersInv, WriteInv, WriteTypes
  <2> QED BY <2>1, <2>2, PickedLines DEF Faithful
<1>6. FoldInv'
  <2>1. FoldInit'
    BY <1>1, <1>5, BeginsAnew
  <2> QED BY <2>1, NothingYet, PTL
<1>7. PageTypes' /\ ProjectInv'
  BY <1>3 DEF BannersInv, ViewInv, PageTypes, ProjectInv
<1>8. PagesRight'
  BY <1>3 DEF BannersInv, ViewInv, PagesRight, Numbers, Tabs
<1>9. PagePhases'
  <2>1. raw' = Sent(NextTab)
    BY <1>1 DEF Begin
  <2>2. raw' = Sent(NextTab)'
    BY <1>3, <2>1 DEF Sent, NextTab, Numbers, Tabs
  <2>3. /\ sent => ~busy /\ items = <<>>
        /\ Len(shown) <= Len(Tabs)
    BY DEF BannersInv, ViewInv, PagePhases
  <2>4. Tabs' = Tabs
    BY <1>3 DEF Tabs
  <2> QED BY <1>1, <1>3, <1>4, <2>2, <2>3, <2>4 DEF PagePhases
<1> QED BY <1>2, <1>6, <1>7, <1>8, <1>9 DEF BannersInv, ViewInv

LEMMA ScanLineStep ==
  ASSUME BannersInv, ScanLine
  PROVE  BannersInv'
<1>1. /\ ScanOpen \/ ScanText \/ ScanClose
      /\ sent' = sent /\ UNCHANGED <<writeVars, projectVars, shown>>
  BY DEF ScanLine
<1>2. WriteInv'
  BY <1>1, BodyDone DEF BannersInv, WriteInv, WriteTypes
<1>3. /\ body' = body /\ source' = source /\ busy' = busy /\ items' = items /\ shown' = shown
      /\ read' = read /\ inside' = inside /\ out' = out
  BY <1>1 DEF writeVars, projectVars
<1>4. raw' = raw /\ returned' = returned /\ ~returned
  BY <1>1 DEF ScanOpen, ScanText, ScanClose, Scan
<1>5. FoldInv'
  BY <1>1, FoldStep DEF BannersInv, ViewInv
<1>6. PageTypes' /\ ProjectInv'
  BY <1>3 DEF BannersInv, ViewInv, PageTypes, ProjectInv
<1>7. PagesRight'
  BY <1>3 DEF BannersInv, ViewInv, PagesRight, Numbers, Tabs
<1>8. PagePhases'
  <2>1. Tabs' = Tabs /\ Sent(NextTab)' = Sent(NextTab)
    BY <1>3 DEF Sent, NextTab, Numbers, Tabs
  <2>2. PagePhases
    BY DEF BannersInv, ViewInv
  <2> QED BY <1>1, <1>3, <1>4, <2>1, <2>2 DEF PagePhases
<1> QED BY <1>2, <1>5, <1>6, <1>7, <1>8 DEF BannersInv, ViewInv

\* The folds of a page are those of the scan, but the replies open expanded.
LEMMA FoldsShown ==
  ASSUME FoldTypes', NEW tab
  PROVE  /\ \A f \in AutoFolded(tab) : \E g \in folds' :
              /\ f.from = g.from /\ f.to = g.to
              /\ f.auto <=> tab # "response" /\ g.auto
         /\ \A g \in folds' : \E f \in AutoFolded(tab) : f.from = g.from /\ f.to = g.to
         /\ AutoFolded(tab) \in SUBSET Fold
<1>1. folds' \in SUBSET Fold
  BY DEF FoldTypes, Fold
<1>2. CASE tab = "response"
  <2>1. AutoFolded(tab) = {[f EXCEPT !.auto = FALSE] : f \in folds'}
    BY <1>2 DEF AutoFolded
  <2>2. \A g \in folds' : /\ [g EXCEPT !.auto = FALSE] \in Fold
                          /\ [g EXCEPT !.auto = FALSE].from = g.from
                          /\ [g EXCEPT !.auto = FALSE].to = g.to
                          /\ [g EXCEPT !.auto = FALSE].auto = FALSE
    BY <1>1 DEF Fold
  <2> QED BY <1>2, <2>1, <2>2
<1>3. CASE tab # "response"
  BY <1>1, <1>3 DEF AutoFolded
<1> QED BY <1>2, <1>3

\* A body sent as it is found in the lines from which it was picked.
LEMMA PageOfScan ==
  ASSUME BannersInv, Return, NEW lines \in Seq(Line), NEW at, Faithful(lines, at),
         raw = Picked(lines, at), NEW tab
  PROVE  LET page == [at    |-> [k \in DOMAIN cleaned |-> at[cleaned[k]]],
                      folds |-> AutoFolded(tab)]
         IN  /\ PageRight(lines, at, tab, page)
             /\ page \in [at : Seq(Nat), folds : SUBSET Fold]
<1> DEFINE page == [at    |-> [k \in DOMAIN cleaned |-> at[cleaned[k]]],
                    folds |-> AutoFolded(tab)]
<1>1. /\ FoldInv /\ FoldInv' /\ returned' /\ raw' = raw /\ cleaned' = cleaned
      /\ pos = Len(raw) /\ ~returned
  BY ReturnStep DEF Return, BannersInv, ViewInv
<1>2. /\ raw \in Seq(Line) /\ Len(raw) = Len(at) /\ DOMAIN raw = 1..Len(at)
      /\ \A k \in 1..Len(at) : raw[k] = lines[at[k]]
      /\ at \in Seq(Nat) /\ Len(at) \in Nat
  <2>1. at \in Seq(Nat) /\ \A k \in 1..Len(at) : at[k] \in 1..Len(lines)
    BY DEF Faithful
  <2> QED BY <2>1, PickedLines
<1>3. /\ cleaned \in Seq(Nat) /\ Len(cleaned) \in Nat /\ DOMAIN cleaned = 1..Len(cleaned)
      /\ \A k \in 1..Len(cleaned) : cleaned[k] \in 1..Len(at)
  BY <1>1, <1>2 DEF FoldInv, FoldTypes, Scanning, Kept
<1>4. /\ \A f \in folds' : f.from \in 1..Len(cleaned) /\ f.auto = raw[cleaned[f.from]].auto
      /\ \A i, k \in 1..Len(cleaned) : i < k => cleaned[i] < cleaned[k]
      /\ \A p \in 1..Len(at) : raw[p].is = "text" => \E k \in 1..Len(cleaned) : cleaned[k] = p
  BY <1>1, <1>2, <1>3 DEF FoldInv, FoldsMatchSections
<1>5. \A k \in 1..Len(cleaned) :
        /\ raw[cleaned[k]].is = "text" => {cleaned[b] : b \in Hiding(k)'} = Around(raw, cleaned[k])
        /\ raw[cleaned[k]].is # "text" => (\E f \in folds' : f.from = k) \/ Around(raw, Len(raw)) # {}
  <2>1. \A k \in DOMAIN cleaned' :
          IF raw'[cleaned'[k]].is = "text"
          THEN {cleaned'[b] : b \in Hiding(k)'} = Around(raw', cleaned'[k])
          ELSE \/ \E f \in folds' : f.from = k
               \/ k = Len(cleaned') /\ cleaned'[k] \in Around(raw', Len(raw'))
    BY <1>1 DEF FoldInv, FoldsMatchSections
  <2> QED BY <1>1, <1>3, <2>1
<1>6. \A k \in 1..Len(cleaned) :
        /\ page.at[k] = at[cleaned[k]] /\ page.at[k] \in 1..Len(lines) /\ page.at[k] \in Nat
        /\ lines[page.at[k]] = raw[cleaned[k]]
  BY <1>2, <1>3 DEF Faithful
<1>7. page.at \in Seq(Nat) /\ Len(page.at) = Len(cleaned)
  <2>1. page.at = [k \in 1..Len(cleaned) |-> at[cleaned[k]]]
    BY <1>3
  <2>2. page.at \in [1..Len(cleaned) -> Nat]
    BY <1>6, <2>1
  <2>3. page.at \in Seq(Nat)
    BY <1>3, <2>2
  <2> QED BY <1>3, <2>2, <2>3, LenProperties
<1>8. /\ page.folds = AutoFolded(tab) /\ page.folds \in SUBSET Fold
      /\ \A f \in page.folds : \E g \in folds' :
           /\ f.from = g.from /\ f.to = g.to
           /\ f.auto <=> tab # "response" /\ g.auto
      /\ \A g \in folds' : \E f \in page.folds : f.from = g.from /\ f.to = g.to
  BY <1>1, FoldsShown DEF FoldInv
<1> HIDE DEF page
<1>9. ASSUME NEW i \in 1..Len(page.at), NEW k \in 1..Len(page.at), i < k
      PROVE  page.at[i] < page.at[k]
  <2>1. i \in 1..Len(cleaned) /\ k \in 1..Len(cleaned)
    BY <1>7
  <2>2. cleaned[i] < cleaned[k] /\ cleaned[i] \in 1..Len(at) /\ cleaned[k] \in 1..Len(at)
    BY <1>3, <1>4, <1>9, <2>1
  <2>3. at[cleaned[i]] < at[cleaned[k]]
    BY <2>2 DEF Faithful
  <2> QED BY <1>6, <2>1, <2>3
<1>10. ASSUME NEW k \in 1..Len(cleaned), raw[cleaned[k]].is = "text"
       PROVE  BannersOver(page, k) = Around(lines, page.at[k])
  <2>1. Hiding(k)' = {f.from : f \in {g \in folds' : g.from < k /\ k <= g.to}}
    BY DEF Hiding
  <2>2. \A b : b \in Hiding(k)' <=> \E f \in page.folds : Under(f, k) /\ f.from = b
    BY <1>8, <2>1 DEF Under
  <2>3. \A b \in Hiding(k)' : b \in 1..Len(cleaned)
    BY <1>4, <2>1
  <2>4. BannersOver(page, k) = {page.at[b] : b \in Hiding(k)'}
    BY <2>2 DEF BannersOver
  <2>5. {page.at[b] : b \in Hiding(k)'} = {at[i] : i \in {cleaned[b] : b \in Hiding(k)'}}
    <3>1. \A b \in Hiding(k)' : page.at[b] = at[cleaned[b]]
      BY <1>6, <2>3
    <3> QED BY <3>1
  <2>6. {cleaned[b] : b \in Hiding(k)'} = Around(raw, cleaned[k])
    BY <1>5, <1>10
  <2>7. Around(lines, at[cleaned[k]]) = {at[i] : i \in Around(raw, cleaned[k])}
    BY <1>3, <1>6, <1>10 DEF Faithful
  <2> QED BY <1>6, <2>4, <2>5, <2>6, <2>7
<1>11. ASSUME NEW k \in 1..Len(cleaned), raw[cleaned[k]].is # "text"
       PROVE  \E f \in page.folds : f.from = k
  <2>1. Around(raw, Len(raw)) = {}
    BY <1>2 DEF Faithful
  <2>2. PICK g \in folds' : g.from = k
    BY <1>5, <1>11, <2>1
  <2> QED BY <1>8, <2>2
<1>12. ASSUME NEW m \in 1..Len(at), lines[at[m]].is = "text"
       PROVE  \E k \in 1..Len(page.at) : page.at[k] = at[m]
  <2>1. PICK k \in 1..Len(cleaned) : cleaned[k] = m
    BY <1>2, <1>4, <1>12
  <2> QED BY <1>6, <1>7, <2>1
<1>13. ASSUME NEW f \in page.folds
       PROVE  /\ f.from \in 1..Len(page.at)
              /\ f.auto <=> tab # "response" /\ lines[page.at[f.from]].auto
  <2>1. PICK g \in folds' : f.from = g.from /\ (f.auto <=> tab # "response" /\ g.auto)
    BY <1>8
  <2>2. g.from \in 1..Len(cleaned) /\ g.auto = raw[cleaned[g.from]].auto
    BY <1>4
  <2>3. lines[page.at[g.from]] = raw[cleaned[g.from]]
    BY <1>6, <2>2
  <2> QED BY <1>7, <2>1, <2>2, <2>3
<1>14. PageRight(lines, at, tab, page)
  <2>1. ASSUME NEW k \in 1..Len(page.at)
        PROVE  /\ page.at[k] \in 1..Len(lines)
               /\ \E m \in 1..Len(at) : page.at[k] = at[m]
               /\ lines[page.at[k]].is = "text" => BannersOver(page, k) = Around(lines, page.at[k])
               /\ lines[page.at[k]].is # "text" => \E f \in page.folds : f.from = k
    BY <1>3, <1>6, <1>7, <1>10, <1>11
  <2> QED BY <1>9, <1>12, <1>13, <2>1 DEF PageRight
<1>15. page \in [at : Seq(Nat), folds : SUBSET Fold]
  <2>1. page = [at |-> page.at, folds |-> page.folds]
    BY DEF page
  <2> QED BY <1>7, <1>8, <2>1
<1> QED BY <1>14, <1>15 DEF page

LEMMA FinishTabStep ==
  ASSUME BannersInv, FinishTab
  PROVE  BannersInv'
<1> DEFINE page == [at    |-> [k \in DOMAIN cleaned |-> Numbers(NextTab)[cleaned[k]]],
                    folds |-> AutoFolded(NextTab)]
<1>1. /\ Return /\ shown' = Append(shown, page)
      /\ sent' = sent /\ UNCHANGED <<writeVars, projectVars>>
  BY DEF FinishTab
<1>2. WriteInv'
  BY <1>1, BodyDone DEF BannersInv, WriteInv, WriteTypes
<1>3. /\ body' = body /\ source' = source /\ busy' = busy /\ items' = items
      /\ read' = read /\ inside' = inside /\ out' = out
  BY <1>1 DEF writeVars, projectVars
<1>4. FoldInv' /\ ~returned /\ returned'
  BY <1>1, ReturnStep DEF BannersInv, ViewInv, Return
<1>5. /\ sent /\ (source = "log" => read = Len(body)) /\ raw = Sent(NextTab)
      /\ Len(shown) < Len(Tabs) /\ ~busy /\ items = <<>>
  BY <1>4 DEF BannersInv, ViewInv, PagePhases
<1>6. /\ Len(shown) \in Nat /\ Len(Tabs) \in Nat /\ Len(shown) + 1 \in 1..Len(Tabs)
      /\ shown \in Seq([at : Seq(Nat), folds : SUBSET Fold])
      /\ NextTab = Tabs[Len(shown) + 1]
  <2>1. Len(shown) \in Nat /\ shown \in Seq([at : Seq(Nat), folds : SUBSET Fold])
    BY DEF BannersInv, ViewInv, PageTypes
  <2>2. Len(Tabs) \in Nat
    BY TabsOf
  <2> QED BY <1>5, <2>1, <2>2 DEF NextTab
<1>7. Faithful(body, Numbers(NextTab)) /\ raw = Picked(body, Numbers(NextTab))
  BY <1>5, <1>6, NextTabFaithful
<1>8. /\ PageRight(body, Numbers(NextTab), NextTab, page)
      /\ page \in [at : Seq(Nat), folds : SUBSET Fold]
  <2>1. body \in Seq(Line)
    BY DEF BannersInv, WriteInv, WriteTypes
  <2> QED BY <1>1, <1>7, <2>1, PageOfScan
<1> HIDE DEF page
<1>9. /\ shown' \in Seq([at : Seq(Nat), folds : SUBSET Fold]) /\ Len(shown') = Len(shown) + 1
      /\ \A t \in 1..Len(shown) : shown'[t] = shown[t]
      /\ shown'[Len(shown) + 1] = page
  BY <1>1, <1>6, <1>8, AppendProperties
<1>10. PageTypes' /\ ProjectInv'
  BY <1>3, <1>9 DEF BannersInv, ViewInv, PageTypes, ProjectInv
<1>11. Tabs' = Tabs /\ \A t : (Numbers(Tabs[t]))' = Numbers(Tabs[t])
  BY <1>3 DEF Tabs, Numbers
<1>12. PagesRight'
  <2>1. ASSUME NEW t \in 1..Len(shown')
        PROVE  PageRight(body, Numbers(Tabs[t]), Tabs[t], shown'[t])
    <3>1. CASE t \in 1..Len(shown)
      BY <1>9, <3>1 DEF BannersInv, ViewInv, PagesRight
    <3>2. CASE t = Len(shown) + 1
      BY <1>6, <1>8, <1>9, <3>2
    <3>3. t \in 1..Len(shown) \/ t = Len(shown) + 1
      BY <1>6, <1>9
    <3> QED BY <3>1, <3>2, <3>3
  <2> QED BY <1>3, <1>11, <2>1 DEF PagesRight
<1>13. PagePhases'
  BY <1>1, <1>3, <1>4, <1>5, <1>6, <1>9, <1>11 DEF PagePhases
<1> QED BY <1>2, <1>4, <1>10, <1>12, <1>13 DEF BannersInv, ViewInv

----------------------------------------------------------------------------
(* The theorems                                                            *)

\* Nothing is written, sent or shown at first.
LEMMA NothingWritten == Init => BannersInv
<1> SUFFICES ASSUME Init
             PROVE  BannersInv
  OBVIOUS
<1>1. /\ source \in {"walk", "log"} /\ module = 0 /\ busy = FALSE
      /\ items = <<>> /\ added = <<>> /\ op = "none" /\ count = 0 /\ replies = 0
      /\ wrapper = NoRun /\ body = <<>> /\ sent = FALSE
      /\ read = 0 /\ inside = FALSE /\ out = [keep \in BOOLEAN |-> <<>>] /\ shown = <<>>
      /\ raw = <<>> /\ pos = 0 /\ cleaned = <<>> /\ stack = <<>> /\ folds = {}
      /\ returned = TRUE
  BY DEF Init
<1>2. Len(<<>>) = 0 /\ 1..0 = {} /\ DOMAIN <<>> = {} /\ 0 \in 0..0
  OBVIOUS
<1>3. WriteTypes
  <2>1. items \in Seq(Item) /\ added \in Seq(Item) /\ body \in Seq(Line)
    BY <1>1
  <2> QED BY <1>1, <2>1 DEF WriteTypes, Run
<1>4. WritePhases
  BY <1>1 DEF WritePhases
<1>5. BodyOpen
  <2>1. Around(<<>>, 0) = {}
    BY <1>2 DEF Around
  <2>2. <<>> \in Seq(Line) /\ <<>> \in Seq(Nat)
    OBVIOUS
  <2>3. Around(<<>>, Len(<<>>)) = {<<>>[n] : n \in 1..Len(<<>>)}
    BY <1>2, <2>1
  <2>4. Opened(<<>>, <<>>) /\ HidesOthers(<<>>)
    BY <1>2, <2>3 DEF Opened, HidesOthers
  <2>5. Wrapped(<<>>, NoRun, 0)
    BY <1>2, <2>2, <2>4 DEF Wrapped, IsWrapper, Sound, Outer
  <2> QED BY <1>1, <1>2, <2>5 DEF BodyOpen
<1>6. LogInv
  BY <1>1, <1>2 DEF LogInv, Clear, LogShaped, Free
<1>7. WalkInv
  <2>1. Texts = {}
    BY <1>1, <1>2 DEF Texts
  <2>2. ItemsKnown /\ Ordered /\ Grouped
    BY <1>1, <1>2, <2>1 DEF ItemsKnown, Ordered, Grouped
  <2> QED BY <2>1, <2>2 DEF WalkInv
<1>8. PageTypes
  <2>1. <<>> \in Seq(Nat) /\ read \in 0..Len(body)
    BY <1>1, <1>2
  <2>2. out \in [BOOLEAN -> Seq(Nat)]
    BY <1>1, <2>1
  <2>3. shown \in Seq([at : Seq(Nat), folds : SUBSET Fold])
    BY <1>1
  <2> QED BY <1>1, <2>1, <2>2, <2>3 DEF PageTypes
<1>9. PagePhases
  <2>1. 0 <= Len(Tabs)
    BY DEF Tabs
  <2> QED BY <1>1, <1>2, <2>1 DEF PagePhases
<1>10. ProjectInv
  <2>1. out[TRUE] = <<>> /\ out[FALSE] = <<>>
    BY <1>1
  <2>2. /\ Selected(body, 0, <<>>, "reply") /\ Selected(body, 0, <<>>, "command")
        /\ Lockstep(body, 0, <<>>, 0) /\ ~InResponse(body, 0)
    BY NothingRead
  <2> QED BY <1>1, <2>1, <2>2 DEF ProjectInv
<1>11. PagesRight
  BY <1>1, <1>2 DEF PagesRight
<1>12. FoldInv
  <2>1. FoldTypes
    <3>1. /\ raw \in Seq(Line) /\ cleaned \in Seq(Nat) /\ pos \in 0..Len(raw)
          /\ stack \in Seq([banner : Nat \ {0}, auto : BOOLEAN])
      BY <1>1, <1>2
    <3> QED BY <1>1, <3>1 DEF FoldTypes
  <2>2. FoldsMatchSections
    BY <1>1, <1>2 DEF FoldsMatchSections
  <2> QED BY <1>1, <2>1, <2>2 DEF FoldInv
<1> QED BY <1>3, <1>4, <1>5, <1>6, <1>7, <1>8, <1>9, <1>10, <1>11, <1>12
        DEF BannersInv, WriteInv, ViewInv

LEMMA BannersStep == BannersInv /\ [Next]_vars => BannersInv'
<1> SUFFICES ASSUME BannersInv, [Next]_vars
             PROVE  BannersInv'
  OBVIOUS
<1>1. CASE \/ \E kind \in ItemKinds, krate \in Crates \union {Local} : AddItem(kind, krate)
           \/ StartFinish \/ PutItem
           \/ FeedDecls \/ CloseOp
           \/ \E isContext \in BOOLEAN, krate \in Crates \union {Local} : OpenOp(isContext, krate)
           \/ \E reply \in BOOLEAN : Respond(reply)
           \/ EndModule
  BY <1>1, ActionsWhileWriting
<1>2. CASE Write
  BY <1>2, WriteStep
<1>3. CASE ProjectLine
  BY <1>3, ProjectLineStep
<1>4. CASE StartTab
  BY <1>4, StartTabStep
<1>5. CASE ScanLine
  BY <1>5, ScanLineStep
<1>6. CASE FinishTab
  BY <1>6, FinishTabStep
<1>7. CASE UNCHANGED vars
  <2>1. /\ UNCHANGED writeVars /\ sent' = sent /\ UNCHANGED foldVars /\ shown' = shown
        /\ UNCHANGED projectVars
    BY <1>7 DEF vars
  <2>2. WriteInv'
    BY <2>1, BodyDone DEF BannersInv, WriteInv, WriteTypes
  <2>3. FoldInv'
    BY <2>1, FoldStep DEF BannersInv, ViewInv
  <2>4. /\ body' = body /\ source' = source /\ busy' = busy /\ items' = items
        /\ read' = read /\ inside' = inside /\ out' = out /\ raw' = raw /\ returned' = returned
    BY <2>1 DEF writeVars, projectVars, foldVars
  <2>5. PageTypes' /\ ProjectInv'
    BY <2>1, <2>4 DEF BannersInv, ViewInv, PageTypes, ProjectInv
  <2>6. PagesRight'
    BY <2>1, <2>4 DEF BannersInv, ViewInv, PagesRight, Numbers, Tabs
  <2>7. Tabs' = Tabs /\ Sent(NextTab)' = Sent(NextTab)
    BY <2>1, <2>4 DEF Sent, NextTab, Numbers, Tabs
  <2>8. PagePhases'
    BY <2>1, <2>4, <2>7 DEF BannersInv, ViewInv, PagePhases
  <2> QED BY <2>2, <2>3, <2>5, <2>6, <2>8 DEF BannersInv, ViewInv
<1> QED BY <1>1, <1>2, <1>3, <1>4, <1>5, <1>6, <1>7 DEF Next

\* What is known of a page once all are shown.
LEMMA PagesShown ==
  ASSUME BannersInv, AllShown
  PROVE  /\ sent /\ items = <<>> /\ HidesOthers(body)
         /\ body \in Seq(Line) /\ DOMAIN body = 1..Len(body)
         /\ DOMAIN Tabs = 1..Len(Tabs)
         /\ source = "log" => read = Len(body)
         /\ \A t \in 1..Len(Tabs) :
              /\ PageRight(body, Numbers(Tabs[t]), Tabs[t], shown[t])
              /\ shown[t].at \in Seq(Nat) /\ DOMAIN shown[t].at = 1..Len(shown[t].at)
<1>1. /\ body \in Seq(Line) /\ DOMAIN body = 1..Len(body)
      /\ shown \in Seq([at : Seq(Nat), folds : SUBSET Fold]) /\ Len(shown) = Len(Tabs)
  BY DEF BannersInv, WriteInv, WriteTypes, ViewInv, PageTypes, AllShown
<1>2. DOMAIN Tabs = 1..Len(Tabs) /\ Len(Tabs) > 0
  <2>1. CASE source = "log"
    <3>1. Tabs = <<"query", "response", "whole">>
      BY <2>1 DEF Tabs
    <3> QED BY <3>1
  <2>2. CASE source # "log"
    <3>1. Tabs = <<"whole">>
      BY <2>2 DEF Tabs
    <3> QED BY <3>1
  <2> QED BY <2>1, <2>2
<1>3. shown # <<>>
  <2>1. Len(<<>>) = 0
    OBVIOUS
  <2> QED BY <1>1, <1>2, <2>1
<1>4. sent /\ items = <<>> /\ (source = "log" => read = Len(body))
  BY <1>3 DEF BannersInv, ViewInv, PagePhases
<1>5. HidesOthers(body)
  BY DEF BannersInv, WriteInv, BodyOpen, Wrapped, InSection, Sound
<1>6. ASSUME NEW t \in 1..Len(Tabs)
      PROVE  /\ PageRight(body, Numbers(Tabs[t]), Tabs[t], shown[t])
             /\ shown[t].at \in Seq(Nat) /\ DOMAIN shown[t].at = 1..Len(shown[t].at)
  <2>1. t \in 1..Len(shown)
    BY <1>1
  <2>2. PageRight(body, Numbers(Tabs[t]), Tabs[t], shown[t])
    BY <2>1 DEF BannersInv, ViewInv, PagesRight
  <2>3. shown[t] \in [at : Seq(Nat), folds : SUBSET Fold]
    BY <1>1, <2>1, ElementOfSeq
  <2>4. shown[t].at \in Seq(Nat)
    BY <2>3
  <2> QED BY <2>2, <2>4
<1> QED BY <1>1, <1>2, <1>4, <1>5, <1>6

\* Whatever the items, the crates and the modules: a page that has been finalized folds
\* away the prelude, the other crates' items and ops and the replies of the transcript,
\* all of them, and no line of the user's own (util.rs:49-56, app.js:1690-1740).
THEOREM UserCodeStaysInSight == Spec => []UserCodeInSight
<1>1. BannersInv => UserCodeInSight
  <2> SUFFICES ASSUME BannersInv, AllShown, NEW t \in DOMAIN Tabs, NEW k \in DOMAIN shown[t].at
               PROVE  LET page   == shown[t]
                          line   == body[page.at[k]]
                          folded == \E f \in page.folds : f.auto /\ Under(f, k)
                      IN  /\ line.is = "open" => \E f \in page.folds : f.from = k
                          /\ line.is = "text" /\ line.krate # Local => (folded <=> Tabs[t] # "response")
                          /\ line.is = "text" /\ line.krate = Local /\ folded
                               => line.n = 0 \/ line.title = "reply"
    BY DEF UserCodeInSight
  <2> DEFINE page   == shown[t]
             line   == body[page.at[k]]
             folded == \E f \in page.folds : f.auto /\ Under(f, k)
  <2>1. /\ PageRight(body, Numbers(Tabs[t]), Tabs[t], page) /\ k \in 1..Len(page.at)
        /\ HidesOthers(body)
    BY PagesShown
  <2> HIDE DEF page
  <2>2. /\ page.at[k] \in 1..Len(body)
        /\ line.is = "text" => BannersOver(page, k) = Around(body, page.at[k])
        /\ line.is # "text" => \E f \in page.folds : f.from = k
        /\ \A f \in page.folds : f.auto <=> Tabs[t] # "response" /\ body[page.at[f.from]].auto
    BY <2>1 DEF PageRight
  <2>3. line.is = "text" =>
          /\ line.krate # Local => Hidden(body, page.at[k])
          /\ line.krate = Local /\ Hidden(body, page.at[k]) => line.n = 0 \/ line.title = "reply"
    BY <2>1, <2>2 DEF HidesOthers
  <2>4. line.is = "text" => (folded <=> Tabs[t] # "response" /\ Hidden(body, page.at[k]))
    <3>1. BannersOver(page, k) = {page.at[f.from] : f \in {g \in page.folds : Under(g, k)}}
      BY DEF BannersOver
    <3> QED BY <2>2, <3>1 DEF Hidden
  <2>5. line.is = "open" => \E f \in page.folds : f.from = k
    BY <2>2
  <2>6. /\ line.is = "text" /\ line.krate # Local => (folded <=> Tabs[t] # "response")
        /\ line.is = "text" /\ line.krate = Local /\ folded => line.n = 0 \/ line.title = "reply"
    <3> HIDE DEF folded, line
    <3> QED BY <2>3, <2>4
  <2> QED BY <2>5, <2>6 DEF page
<1> QED BY <1>1, NothingWritten, BannersStep, PTL DEF Spec

\* Of every log whatsoever: the query view has its commands and the response view its
\* replies, all of them, in order and under the banners they are under in the whole
\* transcript, though project_smt finds the responses by their markers alone and the
\* page scans each view on its own (verus.rs:988-1025).
THEOREM ViewsStayInStep == Spec => []ViewsInStep
<1>1. BannersInv => ViewsInStep
  <2> SUFFICES ASSUME BannersInv, AllShown, source = "log", NEW t \in DOMAIN Tabs
               PROVE  LET page == shown[t]
                          mine(line) == \/ Tabs[t] = "whole"
                                        \/ line.title = (IF Tabs[t] = "query" THEN "command" ELSE "reply")
                      IN  /\ \A i, k \in DOMAIN page.at : i < k => page.at[i] < page.at[k]
                          /\ \A p \in DOMAIN body : body[p].is = "text" =>
                               (mine(body[p]) <=> \E k \in DOMAIN page.at : page.at[k] = p)
                          /\ \A k \in DOMAIN page.at, j \in DOMAIN shown[3].at :
                               body[page.at[k]].is = "text" /\ page.at[k] = shown[3].at[j]
                                 => BannersOver(page, k) = BannersOver(shown[3], j)
    BY DEF ViewsInStep
  <2> DEFINE page == shown[t]
             from == Numbers(Tabs[t])
             mine(line) == \/ Tabs[t] = "whole"
                           \/ line.title = (IF Tabs[t] = "query" THEN "command" ELSE "reply")
  <2>1. /\ t \in 1..Len(Tabs) /\ read = Len(body) /\ DOMAIN body = 1..Len(body)
        /\ PageRight(body, from, Tabs[t], page) /\ DOMAIN page.at = 1..Len(page.at)
        /\ 3 \in 1..Len(Tabs) => /\ PageRight(body, Numbers(Tabs[3]), Tabs[3], shown[3])
                                 /\ DOMAIN shown[3].at = 1..Len(shown[3].at)
    BY PagesShown
  <2>2. /\ Len(Tabs) = 3 /\ Tabs[1] = "query" /\ Tabs[2] = "response" /\ Tabs[3] = "whole"
        /\ t \in 1..3 /\ 3 \in 1..3
    <3>1. Len(Tabs) = 3 /\ Tabs[1] = "query" /\ Tabs[2] = "response" /\ Tabs[3] = "whole"
      BY TabsOf
    <3> QED BY <2>1, <3>1
  <2>3. \A p \in 1..Len(body) : body[p].is = "text" =>
          (mine(body[p]) <=> \E m \in 1..Len(from) : from[m] = p)
    <3>1. CASE t = 3
      <4>1. Tabs[t] = "whole" /\ from = [k \in 1..Len(body) |-> k]
        BY <2>1, <2>2, <3>1, NumbersOf
      <4>2. Len(from) = Len(body)
        <5>1. Len(body) \in Nat
          BY DEF BannersInv, WriteInv, WriteTypes
        <5>2. from \in Seq(Nat) /\ DOMAIN from = 1..Len(body)
          BY <4>1, <5>1
        <5> QED BY <5>1, <5>2, LenProperties
      <4> QED BY <4>1, <4>2
    <3>2. CASE t = 1
      <4>1. Tabs[t] = "query" /\ Selected(body, Len(body), from, "command")
        BY <2>1, <2>2, <3>2, NumbersOf DEF BannersInv, ViewInv, ProjectInv
      <4>2. \A p \in 1..Len(body) : body[p].is = "text" =>
              (body[p].title = "command" <=> \E m \in 1..Len(from) : from[m] = p)
        <5> HIDE DEF from
        <5> QED BY <4>1 DEF Selected
      <4> QED BY <4>1, <4>2
    <3>3. CASE t = 2
      <4>1. Tabs[t] = "response" /\ Selected(body, Len(body), from, "reply")
        BY <2>1, <2>2, <3>3, NumbersOf DEF BannersInv, ViewInv, ProjectInv
      <4>2. \A p \in 1..Len(body) : body[p].is = "text" =>
              (body[p].title = "reply" <=> \E m \in 1..Len(from) : from[m] = p)
        <5> HIDE DEF from
        <5> QED BY <4>1 DEF Selected
      <4> QED BY <4>1, <4>2
    <3>4. t = 1 \/ t = 2 \/ t = 3
      BY <2>2
    <3> QED BY <3>1, <3>2, <3>3, <3>4
  <2> HIDE DEF page, from, mine
  <2>4. \A i, k \in DOMAIN page.at : i < k => page.at[i] < page.at[k]
    BY <2>1 DEF PageRight
  <2>5. \A p \in DOMAIN body : body[p].is = "text" =>
          (mine(body[p]) <=> \E k \in DOMAIN page.at : page.at[k] = p)
    <3> SUFFICES ASSUME NEW p \in 1..Len(body), body[p].is = "text"
                 PROVE  mine(body[p]) <=> \E k \in 1..Len(page.at) : page.at[k] = p
      BY <2>1
    <3>1. ASSUME NEW m \in 1..Len(from), from[m] = p
          PROVE  \E k \in 1..Len(page.at) : page.at[k] = p
      BY <2>1, <3>1 DEF PageRight
    <3>2. ASSUME NEW k \in 1..Len(page.at), page.at[k] = p
          PROVE  \E m \in 1..Len(from) : from[m] = p
      BY <2>1, <3>2 DEF PageRight
    <3> QED BY <2>3, <3>1, <3>2
  <2>6. \A k \in DOMAIN page.at, j \in DOMAIN shown[3].at :
          body[page.at[k]].is = "text" /\ page.at[k] = shown[3].at[j]
            => BannersOver(page, k) = BannersOver(shown[3], j)
    <3>1. \A k \in DOMAIN page.at : body[page.at[k]].is = "text" =>
            BannersOver(page, k) = Around(body, page.at[k])
      BY <2>1 DEF PageRight
    <3>2. \A j \in DOMAIN shown[3].at : body[shown[3].at[j]].is = "text" =>
            BannersOver(shown[3], j) = Around(body, shown[3].at[j])
      BY <2>1, <2>2 DEF PageRight
    <3> QED BY <3>1, <3>2
  <2> QED BY <2>4, <2>5, <2>6 DEF page, mine
<1> QED BY <1>1, NothingWritten, BannersStep, PTL DEF Spec

\* The doc of WalkBuilder (util.rs:42-56), whatever is added to the walks of however
\* many modules.
THEOREM WalksStayGrouped == Spec => []WalkGrouped
<1>1. BannersInv => WalkGrouped
  <2> SUFFICES ASSUME BannersInv, source = "walk", AllShown
               PROVE  /\ \A n \in DOMAIN added : \E p \in Texts : body[p].n = n
                      /\ \A p \in Texts :
                           /\ Cardinality(Around(body, p)) = (IF ItemAt(p).krate = Local THEN 1 ELSE 2)
                           /\ body[Outermost(p)].title = ItemAt(p).kind
                           /\ body[Outermost(p)].krate = ItemAt(p).krate
                      /\ \A p, q \in Texts : p < q =>
                           /\ Later(ItemAt(p), ItemAt(q))
                           /\ Texts \intersect ((p + 1)..(q - 1)) = {} =>
                                (Outermost(p) = Outermost(q) <=> Alike(ItemAt(p), ItemAt(q)))
    BY DEF WalkGrouped
  <2>1. /\ items = <<>> /\ ItemsKnown /\ Ordered /\ Grouped /\ \A p \in Texts : ItemShaped(p)
    BY PagesShown DEF BannersInv, WriteInv, WalkInv
  <2>2. added \in Seq(Item) /\ DOMAIN added = 1..Len(added) /\ DOMAIN body = 1..Len(body)
    BY DEF BannersInv, WriteInv, WriteTypes
  <2>3. \A n \in DOMAIN added : \E p \in Texts : body[p].n = n
    <3>1. 1..Len(items) = {}
      BY <2>1
    <3> QED BY <2>1, <2>2, <3>1 DEF ItemsKnown
  <2>4. ASSUME NEW p \in Texts
        PROVE  /\ Cardinality(Around(body, p)) = (IF ItemAt(p).krate = Local THEN 1 ELSE 2)
               /\ body[Outermost(p)].title = ItemAt(p).kind
               /\ body[Outermost(p)].krate = ItemAt(p).krate
    <3>1. p \in Nat
      BY <2>2 DEF Texts
    <3>2. /\ body[Outermost(p)].title = ItemAt(p).kind
          /\ body[Outermost(p)].krate = ItemAt(p).krate
          /\ ItemAt(p).krate = Local => Around(body, p) = {p - 1}
          /\ ItemAt(p).krate # Local =>
               Around(body, p) = {Outermost(p), p - 1} /\ Outermost(p) # p - 1
      BY <2>1, <3>1, OutermostOf
    <3>3. Cardinality({p - 1}) = 1 /\ IsFiniteSet({p - 1})
      BY FS_Singleton
    <3>4. Outermost(p) # p - 1 => Cardinality({p - 1} \union {Outermost(p)}) = 2
      <4>1. Outermost(p) # p - 1 => Outermost(p) \notin {p - 1}
        OBVIOUS
      <4>2. Outermost(p) # p - 1 =>
              Cardinality({p - 1} \union {Outermost(p)}) = Cardinality({p - 1}) + 1
        BY <3>3, <4>1, FS_AddElement
      <4> QED BY <3>3, <4>2
    <3>5. {Outermost(p), p - 1} = {p - 1} \union {Outermost(p)}
      OBVIOUS
    <3> QED BY <3>2, <3>3, <3>4, <3>5
  <2>5. \A p, q \in Texts : p < q =>
          /\ Later(ItemAt(p), ItemAt(q))
          /\ Texts \intersect ((p + 1)..(q - 1)) = {} =>
               (Outermost(p) = Outermost(q) <=> Alike(ItemAt(p), ItemAt(q)))
    BY <2>1 DEF Ordered, Grouped, NoneBetween
  <2> QED BY <2>3, <2>4, <2>5
<1> QED BY <1>1, NothingWritten, BannersStep, PTL DEF Spec

\* The scanner's own property on the bodies that are sent.
THEOREM FoldsAsWritten == Spec => []FoldsMatchSections
<1>1. BannersInv => FoldsMatchSections
  BY DEF BannersInv, ViewInv, FoldInv
<1> QED BY <1>1, NothingWritten, BannersStep, PTL DEF Spec

=============================================================================
