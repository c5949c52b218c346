------------------------------ MODULE Banners ------------------------------
(***************************************************************************)
(* The section markers in the dumps: how Rust writes them -- WalkBuilder   *)
(* for the VIR and SST walks (util.rs), run_queries for the AIR and SMT    *)
(* logs, project_smt for the three views of the SMT exchange (verus.rs) -- *)
(* and how finalizeBannerSections of app.js has BannerFold turn each body  *)
(* into banners and folds.                                                 *)
(*                                                                         *)
(* A body is a sequence of lines; an item's text, a command and a reply    *)
(* are one line each.                                                      *)
(* QueryDriver has the order of the sections in a log; here it is their    *)
(* text that matters, and errors, which close them all the same, are not.  *)
(* Every marker reaches the SMT log, as verus.rs:347-352 and 694-697 have  *)
(* it; AIR, which writes it, is external, and tests/smoke.rs:228-230 says  *)
(* that the closes after the last check-sat do not.                        *)
(***************************************************************************)
EXTENDS BannerFold

CONSTANTS Crates,     \* external crates: numbers, in the order of their names
          ItemKinds,  \* "function", "datatype", ... of the walks
          MaxItems,   \* bound on the items of the walks or the ops of a log
          MaxModules, \* bound on the modules
          MaxReplies  \* bound on the responses in a log

ASSUME CratesAssumption == Crates \subseteq Nat \ {0}
ASSUME TitlesAssumption ==
  ItemKinds \union {"", "AIR prelude", "crate", "op", "response", "item", "command", "reply"}
    \subseteq Titles
ASSUME BoundsAssumption == MaxItems \in Nat /\ MaxModules \in Nat /\ MaxReplies \in Nat

Local == 0            \* no crate: the user's own

VARIABLES
  source,   \* what the body is made by: "walk" or "log"
  module,   \* how many modules are done: each appends to the same body
  busy,     \* finish or run_queries is at work for the next one
  items,    \* WalkBuilder.items
  added,    \* history: all the items of all the walks
  op,       \* of run_queries: what kind of op is under way, if any
  count,    \* how many items and ops there were
  replies,  \* how many responses
  wrapper,  \* external_run or wrapper_krate
  body,     \* a body of VerifyOutput
  sent,     \* VerifyOutput::write has been called
  read,     \* how many lines of the log project_smt has read
  inside,   \* in_response
  out,      \* by keep_responses: the lines it let through, by their numbers in body
  shown     \* the pages finalized, in the order of Tabs

writeVars == <<source, module, busy, items, added, op, count, replies, wrapper, body>>
projectVars == <<read, inside, out>>
vars == <<writeVars, sent, projectVars, foldVars, shown>>

\* The lines.
Open(auto, title, n, krate) ==
  [is |-> "open", auto |-> auto, title |-> title, n |-> n, krate |-> krate]
Close == [is |-> "close", auto |-> FALSE, title |-> "", n |-> 0, krate |-> Local]
Text(title, n, krate) ==
  [is |-> "text", auto |-> FALSE, title |-> title, n |-> n, krate |-> krate]

IsMarker(line)   == line.is # "text"
IsResponse(line) == line.is = "open" /\ line.title = "response"

NoRun == [kind |-> "none", krate |-> Local]

Init ==
  /\ source \in {"walk", "log"}
  /\ module = 0 /\ busy = FALSE
  /\ items = <<>> /\ added = <<>> /\ op = "none" /\ count = 0 /\ replies = 0
  /\ wrapper = NoRun /\ body = <<>> /\ sent = FALSE
  /\ read = 0 /\ inside = FALSE /\ out = [keep \in BOOLEAN |-> <<>>]
  /\ shown = <<>>
  /\ raw = <<>> /\ pos = 0 /\ cleaned = <<>> /\ stack = <<>> /\ folds = {}
  /\ returned = TRUE

----------------------------------------------------------------------------
(* The wrappers of external crates                                         *)

\* Mutant: a run is a crate's, whatever the kind.
RunOfCrate(kind, krate) ==
  IF krate = Local THEN NoRun ELSE [kind |-> "any", krate |-> krate]

\* The run that an item or an op belongs to; the user's own belong to none.
RunOf(kind, krate) ==
  IF krate = Local THEN NoRun ELSE [kind |-> kind, krate |-> krate]

\* Where the run changes, its wrapper is closed and the next one opened.
Rotate(next) ==
  IF wrapper = next THEN <<>>
  ELSE (IF wrapper = NoRun THEN <<>> ELSE <<Close>>)
       \o (IF next = NoRun THEN <<>> ELSE <<Open(TRUE, next.kind, 0, next.krate)>>)

\* A section of a run, after what closes the run before it.
WriteIn(run, lines) ==
  body' = body \o Rotate(run) \o lines /\ wrapper' = run

\* The module is done and its last wrapper closed.
EndModule ==
  /\ busy /\ items = <<>> /\ op = "none"
  /\ busy' = FALSE /\ module' = module + 1
  /\ WriteIn(NoRun, <<>>)
  /\ UNCHANGED <<source, items, added, op, count, replies, sent, projectVars, foldVars, shown>>

----------------------------------------------------------------------------
(* WalkBuilder                                                             *)

\* add_item
AddItem(kind, krate) ==
  /\ source = "walk" /\ ~busy /\ ~sent
  /\ count < MaxItems /\ module < MaxModules
  /\ count' = count + 1
  /\ LET item == [name |-> count', kind |-> kind, krate |-> krate, walk |-> module]
     IN  items' = Append(items, item) /\ added' = Append(added, item)
  /\ UNCHANGED <<source, module, busy, op, replies, wrapper, body, sent,
                 projectVars, foldVars, shown>>

\* The order of the sort: external crates by name, then the user's own.
Before(a, b) == a.krate # Local /\ (b.krate = Local \/ a.krate < b.krate)

\* finish begins with a stable sort.
StartFinish ==
  /\ ~busy /\ items # <<>>
  /\ busy' = TRUE
  /\ \E order \in Bijection(DOMAIN items, DOMAIN items) :
       /\ \A i, k \in DOMAIN items : i < k =>
            LET a == items[order[i]]
                b == items[order[k]]
            IN  ~Before(b, a) /\ (Before(a, b) \/ order[i] < order[k])
       /\ items' = [k \in DOMAIN items |-> items[order[k]]]
  /\ UNCHANGED <<source, module, added, op, count, replies, wrapper, body, sent,
                 projectVars, foldVars, shown>>

\* The loop of finish: each item is a section of its own.
PutItem ==
  /\ source = "walk" /\ busy /\ items # <<>>
  /\ items' = Tail(items)
  /\ LET item == Head(items)
     IN  WriteIn(RunOf(item.kind, item.krate),
                 <<Open(item.krate # Local, item.kind, item.name, item.krate),
                   Text("item", item.name, item.krate), Close>>)
  /\ UNCHANGED <<source, module, busy, added, op, count, replies, sent,
                 projectVars, foldVars, shown>>

----------------------------------------------------------------------------
(* The log of run_queries                                                  *)

\* The solver's options come first, under no marker (verus.rs:554-572); what is fed
\* before the first op is a section of its own.
FeedDecls ==
  /\ source = "log" /\ ~busy /\ ~sent /\ module < MaxModules
  /\ busy' = TRUE
  /\ WriteIn(NoRun, <<Text("command", 0, Local),
                      Open(TRUE, "AIR prelude", 0, Local), Text("command", 0, Local), Close>>)
  /\ UNCHANGED <<source, module, items, added, op, count, replies, sent,
                 projectVars, foldVars, shown>>

\* Mutant: every Context op is folded, the user's own too.
OpFoldedContext(isContext, krate) == isContext

\* op_marker
OpFolded(isContext, krate) == isContext /\ krate # Local

OpenOp(isContext, krate) ==
  /\ source = "log" /\ busy /\ op = "none" /\ count < MaxItems
  /\ count' = count + 1
  /\ op' = IF isContext THEN "context" ELSE "query"
  /\ WriteIn(RunOf("crate", krate), <<Open(OpFolded(isContext, krate), "op", count', krate),
                                      Text("command", count', krate)>>)
  /\ UNCHANGED <<source, module, busy, items, added, replies, sent,
                 projectVars, foldVars, shown>>

\* AIR writes each response of the solver into the log as a section of its own, at
\* times an empty one; more commands follow it.
Respond(reply) ==
  /\ op = "query" /\ replies < MaxReplies
  /\ replies' = replies + 1
  /\ body' = body \o <<Open(TRUE, "response", count, wrapper.krate)>>
             \o (IF reply THEN <<Text("reply", count, wrapper.krate)>> ELSE <<>>)
             \o <<Close, Text("command", count, wrapper.krate)>>
  /\ UNCHANGED <<source, module, busy, items, added, op, count, wrapper, sent,
                 projectVars, foldVars, shown>>

CloseOp ==
  /\ op # "none"
  /\ op' = "none"
  /\ body' = Append(body, Close)
  /\ UNCHANGED <<source, module, busy, items, added, count, replies, wrapper, sent,
                 projectVars, foldVars, shown>>

----------------------------------------------------------------------------
(* VerifyOutput::write and project_smt                                     *)

\* Bodies of nothing are not sent.
Write ==
  /\ ~busy /\ items = <<>> /\ body # <<>> /\ ~sent
  /\ sent' = TRUE
  /\ UNCHANGED <<writeVars, projectVars, foldVars, shown>>

Within(line) == inside \/ IsResponse(line)

\* Mutant: the end of a response does not end it.
ResponseSticks(line) == Within(line)

StaysInside(line) == Within(line) /\ line.is # "close"

\* With keep_responses the responses stay and the commands go, without it the other
\* way round; the markers of all other sections stay in both.
LetsThrough(keep, line) ==
  IF Within(line) THEN keep ELSE ~keep \/ IsMarker(line)

\* The next line of the log, in the two calls side by side.
ProjectLine ==
  /\ sent /\ source = "log" /\ read < Len(body)
  /\ read' = read + 1
  /\ inside' = StaysInside(body[read + 1])
  /\ out' = [keep \in BOOLEAN |-> IF LetsThrough(keep, body[read + 1])
                                  THEN Append(out[keep], read + 1) ELSE out[keep]]
  /\ UNCHANGED <<writeVars, sent, foldVars, shown>>

----------------------------------------------------------------------------
(* finalizeBannerSections                                                  *)

\* BANNER_FOLD_TABS, those of the SMT exchange; of a walk there is only the whole.
Tabs == IF source = "log" THEN <<"query", "response", "whole">> ELSE <<"whole">>

\* The lines of a tab's section by their numbers in body, and what was sent.
Numbers(tab) == IF tab = "whole" THEN [k \in DOMAIN body |-> k] ELSE out[tab = "response"]
Sent(tab)    == [k \in DOMAIN Numbers(tab) |-> body[Numbers(tab)[k]]]

NextTab  == Tabs[Len(shown) + 1]
AllShown == Len(shown) = Len(Tabs)

StartTab ==
  /\ sent /\ (source = "log" => read = Len(body))
  /\ ~AllShown /\ returned
  /\ Begin(Sent(NextTab))
  /\ UNCHANGED <<writeVars, sent, projectVars, shown>>

ScanLine ==
  /\ ScanOpen \/ ScanText \/ ScanClose
  /\ UNCHANGED <<writeVars, sent, projectVars, shown>>

\* The replies open expanded.
AutoFolded(tab) ==
  IF tab = "response" THEN {[f EXCEPT !.auto = FALSE] : f \in folds'} ELSE folds'

FinishTab ==
  /\ Return
  /\ shown' = Append(shown, [at    |-> [k \in DOMAIN cleaned |-> Numbers(NextTab)[cleaned[k]]],
                             folds |-> AutoFolded(NextTab)])
  /\ UNCHANGED <<writeVars, sent, projectVars>>

----------------------------------------------------------------------------

Next ==
  \/ \E kind \in ItemKinds, krate \in Crates \union {Local} : AddItem(kind, krate)
  \/ StartFinish \/ PutItem
  \/ FeedDecls \/ CloseOp
  \/ \E isContext \in BOOLEAN, krate \in Crates \union {Local} : OpenOp(isContext, krate)
  \/ \E reply \in BOOLEAN : Respond(reply)
  \/ EndModule
  \/ Write \/ ProjectLine \/ StartTab \/ ScanLine \/ FinishTab

Spec == Init /\ [][Next]_vars

----------------------------------------------------------------------------
(* Properties                                                              *)

\* Line k of a page is under the banner of fold f; the banners it is under.
Under(f, k) == f.from < k /\ k <= f.to
BannersOver(page, k) == {page.at[f.from] : f \in {g \in page.folds : Under(g, k)}}

\* What is folded away when a tab opens is the AIR prelude, the other crates' items
\* and ops and the responses inside the whole transcript, never a line of the
\* user's own; no line of another crate's item is in sight (util.rs:49-56); and no
\* banner stands there with nothing under it.
UserCodeInSight ==
  AllShown =>
    \A t \in DOMAIN Tabs : \A k \in DOMAIN shown[t].at :
      LET page   == shown[t]
          line   == body[page.at[k]]
          folded == \E f \in page.folds : f.auto /\ Under(f, k)
      IN  /\ line.is = "open" => \E f \in page.folds : f.from = k
          /\ line.is = "text" /\ line.krate # Local => (folded <=> Tabs[t] # "response")
          /\ line.is = "text" /\ line.krate = Local /\ folded => line.n = 0 \/ line.title = "reply"

\* The three views of the SMT exchange fold in lockstep: the commands are in the
\* query view and the replies in the response view, all of them, in order and under
\* the same banners as in the transcript.
ViewsInStep ==
  source = "log" /\ AllShown =>
    \A t \in DOMAIN Tabs :
      LET page == shown[t]
          mine(line) == \/ Tabs[t] = "whole"
                        \/ line.title = (IF Tabs[t] = "query" THEN "command" ELSE "reply")
      IN  /\ \A i, k \in DOMAIN page.at : i < k => page.at[i] < page.at[k]
          /\ \A p \in DOMAIN body : body[p].is = "text" =>
               (mine(body[p]) <=> \E k \in DOMAIN page.at : page.at[k] = p)
          /\ \A k \in DOMAIN page.at, j \in DOMAIN shown[3].at :
               body[page.at[k]].is = "text" /\ page.at[k] = shown[3].at[j]
                 => BannersOver(page, k) = BannersOver(shown[3], j)

\* The lines of text of a body of walks, the items they are of, the wrapper or else
\* the section that such a line is in.
Texts        == {p \in DOMAIN body : body[p].is = "text"}
ItemAt(p)    == added[body[p].n]
Outermost(p) == Min(Around(body, p))

Later(a, b) ==
  \/ a.walk < b.walk
  \/ a.walk = b.walk /\ (Before(a, b) \/ (a.krate = b.krate /\ a.name < b.name))
Alike(a, b) == a.walk = b.walk /\ a.kind = b.kind /\ a.krate = b.krate /\ a.krate # Local

\* Of each walk the external crates come first and in order, then the user's own
\* items, those of a crate as they were added; and neighbours of one external crate
\* and kind share one wrapper, titled so, while the user's own have none
\* (util.rs:42-56).
WalkGrouped ==
  source = "walk" /\ AllShown =>
    /\ \A n \in DOMAIN added : \E p \in Texts : body[p].n = n
    /\ \A p \in Texts :
         /\ Cardinality(Around(body, p)) = (IF ItemAt(p).krate = Local THEN 1 ELSE 2)
         /\ body[Outermost(p)].title = ItemAt(p).kind
         /\ body[Outermost(p)].krate = ItemAt(p).krate
    /\ \A p, q \in Texts : p < q =>
         /\ Later(ItemAt(p), ItemAt(q))
         /\ Texts \intersect ((p + 1)..(q - 1)) = {} =>
              (Outermost(p) = Outermost(q) <=> Alike(ItemAt(p), ItemAt(q)))

=============================================================================
