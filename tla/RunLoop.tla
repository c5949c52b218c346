------------------------------ MODULE RunLoop ------------------------------
(***************************************************************************)
(* The run controller of the page (public/app.js): the cold load of the    *)
(* wasm module, the Run button, the auto-verify timer and checkbox, the    *)
(* mode radios, the output tabs, and runWith -- which clears the caches,   *)
(* yields to the browser for one paint and only then makes the synchronous *)
(* wasm call, so that any number of runs can be parked at the yield.       *)
(*                                                                         *)
(* JavaScript is single threaded: every event handler, and every stretch   *)
(* of an async function between two awaits, is one action.  The documents  *)
(* are members of Docs; what the wasm call produces is a set of tagged     *)
(* entries, one per kind of output (see WasmCall).                         *)
(***************************************************************************)
EXTENDS Naturals, Sequences, WasmCall

CONSTANTS Docs,       \* editor texts
          NoDoc,      \* "nothing shown yet"
          Tracked,    \* the kinds of output an instance tells apart
          MaxEvents   \* bound on the user's actions (clicks, edits, loads)

ASSUME DocsAssumption == Docs # {} /\ NoDoc \notin Docs
ASSUME MaxEventsAssumption == MaxEvents \in Nat

VARIABLES
  wasm,        \* "loading", "ready" (verus # null) or "failed" (rejected)
  poisoned,    \* a trap has leaked rustc's SESSION_GLOBALS
  hung,        \* the synchronous wasm call does not return
  mode,        \* the checked action-mode radio
  pageMode,    \* execMode, read from the URL when the page loaded
  leaving,     \* location.search was assigned: a navigation is on its way
  autoOn,      \* the auto-verify checkbox
  doc,         \* view.state.doc
  timer,       \* an auto-verify timer is pending
  runId,       \* runId
  yielded,     \* runs parked at the await of runWith: [id, mode]
  button,      \* ~actionButton.disabled
  cache,       \* sectionCache, _diags, _verdicts, runOutput: tagged entries
  currentTab,  \* currentTab
  strip,       \* the tab strip as last rendered: the tab, the cached sections
  screen,      \* what the tail of runWith last rendered
  unread,      \* history: the doc changed since a run last read and reported it
  midRun,      \* history: it changed while the newest run was parked
  hashTab,     \* history: a hash load set currentTab, its run has not ended
  events       \* how many of the MaxEvents user actions happened

uiVars   == <<autoOn, mode, pageMode, leaving>>
wasmVars == <<wasm, poisoned, hung>>
runVars  == <<timer, runId, yielded, button, cache, unread, midRun>>
tabVars  == <<currentTab, strip, screen, hashTab>>
vars     == <<uiVars, wasmVars, runVars, tabVars, doc, events>>

NoTab == "null"

\* SECTION_ORDER with the sections of WasmCall; the middle two of a verify page
\* are variants of one group.
SectionOrder ==
  [verify  |-> <<"AST_PRE", "VIR_RAW", "SST_AST", "SMT_TRANSCRIPT">>,
   execute |-> <<"AST_PRE", "MIR_BUILT">>]
GROUP_OF == [AST_PRE |-> "AST", VIR_RAW |-> "VIR", SST_AST |-> "VIR",
             SMT_TRANSCRIPT |-> "Z3", MIR_BUILT |-> "MIR"]

\* opts.preferredTab; no section is called MIR.
PreferredTab == [verify |-> "SMT_TRANSCRIPT", execute |-> "MIR"]

ASSUME TrackedAssumption ==
  Tracked \subseteq Kinds /\ {"AST_PRE", "diag", "output"} \subseteq Tracked

Entries == [run : Nat, doc : Docs, kind : Kinds]
Cached(entries) == {e.kind : e \in entries} \intersect Sections

NothingShown ==
  [run |-> 0, mode |-> "none", doc |-> NoDoc, trapped |-> FALSE, entries |-> {}]

----------------------------------------------------------------------------
(* A freshly loaded page: the module script has run up to its last line's  *)
(* `await wasmReady`.  The document is whatever initialDoc resolved to and *)
(* the tab comes from the hash, if it names one of this page's sections.   *)

TabsOf(m) == {SectionOrder[m][i] : i \in DOMAIN SectionOrder[m]}

Init ==
  /\ wasm = "loading" /\ poisoned = FALSE /\ hung = FALSE
  /\ pageMode \in Modes /\ mode = pageMode /\ leaving = FALSE
  /\ autoOn \in BOOLEAN
  /\ doc \in Docs
  /\ timer = FALSE /\ runId = 0 /\ yielded = {} /\ button = FALSE
  /\ cache = {} /\ unread = TRUE /\ midRun = FALSE
  /\ currentTab \in TabsOf(pageMode) \union {NoTab}
  /\ hashTab = (currentTab # NoTab)
  /\ strip = [tab |-> currentTab, secs |-> {}]
  /\ screen = NothingShown
  /\ events = 0

----------------------------------------------------------------------------
(* runWith, from its entry to the await.                                   *)

\* Mutant: nobody looks at runId after the await.
AlwaysCurrent(r) == TRUE

\* The check after the await.
IsCurrent(r) == r.id = runId

\* The newest run is parked at the await (or stuck in the call).
Live == \E r \in yielded : IsCurrent(r)

\* Mutants of runWith's entry: the caches are not cleared; the pending timer is
\* not cancelled.
StartRunKeepsCaches ==
  /\ runId' = runId + 1
  /\ yielded' = yielded \union {[id |-> runId + 1, mode |-> mode]}
  /\ button' = FALSE
  /\ timer' = FALSE /\ midRun' = FALSE
  /\ UNCHANGED cache
StartRunKeepsTimer ==
  /\ runId' = runId + 1
  /\ yielded' = yielded \union {[id |-> runId + 1, mode |-> mode]}
  /\ button' = FALSE
  /\ cache' = {} /\ midRun' = FALSE
  /\ UNCHANGED timer

StartRun ==
  /\ runId' = runId + 1
  /\ yielded' = yielded \union {[id |-> runId + 1, mode |-> mode]}
  /\ button' = FALSE
  /\ cache' = {}
  /\ timer' = FALSE          \* clearTimeout(autoVerifyTimer)
  /\ midRun' = FALSE

\* runAction called by a handler that left the timer as given: runWith returns at
\* once while the wasm module is not there.
RunAction(timerNow) ==
  IF wasm = "ready"
  THEN StartRun
  ELSE /\ timer' = timerNow
       /\ UNCHANGED <<runId, yielded, button, cache, midRun>>

\* The page still runs its handlers: the main thread is not stuck in wasm.
Responsive == ~hung

\* A user action, of which at most MaxEvents happen.
UserEvent ==
  /\ Responsive
  /\ events < MaxEvents
  /\ events' = events + 1

----------------------------------------------------------------------------
(* The cold load.                                                          *)

\* The chain of wasmReady resolves and the last lines of the script run
\* without a task in between: the button goes live and the first run starts.
WasmReady ==
  /\ Responsive
  /\ wasm = "loading"
  /\ wasm' = "ready"
  /\ StartRun
  /\ UNCHANGED <<uiVars, poisoned, hung, tabVars, doc, unread, events>>

\* A fetch or an instantiation fails: `await wasmReady` throws.
WasmFails ==
  /\ wasm = "loading"
  /\ wasm' = "failed"
  /\ UNCHANGED <<uiVars, poisoned, hung, runVars, tabVars, doc, events>>

----------------------------------------------------------------------------
(* What the user does.                                                     *)

\* Any change of the document goes through the updateListener, which calls
\* scheduleAutoVerify: the timer is cleared, then armed if the box is checked.
scheduleAutoVerify == autoOn

Edit ==
  /\ UserEvent
  /\ \E d \in Docs \ {doc} : doc' = d
  /\ timer' = scheduleAutoVerify
  /\ unread' = TRUE /\ midRun' = (midRun \/ Live)
  /\ UNCHANGED <<uiVars, wasmVars, runId, yielded, button, cache, tabVars>>

Click ==
  /\ UserEvent
  /\ button
  /\ RunAction(timer)
  /\ UNCHANGED <<uiVars, wasmVars, tabVars, doc, unread>>

\* Mutant: the checkbox only records the preference.
ToggleAutoOnly ==
  /\ UserEvent
  /\ autoOn' = ~autoOn
  /\ UNCHANGED <<mode, pageMode, leaving, wasmVars, runVars, tabVars, doc>>

\* The change handler of the checkbox: flipping it on runs, flipping it off
\* stores the preference and nothing else.
ToggleAuto ==
  /\ UserEvent
  /\ autoOn' = ~autoOn
  /\ \/ ~autoOn /\ RunAction(timer) /\ UNCHANGED unread
     \/ autoOn /\ UNCHANGED runVars
  /\ UNCHANGED <<mode, pageMode, leaving, wasmVars, tabVars, doc>>

\* loadSource after its fetch, resetSource, and the #code branch of the
\* hashchange handler: the document is replaced (the listener arms the timer)
\* and runAction is called in the same task.  Only hashchange brings a tab.
ReplaceAndRun ==
  /\ UserEvent
  /\ doc' \in Docs
  /\ unread' = TRUE
  /\ RunAction(scheduleAutoVerify)
  /\ \/ UNCHANGED tabVars
     \/ /\ currentTab' \in TabsOf(pageMode)
        /\ hashTab' = TRUE
        /\ UNCHANGED <<strip, screen>>
  /\ UNCHANGED <<uiVars, wasmVars>>

\* The #source branch of hashchange sets the tab and then waits for loadSource
\* to fetch; the document changes later, in ReplaceAndRun.
HashTab ==
  /\ UserEvent
  /\ currentTab' \in TabsOf(pageMode)
  /\ hashTab' = TRUE
  /\ UNCHANGED <<uiVars, wasmVars, runVars, strip, screen, doc>>

\* rerender(): the strip now offers what is cached.
Rerender == strip' = [tab |-> currentTab', secs |-> Cached(cache')]

\* A click on a stage's tab, enabled when the strip was drawn, shows one of the
\* group's sections that are cached now (the last one visited, else the first);
\* while a run is parked nothing is cached and nothing happens.
ClickTab ==
  /\ UserEvent
  /\ currentTab' \in Cached(cache) \intersect TabsOf(pageMode)
  /\ \E s \in strip.secs : GROUP_OF[s] = GROUP_OF[currentTab']
  /\ UNCHANGED <<uiVars, wasmVars, runVars, screen, hashTab, doc>>
  /\ Rerender

\* A click on a subtab takes its section as it was enabled when the row was
\* drawn: while a run is parked the caches behind it are already cleared.
ClickSubtab ==
  /\ UserEvent
  /\ strip.tab # NoTab
  /\ currentTab' \in strip.secs \intersect TabsOf(pageMode)
  /\ GROUP_OF[currentTab'] = GROUP_OF[strip.tab]
  /\ UNCHANGED <<uiVars, wasmVars, runVars, screen, hashTab, doc>>
  /\ Rerender

\* A mode radio assigns location.search; handlers go on running until the
\* browser has the new page.
SwitchMode ==
  /\ UserEvent
  /\ mode' \in Modes \ {mode}
  /\ leaving' = TRUE
  /\ UNCHANGED <<autoOn, pageMode, wasmVars, runVars, tabVars, doc>>

\* The new page, after a mode switch or because the user reloads (the only way
\* out of a hang).  The checkbox is restored from localStorage, the mode from
\* the URL.
Reload ==
  /\ events < MaxEvents /\ events' = events + 1
  /\ wasm' = "loading" /\ poisoned' = FALSE /\ hung' = FALSE
  /\ pageMode' = mode /\ leaving' = FALSE
  /\ UNCHANGED <<mode, autoOn>>
  /\ doc' \in Docs
  /\ timer' = FALSE /\ runId' = 0 /\ yielded' = {} /\ button' = FALSE
  /\ cache' = {} /\ unread' = TRUE /\ midRun' = FALSE
  /\ currentTab' \in TabsOf(mode) \union {NoTab}
  /\ hashTab' = (currentTab' # NoTab)
  /\ strip' = [tab |-> currentTab', secs |-> {}]
  /\ screen' = NothingShown

----------------------------------------------------------------------------
(* What the browser does.                                                  *)

TimerFires ==
  /\ Responsive
  /\ timer
  /\ RunAction(FALSE)
  /\ UNCHANGED <<uiVars, wasmVars, tabVars, doc, unread, events>>

\* Mutant: the stale run, too, gives the button back.
ResumeStaleEnables(r) ==
  /\ Responsive
  /\ ~IsCurrent(r)
  /\ yielded' = yielded \ {r}
  /\ button' = TRUE
  /\ UNCHANGED <<uiVars, wasmVars, timer, runId, cache, unread, midRun,
                 tabVars, doc, events>>

\* A newer run started while this one was parked: return, touching nothing.
ResumeStale(r) ==
  /\ Responsive
  /\ ~IsCurrent(r)
  /\ yielded' = yielded \ {r}
  /\ UNCHANGED <<uiVars, wasmVars, timer, runId, button, cache, unread, midRun,
                 tabVars, doc, events>>

\* What opts.fn() can leave in the caches; see WasmCall.  After a trap has
\* leaked SESSION_GLOBALS, run_compiler panics on entry.
PossibleWrites == [m \in Modes |-> {w \intersect Tracked : w \in Written[m]}]
Returned       == [m \in Modes |-> {w \intersect Tracked : w \in Complete[m]}]
TrapWrites(m) == IF poisoned THEN {{}} ELSE PossibleWrites[m]

Tagged(r, kinds) == {[run |-> r.id, doc |-> doc, kind |-> k] : k \in kinds}

\* Mutant: onError is left to runVerify.
OnErrorVerifyOnly(r, wrote) ==
  IF r.mode = "verify" /\ wrote = {} THEN {"diag"} ELSE {}

\* onError: runVerify adds a diagnostic only when nothing else is there;
\* runProgram always adds a stderr chunk.
OnError(r, wrote) ==
  IF r.mode = "execute" THEN {"output"}
  ELSE IF wrote = {} THEN {"diag"} ELSE {}

\* The tail of runWith keeps the tab if its section is there, else prefers
\* opts.preferredTab, else takes the first cached section in strip order.
FirstCached(secs) ==
  LET order == SectionOrder[pageMode]
      here  == {i \in DOMAIN order : order[i] \in secs}
  IN  IF here = {} THEN NoTab
      ELSE order[CHOOSE i \in here : \A j \in here : i <= j]

\* Mutants: any tab is kept; the preferred tab is taken unseen.
PickTabKeeps(r, secs) ==
  IF currentTab # NoTab THEN currentTab ELSE FirstCached(secs)
PickTabUnseen(r, secs) ==
  IF currentTab \in secs THEN currentTab ELSE PreferredTab[r.mode]

PickTab(r, secs) ==
  IF currentTab # NoTab /\ currentTab \in secs THEN currentTab
  ELSE IF PreferredTab[r.mode] \in secs THEN PreferredTab[r.mode]
  ELSE FirstCached(secs)

\* Mutant: the button is given back only when the call returned.
FinishRunNoFinally(r, entries, trapped) ==
  /\ yielded' = yielded \ {r}
  /\ cache' = cache \union entries
  /\ button' = ~trapped
  /\ currentTab' = PickTab(r, Cached(cache'))
  /\ hashTab' = FALSE
  /\ Rerender
  /\ screen' = [run |-> r.id, mode |-> r.mode, doc |-> doc, trapped |-> trapped,
                entries |-> cache']
  /\ unread' = FALSE
  /\ UNCHANGED <<uiVars, wasm, hung, timer, runId, midRun, doc, events>>

\* From the wasm call to the end of runWith: the finally block and the tail.
FinishRun(r, entries, trapped) ==
  /\ yielded' = yielded \ {r}
  /\ cache' = cache \union entries
  /\ button' = TRUE
  /\ currentTab' = PickTab(r, Cached(cache'))
  /\ hashTab' = FALSE
  /\ Rerender
  /\ screen' = [run |-> r.id, mode |-> r.mode, doc |-> doc, trapped |-> trapped,
                entries |-> cache']
  /\ unread' = FALSE
  /\ UNCHANGED <<uiVars, wasm, hung, timer, runId, midRun, doc, events>>

ResumeReturns(r) ==
  /\ Responsive /\ IsCurrent(r) /\ ~poisoned
  /\ \E wrote \in Returned[r.mode] : FinishRun(r, Tagged(r, wrote), FALSE)
  /\ UNCHANGED poisoned

ResumeTraps(r) ==
  /\ Responsive /\ IsCurrent(r)
  /\ \E wrote \in TrapWrites(r.mode) :
       FinishRun(r, Tagged(r, wrote \union OnError(r, wrote)), TRUE)
  /\ poisoned' = TRUE

\* The call never returns: the page is stuck with whatever was written.
ResumeHangs(r) ==
  /\ Responsive /\ IsCurrent(r) /\ ~poisoned
  /\ hung' = TRUE
  /\ \E wrote \in PossibleWrites[r.mode] : cache' = cache \union Tagged(r, wrote)
  /\ UNCHANGED <<uiVars, wasm, poisoned, timer, runId, yielded, button,
                 unread, midRun, tabVars, doc, events>>

Resume(r) == ResumeStale(r) \/ ResumeReturns(r) \/ ResumeTraps(r) \/ ResumeHangs(r)

----------------------------------------------------------------------------

Next ==
  \/ WasmReady \/ WasmFails
  \/ Edit \/ Click \/ ToggleAuto \/ ReplaceAndRun \/ HashTab
  \/ ClickTab \/ ClickSubtab \/ SwitchMode \/ Reload
  \/ TimerFires
  \/ \E r \in yielded : Resume(r)

\* The browser delivers timers and paints and finishes the download; nothing
\* obliges the user to do anything.
Fairness ==
  /\ WF_vars(WasmReady)
  /\ WF_vars(TimerFires)
  /\ WF_vars(\E r \in yielded : Resume(r))

Spec     == Init /\ [][Next]_vars
FairSpec == Spec /\ Fairness

----------------------------------------------------------------------------
(* Properties                                                              *)

Runs == [id : Nat, mode : Modes]

\* Each variable holds the kind of value the code keeps in it.
TypeOK ==
  /\ wasm \in {"loading", "ready", "failed"}
  /\ poisoned \in BOOLEAN /\ hung \in BOOLEAN
  /\ mode \in Modes /\ pageMode \in Modes /\ leaving \in BOOLEAN
  /\ autoOn \in BOOLEAN /\ doc \in Docs
  /\ timer \in BOOLEAN /\ runId \in Nat /\ yielded \subseteq Runs
  /\ button \in BOOLEAN /\ cache \subseteq Entries
  /\ unread \in BOOLEAN /\ midRun \in BOOLEAN
  /\ currentTab \in Sections \union {NoTab} /\ hashTab \in BOOLEAN
  /\ strip \in [tab : Sections \union {NoTab}, secs : SUBSET Sections]
  /\ screen \in [run : Nat, mode : Modes \union {"none"},
                 doc : Docs \union {NoDoc}, trapped : BOOLEAN,
                 entries : SUBSET Entries]
  /\ events \in Nat

\* Runs overlap at the await and share one set of caches, yet the caches never
\* mix two runs: what is in them was written by the newest run, for one
\* document, and while that run is parked there is nothing in them.
CachesOfOneRun ==
  /\ \A e \in cache : e.run = runId
  /\ \A e, f \in cache : e.doc = f.doc
  /\ Live /\ ~hung => cache = {}

\* The button is live exactly when a click would start a run that is neither
\* too early (no wasm yet) nor on top of one still to come: no path through
\* runWith -- stale return, trap, ordinary end -- leaves it in the wrong state.
ButtonTellsTruth == button <=> (wasm = "ready" /\ ~Live)

\* What is on screen is the complete output of one run, for the document that
\* run read; once the newest run has ended it is that run's.
ScreenIsOneRun ==
  /\ \A e \in screen.entries : e.run = screen.run /\ e.doc = screen.doc
  /\ runId > 0 /\ ~Live => screen.run = runId /\ screen.entries = cache

\* What auto-verify owes the user.  No edit is lost: with the box checked, a change
\* that no run has reported on has its timer pending or a run parked that will read
\* it, however clicks, loads and the checkbox fell in between.  And hardly any is
\* verified twice: a timer that is pending although a run has read the text already
\* is always that of an edit made while that very run was parked, which read it when
\* it went on (1231); every earlier timer was cancelled when the run began, as
\* app.js:1174-1179 wants it.
EditsVerifiedOnce ==
  /\ autoOn /\ wasm = "ready" /\ unread => timer \/ Live
  /\ timer => unread \/ midRun

\* A run that trapped still leaves something for the user to read, whatever
\* the trap let through and in either mode.
TrapIsVisible == screen.trapped => screen.entries # {}

\* A tab never stays on a section that the last run did not produce, except
\* between a hash load and the run it starts: the clicks on tabs of the run
\* before, made while the caches are empty, are corrected by the tail.
TabShowsSomething ==
  ~Live /\ ~hashTab /\ runId > 0 =>
    IF currentTab = NoTab
    THEN Cached(cache) \intersect TabsOf(pageMode) = {}
    ELSE currentTab \in Cached(cache)

\* Results are painted in the order the runs were started: an older run never
\* replaces what a newer one showed (a new page starts over).
ScreenGoesForward == [][screen'.run >= screen.run \/ runId' = 0]_vars

\* With auto-verify on, once the user stops, the screen ends up showing the
\* result for the text that is in the editor, however edits, clicks and loads
\* fell between the awaits -- unless the wasm is not there or never returns.
ScreenCatchesUp ==
  <>[](autoOn /\ wasm = "ready" /\ ~hung => screen.doc = doc)

\* A button that was disabled comes back.
ButtonComesBack == []<>(button \/ hung \/ wasm # "ready")

\* Everything above, seen from outside: whatever is parked, cached or cancelled
\* inside, the page answers only the newest run and for the present text.
Latest ==
  INSTANCE LatestRun WITH asked <- runId, waiting <- Live,
                          answered <- [run |-> screen.run, doc |-> screen.doc]
AnswersLatest == Latest!Spec

=============================================================================
