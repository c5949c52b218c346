--------------------------- MODULE RunLoopProofs ---------------------------
(* Proofs about RunLoop, for every set of documents and every bound.       *)
EXTENDS RunLoop, TLAPS

----------------------------------------------------------------------------
(* The inductive invariant                                                 *)

\* Parked runs have distinct numbers, none newer than the counter; none is
\* parked before the wasm module is there.
ParkedRuns ==
  /\ yielded # {} => wasm = "ready"
  /\ \A r \in yielded : r.id <= runId
  /\ \A r, s \in yielded : r.id = s.id => r = s

\* What is on screen comes from a run older than the one still awaited.
ScreenNotAhead == screen.run <= runId /\ (Live => screen.run < runId)

\* A timer that is pending while a run is parked was armed by an edit made since
\* that run began: its start cancelled every earlier one.
TimersMidRun == timer /\ Live => midRun

Safe ==
  /\ ParkedRuns
  /\ ScreenNotAhead
  /\ CachesOfOneRun
  /\ ButtonTellsTruth
  /\ ScreenIsOneRun
  /\ TimersMidRun
  /\ EditsVerifiedOnce
  /\ TrapIsVisible

IInv == TypeOK /\ Safe

----------------------------------------------------------------------------
(* The operators                                                           *)

\* The sections of a page mode are sections.
LEMMA TabsAreSections ==
  ASSUME NEW m \in Modes
  PROVE  TabsOf(m) \subseteq Sections
BY DEF TabsOf, SectionOrder, Sections, Modes

\* What the wasm call writes is among the kinds of entries.
LEMMA WritesAreKinds ==
  ASSUME NEW m \in Modes, NEW w \in PossibleWrites[m]
  PROVE  w \subseteq Kinds
BY TrackedAssumption DEF PossibleWrites

\* The first place where a section is cached is such a place.
LEMMA FirstIsThere ==
  ASSUME pageMode \in Modes, NEW here, here \subseteq DOMAIN SectionOrder[pageMode],
         here # {}
  PROVE  (CHOOSE i \in here : \A j \in here : i <= j) \in here
<1>1. here \subseteq 1..4
  BY DEF Modes, SectionOrder
<1>2. \E i \in here : \A j \in here : i <= j
  <2>1. CASE 1 \in here BY <1>1, <2>1
  <2>2. CASE 1 \notin here /\ 2 \in here BY <1>1, <2>2
  <2>3. CASE 1 \notin here /\ 2 \notin here /\ 3 \in here BY <1>1, <2>3
  <2>4. CASE 1 \notin here /\ 2 \notin here /\ 3 \notin here
    <3>1. \A i \in here : i = 4 BY <1>1, <2>4
    <3>2. QED BY <3>1
  <2>5. QED BY <2>1, <2>2, <2>3, <2>4
<1>3. QED BY <1>2

\* The fallback of the tail is a section that is there, or none.
LEMMA FirstCachedInRange ==
  ASSUME pageMode \in Modes, NEW secs
  PROVE  FirstCached(secs) \in (secs \intersect Sections) \union {NoTab}
<1> DEFINE order == SectionOrder[pageMode]
           here  == {i \in DOMAIN order : order[i] \in secs}
<1>1. \A i \in DOMAIN order : order[i] \in Sections
  BY DEF Modes, SectionOrder, Sections
<1>2. CASE here = {}
  BY <1>2 DEF FirstCached
<1>3. CASE here # {}
  <2>1. (CHOOSE i \in here : \A j \in here : i <= j) \in here
    BY <1>3, FirstIsThere
  <2>2. QED
    BY <1>1, <1>3, <2>1 DEF FirstCached
<1>4. QED BY <1>2, <1>3

\* The tab picked by the tail is a section that is there, or none.
LEMMA PickTabInRange ==
  ASSUME pageMode \in Modes, NEW r \in Runs, NEW secs \in SUBSET Sections
  PROVE  PickTab(r, secs) \in secs \union {NoTab}
BY FirstCachedInRange DEF PickTab

----------------------------------------------------------------------------
(* Init and the shared parts of the actions                                *)

LEMMA InitIInv == Init => IInv
<1> SUFFICES ASSUME Init PROVE IInv
  OBVIOUS
<1> USE DEF Init
<1>1. TypeOK
  BY TabsAreSections DEF TypeOK, Modes, NothingShown, Runs, Entries
<1>2. ParkedRuns /\ ScreenNotAhead
  BY DEF ParkedRuns, ScreenNotAhead, NothingShown, Live
<1>3. CachesOfOneRun /\ ButtonTellsTruth /\ TimersMidRun /\ EditsVerifiedOnce
  BY DEF CachesOfOneRun, ButtonTellsTruth, TimersMidRun, EditsVerifiedOnce, Live
<1>4. ScreenIsOneRun /\ TrapIsVisible
  BY DEF ScreenIsOneRun, TrapIsVisible, NothingShown
<1>5. QED
  BY <1>1, <1>2, <1>3, <1>4 DEF IInv, Safe

----------------------------------------------------------------------------
(* Type correctness                                                        *)

LEMMA TaggedAreEntries ==
  ASSUME TypeOK, NEW r \in Runs, NEW w \in SUBSET Kinds
  PROVE  Tagged(r, w) \subseteq Entries
BY DEF TypeOK, Tagged, Entries, Runs

LEMMA StartRunType ==
  ASSUME TypeOK, StartRun
  PROVE  /\ timer' \in BOOLEAN /\ runId' \in Nat /\ yielded' \subseteq Runs
         /\ button' \in BOOLEAN /\ cache' \subseteq Entries
         /\ midRun' \in BOOLEAN
<1>1. runId + 1 \in Nat /\ mode \in Modes /\ yielded \subseteq Runs
  BY DEF TypeOK
<1>2. [id |-> runId + 1, mode |-> mode] \in Runs
  BY <1>1 DEF Runs
<1>3. yielded' \subseteq Runs
  BY <1>1, <1>2 DEF StartRun
<1>4. QED
  BY <1>1, <1>3 DEF StartRun

LEMMA RunActionType ==
  ASSUME TypeOK, NEW t \in BOOLEAN, RunAction(t)
  PROVE  /\ timer' \in BOOLEAN /\ runId' \in Nat /\ yielded' \subseteq Runs
         /\ button' \in BOOLEAN /\ cache' \subseteq Entries
         /\ midRun' \in BOOLEAN
BY StartRunType DEF TypeOK, RunAction

LEMMA FinishRunType ==
  ASSUME TypeOK, NEW r \in yielded, NEW es \in SUBSET Entries,
         NEW trapped \in BOOLEAN, FinishRun(r, es, trapped), poisoned' \in BOOLEAN
  PROVE  TypeOK'
<1>1. r \in Runs /\ r.id \in Nat /\ r.mode \in Modes
  BY DEF TypeOK, Runs
<1>2. cache' \in SUBSET Entries /\ Cached(cache') \in SUBSET Sections
  BY DEF FinishRun, TypeOK, Cached
<1>3. currentTab' \in Sections \union {NoTab}
  BY <1>1, <1>2, PickTabInRange DEF FinishRun, TypeOK
<1>4. screen' \in [run : Nat, mode : Modes \union {"none"}, doc : Docs \union {NoDoc},
                   trapped : BOOLEAN, entries : SUBSET Entries]
  BY <1>1, <1>2 DEF FinishRun, TypeOK
<1>5. strip' \in [tab : Sections \union {NoTab}, secs : SUBSET Sections]
  BY <1>2, <1>3 DEF FinishRun, Rerender
<1>6. QED
  BY <1>2, <1>3, <1>4, <1>5 DEF FinishRun, TypeOK, uiVars

LEMMA TypeStep == TypeOK /\ [Next]_vars => TypeOK'
<1> SUFFICES ASSUME TypeOK, [Next]_vars PROVE TypeOK'
  OBVIOUS
<1> USE DEF uiVars, wasmVars, runVars, tabVars
<1>1. CASE WasmReady
  BY <1>1, StartRunType DEF WasmReady, TypeOK
<1>2. CASE WasmFails
  BY <1>2 DEF WasmFails, TypeOK
<1>3. CASE Edit
  BY <1>3 DEF Edit, UserEvent, scheduleAutoVerify, Live, TypeOK
<1>4. CASE Click
  BY <1>4, RunActionType DEF Click, UserEvent, TypeOK
<1>5. CASE ToggleAuto
  <2>1. CASE RunAction(timer) /\ UNCHANGED unread
    BY <1>5, <2>1, RunActionType DEF ToggleAuto, UserEvent, TypeOK
  <2>2. CASE UNCHANGED runVars
    BY <1>5, <2>2 DEF ToggleAuto, UserEvent, TypeOK
  <2>3. QED BY <1>5, <2>1, <2>2 DEF ToggleAuto
<1>6. CASE ReplaceAndRun
  <2>1. RunAction(autoOn) /\ autoOn \in BOOLEAN
    BY <1>6 DEF ReplaceAndRun, scheduleAutoVerify, TypeOK
  <2>2. /\ currentTab' \in Sections \union {NoTab} /\ hashTab' \in BOOLEAN
        /\ strip' = strip /\ screen' = screen
    BY <1>6, TabsAreSections DEF ReplaceAndRun, TypeOK
  <2>3. /\ timer' \in BOOLEAN /\ runId' \in Nat /\ yielded' \subseteq Runs
        /\ button' \in BOOLEAN /\ cache' \subseteq Entries
        /\ midRun' \in BOOLEAN
    BY <2>1, RunActionType
  <2>4. QED
    BY <1>6, <2>2, <2>3 DEF ReplaceAndRun, UserEvent, TypeOK
<1>7. CASE HashTab
  BY <1>7, TabsAreSections DEF HashTab, UserEvent, TypeOK
<1>8. CASE ClickTab
  <2>1. currentTab' \in Sections
    BY <1>8, TabsAreSections DEF ClickTab, TypeOK
  <2>2. Cached(cache') \in SUBSET Sections
    BY DEF Cached
  <2>3. strip' \in [tab : Sections \union {NoTab}, secs : SUBSET Sections]
    BY <1>8, <2>1, <2>2 DEF ClickTab, Rerender
  <2>4. QED
    BY <1>8, <2>1, <2>3 DEF ClickTab, UserEvent, TypeOK
<1>9. CASE ClickSubtab
  <2>1. currentTab' \in Sections
    BY <1>9, TabsAreSections DEF ClickSubtab, TypeOK
  <2>2. Cached(cache') \in SUBSET Sections
    BY DEF Cached
  <2>3. strip' \in [tab : Sections \union {NoTab}, secs : SUBSET Sections]
    BY <1>9, <2>1, <2>2 DEF ClickSubtab, Rerender
  <2>4. QED
    BY <1>9, <2>1, <2>3 DEF ClickSubtab, UserEvent, TypeOK
<1>10. CASE SwitchMode
  BY <1>10 DEF SwitchMode, UserEvent, TypeOK
<1>11. CASE Reload
  <2>1. currentTab' \in Sections \union {NoTab} /\ hashTab' \in BOOLEAN
    BY <1>11, TabsAreSections DEF Reload, TypeOK
  <2>2. strip' \in [tab : Sections \union {NoTab}, secs : SUBSET Sections]
    BY <1>11, <2>1 DEF Reload
  <2>3. screen' \in [run : Nat, mode : Modes \union {"none"}, doc : Docs \union {NoDoc},
                     trapped : BOOLEAN, entries : SUBSET Entries]
    BY <1>11 DEF Reload, NothingShown
  <2>4. mode' \in Modes /\ pageMode' \in Modes /\ events' \in Nat
        /\ autoOn' \in BOOLEAN /\ doc' \in Docs
    BY <1>11 DEF Reload, TypeOK
  <2>5. /\ wasm' = "loading" /\ poisoned' = FALSE /\ hung' = FALSE /\ leaving' = FALSE
        /\ timer' = FALSE /\ runId' = 0 /\ yielded' = {} /\ button' = FALSE
        /\ cache' = {} /\ unread' = TRUE /\ midRun' = FALSE
    BY <1>11 DEF Reload
  <2>6. QED
    BY <2>1, <2>2, <2>3, <2>4, <2>5 DEF TypeOK
<1>12. CASE TimerFires
  <2>1. RunAction(FALSE) /\ FALSE \in BOOLEAN
    BY <1>12 DEF TimerFires
  <2>2. /\ timer' \in BOOLEAN /\ runId' \in Nat /\ yielded' \subseteq Runs
        /\ button' \in BOOLEAN /\ cache' \subseteq Entries
        /\ midRun' \in BOOLEAN
    BY <2>1, RunActionType
  <2>3. QED
    BY <1>12, <2>2 DEF TimerFires, TypeOK
<1>13. ASSUME NEW r \in yielded, Resume(r) PROVE TypeOK'
  <2> r \in Runs /\ r.mode \in Modes
    BY DEF TypeOK, Runs
  <2>1. CASE ResumeStale(r)
    BY <2>1 DEF ResumeStale, TypeOK
  <2>2. CASE ResumeReturns(r)
    <3>1. PICK w \in Returned[r.mode] : FinishRun(r, Tagged(r, w), FALSE)
      BY <2>2 DEF ResumeReturns
    <3>2. w \in SUBSET Kinds
      BY WritesAreKinds DEF Returned, PossibleWrites, Complete
    <3>3. QED
      BY <2>2, <3>1, <3>2, TaggedAreEntries, FinishRunType DEF ResumeReturns, TypeOK
  <2>3. CASE ResumeTraps(r)
    <3>1. PICK w \in TrapWrites(r.mode) :
            FinishRun(r, Tagged(r, w \union OnError(r, w)), TRUE)
      BY <2>3 DEF ResumeTraps
    <3>2. w \union OnError(r, w) \in SUBSET Kinds
      BY WritesAreKinds DEF TrapWrites, OnError, Kinds
    <3>3. QED
      BY <2>3, <3>1, <3>2, TaggedAreEntries, FinishRunType DEF ResumeTraps
  <2>4. CASE ResumeHangs(r)
    <3>1. PICK w \in PossibleWrites[r.mode] : cache' = cache \union Tagged(r, w)
      BY <2>4 DEF ResumeHangs
    <3>2. cache' \subseteq Entries
      BY <3>1, WritesAreKinds, TaggedAreEntries DEF TypeOK
    <3>3. QED
      BY <2>4, <3>2 DEF ResumeHangs, TypeOK
  <2>5. QED
    BY <1>13, <2>1, <2>2, <2>3, <2>4 DEF Resume
<1>14. CASE UNCHANGED vars
  BY <1>14 DEF vars, TypeOK
<1>15. QED
  BY <1>1, <1>2, <1>3, <1>4, <1>5, <1>6, <1>7, <1>8, <1>9, <1>10, <1>11, <1>12,
     <1>13, <1>14 DEF Next

\* Every variable of the controller keeps to the values the code gives it,
\* whatever the documents and however long the session.
THEOREM TypeCorrect == Spec => []TypeOK
<1>1. Init => TypeOK
  BY InitIInv DEF IInv
<1>2. QED
  BY <1>1, TypeStep, PTL DEF Spec

----------------------------------------------------------------------------
(* The safety invariant                                                    *)

\* Starting a run leaves empty caches, a disabled button and no timer, and a run
\* that will read what no run has read.
LEMMA StartRunSafe ==
  ASSUME IInv, StartRun, wasm' = "ready", screen' = screen
  PROVE  Safe'
<1> DEFINE new == [id |-> runId + 1, mode |-> mode]
<1>1. /\ runId \in Nat /\ runId' = runId + 1 /\ yielded' = yielded \union {new}
      /\ new.id = runId' /\ \A r \in yielded : r.id \in Nat
  BY DEF IInv, TypeOK, Runs, StartRun
<1>2. ParkedRuns'
  <2>1. \A r \in yielded : r.id <= runId /\ r.id # new.id
    BY <1>1 DEF IInv, Safe, ParkedRuns
  <2>2. \A r \in yielded' : r.id <= runId'
    BY <1>1, <2>1
  <2>3. \A r, s \in yielded' : r.id = s.id => r = s
    BY <1>1, <2>1 DEF IInv, Safe, ParkedRuns
  <2>4. QED BY <2>2, <2>3 DEF ParkedRuns
<1>3. Live'
  BY <1>1 DEF Live, IsCurrent
<1>4. ScreenNotAhead'
  BY <1>1 DEF IInv, Safe, ScreenNotAhead, TypeOK
<1>5. CachesOfOneRun' /\ TimersMidRun' /\ EditsVerifiedOnce'
  BY <1>3 DEF StartRun, CachesOfOneRun, TimersMidRun, EditsVerifiedOnce
<1>6. ButtonTellsTruth'
  BY <1>3 DEF StartRun, ButtonTellsTruth
<1>7. ScreenIsOneRun' /\ TrapIsVisible'
  BY <1>3 DEF IInv, Safe, ScreenIsOneRun, TrapIsVisible
<1>8. QED
  BY <1>2, <1>4, <1>5, <1>6, <1>7 DEF Safe

\* A step that leaves runs, button, caches and screen alone needs only to keep
\* the timer honest.
LEMMA FrameSafe ==
  ASSUME IInv,
         UNCHANGED <<runId, yielded, button, cache, screen, hung>>,
         (wasm' = "ready") <=> (wasm = "ready"),
         TimersMidRun', EditsVerifiedOnce'
  PROVE  Safe'
<1>1. Live' <=> Live
  BY DEF Live, IsCurrent
<1>2. ParkedRuns' /\ ScreenNotAhead' /\ TrapIsVisible'
  BY <1>1 DEF IInv, Safe, ParkedRuns, ScreenNotAhead, TrapIsVisible
<1>3. CachesOfOneRun' /\ ButtonTellsTruth' /\ ScreenIsOneRun'
  BY <1>1 DEF IInv, Safe, CachesOfOneRun, ButtonTellsTruth, ScreenIsOneRun
<1>4. QED
  BY <1>2, <1>3 DEF Safe

LEMMA RunActionSafe ==
  ASSUME IInv, NEW t \in BOOLEAN, RunAction(t), t => unread' \/ midRun,
         UNCHANGED <<wasm, hung, screen>>
  PROVE  Safe'
<1>1. CASE wasm = "ready"
  BY <1>1, StartRunSafe DEF RunAction
<1>2. CASE wasm # "ready"
  <2>1. /\ UNCHANGED <<runId, yielded, button, cache, midRun>>
        /\ timer' = t /\ yielded = {}
    BY <1>2 DEF RunAction, IInv, Safe, ParkedRuns
  <2>2. TimersMidRun' /\ EditsVerifiedOnce'
    BY <1>2, <2>1 DEF TimersMidRun, EditsVerifiedOnce, Live
  <2>3. QED BY <2>1, <2>2, FrameSafe
<1>3. QED BY <1>1, <1>2

\* A stale run leaves: the newest run is as parked, or as ended, as before.
LEMMA StaleSafe ==
  ASSUME IInv, NEW r \in yielded, ResumeStale(r)
  PROVE  Safe'
<1> USE DEF ResumeStale
<1>1. Live' <=> Live
  BY DEF Live, IsCurrent
<1>2. ParkedRuns'
  BY DEF IInv, Safe, ParkedRuns, wasmVars
<1>3. ScreenNotAhead' /\ TrapIsVisible' /\ TimersMidRun' /\ EditsVerifiedOnce'
  BY <1>1 DEF IInv, Safe, ScreenNotAhead, TrapIsVisible, TimersMidRun,
              EditsVerifiedOnce, tabVars, uiVars, wasmVars
<1>4. CachesOfOneRun' /\ ButtonTellsTruth' /\ ScreenIsOneRun'
  BY <1>1 DEF IInv, Safe, CachesOfOneRun, ButtonTellsTruth, ScreenIsOneRun,
              tabVars, wasmVars
<1>5. QED
  BY <1>2, <1>3, <1>4 DEF Safe

\* The newest run ends: it alone is on screen and in the caches.
LEMMA FinishSafe ==
  ASSUME IInv, NEW r \in yielded, IsCurrent(r), ~hung, wasm = "ready",
         NEW kinds, NEW trapped \in BOOLEAN, trapped => kinds # {},
         FinishRun(r, Tagged(r, kinds), trapped)
  PROVE  Safe'
<1> USE DEF FinishRun
<1>1. /\ r.id = runId /\ runId' = runId /\ yielded' = yielded \ {r}
      /\ cache = {} /\ cache' = Tagged(r, kinds)
      /\ screen'.run = runId /\ screen'.doc = doc /\ screen'.trapped = trapped
      /\ screen'.entries = cache' /\ button' = TRUE /\ runId \in Nat
  <2>1. r.id = runId /\ cache = {} /\ runId \in Nat
    BY DEF IInv, Safe, CachesOfOneRun, Live, IsCurrent, TypeOK
  <2>2. runId' = runId /\ yielded' = yielded \ {r} /\ cache' = Tagged(r, kinds) /\ button' = TRUE
    BY <2>1
  <2>3. screen' = [run |-> r.id, mode |-> r.mode, doc |-> doc, trapped |-> trapped,
                   entries |-> cache']
    OBVIOUS
  <2>4. QED BY <2>1, <2>2, <2>3
<1>2. ~Live'
  BY <1>1 DEF Live, IsCurrent, IInv, Safe, ParkedRuns
<1>3. \A e \in cache' : e.run = runId /\ e.doc = doc
  BY <1>1 DEF Tagged
<1>4. ParkedRuns'
  BY <1>1 DEF IInv, Safe, ParkedRuns
<1>5. ScreenNotAhead'
  BY <1>1, <1>2 DEF ScreenNotAhead
<1>6. CachesOfOneRun'
  BY <1>1, <1>2, <1>3 DEF CachesOfOneRun
<1>7. ButtonTellsTruth'
  BY <1>1, <1>2 DEF ButtonTellsTruth
<1>8. ScreenIsOneRun'
  BY <1>1, <1>3 DEF ScreenIsOneRun
<1>9. TrapIsVisible'
  <2>1. CASE trapped
    <3>1. PICK k \in kinds : TRUE
      BY <2>1
    <3>2. [run |-> r.id, doc |-> doc, kind |-> k] \in Tagged(r, kinds)
      BY <3>1 DEF Tagged
    <3>3. QED BY <1>1, <3>2 DEF TrapIsVisible
  <2>2. CASE ~trapped
    BY <1>1, <2>2 DEF TrapIsVisible
  <2>3. QED BY <2>1, <2>2
<1>10. TimersMidRun' /\ EditsVerifiedOnce'
  <2>1. Live
    BY DEF Live
  <2>2. /\ unread' = FALSE /\ UNCHANGED <<timer, midRun>> /\ (timer => midRun)
    BY <2>1 DEF IInv, Safe, TimersMidRun
  <2>3. QED BY <1>2, <2>2 DEF TimersMidRun, EditsVerifiedOnce
<1>11. QED
  BY <1>4, <1>5, <1>6, <1>7, <1>8, <1>9, <1>10 DEF Safe

\* The newest run hangs: it stays parked, and the button stays disabled.
LEMMA HangSafe ==
  ASSUME IInv, NEW r \in yielded, ResumeHangs(r)
  PROVE  Safe'
<1> USE DEF ResumeHangs
<1>1. PICK w \in PossibleWrites[r.mode] : cache' = cache \union Tagged(r, w)
  OBVIOUS
<1>2. Live /\ Live' /\ r.id = runId /\ cache = {} /\ cache' = Tagged(r, w)
  BY <1>1 DEF Live, IsCurrent, Responsive, IInv, Safe, CachesOfOneRun
<1>3. CachesOfOneRun'
  BY <1>2 DEF CachesOfOneRun, Tagged
<1>4. ButtonTellsTruth' /\ ScreenIsOneRun'
  BY <1>2 DEF IInv, Safe, ButtonTellsTruth, ScreenIsOneRun, tabVars
<1>5. ParkedRuns' /\ ScreenNotAhead' /\ TrapIsVisible'
  BY <1>2 DEF IInv, Safe, ParkedRuns, ScreenNotAhead, TrapIsVisible, tabVars
<1>6. TimersMidRun' /\ EditsVerifiedOnce'
  BY <1>2 DEF IInv, Safe, TimersMidRun, EditsVerifiedOnce
<1>7. QED
  BY <1>3, <1>4, <1>5, <1>6 DEF Safe

LEMMA SafeStep == IInv /\ [Next]_vars => Safe'
<1> SUFFICES ASSUME IInv, [Next]_vars PROVE Safe'
  OBVIOUS
<1> USE DEF uiVars, wasmVars, tabVars
<1>0. /\ TypeOK /\ Safe /\ timer \in BOOLEAN /\ autoOn \in BOOLEAN
      /\ timer => unread \/ midRun
  BY DEF IInv, Safe, TypeOK, EditsVerifiedOnce
\* What the timer owes is not disturbed by a step that leaves it, the runs and the
\* reading of the text alone and does not make auto-verify owe more.
<1>a. ASSUME UNCHANGED runVars, autoOn' /\ wasm' = "ready" => autoOn /\ wasm = "ready"
      PROVE  TimersMidRun' /\ EditsVerifiedOnce'
  <2>1. Live' <=> Live
    BY <1>a DEF runVars, Live, IsCurrent
  <2>2. QED
    BY <1>a, <2>1 DEF runVars, IInv, Safe, TimersMidRun, EditsVerifiedOnce
<1>1. CASE WasmReady
  BY <1>1, StartRunSafe DEF WasmReady
<1>2. CASE WasmFails
  BY <1>2, <1>a, FrameSafe DEF WasmFails, runVars
<1>3. CASE Edit
  <2>1. Live' <=> Live
    BY <1>3 DEF Edit, Live, IsCurrent
  <2>2. TimersMidRun' /\ EditsVerifiedOnce'
    BY <1>3, <2>1 DEF Edit, scheduleAutoVerify, TimersMidRun, EditsVerifiedOnce
  <2>3. QED BY <1>3, <2>2, FrameSafe DEF Edit
<1>4. CASE Click
  <2>1. RunAction(timer) /\ UNCHANGED <<wasm, hung, screen, unread>>
    BY <1>4 DEF Click
  <2>2. QED BY <1>0, <2>1, RunActionSafe
<1>5. CASE ToggleAuto
  <2>0. UNCHANGED <<wasm, hung, screen>>
    BY <1>5 DEF ToggleAuto
  <2>1. CASE RunAction(timer) /\ UNCHANGED unread
    BY <1>0, <2>0, <2>1, RunActionSafe
  <2>2. CASE autoOn /\ UNCHANGED runVars
    <3>1. autoOn' = FALSE
      BY <1>5, <2>2 DEF ToggleAuto
    <3>2. QED BY <1>a, <2>0, <2>2, <3>1, FrameSafe DEF runVars
  <2>3. QED BY <1>5, <2>1, <2>2 DEF ToggleAuto
<1>6. CASE ReplaceAndRun
  <2>1. RunAction(autoOn) /\ unread' = TRUE /\ UNCHANGED <<wasm, hung, screen>>
    BY <1>6 DEF ReplaceAndRun, scheduleAutoVerify
  <2>2. QED BY <1>0, <2>1, RunActionSafe
<1>7. CASE HashTab
  BY <1>7, <1>a, FrameSafe DEF HashTab, runVars
<1>8. CASE ClickTab
  BY <1>8, <1>a, FrameSafe DEF ClickTab, runVars
<1>9. CASE ClickSubtab
  BY <1>9, <1>a, FrameSafe DEF ClickSubtab, runVars
<1>10. CASE SwitchMode
  BY <1>10, <1>a, FrameSafe DEF SwitchMode, runVars
<1>11. CASE Reload
  <2>1. /\ wasm' = "loading" /\ runId' = 0 /\ yielded' = {} /\ button' = FALSE
        /\ cache' = {} /\ timer' = FALSE /\ screen' = NothingShown
    BY <1>11 DEF Reload
  <2>2. QED
    BY <2>1 DEF Safe, ParkedRuns, ScreenNotAhead, CachesOfOneRun, ButtonTellsTruth,
                ScreenIsOneRun, TimersMidRun, EditsVerifiedOnce, TrapIsVisible,
                Live, NothingShown
<1>12. CASE TimerFires
  <2>1. RunAction(FALSE) /\ UNCHANGED <<wasm, hung, screen>>
    BY <1>12 DEF TimerFires
  <2>2. FALSE \in BOOLEAN
    OBVIOUS
  <2>3. QED BY <1>0, <2>1, <2>2, RunActionSafe
<1>13. ASSUME NEW r \in yielded, Resume(r) PROVE Safe'
  <2>0. wasm = "ready"
    BY <1>0 DEF Safe, ParkedRuns
  <2>1. CASE ResumeStale(r)
    BY <2>1, StaleSafe
  <2>2. CASE ResumeReturns(r)
    <3>1. PICK w \in Returned[r.mode] : FinishRun(r, Tagged(r, w), FALSE)
      BY <2>2 DEF ResumeReturns
    <3>2. IsCurrent(r) /\ ~hung /\ FALSE \in BOOLEAN
      BY <2>2 DEF ResumeReturns, Responsive
    <3>3. QED
      BY <2>0, <3>1, <3>2, FinishSafe
  <2>3. CASE ResumeTraps(r)
    <3>1. PICK w \in TrapWrites(r.mode) :
            FinishRun(r, Tagged(r, w \union OnError(r, w)), TRUE)
      BY <2>3 DEF ResumeTraps
    <3>2. IsCurrent(r) /\ ~hung /\ TRUE \in BOOLEAN
      BY <2>3 DEF ResumeTraps, Responsive
    <3>3. w \union OnError(r, w) # {}
      BY DEF OnError
    <3>4. QED
      BY <2>0, <3>1, <3>2, <3>3, FinishSafe
  <2>4. CASE ResumeHangs(r)
    BY <2>4, HangSafe
  <2>5. QED
    BY <1>13, <2>1, <2>2, <2>3, <2>4 DEF Resume
<1>14. CASE UNCHANGED vars
  BY <1>14, <1>a, FrameSafe DEF vars, runVars
<1>15. QED
  BY <1>1, <1>2, <1>3, <1>4, <1>5, <1>6, <1>7, <1>8, <1>9, <1>10, <1>11, <1>12,
     <1>13, <1>14 DEF Next

\* The strengthening of the properties below is inductive: besides them it
\* needs only that parked runs are distinct and not from the future, and whose a
\* timer is that is pending beside one.
THEOREM Invariance == Spec => []IInv
<1>1. IInv /\ [Next]_vars => IInv'
  BY TypeStep, SafeStep DEF IInv
<1>2. QED
  BY <1>1, InitIInv, PTL DEF Spec

----------------------------------------------------------------------------
(* What follows from it                                                    *)

\* Overlapping runs never mix their output in the shared caches.
THEOREM CachesNeverMix == Spec => []CachesOfOneRun
BY Invariance, PTL DEF IInv, Safe

\* The Run button is live exactly when no run is pending and wasm is there.
THEOREM ButtonIsRight == Spec => []ButtonTellsTruth
BY Invariance, PTL DEF IInv, Safe

\* The screen shows one run's output for one document, the newest run's once
\* that has ended.
THEOREM ScreenIsCoherent == Spec => []ScreenIsOneRun
BY Invariance, PTL DEF IInv, Safe

\* With the box checked no edit is left without a run to come, and a timer for a
\* text that a run has read already is always that of an edit made while the
\* newest run was parked.
THEOREM EditsAreVerified == Spec => []EditsVerifiedOnce
BY Invariance, PTL DEF IInv, Safe

\* A run that trapped leaves something on screen.
THEOREM TrapsAreSeen == Spec => []TrapIsVisible
BY Invariance, PTL DEF IInv, Safe

\* Only the end of the newest run and a reload change the screen.
LEMMA ScreenChanges ==
  ASSUME IInv, [Next]_vars
  PROVE  \/ screen' = screen
         \/ runId' = 0
         \/ /\ Live /\ ~Live' /\ UNCHANGED <<runId, doc>>
            /\ screen'.run = runId /\ screen'.doc = doc
<1> USE DEF uiVars, wasmVars, tabVars, runVars
<1>1. ASSUME NEW r \in yielded, Resume(r)
      PROVE  \/ screen' = screen
             \/ /\ Live /\ ~Live' /\ UNCHANGED <<runId, doc>>
                /\ screen'.run = runId /\ screen'.doc = doc
  <2>1. ASSUME NEW es, NEW trapped, FinishRun(r, es, trapped), IsCurrent(r)
        PROVE  /\ Live /\ ~Live' /\ UNCHANGED <<runId, doc>>
               /\ screen'.run = runId /\ screen'.doc = doc
    <3>1. Live /\ UNCHANGED <<runId, doc>> /\ screen'.run = runId /\ screen'.doc = doc
      BY <2>1 DEF FinishRun, Live, IsCurrent
    <3>2. ~Live'
      BY <2>1 DEF FinishRun, Live, IsCurrent, IInv, Safe, ParkedRuns
    <3>3. QED BY <3>1, <3>2
  <2>2. CASE ResumeStale(r) \/ ResumeHangs(r)
    BY <2>2 DEF ResumeStale, ResumeHangs
  <2>3. CASE ResumeReturns(r)
    BY <2>1, <2>3 DEF ResumeReturns
  <2>4. CASE ResumeTraps(r)
    BY <2>1, <2>4 DEF ResumeTraps
  <2>5. QED BY <1>1, <2>2, <2>3, <2>4 DEF Resume
<1>2. CASE Reload
  BY <1>2 DEF Reload
<1>3. CASE WasmReady \/ WasmFails \/ TimerFires
  BY <1>3 DEF WasmReady, WasmFails, TimerFires
<1>4. CASE Edit \/ Click \/ ToggleAuto \/ ReplaceAndRun \/ SwitchMode
  BY <1>4 DEF Edit, Click, ToggleAuto, ReplaceAndRun, SwitchMode
<1>5. CASE HashTab \/ ClickTab \/ ClickSubtab
  BY <1>5 DEF HashTab, ClickTab, ClickSubtab
<1>6. CASE UNCHANGED vars
  BY <1>6 DEF vars
<1>7. QED
  BY <1>1, <1>2, <1>3, <1>4, <1>5, <1>6 DEF Next

\* An older run never paints over a newer one.
THEOREM ScreenOnlyAdvances == Spec => ScreenGoesForward
<1>1. IInv /\ [Next]_vars => [screen'.run >= screen.run \/ runId' = 0]_vars
  BY ScreenChanges DEF IInv, Safe, ScreenNotAhead, TypeOK
<1>2. QED
  BY <1>1, Invariance, PTL DEF Spec, ScreenGoesForward

----------------------------------------------------------------------------
(* The tab and what is cached                                              *)

\* Once the newest run has ended, the strip offers what is cached: a subtab
\* clicked then leads to a section that is there.
StripIsFresh == ~Live /\ runId > 0 => strip.secs = Cached(cache)

TabInv == TabShowsSomething /\ StripIsFresh

\* The fallback of the tail finds no tab only if no section of the page is there.
LEMMA FirstCachedSearchesAll ==
  ASSUME pageMode \in Modes, NEW secs, FirstCached(secs) = NoTab
  PROVE  secs \intersect TabsOf(pageMode) = {}
<1> DEFINE order == SectionOrder[pageMode]
           here  == {i \in DOMAIN order : order[i] \in secs}
<1>1. CASE here = {}
  BY <1>1 DEF TabsOf
<1>2. CASE here # {}
  <2>1. PICK i \in here : FirstCached(secs) = order[i]
    BY <1>2, FirstIsThere DEF FirstCached
  <2>2. order[i] # NoTab
    BY <2>1 DEF Modes, SectionOrder, NoTab
  <2>3. QED BY <2>1, <2>2
<1>3. QED BY <1>1, <1>2

\* The tail leaves the tab on a section that is there, or finds none.
LEMMA PickTabShowsSomething ==
  ASSUME TypeOK, NEW r \in Runs, NEW secs \in SUBSET Sections
  PROVE  IF PickTab(r, secs) = NoTab
         THEN secs \intersect TabsOf(pageMode) = {}
         ELSE PickTab(r, secs) \in secs
<1>1. pageMode \in Modes
  BY DEF TypeOK
<1>2. CASE PickTab(r, secs) = FirstCached(secs)
  BY <1>1, <1>2, PickTabInRange, FirstCachedSearchesAll
<1>3. CASE PickTab(r, secs) # FirstCached(secs)
  <2>1. PickTab(r, secs) \in secs
    BY <1>3 DEF PickTab
  <2>2. NoTab \notin secs
    BY DEF NoTab, Sections
  <2>3. QED BY <2>1, <2>2
<1>4. QED BY <1>2, <1>3

\* A run under way owes the tab nothing.
LEMMA StartRunTab ==
  ASSUME StartRun
  PROVE  TabInv'
<1>1. [id |-> runId + 1, mode |-> mode] \in yielded' /\ runId' = runId + 1
  BY DEF StartRun
<1>2. Live'
  BY <1>1 DEF Live, IsCurrent
<1>3. QED
  BY <1>2 DEF TabInv, TabShowsSomething, StripIsFresh

\* A step that keeps the runs, the caches and the strip may set the tab only for
\* a hash load.
LEMMA FrameTab ==
  ASSUME TabInv, UNCHANGED <<runId, yielded, cache, strip, pageMode>>,
         hashTab' \/ UNCHANGED <<currentTab, hashTab>>
  PROVE  TabInv'
<1>1. Live' <=> Live
  BY DEF Live, IsCurrent
<1>2. Cached(cache') = Cached(cache) /\ TabsOf(pageMode') = TabsOf(pageMode)
  OBVIOUS
<1>3. StripIsFresh'
  BY <1>1, <1>2 DEF TabInv, StripIsFresh
<1>4. TabShowsSomething'
  BY <1>1, <1>2 DEF TabInv, TabShowsSomething
<1>5. QED
  BY <1>3, <1>4 DEF TabInv

LEMMA RunActionTab ==
  ASSUME TabInv, NEW t, RunAction(t), UNCHANGED <<strip, pageMode>>,
         hashTab' \/ UNCHANGED <<currentTab, hashTab>>
  PROVE  TabInv'
<1>1. CASE wasm = "ready"
  BY <1>1, StartRunTab DEF RunAction
<1>2. CASE wasm # "ready"
  BY <1>2, FrameTab DEF RunAction
<1>3. QED BY <1>1, <1>2

\* A click that shows a section the strip offers redraws the strip.
LEMMA ClickKeepsTab ==
  ASSUME TypeOK, UNCHANGED <<runId, yielded, cache, pageMode>>, Rerender,
         ~Live /\ runId > 0 => currentTab' \in Cached(cache)
  PROVE  TabInv'
<1>1. Live' <=> Live
  BY DEF Live, IsCurrent
<1>2. Cached(cache') = Cached(cache)
  OBVIOUS
<1>3. strip'.secs = Cached(cache')
  BY DEF Rerender
<1>4. NoTab \notin Cached(cache)
  BY DEF NoTab, Cached, Sections
<1>5. QED
  BY <1>1, <1>2, <1>3, <1>4 DEF TabInv, TabShowsSomething, StripIsFresh

\* The tail of the newest run moves the tab off a section it did not produce.
LEMMA FinishTab ==
  ASSUME TypeOK, NEW r \in yielded, NEW es, NEW trapped, FinishRun(r, es, trapped)
  PROVE  TabInv'
<1>1. r \in Runs /\ pageMode' = pageMode
  BY DEF TypeOK, FinishRun, uiVars
<1>2. Cached(cache') \in SUBSET Sections
  BY DEF Cached
<1>3. currentTab' = PickTab(r, Cached(cache')) /\ strip'.secs = Cached(cache')
  BY DEF FinishRun, Rerender
<1>4. IF currentTab' = NoTab
      THEN Cached(cache') \intersect TabsOf(pageMode') = {}
      ELSE currentTab' \in Cached(cache')
  BY <1>1, <1>2, <1>3, PickTabShowsSomething
<1>5. QED
  BY <1>3, <1>4 DEF TabInv, TabShowsSomething, StripIsFresh

LEMMA TabStep == TypeOK /\ TabInv /\ [Next]_vars => TabInv'
<1> SUFFICES ASSUME TypeOK, TabInv, [Next]_vars PROVE TabInv'
  OBVIOUS
<1> USE DEF uiVars, tabVars, runVars
<1>1. CASE WasmReady
  BY <1>1, StartRunTab DEF WasmReady
<1>2. CASE WasmFails \/ Edit \/ HashTab \/ SwitchMode
  BY <1>2, FrameTab DEF WasmFails, Edit, HashTab, SwitchMode
<1>3. CASE Click \/ TimerFires
  BY <1>3, RunActionTab DEF Click, TimerFires
<1>4. CASE ToggleAuto
  <2>1. UNCHANGED <<strip, currentTab, hashTab, pageMode>>
    BY <1>4 DEF ToggleAuto
  <2>2. CASE RunAction(timer) /\ UNCHANGED unread
    BY <2>1, <2>2, RunActionTab
  <2>3. CASE UNCHANGED runVars
    BY <2>1, <2>3, FrameTab
  <2>4. QED BY <1>4, <2>2, <2>3 DEF ToggleAuto
<1>5. CASE ReplaceAndRun
  <2>1. RunAction(autoOn) /\ UNCHANGED <<strip, pageMode>>
    BY <1>5 DEF ReplaceAndRun, scheduleAutoVerify
  <2>2. hashTab' \/ UNCHANGED <<currentTab, hashTab>>
    BY <1>5 DEF ReplaceAndRun
  <2>3. QED BY <2>1, <2>2, RunActionTab
<1>6. CASE ClickTab
  BY <1>6, ClickKeepsTab DEF ClickTab
<1>7. CASE ClickSubtab
  <2>1. ~Live /\ runId > 0 => currentTab' \in Cached(cache)
    BY <1>7 DEF ClickSubtab, TabInv, StripIsFresh
  <2>2. QED
    BY <1>7, <2>1, ClickKeepsTab DEF ClickSubtab
<1>8. CASE Reload
  <2>1. runId' = 0
    BY <1>8 DEF Reload
  <2>2. QED
    BY <2>1 DEF TabInv, TabShowsSomething, StripIsFresh
<1>9. ASSUME NEW r \in yielded, Resume(r) PROVE TabInv'
  <2>1. CASE ResumeStale(r)
    <3>1. UNCHANGED <<runId, cache, strip, currentTab, hashTab, pageMode>>
      BY <2>1 DEF ResumeStale
    <3>2. Live' <=> Live
      BY <2>1 DEF ResumeStale, Live, IsCurrent
    <3>3. QED
      BY <3>1, <3>2 DEF TabInv, TabShowsSomething, StripIsFresh
  <2>2. CASE ResumeHangs(r)
    <3>1. Live'
      BY <2>2 DEF ResumeHangs, Live, IsCurrent
    <3>2. QED
      BY <3>1 DEF TabInv, TabShowsSomething, StripIsFresh
  <2>3. CASE ResumeReturns(r)
    BY <2>3, FinishTab DEF ResumeReturns
  <2>4. CASE ResumeTraps(r)
    BY <2>4, FinishTab DEF ResumeTraps
  <2>5. QED
    BY <1>9, <2>1, <2>2, <2>3, <2>4 DEF Resume
<1>10. CASE UNCHANGED vars
  BY <1>10, FrameTab DEF vars
<1>11. QED
  BY <1>1, <1>2, <1>3, <1>4, <1>5, <1>6, <1>7, <1>8, <1>9, <1>10 DEF Next

\* After every run the tab is on a section that run produced, if the page has
\* one, however tabs, subtabs and hash loads fell before it.
THEOREM TabsShowSomething == Spec => []TabShowsSomething
<1>1. Init => TabInv
  BY DEF Init, TabInv, TabShowsSomething, StripIsFresh
<1>2. TabInv => TabShowsSomething
  BY DEF TabInv
<1>3. QED
  BY <1>1, <1>2, TabStep, TypeCorrect, PTL DEF Spec

----------------------------------------------------------------------------
(* Refinement                                                              *)

\* How a step of the controller can treat the newest run and the document:
\* the three ways it can count runs.
LEMMA RunChanges ==
  ASSUME IInv, [Next]_vars, screen' = screen
  PROVE  /\ doc' \in Docs
         /\ \/ runId' = runId + 1 /\ Live'
            \/ runId' = runId /\ (Live' <=> Live)
            \/ runId' = 0 /\ ~Live' /\ screen' = NothingShown
<1> USE DEF uiVars, wasmVars, tabVars, runVars
<1>0. doc' \in Docs /\ TypeOK
  BY TypeStep DEF TypeOK, IInv
<1>1. ASSUME StartRun PROVE runId' = runId + 1 /\ Live'
  <2>1. [id |-> runId + 1, mode |-> mode] \in yielded' /\ runId' = runId + 1
    BY <1>1 DEF StartRun
  <2>2. QED BY <2>1 DEF Live, IsCurrent
<1>2. ASSUME UNCHANGED <<runId, yielded>> PROVE runId' = runId /\ (Live' <=> Live)
  BY <1>2 DEF Live, IsCurrent
<1>3. ASSUME NEW t, RunAction(t)
      PROVE  \/ runId' = runId + 1 /\ Live'
             \/ runId' = runId /\ (Live' <=> Live)
  BY <1>1, <1>2, <1>3 DEF RunAction
<1>4. CASE WasmReady
  BY <1>0, <1>1, <1>4 DEF WasmReady
<1>5. CASE WasmFails \/ Edit \/ HashTab \/ ClickTab \/ ClickSubtab \/ SwitchMode
  BY <1>0, <1>2, <1>5 DEF WasmFails, Edit, HashTab, ClickTab, ClickSubtab, SwitchMode
<1>6. CASE Click \/ ReplaceAndRun \/ TimerFires
  BY <1>0, <1>3, <1>6 DEF Click, ReplaceAndRun, TimerFires
<1>7. CASE ToggleAuto
  BY <1>0, <1>2, <1>3, <1>7 DEF ToggleAuto
<1>8. CASE Reload
  BY <1>0, <1>8 DEF Reload, Live
<1>9. ASSUME NEW r \in yielded, Resume(r)
      PROVE  runId' = runId /\ (Live' <=> Live)
  <2>1. CASE ResumeStale(r)
    BY <2>1 DEF ResumeStale, Live, IsCurrent
  <2>2. CASE ResumeHangs(r)
    BY <1>2, <2>2 DEF ResumeHangs
  <2>3. ASSUME NEW es, NEW trapped, FinishRun(r, es, trapped), IsCurrent(r)
        PROVE  FALSE
    <3>1. Live /\ screen'.run = runId
      BY <2>3 DEF FinishRun, Live, IsCurrent
    <3>2. screen'.run < runId /\ runId \in Nat
      BY <3>1 DEF IInv, Safe, ScreenNotAhead, TypeOK
    <3>3. QED BY <3>1, <3>2
  <2>5. QED
    BY <1>9, <2>1, <2>2, <2>3 DEF Resume, ResumeReturns, ResumeTraps
<1>10. CASE UNCHANGED vars
  BY <1>0, <1>2, <1>10 DEF vars
<1>11. QED
  BY <1>0, <1>4, <1>5, <1>6, <1>7, <1>8, <1>9, <1>10 DEF Next

\* A restart of the page also clears what is on display.
LEMMA RestartChanges ==
  ASSUME IInv, [Next]_vars, runId' = 0, screen' # screen
  PROVE  /\ doc' \in Docs /\ ~Live' /\ screen' = NothingShown
<1> USE DEF uiVars, wasmVars, tabVars, runVars
<1>1. ASSUME NEW r \in yielded, Resume(r) PROVE runId' = runId
  BY <1>1 DEF Resume, ResumeStale, ResumeReturns, ResumeTraps, ResumeHangs, FinishRun
<1>2. ASSUME NEW r \in yielded, IsCurrent(r) PROVE runId # 0
  <2>1. screen.run < runId /\ screen.run \in Nat /\ runId \in Nat
    BY <1>2 DEF Live, IInv, Safe, ScreenNotAhead, TypeOK
  <2>2. QED BY <2>1
<1>3. ASSUME NEW r \in yielded, Resume(r) PROVE FALSE
  BY <1>1, <1>2, <1>3 DEF Resume, ResumeStale, ResumeReturns, ResumeTraps, ResumeHangs
<1>4. CASE Reload
  BY <1>4 DEF Reload, Live
<1>5. CASE WasmReady \/ WasmFails \/ TimerFires
  BY <1>5 DEF WasmReady, WasmFails, TimerFires
<1>6. CASE Edit \/ Click \/ ToggleAuto \/ ReplaceAndRun \/ SwitchMode
  BY <1>6 DEF Edit, Click, ToggleAuto, ReplaceAndRun, SwitchMode
<1>7. CASE HashTab \/ ClickTab \/ ClickSubtab
  BY <1>7 DEF HashTab, ClickTab, ClickSubtab
<1>8. CASE UNCHANGED vars
  BY <1>8 DEF vars
<1>9. QED
  BY <1>3, <1>4, <1>5, <1>6, <1>7, <1>8 DEF Next

\* Every step of the controller is a step of LatestRun or leaves its state
\* alone: seen from outside, only the newest run is ever answered, and for the
\* text present at that moment.
THEOREM Refinement == Spec => AnswersLatest
<1> DEFINE shown == [run |-> screen.run, doc |-> screen.doc]
<1>1. Init => Latest!Init
  BY DEF Init, Latest!Init, Latest!NoAnswer, NothingShown, Live
<1>2. IInv /\ [Next]_vars => [Latest!Next]_Latest!vars
  <2> SUFFICES ASSUME IInv, [Next]_vars PROVE [Latest!Next]_Latest!vars
    OBVIOUS
  <2>1. CASE screen' = screen
    <3>1. shown' = shown
      BY <2>1
    <3>2. doc' \in Docs
      BY <2>1, RunChanges
    <3>3. CASE runId' = runId + 1 /\ Live'
      BY <3>1, <3>2, <3>3 DEF Latest!Next, Latest!Ask
    <3>4. CASE runId' = runId /\ (Live' <=> Live)
      BY <3>1, <3>2, <3>4 DEF Latest!Next, Latest!Change
    <3>5. CASE runId' = 0 /\ ~Live' /\ screen' = NothingShown
      BY <3>2, <3>5 DEF Latest!Next, Latest!Restart, Latest!NoAnswer, NothingShown
    <3>6. QED BY <2>1, <3>3, <3>4, <3>5, RunChanges
  <2>2. CASE runId' = 0 /\ screen' # screen
    BY <2>2, RestartChanges DEF Latest!Next, Latest!Restart, Latest!NoAnswer, NothingShown
  <2>3. CASE /\ Live /\ ~Live' /\ UNCHANGED <<runId, doc>>
             /\ screen'.run = runId /\ screen'.doc = doc
    BY <2>3 DEF Latest!Next, Latest!Answer
  <2>4. QED BY <2>1, <2>2, <2>3, ScreenChanges
<1>3. QED
  BY <1>1, <1>2, Invariance, PTL DEF Spec, AnswersLatest, Latest!Spec

=============================================================================
