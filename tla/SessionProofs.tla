--------------------------- MODULE SessionProofs ---------------------------
(* What the page remembers of the user's text stays consistent for any     *)
(* texts, any shipped examples and any number of user actions.             *)
EXTENDS Session, TLAPS

\* The generation that last wrote the hash, and those still being encoded, were
\* handed out by hashSaveGen.
GenOrder == landed <= gen /\ \A s \in saves : s.gen <= gen

IInv == TypeOK /\ PristineMatches /\ WorkKept /\ GenOrder

----------------------------------------------------------------------------

\* A page opened at a hash shows a text, and says truly which example it is of.
ConsistentPage(page, store) ==
  /\ page.doc \in Docs
  /\ page.loaded \in Examples \union {None}
  /\ page.dirty \in BOOLEAN
  /\ page.pristine = IF page.loaded = None THEN None ELSE Pristine[page.loaded]
  /\ page.loaded # None => page.doc = Restore(page.loaded, store)

LEMMA OpenedConsistent ==
  ASSUME NEW h \in Hashes, NEW store \in [Examples -> Docs \union {None}]
  PROVE  ConsistentPage(Opened(h, store), store)
<1>1. ASSUME NEW f \in Examples PROVE ConsistentPage(ExamplePage(f, store), store)
  <2> DEFINE page == ExamplePage(f, store)
  <2>1. page.doc = Restore(f, store) /\ page.loaded = f /\ page.pristine = Pristine[f]
    BY DEF ExamplePage
  <2>2. page.dirty = (store[f] \notin {None, Pristine[f]})
    BY Zenon DEF ExamplePage
  <2>3. page.dirty \in BOOLEAN
    BY Zenon, <2>2
  <2>4. Restore(f, store) \in Docs
    BY TextsAssumption DEF Restore
  <2> HIDE DEF page
  <2>5. ConsistentPage(page, store)
    BY <2>1, <2>3, <2>4, ExamplesAssumption DEF ConsistentPage
  <2> QED BY <2>5 DEF page
<1>2. ASSUME NEW d \in Docs PROVE ConsistentPage(TextPage(d), store)
  BY <1>2 DEF ConsistentPage, TextPage
<1>3. CASE h \in {NoHash, BadHash}
  BY <1>1, <1>3, ExamplesAssumption DEF Opened, NoHash, BadHash
<1>4. CASE \E d \in Docs : h = Code(d)
  BY <1>2, <1>4 DEF Opened, Code
<1>5. CASE \E f \in Examples : h = Source(f)
  BY <1>1, <1>5 DEF Opened, Source
<1> QED BY <1>3, <1>4, <1>5 DEF Hashes

\* Coming back to an example brings a text.
LEMMA RestoreIsText ==
  ASSUME NEW f \in Examples, NEW store \in [Examples -> Docs \union {None}]
  PROVE  Restore(f, store) \in Docs
BY TextsAssumption DEF Restore

\* Links are among the hashes.
LEMMA ExternalIsHash == ExternalHashes \subseteq Hashes
BY TextsAssumption DEF ExternalHashes, Hashes

\* A change of the text under the loaded example is mirrored under its key.
LEMMA ChangeDocMirrors ==
  ASSUME TypeOK, NEW d \in Docs, NEW f \in Examples \union {None}, ChangeDoc(d, f)
  PROVE  /\ doc' \in Docs /\ past' \subseteq Docs
         /\ stored' \in [Examples -> Docs \union {None}]
         /\ f # None => doc' = Restore(f, stored')
         /\ \A e \in Examples : stored'[e] # stored[e] => e = f /\ stored'[e] = doc'
BY ExamplesAssumption DEF TypeOK, ChangeDoc, Restore

\* A new save takes a generation of its own, later than every other.
LEMMA SaveHashOrders ==
  ASSUME TypeOK, GenOrder, NEW d \in Docs, NEW c \in BOOLEAN, SaveHash(d, c),
         landed' = landed
  PROVE  /\ gen' \in Nat
         /\ saves' \subseteq [gen : Nat, doc : Docs, copies : BOOLEAN]
         /\ GenOrder'
BY DEF TypeOK, GenOrder, SaveHash

\* The run flags keep their types.
LEMMA RunActionTypes ==
  ASSUME TypeOK, NEW t \in BOOLEAN, RunAction(t)
  PROVE  /\ ready' \in BOOLEAN /\ autoOn' \in BOOLEAN /\ timer' \in BOOLEAN
         /\ parked' \in BOOLEAN /\ shown' \in BOOLEAN /\ hung' \in BOOLEAN
BY DEF TypeOK, RunAction

----------------------------------------------------------------------------

LEMMA InitIInv == Init => IInv
<1> SUFFICES ASSUME Init PROVE IInv
  OBVIOUS
<1>1. hash \in Hashes /\ stored \in [Examples -> Docs \union {None}]
  BY ExternalIsHash, TextsAssumption DEF Init
<1> DEFINE page == Opened(hash, stored)
<1>2. doc = page.doc /\ loaded = page.loaded /\ pristine = page.pristine /\ dirty = page.dirty
  BY DEF Init
<1>3. ConsistentPage(page, stored)
  BY <1>1, OpenedConsistent
<1> HIDE DEF page
<1>4. PristineMatches /\ WorkKept
  BY <1>2, <1>3 DEF PristineMatches, WorkKept, ConsistentPage
<1>5. doc \in Docs /\ loaded \in Examples \union {None} /\ dirty \in BOOLEAN
  BY <1>2, <1>3 DEF ConsistentPage
<1>6. pristine \in Docs \union {None}
  BY <1>4, <1>5, TextsAssumption DEF PristineMatches
<1>7. TypeOK
  BY <1>1, <1>5, <1>6 DEF Init, TypeOK
<1>8. GenOrder
  BY DEF Init, GenOrder
<1> QED BY <1>4, <1>7, <1>8 DEF IInv

----------------------------------------------------------------------------
(* One lemma per kind of step: what it does to the text and its example,   *)
(* and what it does to the saves.                                          *)

\* A step that leaves the text, its example and the overrides alone.
LEMMA SourceFrame ==
  ASSUME IInv, UNCHANGED sourceVars
  PROVE  PristineMatches' /\ WorkKept'
BY DEF IInv, PristineMatches, WorkKept, sourceVars, Restore

\* A step that changes the text under the example that stays loaded.
LEMMA TextStep ==
  ASSUME IInv, NEW d \in Docs, ChangeDoc(d, loaded), UNCHANGED <<loaded, pristine>>
  PROVE  PristineMatches' /\ WorkKept'
<1>1. loaded \in Examples \union {None}
  BY DEF IInv, TypeOK
<1>2. loaded # None => doc' = Restore(loaded, stored')
  BY <1>1, ChangeDocMirrors DEF IInv
<1> QED BY <1>2 DEF IInv, PristineMatches, WorkKept

\* A step that only drops saves, or lets the newest one land.
LEMMA SavesStep ==
  ASSUME IInv, gen' = gen, saves' \subseteq saves,
         landed' = landed \/ landed' = gen
  PROVE  GenOrder'
BY DEF IInv, TypeOK, GenOrder

LEMMA TypeStep == ASSUME IInv, Type PROVE IInv'
<1>1. PICK d \in Docs : ChangeDoc(d, loaded)
  BY DEF Type
<1>2. PristineMatches' /\ WorkKept'
  BY <1>1, TextStep DEF Type
<1>3. TypeOK'
  BY <1>1, ChangeDocMirrors DEF IInv, TypeOK, Type, UserEvent, hashVars, asyncVars
<1>4. GenOrder'
  BY SavesStep DEF Type, hashVars, asyncVars
<1> QED BY <1>2, <1>3, <1>4 DEF IInv

LEMMA UndoStep == ASSUME IInv, Undo PROVE IInv'
<1>1. PICK d \in past \ {doc} : ChangeDoc(d, loaded)
  BY DEF Undo
<1>2. d \in Docs
  BY <1>1 DEF IInv, TypeOK
<1>3. PristineMatches' /\ WorkKept'
  BY <1>1, <1>2, TextStep DEF Undo
<1>4. TypeOK'
  BY <1>1, <1>2, ChangeDocMirrors DEF IInv, TypeOK, Undo, UserEvent, hashVars, asyncVars
<1>5. GenOrder'
  BY SavesStep DEF Undo, hashVars, asyncVars
<1> QED BY <1>3, <1>4, <1>5 DEF IInv

LEMMA ChooseStep == ASSUME IInv, Choose PROVE IInv'
<1>1. PristineMatches' /\ WorkKept'
  BY SourceFrame DEF Choose
<1>2. TypeOK'
  BY DEF IInv, TypeOK, Choose, UserEvent, sourceVars, hashVars, runVars
<1>3. GenOrder'
  BY SavesStep DEF Choose, hashVars
<1> QED BY <1>1, <1>2, <1>3 DEF IInv

LEMMA ResetStep == ASSUME IInv, Reset PROVE IInv'
<1>1. pristine \in Docs
  BY TextsAssumption DEF IInv, TypeOK, PristineMatches, Reset
<1>2. ChangeDoc(pristine, loaded) /\ SaveHash(pristine, FALSE) /\ RunAction(autoOn)
  BY DEF Reset
<1>3. PristineMatches' /\ WorkKept'
  BY <1>1, <1>2, TextStep DEF Reset
<1>4. gen' \in Nat /\ saves' \subseteq [gen : Nat, doc : Docs, copies : BOOLEAN] /\ GenOrder'
  BY <1>1, <1>2, SaveHashOrders DEF IInv, Reset, hashVars
<1>5. /\ doc' \in Docs /\ past' \subseteq Docs
      /\ stored' \in [Examples -> Docs \union {None}]
  BY <1>1, <1>2, ChangeDocMirrors DEF IInv, TypeOK
<1>6. /\ ready' \in BOOLEAN /\ autoOn' \in BOOLEAN /\ timer' \in BOOLEAN
      /\ parked' \in BOOLEAN /\ shown' \in BOOLEAN /\ hung' \in BOOLEAN
  BY <1>2, RunActionTypes DEF IInv, TypeOK
<1>7. /\ dirty' \in BOOLEAN /\ events' = events + 1
      /\ UNCHANGED <<loaded, pristine, hash, lastWritten, hashEvent, landed, loads, decodes,
                     missed>>
  BY DEF Reset, UserEvent, hashVars
<1>8. TypeOK'
  BY <1>4, <1>5, <1>6, <1>7 DEF IInv, TypeOK
<1> QED BY <1>3, <1>4, <1>8 DEF IInv

LEMMA ShareStep == ASSUME IInv, Share PROVE IInv'
<1>1. PristineMatches' /\ WorkKept'
  BY SourceFrame DEF Share
<1>2. gen' \in Nat /\ saves' \subseteq [gen : Nat, doc : Docs, copies : BOOLEAN] /\ GenOrder'
  BY SaveHashOrders DEF IInv, TypeOK, Share, hashVars
<1>3. TypeOK'
  BY <1>2 DEF IInv, TypeOK, Share, UserEvent, sourceVars, hashVars, runVars
<1> QED BY <1>1, <1>2, <1>3 DEF IInv

LEMMA PasteLinkStep == ASSUME IInv, PasteLink PROVE IInv'
<1>1. PristineMatches' /\ WorkKept'
  BY SourceFrame DEF PasteLink
<1>2. TypeOK'
  BY ExternalIsHash
     DEF IInv, TypeOK, PasteLink, UserEvent, sourceVars, asyncVars, runVars
<1>3. GenOrder'
  BY SavesStep DEF PasteLink, asyncVars
<1> QED BY <1>1, <1>2, <1>3 DEF IInv

LEMMA ClickTabStep == ASSUME IInv, ClickTab PROVE IInv'
<1>1. PristineMatches' /\ WorkKept'
  BY SourceFrame DEF ClickTab
<1>2. TypeOK'
  BY DEF IInv, TypeOK, ClickTab, UserEvent, sourceVars, runVars
<1>3. GenOrder'
  BY SavesStep DEF ClickTab
<1> QED BY <1>1, <1>2, <1>3 DEF IInv

LEMMA ClickRunStep == ASSUME IInv, ClickRun PROVE IInv'
<1>1. PristineMatches' /\ WorkKept'
  BY SourceFrame DEF ClickRun
<1>2. TypeOK'
  BY DEF IInv, TypeOK, ClickRun, RunAction, UserEvent, sourceVars, hashVars, asyncVars
<1>3. GenOrder'
  BY SavesStep DEF ClickRun, hashVars, asyncVars
<1> QED BY <1>1, <1>2, <1>3 DEF IInv

LEMMA ToggleAutoStep == ASSUME IInv, ToggleAuto PROVE IInv'
<1>1. PristineMatches' /\ WorkKept'
  BY SourceFrame DEF ToggleAuto
<1>2. TypeOK'
  BY DEF IInv, TypeOK, ToggleAuto, UserEvent, sourceVars, hashVars, asyncVars
<1>3. GenOrder'
  BY SavesStep DEF ToggleAuto, hashVars, asyncVars
<1> QED BY <1>1, <1>2, <1>3 DEF IInv

LEMMA ReloadStep == ASSUME IInv, Reload PROVE IInv'
<1> DEFINE page == Opened(hash, stored)
<1>1. ConsistentPage(page, stored)
  BY OpenedConsistent DEF IInv, TypeOK
<1>2. /\ doc' = page.doc /\ loaded' = page.loaded
      /\ pristine' = page.pristine /\ dirty' = page.dirty
  BY DEF Reload
<1> HIDE DEF page
<1>3. PristineMatches' /\ WorkKept'
  BY <1>1, <1>2 DEF Reload, PristineMatches, WorkKept, ConsistentPage
<1>4. doc' \in Docs /\ loaded' \in Examples \union {None} /\ dirty' \in BOOLEAN
  BY <1>1, <1>2 DEF ConsistentPage
<1>5. pristine' \in Docs \union {None}
  BY <1>3, <1>4, TextsAssumption DEF PristineMatches
<1>6. /\ past' = {} /\ saves' = {} /\ loads' = {} /\ decodes' = {}
      /\ lastWritten' = hash /\ gen' = 0 /\ landed' = 0 /\ events' = events + 1
      /\ ~hashEvent' /\ ~missed' /\ ~ready' /\ ~timer' /\ ~parked' /\ ~shown' /\ ~hung'
      /\ hashEvent' \in BOOLEAN /\ missed' \in BOOLEAN /\ ready' \in BOOLEAN
      /\ timer' \in BOOLEAN /\ parked' \in BOOLEAN /\ shown' \in BOOLEAN
      /\ hung' \in BOOLEAN
      /\ UNCHANGED <<stored, hash, autoOn>>
  BY DEF Reload
<1>7. TypeOK'
  BY <1>4, <1>5, <1>6 DEF IInv, TypeOK
<1>8. GenOrder'
  BY DEF Reload, GenOrder
<1> QED BY <1>3, <1>7, <1>8 DEF IInv

LEMMA RunStepStep == ASSUME IInv, RunStep PROVE IInv'
<1>1. PristineMatches' /\ WorkKept'
  BY SourceFrame DEF RunStep, WasmReady, TimerFires, RunEnds, RunHangs
<1>2. CASE WasmReady \/ RunHangs
  <2>1. TypeOK'
    BY <1>2 DEF IInv, TypeOK, WasmReady, RunHangs, sourceVars, hashVars, asyncVars
  <2>2. GenOrder'
    BY <1>2, SavesStep DEF WasmReady, RunHangs, hashVars, asyncVars
  <2> QED BY <1>1, <2>1, <2>2 DEF IInv
<1>3. CASE TimerFires
  <2>1. TypeOK'
    BY <1>3 DEF IInv, TypeOK, TimerFires, RunAction, sourceVars, hashVars, asyncVars
  <2>2. GenOrder'
    BY <1>3, SavesStep DEF TimerFires, hashVars, asyncVars
  <2> QED BY <1>1, <2>1, <2>2 DEF IInv
<1>4. CASE RunEnds
  <2>1. /\ gen' \in Nat /\ saves' \subseteq [gen : Nat, doc : Docs, copies : BOOLEAN]
        /\ GenOrder'
    BY <1>4, SaveHashOrders DEF IInv, TypeOK, RunEnds
  <2>2. TypeOK'
    BY <1>4, <2>1 DEF IInv, TypeOK, RunEnds, sourceVars
  <2> QED BY <1>1, <2>1, <2>2 DEF IInv
<1> QED BY <1>2, <1>3, <1>4 DEF RunStep

LEMMA HashChangeStep == ASSUME IInv, HashChange PROVE IInv'
<1>1. PristineMatches' /\ WorkKept'
  BY SourceFrame DEF HashChange
<1>2. TypeOK'
  BY DEF IInv, TypeOK, HashChange, sourceVars, runVars
<1>3. GenOrder'
  BY SavesStep DEF HashChange
<1> QED BY <1>1, <1>2, <1>3 DEF IInv

LEMMA EncodeEndsStep == ASSUME IInv, NEW s \in saves, EncodeEnds(s) PROVE IInv'
<1>1. PristineMatches' /\ WorkKept'
  BY SourceFrame DEF EncodeEnds
<1>2. s \in [gen : Nat, doc : Docs, copies : BOOLEAN]
  BY DEF IInv, TypeOK
<1>3. hash' \in Hashes /\ lastWritten' \in Hashes /\ landed' \in Nat
  BY <1>2 DEF IInv, TypeOK, EncodeEnds, Hashes
<1>4. TypeOK'
  BY <1>3 DEF IInv, TypeOK, EncodeEnds, sourceVars, runVars
<1>5. GenOrder'
  BY SavesStep DEF EncodeEnds, NewestSave
<1> QED BY <1>1, <1>4, <1>5 DEF IInv

LEMMA FetchEndsStep == ASSUME IInv, NEW f \in loads, FetchEnds(f) PROVE IInv'
<1>1. f \in Examples /\ stored \in [Examples -> Docs \union {None}]
  BY DEF IInv, TypeOK
<1>2. Restore(f, stored) \in Docs
  BY <1>1, RestoreIsText
<1>3. /\ doc' \in Docs /\ past' \subseteq Docs
      /\ stored' \in [Examples -> Docs \union {None}]
      /\ f # None => doc' = Restore(f, stored')
  BY <1>1, <1>2, ChangeDocMirrors DEF IInv, FetchEnds
<1>4. PristineMatches' /\ WorkKept'
  BY <1>1, <1>3, ExamplesAssumption DEF FetchEnds, PristineMatches, WorkKept
<1>5. gen' \in Nat /\ saves' \subseteq [gen : Nat, doc : Docs, copies : BOOLEAN] /\ GenOrder'
  BY <1>3, SaveHashOrders DEF IInv, FetchEnds, hashVars
<1>6. dirty' \in BOOLEAN
  BY Zenon DEF FetchEnds
<1>7. /\ ready' \in BOOLEAN /\ autoOn' \in BOOLEAN /\ timer' \in BOOLEAN
      /\ parked' \in BOOLEAN /\ shown' \in BOOLEAN /\ hung' \in BOOLEAN
  BY RunActionTypes DEF IInv, TypeOK, FetchEnds
<1>8. TypeOK'
  BY <1>1, <1>3, <1>5, <1>6, <1>7, TextsAssumption DEF IInv, TypeOK, FetchEnds, hashVars
<1> QED BY <1>4, <1>5, <1>8 DEF IInv

LEMMA FetchFailsStep == ASSUME IInv, NEW f \in loads, FetchFails(f) PROVE IInv'
<1>1. PristineMatches' /\ WorkKept'
  BY SourceFrame DEF FetchFails
<1>2. TypeOK'
  BY DEF IInv, TypeOK, FetchFails, sourceVars, hashVars, runVars
<1>3. GenOrder'
  BY SavesStep DEF FetchFails, hashVars
<1> QED BY <1>1, <1>2, <1>3 DEF IInv

LEMMA DecodeEndsStep == ASSUME IInv, NEW h \in decodes, DecodeEnds(h) PROVE IInv'
<1>1. h \in Hashes
  BY DEF IInv, TypeOK
<1>2. CASE DecodeText(h)
  <2>1. h.of \in Docs
    BY <1>1, <1>2 DEF DecodeText, Hashes, NoHash, BadHash, Code, Source
  <2>2. /\ doc' \in Docs /\ past' \subseteq Docs
        /\ stored' \in [Examples -> Docs \union {None}]
    BY <1>2, <2>1, ChangeDocMirrors DEF IInv, DecodeText
  <2>3. PristineMatches' /\ WorkKept'
    BY <1>2 DEF DecodeText, PristineMatches, WorkKept
  <2>4. /\ gen' \in Nat /\ saves' \subseteq [gen : Nat, doc : Docs, copies : BOOLEAN]
        /\ GenOrder'
    BY <1>2, <2>1, SaveHashOrders DEF IInv, DecodeText, DecodeEnds, hashVars
  <2>5. /\ ready' \in BOOLEAN /\ autoOn' \in BOOLEAN /\ timer' \in BOOLEAN
        /\ parked' \in BOOLEAN /\ shown' \in BOOLEAN /\ hung' \in BOOLEAN
    BY <1>2, RunActionTypes DEF IInv, TypeOK, DecodeText
  <2>6. TypeOK'
    BY <1>2, <2>2, <2>4, <2>5 DEF IInv, TypeOK, DecodeText, DecodeEnds, hashVars
  <2> QED BY <2>3, <2>4, <2>6 DEF IInv
<1>3. CASE DecodeExample(h)
  <2>1. PristineMatches' /\ WorkKept'
    BY <1>3, SourceFrame DEF DecodeExample
  <2>2. loads' \subseteq Examples
    BY <1>1, <1>3, ExamplesAssumption
       DEF IInv, TypeOK, DecodeExample, Hashes, NoHash, BadHash, Code, Source
  <2>3. TypeOK'
    BY <1>3, <2>2 DEF IInv, TypeOK, DecodeExample, DecodeEnds, sourceVars, hashVars, runVars
  <2>4. GenOrder'
    BY <1>3, SavesStep DEF DecodeExample, DecodeEnds, hashVars
  <2> QED BY <2>1, <2>3, <2>4 DEF IInv
<1> QED BY <1>2, <1>3 DEF DecodeEnds

LEMMA StepIInv == IInv /\ [Next]_vars => IInv'
<1> SUFFICES ASSUME IInv, [Next]_vars PROVE IInv'
  OBVIOUS
<1>1. CASE Type \/ Undo \/ Choose \/ Reset \/ Share \/ PasteLink
  BY <1>1, TypeStep, UndoStep, ChooseStep, ResetStep, ShareStep, PasteLinkStep
<1>2. CASE ClickTab \/ ClickRun \/ ToggleAuto \/ Reload \/ RunStep
  BY <1>2, ClickTabStep, ClickRunStep, ToggleAutoStep, ReloadStep, RunStepStep
<1>3. CASE Async
  BY <1>3, HashChangeStep, EncodeEndsStep, FetchEndsStep, FetchFailsStep, DecodeEndsStep
     DEF Async
<1>4. CASE UNCHANGED vars
  BY <1>4 DEF vars, sourceVars, hashVars, asyncVars, runVars, IInv, TypeOK,
              PristineMatches, WorkKept, GenOrder, Restore
<1> QED BY <1>1, <1>2, <1>3, <1>4 DEF Next

----------------------------------------------------------------------------

\* The inductive invariant holds in every state of the page.
THEOREM Invariance == Spec => []IInv
<1>1. Init => IInv
  BY InitIInv
<1>2. IInv /\ [Next]_vars => IInv'
  BY StepIInv
<1> QED BY <1>1, <1>2, PTL DEF Spec

\* Every variable keeps its kind of value.
THEOREM TypeCorrect == Spec => []TypeOK
<1>1. IInv => TypeOK
  BY DEF IInv
<1> QED BY <1>1, Invariance, PTL

\* The loaded example and the text Reset would bring back belong together,
\* however fetches and decoders overlap.
THEOREM ResetBringsTheRightText == Spec => []PristineMatches
<1>1. IInv => PristineMatches
  BY DEF IInv
<1> QED BY <1>1, Invariance, PTL

\* Leaving the loaded example and coming back never loses work.
THEOREM ComingBackLosesNothing == Spec => []WorkKept
<1>1. IInv => WorkKept
  BY DEF IInv
<1> QED BY <1>1, Invariance, PTL

\* An override is replaced only by the text shown for its own example.
THEOREM NoOverrideIsMixedUp == Spec => OverridesStayPut
<1> DEFINE Own == \A f \in Examples : stored'[f] # stored[f] => f = loaded' /\ stored'[f] = doc'
<1>1. ASSUME IInv, [Next]_vars PROVE [Own]_vars
  <2>1. CASE UNCHANGED stored
    BY <2>1
  <2>2. CASE Type \/ Undo
    <3>1. PICK d \in Docs : ChangeDoc(d, loaded)
      BY <1>1, <2>2 DEF IInv, TypeOK, Type, Undo
    <3>2. loaded' = loaded /\ loaded \in Examples \union {None}
      BY <1>1, <2>2 DEF IInv, TypeOK, Type, Undo
    <3> QED BY <1>1, <3>1, <3>2, ChangeDocMirrors DEF IInv
  <2>3. CASE Reset
    <3>1. pristine \in Docs /\ loaded' = loaded /\ loaded \in Examples
      BY <1>1, <2>3, TextsAssumption DEF IInv, TypeOK, PristineMatches, Reset
    <3> QED BY <1>1, <2>3, <3>1, ChangeDocMirrors DEF IInv, Reset
  <2>4. CASE \E f \in loads : FetchEnds(f)
    <3>1. PICK f \in loads : FetchEnds(f)
      BY <2>4
    <3>2. f \in Examples /\ Restore(f, stored) \in Docs
      BY <1>1, RestoreIsText DEF IInv, TypeOK
    <3> QED BY <1>1, <3>1, <3>2, ChangeDocMirrors DEF IInv, FetchEnds
  <2> QED
    BY <1>1, <2>1, <2>2, <2>3, <2>4
       DEF Next, Async, RunStep, Choose, Share, PasteLink, ClickTab, ClickRun, ToggleAuto,
           Reload, WasmReady, TimerFires, RunEnds, RunHangs, HashChange, EncodeEnds,
           FetchFails, DecodeEnds, DecodeText, DecodeExample, ChangeDoc, sourceVars, vars
<1>2. Spec => [][Own]_vars
  BY <1>1, Invariance, PTL DEF Spec
<1> QED BY <1>2 DEF OverridesStayPut

\* The URL never goes back to an older save.
THEOREM UrlNeverGoesBack == Spec => UrlGoesForward
<1> DEFINE Forward == landed' >= landed \/ gen' = 0
<1>1. ASSUME IInv, [Next]_vars PROVE [Forward]_vars
  <2>1. CASE UNCHANGED landed
    BY <1>1, <2>1 DEF IInv, TypeOK
  <2>2. CASE \E s \in saves : EncodeEnds(s)
    BY <1>1, <2>2 DEF IInv, TypeOK, GenOrder, EncodeEnds, NewestSave
  <2>3. CASE Reload
    BY <2>3 DEF Reload
  <2> QED
    BY <1>1, <2>1, <2>2, <2>3
       DEF Next, Async, RunStep, Type, Undo, Choose, Reset, Share, PasteLink, ClickTab,
           ClickRun, ToggleAuto, WasmReady, TimerFires, RunEnds, RunHangs, HashChange,
           FetchEnds, FetchFails, DecodeEnds, hashVars, vars
<1>2. Spec => [][Forward]_vars
  BY <1>1, Invariance, PTL DEF Spec
<1> QED BY <1>2 DEF UrlGoesForward

=============================================================================
