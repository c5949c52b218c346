------------------------------ MODULE Session ------------------------------
(***************************************************************************)
(* What the page (public/app.js) remembers of the user's text, and where:  *)
(* the editor, the example it was loaded from, the per-example override in *)
(* localStorage, the #code hash of the URL and the clipboard.              *)
(*                                                                         *)
(* Loading an example waits for a fetch, writing the hash for a gzip       *)
(* encoder, reading a pasted hash for a decoder; each keeps going while    *)
(* the user does something else, and they end in any order.  Everything    *)
(* between two awaits is one action.  Of the run controller (RunLoop) only *)
(* the newest run is kept -- a timer, then a parked run, then its tail --  *)
(* which is all that LatestRun lets the rest of the page see.  Tabs and    *)
(* the &t= suffix are left out.                                            *)
(***************************************************************************)
EXTENDS Naturals

CONSTANTS Docs,        \* editor texts
          Examples,    \* the shipped files
          First,       \* EXAMPLES[0].file
          Pristine,    \* their shipped texts
          None,        \* null, for an example or a text
          Links,       \* texts found in links and in earlier sessions
          Hanging,     \* texts on which the verifier does not return
          MaxEvents    \* bound on the user's actions

ASSUME ExamplesAssumption == First \in Examples /\ None \notin Docs \union Examples
ASSUME TextsAssumption ==
  Pristine \in [Examples -> Docs] /\ Links \subseteq Docs /\ Hanging \subseteq Docs
ASSUME MaxEventsAssumption == MaxEvents \in Nat

VARIABLES
  doc,         \* view.state.doc
  past,        \* texts the editor's undo history can bring back
  loaded,      \* loadedSource
  pristine,    \* pristineSource
  dirty,       \* dirty
  stored,      \* localStorage, by example: an override or None
  hash,        \* location.hash
  lastWritten, \* lastWrittenHash
  hashEvent,   \* a hashchange event is queued
  gen,         \* hashSaveGen
  saves,       \* saveHashNow calls whose encoder runs
  loads,       \* loadSource calls whose fetch is under way
  decodes,     \* hashchange handlers whose decoder runs: the hash they read
  ready,       \* verus # null
  autoOn,      \* the auto-verify checkbox
  timer,       \* an auto-verify is pending
  parked,      \* the newest run is parked at the await of runWith
  shown,       \* a run has ended: there are tabs to click
  hung,        \* the wasm call does not return
  landed,      \* history: the generation of the last save that wrote the hash
  missed,      \* history: a load the URL asked for never came
  events       \* how many of the MaxEvents user actions happened

sourceVars == <<doc, past, loaded, pristine, dirty, stored>>
hashVars   == <<hash, lastWritten, hashEvent, landed>>
asyncVars  == <<gen, saves, loads, decodes, missed>>
runVars    == <<ready, autoOn, timer, parked, shown, hung>>
vars == <<sourceVars, hashVars, asyncVars, runVars, events>>

NoHash == [kind |-> "none", of |-> None]
BadHash == [kind |-> "bad", of |-> None]
Code(d) == [kind |-> "code", of |-> d]
Source(f) == [kind |-> "source", of |-> f]

\* What a URL bar may hold: nothing, a shared text, the older example form, or
\* something that does not decode.
ExternalHashes ==
  {NoHash, BadHash} \union {Code(d) : d \in Links} \union {Source(f) : f \in Examples}

\* Mutant: `?? pristineSource` is forgotten.
RestoreStored(f, store) == store[f]

\* stored ?? pristineSource
Restore(f, store) == IF store[f] # None THEN store[f] ELSE Pristine[f]

\* initialDoc: what a page opened at hash h shows.
TextPage(d) == [doc |-> d, loaded |-> None, pristine |-> None, dirty |-> FALSE]
ExamplePage(f, store) ==
  [doc |-> Restore(f, store), loaded |-> f, pristine |-> Pristine[f],
   dirty |-> store[f] \notin {None, Pristine[f]}]
Opened(h, store) ==
  IF h.kind = "code" THEN TextPage(h.of)
  ELSE ExamplePage(IF h.kind = "source" THEN h.of ELSE First, store)

Init ==
  /\ stored \in [Examples -> Links \union {None}]
  /\ hash \in ExternalHashes
  /\ LET page == Opened(hash, stored) IN
       /\ doc = page.doc /\ loaded = page.loaded
       /\ pristine = page.pristine /\ dirty = page.dirty
  /\ past = {}
  /\ lastWritten = hash /\ hashEvent = FALSE /\ landed = 0
  /\ gen = 0 /\ saves = {} /\ loads = {} /\ decodes = {} /\ missed = FALSE
  /\ ready = FALSE /\ autoOn \in BOOLEAN /\ timer = FALSE /\ parked = FALSE
  /\ shown = FALSE /\ hung = FALSE
  /\ events = 0

----------------------------------------------------------------------------
(* Pieces the handlers share.                                              *)

UserEvent == ~hung /\ events < MaxEvents /\ events' = events + 1

\* The editor's text becomes d while loadedSource is f: the transaction enters
\* the undo history and the updateListener mirrors the text into localStorage.
ChangeDoc(d, f) ==
  /\ doc' = d
  /\ past' = past \union {doc}
  /\ stored' = IF f = None THEN stored ELSE [stored EXCEPT ![f] = d]

\* saveHashNow up to its await; `copies` when copyLink waits for it.
SaveHash(d, copies) ==
  /\ gen' = gen + 1
  /\ saves' = saves \union {[gen |-> gen + 1, doc |-> d, copies |-> copies]}

\* runAction; where there is no wasm yet the timer stays as the caller left it.
RunAction(timerNow) ==
  /\ parked' = (parked \/ ready)
  /\ timer' = (timerNow /\ ~ready)
  /\ UNCHANGED <<ready, autoOn, shown, hung>>

----------------------------------------------------------------------------
(* The user.                                                               *)

\* Typing, pasting, deleting: a transaction tagged input or delete.
Type ==
  /\ UserEvent
  /\ \E d \in Docs \ {doc} : ChangeDoc(d, loaded)
  /\ dirty' = TRUE
  /\ timer' = autoOn
  /\ UNCHANGED <<loaded, pristine, hashVars, asyncVars, ready, autoOn, parked, shown,
                 hung>>

\* Mutant: only typed text is mirrored.
UndoUnmirrored ==
  /\ UserEvent
  /\ \E d \in past \ {doc} : ChangeDoc(d, None)
  /\ timer' = autoOn
  /\ UNCHANGED <<loaded, pristine, dirty, hashVars, asyncVars, ready, autoOn, parked, shown,
                 hung>>

\* Undo and redo change the text too, under a tag of their own.
Undo ==
  /\ UserEvent
  /\ \E d \in past \ {doc} : ChangeDoc(d, loaded)
  /\ timer' = autoOn
  /\ UNCHANGED <<loaded, pristine, dirty, hashVars, asyncVars, ready, autoOn, parked, shown,
                 hung>>

\* Mutant: the example is the loaded one from the moment it is chosen.
ChooseAtOnce ==
  /\ UserEvent
  /\ \E f \in Examples : loads' = loads \union {f} /\ loaded' = f
  /\ UNCHANGED <<doc, past, pristine, dirty, stored, hashVars, gen, saves, decodes,
                 missed, runVars>>

\* The dropdown and the previous/next buttons call loadSource.  Two fetches of
\* the same file end alike, so one of them stands for both.
Choose ==
  /\ UserEvent
  /\ \E f \in Examples : loads' = loads \union {f}
  /\ UNCHANGED <<sourceVars, hashVars, gen, saves, decodes, missed, runVars>>

\* resetSource: the override is removed, and the listener, called from within
\* setEditorText, stores the shipped text in its place.
Reset ==
  /\ UserEvent
  /\ loaded # None /\ dirty
  /\ ChangeDoc(pristine, loaded)
  /\ dirty' = FALSE
  /\ SaveHash(pristine, FALSE)
  /\ RunAction(autoOn)
  /\ UNCHANGED <<loaded, pristine, hashVars, loads, decodes, missed>>

\* copyLink.
Share ==
  /\ UserEvent
  /\ SaveHash(doc, TRUE)
  /\ UNCHANGED <<sourceVars, hashVars, loads, decodes, missed, runVars>>

\* A link pasted into the address bar, or back and forward: the URL changes
\* now, the event is queued.
PasteLink ==
  /\ UserEvent
  /\ \E h \in ExternalHashes \ {hash} : hash' = h
  /\ hashEvent' = TRUE
  /\ UNCHANGED <<sourceVars, lastWritten, landed, asyncVars, runVars>>

\* A click on a tab goes through writeTabToUrl, which rewrites the hash that is
\* there and takes it for its own, even a pasted one still to be noticed.
ClickTab ==
  /\ UserEvent
  /\ shown /\ hash # NoHash
  /\ lastWritten' = hash
  /\ missed' = (missed \/ hashEvent)
  /\ UNCHANGED <<sourceVars, hash, hashEvent, landed, gen, saves, loads, decodes, runVars>>

ClickRun ==
  /\ UserEvent
  /\ ready /\ ~parked
  /\ RunAction(timer)
  /\ UNCHANGED <<sourceVars, hashVars, asyncVars>>

ToggleAuto ==
  /\ UserEvent
  /\ autoOn' = ~autoOn
  /\ parked' = (parked \/ (autoOn' /\ ready))
  /\ timer' = (timer /\ ~(autoOn' /\ ready))
  /\ UNCHANGED <<sourceVars, hashVars, asyncVars, ready, shown, hung>>

\* The only way out of a hang.  localStorage and the URL survive it.
Reload ==
  /\ events < MaxEvents /\ events' = events + 1
  /\ LET page == Opened(hash, stored) IN
       /\ doc' = page.doc /\ loaded' = page.loaded
       /\ pristine' = page.pristine /\ dirty' = page.dirty
  /\ past' = {}
  /\ lastWritten' = hash /\ hashEvent' = FALSE /\ landed' = 0
  /\ gen' = 0 /\ saves' = {} /\ loads' = {} /\ decodes' = {} /\ missed' = FALSE
  /\ ready' = FALSE /\ timer' = FALSE /\ parked' = FALSE
  /\ shown' = FALSE /\ hung' = FALSE
  /\ UNCHANGED <<stored, hash, autoOn>>

----------------------------------------------------------------------------
(* The run, as far as the rest of the page sees it.                        *)

WasmReady ==
  /\ ~hung /\ ~ready
  /\ ready' = TRUE /\ parked' = TRUE /\ timer' = FALSE
  /\ UNCHANGED <<sourceVars, hashVars, asyncVars, autoOn, shown, hung, events>>

TimerFires ==
  /\ ~hung /\ timer
  /\ RunAction(FALSE)
  /\ UNCHANGED <<sourceVars, hashVars, asyncVars, events>>

\* Mutant: the tail of runWith forgets to save.
RunEndsUnsaved ==
  /\ ~hung /\ parked
  /\ parked' = FALSE /\ shown' = TRUE
  /\ lastWritten' = hash
  /\ UNCHANGED <<sourceVars, hash, hashEvent, landed, asyncVars, ready, autoOn,
                 timer, hung, events>>

\* The call returns or traps; the tail rewrites the tab in the hash that is
\* there and saves the text the call read, which is still in the editor.
RunEnds ==
  /\ ~hung /\ parked
  /\ doc \notin Hanging
  /\ parked' = FALSE /\ shown' = TRUE
  /\ lastWritten' = IF hash = NoHash THEN lastWritten ELSE hash
  /\ SaveHash(doc, FALSE)
  /\ UNCHANGED <<sourceVars, hash, hashEvent, landed, loads, decodes, missed,
                 ready, autoOn, timer, hung, events>>

RunHangs ==
  /\ ~hung /\ parked
  /\ doc \in Hanging
  /\ hung' = TRUE
  /\ UNCHANGED <<sourceVars, hashVars, asyncVars, ready, autoOn, timer, parked, shown,
                 events>>

----------------------------------------------------------------------------
(* The awaits end, in any order.                                           *)

\* Mutant: no generation guard.
NewestSaveAny(s) == TRUE

\* The generation guard.
NewestSave(s) == s.gen = gen

\* saveHashNow after its await; copyLink goes on in the same turn and copies
\* location.href, whichever save wrote it.
EncodeEnds(s) ==
  /\ ~hung
  /\ saves' = saves \ {s}
  /\ \/ /\ NewestSave(s)
        /\ hash' = Code(s.doc) /\ lastWritten' = Code(s.doc)
        /\ landed' = s.gen
     \/ /\ ~NewestSave(s)
        /\ UNCHANGED <<hash, lastWritten, landed>>
  /\ UNCHANGED <<sourceVars, hashEvent, gen, loads, decodes, missed, runVars, events>>

\* Mutant: loadedSource is assigned after setEditorText.
FetchEndsLate(f) ==
  /\ ~hung
  /\ loads' = loads \ {f}
  /\ pristine' = Pristine[f]
  /\ loaded' = f
  /\ ChangeDoc(Restore(f, stored), loaded)
  /\ dirty' = (stored[f] \notin {None, Pristine[f]})
  /\ SaveHash(doc', FALSE)
  /\ RunAction(autoOn)
  /\ UNCHANGED <<hashVars, decodes, missed, events>>

\* loadSource after its await.
FetchEnds(f) ==
  /\ ~hung
  /\ loads' = loads \ {f}
  /\ pristine' = Pristine[f]
  /\ loaded' = f
  /\ ChangeDoc(Restore(f, stored), f)
  /\ dirty' = (stored[f] \notin {None, Pristine[f]})
  /\ SaveHash(doc', FALSE)
  /\ RunAction(autoOn)
  /\ UNCHANGED <<hashVars, decodes, missed, events>>

\* The fetch is rejected and nothing catches it.
FetchFails(f) ==
  /\ ~hung
  /\ loads' = loads \ {f}
  /\ missed' = TRUE
  /\ UNCHANGED <<sourceVars, hashVars, gen, saves, decodes, runVars, events>>

\* The hashchange handler up to its await: a hash that equals the last one the
\* page wrote is taken for its own.
HashChange ==
  /\ ~hung /\ hashEvent
  /\ hashEvent' = FALSE
  /\ decodes' = IF hash = lastWritten THEN decodes ELSE decodes \union {hash}
  /\ UNCHANGED <<sourceVars, hash, lastWritten, landed, gen, saves, loads,
                 missed, runVars, events>>

\* A text: the editor takes it over as custom content.
DecodeText(h) ==
  /\ h.kind = "code"
  /\ loaded' = None /\ pristine' = None
  /\ ChangeDoc(h.of, None)
  /\ SaveHash(h.of, FALSE)
  /\ RunAction(autoOn)
  /\ UNCHANGED <<dirty, loads>>

\* An example, or the first one when the hash is empty or does not parse.
DecodeExample(h) ==
  /\ h.kind # "code"
  /\ loads' = loads \union {IF h.kind = "source" THEN h.of ELSE First}
  /\ UNCHANGED <<sourceVars, gen, saves, runVars>>

DecodeEnds(h) ==
  /\ ~hung
  /\ decodes' = decodes \ {h}
  /\ DecodeText(h) \/ DecodeExample(h)
  /\ UNCHANGED <<hashVars, missed, events>>

----------------------------------------------------------------------------

Async ==
  \/ HashChange
  \/ \E s \in saves : EncodeEnds(s)
  \/ \E f \in loads : FetchEnds(f)
  \/ \E f \in loads : FetchFails(f)
  \/ \E h \in decodes : DecodeEnds(h)
RunStep == WasmReady \/ TimerFires \/ RunEnds \/ RunHangs

Next ==
  \/ Type \/ Undo \/ Choose \/ Reset \/ Share \/ PasteLink
  \/ ClickTab \/ ClickRun \/ ToggleAuto \/ Reload
  \/ Async \/ RunStep

Spec == Init /\ [][Next]_vars

\* The browser ends what it began: downloads, encoders, timers and paints.
FairSpec == Spec /\ WF_vars(Async) /\ WF_vars(RunStep)

----------------------------------------------------------------------------
(* Properties                                                              *)

Hashes ==
  {NoHash, BadHash} \union {Code(d) : d \in Docs} \union {Source(f) : f \in Examples}

\* Each variable holds the kind of value the code keeps in it.
TypeOK ==
  /\ doc \in Docs /\ past \subseteq Docs
  /\ loaded \in Examples \union {None} /\ pristine \in Docs \union {None}
  /\ dirty \in BOOLEAN /\ stored \in [Examples -> Docs \union {None}]
  /\ hash \in Hashes /\ lastWritten \in Hashes /\ hashEvent \in BOOLEAN
  /\ gen \in Nat /\ landed \in Nat /\ events \in Nat
  /\ saves \subseteq [gen : Nat, doc : Docs, copies : BOOLEAN]
  /\ loads \subseteq Examples /\ decodes \subseteq Hashes /\ missed \in BOOLEAN
  /\ ready \in BOOLEAN /\ autoOn \in BOOLEAN /\ timer \in BOOLEAN
  /\ parked \in BOOLEAN /\ shown \in BOOLEAN /\ hung \in BOOLEAN

\* Fetches and decoders end in any order, yet the example the page believes it
\* shows and the text Reset would bring back always belong together.
PristineMatches ==
  pristine = IF loaded = None THEN None ELSE Pristine[loaded]

\* Leaving the loaded example and coming back brings exactly the text on screen:
\* no load, reset or undo leaves it unsaved (app.js:348-350).
WorkKept == loaded # None => doc = Restore(loaded, stored)

\* Work in progress on an example is replaced only by what the editor shows
\* while that example is the loaded one: no load or pasted link, however its
\* await ends between other handlers, puts a text under another example's key.
OverridesStayPut ==
  [][\A f \in Examples : stored'[f] # stored[f] => f = loaded' /\ stored'[f] = doc']_vars

\* Saves overlap and their encoders end in any order, yet the URL never goes
\* back from a newer save to an older one (app.js:1319-1322).
UrlGoesForward == [][landed' >= landed \/ gen' = 0]_vars

\* With auto-verify on, once the user stops, the URL ends up holding the text in
\* the editor -- unless the page hangs, a fetch fails, or a click on a tab claims a
\* pasted link that the page has not noticed yet (see PasteReloads).
UrlCatchesUp == <>[](autoOn /\ ready /\ ~hung /\ ~missed => hash = Code(doc))

----------------------------------------------------------------------------
(* What the comments of the code say and the code does not do.             *)

\* "it only captures source a `verify` call has reached the end of -- the
\* hang-on-reload loop stays closed" (app.js:1552-1554): no reload of a page
\* that hangs opens a text that hangs.
HangLoopClosed == hung => Opened(hash, stored).doc \notin Hanging

\* "Force a save before copying so the clipboard carries what's on screen, not
\* the last verified state" (app.js:1436-1439): the copied link holds the text
\* of the click, or of the moment it is copied.
CopyCarriesScreen ==
  [][\A s \in saves \ saves' :
       s.copies /\ gen' # 0 => hash' \in {Code(s.doc), Code(doc)}]_vars

\* "External hash changes [...] should reload the editor" (app.js:1831-1833): a
\* link in the address bar that waits for its hashchange event is not taken for
\* a hash the page wrote.
PasteReloads ==
  [][hashEvent /\ hashEvent' /\ hash # lastWritten /\ lastWritten' # lastWritten
       => lastWritten' # hash']_vars

=============================================================================
