# Verus Explorer: a TLA+ model

Verus Explorer is a page that runs rustc, Verus and Z3 as WebAssembly in the
browser: the user edits a Rust/Verus program, the page verifies it (or runs it
with Miri) and shows every intermediate representation on the way. There is no
server. This directory holds TLA+ modules of the parts that keep state, the TLC
configurations that check them and the TLAPS proofs about them.

Paths below are relative to the repository; `app.js` is `public/app.js`,
`verus.rs`, `lib.rs`, `rust.rs`, `wasm.rs`, `util.rs` are in
`verus-explorer/src/`.

## 1. Inventory

| component | state | operations | talks to | what is hard |
|---|---|---|---|---|
| run controller (`app.js` 1165-1281, 1484-1514, 1789-1869; tabs 701-767) | `runId`, the auto-verify timer, `actionButton.disabled`, `sectionCache` / `_diags` / `_verdicts` / `runOutput`, `currentTab`, the rendered strip | `runWith`, `runAction`, `scheduleAutoVerify`, the click, checkbox, radio and tab handlers, the wasm start-up | the editor, the wasm entry points (synchronous call, callbacks fill the caches), the session | every run yields for one paint before the call, so runs overlap; a call may trap or hang; a trap poisons the instance |
| session (`app.js` 339-375, 1313-1482, 1541-1562, 1605-1670, 1831-1855) | `loadedSource`, `pristineSource`, `dirty`, localStorage, `location.hash`, `lastWrittenHash`, `hashSaveGen` | `loadSource`, `resetSource`, the editor's update listener, `saveHashNow`, `writeTabToUrl`, `copyLink`, `initialDoc`, `hashchange` | the run controller (each load runs, each run's end saves), the browser (fetch, encoder, history, storage) | fetches, encoders, decoders and queued events end in any order; storage and URL survive a reload |
| verification driver (`verus.rs` 429-939) | the log's open sections, `wrapper_krate`, the op and its query, `checks_remaining`, `only_check_earlier`, `is_first_check`, the op generator's queue | `verify_simplified_krate`, `verify_module`, `run_queries`, `next_op`, `handle_op` | AIR and Z3 (queries), the reporter (diagnostics), JS (`verus_verdict`) | error returns between paired markers; a loop fed by the solver's answers; AIR panics when asked out of turn |
| wasm entry points (`lib.rs`) | one rustc session per call: error count, stolen trees, `VerifyOutput` | `verify`, `run` | rustc, the driver, JS externs (`verus_dump`, `verus_diagnostic`, ...) | panic = abort: what was streamed before a panic stays, nothing is cleaned up |
| wasm libs (`wasm.rs` 151-235, `app.js` 74-175) | the files added, the finalized bundle, `STD_MODE`, the vstd VIR deserialized on first use | `set_std_mode`, `wasm_libs_add_file`, `wasm_libs_finalize` | rustc's crate locator | three places decide about libstd |
| rustc configuration, dumps, diagnostics stream (`rust.rs`) | `DiagnosticWriter`'s line buffer | `build_rustc_config`, `dump_*`, `write`, `flush` | rustc, `verus_diagnostic` | lines cut into writes anywhere; an abort between two writes |
| section markers and folds (`util.rs`, `verus.rs` 660-698, 941-1026, `app.js` 1671-1766) | the bodies while they are written, the open wrapper, the folds | `WalkBuilder`, `run_queries`' sections, `project_smt`, `finalizeBannerBody` | the driver writes, the page folds | boundaries of groups; empty and nested sections; three views that must agree |
| marks in the editor (`app.js` 486-560, 1005-1113, 1247-1260, 1534-1540, 1772-1788) | the washes, verdict bars and squiggles, the pending flash timers, the links shown | `jumpToLoc`, `consolidateDiags`, `updateErrorDecorations`, `updateVerdictMarkers`, the linter | the run controller's tail, CodeMirror, the user's edits and clicks | timers, links and diagnostics outlive the text they were made for |
| other rendering, hover, scrolling (`app.js` 410-1164) | scroll positions, folds toggled by hand | `renderMeta`, `renderOutputView`, ... | CodeMirror | mostly layout |
| markup, styles, editor bundle, build scripts, tests, examples | none at run time | | | |

`PROJECT.json` lists the same parts with their status, and under `hazards` the
places, line by line, that are hard to test.

## 2. Modules

| module | models | extends |
|---|---|---|
| `WasmCall` | the contract of one wasm call: what it can leave with the page | |
| `RunLoop` | the run controller | `WasmCall` |
| `LatestRun` | what the run controller promises: only the newest run is answered, for the text as it then is | |
| `RunLoopProofs` | theorems about `RunLoop`, its refinement of `LatestRun` included | `RunLoop` |
| `Session` | the session | |
| `SessionProofs` | theorems about `Session` | `Session` |
| `QueryDriver` | the verification driver | |
| `QueryDriverProofs` | theorems about `QueryDriver` | `QueryDriver` |
| `Pipeline` | the wasm instance: the loader's hand-over, and `verify` and `run` stage by stage | `WasmCall` |
| `PipelineProofs` | theorems about `Pipeline` | `Pipeline` |
| `DiagnosticWriter` | the stream of diagnostics from rustc's emitter to the page | |
| `DiagnosticWriterProofs` | theorems about `DiagnosticWriter` | `DiagnosticWriter` |
| `Marks` | the marks of a run in the editor, among edits, jumps and further runs | `DiagnosticWriter` |
| `MarksProofs` | theorems about `Marks` | `Marks`, `DiagnosticWriterProofs` |
| `BannerFold` | how the page turns the section markers of one body into banners and folds | |
| `BannerFoldProofs` | theorems about `BannerFold` | `BannerFold` |
| `Banners` | how Rust writes the markers, and the bodies through the page's scanner | `BannerFold` |
| `BannersProofs` | theorems about `Banners` | `Banners`, `BannerFoldProofs` |
| `MCRunLoop`, `MCSession`, `MCQueryDriver`, `MCPipeline`, `MCMarks`, `MCBanners` | small instances for TLC | the module of the name |

### RunLoop

JavaScript runs to completion, so an action is an event handler or a stretch of
an `async` function between two awaits. `runWith` is two actions: `StartRun`
(guard, `clearTimeout`, `++runId`, disable, clear the caches, yield) and
`Resume`, which is one of `ResumeStale` (the `myRun !== runId` return),
`ResumeReturns`, `ResumeTraps` and `ResumeHangs`. `yielded` is the set of runs
parked in between. The handlers are `Click`, `Edit`, `ToggleAuto`,
`ReplaceAndRun` (`loadSource` after its fetch, `resetSource`, the `#code` branch
of `hashchange`), `HashTab`, `ClickTab`, `ClickSubtab`, `SwitchMode`; the
browser's steps are `TimerFires`, `WasmReady`, `WasmFails`; `Reload` starts a
new page.

Texts are model values. What a run writes is a set of entries tagged with the
run, the text and the kind of output, which is what lets the properties say "of
one run". What the wasm call can leave behind is `WasmCall`'s `Written` (up to any
point, for a trap) and `Complete` (for a return): sections in pipeline order, with
diagnostics, verdicts or program output among them. `Pipeline` is shown to keep to
it. `poisoned` stands for the leaked `SESSION_GLOBALS`
(`tests/smoke.rs` 14-17): afterwards every call traps on entry.

`strip` is the tab strip as last drawn. It matters because a subtab button keeps
the enabled state of the last drawing while a new run has already emptied the
caches. `lastVariantInGroup` is abstracted: a click on a stage's tab may choose
any cached section of the stage. `hashTab`, `unread` and `midRun` are history
variables: the last two say whether the text changed since a run last read it and
reported on it, and whether it changed while the newest run was parked. A run reads
the text when it goes on after the yield, not when it starts, so such a change is read
by that run and, when its own timer goes off, verified once more. `EditsVerifiedOnce`
says that this is the only repetition, and that no edit goes without a run.

### Session

`Session` keeps of a run only what `LatestRun` shows of it (pending timer, parked
newest run, its end) and adds what happens around it. `loads`, `saves` and
`decodes` are the awaits under way: fetches of examples, encoders of
`saveHashNow` with their generation, decoders of `hashchange`. `hashEvent` is the
queued `hashchange` event: the URL changes when the user pastes, the handler runs
later. `past` is what undo can bring back. `ChangeDoc` is the update listener's
mirroring, part of every action that changes the text. A hash is nothing, a text,
an example or something that does not decode; the `&t=` suffix is left out. Two
fetches of one file are one member of `loads`: they would end alike.

### QueryDriver

One action per step of the walk: modules, the prelude, functions, ops,
check-sats, probes. `stack` is the sections open in the AIR logs, `bodyStack`
those open in what was drained to the output, `undrained` what was begun in the logs
since the last drain; `lost` is a history variable, of what was still undrained when
the AIR context, and the logs with it, was dropped. `BodiesWhole` says that an error
can cost a module's prelude at most, and then only when the declarations could not be
fed and that was reported. It speaks of the AIR bodies, into which every marker goes
when it is written; of the SMT log, whose markers go through the Z3 pipe, it claims
nothing (see "Seen while modelling"). `bad` is the set of asserts that
really fail in the current query, `enabled` those AIR still checks; asserts are
numbered in program order, because `only_check_earlier` compares positions.

AIR, the op generator and the reporter are not in the repository. The solver may
answer anything sound: valid only if no enabled assert fails, otherwise one of
the failing ones, with or without model and message, or `Canceled` at any time
(which also stands for a type error or an unexpected output: failures without a
message). `airState` follows the protocol the code relies on (comment at
`verus.rs` 874-880) and becomes `"panic"` when it is broken. `tally` counts what
one check has shown the user.

`Style::Expanded` ops are left out: they need an armed expand-errors driver, and no
line of the repository arms it (see "Seen while modelling" below).

A panic (and with it the end of the wasm instance) is not a step here: it is
`Panic` of `Pipeline`.

### Pipeline

One wasm instance. `Boot` is the synchronous end of the loader (`set_std_mode`, the
files, `wasm_libs_finalize`). A call is `Enter`, then one action per stage in the
order of `Chain`, then `ResetErrCount` and `Leave`; calls are synchronous, so there
is never more than one. `seen` is what this call has handed to the page, `bodies`
what is still in `VerifyOutput`, `errs` whether the error count is not zero, `tree`
and `mir` how far the Steal-guarded forms have been consumed, `globals` rustc's
`SESSION_GLOBALS`, which a panic leaves set. `VerifyModule` stands for everything
`QueryDriver` does in a module.

rustc, Verus and Miri are external. In each stage they work in they may raise
nothing, a warning or an error, and may panic (`Panic`); an AST or HIR dump is made
also of a program with errors. `fault` records a panic that the pipeline itself
would cause: reading a stolen tree, starting Miri without its preconditions, leaving
an error count for `abort_if_errors`. The libs are reduced to those whose presence
the code asks about (`core`, `vstd`, `std`, `vstd.vir`); `vir` says whether the
deployed `vstd.vir` deserializes.

How it composes with `RunLoop`: `RunLoop` chooses what a call writes from `Written`
and `Complete`; `ContractKept`, model-checked and proved, says that `Pipeline`
never hands out anything else, at any stage, on return, after a trap and after an
earlier trap.

`entry` is what the program has for an entry: a `fn main`, none, or none by
`#![no_main]`. rustc's `entry_fn` is external, and what is assumed of it
(`MainNotFound`) is what `lib.rs` 198-200 says: when it finds no main in a bin crate
that did not opt out of one it has raised "main function not found". It is asked
only behind the start lang item; without that, "can't find crate for `std`" was
raised before. `SkipMiri` itself says nothing. So `RunAlwaysSpeaks` excepts
`#![no_main]` alone, which really ends in silence.

### DiagnosticWriter and Marks

`DiagnosticWriter` is the line buffer of `rust.rs` 227-272 between rustc's emitter
and `verus_diagnostic`. A byte is a numbered piece of some diagnostic's text or the
newline; `rest` is what the emitter has still to write, and each `Write` takes any
number of bytes of it. `write` is `Write` followed by as many `EmitLine` as there
are complete lines; nothing else of the writer happens in between, since the call is
synchronous. `Drop` is the end of the session, `Abort` a panic at any byte.

`Marks` extends it and carries the diagnostics on to the editor. A text is its
number of lines; diagnostics and verdicts speak of line numbers of the text that was
run, a mark sits on a line of the present text. `StartRun` to `FinishRun` are
`runWith` seen by the newest run alone (`LatestRun` says why that is enough); `Speak`
and `CallEnds` are steps of the writer inside the wasm call. `wash`, `bars` and
`squiggles` are the three decoration sets, `flashes` the pending timers of
`jumpToLoc`, `links` the lines that anything on the page can ask to jump to: those of the
text that was run, which may be longer than the present one. `NewLine`,
`DeleteLine`, `Type` and `Load` are the kinds of changes CodeMirror's mapping of
marks tells apart. `mapped` is a history variable: the washes of the last run, only
mapped. `Delivered`, of the writer, is checked under the runs, edits and aborts of
`Marks`.

### BannerFold and Banners

A body is a sequence of lines: open (folded or not), close, or text; an item, a
command or a reply is one line. `BannerFold` is `finalizeBannerBody`: `ScanOpen`,
`ScanText` and `ScanClose` are the turns of its loop, `Return` is what follows it.
The cleaned text is kept as the numbers its lines have in the raw body, and positions
are line numbers where the code has offsets (a blank line before anything else,
which `appendLine` would drop, is left out: a walk begins with a marker, a log with the
solver's options). The
properties do not repeat the scanner: `Around` finds the sections a line was written
in by counting markers, without a stack.

In `Banners` one behaviour makes one body, of the walks or of the logs of several
modules, each appended to it. Of a walk, `AddItem` is `add_item`, `StartFinish` the
sort at the start of `finish` (whatever order of the items is sorted by crate and
keeps those of a crate as they were: that is what a stable sort is), `PutItem` a turn
of its loop. Of a log, `FeedDecls` is the solver's options and the prelude, `OpenOp` the rotation of the
wrapper and the beginning of an op, `Respond` a response of the solver with the
commands after it, `CloseOp` the end of the op; the two loops agree on when a wrapper
is closed and opened (`Rotate`) and close the last one (`EndModule`). `Write` is
`VerifyOutput::write`. `ProjectLine` is a turn of `project_smt`, of its two calls side
by side, since they read the same lines and their state is the same: `out` has what
each let through. `StartTab`, `ScanLine` and `FinishTab` are `finalizeBannerSections`
tab by tab, on the scanner. Views and pages are kept as line numbers of the body, so
that a property can say which line of the transcript a line of a page is; `Sent`
gives the lines themselves, which is all that the page gets. The order of the
sections in a log, on error paths too, is `QueryDriver`'s subject; here it is what
becomes of them. That the markers, the last closes too, are all in the SMT body is
what `verus.rs` 347-352 and 694-697 say, and assumed of AIR here.

## 3. Runs

All bounds are constants: `MaxEvents` user actions, `MaxModules`, `MaxFunctions`,
`MaxOps`, `MaxChecks` of the driver, `MaxCalls` of the instance, `MaxLines` and
`MaxDiags` of `Marks`, `MaxItems`, `MaxModules` and `MaxReplies` of `Banners`. Deadlock checking is off everywhere, because
each system may rightly stop: the page when the user does nothing more, the driver
when the crate is done.

| run | instance | shows |
|---|---|---|
| `run_loop` | 2 texts, 3 user actions, every kind of output; symmetric in the texts | caches, screen, button, timer, tabs: see the properties in `RunLoop` |
| `run_loop_live` | the same with three kinds of output, fair, no symmetry | `RunLoop` implements `LatestRun`; the screen catches up; the button comes back |
| `session` | 2 examples, 4 texts (two shipped, one of the user's also in links, one that hangs), 2 user actions, fair | example, shipped text, override and URL stay consistent; the URL catches up |
| `query_driver` | 2 external crates, up to 2 modules of up to 2 functions, 1 op each with its retry, 2 checks of 3 asserts, budget 2, fair | sections nest and balance, no op's log is dropped, AIR never panics; budget, verdicts, failures found, hint; the walk ends |
| `pipeline` | 3 calls of either entry point on the four kinds of page, `vstd.vir` good or not | a call keeps the contract, causes no panic of its own, loses nothing it made, is not silent when run, unless by `#![no_main]`; rustc is configured for the libs loaded |
| `marks` | texts of up to 3 lines, 5 diagnostics of every level in 2 bytes each, 2 of them per behaviour, 3 user actions, fair | no diagnostic is lost, cut or joined; the marks tell what the run said; every flash fades |
| `banners` | 3 items or ops over up to 2 modules, 2 external crates and the user's own, 2 kinds, up to 2 responses | the folds are the sections; the user's own code is in sight; the views of the SMT exchange agree; the walk is grouped |

Why the bounds are enough. In `RunLoop` three user actions together with the
first run, the timer and the paint give three runs parked at once, a trap followed
by another run, a mode switch with runs parked, and a click on a stale tab between
two runs. Two texts suffice because texts are only compared with one another. In
`Session` two user actions, the run the page starts by itself and the awaits they
leave give two loads, two saves or a load and a pasted link in flight, in every
order; what is not covered by the bound is covered by the proofs, which hold for
any number. In `QueryDriver` two external crates, the user's own and two functions
with their retries make every rotation of the wrapper, and two modules show that
nothing is carried over; three asserts against a budget of two make the flag flip
with a failure still left before the one just found. In
`Pipeline` three calls give a good call, one that traps and one on the poisoned
instance, and a cached vstd used by a later call; nothing else is carried from call
to call. In `Marks` two diagnostics can meet on a line or be left by two runs, in
three lines a mark has a neighbour on both sides, and three user actions give an
edit between a run and a jump, two flashes that overlap, and a load of a shorter
text under links of a longer one. In `Banners` three items give a run of two and its
end, two crates in the wrong order, an empty section between two others, and a second
module after the first; two responses make one with a reply and one without, in one
op or in two. Each
property is also shown to fail for a plausible slip in the code (`mutants`).

### Fairness

Only the browser is held to anything: `WasmReady`, timers, paints and awaited
streams end (weak fairness), which is what an event loop gives a page in the
foreground. Nothing obliges the user. A fetch may be rejected instead of ending
well, the wasm may fail to load, a call may hang; the liveness properties say so
in their premises. In `QueryDriver` fairness is `WF(Next)`: a sequential program
does not stop by itself, and every solver call returns because of its resource
limit (`verus.rs` 572). In `Marks` the timers of the flashes and of the linter go off
and the wasm call ends; a call that hangs is left to `RunLoop`.

### Disagreements between comments and code

Each is a run that TLC refutes, listed under `findings`.

* `hang_loop`: a text that hangs can be reopened by the reload, through localStorage.
* `copy_link`: when another save begins meanwhile, the older link is copied.
* `paste_link`: a pasted link is taken for the page's own when the page writes the
  hash before the event arrives. The wasm call blocks the page and its end writes
  the hash, so a link pasted during a long run is the likely case.
* `silent_failure`: an error of `GlobalCtx::new`, `check_traits`, `simplify_krate` or
  of a `vstd.vir` that does not deserialize is reported nowhere: the page shows no
  VIR and no reason.
* `marks_follow`: a jump after an edit puts the washes back at the line numbers the
  last run reported, and so on the wrong lines, until the next run.

Seen while modelling, too local to be worth a run: the comment at `app.js` 1497 says
of unchecking auto-verify "we only cancel pending work", and the handler leaves the
timer armed, so that a run still starts; `app.js` 1174-1179 wants no text verified
twice, and `runWith` cancels the timer when it begins, but an edit made after that,
before it goes on at 1231, is read by this run and verified again when its own timer
goes off (`midRun` of `RunLoop`); `tests/smoke.rs` 226-230 says that the Z3 pipe path
drops the closes after the last check-sat, where `verus.rs` 347-352 has the markers
written at emission and 694-697 has the final drain catch the closes still in
`pipe_buffer`: the emitter is not in the repository, so `BodiesWhole` is claimed of the
AIR bodies alone, and `Banners` follows `verus.rs`; an error of `feed_module_decls`
returns before the first drain (`verus.rs` 639) and takes that module's prelude with
it, though `lib.rs` 138-142 wants the dumps to survive a failure (`lost` of
`QueryDriver`); `lib.rs` 170-171 says that `run` returns silently when there is no entry
function, where by 198-200 rustc has reported the missing main, so that only
`#![no_main]` is silent; a verify that traps after its first dump
shows no diagnostic, though `app.js` 1266-1267 wants DIAGNOSTICS to show something on
a hard trap (the code synthesizes one only when nothing at all was streamed);
`DiagnosticWriter::drop` finds an empty buffer in practice, because the emitter ends
every line and a panic aborts without running it, against the comment at `rust.rs`
232-233; the linter recomputes the squiggles from the last run's line numbers after
every edit, like the flash does the washes; undo after Reset brings the edit
back while Reset stays hidden, since `dirty` follows only transactions tagged as
input or deletion (`app.js` 354-365, 1548); `handle_op` collects
`default_prover_failed_assert_ids` and drops it, nothing calls
`start_expand_errors_if_possible`, which the comment at `verus.rs` 615-616 says arms
the driver; the comment at `wasm.rs` 179-181 speaks of a "single-use wasm instance",
which `app.js` 162-163 reuses for every call; `resetSource` removes the
override and the listener stores the shipped text under the same key in the next
line (`app.js` 1643-1644, 1557-1558), and the preferred tab of an execute run,
`MIR`, is the name of a group and no section, so the first cached section is
taken (`app.js` 1193, 1803, 1251).

## 4. Proofs

Every theorem holds for all values of the constants under the named assumptions
of the modules: a nonempty set of texts without the placeholder; examples with
their texts; natural-number bounds, a probe budget of at least one; a nonempty set of
states of `vstd.vir`; diagnostics of at least one byte whose ranges do not run
backwards; crates that are positive numbers, in the order of their names, and titles
among them those the code writes. TLC evaluates each assumption in the run of its module. The layout is the
same in the eight modules: an inductive invariant, a lemma per action or group of
actions, `Init => Inv`, `Inv /\ [Next]_vars => Inv'`, and the properties from it.
Each invariant was checked by TLC on the small instance before it was proved.

* `RunLoopProofs`. The properties are not inductive by themselves. `IInv` adds
  that a parked run's number is at most `runId` and no two parked runs share one
  (so at most one of them is current), that entries and screen carry numbers no
  newer than `runId`, that there is no run before the wasm is ready, and that a timer
  pending beside a parked run is that of an edit made since it began. From it:
  `TypeCorrect`, `CachesNeverMix`, `ButtonIsRight`, `ScreenIsCoherent`,
  `EditsAreVerified`, `TrapsAreSeen`, the action property `ScreenOnlyAdvances`,
  `TabsShowSomething`, which needs of the strip that once a run has ended it offers
  what is cached (`StripIsFresh`: otherwise a subtab of the run before could be
  clicked), and of the tail's fallback that it passes over no cached section; and
  `Refinement`: with `asked <- runId`, `waiting <- Live` and `answered` the run and
  text on screen, each action is a step of `LatestRun` or a stutter.
* `SessionProofs`. `PristineMatches` and `WorkKept` carry each other: a reset shows
  `pristine` and the listener stores it, a load restores what is stored. `IInv`
  adds that no save is newer than `gen` and that the hash was written by a save no
  newer than it. From it: `TypeCorrect`, `ResetBringsTheRightText`,
  `ComingBackLosesNothing`, `NoOverrideIsMixedUp`, `UrlNeverGoesBack`.
* `QueryDriverProofs`. `IInv` gives the exact stack at each place of the driver
  (`LogShape`), what is undrained or lost (`Kept`), where AIR stands (`AirShape`) and what has been told when a turn
  of the probing loop begins (`TallyShape`): without the last, `VerdictsAddUp`
  could not exclude a proof after a failure. From it: `TypeCorrect`,
  `SectionsAlwaysNest`, `BodiesAlwaysWhole`, `BudgetAlwaysHolds`,
  `AirIsAskedRightly`, `HeadlineAddsUp`, `HintShownOnce`. `FailuresAlwaysFound` rests
  on a second invariant relative to `IInv`, `ProbeShape`: what was reported fails and
  is no longer enabled; a failing assert that is neither enabled nor reported lies
  behind a reported one, and there is none of those while the flag is down; the
  budget left and the reports made are together at least the budget given. When the
  solver then proves the rest, nothing that fails is enabled; with the flag up there
  were as many reports as the budget, so a query with no more failures than that has
  had all of them reported.
* `PipelineProofs`. `IInv` says, for each stage, what has been handed out when it is
  reached (`HandedOut`), how far the trees have been consumed (`Lowered`), that
  outside a call `globals` is set exactly after a trap (`Sessions`), that booting
  loaded the libs of the page (`Loaded`), and that a run past Miri has spoken
  unless it is `#![no_main]` (`Spoken`). From it: `TypeCorrect`, `CallsKeepTheContract`, `TrapsAreExternal`,
  `NothingMadeIsLost`, `RunsAreNotSilent`, `ConfigMatchesPage`, for any number of
  calls.

* `DiagnosticWriterProofs`. The invariant is that what is buffered and what is still
  to be written (`Stream`) is, byte by byte, the sequence of lines of the diagnostics
  that were emitted and not yet delivered (`LinesOf(Stream, Owed)`), and that what was
  delivered is a prefix of what was emitted. A write moves bytes within `Stream`; a
  delivery takes the first line off both. That the first newline of the buffer ends
  the first line owed (`FirstLine`) is where it counts that no text has a newline in
  it. From it: `WriterTypeCorrect`, `WriterDelivers`.
* `MarksProofs`. The writer's invariant is kept by the page's steps too, since
  they touch its variables only at the start of a run. `MarksInv` adds that outside a
  call there is no writer (`Quiet`), that the run speaks of lines of the text it was
  given as long as that text is there (`InText`), that the page's list is the run's
  (`Listed`), that the marks on that text are those the list and the verdicts make but
  for a flash (`Drawn`), and that a flash has a timer (`Timed`). From it: `TypeCorrect`
  (a mark or none for every line, after any edit), `PageGetsAll`, `MarksAreTrue`.

* `BannerFoldProofs`. The scanner on any body whatsoever. It starts from lemmas on the
  counting: how `Balance` and `Around` change with a line (`BalanceNext`,
  `AroundNext`). The invariant says that the stack holds exactly the sections that
  are open by counting, each with the number of those opened since (`Stacked`); that a
  fold lies beside or inside every section still open (`Folded`: otherwise taking an
  empty banner back could cut a fold off); and that every line has over it the banners
  of its sections, closed or still open (`Nested`). A close without an open needs only
  that nothing is open by counting either. From it: `FoldsAlwaysMatch`; `BeginsAnew`
  says that each scan of the page begins where the theorem does.

* `BannersProofs`. The bodies that Rust writes, of any number of modules, items, ops,
  crates and responses, through the projections and the page. Half of the invariant is
  about writing. `BodyOpen` says which sections are open at the end of the body -- the
  wrapper, if a run has one, and the op, if one is being written -- and that all before
  them is closed again; a line is judged by what was open when it was written
  (`JustOpened`), since nothing written later changes what is around it. `LogInv` adds
  that a response is a section of replies and nothing else, `WalkInv` that the items
  still to be put are those added and not yet put, sorted, all behind the last one put.
  The other half is about reading. `ProjectInv` says of the lines read so far that each
  view has its own kind of text (`Selected`), that in each view the same sections are
  open as in the transcript (`Lockstep`: the query view is one short while a response
  is read, whose close it does not get either), and that `in_response` is right
  (`InResponse`), for which it is needed that no section is within a response, so that
  the first close marker is the response's own. A page, then, is `FoldInv`, the invariant of
  `BannerFoldProofs`, on a body that is one of these views, and `PageRight` once it is
  finalized. From it: `UserCodeStaysInSight`, `ViewsStayInStep`, `WalksStayGrouped`,
  and `FoldsAsWritten`, the scanner's property on the bodies it is really given.

Only model-checked: the liveness properties (`ScreenCatchesUp`, `ButtonComesBack`,
`UrlCatchesUp`, `Terminates`, `FlashesFade`), which need fairness and `ENABLED`, out of
the prover's reach. Every other property of a passing run is a theorem.

## 5. Not modelled, and the plan

Next: an `Explorer` module composing `Session` with `LatestRun` in place of its
summary of a run, and `RunLoop` with `Pipeline` as the callee in place of the contract.

Not modelled: the value of the example dropdown, which stays on the example asked for
when its fetch is rejected (`app.js` 339); the panels' HTML, tooltips and highlighting;
the scroll position kept per tab; `json_escape` and `to_json` of a verdict
(`verus.rs` 237-318), a formatting the page undoes with `JSON.parse`.

Left out for good: upstream rustc, Verus, AIR, Miri and Z3 (external, modelled by
how they are used); markup, styles and CodeMirror's own behaviour; the build
scripts, which run once and leave no state behind.
