------------------------------ MODULE Pipeline ------------------------------
(***************************************************************************)
(* One wasm instance and the calls it serves one after the other: the      *)
(* loader that hands it the libs (public/app.js, wasm.rs), and the stages  *)
(* of verify and run (lib.rs) with what each of them hands to the page.    *)
(*                                                                         *)
(* Calls are synchronous, so there is one at a time.  Panics abort: what   *)
(* was handed out stays with the page, nothing is cleaned up, and rustc's  *)
(* SESSION_GLOBALS remain set, so that every later call panics on entry.   *)
(* rustc, Verus and Miri are external: at the stages where they work on    *)
(* the user's program they may raise diagnostics, and may panic.  `fault`  *)
(* is set when it is the pipeline itself that asks for a panic.            *)
(***************************************************************************)
EXTENDS Naturals, WasmCall

CONSTANTS Virs,      \* the states of the deployed vstd.vir: "good", "mismatch"
          MaxCalls   \* bound on the calls

ASSUME VirsAssumption == Virs # {} /\ Virs \subseteq {"good", "mismatch"}
ASSUME MaxCallsAssumption == MaxCalls \in Nat

VARIABLES
  page,       \* [mode, std]: execMode and stdMode of the URL
  vir,        \* the bytes of vstd.vir: do they deserialize?
  bundle,     \* WASM_LIBS_BUNDLE
  stdMode,    \* STD_MODE
  vstdKrate,  \* VSTD_KRATE is set
  globals,    \* SESSION_GLOBALS is set
  pc,         \* the stage of the call, "idle" between calls
  mode,       \* the entry point called
  config,     \* build_rustc_config
  entry,      \* the program's entry: a fn main, none, or none by #![no_main]
  errs,       \* the DiagCtxt's error count is not zero
  tree,       \* the AST: "source", "resolved", or "stolen" by HIR lowering
  mir,        \* how far the MIR of the functions was lowered (and stolen)
  bodies,     \* the bodies of VerifyOutput that are not empty
  seen,       \* what the page was handed in this call
  ended,      \* how the last call ended: "none", "returned", "trapped"
  poisoned,   \* history: a call before this one trapped
  fault,      \* "none", or why the pipeline panicked by its own doing
  calls       \* how many of the MaxCalls calls were made

instVars == <<page, vir, bundle, stdMode, calls>>
callVars == <<mode, config, entry, poisoned>>
endVars  == <<globals, ended, fault>>
vars     == <<instVars, callVars, endVars, vstdKrate, pc, errs, tree, mir, bodies, seen>>

Levels == {"none", "warning", "error"}

Programs == {"main", "none", "no_main"}

\* The bodies of VerifyOutput; SMT_TRANSCRIPT stands for the six AIR and SMT
\* tabs, whose logs are filled and drained together.
Bodies == {"VIR_PRUNED", "SST_AST", "SST_POLY", "SMT_TRANSCRIPT"}

MirStages == {"MIR_BUILT", "MIR_DROPS", "MIR_OPT"}

\* Mutant: the ranks start at two.
MirRankFromTwo == [MIR_BUILT |-> 2, MIR_DROPS |-> 3, MIR_OPT |-> 4]
MirRank == [MIR_BUILT |-> 1, MIR_DROPS |-> 2, MIR_OPT |-> 3]

----------------------------------------------------------------------------
(* The loader.                                                             *)

\* LIBS of the page's variant: exec, std or nostd.
LibsOf(p) ==
  {"core", "vstd", "vstd.vir"} \union (IF p.mode = "execute" \/ p.std THEN {"std"} ELSE {})

NoConfig == [bin |-> FALSE, ghost |-> FALSE, std |-> FALSE]

Init ==
  /\ page \in [mode : Modes, std : BOOLEAN] /\ vir \in Virs
  /\ bundle = {} /\ stdMode = FALSE /\ vstdKrate = FALSE /\ globals = FALSE
  /\ pc = "boot" /\ mode = "verify" /\ config = NoConfig /\ entry = "none"
  /\ errs = FALSE /\ tree = "source" /\ mir = 0 /\ bodies = {} /\ seen = {}
  /\ ended = "none" /\ poisoned = FALSE /\ fault = "none" /\ calls = 0

\* set_std_mode, wasm_libs_add_file for each file and wasm_libs_finalize, in one
\* stretch after the last await of the loader; the page calls nothing before.
Boot ==
  /\ pc = "boot" /\ pc' = "idle"
  /\ stdMode' = page.std
  /\ bundle' = LibsOf(page)
  /\ UNCHANGED <<page, vir, calls, callVars, endVars, vstdKrate, errs, tree, mir, bodies, seen>>

----------------------------------------------------------------------------
(* A call, stage by stage.                                                 *)

\* Mutants: libstd follows the no_std toggle alone; every crate is a library.
build_rustc_configToggle(m) == [bin |-> m = "execute", ghost |-> m = "verify", std |-> stdMode]
build_rustc_configLib(m) ==
  [bin |-> FALSE, ghost |-> m = "verify", std |-> stdMode \/ m = "execute"]

\* The crate type, whether ghost bodies are kept, and whether the std prelude
\* and feature are there (otherwise #![no_std] is injected).
build_rustc_config(m) ==
  [bin |-> m = "execute", ghost |-> m = "verify", std |-> stdMode \/ m = "execute"]

\* The order in which verify and run go through their stages.
Chain ==
  [verify |->
     [parse |-> "AST_PRE", AST_PRE |-> "AST", AST |-> "HIR", HIR |-> "HIR_TYPED",
      HIR_TYPED |-> "vstd_krate", vstd_krate |-> "construct_vir", construct_vir |-> "simplify",
      simplify |-> "VIR_RAW", VIR_RAW |-> "VIR_SIMPLE", VIR_SIMPLE |-> "modules",
      modules |-> "write", write |-> "reset", reset |-> "leave"],
   execute |->
     [parse |-> "AST_PRE", AST_PRE |-> "AST", AST |-> "HIR", HIR |-> "HIR_TYPED",
      HIR_TYPED |-> "MIR_BUILT", MIR_BUILT |-> "MIR_DROPS", MIR_DROPS |-> "MIR_OPT",
      MIR_OPT |-> "miri", miri |-> "reset", reset |-> "leave"]]

\* Mutant: the VIR is dumped only once the modules are verified.
AfterDumpLast(stage) ==
  [Chain EXCEPT !["verify"]["simplify"] = "modules"][mode][stage]

After(stage) == Chain[mode][stage]
Goto(stage)  == pc' = stage

\* What a stage hands out, and the diagnostic it raises on the way.
Emit(kinds, level) ==
  /\ seen' = seen \union kinds \union (IF level = "none" THEN {} ELSE {"diag"})
  /\ errs' = (errs \/ level = "error")

\* A panic: abort, no unwinding.
Trap(cause) ==
  /\ Goto("idle")
  /\ ended' = "trapped" /\ fault' = cause
  /\ UNCHANGED <<globals, tree, mir, bodies, vstdKrate>>

\* run_compiler: a new session for the call, if no other one is still set.
Enter(m) ==
  /\ pc = "idle" /\ calls < MaxCalls /\ calls' = calls + 1
  /\ mode' = m /\ config' = build_rustc_config(m) /\ entry' \in Programs
  /\ poisoned' = (poisoned \/ ended = "trapped")
  /\ errs' = FALSE /\ tree' = "source" /\ mir' = 0 /\ bodies' = {} /\ seen' = {}
  /\ globals' = TRUE
  /\ IF globals THEN Goto("idle") /\ ended' = "trapped"
                ELSE Goto("parse") /\ ended' = "none"
  /\ UNCHANGED <<page, vir, bundle, stdMode, vstdKrate, fault>>

InCall == UNCHANGED <<instVars, callVars>>

\* The parser may recover from errors; dump_ast_pre_expansion only prints.
Parse ==
  /\ pc = "parse" /\ InCall
  /\ \E level \in Levels : Emit({}, level)
  /\ Goto(After(pc))
  /\ UNCHANGED <<endVars, vstdKrate, tree, mir, bodies>>

DumpAstPre ==
  /\ pc = "AST_PRE" /\ InCall
  /\ Emit({"AST_PRE"}, "none")
  /\ Goto(After(pc))
  /\ UNCHANGED <<endVars, vstdKrate, tree, mir, bodies>>

\* resolver_for_lowering expands and resolves; a std prelude without libstd in
\* the bundle is an error.  The AST cannot be read once it was stolen.
StdMissing == config.std /\ "std" \notin bundle
DumpAst ==
  /\ pc = "AST" /\ InCall
  /\ IF tree = "stolen"
     THEN Trap("stolen") /\ UNCHANGED <<seen, errs>>
     ELSE /\ \E level \in IF StdMissing THEN {"error"} ELSE Levels : Emit({"AST"}, level)
          /\ tree' = "resolved"
          /\ Goto(After(pc))
          /\ UNCHANGED <<endVars, vstdKrate, mir, bodies>>

\* hir_free_items lowers the AST and steals it; the typed dump type-checks.
DumpHir ==
  /\ pc \in {"HIR", "HIR_TYPED"} /\ InCall
  /\ \E level \in Levels : Emit({pc}, level)
  /\ tree' = "stolen"
  /\ Goto(After(pc))
  /\ UNCHANGED <<endVars, vstdKrate, mir, bodies>>

----------------------------------------------------------------------------
(* verify: build_vir, dump_vir, verify_simplified_krate and the write.     *)

\* vstd.vir is deserialized once; a failure is not remembered, and `?` leaves
\* build_vir with an error nobody reports.
VstdKrate ==
  /\ pc = "vstd_krate" /\ InCall
  /\ LET ok == vstdKrate \/ ("vstd.vir" \in bundle /\ vir = "good")
     IN  vstdKrate' = ok /\ Goto(IF ok THEN After(pc) ELSE "reset")
  /\ UNCHANGED <<endVars, errs, seen, tree, mir, bodies>>

\* construct_vir_crate: Ok(true); Ok(false), when rustc has raised errors; or
\* errors that the loop after it reports.
ConstructVir ==
  /\ pc = "construct_vir" /\ InCall
  /\ \/ (\E level \in Levels : Emit({}, level)) /\ Goto(After(pc))
     \/ (\E level \in Levels : Emit({}, level)) /\ errs' /\ Goto("reset")
  /\ UNCHANGED <<endVars, vstdKrate, tree, mir, bodies>>

\* GlobalCtx::new, check_traits and simplify_krate; their errors leave build_vir
\* by `?`, unreported.
Simplify ==
  /\ pc = "simplify" /\ InCall
  /\ Goto(After(pc)) \/ Goto("reset")
  /\ UNCHANGED <<endVars, vstdKrate, errs, seen, tree, mir, bodies>>

DumpVir ==
  /\ pc \in {"VIR_RAW", "VIR_SIMPLE"} /\ InCall
  /\ Emit({pc}, "none")
  /\ Goto(After(pc))
  /\ UNCHANGED <<endVars, vstdKrate, tree, mir, bodies>>

\* verify_module appends to the bodies and, once the prelude is in the logs,
\* streams verdicts and diagnostics (QueryDriver is this action in detail).
VerifyModule ==
  /\ pc = "modules" /\ InCall
  /\ \E more \in SUBSET Bodies, verdicts \in SUBSET {"verdict"}, level \in Levels :
       /\ bodies' = bodies \union more
       /\ verdicts # {} => "SMT_TRANSCRIPT" \in bodies'
       /\ Emit(verdicts, level)
  /\ UNCHANGED <<endVars, vstdKrate, pc, tree, mir>>

\* Mutant: a module's error skips the write.
ModulesFailBails ==
  /\ pc = "modules" /\ InCall
  /\ Emit({}, "error")
  /\ Goto("reset")
  /\ UNCHANGED <<endVars, vstdKrate, tree, mir, bodies>>

\* A module's error is reported and ends the loop; verify goes on all the same.
ModulesFail ==
  /\ pc = "modules" /\ InCall
  /\ Emit({}, "error")
  /\ Goto(After(pc))
  /\ UNCHANGED <<endVars, vstdKrate, tree, mir, bodies>>

ModulesDone ==
  /\ pc = "modules" /\ InCall
  /\ Goto(After(pc))
  /\ UNCHANGED <<endVars, vstdKrate, errs, seen, tree, mir, bodies>>

Write ==
  /\ pc = "write" /\ InCall
  /\ Emit(bodies, "none")
  /\ Goto(After(pc))
  /\ UNCHANGED <<endVars, vstdKrate, tree, mir, bodies>>

----------------------------------------------------------------------------
(* run: dump_mir and Miri.                                                 *)

\* Each stage's query steals the MIR of the stage before.
DumpMir ==
  /\ pc \in MirStages /\ InCall
  /\ IF mir > MirRank[pc]
     THEN Trap("stolen") /\ UNCHANGED <<seen, errs>>
     ELSE /\ \E level \in Levels : Emit({pc}, level)
          /\ mir' = MirRank[pc]
          /\ Goto(After(pc))
          /\ UNCHANGED <<endVars, vstdKrate, tree, bodies>>

\* The start lang item lives in libstd; entry_fn is the main of a bin crate that
\* does not opt out of one.
StartFn == config.std /\ "std" \in bundle
EntryFn == config.bin /\ entry = "main"

MiriReady == StartFn /\ EntryFn

\* The program's output, and the line with its exit code.
Miri ==
  /\ pc = "miri" /\ InCall /\ MiriReady
  /\ IF StartFn /\ EntryFn
     THEN /\ \E level \in Levels : Emit({"output"}, level)
          /\ Goto(After(pc))
          /\ UNCHANGED <<endVars, vstdKrate, tree, mir, bodies>>
     ELSE Trap("miri") /\ UNCHANGED <<seen, errs>>

\* Miri is skipped without a word.  rustc's entry_fn, asked only once there is a
\* start item, has raised its "main function not found" for a bin crate by then;
\* for #![no_main] and for a library it is None without a diagnostic.
MainNotFound == StartFn /\ config.bin /\ entry = "none"
SkipMiri ==
  /\ pc = "miri" /\ InCall /\ ~MiriReady
  /\ Emit({}, IF MainNotFound THEN "error" ELSE "none")
  /\ Goto(After(pc))
  /\ UNCHANGED <<endVars, vstdKrate, tree, mir, bodies>>

----------------------------------------------------------------------------
(* The end of a call.                                                      *)

\* Mutant: the error count is left as it is.
ResetErrCountNot ==
  /\ pc = "reset" /\ InCall
  /\ Goto(After(pc))
  /\ UNCHANGED <<endVars, vstdKrate, errs, seen, tree, mir, bodies>>

ResetErrCount ==
  /\ pc = "reset" /\ InCall
  /\ errs' = FALSE
  /\ Goto(After(pc))
  /\ UNCHANGED <<endVars, vstdKrate, seen, tree, mir, bodies>>

\* run_compiler: abort_if_errors, then the session is dropped.
Leave ==
  /\ pc = "leave" /\ InCall
  /\ IF errs
     THEN Trap("errors")
     ELSE /\ Goto("idle") /\ ended' = "returned" /\ globals' = FALSE
          /\ UNCHANGED <<fault, tree, mir, bodies, vstdKrate>>
  /\ UNCHANGED <<seen, errs>>

\* rustc, Verus or Miri panics in one of the stages they run in: a fatal error,
\* raised with a diagnostic, or a defect of theirs.
ExternalStages ==
  {"parse", "AST_PRE", "AST", "HIR", "HIR_TYPED", "vstd_krate", "construct_vir", "simplify",
   "VIR_RAW", "VIR_SIMPLE", "modules", "miri"} \union MirStages
Panic ==
  /\ pc \in ExternalStages /\ InCall
  /\ \E level \in {"none", "error"} : Emit({}, level)
  /\ Trap(fault)

Next ==
  \/ Boot
  \/ \E m \in Modes : Enter(m)
  \/ Parse \/ DumpAstPre \/ DumpAst \/ DumpHir
  \/ VstdKrate \/ ConstructVir \/ Simplify \/ DumpVir
  \/ VerifyModule \/ ModulesFail \/ ModulesDone \/ Write
  \/ DumpMir \/ Miri \/ SkipMiri
  \/ ResetErrCount \/ Leave \/ Panic

Spec == Init /\ [][Next]_vars

----------------------------------------------------------------------------
(* Properties                                                              *)

Stages == ExternalStages \union {"write", "reset", "leave"}

\* Each variable holds the kind of value the code keeps in it.
TypeOK ==
  /\ page \in [mode : Modes, std : BOOLEAN] /\ vir \in Virs
  /\ bundle \subseteq {"core", "vstd", "vstd.vir", "std"} /\ stdMode \in BOOLEAN
  /\ vstdKrate \in BOOLEAN /\ globals \in BOOLEAN
  /\ pc \in Stages \union {"boot", "idle"} /\ mode \in Modes
  /\ config \in [bin : BOOLEAN, ghost : BOOLEAN, std : BOOLEAN] /\ entry \in Programs
  /\ errs \in BOOLEAN /\ tree \in {"source", "resolved", "stolen"} /\ mir \in 0..3
  /\ bodies \subseteq Bodies
  /\ seen \subseteq Stages \union Bodies \union {"diag", "verdict", "output"}
  /\ ended \in {"none", "returned", "trapped"} /\ poisoned \in BOOLEAN
  /\ fault \in {"none", "stolen", "miri", "errors"} /\ calls \in 0..MaxCalls

\* What the page was handed is at every moment what RunLoop lets a call write;
\* a call after a trap hands it nothing and does not return (lib.rs 105-109).
Shown == seen \intersect Kinds
ContractKept ==
  /\ Shown \in Written[mode]
  /\ poisoned => Shown = {}
  /\ ended = "returned" => ~poisoned /\ Shown \in Complete[mode]

\* No sequence of stages makes the pipeline panic by its own doing: no tree is
\* read after it was stolen, Miri has what it would be fatal without, and no
\* error count is left for run_compiler's abort_if_errors.
NoSelfInflictedTrap == fault = "none"

\* Nothing that was made for the late tabs is lost when a call returns, also
\* when a module has failed (lib.rs 138-142).
KeepsWhatWasMade == ended = "returned" => bodies \subseteq seen

\* A run that returns has shown the program's output or said why there is none
\* (lib.rs:195-200), whichever of libstd and fn main was missing; only a program that
\* opts out of an entry function by #![no_main] may be answered with nothing.
\* (lib.rs:170-171 has run return silently for every source without one: it does not,
\* as long as rustc is asked for a bin crate.)
RunAlwaysSpeaks ==
  ended = "returned" /\ mode = "execute" /\ entry # "no_main" =>
    {"output", "diag"} \intersect seen # {}

\* rustc is told of a libstd exactly when the page has loaded one, for calls in
\* the page's own mode: LIBS_VARIANT, STD_MODE and build_rustc_config agree.
PreludeMatchesBundle ==
  pc \in Stages /\ mode = page.mode => (config.std <=> "std" \in bundle)

----------------------------------------------------------------------------
(* What a comment says and the code does not do.                           *)

\* "Errors from `build_vir` [...] have already been routed through the vendored
\* `build_vir_crate` reporter [...] so they land in the DIAGNOSTICS section"
\* (lib.rs:111-114): a verify that stops before the VIR says why.
BuildErrorsLand ==
  ended = "returned" /\ mode = "verify" /\ "VIR_RAW" \notin seen => "diag" \in seen

=============================================================================
