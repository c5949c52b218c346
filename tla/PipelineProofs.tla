--------------------------- MODULE PipelineProofs ---------------------------
(***************************************************************************)
(* Proofs about Pipeline, for any number of calls: the stages never bring  *)
(* a panic about by themselves, and a call leaves with the page only what  *)
(* WasmCall, and with it RunLoop, says it can.                             *)
(*                                                                         *)
(* None of the properties is inductive.  IInv says for every stage what    *)
(* has been handed out and lowered by then, and follows the session        *)
(* globals from call to call.                                              *)
(***************************************************************************)
EXTENDS Pipeline, TLAPS

VerifyStages ==
  {"vstd_krate", "construct_vir", "simplify", "VIR_RAW", "VIR_SIMPLE", "modules", "write"}
RunStages    == {"MIR_BUILT", "MIR_DROPS", "MIR_OPT", "miri"}
FrontStages  == {"parse", "AST_PRE", "AST", "HIR", "HIR_TYPED"}

\* The instance is loaded once and configured for each call.
Loaded ==
  /\ pc # "boot" => bundle = LibsOf(page) /\ stdMode = page.std
  /\ pc \in Stages => config = build_rustc_config(mode)

\* The session is set during a call and stays set after a trap.
Sessions ==
  /\ pc = "boot" => ~globals /\ ended = "none" /\ ~poisoned
  /\ pc \in Stages => globals /\ ended = "none" /\ ~poisoned
  /\ pc = "idle" => (globals <=> ended = "trapped")
  /\ poisoned => seen = {} /\ ended = "trapped"

\* How far the trees are lowered, and which mode a stage belongs to.
Lowered ==
  /\ pc \in {"parse", "AST_PRE", "AST"} => tree # "stolen"
  /\ pc \in FrontStages => mir = 0
  /\ pc \in RunStages => mode = "execute"
  /\ pc \in MirStages => mir < MirRank[pc]
  /\ pc \in VerifyStages => mode = "verify"
  /\ pc = "leave" => ~errs

\* What has been handed out when a stage begins.
HandedOut ==
  /\ pc \in Stages \ {"parse", "AST_PRE"} \/ ended = "returned" => "AST_PRE" \in seen
  /\ pc \in {"VIR_SIMPLE", "modules", "write"} => "VIR_RAW" \in seen
  /\ \/ pc \in {"MIR_DROPS", "MIR_OPT", "miri"}
     \/ mode = "execute" /\ (pc \in {"reset", "leave"} \/ ended = "returned")
     => "MIR_BUILT" \in seen
  /\ "VIR_RAW" \in seen \/ "MIR_BUILT" \in seen => "AST_PRE" \in seen
  /\ seen \intersect {"SST_AST", "SMT_TRANSCRIPT", "verdict"} # {} => "VIR_RAW" \in seen
  /\ "output" \in seen => "MIR_BUILT" \in seen
  /\ mode = "verify" => seen \intersect {"MIR_BUILT", "output"} = {}
  /\ mode = "execute" =>
       seen \intersect {"VIR_RAW", "SST_AST", "SMT_TRANSCRIPT", "verdict"} = {}
  /\ pc \in Stages \ {"modules", "write", "reset", "leave"} => bodies = {}
  /\ pc \in {"reset", "leave"} \/ ended = "returned" => bodies \subseteq seen

\* Why a run has not been silent, unless its program wants no entry function.
Spoken ==
  /\ pc \in RunStages \union {"HIR", "HIR_TYPED"} /\ StdMissing => "diag" \in seen
  /\ mode = "execute" /\ entry # "no_main" /\ (pc \in {"reset", "leave"} \/ ended = "returned")
       => {"output", "diag"} \intersect seen # {}

IInv == TypeOK /\ NoSelfInflictedTrap /\ Loaded /\ Sessions /\ Lowered /\ HandedOut /\ Spoken

\* The initial state.
LEMMA InitIInv == Init => IInv
<1> SUFFICES ASSUME Init PROVE IInv
  OBVIOUS
<1> USE DEF Init, Stages, ExternalStages, MirStages
<1>a. /\ stdMode \in BOOLEAN /\ vstdKrate \in BOOLEAN /\ globals \in BOOLEAN /\ entry \in Programs
      /\ errs \in BOOLEAN /\ poisoned \in BOOLEAN
  BY Zenon DEF Programs
<1>b. config \in [bin : BOOLEAN, ghost : BOOLEAN, std : BOOLEAN]
  BY DEF NoConfig
<1>1. TypeOK
  BY <1>a, <1>b, MaxCallsAssumption DEF TypeOK, Modes
<1>2. NoSelfInflictedTrap /\ Loaded /\ Sessions /\ Lowered
  BY DEF NoSelfInflictedTrap, Loaded, Sessions, Lowered, VerifyStages, RunStages, FrontStages
<1>3. HandedOut /\ Spoken
  BY DEF HandedOut, Spoken, RunStages
<1> QED
  BY <1>1, <1>2, <1>3 DEF IInv

\* The parser only adds to the diagnostics.
LEMMA ParseKeeps == IInv /\ Parse => IInv'
<1> SUFFICES ASSUME IInv, Parse PROVE IInv'
  OBVIOUS
<1> USE DEF Parse, InCall, instVars, callVars, endVars, Emit, Levels
<1>1. pc = "parse" /\ pc' = "AST_PRE"
  BY DEF IInv, TypeOK, Lowered, Goto, After, Chain, Modes, RunStages, VerifyStages
<1>2. TypeOK'
  BY <1>1 DEF IInv, TypeOK, Stages, ExternalStages, MirStages
<1>3. NoSelfInflictedTrap' /\ Loaded' /\ Sessions'
  BY <1>1 DEF IInv, TypeOK, NoSelfInflictedTrap, Loaded, Sessions, build_rustc_config,
     Stages, ExternalStages, MirStages
<1>4. Lowered'
  BY <1>1 DEF IInv, TypeOK, Lowered, Stages, ExternalStages, MirStages, MirRank,
     RunStages, VerifyStages, FrontStages
<1>5. HandedOut'
  BY <1>1 DEF IInv, TypeOK, HandedOut, Sessions, Stages, ExternalStages, MirStages
<1>6. Spoken'
  BY <1>1 DEF IInv, TypeOK, Spoken, Sessions, StdMissing, RunStages,
     Stages, ExternalStages, MirStages
<1> QED
  BY <1>2, <1>3, <1>4, <1>5, <1>6 DEF IInv

\* AST_PRE is the first section handed out.
LEMMA DumpAstPreKeeps == IInv /\ DumpAstPre => IInv'
<1> SUFFICES ASSUME IInv, DumpAstPre PROVE IInv'
  OBVIOUS
<1> USE DEF DumpAstPre, InCall, instVars, callVars, endVars, Emit
<1>1. pc = "AST_PRE" /\ pc' = "AST"
  BY DEF IInv, TypeOK, Lowered, Goto, After, Chain, Modes, RunStages, VerifyStages
<1>2. TypeOK'
  BY <1>1 DEF IInv, TypeOK, Stages, ExternalStages, MirStages
<1>3. NoSelfInflictedTrap' /\ Loaded' /\ Sessions'
  BY <1>1 DEF IInv, TypeOK, NoSelfInflictedTrap, Loaded, Sessions, build_rustc_config,
     Stages, ExternalStages, MirStages
<1>4. Lowered'
  BY <1>1 DEF IInv, TypeOK, Lowered, Stages, ExternalStages, MirStages, MirRank,
     RunStages, VerifyStages, FrontStages
<1>5. HandedOut'
  BY <1>1 DEF IInv, TypeOK, HandedOut, Sessions, Stages, ExternalStages, MirStages
<1>6. Spoken'
  BY <1>1 DEF IInv, TypeOK, Spoken, Sessions, StdMissing, RunStages,
     Stages, ExternalStages, MirStages
<1> QED
  BY <1>2, <1>3, <1>4, <1>5, <1>6 DEF IInv

\* The AST has not been stolen yet; a std prelude without libstd is diagnosed.
LEMMA DumpAstKeeps == IInv /\ DumpAst => IInv'
<1> SUFFICES ASSUME IInv, DumpAst PROVE IInv'
  OBVIOUS
<1> USE DEF DumpAst, InCall, instVars, callVars, endVars, Emit, Levels
<1>a. tree # "stolen"
  BY DEF IInv, Lowered
<1>b. errs' \in BOOLEAN
  BY <1>a, Zenon DEF IInv, TypeOK
<1>1. /\ pc = "AST" /\ pc' = "HIR" /\ tree' = "resolved"
      /\ UNCHANGED <<endVars, vstdKrate, mir, bodies>>
      /\ seen' \in {seen \union {"AST"}, seen \union {"AST", "diag"}}
      /\ StdMissing => "diag" \in seen'
  BY <1>a DEF IInv, TypeOK, Lowered, Goto, After, Chain, Modes, RunStages, VerifyStages
<1>2. TypeOK'
  BY <1>b, <1>1 DEF IInv, TypeOK, Stages, ExternalStages, MirStages
<1>3. NoSelfInflictedTrap' /\ Loaded' /\ Sessions'
  BY <1>1 DEF IInv, TypeOK, NoSelfInflictedTrap, Loaded, Sessions, build_rustc_config,
     Stages, ExternalStages, MirStages
<1>4. Lowered'
  BY <1>1 DEF IInv, TypeOK, Lowered, Stages, ExternalStages, MirStages, MirRank,
     RunStages, VerifyStages, FrontStages
<1>5. HandedOut'
  BY <1>1 DEF IInv, TypeOK, HandedOut, Sessions, Stages, ExternalStages, MirStages
<1>6. Spoken'
  BY <1>1 DEF IInv, TypeOK, Spoken, Sessions, StdMissing, RunStages,
     Stages, ExternalStages, MirStages
<1> QED
  BY <1>2, <1>3, <1>4, <1>5, <1>6 DEF IInv

\* HIR lowering steals the AST after its dump; then the modes part.
LEMMA DumpHirKeeps == IInv /\ DumpHir => IInv'
<1> SUFFICES ASSUME IInv, DumpHir PROVE IInv'
  OBVIOUS
<1> USE DEF DumpHir, InCall, instVars, callVars, endVars, Emit, Levels
<1>1. \/ pc = "HIR" /\ pc' = "HIR_TYPED"
      \/ pc = "HIR_TYPED" /\ mode = "verify" /\ pc' = "vstd_krate"
      \/ pc = "HIR_TYPED" /\ mode = "execute" /\ pc' = "MIR_BUILT"
  BY DEF IInv, TypeOK, Lowered, Goto, After, Chain, Modes, RunStages, VerifyStages
<1>2. TypeOK'
  BY <1>1 DEF IInv, TypeOK, Stages, ExternalStages, MirStages
<1>3. NoSelfInflictedTrap' /\ Loaded' /\ Sessions'
  BY <1>1 DEF IInv, TypeOK, NoSelfInflictedTrap, Loaded, Sessions, build_rustc_config,
     Stages, ExternalStages, MirStages
<1>4. Lowered'
  BY <1>1 DEF IInv, TypeOK, Lowered, Stages, ExternalStages, MirStages, MirRank,
     RunStages, VerifyStages, FrontStages
<1>5. HandedOut'
  BY <1>1 DEF IInv, TypeOK, HandedOut, Sessions, Stages, ExternalStages, MirStages
<1>6. Spoken'
  BY <1>1 DEF IInv, TypeOK, Spoken, Sessions, StdMissing, RunStages,
     Stages, ExternalStages, MirStages
<1> QED
  BY <1>2, <1>3, <1>4, <1>5, <1>6 DEF IInv

\* A failed deserialization ends verify with nothing made.
LEMMA VstdKrateKeeps == IInv /\ VstdKrate => IInv'
<1> SUFFICES ASSUME IInv, VstdKrate PROVE IInv'
  OBVIOUS
<1> USE DEF VstdKrate, InCall, instVars, callVars, endVars
<1>1. pc = "vstd_krate" /\ mode = "verify" /\ pc' \in {"construct_vir", "reset"} /\ vstdKrate' \in BOOLEAN
  BY DEF IInv, TypeOK, Lowered, Goto, After, Chain, Modes, RunStages, VerifyStages
<1>2. TypeOK'
  BY <1>1 DEF IInv, TypeOK, Stages, ExternalStages, MirStages
<1>3. NoSelfInflictedTrap' /\ Loaded' /\ Sessions'
  BY <1>1 DEF IInv, TypeOK, NoSelfInflictedTrap, Loaded, Sessions, build_rustc_config,
     Stages, ExternalStages, MirStages
<1>4. Lowered'
  BY <1>1 DEF IInv, TypeOK, Lowered, Stages, ExternalStages, MirStages, MirRank,
     RunStages, VerifyStages, FrontStages
<1>5. HandedOut'
  BY <1>1 DEF IInv, TypeOK, HandedOut, Sessions, Stages, ExternalStages, MirStages
<1>6. Spoken'
  BY <1>1 DEF IInv, TypeOK, Spoken, Sessions, StdMissing, RunStages,
     Stages, ExternalStages, MirStages
<1> QED
  BY <1>2, <1>3, <1>4, <1>5, <1>6 DEF IInv

\* An error of construct_vir_crate ends verify with nothing made.
LEMMA ConstructVirKeeps == IInv /\ ConstructVir => IInv'
<1> SUFFICES ASSUME IInv, ConstructVir PROVE IInv'
  OBVIOUS
<1> USE DEF ConstructVir, InCall, instVars, callVars, endVars, Emit, Levels
<1>b. errs' \in BOOLEAN
  BY Zenon DEF IInv, TypeOK
<1>1. /\ pc = "construct_vir" /\ mode = "verify" /\ pc' \in {"simplify", "reset"}
      /\ seen' \in {seen, seen \union {"diag"}}
  BY DEF IInv, TypeOK, Lowered, Goto, After, Chain, Modes, RunStages, VerifyStages
<1>2. TypeOK'
  BY <1>b, <1>1 DEF IInv, TypeOK, Stages, ExternalStages, MirStages
<1>3. NoSelfInflictedTrap' /\ Loaded' /\ Sessions'
  BY <1>1 DEF IInv, TypeOK, NoSelfInflictedTrap, Loaded, Sessions, build_rustc_config,
     Stages, ExternalStages, MirStages
<1>4. Lowered'
  BY <1>1 DEF IInv, TypeOK, Lowered, Stages, ExternalStages, MirStages, MirRank,
     RunStages, VerifyStages, FrontStages
<1>5. HandedOut'
  BY <1>1 DEF IInv, TypeOK, HandedOut, Sessions, Stages, ExternalStages, MirStages
<1>6. Spoken'
  BY <1>1 DEF IInv, TypeOK, Spoken, Sessions, StdMissing, RunStages,
     Stages, ExternalStages, MirStages
<1> QED
  BY <1>2, <1>3, <1>4, <1>5, <1>6 DEF IInv

\* An error of the later VIR passes ends verify with nothing made.
LEMMA SimplifyKeeps == IInv /\ Simplify => IInv'
<1> SUFFICES ASSUME IInv, Simplify PROVE IInv'
  OBVIOUS
<1> USE DEF Simplify, InCall, instVars, callVars, endVars
<1>1. pc = "simplify" /\ mode = "verify" /\ pc' \in {"VIR_RAW", "reset"}
  BY DEF IInv, TypeOK, Lowered, Goto, After, Chain, Modes, RunStages, VerifyStages
<1>2. TypeOK'
  BY <1>1 DEF IInv, TypeOK, Stages, ExternalStages, MirStages
<1>3. NoSelfInflictedTrap' /\ Loaded' /\ Sessions'
  BY <1>1 DEF IInv, TypeOK, NoSelfInflictedTrap, Loaded, Sessions, build_rustc_config,
     Stages, ExternalStages, MirStages
<1>4. Lowered'
  BY <1>1 DEF IInv, TypeOK, Lowered, Stages, ExternalStages, MirStages, MirRank,
     RunStages, VerifyStages, FrontStages
<1>5. HandedOut'
  BY <1>1 DEF IInv, TypeOK, HandedOut, Sessions, Stages, ExternalStages, MirStages
<1>6. Spoken'
  BY <1>1 DEF IInv, TypeOK, Spoken, Sessions, StdMissing, RunStages,
     Stages, ExternalStages, MirStages
<1> QED
  BY <1>2, <1>3, <1>4, <1>5, <1>6 DEF IInv

\* VIR_RAW is handed out before the modules are verified.
LEMMA DumpVirKeeps == IInv /\ DumpVir => IInv'
<1> SUFFICES ASSUME IInv, DumpVir PROVE IInv'
  OBVIOUS
<1> USE DEF DumpVir, InCall, instVars, callVars, endVars, Emit
<1>1. /\ mode = "verify"
      /\ \/ pc = "VIR_RAW" /\ pc' = "VIR_SIMPLE"
         \/ pc = "VIR_SIMPLE" /\ pc' = "modules"
  BY DEF IInv, TypeOK, Lowered, Goto, After, Chain, Modes, RunStages, VerifyStages
<1>2. TypeOK'
  BY <1>1 DEF IInv, TypeOK, Stages, ExternalStages, MirStages
<1>3. NoSelfInflictedTrap' /\ Loaded' /\ Sessions'
  BY <1>1 DEF IInv, TypeOK, NoSelfInflictedTrap, Loaded, Sessions, build_rustc_config,
     Stages, ExternalStages, MirStages
<1>4. Lowered'
  BY <1>1 DEF IInv, TypeOK, Lowered, Stages, ExternalStages, MirStages, MirRank,
     RunStages, VerifyStages, FrontStages
<1>5. HandedOut'
  BY <1>1 DEF IInv, TypeOK, HandedOut, Sessions, Stages, ExternalStages, MirStages
<1>6. Spoken'
  BY <1>1 DEF IInv, TypeOK, Spoken, Sessions, StdMissing, RunStages,
     Stages, ExternalStages, MirStages
<1> QED
  BY <1>2, <1>3, <1>4, <1>5, <1>6 DEF IInv

\* Verdicts come after VIR_RAW; bodies stay inside.
LEMMA VerifyModuleKeeps == IInv /\ VerifyModule => IInv'
<1> SUFFICES ASSUME IInv, VerifyModule PROVE IInv'
  OBVIOUS
<1> USE DEF VerifyModule, InCall, instVars, callVars, endVars, Emit, Levels, Bodies
<1>1. pc = "modules" /\ mode = "verify" /\ pc' = "modules"
  BY DEF IInv, TypeOK, Lowered, Goto, After, Chain, Modes, RunStages, VerifyStages
<1>2. TypeOK'
  BY <1>1 DEF IInv, TypeOK, Stages, ExternalStages, MirStages
<1>3. NoSelfInflictedTrap' /\ Loaded' /\ Sessions'
  BY <1>1 DEF IInv, TypeOK, NoSelfInflictedTrap, Loaded, Sessions, build_rustc_config,
     Stages, ExternalStages, MirStages
<1>4. Lowered'
  BY <1>1 DEF IInv, TypeOK, Lowered, Stages, ExternalStages, MirStages, MirRank,
     RunStages, VerifyStages, FrontStages
<1>5. HandedOut'
  BY <1>1 DEF IInv, TypeOK, HandedOut, Sessions, Stages, ExternalStages, MirStages
<1>6. Spoken'
  BY <1>1 DEF IInv, TypeOK, Spoken, Sessions, StdMissing, RunStages,
     Stages, ExternalStages, MirStages
<1> QED
  BY <1>2, <1>3, <1>4, <1>5, <1>6 DEF IInv

\* A failed module leads to the write as well.
LEMMA ModulesFailKeeps == IInv /\ ModulesFail => IInv'
<1> SUFFICES ASSUME IInv, ModulesFail PROVE IInv'
  OBVIOUS
<1> USE DEF ModulesFail, InCall, instVars, callVars, endVars, Emit
<1>1. pc = "modules" /\ mode = "verify" /\ pc' = "write"
  BY DEF IInv, TypeOK, Lowered, Goto, After, Chain, Modes, RunStages, VerifyStages
<1>2. TypeOK'
  BY <1>1 DEF IInv, TypeOK, Stages, ExternalStages, MirStages
<1>3. NoSelfInflictedTrap' /\ Loaded' /\ Sessions'
  BY <1>1 DEF IInv, TypeOK, NoSelfInflictedTrap, Loaded, Sessions, build_rustc_config,
     Stages, ExternalStages, MirStages
<1>4. Lowered'
  BY <1>1 DEF IInv, TypeOK, Lowered, Stages, ExternalStages, MirStages, MirRank,
     RunStages, VerifyStages, FrontStages
<1>5. HandedOut'
  BY <1>1 DEF IInv, TypeOK, HandedOut, Sessions, Stages, ExternalStages, MirStages
<1>6. Spoken'
  BY <1>1 DEF IInv, TypeOK, Spoken, Sessions, StdMissing, RunStages,
     Stages, ExternalStages, MirStages
<1> QED
  BY <1>2, <1>3, <1>4, <1>5, <1>6 DEF IInv

\* The write follows the last module.
LEMMA ModulesDoneKeeps == IInv /\ ModulesDone => IInv'
<1> SUFFICES ASSUME IInv, ModulesDone PROVE IInv'
  OBVIOUS
<1> USE DEF ModulesDone, InCall, instVars, callVars, endVars
<1>1. pc = "modules" /\ mode = "verify" /\ pc' = "write"
  BY DEF IInv, TypeOK, Lowered, Goto, After, Chain, Modes, RunStages, VerifyStages
<1>2. TypeOK'
  BY <1>1 DEF IInv, TypeOK, Stages, ExternalStages, MirStages
<1>3. NoSelfInflictedTrap' /\ Loaded' /\ Sessions'
  BY <1>1 DEF IInv, TypeOK, NoSelfInflictedTrap, Loaded, Sessions, build_rustc_config,
     Stages, ExternalStages, MirStages
<1>4. Lowered'
  BY <1>1 DEF IInv, TypeOK, Lowered, Stages, ExternalStages, MirStages, MirRank,
     RunStages, VerifyStages, FrontStages
<1>5. HandedOut'
  BY <1>1 DEF IInv, TypeOK, HandedOut, Sessions, Stages, ExternalStages, MirStages
<1>6. Spoken'
  BY <1>1 DEF IInv, TypeOK, Spoken, Sessions, StdMissing, RunStages,
     Stages, ExternalStages, MirStages
<1> QED
  BY <1>2, <1>3, <1>4, <1>5, <1>6 DEF IInv

\* Every body that was made is handed out.
LEMMA WriteKeeps == IInv /\ Write => IInv'
<1> SUFFICES ASSUME IInv, Write PROVE IInv'
  OBVIOUS
<1> USE DEF Write, InCall, instVars, callVars, endVars, Emit, Bodies
<1>1. pc = "write" /\ mode = "verify" /\ pc' = "reset"
  BY DEF IInv, TypeOK, Lowered, Goto, After, Chain, Modes, RunStages, VerifyStages
<1>2. TypeOK'
  BY <1>1 DEF IInv, TypeOK, Stages, ExternalStages, MirStages
<1>3. NoSelfInflictedTrap' /\ Loaded' /\ Sessions'
  BY <1>1 DEF IInv, TypeOK, NoSelfInflictedTrap, Loaded, Sessions, build_rustc_config,
     Stages, ExternalStages, MirStages
<1>4. Lowered'
  BY <1>1 DEF IInv, TypeOK, Lowered, Stages, ExternalStages, MirStages, MirRank,
     RunStages, VerifyStages, FrontStages
<1>5. HandedOut'
  BY <1>1 DEF IInv, TypeOK, HandedOut, Sessions, Stages, ExternalStages, MirStages
<1>6. Spoken'
  BY <1>1 DEF IInv, TypeOK, Spoken, Sessions, StdMissing, RunStages,
     Stages, ExternalStages, MirStages
<1> QED
  BY <1>2, <1>3, <1>4, <1>5, <1>6 DEF IInv

\* Each MIR stage is read before the next one steals it.
LEMMA DumpMirKeeps == IInv /\ DumpMir => IInv'
<1> SUFFICES ASSUME IInv, DumpMir PROVE IInv'
  OBVIOUS
<1> USE DEF DumpMir, InCall, instVars, callVars, endVars, Emit, Levels
<1>a. ~(mir > MirRank[pc])
  BY DEF IInv, TypeOK, Lowered, MirStages, MirRank
<1>b. errs' \in BOOLEAN
  BY <1>a, Zenon DEF IInv, TypeOK
<1>1. /\ mode = "execute" /\ UNCHANGED <<endVars, vstdKrate, tree, bodies>>
      /\ seen' \in {seen \union {pc}, seen \union {pc, "diag"}}
      /\ \/ pc = "MIR_BUILT" /\ pc' = "MIR_DROPS" /\ mir' = 1
         \/ pc = "MIR_DROPS" /\ pc' = "MIR_OPT" /\ mir' = 2
         \/ pc = "MIR_OPT" /\ pc' = "miri" /\ mir' = 3
  BY <1>a DEF IInv, TypeOK, Lowered, Goto, After, Chain, Modes, RunStages, VerifyStages, MirRank, MirStages
<1>2. TypeOK'
  BY <1>b, <1>1 DEF IInv, TypeOK, Stages, ExternalStages, MirStages
<1>3. NoSelfInflictedTrap' /\ Loaded' /\ Sessions'
  BY <1>1 DEF IInv, TypeOK, NoSelfInflictedTrap, Loaded, Sessions, build_rustc_config,
     Stages, ExternalStages, MirStages
<1>4. Lowered'
  BY <1>1 DEF IInv, TypeOK, Lowered, Stages, ExternalStages, MirStages, MirRank,
     RunStages, VerifyStages, FrontStages
<1>5. HandedOut'
  BY <1>1 DEF IInv, TypeOK, HandedOut, Sessions, Stages, ExternalStages, MirStages
<1>6. Spoken'
  BY <1>1 DEF IInv, TypeOK, Spoken, Sessions, StdMissing, RunStages,
     Stages, ExternalStages, MirStages
<1> QED
  BY <1>2, <1>3, <1>4, <1>5, <1>6 DEF IInv

\* Miri has its start item and entry function, and the run its exit line.
LEMMA MiriKeeps == IInv /\ Miri => IInv'
<1> SUFFICES ASSUME IInv, Miri PROVE IInv'
  OBVIOUS
<1> USE DEF Miri, InCall, instVars, callVars, endVars, Emit, Levels
<1>a. StartFn /\ EntryFn
  BY DEF IInv, MiriReady
<1>b. errs' \in BOOLEAN
  BY <1>a, Zenon DEF IInv, TypeOK
<1>1. /\ pc = "miri" /\ mode = "execute" /\ pc' = "reset"
      /\ UNCHANGED <<endVars, vstdKrate, tree, mir, bodies>>
      /\ seen' \in {seen \union {"output"}, seen \union {"output", "diag"}}
  BY <1>a DEF IInv, TypeOK, Lowered, Goto, After, Chain, Modes, RunStages, VerifyStages, MiriReady
<1>2. TypeOK'
  BY <1>b, <1>1 DEF IInv, TypeOK, Stages, ExternalStages, MirStages
<1>3. NoSelfInflictedTrap' /\ Loaded' /\ Sessions'
  BY <1>1 DEF IInv, TypeOK, NoSelfInflictedTrap, Loaded, Sessions, build_rustc_config,
     Stages, ExternalStages, MirStages
<1>4. Lowered'
  BY <1>1 DEF IInv, TypeOK, Lowered, Stages, ExternalStages, MirStages, MirRank,
     RunStages, VerifyStages, FrontStages
<1>5. HandedOut'
  BY <1>1 DEF IInv, TypeOK, HandedOut, Sessions, Stages, ExternalStages, MirStages
<1>6. Spoken'
  BY <1>1 DEF IInv, TypeOK, Spoken, Sessions, StdMissing, Loaded, StartFn, EntryFn,
     build_rustc_config, RunStages,
     Stages, ExternalStages, MirStages
<1> QED
  BY <1>2, <1>3, <1>4, <1>5, <1>6 DEF IInv

\* A missing libstd was diagnosed before, a missing main by now.
LEMMA SkipMiriKeeps == IInv /\ SkipMiri => IInv'
<1> SUFFICES ASSUME IInv, SkipMiri PROVE IInv'
  OBVIOUS
<1> USE DEF SkipMiri, MainNotFound, Programs, InCall, instVars, callVars, endVars, Emit, MiriReady
<1>1. pc = "miri" /\ mode = "execute" /\ pc' = "reset"
  BY DEF IInv, TypeOK, Lowered, Goto, After, Chain, Modes, RunStages, VerifyStages
<1>2. TypeOK'
  BY <1>1 DEF IInv, TypeOK, Stages, ExternalStages, MirStages
<1>3. NoSelfInflictedTrap' /\ Loaded' /\ Sessions'
  BY <1>1 DEF IInv, TypeOK, NoSelfInflictedTrap, Loaded, Sessions, build_rustc_config,
     Stages, ExternalStages, MirStages
<1>4. Lowered'
  BY <1>1 DEF IInv, TypeOK, Lowered, Stages, ExternalStages, MirStages, MirRank,
     RunStages, VerifyStages, FrontStages
<1>5. HandedOut'
  BY <1>1 DEF IInv, TypeOK, HandedOut, Sessions, Stages, ExternalStages, MirStages
<1>6. Spoken'
  BY <1>1 DEF IInv, TypeOK, Spoken, Sessions, StdMissing, Loaded, StartFn, EntryFn,
     build_rustc_config, RunStages,
     Stages, ExternalStages, MirStages
<1> QED
  BY <1>2, <1>3, <1>4, <1>5, <1>6 DEF IInv

\* The error count is cleared.
LEMMA ResetErrCountKeeps == IInv /\ ResetErrCount => IInv'
<1> SUFFICES ASSUME IInv, ResetErrCount PROVE IInv'
  OBVIOUS
<1> USE DEF ResetErrCount, InCall, instVars, callVars, endVars
<1>b. errs' \in BOOLEAN
  BY Zenon DEF IInv, TypeOK
<1>1. pc = "reset" /\ pc' = "leave"
  BY DEF IInv, TypeOK, Lowered, Goto, After, Chain, Modes, RunStages, VerifyStages
<1>2. TypeOK'
  BY <1>b, <1>1 DEF IInv, TypeOK, Stages, ExternalStages, MirStages
<1>3. NoSelfInflictedTrap' /\ Loaded' /\ Sessions'
  BY <1>1 DEF IInv, TypeOK, NoSelfInflictedTrap, Loaded, Sessions, build_rustc_config,
     Stages, ExternalStages, MirStages
<1>4. Lowered'
  BY <1>1 DEF IInv, TypeOK, Lowered, Stages, ExternalStages, MirStages, MirRank,
     RunStages, VerifyStages, FrontStages
<1>5. HandedOut'
  BY <1>1 DEF IInv, TypeOK, HandedOut, Sessions, Stages, ExternalStages, MirStages
<1>6. Spoken'
  BY <1>1 DEF IInv, TypeOK, Spoken, Sessions, StdMissing, RunStages,
     Stages, ExternalStages, MirStages
<1> QED
  BY <1>2, <1>3, <1>4, <1>5, <1>6 DEF IInv

\* The error count is zero, so the call returns.
LEMMA LeaveKeeps == IInv /\ Leave => IInv'
<1> SUFFICES ASSUME IInv, Leave PROVE IInv'
  OBVIOUS
<1> USE DEF Leave, InCall, instVars, callVars, endVars
<1>a. ~errs
  BY DEF IInv, Lowered
<1>b. errs' \in BOOLEAN /\ globals' \in BOOLEAN
  BY <1>a, Zenon DEF IInv, TypeOK, Goto
<1>1. pc = "leave" /\ pc' = "idle" /\ ended' = "returned" /\ globals' = FALSE /\ UNCHANGED <<fault, tree, mir, bodies, vstdKrate>>
  BY <1>a DEF IInv, TypeOK, Lowered, Goto, After, Chain, Modes, RunStages, VerifyStages, Trap
<1>2. TypeOK'
  BY <1>b, <1>1 DEF IInv, TypeOK, Stages, ExternalStages, MirStages
<1>3. NoSelfInflictedTrap' /\ Loaded' /\ Sessions'
  BY <1>1 DEF IInv, TypeOK, NoSelfInflictedTrap, Loaded, Sessions, build_rustc_config,
     Stages, ExternalStages, MirStages
<1>4. Lowered'
  BY <1>1 DEF IInv, TypeOK, Lowered, Stages, ExternalStages, MirStages, MirRank,
     RunStages, VerifyStages, FrontStages
<1>5. HandedOut'
  BY <1>1 DEF IInv, TypeOK, HandedOut, Sessions, Stages, ExternalStages, MirStages
<1>6. Spoken'
  BY <1>1 DEF IInv, TypeOK, Spoken, Sessions, StdMissing, RunStages,
     Stages, ExternalStages, MirStages
<1> QED
  BY <1>2, <1>3, <1>4, <1>5, <1>6 DEF IInv

\* A panic leaves everything as it is, the session included.
LEMMA PanicKeeps == IInv /\ Panic => IInv'
<1> SUFFICES ASSUME IInv, Panic PROVE IInv'
  OBVIOUS
<1> USE DEF Panic, InCall, instVars, callVars, endVars, Emit, Trap
<1>1. pc \in ExternalStages /\ pc' = "idle"
  BY DEF IInv, TypeOK, Lowered, Goto, After, Chain, Modes, RunStages, VerifyStages, Trap
<1>2. TypeOK'
  BY <1>1 DEF IInv, TypeOK, Stages, ExternalStages, MirStages
<1>3. NoSelfInflictedTrap' /\ Loaded' /\ Sessions'
  BY <1>1 DEF IInv, TypeOK, NoSelfInflictedTrap, Loaded, Sessions, build_rustc_config,
     Stages, ExternalStages, MirStages
<1>4. Lowered'
  BY <1>1 DEF IInv, TypeOK, Lowered, Stages, ExternalStages, MirStages, MirRank,
     RunStages, VerifyStages, FrontStages
<1>5. HandedOut'
  BY <1>1 DEF IInv, TypeOK, HandedOut, Sessions, Stages, ExternalStages, MirStages
<1>6. Spoken'
  BY <1>1 DEF IInv, TypeOK, Spoken, Sessions, StdMissing, RunStages,
     Stages, ExternalStages, MirStages
<1> QED
  BY <1>2, <1>3, <1>4, <1>5, <1>6 DEF IInv

\* The loader fills the bundle of the page's variant and sets the mode for it.
LEMMA BootKeeps == IInv /\ Boot => IInv'
<1> SUFFICES ASSUME IInv, Boot PROVE IInv'
  OBVIOUS
<1> USE DEF Boot, instVars, callVars, endVars
<1>1. TypeOK'
  BY DEF IInv, TypeOK, LibsOf
<1>2. NoSelfInflictedTrap' /\ Loaded' /\ Sessions'
  BY DEF IInv, NoSelfInflictedTrap, Loaded, Sessions, Stages, ExternalStages, MirStages
<1>3. Lowered' /\ HandedOut' /\ Spoken'
  BY DEF IInv, Sessions, Lowered, HandedOut, Spoken, Stages, ExternalStages, MirStages,
     RunStages, VerifyStages, FrontStages
<1> QED
  BY <1>1, <1>2, <1>3 DEF IInv

\* A call starts afresh, or traps on entry when an earlier one has trapped.
LEMMA EnterKeeps == ASSUME IInv, NEW m \in Modes, Enter(m) PROVE IInv'
<1> USE DEF Enter, instVars, callVars, endVars
<1>a. /\ errs' \in BOOLEAN /\ globals' \in BOOLEAN /\ poisoned' \in BOOLEAN
      /\ entry' \in Programs /\ vstdKrate' \in BOOLEAN
  BY Zenon DEF IInv, TypeOK
<1>b. config' \in [bin : BOOLEAN, ghost : BOOLEAN, std : BOOLEAN]
  BY DEF IInv, TypeOK, build_rustc_config
<1>c. pc' \in {"parse", "idle"} /\ ended' \in {"none", "trapped"} /\ calls' \in 0..MaxCalls
  BY MaxCallsAssumption DEF IInv, TypeOK, Goto
<1>1. TypeOK'
  BY <1>a, <1>b, <1>c DEF IInv, TypeOK, Stages, ExternalStages, MirStages
<1>2. NoSelfInflictedTrap' /\ Loaded'
  BY <1>c DEF IInv, NoSelfInflictedTrap, Loaded, Stages, ExternalStages, MirStages, build_rustc_config
<1>3. Sessions'
  BY DEF IInv, TypeOK, Sessions, Goto, Stages, ExternalStages, MirStages
<1>4. Lowered' /\ HandedOut' /\ Spoken'
  BY <1>c DEF Lowered, HandedOut, Spoken, Stages, ExternalStages, MirStages,
     RunStages, VerifyStages, FrontStages
<1> QED
  BY <1>1, <1>2, <1>3, <1>4 DEF IInv

\* IInv is inductive.
LEMMA NextIInv == IInv /\ [Next]_vars => IInv'
<1> SUFFICES ASSUME IInv, [Next]_vars PROVE IInv'
  OBVIOUS
<1>1. CASE Next
  BY <1>1, BootKeeps, EnterKeeps, ParseKeeps, DumpAstPreKeeps, DumpAstKeeps, DumpHirKeeps,
     VstdKrateKeeps, ConstructVirKeeps, SimplifyKeeps, DumpVirKeeps, VerifyModuleKeeps,
     ModulesFailKeeps, ModulesDoneKeeps, WriteKeeps, DumpMirKeeps, MiriKeeps, SkipMiriKeeps,
     ResetErrCountKeeps, LeaveKeeps, PanicKeeps DEF Next
<1>2. CASE UNCHANGED vars
  BY <1>2 DEF vars, instVars, callVars, endVars, IInv, TypeOK, NoSelfInflictedTrap, Loaded, Sessions,
     Lowered, HandedOut, Spoken, StdMissing, build_rustc_config
<1> QED
  BY <1>1, <1>2

\* IInv holds in every reachable state.
LEMMA Invariance == Spec => []IInv
BY InitIInv, NextIInv, PTL DEF Spec

\* The prefixes of the streamed sections, spelled out.
LEMMA PrefixesAre ==
  /\ Prefixes("verify") = {{}, {"AST_PRE"}, {"AST_PRE", "VIR_RAW"}}
  /\ Prefixes("execute") = {{}, {"AST_PRE"}, {"AST_PRE", "MIR_BUILT"}}
<1>1. 0..2 = {0, 1, 2} /\ 1..0 = {} /\ 1..1 = {1} /\ 1..2 = {1, 2}
  OBVIOUS
<1>2. Prefixes("verify") = {{}, {"AST_PRE"}, {"AST_PRE", "VIR_RAW"}}
  <2>1. Len(Streamed["verify"]) = 2 /\ Streamed["verify"][1] = "AST_PRE" /\ Streamed["verify"][2] = "VIR_RAW"
    BY DEF Streamed
  <2>2. /\ {Streamed["verify"][i] : i \in 1..0} = {}
        /\ {Streamed["verify"][i] : i \in 1..1} = {"AST_PRE"}
        /\ {Streamed["verify"][i] : i \in 1..2} = {"AST_PRE", "VIR_RAW"}
    BY <1>1, <2>1
  <2> QED
    BY <1>1, <2>1, <2>2 DEF Prefixes
<1>3. Prefixes("execute") = {{}, {"AST_PRE"}, {"AST_PRE", "MIR_BUILT"}}
  <2>1. Len(Streamed["execute"]) = 2 /\ Streamed["execute"][1] = "AST_PRE" /\ Streamed["execute"][2] = "MIR_BUILT"
    BY DEF Streamed
  <2>2. /\ {Streamed["execute"][i] : i \in 1..0} = {}
        /\ {Streamed["execute"][i] : i \in 1..1} = {"AST_PRE"}
        /\ {Streamed["execute"][i] : i \in 1..2} = {"AST_PRE", "MIR_BUILT"}
    BY <1>1, <2>1
  <2> QED
    BY <1>1, <2>1, <2>2 DEF Prefixes
<1> QED
  BY <1>2, <1>3

\* From IInv: what was handed out is a prefix of the streamed sections, with the
\* rest only once they are all there.
LEMMA ShownIsWritten == IInv => Shown \in Written[mode]
<1> SUFFICES ASSUME IInv PROVE Shown \in Written[mode]
  OBVIOUS
<1>0. mode \in Modes
  BY DEF IInv, TypeOK
<1>1. CASE mode = "verify"
  <2>1. AfterAll(mode) = {"SST_AST", "SMT_TRANSCRIPT", "verdict"}
    BY <1>1 DEF AfterAll, Late, Results
  <2>2. {Streamed[mode][i] : i \in 1..Len(Streamed[mode])} = {"AST_PRE", "VIR_RAW"}
    BY <1>1 DEF Streamed
  <2>3. Shown \ (AfterAll(mode) \union {"diag"}) \in Prefixes(mode)
    BY <1>1, <2>1, PrefixesAre DEF IInv, HandedOut, Shown, Kinds, Sections
  <2>4. Shown \in SUBSET Kinds
    BY DEF Shown
  <2>5. Shown \intersect AfterAll(mode) # {} => {"AST_PRE", "VIR_RAW"} \subseteq Shown
    BY <2>1 DEF IInv, HandedOut, Shown, Kinds, Sections
  <2>6. Shown \intersect AfterAll(mode) # {} =>
          {Streamed[mode][i] : i \in 1..Len(Streamed[mode])} \subseteq Shown
    BY <2>2, <2>5
  <2> QED
    BY <1>0, <2>3, <2>4, <2>6 DEF Written
<1>2. CASE mode = "execute"
  <2>1. AfterAll(mode) = {"output"}
    BY <1>2 DEF AfterAll, Late, Results
  <2>2. {Streamed[mode][i] : i \in 1..Len(Streamed[mode])} = {"AST_PRE", "MIR_BUILT"}
    BY <1>2 DEF Streamed
  <2>3. Shown \ (AfterAll(mode) \union {"diag"}) \in Prefixes(mode)
    BY <1>2, <2>1, PrefixesAre DEF IInv, HandedOut, Shown, Kinds, Sections
  <2>4. Shown \in SUBSET Kinds
    BY DEF Shown
  <2>5. Shown \intersect AfterAll(mode) # {} => {"AST_PRE", "MIR_BUILT"} \subseteq Shown
    BY <2>1 DEF IInv, HandedOut, Shown, Kinds, Sections
  <2>6. Shown \intersect AfterAll(mode) # {} =>
          {Streamed[mode][i] : i \in 1..Len(Streamed[mode])} \subseteq Shown
    BY <2>2, <2>5
  <2> QED
    BY <1>0, <2>3, <2>4, <2>6 DEF Written
<1> QED
  BY <1>1, <1>2 DEF IInv, TypeOK, Modes

----------------------------------------------------------------------------
(* The theorems.                                                           *)

\* The variables of the pipeline keep their types.
THEOREM TypeCorrect == Spec => []TypeOK
BY Invariance, PTL DEF IInv

\* At every moment of any sequence of calls, traps included, the page holds what
\* WasmCall, and so RunLoop, says a call can have written.
THEOREM CallsKeepTheContract == Spec => []ContractKept
<1>1. IInv => ContractKept
  <2> SUFFICES ASSUME IInv PROVE ContractKept
    OBVIOUS
  <2>0. mode \in Modes
    BY DEF IInv, TypeOK
  <2>1. poisoned => Shown = {}
    BY DEF IInv, Sessions, Shown
  <2>2. ended = "returned" => ~poisoned
    BY DEF IInv, Sessions
  <2>3. ended = "returned" => "AST_PRE" \in Shown /\ (mode = "execute" => "MIR_BUILT" \in Shown)
    BY DEF IInv, HandedOut, Shown, Kinds, Sections
  <2> QED
    BY ShownIsWritten, <2>0, <2>1, <2>2, <2>3 DEF ContractKept, Complete
<1> QED
  BY <1>1, Invariance, PTL

\* The stages of verify and run never bring about a panic by themselves.
THEOREM TrapsAreExternal == Spec => []NoSelfInflictedTrap
BY Invariance, PTL DEF IInv

\* A call that returns has written every body it made, after a failure too.
THEOREM NothingMadeIsLost == Spec => []KeepsWhatWasMade
<1>1. IInv => KeepsWhatWasMade
  BY DEF IInv, HandedOut, KeepsWhatWasMade
<1> QED
  BY <1>1, Invariance, PTL

\* A run returns without output or diagnostic only for a program that is #![no_main].
THEOREM RunsAreNotSilent == Spec => []RunAlwaysSpeaks
<1>1. IInv => RunAlwaysSpeaks
  BY DEF IInv, Spoken, RunAlwaysSpeaks
<1> QED
  BY <1>1, Invariance, PTL

\* rustc is told of a libstd exactly when the page has loaded one.
THEOREM ConfigMatchesPage == Spec => []PreludeMatchesBundle
<1>1. IInv => PreludeMatchesBundle
  BY DEF IInv, TypeOK, Loaded, PreludeMatchesBundle, LibsOf, build_rustc_config, Modes, Stages,
     ExternalStages, MirStages
<1> QED
  BY <1>1, Invariance, PTL

=============================================================================
