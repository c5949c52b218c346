---------------------------- MODULE QueryDriver ----------------------------
(* Stage 4 of `verify` (verus-explorer/src/verus.rs): the walk over the    *)
(* crate's own modules, and for each of them run_queries -- the AIR        *)
(* prelude, the ops of every function, and handle_op's probing for all the *)
(* failing asserts of a query -- with the section markers it writes into   *)
(* the logs and the verdicts and diagnostics it streams out.               *)
(*                                                                         *)
(* The logs are AIR's own three.  Whether the SMT log gets every marker is *)
(* up to AIR's emitter, and the repository says both: at once              *)
(* (verus.rs:347-352), or not the ones after the last check-sat            *)
(* (tests/smoke.rs:226-230).                                               *)
(*                                                                         *)
(* The op generator and AIR with its solver are not in the repository; how *)
(* they answer is a choice, limited by what the comments here rely on.     *)
(* Style::Expanded ops are left out: they come from an armed expand-errors *)
(* driver, and no line of the repository arms it (verus.rs:714, 921 and    *)
(* the collected default_prover_failed_assert_ids therefore have no say).  *)
EXTENDS Integers, Sequences, FiniteSets

CONSTANTS Crates,       \* external crates that own some of the ops
          Local,        \* "no crate": the user's own ops
          MaxLabel,     \* the asserts of a query are 1..MaxLabel, in order
          ProbeBudget,  \* checks_remaining at the start (8 in the code)
          MaxModules,   \* bounds: the crate's own modules,
          MaxFunctions, \* the functions of a module,
          MaxOps,       \* the scheduled ops of a function, and of a retry,
          MaxChecks     \* the check-sats of a query op

ASSUME CratesAssumption == Local \notin Crates
ASSUME BoundsAssumption ==
  /\ MaxLabel \in Nat /\ ProbeBudget \in Nat \ {0}
  /\ MaxModules \in Nat /\ MaxFunctions \in Nat
  /\ MaxOps \in Nat /\ MaxChecks \in Nat

VARIABLES
  pc,          \* where the driver is
  modulesLeft, \* modules of the crate still to verify
  functionsLeft, \* functions the module's generator still yields
  opsLeft,     \* scheduled ops the function's generator still yields
  retries,     \* recommends ops queued in the function's generator
  stack,       \* sections open in the AIR logs
  bodyStack,   \* sections open in what was drained into VerifyOutput's AIR bodies
  undrained,   \* what was begun in the logs since they were last drained
  lost,        \* (history) what was dropped with its AIR context before a drain
  wrapper,     \* wrapper_krate
  op,          \* the op being handled
  checksLeft,  \* check-sats of the op still to feed
  cmds,        \* the hint and the prover that come with the current query
  bad,         \* the asserts that fail in the current query
  enabled,     \* asserts AIR still checks in the current query
  result,      \* result
  remaining,   \* checks_remaining
  onlyEarlier, \* only_check_earlier
  first,       \* is_first_check
  anyInvalid,  \* any_invalid
  airState,    \* what AIR may be asked next
  tally,       \* what this check has shown the user
  outcome      \* of verify_simplified_krate, and what it reported

genVars   == <<modulesLeft, functionsLeft, opsLeft, retries>>
logVars   == <<stack, bodyStack, undrained, lost, wrapper>>
queryVars == <<cmds, bad, enabled, result, remaining, onlyEarlier, first, tally>>
opVars    == <<op, checksLeft, anyInvalid>>
vars == <<pc, genVars, logVars, opVars, queryVars, airState, outcome>>

Labels == 1..MaxLabel
NoLabel == 0

\* The QueryOps, and OpKind::Context.
ErrorKinds == {"Normal", "SpecTermination", "CheckApiSafety"}
QueryKinds == ErrorKinds \union {"RecommendsFollowupFromError", "RecommendsChecked"}
OpKinds    == QueryKinds \union {"Context"}
Ops  == [krate : Crates \union {Local}, kind : OpKinds]
NoOp == [krate |-> Local, kind |-> "Context"]

\* Of the CommandsWithContext: hint_upon_failure.
Cmds   == [hint : BOOLEAN]
NoCmds == [hint |-> FALSE]

\* MessageLevel of a query op (verus.rs:771-778).
Level(kind) ==
  IF kind \in ErrorKinds THEN "Error"
  ELSE IF kind = "RecommendsChecked" THEN "Warning" ELSE "Note"

\* ValidityResult: Valid, or Invalid with or without a model and an error message
\* (here: the assert it is about).  Canceled also stands for TypeError and
\* UnexpectedOutput: all three are failures without a message to report.
Valid    == [tag |-> "Valid", model |-> FALSE, err |-> NoLabel]
Canceled == [tag |-> "Canceled", model |-> FALSE, err |-> NoLabel]
Invalids(failing) ==
  [tag : {"Invalid"}, model : BOOLEAN, err : failing \union {NoLabel}]

\* What the solver can say while `live` asserts are enabled, `bad` ones among
\* them failing: it finds one of those, gives up, or runs out of resources.
Answers(live) ==
  {Canceled} \union
  (IF live \intersect bad = {} THEN {Valid} ELSE Invalids(live \intersect bad))

NothingYet ==
  [done |-> FALSE, failed |-> 0, proved |-> 0, hints |-> 0, reported |-> {}]

----------------------------------------------------------------------------

Init ==
  /\ pc = "modules"
  /\ modulesLeft \in 1..MaxModules /\ functionsLeft = 0 /\ opsLeft = 0 /\ retries = 0
  /\ stack = <<>> /\ bodyStack = <<>> /\ wrapper = Local
  /\ undrained = {} /\ lost = {}
  /\ op = NoOp /\ checksLeft = 0 /\ anyInvalid = FALSE
  /\ cmds = NoCmds /\ bad = {} /\ enabled = {} /\ result = Valid
  /\ remaining = ProbeBudget /\ onlyEarlier = FALSE /\ first = TRUE
  /\ tally = NothingYet
  /\ airState = "none"
  /\ outcome = [ended |-> FALSE, failed |-> FALSE, reports |-> 0]

----------------------------------------------------------------------------
(* Sections                                                                *)

Open(s, name) == Append(s, name)
Close(s)      == SubSeq(s, 1, Len(s) - 1)

\* drain_to: everything written so far moves to the output bodies.
Drain ==
  /\ bodyStack' = stack'
  /\ undrained' = {}
  /\ UNCHANGED lost

\* The logs go away with the AIR context, and what was not drained with them.
DropLogs ==
  /\ lost' = lost \union undrained
  /\ undrained' = {}
  /\ UNCHANGED bodyStack

----------------------------------------------------------------------------
(* verify_simplified_krate and verify_module                               *)

\* An error anywhere below is reported once and ends the walk.
Fail ==
  /\ pc' = "end"
  /\ outcome' = [ended |-> TRUE, failed |-> TRUE, reports |-> outcome.reports + 1]

\* Pruning, Ctx::new and the lowering to SST, before there is an AIR context.
ModuleFails ==
  /\ pc = "modules" /\ modulesLeft > 0
  /\ Fail
  /\ UNCHANGED <<genVars, logVars, opVars, queryVars, airState>>

\* A fresh AIR context with fresh logs; the prelude opens its own section.
StartModule ==
  /\ pc = "modules" /\ modulesLeft > 0
  /\ modulesLeft' = modulesLeft - 1
  /\ functionsLeft' \in 0..MaxFunctions
  /\ stack' = Open(<<>>, "AIR prelude") /\ undrained' = {"AIR prelude"}
  /\ airState' = "ready"
  /\ pc' = "decls"
  /\ UNCHANGED <<opsLeft, retries, bodyStack, lost, wrapper, opVars, queryVars, outcome>>

AllModulesDone ==
  /\ pc = "modules" /\ modulesLeft = 0
  /\ pc' = "end"
  /\ outcome' = [outcome EXCEPT !.ended = TRUE]
  /\ UNCHANGED <<genVars, logVars, opVars, queryVars, airState>>

\* feed_module_decls fails: the `?` leaves run_queries before any drain.
DeclsFail ==
  /\ pc = "decls"
  /\ stack' = <<>> /\ DropLogs
  /\ airState' = "none"
  /\ Fail
  /\ UNCHANGED <<genVars, wrapper, opVars, queryVars>>

DeclsFed ==
  /\ pc = "decls"
  /\ stack' = Close(stack)
  /\ Drain
  /\ wrapper' = Local
  /\ pc' = "functions"
  /\ UNCHANGED <<genVars, opVars, queryVars, airState, outcome>>

----------------------------------------------------------------------------
(* run_queries                                                             *)

CloseWrapper == IF wrapper # Local THEN Close(stack) ELSE stack

\* Mutant: no drain after the loop.
LeaveQueriesUndrained(sections) ==
  /\ stack' = sections
  /\ DropLogs
  /\ wrapper' = Local
  /\ airState' = "none"

\* The loop is over, with or without an error: the wrapper is closed, the logs
\* are drained for the last time and the AIR context is dropped.
LeaveQueries(sections) ==
  /\ stack' = sections
  /\ Drain
  /\ wrapper' = Local
  /\ airState' = "none"

NextFunction ==
  /\ pc = "functions" /\ functionsLeft > 0
  /\ functionsLeft' = functionsLeft - 1
  /\ opsLeft' \in 0..MaxOps
  /\ retries' = 0
  /\ pc' = "ops"
  /\ UNCHANGED <<modulesLeft, logVars, opVars, queryVars, airState, outcome>>

NoMoreFunctions ==
  /\ pc = "functions" /\ functionsLeft = 0
  /\ LeaveQueries(CloseWrapper)
  /\ pc' = "modules"
  /\ UNCHANGED <<genVars, opVars, queryVars, outcome>>

\* opgen.next() is an Err.
GeneratorFails ==
  /\ pc = "functions"
  /\ LeaveQueries(CloseWrapper)
  /\ Fail
  /\ UNCHANGED <<genVars, opVars, queryVars>>

\* The function's generator is exhausted, queued retries included.
NoMoreOps ==
  /\ pc = "ops" /\ opsLeft = 0 /\ retries = 0
  /\ pc' = "functions"
  /\ UNCHANGED <<genVars, logVars, opVars, queryVars, airState, outcome>>

\* Mutant: going back to a local op leaves the crate's wrapper open.
RotateWrapperLazily(krate) ==
  IF wrapper = krate \/ krate = Local THEN stack ELSE Open(CloseWrapper, krate)

\* The wrapper section follows the crate of the op, then the op's own section
\* is opened.
RotateWrapper(krate) ==
  IF wrapper = krate THEN stack
  ELSE IF krate = Local THEN CloseWrapper ELSE Open(CloseWrapper, krate)

\* A recommends follow-up answers an earlier failure; every other op is one of
\* the schedule.
Yielded(o) ==
  IF o.kind = "RecommendsFollowupFromError"
  THEN retries > 0 /\ retries' = retries - 1 /\ UNCHANGED opsLeft
  ELSE opsLeft > 0 /\ opsLeft' = opsLeft - 1 /\ UNCHANGED retries

OpenOp ==
  /\ pc = "ops"
  /\ \E o \in Ops :
       /\ Yielded(o)
       /\ op' = o
       /\ stack' = Open(RotateWrapper(o.krate), "op")
       /\ undrained' = undrained \union {"op"}
       /\ wrapper' = o.krate
       /\ checksLeft' \in (IF o.kind = "Context" THEN {0} ELSE 0..MaxChecks)
  /\ anyInvalid' = FALSE
  /\ tally' = NothingYet
  /\ pc' = "op"
  /\ UNCHANGED <<modulesLeft, functionsLeft, bodyStack, lost, cmds, bad, enabled, result,
                 remaining, onlyEarlier, first, airState, outcome>>

----------------------------------------------------------------------------
(* handle_op                                                               *)

\* feeder.feed of a CheckValid: AIR asserts all of the query's labels.
CheckValid ==
  /\ pc = "op" /\ checksLeft > 0
  /\ checksLeft' = checksLeft - 1
  /\ cmds' \in Cmds
  /\ bad' \in SUBSET Labels
  /\ enabled' = Labels
  /\ result' \in {Canceled} \union (IF bad' = {} THEN {Valid} ELSE Invalids(bad'))
  /\ remaining' = ProbeBudget /\ onlyEarlier' = FALSE /\ first' = TRUE
  /\ tally' = NothingYet
  /\ airState' = IF airState = "ready" THEN "answered" ELSE "panic"
  /\ pc' = "probe"
  /\ UNCHANGED <<genVars, logVars, op, anyInvalid, outcome>>

Proved == result.tag = "Valid"
Reports == result.tag = "Invalid" /\ result.err # NoLabel

\* Mutant: a verdict for every answer, the proof that ends the probing included.
VerdictAlways == Level(op.kind) = "Error"

\* A verdict for the first answer of an Error-level op and for any later answer
\* that is not a proof; none for the recommends side channel.
Verdict == Level(op.kind) = "Error" /\ (first \/ ~Proved)

\* Mutant: any failure is probed again.
CanProbeAnyInvalid == result.tag = "Invalid"

\* check_valid_again has a model and a message to go on from.
CanProbe == result.tag = "Invalid" /\ result.model /\ result.err # NoLabel

\* Mutant: the hint follows every failure, not only the first.
TellHintAgain ==
  tally' = [done     |-> ~CanProbe,
            failed   |-> tally.failed + (IF Verdict /\ ~Proved THEN 1 ELSE 0),
            proved   |-> tally.proved + (IF Verdict /\ Proved THEN 1 ELSE 0),
            hints    |-> tally.hints + (IF Reports /\ cmds.hint THEN 1 ELSE 0),
            reported |-> IF Reports THEN tally.reported \union {result.err}
                         ELSE tally.reported]

\* What one turn of the probing loop shows before it decides to go on.
Tell ==
  tally' = [done     |-> ~CanProbe,
            failed   |-> tally.failed + (IF Verdict /\ ~Proved THEN 1 ELSE 0),
            proved   |-> tally.proved + (IF Verdict /\ Proved THEN 1 ELSE 0),
            hints    |-> tally.hints + (IF Reports /\ first /\ cmds.hint THEN 1 ELSE 0),
            reported |-> IF Reports THEN tally.reported \union {result.err}
                         ELSE tally.reported]

\* AIR gives up the assert that failed and, asked for earlier errors only, all
\* those behind it.
StillEnabled(earlier) ==
  IF earlier THEN {l \in enabled : l < result.err} ELSE enabled \ {result.err}

\* Mutants: every probe is paid for, flag or no flag; the flag flips one probe
\* late; the flag flips one probe early.
SpendProbeAlways ==
  remaining' = remaining - 1 /\ onlyEarlier' = (onlyEarlier \/ remaining' = 0)
SpendProbeLate ==
  IF remaining = 0 THEN onlyEarlier' = TRUE /\ UNCHANGED remaining
  ELSE remaining' = remaining - 1 /\ UNCHANGED onlyEarlier
SpendProbeEarly ==
  IF onlyEarlier THEN UNCHANGED <<remaining, onlyEarlier>>
  ELSE /\ remaining' = remaining - 1
       /\ onlyEarlier' = (remaining' <= 1)

\* checks_remaining and only_check_earlier before the next probe.
SpendProbe ==
  IF onlyEarlier THEN UNCHANGED <<remaining, onlyEarlier>>
  ELSE /\ remaining' = remaining - 1
       /\ onlyEarlier' = (remaining' = 0)

Observe ==
  /\ Tell
  /\ anyInvalid' = (anyInvalid \/ ~Proved)

ProbeAgain ==
  /\ pc = "probe" /\ CanProbe
  /\ Observe
  /\ SpendProbe
  /\ first' = FALSE
  /\ enabled' = StillEnabled(onlyEarlier')
  /\ result' \in Answers(enabled')
  /\ airState' = IF result.model /\ result.err # NoLabel THEN airState ELSE "panic"
  /\ UNCHANGED <<pc, genVars, logVars, op, checksLeft, cmds, bad, outcome>>

\* The loop ends on any other answer; finish_query makes AIR ready again.
ProbeEnds ==
  /\ pc = "probe" /\ ~CanProbe
  /\ Observe
  /\ airState' = "ready"
  /\ pc' = "op"
  /\ UNCHANGED <<genVars, logVars, op, checksLeft, cmds, bad, enabled, result, remaining,
                 onlyEarlier, first, outcome>>

\* Mutant: a failed follow-up is itself followed up.
RetryableAny == anyInvalid

Retryable == anyInvalid /\ op.kind \in {"Normal", "SpecTermination"}

\* The op is done: a failed body queues its recommends retry, and run_queries
\* closes the op's section.
CloseOp ==
  /\ pc = "op" /\ checksLeft = 0
  /\ \E queued \in (IF Retryable THEN 0..MaxOps ELSE {0}) : retries' = retries + queued
  /\ stack' = Close(stack)
  /\ pc' = "ops"
  /\ UNCHANGED <<modulesLeft, functionsLeft, opsLeft, bodyStack, undrained, lost, wrapper,
                 opVars, queryVars, airState, outcome>>

\* Mutant: the `?` comes before the op's section is closed.
RetryFailsLeaks ==
  /\ pc = "op" /\ checksLeft = 0 /\ Retryable
  /\ LeaveQueries(CloseWrapper)
  /\ Fail
  /\ UNCHANGED <<genVars, opVars, queryVars>>

\* retry_with_recommends is an Err: the op's section is closed before the `?`.
RetryFails ==
  /\ pc = "op" /\ checksLeft = 0 /\ Retryable
  /\ LeaveQueries(IF wrapper # Local THEN Close(Close(stack)) ELSE Close(stack))
  /\ Fail
  /\ UNCHANGED <<genVars, opVars, queryVars>>

----------------------------------------------------------------------------

Next ==
  \/ ModuleFails \/ StartModule \/ AllModulesDone \/ DeclsFail \/ DeclsFed
  \/ NextFunction \/ NoMoreFunctions \/ GeneratorFails \/ NoMoreOps
  \/ OpenOp \/ CheckValid \/ ProbeAgain \/ ProbeEnds \/ CloseOp \/ RetryFails

Spec     == Init /\ [][Next]_vars
FairSpec == Spec /\ WF_vars(Next)

----------------------------------------------------------------------------
(* Properties                                                              *)

Results == {Valid, Canceled} \union Invalids(Labels)

LogTypes ==
  /\ stack \in Seq({"AIR prelude", "op"} \union Crates)
  /\ bodyStack \in Seq({"AIR prelude", "op"} \union Crates)
  /\ undrained \subseteq {"AIR prelude", "op"} /\ lost \subseteq {"AIR prelude", "op"}
DriverTypes ==
  /\ pc \in {"modules", "decls", "functions", "ops", "op", "probe", "end"}
  /\ modulesLeft \in 0..MaxModules /\ functionsLeft \in 0..MaxFunctions
  /\ opsLeft \in 0..MaxOps /\ retries \in Nat
  /\ wrapper \in Crates \union {Local}
  /\ op \in Ops /\ cmds \in Cmds /\ checksLeft \in 0..MaxChecks
  /\ anyInvalid \in BOOLEAN
  /\ bad \subseteq Labels /\ enabled \subseteq Labels /\ result \in Results
  /\ remaining \in 0..ProbeBudget /\ onlyEarlier \in BOOLEAN /\ first \in BOOLEAN
  /\ tally \in [done : BOOLEAN, failed : Nat, proved : Nat, hints : Nat, reported : SUBSET Labels]
  /\ airState \in {"none", "ready", "answered", "panic"}
  /\ outcome \in [ended : BOOLEAN, failed : BOOLEAN, reports : Nat]

\* The kinds of values the driver's variables hold.
TypeOK == LogTypes /\ DriverTypes

\* The log is a tree whose shape the reader relies on: an op of an external
\* crate sits in that crate's wrapper and nowhere else, the user's own ops sit
\* at the top level, and nothing else is ever open (verus.rs:645-657).
SectionsNest ==
  /\ pc = "op" \/ pc = "probe" =>
       stack = IF op.krate = Local THEN <<"op">> ELSE <<op.krate, "op">>
  /\ pc = "functions" \/ pc = "ops" =>
       stack = IF wrapper = Local THEN <<>> ELSE <<wrapper>>

\* Whichever way a module ends, the AIR bodies are whole: no error path leaks an
\* open section into the next module or the browser (verus.rs:659-661, 688-697), and
\* none drops the log of an op.  All that is ever lost is a prelude, of a module whose
\* declarations could not be fed, and then that was reported.
BodiesWhole ==
  pc \in {"modules", "end"} =>
    /\ stack = <<>> /\ bodyStack = <<>>
    /\ lost \subseteq {"AIR prelude"}
    /\ lost # {} => outcome.failed /\ outcome.reports > 0

\* The budget of full probes never runs below zero (checks_remaining is a u32)
\* and the flag flips exactly when it is used up.
BudgetHolds == remaining \in 0..ProbeBudget /\ (onlyEarlier <=> remaining = 0)

\* AIR is never asked something it panics on: check_valid_again without a
\* failure to go on from, or a new query before the last one is finished.
AirNeverPanics == airState # "panic"

\* A check adds to the headline either one query passed or one or more failed,
\* never both, so `N passed / M failed` counts real outcomes and not the proof
\* that ends the probing; a recommends check adds nothing (verus.rs:851-858).
VerdictsAddUp ==
  tally.done =>
    IF Level(op.kind) = "Error"
    THEN \/ tally.proved = 1 /\ tally.failed = 0 /\ bad = {}
         \/ tally.proved = 0 /\ tally.failed > 0
    ELSE tally.proved = 0 /\ tally.failed = 0

\* Unless the solver gave up on the way (ran out of resources, or failed without
\* a model or a message), the end of the probing has told the user of the
\* earliest assert that fails, whatever the budget, and of every failing one the
\* budget allows; each failed verdict stands for one of them, so none was
\* reported twice (verus.rs:800-816).
FailuresFound ==
  tally.done /\ (Proved \/ (result.model /\ result.err # NoLabel)) /\ bad # {} =>
    /\ \A m \in bad : \E l \in tally.reported : l <= m
    /\ Cardinality(bad) <= ProbeBudget => tally.reported = bad
    /\ Level(op.kind) = "Error" => tally.failed = Cardinality(tally.reported)

\* The hint of a query is shown at most once, and only under an error.
HintOnce == tally.hints <= 1 /\ (tally.hints = 1 => cmds.hint /\ tally.reported # {})

\* The op generator feeds on its own failures (retries) and the probing loop on
\* AIR's answers, yet a crate's verification always comes to an end.
Terminates == <>(pc = "end")

=============================================================================
