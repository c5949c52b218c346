------------------------- MODULE QueryDriverProofs -------------------------
(* The query driver keeps its logs, its budget and AIR's protocol straight *)
(* for any crates, any number of asserts and any probe budget.             *)
EXTENDS QueryDriver, SequenceTheorems, FiniteSetTheorems, TLAPS

\* What was begun in the logs and not drained, and what was lost with them: only the
\* prelude of a module whose failure was reported.
Kept ==
  /\ undrained \subseteq {"AIR prelude", "op"}
  /\ pc = "decls" => undrained = {"AIR prelude"}
  /\ lost \subseteq {"AIR prelude"}
  /\ lost # {} => outcome.failed /\ outcome.reports > 0

\* What is open in the logs at each place of the driver; nothing is ever left
\* open in what was drained.
LogShape ==
  /\ Kept
  /\ bodyStack = <<>>
  /\ pc \in {"modules", "decls", "end"} => wrapper = Local
  /\ pc \in {"modules", "end"} => stack = <<>>
  /\ pc = "decls" => stack = <<"AIR prelude">>
  /\ pc \in {"functions", "ops"} => stack = IF wrapper = Local THEN <<>> ELSE <<wrapper>>
  /\ pc \in {"op", "probe"} =>
       /\ wrapper = op.krate
       /\ stack = IF wrapper = Local THEN <<"op">> ELSE <<wrapper, "op">>

\* Where AIR stands at each place of the driver.
AirShape ==
  airState = CASE pc \in {"modules", "end"} -> "none"
               [] pc = "probe" -> "answered"
               [] OTHER -> "ready"

\* What has been shown when a turn of the probing loop begins: nothing on the
\* first, some failures and no proof later.
TallyShape ==
  pc = "probe" =>
    /\ first => tally = NothingYet /\ (Proved => bad = {})
    /\ ~first => /\ ~tally.done
                 /\ tally.proved = 0
                 /\ IF Level(op.kind) = "Error" THEN tally.failed > 0 ELSE tally.failed = 0

IInv ==
  DriverTypes /\ LogShape /\ AirShape /\ BudgetHolds /\ TallyShape /\ VerdictsAddUp /\ HintOnce

----------------------------------------------------------------------------

\* Closing the innermost section.
LEMMA CloseOne == ASSUME NEW a PROVE Close(<<a>>) = <<>>
BY DEF Close

\* Sequences of up to two elements.
LEMMA ShortSequences ==
  ASSUME NEW S, NEW a \in S, NEW b \in S
  PROVE  <<>> \in Seq(S) /\ <<a>> \in Seq(S) /\ <<a, b>> \in Seq(S)
OBVIOUS

\* Opening a section inside another.
LEMMA AppendOne == ASSUME NEW a, NEW b PROVE Append(<<a>>, b) = <<a, b>>
<1> DEFINE t == Append(<<a>>, b)
           u == <<a, b>>
<1>1. <<a>> \in Seq({a, b}) /\ u \in Seq({a, b}) /\ Len(<<a>>) = 1
  OBVIOUS
<1>2. t \in Seq({a, b}) /\ Len(t) = 2 /\ t[1] = a /\ t[2] = b
  BY <1>1, AppendProperties, b \in {a, b}, <<a>>[1] = a, 1 \in 1..1
<1>3. Len(u) = 2 /\ u[1] = a /\ u[2] = b
  OBVIOUS
<1> HIDE DEF t, u
<1>4. t = u
  BY <1>1, <1>2, <1>3, SeqEqual
<1> QED BY <1>4 DEF t, u

LEMMA CloseTwo == ASSUME NEW a, NEW b PROVE Close(<<a, b>>) = <<a>>
<1> DEFINE s == <<a, b>>
           c == SubSeq(s, 1, 1)
<1>1. \A i \in 1..1 : s[i] \in {a, b}
  OBVIOUS
<1>2. /\ c \in Seq({a, b})
      /\ Len(c) = 1
      /\ c[1] = s[1]
  BY <1>1, SubSeqProperties, 1 \in Int, 1 - 1 + 1 = 1
<1>3. s[1] = a /\ Len(s) = 2
  OBVIOUS
<1> HIDE DEF c
<1>4. c = <<a>>
  BY <1>2, <1>3, SeqEqual, <<a>> \in Seq({a, b})
<1> QED BY <1>3, <1>4 DEF Close, c

----------------------------------------------------------------------------
(* Steps that leave the op and its query alone.                            *)

LEMMA QueryFrame ==
  ASSUME IInv, UNCHANGED <<opVars, queryVars>>, pc' # "probe"
  PROVE  /\ BudgetHolds' /\ TallyShape' /\ VerdictsAddUp' /\ HintOnce'
         /\ op' \in Ops /\ cmds' \in Cmds /\ checksLeft' \in 0..MaxChecks
         /\ anyInvalid' \in BOOLEAN
         /\ bad' \subseteq Labels /\ enabled' \subseteq Labels /\ result' \in Results
         /\ remaining' \in 0..ProbeBudget /\ onlyEarlier' \in BOOLEAN /\ first' \in BOOLEAN
         /\ tally' \in [done : BOOLEAN, failed : Nat, proved : Nat, hints : Nat,
                         reported : SUBSET Labels]
BY DEF IInv, DriverTypes, BudgetHolds, TallyShape, VerdictsAddUp, HintOnce, opVars, queryVars

\* Ending with an error.
LEMMA FailTypes ==
  ASSUME IInv, Fail
  PROVE  /\ pc' = "end" /\ outcome' \in [ended : BOOLEAN, failed : BOOLEAN, reports : Nat]
         /\ outcome'.failed /\ outcome'.reports > 0
BY DEF IInv, DriverTypes, Fail

LEMMA ModuleFailsStep == ASSUME IInv, ModuleFails PROVE IInv'
<1>1. /\ pc' = "end" /\ outcome' \in [ended : BOOLEAN, failed : BOOLEAN, reports : Nat]
      /\ outcome'.failed /\ outcome'.reports > 0
  BY FailTypes DEF ModuleFails
<1>2. LogShape' /\ AirShape'
  BY <1>1 DEF ModuleFails, IInv, LogShape, AirShape, Kept, logVars
<1>3. DriverTypes'
  BY <1>1, QueryFrame DEF ModuleFails, IInv, DriverTypes, genVars, logVars
<1> QED BY <1>1, <1>2, <1>3, QueryFrame DEF IInv, ModuleFails

LEMMA StartModuleStep == ASSUME IInv, StartModule PROVE IInv'
<1>1. Append(<<>>, "AIR prelude") = <<"AIR prelude">>
  OBVIOUS
<1>2. stack' = <<"AIR prelude">> /\ pc' = "decls" /\ airState' = "ready"
  BY <1>1 DEF StartModule, Open
<1>3. LogShape' /\ AirShape'
  BY <1>2 DEF StartModule, IInv, LogShape, AirShape, Kept
<1>4. modulesLeft' \in 0..MaxModules /\ functionsLeft' \in 0..MaxFunctions
  <2>1. modulesLeft \in 0..MaxModules
    BY DEF IInv, DriverTypes
  <2>2. modulesLeft > 0 /\ modulesLeft' = modulesLeft - 1 /\ functionsLeft' \in 0..MaxFunctions
    BY DEF StartModule
  <2> QED BY <2>1, <2>2, BoundsAssumption
<1>5. UNCHANGED <<opVars, queryVars>> /\ UNCHANGED <<opsLeft, retries, wrapper, outcome>>
  BY DEF StartModule
<1>6. DriverTypes'
  BY <1>2, <1>4, <1>5, QueryFrame DEF IInv, DriverTypes
<1> QED BY <1>2, <1>3, <1>5, <1>6, QueryFrame DEF IInv

LEMMA AllModulesDoneStep == ASSUME IInv, AllModulesDone PROVE IInv'
<1>0. outcome'.failed = outcome.failed /\ outcome'.reports = outcome.reports
  BY DEF AllModulesDone, IInv, DriverTypes
<1>1. LogShape' /\ AirShape'
  BY <1>0 DEF AllModulesDone, IInv, LogShape, AirShape, Kept, logVars
<1>2. DriverTypes'
  BY QueryFrame DEF AllModulesDone, IInv, DriverTypes, genVars, logVars
<1> QED BY <1>1, <1>2, QueryFrame DEF IInv, AllModulesDone

LEMMA DeclsFailStep == ASSUME IInv, DeclsFail PROVE IInv'
<1>1. /\ pc' = "end" /\ outcome' \in [ended : BOOLEAN, failed : BOOLEAN, reports : Nat]
      /\ outcome'.failed /\ outcome'.reports > 0
  BY FailTypes DEF DeclsFail
<1>2. LogShape' /\ AirShape'
  BY <1>1 DEF DeclsFail, DropLogs, IInv, LogShape, AirShape, Kept
<1>3. DriverTypes'
  BY <1>1, QueryFrame DEF DeclsFail, IInv, DriverTypes, genVars
<1> QED BY <1>1, <1>2, <1>3, QueryFrame DEF IInv, DeclsFail

LEMMA DeclsFedStep == ASSUME IInv, DeclsFed PROVE IInv'
<1>1. stack' = <<>> /\ bodyStack' = <<>>
  BY CloseOne DEF DeclsFed, IInv, LogShape, Drain
<1>2. LogShape' /\ AirShape'
  BY <1>1 DEF DeclsFed, Drain, IInv, LogShape, AirShape, Kept
<1>3. DriverTypes'
  BY QueryFrame DEF DeclsFed, IInv, DriverTypes, genVars
<1> QED BY <1>2, <1>3, QueryFrame DEF IInv, DeclsFed

LEMMA NextFunctionStep == ASSUME IInv, NextFunction PROVE IInv'
<1>1. LogShape' /\ AirShape'
  BY DEF NextFunction, IInv, LogShape, AirShape, Kept, logVars
<1>2. DriverTypes'
  BY QueryFrame, BoundsAssumption DEF NextFunction, IInv, DriverTypes, logVars
<1> QED BY <1>1, <1>2, QueryFrame DEF IInv, NextFunction

\* Between two ops only the wrapper can be open.
LEMMA WrapperCloses ==
  ASSUME IInv, pc \in {"functions", "ops"}
  PROVE  CloseWrapper = <<>>
BY CloseOne DEF IInv, LogShape, CloseWrapper

LEMMA NoMoreFunctionsStep == ASSUME IInv, NoMoreFunctions PROVE IInv'
<1>1. /\ stack' = <<>> /\ bodyStack' = <<>> /\ undrained' = {} /\ lost' = lost
      /\ wrapper' = Local /\ airState' = "none"
  BY WrapperCloses DEF NoMoreFunctions, LeaveQueries, Drain
<1>2. LogShape' /\ AirShape'
  BY <1>1 DEF NoMoreFunctions, IInv, LogShape, AirShape, Kept
<1>3. DriverTypes'
  BY <1>1, QueryFrame DEF NoMoreFunctions, IInv, DriverTypes, genVars
<1> QED BY <1>2, <1>3, QueryFrame DEF IInv, NoMoreFunctions

LEMMA GeneratorFailsStep == ASSUME IInv, GeneratorFails PROVE IInv'
<1>1. /\ pc' = "end" /\ outcome' \in [ended : BOOLEAN, failed : BOOLEAN, reports : Nat]
      /\ outcome'.failed /\ outcome'.reports > 0
  BY FailTypes DEF GeneratorFails
<1>2. /\ stack' = <<>> /\ bodyStack' = <<>> /\ undrained' = {} /\ lost' = lost
      /\ wrapper' = Local /\ airState' = "none"
  BY WrapperCloses DEF GeneratorFails, LeaveQueries, Drain
<1>3. LogShape' /\ AirShape'
  BY <1>1, <1>2 DEF IInv, LogShape, AirShape, Kept
<1>4. DriverTypes'
  BY <1>1, <1>2, QueryFrame DEF GeneratorFails, IInv, DriverTypes, genVars
<1> QED BY <1>1, <1>3, <1>4, QueryFrame DEF IInv, GeneratorFails

LEMMA NoMoreOpsStep == ASSUME IInv, NoMoreOps PROVE IInv'
<1>1. LogShape' /\ AirShape'
  BY DEF NoMoreOps, IInv, LogShape, AirShape, Kept, logVars
<1>2. DriverTypes'
  BY QueryFrame DEF NoMoreOps, IInv, DriverTypes, genVars, logVars
<1> QED BY <1>1, <1>2, QueryFrame DEF IInv, NoMoreOps

LEMMA CloseOpStep == ASSUME IInv, CloseOp PROVE IInv'
<1>1. stack' = IF wrapper = Local THEN <<>> ELSE <<wrapper>>
  BY CloseOne, CloseTwo DEF CloseOp, IInv, LogShape
<1>2. LogShape' /\ AirShape'
  BY <1>1 DEF CloseOp, IInv, LogShape, AirShape, Kept
<1>3. retries' \in Nat
  BY BoundsAssumption DEF CloseOp, IInv, DriverTypes
<1>4. DriverTypes'
  BY <1>3, QueryFrame DEF CloseOp, IInv, DriverTypes
<1> QED BY <1>2, <1>4, QueryFrame DEF IInv, CloseOp

LEMMA RetryFailsStep == ASSUME IInv, RetryFails PROVE IInv'
<1>1. /\ pc' = "end" /\ outcome' \in [ended : BOOLEAN, failed : BOOLEAN, reports : Nat]
      /\ outcome'.failed /\ outcome'.reports > 0
  BY FailTypes DEF RetryFails
<1>2. /\ stack' = <<>> /\ bodyStack' = <<>> /\ undrained' = {} /\ lost' = lost
      /\ wrapper' = Local /\ airState' = "none"
  BY CloseOne, CloseTwo DEF RetryFails, LeaveQueries, Drain, IInv, LogShape
<1>3. LogShape' /\ AirShape'
  BY <1>1, <1>2 DEF IInv, LogShape, AirShape, Kept
<1>4. DriverTypes'
  BY <1>1, <1>2, QueryFrame DEF RetryFails, IInv, DriverTypes, genVars
<1> QED BY <1>1, <1>3, <1>4, QueryFrame DEF IInv, RetryFails

----------------------------------------------------------------------------
(* Steps of an op and its queries.                                         *)

LEMMA OpenOpStep == ASSUME IInv, OpenOp PROVE IInv'
<1>1. PICK o \in Ops :
        /\ Yielded(o) /\ op' = o /\ wrapper' = o.krate
        /\ stack' = Open(RotateWrapper(o.krate), "op")
        /\ checksLeft' \in (IF o.kind = "Context" THEN {0} ELSE 0..MaxChecks)
  BY DEF OpenOp
<1>2. o.krate \in Crates \union {Local}
  BY DEF Ops
<1>3. RotateWrapper(o.krate) = IF o.krate = Local THEN <<>> ELSE <<o.krate>>
  <2>1. stack = IF wrapper = Local THEN <<>> ELSE <<wrapper>>
    BY DEF OpenOp, IInv, LogShape
  <2>2. CloseWrapper = <<>>
    BY WrapperCloses DEF OpenOp
  <2>3. Append(<<>>, o.krate) = <<o.krate>>
    OBVIOUS
  <2> QED BY <2>1, <2>2, <2>3, <1>2 DEF RotateWrapper, Open
<1>4. stack' = IF o.krate = Local THEN <<"op">> ELSE <<o.krate, "op">>
  <2>1. Append(<<>>, "op") = <<"op">>
    OBVIOUS
  <2>2. Append(<<o.krate>>, "op") = <<o.krate, "op">>
    BY AppendOne
  <2> QED BY <1>1, <1>3, <2>1, <2>2 DEF Open
<1>5. LogShape' /\ AirShape'
  BY <1>1, <1>4 DEF OpenOp, IInv, LogShape, AirShape, Kept
<1>6. opsLeft' \in 0..MaxOps /\ retries' \in Nat
  BY <1>1, BoundsAssumption DEF Yielded, IInv, DriverTypes
<1>7. checksLeft' \in 0..MaxChecks
  BY <1>1, BoundsAssumption
<1>8. tally' = NothingYet /\ pc' = "op" /\ anyInvalid' \in BOOLEAN
  BY DEF OpenOp
<1>9. /\ UNCHANGED <<modulesLeft, functionsLeft, cmds, bad, enabled, result, remaining,
                      onlyEarlier, first, airState, outcome>>
  BY DEF OpenOp
<1>10. NothingYet \in [done : BOOLEAN, failed : Nat, proved : Nat, hints : Nat,
                        reported : SUBSET Labels]
  BY DEF NothingYet
<1>11. DriverTypes'
  BY <1>1, <1>2, <1>6, <1>7, <1>8, <1>9, <1>10 DEF IInv, DriverTypes
<1>12. BudgetHolds' /\ TallyShape'
  BY <1>8, <1>9 DEF IInv, BudgetHolds, TallyShape
<1>13. VerdictsAddUp' /\ HintOnce'
  BY <1>8 DEF VerdictsAddUp, HintOnce, NothingYet
<1> QED BY <1>5, <1>11, <1>12, <1>13 DEF IInv

\* An answer that is a proof leaves no failing assert enabled.
LEMMA AnswersSound ==
  ASSUME NEW live \in SUBSET Labels, NEW failing \in SUBSET live, failing # {}
  PROVE  /\ Invalids(failing) \subseteq Results
         /\ \A r \in Invalids(failing) : r.tag = "Invalid"
BY DEF Invalids, Results

LEMMA CheckValidStep == ASSUME IInv, CheckValid PROVE IInv'
<1>1. bad' \subseteq Labels /\ enabled' \subseteq Labels
  BY DEF CheckValid
<1>2. result' \in Results /\ (Proved' => bad' = {})
  <2>1. CASE result' = Canceled
    BY <2>1 DEF Results, Proved, Canceled
  <2>2. CASE bad' = {} /\ result' = Valid
    BY <2>2 DEF Results
  <2>3. CASE bad' # {} /\ result' \in Invalids(bad')
    BY <1>1, <2>3, AnswersSound DEF Proved
  <2> QED BY <2>1, <2>2, <2>3 DEF CheckValid
<1>3. /\ pc' = "probe" /\ airState' = "answered" /\ tally' = NothingYet
      /\ remaining' = ProbeBudget /\ onlyEarlier' = FALSE /\ first' = TRUE
      /\ checksLeft' \in 0..MaxChecks
      /\ UNCHANGED <<genVars, logVars, op, anyInvalid, outcome>>
  BY BoundsAssumption DEF CheckValid, IInv, DriverTypes, AirShape
<1>4. LogShape' /\ AirShape'
  BY <1>3 DEF CheckValid, IInv, LogShape, AirShape, Kept, logVars
<1>5. NothingYet \in [done : BOOLEAN, failed : Nat, proved : Nat, hints : Nat,
                       reported : SUBSET Labels]
  BY DEF NothingYet
<1>6. DriverTypes'
  <2>0. ProbeBudget \in 0..ProbeBudget
    BY BoundsAssumption
  <2>1. remaining' \in 0..ProbeBudget /\ onlyEarlier' \in BOOLEAN /\ first' \in BOOLEAN
    BY <1>3, <2>0
  <2>2. tally' \in [done : BOOLEAN, failed : Nat, proved : Nat, hints : Nat,
                     reported : SUBSET Labels]
    BY <1>3, <1>5
  <2>3. /\ modulesLeft' \in 0..MaxModules /\ functionsLeft' \in 0..MaxFunctions
        /\ opsLeft' \in 0..MaxOps /\ retries' \in Nat
        /\ wrapper' \in Crates \union {Local}
    BY <1>3 DEF genVars, logVars, IInv, DriverTypes
  <2>4. op' \in Ops /\ anyInvalid' \in BOOLEAN
    BY <1>3 DEF IInv, DriverTypes
  <2>5. outcome' \in [ended : BOOLEAN, failed : BOOLEAN, reports : Nat]
    BY <1>3 DEF IInv, DriverTypes
  <2>6. pc' = "probe" /\ airState' = "answered" /\ checksLeft' \in 0..MaxChecks
    BY <1>3
  <2>7. result' \in Results /\ cmds' \in Cmds
    BY <1>2 DEF CheckValid
  <2> QED BY <1>1, <2>1, <2>2, <2>3, <2>4, <2>5, <2>6, <2>7 DEF DriverTypes
<1>7. BudgetHolds' /\ TallyShape'
  BY <1>2, <1>3, BoundsAssumption DEF BudgetHolds, TallyShape
<1>8. VerdictsAddUp' /\ HintOnce'
  BY <1>3 DEF VerdictsAddUp, HintOnce, NothingYet
<1> QED BY <1>4, <1>6, <1>7, <1>8 DEF IInv

\* What a turn of the loop adds to the tally.
LEMMA TellAdds ==
  ASSUME IInv, pc = "probe", Tell, UNCHANGED <<op, cmds>>
  PROVE  /\ tally' \in [done : BOOLEAN, failed : Nat, proved : Nat, hints : Nat,
                         reported : SUBSET Labels]
         /\ tally'.done = ~CanProbe
         /\ Level(op.kind) # "Error" => tally'.failed = 0 /\ tally'.proved = 0
         /\ Level(op.kind) = "Error" =>
              IF first /\ Proved
              THEN tally'.proved = 1 /\ tally'.failed = 0 /\ bad = {}
              ELSE tally'.proved = 0 /\ tally'.failed > 0
         /\ HintOnce'
<1> DEFINE d == ~CanProbe
           f == tally.failed + (IF Verdict /\ ~Proved THEN 1 ELSE 0)
           p == tally.proved + (IF Verdict /\ Proved THEN 1 ELSE 0)
           h == tally.hints + (IF Reports /\ first /\ cmds.hint THEN 1 ELSE 0)
           r == IF Reports THEN tally.reported \union {result.err} ELSE tally.reported
<1>1. tally \in [done : BOOLEAN, failed : Nat, proved : Nat, hints : Nat,
                 reported : SUBSET Labels]
  BY DEF IInv, DriverTypes
<1>2. d \in BOOLEAN
  BY Zenon DEF CanProbe
<1>3. f \in Nat /\ p \in Nat /\ h \in Nat
  BY <1>1
<1>4. r \in SUBSET Labels
  <2>1. Reports => result.err \in Labels
    BY DEF Reports, IInv, DriverTypes, Results, Invalids, Valid, Canceled, Labels, NoLabel
  <2> QED BY <1>1, <2>1
<1>5. tally' = [done |-> d, failed |-> f, proved |-> p, hints |-> h, reported |-> r]
  BY DEF Tell
<1> HIDE DEF d, f, p, h, r
<1>6. /\ tally' \in [done : BOOLEAN, failed : Nat, proved : Nat, hints : Nat,
                      reported : SUBSET Labels]
      /\ tally'.failed = f /\ tally'.proved = p /\ tally'.hints = h /\ tally'.reported = r
  BY <1>2, <1>3, <1>4, <1>5
<1>7. tally'.done = ~CanProbe
  BY Zenon, <1>5 DEF d
<1>8. first => tally.failed = 0 /\ tally.proved = 0 /\ tally.hints = 0 /\ (Proved => bad = {})
  BY DEF IInv, TallyShape, NothingYet
<1>9. ~first => /\ tally.proved = 0
                /\ IF Level(op.kind) = "Error" THEN tally.failed > 0 ELSE tally.failed = 0
  BY DEF IInv, TallyShape
<1>10. first \in BOOLEAN
  BY DEF IInv, DriverTypes
<1>11. Level(op.kind) # "Error" => f = 0 /\ p = 0
  BY <1>1, <1>8, <1>9, <1>10 DEF f, p, Verdict
<1>12. Level(op.kind) = "Error" =>
         IF first /\ Proved THEN p = 1 /\ f = 0 /\ bad = {} ELSE p = 0 /\ f > 0
  BY <1>1, <1>8, <1>9, <1>10 DEF f, p, Verdict
<1>13. h <= 1 /\ (h = 1 => cmds.hint /\ r # {})
  BY <1>1, <1>8, <1>10 DEF h, r, IInv, HintOnce
<1>14. HintOnce'
  BY <1>6, <1>13 DEF HintOnce
<1> QED BY <1>6, <1>7, <1>11, <1>12, <1>14

LEMMA ProbeAgainStep == ASSUME IInv, ProbeAgain PROVE IInv'
<1>1. pc = "probe" /\ CanProbe /\ Tell /\ SpendProbe /\ UNCHANGED <<op, cmds>>
  BY DEF ProbeAgain, Observe
<1>2. anyInvalid' \in BOOLEAN
  BY Zenon DEF ProbeAgain, Observe
<1>3. ~Proved /\ result.model /\ result.err # NoLabel
  BY <1>1 DEF CanProbe, Proved
<1>4. /\ remaining' \in 0..ProbeBudget /\ onlyEarlier' \in BOOLEAN
      /\ BudgetHolds'
  <2>1. /\ remaining \in 0..ProbeBudget /\ onlyEarlier \in BOOLEAN
        /\ onlyEarlier <=> remaining = 0
    BY DEF IInv, DriverTypes, BudgetHolds
  <2>2. CASE onlyEarlier
    BY <1>1, <2>1, <2>2 DEF SpendProbe, BudgetHolds
  <2>3. CASE ~onlyEarlier
    <3>1. remaining' = remaining - 1 /\ onlyEarlier' = (remaining' = 0)
      BY <1>1, <2>3 DEF SpendProbe
    <3>2. onlyEarlier' \in BOOLEAN /\ (onlyEarlier' <=> remaining' = 0)
      BY Zenon, <3>1
    <3>3. remaining' \in 0..ProbeBudget
      BY <2>1, <2>3, <3>1, BoundsAssumption
    <3> QED BY <3>2, <3>3 DEF BudgetHolds
  <2> QED BY <2>2, <2>3
<1>5. enabled' \subseteq Labels
  BY DEF ProbeAgain, StillEnabled, IInv, DriverTypes
<1>6. result' \in Results
  <2>1. CASE enabled' \intersect bad = {}
    BY <2>1 DEF ProbeAgain, Answers, Results
  <2>2. CASE enabled' \intersect bad # {}
    BY <1>5, <2>2, AnswersSound DEF ProbeAgain, Answers, Results
  <2> QED BY <2>1, <2>2
<1>7. airState' = airState
  BY <1>3 DEF ProbeAgain
<1>8. /\ first' = FALSE
      /\ UNCHANGED <<pc, genVars, logVars, op, checksLeft, cmds, bad, outcome>>
  BY DEF ProbeAgain
<1>9. LogShape' /\ AirShape'
  BY <1>7, <1>8 DEF IInv, LogShape, AirShape, Kept, logVars
<1>10. /\ tally' \in [done : BOOLEAN, failed : Nat, proved : Nat, hints : Nat,
                       reported : SUBSET Labels]
       /\ HintOnce'
  BY <1>1, TellAdds
<1>11. DriverTypes'
  BY <1>2, <1>4, <1>5, <1>6, <1>7, <1>8, <1>10 DEF IInv, DriverTypes, genVars, logVars
<1>12. ~tally'.done
  BY <1>1, TellAdds
<1>13. TallyShape' /\ VerdictsAddUp'
  BY <1>1, <1>3, <1>8, <1>12, TellAdds DEF TallyShape, VerdictsAddUp
<1> QED BY <1>4, <1>9, <1>10, <1>11, <1>13 DEF IInv

LEMMA ProbeEndsStep == ASSUME IInv, ProbeEnds PROVE IInv'
<1>1. pc = "probe" /\ Tell /\ UNCHANGED <<op, cmds, bad, first>>
  BY DEF ProbeEnds, Observe
<1>2. anyInvalid' \in BOOLEAN
  BY Zenon DEF ProbeEnds, Observe
<1>3. /\ pc' = "op" /\ airState' = "ready"
      /\ UNCHANGED <<genVars, logVars, op, checksLeft, cmds, bad, enabled, result, remaining,
                     onlyEarlier, first, outcome>>
  BY DEF ProbeEnds
<1>4. LogShape' /\ AirShape'
  BY <1>1, <1>3 DEF IInv, LogShape, AirShape, Kept, logVars
<1>5. /\ tally' \in [done : BOOLEAN, failed : Nat, proved : Nat, hints : Nat,
                      reported : SUBSET Labels]
      /\ HintOnce'
  BY <1>1, TellAdds
<1>6. DriverTypes'
  BY <1>2, <1>3, <1>5 DEF IInv, DriverTypes, genVars, logVars
<1>7. BudgetHolds' /\ TallyShape'
  BY <1>3 DEF IInv, BudgetHolds, TallyShape
<1>8. VerdictsAddUp'
  BY <1>1, TellAdds DEF VerdictsAddUp
<1> QED BY <1>4, <1>5, <1>6, <1>7, <1>8 DEF IInv

----------------------------------------------------------------------------

LEMMA InitIInv == Init => IInv
<1> SUFFICES ASSUME Init PROVE IInv
  OBVIOUS
<1>1. LogShape /\ AirShape
  BY DEF Init, LogShape, AirShape, Kept
<1>2. NothingYet \in [done : BOOLEAN, failed : Nat, proved : Nat, hints : Nat,
                       reported : SUBSET Labels]
  BY DEF NothingYet
<1>3. NoOp \in Ops /\ Valid \in Results
  BY DEF NoOp, Ops, OpKinds, Results
<1>4. DriverTypes
  <2>1. /\ modulesLeft \in 0..MaxModules /\ functionsLeft \in 0..MaxFunctions
        /\ opsLeft \in 0..MaxOps /\ retries \in Nat /\ checksLeft \in 0..MaxChecks
        /\ remaining \in 0..ProbeBudget
    BY BoundsAssumption DEF Init
  <2>2. cmds \in Cmds
    BY DEF Init, Cmds, NoCmds
  <2> QED BY <1>2, <1>3, <2>1, <2>2 DEF Init, DriverTypes
<1>5. BudgetHolds /\ TallyShape /\ VerdictsAddUp /\ HintOnce
  BY BoundsAssumption DEF Init, BudgetHolds, TallyShape, VerdictsAddUp, HintOnce, NothingYet
<1> QED BY <1>1, <1>4, <1>5 DEF IInv

LEMMA StepIInv == IInv /\ [Next]_vars => IInv'
<1> SUFFICES ASSUME IInv, [Next]_vars PROVE IInv'
  OBVIOUS
<1>1. CASE ModuleFails \/ StartModule \/ AllModulesDone \/ DeclsFail \/ DeclsFed
  BY <1>1, ModuleFailsStep, StartModuleStep, AllModulesDoneStep, DeclsFailStep, DeclsFedStep
<1>2. CASE NextFunction \/ NoMoreFunctions \/ GeneratorFails \/ NoMoreOps
  BY <1>2, NextFunctionStep, NoMoreFunctionsStep, GeneratorFailsStep, NoMoreOpsStep
<1>3. CASE OpenOp \/ CheckValid \/ ProbeAgain \/ ProbeEnds \/ CloseOp \/ RetryFails
  BY <1>3, OpenOpStep, CheckValidStep, ProbeAgainStep, ProbeEndsStep, CloseOpStep,
     RetryFailsStep
<1>4. CASE UNCHANGED vars
  <2>1. DriverTypes'
    BY <1>4 DEF IInv, DriverTypes, vars, genVars, logVars, opVars, queryVars
  <2>3. LogShape' /\ AirShape'
    BY <1>4 DEF IInv, LogShape, AirShape, Kept, vars, logVars, opVars
  <2>2. BudgetHolds' /\ TallyShape' /\ VerdictsAddUp' /\ HintOnce'
    BY <1>4 DEF IInv, BudgetHolds, TallyShape, VerdictsAddUp, HintOnce, Proved, vars,
                genVars, logVars, opVars, queryVars
  <2> QED BY <2>1, <2>2, <2>3 DEF IInv
<1> QED BY <1>1, <1>2, <1>3, <1>4 DEF Next

\* The inductive invariant holds throughout the verification of a crate.
THEOREM Invariance == Spec => []IInv
<1>1. Init => IInv
  BY InitIInv
<1>2. IInv /\ [Next]_vars => IInv'
  BY StepIInv
<1> QED BY <1>1, <1>2, PTL DEF Spec

\* Every variable of the driver keeps its kind of value.
THEOREM TypeCorrect == Spec => []TypeOK
<1>1. IInv => TypeOK
  <2> SUFFICES ASSUME IInv PROVE LogTypes
    BY DEF IInv, TypeOK
  <2>1. wrapper \in Crates \union {Local} /\ bodyStack = <<>>
    BY DEF IInv, DriverTypes, LogShape
  <2>2. \/ stack = <<>> \/ stack = <<"AIR prelude">> \/ stack = <<"op">>
        \/ wrapper # Local /\ (stack = <<wrapper>> \/ stack = <<wrapper, "op">>)
    BY DEF IInv, DriverTypes, LogShape
  <2> DEFINE S == {"AIR prelude", "op"} \union Crates
  <2>6. "AIR prelude" \in S /\ "op" \in S /\ (wrapper # Local => wrapper \in S)
    BY <2>1
  <2> HIDE DEF S
  <2>7. stack \in Seq(S) /\ bodyStack \in Seq(S)
    BY <2>1, <2>2, <2>6, ShortSequences
  <2>8. undrained \subseteq {"AIR prelude", "op"} /\ lost \subseteq {"AIR prelude", "op"}
    BY DEF IInv, LogShape, Kept
  <2> QED BY <2>7, <2>8 DEF LogTypes, S
<1> QED BY <1>1, Invariance, PTL

\* The section markers form the tree the reader expects, crate by crate.
THEOREM SectionsAlwaysNest == Spec => []SectionsNest
<1>1. IInv => SectionsNest
  BY DEF IInv, LogShape, SectionsNest
<1> QED BY <1>1, Invariance, PTL

\* However a module ends, no section is left open in the AIR bodies, and nothing but
\* the prelude of a module that failed with it is lost.
THEOREM BodiesAlwaysWhole == Spec => []BodiesWhole
<1>1. IInv => BodiesWhole
  BY DEF IInv, LogShape, Kept, BodiesWhole
<1> QED BY <1>1, Invariance, PTL

\* checks_remaining never underflows, and the flag flips when it is used up.
THEOREM BudgetAlwaysHolds == Spec => []BudgetHolds
<1>1. IInv => BudgetHolds
  BY DEF IInv
<1> QED BY <1>1, Invariance, PTL

\* AIR is never asked a question it answers with a panic.
THEOREM AirIsAskedRightly == Spec => []AirNeverPanics
<1>1. IInv => AirNeverPanics
  BY DEF IInv, AirShape, AirNeverPanics
<1> QED BY <1>1, Invariance, PTL

\* A check counts as one query passed or as one or more failed.
THEOREM HeadlineAddsUp == Spec => []VerdictsAddUp
<1>1. IInv => VerdictsAddUp
  BY DEF IInv
<1> QED BY <1>1, Invariance, PTL

\* A hint is shown once at most, and only under an error.
THEOREM HintShownOnce == Spec => []HintOnce
<1>1. IInv => HintOnce
  BY DEF IInv
<1> QED BY <1>1, Invariance, PTL

----------------------------------------------------------------------------
(* What the probing has found.                                             *)

\* While a query is probed: what was reported fails and is given up; a failing
\* assert that AIR no longer checks lies at or behind a reported one, and was
\* itself reported as long as the flag is down; each report costs one probe at
\* most, and an error-level one is one failed verdict.
ProbeShape ==
  pc = "probe" =>
    /\ tally.reported \subseteq bad \ enabled
    /\ Proved => enabled \intersect bad = {}
    /\ Reports => result.err \in enabled \intersect bad
    /\ \A m \in bad : m \in enabled \/ \E l \in tally.reported : l <= m
    /\ ~onlyEarlier => bad \subseteq enabled \union tally.reported
    /\ remaining + Cardinality(tally.reported) >= ProbeBudget
    /\ Level(op.kind) = "Error" => tally.failed = Cardinality(tally.reported)

FoundInv == ProbeShape /\ FailuresFound

\* The asserts of a query, and the failing ones among them, are finitely many.
LEMMA LabelsFinite ==
  ASSUME NEW S \in SUBSET Labels
  PROVE  IsFiniteSet(S) /\ Cardinality(S) \in Nat
<1>1. MaxLabel \in Int /\ 1 \in Int
  BY BoundsAssumption
<1>2. IsFiniteSet(Labels)
  BY <1>1, FS_Interval DEF Labels
<1> QED BY <1>2, FS_Subset, FS_CardinalityType

\* A query starts with every assert enabled and nothing reported.
LEMMA CheckValidFound == ASSUME IInv, CheckValid PROVE FoundInv'
<1>1. /\ tally' = NothingYet /\ enabled' = Labels /\ bad' \subseteq Labels
      /\ remaining' = ProbeBudget
      /\ result' \in {Canceled} \union (IF bad' = {} THEN {Valid} ELSE Invalids(bad'))
  BY DEF CheckValid
<1>2. tally'.reported = {} /\ tally'.failed = 0 /\ ~tally'.done /\ ProbeBudget \in Nat
  BY <1>1, BoundsAssumption DEF NothingYet
<1>3. Cardinality(tally'.reported) = 0
  BY <1>2, FS_EmptySet
<1>4. Proved' => bad' = {}
  BY <1>1 DEF Proved, Canceled, Invalids
<1>5. Reports' => result'.err \in bad'
  BY <1>1 DEF Reports, Canceled, Valid, Invalids
<1>6. ProbeShape'
  BY <1>1, <1>2, <1>3, <1>4, <1>5 DEF ProbeShape
<1> QED BY <1>2, <1>6 DEF FoundInv, FailuresFound

\* Every turn that goes on reports one more failing assert.
LEMMA ProbeAgainFound == ASSUME IInv, FoundInv, ProbeAgain PROVE FoundInv'
<1> DEFINE e == result.err
<1>0. \A l \in Labels : l \in Int
  BY BoundsAssumption DEF Labels
<1>1. /\ pc = "probe" /\ CanProbe /\ Tell /\ SpendProbe
      /\ UNCHANGED <<bad, op>> /\ enabled' = StillEnabled(onlyEarlier')
      /\ result' \in Answers(enabled')
  BY DEF ProbeAgain, Observe
<1>2. Reports /\ ~Proved
  BY <1>1 DEF CanProbe, Reports, Proved
<1>3. e \in enabled \intersect bad /\ enabled \subseteq Labels /\ bad \subseteq Labels
  BY <1>1, <1>2 DEF FoundInv, ProbeShape, IInv, DriverTypes
<1>4. /\ tally'.reported = tally.reported \union {e}
      /\ Level(op.kind) = "Error" => tally'.failed = tally.failed + 1
      /\ tally'.done = FALSE
  BY <1>1, <1>2 DEF Tell, Verdict
<1>5. /\ tally.reported \subseteq bad \ enabled
      /\ \A m \in bad : m \in enabled \/ \E l \in tally.reported : l <= m
      /\ ~onlyEarlier => bad \subseteq enabled \union tally.reported
      /\ remaining + Cardinality(tally.reported) >= ProbeBudget
      /\ Level(op.kind) = "Error" => tally.failed = Cardinality(tally.reported)
  BY <1>1 DEF FoundInv, ProbeShape
<1>6. Cardinality(tally'.reported) = Cardinality(tally.reported) + 1
  <2>1. e \notin tally.reported /\ tally.reported \in SUBSET Labels
    BY <1>3, <1>5
  <2>2. IsFiniteSet(tally.reported)
    BY <2>1, LabelsFinite
  <2> QED BY <1>4, <2>1, <2>2, FS_AddElement
<1>7. enabled' \subseteq enabled \ {e}
  <2>1. e \in Int
    BY <1>0, <1>3
  <2>2. ~(e < e)
    BY <2>1
  <2> QED BY <1>1, <2>2 DEF StillEnabled
<1>8. tally'.reported \subseteq bad' \ enabled'
  BY <1>1, <1>3, <1>4, <1>5, <1>7
<1>9. \A m \in bad : m \in enabled' \/ \E l \in tally'.reported : l <= m
  <2> SUFFICES ASSUME NEW m \in bad, m \notin enabled'
               PROVE  \E l \in tally'.reported : l <= m
    OBVIOUS
  <2>1. m \in Int /\ e \in Int
    BY <1>0, <1>3
  <2>2. CASE m \in enabled
    <3>1. ~(m < e)
      BY <1>1, <2>1, <2>2 DEF StillEnabled
    <3>2. e <= m
      BY <2>1, <3>1
    <3> QED BY <1>4, <3>2
  <2>3. CASE m \notin enabled
    BY <1>4, <1>5, <2>3
  <2> QED BY <2>2, <2>3
<1>10. ~onlyEarlier' => bad \subseteq enabled' \union tally'.reported
  <2> SUFFICES ASSUME ~onlyEarlier' PROVE bad \subseteq enabled' \union tally'.reported
    OBVIOUS
  <2>1. ~onlyEarlier
    BY <1>1 DEF SpendProbe
  <2>2. enabled' = enabled \ {e}
    BY <1>1 DEF StillEnabled
  <2> QED BY <1>4, <1>5, <2>1, <2>2
<1>11. remaining' + Cardinality(tally'.reported) >= ProbeBudget
  <2>1. remaining' = remaining \/ remaining' = remaining - 1
    BY <1>1 DEF SpendProbe
  <2>2. remaining \in Int /\ ProbeBudget \in Int
    BY BoundsAssumption DEF IInv, DriverTypes
  <2>3. Cardinality(tally.reported) \in Nat
    <3>1. tally.reported \in SUBSET Labels
      BY <1>3, <1>5
    <3> QED BY <3>1, LabelsFinite
  <2> QED BY <1>5, <1>6, <2>1, <2>2, <2>3
<1>12. Proved' => enabled' \intersect bad = {}
  BY <1>1 DEF Answers, Proved, Canceled, Invalids
<1>13. Reports' => result'.err \in enabled' \intersect bad
  BY <1>1 DEF Answers, Reports, Canceled, Valid, Invalids
<1>14. Level(op.kind) = "Error" => tally'.failed = Cardinality(tally'.reported)
  BY <1>4, <1>5, <1>6
<1>15. ProbeShape'
  BY <1>1, <1>8, <1>9, <1>10, <1>11, <1>12, <1>13, <1>14 DEF ProbeShape
<1> QED BY <1>4, <1>15 DEF FoundInv, FailuresFound

\* Reports that use up the budget and fall short of no failing assert in number
\* are all of them.
LEMMA BudgetFindsAll ==
  ASSUME NEW S \in SUBSET bad, bad \subseteq Labels,
         Cardinality(S) >= ProbeBudget, Cardinality(bad) <= ProbeBudget
  PROVE  S = bad
<1>1. IsFiniteSet(bad) /\ Cardinality(bad) \in Nat /\ Cardinality(S) \in Nat
  BY LabelsFinite
<1>2. Cardinality(S) <= Cardinality(bad)
  BY <1>1, FS_Subset
<1>3. Cardinality(S) = Cardinality(bad)
  BY <1>1, <1>2, BoundsAssumption
<1> QED BY <1>1, <1>3, FS_Subset

\* The proof that ends the probing leaves no failing assert unaccounted for.
LEMMA ProbeEndsFound == ASSUME IInv, FoundInv, ProbeEnds PROVE FoundInv'
<1>1. /\ pc = "probe" /\ ~CanProbe /\ Tell /\ pc' = "op"
      /\ UNCHANGED <<op, bad, result, remaining, onlyEarlier>>
  BY DEF ProbeEnds, Observe
<1>2. ProbeShape'
  BY <1>1 DEF ProbeShape
<1>3. FailuresFound'
  <2> SUFFICES ASSUME Proved' \/ (result'.model /\ result'.err # NoLabel), bad # {}
               PROVE  /\ \A m \in bad : \E l \in tally'.reported : l <= m
                      /\ Cardinality(bad) <= ProbeBudget => tally'.reported = bad
                      /\ Level(op.kind) = "Error" =>
                           tally'.failed = Cardinality(tally'.reported)
    BY <1>1 DEF FailuresFound
  <2>1. Proved
    <3>1. result \in Results
      BY DEF IInv, DriverTypes
    <3>2. result.model => result.tag = "Invalid"
      BY <3>1 DEF Results, Valid, Canceled, Invalids
    <3> QED BY <1>1, <3>2 DEF CanProbe, Proved
  <2>2. ~first
    BY <1>1, <2>1 DEF IInv, TallyShape
  <2>3. tally'.reported = tally.reported /\ tally'.failed = tally.failed
    <3>1. ~Reports /\ ~Verdict
      BY <2>1, <2>2 DEF Reports, Proved, Verdict
    <3>2. tally'.reported = tally.reported /\ tally'.failed = tally.failed + 0
      BY <1>1, <3>1 DEF Tell
    <3> QED BY <3>2 DEF IInv, DriverTypes
  <2>4. /\ tally.reported \subseteq bad
        /\ enabled \intersect bad = {}
        /\ \A m \in bad : m \in enabled \/ \E l \in tally.reported : l <= m
        /\ ~onlyEarlier => bad \subseteq enabled \union tally.reported
        /\ remaining + Cardinality(tally.reported) >= ProbeBudget
        /\ Level(op.kind) = "Error" => tally.failed = Cardinality(tally.reported)
    BY <1>1, <2>1 DEF FoundInv, ProbeShape
  <2>5. bad \subseteq Labels /\ (onlyEarlier <=> remaining = 0)
    BY DEF IInv, DriverTypes, BudgetHolds
  <2>6. Cardinality(bad) <= ProbeBudget => tally.reported = bad
    <3>1. CASE ~onlyEarlier
      BY <2>4, <3>1
    <3>2. CASE onlyEarlier
      <4>1. Cardinality(tally.reported) >= ProbeBudget
        <5>1. Cardinality(tally.reported) \in Nat /\ ProbeBudget \in Nat
          <6>1. tally.reported \in SUBSET Labels
            BY <2>4, <2>5
          <6> QED BY <6>1, LabelsFinite, BoundsAssumption
        <5> QED BY <2>4, <2>5, <3>2, <5>1
      <4> QED BY <2>4, <2>5, <4>1, BudgetFindsAll
    <3> QED BY <3>1, <3>2
  <2> QED BY <2>3, <2>4, <2>6
<1> QED BY <1>2, <1>3 DEF FoundInv

\* No other step probes, and none touches a finished query but to forget it.
LEMMA OtherFound ==
  ASSUME FoundInv, pc' # "probe",
         ~tally'.done \/ UNCHANGED <<op, bad, result, tally>>
  PROVE  FoundInv'
<1>1. ProbeShape'
  BY DEF ProbeShape
<1>2. FailuresFound'
  BY DEF FoundInv, FailuresFound, Proved
<1> QED BY <1>1, <1>2 DEF FoundInv

LEMMA FoundStep == IInv /\ FoundInv /\ [Next]_vars => FoundInv'
<1> SUFFICES ASSUME IInv, FoundInv, [Next]_vars PROVE FoundInv'
  OBVIOUS
<1>1. CASE ModuleFails \/ StartModule \/ AllModulesDone \/ DeclsFail \/ DeclsFed
  BY <1>1, OtherFound
     DEF ModuleFails, StartModule, AllModulesDone, DeclsFail, DeclsFed, Fail, opVars, queryVars
<1>2. CASE NextFunction \/ NoMoreFunctions \/ GeneratorFails \/ NoMoreOps
  BY <1>2, OtherFound
     DEF NextFunction, NoMoreFunctions, GeneratorFails, NoMoreOps, Fail, opVars, queryVars
<1>3. CASE CloseOp \/ RetryFails
  BY <1>3, OtherFound DEF CloseOp, RetryFails, Fail, opVars, queryVars
<1>4. CASE OpenOp
  <2>1. ~tally'.done /\ pc' = "op"
    BY <1>4 DEF OpenOp, NothingYet
  <2> QED BY <2>1, OtherFound
<1>5. CASE CheckValid \/ ProbeAgain \/ ProbeEnds
  BY <1>5, CheckValidFound, ProbeAgainFound, ProbeEndsFound
<1>6. CASE UNCHANGED vars
  BY <1>6 DEF FoundInv, ProbeShape, FailuresFound, Proved, Reports, vars, opVars, queryVars
<1> QED BY <1>1, <1>2, <1>3, <1>4, <1>5, <1>6 DEF Next

\* Unless the solver gives up, the user learns of the earliest failing assert of
\* a query whatever the budget, and of all of them if the budget allows, each
\* one once.
THEOREM FailuresAlwaysFound == Spec => []FailuresFound
<1>1. Init => FoundInv
  BY DEF Init, FoundInv, ProbeShape, FailuresFound, NothingYet
<1>2. FoundInv => FailuresFound
  BY DEF FoundInv
<1> QED BY <1>1, <1>2, FoundStep, Invariance, PTL DEF Spec

=============================================================================
