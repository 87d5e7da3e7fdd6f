--------------------------- MODULE EvaluationProofs ---------------------------
(***************************************************************************)
(* Theorems about module Evaluation, for every plan, whatever its commands *)
(* and its validators do and whatever is corrupted between its phases.     *)
(***************************************************************************)
EXTENDS Evaluation, FiniteSetTheorems, TLAPS

-----------------------------------------------------------------------------
(***************************************************************************)
(* Types.  The results are those of the first i - 1 checks, in order.      *)
(***************************************************************************)
Code ==
  {"CHECK_SKIPPED", "DEADLINE_EXCEEDED", "COMMAND_TIMEOUT", "TASK_BUDGET_EXCEEDED", "COMMAND_FAILED",
   "SANDBOX_UNAVAILABLE", "TOOLCHAIN_UNRESOLVED", "INFRASTRUCTURE_FAILURE", "FINDING"}

Result ==
  [shaped : {TRUE}, check : Check, binding : {Binding[c] : c \in Check}, outcome : Outcome,
   codes : SUBSET Code, evidence : BOOLEAN, late : BOOLEAN]

Controls ==
  /\ pc \in {"load", "base", "candidate", "resolve", "check", "builtin", "command", "running", "verify", "done"}
  /\ clock \in {"running", "closing", "past"}
  /\ halt \in {"none", "CHECK_SKIPPED", "DEADLINE_EXCEEDED"}
  /\ returned \in {"none", "PROMOTABLE", "BLOCKED", "AUTHORITY", "INFRASTRUCTURE_FAILURE", "THROWN",
                   "DOCUMENT_BOUNDS_EXCEEDED", "EVIDENCE_MISSING", "EVIDENCE_MUTATED",
                   "DISPOSITION_MISMATCH", "SCHEMA_VIOLATION"}
  /\ ran \in [Command -> Executed \cup Unrun \cup {"unlaunched"}]
  /\ reports \subseteq Command
  /\ worktrees \subseteq {"base", "candidate", "partial"}
  /\ dirty \subseteq Planted
  /\ maxRefs \in RefLimits

Places ==
  /\ i \in Nat \ {0} /\ k \in Nat \ {0}
  /\ i <= Len(Plan) + 1
  /\ results \in Seq(Result) /\ Len(results) = i - 1
  /\ \A n \in DOMAIN results : results[n].check = Plan[n]
  /\ pc \in {"builtin", "command", "running"} => i <= Len(Plan)
  /\ pc = "builtin" => Validator[Plan[i]] \in Builtins
  /\ pc = "running" => k <= Len(Commands[Plan[i]])

TypeInv == Controls /\ Places

\* The current check of the plan is a check.
LEMMA PlanCheck == \A n \in 1 .. Len(Plan) : Plan[n] \in Check
BY EvaluationAssumption

\* Every position of a check's commands holds a command.
LEMMA CommandTypes ==
  \A c \in Check : Len(Commands[c]) \in Nat /\ \A n \in 1 .. Len(Commands[c]) : Commands[c][n] \in Command
<1> SUFFICES ASSUME NEW c \in Check
             PROVE  Len(Commands[c]) \in Nat /\ \A n \in 1 .. Len(Commands[c]) : Commands[c][n] \in Command
  OBVIOUS
<1>1. Commands[c] \in Seq(Command)
  BY EvaluationAssumption
<1> QED BY <1>1

LEMMA OfTypes == \A c \in Check : Of(c) \subseteq Command
<1> SUFFICES ASSUME NEW c \in Check, NEW n \in DOMAIN Commands[c] PROVE Commands[c][n] \in Command
  BY DEF Of
<1>1. Commands[c] \in Seq(Command)
  BY EvaluationAssumption
<1> QED BY <1>1

\* A result that the loop writes for a check of the plan is well typed.
LEMMA ResultTypes ==
  ASSUME NEW c \in Check, NEW outcome \in Outcome, NEW codes \in SUBSET Code, NEW evidence \in BOOLEAN
  PROVE  ResultOf(c, outcome, codes, evidence) \in Result
BY DEF ResultOf, Result

\* Appending the result of the current check keeps the results in plan order.
LEMMA AppendPlaces ==
  ASSUME Places, i <= Len(Plan), NEW r \in Result, r.check = Plan[i],
         results' = Append(results, r), i' = i + 1
  PROVE  /\ i' \in Nat \ {0} /\ i' <= Len(Plan) + 1
         /\ results' \in Seq(Result) /\ Len(results') = i' - 1
         /\ \A n \in DOMAIN results' : results'[n].check = Plan[n]
<1>1. Len(Plan) \in Nat
  BY EvaluationAssumption
<1>2. results \in Seq(Result) /\ Len(results) = i - 1 /\ i \in Nat \ {0}
  BY DEF Places
<1>3. /\ results' \in Seq(Result) /\ Len(results') = i
      /\ results'[i] = r
      /\ \A n \in 1 .. (i - 1) : results'[n] = results[n]
  BY <1>2
<1>4. ASSUME NEW n \in DOMAIN results' PROVE results'[n].check = Plan[n]
  <2>1. n \in 1 .. i
    BY <1>3, <1>4, <1>2
  <2>2. CASE n = i
    BY <2>2, <1>3
  <2>3. CASE n # i
    BY <2>1, <2>3, <1>2, <1>3 DEF Places
  <2> QED BY <2>2, <2>3
<1> QED BY <1>1, <1>2, <1>3, <1>4

\* What the bottom of the loop does to the types.
LEMMA RecordTypes ==
  ASSUME Places, i <= Len(Plan), NEW outcome \in Outcome, NEW codes \in SUBSET Code,
         NEW refs \in Nat, Record(outcome, codes, refs)
  PROVE  /\ i' \in Nat \ {0} /\ i' <= Len(Plan) + 1
         /\ results' \in Seq(Result) /\ Len(results') = i' - 1
         /\ \A n \in DOMAIN results' : results'[n].check = Plan[n]
         /\ halt' \in {halt, "CHECK_SKIPPED"}
         /\ pc' = "check"
<1> DEFINE c == Plan[i]
           r == IF refs <= maxRefs THEN ResultOf(c, outcome, codes, refs > 0)
                ELSE ResultOf(c, "INFRA_FAILURE", {"INFRASTRUCTURE_FAILURE"}, FALSE)
<1>1. c \in Check
  BY PlanCheck, EvaluationAssumption DEF Places
<1>2. r \in Result
  <2>1. ResultOf(c, outcome, codes, refs > 0) \in Result
    BY <1>1, ResultTypes, (refs > 0) \in BOOLEAN
  <2>2. ResultOf(c, "INFRA_FAILURE", {"INFRASTRUCTURE_FAILURE"}, FALSE) \in Result
    BY <1>1, ResultTypes, "INFRA_FAILURE" \in Outcome, {"INFRASTRUCTURE_FAILURE"} \in SUBSET Code
       DEF Outcome, Code
  <2> QED BY <2>1, <2>2
<1>3. r.check = Plan[i]
  BY DEF ResultOf
<1>4. results' = Append(results, r) /\ i' = i + 1 /\ pc' = "check" /\ halt' \in {halt, "CHECK_SKIPPED"}
  BY DEF Record
<1> HIDE DEF r
<1> QED BY <1>2, <1>3, <1>4, AppendPlaces

\* The reason codes that a check of commands reports are known ones.
LEMMA CodesTyped ==
  ASSUME Controls, NEW c \in Check
  PROVE  PlanCodes(c) \in SUBSET Code /\ TargetCodes(c) \in SUBSET Code
<1>1. \A status \in Statuses(c) : CodesOf(status) \in SUBSET Code
  <2> SUFFICES ASSUME NEW status \in Statuses(c) PROVE CodesOf(status) \in SUBSET Code
    OBVIOUS
  <2> QED BY DEF CodesOf, FailureCodes, Code
<1>2. PlanCodes(c) \in SUBSET Code
  BY <1>1 DEF PlanCodes, Code
<1> QED BY <1>2 DEF TargetCodes, Code

-----------------------------------------------------------------------------
LEMMA TypeInit == Init => TypeInv
<1> SUFFICES ASSUME Init PROVE TypeInv
  OBVIOUS
<1>1. Len(Plan) \in Nat
  BY EvaluationAssumption
<1>2. Controls
  BY DEF Init, Controls
<1>3. Places
  BY <1>1 DEF Init, Places
<1> QED BY <1>2, <1>3 DEF TypeInv

\* The number of commands of a check that ran is a number.
LEMMA RanCardinality == \A c \in Check : Cardinality(Ran(c)) \in Nat
<1> SUFFICES ASSUME NEW c \in Check PROVE Cardinality(Ran(c)) \in Nat
  OBVIOUS
<1>1. Commands[c] \in Seq(Command) /\ Len(Commands[c]) \in Nat
  BY EvaluationAssumption
<1>2. IsFiniteSet(1 .. Len(Commands[c]))
  BY <1>1, FS_Interval
<1>3. Commands[c] \in Surjection(1 .. Len(Commands[c]), Of(c))
  BY <1>1 DEF Surjection, Of
<1>4. IsFiniteSet(Of(c))
  BY <1>2, <1>3, FS_Surjection
<1>5. Ran(c) \in SUBSET Of(c)
  BY DEF Ran
<1> QED BY <1>4, <1>5, FS_Subset, FS_CardinalityType

LEMMA TypeStep == TypeInv /\ [Next]_vars => TypeInv'
<1> SUFFICES ASSUME TypeInv, [Next]_vars PROVE TypeInv'
  OBVIOUS
<1> USE DEF TypeInv
<1>0. Len(Plan) \in Nat /\ i \in Nat /\ k \in Nat
  BY EvaluationAssumption DEF Places
<1>1. CASE Reject \/ Load \/ AddWorktree \/ ResolvePaths \/ AddWorktreeFails \/ RemoveWorktree \/ Anchor \/ Tick
  <2>1. Controls'
    BY <1>1 DEF Controls, Reject, Load, AddWorktree, ResolvePaths, AddWorktreeFails, Refused, RemoveWorktree, Anchor, Tick, Return
  <2>2. Places'
    BY <1>1 DEF Places, Reject, Load, AddWorktree, ResolvePaths, AddWorktreeFails, Refused, RemoveWorktree, Anchor, Tick, Return
  <2> QED BY <2>1, <2>2
<1>2. CASE Skip
  <2>1. Plan[i] \in Check /\ i <= Len(Plan)
    BY <1>0, <1>2, PlanCheck DEF Places, Skip
  <2>2. Halted \in {"CHECK_SKIPPED", "DEADLINE_EXCEEDED"}
    BY <1>2 DEF Skip, Halted, Controls
  <2>3. ResultOf(Plan[i], "SKIPPED", {Halted}, FALSE) \in Result
    BY <2>1, <2>2, ResultTypes, "SKIPPED" \in Outcome, {Halted} \in SUBSET Code DEF Outcome, Code
  <2>4. ResultOf(Plan[i], "SKIPPED", {Halted}, FALSE).check = Plan[i]
    BY DEF ResultOf
  <2>5. /\ i' \in Nat \ {0} /\ i' <= Len(Plan) + 1
        /\ results' \in Seq(Result) /\ Len(results') = i' - 1
        /\ \A n \in DOMAIN results' : results'[n].check = Plan[n]
    BY <1>2, <2>1, <2>3, <2>4, AppendPlaces DEF Skip
  <2>6. Controls'
    BY <1>2, <2>2 DEF Controls, Skip, Hook
  <2>7. Places'
    BY <1>2, <2>5 DEF Places, Skip
  <2> QED BY <2>6, <2>7
<1>3. CASE Begin
  <2>1. Controls'
    BY <1>3 DEF Controls, Begin, Hook
  <2>2. Places'
    BY <1>3 DEF Places, Begin
  <2> QED BY <2>1, <2>2
<1>4. CASE BuiltinEnds
  <2>1. PICK outcome \in Verdicts(Validator[Plan[i]]) :
          Record(outcome, BuiltinCodes[outcome],
                 IF Validator[Plan[i]] \in {"BINDING", "REPORTING"} /\ outcome # "INFRA_FAILURE" THEN 1 ELSE 0)
    BY <1>4 DEF BuiltinEnds
  <2>2. outcome \in Outcome /\ BuiltinCodes[outcome] \in SUBSET Code
    BY <2>1 DEF Verdicts, Outcome, BuiltinCodes, Code
  <2>3. i <= Len(Plan)
    BY <1>4 DEF BuiltinEnds, Places
  <2>4. /\ i' \in Nat \ {0} /\ i' <= Len(Plan) + 1
        /\ results' \in Seq(Result) /\ Len(results') = i' - 1
        /\ \A n \in DOMAIN results' : results'[n].check = Plan[n]
        /\ halt' \in {halt, "CHECK_SKIPPED"}
        /\ pc' = "check"
    BY <2>1, <2>2, <2>3, RecordTypes
  <2>5. Controls'
    BY <1>4, <2>4 DEF Controls, BuiltinEnds
  <2>6. Places'
    BY <1>4, <2>4 DEF Places, BuiltinEnds
  <2> QED BY <2>5, <2>6
<1>5. ASSUME NEW status \in Executed \cup Unrun, Became(status)
      PROVE  /\ ran' \in [Command -> Executed \cup Unrun \cup {"unlaunched"}]
             /\ k' \in Nat \ {0}
  <2> DEFINE S == Executed \cup Unrun \cup {"unlaunched"}
  <2>1. ran \in [Command -> S] /\ status \in S
    BY <1>5 DEF Controls
  <2> HIDE DEF S
  <2>2. ran' \in [Command -> S]
    BY <1>5, <2>1 DEF Became
  <2>3. k' \in Nat \ {0}
    BY <1>0, <1>5 DEF Became
  <2> QED BY <2>2, <2>3 DEF S
<1>6. CASE RefuseCommand
  <2>1. /\ ran' \in [Command -> Executed \cup Unrun \cup {"unlaunched"}]
        /\ k' \in Nat \ {0}
    BY <1>5, <1>6, "refused" \in Executed \cup Unrun DEF RefuseCommand, Unrun
  <2>2. Controls'
    BY <1>6, <2>1 DEF Controls, RefuseCommand
  <2>3. Places'
    BY <1>6, <2>1 DEF Places, RefuseCommand, AtCommand
  <2> QED BY <2>2, <2>3
<1>7. CASE CommandUnrun
  <2>1. /\ ran' \in [Command -> Executed \cup Unrun \cup {"unlaunched"}]
        /\ k' \in Nat \ {0}
    BY <1>5, <1>7 DEF CommandUnrun, Unrun
  <2>2. Controls'
    BY <1>7, <2>1 DEF Controls, CommandUnrun
  <2>3. Places'
    BY <1>7, <2>1 DEF Places, CommandUnrun, AtCommand
  <2> QED BY <2>2, <2>3
<1>8. CASE LaunchCommand
  <2>1. Controls'
    BY <1>8 DEF Controls, LaunchCommand
  <2>2. Places'
    BY <1>8 DEF Places, LaunchCommand, AtCommand
  <2> QED BY <2>1, <2>2
<1>9. Endings \subseteq Executed
  BY DEF Endings, Executed
<1>10. CASE CommandEnds
  <2>1. /\ ran' \in [Command -> Executed \cup Unrun \cup {"unlaunched"}]
        /\ k' \in Nat \ {0}
    BY <1>5, <1>9, <1>10 DEF CommandEnds
  <2>2. Controls'
    BY <1>10, <2>1 DEF Controls, CommandEnds
  <2>3. Places'
    BY <1>10, <2>1 DEF Places, CommandEnds
  <2> QED BY <2>2, <2>3
<1>11. CASE OutputOverflows
  <2>1. /\ ran' \in [Command -> Executed \cup Unrun \cup {"unlaunched"}]
        /\ k' \in Nat \ {0}
    BY <1>5, <1>9, <1>11 DEF OutputOverflows
  <2>2. i <= Len(Plan)
    BY <1>11 DEF OutputOverflows, Places
  <2>3. Record("INFRA_FAILURE", {"INFRASTRUCTURE_FAILURE"}, 0)
    BY <1>11 DEF OutputOverflows
  <2>4. /\ i' \in Nat \ {0} /\ i' <= Len(Plan) + 1
        /\ results' \in Seq(Result) /\ Len(results') = i' - 1
        /\ \A n \in DOMAIN results' : results'[n].check = Plan[n]
        /\ halt' \in {halt, "CHECK_SKIPPED"}
        /\ pc' = "check"
    BY <2>2, <2>3, RecordTypes, "INFRA_FAILURE" \in Outcome, {"INFRASTRUCTURE_FAILURE"} \in SUBSET Code
       DEF Outcome, Code
  <2>5. Controls'
    BY <1>11, <2>1, <2>4 DEF Controls, OutputOverflows
  <2>6. Places'
    BY <2>1, <2>4 DEF Places
  <2> QED BY <2>5, <2>6
<1>12. CASE CommandsEnd
  <2> DEFINE c == Plan[i]
             codes == IF Validator[c] = "TARGET" THEN TargetCodes(c) ELSE PlanCodes(c)
             outcome == IF Statuses(c) \cap Broken # {} THEN "INFRA_FAILURE"
                        ELSE IF codes # {} THEN "FIRED" ELSE "PASS"
             refs == (IF Validator[c] = "TARGET" THEN 2 ELSE 3) * Cardinality(Ran(c))
  <2>1. i <= Len(Plan) /\ c \in Check
    BY <1>0, <1>12, PlanCheck DEF CommandsEnd, Places
  <2>2. codes \in SUBSET Code
    BY <2>1, CodesTyped
  <2>3. outcome \in Outcome
    BY DEF Outcome
  <2>4. refs \in Nat
    BY <2>1, RanCardinality
  <2>5. Record(outcome, codes, refs) /\ ran' = ran /\ k' = k /\ reports' \in {reports, reports \cup Ran(c)}
        /\ UNCHANGED <<clock, worktrees, dirty, returned, maxRefs>>
    BY <1>12 DEF CommandsEnd
  <2>6. Ran(c) \subseteq Command
    BY <2>1, OfTypes DEF Ran
  <2> HIDE DEF c, codes, outcome, refs
  <2>7. /\ i' \in Nat \ {0} /\ i' <= Len(Plan) + 1
        /\ results' \in Seq(Result) /\ Len(results') = i' - 1
        /\ \A n \in DOMAIN results' : results'[n].check = Plan[n]
        /\ halt' \in {halt, "CHECK_SKIPPED"}
        /\ pc' = "check"
    BY <2>1, <2>2, <2>3, <2>4, <2>5, RecordTypes
  <2>8. Controls'
    BY <2>5, <2>6, <2>7 DEF Controls
  <2>9. Places'
    BY <2>5, <2>7 DEF Places
  <2> QED BY <2>8, <2>9
<1>13. CASE Verify
  <2>1. Controls'
    BY <1>13 DEF Controls, Verify, Return, SelfErrors, Disposition
  <2>2. Places'
    BY <1>13 DEF Places, Verify, Return
  <2> QED BY <2>1, <2>2
<1>14. CASE UNCHANGED vars
  BY <1>14 DEF Controls, Places, vars
<1> QED
  BY <1>1, <1>2, <1>3, <1>4, <1>6, <1>7, <1>8, <1>10, <1>11, <1>12, <1>13, <1>14 DEF Next, Evaluate

LEMMA TypesHold == TypeInv => TypeOK
<1> SUFFICES ASSUME TypeInv PROVE TypeOK
  OBVIOUS
<1>1. Len(Plan) \in Nat
  BY EvaluationAssumption
<1>2. i \in 1 .. (Len(Plan) + 1) /\ k \in Nat /\ Len(results) < Len(Plan) + 1
  BY <1>1 DEF TypeInv, Places
<1>3. \A n \in DOMAIN results : results[n].check = Plan[n] /\ results[n].outcome \in Outcome
  <2>1. \A n \in DOMAIN results : results[n] \in Result
    BY DEF TypeInv, Places
  <2> QED BY <2>1 DEF TypeInv, Places, Result
<1> QED BY <1>2, <1>3 DEF TypeInv, Controls, TypeOK

LEMMA TypeInvAlways == Spec => []TypeInv
BY TypeInit, TypeStep, PTL DEF Spec

\* Every reachable state of an evaluation is well typed, and the results are
\* those of the checks that came first in the plan.
THEOREM TypeCorrectness == Spec => []TypeOK
BY TypeInvAlways, TypesHold, PTL

-----------------------------------------------------------------------------
(***************************************************************************)
(* Halting and worktrees.                                                  *)
(***************************************************************************)
\* What the bottom of the loop does to the results.
LEMMA RecordEffect ==
  ASSUME Places, i <= Len(Plan), NEW outcome, NEW codes, NEW refs, Record(outcome, codes, refs)
  PROVE  /\ DOMAIN results = 1 .. (i - 1) /\ DOMAIN results' = 1 .. i
         /\ \A n \in 1 .. (i - 1) : results'[n] = results[n]
         /\ results'[i].shaped /\ results'[i].check = Plan[i] /\ results'[i].binding = Binding[Plan[i]]
         /\ results'[i].outcome \in {outcome, "INFRA_FAILURE"}
         /\ halt' = IF Halting(results'[i]) THEN "CHECK_SKIPPED" ELSE halt
<1> DEFINE c == Plan[i]
           r == IF refs <= maxRefs THEN ResultOf(c, outcome, codes, refs > 0)
                ELSE ResultOf(c, "INFRA_FAILURE", {"INFRASTRUCTURE_FAILURE"}, FALSE)
<1>1. /\ r.shaped /\ r.check = Plan[i] /\ r.binding = Binding[Plan[i]]
      /\ r.outcome \in {outcome, "INFRA_FAILURE"}
  BY DEF ResultOf
<1>2. results' = Append(results, r) /\ halt' = IF Halting(r) THEN "CHECK_SKIPPED" ELSE halt
  BY DEF Record
<1> HIDE DEF r
<1>3. results \in Seq(Result) /\ Len(results) = i - 1 /\ i \in Nat \ {0}
  BY DEF Places
<1>4. /\ DOMAIN results = 1 .. (i - 1) /\ DOMAIN results' = 1 .. i
      /\ \A n \in 1 .. (i - 1) : results'[n] = results[n]
      /\ results'[i] = r
  BY <1>2, <1>3
<1> QED BY <1>1, <1>2, <1>4

\* What skipping the current check does to them.
LEMMA SkipEffect ==
  ASSUME Places, Skip
  PROVE  /\ DOMAIN results = 1 .. (i - 1) /\ DOMAIN results' = 1 .. i
         /\ \A n \in 1 .. (i - 1) : results'[n] = results[n]
         /\ results'[i].shaped /\ results'[i].check = Plan[i] /\ results'[i].binding = Binding[Plan[i]]
         /\ results'[i].outcome = "SKIPPED" /\ results'[i].codes = {Halted}
         /\ results'[i].late = (clock = "past")
<1> DEFINE r == ResultOf(Plan[i], "SKIPPED", {Halted}, FALSE)
<1>1. /\ r.shaped /\ r.check = Plan[i] /\ r.binding = Binding[Plan[i]] /\ r.outcome = "SKIPPED"
      /\ r.codes = {Halted} /\ r.late = (clock = "past")
  BY DEF ResultOf
<1>2. results' = Append(results, r)
  BY DEF Skip
<1> HIDE DEF r
<1>3. results \in Seq(Result) /\ Len(results) = i - 1 /\ i \in Nat \ {0}
  BY DEF Places
<1>4. /\ DOMAIN results = 1 .. (i - 1) /\ DOMAIN results' = 1 .. i
      /\ \A n \in 1 .. (i - 1) : results'[n] = results[n]
      /\ results'[i] = r
  BY <1>2, <1>3
<1> QED BY <1>1, <1>4

\* Only three steps reach the bottom of the loop, with a check at hand.
LEMMA RecordSteps ==
  ASSUME Places, BuiltinEnds \/ OutputOverflows \/ CommandsEnd
  PROVE  /\ i <= Len(Plan) /\ i' = i + 1 /\ pc' = "check"
         /\ \E outcome, codes, refs : outcome \in Outcome \ {"SKIPPED"} /\ Record(outcome, codes, refs)
         /\ UNCHANGED <<clock, worktrees, dirty, returned>>
<1>1. i <= Len(Plan)
  BY DEF Places, BuiltinEnds, OutputOverflows, CommandsEnd
<1>2. \E outcome, codes, refs : outcome \in Outcome \ {"SKIPPED"} /\ Record(outcome, codes, refs)
  BY DEF BuiltinEnds, Verdicts, OutputOverflows, CommandsEnd, Outcome
<1>3. i' = i + 1 /\ pc' = "check"
  BY <1>2 DEF Record
<1> QED BY <1>1, <1>2, <1>3 DEF BuiltinEnds, OutputOverflows, CommandsEnd

\* Without a halt code no result so far halts, and no check is under way with one.
HaltKept ==
  /\ halt = "none" => \A n \in DOMAIN results : ~Halting(results[n])
  /\ pc \in {"builtin", "command", "running"} => halt = "none"

LEMMA HaltStep == TypeInv /\ HaltKept /\ [Next]_vars => HaltKept'
<1> SUFFICES ASSUME TypeInv, HaltKept, [Next]_vars PROVE HaltKept'
  OBVIOUS
<1> USE DEF TypeInv
<1>1. CASE BuiltinEnds \/ OutputOverflows \/ CommandsEnd
  <2>1. i <= Len(Plan) /\ pc' = "check"
    BY <1>1, RecordSteps
  <2>2. PICK outcome, codes, refs : outcome \in Outcome \ {"SKIPPED"} /\ Record(outcome, codes, refs)
    BY <1>1, RecordSteps
  <2>3. /\ DOMAIN results = 1 .. (i - 1) /\ DOMAIN results' = 1 .. i
        /\ \A n \in 1 .. (i - 1) : results'[n] = results[n]
        /\ halt' = IF Halting(results'[i]) THEN "CHECK_SKIPPED" ELSE halt
    BY <2>1, <2>2, RecordEffect
  <2>4. ASSUME halt' = "none", NEW n \in DOMAIN results' PROVE ~Halting(results'[n])
    <3>1. ~Halting(results'[i]) /\ halt = "none"
      BY <2>3, <2>4
    <3>2. n = i \/ n \in 1 .. (i - 1)
      BY <2>3 DEF Places
    <3> QED BY <2>3, <3>1, <3>2 DEF HaltKept
  <2> QED BY <2>1, <2>4 DEF HaltKept, Halting
<1>2. CASE Skip
  BY <1>2 DEF HaltKept, Skip, Halted, Controls
<1>3. CASE Begin
  BY <1>3 DEF HaltKept, Begin, Halted, Halting
<1>4. CASE Reject \/ Load \/ AddWorktree \/ ResolvePaths \/ AddWorktreeFails \/ RemoveWorktree \/ Anchor \/ Verify \/ Tick
  BY <1>4 DEF HaltKept, Halting, Reject, Load, AddWorktree, ResolvePaths, AddWorktreeFails, Refused, RemoveWorktree, Anchor,
              Verify, Tick, Return
<1>5. CASE RefuseCommand \/ CommandUnrun \/ LaunchCommand \/ CommandEnds
  BY <1>5 DEF HaltKept, Halting, RefuseCommand, CommandUnrun, LaunchCommand, CommandEnds, AtCommand
<1>6. CASE UNCHANGED vars
  BY <1>6 DEF HaltKept, Halting, vars
<1> QED BY <1>1, <1>2, <1>3, <1>4, <1>5, <1>6 DEF Next, Evaluate

\* A halt has a cause that was not itself a skip, and the skips carry its code.
SkipsKept ==
  /\ halt = "CHECK_SKIPPED" =>
       \E m \in DOMAIN results : Halting(results[m]) /\ results[m].outcome # "SKIPPED"
  /\ halt = "DEADLINE_EXCEEDED" => clock = "past"
  /\ \A n \in DOMAIN results : results[n].outcome = "SKIPPED" =>
       /\ halt # "none" /\ results[n].codes = {halt}
       /\ halt = "DEADLINE_EXCEEDED" => results[n].late
       /\ \A m \in DOMAIN results : n <= m => results[m].outcome = "SKIPPED"

LEMMA SkipsStep == TypeInv /\ HaltKept /\ SkipsKept /\ [Next]_vars => SkipsKept'
<1> SUFFICES ASSUME TypeInv, HaltKept, SkipsKept, [Next]_vars PROVE SkipsKept'
  OBVIOUS
<1>0. /\ DOMAIN results = 1 .. (i - 1) /\ i \in Nat \ {0}
      /\ halt \in {"none", "CHECK_SKIPPED", "DEADLINE_EXCEEDED"}
  BY DEF TypeInv, Places, Controls
<1>1. CASE BuiltinEnds \/ OutputOverflows \/ CommandsEnd
  <2>1. i <= Len(Plan) /\ clock' = clock /\ halt = "none"
    BY <1>1, RecordSteps DEF TypeInv, HaltKept, BuiltinEnds, OutputOverflows, CommandsEnd
  <2>2. PICK outcome, codes, refs : outcome \in Outcome \ {"SKIPPED"} /\ Record(outcome, codes, refs)
    BY <1>1, RecordSteps DEF TypeInv
  <2>3. /\ DOMAIN results' = 1 .. i /\ \A n \in 1 .. (i - 1) : results'[n] = results[n]
        /\ results'[i].outcome # "SKIPPED"
        /\ halt' = IF Halting(results'[i]) THEN "CHECK_SKIPPED" ELSE halt
    BY <2>1, <2>2, RecordEffect DEF TypeInv
  <2>4. ASSUME NEW n \in DOMAIN results' PROVE results'[n].outcome # "SKIPPED"
    <3>1. n = i \/ n \in 1 .. (i - 1)
      BY <1>0, <2>3
    <3> QED BY <1>0, <2>1, <2>3, <3>1 DEF SkipsKept
  <2>5. halt' = "CHECK_SKIPPED" => Halting(results'[i]) /\ i \in DOMAIN results'
    BY <1>0, <2>1, <2>3
  <2>6. halt' # "DEADLINE_EXCEEDED"
    BY <2>1, <2>3
  <2> QED BY <2>3, <2>4, <2>5, <2>6 DEF SkipsKept, Halting
<1>2. CASE Skip
  <2>1. halt' = Halted /\ halt' # "none" /\ clock' = clock /\ (halt # "none" => halt' = halt)
        /\ (halt' = "DEADLINE_EXCEEDED" => clock = "past") /\ (halt' = "CHECK_SKIPPED" => halt = "CHECK_SKIPPED")
    BY <1>2 DEF Skip, Halted, SkipsKept
  <2>2. /\ DOMAIN results' = 1 .. i /\ \A n \in 1 .. (i - 1) : results'[n] = results[n]
        /\ results'[i].outcome = "SKIPPED" /\ results'[i].codes = {halt'}
        /\ halt' = "DEADLINE_EXCEEDED" => results'[i].late
    BY <1>2, <2>1, SkipEffect DEF TypeInv
  <2>3. ASSUME halt' = "CHECK_SKIPPED"
        PROVE  \E m \in DOMAIN results' : Halting(results'[m]) /\ results'[m].outcome # "SKIPPED"
    <3>1. PICK m \in 1 .. (i - 1) : Halting(results[m]) /\ results[m].outcome # "SKIPPED"
      BY <1>0, <2>1, <2>3 DEF SkipsKept
    <3>2. m \in DOMAIN results' /\ results'[m] = results[m]
      BY <1>0, <2>2
    <3> QED BY <3>1, <3>2
  <2>4. ASSUME NEW n \in DOMAIN results', results'[n].outcome = "SKIPPED"
        PROVE  /\ results'[n].codes = {halt'}
               /\ halt' = "DEADLINE_EXCEEDED" => results'[n].late
               /\ \A m \in DOMAIN results' : n <= m => results'[m].outcome = "SKIPPED"
    <3>1. CASE n = i
      BY <1>0, <2>2, <3>1
    <3>2. CASE n \in 1 .. (i - 1)
      <4>1. /\ halt # "none" /\ results[n].codes = {halt}
            /\ halt = "DEADLINE_EXCEEDED" => results[n].late
            /\ \A m \in 1 .. (i - 1) : n <= m => results[m].outcome = "SKIPPED"
        BY <1>0, <2>2, <2>4, <3>2 DEF SkipsKept
      <4>2. \A m \in DOMAIN results' : m = i \/ m \in 1 .. (i - 1)
        BY <1>0, <2>2
      <4> QED BY <2>1, <2>2, <3>2, <4>1, <4>2
    <3> QED BY <1>0, <2>2, <3>1, <3>2
  <2> QED BY <2>1, <2>3, <2>4 DEF SkipsKept, Halting
<1>3. CASE UNCHANGED <<results, halt>> /\ (clock' = clock \/ clock' = "past" \/ clock # "past")
  <2>1. clock = "past" => clock' = "past"
    BY <1>3
  <2> QED BY <1>3, <2>1 DEF SkipsKept, Halting
<1>4. Reject \/ Load \/ AddWorktree \/ ResolvePaths \/ AddWorktreeFails \/ Begin \/ RefuseCommand \/ CommandUnrun
        \/ LaunchCommand \/ CommandEnds \/ RemoveWorktree \/ Anchor \/ Verify \/ Tick \/ UNCHANGED vars
      => UNCHANGED <<results, halt>> /\ (clock' = clock \/ clock' = "past" \/ clock # "past")
  BY DEF Reject, Load, AddWorktree, ResolvePaths, AddWorktreeFails, Refused, Begin, RefuseCommand, CommandUnrun, LaunchCommand,
         CommandEnds, RemoveWorktree, Anchor, Verify, Tick, AtCommand, vars
<1> QED BY <1>1, <1>2, <1>3, <1>4 DEF Next, Evaluate

LEMMA SkipsExplained == TypeInv /\ HaltKept /\ SkipsKept => HaltIsFinal
<1> SUFFICES ASSUME TypeInv, HaltKept, SkipsKept, NEW n \in DOMAIN results, results[n].outcome = "SKIPPED"
             PROVE  /\ \A m \in n .. Len(results) :
                         results[m].outcome = "SKIPPED" /\ results[m].codes = results[n].codes
                    /\ \/ results[n].codes = {"CHECK_SKIPPED"} /\ \E m \in 1 .. (n - 1) : Halting(results[m])
                       \/ results[n].codes = {"DEADLINE_EXCEEDED"} /\ results[n].late
  BY DEF HaltIsFinal, HaltKept
<1>1. DOMAIN results = 1 .. Len(results) /\ Len(results) \in Nat
  BY DEF TypeInv, Places
<1>2. \A m \in n .. Len(results) : results[m].outcome = "SKIPPED" /\ results[m].codes = {halt}
  BY <1>1 DEF SkipsKept
<1>3. results[n].codes = {halt} /\ halt \in {"CHECK_SKIPPED", "DEADLINE_EXCEEDED"}
  BY DEF SkipsKept, TypeInv, Controls
<1>4. CASE halt = "CHECK_SKIPPED"
  <2>1. PICK m \in DOMAIN results : Halting(results[m]) /\ results[m].outcome # "SKIPPED"
    BY <1>4 DEF SkipsKept
  <2>2. ~(n <= m)
    BY <2>1 DEF SkipsKept
  <2>3. m \in 1 .. (n - 1)
    BY <1>1, <2>2
  <2> QED BY <1>2, <1>3, <1>4, <2>1, <2>3
<1>5. CASE halt = "DEADLINE_EXCEEDED"
  BY <1>2, <1>3, <1>5 DEF SkipsKept
<1> QED BY <1>3, <1>4, <1>5

\* Once a check is skipped all later ones are, for the same reason, and that
\* reason has a cause: an earlier check that failed, or the deadline.  And no
\* command runs after a failed integrity or admission check.
THEOREM HaltIsFinalAlways == Spec => []HaltIsFinal
<1>1. Init => HaltKept /\ SkipsKept
  BY DEF Init, HaltKept, SkipsKept
<1>2. HaltKept /\ SkipsKept /\ TypeInv /\ [Next]_vars => (HaltKept /\ SkipsKept)'
  BY HaltStep, SkipsStep
<1> QED BY <1>1, <1>2, TypeInvAlways, SkipsExplained, PTL DEF Spec

\* Where the worktrees can be, and when something has been returned.
WorktreesKept ==
  /\ pc \in {"load", "base", "verify"} => worktrees = {}
  /\ pc # "done" => returned = "none"
  /\ WorktreesRemoved

LEMMA WorktreesStep == TypeInv /\ WorktreesKept /\ [Next]_vars => WorktreesKept'
<1> SUFFICES ASSUME TypeInv, WorktreesKept, [Next]_vars PROVE WorktreesKept'
  OBVIOUS
<1> USE DEF TypeInv
<1>1. CASE BuiltinEnds \/ OutputOverflows \/ CommandsEnd
  <2>1. pc' = "check" /\ returned' = returned /\ pc # "done"
    BY <1>1, RecordSteps DEF BuiltinEnds, OutputOverflows, CommandsEnd
  <2> QED BY <2>1 DEF WorktreesKept, WorktreesRemoved
<1>2. CASE AddWorktree \/ ResolvePaths \/ AddWorktreeFails
  BY <1>2 DEF WorktreesKept, WorktreesRemoved, AddWorktree, ResolvePaths, AddWorktreeFails, Refused, Return
<1>3. CASE Reject \/ Load \/ RemoveWorktree \/ Anchor \/ Verify \/ Tick
  BY <1>3 DEF WorktreesKept, WorktreesRemoved, Reject, Load, RemoveWorktree, Anchor, Verify, Tick, Return
<1>4. CASE Skip \/ Begin \/ RefuseCommand \/ CommandUnrun \/ LaunchCommand \/ CommandEnds
  BY <1>4 DEF WorktreesKept, WorktreesRemoved, Skip, Begin, RefuseCommand, CommandUnrun, LaunchCommand,
              CommandEnds, AtCommand
<1>5. CASE UNCHANGED vars
  BY <1>5 DEF WorktreesKept, WorktreesRemoved, vars
<1> QED BY <1>1, <1>2, <1>3, <1>4, <1>5 DEF Next, Evaluate

LEMMA WorktreesKeptAlways == Spec => []WorktreesKept
<1>1. Init => WorktreesKept
  BY DEF Init, WorktreesKept, WorktreesRemoved
<1> QED BY <1>1, TypeInvAlways, WorktreesStep, PTL DEF Spec

\* However an evaluation ends (unless its process is killed), a worktree that was
\* made is left behind only when removing one threw out of the evaluation; one that
\* returns leaves at most the directory of a worktree that git refused, and none
\* when removals succeed.
THEOREM WorktreesRemovedAlways == Spec => []WorktreesRemoved
<1>1. WorktreesKept => WorktreesRemoved
  BY DEF WorktreesKept
<1> QED BY <1>1, WorktreesKeptAlways, PTL

-----------------------------------------------------------------------------
(***************************************************************************)
(* Promotion.                                                              *)
(***************************************************************************)
\* What a recorded pass of the n-th check stands for, now and later.  A check
\* of the last phase is followed by no other phase, hence by no hook.
Proven(n) ==
  /\ \A x \in Of(Plan[n]) : ran[x] = "passed"
  /\ Bounded => Of(Plan[n]) \subseteq reports
  /\ Validator[Plan[n]] = "STABILITY" /\ Phase[Plan[n]] = "PROMOTION_FINALIZATION" => "candidate" \notin dirty

PassesProven == \A n \in DOMAIN results : results[n].outcome = "PASS" => Proven(n)

\* The commands before the k-th one have all been dealt with.
Launched ==
  pc \in {"command", "running"} =>
    /\ Validator[Plan[i]] \notin Builtins
    /\ \A m \in 1 .. (k - 1) : ran[Commands[Plan[i]][m]] # "unlaunched"

\* Every result answers the check of the plan it stands for, and the receipt
\* is verified only when all have been answered.
Answers ==
  /\ \A n \in DOMAIN results : results[n].shaped /\ results[n].binding = Binding[Plan[n]]
  /\ pc = "verify" => i = Len(Plan) + 1

PromotionInv == TypeInv /\ WorktreesKept /\ PassesProven /\ Launched /\ Answers /\ PromotionProven

\* What a hook spoils is not what a pass of the last phase stands for.
LEMMA HookKeepsProven ==
  ASSUME TypeInv, Hook, i <= Len(Plan), UNCHANGED <<ran, reports>>, NEW n \in 1 .. (i - 1), Proven(n)
  PROVE  Proven(n)'
<1>1. i \in Nat /\ Len(Plan) \in Nat /\ DOMAIN Plan = 1 .. Len(Plan)
  BY EvaluationAssumption DEF TypeInv, Places
<1>2. ASSUME Phase[Plan[n]] = "PROMOTION_FINALIZATION" PROVE dirty' = dirty
  <2>1. Phase[Plan[i]] = "PROMOTION_FINALIZATION"
    BY <1>1, <1>2, MandatoryAssumption
  <2>2. Phase[Plan[i - 1]] = "PROMOTION_FINALIZATION"
    BY <1>1, <1>2, MandatoryAssumption
  <2> QED BY <2>1, <2>2 DEF Hook
<1> QED BY <1>2 DEF Proven

\* The commands of one check are not those of another.
LEMMA CommandsApart ==
  ASSUME TypeInv, k <= Len(Commands[Plan[i]]), i <= Len(Plan), NEW n \in 1 .. (i - 1)
  PROVE  Commands[Plan[i]][k] \notin Of(Plan[n]) /\ Commands[Plan[i]][k] \in Command
<1>1. i \in 1 .. Len(Plan) /\ n \in 1 .. Len(Plan) /\ n # i /\ k \in Nat \ {0}
  BY EvaluationAssumption DEF TypeInv, Places
<1>2. Plan[i] \in Check /\ Plan[n] \in Check /\ Plan[n] # Plan[i]
  <2>1. DOMAIN Plan = 1 .. Len(Plan)
    BY EvaluationAssumption
  <2>2. Plan[n] # Plan[i]
    BY <1>1, <2>1, EvaluationAssumption
  <2> QED BY <1>1, <2>2, PlanCheck
<1>3. /\ DOMAIN Commands[Plan[i]] = 1 .. Len(Commands[Plan[i]]) /\ k \in DOMAIN Commands[Plan[i]]
      /\ Commands[Plan[i]][k] \in Command
  <2>1. Commands[Plan[i]] \in Seq(Command)
    BY <1>2, EvaluationAssumption
  <2> QED BY <1>1, <2>1
<1>4. ASSUME NEW m \in DOMAIN Commands[Plan[n]], Commands[Plan[n]][m] = Commands[Plan[i]][k] PROVE FALSE
  BY <1>2, <1>3, <1>4, EvaluationAssumption
<1> QED BY <1>3, <1>4 DEF Of

LEMMA BecameKeepsProven ==
  ASSUME TypeInv, k <= Len(Commands[Plan[i]]), i <= Len(Plan), NEW status, Became(status),
         UNCHANGED <<reports, dirty>>, NEW n \in 1 .. (i - 1), Proven(n)
  PROVE  Proven(n)'
<1>1. Commands[Plan[i]][k] \notin Of(Plan[n])
  BY CommandsApart
<1>2. \A x \in Of(Plan[n]) : x \in Command
  <2>1. n \in 1 .. Len(Plan)
    BY EvaluationAssumption DEF TypeInv, Places
  <2> QED BY <2>1, PlanCheck, OfTypes
<1>3. \A x \in Of(Plan[n]) : ran'[x] = ran[x]
  BY <1>1, <1>2 DEF Became, TypeInv, Controls
<1> QED BY <1>3 DEF Proven

\* A status that is neither broken nor explained by a code is a success in time.
LEMMA StatusPassed ==
  ASSUME NEW status \in Executed \cup Unrun \cup {"unlaunched"}, status # "unlaunched",
         status \notin Broken, CodesOf(status) = {}
  PROVE  status = "passed"
BY DEF Executed, Unrun, Broken, CodesOf, FailureCodes

\* A check of commands passes only when each of them ran to a success in time.
LEMMA CommandsProven ==
  ASSUME TypeInv, Launched, CommandsEnd, results'[i].outcome = "PASS"
  PROVE  /\ \A x \in Of(Plan[i]) : ran[x] = "passed"
         /\ Bounded => Of(Plan[i]) \subseteq reports'
         /\ Validator[Plan[i]] # "STABILITY"
<1> DEFINE c == Plan[i]
           codes == IF Validator[c] = "TARGET" THEN TargetCodes(c) ELSE PlanCodes(c)
           outcome == IF Statuses(c) \cap Broken # {} THEN "INFRA_FAILURE"
                      ELSE IF codes # {} THEN "FIRED" ELSE "PASS"
           refs == (IF Validator[c] = "TARGET" THEN 2 ELSE 3) * Cardinality(Ran(c))
<1>1. i <= Len(Plan) /\ c \in Check /\ pc = "command" /\ k > Len(Commands[c])
  BY EvaluationAssumption, PlanCheck DEF CommandsEnd, TypeInv, Places
<1>2. Record(outcome, codes, refs)
  BY DEF CommandsEnd
<1>3. outcome = "PASS"
  <2> HIDE DEF outcome, codes, refs
  <2> QED BY <1>1, <1>2, RecordEffect DEF TypeInv
<1>4. Statuses(c) \cap Broken = {} /\ codes = {}
  BY <1>3
<1>5. PlanCodes(c) = {}
  <2>1. Statuses(c) # {"unsandboxed"} /\ Statuses(c) # {"rejected"}
    BY <1>4 DEF Broken
  <2> QED BY <1>4, <2>1 DEF TargetCodes
<1>6. \A status \in Statuses(c) : CodesOf(status) = {}
  BY <1>5 DEF PlanCodes
<1>7. ASSUME NEW x \in Of(c) PROVE ran[x] = "passed"
  <2>1. PICK m \in DOMAIN Commands[c] : x = Commands[c][m]
    BY <1>7 DEF Of
  <2>2. Commands[c] \in Seq(Command)
    BY <1>1, EvaluationAssumption
  <2>3. m \in 1 .. (k - 1)
    BY <1>1, <2>2 DEF TypeInv, Places
  <2>4. ran[x] # "unlaunched"
    BY <1>1, <2>1, <2>3 DEF Launched
  <2>5. ran[x] \in Statuses(c)
    BY <1>7 DEF Statuses
  <2>6. ran[x] \in Executed \cup Unrun \cup {"unlaunched"}
    BY <1>1, <1>7, OfTypes DEF TypeInv, Controls
  <2> QED BY <1>4, <1>6, <2>4, <2>5, <2>6, StatusPassed
<1>8. Bounded => Of(c) \subseteq reports'
  <2>1. Of(c) \subseteq Ran(c)
    BY <1>7 DEF Ran, Executed
  <2> QED BY <2>1 DEF CommandsEnd
<1>9. Validator[c] # "STABILITY"
  BY <1>1 DEF Launched, Builtins
<1> QED BY <1>7, <1>8, <1>9

\* Appending a result that is proven, if it is a pass, keeps the others proven.
LEMMA AppendProven ==
  ASSUME NEW last \in Nat \ {0}, PassesProven,
         DOMAIN results = 1 .. (last - 1), DOMAIN results' = 1 .. last,
         \A n \in 1 .. (last - 1) : results'[n] = results[n],
         \A n \in 1 .. (last - 1) : Proven(n) => Proven(n)',
         results'[last].outcome = "PASS" => Proven(last)'
  PROVE  PassesProven'
<1> SUFFICES ASSUME NEW n \in DOMAIN results', results'[n].outcome = "PASS" PROVE Proven(n)'
  BY DEF PassesProven
<1>1. CASE n = last
  BY <1>1
<1>2. CASE n \in 1 .. (last - 1)
  <2>1. Proven(n)
    BY <1>2 DEF PassesProven
  <2> QED BY <1>2, <2>1
<1> QED BY <1>1, <1>2

\* A built-in check has no commands, and stability passes only on an intact candidate.
LEMMA BuiltinProven ==
  ASSUME TypeInv, BuiltinEnds, results'[i].outcome = "PASS", NEW last, last = i
  PROVE  Proven(last)'
<1>1. i <= Len(Plan) /\ Plan[i] \in Check /\ Validator[Plan[i]] \in Builtins
  BY EvaluationAssumption, PlanCheck DEF BuiltinEnds, TypeInv, Places
<1>2. Of(Plan[i]) = {}
  <2>1. Commands[Plan[i]] = <<>>
    BY <1>1, EvaluationAssumption
  <2> QED BY <2>1 DEF Of
<1>3. PICK outcome \in Verdicts(Validator[Plan[i]]) :
        Record(outcome, BuiltinCodes[outcome],
               IF Validator[Plan[i]] \in {"BINDING", "REPORTING"} /\ outcome # "INFRA_FAILURE" THEN 1 ELSE 0)
  BY DEF BuiltinEnds
<1>4. outcome = "PASS"
  BY <1>1, <1>3, RecordEffect DEF TypeInv
<1>5. Validator[Plan[i]] = "STABILITY" => "candidate" \notin dirty
  BY <1>4 DEF Verdicts, Spoilt
<1> QED BY <1>2, <1>5 DEF Proven, BuiltinEnds

LEMMA PassesStep == TypeInv /\ PassesProven /\ Launched /\ [Next]_vars => PassesProven'
<1> SUFFICES ASSUME TypeInv, PassesProven, Launched, [Next]_vars PROVE PassesProven'
  OBVIOUS
<1>0. /\ DOMAIN results = 1 .. (i - 1) /\ i \in Nat \ {0} /\ k \in Nat \ {0}
      /\ Len(Plan) \in Nat
  BY EvaluationAssumption DEF TypeInv, Places
<1>p. PICK last \in Nat \ {0} : last = i
  BY <1>0
<1>1. CASE UNCHANGED <<results, ran, reports, dirty>>
  BY <1>1 DEF PassesProven, Proven
<1>2. CASE Skip
  <2>1. ASSUME NEW n \in 1 .. (i - 1), Proven(n) PROVE Proven(n)'
    BY <1>2, <2>1, HookKeepsProven DEF Skip
  <2>2. /\ DOMAIN results' = 1 .. i /\ \A n \in 1 .. (i - 1) : results'[n] = results[n]
        /\ results'[i].outcome = "SKIPPED"
    BY <1>2, SkipEffect DEF TypeInv
  <2>3. results'[last].outcome # "PASS"
    BY <1>p, <2>2
  <2> QED BY <1>0, <1>p, <2>1, <2>2, <2>3, AppendProven
<1>3. CASE Begin
  <2>1. ASSUME NEW n \in 1 .. (i - 1), Proven(n) PROVE Proven(n)'
    BY <1>3, <2>1, HookKeepsProven DEF Begin
  <2> QED BY <1>0, <1>3, <2>1 DEF Begin, PassesProven
<1>4. CASE BuiltinEnds
  <2>1. /\ DOMAIN results' = 1 .. i /\ \A n \in 1 .. (i - 1) : results'[n] = results[n]
    BY <1>4, RecordSteps, RecordEffect DEF TypeInv
  <2>2. ASSUME NEW n \in 1 .. (i - 1), Proven(n) PROVE Proven(n)'
    BY <1>4, <2>2 DEF BuiltinEnds, Proven
  <2>3. results'[last].outcome = "PASS" => Proven(last)'
    BY <1>4, <1>p, BuiltinProven
  <2> QED BY <1>0, <1>p, <2>1, <2>2, <2>3, AppendProven
<1>5. CASE CommandsEnd
  <2>1. /\ DOMAIN results' = 1 .. i /\ \A n \in 1 .. (i - 1) : results'[n] = results[n]
    BY <1>5, RecordSteps, RecordEffect DEF TypeInv
  <2>2. ran' = ran /\ dirty' = dirty /\ reports \subseteq reports'
    BY <1>5 DEF CommandsEnd
  <2>3. ASSUME NEW n \in 1 .. (i - 1), Proven(n) PROVE Proven(n)'
    BY <2>2, <2>3 DEF Proven
  <2>4. ASSUME results'[i].outcome = "PASS"
        PROVE  /\ \A x \in Of(Plan[i]) : ran[x] = "passed"
               /\ Bounded => Of(Plan[i]) \subseteq reports'
               /\ Validator[Plan[i]] # "STABILITY"
    BY <1>5, <2>4, CommandsProven
  <2>5. results'[last].outcome = "PASS" => Proven(last)'
    BY <1>p, <2>2, <2>4 DEF Proven
  <2> QED BY <1>0, <1>p, <2>1, <2>3, <2>5, AppendProven
<1>6. ASSUME NEW status, Became(status), k <= Len(Commands[Plan[i]]), i <= Len(Plan), UNCHANGED <<reports, dirty>>,
             NEW n \in 1 .. (i - 1), Proven(n)
      PROVE  Proven(n)'
  BY <1>6, BecameKeepsProven
<1>7. CASE OutputOverflows
  <2>1. i <= Len(Plan) /\ k <= Len(Commands[Plan[i]]) /\ UNCHANGED <<reports, dirty>>
        /\ Record("INFRA_FAILURE", {"INFRASTRUCTURE_FAILURE"}, 0) /\ \E status \in Endings : Became(status)
    BY <1>7 DEF OutputOverflows, TypeInv, Places
  <2>2. /\ DOMAIN results' = 1 .. i /\ \A n \in 1 .. (i - 1) : results'[n] = results[n]
        /\ results'[i].outcome # "PASS"
    BY <2>1, RecordEffect DEF TypeInv
  <2>3. ASSUME NEW n \in 1 .. (i - 1), Proven(n) PROVE Proven(n)'
    BY <2>1, <2>3, <1>6
  <2>4. results'[last].outcome # "PASS"
    BY <1>p, <2>2
  <2> QED BY <1>0, <1>p, <2>2, <2>3, <2>4, AppendProven
<1>8. CASE RefuseCommand \/ CommandUnrun \/ CommandEnds
  <2>1. i <= Len(Plan) /\ k <= Len(Commands[Plan[i]]) /\ UNCHANGED <<results, reports, dirty>>
        /\ \E status : Became(status)
    BY <1>8 DEF RefuseCommand, CommandUnrun, CommandEnds, AtCommand, TypeInv, Places
  <2>2. ASSUME NEW n \in 1 .. (i - 1), Proven(n) PROVE Proven(n)'
    BY <2>1, <2>2, <1>6
  <2> QED BY <1>0, <2>1, <2>2 DEF PassesProven
<1>9. Reject \/ Load \/ AddWorktree \/ ResolvePaths \/ AddWorktreeFails \/ LaunchCommand \/ RemoveWorktree \/ Anchor
        \/ Verify \/ Tick \/ UNCHANGED vars
      => UNCHANGED <<results, ran, reports, dirty>>
  BY DEF Reject, Load, AddWorktree, ResolvePaths, AddWorktreeFails, Refused, LaunchCommand, RemoveWorktree, Anchor, Verify, Tick, vars
<1> QED BY <1>1, <1>2, <1>3, <1>4, <1>5, <1>7, <1>8, <1>9 DEF Next, Evaluate

LEMMA LaunchedStep == TypeInv /\ Launched /\ [Next]_vars => Launched'
<1> SUFFICES ASSUME TypeInv, Launched, [Next]_vars PROVE Launched'
  OBVIOUS
<1>1. CASE pc' \notin {"command", "running"}
  BY <1>1 DEF Launched
<1>2. CASE UNCHANGED <<i, k, ran>> /\ (pc' = pc \/ LaunchCommand)
  BY <1>2 DEF Launched, LaunchCommand, AtCommand
<1>3. CASE Begin
  BY <1>3 DEF Launched, Begin
<1>4. CASE RefuseCommand \/ CommandUnrun \/ CommandEnds
  <2>1. /\ i <= Len(Plan) /\ k <= Len(Commands[Plan[i]]) /\ k \in Nat \ {0} /\ i \in Nat \ {0}
        /\ pc \in {"command", "running"} /\ i' = i
    BY <1>4 DEF RefuseCommand, CommandUnrun, CommandEnds, AtCommand, TypeInv, Places
  <2>2. PICK status \in Executed \cup Unrun : Became(status)
    BY <1>4 DEF RefuseCommand, CommandUnrun, CommandEnds, Endings, Executed, Unrun
  <2>3. status # "unlaunched"
    BY DEF Executed, Unrun
  <2> DEFINE x == Commands[Plan[i]][k]
  <2>4. Plan[i] \in Check
    BY <2>1, EvaluationAssumption, PlanCheck
  <2>5. x \in Command
    BY <2>1, <2>4, CommandTypes
  <2>6. k' = k + 1 /\ ran'[x] = status /\ \A y \in Command : y # x => ran'[y] = ran[y]
    BY <2>2, <2>5 DEF Became, TypeInv, Controls
  <2>7. ASSUME NEW m \in 1 .. (k' - 1) PROVE ran'[Commands[Plan[i]][m]] # "unlaunched"
    <3>1. m = k \/ m \in 1 .. (k - 1)
      BY <2>1, <2>6
    <3>2. m \in 1 .. Len(Commands[Plan[i]]) /\ Commands[Plan[i]][m] \in Command
      BY <2>1, <2>4, <3>1, CommandTypes
    <3>3. CASE Commands[Plan[i]][m] = x
      BY <2>3, <2>6, <3>3
    <3>4. CASE Commands[Plan[i]][m] # x
      BY <2>1, <2>6, <3>1, <3>2, <3>4 DEF Launched
    <3> QED BY <3>3, <3>4
  <2> QED BY <2>1, <2>7 DEF Launched
<1>5. BuiltinEnds \/ OutputOverflows \/ CommandsEnd => pc' = "check"
  BY RecordSteps DEF TypeInv
<1>6. Reject \/ Load \/ AddWorktree \/ ResolvePaths \/ AddWorktreeFails \/ Skip \/ RemoveWorktree \/ Anchor \/ Verify
      => pc' \notin {"command", "running"}
  BY DEF Reject, Load, AddWorktree, ResolvePaths, AddWorktreeFails, Refused, Skip, RemoveWorktree, Anchor, Verify, Return
<1>7. Tick \/ LaunchCommand \/ UNCHANGED vars => UNCHANGED <<i, k, ran>> /\ (pc' = pc \/ LaunchCommand)
  BY DEF Tick, LaunchCommand, vars
<1> QED BY <1>1, <1>2, <1>3, <1>4, <1>5, <1>6, <1>7 DEF Next, Evaluate

LEMMA AnswersStep == TypeInv /\ Answers /\ [Next]_vars => Answers'
<1> SUFFICES ASSUME TypeInv, Answers, [Next]_vars PROVE Answers'
  OBVIOUS
<1>0. DOMAIN results = 1 .. (i - 1) /\ i \in Nat \ {0} /\ Len(Plan) \in Nat /\ i <= Len(Plan) + 1
  BY EvaluationAssumption DEF TypeInv, Places
<1>1. ASSUME /\ DOMAIN results' = 1 .. i /\ \A n \in 1 .. (i - 1) : results'[n] = results[n]
             /\ results'[i].shaped /\ results'[i].binding = Binding[Plan[i]] /\ pc' # "verify"
      PROVE  Answers'
  <2>1. ASSUME NEW n \in DOMAIN results' PROVE results'[n].shaped /\ results'[n].binding = Binding[Plan[n]]
    <3>1. n = i \/ n \in 1 .. (i - 1)
      BY <1>0, <1>1
    <3> QED BY <1>0, <1>1, <3>1 DEF Answers
  <2> QED BY <1>1, <2>1 DEF Answers
<1>2. CASE Skip
  BY <1>1, <1>2, SkipEffect DEF Skip, TypeInv
<1>3. CASE BuiltinEnds \/ OutputOverflows \/ CommandsEnd
  <2>1. i <= Len(Plan) /\ pc' = "check"
    BY <1>3, RecordSteps DEF TypeInv
  <2>2. PICK outcome, codes, refs : outcome \in Outcome \ {"SKIPPED"} /\ Record(outcome, codes, refs)
    BY <1>3, RecordSteps DEF TypeInv
  <2> QED BY <1>1, <2>1, <2>2, RecordEffect DEF TypeInv
<1>4. CASE Anchor
  BY <1>0, <1>4 DEF Anchor, Answers, Return
<1>5. CASE UNCHANGED results /\ pc' # "verify"
  BY <1>5 DEF Answers
<1>6. CASE UNCHANGED <<results, pc, i>>
  BY <1>6 DEF Answers
<1>7. Reject \/ Load \/ AddWorktree \/ ResolvePaths \/ AddWorktreeFails \/ Begin \/ RefuseCommand \/ CommandUnrun
        \/ LaunchCommand \/ CommandEnds \/ RemoveWorktree \/ Verify
      => UNCHANGED results /\ pc' # "verify"
  BY DEF Reject, Load, AddWorktree, ResolvePaths, AddWorktreeFails, Refused, Begin, RefuseCommand, CommandUnrun, LaunchCommand,
         CommandEnds, RemoveWorktree, Verify, Return, AtCommand
<1>8. Tick \/ UNCHANGED vars => UNCHANGED <<results, pc, i>>
  BY DEF Tick, vars
<1> QED BY <1>2, <1>3, <1>4, <1>5, <1>6, <1>7, <1>8 DEF Next, Evaluate

\* When nothing blocks, each required check has a recorded pass.
LEMMA PromotableMeansPassed ==
  ASSUME TypeInv, Disposition(results) = "PROMOTABLE", NEW c \in Required
  PROVE  \E n \in DOMAIN results : Plan[n] = c /\ results[n].outcome = "PASS"
<1>1. Reasons(results) = {}
  BY DEF Disposition
<1>2. c \in Answered(results)
  BY <1>1 DEF Reasons
<1>3. PICK n \in Kept(results) : results[n].check = c
  BY <1>2 DEF Answered
<1>4. Blame(results[n]) = {}
  <2> DEFINE Blames == {Blame(results[m]) : m \in {j \in Kept(results) : results[j].check \in Required}}
  <2>1. Blame(results[n]) \in Blames
    BY <1>3
  <2>2. UNION Blames \subseteq Reasons(results)
    BY DEF Reasons
  <2> HIDE DEF Blames
  <2> QED BY <1>1, <2>1, <2>2
<1>5. n \in DOMAIN results
  BY DEF Kept
<1>6. results[n].outcome \in Outcome /\ results[n].check = Plan[n]
  <2>1. results[n] \in Result
    BY <1>5 DEF TypeInv, Places
  <2> QED BY <1>5, <2>1 DEF TypeInv, Places, Result
<1>7. results[n].outcome = "PASS"
  BY <1>4, <1>6 DEF Blame, Outcome
<1> QED BY <1>3, <1>5, <1>6, <1>7

LEMMA PromotionStep ==
  TypeInv /\ WorktreesKept /\ PassesProven /\ PromotionProven /\ [Next]_vars => PromotionProven'
<1> SUFFICES ASSUME TypeInv, WorktreesKept, PassesProven, PromotionProven, [Next]_vars, returned' = "PROMOTABLE"
             PROVE  (/\ \A c \in Required : \A x \in Of(c) : ran[x] = "passed"
                     /\ Bounded => \A c \in Required : Of(c) \subseteq reports
                     /\ dirty = {})'
  BY DEF PromotionProven
<1>1. CASE Verify
  <2>1. SelfErrors = {} /\ Disposition(results) = "PROMOTABLE"
    BY <1>1 DEF Verify, Return, SelfErrors
  <2>2. ASSUME NEW c \in Required
        PROVE  \E n \in DOMAIN results : Plan[n] = c /\ Proven(n)
    BY <2>1, <2>2, PromotableMeansPassed DEF PassesProven
  <2>3. \A c \in Required : (\A x \in Of(c) : ran[x] = "passed") /\ (Bounded => Of(c) \subseteq reports)
    BY <2>2 DEF Proven
  <2>4. "candidate" \notin dirty
    <3>1. PICK s \in DOMAIN Plan : /\ Plan[s] \in Required /\ Validator[Plan[s]] = "STABILITY"
                                   /\ Phase[Plan[s]] = "PROMOTION_FINALIZATION"
      BY MandatoryAssumption
    <3>2. PICK n \in DOMAIN results : Plan[n] = Plan[s] /\ Proven(n)
      BY <2>2, <3>1
    <3> QED BY <3>1, <3>2 DEF Proven
  <2>5. dirty \ {"candidate"} = {}
    BY <2>1 DEF SelfErrors
  <2> QED BY <1>1, <2>3, <2>4, <2>5 DEF Verify
<1>2. CASE UNCHANGED <<returned, ran, reports, dirty>>
  BY <1>2 DEF PromotionProven
<1>3. CASE returned' = "none"
  BY <1>3
<1>4. Skip \/ Begin \/ BuiltinEnds \/ RefuseCommand \/ CommandUnrun \/ LaunchCommand \/ CommandEnds
        \/ OutputOverflows \/ CommandsEnd \/ Tick
      => returned' = "none"
  BY DEF WorktreesKept, Skip, Begin, BuiltinEnds, RefuseCommand, CommandUnrun, LaunchCommand, CommandEnds,
         OutputOverflows, CommandsEnd, Tick, AtCommand
<1>5. Reject \/ Load \/ AddWorktree \/ ResolvePaths \/ AddWorktreeFails \/ RemoveWorktree \/ Anchor \/ UNCHANGED vars
      => UNCHANGED <<returned, ran, reports, dirty>>
  BY DEF Reject, Load, AddWorktree, ResolvePaths, AddWorktreeFails, Refused, RemoveWorktree, Anchor, Return, vars
<1> QED BY <1>1, <1>2, <1>3, <1>4, <1>5 DEF Next, Evaluate

LEMMA PromotionInvAlways == Spec => []PromotionInv
<1>1. Init => PromotionInv
  <2>1. Init => TypeInv
    BY TypeInit
  <2>2. Init => WorktreesKept /\ PassesProven /\ Launched /\ Answers /\ PromotionProven
    BY DEF Init, WorktreesKept, WorktreesRemoved, PassesProven, Launched, Answers, PromotionProven
  <2> QED BY <2>1, <2>2 DEF PromotionInv
<1>2. PromotionInv /\ [Next]_vars => PromotionInv'
  BY TypeStep, WorktreesStep, PassesStep, LaunchedStep, AnswersStep, PromotionStep DEF PromotionInv
<1> QED BY <1>1, <1>2, PTL DEF Spec

\* A candidate is promoted only if every command of every required check ran
\* to a success in time and was reported, and nothing was corrupted: for every
\* plan that the mandatory packs end, and whatever its checks do.
THEOREM PromotionProvenAlways == Spec => []PromotionProven
<1>1. PromotionInv => PromotionProven
  BY DEF PromotionInv
<1> QED BY <1>1, PromotionInvAlways, PTL

\* When the results are reduced there is exactly one for each check of the plan,
\* advisory ones included, in its order and bound to it, whatever was skipped,
\* abandoned or malformed: the reducer finds none missing, repeated or foreign.
THEOREM EveryCheckAnsweredAlways == Spec => []EveryCheckAnswered
<1>1. PromotionInv => EveryCheckAnswered
  <2> SUFFICES ASSUME PromotionInv, pc = "verify"
               PROVE  /\ Len(results) = Len(Plan)
                      /\ \A n \in DOMAIN Plan : results[n].check = Plan[n] /\ results[n].binding = Binding[Plan[n]]
                      /\ Reasons(results) \cap
                           {"RESULT_BINDING_MISMATCH", "DUPLICATE_RESULT", "MISSING_REQUIRED_RESULT"} = {}
    BY DEF EveryCheckAnswered
  <2>1. TypeInv /\ Answers
    BY DEF PromotionInv
  <2>2. /\ DOMAIN results = 1 .. Len(Plan) /\ DOMAIN Plan = 1 .. Len(Plan) /\ Len(Plan) \in Nat
        /\ Len(results) = Len(Plan)
    BY <2>1, EvaluationAssumption DEF TypeInv, Places, Answers
  <2>3. \A n \in DOMAIN results : results[n].check = Plan[n] /\ Binds(results[n])
    BY <2>1, <2>2, PlanCheck DEF TypeInv, Places, Answers, Binds
  <2>4. \A m, n \in DOMAIN results : results[m].check = results[n].check => m = n
    BY <2>2, <2>3, EvaluationAssumption
  <2>5. Kept(results) = DOMAIN results
    BY <2>2, <2>3, <2>4 DEF Kept
  <2>6. Mismatch(results) = {} /\ Duplicate(results) = {}
    <3>1. Duplicate(results) = {}
      BY <2>2, <2>4, <2>5 DEF Duplicate
    <3> QED BY <2>5, <3>1 DEF Mismatch
  <2>7. Required \subseteq Answered(results)
    <3>1. ASSUME NEW c \in Check PROVE c \in Answered(results)
      <4>1. PICK n \in DOMAIN Plan : Plan[n] = c
        BY EvaluationAssumption
      <4> QED BY <2>2, <2>3, <2>5, <4>1 DEF Answered
    <3> QED BY <3>1 DEF Required
  <2> DEFINE Blames == {Blame(results[m]) : m \in {j \in Kept(results) : results[j].check \in Required}}
  <2>8. \A b \in Blames : b \subseteq {"CHECK_FIRED"} \cup Code
    <3> SUFFICES ASSUME NEW n \in DOMAIN results PROVE Blame(results[n]) \subseteq {"CHECK_FIRED"} \cup Code
      BY <2>5
    <3>1. results[n].codes \subseteq Code
      <4>1. results[n] \in Result
        BY <2>1 DEF TypeInv, Places
      <4> QED BY <4>1 DEF Result
    <3> QED BY <3>1 DEF Blame, Code
  <2>9. Reasons(results) = UNION Blames
    BY <2>6, <2>7 DEF Reasons
  <2> HIDE DEF Blames
  <2>10. \A code \in {"CHECK_FIRED"} \cup Code :
           code \notin {"RESULT_BINDING_MISMATCH", "DUPLICATE_RESULT", "MISSING_REQUIRED_RESULT"}
    BY DEF Code
  <2>11. \A n \in DOMAIN Plan : results[n].check = Plan[n] /\ results[n].binding = Binding[Plan[n]]
    BY <2>1, <2>2 DEF TypeInv, Places, Answers
  <2> QED BY <2>2, <2>8, <2>9, <2>10, <2>11
<1> QED BY <1>1, PromotionInvAlways, PTL

-----------------------------------------------------------------------------
(***************************************************************************)
(* Losses.  What the verification of the receipt compares: the codes of a  *)
(* result, and the reports of the commands it was decided by.              *)
(***************************************************************************)
\* A result that passed or fired has the report of each of its commands unless
\* the deadline refused it, and one with a report of a limited command names the
\* limit unless it had more references than the schema admits.
Accounted(n) ==
  /\ results[n].outcome \in {"PASS", "FIRED"} /\ Bounded =>
       \A x \in Of(Plan[n]) : ran[x] = "refused" \/ x \in reports
  /\ \A x \in Of(Plan[n]) \cap reports :
       ran[x] = "limited" => \/ "TASK_BUDGET_EXCEEDED" \in results[n].codes
                             \/ 3 * Cardinality(Ran(Plan[n])) > maxRefs

AllAccounted == \A n \in DOMAIN results : Accounted(n)

\* Reports are those of commands whose check has its result.
ReportsOwned == \A x \in reports : \E n \in DOMAIN results : x \in Of(Plan[n])

\* The current check shares no command with one that has its result.
LEMMA ChecksApart ==
  ASSUME TypeInv, i <= Len(Plan), NEW n \in 1 .. (i - 1)
  PROVE  /\ Of(Plan[n]) \cap Of(Plan[i]) = {}
         /\ Of(Plan[n]) \subseteq Command /\ Of(Plan[i]) \subseteq Command
<1>1. i \in 1 .. Len(Plan) /\ n \in 1 .. Len(Plan) /\ n # i /\ DOMAIN Plan = 1 .. Len(Plan)
  BY EvaluationAssumption DEF TypeInv, Places
<1>2. Plan[i] \in Check /\ Plan[n] \in Check /\ Plan[n] # Plan[i]
  BY <1>1, PlanCheck, EvaluationAssumption
<1>3. ASSUME NEW m \in DOMAIN Commands[Plan[n]], NEW l \in DOMAIN Commands[Plan[i]],
             Commands[Plan[n]][m] = Commands[Plan[i]][l]
      PROVE  FALSE
  BY <1>2, <1>3, EvaluationAssumption
<1>4. Of(Plan[n]) \cap Of(Plan[i]) = {}
  BY <1>3 DEF Of
<1> QED
  BY <1>2, <1>4, OfTypes

\* Nothing that happens to the commands of the current check concerns an earlier one.
LEMMA KeepsAccounted ==
  ASSUME TypeInv, i <= Len(Plan), NEW n \in 1 .. (i - 1), Accounted(n),
         results'[n] = results[n],
         \A y \in Command \ Of(Plan[i]) : ran'[y] = ran[y] /\ (y \in reports' <=> y \in reports),
         UNCHANGED maxRefs
  PROVE  Accounted(n)'
<1>1. \A y \in Of(Plan[n]) : ran'[y] = ran[y] /\ (y \in reports' <=> y \in reports)
  BY ChecksApart
<1>2. Ran(Plan[n])' = Ran(Plan[n])
  BY <1>1 DEF Ran
<1> QED
  BY <1>1, <1>2 DEF Accounted

\* No command of the current check has its report yet.
LEMMA CurrentUnreported ==
  ASSUME TypeInv, ReportsOwned, i <= Len(Plan)
  PROVE  Of(Plan[i]) \cap reports = {}
<1>1. DOMAIN results = 1 .. (i - 1)
  BY DEF TypeInv, Places
<1> QED
  BY <1>1, ChecksApart DEF ReportsOwned

\* Recording the result of the current check.
LEMMA AppendAccounted ==
  ASSUME TypeInv, AllAccounted, ReportsOwned, i <= Len(Plan),
         DOMAIN results' = 1 .. i,
         \A n \in 1 .. (i - 1) : results'[n] = results[n],
         \A y \in Command \ Of(Plan[i]) : ran'[y] = ran[y] /\ (y \in reports' <=> y \in reports),
         reports' \subseteq reports \cup Of(Plan[i]), UNCHANGED maxRefs,
         NEW last, last = i, Accounted(last)'
  PROVE  AllAccounted' /\ ReportsOwned'
<1>1. DOMAIN results = 1 .. (i - 1) /\ i \in Nat \ {0}
  BY DEF TypeInv, Places
<1>2. ASSUME NEW n \in DOMAIN results'
      PROVE  Accounted(n)'
  <2>1. CASE n = last
    BY <2>1
  <2>2. CASE n \in 1 .. (i - 1)
    <3>1. Accounted(n)
      BY <1>1, <2>2 DEF AllAccounted
    <3> QED
      BY <2>2, <3>1, KeepsAccounted
  <2> QED
    BY <1>1, <2>1, <2>2
<1>3. ASSUME NEW x \in reports'
      PROVE  \E n \in DOMAIN results' : x \in Of(Plan[n])
  <2>1. CASE x \in reports
    BY <1>1, <2>1 DEF ReportsOwned
  <2>2. CASE x \in Of(Plan[i])
    BY <1>1, <2>2
  <2> QED
    BY <2>1, <2>2
<1> QED
  BY <1>2, <1>3 DEF AllAccounted, ReportsOwned

\* A command's end concerns the current check only.
LEMMA BecameApart ==
  ASSUME TypeInv, i <= Len(Plan), k <= Len(Commands[Plan[i]]), NEW status, Became(status)
  PROVE  \A y \in Command \ Of(Plan[i]) : ran'[y] = ran[y]
<1>1. Plan[i] \in Check /\ k \in Nat \ {0}
  BY EvaluationAssumption, PlanCheck DEF TypeInv, Places
<1>2. Commands[Plan[i]][k] \in Of(Plan[i])
  <2>1. Commands[Plan[i]] \in Seq(Command)
    BY <1>1, EvaluationAssumption
  <2> QED
    BY <1>1, <2>1 DEF Of
<1> QED
  BY <1>2 DEF Became, TypeInv, Controls

\* The codes recorded are those decided, unless the references were too many.
LEMMA RecordCodes ==
  ASSUME Places, i <= Len(Plan), NEW outcome, NEW codes, NEW refs, Record(outcome, codes, refs)
  PROVE  results'[i].codes = codes \/ ~(refs <= maxRefs)
<1> DEFINE r == IF refs <= maxRefs THEN ResultOf(Plan[i], outcome, codes, refs > 0)
                ELSE ResultOf(Plan[i], "INFRA_FAILURE", {"INFRASTRUCTURE_FAILURE"}, FALSE)
<1>1. refs <= maxRefs => r.codes = codes
  BY DEF ResultOf
<1>2. results' = Append(results, r)
  BY DEF Record
<1> HIDE DEF r
<1>3. results \in Seq(Result) /\ Len(results) = i - 1 /\ i \in Nat \ {0}
  BY DEF Places
<1>4. results'[i] = r
  BY <1>2, <1>3
<1> QED
  BY <1>1, <1>4

\* What a check of commands leaves when it ends.
LEMMA CommandsAccounted ==
  ASSUME TypeInv, Launched, ReportsOwned, CommandsEnd, NEW last, last = i
  PROVE  Accounted(last)'
<1> DEFINE c == Plan[i]
           codes == IF Validator[c] = "TARGET" THEN TargetCodes(c) ELSE PlanCodes(c)
           outcome == IF Statuses(c) \cap Broken # {} THEN "INFRA_FAILURE"
                      ELSE IF codes # {} THEN "FIRED" ELSE "PASS"
           refs == (IF Validator[c] = "TARGET" THEN 2 ELSE 3) * Cardinality(Ran(c))
<1>1. i <= Len(Plan) /\ c \in Check /\ pc = "command" /\ k > Len(Commands[c])
  BY EvaluationAssumption, PlanCheck DEF CommandsEnd, TypeInv, Places
<1>2. /\ Record(outcome, codes, refs) /\ ran' = ran /\ maxRefs' = maxRefs
      /\ reports' = IF Bounded THEN reports \cup Ran(c) ELSE reports
  BY DEF CommandsEnd
<1>3. /\ results'[i].outcome \in {outcome, "INFRA_FAILURE"}
      /\ results'[i].codes = codes \/ ~(refs <= maxRefs)
  <2> HIDE DEF outcome, codes, refs
  <2> QED
    BY <1>1, <1>2, RecordEffect, RecordCodes DEF TypeInv
<1>4. ASSUME results'[i].outcome \in {"PASS", "FIRED"}, Bounded, NEW x \in Of(c)
      PROVE  ran[x] = "refused" \/ x \in reports'
  <2>1. Statuses(c) \cap Broken = {}
    BY <1>3, <1>4
  <2>2. ran[x] \notin Broken
    BY <1>4, <2>1 DEF Statuses
  <2>3. PICK m \in DOMAIN Commands[c] : x = Commands[c][m]
    BY <1>4 DEF Of
  <2>4. m \in 1 .. (k - 1)
    <3>1. Commands[c] \in Seq(Command)
      BY <1>1, EvaluationAssumption
    <3> QED
      BY <1>1, <2>3, <3>1 DEF TypeInv, Places
  <2>5. ran[x] # "unlaunched"
    BY <1>1, <2>3, <2>4 DEF Launched
  <2>6. ran[x] \in Executed \cup Unrun \cup {"unlaunched"}
    BY <1>1, <1>4, OfTypes DEF TypeInv, Controls
  <2>7. ran[x] \in Executed \/ ran[x] = "refused"
    BY <2>2, <2>5, <2>6 DEF Broken, Unrun
  <2> QED
    BY <1>2, <1>4, <2>7 DEF Ran
<1>5. ASSUME NEW x \in Of(c), ran[x] = "limited"
      PROVE  "TASK_BUDGET_EXCEEDED" \in codes
  <2>1. "limited" \in Statuses(c)
    BY <1>5 DEF Statuses
  <2>2. CodesOf("limited") = {"TASK_BUDGET_EXCEEDED"}
    BY DEF CodesOf, FailureCodes
  <2>3. "TASK_BUDGET_EXCEEDED" \in UNION {CodesOf(status) : status \in Statuses(c)}
    BY <2>1, <2>2
  <2>4. "TASK_BUDGET_EXCEEDED" \in PlanCodes(c)
    BY <2>3 DEF PlanCodes
  <2>5. Statuses(c) # {"unsandboxed"} /\ Statuses(c) # {"rejected"}
    BY <2>1
  <2> QED
    BY <2>4, <2>5 DEF TargetCodes
<1>6. ~(refs <= maxRefs) => 3 * Cardinality(Ran(c)) > maxRefs
  <2>1. Cardinality(Ran(c)) \in Nat /\ maxRefs \in Nat
    BY <1>1, RanCardinality, EvaluationAssumption DEF TypeInv, Controls
  <2> QED
    BY <2>1
<1>7. Ran(Plan[last])' = Ran(c)
  BY <1>2 DEF Ran
<1>8. ASSUME NEW x \in Of(c), ran[x] = "limited"
      PROVE  "TASK_BUDGET_EXCEEDED" \in results'[i].codes \/ 3 * Cardinality(Ran(c)) > maxRefs
  BY <1>3, <1>5, <1>6, <1>8
<1> HIDE DEF codes, outcome, refs
<1>9. /\ results'[last].outcome \in {"PASS", "FIRED"} /\ Bounded =>
           \A x \in Of(Plan[last]) : ran'[x] = "refused" \/ x \in reports'
      /\ \A x \in Of(Plan[last]) \cap reports' :
           ran'[x] = "limited" => \/ "TASK_BUDGET_EXCEEDED" \in results'[last].codes
                                 \/ 3 * Cardinality(Ran(Plan[last])') > maxRefs'
  BY <1>2, <1>4, <1>7, <1>8
<1> QED
  BY <1>9 DEF Accounted

\* No step changes the limit on references.
LEMMA LimitKept == TypeInv /\ [Next]_vars => UNCHANGED maxRefs
<1> SUFFICES ASSUME TypeInv, [Next]_vars PROVE UNCHANGED maxRefs
  OBVIOUS
<1>1. BuiltinEnds \/ OutputOverflows \/ CommandsEnd => UNCHANGED maxRefs
  BY DEF BuiltinEnds, OutputOverflows, CommandsEnd
<1> QED
  BY <1>1 DEF Next, Evaluate, Reject, Load, AddWorktree, ResolvePaths, AddWorktreeFails, Skip, Begin,
     RefuseCommand, CommandUnrun, LaunchCommand, CommandEnds, RemoveWorktree, Anchor, Verify, Tick, vars

LEMMA AccountsStep ==
  TypeInv /\ Launched /\ AllAccounted /\ ReportsOwned /\ [Next]_vars => AllAccounted' /\ ReportsOwned'
<1> SUFFICES ASSUME TypeInv, Launched, AllAccounted, ReportsOwned, [Next]_vars
             PROVE  AllAccounted' /\ ReportsOwned'
  OBVIOUS
<1>0. DOMAIN results = 1 .. (i - 1) /\ i \in Nat \ {0}
  BY DEF TypeInv, Places
<1>m. UNCHANGED maxRefs
  BY LimitKept
<1>p. PICK last : last = i
  OBVIOUS
<1>1. CASE UNCHANGED <<results, ran, reports>>
  BY <1>m, <1>1 DEF AllAccounted, ReportsOwned, Accounted, Ran
<1>2. CASE Skip
  <2>1. /\ i <= Len(Plan) /\ UNCHANGED <<ran, reports>>
        /\ DOMAIN results' = 1 .. i /\ \A n \in 1 .. (i - 1) : results'[n] = results[n]
        /\ results'[i].outcome = "SKIPPED"
    BY <1>2, SkipEffect DEF Skip, TypeInv
  <2>2. Accounted(last)'
    BY <1>m, <1>p, <2>1, CurrentUnreported DEF Accounted
  <2> QED
    BY <1>m, <1>p, <2>1, <2>2, AppendAccounted
<1>3. CASE BuiltinEnds
  <2>1. /\ i <= Len(Plan) /\ UNCHANGED <<ran, reports>>
        /\ DOMAIN results' = 1 .. i /\ \A n \in 1 .. (i - 1) : results'[n] = results[n]
    BY <1>3, RecordSteps, RecordEffect DEF TypeInv, BuiltinEnds
  <2>2. Of(Plan[i]) = {}
    <3>1. Plan[i] \in Check /\ Validator[Plan[i]] \in Builtins
      BY <1>3, EvaluationAssumption, PlanCheck DEF BuiltinEnds, TypeInv, Places
    <3>2. Commands[Plan[i]] = <<>>
      BY <3>1, EvaluationAssumption
    <3> QED
      BY <3>2 DEF Of
  <2>3. Accounted(last)'
    BY <1>m, <1>p, <2>2 DEF Accounted
  <2> QED
    BY <1>m, <1>p, <2>1, <2>3, AppendAccounted
<1>4. CASE CommandsEnd
  <2>1. /\ i <= Len(Plan) /\ ran' = ran
        /\ reports' = IF Bounded THEN reports \cup Ran(Plan[i]) ELSE reports
        /\ DOMAIN results' = 1 .. i /\ \A n \in 1 .. (i - 1) : results'[n] = results[n]
    BY <1>4, RecordSteps, RecordEffect DEF TypeInv, CommandsEnd
  <2>2. Ran(Plan[i]) \subseteq Of(Plan[i])
    BY DEF Ran
  <2>3. Accounted(last)'
    BY <1>4, <1>p, CommandsAccounted
  <2> QED
    BY <1>m, <1>p, <2>1, <2>2, <2>3, AppendAccounted
<1>5. CASE OutputOverflows
  <2>1. /\ i <= Len(Plan) /\ k <= Len(Commands[Plan[i]]) /\ reports' = reports
        /\ Record("INFRA_FAILURE", {"INFRASTRUCTURE_FAILURE"}, 0) /\ \E status \in Endings : Became(status)
    BY <1>5 DEF OutputOverflows, TypeInv, Places
  <2>2. /\ DOMAIN results' = 1 .. i /\ \A n \in 1 .. (i - 1) : results'[n] = results[n]
        /\ results'[i].outcome = "INFRA_FAILURE"
    BY <2>1, RecordEffect DEF TypeInv
  <2>3. \A y \in Command \ Of(Plan[i]) : ran'[y] = ran[y]
    BY <2>1, BecameApart
  <2>4. Accounted(last)'
    BY <1>m, <1>p, <2>1, <2>2, CurrentUnreported DEF Accounted
  <2> QED
    BY <1>m, <1>p, <2>1, <2>2, <2>3, <2>4, AppendAccounted
<1>6. CASE RefuseCommand \/ CommandUnrun \/ CommandEnds
  <2>1. i <= Len(Plan) /\ k <= Len(Commands[Plan[i]]) /\ UNCHANGED <<results, reports>>
        /\ \E status : Became(status)
    BY <1>6 DEF RefuseCommand, CommandUnrun, CommandEnds, AtCommand, TypeInv, Places
  <2>2. \A y \in Command \ Of(Plan[i]) : ran'[y] = ran[y]
    BY <2>1, BecameApart
  <2>3. ASSUME NEW n \in DOMAIN results
        PROVE  Accounted(n)'
    <3>1. Accounted(n) /\ n \in 1 .. (i - 1)
      BY <1>0, <2>3 DEF AllAccounted
    <3> QED
      BY <1>m, <2>1, <2>2, <3>1, KeepsAccounted
  <2> QED
    BY <2>1, <2>3 DEF AllAccounted, ReportsOwned
<1>7. Reject \/ Load \/ AddWorktree \/ ResolvePaths \/ AddWorktreeFails \/ Begin \/ LaunchCommand \/ RemoveWorktree
        \/ Anchor \/ Verify \/ Tick \/ UNCHANGED vars
      => UNCHANGED <<results, ran, reports>>
  BY DEF Reject, Load, AddWorktree, ResolvePaths, AddWorktreeFails, Refused, Begin, LaunchCommand, RemoveWorktree, Anchor, Verify,
         Tick, vars
<1> QED
  BY <1>1, <1>2, <1>3, <1>4, <1>5, <1>6, <1>7 DEF Next, Evaluate

LEMMA LossStep ==
  TypeInv /\ WorktreesKept /\ AllAccounted /\ LossExplained /\ [Next]_vars => LossExplained'
<1> SUFFICES ASSUME TypeInv, WorktreesKept, AllAccounted, LossExplained, [Next]_vars
             PROVE  LossExplained'
  OBVIOUS
<1> DEFINE Losses == {"EVIDENCE_MUTATED", "EVIDENCE_MISSING", "DISPOSITION_MISMATCH"}
<1>m. UNCHANGED maxRefs
  BY LimitKept
<1>1. CASE Verify
  <2>1. UNCHANGED <<ran, dirty, results>> /\ (returned' \in SelfErrors \/ returned' \in {Disposition(results), "SCHEMA_VIOLATION"})
    BY <1>1 DEF Verify, Return
  <2>2. Disposition(results) \notin Losses
    BY DEF Disposition
  <2>3. ASSUME "EVIDENCE_MUTATED" \in SelfErrors
        PROVE  dirty # {}
    BY <2>3 DEF SelfErrors
  <2>4. ASSUME "EVIDENCE_MISSING" \in SelfErrors
        PROVE  Bounded /\ \E x \in Command : ran[x] = "refused"
    <3>1. Bounded /\ ReportMissing
      BY <2>4 DEF SelfErrors
    <3>2. PICK n \in DOMAIN results :
            results[n].outcome \in {"PASS", "FIRED"} /\ ~(Of(results[n].check) \subseteq reports)
      BY <3>1 DEF ReportMissing
    <3>3. results[n].check = Plan[n] /\ Plan[n] \in Check
      BY <3>2, EvaluationAssumption, PlanCheck DEF TypeInv, Places
    <3>4. PICK x \in Of(Plan[n]) : x \notin reports
      BY <3>2, <3>3
    <3> QED
      BY <3>1, <3>2, <3>3, <3>4, OfTypes DEF AllAccounted, Accounted
  <2>5. ASSUME "DISPOSITION_MISMATCH" \in SelfErrors
        PROVE  \E c \in Check : 3 * Cardinality(Ran(c)) > maxRefs
    <3>1. LimitUnreported
      BY <2>5 DEF SelfErrors
    <3>2. PICK n \in DOMAIN results :
            /\ \E x \in Of(results[n].check) \cap reports : ran[x] = "limited"
            /\ "TASK_BUDGET_EXCEEDED" \notin results[n].codes
      BY <3>1 DEF LimitUnreported
    <3>3. results[n].check = Plan[n] /\ Plan[n] \in Check
      BY <3>2, EvaluationAssumption, PlanCheck DEF TypeInv, Places
    <3> QED
      BY <3>2, <3>3 DEF AllAccounted, Accounted
  <2>6. \A c : Ran(c)' = Ran(c)
    BY <2>1 DEF Ran
  <2> QED
    BY <1>m, <2>1, <2>2, <2>3, <2>4, <2>5, <2>6 DEF LossExplained
<1>2. CASE UNCHANGED <<returned, ran, dirty>>
  BY <1>m, <1>2 DEF LossExplained, Ran
<1>3. CASE returned' \notin Losses
  BY <1>3 DEF LossExplained
<1>4. Skip \/ Begin \/ BuiltinEnds \/ RefuseCommand \/ CommandUnrun \/ LaunchCommand \/ CommandEnds
        \/ OutputOverflows \/ CommandsEnd \/ Tick
      => returned' \notin Losses
  BY DEF WorktreesKept, Skip, Begin, BuiltinEnds, RefuseCommand, CommandUnrun, LaunchCommand, CommandEnds,
         OutputOverflows, CommandsEnd, Tick, AtCommand
<1>5. Reject \/ Load \/ AddWorktree \/ ResolvePaths \/ AddWorktreeFails \/ RemoveWorktree \/ Anchor \/ UNCHANGED vars
      => UNCHANGED <<returned, ran, dirty>> \/ returned' \notin Losses
  BY DEF Reject, Load, AddWorktree, ResolvePaths, AddWorktreeFails, Refused, RemoveWorktree, Anchor, Return, vars
<1> QED
  BY <1>1, <1>2, <1>3, <1>4, <1>5 DEF Next, Evaluate

\* A run that answered every check fails its own verification only for corrupted
\* evidence, a command that the deadline refused, or a result with more
\* references than the schema admits: no check contradicts its own reports.
THEOREM LossExplainedAlways == Spec => []LossExplained
<1> DEFINE Accounts == AllAccounted /\ ReportsOwned /\ LossExplained
<1>1. Init => Accounts
  BY DEF Init, AllAccounted, ReportsOwned, LossExplained
<1>2. PromotionInv /\ Accounts /\ [Next]_vars => Accounts'
  BY AccountsStep, LossStep DEF PromotionInv
<1>3. Accounts => LossExplained
  OBVIOUS
<1> HIDE DEF Accounts
<1> QED
  BY <1>1, <1>2, <1>3, PromotionInvAlways, PTL DEF Spec

-----------------------------------------------------------------------------
(***************************************************************************)
(* No command is launched twice, and the evaluation only goes forward.     *)
(***************************************************************************)
\* The evaluation has not come to the m-th command of the n-th check.
Ahead(n, m) == n > i \/ (n = i /\ (pc \in {"command", "running"} => m >= k))

Untouched ==
  \A n \in DOMAIN Plan : \A m \in DOMAIN Commands[Plan[n]] :
    Ahead(n, m) => ran[Commands[Plan[n]][m]] = "unlaunched"

\* Nothing of a skipped check has run, nor will it later.
SkipsIdle ==
  \A n \in DOMAIN results : results[n].outcome = "SKIPPED" =>
    \A x \in Of(Plan[n]) : ran[x] = "unlaunched"

\* What a command came to is its outcome for good (evaluate.mjs: each command of
\* the plan is run or refused once, in a check of its own).
OutcomesFinal == [][\A x \in Command : ran[x] # "unlaunched" => ran'[x] = ran[x]]_vars

OnceInv == Untouched /\ SkipsIdle

\* The end of one command concerns no other command of the plan.
LEMMA BecameAlone ==
  ASSUME TypeInv, i <= Len(Plan), k <= Len(Commands[Plan[i]]), NEW status, Became(status)
  PROVE  /\ k' = k + 1
         /\ \A n \in DOMAIN Plan : \A m \in DOMAIN Commands[Plan[n]] :
              (n # i \/ m # k) => ran'[Commands[Plan[n]][m]] = ran[Commands[Plan[n]][m]]
         /\ \A x \in Command : x # Commands[Plan[i]][k] => ran'[x] = ran[x]
<1>1. /\ i \in DOMAIN Plan /\ Plan[i] \in Check /\ k \in DOMAIN Commands[Plan[i]]
  <2>1. i \in 1 .. Len(Plan) /\ DOMAIN Plan = 1 .. Len(Plan) /\ k \in Nat \ {0}
    BY EvaluationAssumption DEF TypeInv, Places
  <2>2. Commands[Plan[i]] \in Seq(Command)
    BY <2>1, PlanCheck, EvaluationAssumption
  <2> QED
    BY <2>1, <2>2, PlanCheck
<1>2. k' = k + 1 /\ \A x \in Command : x # Commands[Plan[i]][k] => ran'[x] = ran[x]
  BY DEF Became, TypeInv, Controls
<1>3. ASSUME NEW n \in DOMAIN Plan, NEW m \in DOMAIN Commands[Plan[n]], n # i \/ m # k
      PROVE  ran'[Commands[Plan[n]][m]] = ran[Commands[Plan[n]][m]]
  <2>1. Plan[n] \in Check
    BY EvaluationAssumption, PlanCheck
  <2>2. Commands[Plan[n]] \in Seq(Command)
    BY <2>1, EvaluationAssumption
  <2>3. Commands[Plan[n]][m] \in Command
    BY <2>2
  <2>4. Commands[Plan[n]][m] # Commands[Plan[i]][k]
    <3> SUFFICES ASSUME Commands[Plan[n]][m] = Commands[Plan[i]][k] PROVE FALSE
      OBVIOUS
    <3>1. Plan[n] = Plan[i] /\ m = k
      BY <1>1, <2>1, EvaluationAssumption
    <3>2. n = i
      BY <1>1, <3>1, EvaluationAssumption
    <3> QED
      BY <1>3, <3>1, <3>2
  <2> QED
    BY <1>2, <2>3, <2>4
<1> QED
  BY <1>2, <1>3

\* What the command at hand has come to so far: nothing.
LEMMA AtHandUnlaunched ==
  ASSUME TypeInv, Untouched, pc \in {"command", "running"}, i <= Len(Plan), k <= Len(Commands[Plan[i]])
  PROVE  ran[Commands[Plan[i]][k]] = "unlaunched"
<1>1. i \in DOMAIN Plan /\ Plan[i] \in Check /\ k \in Nat \ {0}
  BY EvaluationAssumption, PlanCheck DEF TypeInv, Places
<1>2. Commands[Plan[i]] \in Seq(Command)
  BY <1>1, EvaluationAssumption
<1> QED
  BY <1>1, <1>2 DEF Untouched, Ahead

\* The steps at which a command comes to something.
CommandStep == RefuseCommand \/ CommandUnrun \/ CommandEnds \/ OutputOverflows

LEMMA CommandStepBecame ==
  ASSUME TypeInv, CommandStep
  PROVE  /\ pc \in {"command", "running"} /\ i <= Len(Plan) /\ k <= Len(Commands[Plan[i]])
         /\ \E status : Became(status)
BY DEF CommandStep, RefuseCommand, CommandUnrun, CommandEnds, OutputOverflows, AtCommand, TypeInv, Places

LEMMA OtherStepsLaunchNothing == TypeInv /\ [Next]_vars => CommandStep \/ ran' = ran
BY DEF Next, Evaluate, CommandStep, Reject, Load, AddWorktree, ResolvePaths, AddWorktreeFails, Refused, Skip, Begin, BuiltinEnds,
       LaunchCommand, CommandsEnd, RemoveWorktree, Anchor, Verify, Tick, vars

\* No step comes to a command of which it has been.
LEMMA AheadStays ==
  ASSUME TypeInv, [Next]_vars, NEW n \in DOMAIN Plan, NEW m \in DOMAIN Commands[Plan[n]], Ahead(n, m)'
  PROVE  Ahead(n, m)
<1>1. n \in Nat /\ m \in Nat \ {0} /\ i \in Nat /\ k \in Nat
  <2>1. Plan[n] \in Check /\ n \in Nat
    BY EvaluationAssumption
  <2>2. Commands[Plan[n]] \in Seq(Command)
    BY <2>1, EvaluationAssumption
  <2> QED
    BY <2>1, <2>2 DEF TypeInv, Places
<1>2. CASE BuiltinEnds \/ OutputOverflows \/ CommandsEnd
  <2>1. i' = i + 1
    BY <1>2, RecordSteps DEF TypeInv
  <2> QED
    BY <1>1, <2>1 DEF Ahead
<1>3. CASE Skip \/ Begin
  <2>1. pc = "check" /\ i' \in {i, i + 1}
    BY <1>3 DEF Skip, Begin
  <2> QED
    BY <1>1, <2>1 DEF Ahead
<1>4. CASE RefuseCommand \/ CommandUnrun \/ LaunchCommand \/ CommandEnds
  BY <1>1, <1>4 DEF Ahead, RefuseCommand, CommandUnrun, LaunchCommand, CommandEnds, AtCommand, Became
<1>5. CASE Reject \/ Load \/ AddWorktree \/ ResolvePaths \/ AddWorktreeFails \/ RemoveWorktree \/ Anchor \/ Verify \/ Tick
  BY <1>1, <1>5 DEF Ahead, Reject, Load, AddWorktree, ResolvePaths, AddWorktreeFails, Refused, RemoveWorktree, Anchor, Verify, Tick, Return
<1>6. CASE UNCHANGED vars
  BY <1>6 DEF Ahead, vars
<1> QED
  BY <1>2, <1>3, <1>4, <1>5, <1>6 DEF Next, Evaluate

LEMMA UntouchedStep == TypeInv /\ Untouched /\ [Next]_vars => Untouched'
<1> SUFFICES ASSUME TypeInv, Untouched, [Next]_vars,
                    NEW n \in DOMAIN Plan, NEW m \in DOMAIN Commands[Plan[n]], Ahead(n, m)'
             PROVE  ran'[Commands[Plan[n]][m]] = "unlaunched"
  BY DEF Untouched
<1>1. ran[Commands[Plan[n]][m]] = "unlaunched"
  BY AheadStays DEF Untouched
<1>2. CASE CommandStep
  <2>1. /\ pc \in {"command", "running"} /\ i <= Len(Plan) /\ k <= Len(Commands[Plan[i]])
        /\ i \in Nat /\ k \in Nat
    BY <1>2, CommandStepBecame DEF TypeInv, Places
  <2>2. PICK status : Became(status)
    BY <1>2, CommandStepBecame
  <2>3. k' = k + 1 /\ ((n # i \/ m # k) => ran'[Commands[Plan[n]][m]] = ran[Commands[Plan[n]][m]])
    BY <2>1, <2>2, BecameAlone
  <2>4. i' = i + 1 \/ (i' = i /\ pc' = "command")
    <3>1. CASE OutputOverflows
      BY <3>1, RecordSteps DEF TypeInv
    <3>2. CASE RefuseCommand \/ CommandUnrun \/ CommandEnds
      BY <3>2 DEF RefuseCommand, CommandUnrun, CommandEnds, AtCommand
    <3> QED
      BY <1>2, <3>1, <3>2 DEF CommandStep
  <2>5. n # i \/ m # k
    BY <2>1, <2>3, <2>4 DEF Ahead
  <2> QED
    BY <1>1, <2>3, <2>5
<1> QED
  BY <1>1, <1>2, OtherStepsLaunchNothing

\* What is skipped has not run, as the evaluation comes to each check once.
LEMMA SkipsIdleStep == TypeInv /\ Untouched /\ SkipsIdle /\ [Next]_vars => SkipsIdle'
<1> SUFFICES ASSUME TypeInv, Untouched, SkipsIdle, [Next]_vars PROVE SkipsIdle'
  OBVIOUS
<1>1. /\ DOMAIN results = 1 .. (i - 1) /\ i \in Nat \ {0} /\ Len(Plan) \in Nat /\ DOMAIN Plan = 1 .. Len(Plan)
  BY EvaluationAssumption DEF TypeInv, Places
<1>2. ASSUME NEW n \in 1 .. (i - 1), results[n].outcome = "SKIPPED", NEW x \in Of(Plan[n])
      PROVE  ran'[x] = "unlaunched"
  <2>1. ran[x] = "unlaunched"
    BY <1>1, <1>2 DEF SkipsIdle
  <2>2. x \in Command
    <3>1. n \in 1 .. Len(Plan)
      BY <1>1 DEF TypeInv, Places
    <3> QED
      BY <1>2, <3>1, PlanCheck, OfTypes
  <2>3. CASE CommandStep
    <3>1. i <= Len(Plan) /\ k <= Len(Commands[Plan[i]])
      BY <2>3, CommandStepBecame
    <3>2. PICK status : Became(status)
      BY <2>3, CommandStepBecame
    <3>3. x # Commands[Plan[i]][k]
      BY <1>2, <3>1, CommandsApart
    <3> QED
      BY <2>1, <2>2, <3>1, <3>2, <3>3, BecameAlone
  <2> QED
    BY <2>1, <2>3, OtherStepsLaunchNothing
<1>3. CASE results' = results
  BY <1>1, <1>2, <1>3 DEF SkipsIdle
<1>4. CASE BuiltinEnds \/ OutputOverflows \/ CommandsEnd
  <2>1. i <= Len(Plan)
    BY <1>4, RecordSteps DEF TypeInv
  <2>2. PICK outcome, codes, refs : outcome \in Outcome \ {"SKIPPED"} /\ Record(outcome, codes, refs)
    BY <1>4, RecordSteps DEF TypeInv
  <2>3. /\ DOMAIN results' = 1 .. i /\ \A n \in 1 .. (i - 1) : results'[n] = results[n]
        /\ results'[i].outcome \in {outcome, "INFRA_FAILURE"}
    BY <2>1, <2>2, RecordEffect DEF TypeInv
  <2>4. \A n \in 1 .. i : results'[n].outcome = "SKIPPED" => n \in 1 .. (i - 1)
    BY <1>1, <2>2, <2>3
  <2> QED
    BY <1>2, <2>3, <2>4 DEF SkipsIdle
<1>5. CASE Skip
  <2>1. /\ DOMAIN results' = 1 .. i /\ \A n \in 1 .. (i - 1) : results'[n] = results[n]
    BY <1>5, SkipEffect DEF TypeInv
  <2>2. \A x \in Of(Plan[i]) : ran'[x] = "unlaunched"
    <3>1. i \in DOMAIN Plan /\ pc = "check" /\ ran' = ran
      BY <1>1, <1>5 DEF Skip
    <3> QED
      BY <3>1 DEF Untouched, Ahead, Of
  <2>3. ASSUME NEW n \in 1 .. i, results'[n].outcome = "SKIPPED", NEW x \in Of(Plan[n])
        PROVE  ran'[x] = "unlaunched"
    <3>1. CASE n = i
      BY <2>2, <2>3, <3>1
    <3>2. CASE n \in 1 .. (i - 1)
      BY <1>2, <2>1, <2>3, <3>2
    <3> QED
      BY <1>1, <3>1, <3>2
  <2> QED
    BY <2>1, <2>3 DEF SkipsIdle
<1> QED
  BY <1>3, <1>4, <1>5 DEF Next, Evaluate, Reject, Load, AddWorktree, ResolvePaths, AddWorktreeFails, Refused, Begin, RefuseCommand,
     CommandUnrun, LaunchCommand, CommandEnds, RemoveWorktree, Anchor, Verify, Tick, vars

LEMMA OnceInvAlways == Spec => [](TypeInv /\ OnceInv)
<1>1. Init => OnceInv
  <2> SUFFICES ASSUME Init PROVE OnceInv
    OBVIOUS
  <2>1. ASSUME NEW n \in DOMAIN Plan, NEW m \in DOMAIN Commands[Plan[n]]
        PROVE  ran[Commands[Plan[n]][m]] = "unlaunched"
    <3>1. Plan[n] \in Check
      BY EvaluationAssumption
    <3>2. Commands[Plan[n]] \in Seq(Command)
      BY <3>1, EvaluationAssumption
    <3> QED
      BY <3>2 DEF Init
  <2> QED
    BY <2>1 DEF Init, OnceInv, Untouched, SkipsIdle
<1>2. TypeInv /\ OnceInv /\ [Next]_vars => OnceInv'
  BY UntouchedStep, SkipsIdleStep DEF OnceInv
<1> QED
  BY <1>1, <1>2, TypeInvAlways, PTL DEF Spec

\* No command is launched, refused or answered twice, and no later step rewrites
\* what it came to: its report and the codes of its check are about one execution.
THEOREM OutcomesFinalAlways == Spec => OutcomesFinal
<1>1. TypeInv /\ OnceInv /\ [Next]_vars => \A x \in Command : ran[x] # "unlaunched" => ran'[x] = ran[x]
  <2> SUFFICES ASSUME TypeInv, OnceInv, [Next]_vars, NEW x \in Command, ran[x] # "unlaunched"
               PROVE  ran'[x] = ran[x]
    OBVIOUS
  <2>1. CASE CommandStep
    <3>1. pc \in {"command", "running"} /\ i <= Len(Plan) /\ k <= Len(Commands[Plan[i]])
      BY <2>1, CommandStepBecame
    <3>2. PICK status : Became(status)
      BY <2>1, CommandStepBecame
    <3>3. x # Commands[Plan[i]][k]
      BY <3>1, AtHandUnlaunched DEF OnceInv
    <3> QED
      BY <3>1, <3>2, <3>3, BecameAlone
  <2> QED
    BY <2>1, OtherStepsLaunchNothing
<1> QED
  BY <1>1, OnceInvAlways, PTL DEF Spec, OutcomesFinal

\* A check that is reported as skipped launched nothing, then or later.
THEOREM SkippedChecksIdle == Spec => []SkipsIdle
<1>1. OnceInv => SkipsIdle
  BY DEF OnceInv
<1> QED
  BY <1>1, OnceInvAlways, PTL

-----------------------------------------------------------------------------
\* How far the evaluation is: before, in and after the loop over the checks.
Stage ==
  CASE pc = "load" -> 0 [] pc = "base" -> 1 [] pc = "candidate" -> 2 [] pc = "resolve" -> 3
    [] pc \in {"check", "builtin", "command", "running"} -> 4
    [] pc = "verify" -> 5 [] pc = "done" -> 6

\* Whether the check at hand has begun.
Depth == IF pc \in {"builtin", "command", "running"} THEN 1 ELSE 0

\* Stage, check, begun or not, command, launched or not, and worktrees to be
\* removed, in this order: each step goes forward in the first of them that it moves.
Forward ==
  \/ Stage < Stage'
  \/ Stage = Stage' /\ i < i'
  \/ Stage = Stage' /\ i = i' /\ Depth < Depth'
  \/ Stage = Stage' /\ i = i' /\ Depth = Depth' /\ k < k'
  \/ UNCHANGED <<i, k>> /\ pc = "command" /\ pc' = "running"
  \/ UNCHANGED <<i, k, pc>> /\ worktrees' # worktrees /\ worktrees' \subseteq worktrees

\* The evaluation never retries, waits or goes back, and time that passes takes
\* nothing of what it has done away (evaluate.mjs: one pass over the checks, one
\* over the commands of each).
EvaluationAdvances ==
  [][/\ Evaluate => Forward
     /\ ~Evaluate => UNCHANGED <<pc, i, k, worktrees>>]_vars

\* The check and the command at hand are of the plan, or just beyond its last.
WithinPlan ==
  /\ i \in 1 .. Len(Plan) + 1
  /\ pc \in {"command", "running"} => k \in 1 .. Len(Commands[Plan[i]]) + 1

LEMMA StepForward == TypeInv /\ Evaluate => Forward
<1> SUFFICES ASSUME TypeInv, Evaluate PROVE Forward
  OBVIOUS
<1>1. i \in Nat /\ k \in Nat /\ worktrees \subseteq {"base", "candidate", "partial"}
  BY DEF TypeInv, Controls, Places
<1>2. CASE Reject \/ Load \/ AddWorktree \/ ResolvePaths \/ AddWorktreeFails \/ Anchor \/ Verify
  BY <1>2 DEF Forward, Stage, Reject, Load, AddWorktree, ResolvePaths, AddWorktreeFails, Refused, Anchor, Verify, Return
<1>3. CASE BuiltinEnds \/ OutputOverflows \/ CommandsEnd
  <2>1. i' = i + 1 /\ pc' = "check"
    BY <1>3, RecordSteps DEF TypeInv
  <2>2. pc \in {"builtin", "running", "command"}
    BY <1>3 DEF BuiltinEnds, OutputOverflows, CommandsEnd
  <2> QED
    BY <1>1, <2>1, <2>2 DEF Forward, Stage
<1>4. CASE Skip
  BY <1>1, <1>4 DEF Forward, Stage, Skip
<1>5. CASE Begin
  BY <1>5 DEF Forward, Stage, Depth, Begin
<1>6. CASE RefuseCommand \/ CommandUnrun \/ CommandEnds
  <2>1. i' = i /\ k' = k + 1 /\ pc \in {"command", "running"} /\ pc' = "command"
    BY <1>6 DEF RefuseCommand, CommandUnrun, CommandEnds, AtCommand, Became
  <2> QED
    BY <1>1, <2>1 DEF Forward, Stage, Depth
<1>7. CASE LaunchCommand
  BY <1>7 DEF Forward, LaunchCommand, AtCommand
<1>8. CASE RemoveWorktree
  <2>1. CASE pc' = "done"
    BY <1>8, <2>1 DEF Forward, Stage, RemoveWorktree
  <2>2. CASE pc' # "done"
    <3>1. /\ UNCHANGED <<i, k, pc>> /\ worktrees # {}
          /\ worktrees' = (IF "candidate" \in worktrees THEN worktrees \ {"candidate"} ELSE {})
      BY <1>8, <2>2 DEF RemoveWorktree, Return
    <3>2. worktrees' # worktrees /\ worktrees' \subseteq worktrees
      BY <1>1, <3>1
    <3> QED
      BY <3>1, <3>2 DEF Forward
  <2> QED
    BY <2>1, <2>2
<1> QED
  BY <1>2, <1>3, <1>4, <1>5, <1>6, <1>7, <1>8 DEF Evaluate

LEMMA WithinStep == TypeInv /\ WithinPlan /\ [Next]_vars => WithinPlan'
<1> SUFFICES ASSUME TypeInv, WithinPlan, [Next]_vars PROVE WithinPlan'
  OBVIOUS
<1>1. /\ i' \in 1 .. Len(Plan) + 1 /\ i' \in Nat /\ k \in Nat \ {0} /\ Len(Plan) \in Nat
  BY TypeStep, EvaluationAssumption DEF TypeInv, Places
<1>2. CASE pc' \notin {"command", "running"}
  BY <1>1, <1>2 DEF WithinPlan
<1>3. CASE Begin
  <2>1. i \in 1 .. Len(Plan) /\ i' = i
    BY <1>3 DEF Begin, TypeInv, Places
  <2>2. Len(Commands[Plan[i]]) \in Nat
    BY <2>1, PlanCheck, CommandTypes
  <2> QED
    BY <1>1, <1>3, <2>1, <2>2 DEF WithinPlan, Begin
<1>4. CASE RefuseCommand \/ CommandUnrun \/ CommandEnds
  <2>1. /\ i' = i /\ i \in 1 .. Len(Plan) /\ k' = k + 1 /\ k <= Len(Commands[Plan[i]])
    BY <1>4 DEF RefuseCommand, CommandUnrun, CommandEnds, AtCommand, Became, TypeInv, Places
  <2>2. Len(Commands[Plan[i]]) \in Nat
    BY <2>1, PlanCheck, CommandTypes
  <2> QED
    BY <1>1, <2>1, <2>2 DEF WithinPlan
<1>5. CASE LaunchCommand \/ Tick \/ UNCHANGED vars
  BY <1>5 DEF WithinPlan, LaunchCommand, AtCommand, Tick, vars
<1>6. Reject \/ Load \/ AddWorktree \/ ResolvePaths \/ AddWorktreeFails \/ Skip \/ BuiltinEnds \/ OutputOverflows
        \/ CommandsEnd \/ RemoveWorktree \/ Anchor \/ Verify
      => pc' \notin {"command", "running"}
  <2>1. BuiltinEnds \/ OutputOverflows \/ CommandsEnd => pc' = "check"
    BY RecordSteps DEF TypeInv
  <2> QED
    BY <2>1 DEF Reject, Load, AddWorktree, ResolvePaths, AddWorktreeFails, Refused, Skip, RemoveWorktree, Anchor, Verify, Return
<1> QED
  BY <1>2, <1>3, <1>4, <1>5, <1>6 DEF Next, Evaluate

\* Each step of an evaluation goes forward in a lexicographic order that is bounded
\* by the plan, and the clock takes nothing back: there are boundedly many steps,
\* whatever commands, validators and the clock do.
THEOREM EvaluationAdvancesAlways == Spec => EvaluationAdvances /\ []WithinPlan
<1>1. TypeInv /\ [Next]_vars =>
        [(Evaluate => Forward) /\ (~Evaluate => UNCHANGED <<pc, i, k, worktrees>>)]_vars
  <2> SUFFICES ASSUME TypeInv, Next
               PROVE  (Evaluate => Forward) /\ (~Evaluate => UNCHANGED <<pc, i, k, worktrees>>)
    OBVIOUS
  <2>1. CASE Evaluate
    BY <2>1, StepForward
  <2>2. CASE ~Evaluate
    BY <2>2 DEF Next, Tick, vars
  <2> QED
    BY <2>1, <2>2
<1>2. Init => WithinPlan
  BY EvaluationAssumption DEF Init, WithinPlan
<1> QED
  BY <1>1, <1>2, TypeInvAlways, WithinStep, PTL DEF Spec, EvaluationAdvances
=============================================================================
