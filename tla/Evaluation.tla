------------------------------ MODULE Evaluation ------------------------------
(***************************************************************************)
(* One evaluation of a candidate (src/evaluate.mjs): authority is loaded,  *)
(* two worktrees are made, the checks of the compiled plan run in order    *)
(* against one monotonic deadline, the worktrees are removed, the results  *)
(* are reduced and anchored, and the receipt must verify before it is      *)
(* written.  The reduction is that of module Reducer.                      *)
(***************************************************************************)
EXTENDS Reducer, FiniteSets

CONSTANTS
  Plan,           \* the checks of the compiled plan, in order
  Phase,          \* Phase[c]
  Validator,      \* Validator[c]: what decides check c
  IntegrityHalts, \* the checks of INTEGRITY_HALT_CHECK_IDS
  Command,        \* every command of the run
  Commands,       \* Commands[c]: the commands c launches, in order
  Bounded,        \* a version 2 or 3 contract: executions are reported
  RefLimits,      \* the limits tried on the evidence references of a result
  CeilingBinds,   \* whether the artifact ceiling can be reached
  Planted,        \* what the conformance hooks may corrupt between phases
  Removable       \* whether removing a worktree always succeeds

\* Built-in validators; REPORTING ones (prior art, orphan closure) store a report.
Builtins == {"IDENTITY", "SCOPE", "STABILITY", "BINDING", "REPORTING"}

ASSUME EvaluationAssumption ==
  /\ Plan \in Seq(Check)
  /\ \A c \in Check : \E n \in DOMAIN Plan : Plan[n] = c
  /\ \A m, n \in DOMAIN Plan : Plan[m] = Plan[n] => m = n
  /\ Phase \in [Check -> {"CONTRACT_ADMISSION", "CANDIDATE_VALIDATION", "PROMOTION_FINALIZATION"}]
  /\ Validator \in [Check -> Builtins \cup {"PLAN", "TARGET"}]
  /\ Commands \in [Check -> Seq(Command)]
  /\ \A c \in Check : Validator[c] \in Builtins => Commands[c] = <<>>
  /\ \A c, d \in Check : \A m \in DOMAIN Commands[c], n \in DOMAIN Commands[d] :
       Commands[c][m] = Commands[d][n] => c = d /\ m = n
  /\ Bounded \in BOOLEAN /\ CeilingBinds \in BOOLEAN /\ Removable \in BOOLEAN
  /\ RefLimits \subseteq Nat
  /\ Planted \subseteq {"candidate", "referenced", "unreferenced"}

\* The mandatory kernel packs end the plan with a blocking check that the
\* candidate is unchanged; the compiler sorts the checks by phase.
ASSUME MandatoryAssumption ==
  /\ \E n \in DOMAIN Plan : /\ Plan[n] \in Required /\ Validator[Plan[n]] = "STABILITY"
                            /\ Phase[Plan[n]] = "PROMOTION_FINALIZATION"
  /\ \A m, n \in DOMAIN Plan :
       m < n /\ Phase[Plan[m]] = "PROMOTION_FINALIZATION" => Phase[Plan[n]] = "PROMOTION_FINALIZATION"

VARIABLES
  pc,         \* what the evaluation does next
  i,          \* the check of the plan it has come to
  k,          \* the command of that check
  clock,      \* "running", "closing" (less than half a millisecond left) or "past"
  halt,       \* haltCode, or "none"
  results,    \* the results recorded
  ran,        \* ran[x]: what became of command x
  reports,    \* the commands whose execution report the receipt will carry
  worktrees,  \* the worktrees on disk, and "partial", the directory of one git refused
  dirty,      \* what has been corrupted
  returned,   \* "none", a disposition, or the reason of a failure
  maxRefs     \* the evidence references one result may carry; it never changes

vars == <<pc, i, k, clock, halt, results, ran, reports, worktrees, dirty, returned, maxRefs>>

\* What can become of a command: run to an end, or never launched.
Executed == {"passed", "late", "failed", "timedOut", "limited", "spawnFailed"}
Unrun == {"refused", "thrown", "unsandboxed", "rejected"}

Of(c) == {Commands[c][n] : n \in DOMAIN Commands[c]}

Init ==
  /\ pc = "load" /\ i = 1 /\ k = 1
  /\ clock = "running" /\ halt = "none"
  /\ results = <<>>
  /\ ran = [x \in Command |-> "unlaunched"]
  /\ reports = {} /\ worktrees = {} /\ dirty = {}
  /\ returned = "none"
  /\ maxRefs \in RefLimits

Return(what) == pc' = "done" /\ returned' = what

-----------------------------------------------------------------------------
\* A document or object is missing, unsigned, mistyped or does not compile.
Reject ==
  /\ pc = "load"
  /\ Return("AUTHORITY")
  /\ UNCHANGED <<i, k, clock, halt, results, ran, reports, worktrees, dirty, maxRefs>>

Load ==
  /\ pc = "load"
  /\ pc' = "base"
  /\ UNCHANGED <<i, k, clock, halt, results, ran, reports, worktrees, dirty, returned, maxRefs>>

AddWorktree ==
  /\ pc \in {"base", "candidate"}
  /\ worktrees' = worktrees \cup {pc}
  /\ pc' = (IF pc = "base" THEN "candidate" ELSE "resolve")
  /\ UNCHANGED <<i, k, clock, halt, results, ran, reports, dirty, returned, maxRefs>>

\* The real paths of both worktrees.
ResolvePaths ==
  /\ pc = "resolve"
  /\ pc' = "check"
  /\ UNCHANGED <<i, k, clock, halt, results, ran, reports, worktrees, dirty, returned, maxRefs>>

\* Mutant: the catch block forgets the base worktree.
AddWorktreeFailsUncleaned ==
  /\ pc \in {"base", "candidate", "resolve"}
  /\ Return("INFRASTRUCTURE_FAILURE")
  /\ UNCHANGED <<i, k, clock, halt, results, ran, reports, worktrees, dirty, maxRefs>>

\* What materializeWorktree leaves of the worktree that git refused: it removes
\* its directory, and the catch block swallows the error when that throws.
Refused == IF pc # "resolve" /\ ~Removable THEN {{}, {"partial"}} ELSE {{}}

\* The candidate's commit, a worktree or its real path cannot be had.  The catch
\* block removes the worktrees that were made, the candidate's first; that may
\* throw again, over the failure.
AddWorktreeFails ==
  /\ pc \in {"base", "candidate", "resolve"}
  /\ \E refused \in Refused :
       \/ Return("INFRASTRUCTURE_FAILURE") /\ worktrees' = refused
       \/ /\ ~Removable /\ worktrees # {} /\ Return("THROWN")
          /\ worktrees' \in {worktrees \cup refused, {"base"} \cup refused}
  /\ UNCHANGED <<i, k, clock, halt, results, ran, reports, dirty, maxRefs>>

-----------------------------------------------------------------------------
\* The top of the loop.  Between two phases the conformance hooks may corrupt
\* the candidate, an object that a result refers to, or another object.
Hook ==
  IF i > 1 /\ Phase[Plan[i]] # Phase[Plan[i - 1]]
  THEN \E spoilt \in SUBSET Planted :
         /\ "referenced" \in spoilt => \E n \in DOMAIN results : results[n].evidence
         /\ dirty' = dirty \cup spoilt
  ELSE UNCHANGED dirty

\* Mutant: the deadline replaces the reason of a halt.
HaltedByDeadlineFirst == IF clock = "past" THEN "DEADLINE_EXCEEDED" ELSE halt

Halted == IF halt = "none" /\ clock = "past" THEN "DEADLINE_EXCEEDED" ELSE halt

ResultOf(c, outcome, codes, evidence) ==
  [shaped |-> TRUE, check |-> c, binding |-> Binding[c], outcome |-> outcome,
   codes |-> codes, evidence |-> evidence, late |-> clock = "past"]

\* Mutant: a skipped check leaves no result.
SkipSilently ==
  /\ pc = "check" /\ i <= Len(Plan) /\ Halted # "none"
  /\ halt' = Halted
  /\ i' = i + 1
  /\ Hook
  /\ UNCHANGED <<pc, k, clock, results, ran, reports, worktrees, returned, maxRefs>>

Skip ==
  /\ pc = "check" /\ i <= Len(Plan) /\ Halted # "none"
  /\ halt' = Halted
  /\ results' = Append(results, ResultOf(Plan[i], "SKIPPED", {Halted}, FALSE))
  /\ i' = i + 1
  /\ Hook
  /\ UNCHANGED <<pc, k, clock, ran, reports, worktrees, returned, maxRefs>>

Begin ==
  /\ pc = "check" /\ i <= Len(Plan) /\ Halted = "none"
  /\ pc' = (IF Validator[Plan[i]] \in Builtins THEN "builtin" ELSE "command")
  /\ k' = 1
  /\ Hook
  /\ UNCHANGED <<i, clock, halt, results, ran, reports, worktrees, returned, maxRefs>>

Halting(r) ==
  /\ r.outcome # "PASS" /\ Effect[r.check] = "BLOCKING"
  /\ Phase[r.check] = "CONTRACT_ADMISSION" \/ r.check \in IntegrityHalts

\* The bottom of the loop: a malformed result is replaced, and the failure of
\* an integrity check or of an admission check halts the run.
Record(outcome, codes, refs) ==
  LET c == Plan[i]
      r == IF refs <= maxRefs THEN ResultOf(c, outcome, codes, refs > 0)
           ELSE ResultOf(c, "INFRA_FAILURE", {"INFRASTRUCTURE_FAILURE"}, FALSE)
  IN /\ results' = Append(results, r)
     /\ halt' = IF Halting(r) THEN "CHECK_SKIPPED" ELSE halt
     /\ i' = i + 1
     /\ pc' = "check"

-----------------------------------------------------------------------------
\* The outcomes a built-in validator can report in the present state.
Spoilt(v) ==
  \/ v \in {"IDENTITY", "STABILITY"} /\ "candidate" \in dirty
  \/ v = "BINDING" /\ "referenced" \in dirty

Verdicts(v) ==
  (IF Spoilt(v) THEN {} ELSE {"PASS"})
  \cup (IF Spoilt(v) \/ v \notin {"STABILITY", "BINDING"} THEN {"FIRED"} ELSE {})
  \cup (IF v # "BINDING" \/ CeilingBinds THEN {"INFRA_FAILURE"} ELSE {})

BuiltinCodes == [PASS |-> {}, FIRED |-> {"FINDING"}, INFRA_FAILURE |-> {"INFRASTRUCTURE_FAILURE"}]

BuiltinEnds ==
  LET v == Validator[Plan[i]] IN
  /\ pc = "builtin"
  /\ \E outcome \in Verdicts(v) :
       Record(outcome, BuiltinCodes[outcome],
              IF v \in {"BINDING", "REPORTING"} /\ outcome # "INFRA_FAILURE" THEN 1 ELSE 0)
  /\ UNCHANGED <<k, clock, ran, reports, worktrees, dirty, returned, maxRefs>>

-----------------------------------------------------------------------------
\* The commands of a validation-plan check, and the one of a target check.
AtCommand == pc = "command" /\ k <= Len(Commands[Plan[i]])
Became(status) == ran' = [ran EXCEPT ![Commands[Plan[i]][k]] = status] /\ k' = k + 1

\* Mutant: a refused command is tried again.
RefuseCommandRetries ==
  /\ AtCommand /\ clock # "running"
  /\ ran' = [ran EXCEPT ![Commands[Plan[i]][k]] = "refused"]
  /\ UNCHANGED <<pc, i, k, clock, halt, results, reports, worktrees, dirty, returned, maxRefs>>

\* No budget is left (remainingMs rounds to zero): nothing is launched.
RefuseCommand ==
  /\ AtCommand /\ clock # "running"
  /\ Became("refused")
  /\ UNCHANGED <<pc, i, clock, halt, results, reports, worktrees, dirty, returned, maxRefs>>

\* The runner throws, or the toolchain refuses the executable.
CommandUnrun ==
  /\ AtCommand /\ clock = "running"
  /\ \E status \in {"thrown", "unsandboxed", "rejected"} : Became(status)
  /\ UNCHANGED <<pc, i, clock, halt, results, reports, worktrees, dirty, returned, maxRefs>>

LaunchCommand ==
  /\ AtCommand /\ clock = "running"
  /\ pc' = "running"
  /\ UNCHANGED <<i, k, clock, halt, results, ran, reports, worktrees, dirty, returned, maxRefs>>

\* A success counts as late when the deadline is past once its output is stored.
Endings ==
  {"failed", "timedOut", "spawnFailed"}
  \cup (IF Bounded THEN {"limited"} ELSE {})
  \cup (IF clock = "past" THEN {"late"} ELSE {"passed"})

CommandEnds ==
  /\ pc = "running"
  /\ \E status \in Endings : Became(status)
  /\ pc' = "command"
  /\ UNCHANGED <<i, clock, halt, results, reports, worktrees, dirty, returned, maxRefs>>

\* Its output does not fit under the ceiling: the check is abandoned with the
\* reports it had.
OutputOverflows ==
  /\ pc = "running" /\ CeilingBinds
  /\ \E status \in Endings : Became(status)
  /\ Record("INFRA_FAILURE", {"INFRASTRUCTURE_FAILURE"}, 0)
  /\ UNCHANGED <<clock, reports, worktrees, dirty, returned, maxRefs>>

\* The reason code of a command that failed.
FailureCodes(status) ==
  CASE status = "timedOut" -> {"COMMAND_TIMEOUT"}
    [] status = "limited" -> {"TASK_BUDGET_EXCEEDED"}
    [] status = "failed" -> {"COMMAND_FAILED"}
    [] status = "unsandboxed" -> {"SANDBOX_UNAVAILABLE"}
    [] status = "rejected" -> {"TOOLCHAIN_UNRESOLVED"}
    [] OTHER -> {}

\* Mutants: a late success counts; a task limit is reported as a plain failure.
CodesOfLateAccepted(status) ==
  IF status = "refused" THEN {"DEADLINE_EXCEEDED"} ELSE FailureCodes(status)
CodesOfLimitMerged(status) ==
  IF status \in {"refused", "late"} THEN {"DEADLINE_EXCEEDED"}
  ELSE FailureCodes(IF status = "limited" THEN "failed" ELSE status)

CodesOf(status) ==
  IF status \in {"refused", "late"} THEN {"DEADLINE_EXCEEDED"} ELSE FailureCodes(status)

Broken == {"thrown", "unsandboxed", "rejected", "spawnFailed"}

Statuses(c) == {ran[x] : x \in Of(c)}
Ran(c) == {x \in Of(c) : ran[x] \in Executed}

PlanCodes(c) ==
  (UNION {CodesOf(status) : status \in Statuses(c)})
  \cup (IF Statuses(c) \cap Broken = {} THEN {} ELSE {"INFRASTRUCTURE_FAILURE"})

\* A rejected executable leaves no report, and reading it throws.
TargetCodes(c) ==
  CASE Statuses(c) = {"unsandboxed"} -> {"SANDBOX_UNAVAILABLE"}
    [] Statuses(c) = {"rejected"} -> {"INFRASTRUCTURE_FAILURE"}
    [] OTHER -> PlanCodes(c)

CommandsEnd ==
  LET c == Plan[i]
      codes == IF Validator[c] = "TARGET" THEN TargetCodes(c) ELSE PlanCodes(c)
      outcome == IF Statuses(c) \cap Broken # {} THEN "INFRA_FAILURE"
                 ELSE IF codes # {} THEN "FIRED" ELSE "PASS"
  IN
  /\ pc = "command" /\ k > Len(Commands[c])
  /\ Record(outcome, codes, (IF Validator[c] = "TARGET" THEN 2 ELSE 3) * Cardinality(Ran(c)))
  /\ reports' = IF Bounded THEN reports \cup Ran(c) ELSE reports
  /\ UNCHANGED <<k, clock, ran, worktrees, dirty, returned, maxRefs>>

-----------------------------------------------------------------------------
\* The finally block.  The second removal does not happen when the first throws.
RemoveWorktree ==
  /\ pc = "check" /\ i > Len(Plan) /\ worktrees # {}
  /\ \/ /\ worktrees' = (IF "candidate" \in worktrees THEN worktrees \ {"candidate"} ELSE {})
        /\ UNCHANGED <<pc, returned, maxRefs>>
     \/ ~Removable /\ Return("THROWN") /\ UNCHANGED worktrees
  /\ UNCHANGED <<i, k, clock, halt, results, ran, reports, dirty, maxRefs>>

\* Every result is stored and the index is closed, or the ceiling is reached.
Anchor ==
  /\ pc = "check" /\ i > Len(Plan) /\ worktrees = {}
  /\ \/ pc' = "verify" /\ UNCHANGED returned
     \/ CeilingBinds /\ Return("DOCUMENT_BOUNDS_EXCEEDED")
  /\ UNCHANGED <<i, k, clock, halt, results, ran, reports, worktrees, dirty, maxRefs>>

\* Mutant: skipped and broken checks must have reports too.
ReportMissingAlways == \E n \in DOMAIN results : ~(Of(results[n].check) \subseteq reports)

\* What verifyReceipt finds wrong with the receipt and the evidence.
ReportMissing ==
  \E n \in DOMAIN results : /\ results[n].outcome \in {"PASS", "FIRED"}
                            /\ ~(Of(results[n].check) \subseteq reports)
LimitUnreported ==
  \E n \in DOMAIN results : /\ \E x \in Of(results[n].check) \cap reports : ran[x] = "limited"
                            /\ "TASK_BUDGET_EXCEEDED" \notin results[n].codes

SelfErrors ==
  (IF Bounded /\ LimitUnreported THEN {"DISPOSITION_MISMATCH"} ELSE {})
  \cup (IF Bounded /\ ReportMissing THEN {"EVIDENCE_MISSING"} ELSE {})
  \cup (IF Disposition(results) = "PROMOTABLE" /\ dirty \ {"candidate"} # {}
        THEN {"EVIDENCE_MUTATED"} ELSE {})

\* The receipt may break its schema (too many changed files, packs, validators
\* or execution reports); it is verified only if it does not.
Verify ==
  /\ pc = "verify"
  /\ \/ Return("SCHEMA_VIOLATION")
     \/ IF SelfErrors = {} THEN Return(Disposition(results)) ELSE \E e \in SelfErrors : Return(e)
  /\ UNCHANGED <<i, k, clock, halt, results, ran, reports, worktrees, dirty, maxRefs>>

Tick ==
  /\ pc \notin {"load", "done"} /\ clock # "past"
  /\ clock' = IF clock = "running" THEN "closing" ELSE "past"
  /\ UNCHANGED <<pc, i, k, halt, results, ran, reports, worktrees, dirty, returned, maxRefs>>

Evaluate ==
  \/ Reject \/ Load \/ AddWorktree \/ ResolvePaths \/ AddWorktreeFails
  \/ Skip \/ Begin \/ BuiltinEnds
  \/ RefuseCommand \/ CommandUnrun \/ LaunchCommand
  \/ CommandEnds \/ OutputOverflows \/ CommandsEnd
  \/ RemoveWorktree \/ Anchor \/ Verify

Next == Evaluate \/ Tick \/ (pc = "done" /\ UNCHANGED vars)

\* The evaluation is synchronous: git, the commands (killed at their timeout)
\* and the file system return, and then it goes on.
Spec == Init /\ [][Next]_vars /\ WF_vars(Evaluate)
-----------------------------------------------------------------------------
\* The state is well typed (one result at most for each check of the plan).
TypeOK ==
  /\ pc \in {"load", "base", "candidate", "resolve", "check", "builtin", "command", "running", "verify", "done"}
  /\ i \in 1 .. (Len(Plan) + 1) /\ k \in Nat
  /\ clock \in {"running", "closing", "past"}
  /\ halt \in {"none", "CHECK_SKIPPED", "DEADLINE_EXCEEDED"}
  /\ Len(results) < Len(Plan) + 1
  /\ \A n \in DOMAIN results : results[n].check = Plan[n] /\ results[n].outcome \in Outcome
  /\ ran \in [Command -> Executed \cup Unrun \cup {"unlaunched"}]
  /\ reports \subseteq Command
  /\ worktrees \subseteq {"base", "candidate", "partial"}
  /\ dirty \subseteq Planted
  /\ returned \in {"none", "PROMOTABLE", "BLOCKED", "AUTHORITY", "INFRASTRUCTURE_FAILURE", "THROWN",
                    "DOCUMENT_BOUNDS_EXCEEDED", "EVIDENCE_MISSING", "EVIDENCE_MUTATED",
                    "DISPOSITION_MISMATCH", "SCHEMA_VIOLATION"}
  /\ maxRefs \in RefLimits

\* A candidate is promoted only if every command of every required check ran
\* to a success in time, and neither the candidate nor the evidence was
\* corrupted: no skip, refusal, overflow, late success or late corruption
\* anywhere in the run may end in PROMOTABLE.
PromotionProven ==
  returned = "PROMOTABLE" =>
    /\ \A c \in Required : \A x \in Of(c) : ran[x] = "passed"
    /\ Bounded => \A c \in Required : Of(c) \subseteq reports
    /\ dirty = {}

\* When the results are reduced there is one for each check of the plan, advisory
\* ones included, in its order and bound to it, whatever was skipped, abandoned or
\* replaced as malformed: the reducer finds none missing, repeated or foreign.
EveryCheckAnswered ==
  pc = "verify" =>
    /\ Len(results) = Len(Plan)
    /\ \A n \in DOMAIN Plan : results[n].check = Plan[n] /\ results[n].binding = Binding[Plan[n]]
    /\ Reasons(results) \cap {"RESULT_BINDING_MISMATCH", "DUPLICATE_RESULT", "MISSING_REQUIRED_RESULT"} = {}

\* A halt is final: once a check is skipped all later ones are, for the same
\* reason, and the halt has a cause, a failed integrity or admission check or the
\* deadline; and no command runs after an integrity or admission check has failed.
HaltIsFinal ==
  /\ \A n \in DOMAIN results : results[n].outcome = "SKIPPED" =>
       /\ \A m \in n .. Len(results) : results[m].outcome = "SKIPPED" /\ results[m].codes = results[n].codes
       /\ \/ results[n].codes = {"CHECK_SKIPPED"} /\ \E m \in 1 .. (n - 1) : Halting(results[m])
          \/ results[n].codes = {"DEADLINE_EXCEEDED"} /\ results[n].late
  /\ pc = "running" => \A n \in DOMAIN results : ~Halting(results[n])

\* However an evaluation ends (unless its process is killed), a worktree that was
\* made is left behind only when removing one threw out of the evaluation; one that
\* returns leaves at most the directory of a worktree that git refused, and that
\* only if removing it threw.
WorktreesRemoved ==
  pc = "done" =>
    /\ returned # "THROWN" => worktrees \subseteq {"partial"}
    /\ Removable => worktrees = {}

\* A run that answered every check fails its own verification only for corrupted
\* evidence, for a command that the deadline refused, or for a result with more
\* references than the schema admits.
LossExplained ==
  /\ returned = "EVIDENCE_MUTATED" => dirty # {}
  /\ returned = "EVIDENCE_MISSING" => Bounded /\ \E x \in Command : ran[x] = "refused"
  /\ returned = "DISPOSITION_MISMATCH" => \E c \in Check : 3 * Cardinality(Ran(c)) > maxRefs

\* What src/evaluate.mjs:355-369 provides for: a check whose executable the
\* toolchain refused reports TOOLCHAIN_UNRESOLVED.
RejectionNamed ==
  \A n \in DOMAIN results :
    "rejected" \in Statuses(results[n].check) => "TOOLCHAIN_UNRESOLVED" \in results[n].codes

\* Every evaluation returns.
EvaluationReturns == <>(pc = "done")
=============================================================================
