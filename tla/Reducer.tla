-------------------------------- MODULE Reducer --------------------------------
(***************************************************************************)
(* The disposition reducer (src/reducer.mjs): what a sequence of check     *)
(* results, in the order they arrive, reduces to under a compiled plan.    *)
(*                                                                         *)
(* A result is a record: `shaped` when it is a valid check-result@1,       *)
(* `check` the id it names, `binding` the plan, candidate, pack and effect *)
(* it claims, `outcome` and `codes`.                                       *)
(***************************************************************************)
EXTENDS Naturals, Sequences

CONSTANTS
  Check,     \* the checks of the compiled plan
  Effect,    \* Effect[c]: "BLOCKING" or "ADVISORY"
  Consumer,  \* Consumer[c]: "DISPOSITION_REDUCER" or "EVIDENCE_ONLY"
  Binding    \* Binding[c]: the plan digest, candidate, pack and effect of c

\* validateValue of the pack: a BLOCKING check reaches the reducer.
ASSUME PlanAssumption ==
  /\ Effect \in [Check -> {"BLOCKING", "ADVISORY"}]
  /\ Consumer \in [Check -> {"DISPOSITION_REDUCER", "EVIDENCE_ONLY"}]
  /\ \A c \in Check : Effect[c] = "BLOCKING" => Consumer[c] = "DISPOSITION_REDUCER"

Outcome == {"PASS", "FIRED", "INFRA_FAILURE", "SKIPPED"}

Required == {c \in Check : Effect[c] = "BLOCKING" /\ Consumer[c] # "EVIDENCE_ONLY"}

-----------------------------------------------------------------------------
\* A result that answers the check it names: it binds to plan and candidate.
Binds(r) == r.shaped /\ r.check \in Check /\ r.binding = Binding[r.check]

\* The results the reducer keeps: for each check the first that binds.
Kept(rs) ==
  {i \in DOMAIN rs : /\ Binds(rs[i])
                     /\ \A j \in 1 .. (i - 1) : Binds(rs[j]) => rs[j].check # rs[i].check}

\* A well-formed result for a check that has already been answered.
Duplicate(rs) ==
  LET kept == Kept(rs) IN
  {i \in DOMAIN rs : rs[i].shaped /\ \E j \in kept : j < i /\ rs[j].check = rs[i].check}

Mismatch(rs) == DOMAIN rs \ (Kept(rs) \cup Duplicate(rs))

Answered(rs) == {rs[i].check : i \in Kept(rs)}

\* What one kept result adds to the blocking reasons.
Blame(r) ==
  (CASE r.outcome = "FIRED" -> {"CHECK_FIRED"}
     [] r.outcome = "INFRA_FAILURE" -> {"INFRASTRUCTURE_FAILURE"}
     [] r.outcome = "SKIPPED" -> {"CHECK_SKIPPED"}
     [] OTHER -> {})
  \cup (IF r.outcome = "PASS" THEN {} ELSE r.codes)

Reasons(rs) ==
  (IF Mismatch(rs) = {} THEN {} ELSE {"RESULT_BINDING_MISMATCH"})
  \cup (IF Duplicate(rs) = {} THEN {} ELSE {"DUPLICATE_RESULT"})
  \cup (IF Required \subseteq Answered(rs) THEN {} ELSE {"MISSING_REQUIRED_RESULT"})
  \cup UNION {Blame(rs[i]) : i \in {j \in Kept(rs) : rs[j].check \in Required}}

Disposition(rs) == IF Reasons(rs) = {} THEN "PROMOTABLE" ELSE "BLOCKED"

\* Everything the caller is given; the lists follow the order of the plan.
Consumed(rs) ==
  {<<rs[i].check, rs[i].outcome>> : i \in {j \in Kept(rs) : Consumer[rs[j].check] # "EVIDENCE_ONLY"}}
Advisory(rs) ==
  {<<rs[i].check, rs[i].outcome, rs[i].codes>> :
     i \in {j \in Kept(rs) : rs[j].check \notin Required /\ Consumer[rs[j].check] # "EVIDENCE_ONLY"}}
EvidenceOnly(rs) ==
  {<<rs[i].check, rs[i].outcome>> : i \in {j \in Kept(rs) : Consumer[rs[j].check] = "EVIDENCE_ONLY"}}

Reduced(rs) ==
  [disposition |-> Disposition(rs), reasonCodes |-> Reasons(rs), consumed |-> Consumed(rs),
   advisory |-> Advisory(rs), evidenceOnly |-> EvidenceOnly(rs)]
=============================================================================
