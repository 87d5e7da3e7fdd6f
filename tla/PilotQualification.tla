------------------------ MODULE PilotQualification ------------------------
(***************************************************************************)
(* src/pilot-qualification.mjs: the compiler that closes a frozen          *)
(* qualification policy over the supplied results and artifacts and emits  *)
(* a receipt, and the check a reader of the receipt makes.                 *)
(*                                                                         *)
(* The digest of a document is the document: two documents have the same   *)
(* digest iff they are equal.  Identifiers are numbers in their sort       *)
(* order.  `invocation` stands for platform, profile and argv, `answer`    *)
(* for the outcome together with the exit code 0, `cost` for the duration  *)
(* and the output of a check.  Of a receipt only what its readers compare  *)
(* is kept.                                                                *)
(***************************************************************************)
EXTENDS Integers, Sequences, SequencesExt

CONSTANT None

CheckIds(s) == [n \in DOMAIN s |-> s[n].checkId]
ArtifactIds(s) == [n \in DOMAIN s |-> s[n].artifactId]

SortedIds(ids) == \A a, b \in DOMAIN ids : a < b => ids[a] <= ids[b]
UniqueIds(ids) == \A a, b \in DOMAIN ids : a # b => ids[a] # ids[b]
OrderedUnique(ids) == SortedIds(ids) /\ UniqueIds(ids)

IsList(s) == s \in Seq(Range(s))

\* What the schemas of the two documents say of the fields looked at here.
WellFormed(policy, input) ==
  /\ IsList(policy.requiredChecks) /\ IsList(input.results) /\ IsList(input.artifacts)
  /\ CheckIds(policy.requiredChecks) \in Seq(Int) /\ CheckIds(input.results) \in Seq(Int)
  /\ ArtifactIds(input.artifacts) \in Seq(Int)
  /\ policy.maxTasks \in Nat

\* What the contract layer refuses before anything is compiled.
PolicyValid(policy) == OrderedUnique(CheckIds(policy.requiredChecks))
InputValid(input) == /\ OrderedUnique(CheckIds(input.results))
                     /\ OrderedUnique(ArtifactIds(input.artifacts))

Required(policy) == Range(CheckIds(policy.requiredChecks))
Observed(input) == Range(CheckIds(input.results))
CheckOf(policy, id) == CHOOSE check \in Range(policy.requiredChecks) : check.checkId = id

\* The result answers a required check by the invocation the policy froze.
Expected(policy, r) ==
  r.checkId \in Required(policy) /\ r.invocation = CheckOf(policy, r.checkId).invocation
Failed(policy, r) ==
  r.checkId \in Required(policy) /\ r.answer # CheckOf(policy, r.checkId).expectedOutcome

\* Mutant: artifacts without a result are not looked for.
EvidenceInvalidByResult(policy, input) ==
  \E r \in Range(input.results) :
    /\ r.checkId \in Required(policy)
    /\ \A a \in Range(input.artifacts) : a.artifactId = r.checkId => a.digest # r.evidence

\* The sums against the ceilings of the policy.
TooCostly(policy, input) == FoldSeq(LAMBDA r, sum : r.cost + sum, 0, input.results) > policy.maxCost
TooLarge(policy, input) == FoldSeq(LAMBDA a, sum : a.size + sum, 0, input.artifacts) > policy.maxArtifactBytes

EvidenceInvalid(policy, input) ==
  \/ ~OrderedUnique(ArtifactIds(input.artifacts))
  \/ \E r \in Range(input.results) :
       /\ r.checkId \in Required(policy)
       /\ \A a \in Range(input.artifacts) : a.artifactId = r.checkId => a.digest # r.evidence
  \/ Range(ArtifactIds(input.artifacts)) # Required(policy)
  \/ TooLarge(policy, input)

Reasons(policy, input) == {code \in
    {"QUALIFICATION_POLICY_INVALID", "QUALIFICATION_IDENTITY_MISMATCH", "QUALIFICATION_INPUT_INVALID",
     "QUALIFICATION_RESULT_DUPLICATE", "QUALIFICATION_RESULT_UNEXPECTED", "QUALIFICATION_RESULT_FAILED",
     "QUALIFICATION_RESULT_MISSING", "QUALIFICATION_EVIDENCE_INVALID"} :
  CASE code = "QUALIFICATION_POLICY_INVALID" -> input.policy # policy \/ ~PolicyValid(policy)
    [] code = "QUALIFICATION_IDENTITY_MISMATCH" ->
         input.subject # policy.subject \/ input.activation # policy.activation
    [] code = "QUALIFICATION_INPUT_INVALID" ->
         \/ ~SortedIds(CheckIds(input.results))
         \/ Len(policy.requiredChecks) > policy.maxTasks \/ Len(input.results) > policy.maxTasks
         \/ TooCostly(policy, input)
    [] code = "QUALIFICATION_RESULT_DUPLICATE" -> ~UniqueIds(CheckIds(input.results))
    [] code = "QUALIFICATION_RESULT_UNEXPECTED" -> \E r \in Range(input.results) : ~Expected(policy, r)
    [] code = "QUALIFICATION_RESULT_FAILED" -> \E r \in Range(input.results) : Failed(policy, r)
    [] code = "QUALIFICATION_RESULT_MISSING" -> ~(Required(policy) \subseteq Observed(input))
    [] OTHER -> EvidenceInvalid(policy, input)}

\* An input the contract layer refuses gets a receipt that repeats the policy.
CompilePilotQualification(policy, input) ==
  [subject |-> IF InputValid(input) THEN input.subject ELSE policy.subject,
   conformance |-> IF InputValid(input) THEN input.conformance ELSE None,
   policy |-> policy,
   activation |-> policy.activation,
   complete |-> InputValid(input) /\ Reasons(policy, input) = {},
   sealed |-> TRUE]

VerifyPilotQualificationReceipt(receipt, policy) ==
  /\ receipt.complete /\ receipt.sealed
  /\ receipt.policy = policy
  /\ receipt.activation = policy.activation
  /\ receipt.subject = policy.subject

-----------------------------------------------------------------------------
\* Reference definition: the policy lists its checks in order and once each, and
\* the results and the artifacts are those checks themselves, one for one and in
\* the same order, answered as the policy demands and within its ceilings.
Exact(policy, input) ==
  LET required == policy.requiredChecks IN
  /\ PolicyValid(policy)
  /\ input.policy = policy /\ input.subject = policy.subject /\ input.activation = policy.activation
  /\ Len(input.results) = Len(required) /\ Len(input.artifacts) = Len(required)
  /\ Len(required) <= policy.maxTasks
  /\ \A n \in DOMAIN required :
       /\ input.results[n].checkId = required[n].checkId
       /\ input.results[n].invocation = required[n].invocation
       /\ input.results[n].answer = required[n].expectedOutcome
       /\ input.artifacts[n].artifactId = required[n].checkId
       /\ input.artifacts[n].digest = input.results[n].evidence
  /\ ~TooCostly(policy, input) /\ ~TooLarge(policy, input)
=============================================================================
