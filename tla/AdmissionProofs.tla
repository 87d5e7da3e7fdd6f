-------------------------- MODULE AdmissionProofs --------------------------
(***************************************************************************)
(* Theorems about module Admission, for any commits, policies, inputs of   *)
(* the qualification compiler, attestations and lifecycle documents, and   *)
(* whatever happens to the checkout between two reads.                     *)
(***************************************************************************)
EXTENDS Admission, WellFoundedInduction, TLAPS

\* The receipt is one that the compiler emitted.
ReceiptCompiled == IF pc = "qualify" THEN input \in Input ELSE receipt \in Receipts

\* The key of the caller is the pinned one or none.
DocsGiven == pc \in {"lifecycle", "done"} =>
  /\ docs.attestation \in Attestation \cup {None}
  /\ docs.key \in {PinnedKey, None}

\* The conformance decided on holds of what was read, which no later step reads again.
Conformed == pc = "lifecycle" \/ (pc = "done" /\ outcome.admitted) => ConformanceHolds(docs)

\* The outcome is that of a foundation, or of lifecycle documents presented with the receipt.
DecidedFrom(p, now) ==
  /\ lifecycle = [documents |-> p, now |-> now]
  /\ outcome = LifecycleOutcome(p, now)

Decided ==
  /\ pc # "done" => lifecycle = None
  /\ pc = "done" =>
       \/ lifecycle = None /\ outcome = FoundationOutcome
       \/ \E p \in Presentation(receipt), now \in Now : DecidedFrom(p, now)

IInv == TypeOK /\ ReceiptCompiled /\ DocsGiven /\ Conformed /\ Decided

-----------------------------------------------------------------------------
(***************************************************************************)
(* The qualification compiler: its eight tests against the definition of   *)
(* an exact qualification.                                                 *)
(***************************************************************************)
LEMMA LeastNumber ==
  ASSUME NEW S \in SUBSET Nat, S # {}
  PROVE  \E x \in S : \A y \in S : x <= y
<1> DEFINE R == OpToRel(<, Nat)
<1>1. IsWellFoundedOn(R, Nat)
  BY NatLessThanWellFounded
<1>2. \A x, y \in Nat : <<y, x>> \in R <=> y < x
  BY DEF OpToRel
<1> HIDE DEF R
<1>3. PICK x \in S : \A y \in S : ~(<<y, x>> \in R)
  BY <1>1, WFMin
<1>4. \A y \in S : x <= y
  <2> SUFFICES ASSUME NEW y \in S PROVE x <= y
    OBVIOUS
  <2>1. x \in Nat /\ y \in Nat /\ ~(y < x)
    BY <1>2, <1>3
  <2> QED
    BY <2>1
<1> QED
  BY <1>3, <1>4

\* Of two sorted lists without repetition where one holds what the other holds,
\* each is a beginning of the other.
LEMMA SortedAgree ==
  ASSUME NEW s \in Seq(Int), NEW t \in Seq(Int), OrderedUnique(s), OrderedUnique(t), Range(s) = Range(t)
  PROVE  \A n \in DOMAIN s : n \in DOMAIN t /\ s[n] = t[n]
<1> DEFINE Differ == {n \in DOMAIN s : ~(n \in DOMAIN t /\ s[n] = t[n])}
<1>1. /\ \A a, b \in DOMAIN s : a < b => s[a] < s[b]
      /\ \A a, b \in DOMAIN t : a < b => t[a] < t[b]
  BY DEF OrderedUnique, SortedIds, UniqueIds
<1>2. /\ \A a \in DOMAIN s : \E b \in DOMAIN t : s[a] = t[b]
      /\ \A b \in DOMAIN t : \E a \in DOMAIN s : s[a] = t[b]
  BY DEF Range
<1>3. SUFFICES ASSUME Differ # {} PROVE FALSE
  OBVIOUS
<1>4. Differ \in SUBSET Nat
  OBVIOUS
<1>5. PICK n \in Differ : \A m \in Differ : n <= m
  BY <1>3, <1>4, LeastNumber
<1>6. \A m \in DOMAIN s : m < n => m \in DOMAIN t /\ s[m] = t[m]
  BY <1>5
<1>7. PICK k \in DOMAIN t : s[n] = t[k]
  BY <1>2, <1>5
<1>8. ~(k < n)
  <2>1. SUFFICES ASSUME k < n PROVE FALSE
    OBVIOUS
  <2>2. k \in DOMAIN s
    BY <1>5, <2>1
  <2> QED
    BY <1>1, <1>5, <1>6, <1>7, <2>1, <2>2
<1>9. n \in DOMAIN t
  BY <1>5, <1>7, <1>8
<1>10. PICK j \in DOMAIN s : s[j] = t[n]
  BY <1>2, <1>9
<1>11. ~(j < n)
  BY <1>1, <1>6, <1>9, <1>10
<1>12. s[n] <= s[j] /\ t[n] <= t[k]
  <2>1. n = j \/ n < j
    BY <1>5, <1>11
  <2>2. n = k \/ n < k
    BY <1>5, <1>8
  <2>3. s[n] \in Int /\ s[j] \in Int /\ t[n] \in Int /\ t[k] \in Int
    BY <1>5, <1>9
  <2> QED
    BY <1>1, <1>5, <1>9, <2>1, <2>2, <2>3
<1>13. s[n] = t[n]
  BY <1>5, <1>7, <1>9, <1>10, <1>12
<1> QED
  BY <1>5, <1>9, <1>13

LEMMA SortedEqual ==
  ASSUME NEW s \in Seq(Int), NEW t \in Seq(Int), OrderedUnique(s), OrderedUnique(t), Range(s) = Range(t)
  PROVE  s = t
<1>1. \A n \in DOMAIN s : n \in DOMAIN t /\ s[n] = t[n]
  BY SortedAgree
<1>2. \A n \in DOMAIN t : n \in DOMAIN s /\ t[n] = s[n]
  BY SortedAgree
<1>3. DOMAIN s = DOMAIN t
  BY <1>1, <1>2
<1> QED
  BY <1>1, <1>3

\* No test of the compiler gives a reason.
LEMMA NoReason ==
  ASSUME NEW policy, NEW in
  PROVE  Reasons(policy, in) = {} <=>
           /\ in.policy = policy /\ PolicyValid(policy)
           /\ in.subject = policy.subject /\ in.activation = policy.activation
           /\ SortedIds(CheckIds(in.results)) /\ UniqueIds(CheckIds(in.results))
           /\ ~(Len(policy.requiredChecks) > policy.maxTasks) /\ ~(Len(in.results) > policy.maxTasks)
           /\ ~TooCostly(policy, in)
           /\ \A r \in Range(in.results) : Expected(policy, r) /\ ~Failed(policy, r)
           /\ Required(policy) \subseteq Observed(in)
           /\ ~EvidenceInvalid(policy, in)
<1>1. Reasons(policy, in) = {} <=>
        /\ "QUALIFICATION_POLICY_INVALID" \notin Reasons(policy, in)
        /\ "QUALIFICATION_IDENTITY_MISMATCH" \notin Reasons(policy, in)
        /\ "QUALIFICATION_INPUT_INVALID" \notin Reasons(policy, in)
        /\ "QUALIFICATION_RESULT_DUPLICATE" \notin Reasons(policy, in)
        /\ "QUALIFICATION_RESULT_UNEXPECTED" \notin Reasons(policy, in)
        /\ "QUALIFICATION_RESULT_FAILED" \notin Reasons(policy, in)
        /\ "QUALIFICATION_RESULT_MISSING" \notin Reasons(policy, in)
        /\ "QUALIFICATION_EVIDENCE_INVALID" \notin Reasons(policy, in)
  BY DEF Reasons
<1>2. "QUALIFICATION_POLICY_INVALID" \in Reasons(policy, in) <=> (in.policy # policy \/ ~PolicyValid(policy))
  BY DEF Reasons
<1>3. "QUALIFICATION_IDENTITY_MISMATCH" \in Reasons(policy, in) <=>
        (in.subject # policy.subject \/ in.activation # policy.activation)
  BY DEF Reasons
<1>4. "QUALIFICATION_INPUT_INVALID" \in Reasons(policy, in) <=>
        \/ ~SortedIds(CheckIds(in.results))
        \/ Len(policy.requiredChecks) > policy.maxTasks \/ Len(in.results) > policy.maxTasks
        \/ TooCostly(policy, in)
  BY DEF Reasons
<1>5. "QUALIFICATION_RESULT_DUPLICATE" \in Reasons(policy, in) <=> ~UniqueIds(CheckIds(in.results))
  BY DEF Reasons
<1>6. "QUALIFICATION_RESULT_UNEXPECTED" \in Reasons(policy, in) <=>
        \E r \in Range(in.results) : ~Expected(policy, r)
  BY DEF Reasons
<1>7. "QUALIFICATION_RESULT_FAILED" \in Reasons(policy, in) <=> \E r \in Range(in.results) : Failed(policy, r)
  BY DEF Reasons
<1>8. "QUALIFICATION_RESULT_MISSING" \in Reasons(policy, in) <=> ~(Required(policy) \subseteq Observed(in))
  BY DEF Reasons
<1>9. "QUALIFICATION_EVIDENCE_INVALID" \in Reasons(policy, in) <=> EvidenceInvalid(policy, in)
  BY DEF Reasons
<1> QED
  BY <1>1, <1>2, <1>3, <1>4, <1>5, <1>6, <1>7, <1>8, <1>9

\* A required check is found again by its id.
LEMMA CheckFound ==
  ASSUME NEW policy, PolicyValid(policy), NEW n \in DOMAIN policy.requiredChecks
  PROVE  CheckOf(policy, policy.requiredChecks[n].checkId) = policy.requiredChecks[n]
<1> DEFINE required == policy.requiredChecks
<1>1. \A a, b \in DOMAIN required : required[a].checkId = required[b].checkId => a = b
  BY DEF PolicyValid, OrderedUnique, UniqueIds, CheckIds
<1>2. required[n] \in Range(required)
  BY DEF Range
<1>3. \A check \in Range(required) : check.checkId = required[n].checkId => check = required[n]
  BY <1>1 DEF Range
<1> QED
  BY <1>2, <1>3 DEF CheckOf

\* What passes the tests is exact.
LEMMA CompleteIsExact ==
  ASSUME NEW policy, NEW in, WellFormed(policy, in), InputValid(in), Reasons(policy, in) = {}
  PROVE  Exact(policy, in)
<1> DEFINE required == policy.requiredChecks
           results == in.results
           artifacts == in.artifacts
<1>1. /\ in.policy = policy /\ PolicyValid(policy)
      /\ in.subject = policy.subject /\ in.activation = policy.activation
      /\ ~(Len(required) > policy.maxTasks)
      /\ ~TooCostly(policy, in)
      /\ \A r \in Range(results) : Expected(policy, r) /\ ~Failed(policy, r)
      /\ Required(policy) \subseteq Observed(in)
      /\ ~EvidenceInvalid(policy, in)
  BY NoReason
<1>2. /\ CheckIds(required) \in Seq(Int) /\ CheckIds(results) \in Seq(Int) /\ ArtifactIds(artifacts) \in Seq(Int)
      /\ OrderedUnique(CheckIds(required)) /\ OrderedUnique(CheckIds(results))
      /\ OrderedUnique(ArtifactIds(artifacts))
  BY <1>1 DEF WellFormed, PolicyValid, InputValid
<1>3. CheckIds(results) = CheckIds(required)
  <2>1. Observed(in) \subseteq Required(policy)
    BY <1>1 DEF Expected, Observed, CheckIds, Range
  <2>2. Range(CheckIds(results)) = Range(CheckIds(required))
    BY <1>1, <2>1 DEF Observed, Required
  <2> QED
    BY <1>2, <2>2, SortedEqual
<1>4. ArtifactIds(artifacts) = CheckIds(required)
  <2>1. Range(ArtifactIds(artifacts)) = Range(CheckIds(required))
    BY <1>1 DEF EvidenceInvalid, Required
  <2> QED
    BY <1>2, <2>1, SortedEqual
<1>5. DOMAIN results = DOMAIN required /\ DOMAIN artifacts = DOMAIN required
  BY <1>3, <1>4 DEF CheckIds, ArtifactIds
<1>6. Len(results) = Len(required) /\ Len(artifacts) = Len(required) /\ Len(required) <= policy.maxTasks
  <2>1. /\ required \in Seq(Range(required)) /\ results \in Seq(Range(results))
        /\ artifacts \in Seq(Range(artifacts)) /\ policy.maxTasks \in Nat
    BY DEF WellFormed, IsList
  <2> QED
    BY <1>1, <1>5, <2>1
<1>7. ASSUME NEW n \in DOMAIN required
      PROVE  /\ results[n].checkId = required[n].checkId
             /\ results[n].invocation = required[n].invocation
             /\ results[n].answer = required[n].expectedOutcome
             /\ artifacts[n].artifactId = required[n].checkId
             /\ artifacts[n].digest = results[n].evidence
  <2>1. results[n].checkId = required[n].checkId /\ artifacts[n].artifactId = required[n].checkId
    BY <1>3, <1>4, <1>5 DEF CheckIds, ArtifactIds
  <2>2. results[n] \in Range(results)
    BY <1>5 DEF Range
  <2>3. CheckOf(policy, results[n].checkId) = required[n] /\ results[n].checkId \in Required(policy)
    <3>1. required[n].checkId \in Required(policy)
      BY DEF Required, CheckIds, Range
    <3> QED
      BY <1>1, <2>1, <3>1, CheckFound
  <2>4. results[n].invocation = required[n].invocation /\ results[n].answer = required[n].expectedOutcome
    BY <1>1, <2>2, <2>3 DEF Expected, Failed
  <2>5. PICK a \in Range(artifacts) : a.artifactId = results[n].checkId /\ a.digest = results[n].evidence
    BY <1>1, <2>2, <2>3 DEF EvidenceInvalid
  <2>6. PICK k \in DOMAIN artifacts : a = artifacts[k]
    BY <2>5 DEF Range
  <2>7. k = n
    <3>1. ArtifactIds(artifacts)[k] = ArtifactIds(artifacts)[n]
      BY <1>5, <2>1, <2>5, <2>6 DEF ArtifactIds
    <3>2. k \in DOMAIN ArtifactIds(artifacts) /\ n \in DOMAIN ArtifactIds(artifacts)
      BY <1>5, <2>6 DEF ArtifactIds
    <3> QED
      BY <1>2, <3>1, <3>2 DEF OrderedUnique, UniqueIds
  <2> QED
    BY <2>1, <2>4, <2>5, <2>6, <2>7
<1>8. ~TooLarge(policy, in)
  BY <1>1 DEF EvidenceInvalid
<1> QED
  BY <1>1, <1>6, <1>7, <1>8 DEF Exact

\* What is exact passes the tests.
LEMMA ExactIsComplete ==
  ASSUME NEW policy, NEW in, WellFormed(policy, in), Exact(policy, in)
  PROVE  InputValid(in) /\ Reasons(policy, in) = {}
<1> DEFINE required == policy.requiredChecks
           results == in.results
           artifacts == in.artifacts
<1>1. /\ PolicyValid(policy)
      /\ in.policy = policy /\ in.subject = policy.subject /\ in.activation = policy.activation
      /\ Len(results) = Len(required) /\ Len(artifacts) = Len(required)
      /\ Len(required) <= policy.maxTasks
      /\ \A n \in DOMAIN required :
           /\ results[n].checkId = required[n].checkId
           /\ results[n].invocation = required[n].invocation
           /\ results[n].answer = required[n].expectedOutcome
           /\ artifacts[n].artifactId = required[n].checkId
           /\ artifacts[n].digest = results[n].evidence
      /\ ~TooCostly(policy, in) /\ ~TooLarge(policy, in)
  BY DEF Exact
<1>2. DOMAIN results = DOMAIN required /\ DOMAIN artifacts = DOMAIN required
  <2>1. /\ required \in Seq(Range(required)) /\ results \in Seq(Range(results))
        /\ artifacts \in Seq(Range(artifacts))
    BY DEF WellFormed, IsList
  <2> QED
    BY <1>1, <2>1
<1>3. CheckIds(results) = CheckIds(required) /\ ArtifactIds(artifacts) = CheckIds(required)
  BY <1>1, <1>2 DEF CheckIds, ArtifactIds
<1>4. OrderedUnique(CheckIds(required))
  BY <1>1 DEF PolicyValid
<1>5. ~(Len(required) > policy.maxTasks) /\ ~(Len(results) > policy.maxTasks)
  <2>1. required \in Seq(Range(required)) /\ policy.maxTasks \in Nat
    BY DEF WellFormed, IsList
  <2> QED
    BY <1>1, <2>1
<1>6. ASSUME NEW r \in Range(results)
      PROVE  /\ Expected(policy, r) /\ ~Failed(policy, r)
             /\ \E a \in Range(artifacts) : a.artifactId = r.checkId /\ a.digest = r.evidence
  <2>1. PICK n \in DOMAIN required : r = results[n]
    BY <1>2 DEF Range
  <2>2. r.checkId \in Required(policy)
    BY <1>1, <2>1 DEF Required, CheckIds, Range
  <2>3. CheckOf(policy, r.checkId) = required[n]
    BY <1>1, <2>1, CheckFound
  <2>4. artifacts[n] \in Range(artifacts)
    BY <1>2 DEF Range
  <2> QED
    BY <1>1, <2>1, <2>2, <2>3, <2>4 DEF Expected, Failed
<1>7. ~EvidenceInvalid(policy, in)
  <2>1. Range(ArtifactIds(artifacts)) = Required(policy)
    BY <1>3 DEF Required
  <2> QED
    BY <1>1, <1>3, <1>4, <1>6, <2>1 DEF EvidenceInvalid
<1>8. Required(policy) \subseteq Observed(in)
  BY <1>3 DEF Required, Observed
<1>9. InputValid(in) /\ SortedIds(CheckIds(results)) /\ UniqueIds(CheckIds(results))
  BY <1>3, <1>4 DEF InputValid, OrderedUnique
<1> QED
  BY <1>1, <1>5, <1>6, <1>7, <1>8, <1>9, NoReason

-----------------------------------------------------------------------------
\* What LifecycleFailure has looked at when it finds nothing.
LEMMA NothingFailed ==
  ASSUME NEW p, NEW now, LifecycleFailure(p, now) = None
  PROVE  /\ Supplied(p) = LifecycleDocument
         /\ StatementBinds(p) /\ InForce(p.statement, now)
         /\ PredecessorBinds(p) /\ SequenceFollows(p) /\ EvidenceBinds(p)
         /\ ~(p.statement.expires - p.statement.from > p.policy.validity)
  BY NoneAssumption DEF LifecycleFailure, LifecycleFailures

LEMMA FailureIsNamed ==
  ASSUME NEW p, NEW now
  PROVE  LifecycleFailure(p, now) \in LifecycleFailures \cup {None}
  BY DEF LifecycleFailure, LifecycleFailures

\* With lifecycle documents or without, a kernel that conforms is admitted.
LEMMA OutcomeShape ==
  ASSUME NEW p, NEW now
  PROVE  LET o == LifecycleOutcome(p, now) IN
         /\ o.admitted /\ o.status \in {"EXPERIMENTAL", "PILOT_ELIGIBLE"}
         /\ o.kernelCommit = commit /\ o.kernelTree = tree
         /\ o.failureCode \in LifecycleFailures \cup {None}
         /\ o.status = "PILOT_ELIGIBLE" => LifecycleFailure(p, now) = None
         /\ Supplied(p) # {} => (o.failureCode # None <=> o.status = "EXPERIMENTAL")
<1>1. CASE Supplied(p) = {}
  BY <1>1 DEF LifecycleOutcome, AdmittedOutcome
<1>2. CASE Supplied(p) # {} /\ LifecycleFailure(p, now) = None
  <2>1. p.statement.requested = "PILOT_ELIGIBLE"
    BY <1>2, NothingFailed DEF EvidenceBinds
  <2>2. LifecycleOutcome(p, now) = AdmittedOutcome("PILOT_ELIGIBLE", None)
    BY <1>2, <2>1 DEF LifecycleOutcome
  <2> QED
    BY <1>2, <2>2 DEF AdmittedOutcome
<1>3. CASE Supplied(p) # {} /\ LifecycleFailure(p, now) # None
  <2>1. LifecycleOutcome(p, now) = AdmittedOutcome("EXPERIMENTAL", LifecycleFailure(p, now))
    BY <1>3 DEF LifecycleOutcome
  <2> QED
    BY <1>3, <2>1, FailureIsNamed DEF AdmittedOutcome
<1> QED
  BY <1>1, <1>2, <1>3

-----------------------------------------------------------------------------
LEMMA InitInv == Init => IInv
  BY DEF Init, IInv, TypeOK, ReceiptCompiled, DocsGiven, Conformed, Decided

LEMMA QualifyInv == IInv /\ Qualify => IInv'
<1> SUFFICES ASSUME IInv, Qualify PROVE IInv'
  OBVIOUS
<1> USE DEF Qualify
<1>1. TypeOK'
  <2>1. Exact(Policy[input.commit], input.input) \in BOOLEAN
    BY DEF Exact
  <2> QED
    BY <2>1 DEF TypeOK, IInv
<1>2. receipt' \in Receipts
  BY DEF Receipts, IInv, ReceiptCompiled
<1>3. DocsGiven' /\ Conformed' /\ Decided'
  BY DEF DocsGiven, Conformed, Decided, IInv
<1> QED
  BY <1>1, <1>2, <1>3 DEF IInv, ReceiptCompiled

\* A read changes what was read and nothing else.
Read == ReadStatus \/ ReadRegistry \/ ReadHead \/ ReadPorcelain \/ ReadTree

LEMMA ReadInv == IInv /\ Read => IInv'
<1> SUFFICES ASSUME IInv, Read PROVE IInv'
  OBVIOUS
<1>1. TypeOK'
  BY DEF IInv, TypeOK, Read, ReadStatus, ReadRegistry, ReadHead, ReadPorcelain, ReadTree
<1>2. /\ pc \notin {"qualify", "lifecycle", "done"} /\ pc' \notin {"qualify", "lifecycle", "done"}
      /\ UNCHANGED <<receipt, lifecycle>>
  BY DEF Read, ReadStatus, ReadRegistry, ReadHead, ReadPorcelain, ReadTree
<1> QED
  BY <1>1, <1>2 DEF IInv, ReceiptCompiled, DocsGiven, Conformed, Decided

LEMMA DecideConformanceInv == IInv /\ DecideConformance => IInv'
<1> SUFFICES ASSUME IInv, DecideConformance PROVE IInv'
  OBVIOUS
<1>1. PICK a \in Attestation \cup {None}, key \in {PinnedKey, None}, expected \in Commit \cup {None} :
        docs' = [attestation |-> a, key |-> key, expected |-> expected]
  BY DEF DecideConformance
<1>2. /\ pc = "conformance" /\ lifecycle = None
      /\ UNCHANGED <<input, receipt, exact, status, registry, commit, clean, tree, lifecycle>>
  BY DEF DecideConformance, IInv, Decided
<1>3. (ConformanceHolds(docs))' <=> ConformanceHolds(docs')
  BY <1>2 DEF ConformanceHolds
<1>4. /\ ConformanceHolds(docs') => pc' = "lifecycle"
      /\ ~ConformanceHolds(docs') => pc' = "done" /\ outcome' = FoundationOutcome
  BY DEF DecideConformance
<1>5. /\ FoundationOutcome.admitted = FALSE
      /\ FoundationOutcome.status = "FOUNDATION_ONLY" /\ FoundationOutcome.failureCode = None
  BY DEF FoundationOutcome
<1>6. TypeOK'
  BY <1>2, <1>4, <1>5 DEF IInv, TypeOK, Lifecycles
<1>7. DocsGiven' /\ ReceiptCompiled'
  BY <1>1, <1>2, <1>4 DEF DocsGiven, IInv, ReceiptCompiled
<1>8. Conformed'
  BY <1>3, <1>4, <1>5 DEF Conformed
<1>9. Decided'
  BY <1>2, <1>4 DEF Decided, FoundationOutcome
<1> QED
  BY <1>6, <1>7, <1>8, <1>9 DEF IInv

LEMMA DecideLifecycleInv == IInv /\ DecideLifecycle => IInv'
<1> SUFFICES ASSUME IInv, DecideLifecycle PROVE IInv'
  OBVIOUS
<1>1. PICK p \in Presentation(receipt), now \in Now :
        lifecycle' = [documents |-> p, now |-> now] /\ outcome' = LifecycleOutcome(p, now)
  BY DEF DecideLifecycle
<1>2. /\ pc = "lifecycle" /\ pc' = "done"
      /\ UNCHANGED <<input, receipt, exact, status, registry, commit, clean, tree, docs>>
  BY DEF DecideLifecycle
<1>3. TypeOK'
  BY <1>1, <1>2, OutcomeShape DEF IInv, TypeOK, Lifecycles
<1>4. DocsGiven' /\ ReceiptCompiled'
  BY <1>2 DEF DocsGiven, IInv, ReceiptCompiled
<1>5. Conformed'
  BY <1>2 DEF IInv, Conformed, ConformanceHolds
<1>6. LifecycleOutcome(p, now)' = LifecycleOutcome(p, now)
  BY <1>2 DEF LifecycleOutcome, AdmittedOutcome, LifecycleFailure, StatementBinds, PredecessorBinds
<1>7. Decided'
  BY <1>1, <1>2, <1>6 DEF Decided, DecidedFrom
<1> QED
  BY <1>3, <1>4, <1>5, <1>7 DEF IInv

\* Every reachable state of an admission satisfies the invariant.
THEOREM Invariance == Spec => []IInv
<1>1. Init => IInv
  BY InitInv
<1>2. IInv /\ [Next]_vars => IInv'
  <2>1. IInv /\ UNCHANGED vars => IInv'
    <3> SUFFICES ASSUME IInv, UNCHANGED vars PROVE IInv'
      OBVIOUS
    <3>1. TypeOK' /\ ReceiptCompiled' /\ DocsGiven' /\ Conformed'
      BY DEF vars, IInv, TypeOK, ReceiptCompiled, DocsGiven, Conformed, ConformanceHolds
    <3>2. \A p, now : LifecycleOutcome(p, now)' = LifecycleOutcome(p, now)
      BY DEF vars, LifecycleOutcome, AdmittedOutcome, LifecycleFailure, StatementBinds, PredecessorBinds
    <3>3. Decided'
      BY <3>2 DEF vars, IInv, Decided, DecidedFrom
    <3> QED
      BY <3>1, <3>3 DEF IInv
  <2> QED
    BY <2>1, QualifyInv, ReadInv, DecideConformanceInv, DecideLifecycleInv DEF Next, Read
<1> QED
  BY <1>1, <1>2, PTL DEF Spec

-----------------------------------------------------------------------------
\* Every reachable state is well typed (admission.mjs, lifecycle.mjs).
THEOREM TypeCorrectness == Spec => []TypeOK
<1>1. IInv => TypeOK
  BY DEF IInv
<1> QED
  BY <1>1, Invariance, PTL

\* Whatever the documents are and whatever moves between the reads, a kernel is
\* admitted only for a commit that the external authority attested, with its
\* proven status and its registry (admission.mjs:146-203, 249-308).
THEOREM AdmittedIsCertifiedAlways == Spec => []AdmittedIsCertified
<1>1. IInv => AdmittedIsCertified
  <2> SUFFICES ASSUME IInv, IsAdmitted PROVE AdmittedIsCertified
    BY DEF AdmittedIsCertified
  <2>1. pc = "done" /\ outcome.admitted /\ ConformanceHolds(docs)
    BY DEF IsAdmitted, IInv, Conformed
  <2>2. outcome.kernelCommit = commit
    BY <2>1, OutcomeShape DEF IInv, Decided, DecidedFrom, FoundationOutcome
  <2> DEFINE a == docs.attestation
  <2>3. a \in Attestation /\ a.signer = PinnedKey
    BY <2>1 DEF IInv, DocsGiven, ConformanceHolds
  <2>4. /\ a.kernelCommit \in Commit
        /\ a.status = Snapshot[a.kernelCommit].status /\ a.registry = Snapshot[a.kernelCommit].registry
    BY <2>3, AuthorityAssumption
  <2>5. /\ clean /\ a.kernelCommit = commit /\ a.status = status
        /\ docs.expected \in {None, commit}
        /\ registry \in {None, a.registry}
        /\ CasesOk(status) /\ CensusOk(status)
    BY <2>1 DEF ConformanceHolds, DeriveConformancePassed
  <2>6. \A c \in status.cases : c.planted.disposition = "BLOCKED" /\ c.conforming.receiptVerified
    BY <2>5 DEF CasesOk
  <2>7. status.census.productionObserved = status.census.productionRequired
    BY <2>5 DEF CensusOk
  <2> QED
    BY <2>2, <2>3, <2>4, <2>5, <2>6, <2>7 DEF AdmittedIsCertified
<1> QED
  BY <1>1, Invariance, PTL

\* PILOT_ELIGIBLE is derived only from a statement that the authority signed for
\* this commit and tree over the complete receipt the compiler emitted for it,
\* in force and following its predecessor (lifecycle.mjs:32-139).
THEOREM PilotIsEarnedAlways == Spec => []PilotIsEarned
<1>1. IInv => PilotIsEarned
  <2> SUFFICES ASSUME IInv, IsPilotEligible PROVE PilotIsEarned
    BY DEF PilotIsEarned
  <2>1. pc = "done" /\ outcome.status = "PILOT_ELIGIBLE" /\ outcome.admitted
    BY DEF IsPilotEligible, IInv, TypeOK, Lifecycles
  <2>2. PICK p \in Presentation(receipt), now \in Now : DecidedFrom(p, now)
    BY <2>1 DEF IInv, Decided, FoundationOutcome
  <2>3. lifecycle.documents = p /\ lifecycle.now = now
    BY <2>2 DEF DecidedFrom
  <2> DEFINE s == p.statement
  <2>4. LifecycleFailure(p, now) = None
    BY <2>1, <2>2, OutcomeShape DEF DecidedFrom
  <2>5. /\ Supplied(p) = LifecycleDocument
        /\ StatementBinds(p) /\ InForce(s, now)
        /\ PredecessorBinds(p) /\ SequenceFollows(p) /\ EvidenceBinds(p)
        /\ ~(s.expires - s.from > p.policy.validity)
    BY <2>4, NothingFailed
  <2>6. receipt \in Receipts
    BY <2>1 DEF IInv, ReceiptCompiled
  <2>7. PICK i \in Input : receipt = CompilePilotQualification(Policy[i.commit], i.input)
    BY <2>6 DEF Receipts
  <2>8. i.commit \in Commit /\ receipt.policy = Policy[i.commit]
    BY <2>7, PolicyAssumption DEF CompilePilotQualification
  <2>9. s # None
    BY <2>5 DEF Supplied, LifecycleDocument
  <2>10. s.signer = PinnedKey
    BY <2>1, <2>5 DEF StatementBinds, IInv, DocsGiven, Conformed, ConformanceHolds
  <2>11. s.evidence = receipt /\ s.from \in Int /\ s.expires \in Int
    BY <2>6, <2>9, <2>10, AuthorityAssumption
  <2>12. p.evidence = receipt /\ p.policy = Policy[i.commit] /\ receipt.complete
    BY <2>5, <2>8, <2>11 DEF EvidenceBinds, VerifyPilotQualificationReceipt
  <2>13. receipt.subject = Policy[i.commit].subject /\ receipt.subject = s.subject
    BY <2>5, <2>12 DEF EvidenceBinds, VerifyPilotQualificationReceipt
  <2>14. s.subject.commit = commit /\ s.subject.tree = tree
    BY <2>5 DEF StatementBinds
  <2>15. i.commit = commit /\ tree = Tree[commit] /\ receipt.subject.commit = commit
    BY <2>8, <2>13, <2>14, PolicyAssumption
  <2>16. registry = Snapshot[commit].registry
    <3>1. registry # None
      BY <2>5 DEF StatementBinds
    <3>2. /\ docs.attestation \in Attestation /\ docs.attestation.signer = PinnedKey
          /\ docs.attestation.kernelCommit = commit /\ docs.attestation.registry = registry
      BY <2>1, <3>1 DEF IInv, DocsGiven, Conformed, ConformanceHolds
    <3> QED
      BY <3>2, AuthorityAssumption
  <2>17. receipt.conformance.attestation = docs.attestation
    BY <2>5, <2>12 DEF EvidenceBinds, StatementBinds
  <2>18. s.expires - s.from <= Policy[commit].validity
    BY <2>5, <2>8, <2>11, <2>12, <2>15, PolicyAssumption
  <2>19. \/ s.sequence = 1 /\ s.predecessor.digest = docs.attestation
         \/ /\ s.predecessor.digest.sequence + 1 = s.sequence
            /\ s.predecessor.digest.subject.commit = commit
    <3>1. CASE s.predecessor.status = "EXPERIMENTAL"
      BY <2>5, <3>1 DEF StatementBinds, StatementValid, PredecessorBinds
    <3>2. CASE s.predecessor.status # "EXPERIMENTAL"
      BY <2>5, <2>14, <3>2 DEF PredecessorBinds, SequenceFollows
    <3> QED
      BY <3>1, <3>2
  <2> QED
    BY <2>3, <2>5, <2>10, <2>12, <2>15, <2>16, <2>17, <2>18, <2>19 DEF PilotIsEarned
<1> QED
  BY <1>1, Invariance, PTL

\* Refused lifecycle evidence never takes the admission away, and the caller is
\* told why it did not advance the kernel (admission.mjs:201-223).
THEOREM LifecycleNeverLowersAlways == Spec => []LifecycleNeverLowers
<1>1. IInv => LifecycleNeverLowers
  <2> SUFFICES ASSUME IInv, pc = "done", lifecycle # None PROVE LifecycleNeverLowers
    BY DEF LifecycleNeverLowers
  <2>1. PICK p \in Presentation(receipt), now \in Now : DecidedFrom(p, now)
    BY DEF IInv, Decided
  <2>2. lifecycle.documents = p /\ outcome = LifecycleOutcome(p, now)
    BY <2>1 DEF DecidedFrom
  <2> QED
    BY <2>2, OutcomeShape DEF LifecycleNeverLowers, IsAdmitted
<1> QED
  BY <1>1, Invariance, PTL

\* The compiler calls a qualification complete exactly when it is one: its eight
\* tests, made one by one over the policy, the results and the artifacts, leave
\* nothing through that is not the required checks answered one for one, and
\* refuse nothing that is (pilot-qualification.mjs:33-115).
THEOREM QualifiedIsExactAlways == Spec => []QualifiedIsExact
<1>1. Init => QualifiedIsExact
  BY DEF Init, QualifiedIsExact
<1>2. IInv /\ QualifiedIsExact /\ [Next]_vars => QualifiedIsExact'
  <2> SUFFICES ASSUME IInv, QualifiedIsExact, [Next]_vars PROVE QualifiedIsExact'
    OBVIOUS
  <2>1. CASE Qualify
    <3> DEFINE policy == Policy[input.commit]
    <3>1. input \in Input /\ receipt' = CompilePilotQualification(policy, input.input)
          /\ exact' = Exact(policy, input.input)
      BY <2>1 DEF IInv, ReceiptCompiled, Qualify
    <3>2. WellFormed(policy, input.input)
      BY <3>1, InputAssumption
    <3>3. receipt'.complete = (InputValid(input.input) /\ Reasons(policy, input.input) = {})
      BY <3>1 DEF CompilePilotQualification
    <3>4. receipt'.complete <=> exact'
      BY <3>1, <3>2, <3>3, CompleteIsExact, ExactIsComplete
    <3> QED
      BY <3>4 DEF QualifiedIsExact
  <2>2. CASE ~Qualify
    <3>1. UNCHANGED <<receipt, exact>> /\ (pc' # "qualify" => pc # "qualify")
      BY <2>2 DEF Next, vars, ReadStatus, ReadRegistry, ReadHead, ReadPorcelain, ReadTree,
                  DecideConformance, DecideLifecycle
    <3> QED
      BY <3>1 DEF QualifiedIsExact
  <2> QED
    BY <2>1, <2>2
<1> QED
  BY <1>1, <1>2, Invariance, PTL DEF Spec

\* From end to end: a kernel is PILOT_ELIGIBLE only if the results and artifacts
\* that its qualification was compiled from were the required checks, one for one,
\* answered as the policy demands.
THEOREM PilotIsExact == Spec => [](IsPilotEligible => exact)
<1>1. QualifiedIsExact /\ PilotIsEarned => (IsPilotEligible => exact)
  BY DEF QualifiedIsExact, PilotIsEarned, IsPilotEligible
<1> QED
  BY <1>1, QualifiedIsExactAlways, PilotIsEarnedAlways, PTL
=============================================================================
