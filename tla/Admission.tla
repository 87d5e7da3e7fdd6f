----------------------------- MODULE Admission -----------------------------
(***************************************************************************)
(* src/admission.mjs and src/lifecycle.mjs: the status that a checkout      *)
(* of the kernel derives for itself from externally signed documents.      *)
(*                                                                         *)
(* One invocation reads the conformance status, the registry (it stands    *)
(* for the mechanism inventory and the control surface, which are read and *)
(* bound alike), the HEAD, the state of the working tree and the tree id,  *)
(* one after the other.  Nothing locks the checkout: between two reads     *)
(* another process may edit files or check out another commit, any number  *)
(* of times, so each read sees the checkout of any moment.  The documents  *)
(* are files outside the checkout and do not change.                       *)
(***************************************************************************)
EXTENDS PilotQualification

CONSTANTS
  Commit,          \* commits of the kernel repository
  Tree,            \* Tree[c]: the tree of c
  Snapshot,        \* Snapshot[c]: the status and the registry committed at c
  EditedStatus,    \* what an edited conformance/status.json may say
  Policy,          \* Policy[c]: the qualification policy frozen for c
  Input,           \* [commit, input]: what the qualification compiler is fed
  Attestation,     \* conformance attestations a caller may supply
  Presentation(_), \* the lifecycle documents supplied with a given receipt
  Now              \* the times at which the decision may fall

Receipts == {CompilePilotQualification(Policy[i.commit], i.input) : i \in Input}

\* The compiler's documents are of their schemas.
ASSUME InputAssumption == \A i \in Input : WellFormed(Policy[i.commit], i.input)

PinnedKey == "pinned"

\* The external authority attests what is committed, and signs a lifecycle
\* statement only over a receipt that the qualification compiler emitted.
ASSUME AuthorityAssumption ==
  /\ \A a \in Attestation : a.signer = PinnedKey =>
       /\ a.kernelCommit \in Commit
       /\ a.status = Snapshot[a.kernelCommit].status /\ a.registry = Snapshot[a.kernelCommit].registry
  /\ \A r \in Receipts : \A p \in Presentation(r) :
       p.statement # None =>
         /\ p.statement.signer = PinnedKey => p.statement.evidence = r
         /\ p.statement.from \in Int /\ p.statement.expires \in Int

\* Policies are frozen for one commit and its tree.
ASSUME PolicyAssumption ==
  /\ \A i \in Input : i.commit \in Commit
  /\ \A c \in Commit : Policy[c].subject.commit = c /\ Policy[c].subject.tree = Tree[c]
                      /\ Policy[c].validity \in Nat

LifecycleFailures ==
  {"LIFECYCLE_EVIDENCE_INVALID", "LIFECYCLE_ATTESTATION_INVALID", "LIFECYCLE_EXPIRED",
   "LIFECYCLE_PREDECESSOR_MISMATCH", "LIFECYCLE_SEQUENCE_INVALID"}
ASSUME NoneAssumption == None \notin LifecycleFailures \cup Commit \cup {PinnedKey}

VARIABLES
  pc,
  input,           \* the compiler's input, then None
  receipt,         \* the receipt it emitted
  exact,           \* history: whether that input was exact
  status, registry, \* what was read; None when the file is not there
  commit, clean, tree,
  docs,            \* the attestation, the pinned key, the expected commit
  lifecycle,       \* the lifecycle documents
  outcome

vars == <<pc, input, receipt, exact, status, registry, commit, clean, tree, docs, lifecycle, outcome>>

KernelRelease == "release"
AuthorityId == "authority"

FoundationOutcome == [status |-> "FOUNDATION_ONLY", admitted |-> FALSE, failureCode |-> None,
                      kernelCommit |-> None, kernelTree |-> None]
AdmittedOutcome(s, failureCode) ==
  [status |-> s, admitted |-> TRUE, failureCode |-> failureCode,
   kernelCommit |-> commit, kernelTree |-> tree]

\* Only an outcome of this module bears its brand: there is one at the end.
IsAdmitted == pc = "done" /\ outcome.admitted
IsPilotEligible == pc = "done" /\ outcome.status \in {"PILOT_ELIGIBLE", "CERTIFIED"}

Init ==
  /\ pc = "qualify"
  /\ input \in Input
  /\ receipt = None /\ exact = FALSE
  /\ status = None /\ registry = None
  /\ commit = None /\ clean = FALSE /\ tree = None
  /\ docs = None /\ lifecycle = None
  /\ outcome = None

\* The qualification compiler ran, at some earlier time, for some commit.
Qualify ==
  /\ pc = "qualify"
  /\ receipt' = CompilePilotQualification(Policy[input.commit], input.input)
  /\ exact' = Exact(Policy[input.commit], input.input)
  /\ input' = None
  /\ pc' = "status"
  /\ UNCHANGED <<status, registry, commit, clean, tree, docs, lifecycle, outcome>>

-----------------------------------------------------------------------------
ReadStatus ==
  /\ pc = "status"
  /\ status' \in {Snapshot[c].status : c \in Commit} \cup EditedStatus \cup {None}
  /\ pc' = "registry"
  /\ UNCHANGED <<input, receipt, exact, registry, commit, clean, tree, docs, lifecycle, outcome>>

ReadRegistry ==
  /\ pc = "registry"
  /\ registry' \in {Snapshot[c].registry : c \in Commit} \cup {"edited", None}
  /\ pc' = "head"
  /\ UNCHANGED <<input, receipt, exact, status, commit, clean, tree, docs, lifecycle, outcome>>

\* When `git rev-parse HEAD` fails, it is tried once more, but the source then
\* counts as not clean whatever the state of the working tree.
ReadHead ==
  /\ pc = "head"
  /\ \/ commit' \in Commit /\ pc' = "porcelain"
     \/ commit' \in Commit \cup {None} /\ pc' = "tree"
  /\ UNCHANGED <<input, receipt, exact, status, registry, clean, tree, docs, lifecycle, outcome>>

\* `git status --porcelain` finds changes or none, or fails.
ReadPorcelain ==
  /\ pc = "porcelain"
  /\ clean' \in BOOLEAN
  /\ pc' = "tree"
  /\ UNCHANGED <<input, receipt, exact, status, registry, commit, tree, docs, lifecycle, outcome>>

ReadTree ==
  /\ pc = "tree"
  /\ tree' \in {Tree[c] : c \in Commit} \cup {None}
  /\ pc' = "conformance"
  /\ UNCHANGED <<input, receipt, exact, status, registry, commit, clean, docs, lifecycle, outcome>>
-----------------------------------------------------------------------------
\* deriveConformancePassed: what the status says is recomputed, and its own
\* claim must agree with what is derived.
CasesOk(s) ==
  \A c \in s.cases :
    /\ c.conforming = [disposition |-> "PROMOTABLE", receiptVerified |-> TRUE]
    /\ c.planted = [disposition |-> "BLOCKED", receiptVerified |-> TRUE]
ActivationOk(s) == s.kernelActivation # {} /\ \A a \in s.kernelActivation : a.proven
CensusOk(s) ==
  /\ s.census.complete
  /\ s.census.registered > 0 /\ s.census.proven = s.census.registered
  /\ s.census.productionRequired > 0 /\ s.census.productionObserved = s.census.productionRequired
  /\ s.census.findings = 0

\* Mutant: the status is believed.
DeriveConformanceBelieved(s) == s.allPassed

DeriveConformancePassed(s) ==
  LET derived == CasesOk(s) /\ ActivationOk(s) /\ CensusOk(s)
  IN s.allPassed = derived /\ derived

\* computeAdmission up to the lifecycle evidence.
ConformanceHolds(d) ==
  /\ status # None /\ status.kernelRelease = KernelRelease
  /\ DeriveConformancePassed(status)
  /\ d.attestation # None /\ d.key # None
  /\ clean
  /\ d.attestation.kernelRelease = KernelRelease
  /\ commit # None /\ d.attestation.kernelCommit = commit
  /\ d.expected \in {None, d.attestation.kernelCommit}
  /\ d.attestation.status = status
  /\ registry # None => d.attestation.registry = registry
  /\ d.attestation.signer = d.key

DecideConformance ==
  /\ pc = "conformance"
  /\ \E a \in Attestation \cup {None}, key \in {PinnedKey, None}, expected \in Commit \cup {None} :
       docs' = [attestation |-> a, key |-> key, expected |-> expected]
  /\ IF ConformanceHolds(docs')
     THEN pc' = "lifecycle" /\ UNCHANGED outcome
     ELSE pc' = "done" /\ outcome' = FoundationOutcome
  /\ UNCHANGED <<input, receipt, exact, status, registry, commit, clean, tree, lifecycle>>

-----------------------------------------------------------------------------
LifecycleDocument == {"statement", "evidence", "policy", "activation", "certification"}
Supplied(p) == {document \in LifecycleDocument : p[document] # None}

\* What the contract layer refuses of a lifecycle statement. The kind of its
\* evidence goes with the status it requests.
StatementValid(s) ==
  /\ s.issued <= s.from /\ s.from < s.expires
  /\ s.requested = "PILOT_ELIGIBLE" => s.predecessor.status \in {"EXPERIMENTAL", "PILOT_ELIGIBLE"}
  /\ s.requested = "CERTIFIED" => s.predecessor.status = "PILOT_ELIGIBLE"
  /\ IF s.predecessor.status = "EXPERIMENTAL"
     THEN s.sequence = 1 /\ s.supersedes = None
     ELSE s.supersedes = s.predecessor.digest

\* The statement is signed by the external authority and is about this kernel,
\* this activation specification and this conformance evidence.
StatementBinds(p) ==
  LET s == p.statement IN
  /\ StatementValid(s)
  /\ s.signer = docs.key /\ s.authorityId = p.authorityId
  /\ s.subject = [release |-> KernelRelease, commit |-> commit, tree |-> tree]
  /\ s.activation = p.activation
  /\ s.attestation = docs.attestation /\ s.certification = p.certification
  /\ s.registry = registry /\ registry # None

InForce(s, now) == s.from - s.maxSkew <= now /\ now <= s.expires + s.maxSkew

PredecessorBinds(p) ==
  IF p.statement.predecessor.status = "EXPERIMENTAL"
  THEN p.statement.predecessor.digest = docs.attestation
  ELSE p.predecessor # None /\ p.statement.predecessor.digest = p.predecessor

\* The predecessor's own signature, validity and chain are not looked at.
SequenceFollows(p) ==
  p.statement.predecessor.status = "EXPERIMENTAL" \/
    /\ StatementValid(p.predecessor)
    /\ p.predecessor.requested = p.statement.predecessor.status
    /\ p.predecessor.sequence + 1 = p.statement.sequence
    /\ p.predecessor.subject = p.statement.subject

\* Mutant: any complete receipt for the policy will do.
EvidenceBindsByPolicy(p) ==
  /\ p.statement.requested = "PILOT_ELIGIBLE"
  /\ VerifyPilotQualificationReceipt(p.evidence, p.policy)
  /\ p.evidence.subject = p.statement.subject

EvidenceBinds(p) ==
  /\ p.statement.requested = "PILOT_ELIGIBLE"
  /\ VerifyPilotQualificationReceipt(p.evidence, p.policy)
  /\ p.statement.evidence = p.evidence
  /\ p.statement.policy = p.policy
  /\ p.evidence.subject = p.statement.subject
  /\ p.evidence.conformance =
       [attestation |-> p.statement.attestation, certification |-> p.statement.certification]

\* verifyLifecycleEvidence: the first check that fails gives the code.
LifecycleFailure(p, now) ==
  IF Supplied(p) # LifecycleDocument \/ p.authorityId = None THEN "LIFECYCLE_EVIDENCE_INVALID"
  ELSE IF ~StatementBinds(p) THEN "LIFECYCLE_ATTESTATION_INVALID"
  ELSE IF ~InForce(p.statement, now) THEN "LIFECYCLE_EXPIRED"
  ELSE IF ~PredecessorBinds(p) THEN "LIFECYCLE_PREDECESSOR_MISMATCH"
  ELSE IF ~SequenceFollows(p) THEN "LIFECYCLE_SEQUENCE_INVALID"
  ELSE IF ~EvidenceBinds(p) THEN "LIFECYCLE_EVIDENCE_INVALID"
  ELSE IF p.statement.expires - p.statement.from > p.policy.validity THEN "LIFECYCLE_ATTESTATION_INVALID"
  ELSE None

\* Mutant: refused lifecycle evidence refuses the kernel.
LifecycleOutcomeAllOrNothing(p, now) ==
  CASE Supplied(p) = {} -> AdmittedOutcome("EXPERIMENTAL", None)
    [] OTHER -> IF LifecycleFailure(p, now) = None THEN AdmittedOutcome(p.statement.requested, None)
                ELSE FoundationOutcome

LifecycleOutcome(p, now) ==
  CASE Supplied(p) = {} -> AdmittedOutcome("EXPERIMENTAL", None)
    [] OTHER -> IF LifecycleFailure(p, now) = None THEN AdmittedOutcome(p.statement.requested, None)
                ELSE AdmittedOutcome("EXPERIMENTAL", LifecycleFailure(p, now))

DecideLifecycle ==
  /\ pc = "lifecycle"
  /\ \E p \in Presentation(receipt), now \in Now :
       /\ lifecycle' = [documents |-> p, now |-> now]
       /\ outcome' = LifecycleOutcome(p, now)
  /\ pc' = "done"
  /\ UNCHANGED <<input, receipt, exact, status, registry, commit, clean, tree, docs>>

Next ==
  \/ Qualify
  \/ ReadStatus \/ ReadRegistry \/ ReadHead \/ ReadPorcelain \/ ReadTree
  \/ DecideConformance \/ DecideLifecycle

Spec == Init /\ [][Next]_vars
-----------------------------------------------------------------------------
Lifecycles == {"FOUNDATION_ONLY", "EXPERIMENTAL", "PILOT_ELIGIBLE"}

TypeOK ==
  /\ pc \in {"qualify", "status", "registry", "head", "porcelain", "tree", "conformance", "lifecycle", "done"}
  /\ clean \in BOOLEAN /\ exact \in BOOLEAN
  /\ commit \in Commit \cup {None}
  /\ tree \in {Tree[c] : c \in Commit} \cup {None}
  /\ pc = "done" =>
       /\ outcome.status \in Lifecycles
       /\ outcome.admitted = (outcome.status # "FOUNDATION_ONLY")
       /\ outcome.failureCode \in LifecycleFailures \cup {None}

\* The compiler calls a qualification complete exactly when the results and the
\* artifacts are the required checks, one for one: its eight separate tests
\* leave no gap and overlap nowhere wrongly (pilot-qualification.mjs:33-115).
QualifiedIsExact == pc # "qualify" => (receipt.complete <=> exact)

\* Whatever happens to the checkout between the reads, a kernel is admitted
\* only for a commit the external authority attested, on the status committed
\* there, in which every case was proven, and never with another registry
\* (admission.mjs:146-203, 249-308).
AdmittedIsCertified ==
  IsAdmitted =>
    /\ clean
    /\ outcome.kernelCommit \in Commit
    /\ \E a \in Attestation : a.signer = PinnedKey /\ a.kernelCommit = outcome.kernelCommit
    /\ status = Snapshot[outcome.kernelCommit].status
    /\ \A c \in status.cases : c.planted.disposition = "BLOCKED" /\ c.conforming.receiptVerified
    /\ status.census.productionObserved = status.census.productionRequired
    /\ registry \in {None, Snapshot[outcome.kernelCommit].registry}
    /\ docs.expected \in {None, outcome.kernelCommit}

\* PILOT_ELIGIBLE is derived only from a statement the authority signed for
\* this very commit and registry, over the complete receipt the compiler emitted
\* for it, in force and no longer so than the policy of that commit allows, and
\* one step after its predecessor: a HEAD that moves between the reads cannot
\* pair one commit with the tree of another (lifecycle.mjs:32-139).
PilotIsEarned ==
  IsPilotEligible =>
    LET p == lifecycle.documents
        s == p.statement
    IN /\ s.signer = PinnedKey
       /\ tree = Tree[commit] /\ registry = Snapshot[commit].registry
       /\ p.evidence = receipt /\ receipt.complete
       /\ receipt.subject.commit = commit /\ receipt.conformance.attestation = docs.attestation
       /\ InForce(s, lifecycle.now)
       /\ s.expires - s.from <= Policy[commit].validity
       /\ \/ s.sequence = 1 /\ s.predecessor.digest = docs.attestation
          \/ /\ s.predecessor.digest.sequence + 1 = s.sequence
             /\ s.predecessor.digest.subject.commit = commit

\* Lifecycle evidence that is incomplete, foreign, expired or out of sequence
\* takes nothing away: a kernel that was admitted without it stays admitted,
\* and the caller learns why it was not advanced (admission.mjs:201-223).
LifecycleNeverLowers ==
  pc = "done" /\ lifecycle # None =>
    /\ IsAdmitted
    /\ Supplied(lifecycle.documents) # {} =>
         (outcome.failureCode # None <=> outcome.status = "EXPERIMENTAL")
=============================================================================
