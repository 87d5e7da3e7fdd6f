------------------------------ MODULE Compilation ------------------------------
(***************************************************************************)
(* The compilation of a work contract.  evaluateCandidate authorizes the   *)
(* contract before it calls compilePlan (src/compiler.mjs), the `compile`  *)
(* command, which prints the plan, does not.  compilePlan puts together    *)
(* the mandatory kernel packs and the packs of the profile, resolves their *)
(* dependencies, orders them by Kahn's algorithm, and sorts their checks   *)
(* into the plan that module Evaluation runs.  Errors are collected and    *)
(* stop it at two points; the plan is then validated, and an invalid one   *)
(* is thrown.                                                              *)
(*                                                                         *)
(* Packs and checks are numbers: the code orders their names as strings.   *)
(***************************************************************************)
EXTENDS Naturals, Sequences, FiniteSets, FiniteSetsExt

CONSTANTS
  Document,      \* the contracts, each with its profile, its packs and who compiles it
  Pack,          \* pack ids
  Mandatory,     \* the mandatory kernel packs
  KernelChecks,  \* KernelChecks[p]: the checks of mandatory pack p
  MaxChecks      \* the checks a plan document may hold

Phases == 1 .. 3  \* CONTRACT_ADMISSION, CANDIDATE_VALIDATION, PROMOTION_FINALIZATION

\* The task ceiling of the STRICT preset; a process tree must exceed it.
StrictTasks == 64
Requirement ==
  {r \in [class : {"SINGLE_PROCESS", "BOUNDED_PROCESS_TREE"}, maxTasks : Nat] :
     IF r.class = "SINGLE_PROCESS" THEN r.maxTasks = StrictTasks ELSE r.maxTasks > StrictTasks}
Strict == [class |-> "SINGLE_PROCESS", maxTasks |-> StrictTasks]

\* A pin names a pack: what it gets wrong of the pack supplied under that name.
Pin == SUBSET {"version", "digest"}

CheckEntry ==
  [id : Nat, phase : Phases, effect : {"BLOCKING", "ADVISORY"},
   consumer : {"DISPOSITION_REDUCER", "EVIDENCE_ONLY"},
   validator : {"BUILTIN", "UNKNOWN_BUILTIN", "TARGET", "UNADMITTED_TARGET"},
   requires : Requirement]

\* What the documents' own validation establishes of a pack.
WellFormedPack(checks) ==
  /\ checks \subseteq CheckEntry /\ checks # {} /\ IsFiniteSet(checks)
  /\ \A a, b \in checks : a.id = b.id => a = b
  /\ \A a \in checks : a.effect = "BLOCKING" => a.consumer = "DISPOSITION_REDUCER"

ASSUME CompilationAssumption ==
  /\ Pack \subseteq Nat /\ IsFiniteSet(Pack) /\ Mandatory \subseteq Pack
  /\ MaxChecks \in Nat
  /\ \A p \in Mandatory : /\ WellFormedPack(KernelChecks[p])
                          /\ \A a \in KernelChecks[p] : a.validator = "BUILTIN"

\* A contract with the documents it names; the mandatory packs are the kernel's.
ASSUME DocumentAssumption ==
  \A d \in Document :
    /\ d.caller \in {"evaluate", "compile"}
    /\ d.bounded \in BOOLEAN
    /\ d.mode \in {"SIGNED", "UNSIGNED_PERSONAL"}
    /\ d.signature \in {"none", "broken", "untrusted", "misnamed", "trusted"}
    /\ d.header \subseteq {"AUTHORITY_DIGEST_MISMATCH", "PROFILE_IDENTITY_MISMATCH"}
    /\ d.supplied \subseteq Pack /\ d.repeated \subseteq d.supplied
    /\ DOMAIN d.selects \subseteq Pack /\ \A p \in DOMAIN d.selects : d.selects[p] \in Pin
    /\ \A p \in Pack : /\ DOMAIN d.deps[p] \subseteq Pack
                       /\ \A q \in DOMAIN d.deps[p] : d.deps[p][q] \in Pin
                       /\ d.checks[p] \subseteq CheckEntry /\ d.checks[p] # {} /\ IsFiniteSet(d.checks[p])
    /\ \A p \in Mandatory : DOMAIN d.deps[p] = {} /\ d.checks[p] = KernelChecks[p]
    /\ d.strengthen \subseteq Nat
    /\ d.commands \subseteq Requirement
    /\ d.contractCeiling \in Requirement /\ d.profileCeiling \in Requirement

VARIABLES
  doc,       \* the contract compiled and its documents
  pc,        \* what comes next: the authorization, or a part of compilePlan
  errors,    \* the reason codes collected
  selected,  \* the packs of the plan
  indegree,  \* the dependencies of each that are still to be ordered
  frontier,  \* the packs that wait for none
  order,     \* the packs ordered
  plan,      \* the checks of the plan
  result     \* "none", "refused", "compiled" or "thrown"

vars == <<doc, pc, errors, selected, indegree, frontier, order, plan, result>>

\* Only what the profile selects outside the kernel's packs may come from it.
Chosen(d) == DOMAIN d.selects \ Mandatory

Init ==
  /\ doc \in Document
  /\ pc = (IF doc.caller = "evaluate" THEN "authorize" ELSE "validate")
  /\ errors = {} /\ selected = {} /\ indegree = <<>> /\ frontier = {} /\ order = <<>>
  /\ plan = {} /\ result = "none"

Return(what) == pc' = "done" /\ result' = what

-----------------------------------------------------------------------------
\* verifyContractAuthorization: a signature must verify in every mode, and where
\* the profile wants one its key and the identity must be a trusted authorizer's.
Authorized(d) ==
  IF d.mode = "SIGNED" THEN d.signature = "trusted" ELSE d.signature # "broken"

Authorize ==
  /\ pc = "authorize"
  /\ IF Authorized(doc) THEN pc' = "validate" /\ UNCHANGED result ELSE Return("refused")
  /\ UNCHANGED <<doc, errors, selected, indegree, frontier, order, plan>>

\* Each document is validated on its own first; the first invalid one ends it.
\* A pack may not depend on itself.
DocumentsValid(d) ==
  \A p \in d.supplied : WellFormedPack(d.checks[p]) /\ p \notin DOMAIN d.deps[p]

Validate ==
  /\ pc = "validate"
  /\ IF DocumentsValid(doc) THEN pc' = "select" /\ UNCHANGED result ELSE Return("refused")
  /\ UNCHANGED <<doc, errors, selected, indegree, frontier, order, plan>>

MismatchCodes(wrong) ==
  (IF "version" \in wrong THEN {"PACK_IDENTITY_MISMATCH"} ELSE {})
  \cup (IF "digest" \in wrong THEN {"PACK_DIGEST_MISMATCH"} ELSE {})

SelectionErrors(d) ==
  d.header
  \cup {"DUPLICATE_PACK_ID" : p \in d.repeated}
  \cup {"POLICY_CONFLICT" : p \in Mandatory \cap (DOMAIN d.selects \cup d.supplied)}
  \cup {"PACK_NOT_FOUND" : p \in Chosen(d) \ d.supplied}
  \cup (UNION {MismatchCodes(d.selects[p]) : p \in Chosen(d) \cap d.supplied})
  \cup {"PACK_NOT_SELECTED" : p \in d.supplied \ DOMAIN d.selects}

Select ==
  /\ pc = "select"
  /\ selected' = Mandatory \cup (Chosen(doc) \cap doc.supplied)
  /\ errors' = SelectionErrors(doc)
  /\ pc' = "resolve"
  /\ UNCHANGED <<doc, indegree, frontier, order, plan, result>>

-----------------------------------------------------------------------------
\* The dependencies of a selected pack that are selected too.
DepsOf(p) == DOMAIN doc.deps[p] \cap selected

DependencyErrors ==
  UNION {UNION {IF q \notin selected \/ "version" \in doc.deps[p][q] THEN {"DEPENDENCY_UNSATISFIED"}
                ELSE IF "digest" \in doc.deps[p][q] THEN {"PACK_DIGEST_MISMATCH"} ELSE {}
                : q \in DOMAIN doc.deps[p]} : p \in selected}

\* Mutant: only the dependent's last check is looked at.
PhaseConflictOfLast ==
  \E p \in selected : \E q \in DepsOf(p) : \E b \in doc.checks[q] :
    \A a \in doc.checks[p] : b.phase > a.phase

\* A check that runs earlier than a check of a pack its own pack depends on.
PhaseConflict ==
  \E p \in selected : \E q \in DepsOf(p) : \E a \in doc.checks[p], b \in doc.checks[q] :
    b.phase > a.phase

Resolve ==
  /\ pc = "resolve"
  /\ errors' = errors \cup DependencyErrors \cup (IF PhaseConflict THEN {"PHASE_ORDER_CONFLICT"} ELSE {})
  /\ indegree' = [p \in selected |-> Cardinality(DepsOf(p))]
  /\ frontier' = {p \in selected : Cardinality(DepsOf(p)) = 0}
  /\ pc' = "order"
  /\ UNCHANGED <<doc, selected, order, plan, result>>

\* Mutants: a pack is freed by the first of its dependencies; the last pack of
\* the frontier is taken.
PopFreesEarly ==
  /\ pc = "order" /\ frontier # {}
  /\ LET p == Min(frontier)
         freed == {q \in selected : p \in DepsOf(q) /\ indegree[q] > 0} IN
     /\ order' = Append(order, p)
     /\ indegree' = [q \in selected |-> IF p \in DepsOf(q) THEN 0 ELSE indegree[q]]
     /\ frontier' = (frontier \ {p}) \cup freed
  /\ UNCHANGED <<doc, pc, errors, selected, plan, result>>
PopLargest ==
  /\ pc = "order" /\ frontier # {}
  /\ LET p == Max(frontier)
         freed == {q \in selected : p \in DepsOf(q) /\ indegree[q] = 1} IN
     /\ order' = Append(order, p)
     /\ indegree' = [q \in selected |-> IF p \in DepsOf(q) THEN indegree[q] - 1 ELSE indegree[q]]
     /\ frontier' = (frontier \ {p}) \cup freed
  /\ UNCHANGED <<doc, pc, errors, selected, plan, result>>

\* The frontier is kept sorted: its least pack is ordered next.
Pop ==
  /\ pc = "order" /\ frontier # {}
  /\ LET p == Min(frontier)
         freed == {q \in selected : p \in DepsOf(q) /\ indegree[q] = 1} IN
     /\ order' = Append(order, p)
     /\ indegree' = [q \in selected |-> IF p \in DepsOf(q) THEN indegree[q] - 1 ELSE indegree[q]]
     /\ frontier' = (frontier \ {p}) \cup freed
  /\ UNCHANGED <<doc, pc, errors, selected, plan, result>>

Ordered ==
  /\ pc = "order" /\ frontier = {}
  /\ errors' = errors \cup (IF Len(order) # Cardinality(selected) THEN {"DEPENDENCY_CYCLE"} ELSE {})
  /\ pc' = "checks"
  /\ UNCHANGED <<doc, selected, indegree, frontier, order, plan, result>>

-----------------------------------------------------------------------------
AllChecks == UNION {doc.checks[p] : p \in selected}

CheckErrors ==
  (IF \E p, q \in selected : p # q /\ \E a \in doc.checks[p], b \in doc.checks[q] : a.id = b.id
   THEN {"DUPLICATE_CHECK_ID"} ELSE {})
  \cup (IF \E a \in AllChecks : a.validator \in {"UNKNOWN_BUILTIN", "UNADMITTED_TARGET"}
        THEN {"UNKNOWN_VALIDATOR"} ELSE {})

\* Mutant: the profile's ceiling alone authorizes.
AdmittedByProfile(r) ==
  doc.bounded => /\ r.class = "BOUNDED_PROCESS_TREE" => doc.profileCeiling.class = "BOUNDED_PROCESS_TREE"
                 /\ r.maxTasks <= doc.profileCeiling.maxTasks

\* executionRequirementFor: both ceilings must admit the requirement.
Admitted(r) ==
  doc.bounded =>
    /\ r.class = "BOUNDED_PROCESS_TREE" =>
         doc.contractCeiling.class = "BOUNDED_PROCESS_TREE" /\ doc.profileCeiling.class = "BOUNDED_PROCESS_TREE"
    /\ r.maxTasks <= doc.contractCeiling.maxTasks /\ r.maxTasks <= doc.profileCeiling.maxTasks

CommandErrors == {"PROCESS_TREE_UNAUTHORIZED" : r \in {c \in doc.commands : ~Admitted(c)}}

\* (Where two packs share a name the code looks at one; that is an error anyway.)
StrengthenErrors ==
  {"UNKNOWN_CHECK_STRENGTHENED" : c \in {x \in doc.strengthen : \A a \in AllChecks : a.id # x}}
  \cup {"STRENGTHEN_CONFLICT" :
          a \in {b \in AllChecks : b.id \in doc.strengthen /\ b.consumer # "DISPOSITION_REDUCER"}}

\* The end of the collection: any error refuses the contract.
Collect ==
  /\ pc = "checks"
  /\ errors' = errors \cup CheckErrors \cup CommandErrors \cup StrengthenErrors
  /\ IF errors' = {} THEN pc' = "assemble" /\ UNCHANGED result ELSE Return("refused")
  /\ UNCHANGED <<doc, selected, indegree, frontier, order, plan>>

-----------------------------------------------------------------------------
\* Mutant: a strengthened kernel check is replaced by the profile's choice.
PlanEntryWeakened(p, a) ==
  [id |-> a.id, pack |-> p, phase |-> a.phase, validator |-> a.validator, consumer |-> a.consumer,
   effect |-> IF a.id \in doc.strengthen THEN "BLOCKING" ELSE "ADVISORY",
   execution |-> IF a.validator = "TARGET" THEN {IF doc.bounded THEN a.requires ELSE Strict} ELSE {},
   dependsOn |-> UNION {{b.id : b \in doc.checks[q]} : q \in DOMAIN doc.deps[p]}]

\* The plan's entry for check a of pack p; a command's execution is exact.
PlanEntry(p, a) ==
  [id |-> a.id, pack |-> p, phase |-> a.phase, validator |-> a.validator, consumer |-> a.consumer,
   effect |-> IF a.id \in doc.strengthen THEN "BLOCKING" ELSE a.effect,
   execution |-> IF a.validator = "TARGET" THEN {IF doc.bounded THEN a.requires ELSE Strict} ELSE {},
   dependsOn |-> UNION {{b.id : b \in doc.checks[q]} : q \in DOMAIN doc.deps[p]}]

Entries == UNION {{PlanEntry(p, a) : a \in doc.checks[p]} : p \in selected}

Position(p) == CHOOSE n \in DOMAIN order : order[n] = p

\* The order of the plan: phase, then pack order, then check id.
Precedes(a, b) ==
  \/ a.phase < b.phase
  \/ a.phase = b.phase /\ (\/ Position(a.pack) < Position(b.pack)
                           \/ a.pack = b.pack /\ a.id < b.id)

\* What validating the plan rejects: two checks of one name, a dependency that
\* does not come first, an execution that no check may have, too many checks.
OrderViolated(entries) ==
  \E a \in entries : \E x \in a.dependsOn : \A b \in entries : ~(b.id = x /\ Precedes(b, a))
PlanInvalid(entries) ==
  \/ \E a, b \in entries : a # b /\ a.id = b.id
  \/ OrderViolated(entries)
  \/ \E a \in entries : ~(a.execution \subseteq Requirement) \/ (a.validator = "TARGET" /\ a.execution = {})
  \/ Cardinality(entries) > MaxChecks

Assemble ==
  /\ pc = "assemble"
  /\ errors' = {"PROCESS_TREE_UNAUTHORIZED" :
                  a \in {b \in AllChecks : b.validator = "TARGET" /\ ~Admitted(b.requires)}}
  /\ plan' = Entries
  /\ IF errors' # {} THEN Return("refused")
     ELSE IF PlanInvalid(Entries) THEN Return("thrown") ELSE Return("compiled")
  /\ UNCHANGED <<doc, selected, indegree, frontier, order>>

Compile == Authorize \/ Validate \/ Select \/ Resolve \/ Pop \/ Ordered \/ Collect \/ Assemble

Next == Compile \/ (pc = "done" /\ UNCHANGED vars)

Spec == Init /\ [][Next]_vars
-----------------------------------------------------------------------------
\* The codes by which compilePlan refuses.
ReasonCodes ==
  {"AUTHORITY_DIGEST_MISMATCH", "PROFILE_IDENTITY_MISMATCH", "DUPLICATE_PACK_ID",
   "POLICY_CONFLICT", "PACK_NOT_FOUND", "PACK_IDENTITY_MISMATCH", "PACK_DIGEST_MISMATCH",
   "PACK_NOT_SELECTED", "DEPENDENCY_UNSATISFIED", "PHASE_ORDER_CONFLICT", "DEPENDENCY_CYCLE",
   "DUPLICATE_CHECK_ID", "UNKNOWN_VALIDATOR", "PROCESS_TREE_UNAUTHORIZED",
   "UNKNOWN_CHECK_STRENGTHENED", "STRENGTHEN_CONFLICT"}

\* The state is well typed.
TypeOK ==
  /\ pc \in {"authorize", "validate", "select", "resolve", "order", "checks", "assemble", "done"}
  /\ errors \subseteq ReasonCodes
  /\ selected \subseteq Pack /\ frontier \subseteq selected
  /\ pc \in {"order", "checks", "assemble"} => indegree \in [selected -> Nat]
  /\ order \in Seq(selected)
  /\ result \in {"none", "refused", "compiled", "thrown"}

\* DEPENDENCY_CYCLE is reported exactly when some of the selected packs each
\* depend on another one of them, and then no plan is made: Kahn's algorithm
\* (src/compiler.mjs:188-213) also runs over dependencies that were refused.
CycleReported ==
  pc \in {"checks", "assemble"} =>
    ("DEPENDENCY_CYCLE" \in errors <=>
       \E S \in SUBSET selected : S # {} /\ \A p \in S : DepsOf(p) \cap S # {})

\* Equal documents give one order: each pack ordered is the least one whose
\* dependencies are all ordered before it, wherever its counter came from.
OrderCanonical ==
  \A n \in DOMAIN order :
    LET before == {order[m] : m \in 1 .. (n - 1)}
        ready == {p \in selected \ before : DepsOf(p) \subseteq before}
    IN order[n] \in ready /\ \A p \in ready : order[n] <= p

\* The gates before it leave the validation of the plan (src/compiler.mjs:349)
\* one thing to throw for: more checks than a plan may hold.  In particular every
\* check of a dependency runs before every check of its dependent.
ThrownOnlyForSize == result = "thrown" => Cardinality(plan) > MaxChecks

\* A compiled plan is that of the profile and the kernel together: every pack is
\* as pinned, every dependency in it, every kernel check present as the kernel
\* declares it, no check of another origin, and none that blocks without reaching
\* the disposition reducer, whatever the profile strengthens.
KernelUndiminished ==
  result = "compiled" =>
    /\ doc.supplied \cap Mandatory = {}
    /\ {a.pack : a \in plan} = Mandatory \cup DOMAIN doc.selects
    /\ \A p \in DOMAIN doc.selects : doc.selects[p] = {} /\ \A q \in DOMAIN doc.deps[p] :
         doc.deps[p][q] = {} /\ q \in selected
    /\ \A p \in Mandatory : \A c \in KernelChecks[p] : \E a \in plan :
         /\ a.id = c.id /\ a.pack = p /\ a.phase = c.phase /\ a.validator = c.validator
         /\ c.effect = "BLOCKING" => a.effect = "BLOCKING"
    /\ \A a \in plan : a.effect = "BLOCKING" => a.consumer = "DISPOSITION_REDUCER"

\* Nothing compiled exceeds its authority: no command of the contract or of a
\* check may have more tasks, or a process tree, than both ceilings allow, and
\* what is compiled to be evaluated, under a profile that wants one, bears a
\* trusted signature.  (The `compile` command prints the plan of any contract.)
NothingUnauthorized ==
  result = "compiled" =>
    /\ doc.caller = "evaluate" /\ doc.mode = "SIGNED" => doc.signature = "trusted"
    /\ \A r \in (UNION {a.execution : a \in plan}) \cup (IF doc.bounded THEN doc.commands ELSE {}) :
         \/ r = Strict
         \/ /\ doc.contractCeiling.class = "BOUNDED_PROCESS_TREE"
            /\ doc.profileCeiling.class = "BOUNDED_PROCESS_TREE"
            /\ r.maxTasks <= doc.contractCeiling.maxTasks
            /\ r.maxTasks <= doc.profileCeiling.maxTasks
=============================================================================
