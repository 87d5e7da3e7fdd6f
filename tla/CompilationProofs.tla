--------------------------- MODULE CompilationProofs ---------------------------
(***************************************************************************)
(* Theorems about module Compilation, for any finite set of packs, any     *)
(* dependencies between them and any documents that validation lets pass.  *)
(***************************************************************************)
EXTENDS Compilation, FiniteSetTheorems, WellFoundedInduction, TLAPS

-----------------------------------------------------------------------------
(***************************************************************************)
(* Least elements, and the cardinality of the packs ordered.               *)
(***************************************************************************)
LEMMA LeastExists ==
  ASSUME NEW S \in SUBSET Nat, S # {}
  PROVE  \E x \in S : \A y \in S : x <= y
<1> DEFINE R == OpToRel(<, Nat)
<1>1. IsWellFoundedOn(R, Nat)
  BY NatLessThanWellFounded
<1>2. \A x, y \in Nat : <<y, x>> \in R <=> y < x
  BY DEF OpToRel
<1> HIDE DEF R
<1>3. PICK x \in S : \A y \in S : ~(<<y, x>> \in R)
  BY <1>1, WFMin
<1>4. \A y \in S : x <= y
  <2> SUFFICES ASSUME NEW y \in S PROVE x <= y
    OBVIOUS
  <2>1. x \in Nat /\ y \in Nat
    OBVIOUS
  <2>2. ~(y < x)
    BY <1>2, <1>3, <2>1
  <2> QED
    BY <2>1, <2>2
<1> QED
  BY <1>4

LEMMA MinIsLeast ==
  ASSUME NEW S \in SUBSET Nat, S # {}
  PROVE  Min(S) \in S /\ \A y \in S : Min(S) <= y
BY LeastExists DEF Min

-----------------------------------------------------------------------------
(***************************************************************************)
(* The order that Kahn's algorithm makes.                                  *)
(***************************************************************************)
Before(n) == {order[m] : m \in 1 .. (n - 1)}
Popped == {order[n] : n \in DOMAIN order}

\* Each pack ordered is new, has all its dependencies before it, and is the
\* least such pack.
OrderInv ==
  /\ order \in Seq(selected)
  /\ \A n \in DOMAIN order :
       /\ order[n] \notin Before(n)
       /\ DepsOf(order[n]) \subseteq Before(n)
       /\ \A q \in selected \ Before(n) : DepsOf(q) \subseteq Before(n) => order[n] <= q

\* A counter is the number of dependencies that are still to be ordered, and the
\* frontier holds the packs that have none.
CountInv ==
  /\ pc \in {"order", "checks", "assemble"} =>
       /\ indegree = [p \in selected |-> Cardinality(DepsOf(p) \ Popped)]
       /\ frontier = {p \in selected \ Popped : DepsOf(p) \subseteq Popped}
  /\ pc \in {"checks", "assemble"} => frontier = {}

LEMMA PackFacts ==
  ASSUME selected \subseteq Pack
  PROVE  /\ selected \subseteq Nat /\ IsFiniteSet(selected) /\ Cardinality(selected) \in Nat
         /\ \A p : DepsOf(p) \subseteq selected /\ IsFiniteSet(DepsOf(p))
<1>1. IsFiniteSet(selected)
  BY FS_Subset, CompilationAssumption
<1>2. \A p : DepsOf(p) \subseteq selected
  BY DEF DepsOf
<1> QED
  BY <1>1, <1>2, FS_Subset, FS_CardinalityType, CompilationAssumption

\* Only what has been ordered can be a dependency of what has been ordered.
LEMMA PoppedClosed ==
  ASSUME OrderInv, NEW p \in Popped
  PROVE  p \in selected /\ DepsOf(p) \subseteq Popped
<1>1. PICK n \in DOMAIN order : order[n] = p
  BY DEF Popped
<1>2. DOMAIN order = 1 .. Len(order) /\ Len(order) \in Nat /\ p \in selected
  BY <1>1 DEF OrderInv
<1>3. Before(n) \subseteq Popped
  BY <1>1, <1>2 DEF Before, Popped
<1> QED
  BY <1>1, <1>2, <1>3 DEF OrderInv

LEMMA PoppedCounted ==
  ASSUME OrderInv, selected \subseteq Pack
  PROVE  /\ Popped \subseteq selected /\ IsFiniteSet(Popped)
         /\ Len(order) = Cardinality(Popped)
         /\ Len(order) = Cardinality(selected) <=> Popped = selected
<1>1. order \in Seq(selected) /\ DOMAIN order = 1 .. Len(order) /\ Len(order) \in Nat
  BY DEF OrderInv
<1>2. Popped \subseteq selected
  BY <1>1 DEF Popped
<1>3. IsFiniteSet(selected)
  BY PackFacts
<1>4. IsFiniteSet(Popped)
  BY <1>2, <1>3, FS_Subset
<1>5. order \in Surjection(1 .. Len(order), Popped)
  BY <1>1 DEF Surjection, Popped
<1>6. order \in Injection(1 .. Len(order), Popped)
  <2>1. ASSUME NEW m \in 1 .. Len(order), NEW n \in 1 .. Len(order), m < n
        PROVE  order[m] # order[n]
    BY <1>1, <2>1 DEF OrderInv, Before
  <2>2. \A m, n \in 1 .. Len(order) : order[m] = order[n] => m = n
    BY <1>1, <2>1
  <2> QED
    BY <1>1, <1>5, <2>2 DEF Injection, IsInjective, Surjection
<1>7. IsFiniteSet(1 .. Len(order)) /\ Cardinality(1 .. Len(order)) = Len(order)
  BY <1>1, FS_Interval
<1>8. Len(order) = Cardinality(Popped)
  BY <1>5, <1>6, <1>7, FS_Surjection
<1>9. Cardinality(Popped) = Cardinality(selected) => Popped = selected
  BY <1>2, <1>3, FS_Subset
<1> QED
  BY <1>2, <1>4, <1>8, <1>9

\* What is on a cycle, or waits for one, is never ordered.
LEMMA CycleNotPopped ==
  ASSUME OrderInv, NEW S \in SUBSET selected, \A p \in S : DepsOf(p) \cap S # {}
  PROVE  S \cap Popped = {}
<1> SUFFICES ASSUME S \cap Popped # {} PROVE FALSE
  OBVIOUS
<1> DEFINE N == {n \in DOMAIN order : order[n] \in S}
<1>1. DOMAIN order = 1 .. Len(order) /\ Len(order) \in Nat
  BY DEF OrderInv
<1>2. N \in SUBSET Nat /\ N # {}
  BY <1>1 DEF Popped
<1>3. PICK n \in N : \A m \in N : n <= m
  BY <1>2, LeastExists
<1>4. PICK q \in DepsOf(order[n]) : q \in S
  BY <1>3
<1>5. q \in Before(n)
  BY <1>3, <1>4 DEF OrderInv
<1>6. PICK m \in 1 .. (n - 1) : order[m] = q
  BY <1>5 DEF Before
<1>7. m \in N /\ m < n
  BY <1>1, <1>3, <1>4, <1>6
<1> QED
  BY <1>1, <1>3, <1>7

\* Taking the least pack of the frontier keeps both.
LEMMA PopStep ==
  ASSUME OrderInv, CountInv, selected \subseteq Pack, Pop
  PROVE  OrderInv' /\ CountInv'
<1> DEFINE p == Min(frontier)
           freed == {q \in selected : p \in DepsOf(q) /\ indegree[q] = 1}
<1>1. /\ pc = "order" /\ frontier # {} /\ order' = Append(order, p)
      /\ indegree' = [q \in selected |-> IF p \in DepsOf(q) THEN indegree[q] - 1 ELSE indegree[q]]
      /\ frontier' = (frontier \ {p}) \cup freed
      /\ UNCHANGED <<doc, pc, errors, selected, plan, result>>
  BY DEF Pop
<1>2. /\ indegree = [q \in selected |-> Cardinality(DepsOf(q) \ Popped)]
      /\ frontier = {q \in selected \ Popped : DepsOf(q) \subseteq Popped}
  BY <1>1 DEF CountInv
<1>3. selected \subseteq Nat /\ \A q : DepsOf(q) \subseteq selected /\ IsFiniteSet(DepsOf(q))
  BY PackFacts
<1>4. p \in frontier /\ \A q \in frontier : p <= q
  BY <1>1, <1>2, <1>3, MinIsLeast
<1>5. p \in selected /\ p \notin Popped /\ DepsOf(p) \subseteq Popped
  BY <1>2, <1>4
<1>6. \A q : DepsOf(q)' = DepsOf(q)
  BY <1>1 DEF DepsOf
<1> HIDE DEF p
<1>6a. PICK N \in Nat : N = Len(order)
  BY DEF OrderInv
<1>7. /\ DOMAIN order = 1 .. N /\ order \in Seq(selected)
      /\ order' \in Seq(selected) /\ DOMAIN order' = 1 .. (N + 1)
      /\ order'[N + 1] = p /\ \A n \in 1 .. N : order'[n] = order[n]
  BY <1>1, <1>5, <1>6a DEF OrderInv
<1>8. /\ \A n \in 1 .. N : Before(n)' = Before(n)
      /\ Before(N + 1)' = Popped /\ Popped' = Popped \cup {p}
  <2>1. ASSUME NEW n \in 1 .. N PROVE Before(n)' = Before(n)
    <3>1. \A m \in 1 .. (n - 1) : order'[m] = order[m]
      BY <1>7
    <3> QED
      BY <3>1 DEF Before
  <2>2. Before(N + 1)' = {order'[m] : m \in 1 .. ((N + 1) - 1)}
    BY DEF Before
  <2>3. (N + 1) - 1 = N
    OBVIOUS
  <2>4. Before(N + 1)' = Popped
    <3>1. \A x : x \in Before(N + 1)' <=> \E m \in 1 .. N : order'[m] = x
      BY <2>2, <2>3
    <3>2. \A x : x \in Popped <=> \E m \in 1 .. N : order[m] = x
      BY <1>7 DEF Popped
    <3> QED
      BY <1>7, <3>1, <3>2
  <2>5. Popped' = Popped \cup {p}
    <3>1. \A m : m \in 1 .. (N + 1) <=> m \in 1 .. N \/ m = N + 1
      OBVIOUS
    <3>2. \A x : x \in Popped' <=> \E m \in 1 .. (N + 1) : order'[m] = x
      BY <1>7 DEF Popped
    <3>3. \A x : x \in Popped <=> \E m \in 1 .. N : order[m] = x
      BY <1>7 DEF Popped
    <3>4. \A x : x \in Popped' <=> x \in Popped \/ x = p
      BY <1>7, <3>1, <3>2, <3>3
    <3> QED
      BY <3>4
  <2> QED
    BY <2>1, <2>4, <2>5
<1>9. OrderInv'
  <2>1. ASSUME NEW n \in 1 .. N
        PROVE  /\ order'[n] \notin Before(n)'
               /\ DepsOf(order[n])' \subseteq Before(n)'
               /\ \A q \in selected \ Before(n)' : DepsOf(q)' \subseteq Before(n)' => order'[n] <= q
    <3>1. /\ order[n] \notin Before(n) /\ DepsOf(order[n]) \subseteq Before(n)
          /\ \A q \in selected \ Before(n) : DepsOf(q) \subseteq Before(n) => order[n] <= q
      BY <1>7 DEF OrderInv
    <3>2. order'[n] = order[n] /\ Before(n)' = Before(n)
      BY <1>7, <1>8
    <3>3. DepsOf(order[n])' = DepsOf(order[n])
      BY <1>1, <3>2 DEF DepsOf
    <3> QED
      BY <1>6, <3>1, <3>2, <3>3
  <2>2. /\ order'[N + 1] \notin Before(N + 1)'
        /\ DepsOf(order[N + 1])' \subseteq Before(N + 1)'
        /\ \A q \in selected \ Before(N + 1)' : DepsOf(q)' \subseteq Before(N + 1)' => order'[N + 1] <= q
    <3>1. DepsOf(order[N + 1])' = DepsOf(p)
      BY <1>1, <1>7 DEF DepsOf
    <3> QED
      BY <1>2, <1>4, <1>5, <1>6, <1>7, <1>8, <3>1
  <2>3. \A n \in 1 .. (N + 1) : n \in 1 .. N \/ n = N + 1
    OBVIOUS
  <2>4. \A n \in DOMAIN order' :
          /\ order'[n] \notin Before(n)'
          /\ DepsOf(order[n])' \subseteq Before(n)'
          /\ \A q \in selected \ Before(n)' : DepsOf(q)' \subseteq Before(n)' => order'[n] <= q
    BY <1>7, <2>1, <2>2, <2>3
  <2> QED
    BY <1>1, <1>7, <2>4 DEF OrderInv
<1>10. indegree' = [q \in selected |-> Cardinality(DepsOf(q) \ Popped')]
  <2> SUFFICES ASSUME NEW q \in selected
               PROVE  indegree'[q] = Cardinality(DepsOf(q) \ Popped')
    BY <1>1
  <2>1. IsFiniteSet(DepsOf(q) \ Popped)
    BY <1>3, FS_Subset
  <2>2. DepsOf(q) \ Popped' = (DepsOf(q) \ Popped) \ {p}
    BY <1>8
  <2>3. Cardinality(DepsOf(q) \ Popped') =
          IF p \in DepsOf(q) \ Popped THEN Cardinality(DepsOf(q) \ Popped) - 1
          ELSE Cardinality(DepsOf(q) \ Popped)
    BY <2>1, <2>2, FS_RemoveElement
  <2> QED
    BY <1>1, <1>2, <1>5, <2>3
<1>11. frontier' = {q \in selected \ Popped' : DepsOf(q) \subseteq Popped'}
  <2>1. ASSUME NEW q \in selected, p \in DepsOf(q)
        PROVE  indegree[q] = 1 <=> DepsOf(q) \subseteq Popped \cup {p}
    <3>1. IsFiniteSet(DepsOf(q) \ Popped) /\ p \in DepsOf(q) \ Popped
      BY <1>3, <1>5, <2>1, FS_Subset
    <3>2. indegree[q] = 1 <=> \E x : DepsOf(q) \ Popped = {x}
      BY <1>2, <3>1, FS_Singleton
    <3> QED
      BY <3>1, <3>2
  <2>2. ASSUME NEW q \in selected, p \in DepsOf(q)
        PROVE  q \notin Popped /\ q # p
    BY <1>5, <2>2, PoppedClosed
  <2>3. \A q \in selected : q \in frontier' <=> q \in selected \ Popped' /\ DepsOf(q) \subseteq Popped'
    <3> SUFFICES ASSUME NEW q \in selected
                 PROVE  q \in frontier' <=> q \in selected \ Popped' /\ DepsOf(q) \subseteq Popped'
      OBVIOUS
    <3>1. CASE p \in DepsOf(q)
      BY <1>1, <1>2, <1>5, <1>8, <2>1, <2>2, <3>1
    <3>2. CASE p \notin DepsOf(q)
      BY <1>1, <1>2, <1>8, <3>2
    <3> QED
      BY <3>1, <3>2
  <2>4. frontier' \subseteq selected
    BY <1>1, <1>2
  <2> QED
    BY <2>3, <2>4
<1>12. CountInv'
  BY <1>1, <1>6, <1>10, <1>11 DEF CountInv
<1> QED
  BY <1>9, <1>12

-----------------------------------------------------------------------------
(***************************************************************************)
(* What each part of the compilation has established for the next ones.    *)
(***************************************************************************)
\* The compilation is at one of the parts in S, or has made a plan.
Reached(S) == pc \in S \/ result \in {"compiled", "thrown"}

\* What is to be evaluated has been authorized.
Cleared(d) == d.caller = "evaluate" => Authorized(d)

Shape ==
  /\ doc \in Document
  /\ pc \in {"authorize", "validate", "select", "resolve", "order", "checks", "assemble", "done"}
  /\ result \in {"none", "refused", "compiled", "thrown"} /\ (pc = "done" <=> result # "none")
  /\ errors \subseteq ReasonCodes
  /\ selected \subseteq Pack /\ frontier \subseteq selected
  /\ pc \in {"authorize", "validate", "select", "resolve"} => order = <<>> /\ frontier = {}

Gates ==
  /\ Reached({"validate", "select", "resolve", "order", "checks", "assemble"}) => Cleared(doc)
  /\ Reached({"select", "resolve", "order", "checks", "assemble"}) => DocumentsValid(doc)
  /\ Reached({"resolve", "order", "checks", "assemble"}) =>
       selected = Mandatory \cup (Chosen(doc) \cap doc.supplied)

\* No error is lost on the way to the point where they refuse the contract.
Gathered ==
  /\ pc \in {"resolve", "order", "checks"} => SelectionErrors(doc) \subseteq errors
  /\ pc \in {"order", "checks"} =>
       DependencyErrors \subseteq errors /\ (PhaseConflict => "PHASE_ORDER_CONFLICT" \in errors)
  /\ pc \in {"resolve", "order"} => "DEPENDENCY_CYCLE" \notin errors
  /\ pc \in {"checks", "assemble"} =>
       ("DEPENDENCY_CYCLE" \in errors <=> Len(order) # Cardinality(selected))

Clean == Reached({"assemble"}) =>
  /\ SelectionErrors(doc) = {} /\ DependencyErrors = {} /\ ~PhaseConflict
  /\ Len(order) = Cardinality(selected)
  /\ CheckErrors = {} /\ CommandErrors = {} /\ StrengthenErrors = {}

PlanMade ==
  /\ result \in {"compiled", "thrown"} => plan = Entries
  /\ result = "compiled" => \A a \in AllChecks : a.validator = "TARGET" => Admitted(a.requires)
  /\ result = "thrown" => PlanInvalid(Entries)

IInv == Shape /\ Gates /\ Gathered /\ Clean /\ PlanMade /\ OrderInv /\ CountInv

\* What does not change while the documents and the selection do not.
LEMMA Frozen ==
  ASSUME UNCHANGED <<doc, selected>>
  PROVE  /\ Cleared(doc)' <=> Cleared(doc)
         /\ DocumentsValid(doc)' <=> DocumentsValid(doc)
         /\ Chosen(doc)' = Chosen(doc)
         /\ SelectionErrors(doc)' = SelectionErrors(doc)
         /\ DependencyErrors' = DependencyErrors
         /\ PhaseConflict' <=> PhaseConflict
         /\ AllChecks' = AllChecks /\ CheckErrors' = CheckErrors
         /\ CommandErrors' = CommandErrors /\ StrengthenErrors' = StrengthenErrors
         /\ Entries' = Entries
<1> USE DEF DepsOf
<1>1. Cleared(doc)' <=> Cleared(doc)
  BY DEF Cleared, Authorized
<1>2. DocumentsValid(doc)' <=> DocumentsValid(doc)
  BY DEF DocumentsValid, WellFormedPack
<1>3. Chosen(doc)' = Chosen(doc) /\ SelectionErrors(doc)' = SelectionErrors(doc)
  BY DEF Chosen, SelectionErrors, MismatchCodes
<1>4. DependencyErrors' = DependencyErrors /\ (PhaseConflict' <=> PhaseConflict)
  BY DEF DependencyErrors, PhaseConflict
<1>5. AllChecks' = AllChecks
  BY DEF AllChecks
<1>6. CheckErrors' = CheckErrors
  BY <1>5 DEF CheckErrors
<1>7. CommandErrors' = CommandErrors
  BY DEF CommandErrors, Admitted
<1>8. StrengthenErrors' = StrengthenErrors
  BY <1>5 DEF StrengthenErrors
<1>9. Entries' = Entries
  BY DEF Entries, PlanEntry
<1> QED
  BY <1>1, <1>2, <1>3, <1>4, <1>5, <1>6, <1>7, <1>8, <1>9

LEMMA FrozenOrder ==
  ASSUME UNCHANGED <<doc, selected, order>>
  PROVE  /\ Popped' = Popped /\ (OrderInv' <=> OrderInv)
         /\ \A p : DepsOf(p)' = DepsOf(p)
<1>1. \A p : DepsOf(p)' = DepsOf(p)
  BY DEF DepsOf
<1>2. Popped' = Popped /\ \A n : Before(n)' = Before(n)
  BY DEF Popped, Before
<1>3. OrderInv' <=> OrderInv
  BY <1>1, <1>2 DEF OrderInv, Before, DepsOf
<1> QED
  BY <1>1, <1>2, <1>3

LEMMA EmptyOrder ==
  ASSUME order = <<>>
  PROVE  OrderInv /\ Popped = {}
BY DEF OrderInv, Popped

LEMMA InitInv == Init => IInv
<1> SUFFICES ASSUME Init PROVE IInv
  OBVIOUS
<1>1. OrderInv
  BY EmptyOrder DEF Init
<1> QED
  BY <1>1 DEF Init, IInv, Shape, Gates, Gathered, Clean, PlanMade, CountInv, Reached, Cleared

LEMMA AuthorizeInv == IInv /\ Authorize => IInv'
<1> SUFFICES ASSUME IInv, Authorize PROVE IInv'
  OBVIOUS
<1>1. /\ pc = "authorize" /\ UNCHANGED <<doc, errors, selected, indegree, frontier, order, plan>>
      /\ \/ Cleared(doc) /\ pc' = "validate" /\ result' = result
         \/ pc' = "done" /\ result' = "refused"
  BY DEF Authorize, Return, Cleared
<1>2. OrderInv'
  BY <1>1, FrozenOrder DEF IInv
<1>3. result = "none"
  BY <1>1 DEF IInv, Shape
<1>4. Cleared(doc)' <=> Cleared(doc)
  BY <1>1, Frozen
<1> QED
  BY <1>1, <1>2, <1>3, <1>4 DEF IInv, Shape, Gates, Gathered, Clean, PlanMade, CountInv, Reached

LEMMA ValidateInv == IInv /\ Validate => IInv'
<1> SUFFICES ASSUME IInv, Validate PROVE IInv'
  OBVIOUS
<1>1. /\ pc = "validate" /\ UNCHANGED <<doc, errors, selected, indegree, frontier, order, plan>>
      /\ \/ DocumentsValid(doc) /\ pc' = "select" /\ result' = result
         \/ pc' = "done" /\ result' = "refused"
  BY DEF Validate, Return
<1>2. OrderInv'
  BY <1>1, FrozenOrder DEF IInv
<1>3. result = "none" /\ Cleared(doc)
  BY <1>1 DEF IInv, Shape, Gates, Reached
<1>4. (Cleared(doc)' <=> Cleared(doc)) /\ (DocumentsValid(doc)' <=> DocumentsValid(doc))
  BY <1>1, Frozen
<1> QED
  BY <1>1, <1>2, <1>3, <1>4 DEF IInv, Shape, Gates, Gathered, Clean, PlanMade, CountInv, Reached

LEMMA SelectionCodes ==
  ASSUME NEW d \in Document
  PROVE  SelectionErrors(d) \subseteq ReasonCodes \ {"DEPENDENCY_CYCLE"}
<1>1. d.header \subseteq ReasonCodes \ {"DEPENDENCY_CYCLE"}
  <2>1. d.header \subseteq {"AUTHORITY_DIGEST_MISMATCH", "PROFILE_IDENTITY_MISMATCH"}
    BY DocumentAssumption
  <2> QED
    BY <2>1 DEF ReasonCodes
<1>2. \A wrong : MismatchCodes(wrong) \subseteq {"PACK_IDENTITY_MISMATCH", "PACK_DIGEST_MISMATCH"}
  BY DEF MismatchCodes
<1>3. UNION {MismatchCodes(d.selects[p]) : p \in Chosen(d) \cap d.supplied}
        \subseteq {"PACK_IDENTITY_MISMATCH", "PACK_DIGEST_MISMATCH"}
  <2> SUFFICES ASSUME NEW p \in Chosen(d) \cap d.supplied, NEW e \in MismatchCodes(d.selects[p])
               PROVE  e \in {"PACK_IDENTITY_MISMATCH", "PACK_DIGEST_MISMATCH"}
    BY Zenon
  <2> QED
    BY <1>2
<1> QED
  BY <1>1, <1>3 DEF SelectionErrors, ReasonCodes

LEMMA SelectInv == IInv /\ Select => IInv'
<1> SUFFICES ASSUME IInv, Select PROVE IInv'
  OBVIOUS
<1>1. /\ pc = "select" /\ pc' = "resolve"
      /\ selected' = Mandatory \cup (Chosen(doc) \cap doc.supplied)
      /\ errors' = SelectionErrors(doc)
      /\ UNCHANGED <<doc, indegree, frontier, order, plan, result>>
  BY DEF Select
<1>2. doc \in Document /\ result = "none" /\ order = <<>> /\ frontier = {}
      /\ Cleared(doc) /\ DocumentsValid(doc)
  BY <1>1 DEF IInv, Shape, Gates, Reached
<1>3. OrderInv'
  <2>1. order' = <<>>
    BY <1>1, <1>2
  <2> QED
    BY <2>1 DEF OrderInv
<1>4. selected' \subseteq Pack
  BY <1>1, <1>2, CompilationAssumption, DocumentAssumption
<1>5. errors' \subseteq ReasonCodes /\ "DEPENDENCY_CYCLE" \notin errors'
  BY <1>1, <1>2, SelectionCodes
<1>6. /\ Cleared(doc)' <=> Cleared(doc)
      /\ DocumentsValid(doc)' <=> DocumentsValid(doc)
      /\ Chosen(doc)' = Chosen(doc) /\ SelectionErrors(doc)' = SelectionErrors(doc)
  BY <1>1 DEF Cleared, Authorized, DocumentsValid, WellFormedPack, Chosen, SelectionErrors, MismatchCodes
<1>7. Shape'
  BY <1>1, <1>2, <1>4, <1>5 DEF Shape
<1>8. Gates' /\ Gathered'
  BY <1>1, <1>2, <1>5, <1>6 DEF Gates, Gathered, Reached
<1>9. Clean' /\ PlanMade' /\ CountInv'
  BY <1>1, <1>2 DEF Clean, PlanMade, CountInv, Reached
<1> QED
  BY <1>3, <1>7, <1>8, <1>9 DEF IInv

LEMMA ResolveInv == IInv /\ Resolve => IInv'
<1> SUFFICES ASSUME IInv, Resolve PROVE IInv'
  OBVIOUS
<1>1. /\ pc = "resolve" /\ pc' = "order"
      /\ errors' = errors \cup DependencyErrors \cup (IF PhaseConflict THEN {"PHASE_ORDER_CONFLICT"} ELSE {})
      /\ indegree' = [p \in selected |-> Cardinality(DepsOf(p))]
      /\ frontier' = {p \in selected : Cardinality(DepsOf(p)) = 0}
      /\ UNCHANGED <<doc, selected, order, plan, result>>
  BY DEF Resolve
<1>2. /\ result = "none" /\ order = <<>> /\ selected \subseteq Pack
      /\ SelectionErrors(doc) \subseteq errors /\ "DEPENDENCY_CYCLE" \notin errors
      /\ errors \subseteq ReasonCodes
      /\ selected = Mandatory \cup (Chosen(doc) \cap doc.supplied)
  BY <1>1 DEF IInv, Shape, Gathered, Gates, Reached
<1>3. DependencyErrors \subseteq ReasonCodes \ {"DEPENDENCY_CYCLE"}
  BY DEF DependencyErrors, ReasonCodes
<1>4. OrderInv' /\ Popped = {} /\ Popped' = {} /\ \A p : DepsOf(p)' = DepsOf(p)
  BY <1>1, <1>2, FrozenOrder, EmptyOrder DEF IInv
<1>5. CountInv'
  <2>1. \A p : IsFiniteSet(DepsOf(p)) /\ DepsOf(p) \subseteq selected
    BY <1>2, PackFacts
  <2>2. \A p : Cardinality(DepsOf(p)) = 0 <=> DepsOf(p) = {}
    BY <2>1, FS_EmptySet
  <2>3. \A p : DepsOf(p) \ Popped' = DepsOf(p)
    BY <1>4
  <2>4. indegree' = [p \in selected |-> Cardinality(DepsOf(p) \ Popped')]
    BY <1>1, <2>3
  <2>5. frontier' = {p \in selected \ Popped' : DepsOf(p) \subseteq Popped'}
    BY <1>1, <1>4, <2>2
  <2> QED
    BY <1>1, <1>4, <2>4, <2>5 DEF CountInv
<1>6. Shape'
  BY <1>1, <1>2, <1>3 DEF IInv, Shape, ReasonCodes
<1>7. Gates'
  BY <1>1, <1>2, Frozen DEF IInv, Gates, Reached
<1>8. Gathered'
  BY <1>1, <1>2, <1>3, Frozen DEF Gathered
<1>9. Clean' /\ PlanMade'
  BY <1>1, <1>2 DEF Clean, PlanMade, Reached
<1> QED
  BY <1>4, <1>5, <1>6, <1>7, <1>8, <1>9 DEF IInv

LEMMA PopInv == IInv /\ Pop => IInv'
<1> SUFFICES ASSUME IInv, Pop PROVE IInv'
  OBVIOUS
<1>1. pc = "order" /\ UNCHANGED <<doc, pc, errors, selected, plan, result>>
  BY DEF Pop
<1>2. OrderInv' /\ CountInv'
  BY PopStep DEF IInv, Shape
<1>3. result = "none" /\ frontier' \subseteq selected'
  BY <1>1, <1>2 DEF IInv, Shape, CountInv
<1>4. Shape'
  BY <1>1, <1>3 DEF IInv, Shape
<1>5. Gates' /\ Gathered'
  BY <1>1, <1>3, Frozen DEF IInv, Gates, Gathered, Reached
<1>6. Clean' /\ PlanMade'
  BY <1>1, <1>3 DEF Clean, PlanMade, Reached
<1> QED
  BY <1>2, <1>4, <1>5, <1>6 DEF IInv

LEMMA OrderedInv == IInv /\ Ordered => IInv'
<1> SUFFICES ASSUME IInv, Ordered PROVE IInv'
  OBVIOUS
<1>1. /\ pc = "order" /\ frontier = {} /\ pc' = "checks"
      /\ errors' = errors \cup (IF Len(order) # Cardinality(selected) THEN {"DEPENDENCY_CYCLE"} ELSE {})
      /\ UNCHANGED <<doc, selected, indegree, frontier, order, plan, result>>
  BY DEF Ordered
<1>2. result = "none" /\ "DEPENDENCY_CYCLE" \notin errors /\ errors \subseteq ReasonCodes
  BY <1>1 DEF IInv, Shape, Gathered
<1>3. OrderInv' /\ CountInv'
  BY <1>1, FrozenOrder DEF IInv, CountInv
<1>4. Shape'
  BY <1>1, <1>2 DEF IInv, Shape, ReasonCodes
<1>5. Gates'
  BY <1>1, <1>2, Frozen DEF IInv, Gates, Reached
<1>6. Gathered'
  BY <1>1, <1>2, Frozen DEF IInv, Gathered
<1>7. Clean' /\ PlanMade'
  BY <1>1, <1>2 DEF Clean, PlanMade, Reached
<1> QED
  BY <1>3, <1>4, <1>5, <1>6, <1>7 DEF IInv

LEMMA CollectInv == IInv /\ Collect => IInv'
<1> SUFFICES ASSUME IInv, Collect PROVE IInv'
  OBVIOUS
<1>1. /\ pc = "checks"
      /\ errors' = errors \cup CheckErrors \cup CommandErrors \cup StrengthenErrors
      /\ \/ errors' = {} /\ pc' = "assemble" /\ result' = result
         \/ pc' = "done" /\ result' = "refused"
      /\ UNCHANGED <<doc, selected, indegree, frontier, order, plan>>
  BY DEF Collect, Return
<1>2. result = "none" /\ errors \subseteq ReasonCodes /\ frontier = {}
  BY <1>1 DEF IInv, Shape, CountInv
<1>3. CheckErrors \cup CommandErrors \cup StrengthenErrors \subseteq ReasonCodes
  BY DEF CheckErrors, CommandErrors, StrengthenErrors, ReasonCodes
<1>4. OrderInv' /\ CountInv'
  BY <1>1, <1>2, FrozenOrder DEF IInv, CountInv
<1>5. Shape'
  BY <1>1, <1>2, <1>3 DEF IInv, Shape
<1>6. Gates'
  BY <1>1, <1>2, Frozen DEF IInv, Gates, Reached
<1>7. Clean' /\ Gathered'
  <2>1. CASE errors' = {} /\ pc' = "assemble" /\ result' = result
    <3>1. /\ SelectionErrors(doc) = {} /\ DependencyErrors = {} /\ ~PhaseConflict
          /\ Len(order) = Cardinality(selected)
          /\ CheckErrors = {} /\ CommandErrors = {} /\ StrengthenErrors = {}
      BY <1>1, <2>1 DEF IInv, Gathered
    <3> QED
      BY <1>1, <1>2, <2>1, <3>1, Frozen DEF Clean, Gathered
  <2>2. CASE pc' = "done" /\ result' = "refused"
    BY <2>2 DEF Clean, Gathered, Reached
  <2> QED
    BY <1>1, <2>1, <2>2
<1>8. PlanMade'
  BY <1>1, <1>2 DEF PlanMade
<1> QED
  BY <1>4, <1>5, <1>6, <1>7, <1>8 DEF IInv

LEMMA AssembleInv == IInv /\ Assemble => IInv'
<1> SUFFICES ASSUME IInv, Assemble PROVE IInv'
  OBVIOUS
<1>1. /\ pc = "assemble" /\ pc' = "done" /\ plan' = Entries
      /\ errors' = {"PROCESS_TREE_UNAUTHORIZED" :
                      a \in {b \in AllChecks : b.validator = "TARGET" /\ ~Admitted(b.requires)}}
      /\ \/ result' = "refused"
         \/ errors' = {} /\ PlanInvalid(Entries) /\ result' = "thrown"
         \/ errors' = {} /\ result' = "compiled"
      /\ UNCHANGED <<doc, selected, indegree, frontier, order>>
  BY DEF Assemble, Return
<1>2. errors' \subseteq ReasonCodes
  BY <1>1 DEF ReasonCodes
<1>3. OrderInv' /\ CountInv'
  BY <1>1, FrozenOrder DEF IInv, CountInv
<1>4. Shape'
  BY <1>1, <1>2 DEF IInv, Shape
<1>5. Gates'
  BY <1>1, Frozen DEF IInv, Gates, Reached
<1>6. Gathered'
  BY <1>1 DEF Gathered
<1>7. Clean'
  <2>1. /\ SelectionErrors(doc) = {} /\ DependencyErrors = {} /\ ~PhaseConflict
        /\ Len(order) = Cardinality(selected)
        /\ CheckErrors = {} /\ CommandErrors = {} /\ StrengthenErrors = {}
    BY <1>1 DEF IInv, Clean, Reached
  <2> QED
    BY <1>1, <2>1, Frozen DEF Clean
<1>8. PlanMade'
  <2>1. Entries' = Entries /\ AllChecks' = AllChecks
    BY <1>1, Frozen
  <2>2. PlanInvalid(Entries)' <=> PlanInvalid(Entries)
    BY <1>1, <2>1 DEF PlanInvalid, OrderViolated, Precedes, Position
  <2>3. errors' = {} => \A a \in AllChecks : a.validator = "TARGET" => Admitted(a.requires)
    BY <1>1
  <2>4. \A r : Admitted(r)' <=> Admitted(r)
    BY <1>1 DEF Admitted
  <2> QED
    BY <1>1, <2>1, <2>2, <2>3, <2>4 DEF PlanMade
<1> QED
  BY <1>3, <1>4, <1>5, <1>6, <1>7, <1>8 DEF IInv

LEMMA StutterInv == IInv /\ UNCHANGED vars => IInv'
<1> SUFFICES ASSUME IInv, UNCHANGED vars PROVE IInv'
  OBVIOUS
<1>1. UNCHANGED <<doc, pc, errors, selected, indegree, frontier, order, plan, result>>
  BY DEF vars
<1>2. OrderInv' /\ CountInv'
  BY <1>1, FrozenOrder DEF IInv, CountInv
<1>3. Shape' /\ Gates'
  BY <1>1, Frozen DEF IInv, Shape, Gates, Reached
<1>4. Gathered' /\ Clean'
  BY <1>1, Frozen DEF IInv, Gathered, Clean, Reached
<1>5. PlanMade'
  <2>1. Entries' = Entries /\ AllChecks' = AllChecks
    BY <1>1, Frozen
  <2>2. PlanInvalid(Entries)' <=> PlanInvalid(Entries)
    BY <1>1, <2>1 DEF PlanInvalid, OrderViolated, Precedes, Position
  <2>3. \A r : Admitted(r)' <=> Admitted(r)
    BY <1>1 DEF Admitted
  <2> QED
    BY <1>1, <2>1, <2>2, <2>3 DEF IInv, PlanMade
<1> QED
  BY <1>2, <1>3, <1>4, <1>5 DEF IInv

\* Every reachable state of a compilation satisfies the invariant.
THEOREM Invariance == Spec => []IInv
<1>1. IInv /\ [Next]_vars => IInv'
  BY AuthorizeInv, ValidateInv, SelectInv, ResolveInv, PopInv, OrderedInv, CollectInv, AssembleInv,
     StutterInv DEF Next, Compile
<1> QED
  BY <1>1, InitInv, PTL DEF Spec

-----------------------------------------------------------------------------
(***************************************************************************)
(* What holds of every compilation.                                        *)
(***************************************************************************)

\* The state of a compilation is well typed.
THEOREM TypeCorrectness == Spec => []TypeOK
<1>1. ASSUME IInv PROVE TypeOK
  <2>1. selected \subseteq Pack /\ frontier \subseteq selected /\ errors \subseteq ReasonCodes
    BY <1>1 DEF IInv, Shape
  <2>2. order \in Seq(selected)
    BY <1>1 DEF IInv, OrderInv
  <2>3. \A p \in selected : Cardinality(DepsOf(p) \ Popped) \in Nat
    BY <2>1, PackFacts, FS_Subset, FS_CardinalityType
  <2>4. pc \in {"order", "checks", "assemble"} => indegree \in [selected -> Nat]
    BY <1>1, <2>3 DEF IInv, CountInv
  <2> QED
    BY <1>1, <2>1, <2>2, <2>4 DEF IInv, Shape, TypeOK
<1> QED
  BY <1>1, Invariance, PTL

\* Kahn's algorithm reports a cycle exactly when the selected packs have one:
\* the packs it never orders wait for each other, and a pack that waits for
\* itself through others is never ordered.
THEOREM CycleReportedAlways == Spec => []CycleReported
<1>1. ASSUME IInv, pc \in {"checks", "assemble"}
      PROVE  "DEPENDENCY_CYCLE" \in errors <=>
               \E S \in SUBSET selected : S # {} /\ \A p \in S : DepsOf(p) \cap S # {}
  <2>1. /\ OrderInv /\ selected \subseteq Pack
        /\ {p \in selected \ Popped : DepsOf(p) \subseteq Popped} = {}
        /\ "DEPENDENCY_CYCLE" \in errors <=> Len(order) # Cardinality(selected)
    BY <1>1 DEF IInv, Shape, CountInv, Gathered
  <2>2. Len(order) = Cardinality(selected) <=> Popped = selected
    BY <2>1, PoppedCounted
  <2>3. ASSUME Popped # selected
        PROVE  \E S \in SUBSET selected : S # {} /\ \A p \in S : DepsOf(p) \cap S # {}
    <3> DEFINE S == selected \ Popped
    <3>1. S # {}
      BY <2>1, <2>3, PoppedClosed
    <3>2. \A p \in S : DepsOf(p) \cap S # {}
      BY <2>1, PackFacts
    <3> QED
      BY <3>1, <3>2
  <2>4. ASSUME NEW S \in SUBSET selected, S # {}, \A p \in S : DepsOf(p) \cap S # {}
        PROVE  Popped # selected
    BY <2>1, <2>4, CycleNotPopped
  <2> QED
    BY <2>1, <2>2, <2>3, <2>4
<1> QED
  BY <1>1, Invariance, PTL DEF CycleReported

\* The order of the packs is a function of the packs and their dependencies.
THEOREM OrderCanonicalAlways == Spec => []OrderCanonical
<1>1. ASSUME IInv PROVE OrderCanonical
  <2> SUFFICES ASSUME NEW n \in DOMAIN order
               PROVE  LET before == {order[m] : m \in 1 .. (n - 1)}
                          ready == {p \in selected \ before : DepsOf(p) \subseteq before}
                      IN order[n] \in ready /\ \A p \in ready : order[n] <= p
    BY DEF OrderCanonical
  <2>1. /\ order[n] \in selected
        /\ order[n] \notin Before(n) /\ DepsOf(order[n]) \subseteq Before(n)
        /\ \A q \in selected \ Before(n) : DepsOf(q) \subseteq Before(n) => order[n] <= q
    BY <1>1 DEF IInv, OrderInv
  <2> QED
    BY <2>1 DEF Before
<1> QED
  BY <1>1, Invariance, PTL

-----------------------------------------------------------------------------
(***************************************************************************)
(* The plan that is made once no error has been found.                     *)
(***************************************************************************)
LEMMA PositionUnique ==
  ASSUME OrderInv
  PROVE  \A m, n \in DOMAIN order : order[m] = order[n] => m = n
<1>1. DOMAIN order = 1 .. Len(order) /\ Len(order) \in Nat
  BY DEF OrderInv
<1>2. ASSUME NEW m \in 1 .. Len(order), NEW n \in 1 .. Len(order), m < n
      PROVE  order[m] # order[n]
  BY <1>1, <1>2 DEF OrderInv, Before
<1> QED
  BY <1>1, <1>2

\* The position of a pack is after those of its dependencies.
LEMMA DependencyFirst ==
  ASSUME OrderInv, Popped = selected, NEW p \in selected, NEW q \in DepsOf(p)
  PROVE  /\ Position(p) \in Nat /\ Position(q) \in Nat
         /\ Position(q) < Position(p)
<1>1. DOMAIN order = 1 .. Len(order) /\ Len(order) \in Nat /\ q \in selected
  BY DEF OrderInv, DepsOf
<1>2. Position(p) \in DOMAIN order /\ order[Position(p)] = p
  BY DEF Popped, Position
<1>3. Position(q) \in DOMAIN order /\ order[Position(q)] = q
  BY <1>1 DEF Popped, Position
<1>4. q \in Before(Position(p))
  BY <1>2 DEF OrderInv
<1>5. PICK m \in 1 .. (Position(p) - 1) : order[m] = q
  BY <1>4 DEF Before
<1>6. m \in DOMAIN order
  BY <1>1, <1>2, <1>5
<1>7. m = Position(q)
  BY <1>3, <1>5, <1>6, PositionUnique
<1> QED
  BY <1>1, <1>2, <1>3, <1>5, <1>7

\* What the absence of errors says of the packs selected.
LEMMA SelectionClean ==
  ASSUME IInv, result \in {"compiled", "thrown"}
  PROVE  /\ plan = Entries /\ Popped = selected /\ selected \subseteq Pack
         /\ selected = Mandatory \cup DOMAIN doc.selects
         /\ doc.supplied \cap Mandatory = {}
         /\ \A p \in DOMAIN doc.selects : doc.selects[p] = {}
         /\ \A p \in selected : \A q \in DOMAIN doc.deps[p] : doc.deps[p][q] = {} /\ q \in DepsOf(p)
         /\ \A p \in selected : WellFormedPack(doc.checks[p])
<1>1. /\ doc \in Document /\ selected \subseteq Pack /\ OrderInv /\ plan = Entries
      /\ DocumentsValid(doc) /\ selected = Mandatory \cup (Chosen(doc) \cap doc.supplied)
      /\ SelectionErrors(doc) = {} /\ DependencyErrors = {}
      /\ Len(order) = Cardinality(selected)
  BY DEF IInv, Shape, Gates, Clean, PlanMade, Reached
<1>2. Popped = selected
  BY <1>1, PoppedCounted
<1>3. /\ {"POLICY_CONFLICT" : p \in Mandatory \cap (DOMAIN doc.selects \cup doc.supplied)} = {}
      /\ {"PACK_NOT_FOUND" : p \in Chosen(doc) \ doc.supplied} = {}
      /\ {"PACK_NOT_SELECTED" : p \in doc.supplied \ DOMAIN doc.selects} = {}
      /\ UNION {MismatchCodes(doc.selects[p]) : p \in Chosen(doc) \cap doc.supplied} = {}
  BY <1>1 DEF SelectionErrors
<1>4. /\ Mandatory \cap (DOMAIN doc.selects \cup doc.supplied) = {}
      /\ Chosen(doc) \subseteq doc.supplied /\ doc.supplied \subseteq DOMAIN doc.selects
  BY <1>3
<1>5. Chosen(doc) = DOMAIN doc.selects /\ doc.supplied = DOMAIN doc.selects
  BY <1>4 DEF Chosen
<1>6. ASSUME NEW p \in DOMAIN doc.selects PROVE doc.selects[p] = {}
  <2>1. MismatchCodes(doc.selects[p]) = {}
    BY <1>3, <1>5
  <2>2. doc.selects[p] \subseteq {"version", "digest"}
    BY <1>1, DocumentAssumption DEF Pin
  <2> QED
    BY <2>1, <2>2 DEF MismatchCodes
<1>7. ASSUME NEW p \in selected, NEW q \in DOMAIN doc.deps[p]
      PROVE  doc.deps[p][q] = {} /\ q \in DepsOf(p)
  <2> DEFINE E(x) == UNION {IF y \notin selected \/ "version" \in doc.deps[x][y] THEN {"DEPENDENCY_UNSATISFIED"}
                            ELSE IF "digest" \in doc.deps[x][y] THEN {"PACK_DIGEST_MISMATCH"} ELSE {}
                            : y \in DOMAIN doc.deps[x]}
  <2>1. UNION {E(x) : x \in selected} = {}
    BY <1>1 DEF DependencyErrors
  <2>2. E(p) = {}
    <3> HIDE DEF E
    <3> QED
      BY <2>1
  <2>3. (IF q \notin selected \/ "version" \in doc.deps[p][q] THEN {"DEPENDENCY_UNSATISFIED"}
         ELSE IF "digest" \in doc.deps[p][q] THEN {"PACK_DIGEST_MISMATCH"} ELSE {}) = {}
    BY <2>2
  <2>4. doc.deps[p][q] \subseteq {"version", "digest"}
    BY <1>1, DocumentAssumption DEF Pin
  <2> QED
    BY <2>3, <2>4 DEF DepsOf
<1>8. ASSUME NEW p \in selected PROVE WellFormedPack(doc.checks[p])
  <2>1. CASE p \in Mandatory
    BY <1>1, <2>1, DocumentAssumption, CompilationAssumption
  <2>2. CASE p \in doc.supplied
    BY <1>1, <2>2 DEF DocumentsValid
  <2> QED
    BY <1>1, <2>1, <2>2
<1> QED
  BY <1>1, <1>2, <1>4, <1>5, <1>6, <1>7, <1>8

\* Every entry of a plan is that of a check of a selected pack.
LEMMA EntryOrigin ==
  /\ \A a \in Entries : \E p \in selected : \E c \in doc.checks[p] : a = PlanEntry(p, c)
  /\ \A p \in selected : \A c \in doc.checks[p] : PlanEntry(p, c) \in Entries
BY DEF Entries

LEMMA CheckTypes ==
  ASSUME IInv, NEW p \in selected, NEW c \in doc.checks[p]
  PROVE  /\ c.id \in Nat /\ c.phase \in 1 .. 3 /\ c.requires \in Requirement
         /\ c.effect \in {"BLOCKING", "ADVISORY"} /\ c \in AllChecks
<1>1. c \in CheckEntry
  BY DocumentAssumption DEF IInv, Shape
<1> QED
  BY <1>1 DEF CheckEntry, Phases, AllChecks

\* Validating the plan of a contract without errors can only find it too long:
\* the gates before it exclude equal names, an order that is not that of the
\* dependencies, and executions that no check may have.
THEOREM ThrownOnlyForSizeAlways == Spec => []ThrownOnlyForSize
<1>1. ASSUME IInv, result = "thrown" PROVE Cardinality(plan) > MaxChecks
  <2>1. /\ plan = Entries /\ Popped = selected /\ OrderInv /\ PlanInvalid(Entries)
        /\ \A p \in selected : \A q \in DOMAIN doc.deps[p] : doc.deps[p][q] = {} /\ q \in DepsOf(p)
        /\ \A p \in selected : WellFormedPack(doc.checks[p])
        /\ ~PhaseConflict /\ CheckErrors = {}
    BY <1>1, SelectionClean DEF IInv, PlanMade, Clean, Reached
  <2>2. ASSUME NEW a \in Entries, NEW b \in Entries, a.id = b.id PROVE a = b
    <3>1. PICK p \in selected : \E c \in doc.checks[p] : a = PlanEntry(p, c)
      BY EntryOrigin
    <3>2. PICK c \in doc.checks[p] : a = PlanEntry(p, c)
      BY <3>1
    <3>3. PICK q \in selected : \E d \in doc.checks[q] : b = PlanEntry(q, d)
      BY EntryOrigin
    <3>4. PICK d \in doc.checks[q] : b = PlanEntry(q, d)
      BY <3>3
    <3>5. c.id = d.id
      BY <2>2, <3>2, <3>4 DEF PlanEntry
    <3>6. p = q
      BY <2>1, <3>5 DEF CheckErrors
    <3>7. c = d
      BY <2>1, <3>5, <3>6 DEF WellFormedPack
    <3> QED
      BY <3>2, <3>4, <3>6, <3>7
  <2>3. ASSUME NEW a \in Entries, NEW x \in a.dependsOn
        PROVE  \E b \in Entries : b.id = x /\ Precedes(b, a)
    <3>1. PICK p \in selected : \E c \in doc.checks[p] : a = PlanEntry(p, c)
      BY EntryOrigin
    <3>2. PICK c \in doc.checks[p] : a = PlanEntry(p, c)
      BY <3>1
    <3>3. a.dependsOn = UNION {{b.id : b \in doc.checks[q]} : q \in DOMAIN doc.deps[p]}
      BY <3>2 DEF PlanEntry
    <3>4. PICK q \in DOMAIN doc.deps[p] : x \in {b.id : b \in doc.checks[q]}
      BY <3>3, Zenon
    <3>5. PICK d \in doc.checks[q] : x = d.id
      BY <3>4
    <3>6. q \in DepsOf(p) /\ q \in selected
      BY <2>1 DEF DepsOf
    <3>7. ~(d.phase > c.phase)
      BY <2>1, <3>6 DEF PhaseConflict
    <3>8. d.phase \in Nat /\ c.phase \in Nat
      BY <1>1, <3>6, CheckTypes
    <3>9. Position(q) < Position(p)
      BY <2>1, <3>6, DependencyFirst
    <3>10. PlanEntry(q, d) \in Entries
      BY <3>6, EntryOrigin
    <3>11. /\ PlanEntry(q, d).id = x /\ PlanEntry(q, d).phase = d.phase /\ PlanEntry(q, d).pack = q
           /\ a.phase = c.phase /\ a.pack = p
      BY <3>2, <3>5 DEF PlanEntry
    <3>12. Precedes(PlanEntry(q, d), a)
      BY <3>7, <3>8, <3>9, <3>11 DEF Precedes
    <3> QED
      BY <3>10, <3>11, <3>12
  <2>4. ASSUME NEW a \in Entries
        PROVE  a.execution \subseteq Requirement /\ (a.validator = "TARGET" => a.execution # {})
    <3>1. PICK p \in selected : \E c \in doc.checks[p] : a = PlanEntry(p, c)
      BY EntryOrigin
    <3>2. PICK c \in doc.checks[p] : a = PlanEntry(p, c)
      BY <3>1
    <3>3. c.requires \in Requirement
      BY <1>1, CheckTypes
    <3>4. Strict \in Requirement
      BY DEF Strict, Requirement, StrictTasks
    <3>5. /\ a.validator = c.validator
          /\ a.execution = IF c.validator = "TARGET" THEN {IF doc.bounded THEN c.requires ELSE Strict} ELSE {}
      BY <3>2 DEF PlanEntry
    <3> QED
      BY <3>3, <3>4, <3>5
  <2>5. ~OrderViolated(Entries)
    BY <2>3 DEF OrderViolated
  <2> QED
    BY <2>1, <2>2, <2>4, <2>5 DEF PlanInvalid
<1> QED
  BY <1>1, Invariance, PTL DEF ThrownOnlyForSize

\* A compiled plan has all of the profile and all of the kernel, undiminished.
THEOREM KernelUndiminishedAlways == Spec => []KernelUndiminished
<1>1. ASSUME IInv, result = "compiled" PROVE KernelUndiminished
  <2>1. /\ plan = Entries /\ selected = Mandatory \cup DOMAIN doc.selects
        /\ doc.supplied \cap Mandatory = {}
        /\ \A p \in DOMAIN doc.selects : doc.selects[p] = {}
        /\ \A p \in selected : \A q \in DOMAIN doc.deps[p] : doc.deps[p][q] = {} /\ q \in DepsOf(p)
        /\ \A p \in selected : WellFormedPack(doc.checks[p])
        /\ StrengthenErrors = {} /\ doc \in Document
    BY <1>1, SelectionClean DEF IInv, Shape, Clean, Reached
  <2>2. {a.pack : a \in Entries} = selected
    <3>1. ASSUME NEW p \in selected PROVE \E a \in Entries : a.pack = p
      <4>1. PICK c : c \in doc.checks[p]
        BY <2>1 DEF WellFormedPack
      <4>2. PlanEntry(p, c) \in Entries
        BY <4>1, EntryOrigin
      <4>3. PlanEntry(p, c).pack = p
        BY DEF PlanEntry
      <4> QED
        BY <4>2, <4>3
    <3>2. ASSUME NEW a \in Entries PROVE a.pack \in selected
      BY EntryOrigin DEF PlanEntry
    <3> QED
      BY <3>1, <3>2
  <2>3. ASSUME NEW p \in Mandatory, NEW c \in KernelChecks[p]
        PROVE  \E a \in Entries :
                 /\ a.id = c.id /\ a.pack = p /\ a.phase = c.phase /\ a.validator = c.validator
                 /\ c.effect = "BLOCKING" => a.effect = "BLOCKING"
    <3>1. p \in selected /\ c \in doc.checks[p]
      BY <2>1, DocumentAssumption
    <3>2. PlanEntry(p, c) \in Entries
      BY <3>1, EntryOrigin
    <3>3. /\ PlanEntry(p, c).id = c.id /\ PlanEntry(p, c).pack = p
          /\ PlanEntry(p, c).phase = c.phase /\ PlanEntry(p, c).validator = c.validator
          /\ c.effect = "BLOCKING" => PlanEntry(p, c).effect = "BLOCKING"
      BY DEF PlanEntry
    <3> QED
      BY <3>2, <3>3
  <2>4. ASSUME NEW a \in Entries, a.effect = "BLOCKING" PROVE a.consumer = "DISPOSITION_REDUCER"
    <3>1. PICK p \in selected : \E c \in doc.checks[p] : a = PlanEntry(p, c)
      BY EntryOrigin
    <3>2. PICK c \in doc.checks[p] : a = PlanEntry(p, c)
      BY <3>1
    <3>3. a.consumer = c.consumer /\ (c.id \notin doc.strengthen => a.effect = c.effect)
      BY <3>2 DEF PlanEntry
    <3>4. CASE c.id \in doc.strengthen
      <4>1. {"STRENGTHEN_CONFLICT" :
               b \in {e \in AllChecks : e.id \in doc.strengthen /\ e.consumer # "DISPOSITION_REDUCER"}} = {}
        BY <2>1 DEF StrengthenErrors
      <4>2. c \in AllChecks
        BY <1>1, CheckTypes
      <4> QED
        BY <3>3, <3>4, <4>1, <4>2
    <3>5. CASE c.id \notin doc.strengthen
      BY <2>1, <2>4, <3>3, <3>5 DEF WellFormedPack
    <3> QED
      BY <3>4, <3>5
  <2>5. \A p \in DOMAIN doc.selects : \A q \in DOMAIN doc.deps[p] : doc.deps[p][q] = {} /\ q \in selected
    BY <2>1 DEF DepsOf
  <2> QED
    BY <2>1, <2>2, <2>3, <2>4, <2>5 DEF KernelUndiminished
<1> QED
  BY <1>1, Invariance, PTL DEF KernelUndiminished

\* A requirement that is admitted is the strict one or within both ceilings.
LEMMA AdmittedWithin ==
  ASSUME NEW r \in Requirement, Admitted(r), doc.bounded
  PROVE  \/ r = Strict
         \/ /\ doc.contractCeiling.class = "BOUNDED_PROCESS_TREE"
            /\ doc.profileCeiling.class = "BOUNDED_PROCESS_TREE"
            /\ r.maxTasks <= doc.contractCeiling.maxTasks
            /\ r.maxTasks <= doc.profileCeiling.maxTasks
<1>1. r \in [class : {"SINGLE_PROCESS", "BOUNDED_PROCESS_TREE"}, maxTasks : Nat]
  BY DEF Requirement
<1>2. CASE r.class = "SINGLE_PROCESS"
  <2>1. r.maxTasks = StrictTasks
    BY <1>2 DEF Requirement
  <2> QED
    BY <1>1, <1>2, <2>1 DEF Strict
<1>3. CASE r.class = "BOUNDED_PROCESS_TREE"
  BY <1>3 DEF Admitted
<1> QED
  BY <1>1, <1>2, <1>3

\* No plan is compiled without the ceilings it needs, and none to be evaluated
\* without the signature its profile wants.
THEOREM NothingUnauthorizedAlways == Spec => []NothingUnauthorized
<1>1. ASSUME IInv, result = "compiled" PROVE NothingUnauthorized
  <2> DEFINE Within(r) ==
        \/ r = Strict
        \/ /\ doc.contractCeiling.class = "BOUNDED_PROCESS_TREE"
           /\ doc.profileCeiling.class = "BOUNDED_PROCESS_TREE"
           /\ r.maxTasks <= doc.contractCeiling.maxTasks
           /\ r.maxTasks <= doc.profileCeiling.maxTasks
  <2>1. /\ plan = Entries /\ Cleared(doc) /\ CommandErrors = {} /\ doc \in Document
        /\ \A c \in AllChecks : c.validator = "TARGET" => Admitted(c.requires)
    BY <1>1, SelectionClean DEF IInv, Shape, Gates, Clean, PlanMade, Reached
  <2>2. doc.caller = "evaluate" /\ doc.mode = "SIGNED" => doc.signature = "trusted"
    BY <2>1 DEF Cleared, Authorized
  <2>3. ASSUME NEW a \in Entries, NEW r \in a.execution PROVE Within(r)
    <3>1. PICK p \in selected : \E c \in doc.checks[p] : a = PlanEntry(p, c)
      BY EntryOrigin
    <3>2. PICK c \in doc.checks[p] : a = PlanEntry(p, c)
      BY <3>1
    <3>3. c.validator = "TARGET" /\ r = IF doc.bounded THEN c.requires ELSE Strict
      BY <2>3, <3>2 DEF PlanEntry
    <3>4. c.requires \in Requirement /\ c \in AllChecks
      BY <1>1, CheckTypes
    <3> QED
      BY <2>1, <3>3, <3>4, AdmittedWithin
  <2>4. ASSUME doc.bounded, NEW r \in doc.commands PROVE Within(r)
    <3>1. r \in Requirement
      BY <2>1, DocumentAssumption
    <3>2. Admitted(r)
      BY <2>1 DEF CommandErrors
    <3> QED
      BY <2>4, <3>1, <3>2, AdmittedWithin
  <2>5. ASSUME NEW r \in (UNION {a.execution : a \in plan}) \cup (IF doc.bounded THEN doc.commands ELSE {})
        PROVE  Within(r)
    <3> HIDE DEF Within
    <3>1. (\E a \in Entries : r \in a.execution) \/ (doc.bounded /\ r \in doc.commands)
      BY <2>1
    <3> QED
      BY <2>3, <2>4, <3>1
  <2> QED
    BY <2>2, <2>5 DEF NothingUnauthorized
<1> QED
  BY <1>1, Invariance, PTL DEF NothingUnauthorized
=============================================================================
