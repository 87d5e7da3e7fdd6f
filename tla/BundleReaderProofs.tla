--------------------------- MODULE BundleReaderProofs ---------------------------
(***************************************************************************)
(* Theorems about module BundleReader, for every set of publishers and     *)
(* every set of readers: what readers without a lock may rely on, and that *)
(* the publishers' guarantees survive their presence.                      *)
(***************************************************************************)
EXTENDS BundleReader, PublicationProofs

-----------------------------------------------------------------------------
(***************************************************************************)
(* A step of the composition is a step of a publisher alone, a step of a   *)
(* reader that leaves the publishers' state alone, or the hand-over of a   *)
(* projection, which ends the run of the evaluate process waiting for it.  *)
(***************************************************************************)
LEMMA StepKinds ==
  ASSUME [ReadersNext]_allVars
  PROVE  \/ [Next]_vars /\ UNCHANGED readerVars
         \/ UNCHANGED vars /\ \E r \in Reader :
              \/ StartReader(r) \/ Resolve(r) \/ ReadDocuments(r)
              \/ VerifyEvidence(r) \/ ReadObject(r) \/ AssertStable(r)
         \/ \E r \in Reader, p \in Proc : Project(r, p)
<1>1. CASE UNCHANGED allVars
  BY <1>1 DEF allVars
<1>2. ASSUME NEW p \in Proc, PublisherStep(p)
      PROVE  [Next]_vars /\ UNCHANGED readerVars
  BY <1>2 DEF PublisherStep, Next
<1>3. ASSUME NEW r \in Reader, ReaderStep(r), ~\E p \in Proc : Project(r, p)
      PROVE  /\ UNCHANGED vars
             /\ \/ StartReader(r) \/ Resolve(r) \/ ReadDocuments(r)
                \/ VerifyEvidence(r) \/ ReadObject(r) \/ AssertStable(r)
  BY <1>3 DEF ReaderStep, StartReader, Resolve, ReadDocuments, VerifyEvidence, ReadObject,
              AssertStable, ContinueIf
<1> QED
  BY <1>1, <1>2, <1>3 DEF ReadersNext, ReaderStep

\* What a hand-over changes: the waiting process is done, and it may have printed
\* the version its reader verified.
LEMMA ProjectEffect ==
  ASSUME TypeInv, NEW r \in Reader, NEW p \in Proc, Project(r, p)
  PROVE  /\ pc[p] = "emit" /\ Goto(p, "done")
         /\ UNCHANGED <<attempt, lock, observed, misreclaim, dirs, files, verdict, pending,
                        current, todo, worker, late, mode, spawner, target, identity, view>>
         /\ rpc' = [rpc EXCEPT ![r] = "done"]
         /\ outcome' \in [Proc -> {"none", "ok"} \cup Failure]
         /\ \A q \in Proc \ {p} : outcome'[q] = outcome[q]
         /\ \/ UNCHANGED emitted
            \/ view[r] = "verified" /\ emitted' = [emitted EXCEPT ![p] = target[r]]
<1>1. /\ pc[p] = "emit" /\ Goto(p, "done")
      /\ UNCHANGED <<attempt, lock, observed, misreclaim, dirs, files, verdict, pending,
                     current, todo, worker, late, mode, spawner, target, identity, view>>
      /\ rpc' = [rpc EXCEPT ![r] = "done"]
  BY DEF Project, Advance, diskVars
<1>2. outcome' = outcome \/ \E o \in Failure : outcome' = [outcome EXCEPT ![p] = o]
  BY DEF Project, Decide, Failure, TypeInv, TypeOK
<1>3. \/ UNCHANGED emitted
      \/ view[r] = "verified" /\ emitted' = [emitted EXCEPT ![p] = target[r]]
  BY DEF Project, TypeInv, TypeOK
<1> QED
  BY <1>1, <1>2, <1>3 DEF TypeInv, TypeOK

-----------------------------------------------------------------------------
(***************************************************************************)
(* What a reader knows of the version it has resolved: it was verified     *)
(* when `current` led to it, so nobody writes it any more, and whatever it *)
(* still holds it held when its identity was taken.                        *)
(***************************************************************************)
Knows(r) ==
  /\ target[r] # None => Settled(target[r]) /\ StatIdentity(target[r]) \subseteq identity[r]
  /\ rpc[r] \in {"read", "verify", "stable", "object", "restable"} => target[r] # None
  /\ rpc[r] \in {"verify", "stable", "object", "restable"} => Documents \subseteq identity[r]
  /\ view[r] = "verified" => target[r] # None

ReaderKnows == \A r \in Reader : Knows(r)

ReadersInv == VerifiedInv /\ ReaderTypeOK /\ ReaderKnows

\* A hand-over keeps the publishers' types and prints only what was verified.
LEMMA ProjectKeepsVerified ==
  ASSUME ReadersInv, NEW r \in Reader, NEW p \in Proc, Project(r, p)
  PROVE  VerifiedInv'
<1>1. TypeInv /\ NotSpawned /\ Verified /\ ReaderTypeOK
  BY DEF ReadersInv, VerifiedInv
<1>2. /\ pc[p] = "emit" /\ Goto(p, "done")
      /\ UNCHANGED <<attempt, lock, observed, misreclaim, dirs, files, verdict, pending,
                     current, todo, worker, late>>
      /\ outcome' \in [Proc -> {"none", "ok"} \cup Failure]
      /\ \A q \in Proc \ {p} : outcome'[q] = outcome[q]
      /\ \/ UNCHANGED emitted
         \/ view[r] = "verified" /\ emitted' = [emitted EXCEPT ![p] = target[r]]
  BY <1>1, ProjectEffect
<1>3. TypeOK'
  <2>1. pc' \in [Proc -> Location]
    BY <1>1, <1>2 DEF Goto, Location, Terminal, TypeInv, TypeOK
  <2>2. emitted' \in [Proc -> Proc \cup {None}]
    BY <1>1, <1>2 DEF ReaderTypeOK, TypeInv, TypeOK
  <2>3. \A q \in Proc : pc'[q] = "reclaim" => observed'[q] \in Proc \ {q}
    BY <1>1, <1>2 DEF Goto, TypeInv, TypeOK
  <2> QED
    BY <1>1, <1>2, <2>1, <2>2, <2>3 DEF TypeInv, TypeOK
<1>4. AttemptsLeft'
  BY <1>1, <1>2 DEF TypeInv, TypeOK, AttemptsLeft, Goto
<1>5. NotSpawned'
  BY <1>1, <1>2 DEF NotSpawned, Goto, TypeInv, TypeOK
<1>6. Verified'
  <2>1. view[r] = "verified" => target[r] # None /\ Settled(target[r])
    BY DEF ReadersInv, ReaderKnows, Knows
  <2> QED
    BY <1>1, <1>2, <2>1 DEF Verified, Settled, Goto, TypeInv, TypeOK
<1> QED
  BY <1>3, <1>4, <1>5, <1>6 DEF VerifiedInv, TypeInv

\* What a reader knows stays true while publishers, workers and purges go on.
LEMMA KnowledgeKept ==
  ASSUME ReadersInv, [Next]_vars, UNCHANGED readerVars, NEW r \in Reader
  PROVE  Knows(r)'
<1> USE DEF ReadersInv
<1>1. Knows(r)
  BY DEF ReaderKnows
<1>2. ASSUME target[r] # None
      PROVE  /\ verdict'[target[r]] = "sound" /\ worker'[target[r]] = "exited"
             /\ files'[target[r]] \subseteq files[target[r]]
  <2>1. target[r] \in Proc /\ Settled(target[r])
    BY <1>1, <1>2 DEF Knows, ReaderTypeOK
  <2> QED
    BY <2>1, SettledStays, SettledShrinks
<1> QED
  BY <1>1, <1>2 DEF Knows, Settled, StatIdentity, readerVars

\* A reader's own step: it resolves a verified version, and goes on only with
\* the documents it found.
LEMMA KnowledgeGained ==
  ASSUME ReadersInv, UNCHANGED vars, NEW a \in Reader,
         \/ StartReader(a) \/ Resolve(a) \/ ReadDocuments(a)
         \/ VerifyEvidence(a) \/ ReadObject(a) \/ AssertStable(a)
  PROVE  ReaderTypeOK' /\ ReaderKnows'
<1> USE DEF ReadersInv, ReaderTypeOK, ReaderKnows, Knows, Settled, StatIdentity, Advance,
            Conclude, vars
<1>1. CASE StartReader(a)
  BY <1>1 DEF StartReader
<1>2. CASE Resolve(a)
  <2>1. current # None => current \in Proc /\ Settled(current) /\ files[current] \subseteq File
    BY DEF VerifiedInv, Verified, TypeInv, TypeOK
  <2>2. ReaderTypeOK'
    BY <1>2, <2>1 DEF Resolve
  <2>3. ReaderKnows'
    BY <1>2, <2>1 DEF Resolve
  <2> QED
    BY <2>2, <2>3
<1>3. CASE ReadDocuments(a)
  BY <1>3 DEF ReadDocuments, ContinueIf, Documents
<1>4. CASE VerifyEvidence(a) \/ ReadObject(a)
  BY <1>4 DEF VerifyEvidence, ReadObject, ContinueIf
<1>5. CASE AssertStable(a)
  BY <1>5 DEF AssertStable
<1> QED
  BY <1>1, <1>2, <1>3, <1>4, <1>5

LEMMA ReadersInvInductive == ReadersInv /\ [ReadersNext]_allVars => ReadersInv'
<1> SUFFICES ASSUME ReadersInv, [ReadersNext]_allVars
             PROVE  ReadersInv'
  OBVIOUS
<1>1. ASSUME [Next]_vars, UNCHANGED readerVars
      PROVE  ReadersInv'
  <2>1. TypeInv'
    BY <1>1, TypeInvInductive DEF ReadersInv, VerifiedInv
  <2>2. VerifiedInv'
    BY <1>1, <2>1, VerifiedInductive DEF ReadersInv
  <2>3. ReaderTypeOK'
    BY <1>1 DEF ReadersInv, ReaderTypeOK, readerVars
  <2>4. ReaderKnows'
    BY <1>1, KnowledgeKept DEF ReaderKnows, readerVars
  <2> QED
    BY <2>2, <2>3, <2>4 DEF ReadersInv
<1>2. ASSUME UNCHANGED vars, NEW r \in Reader,
             \/ StartReader(r) \/ Resolve(r) \/ ReadDocuments(r)
             \/ VerifyEvidence(r) \/ ReadObject(r) \/ AssertStable(r)
      PROVE  ReadersInv'
  <2>1. VerifiedInv'
    BY <1>2 DEF ReadersInv, VerifiedInv, TypeInv, TypeOK, AttemptsLeft, NotSpawned, Verified,
                Settled, vars
  <2> QED
    BY <1>2, <2>1, KnowledgeGained DEF ReadersInv
<1>3. ASSUME NEW r \in Reader, NEW p \in Proc, Project(r, p)
      PROVE  ReadersInv'
  <2>1. TypeInv
    BY DEF ReadersInv, VerifiedInv
  <2>2. ReaderTypeOK' /\ ReaderKnows'
    BY <1>3, <2>1, ProjectEffect DEF ReadersInv, ReaderTypeOK, ReaderKnows, Knows, Settled,
       StatIdentity
  <2> QED
    BY <1>3, <2>2, ProjectKeepsVerified DEF ReadersInv
<1> QED
  BY <1>1, <1>2, <1>3, StepKinds

\* Every reachable state of supervisors and readers satisfies the invariant of the readers.
THEOREM ReadersInvAlways == ReadersSpec => []ReadersInv
<1>1. ReadersInit => ReadersInv
  <2> SUFFICES ASSUME ReadersInit
               PROVE  ReadersInv
    OBVIOUS
  <2>1. VerifiedInv
    BY InitVerified DEF ReadersInit
  <2>2. ReaderTypeOK /\ ReaderKnows
    BY DEF ReadersInit, ReaderInit, ReaderTypeOK, ReaderKnows, Knows
  <2> QED
    BY <2>1, <2>2 DEF ReadersInv
<1> QED
  BY <1>1, ReadersInvInductive, PTL DEF ReadersSpec

\* Every variable of readers and publishers keeps its type while they run
\* together.
THEOREM ReaderTypes == ReadersSpec => [](TypeOK /\ ReaderTypeOK)
<1>1. ReadersInv => TypeOK /\ ReaderTypeOK
  BY DEF ReadersInv, VerifiedInv, TypeInv
<1> QED
  BY <1>1, ReadersInvAlways, PTL

\* A reader takes no lock, and still reports VERIFIED only for a version that
\* some supervisor has verified.
THEOREM ReadersSeeVerified == ReadersSpec => []VerifiedWasPublished
<1>1. ReadersInv => VerifiedWasPublished
  BY DEF ReadersInv, ReaderKnows, Knows, Settled, VerifiedWasPublished
<1> QED
  BY <1>1, ReadersInvAlways, PTL

\* At the instant a reader reports VERIFIED, `current` still leads to the version
\* it read, and every document it read is still in place.
THEOREM ReadersSeeCurrent == ReadersSpec => VerifiedIsCurrent
<1> DEFINE StillCurrent ==
      \A r \in Reader :
        view'[r] = "verified" /\ view[r] # "verified" =>
          current = target[r] /\ Documents \subseteq files[target[r]]
<1>1. ReadersInv /\ [ReadersNext]_allVars => StillCurrent
  <2> SUFFICES ASSUME ReadersInv, [ReadersNext]_allVars, NEW r \in Reader,
                      view'[r] = "verified", view[r] # "verified"
               PROVE  current = target[r] /\ Documents \subseteq files[target[r]]
    OBVIOUS
  <2>1. ASSUME NEW a \in Reader, NEW p \in Proc, Project(a, p)
        PROVE  FALSE
    BY <2>1, ProjectEffect DEF ReadersInv, VerifiedInv
  <2>2. ~UNCHANGED readerVars
    BY DEF readerVars
  <2>3. PICK a \in Reader : \/ StartReader(a) \/ Resolve(a) \/ ReadDocuments(a)
                            \/ VerifyEvidence(a) \/ ReadObject(a) \/ AssertStable(a)
    BY <2>1, <2>2, StepKinds
  <2>4. AssertStable(a) /\ PublicationStable(a) /\ a = r
    BY <2>3 DEF ReadersInv, ReaderTypeOK, StartReader, Resolve, ReadDocuments, VerifyEvidence,
                ReadObject, AssertStable, ContinueIf, Conclude
  <2>5. Documents \subseteq identity[r]
    BY <2>4 DEF ReadersInv, ReaderKnows, Knows, AssertStable
  <2> QED
    BY <2>4, <2>5 DEF PublicationStable, StatIdentity
<1> QED
  BY <1>1, ReadersInvAlways, PTL DEF ReadersSpec, VerifiedIsCurrent

\* With readers and projections running, the CLI still prints only receipts that
\* a supervisor has verified.
THEOREM ReadersEmitVerified == ReadersSpec => []EmitsOnlyVerified
<1>1. ReadersInv => EmitsOnlyVerified
  BY DEF ReadersInv, VerifiedInv, Verified, Settled, EmitsOnlyVerified
<1> QED
  BY <1>1, ReadersInvAlways, PTL

-----------------------------------------------------------------------------
(***************************************************************************)
(* The publishers' guarantees in the presence of readers.  A hand-over     *)
(* happens after its process has given up the lock, so nothing that is     *)
(* said of the processes in the critical section is disturbed.             *)
(***************************************************************************)
GuardedInv == LockInv /\ VerifiedInv /\ Intact
SlotInv == EmptySlot /\ WorkersOwned /\ OkIsLast /\ Cleared

\* Whoever hands a projection over was, and stays, outside the critical section.
LEMMA ProjectOutside ==
  ASSUME TypeInv, NEW r \in Reader, NEW p \in Proc, Project(r, p)
  PROVE  /\ UNCHANGED <<attempt, lock, observed, misreclaim, dirs, files, verdict, pending,
                        current, todo, worker, late>>
         /\ pc[p] = "emit" /\ pc'[p] = "done"
         /\ \A q \in Proc \ {p} : pc'[q] = pc[q] /\ outcome'[q] = outcome[q]
         /\ \A q \in Proc : pc[q] \in Gone => pc'[q] \in Gone
BY ProjectEffect DEF Goto, TypeInv, TypeOK, Gone

LEMMA ProjectKeepsGuarded ==
  ASSUME LockInv, Intact, TypeInv', NEW r \in Reader, NEW p \in Proc, Project(r, p)
  PROVE  LockInv' /\ Intact'
<1>1. TypeInv
  BY DEF LockInv
<1>2. UNCHANGED <<lock, observed, misreclaim>> /\ pc[p] = "emit" /\ Goto(p, "done")
  BY <1>1, ProjectEffect
<1>3. LockInv'
  BY <1>2, OtherSteps DEF Gone, Critical
<1>4. Intact'
  BY <1>1, ProjectOutside DEF Intact
<1> QED
  BY <1>3, <1>4

LEMMA ProjectKeepsSlot ==
  ASSUME TypeInv, SlotInv, NEW r \in Reader, NEW p \in Proc, Project(r, p)
  PROVE  SlotInv'
<1>1. EmptySlot' /\ WorkersOwned'
  BY ProjectOutside DEF SlotInv, EmptySlot, WorkersOwned, Gone
<1>2. OkIsLast'
  BY ProjectOutside DEF SlotInv, OkIsLast, Critical
<1>3. ASSUME NEW q \in Proc, ClearedFor(q)
      PROVE  ClearedFor(q)'
  <2>1. CASE q = p
    BY <2>1, ProjectOutside DEF ClearedFor
  <2>2. CASE q # p
    <3>1. /\ pc'[q] = pc[q] /\ outcome'[q] = outcome[q]
          /\ UNCHANGED <<dirs, files, pending, current, todo>>
          /\ \A v \in dirs : pc[v] \in Gone => pc'[v] \in Gone
      BY <2>2, ProjectOutside DEF TypeInv, TypeOK
    <3>2. Listed(q) => Listed(q)'
      BY <3>1 DEF Listed
    <3>3. HoldsTheSlot(q) => HoldsTheSlot(q)'
      BY <3>1 DEF HoldsTheSlot
    <3>4. OrphansBut({}) => OrphansBut({})'
      BY <3>1 DEF OrphansBut
    <3>5. OrphansBut({q}) => OrphansBut({q})'
      BY <3>1 DEF OrphansBut
    <3> QED
      BY <1>3, <3>1, <3>2, <3>3, <3>4, <3>5 DEF ClearedFor
  <2> QED
    BY <2>1, <2>2
<1>4. Cleared'
  BY <1>3, ProjectOutside DEF SlotInv, Cleared
<1> QED
  BY <1>1, <1>2, <1>4 DEF SlotInv

LEMMA StutterKeepsAll ==
  ASSUME UNCHANGED vars
  PROVE  /\ GuardedInv => GuardedInv'
         /\ SlotInv => SlotInv'
<1>1. GuardedInv => GuardedInv'
  BY DEF vars, GuardedInv, LockInv, TypeInv, TypeOK, AttemptsLeft, ReclaimsTheDead,
         HoldersOwnTheLock, VerifiedInv, NotSpawned, Verified, Settled, Intact
<1>2. SlotInv => SlotInv'
  BY DEF vars, SlotInv, EmptySlot, WorkersOwned, OkIsLast, Cleared, ClearedFor, Listed,
         OrphansBut, HoldsTheSlot
<1> QED
  BY <1>1, <1>2

LEMMA GuardedInductive ==
  ReadersInv /\ ReadersInv' /\ GuardedInv /\ [ReadersNext]_allVars => GuardedInv'
<1> SUFFICES ASSUME ReadersInv', GuardedInv, [ReadersNext]_allVars
             PROVE  GuardedInv'
  OBVIOUS
<1>1. TypeInv' /\ VerifiedInv'
  BY DEF ReadersInv, VerifiedInv
<1>2. CASE [Next]_vars
  BY <1>1, <1>2, LockInvInductive, IntactInductive DEF GuardedInv
<1>3. CASE UNCHANGED vars
  BY <1>3, StutterKeepsAll
<1>4. CASE \E r \in Reader, p \in Proc : Project(r, p)
  BY <1>1, <1>4, ProjectKeepsGuarded DEF GuardedInv
<1> QED
  BY <1>2, <1>3, <1>4, StepKinds

LEMMA SlotInductive ==
  ASSUME Unlistable = {}
  PROVE  ReadersInv' /\ GuardedInv /\ SlotInv /\ [ReadersNext]_allVars => SlotInv'
<1> SUFFICES ASSUME ReadersInv', GuardedInv, SlotInv, [ReadersNext]_allVars
             PROVE  SlotInv'
  OBVIOUS
<1>1. TypeInv' /\ TypeInv
  BY DEF ReadersInv, GuardedInv, VerifiedInv
<1>2. CASE [Next]_vars
  BY <1>1, <1>2, EmptySlotInductive, WorkersOwnedInductive, OkIsLastInductive, ClearedInductive
     DEF GuardedInv, SlotInv
<1>3. CASE UNCHANGED vars
  BY <1>3, StutterKeepsAll
<1>4. CASE \E r \in Reader, p \in Proc : Project(r, p)
  BY <1>1, <1>4, ProjectKeepsSlot
<1> QED
  BY <1>2, <1>3, <1>4, StepKinds

\* Next to readers the invariants of the lock and of the verdicts still hold.
THEOREM GuardedAlways == ReadersSpec => []GuardedInv
<1>1. ReadersInit => GuardedInv
  BY InitVerified DEF ReadersInit, Init, GuardedInv, VerifiedInv, LockInv, ReclaimsTheDead,
     HoldersOwnTheLock, Critical, Intact
<1> QED
  BY <1>1, GuardedInductive, ReadersInvAlways, PTL DEF ReadersSpec

\* Next to readers a run still stages, evaluates and publishes over an empty slot.
THEOREM SlotAlways ==
  ASSUME Unlistable = {}
  PROVE  ReadersSpec => []SlotInv
<1>1. ReadersInit => SlotInv
  BY DEF ReadersInit, Init, SlotInv, EmptySlot, WorkersOwned, OkIsLast, Cleared, ClearedFor,
         WorkerRunning, Bundle, Critical
<1> QED
  BY <1>1, SlotInductive, GuardedAlways, ReadersInvAlways, PTL DEF ReadersSpec

\* Readers do not break the serialization of publication.
THEOREM ReadersExclusion == ReadersSpec => []ExclusiveUnlessMisreclaimed
<1>1. GuardedInv => ExclusiveUnlessMisreclaimed
  BY LockInvExcludes DEF GuardedInv
<1> QED
  BY <1>1, GuardedAlways, PTL

\* While no lock has been misreclaimed, nothing but the lock holder's purge or
\* abort changes the published version under a reader: a document that is there
\* is the one that was verified.
THEOREM ReadersPublishedStable == ReadersSpec => PublishedVersionStable
<1> DEFINE Stable ==
      current # None /\ ~misreclaim =>
        \/ files'[current] = files[current]
        \/ /\ lock # None
           /\ pc[lock] \in Removing
           /\ files'[current] \subseteq files[current]
<1>1. GuardedInv /\ [ReadersNext]_allVars => [Stable]_vars
  <2> SUFFICES ASSUME GuardedInv, [ReadersNext]_allVars
               PROVE  Stable \/ UNCHANGED vars
    OBVIOUS
  <2>1. CASE [Next]_vars
    BY <2>1, PublishedStep DEF GuardedInv
  <2>2. CASE \E r \in Reader, p \in Proc : Project(r, p)
    BY <2>2, ProjectOutside DEF GuardedInv, VerifiedInv
  <2> QED
    BY <2>1, <2>2, StepKinds
<1> QED
  BY <1>1, GuardedAlways, PTL DEF ReadersSpec, PublishedVersionStable

\* While no lock has been misreclaimed, what a run leaves behind when it reports
\* success or failure does not depend on who reads meanwhile.
THEOREM ReadersOutcome ==
  ASSUME Unlistable = {}
  PROVE  ReadersSpec => [](SuccessIsPublished /\ FailureLeavesNothing)
<1>1. SlotInv => SuccessIsPublished /\ FailureLeavesNothing
  BY DEF SlotInv, Cleared, ClearedFor, SuccessIsPublished, FailureLeavesNothing, HoldsTheSlot,
         OrphansBut
<1> QED
  BY <1>1, SlotAlways, PTL

\* With readers and projections running, publication still implements turn-taking
\* as long as no lock is misreclaimed.
THEOREM ReadersRefinement ==
  ASSUME Unlistable = {}
  PROVE  ReadersSpec /\ []~misreclaim => ImplementsSerialized
<1>1. ReadersInit => Serialized!Init
  BY DEF ReadersInit, Init, Serialized!Init
<1>2. GuardedInv /\ SlotInv /\ ~misreclaim /\ [ReadersNext]_allVars =>
        [Serialized!Next]_(Serialized!svars)
  <2> SUFFICES ASSUME GuardedInv, SlotInv, ~misreclaim, [ReadersNext]_allVars
               PROVE  [Serialized!Next]_<<lock, current>>
    BY DEF Serialized!svars
  <2>1. CASE [Next]_vars
    BY <2>1, StepSerialized DEF GuardedInv, SlotInv
  <2>2. CASE UNCHANGED vars
    BY <2>2 DEF vars
  <2>3. CASE \E r \in Reader, p \in Proc : Project(r, p)
    BY <2>3, ProjectOutside DEF GuardedInv, VerifiedInv
  <2> QED
    BY <2>1, <2>2, <2>3, StepKinds
<1> QED
  BY <1>1, <1>2, GuardedAlways, SlotAlways, PTL
     DEF ReadersSpec, ImplementsSerialized, Serialized!Spec
=================================================================================
