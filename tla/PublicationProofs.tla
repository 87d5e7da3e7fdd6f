--------------------------- MODULE PublicationProofs ---------------------------
(***************************************************************************)
(* Theorems about module Publication, for every set of processes and every *)
(* set of processes that may crash.                                        *)
(***************************************************************************)
EXTENDS Publication, TLAPS

-----------------------------------------------------------------------------
(***************************************************************************)
(* Types.  The loop bound of acquireOutputLock makes them inductive.       *)
(***************************************************************************)
AttemptsLeft ==
  \A p \in Proc : pc[p] \in {"acquire", "inspect", "reclaim"} => attempt[p] < MaxAttempts

TypeInv == TypeOK /\ AttemptsLeft

\* The worker's write order leads from one of its locations to another.
LEMMA WriteNextType == \A f \in Bundle : WriteNext[f] \in WorkerRunning
BY DEF Bundle, WriteNext, WorkerRunning

\* A supervisor step keeps the types: every operation of evaluateSupervised,
\* of acquireOutputLock and of purgeVersions.
LEMMA SupervisorTypes ==
  ASSUME TypeInv, NEW p \in Proc, Supervisor(p)
  PROVE  TypeInv'
<1> USE ProcAssumption DEF TypeInv, TypeOK, AttemptsLeft, MaxAttempts, Location, Critical,
                           Terminal, Gone, Failure, WorkerRunning, Goto, Decide, diskVars
<1>1. CASE TakeLock(p)
  BY <1>1 DEF TakeLock
<1>2. CASE LockExists(p)
  BY <1>2 DEF LockExists
<1>3. CASE OwnerIsLive(p)
  BY <1>3 DEF OwnerIsLive, Busy
<1>4. CASE OwnerIsDead(p)
  BY <1>4 DEF OwnerIsDead, LockIsStale, ProcessIsAlive
<1>5. CASE ReclaimLock(p)
  BY <1>5 DEF ReclaimLock, Busy
<1>6. CASE ReclaimFails(p)
  BY <1>6 DEF ReclaimFails, Busy
<1>7. CASE ListVersions(p)
  <2>1. Existing \subseteq Entry
    BY DEF Existing, Entry, VersionEntry, PendingEntry, CurrentEntry
  <2> QED
    BY <1>7, <2>1 DEF ListVersions, Listing
<1>8. CASE PurgeFile(p)
  BY <1>8 DEF PurgeFile, RemoveFile
<1>9. CASE PurgeEntry(p)
  BY <1>9 DEF PurgeEntry
<1>10. CASE PurgeDone(p)
  BY <1>10 DEF PurgeDone
<1>11. CASE Stage(p)
  BY <1>11 DEF Stage, AbortWith, File
<1>12. CASE KillWorker(p)
  BY <1>12 DEF KillWorker, AbortWith
<1>13. CASE RejectBundle(p)
  BY <1>13 DEF RejectBundle, AbortWith, Rejection
<1>14. CASE AcceptBundle(p)
  BY <1>14 DEF AcceptBundle, AbortWith
<1>15. CASE CreatePending(p)
  BY <1>15 DEF CreatePending
<1>16. CASE FlipCurrent(p)
  BY <1>16 DEF FlipCurrent
<1>17. CASE PublishFails(p)
  BY <1>17 DEF PublishFails, AbortWith
<1>18. CASE Confirm(p)
  BY <1>18 DEF Confirm, AbortWith
<1>19. CASE AbortFile(p)
  BY <1>19 DEF AbortFile, RemoveFile
<1>20. CASE AbortVersion(p)
  BY <1>20 DEF AbortVersion
<1>21. CASE Release(p)
  BY <1>21 DEF Release
<1>22. CASE Emit(p)
  BY <1>22 DEF Emit
<1> QED
  BY <1>1, <1>2, <1>3, <1>4, <1>5, <1>6, <1>7, <1>8, <1>9, <1>10, <1>11, <1>12, <1>13,
     <1>14, <1>15, <1>16, <1>17, <1>18, <1>19, <1>20, <1>21, <1>22 DEF Supervisor

\* A worker step and an environment step keep the types.
LEMMA WorkerTypes ==
  ASSUME TypeInv, NEW p \in Proc, Worker(p)
  PROVE  TypeInv'
<1> USE DEF TypeInv, TypeOK, AttemptsLeft, WorkerGoto, procVars
<1>1. UNCHANGED <<pc, attempt, observed, todo, late, outcome, emitted, lock, misreclaim,
                  pending, current>>
  BY DEF Worker
<1>2. /\ dirs' \subseteq Proc
      /\ files' \in [Proc -> SUBSET File]
      /\ verdict' \in [Proc -> {"none", "refused", "sound", "unsound"}]
      /\ worker' \in [Proc -> {"none", "exited", "failed"} \cup WorkerRunning]
  <2> USE DEF WorkerRunning, Bundle, File, WriteSummary
  <2>1. CASE WorkerAdmitted(p)
    BY <2>1 DEF WorkerAdmitted
  <2>2. CASE WorkerRefuses(p)
    BY <2>2 DEF WorkerRefuses
  <2>3. CASE WorkerReadsContract(p)
    BY <2>3 DEF WorkerReadsContract
  <2>4. CASE WorkerEvaluates(p)
    BY <2>4 DEF WorkerEvaluates
  <2>5. CASE WorkerWrites(p)
    BY <2>5, WriteNextType DEF WorkerWrites
  <2>6. CASE WorkerSeals(p)
    BY <2>6 DEF WorkerSeals
  <2>7. CASE WorkerDies(p)
    BY <2>7 DEF WorkerDies
  <2> QED
    BY <1>1, <2>1, <2>2, <2>3, <2>4, <2>5, <2>6, <2>7 DEF Worker
<1> QED
  BY <1>1, <1>2

LEMMA EnvironmentTypes ==
  ASSUME TypeInv, NEW p \in Proc, Environment(p)
  PROVE  TypeInv'
<1> USE DEF TypeInv, TypeOK, AttemptsLeft, Location, Critical, Terminal, Gone, Failure,
            Goto, Decide, diskVars
<1>1. CASE DeadlinePasses(p)
  BY <1>1 DEF DeadlinePasses
<1>2. CASE Crash(p)
  BY <1>2 DEF Crash
<1>3. CASE RecyclePid(p)
  BY <1>3 DEF RecyclePid
<1>4. CASE LockFails(p) \/ FileSystemError(p)
  BY <1>4 DEF FileSystemError, LockFails
<1> QED
  BY <1>1, <1>2, <1>3, <1>4 DEF Environment

LEMMA InitTyped == Init => TypeInv
<1> SUFFICES ASSUME Init
             PROVE  TypeInv
  OBVIOUS
<1>1. pc \in [Proc -> Location] /\ attempt \in [Proc -> 0 .. MaxAttempts] /\ AttemptsLeft
  BY DEF Init, Location, MaxAttempts, AttemptsLeft
<1>2. /\ lock \in Proc \cup {None}
      /\ observed \in [Proc -> Proc \cup {None}]
      /\ \A p \in Proc : pc[p] = "reclaim" => observed[p] \in Proc \ {p}
      /\ misreclaim \in BOOLEAN
      /\ dirs \subseteq Proc
  BY DEF Init
<1>3. files \in [Proc -> SUBSET File] /\ todo \in [Proc -> SUBSET Entry]
  BY DEF Init
<1>4. /\ verdict \in [Proc -> {"none", "refused", "sound", "unsound"}]
      /\ pending \subseteq Proc
      /\ current \in Proc \cup {None}
      /\ worker \in [Proc -> {"none", "exited", "failed"} \cup WorkerRunning]
  BY DEF Init
<1>5. /\ late \subseteq Proc
      /\ outcome \in [Proc -> {"none", "ok"} \cup Failure]
      /\ emitted \in [Proc -> Proc \cup {None}]
  BY DEF Init
<1> QED
  BY <1>1, <1>2, <1>3, <1>4, <1>5 DEF TypeInv, TypeOK

LEMMA TypeInvInductive == TypeInv /\ [Next]_vars => TypeInv'
<1> SUFFICES ASSUME TypeInv, [Next]_vars
             PROVE  TypeInv'
  OBVIOUS
<1>1. CASE UNCHANGED vars
  BY <1>1 DEF vars, TypeInv, TypeOK, AttemptsLeft
<1>2. CASE Next
  BY <1>2, SupervisorTypes, WorkerTypes, EnvironmentTypes DEF Next
<1> QED
  BY <1>1, <1>2

\* Every reachable state is well typed and no process has used up the turns of
\* the lock loop while it is still in it.
THEOREM Typing == Spec => []TypeInv
<1> QED
  BY InitTyped, TypeInvInductive, PTL DEF Spec

\* The variables keep their types in every reachable state, for any number of
\* processes.
THEOREM TypeCorrectness == Spec => []TypeOK
<1> QED
  BY Typing, PTL DEF TypeInv

-----------------------------------------------------------------------------
(***************************************************************************)
(* Mutual exclusion.  While no reclaim has taken a foreign lock, whoever   *)
(* is between acquiring and releasing owns the lock's payload; and a       *)
(* process about to reclaim has read the payload of a process that is gone.*)
(***************************************************************************)
ReclaimsTheDead ==
  \A p \in Proc : pc[p] = "reclaim" => observed[p] \in Proc /\ pc[observed[p]] \in Gone

HoldersOwnTheLock ==
  ~misreclaim => \A p \in Proc : pc[p] \in Critical => lock = p

LockInv == TypeInv /\ ReclaimsTheDead /\ HoldersOwnTheLock

\* LockInv implies the checked property.
LEMMA LockInvExcludes == LockInv => ExclusiveUnlessMisreclaimed
BY DEF LockInv, HoldersOwnTheLock, ExclusiveUnlessMisreclaimed, LockGuardsDirectory

\* The steps of acquireOutputLock and release, which change the lock.
LEMMA LockSteps ==
  ASSUME LockInv, TypeInv', NEW p \in Proc,
         \/ TakeLock(p) \/ LockExists(p) \/ OwnerIsLive(p) \/ OwnerIsDead(p)
         \/ ReclaimLock(p) \/ ReclaimFails(p) \/ Release(p)
  PROVE  LockInv'
<1> USE ProcAssumption DEF LockInv, TypeInv, TypeOK, ReclaimsTheDead, HoldersOwnTheLock,
                           Critical, Gone, Goto, Decide
<1>1. CASE TakeLock(p)
  BY <1>1 DEF TakeLock
<1>2. CASE LockExists(p)
  BY <1>2 DEF LockExists
<1>3. CASE OwnerIsLive(p)
  BY <1>3 DEF OwnerIsLive, Busy
<1>4. CASE OwnerIsDead(p)
  BY <1>4 DEF OwnerIsDead, LockIsStale, ProcessIsAlive
<1>5. CASE ReclaimLock(p)
  \* The lock renamed away is that of the dead process p has read, or the
  \* misreclaim is recorded.
  <2>1. /\ pc[p] = "reclaim"
        /\ observed' = observed
        /\ misreclaim' = (misreclaim \/ lock # observed[p])
        /\ Goto(p, "acquire") \/ Goto(p, "done")
    BY <1>5 DEF ReclaimLock, Busy
  <2>2. \A q \in Proc : pc'[q] \in Critical => q # p /\ pc[q] \in Critical
    BY <2>1
  <2>3. ReclaimsTheDead'
    BY <2>1
  <2>4. pc[observed[p]] \notin Critical
    BY <2>1
  <2>5. ASSUME ~misreclaim', NEW q \in Proc, pc'[q] \in Critical PROVE FALSE
    <3>1. lock = observed[p] /\ lock = q
      BY <2>1, <2>2, <2>5
    <3> QED
      BY <2>2, <2>4, <2>5, <3>1
  <2>6. HoldersOwnTheLock'
    BY <2>5
  <2> QED
    BY <2>3, <2>6
<1>6. CASE ReclaimFails(p)
  BY <1>6 DEF ReclaimFails, Busy
<1>7. CASE Release(p)
  BY <1>7 DEF Release
<1> QED
  BY <1>1, <1>2, <1>3, <1>4, <1>5, <1>6, <1>7

\* Every other step leaves the lock alone and moves p inside the critical
\* section, out of it for good, or not at all.
LEMMA OtherSteps ==
  ASSUME LockInv, TypeInv', NEW p \in Proc,
         UNCHANGED <<lock, observed, misreclaim>>,
         \/ UNCHANGED pc
         \/ pc[p] \in Critical /\ \E l \in Critical : Goto(p, l)
         \/ pc[p] \notin Terminal /\ Goto(p, "dead")
         \/ pc[p] \notin Gone \cup Critical /\ Goto(p, "done")
         \/ pc[p] = "dead" /\ Goto(p, "recycled")
  PROVE  LockInv'
<1> USE ProcAssumption DEF LockInv, TypeInv, TypeOK, ReclaimsTheDead, HoldersOwnTheLock,
                           Critical, Gone, Terminal, Goto
<1>1. CASE UNCHANGED pc
  BY <1>1
<1>2. ASSUME pc[p] \in Critical, NEW l \in Critical, Goto(p, l)
      PROVE  LockInv'
  BY <1>2
<1>3. CASE pc[p] \notin Terminal /\ Goto(p, "dead")
  BY <1>3
<1>4. CASE pc[p] \notin Gone \cup Critical /\ Goto(p, "done")
  BY <1>4
<1>5. CASE pc[p] = "dead" /\ Goto(p, "recycled")
  BY <1>5
<1> QED
  BY <1>1, <1>2, <1>3, <1>4, <1>5

\* The steps OtherSteps is about.
LEMMA OtherStepShape ==
  ASSUME TypeInv, NEW p \in Proc,
         \/ ListVersions(p) \/ PurgeFile(p) \/ PurgeEntry(p) \/ PurgeDone(p)
         \/ Stage(p) \/ KillWorker(p) \/ RejectBundle(p) \/ AcceptBundle(p)
         \/ CreatePending(p) \/ FlipCurrent(p) \/ PublishFails(p) \/ Confirm(p)
         \/ AbortFile(p) \/ AbortVersion(p) \/ Emit(p)
         \/ Worker(p) \/ Environment(p)
  PROVE  /\ UNCHANGED <<lock, observed, misreclaim>>
         /\ \/ UNCHANGED pc
            \/ pc[p] \in Critical /\ \E l \in Critical : Goto(p, l)
            \/ pc[p] \notin Terminal /\ Goto(p, "dead")
            \/ pc[p] \notin Gone \cup Critical /\ Goto(p, "done")
            \/ pc[p] = "dead" /\ Goto(p, "recycled")
<1> USE DEF Critical, Gone, Terminal
<1>1. CASE ListVersions(p) \/ PurgeFile(p) \/ PurgeEntry(p) \/ PurgeDone(p)
  BY <1>1 DEF ListVersions, PurgeFile, PurgeEntry, PurgeDone, Goto
<1>2. CASE Stage(p) \/ KillWorker(p) \/ RejectBundle(p) \/ AcceptBundle(p)
  BY <1>2 DEF Stage, KillWorker, RejectBundle, AcceptBundle, AbortWith, Goto
<1>3. CASE CreatePending(p) \/ FlipCurrent(p) \/ PublishFails(p) \/ Confirm(p)
  BY <1>3 DEF CreatePending, FlipCurrent, PublishFails, Confirm, AbortWith, Goto
<1>4. CASE AbortFile(p) \/ AbortVersion(p) \/ Emit(p)
  BY <1>4 DEF AbortFile, AbortVersion, Emit, Goto
<1>5. CASE Worker(p)
  BY <1>5 DEF Worker, procVars
<1>6. CASE Environment(p)
  BY <1>6 DEF Environment, DeadlinePasses, Crash, RecyclePid, FileSystemError, LockFails, Goto
<1> QED
  BY <1>1, <1>2, <1>3, <1>4, <1>5, <1>6

LEMMA LockInvInductive == LockInv /\ TypeInv' /\ [Next]_vars => LockInv'
<1> SUFFICES ASSUME LockInv, TypeInv', [Next]_vars
             PROVE  LockInv'
  OBVIOUS
<1>1. CASE UNCHANGED vars
  BY <1>1 DEF vars, LockInv, ReclaimsTheDead, HoldersOwnTheLock
<1>2. ASSUME NEW p \in Proc, Supervisor(p) \/ Worker(p) \/ Environment(p)
      PROVE  LockInv'
  <2>1. CASE \/ TakeLock(p) \/ LockExists(p) \/ OwnerIsLive(p) \/ OwnerIsDead(p)
             \/ ReclaimLock(p) \/ ReclaimFails(p) \/ Release(p)
    BY <2>1, LockSteps
  <2>2. CASE \/ ListVersions(p) \/ PurgeFile(p) \/ PurgeEntry(p) \/ PurgeDone(p)
             \/ Stage(p) \/ KillWorker(p) \/ RejectBundle(p) \/ AcceptBundle(p)
             \/ CreatePending(p) \/ FlipCurrent(p) \/ PublishFails(p) \/ Confirm(p)
             \/ AbortFile(p) \/ AbortVersion(p) \/ Emit(p)
             \/ Worker(p) \/ Environment(p)
    <3>1. TypeInv
      BY DEF LockInv
    <3> QED
      BY <2>2, <3>1, OtherStepShape, OtherSteps
  <2> QED
    BY <1>2, <2>1, <2>2 DEF Supervisor
<1> QED
  BY <1>1, <1>2 DEF Next

\* Every reachable state satisfies the lock invariant.
THEOREM LockInvAlways == Spec => []LockInv
<1>1. Init /\ TypeInv => LockInv
  BY DEF Init, LockInv, ReclaimsTheDead, HoldersOwnTheLock, Critical
<1> QED
  BY <1>1, LockInvInductive, Typing, PTL DEF Spec

\* However many publishers start, crash, and reclaim: as long as no reclaim
\* has renamed away a lock it did not read, publication is serialized.
THEOREM Exclusion == Spec => []ExclusiveUnlessMisreclaimed
<1> QED
  BY LockInvAlways, LockInvExcludes, PTL

\* The lock names a process that is in the critical section or was killed there.
LockNamed == lock # None => pc[lock] \in Critical \cup Gone

LEMMA LockNamedInductive == TypeInv /\ LockNamed /\ [Next]_vars => LockNamed'
<1> SUFFICES ASSUME TypeInv, LockNamed, [Next]_vars
             PROVE  LockNamed'
  OBVIOUS
<1> USE ProcAssumption DEF LockNamed, TypeInv, TypeOK, Critical, Gone, Terminal, Goto
<1>1. CASE UNCHANGED vars
  BY <1>1 DEF vars
<1>2. ASSUME NEW p \in Proc, Supervisor(p) \/ Worker(p) \/ Environment(p)
      PROVE  LockNamed'
  <2>1. CASE TakeLock(p) \/ LockExists(p) \/ OwnerIsDead(p)
    BY <2>1 DEF TakeLock, LockExists, OwnerIsDead
  <2>2. CASE OwnerIsLive(p) \/ ReclaimLock(p) \/ ReclaimFails(p) \/ Release(p)
    BY <2>2 DEF OwnerIsLive, ReclaimLock, ReclaimFails, Release, Busy
  <2>3. CASE ~(\/ TakeLock(p) \/ LockExists(p) \/ OwnerIsLive(p) \/ OwnerIsDead(p)
               \/ ReclaimLock(p) \/ ReclaimFails(p) \/ Release(p))
    <3>1. /\ UNCHANGED lock
          /\ \/ UNCHANGED pc
             \/ pc[p] \in Critical /\ \E l \in Critical : Goto(p, l)
             \/ pc[p] \notin Terminal /\ Goto(p, "dead")
             \/ pc[p] \notin Gone \cup Critical /\ Goto(p, "done")
             \/ pc[p] = "dead" /\ Goto(p, "recycled")
      <4> HIDE DEF LockNamed, TypeInv, Critical, Gone, Terminal, Goto
      <4> QED
        BY <1>2, <2>3, OtherStepShape DEF Supervisor
    <3> QED
      BY <3>1
  <2> QED
    BY <2>1, <2>2, <2>3
<1> QED
  BY <1>1, <1>2 DEF Next

\* What the first misreclaim takes: a process that has read the payload of a second,
\* which is gone, renames away the lock of a third, which has taken over meanwhile
\* (supervisor.mjs: acquireOutputLock, between ownerIsAlive and renameSync).
RacesThree ==
  [][misreclaim' # misreclaim =>
       \E p \in Proc : /\ ReclaimLock(p)
                       /\ observed[p] \in Proc /\ pc[observed[p]] \in Gone
                       /\ lock \in Proc \ {p, observed[p]} /\ pc[lock] \in Critical \cup Gone]_vars

LEMMA MisreclaimStep ==
  ASSUME LockInv, LockNamed, [Next]_vars, misreclaim' # misreclaim
  PROVE  \E p \in Proc : /\ ReclaimLock(p) /\ p # observed[p]
                         /\ observed[p] \in Proc /\ pc[observed[p]] \in Gone
                         /\ lock \in Proc \ {p, observed[p]} /\ pc[lock] \in Critical \cup Gone
<1>1. ASSUME NEW p \in Proc, ReclaimLock(p)
      PROVE  /\ p # observed[p] /\ observed[p] \in Proc /\ pc[observed[p]] \in Gone
             /\ lock \in Proc \ {p, observed[p]} /\ pc[lock] \in Critical \cup Gone
  <2>1. lock # observed[p]
    BY <1>1 DEF ReclaimLock, LockInv, TypeInv, TypeOK
  <2>2. pc[p] = "reclaim" /\ lock \in Proc /\ pc[lock] \in Critical \cup Gone
    BY <1>1 DEF ReclaimLock, LockNamed, LockInv, TypeInv, TypeOK
  <2>3. observed[p] \in Proc /\ pc[observed[p]] \in Gone
    BY <2>2 DEF LockInv, ReclaimsTheDead
  <2>4. p # observed[p] /\ p # lock
    BY <2>2, <2>3 DEF Critical, Gone
  <2> QED
    BY <2>1, <2>2, <2>3, <2>4
<1>2. ASSUME NEW p \in Proc, Supervisor(p) \/ Worker(p) \/ Environment(p), ~ReclaimLock(p)
      PROVE  UNCHANGED misreclaim
  <2>1. CASE \/ TakeLock(p) \/ LockExists(p) \/ OwnerIsLive(p) \/ OwnerIsDead(p)
             \/ ReclaimFails(p) \/ Release(p)
    BY <2>1 DEF TakeLock, LockExists, OwnerIsLive, OwnerIsDead, ReclaimFails, Release
  <2>2. CASE ~(\/ TakeLock(p) \/ LockExists(p) \/ OwnerIsLive(p) \/ OwnerIsDead(p)
               \/ ReclaimFails(p) \/ Release(p))
    BY <1>2, <2>2, OtherStepShape DEF Supervisor, LockInv
  <2> QED
    BY <2>1, <2>2
<1>3. PICK p \in Proc : ReclaimLock(p)
  BY <1>2 DEF Next, vars
<1> QED
  BY <1>1, <1>3

LEMMA LockNamedAlways == Spec => [](LockInv /\ LockNamed)
<1>1. Init => LockNamed
  BY DEF Init, LockNamed
<1>2. LockInv /\ LockNamed /\ [Next]_vars => LockNamed'
  BY LockNamedInductive DEF LockInv
<1> QED
  BY <1>1, <1>2, LockInvAlways, PTL DEF Spec

\* A lock is reclaimed from under its holder only where three processes meet in
\* this way, whatever else is killed and however pids are recycled.
THEOREM RaceTakesThree == Spec => RacesThree
<1>1. LockInv /\ LockNamed /\ [Next]_vars =>
        [misreclaim' # misreclaim =>
           \E p \in Proc : /\ ReclaimLock(p)
                           /\ observed[p] \in Proc /\ pc[observed[p]] \in Gone
                           /\ lock \in Proc \ {p, observed[p]} /\ pc[lock] \in Critical \cup Gone]_vars
  BY MisreclaimStep
<1> QED
  BY <1>1, LockNamedAlways, PTL DEF Spec, RacesThree

\* A foreign lock is only ever reclaimed where there are three processes.
RaceOfThree == misreclaim => \E p, q, r \in Proc : p # q /\ q # r /\ p # r

LEMMA RaceOfThreeAlways == Spec => []RaceOfThree
<1>1. Init => RaceOfThree
  BY DEF Init, RaceOfThree
<1>2. LockInv /\ LockNamed /\ RaceOfThree /\ [Next]_vars => RaceOfThree'
  <2> SUFFICES ASSUME LockInv, LockNamed, RaceOfThree, [Next]_vars, misreclaim' # misreclaim
               PROVE  RaceOfThree'
    BY DEF RaceOfThree
  <2>1. PICK p \in Proc : p # observed[p] /\ observed[p] \in Proc /\ lock \in Proc \ {p, observed[p]}
    BY MisreclaimStep
  <2> QED
    BY <2>1 DEF RaceOfThree
<1> QED
  BY <1>1, <1>2, LockNamedAlways, PTL DEF Spec

\* Of two publishers none ever takes a foreign lock: whatever is killed, and
\* however pids are recycled, publication is serialized.
THEOREM TwoPublishersExclude ==
  ASSUME \A p, q, r \in Proc : p = q \/ q = r \/ p = r
  PROVE  Spec => [](~misreclaim /\ LockGuardsDirectory)
<1>1. RaceOfThree /\ ExclusiveUnlessMisreclaimed => ~misreclaim /\ LockGuardsDirectory
  BY DEF RaceOfThree, ExclusiveUnlessMisreclaimed
<1> QED
  BY <1>1, RaceOfThreeAlways, Exclusion, PTL

\* Without crashes no lock is ever stale, so none is ever reclaimed.
NobodyGone == misreclaim = FALSE /\ \A p \in Proc : pc[p] \notin Gone

LEMMA NobodyEverGone ==
  ASSUME Crashable = {}
  PROVE  Spec => []NobodyGone
<1>1. Init => NobodyGone
  BY DEF Init, NobodyGone, Gone
<1>2. LockInv /\ NobodyGone /\ [Next]_vars => NobodyGone'
  <2> SUFFICES ASSUME LockInv, NobodyGone, [Next]_vars
               PROVE  NobodyGone'
    OBVIOUS
  <2> USE DEF NobodyGone, Gone, Goto, LockInv, ReclaimsTheDead, TypeInv, TypeOK
  <2>1. CASE UNCHANGED vars
    BY <2>1 DEF vars
  <2>2. ASSUME NEW p \in Proc,
               \/ TakeLock(p) \/ LockExists(p) \/ OwnerIsLive(p) \/ OwnerIsDead(p)
               \/ ReclaimLock(p) \/ ReclaimFails(p) \/ Release(p)
        PROVE  NobodyGone'
    BY <2>2 DEF TakeLock, LockExists, OwnerIsLive, OwnerIsDead, ReclaimLock,
                      ReclaimFails, Release, Busy
  <2>3. ASSUME NEW p \in Proc, Crash(p) \/ RecyclePid(p)
        PROVE  FALSE
    BY <2>3 DEF Crash, RecyclePid
  <2>4. ASSUME NEW p \in Proc,
               \/ ListVersions(p) \/ PurgeFile(p) \/ PurgeEntry(p) \/ PurgeDone(p)
               \/ Stage(p) \/ KillWorker(p) \/ RejectBundle(p) \/ AcceptBundle(p)
               \/ CreatePending(p) \/ FlipCurrent(p) \/ PublishFails(p) \/ Confirm(p)
        PROVE  NobodyGone'
    BY <2>4 DEF ListVersions, PurgeFile, PurgeEntry, PurgeDone, Stage, KillWorker,
                      RejectBundle, AcceptBundle, CreatePending, FlipCurrent, PublishFails,
                      Confirm, AbortWith
  <2>5. ASSUME NEW p \in Proc,
               \/ AbortFile(p) \/ AbortVersion(p) \/ Emit(p) \/ Worker(p)
               \/ DeadlinePasses(p) \/ LockFails(p) \/ FileSystemError(p)
        PROVE  NobodyGone'
    BY <2>5 DEF AbortFile, AbortVersion, Emit, Worker, procVars, DeadlinePasses,
                      FileSystemError, LockFails
  <2> QED
    BY <2>1, <2>2, <2>3, <2>4, <2>5 DEF Next, Supervisor, Environment
<1> QED
  BY <1>1, <1>2, LockInvAlways, PTL DEF Spec

\* If no process is killed, no reclaim ever takes a foreign lock.
THEOREM CrashFreeReclaimsNothing ==
  ASSUME Crashable = {}
  PROVE  Spec => []~misreclaim
<1>1. NobodyGone => ~misreclaim
  BY DEF NobodyGone
<1> QED
  BY <1>1, NobodyEverGone, PTL

\* If no process is killed, publication is serialized unconditionally, for any
\* number of publishers.
THEOREM CrashFreeExclusion ==
  ASSUME Crashable = {}
  PROVE  Spec => []LockGuardsDirectory
<1>1. ~misreclaim /\ ExclusiveUnlessMisreclaimed => LockGuardsDirectory
  BY DEF ExclusiveUnlessMisreclaimed
<1> QED
  BY <1>1, CrashFreeReclaimsNothing, Exclusion, PTL

-----------------------------------------------------------------------------
(***************************************************************************)
(* Only verified bundles are published and printed.  A version that has    *)
(* been verified stays verified: its worker has exited, and the verdict    *)
(* has no other writer.                                                    *)
(***************************************************************************)
Settled(v) == verdict[v] = "sound" /\ worker[v] = "exited"

\* No worker exists before its supervisor spawns it.
NotSpawned ==
  \A p \in Proc :
    /\ pc[p] \in {"acquire", "inspect", "reclaim", "stage"} =>
         outcome[p] = "none" /\ worker[p] = "none"
    /\ pc[p] \in {"list", "purge"} /\ outcome[p] = "none" => worker[p] = "none"
    /\ pc[p] = "abort" => outcome[p] # "none"

Verified ==
  \A p \in Proc :
    /\ pc[p] \in {"pend", "flip"} \/ current = p => Settled(p)
    /\ emitted[p] # None => Settled(emitted[p])

VerifiedInv == TypeInv /\ NotSpawned /\ Verified

\* Supervisor steps that leave the worker alone and do not accept a bundle.
LEMMA NotSpawnedPreserved ==
  ASSUME VerifiedInv, TypeInv', [Next]_vars
  PROVE  NotSpawned'
<1> USE DEF VerifiedInv, TypeInv, TypeOK, NotSpawned, Goto, Decide
<1>1. CASE UNCHANGED vars
  BY <1>1 DEF vars
<1>2. ASSUME NEW p \in Proc,
             \/ TakeLock(p) \/ LockExists(p) \/ OwnerIsLive(p) \/ OwnerIsDead(p)
             \/ ReclaimLock(p) \/ ReclaimFails(p) \/ Release(p) \/ Emit(p)
      PROVE  NotSpawned'
  BY <1>2 DEF TakeLock, LockExists, OwnerIsLive, OwnerIsDead, ReclaimLock,
              ReclaimFails, Release, Emit, Busy
<1>3. ASSUME NEW p \in Proc,
             \/ ListVersions(p) \/ PurgeFile(p) \/ PurgeEntry(p) \/ PurgeDone(p)
             \/ AbortFile(p) \/ AbortVersion(p)
      PROVE  NotSpawned'
  BY <1>3 DEF ListVersions, PurgeFile, PurgeEntry, PurgeDone, AbortFile, AbortVersion
<1>4. ASSUME NEW p \in Proc,
             \/ Stage(p) \/ KillWorker(p) \/ RejectBundle(p) \/ AcceptBundle(p)
             \/ CreatePending(p) \/ FlipCurrent(p) \/ PublishFails(p) \/ Confirm(p)
      PROVE  NotSpawned'
  BY <1>4 DEF Stage, KillWorker, RejectBundle, Rejection, AcceptBundle, CreatePending,
              FlipCurrent, PublishFails, Confirm, AbortWith
<1>5. ASSUME NEW p \in Proc, Worker(p)
      PROVE  NotSpawned'
  <2>1. worker[p] # "none" /\ UNCHANGED <<pc, outcome>>
    BY <1>5 DEF Worker, procVars, WorkerAdmitted, WorkerRefuses, WorkerReadsContract,
                WorkerEvaluates, WorkerWrites, WorkerSeals, WorkerDies, WorkerRunning, Bundle
  <2>2. \A q \in Proc \ {p} : worker'[q] = worker[q]
    BY <1>5 DEF Worker, WorkerAdmitted, WorkerRefuses, WorkerReadsContract, WorkerGoto,
                WorkerEvaluates, WorkerWrites, WorkerSeals, WorkerDies, WriteSummary
  <2> QED
    BY <2>1, <2>2
<1>6. ASSUME NEW p \in Proc, Environment(p)
      PROVE  NotSpawned'
  BY <1>6 DEF Environment, DeadlinePasses, Crash, RecyclePid, FileSystemError, LockFails
<1> QED
  BY <1>1, <1>2, <1>3, <1>4, <1>5, <1>6 DEF Next, Supervisor

\* No step changes the verdict or the worker of a settled version.
LEMMA SettledStays ==
  ASSUME VerifiedInv, [Next]_vars, NEW v \in Proc, Settled(v)
  PROVE  verdict'[v] = "sound" /\ worker'[v] = "exited"
<1> USE DEF VerifiedInv, TypeInv, TypeOK, NotSpawned, Settled
<1>1. CASE UNCHANGED <<verdict, worker>>
  BY <1>1
<1>2. ASSUME NEW p \in Proc, Stage(p) \/ KillWorker(p)
      PROVE  verdict'[v] = "sound" /\ worker'[v] = "exited"
  BY <1>2 DEF Stage, KillWorker, AbortWith, diskVars, WorkerRunning, Bundle
<1>3. ASSUME NEW p \in Proc, Worker(p)
      PROVE  verdict'[v] = "sound" /\ worker'[v] = "exited"
  <2>1. worker[p] # "exited"
    BY <1>3 DEF Worker, WorkerAdmitted, WorkerRefuses, WorkerReadsContract,
                WorkerEvaluates, WorkerWrites, WorkerSeals, WorkerDies, WorkerRunning, Bundle
  <2>2. worker'[v] = worker[v] /\ verdict'[v] = verdict[v]
    BY <1>3, <2>1 DEF Worker, WorkerAdmitted, WorkerRefuses, WorkerReadsContract, WorkerGoto,
                WorkerEvaluates, WorkerWrites, WorkerSeals, WorkerDies, WriteSummary
  <2> QED
    BY <2>2
<1>4. CASE UNCHANGED vars
  BY <1>4 DEF vars
<1>5. ASSUME NEW p \in Proc, Supervisor(p) \/ Environment(p), ~Stage(p), ~KillWorker(p)
      PROVE  UNCHANGED <<verdict, worker>>
  BY <1>5 DEF Supervisor, Environment, TakeLock, LockExists, OwnerIsLive, OwnerIsDead,
       ReclaimLock, ReclaimFails, Release, Emit, ListVersions, PurgeFile, PurgeEntry,
       PurgeDone, AbortFile, AbortVersion, RejectBundle, AcceptBundle, CreatePending,
       FlipCurrent, PublishFails, Confirm, DeadlinePasses, Crash, RecyclePid,
       FileSystemError, LockFails, diskVars
<1> QED
  BY <1>1, <1>2, <1>3, <1>4, <1>5 DEF Next

\* Whoever comes to publish, is published or is printed was settled before the
\* step or is accepted by it.
LEMMA VerifiedSources ==
  ASSUME TypeInv, [Next]_vars, NEW q \in Proc
  PROVE  /\ pc'[q] \in {"pend", "flip"} \/ current' = q =>
              pc[q] \in {"pend", "flip"} \/ current = q \/ BundleVerifies(q)
         /\ emitted'[q] # None => emitted'[q] \in {emitted[q], current}
<1> USE ProcAssumption DEF TypeInv, TypeOK, Goto, Decide
<1>1. CASE UNCHANGED vars
  BY <1>1 DEF vars
<1>2. ASSUME NEW p \in Proc,
             \/ TakeLock(p) \/ LockExists(p) \/ OwnerIsLive(p) \/ OwnerIsDead(p)
             \/ ReclaimLock(p) \/ ReclaimFails(p) \/ Release(p) \/ Emit(p)
      PROVE  /\ current' = current
             /\ pc'[q] \notin {"pend", "flip"} \/ pc'[q] = pc[q]
             /\ emitted'[q] \in {emitted[q], current}
  BY <1>2 DEF TakeLock, LockExists, OwnerIsLive, OwnerIsDead, ReclaimLock,
              ReclaimFails, Release, Emit, Busy, diskVars
<1>3. ASSUME NEW p \in Proc,
             \/ ListVersions(p) \/ PurgeFile(p) \/ PurgeEntry(p) \/ PurgeDone(p)
             \/ AbortFile(p) \/ AbortVersion(p)
      PROVE  /\ current' \in {current, None}
             /\ pc'[q] \notin {"pend", "flip"} \/ pc'[q] = pc[q]
             /\ emitted'[q] = emitted[q]
  BY <1>3 DEF ListVersions, PurgeFile, PurgeEntry, PurgeDone, AbortFile, AbortVersion, diskVars
<1>4. ASSUME NEW p \in Proc,
             \/ Stage(p) \/ KillWorker(p) \/ RejectBundle(p) \/ AcceptBundle(p)
      PROVE  /\ current' = current
             /\ pc'[q] \notin {"pend", "flip"} \/ pc'[q] = pc[q] \/ BundleVerifies(q)
             /\ emitted'[q] = emitted[q]
  BY <1>4 DEF Stage, KillWorker, RejectBundle, AcceptBundle, AbortWith, diskVars
<1>5. ASSUME NEW p \in Proc,
             \/ CreatePending(p) \/ FlipCurrent(p) \/ PublishFails(p) \/ Confirm(p)
      PROVE  /\ current' = q => current = q \/ pc[q] \in {"pend", "flip"}
             /\ pc'[q] \in {"pend", "flip"} => pc[q] \in {"pend", "flip"}
             /\ emitted'[q] = emitted[q]
  BY <1>5 DEF CreatePending, FlipCurrent, PublishFails, Confirm, AbortWith, diskVars
<1>6. ASSUME NEW p \in Proc, Worker(p) \/ Environment(p)
      PROVE  /\ current' = current
             /\ pc'[q] \notin {"pend", "flip"} \/ pc'[q] = pc[q]
             /\ emitted'[q] = emitted[q]
  BY <1>6 DEF Worker, procVars, Environment, DeadlinePasses, Crash, RecyclePid,
              FileSystemError, LockFails, diskVars
<1> QED
  BY <1>1, <1>2, <1>3, <1>4, <1>5, <1>6 DEF Next, Supervisor

LEMMA VerifiedInductive == VerifiedInv /\ TypeInv' /\ [Next]_vars => VerifiedInv'
<1> SUFFICES ASSUME VerifiedInv, TypeInv', [Next]_vars
             PROVE  VerifiedInv'
  OBVIOUS
<1>1. NotSpawned'
  BY NotSpawnedPreserved
<1>2. ASSUME NEW q \in Proc, BundleVerifies(q)
      PROVE  Settled(q)
  BY <1>2 DEF BundleVerifies, Settled
<1>3. ASSUME NEW q \in Proc, pc'[q] \in {"pend", "flip"} \/ current' = q
      PROVE  verdict'[q] = "sound" /\ worker'[q] = "exited"
  <2>1. Settled(q)
    BY <1>2, <1>3, VerifiedSources DEF VerifiedInv, Verified
  <2> QED
    BY <2>1, SettledStays
<1>4. ASSUME NEW q \in Proc, NEW v \in Proc, emitted'[q] = v
      PROVE  verdict'[v] = "sound" /\ worker'[v] = "exited"
  <2>1. Settled(v)
    BY <1>4, VerifiedSources, ProcAssumption DEF VerifiedInv, Verified
  <2> QED
    BY <2>1, SettledStays
<1>5. \A q \in Proc : emitted'[q] \in Proc \cup {None}
  BY DEF TypeInv, TypeOK
<1> QED
  BY <1>1, <1>3, <1>4, <1>5 DEF VerifiedInv, Verified, Settled

LEMMA InitVerified == Init => VerifiedInv
BY InitTyped, ProcAssumption DEF Init, VerifiedInv, NotSpawned, Verified

\* In every reachable state whatever is published or printed has been verified by
\* its supervisor, and its worker has exited.
THEOREM VerifiedAlways == Spec => []VerifiedInv
<1> QED
  BY InitVerified, VerifiedInductive, Typing, PTL DEF Spec

\* Whatever crashes, and even behind a misreclaimed lock, the CLI prints only
\* receipts that a supervisor has verified.
THEOREM OnlyVerifiedEmitted == Spec => []EmitsOnlyVerified
<1>1. VerifiedInv => EmitsOnlyVerified
  BY DEF VerifiedInv, Verified, Settled, EmitsOnlyVerified
<1> QED
  BY <1>1, VerifiedAlways, PTL

-----------------------------------------------------------------------------
(***************************************************************************)
(* What is published is whole.  Once a worker has been spawned, only a     *)
(* purge or an abort takes files away from its version, and both run under *)
(* the lock.                                                               *)
(***************************************************************************)
Intact ==
  ~misreclaim =>
    \A p \in Proc :
      /\ pc[p] \in {"wait", "pend", "flip"} => "contract" \in files[p]
      /\ pc[p] \in {"pend", "flip"} => files[p] = File

\* A version loses files only to its own staging or to a removal in progress.
LEMMA FilesOnlyGrow ==
  ASSUME TypeInv, [Next]_vars, NEW q \in Proc
  PROVE  \/ files[q] \subseteq files'[q]
         \/ Stage(q)
         \/ \E p \in Proc : pc[p] \in Removing /\ UNCHANGED pc
<1> USE DEF TypeInv, TypeOK
<1>1. CASE UNCHANGED files
  BY <1>1
<1>2. ASSUME NEW p \in Proc, Stage(p)
      PROVE  files[q] \subseteq files'[q] \/ Stage(q)
  BY <1>2 DEF Stage
<1>3. ASSUME NEW p \in Proc, PurgeFile(p) \/ AbortFile(p)
      PROVE  pc[p] \in Removing /\ UNCHANGED pc
  BY <1>3 DEF PurgeFile, AbortFile, Removing
<1>4. ASSUME NEW p \in Proc, Worker(p)
      PROVE  files[q] \subseteq files'[q]
  BY <1>4 DEF Worker, WorkerAdmitted, WorkerRefuses, WorkerReadsContract, WorkerGoto,
              WorkerEvaluates, WorkerWrites, WorkerSeals, WorkerDies, WriteSummary
<1>5. ASSUME NEW p \in Proc, Supervisor(p) \/ Environment(p),
             ~Stage(p), ~PurgeFile(p), ~AbortFile(p)
      PROVE  UNCHANGED files
  BY <1>5 DEF Supervisor, Environment, TakeLock, LockExists, OwnerIsLive, OwnerIsDead,
       ReclaimLock, ReclaimFails, Release, Emit, ListVersions, KillWorker, PurgeEntry,
       PurgeDone, AbortVersion, RejectBundle, AcceptBundle, CreatePending,
       FlipCurrent, PublishFails, Confirm, DeadlinePasses, Crash, RecyclePid,
       FileSystemError, LockFails, diskVars
<1> QED
  BY <1>1, <1>2, <1>3, <1>4, <1>5 DEF Next, vars

\* How a process comes to stand between spawning its worker and publishing.
LEMMA WaitSources ==
  ASSUME TypeInv, [Next]_vars, NEW q \in Proc, pc'[q] \in {"wait", "pend", "flip"}
  PROVE  \/ /\ Stage(q)
            /\ pc'[q] = "wait"
         \/ /\ pc[q] = "wait"
            /\ pc'[q] = "wait" \/ (BundleVerifies(q) /\ UNCHANGED files)
         \/ /\ pc[q] \in {"pend", "flip"}
            /\ pc'[q] \in {"pend", "flip"}
<1> USE DEF TypeInv, TypeOK, Goto
<1>1. CASE UNCHANGED pc
  BY <1>1
<1>2. ASSUME NEW p \in Proc,
             \/ TakeLock(p) \/ LockExists(p) \/ OwnerIsLive(p) \/ OwnerIsDead(p)
             \/ ReclaimLock(p) \/ ReclaimFails(p) \/ Release(p) \/ Emit(p)
             \/ ListVersions(p) \/ PurgeDone(p) \/ AbortVersion(p)
             \/ KillWorker(p) \/ RejectBundle(p) \/ PublishFails(p) \/ Confirm(p)
      PROVE  pc'[q] = pc[q]
  BY <1>2 DEF TakeLock, LockExists, OwnerIsLive, OwnerIsDead, ReclaimLock, ReclaimFails,
              Release, Emit, Busy, ListVersions, PurgeDone, AbortVersion, KillWorker,
              RejectBundle, PublishFails, Confirm, AbortWith
<1>3. ASSUME NEW p \in Proc, Stage(p)
      PROVE  pc'[q] = pc[q] \/ (q = p /\ pc'[q] = "wait")
  BY <1>3 DEF Stage, AbortWith
<1>4. ASSUME NEW p \in Proc, AcceptBundle(p)
      PROVE  pc'[q] = pc[q] \/ (pc[q] = "wait" /\ BundleVerifies(q) /\ UNCHANGED files)
  BY <1>4 DEF AcceptBundle, AbortWith, diskVars
<1>5. ASSUME NEW p \in Proc, CreatePending(p) \/ FlipCurrent(p)
      PROVE  pc'[q] = pc[q] \/ (pc[q] \in {"pend", "flip"} /\ pc'[q] \in {"pend", "flip"})
  BY <1>5 DEF CreatePending, FlipCurrent
<1>6. ASSUME NEW p \in Proc, Environment(p)
      PROVE  pc'[q] = pc[q]
  BY <1>6 DEF Environment, DeadlinePasses, Crash, RecyclePid, FileSystemError, LockFails
<1>7. ASSUME NEW p \in Proc, PurgeFile(p) \/ PurgeEntry(p) \/ AbortFile(p) \/ Worker(p)
      PROVE  UNCHANGED pc
  BY <1>7 DEF PurgeFile, PurgeEntry, AbortFile, Worker, procVars
<1> QED
  BY <1>1, <1>2, <1>3, <1>4, <1>5, <1>6, <1>7 DEF Next, Supervisor, vars

\* A recorded misreclaim is never forgotten.
LEMMA MisreclaimStays == TypeInv /\ [Next]_vars /\ misreclaim => misreclaim'
<1> SUFFICES ASSUME [Next]_vars, misreclaim
             PROVE  misreclaim'
  OBVIOUS
<1>1. ASSUME NEW p \in Proc, ReclaimLock(p)
      PROVE  misreclaim'
  BY <1>1 DEF ReclaimLock
<1>2. ASSUME NEW p \in Proc, Supervisor(p) \/ Worker(p) \/ Environment(p), ~ReclaimLock(p)
      PROVE  misreclaim' = misreclaim
  BY <1>2 DEF Supervisor, Worker, Environment, TakeLock, LockExists, OwnerIsLive, OwnerIsDead,
       ReclaimFails, Release, Emit, ListVersions, KillWorker, PurgeEntry, PurgeFile, Stage,
       PurgeDone, AbortVersion, AbortFile, RejectBundle, AcceptBundle, CreatePending,
       FlipCurrent, PublishFails, Confirm, DeadlinePasses, Crash, RecyclePid,
       FileSystemError, LockFails
<1> QED
  BY <1>1, <1>2 DEF Next, vars

LEMMA IntactInductive == LockInv /\ TypeInv' /\ Intact /\ [Next]_vars => Intact'
<1> SUFFICES ASSUME LockInv, TypeInv', Intact, [Next]_vars, ~misreclaim',
                    NEW q \in Proc, pc'[q] \in {"wait", "pend", "flip"}
             PROVE  /\ "contract" \in files'[q]
                    /\ pc'[q] \in {"pend", "flip"} => files'[q] = File
  BY DEF Intact
<1> USE DEF LockInv
<1>1. ~misreclaim
  BY MisreclaimStays
<1>2. CASE Stage(q) /\ pc'[q] = "wait"
  BY <1>2 DEF Stage, TypeInv, TypeOK
<1>3. CASE ~Stage(q) /\ pc[q] \in {"wait", "pend", "flip"}
  <2>1. pc[q] \in Critical
    BY <1>3 DEF Critical
  <2>2. ~\E p \in Proc : pc[p] \in Removing /\ UNCHANGED pc
    BY <1>1, <1>3, <2>1 DEF HoldersOwnTheLock, Removing, Critical
  <2>3. files[q] \subseteq files'[q] /\ files'[q] \subseteq File
    BY <1>3, <2>2, FilesOnlyGrow DEF TypeInv, TypeOK
  <2>4. "contract" \in files[q] /\ (pc[q] \in {"pend", "flip"} => files[q] = File)
    BY <1>1, <1>3 DEF Intact
  <2>5. BundleVerifies(q) /\ "contract" \in files[q] => files[q] = File
    BY DEF BundleVerifies, File, TypeInv, TypeOK
  <2> QED
    BY <1>3, <2>3, <2>4, <2>5, WaitSources
<1> QED
  BY <1>2, <1>3, WaitSources DEF Stage

\* Between the acceptance of a bundle and its publication no one touches its version.
THEOREM IntactAlways == Spec => []Intact
<1>1. Init => Intact
  BY DEF Init, Intact
<1> QED
  BY <1>1, IntactInductive, LockInvAlways, Typing, PTL DEF Spec

\* `current` is moved by two operations only: the rename that publishes, and the
\* removal of the entry a purge has listed.
LEMMA CurrentMoves ==
  ASSUME [Next]_vars, current' # current
  PROVE  \E p \in Proc :
           /\ UNCHANGED <<lock, misreclaim>>
           /\ \/ pc[p] = "flip" /\ current' = p /\ Goto(p, "confirm")
              \/ pc[p] = "purge" /\ current' = None /\ UNCHANGED pc
<1>1. ASSUME NEW p \in Proc, FlipCurrent(p) \/ PurgeEntry(p)
      PROVE  /\ UNCHANGED <<lock, misreclaim>>
             /\ \/ pc[p] = "flip" /\ current' = p /\ Goto(p, "confirm")
                \/ pc[p] = "purge" /\ current' = None /\ UNCHANGED pc
  BY <1>1 DEF FlipCurrent, PurgeEntry
<1>2. ASSUME NEW p \in Proc, Supervisor(p) \/ Worker(p) \/ Environment(p),
             ~FlipCurrent(p), ~PurgeEntry(p)
      PROVE  UNCHANGED current
  BY <1>2 DEF Supervisor, Worker, Environment, TakeLock, LockExists, OwnerIsLive, OwnerIsDead,
       ReclaimLock, ReclaimFails, Release, Emit, ListVersions, KillWorker, PurgeFile, Stage,
       PurgeDone, AbortVersion, AbortFile, RejectBundle, AcceptBundle, CreatePending,
       PublishFails, Confirm, DeadlinePasses, Crash, RecyclePid, FileSystemError, LockFails, diskVars
<1> QED
  BY <1>1, <1>2 DEF Next, vars

\* While no lock has been misreclaimed, a run publishes its version only when
\* its bundle has been verified, the work contract included, and its worker has
\* exited.
THEOREM OnlyVerifiedPublished == Spec => PublishesOnlyVerified
<1>1. LockInv /\ VerifiedInv /\ Intact /\ [Next]_vars =>
        \A p \in Proc :
          current' = p /\ current # p /\ ~misreclaim =>
            verdict[p] = "sound" /\ files[p] = File /\ worker[p] = "exited"
  <2> SUFFICES ASSUME VerifiedInv, Intact, [Next]_vars, NEW p \in Proc,
                      current' = p, current # p, ~misreclaim
               PROVE  verdict[p] = "sound" /\ files[p] = File /\ worker[p] = "exited"
    OBVIOUS
  <2>1. pc[p] = "flip"
    BY CurrentMoves, ProcAssumption DEF VerifiedInv, TypeInv, TypeOK
  <2> QED
    BY <2>1 DEF Intact, VerifiedInv, Verified, Settled
<1> QED
  BY <1>1, LockInvAlways, VerifiedAlways, IntactAlways, PTL DEF Spec, PublishesOnlyVerified

-----------------------------------------------------------------------------
(***************************************************************************)
(* Refinement.  A process that stages, evaluates or publishes does so over *)
(* an empty slot: its purge has listed and removed any earlier `current`.  *)
(***************************************************************************)
EmptySlot ==
  ~misreclaim =>
    \A p \in Proc :
      /\ pc[p] \in {"stage", "wait", "pend", "flip"} => current = None
      /\ pc[p] = "purge" /\ current # None => CurrentEntry \in todo[p]

\* How a process comes to stand in a purge, or beyond the first one.
LEMMA SlotSources ==
  ASSUME Unlistable = {}, TypeInv, [Next]_vars, NEW q \in Proc
  PROVE  /\ pc'[q] \in {"stage", "wait", "pend", "flip"} =>
              \/ pc[q] \in {"stage", "wait", "pend", "flip"}
              \/ pc[q] = "purge" /\ todo[q] = {} /\ UNCHANGED current
         /\ pc'[q] = "purge" =>
              \/ pc[q] = "list" /\ todo'[q] = Existing /\ UNCHANGED current
              \/ /\ pc[q] = "purge"
                 /\ current' # None => \A e \in todo[q] \ todo'[q] : e # CurrentEntry
<1> USE DEF TypeInv, TypeOK, Goto
<1>1. CASE UNCHANGED vars
  BY <1>1 DEF vars
<1>2. ASSUME NEW p \in Proc,
             \/ TakeLock(p) \/ LockExists(p) \/ OwnerIsLive(p) \/ OwnerIsDead(p)
             \/ ReclaimLock(p) \/ ReclaimFails(p) \/ Release(p) \/ Emit(p)
             \/ AbortVersion(p) \/ KillWorker(p) \/ RejectBundle(p)
             \/ PublishFails(p) \/ Confirm(p)
      PROVE  /\ pc'[q] \in {"stage", "wait", "pend", "flip", "purge"} => pc'[q] = pc[q]
             /\ UNCHANGED todo
  BY <1>2 DEF TakeLock, LockExists, OwnerIsLive, OwnerIsDead, ReclaimLock, ReclaimFails,
              Release, Emit, Busy, AbortVersion, KillWorker,
              RejectBundle, PublishFails, Confirm, AbortWith
<1>3. ASSUME NEW p \in Proc, ListVersions(p)
      PROVE  \/ pc'[q] = pc[q] /\ todo'[q] = todo[q]
             \/ pc'[q] = "purge" /\ pc[q] = "list" /\ todo'[q] = Existing /\ UNCHANGED current
  <2>1. Listing(p) = {Existing}
    BY DEF Listing
  <2> QED
    BY <1>3, <2>1 DEF ListVersions, diskVars
<1>4. ASSUME NEW p \in Proc, PurgeDone(p)
      PROVE  /\ pc'[q] \in {"stage", "wait", "pend", "flip"} /\ pc'[q] # pc[q] =>
                  pc[q] = "purge" /\ todo[q] = {} /\ UNCHANGED current
             /\ pc'[q] = "purge" => pc[q] = "purge"
             /\ UNCHANGED todo
  BY <1>4 DEF PurgeDone, diskVars
<1>5. ASSUME NEW p \in Proc,
             \/ Stage(p) \/ AcceptBundle(p) \/ CreatePending(p) \/ FlipCurrent(p)
      PROVE  /\ pc'[q] # pc[q] => /\ pc[q] \in {"stage", "wait", "pend", "flip"}
                                  /\ pc'[q] # "purge"
             /\ UNCHANGED todo
  BY <1>5 DEF Stage, AcceptBundle, AbortWith, CreatePending, FlipCurrent
<1>6. ASSUME NEW p \in Proc, PurgeEntry(p)
      PROVE  /\ UNCHANGED pc
             /\ current' # None => \A e \in todo[q] \ todo'[q] : e # CurrentEntry
  <2>1. PICK e \in todo[p] : /\ current' = IF e = CurrentEntry THEN None ELSE current
                             /\ todo' = [todo EXCEPT ![p] = todo[p] \ {e}]
    BY <1>6 DEF PurgeEntry
  <2>2. UNCHANGED pc
    BY <1>6 DEF PurgeEntry
  <2>3. todo[q] \ todo'[q] \subseteq {e}
    BY <2>1
  <2>4. current' # None => e # CurrentEntry
    BY <2>1
  <2> QED
    BY <2>2, <2>3, <2>4
<1>7. ASSUME NEW p \in Proc, PurgeFile(p) \/ AbortFile(p) \/ Worker(p)
      PROVE  UNCHANGED <<pc, todo>>
  BY <1>7 DEF PurgeFile, AbortFile, Worker, procVars
<1>8. ASSUME NEW p \in Proc, Environment(p)
      PROVE  /\ pc'[q] \in {"stage", "wait", "pend", "flip", "purge"} => pc'[q] = pc[q]
             /\ UNCHANGED todo
  BY <1>8 DEF Environment, DeadlinePasses, Crash, RecyclePid, FileSystemError, LockFails
<1> QED
  BY <1>1, <1>2, <1>3, <1>4, <1>5, <1>6, <1>7, <1>8 DEF Next, Supervisor

LEMMA EmptySlotInductive ==
  ASSUME Unlistable = {}
  PROVE  LockInv /\ TypeInv' /\ EmptySlot /\ [Next]_vars => EmptySlot'
<1> SUFFICES ASSUME LockInv, TypeInv', EmptySlot, [Next]_vars, ~misreclaim', NEW q \in Proc
             PROVE  /\ pc'[q] \in {"stage", "wait", "pend", "flip"} => current' = None
                    /\ pc'[q] = "purge" /\ current' # None => CurrentEntry \in todo'[q]
  BY DEF EmptySlot
<1> USE DEF LockInv
<1>1. ~misreclaim
  BY MisreclaimStays
\* Nobody publishes while q is between listing the directory and publishing.
<1>2. pc[q] \in {"list", "purge", "stage", "wait", "pend", "flip"} /\ current' \notin {None, current} =>
        pc'[q] = "confirm"
  <2> SUFFICES ASSUME pc[q] \in Critical, current' \notin {None, current}
               PROVE  pc'[q] = "confirm"
    BY DEF Critical
  <2>1. PICK p \in Proc : pc[p] = "flip" /\ Goto(p, "confirm")
    BY CurrentMoves
  <2>2. p = q
    BY <1>1, <2>1 DEF HoldersOwnTheLock, Critical
  <2> QED
    BY <2>1, <2>2 DEF Goto, TypeInv, TypeOK
<1>3. ASSUME pc'[q] \in {"stage", "wait", "pend", "flip"}
      PROVE  current' = None
  BY <1>1, <1>2, <1>3, SlotSources DEF EmptySlot
<1>4. ASSUME pc'[q] = "purge", current' # None
      PROVE  CurrentEntry \in todo'[q]
  <2>1. CASE pc[q] = "list" /\ todo'[q] = Existing /\ UNCHANGED current
    BY <1>4, <2>1 DEF Existing
  <2>2. CASE pc[q] = "purge" /\ \A e \in todo[q] \ todo'[q] : e # CurrentEntry
    <3>1. CurrentEntry \in todo[q]
      BY <1>1, <1>2, <1>4, <2>2 DEF EmptySlot
    <3> QED
      BY <2>2, <3>1
  <2> QED
    BY <1>4, <2>1, <2>2, SlotSources
<1> QED
  BY <1>3, <1>4

\* A run stages, evaluates and publishes over an empty slot, in every
\* directory that can be listed.
THEOREM EmptySlotAlways ==
  ASSUME Unlistable = {}
  PROVE  Spec => []EmptySlot
<1>1. Init => EmptySlot
  BY DEF Init, EmptySlot
<1> QED
  BY <1>1, EmptySlotInductive, LockInvAlways, Typing, PTL DEF Spec

\* How the lock moves: taken when free, given up by its holder, or renamed away.
LEMMA LockMoves ==
  ASSUME TypeInv, [Next]_vars, lock' # lock
  PROVE  /\ UNCHANGED current
         /\ \/ \E p \in Proc : lock = None /\ lock' = p
            \/ lock # None /\ lock' = None
<1>1. ASSUME NEW p \in Proc, TakeLock(p) \/ ReclaimLock(p) \/ Release(p)
      PROVE  /\ UNCHANGED current
             /\ \/ lock = None /\ lock' = p
                \/ lock # None /\ lock' = None
  BY <1>1, ProcAssumption DEF TakeLock, ReclaimLock, Release, diskVars
<1>2. ASSUME NEW p \in Proc, Supervisor(p) \/ Worker(p) \/ Environment(p),
             ~TakeLock(p), ~ReclaimLock(p), ~Release(p)
      PROVE  UNCHANGED lock
  BY <1>2 DEF Supervisor, Worker, Environment, LockExists, OwnerIsLive, OwnerIsDead,
       ReclaimFails, Emit, ListVersions, KillWorker, PurgeEntry, PurgeFile, Stage,
       PurgeDone, AbortVersion, AbortFile, RejectBundle, AcceptBundle, CreatePending,
       FlipCurrent, PublishFails, Confirm, DeadlinePasses, Crash, RecyclePid,
       FileSystemError, LockFails
<1> QED
  BY <1>1, <1>2 DEF Next, vars

\* Every step taken while no lock has been misreclaimed is a step of the
\* abstract turn-taking publication, or leaves lock and pointer alone.
LEMMA StepSerialized ==
  LockInv /\ EmptySlot /\ ~misreclaim /\ [Next]_vars =>
    [Serialized!Next]_<<lock, current>>
<1> SUFFICES ASSUME LockInv, EmptySlot, ~misreclaim, [Next]_vars, lock' # lock \/ current' # current
             PROVE  Serialized!Next
  OBVIOUS
<1> USE DEF LockInv
<1>1. CASE lock' # lock
  <2>1. CASE \E p \in Proc : lock = None /\ lock' = p
    BY <1>1, <2>1, LockMoves DEF Serialized!Next, Serialized!Enter
  <2>2. CASE lock # None /\ lock' = None
    BY <1>1, <2>2, LockMoves DEF Serialized!Next, Serialized!Leave, TypeInv, TypeOK
  <2> QED
    BY <1>1, <2>1, <2>2, LockMoves
<1>2. CASE lock' = lock /\ current' # current
  <2>1. PICK p \in Proc : \/ pc[p] = "flip" /\ current' = p
                          \/ pc[p] = "purge" /\ current' = None
    BY <1>2, CurrentMoves
  <2>2. lock = p
    BY <2>1 DEF HoldersOwnTheLock, Critical
  <2>3. pc[p] = "flip" => current = None
    BY DEF EmptySlot
  <2> QED
    BY <1>2, <2>1, <2>2, <2>3 DEF Serialized!Next, Serialized!Publish, Serialized!Withdraw
<1> QED
  BY <1>1, <1>2

\* As long as no lock is misreclaimed, publication into a directory that can be
\* listed implements turn-taking: a pointer appears only in an empty slot, and
\* moves only in its owner's turn.
THEOREM Refinement ==
  ASSUME Unlistable = {}
  PROVE  Spec /\ []~misreclaim => ImplementsSerialized
<1>1. Init => Serialized!Init
  BY DEF Init, Serialized!Init
<1>2. LockInv /\ EmptySlot /\ ~misreclaim /\ [Next]_vars => [Serialized!Next]_(Serialized!svars)
  BY StepSerialized DEF Serialized!svars
<1> QED
  BY <1>1, <1>2, LockInvAlways, EmptySlotAlways, PTL
     DEF Spec, ImplementsSerialized, Serialized!Spec

\* Without crashes the refinement needs no condition on the behaviour.
THEOREM CrashFreeRefinement ==
  ASSUME Crashable = {}, Unlistable = {}
  PROVE  Spec => ImplementsSerialized
<1> QED
  BY CrashFreeReclaimsNothing, Refinement, PTL

\* Two publishers implement it however they are killed.
THEOREM TwoPublishersRefinement ==
  ASSUME \A p, q, r \in Proc : p = q \/ q = r \/ p = r, Unlistable = {}
  PROVE  Spec => ImplementsSerialized
<1> QED
  BY TwoPublishersExclude, Refinement, PTL

-----------------------------------------------------------------------------
(***************************************************************************)
(* What a run leaves behind.  From the end of its first purge to its own   *)
(* publication a run is alone in the directory but for what the workers of *)
(* killed supervisors recreate; the purge of abort() makes it so again.    *)
(***************************************************************************)
OrphansBut(S) == \A v \in dirs \ S : pc[v] \in Gone

\* A worker runs only while its supervisor waits for it, or after its death.
WorkersOwned ==
  \A p \in Proc : worker[p] \in WorkerRunning => pc[p] = "wait" \/ pc[p] \in Gone

\* Success is decided last: nothing but the release of the lock follows it.
OkIsLast == \A p \in Proc : pc[p] \in Critical \ {"release"} => outcome[p] # "ok"

\* Whatever p's purge has still to find is on its list.
Listed(p) ==
  /\ \A v \in dirs : pc[v] \in Gone \/ VersionEntry(v) \in todo[p]
  /\ \A v \in pending : PendingEntry(v) \in todo[p]

HoldsTheSlot(p) == current = p /\ files[p] = File

ClearedFor(p) ==
  /\ pc[p] = "purge" => Listed(p)
  /\ pc[p] = "stage" => OrphansBut({})
  /\ pc[p] \in {"wait", "pend", "flip", "confirm"} => OrphansBut({p})
  /\ pc[p] = "confirm" => HoldsTheSlot(p)
  /\ pc[p] = "release" /\ outcome[p] = "ok" => HoldsTheSlot(p) /\ OrphansBut({p})
  /\ pc[p] = "release" /\ outcome[p] \in {"timeout", "refused", "infra"} =>
       current = None /\ pending = {} /\ OrphansBut({})

Cleared == ~misreclaim => \A p \in Proc : ClearedFor(p)

\* The steps of a worker are taken by a running worker, which may recreate its
\* own version directory and adds to its own files only.
LEMMA WorkerEffect ==
  ASSUME TypeInv, NEW p \in Proc, Worker(p)
  PROVE  /\ worker[p] \in WorkerRunning
         /\ \A q \in Proc \ {p} : worker'[q] = worker[q] /\ files'[q] = files[q]
         /\ files[p] \subseteq files'[p]
         /\ dirs' = dirs \/ dirs' = dirs \cup {p}
         /\ UNCHANGED <<pc, todo, outcome, pending, current, lock, misreclaim>>
<1> USE DEF TypeInv, TypeOK, WorkerRunning, Bundle, WorkerGoto, WriteSummary
<1>1. UNCHANGED <<pc, todo, outcome, pending, current, lock, misreclaim>>
  BY DEF Worker, procVars
<1>2. CASE WorkerAdmitted(p) \/ WorkerReadsContract(p) \/ WorkerDies(p)
  BY <1>1, <1>2 DEF WorkerAdmitted, WorkerReadsContract, WorkerDies
<1>3. CASE WorkerRefuses(p) \/ WorkerSeals(p)
  BY <1>1, <1>3 DEF WorkerRefuses, WorkerSeals
<1>4. CASE WorkerEvaluates(p) \/ WorkerWrites(p)
  BY <1>1, <1>4 DEF WorkerEvaluates, WorkerWrites
<1> QED
  BY <1>2, <1>3, <1>4 DEF Worker

\* A step of a process outside the critical section disturbs nobody else: it
\* can only recreate its own version, when it is the worker of a killed run.
LEMMA Outsider ==
  ASSUME TypeInv, WorkersOwned, NEW a \in Proc, pc[a] \notin Critical,
         Supervisor(a) \/ Worker(a) \/ Environment(a), NEW p \in Proc \ {a}
  PROVE  /\ UNCHANGED <<pending, current>>
         /\ todo'[p] = todo[p] /\ outcome'[p] = outcome[p] /\ pc'[p] = pc[p]
         /\ files[p] \subseteq files'[p]
         /\ worker'[p] = worker[p]
         /\ dirs' \subseteq dirs \cup {v \in {a} : pc[v] \in Gone}
<1> USE DEF TypeInv, TypeOK, Critical, Goto, Decide
<1>1. CASE \/ TakeLock(a) \/ LockExists(a) \/ OwnerIsLive(a) \/ OwnerIsDead(a)
           \/ ReclaimLock(a) \/ ReclaimFails(a) \/ LockFails(a) \/ Emit(a)
  BY <1>1 DEF TakeLock, LockExists, OwnerIsLive, OwnerIsDead, ReclaimLock, ReclaimFails,
              LockFails, Emit, Busy, diskVars
<1>2. CASE Worker(a)
  BY <1>2, WorkerEffect DEF WorkersOwned
<1>3. CASE DeadlinePasses(a) \/ Crash(a) \/ RecyclePid(a)
  BY <1>3 DEF DeadlinePasses, Crash, RecyclePid, diskVars
<1>4. ~\/ ListVersions(a) \/ PurgeFile(a) \/ PurgeEntry(a) \/ PurgeDone(a)
       \/ Stage(a) \/ KillWorker(a) \/ RejectBundle(a) \/ AcceptBundle(a)
  BY DEF ListVersions, PurgeFile, PurgeEntry, PurgeDone, Stage, KillWorker, RejectBundle,
         AcceptBundle
<1>5. ~\/ CreatePending(a) \/ FlipCurrent(a) \/ PublishFails(a) \/ Confirm(a)
       \/ AbortFile(a) \/ AbortVersion(a) \/ Release(a) \/ FileSystemError(a)
  BY DEF CreatePending, FlipCurrent, PublishFails, Confirm, AbortFile, AbortVersion, Release,
         FileSystemError
<1> QED
  BY <1>1, <1>2, <1>3, <1>4, <1>5 DEF Supervisor, Environment

\* Whoever is gone stays gone.
LEMMA GoneStays ==
  ASSUME TypeInv, [Next]_vars, NEW v \in Proc, pc[v] \in Gone
  PROVE  pc'[v] \in Gone
<1> USE DEF TypeInv, TypeOK, Gone, Goto
<1>1. CASE UNCHANGED pc
  BY <1>1
<1>2. ASSUME NEW p \in Proc,
             \/ TakeLock(p) \/ LockExists(p) \/ OwnerIsLive(p) \/ OwnerIsDead(p)
             \/ ReclaimLock(p) \/ ReclaimFails(p) \/ Release(p)
      PROVE  pc'[v] \in Gone
  BY <1>2 DEF TakeLock, LockExists, OwnerIsLive, OwnerIsDead, ReclaimLock, ReclaimFails,
              Release, Busy
<1>3. ASSUME NEW p \in Proc,
             \/ ListVersions(p) \/ PurgeFile(p) \/ PurgeEntry(p) \/ PurgeDone(p)
             \/ Stage(p) \/ KillWorker(p) \/ RejectBundle(p) \/ AcceptBundle(p)
             \/ CreatePending(p) \/ FlipCurrent(p) \/ PublishFails(p) \/ Confirm(p)
             \/ AbortFile(p) \/ AbortVersion(p) \/ Emit(p)
             \/ Worker(p) \/ Environment(p)
      PROVE  pc'[v] \in Gone
  BY <1>3, OtherStepShape DEF Critical, Terminal
<1> QED
  BY <1>1, <1>2, <1>3 DEF Next, Supervisor, vars

LEMMA WorkersOwnedInductive ==
  VerifiedInv /\ TypeInv' /\ WorkersOwned /\ [Next]_vars => WorkersOwned'
<1> SUFFICES ASSUME VerifiedInv, TypeInv', WorkersOwned, [Next]_vars
             PROVE  WorkersOwned'
  OBVIOUS
<1> USE DEF VerifiedInv, TypeInv, TypeOK, NotSpawned, WorkersOwned, Goto, Gone
<1>1. CASE UNCHANGED vars
  BY <1>1 DEF vars
<1>2. ASSUME NEW p \in Proc,
             \/ TakeLock(p) \/ LockExists(p) \/ OwnerIsLive(p) \/ OwnerIsDead(p)
             \/ ReclaimLock(p) \/ ReclaimFails(p) \/ Release(p) \/ Emit(p)
      PROVE  WorkersOwned'
  BY <1>2 DEF TakeLock, LockExists, OwnerIsLive, OwnerIsDead, ReclaimLock,
              ReclaimFails, Release, Emit, Busy
<1>3. ASSUME NEW p \in Proc,
             \/ ListVersions(p) \/ PurgeFile(p) \/ PurgeEntry(p) \/ PurgeDone(p)
             \/ AbortFile(p) \/ AbortVersion(p)
      PROVE  WorkersOwned'
  BY <1>3 DEF ListVersions, PurgeFile, PurgeEntry, PurgeDone, AbortFile, AbortVersion
<1>4. ASSUME NEW p \in Proc,
             \/ Stage(p) \/ KillWorker(p) \/ RejectBundle(p) \/ AcceptBundle(p)
      PROVE  WorkersOwned'
  BY <1>4 DEF Stage, KillWorker, RejectBundle, AcceptBundle, BundleVerifies, AbortWith,
              WorkerRunning, Bundle
<1>5. ASSUME NEW p \in Proc,
             \/ CreatePending(p) \/ FlipCurrent(p) \/ PublishFails(p) \/ Confirm(p)
      PROVE  WorkersOwned'
  BY <1>5 DEF CreatePending, FlipCurrent, PublishFails, Confirm, AbortWith
<1>6. ASSUME NEW p \in Proc, Worker(p)
      PROVE  WorkersOwned'
  BY <1>6, WorkerEffect
<1>7. ASSUME NEW p \in Proc, Environment(p)
      PROVE  WorkersOwned'
  BY <1>7 DEF Environment, DeadlinePasses, Crash, RecyclePid, FileSystemError, BundleRead, LockFails,
              WorkerRunning, Bundle
<1> QED
  BY <1>1, <1>2, <1>3, <1>4, <1>5, <1>6, <1>7 DEF Next, Supervisor

LEMMA OkIsLastInductive ==
  VerifiedInv /\ TypeInv' /\ OkIsLast /\ [Next]_vars => OkIsLast'
<1> SUFFICES ASSUME VerifiedInv, TypeInv', OkIsLast, [Next]_vars
             PROVE  OkIsLast'
  OBVIOUS
<1> USE DEF VerifiedInv, TypeInv, TypeOK, NotSpawned, OkIsLast, Goto, Decide, Critical
<1>1. CASE UNCHANGED vars
  BY <1>1 DEF vars
<1>2. ASSUME NEW p \in Proc,
             \/ TakeLock(p) \/ LockExists(p) \/ OwnerIsLive(p) \/ OwnerIsDead(p)
             \/ ReclaimLock(p) \/ ReclaimFails(p) \/ Release(p) \/ Emit(p)
      PROVE  OkIsLast'
  BY <1>2 DEF TakeLock, LockExists, OwnerIsLive, OwnerIsDead, ReclaimLock,
              ReclaimFails, Release, Emit, Busy
<1>3. ASSUME NEW p \in Proc,
             \/ ListVersions(p) \/ PurgeFile(p) \/ PurgeEntry(p) \/ PurgeDone(p)
             \/ AbortFile(p) \/ AbortVersion(p)
      PROVE  OkIsLast'
  BY <1>3 DEF ListVersions, PurgeFile, PurgeEntry, PurgeDone, AbortFile, AbortVersion
<1>4. ASSUME NEW p \in Proc,
             \/ Stage(p) \/ KillWorker(p) \/ RejectBundle(p) \/ AcceptBundle(p)
             \/ CreatePending(p) \/ FlipCurrent(p) \/ PublishFails(p) \/ Confirm(p)
      PROVE  OkIsLast'
  BY <1>4 DEF Stage, KillWorker, RejectBundle, Rejection, AcceptBundle, CreatePending,
              FlipCurrent, PublishFails, Confirm, AbortWith
<1>5. ASSUME NEW p \in Proc, Worker(p) \/ Environment(p)
      PROVE  OkIsLast'
  BY <1>5 DEF Worker, procVars, Environment, DeadlinePasses, Crash, RecyclePid,
              FileSystemError, LockFails
<1> QED
  BY <1>1, <1>2, <1>3, <1>4, <1>5 DEF Next, Supervisor

\* A step of another process leaves a run in the state its purge made.
LEMMA ClearedByOthers ==
  ASSUME LockInv, TypeInv', WorkersOwned, [Next]_vars, ~misreclaim,
         NEW a \in Proc, Supervisor(a) \/ Worker(a) \/ Environment(a),
         NEW p \in Proc \ {a}, pc'[p] \in Critical, ClearedFor(p)
  PROVE  ClearedFor(p)'
<1> USE DEF LockInv
<1>1. pc[a] \in Critical => pc[p] \notin Critical
  BY DEF HoldersOwnTheLock
<1>2. pc[a] \notin Critical
  <2> SUFFICES ASSUME pc[a] \in Critical
               PROVE  pc'[p] = pc[p]
    BY <1>1
  <2> USE DEF TypeInv, TypeOK, Critical, Terminal, Goto
  <2>1. CASE \/ TakeLock(a) \/ LockExists(a) \/ OwnerIsLive(a) \/ OwnerIsDead(a)
             \/ ReclaimLock(a) \/ ReclaimFails(a) \/ Release(a)
    BY <2>1 DEF TakeLock, LockExists, OwnerIsLive, OwnerIsDead, ReclaimLock, ReclaimFails,
                Release
  <2>2. CASE ~\/ TakeLock(a) \/ LockExists(a) \/ OwnerIsLive(a) \/ OwnerIsDead(a)
              \/ ReclaimLock(a) \/ ReclaimFails(a) \/ Release(a)
    BY <2>2, OtherStepShape DEF Supervisor
  <2> QED
    BY <2>1, <2>2
<1>3. /\ UNCHANGED <<pending, current>>
      /\ todo'[p] = todo[p] /\ outcome'[p] = outcome[p] /\ pc'[p] = pc[p]
      /\ files[p] \subseteq files'[p]
      /\ dirs' \subseteq dirs \cup {v \in {a} : pc[v] \in Gone}
  BY <1>2, Outsider
<1>4. \A v \in Proc : pc[v] \in Gone => pc'[v] \in Gone
  BY GoneStays
<1>5. dirs \subseteq Proc /\ files'[p] \subseteq File
  BY DEF TypeInv, TypeOK
<1>6. Listed(p) => Listed(p)'
  BY <1>3, <1>4, <1>5 DEF Listed
<1>7. \A S : OrphansBut(S) => OrphansBut(S)'
  BY <1>3, <1>4, <1>5 DEF OrphansBut
<1>8. HoldsTheSlot(p) => HoldsTheSlot(p)'
  BY <1>3, <1>5 DEF HoldsTheSlot
<1>9. OrphansBut({}) => OrphansBut({})'
  BY <1>7
<1>10. OrphansBut({p}) => OrphansBut({p})'
  BY <1>7
<1> QED
  BY <1>3, <1>6, <1>8, <1>9, <1>10 DEF ClearedFor

\* A run's own steps: its purges remove what they listed, staging and the worker
\* add its own version, publication takes the slot.
LEMMA ClearedByItself ==
  ASSUME Unlistable = {}, LockInv, VerifiedInv, TypeInv', WorkersOwned, OkIsLast, EmptySlot,
         Intact, ~misreclaim, NEW p \in Proc, Supervisor(p) \/ Worker(p) \/ Environment(p),
         pc'[p] \in Critical, ClearedFor(p)
  PROVE  ClearedFor(p)'
<1> USE DEF VerifiedInv, TypeInv, TypeOK, Goto, Decide
<1>1. CASE TakeLock(p) \/ LockExists(p) \/ OwnerIsLive(p) \/ OwnerIsDead(p)
  BY <1>1 DEF TakeLock, LockExists, OwnerIsLive, OwnerIsDead, Busy, ClearedFor, Critical
<1>2. CASE ReclaimLock(p) \/ ReclaimFails(p) \/ Release(p) \/ Emit(p)
  BY <1>2 DEF ReclaimLock, ReclaimFails, Release, Emit, Busy, ClearedFor, Critical
<1>3. CASE ListVersions(p)
  <2>1. /\ pc'[p] = "purge" /\ UNCHANGED <<dirs, pending>>
        /\ todo'[p] = Existing
    BY <1>3 DEF ListVersions, Listing, diskVars
  <2>2. Listed(p)'
    BY <2>1 DEF Listed, Existing
  <2> QED
    BY <2>1, <2>2 DEF ClearedFor
<1>4. CASE PurgeFile(p)
  BY <1>4 DEF PurgeFile, RemoveFile, ClearedFor, Listed
<1>5. CASE PurgeEntry(p)
  <2>1. PICK e \in todo[p] :
          /\ dirs' = IF e[1] = "version" THEN dirs \ {e[2]} ELSE dirs
          /\ pending' = IF e[1] = "pending" THEN pending \ {e[2]} ELSE pending
          /\ todo' = [todo EXCEPT ![p] = @ \ {e}]
    BY <1>5 DEF PurgeEntry
  <2>2. UNCHANGED pc /\ pc[p] = "purge"
    BY <1>5 DEF PurgeEntry
  <2>3. ASSUME NEW v \in dirs', pc[v] \notin Gone
        PROVE  VersionEntry(v) \in todo'[p]
    <3>1. VersionEntry(v) \in todo[p]
      BY <2>1, <2>2, <2>3 DEF ClearedFor, Listed
    <3>2. VersionEntry(v) # e
      BY <2>1, <2>3 DEF VersionEntry
    <3> QED
      BY <2>1, <3>1, <3>2
  <2>4. ASSUME NEW v \in pending'
        PROVE  PendingEntry(v) \in todo'[p]
    <3>1. PendingEntry(v) \in todo[p]
      BY <2>1, <2>2 DEF ClearedFor, Listed
    <3>2. PendingEntry(v) # e
      BY <2>1, <2>4 DEF PendingEntry
    <3> QED
      BY <2>1, <3>1, <3>2
  <2> QED
    BY <2>2, <2>3, <2>4 DEF ClearedFor, Listed
<1>6. CASE PurgeDone(p)
  <2>1. /\ pc[p] = "purge" /\ todo[p] = {} /\ UNCHANGED <<dirs, pending, current, outcome>>
        /\ \A v \in Proc : pc[v] \in Gone => pc'[v] \in Gone
        /\ pc'[p] \in {"stage", "release"}
    BY <1>6 DEF PurgeDone, diskVars, Gone
  <2>2. OrphansBut({})' /\ pending = {}
    BY <2>1 DEF ClearedFor, Listed, OrphansBut
  <2>3. current = None
    BY <2>1 DEF EmptySlot
  <2>4. outcome[p] # "ok"
    BY <2>1 DEF OkIsLast, Critical
  <2> QED
    BY <2>1, <2>2, <2>3, <2>4 DEF ClearedFor
<1>7. CASE Stage(p)
  <2>1. /\ pc[p] = "stage" /\ dirs' = dirs \cup {p}
        /\ \A v \in Proc : pc[v] \in Gone => pc'[v] \in Gone
        /\ pc'[p] \in {"abort", "wait"}
    BY <1>7 DEF Stage, AbortWith, Gone
  <2>2. OrphansBut({p})'
    BY <2>1 DEF ClearedFor, OrphansBut
  <2> QED
    BY <2>1, <2>2 DEF ClearedFor
<1>8. CASE KillWorker(p) \/ RejectBundle(p) \/ PublishFails(p)
  BY <1>8 DEF KillWorker, RejectBundle, PublishFails, AbortWith, ClearedFor
<1>9. CASE AcceptBundle(p) \/ CreatePending(p)
  <2>1. /\ pc[p] \in {"wait", "pend"} /\ UNCHANGED dirs
        /\ \A v \in Proc : pc[v] \in Gone => pc'[v] \in Gone
        /\ pc'[p] \in {"abort", "pend", "flip"}
    BY <1>9 DEF AcceptBundle, CreatePending, AbortWith, Gone, diskVars
  <2>2. OrphansBut({p})'
    BY <2>1 DEF ClearedFor, OrphansBut
  <2> QED
    BY <2>1, <2>2 DEF ClearedFor
<1>10. CASE FlipCurrent(p)
  <2>1. /\ pc[p] = "flip" /\ UNCHANGED <<dirs, files>>
        /\ current' = p
        /\ \A v \in Proc : pc[v] \in Gone => pc'[v] \in Gone
        /\ pc'[p] = "confirm"
    BY <1>10 DEF FlipCurrent, Gone
  <2>2. OrphansBut({p})' /\ HoldsTheSlot(p)'
    BY <2>1 DEF ClearedFor, OrphansBut, HoldsTheSlot, Intact
  <2> QED
    BY <2>1, <2>2 DEF ClearedFor
<1>11. CASE Confirm(p)
  <2>1. /\ pc[p] = "confirm" /\ UNCHANGED <<dirs, files, current>>
        /\ \A v \in Proc : pc[v] \in Gone => pc'[v] \in Gone
        /\ pc'[p] = "abort" \/ (pc'[p] = "release" /\ outcome'[p] = "ok")
    BY <1>11 DEF Confirm, AbortWith, Gone, diskVars
  <2>2. OrphansBut({p})' /\ HoldsTheSlot(p)'
    BY <2>1 DEF ClearedFor, OrphansBut, HoldsTheSlot
  <2> QED
    BY <2>1, <2>2 DEF ClearedFor
<1>12. CASE AbortFile(p) \/ AbortVersion(p)
  BY <1>12 DEF AbortFile, AbortVersion, ClearedFor
<1>13. CASE Worker(p)
  <2>1. /\ UNCHANGED <<pc, outcome>>
        /\ worker[p] \in WorkerRunning
        /\ dirs' = dirs \/ dirs' = dirs \cup {p}
    BY <1>13, WorkerEffect
  <2>2. pc[p] = "wait"
    BY <2>1 DEF WorkersOwned, Critical, Gone
  <2>3. OrphansBut({p})'
    BY <2>1, <2>2 DEF ClearedFor, OrphansBut
  <2> QED
    BY <2>1, <2>2, <2>3 DEF ClearedFor
<1>14. CASE DeadlinePasses(p)
  BY <1>14 DEF DeadlinePasses, ClearedFor, Listed, OrphansBut, HoldsTheSlot, diskVars
<1>15. CASE Crash(p) \/ RecyclePid(p)
  BY <1>15 DEF Crash, RecyclePid, Critical
<1>16. CASE LockFails(p) \/ FileSystemError(p)
  BY <1>16 DEF FileSystemError, LockFails, ClearedFor
<1> QED
  BY <1>1, <1>2, <1>3, <1>4, <1>5, <1>6, <1>7, <1>8, <1>9, <1>10, <1>11, <1>12, <1>13, <1>14,
     <1>15, <1>16 DEF Supervisor, Environment

LEMMA ClearedInductive ==
  ASSUME Unlistable = {}
  PROVE  /\ LockInv /\ VerifiedInv /\ EmptySlot /\ Intact /\ WorkersOwned /\ OkIsLast
         /\ Cleared /\ TypeInv' /\ [Next]_vars
         => Cleared'
<1> SUFFICES ASSUME LockInv, VerifiedInv, EmptySlot, Intact, WorkersOwned, OkIsLast, Cleared,
                    TypeInv', [Next]_vars, ~misreclaim', NEW p \in Proc, pc'[p] \in Critical
             PROVE  ClearedFor(p)'
  BY DEF Cleared, ClearedFor, Critical
<1>1. ~misreclaim
  BY MisreclaimStays DEF LockInv
<1>2. ClearedFor(p)
  BY <1>1 DEF Cleared, ClearedFor
<1>3. CASE UNCHANGED vars
  BY <1>2, <1>3 DEF vars, ClearedFor, Listed, OrphansBut, HoldsTheSlot
<1>4. ASSUME NEW a \in Proc, Supervisor(a) \/ Worker(a) \/ Environment(a)
      PROVE  ClearedFor(p)'
  BY <1>1, <1>2, <1>4, ClearedByOthers, ClearedByItself
<1> QED
  BY <1>3, <1>4 DEF Next

\* From the end of its first purge a run shares the directory with nothing but
\* the versions of killed supervisors, and has the slot once it has published.
THEOREM ClearedAlways ==
  ASSUME Unlistable = {}
  PROVE  Spec => [](WorkersOwned /\ OkIsLast /\ Cleared)
<1>1. Init => WorkersOwned /\ OkIsLast /\ Cleared
  BY DEF Init, WorkersOwned, OkIsLast, Cleared, ClearedFor, WorkerRunning, Bundle, Critical
<1> QED
  BY <1>1, WorkersOwnedInductive, OkIsLastInductive, ClearedInductive, LockInvAlways,
     VerifiedAlways, EmptySlotAlways, IntactAlways, Typing, PTL DEF Spec

\* While no lock has been misreclaimed, a run that reports success is the one
\* `current` points at, whole and alone but for versions of killed supervisors,
\* whatever crashed before.
THEOREM SuccessPublished ==
  ASSUME Unlistable = {}
  PROVE  Spec => []SuccessIsPublished
<1>1. Cleared => SuccessIsPublished
  BY DEF Cleared, ClearedFor, SuccessIsPublished, HoldsTheSlot, OrphansBut
<1> QED
  BY <1>1, ClearedAlways, PTL

\* While no lock has been misreclaimed, a run that ends by abort() leaves nothing
\* published and nothing pending, and no version but those of killed supervisors.
THEOREM FailureClears ==
  ASSUME Unlistable = {}
  PROVE  Spec => []FailureLeavesNothing
<1>1. Cleared => FailureLeavesNothing
  BY DEF Cleared, ClearedFor, FailureLeavesNothing, OrphansBut
<1> QED
  BY <1>1, ClearedAlways, PTL

-----------------------------------------------------------------------------
(***************************************************************************)
(* A verified version is never written again.  Its worker has exited, and  *)
(* its supervisor, having spawned that worker, does not stage it again.    *)
(***************************************************************************)
\* A settled version loses files to a purge or an abort, and gains none.
LEMMA SettledShrinks ==
  ASSUME VerifiedInv, [Next]_vars, NEW v \in Proc, Settled(v)
  PROVE  \/ files'[v] = files[v]
         \/ /\ files'[v] \subseteq files[v]
            /\ \E p \in Proc : pc[p] \in Removing /\ UNCHANGED <<pc, lock>>
<1> USE DEF VerifiedInv, TypeInv, TypeOK, NotSpawned, Settled
<1>1. CASE UNCHANGED files
  BY <1>1
<1>2. ASSUME NEW p \in Proc, Stage(p)
      PROVE  files'[v] = files[v]
  BY <1>2 DEF Stage
<1>3. ASSUME NEW p \in Proc, PurgeFile(p) \/ AbortFile(p)
      PROVE  /\ files'[v] \subseteq files[v]
             /\ pc[p] \in Removing /\ UNCHANGED <<pc, lock>>
  BY <1>3 DEF PurgeFile, AbortFile, RemoveFile, Removing
<1>4. ASSUME NEW p \in Proc, Worker(p)
      PROVE  files'[v] = files[v]
  BY <1>4, WorkerEffect DEF WorkerRunning, Bundle
<1>5. ASSUME NEW p \in Proc, Supervisor(p) \/ Environment(p),
             ~Stage(p), ~PurgeFile(p), ~AbortFile(p)
      PROVE  UNCHANGED files
  BY <1>5 DEF Supervisor, Environment, TakeLock, LockExists, OwnerIsLive, OwnerIsDead,
       ReclaimLock, ReclaimFails, Release, Emit, ListVersions, KillWorker, PurgeEntry,
       PurgeDone, AbortVersion, RejectBundle, AcceptBundle, CreatePending,
       FlipCurrent, PublishFails, Confirm, DeadlinePasses, Crash, RecyclePid,
       FileSystemError, LockFails, diskVars
<1> QED
  BY <1>1, <1>2, <1>3, <1>4, <1>5 DEF Next, vars

\* What one step does to the published version while no lock is misreclaimed.
LEMMA PublishedStep ==
  ASSUME LockInv, VerifiedInv, [Next]_vars, current # None, ~misreclaim
  PROVE  \/ files'[current] = files[current]
         \/ /\ lock # None
            /\ pc[lock] \in Removing
            /\ files'[current] \subseteq files[current]
<1>1. current \in Proc /\ Settled(current)
  BY DEF VerifiedInv, Verified, TypeInv, TypeOK
<1>2. ASSUME NEW p \in Proc, pc[p] \in Removing
      PROVE  lock # None /\ pc[lock] \in Removing
  BY <1>2, ProcAssumption DEF LockInv, HoldersOwnTheLock, Removing, Critical
<1> QED
  BY <1>1, <1>2, SettledShrinks

\* While no lock has been misreclaimed, no worker, orphaned or not, writes into
\* the published version; only the process that holds the lock takes files from
\* it, by a purge or an abort.
THEOREM PublishedStable == Spec => PublishedVersionStable
<1>1. LockInv /\ VerifiedInv /\ [Next]_vars =>
        (current # None /\ ~misreclaim =>
           \/ files'[current] = files[current]
           \/ /\ lock # None
              /\ pc[lock] \in Removing
              /\ files'[current] \subseteq files[current])
  BY PublishedStep
<1> QED
  BY <1>1, LockInvAlways, VerifiedAlways, PTL DEF Spec, PublishedVersionStable

\* Files lie in version directories that exist: a directory is removed empty, and
\* a worker writes into none that is not there.
FilesInVersions == \A v \in Proc : files[v] # {} => v \in dirs

LEMMA FilesInVersionsInductive ==
  TypeInv /\ FilesInVersions /\ [Next]_vars => FilesInVersions'
<1> SUFFICES ASSUME TypeInv, FilesInVersions, [Next]_vars
             PROVE  FilesInVersions'
  OBVIOUS
<1> USE DEF TypeInv, TypeOK, FilesInVersions
<1>1. CASE UNCHANGED <<dirs, files>>
  BY <1>1
<1>2. ASSUME NEW p \in Proc, PurgeFile(p) \/ AbortFile(p)
      PROVE  FilesInVersions'
  BY <1>2 DEF PurgeFile, AbortFile, RemoveFile
<1>3. ASSUME NEW p \in Proc, PurgeEntry(p)
      PROVE  FilesInVersions'
  BY <1>3 DEF PurgeEntry
<1>4. ASSUME NEW p \in Proc, Stage(p) \/ AbortVersion(p) \/ FileSystemError(p)
      PROVE  FilesInVersions'
  BY <1>4 DEF Stage, AbortVersion, FileSystemError
<1>5. ASSUME NEW p \in Proc, Worker(p)
      PROVE  FilesInVersions'
  BY <1>5 DEF Worker, WorkerAdmitted, WorkerRefuses, WorkerReadsContract, WorkerGoto,
              WorkerEvaluates, WorkerWrites, WorkerSeals, WorkerDies, WriteSummary
<1>6. ASSUME NEW p \in Proc, Supervisor(p) \/ Environment(p), ~FileSystemError(p),
             ~Stage(p), ~PurgeFile(p), ~AbortFile(p), ~PurgeEntry(p), ~AbortVersion(p)
      PROVE  UNCHANGED <<dirs, files>>
  BY <1>6 DEF Supervisor, Environment, TakeLock, LockExists, OwnerIsLive, OwnerIsDead,
       ReclaimLock, ReclaimFails, Release, Emit, ListVersions, KillWorker,
       PurgeDone, RejectBundle, AcceptBundle, CreatePending,
       FlipCurrent, PublishFails, Confirm, DeadlinePasses, Crash, RecyclePid, LockFails, diskVars
<1> QED
  BY <1>1, <1>2, <1>3, <1>4, <1>5, <1>6 DEF Next, vars

\* Files lie in version directories that exist: neither a purge nor a worker whose
\* supervisor is gone leaves a file without its directory.
THEOREM FilesInVersionsAlways == Spec => []FilesInVersions
<1>1. Init => FilesInVersions
  BY DEF Init, FilesInVersions
<1> QED
  BY <1>1, FilesInVersionsInductive, Typing, PTL DEF Spec

EndsAlone ==
  \A p \in Proc :
    pc[p] = "release" =>
      /\ outcome[p] = "ok" => current = p /\ dirs = {p}
      /\ outcome[p] \in {"timeout", "refused", "infra"} =>
           current = None /\ pending = {} /\ dirs = {}

\* If no process is killed, there are no orphans: the version of a successful run
\* is the only one in the directory, and a failed run empties it.
THEOREM CrashFreeDirectory ==
  ASSUME Crashable = {}, Unlistable = {}
  PROVE  Spec => []EndsAlone
<1>1. TypeInv /\ NobodyGone /\ FilesInVersions /\ Cleared => EndsAlone
  <2> SUFFICES ASSUME TypeInv, NobodyGone, FilesInVersions, Cleared,
                      NEW p \in Proc, pc[p] = "release"
               PROVE  /\ outcome[p] = "ok" => current = p /\ dirs = {p}
                      /\ outcome[p] \in {"timeout", "refused", "infra"} =>
                           current = None /\ pending = {} /\ dirs = {}
    BY DEF EndsAlone
  <2>1. ClearedFor(p)
    BY DEF NobodyGone, Cleared
  <2>2. \A S : OrphansBut(S) => dirs \subseteq S
    BY DEF OrphansBut, NobodyGone, TypeInv, TypeOK
  <2>3. OrphansBut({p}) => dirs \subseteq {p}
    BY <2>2
  <2>4. OrphansBut({}) => dirs = {}
    BY <2>2
  <2>5. HoldsTheSlot(p) => current = p /\ p \in dirs
    BY DEF HoldsTheSlot, FilesInVersions, File
  <2> QED
    BY <2>1, <2>3, <2>4, <2>5 DEF ClearedFor
<1> QED
  BY <1>1, Typing, NobodyEverGone, FilesInVersionsAlways, ClearedAlways, PTL

-----------------------------------------------------------------------------
(***************************************************************************)
(* The state half of termination.                                          *)
(***************************************************************************)
\* How far a run is at l, in its n-th attempt at the lock, with outcome o: the
\* output directory is purged before the outcome is decided or after it.
Reached(l, n, o) ==
  CASE l = "acquire" -> 3 * n [] l = "inspect" -> 3 * n + 1 [] l = "reclaim" -> 3 * n + 2
    [] l = "list" -> IF o = "none" THEN 6 ELSE 14
    [] l = "purge" -> IF o = "none" THEN 7 ELSE 15
    [] l = "stage" -> 8 [] l = "wait" -> 9 [] l = "pend" -> 10 [] l = "flip" -> 11
    [] l = "confirm" -> 12 [] l = "abort" -> 13 [] l = "release" -> 16 [] l = "emit" -> 17
    [] l \in Terminal -> 18

Progress(p) == Reached(pc[p], attempt[p], outcome[p])

\* A purge or an abort has one entry or one file less before it.
Clears(p) ==
  \/ todo'[p] # todo[p] /\ todo'[p] \subseteq todo[p]
  \/ /\ UNCHANGED todo
     /\ \E v \in Proc : files'[v] # files[v] /\ files'[v] \subseteq files[v]

\* A run never waits for another one and never goes back: each step of its
\* supervisor brings it nearer to its end or takes something away that it is to
\* remove, and no step of anybody else puts it back (supervisor.mjs: the loop of
\* acquireOutputLock is the only one, and abort() is entered once).
SupervisorsAdvance ==
  [][\A p \in Proc :
       /\ Progress(p) <= Progress(p)'
       /\ Supervisor(p) => \/ Progress(p) < Progress(p)'
                           \/ pc[p] \in Removing /\ Clears(p)]_vars

\* The outcome is decided where the run aborts, confirms or is turned away.
DecidedLateFor(p) ==
  /\ pc[p] \in {"acquire", "inspect", "reclaim", "stage", "wait", "pend", "flip", "confirm"} =>
       outcome[p] = "none"
  /\ pc[p] = "abort" => outcome[p] # "none"

DecidedLate == \A p \in Proc : DecidedLateFor(p)

LEMMA SupervisorSteps ==
  ASSUME TypeInv, DecidedLate, NEW p \in Proc, Supervisor(p)
  PROVE  /\ Progress(p) <= Progress(p)'
         /\ Progress(p) < Progress(p)' \/ (pc[p] \in Removing /\ Clears(p))
         /\ DecidedLateFor(p)'
<1> USE DEF TypeInv, TypeOK, AttemptsLeft, MaxAttempts, DecidedLate, DecidedLateFor, Progress, Reached, Goto, Decide,
            Location, Critical, Terminal, Gone, Failure
<1>1. CASE TakeLock(p) \/ LockExists(p) \/ OwnerIsLive(p) \/ OwnerIsDead(p)
  BY <1>1 DEF TakeLock, LockExists, OwnerIsLive, OwnerIsDead, Busy
<1>2. CASE ReclaimLock(p) \/ ReclaimFails(p)
  BY <1>2 DEF ReclaimLock, ReclaimFails, Busy
<1>3. CASE ListVersions(p) \/ PurgeDone(p)
  BY <1>3 DEF ListVersions, PurgeDone
<1>4. CASE PurgeFile(p) \/ AbortFile(p)
  <2>1. pc[p] \in Removing /\ UNCHANGED <<pc, attempt, outcome, todo>>
    BY <1>4 DEF PurgeFile, AbortFile, Removing
  <2>2. \E v \in Proc : files'[v] # files[v] /\ files'[v] \subseteq files[v]
    BY <1>4 DEF PurgeFile, AbortFile, RemoveFile
  <2> QED
    BY <2>1, <2>2 DEF Clears
<1>5. CASE PurgeEntry(p)
  <2>1. pc[p] \in Removing /\ UNCHANGED <<pc, attempt, outcome>>
    BY <1>5 DEF PurgeEntry, Removing
  <2>2. todo'[p] # todo[p] /\ todo'[p] \subseteq todo[p]
    BY <1>5 DEF PurgeEntry
  <2> QED
    BY <2>1, <2>2 DEF Clears
<1>6. CASE Stage(p) \/ KillWorker(p) \/ RejectBundle(p) \/ AcceptBundle(p)
  BY <1>6 DEF Stage, KillWorker, RejectBundle, Rejection, AcceptBundle, AbortWith
<1>7. CASE CreatePending(p) \/ FlipCurrent(p) \/ PublishFails(p) \/ Confirm(p)
  BY <1>7 DEF CreatePending, FlipCurrent, PublishFails, Confirm, AbortWith
<1>8. CASE AbortVersion(p) \/ Release(p) \/ Emit(p)
  BY <1>8 DEF AbortVersion, Release, Emit
<1> QED
  BY <1>1, <1>2, <1>3, <1>4, <1>5, <1>6, <1>7, <1>8 DEF Supervisor

\* What the worker or the environment of p does to its run.
LEMMA OwnSurroundings ==
  ASSUME TypeInv, DecidedLate, NEW p \in Proc, Worker(p) \/ Environment(p)
  PROVE  Progress(p) <= Progress(p)' /\ DecidedLateFor(p)'
<1> USE DEF TypeInv, TypeOK, AttemptsLeft, MaxAttempts, DecidedLate, DecidedLateFor, Progress, Reached, Goto,
            Decide, Location, Critical, Terminal, Gone, Failure
<1>1. CASE Worker(p) \/ DeadlinePasses(p)
  <2>1. UNCHANGED <<pc, attempt, outcome>>
    BY <1>1 DEF Worker, DeadlinePasses, procVars
  <2> QED
    BY <2>1
<1>2. CASE LockFails(p) \/ FileSystemError(p) \/ Crash(p) \/ RecyclePid(p)
  BY <1>2 DEF FileSystemError, LockFails, Crash, RecyclePid
<1> QED
  BY <1>1, <1>2 DEF Environment

\* Nobody else moves a run.
LEMMA OthersApart ==
  ASSUME TypeInv, NEW a \in Proc, Supervisor(a) \/ Worker(a) \/ Environment(a), NEW p \in Proc \ {a}
  PROVE  pc'[p] = pc[p] /\ attempt'[p] = attempt[p] /\ outcome'[p] = outcome[p]
<1> USE DEF TypeInv, TypeOK, Goto, Decide
<1>1. CASE \/ TakeLock(a) \/ LockExists(a) \/ OwnerIsLive(a) \/ OwnerIsDead(a)
           \/ ReclaimLock(a) \/ ReclaimFails(a) \/ Release(a) \/ Emit(a)
  BY <1>1 DEF TakeLock, LockExists, OwnerIsLive, OwnerIsDead, ReclaimLock, ReclaimFails, Release, Emit, Busy
<1>2. CASE \/ ListVersions(a) \/ PurgeFile(a) \/ PurgeEntry(a) \/ PurgeDone(a)
           \/ Stage(a) \/ KillWorker(a) \/ RejectBundle(a) \/ AcceptBundle(a)
  BY <1>2 DEF ListVersions, PurgeFile, PurgeEntry, PurgeDone, Stage, KillWorker, RejectBundle, AcceptBundle,
              AbortWith
<1>3. CASE \/ CreatePending(a) \/ FlipCurrent(a) \/ PublishFails(a) \/ Confirm(a)
           \/ AbortFile(a) \/ AbortVersion(a)
  BY <1>3 DEF CreatePending, FlipCurrent, PublishFails, Confirm, AbortFile, AbortVersion, AbortWith
<1>4. CASE Worker(a) \/ Environment(a)
  BY <1>4 DEF Worker, procVars, Environment, DeadlinePasses, Crash, RecyclePid, FileSystemError, LockFails
<1> QED
  BY <1>1, <1>2, <1>3, <1>4 DEF Supervisor

LEMMA RunsAdvance ==
  ASSUME TypeInv, DecidedLate, [Next]_vars, NEW p \in Proc
  PROVE  Progress(p) <= Progress(p)' /\ DecidedLateFor(p)'
<1>1. Progress(p) \in Nat
  BY DEF TypeInv, TypeOK, MaxAttempts, Progress, Reached, Location, Critical, Terminal, Gone
<1>2. CASE UNCHANGED <<pc[p], attempt[p], outcome[p]>>
  BY <1>1, <1>2 DEF Progress, DecidedLate, DecidedLateFor
<1>3. CASE Supervisor(p) \/ Worker(p) \/ Environment(p)
  BY <1>3, SupervisorSteps, OwnSurroundings
<1>4. ASSUME NEW a \in Proc \ {p}, Supervisor(a) \/ Worker(a) \/ Environment(a)
      PROVE  UNCHANGED <<pc[p], attempt[p], outcome[p]>>
  BY <1>4, OthersApart
<1> QED
  BY <1>2, <1>3, <1>4 DEF Next, vars

\* A run makes boundedly many steps besides those that remove something, in
\* whatever company: it takes at most two looks at the lock, publishes at most once
\* and purges at most twice.
THEOREM SupervisorsAdvanceAlways == Spec => SupervisorsAdvance
<1>1. Init => DecidedLate
  BY DEF Init, DecidedLate, DecidedLateFor
<1>2. TypeInv /\ DecidedLate /\ [Next]_vars => DecidedLate'
  BY RunsAdvance DEF DecidedLate
<1>3. TypeInv /\ DecidedLate /\ [Next]_vars =>
        [\A p \in Proc :
           /\ Progress(p) <= Progress(p)'
           /\ Supervisor(p) => \/ Progress(p) < Progress(p)'
                               \/ pc[p] \in Removing /\ Clears(p)]_vars
  BY RunsAdvance, SupervisorSteps
<1> QED
  BY <1>1, <1>2, <1>3, Typing, PTL DEF Spec, SupervisorsAdvance
=================================================================================
