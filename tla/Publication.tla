------------------------------ MODULE Publication ------------------------------
(***************************************************************************)
(* Publication of evaluation bundles into one output directory.            *)
(*                                                                         *)
(* Every member of Proc is one operating-system process that runs          *)
(* `evaluate` (src/cli.mjs, runEvaluate): it calls evaluateSupervised      *)
(* (src/supervisor.mjs) once, which spawns one worker process              *)
(* (src/worker-evaluate.mjs), and then reads back what was published.      *)
(* All of them share the output directory: the symlink lock                *)
(* `.promotion-lock`, the version directories `.v-<token>`, the pending    *)
(* pointers `.current-<token>` and the pointer `current`.                  *)
(*                                                                         *)
(* A process's pid and its random token are both represented by the        *)
(* process itself, so `.v-<token>` is "version p" and the lock payload     *)
(* `pid:token` is "p".  One step is one file-system or process-table       *)
(* operation that another process can observe between; the two halves of   *)
(* an operation on a path private to the caller are one step.              *)
(***************************************************************************)
EXTENDS Naturals, FiniteSets

CONSTANTS
  Proc,        \* the processes that evaluate into this output directory
  Crashable,   \* the processes that may be killed before they finish
  Unlistable,  \* the processes whose readdir of the output directory may fail
  None         \* no process: an absent lock, an absent `current`

ASSUME ProcAssumption ==
  None \notin Proc /\ Crashable \subseteq Proc /\ Unlistable \subseteq Proc

VARIABLES
  pc,         \* where each process stands in evaluateSupervised
  attempt,    \* the loop counter of acquireOutputLock
  lock,       \* payload of `.promotion-lock`, None when it does not exist
  observed,   \* the dead owner a process read before it reclaims the lock
  misreclaim, \* history: some reclaim took a lock other than the one it observed
  dirs,       \* the version directories that exist
  files,      \* the files each version directory holds
  verdict,    \* what the worker wrote into supervised-result.json
  pending,    \* the pending pointers `.current-<token>` that exist
  current,    \* the version `current` points at
  todo,       \* directory entries a running purgeVersions has still to remove
  worker,     \* state of each process's worker
  late,       \* processes whose hard deadline has passed
  outcome,    \* what evaluateSupervised returns, or is going to
  emitted     \* the version whose receipt the CLI printed

procVars == <<pc, attempt, observed, todo, late, outcome, emitted>>
diskVars == <<dirs, files, verdict, pending, current>>
vars == <<pc, attempt, lock, observed, misreclaim, dirs, files, verdict,
          pending, current, todo, worker, late, outcome, emitted>>

-----------------------------------------------------------------------------
\* Mutant: a reclaimed lock is never retried.
MaxAttemptsOnce == 1
MaxAttempts == 2

\* The bundle members the supervisor digests, and everything a version holds.
Bundle == {"evidence", "receipt", "plan"}
File == Bundle \cup {"contract", "summary"}

\* The worker writes each member once, in this order; it is at the location
\* named for the member it writes next.
WriteNext == [evidence |-> "receipt", receipt |-> "plan", plan |-> "seal"]

\* Entries of the output directory that purgeVersions removes by name.
VersionEntry(p) == <<"version", p>>
PendingEntry(p) == <<"pending", p>>
CurrentEntry == <<"current", None>>
Entry == ({"version", "pending"} \X Proc) \cup {CurrentEntry}

\* Mutants: the purge leaves versions behind; the purge leaves `current`.
ExistingPointers ==
  {PendingEntry(p) : p \in pending} \cup (IF current = None THEN {} ELSE {CurrentEntry})
ExistingVersions == {VersionEntry(p) : p \in dirs} \cup {PendingEntry(p) : p \in pending}

Existing ==
  {VersionEntry(p) : p \in dirs} \cup {PendingEntry(p) : p \in pending}
    \cup (IF current = None THEN {} ELSE {CurrentEntry})

\* Program counters between acquiring the lock and releasing it.
Critical == {"list", "purge", "stage", "wait", "pend", "flip", "confirm", "abort", "release"}
Removing == {"purge", "abort"}
Gone == {"dead", "recycled"}
Terminal == {"done"} \cup Gone
Location == {"acquire", "inspect", "reclaim", "emit"} \cup Critical \cup Terminal

WorkerRunning == {"boot", "read", "evaluate", "seal"} \cup Bundle
Failure == {"busy", "timeout", "refused", "infra", "threw"}

\* process.kill(pid, 0): a recycled pid belongs to an unrelated live process.
ProcessIsAlive(p) == pc[p] # "dead"
\* Mutant: the owner is never probed.
LockIsStaleUnprobed == lock # None
LockIsStale == lock # None /\ ~ProcessIsAlive(lock)

-----------------------------------------------------------------------------
Init ==
  /\ pc = [p \in Proc |-> "acquire"]
  /\ attempt = [p \in Proc |-> 0]
  /\ lock = None
  /\ observed = [p \in Proc |-> None]
  /\ misreclaim = FALSE
  /\ dirs = {}
  /\ files = [p \in Proc |-> {}]
  /\ verdict = [p \in Proc |-> "none"]
  /\ pending = {}
  /\ current = None
  /\ todo = [p \in Proc |-> {}]
  /\ worker = [p \in Proc |-> "none"]
  /\ late = {}
  /\ outcome = [p \in Proc |-> "none"]
  /\ emitted = [p \in Proc |-> None]

Goto(p, l) == pc' = [pc EXCEPT ![p] = l]
Decide(p, o) == outcome' = [outcome EXCEPT ![p] = o]

-----------------------------------------------------------------------------
(***************************************************************************)
(* acquireOutputLock                                                       *)
(***************************************************************************)
Busy(p) ==
  /\ Goto(p, "done")
  /\ Decide(p, "busy")

TakeLock(p) ==
  /\ pc[p] = "acquire"
  /\ lock = None
  /\ lock' = p
  /\ Goto(p, "list")
  /\ UNCHANGED <<attempt, observed, misreclaim, diskVars, todo, worker, late, outcome, emitted>>

\* mkdir of the output directory, or the symlink, fails otherwise than by EEXIST.
LockFails(p) ==
  /\ pc[p] = "acquire"
  /\ Decide(p, "threw")
  /\ Goto(p, "done")
  /\ UNCHANGED <<attempt, lock, observed, misreclaim, diskVars, todo, worker, late, emitted>>

LockExists(p) ==
  /\ pc[p] = "acquire"
  /\ lock # None
  /\ Goto(p, "inspect")
  /\ UNCHANGED <<attempt, lock, observed, misreclaim, diskVars, todo, worker, late, outcome, emitted>>

\* readlink fails, or names a live process: OUTPUT_BUSY.
OwnerIsLive(p) ==
  /\ pc[p] = "inspect"
  /\ ~LockIsStale
  /\ Busy(p)
  /\ UNCHANGED <<attempt, lock, observed, misreclaim, diskVars, todo, worker, late, emitted>>

\* Mutant: a payload without a pid does not stop the reclaim.
OwnerIsDeadUnread(p) ==
  /\ pc[p] = "inspect"
  /\ lock # None
  /\ Goto(p, "reclaim")
  /\ UNCHANGED <<attempt, lock, observed, misreclaim, diskVars, todo, worker, late, outcome, emitted>>

OwnerIsDead(p) ==
  /\ pc[p] = "inspect"
  /\ LockIsStale
  /\ observed' = [observed EXCEPT ![p] = lock]
  /\ Goto(p, "reclaim")
  /\ UNCHANGED <<attempt, lock, misreclaim, diskVars, todo, worker, late, outcome, emitted>>

\* rename(.promotion-lock, .stale-lock-<token>) moves whatever lock is there
\* now; the loop ends after its second turn.
ReclaimLock(p) ==
  /\ pc[p] = "reclaim"
  /\ lock # None
  /\ lock' = None
  /\ misreclaim' = (misreclaim \/ lock # observed[p])
  /\ attempt' = [attempt EXCEPT ![p] = @ + 1]
  /\ IF attempt[p] + 1 < MaxAttempts
       THEN Goto(p, "acquire") /\ UNCHANGED outcome
       ELSE Busy(p)
  /\ UNCHANGED <<observed, diskVars, todo, worker, late, emitted>>

ReclaimFails(p) ==
  /\ pc[p] = "reclaim"
  /\ lock = None
  /\ Busy(p)
  /\ UNCHANGED <<attempt, lock, observed, misreclaim, diskVars, todo, worker, late, emitted>>

-----------------------------------------------------------------------------
(***************************************************************************)
(* purgeVersions: one readdir, then one rmSync per entry of that listing.  *)
(* rmSync removes a version directory file by file.                        *)
(***************************************************************************)
\* Node promises no readdir order; a version loses its files in any order.
RemoveFile(v) ==
  \E f \in files[v] : files' = [files EXCEPT ![v] = @ \ {f}]

\* A readdir that fails is taken for an empty directory.
Listing(p) == {Existing} \cup {{} : q \in Unlistable \cap {p}}

ListVersions(p) ==
  /\ pc[p] = "list"
  /\ \E entries \in Listing(p) : todo' = [todo EXCEPT ![p] = entries]
  /\ Goto(p, "purge")
  /\ UNCHANGED <<attempt, lock, observed, misreclaim, diskVars, worker, late, outcome, emitted>>

PurgeFile(p) ==
  /\ pc[p] = "purge"
  /\ \E v \in Proc : VersionEntry(v) \in todo[p] /\ RemoveFile(v)
  /\ UNCHANGED <<pc, attempt, lock, observed, misreclaim, dirs, verdict, pending,
                 current, todo, worker, late, outcome, emitted>>

PurgeEntry(p) ==
  /\ pc[p] = "purge"
  /\ \E e \in todo[p] :
       /\ e[1] = "version" => files[e[2]] = {}
       /\ dirs' = IF e[1] = "version" THEN dirs \ {e[2]} ELSE dirs
       /\ pending' = IF e[1] = "pending" THEN pending \ {e[2]} ELSE pending
       /\ current' = IF e = CurrentEntry THEN None ELSE current
       /\ todo' = [todo EXCEPT ![p] = @ \ {e}]
  /\ UNCHANGED <<pc, attempt, lock, observed, misreclaim, files, verdict, worker,
                 late, outcome, emitted>>

\* The first purge precedes staging; the purge of `abort` ends the run.
PurgeDone(p) ==
  /\ pc[p] = "purge"
  /\ todo[p] = {}
  /\ Goto(p, IF outcome[p] = "none" THEN "stage" ELSE "release")
  /\ UNCHANGED <<attempt, lock, observed, misreclaim, diskVars, todo, worker, late, outcome, emitted>>

-----------------------------------------------------------------------------
(***************************************************************************)
(* The body of evaluateSupervised under the lock.                          *)
(***************************************************************************)
AbortWith(p, o) ==
  /\ Decide(p, o)
  /\ Goto(p, "abort")

\* mkdir `.v-<token>`, write work-contract.json, check the budget, spawn.
Stage(p) ==
  /\ pc[p] = "stage"
  /\ dirs' = dirs \cup {p}
  /\ files' = [files EXCEPT ![p] = {"contract"}]
  /\ IF p \in late
       THEN AbortWith(p, "timeout") /\ UNCHANGED worker
       ELSE /\ worker' = [worker EXCEPT ![p] = "boot"]
            /\ Goto(p, "wait")
            /\ UNCHANGED outcome
  /\ UNCHANGED <<attempt, lock, observed, misreclaim, verdict, pending, current,
                 todo, late, emitted>>

\* A worker reported a bundle, and its members are read to be digested.
BundleRead(p) == worker[p] = "exited" /\ verdict[p] \in {"sound", "unsound"}

\* rmSync (of an entry, or of the pending pointer after a failed publication),
\* mkdirSync, writeFileSync or the readFileSync of a bundle member throws: the
\* finally block still runs, without abort().
FileSystemError(p) ==
  /\ \/ pc[p] \in {"purge", "stage", "abort", "pend", "flip"}
     \/ pc[p] = "wait" /\ BundleRead(p)
  /\ \/ UNCHANGED dirs
     \/ pc[p] = "stage" /\ dirs' = dirs \cup {p}
  /\ Decide(p, "threw")
  /\ Goto(p, "release")
  /\ UNCHANGED <<attempt, lock, observed, misreclaim, files, verdict, pending,
                 current, todo, worker, late, emitted>>

\* Mutant: spawnSync without a timeout.
KillWorkerNever(p) == pc[p] = "wait" /\ FALSE /\ UNCHANGED vars

\* spawnSync's timeout kills the worker with SIGKILL.
KillWorker(p) ==
  /\ pc[p] = "wait"
  /\ p \in late
  /\ worker[p] \in WorkerRunning
  /\ worker' = [worker EXCEPT ![p] = "failed"]
  /\ AbortWith(p, "timeout")
  /\ UNCHANGED <<attempt, lock, observed, misreclaim, diskVars, todo, late, emitted>>

\* Mutant: the summary's word is taken for the bundle.
BundleVerifiesUnread(p) ==
  /\ worker[p] = "exited"
  /\ Bundle \cup {"summary"} \subseteq files[p]

\* Exit status, summary, receipt binding, exact manifest, member digests.
BundleVerifies(p) ==
  /\ worker[p] = "exited"
  /\ verdict[p] = "sound"
  /\ Bundle \cup {"summary"} \subseteq files[p]

\* What the first failing check of the supervisor reports.
Rejection(p) ==
  IF worker[p] = "exited" /\ "summary" \in files[p] /\ verdict[p] = "refused"
    THEN "refused" ELSE "infra"

RejectBundle(p) ==
  /\ pc[p] = "wait"
  /\ worker[p] \notin WorkerRunning
  /\ ~BundleVerifies(p)
  /\ AbortWith(p, Rejection(p))
  /\ UNCHANGED <<attempt, lock, observed, misreclaim, diskVars, todo, worker, late, emitted>>

AcceptBundle(p) ==
  /\ pc[p] = "wait"
  /\ BundleVerifies(p)
  /\ IF p \in late
       THEN AbortWith(p, "timeout")
       ELSE Goto(p, "pend") /\ UNCHANGED outcome
  /\ UNCHANGED <<attempt, lock, observed, misreclaim, diskVars, todo, worker, late, emitted>>

\* symlink `.current-<token>`
CreatePending(p) ==
  /\ pc[p] = "pend"
  /\ pending' = pending \cup {p}
  /\ Goto(p, "flip")
  /\ UNCHANGED <<attempt, lock, observed, misreclaim, dirs, files, verdict, current,
                 todo, worker, late, outcome, emitted>>

\* rename `.current-<token>` to `current`
FlipCurrent(p) ==
  /\ pc[p] = "flip"
  /\ p \in pending
  /\ pending' = pending \ {p}
  /\ current' = p
  /\ Goto(p, "confirm")
  /\ UNCHANGED <<attempt, lock, observed, misreclaim, dirs, files, verdict, todo,
                 worker, late, outcome, emitted>>

\* symlink or rename fails: the pending pointer is removed before the abort.
PublishFails(p) ==
  /\ pc[p] \in {"pend", "flip"}
  /\ pending' = pending \ {p}
  /\ AbortWith(p, "infra")
  /\ UNCHANGED <<attempt, lock, observed, misreclaim, dirs, files, verdict, current,
                 todo, worker, late, emitted>>

\* The deadline is checked once more after publication.
Confirm(p) ==
  /\ pc[p] = "confirm"
  /\ IF p \in late
       THEN AbortWith(p, "timeout")
       ELSE Decide(p, "ok") /\ Goto(p, "release")
  /\ UNCHANGED <<attempt, lock, observed, misreclaim, diskVars, todo, worker, late, emitted>>

\* abort(): remove the own version, then purge the output directory.
AbortFile(p) ==
  /\ pc[p] = "abort"
  /\ RemoveFile(p)
  /\ UNCHANGED <<pc, attempt, lock, observed, misreclaim, dirs, verdict, pending,
                 current, todo, worker, late, outcome, emitted>>

\* Mutant: the own version is removed, the rest is not purged.
AbortOwnVersionOnly(p) ==
  /\ pc[p] = "abort"
  /\ files[p] = {}
  /\ dirs' = dirs \ {p}
  /\ Goto(p, "release")
  /\ UNCHANGED <<attempt, lock, observed, misreclaim, files, verdict, pending,
                 current, todo, worker, late, outcome, emitted>>

AbortVersion(p) ==
  /\ pc[p] = "abort"
  /\ files[p] = {}
  /\ dirs' = dirs \ {p}
  /\ Goto(p, "list")
  /\ UNCHANGED <<attempt, lock, observed, misreclaim, files, verdict, pending,
                 current, todo, worker, late, outcome, emitted>>

\* lock.release() in the finally block: throws over the result when the lock
\* names somebody else, and is silent when it is gone.
Release(p) ==
  /\ pc[p] = "release"
  /\ lock' = IF lock = p THEN None ELSE lock
  /\ IF lock \in {p, None}
       THEN /\ UNCHANGED outcome
            /\ Goto(p, IF outcome[p] = "ok" THEN "emit" ELSE "done")
       ELSE Decide(p, "threw") /\ Goto(p, "done")
  /\ UNCHANGED <<attempt, observed, misreclaim, diskVars, todo, worker, late, emitted>>

\* runEvaluate, full projection: after the lock is released, read
\* current/receipt.json, check the budget, print.
Emit(p) ==
  /\ pc[p] = "emit"
  /\ Goto(p, "done")
  /\ IF current = None \/ "receipt" \notin files[current]
       THEN Decide(p, "infra") /\ UNCHANGED emitted
       ELSE IF p \in late
         THEN Decide(p, "timeout") /\ UNCHANGED emitted
         ELSE emitted' = [emitted EXCEPT ![p] = current] /\ UNCHANGED outcome
  /\ UNCHANGED <<attempt, lock, observed, misreclaim, diskVars, todo, worker, late>>

Supervisor(p) ==
  \/ TakeLock(p) \/ LockExists(p) \/ OwnerIsLive(p) \/ OwnerIsDead(p)
  \/ ReclaimLock(p) \/ ReclaimFails(p)
  \/ ListVersions(p) \/ PurgeFile(p) \/ PurgeEntry(p) \/ PurgeDone(p)
  \/ Stage(p) \/ KillWorker(p) \/ RejectBundle(p) \/ AcceptBundle(p)
  \/ CreatePending(p) \/ FlipCurrent(p) \/ PublishFails(p) \/ Confirm(p)
  \/ AbortFile(p) \/ AbortVersion(p) \/ Release(p) \/ Emit(p)

-----------------------------------------------------------------------------
(***************************************************************************)
(* The worker of p.  It outlives a killed supervisor.                      *)
(***************************************************************************)
WorkerGoto(p, l) == worker' = [worker EXCEPT ![p] = l]

\* supervised-result.json, always written last; without its directory the
\* write throws and the worker exits with an error.
WriteSummary(p, v) ==
  IF p \in dirs
    THEN /\ files' = [files EXCEPT ![p] = @ \cup {"summary"}]
         /\ verdict' = [verdict EXCEPT ![p] = v]
         /\ WorkerGoto(p, "exited")
    ELSE WorkerGoto(p, "failed") /\ UNCHANGED <<files, verdict>>

\* committedAdmission and the signing-key preflight pass.
WorkerAdmitted(p) ==
  /\ worker[p] = "boot"
  /\ WorkerGoto(p, "read")
  /\ UNCHANGED <<files, verdict, dirs>>

\* NOT_ADMITTED, SIGNATURE_INVALID, or evaluateCandidate returns a failure.
WorkerRefuses(p) ==
  /\ worker[p] \in {"boot", "evaluate", "evidence", "receipt"}
  /\ WriteSummary(p, "refused")
  /\ UNCHANGED dirs

WorkerReadsContract(p) ==
  /\ worker[p] = "read"
  /\ WorkerGoto(p, IF "contract" \in files[p] THEN "evaluate" ELSE "failed")
  /\ UNCHANGED <<files, verdict, dirs>>

\* evaluateCandidate: mkdirSync(outDir, {recursive: true}) and the evidence
\* store recreate a version directory that was removed in the meantime.
WorkerEvaluates(p) ==
  /\ worker[p] = "evaluate"
  /\ dirs' = dirs \cup {p}
  /\ WorkerGoto(p, "evidence")
  /\ UNCHANGED <<files, verdict>>

WorkerWrites(p) ==
  /\ worker[p] \in Bundle
  /\ IF p \in dirs
       THEN /\ files' = [files EXCEPT ![p] = @ \cup {worker[p]}]
            /\ WorkerGoto(p, WriteNext[worker[p]])
       ELSE WorkerGoto(p, "failed") /\ UNCHANGED files
  /\ UNCHANGED <<verdict, dirs>>

\* The manifest digests the three members.  "unsound" stands for a summary or
\* receipt that does not pass the supervisor's independent validation.
WorkerSeals(p) ==
  /\ worker[p] = "seal"
  /\ IF Bundle \subseteq files[p]
       THEN \E v \in {"sound", "unsound"} : WriteSummary(p, v)
       ELSE WorkerGoto(p, "failed") /\ UNCHANGED <<files, verdict>>
  /\ UNCHANGED dirs

\* An uncaught exception, or the operating system kills it.
WorkerDies(p) ==
  /\ worker[p] \in WorkerRunning
  /\ WorkerGoto(p, "failed")
  /\ UNCHANGED <<files, verdict, dirs>>

Worker(p) ==
  /\ \/ WorkerAdmitted(p) \/ WorkerRefuses(p) \/ WorkerReadsContract(p)
     \/ WorkerEvaluates(p) \/ WorkerWrites(p) \/ WorkerSeals(p) \/ WorkerDies(p)
  /\ UNCHANGED <<procVars, lock, misreclaim, pending, current>>

-----------------------------------------------------------------------------
(***************************************************************************)
(* The environment.                                                        *)
(***************************************************************************)
DeadlinePasses(p) ==
  /\ pc[p] \notin Terminal
  /\ p \notin late
  /\ late' = late \cup {p}
  /\ UNCHANGED <<pc, attempt, lock, observed, misreclaim, diskVars, todo, worker,
                 outcome, emitted>>

\* The supervisor process is killed: no finally block runs.  A release() that
\* cannot read or unlink the lock ends no differently: the process exits with
\* an error and leaves its lock.
Crash(p) ==
  /\ p \in Crashable
  /\ pc[p] \notin Terminal
  /\ Goto(p, "dead")
  /\ UNCHANGED <<attempt, lock, observed, misreclaim, diskVars, todo, worker, late,
                 outcome, emitted>>

\* The pid of a dead process is given to an unrelated one.
RecyclePid(p) ==
  /\ pc[p] = "dead"
  /\ Goto(p, "recycled")
  /\ UNCHANGED <<attempt, lock, observed, misreclaim, diskVars, todo, worker, late,
                 outcome, emitted>>

Environment(p) == DeadlinePasses(p) \/ Crash(p) \/ RecyclePid(p) \/ LockFails(p) \/ FileSystemError(p)

Next == \E p \in Proc : Supervisor(p) \/ Worker(p) \/ Environment(p)

Spec == Init /\ [][Next]_vars

\* Every process is scheduled, its clock advances, and its worker either makes
\* progress or is killed by the deadline.
Fairness == \A p \in Proc : WF_vars(Supervisor(p)) /\ WF_vars(DeadlinePasses(p))

FairSpec == Spec /\ Fairness

-----------------------------------------------------------------------------
(***************************************************************************)
(* Properties.                                                             *)
(***************************************************************************)
\* Every variable keeps its type, and a process that goes to reclaim a lock has
\* read the payload of another process (types of the state of acquireOutputLock,
\* purgeVersions and evaluateSupervised).
TypeOK ==
  /\ pc \in [Proc -> Location]
  /\ attempt \in [Proc -> 0..MaxAttempts]
  /\ lock \in Proc \cup {None}
  /\ observed \in [Proc -> Proc \cup {None}]
  /\ \A p \in Proc : pc[p] = "reclaim" => observed[p] \in Proc \ {p}
  /\ misreclaim \in BOOLEAN
  /\ dirs \subseteq Proc
  /\ files \in [Proc -> SUBSET File]
  /\ verdict \in [Proc -> {"none", "refused", "sound", "unsound"}]
  /\ pending \subseteq Proc
  /\ current \in Proc \cup {None}
  /\ todo \in [Proc -> SUBSET Entry]
  /\ worker \in [Proc -> {"none", "exited", "failed"} \cup WorkerRunning]
  /\ late \subseteq Proc
  /\ outcome \in [Proc -> {"none", "ok"} \cup Failure]
  /\ emitted \in [Proc -> Proc \cup {None}]

\* Same-output publication is serialized: at most one process is between
\* acquiring and releasing the lock.
LockGuardsDirectory ==
  \A p, q \in Proc : pc[p] \in Critical /\ pc[q] \in Critical => p = q

\* Whatever crashes, the serialization is lost only after a reclaim renamed
\* away a lock other than the dead owner's lock it had read.
ExclusiveUnlessMisreclaimed == misreclaim \/ LockGuardsDirectory

\* While no lock has been misreclaimed, `current` is flipped only onto a version
\* that is whole, whose worker has exited and whose bundle was verified, contract
\* included.
PublishesOnlyVerified ==
  [][\A p \in Proc :
       current' = p /\ current # p /\ ~misreclaim =>
         verdict[p] = "sound" /\ files[p] = File /\ worker[p] = "exited"]_vars

\* While no lock has been misreclaimed, a published version changes only when the
\* process holding the lock removes files: no worker, orphaned or not, writes into
\* it any more.
PublishedVersionStable ==
  [][current # None /\ ~misreclaim =>
       \/ files'[current] = files[current]
       \/ /\ lock # None
          /\ pc[lock] \in Removing
          /\ files'[current] \subseteq files[current]]_vars

\* While no lock has been misreclaimed, a run that ended by abort() leaves no
\* `current`, no pending pointer and no version except those that workers of
\* killed supervisors recreate.
FailureLeavesNothing ==
  \A p \in Proc :
    pc[p] = "release" /\ outcome[p] \in {"timeout", "refused", "infra"} /\ ~misreclaim =>
      /\ current = None
      /\ pending = {}
      /\ \A v \in dirs : pc[v] \in Gone

\* While no lock has been misreclaimed, a run that reports success is the one
\* `current` points at, with its bundle whole, and it is the only version except
\* those of killed supervisors.
SuccessIsPublished ==
  \A p \in Proc :
    pc[p] = "release" /\ outcome[p] = "ok" /\ ~misreclaim =>
      /\ current = p
      /\ files[p] = File
      /\ \A v \in dirs \ {p} : pc[v] \in Gone

\* The CLI prints only a receipt that some supervisor verified and published,
\* even when the lock has been misreclaimed.
EmitsOnlyVerified ==
  \A p \in Proc : emitted[p] # None => verdict[emitted[p]] = "sound"

\* Every run ends: no worker, lock or purge can hold a supervisor for ever.
EveryRunEnds == \A p \in Proc : pc[p] = "acquire" ~> pc[p] \in Terminal

\* The lock and the pointer, seen together, implement the abstract turn-taking
\* publication: the lock is the turn and `current` the slot.
Serialized == INSTANCE SerializedPublication WITH holder <- lock, published <- current
ImplementsSerialized == Serialized!Spec

\* A crashed supervisor leaves no permanent lock: a process that starts when
\* nobody else is running does not end with OUTPUT_BUSY, unless the dead
\* owner's pid has been given to another process.
CrashNeverWedges ==
  \A p \in Proc :
    (/\ pc[p] = "acquire"
     /\ attempt[p] = 0
     /\ \A q \in Proc \ {p} : pc[q] \in {"done", "dead"})
      ~> \/ pc[p] \in Terminal /\ outcome[p] # "busy"
         \/ \E q \in Proc : pc[q] \in Gone /\ (q = p \/ pc[q] = "recycled")
=============================================================================
