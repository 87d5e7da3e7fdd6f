# Shedu promotion kernel: TLA+ models and proofs

The kernel decides whether a candidate revision of a repository may be
promoted. It compiles a plan of checks from documents at an immutable base
commit, runs the checks in order under one deadline, reduces their results to
`PROMOTABLE` or `BLOCKED`, binds everything into a receipt and an evidence
store, and publishes the bundle atomically into an output directory. This
directory holds TLA+ models of that program, the TLC configurations that check
them and TLAPS proofs about them. Paths below are relative to the repository.

## The system

| Component | Source | State it keeps | Operations | What makes it hard |
|---|---|---|---|---|
| supervisor | `src/supervisor.mjs` | `.promotion-lock`, `.v-<token>`, `.current-<token>`, `current` | acquire, purge, stage, supervise, verify, publish, abort, release | several processes on one directory, kills, pid reuse, deadline at any step |
| worker | `src/worker-evaluate.mjs` | the files of one version | admit, evaluate, sign, seal, summarise | survives its supervisor; can be killed between any two writes |
| command line | `src/cli.mjs` | - | evaluate, status, inspect-evidence, compile, verify-receipt | reads back after the lock is gone |
| bundle reader | `src/agent-projection.mjs` | what it resolved | resolve, read, verify, assert stable | takes no lock |
| evaluator | `src/evaluate.mjs`, `src/deadline.mjs` | results, halt code, evidence index, worktrees, reports | load, run checks, anchor, finalize, self-verify | clock moves during every check, any step may throw |
| validators | `src/validators/*.mjs` | - | one function per built-in check | `validation-plan` runs several commands against the clock |
| reducer | `src/reducer.mjs` | `byCheckId`, `blockingReasons` | reduce | forged, repeated and missing results |
| receipts, evidence | `src/receipt.mjs`, `src/evidence.mjs` | the index and its objects | put, finalize, verify | byte ceiling, tampering between writing and verifying |
| compiler | `src/compiler.mjs` | counters and frontier of the ordering, collected errors | compile | ordering with refused dependencies, two points at which errors stop it, what the profile may change of the kernel's packs |
| authority | `src/authority.mjs`, `src/authorization.mjs`, `src/git-authority.mjs` | - | load, verify | mutable refs versus immutable objects |
| admission, lifecycle, qualification | `src/admission.mjs`, `src/lifecycle.mjs`, `src/pilot-qualification.mjs`, `src/activation.mjs` | what was read of the checkout | qualify, read, decide | a checkout that moves between five reads; decision tables over many documents |
| runner, sandbox | `src/runner.mjs`, `src/process-tree-supervisor.mjs`, `src/sandbox.mjs`, ... | child processes, the memoised probes, the read projection | probe, run, bound, kill, remove | process trees, timeouts, a client, a daemon and a supervisor that fail apart |
| installer | `scripts/experimental-kernel.mjs` | kernel cache, install lock | ensure installed | concurrent installers, crash between renames |
| census, documents, scripts | the rest | - | pure checks and generators | - |

The command line calls `evaluateSupervised`; the supervisor spawns the worker
and communicates with it only through files of the version directory and the
exit status; the worker calls the evaluator, which calls validators, reducer,
evidence index and receipt verification in-process; readers and other runs meet
the supervisor only on the file system.

### What makes each part correct

- *supervisor, worker*: one publisher at a time; `current` leads only to a
  bundle that was verified; a run that fails or times out leaves nothing
  published; a crash wedges nobody; every run ends.
- *bundle reader, command line*: VERIFIED is said only of a bundle that was
  published and is still current; what is printed was verified.
- *evaluator, validators, receipts*: PROMOTABLE needs every command of every
  required check to have succeeded in time on an uncorrupted candidate; every
  check of the plan gets exactly one result; after a halt nothing runs; a
  receipt is lost only for reasons that can be named; the worktrees go away.
- *reducer*: PROMOTABLE exactly when it is earned, in any order of arrival.
- *compiler*: a plan keeps every check of the kernel as the kernel declares it,
  runs dependencies first, is the same for equal documents and holds nothing
  beyond the authority of its contract; a cycle is always reported; what the
  gates let through makes a valid plan.
- *runner, process-tree supervisor*: what passes is whole; the resource report
  comes after the last process it reports about; a refused fork is never hidden;
  nothing survives a command unless its container could not be removed or its
  host was killed; the command returns whatever its processes do.
- *admission, lifecycle, qualification*: a kernel is admitted, or is eligible as a
  pilot, only for the commit that the external authority attested, whatever is
  read of a moving checkout; lifecycle evidence never takes an admission away.
- *installer*: one installer at a time; what is launched was verified; a
  launcher that was told the kernel is installed finds it, unless somebody is
  installing; nothing is left behind; every launcher ends.

## The modules

| Module | Models | Built on |
|---|---|---|
| `SerializedPublication` | what publication promises: publishers take turns, a bundle appears only in an empty slot, only the holder withdraws it | - |
| `Publication` | `evaluateSupervised`, `acquireOutputLock`, `purgeVersions`, the worker's writes, `runEvaluate`'s last read | implements `SerializedPublication` with `holder <- lock`, `published <- current` |
| `BundleReader` | lock-free readers next to the publishers; the projection worker of `evaluate --projection agent` | extends `Publication` |
| `Reducer` | `reduceDisposition` as a closed form over a sequence of results | - |
| `ResultStream` | the two loops of `reduceDisposition`, one result at a time | extends `Reducer` |
| `Evaluation` | `evaluateCandidate`: worktrees, the check loop, commands, deadline, anchoring, self-verification | extends `Reducer` |
| `Compilation` | `compilePlan` and its callers: authorization (`evaluateCandidate` only), selection, dependencies, Kahn's loop, checks, the plan and its validation | - |
| `CommandRun` | `runTargetCommand` on Linux: probes, container, process-tree supervisor, timeout, removal, verdict | - |
| `PilotQualification` | the qualification compiler and the verification of its receipt, as operators | - |
| `Admission` | `committedAdmission`: the reads of the checkout, the conformance and the lifecycle decision | extends `PilotQualification` |
| `SerializedInstall` | what an installation promises: installers take turns, a copy is never overwritten, and is thrown away only behind another one or after a failed move back | - |
| `KernelInstall` | `ensureKernelInstalled` by several launchers, and the launch of what is installed | implements `SerializedInstall` with `holder <- lock`, `place <- kernel`, `taken <-` the copy its holder displaced |
| `PublicationProofs`, `BundleReaderProofs`, `ReducerProofs`, `EvaluationProofs`, `CompilationProofs`, `CommandRunProofs`, `AdmissionProofs`, `KernelInstallProofs` | theorems | extend the module they name (`ReducerProofs`: `ResultStream`; `BundleReaderProofs` also `PublicationProofs`) |
| `MCPublication`, `MCResultStream`, `MCEvaluation`, `MCCompilation`, `MCCommandRun`, `MCAdmission`, `MCKernelInstall` | constants, symmetry and constraints for TLC | extend the module they name |

The modules meet in their interfaces: the verdict that `Publication` takes from a
worker is the outcome of `Evaluation`; the plan that `Evaluation` runs, with its
`MandatoryAssumption`, is what `Compilation` is proved to emit
(`KernelUndiminished`, `ThrownOnlyForSize`); the outcomes of a command in
`Evaluation` are the results of `CommandRun`; the disposition is `Reducer`'s.
They are not composed into one specification, as the parts run one after the
other in one process and share no state beyond these values; the composition
that does interleave, publishers with publishers and with readers, is
`Publication` and `BundleReader`.

A definition whose name ends in a description of a defect (`LockIsStaleUnprobed`,
`CodesOfLateAccepted`, ...) is a mutant, marked so in its comment. It is used by
no specification; replacing the definition behind it by the mutant makes TLC
find a violation, which shows that the property can fail.

### Publication

A member of `Proc` is one operating-system process that runs `evaluate`. Its
pid and its random token are the process itself. `pc[p]` is its place in
`evaluateSupervised`; `lock`, `dirs`, `files`, `pending`, `current` are the
output directory; `worker[p]` is its child, with its own actions, which goes on
when the parent is killed; `late` are the processes whose deadline has passed.

One action is one file-system or process-table operation that another process
can observe between: reading the lock's owner (`OwnerIsLive`, `OwnerIsDead`) and
renaming it away (`ReclaimLock`) are two steps, and so is every entry and every
file a purge removes. `readdir` returns the entries that exist when it runs
(`Listing`); what appears later survives the purge. `Crash` skips the `finally`
block; `RecyclePid` makes the owner of a lock look alive for ever;
an operation that throws is `FileSystemError` (removing an entry, in a purge, an
abort or after a failed publication; making the version; reading a bundle member),
`PublishFails` (the pending pointer or the rename, which the code catches) or
`LockFails` (making the lock). A `release` that cannot read or unlink the lock
leaves what a `Crash` there leaves. The unlink of a lock that has been renamed to
`.stale-lock-<token>` is part of `ReclaimLock`: that entry blocks nobody and no
purge looks at it. The history
variable `misreclaim` becomes true when a reclaim renames away a lock other
than the one that was read: exclusion holds up to that point, and the run
`publication_reclaim_race` reaches it.

### BundleReader

A reader goes through `resolve`, `read`, `verify`, `stable` (and `object`,
`restable` for `inspect-evidence`), one operation a step, while publishers move.
`identity` is what `statIdentity` can tell apart: the entries of the version
directory, not those of the evidence store below it. `Project` is the return of
the spawned projection worker into `runEvaluate`.

### Reducer and ResultStream

A result is a record of its shape, the check it names, what it binds to, its
outcome and its codes. `Reducer` defines what is kept, repeated and mismatched
in a sequence of results, and the disposition; `ResultStream` is the code's
accumulation in `byCheckId` and `blockingReasons`.

### Evaluation

The parameters are a compiled plan: its checks in order, their phases,
validators and commands, the halting checks, whether the contract is bounded.
`pc` is the place in `evaluateCandidate`, `i` the check, `k` the command.
`Begin`/`Skip` are the top of the loop, `Record` its bottom (schema check of the
result, halting), and the actions between are the outcomes a validator can
have. The clock has three values because the code reads it in two ways:
`expired()` compares, `remainingMs()` rounds, so in the last half millisecond
("closing") a command is refused although the deadline is not past. `Tick` may
come at any step. `ran[x]` is the history of one command, from which reason
codes, reports and references follow. `dirty` is what the conformance hooks
corrupt between two phases. `SelfErrors` are the errors `verifyReceipt` can find
in a receipt this run made; `Verify` may also return `SCHEMA_VIOLATION`, for a
finalized receipt that its schema refuses. `ResolvePaths` and `AddWorktreeFails` are
the way to the two worktrees: git may refuse one, its directory may then stay
because its own removal throws ("partial" in `worktrees`), and the real path of
either may not be found. `maxRefs` is chosen once, from `RefLimits`. That the
supervisor may kill the worker, worktrees and all, is in `Publication` and
`CommandRun` and not here: the properties speak of evaluations that end. Documents, digests and signatures are abstract: a
load succeeds or is one rejection.

### Compilation

A document is a contract with the profile and the packs it names; packs and
checks are numbers, since the code compares their names as strings only to order
them, and a pin is the set of the things it gets wrong. `caller` is who reaches
`compilePlan`: `evaluateCandidate`, which verifies the contract's authorization
first (`Authorize`), or the `compile` command of `src/cli.mjs`, which does not and
prints a plan of an unsigned contract too (`src/cli.mjs:104-174`). `Authorize` and `Validate` refuse at once; `Select`, `Resolve`, `Ordered` and `Collect` gather
reason codes, and only at `Collect` does an error refuse; `Assemble` checks
the executions of checks against the ceilings, builds the plan and validates
it. `Pop` is one turn of Kahn's loop: it runs over every dependency between
selected packs, those with a wrong pin included, so that a cycle of refused
dependencies is a cycle too. `result = "thrown"` is the exception of line 349
(`validateDocument` fails on the plan the compiler has built).

### CommandRun

One command: the host (`host`), the docker client (`client`), process 1 of the
container (`sup`), the target and its descendants (`proc`, `parent`, `piped`).
In a `SINGLE_PROCESS` container the target is process 1; in a bounded one it is
the supervisor, whose handlers are `SpawnTarget`, `StreamsClose` (the `close`
event), `List` and `Kill` (one round of `terminateDescendants`), `Report` and
`SupervisorEnds`. Before the first command of a class the host runs the probes
of `isolateExecution`, each in a container of its own (six of strict isolation,
`Strict`, and two of the bounded class), and keeps what they found
in `memo`. The directories the probes themselves work in are not modelled. Killing
the client kills nothing in the container; only `Cleanup` (`docker rm --force`)
does, and its failure is swallowed. A read projection (`projection`) is made before
the invocation is built and removed by `Cleanup`; a removal of it that throws ends
the command with that exception. The host is the worker of a supervised run, whose
supervisor has an earlier deadline than any command: `HostKilled` may come at every
step and leaves projection, container and processes as they are. The processes may do
anything at any time: fork, be refused a fork, close their streams, fill the
output ceiling, end, reap, or go on for ever. `Verdict` is the order in which
the validators read the flags of the result.

### PilotQualification and Admission

The digest of a document is the document, and an input of the qualification
compiler is two sequences, results and artifacts, against a frozen policy. In
`Admission` the status, the registry, the HEAD, the porcelain and the tree are
read one after the other, and every read may see the checkout of any moment:
another commit, edits, nothing. `DecideConformance` is `computeAdmission` up to
the lifecycle evidence, `DecideLifecycle` the rest. The documents outside the
checkout do not change. `AuthorityAssumption` says what the external authority
signs: attestations of what is committed, and lifecycle statements over a
receipt the compiler emitted, anything else in those statements being arbitrary.

### KernelInstall

A member of `Proc` is a launcher. A copy of the kernel is named for the process
that cloned it, so `kernel`, `aside[p]` (the directory it renamed the old copy
to) and `ran[p]` say which copy is where; `sound` are the copies
`installedIdentity` would accept. `FindInstalled` and `FindNothing` are the
unlocked look, `TakeLock` to `Discard` the `try` block, `Throw`, `Restore` and
`RestoreFails` the `catch` block, `CleanTemporary`, `CleanAside`, `Unlock` and
`CleanFails` the `finally` block, `Launch` the child. `Damage` is a write into
the installed copy by somebody else. The directory of a killed installer's lock
is never reclaimed, as in the code: later launchers that find no verified copy
are turned away for ever, which `EveryLauncherEnds` admits.

## What TLC checks

| Run | Instance | Shows |
|---|---|---|
| `publication_crash` | 2 processes, both may be killed, pids recycled, deadlines; fair | what success and failure leave on disk, stability of a published version, refinement of `SerializedPublication`; every run ends and a crash turns no later run away |
| `publication_race` | 3 processes, one may be killed and may fail to list the directory; no deadline, no pid reuse | exclusion, only verified bundles are published and printed |
| `publication_reclaim_race` | 3 processes, one may be killed | *violation*: two publishers in the critical section |
| `reader_verified` | 2 publishers, 1 reader | VERIFIED is said of a published bundle that is still current |
| `reader_own_run` | 2 publishers, 1 reader | *violation*: a successful `evaluate` prints another run |
| `reducer_stream` | 4 checks (2 required, advisory, evidence-only), every sequence of up to 4 of 16 kinds of results | loops equal closed form, PROMOTABLE exactly when earned, order decides nothing |
| `evaluation_target` | 6 checks, an advisory target, commands before and after the built-in checks, all corruption, byte ceiling, both sides of the reference limit, worktrees that cannot be made or removed; fair | promotion is proven, every check is answered once, a halt is final and has a cause, worktrees go, losses are explained, every evaluation returns |
| `evaluation_rejection` | 7 checks, a target validator and commands in every phase | *violation*: `TOOLCHAIN_UNRESOLVED` is never reported for a target |
| `compilation` | a kernel pack and 3 selected ones: every dependency relation and phase, every pin, header and signature, kinds of checks and strengthening, ceilings, too many checks, both callers | a cycle is reported, the order is canonical, the plan is complete, within its contract's authority (signed where it is evaluated) and valid unless too large |
| `command_run` | a target and 3 descendants, 3 tasks, 2 rounds, both classes, every failure of client, supervisor and removals, the host killed anywhere; fair | what passes is whole, the report comes last, no refused fork is hidden, what survives, the command returns |
| `admission` | 3 commits (one with the status and registry of another), edits at every read, 5 attestations, some 60 sets of lifecycle documents, 4 times; about 8000 qualification inputs | qualification is exact, admission and eligibility are earned, lifecycle evidence never lowers |
| `install` | 3 launchers, one may be killed, any copy or none to begin with; fair | refinement of `SerializedInstall` (one installer at a time, nothing overwritten), only verified copies are launched, no kernel is missing without a lock, nothing is left behind, every launcher ends |

**Bounds.** `MaxAttempts` is the code's own loop bound (2). Two processes are
enough for an owner and a contender; three are needed for two contenders over a
dead owner, which is where the reclaim race is. With three processes the
deadline and pid reuse are switched off by the constraint `Undisturbed`, as the
two-process run has both. That a worker which completes its bundle while its
deadline passes is not published is therefore not in `publication_race`;
`OnlyVerifiedPublished` proves it. `Undisturbed` also cuts the states behind a
misreclaim, where only `EmitsOnlyVerified`, which is proved without that
condition, says anything. Processes alike in `Crashable` are symmetric in
`publication_race`; `publication_crash` checks liveness and has no symmetry. One
reader makes one pass, as readers do not affect one another. Four results suffice
for a repetition of a repeated result next to a missing one (`MaxResults`). The
code's limit of 256 references is a rigid variable, `maxRefs`, which `RefLimits` lets be 5 or
6: a check of two commands has six references, which fit under the one and not
under the other.

Three selected packs next to the kernel's hold every shape of cycle and chain
that interleaves two packs with a third; documents differ from a plain one in one
respect at a time, but for those whose errors meet in one pass (selection and
dependency pins, effect and strengthening, requirement and both ceilings).
`MaxChecks` is 7, between a usual plan and the large one. Three descendants make
a chain, a pair of siblings and an orphan; `MaxTasks = 3` lets one of them meet
the limit, and `MaxRounds = 2` (50 in the code) is a last round after one that
missed a late fork. The lifecycle documents are an honest set with one
document varied: the decision compares them pair by pair, and a second variation
is only met after the first has already been refused. Times before, within, at
the skewed end of and after the validity are 0, 1, 4, 6. Three launchers are one
that installs, one that waits behind its lock or replaces its copy, and one that
has found a copy and is about to launch it.

**Deadlock** is checked where every state has a step: `Evaluation`, `Compilation`
and `CommandRun` repeat their last state. The other systems stop when everybody
is done.

**Fairness.** `publication_crash` assumes weak fairness of each supervisor's
next step and of its clock: the supervisor is a single thread that blocks only
in `spawnSync`, which the timeout computed from the deadline ends, and the
clock is monotonic. Nothing is assumed of workers: a worker may hang for
ever. `Evaluation` assumes that the evaluation goes on: it is synchronous, git
and the file system return, and a command is killed at the timeout it is
launched with. `CommandRun` shows that last point: it assumes only that the host
goes on (`HostOwn`: the timeout of `spawnSync` passes, and so does the one of
the removal), nothing of the client, the daemon, the supervisor or the
processes. `KernelInstall` assumes weak fairness of each launcher that is
not killed: it is synchronous and git runs under a timeout (`runGit`). In
`Evaluation` the clock need not tick, and no property depends on it.
`Compilation` and `Admission` are loops and decisions that end; they state no
liveness.

## What is proved

All proofs are for every value of the constants allowed by the named
assumptions.

*PublicationProofs* (`ProcAssumption`: `None` is no process, the two subsets are
subsets). `TypeCorrectness` by `TypeInv`. `Exclusion` by `LockInv`: exclusion
alone is not inductive, since nothing says that the lock is the holder's; the
invariant adds that the process in the critical section owns the payload and
that whoever is about to reclaim has read the payload of a process that is gone.
`CrashFreeExclusion` when nothing may be killed. `OnlyVerifiedEmitted` by
`VerifiedInv`: verdicts are written by workers, so the invariant follows the
worker from before it is spawned until its verdict cannot change.
`OnlyVerifiedPublished` adds `Intact` (between acceptance and the flip no one
touches the version). `EmptySlotAlways` and `Refinement`: every step maps to a
step or a stutter of `SerializedPublication` while no lock has been misreclaimed
and the directory can be listed (`Unlistable = {}`); `CrashFreeRefinement`
without the first condition.

What a run leaves behind (`SuccessPublished`, `FailureClears`, with `Unlistable =
{}`) needs to know what it found. `ClearedFor` says that from the end of its first
purge a run is alone in the directory but for versions of killed supervisors,
although their workers go on and the purge removes entry by entry: `WorkersOwned`
(a worker's version is its supervisor's, which is waiting for it or is gone) and
`OkIsLast` (nothing but the release of the lock follows a success) keep it so. Where nothing is killed there are no such versions
(`CrashFreeDirectory`). `PublishedStable` rests on `Verified`: a version with a
verdict has no writer any more, so that its files can only become fewer, and
only in the hands of the lock's holder (`SettledShrinks`). `FilesInVersionsAlways`
says that a worker whose directory was purged writes nothing.

`RaceTakesThree` says exactly what the reclaim race takes: a process that has read
the payload of a second, which is gone, renames away the lock that a third has
made since. `LockNamed` (the lock is that of a process in the critical section, or
killed there) is what it adds to `LockInv`. It follows that of two
runs neither ever misreclaims, however they are killed and however pids are recycled:
`TwoPublishersExclude`, and `TwoPublishersRefinement` without a condition on
reclaims.

`SupervisorsAdvanceAlways` is the part of termination that is about states: each
step of a supervisor raises its `Progress` or removes an entry or a file that it
is to remove, and nobody lowers it. It needs to know that the outcome is decided
at the abort and not before (`DecidedLate`), since the purge is the same code
before and after. A worker whose supervisor was killed may add a file to a version
that is being purged; it has finitely many to write.

*BundleReaderProofs* (`ProcAssumption`). A step of the composition is a
step of a publisher, a step of a reader that leaves the publishers alone, or the
hand-over of a projection, which ends a run outside the critical section
(`StepKinds`, `ProjectOutside`). The invariants of `Publication` therefore still
hold (`ReadersExclusion`, `ReadersPublishedStable`, `ReadersOutcome`,
`ReadersEmitVerified`, `ReadersRefinement`). `ReadersSeeVerified` and
`ReadersSeeCurrent` say what a reader without a lock may rely on, without any
condition on reclaims: what it has verified it has resolved from `current`, and a
version that has been published never loses its verdict.

*ReducerProofs* (`PlanAssumption`, `StreamAssumption`). The loop invariant says
that `byCheckId` holds the kept results and `blockingReasons` the mismatches and
repetitions of the stream so far; `ReducerMatchesDefinition`,
`ReducerPromotesTheEarned` and `ReducerOrderFree` follow.

*EvaluationProofs* (`EvaluationAssumption`: the plan lists each check once,
built-in validators launch nothing, commands are distinct;
`MandatoryAssumption`: the mandatory packs put a blocking stability check into
the last phase, and checks are sorted by phase). `TypeInv` keeps the results in
step with the plan. `PromotionInv` is what makes promotion inductive: each
recorded pass stands for commands that all ran to a success in time and are
reported (`PassesProven`), the commands before the current one have all been
dealt with (`Launched`), and a pass of the stability check in the last phase
means an intact candidate from then on, because a hook runs only between phases.
`PromotionProvenAlways`, `EveryCheckAnsweredAlways`, `HaltIsFinalAlways`
(`SkipsKept`: the first result that halts is itself not a skip; `HaltKept`: the
loop goes on to further work only as long as no result halts) and
`WorktreesRemovedAlways` follow. `LossExplainedAlways` needs, for each recorded
result, what of its check is in the reports (`Accounted`) and that a report
belongs to a check that has its result (`ReportsOwned`); without the latter a
later check could contradict the reports of an earlier one. `OutcomesFinalAlways`
(no command is launched or answered twice) and `SkippedChecksIdle` rest on
`Untouched`: no command ahead of the loop has come to anything.
`EvaluationAdvancesAlways` is the half of termination that is about states: every
step goes forward in stage, check, command, launch and removal of worktrees, in
this order, all bounded by the plan, and time that passes takes nothing back; that
the steps are taken is the fairness TLC assumes for `EvaluationReturns`.

*CompilationProofs* (`CompilationAssumption`, `DocumentAssumption`: what the
documents' own validation leaves possible, for any finite set of packs and any
dependencies). Two facts carry the order. `CountInv`: a counter is the number of
dependencies that are still to be ordered and the frontier holds exactly the
packs without one, although the loop only ever decrements. `OrderInv`: each pack
ordered is new, comes after its dependencies and is the least that could.
`OrderCanonicalAlways` is then immediate, and `CycleReportedAlways` needs an
argument both ways: a pack that waits for itself is never ordered
(`CycleNotPopped`, by the first of the cycle in the order), and the packs left
over each wait for one another. `ThrownOnlyForSizeAlways` goes through every
error the validation of the plan could raise and names the gate that has
excluded it (`Gates`, `Gathered`, `Clean`: which errors have been collected when);
`KernelUndiminishedAlways` and `NothingUnauthorizedAlways` use the same parts.

*CommandRunProofs* (`CommandRunAssumption`: finitely many descendants). None of
the properties is inductive, as the host, the client and process 1 move apart.
`Flow` relates what the host does next to what the client and the container
have done, `Tree` says when process 1 knows that nothing is left (`Quiet`), and
`Answer` what each verdict rests on. `ReportIsLastAlways`, `PassedIsWholeAlways`,
`LimitNeverMaskedAlways` and `SurvivesOnlyUnremovedAlways` follow.
`HostAdvancesAlways`: every step of the host lowers `HostRank`, which nothing that
the client, the daemon, the supervisor or the processes do raises, and at most nine
containers are run for one command, six for strict isolation, two for the bounded
class and its own (`ProbesOrdered`: a probe that has been answered is not repeated). With the fairness of the host that is `CommandReturns`.

*AdmissionProofs* (`AuthorityAssumption`, `PolicyAssumption`, `NoneAssumption`;
`InputAssumption`: what the qualification compiler is given is of its schemas).
The invariant remembers what was decided on: the receipt is one that the compiler
emitted, the conformance holds of what was read, and the outcome is that of some
documents presented with the receipt. `AdmittedIsCertifiedAlways` then rests on
the signature over the status that was read, and `PilotIsEarnedAlways` on the
signature over the subject, which binds commit and tree together although they
were read apart. `LifecycleNeverLowersAlways` is the shape of the outcome.
`QualifiedIsExactAlways` is about the algorithm of the compiler, which compares two
sorted lists of identifiers and then looks each result and artifact up:
`CompleteIsExact` and `ExactIsComplete` show that its eight tests pass exactly when
results and artifacts are the required checks, one for one, for inputs of any
length. That equal lists follow from equal sets without repetition is proved by the
least index at which two sorted lists differ (`SortedAgree`), as the prover has no
induction over sequences; for the same reason the two sums that the code computes
stay whole (`TooCostly`, `TooLarge`), the same on both sides of the equivalence.
`PilotIsExact` puts both ends together: a kernel is eligible only over results
that are exact.

*KernelInstallProofs* (`ProcAssumption`). The lock excludes because whoever is
between making and removing it owns it (`LockHeld`). That only verified copies
are launched needs more than the verification: a launcher looks without the lock
and launches later, so the invariant follows the kernel's place while somebody
is about to launch (`KernelTrusted`: what is there, and what may be moved back
there, was verified; `KernelKept`: it is empty only while the lock's holder can
still fill it). `OneInstallerAlways`, `LaunchesCertifiedAlways`,
`AbsentOnlyUnderLockAlways` and `NothingLeftBehindAlways` follow.
`InstallRefinement` shows that any launchers, killed and failing anywhere,
implement `SerializedInstall`; it adds `PlaceHeld`, which says where in a launch
the kernel's place is empty and where a displaced copy may be removed.
`LaunchersAdvanceAlways`: every step of a launcher lowers a rank below 14 that
no other launcher raises, so none retries, waits or loops.

The type invariants of `Publication`, `BundleReader`, `ResultStream`, `Evaluation`,
`Compilation`, `CommandRun`, `Admission` and `KernelInstall` are proved
(`TypeCorrectness`, `ReaderTypes`, `StreamTypeCorrectness`); of these only `Publication`'s is also in a run.

**Only model-checked**: liveness under fairness, which the prover does not support
(`EveryRunEnds`, `CrashNeverWedges`, `EvaluationReturns`, `CommandReturns`,
`EveryLauncherEnds`). The proofs give the part of them that is about states
(`SupervisorsAdvanceAlways`, `EvaluationAdvancesAlways`, `HostAdvancesAlways`,
`LaunchersAdvanceAlways`). Every other property that a run checks is also a
theorem. Of the three violations, each is a behaviour of one instance and
needs no proof.

## Where code and documentation differ

Three differences are checked and listed with their runs: the reclaim race
(`src/supervisor.mjs:91`), the projection of another run (`src/cli.mjs:294`) and
the rejected target executable (`src/evaluate.mjs:345`). The models follow the
code in further places where a comment or a document says otherwise:

- the receipt is read after the lock is released (`src/cli.mjs:321`), so
  `evaluate` may print the receipt of a run that published in between;
- a purge or abort removes entries in `readdir` order, file by file, so `current`
  can for a while lead to a partly removed version (`src/supervisor.mjs:110`);
- a failing `readdir` is taken for an empty directory (`src/supervisor.mjs:107`):
  `Unlistable` names the processes to which this may happen, and
  `SuccessIsPublished`, `FailureLeavesNothing` and the refinement are proved where
  there are none;
- of two results for one check the first counts, so reason codes (not the
  disposition) depend on the order (`src/reducer.mjs:43` against the comment at
  line 25);
- a built-in check that ends after the deadline is recorded as it reports
  (`src/evaluate.mjs:293` against lines 218-219);
- a bounded check one of whose commands the deadline refused has no report for
  it, and `verifyReceipt` then rejects the run's own receipt
  (`src/receipt.mjs:143`): no receipt is written. `LossExplained` lists this.
- descendants survive a command when `docker rm --force` fails, because the
  failure is swallowed and a killed client kills nothing in the container
  (`src/oci-runtime.mjs:195`, `removeLinuxOciContainer`), and when the supervisor
  kills the worker in the middle of a command (`src/supervisor.mjs:162`), whereas
  `docs/briefs/brief-bounded-process-tree-v1.md:135-137` says that no background
  process survives evaluation. `SurvivesOnlyUnremoved` says that these are the only
  ways, and that the read projection stays behind only after an exception or with
  a killed host;
- a statement that renews PILOT_ELIGIBLE over the same qualification receipt is
  accepted when its sequence follows (`src/lifecycle.mjs:97`), whereas
  `docs/briefs/brief-externally-attested-kernel-lifecycle-v1.md:199-202` refuses
  a same-evidence renewal;
- the activation specification of the lifecycle documents is bound to the
  statement, not to the kernel that runs (`src/lifecycle.mjs:67`, against lines
  330-332 of the same document);
- the tree id is read apart from the HEAD (`src/admission.mjs:295`), so the
  `kernelTree` reported for an EXPERIMENTAL kernel may be that of another commit;
  PILOT_ELIGIBLE is not affected, as `PilotIsEarned` says.

## Not modelled

- The activation proofs of the conformance suite (`src/activation.mjs`), census and
  conformance audits and the repository scripts: they run the other parts once or
  read the tree, and keep no state.
- Offline verification of a receipt made elsewhere: a pure comparison of
  documents; the errors a run can meet in its own receipt are in `Evaluation`.
- The macOS sandbox profile, the arguments of containers and children, and the
  text the probes print: configuration, whose effect is an input of `CommandRun`.
- Loading documents from git objects (`src/git-authority.mjs`) and the contents of
  the documents beyond the signature: a load is one rejection in `Evaluation`.
- Parsing, JSON schemas and canonical formatting, which are pure and whose
  verdicts are inputs here; the control trace; limits on the length of
  identifiers.
- The verification of the signed distribution before an installation.

## Plan

Within reach of the prover, in this order:

1. From `Compilation` to `Evaluation`: a plan that is compiled from the mandatory
   packs satisfies `MandatoryAssumption` and `EvaluationAssumption` under the
   correspondence of packs, checks and phases, so that `PromotionProvenAlways`
   applies to whatever the compiler emits.
2. From `CommandRun` to `Evaluation`: the verdicts that a command run can end with
   are the outcomes of `Endings`, with `limited` only for a bounded contract.

Models that would follow: offline verification (`src/receipt.mjs`), with a bundle
changed between writing and reading, next to `BundleReader`; activation
(`src/activation.mjs`) as a decision next to `Admission`.
