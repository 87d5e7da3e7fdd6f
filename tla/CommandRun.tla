------------------------------ MODULE CommandRun ------------------------------
(***************************************************************************)
(* One target command (runTargetCommand in src/runner.mjs) in a Linux OCI  *)
(* container.  The host waits for the docker client with a timeout.  In a  *)
(* SINGLE_PROCESS container the target is process 1; in a BOUNDED one      *)
(* process 1 is the supervisor (src/process-tree-supervisor.mjs), which    *)
(* spawns the target, forwards its output, ends what the target leaves     *)
(* behind and writes the only report of the run.  Before the first command *)
(* of a class, isolateExecution in src/sandbox.mjs probes it with commands  *)
(* of its own and keeps the answer for the life of the process.  The host   *)
(* itself is a worker of a supervised run and may be killed by it.          *)
(***************************************************************************)
EXTENDS Naturals, FiniteSets

CONSTANTS
  Target,     \* the process the command starts as
  Descendant, \* the processes it and its descendants may fork
  MaxTasks,   \* the processes the container admits besides process 1
  MaxRounds   \* the rounds of terminateDescendants (50 in the code)

ASSUME CommandRunAssumption ==
  /\ Target \notin Descendant
  /\ IsFiniteSet(Descendant)
  /\ MaxTasks \in Nat \ {0} /\ MaxRounds \in Nat

Proc == {Target} \cup Descendant
Init1 == "init"  \* process 1 as a parent

VARIABLES
  class,     \* the execution class compiled for the command
  memo,      \* probed and boundedProbed of src/sandbox.mjs
  purpose,   \* what the container is for: the command, or one of the probes
  projection, \* the read projection of the command exists
  host,      \* what runTargetCommand does next
  client,    \* the docker client: "none", "running", its exit status, or why it has none
  sup,       \* process 1 of the container
  proc,      \* proc[p]: "none", "running", "zombie" or "gone"
  parent,    \* parent[p], once p has been forked
  piped,     \* the processes that hold the target's output streams
  exit,      \* the exit of the target: "none", "0", "1" or "killed"
  limit,     \* the max counter of pids.events has grown
  over,      \* outputExceeded
  listed,    \* the processes a round of terminateDescendants has listed
  rounds,    \* the rounds it has made
  frame,     \* the resource report; NoReport before it
  removed,   \* what became of the container: "no", "yes" or "failed"
  result     \* what runTargetCommand returned, "thrown", "killed" or "none"

vars == <<class, memo, purpose, projection, host, client, sup, proc, parent, piped, exit, limit, over, listed, rounds,
          frame, removed, result>>

tree == <<proc, parent, piped, exit, limit>>
kept == <<class, memo, purpose, projection>>

Running == {p \in Proc : proc[p] = "running"}
Zombies == {p \in Proc : proc[p] = "zombie"}
\* The probes of strict isolation, each in a container of its own, and those of
\* the bounded class: each is followed by another, or is the last of its class.
Strict == {"startup", "network", "read", "write", "fork", "kernel"}
Following ==
  [startup |-> "network", network |-> "read", read |-> "write", write |-> "fork", fork |-> "kernel",
   positive |-> "pressure"]

\* The container has a supervisor.
Bounded == purpose \in {"positive", "pressure"} \/ (purpose = "command" /\ class = "BOUNDED_PROCESS_TREE")
NoReport == [limit |-> FALSE, over |-> FALSE, exit |-> "none"]

Fresh ==
  [client |-> "running", sup |-> "none", proc |-> [p \in Proc |-> "none"],
   parent |-> [p \in Proc |-> Init1], piped |-> {}, exit |-> "none", limit |-> FALSE,
   over |-> FALSE, listed |-> {}, rounds |-> 0, frame |-> NoReport, removed |-> "no"]

Init ==
  /\ class \in {"SINGLE_PROCESS", "BOUNDED_PROCESS_TREE"}
  /\ memo = [strict |-> "unknown", bounded |-> "unknown"]
  /\ purpose = "none" /\ projection = FALSE
  /\ host = "start" /\ client = "none" /\ sup = Fresh.sup
  /\ proc = Fresh.proc /\ parent = Fresh.parent
  /\ piped = Fresh.piped /\ exit = Fresh.exit /\ limit = Fresh.limit /\ over = Fresh.over
  /\ listed = Fresh.listed /\ rounds = Fresh.rounds /\ frame = Fresh.frame
  /\ removed = Fresh.removed /\ result = "none"

-----------------------------------------------------------------------------
\* The way to a container.

container == <<client, sup, tree, over, listed, rounds, frame, removed>>

\* The toolchain refuses the executable, or the OCI authority drifted (thrown).
Refuse ==
  /\ host = "start"
  /\ host' = "done"
  /\ result' \in {"rejected", "thrown"}
  /\ UNCHANGED <<kept, container>>

Admit ==
  /\ host = "start"
  /\ host' = "isolate"
  /\ UNCHANGED <<kept, container, result>>

\* What isolateExecution has to do before the command can be launched.
Need ==
  CASE memo.strict = "unknown" -> "startup"
    [] memo.strict = "available" /\ class = "BOUNDED_PROCESS_TREE" /\ memo.bounded = "unknown" -> "positive"
    [] memo.strict = "available" /\ (class = "SINGLE_PROCESS" \/ memo.bounded = "available") -> "command"
    [] OTHER -> "nothing"

StartProbe ==
  /\ host = "isolate" /\ Need \in {"startup", "positive"}
  /\ host' = "launch" /\ purpose' = Need
  /\ UNCHANGED <<class, memo, projection, container, result>>

\* Isolation is not available, a path cannot be resolved, or createReadProjection
\* throws: it leaves what it made if the chmod or the removal itself has thrown.
IsolationFails ==
  /\ host = "isolate" /\ Need \in {"nothing", "command"}
  /\ host' = "done" /\ result' = "thrown"
  /\ projection' \in BOOLEAN /\ (projection' => Need = "command")
  /\ UNCHANGED <<class, memo, purpose, container>>

\* A projection stands in for a working directory no read root covers.
MakeProjection ==
  /\ host = "isolate" /\ Need = "command"
  /\ host' = "build" /\ purpose' = "command"
  /\ projection' \in BOOLEAN
  /\ UNCHANGED <<class, memo, container, result>>

BuildInvocation ==
  /\ host = "build"
  /\ host' = "launch"
  /\ UNCHANGED <<kept, container, result>>

\* The invocation cannot be built: the projection goes, unless its removal throws.
InvocationFails ==
  /\ host = "build"
  /\ host' = "done" /\ result' = "thrown"
  /\ projection' \in {FALSE, projection}
  /\ UNCHANGED <<class, memo, purpose, container>>

Launch ==
  /\ host = "launch"
  /\ host' = "waiting" /\ client' = Fresh.client /\ sup' = Fresh.sup
  /\ proc' = Fresh.proc /\ parent' = Fresh.parent
  /\ piped' = Fresh.piped /\ exit' = Fresh.exit /\ limit' = Fresh.limit /\ over' = Fresh.over
  /\ listed' = Fresh.listed /\ rounds' = Fresh.rounds /\ frame' = Fresh.frame
  /\ removed' = Fresh.removed
  /\ UNCHANGED <<kept, result>>

\* The daemon creates the container at some time while the client is there.
CreateContainer ==
  /\ client = "running" /\ sup = "none"
  /\ IF Bounded
     THEN sup' = "boot" /\ UNCHANGED <<proc, piped>>
     ELSE sup' = "target" /\ proc' = [proc EXCEPT ![Target] = "running"] /\ piped' = {Target}
  /\ UNCHANGED <<kept, host, client, parent, exit, limit, over, listed, rounds, frame, removed, result>>

\* The end of process 1 ends every process of the container.
EndContainer(status) ==
  /\ sup' = status
  /\ proc' = [p \in Proc |-> IF proc[p] = "none" THEN "none" ELSE "gone"]
  /\ piped' = {}

-----------------------------------------------------------------------------
\* The processes of the command.

\* A fork beyond pids.max fails and is counted.
Fork(p) ==
  /\ Bounded /\ p \in Running
  /\ IF Cardinality(Running \cup Zombies) < MaxTasks
     THEN \E q \in Descendant :
            /\ proc[q] = "none"
            /\ proc' = [proc EXCEPT ![q] = "running"]
            /\ parent' = [parent EXCEPT ![q] = p]
            /\ piped' = IF p \in piped THEN piped \cup {q} ELSE piped
            /\ UNCHANGED limit
     ELSE limit' = TRUE /\ UNCHANGED <<proc, parent, piped>>
  /\ UNCHANGED <<kept, host, client, sup, exit, over, listed, rounds, frame, removed, result>>

\* A daemon closes the streams it inherited.
ClosePipe(p) ==
  /\ Bounded /\ p \in Running \cap piped
  /\ piped' = piped \ {p}
  /\ UNCHANGED <<kept, host, client, sup, proc, parent, exit, limit, over, listed, rounds, frame, removed, result>>

\* The processes of S end.  Process 1 (Node) waits for its own child only, so
\* what has lost its parent stays a zombie; the others wait to be reaped.
EndProcesses(S, how) ==
  /\ proc' = [p \in Proc |-> IF p \notin S THEN proc[p] ELSE IF p = Target THEN "gone" ELSE "zombie"]
  /\ parent' = [p \in Proc |-> IF parent[p] \in S THEN Init1 ELSE parent[p]]
  /\ piped' = piped \ S
  /\ exit' = IF Target \in S THEN how ELSE exit

\* A process ends by itself; a single process ends its container with it.
Exit(p) ==
  /\ p \in Running
  /\ \E how \in {"0", "1"} :
       IF Bounded THEN EndProcesses({p}, how) /\ UNCHANGED sup
       ELSE EndContainer("ended") /\ exit' = how /\ UNCHANGED parent
  /\ UNCHANGED <<kept, host, client, limit, over, listed, rounds, frame, removed, result>>

Reap(p) ==
  /\ p \in Zombies /\ parent[p] \in Running
  /\ proc' = [proc EXCEPT ![p] = "gone"]
  /\ UNCHANGED <<kept, host, client, sup, parent, piped, exit, limit, over, listed, rounds, frame, removed, result>>

\* Output past the ceiling.  The supervisor clamps it and kills the target; the
\* buffer of spawnSync overflows without it, and the client is killed.
Overflow ==
  /\ ~over /\ piped \cap Running # {}
  /\ over' = TRUE
  /\ \/ /\ Bounded /\ sup = "waiting"
        /\ EndProcesses({Target} \cap Running, "killed")
        /\ UNCHANGED <<client, host>>
     \/ /\ ~Bounded /\ host = "waiting"
        /\ client' = "killed" /\ host' = "cleanup"
        /\ UNCHANGED <<proc, parent, piped, exit>>
  /\ UNCHANGED <<kept, sup, limit, listed, rounds, frame, removed, result>>

-----------------------------------------------------------------------------
\* The supervisor.

\* The bounds or the readback of pids.max are wrong, the spawn fails, /proc or
\* pids.events cannot be read: it ends with status 70.
SupervisorFails ==
  /\ sup \in {"boot", "waiting", "list", "kill", "report"}
  /\ EndContainer("failed")
  /\ UNCHANGED <<kept, host, client, parent, exit, limit, over, listed, rounds, frame, removed, result>>

SpawnTarget ==
  /\ sup = "boot"
  /\ sup' = "waiting"
  /\ proc' = [proc EXCEPT ![Target] = "running"] /\ piped' = {Target}
  /\ UNCHANGED <<kept, host, client, parent, exit, limit, over, listed, rounds, frame, removed, result>>

\* "close": the target has ended and no process holds its streams any more.
StreamsClose ==
  /\ sup = "waiting" /\ exit # "none" /\ piped = {}
  /\ sup' = "list"
  /\ UNCHANGED <<kept, host, client, tree, over, listed, rounds, frame, removed, result>>

\* Mutant: after the last round the report is written whatever is left.
ListGivesUp ==
  /\ sup = "list"
  /\ sup' = (IF Running \cup Zombies = {} \/ rounds = MaxRounds THEN "report" ELSE "kill")
  /\ listed' = Running \cup Zombies
  /\ UNCHANGED <<kept, host, client, tree, over, rounds, frame, removed, result>>

\* Zombies are listed in /proc too.  After the last round it throws.
List ==
  /\ sup = "list"
  /\ listed' = Running \cup Zombies
  /\ IF listed' = {} THEN sup' = "report" /\ UNCHANGED <<proc, piped>>
     ELSE IF rounds = MaxRounds THEN EndContainer("failed")
     ELSE sup' = "kill" /\ UNCHANGED <<proc, piped>>
  /\ UNCHANGED <<kept, host, client, parent, exit, limit, over, rounds, frame, removed, result>>

\* What was forked after the listing is met in the next round.
Kill ==
  /\ sup = "kill"
  /\ EndProcesses(listed \cap Running, "killed")
  /\ rounds' = rounds + 1
  /\ sup' = "list"
  /\ UNCHANGED <<kept, host, client, limit, over, listed, frame, removed, result>>

Report ==
  /\ sup = "report"
  /\ frame' = [limit |-> limit, over |-> over, exit |-> exit]
  /\ sup' = "reported"
  /\ UNCHANGED <<kept, host, client, tree, over, listed, rounds, removed, result>>

SupervisorEnds ==
  /\ sup = "reported"
  /\ EndContainer("ended")
  /\ UNCHANGED <<kept, host, client, parent, exit, limit, over, listed, rounds, frame, removed, result>>

-----------------------------------------------------------------------------
\* The host.

\* The client returns the status of process 1, or fails on its own (125), or
\* could not be spawned at all ("error").
ClientReturns ==
  /\ host = "waiting"
  /\ client' \in {"125"} \cup (IF sup = "none" THEN {"error"} ELSE {})
                         \cup (IF sup = "ended" THEN {"status"} ELSE {})
                         \cup (IF sup = "failed" THEN {"70"} ELSE {})
  /\ host' = "cleanup"
  /\ UNCHANGED <<kept, sup, tree, over, listed, rounds, frame, removed, result>>

\* Mutant: a run that was timed out is not cleaned up.
TimeoutUnclean ==
  /\ host = "waiting"
  /\ client' = "timeout"
  /\ host' = "return"
  /\ UNCHANGED <<kept, sup, tree, over, listed, rounds, frame, removed, result>>

\* Mutant: the command is run without a timeout.
TimeoutNever == FALSE /\ UNCHANGED vars

\* timeoutMs: spawnSync kills the client, and with it nothing in the container.
Timeout ==
  /\ host = "waiting"
  /\ client' = "timeout"
  /\ host' = "cleanup"
  /\ UNCHANGED <<kept, sup, tree, over, listed, rounds, frame, removed, result>>

\* The finally of runTargetCommand: `docker rm --force`, whose failure is
\* swallowed; then the projection goes, or its removal throws.
Cleanup ==
  /\ host = "cleanup"
  /\ \/ /\ removed' = "yes"
        /\ EndContainer(IF sup \in {"ended", "failed"} THEN sup ELSE "removed")
     \/ removed' = "failed" /\ UNCHANGED <<sup, proc, piped>>
  /\ \/ host' = "return" /\ projection' = FALSE /\ UNCHANGED result
     \/ projection /\ host' = "done" /\ result' = "thrown" /\ UNCHANGED projection
  /\ UNCHANGED <<class, memo, purpose, client, parent, exit, limit, over, listed, rounds, frame>>

\* The supervisor of the run ends its worker, which is the host, at any moment:
\* its deadline has started first.  Nothing of the container ends with it.
HostKilled ==
  /\ host # "done"
  /\ host' = "done" /\ result' = "killed"
  /\ UNCHANGED <<kept, container>>

\* The resource report counts only if the client returned with status 0.
Parsed == Bounded /\ client = "status" /\ frame # NoReport

SpawnFailed == client = "error" \/ (Bounded /\ ~Parsed /\ client # "timeout")
Overflowed == IF Bounded THEN Parsed /\ frame.over ELSE client = "killed"
LimitFired == Parsed /\ frame.limit
Status ==
  CASE Parsed -> frame.exit
    [] ~Bounded /\ client = "status" -> exit
    [] OTHER -> "1"

\* Mutant: the exit status alone decides.
VerdictByStatus ==
  IF SpawnFailed THEN "spawnFailed" ELSE IF client = "timeout" THEN "timedOut"
  ELSE IF Status = "0" THEN "passed" ELSE "failed"

\* Mutant: succeeded does not look at taskBudgetExceeded.
VerdictIgnoresLimit ==
  IF SpawnFailed THEN "spawnFailed" ELSE IF client = "timeout" THEN "timedOut"
  ELSE IF ~Overflowed /\ Status = "0" THEN "passed" ELSE "failed"

\* As the validators read the flags, in their order.
Verdict ==
  IF SpawnFailed THEN "spawnFailed"
  ELSE IF LimitFired THEN "limited"
  ELSE IF client = "timeout" THEN "timedOut"
  ELSE IF ~Overflowed /\ Status = "0" THEN "passed" ELSE "failed"

Return ==
  /\ host = "return" /\ purpose = "command"
  /\ host' = "done"
  /\ result' = Verdict
  /\ UNCHANGED <<kept, container>>

\* The next probe follows one that was answered as it should be; the pressure
\* probe must itself be seen to fire the limit.  The scripts of the probes have
\* more to say (FALSE): what they print, the capabilities they find.
ProbeEnds ==
  /\ host = "return" /\ purpose # "command"
  /\ \E said \in BOOLEAN :
       LET yes == CASE purpose = "positive" -> said /\ Parsed /\ frame.exit = "0" /\ ~frame.limit
                    [] purpose = "pressure" -> LimitFired
                    [] OTHER -> said /\ Verdict = "passed"
       IN IF yes /\ purpose \in DOMAIN Following
          THEN purpose' = Following[purpose] /\ host' = "launch" /\ UNCHANGED memo
          ELSE /\ memo' = [memo EXCEPT ![IF purpose \in Strict THEN "strict" ELSE "bounded"] =
                            IF yes THEN "available" ELSE "unavailable"]
               /\ host' = "isolate" /\ purpose' = "none"
  /\ UNCHANGED <<class, projection, container, result>>

\* The removal of a directory the probes have used throws: nothing is memoised.
ProbeThrows ==
  /\ host = "return" /\ purpose # "command"
  /\ host' = "done" /\ result' = "thrown"
  /\ UNCHANGED <<kept, container>>

HostOwn ==
  \/ Refuse \/ Admit \/ StartProbe \/ IsolationFails \/ MakeProjection \/ BuildInvocation
  \/ InvocationFails \/ Launch \/ Timeout \/ Cleanup \/ Return \/ ProbeEnds \/ ProbeThrows
Supervisor == SupervisorFails \/ SpawnTarget \/ StreamsClose \/ List \/ Kill \/ Report
  \/ SupervisorEnds
Processes == Overflow \/ \E p \in Proc : Fork(p) \/ ClosePipe(p) \/ Exit(p) \/ Reap(p)

Next ==
  \/ HostOwn \/ HostKilled \/ ClientReturns \/ CreateContainer \/ Supervisor \/ Processes
  \/ host = "done" /\ UNCHANGED vars

\* The clock passes the timeout, and the host's own calls return (the removal
\* has a timeout too).  Nothing is assumed of the client, the daemon, the processes
\* or the supervisor of the run.
Spec == Init /\ [][Next]_vars /\ WF_vars(HostOwn)
-----------------------------------------------------------------------------
\* The state is well typed.
TypeOK ==
  /\ class \in {"SINGLE_PROCESS", "BOUNDED_PROCESS_TREE"}
  /\ memo \in [{"strict", "bounded"} -> {"unknown", "available", "unavailable"}]
  /\ purpose \in Strict \cup {"none", "positive", "pressure", "command"} /\ projection \in BOOLEAN
  /\ host \in {"start", "isolate", "build", "launch", "waiting", "cleanup", "return", "done"}
  /\ client \in {"none", "running", "killed", "timeout", "error", "status", "70", "125"}
  /\ sup \in {"none", "target", "boot", "waiting", "list", "kill", "report", "reported", "ended", "failed", "removed"}
  /\ proc \in [Proc -> {"none", "running", "zombie", "gone"}]
  /\ parent \in [Proc -> Proc \cup {Init1}]
  /\ piped \subseteq Running
  /\ exit \in {"none", "killed", "0", "1"}
  /\ limit \in BOOLEAN /\ over \in BOOLEAN
  /\ listed \subseteq Proc /\ rounds \in 0 .. MaxRounds
  /\ frame \in [limit : BOOLEAN, over : BOOLEAN, exit : {"none", "killed", "0", "1"}]
  /\ removed \in {"no", "yes", "failed"}
  /\ result \in {"none", "rejected", "thrown", "killed", "spawnFailed", "limited", "timedOut", "passed", "failed"}

\* A command passes only if the target itself exited with 0, its whole output
\* was taken, no fork was ever refused (though the target may have caught that
\* and gone on), and by then no process of it was left, in or out of its streams.
PassedIsWhole ==
  result = "passed" => exit = "0" /\ ~over /\ ~limit /\ Running = {} /\ Zombies = {}

\* A report is written when nothing is left that could still write or fork: it
\* can never be overtaken by the tree it reports about.
ReportIsLast ==
  frame # NoReport => /\ Running = {} /\ frame.limit = limit /\ frame.over = over /\ frame.exit = exit

\* A refused fork is never answered by "passed" or by the target's own failure:
\* it is named, or lost together with the whole report, or nothing is answered.
LimitNeverMasked ==
  purpose = "command" /\ result # "none" /\ limit =>
    result \in {"limited", "timedOut", "spawnFailed", "thrown", "killed"}

\* A command that is answered has left no read projection, and no probe has made
\* one: what stays behind was left by an exception (a removal that threw) or by
\* the death of the host.  A process survives the return only if the removal of
\* its container failed or the host was killed: then it may go on for ever.
SurvivesOnlyUnremoved ==
  /\ projection => \/ purpose = "command" /\ host \in {"build", "launch", "waiting", "cleanup"}
                   \/ host = "done" /\ result \in {"thrown", "killed"}
  /\ host = "done" /\ Running # {} => removed = "failed" \/ result = "killed"

\* Whatever the processes, the daemon and the client do, the command returns:
\* a descendant that never ends or keeps the streams open cannot hold it.
CommandReturns == <>(host = "done")
=============================================================================
