---------------------------- MODULE CommandRunProofs ----------------------------
(***************************************************************************)
(* Theorems about module CommandRun, for any number of processes, tasks    *)
(* and rounds, whatever the processes, the daemon and the client do.       *)
(***************************************************************************)
EXTENDS CommandRun, TLAPS

-----------------------------------------------------------------------------
(***************************************************************************)
(* The inductive invariant.                                                *)
(***************************************************************************)

\* The parts of process 1 at which no other process of the container is left.
Quiet == {"none", "boot", "report", "reported", "ended", "failed", "removed"}

\* What the host is doing, and what the client and the container have done then.
Flow ==
  /\ host = "waiting" => client = "running"
  /\ client = "running" => host = "waiting" \/ result = "killed"
  /\ host \in {"start", "isolate"} => purpose = "none"
  /\ host \in {"build", "launch", "waiting", "cleanup", "return"} => purpose # "none"
  /\ host = "build" => purpose = "command"
  /\ host = "start" => sup = "none"
  /\ host = "done" <=> result # "none"
  /\ client = "status" => sup = "ended"
  /\ projection => \/ purpose = "command" /\ host \in {"build", "launch", "waiting", "cleanup"}
                   \/ host = "done" /\ result \in {"thrown", "killed"}

\* What process 1 knows: nothing is left when it says so, and nothing starts again.
Tree ==
  /\ sup \in Quiet => Running = {} /\ Zombies = {}
  /\ sup \in {"list", "kill", "report", "reported"} => exit # "none"
  /\ sup = "kill" => rounds < MaxRounds
  /\ frame # NoReport => /\ sup \in {"reported", "ended", "failed", "removed"}
                         /\ frame.limit = limit /\ frame.over = over /\ frame.exit = exit
  /\ host \notin {"waiting", "cleanup"} /\ sup \notin {"none", "ended", "failed", "removed"} =>
       removed = "failed" \/ result = "killed"

\* What the answer rests on.
Answer ==
  /\ purpose # "none" /\ host \in {"waiting", "cleanup", "return"} /\ ~Bounded =>
       ~limit /\ (over => client = "killed")
  /\ purpose = "command" /\ result \notin {"none", "limited", "timedOut", "spawnFailed", "thrown", "killed"} =>
       ~limit /\ (Bounded => frame # NoReport)
  /\ purpose = "command" => result # "rejected"
  /\ result = "passed" => purpose = "command" /\ client = "status" /\ exit = "0" /\ ~over /\ ~limit

IInv == TypeOK /\ Flow /\ Tree /\ Answer

-----------------------------------------------------------------------------
LEMMA FreshFacts ==
  /\ Fresh.client = "running" /\ Fresh.sup = "none" /\ Fresh.proc = [p \in Proc |-> "none"]
  /\ Fresh.parent = [p \in Proc |-> Init1] /\ Fresh.piped = {} /\ Fresh.exit = "none"
  /\ Fresh.limit = FALSE /\ Fresh.over = FALSE /\ Fresh.listed = {} /\ Fresh.rounds = 0
  /\ Fresh.frame = NoReport /\ Fresh.removed = "no"
BY DEF Fresh

\* The end of process 1.
LEMMA ContainerEnds ==
  ASSUME TypeOK, NEW status, EndContainer(status)
  PROVE  /\ sup' = status /\ piped' = {} /\ Running' = {} /\ Zombies' = {}
         /\ proc' \in [Proc -> {"none", "running", "zombie", "gone"}]
BY DEF EndContainer, TypeOK, Running, Zombies

\* The end of some of the others.
LEMMA ProcessesEnd ==
  ASSUME TypeOK, NEW S \in SUBSET Running, NEW how \in {"0", "1", "killed"}, EndProcesses(S, how)
  PROVE  /\ proc' \in [Proc -> {"none", "running", "zombie", "gone"}]
         /\ parent' \in [Proc -> Proc \cup {Init1}]
         /\ Running' = Running \ S /\ piped' \subseteq Running'
         /\ exit' \in {"none", "killed", "0", "1"} /\ (exit # "none" => exit' # "none")
<1>1. S \subseteq Proc
  BY DEF Running
<1>2. proc' \in [Proc -> {"none", "running", "zombie", "gone"}]
  BY <1>1 DEF EndProcesses, TypeOK
<1>3. parent' \in [Proc -> Proc \cup {Init1}]
  BY DEF EndProcesses, TypeOK
<1>4. \A p \in Proc : proc'[p] = IF p \notin S THEN proc[p] ELSE IF p = Target THEN "gone" ELSE "zombie"
  BY DEF EndProcesses
<1>5. Running' = Running \ S
  BY <1>4 DEF Running
<1>6. piped' \subseteq Running'
  BY <1>5 DEF EndProcesses, TypeOK
<1>7. exit' \in {"none", "killed", "0", "1"} /\ (exit # "none" => exit' # "none")
  BY DEF EndProcesses, TypeOK
<1> QED
  BY <1>2, <1>3, <1>5, <1>6, <1>7

\* Whatever a process does, one was running, and if process 1 was the target its
\* end has ended the container.
LEMMA ProcessSteps ==
  ASSUME TypeOK, Processes
  PROVE  /\ TypeOK' /\ Running # {}
         /\ UNCHANGED <<kept, listed, rounds, frame, removed, result>>
         /\ sup' = sup \/ (sup' = "ended" /\ Running' = {} /\ Zombies' = {})
         /\ exit # "none" => exit' # "none"
         /\ ~Bounded => limit' = limit
         /\ \/ UNCHANGED <<host, client>>
            \/ host = "waiting" /\ client' = "killed" /\ host' = "cleanup" /\ sup' = sup
         /\ over' = over \/ Bounded \/ client' = "killed"
<1>0. Target \in Proc /\ Running \subseteq Proc
  BY DEF Proc, Running
<1>1. CASE \E p \in Proc : Fork(p)
  <2>1. PICK p \in Proc : Fork(p)
    BY <1>1
  <2>2. /\ UNCHANGED <<kept, host, client, sup, exit, over, listed, rounds, frame, removed, result>>
        /\ p \in Running /\ Bounded
    BY <2>1 DEF Fork
  <2>3. CASE limit' = TRUE /\ UNCHANGED <<proc, parent, piped>>
    <3>1. Running' = Running
      BY <2>3 DEF Running
    <3>2. TypeOK'
      BY <2>2, <2>3, <3>1 DEF TypeOK, kept
    <3> QED
      BY <2>2, <3>2 DEF kept
  <2>4. CASE \E q \in Descendant :
               /\ proc[q] = "none" /\ proc' = [proc EXCEPT ![q] = "running"]
               /\ parent' = [parent EXCEPT ![q] = p]
               /\ piped' = (IF p \in piped THEN piped \cup {q} ELSE piped)
               /\ UNCHANGED limit
    <3>1. PICK q \in Descendant :
               /\ proc[q] = "none" /\ proc' = [proc EXCEPT ![q] = "running"]
               /\ parent' = [parent EXCEPT ![q] = p]
               /\ piped' = (IF p \in piped THEN piped \cup {q} ELSE piped)
               /\ UNCHANGED limit
      BY <2>4
    <3>2. q \in Proc
      BY DEF Proc
    <3>3. /\ proc' \in [Proc -> {"none", "running", "zombie", "gone"}]
          /\ parent' \in [Proc -> Proc \cup {Init1}]
      BY <3>1, <3>2 DEF TypeOK
    <3>4. Running' = Running \cup {q}
      BY <3>1, <3>2 DEF TypeOK, Running
    <3>5. piped' \subseteq Running'
      BY <3>1, <3>4 DEF TypeOK
    <3> QED
      BY <2>2, <3>1, <3>3, <3>5 DEF TypeOK, kept
  <2> QED
    BY <2>1, <2>3, <2>4 DEF Fork
<1>2. CASE \E p \in Proc : ClosePipe(p)
  BY <1>2 DEF ClosePipe, TypeOK, kept, Running, Bounded
<1>3. CASE \E p \in Proc : Reap(p)
  <2>1. PICK p \in Proc : Reap(p)
    BY <1>3
  <2>2. proc' = [proc EXCEPT ![p] = "gone"] /\ proc[p] = "zombie" /\ Running # {}
    BY <2>1 DEF Reap, Zombies
  <2>3. proc' \in [Proc -> {"none", "running", "zombie", "gone"}] /\ Running' = Running
    BY <2>2 DEF TypeOK, Running
  <2> QED
    BY <2>1, <2>2, <2>3 DEF Reap, TypeOK, kept
<1>4. CASE \E p \in Proc : Exit(p)
  <2>1. PICK p \in Proc, how \in {"0", "1"} :
          /\ p \in Running
          /\ IF Bounded THEN EndProcesses({p}, how) /\ UNCHANGED sup
             ELSE EndContainer("ended") /\ exit' = how /\ UNCHANGED parent
          /\ UNCHANGED <<kept, host, client, limit, over, listed, rounds, frame, removed, result>>
    BY <1>4 DEF Exit
  <2>2. CASE Bounded
    <3>1. EndProcesses({p}, how) /\ {p} \in SUBSET Running /\ sup' = sup
      BY <2>1, <2>2
    <3>2. /\ proc' \in [Proc -> {"none", "running", "zombie", "gone"}]
          /\ parent' \in [Proc -> Proc \cup {Init1}] /\ piped' \subseteq Running'
          /\ exit' \in {"none", "killed", "0", "1"} /\ (exit # "none" => exit' # "none")
      BY <3>1, ProcessesEnd
    <3> QED
      BY <2>1, <3>1, <3>2 DEF TypeOK, kept
  <2>3. CASE ~Bounded
    <3>1. EndContainer("ended") /\ exit' = how /\ parent' = parent
      BY <2>1, <2>3
    <3>2. /\ sup' = "ended" /\ piped' = {} /\ Running' = {} /\ Zombies' = {}
          /\ proc' \in [Proc -> {"none", "running", "zombie", "gone"}]
      BY <3>1, ContainerEnds
    <3> QED
      BY <2>1, <3>1, <3>2 DEF TypeOK, kept
  <2> QED
    BY <2>2, <2>3
<1>5. CASE Overflow
  <2>1. /\ UNCHANGED <<kept, sup, limit, listed, rounds, frame, removed, result>>
        /\ over' = TRUE /\ Running # {}
    BY <1>5 DEF Overflow
  <2>2. CASE Bounded /\ EndProcesses({Target} \cap Running, "killed") /\ UNCHANGED <<client, host>>
    <3>1. /\ proc' \in [Proc -> {"none", "running", "zombie", "gone"}]
          /\ parent' \in [Proc -> Proc \cup {Init1}] /\ piped' \subseteq Running'
          /\ exit' \in {"none", "killed", "0", "1"} /\ (exit # "none" => exit' # "none")
      BY <2>2, ProcessesEnd
    <3> QED
      BY <2>1, <2>2, <3>1 DEF TypeOK, kept
  <2>3. CASE host = "waiting" /\ client' = "killed" /\ host' = "cleanup" /\ UNCHANGED <<proc, parent, piped, exit>>
    BY <2>1, <2>3 DEF TypeOK, kept, Running
  <2> QED
    BY <1>5, <2>2, <2>3 DEF Overflow
<1> QED
  BY <1>1, <1>2, <1>3, <1>4, <1>5 DEF Processes

LEMMA InitInv == Init => IInv
<1> SUFFICES ASSUME Init PROVE IInv
  OBVIOUS
<1>1. Running = {} /\ Zombies = {}
  BY FreshFacts DEF Init, Running, Zombies
<1>2. TypeOK
  <2>1. memo \in [{"strict", "bounded"} -> {"unknown", "available", "unavailable"}]
    BY DEF Init
  <2>2. NoReport \in [limit : BOOLEAN, over : BOOLEAN, exit : {"none", "killed", "0", "1"}]
    BY DEF NoReport
  <2>3. 0 \in 0 .. MaxRounds
    BY CommandRunAssumption
  <2>4. proc \in [Proc -> {"none", "running", "zombie", "gone"}] /\ parent \in [Proc -> Proc \cup {Init1}]
    BY FreshFacts DEF Init
  <2> QED
    BY <1>1, <2>1, <2>2, <2>3, <2>4, FreshFacts DEF Init, TypeOK
<1>3. Flow /\ Answer
  BY FreshFacts DEF Init, Flow, Answer
<1>4. Tree
  BY <1>1, FreshFacts DEF Init, Tree
<1> QED
  BY <1>2, <1>3, <1>4 DEF IInv

LEMMA ProcessesInv == IInv /\ Processes => IInv'
<1> SUFFICES ASSUME IInv, Processes PROVE IInv'
  OBVIOUS
<1>1. /\ TypeOK' /\ Running # {}
      /\ UNCHANGED <<kept, listed, rounds, frame, removed, result>>
      /\ sup' = sup \/ (sup' = "ended" /\ Running' = {} /\ Zombies' = {})
      /\ exit # "none" => exit' # "none"
      /\ ~Bounded => limit' = limit
      /\ \/ UNCHANGED <<host, client>>
         \/ host = "waiting" /\ client' = "killed" /\ host' = "cleanup" /\ sup' = sup
      /\ over' = over \/ Bounded \/ client' = "killed"
  BY ProcessSteps DEF IInv
<1>2. sup \notin Quiet /\ frame = NoReport /\ client # "status" /\ result # "passed"
  BY <1>1 DEF IInv, Tree, Flow, Answer, Quiet
<1>3. /\ UNCHANGED <<class, memo, purpose, projection>> /\ (Bounded' <=> Bounded)
  BY <1>1 DEF kept, Bounded
<1>4. Flow'
  BY <1>1, <1>2, <1>3 DEF IInv, Flow, Quiet
<1>5. Tree'
  <2>1. sup' \in Quiet => Running' = {} /\ Zombies' = {}
    BY <1>1, <1>2
  <2>2. sup' \in {"list", "kill", "report", "reported"} => exit' # "none"
    BY <1>1 DEF IInv, Tree
  <2>3. (sup' = "kill" => rounds' < MaxRounds) /\ frame' = NoReport
    BY <1>1, <1>2 DEF IInv, Tree
  <2>4. NoReport' = NoReport
    BY DEF NoReport
  <2>5. host' \notin {"waiting", "cleanup"} /\ sup' \notin {"none", "ended", "failed", "removed"} =>
         removed' = "failed" \/ result' = "killed"
    BY <1>1 DEF IInv, Tree, Flow
  <2> QED
    BY <2>1, <2>2, <2>3, <2>4, <2>5 DEF Tree, Quiet
<1>6. Answer'
  <2>1. host = "waiting" => result = "none"
    BY DEF IInv, Flow
  <2>2. /\ UNCHANGED <<purpose, result, frame>> /\ NoReport' = NoReport
        /\ result # "none" => UNCHANGED <<host, client>> /\ host = "done"
    BY <1>1, <1>3, <2>1 DEF kept, NoReport, IInv, Flow
  <2>3. ASSUME purpose # "none", host' \in {"waiting", "cleanup", "return"}, ~Bounded
        PROVE  ~limit' /\ (over' => client' = "killed")
    <3>1. host \in {"waiting", "cleanup", "return"}
      BY <1>1, <2>3 DEF IInv, Flow
    <3>2. ~limit /\ (over => client = "killed")
      BY <2>3, <3>1 DEF IInv, Answer
    <3> QED
      BY <1>1, <2>3, <3>2
  <2>4. ASSUME purpose = "command", result \notin {"none", "limited", "timedOut", "spawnFailed", "thrown", "killed"}
        PROVE  ~limit' /\ (Bounded => frame # NoReport)
    BY <1>1, <1>2, <2>4 DEF IInv, Answer
  <2>5. purpose = "command" => result # "rejected"
    BY DEF IInv, Answer
  <2> QED
    BY <1>2, <1>3, <2>2, <2>3, <2>4, <2>5 DEF Answer
<1> QED
  BY <1>1, <1>4, <1>5, <1>6 DEF IInv

LEMMA SupervisorInv == IInv /\ Supervisor => IInv'
<1> SUFFICES ASSUME IInv, Supervisor PROVE IInv'
  OBVIOUS
<1> USE DEF IInv
<1>1. /\ UNCHANGED <<class, memo, purpose, projection, host, client, limit, over, removed, result>>
      /\ sup \notin {"none", "ended", "failed", "removed"} /\ (Bounded' <=> Bounded)
  <2>1. CASE SupervisorFails \/ SpawnTarget \/ SupervisorEnds
    BY <2>1 DEF SupervisorFails, SpawnTarget, SupervisorEnds, kept, Bounded
  <2>2. CASE StreamsClose \/ List \/ Report
    BY <2>2 DEF StreamsClose, List, Report, kept, tree, Bounded
  <2>3. CASE Kill
    BY <2>3 DEF Kill, kept, Bounded
  <2> QED
    BY <2>1, <2>2, <2>3 DEF Supervisor
<1>2. client # "status" /\ result # "passed"
  BY <1>1 DEF Flow, Answer
<1>3. Target \in Proc
  BY DEF Proc
<1>4. CASE SupervisorFails \/ SupervisorEnds \/ (List /\ EndContainer("failed"))
  <2>1. sup' \in {"ended", "failed"} /\ UNCHANGED <<parent, exit, rounds, frame>> /\ listed' \in {listed, Running \cup Zombies}
        /\ EndContainer(sup')
    BY <1>4 DEF SupervisorFails, SupervisorEnds, List, EndContainer
  <2>2. piped' = {} /\ Running' = {} /\ Zombies' = {} /\ proc' \in [Proc -> {"none", "running", "zombie", "gone"}]
    BY <2>1, ContainerEnds
  <2>3. listed' \subseteq Proc
    BY <2>1 DEF TypeOK, Running, Zombies
  <2>4. TypeOK'
    BY <1>1, <2>1, <2>2, <2>3 DEF TypeOK
  <2>5. Flow' /\ Answer'
    BY <1>1, <1>2, <2>1 DEF Flow, Answer, NoReport
  <2>6. Tree'
    BY <1>1, <2>1, <2>2 DEF Tree, NoReport
  <2> QED
    BY <2>4, <2>5, <2>6
<1>5. CASE SpawnTarget
  <2>1. /\ sup = "boot" /\ sup' = "waiting" /\ UNCHANGED <<parent, exit, listed, rounds, frame>>
        /\ proc' = [proc EXCEPT ![Target] = "running"] /\ piped' = {Target}
    BY <1>5 DEF SpawnTarget
  <2>2. proc' \in [Proc -> {"none", "running", "zombie", "gone"}] /\ Target \in Running'
    BY <1>3, <2>1 DEF TypeOK, Running
  <2>3. TypeOK'
    BY <1>1, <2>1, <2>2 DEF TypeOK
  <2>4. Flow' /\ Answer' /\ Tree'
    BY <1>1, <1>2, <2>1 DEF Flow, Answer, Tree, Quiet, NoReport
  <2> QED
    BY <2>3, <2>4
<1>6. CASE StreamsClose \/ (List /\ ~EndContainer("failed")) \/ Report
  <2>1. /\ UNCHANGED <<proc, parent, piped, exit, rounds>> /\ Running' = Running /\ Zombies' = Zombies
        /\ listed' \in {listed, Running \cup Zombies}
    BY <1>6 DEF StreamsClose, List, Report, tree, Running, Zombies
  <2>2. \/ sup = "waiting" /\ exit # "none" /\ sup' = "list" /\ frame' = frame
        \/ sup = "list" /\ sup' = "report" /\ Running \cup Zombies = {} /\ frame' = frame
        \/ sup = "list" /\ sup' = "kill" /\ rounds # MaxRounds /\ frame' = frame
        \/ sup = "report" /\ sup' = "reported" /\ frame' = [limit |-> limit, over |-> over, exit |-> exit]
    <3>1. CASE StreamsClose
      BY <3>1 DEF StreamsClose
    <3>2. CASE Report
      BY <3>2 DEF Report
    <3>3. CASE List /\ ~EndContainer("failed")
      <4>1. CASE listed' = {}
        BY <3>3, <4>1 DEF List
      <4>2. CASE listed' # {} /\ rounds = MaxRounds
        BY <3>3, <4>2 DEF List
      <4>3. CASE listed' # {} /\ rounds # MaxRounds
        BY <3>3, <4>3 DEF List
      <4> QED
        BY <4>1, <4>2, <4>3
    <3> QED
      BY <1>6, <3>1, <3>2, <3>3
  <2>3. listed' \subseteq Proc
    BY <2>1 DEF TypeOK, Running, Zombies
  <2>4. TypeOK'
    BY <1>1, <2>1, <2>2, <2>3 DEF TypeOK
  <2>5. Flow'
    BY <1>1, <1>2, <2>2 DEF Flow
  <2>6. Tree'
    <3>1. rounds \in 0 .. MaxRounds /\ MaxRounds \in Nat
      BY CommandRunAssumption DEF TypeOK
    <3> QED
      BY <1>1, <2>1, <2>2, <3>1 DEF Tree, Quiet, NoReport
  <2>7. Answer'
    <3>1. frame # NoReport => frame' # NoReport
      BY <2>2 DEF Tree, Quiet
    <3> QED
      BY <1>1, <1>2, <3>1 DEF Answer, NoReport
  <2> QED
    BY <2>4, <2>5, <2>6, <2>7
<1>7. CASE Kill
  <2>1. /\ sup = "kill" /\ sup' = "list" /\ rounds' = rounds + 1 /\ UNCHANGED <<listed, frame>>
        /\ EndProcesses(listed \cap Running, "killed")
    BY <1>7 DEF Kill
  <2>2. /\ proc' \in [Proc -> {"none", "running", "zombie", "gone"}]
        /\ parent' \in [Proc -> Proc \cup {Init1}] /\ piped' \subseteq Running'
        /\ exit' \in {"none", "killed", "0", "1"} /\ (exit # "none" => exit' # "none")
    BY <2>1, ProcessesEnd
  <2>3. rounds' \in 0 .. MaxRounds
    BY <2>1, CommandRunAssumption DEF TypeOK, Tree
  <2>4. TypeOK'
    BY <1>1, <2>1, <2>2, <2>3 DEF TypeOK
  <2>5. Flow' /\ Answer'
    BY <1>1, <1>2, <2>1 DEF Flow, Answer, NoReport
  <2>6. Tree'
    BY <1>1, <2>1, <2>2 DEF Tree, Quiet, NoReport
  <2> QED
    BY <2>4, <2>5, <2>6
<1> QED
  BY <1>4, <1>5, <1>6, <1>7 DEF Supervisor

LEMMA CreateInv == IInv /\ CreateContainer => IInv'
<1> SUFFICES ASSUME IInv, CreateContainer PROVE IInv'
  OBVIOUS
<1> USE DEF IInv
<1>1. /\ client = "running" /\ sup = "none"
      /\ UNCHANGED <<class, memo, purpose, projection, host, client, parent, exit, limit, over, listed, rounds,
                     frame, removed, result>>
      /\ \/ Bounded /\ sup' = "boot" /\ UNCHANGED <<proc, piped>>
         \/ sup' = "target" /\ proc' = [proc EXCEPT ![Target] = "running"] /\ piped' = {Target}
  BY DEF CreateContainer, kept
<1>2. /\ frame = NoReport
      /\ \/ host = "waiting" /\ result = "none"
         \/ host = "done" /\ result = "killed"
  BY <1>1 DEF Flow, Tree
<1>3. (Bounded' <=> Bounded) /\ Target \in Proc
  BY <1>1 DEF Bounded, Proc
<1>4. CASE Bounded /\ sup' = "boot" /\ UNCHANGED <<proc, piped>>
  BY <1>1, <1>2, <1>3, <1>4 DEF TypeOK, Flow, Tree, Answer, Quiet, Running, Zombies, NoReport
<1>5. CASE sup' = "target" /\ proc' = [proc EXCEPT ![Target] = "running"] /\ piped' = {Target}
  <2>1. proc' \in [Proc -> {"none", "running", "zombie", "gone"}] /\ Target \in Running'
    BY <1>3, <1>5 DEF TypeOK, Running
  <2>2. TypeOK'
    BY <1>1, <1>5, <2>1 DEF TypeOK
  <2>3. Flow' /\ Tree' /\ Answer'
    BY <1>1, <1>2, <1>3, <1>5 DEF Flow, Tree, Answer, Quiet, NoReport
  <2> QED
    BY <2>2, <2>3
<1> QED
  BY <1>1, <1>4, <1>5

\* The steps of the host that leave the container alone, and its death.
LEMMA HostInv ==
  ASSUME IInv,
         Refuse \/ Admit \/ StartProbe \/ IsolationFails \/ MakeProjection \/ BuildInvocation
           \/ InvocationFails \/ Timeout \/ ClientReturns \/ HostKilled
  PROVE  IInv'
<1> USE DEF IInv
<1>1. UNCHANGED <<class, memo, sup, proc, parent, piped, exit, limit, over, listed, rounds, frame, removed>>
  BY DEF Refuse, Admit, StartProbe, IsolationFails, MakeProjection, BuildInvocation, InvocationFails,
         Timeout, ClientReturns, HostKilled, kept, tree, container
<1>2. Running' = Running /\ Zombies' = Zombies /\ NoReport' = NoReport
  BY <1>1 DEF Running, Zombies, NoReport
<1>3. CASE Refuse \/ Admit
  <2>1. /\ host = "start" /\ host' \in {"isolate", "done"} /\ UNCHANGED <<purpose, projection, client>>
        /\ result' \in {"none", "rejected", "thrown"} /\ (host' = "done" <=> result' # "none") /\ result = "none"
    BY <1>3 DEF Refuse, Admit, kept, container, Flow
  <2> QED
    BY <1>1, <1>2, <2>1 DEF TypeOK, Flow, Tree, Answer
<1>4. CASE StartProbe \/ MakeProjection
  <2>1. /\ host = "isolate" /\ UNCHANGED <<client, result>> /\ projection' \in BOOLEAN
        /\ \/ host' = "launch" /\ purpose' \in {"startup", "positive"} /\ projection' = projection
           \/ host' = "build" /\ purpose' = "command"
    BY <1>4 DEF StartProbe, MakeProjection, container, TypeOK
  <2>2. ~projection /\ result = "none"
    BY <2>1 DEF Flow
  <2>3. TypeOK'
    BY <1>1, <1>2, <2>1 DEF TypeOK, Strict
  <2>4. Flow'
    BY <1>1, <2>1, <2>2 DEF Flow
  <2>5. Tree'
    BY <1>1, <1>2, <2>1 DEF Tree
  <2>6. Answer'
    BY <2>1, <2>2 DEF Answer
  <2> QED
    BY <2>3, <2>4, <2>5, <2>6
<1>5. CASE BuildInvocation
  <2>1. host = "build" /\ host' = "launch" /\ UNCHANGED <<purpose, projection, client, result>>
    BY <1>5 DEF BuildInvocation, kept, container
  <2> QED
    BY <1>1, <1>2, <2>1 DEF TypeOK, Flow, Tree, Answer
<1>6. CASE IsolationFails \/ InvocationFails \/ HostKilled
  <2>1. /\ host # "done" /\ host' = "done" /\ result' \in {"thrown", "killed"} /\ result = "none"
        /\ (result' = "thrown" => host \in {"isolate", "build"})
        /\ UNCHANGED <<purpose, client>> /\ projection' \in BOOLEAN
    BY <1>6 DEF IsolationFails, InvocationFails, HostKilled, kept, container, Flow, TypeOK
  <2>2. TypeOK'
    BY <1>1, <1>2, <2>1 DEF TypeOK
  <2>3. Flow'
    BY <1>1, <2>1 DEF Flow
  <2>4. Tree'
    BY <1>1, <1>2, <2>1 DEF Tree
  <2>5. Answer'
    BY <2>1 DEF Answer
  <2> QED
    BY <2>2, <2>3, <2>4, <2>5
<1>7. CASE Timeout \/ ClientReturns
  <2>1. /\ host = "waiting" /\ host' = "cleanup" /\ UNCHANGED <<purpose, projection, result>>
        /\ client' \in {"timeout", "error", "125", "status", "70"} /\ (client' = "status" => sup = "ended")
    BY <1>7 DEF Timeout, ClientReturns, kept
  <2>2. client = "running" /\ result = "none" /\ (Bounded' <=> Bounded)
    BY <1>1, <2>1 DEF Flow, Bounded
  <2>3. ~Bounded => ~over
    BY <2>1, <2>2 DEF Answer, Flow
  <2> QED
    BY <1>1, <1>2, <2>1, <2>2, <2>3 DEF TypeOK, Flow, Tree, Answer
<1> QED
  BY <1>3, <1>4, <1>5, <1>6, <1>7

LEMMA LaunchInv == IInv /\ Launch => IInv'
<1> SUFFICES ASSUME IInv, Launch PROVE IInv'
  OBVIOUS
<1> USE DEF IInv
<1>1. /\ host = "launch" /\ host' = "waiting" /\ client' = "running" /\ sup' = "none"
      /\ proc' = [p \in Proc |-> "none"] /\ parent' = [p \in Proc |-> Init1] /\ piped' = {}
      /\ exit' = "none" /\ limit' = FALSE /\ over' = FALSE /\ listed' = {} /\ rounds' = 0
      /\ frame' = NoReport /\ removed' = "no" /\ UNCHANGED <<class, memo, purpose, projection, result>>
  BY FreshFacts DEF Launch, kept
<1>2. Running' = {} /\ Zombies' = {} /\ NoReport' = NoReport /\ result = "none"
  BY <1>1 DEF Running, Zombies, NoReport, Flow
<1>3. TypeOK'
  <2>1. NoReport \in [limit : BOOLEAN, over : BOOLEAN, exit : {"none", "killed", "0", "1"}]
    BY DEF NoReport
  <2>2. 0 \in 0 .. MaxRounds
    BY CommandRunAssumption
  <2>3. proc' \in [Proc -> {"none", "running", "zombie", "gone"}] /\ parent' \in [Proc -> Proc \cup {Init1}]
    BY <1>1
  <2> QED
    BY <1>1, <1>2, <2>1, <2>2, <2>3 DEF TypeOK
<1>4. Flow' /\ Tree' /\ Answer'
  BY <1>1, <1>2 DEF Flow, Tree, Answer
<1> QED
  BY <1>3, <1>4

LEMMA CleanupInv == IInv /\ Cleanup => IInv'
<1> SUFFICES ASSUME IInv, Cleanup PROVE IInv'
  OBVIOUS
<1> USE DEF IInv
<1>1. /\ host = "cleanup" /\ result = "none" /\ purpose # "none"
      /\ UNCHANGED <<class, memo, purpose, client, parent, exit, limit, over, listed, rounds, frame>>
      /\ \/ host' = "return" /\ projection' = FALSE /\ result' = "none"
         \/ projection /\ host' = "done" /\ result' = "thrown" /\ projection' = projection
  BY DEF Cleanup, Flow
<1>2. NoReport' = NoReport /\ (Bounded' <=> Bounded) /\ projection' \in BOOLEAN
  BY <1>1 DEF NoReport, Bounded, TypeOK
<1>3. CASE removed' = "yes" /\ EndContainer(IF sup \in {"ended", "failed"} THEN sup ELSE "removed")
  <2>1. /\ sup' = (IF sup \in {"ended", "failed"} THEN sup ELSE "removed")
        /\ piped' = {} /\ Running' = {} /\ Zombies' = {}
        /\ proc' \in [Proc -> {"none", "running", "zombie", "gone"}]
    BY <1>3, ContainerEnds
  <2>2. TypeOK'
    BY <1>1, <1>2, <1>3, <2>1 DEF TypeOK
  <2>3. Flow'
    BY <1>1, <2>1 DEF Flow
  <2>4. Tree'
    BY <1>1, <1>2, <2>1 DEF Tree
  <2>5. Answer'
    BY <1>1, <1>2, <2>1 DEF Answer
  <2> QED
    BY <2>2, <2>3, <2>4, <2>5
<1>4. CASE removed' = "failed" /\ UNCHANGED <<sup, proc, piped>>
  <2>1. Running' = Running /\ Zombies' = Zombies
    BY <1>4 DEF Running, Zombies
  <2>2. TypeOK'
    BY <1>1, <1>2, <1>4, <2>1 DEF TypeOK
  <2>3. Flow' /\ Answer'
    BY <1>1, <1>2, <1>4 DEF Flow, Answer
  <2>4. Tree'
    BY <1>1, <1>2, <1>4, <2>1 DEF Tree
  <2> QED
    BY <2>2, <2>3, <2>4
<1> QED
  BY <1>3, <1>4 DEF Cleanup

\* What the verdict says of the command.
LEMMA VerdictFacts ==
  ASSUME IInv, host = "return", purpose # "none"
  PROVE  /\ Verdict \in {"spawnFailed", "limited", "timedOut", "passed", "failed"}
         /\ Verdict \in {"passed", "failed"} => ~limit /\ (Bounded => frame # NoReport)
         /\ Verdict = "passed" => client = "status" /\ exit = "0" /\ ~over /\ ~limit
<1> USE DEF IInv
<1>1. frame # NoReport => frame.limit = limit /\ frame.over = over /\ frame.exit = exit
  BY DEF Tree
<1>2. ~Bounded => ~limit /\ (over => client = "killed")
  BY DEF Answer
<1>3. CASE Bounded
  <2>1. CASE Parsed
    <3>1. /\ client = "status" /\ frame.limit = limit /\ frame.over = over /\ Status = exit
          /\ ~SpawnFailed /\ (LimitFired <=> limit) /\ (Overflowed <=> over) /\ frame # NoReport
      BY <1>1, <1>3, <2>1 DEF Parsed, Status, SpawnFailed, LimitFired, Overflowed
    <3> QED
      BY <1>3, <3>1 DEF Verdict
  <2>2. CASE ~Parsed
    <3>1. SpawnFailed \/ client = "timeout"
      BY <1>3, <2>2 DEF SpawnFailed
    <3>2. ~LimitFired
      BY <2>2 DEF LimitFired
    <3> QED
      BY <3>1, <3>2 DEF Verdict
  <2> QED
    BY <2>1, <2>2
<1>4. CASE ~Bounded
  <2>1. (SpawnFailed <=> client = "error") /\ ~LimitFired /\ ~Parsed /\ (Overflowed <=> client = "killed")
    BY <1>4 DEF SpawnFailed, LimitFired, Parsed, Overflowed
  <2>2. Status = (IF client = "status" THEN exit ELSE "1")
    BY <1>4, <2>1 DEF Status
  <2> QED
    BY <1>2, <1>4, <2>1, <2>2 DEF Verdict
<1> QED
  BY <1>3, <1>4

LEMMA ReturnInv == IInv /\ (Return \/ ProbeEnds \/ ProbeThrows) => IInv'
<1> SUFFICES ASSUME IInv, Return \/ ProbeEnds \/ ProbeThrows PROVE IInv'
  OBVIOUS
<1> USE DEF IInv
<1>1. /\ UNCHANGED <<class, projection, client, sup, proc, parent, piped, exit, limit, over, listed, rounds, frame, removed>>
      /\ host = "return" /\ purpose # "none"
  BY DEF Return, ProbeEnds, ProbeThrows, kept, container, tree, Flow
<1>2. Running' = Running /\ Zombies' = Zombies /\ NoReport' = NoReport /\ result = "none"
  BY <1>1 DEF Running, Zombies, NoReport, Flow
<1>3. CASE Return
  <2>1. host' = "done" /\ result' = Verdict /\ UNCHANGED <<purpose, memo>> /\ purpose = "command"
    BY <1>3 DEF Return, kept
  <2>2. Bounded' <=> Bounded
    BY <1>1, <2>1 DEF Bounded
  <2>3. ~projection
    BY <1>1 DEF Flow
  <2> HIDE DEF IInv
  <2>4. /\ Verdict \in {"spawnFailed", "limited", "timedOut", "passed", "failed"}
        /\ Verdict \in {"passed", "failed"} => ~limit /\ (Bounded => frame # NoReport)
        /\ Verdict = "passed" => client = "status" /\ exit = "0" /\ ~over /\ ~limit
    BY <1>1, VerdictFacts
  <2> USE DEF IInv
  <2>5. TypeOK' /\ Flow' /\ Tree'
    BY <1>1, <1>2, <2>1, <2>3, <2>4 DEF TypeOK, Flow, Tree
  <2>6. Answer'
    BY <1>1, <1>2, <2>1, <2>2, <2>4 DEF Answer
  <2> QED
    BY <2>5, <2>6
<1>4. CASE ProbeEnds
  <2>1. /\ UNCHANGED result /\ purpose # "command"
        /\ \/ purpose \in DOMAIN Following /\ purpose' = Following[purpose] /\ host' = "launch" /\ memo' = memo
           \/ /\ purpose' = "none" /\ host' = "isolate"
              /\ \E b \in BOOLEAN :
                   memo' = [memo EXCEPT ![IF purpose \in Strict THEN "strict" ELSE "bounded"] =
                             IF b THEN "available" ELSE "unavailable"]
    BY <1>4 DEF ProbeEnds
  <2>2. memo' \in [{"strict", "bounded"} -> {"unknown", "available", "unavailable"}]
    BY <2>1 DEF TypeOK
  <2>3. ~projection
    BY <1>1, <2>1 DEF Flow
  <2>4. \/ purpose' \in Strict \cup {"pressure"} /\ purpose' # "none" /\ purpose' # "command" /\ host' = "launch"
        \/ purpose' = "none" /\ host' = "isolate"
    BY <2>1 DEF Following, Strict
  <2>5. TypeOK'
    BY <1>1, <1>2, <2>1, <2>2, <2>4 DEF TypeOK
  <2>6. Flow'
    BY <1>1, <1>2, <2>1, <2>3, <2>4 DEF Flow
  <2>7. Tree'
    BY <1>1, <1>2, <2>1, <2>4 DEF Tree
  <2>8. Answer'
    BY <1>1, <1>2, <2>1, <2>4 DEF Answer
  <2> QED
    BY <2>5, <2>6, <2>7, <2>8
<1>5. CASE ProbeThrows
  <2>1. host' = "done" /\ result' = "thrown" /\ UNCHANGED <<purpose, memo>> /\ purpose # "command"
    BY <1>5 DEF ProbeThrows, kept
  <2>2. ~projection
    BY <1>1, <2>1 DEF Flow
  <2> QED
    BY <1>1, <1>2, <2>1, <2>2 DEF TypeOK, Flow, Tree, Answer
<1> QED
  BY <1>3, <1>4, <1>5

LEMMA StutterInv == IInv /\ UNCHANGED vars => IInv'
BY DEF vars, IInv, TypeOK, Flow, Tree, Answer, Running, Zombies, NoReport, Bounded

LEMMA Inductive == IInv /\ [Next]_vars => IInv'
BY ProcessesInv, SupervisorInv, CreateInv, HostInv, LaunchInv, CleanupInv, ReturnInv, StutterInv
   DEF Next, HostOwn

\* Every reachable state of a command run satisfies the invariant.
THEOREM Invariance == Spec => []IInv
<1>1. IInv /\ [Next]_vars => IInv'
  BY Inductive
<1> QED
  BY <1>1, InitInv, PTL DEF Spec

-----------------------------------------------------------------------------
(***************************************************************************)
(* What holds of every command.                                            *)
(***************************************************************************)

\* The state of a command run is well typed.
THEOREM TypeCorrectness == Spec => []TypeOK
BY Invariance, PTL DEF IInv

\* The report of a process tree is never overtaken by the tree.
THEOREM ReportIsLastAlways == Spec => []ReportIsLast
<1>1. IInv => ReportIsLast
  BY DEF IInv, Tree, Quiet, ReportIsLast
<1> QED
  BY <1>1, Invariance, PTL

\* A command passes only as a whole: the target, its output, its forks and every
\* process it has left.
THEOREM PassedIsWholeAlways == Spec => []PassedIsWhole
<1>1. IInv => PassedIsWhole
  BY DEF IInv, Flow, Tree, Answer, Quiet, PassedIsWhole
<1> QED
  BY <1>1, Invariance, PTL

\* A refused fork is never answered as if there had been none.
THEOREM LimitNeverMaskedAlways == Spec => []LimitNeverMasked
<1>1. IInv => LimitNeverMasked
  BY DEF IInv, TypeOK, Flow, Tree, Answer, LimitNeverMasked
<1> QED
  BY <1>1, Invariance, PTL

\* What survives a command survives a removal that failed or the death of the
\* host, and the projection an exception or that death: never an answer.
THEOREM SurvivesOnlyUnremovedAlways == Spec => []SurvivesOnlyUnremoved
<1>1. IInv => SurvivesOnlyUnremoved
  BY DEF IInv, Flow, Tree, Quiet, SurvivesOnlyUnremoved
<1> QED
  BY <1>1, Invariance, PTL

-----------------------------------------------------------------------------
(***************************************************************************)
(* The state half of termination.                                          *)
(***************************************************************************)
\* The bounded probes come after the strict ones.
ProbesOrdered == purpose \in {"positive", "pressure"} => memo.strict = "available"

\* The containers that may still be needed, the current one included.
Containers ==
  CASE purpose = "startup" -> 9 [] purpose = "network" -> 8 [] purpose = "read" -> 7
    [] purpose = "write" -> 6 [] purpose = "fork" -> 5 [] purpose = "kernel" -> 4
    [] purpose = "positive" -> 3 [] purpose = "pressure" -> 2 [] purpose = "command" -> 1
    [] OTHER -> IF memo.strict = "unknown" THEN 9
                ELSE IF memo.strict = "available" /\ memo.bounded = "unknown" THEN 3 ELSE 1

\* The steps that the host has still to make at most.
HostRank ==
  CASE host = "start" -> 61 [] host = "done" -> 0
    [] host = "isolate" -> 6 * Containers + 6 [] host = "build" -> 6 * Containers + 5
    [] host = "launch" -> 6 * Containers + 4 [] host = "waiting" -> 6 * Containers + 3
    [] host = "cleanup" -> 6 * Containers + 2 [] host = "return" -> 6 * Containers + 1

\* Every step of the host brings it nearer to its return, and nothing that the
\* client, the daemon, the supervisor or the processes do takes it away from
\* there: nine containers at most are run for a command, its own, one for each of
\* the six strict probes and the two of the bounded class.
HostAdvances == [][HostRank' <= HostRank /\ (HostOwn => HostRank' < HostRank)]_vars

LEMMA HostSteps ==
  ASSUME IInv, ProbesOrdered, HostOwn
  PROVE  ProbesOrdered' /\ HostRank' < HostRank
<1> USE DEF IInv, TypeOK, Flow, ProbesOrdered
<1>1. Containers \in 1 .. 9
  BY DEF Containers
<1>2. CASE Refuse \/ Admit
  BY <1>1, <1>2 DEF Refuse, Admit, kept, HostRank, Containers
<1>3. CASE IsolationFails \/ InvocationFails \/ ProbeThrows
  <2>1. host \in {"isolate", "build", "return"} /\ host' = "done" /\ UNCHANGED <<purpose, memo>>
    BY <1>3 DEF IsolationFails, InvocationFails, ProbeThrows, kept
  <2> QED
    BY <1>1, <2>1 DEF HostRank
<1>4. CASE StartProbe
  <2>1. /\ host = "isolate" /\ purpose = "none" /\ host' = "launch" /\ memo' = memo
        /\ purpose' = Need /\ Need \in {"startup", "positive"}
    BY <1>4 DEF StartProbe
  <2>2. CASE memo.strict = "unknown"
    <3>1. purpose' = "startup"
      BY <2>1, <2>2 DEF Need
    <3> QED
      BY <2>1, <2>2, <3>1 DEF HostRank, Containers
  <2>3. CASE memo.strict # "unknown"
    <3>1. purpose' = "positive" /\ memo.strict = "available" /\ memo.bounded = "unknown"
      BY <2>1, <2>3 DEF Need
    <3> QED
      BY <2>1, <2>3, <3>1 DEF HostRank, Containers
  <2> QED
    BY <2>2, <2>3
<1>5. CASE MakeProjection
  <2>1. /\ host = "isolate" /\ host' = "build" /\ purpose' = "command" /\ memo' = memo
    BY <1>5 DEF MakeProjection
  <2>2. Containers' = 1
    BY <2>1 DEF Containers
  <2> QED
    BY <1>1, <2>1, <2>2 DEF HostRank
<1>6. CASE BuildInvocation \/ Launch \/ Timeout \/ Cleanup
  <2>1. /\ UNCHANGED <<purpose, memo>>
        /\ \/ host = "build" /\ host' = "launch"
           \/ host = "launch" /\ host' = "waiting"
           \/ host = "waiting" /\ host' = "cleanup"
           \/ host = "cleanup" /\ host' \in {"return", "done"}
    BY <1>6 DEF BuildInvocation, Launch, Timeout, Cleanup, kept
  <2>2. Containers' = Containers
    BY <2>1 DEF Containers
  <2> QED
    BY <1>1, <2>1, <2>2 DEF HostRank
<1>7. CASE Return
  BY <1>1, <1>7 DEF Return, kept, HostRank
<1>8. CASE ProbeEnds
  <2>1. /\ host = "return" /\ purpose \in Strict \cup {"positive", "pressure"}
        /\ \/ purpose \in DOMAIN Following /\ purpose' = Following[purpose] /\ host' = "launch" /\ memo' = memo
           \/ \E answer \in {"available", "unavailable"} :
                /\ memo' = [memo EXCEPT ![IF purpose \in Strict THEN "strict" ELSE "bounded"] = answer]
                /\ host' = "isolate" /\ purpose' = "none"
    BY <1>8 DEF ProbeEnds
  <2>2. CASE host' = "launch"
    <3>1. /\ purpose \in DOMAIN Following /\ purpose' = Following[purpose] /\ memo' = memo
      BY <2>1, <2>2
    <3>2. \/ purpose = "startup" /\ purpose' = "network"
          \/ purpose = "network" /\ purpose' = "read"
          \/ purpose = "read" /\ purpose' = "write"
          \/ purpose = "write" /\ purpose' = "fork"
          \/ purpose = "fork" /\ purpose' = "kernel"
          \/ purpose = "positive" /\ purpose' = "pressure"
      BY <3>1 DEF Following
    <3>3. HostRank' < HostRank
      BY <2>1, <2>2, <3>2 DEF HostRank, Containers
    <3> QED
      BY <3>1, <3>2, <3>3
  <2>3. CASE host' = "isolate" /\ purpose \in Strict
    <3>1. memo'.strict # "unknown" /\ purpose' = "none"
      BY <2>1, <2>3
    <3>2. Containers' \in {1, 3} /\ Containers \in {4, 5, 6, 7, 8, 9}
      BY <2>3, <3>1 DEF Containers, Strict
    <3>3. HostRank' < HostRank
      BY <2>1, <2>3, <3>2 DEF HostRank
    <3> QED
      BY <3>1, <3>3
  <2>4. CASE host' = "isolate" /\ purpose \notin Strict
    <3>1. memo'.strict # "unknown" /\ memo'.bounded # "unknown" /\ purpose' = "none"
      BY <2>1, <2>4
    <3>2. Containers' = 1 /\ Containers \in 2 .. 3
      BY <2>1, <2>4, <3>1 DEF Containers
    <3>3. (HostRank = 6 * Containers + 1) /\ (HostRank' = 6 * Containers' + 6)
      BY <2>1, <2>4 DEF HostRank
    <3> QED
      BY <3>1, <3>2, <3>3
  <2> QED
    BY <2>1, <2>2, <2>3, <2>4
<1> QED
  BY <1>2, <1>3, <1>4, <1>5, <1>6, <1>7, <1>8 DEF HostOwn

\* The others leave the host where it is, or end its waiting, or end it.
LEMMA OtherStepsWait ==
  ASSUME IInv, ProbesOrdered,
         HostKilled \/ ClientReturns \/ CreateContainer \/ Supervisor \/ Processes \/ UNCHANGED vars
  PROVE  ProbesOrdered' /\ HostRank' <= HostRank
<1>1. /\ UNCHANGED <<purpose, memo>>
      /\ UNCHANGED host \/ (host = "waiting" /\ host' = "cleanup") \/ host' = "done"
  <2>1. CASE HostKilled \/ ClientReturns \/ CreateContainer \/ UNCHANGED vars
    BY <2>1 DEF HostKilled, ClientReturns, CreateContainer, kept, vars
  <2>2. CASE Supervisor
    BY <2>2 DEF Supervisor, SupervisorFails, SpawnTarget, StreamsClose, List, Kill, Report, SupervisorEnds, kept
  <2>3. CASE Processes
    BY <2>3, ProcessSteps DEF IInv, Flow, kept
  <2> QED
    BY <2>1, <2>2, <2>3
<1>2. Containers' = Containers /\ Containers \in 1 .. 9
  BY <1>1 DEF Containers
<1> QED
  BY <1>1, <1>2 DEF ProbesOrdered, HostRank, IInv, TypeOK

\* A command makes boundedly many steps of the host and at most nine containers,
\* whatever its processes, the client and the daemon do.
THEOREM HostAdvancesAlways == Spec => HostAdvances
<1>1. Init => ProbesOrdered
  BY DEF Init, ProbesOrdered
<1>2. IInv /\ ProbesOrdered /\ [Next]_vars =>
        ProbesOrdered' /\ [HostRank' <= HostRank /\ (HostOwn => HostRank' < HostRank)]_vars
  <2> SUFFICES ASSUME IInv, ProbesOrdered, [Next]_vars
               PROVE  ProbesOrdered' /\ HostRank' <= HostRank /\ (HostOwn => HostRank' < HostRank)
    OBVIOUS
  <2>1. HostRank \in Nat /\ HostRank' \in Nat
    <3>1. Containers \in 1 .. 9 /\ Containers' \in 1 .. 9
      BY DEF Containers
    <3>2. TypeOK /\ TypeOK'
      BY Inductive DEF IInv
    <3> QED
      BY <3>1, <3>2 DEF HostRank, TypeOK
  <2>2. CASE HostOwn
    BY <2>1, <2>2, HostSteps
  <2>3. CASE ~HostOwn
    BY <2>3, OtherStepsWait DEF Next
  <2> QED
    BY <2>2, <2>3
<1> QED
  BY <1>1, <1>2, Invariance, PTL DEF Spec, HostAdvances
=============================================================================
