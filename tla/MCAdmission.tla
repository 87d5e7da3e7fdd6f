---------------------------- MODULE MCAdmission ----------------------------
(***************************************************************************)
(* Three commits: c1 conforms; c2 claims to and does not; c3 is c1 with    *)
(* other sources, so that its status and registry are those of c1.  The    *)
(* documents supplied are an honest set with at most one of them varied.   *)
(***************************************************************************)
EXTENDS Admission

CONSTANTS c1, c2, c3
MCCommit == {c1, c2, c3}
MCTree == [c \in MCCommit |-> CASE c = c1 -> "t1" [] c = c2 -> "t2" [] OTHER -> "t3"]

Case(planted) ==
  [conforming |-> [disposition |-> "PROMOTABLE", receiptVerified |-> TRUE],
   planted |-> [disposition |-> planted, receiptVerified |-> TRUE]]
Passing ==
  [kernelRelease |-> KernelRelease, cases |-> {Case("BLOCKED")},
   kernelActivation |-> {[mechanism |-> "m", proven |-> TRUE]},
   census |-> [complete |-> TRUE, registered |-> 2, proven |-> 2, productionRequired |-> 1,
               productionObserved |-> 1, findings |-> 0],
   allPassed |-> TRUE]
Unproven == [Passing EXCEPT !.cases = {Case("BLOCKED"), Case("PROMOTABLE")}]
MCEditedStatus ==
  {[Passing EXCEPT !.census.registered = 1, !.census.proven = 1], [Passing EXCEPT !.kernelRelease = "other"]}

MCSnapshot ==
  [c \in MCCommit |-> [status |-> IF c = c2 THEN Unproven ELSE Passing, registry |-> IF c = c2 THEN "r2" ELSE "r1"]]

Attest(c) == [signer |-> PinnedKey, kernelRelease |-> KernelRelease, kernelCommit |-> c,
              status |-> MCSnapshot[c].status, registry |-> MCSnapshot[c].registry]
MCAttestation ==
  {Attest(c) : c \in MCCommit}
  \cup {[Attest(c1) EXCEPT !.signer = "stranger"], [Attest(c1) EXCEPT !.kernelRelease = "other"]}

-----------------------------------------------------------------------------
Subject(c) == [release |-> KernelRelease, commit |-> c, tree |-> MCTree[c]]
Conformance(c) == [attestation |-> Attest(c), certification |-> "certification"]

RequiredCheck(id) == [checkId |-> id, invocation |-> "test", expectedOutcome |-> "PASS"]
MCPolicy ==
  [c \in MCCommit |->
    [subject |-> Subject(c), activation |-> "activation", validity |-> 2,
     requiredChecks |-> <<RequiredCheck(1), RequiredCheck(2)>>,
     maxTasks |-> 2, maxCost |-> 3, maxArtifactBytes |-> 3]]

Result(id, invocation, answer, cost) ==
  [checkId |-> id, invocation |-> invocation, answer |-> answer, cost |-> cost, evidence |-> "log"]
Artifact(id, digest, size) == [artifactId |-> id, digest |-> digest, size |-> size]

Results == {Result(id, "test", "PASS", cost) : id \in 1 .. 3, cost \in {1, 2}}
           \cup {Result(id, "other", "PASS", 1) : id \in 1 .. 2}
           \cup {Result(id, "test", "BLOCKED", 1) : id \in 1 .. 2}
Artifacts == {Artifact(id, "log", size) : id \in 1 .. 3, size \in {1, 2}}
             \cup {Artifact(id, "drift", 1) : id \in 1 .. 2}

InputOf(c, results, artifacts) ==
  [subject |-> Subject(c), policy |-> MCPolicy[c], activation |-> "activation", conformance |-> Conformance(c),
   results |-> results, artifacts |-> artifacts]
Sound(c) == InputOf(c, <<Result(1, "test", "PASS", 1), Result(2, "test", "PASS", 1)>>,
                       <<Artifact(1, "log", 1), Artifact(2, "log", 1)>>)
Foreign ==
  {[Sound(c1) EXCEPT !.subject = Subject(c3)], [Sound(c1) EXCEPT !.activation = "other"],
   [Sound(c1) EXCEPT !.policy = MCPolicy[c3]], [Sound(c1) EXCEPT !.conformance = Conformance(c3)],
   [Sound(c1) EXCEPT !.results = Append(@, Result(3, "test", "PASS", 1))],
   [Sound(c1) EXCEPT !.artifacts = Append(@, Artifact(3, "log", 1))]}
MCInput ==
  {[commit |-> c1, input |-> InputOf(c1, results, artifacts)] :
     results \in SeqOf(Results, 2), artifacts \in SeqOf(Artifacts, 2)}
  \cup {[commit |-> c1, input |-> foreign] : foreign \in Foreign}
  \cup {[commit |-> c3, input |-> Sound(c3)]}

-----------------------------------------------------------------------------
First(c, r) ==
  [signer |-> PinnedKey, authorityId |-> AuthorityId, subject |-> Subject(c), activation |-> "activation",
   requested |-> "PILOT_ELIGIBLE", predecessor |-> [status |-> "EXPERIMENTAL", digest |-> Attest(c)],
   sequence |-> 1, supersedes |-> None, evidence |-> r, policy |-> MCPolicy[c],
   attestation |-> Attest(c), certification |-> "certification", registry |-> MCSnapshot[c].registry,
   issued |-> 2, from |-> 2, expires |-> 4, maxSkew |-> 1]
After(s, sequence) ==
  [s EXCEPT !.predecessor = [status |-> "PILOT_ELIGIBLE", digest |-> s], !.sequence = sequence, !.supersedes = s,
            !.expires = 3]

\* What the authority may have signed, sound or not; a stranger signs anything.
Varied(s) ==
  {[s EXCEPT !.signer = "stranger"], [s EXCEPT !.authorityId = "other"], [s EXCEPT !.activation = "other"],
   [s EXCEPT !.requested = "CERTIFIED"], [s EXCEPT !.predecessor.status = "CERTIFIED"], [s EXCEPT !.sequence = 3],
   [s EXCEPT !.supersedes = None], [s EXCEPT !.policy = MCPolicy[c3]], [s EXCEPT !.attestation = Attest(c2)],
   [s EXCEPT !.certification = "other"], [s EXCEPT !.registry = "r2"], [s EXCEPT !.issued = 3],
   [s EXCEPT !.from = 4], [s EXCEPT !.expires = 5],
   [s EXCEPT !.predecessor.digest = Attest(c2)]}
Signed(r) ==
  LET first == First(c1, r) IN
  {first, First(c3, r), After(first, 2), After(After(first, 2), 3)}
  \cup Varied(first) \cup Varied(After(first, 2))
  \cup {After(first, 3), After(First(c3, r), 2),
         After([first EXCEPT !.requested = "CERTIFIED"], 2), After([first EXCEPT !.subject = Subject(c3)], 2)}

Documents(s, r) ==
  [statement |-> s, evidence |-> r, policy |-> MCPolicy[s.subject.commit], activation |-> "activation",
   certification |-> "certification", authorityId |-> AuthorityId,
   predecessor |-> IF s.sequence = 1 THEN None ELSE s.predecessor.digest]
Absent == [statement |-> None, evidence |-> None, policy |-> None, activation |-> None, certification |-> None,
           authorityId |-> None, predecessor |-> None]
Substituted(p) ==
  {[p EXCEPT !.statement = None], [p EXCEPT !.evidence = None], [p EXCEPT !.policy = None],
   [p EXCEPT !.activation = None], [p EXCEPT !.certification = None], [p EXCEPT !.authorityId = None],
   [p EXCEPT !.predecessor = None], [p EXCEPT !.evidence.complete = TRUE],
   [p EXCEPT !.evidence = [@ EXCEPT !.complete = TRUE, !.sealed = FALSE]],
   [p EXCEPT !.policy = MCPolicy[c3]], [p EXCEPT !.activation = "other"], [p EXCEPT !.certification = "other"],
   [p EXCEPT !.authorityId = "other"]}
MCPresentation(r) ==
  {Absent} \cup {Documents(s, r) : s \in Signed(r)}
  \cup UNION {Substituted(Documents(s, r)) : s \in {First(c1, r), After(First(c1, r), 2)}}
=============================================================================
