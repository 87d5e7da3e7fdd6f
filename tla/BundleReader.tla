------------------------------ MODULE BundleReader ------------------------------
(***************************************************************************)
(* Readers of the published bundle (src/agent-projection.mjs) next to the  *)
(* publishers of module Publication.  A reader takes no lock: it resolves  *)
(* `current`, reads and verifies the version directory behind it, and      *)
(* asserts at the end that what it resolved is still in place.  The same   *)
(* code serves `status --out`, `inspect-evidence` and the projection       *)
(* worker that `evaluate --projection agent` spawns after evaluateSupervised*)
(* has returned.                                                           *)
(***************************************************************************)
EXTENDS Publication

CONSTANT Reader   \* reader processes; each makes one pass

VARIABLES
  rpc,       \* where each reader stands in loadVerifiedPublishedBundle
  mode,      \* "status" or "inspect"
  spawner,   \* the evaluate process a reader reports to, None for a command
  target,    \* the version it resolved
  identity,  \* what statIdentity of that directory depends on
  view       \* what it concluded

readerVars == <<rpc, mode, spawner, target, identity, view>>
allVars == <<vars, readerVars>>

-----------------------------------------------------------------------------
Documents == {"receipt", "plan", "contract"}

\* Size, mtime and ctime of a version directory move with its own entries;
\* the evidence store sits deeper, under artifactRoot.
StatIdentity(v) == files[v] \ {"evidence"}

ReaderInit ==
  /\ rpc = [r \in Reader |-> "idle"]
  /\ mode = [r \in Reader |-> "status"]
  /\ spawner = [r \in Reader |-> None]
  /\ target = [r \in Reader |-> None]
  /\ identity = [r \in Reader |-> {}]
  /\ view = [r \in Reader |-> "none"]

Advance(r, l) == rpc' = [rpc EXCEPT ![r] = l]

Conclude(r, v) ==
  /\ Advance(r, "done")
  /\ view' = [view EXCEPT ![r] = v]

\* The process waits in spawnSync for its projection worker.
Delegated(p) == \E r \in Reader : spawner[r] = p

\* `evaluate --projection agent` with budget left, or a command of its own.
StartReader(r) ==
  /\ rpc[r] = "idle"
  /\ \/ \E m \in {"status", "inspect"} :
          mode' = [mode EXCEPT ![r] = m] /\ UNCHANGED spawner
     \/ \E p \in Proc \ late :
          /\ pc[p] = "emit"
          /\ ~Delegated(p)
          /\ spawner' = [spawner EXCEPT ![r] = p]
          /\ UNCHANGED mode
  /\ Advance(r, "resolve")
  /\ UNCHANGED <<target, identity, view, vars>>

\* resolvePublishedVersion; inspect-evidence refuses an absent bundle.
Resolve(r) ==
  /\ rpc[r] = "resolve"
  /\ IF current = None
       THEN /\ Conclude(r, IF mode[r] = "status" THEN "absent" ELSE "missing")
            /\ UNCHANGED <<target, identity>>
       ELSE IF current \notin dirs
         THEN Conclude(r, "missing") /\ UNCHANGED <<target, identity>>
         ELSE /\ target' = [target EXCEPT ![r] = current]
              /\ identity' = [identity EXCEPT ![r] = StatIdentity(current)]
              /\ Advance(r, "read")
              /\ UNCHANGED view
  /\ UNCHANGED <<mode, spawner, vars>>

\* Go on to l when the condition held, else report the bundle as missing.
ContinueIf(r, found, l) ==
  /\ IF found
       THEN Advance(r, l) /\ UNCHANGED view
       ELSE Conclude(r, "missing")
  /\ UNCHANGED <<mode, spawner, target, identity, vars>>

ReadDocuments(r) ==
  /\ rpc[r] = "read"
  /\ ContinueIf(r, Documents \subseteq files[target[r]], "verify")

\* verifyReceipt over receipt, plan and the evidence directory.
VerifyEvidence(r) ==
  /\ rpc[r] = "verify"
  /\ ContinueIf(r, "evidence" \in files[target[r]], "stable")

\* inspectPublishedEvidence hashes the selected object once more.
ReadObject(r) ==
  /\ rpc[r] = "object"
  /\ ContinueIf(r, "evidence" \in files[target[r]], "restable")

\* Mutant: the pointer is not read again.
VersionStable(r) ==
  /\ target[r] \in dirs
  /\ StatIdentity(target[r]) = identity[r]

\* assertPublicationStable, once after loading and once after inspecting.
PublicationStable(r) ==
  /\ current = target[r]
  /\ target[r] \in dirs
  /\ StatIdentity(target[r]) = identity[r]

AssertStable(r) ==
  /\ rpc[r] \in {"stable", "restable"}
  /\ IF ~PublicationStable(r)
       THEN Conclude(r, "mutated")
       ELSE IF rpc[r] = "stable" /\ mode[r] = "inspect"
         THEN Advance(r, "object") /\ UNCHANGED view
         ELSE Conclude(r, "verified")
  /\ UNCHANGED <<mode, spawner, target, identity, vars>>

\* The CLI prints what its projection worker printed, the ABSENT summary
\* included, and fails on any error or when the budget is spent.
Project(r, p) ==
  /\ spawner[r] = p
  /\ pc[p] = "emit"
  /\ \/ rpc[r] = "done"
     \/ p \in late
  /\ Advance(r, "done")
  /\ Goto(p, "done")
  /\ IF p \in late
       THEN Decide(p, "timeout") /\ UNCHANGED emitted
       ELSE /\ outcome' = [outcome EXCEPT ![p] =
                             IF view[r] \in {"verified", "absent"} THEN @ ELSE "infra"]
            /\ emitted' = [emitted EXCEPT ![p] =
                             IF view[r] = "verified" THEN target[r] ELSE @]
  /\ UNCHANGED <<mode, spawner, target, identity, view, attempt, lock, observed,
                 misreclaim, diskVars, todo, worker, late>>

ReaderStep(r) ==
  \/ StartReader(r) \/ Resolve(r) \/ ReadDocuments(r) \/ VerifyEvidence(r)
  \/ ReadObject(r) \/ AssertStable(r)
  \/ \E p \in Proc : Project(r, p)

PublisherStep(p) ==
  /\ \/ Supervisor(p) /\ ~Delegated(p)
     \/ Worker(p)
     \/ Environment(p)
  /\ UNCHANGED readerVars

ReadersInit == Init /\ ReaderInit
ReadersNext == (\E p \in Proc : PublisherStep(p)) \/ (\E r \in Reader : ReaderStep(r))
ReadersSpec == ReadersInit /\ [][ReadersNext]_allVars

-----------------------------------------------------------------------------
\* Type of the state of loadVerifiedPublishedBundle.
ReaderTypeOK ==
  /\ rpc \in [Reader -> {"idle", "resolve", "read", "verify", "stable", "object",
                         "restable", "done"}]
  /\ mode \in [Reader -> {"status", "inspect"}]
  /\ spawner \in [Reader -> Proc \cup {None}]
  /\ target \in [Reader -> Proc \cup {None}]
  /\ identity \in [Reader -> SUBSET File]
  /\ view \in [Reader -> {"none", "absent", "missing", "mutated", "verified"}]

\* A reader without any lock reports VERIFIED only for a version that a
\* supervisor verified and published.
VerifiedWasPublished ==
  \A r \in Reader : view[r] = "verified" => verdict[target[r]] = "sound"

\* A reader never reports VERIFIED for a bundle that was withdrawn or
\* superseded while it read: at that instant `current` still leads to it and
\* its documents are all in place.
VerifiedIsCurrent ==
  [][\A r \in Reader :
       view'[r] = "verified" /\ view[r] # "verified" =>
         current = target[r] /\ Documents \subseteq files[target[r]]]_allVars

\* A successful `evaluate`, whichever projection it prints, prints its own run.
SuccessEmitsOwnRun ==
  \A p \in Proc : pc[p] = "done" /\ outcome[p] = "ok" => emitted[p] = p
=============================================================================
