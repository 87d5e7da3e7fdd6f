----------------------------- MODULE KernelInstall -----------------------------
(***************************************************************************)
(* Installation of the certified kernel into the shared cache and its      *)
(* launch from there (scripts/experimental-kernel.mjs).                    *)
(*                                                                         *)
(* A member of Proc is one launcher process.  `kernel` is what stands at   *)
(* the path named for the certified commit: None, the copy "seed" that was *)
(* there before, or the copy that a process cloned.  A copy is sound when  *)
(* installedIdentity would accept it.                                      *)
(***************************************************************************)
EXTENDS Naturals, FiniteSets

CONSTANTS
  Proc,       \* the launcher processes that share one cache root
  Crashable,  \* those that may be killed before they finish
  None        \* no copy, no owner

ASSUME ProcAssumption == None \notin Proc /\ "seed" \notin Proc \cup {None} /\ Crashable \subseteq Proc

Copy == Proc \cup {"seed"}

VARIABLES
  pc,         \* where each process stands in ensureKernelInstalled
  lock,       \* who made the directory .install-<commit>.lock
  kernel,     \* the copy at kernelDir
  temporary,  \* the clone of each process: absent, partly made, or complete
  aside,      \* the copy at .displaced-<commit>-<random> of each process
  displaced,  \* the processes whose variable `displaced` is not null
  sound,      \* the copies that are exactly the certified commit
  damaged,    \* history: the copies changed after they were installed
  lost,       \* history: a displaced copy could not be moved back
  outcome,    \* what ensureKernelInstalled does: "ok" returns, the others throw
  ran         \* the copy each process launched, None if none was there

cacheVars == <<kernel, temporary, aside, sound>>
vars == <<pc, lock, kernel, temporary, aside, displaced, sound, damaged, lost, outcome, ran>>

\* Between making the lock and removing it.
Installing == {"clone", "checkout", "verify", "displace", "rename", "discard",
               "catch", "cleanTemporary", "cleanAside", "unlock"}
Ended == {"done", "dead"}

Init ==
  /\ pc = [p \in Proc |-> "find"]
  /\ lock = None
  /\ kernel \in {None, "seed"}
  /\ temporary = [p \in Proc |-> "absent"]
  /\ aside = [p \in Proc |-> None]
  /\ displaced = {}
  /\ sound \in {{}, {kernel} \ {None}}
  /\ damaged = {} /\ lost = FALSE
  /\ outcome = [p \in Proc |-> "none"]
  /\ ran = [p \in Proc |-> None]

Goto(p, l) == pc' = [pc EXCEPT ![p] = l]
Decide(p, o) == outcome' = [outcome EXCEPT ![p] = o]

-----------------------------------------------------------------------------
\* installedIdentity accepts what is at kernelDir: no lock is taken.
FindInstalled(p) ==
  /\ pc[p] = "find" /\ kernel \in sound
  /\ Goto(p, "launch") /\ Decide(p, "ok")
  /\ UNCHANGED <<lock, cacheVars, displaced, damaged, lost, ran>>

\* There is nothing there, it is not accepted, or a git command fails.
FindNothing(p) ==
  /\ pc[p] = "find"
  /\ Goto(p, "lock")
  /\ UNCHANGED <<lock, cacheVars, displaced, damaged, lost, outcome, ran>>

\* Mutant: mkdirSync(lock, { recursive: true }).
TakeLockRecursive(p) ==
  /\ pc[p] = "lock"
  /\ lock' = p
  /\ Goto(p, "clone")
  /\ UNCHANGED <<cacheVars, displaced, damaged, lost, outcome, ran>>

TakeLock(p) ==
  /\ pc[p] = "lock" /\ lock = None
  /\ lock' = p
  /\ Goto(p, "clone")
  /\ UNCHANGED <<cacheVars, displaced, damaged, lost, outcome, ran>>

\* Mutant: the launcher waits for the lock.
LockBusyWaits(p) ==
  /\ pc[p] = "lock" /\ lock # None
  /\ UNCHANGED vars

\* Whatever the reason why mkdir fails, the launcher reports a lock.
LockBusy(p) ==
  /\ pc[p] = "lock"
  /\ Goto(p, "done") /\ Decide(p, "locked")
  /\ UNCHANGED <<lock, cacheVars, displaced, damaged, lost, ran>>

Clone(p) ==
  /\ pc[p] = "clone"
  /\ temporary' = [temporary EXCEPT ![p] = "partial"]
  /\ Goto(p, "checkout")
  /\ UNCHANGED <<lock, kernel, aside, sound, displaced, damaged, lost, outcome, ran>>

\* The source is an ordinary repository: what it yields may be something else.
Checkout(p) ==
  /\ pc[p] = "checkout"
  /\ temporary' = [temporary EXCEPT ![p] = "complete"]
  /\ sound' \in {sound, sound \cup {p}}
  /\ Goto(p, "verify")
  /\ UNCHANGED <<lock, kernel, aside, displaced, damaged, lost, outcome, ran>>

\* Mutant: commit and tree are not compared.
VerifyUnread(p) ==
  /\ pc[p] = "verify"
  /\ Goto(p, "displace")
  /\ UNCHANGED <<lock, cacheVars, displaced, damaged, lost, outcome, ran>>

Verify(p) ==
  /\ pc[p] = "verify" /\ p \in sound
  /\ Goto(p, "displace")
  /\ UNCHANGED <<lock, cacheVars, displaced, damaged, lost, outcome, ran>>

Displace(p) ==
  /\ pc[p] = "displace"
  /\ IF kernel = None
       THEN UNCHANGED <<kernel, aside, displaced>>
       ELSE /\ displaced' = displaced \cup {p}
            /\ aside' = [aside EXCEPT ![p] = kernel]
            /\ kernel' = None
  /\ Goto(p, "rename")
  /\ UNCHANGED <<lock, temporary, sound, damaged, lost, outcome, ran>>

Rename(p) ==
  /\ pc[p] = "rename"
  /\ kernel' = p
  /\ temporary' = [temporary EXCEPT ![p] = "absent"]
  /\ Goto(p, "discard")
  /\ UNCHANGED <<lock, aside, sound, displaced, damaged, lost, outcome, ran>>

Discard(p) ==
  /\ pc[p] = "discard"
  /\ aside' = [aside EXCEPT ![p] = None]
  /\ displaced' = displaced \ {p}
  /\ Goto(p, "cleanTemporary") /\ Decide(p, "ok")
  /\ UNCHANGED <<lock, kernel, temporary, sound, damaged, lost, ran>>

\* A git command, a rename or a removal in the try block throws.  The variable
\* `displaced` is assigned before the rename that gives it its meaning.
Throw(p) ==
  /\ \/ pc[p] \in {"clone", "checkout", "verify", "rename"}
     \/ pc[p] = "displace" /\ kernel # None
     \/ pc[p] = "discard" /\ p \in displaced
  /\ displaced' = (IF pc[p] = "displace" THEN displaced \cup {p} ELSE displaced)
  /\ temporary' \in {temporary, [temporary EXCEPT ![p] = IF pc[p] = "clone" THEN "partial" ELSE @]}
  /\ Goto(p, "catch") /\ Decide(p, "failed")
  /\ UNCHANGED <<lock, kernel, aside, sound, damaged, lost, ran>>

Restorable(p) == p \in displaced /\ kernel = None /\ aside[p] # None

\* Mutant: there is no catch block.
RestoreNothing(p) ==
  /\ pc[p] = "catch"
  /\ Goto(p, "cleanTemporary")
  /\ UNCHANGED <<lock, cacheVars, displaced, damaged, lost, outcome, ran>>

Restore(p) ==
  /\ pc[p] = "catch"
  /\ IF Restorable(p)
       THEN kernel' = aside[p] /\ aside' = [aside EXCEPT ![p] = None]
       ELSE UNCHANGED <<kernel, aside>>
  /\ Goto(p, "cleanTemporary")
  /\ UNCHANGED <<lock, temporary, sound, displaced, damaged, lost, outcome, ran>>

RestoreFails(p) ==
  /\ pc[p] = "catch" /\ Restorable(p)
  /\ lost' = TRUE
  /\ Goto(p, "cleanTemporary")
  /\ UNCHANGED <<lock, cacheVars, displaced, damaged, outcome, ran>>

CleanTemporary(p) ==
  /\ pc[p] = "cleanTemporary"
  /\ temporary' = [temporary EXCEPT ![p] = "absent"]
  /\ Goto(p, "cleanAside")
  /\ UNCHANGED <<lock, kernel, aside, sound, displaced, damaged, lost, outcome, ran>>

\* Mutant: the finally block forgets the displaced copy.
CleanAsideNever(p) ==
  /\ pc[p] = "cleanAside"
  /\ Goto(p, "unlock")
  /\ UNCHANGED <<lock, cacheVars, displaced, damaged, lost, outcome, ran>>

CleanAside(p) ==
  /\ pc[p] = "cleanAside"
  /\ aside' = (IF p \in displaced THEN [aside EXCEPT ![p] = None] ELSE aside)
  /\ Goto(p, "unlock")
  /\ UNCHANGED <<lock, kernel, temporary, sound, displaced, damaged, lost, outcome, ran>>

Unlock(p) ==
  /\ pc[p] = "unlock"
  /\ lock' = None
  /\ Goto(p, IF outcome[p] = "ok" THEN "launch" ELSE "done")
  /\ UNCHANGED <<cacheVars, displaced, damaged, lost, outcome, ran>>

\* A removal throws inside the finally block: the rest of it is not executed.
CleanFails(p) ==
  /\ \/ pc[p] = "cleanTemporary" /\ temporary[p] # "absent"
     \/ pc[p] = "cleanAside" /\ p \in displaced /\ aside[p] # None
     \/ pc[p] = "unlock"
  /\ Goto(p, "done") /\ Decide(p, "unclean")
  /\ UNCHANGED <<lock, cacheVars, displaced, damaged, lost, ran>>

\* The CLI at kernelDir is spawned; whatever is there now is executed.
Launch(p) ==
  /\ pc[p] = "launch"
  /\ ran' = [ran EXCEPT ![p] = kernel]
  /\ Goto(p, "done")
  /\ UNCHANGED <<lock, cacheVars, displaced, damaged, lost, outcome>>

Launcher(p) ==
  \/ FindInstalled(p) \/ FindNothing(p) \/ TakeLock(p) \/ LockBusy(p)
  \/ Clone(p) \/ Checkout(p) \/ Verify(p) \/ Displace(p) \/ Rename(p) \/ Discard(p)
  \/ Throw(p) \/ Restore(p) \/ RestoreFails(p)
  \/ CleanTemporary(p) \/ CleanAside(p) \/ Unlock(p) \/ CleanFails(p)
  \/ Launch(p)

Crash(p) ==
  /\ p \in Crashable /\ pc[p] \notin Ended
  /\ Goto(p, "dead")
  /\ UNCHANGED <<lock, cacheVars, displaced, damaged, lost, outcome, ran>>

\* Somebody writes into the installed copy.
Damage ==
  /\ kernel \in sound
  /\ sound' = sound \ {kernel}
  /\ damaged' = damaged \cup {kernel}
  /\ UNCHANGED <<pc, lock, kernel, temporary, aside, displaced, lost, outcome, ran>>

Next == (\E p \in Proc : Launcher(p) \/ Crash(p)) \/ Damage

\* Each launcher is scheduled; git runs under a timeout.
Spec == Init /\ [][Next]_vars /\ \A p \in Proc : WF_vars(Launcher(p))
-----------------------------------------------------------------------------
\* Every variable keeps its type (the state of ensureKernelInstalled).
TypeOK ==
  /\ pc \in [Proc -> {"find", "lock", "launch"} \cup Installing \cup Ended]
  /\ lock \in Proc \cup {None}
  /\ kernel \in Copy \cup {None}
  /\ temporary \in [Proc -> {"absent", "partial", "complete"}]
  /\ aside \in [Proc -> Copy \cup {None}]
  /\ displaced \subseteq Proc
  /\ sound \subseteq Copy /\ damaged \subseteq Copy
  /\ lost \in BOOLEAN
  /\ outcome \in [Proc -> {"none", "ok", "locked", "failed", "unclean"}]
  /\ ran \in [Proc -> Copy \cup {None}]

\* One process at a time is between making the lock and removing it, whatever
\* crashed before: nobody else moves the kernel meanwhile.
OneInstaller == \A p, q \in Proc : pc[p] \in Installing /\ pc[q] \in Installing => p = q

\* Whatever was found, displaced or moved back in between, the copy a process
\* launches has been verified: if it is not sound, it was damaged later.
LaunchesCertified == \A p \in Proc : ran[p] # None => ran[p] \in sound \cup damaged

\* A process that was told that the kernel is installed finds none only while
\* another one is installing (or was killed doing so, or failed to clean up),
\* unless a displaced copy could not be moved back.
AbsentOnlyUnderLock ==
  (\E p \in Proc : pc[p] = "launch") /\ kernel = None => lock # None \/ lost

\* A process that is not killed leaves no clone, no displaced copy and no lock,
\* unless removing one of them threw.
NothingLeftBehind ==
  \A p \in Proc : pc[p] \in {"launch", "done"} /\ outcome[p] # "unclean" =>
    temporary[p] = "absent" /\ aside[p] = None /\ lock # p

\* The lock, the kernel's place and the copy displaced by the lock's holder,
\* seen together, implement the abstract installation: an installed copy is
\* never overwritten, is displaced and moved back by one launcher, and is removed
\* only behind another one or after a failed restore (experimental-kernel.mjs:
\* ensureKernelInstalled).
Serialized == INSTANCE SerializedInstall WITH
  holder <- lock, place <- kernel, taken <- IF lock = None THEN None ELSE aside[lock], lost <- lost

ImplementsSerialized == Serialized!Spec

\* Every launcher ends, also next to the lock of one that was killed.
EveryLauncherEnds == \A p \in Proc : pc[p] = "find" ~> pc[p] \in Ended
=============================================================================
