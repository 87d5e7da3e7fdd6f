-------------------------- MODULE KernelInstallProofs --------------------------
(***************************************************************************)
(* Theorems about module KernelInstall, for any number of launchers, any   *)
(* of which may be killed, and whatever was in the cache before.           *)
(***************************************************************************)
EXTENDS KernelInstall, TLAPS

Trusted == sound \cup damaged
Launching == \E p \in Proc : pc[p] = "launch"
Before == {"find", "lock", "clone", "checkout", "verify", "displace"}

\* Whoever is between making the lock and removing it owns it; nobody owns it
\* who has not made it.
LockHeld == \A p \in Proc :
  /\ pc[p] \in Installing => lock = p
  /\ pc[p] \in {"find", "lock"} => lock # p

\* A displaced copy is known to the process that displaced it.
AsideOwned == \A p \in Proc :
  /\ aside[p] # None => p \in displaced
  /\ pc[p] \in Before \cup {"unlock", "launch"} => aside[p] = None

TemporaryOwned == \A p \in Proc :
  pc[p] \in {"find", "lock", "clone", "cleanAside", "unlock", "launch"} => temporary[p] = "absent"

CaughtFailed == \A p \in Proc : pc[p] = "catch" => outcome[p] = "failed"

\* What is about to be renamed to the kernel's place was verified, and what a
\* process was told is installed stays in place until it removes the lock.
Verified == \A p \in Proc : pc[p] \in {"displace", "rename"} => p \in Trusted

Standing == \A p \in Proc :
  (pc[p] = "discard" \/ (pc[p] \in {"cleanTemporary", "cleanAside", "unlock"} /\ outcome[p] = "ok"))
    => kernel \in Trusted

\* While somebody is about to launch, what is in place, and what may be moved
\* back there, was verified.
KernelTrusted == Launching =>
  /\ kernel # None => kernel \in Trusted
  /\ \A q \in Proc : pc[q] \in {"rename", "catch"} /\ kernel = None /\ aside[q] # None => aside[q] \in Trusted

\* While somebody is about to launch and there is no kernel, the process that
\* holds the lock is about to put one in place or to move the old one back.
KernelKept == Launching /\ kernel = None /\ ~lost => \A q \in Proc :
  pc[q] \in Installing => pc[q] \in {"rename", "catch"} /\ aside[q] # None

IInv ==
  /\ TypeOK /\ LockHeld /\ AsideOwned /\ TemporaryOwned /\ CaughtFailed
  /\ Verified /\ Standing /\ KernelTrusted /\ KernelKept
  /\ LaunchesCertified /\ AbsentOnlyUnderLock /\ NothingLeftBehind

-----------------------------------------------------------------------------
LEMMA InitInv == Init => IInv
<1> SUFFICES ASSUME Init PROVE IInv
  OBVIOUS
<1>1. TypeOK
  BY DEF Init, TypeOK, Copy, Installing, Ended
<1>2. /\ \A p \in Proc : pc[p] = "find" /\ ran[p] = None /\ aside[p] = None /\ temporary[p] = "absent"
      /\ lock = None /\ ~Launching
  BY DEF Init, Launching
<1>3. LockHeld /\ AsideOwned /\ TemporaryOwned /\ CaughtFailed /\ Verified /\ Standing
  BY <1>2, ProcAssumption
     DEF LockHeld, AsideOwned, TemporaryOwned, CaughtFailed, Verified, Standing, Installing
<1>4. KernelTrusted /\ KernelKept
  BY <1>2 DEF KernelTrusted, KernelKept
<1>5. LaunchesCertified /\ AbsentOnlyUnderLock /\ NothingLeftBehind
  BY <1>2 DEF LaunchesCertified, AbsentOnlyUnderLock, NothingLeftBehind
<1> QED BY <1>1, <1>3, <1>4, <1>5 DEF IInv

\* No step breaks the types.
LEMMA TypeStep == TypeOK /\ [Next]_vars => TypeOK'
<1> SUFFICES ASSUME TypeOK, [Next]_vars PROVE TypeOK'
  OBVIOUS
<1> USE DEF TypeOK, Copy, Installing, Ended, cacheVars, Goto, Decide
<1>1. ASSUME NEW p \in Proc, FindInstalled(p) PROVE TypeOK'
  BY <1>1 DEF FindInstalled
<1>2. ASSUME NEW p \in Proc, FindNothing(p) PROVE TypeOK'
  BY <1>2 DEF FindNothing
<1>3. ASSUME NEW p \in Proc, TakeLock(p) PROVE TypeOK'
  BY <1>3 DEF TakeLock
<1>4. ASSUME NEW p \in Proc, LockBusy(p) PROVE TypeOK'
  BY <1>4 DEF LockBusy
<1>5. ASSUME NEW p \in Proc, Clone(p) PROVE TypeOK'
  BY <1>5 DEF Clone
<1>6. ASSUME NEW p \in Proc, Checkout(p) PROVE TypeOK'
  BY <1>6 DEF Checkout
<1>7. ASSUME NEW p \in Proc, Verify(p) PROVE TypeOK'
  BY <1>7 DEF Verify
<1>8. ASSUME NEW p \in Proc, Displace(p) PROVE TypeOK'
  BY <1>8 DEF Displace
<1>9. ASSUME NEW p \in Proc, Rename(p) PROVE TypeOK'
  BY <1>9 DEF Rename
<1>10. ASSUME NEW p \in Proc, Discard(p) PROVE TypeOK'
  BY <1>10 DEF Discard
<1>11. ASSUME NEW p \in Proc, Throw(p) PROVE TypeOK'
  BY <1>11 DEF Throw
<1>12. ASSUME NEW p \in Proc, Restore(p) PROVE TypeOK'
  BY <1>12 DEF Restore
<1>13. ASSUME NEW p \in Proc, RestoreFails(p) PROVE TypeOK'
  BY <1>13 DEF RestoreFails
<1>14. ASSUME NEW p \in Proc, CleanTemporary(p) PROVE TypeOK'
  BY <1>14 DEF CleanTemporary
<1>15. ASSUME NEW p \in Proc, CleanAside(p) PROVE TypeOK'
  BY <1>15 DEF CleanAside
<1>16. ASSUME NEW p \in Proc, Unlock(p) PROVE TypeOK'
  BY <1>16 DEF Unlock
<1>17. ASSUME NEW p \in Proc, CleanFails(p) PROVE TypeOK'
  BY <1>17 DEF CleanFails
<1>18. ASSUME NEW p \in Proc, Launch(p) PROVE TypeOK'
  BY <1>18 DEF Launch
<1>19. ASSUME NEW p \in Proc, Crash(p) PROVE TypeOK'
  BY <1>19 DEF Crash
<1>20. ASSUME Damage PROVE TypeOK'
  BY <1>20 DEF Damage
<1>21. ASSUME UNCHANGED vars PROVE TypeOK'
  BY <1>21 DEF vars
<1> QED BY <1>1, <1>2, <1>3, <1>4, <1>5, <1>6, <1>7, <1>8, <1>9, <1>10, <1>11, <1>12, <1>13,
     <1>14, <1>15, <1>16, <1>17, <1>18, <1>19, <1>20, <1>21 DEF Next, Launcher

\* The lock excludes.
LEMMA LockStep == TypeOK /\ LockHeld /\ [Next]_vars => LockHeld'
<1> SUFFICES ASSUME TypeOK, LockHeld, [Next]_vars PROVE LockHeld'
  OBVIOUS
<1> USE DEF TypeOK, Copy, Installing, Ended, cacheVars, Goto, Decide, LockHeld
<1>1. ASSUME NEW p \in Proc, FindInstalled(p) PROVE LockHeld'
  BY <1>1, ProcAssumption DEF FindInstalled
<1>2. ASSUME NEW p \in Proc, FindNothing(p) PROVE LockHeld'
  BY <1>2, ProcAssumption DEF FindNothing
<1>3. ASSUME NEW p \in Proc, TakeLock(p) PROVE LockHeld'
  BY <1>3, ProcAssumption DEF TakeLock
<1>4. ASSUME NEW p \in Proc, LockBusy(p) PROVE LockHeld'
  BY <1>4, ProcAssumption DEF LockBusy
<1>5. ASSUME NEW p \in Proc, Clone(p) PROVE LockHeld'
  BY <1>5, ProcAssumption DEF Clone
<1>6. ASSUME NEW p \in Proc, Checkout(p) PROVE LockHeld'
  BY <1>6, ProcAssumption DEF Checkout
<1>7. ASSUME NEW p \in Proc, Verify(p) PROVE LockHeld'
  BY <1>7, ProcAssumption DEF Verify
<1>8. ASSUME NEW p \in Proc, Displace(p) PROVE LockHeld'
  BY <1>8, ProcAssumption DEF Displace
<1>9. ASSUME NEW p \in Proc, Rename(p) PROVE LockHeld'
  BY <1>9, ProcAssumption DEF Rename
<1>10. ASSUME NEW p \in Proc, Discard(p) PROVE LockHeld'
  BY <1>10, ProcAssumption DEF Discard
<1>11. ASSUME NEW p \in Proc, Throw(p) PROVE LockHeld'
  BY <1>11, ProcAssumption DEF Throw
<1>12. ASSUME NEW p \in Proc, Restore(p) PROVE LockHeld'
  BY <1>12, ProcAssumption DEF Restore
<1>13. ASSUME NEW p \in Proc, RestoreFails(p) PROVE LockHeld'
  BY <1>13, ProcAssumption DEF RestoreFails
<1>14. ASSUME NEW p \in Proc, CleanTemporary(p) PROVE LockHeld'
  BY <1>14, ProcAssumption DEF CleanTemporary
<1>15. ASSUME NEW p \in Proc, CleanAside(p) PROVE LockHeld'
  BY <1>15, ProcAssumption DEF CleanAside
<1>16. ASSUME NEW p \in Proc, Unlock(p) PROVE LockHeld'
  BY <1>16, ProcAssumption DEF Unlock
<1>17. ASSUME NEW p \in Proc, CleanFails(p) PROVE LockHeld'
  BY <1>17, ProcAssumption DEF CleanFails
<1>18. ASSUME NEW p \in Proc, Launch(p) PROVE LockHeld'
  BY <1>18, ProcAssumption DEF Launch
<1>19. ASSUME NEW p \in Proc, Crash(p) PROVE LockHeld'
  BY <1>19, ProcAssumption DEF Crash
<1>20. ASSUME Damage PROVE LockHeld'
  BY <1>20, ProcAssumption DEF Damage
<1>21. ASSUME UNCHANGED vars PROVE LockHeld'
  BY <1>21, ProcAssumption DEF vars
<1> QED BY <1>1, <1>2, <1>3, <1>4, <1>5, <1>6, <1>7, <1>8, <1>9, <1>10, <1>11, <1>12, <1>13,
     <1>14, <1>15, <1>16, <1>17, <1>18, <1>19, <1>20, <1>21 DEF Next, Launcher

LEMMA AsideStep == TypeOK /\ AsideOwned /\ [Next]_vars => AsideOwned'
<1> SUFFICES ASSUME TypeOK, AsideOwned, [Next]_vars PROVE AsideOwned'
  OBVIOUS
<1> USE DEF TypeOK, Copy, Installing, Ended, cacheVars, Goto, Decide, AsideOwned, Before
<1>1. ASSUME NEW p \in Proc, FindInstalled(p) PROVE AsideOwned'
  BY <1>1 DEF FindInstalled
<1>2. ASSUME NEW p \in Proc, FindNothing(p) PROVE AsideOwned'
  BY <1>2 DEF FindNothing
<1>3. ASSUME NEW p \in Proc, TakeLock(p) PROVE AsideOwned'
  BY <1>3 DEF TakeLock
<1>4. ASSUME NEW p \in Proc, LockBusy(p) PROVE AsideOwned'
  BY <1>4 DEF LockBusy
<1>5. ASSUME NEW p \in Proc, Clone(p) PROVE AsideOwned'
  BY <1>5 DEF Clone
<1>6. ASSUME NEW p \in Proc, Checkout(p) PROVE AsideOwned'
  BY <1>6 DEF Checkout
<1>7. ASSUME NEW p \in Proc, Verify(p) PROVE AsideOwned'
  BY <1>7 DEF Verify
<1>8. ASSUME NEW p \in Proc, Displace(p) PROVE AsideOwned'
  BY <1>8 DEF Displace
<1>9. ASSUME NEW p \in Proc, Rename(p) PROVE AsideOwned'
  BY <1>9 DEF Rename
<1>10. ASSUME NEW p \in Proc, Discard(p) PROVE AsideOwned'
  BY <1>10 DEF Discard
<1>11. ASSUME NEW p \in Proc, Throw(p) PROVE AsideOwned'
  BY <1>11 DEF Throw
<1>12. ASSUME NEW p \in Proc, Restore(p) PROVE AsideOwned'
  BY <1>12 DEF Restore
<1>13. ASSUME NEW p \in Proc, RestoreFails(p) PROVE AsideOwned'
  BY <1>13 DEF RestoreFails
<1>14. ASSUME NEW p \in Proc, CleanTemporary(p) PROVE AsideOwned'
  BY <1>14 DEF CleanTemporary
<1>15. ASSUME NEW p \in Proc, CleanAside(p) PROVE AsideOwned'
  BY <1>15 DEF CleanAside
<1>16. ASSUME NEW p \in Proc, Unlock(p) PROVE AsideOwned'
  BY <1>16 DEF Unlock
<1>17. ASSUME NEW p \in Proc, CleanFails(p) PROVE AsideOwned'
  BY <1>17 DEF CleanFails
<1>18. ASSUME NEW p \in Proc, Launch(p) PROVE AsideOwned'
  BY <1>18 DEF Launch
<1>19. ASSUME NEW p \in Proc, Crash(p) PROVE AsideOwned'
  BY <1>19 DEF Crash
<1>20. ASSUME Damage PROVE AsideOwned'
  BY <1>20 DEF Damage
<1>21. ASSUME UNCHANGED vars PROVE AsideOwned'
  BY <1>21 DEF vars
<1> QED BY <1>1, <1>2, <1>3, <1>4, <1>5, <1>6, <1>7, <1>8, <1>9, <1>10, <1>11, <1>12, <1>13,
     <1>14, <1>15, <1>16, <1>17, <1>18, <1>19, <1>20, <1>21 DEF Next, Launcher

LEMMA TemporaryStep == TypeOK /\ TemporaryOwned /\ [Next]_vars => TemporaryOwned'
<1> SUFFICES ASSUME TypeOK, TemporaryOwned, [Next]_vars PROVE TemporaryOwned'
  OBVIOUS
<1> USE DEF TypeOK, Copy, Installing, Ended, cacheVars, Goto, Decide, TemporaryOwned
<1>1. ASSUME NEW p \in Proc, FindInstalled(p) PROVE TemporaryOwned'
  BY <1>1 DEF FindInstalled
<1>2. ASSUME NEW p \in Proc, FindNothing(p) PROVE TemporaryOwned'
  BY <1>2 DEF FindNothing
<1>3. ASSUME NEW p \in Proc, TakeLock(p) PROVE TemporaryOwned'
  BY <1>3 DEF TakeLock
<1>4. ASSUME NEW p \in Proc, LockBusy(p) PROVE TemporaryOwned'
  BY <1>4 DEF LockBusy
<1>5. ASSUME NEW p \in Proc, Clone(p) PROVE TemporaryOwned'
  BY <1>5 DEF Clone
<1>6. ASSUME NEW p \in Proc, Checkout(p) PROVE TemporaryOwned'
  BY <1>6 DEF Checkout
<1>7. ASSUME NEW p \in Proc, Verify(p) PROVE TemporaryOwned'
  BY <1>7 DEF Verify
<1>8. ASSUME NEW p \in Proc, Displace(p) PROVE TemporaryOwned'
  BY <1>8 DEF Displace
<1>9. ASSUME NEW p \in Proc, Rename(p) PROVE TemporaryOwned'
  BY <1>9 DEF Rename
<1>10. ASSUME NEW p \in Proc, Discard(p) PROVE TemporaryOwned'
  BY <1>10 DEF Discard
<1>11. ASSUME NEW p \in Proc, Throw(p) PROVE TemporaryOwned'
  BY <1>11 DEF Throw
<1>12. ASSUME NEW p \in Proc, Restore(p) PROVE TemporaryOwned'
  BY <1>12 DEF Restore
<1>13. ASSUME NEW p \in Proc, RestoreFails(p) PROVE TemporaryOwned'
  BY <1>13 DEF RestoreFails
<1>14. ASSUME NEW p \in Proc, CleanTemporary(p) PROVE TemporaryOwned'
  BY <1>14 DEF CleanTemporary
<1>15. ASSUME NEW p \in Proc, CleanAside(p) PROVE TemporaryOwned'
  BY <1>15 DEF CleanAside
<1>16. ASSUME NEW p \in Proc, Unlock(p) PROVE TemporaryOwned'
  BY <1>16 DEF Unlock
<1>17. ASSUME NEW p \in Proc, CleanFails(p) PROVE TemporaryOwned'
  BY <1>17 DEF CleanFails
<1>18. ASSUME NEW p \in Proc, Launch(p) PROVE TemporaryOwned'
  BY <1>18 DEF Launch
<1>19. ASSUME NEW p \in Proc, Crash(p) PROVE TemporaryOwned'
  BY <1>19 DEF Crash
<1>20. ASSUME Damage PROVE TemporaryOwned'
  BY <1>20 DEF Damage
<1>21. ASSUME UNCHANGED vars PROVE TemporaryOwned'
  BY <1>21 DEF vars
<1> QED BY <1>1, <1>2, <1>3, <1>4, <1>5, <1>6, <1>7, <1>8, <1>9, <1>10, <1>11, <1>12, <1>13,
     <1>14, <1>15, <1>16, <1>17, <1>18, <1>19, <1>20, <1>21 DEF Next, Launcher

LEMMA CaughtStep == TypeOK /\ CaughtFailed /\ [Next]_vars => CaughtFailed'
<1> SUFFICES ASSUME TypeOK, CaughtFailed, [Next]_vars PROVE CaughtFailed'
  OBVIOUS
<1> USE DEF TypeOK, Copy, Installing, Ended, cacheVars, Goto, Decide, CaughtFailed
<1>1. ASSUME NEW p \in Proc, FindInstalled(p) PROVE CaughtFailed'
  BY <1>1 DEF FindInstalled
<1>2. ASSUME NEW p \in Proc, FindNothing(p) PROVE CaughtFailed'
  BY <1>2 DEF FindNothing
<1>3. ASSUME NEW p \in Proc, TakeLock(p) PROVE CaughtFailed'
  BY <1>3 DEF TakeLock
<1>4. ASSUME NEW p \in Proc, LockBusy(p) PROVE CaughtFailed'
  BY <1>4 DEF LockBusy
<1>5. ASSUME NEW p \in Proc, Clone(p) PROVE CaughtFailed'
  BY <1>5 DEF Clone
<1>6. ASSUME NEW p \in Proc, Checkout(p) PROVE CaughtFailed'
  BY <1>6 DEF Checkout
<1>7. ASSUME NEW p \in Proc, Verify(p) PROVE CaughtFailed'
  BY <1>7 DEF Verify
<1>8. ASSUME NEW p \in Proc, Displace(p) PROVE CaughtFailed'
  BY <1>8 DEF Displace
<1>9. ASSUME NEW p \in Proc, Rename(p) PROVE CaughtFailed'
  BY <1>9 DEF Rename
<1>10. ASSUME NEW p \in Proc, Discard(p) PROVE CaughtFailed'
  BY <1>10 DEF Discard
<1>11. ASSUME NEW p \in Proc, Throw(p) PROVE CaughtFailed'
  BY <1>11 DEF Throw
<1>12. ASSUME NEW p \in Proc, Restore(p) PROVE CaughtFailed'
  BY <1>12 DEF Restore
<1>13. ASSUME NEW p \in Proc, RestoreFails(p) PROVE CaughtFailed'
  BY <1>13 DEF RestoreFails
<1>14. ASSUME NEW p \in Proc, CleanTemporary(p) PROVE CaughtFailed'
  BY <1>14 DEF CleanTemporary
<1>15. ASSUME NEW p \in Proc, CleanAside(p) PROVE CaughtFailed'
  BY <1>15 DEF CleanAside
<1>16. ASSUME NEW p \in Proc, Unlock(p) PROVE CaughtFailed'
  BY <1>16 DEF Unlock
<1>17. ASSUME NEW p \in Proc, CleanFails(p) PROVE CaughtFailed'
  BY <1>17 DEF CleanFails
<1>18. ASSUME NEW p \in Proc, Launch(p) PROVE CaughtFailed'
  BY <1>18 DEF Launch
<1>19. ASSUME NEW p \in Proc, Crash(p) PROVE CaughtFailed'
  BY <1>19 DEF Crash
<1>20. ASSUME Damage PROVE CaughtFailed'
  BY <1>20 DEF Damage
<1>21. ASSUME UNCHANGED vars PROVE CaughtFailed'
  BY <1>21 DEF vars
<1> QED BY <1>1, <1>2, <1>3, <1>4, <1>5, <1>6, <1>7, <1>8, <1>9, <1>10, <1>11, <1>12, <1>13,
     <1>14, <1>15, <1>16, <1>17, <1>18, <1>19, <1>20, <1>21 DEF Next, Launcher

LEMMA VerifiedStep == TypeOK /\ Verified /\ [Next]_vars => Verified'
<1> SUFFICES ASSUME TypeOK, Verified, [Next]_vars PROVE Verified'
  OBVIOUS
<1> USE DEF TypeOK, Copy, Installing, Ended, cacheVars, Goto, Decide, Verified, Trusted
<1>1. ASSUME NEW p \in Proc, FindInstalled(p) PROVE Verified'
  BY <1>1 DEF FindInstalled
<1>2. ASSUME NEW p \in Proc, FindNothing(p) PROVE Verified'
  BY <1>2 DEF FindNothing
<1>3. ASSUME NEW p \in Proc, TakeLock(p) PROVE Verified'
  BY <1>3 DEF TakeLock
<1>4. ASSUME NEW p \in Proc, LockBusy(p) PROVE Verified'
  BY <1>4 DEF LockBusy
<1>5. ASSUME NEW p \in Proc, Clone(p) PROVE Verified'
  BY <1>5 DEF Clone
<1>6. ASSUME NEW p \in Proc, Checkout(p) PROVE Verified'
  BY <1>6 DEF Checkout
<1>7. ASSUME NEW p \in Proc, Verify(p) PROVE Verified'
  BY <1>7 DEF Verify
<1>8. ASSUME NEW p \in Proc, Displace(p) PROVE Verified'
  BY <1>8 DEF Displace
<1>9. ASSUME NEW p \in Proc, Rename(p) PROVE Verified'
  BY <1>9 DEF Rename
<1>10. ASSUME NEW p \in Proc, Discard(p) PROVE Verified'
  BY <1>10 DEF Discard
<1>11. ASSUME NEW p \in Proc, Throw(p) PROVE Verified'
  BY <1>11 DEF Throw
<1>12. ASSUME NEW p \in Proc, Restore(p) PROVE Verified'
  BY <1>12 DEF Restore
<1>13. ASSUME NEW p \in Proc, RestoreFails(p) PROVE Verified'
  BY <1>13 DEF RestoreFails
<1>14. ASSUME NEW p \in Proc, CleanTemporary(p) PROVE Verified'
  BY <1>14 DEF CleanTemporary
<1>15. ASSUME NEW p \in Proc, CleanAside(p) PROVE Verified'
  BY <1>15 DEF CleanAside
<1>16. ASSUME NEW p \in Proc, Unlock(p) PROVE Verified'
  BY <1>16 DEF Unlock
<1>17. ASSUME NEW p \in Proc, CleanFails(p) PROVE Verified'
  BY <1>17 DEF CleanFails
<1>18. ASSUME NEW p \in Proc, Launch(p) PROVE Verified'
  BY <1>18 DEF Launch
<1>19. ASSUME NEW p \in Proc, Crash(p) PROVE Verified'
  BY <1>19 DEF Crash
<1>20. ASSUME Damage PROVE Verified'
  BY <1>20 DEF Damage
<1>21. ASSUME UNCHANGED vars PROVE Verified'
  BY <1>21 DEF vars
<1> QED BY <1>1, <1>2, <1>3, <1>4, <1>5, <1>6, <1>7, <1>8, <1>9, <1>10, <1>11, <1>12, <1>13,
     <1>14, <1>15, <1>16, <1>17, <1>18, <1>19, <1>20, <1>21 DEF Next, Launcher

\* Nobody else moves the kernel while its installer holds the lock.
LEMMA StandingStep == IInv /\ [Next]_vars => Standing'
<1> SUFFICES ASSUME TypeOK, LockHeld, CaughtFailed, Verified, Standing, [Next]_vars PROVE Standing'
  BY DEF IInv
<1> USE DEF TypeOK, Copy, Installing, Ended, cacheVars, Goto, Decide, LockHeld, CaughtFailed,
     Verified, Standing, Trusted
<1>1. ASSUME NEW p \in Proc, FindInstalled(p) PROVE Standing'
  BY <1>1 DEF FindInstalled
<1>2. ASSUME NEW p \in Proc, FindNothing(p) PROVE Standing'
  BY <1>2 DEF FindNothing
<1>3. ASSUME NEW p \in Proc, TakeLock(p) PROVE Standing'
  BY <1>3 DEF TakeLock
<1>4. ASSUME NEW p \in Proc, LockBusy(p) PROVE Standing'
  BY <1>4 DEF LockBusy
<1>5. ASSUME NEW p \in Proc, Clone(p) PROVE Standing'
  BY <1>5 DEF Clone
<1>6. ASSUME NEW p \in Proc, Checkout(p) PROVE Standing'
  BY <1>6 DEF Checkout
<1>7. ASSUME NEW p \in Proc, Verify(p) PROVE Standing'
  BY <1>7 DEF Verify
<1>8. ASSUME NEW p \in Proc, Displace(p) PROVE Standing'
  BY <1>8 DEF Displace
<1>9. ASSUME NEW p \in Proc, Rename(p) PROVE Standing'
  BY <1>9 DEF Rename
<1>10. ASSUME NEW p \in Proc, Discard(p) PROVE Standing'
  BY <1>10 DEF Discard
<1>11. ASSUME NEW p \in Proc, Throw(p) PROVE Standing'
  BY <1>11 DEF Throw
<1>12. ASSUME NEW p \in Proc, Restore(p) PROVE Standing'
  BY <1>12 DEF Restore
<1>13. ASSUME NEW p \in Proc, RestoreFails(p) PROVE Standing'
  BY <1>13 DEF RestoreFails
<1>14. ASSUME NEW p \in Proc, CleanTemporary(p) PROVE Standing'
  BY <1>14 DEF CleanTemporary
<1>15. ASSUME NEW p \in Proc, CleanAside(p) PROVE Standing'
  BY <1>15 DEF CleanAside
<1>16. ASSUME NEW p \in Proc, Unlock(p) PROVE Standing'
  BY <1>16 DEF Unlock
<1>17. ASSUME NEW p \in Proc, CleanFails(p) PROVE Standing'
  BY <1>17 DEF CleanFails
<1>18. ASSUME NEW p \in Proc, Launch(p) PROVE Standing'
  BY <1>18 DEF Launch
<1>19. ASSUME NEW p \in Proc, Crash(p) PROVE Standing'
  BY <1>19 DEF Crash
<1>20. ASSUME Damage PROVE Standing'
  BY <1>20 DEF Damage
<1>21. ASSUME UNCHANGED vars PROVE Standing'
  BY <1>21 DEF vars
<1> QED BY <1>1, <1>2, <1>3, <1>4, <1>5, <1>6, <1>7, <1>8, <1>9, <1>10, <1>11, <1>12, <1>13,
     <1>14, <1>15, <1>16, <1>17, <1>18, <1>19, <1>20, <1>21 DEF Next, Launcher

LEMMA LaunchedStep == IInv /\ [Next]_vars => LaunchesCertified'
<1> SUFFICES ASSUME TypeOK, KernelTrusted, LaunchesCertified, [Next]_vars PROVE LaunchesCertified'
  BY DEF IInv
<1> USE DEF TypeOK, Copy, Installing, Ended, cacheVars, Goto, Decide, KernelTrusted,
     LaunchesCertified, Trusted, Launching
<1>1. ASSUME NEW p \in Proc, FindInstalled(p) PROVE LaunchesCertified'
  BY <1>1 DEF FindInstalled
<1>2. ASSUME NEW p \in Proc, FindNothing(p) PROVE LaunchesCertified'
  BY <1>2 DEF FindNothing
<1>3. ASSUME NEW p \in Proc, TakeLock(p) PROVE LaunchesCertified'
  BY <1>3 DEF TakeLock
<1>4. ASSUME NEW p \in Proc, LockBusy(p) PROVE LaunchesCertified'
  BY <1>4 DEF LockBusy
<1>5. ASSUME NEW p \in Proc, Clone(p) PROVE LaunchesCertified'
  BY <1>5 DEF Clone
<1>6. ASSUME NEW p \in Proc, Checkout(p) PROVE LaunchesCertified'
  BY <1>6 DEF Checkout
<1>7. ASSUME NEW p \in Proc, Verify(p) PROVE LaunchesCertified'
  BY <1>7 DEF Verify
<1>8. ASSUME NEW p \in Proc, Displace(p) PROVE LaunchesCertified'
  BY <1>8 DEF Displace
<1>9. ASSUME NEW p \in Proc, Rename(p) PROVE LaunchesCertified'
  BY <1>9 DEF Rename
<1>10. ASSUME NEW p \in Proc, Discard(p) PROVE LaunchesCertified'
  BY <1>10 DEF Discard
<1>11. ASSUME NEW p \in Proc, Throw(p) PROVE LaunchesCertified'
  BY <1>11 DEF Throw
<1>12. ASSUME NEW p \in Proc, Restore(p) PROVE LaunchesCertified'
  BY <1>12 DEF Restore
<1>13. ASSUME NEW p \in Proc, RestoreFails(p) PROVE LaunchesCertified'
  BY <1>13 DEF RestoreFails
<1>14. ASSUME NEW p \in Proc, CleanTemporary(p) PROVE LaunchesCertified'
  BY <1>14 DEF CleanTemporary
<1>15. ASSUME NEW p \in Proc, CleanAside(p) PROVE LaunchesCertified'
  BY <1>15 DEF CleanAside
<1>16. ASSUME NEW p \in Proc, Unlock(p) PROVE LaunchesCertified'
  BY <1>16 DEF Unlock
<1>17. ASSUME NEW p \in Proc, CleanFails(p) PROVE LaunchesCertified'
  BY <1>17 DEF CleanFails
<1>18. ASSUME NEW p \in Proc, Launch(p) PROVE LaunchesCertified'
  BY <1>18 DEF Launch
<1>19. ASSUME NEW p \in Proc, Crash(p) PROVE LaunchesCertified'
  BY <1>19 DEF Crash
<1>20. ASSUME Damage PROVE LaunchesCertified'
  BY <1>20 DEF Damage
<1>21. ASSUME UNCHANGED vars PROVE LaunchesCertified'
  BY <1>21 DEF vars
<1> QED BY <1>1, <1>2, <1>3, <1>4, <1>5, <1>6, <1>7, <1>8, <1>9, <1>10, <1>11, <1>12, <1>13,
     <1>14, <1>15, <1>16, <1>17, <1>18, <1>19, <1>20, <1>21 DEF Next, Launcher

LEMMA LeftStep == IInv /\ [Next]_vars => NothingLeftBehind'
<1> SUFFICES ASSUME TypeOK, LockHeld, AsideOwned, TemporaryOwned, NothingLeftBehind, [Next]_vars
     PROVE NothingLeftBehind'
  BY DEF IInv
<1> USE DEF TypeOK, Copy, Installing, Ended, cacheVars, Goto, Decide, LockHeld, AsideOwned,
     TemporaryOwned, NothingLeftBehind, Before
<1>1. ASSUME NEW p \in Proc, FindInstalled(p) PROVE NothingLeftBehind'
  BY <1>1, ProcAssumption DEF FindInstalled
<1>2. ASSUME NEW p \in Proc, FindNothing(p) PROVE NothingLeftBehind'
  BY <1>2, ProcAssumption DEF FindNothing
<1>3. ASSUME NEW p \in Proc, TakeLock(p) PROVE NothingLeftBehind'
  BY <1>3, ProcAssumption DEF TakeLock
<1>4. ASSUME NEW p \in Proc, LockBusy(p) PROVE NothingLeftBehind'
  BY <1>4, ProcAssumption DEF LockBusy
<1>5. ASSUME NEW p \in Proc, Clone(p) PROVE NothingLeftBehind'
  BY <1>5, ProcAssumption DEF Clone
<1>6. ASSUME NEW p \in Proc, Checkout(p) PROVE NothingLeftBehind'
  BY <1>6, ProcAssumption DEF Checkout
<1>7. ASSUME NEW p \in Proc, Verify(p) PROVE NothingLeftBehind'
  BY <1>7, ProcAssumption DEF Verify
<1>8. ASSUME NEW p \in Proc, Displace(p) PROVE NothingLeftBehind'
  BY <1>8, ProcAssumption DEF Displace
<1>9. ASSUME NEW p \in Proc, Rename(p) PROVE NothingLeftBehind'
  BY <1>9, ProcAssumption DEF Rename
<1>10. ASSUME NEW p \in Proc, Discard(p) PROVE NothingLeftBehind'
  BY <1>10, ProcAssumption DEF Discard
<1>11. ASSUME NEW p \in Proc, Throw(p) PROVE NothingLeftBehind'
  BY <1>11, ProcAssumption DEF Throw
<1>12. ASSUME NEW p \in Proc, Restore(p) PROVE NothingLeftBehind'
  BY <1>12, ProcAssumption DEF Restore
<1>13. ASSUME NEW p \in Proc, RestoreFails(p) PROVE NothingLeftBehind'
  BY <1>13, ProcAssumption DEF RestoreFails
<1>14. ASSUME NEW p \in Proc, CleanTemporary(p) PROVE NothingLeftBehind'
  BY <1>14, ProcAssumption DEF CleanTemporary
<1>15. ASSUME NEW p \in Proc, CleanAside(p) PROVE NothingLeftBehind'
  BY <1>15, ProcAssumption DEF CleanAside
<1>16. ASSUME NEW p \in Proc, Unlock(p) PROVE NothingLeftBehind'
  BY <1>16, ProcAssumption DEF Unlock
<1>17. ASSUME NEW p \in Proc, CleanFails(p) PROVE NothingLeftBehind'
  BY <1>17, ProcAssumption DEF CleanFails
<1>18. ASSUME NEW p \in Proc, Launch(p) PROVE NothingLeftBehind'
  BY <1>18, ProcAssumption DEF Launch
<1>19. ASSUME NEW p \in Proc, Crash(p) PROVE NothingLeftBehind'
  BY <1>19, ProcAssumption DEF Crash
<1>20. ASSUME Damage PROVE NothingLeftBehind'
  BY <1>20, ProcAssumption DEF Damage
<1>21. ASSUME UNCHANGED vars PROVE NothingLeftBehind'
  BY <1>21, ProcAssumption DEF vars
<1> QED BY <1>1, <1>2, <1>3, <1>4, <1>5, <1>6, <1>7, <1>8, <1>9, <1>10, <1>11, <1>12, <1>13,
     <1>14, <1>15, <1>16, <1>17, <1>18, <1>19, <1>20, <1>21 DEF Next, Launcher

\* Whatever is put in the kernel's place while somebody is about to launch was verified.
LEMMA TrustedStep == IInv /\ [Next]_vars => KernelTrusted'
<1> SUFFICES ASSUME IInv, [Next]_vars PROVE KernelTrusted'
  OBVIOUS
<1> USE ProcAssumption DEF TypeOK, Copy, Installing, Ended, cacheVars, Goto, Decide, LockHeld,
     AsideOwned, Verified, Standing, KernelTrusted, KernelKept, AbsentOnlyUnderLock, IInv, Trusted, Before
<1>1. ASSUME NEW p \in Proc, FindInstalled(p) PROVE KernelTrusted'
  BY <1>1 DEF FindInstalled, Launching
<1>2. ASSUME NEW p \in Proc, FindNothing(p) PROVE KernelTrusted'
  <2>1. Launching' => Launching
    BY <1>2 DEF FindNothing, Launching
  <2> QED BY <1>2, <2>1 DEF FindNothing
<1>3. ASSUME NEW p \in Proc, TakeLock(p) PROVE KernelTrusted'
  <2>1. Launching' => Launching
    BY <1>3 DEF TakeLock, Launching
  <2> QED BY <1>3, <2>1 DEF TakeLock
<1>4. ASSUME NEW p \in Proc, LockBusy(p) PROVE KernelTrusted'
  <2>1. Launching' => Launching
    BY <1>4 DEF LockBusy, Launching
  <2> QED BY <1>4, <2>1 DEF LockBusy
<1>5. ASSUME NEW p \in Proc, Clone(p) PROVE KernelTrusted'
  <2>1. Launching' => Launching
    BY <1>5 DEF Clone, Launching
  <2> QED BY <1>5, <2>1 DEF Clone
<1>6. ASSUME NEW p \in Proc, Checkout(p) PROVE KernelTrusted'
  <2>1. Launching' => Launching
    BY <1>6 DEF Checkout, Launching
  <2> QED BY <1>6, <2>1 DEF Checkout
<1>7. ASSUME NEW p \in Proc, Verify(p) PROVE KernelTrusted'
  <2>1. Launching' => Launching
    BY <1>7 DEF Verify, Launching
  <2> QED BY <1>7, <2>1 DEF Verify
<1>8. ASSUME NEW p \in Proc, Displace(p) PROVE KernelTrusted'
  <2>1. Launching' => Launching
    BY <1>8 DEF Displace, Launching
  <2> QED BY <1>8, <2>1 DEF Displace
<1>9. ASSUME NEW p \in Proc, Rename(p) PROVE KernelTrusted'
  <2>1. Launching' => Launching
    BY <1>9 DEF Rename, Launching
  <2> QED BY <1>9, <2>1 DEF Rename
<1>10. ASSUME NEW p \in Proc, Discard(p) PROVE KernelTrusted'
  <2>1. Launching' => Launching
    BY <1>10 DEF Discard, Launching
  <2> QED BY <1>10, <2>1 DEF Discard
<1>11. ASSUME NEW p \in Proc, Throw(p) PROVE KernelTrusted'
  <2>1. Launching' => Launching
    BY <1>11 DEF Throw, Launching
  <2> QED BY <1>11, <2>1 DEF Throw
<1>12. ASSUME NEW p \in Proc, Restore(p) PROVE KernelTrusted'
  <2>1. Launching' => Launching
    BY <1>12 DEF Restore, Launching
  <2> QED BY <1>12, <2>1 DEF Restore, Restorable
<1>13. ASSUME NEW p \in Proc, RestoreFails(p) PROVE KernelTrusted'
  <2>1. Launching' => Launching
    BY <1>13 DEF RestoreFails, Launching
  <2> QED BY <1>13, <2>1 DEF RestoreFails, Restorable
<1>14. ASSUME NEW p \in Proc, CleanTemporary(p) PROVE KernelTrusted'
  <2>1. Launching' => Launching
    BY <1>14 DEF CleanTemporary, Launching
  <2> QED BY <1>14, <2>1 DEF CleanTemporary
<1>15. ASSUME NEW p \in Proc, CleanAside(p) PROVE KernelTrusted'
  <2>1. Launching' => Launching
    BY <1>15 DEF CleanAside, Launching
  <2> QED BY <1>15, <2>1 DEF CleanAside
<1>16. ASSUME NEW p \in Proc, Unlock(p) PROVE KernelTrusted'
  BY <1>16 DEF Unlock, Launching
<1>17. ASSUME NEW p \in Proc, CleanFails(p) PROVE KernelTrusted'
  <2>1. Launching' => Launching
    BY <1>17 DEF CleanFails, Launching
  <2> QED BY <1>17, <2>1 DEF CleanFails
<1>18. ASSUME NEW p \in Proc, Launch(p) PROVE KernelTrusted'
  <2>1. Launching' => Launching
    BY <1>18 DEF Launch, Launching
  <2> QED BY <1>18, <2>1 DEF Launch
<1>19. ASSUME NEW p \in Proc, Crash(p) PROVE KernelTrusted'
  <2>1. Launching' => Launching
    BY <1>19 DEF Crash, Launching
  <2> QED BY <1>19, <2>1 DEF Crash
<1>20. ASSUME Damage PROVE KernelTrusted'
  BY <1>20 DEF Damage, Launching
<1>21. ASSUME UNCHANGED vars PROVE KernelTrusted'
  BY <1>21 DEF vars, Launching
<1> QED BY <1>1, <1>2, <1>3, <1>4, <1>5, <1>6, <1>7, <1>8, <1>9, <1>10, <1>11, <1>12, <1>13,
     <1>14, <1>15, <1>16, <1>17, <1>18, <1>19, <1>20, <1>21 DEF Next, Launcher

\* While somebody is about to launch, a kernel is taken away only to be replaced.
LEMMA KeptStep == IInv /\ [Next]_vars => KernelKept'
<1> SUFFICES ASSUME IInv, [Next]_vars PROVE KernelKept'
  OBVIOUS
<1> USE ProcAssumption DEF TypeOK, Copy, Installing, Ended, cacheVars, Goto, Decide, LockHeld,
     AsideOwned, Verified, Standing, KernelTrusted, KernelKept, AbsentOnlyUnderLock, IInv, Trusted, Before
<1>1. ASSUME NEW p \in Proc, FindInstalled(p) PROVE KernelKept'
  BY <1>1 DEF FindInstalled, Launching
<1>2. ASSUME NEW p \in Proc, FindNothing(p) PROVE KernelKept'
  <2>1. Launching' => Launching
    BY <1>2 DEF FindNothing, Launching
  <2> QED BY <1>2, <2>1 DEF FindNothing
<1>3. ASSUME NEW p \in Proc, TakeLock(p) PROVE KernelKept'
  <2>1. Launching' => Launching
    BY <1>3 DEF TakeLock, Launching
  <2>2. ~(Launching /\ kernel = None /\ ~lost)
    BY <1>3 DEF TakeLock, Launching
  <2>3. kernel' = kernel /\ lost' = lost
    BY <1>3 DEF TakeLock
  <2> QED BY <2>1, <2>2, <2>3
<1>4. ASSUME NEW p \in Proc, LockBusy(p) PROVE KernelKept'
  <2>1. Launching' => Launching
    BY <1>4 DEF LockBusy, Launching
  <2> QED BY <1>4, <2>1 DEF LockBusy
<1>5. ASSUME NEW p \in Proc, Clone(p) PROVE KernelKept'
  <2>1. Launching' => Launching
    BY <1>5 DEF Clone, Launching
  <2> QED BY <1>5, <2>1 DEF Clone
<1>6. ASSUME NEW p \in Proc, Checkout(p) PROVE KernelKept'
  <2>1. Launching' => Launching
    BY <1>6 DEF Checkout, Launching
  <2> QED BY <1>6, <2>1 DEF Checkout
<1>7. ASSUME NEW p \in Proc, Verify(p) PROVE KernelKept'
  <2>1. Launching' => Launching
    BY <1>7 DEF Verify, Launching
  <2> QED BY <1>7, <2>1 DEF Verify
<1>8. ASSUME NEW p \in Proc, Displace(p) PROVE KernelKept'
  <2>1. Launching' => Launching
    BY <1>8 DEF Displace, Launching
  <2> QED BY <1>8, <2>1 DEF Displace
<1>9. ASSUME NEW p \in Proc, Rename(p) PROVE KernelKept'
  <2>1. Launching' => Launching
    BY <1>9 DEF Rename, Launching
  <2> QED BY <1>9, <2>1 DEF Rename
<1>10. ASSUME NEW p \in Proc, Discard(p) PROVE KernelKept'
  <2>1. Launching' => Launching
    BY <1>10 DEF Discard, Launching
  <2> QED BY <1>10, <2>1 DEF Discard
<1>11. ASSUME NEW p \in Proc, Throw(p) PROVE KernelKept'
  <2>1. Launching' => Launching
    BY <1>11 DEF Throw, Launching
  <2> QED BY <1>11, <2>1 DEF Throw
<1>12. ASSUME NEW p \in Proc, Restore(p) PROVE KernelKept'
  <2>1. Launching' => Launching
    BY <1>12 DEF Restore, Launching
  <2> QED BY <1>12, <2>1 DEF Restore, Restorable
<1>13. ASSUME NEW p \in Proc, RestoreFails(p) PROVE KernelKept'
  <2>1. Launching' => Launching
    BY <1>13 DEF RestoreFails, Launching
  <2> QED BY <1>13, <2>1 DEF RestoreFails, Restorable
<1>14. ASSUME NEW p \in Proc, CleanTemporary(p) PROVE KernelKept'
  <2>1. Launching' => Launching
    BY <1>14 DEF CleanTemporary, Launching
  <2> QED BY <1>14, <2>1 DEF CleanTemporary
<1>15. ASSUME NEW p \in Proc, CleanAside(p) PROVE KernelKept'
  <2>1. Launching' => Launching
    BY <1>15 DEF CleanAside, Launching
  <2> QED BY <1>15, <2>1 DEF CleanAside
<1>16. ASSUME NEW p \in Proc, Unlock(p) PROVE KernelKept'
  BY <1>16 DEF Unlock, Launching
<1>17. ASSUME NEW p \in Proc, CleanFails(p) PROVE KernelKept'
  <2>1. Launching' => Launching
    BY <1>17 DEF CleanFails, Launching
  <2> QED BY <1>17, <2>1 DEF CleanFails
<1>18. ASSUME NEW p \in Proc, Launch(p) PROVE KernelKept'
  <2>1. Launching' => Launching
    BY <1>18 DEF Launch, Launching
  <2> QED BY <1>18, <2>1 DEF Launch
<1>19. ASSUME NEW p \in Proc, Crash(p) PROVE KernelKept'
  <2>1. Launching' => Launching
    BY <1>19 DEF Crash, Launching
  <2> QED BY <1>19, <2>1 DEF Crash
<1>20. ASSUME Damage PROVE KernelKept'
  BY <1>20 DEF Damage, Launching
<1>21. ASSUME UNCHANGED vars PROVE KernelKept'
  BY <1>21 DEF vars, Launching
<1> QED BY <1>1, <1>2, <1>3, <1>4, <1>5, <1>6, <1>7, <1>8, <1>9, <1>10, <1>11, <1>12, <1>13,
     <1>14, <1>15, <1>16, <1>17, <1>18, <1>19, <1>20, <1>21 DEF Next, Launcher

LEMMA AbsentStep == IInv /\ [Next]_vars => AbsentOnlyUnderLock'
<1> SUFFICES ASSUME IInv, [Next]_vars PROVE AbsentOnlyUnderLock'
  OBVIOUS
<1> USE ProcAssumption DEF TypeOK, Copy, Installing, Ended, cacheVars, Goto, Decide, LockHeld,
     AsideOwned, Verified, Standing, KernelTrusted, KernelKept, AbsentOnlyUnderLock, IInv, Trusted, Before
<1>1. ASSUME NEW p \in Proc, FindInstalled(p) PROVE AbsentOnlyUnderLock'
  BY <1>1 DEF FindInstalled, Launching
<1>2. ASSUME NEW p \in Proc, FindNothing(p) PROVE AbsentOnlyUnderLock'
  <2>1. Launching' => Launching
    BY <1>2 DEF FindNothing, Launching
  <2> QED BY <1>2, <2>1 DEF FindNothing
<1>3. ASSUME NEW p \in Proc, TakeLock(p) PROVE AbsentOnlyUnderLock'
  <2>1. Launching' => Launching
    BY <1>3 DEF TakeLock, Launching
  <2> QED BY <1>3, <2>1 DEF TakeLock
<1>4. ASSUME NEW p \in Proc, LockBusy(p) PROVE AbsentOnlyUnderLock'
  <2>1. Launching' => Launching
    BY <1>4 DEF LockBusy, Launching
  <2> QED BY <1>4, <2>1 DEF LockBusy
<1>5. ASSUME NEW p \in Proc, Clone(p) PROVE AbsentOnlyUnderLock'
  <2>1. Launching' => Launching
    BY <1>5 DEF Clone, Launching
  <2> QED BY <1>5, <2>1 DEF Clone
<1>6. ASSUME NEW p \in Proc, Checkout(p) PROVE AbsentOnlyUnderLock'
  <2>1. Launching' => Launching
    BY <1>6 DEF Checkout, Launching
  <2> QED BY <1>6, <2>1 DEF Checkout
<1>7. ASSUME NEW p \in Proc, Verify(p) PROVE AbsentOnlyUnderLock'
  <2>1. Launching' => Launching
    BY <1>7 DEF Verify, Launching
  <2> QED BY <1>7, <2>1 DEF Verify
<1>8. ASSUME NEW p \in Proc, Displace(p) PROVE AbsentOnlyUnderLock'
  <2>1. Launching' => Launching
    BY <1>8 DEF Displace, Launching
  <2> QED BY <1>8, <2>1 DEF Displace
<1>9. ASSUME NEW p \in Proc, Rename(p) PROVE AbsentOnlyUnderLock'
  <2>1. Launching' => Launching
    BY <1>9 DEF Rename, Launching
  <2> QED BY <1>9, <2>1 DEF Rename
<1>10. ASSUME NEW p \in Proc, Discard(p) PROVE AbsentOnlyUnderLock'
  <2>1. Launching' => Launching
    BY <1>10 DEF Discard, Launching
  <2> QED BY <1>10, <2>1 DEF Discard
<1>11. ASSUME NEW p \in Proc, Throw(p) PROVE AbsentOnlyUnderLock'
  <2>1. Launching' => Launching
    BY <1>11 DEF Throw, Launching
  <2> QED BY <1>11, <2>1 DEF Throw
<1>12. ASSUME NEW p \in Proc, Restore(p) PROVE AbsentOnlyUnderLock'
  <2>1. Launching' => Launching
    BY <1>12 DEF Restore, Launching
  <2> QED BY <1>12, <2>1 DEF Restore, Restorable
<1>13. ASSUME NEW p \in Proc, RestoreFails(p) PROVE AbsentOnlyUnderLock'
  <2>1. Launching' => Launching
    BY <1>13 DEF RestoreFails, Launching
  <2> QED BY <1>13, <2>1 DEF RestoreFails, Restorable
<1>14. ASSUME NEW p \in Proc, CleanTemporary(p) PROVE AbsentOnlyUnderLock'
  <2>1. Launching' => Launching
    BY <1>14 DEF CleanTemporary, Launching
  <2> QED BY <1>14, <2>1 DEF CleanTemporary
<1>15. ASSUME NEW p \in Proc, CleanAside(p) PROVE AbsentOnlyUnderLock'
  <2>1. Launching' => Launching
    BY <1>15 DEF CleanAside, Launching
  <2> QED BY <1>15, <2>1 DEF CleanAside
<1>16. ASSUME NEW p \in Proc, Unlock(p) PROVE AbsentOnlyUnderLock'
  BY <1>16 DEF Unlock, Launching
<1>17. ASSUME NEW p \in Proc, CleanFails(p) PROVE AbsentOnlyUnderLock'
  <2>1. Launching' => Launching
    BY <1>17 DEF CleanFails, Launching
  <2> QED BY <1>17, <2>1 DEF CleanFails
<1>18. ASSUME NEW p \in Proc, Launch(p) PROVE AbsentOnlyUnderLock'
  <2>1. Launching' => Launching
    BY <1>18 DEF Launch, Launching
  <2> QED BY <1>18, <2>1 DEF Launch
<1>19. ASSUME NEW p \in Proc, Crash(p) PROVE AbsentOnlyUnderLock'
  <2>1. Launching' => Launching
    BY <1>19 DEF Crash, Launching
  <2> QED BY <1>19, <2>1 DEF Crash
<1>20. ASSUME Damage PROVE AbsentOnlyUnderLock'
  BY <1>20 DEF Damage, Launching
<1>21. ASSUME UNCHANGED vars PROVE AbsentOnlyUnderLock'
  BY <1>21 DEF vars, Launching
<1> QED BY <1>1, <1>2, <1>3, <1>4, <1>5, <1>6, <1>7, <1>8, <1>9, <1>10, <1>11, <1>12, <1>13,
     <1>14, <1>15, <1>16, <1>17, <1>18, <1>19, <1>20, <1>21 DEF Next, Launcher

-----------------------------------------------------------------------------
LEMMA Inductive == Spec => []IInv
<1>1. IInv /\ [Next]_vars => IInv'
  <2> SUFFICES ASSUME IInv, [Next]_vars PROVE IInv'
    OBVIOUS
  <2>1. TypeOK' /\ LockHeld' /\ AsideOwned' /\ TemporaryOwned' /\ CaughtFailed' /\ Verified'
    BY TypeStep, LockStep, AsideStep, TemporaryStep, CaughtStep, VerifiedStep DEF IInv
  <2>2. Standing' /\ KernelTrusted' /\ KernelKept'
    BY StandingStep, TrustedStep, KeptStep
  <2>3. LaunchesCertified' /\ AbsentOnlyUnderLock' /\ NothingLeftBehind'
    BY LaunchedStep, AbsentStep, LeftStep
  <2> QED BY <2>1, <2>2, <2>3 DEF IInv
<1> QED BY InitInv, <1>1, PTL DEF Spec

\* Every reachable state of the installation is well typed.
THEOREM TypeCorrectness == Spec => []TypeOK
<1>1. IInv => TypeOK
  BY DEF IInv
<1> QED BY <1>1, Inductive, PTL

\* Of any number of launchers one at a time moves the kernel.
THEOREM OneInstallerAlways == Spec => []OneInstaller
<1>1. IInv => OneInstaller
  BY DEF IInv, LockHeld, OneInstaller
<1> QED BY <1>1, Inductive, PTL

\* Only a verified copy is ever launched (unless it was damaged afterwards).
THEOREM LaunchesCertifiedAlways == Spec => []LaunchesCertified
<1>1. IInv => LaunchesCertified
  BY DEF IInv
<1> QED BY <1>1, Inductive, PTL

\* A process that was told that the kernel is installed misses it only behind
\* a lock, unless a displaced copy could not be moved back.
THEOREM AbsentOnlyUnderLockAlways == Spec => []AbsentOnlyUnderLock
<1>1. IInv => AbsentOnlyUnderLock
  BY DEF IInv
<1> QED BY <1>1, Inductive, PTL

\* A process that ends by itself leaves nothing behind that it could remove.
THEOREM NothingLeftBehindAlways == Spec => []NothingLeftBehind
<1>1. IInv => NothingLeftBehind
  BY DEF IInv
<1> QED BY <1>1, Inductive, PTL
-----------------------------------------------------------------------------
(***************************************************************************)
(* The installation as turns.                                              *)
(***************************************************************************)
\* A launcher about to rename its clone has an empty place before it, and a
\* displaced copy is still kept where another is in place or the move back failed.
PlaceHeld == \A p \in Proc :
  /\ pc[p] = "rename" => kernel = None
  /\ pc[p] = "discard" => kernel # None
  /\ pc[p] \in {"cleanTemporary", "cleanAside"} /\ aside[p] # None => kernel # None \/ lost

\* What one launcher's step means for the abstract installation; the others are
\* outside, so that it disturbs none of them.
LEMMA PlaceStep == IInv /\ PlaceHeld /\ [Next]_vars => PlaceHeld'
<1> SUFFICES ASSUME TypeOK, LockHeld, AsideOwned, Standing, OneInstaller, PlaceHeld, [Next]_vars
             PROVE  PlaceHeld'
  BY ProcAssumption DEF IInv, LockHeld, OneInstaller
<1> USE DEF TypeOK, Installing, Ended, cacheVars, Goto, Decide, PlaceHeld, OneInstaller
<1>1. ASSUME NEW p \in Proc, FindInstalled(p) \/ FindNothing(p) \/ TakeLock(p) \/ LockBusy(p) PROVE PlaceHeld'
  BY <1>1 DEF FindInstalled, FindNothing, TakeLock, LockBusy
<1>2. ASSUME NEW p \in Proc, Clone(p) \/ Checkout(p) \/ Verify(p) PROVE PlaceHeld'
  BY <1>2 DEF Clone, Checkout, Verify
<1>3. ASSUME NEW p \in Proc, Displace(p) PROVE PlaceHeld'
  BY <1>3 DEF Displace
<1>4. ASSUME NEW p \in Proc, Rename(p) PROVE PlaceHeld'
  BY <1>4, ProcAssumption DEF Rename
<1>5. ASSUME NEW p \in Proc, Discard(p) PROVE PlaceHeld'
  BY <1>5 DEF Discard
<1>6. ASSUME NEW p \in Proc, Throw(p) PROVE PlaceHeld'
  BY <1>6 DEF Throw
<1>7. ASSUME NEW p \in Proc, Restore(p) PROVE PlaceHeld'
  BY <1>7 DEF Restore, Restorable, AsideOwned
<1>8. ASSUME NEW p \in Proc, RestoreFails(p) PROVE PlaceHeld'
  BY <1>8 DEF RestoreFails
<1>9. ASSUME NEW p \in Proc, CleanTemporary(p) \/ CleanAside(p) PROVE PlaceHeld'
  BY <1>9 DEF CleanTemporary, CleanAside
<1>10. ASSUME NEW p \in Proc, Unlock(p) \/ CleanFails(p) \/ Launch(p) \/ Crash(p) PROVE PlaceHeld'
  BY <1>10 DEF Unlock, CleanFails, Launch, Crash
<1>11. ASSUME Damage \/ UNCHANGED vars PROVE PlaceHeld'
  BY <1>11 DEF Damage, vars
<1> QED
  BY <1>1, <1>2, <1>3, <1>4, <1>5, <1>6, <1>7, <1>8, <1>9, <1>10, <1>11 DEF Next, Launcher

\* Each step is one of the holder's or a stutter.
LEMMA StepSerialized ==
  IInv /\ PlaceHeld /\ [Next]_vars => [Serialized!Next]_(Serialized!ivars)
<1> SUFFICES ASSUME TypeOK, LockHeld, AsideOwned, PlaceHeld, [Next]_vars
             PROVE  [Serialized!Next]_(Serialized!ivars)
  BY DEF IInv
<1> USE DEF TypeOK, Installing, Ended, cacheVars, Goto, Decide
<1> DEFINE Taken == IF lock = None THEN None ELSE aside[lock]
<1>1. ASSUME UNCHANGED <<lock, kernel, aside, lost>> PROVE UNCHANGED Serialized!ivars
  BY <1>1 DEF Serialized!ivars
<1>2. ASSUME NEW p \in Proc, TakeLock(p) PROVE Serialized!Enter(p)
  BY <1>2, ProcAssumption DEF TakeLock, AsideOwned, Before, Serialized!Enter
<1>3. ASSUME NEW p \in Proc, Displace(p) PROVE Serialized!TakeAway(p) \/ UNCHANGED Serialized!ivars
  <2>1. lock = p /\ aside[p] = None /\ p # None
    BY <1>3, ProcAssumption DEF Displace, LockHeld, AsideOwned, Before
  <2> QED
    BY <1>1, <1>3, <2>1 DEF Displace, Serialized!TakeAway
<1>4. ASSUME NEW p \in Proc, Rename(p) PROVE Serialized!PutOwn(p)
  <2>1. lock = p /\ kernel = None /\ p # None
    BY <1>4, ProcAssumption DEF Rename, LockHeld, PlaceHeld
  <2> QED
    BY <1>4, <2>1 DEF Rename, Serialized!PutOwn
<1>5. ASSUME NEW p \in Proc, Discard(p) PROVE Serialized!ThrowAway(p)
  <2>1. lock = p /\ kernel # None /\ p # None
    BY <1>5, ProcAssumption DEF Discard, LockHeld, PlaceHeld
  <2> QED
    BY <1>5, <2>1 DEF Discard, Serialized!ThrowAway
<1>6. ASSUME NEW p \in Proc, Restore(p) PROVE Serialized!PutBack(p) \/ UNCHANGED Serialized!ivars
  <2>1. lock = p /\ p # None
    BY <1>6, ProcAssumption DEF Restore, LockHeld
  <2> QED
    BY <1>1, <1>6, <2>1 DEF Restore, Restorable, Serialized!PutBack
<1>7. ASSUME NEW p \in Proc, RestoreFails(p) PROVE Serialized!PutBackFails(p)
  <2>1. lock = p /\ p # None
    BY <1>7, ProcAssumption DEF RestoreFails, LockHeld
  <2> QED
    BY <1>7, <2>1 DEF RestoreFails, Restorable, Serialized!PutBackFails
<1>8. ASSUME NEW p \in Proc, CleanAside(p) PROVE Serialized!ThrowAway(p) \/ UNCHANGED Serialized!ivars
  <2>1. lock = p /\ p # None
    BY <1>8, ProcAssumption DEF CleanAside, LockHeld
  <2>2. CASE aside[p] = None
    <3>1. aside' = aside
      BY <1>8, <2>2 DEF CleanAside
    <3> QED
      BY <1>1, <1>8, <3>1 DEF CleanAside
  <2>3. CASE aside[p] # None
    <3>1. kernel # None \/ lost
      BY <1>8, <2>3 DEF CleanAside, PlaceHeld
    <3> QED
      BY <1>8, <2>1, <2>3, <3>1 DEF CleanAside, AsideOwned, Serialized!ThrowAway
  <2> QED
    BY <2>2, <2>3
<1>9. ASSUME NEW p \in Proc, Unlock(p) PROVE Serialized!Leave(p)
  <2>1. lock = p /\ aside[p] = None /\ p # None
    BY <1>9, ProcAssumption DEF Unlock, LockHeld, AsideOwned, Before
  <2> QED
    BY <1>9, <2>1 DEF Unlock, Serialized!Leave
<1>10. ASSUME NEW p \in Proc,
              \/ FindInstalled(p) \/ FindNothing(p) \/ LockBusy(p) \/ Clone(p) \/ Checkout(p) \/ Verify(p)
              \/ Throw(p) \/ CleanTemporary(p) \/ CleanFails(p) \/ Launch(p) \/ Crash(p)
       PROVE  UNCHANGED Serialized!ivars
  BY <1>1, <1>10 DEF FindInstalled, FindNothing, LockBusy, Clone, Checkout, Verify, Throw, CleanTemporary,
     CleanFails, Launch, Crash
<1>11. ASSUME Damage \/ UNCHANGED vars PROVE UNCHANGED Serialized!ivars
  BY <1>1, <1>11 DEF Damage, vars
<1> QED
  BY <1>2, <1>3, <1>4, <1>5, <1>6, <1>7, <1>8, <1>9, <1>10, <1>11 DEF Next, Launcher, Serialized!Next

\* Any number of launchers, killed at any moment, implement the abstract
\* installation (experimental-kernel.mjs: ensureKernelInstalled).
THEOREM InstallRefinement == Spec => ImplementsSerialized
<1>1. Init => Serialized!Init /\ PlaceHeld
  BY DEF Init, PlaceHeld, Serialized!Init
<1>2. IInv /\ PlaceHeld /\ [Next]_vars => PlaceHeld' /\ [Serialized!Next]_(Serialized!ivars)
  BY PlaceStep, StepSerialized
<1> QED
  BY <1>1, <1>2, Inductive, PTL DEF Spec, ImplementsSerialized, Serialized!Spec

-----------------------------------------------------------------------------
(***************************************************************************)
(* The state half of termination.                                          *)
(***************************************************************************)
\* The steps that a launcher at l has at most before it.
Rank(l) ==
  CASE l = "find" -> 13 [] l = "lock" -> 12 [] l = "clone" -> 11 [] l = "checkout" -> 10
    [] l = "verify" -> 9 [] l = "displace" -> 8 [] l = "rename" -> 7 [] l = "discard" -> 6
    [] l = "catch" -> 5 [] l = "cleanTemporary" -> 4 [] l = "cleanAside" -> 3
    [] l = "unlock" -> 2 [] l = "launch" -> 1 [] OTHER -> 0

\* A launcher never waits and never goes back: each of its steps brings it nearer
\* to its end, and no step of another one takes it away from there
\* (experimental-kernel.mjs: ensureKernelInstalled has no loop).
LaunchersAdvance ==
  [][\A p \in Proc : /\ Launcher(p) => Rank(pc'[p]) < Rank(pc[p])
                     /\ Rank(pc'[p]) <= Rank(pc[p])]_vars

\* No launcher retries, waits or loops, whatever the others do.
THEOREM LaunchersAdvanceAlways == Spec => LaunchersAdvance
<1>1. TypeOK /\ [Next]_vars =>
        [\A p \in Proc : /\ Launcher(p) => Rank(pc'[p]) < Rank(pc[p])
                         /\ Rank(pc'[p]) <= Rank(pc[p])]_vars
  <2> SUFFICES ASSUME TypeOK, Next, NEW p \in Proc
               PROVE  /\ Launcher(p) => Rank(pc'[p]) < Rank(pc[p])
                      /\ Rank(pc'[p]) <= Rank(pc[p])
    OBVIOUS
  <2> USE DEF TypeOK, Installing, Ended, Goto
  <2>1. ASSUME NEW q \in Proc, Launcher(q)
        PROVE  /\ \E l : Goto(q, l) /\ Rank(l) < Rank(pc[q])
    <3>1. CASE FindInstalled(q) \/ FindNothing(q) \/ TakeLock(q) \/ LockBusy(q)
      BY <3>1 DEF FindInstalled, FindNothing, TakeLock, LockBusy, Rank
    <3>2. CASE Clone(q) \/ Checkout(q) \/ Verify(q) \/ Displace(q) \/ Rename(q) \/ Discard(q)
      BY <3>2 DEF Clone, Checkout, Verify, Displace, Rename, Discard, Rank
    <3>3. CASE Throw(q) \/ Restore(q) \/ RestoreFails(q)
      BY <3>3 DEF Throw, Restore, RestoreFails, Rank
    <3>4. CASE CleanTemporary(q) \/ CleanAside(q) \/ Unlock(q) \/ CleanFails(q) \/ Launch(q)
      BY <3>4 DEF CleanTemporary, CleanAside, Unlock, CleanFails, Launch, Rank
    <3> QED
      BY <2>1, <3>1, <3>2, <3>3, <3>4 DEF Launcher
  <2>2. \A l : Rank(l) \in Nat
    BY DEF Rank
  <2> QED
    BY <2>1, <2>2 DEF Next, Crash, Damage, Rank
<1> QED
  BY <1>1, TypeCorrectness, PTL DEF Spec, LaunchersAdvance
=============================================================================
