--------------------------- MODULE SerializedInstall ---------------------------
(***************************************************************************)
(* What an installation into one place promises: installers take turns,    *)
(* and only the one whose turn it is touches what stands in the place.  A  *)
(* copy is never overwritten: it is taken away first, and it is thrown     *)
(* away only when another one is in place, unless moving it back failed.   *)
(***************************************************************************)
CONSTANTS Proc, None

VARIABLES
  holder,   \* the installer whose turn it is
  place,    \* the copy in the place
  taken,    \* the copy that the holder has taken away
  lost      \* a copy could not be moved back

ivars == <<holder, place, taken, lost>>

Init == holder = None /\ place \in {None, "seed"} /\ taken = None /\ lost = FALSE

Enter(p) ==
  /\ holder = None
  /\ holder' = p
  /\ UNCHANGED <<place, taken, lost>>

TakeAway(p) ==
  /\ holder = p /\ place # None /\ taken = None
  /\ taken' = place /\ place' = None
  /\ UNCHANGED <<holder, lost>>

PutOwn(p) ==
  /\ holder = p /\ place = None
  /\ place' = p
  /\ UNCHANGED <<holder, taken, lost>>

PutBack(p) ==
  /\ holder = p /\ place = None /\ taken # None
  /\ place' = taken /\ taken' = None
  /\ UNCHANGED <<holder, lost>>

PutBackFails(p) ==
  /\ holder = p /\ place = None /\ taken # None
  /\ lost' = TRUE
  /\ UNCHANGED <<holder, place, taken>>

ThrowAway(p) ==
  /\ holder = p /\ (place # None \/ lost)
  /\ taken' = None
  /\ UNCHANGED <<holder, place, lost>>

Leave(p) ==
  /\ holder = p /\ taken = None
  /\ holder' = None
  /\ UNCHANGED <<place, taken, lost>>

Next == \E p \in Proc :
  Enter(p) \/ TakeAway(p) \/ PutOwn(p) \/ PutBack(p) \/ PutBackFails(p) \/ ThrowAway(p) \/ Leave(p)

Spec == Init /\ [][Next]_ivars
=============================================================================
