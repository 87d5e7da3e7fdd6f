------------------------- MODULE SerializedPublication -------------------------
(***************************************************************************)
(* What publication into one output directory promises: publishers take    *)
(* turns, a bundle appears only in an empty slot (an earlier receipt is    *)
(* never reused and never replaced under a reader), and it is withdrawn    *)
(* only by the publisher whose turn it is.                                 *)
(***************************************************************************)
CONSTANTS Proc, None

VARIABLES
  holder,     \* the publisher whose turn it is
  published   \* the run whose bundle readers are directed to

svars == <<holder, published>>

Init == holder = None /\ published = None

Enter(p) ==
  /\ holder = None
  /\ holder' = p
  /\ UNCHANGED published

Withdraw(p) ==
  /\ holder = p
  /\ published' = None
  /\ UNCHANGED holder

Publish(p) ==
  /\ holder = p
  /\ published = None
  /\ published' = p
  /\ UNCHANGED holder

\* The holder leaves, or it died and another publisher removes its claim.
Leave(p) ==
  /\ holder = p
  /\ holder' = None
  /\ UNCHANGED published

Next == \E p \in Proc : Enter(p) \/ Withdraw(p) \/ Publish(p) \/ Leave(p)

Spec == Init /\ [][Next]_svars
=============================================================================
