----------------------------- MODULE MCPublication -----------------------------
(***************************************************************************)
(* Publication for TLC: processes are model values and interchangeable     *)
(* as long as they are alike in Crashable.                                 *)
(***************************************************************************)
EXTENDS Publication, TLC

Symmetry == Permutations(Crashable) \cup Permutations(Proc \ Crashable)

\* The properties of the three-process run that a misreclaim could break are
\* conditional on ~misreclaim, which never becomes false again: states behind
\* a misreclaim are not explored there (the two-process run explores them).
BeforeMisreclaim == ~misreclaim

\* With three processes no deadline passes and no pid is recycled: the
\* two-process run has both.
Undisturbed ==
  /\ BeforeMisreclaim
  /\ late = {}
  /\ \A p \in Proc : pc[p] # "recycled"
=============================================================================
