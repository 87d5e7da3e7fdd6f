------------------------------ MODULE ResultStream ------------------------------
(***************************************************************************)
(* reduceDisposition as it runs: the first loop takes the supplied results *)
(* one at a time into byCheckId and blockingReasons, the second consumes   *)
(* byCheckId in plan order.  What it computes is compared with the closed  *)
(* form of module Reducer.                                                 *)
(***************************************************************************)
EXTENDS Reducer

CONSTANTS
  Incoming,    \* the results a caller may supply
  MaxResults,  \* bound on how many it supplies
  Nothing      \* no result, no outcome yet

ASSUME StreamAssumption ==
  /\ MaxResults \in Nat
  /\ Nothing \notin Incoming
  /\ \A r \in Incoming : r.outcome \in Outcome

VARIABLES
  stream,           \* the results taken so far, in order of arrival
  byCheckId,        \* the kept result of each check, or Nothing
  blockingReasons,
  returned,         \* reduceDisposition has returned
  outcome           \* what it returned

rvars == <<stream, byCheckId, blockingReasons, returned, outcome>>

-----------------------------------------------------------------------------
Init ==
  /\ stream = <<>>
  /\ byCheckId = [c \in Check |-> Nothing]
  /\ blockingReasons = {}
  /\ returned = FALSE
  /\ outcome = Nothing

Held(id) == id \in Check /\ byCheckId[id] # Nothing

Take(r) ==
  /\ ~returned
  /\ Len(stream) < MaxResults
  /\ stream' = Append(stream, r)
  /\ UNCHANGED <<returned, outcome>>

\* A value that is not a check-result@1.
TakeMalformed(r) ==
  /\ ~r.shaped
  /\ Take(r)
  /\ blockingReasons' = blockingReasons \cup {"RESULT_BINDING_MISMATCH"}
  /\ UNCHANGED byCheckId

\* Mutants: the last result of a check wins; nobody is told of a repetition.
TakeDuplicateLastWins(r) ==
  /\ r.shaped
  /\ Held(r.check)
  /\ Take(r)
  /\ blockingReasons' = blockingReasons \cup {"DUPLICATE_RESULT"}
  /\ byCheckId' = [byCheckId EXCEPT ![r.check] = r]
TakeDuplicateSilently(r) ==
  /\ r.shaped
  /\ Held(r.check)
  /\ Take(r)
  /\ UNCHANGED <<byCheckId, blockingReasons>>

TakeDuplicate(r) ==
  /\ r.shaped
  /\ Held(r.check)
  /\ Take(r)
  /\ blockingReasons' = blockingReasons \cup {"DUPLICATE_RESULT"}
  /\ UNCHANGED byCheckId

\* Mutant: a result that does not bind is dropped.
TakeUnboundSilently(r) ==
  /\ r.shaped
  /\ ~Held(r.check)
  /\ ~Binds(r)
  /\ Take(r)
  /\ UNCHANGED <<byCheckId, blockingReasons>>

TakeUnbound(r) ==
  /\ r.shaped
  /\ ~Held(r.check)
  /\ ~Binds(r)
  /\ Take(r)
  /\ blockingReasons' = blockingReasons \cup {"RESULT_BINDING_MISMATCH"}
  /\ UNCHANGED byCheckId

TakeBound(r) ==
  /\ Binds(r)
  /\ ~Held(r.check)
  /\ Take(r)
  /\ byCheckId' = [byCheckId EXCEPT ![r.check] = r]
  /\ UNCHANGED blockingReasons

\* The loop over plan.checks: EVIDENCE_ONLY results are retained, BLOCKING
\* results decide, ADVISORY results are consumed without deciding.
ConsumedReasons ==
  blockingReasons
    \cup (IF \A c \in Required : Held(c) THEN {} ELSE {"MISSING_REQUIRED_RESULT"})
    \cup UNION {Blame(byCheckId[c]) : c \in {d \in Required : Held(d)}}

HeldBy(consumer) == {c \in Check : Held(c) /\ Consumer[c] = consumer}

Consume ==
  /\ ~returned
  /\ returned' = TRUE
  /\ blockingReasons' = ConsumedReasons
  /\ outcome' =
       [disposition |-> IF ConsumedReasons = {} THEN "PROMOTABLE" ELSE "BLOCKED",
        reasonCodes |-> ConsumedReasons,
        consumed |-> {<<c, byCheckId[c].outcome>> : c \in HeldBy("DISPOSITION_REDUCER")},
        advisory |-> {<<c, byCheckId[c].outcome, byCheckId[c].codes>> :
                        c \in HeldBy("DISPOSITION_REDUCER") \ Required},
        evidenceOnly |-> {<<c, byCheckId[c].outcome>> : c \in HeldBy("EVIDENCE_ONLY")}]
  /\ UNCHANGED <<stream, byCheckId>>

Next ==
  \/ \E r \in Incoming : TakeMalformed(r) \/ TakeDuplicate(r) \/ TakeUnbound(r) \/ TakeBound(r)
  \/ Consume

Spec == Init /\ [][Next]_rvars

-----------------------------------------------------------------------------
\* Types of the accumulators of reduceDisposition.
StreamTypeOK ==
  /\ stream \in Seq(Incoming)
  /\ byCheckId \in [Check -> Incoming \cup {Nothing}]
  /\ returned \in BOOLEAN
  /\ Len(stream) <= MaxResults

\* The accumulating loops return the closed form: the first bound result of
\* each check counts, every other result is a mismatch or a duplicate.
MatchesDefinition == returned => outcome = Reduced(stream)

\* The results are, one for one, distinct and bound, every required check is
\* answered, and every required answer is a pass.
Earned(rs) ==
  /\ \A i \in DOMAIN rs :
       /\ Binds(rs[i])
       /\ rs[i].check \in Required => rs[i].outcome = "PASS"
       /\ \A j \in DOMAIN rs : rs[j].check = rs[i].check => j = i
  /\ \A c \in Required : \E i \in DOMAIN rs : rs[i].check = c

\* PROMOTABLE is returned exactly when it is earned: no malformed, forged,
\* repeated, skipped or missing result can be outweighed by another one.
PromotableIsEarned ==
  returned => (outcome.disposition = "PROMOTABLE" <=> Earned(stream))

Reorderings(rs) ==
  {[i \in DOMAIN rs |-> rs[f[i]]] :
     f \in {g \in [DOMAIN rs -> DOMAIN rs] : \A i, j \in DOMAIN rs : g[i] = g[j] => i = j}}

\* The disposition does not depend on the order in which results are supplied.
DispositionOrderFree ==
  returned => \A rs \in Reorderings(stream) : Disposition(rs) = outcome.disposition
=============================================================================
