----------------------------- MODULE ReducerProofs -----------------------------
(***************************************************************************)
(* Theorems about the disposition reducer, for every plan, every set of    *)
(* results a caller may supply and every order in which it supplies them.  *)
(***************************************************************************)
EXTENDS ResultStream, FiniteSetTheorems, TLAPS

-----------------------------------------------------------------------------
(***************************************************************************)
(* The closed form.                                                        *)
(***************************************************************************)
LEMMA BlameIsEmpty ==
  ASSUME NEW r, r.outcome \in Outcome
  PROVE  Blame(r) = {} <=> r.outcome = "PASS"
BY DEF Blame, Outcome

\* Nothing is wrong with the results exactly when they are all kept, every
\* required check is answered and every required answer is a pass.
LEMMA NoReasons ==
  ASSUME NEW rs
  PROVE  Reasons(rs) = {} <=>
           /\ Mismatch(rs) = {}
           /\ Duplicate(rs) = {}
           /\ Required \subseteq Answered(rs)
           /\ \A i \in Kept(rs) : rs[i].check \in Required => Blame(rs[i]) = {}
<1> DEFINE Blames == {Blame(rs[i]) : i \in {j \in Kept(rs) : rs[j].check \in Required}}
<1>1. UNION Blames = {} <=> \A i \in Kept(rs) : rs[i].check \in Required => Blame(rs[i]) = {}
  OBVIOUS
<1> HIDE DEF Blames
<1>2. Reasons(rs) =
        (IF Mismatch(rs) = {} THEN {} ELSE {"RESULT_BINDING_MISMATCH"})
        \cup (IF Duplicate(rs) = {} THEN {} ELSE {"DUPLICATE_RESULT"})
        \cup (IF Required \subseteq Answered(rs) THEN {} ELSE {"MISSING_REQUIRED_RESULT"})
        \cup UNION Blames
  BY DEF Reasons, Blames
<1> QED
  BY <1>1, <1>2

\* A result is kept, repeated or mismatched; when none is repeated or
\* mismatched, the results are bound and name distinct checks.
LEMMA AllKept ==
  ASSUME NEW rs \in Seq(Incoming)
  PROVE  Mismatch(rs) = {} /\ Duplicate(rs) = {} <=>
           \A i \in DOMAIN rs :
             /\ Binds(rs[i])
             /\ \A j \in DOMAIN rs : rs[j].check = rs[i].check => j = i
<1>0. DOMAIN rs = 1 .. Len(rs) /\ Len(rs) \in Nat
  OBVIOUS
<1>1. ASSUME Mismatch(rs) = {}, Duplicate(rs) = {}, NEW i \in DOMAIN rs
      PROVE  /\ Binds(rs[i])
             /\ \A j \in DOMAIN rs : rs[j].check = rs[i].check => j = i
  <2>1. \A k \in DOMAIN rs : k \in Kept(rs)
    BY <1>1 DEF Mismatch
  <2>2. \A k \in DOMAIN rs : Binds(rs[k]) /\ \A l \in 1 .. (k - 1) : Binds(rs[l]) => rs[l].check # rs[k].check
    BY <2>1 DEF Kept
  <2>3. ASSUME NEW j \in DOMAIN rs, rs[j].check = rs[i].check
        PROVE  j = i
    BY <1>0, <2>2, <2>3
  <2> QED
    BY <2>2, <2>3
<1>2. ASSUME \A i \in DOMAIN rs :
               /\ Binds(rs[i])
               /\ \A j \in DOMAIN rs : rs[j].check = rs[i].check => j = i
      PROVE  Mismatch(rs) = {} /\ Duplicate(rs) = {}
  <2>1. Kept(rs) = DOMAIN rs
    BY <1>0, <1>2 DEF Kept
  <2>2. Duplicate(rs) = {}
    BY <1>0, <1>2, <2>1 DEF Duplicate
  <2> QED
    BY <2>1, <2>2 DEF Mismatch
<1> QED
  BY <1>1, <1>2

\* PROMOTABLE exactly when earned.
LEMMA DispositionEarned ==
  ASSUME StreamAssumption, NEW rs \in Seq(Incoming)
  PROVE  Disposition(rs) = "PROMOTABLE" <=> Earned(rs)
<1>1. \A i \in DOMAIN rs : Blame(rs[i]) = {} <=> rs[i].outcome = "PASS"
  BY BlameIsEmpty DEF StreamAssumption
<1>2. Disposition(rs) = "PROMOTABLE" <=> Reasons(rs) = {}
  BY DEF Disposition
<1>3. Kept(rs) \subseteq DOMAIN rs
  BY DEF Kept
<1>4. ASSUME Mismatch(rs) = {}, Duplicate(rs) = {}
      PROVE  Kept(rs) = DOMAIN rs
  BY <1>3, <1>4 DEF Mismatch
<1>5. ASSUME Reasons(rs) = {}
      PROVE  Earned(rs)
  <2>1. Mismatch(rs) = {} /\ Duplicate(rs) = {} /\ Required \subseteq Answered(rs)
    BY <1>5, NoReasons
  <2>2. Kept(rs) = DOMAIN rs
    BY <1>4, <2>1
  <2>3. \A i \in DOMAIN rs : rs[i].check \in Required => rs[i].outcome = "PASS"
    BY <1>1, <1>5, <2>2, NoReasons
  <2>4. \A c \in Required : \E i \in DOMAIN rs : rs[i].check = c
    BY <2>1, <2>2 DEF Answered
  <2>5. \A i \in DOMAIN rs :
          /\ Binds(rs[i])
          /\ \A j \in DOMAIN rs : rs[j].check = rs[i].check => j = i
    BY <2>1, AllKept
  <2> QED
    BY <2>3, <2>4, <2>5 DEF Earned
<1>6. ASSUME Earned(rs)
      PROVE  Reasons(rs) = {}
  <2>1. Mismatch(rs) = {} /\ Duplicate(rs) = {}
    BY <1>6, AllKept DEF Earned
  <2>2. Kept(rs) = DOMAIN rs
    BY <1>4, <2>1
  <2>3. Required \subseteq Answered(rs)
    BY <1>6, <2>2 DEF Earned, Answered
  <2> QED
    BY <1>1, <1>6, <2>1, <2>2, <2>3, NoReasons DEF Earned
<1> QED
  BY <1>2, <1>5, <1>6

\* What one more result changes: it is kept, or it repeats, or it mismatches.
LEMMA AppendKept ==
  ASSUME NEW rs \in Seq(Incoming), NEW r \in Incoming
  PROVE  Kept(Append(rs, r)) =
           Kept(rs) \cup
             (IF Binds(r) /\ \A j \in DOMAIN rs : Binds(rs[j]) => rs[j].check # r.check
                THEN {Len(rs) + 1} ELSE {})
<1> DEFINE s == Append(rs, r)
           n == Len(rs) + 1
<1>1. /\ Len(rs) \in Nat
      /\ DOMAIN rs = 1 .. Len(rs)
      /\ DOMAIN s = 1 .. n
      /\ s[n] = r
      /\ \A i \in DOMAIN rs : s[i] = rs[i]
  OBVIOUS
<1> HIDE DEF s
<1>2. \A i \in DOMAIN rs : i \in Kept(s) <=> i \in Kept(rs)
  BY <1>1 DEF Kept
<1>3. n \in Kept(s) <=> Binds(r) /\ \A j \in DOMAIN rs : Binds(rs[j]) => rs[j].check # r.check
  BY <1>1 DEF Kept
<1>4. Kept(s) \subseteq DOMAIN rs \cup {n} /\ Kept(rs) \subseteq DOMAIN rs
  BY <1>1 DEF Kept
<1> QED
  BY <1>2, <1>3, <1>4 DEF s

LEMMA AppendDuplicate ==
  ASSUME NEW rs \in Seq(Incoming), NEW r \in Incoming
  PROVE  Duplicate(Append(rs, r)) =
           Duplicate(rs) \cup
             (IF r.shaped /\ r.check \in Answered(rs) THEN {Len(rs) + 1} ELSE {})
<1> DEFINE s == Append(rs, r)
           n == Len(rs) + 1
<1>1. /\ Len(rs) \in Nat
      /\ DOMAIN rs = 1 .. Len(rs)
      /\ DOMAIN s = 1 .. n
      /\ s[n] = r
      /\ \A i \in DOMAIN rs : s[i] = rs[i]
  OBVIOUS
<1>2. Kept(s) \subseteq Kept(rs) \cup {n} /\ Kept(rs) \subseteq Kept(s) /\ Kept(rs) \subseteq DOMAIN rs
  BY AppendKept DEF Kept
<1> HIDE DEF s
<1>3. \A i \in DOMAIN rs : i \in Duplicate(s) <=> i \in Duplicate(rs)
  BY <1>1, <1>2 DEF Duplicate
<1>4. n \in Duplicate(s) <=> r.shaped /\ \E j \in Kept(s) : j < n /\ s[j].check = r.check
  BY <1>1 DEF Duplicate
<1>5. (\E j \in Kept(s) : j < n /\ s[j].check = r.check) <=> r.check \in Answered(rs)
  BY <1>1, <1>2 DEF Answered
<1>6. Duplicate(s) \subseteq DOMAIN rs \cup {n} /\ Duplicate(rs) \subseteq DOMAIN rs
  BY <1>1 DEF Duplicate
<1> QED
  BY <1>3, <1>4, <1>5, <1>6 DEF s

-----------------------------------------------------------------------------
(***************************************************************************)
(* The loops compute the closed form.                                      *)
(***************************************************************************)
\* The reasons that do not depend on any outcome.
Structural(rs) ==
  (IF Mismatch(rs) = {} THEN {} ELSE {"RESULT_BINDING_MISMATCH"})
  \cup (IF Duplicate(rs) = {} THEN {} ELSE {"DUPLICATE_RESULT"})

StreamTypes ==
  /\ stream \in Seq(Incoming)
  /\ byCheckId \in [Check -> Incoming \cup {Nothing}]
  /\ returned \in BOOLEAN

\* byCheckId holds the kept results and nothing else; a check with a bound
\* result is answered.
HoldsKept ==
  /\ \A c \in Check : Held(c) => \E i \in Kept(stream) : stream[i] = byCheckId[c] /\ stream[i].check = c
  /\ \A i \in Kept(stream) : byCheckId[stream[i].check] = stream[i]
  /\ \A i \in DOMAIN stream : Binds(stream[i]) => Held(stream[i].check)

StreamInv ==
  /\ StreamTypes
  /\ HoldsKept
  /\ ~returned => blockingReasons = Structural(stream)
  /\ MatchesDefinition

LEMMA AnsweredIsHeld ==
  ASSUME StreamInv, StreamAssumption, NEW id
  PROVE  Held(id) <=> id \in Answered(stream)
<1>1. \A i \in Kept(stream) : Held(stream[i].check) /\ stream[i].check \in Check
  BY DEF StreamInv, HoldsKept, Kept, Binds
<1> QED
  BY <1>1 DEF StreamInv, HoldsKept, Answered, Held

\* Taking a result, whichever branch takes it.
LEMMA TakeKeepsInv ==
  ASSUME StreamInv, StreamAssumption, NEW r \in Incoming,
         TakeMalformed(r) \/ TakeDuplicate(r) \/ TakeUnbound(r) \/ TakeBound(r)
  PROVE  StreamInv'
<1> DEFINE s == Append(stream, r)
           n == Len(stream) + 1
           keeps == Binds(r) /\ ~Held(r.check)
           repeats == r.shaped /\ Held(r.check)
<1>0. /\ stream' = s /\ ~returned /\ UNCHANGED returned
      /\ stream \in Seq(Incoming) /\ StreamTypes /\ HoldsKept
      /\ blockingReasons = Structural(stream)
  BY DEF TakeMalformed, TakeDuplicate, TakeUnbound, TakeBound, Take, StreamInv, StreamTypes
<1>1. /\ Len(stream) \in Nat
      /\ DOMAIN stream = 1 .. Len(stream)
      /\ DOMAIN s = 1 .. n
      /\ s[n] = r
      /\ \A i \in DOMAIN stream : s[i] = stream[i]
      /\ s \in Seq(Incoming)
  BY <1>0
<1>2. (\A j \in DOMAIN stream : Binds(stream[j]) => stream[j].check # r.check) <=> ~Held(r.check)
  <2>1. ASSUME NEW j \in DOMAIN stream, Binds(stream[j]), stream[j].check = r.check
        PROVE  Held(r.check)
    BY <1>0, <2>1 DEF HoldsKept
  <2>2. ASSUME Held(r.check)
        PROVE  \E j \in DOMAIN stream : Binds(stream[j]) /\ stream[j].check = r.check
    BY <1>0, <2>2 DEF HoldsKept, Kept, Held
  <2> QED
    BY <2>1, <2>2
<1>3. Kept(s) = Kept(stream) \cup (IF keeps THEN {n} ELSE {})
  BY <1>0, <1>2, AppendKept
<1>4. Duplicate(s) = Duplicate(stream) \cup (IF repeats THEN {n} ELSE {})
  BY <1>0, AppendDuplicate, AnsweredIsHeld
<1>5. /\ Kept(stream) \subseteq DOMAIN stream
      /\ Duplicate(stream) \subseteq DOMAIN stream
  BY DEF Kept, Duplicate
<1>6. Mismatch(s) = Mismatch(stream) \cup (IF keeps \/ repeats THEN {} ELSE {n})
  BY <1>1, <1>3, <1>4, <1>5 DEF Mismatch
<1>7. /\ byCheckId' = IF keeps THEN [byCheckId EXCEPT ![r.check] = r] ELSE byCheckId
      /\ blockingReasons' = blockingReasons \cup
           (IF keeps THEN {} ELSE IF repeats THEN {"DUPLICATE_RESULT"}
            ELSE {"RESULT_BINDING_MISMATCH"})
  BY DEF TakeMalformed, TakeDuplicate, TakeUnbound, TakeBound, Binds
<1>8. blockingReasons' = Structural(s)
  BY <1>0, <1>4, <1>6, <1>7 DEF Structural
<1>9. StreamTypes'
  BY <1>0, <1>1, <1>7 DEF StreamTypes
<1>10. HoldsKept'
  <2>1. CASE keeps
    <3>1. r.check \in Check /\ r # Nothing
      BY <2>1 DEF Binds, StreamAssumption
    <3>2. \A c \in Check : byCheckId'[c] = IF c = r.check THEN r ELSE byCheckId[c]
      BY <1>0, <1>7, <2>1, <3>1 DEF StreamTypes
    <3>3. \A i \in Kept(stream) : stream[i].check # r.check /\ stream[i].check \in Check
      BY <1>0, <2>1 DEF HoldsKept, Kept, Binds, Held
    <3>4. \A c \in Check : byCheckId'[c] # Nothing =>
            \E i \in Kept(s) : s[i] = byCheckId'[c] /\ s[i].check = c
      BY <1>0, <1>1, <1>3, <1>5, <2>1, <3>1, <3>2 DEF HoldsKept, Held
    <3>5. \A i \in Kept(s) : byCheckId'[s[i].check] = s[i]
      BY <1>0, <1>1, <1>3, <1>5, <2>1, <3>1, <3>2, <3>3 DEF HoldsKept
    <3>6. \A i \in DOMAIN s : Binds(s[i]) => s[i].check \in Check /\ byCheckId'[s[i].check] # Nothing
      BY <1>0, <1>1, <2>1, <3>1, <3>2 DEF HoldsKept, Held, Binds
    <3> QED
      BY <1>0, <3>4, <3>5, <3>6 DEF HoldsKept, Held, Binds
  <2>2. CASE ~keeps
    <3>1. Kept(s) = Kept(stream) /\ byCheckId' = byCheckId
      BY <1>3, <1>7, <2>2
    <3>2. \A i \in DOMAIN s : Binds(s[i]) => Held(s[i].check)
      BY <1>0, <1>1, <2>2 DEF HoldsKept
    <3> QED
      BY <1>0, <1>1, <1>5, <3>1, <3>2 DEF HoldsKept, Held, Binds
  <2> QED
    BY <2>1, <2>2
<1> QED
  BY <1>0, <1>8, <1>9, <1>10 DEF StreamInv, MatchesDefinition

\* The loop over plan.checks reads byCheckId where the closed form reads the
\* kept results.
LEMMA ConsumeMatches ==
  ASSUME StreamInv, StreamAssumption, PlanAssumption, Consume
  PROVE  outcome' = Reduced(stream)
<1> USE DEF StreamInv, HoldsKept
<1>1. \A i \in Kept(stream) : stream[i].check \in Check /\ Held(stream[i].check)
  BY DEF Kept, Binds
<1>2. \A c \in Check : Held(c) => \E i \in Kept(stream) : stream[i] = byCheckId[c] /\ stream[i].check = c
  OBVIOUS
<1>3. \A i \in Kept(stream) : byCheckId[stream[i].check] = stream[i]
  OBVIOUS
<1> HIDE DEF StreamInv, HoldsKept
<1>4. Required \subseteq Check /\ \A c \in Check : (c \in HeldBy("EVIDENCE_ONLY") <=> Held(c) /\ Consumer[c] = "EVIDENCE_ONLY")
                              /\ (c \in HeldBy("DISPOSITION_REDUCER") <=> Held(c) /\ Consumer[c] # "EVIDENCE_ONLY")
  BY DEF Required, HeldBy, PlanAssumption
<1>5. HeldBy("EVIDENCE_ONLY") \subseteq Check /\ HeldBy("DISPOSITION_REDUCER") \subseteq Check
  BY DEF HeldBy
<1>6. (\A c \in Required : Held(c)) <=> Required \subseteq Answered(stream)
  BY AnsweredIsHeld
<1>7. UNION {Blame(byCheckId[c]) : c \in {d \in Required : Held(d)}} =
      UNION {Blame(stream[i]) : i \in {j \in Kept(stream) : stream[j].check \in Required}}
  <2>1. {Blame(byCheckId[c]) : c \in {d \in Required : Held(d)}} =
        {Blame(stream[i]) : i \in {j \in Kept(stream) : stream[j].check \in Required}}
    BY <1>1, <1>2, <1>3, <1>4
  <2> QED
    BY <2>1
<1>8. blockingReasons = Structural(stream)
  BY DEF StreamInv, Consume
<1>9. ConsumedReasons = Reasons(stream)
  BY <1>6, <1>7, <1>8 DEF ConsumedReasons, Reasons, Structural
<1>10. {<<c, byCheckId[c].outcome>> : c \in HeldBy("DISPOSITION_REDUCER")} = Consumed(stream)
  BY <1>1, <1>2, <1>3, <1>4, <1>5 DEF Consumed
<1>11. {<<c, byCheckId[c].outcome>> : c \in HeldBy("EVIDENCE_ONLY")} = EvidenceOnly(stream)
  BY <1>1, <1>2, <1>3, <1>4, <1>5 DEF EvidenceOnly
<1>12. {<<c, byCheckId[c].outcome, byCheckId[c].codes>> : c \in HeldBy("DISPOSITION_REDUCER") \ Required}
         = Advisory(stream)
  BY <1>1, <1>2, <1>3, <1>4, <1>5 DEF Advisory
<1> QED
  BY <1>9, <1>10, <1>11, <1>12 DEF Consume, Reduced, Disposition

\* The closed form depends on the results alone.
LEMMA SameStream ==
  ASSUME UNCHANGED stream
  PROVE  /\ Kept(stream)' = Kept(stream)
         /\ Structural(stream)' = Structural(stream)
         /\ Reduced(stream)' = Reduced(stream)
<1>1. Kept(stream)' = Kept(stream)
  BY DEF Kept, Binds
<1>2. Duplicate(stream)' = Duplicate(stream)
  BY <1>1 DEF Duplicate
<1>3. Mismatch(stream)' = Mismatch(stream)
  BY <1>1, <1>2 DEF Mismatch
<1>4. Answered(stream)' = Answered(stream)
  BY <1>1 DEF Answered
<1>5. Reasons(stream)' = Reasons(stream)
  BY <1>1, <1>2, <1>3, <1>4 DEF Reasons, Blame
<1>6. /\ Consumed(stream)' = Consumed(stream)
      /\ Advisory(stream)' = Advisory(stream)
      /\ EvidenceOnly(stream)' = EvidenceOnly(stream)
  BY <1>1 DEF Consumed, Advisory, EvidenceOnly
<1> QED
  BY <1>1, <1>2, <1>3, <1>5, <1>6 DEF Structural, Reduced, Disposition

\* Every reachable state of a reduction satisfies the loop invariant.
THEOREM StreamInvAlways ==
  ASSUME StreamAssumption, PlanAssumption
  PROVE  Spec => []StreamInv
<1>1. Init => StreamInv
  <2> SUFFICES ASSUME Init
               PROVE  StreamInv
    OBVIOUS
  <2>1. Kept(stream) = {} /\ Duplicate(stream) = {} /\ Mismatch(stream) = {}
    BY DEF Init, Kept, Duplicate, Mismatch
  <2>2. StreamTypes
    <3>1. stream = <<>> /\ <<>> \in Seq(Incoming)
      BY DEF Init
    <3>2. byCheckId \in [Check -> Incoming \cup {Nothing}] /\ returned \in BOOLEAN
      BY DEF Init
    <3> QED
      BY <3>1, <3>2 DEF StreamTypes
  <2>3. HoldsKept
    BY <2>1 DEF Init, HoldsKept, Held
  <2>4. blockingReasons = Structural(stream)
    BY <2>1 DEF Init, Structural
  <2> QED
    BY <2>2, <2>3, <2>4 DEF Init, StreamInv, MatchesDefinition
<1>2. StreamInv /\ [Next]_rvars => StreamInv'
  <2> SUFFICES ASSUME StreamInv, [Next]_rvars
               PROVE  StreamInv'
    OBVIOUS
  <2>1. CASE UNCHANGED rvars
    <3>1. UNCHANGED <<stream, byCheckId, blockingReasons, returned, outcome>>
      BY <2>1 DEF rvars
    <3>2. /\ Kept(stream)' = Kept(stream)
          /\ Reduced(stream)' = Reduced(stream)
          /\ Structural(stream)' = Structural(stream)
      BY <3>1, SameStream
    <3>3. HoldsKept'
      BY <3>1, <3>2 DEF StreamInv, HoldsKept, Held
    <3> QED
      BY <3>1, <3>2, <3>3 DEF StreamInv, StreamTypes, MatchesDefinition
  <2>2. ASSUME NEW r \in Incoming,
               TakeMalformed(r) \/ TakeDuplicate(r) \/ TakeUnbound(r) \/ TakeBound(r)
        PROVE  StreamInv'
    BY <2>2, TakeKeepsInv
  <2>3. CASE Consume
    <3>1. /\ outcome' = Reduced(stream)
          /\ UNCHANGED <<stream, byCheckId>>
          /\ returned'
      BY <2>3, ConsumeMatches DEF Consume
    <3>2. returned' = TRUE
      BY <2>3 DEF Consume
    <3>3. Kept(stream)' = Kept(stream) /\ Reduced(stream)' = Reduced(stream)
      BY <3>1, SameStream
    <3>4. HoldsKept'
      BY <3>1, <3>3 DEF StreamInv, HoldsKept, Held
    <3> QED
      BY <3>1, <3>2, <3>3, <3>4 DEF StreamInv, StreamTypes, MatchesDefinition
  <2> QED
    BY <2>1, <2>2, <2>3 DEF Next
<1> QED
  BY <1>1, <1>2, PTL DEF Spec

-----------------------------------------------------------------------------
(***************************************************************************)
(* The checked properties.                                                 *)
(***************************************************************************)
\* However results are supplied, the accumulating loops return the closed form.
THEOREM ReducerMatchesDefinition ==
  ASSUME StreamAssumption, PlanAssumption
  PROVE  Spec => []MatchesDefinition
<1>1. StreamInv => MatchesDefinition
  BY DEF StreamInv
<1> QED
  BY <1>1, StreamInvAlways, PTL

\* The accumulators keep their types, and no more results are taken than bounded.
THEOREM StreamTypeCorrectness ==
  ASSUME StreamAssumption, PlanAssumption
  PROVE  Spec => []StreamTypeOK
<1> DEFINE Within == Len(stream) <= MaxResults
<1>1. Init => Within
  BY DEF Init, StreamAssumption
<1>2. StreamInv /\ Within /\ [Next]_rvars => Within'
  <2> SUFFICES ASSUME StreamInv, Within, [Next]_rvars PROVE Within'
    OBVIOUS
  <2>1. CASE UNCHANGED stream
    BY <2>1
  <2>2. ASSUME NEW r \in Incoming, Take(r) PROVE Within'
    <3>1. stream \in Seq(Incoming) /\ Len(stream) < MaxResults /\ stream' = Append(stream, r)
      BY <2>2 DEF StreamInv, StreamTypes, Take
    <3>2. Len(stream') = Len(stream) + 1 /\ Len(stream) \in Nat
      BY <3>1
    <3> QED
      BY <3>1, <3>2 DEF StreamAssumption
  <2> QED
    BY <2>1, <2>2 DEF Next, TakeMalformed, TakeDuplicate, TakeUnbound, TakeBound, Consume, rvars
<1>3. StreamInv /\ Within => StreamTypeOK
  BY DEF StreamInv, StreamTypes, StreamTypeOK
<1> QED
  BY <1>1, <1>2, <1>3, StreamInvAlways, PTL DEF Spec

\* For every plan, PROMOTABLE is returned exactly for results that earn it: one
\* bound result per check named, every required check answered by a pass.
THEOREM ReducerPromotesTheEarned ==
  ASSUME StreamAssumption, PlanAssumption
  PROVE  Spec => []PromotableIsEarned
<1>1. StreamInv => PromotableIsEarned
  BY DispositionEarned DEF StreamInv, StreamTypes, MatchesDefinition, PromotableIsEarned, Reduced
<1> QED
  BY <1>1, StreamInvAlways, PTL

\* A reordering of results that earn promotion earns it.
LEMMA EarnedReordered ==
  ASSUME NEW rs \in Seq(Incoming), NEW ps \in Reorderings(rs)
  PROVE  ps \in Seq(Incoming) /\ (Earned(ps) <=> Earned(rs))
<1>1. PICK f \in [DOMAIN rs -> DOMAIN rs] :
        /\ \A i, j \in DOMAIN rs : f[i] = f[j] => i = j
        /\ ps = [i \in DOMAIN rs |-> rs[f[i]]]
  BY DEF Reorderings
<1>2. DOMAIN rs = 1 .. Len(rs) /\ Len(rs) \in Nat
  OBVIOUS
<1>3. ps \in [1 .. Len(rs) -> Incoming]
  BY <1>1, <1>2
<1>4. ps \in Seq(Incoming) /\ DOMAIN ps = DOMAIN rs
  BY <1>2, <1>3
\* An injection of a finite set into itself is onto it.
<1>5. \A i \in DOMAIN rs : \E j \in DOMAIN rs : f[j] = i
  <2>1. IsFiniteSet(DOMAIN rs)
    BY <1>2, FS_Interval
  <2>2. f \in Injection(DOMAIN rs, DOMAIN rs)
    BY <1>1 DEF Injection, IsInjective
  <2>3. f \in Surjection(DOMAIN rs, DOMAIN rs)
    BY <2>1, <2>2, FS_Injection
  <2> QED
    BY <2>3 DEF Surjection
<1>6. \A i \in DOMAIN rs : f[i] \in DOMAIN rs /\ ps[i] = rs[f[i]]
  BY <1>1
<1>7. ASSUME Earned(rs)
      PROVE  Earned(ps)
  <2>1. ASSUME NEW i \in DOMAIN ps
        PROVE  /\ Binds(ps[i])
               /\ ps[i].check \in Required => ps[i].outcome = "PASS"
               /\ \A j \in DOMAIN ps : ps[j].check = ps[i].check => j = i
    BY <1>1, <1>4, <1>6, <1>7 DEF Earned
  <2>2. ASSUME NEW c \in Required
        PROVE  \E i \in DOMAIN ps : ps[i].check = c
    <3>1. PICK j \in DOMAIN rs : rs[j].check = c
      BY <1>7, <2>2 DEF Earned
    <3>2. PICK i \in DOMAIN rs : f[i] = j
      BY <1>5, <3>1
    <3> QED
      BY <1>4, <1>6, <3>1, <3>2
  <2> QED
    BY <2>1, <2>2 DEF Earned
<1>8. ASSUME Earned(ps)
      PROVE  Earned(rs)
  <2>1. ASSUME NEW i \in DOMAIN rs
        PROVE  /\ Binds(rs[i])
               /\ rs[i].check \in Required => rs[i].outcome = "PASS"
               /\ \A j \in DOMAIN rs : rs[j].check = rs[i].check => j = i
    <3>1. PICK k \in DOMAIN ps : f[k] = i
      BY <1>4, <1>5
    <3>2. ps[k] = rs[i]
      BY <1>4, <1>6, <3>1
    <3>3. ASSUME NEW j \in DOMAIN rs, rs[j].check = rs[i].check
          PROVE  j = i
      <4>1. PICK l \in DOMAIN ps : f[l] = j
        BY <1>4, <1>5
      <4>2. ps[l].check = ps[k].check
        BY <1>4, <1>6, <3>2, <3>3, <4>1
      <4> QED
        BY <1>8, <3>1, <4>1, <4>2 DEF Earned
    <3> QED
      BY <1>8, <3>2, <3>3 DEF Earned
  <2>2. ASSUME NEW c \in Required
        PROVE  \E i \in DOMAIN rs : rs[i].check = c
    BY <1>4, <1>6, <1>8 DEF Earned
  <2> QED
    BY <2>1, <2>2 DEF Earned
<1> QED
  BY <1>4, <1>7, <1>8

\* For every plan, the same results in another order reduce to the same
\* disposition: no order of supply can buy a promotion, or cost one.
THEOREM ReducerOrderFree ==
  ASSUME StreamAssumption, PlanAssumption
  PROVE  Spec => []DispositionOrderFree
<1>1. ASSUME StreamInv, returned, NEW rs \in Reorderings(stream)
      PROVE  Disposition(rs) = outcome.disposition
  <2>1. stream \in Seq(Incoming) /\ outcome.disposition = Disposition(stream)
    BY <1>1 DEF StreamInv, StreamTypes, MatchesDefinition, Reduced
  <2>2. rs \in Seq(Incoming) /\ (Earned(rs) <=> Earned(stream))
    BY <1>1, <2>1, EarnedReordered
  <2>3. Disposition(rs) = "PROMOTABLE" <=> Disposition(stream) = "PROMOTABLE"
    BY <2>1, <2>2, DispositionEarned
  <2> QED
    BY <2>1, <2>3 DEF Disposition
<1>2. StreamInv => DispositionOrderFree
  BY <1>1 DEF DispositionOrderFree
<1> QED
  BY <1>2, StreamInvAlways, PTL
=============================================================================
