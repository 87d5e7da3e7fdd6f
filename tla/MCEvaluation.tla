---------------------------- MODULE MCEvaluation ----------------------------
(***************************************************************************)
(* Two compiled plans: the checks on which promotion turns, with an        *)
(* advisory target check before the binding of the candidate and a check   *)
(* of two commands after it, and a longer one with a command in each phase.*)
(***************************************************************************)
EXTENDS Evaluation

MCPlan == <<"identity", "prior-art", "advice", "stability", "binding", "validation">>
MCTargetPlan == <<"identity", "scope", "advice", "validation", "stability", "binding", "finalization">>
MCCheck == {MCPlan[n] : n \in DOMAIN MCPlan}
MCTargetCheck == {MCTargetPlan[n] : n \in DOMAIN MCTargetPlan}

MCEffect == [c \in Check |-> IF c = "advice" THEN "ADVISORY" ELSE "BLOCKING"]
MCConsumer == [c \in Check |-> "DISPOSITION_REDUCER"]
MCBinding == [c \in Check |-> c]

MCPhase == [c \in Check |->
  CASE c \in {"identity", "prior-art"} -> "CONTRACT_ADMISSION"
    [] c \in {"scope", "advice"} -> "CANDIDATE_VALIDATION"
    [] c = "validation" /\ "scope" \in Check -> "CANDIDATE_VALIDATION"
    [] OTHER -> "PROMOTION_FINALIZATION"]

MCValidator == [c \in Check |->
  CASE c = "identity" -> "IDENTITY"
    [] c = "prior-art" -> "REPORTING"
    [] c = "scope" -> "SCOPE"
    [] c = "stability" -> "STABILITY"
    [] c = "binding" -> "BINDING"
    [] c = "advice" -> "TARGET"
    [] OTHER -> "PLAN"]

MCHalts == {"identity", "scope", "stability", "binding"}

MCCommands == [c \in Check |->
  CASE c = "advice" -> <<"t1">>
    [] c = "validation" -> IF "scope" \in Check THEN <<"v1">> ELSE <<"v1", "v2">>
    [] c = "finalization" -> <<"f1">>
    [] OTHER -> <<>>]
MCCommand == UNION {{MCCommands[c][n] : n \in DOMAIN MCCommands[c]} : c \in Check}
=============================================================================
