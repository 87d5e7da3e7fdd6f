---------------------------- MODULE MCResultStream ----------------------------
(***************************************************************************)
(* ResultStream for TLC: two required checks, an advisory one and an       *)
(* evidence-only one, and every kind of result a caller may supply for     *)
(* them, forged and malformed ones included.                               *)
(***************************************************************************)
EXTENDS ResultStream

MCCheck == {"identity", "scope", "advice", "telemetry"}
MCEffect == [c \in MCCheck |-> IF c \in {"identity", "scope"} THEN "BLOCKING" ELSE "ADVISORY"]
MCConsumer ==
  [c \in MCCheck |-> IF c = "telemetry" THEN "EVIDENCE_ONLY" ELSE "DISPOSITION_REDUCER"]
MCBinding == [c \in MCCheck |-> c]

MCResult(c, b, o) ==
  [shaped |-> TRUE, check |-> c, binding |-> b, outcome |-> o,
   codes |-> IF o = "PASS" THEN {} ELSE {o}]

MCIncoming ==
  {MCResult(c, c, o) : c \in {"identity", "scope"}, o \in Outcome}
    \cup {MCResult(c, c, o) : c \in {"advice", "telemetry"}, o \in {"PASS", "FIRED"}}
    \cup {MCResult(c, "forged", "PASS") : c \in {"identity", "advice", "unknown"}}
    \cup {[MCResult("identity", "identity", "PASS") EXCEPT !.shaped = FALSE]}
=============================================================================
