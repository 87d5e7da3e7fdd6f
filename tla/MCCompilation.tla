----------------------------- MODULE MCCompilation -----------------------------
(***************************************************************************)
(* Contracts over one kernel pack, 2, whose checks are in the first and    *)
(* the last phase, and three packs that a profile selects.                 *)
(***************************************************************************)
EXTENDS Compilation, TLC

\* Has TLC tabulate a function once.
Eager(f) == f @@ <<>>

Tree(tasks) == [class |-> "BOUNDED_PROCESS_TREE", maxTasks |-> tasks]

Builtin(c, ph) ==
  [id |-> c, phase |-> ph, effect |-> "BLOCKING", consumer |-> "DISPOSITION_REDUCER",
   validator |-> "BUILTIN", requires |-> Strict]

MCPack == 1 .. 4
MCMandatory == {2}
MCKernelChecks == [p \in {2} |-> {Builtin(21, 1), Builtin(22, 3)}]

Profile == {1, 3, 4}
Exact(packs) == Eager([p \in packs |-> {}])

Plain ==
  [caller |-> "evaluate", bounded |-> TRUE, mode |-> "SIGNED", signature |-> "trusted", header |-> {},
   supplied |-> Profile, repeated |-> {}, selects |-> Exact(Profile),
   deps |-> Eager([p \in MCPack |-> Exact({})]),
   checks |-> Eager([p \in MCPack |-> IF p = 2 THEN MCKernelChecks[2] ELSE {Builtin(10 * p, 2)}]),
   strengthen |-> {}, commands |-> {},
   contractCeiling |-> Tree(128), profileCeiling |-> Tree(256)]

\* Every dependency relation among the packs, and the phases of their checks.
Graphs(phases, targets) ==
  {[Plain EXCEPT !.deps = Eager([p \in MCPack |-> Exact(IF p = 2 THEN {} ELSE e[p])]),
                 !.checks = Eager([p \in MCPack |-> IF p = 2 THEN @[2] ELSE {Builtin(10 * p, f[p])}])] :
     e \in {g \in [Profile -> SUBSET targets] : \A p \in Profile : p \notin g[p]},
     f \in [Profile -> phases]}

\* A pack of several checks, before or after the one that depends on it.
Wide ==
  {[Plain EXCEPT !.deps[e[1]] = Exact({e[2]}),
                 !.checks[3] = {Builtin(30 + ph, ph) : ph \in phases}] :
     e \in {<<1, 3>>, <<3, 1>>, <<4, 3>>}, phases \in (SUBSET Phases) \ {{}}}

\* What the profile selects, what is supplied, and what the pins get wrong.
Selections ==
  {[Plain EXCEPT !.supplied = s, !.selects = Eager([p \in t |-> IF p = 3 THEN wrong ELSE {}]), !.deps[1] = dep] :
     s \in SUBSET {1, 2, 3}, t \in SUBSET {1, 2, 3}, wrong \in Pin,
     dep \in {Exact({})} \cup [{3} -> Pin]}
  \cup {[Plain EXCEPT !.repeated = r] : r \in SUBSET Profile}

\* The contract's own pins and its signature, for both callers.
Headers ==
  {[Plain EXCEPT !.caller = who, !.header = h, !.mode = mode, !.signature = sig] :
     who \in {"evaluate", "compile"}, h \in SUBSET {"AUTHORITY_DIGEST_MISMATCH", "PROFILE_IDENTITY_MISMATCH"},
     mode \in {"SIGNED", "UNSIGNED_PERSONAL"},
     sig \in {"none", "broken", "untrusted", "misnamed", "trusted"}}

\* A check that bears the name of another pack's, and its effect when strengthened.
Checks ==
  {[Plain EXCEPT !.strengthen = x,
                 !.checks[3] = {[id |-> n, phase |-> 2, effect |-> e, consumer |-> u,
                                 validator |-> v, requires |-> Strict]}] :
     x \in {{}, {21}, {30}, {30, 99}}, n \in {10, 21, 30}, e \in {"BLOCKING", "ADVISORY"},
     u \in {"DISPOSITION_REDUCER", "EVIDENCE_ONLY"},
     v \in {"BUILTIN", "UNKNOWN_BUILTIN", "TARGET", "UNADMITTED_TARGET"}}

\* What commands and a check require, and what the ceilings allow.
Executions ==
  {[Plain EXCEPT !.bounded = b, !.commands = c, !.contractCeiling = cc, !.profileCeiling = pp,
                 !.checks[3] = {[id |-> 30, phase |-> 2, effect |-> "ADVISORY",
                                 consumer |-> "EVIDENCE_ONLY", validator |-> "TARGET", requires |-> r]}] :
     b \in BOOLEAN, c \in {{}, {Strict}, {Strict, Tree(128)}},
     cc \in {Strict, Tree(128), Tree(256)}, pp \in {Strict, Tree(128), Tree(256)},
     r \in {Strict, Tree(128), Tree(256)}}

\* More checks than a plan may hold.
Large == {[Plain EXCEPT !.checks[4] = {Builtin(40 + n, 2) : n \in 0 .. 3}]}

MCDocument ==
  Graphs({1, 2, 3}, Profile) \cup Graphs({3}, MCPack) \cup Wide \cup Selections
  \cup Headers \cup Checks \cup Executions \cup Large
=============================================================================
