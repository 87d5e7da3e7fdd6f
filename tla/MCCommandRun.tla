------------------------------ MODULE MCCommandRun ------------------------------
(***************************************************************************)
(* A command that may fork up to three descendants, for TLC.               *)
(***************************************************************************)
EXTENDS CommandRun, TLC

MCDescendant == {"d1", "d2", "d3"}
=============================================================================
