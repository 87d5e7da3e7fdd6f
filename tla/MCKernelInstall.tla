---------------------------- MODULE MCKernelInstall ----------------------------
(***************************************************************************)
(* KernelInstall for TLC, where the copies and processes must be of        *)
(* comparable types: the processes are strings.                            *)
(***************************************************************************)
EXTENDS KernelInstall

MCProc == {"p1", "p2", "p3"}
MCCrashable == {"p1"}
=============================================================================
