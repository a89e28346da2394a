----------------------------- MODULE MCLogFile -----------------------------
(***************************************************************************)
(* LogFile with interchangeable processes.                                 *)
(***************************************************************************)
EXTENDS LogFile, TLC

ProcessSymmetry == Permutations(Processes)
=============================================================================
