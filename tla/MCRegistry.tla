----------------------------- MODULE MCRegistry -----------------------------
(***************************************************************************)
(* Threads and names are interchangeable.                                  *)
(***************************************************************************)
EXTENDS OptionRegistry, TLC

Interchangeable == Permutations(Threads) \cup Permutations(Names)
=============================================================================
