--------------------------- MODULE MCReplication ---------------------------
(***************************************************************************)
(* The instances of MCClientSync, with the abstract specification.         *)
(***************************************************************************)
EXTENDS MCClientSync, ClientReplication
=============================================================================
