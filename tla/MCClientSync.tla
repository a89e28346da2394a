---------------------------- MODULE MCClientSync ----------------------------
(***************************************************************************)
(* Small instances of ClientSync: one option and one parameter, or two     *)
(* options; two values; one validator that accepts only one of them.       *)
(***************************************************************************)
EXTENDS ClientSync

CONSTANTS v1, v2, strict

MCValues == {v1, v2}
MCValidators == {strict}
MCAccepts == [w \in MCValidators |-> {v1}]

\* The application may also reset an option to Undefined, or never does.
AnyValue == MCValues \cup {Undefined}
DefinedValue == MCValues
=============================================================================
