------------------------------- MODULE MCEcho -------------------------------
(***************************************************************************)
(* One option whose validator turns one of three values down.              *)
(***************************************************************************)
EXTENDS EchoApp

CONSTANTS int, int_param, v1, v2, v3, rule

TwoOfThree == [w \in Validators |-> {v1, v2}]
IntParam == [o \in Options |-> int_param]
IntRule == [o \in Options |-> rule]
=============================================================================
