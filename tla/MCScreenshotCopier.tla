------------------------- MODULE MCScreenshotCopier -------------------------
(***************************************************************************)
(* Two files in one directory and one in another; lists that are equal as  *)
(* sets and differ as values.                                              *)
(***************************************************************************)
EXTENDS ScreenshotCopier

CONSTANTS d1, d2, f1, f2, f3

ExampleDirOf == [f \in Files |-> IF f = f3 THEN d2 ELSE d1]
ExampleLists == {<<>>, <<d1>>, <<d1, d2>>, <<d2, d1>>}
=============================================================================
