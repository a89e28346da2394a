---------------------------- MODULE MCTopicNames ----------------------------
(***************************************************************************)
(* The options a, a/b and a/set.                                           *)
(***************************************************************************)
EXTENDS TopicNames

MCNameList == <<<<"a">>, <<"a", "b">>, <<"a", "set">>>>
=============================================================================
