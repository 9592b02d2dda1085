---------------------------- MODULE MCAuthoring ----------------------------
(* The test of Authoring, with interchangeable requests and typed values.  *)
EXTENDS Authoring, TLC

Alike == Permutations(Request) \cup Permutations(Value)
=============================================================================
