---------------------------- MODULE MCAnswerGraph ----------------------------
(***************************************************************************)
(* Small instances of AnswerGraph.  Manuals and builds are only compared.  *)
(***************************************************************************)
EXTENDS AnswerGraph, TLC

Symmetry == Permutations(Scopes) \cup Permutations(Builds)
=============================================================================
