---------------------------- MODULE MCIndexRelease ---------------------------
(***************************************************************************)
(* Small instances of IndexRelease.  Builds and operators are only         *)
(* compared, so they may be permuted.                                      *)
(***************************************************************************)
EXTENDS IndexRelease, TLC

Symmetry == Permutations(Builds) \cup Permutations(Operators)
=============================================================================
