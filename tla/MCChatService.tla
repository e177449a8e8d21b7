---------------------------- MODULE MCChatService ----------------------------
(***************************************************************************)
(* Small instances of ChatService.  Turn ids and workers are               *)
(* interchangeable: uuid4 values are only compared, and a pool thread has  *)
(* no identity.                                                            *)
(***************************************************************************)
EXTENDS ChatService, TLC

Symmetry == Permutations(Turns) \cup Permutations(Workers)
=============================================================================
