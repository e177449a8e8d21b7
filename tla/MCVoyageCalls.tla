---------------------------- MODULE MCVoyageCalls ----------------------------
(***************************************************************************)
(* Small instances of VoyageCalls: two texts are similar, a third one is   *)
(* like no other.                                                          *)
(***************************************************************************)
EXTENDS VoyageCalls, TLC

CONSTANTS t1, t2

ScoreOf == [a \in Texts |-> [b \in Texts |->
             IF a = b THEN 3 ELSE IF {a, b} = {t1, t2} THEN 2 ELSE 0]]

\* A tick is about 21 seconds; the waits are 65, 65 and 125 seconds, of which
\* the first is enough: a retry differs from a first attempt, not from the next.
Waits == <<3>>

Symmetry == Permutations(Callers) \cup Permutations(Partitions)
=============================================================================
