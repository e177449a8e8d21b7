----------------------------- MODULE TurnLedger ------------------------------
(***************************************************************************)
(* What the durable side of a conversation promises, and nothing of how:   *)
(* a turn's result is recorded at most once, never changes, and its answer *)
(* appears in the transcript at one place, at the same instant.            *)
(* (store/state_store.py:9-15 and 260-265)                                 *)
(***************************************************************************)
CONSTANT Turns

VARIABLES
  result,   \* the stored answer of each turn, or "absent"
  place     \* the positions of each turn's answer in the transcript

Results == {"blank", "draft"}

Init ==
  /\ result = [t \in Turns |-> "absent"]
  /\ place = [t \in Turns |-> {}]

Commit(t, r) ==
  /\ result[t] = "absent"
  /\ result' = [result EXCEPT ![t] = r]
  /\ \E p \in place'[t] : place' = [place EXCEPT ![t] = {p}]

Next == \E t \in Turns, r \in Results : Commit(t, r)

Spec == Init /\ [][Next]_<<result, place>>
=============================================================================
