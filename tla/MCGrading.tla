----------------------------- MODULE MCGrading -----------------------------
(***************************************************************************)
(* The instance of Grading that TLC explores: two questions, each of which *)
(* may be graded by hand or by a key that accepts or rejects the answer.   *)
(***************************************************************************)
EXTENDS Grading, TLC

CONSTANTS q1, q2

ByHand == [manual |-> TRUE, worth |-> 1, match |-> TRUE]
ByKey == [manual |-> FALSE, worth |-> 1, match |-> TRUE]
ByOtherKey == [manual |-> FALSE, worth |-> 1, match |-> FALSE]

MCVersion == {ByHand, ByKey, ByOtherKey}
MCFirst == q1 :> ByHand @@ q2 :> ByHand
MCTyped == {0 - 1, 2}

People == Permutations(Call)

============================================================================
