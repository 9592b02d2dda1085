----------------------------- MODULE MCStaffing -----------------------------
(* Staffing for the model checker: requests and persons are interchangeable. *)
EXTENDS Staffing, TLC

Interchangeable == Permutations(Request) \cup Permutations(Person)
=============================================================================
