---------------------------- MODULE MCAdmission ----------------------------
(***************************************************************************)
(* Admission for TLC: the plans' limits, and that requests are             *)
(* interchangeable.                                                        *)
(***************************************************************************)
EXTENDS Admission, TLC

Limit == [p \in Plans |-> 1]

Symmetry == Permutations(Requests)
=============================================================================
