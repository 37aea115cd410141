-------------------------- MODULE MCReconcileCycle --------------------------
(* A small instance of ReconcileCycle for TLC. *)
EXTENDS ReconcileCycle

TwoRecords == {1, 2}
ThreeRecords == {1, 2, 3}

\* The second record's department has no key.
TwoDepartments == [r \in Records |-> IF r = 2 THEN "other" ELSE "main"]

OneDepartment == [r \in Records |-> "main"]
=============================================================================
