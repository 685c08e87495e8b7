------------------------------- MODULE MCDlock -------------------------------
(* Instances of Dlock for TLC. *)
EXTENDS DlockTable, DlockReplicas, DlockInv, TLC

CONSTANTS m0, f1, f2, c1, c2, c3, l1, l2

Symmetry == Permutations(Clients) \cup Permutations(Locks)

OrderedFairSpec == OrderedSpec /\ Fairness
=============================================================================
