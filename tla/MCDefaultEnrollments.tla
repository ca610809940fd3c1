------------------------ MODULE MCDefaultEnrollments ------------------------
(* Small instances of DefaultEnrollments for TLC.                          *)
EXTENDS DefaultEnrollments, TLC

\* Nothing tells transactions, or intentions, from each other.
Symmetry == Permutations(Transactions) \union Permutations(Intentions)
=============================================================================
