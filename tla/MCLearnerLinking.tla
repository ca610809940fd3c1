-------------------------- MODULE MCLearnerLinking --------------------------
(* Small instances of LearnerLinking for TLC.                              *)
EXTENDS LearnerLinking, TLC

Symmetry == Permutations(Learners) \union Permutations(Customers)
                \union Permutations(Workers)
=============================================================================
