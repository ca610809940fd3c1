----------------------------- MODULE MCInviteKeys -----------------------------
(* Instances of InviteKeys.                                                *)
EXTENDS InviteKeys, TLC

\* Learners and keys are interchangeable, and only safety is checked.
Symmetry == Permutations(Learners) \union Permutations(Keys)

Joined == {l \in Learners : link[l] # NoRow}

\* Three learners with one key, two with two keys; the number of keys does not
\* depend on who has joined with them.
Scope == KeyCount + Cardinality(Joined) <= 4 \/ Joined = {}
===============================================================================
