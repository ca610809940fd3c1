---------------------- MODULE MCEnterpriseFulfillment ----------------------
(* Small instances of EnterpriseFulfillment for TLC.                       *)
EXTENDS EnterpriseFulfillment, TLC

\* Workers and licenses are interchangeable; so are transactions.
Symmetry == Permutations(Workers) \union Permutations(Transactions)
                \union Permutations(Licenses)
=============================================================================
