----------------------- MODULE MCContentTransmission -----------------------
(* Small instances of ContentTransmission for TLC.                         *)
EXTENDS ContentTransmission, TLC

\* Items and catalogs are interchangeable in every safety run.
Symmetry == Permutations(Content) \union Permutations(Catalogs)
=============================================================================
