---------------------------- MODULE MCCatalogSync ----------------------------
(* Instances of CatalogSync.                                               *)
EXTENDS CatalogSync, TLC

\* All of them are interchangeable, and only safety is checked.
Symmetry == Permutations(Catalogs) \union Permutations(Queries)
                \union Permutations(Filters) \union Permutations(Workers)
\* All catalogs have a query, and the same, once one of them may differ.
Followed == {q \in Queries : CatalogsOf(q) # {}}
Scope ==
    \/ missed \union raced = {}
    \/ /\ Cardinality(Followed) <= 1
       /\ Cardinality(missed \union raced) <= 1
       /\ \A c \in Catalogs : catalog[c] # NoRow => catalog[c].query # NoQuery
==============================================================================
