SPECIFICATION Spec
CONSTANTS
  NoQuery = NoQuery
  NoRow = NoRow
  Idle = Idle
  Catalogs = {c1, c2}
  Queries = {q1, q2}
  Filters = {f1, f2}
  Workers = {w1, w2}
SYMMETRY Symmetry
CONSTRAINT Scope
INVARIANTS TypeOK ServiceHasCatalogs CatalogFollowsQuery
