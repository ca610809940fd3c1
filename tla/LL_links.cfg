SPECIFICATION Spec
CONSTANTS
  NoRow = NoRow
  Idle = Idle
  Learners = {p1}
  Customers = {k1, k2}
  Workers = {w1, w2}
SYMMETRY Symmetry
INVARIANTS TypeOK AtMostOneActive RoleMatchesLink
PROPERTY ActiveUntilReplaced
