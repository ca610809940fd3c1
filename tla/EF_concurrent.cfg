SPECIFICATION Spec
CONSTANTS
  NoRow = NoRow
  Idle = Idle
  Enrollments = {e1}
  Transactions = {t1, t2, t3}
  Licenses = {l1}
  Workers = {w1, w2}
  AuditTrack = {e1}
  Operations = {"enroll", "cancel", "revoke", "expire", "unenroll", "reenroll", "save", "consent"}
  Serial = FALSE
  Overlaps = {}
SYMMETRY Symmetry
INVARIANTS TypeOK 
PROPERTIES KeepsLedger LeavingRevokes
