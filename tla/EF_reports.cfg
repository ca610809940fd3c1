SPECIFICATION Spec
CONSTANTS
  NoRow = NoRow
  Idle = Idle
  Enrollments = {e1}
  Transactions = {t1, t2, t3}
  Licenses = {l1}
  Workers = {w1, w2}
  AuditTrack = {}
  Operations = {"enroll", "revoke", "expire", "unenroll", "reenroll", "save", "consent"}
  Serial = FALSE
  Overlaps = {"held"}
SYMMETRY Symmetry
INVARIANT ReportedOnce
