SPECIFICATION DefaultsSpec
CONSTANTS
  NoRow = NoRow
  Idle = Idle
  NoIntention = NoIntention
  NoRun = NoRun
  Intentions = {i1, i2}
  Enrollments = {e1}
  Transactions = {t1, t2}
  Licenses = {l1}
  Workers = {w1}
  AuditTrack = {e1}
  Operations = {"enroll", "cancel", "revoke", "expire", "unenroll", "reenroll", "save", "consent"}
  Serial = TRUE
  Overlaps = {}
SYMMETRY Symmetry
INVARIANTS HeldIsEnrolled
PROPERTY LeaverStaysOut
