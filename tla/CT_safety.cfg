SPECIFICATION Spec
CONSTANTS
  NoAudit = NoAudit
  NoCatalog = NoCatalog
  Content = {c1}
  Catalogs = {k1, k2}
  MaxPayload = 9
  ChunkSize = 1
  ChunkLimit = 9
  OrphanRemoval = TRUE
  Fallible = {"delete", "create", "update"}
  ErrorStatuses = {"redirect", "fail"}
  MaxVersion = 3
  MaxEdits = 2
  MaxSwaps = 1
  MaxFailures = 1
  MaxAborts = 1
SYMMETRY Symmetry
INVARIANTS TypeOK UnmarkedInSync ConflictOnlyAfterError
PROPERTIES OrphanResolution MirrorsContent
