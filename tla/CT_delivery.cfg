SPECIFICATION ScenarioSpec
CONSTANTS
  NoAudit = NoAudit
  NoCatalog = NoCatalog
  Content = {c1, c2}
  Catalogs = {k1, k2}
  MaxPayload = 9
  ChunkSize = 1
  ChunkLimit = 1
  OrphanRemoval = TRUE
  Fallible = {"create", "update", "delete"}
  ErrorStatuses = {"redirect", "fail"}
  MaxVersion = 2
  MaxEdits = 2
  MaxSwaps = 1
  MaxFailures = 2
  MaxAborts = 1
PROPERTIES WantedIsDelivered UnwantedIsRemoved
