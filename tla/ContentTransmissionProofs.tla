--------------------- MODULE ContentTransmissionProofs ---------------------
(* Theorems about ContentTransmission, for every value of its constants.   *)
EXTENDS ContentTransmission, TLAPS

USE BoundAssumption, SettingsAssumption DEF Absent, Versions

-----------------------------------------------------------------------------
(* What the row operators return                                           *)

LEMMA RowTypes ==
    ASSUME NEW r \in AuditRecord, NEW k \in Catalogs, NEW v \in Versions,
           NEW a \in Actions
    PROVE  /\ NewAudit(k, v) \in AuditRecord
           /\ PrepareToRecreate(r, k, v) \in AuditRecord
           /\ MarkFor(r, a) \in AuditRecord
           /\ [r EXCEPT !.catalog = k] \in AuditRecord
           /\ [r EXCEPT !.lastChanged = v, !.catalog = k] \in AuditRecord
           /\ [r EXCEPT !.errored = "old"] \in AuditRecord
  <1>1. NewAudit(k, v) \in AuditRecord
    BY DEF AuditRecord, NewAudit, Actions, Marks, Statuses
  <1>2. PrepareToRecreate(r, k, v) \in AuditRecord
    BY DEF AuditRecord, PrepareToRecreate, Actions, Marks, Statuses
  <1>3. MarkFor(r, a) \in AuditRecord
    BY DEF AuditRecord, MarkFor, Actions, Marks
  <1>4. [r EXCEPT !.catalog = k] \in AuditRecord
    BY DEF AuditRecord
  <1>5. [r EXCEPT !.lastChanged = v, !.catalog = k] \in AuditRecord
    BY DEF AuditRecord
  <1>6. [r EXCEPT !.errored = "old"] \in AuditRecord
    BY DEF AuditRecord
  <1> QED
    BY <1>1, <1>2, <1>3, <1>4, <1>5, <1>6

LEMMA TransmittedType ==
    ASSUME NEW r \in AuditRecord, NEW a \in Actions, NEW s \in Statuses
    PROVE  Transmitted(r, a, s) \in AuditRecord
  BY DEF AuditRecord, Transmitted, Actions, Marks, Statuses

LEMMA CreateItemType ==
    ASSUME NEW r \in AuditRecord \union {NoAudit}, NEW k \in Catalogs, NEW v \in Versions
    PROVE  CreateItem(r, k, v) \in AuditRecord
  <1>1. NewAudit(k, v) \in AuditRecord
    BY DEF AuditRecord, NewAudit, Actions, Marks, Statuses
  <1>2. r # NoAudit => /\ PrepareToRecreate(r, k, v) \in AuditRecord
                       /\ MarkFor(r, "create") \in AuditRecord
    BY RowTypes DEF Actions
  <1> QED
    BY <1>1, <1>2 DEF CreateItem

LEMMA SlicesAreSubsets ==
    ASSUME NEW n, NEW X, NEW S \in Slices(n, X)
    PROVE  S \subseteq X
  BY DEF Slices

-----------------------------------------------------------------------------
(* Type correctness                                                        *)

LEMMA InitType == Init => TypeOK
  <1> SUFFICES ASSUME Init PROVE TypeOK
    OBVIOUS
  <1>1. NoBatch \in [Actions -> SUBSET Content]
    BY DEF NoBatch
  <1>2. NoPayload \in [Actions -> [Content -> AuditRecord \union {NoAudit}]]
    BY DEF NoPayload
  <1>3. NoInflight \in [items : SUBSET Content, status : Statuses]
    BY DEF NoInflight, Statuses
  <1> QED
    BY <1>1, <1>2, <1>3 DEF Init, TypeOK

\* Leaving a run restores the process variables to values of their types.
LEMMA EndRunType ==
    ASSUME EndRun
    PROVE  /\ pc' = "idle" /\ todo' \subseteq Catalogs /\ current' \in Catalogs \union {NoCatalog}
           /\ batch' \in [Actions -> SUBSET Content]
           /\ payload' \in [Actions -> [Content -> AuditRecord \union {NoAudit}]]
           /\ inflight' \in [items : SUBSET Content, status : Statuses]
           /\ chunksLeft' \in 0..ChunkLimit /\ removed' \subseteq Content
  BY DEF EndRun, NoBatch, NoPayload, NoInflight, Statuses

\* Which process variables are in use in which phase of a run.
PhaseOK ==
    /\ pc = "idle" => payload = NoPayload
    /\ pc = "metadata" => current \in Catalogs \ todo
    /\ pc # "metadata" => batch = NoBatch
    /\ pc \notin Actions => inflight.items = {}

\* Every row the run, the orphan table or the orphan task refers to exists.
RowsExist ==
    /\ \A c \in Content : orphan[c] # "none" => audit[c] # NoAudit
    /\ \A c \in candidates : audit[c] # NoAudit
    /\ \A a \in Actions : \A c \in batch[a] : audit[c] # NoAudit
    /\ inflight.items # {} => pc \in Actions
    /\ \A c \in inflight.items : payload[pc][c] # NoAudit

TypeInvariant == TypeOK /\ RowsExist

LEMMA InitInvariant == Init => TypeInvariant
  BY InitType DEF Init, TypeInvariant, RowsExist, NoBatch, NoInflight

\* The rows _get_catalog_diff writes for a catalog.
LEMMA WriteDiffType ==
    ASSUME TypeInvariant, NEW k \in Catalogs, NEW S \in SUBSET Content,
           NEW U \in SUBSET Updates(k), NEW D \in SUBSET Deletes(k),
           WriteDiff(k, S, U, D)
    PROVE  /\ audit' \in [Content -> AuditRecord \union {NoAudit}]
           /\ orphan' \in [Content -> {"none", "open", "resolved"}]
           /\ \A c \in Content : audit[c] # NoAudit => audit'[c] # NoAudit
           /\ \A c \in S : audit'[c] # NoAudit
           /\ \A c \in Content : orphan'[c] # "none" => audit'[c] # NoAudit
  <1> USE DEF TypeInvariant, TypeOK, RowsExist
  <1> DEFINE row(c) == CASE c \in Adopted(k) -> [audit[c] EXCEPT !.catalog = k]
                         [] c \in S -> CreateItem(audit[c], k, version[c])
                         [] c \in U -> MarkFor(audit[c], "update")
                         [] c \in D -> MarkFor(audit[c], "delete")
                         [] OTHER -> audit[c]
  <1>1. audit' = [c \in Content |-> row(c)]
    BY DEF WriteDiff
  <1>2. ASSUME NEW c \in Content
        PROVE  /\ row(c) \in AuditRecord \union {NoAudit}
               /\ audit[c] # NoAudit \/ c \in S => row(c) \in AuditRecord
    <2>1. c \in Adopted(k) => audit[c] \in AuditRecord
      BY DEF Adopted
    <2>2. c \in U \/ c \in D => audit[c] \in AuditRecord
      BY DEF Updates, Deletes, Matched, ToDelete, ContentKeys, ExistingKeys, Audited
    <2>3. c \in Adopted(k) => [audit[c] EXCEPT !.catalog = k] \in AuditRecord
      BY <2>1, RowTypes DEF Actions
    <2>4. CreateItem(audit[c], k, version[c]) \in AuditRecord
      BY CreateItemType
    <2>5. c \in U \/ c \in D =>
            MarkFor(audit[c], "update") \in AuditRecord /\ MarkFor(audit[c], "delete") \in AuditRecord
      BY <2>2, RowTypes DEF Actions
    <2> QED
      BY <2>3, <2>4, <2>5
  <1> HIDE DEF row
  <1>3. \A c \in Content : audit'[c] = row(c)
    BY <1>1
  <1>4. audit' \in [Content -> AuditRecord \union {NoAudit}]
    BY <1>1, <1>2
  <1>5. \A c \in Content : audit[c] # NoAudit \/ c \in S => audit'[c] # NoAudit
    BY <1>2, <1>3, NoAuditAssumption
  <1>6. orphan' \in [Content -> {"none", "open", "resolved"}]
    BY DEF WriteDiff
  <1>7. \A c \in Content : orphan'[c] # "none" => orphan[c] # "none"
    BY DEF WriteDiff, Adopted
  <1> QED
    BY <1>4, <1>5, <1>6, <1>7

\* Described items are in the batch, so they have rows, with or without their
\* new metadata.
LEMMA DescribedType ==
    ASSUME TypeInvariant, current \in Catalogs, NEW c \in Described
    PROVE  c \in Content /\ audit[c] \in AuditRecord /\ WithMetadata(c) \in AuditRecord
  <1>1. c \in Content /\ audit[c] \in AuditRecord
    BY DEF Described, TypeInvariant, TypeOK, RowsExist, Actions
  <1>2. version[c] \in Versions
    BY <1>1 DEF TypeInvariant, TypeOK
  <1> QED
    BY <1>1, <1>2 DEF WithMetadata, AuditRecord

LEMMA TypeStep == TypeInvariant /\ PhaseOK /\ [Next]_vars => TypeInvariant'
  <1> SUFFICES ASSUME TypeInvariant, PhaseOK, [Next]_vars PROVE TypeInvariant'
    OBVIOUS
  <1> USE DEF TypeInvariant
  <1>1. CASE StartRun
    BY <1>1 DEF StartRun, TypeOK, RowsExist, service, counters, Actions
  <1>2. ASSUME NEW k \in Catalogs, ExportDiff(k) PROVE TypeInvariant'
    <2>1. PICK C \in SUBSET Fresh(k), U \in SUBSET Updates(k), D \in SUBSET Deletes(k) :
            batch' = [create |-> C, update |-> U, delete |-> D]
      BY <1>2 DEF ExportDiff, Slices
    <2>2. /\ Fresh(k) \in SUBSET Content
          /\ Updates(k) \in SUBSET Content /\ Deletes(k) \in SUBSET Content
          /\ \A c \in Updates(k) \union Deletes(k) : audit[c] # NoAudit
      BY DEF Fresh, Updates, Deletes, Matched, ToDelete, ToCreate, ContentKeys, ExistingKeys, Audited, TypeOK
    <2>3. /\ audit' \in [Content -> AuditRecord \union {NoAudit}]
          /\ orphan' \in [Content -> {"none", "open", "resolved"}]
          /\ \A c \in Content : audit[c] # NoAudit => audit'[c] # NoAudit
          /\ \A c \in Fresh(k) : audit'[c] # NoAudit
          /\ \A c \in Content : orphan'[c] # "none" => audit'[c] # NoAudit
      <3>1. WriteDiff(k, Fresh(k), Updates(k), Deletes(k))
        BY <1>2 DEF ExportDiff
      <3> QED
        BY <3>1, <2>2, WriteDiffType
    <2>4. batch' \in [Actions -> SUBSET Content]
      BY <2>1, <2>2 DEF Actions
    <2>5. \A a \in Actions : \A c \in batch'[a] : audit'[c] # NoAudit
      BY <2>1, <2>2, <2>3 DEF Actions
    <2>6. TypeOK'
      BY <1>2, <2>3, <2>4 DEF ExportDiff, TypeOK, service, counters
    <2>7. inflight.items = {}
      BY <1>2 DEF ExportDiff, RowsExist, Actions
    <2>8. RowsExist'
      BY <1>2, <2>3, <2>5, <2>7 DEF ExportDiff, RowsExist, TypeOK
    <2> QED
      BY <2>6, <2>8
  <1>3. ASSUME NEW k \in Catalogs, ExportConflict(k) PROVE TypeInvariant'
    <2>1. PICK S \in SUBSET Fresh(k) : WriteDiff(k, S, {}, {})
      BY <1>3 DEF ExportConflict
    <2>2. S \in SUBSET Content
      BY DEF Fresh, ToCreate, TypeOK
    <2>3. /\ audit' \in [Content -> AuditRecord \union {NoAudit}]
          /\ orphan' \in [Content -> {"none", "open", "resolved"}]
          /\ \A c \in Content : audit[c] # NoAudit => audit'[c] # NoAudit
          /\ \A c \in Content : orphan'[c] # "none" => audit'[c] # NoAudit
      BY <2>1, <2>2, WriteDiffType
    <2>4. EndRun
      BY <1>3 DEF ExportConflict
    <2>5. TypeOK'
      BY <1>3, <2>3, <2>4, EndRunType DEF ExportConflict, TypeOK, service, counters
    <2>6. RowsExist'
      BY <1>3, <2>3, <2>4 DEF ExportConflict, RowsExist, EndRun, NoBatch, NoInflight, TypeOK
    <2> QED
      BY <2>5, <2>6
  <1>4. CASE ExportMetadata
    <2>1. current \in Catalogs
      BY <1>4 DEF ExportMetadata, PhaseOK
    <2>2. /\ audit' \in [Content -> AuditRecord \union {NoAudit}]
          /\ \A c \in Content : audit[c] # NoAudit => audit'[c] # NoAudit
      BY <1>4, <2>1, DescribedType, NoAuditAssumption DEF ExportMetadata, TypeOK
    <2>3. payload' \in [Actions -> [Content -> AuditRecord \union {NoAudit}]]
      BY <1>4, <2>2 DEF ExportMetadata, TypeOK
    <2>4. batch' \in [Actions -> SUBSET Content] /\ \A a \in Actions : batch'[a] = {}
      BY <1>4 DEF ExportMetadata, NoBatch
    <2>5. TypeOK'
      BY <1>4, <2>2, <2>3, <2>4 DEF ExportMetadata, TypeOK, service, counters
    <2>6. inflight.items = {}
      BY <1>4 DEF ExportMetadata, RowsExist, Actions
    <2>7. RowsExist'
      BY <1>4, <2>2, <2>4, <2>6 DEF ExportMetadata, RowsExist, TypeOK
    <2> QED
      BY <2>5, <2>7
  <1>5. CASE ExportMetadataMissing
    <2>1. current \in Catalogs
      BY <1>5 DEF ExportMetadataMissing, PhaseOK
    <2>2. /\ audit' \in [Content -> AuditRecord \union {NoAudit}]
          /\ \A c \in Content : audit[c] # NoAudit => audit'[c] # NoAudit
      BY <1>5, <2>1, DescribedType, NoAuditAssumption DEF ExportMetadataMissing, TypeOK
    <2>3. EndRun
      BY <1>5 DEF ExportMetadataMissing
    <2>4. TypeOK'
      BY <1>5, <2>2, <2>3, EndRunType DEF ExportMetadataMissing, TypeOK, service, counters
    <2>5. RowsExist'
      BY <1>5, <2>2, <2>3 DEF ExportMetadataMissing, RowsExist, EndRun, NoBatch, NoInflight, TypeOK
    <2> QED
      BY <2>4, <2>5
  <1>6. CASE CollectOrphans
    <2>1. payload' \in [Actions -> [Content -> AuditRecord \union {NoAudit}]]
      <3>1. PICK S \in SUBSET Content :
              payload' = IF OrphanRemoval
                         THEN [payload EXCEPT !["delete"] = [c \in Content |->
                                 IF c \in S THEN audit[c] ELSE payload["delete"][c]]]
                         ELSE payload
        BY <1>6 DEF CollectOrphans, Slices
      <3>2. [c \in Content |-> IF c \in S THEN audit[c] ELSE payload["delete"][c]]
              \in [Content -> AuditRecord \union {NoAudit}]
        BY DEF TypeOK, Actions
      <3> QED
        BY <3>1, <3>2 DEF TypeOK
    <2>2. TypeOK'
      BY <1>6, <2>1 DEF CollectOrphans, TypeOK, service, counters, Actions
    <2>3. inflight.items = {}
      BY <1>6 DEF CollectOrphans, RowsExist, Actions
    <2>4. RowsExist'
      BY <1>6, <2>3 DEF CollectOrphans, RowsExist, TypeOK
    <2> QED
      BY <2>2, <2>4
  <1>7. CASE Send
    <2>1. PICK S \in SUBSET InPayload(pc), s \in {"ok"} \union ErrorStatuses :
            inflight' = [items |-> S, status |-> s]
      BY <1>7 DEF Send, Slices
    <2>2. inflight' \in [items : SUBSET Content, status : Statuses]
      BY <2>1 DEF InPayload, Statuses
    <2>3. remote' \in [Content -> 0..MaxVersion]
      <3>1. \A c \in InPayload(pc) : payload[pc][c].lastChanged \in Versions
        BY <1>7 DEF Send, InPayload, TypeOK, AuditRecord
      <3> QED
        BY <1>7, <3>1 DEF Send, Slices, TypeOK
    <2>4. failures' \in 0..MaxFailures /\ chunksLeft' \in 0..ChunkLimit
      BY <1>7 DEF Send, TypeOK
    <2>5. TypeOK'
      BY <1>7, <2>2, <2>3, <2>4 DEF Send, TypeOK, service
    <2>6. RowsExist'
      BY <1>7, <2>1 DEF Send, RowsExist, InPayload
    <2> QED
      BY <2>5, <2>6
  <1>8. ASSUME NEW c \in Content, SaveResult(c) PROVE TypeInvariant'
    <2>1. pc \in Actions /\ payload[pc][c] \in AuditRecord
      BY <1>8 DEF SaveResult, RowsExist, TypeOK
    <2>2. Transmitted(payload[pc][c], pc, inflight.status) \in AuditRecord
      <3>1. inflight.status \in Statuses
        BY DEF TypeOK
      <3> QED
        BY <2>1, <3>1, TransmittedType
    <2>3. /\ audit' \in [Content -> AuditRecord \union {NoAudit}]
          /\ \A d \in Content : audit[d] # NoAudit => audit'[d] # NoAudit
      BY <1>8, <2>2, NoAuditAssumption DEF SaveResult, TypeOK
    <2>4. payload' \in [Actions -> [Content -> AuditRecord \union {NoAudit}]]
      BY <1>8, <2>1 DEF SaveResult, TypeOK
    <2>5. inflight' \in [items : SUBSET Content, status : Statuses] /\ removed' \subseteq Content
      BY <1>8 DEF SaveResult, SuccessfulRemoval, TypeOK
    <2>6. TypeOK'
      BY <1>8, <2>3, <2>4, <2>5 DEF SaveResult, TypeOK, service, counters
    <2>7. inflight'.items = inflight.items \ {c}
      BY <1>8 DEF SaveResult, TypeOK
    <2>8. \A d \in inflight'.items : payload'[pc][d] # NoAudit
      BY <1>8, <2>1, <2>7 DEF SaveResult, RowsExist, TypeOK
    <2>9. RowsExist'
      BY <1>8, <2>1, <2>3, <2>8 DEF SaveResult, RowsExist, TypeOK
    <2> QED
      BY <2>6, <2>9
  <1>9. CASE FinishAction
    <2>1. orphan' \in [Content -> {"none", "open", "resolved"}]
      BY <1>9 DEF FinishAction, TypeOK
    <2>2. \A c \in Content : orphan'[c] # "none" => orphan[c] # "none"
      BY <1>9 DEF FinishAction, TypeOK
    <2>3. CASE pc = "update"
      <3>1. EndRun
        BY <1>9, <2>3 DEF FinishAction
      <3>2. TypeOK'
        BY <1>9, <2>1, <3>1, EndRunType DEF FinishAction, TypeOK, service, counters
      <3>3. RowsExist'
        BY <1>9, <2>2, <3>1 DEF FinishAction, RowsExist, EndRun, NoBatch, NoInflight, TypeOK
      <3> QED
        BY <3>2, <3>3
    <2>4. CASE pc # "update"
      <3>1. /\ pc' \in Actions /\ inflight' = NoInflight
            /\ payload' = [payload EXCEPT ![pc] = NoPayload[pc]]
            /\ chunksLeft' = ChunkLimit /\ removed' = {}
            /\ UNCHANGED <<todo, current, batch>>
        BY <1>9, <2>4 DEF FinishAction, Actions
      <3>2. payload' \in [Actions -> [Content -> AuditRecord \union {NoAudit}]]
        BY <3>1 DEF NoPayload, TypeOK
      <3>3. TypeOK'
        BY <1>9, <2>1, <3>1, <3>2 DEF FinishAction, TypeOK, service, counters, NoInflight, Statuses
      <3>4. RowsExist'
        BY <1>9, <2>2, <3>1 DEF FinishAction, RowsExist, NoInflight, TypeOK
      <3> QED
        BY <3>3, <3>4
    <2> QED
      BY <2>3, <2>4
  <1>10. CASE Abort
    <2>1. EndRun
      BY <1>10 DEF Abort
    <2>2. TypeOK'
      BY <1>10, <2>1, EndRunType DEF Abort, TypeOK, service
    <2>3. RowsExist'
      BY <1>10, <2>1 DEF Abort, RowsExist, EndRun, NoBatch, NoInflight
    <2> QED
      BY <2>2, <2>3
  <1>11. CASE OrphanTask
    <2>1. CASE FetchOrphans
      BY <2>1 DEF FetchOrphans, TypeOK, RowsExist, OrphanedAudits, Audited, service, run, counters
    <2>2. ASSUME NEW c \in Content, MarkOrphan(c) PROVE TypeInvariant'
      BY <2>2 DEF MarkOrphan, GetOrCreate, TypeOK, RowsExist, service, run, counters
    <2> QED
      BY <1>11, <2>1, <2>2 DEF OrphanTask
  <1>12. CASE Environment
    <2>1. ASSUME NEW k \in Catalogs, NEW c \in Content, EditCatalog(k, c) PROVE TypeInvariant'
      BY <2>1 DEF EditCatalog, TypeOK, RowsExist, run
    <2>2. ASSUME NEW c \in Content, Publish(c) PROVE TypeInvariant'
      BY <2>2 DEF Publish, TypeOK, RowsExist, run, counters
    <2>3. ASSUME NEW L \in SUBSET Catalogs, SetCatalogs(L) PROVE TypeInvariant'
      BY <2>3 DEF SetCatalogs, TypeOK, RowsExist, run
    <2>4. ASSUME NEW c \in Content, AgeError(c) PROVE TypeInvariant'
      <3>1. [audit[c] EXCEPT !.errored = "old"] \in AuditRecord
        BY <2>4 DEF AgeError, Audited, TypeOK, AuditRecord
      <3> QED
        BY <2>4, <3>1, NoAuditAssumption DEF AgeError, TypeOK, RowsExist, service, run, counters
    <2> QED
      BY <1>12, <2>1, <2>2, <2>3, <2>4 DEF Environment
  <1>13. CASE UNCHANGED vars
    BY <1>13 DEF vars, service, run, counters, TypeOK, RowsExist
  <1> QED
    BY <1>1, <1>2, <1>3, <1>4, <1>5, <1>6, <1>7, <1>8, <1>9, <1>10, <1>11, <1>12, <1>13 DEF Next, Run

LEMMA PhaseStep == TypeInvariant /\ PhaseOK /\ [Next]_vars => PhaseOK'
  <1> SUFFICES ASSUME TypeInvariant, PhaseOK, [Next]_vars PROVE PhaseOK'
    OBVIOUS
  <1>1. EndRun => PhaseOK'
    BY DEF EndRun, PhaseOK, NoInflight
  <1>2. CASE StartRun
    BY <1>2 DEF StartRun, PhaseOK, Actions
  <1>3. ASSUME NEW k \in Catalogs, ExportDiff(k) PROVE PhaseOK'
    BY <1>3 DEF ExportDiff, PhaseOK, Actions
  <1>4. ASSUME NEW k \in Catalogs, ExportConflict(k) PROVE PhaseOK'
    BY <1>1, <1>4 DEF ExportConflict
  <1>5. CASE ExportMetadata
    BY <1>5 DEF ExportMetadata, PhaseOK, Actions
  <1>6. CASE ExportMetadataMissing
    BY <1>1, <1>6 DEF ExportMetadataMissing
  <1>7. CASE CollectOrphans
    BY <1>7 DEF CollectOrphans, PhaseOK, Actions
  <1>8. CASE Send
    BY <1>8 DEF Send, PhaseOK, Actions
  <1>9. ASSUME NEW c \in Content, SaveResult(c) PROVE PhaseOK'
    <2>1. pc \in Actions
      BY <1>9 DEF SaveResult, PhaseOK
    <2> QED
      BY <1>9, <2>1 DEF SaveResult, PhaseOK, Actions
  <1>10. CASE FinishAction
    BY <1>1, <1>10 DEF FinishAction, PhaseOK, Actions
  <1>11. CASE Abort
    BY <1>1, <1>11 DEF Abort
  <1>12. CASE OrphanTask
    BY <1>12 DEF OrphanTask, FetchOrphans, MarkOrphan, PhaseOK, run
  <1>13. CASE Environment
    BY <1>13 DEF Environment, EditCatalog, Publish, SetCatalogs, AgeError, PhaseOK, run
  <1>14. CASE UNCHANGED vars
    BY <1>14 DEF vars, run, PhaseOK
  <1> QED
    BY <1>2, <1>3, <1>4, <1>5, <1>6, <1>7, <1>8, <1>9, <1>10, <1>11, <1>12, <1>13, <1>14
       DEF Next, Run

\* Type correctness: whatever the catalogs, limits and settings, the tables
\* and the memory of a run hold values of their types, and a run never writes
\* a row it does not have.
THEOREM TypeCorrect == Spec => []TypeOK
  <1>1. Init => TypeInvariant /\ PhaseOK
    BY InitInvariant DEF Init, PhaseOK, NoInflight, Actions
  <1>2. TypeInvariant /\ PhaseOK /\ [Next]_vars => (TypeInvariant /\ PhaseOK)'
    BY TypeStep, PhaseStep
  <1>3. TypeInvariant /\ PhaseOK => TypeOK
    BY DEF TypeInvariant
  <1> QED
    BY <1>1, <1>2, <1>3, PTL DEF Spec

-----------------------------------------------------------------------------
(* The inductive invariant of UnmarkedInSync.  It speaks of the items that *)
(* never had an orphan row: for an orphan the delete payload holds a       *)
(* second in-memory copy of the row, which the others need not agree with. *)

Free(c) == orphan[c] = "none"

\* In-memory rows agree with the table and carry the mark of their action;
\* so an item is in the payload of at most one action.
CopiesAgree ==
    \A c \in Content : \A a \in Actions :
        Free(c) /\ payload[a][c] # NoAudit =>
            /\ payload[a][c] = audit[c] /\ audit[c].marked = a
            /\ a # "delete" => ~audit[c].deleted

BatchAgrees ==
    \A a \in Actions : \A c \in batch[a] :
        Free(c) => /\ audit[c] # NoAudit /\ audit[c].marked = a
                   /\ a # "delete" => ~audit[c].deleted

\* What an export has selected so far is not selected again by the catalogs
\* it has still to visit, except to be created twice over.
ExportAgrees ==
    pc \in {"diff", "metadata"} =>
        \A c \in Content : \A a \in Actions :
            Free(c) /\ (payload[a][c] # NoAudit \/ c \in batch[a]) =>
                IF a = "create" THEN ~OnRemote(audit[c])
                ELSE OnRemote(audit[c]) /\ audit[c].catalog \notin todo

InflightAgrees ==
    \A c \in inflight.items :
        /\ payload[pc][c] # NoAudit
        /\ Free(c) /\ inflight.status = "ok" =>
             remote[c] = IF pc = "delete" THEN Absent ELSE payload[pc][c].lastChanged

SyncInvariant ==
    /\ TypeInvariant /\ PhaseOK /\ UnmarkedInSync /\ CopiesAgree /\ BatchAgrees
    /\ ExportAgrees /\ InflightAgrees

Agreement == CopiesAgree /\ BatchAgrees /\ ExportAgrees /\ InflightAgrees

\* What marking a row leaves alone.
LEMMA MarkedRow ==
    ASSUME NEW r \in AuditRecord, NEW a \in Actions
    PROVE  /\ MarkFor(r, a).marked = a
           /\ MarkFor(r, a).deleted = r.deleted
           /\ MarkFor(r, a).catalog = r.catalog
           /\ OnRemote(MarkFor(r, a)) <=> OnRemote(r)
           /\ r.marked = a => MarkFor(r, a) = r
  <1>1. /\ MarkFor(r, a).marked = a
        /\ MarkFor(r, a).deleted = r.deleted
        /\ MarkFor(r, a).catalog = r.catalog
        /\ MarkFor(r, a).created = r.created
        /\ MarkFor(r, a).updated = r.updated
        /\ MarkFor(r, a).status = r.status
    BY DEF MarkFor, AuditRecord
  <1>2. r.marked = a => MarkFor(r, a) = r
    BY DEF MarkFor, AuditRecord
  <1> QED
    BY <1>1, <1>2 DEF OnRemote

\* What new metadata leaves alone.
LEMMA DescribedRow ==
    ASSUME NEW c \in Content, audit[c] \in AuditRecord
    PROVE  /\ WithMetadata(c).marked = audit[c].marked
           /\ WithMetadata(c).deleted = audit[c].deleted
           /\ WithMetadata(c).catalog = current
           /\ OnRemote(WithMetadata(c)) <=> OnRemote(audit[c])
  <1>1. /\ WithMetadata(c).marked = audit[c].marked
        /\ WithMetadata(c).deleted = audit[c].deleted
        /\ WithMetadata(c).catalog = current
        /\ WithMetadata(c).created = audit[c].created
        /\ WithMetadata(c).updated = audit[c].updated
        /\ WithMetadata(c).status = audit[c].status
    BY DEF WithMetadata, AuditRecord
  <1> QED
    BY <1>1 DEF OnRemote

\* The row a create leaves when its insert does not collide.
LEMMA CreatedRow ==
    ASSUME NEW r \in AuditRecord \union {NoAudit}, NEW k \in Catalogs, NEW v \in Versions,
           ~InsertConflict(r)
    PROVE  /\ CreateItem(r, k, v).marked = "create"
           /\ ~CreateItem(r, k, v).deleted
           /\ (r # NoAudit => ~OnRemote(r)) => ~OnRemote(CreateItem(r, k, v))
  <1>1. CASE r = NoAudit
    <2>1. CreateItem(r, k, v) = NewAudit(k, v)
      BY <1>1 DEF CreateItem
    <2> QED
      BY <2>1 DEF NewAudit, OnRemote
  <1>2. CASE r # NoAudit /\ DeletedTransmission(r)
    <2>1. CreateItem(r, k, v) = PrepareToRecreate(r, k, v)
      BY <1>2 DEF CreateItem
    <2>2. /\ PrepareToRecreate(r, k, v).marked = "create"
          /\ PrepareToRecreate(r, k, v).deleted = FALSE
          /\ PrepareToRecreate(r, k, v).created = FALSE
      BY <1>2 DEF PrepareToRecreate, AuditRecord
    <2> QED
      BY <2>1, <2>2 DEF OnRemote
  <1>3. CASE r # NoAudit /\ ~DeletedTransmission(r)
    <2>1. CreateItem(r, k, v) = MarkFor(r, "create")
      BY <1>3 DEF CreateItem
    <2>2. r \in AuditRecord /\ ~r.deleted
      BY <1>3 DEF InsertConflict, IncompleteCreate
    <2>3. /\ MarkFor(r, "create").marked = "create"
          /\ MarkFor(r, "create").deleted = r.deleted
          /\ OnRemote(MarkFor(r, "create")) <=> OnRemote(r)
      BY <2>2, MarkedRow DEF Actions
    <2> QED
      BY <1>3, <2>1, <2>2, <2>3
  <1> QED
    BY <1>1, <1>2, <1>3

\* Without changes to the tables and the memory of the run, except that more
\* items get orphan rows, nothing to agree on changes.
LEMMA FrameAgreement ==
    ASSUME UnmarkedInSync, Agreement,
           UNCHANGED <<audit, payload, batch, remote, inflight, pc, todo>>,
           \A c \in Content : Free(c)' => Free(c),
           batch \in [Actions -> SUBSET Content], inflight.items \subseteq Content
    PROVE  UnmarkedInSync' /\ Agreement'
  <1>1. UnmarkedInSync'
    BY DEF UnmarkedInSync, Audited, Free
  <1>2. CopiesAgree'
    BY DEF Agreement, CopiesAgree
  <1>3. BatchAgrees'
    BY DEF Agreement, BatchAgrees
  <1>4. ExportAgrees'
    BY DEF Agreement, ExportAgrees, OnRemote
  <1>5. InflightAgrees'
    BY DEF Agreement, InflightAgrees
  <1> QED
    BY <1>1, <1>2, <1>3, <1>4, <1>5 DEF Agreement

\* A run that has ended holds nothing that could disagree.
LEMMA EndRunAgreement == EndRun => Agreement'
  <1> SUFFICES ASSUME EndRun PROVE Agreement'
    OBVIOUS
  <1>1. pc' = "idle" /\ batch' = NoBatch /\ payload' = NoPayload /\ inflight'.items = {}
    BY DEF EndRun, NoInflight
  <1>2. CopiesAgree'
    BY <1>1 DEF CopiesAgree, NoPayload
  <1>3. BatchAgrees'
    BY <1>1 DEF BatchAgrees, NoBatch
  <1>4. ExportAgrees' /\ InflightAgrees'
    BY <1>1 DEF ExportAgrees, InflightAgrees
  <1> QED
    BY <1>2, <1>3, <1>4 DEF Agreement

\* The rows of free items after the diff of one catalog.
LEMMA DiffRows ==
    ASSUME TypeInvariant, NEW k \in Catalogs,
           NEW S \in SUBSET Fresh(k), NEW U \in SUBSET Updates(k), NEW D \in SUBSET Deletes(k),
           \A c \in S : ~InsertConflict(audit[c]),
           WriteDiff(k, S, U, D), NEW c \in Content, Free(c)'
    PROVE  /\ Free(c)
           /\ c \in S => audit'[c] = CreateItem(audit[c], k, version[c])
           /\ c \in U => audit'[c] = MarkFor(audit[c], "update")
           /\ c \in D => audit'[c] = MarkFor(audit[c], "delete")
           /\ c \notin S \union U \union D => audit'[c] = audit[c]
  <1>1. c \notin Adopted(k)
    BY DEF WriteDiff, Free
  <1>2. Free(c)
    BY <1>1 DEF WriteDiff, Free
  <1>3. /\ c \in S => c \notin U \union D
        /\ c \in U => c \notin S \union D
        /\ c \in D => c \notin S \union U
    BY DEF Fresh, Updates, Deletes, ToCreate, ToDelete, Matched
  <1>4. audit'[c] = CASE c \in Adopted(k) -> [audit[c] EXCEPT !.catalog = k]
                      [] c \in S -> CreateItem(audit[c], k, version[c])
                      [] c \in U -> MarkFor(audit[c], "update")
                      [] c \in D -> MarkFor(audit[c], "delete")
                      [] OTHER -> audit[c]
    BY DEF WriteDiff
  <1> QED
    BY <1>1, <1>2, <1>3, <1>4

\* The diff marks every row it writes, apart from those it adopts.
LEMMA DiffInSync ==
    ASSUME TypeInvariant, UnmarkedInSync, UNCHANGED remote, NEW k \in Catalogs,
           NEW S \in SUBSET Fresh(k), NEW U \in SUBSET Updates(k), NEW D \in SUBSET Deletes(k),
           \A c \in S : ~InsertConflict(audit[c]),
           WriteDiff(k, S, U, D)
    PROVE  UnmarkedInSync'
  <1> SUFFICES ASSUME NEW c \in Content, audit'[c] # NoAudit, audit'[c].marked = "none",
                      audit'[c].errored = "no", Free(c)'
               PROVE  remote'[c] = IF audit'[c].deleted THEN Absent ELSE audit'[c].lastChanged
    BY DEF UnmarkedInSync, Audited, Free
  <1>1. /\ Free(c)
        /\ c \in S => audit'[c] = CreateItem(audit[c], k, version[c])
        /\ c \in U => audit'[c] = MarkFor(audit[c], "update")
        /\ c \in D => audit'[c] = MarkFor(audit[c], "delete")
        /\ c \notin S \union U \union D => audit'[c] = audit[c]
    BY DiffRows
  <1>2. CASE c \in S
    <2>1. audit[c] \in AuditRecord \union {NoAudit} /\ version[c] \in Versions
      BY DEF TypeInvariant, TypeOK
    <2>2. CreateItem(audit[c], k, version[c]).marked = "create"
      BY <1>2, <2>1, CreatedRow
    <2> QED
      BY <1>1, <1>2, <2>2
  <1>3. CASE c \in U \union D
    <2>1. audit[c] \in AuditRecord
      BY <1>3 DEF Updates, Deletes, Matched, ToDelete, ContentKeys, ExistingKeys, Audited,
                  TypeInvariant, TypeOK
    <2>2. MarkFor(audit[c], "update").marked = "update" /\ MarkFor(audit[c], "delete").marked = "delete"
      BY <2>1, MarkedRow DEF Actions
    <2> QED
      BY <1>1, <1>3, <2>2
  <1>4. CASE c \notin S \union U \union D
    BY <1>1, <1>4 DEF UnmarkedInSync, Audited, Free
  <1> QED
    BY <1>2, <1>3, <1>4

\* An export of one catalog keeps the memory of the run and the table in step.
LEMMA DiffAgreement ==
    ASSUME SyncInvariant, NEW k \in Catalogs, ExportDiff(k)
    PROVE  Agreement'
  <1>1. PICK C \in SUBSET Fresh(k), U \in SUBSET Updates(k), D \in SUBSET Deletes(k) :
          batch' = [create |-> C, update |-> U, delete |-> D]
    BY DEF ExportDiff, Slices
  <1>2. /\ pc = "diff" /\ k \in todo /\ todo' = todo \ {k} /\ pc' = "metadata"
        /\ UNCHANGED <<payload, inflight, remote>>
        /\ \A c \in Fresh(k) : ~InsertConflict(audit[c])
        /\ WriteDiff(k, Fresh(k), Updates(k), Deletes(k))
    BY DEF ExportDiff
  <1>3. TypeInvariant /\ PhaseOK /\ CopiesAgree /\ ExportAgrees
    BY DEF SyncInvariant
  <1>4. ASSUME NEW c \in Content, Free(c)'
        PROVE  /\ Free(c)
               /\ c \in Fresh(k) => audit'[c] = CreateItem(audit[c], k, version[c])
               /\ c \in Updates(k) => audit'[c] = MarkFor(audit[c], "update")
               /\ c \in Deletes(k) => audit'[c] = MarkFor(audit[c], "delete")
               /\ c \notin Fresh(k) \union Updates(k) \union Deletes(k) => audit'[c] = audit[c]
    <2>1. Fresh(k) \in SUBSET Fresh(k) /\ Updates(k) \in SUBSET Updates(k)
            /\ Deletes(k) \in SUBSET Deletes(k)
      OBVIOUS
    <2> QED
      BY <1>2, <1>3, <1>4, <2>1, DiffRows
  \* Rows in the payload are not written, or written as they are.
  <1>5. ASSUME NEW c \in Content, NEW a \in Actions, Free(c)', payload[a][c] # NoAudit
        PROVE  audit'[c] = audit[c]
    <2>1. /\ Free(c) /\ payload[a][c] = audit[c] /\ audit[c].marked = a /\ audit[c] \in AuditRecord
          /\ a # "delete" => ~audit[c].deleted
          /\ IF a = "create" THEN ~OnRemote(audit[c])
             ELSE OnRemote(audit[c]) /\ audit[c].catalog # k
      BY <1>2, <1>3, <1>4, <1>5 DEF CopiesAgree, ExportAgrees, TypeInvariant, TypeOK
    <2>2. c \notin Updates(k) \union Deletes(k)
      BY <2>1 DEF Updates, Deletes, Matched, ToDelete, ContentKeys, ExistingKeys
    <2>3. CASE a = "create"
      <3>1. CreateItem(audit[c], k, version[c]) = MarkFor(audit[c], "create")
        BY <2>1, <2>3, NoAuditAssumption DEF CreateItem, DeletedTransmission
      <3>2. MarkFor(audit[c], "create") = audit[c]
        BY <2>1, <2>3, MarkedRow
      <3> QED
        BY <1>4, <1>5, <2>2, <3>1, <3>2
    <2>4. CASE a # "create"
      <3>1. c \notin Fresh(k)
        BY <2>1, <2>4, NoAuditAssumption DEF Fresh, ExistingKeys, Audited
      <3> QED
        BY <1>4, <1>5, <2>2, <3>1
    <2> QED
      BY <2>3, <2>4
  \* Rows selected now carry the mark of their action.
  <1>6. ASSUME NEW c \in C, Free(c)'
        PROVE  /\ c \in Content /\ audit'[c] # NoAudit /\ audit'[c].marked = "create"
               /\ ~audit'[c].deleted /\ ~OnRemote(audit'[c])
    <2>1. /\ c \in Content /\ audit[c] \in AuditRecord \union {NoAudit} /\ version[c] \in Versions
          /\ ~InsertConflict(audit[c]) /\ (audit[c] # NoAudit => ~OnRemote(audit[c]))
      BY <1>2, <1>3 DEF Fresh, ToCreate, ExistingKeys, Audited, TypeInvariant, TypeOK
    <2>2. audit'[c] = CreateItem(audit[c], k, version[c])
      BY <1>4, <1>6, <2>1
    <2>3. CreateItem(audit[c], k, version[c]) \in AuditRecord
      BY <2>1, CreateItemType
    <2>4. /\ CreateItem(audit[c], k, version[c]).marked = "create"
          /\ ~CreateItem(audit[c], k, version[c]).deleted
          /\ ~OnRemote(CreateItem(audit[c], k, version[c]))
      BY <2>1, CreatedRow
    <2> QED
      BY <2>1, <2>2, <2>3, <2>4, NoAuditAssumption
  <1>7. ASSUME NEW c \in U \union D, Free(c)'
        PROVE  /\ c \in Content /\ audit'[c] # NoAudit
               /\ c \in U => audit'[c].marked = "update" /\ ~audit'[c].deleted
               /\ c \in D => audit'[c].marked = "delete"
               /\ OnRemote(audit'[c]) /\ audit'[c].catalog = k
    <2>1. c \in Content /\ audit[c] \in AuditRecord /\ OnRemote(audit[c]) /\ audit[c].catalog = k
      BY <1>3 DEF Updates, Deletes, Matched, ToDelete, ContentKeys, ExistingKeys, Audited,
                  TypeInvariant, TypeOK
    <2>2. c \in U => ~audit[c].deleted
      BY DEF Updates, NeedsUpdate, IncompleteUpdate
    <2>3. PICK a \in {"update", "delete"} : /\ audit'[c] = MarkFor(audit[c], a)
                                            /\ c \in U => a = "update"
                                            /\ c \in D => a = "delete"
      <3>1. c \in U => c \notin D
        BY DEF Updates, Deletes, ToDelete, Matched
      <3> QED
        BY <1>4, <1>7, <2>1, <3>1
    <2>4. /\ MarkFor(audit[c], a).marked = a
          /\ MarkFor(audit[c], a).deleted = audit[c].deleted
          /\ MarkFor(audit[c], a).catalog = audit[c].catalog
          /\ OnRemote(MarkFor(audit[c], a)) <=> OnRemote(audit[c])
      BY <2>1, MarkedRow DEF Actions
    <2>5. MarkFor(audit[c], a) \in AuditRecord
      BY <2>1 DEF MarkFor, AuditRecord, Marks, Actions
    <2> QED
      BY <2>1, <2>2, <2>3, <2>4, <2>5, NoAuditAssumption
  <1>8. CopiesAgree'
    <2> SUFFICES ASSUME NEW c \in Content, NEW a \in Actions, Free(c)', payload[a][c] # NoAudit
                 PROVE  /\ payload[a][c] = audit'[c] /\ audit'[c].marked = a
                        /\ a # "delete" => ~audit'[c].deleted
      BY <1>2 DEF CopiesAgree
    <2> QED
      BY <1>3, <1>4, <1>5 DEF CopiesAgree
  <1>9. BatchAgrees'
    BY <1>1, <1>6, <1>7 DEF BatchAgrees, Actions
  <1>10. ExportAgrees'
    <2> SUFFICES ASSUME NEW c \in Content, NEW a \in Actions, Free(c)',
                        payload[a][c] # NoAudit \/ c \in batch'[a]
                 PROVE  IF a = "create" THEN ~OnRemote(audit'[c])
                        ELSE OnRemote(audit'[c]) /\ audit'[c].catalog \notin todo \ {k}
      BY <1>2 DEF ExportAgrees, OnRemote
    <2>1. CASE payload[a][c] # NoAudit
      BY <1>2, <1>3, <1>4, <1>5, <2>1 DEF ExportAgrees, OnRemote
    <2>2. CASE c \in batch'[a]
      BY <1>1, <1>6, <1>7, <2>2 DEF Actions
    <2> QED
      BY <2>1, <2>2
  <1>11. InflightAgrees'
    BY <1>2, <1>3 DEF InflightAgrees, PhaseOK, Actions
  <1> QED
    BY <1>8, <1>9, <1>10, <1>11 DEF Agreement

\* Metadata is saved in the rows and the copies alike.
LEMMA MetadataAgreement ==
    ASSUME SyncInvariant, ExportMetadata
    PROVE  UnmarkedInSync' /\ Agreement'
  <1>1. /\ pc = "metadata" /\ pc' = "diff" /\ batch' = NoBatch
        /\ UNCHANGED <<orphan, remote, todo, inflight>>
        /\ audit' = [c \in Content |-> IF c \in Described THEN WithMetadata(c) ELSE audit[c]]
        /\ payload' = [a \in Actions |->
                         [c \in Content |-> IF c \in batch[a] THEN audit'[c] ELSE payload[a][c]]]
    BY DEF ExportMetadata
  <1>2. TypeInvariant /\ PhaseOK /\ UnmarkedInSync /\ CopiesAgree /\ BatchAgrees /\ ExportAgrees
    BY DEF SyncInvariant
  <1>3. current \in Catalogs /\ current \notin todo
    BY <1>1, <1>2 DEF PhaseOK
  <1>4. ASSUME NEW c \in Described
        PROVE  /\ c \in Content /\ audit[c] \in AuditRecord
               /\ audit'[c] \in AuditRecord /\ audit'[c].catalog = current
               /\ audit'[c].marked = audit[c].marked /\ audit'[c].deleted = audit[c].deleted
               /\ OnRemote(audit'[c]) <=> OnRemote(audit[c])
    <2>1. c \in Content /\ audit[c] \in AuditRecord /\ WithMetadata(c) \in AuditRecord
      BY <1>2, <1>3, DescribedType
    <2>2. /\ WithMetadata(c).marked = audit[c].marked
          /\ WithMetadata(c).deleted = audit[c].deleted
          /\ WithMetadata(c).catalog = current
          /\ OnRemote(WithMetadata(c)) <=> OnRemote(audit[c])
      BY <2>1, DescribedRow
    <2>3. audit'[c] = WithMetadata(c)
      BY <1>1, <1>4, <2>1
    <2> QED
      BY <2>1, <2>2, <2>3
  <1>5. ASSUME NEW c \in Described, Free(c) PROVE audit[c].marked \in {"create", "update"}
    BY <1>2, <1>5 DEF Described, BatchAgrees, Actions
  <1>6. UnmarkedInSync'
    <2> SUFFICES ASSUME NEW c \in Content, audit'[c] # NoAudit, audit'[c].marked = "none",
                        audit'[c].errored = "no", Free(c)
                 PROVE  remote[c] = IF audit'[c].deleted THEN Absent ELSE audit'[c].lastChanged
      BY <1>1 DEF UnmarkedInSync, Audited, Free
    <2>1. c \notin Described
      BY <1>4, <1>5
    <2>2. audit'[c] = audit[c]
      BY <1>1, <2>1
    <2> QED
      BY <1>2, <2>2 DEF UnmarkedInSync, Audited, Free
  \* A free item with a copy is described only if its copy is replaced.
  <1>7. ASSUME NEW c \in Content, NEW a \in Actions, Free(c), payload'[a][c] # NoAudit
        PROVE  /\ payload'[a][c] = audit'[c] /\ audit[c].marked = a
               /\ a # "delete" => ~audit[c].deleted
               /\ payload[a][c] # NoAudit \/ c \in batch[a]
               /\ c \in Described \/ audit'[c] = audit[c]
    <2>1. CASE c \in batch[a]
      BY <1>1, <1>2, <1>7, <2>1 DEF BatchAgrees, Described
    <2>2. CASE c \notin batch[a]
      <3>1. /\ payload'[a][c] = payload[a][c] /\ payload[a][c] = audit[c] /\ audit[c].marked = a
            /\ a # "delete" => ~audit[c].deleted
        BY <1>1, <1>2, <1>7, <2>2 DEF CopiesAgree
      <3>2. c \notin Described
        BY <1>2, <1>7, <2>2, <3>1 DEF BatchAgrees, Described, Actions
      <3> QED
        BY <1>1, <1>7, <3>1, <3>2
    <2> QED
      BY <2>1, <2>2
  <1>8. CopiesAgree'
    <2> SUFFICES ASSUME NEW c \in Content, NEW a \in Actions, Free(c), payload'[a][c] # NoAudit
                 PROVE  /\ payload'[a][c] = audit'[c] /\ audit'[c].marked = a
                        /\ a # "delete" => ~audit'[c].deleted
      BY <1>1 DEF CopiesAgree, Free
    <2> QED
      BY <1>4, <1>7
  <1>9. BatchAgrees'
    BY <1>1 DEF BatchAgrees, NoBatch
  <1>10. ExportAgrees'
    <2> SUFFICES ASSUME NEW c \in Content, NEW a \in Actions, Free(c), payload'[a][c] # NoAudit
                 PROVE  IF a = "create" THEN ~OnRemote(audit'[c])
                        ELSE OnRemote(audit'[c]) /\ audit'[c].catalog \notin todo
      BY <1>1 DEF ExportAgrees, Free, OnRemote, NoBatch
    <2>1. IF a = "create" THEN ~OnRemote(audit[c])
          ELSE OnRemote(audit[c]) /\ audit[c].catalog \notin todo
      BY <1>1, <1>2, <1>7 DEF ExportAgrees
    <2> QED
      BY <1>3, <1>4, <1>7, <2>1
  <1>11. InflightAgrees'
    BY <1>1, <1>2 DEF InflightAgrees, PhaseOK, Actions
  <1> QED
    BY <1>6, <1>8, <1>9, <1>10, <1>11 DEF Agreement

\* The LMS changes only where the rows are marked.
LEMMA SendAgreement ==
    ASSUME SyncInvariant, Send
    PROVE  UnmarkedInSync' /\ Agreement'
  <1>1. PICK S \in SUBSET InPayload(pc), s \in {"ok"} \union ErrorStatuses,
             applied \in SUBSET InPayload(pc) :
          /\ applied \subseteq S
          /\ s = "ok" => applied = S
          /\ remote' = [c \in Content |->
                 IF c \notin applied THEN remote[c]
                 ELSE IF pc = "delete" THEN Absent ELSE payload[pc][c].lastChanged]
          /\ inflight' = [items |-> S, status |-> s]
    BY DEF Send, Slices
  <1>2. pc \in Actions /\ UNCHANGED <<audit, orphan, pc, todo, batch, payload>>
    BY DEF Send
  <1>3. UnmarkedInSync /\ CopiesAgree /\ BatchAgrees
    BY DEF SyncInvariant
  <1>4. \A c \in S : Free(c) => audit[c].marked = pc
    BY <1>2, <1>3 DEF InPayload, CopiesAgree
  <1>5. UnmarkedInSync'
    BY <1>1, <1>2, <1>3, <1>4 DEF UnmarkedInSync, Audited, Free, Actions
  <1>6. CopiesAgree' /\ BatchAgrees'
    BY <1>2, <1>3 DEF CopiesAgree, BatchAgrees, Free
  <1>7. ExportAgrees'
    BY <1>2 DEF ExportAgrees, Actions
  <1>8. InflightAgrees'
    BY <1>1, <1>2 DEF InflightAgrees, InPayload
  <1> QED
    BY <1>5, <1>6, <1>7, <1>8 DEF Agreement

\* What is written back for an item whose copy had the mark of its action.
LEMMA TransmittedRow ==
    ASSUME NEW r \in AuditRecord, NEW a \in Actions, NEW s \in Statuses, r.marked = a,
           Transmitted(r, a, s).marked = "none"
    PROVE  /\ s = "ok"
           /\ Transmitted(r, a, s).lastChanged = r.lastChanged
           /\ Transmitted(r, a, s).deleted = (a = "delete" \/ r.deleted)
  BY DEF Transmitted, AuditRecord, Actions

\* A row loses its mark only when the LMS has what it says.
LEMMA SaveAgreement ==
    ASSUME SyncInvariant, NEW c \in Content, SaveResult(c)
    PROVE  UnmarkedInSync' /\ Agreement'
  <1>1. /\ c \in inflight.items
        /\ audit' = [audit EXCEPT ![c] = Transmitted(payload[pc][c], pc, inflight.status)]
        /\ payload' = [payload EXCEPT ![pc][c] = NoAudit]
        /\ inflight' = [inflight EXCEPT !.items = @ \ {c}]
        /\ UNCHANGED <<orphan, remote, pc, todo, batch>>
    BY DEF SaveResult
  <1>2. /\ TypeInvariant /\ PhaseOK /\ UnmarkedInSync /\ CopiesAgree /\ BatchAgrees
        /\ InflightAgrees
    BY DEF SyncInvariant
  <1>3. pc \in Actions /\ payload[pc][c] \in AuditRecord /\ inflight.status \in Statuses
    BY <1>1, <1>2 DEF PhaseOK, InflightAgrees, TypeInvariant, TypeOK
  <1>4. Free(c) => /\ payload[pc][c] = audit[c] /\ audit[c].marked = pc
                   /\ pc # "delete" => ~audit[c].deleted
    BY <1>2, <1>3, NoAuditAssumption DEF CopiesAgree
  <1>5. \A d \in Content \ {c} : audit'[d] = audit[d]
    BY <1>1, <1>2 DEF TypeInvariant, TypeOK
  <1>6. audit'[c] = Transmitted(payload[pc][c], pc, inflight.status)
    BY <1>1, <1>2 DEF TypeInvariant, TypeOK
  <1>7. \A a \in Actions : \A d \in Content :
          payload'[a][d] = IF a = pc /\ d = c THEN NoAudit ELSE payload[a][d]
    BY <1>1, <1>2 DEF TypeInvariant, TypeOK
  <1>8. UnmarkedInSync'
    <2> SUFFICES ASSUME NEW d \in Content, audit'[d] # NoAudit, audit'[d].marked = "none",
                        audit'[d].errored = "no", Free(d)
                 PROVE  remote[d] = IF audit'[d].deleted THEN Absent ELSE audit'[d].lastChanged
      BY <1>1 DEF UnmarkedInSync, Audited, Free
    <2>1. CASE d # c
      BY <1>2, <1>5, <2>1 DEF UnmarkedInSync, Audited, Free
    <2>2. CASE d = c
      <3>1. /\ inflight.status = "ok"
            /\ audit'[c].lastChanged = payload[pc][c].lastChanged
            /\ audit'[c].deleted = (pc = "delete" \/ payload[pc][c].deleted)
        BY <1>3, <1>4, <1>6, <2>2, TransmittedRow
      <3>2. remote[c] = IF pc = "delete" THEN Absent ELSE payload[pc][c].lastChanged
        BY <1>1, <1>2, <2>2, <3>1 DEF InflightAgrees
      <3> QED
        BY <1>4, <2>2, <3>1, <3>2
    <2> QED
      BY <2>1, <2>2
  <1>9. CopiesAgree'
    <2> SUFFICES ASSUME NEW d \in Content, NEW a \in Actions, Free(d), payload'[a][d] # NoAudit
                 PROVE  /\ payload'[a][d] = audit'[d] /\ audit'[d].marked = a
                        /\ a # "delete" => ~audit'[d].deleted
      BY <1>1 DEF CopiesAgree, Free
    <2>1. /\ payload'[a][d] = payload[a][d] /\ payload[a][d] = audit[d] /\ audit[d].marked = a
          /\ a # "delete" => ~audit[d].deleted
      BY <1>2, <1>7 DEF CopiesAgree
    <2>2. d # c
      BY <1>4, <1>7, <2>1
    <2> QED
      BY <1>5, <2>1, <2>2
  <1>10. BatchAgrees'
    BY <1>1, <1>2, <1>3 DEF BatchAgrees, PhaseOK, NoBatch, Actions
  <1>11. ExportAgrees'
    BY <1>1, <1>3 DEF ExportAgrees, Actions
  <1>12. InflightAgrees'
    <2>1. inflight'.items = inflight.items \ {c} /\ inflight'.status = inflight.status
      BY <1>1, <1>2 DEF TypeInvariant, TypeOK
    <2>2. inflight.items \subseteq Content
      BY <1>2 DEF TypeInvariant, TypeOK
    <2>3. \A d \in inflight'.items : payload'[pc][d] = payload[pc][d]
      BY <1>3, <1>7, <2>1, <2>2
    <2> QED
      BY <1>1, <1>2, <2>1, <2>3 DEF InflightAgrees, Free
  <1> QED
    BY <1>8, <1>9, <1>10, <1>11, <1>12 DEF Agreement

\* What the orphan step adds to the delete payload are orphans.
LEMMA CollectAgreement ==
    ASSUME SyncInvariant, CollectOrphans
    PROVE  UnmarkedInSync' /\ Agreement'
  <1>1. PICK S \in SUBSET {c \in Content : orphan[c] = "open"} :
          payload' = IF OrphanRemoval
                     THEN [payload EXCEPT !["delete"] = [c \in Content |->
                             IF c \in S THEN audit[c] ELSE payload["delete"][c]]]
                     ELSE payload
    BY DEF CollectOrphans, Slices
  <1>2. pc = "diff" /\ pc' = "delete" /\ UNCHANGED <<audit, orphan, remote, batch, inflight>>
    BY DEF CollectOrphans
  <1>3. TypeInvariant /\ PhaseOK /\ UnmarkedInSync /\ CopiesAgree /\ BatchAgrees
    BY DEF SyncInvariant
  <1>4. \A a \in Actions : \A c \in Content : Free(c) => payload'[a][c] = payload[a][c]
    BY <1>1, <1>3 DEF Free, TypeInvariant, TypeOK, Actions
  <1>5. CopiesAgree'
    BY <1>2, <1>3, <1>4 DEF CopiesAgree, Free
  <1>6. UnmarkedInSync' /\ BatchAgrees' /\ ExportAgrees'
    BY <1>2, <1>3 DEF UnmarkedInSync, Audited, BatchAgrees, ExportAgrees, Free
  <1>7. InflightAgrees'
    BY <1>2, <1>3 DEF InflightAgrees, PhaseOK, Actions
  <1> QED
    BY <1>5, <1>6, <1>7 DEF Agreement

\* The copies that the chunk limit left unsent are forgotten, their marks stay.
LEMMA FinishAgreement ==
    ASSUME SyncInvariant, FinishAction
    PROVE  UnmarkedInSync' /\ Agreement'
  <1>1. pc \in Actions /\ UNCHANGED <<audit, remote>> /\ \A c \in Content : Free(c)' => Free(c)
    BY DEF FinishAction, Free
  <1>2. TypeInvariant /\ PhaseOK /\ UnmarkedInSync /\ CopiesAgree /\ BatchAgrees
    BY DEF SyncInvariant
  <1>3. UnmarkedInSync'
    BY <1>1, <1>2 DEF UnmarkedInSync, Audited, Free
  <1>4. CASE pc = "update"
    BY <1>3, <1>4, EndRunAgreement DEF FinishAction
  <1>5. CASE pc # "update"
    <2>1. /\ pc' \in Actions /\ payload' = [payload EXCEPT ![pc] = NoPayload[pc]]
          /\ inflight' = NoInflight /\ batch' = batch
      BY <1>5 DEF FinishAction, Actions
    <2>2. \A a \in Actions : \A c \in Content :
            payload'[a][c] # NoAudit => payload'[a][c] = payload[a][c]
      BY <1>1, <1>2, <2>1 DEF NoPayload, TypeInvariant, TypeOK
    <2>3. CopiesAgree'
      BY <1>1, <1>2, <2>2 DEF CopiesAgree
    <2>4. BatchAgrees'
      BY <1>1, <1>2, <2>1 DEF BatchAgrees, PhaseOK, NoBatch, Actions
    <2>5. ExportAgrees' /\ InflightAgrees'
      BY <2>1 DEF ExportAgrees, InflightAgrees, NoInflight, Actions
    <2> QED
      BY <1>3, <2>3, <2>4, <2>5 DEF Agreement
  <1> QED
    BY <1>4, <1>5

\* Between runs the retry window of an error ends without a row losing it.
LEMMA AgeAgreement ==
    ASSUME SyncInvariant, NEW c \in Content, AgeError(c)
    PROVE  UnmarkedInSync' /\ Agreement'
  <1>1. /\ pc = "idle" /\ UNCHANGED <<orphan, remote, pc, run>>
        /\ audit[c] # NoAudit /\ audit' = [audit EXCEPT ![c].errored = "old"]
    BY DEF AgeError, Audited
  <1>2. TypeInvariant /\ PhaseOK /\ UnmarkedInSync
    BY DEF SyncInvariant
  <1>3. audit[c] \in AuditRecord
    BY <1>1, <1>2 DEF TypeInvariant, TypeOK
  <1>4. audit'[c].errored = "old" /\ \A d \in Content \ {c} : audit'[d] = audit[d]
    BY <1>1, <1>2, <1>3 DEF TypeInvariant, TypeOK, AuditRecord
  <1>5. UnmarkedInSync'
    BY <1>1, <1>2, <1>4 DEF UnmarkedInSync, Audited, run
  <1>6. payload' = NoPayload /\ batch' = NoBatch /\ inflight'.items = {} /\ pc' = "idle"
    BY <1>1, <1>2 DEF PhaseOK, run, Actions
  <1>7. CopiesAgree'
    BY <1>6 DEF CopiesAgree, NoPayload
  <1>8. BatchAgrees'
    BY <1>6 DEF BatchAgrees, NoBatch
  <1>9. ExportAgrees' /\ InflightAgrees'
    BY <1>6 DEF ExportAgrees, InflightAgrees
  <1> QED
    BY <1>5, <1>7, <1>8, <1>9 DEF Agreement

LEMMA InitSync == Init => SyncInvariant
  <1> SUFFICES ASSUME Init PROVE SyncInvariant
    OBVIOUS
  <1>1. TypeInvariant
    BY InitInvariant
  <1>2. PhaseOK
    BY DEF Init, PhaseOK, NoInflight, Actions
  <1>3. UnmarkedInSync
    BY DEF Init, UnmarkedInSync, Audited
  <1>4. CopiesAgree
    BY DEF Init, CopiesAgree, NoPayload
  <1>5. BatchAgrees
    BY DEF Init, BatchAgrees, NoBatch
  <1>6. ExportAgrees /\ InflightAgrees
    BY DEF Init, ExportAgrees, InflightAgrees, NoInflight
  <1> QED
    BY <1>1, <1>2, <1>3, <1>4, <1>5, <1>6 DEF SyncInvariant

LEMMA SyncStep == SyncInvariant /\ [Next]_vars => UnmarkedInSync' /\ Agreement'
  <1> SUFFICES ASSUME SyncInvariant, [Next]_vars PROVE UnmarkedInSync' /\ Agreement'
    OBVIOUS
  <1>1. TypeInvariant /\ PhaseOK /\ UnmarkedInSync /\ Agreement
    BY DEF SyncInvariant, Agreement
  <1>2. batch \in [Actions -> SUBSET Content] /\ inflight.items \subseteq Content
    BY <1>1 DEF TypeInvariant, TypeOK
  <1>3. CASE StartRun
    <2>1. payload' = NoPayload /\ batch' = NoBatch /\ inflight'.items = {}
            /\ UNCHANGED <<audit, orphan, remote>>
      BY <1>1, <1>3 DEF StartRun, PhaseOK, Actions
    <2>2. UnmarkedInSync'
      BY <1>1, <2>1 DEF UnmarkedInSync, Audited
    <2>3. CopiesAgree'
      BY <2>1 DEF CopiesAgree, NoPayload
    <2>4. BatchAgrees'
      BY <2>1 DEF BatchAgrees, NoBatch
    <2>5. ExportAgrees'
      BY <2>1 DEF ExportAgrees, NoPayload, NoBatch
    <2>6. InflightAgrees'
      BY <2>1 DEF InflightAgrees
    <2> QED
      BY <2>2, <2>3, <2>4, <2>5, <2>6 DEF Agreement
  <1>4. ASSUME NEW k \in Catalogs, ExportDiff(k) PROVE UnmarkedInSync' /\ Agreement'
    <2>1. Agreement'
      BY <1>4, DiffAgreement
    <2>2. /\ WriteDiff(k, Fresh(k), Updates(k), Deletes(k)) /\ UNCHANGED remote
          /\ \A c \in Fresh(k) : ~InsertConflict(audit[c])
          /\ Fresh(k) \in SUBSET Fresh(k) /\ Updates(k) \in SUBSET Updates(k)
          /\ Deletes(k) \in SUBSET Deletes(k)
      BY <1>4 DEF ExportDiff
    <2>3. UnmarkedInSync'
      BY <1>1, <2>2, DiffInSync
    <2> QED
      BY <2>1, <2>3
  <1>5. ASSUME NEW k \in Catalogs, ExportConflict(k) PROVE UnmarkedInSync' /\ Agreement'
    <2>1. PICK S \in SUBSET Fresh(k) :
            (\A c \in S : ~InsertConflict(audit[c])) /\ WriteDiff(k, S, {}, {})
      BY <1>5 DEF ExportConflict
    <2>2. {} \in SUBSET Updates(k) /\ {} \in SUBSET Deletes(k) /\ UNCHANGED remote
      BY <1>5 DEF ExportConflict
    <2>3. UnmarkedInSync'
      BY <1>1, <2>1, <2>2, DiffInSync
    <2> QED
      BY <1>5, <2>3, EndRunAgreement DEF ExportConflict
  <1>6. CASE ExportMetadata
    BY <1>6, MetadataAgreement
  <1>7. CASE ExportMetadataMissing
    <2>1. PICK S \in SUBSET Described :
            audit' = [c \in Content |-> IF c \in S THEN WithMetadata(c) ELSE audit[c]]
      BY <1>7 DEF ExportMetadataMissing
    <2>2. EndRun /\ UNCHANGED <<orphan, remote>> /\ pc = "metadata"
      BY <1>7 DEF ExportMetadataMissing
    <2>3. ASSUME NEW c \in S, Free(c) PROVE audit'[c].marked # "none"
      <3>1. c \in Content /\ audit[c] \in AuditRecord
        BY <1>1, <2>2, <2>3, DescribedType DEF PhaseOK
      <3>2. audit[c].marked \in {"create", "update"}
        BY <1>1, <2>3 DEF Described, Agreement, BatchAgrees, Actions
      <3>3. WithMetadata(c).marked = audit[c].marked
        BY <3>1, DescribedRow
      <3> QED
        BY <2>1, <3>1, <3>2, <3>3
    <2>4. UnmarkedInSync'
      BY <1>1, <2>1, <2>2, <2>3 DEF UnmarkedInSync, Audited, Free
    <2> QED
      BY <2>2, <2>4, EndRunAgreement
  <1>8. CASE CollectOrphans
    BY <1>8, CollectAgreement
  <1>9. CASE Send
    BY <1>9, SendAgreement
  <1>10. ASSUME NEW c \in Content, SaveResult(c) PROVE UnmarkedInSync' /\ Agreement'
    BY <1>10, SaveAgreement
  <1>11. CASE FinishAction
    BY <1>11, FinishAgreement
  <1>12. CASE Abort
    <2>1. UnmarkedInSync'
      BY <1>1, <1>12 DEF Abort, UnmarkedInSync, Audited
    <2> QED
      BY <1>12, <2>1, EndRunAgreement DEF Abort
  <1>13. CASE OrphanTask
    <2>1. /\ UNCHANGED <<audit, payload, batch, remote, inflight, pc, todo>>
          /\ \A c \in Content : Free(c)' => Free(c)
      BY <1>1, <1>13 DEF OrphanTask, FetchOrphans, MarkOrphan, GetOrCreate, Free, run,
                         TypeInvariant, TypeOK
    <2> QED
      BY <1>1, <1>2, <2>1, FrameAgreement
  <1>14. CASE Environment
    <2>1. ASSUME NEW c \in Content, AgeError(c) PROVE UnmarkedInSync' /\ Agreement'
      BY <2>1, AgeAgreement
    <2>2. ASSUME NEW k \in Catalogs, NEW c \in Content, EditCatalog(k, c)
          PROVE  UNCHANGED <<audit, orphan, payload, batch, remote, inflight, pc, todo>>
      BY <2>2 DEF EditCatalog, run
    <2>3. ASSUME NEW c \in Content, Publish(c)
          PROVE  UNCHANGED <<audit, orphan, payload, batch, remote, inflight, pc, todo>>
      BY <2>3 DEF Publish, run
    <2>4. ASSUME NEW L \in SUBSET Catalogs, SetCatalogs(L)
          PROVE  UNCHANGED <<audit, orphan, payload, batch, remote, inflight, pc, todo>>
      BY <2>4 DEF SetCatalogs, run
    <2>5. ASSUME UNCHANGED <<audit, orphan, payload, batch, remote, inflight, pc, todo>>
          PROVE  UnmarkedInSync' /\ Agreement'
      <3>1. \A c \in Content : Free(c)' => Free(c)
        BY <2>5 DEF Free
      <3> QED
        BY <1>1, <1>2, <2>5, <3>1, FrameAgreement
    <2> QED
      BY <1>14, <2>1, <2>2, <2>3, <2>4, <2>5 DEF Environment
  <1>15. CASE UNCHANGED vars
    <2>1. \A c \in Content : Free(c)' => Free(c)
      BY <1>15 DEF Free, vars
    <2> QED
      BY <1>1, <1>2, <1>15, <2>1, FrameAgreement DEF vars, run
  <1> QED
    BY <1>3, <1>4, <1>5, <1>6, <1>7, <1>8, <1>9, <1>10, <1>11, <1>12, <1>13, <1>14, <1>15
       DEF Next, Run

\* No change is forgotten: for every catalog layout, limit, refusal and crash,
\* an audit row that says an item is settled agrees with the LMS.
THEOREM NoChangeForgotten == Spec => []UnmarkedInSync
  <1>1. SyncInvariant /\ [Next]_vars => SyncInvariant'
    <2> SUFFICES ASSUME SyncInvariant, [Next]_vars PROVE SyncInvariant'
      OBVIOUS
    <2>1. TypeInvariant' /\ PhaseOK'
      BY TypeStep, PhaseStep DEF SyncInvariant
    <2>2. UnmarkedInSync' /\ Agreement'
      BY SyncStep
    <2> QED
      BY <2>1, <2>2 DEF SyncInvariant, Agreement
  <1>2. SyncInvariant => UnmarkedInSync
    BY DEF SyncInvariant
  <1> QED
    BY <1>1, <1>2, InitSync, PTL DEF Spec

-----------------------------------------------------------------------------
(* The rows an export finds and those it inserts                           *)

\* A row that says it was updated says it was created: the update mark is
\* only given to items that exist in the LMS, and recreating clears both.
UpdateFollowsCreate(r) == r # NoAudit /\ r.updated => r.created

CreateFirst ==
    /\ \A c \in Content : UpdateFollowsCreate(audit[c])
    /\ \A a \in Actions : \A c \in Content : UpdateFollowsCreate(payload[a][c])
    /\ \A c \in batch["update"] : audit[c].created
    /\ \A c \in InPayload("update") : payload["update"][c].created

\* What the row operators do to the date columns.
LEMMA RowDates ==
    ASSUME NEW r \in AuditRecord, NEW k, NEW v, NEW a, NEW e
    PROVE  /\ MarkFor(r, a).created = r.created /\ MarkFor(r, a).updated = r.updated
           /\ [r EXCEPT !.catalog = k].created = r.created
           /\ [r EXCEPT !.catalog = k].updated = r.updated
           /\ [r EXCEPT !.lastChanged = v, !.catalog = k].created = r.created
           /\ [r EXCEPT !.lastChanged = v, !.catalog = k].updated = r.updated
           /\ [r EXCEPT !.errored = e].created = r.created
           /\ [r EXCEPT !.errored = e].updated = r.updated
           /\ ~PrepareToRecreate(r, k, v).updated
  BY DEF MarkFor, PrepareToRecreate, AuditRecord

LEMMA TransmittedDates ==
    ASSUME NEW r \in AuditRecord, NEW a \in Actions, NEW s
    PROVE  /\ a = "create" => Transmitted(r, a, s).created
           /\ a # "create" => Transmitted(r, a, s).created = r.created
           /\ a # "update" => Transmitted(r, a, s).updated = r.updated
           /\ a = "delete" => Transmitted(r, a, s).deleted
           /\ Transmitted(r, a, s).status = s
  BY DEF Transmitted, AuditRecord, Actions

LEMMA CreateItemDates ==
    ASSUME NEW r \in AuditRecord \union {NoAudit}, NEW k, NEW v, UpdateFollowsCreate(r)
    PROVE  UpdateFollowsCreate(CreateItem(r, k, v))
  <1>1. CASE r = NoAudit
    BY <1>1 DEF CreateItem, NewAudit, UpdateFollowsCreate
  <1>2. CASE r # NoAudit /\ DeletedTransmission(r)
    BY <1>2, RowDates DEF CreateItem, UpdateFollowsCreate
  <1>3. CASE r # NoAudit /\ ~DeletedTransmission(r)
    BY <1>3, RowDates DEF CreateItem, UpdateFollowsCreate
  <1> QED
    BY <1>1, <1>2, <1>3

LEMMA DiffDates ==
    ASSUME TypeInvariant, CreateFirst, NEW k \in Catalogs, NEW S \in SUBSET Content,
           NEW U \in SUBSET Updates(k), NEW D \in SUBSET Deletes(k),
           WriteDiff(k, S, U, D), NEW c \in Content
    PROVE  /\ UpdateFollowsCreate(audit'[c])
           /\ c \in U \ S => audit'[c].created
  <1>1. audit'[c] = CASE c \in Adopted(k) -> [audit[c] EXCEPT !.catalog = k]
                      [] c \in S -> CreateItem(audit[c], k, version[c])
                      [] c \in U -> MarkFor(audit[c], "update")
                      [] c \in D -> MarkFor(audit[c], "delete")
                      [] OTHER -> audit[c]
    BY DEF WriteDiff
  <1>2. UpdateFollowsCreate(audit[c]) /\ audit[c] \in AuditRecord \union {NoAudit}
    BY DEF CreateFirst, TypeInvariant, TypeOK
  <1>3. c \in Adopted(k) => audit[c] \in AuditRecord
    BY <1>2 DEF Adopted, TypeInvariant, RowsExist
  <1>4. c \in U \union D => audit[c] \in AuditRecord /\ audit[c].created
    BY <1>2 DEF Updates, Deletes, Matched, ToDelete, ContentKeys, ExistingKeys, Audited, OnRemote
  <1>5. UpdateFollowsCreate(CreateItem(audit[c], k, version[c]))
    BY <1>2, CreateItemDates
  <1> DEFINE adopted == [audit[c] EXCEPT !.catalog = k]
             new     == CreateItem(audit[c], k, version[c])
             matched == MarkFor(audit[c], "update")
             dropped == MarkFor(audit[c], "delete")
  <1>6. audit[c] \in AuditRecord =>
           /\ adopted.created = audit[c].created /\ adopted.updated = audit[c].updated
           /\ matched.created = audit[c].created /\ matched.updated = audit[c].updated
           /\ dropped.created = audit[c].created /\ dropped.updated = audit[c].updated
    BY RowDates
  <1>7. c \in Adopted(k) => c \notin U
    BY DEF Adopted, ToCreate, Updates, Matched
  <1> HIDE DEF adopted, new, matched, dropped
  <1>8. CASE audit[c] \in AuditRecord
    BY <1>1, <1>2, <1>4, <1>5, <1>6, <1>7, <1>8, NoAuditAssumption
       DEF UpdateFollowsCreate, adopted, new, matched, dropped
  <1>9. CASE audit[c] \notin AuditRecord
    BY <1>1, <1>2, <1>3, <1>4, <1>5, <1>9 DEF new
  <1> QED
    BY <1>8, <1>9

LEMMA FreshType ==
    ASSUME TypeInvariant, NEW k \in Catalogs
    PROVE  Fresh(k) \in SUBSET Content
  BY DEF TypeInvariant, TypeOK, Fresh, ToCreate

LEMMA CreateFirstStep == TypeInvariant /\ PhaseOK /\ CreateFirst /\ [Next]_vars => CreateFirst'
  <1> SUFFICES ASSUME TypeInvariant, PhaseOK, CreateFirst, [Next]_vars PROVE CreateFirst'
    OBVIOUS
  <1>0. /\ audit \in [Content -> AuditRecord \union {NoAudit}]
        /\ payload \in [Actions -> [Content -> AuditRecord \union {NoAudit}]]
        /\ batch \in [Actions -> SUBSET Content]
        /\ \A c \in Content : UpdateFollowsCreate(audit[c])
        /\ \A a \in Actions : \A c \in Content : UpdateFollowsCreate(payload[a][c])
        /\ \A c \in Content : payload["update"][c] # NoAudit => payload["update"][c].created
        /\ \A c \in batch["update"] : audit[c].created
    BY DEF TypeInvariant, TypeOK, CreateFirst, InPayload
  \* A step whose effect on the rows and on the memory of the run is known.
  <1>1. ASSUME \A c \in Content : UpdateFollowsCreate(audit'[c]),
               batch' = NoBatch, payload' \in {payload, NoPayload}
        PROVE  CreateFirst'
    BY <1>0, <1>1 DEF CreateFirst, InPayload, NoBatch, NoPayload, Actions, UpdateFollowsCreate
  <1>2. ASSUME UNCHANGED <<audit, batch, payload>> PROVE CreateFirst'
    BY <1>2 DEF CreateFirst, InPayload, UpdateFollowsCreate
  <1>3. CASE StartRun
    BY <1>2, <1>3 DEF StartRun
  <1>4. ASSUME NEW k \in Catalogs, ExportDiff(k) PROVE CreateFirst'
    <2>1. PICK C \in SUBSET Fresh(k), U \in SUBSET Updates(k), D \in SUBSET Deletes(k) :
            batch' = [create |-> C, update |-> U, delete |-> D]
      BY <1>4 DEF ExportDiff, Slices
    <2>2. /\ WriteDiff(k, Fresh(k), Updates(k), Deletes(k)) /\ UNCHANGED payload
          /\ Updates(k) \in SUBSET Updates(k) /\ Deletes(k) \in SUBSET Deletes(k)
      BY <1>4 DEF ExportDiff
    <2>3. ASSUME NEW c \in Content
          PROVE  /\ UpdateFollowsCreate(audit'[c])
                 /\ c \in Updates(k) \ Fresh(k) => audit'[c].created
      BY <2>2, FreshType, DiffDates
    <2>4. U \subseteq Content /\ \A c \in U : c \in Updates(k) \ Fresh(k)
      BY DEF Updates, Fresh, ToCreate, Matched, ContentKeys, ExistingKeys, Audited
    <2>5. batch'["update"] = U
      BY <2>1
    <2> QED
      BY <1>0, <2>2, <2>3, <2>4, <2>5 DEF CreateFirst, InPayload, UpdateFollowsCreate
  <1>5. ASSUME NEW k \in Catalogs, ExportConflict(k) PROVE CreateFirst'
    <2>1. PICK S \in SUBSET Content : WriteDiff(k, S, {}, {})
      BY <1>5, FreshType DEF ExportConflict
    <2>2. {} \in SUBSET Updates(k) /\ {} \in SUBSET Deletes(k)
      OBVIOUS
    <2>3. ASSUME NEW c \in Content PROVE UpdateFollowsCreate(audit'[c])
      BY <2>1, <2>2, DiffDates
    <2> QED
      BY <1>1, <1>5, <2>3 DEF ExportConflict, EndRun
  \* Metadata leaves the dates as they are.
  <1>6. ASSUME NEW S \in SUBSET Described, NEW c \in Content, pc = "metadata",
               audit'[c] = IF c \in S THEN WithMetadata(c) ELSE audit[c]
        PROVE  /\ UpdateFollowsCreate(audit'[c])
               /\ audit'[c].created = audit[c].created
    <2>1. CASE c \in S
      <3>1. audit[c] \in AuditRecord /\ WithMetadata(c) \in AuditRecord
        BY <1>6, <2>1, DescribedType DEF PhaseOK
      <3>2. /\ WithMetadata(c).created = audit[c].created
            /\ WithMetadata(c).updated = audit[c].updated
        BY <3>1, RowDates DEF WithMetadata
      <3> QED
        BY <1>0, <1>6, <2>1, <3>1, <3>2, NoAuditAssumption DEF UpdateFollowsCreate
    <2>2. CASE c \notin S
      BY <1>0, <1>6, <2>2
    <2> QED
      BY <2>1, <2>2
  <1>7. CASE ExportMetadata
    <2>1. ASSUME NEW c \in Content
          PROVE  /\ UpdateFollowsCreate(audit'[c])
                 /\ audit'[c].created = audit[c].created
      <3>1. audit'[c] = (IF c \in Described THEN WithMetadata(c) ELSE audit[c])
              /\ pc = "metadata" /\ Described \in SUBSET Described
        BY <1>7 DEF ExportMetadata
      <3> QED
        BY <1>6, <3>1
    <2>2. ASSUME NEW a \in Actions, NEW c \in Content
          PROVE  payload'[a][c] = IF c \in batch[a] THEN audit'[c] ELSE payload[a][c]
      BY <1>7 DEF ExportMetadata
    <2>3. batch' = NoBatch
      BY <1>7 DEF ExportMetadata
    <2>4. \A a \in Actions : \A c \in Content : UpdateFollowsCreate(payload'[a][c])
      BY <1>0, <2>1, <2>2
    <2>5. \A c \in Content : payload'["update"][c] # NoAudit => payload'["update"][c].created
      BY <1>0, <2>1, <2>2 DEF Actions
    <2> QED
      BY <2>1, <2>3, <2>4, <2>5 DEF CreateFirst, InPayload, NoBatch, Actions, UpdateFollowsCreate
  <1>8. CASE ExportMetadataMissing
    <2>1. PICK S \in SUBSET Described :
            audit' = [c \in Content |-> IF c \in S THEN WithMetadata(c) ELSE audit[c]]
      BY <1>8 DEF ExportMetadataMissing
    <2>2. pc = "metadata" /\ batch' = NoBatch /\ payload' = NoPayload
      BY <1>8 DEF ExportMetadataMissing, EndRun
    <2>3. ASSUME NEW c \in Content PROVE UpdateFollowsCreate(audit'[c])
      BY <1>6, <2>1, <2>2
    <2> QED
      BY <1>1, <2>2, <2>3
  <1>9. CASE CollectOrphans
    <2>1. UNCHANGED <<audit, batch>>
      BY <1>9 DEF CollectOrphans
    <2>2. PICK S \in SUBSET Content :
            payload' = IF OrphanRemoval
                       THEN [payload EXCEPT !["delete"] = [c \in Content |->
                               IF c \in S THEN audit[c] ELSE payload["delete"][c]]]
                       ELSE payload
      BY <1>9 DEF CollectOrphans, Slices
    <2>3. ASSUME NEW a \in Actions, NEW c \in Content
          PROVE  /\ payload'[a][c] \in {payload[a][c], audit[c]}
                 /\ a = "update" => payload'[a][c] = payload[a][c]
      BY <1>0, <2>2 DEF Actions
    <2> QED
      BY <1>0, <2>1, <2>3 DEF CreateFirst, InPayload, Actions, UpdateFollowsCreate
  <1>10. CASE Send
    BY <1>2, <1>10 DEF Send
  <1>11. ASSUME NEW c \in Content, SaveResult(c) PROVE CreateFirst'
    <2> DEFINE row == Transmitted(payload[pc][c], pc, inflight.status)
    <2>1. /\ pc \in Actions /\ payload[pc][c] \in AuditRecord
          /\ inflight.status \in Statuses
      BY <1>0, <1>11 DEF SaveResult, TypeInvariant, TypeOK, RowsExist
    <2>2. UpdateFollowsCreate(row)
      <3> DEFINE copy == payload[pc][c]
      <3>1. /\ pc = "create" => row.created
            /\ pc # "create" => row.created = copy.created
            /\ pc # "update" => row.updated = copy.updated
        BY <2>1, TransmittedDates
      <3>2. /\ copy.updated => copy.created
            /\ pc = "update" => copy.created
        <4>1. copy # NoAudit
          BY <2>1, NoAuditAssumption
        <4>2. UpdateFollowsCreate(copy) /\ (pc = "update" => copy.created)
          BY <1>0, <2>1, <4>1
        <4> QED
          BY <4>1, <4>2 DEF UpdateFollowsCreate
      <3> HIDE DEF row, copy
      <3> QED
        BY <3>1, <3>2 DEF UpdateFollowsCreate
    <2>3. /\ audit' = [audit EXCEPT ![c] = row]
          /\ payload' = [payload EXCEPT ![pc][c] = NoAudit]
          /\ batch' = batch /\ batch = NoBatch
      BY <1>11, <2>1 DEF SaveResult, PhaseOK, Actions
    <2> HIDE DEF row
    <2>4. \A d \in Content : UpdateFollowsCreate(audit'[d])
      BY <1>0, <2>2, <2>3
    <2>5. ASSUME NEW a \in Actions, NEW d \in Content
          PROVE  payload'[a][d] \in {payload[a][d], NoAudit}
      BY <1>0, <2>1, <2>3
    <2> QED
      BY <1>0, <2>3, <2>4, <2>5 DEF CreateFirst, InPayload, NoBatch, Actions, UpdateFollowsCreate
  <1>12. CASE FinishAction
    <2>1. CASE pc = "update"
      BY <1>0, <1>1, <1>12, <2>1 DEF FinishAction, EndRun
    <2>2. CASE pc # "update"
      <3>1. UNCHANGED <<audit, batch>> /\ payload' = [payload EXCEPT ![pc] = NoPayload[pc]]
              /\ pc \in Actions
        BY <1>12, <2>2 DEF FinishAction
      <3>2. ASSUME NEW a \in Actions, NEW c \in Content
            PROVE  payload'[a][c] \in {payload[a][c], NoAudit}
        BY <1>0, <3>1 DEF NoPayload
      <3> QED
        BY <1>0, <3>1, <3>2 DEF CreateFirst, InPayload, Actions, UpdateFollowsCreate
    <2> QED
      BY <2>1, <2>2
  <1>13. CASE Abort
    BY <1>0, <1>1, <1>13 DEF Abort, EndRun
  <1>14. CASE OrphanTask
    BY <1>2, <1>14 DEF OrphanTask, FetchOrphans, MarkOrphan, run
  <1>15. ASSUME NEW c \in Content, AgeError(c) PROVE CreateFirst'
    <2> DEFINE old == [audit[c] EXCEPT !.errored = "old"]
    <2>1. audit[c] \in AuditRecord
      BY <1>0, <1>15 DEF AgeError, Audited
    <2>2. old.created = audit[c].created /\ old.updated = audit[c].updated
      BY <2>1, RowDates
    <2>3. audit' = [audit EXCEPT ![c] = old] /\ UNCHANGED <<batch, payload>>
            /\ batch = NoBatch
      BY <1>15 DEF AgeError, run, PhaseOK
    <2> HIDE DEF old
    <2>4. \A d \in Content : UpdateFollowsCreate(audit'[d])
      BY <1>0, <2>1, <2>2, <2>3, NoAuditAssumption DEF UpdateFollowsCreate
    <2> QED
      BY <1>1, <2>3, <2>4
  <1>16. CASE Environment /\ ~\E c \in Content : AgeError(c)
    BY <1>2, <1>16 DEF Environment, EditCatalog, Publish, SetCatalogs, run
  <1>17. CASE UNCHANGED vars
    BY <1>2, <1>17 DEF vars, run
  <1> QED
    BY <1>3, <1>4, <1>5, <1>7, <1>8, <1>9, <1>10, <1>11, <1>12, <1>13, <1>14, <1>15, <1>16, <1>17
       DEF Next, Run, Environment

\* The three lookups that come before an INSERT miss an existing row only
\* when a call for it has failed: for rows without an error they cover every
\* combination of dates a run can leave behind, whatever the catalogs, the
\* limits and the failures.
THEOREM InsertsConflictAfterErrors == Spec => []ConflictOnlyAfterError
  <1> DEFINE Inv == TypeInvariant /\ PhaseOK /\ CreateFirst
  <1>1. Init => Inv
    <2> SUFFICES ASSUME Init PROVE Inv
      OBVIOUS
    <2>1. TypeInvariant /\ PhaseOK
      BY InitInvariant DEF Init, PhaseOK, NoInflight, Actions
    <2>2. CreateFirst
      BY DEF Init, CreateFirst, UpdateFollowsCreate, InPayload, NoPayload, NoBatch, Actions
    <2> QED
      BY <2>1, <2>2
  <1>2. Inv /\ [Next]_vars => Inv'
    BY TypeStep, PhaseStep, CreateFirstStep
  <1>3. Inv => ConflictOnlyAfterError
    <2> SUFFICES ASSUME Inv, NEW k \in todo, NEW c \in Fresh(k), InsertConflict(audit[c]),
                        audit[c].errored = "no"
                 PROVE  FALSE
      BY DEF ConflictOnlyAfterError
    <2>1. c \in Content
      BY DEF Fresh, ToCreate, TypeInvariant, TypeOK
    <2>2. audit[c] \in AuditRecord /\ UpdateFollowsCreate(audit[c])
      BY <2>1 DEF InsertConflict, CreateFirst, TypeInvariant, TypeOK
    <2>3. ~OnRemote(audit[c])
      BY <2>1, <2>2, NoAuditAssumption DEF Fresh, ExistingKeys, Audited
    <2> QED
      BY <2>2, <2>3, NoAuditAssumption
         DEF InsertConflict, DeletedTransmission, IncompleteCreate, OnRemote, Retryable,
             UpdateFollowsCreate, AuditRecord
  <1> QED
    BY <1>1, <1>2, <1>3, PTL DEF Spec

-----------------------------------------------------------------------------
(* What resolves an orphan                                                 *)

\* What successfully_removed_content_keys holds: items whose rows say that
\* the LMS has removed them and that the run will not write again.
RemovedGone ==
    \A c \in removed :
        /\ pc = "delete" /\ payload["delete"][c] = NoAudit
        /\ audit[c].deleted /\ audit[c].status = "ok"

\* SaveResult adds the item of an answered delete, and writes no other row.
LEMMA SaveGone ==
    ASSUME TypeInvariant, RemovedGone, NEW c \in Content, SaveResult(c)
    PROVE  RemovedGone'
  <1> DEFINE row == Transmitted(payload[pc][c], pc, inflight.status)
  <1>1. /\ pc \in Actions /\ payload[pc][c] # NoAudit /\ payload[pc][c] \in AuditRecord
        /\ removed \subseteq Content
        /\ audit \in [Content -> AuditRecord \union {NoAudit}]
        /\ payload \in [Actions -> [Content -> AuditRecord \union {NoAudit}]]
    BY DEF SaveResult, TypeInvariant, TypeOK, RowsExist
  <1>2. /\ pc = "delete" => row.deleted
        /\ row.status = inflight.status
    BY <1>1, TransmittedDates
  <1>3. /\ audit' = [audit EXCEPT ![c] = row] /\ UNCHANGED pc
        /\ payload' = [payload EXCEPT ![pc][c] = NoAudit]
        /\ removed' = removed \union SuccessfulRemoval(c)
    BY DEF SaveResult
  <1> HIDE DEF row
  <1> SUFFICES ASSUME NEW d \in removed'
               PROVE  /\ pc = "delete" /\ payload'["delete"][d] = NoAudit
                      /\ audit'[d].deleted /\ audit'[d].status = "ok"
    BY <1>3 DEF RemovedGone
  <1>4. CASE d \in SuccessfulRemoval(c)
    BY <1>1, <1>2, <1>3, <1>4 DEF SuccessfulRemoval
  <1>5. CASE d \in removed
    <2>1. d # c /\ pc = "delete"
      BY <1>1, <1>5 DEF RemovedGone
    <2> QED
      BY <1>1, <1>3, <1>5, <2>1 DEF RemovedGone
  <1> QED
    BY <1>3, <1>4, <1>5

LEMMA GoneStep == TypeInvariant /\ RemovedGone /\ [Next]_vars => RemovedGone'
  <1> SUFFICES ASSUME TypeInvariant, RemovedGone, [Next]_vars PROVE RemovedGone'
    OBVIOUS
  <1>1. removed' = {} => RemovedGone'
    BY DEF RemovedGone
  <1>2. pc # "delete" => removed = {}
    BY DEF RemovedGone
  <1>3. UNCHANGED <<removed, pc, payload, audit>> => RemovedGone'
    BY DEF RemovedGone
  <1>4. ASSUME NEW c \in Content, SaveResult(c) PROVE RemovedGone'
    BY <1>4, SaveGone
  <1>5. CASE StartRun \/ CollectOrphans \/ ExportMetadata \/ ExportMetadataMissing
    BY <1>1, <1>2, <1>5 DEF StartRun, CollectOrphans, ExportMetadata, ExportMetadataMissing, EndRun
  <1>6. ASSUME NEW k \in Catalogs, ExportDiff(k) \/ ExportConflict(k) PROVE RemovedGone'
    BY <1>1, <1>2, <1>6 DEF ExportDiff, ExportConflict, EndRun
  <1>7. CASE Send
    BY <1>3, <1>7 DEF Send
  <1>8. CASE FinishAction \/ Abort
    BY <1>1, <1>8 DEF FinishAction, Abort, EndRun
  <1>9. CASE OrphanTask
    BY <1>3, <1>9 DEF OrphanTask, FetchOrphans, MarkOrphan, run
  <1>10. ASSUME NEW c \in Content, AgeError(c) PROVE RemovedGone'
    BY <1>1, <1>2, <1>10 DEF AgeError, run
  <1>11. CASE Environment /\ ~\E c \in Content : AgeError(c)
    BY <1>3, <1>11 DEF Environment, EditCatalog, Publish, SetCatalogs, run
  <1>12. CASE UNCHANGED vars
    BY <1>3, <1>12 DEF vars, run
  <1> QED
    BY <1>4, <1>5, <1>6, <1>7, <1>8, <1>9, <1>10, <1>11, <1>12 DEF Next, Run, Environment

\* An orphan row is only resolved by a delete the LMS has confirmed or by a
\* catalog that lists the item, never by a delete that was refused, timed out
\* or was still waiting when the chunk limit was reached.
THEOREM OrphansAreResolved == Spec => OrphanResolution
  <1> DEFINE Inv == TypeInvariant /\ PhaseOK /\ RemovedGone
  <1>1. Init => Inv
    <2> SUFFICES ASSUME Init PROVE Inv
      OBVIOUS
    <2>1. TypeInvariant /\ PhaseOK
      BY InitInvariant DEF Init, PhaseOK, NoInflight, Actions
    <2>2. RemovedGone
      BY DEF Init, RemovedGone
    <2> QED
      BY <2>1, <2>2
  <1>2. Inv /\ [Next]_vars => Inv'
    BY TypeStep, PhaseStep, GoneStep
  <1>3. Inv /\ [Next]_vars =>
          [\A c \in Content :
              orphan[c] = "open" /\ orphan'[c] = "resolved" =>
                  \/ audit'[c].deleted /\ audit'[c].status = "ok"
                  \/ c \in catalogContent[audit'[c].catalog]]_vars
    <2> SUFFICES ASSUME Inv, [Next]_vars, NEW c \in Content,
                        orphan[c] = "open", orphan'[c] = "resolved"
                 PROVE  \/ audit'[c].deleted /\ audit'[c].status = "ok"
                        \/ c \in catalogContent[audit'[c].catalog]
      OBVIOUS
    <2>1. audit[c] \in AuditRecord /\ removed \subseteq Content
            /\ orphan \in [Content -> {"none", "open", "resolved"}]
      BY DEF TypeInvariant, TypeOK, RowsExist
    <2>2. CASE FinishAction
      <3>1. c \in removed /\ UNCHANGED audit
        BY <2>2 DEF FinishAction
      <3> QED
        BY <3>1 DEF RemovedGone
    <2>3. ASSUME NEW k \in Catalogs, NEW S \in SUBSET Fresh(k), NEW U \in SUBSET Updates(k),
                 NEW D \in SUBSET Deletes(k), WriteDiff(k, S, U, D)
          PROVE  c \in catalogContent[audit'[c].catalog]
      <3>1. c \in Adopted(k)
        <4>1. orphan'[c] = IF c \in Adopted(k) THEN "resolved" ELSE orphan[c]
          BY <2>3 DEF WriteDiff
        <4> QED
          BY <4>1
      <3>2. audit'[c] = [audit[c] EXCEPT !.catalog = k]
        <4>1. c \notin Fresh(k) /\ c \notin Updates(k) /\ c \notin Deletes(k)
          BY <3>1 DEF Adopted, Fresh, Updates, Deletes, ToCreate, ToDelete, Matched
        <4>2. audit'[c] = CASE c \in Adopted(k) -> [audit[c] EXCEPT !.catalog = k]
                            [] c \in S -> CreateItem(audit[c], k, version[c])
                            [] c \in U -> MarkFor(audit[c], "update")
                            [] c \in D -> MarkFor(audit[c], "delete")
                            [] OTHER -> audit[c]
          BY <2>3 DEF WriteDiff
        <4> QED
          BY <3>1, <4>1, <4>2
      <3>3. audit'[c].catalog = k
        BY <2>1, <3>2 DEF AuditRecord
      <3> QED
        BY <3>1, <3>3 DEF Adopted, ToCreate
    <2>4. CASE UNCHANGED orphan
      BY <2>4
    <2>5. ASSUME NEW d \in Content, MarkOrphan(d)
          PROVE  FALSE
      BY <2>1, <2>5 DEF MarkOrphan, GetOrCreate
    <2>6. ASSUME NEW k \in Catalogs, ExportDiff(k) \/ ExportConflict(k)
          PROVE  c \in catalogContent[audit'[c].catalog]
      <3>1. CASE ExportDiff(k)
        BY <2>3, <3>1 DEF ExportDiff
      <3>2. CASE ExportConflict(k)
        BY <2>3, <3>2 DEF ExportConflict
      <3> QED
        BY <2>6, <3>1, <3>2
    <2> QED
      BY <2>2, <2>4, <2>5, <2>6
         DEF Next, Run, OrphanTask, Environment, vars, run, service, StartRun, ExportMetadata,
             ExportMetadataMissing, CollectOrphans, Send, SaveResult, Abort, FetchOrphans,
             EditCatalog, Publish, SetCatalogs, AgeError
  <1> QED
    BY <1>1, <1>2, <1>3, PTL DEF Spec, OrphanResolution

-----------------------------------------------------------------------------
(* The LMS mirrors the catalogs.  Behind an item's version in the LMS lie, *)
(* in this order: the copies of its row in the memory of a run, the row,   *)
(* and the published version.  A run that writes a copy back lowers the    *)
(* row to it, so the copies another phase still has must lie no higher: an *)
(* export selects an item for one action, and only the orphan step adds a  *)
(* second copy, as recent as the row, to the deletes that are sent first.  *)

RowCurrent(c) ==
    /\ remote[c] <= version[c]
    /\ audit[c] = NoAudit => remote[c] = Absent
    /\ audit[c] # NoAudit => /\ remote[c] <= audit[c].lastChanged
                             /\ audit[c].lastChanged <= version[c]

RowsCurrent == \A c \in Content : RowCurrent(c)

CopiesCurrent ==
    \A a \in Actions : \A c \in Content :
        payload[a][c] # NoAudit =>
            /\ audit[c] # NoAudit
            /\ remote[c] <= payload[a][c].lastChanged
            /\ payload[a][c].lastChanged <= audit[c].lastChanged

Selected(a, c) == payload[a][c] # NoAudit \/ c \in batch[a]

SelectedOnce ==
    pc \in {"diff", "metadata"} =>
        \A a \in Actions : \A c \in Content :
            Selected(a, c) =>
                /\ audit[c] # NoAudit
                /\ IF a = "create" THEN ~OnRemote(audit[c])
                   ELSE OnRemote(audit[c]) /\ audit[c].catalog \notin todo
                /\ \A b \in Actions : Selected(b, c) => b = a

\* The copies of c that the phases from p on may still send.
Pending(c, p) ==
    /\ payload["create"][c] = NoAudit \/ payload["update"][c] = NoAudit
    /\ payload["delete"][c] # NoAudit =>
          \A b \in Actions : payload[b][c] # NoAudit =>
              payload[b][c].lastChanged <= payload["delete"][c].lastChanged
    /\ p # "delete" => payload["delete"][c] = NoAudit
    /\ p = "update" => payload["create"][c] = NoAudit

CopiesOrdered == pc \in Actions => \A c \in Content : Pending(c, pc)

Mirrored == RowsCurrent /\ CopiesCurrent /\ SelectedOnce /\ CopiesOrdered

\* What the row operators do to the version of a row.
LEMMA RowVersions ==
    ASSUME NEW r \in AuditRecord, NEW k, NEW v, NEW a, NEW s
    PROVE  /\ MarkFor(r, a).lastChanged = r.lastChanged
           /\ Transmitted(r, a, s).lastChanged = r.lastChanged
           /\ PrepareToRecreate(r, k, v).lastChanged = v
           /\ [r EXCEPT !.errored = "old"].lastChanged = r.lastChanged
           /\ [r EXCEPT !.lastChanged = v, !.catalog = k].lastChanged = v
           /\ [r EXCEPT !.catalog = k].lastChanged = r.lastChanged
           /\ [r EXCEPT !.catalog = k].catalog = k
           /\ OnRemote([r EXCEPT !.catalog = k]) <=> OnRemote(r)
  <1>1. /\ MarkFor(r, a).lastChanged = r.lastChanged
        /\ Transmitted(r, a, s).lastChanged = r.lastChanged
        /\ PrepareToRecreate(r, k, v).lastChanged = v
        /\ [r EXCEPT !.errored = "old"].lastChanged = r.lastChanged
        /\ [r EXCEPT !.lastChanged = v, !.catalog = k].lastChanged = v
        /\ [r EXCEPT !.catalog = k].lastChanged = r.lastChanged
        /\ [r EXCEPT !.catalog = k].catalog = k
    BY DEF MarkFor, Transmitted, PrepareToRecreate, AuditRecord
  <1>2. OnRemote([r EXCEPT !.catalog = k]) <=> OnRemote(r)
    BY DEF OnRemote, AuditRecord
  <1> QED
    BY <1>1, <1>2

LEMMA CreateItemVersion ==
    ASSUME NEW r \in AuditRecord \union {NoAudit}, NEW k, NEW v
    PROVE  \/ CreateItem(r, k, v).lastChanged = v
           \/ r # NoAudit /\ CreateItem(r, k, v).lastChanged = r.lastChanged
  <1>1. CASE r = NoAudit
    BY <1>1 DEF CreateItem, NewAudit
  <1>2. CASE r # NoAudit /\ DeletedTransmission(r)
    <2>1. CreateItem(r, k, v) = PrepareToRecreate(r, k, v)
      BY <1>2 DEF CreateItem
    <2>2. PrepareToRecreate(r, k, v).lastChanged = v
      BY <1>2 DEF PrepareToRecreate, AuditRecord
    <2> QED
      BY <2>1, <2>2
  <1>3. CASE r # NoAudit /\ ~DeletedTransmission(r)
    BY <1>3, RowVersions DEF CreateItem
  <1> QED
    BY <1>1, <1>2, <1>3

\* The diff of one catalog adds rows of items the catalog lists, lowers no
\* row, and moves a row it does not write for a create to no other catalog.
LEMMA DiffVersions ==
    ASSUME TypeInvariant, RowsCurrent, NEW k \in Catalogs,
           NEW S \in SUBSET Fresh(k), NEW U \in SUBSET Updates(k), NEW D \in SUBSET Deletes(k),
           \A c \in S : ~InsertConflict(audit[c]),
           WriteDiff(k, S, U, D), NEW c \in Content
    PROVE  /\ audit'[c] # NoAudit =>
                /\ audit'[c].lastChanged \in Versions
                /\ audit'[c].lastChanged <= version[c]
                /\ audit[c] # NoAudit \/ c \in S
           /\ audit[c] # NoAudit =>
                audit'[c] # NoAudit /\ audit[c].lastChanged <= audit'[c].lastChanged
           /\ c \in S => audit'[c] # NoAudit /\ ~OnRemote(audit'[c])
           /\ c \notin S /\ audit[c] # NoAudit =>
                /\ OnRemote(audit'[c]) <=> OnRemote(audit[c])
                /\ audit'[c].catalog \in {audit[c].catalog, k}
  <1>1. audit'[c] = CASE c \in Adopted(k) -> [audit[c] EXCEPT !.catalog = k]
                      [] c \in S -> CreateItem(audit[c], k, version[c])
                      [] c \in U -> MarkFor(audit[c], "update")
                      [] c \in D -> MarkFor(audit[c], "delete")
                      [] OTHER -> audit[c]
    BY DEF WriteDiff
  <1>2. /\ audit[c] \in AuditRecord \union {NoAudit} /\ version[c] \in Versions
        /\ audit'[c] \in AuditRecord \union {NoAudit}
        /\ c \in Adopted(k) => audit[c] \in AuditRecord
        /\ c \in U \union D => audit[c] \in AuditRecord
    <2>1. S \in SUBSET Content
      BY DEF Fresh, ToCreate, TypeInvariant, TypeOK
    <2>2. audit' \in [Content -> AuditRecord \union {NoAudit}]
      BY <2>1, WriteDiffType
    <2> QED
      BY <2>2 DEF TypeInvariant, TypeOK, RowsExist, Adopted, Updates, Deletes, Matched, ToDelete,
                  ContentKeys, ExistingKeys, Audited
  <1>3. audit[c] # NoAudit =>
          audit[c].lastChanged \in Versions /\ audit[c].lastChanged <= version[c]
    BY <1>2 DEF RowsCurrent, RowCurrent, AuditRecord
  <1>4. CASE c \in Adopted(k)
    <2>1. c \notin S \union U \union D
      BY <1>4 DEF Adopted, Fresh, Updates, Deletes, ToCreate, ToDelete, Matched
    <2>2. audit'[c] = [audit[c] EXCEPT !.catalog = k]
      BY <1>1, <1>4, <2>1
    <2>3. audit[c] \in AuditRecord /\ audit'[c] \in AuditRecord
      BY <1>2, <1>4, <2>2 DEF AuditRecord
    <2> QED
      BY <1>3, <2>1, <2>2, <2>3, RowVersions, NoAuditAssumption
  <1>5. CASE c \in S
    <2>1. c \notin Adopted(k) \union U \union D
      BY <1>5 DEF Adopted, Fresh, Updates, Deletes, ToCreate, ToDelete, Matched
    <2>2. audit'[c] = CreateItem(audit[c], k, version[c])
      BY <1>1, <1>5, <2>1
    <2>3. audit[c] # NoAudit => ~OnRemote(audit[c])
      BY <1>5 DEF Fresh, ExistingKeys, Audited
    <2>4. ~OnRemote(CreateItem(audit[c], k, version[c]))
            /\ CreateItem(audit[c], k, version[c]) \in AuditRecord
      BY <1>2, <1>5, <2>3, CreatedRow, CreateItemType
    <2>5. \/ audit'[c].lastChanged = version[c]
          \/ audit[c] # NoAudit /\ audit'[c].lastChanged = audit[c].lastChanged
      BY <1>2, <2>2, CreateItemVersion
    <2> QED
      BY <1>2, <1>3, <1>5, <2>2, <2>4, <2>5, NoAuditAssumption
  <1>6. CASE c \in U \union D /\ c \notin S \union Adopted(k)
    <2>1. PICK a \in Actions : audit'[c] = MarkFor(audit[c], a)
      BY <1>1, <1>6 DEF Actions
    <2>2. audit[c] \in AuditRecord /\ audit'[c] \in AuditRecord
      BY <1>2, <1>6, <2>1, RowTypes
    <2>3. /\ audit'[c].lastChanged = audit[c].lastChanged
          /\ audit'[c].catalog = audit[c].catalog
          /\ OnRemote(audit'[c]) <=> OnRemote(audit[c])
      <3>1. MarkFor(audit[c], a).lastChanged = audit[c].lastChanged
        BY <2>2 DEF MarkFor, AuditRecord
      <3>2. /\ MarkFor(audit[c], a).catalog = audit[c].catalog
            /\ OnRemote(MarkFor(audit[c], a)) <=> OnRemote(audit[c])
        BY <2>2, MarkedRow
      <3> QED
        BY <2>1, <3>1, <3>2
    <2> QED
      BY <1>3, <1>6, <2>2, <2>3, NoAuditAssumption
  <1>7. CASE c \notin S \union U \union D \union Adopted(k)
    <2>1. audit'[c] = audit[c]
      BY <1>1, <1>7
    <2> QED
      BY <1>3, <1>7, <2>1 DEF OnRemote
  <1> QED
    BY <1>4, <1>5, <1>6, <1>7

\* The numbers the comparisons are about.
LEMMA VersionTypes ==
    ASSUME TypeInvariant, NEW c \in Content
    PROVE  /\ remote[c] \in Nat /\ version[c] \in Nat
           /\ audit[c] # NoAudit => audit[c] \in AuditRecord /\ audit[c].lastChanged \in Nat
           /\ \A a \in Actions : payload[a][c] # NoAudit =>
                payload[a][c] \in AuditRecord /\ payload[a][c].lastChanged \in Nat
  <1>1. remote[c] \in 0..MaxVersion /\ version[c] \in Versions
    BY DEF TypeInvariant, TypeOK
  <1>2. audit[c] # NoAudit => audit[c] \in AuditRecord
    BY DEF TypeInvariant, TypeOK
  <1>3. \A a \in Actions : payload[a][c] # NoAudit => payload[a][c] \in AuditRecord
    BY DEF TypeInvariant, TypeOK
  <1>4. \A r \in AuditRecord : r.lastChanged \in Nat
    BY DEF AuditRecord
  <1> QED
    BY <1>1, <1>2, <1>3, <1>4

\* A process that holds no rows has none that lie behind.
LEMMA EmptyHanded ==
    ASSUME payload' = NoPayload, batch' = NoBatch
    PROVE  CopiesCurrent' /\ SelectedOnce' /\ CopiesOrdered'
  <1>1. \A a \in Actions : \A c \in Content : payload'[a][c] = NoAudit /\ c \notin batch'[a]
    BY DEF NoPayload, NoBatch
  <1>2. CopiesCurrent'
    BY <1>1 DEF CopiesCurrent
  <1>3. SelectedOnce'
    BY <1>1 DEF SelectedOnce, Selected
  <1>4. CopiesOrdered'
    BY <1>1 DEF CopiesOrdered, Pending, Actions
  <1> QED
    BY <1>2, <1>3, <1>4

\* The published version of an item may move on, and nothing else.
LEMMA FrameMirrored ==
    ASSUME TypeInvariant, TypeInvariant', Mirrored,
           UNCHANGED <<audit, payload, batch, remote, pc, todo>>,
           \A c \in Content : version[c] <= version'[c]
    PROVE  Mirrored'
  <1>1. \A c \in Content : version[c] \in Nat /\ version'[c] \in Nat
    BY VersionTypes DEF TypeInvariant, TypeOK
  <1>2. RowsCurrent'
    <2> SUFFICES ASSUME NEW c \in Content PROVE RowCurrent(c)'
      BY DEF RowsCurrent
    <2>1. RowCurrent(c) /\ remote[c] \in Nat /\ (audit[c] # NoAudit => audit[c].lastChanged \in Nat)
      BY VersionTypes DEF Mirrored, RowsCurrent
    <2> QED
      BY <1>1, <2>1 DEF RowCurrent
  <1>3. CopiesCurrent'
    BY DEF Mirrored, CopiesCurrent
  <1>4. SelectedOnce'
    BY DEF Mirrored, SelectedOnce, Selected, OnRemote
  <1>5. CopiesOrdered'
    BY DEF Mirrored, CopiesOrdered, Pending
  <1> QED
    BY <1>2, <1>3, <1>4, <1>5 DEF Mirrored

LEMMA DiffRowsCurrent ==
    ASSUME TypeInvariant, RowsCurrent, NEW k \in Catalogs,
           NEW S \in SUBSET Fresh(k), NEW U \in SUBSET Updates(k), NEW D \in SUBSET Deletes(k),
           \A c \in S : ~InsertConflict(audit[c]),
           WriteDiff(k, S, U, D), UNCHANGED <<version, remote>>
    PROVE  RowsCurrent'
  <1> SUFFICES ASSUME NEW c \in Content PROVE RowCurrent(c)'
    BY DEF RowsCurrent
  <1>1. /\ audit'[c] # NoAudit => /\ audit'[c].lastChanged \in Versions
                                  /\ audit'[c].lastChanged <= version[c]
        /\ audit[c] # NoAudit =>
             audit'[c] # NoAudit /\ audit[c].lastChanged <= audit'[c].lastChanged
    BY DiffVersions
  <1>2. remote[c] \in Nat /\ (audit[c] # NoAudit => audit[c].lastChanged \in Nat)
    BY VersionTypes
  <1> QED
    BY <1>1, <1>2 DEF RowsCurrent, RowCurrent

\* Metadata lifts the rows of described items to the published versions.
LEMMA MetadataRowsCurrent ==
    ASSUME TypeInvariant, RowsCurrent, current \in Catalogs, NEW S \in SUBSET Described,
           audit' = [c \in Content |-> IF c \in S THEN WithMetadata(c) ELSE audit[c]],
           UNCHANGED <<version, remote>>
    PROVE  /\ RowsCurrent'
           /\ \A c \in Content : audit[c] # NoAudit =>
                /\ audit'[c] # NoAudit
                /\ audit[c].lastChanged <= audit'[c].lastChanged
                /\ OnRemote(audit'[c]) <=> OnRemote(audit[c])
                /\ audit'[c].catalog \in {audit[c].catalog, current}
           /\ \A c \in S : audit'[c] \in AuditRecord /\ audit'[c].lastChanged = version[c]
  <1>1. ASSUME NEW c \in S
        PROVE  /\ c \in Content /\ audit[c] \in AuditRecord
               /\ audit'[c] \in AuditRecord /\ audit'[c].lastChanged = version[c]
               /\ audit'[c].catalog = current
               /\ OnRemote(audit'[c]) <=> OnRemote(audit[c])
    <2>1. c \in Content /\ audit[c] \in AuditRecord /\ WithMetadata(c) \in AuditRecord
      BY DescribedType
    <2>2. audit'[c] = WithMetadata(c)
      BY <2>1
    <2>3. WithMetadata(c).lastChanged = version[c]
      BY <2>1 DEF WithMetadata, AuditRecord
    <2>4. /\ WithMetadata(c).catalog = current
          /\ OnRemote(WithMetadata(c)) <=> OnRemote(audit[c])
      BY <2>1, DescribedRow
    <2> QED
      BY <2>1, <2>2, <2>3, <2>4
  <1>2. ASSUME NEW c \in Content
        PROVE  /\ remote[c] \in Nat /\ version[c] \in Nat
               /\ audit[c] # NoAudit => audit[c].lastChanged \in Nat
               /\ RowCurrent(c)
    BY VersionTypes DEF RowsCurrent
  <1>3. ASSUME NEW c \in Content, c \notin S PROVE audit'[c] = audit[c]
    BY <1>3
  <1>4. RowsCurrent'
    <2> SUFFICES ASSUME NEW c \in Content PROVE RowCurrent(c)'
      BY DEF RowsCurrent
    <2> QED
      BY <1>1, <1>2, <1>3, NoAuditAssumption DEF RowCurrent
  <1>5. ASSUME NEW c \in Content, audit[c] # NoAudit
        PROVE  /\ audit'[c] # NoAudit
               /\ audit[c].lastChanged <= audit'[c].lastChanged
               /\ OnRemote(audit'[c]) <=> OnRemote(audit[c])
               /\ audit'[c].catalog \in {audit[c].catalog, current}
    <2>1. CASE c \in S
      BY <1>1, <1>2, <1>5, <2>1, NoAuditAssumption DEF RowCurrent
    <2>2. CASE c \notin S
      BY <1>2, <1>3, <1>5, <2>2 DEF OnRemote
    <2> QED
      BY <2>1, <2>2
  <1> QED
    BY <1>1, <1>4, <1>5

\* An export selects items that no earlier catalog of the run has selected,
\* except to be created twice over.
LEMMA DiffMirrored ==
    ASSUME TypeInvariant, PhaseOK, Mirrored, NEW k \in Catalogs, ExportDiff(k)
    PROVE  Mirrored'
  <1>1. PICK C \in SUBSET Fresh(k), U \in SUBSET Updates(k), D \in SUBSET Deletes(k) :
          batch' = [create |-> C, update |-> U, delete |-> D]
    BY DEF ExportDiff, Slices
  <1>2. /\ pc = "diff" /\ k \in todo /\ todo' = todo \ {k} /\ pc' = "metadata"
        /\ UNCHANGED <<version, payload, remote>>
        /\ \A c \in Fresh(k) : ~InsertConflict(audit[c])
        /\ WriteDiff(k, Fresh(k), Updates(k), Deletes(k))
    BY DEF ExportDiff, service
  <1>3. RowsCurrent /\ CopiesCurrent /\ SelectedOnce
    BY DEF Mirrored
  <1>4. ASSUME NEW c \in Content
        PROVE  /\ audit'[c] # NoAudit => audit'[c].lastChanged \in Nat
               /\ audit[c] # NoAudit =>
                    audit'[c] # NoAudit /\ audit[c].lastChanged <= audit'[c].lastChanged
               /\ c \in Fresh(k) => audit'[c] # NoAudit /\ ~OnRemote(audit'[c])
               /\ c \notin Fresh(k) /\ audit[c] # NoAudit =>
                    /\ OnRemote(audit'[c]) <=> OnRemote(audit[c])
                    /\ audit'[c].catalog \in {audit[c].catalog, k}
    <2>1. Fresh(k) \in SUBSET Fresh(k) /\ Updates(k) \in SUBSET Updates(k)
            /\ Deletes(k) \in SUBSET Deletes(k)
      OBVIOUS
    <2> QED
      BY <1>2, <1>3, <2>1, DiffVersions
  <1>5. RowsCurrent'
    <2>1. Fresh(k) \in SUBSET Fresh(k) /\ Updates(k) \in SUBSET Updates(k)
            /\ Deletes(k) \in SUBSET Deletes(k)
      OBVIOUS
    <2> QED
      BY <1>2, <1>3, <2>1, DiffRowsCurrent
  <1>6. CopiesCurrent'
    <2> SUFFICES ASSUME NEW a \in Actions, NEW c \in Content, payload[a][c] # NoAudit
                 PROVE  /\ audit'[c] # NoAudit
                        /\ remote[c] <= payload[a][c].lastChanged
                        /\ payload[a][c].lastChanged <= audit'[c].lastChanged
      BY <1>2 DEF CopiesCurrent
    <2>1. /\ audit[c] # NoAudit
          /\ remote[c] <= payload[a][c].lastChanged
          /\ payload[a][c].lastChanged <= audit[c].lastChanged
      BY <1>3 DEF CopiesCurrent
    <2>2. payload[a][c].lastChanged \in Nat /\ audit[c].lastChanged \in Nat
      BY <2>1, VersionTypes
    <2> QED
      BY <1>4, <2>1, <2>2
  \* What the batch adds.
  <1>7. /\ Fresh(k) \subseteq Content
        /\ \A c \in Updates(k) \union Deletes(k) :
             /\ c \in Content /\ c \notin Fresh(k)
             /\ audit[c] # NoAudit /\ OnRemote(audit[c]) /\ audit[c].catalog = k
        /\ \A c \in Fresh(k) : audit[c] # NoAudit => ~OnRemote(audit[c])
        /\ Updates(k) \intersect Deletes(k) = {}
    BY DEF Fresh, Updates, Deletes, ToCreate, ToDelete, Matched, ContentKeys, ExistingKeys, Audited,
           TypeInvariant, TypeOK
  <1>8. /\ batch'["create"] \subseteq Fresh(k) /\ batch'["update"] \subseteq Updates(k)
        /\ batch'["delete"] \subseteq Deletes(k)
    BY <1>1
  <1>9. ASSUME NEW a \in Actions, NEW c \in Content, payload[a][c] # NoAudit
        PROVE  /\ audit[c] # NoAudit
               /\ IF a = "create" THEN ~OnRemote(audit[c])
                  ELSE OnRemote(audit[c]) /\ audit[c].catalog \notin todo
               /\ \A b \in Actions : payload[b][c] # NoAudit => b = a
               /\ \A b \in Actions : c \in batch'[b] => b = a /\ a = "create"
    <2>1. /\ audit[c] # NoAudit
          /\ IF a = "create" THEN ~OnRemote(audit[c])
             ELSE OnRemote(audit[c]) /\ audit[c].catalog \notin todo
          /\ \A b \in Actions : payload[b][c] # NoAudit => b = a
      BY <1>2, <1>3, <1>9 DEF SelectedOnce, Selected
    <2> QED
      BY <1>2, <1>7, <1>8, <2>1 DEF Actions
  <1>10. ASSUME NEW a \in Actions, NEW c \in Content, Selected(a, c)'
         PROVE  /\ audit'[c] # NoAudit
                /\ IF a = "create" THEN ~OnRemote(audit'[c])
                   ELSE OnRemote(audit'[c]) /\ audit'[c].catalog \notin todo'
                /\ \A b \in Actions : Selected(b, c)' => b = a
    <2>1. payload[a][c] # NoAudit \/ c \in batch'[a]
      BY <1>2, <1>10 DEF Selected
    <2>2. CASE payload[a][c] # NoAudit
      <3>1. \A b \in Actions : Selected(b, c)' => b = a
        BY <1>2, <1>9, <2>2 DEF Selected
      <3>2. CASE c \in Fresh(k)
        BY <1>4, <1>7, <1>9, <2>2, <3>1, <3>2
      <3>3. CASE c \notin Fresh(k)
        BY <1>2, <1>4, <1>9, <2>2, <3>1, <3>3
      <3> QED
        BY <3>2, <3>3
    <2>3. CASE payload[a][c] = NoAudit /\ c \in batch'[a]
      <3>1. \A b \in Actions : payload[b][c] = NoAudit
        BY <1>9, <2>3
      <3>2. \A b \in Actions : Selected(b, c)' => b = a
        BY <1>2, <1>7, <1>8, <2>3, <3>1 DEF Selected, Actions
      <3>3. CASE a = "create"
        BY <1>4, <1>8, <2>3, <3>2, <3>3
      <3>4. CASE a # "create"
        <4>1. c \in Updates(k) \union Deletes(k)
          BY <1>8, <2>3, <3>4 DEF Actions
        <4> QED
          BY <1>2, <1>4, <1>7, <3>2, <3>4, <4>1
      <3> QED
        BY <3>3, <3>4
    <2> QED
      BY <2>1, <2>2, <2>3
  <1>11. SelectedOnce'
    <2> SUFFICES ASSUME NEW a \in Actions, NEW c \in Content, Selected(a, c)'
                 PROVE  /\ audit'[c] # NoAudit
                        /\ IF a = "create" THEN ~OnRemote(audit'[c])
                           ELSE OnRemote(audit'[c]) /\ audit'[c].catalog \notin todo'
                        /\ \A b \in Actions : Selected(b, c)' => b = a
      BY DEF SelectedOnce, OnRemote
    <2> QED
      BY <1>10
  <1>12. CopiesOrdered'
    BY <1>2 DEF CopiesOrdered, Actions
  <1> QED
    BY <1>5, <1>6, <1>11, <1>12 DEF Mirrored

LEMMA MetadataMirrored ==
    ASSUME TypeInvariant, PhaseOK, Mirrored, ExportMetadata
    PROVE  Mirrored'
  <1>1. /\ pc = "metadata" /\ pc' = "diff" /\ batch' = NoBatch
        /\ UNCHANGED <<version, remote, todo>>
        /\ audit' = [c \in Content |-> IF c \in Described THEN WithMetadata(c) ELSE audit[c]]
        /\ payload' = [a \in Actions |->
                         [c \in Content |-> IF c \in batch[a] THEN audit'[c] ELSE payload[a][c]]]
    BY DEF ExportMetadata, service
  <1>2. current \in Catalogs /\ current \notin todo
    BY <1>1 DEF PhaseOK
  <1>3. RowsCurrent /\ CopiesCurrent /\ SelectedOnce
    BY DEF Mirrored
  <1>4. /\ RowsCurrent'
        /\ \A c \in Content : audit[c] # NoAudit =>
             /\ audit'[c] # NoAudit
             /\ audit[c].lastChanged <= audit'[c].lastChanged
             /\ OnRemote(audit'[c]) <=> OnRemote(audit[c])
             /\ audit'[c].catalog \in {audit[c].catalog, current}
    <2>1. Described \in SUBSET Described
      OBVIOUS
    <2> QED
      BY <1>1, <1>2, <1>3, <2>1, MetadataRowsCurrent
  <1>5. \A a \in Actions : \A c \in Content :
          payload'[a][c] = IF c \in batch[a] THEN audit'[c] ELSE payload[a][c]
    BY <1>1
  <1>6. TypeInvariant'
    BY TypeStep DEF Next, Run
  <1>7. CopiesCurrent'
    <2> SUFFICES ASSUME NEW a \in Actions, NEW c \in Content, payload'[a][c] # NoAudit
                 PROVE  /\ audit'[c] # NoAudit
                        /\ remote[c] <= payload'[a][c].lastChanged
                        /\ payload'[a][c].lastChanged <= audit'[c].lastChanged
      BY <1>1 DEF CopiesCurrent
    <2>1. CASE c \in batch[a]
      <3>1. payload'[a][c] = audit'[c]
        BY <1>5, <2>1
      <3>2. RowCurrent(c)' /\ audit'[c].lastChanged \in Nat
        BY <1>4, <1>6, <3>1, VersionTypes DEF RowsCurrent, TypeInvariant, TypeOK, AuditRecord
      <3> QED
        BY <1>1, <3>1, <3>2 DEF RowCurrent
    <2>2. CASE c \notin batch[a]
      <3>1. /\ payload'[a][c] = payload[a][c] /\ audit[c] # NoAudit
            /\ remote[c] <= payload[a][c].lastChanged
            /\ payload[a][c].lastChanged <= audit[c].lastChanged
        BY <1>3, <1>5, <2>2 DEF CopiesCurrent
      <3>2. payload[a][c].lastChanged \in Nat /\ audit[c].lastChanged \in Nat
        BY <3>1, VersionTypes
      <3>3. audit'[c] # NoAudit /\ audit'[c].lastChanged \in Nat
        BY <1>4, <1>6, <3>1 DEF TypeInvariant, TypeOK, AuditRecord
      <3> QED
        BY <1>4, <3>1, <3>2, <3>3
    <2> QED
      BY <2>1, <2>2
  <1>8. ASSUME NEW a \in Actions, NEW c \in Content, Selected(a, c)' PROVE Selected(a, c)
    BY <1>1, <1>5, <1>8 DEF Selected, NoBatch
  <1>9. SelectedOnce'
    <2> SUFFICES ASSUME NEW a \in Actions, NEW c \in Content, Selected(a, c)'
                 PROVE  /\ audit'[c] # NoAudit
                        /\ IF a = "create" THEN ~OnRemote(audit'[c])
                           ELSE OnRemote(audit'[c]) /\ audit'[c].catalog \notin todo
                        /\ \A b \in Actions : Selected(b, c)' => b = a
      BY <1>1 DEF SelectedOnce, OnRemote
    <2>1. /\ audit[c] # NoAudit
          /\ IF a = "create" THEN ~OnRemote(audit[c])
             ELSE OnRemote(audit[c]) /\ audit[c].catalog \notin todo
          /\ \A b \in Actions : Selected(b, c) => b = a
      BY <1>1, <1>3, <1>8 DEF SelectedOnce
    <2> QED
      BY <1>2, <1>4, <1>8, <2>1
  <1>10. CopiesOrdered'
    BY <1>1 DEF CopiesOrdered, Actions
  <1> QED
    BY <1>4, <1>7, <1>9, <1>10 DEF Mirrored

\* What is left of c in the memory of a run while its action a is sent.
LEMMA OtherCopies ==
    ASSUME CopiesOrdered, pc \in Actions, NEW c \in Content, NEW a \in Actions,
           payload[pc][c] # NoAudit, payload[a][c] # NoAudit, a # pc
    PROVE  pc = "delete" /\ payload[a][c].lastChanged <= payload[pc][c].lastChanged
  <1>1. Pending(c, pc)
    BY DEF CopiesOrdered
  <1>2. pc = "delete"
    BY <1>1 DEF Pending, Actions
  <1> QED
    BY <1>1, <1>2 DEF Pending

\* What a call shows is not older than what is shown, and what it leaves in
\* memory is not older than that.
LEMMA SendMirrored ==
    ASSUME TypeInvariant, Mirrored, Send
    PROVE  Mirrored'
  <1>1. PICK applied \in SUBSET InPayload(pc) :
          remote' = [c \in Content |->
                 IF c \notin applied THEN remote[c]
                 ELSE IF pc = "delete" THEN Absent ELSE payload[pc][c].lastChanged]
    BY DEF Send, Slices
  <1>2. pc \in Actions /\ UNCHANGED <<version, audit, pc, todo, batch, payload>>
    BY DEF Send, service
  <1>3. RowsCurrent /\ CopiesCurrent /\ SelectedOnce /\ CopiesOrdered
    BY DEF Mirrored
  <1>4. ASSUME NEW c \in Content
        PROVE  \/ remote'[c] = remote[c]
               \/ remote'[c] = Absent
               \/ /\ pc # "delete" /\ payload[pc][c] # NoAudit
                  /\ remote'[c] = payload[pc][c].lastChanged
    BY <1>1 DEF InPayload
  <1>5. RowsCurrent'
    <2> SUFFICES ASSUME NEW c \in Content PROVE RowCurrent(c)'
      BY DEF RowsCurrent
    <2>1. /\ RowCurrent(c) /\ remote[c] \in Nat /\ version[c] \in Nat
          /\ audit[c] # NoAudit => audit[c].lastChanged \in Nat
      BY <1>3, VersionTypes DEF RowsCurrent
    <2>2. payload[pc][c] # NoAudit =>
            /\ audit[c] # NoAudit
            /\ payload[pc][c].lastChanged \in Nat
            /\ payload[pc][c].lastChanged <= audit[c].lastChanged
      BY <1>2, <1>3, VersionTypes DEF CopiesCurrent
    <2> QED
      BY <1>2, <1>4, <2>1, <2>2 DEF RowCurrent
  <1>6. CopiesCurrent'
    <2> SUFFICES ASSUME NEW a \in Actions, NEW c \in Content, payload[a][c] # NoAudit
                 PROVE  /\ audit[c] # NoAudit
                        /\ remote'[c] <= payload[a][c].lastChanged
                        /\ payload[a][c].lastChanged <= audit[c].lastChanged
      BY <1>2 DEF CopiesCurrent
    <2>1. /\ audit[c] # NoAudit
          /\ remote[c] <= payload[a][c].lastChanged
          /\ payload[a][c].lastChanged <= audit[c].lastChanged
          /\ payload[a][c].lastChanged \in Nat
      BY <1>3, VersionTypes DEF CopiesCurrent
    <2>2. pc # "delete" /\ payload[pc][c] # NoAudit => a = pc
      BY <1>2, <1>3, OtherCopies
    <2> QED
      BY <1>4, <2>1, <2>2
  <1>7. SelectedOnce'
    BY <1>2 DEF SelectedOnce, Actions
  <1>8. CopiesOrdered'
    BY <1>2, <1>3 DEF CopiesOrdered, Pending
  <1> QED
    BY <1>5, <1>6, <1>7, <1>8 DEF Mirrored

LEMMA SaveMirrored ==
    ASSUME TypeInvariant, PhaseOK, Mirrored, NEW c \in Content, SaveResult(c)
    PROVE  Mirrored'
  <1>1. /\ c \in inflight.items
        /\ audit' = [audit EXCEPT ![c] = Transmitted(payload[pc][c], pc, inflight.status)]
        /\ payload' = [payload EXCEPT ![pc][c] = NoAudit]
        /\ UNCHANGED <<version, remote, pc, todo, batch>>
    BY DEF SaveResult, service
  <1>2. /\ pc \in Actions /\ payload[pc][c] # NoAudit /\ payload[pc][c] \in AuditRecord
        /\ inflight.status \in Statuses
    BY <1>1 DEF TypeInvariant, TypeOK, RowsExist
  <1>3. RowsCurrent /\ CopiesCurrent /\ SelectedOnce /\ CopiesOrdered
    BY DEF Mirrored
  <1>4. /\ audit'[c] = Transmitted(payload[pc][c], pc, inflight.status)
        /\ \A d \in Content \ {c} : audit'[d] = audit[d]
    BY <1>1 DEF TypeInvariant, TypeOK
  <1>5. \A a \in Actions : \A d \in Content :
          payload'[a][d] = IF a = pc /\ d = c THEN NoAudit ELSE payload[a][d]
    BY <1>1 DEF TypeInvariant, TypeOK
  <1>6. audit'[c] \in AuditRecord /\ audit'[c].lastChanged = payload[pc][c].lastChanged
    <2>1. Transmitted(payload[pc][c], pc, inflight.status) \in AuditRecord
      BY <1>2, TransmittedType
    <2>2. Transmitted(payload[pc][c], pc, inflight.status).lastChanged = payload[pc][c].lastChanged
      BY <1>2 DEF Transmitted, AuditRecord
    <2> QED
      BY <1>4, <2>1, <2>2
  <1>7. /\ payload[pc][c].lastChanged \in Nat /\ audit[c].lastChanged \in Nat
        /\ audit[c] # NoAudit /\ remote[c] \in Nat /\ version[c] \in Nat
        /\ remote[c] <= payload[pc][c].lastChanged
        /\ payload[pc][c].lastChanged <= audit[c].lastChanged
        /\ RowCurrent(c)
    BY <1>2, <1>3, VersionTypes DEF CopiesCurrent, RowsCurrent
  <1>8. RowsCurrent'
    <2> SUFFICES ASSUME NEW d \in Content PROVE RowCurrent(d)'
      BY DEF RowsCurrent
    <2>1. CASE d = c
      BY <1>1, <1>6, <1>7, <2>1, NoAuditAssumption DEF RowCurrent
    <2>2. CASE d # c
      BY <1>1, <1>3, <1>4, <2>2 DEF RowsCurrent, RowCurrent
    <2> QED
      BY <2>1, <2>2
  <1>9. CopiesCurrent'
    <2> SUFFICES ASSUME NEW a \in Actions, NEW d \in Content, payload'[a][d] # NoAudit
                 PROVE  /\ audit'[d] # NoAudit
                        /\ remote[d] <= payload'[a][d].lastChanged
                        /\ payload'[a][d].lastChanged <= audit'[d].lastChanged
      BY <1>1 DEF CopiesCurrent
    <2>1. /\ payload'[a][d] = payload[a][d] /\ audit[d] # NoAudit
          /\ remote[d] <= payload[a][d].lastChanged
          /\ payload[a][d].lastChanged <= audit[d].lastChanged
          /\ d = c => a # pc
      BY <1>3, <1>5 DEF CopiesCurrent
    <2>2. CASE d = c
      <3>1. payload[a][c].lastChanged <= payload[pc][c].lastChanged
        BY <1>2, <1>3, <1>5, <2>1, <2>2, OtherCopies
      <3> QED
        BY <1>6, <2>1, <2>2, <3>1, NoAuditAssumption
    <2>3. CASE d # c
      BY <1>4, <2>1, <2>3
    <2> QED
      BY <2>2, <2>3
  <1>10. SelectedOnce'
    BY <1>1, <1>2 DEF SelectedOnce, Actions
  <1>11. CopiesOrdered'
    <2> SUFFICES ASSUME NEW d \in Content PROVE Pending(d, pc)'
      BY <1>1 DEF CopiesOrdered
    <2>1. Pending(d, pc)
      BY <1>2, <1>3 DEF CopiesOrdered
    <2>2. \A a \in Actions : payload'[a][d] # NoAudit => payload'[a][d] = payload[a][d]
      BY <1>5
    <2> QED
      BY <1>1, <2>1, <2>2 DEF Pending, Actions
  <1> QED
    BY <1>8, <1>9, <1>10, <1>11 DEF Mirrored

\* The orphan step adds copies of the rows as they are to the deletes.
LEMMA CollectMirrored ==
    ASSUME TypeInvariant, Mirrored, CollectOrphans
    PROVE  Mirrored'
  <1>1. PICK S :
          payload' = IF OrphanRemoval
                     THEN [payload EXCEPT !["delete"] = [c \in Content |->
                             IF c \in S THEN audit[c] ELSE payload["delete"][c]]]
                     ELSE payload
    BY DEF CollectOrphans
  <1>2. pc = "diff" /\ pc' = "delete" /\ UNCHANGED <<version, audit, remote, batch>>
    BY DEF CollectOrphans, service
  <1>3. RowsCurrent /\ CopiesCurrent /\ SelectedOnce
    BY DEF Mirrored
  <1>4. ASSUME NEW c \in Content
        PROVE  /\ \A a \in Actions \ {"delete"} : payload'[a][c] = payload[a][c]
               /\ payload'["delete"][c] \in {payload["delete"][c], audit[c]}
    BY <1>1 DEF TypeInvariant, TypeOK, Actions
  <1>5. RowsCurrent'
    BY <1>2, <1>3 DEF RowsCurrent, RowCurrent
  <1>6. ASSUME NEW a \in Actions, NEW c \in Content, payload[a][c] # NoAudit
        PROVE  /\ audit[c] # NoAudit
               /\ remote[c] <= payload[a][c].lastChanged
               /\ payload[a][c].lastChanged <= audit[c].lastChanged
               /\ payload[a][c].lastChanged \in Nat
               /\ \A b \in Actions : payload[b][c] # NoAudit => b = a
    <2>1. \A b \in Actions : payload[b][c] # NoAudit => b = a
      BY <1>2, <1>3, <1>6 DEF SelectedOnce, Selected
    <2> QED
      BY <1>3, <1>6, <2>1, VersionTypes DEF CopiesCurrent
  <1>7. ASSUME NEW c \in Content, audit[c] # NoAudit
        PROVE  remote[c] <= audit[c].lastChanged /\ audit[c].lastChanged \in Nat
    BY <1>3, <1>7, VersionTypes DEF RowsCurrent, RowCurrent
  <1>8. CopiesCurrent'
    <2> SUFFICES ASSUME NEW a \in Actions, NEW c \in Content, payload'[a][c] # NoAudit
                 PROVE  /\ audit[c] # NoAudit
                        /\ remote[c] <= payload'[a][c].lastChanged
                        /\ payload'[a][c].lastChanged <= audit[c].lastChanged
      BY <1>2 DEF CopiesCurrent
    <2>1. CASE payload'[a][c] = payload[a][c]
      BY <1>6, <2>1
    <2>2. CASE payload'[a][c] = audit[c]
      BY <1>7, <2>2
    <2> QED
      BY <1>4, <2>1, <2>2
  <1>9. SelectedOnce'
    BY <1>2 DEF SelectedOnce
  <1>10. CopiesOrdered'
    <2> SUFFICES ASSUME NEW c \in Content PROVE Pending(c, "delete")'
      BY <1>2 DEF CopiesOrdered
    <2>1. payload'["create"][c] = NoAudit \/ payload'["update"][c] = NoAudit
      BY <1>4, <1>6 DEF Actions
    <2>2. ASSUME payload'["delete"][c] # NoAudit,
                 NEW b \in Actions, payload'[b][c] # NoAudit
          PROVE  payload'[b][c].lastChanged <= payload'["delete"][c].lastChanged
      <3>1. payload'["delete"][c].lastChanged \in Nat
        BY <1>4, <1>6, <1>7, <2>2 DEF Actions
      <3>2. CASE b = "delete"
        BY <3>1, <3>2
      <3>3. CASE b # "delete"
        <4>1. payload'[b][c] = payload[b][c] /\ payload[b][c] # NoAudit
          BY <1>4, <2>2, <3>3
        <4>2. payload["delete"][c] = NoAudit
          BY <1>6, <3>3, <4>1 DEF Actions
        <4>3. payload'["delete"][c] = audit[c]
          BY <1>4, <2>2, <4>2
        <4> QED
          BY <1>6, <4>1, <4>3
      <3> QED
        BY <3>2, <3>3
    <2> QED
      BY <2>1, <2>2 DEF Pending
  <1> QED
    BY <1>5, <1>8, <1>9, <1>10 DEF Mirrored

LEMMA FinishMirrored ==
    ASSUME TypeInvariant, PhaseOK, Mirrored, FinishAction
    PROVE  Mirrored'
  <1>1. pc \in Actions /\ UNCHANGED <<version, audit, remote>>
    BY DEF FinishAction, service
  <1>2. RowsCurrent /\ CopiesCurrent /\ CopiesOrdered
    BY DEF Mirrored
  <1>3. RowsCurrent'
    BY <1>1, <1>2 DEF RowsCurrent, RowCurrent
  <1>4. CASE pc = "update"
    BY <1>3, <1>4, EmptyHanded DEF FinishAction, EndRun, Mirrored
  <1>5. CASE pc # "update"
    <2>1. /\ pc' = IF pc = "delete" THEN "create" ELSE "update"
          /\ payload' = [payload EXCEPT ![pc] = NoPayload[pc]]
      BY <1>5 DEF FinishAction
    <2>2. \A a \in Actions : \A c \in Content :
            payload'[a][c] = IF a = pc THEN NoAudit ELSE payload[a][c]
      BY <1>1, <2>1 DEF NoPayload, TypeInvariant, TypeOK
    <2>3. CopiesCurrent'
      BY <1>1, <1>2, <2>2 DEF CopiesCurrent
    <2>4. SelectedOnce'
      BY <1>5, <2>1 DEF SelectedOnce
    <2>5. CopiesOrdered'
      <3> SUFFICES ASSUME NEW c \in Content PROVE Pending(c, pc)'
        BY DEF CopiesOrdered
      <3>1. Pending(c, pc)
        BY <1>1, <1>2 DEF CopiesOrdered
      <3> QED
        BY <1>1, <1>5, <2>1, <2>2, <3>1 DEF Pending, Actions
    <2> QED
      BY <1>3, <2>3, <2>4, <2>5 DEF Mirrored
  <1> QED
    BY <1>4, <1>5

LEMMA MirroredStep ==
    ASSUME TypeInvariant, TypeInvariant', PhaseOK, Mirrored, [Next]_vars
    PROVE  Mirrored'
  <1>1. RowsCurrent /\ (\A c \in Content : version[c] \in Nat)
    BY VersionTypes DEF Mirrored
  <1>2. ASSUME UNCHANGED <<audit, remote, version>>, payload' = NoPayload, batch' = NoBatch
        PROVE  Mirrored'
    <2>1. RowsCurrent'
      BY <1>1, <1>2 DEF RowsCurrent, RowCurrent
    <2> QED
      BY <1>2, <2>1, EmptyHanded DEF Mirrored
  <1>3. CASE StartRun
    BY <1>2, <1>3 DEF StartRun, PhaseOK, service
  <1>4. ASSUME NEW k \in Catalogs, ExportDiff(k) PROVE Mirrored'
    BY <1>4, DiffMirrored
  <1>5. ASSUME NEW k \in Catalogs, ExportConflict(k) PROVE Mirrored'
    <2>1. PICK S \in SUBSET Fresh(k) :
            (\A c \in S : ~InsertConflict(audit[c])) /\ WriteDiff(k, S, {}, {})
      BY <1>5 DEF ExportConflict
    <2>2. {} \in SUBSET Updates(k) /\ {} \in SUBSET Deletes(k) /\ UNCHANGED <<version, remote>>
      BY <1>5 DEF ExportConflict, service
    <2>3. RowsCurrent'
      BY <1>1, <2>1, <2>2, DiffRowsCurrent
    <2> QED
      BY <1>5, <2>3, EmptyHanded DEF ExportConflict, EndRun, Mirrored
  <1>6. CASE ExportMetadata
    BY <1>6, MetadataMirrored
  <1>7. CASE ExportMetadataMissing
    <2>1. PICK S \in SUBSET Described :
            audit' = [c \in Content |-> IF c \in S THEN WithMetadata(c) ELSE audit[c]]
      BY <1>7 DEF ExportMetadataMissing
    <2>2. current \in Catalogs /\ UNCHANGED <<version, remote>>
      BY <1>7 DEF ExportMetadataMissing, PhaseOK, service
    <2>3. RowsCurrent'
      BY <1>1, <2>1, <2>2, MetadataRowsCurrent
    <2> QED
      BY <1>7, <2>3, EmptyHanded DEF ExportMetadataMissing, EndRun, Mirrored
  <1>8. CASE CollectOrphans
    BY <1>8, CollectMirrored
  <1>9. CASE Send
    BY <1>9, SendMirrored
  <1>10. ASSUME NEW c \in Content, SaveResult(c) PROVE Mirrored'
    BY <1>10, SaveMirrored
  <1>11. CASE FinishAction
    BY <1>11, FinishMirrored
  <1>12. CASE Abort
    BY <1>2, <1>12 DEF Abort, EndRun, service
  <1>13. CASE OrphanTask
    <2>1. UNCHANGED <<audit, payload, batch, remote, pc, todo, version>>
      BY <1>13 DEF OrphanTask, FetchOrphans, MarkOrphan, run, service
    <2>2. \A c \in Content : version[c] <= version'[c]
      BY <1>1, <2>1
    <2> QED
      BY <2>1, <2>2, FrameMirrored
  <1>14. CASE Environment
    <2>1. ASSUME NEW c \in Content, AgeError(c) PROVE Mirrored'
      <3>1. /\ pc = "idle" /\ UNCHANGED <<version, remote>>
            /\ audit[c] # NoAudit /\ audit' = [audit EXCEPT ![c].errored = "old"]
            /\ payload' = NoPayload /\ batch' = NoBatch
        BY <2>1 DEF AgeError, Audited, PhaseOK, run, service
      <3>2. audit[c] \in AuditRecord
        BY <3>1 DEF TypeInvariant, TypeOK
      <3>3. /\ audit'[c] \in AuditRecord /\ audit'[c].lastChanged = audit[c].lastChanged
            /\ \A d \in Content \ {c} : audit'[d] = audit[d]
        BY <3>1, <3>2 DEF TypeInvariant, TypeOK, AuditRecord
      <3>4. RowsCurrent'
        <4> SUFFICES ASSUME NEW d \in Content PROVE RowCurrent(d)'
          BY DEF RowsCurrent
        <4>1. RowCurrent(d)
          BY <1>1 DEF RowsCurrent
        <4> QED
          BY <3>1, <3>3, <4>1, NoAuditAssumption DEF RowCurrent
      <3> QED
        BY <3>1, <3>4, EmptyHanded DEF Mirrored
    <2>2. ASSUME NEW c \in Content, Publish(c) PROVE Mirrored'
      <3>1. UNCHANGED <<audit, payload, batch, remote, pc, todo>>
        BY <2>2 DEF Publish, run
      <3>2. \A d \in Content : version[d] <= version'[d]
        BY <1>1, <2>2 DEF Publish, TypeInvariant, TypeOK
      <3> QED
        BY <3>1, <3>2, FrameMirrored
    <2>3. ASSUME UNCHANGED <<audit, payload, batch, remote, pc, todo, version>> PROVE Mirrored'
      <3>1. \A d \in Content : version[d] <= version'[d]
        BY <1>1, <2>3
      <3> QED
        BY <2>3, <3>1, FrameMirrored
    <2> QED
      BY <1>14, <2>1, <2>2, <2>3 DEF Environment, EditCatalog, SetCatalogs, run
  <1>15. CASE UNCHANGED vars
    <2>1. \A d \in Content : version[d] <= version'[d]
      BY <1>1, <1>15 DEF vars, service
    <2> QED
      BY <1>15, <2>1, FrameMirrored DEF vars, run
  <1> QED
    BY <1>3, <1>4, <1>5, <1>6, <1>7, <1>8, <1>9, <1>10, <1>11, <1>12, <1>13, <1>14, <1>15
       DEF Next, Run

\* The exporter offers what a catalog lists, the transmitter shows or
\* withdraws what was offered, and nothing else is seen from outside.
LEMMA MirrorStep ==
    ASSUME TypeInvariant, TypeInvariant', PhaseOK, Mirrored, [Next]_vars
    PROVE  [Mirror!Next]_(Mirror!vars)
  <1>1. ASSUME UNCHANGED <<catalogContent, version, remote>>, Audited' = Audited
        PROVE  UNCHANGED Mirror!vars
    BY <1>1 DEF Mirror!vars
  <1>2. ASSUME NEW k \in Catalogs, NEW S \in SUBSET Fresh(k), NEW U \in SUBSET Updates(k),
               NEW D \in SUBSET Deletes(k), \A c \in S : ~InsertConflict(audit[c]),
               WriteDiff(k, S, U, D), UNCHANGED <<catalogContent, version, remote>>
        PROVE  Mirror!Next
    <2>1. S \in SUBSET Content /\ S \subseteq catalogContent[k]
      BY DEF Fresh, ToCreate, TypeInvariant, TypeOK
    <2>2. ASSUME NEW c \in Content
          PROVE  audit'[c] # NoAudit <=> audit[c] # NoAudit \/ c \in S
      BY <1>2, DiffVersions DEF Mirrored
    <2>3. Audited' = Audited \union S
      BY <2>1, <2>2 DEF Audited
    <2>4. Mirror!Offer(k, S)
      BY <1>2, <2>1, <2>3 DEF Mirror!Offer
    <2> QED
      BY <2>1, <2>4 DEF Mirror!Next
  <1>3. ASSUME NEW S \in SUBSET Described, current \in Catalogs,
               audit' = [c \in Content |-> IF c \in S THEN WithMetadata(c) ELSE audit[c]]
        PROVE  Audited' = Audited
    <2>1. ASSUME NEW c \in Content PROVE audit'[c] # NoAudit <=> audit[c] # NoAudit
      <3>1. CASE c \in S
        BY <1>3, <3>1, DescribedType, NoAuditAssumption
      <3>2. CASE c \notin S
        BY <1>3, <3>2
      <3> QED
        BY <3>1, <3>2
    <2> QED
      BY <2>1 DEF Audited
  <1>4. ASSUME NEW c \in Content, NEW r \in AuditRecord, audit[c] # NoAudit,
               audit' = [audit EXCEPT ![c] = r]
        PROVE  Audited' = Audited
    BY <1>4, NoAuditAssumption DEF Audited, TypeInvariant, TypeOK
  <1>5. CASE StartRun
    BY <1>1, <1>5 DEF StartRun, service, Audited
  <1>6. ASSUME NEW k \in Catalogs, ExportDiff(k) PROVE Mirror!Next
    <2>1. Fresh(k) \in SUBSET Fresh(k) /\ Updates(k) \in SUBSET Updates(k)
            /\ Deletes(k) \in SUBSET Deletes(k)
      OBVIOUS
    <2> QED
      BY <1>2, <1>6, <2>1 DEF ExportDiff, service
  <1>7. ASSUME NEW k \in Catalogs, ExportConflict(k) PROVE Mirror!Next
    <2>1. PICK S \in SUBSET Fresh(k) :
            (\A c \in S : ~InsertConflict(audit[c])) /\ WriteDiff(k, S, {}, {})
      BY <1>7 DEF ExportConflict
    <2>2. {} \in SUBSET Updates(k) /\ {} \in SUBSET Deletes(k)
      OBVIOUS
    <2> QED
      BY <1>2, <1>7, <2>1, <2>2 DEF ExportConflict, service
  <1>8. CASE ExportMetadata
    <2>1. Described \in SUBSET Described /\ current \in Catalogs
      BY <1>8 DEF ExportMetadata, PhaseOK
    <2>2. Audited' = Audited
      BY <1>3, <1>8, <2>1 DEF ExportMetadata
    <2> QED
      BY <1>1, <1>8, <2>2 DEF ExportMetadata, service
  <1>9. CASE ExportMetadataMissing
    <2>1. PICK S \in SUBSET Described :
            audit' = [c \in Content |-> IF c \in S THEN WithMetadata(c) ELSE audit[c]]
      BY <1>9 DEF ExportMetadataMissing
    <2>2. current \in Catalogs
      BY <1>9 DEF ExportMetadataMissing, PhaseOK
    <2>3. Audited' = Audited
      BY <1>3, <2>1, <2>2
    <2> QED
      BY <1>1, <1>9, <2>3 DEF ExportMetadataMissing, service
  <1>10. CASE Send
    <2>1. PICK applied \in SUBSET InPayload(pc) :
            remote' = [c \in Content |->
                   IF c \notin applied THEN remote[c]
                   ELSE IF pc = "delete" THEN Absent ELSE payload[pc][c].lastChanged]
      BY <1>10 DEF Send, Slices
    <2>2. pc \in Actions /\ UNCHANGED <<catalogContent, version, audit>> /\ Audited' = Audited
      BY <1>10 DEF Send, service, Audited
    <2>3. applied \in SUBSET Content
      BY DEF InPayload
    <2>4. CASE pc = "delete"
      <3>1. remote' = [c \in Content |-> IF c \in applied THEN 0 ELSE remote[c]]
        BY <2>1, <2>4
      <3>2. Mirror!Withdraw(applied)
        BY <2>2, <3>1 DEF Mirror!Withdraw
      <3> QED
        BY <2>3, <3>2 DEF Mirror!Next
    <2>5. CASE pc # "delete"
      <3>1. ASSUME NEW c \in applied
            PROVE  /\ c \in Audited
                   /\ remote[c] <= remote'[c] /\ remote'[c] \in 1..version[c]
        <4>1. c \in Content /\ payload[pc][c] # NoAudit /\ remote'[c] = payload[pc][c].lastChanged
          BY <2>1, <2>5 DEF InPayload
        <4>2. /\ audit[c] # NoAudit
              /\ remote[c] <= payload[pc][c].lastChanged
              /\ payload[pc][c].lastChanged <= audit[c].lastChanged
              /\ audit[c].lastChanged <= version[c]
          BY <2>2, <4>1 DEF Mirrored, CopiesCurrent, RowsCurrent, RowCurrent
        <4>3. /\ payload[pc][c].lastChanged \in 1..MaxVersion
              /\ audit[c].lastChanged \in 1..MaxVersion /\ version[c] \in Nat
          BY <2>2, <4>1, <4>2, VersionTypes DEF AuditRecord
        <4> QED
          BY <4>1, <4>2, <4>3 DEF Audited
      <3>2. \A c \in Content \ applied : remote'[c] = remote[c]
        BY <2>1
      <3>3. remote' \in [Content -> 0..MaxVersion]
        BY DEF TypeInvariant, TypeOK
      <3>4. Mirror!Show(applied)
        BY <2>2, <3>1, <3>2, <3>3 DEF Mirror!Show
      <3> QED
        BY <2>3, <3>4 DEF Mirror!Next
    <2> QED
      BY <2>4, <2>5
  <1>11. ASSUME NEW c \in Content, SaveResult(c) PROVE UNCHANGED Mirror!vars
    <2>1. /\ audit' = [audit EXCEPT ![c] = Transmitted(payload[pc][c], pc, inflight.status)]
          /\ pc \in Actions /\ payload[pc][c] # NoAudit /\ payload[pc][c] \in AuditRecord
          /\ inflight.status \in Statuses
      BY <1>11 DEF SaveResult, TypeInvariant, TypeOK, RowsExist
    <2>2. Transmitted(payload[pc][c], pc, inflight.status) \in AuditRecord
      BY <2>1, TransmittedType
    <2>3. audit[c] # NoAudit
      BY <2>1 DEF Mirrored, CopiesCurrent
    <2>4. Audited' = Audited
      BY <1>4, <2>1, <2>2, <2>3
    <2> QED
      BY <1>1, <1>11, <2>4 DEF SaveResult, service
  <1>12. CASE CollectOrphans \/ FinishAction \/ Abort \/ OrphanTask
    BY <1>1, <1>12 DEF CollectOrphans, FinishAction, Abort, OrphanTask, FetchOrphans, MarkOrphan,
                       service, Audited
  <1>13. ASSUME NEW k \in Catalogs, NEW c \in Content, EditCatalog(k, c) PROVE Mirror!Next
    <2>1. PICK C \in SUBSET Content : catalogContent' = [catalogContent EXCEPT ![k] = C]
      BY <1>13 DEF EditCatalog, TypeInvariant, TypeOK
    <2>2. Mirror!Edit(k, C)
      BY <1>13, <2>1 DEF EditCatalog, Mirror!Edit, Audited
    <2> QED
      BY <2>2 DEF Mirror!Next
  <1>14. ASSUME NEW c \in Content, Publish(c) PROVE Mirror!Next
    <2>1. Mirror!Publish(c)
      BY <1>14 DEF Publish, Mirror!Publish, Audited
    <2> QED
      BY <2>1 DEF Mirror!Next
  <1>15. ASSUME NEW K \in SUBSET Catalogs, SetCatalogs(K) PROVE UNCHANGED Mirror!vars
    BY <1>1, <1>15 DEF SetCatalogs, Audited
  <1>16. ASSUME NEW c \in Content, AgeError(c) PROVE UNCHANGED Mirror!vars
    <2>1. audit[c] # NoAudit /\ audit' = [audit EXCEPT ![c] = [audit[c] EXCEPT !.errored = "old"]]
      BY <1>16 DEF AgeError, Audited
    <2>2. [audit[c] EXCEPT !.errored = "old"] \in AuditRecord
      <3>1. audit[c] \in AuditRecord
        BY <2>1 DEF TypeInvariant, TypeOK
      <3> QED
        BY <3>1 DEF AuditRecord
    <2>3. Audited' = Audited
      BY <1>4, <2>1, <2>2
    <2> QED
      BY <1>1, <1>16, <2>3 DEF AgeError, service
  <1>17. CASE UNCHANGED vars
    BY <1>1, <1>17 DEF vars, service, Audited
  <1>18. CASE Environment
    BY <1>13, <1>14, <1>15, <1>16, <1>18 DEF Environment
  <1> QED
    BY <1>5, <1>6, <1>7, <1>8, <1>9, <1>10, <1>11, <1>12, <1>17, <1>18 DEF Next, Run

LEMMA InitMirrored == Init => TypeInvariant /\ PhaseOK /\ Mirrored /\ Mirror!Init
  <1> SUFFICES ASSUME Init PROVE TypeInvariant /\ PhaseOK /\ Mirrored /\ Mirror!Init
    OBVIOUS
  <1>1. TypeInvariant /\ PhaseOK
    BY InitInvariant DEF Init, PhaseOK, NoInflight, Actions
  <1>2. /\ \A c \in Content : remote[c] = Absent /\ audit[c] = NoAudit /\ version[c] = 1
        /\ \A a \in Actions : \A c \in Content : payload[a][c] = NoAudit
        /\ pc = "idle"
    BY DEF Init, NoPayload
  <1>3. RowsCurrent /\ CopiesCurrent
    BY <1>2 DEF RowsCurrent, RowCurrent, CopiesCurrent
  <1>4. SelectedOnce /\ CopiesOrdered
    BY <1>2 DEF SelectedOnce, CopiesOrdered, Actions
  <1>5. Mirror!Init
    BY DEF Init, Mirror!Init, Audited
  <1> QED
    BY <1>1, <1>3, <1>4, <1>5 DEF Mirrored

\* Whatever calls fail or take effect without an answer, whichever runs die
\* and wherever items move, the channel is a mirror: the LMS shows only items
\* a catalog has listed, never a version before it is published, and never an
\* older version than it showed.
THEOREM ContentMirrored == Spec => MirrorsContent
  <1> DEFINE Inv == TypeInvariant /\ PhaseOK /\ Mirrored
  <1>1. Init => Inv /\ Mirror!Init
    BY InitMirrored
  <1>2. Inv /\ [Next]_vars => Inv'
    <2> SUFFICES ASSUME Inv, [Next]_vars PROVE Inv'
      OBVIOUS
    <2>1. TypeInvariant' /\ PhaseOK'
      BY TypeStep, PhaseStep
    <2> QED
      BY <2>1, MirroredStep
  <1>3. Inv /\ Inv' /\ [Next]_vars => [Mirror!Next]_(Mirror!vars)
    BY MirrorStep
  <1> QED
    BY <1>1, <1>2, <1>3, PTL DEF Spec, MirrorsContent, Mirror!Spec

\* What the mirror promises: an item in the LMS was offered, and the version
\* the LMS shows is published.
THEOREM MirrorPromises == Mirror!Spec => []Mirror!ShownIsOffered
  <1> DEFINE Inv == /\ version \in [Content -> Nat] /\ remote \in [Content -> Nat]
                    /\ Mirror!ShownIsOffered
  <1>1. Mirror!Init => Inv
    BY DEF Mirror!Init, Mirror!ShownIsOffered
  <1>2. Inv /\ [Mirror!Next]_(Mirror!vars) => Inv'
    <2> SUFFICES ASSUME Inv, [Mirror!Next]_(Mirror!vars) PROVE Inv'
      OBVIOUS
    <2>1. ASSUME NEW C \in SUBSET Content, Mirror!Show(C) PROVE Inv'
      BY <2>1 DEF Mirror!Show, Mirror!ShownIsOffered
    <2>2. ASSUME NEW C \in SUBSET Content, Mirror!Withdraw(C) PROVE Inv'
      BY <2>2 DEF Mirror!Withdraw, Mirror!ShownIsOffered
    <2>3. ASSUME NEW c \in Content, Mirror!Publish(c) PROVE Inv'
      BY <2>3 DEF Mirror!Publish, Mirror!ShownIsOffered
    <2>4. ASSUME NEW k \in Catalogs, NEW C \in SUBSET Content, Mirror!Edit(k, C) \/ Mirror!Offer(k, C)
          PROVE  Inv'
      BY <2>4 DEF Mirror!Edit, Mirror!Offer, Mirror!ShownIsOffered
    <2>5. CASE UNCHANGED Mirror!vars
      BY <2>5 DEF Mirror!vars, Mirror!ShownIsOffered
    <2> QED
      BY <2>1, <2>2, <2>3, <2>4, <2>5 DEF Mirror!Next
  <1> QED
    BY <1>1, <1>2, PTL DEF Mirror!Spec
=============================================================================
