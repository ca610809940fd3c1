------------------------ MODULE ContentTransmission ------------------------
(***************************************************************************)
(* One integrated-channel configuration synchronising the content of its   *)
(* customer's catalogs with a customer-side LMS.                           *)
(*                                                                         *)
(* A run of the transmit_content_metadata task is the exporter followed by *)
(* the transmitter: for every catalog a diff step (database marks) and a   *)
(* metadata step (payload built), then the orphan step, then the delete,   *)
(* create and update calls, chunk by chunk, each answer being written back *)
(* item by item.  Catalog contents, the catalogs to transmit, the orphan   *)
(* marking task and worker failures interleave with those steps.           *)
(*                                                                         *)
(* The audit table has one row per (channel, configuration, content), so   *)
(* the table is a function of the content item.  Date columns are          *)
(* abstracted to whether they are set, remote_errored_at to its position   *)
(* relative to the retry window, content to its version number.            *)
(***************************************************************************)
EXTENDS Naturals, FiniteSets

CONSTANTS
    Content,       \* content items (course keys)
    Catalogs,      \* enterprise catalog uuids
    NoAudit,       \* "no row" / "not in the payload"
    NoCatalog,     \* no catalog is being exported
    MaxPayload,    \* max_payload_count of export()
    ChunkSize,     \* transmission_chunk_size of the configuration
    ChunkLimit,    \* INTEGRATED_CHANNELS_API_CHUNK_TRANSMISSION_LIMIT
    OrphanRemoval, \* the setting ALLOW_ORPHANED_CONTENT_REMOVAL
    Fallible,      \* the calls that the LMS may refuse or time out on
    ErrorStatuses, \* the answers it then gives
    MaxVersion,    \* bound: versions of one content item
    MaxEdits,      \* bound: edits of catalog contents
    MaxSwaps,      \* bound: changes of the catalogs to transmit
    MaxFailures,   \* bound: calls answered with an error
    MaxAborts      \* bound: runs that die or are cut short

VARIABLES
    catalogContent, \* catalog service: the items of each catalog
    version,        \* catalog service: last modification of each item
    live,           \* the catalogs the configuration transmits
    audit,          \* ContentMetadataItemTransmission rows
    orphan,         \* OrphanedContentTransmissions rows
    candidates,     \* rows the orphan marking task has fetched
    remote,         \* the version each item has in the customer's LMS
    pc,             \* phase of the current run
    todo,           \* catalogs the run has still to export
    current,        \* catalog whose metadata is being fetched
    batch,          \* items selected from the current catalog
    payload,        \* in-memory rows to transmit, per action
    inflight,       \* the chunk sent last, until its answer is written
    chunksLeft,     \* chunks the current action may still send
    removed,        \* successfully_removed_content_keys
    edits, swaps, failures, aborts  \* events counted against the bounds

service  == <<catalogContent, version, live>>
run      == <<todo, current, batch, payload, inflight, chunksLeft, removed>>
counters == <<edits, swaps, failures, aborts>>
vars     == <<service, audit, orphan, candidates, remote, pc, run, counters>>

Actions  == {"delete", "create", "update"}
Marks    == {"none"} \union Actions
Absent   == 0
Versions == 1..MaxVersion

\* The answer of a call: below 300, 300 to 399, or 400 and above (a client
\* error, a timeout and an unknown exception all end as a code >= 400).
Statuses == {"null", "ok", "redirect", "fail"}

AuditRecord ==
    [created : BOOLEAN, updated : BOOLEAN, deleted : BOOLEAN,
     errored : {"no", "recent", "old"}, status : Statuses, marked : Marks,
     catalog : Catalogs, lastChanged : Versions]

ASSUME NoAuditAssumption == NoAudit \notin AuditRecord
ASSUME CatalogAssumption == NoCatalog \notin Catalogs
ASSUME BoundAssumption ==
    /\ MaxPayload \in Nat \ {0} /\ ChunkSize \in Nat \ {0}
    /\ ChunkLimit \in Nat \ {0} /\ MaxVersion \in Nat \ {0}
    /\ MaxEdits \in Nat /\ MaxSwaps \in Nat /\ MaxFailures \in Nat /\ MaxAborts \in Nat
ASSUME SettingsAssumption ==
    /\ OrphanRemoval \in BOOLEAN
    /\ Fallible \subseteq Actions
    /\ ErrorStatuses \subseteq {"redirect", "fail"}

Audited == {c \in Content : audit[c] # NoAudit}

NoBatch    == [a \in Actions |-> {}]
NoPayload  == [a \in Actions |-> [c \in Content |-> NoAudit]]
NoInflight == [items |-> {}, status |-> "null"]

\* What a slice of at most n elements of a dict over X may hold.
Slices(n, X) ==
    {S \in SUBSET X :
        Cardinality(S) = IF Cardinality(X) <= n THEN Cardinality(X) ELSE n}

InPayload(a)   == {c \in Content : payload[a][c] # NoAudit}
PayloadSize    == Cardinality(InPayload("delete")) + Cardinality(InPayload("create"))
                    + Cardinality(InPayload("update"))

TypeOK ==
    /\ catalogContent \in [Catalogs -> SUBSET Content]
    /\ version \in [Content -> Versions]
    /\ live \subseteq Catalogs
    /\ audit \in [Content -> AuditRecord \union {NoAudit}]
    /\ orphan \in [Content -> {"none", "open", "resolved"}]
    /\ candidates \subseteq Content
    /\ remote \in [Content -> 0..MaxVersion]
    /\ pc \in {"idle", "diff", "metadata"} \union Actions
    /\ todo \subseteq Catalogs
    /\ current \in Catalogs \union {NoCatalog}
    /\ batch \in [Actions -> SUBSET Content]
    /\ payload \in [Actions -> [Content -> AuditRecord \union {NoAudit}]]
    /\ inflight \in [items : SUBSET Content, status : Statuses]
    /\ chunksLeft \in 0..ChunkLimit
    /\ removed \subseteq Content
    /\ edits \in 0..MaxEdits /\ swaps \in 0..MaxSwaps
    /\ failures \in 0..MaxFailures /\ aborts \in 0..MaxAborts

-----------------------------------------------------------------------------
(* Queries over one audit row                                              *)

\* errored before the last 24 hours, or before the customer was modified
Retryable(r) == r.errored # "recent"

\* Mutant: a failed delete is taken for a completed one.
OnRemoteForgettingFailures(r) == r.created /\ ~r.deleted /\ r.status # "fail"

\* _get_catalog_content_keys: believed to exist on the customer's instance
OnRemote(r) ==
    /\ r.created
    /\ \/ ~r.deleted /\ r.status # "fail"
       \/ r.status = "fail" /\ (r.deleted \/ r.updated)

DeletedTransmission(r) == r.deleted /\ Retryable(r)

\* Mutant: a failed create is not looked up.
UnsentCreate(r) == ~r.created /\ ~r.updated /\ ~r.deleted /\ r.errored = "no"

IncompleteCreate(r) ==
    \/ ~r.created /\ ~r.updated /\ ~r.deleted /\ r.errored = "no"
    \/ r.created /\ ~r.updated /\ ~r.deleted /\ r.status = "fail" /\ Retryable(r)

IncompleteUpdate(r) ==
    r.created /\ r.updated /\ ~r.deleted /\ r.status = "fail" /\ Retryable(r)

IncompleteDelete(r) == r.created /\ r.deleted /\ r.status = "fail" /\ Retryable(r)

\* _check_matched_content_updated_at, for an item last modified at v
NeedsUpdate(r, k, v) ==
    \/ IncompleteUpdate(r)
    \/ /\ r.catalog = k /\ r.created /\ ~r.deleted /\ Retryable(r)
       /\ r.marked = "update" \/ r.lastChanged < v

\* _check_matched_content_to_delete
NeedsDelete(r, k) == IncompleteDelete(r) \/ (r.catalog = k /\ Retryable(r))

\* Mutant: the catalog of a new row is left empty.
NewAuditWithoutCatalog(k, v) ==
    [created |-> FALSE, updated |-> FALSE, deleted |-> FALSE, errored |-> "no",
     status |-> "null", marked |-> "create", catalog |-> NoCatalog, lastChanged |-> v]

NewAudit(k, v) ==
    [created |-> FALSE, updated |-> FALSE, deleted |-> FALSE, errored |-> "no",
     status |-> "null", marked |-> "create", catalog |-> k, lastChanged |-> v]

\* Mutant: remote_updated_at survives.
RecreateKeepingUpdate(r, k, v) ==
    [r EXCEPT !.status = "null", !.created = FALSE, !.deleted = FALSE,
              !.lastChanged = v, !.catalog = k, !.marked = "create"]

PrepareToRecreate(r, k, v) ==
    [r EXCEPT !.status = "null", !.created = FALSE, !.updated = FALSE,
              !.deleted = FALSE, !.lastChanged = v, !.catalog = k,
              !.marked = "create"]

MarkFor(r, a) == [r EXCEPT !.marked = a]

\* _check_matched_content_to_create for one item
CreateItem(r, k, v) ==
    CASE r = NoAudit             -> NewAudit(k, v)
      [] r # NoAudit /\ DeletedTransmission(r) -> PrepareToRecreate(r, k, v)
      [] OTHER                   -> MarkFor(r, "create")

\* Neither a deleted nor an incomplete row is found although there is a row:
\* the INSERT of a second one violates the unique constraint.
InsertConflict(r) ==
    r # NoAudit /\ ~DeletedTransmission(r) /\ ~IncompleteCreate(r)

-----------------------------------------------------------------------------
(* Queries over the table                                                  *)

ExistingKeys == {c \in Audited : OnRemote(audit[c])}

\* Mutant: a row that was never transmitted, or refused, is looked up too.
RowsOfCatalog(k) == {c \in Audited : audit[c].catalog = k}

ContentKeys(k) == {c \in ExistingKeys : audit[c].catalog = k}

\* get_catalog_diff of the catalog service
ToCreate(k) == catalogContent[k] \ ContentKeys(k)
ToDelete(k) == ContentKeys(k) \ catalogContent[k]
Matched(k)  == ContentKeys(k) \intersect catalogContent[k]

Adopted(k) == {c \in ToCreate(k) : orphan[c] = "open"}
Fresh(k)   == {c \in ToCreate(k) : orphan[c] # "open" /\ c \notin ExistingKeys}
Updates(k) == {c \in Matched(k) : NeedsUpdate(audit[c], k, version[c])}
Deletes(k) == {c \in ToDelete(k) : NeedsDelete(audit[c], k)}

\* fetch_orphaned_content_audits
OrphanedAudits ==
    {c \in Audited : audit[c].created /\ ~audit[c].deleted /\ audit[c].catalog \notin live}

-----------------------------------------------------------------------------
Init ==
    /\ catalogContent \in [Catalogs -> SUBSET Content]
    /\ version = [c \in Content |-> 1]
    /\ live = Catalogs
    /\ audit = [c \in Content |-> NoAudit]
    /\ orphan = [c \in Content |-> "none"]
    /\ candidates = {}
    /\ remote = [c \in Content |-> Absent]
    /\ pc = "idle"
    /\ todo = {} /\ current = NoCatalog /\ batch = NoBatch /\ payload = NoPayload
    /\ inflight = NoInflight /\ chunksLeft = ChunkLimit /\ removed = {}
    /\ edits = 0 /\ swaps = 0 /\ failures = 0 /\ aborts = 0

\* The process forgets everything it held in memory.
EndRun ==
    /\ pc' = "idle" /\ todo' = {} /\ current' = NoCatalog /\ batch' = NoBatch
    /\ payload' = NoPayload /\ inflight' = NoInflight /\ chunksLeft' = ChunkLimit
    /\ removed' = {}

StartRun ==
    /\ pc = "idle"
    /\ pc' = "diff" /\ todo' = live
    /\ UNCHANGED <<service, audit, orphan, candidates, remote, current, batch, payload,
                   inflight, chunksLeft, removed, counters>>

\* The database writes of _get_catalog_diff for catalog k, when the items in
\* prepared are the ones whose create row is written.
WriteDiff(k, prepared, updates, deletes) ==
    /\ audit' = [c \in Content |->
          CASE c \in Adopted(k) -> [audit[c] EXCEPT !.catalog = k]
            [] c \in prepared   -> CreateItem(audit[c], k, version[c])
            [] c \in updates    -> MarkFor(audit[c], "update")
            [] c \in deletes    -> MarkFor(audit[c], "delete")
            [] OTHER            -> audit[c]]
    /\ orphan' = [c \in Content |-> IF c \in Adopted(k) THEN "resolved" ELSE orphan[c]]

ExportDiff(k) ==
    /\ pc = "diff" /\ k \in todo /\ PayloadSize < MaxPayload
    /\ \A c \in Fresh(k) : ~InsertConflict(audit[c])
    /\ WriteDiff(k, Fresh(k), Updates(k), Deletes(k))
    /\ \E C \in Slices(MaxPayload, Fresh(k)) :
         \E U \in Slices(MaxPayload - Cardinality(C), Updates(k)) :
           \E D \in Slices(MaxPayload - Cardinality(C) - Cardinality(U), Deletes(k)) :
             batch' = [create |-> C, update |-> U, delete |-> D]
    /\ todo' = todo \ {k} /\ current' = k /\ pc' = "metadata"
    /\ UNCHANGED <<service, candidates, remote, payload, inflight, chunksLeft, removed,
                   counters>>

\* An INSERT fails part of the way through the items to create: the rows of
\* the items before it are written, the exception ends the run.
ExportConflict(k) ==
    /\ pc = "diff" /\ k \in todo /\ PayloadSize < MaxPayload
    /\ \E c \in Fresh(k) : InsertConflict(audit[c])
    /\ \E S \in SUBSET {c \in Fresh(k) : ~InsertConflict(audit[c])} :
         WriteDiff(k, S, {}, {})
    /\ EndRun
    /\ UNCHANGED <<service, candidates, remote, counters>>

\* _sanitize_and_set_item_metadata and the sanity check on the catalog
WithMetadata(c) == [audit[c] EXCEPT !.lastChanged = version[c], !.catalog = current]

Described == batch["create"] \union batch["update"]

ExportMetadata ==
    /\ pc = "metadata"
    /\ Described \subseteq catalogContent[current]
    /\ audit' = [c \in Content |-> IF c \in Described THEN WithMetadata(c) ELSE audit[c]]
    /\ payload' = [a \in Actions |->
                     [c \in Content |-> IF c \in batch[a] THEN audit'[c] ELSE payload[a][c]]]
    /\ batch' = NoBatch /\ current' = NoCatalog /\ pc' = "diff"
    /\ UNCHANGED <<service, orphan, candidates, remote, todo, inflight, chunksLeft, removed,
                   counters>>

\* An item left the catalog after the diff: its metadata is missing and the
\* lookup raises, after some of the other items were saved.
ExportMetadataMissing ==
    /\ pc = "metadata"
    /\ ~(Described \subseteq catalogContent[current])
    /\ \E S \in SUBSET (Described \intersect catalogContent[current]) :
         audit' = [c \in Content |-> IF c \in S THEN WithMetadata(c) ELSE audit[c]]
    /\ EndRun
    /\ UNCHANGED <<service, orphan, candidates, remote, counters>>

\* The export ends; what space is left goes to unresolved orphans.
CollectOrphans ==
    /\ pc = "diff"
    /\ todo = {} \/ PayloadSize >= MaxPayload
    /\ \E S \in Slices(IF PayloadSize < MaxPayload THEN MaxPayload - PayloadSize ELSE 0,
                       {c \in Content : orphan[c] = "open"}) :
         payload' = IF OrphanRemoval
                    THEN [payload EXCEPT !["delete"] = [c \in Content |->
                            IF c \in S THEN audit[c] ELSE payload["delete"][c]]]
                    ELSE payload
    /\ pc' = "delete" /\ todo' = {}
    /\ UNCHANGED <<service, audit, orphan, candidates, remote, current, batch, inflight,
                   chunksLeft, removed, counters>>

\* The client call for one chunk.  A call that is answered with an error may
\* still have taken effect for some items (a timeout after the LMS applied it).
Send ==
    /\ pc \in Actions /\ inflight.items = {} /\ chunksLeft > 0
    /\ InPayload(pc) # {}
    /\ \E S \in Slices(ChunkSize, InPayload(pc)), s \in {"ok"} \union ErrorStatuses :
         /\ s # "ok" => pc \in Fallible /\ failures < MaxFailures
         /\ failures' = IF s = "ok" THEN failures ELSE failures + 1
         /\ \E applied \in SUBSET S :
              /\ s = "ok" => applied = S
              /\ remote' = [c \in Content |->
                   IF c \notin applied THEN remote[c]
                   ELSE IF pc = "delete" THEN Absent ELSE payload[pc][c].lastChanged]
         /\ inflight' = [items |-> S, status |-> s]
    /\ chunksLeft' = chunksLeft - 1
    /\ UNCHANGED <<service, audit, orphan, candidates, pc, todo, current, batch, payload,
                   removed, edits, swaps, aborts>>

\* Mutant: every answer below 400 counts as a success, as in the exporter.
TransmittedBelow400(r, a, s) ==
    [r EXCEPT !.status  = s,
              !.created = IF a = "create" THEN TRUE ELSE @,
              !.updated = IF a = "update" THEN TRUE ELSE @,
              !.deleted = IF a = "delete" THEN TRUE ELSE @,
              !.marked  = IF s # "fail" THEN "none" ELSE @,
              !.errored = IF s # "fail" THEN "no" ELSE "recent"]

\* The row written back for one transmitted item.
Transmitted(r, a, s) ==
    [r EXCEPT !.status  = s,
              !.created = IF a = "create" THEN TRUE ELSE @,
              !.updated = IF a = "update" THEN TRUE ELSE @,
              !.deleted = IF a = "delete" THEN TRUE ELSE @,
              !.marked  = IF s = "ok" THEN "none" ELSE @,
              !.errored = IF s = "ok" THEN "no" ELSE "recent"]

\* Mutant: refused deletes count as removed.
AttemptedRemoval(c) == IF pc = "delete" THEN {c} ELSE {}

SuccessfulRemoval(c) == IF pc = "delete" /\ inflight.status = "ok" THEN {c} ELSE {}

SaveResult(c) ==
    /\ c \in inflight.items
    /\ audit' = [audit EXCEPT ![c] = Transmitted(payload[pc][c], pc, inflight.status)]
    /\ payload' = [payload EXCEPT ![pc][c] = NoAudit]
    /\ inflight' = [inflight EXCEPT !.items = @ \ {c}]
    /\ removed' = removed \union SuccessfulRemoval(c)
    /\ UNCHANGED <<service, orphan, candidates, remote, pc, todo, current, batch,
                   chunksLeft, counters>>

\* All chunks of the action are sent, or as many as the limit allows; the
\* delete action then resolves the orphan rows of what it removed.
FinishAction ==
    /\ pc \in Actions /\ inflight.items = {}
    /\ InPayload(pc) = {} \/ chunksLeft = 0
    /\ orphan' = [c \in Content |->
                    IF c \in removed /\ orphan[c] = "open" THEN "resolved" ELSE orphan[c]]
    /\ IF pc = "update"
       THEN EndRun
       ELSE /\ pc' = IF pc = "delete" THEN "create" ELSE "update"
            /\ payload' = [payload EXCEPT ![pc] = NoPayload[pc]]
            /\ inflight' = NoInflight /\ chunksLeft' = ChunkLimit /\ removed' = {}
            /\ UNCHANGED <<todo, current, batch>>
    /\ UNCHANGED <<service, audit, candidates, remote, counters>>

\* The worker dies, a service raises, or the configuration is in dry-run mode
\* (every remaining chunk is skipped): nothing more of the run happens.
Abort ==
    /\ pc # "idle" /\ aborts < MaxAborts
    /\ aborts' = aborts + 1
    /\ EndRun
    /\ UNCHANGED <<service, audit, orphan, candidates, remote, edits, swaps, failures>>

-----------------------------------------------------------------------------
(* The orphan marking task, which takes no lock                            *)

FetchOrphans ==
    /\ candidates = {} /\ OrphanedAudits # {}
    /\ candidates' = OrphanedAudits
    /\ UNCHANGED <<service, audit, orphan, remote, pc, run, counters>>

\* get_or_create: an existing row, resolved or not, is left as it is
GetOrCreate(o) == IF o = "none" THEN "open" ELSE o

MarkOrphan(c) ==
    /\ c \in candidates
    /\ candidates' = candidates \ {c}
    /\ orphan' = [orphan EXCEPT ![c] = GetOrCreate(@)]
    /\ UNCHANGED <<service, audit, remote, pc, run, counters>>

-----------------------------------------------------------------------------
(* The environment                                                         *)

EditCatalog(k, c) ==
    /\ edits < MaxEdits /\ edits' = edits + 1
    /\ catalogContent' = [catalogContent EXCEPT ![k] = IF c \in @ THEN @ \ {c} ELSE @ \union {c}]
    /\ UNCHANGED <<version, live, audit, orphan, candidates, remote, pc, run, swaps, failures,
                   aborts>>

Publish(c) ==
    /\ version[c] < MaxVersion
    /\ version' = [version EXCEPT ![c] = @ + 1]
    /\ UNCHANGED <<catalogContent, live, audit, orphan, candidates, remote, pc, run, counters>>

\* A catalog is removed from the customer, or the configuration's list of
\* catalogs to transmit is edited.
SetCatalogs(K) ==
    /\ swaps < MaxSwaps /\ swaps' = swaps + 1
    /\ K # live /\ live' = K
    /\ UNCHANGED <<catalogContent, version, audit, orphan, candidates, remote, pc, run, edits,
                   failures, aborts>>

\* An error leaves the retry window.  LAST_24_HRS is computed when the module
\* is imported, so time alone does not do it: the customer is saved after the
\* error, or a worker started a day after it runs the task.  A run reads both
\* limits before its first lookup, so the window does not move under it.
AgeError(c) ==
    /\ pc = "idle" /\ c \in Audited /\ audit[c].errored = "recent"
    /\ audit' = [audit EXCEPT ![c].errored = "old"]
    /\ UNCHANGED <<service, orphan, candidates, remote, pc, run, counters>>

Environment ==
    \/ \E k \in Catalogs, c \in Content : EditCatalog(k, c)
    \/ \E c \in Content : Publish(c)
    \/ \E K \in SUBSET Catalogs : SetCatalogs(K)
    \/ \E c \in Content : AgeError(c)

Run ==
    \/ StartRun
    \/ \E k \in Catalogs : ExportDiff(k)
    \/ \E k \in Catalogs : ExportConflict(k)
    \/ ExportMetadata
    \/ ExportMetadataMissing
    \/ CollectOrphans
    \/ Send
    \/ \E c \in Content : SaveResult(c)
    \/ FinishAction

OrphanTask == FetchOrphans \/ \E c \in Content : MarkOrphan(c)

Next == Run \/ Abort \/ OrphanTask \/ Environment

Spec == Init /\ [][Next]_vars

\* The tasks are scheduled again and again and their steps terminate.  Nothing
\* is assumed of AgeError: a worker may run for ever.
Fairness == WF_vars(Run) /\ WF_vars(OrphanTask)

FairSpec == Spec /\ Fairness

-----------------------------------------------------------------------------
(* Properties                                                              *)

Wanted(c) == \E k \in live : c \in catalogContent[k]

\* A row with no mark, no recorded error and no orphan row tells the truth
\* about the LMS: what it says was deleted is absent, otherwise the LMS has
\* the version the row was last exported with.  So no change is ever
\* forgotten between the exporter's marks and the transmitter's write-back.
UnmarkedInSync ==
    \A c \in Audited :
        audit[c].marked = "none" /\ audit[c].errored = "no" /\ orphan[c] = "none"
            => remote[c] = IF audit[c].deleted THEN Absent ELSE audit[c].lastChanged

\* The lookups that precede an INSERT (existing keys, deleted rows, incomplete
\* creates) miss an existing row only when a call for it failed.
ConflictOnlyAfterError ==
    pc = "diff" =>
        \A k \in todo : \A c \in Fresh(k) :
            InsertConflict(audit[c]) => audit[c].errored # "no"

\* Whatever calls fail, runs die and catalogs move, the LMS shows only items
\* that a catalog has listed, in versions that were published, and never an
\* older version than it had: the rows and the payloads of a run keep up with
\* each other, and a payload that lies behind the LMS is never sent.
Mirror == INSTANCE ContentMirror WITH offered <- Audited, shown <- remote
MirrorsContent == Mirror!Spec

\* An orphan row is resolved only when its item was deleted from the LMS with
\* a successful answer, or when a catalog that lists the item took it over.
OrphanResolution ==
    [][\A c \in Content :
          orphan[c] = "open" /\ orphan'[c] = "resolved" =>
              \/ audit'[c].deleted /\ audit'[c].status = "ok"
              \/ c \in catalogContent[audit'[c].catalog]]_vars

\* A row made ready to be created again keeps the error of its last call.  If
\* its run ends before the create is sent, no lookup finds it any more.
Stranded(r) == ~r.created /\ r.errored # "no"

\* What the liveness rests on besides the scheduling: no row is stranded, or
\* stays in the retry window, for ever.  One row that does may end every run
\* (ExportConflict), and so keep the other items from the LMS too.
RowsRecover ==
    \A c \in Content : []<>(c \in Audited => Retryable(audit[c]) /\ ~Stranded(audit[c]))

\* A create that was answered with an error.  Answered from 400 on, the exporter
\* does not count the item as existing, whatever the LMS did with the call.
\* Answered from 300 on, it counts it as existing although the transmitter
\* recorded an error, and sends it again only when it is published anew.
LastCreate(r, s) == r # NoAudit /\ r.created /\ ~r.updated /\ ~r.deleted /\ r.status = s

\* A delete that was answered with an error.  Answered from 400 on, the exporter
\* goes on counting the item as existing: it is deleted again, but not created
\* again when it has returned.  Answered from 300 on, it is done for the
\* exporter: the item is created again when it returns, but not deleted again.
LastDelete(r, s) == r # NoAudit /\ r.deleted /\ r.status = s

\* A worker died between the answer of the LMS and the write-back: the row
\* still has the mark of the call.  An item deleted so is never created again
\* when it returns to its catalog, and one created so is never deleted when it
\* leaves it: the exporter believes the one to exist and the other not to.
Unrecorded(r, a) == aborts > 0 /\ r # NoAudit /\ r.marked = a

\* Once edits, versions, failures and crashes have stopped and the errors have
\* left the retry window, the LMS has the current version of every item that
\* some transmitted catalog lists, but for those whose create it redirected
\* and those whose delete it refused or a worker died with.
WantedIsDelivered ==
    RowsRecover => \A c \in Content :
        <>[](Wanted(c) => \/ remote[c] = version[c]
                          \/ LastCreate(audit[c], "redirect")
                          \/ LastDelete(audit[c], "fail")
                          \/ Unrecorded(audit[c], "delete"))

\* Once they have stopped, the LMS has no item that no catalog lists, but for
\* the items left behind by a create that was answered with an error or lost
\* with the worker, and those whose delete it redirected.
UnwantedIsRemoved ==
    RowsRecover => \A c \in Content :
        <>[](~Wanted(c) => \/ remote[c] = Absent
                           \/ LastCreate(audit[c], "fail")
                           \/ Unrecorded(audit[c], "create") /\ ~audit[c].created
                           \/ LastDelete(audit[c], "redirect"))

\* unique_together of the audit table: an export never inserts a second row.
NoInsertConflict ==
    pc = "diff" => \A k \in todo : \A c \in Fresh(k) : ~InsertConflict(audit[c])
=============================================================================
