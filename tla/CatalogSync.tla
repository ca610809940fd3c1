----------------------------- MODULE CatalogSync -----------------------------
(***************************************************************************)
(* Catalog queries, the catalogs that follow them, and the copies of the   *)
(* catalogs that the enterprise-catalog service keeps.                     *)
(*                                                                         *)
(* Saving a catalog copies the filter of its query into the row and sends  *)
(* the row to the service; saving a query saves every catalog of it.  A    *)
(* web request does so in one transaction: the rows it has written are     *)
(* locked, and others see them, once it has committed, but the service has *)
(* got them before.  A management command commits each row as it is saved  *)
(* and sends it afterwards.  A call that fails is logged and forgotten.    *)
(***************************************************************************)
EXTENDS FiniteSets, Functions

CONSTANTS
    Catalogs,
    Queries,
    Filters,   \* values of content_filter
    Workers,   \* processes that serve requests or run commands
    NoQuery,
    NoRow,
    Idle

ASSUME NameAssumption == NoQuery \notin Queries

VARIABLES
    query,     \* the content_filter of each query
    catalog,   \* the row of each catalog
    recorded,  \* the query in the latest history record of each catalog
    remote,    \* what the service has of each catalog
    request,   \* what each worker is doing
    created,   \* history: the catalogs that were ever begun
    raced,     \* history: catalogs saved while their query was being saved
    missed     \* history: catalogs of which the service may have an old row

vars == <<query, catalog, recorded, remote, request, created, raced, missed>>

Row == [query : Queries \union {NoQuery}, filter : Filters]
Rows == UNION {[S -> Row \union {NoRow}] : S \in SUBSET Catalogs}

\* todo: rows to be written; wrote: written and not committed; unsent: written
\* and still to be sent.  NoRow in any of them is a deletion.
\* save: the query, with its filter, that is saved first.
Request == [auto : BOOLEAN, save : Row \union {NoRow},
            todo : Rows, wrote : Rows, unsent : Rows]

ASSUME RowAssumption == NoRow \notin Row
ASSUME IdleAssumption == Idle \notin Request

TypeOK ==
    /\ query \in [Queries -> Filters]
    /\ catalog \in [Catalogs -> Row \union {NoRow}]
    /\ recorded \in [Catalogs -> Queries \union {NoQuery}]
    /\ remote \in [Catalogs -> Row \union {NoRow}]
    /\ request \in [Workers -> Request \union {Idle}]
    /\ created \subseteq Catalogs
    /\ raced \subseteq Catalogs
    /\ missed \subseteq Catalogs

None == [c \in {} |-> NoRow]
Only(c, row) == [x \in {c} |-> row]
With(rows, c, row) == [x \in DOMAIN rows \union {c} |-> IF x = c THEN row ELSE rows[x]]
Without(rows, c) == Restrict(rows, DOMAIN rows \ {c})

Init ==
    /\ query \in [Queries -> Filters]
    /\ catalog = [c \in Catalogs |-> NoRow]
    /\ recorded = [c \in Catalogs |-> NoQuery]
    /\ remote = [c \in Catalogs |-> NoRow]
    /\ request = [w \in Workers |-> Idle]
    /\ created = {}
    /\ raced = {}
    /\ missed = {}

Busy(w) == request[w] # Idle
Quiet == \A w \in Workers : ~Busy(w)

LockedBy(w, c) == Busy(w) /\ c \in DOMAIN request[w].wrote
Locked(c) == \E w \in Workers : LockedBy(w, c)

\* Mutant: the filter comes with the next save of the query.
SavedEmpty(q, f) == [query |-> q, filter |-> IF q = NoQuery THEN f ELSE NoRow]

\* EnterpriseCustomerCatalog.save
Saved(q, f) == [query |-> q, filter |-> IF q = NoQuery THEN f ELSE query[q]]

\* The query that the history record of a save, or of a deletion, has.
Recorded(row) == IF row = NoRow THEN NoQuery ELSE row.query

CatalogsOf(q) == {c \in Catalogs : catalog[c] # NoRow /\ catalog[c].query = q}

\* Mutant: the query is saved without its catalogs.
FanOutToNone(q, f) == None

\* update_enterprise_catalog_query: the rows as they are when the query is saved.
FanOut(q, f) == [c \in CatalogsOf(q) |-> [query |-> q, filter |-> f]]

\* The catalogs that w is about to save, or has saved, as catalogs of q.
Follows(w, c, q) ==
    /\ Busy(w)
    /\ \E rows \in {request[w].todo, request[w].wrote, request[w].unsent} :
          c \in DOMAIN rows /\ rows[c] # NoRow /\ rows[c].query = q

Saves(w, q) == Busy(w) /\ request[w].save # NoRow /\ request[w].save.query = q

-----------------------------------------------------------------------------
(* Requests and commands begin                                             *)

Begin(w, auto, save, todo, unsent) ==
    /\ ~Busy(w)
    /\ request' = [request EXCEPT ![w] =
           [auto |-> auto, save |-> save, todo |-> todo, wrote |-> None, unsent |-> unsent]]

SaveBegins(w, c, row, auto) ==
    /\ Begin(w, auto, NoRow, Only(c, row), None)
    /\ raced' = raced \union (IF \E v \in Workers : Saves(v, row.query) THEN {c} ELSE {})
    /\ UNCHANGED <<query, catalog, recorded, remote, missed>>

\* create: the API does not make a second catalog of a query, the admin form does.
BeginCreate(w, c, q, f) ==
    /\ c \notin created
    /\ SaveBegins(w, c, Saved(q, f), FALSE)
    /\ created' = created \union {c}

\* partial_update, or the admin form.  The command changes only the filter.
BeginSave(w, c, q, f, auto) ==
    /\ catalog[c] # NoRow
    /\ auto => q = catalog[c].query
    /\ SaveBegins(w, c, Saved(q, f), auto)
    /\ UNCHANGED created

BeginDelete(w, c) ==
    /\ catalog[c] # NoRow
    /\ Begin(w, FALSE, NoRow, Only(c, NoRow), None)
    /\ UNCHANGED <<query, catalog, recorded, remote, created, raced, missed>>

\* A transaction locks the row of the query.
BeginSaveQuery(w, q, f, auto) ==
    /\ \A v \in Workers : Saves(v, q) => request[v].auto
    /\ f # query[q]
    /\ Begin(w, auto, [query |-> q, filter |-> f], FanOut(q, f), None)
    /\ query' = IF auto THEN [query EXCEPT ![q] = f] ELSE query
    /\ raced' = raced \union {c \in Catalogs : \E v \in Workers :
                                  Follows(v, c, q) \/ (Saves(v, q) /\ c \in CatalogsOf(q))}
    /\ UNCHANGED <<catalog, recorded, remote, created, missed>>

\* migrate_enterprise_catalogs sends what it has read when it began.
BeginMigrate(w) ==
    /\ LET rows == Restrict(catalog, {c \in Catalogs : catalog[c] # NoRow})
       IN  DOMAIN rows # {} /\ Begin(w, TRUE, NoRow, None, rows)
    /\ UNCHANGED <<query, catalog, recorded, remote, created, raced, missed>>

RecordedOf(q) == {c \in Catalogs : catalog[c] # NoRow /\ recorded[c] = q}

\* bulk_update_catalog_query_id: an update of the rows that saves none of them, so
\* that no history record is written, by which the next one finds its catalogs.
BulkUpdate(old, new) ==
    LET moved == RecordedOf(old) IN
    /\ moved # {} /\ old # new
    /\ \A c \in moved : ~Locked(c)
    /\ catalog' = [c \in Catalogs |->
           IF c \in moved THEN [catalog[c] EXCEPT !.query = new] ELSE catalog[c]]
    /\ raced' = raced \union moved
    /\ missed' = missed \union moved
    /\ UNCHANGED <<query, recorded, remote, request, created>>

-----------------------------------------------------------------------------
(* The rows are written and sent one by one                                *)

\* A row that was deleted meanwhile is inserted again.
WriteRow(w, c) ==
    LET r == request[w] IN
    /\ Busy(w) /\ r.unsent = None /\ c \in DOMAIN r.todo
    /\ ~Locked(c)
    /\ request' = [request EXCEPT
           ![w].todo = Without(@, c),
           ![w].wrote = IF r.auto THEN @ ELSE With(@, c, r.todo[c]),
           ![w].unsent = Only(c, r.todo[c])]
    /\ catalog' = IF r.auto THEN [catalog EXCEPT ![c] = r.todo[c]] ELSE catalog
    /\ recorded' = IF r.auto THEN [recorded EXCEPT ![c] = Recorded(r.todo[c])] ELSE recorded
    /\ UNCHANGED <<query, remote, created, raced, missed>>

SentOff(w, c) == request' = [request EXCEPT ![w].unsent = Without(@, c)]

\* Mutant: a catalog that the service has is not updated.
DeliveredOnce(row, c) == IF remote[c] = NoRow \/ row = NoRow THEN row ELSE remote[c]

\* Creates, updates or deletes, as the service has the catalog or not.
Delivered(row, c) == row

\* A command may send a row that is no longer the catalog's.
IsLate(w, c) ==
    ~LockedBy(w, c) /\ (Locked(c) \/ request[w].unsent[c] # catalog[c])

Send(w, c) ==
    /\ Busy(w) /\ c \in DOMAIN request[w].unsent
    /\ remote' = [remote EXCEPT ![c] = Delivered(request[w].unsent[c], c)]
    /\ missed' = IF IsLate(w, c) THEN missed \union {c} ELSE missed \ {c}
    /\ SentOff(w, c)
    /\ UNCHANGED <<query, catalog, recorded, created, raced>>

\* Logged and forgotten: the request goes on.
FailToSend(w, c) ==
    /\ Busy(w) /\ c \in DOMAIN request[w].unsent
    /\ missed' = missed \union {c}
    /\ SentOff(w, c)
    /\ UNCHANGED <<query, catalog, recorded, remote, created, raced>>

-----------------------------------------------------------------------------
(* Requests and commands end                                               *)

Done(w) == Busy(w) /\ request[w].todo = None /\ request[w].unsent = None

Commit(w) ==
    LET r == request[w] IN
    /\ Done(w)
    /\ catalog' = [c \in Catalogs |-> IF c \in DOMAIN r.wrote THEN r.wrote[c] ELSE catalog[c]]
    /\ recorded' = [c \in Catalogs |->
           IF c \in DOMAIN r.wrote THEN Recorded(r.wrote[c]) ELSE recorded[c]]
    /\ query' = IF r.save = NoRow \/ r.auto THEN query
                ELSE [query EXCEPT ![r.save.query] = r.save.filter]
    /\ request' = [request EXCEPT ![w] = Idle]
    /\ UNCHANGED <<remote, created, raced, missed>>

\* A transaction that fails, or a command that dies.
Rollback(w) ==
    LET r == request[w] IN
    /\ Busy(w)
    /\ missed' = missed \union DOMAIN r.wrote \union DOMAIN r.unsent
    /\ raced' = raced \union (IF r.auto THEN DOMAIN r.todo ELSE {})
    /\ request' = [request EXCEPT ![w] = Idle]
    /\ UNCHANGED <<query, catalog, recorded, remote, created>>

-----------------------------------------------------------------------------
BeginAny(w) ==
    \/ \E c \in Catalogs, q \in Queries \union {NoQuery}, f \in Filters :
          \/ BeginCreate(w, c, q, f)
          \/ \E auto \in BOOLEAN : BeginSave(w, c, q, f, auto)
    \/ \E c \in Catalogs : BeginDelete(w, c)
    \/ \E q \in Queries, f \in Filters, auto \in BOOLEAN : BeginSaveQuery(w, q, f, auto)
    \/ BeginMigrate(w)

Continue(w) ==
    \/ \E c \in Catalogs : WriteRow(w, c) \/ Send(w, c) \/ FailToSend(w, c)
    \/ Commit(w)
    \/ Rollback(w)

Next ==
    \/ \E w \in Workers : BeginAny(w) \/ Continue(w)
    \/ \E old, new \in Queries : BulkUpdate(old, new)

Spec == Init /\ [][Next]_vars

-----------------------------------------------------------------------------
(* Properties                                                              *)

\* Whatever requests interleave, and whatever saves overwrite each other: when
\* all have ended, the service has every catalog as it is, and none that was
\* deleted, unless since the last call that got through one has failed, a
\* transaction was rolled back, a command sent an old row, or the bulk update
\* passed the service by.
ServiceHasCatalogs ==
    Quiet => \A c \in Catalogs \ missed : remote[c] = catalog[c]

\* A catalog has the filter of its query, unless one of the two was being saved
\* when a save of the other began, or a command died or wrote past the save.
CatalogFollowsQuery ==
    Quiet => \A q \in Queries : \A c \in CatalogsOf(q) \ raced : catalog[c].filter = query[q]
==============================================================================
