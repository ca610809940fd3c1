-------------------------- MODULE CatalogSyncProofs --------------------------
(***************************************************************************)
(* Proofs for CatalogSync.  The service agrees with what is written or     *)
(* somebody has still to send it; and a catalog follows its query or a     *)
(* command has still to write it, because two that save catalogs of one    *)
(* query while one of them saves the query are noted as racing.            *)
(***************************************************************************)
EXTENDS CatalogSync, TLAPS

-----------------------------------------------------------------------------
(* Rows by catalog                                                         *)

\* A set of rows has a row, or a deletion, for some catalogs.
LEMMA RowsFacts ==
    ASSUME NEW rows \in Rows
    PROVE  /\ DOMAIN rows \subseteq Catalogs
           /\ \A c \in DOMAIN rows : rows[c] \in Row \union {NoRow}
           /\ rows = None => DOMAIN rows = {}
  BY DEF Rows, None

\* No rows at all.
LEMMA NoneFacts == None \in Rows /\ DOMAIN None = {}
  <1>1. None \in [{} -> Row \union {NoRow}] /\ {} \in SUBSET Catalogs
    BY DEF None
  <1> QED
    BY <1>1 DEF Rows, None

\* One row.
LEMMA OnlyFacts ==
    ASSUME NEW c \in Catalogs, NEW row \in Row \union {NoRow}
    PROVE  Only(c, row) \in Rows /\ DOMAIN Only(c, row) = {c} /\ Only(c, row)[c] = row
  <1>1. Only(c, row) \in [{c} -> Row \union {NoRow}] /\ {c} \in SUBSET Catalogs
    BY DEF Only
  <1> QED
    BY <1>1 DEF Rows, Only

\* A row is added, or takes the place of another.
LEMMA WithFacts ==
    ASSUME NEW rows \in Rows, NEW c \in Catalogs, NEW row \in Row \union {NoRow}
    PROVE  /\ With(rows, c, row) \in Rows
           /\ DOMAIN With(rows, c, row) = DOMAIN rows \union {c}
           /\ With(rows, c, row)[c] = row
           /\ \A d \in DOMAIN rows : d # c => With(rows, c, row)[d] = rows[d]
  <1> DEFINE S == DOMAIN rows \union {c}
  <1>1. With(rows, c, row) \in [S -> Row \union {NoRow}] /\ S \in SUBSET Catalogs
    BY RowsFacts DEF With
  <1>2. With(rows, c, row) \in Rows
    BY <1>1 DEF Rows
  <1> QED
    BY <1>2 DEF With

\* The rows of some catalogs.
LEMMA RestrictFacts ==
    ASSUME NEW S \in SUBSET Catalogs, NEW f, \A c \in S : f[c] \in Row \union {NoRow}
    PROVE  /\ Restrict(f, S) \in Rows
           /\ DOMAIN Restrict(f, S) = S
           /\ \A c \in S : Restrict(f, S)[c] = f[c]
  <1>1. Restrict(f, S) \in [S -> Row \union {NoRow}]
    BY DEF Restrict
  <1> QED
    BY <1>1 DEF Rows, Restrict

\* A row is taken away.
LEMMA WithoutFacts ==
    ASSUME NEW rows \in Rows, NEW c
    PROVE  /\ Without(rows, c) \in Rows
           /\ DOMAIN Without(rows, c) = DOMAIN rows \ {c}
           /\ \A d \in DOMAIN rows \ {c} : Without(rows, c)[d] = rows[d]
  <1> DEFINE S == DOMAIN rows \ {c}
  <1>1. S \in SUBSET Catalogs /\ \A d \in S : rows[d] \in Row \union {NoRow}
    BY RowsFacts
  <1>2. Without(rows, c) = Restrict(rows, S)
    BY DEF Without
  <1> HIDE DEF S
  <1>3. /\ Restrict(rows, S) \in Rows /\ DOMAIN Restrict(rows, S) = S
        /\ \A d \in S : Restrict(rows, S)[d] = rows[d]
    BY <1>1, RestrictFacts
  <1> QED
    BY <1>2, <1>3 DEF S

\* The fan-out of a query has a row for each catalog of it.
LEMMA FanOutFacts ==
    ASSUME NEW q \in Queries, NEW f \in Filters
    PROVE  /\ FanOut(q, f) \in Rows
           /\ DOMAIN FanOut(q, f) = CatalogsOf(q)
           /\ \A c \in CatalogsOf(q) : FanOut(q, f)[c] = [query |-> q, filter |-> f]
  <1>1. /\ FanOut(q, f) \in [CatalogsOf(q) -> Row \union {NoRow}]
        /\ CatalogsOf(q) \in SUBSET Catalogs
    BY DEF FanOut, CatalogsOf, Row
  <1> QED
    BY <1>1 DEF Rows, FanOut

-----------------------------------------------------------------------------
(* What the steps do to the requests                                       *)

\* What a request holds.
LEMMA RequestFields ==
    ASSUME TypeOK, NEW w \in Workers, Busy(w)
    PROVE  /\ request[w] \in Request
           /\ request[w].auto \in BOOLEAN
           /\ request[w].save \in Row \union {NoRow}
           /\ request[w].todo \in Rows /\ request[w].wrote \in Rows
           /\ request[w].unsent \in Rows
  BY DEF TypeOK, Busy, Request

\* A request that begins is of its worker alone.
LEMMA BeginFacts ==
    ASSUME TypeOK, NEW w \in Workers, NEW auto \in BOOLEAN, NEW save \in Row \union {NoRow},
           NEW todo \in Rows, NEW unsent \in Rows, Begin(w, auto, save, todo, unsent)
    PROVE  /\ ~Busy(w) /\ Busy(w)'
           /\ request' \in [Workers -> Request \union {Idle}]
           /\ \A v \in Workers : v # w => request'[v] = request[v]
           /\ request'[w].auto = auto /\ request'[w].save = save
           /\ request'[w].todo = todo /\ request'[w].wrote = None /\ request'[w].unsent = unsent
  <1> DEFINE n == [auto |-> auto, save |-> save, todo |-> todo, wrote |-> None,
                   unsent |-> unsent]
  <1>1. n \in Request
    BY NoneFacts DEF Request
  <1>2. ~Busy(w) /\ request' = [request EXCEPT ![w] = n]
    BY DEF Begin
  <1> HIDE DEF n
  <1>3. request' \in [Workers -> Request \union {Idle}] /\ request'[w] = n
    BY <1>1, <1>2 DEF TypeOK
  <1>4. \A v \in Workers : v # w => request'[v] = request[v]
    BY <1>2 DEF TypeOK
  <1>5. Busy(w)'
    BY <1>1, <1>3, IdleAssumption DEF Busy
  <1> QED
    BY <1>2, <1>3, <1>4, <1>5 DEF n

\* The requests that begin, with what they copy from the tables.
SaveStep(w, c, row) ==
    /\ \E auto \in BOOLEAN : Begin(w, auto, NoRow, Only(c, row), None)
    /\ row \in Row \union {NoRow}
    /\ \/ row = NoRow /\ raced' = raced
       \/ /\ row.query \in Queries => row.filter = query[row.query]
          /\ raced' = raced \union (IF \E v \in Workers : Saves(v, row.query) THEN {c} ELSE {})
    /\ created' \subseteq Catalogs
    /\ UNCHANGED <<query, catalog, recorded, remote, missed>>

\* Creating, saving and deleting a catalog are such steps.
LEMMA SaveStepFacts ==
    ASSUME TypeOK, NEW w \in Workers, NEW c \in Catalogs,
           \/ \E q \in Queries \union {NoQuery}, f \in Filters :
                \/ BeginCreate(w, c, q, f)
                \/ \E auto \in BOOLEAN : BeginSave(w, c, q, f, auto)
           \/ BeginDelete(w, c)
    PROVE  \E row \in Row \union {NoRow} : SaveStep(w, c, row)
  <1>1. CASE BeginDelete(w, c)
    <2>1. SaveStep(w, c, NoRow)
      BY <1>1 DEF BeginDelete, SaveStep, TypeOK
    <2> QED
      BY <2>1
  <1>2. ASSUME NEW q \in Queries \union {NoQuery}, NEW f \in Filters, NEW auto \in BOOLEAN,
               SaveBegins(w, c, Saved(q, f), auto), created' \subseteq Catalogs
        PROVE  \E row \in Row \union {NoRow} : SaveStep(w, c, row)
    <2>1. /\ Saved(q, f) \in Row /\ Saved(q, f).query = q
          /\ Saved(q, f).query \in Queries => Saved(q, f).filter = query[q]
      BY NameAssumption DEF Saved, Row, TypeOK
    <2>2. SaveStep(w, c, Saved(q, f))
      BY <1>2, <2>1 DEF SaveBegins, SaveStep
    <2> QED
      BY <2>1, <2>2
  <1> QED
    BY <1>1, <1>2 DEF BeginCreate, BeginSave, TypeOK

\* A row moves from what is to be written to what is written and to be sent.
LEMMA WriteFacts ==
    ASSUME TypeOK, NEW w \in Workers, NEW c, WriteRow(w, c)
    PROVE  /\ Busy(w) /\ Busy(w)' /\ c \in DOMAIN request[w].todo /\ c \in Catalogs
           /\ request[w].todo[c] \in Row \union {NoRow}
           /\ request' \in [Workers -> Request \union {Idle}]
           /\ \A v \in Workers : v # w => request'[v] = request[v]
           /\ request'[w].auto = request[w].auto /\ request'[w].save = request[w].save
           /\ request'[w].todo = Without(request[w].todo, c)
           /\ request'[w].wrote = IF request[w].auto THEN request[w].wrote
                                  ELSE With(request[w].wrote, c, request[w].todo[c])
           /\ request'[w].unsent = Only(c, request[w].todo[c])
  <1> DEFINE r == request[w]
             todo   == Without(r.todo, c)
             wrote  == IF r.auto THEN r.wrote ELSE With(r.wrote, c, r.todo[c])
             unsent == Only(c, r.todo[c])
             n == [auto |-> r.auto, save |-> r.save, todo |-> todo, wrote |-> wrote,
                   unsent |-> unsent]
  <1>1. /\ Busy(w) /\ c \in DOMAIN r.todo
        /\ request' = [request EXCEPT ![w] =
              [[[request[w] EXCEPT !.todo = todo] EXCEPT !.wrote = wrote] EXCEPT !.unsent = unsent]]
    BY DEF WriteRow, TypeOK
  <1>2. /\ r \in Request /\ r.auto \in BOOLEAN /\ r.save \in Row \union {NoRow}
        /\ r.todo \in Rows /\ r.wrote \in Rows
        /\ c \in Catalogs /\ r.todo[c] \in Row \union {NoRow}
    BY <1>1, RequestFields, RowsFacts
  <1>3. todo \in Rows /\ wrote \in Rows /\ unsent \in Rows
    BY <1>2, WithoutFacts, WithFacts, OnlyFacts
  <1> HIDE DEF todo, wrote, unsent
  <1>4. [[[r EXCEPT !.todo = todo] EXCEPT !.wrote = wrote] EXCEPT !.unsent = unsent] = n
    <2> HIDE DEF r
    <2> DEFINE n1 == [r EXCEPT !.todo = todo]
               n2 == [n1 EXCEPT !.wrote = wrote]
               n3 == [n2 EXCEPT !.unsent = unsent]
    <2>1. n1 = [auto |-> r.auto, save |-> r.save, todo |-> todo, wrote |-> r.wrote,
                unsent |-> r.unsent]
      BY <1>2 DEF Request
    <2> HIDE DEF n1
    <2>2. n2 = [auto |-> r.auto, save |-> r.save, todo |-> todo, wrote |-> wrote,
                unsent |-> r.unsent]
      BY <2>1
    <2> HIDE DEF n2
    <2>3. n3 = n
      BY <2>2
    <2> QED
      BY <2>3 DEF n1, n2
  <1>5. n \in Request
    BY <1>2, <1>3 DEF Request
  <1>6. request' = [request EXCEPT ![w] = n]
    BY <1>1, <1>4
  <1> HIDE DEF n
  <1>7. request' \in [Workers -> Request \union {Idle}] /\ request'[w] = n
    BY <1>5, <1>6 DEF TypeOK
  <1>8. \A v \in Workers : v # w => request'[v] = request[v]
    BY <1>6 DEF TypeOK
  <1>9. Busy(w)'
    BY <1>5, <1>7, IdleAssumption DEF Busy
  <1> QED
    BY <1>1, <1>2, <1>7, <1>8, <1>9 DEF n, todo, wrote, unsent

\* A row that was sent, or could not be, is no longer to be sent.
LEMMA SentFacts ==
    ASSUME TypeOK, NEW w \in Workers, NEW c, Busy(w), c \in DOMAIN request[w].unsent,
           SentOff(w, c)
    PROVE  /\ Busy(w)' /\ c \in Catalogs
           /\ request[w].unsent[c] \in Row \union {NoRow}
           /\ request' \in [Workers -> Request \union {Idle}]
           /\ \A v \in Workers : v # w => request'[v] = request[v]
           /\ request'[w].auto = request[w].auto /\ request'[w].save = request[w].save
           /\ request'[w].todo = request[w].todo /\ request'[w].wrote = request[w].wrote
           /\ request'[w].unsent = Without(request[w].unsent, c)
  <1> DEFINE r == request[w]
             unsent == Without(r.unsent, c)
             n == [auto |-> r.auto, save |-> r.save, todo |-> r.todo, wrote |-> r.wrote,
                   unsent |-> unsent]
  <1>1. request' = [request EXCEPT ![w] = [request[w] EXCEPT !.unsent = unsent]]
    BY DEF SentOff, TypeOK
  <1>2. /\ r \in Request /\ r.auto \in BOOLEAN /\ r.save \in Row \union {NoRow}
        /\ r.todo \in Rows /\ r.wrote \in Rows /\ r.unsent \in Rows
        /\ c \in Catalogs /\ r.unsent[c] \in Row \union {NoRow}
    BY RequestFields, RowsFacts
  <1>3. unsent \in Rows
    BY <1>2, WithoutFacts
  <1> HIDE DEF unsent
  <1>4. [r EXCEPT !.unsent = unsent] = n
    BY <1>2 DEF Request
  <1>5. n \in Request
    BY <1>2, <1>3 DEF Request
  <1>6. request' = [request EXCEPT ![w] = n]
    BY <1>1, <1>4
  <1> HIDE DEF n
  <1>7. request' \in [Workers -> Request \union {Idle}] /\ request'[w] = n
    BY <1>5, <1>6 DEF TypeOK
  <1>8. \A v \in Workers : v # w => request'[v] = request[v]
    BY <1>6 DEF TypeOK
  <1>9. Busy(w)'
    BY <1>5, <1>7, IdleAssumption DEF Busy
  <1> QED
    BY <1>2, <1>7, <1>8, <1>9 DEF n, unsent

\* A request that ends is of its worker alone.
LEMMA EndFacts ==
    ASSUME TypeOK, NEW w \in Workers, request' = [request EXCEPT ![w] = Idle]
    PROVE  /\ request' \in [Workers -> Request \union {Idle}]
           /\ ~Busy(w)'
           /\ \A v \in Workers : v # w => request'[v] = request[v]
  BY DEF TypeOK, Busy

\* The rows of a request that ends are written.
LEMMA CommitFacts ==
    ASSUME TypeOK, NEW w \in Workers, Commit(w)
    PROVE  /\ Busy(w) /\ request[w].wrote \in Rows
           /\ DOMAIN request[w].todo = {} /\ DOMAIN request[w].unsent = {}
           /\ query' \in [Queries -> Filters]
           /\ catalog' \in [Catalogs -> Row \union {NoRow}]
           /\ \A c \in Catalogs : catalog'[c] = IF c \in DOMAIN request[w].wrote
                                                THEN request[w].wrote[c] ELSE catalog[c]
  <1>1. Busy(w) /\ request[w].todo = None /\ request[w].unsent = None
    BY DEF Commit, Done
  <1>2. request[w].wrote \in Rows /\ request[w].save \in Row \union {NoRow}
    BY <1>1, RequestFields
  <1>3. \A c \in DOMAIN request[w].wrote : request[w].wrote[c] \in Row \union {NoRow}
    BY <1>2, RowsFacts
  <1>4. catalog' = [c \in Catalogs |-> IF c \in DOMAIN request[w].wrote
                                       THEN request[w].wrote[c] ELSE catalog[c]]
    BY DEF Commit
  <1>5. catalog' \in [Catalogs -> Row \union {NoRow}]
    BY <1>3, <1>4 DEF TypeOK
  <1>6. request[w].save # NoRow => request[w].save.filter \in Filters
    BY <1>2 DEF Row
  <1>7. query' \in [Queries -> Filters]
    BY <1>6 DEF Commit, TypeOK
  <1> QED
    BY <1>1, <1>2, <1>4, <1>5, <1>7, NoneFacts

\* What a request of w to save a query begins with.
LEMMA SaveQueryFacts ==
    ASSUME TypeOK, NEW w \in Workers, NEW q \in Queries, NEW f \in Filters, NEW auto \in BOOLEAN,
           BeginSaveQuery(w, q, f, auto)
    PROVE  /\ ~Busy(w) /\ Busy(w)'
           /\ request' \in [Workers -> Request \union {Idle}]
           /\ \A v \in Workers : v # w => request'[v] = request[v]
           /\ request'[w].auto = auto /\ request'[w].save = [query |-> q, filter |-> f]
           /\ request'[w].save # NoRow
           /\ request'[w].todo = FanOut(q, f)
           /\ request'[w].wrote = None /\ request'[w].unsent = None
           /\ query' \in [Queries -> Filters]
  <1>1. [query |-> q, filter |-> f] \in Row
    BY DEF Row
  <1>2. query' \in [Queries -> Filters]
    BY DEF BeginSaveQuery, TypeOK
  <1> DEFINE save == [query |-> q, filter |-> f]
  <1>3. Begin(w, auto, save, FanOut(q, f), None)
    BY DEF BeginSaveQuery
  <1>4. save \in Row \union {NoRow} /\ save # NoRow
    BY <1>1, RowAssumption
  <1>a. FanOut(q, f) \in Rows /\ None \in Rows
    BY FanOutFacts, NoneFacts
  <1> HIDE DEF save
  <1>5. /\ ~Busy(w) /\ Busy(w)'
        /\ request' \in [Workers -> Request \union {Idle}]
        /\ \A v \in Workers : v # w => request'[v] = request[v]
        /\ request'[w].auto = auto /\ request'[w].save = save
        /\ request'[w].todo = FanOut(q, f)
        /\ request'[w].wrote = None /\ request'[w].unsent = None
    BY <1>3, <1>4, <1>a, BeginFacts
  <1> QED
    BY <1>2, <1>4, <1>5 DEF save

\* The migration writes no row.
LEMMA MigrateFacts ==
    ASSUME TypeOK, NEW w \in Workers, BeginMigrate(w)
    PROVE  /\ ~Busy(w) /\ Busy(w)'
           /\ request' \in [Workers -> Request \union {Idle}]
           /\ \A v \in Workers : v # w => request'[v] = request[v]
           /\ request'[w].auto /\ request'[w].save = NoRow
           /\ request'[w].todo = None /\ request'[w].wrote = None
  <1> DEFINE S == {c \in Catalogs : catalog[c] # NoRow}
             rows == Restrict(catalog, S)
  <1>1. S \in SUBSET Catalogs /\ \A c \in S : catalog[c] \in Row \union {NoRow}
    BY DEF TypeOK
  <1>2. Begin(w, TRUE, NoRow, None, rows)
    BY DEF BeginMigrate
  <1> HIDE DEF S
  <1>3. rows \in Rows
    BY <1>1, RestrictFacts
  <1> HIDE DEF rows
  <1>4. None \in Rows
    BY NoneFacts
  <1> QED
    <2>1. /\ ~Busy(w) /\ Busy(w)'
          /\ request' \in [Workers -> Request \union {Idle}]
          /\ \A v \in Workers : v # w => request'[v] = request[v]
      BY <1>2, <1>3, <1>4, BeginFacts
    <2>2. request'[w] = [auto |-> TRUE, save |-> NoRow, todo |-> None, wrote |-> None,
                         unsent |-> rows]
      BY <1>2 DEF Begin, TypeOK
    <2> QED
      BY <2>1, <2>2

\* A history record names a query or none.
LEMMA RecordedType ==
    ASSUME NEW row \in Row \union {NoRow}
    PROVE  Recorded(row) \in Queries \union {NoQuery}
  BY DEF Recorded, Row

\* The rows of the bulk update are rows.
LEMMA BulkUpdateType ==
    ASSUME TypeOK, NEW old \in Queries, NEW new \in Queries, BulkUpdate(old, new)
    PROVE  catalog' \in [Catalogs -> Row \union {NoRow}]
  <1>1. \A c \in RecordedOf(old) : c \in Catalogs /\ catalog[c] \in Row
    BY DEF RecordedOf, TypeOK
  <1>2. \A c \in RecordedOf(old) : [catalog[c] EXCEPT !.query = new] \in Row
    BY <1>1 DEF Row
  <1>3. catalog' = [c \in Catalogs |-> IF c \in RecordedOf(old)
                       THEN [catalog[c] EXCEPT !.query = new] ELSE catalog[c]]
    BY DEF BulkUpdate
  <1>4. \A c \in Catalogs : catalog[c] \in Row \union {NoRow}
    BY DEF TypeOK
  <1> QED
    BY <1>2, <1>3, <1>4

-----------------------------------------------------------------------------
(* Type correctness                                                        *)

\* The types are right initially.
LEMMA InitType == Init => TypeOK
  BY DEF Init, TypeOK

\* A step begins a request, or is one of the others.
LEMMA StepCases ==
    ASSUME TypeOK, Next
    PROVE  \/ \E w \in Workers, c \in Catalogs, row \in Row \union {NoRow} : SaveStep(w, c, row)
           \/ \E w \in Workers, q \in Queries, f \in Filters, auto \in BOOLEAN :
                 BeginSaveQuery(w, q, f, auto)
           \/ \E w \in Workers : BeginMigrate(w)
           \/ \E old, new \in Queries : BulkUpdate(old, new)
           \/ \E w \in Workers, c \in Catalogs : WriteRow(w, c) \/ Send(w, c) \/ FailToSend(w, c)
           \/ \E w \in Workers : Commit(w) \/ Rollback(w)
  <1>1. ASSUME NEW w \in Workers, BeginAny(w)
        PROVE  \/ \E c \in Catalogs, row \in Row \union {NoRow} : SaveStep(w, c, row)
               \/ \E q \in Queries, f \in Filters, auto \in BOOLEAN : BeginSaveQuery(w, q, f, auto)
               \/ BeginMigrate(w)
    BY <1>1, SaveStepFacts DEF BeginAny
  <1> QED
    BY <1>1 DEF Next, Continue

\* Every step preserves the types.
LEMMA NextType ==
    ASSUME TypeOK, [Next]_vars
    PROVE  TypeOK'
  <1> USE DEF TypeOK
  <1>1. CASE UNCHANGED vars
    BY <1>1 DEF vars
  <1>2. ASSUME NEW w \in Workers, NEW c \in Catalogs, NEW row \in Row \union {NoRow},
               SaveStep(w, c, row)
        PROVE  TypeOK'
    <2>1. PICK auto \in BOOLEAN : Begin(w, auto, NoRow, Only(c, row), None)
      BY <1>2 DEF SaveStep
    <2>2. Only(c, row) \in Rows /\ None \in Rows
      BY <1>2, OnlyFacts, NoneFacts
    <2>3. request' \in [Workers -> Request \union {Idle}]
      BY <2>1, <2>2, BeginFacts
    <2> QED
      BY <1>2, <2>3 DEF SaveStep
  <1>3. ASSUME NEW w \in Workers, NEW q \in Queries, NEW f \in Filters, NEW auto \in BOOLEAN,
               BeginSaveQuery(w, q, f, auto)
        PROVE  TypeOK'
    BY <1>3, SaveQueryFacts DEF BeginSaveQuery
  <1>4. ASSUME NEW w \in Workers, BeginMigrate(w)
        PROVE  TypeOK'
    BY <1>4, MigrateFacts DEF BeginMigrate
  <1>5. ASSUME NEW old \in Queries, NEW new \in Queries, BulkUpdate(old, new)
        PROVE  TypeOK'
    BY <1>5, BulkUpdateType DEF BulkUpdate, RecordedOf
  <1>6. ASSUME NEW w \in Workers, NEW c \in Catalogs, WriteRow(w, c)
        PROVE  TypeOK'
    <2>1. /\ request' \in [Workers -> Request \union {Idle}]
          /\ request[w].todo[c] \in Row \union {NoRow}
      BY <1>6, WriteFacts
    <2>2. Recorded(request[w].todo[c]) \in Queries \union {NoQuery}
      BY <2>1, RecordedType
    <2> QED
      BY <1>6, <2>1, <2>2 DEF WriteRow
  <1>7. ASSUME NEW w \in Workers, NEW c \in Catalogs, Send(w, c) \/ FailToSend(w, c)
        PROVE  TypeOK'
    <2>1. /\ request' \in [Workers -> Request \union {Idle}]
          /\ request[w].unsent[c] \in Row \union {NoRow}
      BY <1>7, SentFacts DEF Send, FailToSend
    <2> QED
      BY <1>7, <2>1 DEF Send, FailToSend, Delivered
  <1>8. ASSUME NEW w \in Workers, Commit(w)
        PROVE  TypeOK'
    <2>1. \A c \in DOMAIN request[w].wrote : request[w].wrote[c] \in Row \union {NoRow}
      BY <1>8, CommitFacts, RowsFacts
    <2>2. recorded' \in [Catalogs -> Queries \union {NoQuery}]
      BY <1>8, <2>1, RecordedType DEF Commit
    <2> QED
      BY <1>8, <2>2, CommitFacts, EndFacts DEF Commit
  <1>9. ASSUME NEW w \in Workers, Rollback(w)
        PROVE  TypeOK'
    <2>1. /\ DOMAIN request[w].todo \subseteq Catalogs
          /\ DOMAIN request[w].wrote \subseteq Catalogs
          /\ DOMAIN request[w].unsent \subseteq Catalogs
      BY <1>9, RequestFields, RowsFacts DEF Rollback
    <2> QED
      BY <1>9, <2>1, EndFacts DEF Rollback
  <1> QED
    BY <1>1, <1>2, <1>3, <1>4, <1>5, <1>6, <1>7, <1>8, <1>9, StepCases

-----------------------------------------------------------------------------
(* What the service has                                                    *)

\* One worker at a time has written a row of a catalog.
LocksAreUnique ==
    \A v, w \in Workers, c \in Catalogs : LockedBy(v, c) /\ LockedBy(w, c) => v = w

\* A transaction sends what it has written; a command holds no locks.
SendsWhatItWrites ==
    \A w \in Workers : Busy(w) =>
        /\ request[w].auto => DOMAIN request[w].wrote = {}
        /\ ~request[w].auto => \A c \in DOMAIN request[w].unsent :
              LockedBy(w, c) /\ request[w].unsent[c] = request[w].wrote[c]

Sends(w, c) == Busy(w) /\ c \in DOMAIN request[w].unsent

\* The service has the row that is written, or the row of the catalog.
Agrees(c) ==
    /\ \A w \in Workers : LockedBy(w, c) => remote[c] = request[w].wrote[c]
    /\ ~Locked(c) => remote[c] = catalog[c]

AgreesOrSends ==
    \A c \in Catalogs \ missed : Agrees(c) \/ \E w \in Workers : Sends(w, c)

ServiceInvariant == LocksAreUnique /\ SendsWhatItWrites /\ AgreesOrSends

\* Initially there are no catalogs and no requests.
LEMMA InitService == Init => ServiceInvariant
  BY DEF Init, ServiceInvariant, LocksAreUnique, SendsWhatItWrites, AgreesOrSends, Agrees,
         LockedBy, Locked, Sends, Busy

\* A request begins.
LEMMA BeginKeepsService ==
    ASSUME ServiceInvariant, NEW w \in Workers, ~Busy(w), Busy(w)',
           \A v \in Workers : v # w => request'[v] = request[v],
           request'[w].wrote = None, request'[w].auto \/ request'[w].unsent = None,
           UNCHANGED <<catalog, remote, missed>>
    PROVE  ServiceInvariant'
  <1>1. DOMAIN request'[w].wrote = {}
    BY NoneFacts
  <1>2. \A v \in Workers, c \in Catalogs :
           /\ LockedBy(v, c)' <=> LockedBy(v, c)
           /\ LockedBy(v, c) => request'[v] = request[v]
           /\ Sends(v, c) => Sends(v, c)'
    BY <1>1 DEF LockedBy, Busy, Sends
  <1>3. \A c \in Catalogs : Locked(c)' <=> Locked(c)
    BY <1>2 DEF Locked
  <1>4. LocksAreUnique'
    BY <1>2 DEF ServiceInvariant, LocksAreUnique
  <1>5. SendsWhatItWrites'
    BY <1>1, NoneFacts DEF ServiceInvariant, SendsWhatItWrites, LockedBy, Busy
  <1>6. \A c \in Catalogs : Agrees(c) => Agrees(c)'
    BY <1>2, <1>3 DEF Agrees
  <1>7. AgreesOrSends'
    BY <1>2, <1>6 DEF ServiceInvariant, AgreesOrSends
  <1> QED
    BY <1>4, <1>5, <1>7 DEF ServiceInvariant

\* A row is written: it is locked, or the catalog's, and to be sent.
LEMMA WriteKeepsService ==
    ASSUME TypeOK, ServiceInvariant, NEW w \in Workers, NEW c \in Catalogs, WriteRow(w, c)
    PROVE  ServiceInvariant'
  <1> DEFINE row == request[w].todo[c]
  <1>1. /\ Busy(w) /\ Busy(w)' /\ row \in Row \union {NoRow}
        /\ \A v \in Workers : v # w => request'[v] = request[v]
        /\ request'[w].auto = request[w].auto
        /\ request'[w].wrote = IF request[w].auto THEN request[w].wrote
                               ELSE With(request[w].wrote, c, row)
        /\ request'[w].unsent = Only(c, row)
    BY WriteFacts
  <1>2. /\ request[w].unsent = None /\ ~Locked(c)
        /\ catalog' = IF request[w].auto THEN [catalog EXCEPT ![c] = row] ELSE catalog
        /\ remote' = remote /\ missed' = missed
    BY DEF WriteRow
  <1>3. request[w].wrote \in Rows /\ DOMAIN request[w].unsent = {}
    BY <1>1, <1>2, RequestFields, NoneFacts
  <1> HIDE DEF row
  <1>4. DOMAIN Only(c, row) = {c} /\ Only(c, row)[c] = row
    BY <1>1, OnlyFacts
  <1>5. /\ DOMAIN With(request[w].wrote, c, row) = DOMAIN request[w].wrote \union {c}
        /\ With(request[w].wrote, c, row)[c] = row
        /\ \A d \in DOMAIN request[w].wrote : d # c =>
              With(request[w].wrote, c, row)[d] = request[w].wrote[d]
    <2> DEFINE wrote == request[w].wrote
    <2>1. wrote \in Rows /\ row \in Row \union {NoRow}
      BY <1>1, <1>3
    <2> HIDE DEF wrote
    <2>2. /\ DOMAIN With(wrote, c, row) = DOMAIN wrote \union {c}
          /\ With(wrote, c, row)[c] = row
          /\ \A d \in DOMAIN wrote : d # c => With(wrote, c, row)[d] = wrote[d]
      BY <2>1, WithFacts, Zenon
    <2> QED
      BY <2>2 DEF wrote
  <1>6. /\ ~request[w].auto => LockedBy(w, c)' /\ request'[w].wrote[c] = row
        /\ request[w].auto => request'[w].wrote = request[w].wrote
    BY <1>1, <1>5 DEF LockedBy, Busy
  <1>7. \A v \in Workers, d \in Catalogs :
           v # w \/ d # c \/ request[w].auto => (LockedBy(v, d)' <=> LockedBy(v, d))
    BY <1>1, <1>5 DEF LockedBy, Busy
  <1>8. LocksAreUnique'
    BY <1>2, <1>7 DEF ServiceInvariant, LocksAreUnique, Locked
  <1>9. SendsWhatItWrites'
    <2>1. ASSUME NEW v \in Workers, v # w, Busy(v)'
          PROVE  /\ (request[v].auto => DOMAIN request[v].wrote = {})'
                 /\ (~request[v].auto => \A d \in DOMAIN request[v].unsent :
                       LockedBy(v, d) /\ request[v].unsent[d] = request[v].wrote[d])'
      BY <1>1, <2>1 DEF ServiceInvariant, SendsWhatItWrites, LockedBy, Busy
    <2>2. request'[w].auto => DOMAIN request'[w].wrote = {}
      BY <1>1, <1>6 DEF ServiceInvariant, SendsWhatItWrites
    <2>3. ~request'[w].auto => \A d \in DOMAIN request'[w].unsent :
              LockedBy(w, d)' /\ request'[w].unsent[d] = request'[w].wrote[d]
      BY <1>1, <1>4, <1>6
    <2> QED
      BY <2>1, <2>2, <2>3 DEF SendsWhatItWrites
  <1>10. AgreesOrSends'
    <2>1. Sends(w, c)'
      BY <1>1, <1>4 DEF Sends, Busy
    <2>2. ASSUME NEW d \in Catalogs, d # c, NEW v \in Workers, Sends(v, d)
          PROVE  Sends(v, d)'
      BY <1>1, <1>3, <2>2 DEF Sends, Busy
    <2>3. ASSUME NEW d \in Catalogs, d # c, Agrees(d)
          PROVE  Agrees(d)'
      <3>1. Locked(d)' <=> Locked(d)
        BY <1>7, <2>3 DEF Locked
      <3>2. catalog'[d] = catalog[d]
        BY <1>2, <2>3 DEF TypeOK
      <3>3. ASSUME NEW v \in Workers, LockedBy(v, d)'
            PROVE  LockedBy(v, d) /\ request'[v].wrote[d] = request[v].wrote[d]
        BY <1>1, <1>5, <1>7, <2>3, <3>3 DEF LockedBy
      <3> QED
        BY <1>2, <2>3, <3>1, <3>2, <3>3 DEF Agrees
    <2> QED
      BY <1>2, <2>1, <2>2, <2>3 DEF ServiceInvariant, AgreesOrSends
  <1> QED
    BY <1>8, <1>9, <1>10 DEF ServiceInvariant

\* A row is sent, or the call fails.
LEMMA SendKeepsService ==
    ASSUME TypeOK, ServiceInvariant, NEW w \in Workers, NEW c \in Catalogs,
           Send(w, c) \/ FailToSend(w, c)
    PROVE  ServiceInvariant'
  <1>1. /\ Busy(w) /\ c \in DOMAIN request[w].unsent /\ SentOff(w, c) /\ catalog' = catalog
        /\ \A d \in Catalogs : d # c => remote'[d] = remote[d]
        /\ \A d \in Catalogs : d # c => (d \in missed' <=> d \in missed)
    BY DEF Send, FailToSend, TypeOK
  <1>2. /\ Busy(w)' /\ \A v \in Workers : v # w => request'[v] = request[v]
        /\ request'[w].auto = request[w].auto /\ request'[w].wrote = request[w].wrote
        /\ request'[w].unsent = Without(request[w].unsent, c)
    BY <1>1, SentFacts
  <1>3. /\ DOMAIN request'[w].unsent = DOMAIN request[w].unsent \ {c}
        /\ \A d \in DOMAIN request'[w].unsent : request'[w].unsent[d] = request[w].unsent[d]
    <2> DEFINE unsent == request[w].unsent
    <2>1. unsent \in Rows
      BY <1>1, RequestFields
    <2> HIDE DEF unsent
    <2>2. /\ DOMAIN Without(unsent, c) = DOMAIN unsent \ {c}
          /\ \A d \in DOMAIN unsent \ {c} : Without(unsent, c)[d] = unsent[d]
      BY <2>1, WithoutFacts
    <2>3. request'[w].unsent = Without(unsent, c)
      BY <1>2 DEF unsent
    <2> QED
      BY <2>2, <2>3 DEF unsent
  <1>4. \A v \in Workers, d \in Catalogs :
           /\ LockedBy(v, d)' <=> LockedBy(v, d)
           /\ request'[v].wrote = request[v].wrote
           /\ d # c => (Sends(v, d) => Sends(v, d)')
    BY <1>1, <1>2, <1>3 DEF LockedBy, Busy, Sends
  <1>5. \A d \in Catalogs : Locked(d)' <=> Locked(d)
    BY <1>4 DEF Locked
  <1>6. LocksAreUnique'
    BY <1>4 DEF ServiceInvariant, LocksAreUnique
  <1>7. SendsWhatItWrites'
    BY <1>1, <1>2, <1>3 DEF ServiceInvariant, SendsWhatItWrites, LockedBy, Busy
  <1>8. \A d \in Catalogs : d # c /\ Agrees(d) => Agrees(d)'
    BY <1>1, <1>4, <1>5 DEF Agrees
  <1>9. c \notin missed' => Agrees(c)'
    <2>1. SUFFICES ASSUME c \notin missed' PROVE Agrees(c)'
      OBVIOUS
    <2>2. remote'[c] = request[w].unsent[c] /\ ~IsLate(w, c)
      BY <2>1 DEF Send, FailToSend, Delivered, TypeOK
    <2>3. CASE LockedBy(w, c)
      <3>1. request[w].unsent[c] = request[w].wrote[c]
        BY <1>1, <2>3 DEF ServiceInvariant, SendsWhatItWrites, LockedBy
      <3>2. \A v \in Workers : LockedBy(v, c) => v = w
        BY <2>3 DEF ServiceInvariant, LocksAreUnique
      <3> QED
        BY <1>4, <1>5, <2>2, <2>3, <3>1, <3>2 DEF Agrees, Locked
    <2>4. CASE ~LockedBy(w, c)
      BY <1>1, <1>4, <1>5, <2>2, <2>4 DEF Agrees, IsLate, Locked
    <2> QED
      BY <2>3, <2>4
  <1>10. AgreesOrSends'
    BY <1>1, <1>4, <1>8, <1>9 DEF ServiceInvariant, AgreesOrSends
  <1> QED
    BY <1>6, <1>7, <1>10 DEF ServiceInvariant

\* A transaction commits, or a command is done.
LEMMA CommitKeepsService ==
    ASSUME TypeOK, ServiceInvariant, NEW w \in Workers, Commit(w)
    PROVE  ServiceInvariant'
  <1>1. /\ Busy(w) /\ DOMAIN request[w].unsent = {}
        /\ \A c \in Catalogs : catalog'[c] = IF c \in DOMAIN request[w].wrote
                                             THEN request[w].wrote[c] ELSE catalog[c]
        /\ remote' = remote /\ missed' = missed /\ request' = [request EXCEPT ![w] = Idle]
    BY CommitFacts DEF Commit
  <1>2. ~Busy(w)' /\ \A v \in Workers : v # w => request'[v] = request[v]
    BY <1>1, EndFacts
  <1>3. \A v \in Workers, c \in Catalogs :
           /\ LockedBy(v, c)' <=> (LockedBy(v, c) /\ v # w)
           /\ Sends(v, c) => Sends(v, c)'
    BY <1>1, <1>2 DEF LockedBy, Busy, Sends
  <1>4. LocksAreUnique' /\ SendsWhatItWrites'
    BY <1>2, <1>3 DEF ServiceInvariant, LocksAreUnique, SendsWhatItWrites, LockedBy, Busy
  <1>5. ASSUME NEW c \in Catalogs, Agrees(c)
        PROVE  Agrees(c)'
    <2>1. \A v \in Workers : LockedBy(v, c)' => request'[v] = request[v]
      BY <1>2, <1>3
    <2>2. CASE LockedBy(w, c)
      <3>1. catalog'[c] = request[w].wrote[c]
        BY <1>1, <2>2 DEF LockedBy
      <3> QED
        BY <1>1, <1>3, <1>5, <2>1, <2>2, <3>1 DEF Agrees
    <2>3. CASE ~LockedBy(w, c)
      <3>1. Locked(c)' <=> Locked(c)
        BY <1>3, <2>3 DEF Locked
      <3>2. catalog'[c] = catalog[c]
        BY <1>1, <2>3 DEF LockedBy
      <3> QED
        BY <1>1, <1>3, <1>5, <2>1, <3>1, <3>2 DEF Agrees
    <2> QED
      BY <2>2, <2>3
  <1>6. AgreesOrSends'
    BY <1>1, <1>3, <1>5 DEF ServiceInvariant, AgreesOrSends
  <1> QED
    BY <1>4, <1>6 DEF ServiceInvariant

\* What a request that fails has written or not sent is missed.
LEMMA RollbackKeepsService ==
    ASSUME TypeOK, ServiceInvariant, NEW w \in Workers, Rollback(w)
    PROVE  ServiceInvariant'
  <1>1. /\ Busy(w) /\ remote' = remote /\ catalog' = catalog
        /\ missed' = missed \union DOMAIN request[w].wrote \union DOMAIN request[w].unsent
        /\ request' = [request EXCEPT ![w] = Idle]
    BY DEF Rollback
  <1>2. ~Busy(w)' /\ \A v \in Workers : v # w => request'[v] = request[v]
    BY <1>1, EndFacts
  <1>3. \A v \in Workers, c \in Catalogs :
           /\ LockedBy(v, c)' <=> (LockedBy(v, c) /\ v # w)
           /\ c \notin missed' /\ Sends(v, c) => Sends(v, c)'
           /\ c \notin missed' => ~LockedBy(w, c)
    BY <1>1, <1>2 DEF LockedBy, Busy, Sends
  <1>4. LocksAreUnique' /\ SendsWhatItWrites'
    BY <1>2, <1>3 DEF ServiceInvariant, LocksAreUnique, SendsWhatItWrites, LockedBy, Busy
  <1>5. ASSUME NEW c \in Catalogs, c \notin missed', Agrees(c)
        PROVE  Agrees(c)'
    <2>1. \A v \in Workers : LockedBy(v, c)' => request'[v] = request[v]
      BY <1>2, <1>3
    <2>2. Locked(c)' <=> Locked(c)
      BY <1>3, <1>5 DEF Locked
    <2> QED
      BY <1>1, <1>3, <1>5, <2>1, <2>2 DEF Agrees
  <1>6. AgreesOrSends'
    BY <1>1, <1>3, <1>5 DEF ServiceInvariant, AgreesOrSends
  <1> QED
    BY <1>4, <1>6 DEF ServiceInvariant

\* The update of the rows of a query passes the service by.
LEMMA BulkUpdateKeepsService ==
    ASSUME TypeOK, ServiceInvariant, NEW old \in Queries, NEW new \in Queries, BulkUpdate(old, new)
    PROVE  ServiceInvariant'
  <1>1. /\ request' = request /\ remote' = remote /\ missed' = missed \union RecordedOf(old)
        /\ \A c \in Catalogs : c \notin missed' => catalog'[c] = catalog[c]
    BY DEF BulkUpdate
  <1>2. \A v \in Workers, c \in Catalogs :
           (LockedBy(v, c)' <=> LockedBy(v, c)) /\ (Sends(v, c)' <=> Sends(v, c))
    BY <1>1 DEF LockedBy, Sends, Busy
  <1>3. LocksAreUnique' /\ SendsWhatItWrites'
    BY <1>1, <1>2 DEF ServiceInvariant, LocksAreUnique, SendsWhatItWrites, LockedBy, Busy
  <1>4. \A c \in Catalogs : c \notin missed' /\ Agrees(c) => Agrees(c)'
    BY <1>1, <1>2 DEF Agrees, Locked
  <1>5. AgreesOrSends'
    BY <1>1, <1>2, <1>4 DEF ServiceInvariant, AgreesOrSends
  <1> QED
    BY <1>3, <1>5 DEF ServiceInvariant

\* Every step preserves it.
LEMMA NextService ==
    ASSUME TypeOK, ServiceInvariant, [Next]_vars
    PROVE  ServiceInvariant'
  <1>1. CASE UNCHANGED vars
    BY <1>1 DEF vars, ServiceInvariant, LocksAreUnique, SendsWhatItWrites, AgreesOrSends, Agrees,
                LockedBy, Locked, Sends, Busy
  <1>2. ASSUME NEW w \in Workers, NEW c \in Catalogs, NEW row \in Row \union {NoRow},
               SaveStep(w, c, row)
        PROVE  ServiceInvariant'
    <2>1. PICK auto \in BOOLEAN : Begin(w, auto, NoRow, Only(c, row), None)
      BY <1>2 DEF SaveStep
    <2>2. Only(c, row) \in Rows /\ None \in Rows
      BY OnlyFacts, NoneFacts
    <2>3. /\ ~Busy(w) /\ Busy(w)' /\ \A v \in Workers : v # w => request'[v] = request[v]
          /\ request'[w].wrote = None /\ request'[w].unsent = None
      BY <2>1, <2>2, BeginFacts
    <2> QED
      BY <1>2, <2>3, BeginKeepsService DEF SaveStep
  <1>3. ASSUME NEW w \in Workers, NEW q \in Queries, NEW f \in Filters, NEW auto \in BOOLEAN,
               BeginSaveQuery(w, q, f, auto)
        PROVE  ServiceInvariant'
    BY <1>3, SaveQueryFacts, BeginKeepsService DEF BeginSaveQuery
  <1>4. ASSUME NEW w \in Workers, BeginMigrate(w)
        PROVE  ServiceInvariant'
    BY <1>4, MigrateFacts, BeginKeepsService DEF BeginMigrate
  <1> QED
    BY <1>1, <1>2, <1>3, <1>4, BulkUpdateKeepsService, WriteKeepsService, SendKeepsService,
       CommitKeepsService, RollbackKeepsService, StepCases

-----------------------------------------------------------------------------
(* Catalogs follow their queries                                           *)

\* w is about to write the row of c, or has written it.
Writes(w, c, row) ==
    /\ Busy(w) /\ row # NoRow
    /\ \/ c \in DOMAIN request[w].todo /\ request[w].todo[c] = row
       \/ c \in DOMAIN request[w].wrote /\ request[w].wrote[c] = row

\* The row is the one of the query that w saves, or that of its query as
\* others see it, and no other saves that query.
WriteFollows(w, row) ==
    /\ request[w].save # NoRow => row = request[w].save
    /\ (request[w].save = NoRow \/ request[w].auto) /\ row.query \in Queries
          => row.filter = query[row.query]
    /\ \A v \in Workers : v # w => ~Saves(v, row.query)

WritesFollow ==
    \A w \in Workers, c \in Catalogs \ raced, row \in Row :
        Writes(w, c, row) => WriteFollows(w, row)

SavesQueries ==
    \A w \in Workers : Busy(w) /\ request[w].save # NoRow => request[w].save.query \in Queries

\* A transaction that saves a query has all its catalogs.
Covers(w, c) == c \in DOMAIN request[w].todo \/ c \in DOMAIN request[w].wrote

SavesCover ==
    \A w \in Workers, q \in Queries : Saves(w, q) /\ ~request[w].auto =>
        \A c \in CatalogsOf(q) \ raced : Covers(w, c)

\* A command that has saved a query has still to write the catalog.
Owed(w, c, q) == Saves(w, q) /\ request[w].auto /\ c \in DOMAIN request[w].todo

FollowsOrOwed ==
    \A q \in Queries : \A c \in CatalogsOf(q) \ raced :
        catalog[c].filter = query[q] \/ \E w \in Workers : Owed(w, c, q)

QueryInvariant == WritesFollow /\ SavesQueries /\ SavesCover /\ FollowsOrOwed

\* Initially there are no catalogs and no requests.
LEMMA InitQuery == Init => QueryInvariant
  BY DEF Init, QueryInvariant, WritesFollow, Writes, SavesQueries, SavesCover, Saves, FollowsOrOwed,
         CatalogsOf, Busy

\* What is said of a worker stays true while its request stays.
LEMMA RequestKept ==
    ASSUME NEW v \in Workers, request'[v] = request[v]
    PROVE  /\ Busy(v)' <=> Busy(v)
           /\ \A c, row : Writes(v, c, row)' <=> Writes(v, c, row)
           /\ \A q : Saves(v, q)' <=> Saves(v, q)
           /\ \A c : Covers(v, c)' <=> Covers(v, c)
           /\ \A c, q : Owed(v, c, q)' <=> Owed(v, c, q)
  BY DEF Busy, Writes, Saves, Covers, Owed

\* A request to save one catalog begins, or one that only sends.
LEMMA BeginKeepsQuery ==
    ASSUME QueryInvariant, NEW w \in Workers, ~Busy(w), Busy(w)',
           \A v \in Workers : v # w => request'[v] = request[v],
           request'[w].save = NoRow, UNCHANGED <<query, catalog>>, raced \subseteq raced',
           \A c \in Catalogs \ raced', row \in Row : Writes(w, c, row)' =>
              /\ row.query \in Queries => row.filter = query[row.query]
              /\ \A v \in Workers : ~Saves(v, row.query)
    PROVE  QueryInvariant'
  <1>1. \A v \in Workers : \A q : Saves(v, q)' <=> Saves(v, q)
    BY RequestKept DEF Saves
  <1>2. \A v \in Workers : v # w =>
           /\ Busy(v)' <=> Busy(v)
           /\ \A c, row : Writes(v, c, row)' <=> Writes(v, c, row)
           /\ \A c : Covers(v, c)' <=> Covers(v, c)
           /\ \A c, q : Owed(v, c, q)' <=> Owed(v, c, q)
    BY RequestKept
  <1>3. WritesFollow'
    <2> SUFFICES ASSUME NEW v \in Workers, NEW c \in Catalogs, c \notin raced', NEW row \in Row,
                        Writes(v, c, row)'
                 PROVE  WriteFollows(v, row)'
      BY DEF WritesFollow
    <2>1. CASE v = w
      BY <1>1, <2>1 DEF WriteFollows
    <2>2. CASE v # w
      <3>1. WriteFollows(v, row)
        BY <1>2, <2>2 DEF QueryInvariant, WritesFollow
      <3> QED
        BY <1>1, <2>2, <3>1 DEF WriteFollows
    <2> QED
      BY <2>1, <2>2
  <1>4. SavesQueries'
    BY <1>2 DEF QueryInvariant, SavesQueries
  <1>5. SavesCover'
    BY <1>1, <1>2 DEF QueryInvariant, SavesCover, CatalogsOf, Saves
  <1>6. FollowsOrOwed'
    <2>1. \A v \in Workers, c \in Catalogs, q \in Queries : Owed(v, c, q) => Owed(v, c, q)'
      BY <1>2 DEF Owed, Saves
    <2> QED
      BY <2>1 DEF QueryInvariant, FollowsOrOwed, CatalogsOf
  <1> QED
    BY <1>3, <1>4, <1>5, <1>6 DEF QueryInvariant

\* The catalogs that others write as catalogs of the query are raced.
LEMMA SaveQueryKeepsQuery ==
    ASSUME TypeOK, QueryInvariant, NEW w \in Workers, NEW q \in Queries, NEW f \in Filters,
           NEW auto \in BOOLEAN, BeginSaveQuery(w, q, f, auto)
    PROVE  QueryInvariant'
  <1>1. /\ ~Busy(w) /\ Busy(w)' /\ \A v \in Workers : v # w => request'[v] = request[v]
        /\ request'[w].auto = auto /\ request'[w].save = [query |-> q, filter |-> f]
        /\ request'[w].save # NoRow /\ request'[w].todo = FanOut(q, f)
        /\ DOMAIN request'[w].wrote = {}
    BY SaveQueryFacts, NoneFacts
  <1>2. /\ catalog' = catalog /\ raced \subseteq raced'
        /\ \A p \in Queries : p # q \/ ~auto => query'[p] = query[p]
        /\ auto => query'[q] = f
        /\ \A c \in Catalogs \ raced', v \in Workers :
              ~Follows(v, c, q) /\ (c \in CatalogsOf(q) => ~Saves(v, q))
    BY DEF BeginSaveQuery, TypeOK
  <1>3. \A v \in Workers : v # w =>
           /\ Busy(v)' <=> Busy(v)
           /\ \A c, row : Writes(v, c, row)' <=> Writes(v, c, row)
           /\ \A p : Saves(v, p)' <=> Saves(v, p)
           /\ \A c : Covers(v, c)' <=> Covers(v, c)
           /\ \A c, p : Owed(v, c, p)' <=> Owed(v, c, p)
    BY <1>1, RequestKept
  <1>4. \A p : Saves(w, p)' <=> p = q
    BY <1>1 DEF Saves
  <1>5. /\ DOMAIN request'[w].todo = CatalogsOf(q)
        /\ \A c \in CatalogsOf(q) : request'[w].todo[c] = [query |-> q, filter |-> f]
    BY <1>1, FanOutFacts
  <1>6. WritesFollow'
    <2> SUFFICES ASSUME NEW v \in Workers, NEW c \in Catalogs, c \notin raced', NEW row \in Row,
                        Writes(v, c, row)'
                 PROVE  WriteFollows(v, row)'
      BY DEF WritesFollow
    <2>1. CASE v = w
      <3>1. c \in CatalogsOf(q) /\ row = [query |-> q, filter |-> f]
        BY <1>1, <1>5, <2>1 DEF Writes
      <3>2. row.query = q /\ row.filter = f /\ row = request'[w].save
        BY <1>1, <3>1
      <3>3. \A u \in Workers : u # w => ~Saves(u, q)'
        BY <1>2, <1>3, <3>1
      <3> QED
        BY <1>1, <1>2, <2>1, <3>2, <3>3 DEF WriteFollows
    <2>2. CASE v # w
      <3>1. Writes(v, c, row)
        BY <1>3, <2>2
      <3>2. WriteFollows(v, row)
        BY <1>2, <3>1 DEF QueryInvariant, WritesFollow
      <3>3. row.query # q
        BY <1>2, <3>1 DEF Writes, Follows
      <3> QED
        BY <1>1, <1>2, <1>3, <1>4, <2>2, <3>2, <3>3 DEF WriteFollows
    <2> QED
      BY <2>1, <2>2
  <1>7. SavesQueries'
    BY <1>1, <1>3 DEF QueryInvariant, SavesQueries
  <1>8. SavesCover'
    <2>1. ASSUME NEW v \in Workers, NEW p \in Queries, Saves(v, p)', ~request'[v].auto,
                 NEW c \in CatalogsOf(p)', c \notin raced'
          PROVE  Covers(v, c)'
      <3>1. CASE v = w
        BY <1>2, <1>4, <1>5, <2>1, <3>1 DEF Covers, CatalogsOf
      <3>2. CASE v # w
        BY <1>1, <1>2, <1>3, <2>1, <3>2 DEF QueryInvariant, SavesCover, CatalogsOf
      <3> QED
        BY <3>1, <3>2
    <2> QED
      BY <2>1 DEF SavesCover
  <1>9. FollowsOrOwed'
    <2>1. ASSUME NEW p \in Queries, NEW c \in CatalogsOf(p), c \notin raced'
          PROVE  catalog[c].filter = query'[p] \/ \E v \in Workers : Owed(v, c, p)'
      <3>1. CASE p = q /\ auto
        BY <1>1, <1>4, <1>5, <2>1, <3>1 DEF Owed
      <3>2. CASE p # q \/ ~auto
        <4>1. catalog[c].filter = query[p] \/ \E v \in Workers : Owed(v, c, p)
          BY <1>2, <2>1 DEF QueryInvariant, FollowsOrOwed
        <4>2. \A v \in Workers : Owed(v, c, p) => Owed(v, c, p)'
          BY <1>1, <1>3 DEF Owed, Saves
        <4> QED
          BY <1>2, <3>2, <4>1, <4>2
      <3> QED
        BY <3>1, <3>2
    <2> QED
      BY <1>2, <2>1 DEF FollowsOrOwed, CatalogsOf
  <1> QED
    BY <1>6, <1>7, <1>8, <1>9 DEF QueryInvariant

\* A command's row is in the table, with the filter of its query.
LEMMA WriteKeepsQuery ==
    ASSUME TypeOK, QueryInvariant, NEW w \in Workers, NEW c \in Catalogs, WriteRow(w, c)
    PROVE  QueryInvariant'
  <1> DEFINE row == request[w].todo[c]
  <1>1. /\ Busy(w) /\ Busy(w)' /\ c \in DOMAIN request[w].todo /\ row \in Row \union {NoRow}
        /\ \A v \in Workers : v # w => request'[v] = request[v]
        /\ request'[w].auto = request[w].auto /\ request'[w].save = request[w].save
        /\ request'[w].todo = Without(request[w].todo, c)
        /\ request'[w].wrote = IF request[w].auto THEN request[w].wrote
                               ELSE With(request[w].wrote, c, row)
    BY WriteFacts
  <1>2. /\ query' = query /\ raced' = raced
        /\ catalog' = IF request[w].auto THEN [catalog EXCEPT ![c] = row] ELSE catalog
    BY DEF WriteRow
  <1>3. request[w].wrote \in Rows /\ request[w].todo \in Rows
    BY <1>1, RequestFields
  <1>4. /\ DOMAIN request'[w].todo = DOMAIN request[w].todo \ {c}
        /\ \A d \in DOMAIN request'[w].todo : request'[w].todo[d] = request[w].todo[d]
    <2> DEFINE todo == request[w].todo
    <2>1. todo \in Rows
      BY <1>3
    <2> HIDE DEF todo
    <2>2. /\ DOMAIN Without(todo, c) = DOMAIN todo \ {c}
          /\ \A d \in DOMAIN todo \ {c} : Without(todo, c)[d] = todo[d]
      BY <2>1, WithoutFacts
    <2> QED
      BY <1>1, <2>2 DEF todo
  <1>5. ~request[w].auto =>
           /\ DOMAIN request'[w].wrote = DOMAIN request[w].wrote \union {c}
           /\ request'[w].wrote[c] = row
           /\ \A d \in DOMAIN request[w].wrote :
                 d # c => request'[w].wrote[d] = request[w].wrote[d]
    <2> DEFINE wrote == request[w].wrote
    <2>1. wrote \in Rows /\ row \in Row \union {NoRow}
      BY <1>1, <1>3
    <2> HIDE DEF wrote, row
    <2>2. /\ DOMAIN With(wrote, c, row) = DOMAIN wrote \union {c}
          /\ With(wrote, c, row)[c] = row
          /\ \A d \in DOMAIN wrote : d # c => With(wrote, c, row)[d] = wrote[d]
      BY <2>1, WithFacts, Zenon
    <2>3. ~request[w].auto => request'[w].wrote = With(wrote, c, row)
      BY <1>1 DEF wrote
    <2> QED
      BY <2>2, <2>3 DEF wrote
  <1>6. /\ \A v \in Workers : \A d, x : Writes(v, d, x)' => Writes(v, d, x)
        /\ \A v \in Workers : \A p : Saves(v, p)' <=> Saves(v, p)
        /\ \A v \in Workers : \A d : Covers(v, d) /\ ~request[v].auto => Covers(v, d)'
        /\ \A v \in Workers : \A d, p : Owed(v, d, p) /\ d # c => Owed(v, d, p)'
        /\ \A v \in Workers : \A p : Owed(v, c, p) /\ v # w => Owed(v, c, p)'
    <2>1. \A d, x : Writes(w, d, x)' => Writes(w, d, x)
      BY <1>1, <1>4, <1>5 DEF Writes
    <2>2. \A p : Saves(w, p)' <=> Saves(w, p)
      BY <1>1 DEF Saves
    <2>3. \A d : Covers(w, d) /\ ~request[w].auto => Covers(w, d)'
      BY <1>1, <1>4, <1>5 DEF Covers
    <2>4. \A d, p : Owed(w, d, p) /\ d # c => Owed(w, d, p)'
      BY <1>1, <1>4, <2>2 DEF Owed
    <2> QED
      BY <1>1, <2>1, <2>2, <2>3, <2>4, RequestKept
  <1>7. /\ \A v \in Workers : Busy(v)' <=> Busy(v)
        /\ \A v \in Workers :
              request'[v].auto = request[v].auto /\ request'[v].save = request[v].save
    BY <1>1, RequestKept
  <1>8. \A d \in Catalogs : d # c \/ ~request[w].auto => catalog'[d] = catalog[d]
    BY <1>2 DEF TypeOK
  <1>9. request[w].auto => catalog'[c] = row
    BY <1>2 DEF TypeOK
  <1>10. row # NoRow => Writes(w, c, row)
    BY <1>1 DEF Writes
  <1> HIDE DEF row
  <1>11. WritesFollow'
    BY <1>2, <1>6, <1>7 DEF QueryInvariant, WritesFollow, WriteFollows
  <1>12. SavesQueries'
    BY <1>7 DEF QueryInvariant, SavesQueries
  <1>13. SavesCover'
    <2>1. ASSUME NEW v \in Workers, NEW q \in Queries, Saves(v, q), ~request[v].auto,
                 NEW d \in CatalogsOf(q)', d \notin raced
          PROVE  Covers(v, d)'
      <3>1. CASE d # c \/ ~request[w].auto
        <4>1. d \in CatalogsOf(q)
          BY <1>8, <3>1 DEF CatalogsOf
        <4> QED
          BY <1>6, <2>1, <4>1 DEF QueryInvariant, SavesCover
      <3>2. CASE d = c /\ request[w].auto
        <4>1. row # NoRow /\ row.query = q /\ v # w
          BY <1>9, <2>1, <3>2 DEF CatalogsOf
        <4>2. WriteFollows(w, row)
          BY <1>1, <1>10, <2>1, <3>2, <4>1 DEF QueryInvariant, WritesFollow
        <4> QED
          BY <2>1, <4>1, <4>2 DEF WriteFollows
      <3> QED
        BY <3>1, <3>2
    <2> QED
      BY <1>2, <1>6, <1>7, <2>1 DEF SavesCover
  <1>14. FollowsOrOwed'
    <2>1. ASSUME NEW q \in Queries, NEW d \in CatalogsOf(q)', d \notin raced
          PROVE  catalog'[d].filter = query[q] \/ \E v \in Workers : Owed(v, d, q)'
      <3>1. CASE d # c \/ ~request[w].auto
        <4>1. d \in CatalogsOf(q) /\ catalog'[d] = catalog[d]
          BY <1>8, <3>1 DEF CatalogsOf
        <4>2. \A v \in Workers : Owed(v, d, q) => Owed(v, d, q)'
          BY <1>6, <3>1 DEF Owed
        <4> QED
          BY <2>1, <4>1, <4>2 DEF QueryInvariant, FollowsOrOwed
      <3>2. CASE d = c /\ request[w].auto
        <4>1. row # NoRow /\ row.query = q /\ catalog'[d] = row
          BY <1>9, <2>1, <3>2 DEF CatalogsOf
        <4>2. WriteFollows(w, row)
          BY <1>1, <1>10, <2>1, <3>2, <4>1 DEF QueryInvariant, WritesFollow
        <4> QED
          BY <2>1, <3>2, <4>1, <4>2 DEF WriteFollows
      <3> QED
        BY <3>1, <3>2
    <2> QED
      BY <1>2, <2>1 DEF FollowsOrOwed
  <1> QED
    BY <1>11, <1>12, <1>13, <1>14 DEF QueryInvariant

\* Sending changes neither the rows nor what is to be written.
LEMMA SendKeepsQuery ==
    ASSUME TypeOK, QueryInvariant, NEW w \in Workers, NEW c \in Catalogs,
           Send(w, c) \/ FailToSend(w, c)
    PROVE  QueryInvariant'
  <1>1. /\ Busy(w) /\ c \in DOMAIN request[w].unsent /\ SentOff(w, c)
        /\ query' = query /\ catalog' = catalog /\ raced' = raced
    BY DEF Send, FailToSend
  <1>2. /\ Busy(w)' /\ \A v \in Workers : v # w => request'[v] = request[v]
        /\ request'[w].auto = request[w].auto /\ request'[w].save = request[w].save
        /\ request'[w].todo = request[w].todo /\ request'[w].wrote = request[w].wrote
    BY <1>1, SentFacts
  <1>3. \A v \in Workers :
           /\ Busy(v)' <=> Busy(v)
           /\ request'[v].auto = request[v].auto /\ request'[v].save = request[v].save
           /\ \A d, row : Writes(v, d, row)' <=> Writes(v, d, row)
           /\ \A q : Saves(v, q)' <=> Saves(v, q)
           /\ \A d : Covers(v, d)' <=> Covers(v, d)
           /\ \A d, q : Owed(v, d, q)' <=> Owed(v, d, q)
    BY <1>1, <1>2 DEF Busy, Writes, Saves, Covers, Owed
  <1>4. WritesFollow'
    BY <1>1, <1>3 DEF QueryInvariant, WritesFollow, WriteFollows
  <1>5. SavesQueries' /\ SavesCover'
    BY <1>1, <1>3 DEF QueryInvariant, SavesQueries, SavesCover, CatalogsOf
  <1>6. FollowsOrOwed'
    BY <1>1, <1>3 DEF QueryInvariant, FollowsOrOwed, CatalogsOf
  <1> QED
    BY <1>4, <1>5, <1>6 DEF QueryInvariant

\* The query and the catalogs it covers change at once.
LEMMA CommitKeepsQuery ==
    ASSUME TypeOK, ServiceInvariant, QueryInvariant, NEW w \in Workers, Commit(w)
    PROVE  QueryInvariant'
  <1> DEFINE save == request[w].save
             wrote == request[w].wrote
             saved == save # NoRow /\ ~request[w].auto
  <1>1. /\ Busy(w) /\ DOMAIN request[w].todo = {} /\ wrote \in Rows /\ raced' = raced
        /\ \A c \in Catalogs : catalog'[c] = IF c \in DOMAIN wrote THEN wrote[c] ELSE catalog[c]
        /\ request' = [request EXCEPT ![w] = Idle]
        /\ query' = IF saved THEN [query EXCEPT ![save.query] = save.filter] ELSE query
    BY CommitFacts DEF Commit, TypeOK
  <1>2. ~Busy(w)' /\ \A v \in Workers : v # w => request'[v] = request[v]
    BY <1>1, EndFacts
  <1>3. saved => Saves(w, save.query) /\ save.query \in Queries
    BY <1>1 DEF Saves, QueryInvariant, SavesQueries
  <1>4. /\ \A q \in Queries : ~saved \/ q # save.query => query'[q] = query[q]
        /\ saved => query'[save.query] = save.filter
    BY <1>1, <1>3 DEF TypeOK
  <1>5. ASSUME NEW c \in Catalogs, c \in DOMAIN wrote, wrote[c] # NoRow
        PROVE  ~request[w].auto /\ wrote[c] \in Row /\ Writes(w, c, wrote[c])
    <2>1. wrote[c] \in Row
      BY <1>1, <1>5, RowsFacts
    <2> QED
      BY <1>1, <1>5, <2>1 DEF ServiceInvariant, SendsWhatItWrites, Writes
  <1> HIDE DEF save, wrote
  <1>6. /\ \A v \in Workers : \A c, row : Writes(v, c, row)' => v # w /\ Writes(v, c, row)
        /\ \A v \in Workers : \A q : Saves(v, q)' => v # w /\ Saves(v, q)
        /\ \A v \in Workers : \A c : v # w => (Covers(v, c)' <=> Covers(v, c))
        /\ \A v \in Workers : \A c, q : v # w => (Owed(v, c, q)' <=> Owed(v, c, q))
    BY <1>2, RequestKept DEF Writes, Saves
  <1>7. WritesFollow'
    <2> SUFFICES ASSUME NEW v \in Workers, NEW c \in Catalogs, c \notin raced, NEW row \in Row,
                        Writes(v, c, row)'
                 PROVE  WriteFollows(v, row)'
      BY <1>1 DEF WritesFollow
    <2>1. v # w /\ WriteFollows(v, row)
      BY <1>6 DEF QueryInvariant, WritesFollow
    <2>2. saved => row.query # save.query
      BY <1>3, <2>1 DEF WriteFollows
    <2> QED
      BY <1>2, <1>4, <1>6, <2>1, <2>2 DEF WriteFollows
  <1>8. SavesQueries'
    BY <1>2, RequestKept DEF QueryInvariant, SavesQueries
  <1>9. SavesCover'
    <2>1. ASSUME NEW v \in Workers, NEW q \in Queries, Saves(v, q)', ~request'[v].auto,
                 NEW c \in CatalogsOf(q)', c \notin raced
          PROVE  Covers(v, c)'
      <3>1. v # w /\ Saves(v, q) /\ ~request[v].auto /\ c \in Catalogs
        BY <1>2, <1>6, <2>1 DEF CatalogsOf
      <3>2. CASE c \in DOMAIN wrote
        <4>1. wrote[c] # NoRow /\ wrote[c].query = q
          BY <1>1, <2>1, <3>2 DEF CatalogsOf
        <4>2. WriteFollows(w, wrote[c])
          BY <1>5, <2>1, <3>1, <3>2, <4>1 DEF QueryInvariant, WritesFollow
        <4> QED
          BY <3>1, <4>1, <4>2 DEF WriteFollows
      <3>3. CASE c \notin DOMAIN wrote
        <4>1. c \in CatalogsOf(q)
          BY <1>1, <2>1, <3>1, <3>3 DEF CatalogsOf
        <4> QED
          BY <1>6, <2>1, <3>1, <4>1 DEF QueryInvariant, SavesCover
      <3> QED
        BY <3>2, <3>3
    <2> QED
      BY <1>1, <2>1 DEF SavesCover
  <1>10. FollowsOrOwed'
    <2>1. ASSUME NEW q \in Queries, NEW c \in CatalogsOf(q)', c \notin raced
          PROVE  catalog'[c].filter = query'[q] \/ \E v \in Workers : Owed(v, c, q)'
      <3>1. c \in Catalogs
        BY <2>1 DEF CatalogsOf
      <3>2. CASE c \in DOMAIN wrote
        <4>1. wrote[c] # NoRow /\ wrote[c].query = q /\ catalog'[c] = wrote[c]
          BY <1>1, <2>1, <3>2 DEF CatalogsOf
        <4>2. ~request[w].auto /\ WriteFollows(w, wrote[c])
          BY <1>5, <2>1, <3>1, <3>2, <4>1 DEF QueryInvariant, WritesFollow
        <4>3. CASE saved
          BY <1>4, <4>1, <4>2, <4>3 DEF WriteFollows, save
        <4>4. CASE ~saved
          BY <1>4, <4>1, <4>2, <4>4 DEF WriteFollows, save
        <4> QED
          BY <4>3, <4>4
      <3>3. CASE c \notin DOMAIN wrote
        <4>1. c \in CatalogsOf(q) /\ catalog'[c] = catalog[c]
          BY <1>1, <2>1, <3>1, <3>3 DEF CatalogsOf
        <4>2. ~saved \/ q # save.query
          <5>1. ~Covers(w, c)
            BY <1>1, <3>3 DEF Covers, wrote
          <5> QED
            BY <1>3, <2>1, <4>1, <5>1 DEF QueryInvariant, SavesCover
        <4>3. \A v \in Workers : Owed(v, c, q) => Owed(v, c, q)'
          BY <1>1, <1>6 DEF Owed
        <4> QED
          BY <1>4, <2>1, <4>1, <4>2, <4>3 DEF QueryInvariant, FollowsOrOwed
      <3> QED
        BY <3>2, <3>3
    <2> QED
      BY <1>1, <2>1 DEF FollowsOrOwed
  <1> QED
    BY <1>7, <1>8, <1>9, <1>10 DEF QueryInvariant

\* What a command that dies has still to write is raced.
LEMMA RollbackKeepsQuery ==
    ASSUME TypeOK, QueryInvariant, NEW w \in Workers, Rollback(w)
    PROVE  QueryInvariant'
  <1>1. /\ Busy(w) /\ query' = query /\ catalog' = catalog /\ raced \subseteq raced'
        /\ request[w].auto => DOMAIN request[w].todo \subseteq raced'
        /\ request' = [request EXCEPT ![w] = Idle]
    BY DEF Rollback
  <1>2. ~Busy(w)' /\ \A v \in Workers : v # w => request'[v] = request[v]
    BY <1>1, EndFacts
  <1>3. /\ \A v \in Workers : \A c, row : Writes(v, c, row)' => v # w /\ Writes(v, c, row)
        /\ \A v \in Workers : \A q : Saves(v, q)' => v # w /\ Saves(v, q)
        /\ \A v \in Workers : \A c : v # w => (Covers(v, c)' <=> Covers(v, c))
        /\ \A v \in Workers : \A c, q : v # w => (Owed(v, c, q)' <=> Owed(v, c, q))
        /\ \A v \in Workers : Busy(v)' => v # w /\ Busy(v)
    BY <1>2, RequestKept DEF Writes, Saves
  <1>4. WritesFollow'
    <2> SUFFICES ASSUME NEW v \in Workers, NEW c \in Catalogs, c \notin raced', NEW row \in Row,
                        Writes(v, c, row)'
                 PROVE  WriteFollows(v, row)'
      BY DEF WritesFollow
    <2>1. v # w /\ WriteFollows(v, row)
      BY <1>1, <1>3 DEF QueryInvariant, WritesFollow
    <2> QED
      BY <1>1, <1>2, <1>3, <2>1 DEF WriteFollows
  <1>5. SavesQueries'
    BY <1>2, <1>3 DEF QueryInvariant, SavesQueries
  <1>6. SavesCover'
    BY <1>1, <1>2, <1>3 DEF QueryInvariant, SavesCover, CatalogsOf
  <1>7. FollowsOrOwed'
    <2>1. \A v \in Workers, q \in Queries, c \in Catalogs \ raced' :
             Owed(v, c, q) => Owed(v, c, q)'
      BY <1>1, <1>3 DEF Owed
    <2> QED
      BY <1>1, <2>1 DEF QueryInvariant, FollowsOrOwed, CatalogsOf
  <1> QED
    BY <1>4, <1>5, <1>6, <1>7 DEF QueryInvariant

\* The catalogs that are moved are raced.
LEMMA BulkUpdateKeepsQuery ==
    ASSUME TypeOK, QueryInvariant, NEW old \in Queries, NEW new \in Queries, BulkUpdate(old, new)
    PROVE  QueryInvariant'
  <1>1. /\ request' = request /\ query' = query /\ raced \subseteq raced'
        /\ \A c \in Catalogs : c \notin raced' => catalog'[c] = catalog[c]
    BY DEF BulkUpdate
  <1>2. \A v \in Workers :
           /\ Busy(v)' <=> Busy(v)
           /\ \A c, row : Writes(v, c, row)' <=> Writes(v, c, row)
           /\ \A q : Saves(v, q)' <=> Saves(v, q)
           /\ \A c : Covers(v, c)' <=> Covers(v, c)
           /\ \A c, q : Owed(v, c, q)' <=> Owed(v, c, q)
    BY <1>1, RequestKept
  <1>3. \A q : \A c \in CatalogsOf(q)' : c \notin raced' =>
           c \in CatalogsOf(q) /\ catalog'[c] = catalog[c]
    BY <1>1 DEF CatalogsOf
  <1>4. WritesFollow'
    BY <1>1, <1>2 DEF QueryInvariant, WritesFollow, WriteFollows
  <1>5. SavesQueries' /\ SavesCover'
    BY <1>1, <1>2, <1>3 DEF QueryInvariant, SavesQueries, SavesCover
  <1>6. FollowsOrOwed'
    BY <1>1, <1>2, <1>3 DEF QueryInvariant, FollowsOrOwed
  <1> QED
    BY <1>4, <1>5, <1>6 DEF QueryInvariant

\* Every step preserves it.
LEMMA NextQuery ==
    ASSUME TypeOK, ServiceInvariant, QueryInvariant, [Next]_vars
    PROVE  QueryInvariant'
  <1>1. CASE UNCHANGED vars
    <2>1. QueryInvariant' <=> QueryInvariant
      BY <1>1 DEF vars, QueryInvariant, WritesFollow, WriteFollows, Writes, SavesQueries, SavesCover,
                  Saves, Covers, FollowsOrOwed, Owed, CatalogsOf, Busy
    <2> QED
      BY <2>1
  <1>2. ASSUME NEW w \in Workers, NEW c \in Catalogs, NEW row \in Row \union {NoRow},
               SaveStep(w, c, row)
        PROVE  QueryInvariant'
    <2>1. PICK auto \in BOOLEAN : Begin(w, auto, NoRow, Only(c, row), None)
      BY <1>2 DEF SaveStep
    <2>2. Only(c, row) \in Rows /\ None \in Rows /\ DOMAIN None = {}
          /\ DOMAIN Only(c, row) = {c} /\ Only(c, row)[c] = row
      BY OnlyFacts, NoneFacts
    <2>3. /\ ~Busy(w) /\ Busy(w)' /\ \A v \in Workers : v # w => request'[v] = request[v]
          /\ request'[w].save = NoRow /\ request'[w].todo = Only(c, row)
          /\ request'[w].wrote = None
      BY <2>1, <2>2, BeginFacts
    <2>4. \A d \in Catalogs : \A x : Writes(w, d, x)' => d = c /\ x = row /\ row # NoRow
      BY <2>2, <2>3 DEF Writes
    <2>5. \A d \in Catalogs \ raced', x \in Row : Writes(w, d, x)' =>
             /\ x.query \in Queries => x.filter = query[x.query]
             /\ \A v \in Workers : ~Saves(v, x.query)
      BY <1>2, <2>4 DEF SaveStep
    <2>6. raced \subseteq raced' /\ query' = query /\ catalog' = catalog
      BY <1>2 DEF SaveStep
    <2> QED
      BY <2>3, <2>5, <2>6, BeginKeepsQuery
  <1>3. ASSUME NEW w \in Workers, BeginMigrate(w)
        PROVE  QueryInvariant'
    <2>1. /\ ~Busy(w) /\ Busy(w)' /\ \A v \in Workers : v # w => request'[v] = request[v]
          /\ request'[w].save = NoRow
          /\ DOMAIN request'[w].todo = {} /\ DOMAIN request'[w].wrote = {}
      BY <1>3, MigrateFacts, NoneFacts
    <2>2. \A d, x : ~Writes(w, d, x)'
      BY <2>1 DEF Writes
    <2>3. raced' = raced /\ query' = query /\ catalog' = catalog
      BY <1>3 DEF BeginMigrate
    <2> QED
      BY <2>1, <2>2, <2>3, BeginKeepsQuery
  <1> QED
    BY <1>1, <1>2, <1>3, SaveQueryKeepsQuery, BulkUpdateKeepsQuery, WriteKeepsQuery, SendKeepsQuery,
       CommitKeepsQuery, RollbackKeepsQuery, StepCases

-----------------------------------------------------------------------------
(* The theorems                                                            *)

\* The inductive invariant.
IInv == TypeOK /\ ServiceInvariant /\ QueryInvariant

\* The inductive invariant holds.
LEMMA InvariantHolds == Spec => []IInv
  <1>1. Init => IInv
    BY InitType, InitService, InitQuery DEF IInv
  <1>2. IInv /\ [Next]_vars => IInv'
    BY NextType, NextService, NextQuery DEF IInv
  <1> QED
    BY <1>1, <1>2, PTL DEF Spec

\* The tables, the copies of the service and the requests always have their types.
THEOREM TypeCorrect == Spec => []TypeOK
  <1>1. IInv => TypeOK
    BY DEF IInv
  <1> QED
    BY <1>1, InvariantHolds, PTL

\* When all requests have ended the service has every catalog as it is, unless
\* since the last call that got through one has failed, a transaction was rolled
\* back, a command sent an old row, or the bulk update passed the service by.
THEOREM ServiceIsUpToDate == Spec => []ServiceHasCatalogs
  <1>1. IInv => ServiceHasCatalogs
    BY DEF IInv, ServiceInvariant, AgreesOrSends, Agrees, Sends, Locked, LockedBy,
           ServiceHasCatalogs, Quiet
  <1> QED
    BY <1>1, InvariantHolds, PTL

\* When all requests have ended a catalog has the filter of its query, unless one
\* of the two was being saved when a save of the other began, or a command died
\* or wrote past the save.
THEOREM CatalogsFollow == Spec => []CatalogFollowsQuery
  <1>1. IInv => CatalogFollowsQuery
    BY DEF IInv, QueryInvariant, FollowsOrOwed, Owed, Saves, CatalogFollowsQuery, Quiet
  <1> QED
    BY <1>1, InvariantHolds, PTL
=============================================================================
