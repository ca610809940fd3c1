------------------------ MODULE LearnerLinkingProofs ------------------------
(***************************************************************************)
(* Proofs for LearnerLinking.  As far as the rows and the role are         *)
(* concerned every step is a save of one row (of whatever stale copy), a   *)
(* bulk insert, the conversion of a learner's pending rows, or nothing;    *)
(* the invariants are inductive under these four.  The second part is      *)
(* about the consents that linked learners give (DataSharingConsent).      *)
(***************************************************************************)
EXTENDS LearnerLinking, TLAPS

\* A call that unlinks an account holds the row it read.
UnlinkHasRow ==
    \A w \in Workers :
        Serving(w, "unlink") /\ request[w].known => request[w].copy # NoRow

-----------------------------------------------------------------------------
(* The four kinds of step                                                  *)

SaveStep ==
    \E l \in Learners, k \in Customers, row \in Row, seen \in SUBSET Customers :
        (row.active => row.linked) /\ Write(l, k, row, seen)

GroupStep == \E l \in Learners, k \in Customers : AssignToGroup(l, k)

PostSaveStep == \E l \in Learners : HandleUserPostSave(l)

QuietStep == UNCHANGED <<link, bare, overtaken, learnerRole>>

\* A row of the table is NoRow or a row; a new row is a linked row.
LEMMA RowFacts ==
    ASSUME TypeOK, NEW l \in Learners, NEW k \in Customers
    PROVE  link[l][k] \in Row \union {NoRow}
  BY DEF TypeOK

LEMMA NewRowFacts ==
    ASSUME NEW a \in BOOLEAN
    PROVE  /\ NewRow(a) \in Row
           /\ NewRow(a).linked = TRUE /\ NewRow(a).active = a
  BY DEF NewRow, Row

\* Changing the flags of a row gives a row with those flags.
LEMMA ChangedRowFacts ==
    ASSUME NEW row \in Row, NEW m \in BOOLEAN, NEW a \in BOOLEAN, NEW r \in BOOLEAN
    PROVE  /\ [row EXCEPT !.linked = m, !.active = a] \in Row
           /\ [row EXCEPT !.linked = m, !.active = a].linked = m
           /\ [row EXCEPT !.linked = m, !.active = a].active = a
           /\ [row EXCEPT !.linked = m, !.active = a, !.relinkable = r] \in Row
           /\ [row EXCEPT !.linked = m, !.active = a, !.relinkable = r].linked = m
           /\ [row EXCEPT !.linked = m, !.active = a, !.relinkable = r].active = a
  BY DEF Row

LEMMA ActiveChangedFacts ==
    ASSUME NEW row \in Row, NEW a \in BOOLEAN
    PROVE  /\ [row EXCEPT !.active = a] \in Row
           /\ [row EXCEPT !.active = a].linked = row.linked
           /\ [row EXCEPT !.active = a].active = a
  BY DEF Row

LEMMA RequestFacts ==
    ASSUME TypeOK, NEW w \in Workers, request[w] # Idle
    PROVE  /\ request[w].learner \in Learners /\ request[w].customer \in Customers
           /\ request[w].copy \in Row \union {NoRow}
           /\ request[w].relinkable \in BOOLEAN
           /\ request[w].seen \in SUBSET Customers
  <1>1. request[w] \in Request
    BY DEF TypeOK
  <1>2. QED
    BY <1>1 DEF Request

\* A save at one go is a write that has seen all the other links.
LEMMA SaveWrites ==
    ASSUME NEW l \in Learners, NEW k \in Customers, NEW row \in Row,
           row.active => row.linked, Save(l, k, row)
    PROVE  SaveStep
  <1>1. OtherLinks(l, k) \in SUBSET Customers
    BY DEF OtherLinks
  <1>2. QED
    BY <1>1 DEF Save, SaveStep

LEMMA UpdateOrCreateSaves ==
    ASSUME TypeOK, NEW l \in Learners, NEW k \in Customers, NEW a \in BOOLEAN,
           UpdateOrCreate(l, k, a)
    PROVE  SaveStep
  <1>1. CASE IsLinked(link[l][k])
    <2> DEFINE old == link[l][k]
               row == [old EXCEPT !.active = a]
    <2>1. old \in Row /\ old.linked
      BY <1>1, RowFacts DEF IsLinked
    <2>2. Save(l, k, row)
      BY <1>1 DEF UpdateOrCreate
    <2> HIDE DEF old
    <2>3. row \in Row /\ row.linked
      BY <2>1, ActiveChangedFacts
    <2> HIDE DEF row
    <2>4. QED
      BY <2>2, <2>3, SaveWrites
  <1>2. CASE ~IsLinked(link[l][k])
    <2> DEFINE row == NewRow(a)
    <2>1. row \in Row /\ row.linked
      BY NewRowFacts
    <2>2. Save(l, k, row)
      BY <1>2 DEF UpdateOrCreate
    <2> HIDE DEF row
    <2>3. QED
      BY <2>1, <2>2, SaveWrites
  <1>3. QED
    BY <1>1, <1>2

\* Every step is of one of the four kinds.
LEMMA StepKinds ==
    ASSUME TypeOK, UnlinkHasRow, [Next]_vars
    PROVE  SaveStep \/ GroupStep \/ PostSaveStep \/ QuietStep
  <1>1. ASSUME NEW w \in Workers, Serve(w)
        PROVE  SaveStep \/ QuietStep
    <2>1. CASE LinkExisting(w)
      <3> DEFINE q == request[w]
                 old == q.copy
                 row == [old EXCEPT !.linked = TRUE, !.active = TRUE]
      <3>1. /\ q.learner \in Learners /\ q.customer \in Customers
            /\ old \in Row /\ q.seen \in SUBSET Customers
            /\ Write(q.learner, q.customer, row, q.seen)
        BY <2>1, RequestFacts DEF LinkExisting, EndRequest
      <3> HIDE DEF q, old
      <3>2. row \in Row /\ row.linked
        BY <3>1, ChangedRowFacts
      <3> HIDE DEF row
      <3>3. QED
        BY <3>1, <3>2 DEF SaveStep
    <2>2. CASE LinkNew(w)
      <3> DEFINE q == request[w]
                 row == NewRow(TRUE)
      <3>1. /\ q.learner \in Learners /\ q.customer \in Customers
            /\ q.seen \in SUBSET Customers
            /\ Write(q.learner, q.customer, row, q.seen)
        BY <2>2, RequestFacts DEF LinkNew, EndRequest
      <3>2. row \in Row /\ row.linked
        BY NewRowFacts
      <3> HIDE DEF q, row
      <3>3. QED
        BY <3>1, <3>2 DEF SaveStep
    <2>3. CASE UnlinkExisting(w)
      <3> DEFINE q == request[w]
                 old == q.copy
                 r == q.relinkable
                 row == [old EXCEPT !.linked = FALSE, !.active = FALSE, !.relinkable = r]
      <3>1. /\ q.learner \in Learners /\ q.customer \in Customers
            /\ old \in Row /\ r \in BOOLEAN
            /\ Save(q.learner, q.customer, row)
        BY <2>3, RequestFacts DEF UnlinkExisting, EndRequest, UnlinkHasRow, Serving
      <3> HIDE DEF q, old, r
      <3>2. row \in Row /\ ~row.active
        BY <3>1, ChangedRowFacts
      <3> HIDE DEF row
      <3>3. QED
        BY <3>1, <3>2, SaveWrites
    <2>4. CASE InactivateOthers(w) \/ LinkPending(w) \/ UnlinkPending(w) \/ FailRequest(w)
      BY <2>4 DEF InactivateOthers, LinkPending, UnlinkPending, FailRequest, QuietStep, rowVars
    <2>5. CASE \E l \in Learners, k \in Customers : BeginLink(w, l, k)
      BY <2>5 DEF BeginLink, QuietStep, rowVars
    <2>6. CASE \E l \in Learners, k \in Customers, r \in BOOLEAN : BeginUnlink(w, l, k, r)
      BY <2>6 DEF BeginUnlink, QuietStep, rowVars
    <2>7. QED
      BY <1>1, <2>1, <2>2, <2>3, <2>4, <2>5, <2>6 DEF Serve
  <1>2. ASSUME NEW l \in Learners, NEW k \in Customers, Handler(l, k)
        PROVE  SaveStep \/ GroupStep \/ QuietStep
    <2>1. CASE Activate(l, k)
      BY <2>1, UpdateOrCreateSaves DEF Activate
    <2>2. CASE \E a \in BOOLEAN : LinkByApi(l, k, a)
      BY <2>2, UpdateOrCreateSaves DEF LinkByApi
    <2>3. CASE JoinByKey(l, k)
      <3>1. CASE link[l][k] = NoRow
        BY <2>3, <3>1, NewRowFacts, SaveWrites DEF JoinByKey
      <3>2. CASE link[l][k] # NoRow
        <4> DEFINE old == link[l][k]
                   row == [old EXCEPT !.linked = TRUE, !.active = TRUE]
        <4>1. old \in Row
          BY <3>2, RowFacts
        <4>2. Save(l, k, row)
          BY <2>3, <3>2 DEF JoinByKey
        <4> HIDE DEF old
        <4>3. row \in Row /\ row.linked
          BY <4>1, ChangedRowFacts
        <4> HIDE DEF row
        <4>4. QED
          BY <4>2, <4>3, SaveWrites
      <3>3. QED
        BY <3>1, <3>2
    <2>4. CASE CreateAdmin(l, k)
      <3>1. CASE IsLinked(link[l][k])
        BY <2>4, <3>1 DEF CreateAdmin, QuietStep, rowVars
      <3>2. CASE ~IsLinked(link[l][k])
        BY <2>4, <3>2, NewRowFacts, SaveWrites DEF CreateAdmin
      <3>3. QED
        BY <3>1, <3>2
    <2>5. CASE DeleteActiveAdmin(l, k)
      <3>1. CASE <<l, k>> \in learnerRole
        BY <2>5, <3>1 DEF DeleteActiveAdmin, QuietStep, rowVars
      <3>2. CASE <<l, k>> \notin learnerRole
        <4> DEFINE old == link[l][k]
                   row == [old EXCEPT !.linked = FALSE, !.active = FALSE]
        <4>1. old \in Row
          BY <2>5, RowFacts DEF DeleteActiveAdmin, IsActive, IsLinked
        <4>2. Save(l, k, row)
          BY <2>5, <3>2 DEF DeleteActiveAdmin
        <4> HIDE DEF old
        <4>3. row \in Row /\ ~row.active
          BY <4>1, ChangedRowFacts
        <4> HIDE DEF row
        <4>4. QED
          BY <4>2, <4>3, SaveWrites
      <3>3. QED
        BY <3>1, <3>2
    <2>6. CASE AssignToGroup(l, k)
      BY <2>6 DEF GroupStep
    <2>7. CASE LinkByApiPending(l, k) \/ InviteAdmin(l, k) \/ DeletePendingAdmin(l, k)
      BY <2>7 DEF LinkByApiPending, InviteAdmin, DeletePendingAdmin, QuietStep, rowVars
    <2>8. QED
      BY <1>2, <2>1, <2>2, <2>3, <2>4, <2>5, <2>6, <2>7 DEF Handler
  <1>3. ASSUME NEW l \in Learners, Register(l) \/ Login(l)
        PROVE  PostSaveStep
    BY <1>3 DEF Register, Login, PostSaveStep
  <1>4. CASE UNCHANGED vars
    BY <1>4 DEF vars, rowVars, QuietStep
  <1>5. QED
    BY <1>1, <1>2, <1>3, <1>4 DEF Next

-----------------------------------------------------------------------------
(* What a save and a conversion do to the rows of a learner                *)

LEMMA InactivatedFacts ==
    ASSUME NEW row \in Row \union {NoRow}
    PROVE  /\ Inactivated(row) \in Row \union {NoRow}
           /\ ~IsActive(Inactivated(row))
           /\ IsLinked(Inactivated(row)) <=> IsLinked(row)
  <1>1. CASE IsLinked(row)
    <2>1. row \in Row /\ row.linked
      BY <1>1 DEF IsLinked
    <2> DEFINE new == [row EXCEPT !.active = FALSE]
    <2>2. new \in Row /\ new.linked /\ ~new.active
      BY <2>1, ActiveChangedFacts
    <2>3. Inactivated(row) = new
      BY <1>1 DEF Inactivated
    <2> HIDE DEF new
    <2>4. QED
      BY <1>1, <2>2, <2>3, RowAssumption DEF IsLinked, IsActive
  <1>2. CASE ~IsLinked(row)
    BY <1>2 DEF Inactivated, IsActive
  <1>3. QED
    BY <1>1, <1>2

\* A save puts the row into place and changes no other row, or the other
\* linked rows it has seen to inactive if the saved one is active.
LEMMA WriteFacts ==
    ASSUME TypeOK, NEW l \in Learners, NEW k \in Customers, NEW row \in Row,
           NEW seen \in SUBSET Customers, Write(l, k, row, seen)
    PROVE  /\ link'[l][k] = row
           /\ \A c \in Customers \ {k} :
                  link'[l][c] = IF row.active /\ c \in seen THEN Inactivated(link[l][c])
                                ELSE link[l][c]
           /\ \A m \in Learners \ {l} : link'[m] = link[m]
           /\ link' \in [Learners -> [Customers -> Row \union {NoRow}]]
  <1> DEFINE rows == Saved(link[l], k, row, seen)
  <1>1. link' = [link EXCEPT ![l] = rows]
    BY DEF Write
  <1>2. rows \in [Customers -> Row \union {NoRow}]
    BY InactivatedFacts DEF Saved, TypeOK
  <1>3. /\ rows[k] = row
        /\ \A c \in Customers \ {k} :
               rows[c] = IF row.active /\ c \in seen THEN Inactivated(link[l][c])
                         ELSE link[l][c]
    BY DEF Saved
  <1> HIDE DEF rows
  <1>4. /\ link' \in [Learners -> [Customers -> Row \union {NoRow}]]
        /\ link'[l] = rows /\ \A m \in Learners \ {l} : link'[m] = link[m]
    BY <1>1, <1>2 DEF TypeOK
  <1>5. QED
    BY <1>3, <1>4

\* After a conversion every pending customer is linked, and of the rows of the
\* learner at most the last pending one is active; without pending rows
\* nothing changes.
LEMMA PostSaveFacts ==
    ASSUME TypeOK, NEW l \in Learners, HandleUserPostSave(l)
    PROVE  /\ link' \in [Learners -> [Customers -> Row \union {NoRow}]]
           /\ \A m \in Learners \ {l} : link'[m] = link[m]
           /\ \A k \in Customers :
                  IsLinked(link'[l][k]) <=> IsLinked(link[l][k]) \/ k \in PendingFor(l)
           /\ \/ PendingFor(l) = {} /\ link'[l] = link[l]
              \/ \E last \in PendingFor(l) :
                     \A k \in Customers : IsActive(link'[l][k]) <=> k = last
  <1>1. PICK rows \in Converted(l) : link' = [link EXCEPT ![l] = rows]
    BY DEF HandleUserPostSave
  <1>2. CASE PendingFor(l) = {}
    <2>1. rows = link[l]
      BY <1>2 DEF Converted
    <2>2. link' = link
      BY <1>1, <2>1 DEF TypeOK
    <2>3. QED
      BY <1>2, <2>2 DEF TypeOK
  <1>3. CASE PendingFor(l) # {}
    <2> DEFINE New(k, last) ==
                   IF k \notin PendingFor(l) THEN Inactivated(link[l][k])
                   ELSE IF IsLinked(link[l][k]) THEN [link[l][k] EXCEPT !.active = (k = last)]
                   ELSE NewRow(k = last)
    <2>1. PICK last \in PendingFor(l) : rows = [k \in Customers |-> New(k, last)]
      BY <1>3 DEF Converted
    <2>2. ASSUME NEW k \in Customers
          PROVE  /\ New(k, last) \in Row \union {NoRow}
                 /\ IsLinked(New(k, last)) <=> IsLinked(link[l][k]) \/ k \in PendingFor(l)
                 /\ IsActive(New(k, last)) <=> k = last
      <3> DEFINE old == link[l][k]
                 a == (k = last)
      <3>1. old \in Row \union {NoRow} /\ a \in BOOLEAN
        BY RowFacts
      <3>2. CASE k \notin PendingFor(l)
        BY <3>1, <3>2, InactivatedFacts
      <3>3. CASE k \in PendingFor(l) /\ IsLinked(old)
        <4> DEFINE new == [old EXCEPT !.active = a]
        <4>1. New(k, last) = new
          BY <3>3
        <4>2. old \in Row /\ old.linked
          BY <3>1, <3>3 DEF IsLinked
        <4> HIDE DEF old, a
        <4>3. new \in Row /\ new.linked /\ (new.active <=> a)
          BY <3>1, <4>2, ActiveChangedFacts
        <4> HIDE DEF new
        <4>4. IsLinked(new) /\ (IsActive(new) <=> a)
          BY <4>3, RowAssumption DEF IsLinked, IsActive
        <4>5. QED
          BY <3>3, <4>1, <4>3, <4>4 DEF a
      <3>4. CASE k \in PendingFor(l) /\ ~IsLinked(old)
        <4> DEFINE new == NewRow(a)
        <4>1. New(k, last) = new
          BY <3>4
        <4> HIDE DEF a
        <4>2. new \in Row /\ new.linked /\ (new.active <=> a)
          BY <3>1, NewRowFacts
        <4> HIDE DEF new
        <4>3. IsLinked(new) /\ (IsActive(new) <=> a)
          BY <4>2, RowAssumption DEF IsLinked, IsActive
        <4>4. QED
          BY <3>4, <4>1, <4>2, <4>3 DEF a
      <3>5. QED
        BY <3>2, <3>3, <3>4
    <2> HIDE DEF New
    <2>3. /\ rows \in [Customers -> Row \union {NoRow}]
          /\ \A k \in Customers :
                 /\ IsLinked(rows[k]) <=> IsLinked(link[l][k]) \/ k \in PendingFor(l)
                 /\ IsActive(rows[k]) <=> k = last
      BY <2>1, <2>2
    <2>4. /\ link' \in [Learners -> [Customers -> Row \union {NoRow}]]
          /\ link'[l] = rows /\ \A m \in Learners \ {l} : link'[m] = link[m]
      BY <1>1, <2>3 DEF TypeOK
    <2>5. QED
      BY <2>3, <2>4
  <1>4. QED
    BY <1>2, <1>3

-----------------------------------------------------------------------------
(* Type correctness                                                        *)

TablesOK ==
    /\ link \in [Learners -> [Customers -> Row \union {NoRow}]]
    /\ bare \in SUBSET Pairs /\ overtaken \in SUBSET Pairs /\ learnerRole \in SUBSET Pairs

OthersOK ==
    /\ registered \in SUBSET Learners
    /\ pending \in SUBSET Pairs /\ invited \in SUBSET Pairs /\ admin \in SUBSET Pairs
    /\ request \in [Workers -> Request \union {Idle}]

\* The tables of a save, a bulk insert or a conversion stay well-typed.
LEMMA TablesStayOK ==
    ASSUME TypeOK, UnlinkHasRow, [Next]_vars
    PROVE  TablesOK'
  <1>1. CASE SaveStep
    <2>1. PICK l \in Learners, k \in Customers, row \in Row, seen \in SUBSET Customers :
              Write(l, k, row, seen)
      BY <1>1 DEF SaveStep
    <2>2. bare' \in SUBSET Pairs /\ overtaken' \in SUBSET Pairs /\ learnerRole' \in SUBSET Pairs
      BY <2>1 DEF Write, RoleAfter, TypeOK, Pairs
    <2>3. QED
      BY <2>1, <2>2, WriteFacts DEF TablesOK
  <1>2. CASE GroupStep
    <2>1. PICK l \in Learners, k \in Customers : AssignToGroup(l, k)
      BY <1>2 DEF GroupStep
    <2> DEFINE rows == [link[l] EXCEPT ![k] = NewRow(TRUE)]
    <2>2. rows \in [Customers -> Row \union {NoRow}]
      BY NewRowFacts DEF TypeOK
    <2>3. link' = [link EXCEPT ![l] = rows]
      BY <2>1 DEF AssignToGroup
    <2> HIDE DEF rows
    <2>4. link' \in [Learners -> [Customers -> Row \union {NoRow}]]
      BY <2>2, <2>3 DEF TypeOK
    <2>5. bare' \in SUBSET Pairs
      <3>1. <<l, k>> \in Pairs /\ bare' = bare \union {<<l, k>>}
        BY <2>1 DEF AssignToGroup, Pairs
      <3>2. QED
        BY <3>1 DEF TypeOK
    <2>6. overtaken' \in SUBSET Pairs /\ learnerRole' \in SUBSET Pairs
      BY <2>1 DEF AssignToGroup, TypeOK
    <2>7. QED
      BY <2>4, <2>5, <2>6 DEF TablesOK
  <1>3. CASE PostSaveStep
    <2>1. PICK l \in Learners : HandleUserPostSave(l)
      BY <1>3 DEF PostSaveStep
    <2>2. bare' \in SUBSET Pairs /\ overtaken' \in SUBSET Pairs /\ learnerRole' \in SUBSET Pairs
      BY <2>1 DEF HandleUserPostSave, PendingFor, TypeOK, Pairs
    <2>3. QED
      BY <2>1, <2>2, PostSaveFacts DEF TablesOK
  <1>4. CASE QuietStep
    BY <1>4 DEF QuietStep, TypeOK, TablesOK
  <1>5. QED
    BY <1>1, <1>2, <1>3, <1>4, StepKinds

\* The other variables, action by action.
LEMMA TypeStep ==
    ASSUME TypeOK, UnlinkHasRow, [Next]_vars
    PROVE  TypeOK'
  <1>1. ASSUME NEW w \in Workers, Serve(w)
        PROVE  OthersOK'
    <2>1. ASSUME NEW q \in Request \union {Idle}
          PROVE  [request EXCEPT ![w] = q] \in [Workers -> Request \union {Idle}]
      BY DEF TypeOK
    <2>2. ASSUME NEW l \in Learners, NEW k \in Customers, BeginLink(w, l, k)
          PROVE  OthersOK'
      <3> DEFINE q == [op |-> "link", learner |-> l, customer |-> k,
                       known |-> l \in registered, copy |-> link[l][k],
                       relinkable |-> TRUE, saving |-> FALSE, seen |-> {}]
      <3>1. q \in Request
        BY RowFacts DEF Request
      <3>2. request' = [request EXCEPT ![w] = q]
        BY <2>2 DEF BeginLink
      <3> HIDE DEF q
      <3>3. request' \in [Workers -> Request \union {Idle}]
        BY <2>1, <3>1, <3>2
      <3>4. QED
        BY <2>2, <3>3 DEF BeginLink, adminVars, TypeOK, OthersOK
    <2>3. ASSUME NEW l \in Learners, NEW k \in Customers, NEW r \in BOOLEAN,
                 BeginUnlink(w, l, k, r)
          PROVE  OthersOK'
      <3> DEFINE q == [op |-> "unlink", learner |-> l, customer |-> k,
                       known |-> l \in registered, copy |-> link[l][k],
                       relinkable |-> r, saving |-> FALSE, seen |-> {}]
      <3>1. q \in Request
        BY RowFacts DEF Request
      <3>2. request' = [request EXCEPT ![w] = q]
        BY <2>3 DEF BeginUnlink
      <3> HIDE DEF q
      <3>3. request' \in [Workers -> Request \union {Idle}]
        BY <2>1, <3>1, <3>2
      <3>4. QED
        BY <2>3, <3>3 DEF BeginUnlink, adminVars, TypeOK, OthersOK
    <2>3a. CASE InactivateOthers(w)
      <3> DEFINE others == OtherLinks(request[w].learner, request[w].customer)
                 q == [request[w] EXCEPT !.saving = TRUE, !.seen = others]
      <3>1. others \in SUBSET Customers /\ request[w] \in Request
        BY <2>3a DEF InactivateOthers, Serving, OtherLinks, TypeOK
      <3>2. request' = [request EXCEPT ![w] = q]
        BY <2>3a DEF InactivateOthers
      <3> HIDE DEF others
      <3>3. q \in Request
        BY <3>1 DEF Request
      <3> HIDE DEF q
      <3>4. request' \in [Workers -> Request \union {Idle}]
        BY <2>1, <3>2, <3>3
      <3>5. QED
        BY <2>3a, <3>4 DEF InactivateOthers, adminVars, TypeOK, OthersOK
    <2>4. ASSUME EndRequest(w)
          PROVE  /\ request' \in [Workers -> Request \union {Idle}]
                 /\ <<request[w].learner, request[w].customer>> \in Pairs
      BY <2>1, <2>4, RequestFacts DEF EndRequest, Pairs
    <2>5. CASE LinkExisting(w) \/ LinkNew(w) \/ UnlinkExisting(w) \/ FailRequest(w)
      BY <2>5, <2>4 DEF LinkExisting, LinkNew, UnlinkExisting, FailRequest, adminVars, TypeOK, OthersOK
    <2>6. CASE LinkPending(w) \/ UnlinkPending(w)
      BY <2>6, <2>4 DEF LinkPending, UnlinkPending, adminVars, TypeOK, OthersOK
    <2>7. QED
      BY <1>1, <2>2, <2>3, <2>5, <2>6, <2>3a DEF Serve
  <1>2. ASSUME NEW l \in Learners, NEW k \in Customers, Handler(l, k)
        PROVE  OthersOK'
    <2>1. <<l, k>> \in Pairs
      BY DEF Pairs
    <2>2. CASE \/ Activate(l, k) \/ (\E a \in BOOLEAN : LinkByApi(l, k, a))
               \/ JoinByKey(l, k) \/ AssignToGroup(l, k)
      BY <2>2 DEF Activate, LinkByApi, JoinByKey, AssignToGroup, adminVars, TypeOK, OthersOK
    <2>3. CASE LinkByApiPending(l, k) \/ InviteAdmin(l, k) \/ DeletePendingAdmin(l, k)
      BY <2>1, <2>3 DEF LinkByApiPending, InviteAdmin, DeletePendingAdmin, adminVars, TypeOK, OthersOK
    <2>4. CASE CreateAdmin(l, k) \/ DeleteActiveAdmin(l, k)
      BY <2>1, <2>4 DEF CreateAdmin, DeleteActiveAdmin, TypeOK, OthersOK
    <2>5. QED
      BY <1>2, <2>2, <2>3, <2>4 DEF Handler
  <1>3. ASSUME NEW l \in Learners, Register(l) \/ Login(l)
        PROVE  OthersOK'
    <2>1. HandleUserPostSave(l) /\ registered' \in SUBSET Learners
      BY <1>3 DEF Register, Login, TypeOK
    <2>2. PICK rows \in Converted(l) :
              /\ admin' = admin \union ({l} \X Admitted(l, rows))
              /\ invited' = invited \ ({l} \X Admitted(l, rows))
              /\ pending' = pending \ ({l} \X Customers)
      BY <2>1 DEF HandleUserPostSave
    <2>3. {l} \X Admitted(l, rows) \in SUBSET Pairs
      BY DEF Admitted, Pairs
    <2>4. QED
      BY <2>1, <2>2, <2>3 DEF HandleUserPostSave, TypeOK, OthersOK
  <1>4. ASSUME UNCHANGED vars
        PROVE  OthersOK'
    BY <1>4 DEF vars, TypeOK, OthersOK
  <1>5. OthersOK'
    BY <1>1, <1>2, <1>3, <1>4 DEF Next
  <1>6. QED
    BY <1>5, TablesStayOK DEF TypeOK, TablesOK, OthersOK

\* Only BeginUnlink starts a call that unlinks, and it starts from a linked row.
LEMMA UnlinkHasRowStep ==
    ASSUME TypeOK, UnlinkHasRow, [Next]_vars
    PROVE  UnlinkHasRow'
  <1> SUFFICES ASSUME NEW v \in Workers,
                      request'[v] # Idle, request'[v].op = "unlink", request'[v].known
               PROVE  request'[v].copy # NoRow
    BY DEF UnlinkHasRow, Serving
  <1>1. ASSUME NEW w \in Workers, NEW l \in Learners, NEW k \in Customers,
               BeginLink(w, l, k) \/ \E r \in BOOLEAN : BeginUnlink(w, l, k, r)
        PROVE  request'[v].copy # NoRow
    <2>1. CASE v = w
      <3>1. CASE BeginLink(w, l, k)
        BY <2>1, <3>1 DEF BeginLink, TypeOK
      <3>2. CASE \E r \in BOOLEAN : BeginUnlink(w, l, k, r)
        <4>1. PICK r \in BOOLEAN : BeginUnlink(w, l, k, r)
          BY <3>2
        <4>2. /\ request'[w].known = (l \in registered)
              /\ request'[w].copy = link[l][k]
          BY <4>1 DEF BeginUnlink, TypeOK
        <4>3. IsLinked(link[l][k])
          BY <2>1, <4>1, <4>2 DEF BeginUnlink
        <4>4. QED
          BY <2>1, <4>2, <4>3 DEF IsLinked
      <3>3. QED
        BY <1>1, <3>1, <3>2
    <2>2. CASE v # w
      <3>1. request'[v] = request[v]
        BY <1>1, <2>2 DEF BeginLink, BeginUnlink, TypeOK
      <3>2. QED
        BY <3>1 DEF UnlinkHasRow, Serving
    <2>3. QED
      BY <2>1, <2>2
  <1>2. ASSUME NEW w \in Workers, EndRequest(w)
        PROVE  request'[v].copy # NoRow
    <2>1. v # w /\ request'[v] = request[v]
      BY <1>2 DEF EndRequest, TypeOK
    <2>2. QED
      BY <2>1 DEF UnlinkHasRow, Serving
  <1>2a. ASSUME NEW w \in Workers, InactivateOthers(w)
        PROVE  request'[v].copy # NoRow
    <2>1. CASE v = w
      <3>1. request'[w].op = "link"
        BY <1>2a, RequestFacts DEF InactivateOthers, Serving, TypeOK, Request
      <3>2. QED
        BY <2>1, <3>1
    <2>2. CASE v # w
      <3>1. request'[v] = request[v]
        BY <1>2a, <2>2 DEF InactivateOthers, TypeOK
      <3>2. QED
        BY <3>1 DEF UnlinkHasRow, Serving
    <2>3. QED
      BY <2>1, <2>2
  <1>3. CASE UNCHANGED request
    BY <1>3 DEF UnlinkHasRow, Serving
  <1>4. ASSUME NEW w \in Workers, Serve(w)
        PROVE  request'[v].copy # NoRow
    <2>1. \/ EndRequest(w) \/ InactivateOthers(w)
          \/ \E l \in Learners, k \in Customers :
                 BeginLink(w, l, k) \/ \E r \in BOOLEAN : BeginUnlink(w, l, k, r)
      BY <1>4 DEF Serve, LinkExisting, LinkNew, LinkPending, UnlinkExisting, UnlinkPending,
                  FailRequest
    <2>2. QED
      BY <1>1, <1>2, <1>2a, <2>1
  <1>5. ASSUME NEW l \in Learners, NEW k \in Customers, Handler(l, k)
        PROVE  UNCHANGED request
    BY <1>5 DEF Handler, Activate, LinkByApi, LinkByApiPending, JoinByKey, AssignToGroup,
                InviteAdmin, DeletePendingAdmin, CreateAdmin, DeleteActiveAdmin
  <1>6. ASSUME NEW l \in Learners, Register(l) \/ Login(l)
        PROVE  UNCHANGED request
    BY <1>6 DEF Register, Login, HandleUserPostSave
  <1>7. QED
    BY <1>3, <1>4, <1>5, <1>6 DEF Next, vars

LEMMA InitFacts ==
    ASSUME Init
    PROVE  TypeOK /\ UnlinkHasRow
  BY DEF Init, TypeOK, UnlinkHasRow, Serving

LEMMA LinkInvariant == Spec => [](TypeOK /\ UnlinkHasRow)
  <1>1. Init => TypeOK /\ UnlinkHasRow
    BY InitFacts
  <1>2. TypeOK /\ UnlinkHasRow /\ [Next]_vars => (TypeOK /\ UnlinkHasRow)'
    BY TypeStep, UnlinkHasRowStep
  <1>3. QED
    BY <1>1, <1>2, PTL DEF Spec

\* Every table and call keeps its type, for all learners, customers and
\* workers.
THEOREM TypeCorrect == Spec => []TypeOK
  <1>1. TypeOK /\ UnlinkHasRow => TypeOK
    OBVIOUS
  <1>2. QED
    BY <1>1, LinkInvariant, PTL

-----------------------------------------------------------------------------
(* At most one active row                                                  *)

LEMMA AtMostOneStep ==
    ASSUME TypeOK, UnlinkHasRow, AtMostOneActive, [Next]_vars
    PROVE  AtMostOneActive'
  <1> DEFINE Marked == bare \union overtaken
  <1> SUFFICES ASSUME NEW m \in Learners, NEW i \in Customers, NEW j \in Customers, i # j,
                      IsActive(link'[m][i]), IsActive(link'[m][j])
               PROVE  <<m, i>> \in Marked' \/ <<m, j>> \in Marked'
    BY DEF AtMostOneActive
  <1>0. IsActive(link[m][i]) /\ IsActive(link[m][j]) =>
            <<m, i>> \in Marked \/ <<m, j>> \in Marked
    BY DEF AtMostOneActive
  <1>1. CASE SaveStep
    <2>1. PICK l \in Learners, k \in Customers, row \in Row, seen \in SUBSET Customers :
              (row.active => row.linked) /\ Write(l, k, row, seen)
      BY <1>1 DEF SaveStep
    <2>2. \A p \in Learners, c \in Customers :
              ~(p = l /\ c = k) => (<<p, c>> \in Marked' <=> <<p, c>> \in Marked)
      BY <2>1 DEF Write
    <2>3. CASE m # l
      <3>1. link'[m] = link[m]
        BY <2>1, <2>3, WriteFacts
      <3>2. QED
        BY <1>0, <2>2, <2>3, <3>1
    <2>4. CASE m = l /\ i # k /\ j # k
      <3>1. ASSUME NEW c \in Customers \ {k}, IsActive(link'[l][c])
            PROVE  IsActive(link[l][c])
        BY <2>1, <3>1, WriteFacts, RowFacts, InactivatedFacts
      <3>2. IsActive(link[m][i]) /\ IsActive(link[m][j])
        BY <2>4, <3>1
      <3>3. QED
        BY <1>0, <2>2, <2>4, <3>2
    <2>5. ASSUME NEW c \in Customers \ {k}, IsActive(link'[l][k]), IsActive(link'[l][c])
          PROVE  <<l, k>> \in Marked'
      <3>1. row.active
        BY <2>1, <2>5, WriteFacts DEF IsActive
      <3>2. c \notin seen /\ link'[l][c] = link[l][c]
        BY <2>1, <2>5, <3>1, WriteFacts, RowFacts, InactivatedFacts
      <3>3. c \in OtherLinks(l, k)
        BY <2>5, <3>2 DEF OtherLinks, IsActive
      <3>4. QED
        BY <2>1, <3>1, <3>2, <3>3 DEF Write
    <2>6. QED
      BY <2>3, <2>4, <2>5
  <1>2. CASE GroupStep
    <2>1. PICK l \in Learners, k \in Customers : AssignToGroup(l, k)
      BY <1>2 DEF GroupStep
    <2>2. /\ \A p \in Learners, c \in Customers :
                 ~(p = l /\ c = k) => link'[p][c] = link[p][c]
          /\ Marked' = Marked \union {<<l, k>>}
      BY <2>1 DEF AssignToGroup, TypeOK
    <2>3. QED
      BY <1>0, <2>2
  <1>3. CASE PostSaveStep
    <2>1. PICK l \in Learners : HandleUserPostSave(l)
      BY <1>3 DEF PostSaveStep
    <2>2. Marked' = Marked \ ({l} \X PendingFor(l))
      BY <2>1 DEF HandleUserPostSave
    <2>3. CASE m # l
      <3>1. link'[m] = link[m]
        BY <2>1, <2>3, PostSaveFacts
      <3>2. QED
        BY <1>0, <2>2, <2>3, <3>1
    <2>4. CASE m = l /\ PendingFor(l) # {}
      BY <2>1, <2>4, PostSaveFacts
    <2>5. CASE m = l /\ PendingFor(l) = {}
      <3>1. link'[l] = link[l] /\ Marked' = Marked
        BY <2>1, <2>2, <2>5, PostSaveFacts
      <3>2. QED
        BY <1>0, <2>5, <3>1
    <2>6. QED
      BY <2>3, <2>4, <2>5
  <1>4. CASE QuietStep
    BY <1>0, <1>4 DEF QuietStep
  <1>5. QED
    BY <1>1, <1>2, <1>3, <1>4, StepKinds

\* A learner has one active customer at most, whatever calls overlap and
\* whatever stale rows they save, apart from rows that bulk_create wrote or
\* whose save another link overtook.
THEOREM OneActiveCustomer == Spec => []AtMostOneActive
  <1>1. Init => AtMostOneActive
    BY DEF Init, AtMostOneActive, IsActive, IsLinked
  <1>2. TypeOK /\ UnlinkHasRow /\ AtMostOneActive /\ [Next]_vars => AtMostOneActive'
    BY AtMostOneStep
  <1>3. QED
    BY <1>1, <1>2, LinkInvariant, PTL DEF Spec

-----------------------------------------------------------------------------
(* The learner role                                                        *)

LEMMA RoleStep ==
    ASSUME TypeOK, UnlinkHasRow, RoleMatchesLink, [Next]_vars
    PROVE  RoleMatchesLink'
  <1> SUFFICES ASSUME NEW m \in Learners, NEW c \in Customers, <<m, c>> \notin bare'
               PROVE  <<m, c>> \in learnerRole' <=> IsLinked(link'[m][c])
    BY DEF RoleMatchesLink
  <1>1. CASE SaveStep
    <2>1. PICK l \in Learners, k \in Customers, row \in Row, seen \in SUBSET Customers :
              Write(l, k, row, seen)
      BY <1>1 DEF SaveStep
    <2>2. /\ bare' = bare \ {<<l, k>>}
          /\ learnerRole' = IF row.linked THEN learnerRole \union {<<l, k>>}
                                          ELSE learnerRole \ {<<l, k>>}
      BY <2>1 DEF Write, RoleAfter
    <2>3. CASE m = l /\ c = k
      <3>1. IsLinked(link'[l][k]) <=> row.linked
        BY <2>1, WriteFacts, RowAssumption DEF IsLinked
      <3>2. QED
        BY <2>2, <2>3, <3>1
    <2>4. CASE ~(m = l /\ c = k)
      <3>1. IsLinked(link'[m][c]) <=> IsLinked(link[m][c])
        BY <2>1, <2>4, WriteFacts, RowFacts, InactivatedFacts
      <3>2. QED
        BY <2>2, <2>4, <3>1 DEF RoleMatchesLink
    <2>5. QED
      BY <2>3, <2>4
  <1>2. CASE GroupStep
    <2>1. PICK l \in Learners, k \in Customers : AssignToGroup(l, k)
      BY <1>2 DEF GroupStep
    <2>2. /\ \A p \in Learners, d \in Customers :
                 ~(p = l /\ d = k) => link'[p][d] = link[p][d]
          /\ bare' = bare \union {<<l, k>>} /\ learnerRole' = learnerRole
      BY <2>1 DEF AssignToGroup, TypeOK
    <2>3. QED
      BY <2>2 DEF RoleMatchesLink
  <1>3. CASE PostSaveStep
    <2>1. PICK l \in Learners : HandleUserPostSave(l)
      BY <1>3 DEF PostSaveStep
    <2>2. /\ bare' = bare \ ({l} \X PendingFor(l))
          /\ learnerRole' = learnerRole \union ({l} \X PendingFor(l))
      BY <2>1 DEF HandleUserPostSave
    <2>3. CASE m # l
      BY <2>1, <2>2, <2>3, PostSaveFacts DEF RoleMatchesLink
    <2>4. CASE m = l
      <3>1. IsLinked(link'[l][c]) <=> IsLinked(link[l][c]) \/ c \in PendingFor(l)
        BY <2>1, PostSaveFacts
      <3>2. QED
        BY <2>2, <2>4, <3>1 DEF RoleMatchesLink
    <2>5. QED
      BY <2>3, <2>4
  <1>4. CASE QuietStep
    BY <1>4 DEF QuietStep, RoleMatchesLink
  <1>5. QED
    BY <1>1, <1>2, <1>3, <1>4, StepKinds

\* The learner role is assigned for the linked rows and for no other, apart
\* from rows bulk_create wrote.
THEOREM RolesFollowLinks == Spec => []RoleMatchesLink
  <1>1. Init => RoleMatchesLink
    BY DEF Init, RoleMatchesLink, IsLinked
  <1>2. TypeOK /\ UnlinkHasRow /\ RoleMatchesLink /\ [Next]_vars => RoleMatchesLink'
    BY RoleStep
  <1>3. QED
    BY <1>1, <1>2, LinkInvariant, PTL DEF Spec

-----------------------------------------------------------------------------
(* Switching the active customer                                           *)

ReplacedStep ==
    \A l \in Learners, k \in Customers :
        IsActive(link[l][k]) /\ ~IsActive(link'[l][k]) =>
            \A j \in Customers \ {k} :
                link'[l][j] # link[l][j] =>
                    \E i \in Customers \ {k} : IsActive(link'[l][i])

LEMMA SwitchStep ==
    ASSUME TypeOK, UnlinkHasRow, [Next]_vars
    PROVE  ReplacedStep
  <1> SUFFICES ASSUME NEW m \in Learners, NEW c \in Customers, NEW j \in Customers \ {c},
                      IsActive(link[m][c]), ~IsActive(link'[m][c]),
                      link'[m][j] # link[m][j]
               PROVE  \E i \in Customers \ {c} : IsActive(link'[m][i])
    BY DEF ReplacedStep
  <1>1. CASE SaveStep
    <2>1. PICK l \in Learners, k \in Customers, row \in Row, seen \in SUBSET Customers :
              (row.active => row.linked) /\ Write(l, k, row, seen)
      BY <1>1 DEF SaveStep
    <2>2. m = l
      BY <2>1, WriteFacts
    <2>3. row.active => IsActive(link'[l][k])
      BY <2>1, WriteFacts, RowAssumption DEF IsActive, IsLinked
    <2>4. CASE row.active
      BY <2>2, <2>3, <2>4
    <2>5. CASE ~row.active
      <3>1. \A d \in Customers \ {k} : link'[l][d] = link[l][d]
        BY <2>1, <2>5, WriteFacts
      <3>2. QED
        BY <2>2, <3>1
    <2>6. QED
      BY <2>4, <2>5
  <1>2. CASE GroupStep
    <2>1. PICK l \in Learners, k \in Customers : AssignToGroup(l, k)
      BY <1>2 DEF GroupStep
    <2>2. /\ \A p \in Learners, d \in Customers :
                 ~(p = l /\ d = k) => link'[p][d] = link[p][d]
          /\ link'[l][k] = NewRow(TRUE)
      BY <2>1 DEF AssignToGroup, TypeOK
    <2>3. IsActive(link'[l][k])
      BY <2>2, NewRowFacts, RowAssumption DEF IsActive, IsLinked
    <2>4. QED
      BY <2>2, <2>3
  <1>3. CASE PostSaveStep
    <2>1. PICK l \in Learners : HandleUserPostSave(l)
      BY <1>3 DEF PostSaveStep
    <2>2. m = l /\ link'[l] # link[l]
      BY <2>1, PostSaveFacts
    <2>3. PICK last \in PendingFor(l) :
              \A k \in Customers : IsActive(link'[l][k]) <=> k = last
      BY <2>1, <2>2, PostSaveFacts
    <2>4. last \in Customers /\ IsActive(link'[l][last])
      BY <2>3 DEF PendingFor
    <2>5. QED
      BY <2>2, <2>4
  <1>4. CASE QuietStep
    BY <1>4 DEF QuietStep
  <1>5. QED
    BY <1>1, <1>2, <1>3, <1>4, StepKinds

\* No call about one customer takes the active customer away from a learner
\* without putting another one in its place.
THEOREM ActiveCustomerKept == Spec => ActiveUntilReplaced
  <1>1. TypeOK /\ UnlinkHasRow /\ [Next]_vars => [ReplacedStep]_vars
    BY SwitchStep
  <1>2. QED
    BY <1>1, LinkInvariant, PTL DEF Spec, ActiveUntilReplaced, ReplacedStep

-----------------------------------------------------------------------------
(***************************************************************************)
(* The consents of one learner to one customer.  That a refusal stands     *)
(* needs one thing more than the types: a request saves the record of what *)
(* it answers for, or of the course of it, and never that of another run.  *)
(***************************************************************************)
CONSTANTS Runs, Courses, CourseOf, Program
VARIABLES consent, enrolled, covered, cached, visit, answer, undone

DSC == INSTANCE DataSharingConsent WITH request <- visit

\* What DataSharingConsent assumes of its constants.
CoursesFit ==
    CourseOf \in [Runs -> Courses] /\ Program \subseteq Courses /\ Runs \intersect Courses = {}

\* A request answers for a run or a course, with its own record or that of the
\* course, or for courses of the program.
AnswerShape(q) ==
    \/ q.named \subseteq Program /\ q.records = q.named
    \/ \E x \in DSC!Ids : q.named = {x} /\ (q.records = {x} \/ q.records = {DSC!CourseOfId(x)})

AnswersFit ==
    \A w \in Workers : DSC!Serving(w, "answer") => AnswerShape(visit[w])

\* The inductive invariant.
ConsentInvariant == DSC!TypeOK /\ AnswersFit /\ DSC!RefusalStands

-----------------------------------------------------------------------------
(* Types                                                                   *)

\* Runs and courses have a course, and are told apart.
LEMMA CourseFacts ==
    ASSUME CoursesFit
    PROVE  /\ \A x \in DSC!Ids : DSC!CourseOfId(x) \in DSC!Ids
           /\ \A r \in Runs : CourseOf[r] \in Courses /\ CourseOf[r] \notin Runs
           /\ \A r \in Runs : DSC!CourseOfId(r) = CourseOf[r] /\ r \in DSC!Ids
           /\ \A r \in Runs, s \in Runs : CourseOf[r] # s
           /\ Program \subseteq DSC!Ids
  BY DEF CoursesFit, DSC!CourseOfId, DSC!Ids

\* The record looked up for a run or a course is its own or that of the course.
LEMMA RecordFacts ==
    ASSUME CoursesFit, NEW x \in DSC!Ids, NEW record \in DSC!Found(x)
    PROVE  record \in DSC!Ids /\ (record = x \/ record = DSC!CourseOfId(x))
  BY CourseFacts DEF DSC!Found, DSC!Record

\* The types are right initially.
LEMMA ConsentTypeInit == DSC!Init => DSC!TypeOK
  BY DEF DSC!Init, DSC!TypeOK

\* An answer begins as a request of this shape.
BeginsAnswer(w) ==
    \E named, records \in SUBSET DSC!Ids, granted, page \in BOOLEAN :
        /\ DSC!BeginAnswer(w, named, records, granted, page)
        /\ \/ named = Program /\ records = Program
           \/ \E x \in DSC!Ids : named = {x} /\ (records = {x} \/ records = {DSC!CourseOfId(x)})

\* Every answer begins so.
LEMMA AnswersBegin ==
    ASSUME CoursesFit, NEW w \in Workers, DSC!Answer(w)
    PROVE  BeginsAnswer(w)
  <1>1. ASSUME NEW x \in DSC!Ids, NEW record \in DSC!Found(x), NEW granted \in BOOLEAN,
               NEW page \in BOOLEAN, DSC!BeginAnswer(w, {x}, {record}, granted, page)
        PROVE  BeginsAnswer(w)
    <2>1. {x} \in SUBSET DSC!Ids /\ {record} \in SUBSET DSC!Ids
      BY RecordFacts
    <2>2. {record} = {x} \/ {record} = {DSC!CourseOfId(x)}
      BY RecordFacts
    <2>3. QED
      BY <1>1, <2>1, <2>2 DEF BeginsAnswer
  <1>2. ASSUME NEW granted \in BOOLEAN, NEW page \in BOOLEAN,
               DSC!BeginAnswer(w, Program, Program, granted, page)
        PROVE  BeginsAnswer(w)
    BY <1>2, CourseFacts DEF BeginsAnswer
  <1>3. QED
    BY <1>1, <1>2
       DEF DSC!Answer, DSC!GrantOne, DSC!RefuseOne, DSC!GrantProgram, DSC!RefuseProgram

\* What a request in progress holds.
LEMMA AnswerFacts ==
    ASSUME DSC!TypeOK, NEW w \in Workers
    PROVE  /\ DSC!Serving(w, "answer") =>
                 /\ visit[w].named \in SUBSET DSC!Ids /\ visit[w].records \in SUBSET DSC!Ids
                 /\ visit[w].granted \in BOOLEAN /\ visit[w].page \in BOOLEAN
           /\ DSC!Serving(w, "check") => visit[w].run \in Runs
  <1>1. visit[w] \in DSC!Request \union {Idle}
    BY DEF DSC!TypeOK
  <1>2. QED
    BY <1>1 DEF DSC!Request, DSC!Serving

\* A grant or a refusal is a value of a record.
LEMMA ValueType == \A g \in BOOLEAN : DSC!Value(g) \in {"granted", "refused"}
  BY DEF DSC!Value

\* The page enrolls in runs.
LEMMA EnrolledType ==
    ASSUME DSC!TypeOK, NEW q
    PROVE  DSC!EnrolledBy(q) \subseteq Runs
  BY DEF DSC!EnrolledBy, DSC!TypeOK

\* What an answer saves has its type.
SavedType ==
    /\ consent' \in [DSC!Ids -> {"none", "granted", "refused"}]
    /\ enrolled' \subseteq Runs
    /\ answer' \in [Runs -> {"none", "granted", "refused"}]
    /\ undone' \subseteq Runs

LEMMA SavesType ==
    ASSUME DSC!TypeOK, NEW q, q.granted \in BOOLEAN, DSC!Saves(q)
    PROVE  SavedType
  <1>1. enrolled' \subseteq Runs
    BY EnrolledType DEF DSC!Saves
  <1>2. consent' \in [DSC!Ids -> {"none", "granted", "refused"}]
    BY ValueType DEF DSC!Saves, DSC!SavedRecords, DSC!TypeOK
  <1>3. answer' \in [Runs -> {"none", "granted", "refused"}]
    BY ValueType DEF DSC!Saves, DSC!TypeOK
  <1>4. undone' \subseteq Runs
    BY DEF DSC!Saves, DSC!UndoneBySave, DSC!TypeOK
  <1>5. QED
    BY <1>1, <1>2, <1>3, <1>4 DEF SavedType

\* The part of a request that a failing one saves.
LEMMA PartFacts ==
    ASSUME NEW w \in Workers, DSC!TypeOK, DSC!Serving(w, "answer"), NEW saved
    PROVE  /\ DSC!Part(visit[w], saved).named = saved
           /\ DSC!Part(visit[w], saved).records = saved
           /\ DSC!Part(visit[w], saved).granted \in BOOLEAN
  <1>1. visit[w] \in DSC!Request \union {Idle} /\ visit[w] # Idle /\ visit[w].op = "answer"
    BY DEF DSC!TypeOK, DSC!Serving
  <1>2. visit[w] \in [op : {"answer"}, named : SUBSET DSC!Ids, records : SUBSET DSC!Ids,
                      granted : BOOLEAN, page : BOOLEAN]
    BY <1>1 DEF DSC!Request
  <1>3. QED
    BY <1>2 DEF DSC!Part

\* Every step preserves the types.
LEMMA ConsentTypeNext ==
    ASSUME CoursesFit, DSC!TypeOK, [DSC!Next]_(DSC!vars)
    PROVE  DSC!TypeOK'
  <1>1. ASSUME NEW w \in Workers, DSC!Answer(w)
        PROVE  DSC!TypeOK'
    <2>1. PICK named \in SUBSET DSC!Ids, records \in SUBSET DSC!Ids, granted \in BOOLEAN,
               page \in BOOLEAN : DSC!BeginAnswer(w, named, records, granted, page)
      BY <1>1, AnswersBegin DEF BeginsAnswer
    <2> DEFINE q == [op |-> "answer", named |-> named, records |-> records,
                     granted |-> granted, page |-> page]
    <2>2. q \in DSC!Request
      BY DEF DSC!Request
    <2>3. visit' = [visit EXCEPT ![w] = q]
      BY <2>1 DEF DSC!BeginAnswer
    <2> HIDE DEF q
    <2>4. QED
      BY <2>1, <2>2, <2>3 DEF DSC!BeginAnswer, DSC!TypeOK
  <1>2. ASSUME NEW w \in Workers, DSC!SaveAnswer(w)
        PROVE  DSC!TypeOK'
    <2>1. SavedType
      BY <1>2, AnswerFacts, SavesType DEF DSC!SaveAnswer
    <2>2. QED
      BY <1>2, <2>1 DEF SavedType, DSC!SaveAnswer, DSC!End, DSC!TypeOK
  <1>3. ASSUME NEW w \in Workers, DSC!FailAnswer(w)
        PROVE  DSC!TypeOK'
    <2>1. CASE DSC!SavesNothing(visit[w])
      BY <1>3, <2>1, EnrolledType
         DEF DSC!FailAnswer, DSC!SavesNothing, DSC!End, DSC!TypeOK
    <2>2. CASE DSC!SavesPart(visit[w])
      <3>1. PICK saved \in SUBSET Program : DSC!Saves(DSC!Part(visit[w], saved))
        BY <2>2 DEF DSC!SavesPart
      <3>2. SavedType
        BY <1>3, <3>1, PartFacts, SavesType DEF DSC!FailAnswer
      <3>3. QED
        BY <1>3, <3>2 DEF SavedType, DSC!FailAnswer, DSC!End, DSC!TypeOK
    <2>3. QED
      BY <1>3, <2>1, <2>2 DEF DSC!FailAnswer
  <1>4. ASSUME NEW w \in Workers, DSC!EndVisit(w)
        PROVE  DSC!TypeOK'
    BY <1>4, AnswerFacts DEF DSC!EndVisit, DSC!End, DSC!TypeOK
  <1>5. ASSUME NEW w \in Workers, NEW r \in Runs, NEW record \in DSC!Found(r),
               NEW elsewhere \in BOOLEAN, NEW known \in BOOLEAN,
               DSC!Visit(w, r, record, elsewhere, known)
        PROVE  DSC!TypeOK'
    <2> DEFINE b == ~elsewhere /\ DSC!Required(record) /\ (DSC!Exists(r, record) \/ known)
               q == [op |-> "check", run |-> r, needed |-> b]
    <2>1. b \in BOOLEAN
      OBVIOUS
    <2>2. q.op = "check" /\ q \in DSC!Request
      <3> HIDE DEF b
      <3>1. QED
        BY <2>1 DEF DSC!Request
    <2>3. visit' = [visit EXCEPT ![w] = q]
      BY <1>5 DEF DSC!Visit
    <2> HIDE DEF q
    <2>4. QED
      BY <1>5, <2>2, <2>3 DEF DSC!Visit, DSC!TypeOK
  <1>6. ASSUME NEW r \in Runs, DSC!OnRun(r)
        PROVE  DSC!TypeOK'
    BY <1>6, CourseFacts
       DEF DSC!OnRun, DSC!HandleConsentEnrollment, DSC!CreateMissing, DSC!GrantRun,
           DSC!Enroll, DSC!Expire, DSC!TypeOK
  <1>7. ASSUME NEW x \in DSC!Ids, DSC!DeleteDataSharingConsent(x)
        PROVE  DSC!TypeOK'
    BY <1>7 DEF DSC!DeleteDataSharingConsent, DSC!TypeOK
  <1>8. CASE DSC!RemoveAll
    BY <1>8 DEF DSC!RemoveAll, DSC!TypeOK
  <1>9. ASSUME NEW c \in Courses, DSC!SetCovered(c)
        PROVE  DSC!TypeOK'
    BY <1>9 DEF DSC!SetCovered, DSC!TypeOK
  <1>10. CASE UNCHANGED DSC!vars
    BY <1>10 DEF DSC!vars, DSC!TypeOK
  <1>11. QED
    BY <1>1, <1>2, <1>3, <1>4, <1>5, <1>6, <1>7, <1>8, <1>9, <1>10 DEF DSC!Next, DSC!Settle

\* The records, requests and caches always have their types.
THEOREM ConsentTypeCorrect ==
    ASSUME CoursesFit
    PROVE  DSC!Spec => []DSC!TypeOK
  BY ConsentTypeInit, ConsentTypeNext, PTL DEF DSC!Spec

-----------------------------------------------------------------------------
(* The shape of the requests                                               *)

\* Requests keep their shape.
LEMMA AnswersFitNext ==
    ASSUME CoursesFit, DSC!TypeOK, AnswersFit, [DSC!Next]_(DSC!vars)
    PROVE  AnswersFit'
  <1> SUFFICES ASSUME NEW v \in Workers, DSC!Serving(v, "answer")'
               PROVE  AnswerShape(visit'[v])
    BY DEF AnswersFit
  <1>1. ASSUME visit'[v] = visit[v]
        PROVE  AnswerShape(visit'[v])
    BY <1>1 DEF AnswersFit, DSC!Serving
  <1>2. ASSUME NEW w \in Workers, DSC!Answer(w)
        PROVE  AnswerShape(visit'[v])
    <2>1. PICK named \in SUBSET DSC!Ids, records \in SUBSET DSC!Ids, granted \in BOOLEAN,
               page \in BOOLEAN :
                 /\ DSC!BeginAnswer(w, named, records, granted, page)
                 /\ \/ named = Program /\ records = Program
                    \/ \E x \in DSC!Ids :
                          named = {x} /\ (records = {x} \/ records = {DSC!CourseOfId(x)})
      BY <1>2, AnswersBegin DEF BeginsAnswer
    <2>2. CASE v = w
      <3> DEFINE q == [op |-> "answer", named |-> named, records |-> records,
                       granted |-> granted, page |-> page]
      <3>1. visit'[v] = q
        BY <2>1, <2>2 DEF DSC!BeginAnswer, DSC!TypeOK
      <3>2. q.named = named /\ q.records = records
        OBVIOUS
      <3> HIDE DEF q
      <3>3. QED
        BY <2>1, <3>1, <3>2 DEF AnswerShape
    <2>3. CASE v # w
      BY <1>1, <2>1, <2>3 DEF DSC!BeginAnswer, DSC!TypeOK
    <2>4. QED
      BY <2>2, <2>3
  <1>3. ASSUME NEW w \in Workers, DSC!Settle(w)
        PROVE  AnswerShape(visit'[v])
    <2>1. visit' = [visit EXCEPT ![w] = Idle]
      BY <1>3 DEF DSC!Settle, DSC!SaveAnswer, DSC!FailAnswer, DSC!EndVisit, DSC!End
    <2>2. v # w
      BY <2>1 DEF DSC!Serving, DSC!TypeOK
    <2>3. QED
      BY <1>1, <2>1, <2>2 DEF DSC!TypeOK
  <1>4. ASSUME NEW w \in Workers, NEW r \in Runs, NEW record \in DSC!Found(r),
               NEW elsewhere \in BOOLEAN, NEW known \in BOOLEAN,
               DSC!Visit(w, r, record, elsewhere, known)
        PROVE  AnswerShape(visit'[v])
    <2> DEFINE b == ~elsewhere /\ DSC!Required(record) /\ (DSC!Exists(r, record) \/ known)
               q == [op |-> "check", run |-> r, needed |-> b]
    <2>1. q.op # "answer" /\ visit' = [visit EXCEPT ![w] = q]
      BY <1>4 DEF DSC!Visit
    <2> HIDE DEF q
    <2>2. v # w
      BY <2>1 DEF DSC!Serving, DSC!TypeOK
    <2>3. QED
      BY <1>1, <2>1, <2>2 DEF DSC!TypeOK
  <1>5. ASSUME NEW r \in Runs, DSC!OnRun(r)
        PROVE  visit' = visit
    BY <1>5 DEF DSC!OnRun, DSC!HandleConsentEnrollment, DSC!CreateMissing, DSC!GrantRun,
                DSC!Enroll, DSC!Expire
  <1>6. ASSUME NEW x \in DSC!Ids, DSC!DeleteDataSharingConsent(x)
        PROVE  visit' = visit
    BY <1>6 DEF DSC!DeleteDataSharingConsent
  <1>7. ASSUME NEW c \in Courses, DSC!SetCovered(c)
        PROVE  visit' = visit
    BY <1>7 DEF DSC!SetCovered
  <1>8. DSC!RemoveAll \/ UNCHANGED DSC!vars => visit' = visit
    BY DEF DSC!RemoveAll, DSC!vars
  <1>9. QED
    BY <1>1, <1>2, <1>3, <1>4, <1>5, <1>6, <1>7, <1>8 DEF DSC!Next

-----------------------------------------------------------------------------
(* Refusals                                                                *)

\* Whether a run is consented to is said by its own record, and by that of its
\* course only where the run has none.
LEMMA ConsentedBy ==
    ASSUME CoursesFit, DSC!TypeOK, NEW r \in Runs
    PROVE  DSC!Consented(r) <=> \/ consent[r] = "granted"
                                \/ consent[r] = "none" /\ consent[CourseOf[r]] = "granted"
  <1>1. DSC!CourseOfId(r) = CourseOf[r] /\ CourseOf[r] \in DSC!Ids /\ r \in DSC!Ids
    BY CourseFacts DEF DSC!Ids
  <1>2. consent[r] \in {"none", "granted", "refused"}
    BY <1>1 DEF DSC!TypeOK
  <1>3. QED
    BY <1>1, <1>2 DEF DSC!Consented, DSC!Record, DSC!Has

\* The same after a step.
LEMMA ConsentedByNext ==
    ASSUME CoursesFit, DSC!TypeOK', NEW r \in Runs
    PROVE  (DSC!Consented(r))' <=> \/ consent'[r] = "granted"
                                   \/ consent'[r] = "none" /\ consent'[CourseOf[r]] = "granted"
  <1>1. DSC!CourseOfId(r) = CourseOf[r] /\ CourseOf[r] \in DSC!Ids /\ r \in DSC!Ids
    BY CourseFacts DEF DSC!Ids
  <1>2. consent'[r] \in {"none", "granted", "refused"}
    BY <1>1 DEF DSC!TypeOK
  <1>3. QED
    BY <1>1, <1>2 DEF DSC!Consented, DSC!Record, DSC!Has

\* An answer that is saved is the one that counts for the runs it speaks for;
\* where it takes effect on others, or has none, they are noted as undone.
LEMMA SavedAnswerStands ==
    ASSUME CoursesFit, DSC!TypeOK, DSC!TypeOK', DSC!RefusalStands,
           NEW q, AnswerShape(q), DSC!Saves(q),
           NEW r \in Runs, answer'[r] = "refused"
    PROVE  (~DSC!Consented(r))' \/ r \in undone'
  <1> DEFINE c == CourseOf[r]
  <1>1. c \in DSC!Ids /\ r \in DSC!Ids /\ c # r
    BY CourseFacts DEF DSC!Ids
  <1>2. /\ consent'[r] = IF r \in q.records THEN DSC!Value(q.granted) ELSE consent[r]
        /\ consent'[c] = IF c \in q.records THEN DSC!Value(q.granted) ELSE consent[c]
    BY <1>1 DEF DSC!Saves, DSC!SavedRecords
  <1>3. answer'[r] = IF r \in DSC!AnsweredRuns(q.named) THEN DSC!Value(q.granted) ELSE answer[r]
    BY DEF DSC!Saves
  <1>4. undone' = (undone \ DSC!AnsweredRuns(q.named)) \union DSC!UndoneBySave(q)
    BY DEF DSC!Saves
  <1>5. (DSC!Consented(r))' <=> \/ consent'[r] = "granted"
                                \/ consent'[r] = "none" /\ consent'[c] = "granted"
    BY ConsentedByNext
  <1>6. /\ r \in q.records => r \in q.named
        /\ r \in q.named => r \in q.records \/ c \in q.records
        /\ c \in q.named => c \in q.records
    BY <1>1, CourseFacts DEF CoursesFit, AnswerShape, DSC!CourseOfId
  <1>7. CASE r \in DSC!AnsweredRuns(q.named)
    <2>1. /\ DSC!Value(q.granted) = "refused"
          /\ (r \in q.named \/ (c \in q.named /\ consent[r] = "none"))
      BY <1>3, <1>7 DEF DSC!AnsweredRuns, DSC!Has
    <2>2. CASE r \in q.records
      BY <1>2, <1>5, <2>1, <2>2
    <2>3. CASE r \notin q.records
      <3>1. c \in q.records
        BY <1>6, <2>1, <2>3
      <3>2. CASE consent[r] = "none"
        BY <1>2, <1>5, <2>1, <2>3, <3>1, <3>2
      <3>3. CASE consent[r] # "none"
        BY <1>4, <2>1, <2>3, <3>3 DEF DSC!UndoneBySave, DSC!Has
      <3>4. QED
        BY <3>2, <3>3
    <2>4. QED
      BY <2>2, <2>3
  <1>8. CASE r \notin DSC!AnsweredRuns(q.named)
    <2>1. answer[r] = "refused" /\ r \notin q.named /\ r \notin q.records
      BY <1>3, <1>6, <1>8 DEF DSC!AnsweredRuns
    <2>2. CASE r \in undone
      BY <1>4, <1>8, <2>2
    <2>3. CASE r \notin undone
      <3>1. ~DSC!Consented(r)
        BY <2>1, <2>3 DEF DSC!RefusalStands
      <3>2. CASE consent[r] = "none" /\ c \in q.records
        BY <1>4, <1>8, <3>2 DEF DSC!UndoneBySave, DSC!Has
      <3>3. CASE ~(consent[r] = "none" /\ c \in q.records)
        BY <1>2, <1>5, <2>1, <3>1, <3>3, ConsentedBy
      <3>4. QED
        BY <3>2, <3>3
    <2>4. QED
      BY <2>2, <2>3
  <1>9. QED
    BY <1>7, <1>8

\* Every step preserves that refusals stand.
LEMMA RefusalNext ==
    ASSUME CoursesFit, DSC!TypeOK, DSC!TypeOK', AnswersFit, DSC!RefusalStands,
           [DSC!Next]_(DSC!vars)
    PROVE  DSC!RefusalStands'
  <1> SUFFICES ASSUME NEW r \in Runs, answer'[r] = "refused"
               PROVE  (~DSC!Consented(r))' \/ r \in undone'
    BY DEF DSC!RefusalStands
  <1>0. CourseOf[r] \in DSC!Ids /\ r \in DSC!Ids /\ \A s \in Runs : CourseOf[r] # s
    BY CourseFacts DEF DSC!Ids
  <1>1. ASSUME UNCHANGED <<consent, answer, undone>>
        PROVE  (~DSC!Consented(r))' \/ r \in undone'
    BY <1>1 DEF DSC!RefusalStands, DSC!Consented, DSC!Record, DSC!Has
  <1>2. ASSUME NEW s \in Runs, DSC!GrantRun(s)
        PROVE  (~DSC!Consented(r))' \/ r \in undone'
    <2>1. r # s
      BY <1>2 DEF DSC!GrantRun, DSC!TypeOK
    <2>2. /\ consent'[r] = consent[r] /\ consent'[CourseOf[r]] = consent[CourseOf[r]]
          /\ answer'[r] = answer[r] /\ (r \in undone => r \in undone')
      BY <1>0, <1>2, <2>1 DEF DSC!GrantRun, DSC!TypeOK
    <2>3. QED
      BY <2>2, ConsentedBy, ConsentedByNext DEF DSC!RefusalStands
  <1>3. ASSUME NEW x \in DSC!Ids, DSC!DeleteDataSharingConsent(x)
        PROVE  (~DSC!Consented(r))' \/ r \in undone'
    <2>1. r # x /\ answer[r] = "refused"
      BY <1>3 DEF DSC!DeleteDataSharingConsent
    <2>2. /\ consent'[r] = consent[r]
          /\ consent'[CourseOf[r]] = consent[CourseOf[r]] \/ consent'[CourseOf[r]] = "none"
          /\ r \in undone => r \in undone'
      BY <1>0, <1>3, <2>1 DEF DSC!DeleteDataSharingConsent, DSC!TypeOK
    <2>3. QED
      BY <2>1, <2>2, ConsentedBy, ConsentedByNext DEF DSC!RefusalStands
  <1>4. DSC!RemoveAll => FALSE
    BY DEF DSC!RemoveAll
  <1>5. ASSUME NEW w \in Workers, DSC!Answer(w)
        PROVE  UNCHANGED <<consent, answer, undone>>
    BY <1>5, AnswersBegin DEF BeginsAnswer, DSC!BeginAnswer
  <1>6. ASSUME NEW w \in Workers, DSC!FailAnswer(w)
        PROVE  \/ UNCHANGED <<consent, answer, undone>>
               \/ (~DSC!Consented(r))' \/ r \in undone'
    <2>1. CASE DSC!SavesNothing(visit[w])
      BY <2>1 DEF DSC!SavesNothing
    <2>2. CASE DSC!SavesPart(visit[w])
      <3>1. PICK saved \in SUBSET Program : DSC!Saves(DSC!Part(visit[w], saved))
        BY <2>2 DEF DSC!SavesPart
      <3> DEFINE q == DSC!Part(visit[w], saved)
      <3>2. q.named = saved /\ q.records = saved
        BY <1>6, PartFacts DEF DSC!FailAnswer
      <3>3. AnswerShape(q)
        BY <3>2 DEF AnswerShape
      <3>4. DSC!Saves(q)
        BY <3>1
      <3> HIDE DEF q
      <3>5. QED
        BY <3>3, <3>4, SavedAnswerStands
    <2>3. QED
      BY <1>6, <2>1, <2>2 DEF DSC!FailAnswer
  <1>7. ASSUME NEW w \in Workers, NEW s \in Runs, NEW record \in DSC!Found(s),
               NEW elsewhere \in BOOLEAN, NEW known \in BOOLEAN,
               DSC!Visit(w, s, record, elsewhere, known)
        PROVE  UNCHANGED <<consent, answer, undone>>
    BY <1>7 DEF DSC!Visit
  <1>8. ASSUME NEW s \in Runs, DSC!OnRun(s)
        PROVE  DSC!GrantRun(s) \/ UNCHANGED <<consent, answer, undone>>
    BY <1>8 DEF DSC!OnRun, DSC!HandleConsentEnrollment, DSC!CreateMissing, DSC!Enroll,
                DSC!Expire
  <1>9. ASSUME NEW c \in Courses, DSC!SetCovered(c)
        PROVE  UNCHANGED <<consent, answer, undone>>
    BY <1>9 DEF DSC!SetCovered
  <1>10. UNCHANGED DSC!vars => UNCHANGED <<consent, answer, undone>>
    BY DEF DSC!vars
  <1>11. ASSUME NEW w \in Workers, DSC!Settle(w)
         PROVE  (~DSC!Consented(r))' \/ r \in undone'
    <2>1. CASE DSC!SaveAnswer(w)
      BY <2>1, SavedAnswerStands DEF DSC!SaveAnswer, AnswersFit
    <2>2. CASE DSC!EndVisit(w)
      BY <1>1, <2>2 DEF DSC!EndVisit
    <2>3. QED
      BY <1>1, <1>6, <1>11, <2>1, <2>2 DEF DSC!Settle
  <1>12. QED
    BY <1>1, <1>2, <1>3, <1>4, <1>5, <1>7, <1>8, <1>9, <1>10, <1>11 DEF DSC!Next

\* Nobody has answered at the start.
LEMMA ConsentInit == DSC!Init => ConsentInvariant
  BY ConsentTypeInit DEF DSC!Init, ConsentInvariant, AnswersFit, DSC!Serving, DSC!RefusalStands

\* Every step preserves the inductive invariant.
LEMMA ConsentNext ==
    CoursesFit /\ ConsentInvariant /\ [DSC!Next]_(DSC!vars) => ConsentInvariant'
  BY ConsentTypeNext, AnswersFitNext, RefusalNext DEF ConsentInvariant

\* No data of a run is shared whose consent the learner refused last, unless an
\* answer for another run is kept with their course or the run got a record
\* while the refusal was being looked up.
THEOREM RefusalsStand ==
    ASSUME CoursesFit
    PROVE  DSC!Spec => []DSC!RefusalStands
  <1>1. ConsentInvariant => DSC!RefusalStands
    BY DEF ConsentInvariant
  <1>2. QED
    BY <1>1, ConsentInit, ConsentNext, PTL DEF DSC!Spec
=============================================================================
