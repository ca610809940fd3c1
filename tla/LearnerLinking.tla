--------------------------- MODULE LearnerLinking ---------------------------
(***************************************************************************)
(* Who belongs to which enterprise: the EnterpriseCustomerUser rows of     *)
(* each learner, of which at most one is the active one, the learner role  *)
(* that follows them, and the pending rows that wait for an email address  *)
(* to register.                                                            *)
(*                                                                         *)
(* A request is a transaction.  link_user and unlink_user read a row,      *)
(* change the copy and save it whole; a save of an active row inactivates  *)
(* the other linked rows it sees, and all of it becomes visible when the   *)
(* request, which may link or enroll thousands of addresses, commits.  So  *)
(* linking has three steps, unlinking two, and other requests come between *)
(* them.  The other handlers do the same in one call for one learner; each *)
(* is one step here, and their interleavings are those of link_user.  The  *)
(* receivers of a save are part of it.                                     *)
(***************************************************************************)
EXTENDS Naturals, FiniteSets

CONSTANTS
    Learners,   \* email addresses
    Customers,
    Workers,    \* processes that link and unlink learners
    NoRow,      \* no such row
    Idle        \* no request

VARIABLES
    registered,  \* the addresses that have an LMS account
    link,        \* the EnterpriseCustomerUser row of each learner and customer
    bare,        \* rows written by bulk_create that no save has touched yet
    overtaken,   \* rows whose last save missed another link of the learner
    learnerRole, \* enterprise_learner role assignments
    pending,     \* PendingEnterpriseCustomerUser rows
    invited,     \* PendingEnterpriseCustomerAdminUser rows
    admin,       \* EnterpriseCustomerAdmin rows with their role assignment
    request      \* the call each worker is in, with the row it has read

rowVars == <<link, bare, overtaken, learnerRole>>
vars == <<registered, rowVars, pending, invited, admin, request>>
adminVars == <<invited, admin>>

Row   == [linked : BOOLEAN, active : BOOLEAN, relinkable : BOOLEAN]
Pairs == Learners \X Customers

\* known: the address had an account when the call read it; relinkable: the
\* argument of unlink_user; seen: the other linked rows that the save has
\* inactivated, once it is saving.
Request ==
    [op : {"link", "unlink"}, learner : Learners, customer : Customers,
     known : BOOLEAN, copy : Row \union {NoRow}, relinkable : BOOLEAN,
     saving : BOOLEAN, seen : SUBSET Customers]

ASSUME RowAssumption     == NoRow \notin Row
ASSUME RequestAssumption == Idle \notin Request

TypeOK ==
    /\ registered \in SUBSET Learners
    /\ link \in [Learners -> [Customers -> Row \union {NoRow}]]
    /\ bare \in SUBSET Pairs
    /\ overtaken \in SUBSET Pairs
    /\ learnerRole \in SUBSET Pairs
    /\ pending \in SUBSET Pairs
    /\ invited \in SUBSET Pairs
    /\ admin \in SUBSET Pairs
    /\ request \in [Workers -> Request \union {Idle}]

Init ==
    /\ registered \in SUBSET Learners
    /\ link = [l \in Learners |-> [k \in Customers |-> NoRow]]
    /\ bare = {} /\ overtaken = {} /\ learnerRole = {}
    /\ pending = {} /\ invited = {} /\ admin = {}
    /\ request = [w \in Workers |-> Idle]

-----------------------------------------------------------------------------
(* EnterpriseCustomerUser.save and its receivers                           *)

IsLinked(row) == row # NoRow /\ row.linked
IsActive(row) == IsLinked(row) /\ row.active

\* Mutant: the row has no value for a column without default.
NewRowWithoutDefault(a) == [linked |-> TRUE, active |-> a]

\* A new instance takes over the primary key of an unlinked row of the same
\* learner and customer, with the defaults of all its fields.
NewRow(a) == [linked |-> TRUE, active |-> a, relinkable |-> TRUE]

Inactivated(row) == IF IsLinked(row) THEN [row EXCEPT !.active = FALSE] ELSE row

OtherLinks(l, k) == {c \in Customers \ {k} : IsLinked(link[l][c])}

\* Mutant: the other customers are inactivated by an inactive row, too.
SavedAlwaysAlone(rows, k, row, seen) ==
    [c \in Customers |-> IF c = k THEN row ELSE Inactivated(rows[c])]

\* Mutant: the other customers stay active.
SavedBesideOthers(rows, k, row, seen) == [rows EXCEPT ![k] = row]

\* The rows of a learner after the row of customer k was saved.
Saved(rows, k, row, seen) ==
    [c \in Customers |->
        IF c = k THEN row
        ELSE IF row.active /\ c \in seen THEN Inactivated(rows[c]) ELSE rows[c]]

\* Mutant: only a new row gets the role, a revived one does not.
RoleOfNewRow(l, k, row) ==
    IF link[l][k] = NoRow THEN learnerRole \union {<<l, k>>}
    ELSE IF row.linked THEN learnerRole ELSE learnerRole \ {<<l, k>>}

\* assign_or_delete_enterprise_learner_role
RoleAfter(l, k, row) ==
    IF row.linked THEN learnerRole \union {<<l, k>>} ELSE learnerRole \ {<<l, k>>}

\* The commit of a save that inactivated the rows in seen.
Write(l, k, row, seen) ==
    /\ link' = [link EXCEPT ![l] = Saved(@, k, row, seen)]
    /\ learnerRole' = RoleAfter(l, k, row)
    /\ bare' = bare \ {<<l, k>>}
    /\ overtaken' = IF row.active /\ ~(OtherLinks(l, k) \subseteq seen)
                    THEN overtaken \union {<<l, k>>} ELSE overtaken \ {<<l, k>>}

Save(l, k, row) == Write(l, k, row, OtherLinks(l, k))

\* update_or_create of the manager that sees linked rows only
UpdateOrCreate(l, k, a) ==
    Save(l, k, IF IsLinked(link[l][k]) THEN [link[l][k] EXCEPT !.active = a] ELSE NewRow(a))

-----------------------------------------------------------------------------
(* link_user and unlink_user: read, then save                              *)

\* A learner unlinked for good is refused.
BeginLink(w, l, k) ==
    /\ request[w] = Idle
    /\ l \in registered /\ link[l][k] # NoRow =>
           link[l][k].linked \/ link[l][k].relinkable
    /\ request' = [request EXCEPT ![w] =
           [op |-> "link", learner |-> l, customer |-> k, known |-> l \in registered,
            copy |-> link[l][k], relinkable |-> TRUE, saving |-> FALSE, seen |-> {}]]
    /\ UNCHANGED <<registered, rowVars, pending, adminVars>>

BeginUnlink(w, l, k, relinkable) ==
    /\ request[w] = Idle
    /\ IF l \in registered THEN IsLinked(link[l][k]) ELSE <<l, k>> \in pending
    /\ request' = [request EXCEPT ![w] =
           [op |-> "unlink", learner |-> l, customer |-> k, known |-> l \in registered,
            copy |-> link[l][k], relinkable |-> relinkable, saving |-> FALSE, seen |-> {}]]
    /\ UNCHANGED <<registered, rowVars, pending, adminVars>>

Serving(w, op) == request[w] # Idle /\ request[w].op = op

\* Also the end of a request that fails before its save.
EndRequest(w) ==
    /\ request[w] # Idle
    /\ request' = [request EXCEPT ![w] = Idle]

\* The first statement of save for an active row.
InactivateOthers(w) ==
    LET q == request[w] IN
    /\ Serving(w, "link") /\ q.known /\ ~q.saving
    /\ request' = [request EXCEPT ![w] =
           [q EXCEPT !.saving = TRUE, !.seen = OtherLinks(q.learner, q.customer)]]
    /\ UNCHANGED <<registered, rowVars, pending, adminVars>>

LinkExisting(w) ==
    LET q == request[w] IN
    /\ Serving(w, "link") /\ q.saving /\ q.copy # NoRow
    /\ Write(q.learner, q.customer, [q.copy EXCEPT !.linked = TRUE, !.active = TRUE], q.seen)
    /\ EndRequest(w)
    /\ UNCHANGED <<registered, pending, adminVars>>

\* create fails if a linked row has appeared meanwhile (unique_together)
LinkNew(w) ==
    LET q == request[w] IN
    /\ Serving(w, "link") /\ q.saving /\ q.copy = NoRow
    /\ ~IsLinked(link[q.learner][q.customer])
    /\ Write(q.learner, q.customer, NewRow(TRUE), q.seen)
    /\ EndRequest(w)
    /\ UNCHANGED <<registered, pending, adminVars>>

UnlinkExisting(w) ==
    LET q == request[w] IN
    /\ Serving(w, "unlink") /\ q.known
    /\ Save(q.learner, q.customer,
            [q.copy EXCEPT !.linked = FALSE, !.active = FALSE, !.relinkable = q.relinkable])
    /\ EndRequest(w)
    /\ UNCHANGED <<registered, pending, adminVars>>

LinkPending(w) ==
    LET q == request[w] IN
    /\ Serving(w, "link") /\ ~q.known
    /\ pending' = pending \union {<<q.learner, q.customer>>}
    /\ EndRequest(w)
    /\ UNCHANGED <<registered, rowVars, adminVars>>

UnlinkPending(w) ==
    LET q == request[w] IN
    /\ Serving(w, "unlink") /\ ~q.known
    /\ pending' = pending \ {<<q.learner, q.customer>>}
    /\ EndRequest(w)
    /\ UNCHANGED <<registered, rowVars, adminVars>>

FailRequest(w) ==
    /\ EndRequest(w)
    /\ UNCHANGED <<registered, rowVars, pending, adminVars>>

-----------------------------------------------------------------------------
(* One-step handlers                                                       *)

\* The enterprise login pipeline and the enrollment pages: the customer the
\* learner comes through becomes the active one.
Activate(l, k) ==
    /\ l \in registered
    /\ UpdateOrCreate(l, k, TRUE)
    /\ UNCHANGED <<registered, pending, adminVars, request>>

\* The enterprise-learner and link-learners endpoints, which take or compute
\* the value of active.
LinkByApi(l, k, a) ==
    /\ l \in registered
    /\ UpdateOrCreate(l, k, a)
    /\ UNCHANGED <<registered, pending, adminVars, request>>

LinkByApiPending(l, k) ==
    /\ l \notin registered
    /\ pending' = pending \union {<<l, k>>}
    /\ UNCHANGED <<registered, rowVars, adminVars, request>>

\* The invite key endpoint: get_or_create over all rows, then link_user for
\* a row that is unlinked or inactive.
JoinByKey(l, k) ==
    LET row == link[l][k] IN
    /\ l \in registered
    /\ ~IsActive(row)
    /\ row # NoRow => row.linked \/ row.relinkable
    /\ Save(l, k, IF row = NoRow THEN NewRow(TRUE)
                  ELSE [row EXCEPT !.linked = TRUE, !.active = TRUE])
    /\ UNCHANGED <<registered, pending, adminVars, request>>

\* assign_learners of a group: bulk_create skips save and its receivers, and
\* leaves any row that exists as it is.  (For an address without an account
\* it writes the pending row of LinkByApiPending.)
AssignToGroup(l, k) ==
    /\ l \in registered /\ link[l][k] = NoRow
    /\ link' = [link EXCEPT ![l][k] = NewRow(TRUE)]
    /\ bare' = bare \union {<<l, k>>}
    /\ UNCHANGED <<registered, overtaken, learnerRole, pending, adminVars, request>>

\* create_pending_enterprise_admin_user; refused to an admin
InviteAdmin(l, k) ==
    /\ <<l, k>> \notin admin \union invited
    /\ invited' = invited \union {<<l, k>>}
    /\ pending' = pending \union {<<l, k>>}
    /\ UNCHANGED <<registered, rowVars, admin, request>>

\* delete_pending_enterprise_admin_user
DeletePendingAdmin(l, k) ==
    /\ <<l, k>> \in invited
    /\ invited' = invited \ {<<l, k>>}
    /\ pending' = pending \ {<<l, k>>}
    /\ UNCHANGED <<registered, rowVars, admin, request>>

\* The lookup by user_fk misses a bulk created row, and the insert fails.
CreateAdmin(l, k) ==
    /\ l \in registered
    /\ IF IsLinked(link[l][k])
       THEN <<l, k>> \notin bare /\ UNCHANGED rowVars
       ELSE Save(l, k, NewRow(TRUE))
    /\ admin' = admin \union {<<l, k>>}
    /\ UNCHANGED <<registered, pending, invited, request>>

\* The learner is unlinked, too, if no other role is left.
DeleteActiveAdmin(l, k) ==
    /\ <<l, k>> \in admin \ bare /\ IsActive(link[l][k])
    /\ admin' = admin \ {<<l, k>>}
    /\ IF <<l, k>> \in learnerRole
       THEN UNCHANGED rowVars
       ELSE Save(l, k, [link[l][k] EXCEPT !.linked = FALSE, !.active = FALSE])
    /\ UNCHANGED <<registered, pending, invited, request>>

-----------------------------------------------------------------------------
(* handle_user_post_save: the pending rows of an address that registers or *)
(* logs in                                                                 *)

PendingFor(l) == {k \in Customers : <<l, k>> \in pending}

\* Each pending customer is linked and made the active one in turn: the last
\* of them stays so.
Converted(l) ==
    IF PendingFor(l) = {} THEN {link[l]}
    ELSE {[k \in Customers |->
              IF k \notin PendingFor(l) THEN Inactivated(link[l][k])
              ELSE IF IsLinked(link[l][k]) THEN [link[l][k] EXCEPT !.active = (k = last)]
              ELSE NewRow(k = last)] : last \in PendingFor(l)}

\* activate_admin_permissions, which every linked row passes through
Admitted(l, rows) == {k \in Customers : <<l, k>> \in invited /\ IsLinked(rows[k])}

HandleUserPostSave(l) ==
    /\ \E rows \in Converted(l) :
           LET admitted == {l} \X Admitted(l, rows) IN
           /\ link' = [link EXCEPT ![l] = rows]
           /\ admin' = admin \union admitted
           /\ invited' = invited \ admitted
           /\ pending' = pending \ ({l} \X Customers)
    /\ learnerRole' = learnerRole \union ({l} \X PendingFor(l))
    /\ bare' = bare \ ({l} \X PendingFor(l))
    /\ overtaken' = overtaken \ ({l} \X PendingFor(l))
    /\ UNCHANGED request

Register(l) ==
    /\ l \notin registered
    /\ registered' = registered \union {l}
    /\ HandleUserPostSave(l)

Login(l) ==
    /\ l \in registered
    /\ HandleUserPostSave(l)
    /\ UNCHANGED registered

-----------------------------------------------------------------------------
Serve(w) ==
    \/ \E l \in Learners, k \in Customers : BeginLink(w, l, k)
    \/ \E l \in Learners, k \in Customers, r \in BOOLEAN : BeginUnlink(w, l, k, r)
    \/ InactivateOthers(w) \/ LinkExisting(w) \/ LinkNew(w) \/ LinkPending(w)
    \/ UnlinkExisting(w) \/ UnlinkPending(w)
    \/ FailRequest(w)

Handler(l, k) ==
    \/ Activate(l, k)
    \/ \E a \in BOOLEAN : LinkByApi(l, k, a)
    \/ LinkByApiPending(l, k)
    \/ JoinByKey(l, k)
    \/ AssignToGroup(l, k)
    \/ InviteAdmin(l, k)
    \/ DeletePendingAdmin(l, k)
    \/ CreateAdmin(l, k)
    \/ DeleteActiveAdmin(l, k)

Next ==
    \/ \E w \in Workers : Serve(w)
    \/ \E l \in Learners, k \in Customers : Handler(l, k)
    \/ \E l \in Learners : Register(l) \/ Login(l)

Spec == Init /\ [][Next]_vars

-----------------------------------------------------------------------------
(* Properties                                                              *)

\* A learner has at most one active linked row: only a row that bulk_create
\* wrote, or whose save a new link of the learner overtook, stands beside
\* another one, until one of them is saved undisturbed.  So the enrollment
\* receiver, which takes the first active row it finds, attributes a course
\* enrollment to the right customer.
AtMostOneActive ==
    \A l \in Learners : \A j, k \in Customers :
        IsActive(link[l][j]) /\ IsActive(link[l][k]) /\ j # k =>
            {<<l, j>>, <<l, k>>} \cap (bare \union overtaken) # {}

\* The learner role is assigned exactly for the linked rows, whichever stale
\* copies are saved, apart from bulk created rows.
RoleMatchesLink ==
    \A l \in Learners, k \in Customers :
        <<l, k>> \notin bare => (<<l, k>> \in learnerRole <=> IsLinked(link[l][k]))

\* A row stops being active because another one of the learner becomes so, or
\* by a call for that row alone: no call about one customer leaves the learner
\* without the active customer another call chose.
ActiveUntilReplaced ==
    [][\A l \in Learners, k \in Customers :
          IsActive(link[l][k]) /\ ~IsActive(link'[l][k]) =>
              \A j \in Customers \ {k} :
                  link'[l][j] # link[l][j] =>
                      \E i \in Customers \ {k} : IsActive(link'[l][i])]_vars

\* The comment of the enrollment receiver: there should be at most one
\* EnterpriseCustomerUser record of a user with active=True.
SingularActive ==
    \A l \in Learners : Cardinality({k \in Customers : IsActive(link[l][k])}) <= 1
=============================================================================
