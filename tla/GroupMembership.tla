--------------------------- MODULE GroupMembership ---------------------------
(***************************************************************************)
(* The groups of one customer: membership rows that belong to a learner of *)
(* the customer or, until the address registers, to its pending row, which *)
(* also carries the enrollments that wait for the registration.            *)
(*                                                                         *)
(* assign_learners reads which addresses have an account and writes the    *)
(* rows when its transaction commits, so a registration can come between.  *)
(* The command that removes expired memberships loads them all and then    *)
(* deletes them one by one, each in a transaction of its own.  The other   *)
(* handlers are one step each.  Foreign keys to a pending row are set to   *)
(* null when it is deleted: the membership becomes an orphan.              *)
(***************************************************************************)
EXTENDS FiniteSets

CONSTANTS
    Users,
    Emails,
    Groups,
    BudgetGroups,  \* the groups that invite unknown addresses; the others are flex
    Courses,
    Workers,       \* processes that assign learners to groups
    NoEmail,       \* of a user without account
    NoRow,
    Idle

ASSUME HolderAssumption == Users \intersect Emails = {}

VARIABLES
    account,   \* the address each user has registered with
    link,      \* the EnterpriseCustomerUser row of each user
    pending,   \* addresses with a PendingEnterpriseCustomerUser row
    wish,      \* PendingEnrollment rows of each pending row
    member,    \* the membership row of each group and user or pending row
    orphan,    \* memberships of neither, and whether they are removed
    todo,      \* the enrollments a user's registration has yet to make
    request,   \* the assignment each worker is in
    sweep,     \* the expired memberships the running command has still to remove
    late       \* pending rows a request wrote that had missed the registration

learnerVars == <<account, link>>
vars == <<learnerVars, pending, wish, member, orphan, todo, request, sweep, late>>

Holders == Users \union Emails

Statuses == {"pending", "accepted", "removed", "error"}

\* error: an email or internal API error; old: created 90 days ago or earlier;
\* forced, a history: a request has set a status that a pending row does not have
Membership == [status : Statuses, removed : BOOLEAN, old : BOOLEAN, forced : BOOLEAN]

ASSUME RowAssumption == NoRow \notin Membership

Request == [group : Groups, emails : SUBSET Emails, known : SUBSET Emails, users : SUBSET Users]

TypeOK ==
    /\ account \in [Users -> Emails \union {NoEmail}]
    /\ link \in [Users -> {"none", "linked", "unlinked"}]
    /\ pending \in SUBSET Emails
    /\ wish \in [Emails -> SUBSET Courses]
    /\ member \in [Groups -> [Holders -> Membership \union {NoRow}]]
    /\ orphan \in [Groups -> SUBSET BOOLEAN]
    /\ todo \in [Users -> SUBSET Courses]
    /\ request \in [Workers -> Request \union {Idle}]
    /\ sweep \in SUBSET (Groups \X Emails)
    /\ late \in SUBSET Emails

Init ==
    /\ account = [u \in Users |-> NoEmail]
    /\ link = [u \in Users |-> "none"]
    /\ pending = {}
    /\ wish = [e \in Emails |-> {}]
    /\ member = [g \in Groups |-> [h \in Holders |-> NoRow]]
    /\ orphan = [g \in Groups |-> {}]
    /\ todo = [u \in Users |-> {}]
    /\ request = [w \in Workers |-> Idle]
    /\ sweep = {}
    /\ late = {}

Registered(e) == \E u \in Users : account[u] = e
IsListed(row) == row # NoRow /\ ~row.removed
IsRemoved(row) == row # NoRow /\ row.removed

-----------------------------------------------------------------------------
(* assign_learners and remove_learners                                     *)

\* Mutant: the date of creation is missing.
NewMemberUndated(status) == [status |-> status, removed |-> FALSE, forced |-> FALSE]

NewMember(status) == [status |-> status, removed |-> FALSE, old |-> FALSE, forced |-> FALSE]

\* Revived rows keep their date of creation.
Revived(row, status) == [row EXCEPT !.status = status, !.removed = FALSE, !.forced = FALSE]

BeginAssign(w, g, emails) ==
    /\ request[w] = Idle /\ emails # {}
    /\ request' = [request EXCEPT ![w] =
           [group |-> g, emails |-> emails,
            known |-> emails \intersect {account[u] : u \in Users},
            users |-> {u \in Users : account[u] \in emails}]]
    /\ UNCHANGED <<learnerVars, pending, wish, member, orphan, todo, sweep, late>>

\* Mutant: the known addresses, written with other capitals, count as unknown.
UnknownByCase(q) == q.emails

\* The addresses of a request that had no account when it read them.
Unknown(q) == q.emails \ q.known

\* bulk_create leaves an unlinked row of the learner as it is.
LinkedBy(q) == [u \in Users |-> IF u \in q.users /\ link[u] = "none" THEN "linked" ELSE link[u]]

\* The row of a learner of the request in its group; a removed one is revived
\* whether or not the learner is still linked.
AssignedUser(q, u, row) ==
    IF row = NoRow
    THEN IF LinkedBy(q)[u] = "linked" THEN NewMember("accepted") ELSE NoRow
    ELSE IF row.removed THEN Revived(row, "accepted") ELSE row

\* Only budget groups invite an address that is not a member yet.
AssignedEmail(q, e, row) ==
    IF row = NoRow
    THEN IF q.group \in BudgetGroups THEN NewMember("pending") ELSE NoRow
    ELSE IF row.removed THEN Revived(row, "pending") ELSE row

AssignLearners(w) ==
    LET q == request[w]
        invited == IF q.group \in BudgetGroups THEN Unknown(q) ELSE {}
    IN
    /\ q # Idle
    /\ request' = [request EXCEPT ![w] = Idle]
    /\ link' = LinkedBy(q)
    /\ member' = [member EXCEPT ![q.group] = [h \in Holders |->
           IF h \in q.users THEN AssignedUser(q, h, @[h])
           ELSE IF h \in Unknown(q) THEN AssignedEmail(q, h, @[h])
           ELSE @[h]]]
    /\ pending' = pending \union invited
    /\ late' = late \union {e \in invited \ q.known : Registered(e)}
    /\ UNCHANGED <<account, wish, orphan, todo, sweep>>

\* An error of any call rolls the transaction back.
FailAssign(w) ==
    /\ request[w] # Idle
    /\ request' = [request EXCEPT ![w] = Idle]
    /\ UNCHANGED <<learnerVars, pending, wish, member, orphan, todo, sweep, late>>

SoftDeleted(row) ==
    IF IsListed(row)
    THEN [row EXCEPT !.status = "removed", !.removed = TRUE, !.forced = FALSE] ELSE row

\* remove_group_membership_records for some addresses
RemoveLearners(g, emails) ==
    /\ emails # {}
    /\ member' = [member EXCEPT ![g] = [h \in Holders |->
           IF h \in emails \/ (h \in Users /\ account[h] \in emails)
           THEN SoftDeleted(@[h]) ELSE @[h]]]
    /\ UNCHANGED <<learnerVars, pending, wish, orphan, todo, request, sweep, late>>

\* ... and for the whole group, the orphans included
RemoveAll(g) ==
    /\ member' = [member EXCEPT ![g] = [h \in Holders |-> SoftDeleted(@[h])]]
    /\ orphan' = [orphan EXCEPT ![g] = IF @ = {} THEN {} ELSE {TRUE}]
    /\ UNCHANGED <<learnerVars, pending, wish, todo, request, sweep, late>>

Marked(row, status) ==
    [row EXCEPT !.status = status, !.forced = status \notin {"pending", "error"}]

\* update_pending_learner_status writes whatever status the request has.
UpdatePendingLearnerStatus(g, e, status) ==
    /\ IsListed(member[g][e])
    /\ member' = [member EXCEPT ![g][e] = Marked(@, status)]
    /\ UNCHANGED <<learnerVars, pending, wish, orphan, todo, request, sweep, late>>

\* The mail of an invitation or a removal fails, some time after the request
\* that queued it: the rows it was for are marked, removed or not by now.
NotificationFails(g, holders) ==
    /\ holders # {} /\ \A h \in holders : member[g][h] # NoRow
    /\ member' = [member EXCEPT ![g] = [h \in Holders |->
           IF h \in holders THEN Marked(@[h], "error") ELSE @[h]]]
    /\ UNCHANGED <<learnerVars, pending, wish, orphan, todo, request, sweep, late>>

-----------------------------------------------------------------------------
(* Pending rows and pending enrollments                                    *)

\* link_user, or an admin invite, which does not ask for an account
LinkPending(e) ==
    /\ pending' = pending \union {e}
    /\ UNCHANGED <<learnerVars, wish, member, orphan, todo, request, sweep, late>>

\* enroll_user_pending_registration
EnrollPendingRegistration(e, c) ==
    /\ ~Registered(e)
    /\ pending' = pending \union {e}
    /\ wish' = [wish EXCEPT ![e] = @ \union {c}]
    /\ UNCHANGED <<learnerVars, member, orphan, todo, request, sweep, late>>

ClearPendingRegistration(e, c) ==
    /\ c \in wish[e]
    /\ wish' = [wish EXCEPT ![e] = @ \ {c}]
    /\ UNCHANGED <<learnerVars, pending, member, orphan, todo, request, sweep, late>>

\* The rows that become orphans when the pending row of e goes while the
\* groups in kept have already let go of it.
OrphanedBy(e, kept) ==
    [g \in Groups |-> IF g \in kept \/ member[g][e] = NoRow THEN orphan[g]
                      ELSE orphan[g] \union {member[g][e].removed}]

\* PendingEnterpriseCustomerUser.delete: the pending enrollments go with it
DeletePendingRow(e) ==
    /\ pending' = pending \ {e}
    /\ wish' = [wish EXCEPT ![e] = {}]
    /\ late' = late \ {e}

\* unlink_user, or the end of an admin invite
DeletePending(e) ==
    /\ e \in pending
    /\ DeletePendingRow(e)
    /\ orphan' = OrphanedBy(e, {})
    /\ member' = [g \in Groups |-> [member[g] EXCEPT ![e] = NoRow]]
    /\ UNCHANGED <<learnerVars, todo, request, sweep>>

Unlink(u) ==
    /\ link[u] = "linked"
    /\ link' = [link EXCEPT ![u] = "unlinked"]
    /\ UNCHANGED <<account, pending, wish, member, orphan, todo, request, sweep, late>>

-----------------------------------------------------------------------------
(* handle_user_post_save: a user registers, logs in or changes address     *)

Memberships(e) == {g \in Groups : IsListed(member[g][e])}

\* unique_together (group, enterprise_customer_user)
Collides(u, e) == \E g \in Memberships(e) : member[g][u] # NoRow

\* Mutant: the pending row is deleted before its memberships are handed on.
DeletedFirst(u, e) ==
    /\ orphan' = OrphanedBy(e, {})
    /\ member' = [g \in Groups |-> [member[g] EXCEPT ![e] = NoRow]]

\* Mutant: soft-deleted memberships are handed on, too.
FulfilAllMemberships(u, e) ==
    /\ orphan' = orphan
    /\ member' = [g \in Groups |->
           IF member[g][e] = NoRow THEN member[g]
           ELSE [member[g] EXCEPT ![e] = NoRow, ![u] = NewMember("accepted")]]

\* Mutant: the status is not updated.
FulfilWithoutStatus(u, e) ==
    /\ orphan' = OrphanedBy(e, Memberships(e))
    /\ member' = [g \in Groups |->
           IF g \in Memberships(e)
           THEN [member[g] EXCEPT ![e] = NoRow, ![u] = member[g][e]]
           ELSE [member[g] EXCEPT ![e] = NoRow]]

\* fulfill_pending_group_memberships sees the listed rows only; the removed
\* ones are orphaned by the deletion of the pending row.
FulfilPendingGroupMemberships(u, e) ==
    /\ orphan' = OrphanedBy(e, Memberships(e))
    /\ member' = [g \in Groups |->
           IF g \in Memberships(e)
           THEN [member[g] EXCEPT ![e] = NoRow, ![u] = Revived(member[g][e], "accepted")]
           ELSE [member[g] EXCEPT ![e] = NoRow]]

\* A collision is an IntegrityError in the receiver: the save of the user
\* fails with it.
HandleUserPostSave(u, e) ==
    IF e \in pending
    THEN /\ ~Collides(u, e)
         /\ link' = [link EXCEPT ![u] = "linked"]
         /\ todo' = [todo EXCEPT ![u] = @ \union wish[e]]
         /\ FulfilPendingGroupMemberships(u, e)
         /\ DeletePendingRow(e)
    ELSE UNCHANGED <<link, pending, wish, member, orphan, todo, late>>

Register(u, e) ==
    /\ account[u] = NoEmail /\ ~Registered(e)
    /\ account' = [account EXCEPT ![u] = e]
    /\ HandleUserPostSave(u, e)
    /\ UNCHANGED <<request, sweep>>

Login(u) ==
    /\ account[u] # NoEmail
    /\ HandleUserPostSave(u, account[u])
    /\ UNCHANGED <<account, request, sweep>>

ChangeEmail(u, e) ==
    /\ account[u] # NoEmail /\ ~Registered(e)
    /\ account' = [account EXCEPT ![u] = e]
    /\ HandleUserPostSave(u, e)
    /\ UNCHANGED <<request, sweep>>

\* _complete_user_enrollment, after the commit: an enrollment is made, or the
\* error the LMS answers with is logged, and the loop goes on.
CompleteUserEnrollment(u, c) ==
    /\ c \in todo[u]
    /\ todo' = [todo EXCEPT ![u] = @ \ {c}]
    /\ UNCHANGED <<learnerVars, pending, wish, member, orphan, request, sweep, late>>

\* Any other error, or a crash, ends the loop.
EnrollmentRaises(u) ==
    /\ todo[u] # {}
    /\ todo' = [todo EXCEPT ![u] = {}]
    /\ UNCHANGED <<learnerVars, pending, wish, member, orphan, request, sweep, late>>

-----------------------------------------------------------------------------
(* remove_expired_pending_group_memberships                                *)

\* 90 days pass
Age ==
    /\ sweep = {}
    /\ member' = [g \in Groups |-> [h \in Holders |->
           IF h \in Emails /\ member[g][h] # NoRow
           THEN [member[g][h] EXCEPT !.old = TRUE] ELSE member[g][h]]]
    /\ member' # member
    /\ UNCHANGED <<learnerVars, pending, wish, orphan, todo, request, sweep, late>>

IsExpired(g, e) == member[g][e] # NoRow /\ member[g][e].old

BeginSweep ==
    /\ sweep = {}
    /\ sweep' = {x \in Groups \X Emails : IsExpired(x[1], x[2])}
    /\ sweep' # {}
    /\ UNCHANGED <<learnerVars, pending, wish, member, orphan, todo, request, late>>

SweepOne(g, e) ==
    /\ <<g, e>> \in sweep /\ IsExpired(g, e)
    /\ sweep' = sweep \ {<<g, e>>}
    /\ DeletePendingRow(e)
    /\ orphan' = OrphanedBy(e, {g})
    /\ member' = [f \in Groups |-> [member[f] EXCEPT ![e] = NoRow]]
    /\ UNCHANGED <<learnerVars, todo, request>>

\* The pending row of a membership is gone: the command stops with
\* DoesNotExist.
SweepRaises(g, e) ==
    /\ <<g, e>> \in sweep /\ ~IsExpired(g, e)
    /\ sweep' = {}
    /\ UNCHANGED <<learnerVars, pending, wish, member, orphan, todo, request, late>>

-----------------------------------------------------------------------------
Assigning(w) ==
    \/ \E g \in Groups, emails \in SUBSET Emails : BeginAssign(w, g, emails)
    \/ AssignLearners(w)
    \/ FailAssign(w)

OnGroup(g) ==
    \/ \E emails \in SUBSET Emails : RemoveLearners(g, emails)
    \/ RemoveAll(g)
    \/ \E e \in Emails, s \in Statuses : UpdatePendingLearnerStatus(g, e, s)
    \/ \E holders \in SUBSET Holders : NotificationFails(g, holders)

OnAddress(e) ==
    \/ LinkPending(e)
    \/ \E c \in Courses : EnrollPendingRegistration(e, c) \/ ClearPendingRegistration(e, c)
    \/ DeletePending(e)

OnUser(u) ==
    \/ Unlink(u)
    \/ \E e \in Emails : Register(u, e) \/ ChangeEmail(u, e)
    \/ Login(u)
    \/ \E c \in Courses : CompleteUserEnrollment(u, c)
    \/ EnrollmentRaises(u)

Command ==
    \/ Age
    \/ BeginSweep
    \/ \E g \in Groups, e \in Emails : SweepOne(g, e) \/ SweepRaises(g, e)

Next ==
    \/ \E w \in Workers : Assigning(w)
    \/ \E g \in Groups : OnGroup(g)
    \/ \E e \in Emails : OnAddress(e)
    \/ \E u \in Users : OnUser(u)
    \/ Command

Spec == Init /\ [][Next]_vars

-----------------------------------------------------------------------------
(* Properties                                                              *)

\* The members counted as accepted are learners with an account, those shown
\* as pending are not, and a removed row is never shown as either, whichever
\* way rows were revived, handed on and marked by a late notification.  Only the
\* row of a pending address shows otherwise, while the status is one that a
\* request has set, which no removal, revival or registration passes on.
StatusFitsMember ==
    \A g \in Groups : \A h \in Holders :
        /\ IsListed(member[g][h]) =>
               \/ member[g][h].status
                     \in {IF h \in Users THEN "accepted" ELSE "pending", "error"}
               \/ h \in Emails /\ member[g][h].forced
        /\ IsRemoved(member[g][h]) => member[g][h].status \in {"removed", "error"}

\* A user whose login would fail, because the pending membership of the
\* address collides with one the user has: only a request that had missed the
\* registration leaves one behind.
LoginBlockedByLateRow ==
    \A u \in Users :
        account[u] \in pending /\ Collides(u, account[u]) => account[u] \in late

\* A user who registers, or takes over an address, gets every listed
\* membership and every pending enrollment of the address, and nothing of it
\* is left pending.
RegistrationDeliversAll ==
    [][\A u \in Users, e \in Emails :
          account[u] # e /\ account'[u] = e =>
              /\ \A g \in Memberships(e) : IsListed(member'[g][u])
              /\ wish[e] \subseteq todo'[u]
              /\ e \notin pending' /\ \A g \in Groups : member'[g][e] = NoRow]_vars

\* A learner comes (back) into a group by a request that names the address or
\* through a membership that was listed for it: what an admin removed, a
\* registration, a login or a change of address does not bring back.
RemovedStaysOut ==
    [][\A g \in Groups, u \in Users :
          IsListed(member'[g][u]) /\ ~IsListed(member[g][u]) =>
              \/ \E e \in Emails : account'[u] = e /\ IsListed(member[g][e])
              \/ \E w \in Workers :
                     /\ request[w] # Idle /\ request'[w] = Idle
                     /\ request[w].group = g /\ u \in request[w].users]_vars

\* The remove_expired_pending_group_memberships command ensures that pending
\* memberships are removed after 90 days: it leaves none behind that belongs
\* to nobody.
ExpiredAreRemoved ==
    [][sweep # {} /\ sweep' # sweep => orphan' = orphan]_vars
=============================================================================
