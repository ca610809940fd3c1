------------------------ MODULE GroupMembershipProofs ------------------------
(***************************************************************************)
(* Proofs for GroupMembership.  RowStep lists what a step can do to one    *)
(* membership row; the properties of the rows are checked against the list.*)
(***************************************************************************)
EXTENDS GroupMembership, TLAPS

\* Only a pending row has memberships and pending enrollments.
PendingHasAll ==
    \A e \in Emails \ pending : wish[e] = {} /\ \A g \in Groups : member[g][e] = NoRow

\* The address of an account has no membership row of its own, unless a
\* request had missed the registration.
RegisteredHasNone ==
    \A u \in Users :
        account[u] \in Emails \ late => \A g \in Groups : member[g][account[u]] = NoRow

\* The inductive invariant.
IInv == TypeOK /\ StatusFitsMember /\ PendingHasAll /\ RegisteredHasNone

-----------------------------------------------------------------------------
(* Types                                                                   *)

Maybe == Membership \union {NoRow}
Rows == [Holders -> Maybe]

\* What a request in progress holds.
LEMMA RequestFacts ==
    ASSUME TypeOK, NEW w \in Workers, request[w] # Idle
    PROVE  /\ request[w] \in Request
           /\ request[w].group \in Groups
           /\ request[w].users \subseteq Users
           /\ request[w].emails \subseteq Emails
           /\ Unknown(request[w]) \subseteq Emails
  <1>1. request[w] \in Request
    BY DEF TypeOK
  <1>2. QED
    BY <1>1 DEF Request, Unknown

\* The operators on rows return rows.
LEMMA RowFacts ==
    ASSUME NEW row \in Membership
    PROVE  /\ [row EXCEPT !.old = TRUE] \in Membership
           /\ [row EXCEPT !.old = TRUE].status = row.status
           /\ [row EXCEPT !.old = TRUE].removed = row.removed
           /\ [row EXCEPT !.old = TRUE].forced = row.forced
           /\ [row EXCEPT !.status = "removed", !.removed = TRUE, !.forced = FALSE] \in Membership
           /\ [row EXCEPT !.status = "removed", !.removed = TRUE, !.forced = FALSE].status = "removed"
           /\ [row EXCEPT !.status = "removed", !.removed = TRUE, !.forced = FALSE].removed
  BY DEF Membership, Statuses

LEMMA MarkedFacts ==
    ASSUME NEW row \in Membership, NEW s \in Statuses
    PROVE  /\ Marked(row, s) \in Membership /\ Marked(row, s) # NoRow
           /\ Marked(row, s).status = s
           /\ Marked(row, s).removed = row.removed
           /\ Marked(row, s).forced <=> s \notin {"pending", "error"}
  <1> DEFINE b == s \notin {"pending", "error"}
             new == [row EXCEPT !.status = s, !.forced = b]
  <1>1. b \in BOOLEAN
    OBVIOUS
  <1>2. Marked(row, s) = new
    BY DEF Marked
  <1> HIDE DEF b
  <1>3. /\ new \in Membership /\ new.status = s /\ new.removed = row.removed
        /\ new.forced = b
    BY <1>1 DEF Membership, Statuses
  <1> HIDE DEF new
  <1>4. QED
    BY <1>2, <1>3, RowAssumption DEF b

LEMMA RevivedFacts ==
    ASSUME NEW row \in Membership, NEW s \in Statuses
    PROVE  /\ Revived(row, s) \in Membership /\ Revived(row, s) # NoRow
           /\ Revived(row, s).status = s /\ ~Revived(row, s).removed
  <1> DEFINE new == [row EXCEPT !.status = s, !.removed = FALSE, !.forced = FALSE]
  <1>1. new \in Membership /\ new.status = s /\ ~new.removed
    BY DEF Membership, Statuses
  <1>2. Revived(row, s) = new
    BY DEF Revived
  <1> HIDE DEF new
  <1>3. QED
    BY <1>1, <1>2, RowAssumption

\* A new row is a row.
LEMMA NewFacts ==
    ASSUME NEW s \in Statuses
    PROVE  /\ NewMember(s) \in Membership /\ NewMember(s) # NoRow
           /\ NewMember(s).status = s /\ ~NewMember(s).removed
  <1>1. NewMember(s) \in Membership
    BY DEF NewMember, Membership, Statuses
  <1>2. QED
    BY <1>1, RowAssumption DEF NewMember

\* A row that is removed is a row, and one that was there stays.
LEMMA SoftFacts ==
    ASSUME NEW row \in Maybe
    PROVE  /\ SoftDeleted(row) \in Maybe
           /\ row = NoRow <=> SoftDeleted(row) = NoRow
           /\ ~IsListed(SoftDeleted(row))
           /\ IsRemoved(SoftDeleted(row)) => IsListed(row) \/ SoftDeleted(row) = row
           /\ IsListed(row) => SoftDeleted(row).status = "removed"
  <1> DEFINE gone == [row EXCEPT !.status = "removed", !.removed = TRUE, !.forced = FALSE]
  <1>1. CASE row = NoRow
    BY <1>1 DEF SoftDeleted, IsListed, IsRemoved, Maybe
  <1>2. CASE row \in Membership /\ row.removed
    BY <1>2, RowAssumption DEF SoftDeleted, IsListed, IsRemoved, Maybe
  <1>3. CASE row \in Membership /\ ~row.removed
    <2>1. row # NoRow
      BY <1>3, RowAssumption
    <2>2. gone \in Membership /\ gone.status = "removed" /\ gone.removed
      BY <1>3, RowFacts
    <2>3. SoftDeleted(row) = gone
      BY <1>3, <2>1 DEF SoftDeleted, IsListed
    <2> HIDE DEF gone
    <2>4. gone # NoRow
      BY <2>2, RowAssumption
    <2>5. QED
      BY <1>3, <2>1, <2>2, <2>3, <2>4 DEF IsListed, IsRemoved, Maybe
  <1>4. QED
    BY <1>1, <1>2, <1>3 DEF Maybe

\* What a request makes of a row.
LEMMA AssignedFacts ==
    ASSUME NEW q, NEW h, NEW row \in Maybe
    PROVE  /\ AssignedUser(q, h, row) \in Maybe
           /\ \/ AssignedUser(q, h, row) = row /\ ~IsRemoved(row)
              \/ /\ AssignedUser(q, h, row) # NoRow
                 /\ AssignedUser(q, h, row).status = "accepted"
                 /\ ~AssignedUser(q, h, row).removed
           /\ AssignedEmail(q, h, row) \in Maybe
           /\ \/ AssignedEmail(q, h, row) = row /\ ~IsRemoved(row)
              \/ /\ AssignedEmail(q, h, row) # NoRow
                 /\ AssignedEmail(q, h, row).status = "pending"
                 /\ ~AssignedEmail(q, h, row).removed
                 /\ row # NoRow \/ q.group \in BudgetGroups
  <1>1. CASE row = NoRow
    BY <1>1, NewFacts DEF Statuses, AssignedUser, AssignedEmail, IsRemoved, Maybe
  <1>2. CASE row \in Membership /\ row.removed
    <2>1. row # NoRow
      BY <1>2, RowAssumption
    <2>2. ASSUME NEW s \in {"accepted", "pending"}
          PROVE  /\ Revived(row, s) \in Membership /\ Revived(row, s) # NoRow
                 /\ Revived(row, s).status = s /\ ~Revived(row, s).removed
      BY <1>2, RevivedFacts DEF Statuses
    <2>3. QED
      BY <1>2, <2>1, <2>2 DEF AssignedUser, AssignedEmail, Maybe
  <1>3. CASE row \in Membership /\ ~row.removed
    BY <1>3, RowAssumption DEF AssignedUser, AssignedEmail, IsRemoved, Maybe
  <1>4. QED
    BY <1>1, <1>2, <1>3 DEF Maybe

\* The types are right initially.
LEMMA TypeInit == Init => TypeOK
  BY DEF Init, TypeOK

\* Rows that become orphans are removed or not.
LEMMA OrphanType ==
    ASSUME TypeOK, NEW e \in Emails, NEW kept
    PROVE  OrphanedBy(e, kept) \in [Groups -> SUBSET BOOLEAN]
  <1>1. ASSUME NEW g \in Groups, member[g][e] # NoRow
        PROVE  member[g][e].removed \in BOOLEAN
    BY <1>1 DEF TypeOK, Holders, Membership
  <1>2. QED
    BY <1>1 DEF OrphanedBy, TypeOK

\* A deletion of a pending row keeps the types.
LEMMA DeleteType ==
    ASSUME TypeOK, NEW e \in Emails, DeletePendingRow(e)
    PROVE  /\ pending' \in SUBSET Emails /\ late' \in SUBSET Emails
           /\ wish' \in [Emails -> SUBSET Courses]
  BY DEF DeletePendingRow, TypeOK

\* The step deletes the pending row of e, with all that belongs to it ...
Deletes(e) == e \notin pending' /\ wish'[e] = {} /\ \A g \in Groups : member'[g][e] = NoRow

\* ... or keeps it, and lets enrollments wait for a pending row only.
Keeps(e) == /\ e \in pending => e \in pending'
            /\ e \in late => e \in late'
            /\ e \in pending' \/ wish'[e] \subseteq wish[e]

\* A registration, a login or a change of address moves the listed memberships
\* of the address to the user, and deletes the rest with the pending row.
LEMMA HandleFacts ==
    ASSUME TypeOK, NEW u \in Users, NEW e \in Emails, HandleUserPostSave(u, e)
    PROVE  /\ link' \in [Users -> {"none", "linked", "unlinked"}]
           /\ pending' \in SUBSET Emails /\ late' \in SUBSET Emails
           /\ wish' \in [Emails -> SUBSET Courses] /\ todo' \in [Users -> SUBSET Courses]
           /\ member' \in [Groups -> Rows] /\ orphan' \in [Groups -> SUBSET BOOLEAN]
           /\ \A g \in Groups : \A h \in Holders :
                 \/ member'[g][h] = member[g][h]
                 \/ /\ h = e /\ e \in pending /\ e \notin pending'
                    /\ member'[g][h] = NoRow
                 \/ /\ h = u /\ e \in pending /\ IsListed(member[g][e])
                    /\ member'[g][h] = Revived(member[g][e], "accepted")
           /\ e \in pending =>
                 /\ Deletes(e) /\ wish[e] \subseteq todo'[u]
                 /\ \A g \in Memberships(e) :
                       member'[g][u] = Revived(member[g][e], "accepted")
           /\ \A d \in Emails \ {e} : Keeps(d)
           /\ e \notin pending => Keeps(e)
  <1>1. CASE e \notin pending
    BY <1>1 DEF HandleUserPostSave, TypeOK, Rows, Maybe, Keeps
  <1>2. CASE e \in pending
    <2>0. u \in Holders /\ e \in Holders /\ u # e
      BY HolderAssumption DEF Holders
    <2>1. /\ link' = [link EXCEPT ![u] = "linked"]
          /\ todo' = [todo EXCEPT ![u] = @ \union wish[e]]
          /\ FulfilPendingGroupMemberships(u, e)
          /\ DeletePendingRow(e)
      BY <1>2 DEF HandleUserPostSave
    <2>2. /\ link' \in [Users -> {"none", "linked", "unlinked"}]
          /\ todo' \in [Users -> SUBSET Courses]
      BY <2>1 DEF TypeOK
    <2>3. orphan' \in [Groups -> SUBSET BOOLEAN]
      BY <2>1, OrphanType DEF FulfilPendingGroupMemberships
    <2>4. e \notin pending'
      BY <2>1 DEF DeletePendingRow
    <2>5. ASSUME NEW g \in Groups
          PROVE  /\ member'[g] \in Rows
                 /\ \A h \in Holders :
                       \/ member'[g][h] = member[g][h]
                       \/ h = e /\ member'[g][h] = NoRow
                       \/ /\ h = u /\ IsListed(member[g][e])
                          /\ member'[g][h] = Revived(member[g][e], "accepted")
                 /\ member'[g][e] = NoRow
                 /\ g \in Memberships(e) =>
                       member'[g][u] = Revived(member[g][e], "accepted")
      <3>1. member[g] \in Rows
        BY DEF TypeOK, Rows, Maybe
      <3>2. CASE g \in Memberships(e)
        <4> DEFINE new == Revived(member[g][e], "accepted")
        <4>1. IsListed(member[g][e])
          BY <3>2 DEF Memberships
        <4>2. new \in Maybe
          BY <2>0, <3>1, <4>1, RevivedFacts DEF IsListed, Rows, Maybe, Statuses
        <4>3. member'[g] = [member[g] EXCEPT ![e] = NoRow, ![u] = new]
          BY <2>1, <3>2 DEF FulfilPendingGroupMemberships
        <4>4. NoRow \in Maybe
          BY DEF Maybe
        <4> HIDE DEF new
        <4>5. /\ member'[g] \in Rows
              /\ \A h \in Holders :
                    \/ member'[g][h] = member[g][h]
                    \/ h = e /\ member'[g][h] = NoRow
                    \/ h = u /\ member'[g][h] = new
              /\ member'[g][e] = NoRow /\ member'[g][u] = new
          BY <2>0, <3>1, <4>2, <4>3, <4>4 DEF Rows
        <4>6. QED
          BY <4>1, <4>5 DEF new
      <3>3. CASE g \notin Memberships(e)
        <4>1. member'[g] = [member[g] EXCEPT ![e] = NoRow]
          BY <2>1, <3>3 DEF FulfilPendingGroupMemberships
        <4>2. QED
          BY <2>0, <3>1, <3>3, <4>1 DEF Rows, Maybe
      <3>4. QED
        BY <3>2, <3>3
    <2>6. member' = [g \in Groups |-> member'[g]]
      BY <2>1 DEF FulfilPendingGroupMemberships
    <2>7. member' \in [Groups -> Rows]
      BY <2>5, <2>6
    <2>8. Deletes(e) /\ wish[e] \subseteq todo'[u]
      BY <2>1, <2>4, <2>5 DEF Deletes, DeletePendingRow, TypeOK
    <2>9. \A d \in Emails \ {e} : Keeps(d)
      BY <2>1 DEF DeletePendingRow, Keeps, TypeOK
    <2>10. \A g \in Memberships(e) : member'[g][u] = Revived(member[g][e], "accepted")
      BY <2>5 DEF Memberships
    <2>11. QED
      BY <1>2, <2>1, <2>2, <2>3, <2>4, <2>5, <2>7, <2>8, <2>9, <2>10, DeleteType
  <1>3. QED
    BY <1>1, <1>2

\* A deletion of a pending row, by itself or by the command, takes the
\* memberships with it.
LEMMA DeleteFacts ==
    ASSUME TypeOK, NEW e \in Emails, DeletePendingRow(e),
           member' = [g \in Groups |-> [member[g] EXCEPT ![e] = NoRow]]
    PROVE  /\ member' \in [Groups -> Rows]
           /\ Deletes(e) /\ \A d \in Emails \ {e} : Keeps(d)
           /\ \A g \in Groups : \A h \in Holders :
                 \/ member'[g][h] = member[g][h]
                 \/ h = e /\ member'[g][h] = NoRow
  <1>1. e \in Holders
    BY DEF Holders
  <1>2. ASSUME NEW g \in Groups
        PROVE  /\ [member[g] EXCEPT ![e] = NoRow] \in Rows
               /\ \A h \in Holders :
                     \/ [member[g] EXCEPT ![e] = NoRow][h] = member[g][h]
                     \/ h = e /\ [member[g] EXCEPT ![e] = NoRow][h] = NoRow
               /\ [member[g] EXCEPT ![e] = NoRow][e] = NoRow
    BY <1>1 DEF TypeOK, Rows, Maybe
  <1>3. Deletes(e)
    BY <1>2 DEF DeletePendingRow, Deletes, TypeOK
  <1>4. \A d \in Emails \ {e} : Keeps(d)
    BY DEF DeletePendingRow, Keeps, TypeOK
  <1>5. QED
    BY <1>2, <1>3, <1>4

\* A request changes rows of its group only: those of its learners and those of
\* the addresses that had no account.
LEMMA AssignFacts ==
    ASSUME TypeOK, NEW w \in Workers, AssignLearners(w)
    PROVE  /\ member' \in [Groups -> Rows]
           /\ link' \in [Users -> {"none", "linked", "unlinked"}]
           /\ pending' \in SUBSET Emails /\ late' \in SUBSET Emails
           /\ request[w] # Idle /\ request'[w] = Idle
           /\ \A g \in Groups : \A h \in Holders :
                 \/ member'[g][h] = member[g][h]
                 \/ /\ g = request[w].group /\ h \in request[w].users
                    /\ member'[g][h] = AssignedUser(request[w], h, member[g][h])
                 \/ /\ g = request[w].group /\ h \in Unknown(request[w])
                    /\ member'[g][h] = AssignedEmail(request[w], h, member[g][h])
  <1> DEFINE q == request[w]
             f == [h \in Holders |->
                     IF h \in q.users THEN AssignedUser(q, h, member[q.group][h])
                     ELSE IF h \in Unknown(q) THEN AssignedEmail(q, h, member[q.group][h])
                     ELSE member[q.group][h]]
  <1>1. q # Idle /\ request'[w] = Idle
    BY DEF AssignLearners, TypeOK
  <1>2. /\ q.group \in Groups /\ q.users \subseteq Users
        /\ q.emails \subseteq Emails /\ Unknown(q) \subseteq Emails
    BY <1>1, RequestFacts
  <1>3. member' = [member EXCEPT ![q.group] = f]
    BY DEF AssignLearners
  <1>4. member[q.group] \in Rows
    BY <1>2 DEF TypeOK, Rows, Maybe
  <1>5. f \in Rows
    BY <1>4, AssignedFacts DEF Rows
  <1>6. link' \in [Users -> {"none", "linked", "unlinked"}]
    BY DEF AssignLearners, LinkedBy, TypeOK
  <1>7. pending' \in SUBSET Emails /\ late' \in SUBSET Emails
    BY <1>2 DEF AssignLearners, TypeOK
  <1>8. \A h \in Holders :
           \/ f[h] = member[q.group][h]
           \/ h \in q.users /\ f[h] = AssignedUser(q, h, member[q.group][h])
           \/ h \in Unknown(q) /\ f[h] = AssignedEmail(q, h, member[q.group][h])
    OBVIOUS
  <1> HIDE DEF f
  <1>9. member' \in [Groups -> Rows]
    BY <1>2, <1>3, <1>5 DEF TypeOK, Rows, Maybe
  <1>10. \A g \in Groups : \A h \in Holders :
            \/ member'[g][h] = member[g][h]
            \/ g = q.group /\ member'[g][h] = f[h]
    BY <1>2, <1>3 DEF TypeOK
  <1>11. QED
    BY <1>1, <1>6, <1>7, <1>8, <1>9, <1>10

\* Every step preserves the types.
LEMMA TypeNext ==
    ASSUME TypeOK, [Next]_vars
    PROVE  TypeOK'
  <1>0. member \in [Groups -> Rows]
    BY DEF TypeOK, Rows, Maybe
  <1>1. ASSUME NEW w \in Workers, Assigning(w)
        PROVE  TypeOK'
    <2>1. CASE \E g \in Groups, emails \in SUBSET Emails : BeginAssign(w, g, emails)
      <3>1. PICK g \in Groups, emails \in SUBSET Emails : BeginAssign(w, g, emails)
        BY <2>1
      <3>2. [group |-> g, emails |-> emails,
             known |-> emails \intersect {account[u] : u \in Users},
             users |-> {u \in Users : account[u] \in emails}] \in Request
        BY DEF Request
      <3>3. QED
        BY <3>1, <3>2 DEF BeginAssign, TypeOK, learnerVars
    <2>2. CASE AssignLearners(w)
      <3>1. request' \in [Workers -> Request \union {Idle}]
        BY <2>2 DEF AssignLearners, TypeOK
      <3>2. QED
        BY <2>2, <3>1, AssignFacts DEF AssignLearners, TypeOK, Rows, Maybe
    <2>3. CASE FailAssign(w)
      BY <2>3 DEF FailAssign, TypeOK, learnerVars
    <2>4. QED
      BY <1>1, <2>1, <2>2, <2>3 DEF Assigning
  <1>2. ASSUME NEW g \in Groups, OnGroup(g)
        PROVE  TypeOK'
    <2>1. CASE \E emails \in SUBSET Emails : RemoveLearners(g, emails)
      <3>1. PICK emails \in SUBSET Emails : RemoveLearners(g, emails)
        BY <2>1
      <3> DEFINE f == [h \in Holders |->
                         IF h \in emails \/ (h \in Users /\ account[h] \in emails)
                         THEN SoftDeleted(member[g][h]) ELSE member[g][h]]
      <3>2. f \in Rows
        BY <1>0, SoftFacts DEF Rows
      <3>3. member' = [member EXCEPT ![g] = f]
        BY <3>1 DEF RemoveLearners
      <3> HIDE DEF f
      <3>4. QED
        BY <1>0, <3>1, <3>2, <3>3 DEF RemoveLearners, TypeOK, learnerVars, Rows, Maybe
    <2>2. CASE RemoveAll(g)
      <3> DEFINE f == [h \in Holders |-> SoftDeleted(member[g][h])]
      <3>1. f \in Rows
        BY <1>0, SoftFacts DEF Rows
      <3>2. member' = [member EXCEPT ![g] = f]
        BY <2>2 DEF RemoveAll
      <3> HIDE DEF f
      <3>3. orphan' \in [Groups -> SUBSET BOOLEAN]
        BY <2>2 DEF RemoveAll, TypeOK
      <3>4. QED
        BY <1>0, <2>2, <3>1, <3>2, <3>3 DEF RemoveAll, TypeOK, learnerVars, Rows, Maybe
    <2>3. CASE \E e \in Emails, st \in Statuses :
                  UpdatePendingLearnerStatus(g, e, st)
      <3>1. PICK e \in Emails, st \in Statuses :
                UpdatePendingLearnerStatus(g, e, st)
        BY <2>3
      <3>2. e \in Holders
        BY DEF Holders
      <3>3. member[g][e] \in Membership
        BY <1>0, <3>1, <3>2 DEF UpdatePendingLearnerStatus, IsListed, Rows, Maybe
      <3> DEFINE new == Marked(member[g][e], st)
                 f == [member[g] EXCEPT ![e] = new]
      <3>4. new \in Maybe
        BY <3>3, MarkedFacts DEF Statuses, Maybe
      <3>5. member' = [member EXCEPT ![g] = f]
        BY <3>1 DEF UpdatePendingLearnerStatus
      <3> HIDE DEF new
      <3>6. f \in Rows
        BY <1>0, <3>2, <3>4 DEF Rows
      <3> HIDE DEF f
      <3>7. QED
        BY <1>0, <3>1, <3>5, <3>6
           DEF UpdatePendingLearnerStatus, TypeOK, learnerVars, Rows, Maybe
    <2>4. CASE \E holders \in SUBSET Holders : NotificationFails(g, holders)
      <3>1. PICK holders \in SUBSET Holders : NotificationFails(g, holders)
        BY <2>4
      <3> DEFINE f == [h \in Holders |->
                         IF h \in holders THEN Marked(member[g][h], "error")
                         ELSE member[g][h]]
      <3>2. ASSUME NEW h \in holders
            PROVE  Marked(member[g][h], "error") \in Maybe
        <4>1. member[g][h] \in Membership
          BY <1>0, <3>1 DEF NotificationFails, Rows, Maybe
        <4>2. QED
          BY <4>1, MarkedFacts DEF Statuses, Maybe
      <3>3. f \in Rows
        BY <1>0, <3>2 DEF Rows
      <3>4. member' = [member EXCEPT ![g] = f]
        BY <3>1 DEF NotificationFails
      <3> HIDE DEF f
      <3>5. QED
        BY <1>0, <3>1, <3>3, <3>4 DEF NotificationFails, TypeOK, learnerVars, Rows, Maybe
    <2>5. QED
      BY <1>2, <2>1, <2>2, <2>3, <2>4 DEF OnGroup
  <1>3. ASSUME NEW e \in Emails, OnAddress(e)
        PROVE  TypeOK'
    <2>1. CASE LinkPending(e)
      BY <2>1 DEF LinkPending, TypeOK, learnerVars
    <2>2. CASE \E c \in Courses :
                  EnrollPendingRegistration(e, c) \/ ClearPendingRegistration(e, c)
      BY <2>2 DEF EnrollPendingRegistration, ClearPendingRegistration, TypeOK, learnerVars
    <2>3. CASE DeletePending(e)
      BY <2>3, OrphanType, DeleteType, DeleteFacts
         DEF DeletePending, TypeOK, learnerVars, Rows, Maybe
    <2>4. QED
      BY <1>3, <2>1, <2>2, <2>3 DEF OnAddress
  <1>4. ASSUME NEW u \in Users, OnUser(u)
        PROVE  TypeOK'
    <2>1. ASSUME NEW e \in Emails, HandleUserPostSave(u, e),
                 account' \in [Users -> Emails \union {NoEmail}],
                 UNCHANGED <<request, sweep>>
          PROVE  TypeOK'
      BY <2>1, HandleFacts DEF TypeOK, Rows, Maybe
    <2>2. CASE \E e \in Emails : Register(u, e) \/ ChangeEmail(u, e)
      BY <2>1, <2>2 DEF Register, ChangeEmail, TypeOK
    <2>3. CASE Login(u)
      BY <2>1, <2>3 DEF Login, TypeOK
    <2>4. CASE Unlink(u)
      BY <2>4 DEF Unlink, TypeOK
    <2>5. CASE \E c \in Courses : CompleteUserEnrollment(u, c)
      BY <2>5 DEF CompleteUserEnrollment, TypeOK, learnerVars
    <2>6. CASE EnrollmentRaises(u)
      BY <2>6 DEF EnrollmentRaises, TypeOK, learnerVars
    <2>7. QED
      BY <1>4, <2>2, <2>3, <2>4, <2>5, <2>6 DEF OnUser
  <1>5. CASE Command
    <2>1. CASE Age
      <3>1. ASSUME NEW g \in Groups, NEW h \in Holders
            PROVE  (IF h \in Emails /\ member[g][h] # NoRow
                    THEN [member[g][h] EXCEPT !.old = TRUE] ELSE member[g][h]) \in Maybe
        <4>1. member[g][h] \in Maybe
          BY <1>0 DEF Rows
        <4>2. CASE member[g][h] = NoRow
          BY <4>1, <4>2
        <4>3. CASE member[g][h] \in Membership
          BY <4>1, <4>3, RowFacts DEF Maybe
        <4>4. QED
          BY <4>1, <4>2, <4>3 DEF Maybe
      <3>2. member' \in [Groups -> Rows]
        BY <2>1, <3>1 DEF Age, Rows
      <3>3. QED
        BY <2>1, <3>2 DEF Age, TypeOK, learnerVars, Rows, Maybe
    <2>2. CASE BeginSweep
      BY <2>2 DEF BeginSweep, TypeOK, learnerVars
    <2>3. ASSUME NEW g \in Groups, NEW e \in Emails, SweepOne(g, e)
          PROVE  TypeOK'
      <3>1. sweep' \in SUBSET (Groups \X Emails)
        BY <2>3 DEF SweepOne, TypeOK
      <3>2. QED
        BY <2>3, <3>1, OrphanType, DeleteType, DeleteFacts
           DEF SweepOne, TypeOK, learnerVars, Rows, Maybe
    <2>4. ASSUME NEW g \in Groups, NEW e \in Emails, SweepRaises(g, e)
          PROVE  TypeOK'
      BY <2>4 DEF SweepRaises, TypeOK, learnerVars
    <2>5. QED
      BY <1>5, <2>1, <2>2, <2>3, <2>4 DEF Command
  <1>6. CASE UNCHANGED vars
    BY <1>6 DEF vars, learnerVars, TypeOK
  <1>7. QED
    BY <1>1, <1>2, <1>3, <1>4, <1>5, <1>6 DEF Next

-----------------------------------------------------------------------------
(* What a step can do to a row                                             *)

\* The row of a user is the one that was listed for the address they have now.
HandedOn(g, h) ==
    /\ h \in Users
    /\ \E e \in Emails : /\ account'[h] = e /\ IsListed(member[g][e])
                         /\ member'[g][h] = Revived(member[g][e], "accepted")

\* A request of the group names the learner, or an address it did not know.
Assigned(g, h) ==
    \E w \in Workers :
        /\ request[w] # Idle /\ request'[w] = Idle /\ g = request[w].group
        /\ \/ /\ h \in request[w].users
              /\ member'[g][h] = AssignedUser(request[w], h, member[g][h])
           \/ /\ h \in Unknown(request[w])
              /\ member'[g][h] = AssignedEmail(request[w], h, member[g][h])
              /\ g \in BudgetGroups => h \in pending' /\ (Registered(h) => h \in late')

\* The row of an address: it is marked, it ages, it is deleted.
Changed(g, h) ==
    /\ h \in Emails
    /\ \/ /\ IsListed(member[g][h])
          /\ \E st \in Statuses :
                member'[g][h] = Marked(member[g][h], st)
       \/ member[g][h] # NoRow /\ member'[g][h] = [member[g][h] EXCEPT !.old = TRUE]
       \/ h \notin pending' /\ member'[g][h] = NoRow

RowStep(g, h) ==
    \/ member'[g][h] = member[g][h]
    \/ member'[g][h] = SoftDeleted(member[g][h])
    \/ /\ member[g][h] # NoRow
       /\ member'[g][h] = Marked(member[g][h], "error")
    \/ Changed(g, h)
    \/ HandedOn(g, h)
    \/ Assigned(g, h)

\* Every step is such a step for every row.
LEMMA RowSteps ==
    ASSUME TypeOK, [Next]_vars, NEW g \in Groups, NEW h \in Holders
    PROVE  RowStep(g, h)
  <1>0. member \in [Groups -> Rows]
    BY DEF TypeOK, Rows, Maybe
  <1>1. CASE UNCHANGED member
    BY <1>1 DEF RowStep
  <1>2. ASSUME NEW w \in Workers, AssignLearners(w)
        PROVE  RowStep(g, h)
    <2>1. ASSUME h \in Unknown(request[w]), request[w].group \in BudgetGroups
          PROVE  h \in pending' /\ (Registered(h) => h \in late')
      BY <1>2, <2>1 DEF AssignLearners, Unknown
    <2>2. QED
      BY <1>2, <2>1, AssignFacts DEF RowStep, Assigned
  <1>3. ASSUME NEW f \in Groups, NEW emails \in SUBSET Emails, RemoveLearners(f, emails)
        PROVE  RowStep(g, h)
    BY <1>0, <1>3 DEF RemoveLearners, RowStep
  <1>4. ASSUME NEW f \in Groups, RemoveAll(f)
        PROVE  RowStep(g, h)
    BY <1>0, <1>4 DEF RemoveAll, RowStep
  <1>5. ASSUME NEW f \in Groups, NEW e \in Emails, NEW st \in Statuses,
               UpdatePendingLearnerStatus(f, e, st)
        PROVE  RowStep(g, h)
    <2>1. member' = [member EXCEPT ![f] = [member[f] EXCEPT
                        ![e] = Marked(member[f][e], st)]]
      BY <1>5 DEF UpdatePendingLearnerStatus
    <2>2. \/ member'[g][h] = member[g][h]
          \/ /\ g = f /\ h = e
             /\ member'[g][h] = Marked(member[g][h], st)
      BY <1>0, <2>1 DEF Rows
    <2>3. QED
      BY <1>5, <2>2 DEF UpdatePendingLearnerStatus, RowStep, Changed
  <1>6. ASSUME NEW f \in Groups, NEW holders \in SUBSET Holders, NotificationFails(f, holders)
        PROVE  RowStep(g, h)
    BY <1>0, <1>6 DEF NotificationFails, RowStep
  <1>7. ASSUME NEW e \in Emails, DeletePending(e)
        PROVE  RowStep(g, h)
    <2>1. /\ DeletePendingRow(e)
          /\ member' = [d \in Groups |-> [member[d] EXCEPT ![e] = NoRow]]
      BY <1>7 DEF DeletePending
    <2>2. /\ e \notin pending'
          /\ member'[g][h] = member[g][h] \/ (h = e /\ member'[g][h] = NoRow)
      <3>1. /\ Deletes(e)
            /\ \A x \in Groups : \A y \in Holders :
                  member'[x][y] = member[x][y] \/ (y = e /\ member'[x][y] = NoRow)
        BY <2>1, DeleteFacts
      <3>2. QED
        BY <3>1 DEF Deletes
    <2>3. QED
      BY <2>2 DEF RowStep, Changed
  <1>8. ASSUME NEW f \in Groups, NEW e \in Emails, SweepOne(f, e)
        PROVE  RowStep(g, h)
    <2>1. /\ DeletePendingRow(e)
          /\ member' = [d \in Groups |-> [member[d] EXCEPT ![e] = NoRow]]
      BY <1>8 DEF SweepOne
    <2>2. /\ e \notin pending'
          /\ member'[g][h] = member[g][h] \/ (h = e /\ member'[g][h] = NoRow)
      <3>1. /\ Deletes(e)
            /\ \A x \in Groups : \A y \in Holders :
                  member'[x][y] = member[x][y] \/ (y = e /\ member'[x][y] = NoRow)
        BY <2>1, DeleteFacts
      <3>2. QED
        BY <3>1 DEF Deletes
    <2>3. QED
      BY <2>2 DEF RowStep, Changed
  <1>9. ASSUME NEW u \in Users, NEW e \in Emails, HandleUserPostSave(u, e), account'[u] = e
        PROVE  RowStep(g, h)
    BY <1>9, HandleFacts DEF RowStep, Changed, HandedOn
  <1>10. ASSUME NEW u \in Users, NEW e \in Emails, Register(u, e) \/ ChangeEmail(u, e)
         PROVE  RowStep(g, h)
    BY <1>9, <1>10 DEF Register, ChangeEmail, TypeOK
  <1>11. ASSUME NEW u \in Users, Login(u)
         PROVE  RowStep(g, h)
    BY <1>9, <1>11 DEF Login, TypeOK
  <1>12. CASE Age
    <2>1. member'[g][h] = IF h \in Emails /\ member[g][h] # NoRow
                          THEN [member[g][h] EXCEPT !.old = TRUE] ELSE member[g][h]
      BY <1>12 DEF Age
    <2>2. QED
      BY <2>1 DEF RowStep, Changed
  <1>13. ASSUME NEW w \in Workers, Assigning(w)
         PROVE  RowStep(g, h)
    BY <1>1, <1>2, <1>13 DEF Assigning, BeginAssign, FailAssign
  <1>14. ASSUME NEW f \in Groups, OnGroup(f)
         PROVE  RowStep(g, h)
    BY <1>3, <1>4, <1>5, <1>6, <1>14 DEF OnGroup
  <1>15. ASSUME NEW e \in Emails, OnAddress(e)
         PROVE  RowStep(g, h)
    BY <1>1, <1>7, <1>15
       DEF OnAddress, LinkPending, EnrollPendingRegistration, ClearPendingRegistration
  <1>16. ASSUME NEW u \in Users, OnUser(u)
         PROVE  RowStep(g, h)
    BY <1>1, <1>10, <1>11, <1>16
       DEF OnUser, Unlink, CompleteUserEnrollment, EnrollmentRaises
  <1>17. CASE Command
    BY <1>1, <1>8, <1>12, <1>17 DEF Command, BeginSweep, SweepRaises
  <1>18. CASE UNCHANGED vars
    BY <1>1, <1>18 DEF vars
  <1>19. QED
    BY <1>13, <1>14, <1>15, <1>16, <1>17, <1>18 DEF Next

\* Every value has its type.
THEOREM TypeCorrect == Spec => []TypeOK
  <1>1. TypeOK /\ [Next]_vars => TypeOK'
    BY TypeNext
  <1>2. QED
    BY TypeInit, <1>1, PTL DEF Spec

-----------------------------------------------------------------------------
(* The invariant                                                           *)

LEMMA InvInit == Init => IInv
  <1> SUFFICES ASSUME Init PROVE IInv
    OBVIOUS
  <1>1. TypeOK
    BY TypeInit
  <1>2. \A g \in Groups : \A h \in Holders : member[g][h] = NoRow
    BY DEF Init
  <1>3. StatusFitsMember
    BY <1>2 DEF StatusFitsMember, IsListed, IsRemoved
  <1>4. PendingHasAll /\ RegisteredHasNone
    BY <1>2 DEF Init, PendingHasAll, RegisteredHasNone, Holders
  <1>5. QED
    BY <1>1, <1>3, <1>4 DEF IInv

Status(h) == IF h \in Users THEN "accepted" ELSE "pending"

\* What StatusFitsMember says of one row.
Fits(row, h) ==
    /\ IsListed(row) => row.status \in {Status(h), "error"} \/ (h \in Emails /\ row.forced)
    /\ IsRemoved(row) => row.status \in {"removed", "error"}

\* No step spoils the status of a row.
LEMMA StatusNext ==
    ASSUME TypeOK, StatusFitsMember, [Next]_vars
    PROVE  StatusFitsMember'
  <1> SUFFICES ASSUME NEW g \in Groups, NEW h \in Holders
               PROVE  Fits(member'[g][h], h)
    BY DEF StatusFitsMember, Fits, Status, IsListed, IsRemoved
  <1>1. /\ member[g][h] \in Maybe /\ Fits(member[g][h], h)
        /\ h \in Users => h \notin Emails
    BY HolderAssumption DEF TypeOK, StatusFitsMember, Fits, Status, Maybe
  <1>2. RowStep(g, h)
    BY RowSteps
  <1>3. CASE member'[g][h] = member[g][h]
    BY <1>1, <1>3
  <1>4. CASE member'[g][h] = SoftDeleted(member[g][h])
    BY <1>1, <1>4, SoftFacts DEF Fits, IsListed, IsRemoved
  <1>5. CASE /\ member[g][h] # NoRow
             /\ member'[g][h] = Marked(member[g][h], "error")
    <2>1. member'[g][h].status = "error"
      BY <1>1, <1>5, MarkedFacts DEF Maybe, Statuses
    <2>2. QED
      BY <2>1 DEF Fits
  <1>6. CASE Changed(g, h)
    <2>1. h \in Emails /\ h \notin Users
      BY <1>1, <1>6 DEF Changed
    <2>2. ASSUME NEW st \in Statuses, IsListed(member[g][h]),
                 member'[g][h] = Marked(member[g][h], st)
          PROVE  Fits(member'[g][h], h)
      <3>1. member[g][h] \in Membership /\ ~member[g][h].removed
        BY <1>1, <2>2 DEF IsListed, Maybe
      <3>2. /\ member'[g][h].status = st /\ ~member'[g][h].removed
            /\ member'[g][h].forced <=> st \notin {"pending", "error"}
        BY <2>2, <3>1, MarkedFacts
      <3>3. QED
        BY <2>1, <3>2 DEF Fits, Status, IsRemoved
    <2>3. CASE /\ member[g][h] # NoRow
               /\ member'[g][h] = [member[g][h] EXCEPT !.old = TRUE]
      <3>1. member[g][h] \in Membership
        BY <1>1, <2>3 DEF Maybe
      <3>2. /\ member'[g][h].status = member[g][h].status
            /\ member'[g][h].removed = member[g][h].removed
            /\ member'[g][h].forced = member[g][h].forced
        BY <2>3, <3>1, RowFacts
      <3>3. QED
        BY <1>1, <2>3, <3>2 DEF Fits, IsListed, IsRemoved
    <2>4. CASE member'[g][h] = NoRow
      BY <2>4 DEF Fits, IsListed, IsRemoved
    <2>5. QED
      BY <1>6, <2>2, <2>3, <2>4 DEF Changed
  <1>7. CASE HandedOn(g, h)
    <2>1. PICK e \in Emails : /\ h \in Users /\ IsListed(member[g][e])
                              /\ member'[g][h] = Revived(member[g][e], "accepted")
      BY <1>7 DEF HandedOn
    <2>2. member[g][e] \in Membership
      BY <2>1 DEF TypeOK, Holders, IsListed
    <2>3. member'[g][h].status = "accepted" /\ ~member'[g][h].removed
      BY <2>1, <2>2, RevivedFacts DEF Statuses
    <2>4. QED
      BY <2>1, <2>3 DEF Fits, Status, IsRemoved
  <1>8. CASE Assigned(g, h)
    <2>1. PICK w \in Workers :
             /\ request[w] # Idle
             /\ \/ /\ h \in request[w].users
                   /\ member'[g][h] = AssignedUser(request[w], h, member[g][h])
                \/ /\ h \in Unknown(request[w])
                   /\ member'[g][h] = AssignedEmail(request[w], h, member[g][h])
      BY <1>8 DEF Assigned
    <2>2. CASE h \in request[w].users
      <3>1. h \in Users /\ h \notin Unknown(request[w])
        BY <1>1, <2>1, <2>2, RequestFacts
      <3>2. QED
        BY <1>1, <2>1, <3>1, AssignedFacts DEF Fits, Status, IsRemoved
    <2>3. CASE h \notin request[w].users
      <3>1. h \in Unknown(request[w]) /\ h \notin Users
        BY <1>1, <2>1, <2>3, RequestFacts
      <3>2. QED
        BY <1>1, <2>1, <2>3, <3>1, AssignedFacts DEF Fits, Status, IsRemoved
    <2>4. QED
      BY <2>2, <2>3
  <1>9. QED
    BY <1>2, <1>3, <1>4, <1>5, <1>6, <1>7, <1>8 DEF RowStep

\* Every step keeps or deletes the pending row of an address.
LEMMA PendingSteps ==
    ASSUME TypeOK, [Next]_vars, NEW e \in Emails
    PROVE  Keeps(e) \/ Deletes(e)
  <1>1. CASE UNCHANGED <<pending, wish, late>>
    BY <1>1 DEF Keeps
  <1>2. ASSUME NEW w \in Workers, Assigning(w)
        PROVE  Keeps(e)
    BY <1>1, <1>2 DEF Assigning, BeginAssign, AssignLearners, FailAssign, Keeps
  <1>3. ASSUME NEW g \in Groups, OnGroup(g)
        PROVE  Keeps(e) \/ Deletes(e)
    BY <1>1, <1>3 DEF OnGroup, RemoveLearners, RemoveAll, UpdatePendingLearnerStatus,
                      NotificationFails
  <1>4. ASSUME NEW d \in Emails, OnAddress(d)
        PROVE  Keeps(e) \/ Deletes(e)
    <2>1. CASE LinkPending(d)
      BY <2>1 DEF LinkPending, Keeps
    <2>2. ASSUME NEW c \in Courses, EnrollPendingRegistration(d, c)
          PROVE  Keeps(e)
      BY <2>2 DEF EnrollPendingRegistration, Keeps, TypeOK
    <2>3. ASSUME NEW c \in Courses, ClearPendingRegistration(d, c)
          PROVE  Keeps(e)
      BY <2>3 DEF ClearPendingRegistration, Keeps, TypeOK
    <2>4. CASE DeletePending(d)
      <3>1. Deletes(d) /\ \A x \in Emails \ {d} : Keeps(x)
        BY <2>4, DeleteFacts DEF DeletePending
      <3>2. QED
        BY <3>1
    <2>5. QED
      BY <1>4, <2>1, <2>2, <2>3, <2>4 DEF OnAddress
  <1>5. ASSUME NEW u \in Users, OnUser(u)
        PROVE  Keeps(e) \/ Deletes(e)
    <2>1. ASSUME NEW d \in Emails, HandleUserPostSave(u, d)
          PROVE  Keeps(e) \/ Deletes(e)
      <3>1. /\ d \in pending => Deletes(d)
            /\ d \notin pending => Keeps(d)
            /\ \A x \in Emails \ {d} : Keeps(x)
        BY <2>1, HandleFacts
      <3>2. QED
        BY <3>1
    <2>2. QED
      BY <1>1, <1>5, <2>1 DEF OnUser, Unlink, Register, ChangeEmail, Login, TypeOK,
                              CompleteUserEnrollment, EnrollmentRaises
  <1>6. CASE Command
    <2>1. ASSUME NEW g \in Groups, NEW d \in Emails, SweepOne(g, d)
          PROVE  Keeps(e) \/ Deletes(e)
      <3>1. Deletes(d) /\ \A x \in Emails \ {d} : Keeps(x)
        BY <2>1, DeleteFacts DEF SweepOne
      <3>2. QED
        BY <3>1
    <2>2. QED
      BY <1>1, <1>6, <2>1 DEF Command, Age, BeginSweep, SweepRaises
  <1>7. CASE UNCHANGED vars
    BY <1>1, <1>7 DEF vars
  <1>8. QED
    BY <1>2, <1>3, <1>4, <1>5, <1>6, <1>7 DEF Next

\* An address gets an account by a registration or a change of address.
LEMMA AccountSteps ==
    ASSUME TypeOK, [Next]_vars, NEW u \in Users, account'[u] # account[u]
    PROVE  /\ account'[u] \in Emails /\ HandleUserPostSave(u, account'[u])
           /\ ~Registered(account'[u])
  <1>1. ~UNCHANGED account
    OBVIOUS
  <1>2. PICK v \in Users, e \in Emails : Register(v, e) \/ ChangeEmail(v, e)
    BY <1>1 DEF Next, vars, learnerVars, Assigning, BeginAssign, AssignLearners, FailAssign,
                OnGroup, RemoveLearners, RemoveAll, UpdatePendingLearnerStatus,
                NotificationFails, OnAddress, LinkPending, EnrollPendingRegistration,
                ClearPendingRegistration, DeletePending, OnUser, Unlink, Login,
                CompleteUserEnrollment, EnrollmentRaises, Command, Age, BeginSweep,
                SweepOne, SweepRaises
  <1>3. /\ account' = [account EXCEPT ![v] = e] /\ ~Registered(e)
        /\ HandleUserPostSave(v, e)
    BY <1>2 DEF Register, ChangeEmail
  <1>4. u = v /\ account'[u] = e
    BY <1>3 DEF TypeOK
  <1>5. QED
    BY <1>3, <1>4

\* An address without a row gets one from an assignment only, in a group that
\* invites; then it has a pending row, and is late if it has an account.
LEMMA NewRowSteps ==
    ASSUME TypeOK, [Next]_vars, NEW g \in Groups, NEW e \in Emails,
           member[g][e] = NoRow, member'[g][e] # NoRow
    PROVE  e \in pending' /\ (Registered(e) => e \in late')
  <1>1. e \in Holders /\ e \notin Users
    BY HolderAssumption DEF Holders
  <1>2. RowStep(g, e)
    BY <1>1, RowSteps
  <1>3. ~IsListed(member[g][e]) /\ SoftDeleted(member[g][e]) = NoRow
    BY DEF IsListed, SoftDeleted
  <1>4. Assigned(g, e)
    BY <1>1, <1>2, <1>3 DEF RowStep, Changed, HandedOn
  <1>5. PICK w \in Workers :
           /\ request[w] # Idle /\ g = request[w].group
           /\ \/ e \in request[w].users
              \/ /\ member'[g][e] = AssignedEmail(request[w], e, member[g][e])
                 /\ g \in BudgetGroups => e \in pending' /\ (Registered(e) => e \in late')
    BY <1>4 DEF Assigned
  <1>6. e \notin request[w].users
    BY <1>1, <1>5, RequestFacts
  <1>7. g \in BudgetGroups
    BY <1>5, <1>6 DEF AssignedEmail
  <1>8. QED
    BY <1>5, <1>6, <1>7

LEMMA PendingNext ==
    ASSUME TypeOK, PendingHasAll, [Next]_vars
    PROVE  PendingHasAll'
  <1> SUFFICES ASSUME NEW e \in Emails, e \notin pending'
               PROVE  wish'[e] = {} /\ \A g \in Groups : member'[g][e] = NoRow
    BY DEF PendingHasAll
  <1>1. CASE Deletes(e)
    BY <1>1 DEF Deletes
  <1>2. CASE Keeps(e)
    <2>1. e \notin pending /\ wish'[e] \subseteq wish[e]
      BY <1>2 DEF Keeps
    <2>2. wish[e] = {} /\ \A g \in Groups : member[g][e] = NoRow
      BY <2>1 DEF PendingHasAll
    <2>3. QED
      BY <2>1, <2>2, NewRowSteps
  <1>3. QED
    BY <1>1, <1>2, PendingSteps

LEMMA RegisteredNext ==
    ASSUME TypeOK, PendingHasAll, RegisteredHasNone, [Next]_vars
    PROVE  RegisteredHasNone'
  <1> SUFFICES ASSUME NEW u \in Users, account'[u] \in Emails \ late', NEW g \in Groups
               PROVE  member'[g][account'[u]] = NoRow
    BY DEF RegisteredHasNone
  <1>1. PICK e \in Emails : e = account'[u] /\ e \notin late'
    OBVIOUS
  <1>2. CASE Deletes(e)
    BY <1>1, <1>2 DEF Deletes
  <1>3. CASE Keeps(e) /\ account[u] = e
    <2>1. e \notin late
      BY <1>1, <1>3 DEF Keeps
    <2>2. member[g][e] = NoRow /\ Registered(e)
      BY <1>3, <2>1 DEF RegisteredHasNone, Registered
    <2>3. QED
      BY <1>1, <2>2, NewRowSteps
  <1>4. CASE account[u] # e
    <2>1. HandleUserPostSave(u, e)
      BY <1>1, <1>4, AccountSteps
    <2>2. CASE e \in pending
      BY <1>2, <2>1, <2>2, HandleFacts
    <2>3. CASE e \notin pending
      BY <1>1, <2>1, <2>3 DEF PendingHasAll, HandleUserPostSave
    <2>4. QED
      BY <2>2, <2>3
  <1>5. QED
    BY <1>2, <1>3, <1>4, PendingSteps

\* Every step preserves the invariant.
LEMMA InvNext == IInv /\ [Next]_vars => IInv'
  BY TypeNext, StatusNext, PendingNext, RegisteredNext DEF IInv

LEMMA Invariant == Spec => []IInv
  BY InvInit, InvNext, PTL DEF Spec

-----------------------------------------------------------------------------
(* The properties                                                          *)

\* The members counted as accepted are learners with an account, those shown
\* as pending are not, and a removed row is never shown as either
\* (membership rows of models.py, as the handlers and the mails mark them).
THEOREM StatusesFit == Spec => []StatusFitsMember
  <1>1. IInv => StatusFitsMember
    BY DEF IInv
  <1>2. QED
    BY Invariant, <1>1, PTL

\* A login fails for a colliding membership only after a request that had
\* missed the registration of the address.
THEOREM LateRowBlocks == Spec => []LoginBlockedByLateRow
  <1>1. IInv => LoginBlockedByLateRow
    <2> SUFFICES ASSUME IInv, NEW u \in Users, account[u] \in pending,
                        Collides(u, account[u])
                 PROVE  account[u] \in late
      BY DEF LoginBlockedByLateRow
    <2>1. PICK g \in Groups : member[g][account[u]] # NoRow
      BY DEF Collides, Memberships, IsListed
    <2>2. account[u] \in Emails
      BY DEF IInv, TypeOK
    <2>3. QED
      BY <2>1, <2>2 DEF IInv, RegisteredHasNone
  <1>2. QED
    BY Invariant, <1>1, PTL

\* A user who registers, or takes over an address, gets every listed
\* membership and every pending enrollment of it (handle_user_post_save).
THEOREM RegistrationDelivers == Spec => RegistrationDeliversAll
  <1> DEFINE Delivers(u, e) == /\ \A g \in Memberships(e) : IsListed(member'[g][u])
                               /\ wish[e] \subseteq todo'[u]
                               /\ e \notin pending' /\ \A g \in Groups : member'[g][e] = NoRow
  <1>1. ASSUME IInv, [Next]_vars, NEW u \in Users, NEW e \in Emails,
               account[u] # e, account'[u] = e
        PROVE  Delivers(u, e)
    <2>1. TypeOK /\ HandleUserPostSave(u, e)
      BY <1>1, AccountSteps DEF IInv
    <2>2. CASE e \in pending
      <3>1. /\ Deletes(e) /\ wish[e] \subseteq todo'[u]
            /\ \A g \in Memberships(e) : member'[g][u] = Revived(member[g][e], "accepted")
        BY <2>1, <2>2, HandleFacts
      <3>2. ASSUME NEW g \in Memberships(e)
            PROVE  IsListed(member'[g][u])
        <4>1. member[g][e] \in Membership
          BY <2>1 DEF Memberships, IsListed, TypeOK, Holders
        <4>2. QED
          BY <3>1, <4>1, RevivedFacts DEF Statuses, IsListed
      <3>3. QED
        BY <3>1, <3>2 DEF Deletes
    <2>3. CASE e \notin pending
      <3>1. wish[e] = {} /\ \A g \in Groups : member[g][e] = NoRow
        BY <1>1, <2>3 DEF IInv, PendingHasAll
      <3>2. UNCHANGED <<pending, member>>
        BY <2>1, <2>3 DEF HandleUserPostSave
      <3>3. Memberships(e) = {}
        BY <3>1 DEF Memberships, IsListed
      <3>4. QED
        BY <2>3, <3>1, <3>2, <3>3
    <2>4. QED
      BY <2>2, <2>3
  <1>2. IInv /\ [Next]_vars =>
           [\A u \in Users, e \in Emails :
               account[u] # e /\ account'[u] = e => Delivers(u, e)]_vars
    BY <1>1
  <1> HIDE DEF Delivers
  <1>3. QED
    BY Invariant, <1>2, PTL DEF Spec, RegistrationDeliversAll, Delivers

\* What an admin removed, no registration, login or change of address brings
\* back: only a request that names the address, or a membership listed for it.
THEOREM RemovedStay == Spec => RemovedStaysOut
  <1> DEFINE Comes(g, u) ==
               \/ \E e \in Emails : account'[u] = e /\ IsListed(member[g][e])
               \/ \E w \in Workers :
                      /\ request[w] # Idle /\ request'[w] = Idle
                      /\ request[w].group = g /\ u \in request[w].users
  <1>1. ASSUME IInv, [Next]_vars, NEW g \in Groups, NEW u \in Users,
               IsListed(member'[g][u]), ~IsListed(member[g][u])
        PROVE  Comes(g, u)
    <2>0. TypeOK /\ u \in Holders /\ u \notin Emails /\ member[g][u] \in Maybe
      <3>1. TypeOK /\ u \in Holders /\ u \notin Emails
        BY <1>1, HolderAssumption DEF IInv, Holders
      <3>2. QED
        BY <3>1 DEF TypeOK, Maybe
    <2>1. RowStep(g, u)
      BY <1>1, <2>0, RowSteps
    <2>2. CASE member'[g][u] = SoftDeleted(member[g][u])
      BY <1>1, <2>0, <2>2, SoftFacts
    <2>3. CASE /\ member[g][u] # NoRow
               /\ member'[g][u] = Marked(member[g][u], "error")
      <3>1. member'[g][u].removed = member[g][u].removed
        BY <2>0, <2>3, MarkedFacts DEF Maybe, Statuses
      <3>2. QED
        BY <1>1, <2>3, <3>1 DEF IsListed
    <2>4. CASE Assigned(g, u)
      <3>1. PICK w \in Workers :
               /\ request[w] # Idle /\ request'[w] = Idle /\ g = request[w].group
               /\ u \in request[w].users \/ u \in Unknown(request[w])
        BY <2>4 DEF Assigned
      <3>2. u \notin Unknown(request[w])
        BY <2>0, <3>1, RequestFacts
      <3>3. QED
        BY <3>1, <3>2
    <2>5. QED
      BY <1>1, <2>0, <2>1, <2>2, <2>3, <2>4 DEF RowStep, Changed, HandedOn
  <1>2. IInv /\ [Next]_vars =>
           [\A g \in Groups, u \in Users :
               IsListed(member'[g][u]) /\ ~IsListed(member[g][u]) => Comes(g, u)]_vars
    BY <1>1
  <1> HIDE DEF Comes
  <1>3. QED
    BY Invariant, <1>2, PTL DEF Spec, RemovedStaysOut, Comes
=============================================================================
