----------------------- MODULE EnterpriseFulfillment -----------------------
(***************************************************************************)
(* Subsidised course enrollments: the LMS enrollment of a learner in a     *)
(* course, the EnterpriseCourseEnrollment row that mirrors it, and the     *)
(* learner-credit and license fulfillments that paid for it.               *)
(*                                                                         *)
(* The API requests that enroll, cancel and terminate are two calls, one   *)
(* to the LMS and one to the database, and hold copies of the rows they    *)
(* read before the first.  The LMS answers a call only after the signal    *)
(* receivers of this code have run, on rows they read afresh.  Requests of *)
(* several workers, the learner's own changes in the LMS and the           *)
(* create_enterprise_enrollment task interleave between those calls; the   *)
(* database statements of one call are one step.                           *)
(***************************************************************************)
EXTENDS Naturals, FiniteSets

CONSTANTS
    Enrollments,  \* (learner, course run) pairs of one customer
    Transactions, \* ledger transactions that redeem learner credit
    Licenses,     \* subscription licenses
    Workers,      \* web workers serving API requests
    AuditTrack,   \* the enrollments whose course run has an audit mode
    NoRow,        \* no such row
    Idle,         \* no request
    Operations,   \* the operations in use
    Serial,       \* whether requests and the learner's acts never overlap
    Overlaps      \* overlapping redemptions the client lets happen

VARIABLES
    lms,      \* the CourseEnrollment of the LMS: its mode, or inactive
    db,       \* the enterprise rows of each enrollment
    reports,  \* LEARNER_CREDIT_COURSE_ENROLLMENT_REVOKED events per transaction
    task,     \* the create_enterprise_enrollment task of each enrollment
    request,  \* the request each worker serves, with its in-memory rows
    used,     \* transactions the client has created
    accepted  \* transactions whose enrollment request succeeded

vars == <<lms, db, reports, task, request, used, accepted>>

Sources == Transactions \union Licenses
Modes   == {"paid", "audit"}

\* Not needed (yet, or any more), queued, or never to write the row.
TaskStates == {"none", "queued", "dropped"}

EnrollmentRow  == [unenrolled : BOOLEAN, saved : BOOLEAN]
CreditRow      == [revoked : BOOLEAN, source : Transactions]
LicenseRow     == [revoked : BOOLEAN, source : Licenses]
Rows ==
    [enrollment : EnrollmentRow \union {NoRow},
     credit     : CreditRow \union {NoRow},
     license    : LicenseRow \union {NoRow}]

\* source, revoked: the fulfillment to enroll with or to revoke, as it was
\* read; unenrolled: that field of the enrollment row read with it.
Request ==
    [op : {"enroll", "cancel", "revoke", "expire"}, step : {"lms", "save"},
     on : Enrollments, source : Sources, revoked : BOOLEAN, unenrolled : BOOLEAN]

ASSUME RowAssumption ==
    NoRow \notin EnrollmentRow \union CreditRow \union LicenseRow
ASSUME RequestAssumption == Idle \notin Request
ASSUME SourceAssumption  == Transactions \intersect Licenses = {}
ASSUME OptionAssumption ==
    /\ AuditTrack \subseteq Enrollments
    /\ Serial \in BOOLEAN
    /\ Overlaps \subseteq {"held", "cancelling"}
    /\ Operations \subseteq {"enroll", "cancel", "revoke", "expire", "unenroll",
                             "reenroll", "save", "consent"}

TypeOK ==
    /\ lms \in [Enrollments -> Modes \union {"none", "inactive"}]
    /\ db \in [Enrollments -> Rows]
    /\ reports \in [Transactions -> Nat]
    /\ task \in [Enrollments -> TaskStates]
    /\ request \in [Workers -> Request \union {Idle}]
    /\ used \subseteq Transactions
    /\ accepted \subseteq used

-----------------------------------------------------------------------------
(* set_unenrolled, revoke and the receivers, on the rows of one enrollment *)

\* unenrolled is NULL in a new row; every condition on it is one on its truth.
NewEnrollment == [unenrolled |-> FALSE, saved |-> FALSE]
Left          == [unenrolled |-> TRUE, saved |-> TRUE]

Live(f)      == f # NoRow /\ ~f.revoked
HeldBy(rows) == IF Live(rows.credit) THEN {rows.credit.source} ELSE {}
Revoked(f)   == IF f = NoRow THEN NoRow ELSE [f EXCEPT !.revoked = TRUE]

\* Mutant: only the license is revoked with the enrollment.
LeaveLicense(rows) ==
    [rows EXCEPT !.enrollment = Left, !.license = Revoked(rows.license)]

LeaveAll(rows) ==
    [enrollment |-> Left, credit |-> Revoked(rows.credit), license |-> Revoked(rows.license)]

\* Mutant: a row saved for later is taken for one already unenrolled.
SetUnenrolledUnlessSaved(rows) ==
    IF rows.enrollment = NoRow THEN rows
    ELSE IF rows.enrollment.saved THEN rows ELSE LeaveAll(rows)

\* set_unenrolled(True) on a fresh row
SetUnenrolled(rows) ==
    IF rows.enrollment \in {NoRow, Left} THEN rows ELSE LeaveAll(rows)

\* set_unenrolled(False) on a fresh row; the fulfillments stay as they are
SetEnrolled(rows) ==
    IF rows.enrollment = NoRow THEN rows
    ELSE [rows EXCEPT !.enrollment = NewEnrollment]

\* Mutant: whatever was revoked, it is the credit row that is written.
RevokeAsCredit(rows, r) ==
    LET saved == [rows EXCEPT !.credit = [revoked |-> TRUE, source |-> r.source]]
    IN  IF r.revoked THEN rows
        ELSE IF r.unenrolled THEN saved ELSE LeaveAll(saved)

\* revoke() on a fulfillment read earlier: the whole copy is written back,
\* the enrollment is left if the copy of it is not, and then the other
\* fulfillment is read and revoked.
RevokeCopy(rows, r) ==
    LET written == [revoked |-> TRUE, source |-> r.source]
        saved   == IF r.source \in Transactions THEN [rows EXCEPT !.credit = written]
                                                ELSE [rows EXCEPT !.license = written]
    IN  IF r.revoked THEN rows
        ELSE IF r.unenrolled THEN saved ELSE LeaveAll(saved)

\* Mutant: the other fulfillment is revoked without a report.
RevokedByCopyAlone(rows, r) ==
    IF r.source \in Transactions /\ ~r.revoked THEN {r.source} ELSE {}

\* The transactions whose revocation RevokeCopy reports.
RevokedByCopy(rows, r) ==
    IF r.source \in Transactions
    THEN IF r.revoked THEN {} ELSE {r.source}
    ELSE HeldBy(rows) \ HeldBy(RevokeCopy(rows, r))

\* The receivers of the LMS signals for a change from mode "from" to mode "to".
Received(rows, from, to) ==
    IF from = to THEN rows
    ELSE IF to = "inactive" THEN SetUnenrolled(rows) ELSE SetEnrolled(rows)

Report(sent) ==
    reports' = [t \in Transactions |-> IF t \in sent THEN reports[t] + 1 ELSE reports[t]]

WriteRows(e, rows, sent) ==
    /\ db' = [db EXCEPT ![e] = rows]
    /\ Report(sent)

\* Mutant: a first enrollment in the LMS submits no task.
SetModeWithoutTask(e, mode) ==
    /\ lms' = [lms EXCEPT ![e] = mode]
    /\ LET after == Received(db[e], lms[e], mode)
       IN  WriteRows(e, after, HeldBy(db[e]) \ HeldBy(after))
    /\ task' = task

\* One change of an LMS enrollment, with everything that it triggers.  Its
\* creation submits the task if the learner has an active customer.
SetMode(e, mode) ==
    /\ lms' = [lms EXCEPT ![e] = mode]
    /\ LET after == Received(db[e], lms[e], mode)
       IN  WriteRows(e, after, HeldBy(db[e]) \ HeldBy(after))
    /\ \E t \in IF lms[e] = "none" THEN {"queued", "dropped"} ELSE {task[e]} :
         task' = [task EXCEPT ![e] = t]

-----------------------------------------------------------------------------
(* API requests                                                            *)

Serving(e, ops) ==
    {w \in Workers : request[w] # Idle /\ request[w].on = e /\ request[w].op \in ops}

Redeeming(e)  == {w \in Serving(e, {"enroll"}) : request[w].source \in Transactions}
Cancelling(e) == Serving(e, {"cancel"})

\* What the client sees to: one transaction at a time, and none while the
\* enrollment is being cancelled.
Redeemable(e) ==
    /\ "held" \in Overlaps \/ (~Live(db[e].credit) /\ Redeeming(e) = {})
    /\ "cancelling" \in Overlaps \/ Cancelling(e) = {}

Undisturbed == Serial => \A w \in Workers : request[w] = Idle

Begin(w, op, e, f) ==
    /\ op \in Operations
    /\ request[w] = Idle
    /\ Undisturbed
    /\ request' =
         [request EXCEPT ![w] =
            [op |-> op, step |-> "lms", on |-> e, source |-> f.source, revoked |-> f.revoked,
             unenrolled |-> db[e].enrollment # NoRow /\ db[e].enrollment.unenrolled]]
    /\ UNCHANGED <<lms, db, reports, task, accepted>>

BeginEnroll(w, e, x) ==
    /\ x \in Transactions => x \notin used /\ Redeemable(e)
    /\ Begin(w, "enroll", e, [source |-> x, revoked |-> FALSE])
    /\ used' = used \union ({x} \intersect Transactions)

BeginCancel(w, e) ==
    /\ \E f \in {db[e].credit, db[e].license} : Live(f) /\ Begin(w, "cancel", e, f)
    /\ "cancelling" \in Overlaps \/ Redeeming(e) = {}
    /\ UNCHANGED used

BeginRevokeLicense(w, e) ==
    /\ db[e].license # NoRow
    /\ Begin(w, "revoke", e, db[e].license)
    /\ UNCHANGED used

BeginExpireLicense(w, e) ==
    /\ Live(db[e].license)
    /\ Begin(w, "expire", e, db[e].license)
    /\ UNCHANGED used

At(w, ops, step) == request[w] # Idle /\ request[w].op \in ops /\ request[w].step = step

CallLms(w, mode) ==
    /\ SetMode(request[w].on, mode)
    /\ request' = [request EXCEPT ![w].step = "save"]
    /\ UNCHANGED <<used, accepted>>

EnrollInLms(w) ==
    /\ At(w, {"enroll"}, "lms")
    /\ CallLms(w, "paid")

CancelInLms(w) ==
    /\ At(w, {"cancel"}, "lms")
    /\ lms[request[w].on] # "none"
    /\ CallLms(w, "inactive")

\* Audit mode where the course has one; an inactive enrollment stays inactive.
TerminateInLms(w) ==
    /\ At(w, {"revoke", "expire"}, "lms")
    /\ LET e == request[w].on
       IN  /\ lms[e] # "none"
           /\ CallLms(w, IF e \in AuditTrack /\ lms[e] # "inactive" THEN "audit" ELSE "inactive")

WithEnrollment(rows) ==
    IF rows.enrollment = NoRow THEN [rows EXCEPT !.enrollment = NewEnrollment] ELSE rows

\* Mutant: a revoked fulfillment is reactivated under its old transaction.
ReactivatedAsBefore(rows, x) ==
    [rows EXCEPT !.credit.revoked = FALSE,
                 !.enrollment = IF @.unenrolled THEN NewEnrollment ELSE @]

\* reactivate(): the new transaction is saved only if the row was revoked
Reactivated(rows, x) ==
    IF ~rows.credit.revoked THEN rows
    ELSE [rows EXCEPT !.credit = [revoked |-> FALSE, source |-> x],
                      !.enrollment = IF @.unenrolled THEN NewEnrollment ELSE @]

WithCredit(rows, x) ==
    IF rows.credit = NoRow THEN [rows EXCEPT !.credit = [revoked |-> FALSE, source |-> x]]
                           ELSE Reactivated(rows, x)

\* get_or_create: a row for the same license is left alone, one for another
\* license makes the request fail.
WithLicense(rows, x) ==
    IF rows.license = NoRow THEN [rows EXCEPT !.license = [revoked |-> FALSE, source |-> x]]
                            ELSE rows

RecordEnrollment(w) ==
    /\ At(w, {"enroll"}, "save")
    /\ LET e    == request[w].on
           x    == request[w].source
           rows == WithEnrollment(db[e])
       IN  /\ WriteRows(e, IF x \in Transactions THEN WithCredit(rows, x) ELSE WithLicense(rows, x), {})
           /\ accepted' = accepted \union ({x} \intersect Transactions)
    /\ request' = [request EXCEPT ![w] = Idle]
    /\ UNCHANGED <<lms, task, used>>

RevokeFulfillment(w) ==
    /\ At(w, {"cancel", "revoke", "expire"}, "save")
    /\ LET e == request[w].on
       IN  WriteRows(e, RevokeCopy(db[e], request[w]), RevokedByCopy(db[e], request[w]))
    /\ request' = [request EXCEPT ![w] = Idle]
    /\ UNCHANGED <<lms, task, used, accepted>>

\* The LMS refuses the call, the course is already completed, or the worker
\* dies between its two calls.
EndRequest(w) ==
    /\ request[w] # Idle
    /\ request' = [request EXCEPT ![w] = Idle]
    /\ UNCHANGED <<lms, db, reports, task, used, accepted>>

-----------------------------------------------------------------------------
(* The learner in the LMS and in the portal, and the task                  *)

LearnerUnenroll(e) ==
    /\ "unenroll" \in Operations /\ Undisturbed
    /\ lms[e] \in Modes
    /\ SetMode(e, "inactive")
    /\ UNCHANGED <<request, used, accepted>>

LearnerEnroll(e, mode) ==
    /\ "reenroll" \in Operations /\ Undisturbed
    /\ lms[e] # "paid" /\ lms[e] # mode
    /\ SetMode(e, mode)
    /\ UNCHANGED <<request, used, accepted>>

SaveForLater(e, saved) ==
    /\ "save" \in Operations /\ Undisturbed
    /\ db[e].enrollment # NoRow
    /\ db' = [db EXCEPT ![e].enrollment.saved = saved]
    /\ UNCHANGED <<lms, reports, task, request, used, accepted>>

\* get_create_ent_enrollment, of the consent and course pages
ConsentToEnroll(e, l) ==
    /\ "consent" \in Operations /\ Undisturbed
    /\ db' = [db EXCEPT ![e] = WithLicense(WithEnrollment(db[e]), l)]
    /\ UNCHANGED <<lms, reports, task, request, used, accepted>>

CreateEnterpriseEnrollment(e) ==
    /\ task[e] = "queued"
    /\ task' = [task EXCEPT ![e] = "none"]
    /\ db' = [db EXCEPT ![e] = WithEnrollment(@)]
    /\ UNCHANGED <<lms, reports, request, used, accepted>>

\* The task ends without a row: the course is in no catalog of the customer
\* that is active, or a call raises.  There is no retry.
DropEnrollment(e) ==
    /\ task[e] = "queued"
    /\ task' = [task EXCEPT ![e] = "dropped"]
    /\ UNCHANGED <<lms, db, reports, request, used, accepted>>

-----------------------------------------------------------------------------
Init ==
    /\ lms = [e \in Enrollments |-> "none"]
    /\ db = [e \in Enrollments |-> [enrollment |-> NoRow, credit |-> NoRow, license |-> NoRow]]
    /\ reports = [t \in Transactions |-> 0]
    /\ task = [e \in Enrollments |-> "none"]
    /\ request = [w \in Workers |-> Idle]
    /\ used = {}
    /\ accepted = {}

Serve(w) ==
    \/ EnrollInLms(w) \/ CancelInLms(w) \/ TerminateInLms(w)
    \/ RecordEnrollment(w) \/ RevokeFulfillment(w) \/ EndRequest(w)

Receive(w, e) ==
    \/ \E x \in Sources : BeginEnroll(w, e, x)
    \/ BeginCancel(w, e) \/ BeginRevokeLicense(w, e) \/ BeginExpireLicense(w, e)

Learner(e) ==
    \/ LearnerUnenroll(e)
    \/ \E mode \in Modes : LearnerEnroll(e, mode)
    \/ \E saved \in BOOLEAN : SaveForLater(e, saved)
    \/ \E l \in Licenses : ConsentToEnroll(e, l)

Next ==
    \/ \E w \in Workers : Serve(w) \/ \E e \in Enrollments : Receive(w, e)
    \/ \E e \in Enrollments : Learner(e) \/ CreateEnterpriseEnrollment(e) \/ DropEnrollment(e)

Spec == Init /\ [][Next]_vars

-----------------------------------------------------------------------------
(* The rows keep the ledger: whatever requests, receivers and the learner  *)
(* do in between, a transaction is redeemed once, every fulfillment that   *)
(* stops being live is reported, nothing else is, and no transaction that  *)
(* was reported is held again.  A report is repeated only where            *)
(* cancel_enrollment is in use.                                            *)
HeldCredit == UNION {HeldBy(db[e]) : e \in Enrollments}
Ledger == INSTANCE CreditLedger WITH
    held <- HeldCredit, Repeats <- "cancel" \in Operations, Lossy <- Overlaps # {}
KeepsLedger == Ledger!Spec

(* Every transaction a client was told succeeded still pays for a live     *)
(* fulfillment, or its revocation was reported so that it can be reversed: *)
(* what customer_admin_enroll_user_with_status accepts is never lost by    *)
(* revoke, reactivate or a receiver, whatever they overlap with.           *)
Settled ==
    \A t \in accepted :
        reports[t] > 0 \/ \E e \in Enrollments : t \in HeldBy(db[e])

(* revoke is idempotent: no transaction is reported as revoked twice.      *)
ReportedOnce == \A t \in Transactions : reports[t] <= 1

(* Learner credit that is not revoked pays for an enrollment that is       *)
(* active in the LMS and that the enterprise row shows as enrolled.        *)
HeldIsEnrolled ==
    \A e \in Enrollments :
        Live(db[e].credit) => /\ lms[e] \in Modes
                              /\ ~db[e].enrollment.unenrolled

(* A step that marks an enrollment unenrolled leaves no live fulfillment   *)
(* of it: set_unenrolled and revoke, which call each other, miss none.     *)
LeavingRevokes ==
    [][\A e \in Enrollments :
         /\ db[e].enrollment # NoRow /\ db'[e].enrollment # NoRow
         /\ ~db[e].enrollment.unenrolled /\ db'[e].enrollment.unenrolled
         => ~Live(db'[e].credit) /\ ~Live(db'[e].license)]_vars

(* A license enrollment request that succeeds leaves a live fulfillment of *)
(* that license, the only kind bulk_licensed_enrollments_expiration ends.  *)
LicensedIsLive ==
    [][\A w \in Workers : RecordEnrollment(w) =>
         LET license == db'[request[w].on].license
         IN  license # NoRow /\ license.source = request[w].source => Live(license)]_vars

(* An LMS enrollment without an EnterpriseCourseEnrollment still has its    *)
(* task to come, or the receiver or the task has given it up: a request    *)
(* that dies after its LMS call, whoever else wrote rows meanwhile, leaves *)
(* none that nothing will mirror.                                          *)
MirroredOrGivenUp ==
    \A e \in Enrollments :
        lms[e] # "none" /\ db[e].enrollment = NoRow => task[e] # "none"
=============================================================================
