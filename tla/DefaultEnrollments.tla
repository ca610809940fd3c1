------------------------- MODULE DefaultEnrollments -------------------------
(***************************************************************************)
(* Default enrollments of one learner: a client asks learner-status which  *)
(* of the customer's default intentions the learner still has to be        *)
(* enrolled for, and enrolls the learner with bulk enrollment requests     *)
(* that carry the is_default_auto_enrollment flag.                         *)
(*                                                                         *)
(* The requests, rows and receivers are those of EnterpriseFulfillment.    *)
(* This module adds what the classification of learner-status reads beside *)
(* them: the mode an inactive LMS enrollment was left in, the intentions   *)
(* and the run their content key resolves to; and the realization row that *)
(* a flagged request writes last.                                          *)
(***************************************************************************)
EXTENDS EnterpriseFulfillment

CONSTANTS
    Intentions,  \* DefaultEnterpriseEnrollmentIntention rows
    NoIntention, \* the enrollment realizes none
    NoRun        \* the content key resolves to no run, or to another one

ASSUME IntentionAssumption == NoIntention \notin Intentions /\ NoRun \notin Enrollments

VARIABLES
    track,      \* the mode of the LMS enrollment, kept when it is deactivated
    available,  \* the intentions that are not soft-deleted
    resolved,   \* the course run each content key resolves to
    realized,   \* the intention each enrollment is the realization of
    offered,    \* runs that the client's last answer calls enrollable
    late,       \* runs whose row was marked after the answer acted upon
    byDefault   \* the workers whose request carries the flag

defaults    == <<available, resolved, realized, offered, byDefault>>
defaultVars == <<vars, track, late, defaults>>

DefaultsTypeOK ==
    /\ TypeOK
    /\ track \in [Enrollments -> Modes \union {"none"}]
    /\ available \subseteq Intentions
    /\ resolved \in [Intentions -> Enrollments \union {NoRun}]
    /\ realized \in [Enrollments -> Intentions \union {NoIntention}]
    /\ offered \subseteq Enrollments
    /\ late \subseteq Enrollments
    /\ byDefault \subseteq {w \in Workers : request[w] # Idle}

\* A row shows the learner as having left the course.
Marked(rows) == rows.enrollment # NoRow /\ rows.enrollment.unenrolled

\* _terminate_enrollment sets the audit mode of an inactive enrollment, too.
MovedToAudit ==
    {e \in AuditTrack : \E w \in Workers :
        /\ At(w, {"revoke", "expire"}, "lms") /\ request[w].on = e
        /\ At(w, {"revoke", "expire"}, "save")'}

\* What the LMS and the client remember of any step.
Remember ==
    /\ track' = [e \in Enrollments |->
          IF lms'[e] \in Modes THEN lms'[e] ELSE IF e \in MovedToAudit THEN "audit" ELSE track[e]]
    /\ late' = late \union {e \in Enrollments : ~Marked(db[e]) /\ Marked(db'[e])}

-----------------------------------------------------------------------------
(* learner-status                                                          *)

\* An enrollment is sorted by the mode of its LMS enrollment, active or not;
\* one without LMS enrollment is not an audit enrollment.
NonAudit(e) == db[e].enrollment # NoRow /\ track[e] # "audit"

AlreadyEnrolled(e) == NonAudit(e) /\ lms[e] \in Modes

\* Mutant: a learner who is not enrolled needs enrollment, whoever ended it.
EnrollableIfInactive(e) == ~AlreadyEnrolled(e)

\* Of a run that has a paid mode, is open for enrollment and is in a catalog.
Enrollable(e) ==
    /\ ~AlreadyEnrolled(e)
    /\ ~(NonAudit(e) /\ Marked(db[e]))

NeedsEnrollment == {e \in Enrollments : Enrollable(e) /\ \E i \in available : resolved[i] = e}

LearnerStatus ==
    /\ offered' = NeedsEnrollment
    /\ late' = late \intersect {request[w].on : w \in byDefault}
    /\ track' = track
    /\ UNCHANGED <<vars, available, resolved, realized, byDefault>>

-----------------------------------------------------------------------------
(* Enrollment requests with the flag                                       *)

BeginDefault(w, e, x) ==
    /\ e \in offered
    /\ BeginEnroll(w, e, x)
    /\ offered' = offered \ {e}
    /\ byDefault' = byDefault \union {w}
    /\ UNCHANGED <<available, resolved, realized>>

\* next() over the available intentions, in no particular order
Matching(e) == {i \in available : resolved[i] = e}

\* The rows are written, and then the realization collides with the one of
\* another intention: the client is told that the enrollment failed.
RecordUnanswered(w) ==
    /\ At(w, {"enroll"}, "save")
    /\ LET e    == request[w].on
           x    == request[w].source
           rows == WithEnrollment(db[e])
       IN  WriteRows(e, IF x \in Transactions THEN WithCredit(rows, x) ELSE WithLicense(rows, x), {})
    /\ request' = [request EXCEPT ![w] = Idle]
    /\ UNCHANGED <<lms, task, used, accepted>>

RecordDefault(w) ==
    /\ w \in byDefault
    /\ LET e == request[w].on
       IN  \/ /\ Matching(e) = {}
              /\ RecordEnrollment(w) /\ realized' = realized
           \/ \E i \in Matching(e) :
                /\ realized[e] \in {i, NoIntention}
                /\ RecordEnrollment(w) /\ realized' = [realized EXCEPT ![e] = i]
           \/ \E i \in Matching(e) :
                /\ realized[e] \notin {i, NoIntention}
                /\ RecordUnanswered(w) /\ realized' = realized
    /\ byDefault' = byDefault \ {w}
    /\ UNCHANGED <<available, resolved, offered>>

-----------------------------------------------------------------------------
(* The customer's staff and the catalog service                            *)

SetAvailable(i) ==
    /\ available' = IF i \in available THEN available \ {i} ELSE available \union {i}
    /\ UNCHANGED <<vars, resolved, realized, offered, byDefault>>

Advertise(i, e) ==
    /\ resolved[i] # e
    /\ resolved' = [resolved EXCEPT ![i] = e]
    /\ UNCHANGED <<vars, available, realized, offered, byDefault>>

-----------------------------------------------------------------------------
DefaultsInit ==
    /\ Init
    /\ track = [e \in Enrollments |-> "none"]
    /\ available = Intentions
    /\ resolved \in [Intentions -> Enrollments \union {NoRun}]
    /\ realized = [e \in Enrollments |-> NoIntention]
    /\ offered = {} /\ late = {} /\ byDefault = {}

\* The steps of EnterpriseFulfillment; an enrollment with the flag is
\* recorded by RecordDefault only.
Subsidised ==
    /\ Next
    /\ \A w \in byDefault : ~(At(w, {"enroll"}, "save") /\ RecordEnrollment(w))
    /\ byDefault' = {w \in byDefault : request'[w] # Idle}
    /\ UNCHANGED <<available, resolved, realized, offered>>

DefaultsNext ==
    \/ LearnerStatus
    \/ /\ \/ Subsidised
          \/ \E w \in Workers :
               \/ RecordDefault(w)
               \/ \E e \in Enrollments, x \in Sources : BeginDefault(w, e, x)
          \/ \E i \in Intentions :
               SetAvailable(i) \/ \E e \in Enrollments \union {NoRun} : Advertise(i, e)
       /\ Remember

DefaultsSpec == DefaultsInit /\ [][DefaultsNext]_defaultVars

-----------------------------------------------------------------------------
(* ADR 0015: a learner who left a course is not enrolled again by default. *)
(* A request may do so only to a learner who left an audit enrollment (or  *)
(* a paid one that a license request has since moved to audit), or whose   *)
(* row was not marked as unenrolled by the time the client had its answer: *)
(* the learner left later, or before there was a row to mark.              *)
LeaverStaysOut ==
    [][\A w \in byDefault :
          LET e == request[w].on
          IN  At(w, {"enroll"}, "lms") /\ lms[e] = "inactive" /\ lms'[e] \in Modes
              => track[e] = "audit" \/ ~Marked(db[e]) \/ e \in late]_defaultVars
=============================================================================
