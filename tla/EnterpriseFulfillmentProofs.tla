-------------------- MODULE EnterpriseFulfillmentProofs --------------------
(* Theorems about EnterpriseFulfillment, and about DefaultEnrollments,     *)
(* which extends it, for every set of enrollments, transactions, licenses, *)
(* workers and intentions.                                                 *)
EXTENDS DefaultEnrollments, TLAPS

-----------------------------------------------------------------------------
(* The rows of one enrollment                                              *)

(* A fulfillment row written with a transaction or a license.              *)
LEMMA FulfillmentRowFacts ==
    ASSUME NEW x, NEW b \in BOOLEAN
    PROVE  LET f == [revoked |-> b, source |-> x]
           IN  /\ f.revoked = b /\ f.source = x
               /\ x \in Transactions => f \in CreditRow /\ f # NoRow
               /\ x \in Licenses => f \in LicenseRow /\ f # NoRow
  <1> DEFINE f == [revoked |-> b, source |-> x]
  <1>1. f.revoked = b /\ f.source = x
    OBVIOUS
  <1>2. x \in Transactions => f \in CreditRow
    BY DEF CreditRow
  <1>3. x \in Licenses => f \in LicenseRow
    BY DEF LicenseRow
  <1> HIDE DEF f
  <1>4. (x \in Transactions \/ x \in Licenses) => f # NoRow
    BY <1>2, <1>3, RowAssumption
  <1> QED
    BY <1>1, <1>2, <1>3, <1>4 DEF f

(* An enrollment row starts enrolled and ends left.                        *)
LEMMA EnrollmentRowFacts ==
    /\ NewEnrollment \in EnrollmentRow /\ NewEnrollment # NoRow /\ ~NewEnrollment.unenrolled
    /\ Left \in EnrollmentRow /\ Left # NoRow /\ Left.unenrolled
  <1>1. NewEnrollment \in EnrollmentRow /\ ~NewEnrollment.unenrolled
    BY DEF NewEnrollment, EnrollmentRow
  <1>2. Left \in EnrollmentRow /\ Left.unenrolled
    BY DEF Left, EnrollmentRow
  <1> QED
    BY <1>1, <1>2, RowAssumption

(* A fulfillment marked revoked is the same row, no longer live.           *)
LEMMA RevokedFacts ==
    ASSUME NEW rows \in Rows
    PROVE  /\ Revoked(rows.credit) \in CreditRow \union {NoRow}
           /\ Revoked(rows.license) \in LicenseRow \union {NoRow}
           /\ ~Live(Revoked(rows.credit))
           /\ ~Live(Revoked(rows.license))
           /\ rows.credit # NoRow => /\ Revoked(rows.credit) # NoRow
                                     /\ Revoked(rows.credit).source = rows.credit.source
  <1>1. CASE rows.credit = NoRow
    BY <1>1, RowAssumption DEF Rows, Revoked, Live, LicenseRow, CreditRow
  <1>2. CASE rows.credit # NoRow
    BY <1>2, RowAssumption DEF Rows, Revoked, Live, LicenseRow, CreditRow
  <1> QED
    BY <1>1, <1>2

(* set_unenrolled(True) with its cascade leaves well-formed rows and no    *)
(* live fulfillment.                                                       *)
LEMMA LeaveAllFacts ==
    ASSUME NEW rows \in Rows
    PROVE  /\ LeaveAll(rows) \in Rows
           /\ LeaveAll(rows).credit = Revoked(rows.credit)
           /\ LeaveAll(rows).license = Revoked(rows.license)
           /\ LeaveAll(rows).enrollment = Left
  BY RevokedFacts, EnrollmentRowFacts DEF LeaveAll, Rows

(* What the receivers of an LMS change may do to the rows: well-formed     *)
(* rows whose credit is as before or revoked, and no live fulfillment when *)
(* the enrollment becomes unenrolled.                                      *)
LEMMA ReceivedFacts ==
    ASSUME NEW rows \in Rows, NEW from, NEW to
    PROVE  /\ Received(rows, from, to) \in Rows
           /\ Received(rows, from, to).credit \in {rows.credit, Revoked(rows.credit)}
           /\ /\ rows.enrollment # NoRow /\ ~rows.enrollment.unenrolled
              /\ Received(rows, from, to).enrollment.unenrolled
              => /\ ~Live(Received(rows, from, to).credit)
                 /\ ~Live(Received(rows, from, to).license)
  <1>1. /\ SetEnrolled(rows) \in Rows
        /\ SetEnrolled(rows).credit = rows.credit
        /\ rows.enrollment # NoRow => ~SetEnrolled(rows).enrollment.unenrolled
    BY EnrollmentRowFacts DEF SetEnrolled, Rows
  <1>2. CASE from = to
    BY <1>2 DEF Received
  <1>3. CASE from # to /\ to = "inactive" /\ rows.enrollment \in {NoRow, Left}
    BY <1>3 DEF Received, SetUnenrolled, Left
  <1>4. CASE from # to /\ to = "inactive" /\ rows.enrollment \notin {NoRow, Left}
    BY <1>4, LeaveAllFacts, RevokedFacts DEF Received, SetUnenrolled
  <1>5. CASE from # to /\ to # "inactive"
    BY <1>5, <1>1 DEF Received
  <1> QED
    BY <1>2, <1>3, <1>4, <1>5

(* Enrolling on the database side keeps the rows well-formed.              *)
LEMMA WithEnrollmentFacts ==
    ASSUME NEW rows \in Rows
    PROVE  /\ WithEnrollment(rows) \in Rows
           /\ WithEnrollment(rows).enrollment # NoRow
           /\ WithEnrollment(rows).credit = rows.credit
           /\ WithEnrollment(rows).license = rows.license
           /\ rows.enrollment # NoRow => WithEnrollment(rows).enrollment = rows.enrollment
  BY EnrollmentRowFacts DEF WithEnrollment, Rows

LEMMA WithCreditFacts ==
    ASSUME NEW rows \in Rows, rows.enrollment # NoRow, NEW x \in Transactions
    PROVE  /\ WithCredit(rows, x) \in Rows
           /\ ~Live(rows.credit) => HeldBy(WithCredit(rows, x)) = {x}
           /\ Live(rows.credit) => WithCredit(rows, x) = rows
           /\ WithCredit(rows, x).enrollment # NoRow
           /\ ~rows.enrollment.unenrolled => ~WithCredit(rows, x).enrollment.unenrolled
  <1> DEFINE f == [revoked |-> FALSE, source |-> x]
  <1>1. f \in CreditRow /\ f # NoRow /\ Live(f) /\ f.source = x
    BY FulfillmentRowFacts DEF Live
  <1>2. CASE rows.credit = NoRow
    <2>1. WithCredit(rows, x) = [rows EXCEPT !.credit = f]
      BY <1>2 DEF WithCredit
    <2>2. WithCredit(rows, x).credit = f /\ WithCredit(rows, x).enrollment = rows.enrollment
      BY <2>1 DEF Rows
    <2>3. WithCredit(rows, x) \in Rows
      BY <2>1, <1>1 DEF Rows
    <2> HIDE DEF f
    <2> QED
      BY <2>2, <2>3, <1>1, <1>2 DEF HeldBy, Live
  <1>3. CASE rows.credit # NoRow /\ rows.credit.revoked
    <2> DEFINE g == IF rows.enrollment.unenrolled THEN NewEnrollment ELSE rows.enrollment
    <2>1. WithCredit(rows, x) = [rows EXCEPT !.credit = f, !.enrollment = g]
      BY <1>3 DEF WithCredit, Reactivated, Rows
    <2>2. g \in EnrollmentRow /\ g # NoRow /\ ~g.unenrolled
      BY EnrollmentRowFacts DEF Rows
    <2>3. WithCredit(rows, x).credit = f /\ WithCredit(rows, x).enrollment = g
      BY <2>1 DEF Rows
    <2>4. WithCredit(rows, x) \in Rows
      BY <2>1, <2>2, <1>1 DEF Rows
    <2> HIDE DEF f, g
    <2> QED
      BY <2>2, <2>3, <2>4, <1>1, <1>3 DEF HeldBy, Live
  <1>4. CASE rows.credit # NoRow /\ ~rows.credit.revoked
    BY <1>4 DEF WithCredit, Reactivated, Live
  <1> QED
    BY <1>2, <1>3, <1>4

LEMMA WithLicenseFacts ==
    ASSUME NEW rows \in Rows, NEW x \in Licenses
    PROVE  /\ WithLicense(rows, x) \in Rows
           /\ WithLicense(rows, x).credit = rows.credit
           /\ WithLicense(rows, x).enrollment = rows.enrollment
  BY FulfillmentRowFacts DEF WithLicense, Rows

(* revoke() on a copy of a fulfillment keeps the rows well-formed, never   *)
(* makes the credit live, and revokes both fulfillments when it marks the  *)
(* enrollment unenrolled.                                                  *)
LEMMA RevokeCopyFacts ==
    ASSUME NEW rows \in Rows, NEW r \in Request
    PROVE  /\ RevokeCopy(rows, r) \in Rows
           /\ r.source \notin Transactions =>
                RevokeCopy(rows, r).credit \in {rows.credit, Revoked(rows.credit)}
           /\ r.source \in Transactions /\ ~r.revoked =>
                /\ RevokeCopy(rows, r).credit # NoRow
                /\ RevokeCopy(rows, r).credit.source = r.source
                /\ ~Live(RevokeCopy(rows, r).credit)
           /\ /\ rows.enrollment # NoRow /\ ~rows.enrollment.unenrolled
              /\ RevokeCopy(rows, r).enrollment.unenrolled
              => /\ ~Live(RevokeCopy(rows, r).credit)
                 /\ ~Live(RevokeCopy(rows, r).license)
  <1> DEFINE written == [revoked |-> TRUE, source |-> r.source]
             saved   == IF r.source \in Transactions THEN [rows EXCEPT !.credit = written]
                                                     ELSE [rows EXCEPT !.license = written]
  <1>1. r.source \in Transactions \/ r.source \in Licenses
    BY DEF Request, Sources
  <1>2. /\ saved \in Rows
        /\ saved.enrollment = rows.enrollment
        /\ r.source \notin Transactions => saved.credit = rows.credit
        /\ r.source \in Transactions => saved.credit = written
    BY <1>1 DEF Rows, CreditRow, LicenseRow
  <1>3. r.source \in Transactions => written # NoRow /\ ~Live(written) /\ written.source = r.source
    BY FulfillmentRowFacts DEF Live
  <1>4. RevokeCopy(rows, r) = IF r.revoked THEN rows
                              ELSE IF r.unenrolled THEN saved ELSE LeaveAll(saved)
    BY DEF RevokeCopy
  <1> HIDE DEF saved, written
  <1>5. CASE r.revoked
    BY <1>4, <1>5
  <1>6. CASE ~r.revoked /\ r.unenrolled
    BY <1>2, <1>3, <1>4, <1>6
  <1>7. CASE ~r.revoked /\ ~r.unenrolled
    BY <1>2, <1>3, <1>4, <1>7, LeaveAllFacts, RevokedFacts
  <1> QED
    BY <1>5, <1>6, <1>7

-----------------------------------------------------------------------------
(* The steps                                                               *)

(* Any rows may be written to one enrollment without breaking the types.   *)
LEMMA WriteRowsFacts ==
    ASSUME TypeOK, NEW e \in Enrollments, NEW rows \in Rows, NEW sent, WriteRows(e, rows, sent)
    PROVE  /\ db' \in [Enrollments -> Rows]
           /\ reports' \in [Transactions -> Nat]
           /\ db'[e] = rows
           /\ \A d \in Enrollments : d # e => db'[d] = db[d]
           /\ \A t \in Transactions : reports'[t] = IF t \in sent THEN reports[t] + 1 ELSE reports[t]
  <1>1. db' = [db EXCEPT ![e] = rows] /\ db \in [Enrollments -> Rows]
    BY DEF WriteRows, TypeOK
  <1>2. \A t \in Transactions : reports[t] \in Nat
    BY DEF TypeOK
  <1>3. reports' = [t \in Transactions |-> IF t \in sent THEN reports[t] + 1 ELSE reports[t]]
    BY DEF WriteRows, Report
  <1> QED
    BY <1>1, <1>2, <1>3

(* A change in the LMS, with its receivers, leaves the credit of the       *)
(* enrollment as it was or revoked, and reports exactly what it revokes.   *)
LEMMA SetModeFacts ==
    ASSUME TypeOK, NEW e \in Enrollments, NEW mode \in Modes \union {"inactive"}, SetMode(e, mode)
    PROVE  /\ lms' \in [Enrollments -> Modes \union {"none", "inactive"}]
           /\ task' \in [Enrollments -> TaskStates]
           /\ db' \in [Enrollments -> Rows]
           /\ reports' \in [Transactions -> Nat]
           /\ db'[e] = Received(db[e], lms[e], mode)
           /\ \A d \in Enrollments : d # e => db'[d] = db[d]
           /\ \A t \in Transactions :
                reports'[t] = IF t \in HeldBy(db[e]) \ HeldBy(db'[e]) THEN reports[t] + 1 ELSE reports[t]
  <1> DEFINE after == Received(db[e], lms[e], mode)
             sent  == HeldBy(db[e]) \ HeldBy(after)
  <1>1. db[e] \in Rows
    BY DEF TypeOK
  <1>2. after \in Rows
    BY <1>1, ReceivedFacts
  <1>3. WriteRows(e, after, sent)
    BY DEF SetMode
  <1>4. /\ lms' = [lms EXCEPT ![e] = mode]
        /\ \E t \in IF lms[e] = "none" THEN {"queued", "dropped"} ELSE {task[e]} :
             task' = [task EXCEPT ![e] = t]
    BY DEF SetMode
  <1> HIDE DEF after, sent
  <1>5. lms' \in [Enrollments -> Modes \union {"none", "inactive"}]
    BY <1>4 DEF TypeOK
  <1>6. task' \in [Enrollments -> TaskStates]
    <2>1. PICK t \in TaskStates : task' = [task EXCEPT ![e] = t]
      BY <1>4 DEF TypeOK, TaskStates
    <2> QED
      BY <2>1 DEF TypeOK
  <1>7. /\ db' \in [Enrollments -> Rows]
        /\ reports' \in [Transactions -> Nat]
        /\ db'[e] = after
        /\ \A d \in Enrollments : d # e => db'[d] = db[d]
    BY <1>2, <1>3, WriteRowsFacts
  <1>8. \A t \in Transactions : reports'[t] = IF t \in sent THEN reports[t] + 1 ELSE reports[t]
    BY <1>2, <1>3, WriteRowsFacts
  <1>9. sent = HeldBy(db[e]) \ HeldBy(db'[e])
    <2>1. db'[e] = after
      BY <1>7
    <2> QED
      BY <2>1 DEF sent
  <1>10. db'[e] = Received(db[e], lms[e], mode)
    BY <1>7 DEF after
  <1> QED
    BY <1>5, <1>6, <1>7, <1>8, <1>9, <1>10

(* A request in progress has an enrollment and a fulfillment source.       *)
LEMMA RequestFacts ==
    ASSUME TypeOK, NEW w \in Workers, request[w] # Idle
    PROVE  /\ request[w] \in Request
           /\ request[w].on \in Enrollments
           /\ request[w].source \in Sources
  BY DEF TypeOK, Request

(* The call of a request to the LMS: a change of mode there, after which   *)
(* the request is as before but for its step.                              *)
LEMMA CallLmsFacts ==
    ASSUME TypeOK, NEW w \in Workers, request[w] # Idle,
           NEW mode \in Modes \union {"inactive"}, CallLms(w, mode)
    PROVE  /\ SetMode(request[w].on, mode)
           /\ request' = [request EXCEPT ![w].step = "save"]
           /\ request' \in [Workers -> Request \union {Idle}]
           /\ UNCHANGED <<used, accepted>>
  <1>1. request' = [request EXCEPT ![w] = [request[w] EXCEPT !.step = "save"]]
    BY DEF CallLms
  <1>2. [request[w] EXCEPT !.step = "save"] \in Request
    BY RequestFacts DEF Request
  <1> QED
    BY <1>1, <1>2 DEF CallLms, TypeOK

(* A new request: it copies rows and changes no enrollment.                *)
LEMMA BeginFacts ==
    ASSUME TypeOK, NEW w \in Workers, NEW e \in Enrollments,
           NEW op \in {"enroll", "cancel", "revoke", "expire"},
           NEW f, f.source \in Sources, f.revoked \in BOOLEAN, Begin(w, op, e, f)
    PROVE  \E r \in Request :
             /\ r.op = op /\ r.on = e /\ r.source = f.source /\ r.revoked = f.revoked
             /\ request' = [request EXCEPT ![w] = r]
             /\ request[w] = Idle
             /\ op \in Operations
             /\ UNCHANGED <<lms, db, reports, task, accepted>>
  <1> DEFINE left == db[e].enrollment # NoRow /\ db[e].enrollment.unenrolled
             r == [op |-> op, step |-> "lms", on |-> e, source |-> f.source,
                   revoked |-> f.revoked, unenrolled |-> left]
  <1>1. left \in BOOLEAN
    OBVIOUS
  <1> HIDE DEF left
  <1>2. r \in Request
    BY <1>1 DEF Request
  <1>3. request' = [request EXCEPT ![w] = r]
    BY DEF Begin, left
  <1>4. r.op = op /\ r.on = e /\ r.source = f.source /\ r.revoked = f.revoked
    OBVIOUS
  <1> HIDE DEF r
  <1> QED
    BY <1>2, <1>3, <1>4 DEF Begin

(* The five kinds of step, as far as credit, requests and reports go.      *)
SameRequests ==
    \A v \in Workers :
        /\ request[v] = Idle <=> request'[v] = Idle
        /\ request[v] # Idle => /\ request'[v].op = request[v].op
                                /\ request'[v].on = request[v].on
                                /\ request'[v].source = request[v].source
                                /\ request'[v].revoked = request[v].revoked

ModeStep ==
    /\ \E e \in Enrollments, mode \in Modes \union {"inactive"} : SetMode(e, mode)
    /\ request' \in [Workers -> Request \union {Idle}]
    /\ SameRequests
    /\ UNCHANGED <<used, accepted>>

QuietStep ==
    /\ UNCHANGED <<lms, reports, used, accepted>>
    /\ task' \in [Enrollments -> TaskStates]
    /\ db' \in [Enrollments -> Rows]
    /\ \A e \in Enrollments :
         /\ db'[e].credit = db[e].credit
         /\ db[e].enrollment # NoRow /\ ~db[e].enrollment.unenrolled => ~db'[e].enrollment.unenrolled
    /\ request' \in [Workers -> Request \union {Idle}]
    /\ \A v \in Workers : request'[v] \in {request[v], Idle}

BeginStep ==
    \E w \in Workers, r \in Request :
        /\ request[w] = Idle
        /\ request' = [request EXCEPT ![w] = r]
        /\ r.op \in Operations
        /\ UNCHANGED <<lms, db, reports, task, accepted>>
        /\ \/ /\ r.op = "enroll"
              /\ used' = used \union ({r.source} \intersect Transactions)
              /\ r.source \in Transactions => r.source \notin used /\ Redeemable(r.on)
           \/ /\ r.op = "cancel"
              /\ used' = used
              /\ "cancelling" \in Overlaps \/ Redeeming(r.on) = {}
              /\ r.source \in Transactions => /\ Live(db[r.on].credit)
                                              /\ db[r.on].credit.source = r.source
           \/ r.op \in {"revoke", "expire"} /\ r.source \in Licenses /\ used' = used

LEMMA ModeStepFacts ==
    ASSUME TypeOK, NEW w \in Workers, request[w] # Idle,
           NEW mode \in Modes \union {"inactive"}, CallLms(w, mode)
    PROVE  ModeStep
  <1>1. /\ SetMode(request[w].on, mode)
        /\ request' = [request EXCEPT ![w].step = "save"]
        /\ request' \in [Workers -> Request \union {Idle}]
        /\ UNCHANGED <<used, accepted>>
    BY CallLmsFacts
  <1>2. request[w].on \in Enrollments /\ request[w] \in Request
    BY RequestFacts
  <1>3. \A v \in Workers : v # w => request'[v] = request[v]
    BY <1>1 DEF TypeOK
  <1>4. request'[w] = [request[w] EXCEPT !.step = "save"]
    BY <1>1 DEF TypeOK
  <1>5. /\ request'[w].op = request[w].op /\ request'[w].on = request[w].on
        /\ request'[w].source = request[w].source /\ request'[w].revoked = request[w].revoked
        /\ request'[w] \in Request
    BY <1>2, <1>4 DEF Request
  <1>6. SameRequests
    BY <1>3, <1>5, RequestAssumption DEF SameRequests
  <1> QED
    BY <1>1, <1>2, <1>6 DEF ModeStep

(* Beginning a request with a fulfillment of the enrollment.               *)
LEMMA FulfillmentOfRow ==
    ASSUME TypeOK, NEW e \in Enrollments
    PROVE  /\ db[e].credit # NoRow => /\ db[e].credit.source \in Transactions
                                      /\ db[e].credit.revoked \in BOOLEAN
           /\ db[e].license # NoRow => /\ db[e].license.source \in Licenses
                                       /\ db[e].license.source \notin Transactions
                                       /\ db[e].license.revoked \in BOOLEAN
  BY SourceAssumption DEF TypeOK, Rows, CreditRow, LicenseRow

LEMMA BeginEnrollFacts ==
    ASSUME TypeOK, NEW w \in Workers, NEW e \in Enrollments, NEW x \in Sources, BeginEnroll(w, e, x)
    PROVE  BeginStep
  <1> DEFINE f == [source |-> x, revoked |-> FALSE]
  <1>1. f.source = x /\ f.source \in Sources /\ f.revoked \in BOOLEAN
    OBVIOUS
  <1>2. /\ Begin(w, "enroll", e, f)
        /\ used' = used \union ({x} \intersect Transactions)
        /\ x \in Transactions => x \notin used /\ Redeemable(e)
    BY DEF BeginEnroll
  <1> HIDE DEF f
  <1>3. PICK r \in Request :
          /\ r.op = "enroll" /\ r.on = e /\ r.source = f.source /\ r.revoked = f.revoked
          /\ request' = [request EXCEPT ![w] = r]
          /\ request[w] = Idle
          /\ "enroll" \in Operations
          /\ UNCHANGED <<lms, db, reports, task, accepted>>
    BY <1>1, <1>2, BeginFacts
  <1> QED
    BY <1>1, <1>2, <1>3 DEF BeginStep

LEMMA BeginCancelFacts ==
    ASSUME TypeOK, NEW w \in Workers, NEW e \in Enrollments, BeginCancel(w, e)
    PROVE  BeginStep
  <1>1. PICK f \in {db[e].credit, db[e].license} : Live(f) /\ Begin(w, "cancel", e, f)
    BY DEF BeginCancel
  <1>2. /\ f.source \in Sources /\ f.revoked \in BOOLEAN
        /\ f.source \in Transactions => Live(db[e].credit) /\ db[e].credit.source = f.source
    BY <1>1, FulfillmentOfRow DEF Sources, Live
  <1>3. PICK r \in Request :
          /\ r.op = "cancel" /\ r.on = e /\ r.source = f.source /\ r.revoked = f.revoked
          /\ request' = [request EXCEPT ![w] = r]
          /\ request[w] = Idle
          /\ "cancel" \in Operations
          /\ UNCHANGED <<lms, db, reports, task, accepted>>
    BY <1>1, <1>2, BeginFacts
  <1>4. used' = used /\ ("cancelling" \in Overlaps \/ Redeeming(e) = {})
    BY DEF BeginCancel
  <1> QED
    BY <1>2, <1>3, <1>4 DEF BeginStep

LEMMA BeginTerminateFacts ==
    ASSUME TypeOK, NEW w \in Workers, NEW e \in Enrollments,
           BeginRevokeLicense(w, e) \/ BeginExpireLicense(w, e)
    PROVE  BeginStep
  <1>1. PICK op \in {"revoke", "expire"} :
          db[e].license # NoRow /\ Begin(w, op, e, db[e].license) /\ used' = used
    BY DEF BeginRevokeLicense, BeginExpireLicense, Live
  <1>2. /\ db[e].license.source \in Sources /\ db[e].license.revoked \in BOOLEAN
        /\ db[e].license.source \in Licenses
    BY <1>1, FulfillmentOfRow DEF Sources
  <1>3. PICK r \in Request :
          /\ r.op = op /\ r.on = e /\ r.source = db[e].license.source
          /\ r.revoked = db[e].license.revoked
          /\ request' = [request EXCEPT ![w] = r]
          /\ request[w] = Idle
          /\ op \in Operations
          /\ UNCHANGED <<lms, db, reports, task, accepted>>
    BY <1>1, <1>2, BeginFacts
  <1> QED
    BY <1>1, <1>2, <1>3 DEF BeginStep

LEMMA QuietRows ==
    ASSUME TypeOK, NEW e \in Enrollments, NEW rows \in Rows, db' = [db EXCEPT ![e] = rows],
           rows.credit = db[e].credit,
           db[e].enrollment # NoRow /\ ~db[e].enrollment.unenrolled => ~rows.enrollment.unenrolled,
           task' \in [Enrollments -> TaskStates], UNCHANGED <<lms, reports, request, used, accepted>>
    PROVE  QuietStep
  BY DEF QuietStep, TypeOK

(* Every step is of one of the five kinds.                                 *)
LEMMA StepKinds ==
    ASSUME TypeOK, Next
    PROVE  \/ ModeStep \/ QuietStep \/ BeginStep
           \/ \E w \in Workers : RecordEnrollment(w) \/ RevokeFulfillment(w)
  <1>1. ASSUME NEW w \in Workers, EnrollInLms(w) PROVE ModeStep
    BY <1>1, ModeStepFacts DEF EnrollInLms, At, Modes
  <1>2. ASSUME NEW w \in Workers, CancelInLms(w) PROVE ModeStep
    BY <1>2, ModeStepFacts DEF CancelInLms, At
  <1>3. ASSUME NEW w \in Workers, TerminateInLms(w) PROVE ModeStep
    <2>1. request[w] # Idle /\ \E mode \in {"audit", "inactive"} : CallLms(w, mode)
      BY <1>3 DEF TerminateInLms, At
    <2> QED
      BY <2>1, ModeStepFacts DEF Modes
  <1>4. ASSUME NEW w \in Workers, EndRequest(w) PROVE QuietStep
    BY <1>4 DEF EndRequest, QuietStep, TypeOK
  <1>5. ASSUME NEW w \in Workers, NEW e \in Enrollments, Receive(w, e) PROVE BeginStep
    BY <1>5, BeginEnrollFacts, BeginCancelFacts, BeginTerminateFacts DEF Receive
  <1>6. ASSUME NEW e \in Enrollments, LearnerUnenroll(e) PROVE ModeStep
    BY <1>6 DEF LearnerUnenroll, ModeStep, SameRequests, TypeOK
  <1>7. ASSUME NEW e \in Enrollments, NEW mode \in Modes, LearnerEnroll(e, mode) PROVE ModeStep
    BY <1>7 DEF LearnerEnroll, ModeStep, SameRequests, TypeOK
  <1>8. ASSUME NEW e \in Enrollments, NEW b \in BOOLEAN, SaveForLater(e, b) PROVE QuietStep
    <2> DEFINE row  == [db[e].enrollment EXCEPT !.saved = b]
               rows == [db[e] EXCEPT !.enrollment = row]
    <2>1. db[e] \in Rows /\ db[e].enrollment \in EnrollmentRow
      BY <1>8 DEF SaveForLater, TypeOK, Rows
    <2>2. row \in EnrollmentRow /\ row.unenrolled = db[e].enrollment.unenrolled
      BY <2>1 DEF EnrollmentRow
    <2>3. db' = [db EXCEPT ![e] = rows]
      BY <1>8 DEF SaveForLater
    <2> HIDE DEF row
    <2>4. rows \in Rows /\ rows.credit = db[e].credit /\ rows.enrollment = row
      BY <2>1, <2>2 DEF Rows
    <2> HIDE DEF rows
    <2> QED
      BY <1>8, <2>2, <2>3, <2>4, QuietRows DEF SaveForLater, TypeOK
  <1>9. ASSUME NEW e \in Enrollments, NEW l \in Licenses, ConsentToEnroll(e, l) PROVE QuietStep
    <2> DEFINE rows == WithLicense(WithEnrollment(db[e]), l)
    <2>1. db[e] \in Rows
      BY DEF TypeOK
    <2>2. /\ rows \in Rows /\ rows.credit = db[e].credit
          /\ db[e].enrollment # NoRow => rows.enrollment = db[e].enrollment
      BY <2>1, WithEnrollmentFacts, WithLicenseFacts
    <2>3. db' = [db EXCEPT ![e] = rows]
      BY <1>9 DEF ConsentToEnroll
    <2> HIDE DEF rows
    <2> QED
      BY <1>9, <2>2, <2>3, QuietRows DEF ConsentToEnroll, TypeOK
  <1>10. ASSUME NEW e \in Enrollments, CreateEnterpriseEnrollment(e) PROVE QuietStep
    <2> DEFINE rows == WithEnrollment(db[e])
    <2>1. db[e] \in Rows
      BY DEF TypeOK
    <2>2. /\ rows \in Rows /\ rows.credit = db[e].credit
          /\ db[e].enrollment # NoRow => rows.enrollment = db[e].enrollment
      BY <2>1, WithEnrollmentFacts
    <2>3. db' = [db EXCEPT ![e] = rows]
      BY <1>10 DEF CreateEnterpriseEnrollment
    <2> HIDE DEF rows
    <2>4. task' \in [Enrollments -> TaskStates]
      BY <1>10 DEF CreateEnterpriseEnrollment, TypeOK, TaskStates
    <2> QED
      BY <1>10, <2>2, <2>3, <2>4, QuietRows DEF CreateEnterpriseEnrollment
  <1>11. ASSUME NEW e \in Enrollments, DropEnrollment(e) PROVE QuietStep
    BY <1>11 DEF DropEnrollment, QuietStep, TypeOK, TaskStates
  <1> QED
    BY <1>1, <1>2, <1>3, <1>4, <1>5, <1>6, <1>7, <1>8, <1>9, <1>10, <1>11 DEF Next, Serve, Learner

-----------------------------------------------------------------------------
(* What the two database steps do                                          *)

(* Recording an enrollment: the credit of a transaction that finds no live *)
(* one becomes the held credit, everything else keeps its credit, and      *)
(* nothing is reported.                                                    *)
LEMMA RecordFacts ==
    ASSUME TypeOK, NEW w \in Workers, RecordEnrollment(w)
    PROVE  /\ At(w, {"enroll"}, "save")
           /\ db' \in [Enrollments -> Rows]
           /\ reports' = reports
           /\ request' = [request EXCEPT ![w] = Idle]
           /\ accepted' = accepted \union ({request[w].source} \intersect Transactions)
           /\ UNCHANGED <<lms, task, used>>
           /\ \A d \in Enrollments : d # request[w].on => db'[d] = db[d]
           /\ request[w].source \notin Transactions => db'[request[w].on].credit = db[request[w].on].credit
           /\ request[w].source \in Transactions /\ ~Live(db[request[w].on].credit)
                => HeldBy(db'[request[w].on]) = {request[w].source}
           /\ request[w].source \in Transactions /\ Live(db[request[w].on].credit)
                => db'[request[w].on].credit = db[request[w].on].credit
           /\ /\ db[request[w].on].enrollment # NoRow /\ ~db[request[w].on].enrollment.unenrolled
              => ~db'[request[w].on].enrollment.unenrolled
  <1> DEFINE e     == request[w].on
             x     == request[w].source
             rows  == WithEnrollment(db[e])
             after == IF x \in Transactions THEN WithCredit(rows, x) ELSE WithLicense(rows, x)
  <1>1. /\ At(w, {"enroll"}, "save")
        /\ WriteRows(e, after, {})
        /\ accepted' = accepted \union ({x} \intersect Transactions)
        /\ request' = [request EXCEPT ![w] = Idle]
        /\ UNCHANGED <<lms, task, used>>
    BY DEF RecordEnrollment
  <1>2. e \in Enrollments /\ x \in Sources /\ db[e] \in Rows
    BY <1>1, RequestFacts DEF At, TypeOK
  <1> HIDE DEF e, x
  <1>3. /\ rows \in Rows /\ rows.enrollment # NoRow /\ rows.credit = db[e].credit
        /\ db[e].enrollment # NoRow => rows.enrollment = db[e].enrollment
    BY <1>2, WithEnrollmentFacts
  <1> HIDE DEF rows
  <1>4. /\ after \in Rows
        /\ x \notin Transactions => after.credit = rows.credit
        /\ x \in Transactions /\ ~Live(rows.credit) => HeldBy(after) = {x}
        /\ x \in Transactions /\ Live(rows.credit) => after.credit = rows.credit
        /\ ~rows.enrollment.unenrolled => ~after.enrollment.unenrolled
    <2>1. CASE x \in Transactions
      BY <2>1, <1>3, WithCreditFacts
    <2>2. CASE x \notin Transactions
      BY <2>2, <1>2, <1>3, WithLicenseFacts DEF Sources
    <2> QED
      BY <2>1, <2>2
  <1> HIDE DEF after
  <1>5. /\ db' \in [Enrollments -> Rows] /\ db'[e] = after
        /\ \A d \in Enrollments : d # e => db'[d] = db[d]
    BY <1>1, <1>2, <1>4, WriteRowsFacts
  <1>6. reports' = reports
    <2>1. reports' = [t \in Transactions |-> reports[t]]
      BY <1>1 DEF WriteRows, Report
    <2> QED
      BY <2>1 DEF TypeOK
  <1> QED
    BY <1>1, <1>3, <1>4, <1>5, <1>6 DEF e, x

(* Revoking a copy: the credit of the enrollment becomes a revoked row of  *)
(* the copy's transaction, which is reported, when the copy is of credit;  *)
(* when it is of a license the credit is as before or revoked, and what    *)
(* stops being held is reported.                                           *)
LEMMA RevokeFacts ==
    ASSUME TypeOK, NEW w \in Workers, RevokeFulfillment(w)
    PROVE  /\ At(w, {"cancel", "revoke", "expire"}, "save")
           /\ db' \in [Enrollments -> Rows]
           /\ reports' \in [Transactions -> Nat]
           /\ request' = [request EXCEPT ![w] = Idle]
           /\ UNCHANGED <<lms, task, used, accepted>>
           /\ db'[request[w].on] = RevokeCopy(db[request[w].on], request[w])
           /\ \A d \in Enrollments : d # request[w].on => db'[d] = db[d]
           /\ \A t \in Transactions :
                reports'[t] = IF t \in RevokedByCopy(db[request[w].on], request[w])
                              THEN reports[t] + 1 ELSE reports[t]
  <1> DEFINE e     == request[w].on
             after == RevokeCopy(db[e], request[w])
             sent  == RevokedByCopy(db[e], request[w])
  <1>1. /\ At(w, {"cancel", "revoke", "expire"}, "save")
        /\ WriteRows(e, after, sent)
        /\ request' = [request EXCEPT ![w] = Idle]
        /\ UNCHANGED <<lms, task, used, accepted>>
    BY DEF RevokeFulfillment
  <1>2. e \in Enrollments /\ db[e] \in Rows /\ request[w] \in Request
    BY <1>1, RequestFacts DEF At, TypeOK
  <1>3. after \in Rows
    BY <1>2, RevokeCopyFacts
  <1> HIDE DEF after, sent, e
  <1>4. /\ db' \in [Enrollments -> Rows] /\ db'[e] = after
        /\ reports' \in [Transactions -> Nat]
        /\ \A d \in Enrollments : d # e => db'[d] = db[d]
    BY <1>1, <1>2, <1>3, WriteRowsFacts
  <1>5. \A t \in Transactions : reports'[t] = IF t \in sent THEN reports[t] + 1 ELSE reports[t]
    BY <1>1, <1>2, <1>3, WriteRowsFacts
  <1> QED
    BY <1>1, <1>4, <1>5 DEF e, after, sent

-----------------------------------------------------------------------------
(* Type correctness                                                        *)

Redeems(w) == /\ request[w] # Idle /\ request[w].op = "enroll"
              /\ request[w].source \in Transactions
Cancels(w) == request[w] # Idle /\ request[w].op = "cancel"

\* A redemption in progress is of a transaction the client has created.
RedeemsUsed == \A w \in Workers : Redeems(w) => request[w].source \in used

TypeInvariant == TypeOK /\ RedeemsUsed

LEMMA TypeStep == TypeInvariant /\ [Next]_vars => TypeInvariant'
  <1> SUFFICES ASSUME TypeInvariant, [Next]_vars PROVE TypeInvariant'
    OBVIOUS
  <1> USE DEF TypeInvariant
  <1>1. CASE ModeStep
    <2>1. PICK e \in Enrollments, mode \in Modes \union {"inactive"} : SetMode(e, mode)
      BY <1>1 DEF ModeStep
    <2>2. TypeOK'
      BY <1>1, <2>1, SetModeFacts DEF ModeStep, TypeOK
    <2>3. RedeemsUsed'
      BY <1>1 DEF ModeStep, SameRequests, RedeemsUsed, Redeems
    <2> QED
      BY <2>2, <2>3
  <1>2. CASE QuietStep
    BY <1>2 DEF QuietStep, TypeOK, RedeemsUsed, Redeems
  <1>3. CASE BeginStep
    <2>1. PICK w \in Workers, r \in Request :
            /\ request' = [request EXCEPT ![w] = r]
            /\ UNCHANGED <<lms, db, reports, task, accepted>>
            /\ \/ r.op = "enroll" /\ used' = used \union ({r.source} \intersect Transactions)
               \/ r.op \in {"cancel", "revoke", "expire"} /\ used' = used
      BY <1>3 DEF BeginStep
    <2>2. TypeOK'
      BY <2>1 DEF TypeOK
    <2>3. request'[w] = r /\ \A v \in Workers : v # w => request'[v] = request[v]
      BY <2>1 DEF TypeOK
    <2>4. RedeemsUsed'
      BY <2>1, <2>3 DEF RedeemsUsed, Redeems
    <2> QED
      BY <2>2, <2>4
  <1>4. ASSUME NEW w \in Workers, RecordEnrollment(w) PROVE TypeInvariant'
    <2>1. /\ At(w, {"enroll"}, "save")
          /\ db' \in [Enrollments -> Rows]
          /\ reports' = reports
          /\ request' = [request EXCEPT ![w] = Idle]
          /\ accepted' = accepted \union ({request[w].source} \intersect Transactions)
          /\ UNCHANGED <<lms, task, used>>
      BY <1>4, RecordFacts
    <2>2. request'[w] = Idle /\ \A v \in Workers : v # w => request'[v] = request[v]
      BY <2>1 DEF TypeOK
    <2>3. request[w].source \in Transactions => request[w].source \in used
      BY <2>1 DEF RedeemsUsed, Redeems, At
    <2>4. TypeOK'
      BY <2>1, <2>3 DEF TypeOK
    <2>5. RedeemsUsed'
      BY <2>1, <2>2 DEF RedeemsUsed, Redeems
    <2> QED
      BY <2>4, <2>5
  <1>5. ASSUME NEW w \in Workers, RevokeFulfillment(w) PROVE TypeInvariant'
    <2>1. /\ db' \in [Enrollments -> Rows]
          /\ reports' \in [Transactions -> Nat]
          /\ request' = [request EXCEPT ![w] = Idle]
          /\ UNCHANGED <<lms, task, used, accepted>>
      BY <1>5, RevokeFacts
    <2>2. request'[w] = Idle /\ \A v \in Workers : v # w => request'[v] = request[v]
      BY <2>1 DEF TypeOK
    <2> QED
      BY <2>1, <2>2 DEF TypeOK, RedeemsUsed, Redeems
  <1>6. CASE UNCHANGED vars
    BY <1>6 DEF TypeOK, RedeemsUsed, Redeems, vars
  <1> QED
    BY <1>1, <1>2, <1>3, <1>4, <1>5, <1>6, StepKinds

(* Every variable keeps its type, for all enrollments, transactions,       *)
(* licenses and workers; an accepted transaction was created by a client.  *)
THEOREM TypeCorrect == Spec => []TypeOK
  <1>1. Init => TypeInvariant
    BY RowAssumption DEF Init, TypeInvariant, TypeOK, Rows, TaskStates, RedeemsUsed, Redeems
  <1>2. TypeInvariant => TypeOK
    BY DEF TypeInvariant
  <1> QED
    BY <1>1, <1>2, TypeStep, PTL DEF Spec

-----------------------------------------------------------------------------
(* Leaving an enrollment                                                   *)

(* Whatever requests overlap, and on whatever stale copies, the step that  *)
(* marks an enrollment unenrolled leaves neither fulfillment live: the     *)
(* mutual recursion of set_unenrolled and revoke ends with all revoked.    *)
THEOREM LeavingRevokesAll == Spec => LeavingRevokes
  <1> DEFINE Step == \A e \in Enrollments :
               /\ db[e].enrollment # NoRow /\ db'[e].enrollment # NoRow
               /\ ~db[e].enrollment.unenrolled /\ db'[e].enrollment.unenrolled
               => ~Live(db'[e].credit) /\ ~Live(db'[e].license)
  <1>1. TypeOK /\ [Next]_vars => [Step]_vars
    <2> SUFFICES ASSUME TypeOK, Next, NEW e \in Enrollments,
                        db[e].enrollment # NoRow, ~db[e].enrollment.unenrolled,
                        db'[e].enrollment.unenrolled
                 PROVE  ~Live(db'[e].credit) /\ ~Live(db'[e].license)
      OBVIOUS
    <2>1. db[e] \in Rows
      BY DEF TypeOK
    <2>2. CASE ModeStep
      <3>1. PICK d \in Enrollments, mode \in Modes \union {"inactive"} : SetMode(d, mode)
        BY <2>2 DEF ModeStep
      <3>2. /\ db'[d] = Received(db[d], lms[d], mode)
            /\ \A c \in Enrollments : c # d => db'[c] = db[c]
        BY <3>1, SetModeFacts
      <3>3. d = e
        BY <3>2
      <3> QED
        BY <2>1, <3>2, <3>3, ReceivedFacts
    <2>3. CASE QuietStep
      BY <2>3 DEF QuietStep
    <2>4. CASE BeginStep
      BY <2>4 DEF BeginStep
    <2>5. ASSUME NEW w \in Workers, RecordEnrollment(w)
          PROVE  ~Live(db'[e].credit) /\ ~Live(db'[e].license)
      BY <2>5, RecordFacts
    <2>6. ASSUME NEW w \in Workers, RevokeFulfillment(w)
          PROVE  ~Live(db'[e].credit) /\ ~Live(db'[e].license)
      <3>1. /\ request[w] # Idle
            /\ db'[request[w].on] = RevokeCopy(db[request[w].on], request[w])
            /\ \A c \in Enrollments : c # request[w].on => db'[c] = db[c]
        BY <2>6, RevokeFacts DEF At
      <3>2. request[w].on = e
        BY <3>1
      <3> QED
        BY <2>1, <3>1, <3>2, RevokeCopyFacts, RequestFacts
    <2> QED
      BY <2>2, <2>3, <2>4, <2>5, <2>6, StepKinds
  <1>2. Spec => []TypeOK
    BY TypeCorrect
  <1> HIDE DEF Step
  <1>3. Spec => [][Step]_vars
    BY <1>1, <1>2, PTL DEF Spec
  <1> QED
    BY <1>3 DEF Step, LeavingRevokes

-----------------------------------------------------------------------------
(* The mirror of an LMS enrollment                                         *)

\* No step takes an enrollment row away.
RowStays(e) == db'[e].enrollment = NoRow => db[e].enrollment = NoRow

(* What an enrollment that a step leaves alone in the LMS still has to     *)
(* come, it keeps: its task stays, or goes when the row is there.          *)
LEMMA MirrorKept ==
    ASSUME MirroredOrGivenUp, UNCHANGED lms,
           \A e \in Enrollments : RowStays(e) /\ (db'[e].enrollment = NoRow => task'[e] = task[e])
    PROVE  MirroredOrGivenUp'
  BY DEF MirroredOrGivenUp, RowStays

(* The receivers, a recorded enrollment and a revocation keep the row.     *)
LEMMA ReceivedRow ==
    ASSUME NEW rows \in Rows, NEW from, NEW to, Received(rows, from, to).enrollment = NoRow
    PROVE  rows.enrollment = NoRow
  BY EnrollmentRowFacts, LeaveAllFacts DEF Received, SetUnenrolled, SetEnrolled, Rows

LEMMA RecordedRow ==
    ASSUME TypeOK, NEW w \in Workers, RecordEnrollment(w)
    PROVE  db'[request[w].on].enrollment # NoRow
  <1> DEFINE e     == request[w].on
             x     == request[w].source
             rows  == WithEnrollment(db[e])
             after == IF x \in Transactions THEN WithCredit(rows, x) ELSE WithLicense(rows, x)
  <1>1. At(w, {"enroll"}, "save") /\ WriteRows(e, after, {})
    BY DEF RecordEnrollment
  <1>2. e \in Enrollments /\ x \in Sources /\ db[e] \in Rows
    BY <1>1, RequestFacts DEF At, TypeOK
  <1> HIDE DEF e, x
  <1>3. rows \in Rows /\ rows.enrollment # NoRow
    BY <1>2, WithEnrollmentFacts
  <1> HIDE DEF rows
  <1>4. after \in Rows /\ after.enrollment # NoRow
    BY <1>2, <1>3, WithCreditFacts, WithLicenseFacts DEF Sources
  <1> HIDE DEF after
  <1>5. db'[e] = after
    BY <1>1, <1>2, <1>4, WriteRowsFacts
  <1> QED
    BY <1>4, <1>5 DEF e

LEMMA RevokedRow ==
    ASSUME NEW rows \in Rows, NEW r \in Request, RevokeCopy(rows, r).enrollment = NoRow
    PROVE  rows.enrollment = NoRow
  <1> DEFINE written == [revoked |-> TRUE, source |-> r.source]
             saved   == IF r.source \in Transactions THEN [rows EXCEPT !.credit = written]
                                                     ELSE [rows EXCEPT !.license = written]
  <1>1. saved.enrollment = rows.enrollment
    BY DEF Rows
  <1>2. LeaveAll(saved).enrollment = Left
    BY DEF LeaveAll
  <1>3. RevokeCopy(rows, r) = IF r.revoked THEN rows
                              ELSE IF r.unenrolled THEN saved ELSE LeaveAll(saved)
    BY DEF RevokeCopy
  <1> HIDE DEF saved, written
  <1> QED
    BY <1>1, <1>2, <1>3, EnrollmentRowFacts

LEMMA MirrorMode == TypeOK /\ MirroredOrGivenUp /\ ModeStep => MirroredOrGivenUp'
  <1> SUFFICES ASSUME TypeOK, MirroredOrGivenUp,
                      NEW e \in Enrollments, NEW mode \in Modes \union {"inactive"}, SetMode(e, mode),
                      NEW d \in Enrollments, lms'[d] # "none", db'[d].enrollment = NoRow
               PROVE  task'[d] # "none"
    BY DEF ModeStep, MirroredOrGivenUp
  <1>1. /\ lms' = [lms EXCEPT ![e] = mode]
        /\ db'[e] = Received(db[e], lms[e], mode)
        /\ d # e => db'[d] = db[d]
    BY SetModeFacts DEF SetMode
  <1>2. PICK t \in IF lms[e] = "none" THEN {"queued", "dropped"} ELSE {task[e]} :
          task' = [task EXCEPT ![e] = t]
    BY DEF SetMode
  <1>3. db[d].enrollment = NoRow
    BY <1>1, ReceivedRow DEF TypeOK
  <1>4. CASE d = e
    BY <1>2, <1>3, <1>4 DEF MirroredOrGivenUp, TypeOK
  <1>5. CASE d # e
    BY <1>1, <1>2, <1>3, <1>5 DEF MirroredOrGivenUp, TypeOK
  <1> QED
    BY <1>4, <1>5

LEMMA MirrorServe ==
    ASSUME TypeOK, MirroredOrGivenUp, NEW w \in Workers, RecordEnrollment(w) \/ RevokeFulfillment(w)
    PROVE  MirroredOrGivenUp'
  <1>1. UNCHANGED <<lms, task>>
    BY DEF RecordEnrollment, RevokeFulfillment
  <1>2. \A e \in Enrollments : RowStays(e)
    <2>1. CASE RecordEnrollment(w)
      BY <2>1, RecordFacts, RecordedRow DEF RowStays
    <2>2. CASE RevokeFulfillment(w)
      <3>1. request[w] \in Request
        BY <2>2, RequestFacts DEF RevokeFulfillment, At
      <3> QED
        BY <2>2, <3>1, RevokeFacts, RevokedRow DEF RowStays, TypeOK
    <2> QED
      BY <2>1, <2>2
  <1> QED
    BY <1>1, <1>2, MirrorKept

LEMMA MirrorLearner ==
    ASSUME TypeOK, MirroredOrGivenUp, NEW e \in Enrollments,
           \/ \E saved \in BOOLEAN : SaveForLater(e, saved)
           \/ \E l \in Licenses : ConsentToEnroll(e, l)
           \/ CreateEnterpriseEnrollment(e)
    PROVE  MirroredOrGivenUp'
  <1>1. db[e] \in Rows /\ UNCHANGED lms
    BY DEF TypeOK, SaveForLater, ConsentToEnroll, CreateEnterpriseEnrollment
  <1>2. CASE \E saved \in BOOLEAN : SaveForLater(e, saved)
    <2>1. PICK b \in BOOLEAN : SaveForLater(e, b)
      BY <1>2
    <2> DEFINE row  == [db[e].enrollment EXCEPT !.saved = b]
               rows == [db[e] EXCEPT !.enrollment = row]
    <2>2. db' = [db EXCEPT ![e] = rows] /\ UNCHANGED task /\ db[e].enrollment # NoRow
      BY <2>1 DEF SaveForLater
    <2>3. row \in EnrollmentRow
      BY <1>1, <2>2 DEF Rows, EnrollmentRow
    <2> HIDE DEF row
    <2>4. rows.enrollment # NoRow
      BY <1>1, <2>3, RowAssumption DEF Rows
    <2> HIDE DEF rows
    <2> QED
      BY <1>1, <2>2, <2>4, MirrorKept DEF RowStays, TypeOK
  <1>3. CASE \E l \in Licenses : ConsentToEnroll(e, l)
    <2>1. PICK l \in Licenses : ConsentToEnroll(e, l)
      BY <1>3
    <2> DEFINE rows == WithLicense(WithEnrollment(db[e]), l)
    <2>2. db' = [db EXCEPT ![e] = rows] /\ UNCHANGED task
      BY <2>1 DEF ConsentToEnroll
    <2>3. rows.enrollment # NoRow
      BY <1>1, WithEnrollmentFacts, WithLicenseFacts
    <2> HIDE DEF rows
    <2> QED
      BY <1>1, <2>2, <2>3, MirrorKept DEF RowStays, TypeOK
  <1>4. CASE CreateEnterpriseEnrollment(e)
    <2> DEFINE rows == WithEnrollment(db[e])
    <2>1. db' = [db EXCEPT ![e] = rows] /\ task' = [task EXCEPT ![e] = "none"]
      BY <1>4 DEF CreateEnterpriseEnrollment
    <2>2. rows.enrollment # NoRow
      BY <1>1, WithEnrollmentFacts
    <2> HIDE DEF rows
    <2> QED
      BY <1>1, <2>1, <2>2, MirrorKept DEF RowStays, TypeOK
  <1> QED
    BY <1>2, <1>3, <1>4

LEMMA MirrorStep == TypeOK /\ MirroredOrGivenUp /\ [Next]_vars => MirroredOrGivenUp'
  <1> SUFFICES ASSUME TypeOK, MirroredOrGivenUp, [Next]_vars PROVE MirroredOrGivenUp'
    OBVIOUS
  <1>1. CASE ModeStep
    BY <1>1, MirrorMode
  <1>2. ASSUME NEW w \in Workers, RecordEnrollment(w) \/ RevokeFulfillment(w)
        PROVE  MirroredOrGivenUp'
    BY <1>2, MirrorServe
  <1>3. CASE BeginStep \/ UNCHANGED vars \/ \E w \in Workers : EndRequest(w)
    <2>1. UNCHANGED <<lms, db, task>>
      BY <1>3 DEF BeginStep, vars, EndRequest
    <2> QED
      BY <2>1 DEF MirroredOrGivenUp
  <1>4. ASSUME NEW e \in Enrollments, Learner(e) \/ CreateEnterpriseEnrollment(e)
        PROVE  MirroredOrGivenUp' \/ ModeStep
    <2>1. LearnerUnenroll(e) \/ (\E mode \in Modes : LearnerEnroll(e, mode)) => ModeStep
      BY DEF LearnerUnenroll, LearnerEnroll, ModeStep, SameRequests, TypeOK
    <2> QED
      BY <1>4, <2>1, MirrorLearner DEF Learner
  <1>5. ASSUME NEW e \in Enrollments, DropEnrollment(e) PROVE MirroredOrGivenUp'
    <2>1. UNCHANGED <<lms, db>> /\ task' = [task EXCEPT ![e] = "dropped"]
      BY <1>5 DEF DropEnrollment
    <2> QED
      BY <2>1 DEF MirroredOrGivenUp, TypeOK
  <1>6. ASSUME NEW w \in Workers, Serve(w)
        PROVE  MirroredOrGivenUp' \/ ModeStep
    <2>1. EnrollInLms(w) \/ CancelInLms(w) => ModeStep
      BY ModeStepFacts DEF EnrollInLms, CancelInLms, At, Modes
    <2>2. TerminateInLms(w) => ModeStep
      <3>1. TerminateInLms(w) => request[w] # Idle /\ \E mode \in {"audit", "inactive"} : CallLms(w, mode)
        BY DEF TerminateInLms, At
      <3> QED
        BY <3>1, ModeStepFacts DEF Modes
    <2> QED
      BY <1>2, <1>3, <1>6, <2>1, <2>2 DEF Serve
  <1>7. ASSUME NEW w \in Workers, NEW e \in Enrollments, Receive(w, e) PROVE BeginStep
    BY <1>7, BeginEnrollFacts, BeginCancelFacts, BeginTerminateFacts DEF Receive
  <1> QED
    BY <1>1, <1>2, <1>3, <1>4, <1>5, <1>6, <1>7 DEF Next

(* An LMS enrollment is mirrored by a row, has its task to come, or was    *)
(* given up by the receiver or the task: no request that dies after its    *)
(* LMS call, and no interleaving, leaves one that nothing will mirror.     *)
THEOREM EnrollmentsMirrored == Spec => []MirroredOrGivenUp
  <1>1. Init => MirroredOrGivenUp
    BY DEF Init, MirroredOrGivenUp
  <1>2. Spec => []TypeOK
    BY TypeCorrect
  <1> QED
    BY <1>1, <1>2, MirrorStep, PTL DEF Spec

-----------------------------------------------------------------------------
(* No accepted transaction is lost                                         *)

\* Requests that end a license hold a license.
TerminatesLicense ==
    \A w \in Workers :
        request[w] # Idle /\ request[w].op \in {"revoke", "expire"} => request[w].source \in Licenses

\* The credit copy of a cancellation still has the transaction of its row.
CancelsCurrent ==
    \A w \in Workers :
        Cancels(w) /\ request[w].source \in Transactions =>
            /\ db[request[w].on].credit # NoRow
            /\ db[request[w].on].credit.source = request[w].source

NoRedeemWhileCancelling ==
    \A v, w \in Workers : Cancels(v) /\ Redeems(w) => request[v].on # request[w].on

OneRedemption ==
    \A v, w \in Workers : Redeems(v) /\ Redeems(w) /\ request[v].on = request[w].on => v = w

RedeemsUnheld ==
    \A w \in Workers : Redeems(w) => ~Live(db[request[w].on].credit)

RequestInvariant ==
    /\ TerminatesLicense /\ CancelsCurrent /\ NoRedeemWhileCancelling
    /\ OneRedemption /\ RedeemsUnheld

\* A step that starts no request, and what it may do to credit.
NoNewRequest ==
    \A v \in Workers :
        \/ request'[v] = Idle
        \/ /\ request[v] # Idle /\ request'[v] # Idle
           /\ request'[v].op = request[v].op /\ request'[v].on = request[v].on
           /\ request'[v].source = request[v].source

CreditAges(e) ==
    /\ db[e].credit # NoRow => /\ db'[e].credit # NoRow
                               /\ db'[e].credit.source = db[e].credit.source
    /\ ~Live(db[e].credit) => ~Live(db'[e].credit)

LEMMA AgedCredit ==
    ASSUME TypeOK, NEW e \in Enrollments,
           db'[e].credit \in {db[e].credit, Revoked(db[e].credit)}
    PROVE  CreditAges(e)
  <1>1. db[e] \in Rows
    BY DEF TypeOK
  <1> QED
    BY <1>1, RevokedFacts DEF CreditAges

(* Ending requests and ageing credit disturb no request invariant.         *)
LEMMA RequestInvariantKept ==
    ASSUME TypeOK, RequestInvariant, NoNewRequest,
           \A v \in Workers : request'[v] # Idle /\ (Redeems(v) \/ Cancels(v)) => CreditAges(request[v].on)
    PROVE  RequestInvariant'
  <1>1. \A v \in Workers : Redeems(v)' => /\ Redeems(v) /\ request'[v] # Idle
                                          /\ request'[v].on = request[v].on
                                          /\ request'[v].source = request[v].source
    BY DEF NoNewRequest, Redeems
  <1>2. \A v \in Workers : Cancels(v)' => /\ Cancels(v) /\ request'[v] # Idle
                                          /\ request'[v].on = request[v].on
                                          /\ request'[v].source = request[v].source
    BY DEF NoNewRequest, Cancels
  <1>3. TerminatesLicense'
    BY DEF RequestInvariant, TerminatesLicense, NoNewRequest
  <1>4. CancelsCurrent'
    <2> SUFFICES ASSUME NEW w \in Workers, Cancels(w)', request'[w].source \in Transactions
                 PROVE  /\ db'[request'[w].on].credit # NoRow
                        /\ db'[request'[w].on].credit.source = request'[w].source
      BY DEF CancelsCurrent
    <2> QED
      BY <1>2 DEF CreditAges, RequestInvariant, CancelsCurrent
  <1>5. NoRedeemWhileCancelling'
    BY <1>1, <1>2 DEF RequestInvariant, NoRedeemWhileCancelling
  <1>6. OneRedemption'
    BY <1>1 DEF RequestInvariant, OneRedemption
  <1>7. RedeemsUnheld'
    <2> SUFFICES ASSUME NEW w \in Workers, Redeems(w)'
                 PROVE  ~Live(db'[request'[w].on].credit)
      BY DEF RedeemsUnheld
    <2> QED
      BY <1>1 DEF CreditAges, RequestInvariant, RedeemsUnheld
  <1> QED
    BY <1>3, <1>4, <1>5, <1>6, <1>7 DEF RequestInvariant

(* A request that begins finds no other of the kind that would disturb it, *)
(* provided the client lets no redemption overlap.                         *)
LEMMA RequestInvariantBegun ==
    ASSUME TypeOK, RequestInvariant, BeginStep, Overlaps = {}
    PROVE  RequestInvariant'
  <1>1. PICK w \in Workers, r \in Request :
          /\ request[w] = Idle
          /\ request' = [request EXCEPT ![w] = r]
          /\ UNCHANGED <<lms, db, reports, task, accepted>>
          /\ \/ r.op = "enroll" /\ (r.source \in Transactions => Redeemable(r.on))
             \/ /\ r.op = "cancel" /\ Redeeming(r.on) = {}
                /\ r.source \in Transactions => /\ Live(db[r.on].credit)
                                                /\ db[r.on].credit.source = r.source
             \/ r.op \in {"revoke", "expire"} /\ r.source \in Licenses
    BY DEF BeginStep
  <1>2. request'[w] = r /\ r # Idle /\ \A v \in Workers : v # w => request'[v] = request[v]
    BY <1>1, RequestAssumption DEF TypeOK
  <1>3. \A v \in Workers : v # w => /\ Redeems(v)' <=> Redeems(v)
                                    /\ Cancels(v)' <=> Cancels(v)
    BY <1>2 DEF Redeems, Cancels
  <1>4. Redeems(w)' => /\ r.op = "enroll" /\ ~Live(db[r.on].credit)
                       /\ Redeeming(r.on) = {} /\ Cancelling(r.on) = {}
    BY <1>1, <1>2 DEF Redeems, Redeemable
  <1>5. Cancels(w)' => /\ Redeeming(r.on) = {}
                       /\ r.source \in Transactions => /\ db[r.on].credit # NoRow
                                                       /\ db[r.on].credit.source = r.source
    BY <1>1, <1>2 DEF Cancels, Live
  <1>6. ~(Redeems(w)' /\ Cancels(w)')
    BY DEF Redeems, Cancels
  <1>7. \A v \in Workers : /\ Redeems(v) => v \in Redeeming(request[v].on)
                           /\ Cancels(v) => v \in Cancelling(request[v].on)
    BY DEF Redeems, Cancels, Redeeming, Cancelling, Serving
  <1>8. TerminatesLicense'
    BY <1>1, <1>2 DEF RequestInvariant, TerminatesLicense
  <1>9. CancelsCurrent'
    <2> SUFFICES ASSUME NEW v \in Workers, Cancels(v)', request'[v].source \in Transactions
                 PROVE  /\ db[request'[v].on].credit # NoRow
                        /\ db[request'[v].on].credit.source = request'[v].source
      BY <1>1 DEF CancelsCurrent
    <2>1. CASE v = w
      BY <2>1, <1>2, <1>5
    <2>2. CASE v # w
      BY <2>2, <1>2, <1>3 DEF RequestInvariant, CancelsCurrent
    <2> QED
      BY <2>1, <2>2
  <1>10. NoRedeemWhileCancelling'
    <2> SUFFICES ASSUME NEW v \in Workers, NEW u \in Workers, Cancels(v)', Redeems(u)',
                        request'[v].on = request'[u].on
                 PROVE  FALSE
      BY DEF NoRedeemWhileCancelling
    <2>1. CASE v = w
      BY <2>1, <1>2, <1>3, <1>5, <1>6, <1>7
    <2>2. CASE u = w
      BY <2>2, <1>2, <1>3, <1>4, <1>6, <1>7
    <2>3. CASE v # w /\ u # w
      BY <2>3, <1>2, <1>3 DEF RequestInvariant, NoRedeemWhileCancelling
    <2> QED
      BY <2>1, <2>2, <2>3
  <1>11. OneRedemption'
    <2> SUFFICES ASSUME NEW v \in Workers, NEW u \in Workers, Redeems(v)', Redeems(u)',
                        request'[v].on = request'[u].on, v # u
                 PROVE  FALSE
      BY DEF OneRedemption
    <2>1. CASE v = w
      BY <2>1, <1>2, <1>3, <1>4, <1>7
    <2>2. CASE u = w
      BY <2>2, <1>2, <1>3, <1>4, <1>7
    <2>3. CASE v # w /\ u # w
      BY <2>3, <1>2, <1>3 DEF RequestInvariant, OneRedemption
    <2> QED
      BY <2>1, <2>2, <2>3
  <1>12. RedeemsUnheld'
    <2> SUFFICES ASSUME NEW v \in Workers, Redeems(v)'
                 PROVE  ~Live(db[request'[v].on].credit)
      BY <1>1 DEF RedeemsUnheld
    <2>1. CASE v = w
      BY <2>1, <1>2, <1>4
    <2>2. CASE v # w
      BY <2>2, <1>2, <1>3 DEF RequestInvariant, RedeemsUnheld
    <2> QED
      BY <2>1, <2>2
  <1> QED
    BY <1>8, <1>9, <1>10, <1>11, <1>12 DEF RequestInvariant

(* What is held stays held or is reported, and what is accepted is held:   *)
(* then nothing is lost.                                                   *)
LEMMA SettledKept ==
    ASSUME TypeOK, Settled, reports' \in [Transactions -> Nat],
           \A e \in Enrollments : \A t \in HeldBy(db[e]) : t \in HeldBy(db'[e]) \/ reports'[t] > 0,
           \A t \in Transactions : reports[t] > 0 => reports'[t] > 0,
           \A t \in accepted' : t \in accepted \/ \E e \in Enrollments : t \in HeldBy(db'[e])
    PROVE  Settled'
  BY DEF TypeOK, Settled

SettledInvariant == TypeInvariant /\ RequestInvariant /\ Settled

(* The receivers of an LMS change report all that they revoke.             *)
LEMMA SettledMode == SettledInvariant /\ ModeStep => RequestInvariant' /\ Settled'
  <1> SUFFICES ASSUME SettledInvariant, ModeStep PROVE RequestInvariant' /\ Settled'
    OBVIOUS
  <1> USE DEF SettledInvariant, TypeInvariant
  <1>1. PICK d \in Enrollments, mode \in Modes \union {"inactive"} : SetMode(d, mode)
    BY DEF ModeStep
  <1>2. /\ reports' \in [Transactions -> Nat]
        /\ db'[d] = Received(db[d], lms[d], mode)
        /\ \A e \in Enrollments : e # d => db'[e] = db[e]
        /\ \A t \in Transactions :
             reports'[t] = IF t \in HeldBy(db[d]) \ HeldBy(db'[d]) THEN reports[t] + 1 ELSE reports[t]
    BY <1>1, SetModeFacts
  <1>3. db[d] \in Rows
    BY DEF TypeOK
  <1>4. \A e \in Enrollments : CreditAges(e)
    <2>1. CreditAges(d)
      BY <1>2, <1>3, ReceivedFacts, AgedCredit
    <2>2. \A e \in Enrollments : e # d => CreditAges(e)
      BY <1>2 DEF CreditAges
    <2> QED
      BY <2>1, <2>2
  <1>5. NoNewRequest /\ \A v \in Workers : request'[v] # Idle => request[v] # Idle
    BY DEF ModeStep, SameRequests, NoNewRequest
  <1>6. RequestInvariant'
    BY <1>4, <1>5, RequestFacts, RequestInvariantKept
  <1>7. \A e \in Enrollments : HeldBy(db[e]) \subseteq Transactions
    BY FulfillmentOfRow DEF HeldBy, Live
  <1>8. \A t \in Transactions : reports[t] \in Nat
    BY DEF TypeOK
  <1>9. \A t \in Transactions : reports[t] > 0 => reports'[t] > 0
    BY <1>2, <1>8
  <1>10. \A t \in HeldBy(db[d]) : t \in HeldBy(db'[d]) \/ reports'[t] > 0
    BY <1>2, <1>7, <1>8
  <1>11. \A e \in Enrollments : e # d => HeldBy(db'[e]) = HeldBy(db[e])
    BY <1>2
  <1>12. accepted' = accepted
    BY DEF ModeStep
  <1>13. \A e \in Enrollments : \A t \in HeldBy(db[e]) : t \in HeldBy(db'[e]) \/ reports'[t] > 0
    BY <1>10, <1>11
  <1>14. Settled'
    BY <1>2, <1>9, <1>12, <1>13, SettledKept
  <1> QED
    BY <1>6, <1>14

(* A recorded transaction takes the place of no other: its redemption is   *)
(* the only one of the enrollment, which holds nothing and is not being    *)
(* cancelled.                                                              *)
LEMMA SettledRecord ==
    ASSUME SettledInvariant, NEW w \in Workers, RecordEnrollment(w)
    PROVE  RequestInvariant' /\ Settled'
  <1> USE DEF SettledInvariant, TypeInvariant
  <1> DEFINE e == request[w].on
             x == request[w].source
  <1>1. /\ At(w, {"enroll"}, "save")
        /\ reports' = reports
        /\ request' = [request EXCEPT ![w] = Idle]
        /\ accepted' = accepted \union ({x} \intersect Transactions)
        /\ \A d \in Enrollments : d # e => db'[d] = db[d]
        /\ x \notin Transactions => db'[e].credit = db[e].credit
        /\ x \in Transactions /\ ~Live(db[e].credit) => HeldBy(db'[e]) = {x}
    BY RecordFacts
  <1>2. request[w] # Idle /\ e \in Enrollments /\ (x \in Transactions => Redeems(w))
    BY <1>1, RequestFacts DEF At, Redeems
  <1>3. request'[w] = Idle /\ \A v \in Workers : v # w => request'[v] = request[v]
    BY <1>1 DEF TypeOK
  <1>4. NoNewRequest
    BY <1>3 DEF NoNewRequest
  <1>5. \A d \in Enrollments : d # e \/ x \notin Transactions => CreditAges(d)
    BY <1>1 DEF CreditAges
  <1>6. ASSUME NEW v \in Workers, request'[v] # Idle, Redeems(v) \/ Cancels(v)
        PROVE  CreditAges(request[v].on)
    <2>1. v # w /\ request[v] # Idle
      BY <1>3, <1>6
    <2>2. request[v].on \in Enrollments
      BY <2>1, RequestFacts
    <2>3. x \in Transactions => request[v].on # e
      BY <1>2, <1>6, <2>1 DEF RequestInvariant, NoRedeemWhileCancelling, OneRedemption
    <2> QED
      BY <1>5, <2>2, <2>3
  <1>7. RequestInvariant'
    BY <1>4, <1>6, RequestInvariantKept
  <1>8. x \in Transactions => ~Live(db[e].credit)
    BY <1>2 DEF RequestInvariant, RedeemsUnheld
  <1> HIDE DEF e, x
  <1>9. x \in Transactions => HeldBy(db[e]) = {}
    BY <1>8 DEF HeldBy
  <1>10. x \notin Transactions => HeldBy(db'[e]) = HeldBy(db[e])
    BY <1>1 DEF HeldBy
  <1>11. \A d \in Enrollments : d # e => HeldBy(db'[d]) = HeldBy(db[d])
    BY <1>1
  <1>12. \A d \in Enrollments : \A t \in HeldBy(db[d]) : t \in HeldBy(db'[d])
    BY <1>9, <1>10, <1>11
  <1>13. \A t \in accepted' : t \in accepted \/ \E d \in Enrollments : t \in HeldBy(db'[d])
    BY <1>1, <1>2, <1>8
  <1>14. Settled'
    BY <1>1, <1>12, <1>13, SettledKept DEF TypeOK
  <1> QED
    BY <1>7, <1>14

(* A copy of credit is of the transaction its row still has, so writing it *)
(* back loses no other; a copy of a license reports the credit it revokes. *)
LEMMA SettledRevoke ==
    ASSUME SettledInvariant, NEW w \in Workers, RevokeFulfillment(w)
    PROVE  RequestInvariant' /\ Settled'
  <1> USE DEF SettledInvariant, TypeInvariant
  <1> DEFINE e     == request[w].on
             r     == request[w]
             after == RevokeCopy(db[e], r)
             sent  == RevokedByCopy(db[e], r)
  <1>1. /\ At(w, {"cancel", "revoke", "expire"}, "save")
        /\ reports' \in [Transactions -> Nat]
        /\ request' = [request EXCEPT ![w] = Idle]
        /\ UNCHANGED accepted
        /\ db'[e] = after
        /\ \A d \in Enrollments : d # e => db'[d] = db[d]
    BY RevokeFacts
  <1>2. \A t \in Transactions : reports'[t] = IF t \in sent THEN reports[t] + 1 ELSE reports[t]
    BY RevokeFacts
  <1>3. r # Idle /\ e \in Enrollments /\ db[e] \in Rows /\ r \in Request
    BY <1>1, RequestFacts DEF At, TypeOK
  <1>4. r.source \in Transactions => /\ db[e].credit # NoRow
                                     /\ db[e].credit.source = r.source
    BY <1>1, <1>3, SourceAssumption
       DEF At, RequestInvariant, TerminatesLicense, CancelsCurrent, Cancels
  <1>5. CreditAges(e)
    <2>1. CASE r.source \notin Transactions
      BY <2>1, <1>1, <1>3, RevokeCopyFacts, AgedCredit
    <2>2. CASE r.source \in Transactions /\ r.revoked
      BY <2>2, <1>1 DEF RevokeCopy, CreditAges
    <2>3. CASE r.source \in Transactions /\ ~r.revoked
      BY <2>3, <1>1, <1>3, <1>4, RevokeCopyFacts DEF CreditAges
    <2> QED
      BY <2>1, <2>2, <2>3
  <1>6. \A d \in Enrollments : CreditAges(d)
    BY <1>1, <1>5 DEF CreditAges
  <1>7. request'[w] = Idle /\ \A v \in Workers : v # w => request'[v] = request[v]
    BY <1>1 DEF TypeOK
  <1>8. NoNewRequest /\ \A v \in Workers : request'[v] # Idle => request[v] # Idle
    BY <1>7 DEF NoNewRequest
  <1>9. RequestInvariant'
    BY <1>6, <1>8, RequestFacts, RequestInvariantKept
  <1>10. \A t \in HeldBy(db[e]) : t \in Transactions /\ (t \in HeldBy(db'[e]) \/ t \in sent)
    <2>1. HeldBy(db[e]) \subseteq Transactions
      BY <1>3, FulfillmentOfRow DEF HeldBy, Live
    <2>2. CASE r.source \notin Transactions
      <3>1. sent = HeldBy(db[e]) \ HeldBy(after)
        BY <2>2 DEF RevokedByCopy
      <3>2. HeldBy(db'[e]) = HeldBy(after)
        <4>1. db'[e] = after
          BY <1>1
        <4> QED
          BY <4>1
      <3> HIDE DEF sent, after
      <3> QED
        BY <2>1, <3>1, <3>2
    <2>3. CASE r.source \in Transactions /\ r.revoked
      BY <2>1, <2>3, <1>1 DEF RevokeCopy
    <2>4. CASE r.source \in Transactions /\ ~r.revoked
      <3>1. sent = {r.source}
        BY <2>4 DEF RevokedByCopy
      <3> QED
        BY <2>1, <2>4, <3>1, <1>4 DEF HeldBy
    <2> QED
      BY <2>2, <2>3, <2>4
  <1> HIDE DEF e, sent
  <1>11. \A t \in Transactions : reports[t] \in Nat
    BY DEF TypeOK
  <1>12. \A t \in Transactions : (reports[t] > 0 \/ t \in sent) => reports'[t] > 0
    BY <1>2, <1>11
  <1>13. \A d \in Enrollments : d # e => HeldBy(db'[d]) = HeldBy(db[d])
    BY <1>1
  <1>14. \A d \in Enrollments : \A t \in HeldBy(db[d]) : t \in HeldBy(db'[d]) \/ reports'[t] > 0
    BY <1>10, <1>12, <1>13
  <1>15. Settled'
    BY <1>1, <1>12, <1>14, SettledKept
  <1> QED
    BY <1>9, <1>15

\* The invariant is inductive as long as redemptions do not overlap.
LEMMA SettledHolds ==
    ASSUME Overlaps = {}
    PROVE  Spec => []SettledInvariant
  <1>1. Init => SettledInvariant
    <2> SUFFICES ASSUME Init PROVE SettledInvariant
      OBVIOUS
    <2>1. TypeInvariant
      BY RowAssumption DEF Init, TypeInvariant, TypeOK, Rows, TaskStates, RedeemsUsed, Redeems
    <2>2. RequestInvariant
      BY DEF Init, RequestInvariant, TerminatesLicense, CancelsCurrent, NoRedeemWhileCancelling,
             OneRedemption, RedeemsUnheld, Redeems, Cancels
    <2>3. Settled
      BY DEF Init, Settled
    <2> QED
      BY <2>1, <2>2, <2>3 DEF SettledInvariant
  <1>2. SettledInvariant /\ [Next]_vars => SettledInvariant'
    <2> SUFFICES ASSUME SettledInvariant, [Next]_vars PROVE RequestInvariant' /\ Settled'
      BY TypeStep DEF SettledInvariant
    <2> USE DEF SettledInvariant, TypeInvariant
    <2>1. CASE ModeStep
      BY <2>1, SettledMode
    <2>2. CASE QuietStep
      <3>1. NoNewRequest /\ \A v \in Workers : request'[v] # Idle => request[v] # Idle
        BY <2>2 DEF QuietStep, NoNewRequest
      <3>2. \A e \in Enrollments : CreditAges(e) /\ HeldBy(db'[e]) = HeldBy(db[e])
        BY <2>2 DEF QuietStep, CreditAges, HeldBy
      <3>3. RequestInvariant'
        BY <3>1, <3>2, RequestFacts, RequestInvariantKept
      <3>4. Settled'
        BY <2>2, <3>2, SettledKept DEF QuietStep, TypeOK
      <3> QED
        BY <3>3, <3>4
    <2>3. CASE BeginStep
      <3>1. UNCHANGED <<db, reports, accepted>>
        BY <2>3 DEF BeginStep
      <3> QED
        BY <2>3, <3>1, RequestInvariantBegun DEF Settled
    <2>4. CASE UNCHANGED vars
      BY <2>4 DEF vars, Settled, RequestInvariant, TerminatesLicense, CancelsCurrent,
                  NoRedeemWhileCancelling, OneRedemption, RedeemsUnheld, Redeems, Cancels
    <2> QED
      BY <2>1, <2>2, <2>3, <2>4, StepKinds, SettledRecord, SettledRevoke
  <1> QED
    BY <1>1, <1>2, PTL DEF Spec

(* Whatever the order in which the requests of any number of workers, the  *)
(* learner and the task interleave, a client that redeems one transaction  *)
(* at a time and never while the enrollment is being cancelled loses none: *)
(* each accepted transaction is held by a live fulfillment or reported.    *)
THEOREM NoTransactionLost ==
    ASSUME Overlaps = {}
    PROVE  Spec => []Settled
  <1>1. SettledInvariant => Settled
    BY DEF SettledInvariant
  <1> QED
    BY <1>1, SettledHolds, PTL

-----------------------------------------------------------------------------
(* No transaction is reported twice                                        *)

NoCancellation ==
    \A w \in Workers : request[w] # Idle =>
        /\ request[w].op # "cancel"
        /\ request[w].op \in {"revoke", "expire"} => request[w].source \in Licenses

HeldUnreported ==
    \A e \in Enrollments : \A t \in HeldBy(db[e]) : t \in used /\ reports[t] = 0

HeldOnce ==
    \A d, e \in Enrollments : \A t \in HeldBy(db[d]) : t \in HeldBy(db[e]) => d = e

RedeemsFresh ==
    \A w \in Workers : Redeems(w) =>
        /\ reports[request[w].source] = 0
        /\ \A e \in Enrollments : request[w].source \notin HeldBy(db[e])

RedeemsApart ==
    \A v, w \in Workers : Redeems(v) /\ Redeems(w) /\ request[v].source = request[w].source => v = w

UnusedUnreported == \A t \in Transactions : t \notin used => reports[t] = 0

OnceInvariant ==
    /\ NoCancellation /\ HeldUnreported /\ HeldOnce
    /\ RedeemsFresh /\ RedeemsApart /\ UnusedUnreported /\ ReportedOnce

LEMMA HeldType ==
    ASSUME TypeOK, NEW e \in Enrollments
    PROVE  HeldBy(db[e]) \subseteq Transactions
  BY FulfillmentOfRow DEF HeldBy, Live

(* A step that only lets go of transactions, and reports those once.       *)
LEMMA OnceKept ==
    ASSUME TypeOK, OnceInvariant, NoNewRequest, UNCHANGED used, NEW sent \in SUBSET Transactions,
           \A e \in Enrollments : HeldBy(db'[e]) \subseteq HeldBy(db[e]),
           \A t \in sent : \E d \in Enrollments : t \in HeldBy(db[d]),
           \A t \in sent : \A e \in Enrollments : t \notin HeldBy(db'[e]),
           \A t \in Transactions : reports'[t] = IF t \in sent THEN reports[t] + 1 ELSE reports[t]
    PROVE  OnceInvariant'
  <1> USE DEF OnceInvariant
  <1>1. \A v \in Workers : Redeems(v)' => /\ Redeems(v) /\ request'[v].source = request[v].source
                                          /\ request[v].source \in Transactions
    BY DEF NoNewRequest, Redeems
  <1>2. \A t \in sent : reports[t] = 0 /\ t \in used /\ reports'[t] = 1
    BY DEF HeldUnreported
  <1>3. \A t \in Transactions : t \notin sent => reports'[t] = reports[t]
    OBVIOUS
  <1>4. NoCancellation'
    BY DEF NoCancellation, NoNewRequest
  <1>5. HeldUnreported'
    <2> SUFFICES ASSUME NEW e \in Enrollments, NEW t \in HeldBy(db'[e])
                 PROVE  t \in used' /\ reports'[t] = 0
      BY DEF HeldUnreported
    <2>1. t \in HeldBy(db[e]) /\ t \in Transactions /\ t \notin sent
      BY HeldType
    <2> QED
      BY <2>1, <1>3 DEF HeldUnreported
  <1>6. HeldOnce'
    <2> SUFFICES ASSUME NEW d \in Enrollments, NEW e \in Enrollments,
                        NEW t \in HeldBy(db'[d]), t \in HeldBy(db'[e])
                 PROVE  d = e
      BY DEF HeldOnce
    <2> QED
      BY DEF HeldOnce
  <1>7. RedeemsFresh'
    <2> SUFFICES ASSUME NEW w \in Workers, Redeems(w)'
                 PROVE  /\ reports'[request'[w].source] = 0
                        /\ \A e \in Enrollments : request'[w].source \notin HeldBy(db'[e])
      BY DEF RedeemsFresh
    <2>1. /\ request'[w].source = request[w].source /\ request[w].source \in Transactions
          /\ reports[request[w].source] = 0
          /\ \A e \in Enrollments : request[w].source \notin HeldBy(db[e])
      BY <1>1 DEF RedeemsFresh
    <2>2. request[w].source \notin sent
      BY <2>1
    <2> QED
      BY <2>1, <2>2, <1>3
  <1>8. RedeemsApart'
    BY <1>1 DEF RedeemsApart
  <1>9. UnusedUnreported'
    BY <1>2, <1>3 DEF UnusedUnreported
  <1>10. ReportedOnce'
    BY <1>2, <1>3 DEF ReportedOnce
  <1> QED
    BY <1>4, <1>5, <1>6, <1>7, <1>8, <1>9, <1>10

(* Ageing credit lets go of its transaction or keeps it.                   *)
LEMMA AgedHolds ==
    ASSUME TypeOK, NEW e \in Enrollments, NEW credit \in {db[e].credit, Revoked(db[e].credit)},
           NEW rows, rows.credit = credit
    PROVE  HeldBy(rows) \subseteq HeldBy(db[e])
  <1>1. db[e] \in Rows
    BY DEF TypeOK
  <1> QED
    BY <1>1, RevokedFacts DEF HeldBy

LEMMA OnceMode ==
    ASSUME TypeInvariant, OnceInvariant, ModeStep
    PROVE  OnceInvariant'
  <1> USE DEF TypeInvariant
  <1>1. PICK d \in Enrollments, mode \in Modes \union {"inactive"} : SetMode(d, mode)
    BY DEF ModeStep
  <1> DEFINE sent == HeldBy(db[d]) \ HeldBy(db'[d])
  <1>2. /\ db'[d] = Received(db[d], lms[d], mode)
        /\ \A e \in Enrollments : e # d => db'[e] = db[e]
        /\ \A t \in Transactions : reports'[t] = IF t \in sent THEN reports[t] + 1 ELSE reports[t]
    BY <1>1, SetModeFacts
  <1>3. db[d] \in Rows
    BY DEF TypeOK
  <1>4. db'[d].credit \in {db[d].credit, Revoked(db[d].credit)}
    BY <1>2, <1>3, ReceivedFacts
  <1>5. HeldBy(db'[d]) \subseteq HeldBy(db[d])
    BY <1>4, AgedHolds
  <1>6. \A e \in Enrollments : e # d => HeldBy(db'[e]) = HeldBy(db[e])
    BY <1>2
  <1>7. sent \subseteq HeldBy(db[d]) /\ sent \subseteq Transactions
    BY HeldType
  <1>8. \A t \in sent : \A e \in Enrollments : t \notin HeldBy(db'[e])
    BY <1>6 DEF OnceInvariant, HeldOnce
  <1> HIDE DEF sent
  <1>9. NoNewRequest /\ used' = used
    BY DEF ModeStep, SameRequests, NoNewRequest
  <1> QED
    BY <1>2, <1>5, <1>6, <1>7, <1>8, <1>9, OnceKept

LEMMA OnceRevoke ==
    ASSUME TypeInvariant, OnceInvariant, NEW w \in Workers, RevokeFulfillment(w)
    PROVE  OnceInvariant'
  <1> USE DEF TypeInvariant
  <1> DEFINE d     == request[w].on
             r     == request[w]
             sent  == RevokedByCopy(db[d], r)
  <1>1. /\ At(w, {"cancel", "revoke", "expire"}, "save")
        /\ request' = [request EXCEPT ![w] = Idle]
        /\ UNCHANGED used
        /\ db'[d] = RevokeCopy(db[d], r)
        /\ \A e \in Enrollments : e # d => db'[e] = db[e]
        /\ \A t \in Transactions : reports'[t] = IF t \in sent THEN reports[t] + 1 ELSE reports[t]
    BY RevokeFacts
  <1>2. r # Idle /\ d \in Enrollments /\ db[d] \in Rows /\ r \in Request
    BY <1>1, RequestFacts DEF At, TypeOK
  <1>3. r.source \notin Transactions
    BY <1>1, <1>2, SourceAssumption DEF At, OnceInvariant, NoCancellation
  <1>4. db'[d].credit \in {db[d].credit, Revoked(db[d].credit)}
    BY <1>1, <1>2, <1>3, RevokeCopyFacts
  <1>5. HeldBy(db'[d]) \subseteq HeldBy(db[d])
    BY <1>2, <1>4, AgedHolds
  <1>6. sent = HeldBy(db[d]) \ HeldBy(db'[d])
    <2>1. sent = HeldBy(db[d]) \ HeldBy(RevokeCopy(db[d], r))
      BY <1>3 DEF RevokedByCopy
    <2>2. db'[d] = RevokeCopy(db[d], r)
      BY <1>1
    <2> HIDE DEF sent
    <2> QED
      BY <2>1, <2>2
  <1>7. request'[w] = Idle /\ \A v \in Workers : v # w => request'[v] = request[v]
    BY <1>1 DEF TypeOK
  <1>8. NoNewRequest
    BY <1>7 DEF NoNewRequest
  <1> HIDE DEF sent, d
  <1>9. \A e \in Enrollments : e # d => HeldBy(db'[e]) = HeldBy(db[e])
    BY <1>1
  <1>10. sent \subseteq HeldBy(db[d]) /\ sent \subseteq Transactions
    BY <1>2, <1>6, HeldType
  <1>11. \A t \in sent : \A e \in Enrollments : t \notin HeldBy(db'[e])
    BY <1>2, <1>6, <1>9 DEF OnceInvariant, HeldOnce
  <1> QED
    BY <1>1, <1>2, <1>5, <1>8, <1>9, <1>10, <1>11, OnceKept

LEMMA OnceRecord ==
    ASSUME TypeInvariant, OnceInvariant, NEW w \in Workers, RecordEnrollment(w)
    PROVE  OnceInvariant'
  <1> USE DEF TypeInvariant, OnceInvariant
  <1> DEFINE e == request[w].on
             x == request[w].source
  <1>1. /\ At(w, {"enroll"}, "save")
        /\ reports' = reports
        /\ request' = [request EXCEPT ![w] = Idle]
        /\ UNCHANGED used
        /\ \A d \in Enrollments : d # e => db'[d] = db[d]
        /\ x \notin Transactions => db'[e].credit = db[e].credit
        /\ x \in Transactions /\ ~Live(db[e].credit) => HeldBy(db'[e]) = {x}
        /\ x \in Transactions /\ Live(db[e].credit) => db'[e].credit = db[e].credit
    BY RecordFacts
  <1>2. request[w] # Idle /\ e \in Enrollments /\ (x \in Transactions => Redeems(w))
    BY <1>1, RequestFacts DEF At, Redeems
  <1>3. request'[w] = Idle /\ \A v \in Workers : v # w => request'[v] = request[v]
    BY <1>1 DEF TypeOK
  <1>4. NoNewRequest
    BY <1>3 DEF NoNewRequest
  <1>5. \A v \in Workers : Redeems(v)' => v # w /\ Redeems(v) /\ request'[v] = request[v]
    BY <1>3 DEF Redeems
  <1>6. x \in Transactions =>
          /\ reports[x] = 0 /\ x \in used
          /\ \A d \in Enrollments : x \notin HeldBy(db[d])
          /\ \A v \in Workers : v # w /\ Redeems(v) => request[v].source # x
    BY <1>2 DEF RedeemsFresh, RedeemsApart, RedeemsUsed
  <1> HIDE DEF e, x
  <1>7. \A d \in Enrollments : d # e => HeldBy(db'[d]) = HeldBy(db[d])
    BY <1>1
  <1>8. \/ HeldBy(db'[e]) = HeldBy(db[e])
        \/ x \in Transactions /\ HeldBy(db'[e]) = {x}
    BY <1>1 DEF HeldBy
  <1>9. \A d \in Enrollments : \A t \in HeldBy(db'[d]) :
          t \in HeldBy(db[d]) \/ (d = e /\ t = x /\ x \in Transactions)
    BY <1>7, <1>8
  <1>10. NoCancellation'
    BY <1>3 DEF NoCancellation
  <1>11. HeldUnreported'
    BY <1>1, <1>6, <1>9 DEF HeldUnreported
  <1>12. HeldOnce'
    <2> SUFFICES ASSUME NEW c \in Enrollments, NEW d \in Enrollments,
                        NEW t \in HeldBy(db'[c]), t \in HeldBy(db'[d])
                 PROVE  c = d
      BY DEF HeldOnce
    <2> QED
      BY <1>6, <1>9 DEF HeldOnce
  <1>13. RedeemsFresh'
    <2> SUFFICES ASSUME NEW v \in Workers, Redeems(v)'
                 PROVE  /\ reports'[request'[v].source] = 0
                        /\ \A d \in Enrollments : request'[v].source \notin HeldBy(db'[d])
      BY DEF RedeemsFresh
    <2> QED
      BY <1>1, <1>5, <1>6, <1>9 DEF RedeemsFresh
  <1>14. RedeemsApart'
    BY <1>5 DEF RedeemsApart
  <1>15. UnusedUnreported' /\ ReportedOnce'
    BY <1>1 DEF UnusedUnreported, ReportedOnce
  <1> QED
    BY <1>10, <1>11, <1>12, <1>13, <1>14, <1>15

LEMMA OnceBegin ==
    ASSUME TypeInvariant, OnceInvariant, BeginStep, "cancel" \notin Operations
    PROVE  OnceInvariant'
  <1> USE DEF TypeInvariant, OnceInvariant
  <1>1. PICK w \in Workers, r \in Request :
          /\ request[w] = Idle
          /\ request' = [request EXCEPT ![w] = r]
          /\ UNCHANGED <<db, reports>>
          /\ \/ /\ r.op = "enroll" /\ used' = used \union ({r.source} \intersect Transactions)
                /\ r.source \in Transactions => r.source \notin used
             \/ r.op \in {"revoke", "expire"} /\ r.source \in Licenses /\ used' = used
    BY DEF BeginStep
  <1>2. request'[w] = r /\ r # Idle /\ \A v \in Workers : v # w => request'[v] = request[v]
    BY <1>1, RequestAssumption DEF TypeOK
  <1>3. \A v \in Workers : v # w /\ Redeems(v)' => /\ Redeems(v) /\ request'[v] = request[v]
                                                   /\ request[v].source \in used
    BY <1>2 DEF Redeems, RedeemsUsed
  <1>4. Redeems(w)' => r.source \in Transactions /\ r.source \notin used
    BY <1>1, <1>2 DEF Redeems
  <1>5. used \subseteq used'
    BY <1>1
  <1>6. NoCancellation'
    BY <1>1, <1>2 DEF NoCancellation
  <1>7. HeldUnreported' /\ HeldOnce'
    BY <1>1, <1>5 DEF HeldUnreported, HeldOnce
  <1>8. RedeemsFresh'
    <2> SUFFICES ASSUME NEW v \in Workers, Redeems(v)'
                 PROVE  /\ reports'[request'[v].source] = 0
                        /\ \A d \in Enrollments : request'[v].source \notin HeldBy(db'[d])
      BY DEF RedeemsFresh
    <2>1. CASE v = w
      BY <2>1, <1>1, <1>2, <1>4 DEF HeldUnreported, UnusedUnreported
    <2>2. CASE v # w
      BY <2>2, <1>1, <1>3 DEF RedeemsFresh
    <2> QED
      BY <2>1, <2>2
  <1>9. RedeemsApart'
    BY <1>2, <1>3, <1>4 DEF RedeemsApart
  <1>10. UnusedUnreported' /\ ReportedOnce'
    BY <1>1, <1>5 DEF UnusedUnreported, ReportedOnce
  <1> QED
    BY <1>6, <1>7, <1>8, <1>9, <1>10

(* Without cancellations, in any interleaving of enrollments, license      *)
(* terminations and the learner's own changes, the revocation of one       *)
(* transaction is reported at most once: revoke and set_unenrolled are     *)
(* idempotent, and cancel_enrollment is the only caller that defeats them. *)
THEOREM OneReportPerTransaction ==
    ASSUME "cancel" \notin Operations
    PROVE  Spec => []ReportedOnce
  <1> DEFINE Inv == TypeInvariant /\ OnceInvariant
  <1>1. Init => Inv
    <2> SUFFICES ASSUME Init PROVE Inv
      OBVIOUS
    <2>1. TypeInvariant
      BY RowAssumption DEF Init, TypeInvariant, TypeOK, Rows, TaskStates, RedeemsUsed, Redeems
    <2>2. OnceInvariant
      BY DEF Init, OnceInvariant, NoCancellation, HeldUnreported, HeldOnce, RedeemsFresh,
             RedeemsApart, UnusedUnreported, ReportedOnce, Redeems, HeldBy, Live
    <2> QED
      BY <2>1, <2>2
  <1>2. Inv /\ [Next]_vars => Inv'
    <2> SUFFICES ASSUME Inv, [Next]_vars PROVE OnceInvariant'
      BY TypeStep
    <2>1. CASE QuietStep
      <3>1. NoNewRequest /\ used' = used /\ reports' = reports
        BY <2>1 DEF QuietStep, NoNewRequest
      <3>2. \A e \in Enrollments : HeldBy(db'[e]) = HeldBy(db[e])
        BY <2>1 DEF QuietStep, HeldBy
      <3> DEFINE sent == {}
      <3>3. /\ sent \in SUBSET Transactions
            /\ \A t \in Transactions : reports'[t] = IF t \in sent THEN reports[t] + 1 ELSE reports[t]
            /\ \A t \in sent : FALSE
        BY <3>1
      <3> HIDE DEF sent
      <3> QED
        BY <3>1, <3>2, <3>3, OnceKept DEF TypeInvariant
    <2>2. CASE UNCHANGED vars
      BY <2>2 DEF vars, OnceInvariant, NoCancellation, HeldUnreported, HeldOnce, RedeemsFresh,
                  RedeemsApart, UnusedUnreported, ReportedOnce, Redeems
    <2> QED
      BY <2>1, <2>2, StepKinds, OnceMode, OnceBegin, OnceRecord, OnceRevoke DEF TypeInvariant
  <1>3. Inv => ReportedOnce
    BY DEF OnceInvariant
  <1> QED
    BY <1>1, <1>2, <1>3, PTL DEF Spec

-----------------------------------------------------------------------------
(* The rows keep the ledger                                                *)

\* A credit row is of an accepted transaction, and of a reported one if it is
\* revoked; no two rows are of one transaction.
RowsAccepted ==
    \A e \in Enrollments : db[e].credit # NoRow =>
        /\ db[e].credit.source \in accepted
        /\ db[e].credit.revoked => reports[db[e].credit.source] > 0

RowsApart ==
    \A d, e \in Enrollments :
        db[d].credit # NoRow /\ db[e].credit # NoRow /\ db[d].credit.source = db[e].credit.source
        => d = e

RedeemsNew == \A w \in Workers : Redeems(w) => request[w].source \notin accepted

CancelsAllowed == \A w \in Workers : Cancels(w) => "cancel" \in Operations

LedgerRequests ==
    /\ TerminatesLicense /\ CancelsCurrent /\ NoRedeemWhileCancelling
    /\ RedeemsNew /\ RedeemsApart /\ CancelsAllowed

LedgerInvariant == TypeInvariant /\ LedgerRequests /\ RowsAccepted /\ RowsApart

\* A transaction is held by the enrollment whose row has it.
LEMMA HeldByRow ==
    ASSUME TypeOK, NEW e \in Enrollments, NEW t
    PROVE  t \in HeldBy(db[e]) <=> /\ db[e].credit # NoRow /\ ~db[e].credit.revoked
                                   /\ db[e].credit.source = t
  BY DEF HeldBy, Live

\* What other enrollments hold is not touched by a step on one of them.
LEMMA HeldElsewhere ==
    ASSUME NEW d \in Enrollments, \A e \in Enrollments : e # d => db'[e] = db[e], NEW t
    PROVE  t \in HeldCredit' <=> \/ t \in HeldBy(db'[d])
                                 \/ \E e \in Enrollments : e # d /\ t \in HeldBy(db[e])
  BY DEF HeldCredit

\* The row of one enrollment is revoked, which is reported, or is as before.
LEMMA LedgerAged ==
    ASSUME LedgerInvariant, NEW d \in Enrollments,
           \A e \in Enrollments : e # d => db'[e] = db[e],
           db'[d].credit \in {db[d].credit, Revoked(db[d].credit)},
           reports' \in [Transactions -> Nat],
           \A t \in Transactions :
             reports'[t] = IF t \in HeldBy(db[d]) \ HeldBy(db'[d]) THEN reports[t] + 1 ELSE reports[t],
           UNCHANGED <<used, accepted>>
    PROVE  /\ [Ledger!Next]_(Ledger!vars)
           /\ RowsAccepted' /\ RowsApart'
  <1> USE DEF LedgerInvariant, TypeInvariant
  <1>1. db[d] \in Rows /\ \A t \in Transactions : reports[t] \in Nat
    BY DEF TypeOK
  <1>2. /\ db[d].credit # NoRow <=> db'[d].credit # NoRow
        /\ db[d].credit # NoRow => /\ db'[d].credit.source = db[d].credit.source
                                   /\ db[d].credit.source \in Transactions
    BY <1>1, FulfillmentOfRow, RevokedFacts DEF Revoked
  <1>3. CASE Live(db[d].credit) /\ ~Live(db'[d].credit)
    <2>1. PICK t \in Transactions : t = db[d].credit.source
      BY <1>2, <1>3 DEF Live
    <2>2. HeldBy(db[d]) = {t} /\ HeldBy(db'[d]) = {}
      BY <1>3, <2>1 DEF HeldBy
    <2>3. \A e \in Enrollments : e # d => t \notin HeldBy(db[e])
      BY <1>3, <2>1, HeldByRow DEF RowsApart, Live
    <2>4. t \in HeldCredit /\ HeldCredit' = HeldCredit \ {t}
      <3>1. \A s : s \in HeldCredit <=> \E e \in Enrollments : s \in HeldBy(db[e])
        BY DEF HeldCredit
      <3>2. \A s : s \in HeldCredit' <=> \E e \in Enrollments : e # d /\ s \in HeldBy(db[e])
        BY <2>2, HeldElsewhere
      <3> QED
        BY <2>2, <2>3, <3>1, <3>2
    <2>5. reports' = [reports EXCEPT ![t] = @ + 1]
      BY <2>2 DEF TypeOK
    <2>6. Ledger!GiveBack(t)
      BY <2>4, <2>5 DEF Ledger!GiveBack
    <2>7. RowsAccepted'
      <3> SUFFICES ASSUME NEW e \in Enrollments, db'[e].credit # NoRow
                   PROVE  /\ db'[e].credit.source \in accepted
                          /\ db'[e].credit.revoked => reports'[db'[e].credit.source] > 0
        BY DEF RowsAccepted
      <3>1. CASE e = d
        BY <3>1, <1>1, <1>2, <2>1, <2>2 DEF RowsAccepted
      <3>2. CASE e # d
        BY <3>2, <1>1, FulfillmentOfRow DEF RowsAccepted
      <3> QED
        BY <3>1, <3>2
    <2>8. RowsApart'
      BY <1>2 DEF RowsApart
    <2> QED
      BY <2>6, <2>7, <2>8 DEF Ledger!Next
  <1>4. CASE ~(Live(db[d].credit) /\ ~Live(db'[d].credit))
    <2>1. db'[d].credit = db[d].credit \/ db[d].credit.revoked
      BY <1>1, <1>4, RevokedFacts DEF Live, Revoked
    <2>2. HeldBy(db'[d]) = HeldBy(db[d])
      BY <1>1, <1>2, <2>1, RevokedFacts DEF HeldBy, Live
    <2>3. HeldCredit' = HeldCredit
      BY <2>2 DEF HeldCredit
    <2>4. reports' = reports
      BY <2>2 DEF TypeOK
    <2>5. RowsAccepted'
      BY <1>2, <2>1, <2>4 DEF RowsAccepted
    <2>6. RowsApart'
      BY <1>2 DEF RowsApart
    <2> QED
      BY <2>3, <2>4, <2>5, <2>6 DEF Ledger!vars
  <1> QED
    BY <1>3, <1>4

\* A row of the same transaction keeps what a cancellation was told.
SameSource(e) ==
    db[e].credit # NoRow => /\ db'[e].credit # NoRow
                            /\ db'[e].credit.source = db[e].credit.source

\* Steps that begin no request disturb nothing that requests rely on, as long
\* as what is newly accepted is being redeemed by no request that is left.
LEMMA LedgerRequestsKept ==
    ASSUME LedgerRequests, NoNewRequest,
           \A v \in Workers : request'[v] # Idle /\ Cancels(v) => SameSource(request[v].on),
           \A v \in Workers : request'[v] # Idle /\ Redeems(v) => request[v].source \notin accepted'
    PROVE  LedgerRequests'
  <1> USE DEF LedgerRequests
  <1>1. \A v \in Workers : Redeems(v)' => /\ Redeems(v) /\ request'[v] # Idle
                                          /\ request'[v].on = request[v].on
                                          /\ request'[v].source = request[v].source
    BY DEF NoNewRequest, Redeems
  <1>2. \A v \in Workers : Cancels(v)' => /\ Cancels(v) /\ request'[v] # Idle
                                          /\ request'[v].on = request[v].on
                                          /\ request'[v].source = request[v].source
    BY DEF NoNewRequest, Cancels
  <1>3. TerminatesLicense'
    BY DEF TerminatesLicense, NoNewRequest
  <1>4. CancelsCurrent'
    <2> SUFFICES ASSUME NEW w \in Workers, Cancels(w)', request'[w].source \in Transactions
                 PROVE  /\ db'[request'[w].on].credit # NoRow
                        /\ db'[request'[w].on].credit.source = request'[w].source
      BY DEF CancelsCurrent
    <2> QED
      BY <1>2 DEF SameSource, CancelsCurrent
  <1>5. NoRedeemWhileCancelling'
    BY <1>1, <1>2 DEF NoRedeemWhileCancelling
  <1>6. RedeemsNew'
    BY <1>1 DEF RedeemsNew
  <1>7. RedeemsApart'
    BY <1>1 DEF RedeemsApart
  <1>8. CancelsAllowed'
    BY <1>2 DEF CancelsAllowed
  <1> QED
    BY <1>3, <1>4, <1>5, <1>6, <1>7, <1>8

LEMMA AgedSource ==
    ASSUME TypeOK, NEW e \in Enrollments,
           db'[e].credit \in {db[e].credit, Revoked(db[e].credit)}
    PROVE  SameSource(e)
  <1>1. db[e] \in Rows
    BY DEF TypeOK
  <1> QED
    BY <1>1, RevokedFacts DEF SameSource

\* A change in the LMS reports the credit it revokes.
LEMMA LedgerMode ==
    ASSUME LedgerInvariant, ModeStep
    PROVE  /\ [Ledger!Next]_(Ledger!vars)
           /\ LedgerRequests' /\ RowsAccepted' /\ RowsApart'
  <1> USE DEF LedgerInvariant, TypeInvariant
  <1>1. PICK d \in Enrollments, mode \in Modes \union {"inactive"} : SetMode(d, mode)
    BY DEF ModeStep
  <1>2. /\ reports' \in [Transactions -> Nat]
        /\ db'[d] = Received(db[d], lms[d], mode)
        /\ \A e \in Enrollments : e # d => db'[e] = db[e]
        /\ \A t \in Transactions :
             reports'[t] = IF t \in HeldBy(db[d]) \ HeldBy(db'[d]) THEN reports[t] + 1 ELSE reports[t]
    BY <1>1, SetModeFacts
  <1>3. db[d] \in Rows
    BY DEF TypeOK
  <1>4. db'[d].credit \in {db[d].credit, Revoked(db[d].credit)}
    BY <1>2, <1>3, ReceivedFacts
  <1>5. UNCHANGED <<used, accepted>> /\ NoNewRequest /\ \A v \in Workers : request'[v] # Idle => request[v] # Idle
    BY DEF ModeStep, SameRequests, NoNewRequest
  <1>6. \A e \in Enrollments : SameSource(e)
    BY <1>2, <1>4, AgedSource DEF SameSource
  <1>7. LedgerRequests'
    BY <1>5, <1>6, RequestFacts, LedgerRequestsKept DEF LedgerRequests, RedeemsNew
  <1> QED
    BY <1>2, <1>4, <1>5, <1>7, LedgerAged

\* The database steps of requests other than enrollments: a copy of credit is
\* of the transaction of its row, so it is given back or, if the row was revoked
\* in the meantime, reported again.
LEMMA LedgerRevoke ==
    ASSUME LedgerInvariant, NEW w \in Workers, RevokeFulfillment(w)
    PROVE  /\ [Ledger!Next]_(Ledger!vars)
           /\ LedgerRequests' /\ RowsAccepted' /\ RowsApart'
  <1> USE DEF LedgerInvariant, TypeInvariant
  <1> DEFINE d    == request[w].on
             r    == request[w]
             sent == RevokedByCopy(db[d], r)
  <1>1. /\ At(w, {"cancel", "revoke", "expire"}, "save")
        /\ reports' \in [Transactions -> Nat]
        /\ request' = [request EXCEPT ![w] = Idle]
        /\ UNCHANGED <<used, accepted>>
        /\ db'[d] = RevokeCopy(db[d], r)
        /\ \A e \in Enrollments : e # d => db'[e] = db[e]
        /\ \A t \in Transactions : reports'[t] = IF t \in sent THEN reports[t] + 1 ELSE reports[t]
    BY RevokeFacts
  <1>2. r # Idle /\ d \in Enrollments /\ db[d] \in Rows /\ r \in Request
    BY <1>1, RequestFacts DEF At, TypeOK
  <1>3. r.source \in Transactions => /\ db[d].credit # NoRow
                                     /\ db[d].credit.source = r.source
                                     /\ "cancel" \in Operations
    BY <1>1, <1>2, SourceAssumption
       DEF At, LedgerRequests, TerminatesLicense, CancelsCurrent, CancelsAllowed, Cancels
  <1>4. db'[d].credit \in {db[d].credit, Revoked(db[d].credit)}
    <2>1. CASE r.source \notin Transactions
      BY <2>1, <1>1, <1>2, RevokeCopyFacts
    <2>2. CASE r.source \in Transactions
      <3> DEFINE written == [revoked |-> TRUE, source |-> r.source]
                 saved   == [db[d] EXCEPT !.credit = written]
      <3>1. saved \in Rows /\ saved.credit = written
        BY <2>2, <1>2 DEF Rows, CreditRow
      <3>2. written = Revoked(db[d].credit) /\ Revoked(written) = written
        BY <2>2, <1>2, <1>3, FulfillmentRowFacts DEF Rows, CreditRow, Revoked
      <3>3. RevokeCopy(db[d], r) = IF r.revoked THEN db[d]
                                   ELSE IF r.unenrolled THEN saved ELSE LeaveAll(saved)
        BY <2>2 DEF RevokeCopy
      <3> HIDE DEF written, saved, d, r
      <3> QED
        BY <1>1, <3>1, <3>2, <3>3, LeaveAllFacts
    <2> QED
      BY <2>1, <2>2
  <1>5. request'[w] = Idle /\ \A v \in Workers : v # w => request'[v] = request[v]
    BY <1>1 DEF TypeOK
  <1>6. NoNewRequest /\ \A v \in Workers : request'[v] # Idle => request[v] # Idle
    BY <1>5 DEF NoNewRequest
  <1>7. \A e \in Enrollments : SameSource(e)
    BY <1>1, <1>2, <1>4, AgedSource DEF SameSource
  <1>8. LedgerRequests'
    BY <1>1, <1>6, <1>7, RequestFacts, LedgerRequestsKept DEF LedgerRequests, RedeemsNew
  <1>9. sent = HeldBy(db[d]) \ HeldBy(db'[d]) \/ (r.source \in Transactions /\ ~r.revoked /\ db[d].credit.revoked)
    <2>1. CASE r.source \notin Transactions
      <3>1. sent = HeldBy(db[d]) \ HeldBy(RevokeCopy(db[d], r))
        BY <2>1 DEF RevokedByCopy
      <3>2. db'[d] = RevokeCopy(db[d], r)
        BY <1>1
      <3> HIDE DEF sent
      <3> QED
        BY <3>1, <3>2
    <2>2. CASE r.source \in Transactions /\ r.revoked
      BY <2>2, <1>1 DEF RevokeCopy, RevokedByCopy
    <2>3. CASE r.source \in Transactions /\ ~r.revoked
      <3>1. sent = {r.source}
        BY <2>3 DEF RevokedByCopy
      <3>2. ~Live(db'[d].credit)
        BY <2>3, <1>1, <1>2, RevokeCopyFacts
      <3>3. HeldBy(db'[d]) = {}
        BY <3>2 DEF HeldBy
      <3>4. db[d].credit.revoked \/ HeldBy(db[d]) = {r.source}
        BY <2>3, <1>3 DEF HeldBy, Live
      <3> HIDE DEF sent
      <3> QED
        BY <2>3, <3>1, <3>3, <3>4
    <2> QED
      BY <2>1, <2>2, <2>3
  <1>10. CASE sent = HeldBy(db[d]) \ HeldBy(db'[d])
    <2> HIDE DEF sent, d
    <2> QED
      BY <1>1, <1>2, <1>4, <1>8, <1>10, LedgerAged
  <1>11. CASE r.source \in Transactions /\ ~r.revoked /\ db[d].credit.revoked
    <2>1. PICK t \in Transactions : t = r.source
      BY <1>11
    <2>2. sent = {t}
      BY <1>11, <2>1 DEF RevokedByCopy
    <2>3. db'[d].credit = db[d].credit
      BY <1>2, <1>3, <1>4, <1>11 DEF Rows, CreditRow, Revoked
    <2> HIDE DEF sent, d, r
    <2>4. \A e \in Enrollments : db'[e].credit = db[e].credit
      BY <1>1, <2>3
    <2>5. HeldCredit' = HeldCredit
      BY <2>4 DEF HeldCredit, HeldBy
    <2>6. reports[t] > 0
      BY <1>2, <1>3, <1>11, <2>1 DEF RowsAccepted
    <2>7. t \notin HeldCredit
      <3> SUFFICES ASSUME NEW e \in Enrollments, t \in HeldBy(db[e]) PROVE FALSE
        BY DEF HeldCredit
      <3>1. db[e].credit # NoRow /\ ~db[e].credit.revoked /\ db[e].credit.source = t
        BY HeldByRow
      <3>2. e = d
        BY <1>2, <1>3, <1>11, <2>1, <3>1 DEF RowsApart
      <3> QED
        BY <1>11, <3>1, <3>2
    <2>8. reports' = [reports EXCEPT ![t] = @ + 1]
      BY <1>1, <2>2 DEF TypeOK
    <2>9. Ledger!ReportAgain(t)
      BY <1>1, <1>3, <1>11, <2>5, <2>6, <2>7, <2>8 DEF Ledger!ReportAgain
    <2>10. \A s \in Transactions : reports[s] > 0 => reports'[s] > 0
      BY <1>1, <2>2 DEF TypeOK
    <2>11. RowsAccepted'
      BY <1>1, <2>4, <2>10, FulfillmentOfRow DEF RowsAccepted
    <2>12. RowsApart'
      BY <2>4 DEF RowsApart
    <2> QED
      BY <1>8, <2>9, <2>11, <2>12 DEF Ledger!Next
  <1> QED
    BY <1>9, <1>10, <1>11

\* Overlapping redemptions apart, a redemption finds no live credit.
LEMMA UnheldHolds == Spec => [](Overlaps = {} => RedeemsUnheld)
  <1>1. CASE Overlaps = {}
    <2>1. Spec => []SettledInvariant
      BY <1>1, SettledHolds
    <2>2. SettledInvariant => (Overlaps = {} => RedeemsUnheld)
      BY DEF SettledInvariant, RequestInvariant
    <2> QED
      BY <2>1, <2>2, PTL
  <1>2. CASE Overlaps # {}
    <2>1. Overlaps = {} => RedeemsUnheld
      BY <1>2
    <2> QED
      BY <2>1, PTL
  <1> QED
    BY <1>1, <1>2

\* Recording an enrollment redeems its transaction, once.
LEMMA LedgerRecord ==
    ASSUME LedgerInvariant, Overlaps = {} => RedeemsUnheld,
           NEW w \in Workers, RecordEnrollment(w)
    PROVE  /\ [Ledger!Next]_(Ledger!vars)
           /\ LedgerRequests' /\ RowsAccepted' /\ RowsApart'
  <1> USE DEF LedgerInvariant, TypeInvariant
  <1> DEFINE e == request[w].on
             x == request[w].source
  <1>1. /\ At(w, {"enroll"}, "save")
        /\ reports' = reports
        /\ request' = [request EXCEPT ![w] = Idle]
        /\ UNCHANGED used
        /\ accepted' = accepted \union ({x} \intersect Transactions)
        /\ \A d \in Enrollments : d # e => db'[d] = db[d]
        /\ x \notin Transactions => db'[e].credit = db[e].credit
        /\ x \in Transactions /\ ~Live(db[e].credit) => HeldBy(db'[e]) = {x}
        /\ x \in Transactions /\ Live(db[e].credit) => db'[e].credit = db[e].credit
    BY RecordFacts
  <1>2. request[w] # Idle /\ e \in Enrollments /\ (x \in Transactions => Redeems(w))
    BY <1>1, RequestFacts DEF At, Redeems
  <1>3. request'[w] = Idle /\ \A v \in Workers : v # w => request'[v] = request[v]
    BY <1>1 DEF TypeOK
  <1>4. NoNewRequest
    BY <1>3 DEF NoNewRequest
  <1>5. x \in Transactions => x \in used /\ x \notin accepted
    BY <1>2 DEF RedeemsUsed, LedgerRequests, RedeemsNew
  <1>6. LedgerRequests'
    <2>1. ASSUME NEW v \in Workers, request'[v] # Idle, Cancels(v) PROVE SameSource(request[v].on)
      <3>1. CASE x \in Transactions
        <4>1. request[v].on # e
          BY <2>1, <3>1, <1>2 DEF LedgerRequests, NoRedeemWhileCancelling
        <4> QED
          BY <2>1, <4>1, <1>1, RequestFacts DEF SameSource, Cancels
      <3>2. CASE x \notin Transactions
        BY <2>1, <3>2, <1>1, RequestFacts DEF SameSource, Cancels
      <3> QED
        BY <3>1, <3>2
    <2>2. ASSUME NEW v \in Workers, request'[v] # Idle, Redeems(v)
          PROVE  request[v].source \notin accepted'
      <3>1. v # w
        BY <2>2, <1>3
      <3>2. x \in Transactions => request[v].source # x
        BY <2>2, <3>1, <1>2 DEF LedgerRequests, RedeemsApart
      <3>3. request[v].source \notin accepted
        BY <2>2 DEF LedgerRequests, RedeemsNew
      <3> QED
        BY <3>2, <3>3, <1>1
    <2> QED
      BY <1>4, <2>1, <2>2, LedgerRequestsKept
  <1> HIDE DEF e, x
  <1>7. CASE x \notin Transactions \/ Live(db[e].credit)
    <2>1. \A d \in Enrollments : db'[d].credit = db[d].credit
      BY <1>1, <1>7
    <2>2. HeldCredit' = HeldCredit
      BY <2>1 DEF HeldCredit, HeldBy
    <2>3. RowsAccepted' /\ RowsApart'
      BY <1>1, <2>1 DEF RowsAccepted, RowsApart
    <2>4. CASE x \in Transactions
      <3>1. Overlaps # {}
        BY <1>2, <1>7, <2>4 DEF RedeemsUnheld, e, x
      <3>2. Ledger!Redeem(x)
        BY <1>1, <1>5, <2>2, <2>4, <3>1 DEF Ledger!Redeem
      <3> QED
        BY <1>6, <2>3, <2>4, <3>2 DEF Ledger!Next
    <2>5. CASE x \notin Transactions
      <3>1. accepted' = accepted
        BY <1>1, <2>5
      <3> QED
        BY <1>1, <1>6, <2>2, <2>3, <3>1 DEF Ledger!vars
    <2> QED
      BY <2>4, <2>5
  <1>8. CASE x \in Transactions /\ ~Live(db[e].credit)
    <2>1. HeldBy(db[e]) = {} /\ HeldBy(db'[e]) = {x}
      BY <1>1, <1>8 DEF HeldBy
    <2>2. HeldCredit' = HeldCredit \union {x}
      <3>1. \A s : s \in HeldCredit <=> \E d \in Enrollments : s \in HeldBy(db[d])
        BY DEF HeldCredit
      <3>2. \A s : s \in HeldCredit' <=> \/ s = x
                                         \/ \E d \in Enrollments : d # e /\ s \in HeldBy(db[d])
        BY <1>1, <1>2, <2>1, HeldElsewhere
      <3> QED
        BY <2>1, <3>1, <3>2
    <2>3. Ledger!Redeem(x)
      BY <1>1, <1>5, <1>8, <2>2 DEF Ledger!Redeem
    <2>4. db'[e].credit # NoRow /\ ~db'[e].credit.revoked /\ db'[e].credit.source = x
      BY <2>1 DEF HeldBy, Live
    <2>5. RowsAccepted'
      BY <1>1, <1>8, <2>4 DEF RowsAccepted
    <2>6. RowsApart'
      <3>1. \A d \in Enrollments : db[d].credit # NoRow => db[d].credit.source # x
        BY <1>5, <1>8 DEF RowsAccepted
      <3> QED
        BY <1>1, <2>4, <3>1 DEF RowsApart
    <2> QED
      BY <1>6, <1>8, <2>3, <2>5, <2>6 DEF Ledger!Next
  <1> QED
    BY <1>7, <1>8

\* A request that begins creates its transaction, if it redeems one.
LEMMA LedgerBegin ==
    ASSUME LedgerInvariant, BeginStep, "cancel" \in Operations => "cancelling" \notin Overlaps
    PROVE  /\ [Ledger!Next]_(Ledger!vars)
           /\ LedgerRequests' /\ RowsAccepted' /\ RowsApart'
  <1> USE DEF LedgerInvariant, TypeInvariant
  <1>1. PICK w \in Workers, r \in Request :
          /\ request[w] = Idle
          /\ request' = [request EXCEPT ![w] = r]
          /\ r.op \in Operations
          /\ UNCHANGED <<lms, db, reports, task, accepted>>
          /\ \/ /\ r.op = "enroll"
                /\ used' = used \union ({r.source} \intersect Transactions)
                /\ r.source \in Transactions => r.source \notin used /\ Redeemable(r.on)
             \/ /\ r.op = "cancel"
                /\ used' = used
                /\ "cancelling" \in Overlaps \/ Redeeming(r.on) = {}
                /\ r.source \in Transactions => /\ Live(db[r.on].credit)
                                                /\ db[r.on].credit.source = r.source
             \/ r.op \in {"revoke", "expire"} /\ r.source \in Licenses /\ used' = used
    BY DEF BeginStep
  <1>2. request'[w] = r /\ r # Idle /\ \A v \in Workers : v # w => request'[v] = request[v]
    BY <1>1, RequestAssumption DEF TypeOK
  <1>3. \A v \in Workers : v # w => /\ Redeems(v)' <=> Redeems(v)
                                    /\ Cancels(v)' <=> Cancels(v)
    BY <1>2 DEF Redeems, Cancels
  <1>4. Redeems(w)' => /\ r.op = "enroll" /\ r.source \in Transactions /\ r.source \notin used
                       /\ "cancelling" \in Overlaps \/ Cancelling(r.on) = {}
    BY <1>1, <1>2 DEF Redeems, Redeemable
  <1>5. Cancels(w)' => /\ r.op = "cancel" /\ Redeeming(r.on) = {} /\ "cancel" \in Operations
                       /\ r.source \in Transactions => /\ db[r.on].credit # NoRow
                                                       /\ db[r.on].credit.source = r.source
    BY <1>1, <1>2 DEF Cancels, Live
  <1>6. ~(Redeems(w)' /\ Cancels(w)')
    BY DEF Redeems, Cancels
  <1>7. \A v \in Workers : /\ Redeems(v) => v \in Redeeming(request[v].on)
                           /\ Cancels(v) => v \in Cancelling(request[v].on)
    BY DEF Redeems, Cancels, Redeeming, Cancelling, Serving
  <1>8. HeldCredit' = HeldCredit
    BY <1>1 DEF HeldCredit
  <1>9. [Ledger!Next]_(Ledger!vars)
    <2>1. CASE r.op = "enroll" /\ r.source \in Transactions
      <3>1. Ledger!Create(r.source)
        BY <1>1, <1>8, <2>1 DEF Ledger!Create
      <3> QED
        BY <2>1, <3>1 DEF Ledger!Next
    <2>2. CASE ~(r.op = "enroll" /\ r.source \in Transactions)
      <3>1. used' = used
        BY <1>1, <2>2
      <3> QED
        BY <1>1, <1>8, <3>1 DEF Ledger!vars
    <2> QED
      BY <2>1, <2>2
  <1>10. RowsAccepted' /\ RowsApart'
    BY <1>1 DEF RowsAccepted, RowsApart
  <1> USE DEF LedgerRequests
  <1>11. TerminatesLicense'
    BY <1>1, <1>2 DEF TerminatesLicense
  <1>12. CancelsCurrent'
    <2> SUFFICES ASSUME NEW v \in Workers, Cancels(v)', request'[v].source \in Transactions
                 PROVE  /\ db[request'[v].on].credit # NoRow
                        /\ db[request'[v].on].credit.source = request'[v].source
      BY <1>1 DEF CancelsCurrent
    <2>1. CASE v = w
      BY <2>1, <1>2, <1>5
    <2>2. CASE v # w
      BY <2>2, <1>2, <1>3 DEF CancelsCurrent
    <2> QED
      BY <2>1, <2>2
  <1>13. NoRedeemWhileCancelling'
    <2> SUFFICES ASSUME NEW v \in Workers, NEW u \in Workers, Cancels(v)', Redeems(u)',
                        request'[v].on = request'[u].on
                 PROVE  FALSE
      BY DEF NoRedeemWhileCancelling
    <2>1. CASE v = w
      BY <2>1, <1>2, <1>3, <1>5, <1>6, <1>7
    <2>2. CASE u = w /\ v # w
      <3>1. Cancels(v) /\ "cancel" \in Operations /\ request[v].on = r.on
        BY <2>2, <1>2, <1>3 DEF CancelsAllowed
      <3> QED
        BY <2>2, <3>1, <1>4, <1>7
    <2>3. CASE v # w /\ u # w
      BY <2>3, <1>2, <1>3 DEF NoRedeemWhileCancelling
    <2> QED
      BY <2>1, <2>2, <2>3
  <1>14. RedeemsNew'
    <2> SUFFICES ASSUME NEW v \in Workers, Redeems(v)' PROVE request'[v].source \notin accepted
      BY <1>1 DEF RedeemsNew
    <2>1. CASE v = w
      BY <2>1, <1>2, <1>4 DEF TypeOK
    <2>2. CASE v # w
      BY <2>2, <1>2, <1>3 DEF RedeemsNew
    <2> QED
      BY <2>1, <2>2
  <1>15. RedeemsApart'
    <2> SUFFICES ASSUME NEW v \in Workers, NEW u \in Workers, Redeems(v)', Redeems(u)',
                        request'[v].source = request'[u].source, v # u
                 PROVE  FALSE
      BY DEF RedeemsApart
    <2>1. \A z \in Workers : z # w /\ Redeems(z)' => request'[z].source \in used
      BY <1>2, <1>3 DEF RedeemsUsed
    <2>2. CASE v = w \/ u = w
      BY <2>1, <2>2, <1>2, <1>4
    <2>3. CASE v # w /\ u # w
      BY <2>3, <1>2, <1>3 DEF RedeemsApart
    <2> QED
      BY <2>2, <2>3
  <1>16. CancelsAllowed'
    <2> SUFFICES ASSUME NEW v \in Workers, Cancels(v)' PROVE "cancel" \in Operations
      BY DEF CancelsAllowed
    <2> QED
      BY <1>3, <1>5 DEF CancelsAllowed
  <1> QED
    BY <1>9, <1>10, <1>11, <1>12, <1>13, <1>14, <1>15, <1>16

\* The fulfillments of learner credit keep the ledger: every step of a request,
\* of a receiver, of the learner or of the task is one entry of it, or none, with
\* any overlap of redemptions, and with cancellations if they overlap none.
THEOREM LedgerKept ==
    ASSUME "cancel" \in Operations => "cancelling" \notin Overlaps
    PROVE  Spec => KeepsLedger
  <1>1. Init => LedgerInvariant /\ Ledger!Init
    <2> SUFFICES ASSUME Init PROVE LedgerInvariant /\ Ledger!Init
      OBVIOUS
    <2>1. TypeInvariant
      BY RowAssumption DEF Init, TypeInvariant, TypeOK, Rows, TaskStates, RedeemsUsed, Redeems
    <2>2. LedgerRequests /\ RowsAccepted /\ RowsApart
      BY DEF Init, LedgerRequests, TerminatesLicense, CancelsCurrent, NoRedeemWhileCancelling,
             RedeemsNew, RedeemsApart, CancelsAllowed, RowsAccepted, RowsApart, Redeems, Cancels
    <2>3. HeldCredit = {}
      BY DEF Init, HeldCredit, HeldBy, Live
    <2> QED
      BY <2>1, <2>2, <2>3 DEF LedgerInvariant, Init, Ledger!Init
  <1>2. LedgerInvariant /\ (Overlaps = {} => RedeemsUnheld) /\ [Next]_vars
          => LedgerInvariant' /\ [Ledger!Next]_(Ledger!vars)
    <2> SUFFICES ASSUME LedgerInvariant, Overlaps = {} => RedeemsUnheld, [Next]_vars
                 PROVE  /\ [Ledger!Next]_(Ledger!vars)
                        /\ LedgerRequests' /\ RowsAccepted' /\ RowsApart'
      BY TypeStep DEF LedgerInvariant
    <2> USE DEF LedgerInvariant, TypeInvariant
    <2>1. CASE QuietStep
      <3>1. NoNewRequest /\ \A v \in Workers : request'[v] # Idle => request[v] # Idle
        BY <2>1 DEF QuietStep, NoNewRequest
      <3>2. \A e \in Enrollments : db'[e].credit = db[e].credit
        BY <2>1 DEF QuietStep
      <3>3. UNCHANGED <<used, accepted, reports>>
        BY <2>1 DEF QuietStep
      <3>4. HeldCredit' = HeldCredit
        BY <3>2 DEF HeldCredit, HeldBy
      <3>5. LedgerRequests'
        BY <3>1, <3>2, <3>3, RequestFacts, LedgerRequestsKept DEF SameSource, LedgerRequests, RedeemsNew
      <3>6. RowsAccepted' /\ RowsApart'
        BY <3>2, <3>3 DEF RowsAccepted, RowsApart
      <3> QED
        BY <3>3, <3>4, <3>5, <3>6 DEF Ledger!vars
    <2>2. CASE UNCHANGED vars
      <3>1. HeldCredit' = HeldCredit
        BY <2>2 DEF vars, HeldCredit
      <3> QED
        BY <2>2, <3>1 DEF vars, Ledger!vars, LedgerRequests, TerminatesLicense, CancelsCurrent,
              NoRedeemWhileCancelling, RedeemsNew, RedeemsApart, CancelsAllowed, RowsAccepted,
              RowsApart, Redeems, Cancels
    <2> QED
      BY <2>1, <2>2, StepKinds, LedgerMode, LedgerBegin, LedgerRecord, LedgerRevoke
  <1> QED
    BY <1>1, <1>2, UnheldHolds, PTL DEF Spec, KeepsLedger, Ledger!Spec

\* Redemptions are of created transactions, and only what was accepted is held
\* or reported.
LedgerBooks ==
    /\ HeldCredit \subseteq accepted /\ accepted \subseteq used
    /\ reports \in [Transactions -> Nat]
    /\ \A t \in Transactions : reports[t] > 0 => t \in accepted

\* What the ledger promises follows from its steps alone: without overlapping
\* redemptions nothing accepted is lost, what was reported is never held again,
\* and without cancellations it is reported once.
THEOREM LedgerPromises ==
    Ledger!Spec => [](Ledger!NoneLost /\ Ledger!GivenBackIsFree /\ Ledger!GivenBackOnce)
  <1> DEFINE Promises == Ledger!NoneLost /\ Ledger!GivenBackIsFree /\ Ledger!GivenBackOnce
             Inv == LedgerBooks /\ Promises
  <1>1. Ledger!Init => Inv
    BY DEF Ledger!Init, LedgerBooks, Ledger!NoneLost, Ledger!GivenBackIsFree, Ledger!GivenBackOnce
  <1>2. Inv /\ [Ledger!Next]_(Ledger!vars) => Inv'
    <2> SUFFICES ASSUME Inv, [Ledger!Next]_(Ledger!vars) PROVE Inv'
      OBVIOUS
    <2> USE DEF LedgerBooks, Ledger!NoneLost, Ledger!GivenBackIsFree, Ledger!GivenBackOnce
    <2>1. ASSUME NEW t \in Transactions, Ledger!Create(t) PROVE Inv'
      BY <2>1 DEF Ledger!Create
    <2>2. ASSUME NEW t \in Transactions, Ledger!Redeem(t) PROVE Inv'
      BY <2>2 DEF Ledger!Redeem
    <2>3. ASSUME NEW t \in Transactions, Ledger!GiveBack(t) PROVE Inv'
      BY <2>3 DEF Ledger!GiveBack
    <2>4. ASSUME NEW t \in Transactions, Ledger!ReportAgain(t) PROVE Inv'
      BY <2>4 DEF Ledger!ReportAgain
    <2>5. CASE UNCHANGED Ledger!vars
      BY <2>5 DEF Ledger!vars
    <2> QED
      BY <2>1, <2>2, <2>3, <2>4, <2>5 DEF Ledger!Next
  <1>3. Inv => Promises
    OBVIOUS
  <1> HIDE DEF Inv, Promises
  <1>4. Ledger!Spec => []Promises
    BY <1>1, <1>2, <1>3, PTL DEF Ledger!Spec
  <1> QED
    BY <1>4 DEF Promises

\* A transaction whose revocation was reported, and which the ledger may have
\* reversed, never pays for an enrollment again.
THEOREM ReportedIsFree ==
    ASSUME "cancel" \in Operations => "cancelling" \notin Overlaps
    PROVE  Spec => [](\A t \in HeldCredit : reports[t] = 0)
  <1>1. Spec => [](Ledger!NoneLost /\ Ledger!GivenBackIsFree /\ Ledger!GivenBackOnce)
    BY LedgerKept, LedgerPromises, PTL DEF KeepsLedger
  <1>2. Ledger!GivenBackIsFree => \A t \in HeldCredit : reports[t] = 0
    BY DEF Ledger!GivenBackIsFree
  <1> QED
    BY <1>1, <1>2, PTL

-----------------------------------------------------------------------------
(* Held credit pays for an active enrollment                               *)

(* What the rows and the LMS mode of one enrollment have to do with each   *)
(* other when requests and the learner take turns.                         *)
Agrees(rows, mode) ==
    /\ Live(rows.credit) => /\ mode \in Modes
                            /\ rows.enrollment # NoRow /\ ~rows.enrollment.unenrolled
    /\ mode = "paid" /\ rows.enrollment # NoRow => ~rows.enrollment.unenrolled

RowsAgree == \A e \in Enrollments : Agrees(db[e], lms[e])

OneRequest == \A v, w \in Workers : request[v] # Idle /\ request[w] # Idle => v = w

(* Between its two calls a request finds the mode it has set.              *)
ModeIsKept ==
    \A w \in Workers :
        /\ At(w, {"enroll"}, "save") => lms[request[w].on] = "paid"
        /\ At(w, {"cancel", "revoke", "expire"}, "save") => lms[request[w].on] # "paid"

TurnsInvariant == TypeOK /\ OneRequest /\ ModeIsKept /\ RowsAgree

LEMMA ReceivedAgrees ==
    ASSUME NEW rows \in Rows, NEW from, NEW to \in Modes \union {"inactive"}, Agrees(rows, from)
    PROVE  Agrees(Received(rows, from, to), to)
  <1>1. CASE from = to
    BY <1>1 DEF Received
  <1>2. CASE from # to /\ to = "inactive" /\ rows.enrollment \in {NoRow, Left}
    <2>1. ~Live(rows.credit)
      BY <1>2, EnrollmentRowFacts DEF Agrees
    <2> QED
      BY <1>2, <2>1 DEF Received, SetUnenrolled, Agrees
  <1>3. CASE from # to /\ to = "inactive" /\ rows.enrollment \notin {NoRow, Left}
    <2>1. Received(rows, from, to) = LeaveAll(rows)
      BY <1>3 DEF Received, SetUnenrolled
    <2> QED
      BY <1>3, <2>1, LeaveAllFacts, RevokedFacts DEF Agrees
  <1>4. CASE from # to /\ to # "inactive"
    <2>1. Received(rows, from, to) = SetEnrolled(rows)
      BY <1>4 DEF Received
    <2>2. /\ SetEnrolled(rows).credit = rows.credit
          /\ rows.enrollment = NoRow => SetEnrolled(rows) = rows
          /\ rows.enrollment # NoRow => SetEnrolled(rows).enrollment = NewEnrollment
      BY DEF SetEnrolled, Rows
    <2> QED
      BY <1>4, <2>1, <2>2, EnrollmentRowFacts DEF Agrees
  <1> QED
    BY <1>1, <1>2, <1>3, <1>4

LEMMA RevokeAgrees ==
    ASSUME NEW rows \in Rows, NEW r \in Request, NEW mode, mode # "paid", Agrees(rows, mode)
    PROVE  Agrees(RevokeCopy(rows, r), mode)
  <1> DEFINE written == [revoked |-> TRUE, source |-> r.source]
             saved   == IF r.source \in Transactions THEN [rows EXCEPT !.credit = written]
                                                     ELSE [rows EXCEPT !.license = written]
  <1>1. r.source \in Transactions \/ r.source \in Licenses
    BY DEF Request, Sources
  <1>2. /\ saved \in Rows
        /\ saved.enrollment = rows.enrollment
        /\ r.source \notin Transactions => saved.credit = rows.credit
        /\ r.source \in Transactions => saved.credit = written
    BY <1>1 DEF Rows, CreditRow, LicenseRow
  <1>3. ~Live(written)
    BY DEF Live
  <1>4. RevokeCopy(rows, r) = IF r.revoked THEN rows
                              ELSE IF r.unenrolled THEN saved ELSE LeaveAll(saved)
    BY DEF RevokeCopy
  <1> HIDE DEF saved, written
  <1>5. CASE r.revoked
    BY <1>4, <1>5
  <1>6. CASE ~r.revoked /\ r.unenrolled
    BY <1>2, <1>3, <1>4, <1>6 DEF Agrees
  <1>7. CASE ~r.revoked /\ ~r.unenrolled
    BY <1>2, <1>4, <1>7, LeaveAllFacts, RevokedFacts DEF Agrees
  <1> QED
    BY <1>5, <1>6, <1>7

(* A step that changes the rows of one enrollment and no mode.             *)
LEMMA TurnsRows ==
    ASSUME TurnsInvariant, NEW e \in Enrollments, NEW rows \in Rows, Agrees(rows, lms[e]),
           db' = [db EXCEPT ![e] = rows], UNCHANGED lms,
           \A v \in Workers : request'[v] \in {request[v], Idle}
    PROVE  OneRequest' /\ ModeIsKept' /\ RowsAgree'
  <1>1. OneRequest' /\ ModeIsKept'
    BY DEF TurnsInvariant, OneRequest, ModeIsKept, At
  <1>2. RowsAgree'
    <2> SUFFICES ASSUME NEW d \in Enrollments PROVE Agrees(db'[d], lms[d])
      BY DEF RowsAgree, Agrees
    <2>1. db'[d] = IF d = e THEN rows ELSE db[d]
      BY DEF TurnsInvariant, TypeOK
    <2> QED
      BY <2>1 DEF TurnsInvariant, RowsAgree
  <1> QED
    BY <1>1, <1>2

(* A change of mode with its receivers.                                    *)
LEMMA TurnsMode ==
    ASSUME TypeOK, RowsAgree, NEW e \in Enrollments, NEW mode \in Modes \union {"inactive"},
           SetMode(e, mode)
    PROVE  RowsAgree' /\ lms'[e] = mode
  <1>1. lms' = [lms EXCEPT ![e] = mode]
    BY DEF SetMode
  <1>2. /\ lms'[e] = mode
        /\ \A d \in Enrollments : d # e => lms'[d] = lms[d]
    BY <1>1 DEF TypeOK
  <1>3. /\ db'[e] = Received(db[e], lms[e], mode)
        /\ \A d \in Enrollments : d # e => db'[d] = db[d]
    BY SetModeFacts
  <1>4. db[e] \in Rows
    BY DEF TypeOK
  <1>5. \A d \in Enrollments : Agrees(db'[d], lms'[d])
    BY <1>2, <1>3, <1>4, ReceivedAgrees DEF RowsAgree
  <1> QED
    BY <1>2, <1>5 DEF RowsAgree, Agrees

(* The call of the only request to the LMS.                                *)
LEMMA TurnsCall ==
    ASSUME TurnsInvariant, NEW w \in Workers, request[w] # Idle,
           NEW mode \in Modes \union {"inactive"}, CallLms(w, mode),
           request[w].op = "enroll" <=> mode = "paid",
           request[w].op \in {"enroll", "cancel", "revoke", "expire"}
    PROVE  OneRequest' /\ ModeIsKept' /\ RowsAgree'
  <1>1. /\ SetMode(request[w].on, mode)
        /\ request' = [request EXCEPT ![w].step = "save"]
        /\ request[w].on \in Enrollments
    BY CallLmsFacts, RequestFacts DEF TurnsInvariant
  <1>2. RowsAgree' /\ lms'[request[w].on] = mode
    BY <1>1, TurnsMode DEF TurnsInvariant
  <1>3. /\ \A v \in Workers : v # w => request[v] = Idle /\ request'[v] = Idle
        /\ request'[w] = [request[w] EXCEPT !.step = "save"]
        /\ request[w] \in Request
    BY <1>1, RequestFacts DEF TurnsInvariant, OneRequest, TypeOK
  <1>4. request'[w].op = request[w].op /\ request'[w].on = request[w].on
    BY <1>3 DEF Request
  <1>5. ModeIsKept'
    BY <1>2, <1>3, <1>4 DEF ModeIsKept, At
  <1>6. OneRequest'
    BY <1>3 DEF OneRequest
  <1> QED
    BY <1>2, <1>5, <1>6

(* A new request, when there is no other.                                  *)
LEMMA TurnsBegin ==
    ASSUME TurnsInvariant, Serial, NEW w \in Workers, NEW e \in Enrollments, Receive(w, e)
    PROVE  OneRequest' /\ ModeIsKept' /\ RowsAgree'
  <1> DEFINE Ops == {"enroll", "cancel", "revoke", "expire"}
  <1>0. PICK op \in Ops : \E x : Begin(w, op, e, x)
    <2>1. \/ \E x : Begin(w, "enroll", e, x)
          \/ \E x : Begin(w, "cancel", e, x)
          \/ \E x : Begin(w, "revoke", e, x)
          \/ \E x : Begin(w, "expire", e, x)
      BY Zenon DEF Receive, BeginEnroll, BeginCancel, BeginRevokeLicense, BeginExpireLicense
    <2> QED
      BY <2>1, Zenon
  <1>1. PICK f : Begin(w, op, e, f)
    BY <1>0
  <1>2. /\ \A v \in Workers : request[v] = Idle
        /\ UNCHANGED <<lms, db>>
    BY <1>1 DEF Begin, Undisturbed
  <1> DEFINE left == db[e].enrollment # NoRow /\ db[e].enrollment.unenrolled
             r == [op |-> op, step |-> "lms", on |-> e, source |-> f.source,
                   revoked |-> f.revoked, unenrolled |-> left]
  <1>3. request' = [request EXCEPT ![w] = r] /\ r.step = "lms"
    BY <1>1 DEF Begin
  <1> HIDE DEF r
  <1>4. request'[w] = r /\ \A v \in Workers : v # w => request'[v] = Idle
    BY <1>2, <1>3 DEF TurnsInvariant, TypeOK
  <1>5. OneRequest'
    BY <1>4 DEF OneRequest
  <1>6. ModeIsKept'
    BY <1>3, <1>4 DEF ModeIsKept, At
  <1>7. RowsAgree'
    BY <1>2 DEF TurnsInvariant, RowsAgree, Agrees
  <1> QED
    BY <1>5, <1>6, <1>7

(* What a request writes when it has called the LMS.                       *)
LEMMA TurnsSave ==
    ASSUME TurnsInvariant, NEW w \in Workers,
           RecordEnrollment(w) \/ RecordUnanswered(w) \/ RevokeFulfillment(w)
    PROVE  OneRequest' /\ ModeIsKept' /\ RowsAgree'
  <1> DEFINE e    == request[w].on
             x    == request[w].source
             rows == WithEnrollment(db[e])
             paid == IF x \in Transactions THEN WithCredit(rows, x) ELSE WithLicense(rows, x)
  <1>1. /\ request[w] \in Request /\ e \in Enrollments /\ x \in Sources
        /\ db[e] \in Rows /\ Agrees(db[e], lms[e])
    BY RequestFacts
       DEF RecordEnrollment, RecordUnanswered, RevokeFulfillment, At, TurnsInvariant, TypeOK,
           RowsAgree
  <1>2. \A v \in Workers : request'[v] \in {request[v], Idle}
    BY DEF RecordEnrollment, RecordUnanswered, RevokeFulfillment, TurnsInvariant, TypeOK
  <1>3. CASE RecordEnrollment(w) \/ RecordUnanswered(w)
    <2>1. db' = [db EXCEPT ![e] = paid] /\ UNCHANGED lms /\ lms[e] = "paid"
      BY <1>3 DEF RecordEnrollment, RecordUnanswered, WriteRows, TurnsInvariant, ModeIsKept
    <2>2. /\ rows \in Rows /\ rows.enrollment # NoRow
          /\ ~rows.enrollment.unenrolled
      BY <1>1, <2>1, WithEnrollmentFacts, EnrollmentRowFacts DEF Agrees, WithEnrollment, Rows
    <2> HIDE DEF rows
    <2>3. paid \in Rows /\ paid.enrollment # NoRow /\ ~paid.enrollment.unenrolled
      <3>1. CASE x \in Transactions
        BY <2>2, <3>1, WithCreditFacts
      <3>2. CASE x \notin Transactions
        BY <1>1, <2>2, <3>2, WithLicenseFacts DEF Sources
      <3> QED
        BY <3>1, <3>2
    <2>4. Agrees(paid, lms[e])
      BY <2>1, <2>3 DEF Agrees, Modes
    <2> HIDE DEF paid
    <2> QED
      BY <1>1, <1>2, <2>1, <2>3, <2>4, TurnsRows
  <1>4. CASE RevokeFulfillment(w)
    <2> DEFINE after == RevokeCopy(db[e], request[w])
    <2>1. db' = [db EXCEPT ![e] = after] /\ UNCHANGED lms /\ lms[e] # "paid"
      BY <1>4 DEF RevokeFulfillment, WriteRows, TurnsInvariant, ModeIsKept
    <2>2. after \in Rows /\ Agrees(after, lms[e])
      BY <1>1, <2>1, RevokeCopyFacts, RevokeAgrees
    <2> HIDE DEF after
    <2> QED
      BY <1>1, <1>2, <2>1, <2>2, TurnsRows
  <1> QED
    BY <1>3, <1>4

(* The learner's acts, when there is no request, and the task.             *)
LEMMA TurnsLearner ==
    ASSUME TurnsInvariant, Serial, NEW e \in Enrollments,
           Learner(e) \/ CreateEnterpriseEnrollment(e) \/ DropEnrollment(e)
    PROVE  OneRequest' /\ ModeIsKept' /\ RowsAgree'
  <1>0. db[e] \in Rows /\ Agrees(db[e], lms[e])
    BY DEF TurnsInvariant, TypeOK, RowsAgree
  <1>1. ASSUME NEW mode \in Modes \union {"inactive"}, SetMode(e, mode), Undisturbed,
               UNCHANGED request
        PROVE  OneRequest' /\ ModeIsKept' /\ RowsAgree'
    BY <1>1, TurnsMode DEF Undisturbed, TurnsInvariant, OneRequest, ModeIsKept, At
  <1>2. ASSUME NEW b \in BOOLEAN, SaveForLater(e, b)
        PROVE  OneRequest' /\ ModeIsKept' /\ RowsAgree'
    <2> DEFINE row  == [db[e].enrollment EXCEPT !.saved = b]
               rows == [db[e] EXCEPT !.enrollment = row]
    <2>1. db[e].enrollment \in EnrollmentRow
      BY <1>0, <1>2 DEF SaveForLater, Rows
    <2>2. /\ row \in EnrollmentRow /\ row.unenrolled = db[e].enrollment.unenrolled
      BY <2>1 DEF EnrollmentRow
    <2>3. db' = [db EXCEPT ![e] = rows] /\ UNCHANGED <<lms, request>>
          /\ db[e].enrollment # NoRow
      BY <1>2 DEF SaveForLater
    <2> HIDE DEF row
    <2>4. row # NoRow
      BY <2>2, RowAssumption
    <2>5. rows \in Rows /\ rows.credit = db[e].credit /\ rows.enrollment = row
      BY <1>0, <2>2 DEF Rows
    <2> HIDE DEF rows
    <2>6. Agrees(rows, lms[e])
      BY <1>0, <2>2, <2>3, <2>4, <2>5 DEF Agrees
    <2> QED
      BY <2>3, <2>5, <2>6, TurnsRows
  <1>3. WithEnrollment(db[e]) \in Rows /\ Agrees(WithEnrollment(db[e]), lms[e])
    BY <1>0, WithEnrollmentFacts, EnrollmentRowFacts DEF Agrees, WithEnrollment, Rows
  <1>4. ASSUME NEW l \in Licenses, ConsentToEnroll(e, l)
        PROVE  OneRequest' /\ ModeIsKept' /\ RowsAgree'
    <2> DEFINE rows == WithLicense(WithEnrollment(db[e]), l)
    <2>1. rows \in Rows /\ Agrees(rows, lms[e])
      BY <1>3, WithLicenseFacts DEF Agrees
    <2>2. db' = [db EXCEPT ![e] = rows] /\ UNCHANGED <<lms, request>>
      BY <1>4 DEF ConsentToEnroll
    <2> HIDE DEF rows
    <2> QED
      BY <2>1, <2>2, TurnsRows
  <1>5. CASE CreateEnterpriseEnrollment(e)
    <2>1. db' = [db EXCEPT ![e] = WithEnrollment(db[e])] /\ UNCHANGED <<lms, request>>
      BY <1>5 DEF CreateEnterpriseEnrollment
    <2> QED
      BY <1>3, <2>1, TurnsRows
  <1>6. CASE DropEnrollment(e)
    BY <1>6 DEF DropEnrollment, TurnsInvariant, OneRequest, ModeIsKept, RowsAgree, Agrees, At
  <1> QED
    BY <1>1, <1>2, <1>4, <1>5, <1>6 DEF Learner, LearnerUnenroll, LearnerEnroll

LEMMA TurnsStep ==
    ASSUME Serial, TypeInvariant, TurnsInvariant, [Next]_vars
    PROVE  TurnsInvariant'
  <1>1. TypeOK'
    BY TypeStep DEF TypeInvariant
  <1>2. ASSUME NEW w \in Workers, EnrollInLms(w) \/ CancelInLms(w) \/ TerminateInLms(w)
        PROVE  OneRequest' /\ ModeIsKept' /\ RowsAgree'
    <2>1. PICK mode \in Modes \union {"inactive"} :
             /\ request[w] # Idle /\ CallLms(w, mode)
             /\ request[w].op = "enroll" <=> mode = "paid"
             /\ request[w].op \in {"enroll", "cancel", "revoke", "expire"}
      BY <1>2 DEF EnrollInLms, CancelInLms, TerminateInLms, At, Modes
    <2> QED
      BY <2>1, TurnsCall
  <1>3. ASSUME NEW w \in Workers, EndRequest(w)
        PROVE  OneRequest' /\ ModeIsKept' /\ RowsAgree'
    BY <1>3 DEF EndRequest, TurnsInvariant, TypeOK, OneRequest, ModeIsKept, RowsAgree, Agrees, At
  <1>4. ASSUME UNCHANGED vars
        PROVE  OneRequest' /\ ModeIsKept' /\ RowsAgree'
    BY <1>4 DEF vars, TurnsInvariant, OneRequest, ModeIsKept, RowsAgree, Agrees, At
  <1>5. OneRequest' /\ ModeIsKept' /\ RowsAgree'
    BY <1>2, <1>3, <1>4, TurnsSave, TurnsBegin, TurnsLearner DEF Next, Serve
  <1> QED
    BY <1>1, <1>5 DEF TurnsInvariant

LEMMA TurnsInit == Init => TypeInvariant /\ TurnsInvariant
  <1> SUFFICES ASSUME Init PROVE TypeInvariant /\ TurnsInvariant
    OBVIOUS
  <1>1. TypeInvariant /\ TypeOK
    BY RowAssumption DEF Init, TypeInvariant, TypeOK, Rows, TaskStates, RedeemsUsed, Redeems
  <1>2. OneRequest /\ ModeIsKept
    BY DEF Init, OneRequest, ModeIsKept, At
  <1>3. RowsAgree
    BY DEF Init, RowsAgree, Agrees, Live
  <1> QED
    BY <1>1, <1>2, <1>3 DEF TurnsInvariant

LEMMA TurnsHeld == TurnsInvariant => HeldIsEnrolled
  BY DEF TurnsInvariant, RowsAgree, Agrees, HeldIsEnrolled

(* When requests and the learner's acts do not overlap, learner credit     *)
(* that is not revoked pays for an enrollment that is active in the LMS    *)
(* and shown as enrolled: every handler restores the agreement of the two  *)
(* systems, whatever the one before it left (set_unenrolled, reactivate).  *)
THEOREM HeldStaysEnrolled ==
    ASSUME Serial
    PROVE  Spec => []HeldIsEnrolled
  <1> DEFINE Inv == TypeInvariant /\ TurnsInvariant
  <1>1. Inv /\ [Next]_vars => Inv'
    BY TypeStep, TurnsStep
  <1> QED
    BY <1>1, TurnsInit, TurnsHeld, PTL DEF Spec

-----------------------------------------------------------------------------
(* Default enrollments                                                     *)

\* The mode the LMS keeps for an inactive enrollment is that of an active one.
TrackIsMode == \A e \in Enrollments : lms[e] \in Modes => track[e] = lms[e]

\* The runs the client may still enroll the learner in by default.
Asked(e) == e \in offered \/ \E w \in byDefault : request[w].on = e

\* What learner-status saw of them: a row marked since is remembered.
StillEnrollable ==
    \A e \in Enrollments :
        Asked(e) /\ Marked(db[e]) => track[e] = "audit" \/ e \in late

DefaultsInvariant == TypeInvariant /\ DefaultsTypeOK /\ TrackIsMode /\ StillEnrollable

(* RecordUnanswered writes the rows of RecordEnrollment.                   *)
LEMMA UnansweredFacts ==
    ASSUME TypeInvariant, NEW w \in Workers, RecordUnanswered(w)
    PROVE  /\ TypeInvariant' /\ UNCHANGED lms
           /\ request' = [request EXCEPT ![w] = Idle]
  <1> DEFINE e     == request[w].on
             x     == request[w].source
             rows  == WithEnrollment(db[e])
             after == IF x \in Transactions THEN WithCredit(rows, x) ELSE WithLicense(rows, x)
  <1>1. /\ At(w, {"enroll"}, "save")
        /\ WriteRows(e, after, {})
        /\ request' = [request EXCEPT ![w] = Idle]
        /\ UNCHANGED <<lms, task, used, accepted>>
    BY DEF RecordUnanswered
  <1>2. e \in Enrollments /\ x \in Sources /\ db[e] \in Rows /\ TypeOK
    BY <1>1, RequestFacts DEF At, TypeInvariant, TypeOK
  <1> HIDE DEF e, x
  <1>3. rows \in Rows /\ rows.enrollment # NoRow
    BY <1>2, WithEnrollmentFacts
  <1> HIDE DEF rows
  <1>4. after \in Rows
    <2>1. CASE x \in Transactions
      BY <2>1, <1>3, WithCreditFacts
    <2>2. CASE x \notin Transactions
      BY <2>2, <1>2, <1>3, WithLicenseFacts DEF Sources
    <2> QED
      BY <2>1, <2>2
  <1> HIDE DEF after
  <1>5. db' \in [Enrollments -> Rows] /\ reports' \in [Transactions -> Nat]
    BY <1>1, <1>2, <1>4, WriteRowsFacts
  <1>6. TypeOK'
    BY <1>1, <1>2, <1>5 DEF TypeOK
  <1>7. RedeemsUsed'
    BY <1>1, <1>2 DEF TypeInvariant, TypeOK, RedeemsUsed, Redeems
  <1> QED
    BY <1>1, <1>6, <1>7 DEF TypeInvariant

(* A step changes the mode of an enrollment with its receivers, and leaves *)
(* a request on its enrollment for as long as it is served.                *)
LEMMA StepFacts ==
    ASSUME TypeOK, [Next]_vars
    PROVE  /\ \A e \in Enrollments :
                \/ lms'[e] = lms[e]
                \/ lms'[e] \in Modes /\ db'[e] = Received(db[e], lms[e], lms'[e])
                \/ lms'[e] = "inactive"
           /\ \A v \in Workers :
                request[v] # Idle /\ request'[v] # Idle => request'[v].on = request[v].on
  <1>1. CASE ModeStep
    <2>1. PICK e \in Enrollments, mode \in Modes \union {"inactive"} : SetMode(e, mode)
      BY <1>1 DEF ModeStep
    <2>2. lms' = [lms EXCEPT ![e] = mode] /\ db'[e] = Received(db[e], lms[e], mode)
      BY <2>1, SetModeFacts DEF SetMode
    <2> QED
      BY <1>1, <2>2 DEF ModeStep, SameRequests, TypeOK
  <1>2. CASE QuietStep
    BY <1>2 DEF QuietStep
  <1>3. CASE BeginStep
    BY <1>3 DEF BeginStep, TypeOK
  <1>4. ASSUME NEW w \in Workers, RecordEnrollment(w) \/ RevokeFulfillment(w)
        PROVE  UNCHANGED lms /\ request' = [request EXCEPT ![w] = Idle]
    BY <1>4 DEF RecordEnrollment, RevokeFulfillment
  <1>5. CASE UNCHANGED vars
    BY <1>5 DEF vars
  <1> QED
    BY <1>1, <1>2, <1>3, <1>4, <1>5, StepKinds DEF TypeOK

(* What a step that is remembered does to the types and to what is asked.  *)
LEMMA RememberedFacts ==
    ASSUME DefaultsInvariant,
           \/ Subsidised
           \/ \E w \in Workers :
                RecordDefault(w) \/ \E e \in Enrollments, x \in Sources : BeginDefault(w, e, x)
           \/ \E i \in Intentions :
                SetAvailable(i) \/ \E e \in Enrollments \union {NoRun} : Advertise(i, e)
    PROVE  /\ TypeInvariant'
           /\ \A e \in Enrollments :
                \/ lms'[e] = lms[e]
                \/ lms'[e] \in Modes /\ db'[e] = Received(db[e], lms[e], lms'[e])
                \/ lms'[e] = "inactive"
           /\ available' \subseteq Intentions
           /\ resolved' \in [Intentions -> Enrollments \union {NoRun}]
           /\ realized' \in [Enrollments -> Intentions \union {NoIntention}]
           /\ offered' \subseteq Enrollments
           /\ byDefault' \subseteq {w \in Workers : request'[w] # Idle}
           /\ \A e \in Enrollments : Asked(e)' => Asked(e)
  <1>1. /\ TypeInvariant /\ TypeOK
        /\ available \subseteq Intentions
        /\ resolved \in [Intentions -> Enrollments \union {NoRun}]
        /\ realized \in [Enrollments -> Intentions \union {NoIntention}]
        /\ offered \subseteq Enrollments
        /\ byDefault \subseteq {w \in Workers : request[w] # Idle}
    BY DEF DefaultsInvariant, DefaultsTypeOK
  <1>2. CASE Subsidised
    <2>1. /\ Next /\ byDefault' = {w \in byDefault : request'[w] # Idle}
          /\ UNCHANGED <<available, resolved, realized, offered>>
      BY <1>2 DEF Subsidised
    <2>2. TypeInvariant'
      BY <1>1, <2>1, TypeStep
    <2>3. \A w \in byDefault' : w \in byDefault /\ request'[w].on = request[w].on
      BY <1>1, <2>1, StepFacts
    <2>4. \A e \in Enrollments : Asked(e)' => Asked(e)
      BY <2>1, <2>3 DEF Asked
    <2> QED
      BY <1>1, <2>1, <2>2, <2>4, StepFacts
  <1>3. ASSUME NEW w \in Workers, RecordDefault(w)
        PROVE  /\ TypeInvariant' /\ UNCHANGED <<lms, available, resolved, offered>>
               /\ realized' \in [Enrollments -> Intentions \union {NoIntention}]
               /\ byDefault' \subseteq {v \in Workers : request'[v] # Idle}
               /\ \A e \in Enrollments : Asked(e)' => Asked(e)
    <2>1. /\ RecordEnrollment(w) \/ RecordUnanswered(w)
          /\ \/ realized' = realized
             \/ \E i \in Intentions : realized' = [realized EXCEPT ![request[w].on] = i]
          /\ byDefault' = byDefault \ {w}
          /\ UNCHANGED <<available, resolved, offered>>
      BY <1>1, <1>3 DEF RecordDefault, Matching
    <2>2. TypeInvariant' /\ UNCHANGED lms /\ request' = [request EXCEPT ![w] = Idle]
      <3>1. CASE RecordEnrollment(w)
        <4>1. Next
          BY <3>1 DEF Next, Serve
        <4> QED
          BY <1>1, <3>1, <4>1, TypeStep DEF RecordEnrollment
      <3>2. CASE RecordUnanswered(w)
        BY <1>1, <3>2, UnansweredFacts
      <3> QED
        BY <2>1, <3>1, <3>2
    <2>3. \A v \in byDefault' : v \in byDefault /\ request'[v] = request[v]
      BY <1>1, <2>1, <2>2 DEF TypeOK
    <2>4. \A e \in Enrollments : Asked(e)' => Asked(e)
      BY <2>1, <2>3 DEF Asked
    <2> QED
      BY <1>1, <2>1, <2>2, <2>3, <2>4
  <1>4. ASSUME NEW w \in Workers, NEW e \in Enrollments, NEW x \in Sources, BeginDefault(w, e, x)
        PROVE  /\ TypeInvariant' /\ UNCHANGED <<lms, available, resolved, realized>>
               /\ offered' \subseteq offered
               /\ byDefault' \subseteq {v \in Workers : request'[v] # Idle}
               /\ \A d \in Enrollments : Asked(d)' => Asked(d)
    <2>1. /\ BeginEnroll(w, e, x) /\ e \in offered
          /\ offered' = offered \ {e} /\ byDefault' = byDefault \union {w}
          /\ UNCHANGED <<available, resolved, realized>>
      BY <1>4 DEF BeginDefault
    <2>2. Next
      BY <2>1 DEF Next, Receive
    <2>3. TypeInvariant'
      BY <1>1, <2>2, TypeStep
    <2>4. PICK r \in Request : /\ request' = [request EXCEPT ![w] = r] /\ r.on = e
                               /\ UNCHANGED lms
      <3> DEFINE f == [source |-> x, revoked |-> FALSE]
      <3>1. f.source \in Sources /\ f.revoked \in BOOLEAN /\ Begin(w, "enroll", e, f)
        BY <2>1 DEF BeginEnroll
      <3> HIDE DEF f
      <3> QED
        BY <1>1, <3>1, BeginFacts
    <2>5. request'[w] = r /\ \A v \in Workers : v # w => request'[v] = request[v]
      BY <1>1, <2>4 DEF TypeOK
    <2>6. byDefault' \subseteq {v \in Workers : request'[v] # Idle}
      BY <1>1, <2>1, <2>5, RequestAssumption
    <2>7. \A d \in Enrollments : Asked(d)' => Asked(d)
      BY <1>1, <2>1, <2>4, <2>5 DEF Asked
    <2> QED
      BY <2>1, <2>3, <2>4, <2>6, <2>7
  <1>5. ASSUME NEW i \in Intentions,
               SetAvailable(i) \/ \E e \in Enrollments \union {NoRun} : Advertise(i, e)
        PROVE  /\ TypeInvariant' /\ UNCHANGED <<lms, realized, offered>>
               /\ available' \subseteq Intentions
               /\ resolved' \in [Intentions -> Enrollments \union {NoRun}]
               /\ byDefault' \subseteq {v \in Workers : request'[v] # Idle}
               /\ \A e \in Enrollments : Asked(e)' => Asked(e)
    <2>1. UNCHANGED <<vars, realized, offered, byDefault>>
      BY <1>5 DEF SetAvailable, Advertise
    <2>2. TypeInvariant'
      BY <1>1, <2>1, TypeStep
    <2>3. available' \subseteq Intentions /\ resolved' \in [Intentions -> Enrollments \union {NoRun}]
      BY <1>1, <1>5 DEF SetAvailable, Advertise
    <2> QED
      BY <1>1, <2>1, <2>2, <2>3 DEF vars, Asked
  <1> QED
    BY <1>1, <1>2, <1>3, <1>4, <1>5

LEMMA DefaultsStep == DefaultsInvariant /\ [DefaultsNext]_defaultVars => DefaultsInvariant'
  <1> SUFFICES ASSUME DefaultsInvariant, [DefaultsNext]_defaultVars PROVE DefaultsInvariant'
    OBVIOUS
  <1> USE DEF DefaultsInvariant
  <1>1. CASE LearnerStatus
    <2>1. /\ UNCHANGED <<vars, available, resolved, realized, byDefault, track>>
          /\ offered' = NeedsEnrollment
          /\ late' = late \intersect {request[w].on : w \in byDefault}
      BY <1>1 DEF LearnerStatus
    <2>2. TypeInvariant'
      BY <2>1, TypeStep
    <2>3. DefaultsTypeOK'
      BY <2>1, <2>2 DEF DefaultsTypeOK, TypeInvariant, NeedsEnrollment, vars
    <2>4. TrackIsMode'
      BY <2>1 DEF TrackIsMode, vars
    <2>5. ASSUME NEW e \in Enrollments, Asked(e)', Marked(db[e])
          PROVE  track[e] = "audit" \/ e \in late'
      <3>1. CASE e \in NeedsEnrollment
        BY <2>5, <3>1 DEF NeedsEnrollment, Enrollable, NonAudit, Marked
      <3>2. CASE e \notin NeedsEnrollment
        <4>1. PICK w \in byDefault : request[w].on = e
          BY <2>1, <2>5, <3>2 DEF Asked, vars
        <4> QED
          BY <2>1, <2>5, <4>1 DEF StillEnrollable, Asked
      <3> QED
        BY <3>1, <3>2
    <2>6. StillEnrollable'
      BY <2>1, <2>5 DEF StillEnrollable, vars, Marked
    <2> QED
      BY <2>2, <2>3, <2>4, <2>6
  <1>2. CASE UNCHANGED defaultVars
    <2>1. UNCHANGED vars /\ UNCHANGED <<track, late, available, resolved, realized, offered, byDefault>>
      BY <1>2 DEF defaultVars, defaults
    <2>2. TypeInvariant'
      BY <2>1, TypeStep
    <2> QED
      BY <2>1, <2>2 DEF vars, DefaultsTypeOK, TypeInvariant, TrackIsMode, StillEnrollable, Asked, Marked
  <1>3. CASE DefaultsNext /\ ~LearnerStatus
    <2>1. /\ Remember
          /\ TypeInvariant'
          /\ \A e \in Enrollments :
               \/ lms'[e] = lms[e]
               \/ lms'[e] \in Modes /\ db'[e] = Received(db[e], lms[e], lms'[e])
               \/ lms'[e] = "inactive"
          /\ available' \subseteq Intentions
          /\ resolved' \in [Intentions -> Enrollments \union {NoRun}]
          /\ realized' \in [Enrollments -> Intentions \union {NoIntention}]
          /\ offered' \subseteq Enrollments
          /\ byDefault' \subseteq {w \in Workers : request'[w] # Idle}
          /\ \A e \in Enrollments : Asked(e)' => Asked(e)
      BY <1>3, RememberedFacts DEF DefaultsNext
    <2>2. /\ \A e \in Enrollments :
               track'[e] = IF lms'[e] \in Modes THEN lms'[e]
                           ELSE IF e \in MovedToAudit THEN "audit" ELSE track[e]
          /\ track' \in [Enrollments -> Modes \union {"none"}]
          /\ late' = late \union {e \in Enrollments : ~Marked(db[e]) /\ Marked(db'[e])}
          /\ late' \subseteq Enrollments
      BY <2>1 DEF Remember, DefaultsTypeOK, Modes
    <2>3. DefaultsTypeOK'
      BY <2>1, <2>2 DEF DefaultsTypeOK, TypeInvariant
    <2>4. TrackIsMode'
      BY <2>2 DEF TrackIsMode
    <2>5. ASSUME NEW e \in Enrollments, Asked(e)', Marked(db'[e])
          PROVE  track'[e] = "audit" \/ e \in late'
      <3>1. CASE ~Marked(db[e])
        BY <2>2, <2>5, <3>1
      <3>2. CASE Marked(db[e]) /\ (lms'[e] \notin Modes \/ lms'[e] = lms[e])
        BY <2>1, <2>2, <2>5, <3>2 DEF StillEnrollable, TrackIsMode
      <3>3. CASE Marked(db[e]) /\ lms'[e] \in Modes /\ lms'[e] # lms[e]
        <4>1. db'[e] = SetEnrolled(db[e]) /\ db[e].enrollment # NoRow /\ db[e] \in Rows
          BY <2>1, <3>3 DEF Received, Modes, Marked, TypeInvariant, TypeOK
        <4>2. db'[e].enrollment = NewEnrollment
          BY <4>1 DEF SetEnrolled, Rows
        <4> QED
          BY <2>5, <4>2, EnrollmentRowFacts DEF Marked
      <3> QED
        BY <3>1, <3>2, <3>3
    <2>6. StillEnrollable'
      BY <2>5 DEF StillEnrollable, Marked
    <2> QED
      BY <2>1, <2>3, <2>4, <2>6
  <1> QED
    BY <1>1, <1>2, <1>3

LEMMA DefaultsInitial == DefaultsInit => DefaultsInvariant
  <1> SUFFICES ASSUME DefaultsInit PROVE DefaultsInvariant
    OBVIOUS
  <1>1. TypeInvariant /\ TypeOK
    BY TurnsInit DEF DefaultsInit, TypeInvariant
  <1>2. DefaultsTypeOK
    BY <1>1 DEF DefaultsInit, DefaultsTypeOK
  <1>3. TrackIsMode /\ StillEnrollable
    BY DEF DefaultsInit, Init, TrackIsMode, StillEnrollable, Asked, Modes
  <1> QED
    BY <1>1, <1>2, <1>3 DEF DefaultsInvariant

(* A learner who left a course is not enrolled in it again by default, on  *)
(* answers of learner-status however old, whatever the requests, the       *)
(* learner, the staff and the catalog service do in between: only where an *)
(* audit enrollment was left, or a paid one that the end of its license    *)
(* moved to audit since, or the row was not yet marked when the client had *)
(* its answer.                                                             *)
THEOREM LeaversStayOut == DefaultsSpec => LeaverStaysOut
  <1> DEFINE Step == \A w \in byDefault :
               LET e == request[w].on
               IN  At(w, {"enroll"}, "lms") /\ lms[e] = "inactive" /\ lms'[e] \in Modes
                   => track[e] = "audit" \/ ~Marked(db[e]) \/ e \in late
  <1>1. DefaultsInvariant => Step
    <2> SUFFICES ASSUME DefaultsInvariant, NEW w \in byDefault, At(w, {"enroll"}, "lms"),
                        Marked(db[request[w].on])
                 PROVE  track[request[w].on] = "audit" \/ request[w].on \in late
      OBVIOUS
    <2>1. w \in Workers /\ request[w] # Idle /\ TypeOK
      BY DEF DefaultsInvariant, DefaultsTypeOK
    <2> QED
      BY <2>1, RequestFacts DEF DefaultsInvariant, StillEnrollable, Asked
  <1> HIDE DEF Step
  <1>2. DefaultsSpec => [][Step]_defaultVars
    BY <1>1, DefaultsStep, DefaultsInitial, PTL DEF DefaultsSpec
  <1> QED
    BY <1>2 DEF Step, LeaverStaysOut

(* The enrollments requested by default keep the promise of the others: a  *)
(* realization that collides, after the rows were written, loses no        *)
(* agreement between credit and LMS.                                       *)
THEOREM HeldStaysEnrolledByDefault ==
    ASSUME Serial
    PROVE  DefaultsSpec => []HeldIsEnrolled
  <1> DEFINE Inv == DefaultsInvariant /\ TurnsInvariant
  <1>1. DefaultsInit => Inv
    BY DefaultsInitial, TurnsInit DEF DefaultsInit
  <1>2. Inv /\ [DefaultsNext]_defaultVars => Inv'
    <2> SUFFICES ASSUME DefaultsInvariant, TurnsInvariant, [DefaultsNext]_defaultVars
                 PROVE  TurnsInvariant'
      BY DefaultsStep
    <2>1. TypeInvariant
      BY DEF DefaultsInvariant
    <2>2. ASSUME [Next]_vars PROVE TurnsInvariant'
      BY <2>1, <2>2, TurnsStep
    <2>3. ASSUME NEW w \in Workers, RecordUnanswered(w) PROVE TurnsInvariant'
      <3>1. TypeOK'
        BY <2>1, <2>3, UnansweredFacts DEF TypeInvariant
      <3>2. OneRequest' /\ ModeIsKept' /\ RowsAgree'
        BY <2>3, TurnsSave
      <3> QED
        BY <3>1, <3>2 DEF TurnsInvariant
    <2>4. ASSUME NEW w \in Workers, NEW e \in Enrollments, NEW x \in Sources, BeginDefault(w, e, x)
          PROVE  Next
      BY <2>4 DEF BeginDefault, Next, Receive
    <2>5. ASSUME NEW w \in Workers, RecordDefault(w) PROVE Next \/ RecordUnanswered(w)
      BY <2>5 DEF RecordDefault, Next, Serve
    <2>6. CASE LearnerStatus \/ UNCHANGED defaultVars
      BY <2>2, <2>6 DEF LearnerStatus, defaultVars
    <2>7. ASSUME NEW i \in Intentions,
                 SetAvailable(i) \/ \E e \in Enrollments \union {NoRun} : Advertise(i, e)
          PROVE  UNCHANGED vars
      BY <2>7 DEF SetAvailable, Advertise
    <2> QED
      BY <2>2, <2>3, <2>4, <2>5, <2>6, <2>7 DEF DefaultsNext, Subsidised
  <1>3. Inv => HeldIsEnrolled
    BY TurnsHeld
  <1> QED
    BY <1>1, <1>2, <1>3, PTL DEF DefaultsSpec
=============================================================================
