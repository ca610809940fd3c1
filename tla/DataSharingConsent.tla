-------------------------- MODULE DataSharingConsent --------------------------
(***************************************************************************)
(* The consent of one learner to share the results of courses with one     *)
(* customer: a record per course run or course, of which that of the run   *)
(* goes first, and a cache that says of which runs consent is not needed.  *)
(*                                                                         *)
(* A request that answers for the learner looks the records up, may enroll *)
(* the learner, and saves the records when its transaction commits.  The   *)
(* check whether a visitor has to be asked looks up by HTTP and then       *)
(* writes to the cache.  The other handlers are one step each.             *)
(***************************************************************************)
CONSTANTS
    Runs,
    Courses,
    CourseOf,  \* the course of each run
    Program,   \* the courses of a program the learner may consent to at once
    Workers,   \* processes that serve requests
    Idle

ASSUME CourseAssumption ==
    CourseOf \in [Runs -> Courses] /\ Program \subseteq Courses /\ Runs \intersect Courses = {}

VARIABLES
    consent,   \* the DataSharingConsent record of each run and course
    enrolled,  \* runs with an EnterpriseCourseEnrollment
    covered,   \* courses in the catalogs of a customer that asks for consent
    cached,    \* runs cached as not needing consent
    request,   \* the request each worker serves
    answer,    \* history: the last answer given for each run
    undone     \* history: runs whose answer another request has undone

vars == <<consent, enrolled, covered, cached, request, answer, undone>>

Ids == Runs \union Courses

Request ==
    [op : {"answer"}, named : SUBSET Ids, records : SUBSET Ids, granted : BOOLEAN, page : BOOLEAN]
        \union [op : {"check"}, run : Runs, needed : BOOLEAN]

TypeOK ==
    /\ consent \in [Ids -> {"none", "granted", "refused"}]
    /\ enrolled \subseteq Runs
    /\ covered \subseteq Courses
    /\ cached \subseteq Runs
    /\ request \in [Workers -> Request \union {Idle}]
    /\ answer \in [Runs -> {"none", "granted", "refused"}]
    /\ undone \subseteq Runs

Init ==
    /\ consent = [x \in Ids |-> "none"]
    /\ enrolled = {}
    /\ covered \in SUBSET Courses
    /\ cached = {}
    /\ request = [w \in Workers |-> Idle]
    /\ answer = [r \in Runs |-> "none"]
    /\ undone = {}

Has(x) == consent[x] # "none"
CourseOfId(x) == IF x \in Runs THEN CourseOf[x] ELSE x

\* Mutant: the record of the course goes first.
CourseFirst(x) == IF Has(CourseOfId(x)) THEN CourseOfId(x) ELSE x

\* proxied_get: the record that decides, or the one to be made.
Record(x) == IF Has(x) \/ ~Has(CourseOfId(x)) THEN x ELSE CourseOfId(x)

\* The discovery service may not know the course of a run just now.
Found(x) == {Record(x), x}

Consented(r) == consent[Record(r)] = "granted"

\* consent_required of a record
Required(x) == consent[x] # "granted" /\ CourseOfId(x) \in covered

Serving(w, op) == request[w] # Idle /\ request[w].op = op
End(w) == request' = [request EXCEPT ![w] = Idle]

-----------------------------------------------------------------------------
(* Answers                                                                 *)

BeginAnswer(w, named, records, granted, page) ==
    /\ request[w] = Idle
    /\ request' = [request EXCEPT ![w] =
           [op |-> "answer", named |-> named, records |-> records, granted |-> granted,
            page |-> page]]
    /\ UNCHANGED <<consent, enrolled, covered, cached, answer, undone>>

\* The consent page and the API record a grant only where one is required.
\* Declining on the page records nothing.
GrantOne(w, x, record, page) ==
    Required(record) /\ BeginAnswer(w, {x}, {record}, TRUE, page)

\* A program consents for all its courses if one of them requires it.
GrantProgram(w, page) ==
    (\E c \in Program : Required(c)) /\ BeginAnswer(w, Program, Program, TRUE, page)

\* The DELETE of the API.
RefuseOne(w, x, record) == BeginAnswer(w, {x}, {record}, FALSE, FALSE)
RefuseProgram(w) == Program # {} /\ BeginAnswer(w, Program, Program, FALSE, FALSE)

Value(granted) == IF granted THEN "granted" ELSE "refused"

\* An answer for a course speaks for the runs without a record of their own.
AnsweredRuns(named) ==
    {r \in Runs : r \in named \/ (CourseOf[r] \in named /\ ~Has(r))}

\* The runs whose own answer a save goes against: it was given for another run
\* and is kept with the course, or the run has got a record since the look-up.
UndoneBySave(q) ==
    {r \in Runs :
        \/ r \notin AnsweredRuns(q.named) /\ ~Has(r) /\ CourseOf[r] \in q.records
        \/ r \in q.named \ q.records /\ Has(r)}

SavedRecords(q) ==
    [x \in Ids |-> IF x \in q.records THEN Value(q.granted) ELSE consent[x]]

\* The page enrolls in the run it asks for, and in no course or program.
EnrolledBy(q) == IF q.page THEN enrolled \union (q.named \intersect Runs) ELSE enrolled

Saves(q) ==
    /\ enrolled' = EnrolledBy(q)
    /\ consent' = SavedRecords(q)
    /\ answer' = [r \in Runs |-> IF r \in AnsweredRuns(q.named) THEN Value(q.granted)
                                 ELSE answer[r]]
    /\ undone' = (undone \ AnsweredRuns(q.named)) \union UndoneBySave(q)

SaveAnswer(w) ==
    /\ Serving(w, "answer")
    /\ Saves(request[w])
    /\ End(w)
    /\ UNCHANGED <<covered, cached>>

\* The enrollment raises, before or after its row is written, or the request
\* dies, and no consent is saved.
SavesNothing(q) ==
    /\ enrolled' \in {enrolled, EnrolledBy(q)}
    /\ UNCHANGED <<consent, answer, undone>>

\* The courses of a program are saved one by one, and a save may raise.
Part(q, saved) == [q EXCEPT !.named = saved, !.records = saved]

SavesPart(q) == q.named = Program /\ \E saved \in SUBSET Program : Saves(Part(q, saved))

FailAnswer(w) ==
    /\ Serving(w, "answer")
    /\ SavesNothing(request[w]) \/ SavesPart(request[w])
    /\ End(w)
    /\ UNCHANGED <<covered, cached>>

-----------------------------------------------------------------------------
(* Handlers of one step                                                    *)

GrantRun(r) ==
    /\ consent' = [consent EXCEPT ![r] = "granted"]
    /\ answer' = [answer EXCEPT ![r] = "granted"]
    /\ undone' = undone \ {r}
    /\ UNCHANGED <<covered, cached, request>>

\* The page behind the consent page, which takes the consent for given.
HandleConsentEnrollment(r) ==
    /\ enrolled' = enrolled \union {r}
    /\ GrantRun(r)

\* create_missing_dsc_records, on behalf of an enrolled learner.
CreateMissing(r) ==
    /\ r \in enrolled
    /\ GrantRun(r)
    /\ UNCHANGED enrolled

\* delete_data_sharing_consent: the consent is to be asked for again.  What it
\* deletes from the cache is not the key that consent_needed_for_course uses.
DeleteDataSharingConsent(x) ==
    /\ Has(x)
    /\ consent' = [consent EXCEPT ![x] = "none"]
    /\ answer' = [r \in Runs |-> IF r = x THEN "none" ELSE answer[r]]
    /\ undone' = undone \ {x}
    /\ UNCHANGED <<enrolled, covered, cached, request>>

\* unlink_enterprise_customer_learners removes all records of the learner.
RemoveAll ==
    /\ \E x \in Ids : Has(x)
    /\ consent' = [x \in Ids |-> "none"]
    /\ answer' = [r \in Runs |-> "none"]
    /\ undone' = {}
    /\ UNCHANGED <<enrolled, covered, cached, request>>

\* The landing page of a course in an audit mode, the consent page for a
\* customer that asks for none or a learner who has consented, and all other
\* ways into a course: the record is made without a word on consent.
Enroll(r) ==
    /\ r \notin enrolled
    /\ enrolled' = enrolled \union {r}
    /\ UNCHANGED <<consent, covered, cached, request, answer, undone>>

\* The customer turns its consent policy, or a course enters its catalogs.
SetCovered(c) ==
    /\ covered' = IF c \in covered THEN covered \ {c} ELSE covered \union {c}
    /\ UNCHANGED <<consent, enrolled, cached, request, answer, undone>>

-----------------------------------------------------------------------------
(* consent_needed_for_course                                               *)

\* Mutant: an enrollment does not count.
HasRecord(r, record) == Has(record)

\* The record exists, or the learner is known to be enrolled.
Exists(r, record) == Has(record) \/ r \in enrolled

\* elsewhere: the visitor comes through another customer or site, and is not
\* asked.  known: the caller says that there is an LMS enrollment.
Visit(w, r, record, elsewhere, known) ==
    /\ request[w] = Idle /\ r \notin cached
    /\ request' = [request EXCEPT ![w] =
           [op |-> "check", run |-> r,
            needed |-> ~elsewhere /\ Required(record) /\ (Exists(r, record) \/ known)]]
    /\ UNCHANGED <<consent, enrolled, covered, cached, answer, undone>>

NotNeeded(q) == ~q.needed

\* The visitor is let in, or sent to the consent page.
EndVisit(w) ==
    /\ Serving(w, "check")
    /\ cached' = IF NotNeeded(request[w]) THEN cached \union {request[w].run} ELSE cached
    /\ End(w)
    /\ UNCHANGED <<consent, enrolled, covered, answer, undone>>

\* DATA_CONSENT_SHARE_CACHE_TIMEOUT
Expire(r) ==
    /\ r \in cached
    /\ cached' = cached \ {r}
    /\ UNCHANGED <<consent, enrolled, covered, request, answer, undone>>

-----------------------------------------------------------------------------
Answer(w) ==
    \/ \E x \in Ids : \E record \in Found(x) :
          \/ \E page \in BOOLEAN : GrantOne(w, x, record, page)
          \/ RefuseOne(w, x, record)
    \/ \E page \in BOOLEAN : GrantProgram(w, page)
    \/ RefuseProgram(w)

Settle(w) == SaveAnswer(w) \/ FailAnswer(w) \/ EndVisit(w)

OnRun(r) ==
    \/ HandleConsentEnrollment(r)
    \/ CreateMissing(r)
    \/ Enroll(r)
    \/ Expire(r)

Next ==
    \/ \E w \in Workers : Answer(w) \/ Settle(w)
    \/ \E w \in Workers, r \in Runs : \E record \in Found(r), elsewhere, known \in BOOLEAN :
          Visit(w, r, record, elsewhere, known)
    \/ \E r \in Runs : OnRun(r)
    \/ \E x \in Ids : DeleteDataSharingConsent(x)
    \/ RemoveAll
    \/ \E c \in Courses : SetCovered(c)

Spec == Init /\ [][Next]_vars

\* Requests end, the cache expires, and learners come back to their courses.
VisitHere(r) == \E w \in Workers : \E record \in Found(r) : Visit(w, r, record, FALSE, FALSE)

Fairness ==
    /\ \A w \in Workers : WF_vars(Settle(w))
    /\ \A r \in Runs : WF_vars(Expire(r)) /\ SF_vars(VisitHere(r))

FairSpec == Spec /\ Fairness

-----------------------------------------------------------------------------
(* Properties                                                              *)

\* No data of a run is shared whose consent the learner refused last, whatever
\* is answered for other runs and courses or fails in between, with two
\* exceptions: an answer for another run was kept with the course both share,
\* or the run got a record while the refusal was being looked up.
RefusalStands ==
    \A r \in Runs : answer[r] = "refused" => ~Consented(r) \/ r \in undone

\* A learner who comes back to a course in which consent is missing is asked
\* for it again and again, whatever has been cached in between.
AskedInTheEnd ==
    \A r \in Runs :
        <>[](r \in enrolled /\ Required(Record(r)))
            => []<>(\E w \in Workers : Serving(w, "check") /\ request[w].run = r
                                        /\ request[w].needed)
===============================================================================
