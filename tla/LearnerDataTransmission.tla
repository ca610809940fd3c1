---------------------- MODULE LearnerDataTransmission ----------------------
(***************************************************************************)
(* Learner completions and assessment grades of one customer, reported to  *)
(* the LMSs of its integrated-channel configurations.                      *)
(*                                                                         *)
(* A scheduled task reports all enrollments of one configuration under a   *)
(* cache lock; a task that a learner's progress queues reports one         *)
(* enrollment to every configuration without a lock.  Both read the grade  *)
(* and the audit row of an enrollment, decide, call the LMS and save the   *)
(* row, and any number of them may be doing so at the same time.           *)
(*                                                                         *)
(* Every channel has an audit table of its own, which its configurations   *)
(* share.  The rows of an enrollment and unit (the course or one of its    *)
(* graded subsections) are a sequence, so that first() and latest('id')    *)
(* are its ends.                                                           *)
(***************************************************************************)
EXTENDS Naturals, Sequences

CONSTANTS
    Enrollments,      \* EnterpriseCourseEnrollment rows of the customer
    Subsections,      \* graded subsections of a course
    Configs,          \* integrated-channel configurations
    Deployments,      \* the sets of configurations a customer may have
    Channels,         \* channel codes
    ChannelOf,        \* the channel of each configuration
    RecordOf,         \* how each channel finds the audit row to use
    GradeOf,          \* what each channel reports as the grade of a course
    DetectGrade,      \* channels with INCLUDE_GRADE_FOR_COMPLETION_AUDIT_CHECK
    FlagsInactive,    \* channels whose handle_transmission_error knows former employees
    ReportIncomplete, \* enable_incomplete_progress_transmission
    Assessed,         \* configurations whose channel reports subsections
    Jobs,             \* the scheduled tasks: pairs of a kind and a configuration
    Workers,          \* Celery worker processes
    Idle,             \* a worker without a task
    Marks,            \* percent grades
    Zero,             \* the percent grade 0
    Answers,          \* what an LMS may answer instead of "ok"
    MaxChanges,       \* bound: changes of grades, completion and consent
    MaxFailures,      \* bound: calls not answered by "ok"
    MaxCrashes,       \* bound: workers killed in a task
    Overrun           \* bound: locks that may expire, once, under a running task

VARIABLES
    configs,   \* the active configurations of the customer
    mark,      \* percent grade of each enrollment and unit
    done,      \* is_course_completed
    permitted, \* consent granted, reporting not disabled, learner active
    queue,     \* tasks for one learner that wait for a worker
    audits,    \* the audit rows
    task,      \* what each worker has in memory
    locks,     \* keys in the Django cache
    received,  \* reports that each LMS has accepted
    latest,    \* the last of them
    history,   \* per enrollment: a completion was repeated, had a cause to be
    slipped,   \* lock keys that have expired under a running task
    changes, failures, crashes  \* events counted against the bounds

learner  == <<mark, done, permitted>>
lms      == <<received, latest>>
counters == <<changes, failures, crashes>>
vars     == <<configs, learner, queue, audits, task, locks, lms, history, slipped, counters>>

Course  == "course"
Units   == {Course} \union Subsections
Grades  == Marks \union {"Pass", "In Progress", "none"}
Kinds   == {"completion", "assessment"}
Keys    == Configs \union {"None"}
Reports == [grade : Grades, done : BOOLEAN]

\* at = 0: not in the database yet
\* sent, ok: is_transmitted, and whether the status is that of an acceptance
Rows    == [config : Configs, grade : Grades, done : BOOLEAN, sent : BOOLEAN, ok : BOOLEAN,
            exported : BOOLEAN]
Records == [config : Configs, on : Enrollments, unit : Units, at : Nat,
            grade : Grades, done : BOOLEAN, owner : Configs]
Messages == [kind : Kinds, on : Enrollments, unit : Units, grade : Grades]

NoRecord  == [at |-> 0]
NoMessage == [kind |-> "batch"]
NoReport  == [grade |-> "none"]

ASSUME ConfigAssumption ==
    /\ ChannelOf \in [Configs -> Channels]
    /\ RecordOf \in [Channels -> {"reused", "refreshed", "fresh"}]
    /\ GradeOf \in [Channels -> {"letter", "percent", "none"}]
    /\ DetectGrade \subseteq Channels /\ FlagsInactive \subseteq Channels
    /\ ReportIncomplete \subseteq Configs /\ Assessed \subseteq Configs
    /\ Jobs \subseteq {"completion"} \X Configs \union {"assessment"} \X Assessed
    /\ Deployments \subseteq SUBSET Configs
ASSUME NameAssumption ==
    /\ Course \notin Subsections /\ "None" \notin Configs
    /\ Answers \subseteq {"error", "redirect", "inactive", "exception"}
ASSUME BoundAssumption ==
    {MaxChanges, MaxFailures, MaxCrashes} \subseteq Nat /\ Overrun \subseteq Keys

Tasks == [kind : Kinds, message : Messages \union {NoMessage}, config : Configs,
          todo : SUBSET (Configs \X Enrollments), records : SUBSET Records,
          current : Records \union {NoRecord}, answer : {"none", "ok"} \union Answers]

ASSUME IdleAssumption == Idle \notin Tasks

TypeOK ==
    /\ configs \in Deployments
    /\ mark \in [Enrollments -> [Units -> Marks \union {"none"}]]
    /\ done \in [Enrollments -> BOOLEAN] /\ permitted \in [Enrollments -> BOOLEAN]
    /\ queue \subseteq Messages
    /\ audits \in [Channels -> [Enrollments -> [Units -> Seq(Rows)]]]
    /\ task \in [Workers -> Tasks \union {Idle}]
    /\ locks \subseteq Keys /\ slipped \subseteq Keys
    /\ received \in [Configs -> [Enrollments -> [Units -> SUBSET Reports]]]
    /\ latest \in [Configs -> [Enrollments -> [Units -> Reports \union {NoReport}]]]
    /\ history \in [Enrollments -> [repeated : BOOLEAN, disturbed : BOOLEAN]]
    /\ changes \in 0..MaxChanges /\ failures \in 0..MaxFailures /\ crashes \in 0..MaxCrashes
-----------------------------------------------------------------------------
(* Reading the database                                                    *)

Table(c, e, u) == audits[ChannelOf[c]][e][u]

\* latest('id') of the rows of this configuration that were transmitted
SentRows(c, e, u) ==
    {i \in DOMAIN Table(c, e, u) :
        LET row == Table(c, e, u)[i] IN row.sent /\ row.config = c /\ row.exported}

IsLatestSent(c, e, u, i) == \A j \in SentRows(c, e, u) : j <= i

IsAlreadyTransmitted(c, e, u, grade) ==
    \E i \in SentRows(c, e, u) :
        /\ IsLatestSent(c, e, u, i)
        /\ ChannelOf[c] \in DetectGrade => Table(c, e, u)[i].grade = grade

\* The grade a channel reports for a course: a letter, a percentage, nothing
CourseGrade(c, e) ==
    CASE GradeOf[ChannelOf[c]] = "letter"  -> IF done[e] THEN "Pass" ELSE "In Progress"
      [] GradeOf[ChannelOf[c]] = "percent" -> mark[e][Course]
      [] OTHER                             -> "none"

NewRecord(c, e, u, grade, completed) ==
    [config |-> c, on |-> e, unit |-> u, at |-> 0, grade |-> grade, done |-> completed,
     owner |-> c]

StoredRecord(c, e, i) ==
    LET row == Table(c, e, Course)[i]
    IN  [config |-> c, on |-> e, unit |-> Course, at |-> i, grade |-> row.grade,
         done |-> row.done, owner |-> row.config]

\* Most channels: the first row of the enrollment, of whatever configuration
\* and grade, is sent as it is.
ReusedRecord(c, e) ==
    IF Table(c, e, Course) = <<>>
    THEN {NewRecord(c, e, Course, CourseGrade(c, e), done[e])}
    ELSE {StoredRecord(c, e, 1)}

\* Cornerstone: the row that the learner's click on the course made, with the
\* grade of now.
RefreshedRecord(c, e) ==
    {[StoredRecord(c, e, i) EXCEPT !.grade = CourseGrade(c, e), !.done = done[e]] :
        i \in {j \in DOMAIN Table(c, e, Course) : Table(c, e, Course)[j].config = c}}

\* Degreed: always a new row, without a grade.
FreshRecord(c, e) == {NewRecord(c, e, Course, CourseGrade(c, e), done[e])}

CompletionRecords(c, e) ==
    CASE RecordOf[ChannelOf[c]] = "reused"    -> ReusedRecord(c, e)
      [] RecordOf[ChannelOf[c]] = "refreshed" -> RefreshedRecord(c, e)
      [] OTHER                               -> FreshRecord(c, e)

\* A grade of 0 is passed over like no grade.
AssessmentRecords(c, e) ==
    {NewRecord(c, e, s, mark[e][s], FALSE) :
        s \in {t \in Subsections : mark[e][t] \notin {"none", Zero}}}

-----------------------------------------------------------------------------
(* Tasks                                                                   *)

\* The lock is named after the keyword arguments of the call.  The command
\* that schedules assessments passes positional ones.
\* Mutant: the key is the name of the task alone.
LockKeyOfTask(kind, c) == kind

LockKey(kind, c) == IF kind = "completion" THEN c ELSE "None"

IsBatch(w)    == task[w] # Idle /\ task[w].message = NoMessage
Holders(key)  == {w \in Workers : IsBatch(w) /\ LockKey(task[w].kind, task[w].config) = key}

\* Mutant: a task that never took the lock deletes it, too.
UnlockedByAny(w) ==
    IF task[w] = Idle THEN locks ELSE locks \ {LockKey(task[w].kind, task[w].config)}

Unlocked(w) == IF IsBatch(w) THEN locks \ {LockKey(task[w].kind, task[w].config)} ELSE locks

\* The records a worker has in memory and not saved yet
InHand(w) ==
    IF task[w] = Idle THEN {}
    ELSE task[w].records \union ({task[w].current} \ {NoRecord})

NewTask(kind, message, c, todo) ==
    [kind |-> kind, message |-> message, config |-> c, todo |-> todo, records |-> {},
     current |-> NoRecord, answer |-> "none"]

\* Mutant: an enrollment with a row is passed over, sent or not.
SelectedOnce(kind, c) ==
    IF kind = "assessment" THEN Enrollments
    ELSE {e \in Enrollments : permitted[e] /\ Table(c, e, Course) = <<>>}

\* _determine_enrollments_permitted, for all enrollments before the first is
\* sent; assessments are filtered one enrollment at a time.
Selected(kind, c) ==
    IF kind = "assessment" THEN Enrollments
    ELSE {e \in Enrollments : permitted[e] /\ ~IsAlreadyTransmitted(c, e, Course, "none")}

StartBatch(w, kind, c) ==
    /\ task[w] = Idle /\ c \in configs
    /\ LockKey(kind, c) \notin locks
    /\ locks' = locks \union {LockKey(kind, c)}
    /\ task' = [task EXCEPT ![w] = NewTask(kind, NoMessage, c, {c} \X Selected(kind, c))]
    /\ UNCHANGED <<configs, learner, queue, audits, lms, history, slipped, counters>>

StartSingle(w, msg) ==
    /\ task[w] = Idle /\ msg \in queue
    /\ queue' = queue \ {msg}
    /\ \E c \in configs :
         task' = [task EXCEPT ![w] = NewTask(msg.kind, msg, c,
                    {d \in configs : msg.kind = "assessment" => d \in Assessed} \X {msg.on})]
    /\ UNCHANGED <<configs, learner, audits, locks, lms, history, slipped, counters>>

\* The records to send of one enrollment
Export(t, c, e) ==
    CASE t.kind = "completion" /\ t.message = NoMessage -> CompletionRecords(c, e)
      [] t.kind = "completion" /\ t.message # NoMessage ->
            IF permitted[e] /\ ~IsAlreadyTransmitted(c, e, Course, "Pass")
            THEN CompletionRecords(c, e) ELSE {}
      [] t.kind = "assessment" /\ t.message = NoMessage ->
            IF permitted[e] THEN AssessmentRecords(c, e) ELSE {}
      [] OTHER ->
            IF permitted[e] /\ ~IsAlreadyTransmitted(c, e, t.message.unit, t.message.grade)
            THEN AssessmentRecords(c, e) ELSE {}

Collect(w, c, e) ==
    /\ task[w] # Idle /\ InHand(w) = {} /\ <<c, e>> \in task[w].todo
    /\ task' = [task EXCEPT ![w].todo = @ \ {<<c, e>>},
                            ![w].records = Export(task[w], c, e)]
    /\ history' = [history EXCEPT ![e].disturbed =
                     @ \/ \E v \in Workers \ {w} : \E r \in InHand(v) : r.on = e]
    /\ UNCHANGED <<configs, learner, queue, audits, locks, lms, slipped, counters>>

\* Mutant: a completion is not looked up again before it is sent.
ToSendUnchecked(t, r) ==
    IF t.kind = "completion" THEN r.done \/ r.config \in ReportIncomplete
    ELSE t.message = NoMessage => ~IsAlreadyTransmitted(r.config, r.on, r.unit, r.grade)

\* Mutant: a subsection with a row is passed over, sent or not.
ToSendOnce(t, r) ==
    IF t.kind = "completion"
    THEN /\ r.done \/ r.config \in ReportIncomplete
         /\ ~IsAlreadyTransmitted(r.config, r.on, Course, r.grade)
    ELSE Table(r.config, r.on, r.unit) = <<>>

\* The checks of the transmitter, which a single assessment skips
ToSend(t, r) ==
    IF t.kind = "completion"
    THEN /\ r.done \/ r.config \in ReportIncomplete
         /\ ~IsAlreadyTransmitted(r.config, r.on, Course, r.grade)
    ELSE t.message = NoMessage => ~IsAlreadyTransmitted(r.config, r.on, r.unit, r.grade)

Check(w, r) ==
    /\ task[w] # Idle /\ task[w].current = NoRecord /\ r \in task[w].records
    /\ task' = [task EXCEPT ![w].records = @ \ {r},
                            ![w].current = IF ToSend(task[w], r) THEN r ELSE NoRecord]
    /\ UNCHANGED <<configs, learner, queue, audits, locks, lms, history, slipped, counters>>

-----------------------------------------------------------------------------
(* Calling the LMS and saving the audit row                                *)

Sending(w) == task[w] # Idle /\ task[w].current # NoRecord /\ task[w].answer = "none"

Report(r) == [grade |-> r.grade, done |-> r.done]

\* create_course_completion or create_assessment_reporting reaches the LMS
Accept(r) ==
    /\ received' = [received EXCEPT ![r.config][r.on][r.unit] = @ \union {Report(r)}]
    /\ latest' = [latest EXCEPT ![r.config][r.on][r.unit] = Report(r)]

Deliver(w) ==
    /\ Sending(w)
    /\ LET r == task[w].current
       IN  /\ Accept(r)
           /\ history' = [history EXCEPT ![r.on].repeated =
                @ \/ (r.unit = Course /\ latest[r.config][r.on][Course] = Report(r))]
    /\ task' = [task EXCEPT ![w].answer = "ok"]
    /\ UNCHANGED <<configs, learner, queue, audits, locks, slipped, counters>>

\* Any other answer says nothing about whether the LMS has kept the report.  A
\* ClientError is recorded, and so is an answer from 300 to 399; SAP's "user
\* account is inactive" also takes the learner out of later reports; any other
\* exception ends the task, and the finally clause of the lock deletes the key,
\* whoever has set it.
Fail(w, answer) ==
    /\ Sending(w) /\ failures < MaxFailures /\ failures' = failures + 1
    /\ LET r == task[w].current
       IN  /\ \/ UNCHANGED lms
              \/ Accept(r)
           /\ history' = [history EXCEPT ![r.on].disturbed = @ \/ lms' # lms,
                ![r.on].repeated = @ \/ /\ lms' # lms /\ r.unit = Course
                                        /\ latest[r.config][r.on][Course] = Report(r)]
           /\ answer = "inactive" => r.unit = Course /\ ChannelOf[r.config] \in FlagsInactive
           /\ permitted' = [permitted EXCEPT ![r.on] = @ /\ answer # "inactive"]
    /\ IF answer = "exception"
       THEN /\ task' = [task EXCEPT ![w] = Idle]
            /\ locks' = Unlocked(w)
       ELSE /\ task' = [task EXCEPT ![w].answer = answer]
            /\ UNCHANGED locks
    /\ UNCHANGED <<configs, mark, done, queue, audits, slipped, changes, crashes>>

\* The columns that learner_data.save() writes, all of them
\* Mutant: an error that was recorded counts as sent.
SavedRowAlwaysSent(r, answer) ==
    [config |-> r.owner, grade |-> r.grade, done |-> r.done, sent |-> answer # "none",
     ok |-> answer = "ok", exported |-> TRUE]

\* A completion is transmitted below status 300, an assessment below 400.
SavedRow(r, answer) ==
    [config |-> r.owner, grade |-> r.grade, done |-> r.done,
     sent |-> answer = "ok" \/ (answer = "redirect" /\ r.unit # Course),
     ok |-> answer = "ok", exported |-> TRUE]

\* An enrollment and course have one row in the tables of these channels.
Collides(r) ==
    /\ r.at = 0 /\ r.unit = Course /\ RecordOf[ChannelOf[r.config]] = "reused"
    /\ Table(r.config, r.on, Course) # <<>>

Save(w) ==
    /\ task[w] # Idle /\ task[w].answer # "none" /\ ~Collides(task[w].current)
    /\ LET r   == task[w].current
           row == SavedRow(r, task[w].answer)
       IN  /\ audits' = [audits EXCEPT ![ChannelOf[r.config]][r.on][r.unit] =
                           IF r.at = 0 THEN Append(@, row) ELSE [@ EXCEPT ![r.at] = row]]
           /\ history' = [history EXCEPT ![r.on].disturbed =
                @ \/ /\ task[w].answer # "ok" /\ r.at # 0
                     /\ Table(r.config, r.on, r.unit)[r.at].sent]
    /\ task' = [task EXCEPT ![w].current = NoRecord, ![w].answer = "none"]
    /\ UNCHANGED <<configs, learner, queue, locks, lms, slipped, counters>>

\* The row was inserted by another task since the record was made: the
\* IntegrityError ends this one, and nothing of the answer is kept.
Collide(w) ==
    /\ task[w] # Idle /\ task[w].answer # "none" /\ Collides(task[w].current)
    /\ task' = [task EXCEPT ![w] = Idle]
    /\ locks' = Unlocked(w)
    /\ history' = [e \in Enrollments |->
         [history[e] EXCEPT !.disturbed =
            @ \/ (task[w].answer = "ok" /\ task[w].current.on = e)]]
    /\ UNCHANGED <<configs, learner, queue, audits, lms, slipped, counters>>

Finish(w) ==
    /\ task[w] # Idle /\ InHand(w) = {} /\ task[w].todo = {}
    /\ task' = [task EXCEPT ![w] = Idle]
    /\ locks' = Unlocked(w)
    /\ UNCHANGED <<configs, learner, queue, audits, lms, history, slipped, counters>>

\* The process is killed: no finally clause runs.
Crash(w) ==
    /\ task[w] # Idle
    /\ crashes < MaxCrashes /\ crashes' = crashes + 1
    /\ task' = [task EXCEPT ![w] = Idle]
    /\ history' = [e \in Enrollments |->
         [history[e] EXCEPT !.disturbed =
            @ \/ (task[w].answer = "ok" /\ task[w].current.on = e)]]
    /\ UNCHANGED <<configs, learner, queue, audits, locks, lms, slipped, changes, failures>>

-----------------------------------------------------------------------------
(* Time, the learner and the administrator                                 *)

\* Twelve hours after a key was set.
Expire(key) ==
    /\ key \in locks /\ locks' = locks \ {key}
    /\ Holders(key) # {} => key \in Overrun \ slipped
    /\ slipped' = IF Holders(key) # {} THEN slipped \union {key} ELSE slipped
    /\ UNCHANGED <<configs, learner, queue, audits, task, lms, history, counters>>

\* The learner works on the course.  A course that is passed and a subsection
\* with a new grade queue a task.
Grade(e, u, g, completed) ==
    /\ changes < MaxChanges /\ changes' = changes + 1
    /\ <<g, completed>> # <<mark[e][u], done[e]>>
    /\ u # Course => completed = done[e]
    /\ mark' = [mark EXCEPT ![e][u] = g]
    /\ done' = [done EXCEPT ![e] = completed]
    /\ queue' = queue \union
         {msg \in [kind : Kinds, on : {e}, unit : {u}, grade : {g}] :
             IF u = Course THEN msg.kind = "completion" /\ completed /\ ~done[e]
             ELSE msg.kind = "assessment" /\ g # mark[e][u]}
    /\ UNCHANGED <<configs, permitted, audits, task, locks, lms, history, slipped, failures,
                   crashes>>

\* Consent is given or withdrawn, the learner leaves or returns.
Permit(e) ==
    /\ changes < MaxChanges /\ changes' = changes + 1
    /\ permitted' = [permitted EXCEPT ![e] = ~@]
    /\ UNCHANGED <<configs, mark, done, queue, audits, task, locks, lms, history, slipped,
                   failures, crashes>>

\* create_cornerstone_learner_data, an update_or_create; the table has one row
\* for a learner and a course, of whichever configuration.
ClickThrough(c, e) ==
    /\ RecordOf[ChannelOf[c]] = "refreshed" /\ Table(c, e, Course) = <<>>
    /\ audits' = [audits EXCEPT ![ChannelOf[c]][e][Course] =
         Append(@, [config |-> c, grade |-> "none", done |-> FALSE, sent |-> FALSE,
                    ok |-> FALSE, exported |-> FALSE])]
    /\ UNCHANGED <<configs, learner, queue, task, locks, lms, history, slipped, counters>>

\* The broker loses what it holds when it restarts.
LoseTask(msg) ==
    /\ msg \in queue /\ queue' = queue \ {msg}
    /\ UNCHANGED <<configs, learner, audits, task, locks, lms, history, slipped, counters>>

-----------------------------------------------------------------------------
\* A customer that turns its configurations on has learners with grades.
Init ==
    /\ configs \in Deployments
    /\ mark \in [Enrollments -> [Units -> Marks \union {"none"}]]
    /\ done \in [Enrollments -> BOOLEAN]
    /\ permitted = [e \in Enrollments |-> TRUE]
    /\ queue = {} /\ locks = {} /\ slipped = {}
    /\ audits = [ch \in Channels |-> [e \in Enrollments |-> [u \in Units |-> <<>>]]]
    /\ task = [w \in Workers |-> Idle]
    /\ received = [c \in Configs |-> [e \in Enrollments |-> [u \in Units |-> {}]]]
    /\ latest = [c \in Configs |-> [e \in Enrollments |-> [u \in Units |-> NoReport]]]
    /\ history = [e \in Enrollments |-> [repeated |-> FALSE, disturbed |-> FALSE]]
    /\ changes = 0 /\ failures = 0 /\ crashes = 0

Work(w) ==
    \/ \E c \in configs, e \in Enrollments : Collect(w, c, e)
    \/ \E r \in InHand(w) : Check(w, r)
    \/ Deliver(w) \/ Save(w) \/ Collide(w) \/ Finish(w)

Disrupt(w) == Crash(w) \/ \E answer \in Answers : Fail(w, answer)

Environment ==
    \/ \E e \in Enrollments, u \in Units, g \in Marks, completed \in BOOLEAN :
         Grade(e, u, g, completed)
    \/ \E e \in Enrollments : Permit(e)
    \/ \E c \in configs, e \in Enrollments : ClickThrough(c, e)
    \/ \E msg \in queue : LoseTask(msg)

Next ==
    \/ \E w \in Workers, job \in Jobs : StartBatch(w, job[1], job[2])
    \/ \E w \in Workers, msg \in queue : StartSingle(w, msg)
    \/ \E w \in Workers : Work(w) \/ Disrupt(w)
    \/ \E key \in Keys : Expire(key)
    \/ Environment

Spec == Init /\ [][Next]_vars

\* The commands that queue the scheduled tasks run again and again, a worker
\* goes on with what it has begun, and a key in the cache expires in the end.
\* Which worker or task comes first is left open.
System ==
    \/ \E w \in Workers : Work(w)
    \/ \E w \in Workers, job \in Jobs : StartBatch(w, job[1], job[2])
    \/ \E key \in Keys : Expire(key)

Fairness == WF_vars(System)

FairSpec == Spec /\ Fairness

-----------------------------------------------------------------------------
(* Properties                                                              *)

\* A row marked as transmitted that the LMS need not have accepted
Redirected(u, row) == u # Course /\ row.sent /\ ~row.ok

(* What a task passes over as already transmitted has been accepted by the *)
(* LMS of that very configuration, unless it is a subsection whose last    *)
(* answer was a redirect.  The tables are written from copies that are as  *)
(* old as the call they record, and for most channels the row is looked up *)
(* without the configuration that is_already_transmitted filters by.       *)
SkippedWasReceived ==
    \A c \in configs, e \in Enrollments, u \in Units, g \in Grades :
        IsAlreadyTransmitted(c, e, u, g) =>
            \/ \E r \in received[c][e][u] : ChannelOf[c] \in DetectGrade => r.grade = g
            \/ \E i \in SentRows(c, e, u) :
                  IsLatestSent(c, e, u, i) /\ Redirected(u, Table(c, e, u)[i])

(* An LMS gets the completion it got last a second time only if an answer  *)
(* was lost, a worker was killed between the call and the save or could    *)
(* not save, two tasks held records of the enrollment at the same time, or *)
(* a report that was refused has been saved over the row of the one that   *)
(* was accepted.                                                           *)
RepeatHasCause ==
    \A e \in Enrollments : history[e].repeated => history[e].disturbed

(* The batch tasks of one lock key exclude each other until a key expires  *)
(* under a running task: `locked' of tasks.py implements the abstract lock *)
(* with a lease that TaskLock describes.                                   *)
Lock == INSTANCE TaskLock WITH inside <- [key \in Keys |-> Holders(key)]
RunsExclude == Lock!Spec

CompletionArrived(c, e) ==
    permitted[e] /\ done[e] /\ CompletionRecords(c, e) # {}
        => \E r \in received[c][e][Course] : r.done

\* The last answer of the LMS to the grade of now was a redirect.
PassedOver(c, e, s) ==
    \E i \in SentRows(c, e, s) :
        /\ IsLatestSent(c, e, s, i) /\ Redirected(s, Table(c, e, s)[i])
        /\ ChannelOf[c] \in DetectGrade => Table(c, e, s)[i].grade = mark[e][s]

AssessmentsArrived(c, e) ==
    permitted[e] => \A s \in Subsections :
        \/ mark[e][s] \in {"none", Zero} \/ PassedOver(c, e, s)
        \/ \E r \in received[c][e][s] : r.grade = mark[e][s]

(* Once grades and consent have stopped changing, every LMS has the        *)
(* completion of every permitted enrollment that is completed, and every   *)
(* LMS that wants them the grades of its subsections, but for a grade of 0 *)
(* and one that was answered by a redirect: no lost task, crash, refused   *)
(* call, collision or row left behind by one keeps them back.              *)
ProgressIsReported ==
    <>[](\A job \in Jobs, e \in Enrollments :
            /\ job[1] = "completion" /\ job[2] \in configs => CompletionArrived(job[2], e)
            /\ job[1] = "assessment" /\ job[2] \in configs => AssessmentsArrived(job[2], e))

(* A channel that detects grade changes retransmits the completion whose   *)
(* grade has changed (integrated_channel/channel_settings.py).             *)
GradeChangeIsReported ==
    <>[](\A job \in Jobs, e \in Enrollments :
            LET c == job[2]
            IN  /\ job[1] = "completion" /\ c \in configs /\ ChannelOf[c] \in DetectGrade
                /\ permitted[e] /\ done[e] /\ CompletionRecords(c, e) # {}
                => \E r \in received[c][e][Course] : r.grade = CourseGrade(c, e))
=============================================================================
