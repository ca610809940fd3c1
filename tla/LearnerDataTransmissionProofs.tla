-------------------- MODULE LearnerDataTransmissionProofs --------------------
(***************************************************************************)
(* Proofs for LearnerDataTransmission: the types, the refinement of the    *)
(* lock of the batch tasks, what the rows marked as sent and the grades    *)
(* skipped as sent say, and why a completion is ever sent again.           *)
(***************************************************************************)
EXTENDS LearnerDataTransmission, SequenceTheorems, TLAPS

AnswerSet == {"none", "ok"} \union Answers
Pairs == Configs \X Enrollments

-----------------------------------------------------------------------------
(* Functions of several arguments, and sequences                           *)

\* Changing a function of two arguments at one place.
LEMMA Update2 ==
    ASSUME NEW A, NEW B, NEW V, NEW f \in [A -> [B -> V]],
           NEW a \in A, NEW b \in B, NEW v \in V
    PROVE  /\ [f EXCEPT ![a][b] = v] \in [A -> [B -> V]]
           /\ \A x \in A, y \in B :
                 [f EXCEPT ![a][b] = v][x][y] = IF x = a /\ y = b THEN v ELSE f[x][y]
  OBVIOUS

\* Changing a function of three arguments at one place.
LEMMA Update3 ==
    ASSUME NEW A, NEW B, NEW C, NEW V, NEW f \in [A -> [B -> [C -> V]]],
           NEW a \in A, NEW b \in B, NEW c \in C, NEW v \in V
    PROVE  /\ [f EXCEPT ![a][b][c] = v] \in [A -> [B -> [C -> V]]]
           /\ \A x \in A, y \in B, z \in C :
                 [f EXCEPT ![a][b][c] = v][x][y][z] =
                     IF x = a /\ y = b /\ z = c THEN v ELSE f[x][y][z]
  OBVIOUS

\* What the changes of a table of rows do to its elements.
LEMMA SeqFacts ==
    ASSUME NEW S, NEW s \in Seq(S), NEW x \in S, NEW i \in Nat
    PROVE  /\ Append(s, x) \in Seq(S)
           /\ DOMAIN Append(s, x) = 1..(Len(s) + 1)
           /\ \A j \in 1..(Len(s) + 1) :
                 Append(s, x)[j] = IF j = Len(s) + 1 THEN x ELSE s[j]
           /\ [s EXCEPT ![i] = x] \in Seq(S)
           /\ DOMAIN [s EXCEPT ![i] = x] = DOMAIN s
           /\ \A j \in DOMAIN s : [s EXCEPT ![i] = x][j] = IF j = i THEN x ELSE s[j]
           /\ DOMAIN s = 1..Len(s) /\ Len(s) \in Nat
           /\ \A j \in DOMAIN s : s[j] \in S
  <1>1. DOMAIN s = 1..Len(s) /\ Len(s) \in Nat /\ \A j \in 1..Len(s) : s[j] \in S
    BY ElementOfSeq, LenProperties
  <1>2. /\ Append(s, x) \in Seq(S)
        /\ DOMAIN Append(s, x) = 1..(Len(s) + 1)
        /\ \A j \in 1..(Len(s) + 1) :
              Append(s, x)[j] = IF j = Len(s) + 1 THEN x ELSE s[j]
    BY <1>1, AppendProperties
  <1>3. [s EXCEPT ![i] = x] \in Seq(S)
    <2>1. CASE i \in 1..Len(s)
      BY <2>1, ExceptSeq
    <2>2. CASE i \notin 1..Len(s)
      <3>1. [s EXCEPT ![i] = x] = s
        BY <1>1, <2>2
      <3>2. QED
        BY <3>1
    <2>3. QED
      BY <2>1, <2>2
  <1>4. QED
    BY <1>1, <1>2, <1>3

-----------------------------------------------------------------------------
(* Tasks and records                                                       *)

\* What a worker with a task has in memory.
LEMMA TaskFacts ==
    ASSUME TypeOK, NEW w \in Workers, task[w] # Idle
    PROVE  /\ task[w] \in Tasks
           /\ task[w].kind \in Kinds /\ task[w].message \in Messages \union {NoMessage}
           /\ task[w].config \in Configs /\ task[w].todo \in SUBSET Pairs
           /\ task[w].records \in SUBSET Records
           /\ task[w].current \in Records \union {NoRecord}
           /\ task[w].answer \in AnswerSet
  <1>1. task[w] \in Tasks
    BY DEF TypeOK
  <1>2. QED
    BY <1>1 DEF Tasks, Pairs, AnswerSet

\* A task of the same run: only its progress changes.
SameRun(t, u) ==
    u \in Tasks /\ u.kind = t.kind /\ u.message = t.message /\ u.config = t.config

GoesOn(w, t) ==
    /\ task[w] # Idle
    /\ task' = [task EXCEPT ![w] = t]
    /\ SameRun(task[w], t)

\* The ways in which a task progresses.
LEMMA Collecting ==
    ASSUME NEW t \in Tasks, NEW todo \in SUBSET Pairs, NEW records \in SUBSET Records
    PROVE  SameRun(t, [t EXCEPT !.todo = todo, !.records = records])
  BY DEF Tasks, SameRun, Pairs

LEMMA Checking ==
    ASSUME NEW t \in Tasks, NEW records \in SUBSET Records,
           NEW current \in Records \union {NoRecord}
    PROVE  SameRun(t, [t EXCEPT !.records = records, !.current = current])
  BY DEF Tasks, SameRun

LEMMA Answering ==
    ASSUME NEW t \in Tasks, NEW answer \in AnswerSet
    PROVE  SameRun(t, [t EXCEPT !.answer = answer])
  BY DEF Tasks, SameRun, AnswerSet

LEMMA Saving ==
    ASSUME NEW t \in Tasks
    PROVE  SameRun(t, [t EXCEPT !.current = NoRecord, !.answer = "none"])
  BY DEF Tasks, SameRun

\* The types of the parts of a record.
LEMMA RecordFacts ==
    ASSUME NEW r \in Records
    PROVE  /\ r.config \in Configs /\ r.on \in Enrollments /\ r.unit \in Units /\ r.at \in Nat
           /\ r.grade \in Grades /\ r.done \in BOOLEAN /\ r.owner \in Configs
           /\ ChannelOf[r.config] \in Channels
  BY ConfigAssumption DEF Records

\* What is reported, and what is saved, has its type.
LEMMA ReportType == \A r \in Records : Report(r) \in Reports
  BY RecordFacts DEF Report, Reports

LEMMA SavedRowType ==
    ASSUME NEW r \in Records, NEW answer
    PROVE  SavedRow(r, answer) \in Rows
  <1>1. /\ (answer = "ok") \in BOOLEAN
        /\ (answer = "ok" \/ (answer = "redirect" /\ r.unit # Course)) \in BOOLEAN
    OBVIOUS
  <1>2. QED
    BY <1>1, RecordFacts DEF SavedRow, Rows

\* The grade of a course that a channel reports.
LEMMA CourseGradeType ==
    ASSUME TypeOK, NEW c \in Configs, NEW e \in Enrollments
    PROVE  CourseGrade(c, e) \in Grades
  <1>1. mark[e][Course] \in Marks \union {"none"} /\ done[e] \in BOOLEAN
    BY DEF TypeOK, Units
  <1>2. QED
    BY <1>1 DEF CourseGrade, Grades

\* The rows of a table.
LEMMA TableType ==
    ASSUME TypeOK, NEW c \in Configs, NEW e \in Enrollments, NEW u \in Units
    PROVE  /\ Table(c, e, u) \in Seq(Rows)
           /\ \A i \in DOMAIN Table(c, e, u) : i \in Nat /\ Table(c, e, u)[i] \in Rows
  <1>1. Table(c, e, u) \in Seq(Rows)
    BY ConfigAssumption DEF TypeOK, Table
  <1>2. QED
    BY <1>1

\* A record that is made or read has its type; it goes with its configuration,
\* and with that of the row except where a channel takes what row there is.
Fits(r, c, e) ==
    /\ r \in Records /\ r.config = c /\ r.on = e
    /\ r.owner = c \/ RecordOf[ChannelOf[c]] = "reused"

LEMMA NewRecordFits ==
    ASSUME NEW c \in Configs, NEW e \in Enrollments, NEW u \in Units, NEW g \in Grades,
           NEW d \in BOOLEAN
    PROVE  Fits(NewRecord(c, e, u, g, d), c, e)
  BY DEF NewRecord, Records, Fits

LEMMA StoredRecordType ==
    ASSUME TypeOK, NEW c \in Configs, NEW e \in Enrollments,
           NEW i \in DOMAIN Table(c, e, Course)
    PROVE  /\ StoredRecord(c, e, i) \in Records
           /\ StoredRecord(c, e, i).config = c /\ StoredRecord(c, e, i).on = e
           /\ StoredRecord(c, e, i).owner = Table(c, e, Course)[i].config
  <1>1. i \in Nat /\ Table(c, e, Course)[i] \in Rows
    BY TableType DEF Units
  <1>2. QED
    BY <1>1 DEF StoredRecord, Records, Rows, Units

\* The records of completions and of assessments fit.
LEMMA CompletionsFit ==
    ASSUME TypeOK, NEW c \in Configs, NEW e \in Enrollments, NEW r \in CompletionRecords(c, e)
    PROVE  Fits(r, c, e)
  <1>1. /\ CourseGrade(c, e) \in Grades /\ done[e] \in BOOLEAN /\ Course \in Units
        /\ RecordOf[ChannelOf[c]] \in {"reused", "refreshed", "fresh"}
    BY CourseGradeType, ConfigAssumption DEF TypeOK, Units
  <1>2. CASE r = NewRecord(c, e, Course, CourseGrade(c, e), done[e])
    BY <1>1, <1>2, NewRecordFits
  <1>3. CASE RecordOf[ChannelOf[c]] = "reused"
    <2>1. CASE Table(c, e, Course) = <<>>
      BY <1>2, <1>3, <2>1 DEF CompletionRecords, ReusedRecord
    <2>2. CASE Table(c, e, Course) # <<>>
      <3>1. 1 \in DOMAIN Table(c, e, Course)
        BY <1>1, <2>2, TableType
      <3>2. r = StoredRecord(c, e, 1)
        BY <1>3, <2>2 DEF CompletionRecords, ReusedRecord
      <3>3. QED
        BY <1>3, <3>1, <3>2, StoredRecordType DEF Fits
    <2>3. QED
      BY <2>1, <2>2
  <1>4. CASE RecordOf[ChannelOf[c]] = "refreshed"
    <2>1. PICK i \in DOMAIN Table(c, e, Course) :
             /\ Table(c, e, Course)[i].config = c
             /\ r = [StoredRecord(c, e, i) EXCEPT !.grade = CourseGrade(c, e), !.done = done[e]]
      BY <1>4 DEF CompletionRecords, RefreshedRecord
    <2> DEFINE s == StoredRecord(c, e, i)
    <2>2. /\ s \in Records /\ s.config = c /\ s.on = e /\ s.owner = c
          /\ r = [s EXCEPT !.grade = CourseGrade(c, e), !.done = done[e]]
      BY <2>1, StoredRecordType
    <2> HIDE DEF s
    <2>3. r \in Records
      BY <1>1, <2>2 DEF Records
    <2>4. r.config = c /\ r.on = e /\ r.owner = c
      BY <2>2 DEF Records
    <2>5. QED
      BY <2>3, <2>4 DEF Fits
  <1>5. CASE RecordOf[ChannelOf[c]] = "fresh"
    BY <1>2, <1>5 DEF CompletionRecords, FreshRecord
  <1>6. QED
    BY <1>1, <1>3, <1>4, <1>5

LEMMA AssessmentsFit ==
    ASSUME TypeOK, NEW c \in Configs, NEW e \in Enrollments, NEW r \in AssessmentRecords(c, e)
    PROVE  Fits(r, c, e)
  <1>1. PICK s \in Subsections : r = NewRecord(c, e, s, mark[e][s], FALSE)
    BY DEF AssessmentRecords
  <1>2. s \in Units
    BY DEF Units
  <1>3. mark[e][s] \in Marks \union {"none"}
    BY <1>2 DEF TypeOK
  <1>4. mark[e][s] \in Grades
    BY <1>3 DEF Grades
  <1>5. QED
    BY <1>1, <1>2, <1>4, NewRecordFits

LEMMA ExportFits ==
    ASSUME TypeOK, NEW t, NEW c \in Configs, NEW e \in Enrollments, NEW r \in Export(t, c, e)
    PROVE  Fits(r, c, e)
  <1>1. r \in CompletionRecords(c, e) \/ r \in AssessmentRecords(c, e)
    BY DEF Export
  <1>2. QED
    BY <1>1, CompletionsFit, AssessmentsFit

-----------------------------------------------------------------------------
(* Types                                                                   *)

\* The variables that a task of a worker does not write.
LEMMA TypeInit == Init => TypeOK
  <1> SUFFICES ASSUME Init
               PROVE  TypeOK
    OBVIOUS
  <1>1. audits \in [Channels -> [Enrollments -> [Units -> Seq(Rows)]]]
    BY DEF Init
  <1>2. /\ changes \in 0..MaxChanges /\ failures \in 0..MaxFailures
        /\ crashes \in 0..MaxCrashes
    BY BoundAssumption DEF Init
  <1>3. QED
    BY <1>1, <1>2 DEF Init, TypeOK

\* A new task of a worker has its type.
LEMMA NewTaskType ==
    ASSUME NEW kind \in Kinds, NEW message \in Messages \union {NoMessage}, NEW c \in Configs,
           NEW todo \in SUBSET Pairs
    PROVE  /\ NewTask(kind, message, c, todo) \in Tasks
           /\ NewTask(kind, message, c, todo).kind = kind
           /\ NewTask(kind, message, c, todo).config = c
           /\ NewTask(kind, message, c, todo).message = message
           /\ NewTask(kind, message, c, todo).records = {}
           /\ NewTask(kind, message, c, todo).current = NoRecord
           /\ NewTask(kind, message, c, todo).answer = "none"
  BY DEF NewTask, Tasks, Pairs

\* The tasks in the memory of the workers have their type after each step of a
\* worker.
LEMMA StartBatchTask ==
    ASSUME TypeOK, NEW w \in Workers, NEW job \in Jobs, StartBatch(w, job[1], job[2])
    PROVE  \E t \in Tasks :
              /\ task[w] = Idle /\ task' = [task EXCEPT ![w] = t]
              /\ t.message = NoMessage /\ t.kind = job[1] /\ t.config = job[2]
              /\ t.records = {} /\ t.current = NoRecord /\ t.answer = "none"
              /\ LockKey(t.kind, t.config) \in Keys
              /\ LockKey(t.kind, t.config) \notin locks
              /\ locks' = locks \union {LockKey(t.kind, t.config)}
  <1>1. job[1] \in Kinds /\ job[2] \in Configs
    BY ConfigAssumption DEF Kinds
  <1>2. {job[2]} \X Selected(job[1], job[2]) \in SUBSET Pairs
    BY <1>1 DEF Pairs, Selected
  <1> DEFINE t == NewTask(job[1], NoMessage, job[2], {job[2]} \X Selected(job[1], job[2]))
  <1>3. /\ t \in Tasks /\ t.message = NoMessage /\ t.kind = job[1] /\ t.config = job[2]
        /\ t.records = {} /\ t.current = NoRecord /\ t.answer = "none"
    BY <1>1, <1>2, NewTaskType
  <1>4. task[w] = Idle /\ task' = [task EXCEPT ![w] = t]
    BY DEF StartBatch
  <1> HIDE DEF t
  <1>5. /\ LockKey(t.kind, t.config) \notin locks
        /\ locks' = locks \union {LockKey(t.kind, t.config)}
        /\ LockKey(t.kind, t.config) \in Keys
    BY <1>1, <1>3 DEF StartBatch, LockKey, Keys
  <1>6. QED
    BY <1>3, <1>4, <1>5

LEMMA StartSingleTask ==
    ASSUME TypeOK, NEW w \in Workers, NEW msg \in queue, StartSingle(w, msg)
    PROVE  \E t \in Tasks :
              /\ task[w] = Idle /\ task' = [task EXCEPT ![w] = t]
              /\ t.message \in Messages
              /\ t.records = {} /\ t.current = NoRecord /\ t.answer = "none"
  <1>1. PICK c \in configs :
           task' = [task EXCEPT ![w] = NewTask(msg.kind, msg, c,
                    {d \in configs : msg.kind = "assessment" => d \in Assessed} \X {msg.on})]
    BY DEF StartSingle
  <1>2. msg \in Messages /\ msg.kind \in Kinds /\ msg.on \in Enrollments
    BY DEF TypeOK, Messages
  <1>3. configs \subseteq Configs
    BY ConfigAssumption DEF TypeOK
  <1> DEFINE todo == {d \in configs : msg.kind = "assessment" => d \in Assessed} \X {msg.on}
  <1>4. todo \in SUBSET Pairs
    BY <1>2, <1>3 DEF Pairs
  <1> HIDE DEF todo
  <1> DEFINE t == NewTask(msg.kind, msg, c, todo)
  <1>5. /\ t \in Tasks /\ t.message \in Messages
        /\ t.records = {} /\ t.current = NoRecord /\ t.answer = "none"
    BY <1>2, <1>3, <1>4, NewTaskType
  <1>6. task' = [task EXCEPT ![w] = t]
    BY <1>1 DEF todo
  <1> HIDE DEF t
  <1>7. QED
    BY <1>5, <1>6 DEF StartSingle

\* The records of one enrollment are collected, of which none was in hand.
LEMMA CollectTask ==
    ASSUME TypeOK, NEW w \in Workers, NEW c \in configs, NEW e \in Enrollments, Collect(w, c, e)
    PROVE  \E t \in Tasks :
              /\ GoesOn(w, t)
              /\ t.records = Export(task[w], c, e) /\ t.current = task[w].current
              /\ t.answer = task[w].answer
  <1>1. c \in Configs
    BY ConfigAssumption DEF TypeOK
  <1>2. Export(task[w], c, e) \in SUBSET Records
    BY <1>1, ExportFits DEF Fits
  <1>3. task[w] # Idle /\ task[w] \in Tasks /\ task[w].todo \in SUBSET Pairs
    BY TaskFacts DEF Collect
  <1> DEFINE todo == task[w].todo \ {<<c, e>>}
             records == Export(task[w], c, e)
             t == [task[w] EXCEPT !.todo = todo, !.records = records]
  <1>4. task' = [task EXCEPT ![w] = t]
    BY DEF Collect, TypeOK
  <1>5. todo \in SUBSET Pairs
    BY <1>3
  <1> HIDE DEF todo
  <1>6. SameRun(task[w], t)
    BY <1>2, <1>3, <1>5, Collecting
  <1>7. /\ t.records = Export(task[w], c, e) /\ t.current = task[w].current
        /\ t.answer = task[w].answer
    BY <1>3 DEF Tasks
  <1> HIDE DEF t
  <1>8. QED
    BY <1>3, <1>4, <1>6, <1>7 DEF GoesOn, SameRun

\* A record is taken up, or passed over.
LEMMA CheckTask ==
    ASSUME TypeOK, NEW w \in Workers, NEW r \in InHand(w), Check(w, r)
    PROVE  \E t \in Tasks :
              /\ GoesOn(w, t)
              /\ r \in task[w].records /\ task[w].current = NoRecord
              /\ t.records = task[w].records \ {r}
              /\ t.current = NoRecord \/ (t.current = r /\ ToSend(task[w], r))
              /\ t.answer = task[w].answer
  <1>1. /\ task[w] # Idle /\ task[w] \in Tasks /\ task[w].records \in SUBSET Records
        /\ r \in task[w].records /\ task[w].current = NoRecord
    BY TaskFacts DEF Check
  <1> DEFINE records == task[w].records \ {r}
             current == IF ToSend(task[w], r) THEN r ELSE NoRecord
             t == [task[w] EXCEPT !.records = records, !.current = current]
  <1>2. task' = [task EXCEPT ![w] = t]
    BY DEF Check, TypeOK
  <1>3. /\ records \in SUBSET Records /\ current \in Records \union {NoRecord}
        /\ current = NoRecord \/ (current = r /\ ToSend(task[w], r))
    BY <1>1
  <1> HIDE DEF current
  <1>4. SameRun(task[w], t)
    BY <1>1, <1>3, Checking
  <1>5. t.records = records /\ t.current = current /\ t.answer = task[w].answer
    BY <1>1 DEF Tasks
  <1> HIDE DEF t
  <1>6. QED
    BY <1>1, <1>2, <1>3, <1>4, <1>5 DEF GoesOn, SameRun

\* The call of the LMS returns.
LEMMA AnswerTask ==
    ASSUME TypeOK, NEW w \in Workers, NEW answer \in AnswerSet, task[w] # Idle,
           task' = [task EXCEPT ![w].answer = answer]
    PROVE  \E t \in Tasks :
              /\ GoesOn(w, t)
              /\ t.records = task[w].records /\ t.current = task[w].current
              /\ t.answer = answer
  <1>1. task[w] \in Tasks
    BY TaskFacts
  <1> DEFINE t == [task[w] EXCEPT !.answer = answer]
  <1>2. task' = [task EXCEPT ![w] = t]
    BY DEF TypeOK
  <1>3. SameRun(task[w], t)
    BY <1>1, Answering
  <1>4. t.records = task[w].records /\ t.current = task[w].current /\ t.answer = answer
    BY <1>1 DEF Tasks
  <1> HIDE DEF t
  <1>5. QED
    BY <1>2, <1>3, <1>4 DEF GoesOn, SameRun

\* The row is saved, and the record is done with.
LEMMA SaveTask ==
    ASSUME TypeOK, NEW w \in Workers, Save(w)
    PROVE  \E t \in Tasks :
              /\ GoesOn(w, t)
              /\ t.records = task[w].records /\ t.current = NoRecord /\ t.answer = "none"
  <1>1. task[w] # Idle /\ task[w] \in Tasks
    BY TaskFacts, Zenon DEF Save
  <1> DEFINE t == [task[w] EXCEPT !.current = NoRecord, !.answer = "none"]
  <1>2. task' = [task EXCEPT ![w] = t]
    BY Zenon DEF Save, TypeOK
  <1>3. SameRun(task[w], t)
    BY <1>1, Saving
  <1>4. t.records = task[w].records /\ t.current = NoRecord /\ t.answer = "none"
    BY <1>1 DEF Tasks
  <1> HIDE DEF t
  <1>5. QED
    BY <1>1, <1>2, <1>3, <1>4 DEF GoesOn, SameRun

\* A task in memory keeps the type.
LEMMA TaskType ==
    ASSUME TypeOK, NEW w \in Workers, NEW t \in Tasks \union {Idle},
           task' = [task EXCEPT ![w] = t]
    PROVE  task' \in [Workers -> Tasks \union {Idle}]
  BY DEF TypeOK

\* The grades and reports of a unit keep their types when one of them changes.
LEMMA AcceptType ==
    ASSUME TypeOK, NEW r \in Records, Accept(r)
    PROVE  /\ received' \in [Configs -> [Enrollments -> [Units -> SUBSET Reports]]]
           /\ latest' \in [Configs -> [Enrollments -> [Units -> Reports \union {NoReport}]]]
           /\ \A c \in Configs, e \in Enrollments, u \in Units :
                 /\ received[c][e][u] \subseteq received'[c][e][u]
                 /\ c = r.config /\ e = r.on /\ u = r.unit => Report(r) \in received'[c][e][u]
  <1> DEFINE f == received
             got == f[r.config][r.on][r.unit] \union {Report(r)}
  <1>1. /\ r.config \in Configs /\ r.on \in Enrollments /\ r.unit \in Units
        /\ Report(r) \in Reports
    BY RecordFacts, ReportType
  <1>2. f \in [Configs -> [Enrollments -> [Units -> SUBSET Reports]]]
    BY DEF TypeOK
  <1>3. got \in SUBSET Reports
    BY <1>1, <1>2
  <1>4. received' = [f EXCEPT ![r.config][r.on][r.unit] = got]
    BY DEF Accept
  <1>5. latest' \in [Configs -> [Enrollments -> [Units -> Reports \union {NoReport}]]]
    <2>1. latest' = [latest EXCEPT ![r.config][r.on][r.unit] = Report(r)]
      BY DEF Accept
    <2>2. Report(r) \in Reports \union {NoReport}
      BY <1>1
    <2>3. latest \in [Configs -> [Enrollments -> [Units -> Reports \union {NoReport}]]]
      BY DEF TypeOK
    <2> HIDE DEF got, f
    <2>4. QED
      BY <1>1, <2>1, <2>2, <2>3, Update3
  <1>6. received' \in [Configs -> [Enrollments -> [Units -> SUBSET Reports]]]
    <2> HIDE DEF got, f
    <2>1. QED
      BY <1>1, <1>2, <1>3, <1>4, Update3
  <1>7. \A c \in Configs, e \in Enrollments, u \in Units :
           received'[c][e][u] = IF c = r.config /\ e = r.on /\ u = r.unit THEN got
                                ELSE f[c][e][u]
    <2> HIDE DEF got, f
    <2>1. QED
      BY <1>1, <1>2, <1>3, <1>4, Update3
  <1>8. QED
    BY <1>5, <1>6, <1>7

\* One flag of the history of an enrollment changes.
LEMMA HistoryType ==
    ASSUME TypeOK, NEW e \in Enrollments, NEW b \in BOOLEAN, NEW d \in BOOLEAN
    PROVE  /\ [history EXCEPT ![e].repeated = b]
                \in [Enrollments -> [repeated : BOOLEAN, disturbed : BOOLEAN]]
           /\ [history EXCEPT ![e].disturbed = d]
                \in [Enrollments -> [repeated : BOOLEAN, disturbed : BOOLEAN]]
           /\ [history EXCEPT ![e].disturbed = d, ![e].repeated = b]
                \in [Enrollments -> [repeated : BOOLEAN, disturbed : BOOLEAN]]
  <1> DEFINE H == [repeated : BOOLEAN, disturbed : BOOLEAN]
  <1>1. history \in [Enrollments -> H]
    BY DEF TypeOK
  <1>2. \A h \in H : /\ [h EXCEPT !.repeated = b] \in H /\ [h EXCEPT !.disturbed = d] \in H
                     /\ [[h EXCEPT !.disturbed = d] EXCEPT !.repeated = b] \in H
    OBVIOUS
  <1>3. history[e] \in H
    BY <1>1
  <1>4. /\ [history EXCEPT ![e].repeated = b]
              = [history EXCEPT ![e] = [history[e] EXCEPT !.repeated = b]]
        /\ [history EXCEPT ![e].disturbed = d]
              = [history EXCEPT ![e] = [history[e] EXCEPT !.disturbed = d]]
        /\ [history EXCEPT ![e].disturbed = d, ![e].repeated = b]
              = [history EXCEPT ![e] =
                   [[history[e] EXCEPT !.disturbed = d] EXCEPT !.repeated = b]]
    BY <1>1
  <1> HIDE DEF H
  <1>5. QED
    BY <1>1, <1>2, <1>3, <1>4 DEF H

\* An answer is that to a record in hand.
AnswersFit ==
    \A w \in Workers :
        task[w] # Idle /\ task[w].answer # "none" => task[w].current # NoRecord

\* A table in which one row has changed.
LEMMA TableUpdate ==
    ASSUME NEW f \in [Channels -> [Enrollments -> [Units -> Seq(Rows)]]],
           NEW a \in Channels, NEW d \in Enrollments, NEW v \in Units,
           NEW new \in Seq(Rows), NEW row,
           \A j \in DOMAIN new :
               (j \in DOMAIN f[a][d][v] /\ new[j] = f[a][d][v][j]) \/ new[j] = row,
           NEW g, g = [f EXCEPT ![a][d][v] = new]
    PROVE  /\ g \in [Channels -> [Enrollments -> [Units -> Seq(Rows)]]]
           /\ \A ch \in Channels, e \in Enrollments, u \in Units :
                 \A j \in DOMAIN g[ch][e][u] :
                    \/ j \in DOMAIN f[ch][e][u] /\ g[ch][e][u][j] = f[ch][e][u][j]
                    \/ ch = a /\ e = d /\ u = v /\ g[ch][e][u][j] = row
  <1>1. g \in [Channels -> [Enrollments -> [Units -> Seq(Rows)]]]
    OBVIOUS
  <1>2. \A ch \in Channels, e \in Enrollments, u \in Units :
           g[ch][e][u] = IF ch = a /\ e = d /\ u = v THEN new ELSE f[ch][e][u]
    OBVIOUS
  <1>3. QED
    BY <1>1, <1>2

\* Saving a row keeps the other rows of the tables.
LEMMA SaveTable ==
    ASSUME TypeOK, AnswersFit, NEW w \in Workers, Save(w)
    PROVE  /\ task[w].current \in Records
           /\ audits' \in [Channels -> [Enrollments -> [Units -> Seq(Rows)]]]
           /\ \A ch \in Channels, e \in Enrollments, u \in Units :
                 \A j \in DOMAIN audits'[ch][e][u] :
                    \/ /\ j \in DOMAIN audits[ch][e][u]
                       /\ audits'[ch][e][u][j] = audits[ch][e][u][j]
                    \/ /\ ch = ChannelOf[task[w].current.config]
                       /\ e = task[w].current.on /\ u = task[w].current.unit
                       /\ audits'[ch][e][u][j] = SavedRow(task[w].current, task[w].answer)
  <1> DEFINE r == task[w].current
             row == SavedRow(r, task[w].answer)
             a == ChannelOf[r.config]
             table == audits[a][r.on][r.unit]
             new == IF r.at = 0 THEN Append(table, row) ELSE [table EXCEPT ![r.at] = row]
  <1>1. r \in Records
    BY TaskFacts, Zenon DEF Save, AnswersFit
  <1>2. /\ a \in Channels /\ r.on \in Enrollments /\ r.unit \in Units /\ r.at \in Nat
        /\ row \in Rows
    BY <1>1, RecordFacts, SavedRowType
  <1>3. audits' = [audits EXCEPT ![a][r.on][r.unit] = new]
    BY Zenon DEF Save
  <1>4. audits \in [Channels -> [Enrollments -> [Units -> Seq(Rows)]]]
    BY DEF TypeOK
  <1>5. table \in Seq(Rows)
    BY <1>2, <1>4
  <1> HIDE DEF row, table, a
  <1>6. /\ new \in Seq(Rows)
        /\ \A j \in DOMAIN new :
              (j \in DOMAIN table /\ new[j] = table[j]) \/ new[j] = row
    <2>1. CASE r.at = 0
      <3>1. new = Append(table, row)
        BY <2>1
      <3> HIDE DEF new
      <3>2. QED
        BY <1>2, <1>5, <3>1, SeqFacts
    <2>2. CASE r.at # 0
      <3>1. new = [table EXCEPT ![r.at] = row]
        BY <2>2
      <3> HIDE DEF new
      <3>2. QED
        BY <1>2, <1>5, <3>1, SeqFacts
    <2>3. QED
      BY <2>1, <2>2
  <1> HIDE DEF new, r
  <1>7. \A j \in DOMAIN new :
           (j \in DOMAIN audits[a][r.on][r.unit] /\ new[j] = audits[a][r.on][r.unit][j])
               \/ new[j] = row
    BY <1>6 DEF table
  <1>8. /\ audits' \in [Channels -> [Enrollments -> [Units -> Seq(Rows)]]]
        /\ \A ch \in Channels, e \in Enrollments, u \in Units :
              \A j \in DOMAIN audits'[ch][e][u] :
                 \/ j \in DOMAIN audits[ch][e][u] /\ audits'[ch][e][u][j] = audits[ch][e][u][j]
                 \/ ch = a /\ e = r.on /\ u = r.unit /\ audits'[ch][e][u][j] = row
    BY <1>2, <1>3, <1>4, <1>6, <1>7, TableUpdate
  <1>9. QED
    BY <1>1, <1>8 DEF a, row, r

\* The click on a course adds a row that has not been sent.
LEMMA ClickTable ==
    ASSUME TypeOK, NEW c \in configs, NEW e \in Enrollments, ClickThrough(c, e)
    PROVE  /\ audits' \in [Channels -> [Enrollments -> [Units -> Seq(Rows)]]]
           /\ \A ch \in Channels, d \in Enrollments, u \in Units :
                 \A j \in DOMAIN audits'[ch][d][u] :
                    \/ /\ j \in DOMAIN audits[ch][d][u]
                       /\ audits'[ch][d][u][j] = audits[ch][d][u][j]
                    \/ ~audits'[ch][d][u][j].sent
  <1> DEFINE row == [config |-> c, grade |-> "none", done |-> FALSE, sent |-> FALSE,
                     ok |-> FALSE, exported |-> FALSE]
             a == ChannelOf[c]
             table == audits[a][e][Course]
             new == Append(table, row)
  <1>1. c \in Configs /\ a \in Channels /\ Course \in Units
    BY ConfigAssumption DEF TypeOK, Units
  <1>2. row \in Rows /\ ~row.sent
    BY <1>1 DEF Rows, Grades
  <1>3. audits' = [audits EXCEPT ![a][e][Course] = new]
    BY DEF ClickThrough
  <1>4. audits \in [Channels -> [Enrollments -> [Units -> Seq(Rows)]]]
    BY DEF TypeOK
  <1>5. table \in Seq(Rows)
    BY <1>1, <1>4
  <1> HIDE DEF row, table, a
  <1>6. /\ new \in Seq(Rows)
        /\ \A j \in DOMAIN new :
              (j \in DOMAIN table /\ new[j] = table[j]) \/ new[j] = row
    BY <1>2, <1>5, SeqFacts
  <1> HIDE DEF new
  <1>7. \A j \in DOMAIN new :
           (j \in DOMAIN audits[a][e][Course] /\ new[j] = audits[a][e][Course][j]) \/ new[j] = row
    BY <1>6 DEF table
  <1>8. /\ audits' \in [Channels -> [Enrollments -> [Units -> Seq(Rows)]]]
        /\ \A ch \in Channels, d \in Enrollments, u \in Units :
              \A j \in DOMAIN audits'[ch][d][u] :
                 \/ j \in DOMAIN audits[ch][d][u] /\ audits'[ch][d][u][j] = audits[ch][d][u][j]
                 \/ audits'[ch][d][u][j] = row
    BY <1>1, <1>3, <1>4, <1>6, <1>7, TableUpdate
  <1>9. QED
    BY <1>2, <1>8

-----------------------------------------------------------------------------
(* The kinds of step, as far as the tasks and their locks are concerned    *)

\* A task for all enrollments begins, with its lock.
BatchStep ==
    \E w \in Workers, t \in Tasks :
        /\ task[w] = Idle /\ task' = [task EXCEPT ![w] = t]
        /\ t.message = NoMessage
        /\ t.records = {} /\ t.current = NoRecord /\ t.answer = "none"
        /\ LockKey(t.kind, t.config) \in Keys
        /\ LockKey(t.kind, t.config) \notin locks
        /\ locks' = locks \union {LockKey(t.kind, t.config)}
        /\ UNCHANGED slipped

\* A task for one learner begins, without a lock.
SingleStep ==
    \E w \in Workers, t \in Tasks :
        /\ task[w] = Idle /\ task' = [task EXCEPT ![w] = t]
        /\ t.message \in Messages
        /\ t.records = {} /\ t.current = NoRecord /\ t.answer = "none"
        /\ UNCHANGED <<locks, slipped>>

\* The records that a task has in hand.
Hand(t) == t.records \union ({t.current} \ {NoRecord})

\* A task goes on: with records it had, or that it has just made; "ok" is the
\* answer of an LMS that has accepted the report.
GoOnStep ==
    \E w \in Workers, t \in Tasks :
        /\ GoesOn(w, t)
        /\ t.answer # "none" => t.current # NoRecord
        /\ \A r \in Hand(t) :
              r \in Hand(task[w])
                  \/ \E c \in configs, e \in Enrollments : r \in Export(task[w], c, e)
        /\ t.answer = "ok" =>
              /\ t.current = task[w].current
              /\ \/ task[w].answer = "ok"
                 \/ Report(t.current)
                        \in received'[t.current.config][t.current.on][t.current.unit]
        /\ UNCHANGED <<locks, slipped>>

\* A task ends, with its finally clause or without.
EndStep ==
    \E w \in Workers :
        /\ task[w] # Idle /\ task' = [task EXCEPT ![w] = Idle]
        /\ locks' = Unlocked(w) \/ UNCHANGED locks
        /\ UNCHANGED slipped

ExpireStep ==
    \E k \in Keys :
        /\ task' = task
        /\ locks' = locks \ {k}
        /\ slipped' = IF Holders(k) # {} THEN slipped \union {k} ELSE slipped

QuietStep == UNCHANGED <<task, locks, slipped>>

\* A record that is taken up has not been sent, and one that is saved is gone.
LEMMA WorkSteps ==
    ASSUME TypeOK, AnswersFit, NEW w \in Workers, Work(w) \/ Disrupt(w)
    PROVE  GoOnStep \/ EndStep
  <1>1. ASSUME NEW c \in configs, NEW e \in Enrollments, Collect(w, c, e)
        PROVE  GoOnStep
    <2>1. PICK t \in Tasks :
             /\ GoesOn(w, t)
             /\ t.records = Export(task[w], c, e) /\ t.current = task[w].current
             /\ t.answer = task[w].answer
      BY <1>1, CollectTask
    <2>2. UNCHANGED <<locks, slipped>>
      BY <1>1 DEF Collect
    <2>3. t.answer # "none" => t.current # NoRecord
      BY <2>1 DEF AnswersFit, GoesOn
    <2>4. QED
      BY <2>1, <2>2, <2>3 DEF GoOnStep, Hand
  <1>2. ASSUME NEW r \in InHand(w), Check(w, r)
        PROVE  GoOnStep
    <2>1. task[w] # Idle /\ task[w].current = NoRecord /\ task[w].answer = "none"
      BY <1>2 DEF Check, AnswersFit
    <2>2. PICK t \in Tasks :
             /\ GoesOn(w, t)
             /\ t.records \subseteq task[w].records
             /\ t.current = NoRecord \/ t.current \in task[w].records
             /\ t.answer = task[w].answer
      BY <1>2, CheckTask
    <2>3. UNCHANGED <<locks, slipped>>
      BY <1>2 DEF Check
    <2>4. QED
      BY <2>1, <2>2, <2>3 DEF GoOnStep, Hand
  <1>3. CASE Deliver(w)
    <2>1. /\ task[w] # Idle /\ task[w].current # NoRecord /\ "ok" \in AnswerSet
          /\ task' = [task EXCEPT ![w].answer = "ok"]
      BY <1>3 DEF Deliver, Sending, AnswerSet
    <2>2. PICK t \in Tasks :
             /\ GoesOn(w, t)
             /\ t.records = task[w].records /\ t.current = task[w].current
             /\ t.answer = "ok"
      BY <2>1, AnswerTask
    <2>3. t.current \in Records /\ Accept(t.current)
      BY <1>3, <2>1, <2>2, TaskFacts DEF Deliver
    <2>4. Report(t.current) \in received'[t.current.config][t.current.on][t.current.unit]
      BY <2>3, AcceptType, RecordFacts
    <2>5. UNCHANGED <<locks, slipped>>
      BY <1>3 DEF Deliver
    <2>6. QED
      BY <2>1, <2>2, <2>4, <2>5, Zenon DEF GoOnStep, Hand
  <1>4. CASE Save(w)
    BY <1>4, SaveTask, Zenon DEF Save, GoOnStep, Hand
  <1>5. CASE Finish(w)
    BY <1>5 DEF Finish, EndStep
  <1>6. CASE Crash(w) \/ Collide(w)
    BY <1>6 DEF Crash, Collide, EndStep
  <1>7. ASSUME NEW answer \in Answers, Fail(w, answer)
        PROVE  GoOnStep \/ EndStep
    <2>1. /\ task[w] # Idle /\ task[w].current # NoRecord
          /\ answer \in AnswerSet /\ answer # "ok"
      BY <1>7, NameAssumption DEF Fail, Sending, AnswerSet
    <2>2. CASE answer = "exception"
      BY <1>7, <2>1, <2>2 DEF Fail, EndStep
    <2>3. CASE answer # "exception"
      <3>1. task' = [task EXCEPT ![w].answer = answer] /\ UNCHANGED <<locks, slipped>>
        BY <1>7, <2>3 DEF Fail
      <3>2. PICK t \in Tasks :
               /\ GoesOn(w, t)
               /\ t.records = task[w].records /\ t.current = task[w].current
               /\ t.answer = answer
        BY <2>1, <3>1, AnswerTask
      <3>3. Hand(t) \subseteq Hand(task[w])
        BY <3>2 DEF Hand
      <3>4. QED
        BY <2>1, <3>1, <3>2, <3>3 DEF GoOnStep
    <2>4. QED
      BY <2>2, <2>3
  <1>8. QED
    BY <1>1, <1>2, <1>3, <1>4, <1>5, <1>6, <1>7 DEF Work, Disrupt

\* What learners, staff and broker leave alone.
LEMMA EnvironmentKeeps ==
    ASSUME Environment
    PROVE  UNCHANGED <<configs, task, locks, lms, slipped>>
  <1>1. ASSUME NEW e \in Enrollments, NEW u \in Units, NEW g \in Marks,
               NEW completed \in BOOLEAN, Grade(e, u, g, completed)
        PROVE  UNCHANGED <<configs, task, locks, lms, slipped>>
    BY <1>1 DEF Grade
  <1>2. ASSUME NEW e \in Enrollments, Permit(e)
        PROVE  UNCHANGED <<configs, task, locks, lms, slipped>>
    BY <1>2 DEF Permit
  <1>3. ASSUME NEW c \in configs, NEW e \in Enrollments, ClickThrough(c, e)
        PROVE  UNCHANGED <<configs, task, locks, lms, slipped>>
    BY <1>3 DEF ClickThrough
  <1>4. ASSUME NEW msg \in queue, LoseTask(msg)
        PROVE  UNCHANGED <<configs, task, locks, lms, slipped>>
    BY <1>4 DEF LoseTask
  <1>5. QED
    BY <1>1, <1>2, <1>3, <1>4 DEF Environment

LEMMA StepKinds ==
    ASSUME TypeOK, AnswersFit, [Next]_vars
    PROVE  BatchStep \/ SingleStep \/ GoOnStep \/ EndStep \/ ExpireStep \/ QuietStep
  <1>1. ASSUME NEW w \in Workers, NEW job \in Jobs, StartBatch(w, job[1], job[2])
        PROVE  BatchStep
    <2>1. PICK t \in Tasks :
             /\ task[w] = Idle /\ task' = [task EXCEPT ![w] = t]
             /\ t.message = NoMessage
             /\ t.records = {} /\ t.current = NoRecord /\ t.answer = "none"
             /\ LockKey(t.kind, t.config) \in Keys
             /\ LockKey(t.kind, t.config) \notin locks
             /\ locks' = locks \union {LockKey(t.kind, t.config)}
      BY <1>1, StartBatchTask
    <2>2. UNCHANGED slipped
      BY <1>1 DEF StartBatch
    <2>3. QED
      BY <2>1, <2>2 DEF BatchStep
  <1>2. ASSUME NEW w \in Workers, NEW msg \in queue, StartSingle(w, msg)
        PROVE  SingleStep
    BY <1>2, StartSingleTask DEF StartSingle, SingleStep
  <1>3. ASSUME NEW k \in Keys, Expire(k)
        PROVE  ExpireStep
    BY <1>3 DEF Expire, ExpireStep
  <1>4. CASE Environment
    BY <1>4, EnvironmentKeeps DEF QuietStep
  <1>5. CASE UNCHANGED vars
    BY <1>5 DEF vars, QuietStep
  <1>6. QED
    BY <1>1, <1>2, <1>3, <1>4, <1>5, WorkSteps DEF Next

\* Only a record in hand is answered.
LEMMA AnswersFitNext ==
    ASSUME TypeOK, AnswersFit, [Next]_vars
    PROVE  AnswersFit'
  <1> SUFFICES ASSUME NEW v \in Workers, task'[v] # Idle, task'[v].answer # "none"
               PROVE  task'[v].current # NoRecord
    BY DEF AnswersFit
  <1>1. ASSUME NEW w \in Workers, NEW t, task' = [task EXCEPT ![w] = t],
               t # Idle /\ t.answer # "none" => t.current # NoRecord
        PROVE  task'[v].current # NoRecord
    BY <1>1 DEF AnswersFit, TypeOK
  <1>2. CASE BatchStep
    BY <1>1, <1>2 DEF BatchStep
  <1>3. CASE SingleStep
    BY <1>1, <1>3 DEF SingleStep
  <1>4. CASE GoOnStep
    BY <1>1, <1>4 DEF GoOnStep, GoesOn
  <1>5. CASE EndStep
    BY <1>1, <1>5 DEF EndStep
  <1>6. CASE ExpireStep \/ QuietStep
    BY <1>6 DEF ExpireStep, QuietStep, AnswersFit
  <1>7. QED
    BY <1>2, <1>3, <1>4, <1>5, <1>6, StepKinds

\* The tasks and locks keep their types.
LEMMA TaskTypeNext ==
    ASSUME TypeOK, AnswersFit, [Next]_vars
    PROVE  /\ task' \in [Workers -> Tasks \union {Idle}]
           /\ locks' \subseteq Keys /\ slipped' \subseteq Keys
  <1>1. CASE BatchStep
    BY <1>1 DEF BatchStep, TypeOK
  <1>2. CASE SingleStep
    BY <1>2 DEF SingleStep, TypeOK
  <1>3. CASE GoOnStep
    BY <1>3 DEF GoOnStep, GoesOn, TypeOK
  <1>4. CASE EndStep
    BY <1>4 DEF EndStep, Unlocked, TypeOK
  <1>5. CASE ExpireStep
    BY <1>5 DEF ExpireStep, TypeOK
  <1>6. CASE QuietStep
    BY <1>6 DEF QuietStep, TypeOK
  <1>7. QED
    BY <1>1, <1>2, <1>3, <1>4, <1>5, <1>6, StepKinds

-----------------------------------------------------------------------------
(* The types of the other variables                                        *)

\* The variables that are not written by every step of a task.
DataTypeOK ==
    /\ configs \in Deployments
    /\ mark \in [Enrollments -> [Units -> Marks \union {"none"}]]
    /\ done \in [Enrollments -> BOOLEAN] /\ permitted \in [Enrollments -> BOOLEAN]
    /\ queue \subseteq Messages
    /\ audits \in [Channels -> [Enrollments -> [Units -> Seq(Rows)]]]
    /\ received \in [Configs -> [Enrollments -> [Units -> SUBSET Reports]]]
    /\ latest \in [Configs -> [Enrollments -> [Units -> Reports \union {NoReport}]]]
    /\ history \in [Enrollments -> [repeated : BOOLEAN, disturbed : BOOLEAN]]
    /\ changes \in 0..MaxChanges /\ failures \in 0..MaxFailures /\ crashes \in 0..MaxCrashes

\* A bounded counter that is below its bound.
LEMMA CounterType ==
    ASSUME NEW n, NEW max \in Nat, n \in 0..max, n < max
    PROVE  n + 1 \in 0..max
  OBVIOUS

LEMMA BoundsAreNat == MaxChanges \in Nat /\ MaxFailures \in Nat /\ MaxCrashes \in Nat
  BY BoundAssumption

LEMMA CollectData ==
    ASSUME TypeOK, NEW w \in Workers, NEW c \in configs, NEW e \in Enrollments, Collect(w, c, e)
    PROVE  DataTypeOK'
  <1> DEFINE b == history[e].disturbed \/ \E v \in Workers \ {w} : \E r \in InHand(v) : r.on = e
  <1>1. history' = [history EXCEPT ![e].disturbed = b]
    BY DEF Collect
  <1>2. b \in BOOLEAN
    BY DEF TypeOK
  <1> HIDE DEF b
  <1>3. history' \in [Enrollments -> [repeated : BOOLEAN, disturbed : BOOLEAN]]
    BY <1>1, <1>2, HistoryType
  <1>4. QED
    BY <1>3 DEF Collect, DataTypeOK, TypeOK, learner, lms, counters

LEMMA DeliverData ==
    ASSUME TypeOK, NEW w \in Workers, Deliver(w)
    PROVE  DataTypeOK'
  <1> DEFINE r == task[w].current
             b == history[r.on].repeated
                    \/ (r.unit = Course /\ latest[r.config][r.on][Course] = Report(r))
  <1>1. r \in Records /\ r.on \in Enrollments
    BY TaskFacts, RecordFacts DEF Deliver, Sending
  <1>2. Accept(r) /\ history' = [history EXCEPT ![r.on].repeated = b]
    BY DEF Deliver
  <1>3. b \in BOOLEAN
    BY <1>1 DEF TypeOK
  <1> HIDE DEF r, b
  <1>4. history' \in [Enrollments -> [repeated : BOOLEAN, disturbed : BOOLEAN]]
    BY <1>1, <1>2, <1>3, HistoryType, Zenon
  <1>5. /\ received' \in [Configs -> [Enrollments -> [Units -> SUBSET Reports]]]
        /\ latest' \in [Configs -> [Enrollments -> [Units -> Reports \union {NoReport}]]]
    BY <1>1, <1>2, AcceptType
  <1>6. QED
    BY <1>4, <1>5 DEF Deliver, DataTypeOK, TypeOK, learner, lms, counters

LEMMA SaveData ==
    ASSUME TypeOK, AnswersFit, NEW w \in Workers, Save(w)
    PROVE  DataTypeOK'
  <1> DEFINE r == task[w].current
             d == history[r.on].disturbed
                    \/ /\ task[w].answer # "ok" /\ r.at # 0
                       /\ Table(r.config, r.on, r.unit)[r.at].sent
  <1>1. audits' \in [Channels -> [Enrollments -> [Units -> Seq(Rows)]]] /\ r.on \in Enrollments
    BY SaveTable, RecordFacts
  <1>2. history' = [history EXCEPT ![r.on].disturbed = d]
    BY Zenon DEF Save
  <1>3. d \in BOOLEAN
    OBVIOUS
  <1>4. UNCHANGED <<configs, learner, queue, lms, counters>>
    BY Zenon DEF Save
  <1> HIDE DEF r, d
  <1>5. history' \in [Enrollments -> [repeated : BOOLEAN, disturbed : BOOLEAN]]
    BY <1>1, <1>2, <1>3, HistoryType
  <1>6. QED
    BY <1>1, <1>4, <1>5 DEF DataTypeOK, TypeOK, learner, lms, counters

LEMMA FailData ==
    ASSUME TypeOK, NEW w \in Workers, NEW answer \in Answers, Fail(w, answer)
    PROVE  DataTypeOK'
  <1> DEFINE r == task[w].current
             d == history[r.on].disturbed \/ lms' # lms
             b == history[r.on].repeated
                    \/ /\ lms' # lms /\ r.unit = Course
                       /\ latest[r.config][r.on][Course] = Report(r)
             p == permitted[r.on] /\ answer # "inactive"
  <1>1. r \in Records /\ r.on \in Enrollments
    BY TaskFacts, RecordFacts DEF Fail, Sending
  <1>2. /\ UNCHANGED lms \/ Accept(r)
        /\ history' = [history EXCEPT ![r.on].disturbed = d, ![r.on].repeated = b]
        /\ permitted' = [permitted EXCEPT ![r.on] = p]
    BY DEF Fail
  <1>3. b \in BOOLEAN /\ d \in BOOLEAN /\ p \in BOOLEAN
    BY <1>1 DEF TypeOK
  <1>4. failures' \in 0..MaxFailures
    BY BoundsAreNat, CounterType DEF Fail, TypeOK
  <1> HIDE DEF r, d, b, p
  <1>5. history' \in [Enrollments -> [repeated : BOOLEAN, disturbed : BOOLEAN]]
    BY <1>1, <1>2, <1>3, HistoryType
  <1>6. /\ received' \in [Configs -> [Enrollments -> [Units -> SUBSET Reports]]]
        /\ latest' \in [Configs -> [Enrollments -> [Units -> Reports \union {NoReport}]]]
    BY <1>1, <1>2, AcceptType DEF lms, TypeOK
  <1>7. permitted' \in [Enrollments -> BOOLEAN]
    BY <1>1, <1>2, <1>3 DEF TypeOK
  <1>8. QED
    BY <1>4, <1>5, <1>6, <1>7, Zenon DEF Fail, DataTypeOK, TypeOK

\* A task that ends between an answer and its row, killed or by an error.
LEMMA LostData ==
    ASSUME TypeOK, NEW w \in Workers, Crash(w) \/ Collide(w)
    PROVE  DataTypeOK'
  <1>1. ASSUME NEW e \in Enrollments
        PROVE  history'[e] \in [repeated : BOOLEAN, disturbed : BOOLEAN]
    <2> DEFINE b == history[e].disturbed
                      \/ (task[w].answer = "ok" /\ task[w].current.on = e)
    <2>1. history'[e] = [history[e] EXCEPT !.disturbed = b]
      BY DEF Crash, Collide
    <2>2. b \in BOOLEAN /\ history[e] \in [repeated : BOOLEAN, disturbed : BOOLEAN]
      BY DEF TypeOK
    <2> HIDE DEF b
    <2>3. QED
      BY <2>1, <2>2
  <1>2. history' = [e \in Enrollments |-> history'[e]]
    BY DEF Crash, Collide
  <1>3. history' \in [Enrollments -> [repeated : BOOLEAN, disturbed : BOOLEAN]]
    BY <1>1, <1>2
  <1>4. crashes' \in 0..MaxCrashes
    BY BoundsAreNat, CounterType DEF Crash, Collide, TypeOK, counters
  <1>5. QED
    BY <1>3, <1>4 DEF Crash, Collide, DataTypeOK, TypeOK, learner, lms, counters

LEMMA GradeData ==
    ASSUME TypeOK, NEW e \in Enrollments, NEW u \in Units, NEW g \in Marks,
           NEW completed \in BOOLEAN, Grade(e, u, g, completed)
    PROVE  DataTypeOK'
  <1>1. mark' \in [Enrollments -> [Units -> Marks \union {"none"}]]
    BY Update2 DEF Grade, TypeOK
  <1>2. done' \in [Enrollments -> BOOLEAN]
    BY DEF Grade, TypeOK
  <1>3. queue' \subseteq Messages
    <2>1. [kind : Kinds, on : {e}, unit : {u}, grade : {g}] \subseteq Messages
      BY DEF Messages, Grades
    <2>2. QED
      BY <2>1 DEF Grade, TypeOK
  <1>4. changes' \in 0..MaxChanges
    BY BoundsAreNat, CounterType DEF Grade, TypeOK
  <1>5. QED
    BY <1>1, <1>2, <1>3, <1>4 DEF Grade, DataTypeOK, TypeOK, lms

LEMMA PermitData ==
    ASSUME TypeOK, NEW e \in Enrollments, Permit(e)
    PROVE  DataTypeOK'
  <1>1. permitted' \in [Enrollments -> BOOLEAN]
    BY DEF Permit, TypeOK
  <1>2. changes' \in 0..MaxChanges
    BY BoundsAreNat, CounterType DEF Permit, TypeOK
  <1>3. QED
    BY <1>1, <1>2 DEF Permit, DataTypeOK, TypeOK, lms

LEMMA DataTypeNext ==
    ASSUME TypeOK, AnswersFit, [Next]_vars
    PROVE  DataTypeOK'
  <1>1. ASSUME NEW w \in Workers, NEW job \in Jobs, StartBatch(w, job[1], job[2])
        PROVE  DataTypeOK'
    BY <1>1 DEF StartBatch, DataTypeOK, TypeOK, learner, lms, counters
  <1>2. ASSUME NEW w \in Workers, NEW msg \in queue, StartSingle(w, msg)
        PROVE  DataTypeOK'
    BY <1>2 DEF StartSingle, DataTypeOK, TypeOK, learner, lms, counters
  <1>3. ASSUME NEW w \in Workers, Work(w) \/ Disrupt(w)
        PROVE  DataTypeOK'
    <2>1. CASE \E c \in configs, e \in Enrollments : Collect(w, c, e)
      BY <2>1, CollectData
    <2>2. CASE \E r \in InHand(w) : Check(w, r)
      BY <2>2 DEF Check, DataTypeOK, TypeOK, learner, lms, counters
    <2>3. CASE Deliver(w)
      BY <2>3, DeliverData
    <2>4. CASE Save(w)
      BY <2>4, SaveData
    <2>5. CASE Finish(w)
      BY <2>5 DEF Finish, DataTypeOK, TypeOK, learner, lms, counters
    <2>6. CASE Crash(w) \/ Collide(w)
      BY <2>6, LostData
    <2>7. CASE \E answer \in Answers : Fail(w, answer)
      BY <2>7, FailData
    <2>8. QED
      BY <1>3, <2>1, <2>2, <2>3, <2>4, <2>5, <2>6, <2>7 DEF Work, Disrupt
  <1>4. ASSUME NEW k \in Keys, Expire(k)
        PROVE  DataTypeOK'
    BY <1>4 DEF Expire, DataTypeOK, TypeOK, learner, lms, counters
  <1>5. CASE Environment
    <2>1. CASE \E e \in Enrollments, u \in Units, g \in Marks, completed \in BOOLEAN :
                  Grade(e, u, g, completed)
      BY <2>1, GradeData
    <2>2. CASE \E e \in Enrollments : Permit(e)
      BY <2>2, PermitData
    <2>3. CASE \E c \in configs, e \in Enrollments : ClickThrough(c, e)
      <3>1. audits' \in [Channels -> [Enrollments -> [Units -> Seq(Rows)]]]
        BY <2>3, ClickTable
      <3>2. QED
        BY <2>3, <3>1 DEF ClickThrough, DataTypeOK, TypeOK, learner, lms, counters
    <2>4. CASE \E msg \in queue : LoseTask(msg)
      BY <2>4 DEF LoseTask, DataTypeOK, TypeOK, learner, lms, counters
    <2>5. QED
      BY <1>5, <2>1, <2>2, <2>3, <2>4 DEF Environment
  <1>6. CASE UNCHANGED vars
    BY <1>6 DEF vars, DataTypeOK, TypeOK, learner, lms, counters
  <1>7. QED
    BY <1>1, <1>2, <1>3, <1>4, <1>5, <1>6 DEF Next

\* The types need that an answer always belongs to a record.
TypeInv == TypeOK /\ AnswersFit

LEMMA TypeInvInit == Init => TypeInv
  BY TypeInit DEF TypeInv, Init, AnswersFit

LEMMA TypeInvNext == TypeInv /\ [Next]_vars => TypeInv'
  <1> SUFFICES ASSUME TypeInv, [Next]_vars
               PROVE  TypeInv'
    OBVIOUS
  <1>1. TypeOK'
    BY DataTypeNext, TaskTypeNext DEF TypeInv, DataTypeOK, TypeOK
  <1>2. QED
    BY <1>1, AnswersFitNext DEF TypeInv

LEMMA TypeInvHolds == Spec => []TypeInv
  BY TypeInvInit, TypeInvNext, PTL DEF Spec

\* The rows, tasks, reports and locks always have their types.
THEOREM TypeCorrect == Spec => []TypeOK
  <1>1. TypeInv => TypeOK
    BY DEF TypeInv
  <1>2. QED
    BY <1>1, TypeInvHolds, PTL

-----------------------------------------------------------------------------
(* The lock of the batch tasks                                             *)

\* The key of the lock that a task for all enrollments has taken.
HeldKey(w) == LockKey(task[w].kind, task[w].config)

\* The key of a running task is in the cache, unless it has expired under a task;
\* until then the task is the only one with this key.
KeyHeld(k) ==
    /\ Holders(k) # {} => k \in locks \union slipped
    /\ k \notin slipped => \A v, w \in Holders(k) : v = w

\* The inductive invariant of the lock.
LockInv == TypeInv /\ \A k \in Keys : KeyHeld(k)

\* A task for one learner is none for all enrollments.
LEMMA MessageFacts == NoMessage \notin Messages
  BY DEF NoMessage, Messages, Kinds

LEMMA HoldersByKey ==
    ASSUME NEW k, NEW w \in Workers
    PROVE  w \in Holders(k) <=> IsBatch(w) /\ HeldKey(w) = k
  BY DEF Holders, HeldKey

\* What the kinds of step do to the holders of a key.
LEMMA HoldersAfterBatch ==
    ASSUME TypeInv, NEW w \in Workers, NEW t \in Tasks, task[w] = Idle,
           task' = [task EXCEPT ![w] = t], t.message = NoMessage, NEW k \in Keys
    PROVE  /\ w \notin Holders(k)
           /\ (Holders(k))' = IF k = LockKey(t.kind, t.config) THEN Holders(k) \union {w}
                              ELSE Holders(k)
  <1>1. t # Idle
    BY IdleAssumption
  <1>2. task'[w] = t /\ \A v \in Workers : v # w => task'[v] = task[v]
    BY DEF TypeInv, TypeOK
  <1>3. QED
    BY <1>1, <1>2 DEF Holders, IsBatch

LEMMA HoldersAfterSingle ==
    ASSUME TypeInv, NEW w \in Workers, NEW t \in Tasks, task[w] = Idle,
           task' = [task EXCEPT ![w] = t], t.message \in Messages, NEW k \in Keys
    PROVE  (Holders(k))' = Holders(k)
  <1>1. t.message # NoMessage
    BY MessageFacts
  <1>2. task'[w] = t /\ \A v \in Workers : v # w => task'[v] = task[v]
    BY DEF TypeInv, TypeOK
  <1>3. QED
    BY <1>1, <1>2 DEF Holders, IsBatch

LEMMA HoldersAfterGoOn ==
    ASSUME TypeInv, NEW w \in Workers, NEW t \in Tasks, GoesOn(w, t), NEW k \in Keys
    PROVE  (Holders(k))' = Holders(k)
  <1>1. t # Idle /\ task[w] # Idle
    BY IdleAssumption DEF GoesOn
  <1>2. task'[w] = t /\ \A v \in Workers : v # w => task'[v] = task[v]
    BY DEF TypeInv, TypeOK, GoesOn
  <1>3. QED
    BY <1>1, <1>2 DEF Holders, IsBatch, GoesOn, SameRun

LEMMA HoldersAfterEnd ==
    ASSUME TypeInv, NEW w \in Workers, task' = [task EXCEPT ![w] = Idle], NEW k \in Keys
    PROVE  (Holders(k))' = Holders(k) \ {w}
  <1>1. task'[w] = Idle /\ \A v \in Workers : v # w => task'[v] = task[v]
    BY DEF TypeInv, TypeOK
  <1>2. QED
    BY <1>1 DEF Holders, IsBatch

LEMMA HoldersUnchanged ==
    ASSUME task' = task, NEW k \in Keys
    PROVE  (Holders(k))' = Holders(k)
  BY DEF Holders, IsBatch

\* Nobody holds a key at the start.
LEMMA LockInvInit == Init => LockInv
  BY TypeInvInit DEF Init, LockInv, KeyHeld, Holders, IsBatch

\* The key of a task is one of Keys.
LEMMA HeldKeyType ==
    ASSUME TypeInv
    PROVE  \A w \in Workers : IsBatch(w) => HeldKey(w) \in Keys
  BY TaskFacts DEF TypeInv, IsBatch, HeldKey, LockKey, Keys

\* The steps keep the lock: a key is freed by its holder, unless it has slipped.
LEMMA KeyHeldNext ==
    ASSUME TypeInv, \A k \in Keys : KeyHeld(k), [Next]_vars
    PROVE  \A k \in Keys : (KeyHeld(k))'
  <1> SUFFICES ASSUME NEW k \in Keys
               PROVE  (KeyHeld(k))'
    OBVIOUS
  <1>1. KeyHeld(k)
    OBVIOUS
  <1>2. CASE BatchStep
    <2>1. PICK w \in Workers, t \in Tasks :
             /\ task[w] = Idle /\ task' = [task EXCEPT ![w] = t] /\ t.message = NoMessage
             /\ LockKey(t.kind, t.config) \notin locks
             /\ locks' = locks \union {LockKey(t.kind, t.config)} /\ slipped' = slipped
      BY <1>2 DEF BatchStep
    <2>2. (Holders(k))' = IF k = LockKey(t.kind, t.config) THEN Holders(k) \union {w}
                          ELSE Holders(k)
      BY <2>1, HoldersAfterBatch
    <2>3. CASE k = LockKey(t.kind, t.config)
      BY <1>1, <2>1, <2>2, <2>3 DEF KeyHeld
    <2>4. CASE k # LockKey(t.kind, t.config)
      BY <1>1, <2>1, <2>2, <2>4 DEF KeyHeld
    <2>5. QED
      BY <2>3, <2>4
  <1>3. CASE SingleStep
    <2>1. (Holders(k))' = Holders(k) /\ locks' = locks /\ slipped' = slipped
      BY <1>3, HoldersAfterSingle DEF SingleStep
    <2>2. QED
      BY <1>1, <2>1 DEF KeyHeld
  <1>4. CASE GoOnStep
    <2>1. (Holders(k))' = Holders(k) /\ locks' = locks /\ slipped' = slipped
      BY <1>4, HoldersAfterGoOn DEF GoOnStep
    <2>2. QED
      BY <1>1, <2>1 DEF KeyHeld
  <1>5. CASE EndStep
    <2>1. PICK w \in Workers :
             /\ task' = [task EXCEPT ![w] = Idle]
             /\ locks' = Unlocked(w) \/ locks' = locks
             /\ slipped' = slipped
      BY <1>5 DEF EndStep
    <2>2. (Holders(k))' = Holders(k) \ {w}
      BY <2>1, HoldersAfterEnd
    <2>3. CASE k \in locks /\ k \notin locks'
      <3>1. w \in Holders(k)
        BY <2>1, <2>3 DEF Unlocked, Holders
      <3>2. CASE k \in slipped
        BY <1>1, <2>1, <2>2, <3>2 DEF KeyHeld
      <3>3. CASE k \notin slipped
        BY <1>1, <2>1, <2>2, <3>1, <3>3 DEF KeyHeld
      <3>4. QED
        BY <3>2, <3>3
    <2>4. CASE ~(k \in locks /\ k \notin locks')
      BY <1>1, <2>1, <2>2, <2>4 DEF KeyHeld
    <2>5. QED
      BY <2>3, <2>4
  <1>6. CASE ExpireStep
    <2>1. PICK j \in Keys :
             /\ task' = task /\ locks' = locks \ {j}
             /\ slipped' = IF Holders(j) # {} THEN slipped \union {j} ELSE slipped
      BY <1>6 DEF ExpireStep
    <2>2. (Holders(k))' = Holders(k)
      BY <2>1, HoldersUnchanged
    <2>3. CASE j = k
      BY <1>1, <2>1, <2>2, <2>3 DEF KeyHeld
    <2>4. CASE j # k
      BY <1>1, <2>1, <2>2, <2>4 DEF KeyHeld
    <2>5. QED
      BY <2>3, <2>4
  <1>7. CASE QuietStep
    <2>1. (Holders(k))' = Holders(k) /\ locks' = locks /\ slipped' = slipped
      BY <1>7, HoldersUnchanged DEF QuietStep
    <2>2. QED
      BY <1>1, <2>1 DEF KeyHeld
  <1>8. QED
    BY <1>2, <1>3, <1>4, <1>5, <1>6, <1>7, StepKinds DEF TypeInv

LEMMA LockInvNext == LockInv /\ [Next]_vars => LockInv'
  BY TypeInvNext, KeyHeldNext DEF LockInv

LEMMA LockInvHolds == Spec => []LockInv
  BY LockInvInit, LockInvNext, PTL DEF Spec

\* Every step of the tasks is a step of the abstract lock, or none.
LEMMA LockStep ==
    ASSUME LockInv, [Next]_vars
    PROVE  [Lock!Next]_(Lock!vars)
  <1> DEFINE inside == [k \in Keys |-> Holders(k)]
  <1>0. TypeInv
    BY DEF LockInv
  <1>1. ASSUME \A k \in Keys : (Holders(k))' = Holders(k), slipped' = slipped
        PROVE  [Lock!Next]_(Lock!vars)
    <2>1. inside' = inside
      BY <1>1
    <2>2. QED
      BY <1>1, <2>1 DEF Lock!vars
  <1>2. CASE BatchStep
    <2>1. PICK w \in Workers, t \in Tasks :
             /\ task[w] = Idle /\ task' = [task EXCEPT ![w] = t] /\ t.message = NoMessage
             /\ LockKey(t.kind, t.config) \in Keys
             /\ LockKey(t.kind, t.config) \notin locks
             /\ slipped' = slipped
      BY <1>2 DEF BatchStep
    <2> DEFINE key == LockKey(t.kind, t.config)
    <2>2. \A k \in Keys : /\ w \notin Holders(k)
                          /\ (Holders(k))' = IF k = key THEN Holders(k) \union {w}
                                             ELSE Holders(k)
      BY <1>0, <2>1, HoldersAfterBatch
    <2> HIDE DEF key
    <2>3. Holders(key) = {} \/ key \in slipped
      BY <2>1 DEF LockInv, KeyHeld, key
    <2>4. key \in Keys /\ key \notin locks
      BY <2>1 DEF key
    <2>5. inside' = [inside EXCEPT ![key] = @ \union {w}]
      BY <2>2, <2>4
    <2>6. inside[key] = Holders(key) /\ \A k \in Keys : w \notin inside[k]
      BY <2>2, <2>4
    <2>7. Lock!Enter(key, w)
      BY <2>1, <2>3, <2>4, <2>5, <2>6 DEF Lock!Enter
    <2>8. QED
      BY <2>4, <2>7 DEF Lock!Next
  <1>3. CASE SingleStep
    BY <1>0, <1>1, <1>3, HoldersAfterSingle DEF SingleStep
  <1>4. CASE GoOnStep
    BY <1>0, <1>1, <1>4, HoldersAfterGoOn DEF GoOnStep
  <1>5. CASE EndStep
    <2>1. PICK w \in Workers :
             task[w] # Idle /\ task' = [task EXCEPT ![w] = Idle] /\ slipped' = slipped
      BY <1>5 DEF EndStep
    <2>2. \A k \in Keys : (Holders(k))' = Holders(k) \ {w}
      BY <1>0, <2>1, HoldersAfterEnd
    <2>3. CASE IsBatch(w)
      <3> DEFINE key == HeldKey(w)
      <3>1. key \in Keys /\ w \in Holders(key) /\ \A k \in Keys : k # key => w \notin Holders(k)
        BY <1>0, <2>3, HeldKeyType, HoldersByKey
      <3> HIDE DEF key
      <3>2. PICK j \in Keys : j = key
        BY <3>1
      <3>3. \A k \in Keys : k # j => Holders(k) \ {w} = Holders(k)
        BY <3>1, <3>2
      <3>4. \A k \in Keys : (Holders(k))' = IF k = j THEN Holders(k) \ {w} ELSE Holders(k)
        BY <2>2, <3>3
      <3>5. inside' = [inside EXCEPT ![j] = @ \ {w}] /\ w \in inside[j]
        BY <3>1, <3>2, <3>4
      <3>6. Lock!Leave(j, w)
        BY <2>1, <3>5 DEF Lock!Leave
      <3>7. QED
        BY <3>6 DEF Lock!Next
    <2>4. CASE ~IsBatch(w)
      BY <1>1, <2>1, <2>2, <2>4 DEF Holders
    <2>5. QED
      BY <2>3, <2>4
  <1>6. CASE ExpireStep
    <2>1. PICK j \in Keys :
             /\ task' = task
             /\ slipped' = IF Holders(j) # {} THEN slipped \union {j} ELSE slipped
      BY <1>6 DEF ExpireStep
    <2>2. \A k \in Keys : (Holders(k))' = Holders(k)
      BY <2>1, HoldersUnchanged
    <2>3. CASE Holders(j) = {}
      BY <1>1, <2>1, <2>2, <2>3
    <2>4. CASE Holders(j) # {}
      <3>1. inside' = inside /\ inside[j] # {} /\ slipped' = slipped \union {j}
        BY <2>1, <2>2, <2>4
      <3>2. Lock!Slip(j)
        BY <3>1 DEF Lock!Slip
      <3>3. QED
        BY <3>2 DEF Lock!Next
    <2>5. QED
      BY <2>3, <2>4
  <1>7. CASE QuietStep
    BY <1>1, <1>7, HoldersUnchanged DEF QuietStep
  <1>8. QED
    BY <1>2, <1>3, <1>4, <1>5, <1>6, <1>7, StepKinds DEF LockInv, TypeInv

\* The lock of tasks.py implements the abstract lock with a lease.
THEOREM LockRefines == Spec => RunsExclude
  <1>1. Init => Lock!Init
    <2> SUFFICES ASSUME Init
                 PROVE  Lock!Init
      OBVIOUS
    <2>1. \A k \in Keys : Holders(k) = {}
      BY DEF Init, Holders, IsBatch
    <2>2. QED
      BY <2>1 DEF Init, Lock!Init
  <1>2. LockInv /\ [Next]_vars => [Lock!Next]_(Lock!vars)
    BY LockStep
  <1>3. QED
    BY <1>1, <1>2, LockInvHolds, PTL DEF Spec, RunsExclude, Lock!Spec

\* Two tasks with one key never run at the same time, unless the key has expired
\* under a running task.
THEOREM LockExcludes == Spec => []Lock!Exclusive
  <1>1. LockInv => Lock!Exclusive
    BY DEF LockInv, KeyHeld, Lock!Exclusive
  <1>2. QED
    BY <1>1, LockInvHolds, PTL

-----------------------------------------------------------------------------
(* What the rows marked as sent say                                        *)

\* A record goes with an active configuration, and with that of its row except
\* where a channel takes what row there is.
HandFits(t) ==
    \A r \in Hand(t) :
        r.config \in configs /\ (r.owner = r.config \/ RecordOf[ChannelOf[r.config]] = "reused")

HandsFit == \A w \in Workers : task[w] # Idle => HandFits(task[w])

\* The LMS has the grade of a record that it has answered by "ok".
Arrived(r) == \E rep \in received[r.config][r.on][r.unit] : rep.grade = r.grade

OkArrived == \A w \in Workers : task[w] # Idle /\ task[w].answer = "ok" => Arrived(task[w].current)

\* The grade of a row was accepted by the LMS of its configuration; or, where a
\* channel takes what row there is, by that of a configuration of the channel.
Shown(ch, e, u, row) ==
    \E c \in configs :
        /\ ChannelOf[c] = ch /\ (c = row.config \/ RecordOf[ch] = "reused")
        /\ \E rep \in received[c][e][u] : rep.grade = row.grade

SentWasReceived ==
    \A ch \in Channels, e \in Enrollments, u \in Units :
        \A i \in DOMAIN audits[ch][e][u] :
            audits[ch][e][u][i].sent =>
                Redirected(u, audits[ch][e][u][i]) \/ Shown(ch, e, u, audits[ch][e][u][i])

\* The inductive invariant of the rows.
RowInv == TypeInv /\ HandsFit /\ OkArrived /\ SentWasReceived

\* The configurations stay, and an LMS keeps what it has accepted.
LEMMA ReceivedGrows ==
    ASSUME TypeOK, [Next]_vars
    PROVE  /\ configs' = configs
           /\ \A c \in Configs, e \in Enrollments, u \in Units :
                 received[c][e][u] \subseteq received'[c][e][u]
  <1>1. ASSUME NEW w \in Workers, Deliver(w)
        PROVE  /\ configs' = configs
               /\ task[w].current \in Records /\ Accept(task[w].current)
    BY <1>1, TaskFacts DEF Deliver, Sending
  <1>2. ASSUME NEW w \in Workers, NEW answer \in Answers, Fail(w, answer)
        PROVE  /\ configs' = configs
               /\ task[w].current \in Records
               /\ received' = received \/ Accept(task[w].current)
    BY <1>2, TaskFacts DEF Fail, Sending, lms
  <1>3. ASSUME NEW w \in Workers, Work(w) \/ Disrupt(w)
        PROVE  /\ configs' = configs
               /\ received' = received
                     \/ (task[w].current \in Records /\ Accept(task[w].current))
    BY <1>1, <1>2, <1>3, Zenon
       DEF Work, Disrupt, Collect, Check, Save, Collide, Finish, Crash, lms
  <1>4. ASSUME NEW w \in Workers, Work(w) \/ Disrupt(w)
        PROVE  /\ configs' = configs
               /\ \A c \in Configs, e \in Enrollments, u \in Units :
                     received[c][e][u] \subseteq received'[c][e][u]
    BY <1>3, <1>4, AcceptType
  <1>5. ASSUME NEW w \in Workers, NEW job \in Jobs, StartBatch(w, job[1], job[2])
        PROVE  configs' = configs /\ received' = received
    BY <1>5 DEF StartBatch, lms
  <1>6. ASSUME NEW w \in Workers, NEW msg \in queue, StartSingle(w, msg)
        PROVE  configs' = configs /\ received' = received
    BY <1>6 DEF StartSingle, lms
  <1>7. ASSUME NEW k \in Keys, Expire(k)
        PROVE  configs' = configs /\ received' = received
    BY <1>7 DEF Expire, lms
  <1>8. Environment => configs' = configs /\ received' = received
    BY EnvironmentKeeps DEF lms
  <1>9. UNCHANGED vars => configs' = configs /\ received' = received
    BY DEF vars, lms
  <1>10. QED
    BY <1>4, <1>5, <1>6, <1>7, <1>8, <1>9 DEF Next

\* The records in hand keep fitting.
LEMMA HandsFitNext ==
    ASSUME TypeInv, HandsFit, [Next]_vars
    PROVE  HandsFit'
  <1> SUFFICES ASSUME NEW v \in Workers, task'[v] # Idle, NEW r \in Hand(task'[v])
               PROVE  /\ r.config \in configs'
                      /\ r.owner = r.config \/ RecordOf[ChannelOf[r.config]] = "reused"
    BY DEF HandsFit, HandFits, Hand
  <1>0. configs' = configs /\ TypeOK
    BY ReceivedGrows DEF TypeInv
  <1>1. ASSUME task[v] # Idle, r \in Hand(task[v])
        PROVE  /\ r.config \in configs'
               /\ r.owner = r.config \/ RecordOf[ChannelOf[r.config]] = "reused"
    BY <1>0, <1>1 DEF HandsFit, HandFits
  <1>2. ASSUME NEW w \in Workers, NEW t, task' = [task EXCEPT ![w] = t], v # w
        PROVE  task'[v] = task[v]
    BY <1>2 DEF TypeInv, TypeOK
  <1>3. ASSUME NEW w \in Workers, NEW t, task' = [task EXCEPT ![w] = t], v = w
        PROVE  task'[v] = t
    BY <1>3 DEF TypeInv, TypeOK
  <1>4. CASE BatchStep \/ SingleStep
    <2>1. PICK w \in Workers, t \in Tasks :
             task' = [task EXCEPT ![w] = t] /\ t.records = {} /\ t.current = NoRecord
      BY <1>4 DEF BatchStep, SingleStep
    <2>2. v # w
      BY <1>3, <2>1 DEF Hand
    <2>3. QED
      BY <1>1, <1>2, <2>1, <2>2
  <1>5. CASE GoOnStep
    <2>1. PICK w \in Workers, t \in Tasks :
             /\ task[w] # Idle /\ task' = [task EXCEPT ![w] = t]
             /\ \A s \in Hand(t) :
                   s \in Hand(task[w])
                       \/ \E c \in configs, e \in Enrollments : s \in Export(task[w], c, e)
      BY <1>5 DEF GoOnStep, GoesOn
    <2>2. CASE v # w
      BY <1>1, <1>2, <2>1, <2>2
    <2>3. CASE v = w /\ r \in Hand(task[w])
      BY <1>1, <2>1, <2>3
    <2>4. CASE v = w /\ r \notin Hand(task[w])
      <3>1. PICK c \in configs, e \in Enrollments : r \in Export(task[w], c, e)
        BY <1>3, <2>1, <2>4
      <3>2. c \in Configs
        BY ConfigAssumption DEF TypeInv, TypeOK
      <3>3. Fits(r, c, e)
        BY <1>0, <3>1, <3>2, ExportFits
      <3>4. QED
        BY <1>0, <3>3 DEF Fits
    <2>5. QED
      BY <2>2, <2>3, <2>4
  <1>6. CASE EndStep
    <2>1. PICK w \in Workers : task' = [task EXCEPT ![w] = Idle]
      BY <1>6 DEF EndStep
    <2>2. QED
      BY <1>1, <1>2, <1>3, <2>1
  <1>7. CASE ExpireStep \/ QuietStep
    BY <1>1, <1>7 DEF ExpireStep, QuietStep
  <1>8. QED
    BY <1>4, <1>5, <1>6, <1>7, StepKinds DEF TypeInv

\* What has been answered by "ok" has arrived.
LEMMA OkArrivedNext ==
    ASSUME TypeInv, OkArrived, [Next]_vars
    PROVE  OkArrived'
  <1> SUFFICES ASSUME NEW v \in Workers, task'[v] # Idle, task'[v].answer = "ok"
               PROVE  (Arrived(task[v].current))'
    BY DEF OkArrived
  <1>0. TypeOK /\ AnswersFit
    BY DEF TypeInv
  <1>1. ASSUME task[v] # Idle, task[v].answer = "ok", task'[v].current = task[v].current
        PROVE  (Arrived(task[v].current))'
    <2>1. task[v].current \in Records
      BY <1>0, <1>1, TaskFacts DEF AnswersFit
    <2>2. Arrived(task[v].current)
      BY <1>1 DEF OkArrived
    <2>3. QED
      BY <1>0, <1>1, <2>1, <2>2, ReceivedGrows, RecordFacts DEF Arrived
  <1>2. ASSUME NEW w \in Workers, NEW t, task' = [task EXCEPT ![w] = t], v # w
        PROVE  task'[v] = task[v]
    BY <1>2 DEF TypeInv, TypeOK
  <1>3. ASSUME NEW w \in Workers, NEW t, task' = [task EXCEPT ![w] = t], v = w
        PROVE  task'[v] = t
    BY <1>3 DEF TypeInv, TypeOK
  <1>4. CASE BatchStep \/ SingleStep
    <2>1. PICK w \in Workers, t \in Tasks : task' = [task EXCEPT ![w] = t] /\ t.answer = "none"
      BY <1>4 DEF BatchStep, SingleStep
    <2>2. v # w
      BY <1>3, <2>1
    <2>3. QED
      BY <1>1, <1>2, <2>1, <2>2
  <1>5. CASE GoOnStep
    <2>1. PICK w \in Workers, t \in Tasks :
             /\ task[w] # Idle /\ task' = [task EXCEPT ![w] = t]
             /\ t.answer = "ok" =>
                   /\ t.current = task[w].current
                   /\ \/ task[w].answer = "ok"
                      \/ Report(t.current)
                            \in received'[t.current.config][t.current.on][t.current.unit]
      BY <1>5 DEF GoOnStep, GoesOn
    <2>2. CASE v # w
      BY <1>1, <1>2, <2>1, <2>2
    <2>3. CASE v = w
      <3>1. task'[v] = t
        BY <1>3, <2>1, <2>3
      <3>2. CASE task[w].answer = "ok"
        BY <1>1, <2>1, <2>3, <3>1, <3>2
      <3>3. CASE Report(t.current) \in received'[t.current.config][t.current.on][t.current.unit]
        <4>1. Report(t.current).grade = t.current.grade
          BY DEF Report
        <4>2. QED
          BY <3>1, <3>3, <4>1 DEF Arrived
      <3>4. QED
        BY <2>1, <3>1, <3>2, <3>3
    <2>4. QED
      BY <2>2, <2>3
  <1>6. CASE EndStep
    <2>1. PICK w \in Workers : task' = [task EXCEPT ![w] = Idle]
      BY <1>6 DEF EndStep
    <2>2. QED
      BY <1>1, <1>2, <1>3, <2>1
  <1>7. CASE ExpireStep \/ QuietStep
    BY <1>1, <1>7 DEF ExpireStep, QuietStep
  <1>8. QED
    BY <1>0, <1>4, <1>5, <1>6, <1>7, StepKinds

\* Rows keep what they show, as nothing is taken back from an LMS.
LEMMA ShownStays ==
    ASSUME TypeOK, [Next]_vars, NEW ch \in Channels, NEW e \in Enrollments, NEW u \in Units,
           NEW row, Shown(ch, e, u, row)
    PROVE  (Shown(ch, e, u, row))'
  <1>1. configs \subseteq Configs
    BY ConfigAssumption DEF TypeOK
  <1>2. QED
    BY <1>1, ReceivedGrows DEF Shown

\* A row is marked as sent when its report has arrived, or was redirected.
LEMMA SentWasReceivedNext ==
    ASSUME RowInv, [Next]_vars
    PROVE  SentWasReceived'
  <1>0. TypeOK /\ AnswersFit
    BY DEF RowInv, TypeInv
  <1> SUFFICES ASSUME NEW ch \in Channels, NEW e \in Enrollments, NEW u \in Units,
                      NEW i \in DOMAIN audits'[ch][e][u],
                      audits'[ch][e][u][i].sent, ~Redirected(u, audits'[ch][e][u][i])
               PROVE  \E c \in configs' :
                         /\ ChannelOf[c] = ch
                         /\ c = audits'[ch][e][u][i].config \/ RecordOf[ch] = "reused"
                         /\ \E rep \in received'[c][e][u] :
                               rep.grade = audits'[ch][e][u][i].grade
    BY DEF SentWasReceived, Shown, Redirected
  <1>1. ASSUME NEW j \in DOMAIN audits[ch][e][u],
               audits'[ch][e][u][i] = audits[ch][e][u][j]
        PROVE  \E c \in configs' :
                  /\ ChannelOf[c] = ch
                  /\ c = audits'[ch][e][u][i].config \/ RecordOf[ch] = "reused"
                  /\ \E rep \in received'[c][e][u] : rep.grade = audits'[ch][e][u][i].grade
    <2>1. Shown(ch, e, u, audits[ch][e][u][j])
      BY <1>1 DEF RowInv, SentWasReceived
    <2>2. configs' = configs /\ configs \subseteq Configs
      BY <1>0, ReceivedGrows, ConfigAssumption DEF TypeOK
    <2>3. QED
      BY <1>0, <1>1, <2>1, <2>2, ReceivedGrows DEF Shown
  <1>2. ASSUME audits' = audits
        PROVE  \E j \in DOMAIN audits[ch][e][u] : audits'[ch][e][u][i] = audits[ch][e][u][j]
    BY <1>2
  <1>3. ASSUME NEW w \in Workers, Save(w)
        PROVE  \E c \in configs' :
                  /\ ChannelOf[c] = ch
                  /\ c = audits'[ch][e][u][i].config \/ RecordOf[ch] = "reused"
                  /\ \E rep \in received'[c][e][u] : rep.grade = audits'[ch][e][u][i].grade
    <2> DEFINE r == task[w].current
               row == SavedRow(r, task[w].answer)
    <2>1. \/ i \in DOMAIN audits[ch][e][u] /\ audits'[ch][e][u][i] = audits[ch][e][u][i]
          \/ /\ ch = ChannelOf[r.config] /\ e = r.on /\ u = r.unit
             /\ audits'[ch][e][u][i] = row
      BY <1>0, <1>3, SaveTable
    <2>2. CASE i \in DOMAIN audits[ch][e][u] /\ audits'[ch][e][u][i] = audits[ch][e][u][i]
      BY <1>1, <2>2
    <2>3. CASE /\ ch = ChannelOf[r.config] /\ e = r.on /\ u = r.unit
               /\ audits'[ch][e][u][i] = row
      <3>0. /\ row.config = r.owner /\ row.grade = r.grade
            /\ row.sent = (task[w].answer = "ok"
                              \/ (task[w].answer = "redirect" /\ r.unit # Course))
            /\ row.ok = (task[w].answer = "ok")
        BY DEF SavedRow
      <3> HIDE DEF row
      <3>1. /\ audits'[ch][e][u][i].config = r.owner
            /\ audits'[ch][e][u][i].grade = r.grade /\ task[w].answer = "ok"
        BY <1>0, <2>3, <3>0 DEF Redirected
      <3>2. task[w] # Idle /\ r \in Hand(task[w])
        BY <1>0, <1>3, Zenon DEF Save, AnswersFit, Hand
      <3>3. /\ r.config \in configs
            /\ r.owner = r.config \/ RecordOf[ChannelOf[r.config]] = "reused"
        BY <3>2 DEF RowInv, HandsFit, HandFits
      <3>4. \E rep \in received[r.config][r.on][r.unit] : rep.grade = r.grade
        BY <3>1, <3>2 DEF RowInv, OkArrived, Arrived
      <3>5. configs' = configs /\ received' = received
        BY <1>0, <1>3, ReceivedGrows, Zenon DEF Save, lms
      <3> HIDE DEF r
      <3>6. QED
        BY <2>3, <3>1, <3>3, <3>4, <3>5
    <2>4. QED
      BY <2>1, <2>2, <2>3
  <1>4. ASSUME NEW c \in configs, NEW d \in Enrollments, ClickThrough(c, d)
        PROVE  \E j \in DOMAIN audits[ch][e][u] : audits'[ch][e][u][i] = audits[ch][e][u][j]
    BY <1>0, <1>4, ClickTable
  <1>6. CASE \E w \in Workers, job \in Jobs : StartBatch(w, job[1], job[2])
    BY <1>1, <1>2, <1>6 DEF StartBatch
  <1>7. CASE \E w \in Workers, msg \in queue : StartSingle(w, msg)
    BY <1>1, <1>2, <1>7 DEF StartSingle
  <1>8. CASE \E w \in Workers : Work(w) \/ Disrupt(w)
    <2>1. ASSUME NEW w \in Workers, Work(w) \/ Disrupt(w)
          PROVE  Save(w) \/ audits' = audits
      BY <2>1, Zenon DEF Work, Disrupt, Collect, Check, Deliver, Collide, Finish, Crash, Fail
    <2>2. QED
      BY <1>1, <1>2, <1>3, <1>8, <2>1
  <1>9. CASE \E k \in Keys : Expire(k)
    BY <1>1, <1>2, <1>9 DEF Expire
  <1>10. CASE Environment
    <2>1. \/ \E c \in configs, d \in Enrollments : ClickThrough(c, d)
          \/ audits' = audits
      BY <1>10 DEF Environment, Grade, Permit, LoseTask
    <2>2. QED
      BY <1>1, <1>2, <1>4, <2>1
  <1>11. CASE UNCHANGED vars
    BY <1>1, <1>2, <1>11 DEF vars
  <1>12. QED
    BY <1>6, <1>7, <1>8, <1>9, <1>10, <1>11 DEF Next

LEMMA RowInvInit == Init => RowInv
  BY TypeInvInit DEF Init, RowInv, HandsFit, OkArrived, SentWasReceived

LEMMA RowInvNext == RowInv /\ [Next]_vars => RowInv'
  BY TypeInvNext, HandsFitNext, OkArrivedNext, SentWasReceivedNext DEF RowInv

LEMMA RowInvHolds == Spec => []RowInv
  BY RowInvInit, RowInvNext, PTL DEF Spec

\* A row that is marked as sent, unless it is that of a subsection whose last
\* answer was a redirect, has a grade that an LMS has accepted: that of its
\* configuration, or, of a channel that takes what row there is for the
\* enrollment, that of some configuration of the channel.
THEOREM SentRowsArrived == Spec => []SentWasReceived
  <1>1. RowInv => SentWasReceived
    BY DEF RowInv
  <1>2. QED
    BY <1>1, RowInvHolds, PTL

\* Such a channel has one configuration at most.
OnePerReusing ==
    \A D \in Deployments : \A c, d \in D :
        ChannelOf[c] = ChannelOf[d] /\ RecordOf[ChannelOf[c]] = "reused" => c = d

\* What a task passes over as transmitted was accepted by the LMS of that very
\* configuration, or was answered by a redirect the last time, if the customer
\* has no two configurations of one channel that takes what row there is; of two
\* such configurations it would not be true.
THEOREM SkippedReceived == OnePerReusing => (Spec => []SkippedWasReceived)
  <1> SUFFICES ASSUME OnePerReusing
               PROVE  Spec => []SkippedWasReceived
    OBVIOUS
  <1>1. ASSUME RowInv, NEW c \in configs, NEW e \in Enrollments, NEW u \in Units,
               NEW g \in Grades, IsAlreadyTransmitted(c, e, u, g)
        PROVE  \/ \E r \in received[c][e][u] : ChannelOf[c] \in DetectGrade => r.grade = g
               \/ \E i \in SentRows(c, e, u) :
                     IsLatestSent(c, e, u, i) /\ Redirected(u, Table(c, e, u)[i])
    <2>1. c \in Configs /\ configs \in Deployments /\ ChannelOf[c] \in Channels
      BY <1>1, ConfigAssumption DEF RowInv, TypeInv, TypeOK
    <2>2. PICK i \in SentRows(c, e, u) :
             /\ IsLatestSent(c, e, u, i)
             /\ ChannelOf[c] \in DetectGrade => Table(c, e, u)[i].grade = g
      BY <1>1 DEF IsAlreadyTransmitted
    <2>3. /\ i \in DOMAIN audits[ChannelOf[c]][e][u]
          /\ audits[ChannelOf[c]][e][u][i].sent /\ audits[ChannelOf[c]][e][u][i].config = c
          /\ ChannelOf[c] \in DetectGrade => audits[ChannelOf[c]][e][u][i].grade = g
          /\ Table(c, e, u)[i] = audits[ChannelOf[c]][e][u][i]
      BY <2>2 DEF SentRows, Table
    <2>4. CASE Redirected(u, Table(c, e, u)[i])
      BY <2>2, <2>4
    <2>5. CASE ~Redirected(u, Table(c, e, u)[i])
      <3>1. PICK d \in configs :
               /\ ChannelOf[d] = ChannelOf[c]
               /\ d = c \/ RecordOf[ChannelOf[c]] = "reused"
               /\ \E rep \in received[d][e][u] :
                     rep.grade = audits[ChannelOf[c]][e][u][i].grade
        BY <1>1, <2>1, <2>3, <2>5 DEF RowInv, SentWasReceived, Shown
      <3>2. d = c
        BY <2>1, <3>1 DEF OnePerReusing
      <3>3. QED
        BY <2>3, <3>1, <3>2
    <2>6. QED
      BY <2>4, <2>5
  <1>2. RowInv => SkippedWasReceived
    BY <1>1 DEF SkippedWasReceived
  <1>3. QED
    BY <1>2, RowInvHolds, PTL

-----------------------------------------------------------------------------
(* Why a completion is sent again                                          *)

\* A record of the course is the only one that its task has in hand, and the
\* task reports completions.
CourseAlone(t) ==
    /\ \A r \in t.records :
          r.unit = Course =>
             t.kind = "completion" /\ t.current = NoRecord /\ t.records = {r}
    /\ t.current # NoRecord /\ t.current.unit = Course => t.records = {}

\* Such a record goes with a configuration of the customer and with the row that
\* the channel has for it.
Placed(r) ==
    /\ r.owner = r.config /\ r.config \in configs
    /\ r.unit = Course =>
          /\ RecordOf[ChannelOf[r.config]] = "fresh" => r.at = 0
          /\ RecordOf[ChannelOf[r.config]] = "refreshed" =>
                /\ r.at \in DOMAIN Table(r.config, r.on, Course)
                /\ Table(r.config, r.on, Course)[r.at].config = r.config

HandsPlaced ==
    \A w \in Workers : task[w] # Idle =>
        CourseAlone(task[w]) /\ \A r \in Hand(task[w]) : Placed(r)

\* A channel that takes what row there is has rows of one configuration only, and
\* one that waits for the learner's click has one row of each.
TablesFit ==
    \A c \in configs, e \in Enrollments :
        /\ RecordOf[ChannelOf[c]] = "reused" =>
              \A i \in DOMAIN Table(c, e, Course) : Table(c, e, Course)[i].config = c
        /\ RecordOf[ChannelOf[c]] = "refreshed" =>
              \A i, j \in DOMAIN Table(c, e, Course) :
                 Table(c, e, Course)[i].config = Table(c, e, Course)[j].config => i = j

\* A worker has a record of the enrollment in hand.
Holds(w, e) == task[w] # Idle /\ \E r \in Hand(task[w]) : r.on = e

\* The record that a worker is about to send, or has sent, is of the course.
Sends(w, e) ==
    /\ task[w] # Idle /\ task[w].current # NoRecord
    /\ task[w].current.on = e /\ task[w].current.unit = Course

OneHolder(e) == \A v, w \in Workers : Holds(v, e) /\ Holds(w, e) => v = w

\* The one row of a channel that takes what row there is.
OneRow(e) ==
    \A c \in configs : RecordOf[ChannelOf[c]] = "reused" =>
        /\ Len(Table(c, e, Course)) <= 1
        /\ \A w \in Workers : task[w] # Idle =>
              \A r \in Hand(task[w]) :
                 r.config = c /\ r.on = e /\ r.unit = Course => r.at = Len(Table(c, e, Course))

\* What is about to be sent is not marked as sent; what was accepted is the last
\* report; and the last report is marked as sent, or about to be.
NotSent(e) ==
    \A w \in Workers : Sends(w, e) /\ task[w].answer = "none" =>
        ~IsAlreadyTransmitted(task[w].current.config, e, Course, task[w].current.grade)

OkIsLatest(e) ==
    \A w \in Workers : Sends(w, e) /\ task[w].answer = "ok" =>
        latest[task[w].current.config][e][Course] = Report(task[w].current)

LatestIsKept(e) ==
    \A c \in configs : latest[c][e][Course] # NoReport =>
        \/ \E w \in Workers : Sends(w, e) /\ task[w].answer = "ok" /\ task[w].current.config = c
        \/ IsAlreadyTransmitted(c, e, Course, latest[c][e][Course].grade)

Undisturbed(e) ==
    OneHolder(e) /\ OneRow(e) /\ NotSent(e) /\ OkIsLatest(e) /\ LatestIsKept(e)

\* The inductive invariant of the repeated reports.
RepeatInv ==
    /\ TypeInv /\ HandsPlaced /\ TablesFit
    /\ \A e \in Enrollments :
          history[e].disturbed \/ (Undisturbed(e) /\ ~history[e].repeated)

-----------------------------------------------------------------------------
(* Lemmas for the invariant of the repeated reports                        *)

SentRow(row, c) == row.sent /\ row.config = c /\ row.exported
SentIn(s, c)    == {i \in DOMAIN s : SentRow(s[i], c)}

\* The last of the rows sent for a configuration has the grade, if its channel
\* looks at grades.
TransmittedIn(s, c, g) ==
    \E i \in SentIn(s, c) :
        /\ \A j \in SentIn(s, c) : j <= i
        /\ ChannelOf[c] \in DetectGrade => s[i].grade = g

LEMMA TransmittedInTable ==
    ASSUME NEW c, NEW e, NEW u, NEW g
    PROVE  IsAlreadyTransmitted(c, e, u, g) <=> TransmittedIn(Table(c, e, u), c, g)
  BY DEF IsAlreadyTransmitted, IsLatestSent, SentRows, TransmittedIn, SentIn, SentRow

\* Tables with the same sent rows.
LEMMA SameSent ==
    ASSUME NEW c, NEW s, NEW t, SentIn(s, c) = SentIn(t, c),
           \A i \in SentIn(s, c) : s[i].grade = t[i].grade, NEW g
    PROVE  TransmittedIn(s, c, g) <=> TransmittedIn(t, c, g)
  BY DEF TransmittedIn

\* A row that was not sent for the configuration changes nothing for it.
LEMMA AppendUnsent ==
    ASSUME NEW s \in Seq(Rows), NEW row \in Rows, NEW c, ~SentRow(row, c), NEW g
    PROVE  TransmittedIn(Append(s, row), c, g) <=> TransmittedIn(s, c, g)
  <1> DEFINE t == Append(s, row)
  <1>1. /\ DOMAIN t = 1..(Len(s) + 1) /\ DOMAIN s = 1..Len(s) /\ Len(s) \in Nat
        /\ \A j \in 1..(Len(s) + 1) : t[j] = IF j = Len(s) + 1 THEN row ELSE s[j]
    BY SeqFacts
  <1> HIDE DEF t
  <1>2. \A j \in 1..Len(s) : j \in 1..(Len(s) + 1) /\ t[j] = s[j]
    BY <1>1
  <1>3. \A j \in 1..(Len(s) + 1) : j \in 1..Len(s) \/ t[j] = row
    BY <1>1
  <1>4. SentIn(t, c) = SentIn(s, c) /\ \A i \in SentIn(s, c) : s[i].grade = t[i].grade
    BY <1>1, <1>2, <1>3 DEF SentIn
  <1>5. TransmittedIn(t, c, g) <=> TransmittedIn(s, c, g)
    BY <1>4, SameSent
  <1>6. QED
    BY <1>5 DEF t

LEMMA ReplaceUnsent ==
    ASSUME NEW s \in Seq(Rows), NEW row \in Rows, NEW k \in Nat, NEW c, ~SentRow(row, c),
           k \in DOMAIN s => ~SentRow(s[k], c), NEW g
    PROVE  TransmittedIn([s EXCEPT ![k] = row], c, g) <=> TransmittedIn(s, c, g)
  <1> DEFINE t == [s EXCEPT ![k] = row]
  <1>1. DOMAIN t = DOMAIN s /\ \A j \in DOMAIN s : t[j] = IF j = k THEN row ELSE s[j]
    BY SeqFacts
  <1> HIDE DEF t
  <1>2. SentIn(t, c) = SentIn(s, c) /\ \A i \in SentIn(s, c) : s[i].grade = t[i].grade
    BY <1>1 DEF SentIn
  <1>3. TransmittedIn(t, c, g) <=> TransmittedIn(s, c, g)
    BY <1>2, SameSent
  <1>4. QED
    BY <1>3 DEF t

\* A sent row that is the last one, or the only one, of the configuration.
LEMMA AppendSent ==
    ASSUME NEW s \in Seq(Rows), NEW row \in Rows, NEW c, SentRow(row, c)
    PROVE  TransmittedIn(Append(s, row), c, row.grade)
  <1> DEFINE t == Append(s, row)
             n == Len(s) + 1
  <1>1. DOMAIN t = 1..n /\ Len(s) \in Nat /\ t[n] = row
    BY SeqFacts
  <1> HIDE DEF t
  <1>2. n \in SentIn(t, c) /\ \A j \in SentIn(t, c) : j <= n
    BY <1>1 DEF SentIn
  <1>3. TransmittedIn(t, c, row.grade)
    BY <1>1, <1>2 DEF TransmittedIn
  <1>4. QED
    BY <1>3 DEF t

LEMMA ReplaceSent ==
    ASSUME NEW s \in Seq(Rows), NEW row \in Rows, NEW k \in DOMAIN s, NEW c, SentRow(row, c),
           \A j \in DOMAIN s : j # k => ~SentRow(s[j], c)
    PROVE  TransmittedIn([s EXCEPT ![k] = row], c, row.grade)
  <1> DEFINE t == [s EXCEPT ![k] = row]
  <1>1. k \in Nat
    OBVIOUS
  <1>2. DOMAIN t = DOMAIN s /\ \A j \in DOMAIN s : t[j] = IF j = k THEN row ELSE s[j]
    BY <1>1, SeqFacts
  <1> HIDE DEF t
  <1>3. SentIn(t, c) = {k} /\ t[k] = row
    BY <1>2 DEF SentIn
  <1>4. TransmittedIn(t, c, row.grade)
    BY <1>1, <1>3 DEF TransmittedIn
  <1>5. QED
    BY <1>4 DEF t

\* A table in which the row of a record has been saved: it is added, or takes the
\* place of the old one.
WithRow(s, r, answer) ==
    IF r.at = 0 THEN Append(s, SavedRow(r, answer))
    ELSE [s EXCEPT ![r.at] = SavedRow(r, answer)]

LEMMA SavedTable ==
    ASSUME TypeInv, NEW w \in Workers, Save(w)
    PROVE  /\ task[w].current \in Records
           /\ \A ch \in Channels, e \in Enrollments, u \in Units :
                 audits'[ch][e][u] =
                    IF /\ ch = ChannelOf[task[w].current.config] /\ e = task[w].current.on
                       /\ u = task[w].current.unit
                    THEN WithRow(audits[ch][e][u], task[w].current, task[w].answer)
                    ELSE audits[ch][e][u]
  <1> DEFINE r == task[w].current
             a == ChannelOf[r.config]
             new == WithRow(audits[a][r.on][r.unit], r, task[w].answer)
  <1>1. r \in Records
    BY TaskFacts, Zenon DEF TypeInv, Save, AnswersFit
  <1>2. a \in Channels /\ r.on \in Enrollments /\ r.unit \in Units
    BY <1>1, RecordFacts
  <1>3. audits' = [audits EXCEPT ![a][r.on][r.unit] = new]
    BY Zenon DEF Save, WithRow
  <1>4. audits \in [Channels -> [Enrollments -> [Units -> Seq(Rows)]]]
    BY DEF TypeInv, TypeOK
  <1> HIDE DEF new, r, a
  <1>5. \A ch \in Channels, e \in Enrollments, u \in Units :
           audits'[ch][e][u] = IF ch = a /\ e = r.on /\ u = r.unit THEN new
                               ELSE audits[ch][e][u]
    BY <1>2, <1>3, <1>4
  <1>6. \A ch \in Channels, e \in Enrollments, u \in Units :
           ch = a /\ e = r.on /\ u = r.unit =>
               new = WithRow(audits[ch][e][u], r, task[w].answer)
    BY DEF new
  <1>7. \A ch \in Channels, e \in Enrollments, u \in Units :
           audits'[ch][e][u] = IF ch = a /\ e = r.on /\ u = r.unit
                               THEN WithRow(audits[ch][e][u], r, task[w].answer)
                               ELSE audits[ch][e][u]
    BY <1>5, <1>6
  <1>8. QED
    BY <1>1, <1>7 DEF r, a

\* The row that is saved.
LEMMA SavedRowFacts ==
    ASSUME NEW r \in Records, NEW answer
    PROVE  /\ SavedRow(r, answer) \in Rows /\ SavedRow(r, answer).config = r.owner
           /\ SavedRow(r, answer).grade = r.grade /\ SavedRow(r, answer).exported
           /\ answer = "ok" => SavedRow(r, answer).sent
           /\ r.unit = Course => (SavedRow(r, answer).sent <=> answer = "ok")
  BY SavedRowType DEF SavedRow

\* The click adds a row to one table.
LEMMA ClickedTable ==
    ASSUME TypeOK, NEW c \in configs, NEW d \in Enrollments, ClickThrough(c, d)
    PROVE  \E row \in Rows :
              /\ row.config = c /\ ~row.sent
              /\ \A ch \in Channels, e \in Enrollments :
                    audits'[ch][e][Course] =
                       IF ch = ChannelOf[c] /\ e = d THEN Append(audits[ch][e][Course], row)
                       ELSE audits[ch][e][Course]
  <1> DEFINE row == [config |-> c, grade |-> "none", done |-> FALSE, sent |-> FALSE,
                     ok |-> FALSE, exported |-> FALSE]
             a == ChannelOf[c]
             new == Append(audits[a][d][Course], row)
  <1>1. c \in Configs /\ a \in Channels /\ Course \in Units
    BY ConfigAssumption DEF TypeOK, Units
  <1>2. row \in Rows /\ row.config = c /\ ~row.sent
    BY <1>1 DEF Rows, Grades
  <1>3. audits' = [audits EXCEPT ![a][d][Course] = new]
    BY DEF ClickThrough, Table
  <1>4. audits \in [Channels -> [Enrollments -> [Units -> Seq(Rows)]]]
    BY DEF TypeOK
  <1> HIDE DEF new
  <1>5. \A ch \in Channels, e \in Enrollments :
           audits'[ch][e][Course] = IF ch = a /\ e = d THEN new ELSE audits[ch][e][Course]
    BY <1>1, <1>3, <1>4
  <1> HIDE DEF row
  <1>6. QED
    BY <1>2, <1>5 DEF new

-----------------------------------------------------------------------------
(* The steps, seen by the records in hand and by an enrollment             *)

\* What happens to the history of an enrollment.
LEMMA HistoryUpdate ==
    ASSUME TypeOK, NEW e \in Enrollments, NEW b, NEW d, NEW x \in Enrollments
    PROVE  /\ [history EXCEPT ![e].disturbed = d][x].disturbed =
                 IF x = e THEN d ELSE history[x].disturbed
           /\ [history EXCEPT ![e].disturbed = d][x].repeated = history[x].repeated
           /\ [history EXCEPT ![e].repeated = b][x].repeated =
                 IF x = e THEN b ELSE history[x].repeated
           /\ [history EXCEPT ![e].repeated = b][x].disturbed = history[x].disturbed
  <1>1. history \in [Enrollments -> [repeated : BOOLEAN, disturbed : BOOLEAN]]
    BY DEF TypeOK
  <1>2. QED
    BY <1>1

\* Nothing has disturbed the enrollment yet, and the step sends it no report.
Calm(e) ==
    /\ ~history[e].disturbed /\ history'[e].repeated = history[e].repeated
    /\ \A c \in Configs : latest'[c][e][Course] = latest[c][e][Course]

CalmOthers == \A e \in Enrollments : ~history'[e].disturbed => Calm(e)

\* A task begins or ends: its worker has nothing in hand.
DropStep ==
    \E w \in Workers, t \in Tasks \union {Idle} :
        /\ task' = [task EXCEPT ![w] = t]
        /\ t # Idle => t.records = {} /\ t.current = NoRecord
        /\ audits' = audits
        /\ \A e \in Enrollments : ~history'[e].disturbed =>
              Calm(e) /\ ~(Sends(w, e) /\ task[w].answer = "ok")

CollectStep ==
    \E w \in Workers, c \in configs, d \in Enrollments, t \in Tasks :
        /\ GoesOn(w, t) /\ Hand(task[w]) = {} /\ task[w].current = NoRecord
        /\ t.records = Export(task[w], c, d)
        /\ t.current = NoRecord /\ t.answer = task[w].answer
        /\ audits' = audits
        /\ \A e \in Enrollments : ~history'[e].disturbed =>
              Calm(e) /\ (e = d => \A v \in Workers \ {w} : ~Holds(v, e))

CheckStep ==
    \E w \in Workers, t \in Tasks : \E r \in task[w].records :
        /\ GoesOn(w, t) /\ task[w].current = NoRecord
        /\ t.records = task[w].records \ {r}
        /\ t.current = NoRecord \/ (t.current = r /\ ToSend(task[w], r))
        /\ t.answer = task[w].answer
        /\ audits' = audits /\ CalmOthers

\* A report is refused, or its answer is lost.
RefuseStep ==
    \E w \in Workers, t \in Tasks :
        /\ GoesOn(w, t) /\ t.records = task[w].records /\ t.current = task[w].current
        /\ task[w].answer = "none" /\ t.answer # "ok" /\ t.answer # "none"
        /\ audits' = audits /\ CalmOthers

DeliverStep ==
    \E w \in Workers, t \in Tasks, r \in Records :
        /\ GoesOn(w, t) /\ t.records = task[w].records /\ t.current = task[w].current
        /\ r = task[w].current /\ task[w].answer = "none" /\ t.answer = "ok"
        /\ audits' = audits
        /\ \A c \in Configs, e \in Enrollments :
              latest'[c][e][Course] =
                 IF c = r.config /\ e = r.on /\ r.unit = Course THEN Report(r)
                 ELSE latest[c][e][Course]
        /\ \A e \in Enrollments :
              /\ history'[e].disturbed = history[e].disturbed
              /\ history'[e].repeated =
                    IF e = r.on
                    THEN history[e].repeated
                            \/ (r.unit = Course /\ latest[r.config][e][Course] = Report(r))
                    ELSE history[e].repeated

SaveStep ==
    \E w \in Workers, t \in Tasks :
        /\ Save(w) /\ GoesOn(w, t) /\ t.records = task[w].records
        /\ t.current = NoRecord /\ t.answer = "none" /\ CalmOthers
        /\ \A e \in Enrollments :
              ~history'[e].disturbed /\ e = task[w].current.on /\ task[w].current.at # 0
                 /\ task[w].answer # "ok" =>
                    ~Table(task[w].current.config, e, task[w].current.unit)
                        [task[w].current.at].sent

\* The workers stand still.
OutsideStep ==
    /\ task' = task /\ CalmOthers
    /\ \/ audits' = audits
       \/ \E c \in configs, e \in Enrollments : ClickThrough(c, e)

LEMMA SameLearners ==
    ASSUME TypeOK, history' = history, latest' = latest
    PROVE  CalmOthers
  BY DEF CalmOthers, Calm

\* The record that is being sent.
LEMMA SendingFacts ==
    ASSUME TypeOK, NEW w \in Workers, Sending(w)
    PROVE  /\ task[w] # Idle /\ task[w].current \in Records /\ task[w].answer = "none"
           /\ task[w].current.on \in Enrollments /\ task[w].current.config \in Configs
           /\ task[w].current.unit \in Units
  <1>1. task[w].current \in Records /\ task[w] # Idle /\ task[w].answer = "none"
    BY TaskFacts DEF Sending
  <1> DEFINE r == task[w].current
  <1>2. r \in Records
    BY <1>1
  <1> HIDE DEF r
  <1>3. r.on \in Enrollments /\ r.config \in Configs /\ r.unit \in Units
    BY <1>2, RecordFacts
  <1>4. QED
    BY <1>1, <1>3 DEF r

\* What an accepted report changes.
LEMMA AcceptedLatest ==
    ASSUME TypeOK, NEW r \in Records, Accept(r), NEW c \in Configs, NEW e \in Enrollments
    PROVE  latest'[c][e][Course] =
              IF c = r.config /\ e = r.on /\ r.unit = Course THEN Report(r)
              ELSE latest[c][e][Course]
  <1>1. /\ r.config \in Configs /\ r.on \in Enrollments /\ r.unit \in Units
        /\ Report(r) \in Reports /\ Course \in Units
    BY RecordFacts, ReportType DEF Units
  <1>2. latest \in [Configs -> [Enrollments -> [Units -> Reports \union {NoReport}]]]
    BY DEF TypeOK
  <1>3. latest' = [latest EXCEPT ![r.config][r.on][r.unit] = Report(r)]
    BY DEF Accept
  <1> DEFINE V == Reports \union {NoReport}
  <1>4. Report(r) \in V /\ latest \in [Configs -> [Enrollments -> [Units -> V]]]
    BY <1>1, <1>2
  <1>5. PICK rep \in V : rep = Report(r)
    BY <1>4
  <1> HIDE DEF V
  <1>6. latest' = [latest EXCEPT ![r.config][r.on][r.unit] = rep]
    BY <1>3, <1>5
  <1>7. \A x \in Configs, y \in Enrollments, z \in Units :
           latest'[x][y][z] = IF x = r.config /\ y = r.on /\ z = r.unit THEN rep
                              ELSE latest[x][y][z]
    BY <1>1, <1>4, <1>6
  <1>8. QED
    BY <1>1, <1>5, <1>7

LEMMA FailCalm ==
    ASSUME TypeOK, NEW w \in Workers, NEW answer \in Answers, Fail(w, answer)
    PROVE  CalmOthers /\ audits' = audits
  <1>0. TypeOK
    OBVIOUS
  <1> DEFINE r == task[w].current
             d == history[r.on].disturbed \/ lms' # lms
             b == history[r.on].repeated
                     \/ (lms' # lms /\ r.unit = Course
                            /\ latest[r.config][r.on][Course] = Report(r))
  <1>1. r \in Records /\ r.on \in Enrollments
    BY SendingFacts DEF Fail
  <1>2. UNCHANGED lms \/ Accept(r)
    BY DEF Fail
  <1>3. history' = [history EXCEPT ![r.on].disturbed = d, ![r.on].repeated = b]
    BY DEF Fail
  <1>4. ASSUME NEW e \in Enrollments, ~history'[e].disturbed
        PROVE  Calm(e)
    <2> HIDE DEF r, d, b
    <2>1. /\ history'[e].disturbed = IF e = r.on THEN d ELSE history[e].disturbed
          /\ history'[e].repeated = IF e = r.on THEN b ELSE history[e].repeated
      <3>1. PICK x, d1, b1 : x \in Enrollments /\ x = r.on /\ d1 = d /\ b1 = b
        BY <1>1
      <3>2. history' = [history EXCEPT ![x].disturbed = d1, ![x].repeated = b1]
        BY <1>3, <3>1
      <3>3. /\ history'[e].disturbed = IF e = x THEN d1 ELSE history[e].disturbed
            /\ history'[e].repeated = IF e = x THEN b1 ELSE history[e].repeated
        <4>1. history \in [Enrollments -> [repeated : BOOLEAN, disturbed : BOOLEAN]]
          BY <1>0 DEF TypeOK
        <4>2. QED
          BY <3>2, <4>1
      <3>4. QED
        BY <3>1, <3>3
    <2>2. CASE e = r.on
      <3>1. ~d
        BY <1>4, <2>1, <2>2
      <3>2. ~history[e].disturbed /\ lms' = lms
        BY <2>2, <3>1 DEF d
      <3>3. b = history[r.on].repeated
        <4>1. history[r.on].repeated \in BOOLEAN
          BY <1>1 DEF TypeOK
        <4>2. QED
          BY <3>2, <4>1 DEF b
      <3>4. latest' = latest
        BY <3>2 DEF lms
      <3>5. QED
        BY <2>1, <2>2, <3>2, <3>3, <3>4 DEF Calm
    <2>3. CASE e # r.on
      <3>1. \A c \in Configs : latest'[c][e][Course] = latest[c][e][Course]
        <4>1. CASE UNCHANGED lms
          BY <4>1 DEF lms
        <4>2. CASE Accept(r)
          BY <1>1, <2>3, <4>2, AcceptedLatest
        <4>3. QED
          BY <1>2, <4>1, <4>2
      <3>2. QED
        BY <1>4, <2>1, <2>3, <3>1 DEF Calm
    <2>4. QED
      BY <2>2, <2>3
  <1>5. QED
    BY <1>4, Zenon DEF CalmOthers, Fail

LEMMA CollectStepHolds ==
    ASSUME TypeInv, NEW w \in Workers, NEW c \in configs, NEW d \in Enrollments,
           Collect(w, c, d)
    PROVE  CollectStep
  <1>0. TypeOK
    BY DEF TypeInv
  <1>1. PICK t \in Tasks :
           /\ GoesOn(w, t) /\ t.records = Export(task[w], c, d)
           /\ t.current = task[w].current /\ t.answer = task[w].answer
    BY <1>0, CollectTask
  <1>2. task[w] # Idle /\ Hand(task[w]) = {} /\ task[w].current = NoRecord /\ audits' = audits
    BY DEF Collect, InHand, Hand
  <1>3. ASSUME NEW e \in Enrollments, ~history'[e].disturbed
        PROVE  Calm(e) /\ (e = d => \A v \in Workers \ {w} : ~Holds(v, e))
    <2> DEFINE x == \E v \in Workers \ {w} : \E r \in InHand(v) : r.on = d
    <2>1. history' = [history EXCEPT ![d].disturbed = history[d].disturbed \/ x]
      BY DEF Collect
    <2>2. x <=> \E v \in Workers \ {w} : Holds(v, d)
      BY DEF Holds, InHand, Hand
    <2> HIDE DEF x
    <2>3. /\ history'[e].disturbed =
                IF e = d THEN history[d].disturbed \/ x ELSE history[e].disturbed
          /\ history'[e].repeated = history[e].repeated
      BY <1>0, <2>1, HistoryUpdate
    <2>4. latest' = latest
      BY DEF Collect, lms
    <2>5. ~history[e].disturbed /\ (e = d => ~x)
      BY <1>3, <2>3
    <2>6. QED
      BY <2>2, <2>3, <2>4, <2>5 DEF Calm
  <1>4. QED
    BY <1>1, <1>2, <1>3 DEF CollectStep

LEMMA CheckStepHolds ==
    ASSUME TypeInv, NEW w \in Workers, NEW r \in InHand(w), Check(w, r)
    PROVE  CheckStep
  <1>1. PICK t \in Tasks :
           /\ GoesOn(w, t)
           /\ r \in task[w].records /\ task[w].current = NoRecord
           /\ t.records = task[w].records \ {r}
           /\ t.current = NoRecord \/ (t.current = r /\ ToSend(task[w], r))
           /\ t.answer = task[w].answer
    BY CheckTask DEF TypeInv
  <1>2. audits' = audits /\ CalmOthers
    BY SameLearners DEF Check, lms, TypeInv
  <1>3. QED
    BY <1>1, <1>2 DEF CheckStep

LEMMA DeliverStepHolds ==
    ASSUME TypeInv, NEW w \in Workers, Deliver(w)
    PROVE  DeliverStep
  <1>0. TypeOK
    BY DEF TypeInv
  <1>1. "ok" \in AnswerSet /\ task' = [task EXCEPT ![w].answer = "ok"] /\ task[w] # Idle
    BY DEF Deliver, AnswerSet, Sending
  <1>2. PICK t \in Tasks :
           /\ GoesOn(w, t) /\ t.records = task[w].records /\ t.current = task[w].current
           /\ t.answer = "ok"
    BY <1>0, <1>1, AnswerTask
  <1> DEFINE r == task[w].current
             x == r.unit = Course /\ latest[r.config][r.on][Course] = Report(r)
  <1>3. r \in Records /\ r.on \in Enrollments /\ task[w].answer = "none"
    BY <1>0, SendingFacts DEF Deliver
  <1>4. /\ Accept(r) /\ audits' = audits
        /\ history' = [history EXCEPT ![r.on].repeated = history[r.on].repeated \/ x]
    BY DEF Deliver
  <1> HIDE DEF x
  <1>5. PICK s \in Records : s = r
    BY <1>3
  <1> HIDE DEF r
  <1>6. \A c \in Configs, e \in Enrollments :
           latest'[c][e][Course] =
              IF c = r.config /\ e = r.on /\ r.unit = Course THEN Report(r)
              ELSE latest[c][e][Course]
    BY <1>0, <1>3, <1>4, AcceptedLatest
  <1>7. \A e \in Enrollments :
           /\ history'[e].disturbed = history[e].disturbed
           /\ history'[e].repeated =
                 IF e = r.on THEN history[r.on].repeated \/ x ELSE history[e].repeated
    <2>1. PICK b : b = (history[r.on].repeated \/ x)
      OBVIOUS
    <2>2. history' = [history EXCEPT ![r.on].repeated = b]
      BY <1>4, <2>1
    <2>3. history \in [Enrollments -> [repeated : BOOLEAN, disturbed : BOOLEAN]]
      BY <1>0 DEF TypeOK
    <2>4. QED
      BY <1>3, <2>1, <2>2, <2>3
  <1>8. \A e \in Enrollments :
           /\ history'[e].disturbed = history[e].disturbed
           /\ history'[e].repeated =
                 IF e = r.on
                 THEN history[e].repeated
                         \/ (r.unit = Course /\ latest[r.config][e][Course] = Report(r))
                 ELSE history[e].repeated
    BY <1>7 DEF x
  <1>9. r = task[w].current
    BY DEF r
  <1>10. QED
    BY <1>2, <1>3, <1>4, <1>6, <1>8, <1>9 DEF DeliverStep

LEMMA RefuseStepHolds ==
    ASSUME TypeInv, NEW w \in Workers, NEW answer \in Answers, Fail(w, answer)
    PROVE  RefuseStep \/ DropStep
  <1>0. TypeOK /\ CalmOthers /\ audits' = audits
    BY FailCalm DEF TypeInv
  <1>1. task[w].answer = "none" /\ task[w] # Idle
    BY <1>0, SendingFacts DEF Fail
  <1>2. CASE answer = "exception"
    <2>1. task' = [task EXCEPT ![w] = Idle]
      BY <1>2 DEF Fail
    <2>2. QED
      BY <1>0, <1>1, <2>1 DEF DropStep, CalmOthers
  <1>3. CASE answer # "exception"
    <2>1. task' = [task EXCEPT ![w].answer = answer] /\ answer \in AnswerSet
      BY <1>3 DEF Fail, AnswerSet
    <2>2. PICK t \in Tasks :
             /\ GoesOn(w, t) /\ t.records = task[w].records /\ t.current = task[w].current
             /\ t.answer = answer
      BY <1>0, <1>1, <2>1, AnswerTask
    <2>3. answer # "ok" /\ answer # "none"
      BY NameAssumption
    <2>4. QED
      BY <1>0, <1>1, <2>2, <2>3 DEF RefuseStep
  <1>4. QED
    BY <1>2, <1>3

LEMMA SaveStepHolds ==
    ASSUME TypeInv, NEW w \in Workers, Save(w)
    PROVE  SaveStep
  <1>0. TypeOK
    BY DEF TypeInv
  <1>1. PICK t \in Tasks :
           /\ GoesOn(w, t) /\ t.records = task[w].records
           /\ t.current = NoRecord /\ t.answer = "none"
    BY <1>0, SaveTask
  <1> DEFINE r == task[w].current
             x == /\ task[w].answer # "ok" /\ r.at # 0
                  /\ Table(r.config, r.on, r.unit)[r.at].sent
  <1>2. r \in Records /\ r.on \in Enrollments
    BY SavedTable, RecordFacts
  <1>3. history' = [history EXCEPT ![r.on].disturbed = history[r.on].disturbed \/ x]
    BY Zenon DEF Save
  <1>4. latest' = latest
    BY Zenon DEF Save, lms
  <1>5. \A e \in Enrollments :
           /\ history'[e].repeated = history[e].repeated
           /\ history'[e].disturbed =
                 IF e = r.on THEN history[r.on].disturbed \/ x ELSE history[e].disturbed
    <2> HIDE DEF x, r
    <2>1. PICK b : b = (history[r.on].disturbed \/ x)
      OBVIOUS
    <2>2. history' = [history EXCEPT ![r.on].disturbed = b]
      BY <1>3, <2>1
    <2>3. history \in [Enrollments -> [repeated : BOOLEAN, disturbed : BOOLEAN]]
      BY <1>0 DEF TypeOK
    <2>4. QED
      BY <1>2, <2>1, <2>2, <2>3
  <1>6. ASSUME NEW e \in Enrollments, ~history'[e].disturbed
        PROVE  Calm(e) /\ (e = r.on => ~x)
    <2> HIDE DEF x, r
    <2>1. QED
      BY <1>4, <1>5, <1>6 DEF Calm
  <1>7. QED
    BY <1>1, <1>6 DEF SaveStep, CalmOthers

LEMMA LostStepHolds ==
    ASSUME TypeInv, NEW w \in Workers, Crash(w) \/ Collide(w)
    PROVE  DropStep
  <1>1. /\ task' = [task EXCEPT ![w] = Idle] /\ audits' = audits /\ latest' = latest
        /\ \A e \in Enrollments :
              history'[e] = [history[e] EXCEPT !.disturbed =
                 history[e].disturbed
                    \/ (task[w].answer = "ok" /\ task[w].current.on = e)]
    BY DEF Crash, Collide, lms
  <1>2. ASSUME NEW e \in Enrollments, ~history'[e].disturbed
        PROVE  Calm(e) /\ ~(Sends(w, e) /\ task[w].answer = "ok")
    <2> DEFINE x == task[w].answer = "ok" /\ task[w].current.on = e
    <2>1. history[e] \in [repeated : BOOLEAN, disturbed : BOOLEAN]
      BY DEF TypeInv, TypeOK
    <2>2. history'[e] = [history[e] EXCEPT !.disturbed = history[e].disturbed \/ x]
      BY <1>1
    <2> HIDE DEF x
    <2>3. /\ history'[e].disturbed = (history[e].disturbed \/ x)
          /\ history'[e].repeated = history[e].repeated
      BY <2>1, <2>2
    <2>4. ~history[e].disturbed /\ ~x
      BY <1>2, <2>3
    <2>5. QED
      BY <1>1, <2>3, <2>4 DEF Calm, Sends, x
  <1>3. QED
    BY <1>1, <1>2 DEF DropStep

LEMMA StartStepHolds ==
    ASSUME TypeInv,
           \/ \E w \in Workers, job \in Jobs : StartBatch(w, job[1], job[2])
           \/ \E w \in Workers, msg \in queue : StartSingle(w, msg)
    PROVE  DropStep
  <1>0. TypeOK
    BY DEF TypeInv
  <1>1. PICK w \in Workers, t \in Tasks :
           /\ task[w] = Idle /\ task' = [task EXCEPT ![w] = t]
           /\ t.records = {} /\ t.current = NoRecord
           /\ audits' = audits /\ history' = history /\ latest' = latest
    <2>1. ASSUME NEW w \in Workers, NEW job \in Jobs, StartBatch(w, job[1], job[2])
          PROVE  \E t \in Tasks :
                    /\ task[w] = Idle /\ task' = [task EXCEPT ![w] = t]
                    /\ t.records = {} /\ t.current = NoRecord
                    /\ audits' = audits /\ history' = history /\ latest' = latest
      <3>1. audits' = audits /\ history' = history /\ latest' = latest
        BY <2>1 DEF StartBatch, lms
      <3>2. QED
        BY <1>0, <2>1, <3>1, StartBatchTask
    <2>2. ASSUME NEW w \in Workers, NEW msg \in queue, StartSingle(w, msg)
          PROVE  \E t \in Tasks :
                    /\ task[w] = Idle /\ task' = [task EXCEPT ![w] = t]
                    /\ t.records = {} /\ t.current = NoRecord
                    /\ audits' = audits /\ history' = history /\ latest' = latest
      <3>1. audits' = audits /\ history' = history /\ latest' = latest
        BY <2>2 DEF StartSingle, lms
      <3>2. QED
        BY <1>0, <2>2, <3>1, StartSingleTask
    <2>3. QED
      BY <2>1, <2>2
  <1>2. CalmOthers
    BY <1>0, <1>1, SameLearners
  <1>3. \A e \in Enrollments : ~Sends(w, e)
    BY <1>1 DEF Sends
  <1>4. QED
    BY <1>1, <1>2, <1>3 DEF DropStep, CalmOthers

LEMMA FinishStepHolds ==
    ASSUME TypeInv, NEW w \in Workers, Finish(w)
    PROVE  DropStep
  <1>1. /\ task' = [task EXCEPT ![w] = Idle] /\ audits' = audits /\ history' = history
        /\ latest' = latest /\ task[w] # Idle /\ task[w].current = NoRecord
    BY DEF Finish, lms, InHand
  <1>2. CalmOthers
    BY <1>1, SameLearners DEF TypeInv
  <1>3. QED
    BY <1>1, <1>2 DEF DropStep, CalmOthers, Sends

LEMMA OutsideStepHolds ==
    ASSUME TypeInv, (\E key \in Keys : Expire(key)) \/ Environment \/ UNCHANGED vars
    PROVE  OutsideStep
  <1>0. TypeOK
    BY DEF TypeInv
  <1>1. ASSUME task' = task, history' = history, latest' = latest, audits' = audits
        PROVE  OutsideStep
    BY <1>0, <1>1, SameLearners DEF OutsideStep
  <1>2. CASE \E key \in Keys : Expire(key)
    BY <1>1, <1>2 DEF Expire, lms
  <1>3. CASE UNCHANGED vars
    BY <1>1, <1>3 DEF vars, lms
  <1>4. CASE Environment
    <2>1. CASE \/ \E e \in Enrollments, u \in Units, g \in Marks, completed \in BOOLEAN :
                     Grade(e, u, g, completed)
               \/ \E e \in Enrollments : Permit(e)
               \/ \E msg \in queue : LoseTask(msg)
      BY <1>1, <2>1 DEF Grade, Permit, LoseTask, lms
    <2>2. CASE \E c \in configs, e \in Enrollments : ClickThrough(c, e)
      <3>1. task' = task /\ history' = history /\ latest' = latest
        BY <2>2 DEF ClickThrough, lms
      <3>2. QED
        BY <1>0, <2>2, <3>1, SameLearners DEF OutsideStep
    <2>3. QED
      BY <1>4, <2>1, <2>2 DEF Environment
  <1>5. QED
    BY <1>2, <1>3, <1>4

\* Every step is one of these.
LEMMA RepeatSteps ==
    ASSUME TypeInv, [Next]_vars
    PROVE  \/ DropStep \/ CollectStep \/ CheckStep \/ RefuseStep
           \/ DeliverStep \/ SaveStep \/ OutsideStep
  <1>1. ASSUME NEW w \in Workers, Work(w)
        PROVE  CollectStep \/ CheckStep \/ DeliverStep \/ SaveStep \/ DropStep
    BY <1>1, CollectStepHolds, CheckStepHolds, DeliverStepHolds, SaveStepHolds,
       LostStepHolds, FinishStepHolds DEF Work
  <1>2. ASSUME NEW w \in Workers, Disrupt(w)
        PROVE  RefuseStep \/ DropStep
    BY <1>2, LostStepHolds, RefuseStepHolds DEF Disrupt
  <1>3. CASE \/ \E w \in Workers, job \in Jobs : StartBatch(w, job[1], job[2])
             \/ \E w \in Workers, msg \in queue : StartSingle(w, msg)
    BY <1>3, StartStepHolds
  <1>4. CASE \E w \in Workers : Work(w) \/ Disrupt(w)
    BY <1>1, <1>2, <1>4
  <1>5. CASE (\E key \in Keys : Expire(key)) \/ Environment \/ UNCHANGED vars
    BY <1>5, OutsideStepHolds
  <1>6. QED
    BY <1>3, <1>4, <1>5 DEF Next

-----------------------------------------------------------------------------
(* The records in hand and the tables                                      *)

LEMMA TaskAfter ==
    ASSUME TypeOK, NEW w \in Workers, NEW t, task' = [task EXCEPT ![w] = t]
    PROVE  task'[w] = t /\ \A v \in Workers : v # w => task'[v] = task[v]
  BY DEF TypeOK

LEMMA HandType ==
    ASSUME TypeOK, NEW w \in Workers, task[w] # Idle
    PROVE  Hand(task[w]) \subseteq Records
  BY TaskFacts DEF Hand

LEMMA ConfigFacts ==
    ASSUME TypeOK, NEW c \in configs
    PROVE  /\ c \in Configs /\ ChannelOf[c] \in Channels /\ configs \in Deployments
           /\ RecordOf[ChannelOf[c]] \in {"reused", "refreshed", "fresh"}
  BY ConfigAssumption DEF TypeOK

\* A completion is exported alone, for the one row that the channel has for it.
LEMMA CompletionPlaced ==
    ASSUME TypeOK, TablesFit, NEW c \in configs, NEW e \in Enrollments,
           NEW r \in CompletionRecords(c, e)
    PROVE  /\ CompletionRecords(c, e) = {r} /\ r.unit = Course /\ Placed(r)
           /\ r.config = c /\ r.on = e
           /\ RecordOf[ChannelOf[c]] = "reused" /\ Len(Table(c, e, Course)) <= 1 =>
                 r.at = Len(Table(c, e, Course))
  <1>1. /\ c \in Configs /\ RecordOf[ChannelOf[c]] \in {"reused", "refreshed", "fresh"}
        /\ Course \in Units
    BY ConfigFacts DEF Units
  <1> DEFINE new == NewRecord(c, e, Course, CourseGrade(c, e), done[e])
  <1>2. /\ new.config = c /\ new.on = e /\ new.unit = Course /\ new.at = 0
        /\ new.owner = c
    BY DEF NewRecord
  <1> HIDE DEF new
  <1>3. CASE RecordOf[ChannelOf[c]] = "fresh"
    <2>1. CompletionRecords(c, e) = {new} /\ r = new
      BY <1>3 DEF CompletionRecords, FreshRecord, new
    <2>2. QED
      BY <1>2, <1>3, <2>1 DEF Placed
  <1>4. CASE RecordOf[ChannelOf[c]] = "reused"
    <2>1. Table(c, e, Course) \in Seq(Rows)
      BY <1>1, TableType
    <2>2. CASE Table(c, e, Course) = <<>>
      <3>1. CompletionRecords(c, e) = {new} /\ r = new
        BY <1>4, <2>2 DEF CompletionRecords, ReusedRecord, new
      <3>2. QED
        BY <1>2, <1>4, <2>2, <3>1 DEF Placed
    <2>3. CASE Table(c, e, Course) # <<>>
      <3>1. 1 \in DOMAIN Table(c, e, Course) /\ Len(Table(c, e, Course)) \in Nat \ {0}
        BY <2>1, <2>3
      <3>2. CompletionRecords(c, e) = {StoredRecord(c, e, 1)} /\ r = StoredRecord(c, e, 1)
        BY <1>4, <2>3 DEF CompletionRecords, ReusedRecord
      <3>3. /\ r.config = c /\ r.on = e /\ r.unit = Course /\ r.at = 1
            /\ r.owner = Table(c, e, Course)[1].config
        BY <3>2 DEF StoredRecord
      <3>4. r.owner = c
        BY <1>4, <3>1, <3>3 DEF TablesFit
      <3>5. QED
        BY <1>4, <3>1, <3>2, <3>3, <3>4 DEF Placed
    <2>4. QED
      BY <2>2, <2>3
  <1>5. CASE RecordOf[ChannelOf[c]] = "refreshed"
    <2> DEFINE D == {j \in DOMAIN Table(c, e, Course) : Table(c, e, Course)[j].config = c}
               rec(i) == [StoredRecord(c, e, i) EXCEPT !.grade = CourseGrade(c, e),
                                                       !.done = done[e]]
    <2>1. CompletionRecords(c, e) = {rec(i) : i \in D}
      BY <1>5 DEF CompletionRecords, RefreshedRecord
    <2>2. PICK i \in D : r = rec(i)
      BY <2>1
    <2>3. \A j \in D : j = i
      BY <1>5 DEF TablesFit
    <2>4. CompletionRecords(c, e) = {r}
      BY <2>1, <2>2, <2>3
    <2>5. /\ r.config = c /\ r.on = e /\ r.unit = Course /\ r.at = i
          /\ r.owner = Table(c, e, Course)[i].config
      BY <2>2 DEF StoredRecord
    <2>6. Table(c, e, Course)[i].config = c /\ i \in DOMAIN Table(c, e, Course)
      OBVIOUS
    <2>7. Placed(r)
      BY <1>5, <2>5, <2>6 DEF Placed
    <2>8. QED
      BY <1>5, <2>4, <2>5, <2>7
  <1>6. QED
    BY <1>1, <1>3, <1>4, <1>5

LEMMA AssessmentPlaced ==
    ASSUME TypeOK, NEW c \in configs, NEW e \in Enrollments, NEW r \in AssessmentRecords(c, e)
    PROVE  r.unit # Course /\ Placed(r) /\ r.config = c /\ r.on = e
  <1>1. PICK s \in Subsections : r = NewRecord(c, e, s, mark[e][s], FALSE)
    BY DEF AssessmentRecords
  <1>2. r.unit = s /\ r.config = c /\ r.owner = c /\ r.on = e
    BY <1>1 DEF NewRecord
  <1>3. r.unit # Course
    BY <1>2, NameAssumption
  <1>4. QED
    BY <1>2, <1>3 DEF Placed

LEMMA ExportPlaced ==
    ASSUME TypeOK, TablesFit, NEW t \in Tasks, NEW c \in configs, NEW e \in Enrollments,
           NEW r \in Export(t, c, e)
    PROVE  /\ Placed(r) /\ r.config = c /\ r.on = e
           /\ r.unit = Course =>
                 /\ t.kind = "completion" /\ Export(t, c, e) = {r}
                 /\ RecordOf[ChannelOf[c]] = "reused" /\ Len(Table(c, e, Course)) <= 1 =>
                       r.at = Len(Table(c, e, Course))
  <1>1. \/ t.kind = "completion" /\ Export(t, c, e) = CompletionRecords(c, e)
        \/ Export(t, c, e) = AssessmentRecords(c, e)
    BY DEF Export
  <1>2. CASE t.kind = "completion" /\ Export(t, c, e) = CompletionRecords(c, e)
    BY <1>2, CompletionPlaced
  <1>3. CASE Export(t, c, e) = AssessmentRecords(c, e)
    BY <1>3, AssessmentPlaced
  <1>4. QED
    BY <1>1, <1>2, <1>3

\* What the record that is saved is like.
LEMMA SavingFacts ==
    ASSUME TypeInv, HandsPlaced, NEW w \in Workers, Save(w), NEW r, r = task[w].current
    PROVE  /\ task[w] # Idle /\ r \in Records /\ r \in Hand(task[w]) /\ r # NoRecord
           /\ Placed(r) /\ CourseAlone(task[w]) /\ task[w].answer # "none"
           /\ r.config \in configs /\ r.owner = r.config /\ r.on \in Enrollments
  <1>1. r \in Records /\ task[w] # Idle /\ task[w].answer # "none" /\ r # NoRecord
    BY SavedTable, Zenon DEF Save, TypeInv, AnswersFit
  <1>2. r \in Hand(task[w])
    BY <1>1 DEF Hand
  <1>3. Placed(r) /\ CourseAlone(task[w])
    BY <1>1, <1>2 DEF HandsPlaced
  <1>4. r.on \in Enrollments
    BY <1>1, RecordFacts
  <1>5. QED
    BY <1>1, <1>2, <1>3, <1>4 DEF Placed

\* The row of a record of a channel that waits for the learner's click.
LEMMA PlacedRow ==
    ASSUME TypeOK, NEW r \in Records, Placed(r), r.unit = Course,
           RecordOf[ChannelOf[r.config]] = "refreshed"
    PROVE  /\ r.at # 0 /\ r.at \in DOMAIN audits[ChannelOf[r.config]][r.on][Course]
           /\ audits[ChannelOf[r.config]][r.on][Course][r.at].config = r.config
  <1>1. /\ r.at \in DOMAIN Table(r.config, r.on, Course)
        /\ Table(r.config, r.on, Course)[r.at].config = r.config
    BY DEF Placed
  <1>2. Table(r.config, r.on, Course) \in Seq(Rows)
    BY RecordFacts, TableType DEF Units
  <1>3. QED
    BY <1>1, <1>2 DEF Table

\* A channel that waits for the learner's click keeps its rows and whose they are.
LEMMA RefreshedKeeps ==
    ASSUME TypeInv, HandsPlaced, [Next]_vars, NEW ch \in Channels, NEW e \in Enrollments,
           RecordOf[ch] = "refreshed", NEW i \in DOMAIN audits[ch][e][Course]
    PROVE  /\ i \in DOMAIN audits'[ch][e][Course]
           /\ audits'[ch][e][Course][i].config = audits[ch][e][Course][i].config
  <1>0. TypeOK /\ Course \in Units /\ audits[ch][e][Course] \in Seq(Rows)
    <2>1. TypeOK /\ Course \in Units
      BY DEF TypeInv, Units
    <2>2. audits \in [Channels -> [Enrollments -> [Units -> Seq(Rows)]]]
      BY <2>1 DEF TypeOK
    <2>3. QED
      BY <2>1, <2>2
  <1>1. CASE audits' = audits
    BY <1>1
  <1>2. ASSUME NEW w \in Workers, Save(w)
        PROVE  /\ i \in DOMAIN audits'[ch][e][Course]
               /\ audits'[ch][e][Course][i].config = audits[ch][e][Course][i].config
    <2>1. PICK r \in Records : r = task[w].current
      BY <1>2, SavedTable
    <2>2. /\ Placed(r) /\ r.owner = r.config
          /\ audits'[ch][e][Course] =
                IF ch = ChannelOf[r.config] /\ e = r.on /\ Course = r.unit
                THEN WithRow(audits[ch][e][Course], r, task[w].answer)
                ELSE audits[ch][e][Course]
      BY <1>0, <1>2, <2>1, SavingFacts, SavedTable
    <2>3. CASE ch = ChannelOf[r.config] /\ e = r.on /\ Course = r.unit
      <3> DEFINE row == SavedRow(r, task[w].answer)
                 s == audits[ch][e][Course]
      <3>1. /\ r.at # 0 /\ r.at \in DOMAIN s /\ s[r.at].config = r.config /\ r.at \in Nat
        BY <1>0, <2>2, <2>3, PlacedRow, RecordFacts, Zenon
      <3>2. row \in Rows /\ row.config = r.config
        BY <2>2, SavedRowFacts
      <3> HIDE DEF row
      <3>3. audits'[ch][e][Course] = [s EXCEPT ![r.at] = row]
        BY <2>2, <2>3, <3>1, Zenon DEF WithRow, row
      <3>4. s \in Seq(Rows) /\ i \in DOMAIN s
        BY <1>0
      <3> HIDE DEF s
      <3>5. /\ DOMAIN [s EXCEPT ![r.at] = row] = DOMAIN s
            /\ [s EXCEPT ![r.at] = row][i] = IF i = r.at THEN row ELSE s[i]
        BY <3>1, <3>2, <3>4, SeqFacts
      <3>6. i \in DOMAIN audits'[ch][e][Course] /\ audits'[ch][e][Course][i].config = s[i].config
        BY <3>1, <3>2, <3>3, <3>4, <3>5
      <3>7. QED
        BY <3>6 DEF s
    <2>4. QED
      BY <2>2, <2>3
  <1>3. ASSUME NEW c \in configs, NEW d \in Enrollments, ClickThrough(c, d)
        PROVE  /\ i \in DOMAIN audits'[ch][e][Course]
               /\ audits'[ch][e][Course][i].config = audits[ch][e][Course][i].config
    <2>1. PICK row \in Rows :
             audits'[ch][e][Course] =
                IF ch = ChannelOf[c] /\ e = d THEN Append(audits[ch][e][Course], row)
                ELSE audits[ch][e][Course]
      BY <1>0, <1>3, ClickedTable
    <2>2. QED
      BY <1>0, <2>1
  <1>4. QED
    BY <1>1, <1>2, <1>3, RepeatSteps
       DEF DropStep, CollectStep, CheckStep, RefuseStep, DeliverStep, SaveStep, OutsideStep

\* A record keeps its place.
LEMMA PlacedStays ==
    ASSUME TypeInv, HandsPlaced, [Next]_vars, NEW r \in Records, Placed(r)
    PROVE  Placed(r)'
  <1>0. configs' = configs /\ TypeOK
    BY ReceivedGrows DEF TypeInv
  <1>1. r.on \in Enrollments /\ ChannelOf[r.config] \in Channels
    BY RecordFacts
  <1>2. CASE r.unit = Course /\ RecordOf[ChannelOf[r.config]] = "refreshed"
    <2>1. r.at \in DOMAIN audits[ChannelOf[r.config]][r.on][Course]
      BY <1>0, <1>2, PlacedRow
    <2>2. /\ r.at \in DOMAIN audits'[ChannelOf[r.config]][r.on][Course]
          /\ audits'[ChannelOf[r.config]][r.on][Course][r.at].config
                = audits[ChannelOf[r.config]][r.on][Course][r.at].config
      BY <1>1, <1>2, <2>1, RefreshedKeeps
    <2>3. QED
      BY <1>0, <1>2, <2>2 DEF Placed, Table
  <1>3. CASE ~(r.unit = Course /\ RecordOf[ChannelOf[r.config]] = "refreshed")
    BY <1>0, <1>3 DEF Placed
  <1>4. QED
    BY <1>2, <1>3

LEMMA CourseAloneSame ==
    ASSUME NEW t, NEW u, CourseAlone(t), u.kind = t.kind, u.records = t.records,
           u.current = t.current \/ u.current = NoRecord
    PROVE  CourseAlone(u)
  BY DEF CourseAlone

\* The records in hand stay in their places.
LEMMA HandsPlacedNext ==
    ASSUME TypeInv, HandsPlaced, TablesFit, [Next]_vars
    PROVE  HandsPlaced'
  <1>0. TypeOK /\ TypeOK'
    BY TypeInvNext DEF TypeInv
  <1>1. ASSUME NEW v \in Workers, task[v] # Idle, NEW r \in Hand(task[v])
        PROVE  Placed(r)'
    <2>1. r \in Records /\ Placed(r)
      BY <1>0, <1>1, HandType DEF HandsPlaced
    <2>2. QED
      BY <2>1, PlacedStays
  <1>2. ASSUME NEW w \in Workers, NEW t, task' = [task EXCEPT ![w] = t],
               t # Idle => CourseAlone(t) /\ \A r \in Hand(t) : Placed(r)'
        PROVE  HandsPlaced'
    <2>1. task'[w] = t /\ \A v \in Workers : v # w => task'[v] = task[v]
      BY <1>0, <1>2, TaskAfter
    <2>2. ASSUME NEW v \in Workers, task'[v] # Idle
          PROVE  CourseAlone(task'[v]) /\ \A r \in Hand(task'[v]) : Placed(r)'
      <3>1. CASE v = w
        BY <1>2, <2>1, <2>2, <3>1
      <3>2. CASE v # w
        <4>1. task'[v] = task[v] /\ task[v] # Idle /\ CourseAlone(task[v])
          BY <2>1, <2>2, <3>2 DEF HandsPlaced
        <4>2. QED
          BY <1>1, <4>1
      <3>3. QED
        BY <3>1, <3>2
    <2>3. QED
      BY <2>2 DEF HandsPlaced, CourseAlone, Hand
  <1>3. CASE DropStep
    <2>1. PICK w \in Workers, t \in Tasks \union {Idle} :
             /\ task' = [task EXCEPT ![w] = t]
             /\ t # Idle => t.records = {} /\ t.current = NoRecord
      BY <1>3 DEF DropStep
    <2>2. t # Idle => CourseAlone(t) /\ Hand(t) = {}
      BY <2>1 DEF CourseAlone, Hand
    <2>3. QED
      BY <1>2, <2>1, <2>2
  <1>4. CASE CollectStep
    <2>1. PICK w \in Workers, c \in configs, d \in Enrollments, t \in Tasks :
             /\ GoesOn(w, t) /\ t.records = Export(task[w], c, d) /\ t.current = NoRecord
             /\ audits' = audits
      BY <1>4 DEF CollectStep
    <2>2. task[w] \in Tasks /\ t.kind = task[w].kind /\ task' = [task EXCEPT ![w] = t]
      BY <1>0, <2>1, TaskFacts DEF GoesOn, SameRun
    <2>3. Hand(t) = t.records
      BY <2>1 DEF Hand
    <2>4. ASSUME NEW r \in t.records
          PROVE  Placed(r)' /\ (r.unit = Course => t.kind = "completion" /\ t.records = {r})
      <3>1. /\ Placed(r)
            /\ r.unit = Course => t.kind = "completion" /\ t.records = {r}
        BY <1>0, <2>1, <2>2, <2>4, ExportPlaced
      <3>2. configs' = configs
        BY <1>0, ReceivedGrows
      <3>3. Placed(r)'
        BY <2>1, <3>1, <3>2 DEF Placed, Table
      <3>4. QED
        BY <3>1, <3>3
    <2>5. CourseAlone(t)
      BY <2>1, <2>4 DEF CourseAlone
    <2>6. QED
      BY <1>2, <2>2, <2>3, <2>4, <2>5
  <1>5. CASE CheckStep
    <2>1. PICK w \in Workers, t \in Tasks : \E r \in task[w].records :
             /\ GoesOn(w, t) /\ task[w].current = NoRecord
             /\ t.records = task[w].records \ {r}
             /\ t.current = NoRecord \/ t.current = r
      BY <1>5 DEF CheckStep
    <2>2. /\ task[w] # Idle /\ t.kind = task[w].kind /\ task' = [task EXCEPT ![w] = t]
          /\ CourseAlone(task[w])
      BY <2>1 DEF GoesOn, SameRun, HandsPlaced
    <2>3. Hand(t) \subseteq Hand(task[w])
      BY <2>1 DEF Hand
    <2>4. CourseAlone(t)
      BY <2>1, <2>2 DEF CourseAlone
    <2>5. QED
      BY <1>1, <1>2, <2>2, <2>3, <2>4
  <1>6. CASE RefuseStep \/ DeliverStep \/ SaveStep
    <2>1. PICK w \in Workers, t \in Tasks :
             /\ GoesOn(w, t) /\ t.records = task[w].records
             /\ t.current = task[w].current \/ t.current = NoRecord
      BY <1>6 DEF RefuseStep, DeliverStep, SaveStep
    <2>2. /\ task[w] # Idle /\ t.kind = task[w].kind /\ task' = [task EXCEPT ![w] = t]
          /\ CourseAlone(task[w])
      BY <2>1 DEF GoesOn, SameRun, HandsPlaced
    <2>3. Hand(t) \subseteq Hand(task[w])
      BY <2>1 DEF Hand
    <2>4. CourseAlone(t)
      BY <2>1, <2>2, CourseAloneSame
    <2>5. QED
      BY <1>1, <1>2, <2>2, <2>3, <2>4
  <1>7. CASE OutsideStep
    <2>1. task' = task
      BY <1>7 DEF OutsideStep
    <2>2. ASSUME NEW v \in Workers, task'[v] # Idle
          PROVE  CourseAlone(task'[v]) /\ \A r \in Hand(task'[v]) : Placed(r)'
      BY <1>1, <2>1, <2>2 DEF HandsPlaced
    <2>3. QED
      BY <2>2 DEF HandsPlaced, CourseAlone, Hand
  <1>8. QED
    BY <1>3, <1>4, <1>5, <1>6, <1>7, RepeatSteps

\* Whose rows a channel has.
ReusedRows(s, c) == \A i \in DOMAIN s : s[i].config = c
OneEach(s) == \A i, j \in DOMAIN s : s[i].config = s[j].config => i = j

LEMMA TablesFitNext ==
    ASSUME TypeInv, HandsPlaced, TablesFit, OnePerReusing, [Next]_vars
    PROVE  TablesFit'
  <1>0. TypeOK /\ configs' = configs
    BY ReceivedGrows DEF TypeInv
  <1> SUFFICES ASSUME NEW c \in configs, NEW e \in Enrollments
               PROVE  /\ RecordOf[ChannelOf[c]] = "reused" =>
                            ReusedRows(audits'[ChannelOf[c]][e][Course], c)
                      /\ RecordOf[ChannelOf[c]] = "refreshed" =>
                            OneEach(audits'[ChannelOf[c]][e][Course])
    BY <1>0 DEF TablesFit, Table, ReusedRows, OneEach
  <1> DEFINE ch == ChannelOf[c]
             s == audits[ch][e][Course]
             new == audits'[ch][e][Course]
  <1>1. /\ RecordOf[ch] = "reused" => ReusedRows(s, c)
        /\ RecordOf[ch] = "refreshed" => OneEach(s)
    BY DEF TablesFit, Table, ReusedRows, OneEach
  <1>2. c \in Configs /\ ch \in Channels /\ Course \in Units /\ configs \in Deployments
    BY <1>0, ConfigFacts DEF Units
  <1>3. s \in Seq(Rows)
    <2>1. audits \in [Channels -> [Enrollments -> [Units -> Seq(Rows)]]]
      BY <1>0 DEF TypeOK
    <2>2. QED
      BY <1>2, <2>1
  <1>4. CASE audits' = audits
    BY <1>1, <1>4
  <1>5. ASSUME NEW w \in Workers, Save(w)
        PROVE  /\ RecordOf[ch] = "reused" => ReusedRows(new, c)
               /\ RecordOf[ch] = "refreshed" => OneEach(new)
    <2>1. PICK r \in Records : r = task[w].current
      BY <1>5, SavedTable
    <2>2. /\ Placed(r) /\ r.owner = r.config /\ r.config \in configs /\ r.at \in Nat
          /\ new = IF ch = ChannelOf[r.config] /\ e = r.on /\ Course = r.unit
                   THEN WithRow(s, r, task[w].answer)
                   ELSE s
      BY <1>2, <1>5, <2>1, SavingFacts, SavedTable, RecordFacts
    <2>3. CASE ch = ChannelOf[r.config] /\ e = r.on /\ Course = r.unit
      <3> DEFINE row == SavedRow(r, task[w].answer)
      <3>1. row \in Rows /\ row.config = r.config
        BY <2>2, SavedRowFacts
      <3>2. new = IF r.at = 0 THEN Append(s, row) ELSE [s EXCEPT ![r.at] = row]
        BY <2>2, <2>3 DEF WithRow
      <3> HIDE DEF row, new, ch
      <3>3. CASE RecordOf[ch] = "reused"
        <4>1. row.config = c
          BY <1>2, <2>2, <2>3, <3>1, <3>3 DEF OnePerReusing, ch
        <4>2. ReusedRows(s, c)
          BY <1>1, <3>3
        <4> HIDE DEF s
        <4>3. CASE r.at = 0
          <5>1. new = Append(s, row)
            BY <3>2, <4>3
          <5>2. /\ DOMAIN new = 1..(Len(s) + 1) /\ DOMAIN s = 1..Len(s) /\ Len(s) \in Nat
                /\ \A j \in 1..(Len(s) + 1) : new[j] = IF j = Len(s) + 1 THEN row ELSE s[j]
            BY <1>3, <3>1, <5>1, SeqFacts
          <5>3. QED
            BY <3>3, <4>1, <4>2, <5>2 DEF ReusedRows
        <4>4. CASE r.at # 0
          <5>1. new = [s EXCEPT ![r.at] = row]
            BY <3>2, <4>4
          <5>2. /\ DOMAIN new = DOMAIN s
                /\ \A j \in DOMAIN s : new[j] = IF j = r.at THEN row ELSE s[j]
            BY <1>3, <2>2, <3>1, <5>1, SeqFacts
          <5>3. QED
            BY <3>3, <4>1, <4>2, <5>2 DEF ReusedRows
        <4>5. QED
          BY <4>3, <4>4
      <3>4. CASE RecordOf[ch] = "refreshed"
        <4>1. r.at # 0 /\ r.at \in DOMAIN s /\ s[r.at].config = r.config
          BY <1>0, <2>2, <2>3, <3>4, PlacedRow, Zenon DEF ch
        <4>2. OneEach(s)
          BY <1>1, <3>4
        <4> HIDE DEF s
        <4>3. new = [s EXCEPT ![r.at] = row]
          BY <3>2, <4>1
        <4>4. /\ DOMAIN new = DOMAIN s
              /\ \A j \in DOMAIN s : new[j] = IF j = r.at THEN row ELSE s[j]
          BY <1>3, <2>2, <3>1, <4>3, SeqFacts
        <4>5. \A j \in DOMAIN s : new[j].config = s[j].config
          BY <3>1, <4>1, <4>4
        <4>6. QED
          BY <3>4, <4>2, <4>4, <4>5 DEF OneEach
      <3>5. QED
        BY <3>3, <3>4
    <2>4. QED
      BY <1>1, <2>2, <2>3
  <1>6. ASSUME NEW a \in configs, NEW d \in Enrollments, ClickThrough(a, d)
        PROVE  /\ RecordOf[ch] = "reused" => ReusedRows(new, c)
               /\ RecordOf[ch] = "refreshed" => OneEach(new)
    <2>1. PICK row \in Rows :
             /\ row.config = a
             /\ new = IF ch = ChannelOf[a] /\ e = d THEN Append(s, row) ELSE s
      BY <1>0, <1>2, <1>6, ClickedTable
    <2>2. CASE ch = ChannelOf[a] /\ e = d
      <3>1. RecordOf[ch] = "refreshed" /\ s = <<>>
        BY <1>6, <2>2 DEF ClickThrough, Table
      <3>2. OneEach(s) /\ new = Append(s, row)
        BY <1>1, <2>1, <2>2, <3>1
      <3> HIDE DEF new, s, ch
      <3>3. /\ DOMAIN new = 1..(Len(s) + 1) /\ DOMAIN s = 1..Len(s) /\ Len(s) \in Nat
            /\ \A j \in 1..(Len(s) + 1) : new[j] = IF j = Len(s) + 1 THEN row ELSE s[j]
        BY <1>3, <2>1, <3>2, SeqFacts
      <3>4. \A j \in 1..(Len(s) + 1) : j = Len(s) + 1 \/ j \in DOMAIN s
        BY <3>3
      <3>5. OneEach(new)
        BY <2>1, <3>1, <3>2, <3>3, <3>4 DEF OneEach
      <3>6. QED
        BY <3>1, <3>5
    <2>3. CASE ~(ch = ChannelOf[a] /\ e = d)
      <3>1. new = s
        BY <2>1, <2>3
      <3> HIDE DEF new, s, ch
      <3>2. QED
        BY <1>1, <3>1
    <2>4. QED
      BY <2>2, <2>3
  <1>7. QED
    BY <1>4, <1>5, <1>6, RepeatSteps
       DEF DropStep, CollectStep, CheckStep, RefuseStep, DeliverStep, SaveStep, OutsideStep

-----------------------------------------------------------------------------
(* An enrollment that nothing has disturbed                                *)

\* A worker that has come to hold records of an enrollment has collected them.
LEMMA HoldsBefore ==
    ASSUME TypeInv, NEW e \in Enrollments, [Next]_vars, ~CollectStep,
           NEW v \in Workers, Holds(v, e)'
    PROVE  Holds(v, e) /\ Hand(task'[v]) \subseteq Hand(task[v])
  <1>0. TypeOK
    BY DEF TypeInv
  <1>1. task'[v] # Idle /\ \E r \in Hand(task'[v]) : r.on = e
    BY DEF Holds, Hand
  <1>2. ASSUME NEW w \in Workers, NEW t, task' = [task EXCEPT ![w] = t],
               t # Idle /\ Hand(t) # {} => task[w] # Idle /\ Hand(t) \subseteq Hand(task[w])
        PROVE  task[v] # Idle /\ Hand(task'[v]) \subseteq Hand(task[v])
    <2>1. task'[w] = t /\ (v # w => task'[v] = task[v])
      BY <1>0, <1>2, TaskAfter
    <2>2. QED
      BY <1>1, <1>2, <2>1
  <1>3. CASE DropStep
    <2>1. PICK w \in Workers, t \in Tasks \union {Idle} :
             /\ task' = [task EXCEPT ![w] = t]
             /\ t # Idle => t.records = {} /\ t.current = NoRecord
      BY <1>3 DEF DropStep
    <2>2. t # Idle => Hand(t) = {}
      BY <2>1 DEF Hand
    <2>3. QED
      BY <1>1, <1>2, <2>1, <2>2 DEF Holds
  <1>4. CASE CheckStep
    <2>1. PICK w \in Workers, t \in Tasks : \E r \in task[w].records :
             /\ GoesOn(w, t) /\ t.records = task[w].records \ {r}
             /\ t.current = NoRecord \/ t.current = r
      BY <1>4 DEF CheckStep
    <2>2. /\ Hand(t) \subseteq Hand(task[w]) /\ task[w] # Idle
          /\ task' = [task EXCEPT ![w] = t]
      BY <2>1 DEF Hand, GoesOn
    <2>3. QED
      BY <1>1, <1>2, <2>2 DEF Holds
  <1>5. CASE RefuseStep \/ DeliverStep \/ SaveStep
    <2>1. PICK w \in Workers, t \in Tasks :
             /\ GoesOn(w, t) /\ t.records = task[w].records
             /\ t.current = task[w].current \/ t.current = NoRecord
      BY <1>5 DEF RefuseStep, DeliverStep, SaveStep
    <2>2. /\ Hand(t) \subseteq Hand(task[w]) /\ task[w] # Idle
          /\ task' = [task EXCEPT ![w] = t]
      BY <2>1 DEF Hand, GoesOn
    <2>3. QED
      BY <1>1, <1>2, <2>2 DEF Holds
  <1>6. CASE OutsideStep
    <2>1. task' = task
      BY <1>6 DEF OutsideStep
    <2>2. QED
      BY <1>1, <2>1 DEF Holds
  <1>7. QED
    BY <1>3, <1>4, <1>5, <1>6, RepeatSteps

\* What one worker may collect, no other holds.
LEMMA OneHolderNext ==
    ASSUME TypeInv, HandsPlaced, TablesFit, [Next]_vars, NEW e \in Enrollments,
           ~history'[e].disturbed, OneHolder(e)
    PROVE  OneHolder(e)'
  <1>0. TypeOK
    BY DEF TypeInv
  <1>1. CASE ~CollectStep
    <2>1. \A v \in Workers : Holds(v, e)' => Holds(v, e)
      BY <1>1, HoldsBefore
    <2>2. QED
      BY <2>1 DEF OneHolder
  <1>2. CASE CollectStep
    <2>1. PICK w \in Workers, c \in configs, d \in Enrollments, t \in Tasks :
             /\ GoesOn(w, t)
             /\ t.records = Export(task[w], c, d) /\ t.current = NoRecord
             /\ e = d => \A v \in Workers \ {w} : ~Holds(v, e)
      BY <1>2 DEF CollectStep
    <2>2. /\ task'[w] = t /\ task[w] # Idle /\ task[w] \in Tasks
          /\ \A v \in Workers : v # w => task'[v] = task[v]
      BY <1>0, <2>1, TaskAfter, TaskFacts DEF GoesOn
    <2>3. \A v \in Workers : v # w => (Holds(v, e)' <=> Holds(v, e))
      BY <2>2 DEF Holds, Hand
    <2>4. ASSUME Holds(w, e)'
          PROVE  e = d
      <3>1. PICK r \in t.records : r.on = e
        BY <2>1, <2>2, <2>4 DEF Holds, Hand
      <3>2. r.on = d
        BY <1>0, <2>1, <2>2, <3>1, ExportPlaced
      <3>3. QED
        BY <3>1, <3>2
    <2>5. QED
      BY <2>1, <2>3, <2>4 DEF OneHolder
  <1>3. QED
    BY <1>1, <1>2

\* Who sends a report holds the record.
LEMMA SenderHolds ==
    ASSUME NEW w \in Workers, NEW e, Sends(w, e)
    PROVE  Holds(w, e) /\ task[w].current \in Hand(task[w])
  BY DEF Sends, Holds, Hand

\* The one row of a channel that takes what row there is.
LEMMA OneRowNext ==
    ASSUME TypeInv, HandsPlaced, TablesFit, OnePerReusing, [Next]_vars, NEW e \in Enrollments,
           ~history'[e].disturbed, OneHolder(e), OneRow(e)
    PROVE  OneRow(e)'
  <1>0. TypeOK /\ configs' = configs
    BY ReceivedGrows DEF TypeInv
  <1> SUFFICES ASSUME NEW c \in configs, RecordOf[ChannelOf[c]] = "reused"
               PROVE  /\ Len(audits'[ChannelOf[c]][e][Course]) <= 1
                      /\ \A v \in Workers : task'[v] # Idle =>
                            \A r \in Hand(task'[v]) :
                               r.config = c /\ r.on = e /\ r.unit = Course =>
                                  r.at = Len(audits'[ChannelOf[c]][e][Course])
    BY <1>0 DEF OneRow, Table, Hand
  <1> DEFINE ch == ChannelOf[c]
             s == audits[ch][e][Course]
             new == audits'[ch][e][Course]
  <1>1. c \in Configs /\ ch \in Channels /\ Course \in Units /\ configs \in Deployments
    BY <1>0, ConfigFacts DEF Units
  <1>2. s \in Seq(Rows)
    <2>1. audits \in [Channels -> [Enrollments -> [Units -> Seq(Rows)]]]
      BY <1>0 DEF TypeOK
    <2>2. QED
      BY <1>1, <2>1
  <1>3. /\ Len(s) <= 1
        /\ \A v \in Workers : task[v] # Idle =>
              \A r \in Hand(task[v]) :
                 r.config = c /\ r.on = e /\ r.unit = Course => r.at = Len(s)
    BY DEF OneRow, Table
  <1>4. CASE CollectStep
    <2>1. PICK w \in Workers, a \in configs, d \in Enrollments, t \in Tasks :
             /\ GoesOn(w, t)
             /\ t.records = Export(task[w], a, d) /\ t.current = NoRecord
             /\ audits' = audits
      BY <1>4 DEF CollectStep
    <2>2. /\ task'[w] = t /\ task[w] # Idle /\ task[w] \in Tasks
          /\ \A v \in Workers : v # w => task'[v] = task[v]
      BY <1>0, <2>1, TaskAfter, TaskFacts DEF GoesOn
    <2>3. ASSUME NEW r \in Hand(t), r.config = c, r.on = e, r.unit = Course
          PROVE  r.at = Len(s)
      <3>1. r \in Export(task[w], a, d)
        BY <2>1 DEF Hand
      <3>2. /\ r.config = a /\ r.on = d
            /\ RecordOf[ChannelOf[a]] = "reused" /\ Len(Table(a, d, Course)) <= 1 =>
                  r.at = Len(Table(a, d, Course))
        BY <1>0, <2>2, <2>3, <3>1, ExportPlaced
      <3>3. a = c /\ d = e
        BY <2>3, <3>2
      <3>4. Table(a, d, Course) = s
        BY <3>3 DEF Table
      <3>5. QED
        BY <1>3, <3>2, <3>3, <3>4
    <2>4. new = s
      BY <2>1
    <2> HIDE DEF new, s, ch
    <2>5. ASSUME NEW v \in Workers, task'[v] # Idle, NEW r \in Hand(task'[v]),
                 r.config = c, r.on = e, r.unit = Course
          PROVE  r.at = Len(new)
      <3>1. CASE v = w
        BY <2>2, <2>3, <2>4, <2>5, <3>1
      <3>2. CASE v # w
        BY <1>3, <2>2, <2>4, <2>5, <3>2
      <3>3. QED
        BY <3>1, <3>2
    <2>6. Len(new) <= 1
      BY <1>3, <2>4
    <2>7. QED
      BY <2>5, <2>6 DEF new, ch
  <1>5. CASE ~CollectStep /\ new = s
    <2> HIDE DEF new, s, ch
    <2>1. ASSUME NEW v \in Workers, task'[v] # Idle, NEW r \in Hand(task'[v]),
                 r.config = c, r.on = e, r.unit = Course
          PROVE  r.at = Len(new)
      <3>1. Holds(v, e)'
        BY <2>1 DEF Holds, Hand
      <3>2. task[v] # Idle /\ r \in Hand(task[v])
        BY <1>5, <2>1, <3>1, HoldsBefore DEF Holds
      <3>3. QED
        BY <1>3, <1>5, <2>1, <3>2
    <2>2. Len(new) <= 1
      BY <1>3, <1>5
    <2>3. QED
      BY <2>1, <2>2 DEF new, ch
  <1>6. ASSUME NEW w \in Workers, NEW t \in Tasks, Save(w), GoesOn(w, t),
               t.records = task[w].records, t.current = NoRecord, new # s, ~CollectStep
        PROVE  /\ Len(new) <= 1
               /\ \A v \in Workers : task'[v] # Idle =>
                     \A r \in Hand(task'[v]) : r.on # e
    <2>1. PICK r \in Records : r = task[w].current
      BY <1>6, SavedTable
    <2>2. /\ task[w] # Idle /\ r \in Hand(task[w]) /\ r # NoRecord /\ CourseAlone(task[w])
          /\ r.config \in configs /\ r.at \in Nat
          /\ ch = ChannelOf[r.config] /\ e = r.on /\ Course = r.unit
          /\ new = WithRow(s, r, task[w].answer)
      BY <1>1, <1>6, <2>1, SavingFacts, SavedTable, RecordFacts
    <2>3. r.config = c
      BY <1>1, <2>2 DEF OnePerReusing
    <2>4. r.at = Len(s)
      BY <1>3, <2>2, <2>3
    <2>5. SavedRow(r, task[w].answer) \in Rows
      BY SavedRowType
    <2>6. Len(new) <= 1
      <3> DEFINE row == SavedRow(r, task[w].answer)
      <3>1. row \in Rows /\ new = IF r.at = 0 THEN Append(s, row) ELSE [s EXCEPT ![r.at] = row]
        BY <2>2, <2>5 DEF WithRow
      <3> HIDE DEF row, s, new
      <3>2. CASE r.at = 0
        <4>1. new = Append(s, row) /\ Len(s) = 0
          BY <2>4, <3>1, <3>2
        <4>2. Len(new) = 1
          BY <1>2, <3>1, <4>1, AppendProperties
        <4>3. QED
          BY <4>2
      <3>3. CASE r.at # 0
        <4>1. new = [s EXCEPT ![r.at] = row] /\ Len(s) = r.at /\ r.at \in 1..Len(s)
          BY <1>2, <2>2, <2>4, <3>1, <3>3
        <4>2. Len(new) = Len(s)
          BY <1>2, <3>1, <4>1, ExceptSeq
        <4>3. QED
          BY <1>3, <4>2
      <3>4. QED
        BY <3>2, <3>3
    <2>7. Holds(w, e)
      BY <2>2 DEF Holds
    <2>8. task[w].records = {}
      BY <2>1, <2>2 DEF CourseAlone
    <2>9. task'[w] = t
      BY <1>0, <1>6, TaskAfter DEF GoesOn
    <2>10. ASSUME NEW v \in Workers, task'[v] # Idle, NEW x \in Hand(task'[v]), x.on = e
           PROVE  FALSE
      <3>1. Holds(v, e)'
        BY <2>10 DEF Holds, Hand
      <3>2. Holds(v, e)
        BY <1>6, <3>1, HoldsBefore
      <3>3. v = w
        BY <2>7, <3>2 DEF OneHolder
      <3>4. QED
        BY <1>6, <2>8, <2>9, <2>10, <3>3 DEF Hand
    <2>11. QED
      BY <2>6, <2>10
  <1>7. CASE SaveStep /\ new # s /\ ~CollectStep
    <2>1. PICK w \in Workers, t \in Tasks :
             Save(w) /\ GoesOn(w, t) /\ t.records = task[w].records /\ t.current = NoRecord
      BY <1>7 DEF SaveStep
    <2>2. /\ Len(new) <= 1
          /\ \A v \in Workers : task'[v] # Idle => \A r \in Hand(task'[v]) : r.on # e
      BY <1>6, <1>7, <2>1
    <2>3. QED
      BY <2>2
  <1>8. CASE OutsideStep /\ new # s
    <2>1. ASSUME NEW a \in configs, NEW d \in Enrollments, ClickThrough(a, d)
          PROVE  FALSE
      <3>1. PICK row \in Rows :
               new = IF ch = ChannelOf[a] /\ e = d THEN Append(s, row) ELSE s
        BY <1>0, <1>1, <2>1, ClickedTable
      <3>2. RecordOf[ChannelOf[a]] = "refreshed"
        BY <2>1 DEF ClickThrough
      <3>3. QED
        BY <1>8, <3>1, <3>2
    <2>2. QED
      BY <1>8, <2>1 DEF OutsideStep
  <1>9. QED
    <2>1. CollectStep \/ new = s \/ SaveStep \/ OutsideStep
      BY RepeatSteps DEF DropStep, CheckStep, RefuseStep, DeliverStep
    <2>2. QED
      BY <1>4, <1>5, <1>7, <1>8, <2>1

\* What is transmitted, read from the table of the channel, now and after a step.
LEMMA TableDecides ==
    ASSUME NEW c, NEW e, NEW g
    PROVE  /\ IsAlreadyTransmitted(c, e, Course, g)
                 <=> TransmittedIn(audits[ChannelOf[c]][e][Course], c, g)
           /\ IsAlreadyTransmitted(c, e, Course, g)'
                 <=> TransmittedIn(audits'[ChannelOf[c]][e][Course], c, g)
  BY DEF IsAlreadyTransmitted, IsLatestSent, SentRows, Table, TransmittedIn, SentIn, SentRow

\* A worker saves the accepted report of the enrollment to this configuration.
SavesOk(c, e) ==
    \E w \in Workers :
        /\ Save(w) /\ Sends(w, e) /\ task[w].answer = "ok" /\ task[w].current.config = c

\* Any other step leaves what is transmitted as it is.
LEMMA TransmittedStays ==
    ASSUME TypeInv, HandsPlaced, TablesFit, OnePerReusing, [Next]_vars, NEW e \in Enrollments,
           ~history'[e].disturbed, OneRow(e), NEW c \in configs, ~SavesOk(c, e), NEW g
    PROVE  IsAlreadyTransmitted(c, e, Course, g)' <=> IsAlreadyTransmitted(c, e, Course, g)
  <1>0. TypeOK
    BY DEF TypeInv
  <1> DEFINE ch == ChannelOf[c]
             s == audits[ch][e][Course]
             new == audits'[ch][e][Course]
  <1> SUFFICES TransmittedIn(new, c, g) <=> TransmittedIn(s, c, g)
    BY TableDecides
  <1>1. c \in Configs /\ ch \in Channels /\ Course \in Units /\ configs \in Deployments
    BY <1>0, ConfigFacts DEF Units
  <1>2. s \in Seq(Rows)
    <2>1. audits \in [Channels -> [Enrollments -> [Units -> Seq(Rows)]]]
      BY <1>0 DEF TypeOK
    <2>2. QED
      BY <1>1, <2>1
  <1>3. CASE new = s
    <2> HIDE DEF new, s
    <2>1. QED
      BY <1>3
  <1>4. CASE SaveStep /\ new # s
    <2>1. PICK w \in Workers :
             /\ Save(w)
             /\ e = task[w].current.on /\ task[w].current.at # 0 /\ task[w].answer # "ok" =>
                   ~Table(task[w].current.config, e, task[w].current.unit)
                       [task[w].current.at].sent
      BY <1>4 DEF SaveStep
    <2>2. PICK r \in Records : r = task[w].current
      BY <2>1, SavedTable
    <2>3. /\ task[w] # Idle /\ r # NoRecord /\ Placed(r)
          /\ r.config \in configs /\ r.owner = r.config /\ r.at \in Nat
          /\ ch = ChannelOf[r.config] /\ e = r.on /\ Course = r.unit
          /\ new = WithRow(s, r, task[w].answer)
      BY <1>1, <1>4, <2>1, <2>2, SavingFacts, SavedTable, RecordFacts
    <2> DEFINE row == SavedRow(r, task[w].answer)
    <2>4. /\ row \in Rows /\ row.config = r.config
          /\ row.sent <=> task[w].answer = "ok"
      BY <2>3, SavedRowFacts
    <2>5. new = IF r.at = 0 THEN Append(s, row) ELSE [s EXCEPT ![r.at] = row]
      BY <2>3 DEF WithRow
    <2>6. /\ ~SentRow(row, c)
          /\ r.at # 0 /\ r.at \in DOMAIN s => ~SentRow(s[r.at], c)
      <3> HIDE DEF row
      <3>1. CASE task[w].answer # "ok"
        <4>1. ~SentRow(row, c)
          BY <2>4, <3>1 DEF SentRow
        <4>2. r.at # 0 => ~s[r.at].sent
          BY <2>1, <2>2, <2>3, <3>1, Zenon DEF Table
        <4>3. QED
          BY <4>1, <4>2 DEF SentRow
      <3>2. CASE task[w].answer = "ok"
        <4>1. r.config # c
          BY <2>1, <2>2, <2>3, <3>2 DEF SavesOk, Sends
        <4>2. RecordOf[ch] # "reused" /\ RecordOf[ch] \in {"reused", "refreshed", "fresh"}
          BY <1>0, <1>1, <2>3, <4>1, ConfigFacts DEF OnePerReusing
        <4>3. ~SentRow(row, c)
          BY <2>4, <4>1 DEF SentRow
        <4>4. RecordOf[ch] = "fresh" => r.at = 0
          BY <2>3 DEF Placed
        <4>5. RecordOf[ch] = "refreshed" => s[r.at].config = r.config
          BY <1>0, <2>3, PlacedRow, Zenon
        <4> HIDE DEF s
        <4>6. QED
          BY <4>1, <4>2, <4>3, <4>4, <4>5 DEF SentRow
      <3>3. QED
        BY <3>1, <3>2
    <2> HIDE DEF row, new, s
    <2>7. CASE r.at = 0
      BY <1>2, <2>4, <2>5, <2>6, <2>7, AppendUnsent
    <2>8. CASE r.at # 0
      <3>1. PICK k \in Nat : k = r.at
        BY <2>3
      <3>2. /\ ~SentRow(row, c) /\ row \in Rows /\ new = [s EXCEPT ![k] = row]
            /\ k \in DOMAIN s => ~SentRow(s[k], c)
        BY <2>4, <2>5, <2>6, <2>8, <3>1
      <3>3. QED
        BY <1>2, <3>2, ReplaceUnsent
    <2>9. QED
      BY <2>7, <2>8
  <1>5. CASE OutsideStep /\ new # s
    <2>1. ASSUME NEW a \in configs, NEW d \in Enrollments, ClickThrough(a, d)
          PROVE  TransmittedIn(new, c, g) <=> TransmittedIn(s, c, g)
      <3>1. PICK row \in Rows :
               /\ ~row.sent
               /\ new = IF ch = ChannelOf[a] /\ e = d THEN Append(s, row) ELSE s
        BY <1>0, <1>1, <2>1, ClickedTable
      <3>2. new = Append(s, row) /\ ~SentRow(row, c)
        BY <1>5, <3>1 DEF SentRow
      <3> HIDE DEF new, s
      <3>3. QED
        BY <1>2, <3>2, AppendUnsent
    <2>2. QED
      BY <1>5, <2>1 DEF OutsideStep
  <1>6. QED
    BY <1>3, <1>4, <1>5, RepeatSteps
       DEF DropStep, CollectStep, CheckStep, RefuseStep, DeliverStep, OutsideStep

\* Saving the accepted report marks it as sent.
LEMMA SaveTransmits ==
    ASSUME TypeInv, HandsPlaced, TablesFit, NEW e \in Enrollments, OneRow(e),
           NEW w \in Workers, Save(w), Sends(w, e), task[w].answer = "ok",
           NEW r \in Records, r = task[w].current
    PROVE  IsAlreadyTransmitted(r.config, e, Course, r.grade)'
  <1>0. TypeOK
    BY DEF TypeInv
  <1> DEFINE c == r.config
             ch == ChannelOf[c]
             s == audits[ch][e][Course]
             new == audits'[ch][e][Course]
             row == SavedRow(r, task[w].answer)
  <1>2. /\ task[w] # Idle /\ r \in Hand(task[w]) /\ Placed(r) /\ c \in configs /\ r.owner = c
        /\ r.at \in Nat /\ e = r.on /\ Course = r.unit
        /\ ch \in Channels /\ Course \in Units
        /\ RecordOf[ch] \in {"reused", "refreshed", "fresh"}
    BY <1>0, SavingFacts, RecordFacts, ConfigFacts DEF Sends, Units
  <1>3. new = WithRow(s, r, task[w].answer)
    BY <1>2, SavedTable
  <1>4. s \in Seq(Rows)
    <2>1. audits \in [Channels -> [Enrollments -> [Units -> Seq(Rows)]]]
      BY <1>0 DEF TypeOK
    <2>2. QED
      BY <1>2, <2>1
  <1>5. row \in Rows /\ row.grade = r.grade /\ SentRow(row, c)
    BY <1>2, SavedRowFacts DEF SentRow
  <1>6. new = IF r.at = 0 THEN Append(s, row) ELSE [s EXCEPT ![r.at] = row]
    BY <1>3, Zenon DEF WithRow
  <1>7. r.at # 0 => /\ r.at \in DOMAIN s
                    /\ \A j \in DOMAIN s : j # r.at => ~SentRow(s[j], c)
    <2>1. CASE RecordOf[ch] = "fresh"
      BY <1>2, <2>1, Zenon DEF Placed
    <2>2. CASE RecordOf[ch] = "reused"
      <3>1. r.at = Len(s) /\ Len(s) <= 1
        BY <1>2, <2>2 DEF OneRow, Table
      <3> HIDE DEF s
      <3>2. QED
        BY <1>2, <1>4, <3>1
    <2>3. CASE RecordOf[ch] = "refreshed"
      <3>1. r.at \in DOMAIN s /\ s[r.at].config = c
        BY <1>0, <1>2, <2>3, PlacedRow, Zenon
      <3>2. \A i, j \in DOMAIN s : s[i].config = s[j].config => i = j
        <4>1. PICK a \in configs : a = c
          BY <1>2
        <4>2. OneEach(audits[ChannelOf[a]][e][Course])
          BY <2>3, <4>1, Zenon DEF TablesFit, Table, OneEach
        <4>3. QED
          BY <4>1, <4>2, Zenon DEF OneEach
      <3> HIDE DEF s, c
      <3>3. QED
        BY <3>1, <3>2 DEF SentRow
    <2>4. QED
      BY <1>2, <2>1, <2>2, <2>3, Zenon
  <1>8. TransmittedIn(new, c, r.grade)
    <2> HIDE DEF new, row, s, c
    <2>1. TransmittedIn(new, c, row.grade)
      BY <1>2, <1>4, <1>5, <1>6, <1>7, AppendSent, ReplaceSent
    <2>2. QED
      BY <1>5, <2>1
  <1>9. QED
    BY <1>8, TableDecides

-----------------------------------------------------------------------------
(* Reports                                                                 *)

\* A report is about to be sent, or was sent, before the step, or has just been
\* taken up.
LEMMA SendsBefore ==
    ASSUME TypeInv, NEW e \in Enrollments, [Next]_vars, NEW v \in Workers, Sends(v, e)'
    PROVE  \/ /\ Sends(v, e) /\ task'[v].current = task[v].current
              /\ \/ task'[v].answer = task[v].answer
                 \/ task[v].answer = "none" /\ task'[v].answer # "none"
           \/ /\ audits' = audits /\ task[v] # Idle /\ task[v].current = NoRecord
              /\ task'[v].current \in task[v].records
              /\ ToSend(task[v], task'[v].current) /\ task'[v].answer = task[v].answer
  <1>0. TypeOK
    BY DEF TypeInv
  <1>1. /\ task'[v] # Idle /\ task'[v].current # NoRecord
        /\ task'[v].current.on = e /\ task'[v].current.unit = Course
    BY DEF Sends
  <1>2. ASSUME task'[v] = task[v]
        PROVE  Sends(v, e) /\ task'[v].current = task[v].current
                  /\ task'[v].answer = task[v].answer
    BY <1>1, <1>2 DEF Sends
  <1>3. ASSUME NEW w \in Workers, NEW t, task' = [task EXCEPT ![w] = t]
        PROVE  (v = w /\ task'[v] = t) \/ task'[v] = task[v]
    BY <1>0, <1>3, TaskAfter
  <1>4. CASE DropStep
    <2>1. PICK w \in Workers, t \in Tasks \union {Idle} :
             task' = [task EXCEPT ![w] = t] /\ (t # Idle => t.current = NoRecord)
      BY <1>4 DEF DropStep
    <2>2. task'[v] = task[v]
      BY <1>1, <1>3, <2>1
    <2>3. QED
      BY <1>2, <2>2
  <1>5. CASE CollectStep \/ SaveStep
    <2>1. PICK w \in Workers, t \in Tasks : task' = [task EXCEPT ![w] = t] /\ t.current = NoRecord
      BY <1>5 DEF CollectStep, SaveStep, GoesOn
    <2>2. task'[v] = task[v]
      BY <1>1, <1>3, <2>1
    <2>3. QED
      BY <1>2, <2>2
  <1>6. CASE CheckStep
    <2>1. PICK w \in Workers, t \in Tasks : \E r \in task[w].records :
             /\ task[w] # Idle /\ task' = [task EXCEPT ![w] = t]
             /\ task[w].current = NoRecord
             /\ t.current = NoRecord \/ (t.current = r /\ ToSend(task[w], r))
             /\ t.answer = task[w].answer /\ audits' = audits
      BY <1>6 DEF CheckStep, GoesOn
    <2>2. CASE task'[v] = task[v]
      BY <1>2, <2>2
    <2>3. CASE v = w /\ task'[v] = t
      BY <1>1, <2>1, <2>3
    <2>4. QED
      BY <1>3, <2>1, <2>2, <2>3
  <1>7. CASE RefuseStep \/ DeliverStep
    <2>1. PICK w \in Workers, t \in Tasks :
             /\ task[w] # Idle /\ task' = [task EXCEPT ![w] = t]
             /\ t.current = task[w].current /\ task[w].answer = "none" /\ t.answer # "none"
      BY <1>7 DEF RefuseStep, DeliverStep, GoesOn
    <2>2. CASE task'[v] = task[v]
      BY <1>2, <2>2
    <2>3. CASE v = w /\ task'[v] = t
      BY <1>1, <2>1, <2>3 DEF Sends
    <2>4. QED
      BY <1>3, <2>1, <2>2, <2>3
  <1>8. CASE OutsideStep
    BY <1>2, <1>8 DEF OutsideStep
  <1>9. QED
    BY <1>4, <1>5, <1>6, <1>7, <1>8, RepeatSteps

\* The record of a report.
LEMMA SentRecord ==
    ASSUME TypeInv, HandsPlaced, NEW w \in Workers, NEW e \in Enrollments, Sends(w, e),
           NEW r, r = task[w].current
    PROVE  /\ r \in Records /\ r # NoRecord /\ r \in Hand(task[w]) /\ r.config \in configs
           /\ r.config \in Configs /\ r.on = e /\ r.unit = Course
           /\ Report(r) # NoReport /\ Report(r).grade = r.grade
  <1>1. /\ task[w] # Idle /\ r \in Hand(task[w]) /\ r # NoRecord /\ r.on = e /\ r.unit = Course
    BY DEF Sends, Hand
  <1>2. r \in Records /\ Placed(r)
    BY <1>1, HandType DEF HandsPlaced, TypeInv
  <1>3. r.config \in configs /\ r.config \in Configs
    BY <1>2, ConfigFacts DEF Placed, TypeInv
  <1>4. DOMAIN Report(r) # DOMAIN NoReport
    BY DEF Report, NoReport
  <1>5. Report(r) # NoReport
    BY <1>4
  <1>6. Report(r).grade = r.grade
    BY DEF Report
  <1>7. QED
    BY <1>1, <1>2, <1>3, <1>5, <1>6

\* What is about to be sent has been looked up, and nobody else can send it.
LEMMA NotSentNext ==
    ASSUME TypeInv, HandsPlaced, TablesFit, OnePerReusing, [Next]_vars, NEW e \in Enrollments,
           ~history'[e].disturbed, Undisturbed(e)
    PROVE  NotSent(e)'
  <1>1. ASSUME NEW v \in Workers, Sends(v, e)', task'[v].answer = "none",
               NEW r, r = task'[v].current
        PROVE  ~IsAlreadyTransmitted(r.config, e, Course, r.grade)'
    <2>1. CASE Sends(v, e) /\ task'[v].current = task[v].current /\ task[v].answer = "none"
      <3>1. r = task[v].current
        BY <1>1, <2>1
      <3>2. r.config \in configs
        BY <2>1, <3>1, SentRecord
      <3>3. ~IsAlreadyTransmitted(r.config, e, Course, r.grade)
        BY <2>1, <3>1 DEF Undisturbed, NotSent
      <3>4. ~SavesOk(r.config, e)
        BY <2>1, SenderHolds DEF SavesOk, Undisturbed, OneHolder
      <3> DEFINE c == r.config
                 g == r.grade
      <3>5. c \in configs /\ ~SavesOk(c, e) /\ ~IsAlreadyTransmitted(c, e, Course, g)
        BY <3>2, <3>3, <3>4
      <3> HIDE DEF c, g
      <3>6. ~IsAlreadyTransmitted(c, e, Course, g)'
        BY <3>5, TransmittedStays DEF Undisturbed
      <3>7. QED
        BY <3>6 DEF c, g
    <2>2. CASE /\ audits' = audits /\ task[v] # Idle /\ task[v].current = NoRecord
               /\ r \in task[v].records /\ ToSend(task[v], r)
      <3>1. r.on = e /\ r.unit = Course
        BY <1>1 DEF Sends
      <3>2. task[v].kind = "completion"
        BY <2>2, <3>1 DEF HandsPlaced, CourseAlone
      <3>3. ~IsAlreadyTransmitted(r.config, e, Course, r.grade)
        BY <2>2, <3>1, <3>2 DEF ToSend
      <3>4. QED
        BY <2>2, <3>3, TableDecides
    <2>3. QED
      BY <1>1, <2>1, <2>2, SendsBefore
  <1>2. QED
    BY <1>1 DEF NotSent, Sends

\* Only a delivery changes the last report.
LEMMA LatestStays ==
    ASSUME TypeInv, [Next]_vars, NEW e \in Enrollments, ~history'[e].disturbed, ~DeliverStep
    PROVE  Calm(e)
  BY RepeatSteps
     DEF DropStep, CollectStep, CheckStep, RefuseStep, SaveStep, OutsideStep, CalmOthers

\* What a delivery does, seen from one enrollment.
LEMMA Delivered ==
    ASSUME TypeInv, NEW e \in Enrollments, DeliverStep
    PROVE  \E w \in Workers, r \in Records :
              /\ task[w] # Idle /\ r = task[w].current /\ task[w].answer = "none"
              /\ task'[w] # Idle /\ task'[w].current = r /\ task'[w].answer = "ok"
              /\ \A v \in Workers : v # w => task'[v] = task[v]
              /\ audits' = audits
              /\ \A c \in Configs :
                    latest'[c][e][Course] =
                       IF c = r.config /\ e = r.on /\ r.unit = Course THEN Report(r)
                       ELSE latest[c][e][Course]
              /\ history'[e].disturbed = history[e].disturbed
              /\ history'[e].repeated =
                    IF e = r.on
                    THEN history[e].repeated
                            \/ (r.unit = Course /\ latest[r.config][e][Course] = Report(r))
                    ELSE history[e].repeated
              /\ r # NoRecord
  <1>0. TypeOK
    BY DEF TypeInv
  <1>1. PICK w \in Workers, t \in Tasks, r \in Records :
           /\ GoesOn(w, t) /\ t.current = task[w].current
           /\ r = task[w].current /\ task[w].answer = "none" /\ t.answer = "ok"
           /\ audits' = audits
           /\ \A c \in Configs, d \in Enrollments :
                 latest'[c][d][Course] =
                    IF c = r.config /\ d = r.on /\ r.unit = Course THEN Report(r)
                    ELSE latest[c][d][Course]
           /\ \A d \in Enrollments :
                 /\ history'[d].disturbed = history[d].disturbed
                 /\ history'[d].repeated =
                       IF d = r.on
                       THEN history[d].repeated
                               \/ (r.unit = Course /\ latest[r.config][d][Course] = Report(r))
                       ELSE history[d].repeated
    BY DEF DeliverStep
  <1>2. /\ task'[w] = t /\ task[w] # Idle /\ t # Idle
        /\ \A v \in Workers : v # w => task'[v] = task[v]
    BY <1>0, <1>1, TaskAfter, IdleAssumption DEF GoesOn
  <1>3. r # NoRecord
    <2>1. DOMAIN r # DOMAIN NoRecord
      BY DEF Records, NoRecord
    <2>2. QED
      BY <2>1
  <1>4. QED
    BY <1>1, <1>2, <1>3

\* The report that a worker has accepted is the last one.
LEMMA OkIsLatestNext ==
    ASSUME TypeInv, HandsPlaced, [Next]_vars, NEW e \in Enrollments,
           ~history'[e].disturbed, Undisturbed(e)
    PROVE  OkIsLatest(e)'
  <1> SUFFICES ASSUME NEW v \in Workers, Sends(v, e)', task'[v].answer = "ok",
                      NEW r, r = task'[v].current
               PROVE  latest'[r.config][e][Course] = Report(r)
    BY DEF OkIsLatest, Report, Sends
  <1>1. CASE Sends(v, e) /\ r = task[v].current /\ task[v].answer = "ok"
    <2>1. latest[r.config][e][Course] = Report(r) /\ r.config \in Configs
      BY <1>1, SentRecord DEF Undisturbed, OkIsLatest
    <2>2. CASE ~DeliverStep
      BY <2>1, <2>2, LatestStays DEF Calm
    <2>3. CASE DeliverStep
      <3>1. PICK w \in Workers, q \in Records :
               /\ task[w] # Idle /\ q = task[w].current /\ task[w].answer = "none"
               /\ q # NoRecord
               /\ \A c \in Configs :
                     latest'[c][e][Course] =
                        IF c = q.config /\ e = q.on /\ q.unit = Course THEN Report(q)
                        ELSE latest[c][e][Course]
        BY <2>3, Delivered
      <3>2. ~(e = q.on /\ q.unit = Course)
        <4>1. SUFFICES ASSUME e = q.on, q.unit = Course
                       PROVE  FALSE
          OBVIOUS
        <4>2. Sends(w, e)
          BY <3>1, <4>1 DEF Sends
        <4>3. v = w
          BY <1>1, <4>2, SenderHolds DEF Undisturbed, OneHolder
        <4>4. QED
          BY <1>1, <3>1, <4>3
      <3>3. QED
        BY <2>1, <3>1, <3>2
    <2>4. QED
      BY <2>2, <2>3
  <1>2. CASE Sends(v, e) /\ r = task[v].current /\ task[v].answer = "none"
    <2>1. r.config \in Configs /\ r.on = e /\ r.unit = Course
      BY <1>2, SentRecord
    <2>2. task'[v] # task[v]
      BY <1>2
    <2>3. DeliverStep
      <3>1. SUFFICES ASSUME ~DeliverStep
                     PROVE  FALSE
        OBVIOUS
      <3>2. ASSUME NEW w \in Workers, NEW t, task' = [task EXCEPT ![w] = t]
            PROVE  task'[v] = t
        BY <2>2, <3>2, TaskAfter DEF TypeInv
      <3>3. CASE DropStep
        <4>1. PICK w \in Workers, t \in Tasks \union {Idle} :
                 task' = [task EXCEPT ![w] = t] /\ (t # Idle => t.current = NoRecord)
          BY <3>3 DEF DropStep
        <4>2. QED
          BY <3>2, <4>1 DEF Sends
      <3>4. CASE CollectStep \/ SaveStep
        <4>1. PICK w \in Workers, t \in Tasks :
                 task' = [task EXCEPT ![w] = t] /\ t.current = NoRecord
          BY <3>4 DEF CollectStep, SaveStep, GoesOn
        <4>2. QED
          BY <3>2, <4>1 DEF Sends
      <3>5. CASE CheckStep
        <4>1. PICK w \in Workers, t \in Tasks :
                 task' = [task EXCEPT ![w] = t] /\ task[w].current = NoRecord
          BY <3>5 DEF CheckStep, GoesOn
        <4>2. v # w
          BY <1>2, <4>1 DEF Sends
        <4>3. QED
          BY <2>2, <4>1, <4>2, TaskAfter DEF TypeInv
      <3>6. CASE RefuseStep
        <4>1. PICK w \in Workers, t \in Tasks :
                 task' = [task EXCEPT ![w] = t] /\ t.answer # "ok"
          BY <3>6 DEF RefuseStep, GoesOn
        <4>2. QED
          BY <3>2, <4>1
      <3>7. CASE OutsideStep
        BY <2>2, <3>7 DEF OutsideStep
      <3>8. QED
        BY <3>1, <3>3, <3>4, <3>5, <3>6, <3>7, RepeatSteps
    <2>4. PICK w \in Workers, q \in Records :
             /\ task'[w].current = q
             /\ \A x \in Workers : x # w => task'[x] = task[x]
             /\ \A c \in Configs :
                   latest'[c][e][Course] =
                      IF c = q.config /\ e = q.on /\ q.unit = Course THEN Report(q)
                      ELSE latest[c][e][Course]
      BY <2>3, Delivered
    <2>5. v = w /\ q = r
      BY <2>2, <2>4
    <2>6. QED
      BY <2>1, <2>4, <2>5
  <1>3. CASE task[v] # Idle /\ task[v].current = NoRecord /\ task[v].answer = "ok"
    BY <1>3 DEF TypeInv, AnswersFit
  <1>4. QED
    BY <1>1, <1>2, <1>3, SendsBefore

\* The report that was accepted last stays marked as sent, or about to be.
LEMMA LatestIsKeptNext ==
    ASSUME TypeInv, HandsPlaced, TablesFit, OnePerReusing, [Next]_vars, NEW e \in Enrollments,
           ~history'[e].disturbed, Undisturbed(e)
    PROVE  LatestIsKept(e)'
  <1>0. TypeOK /\ configs' = configs
    BY ReceivedGrows DEF TypeInv
  <1> DEFINE Ok(v, c) == Sends(v, e) /\ task[v].answer = "ok" /\ task[v].current.config = c
  <1> SUFFICES ASSUME NEW c \in configs, NEW g, latest'[c][e][Course] # NoReport,
                      g = latest'[c][e][Course].grade
               PROVE  \/ \E v \in Workers : Ok(v, c)'
                      \/ IsAlreadyTransmitted(c, e, Course, g)'
    BY <1>0 DEF LatestIsKept
  <1>1. c \in Configs
    BY <1>0, ConfigFacts
  <1>2. ASSUME latest'[c][e][Course] = latest[c][e][Course]
        PROVE  (\E v \in Workers : Ok(v, c)) \/ IsAlreadyTransmitted(c, e, Course, g)
    BY <1>2 DEF Undisturbed, LatestIsKept
  <1>3. ASSUME NEW v \in Workers, Ok(v, c), task'[v] = task[v]
        PROVE  \E x \in Workers : Ok(x, c)'
    BY <1>3 DEF Sends
  <1>4. CASE DeliverStep
    <2>1. PICK w \in Workers, q \in Records :
             /\ task[w] # Idle /\ q = task[w].current /\ task[w].answer = "none"
             /\ task'[w] # Idle /\ task'[w].current = q /\ task'[w].answer = "ok"
             /\ \A v \in Workers : v # w => task'[v] = task[v]
             /\ audits' = audits /\ q # NoRecord
             /\ \A a \in Configs :
                   latest'[a][e][Course] =
                      IF a = q.config /\ e = q.on /\ q.unit = Course THEN Report(q)
                      ELSE latest[a][e][Course]
      BY <1>4, Delivered
    <2>2. CASE c = q.config /\ e = q.on /\ q.unit = Course
      <3>1. Ok(w, c)'
        BY <2>1, <2>2 DEF Sends
      <3>2. QED
        BY <3>1
    <2>3. CASE ~(c = q.config /\ e = q.on /\ q.unit = Course)
      <3>1. latest'[c][e][Course] = latest[c][e][Course]
        BY <1>1, <2>1, <2>3
      <3>2. CASE \E v \in Workers : Ok(v, c)
        <4>1. PICK v \in Workers : Ok(v, c)
          BY <3>2
        <4>2. v # w
          BY <2>1, <4>1
        <4>3. QED
          BY <1>3, <2>1, <4>1, <4>2
      <3>3. CASE IsAlreadyTransmitted(c, e, Course, g)
        BY <2>1, <3>3, TableDecides
      <3>4. QED
        BY <1>2, <3>1, <3>2, <3>3
    <2>4. QED
      BY <2>2, <2>3
  <1>5. CASE ~DeliverStep /\ SavesOk(c, e)
    <2>1. PICK w \in Workers :
             /\ Save(w) /\ Sends(w, e) /\ task[w].answer = "ok" /\ task[w].current.config = c
      BY <1>5 DEF SavesOk
    <2>2. PICK r \in Records : r = task[w].current
      BY <2>1, SentRecord
    <2>3. IsAlreadyTransmitted(r.config, e, Course, r.grade)'
      BY <2>1, <2>2, SaveTransmits DEF Undisturbed
    <2>4. latest'[c][e][Course] = latest[c][e][Course]
      BY <1>1, <1>5, LatestStays DEF Calm
    <2>5. latest[c][e][Course] = Report(r) /\ Report(r).grade = r.grade /\ r.config = c
      BY <2>1, <2>2, SentRecord DEF Undisturbed, OkIsLatest
    <2>6. g = r.grade
      BY <2>4, <2>5
    <2>7. QED
      BY <2>3, <2>5, <2>6
  <1>6. CASE ~DeliverStep /\ ~SavesOk(c, e)
    <2>1. latest'[c][e][Course] = latest[c][e][Course]
      BY <1>1, <1>6, LatestStays DEF Calm
    <2>2. CASE IsAlreadyTransmitted(c, e, Course, g)
      <3>1. IsAlreadyTransmitted(c, e, Course, g)'
        BY <1>6, <2>2, TransmittedStays DEF Undisturbed
      <3>2. QED
        BY <3>1
    <2>3. CASE \E v \in Workers : Ok(v, c)
      <3>1. PICK v \in Workers : Ok(v, c)
        BY <2>3
      <3>2. task'[v] = task[v]
        <4>1. ASSUME NEW w \in Workers, NEW t, task' = [task EXCEPT ![w] = t], w # v
              PROVE  task'[v] = task[v]
          BY <1>0, <4>1, TaskAfter
        <4>2. CASE DropStep
          <5>1. PICK w \in Workers, t \in Tasks \union {Idle} :
                   /\ task' = [task EXCEPT ![w] = t]
                   /\ ~(Sends(w, e) /\ task[w].answer = "ok")
            BY <4>2 DEF DropStep
          <5>2. QED
            BY <3>1, <4>1, <5>1
        <4>3. CASE CollectStep \/ CheckStep
          <5>1. PICK w \in Workers, t \in Tasks :
                   task' = [task EXCEPT ![w] = t] /\ task[w].current = NoRecord
            BY <4>3 DEF CollectStep, CheckStep, GoesOn
          <5>2. w # v
            BY <3>1, <5>1 DEF Sends
          <5>3. QED
            BY <4>1, <5>1, <5>2
        <4>4. CASE RefuseStep
          <5>1. PICK w \in Workers, t \in Tasks :
                   task' = [task EXCEPT ![w] = t] /\ task[w].answer = "none"
            BY <4>4 DEF RefuseStep, GoesOn
          <5>2. QED
            BY <3>1, <4>1, <5>1
        <4>5. CASE SaveStep
          <5>1. PICK w \in Workers, t \in Tasks : Save(w) /\ task' = [task EXCEPT ![w] = t]
            BY <4>5 DEF SaveStep, GoesOn
          <5>2. w # v
            BY <1>6, <3>1, <5>1 DEF SavesOk
          <5>3. QED
            BY <4>1, <5>1, <5>2
        <4>6. CASE OutsideStep
          BY <4>6 DEF OutsideStep
        <4>7. QED
          BY <1>6, <4>2, <4>3, <4>4, <4>5, <4>6, RepeatSteps
      <3>3. QED
        BY <1>3, <3>1, <3>2
    <2>4. QED
      BY <1>2, <2>1, <2>2, <2>3
  <1>7. QED
    BY <1>4, <1>5, <1>6

\* What was accepted last is not sent again.
LEMMA NotRepeated ==
    ASSUME TypeInv, HandsPlaced, [Next]_vars, NEW e \in Enrollments,
           ~history'[e].disturbed, Undisturbed(e), ~history[e].repeated
    PROVE  ~history'[e].repeated
  <1>1. CASE ~DeliverStep
    BY <1>1, LatestStays DEF Calm
  <1>2. CASE DeliverStep
    <2>1. PICK w \in Workers, r \in Records :
             /\ task[w] # Idle /\ r = task[w].current /\ task[w].answer = "none"
             /\ r # NoRecord
             /\ history'[e].repeated =
                   IF e = r.on
                   THEN history[e].repeated
                           \/ (r.unit = Course /\ latest[r.config][e][Course] = Report(r))
                   ELSE history[e].repeated
      BY <1>2, Delivered
    <2>2. ASSUME e = r.on, r.unit = Course, latest[r.config][e][Course] = Report(r)
          PROVE  FALSE
      <3>1. Sends(w, e)
        BY <2>1, <2>2 DEF Sends
      <3>2. r.config \in configs /\ Report(r) # NoReport /\ Report(r).grade = r.grade
        BY <2>1, <3>1, SentRecord
      <3>3. ~IsAlreadyTransmitted(r.config, e, Course, r.grade)
        BY <2>1, <3>1 DEF Undisturbed, NotSent
      <3>4. PICK v \in Workers : Sends(v, e) /\ task[v].answer = "ok"
        BY <2>2, <3>2, <3>3 DEF Undisturbed, LatestIsKept
      <3>5. v = w
        BY <3>1, <3>4, SenderHolds DEF Undisturbed, OneHolder
      <3>6. QED
        BY <2>1, <3>4, <3>5
    <2>3. QED
      BY <2>1, <2>2
  <1>3. QED
    BY <1>1, <1>2

LEMMA RepeatInvInit == Init => RepeatInv
  <1> SUFFICES ASSUME Init
               PROVE  RepeatInv
    OBVIOUS
  <1>1. /\ TypeInv /\ TypeOK /\ \A w \in Workers : task[w] = Idle
        /\ configs \subseteq Configs
    BY TypeInvInit, ConfigAssumption DEF Init, TypeInv, TypeOK
  <1>2. HandsPlaced
    BY <1>1 DEF HandsPlaced
  <1>3. \A c \in configs, e \in Enrollments :
           Table(c, e, Course) = <<>> /\ latest[c][e][Course] = NoReport
    BY <1>1, ConfigAssumption DEF Init, Table, Units
  <1>4. TablesFit
    BY <1>3 DEF TablesFit
  <1>5. ASSUME NEW e \in Enrollments
        PROVE  Undisturbed(e) /\ ~history[e].repeated
    <2>1. OneHolder(e) /\ NotSent(e) /\ OkIsLatest(e)
      BY <1>1 DEF OneHolder, Holds, NotSent, OkIsLatest, Sends
    <2>2. OneRow(e)
      BY <1>1, <1>3 DEF OneRow
    <2>3. LatestIsKept(e)
      BY <1>3 DEF LatestIsKept
    <2>4. ~history[e].repeated
      BY DEF Init
    <2>5. QED
      BY <2>1, <2>2, <2>3, <2>4 DEF Undisturbed
  <1>6. QED
    BY <1>1, <1>2, <1>4, <1>5 DEF RepeatInv

\* What has disturbed an enrollment is not forgotten.
LEMMA DisturbedStays ==
    ASSUME TypeInv, [Next]_vars, NEW e \in Enrollments, ~history'[e].disturbed
    PROVE  ~history[e].disturbed
  <1>1. CASE ~DeliverStep
    BY <1>1, LatestStays DEF Calm
  <1>2. CASE DeliverStep
    BY <1>2, Delivered
  <1>3. QED
    BY <1>1, <1>2

LEMMA RepeatInvNext == OnePerReusing /\ RepeatInv /\ [Next]_vars => RepeatInv'
  <1> SUFFICES ASSUME OnePerReusing, RepeatInv, [Next]_vars
               PROVE  RepeatInv'
    OBVIOUS
  <1>1. TypeInv /\ HandsPlaced /\ TablesFit
    BY DEF RepeatInv
  <1>2. TypeInv' /\ HandsPlaced' /\ TablesFit'
    BY <1>1, TypeInvNext, HandsPlacedNext, TablesFitNext
  <1>3. ASSUME NEW e \in Enrollments, ~history'[e].disturbed
        PROVE  Undisturbed(e)' /\ ~history'[e].repeated
    <2>1. Undisturbed(e) /\ ~history[e].repeated
      BY <1>1, <1>3, DisturbedStays DEF RepeatInv
    <2>2. OneHolder(e)' /\ OneRow(e)'
      BY <1>1, <1>3, <2>1, OneHolderNext, OneRowNext DEF Undisturbed
    <2>3. NotSent(e)' /\ OkIsLatest(e)' /\ LatestIsKept(e)'
      BY <1>1, <1>3, <2>1, NotSentNext, OkIsLatestNext, LatestIsKeptNext
    <2>4. ~history'[e].repeated
      BY <1>1, <1>3, <2>1, NotRepeated
    <2>5. QED
      BY <2>2, <2>3, <2>4 DEF Undisturbed
  <1>4. QED
    BY <1>2, <1>3 DEF RepeatInv

\* A completion is sent a second time only for one of the four causes, if the
\* customer has no two configurations of one channel that takes what row there
\* is; such configurations overwrite the rows of each other.
THEOREM RepeatsHaveACause == OnePerReusing => (Spec => []RepeatHasCause)
  <1> SUFFICES ASSUME OnePerReusing
               PROVE  Spec => []RepeatHasCause
    OBVIOUS
  <1>1. RepeatInv => RepeatHasCause
    BY DEF RepeatInv, RepeatHasCause
  <1>2. RepeatInv /\ [Next]_vars => RepeatInv'
    BY RepeatInvNext
  <1>3. QED
    BY <1>1, <1>2, RepeatInvInit, PTL DEF Spec
=============================================================================
