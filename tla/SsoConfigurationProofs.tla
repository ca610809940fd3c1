------------------------ MODULE SsoConfigurationProofs ------------------------
(***************************************************************************)
(* Proofs for SsoConfiguration.  As long as no time limit passed, nothing  *)
(* was lost and no stale row was saved, one submission at most is on its   *)
(* way - with the orchestrator, coming back or being answered - and it is  *)
(* for the values the record has, or will have when its transaction        *)
(* commits.                                                                *)
(***************************************************************************)
EXTENDS SsoConfiguration, SequenceTheorems, FiniteSetTheorems, TLAPS

Submitting(w) == Serving(w, "create") \/ Serving(w, "submitted")

\* The record is created once: its request is the first to call.
CreatedOnce ==
    \A w \in Workers : Serving(w, "create") =>
        /\ row = NoRow /\ calls # <<>>
        /\ \A v \in Workers : Serving(v, "create") => v = w

\* All other requests are for an existing row.
RequestsHaveRow ==
    \A w \in Workers : request[w] # Idle /\ request[w].op # "create" => row # NoRow

\* A pending record is not submitted, and one transaction at a time submits.
SubmitsSettled ==
    \A w \in Workers : Serving(w, "submitted") =>
        /\ ~IsPendingConfiguration(row)
        /\ \A v \in Workers : Serving(v, "submitted") => v = w

\* What is about to be written is pending.
WritesPending ==
    \A w \in Workers : Submitting(w) => IsPendingConfiguration(request[w].row)

OrderInv == TypeOK /\ CreatedOnce /\ RequestsHaveRow /\ SubmitsSettled /\ WritesPending

\* The submissions on their way, and the answers being written.
Underway == Working \union Returning
Answering == {w \in Workers : Serving(w, "callback")}

OneUnderway ==
    /\ \A i, j \in Underway : i = j
    /\ \A v, w \in Answering : v = w
    /\ Underway = {} \/ Answering = {}

\* Nothing is on its way for a record that is committed and not pending.
SettledHasNone ==
    row # NoRow /\ ~IsPendingConfiguration(row) /\ ~RowLocked =>
        Underway = {} /\ Answering = {}

\* What was submitted is what the record holds, but for unsent changes.
Agrees(c, r) == c.data = r.data /\ (c.extra = r.extra \/ r.unsent)

\* c is what the record holds, or will hold after the commit.
IsLatest(c) ==
    /\ \A w \in Workers : Submitting(w) => Agrees(c, request[w].row)
    /\ row # NoRow /\ ~RowLocked => Agrees(c, row)

IsSame(c, d) == c.data = d.data /\ c.extra = d.extra

CallsAreLatest ==
    \A i \in Underway :
        /\ IsLatest(calls[i])
        /\ calls[i].state = "done" => applied # Nothing /\ IsSame(calls[i], applied)

AnswersAreLatest ==
    \A w \in Answering : ~request[w].error => applied # Nothing /\ IsLatest(applied)

SettledIsLatest ==
    row # NoRow /\ ~RowLocked /\ row.configured /\ ~row.errored =>
        applied # Nothing /\ Agrees(applied, row)

Calm == /\ OneUnderway /\ SettledHasNone /\ CallsAreLatest /\ AnswersAreLatest
        /\ SettledIsLatest

\* The inductive invariant.
IInv == OrderInv /\ (upset = {} => Calm)

-----------------------------------------------------------------------------
(* Types                                                                   *)

\* The operators on rows return rows, and change what they name.
LEMMA RowFacts ==
    ASSUME NEW r \in Row, NEW p \in Patch
    PROVE  /\ Patched(r, p) \in Row /\ r # NoRow
           /\ Patched(r, p).configured = r.configured /\ Patched(r, p).errored = r.errored
           /\ Patched(r, p).elapsed = r.elapsed
           /\ r.unsent => Patched(r, p).unsent
           /\ Patched(r, p).extra = r.extra \/ Patched(r, p).unsent
           /\ Patched(r, p).data # r.data => Differs(p, r)
  <1> DEFINE d == IF p.data = Keep THEN r.data ELSE p.data
             e == IF p.extra = Keep THEN r.extra ELSE p.extra
             a == IF p.active = Keep THEN r.active ELSE p.active
             u == r.unsent \/ p.extra \notin {Keep, r.extra}
             new == [r EXCEPT !.data = d, !.extra = e, !.active = a, !.unsent = u]
  <1>1. Patched(r, p) = new
    BY DEF Row, Patched
  <1>2. /\ d \in Data /\ e \in Extras /\ a \in BOOLEAN /\ u \in BOOLEAN
        /\ r.unsent => u
        /\ e = r.extra \/ u
        /\ d # r.data => Differs(p, r)
    BY DEF Row, Patch, Differs
  <1> HIDE DEF d, e, a, u
  <1>3. /\ new \in Row /\ new.data = d /\ new.extra = e /\ new.unsent = u
        /\ new.configured = r.configured /\ new.errored = r.errored
        /\ new.elapsed = r.elapsed
    BY <1>2 DEF Row
  <1> HIDE DEF new
  <1>4. QED
    BY <1>1, <1>2, <1>3, RowAssumption

LEMMA SubmittedFacts ==
    ASSUME NEW r \in Row
    PROVE  /\ Submitted(r) \in Row /\ IsSame(Submitted(r), r)
           /\ IsPendingConfiguration(Submitted(r))
  BY DEF Row, Submitted, IsPendingConfiguration, IsSame

LEMMA NewRowFacts ==
    ASSUME NEW d \in Data, NEW e \in Extras, NEW a \in BOOLEAN
    PROVE  /\ NewRow(d, e, a) \in Row
           /\ IsPendingConfiguration(NewRow(d, e, a))
  BY DEF Row, NewRow, IsPendingConfiguration

LEMMA CompletedFacts ==
    ASSUME NEW r \in Row, NEW error \in BOOLEAN, NEW updating \in BOOLEAN
    PROVE  /\ Completed(r, error, updating) \in Row
           /\ IsSame(Completed(r, error, updating), r)
           /\ Completed(r, error, updating).unsent = r.unsent
           /\ error => Completed(r, error, updating).errored
           /\ ~error => Completed(r, error, updating).configured
  BY DEF Row, Completed, IsSame

\* What a request in progress holds, by its operation.
LEMMA RequestFacts ==
    ASSUME TypeOK, NEW w \in Workers, request[w] # Idle
    PROVE  /\ request[w] \in Request
           /\ request[w].op \in {"create", "update", "submitted", "callback"}
           /\ Submitting(w) => request[w].row \in Row
           /\ Serving(w, "update") => /\ request[w].patch \in Patch
                                      /\ request[w].needs \in BOOLEAN
           /\ Serving(w, "callback") => /\ request[w].copy \in Row
                                        /\ request[w].error \in BOOLEAN
                                        /\ request[w].updating \in BOOLEAN
  <1>1. request[w] \in Request
    BY DEF TypeOK
  <1>2. QED
    BY <1>1 DEF Request, Serving, Submitting

\* A call that is added, and one whose state changes.
LEMMA SubmitFacts ==
    ASSUME TypeOK, NEW r \in Row, NEW updating \in BOOLEAN, Submit(r, updating)
    PROVE  /\ calls' \in Seq(Call) /\ Len(calls') <= MaxCalls
           /\ calls' # <<>> /\ DOMAIN calls' = DOMAIN calls \union {Len(calls) + 1}
           /\ \A i \in DOMAIN calls : calls'[i] = calls[i]
           /\ IsSame(calls'[Len(calls) + 1], r)
           /\ calls'[Len(calls) + 1].state = "working"
  <1> DEFINE call == [data |-> r.data, extra |-> r.extra, enabled |-> updating => r.active,
                      updating |-> updating, state |-> "working"]
  <1>1. call \in Call
    <2>1. r.data \in Data /\ r.extra \in Extras /\ r.active \in BOOLEAN
      BY DEF Row
    <2>2. (updating => r.active) \in BOOLEAN
      OBVIOUS
    <2>3. QED
      BY <2>1, <2>2 DEF Call
  <1>2. IsSame(call, r) /\ call.state = "working"
    BY DEF IsSame
  <1>3. calls' = Append(calls, call) /\ Len(calls) < MaxCalls /\ calls \in Seq(Call)
    BY DEF Submit, TypeOK
  <1> HIDE DEF call
  <1>4. /\ calls' \in Seq(Call) /\ Len(calls') = Len(calls) + 1 /\ Len(calls) \in Nat
        /\ \A i \in 1 .. Len(calls) : calls'[i] = calls[i]
        /\ calls'[Len(calls) + 1] = call
    BY <1>1, <1>3, AppendProperties
  <1>5. DOMAIN calls = 1 .. Len(calls) /\ DOMAIN calls' = 1 .. Len(calls')
    BY <1>3, <1>4
  <1>6. QED
    BY <1>2, <1>3, <1>4, <1>5, CallsAssumption

LEMMA StateFacts ==
    ASSUME TypeOK, NEW i \in DOMAIN calls, NEW st \in {"done", "failed", "answered"},
           calls' = [calls EXCEPT ![i].state = st]
    PROVE  /\ calls' \in Seq(Call) /\ Len(calls') <= MaxCalls
           /\ DOMAIN calls' = DOMAIN calls /\ (calls' = <<>> <=> calls = <<>>)
           /\ \A j \in DOMAIN calls :
                 /\ IsSame(calls'[j], calls[j])
                 /\ j # i => calls'[j] = calls[j]
           /\ calls'[i].state = st
  <1> DEFINE call == [calls[i] EXCEPT !.state = st]
  <1>1. calls \in Seq(Call) /\ i \in 1 .. Len(calls) /\ calls[i] \in Call
    BY DEF TypeOK
  <1>2. call \in Call /\ IsSame(call, calls[i]) /\ call.state = st
    BY <1>1 DEF Call, IsSame
  <1>3. calls' = [calls EXCEPT ![i] = call]
    OBVIOUS
  <1> HIDE DEF call
  <1>4. /\ calls' \in Seq(Call) /\ Len(calls') = Len(calls)
        /\ \A j \in 1 .. Len(calls) : calls'[j] = IF i = j THEN call ELSE calls[j]
    BY <1>1, <1>2, <1>3, ExceptSeq
  <1>5. QED
    BY <1>1, <1>2, <1>4 DEF TypeOK, IsSame

\* The type of a request that begins or goes on.
LEMMA CallbackType ==
    ASSUME TypeOK, row # NoRow, NEW i \in DOMAIN calls
    PROVE  [op |-> "callback", copy |-> row, error |-> calls[i].state = "failed",
            updating |-> calls[i].updating] \in Request
  <1>0. calls[i] \in Call /\ row \in Row
    BY DEF TypeOK
  <1>1. calls[i].updating \in BOOLEAN /\ row \in Row
    BY <1>0 DEF Call
  <1>2. (calls[i].state = "failed") \in BOOLEAN
    OBVIOUS
  <1>3. QED
    BY <1>1, <1>2 DEF Request

LEMMA UpdateType ==
    ASSUME NEW patch \in Patch
    PROVE  [op |-> "update", patch |-> patch, needs |-> Differs(patch, row)] \in Request
  <1>1. Differs(patch, row) \in BOOLEAN
    BY DEF Differs
  <1>2. QED
    BY <1>1 DEF Request

\* The types are right initially.
LEMMA TypeInit == Init => TypeOK
  BY CallsAssumption, EmptySeq DEF Init, TypeOK

\* Every step of a process preserves the types.
LEMMA TypeWorker ==
    ASSUME TypeOK, RequestsHaveRow, NEW w \in Workers, Administrator(w) \/ Callback(w)
    PROVE  TypeOK'
  <1>1. ASSUME NEW data \in Data, NEW extra \in Extras, NEW active \in BOOLEAN,
               BeginCreate(w, data, extra, active)
        PROVE  TypeOK'
    <2>1. NewRow(data, extra, active) \in Row
      BY NewRowFacts
    <2>2. calls' \in Seq(Call) /\ Len(calls') <= MaxCalls
      BY <1>1, <2>1, SubmitFacts DEF BeginCreate
    <2>3. [op |-> "create", row |-> NewRow(data, extra, active)] \in Request
      BY <2>1 DEF Request
    <2>4. QED
      BY <1>1, <2>2, <2>3 DEF BeginCreate, TypeOK
  <1>2. CASE CommitCreate(w)
    BY <1>2, RequestFacts DEF CommitCreate, End, TypeOK, Serving, Submitting
  <1>3. ASSUME NEW patch \in Patch, BeginUpdate(w, patch)
        PROVE  TypeOK'
    BY <1>3, UpdateType DEF BeginUpdate, TypeOK
  <1>4. CASE Update(w)
    <2>1. row \in Row /\ request[w].patch \in Patch
      BY <1>4, RequestFacts DEF Update, TypeOK, Serving, RequestsHaveRow
    <2>2. Patched(row, request[w].patch) \in Row
      BY <2>1, RowFacts
    <2>3. QED
      BY <1>4, <2>2 DEF Update, Overtaken, End, TypeOK
  <1>5. CASE UpdateAndSubmit(w)
    <2> DEFINE new == Patched(row, request[w].patch)
    <2>1. row \in Row /\ request[w].patch \in Patch
      BY <1>5, RequestFacts DEF UpdateAndSubmit, TypeOK, Serving, RequestsHaveRow
    <2>2. new \in Row /\ Submitted(new) \in Row
      BY <2>1, RowFacts, SubmittedFacts
    <2>3. Submit(new, TRUE)
      BY <1>5 DEF UpdateAndSubmit
    <2>4. [op |-> "submitted", row |-> Submitted(new)] \in Request
      BY <2>2 DEF Request
    <2>5. request' = [request EXCEPT ![w] = [op |-> "submitted", row |-> Submitted(new)]]
      BY <1>5 DEF UpdateAndSubmit
    <2> HIDE DEF new
    <2>6. calls' \in Seq(Call) /\ Len(calls') <= MaxCalls
      BY <2>2, <2>3, SubmitFacts
    <2>7. QED
      BY <1>5, <2>4, <2>5, <2>6 DEF UpdateAndSubmit, Overtaken, TypeOK
  <1>6. CASE CommitUpdate(w)
    BY <1>6, RequestFacts DEF CommitUpdate, End, TypeOK, Serving, Submitting
  <1>7. CASE RefuseUpdate(w)
    BY <1>7 DEF RefuseUpdate, End, TypeOK
  <1>8. CASE LoseResponse(w)
    BY <1>8 DEF LoseResponse, End, TypeOK
  <1>9. ASSUME NEW i \in DOMAIN calls, BeginCallback(w, i)
        PROVE  TypeOK'
    <2>1. calls' \in Seq(Call) /\ Len(calls') <= MaxCalls
      BY <1>9, StateFacts DEF BeginCallback
    <2>2. QED
      BY <1>9, <2>1, CallbackType DEF BeginCallback, TypeOK
  <1>10. CASE OauthOrchestrationComplete(w)
    BY <1>10, RequestFacts, CompletedFacts
       DEF OauthOrchestrationComplete, Overtaken, End, TypeOK, Serving
  <1>11. QED
    BY <1>1, <1>2, <1>3, <1>4, <1>5, <1>6, <1>7, <1>8, <1>9, <1>10
       DEF Administrator, Callback

\* So does every other step.
LEMMA TypeNext ==
    ASSUME TypeOK, RequestsHaveRow, [Next]_vars
    PROVE  TypeOK'
  <1>1. CASE Destroy
    <2>1. [row EXCEPT !.removed = TRUE] \in Row
      BY <1>1 DEF Destroy, TypeOK, Row
    <2>2. QED
      BY <1>1, <2>1 DEF Destroy, TypeOK
  <1>2. CASE TimeOut
    <2>1. [row EXCEPT !.elapsed = TRUE] \in Row
      BY <1>2 DEF TimeOut, TypeOK, Row
    <2>2. QED
      BY <1>2, <2>1 DEF TimeOut, TypeOK
  <1>3. CASE Orchestrator
    <2>1. PICK i \in DOMAIN calls : Configure(i) \/ FailToConfigure(i) \/ NotFound(i)
      BY <1>3 DEF Orchestrator
    <2>2. calls' \in Seq(Call) /\ Len(calls') <= MaxCalls
      BY <2>1, StateFacts DEF Configure, FailToConfigure, NotFound
    <2>3. calls[i] \in Call
      BY DEF TypeOK
    <2>4. [data |-> calls[i].data, extra |-> calls[i].extra,
           enabled |-> calls[i].enabled] \in Configuration
      BY <2>3 DEF Call, Configuration
    <2>5. QED
      BY <2>1, <2>2, <2>4 DEF Configure, FailToConfigure, NotFound, TypeOK
  <1>4. CASE UNCHANGED vars
    BY <1>4 DEF vars, TypeOK
  <1>5. QED
    BY <1>1, <1>2, <1>3, <1>4, TypeWorker DEF Next

-----------------------------------------------------------------------------
(* The order of requests                                                   *)

\* A request that ends, and one that begins or goes on as q.
LEMMA EndServing ==
    ASSUME TypeOK, NEW w \in Workers, End(w)
    PROVE  /\ request'[w] = Idle
           /\ \A v \in Workers \ {w} : request'[v] = request[v]
  BY DEF TypeOK, End

LEMMA BeginServing ==
    ASSUME TypeOK, NEW w \in Workers, NEW q \in Request,
           request' = [request EXCEPT ![w] = q]
    PROVE  /\ request'[w] = q /\ request'[w] # Idle
           /\ \A v \in Workers \ {w} : request'[v] = request[v]
  BY IdleAssumption DEF TypeOK

\* What requests a step leaves, takes away and adds.
OrderParts == CreatedOnce /\ RequestsHaveRow /\ SubmitsSettled /\ WritesPending

LEMMA OrderInit == Init => OrderParts
  BY DEF Init, OrderParts, CreatedOnce, RequestsHaveRow, SubmitsSettled, WritesPending,
         Serving, Submitting

\* A step that begins no creation and no submission, and lets the record be
\* pending or not as it was, unless no transaction has written it.
LEMMA OrderKept ==
    ASSUME OrderInv,
           \A v \in Workers : request'[v] = request[v] \/ request'[v] = Idle
                                \/ (row # NoRow /\ request'[v].op \in {"update", "callback"}),
           calls # <<>> => calls' # <<>>,
           row # NoRow => row' # NoRow,
           row = NoRow => row' = NoRow,
           RowLocked => IsPendingConfiguration(row') = IsPendingConfiguration(row)
    PROVE  OrderParts'
  <1>1. ASSUME NEW v \in Workers, Serving(v, "create")'
        PROVE  Serving(v, "create")
    BY <1>1 DEF Serving
  <1>2. ASSUME NEW v \in Workers, Serving(v, "submitted")'
        PROVE  Serving(v, "submitted")
    BY <1>2 DEF Serving
  <1>3. CreatedOnce'
    BY <1>1 DEF OrderInv, CreatedOnce
  <1>4. RequestsHaveRow'
    BY DEF OrderInv, RequestsHaveRow
  <1>5. SubmitsSettled'
    BY <1>2 DEF OrderInv, SubmitsSettled, RowLocked
  <1>6. WritesPending'
    <2> SUFFICES ASSUME NEW w \in Workers, Submitting(w)'
                 PROVE  IsPendingConfiguration(request'[w].row)
      BY DEF WritesPending, IsPendingConfiguration
    <2>1. Submitting(w) /\ request'[w] = request[w]
      BY <1>1, <1>2 DEF Submitting, Serving
    <2>2. QED
      BY <2>1 DEF OrderInv, WritesPending
  <1>7. QED
    BY <1>3, <1>4, <1>5, <1>6 DEF OrderParts

\* Every step of a process preserves the order.
LEMMA OrderWorker ==
    ASSUME OrderInv, NEW w \in Workers, Administrator(w) \/ Callback(w)
    PROVE  OrderParts'
  <1>0. TypeOK /\ RequestsHaveRow
    BY DEF OrderInv
  <1>1. ASSUME NEW data \in Data, NEW extra \in Extras, NEW active \in BOOLEAN,
               BeginCreate(w, data, extra, active)
        PROVE  OrderParts'
    <2> DEFINE q == [op |-> "create", row |-> NewRow(data, extra, active)]
    <2>1. /\ NewRow(data, extra, active) \in Row /\ q \in Request
          /\ IsPendingConfiguration(q.row)
      BY NewRowFacts DEF Request
    <2>2. q.op = "create" /\ request' = [request EXCEPT ![w] = q]
      BY <1>1 DEF BeginCreate
    <2> HIDE DEF q
    <2>3. /\ request'[w] = q
          /\ \A v \in Workers \ {w} : request'[v] = request[v]
      BY <1>0, <2>1, <2>2, BeginServing
    <2>4. \A v \in Workers : request[v] = Idle
      BY <1>1 DEF BeginCreate, OrderInv, CreatedOnce, RequestsHaveRow, Serving
    <2>5. row' = NoRow /\ calls' # <<>>
      BY <1>0, <1>1, <2>1, SubmitFacts DEF BeginCreate
    <2>6. QED
      BY <2>1, <2>2, <2>3, <2>4, <2>5
         DEF OrderParts, CreatedOnce, RequestsHaveRow, SubmitsSettled, WritesPending,
             Serving, Submitting, IsPendingConfiguration
  <1>2. CASE CommitCreate(w) \/ CommitUpdate(w)
    <2>1. /\ Submitting(w) /\ request[w] # Idle /\ row' = request[w].row /\ End(w)
          /\ UNCHANGED calls
      BY <1>2 DEF CommitCreate, CommitUpdate, Submitting, Serving
    <2>2. row' \in Row /\ row' # NoRow
      BY <1>0, <2>1, RequestFacts, RowAssumption
    <2>3. /\ request'[w] = Idle
          /\ \A v \in Workers \ {w} : request'[v] = request[v]
      BY <1>0, <2>1, EndServing
    <2>4. \A v \in Workers \ {w} : ~Submitting(v)
      BY <1>0, <2>1 DEF OrderInv, CreatedOnce, SubmitsSettled, RequestsHaveRow, Submitting,
                        Serving
    <2>5. \A v \in Workers : ~Serving(v, "create")' /\ ~Serving(v, "submitted")'
      BY <2>3, <2>4 DEF Submitting, Serving
    <2>6. QED
      BY <2>2, <2>5 DEF OrderParts, CreatedOnce, RequestsHaveRow, SubmitsSettled,
                        WritesPending, Submitting
  <1>3. ASSUME NEW patch \in Patch, BeginUpdate(w, patch)
        PROVE  OrderParts'
    <2> DEFINE q == [op |-> "update", patch |-> patch, needs |-> Differs(patch, row)]
    <2>1. q \in Request /\ q.op = "update" /\ request' = [request EXCEPT ![w] = q]
      BY <1>3, UpdateType DEF BeginUpdate
    <2> HIDE DEF q
    <2>2. /\ request'[w] = q
          /\ \A v \in Workers \ {w} : request'[v] = request[v]
      BY <1>0, <2>1, BeginServing
    <2>3. row # NoRow /\ UNCHANGED <<row, calls>>
      BY <1>3 DEF BeginUpdate
    <2>4. QED
      BY <2>1, <2>2, <2>3, OrderKept
  <1>4. CASE Update(w)
    <2>1. row \in Row /\ request[w].patch \in Patch
      BY <1>0, <1>4, RequestFacts DEF Update, TypeOK, Serving, RequestsHaveRow
    <2>2. row # NoRow /\ row' # NoRow /\ ~RowLocked /\ End(w) /\ calls' = calls
      BY <1>4, <2>1, RowFacts DEF Update
    <2>3. QED
      BY <1>0, <2>2, EndServing, OrderKept
  <1>5. CASE UpdateAndSubmit(w)
    <2> DEFINE new == Patched(row, request[w].patch)
               q == [op |-> "submitted", row |-> Submitted(new)]
    <2>1. row \in Row /\ request[w].patch \in Patch /\ row # NoRow
      BY <1>0, <1>5, RequestFacts DEF UpdateAndSubmit, TypeOK, Serving, RequestsHaveRow
    <2>2. /\ Submitted(new) \in Row /\ q \in Request
          /\ IsPendingConfiguration(q.row)
      BY <2>1, RowFacts, SubmittedFacts DEF Request
    <2>3. q.op = "submitted" /\ request' = [request EXCEPT ![w] = q]
      BY <1>5 DEF UpdateAndSubmit
    <2>4. UNCHANGED row /\ ~RowLocked /\ ~IsPendingConfiguration(row)
      BY <1>5 DEF UpdateAndSubmit, MaySubmit
    <2> HIDE DEF q
    <2>5. /\ request'[w] = q
          /\ \A v \in Workers \ {w} : request'[v] = request[v]
      BY <1>0, <2>2, <2>3, BeginServing
    <2>6. \A v \in Workers : ~Submitting(v)
      BY <2>1, <2>4 DEF OrderInv, CreatedOnce, RowLocked, Submitting
    <2>7. \A v \in Workers : ~Serving(v, "create")'
      BY <2>3, <2>5, <2>6 DEF Submitting, Serving
    <2>8. \A v \in Workers : Serving(v, "submitted")' => v = w
      BY <2>5, <2>6 DEF Submitting, Serving
    <2>9. ~IsPendingConfiguration(row')
      BY <2>4
    <2>10. CreatedOnce' /\ RequestsHaveRow'
      BY <2>1, <2>4, <2>7 DEF CreatedOnce, RequestsHaveRow
    <2>11. SubmitsSettled'
      BY <2>8, <2>9 DEF SubmitsSettled, IsPendingConfiguration
    <2>12. WritesPending'
      BY <2>2, <2>5, <2>7, <2>8 DEF WritesPending, Submitting, IsPendingConfiguration
    <2>13. QED
      BY <2>10, <2>11, <2>12 DEF OrderParts
  <1>6. CASE RefuseUpdate(w) \/ LoseResponse(w)
    BY <1>0, <1>6, EndServing, OrderKept DEF RefuseUpdate, LoseResponse
  <1>7. ASSUME NEW i \in DOMAIN calls, BeginCallback(w, i)
        PROVE  OrderParts'
    <2> DEFINE q == [op |-> "callback", copy |-> row, error |-> calls[i].state = "failed",
                     updating |-> calls[i].updating]
    <2>1. row # NoRow /\ UNCHANGED row /\ request' = [request EXCEPT ![w] = q]
      BY <1>7 DEF BeginCallback
    <2>2. q \in Request /\ q.op = "callback"
      BY <1>0, <2>1, CallbackType
    <2> HIDE DEF q
    <2>3. /\ request'[w] = q
          /\ \A v \in Workers \ {w} : request'[v] = request[v]
      BY <1>0, <2>1, <2>2, BeginServing
    <2>4. calls # <<>> => calls' # <<>>
      BY <1>0, <1>7, StateFacts DEF BeginCallback
    <2>5. QED
      BY <2>1, <2>2, <2>3, <2>4, OrderKept
  <1>8. CASE OauthOrchestrationComplete(w)
    <2>1. /\ request[w].copy \in Row /\ request[w].error \in BOOLEAN
          /\ request[w].updating \in BOOLEAN /\ row # NoRow
      BY <1>0, <1>8, RequestFacts DEF OauthOrchestrationComplete, Serving, RequestsHaveRow
    <2>2. row' # NoRow /\ ~RowLocked /\ End(w) /\ calls' = calls
      BY <1>8, <2>1, CompletedFacts, RowAssumption DEF OauthOrchestrationComplete
    <2>3. QED
      BY <1>0, <2>1, <2>2, EndServing, OrderKept
  <1>9. QED
    BY <1>1, <1>2, <1>3, <1>4, <1>5, <1>6, <1>7, <1>8 DEF Administrator, Callback

\* So does every other step.
LEMMA OrderNext ==
    ASSUME OrderInv, [Next]_vars
    PROVE  OrderInv'
  <1>0. TypeOK /\ RequestsHaveRow
    BY DEF OrderInv
  <1>1. CASE Destroy \/ TimeOut
    <2>1. UNCHANGED <<request, calls>> /\ row # NoRow
      BY <1>1 DEF Destroy, TimeOut
    <2>2. ~RowLocked
      BY <1>1 DEF Destroy, TimeOut, RowLocked, OrderInv, SubmitsSettled
    <2>3. row' \in Row
      BY <1>0, <1>1 DEF Destroy, TimeOut, TypeOK, Row
    <2>4. row' # NoRow
      BY <2>3, RowAssumption
    <2>5. OrderParts'
      BY <2>1, <2>2, <2>4, OrderKept
    <2>6. QED
      BY <1>0, <2>5, TypeNext DEF OrderInv, OrderParts
  <1>2. CASE Orchestrator
    <2>1. PICK i \in DOMAIN calls : Configure(i) \/ FailToConfigure(i) \/ NotFound(i)
      BY <1>2 DEF Orchestrator
    <2>2. /\ UNCHANGED <<row, request>>
          /\ calls # <<>> => calls' # <<>>
      BY <1>0, <2>1, StateFacts DEF Configure, FailToConfigure, NotFound
    <2>3. OrderParts'
      BY <2>2, OrderKept
    <2>4. QED
      BY <1>0, <2>3, TypeNext DEF OrderInv, OrderParts
  <1>3. CASE UNCHANGED vars
    <2>1. OrderParts'
      BY <1>3, OrderKept DEF vars
    <2>2. QED
      BY <1>0, <2>1, TypeNext DEF OrderInv, OrderParts
  <1>4. ASSUME NEW w \in Workers, Administrator(w) \/ Callback(w)
        PROVE  OrderInv'
    BY <1>0, <1>4, TypeNext, OrderWorker DEF OrderInv, OrderParts
  <1>5. QED
    BY <1>1, <1>2, <1>3, <1>4 DEF Next

-----------------------------------------------------------------------------
(* What holds as long as nothing went wrong                                *)

LEMMA CalmInit == Init => Calm
  BY DEF Init, Calm, OneUnderway, SettledHasNone, CallsAreLatest, AnswersAreLatest,
         SettledIsLatest, Underway, Working, Returning, Answering, Serving

\* An update that has nothing to submit, or is refused, changes nothing of it.
LEMMA CalmKept ==
    ASSUME Calm, UNCHANGED <<calls, applied>>,
           \A v \in Workers :
              \/ request'[v] = request[v]
              \/ /\ request[v] # Idle => request[v].op = "update"
                 /\ request'[v] # Idle => request'[v].op = "update",
           \/ row' = row
           \/ /\ row # NoRow /\ row' # NoRow /\ row'.data = row.data
              /\ row.unsent => row'.unsent
              /\ row'.extra = row.extra \/ row'.unsent
              /\ row'.configured = row.configured /\ row'.errored = row.errored
              /\ row'.elapsed = row.elapsed
    PROVE  Calm'
  <1>1. ASSUME NEW v \in Workers
        PROVE  /\ Submitting(v)' <=> Submitting(v)
               /\ Serving(v, "submitted")' <=> Serving(v, "submitted")
               /\ Serving(v, "callback")' <=> Serving(v, "callback")
               /\ Submitting(v) \/ Serving(v, "callback") => request'[v] = request[v]
    BY DEF Submitting, Serving
  <1>2. RowLocked' <=> RowLocked
    BY <1>1 DEF RowLocked
  <1>3. Underway' = Underway /\ Answering' = Answering
    BY <1>1 DEF Underway, Working, Returning, Answering
  <1>4. OneUnderway'
    BY <1>3 DEF Calm, OneUnderway
  <1>5. SettledHasNone'
    BY <1>2, <1>3 DEF Calm, SettledHasNone, IsPendingConfiguration
  <1>6. ASSUME NEW d, IsLatest(d)
        PROVE  IsLatest(d)'
    BY <1>1, <1>2, <1>6 DEF IsLatest, Agrees
  <1>7. CallsAreLatest'
    BY <1>3, <1>6 DEF Calm, CallsAreLatest
  <1>8. AnswersAreLatest'
    BY <1>1, <1>3, <1>6 DEF Calm, AnswersAreLatest, Answering
  <1>9. SettledIsLatest'
    BY <1>2 DEF Calm, SettledIsLatest, Agrees
  <1>10. QED
    BY <1>4, <1>5, <1>7, <1>8, <1>9 DEF Calm

\* A call, by a request that is from then on the only one to write the record.
LEMMA CalmSubmit ==
    ASSUME OrderInv, Underway = {}, Answering = {},
           NEW w \in Workers, NEW q \in Request, NEW r \in Row, NEW updating \in BOOLEAN,
           q.op \in {"create", "submitted"}, q.row \in Row, IsSame(q.row, r),
           request' = [request EXCEPT ![w] = q], Submit(r, updating),
           \A v \in Workers : ~Submitting(v),
           row' = NoRow \/ q.op = "submitted"
    PROVE  Calm'
  <1> DEFINE n == Len(calls) + 1
  <1>0. TypeOK
    BY DEF OrderInv
  <1>1. /\ DOMAIN calls' = DOMAIN calls \union {n} /\ IsSame(calls'[n], r)
        /\ calls'[n].state = "working"
        /\ \A i \in DOMAIN calls : calls'[i] = calls[i]
    BY <1>0, SubmitFacts
  <1>2. n \notin DOMAIN calls
    BY <1>0 DEF TypeOK
  <1>3. PICK k : k = n
    OBVIOUS
  <1> HIDE DEF n
  <1>4. Underway' = {k}
    BY <1>1, <1>2, <1>3 DEF Underway, Working, Returning
  <1>5. /\ request'[w] = q /\ request'[w] # Idle
        /\ \A v \in Workers \ {w} : request'[v] = request[v]
    BY <1>0, BeginServing
  <1>6. Answering' = {}
    BY <1>5 DEF Answering, Serving
  <1>7. row' = NoRow \/ RowLocked'
    BY <1>5 DEF RowLocked, Serving
  <1>8. \A v \in Workers : Submitting(v)' => v = w
    BY <1>5 DEF Submitting, Serving
  <1>9. (IsLatest(calls[k]))'
    BY <1>1, <1>3, <1>5, <1>7, <1>8 DEF IsLatest, IsSame, Agrees
  <1>10. OneUnderway'
    BY <1>4, <1>6 DEF OneUnderway
  <1>11. SettledHasNone' /\ SettledIsLatest'
    BY <1>7 DEF SettledHasNone, SettledIsLatest
  <1>12. CallsAreLatest'
    BY <1>1, <1>3, <1>4, <1>9 DEF CallsAreLatest
  <1>13. AnswersAreLatest'
    BY <1>6 DEF AnswersAreLatest
  <1>14. QED
    BY <1>10, <1>11, <1>12, <1>13 DEF Calm

\* The commit of the request that has called.
LEMMA CalmCommit ==
    ASSUME OrderInv, Calm, NEW w \in Workers, Submitting(w), row' = request[w].row, End(w),
           UNCHANGED <<calls, applied>>
    PROVE  Calm'
  <1>0. TypeOK /\ request[w] # Idle /\ request[w].row \in Row
    BY RequestFacts DEF OrderInv, Submitting, Serving
  <1>1. /\ request'[w] = Idle
        /\ \A v \in Workers \ {w} : request'[v] = request[v]
    BY <1>0, EndServing
  <1>2. \A v \in Workers \ {w} : ~Submitting(v)
    BY DEF OrderInv, CreatedOnce, SubmitsSettled, RequestsHaveRow, Submitting, Serving
  <1>3. \A v \in Workers : ~Submitting(v)'
    BY <1>1, <1>2 DEF Submitting, Serving
  <1>4. IsPendingConfiguration(row')
    BY DEF OrderInv, WritesPending
  <1>5. Underway' = Underway /\ Answering' = Answering
    BY <1>1 DEF Underway, Working, Returning, Answering, Serving, Submitting
  <1>6. ASSUME NEW d, IsLatest(d)
        PROVE  IsLatest(d)'
    BY <1>3, <1>6 DEF IsLatest
  <1>7. OneUnderway'
    BY <1>5 DEF Calm, OneUnderway
  <1>8. SettledHasNone' /\ SettledIsLatest'
    BY <1>4 DEF SettledHasNone, SettledIsLatest, IsPendingConfiguration
  <1>9. CallsAreLatest'
    BY <1>5, <1>6 DEF Calm, CallsAreLatest
  <1>10. \A v \in Answering' : request'[v] = request[v]
    BY <1>1 DEF Answering, Serving
  <1>11. AnswersAreLatest'
    BY <1>5, <1>6, <1>10 DEF Calm, AnswersAreLatest
  <1>12. QED
    BY <1>7, <1>8, <1>9, <1>11 DEF Calm

\* The orchestrator is done with the only submission under way, or has failed.
LEMMA CalmConfigure ==
    ASSUME OrderInv, Calm, NEW i \in DOMAIN calls, Configure(i) \/ FailToConfigure(i)
    PROVE  Calm'
  <1>0. TypeOK
    BY DEF OrderInv
  <1>1. i \in Underway /\ \A j \in Underway : j = i
    BY DEF Configure, FailToConfigure, Underway, Calm, OneUnderway
  <1>2. PICK st \in {"done", "failed"} : calls' = [calls EXCEPT ![i].state = st]
    BY DEF Configure, FailToConfigure
  <1>3. /\ DOMAIN calls' = DOMAIN calls /\ calls'[i].state = st
        /\ \A j \in DOMAIN calls : /\ IsSame(calls'[j], calls[j])
                                   /\ j # i => calls'[j] = calls[j]
    BY <1>0, <1>2, StateFacts
  <1>4. Underway' = {i}
    BY <1>1, <1>3 DEF Underway, Working, Returning
  <1>5. Answering = {} /\ Answering' = {} /\ UNCHANGED <<row, request>>
    BY <1>1 DEF Configure, FailToConfigure, Answering, Serving, Calm, OneUnderway
  <1>6. calls'[i].state = "done" => applied' # Nothing /\ IsSame(calls'[i], applied')
    <2>1. CASE Configure(i)
      <3>1. calls[i] \in Call
        BY <1>0 DEF TypeOK
      <3>2. applied' \in Configuration /\ IsSame(calls[i], applied')
        BY <2>1, <3>1 DEF Configure, Call, Configuration, IsSame
      <3>3. QED
        BY <1>3, <3>2, NothingAssumption DEF IsSame
    <2>2. CASE FailToConfigure(i)
      <3>1. calls' = [calls EXCEPT ![i].state = "failed"]
        BY <2>2 DEF FailToConfigure
      <3>2. calls'[i].state = "failed"
        BY <1>0, <3>1, StateFacts
      <3>3. QED
        BY <3>2
    <2>3. QED
      BY <2>1, <2>2
  <1>7. row # NoRow => IsPendingConfiguration(row) \/ RowLocked
    BY <1>1 DEF Calm, SettledHasNone
  <1>8. RowLocked' <=> RowLocked
    BY <1>5 DEF RowLocked, Serving
  <1>9. IsLatest(calls[i])
    BY <1>1 DEF Calm, CallsAreLatest
  <1>10. (IsLatest(calls[i]))'
    BY <1>3, <1>5, <1>8, <1>9 DEF IsLatest, IsSame, Agrees, Submitting, Serving
  <1>11. OneUnderway' /\ AnswersAreLatest'
    BY <1>4, <1>5 DEF OneUnderway, AnswersAreLatest
  <1>12. SettledHasNone' /\ SettledIsLatest'
    BY <1>5, <1>7, <1>8 DEF SettledHasNone, SettledIsLatest, IsPendingConfiguration
  <1>13. CallsAreLatest'
    BY <1>3, <1>4, <1>6, <1>10 DEF CallsAreLatest
  <1>14. QED
    BY <1>11, <1>12, <1>13 DEF Calm

\* A callback arrives: the submission is no longer under way but being answered.
LEMMA CalmCallback ==
    ASSUME OrderInv, Calm, NEW w \in Workers, NEW i \in DOMAIN calls, BeginCallback(w, i)
    PROVE  Calm'
  <1> DEFINE q == [op |-> "callback", copy |-> row, error |-> calls[i].state = "failed",
                   updating |-> calls[i].updating]
  <1>0. TypeOK /\ row # NoRow
    BY DEF OrderInv, BeginCallback
  <1>1. i \in Underway /\ \A j \in Underway : j = i
    BY DEF BeginCallback, Underway, Calm, OneUnderway
  <1>2. /\ q \in Request /\ q.op = "callback"
        /\ q.error = (calls[i].state = "failed")
        /\ request' = [request EXCEPT ![w] = q]
    BY <1>0, CallbackType DEF BeginCallback
  <1> HIDE DEF q
  <1>3. /\ request'[w] = q /\ request'[w] # Idle
        /\ \A v \in Workers \ {w} : request'[v] = request[v]
    BY <1>0, <1>2, BeginServing
  <1>4. /\ DOMAIN calls' = DOMAIN calls /\ calls'[i].state = "answered"
        /\ \A j \in DOMAIN calls : j # i => calls'[j] = calls[j]
    BY <1>0, StateFacts DEF BeginCallback
  <1>5. Underway' = {}
    BY <1>1, <1>4 DEF Underway, Working, Returning
  <1>6. request[w] = Idle /\ Answering = {} /\ UNCHANGED <<row, applied>>
    BY <1>1 DEF BeginCallback, Calm, OneUnderway
  <1>7. Answering' = {w}
    BY <1>2, <1>3, <1>6 DEF Answering, Serving
  <1>8. \A v \in Workers : /\ Submitting(v)' <=> Submitting(v)
                           /\ Serving(v, "submitted")' <=> Serving(v, "submitted")
                           /\ Submitting(v) => request'[v] = request[v]
    BY <1>2, <1>3, <1>6 DEF Submitting, Serving
  <1>9. RowLocked' <=> RowLocked
    BY <1>8 DEF RowLocked
  <1>10. IsPendingConfiguration(row) \/ RowLocked
    BY <1>0, <1>1 DEF Calm, SettledHasNone
  <1>11. ~q.error => applied # Nothing /\ IsLatest(applied)
    <2>1. calls[i].state \in {"done", "failed"}
      BY DEF BeginCallback, Returning
    <2>2. QED
      BY <1>1, <1>2, <2>1 DEF Calm, CallsAreLatest, IsLatest, IsSame, Agrees
  <1>12. ASSUME NEW d, IsLatest(d)
         PROVE  IsLatest(d)'
    BY <1>6, <1>8, <1>9, <1>12 DEF IsLatest
  <1>13. OneUnderway' /\ CallsAreLatest'
    BY <1>5, <1>7 DEF OneUnderway, CallsAreLatest
  <1>14. SettledHasNone' /\ SettledIsLatest'
    BY <1>6, <1>9, <1>10 DEF SettledHasNone, SettledIsLatest, IsPendingConfiguration
  <1>15. AnswersAreLatest'
    BY <1>3, <1>6, <1>7, <1>11, <1>12 DEF AnswersAreLatest
  <1>16. QED
    BY <1>13, <1>14, <1>15 DEF Calm

\* The callback is saved: nothing is on its way any more.
LEMMA CalmComplete ==
    ASSUME OrderInv, Calm, NEW w \in Workers, OauthOrchestrationComplete(w),
           ~IsStaleCallback(w)
    PROVE  Calm'
  <1>0. TypeOK /\ request[w] # Idle /\ w \in Answering /\ ~RowLocked /\ End(w)
    BY DEF OrderInv, OauthOrchestrationComplete, Serving, Answering
  <1>1. /\ row \in Row /\ request[w].copy = row /\ request[w].error \in BOOLEAN
        /\ request[w].updating \in BOOLEAN
        /\ row' = Completed(row, request[w].error, request[w].updating)
    BY <1>0, RequestFacts DEF OauthOrchestrationComplete, IsStaleCallback, Serving
  <1>2. /\ row' \in Row /\ IsSame(row', row) /\ row'.unsent = row.unsent
        /\ request[w].error => row'.errored
        /\ ~request[w].error => row'.configured
    BY <1>1, CompletedFacts
  <1>3. /\ request'[w] = Idle
        /\ \A v \in Workers \ {w} : request'[v] = request[v]
    BY <1>0, EndServing
  <1>4. UNCHANGED <<calls, applied>>
    BY DEF OauthOrchestrationComplete
  <1>5. Underway = {} /\ \A v \in Answering : v = w
    BY <1>0 DEF Calm, OneUnderway
  <1>6. Underway' = {} /\ Answering' = {}
    BY <1>3, <1>4, <1>5 DEF Underway, Working, Returning, Answering, Serving
  <1>7. row # NoRow
    BY <1>1, RowAssumption
  <1>8. ~request[w].error => applied # Nothing /\ Agrees(applied, row)
    BY <1>0, <1>7 DEF Calm, AnswersAreLatest, IsLatest
  <1>9. OneUnderway' /\ SettledHasNone' /\ CallsAreLatest' /\ AnswersAreLatest'
    BY <1>6 DEF OneUnderway, SettledHasNone, CallsAreLatest, AnswersAreLatest
  <1>10. SettledIsLatest'
    BY <1>2, <1>4, <1>8 DEF SettledIsLatest, Agrees, IsSame
  <1>11. QED
    BY <1>9, <1>10 DEF Calm

\* Every step of a process, unless something goes wrong with it.
LEMMA CalmWorker ==
    ASSUME OrderInv, Calm, upset' = {}, NEW w \in Workers, Administrator(w) \/ Callback(w)
    PROVE  Calm'
  <1>0. TypeOK /\ RequestsHaveRow
    BY DEF OrderInv
  <1>1. ASSUME NEW data \in Data, NEW extra \in Extras, NEW active \in BOOLEAN,
               BeginCreate(w, data, extra, active)
        PROVE  Calm'
    <2> DEFINE r == NewRow(data, extra, active)
               q == [op |-> "create", row |-> r]
    <2>1. r \in Row /\ q \in Request /\ q.op = "create" /\ q.row = r /\ IsSame(q.row, r)
      BY NewRowFacts DEF Request, IsSame
    <2>2. \A v \in Workers : request[v] = Idle
      BY <1>1 DEF BeginCreate, OrderInv, CreatedOnce, RequestsHaveRow, Serving
    <2>3. Underway = {} /\ Answering = {} /\ \A v \in Workers : ~Submitting(v)
      BY <1>1, <2>2 DEF BeginCreate, Underway, Working, Returning, Answering, Serving,
                        Submitting
    <2>4. /\ Submit(r, FALSE) /\ row' = NoRow
          /\ request' = [request EXCEPT ![w] = q]
      BY <1>1 DEF BeginCreate
    <2> HIDE DEF q, r
    <2>5. QED
      BY <2>1, <2>3, <2>4, CalmSubmit
  <1>2. CASE CommitCreate(w) \/ CommitUpdate(w)
    <2>1. /\ Submitting(w) /\ row' = request[w].row /\ End(w)
          /\ UNCHANGED <<calls, applied>>
      BY <1>2 DEF CommitCreate, CommitUpdate, Submitting
    <2>2. QED
      BY <2>1, CalmCommit
  <1>3. ASSUME NEW patch \in Patch, BeginUpdate(w, patch)
        PROVE  Calm'
    <2> DEFINE q == [op |-> "update", patch |-> patch, needs |-> Differs(patch, row)]
    <2>1. q \in Request /\ q.op = "update" /\ request' = [request EXCEPT ![w] = q]
      BY <1>3, UpdateType DEF BeginUpdate
    <2> HIDE DEF q
    <2>2. /\ request'[w] = q
          /\ \A v \in Workers \ {w} : request'[v] = request[v]
      BY <1>0, <2>1, BeginServing
    <2>3. request[w] = Idle /\ UNCHANGED <<row, calls, applied>>
      BY <1>3 DEF BeginUpdate
    <2>4. QED
      BY <2>1, <2>2, <2>3, CalmKept
  <1>4. CASE Update(w)
    <2>1. /\ row \in Row /\ request[w].patch \in Patch /\ row # NoRow
          /\ request[w].op = "update"
      BY <1>0, <1>4, RequestFacts DEF Update, TypeOK, Serving, RequestsHaveRow
    <2>2. ~Differs(request[w].patch, row)
      BY <1>4, <2>1 DEF Update, Overtaken, IsStaleUpdate, Differs
    <2>3. /\ row' # NoRow /\ row'.data = row.data
          /\ row.unsent => row'.unsent
          /\ row'.extra = row.extra \/ row'.unsent
          /\ row'.configured = row.configured /\ row'.errored = row.errored
          /\ row'.elapsed = row.elapsed
      BY <1>4, <2>1, <2>2, RowFacts DEF Update
    <2>4. End(w) /\ UNCHANGED <<calls, applied>>
      BY <1>4 DEF Update
    <2>5. QED
      BY <1>0, <2>1, <2>3, <2>4, EndServing, CalmKept
  <1>5. CASE UpdateAndSubmit(w)
    <2> DEFINE new == Patched(row, request[w].patch)
               q == [op |-> "submitted", row |-> Submitted(new)]
    <2>1. row \in Row /\ request[w].patch \in Patch /\ row # NoRow
      BY <1>0, <1>5, RequestFacts DEF UpdateAndSubmit, TypeOK, Serving, RequestsHaveRow
    <2>2. /\ new \in Row /\ Submitted(new) \in Row /\ IsSame(Submitted(new), new)
      BY <2>1, RowFacts, SubmittedFacts
    <2>3. /\ q \in Request /\ q.op = "submitted" /\ q.row = Submitted(new)
      BY <2>2 DEF Request
    <2>4. /\ request' = [request EXCEPT ![w] = q] /\ Submit(new, TRUE)
          /\ ~RowLocked /\ ~IsPendingConfiguration(row)
      BY <1>5 DEF UpdateAndSubmit, MaySubmit
    <2>5. Underway = {} /\ Answering = {}
      BY <2>1, <2>4 DEF Calm, SettledHasNone
    <2>6. \A v \in Workers : ~Submitting(v)
      BY <2>1, <2>4 DEF OrderInv, CreatedOnce, RowLocked, Submitting
    <2> HIDE DEF q, new
    <2>7. QED
      BY <2>2, <2>3, <2>4, <2>5, <2>6, CalmSubmit
  <1>6. CASE RefuseUpdate(w)
    BY <1>0, <1>6, EndServing, CalmKept DEF RefuseUpdate, Serving
  <1>7. CASE LoseResponse(w)
    BY <1>7 DEF LoseResponse
  <1>8. ASSUME NEW i \in DOMAIN calls, BeginCallback(w, i)
        PROVE  Calm'
    BY <1>8, CalmCallback
  <1>9. CASE OauthOrchestrationComplete(w)
    <2>1. ~IsStaleCallback(w)
      BY <1>9 DEF OauthOrchestrationComplete, Overtaken
    <2>2. QED
      BY <1>9, <2>1, CalmComplete
  <1>10. QED
    BY <1>1, <1>2, <1>3, <1>4, <1>5, <1>6, <1>7, <1>8, <1>9 DEF Administrator, Callback

\* Every step, unless something goes wrong with it.
LEMMA CalmNext ==
    ASSUME OrderInv, Calm, upset' = {}, [Next]_vars
    PROVE  Calm'
  <1>1. CASE Destroy
    <2>1. row \in Row
      BY <1>1 DEF Destroy, OrderInv, TypeOK
    <2>2. /\ [row EXCEPT !.removed = TRUE] \in Row
          /\ [row EXCEPT !.removed = TRUE].data = row.data
          /\ [row EXCEPT !.removed = TRUE].extra = row.extra
          /\ [row EXCEPT !.removed = TRUE].unsent = row.unsent
          /\ [row EXCEPT !.removed = TRUE].configured = row.configured
          /\ [row EXCEPT !.removed = TRUE].errored = row.errored
          /\ [row EXCEPT !.removed = TRUE].elapsed = row.elapsed
      BY <2>1 DEF Row
    <2>3. /\ row # NoRow /\ row' = [row EXCEPT !.removed = TRUE]
          /\ UNCHANGED <<request, calls, applied>>
      BY <1>1 DEF Destroy
    <2>4. row' # NoRow
      BY <2>2, <2>3, RowAssumption
    <2>5. QED
      BY <2>2, <2>3, <2>4, CalmKept
  <1>2. CASE TimeOut
    BY <1>2 DEF TimeOut
  <1>3. CASE Orchestrator
    BY <1>3, CalmConfigure DEF Orchestrator, NotFound
  <1>4. CASE UNCHANGED vars
    BY <1>4, CalmKept DEF vars
  <1>5. QED
    BY <1>1, <1>2, <1>3, <1>4, CalmWorker DEF Next

\* What went wrong is not forgotten.
LEMMA UpsetGrows ==
    ASSUME [Next]_vars
    PROVE  upset \subseteq upset'
  BY DEF Next, vars, Administrator, BeginCreate, CommitCreate, BeginUpdate, Update,
         UpdateAndSubmit, CommitUpdate, RefuseUpdate, LoseResponse, Destroy, Orchestrator,
         Configure, FailToConfigure, NotFound, Callback, BeginCallback,
         OauthOrchestrationComplete, TimeOut, Overtaken

LEMMA Invariant == Spec => []IInv
  <1>1. Init => IInv
    BY TypeInit, OrderInit, CalmInit DEF IInv, OrderInv, OrderParts
  <1>2. IInv /\ [Next]_vars => IInv'
    <2> SUFFICES ASSUME IInv, [Next]_vars PROVE IInv'
      OBVIOUS
    <2>1. OrderInv'
      BY OrderNext DEF IInv
    <2>2. ASSUME upset' = {} PROVE Calm'
      BY <2>2, UpsetGrows, CalmNext DEF IInv
    <2>3. QED
      BY <2>1, <2>2 DEF IInv
  <1>3. QED
    BY <1>1, <1>2, PTL DEF Spec

-----------------------------------------------------------------------------
(* The properties                                                          *)

\* Every value has its type.
THEOREM TypeCorrect == Spec => []TypeOK
  <1>1. IInv => TypeOK
    BY DEF IInv, OrderInv
  <1>2. QED
    BY Invariant, <1>1, PTL

\* The orchestrator never works on two submissions, unless something went
\* wrong (the refusal of updates while a configuration is pending).
THEOREM WorksOnOne == Spec => []OneAtATime
  <1>1. IInv => OneAtATime
    <2> SUFFICES ASSUME IInv, upset = {} PROVE Cardinality(Working) <= 1
      BY DEF OneAtATime
    <2>1. \A i, j \in Working : i = j
      BY DEF IInv, Calm, OneUnderway, Underway
    <2>2. CASE Working = {}
      BY <2>2, FS_EmptySet
    <2>3. CASE Working # {}
      <3>1. PICK i : Working = {i}
        BY <2>1, <2>3
      <3>2. QED
        BY <3>1, FS_Singleton
    <2>4. QED
      BY <2>2, <2>3
  <1>2. QED
    BY Invariant, <1>1, PTL

\* A record that counts as configured, while nothing is under way, holds what
\* the orchestrator has configured, but for changes of fields that are not locked
\* (update does not submit them), unless something went wrong.
THEOREM SettledMatches == Spec => []SettledMatchesOrchestrator
  <1>1. IInv => SettledMatchesOrchestrator
    BY DEF IInv, Calm, SettledIsLatest, SettledMatchesOrchestrator, RowLocked, Serving, Agrees
  <1>2. QED
    BY Invariant, <1>1, PTL

\* While a configuration is pending only a request that had read an older row
\* changes the locked fields (update and oauth_orchestration_complete).
THEOREM PendingIsLocked == Spec => LockedWhileConfiguring
  <1> DEFINE Stale == \E w \in Workers : IsStaleUpdate(w) \/ IsStaleCallback(w)
  <1>1. ASSUME IInv, [Next]_vars, row # NoRow, IsPendingConfiguration(row),
               row'.data # row.data
        PROVE  Stale
    <2>0. /\ TypeOK /\ RequestsHaveRow /\ row \in Row
          /\ \A w \in Workers : ~Submitting(w)
      BY <1>1 DEF IInv, OrderInv, CreatedOnce, SubmitsSettled, Submitting, TypeOK
    <2>1. CASE Destroy \/ TimeOut
      BY <1>1, <2>0, <2>1 DEF Destroy, TimeOut, Row
    <2>2. ASSUME NEW w \in Workers, Update(w)
          PROVE  Stale
      <3>1. request[w].patch \in Patch /\ Serving(w, "update") /\ ~request[w].needs
        BY <2>0, <2>2, RequestFacts DEF Update, Serving
      <3>2. Differs(request[w].patch, row)
        BY <1>1, <2>0, <2>2, <3>1, RowFacts DEF Update
      <3>3. QED
        BY <3>1, <3>2 DEF IsStaleUpdate
    <2>3. ASSUME NEW w \in Workers, OauthOrchestrationComplete(w)
          PROVE  Stale
      <3>1. /\ Serving(w, "callback") /\ request[w].copy \in Row
            /\ request[w].error \in BOOLEAN /\ request[w].updating \in BOOLEAN
        BY <2>0, <2>3, RequestFacts DEF OauthOrchestrationComplete, Serving
      <3>2. row'.data = request[w].copy.data
        BY <2>3, <3>1, CompletedFacts DEF OauthOrchestrationComplete, IsSame
      <3>3. QED
        BY <1>1, <3>1, <3>2 DEF IsStaleCallback
    <2>4. ASSUME NEW w \in Workers, CommitCreate(w) \/ CommitUpdate(w)
          PROVE  Stale
      BY <2>0, <2>4 DEF CommitCreate, CommitUpdate, Submitting
    <2>5. ~UNCHANGED row
      BY <1>1
    <2>6. QED
      BY <1>1, <2>1, <2>2, <2>3, <2>4, <2>5
         DEF Next, vars, Administrator, BeginCreate, BeginUpdate, UpdateAndSubmit,
             RefuseUpdate, LoseResponse, Orchestrator, Configure, FailToConfigure, NotFound,
             Callback, BeginCallback
  <1>2. IInv /\ [Next]_vars =>
           [row # NoRow /\ IsPendingConfiguration(row) /\ row'.data # row.data => Stale]_vars
    BY <1>1
  <1> HIDE DEF Stale
  <1>3. QED
    BY Invariant, <1>2, PTL DEF Spec, LockedWhileConfiguring, Stale
=============================================================================
