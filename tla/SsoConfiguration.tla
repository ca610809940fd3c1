--------------------------- MODULE SsoConfiguration ---------------------------
(***************************************************************************)
(* One SSO configuration record and the orchestrator that configures the   *)
(* identity provider for it.  Creating the record, or changing one of its  *)
(* locked fields, calls the orchestrator inside the transaction that       *)
(* writes the row; the orchestrator works for a while and then calls back. *)
(*                                                                         *)
(* A change reads the row, writes it and calls, and commits; the row is    *)
(* locked from its write to the commit.  A callback reads the row and      *)
(* saves all of it.  The time stamps of the row are kept as what           *)
(* is_pending_configuration makes of them: whether the orchestrator has    *)
(* answered, or the time limit has passed, since the last submission.      *)
(***************************************************************************)
EXTENDS Naturals, Sequences, FiniteSets

CONSTANTS
    Data,      \* values of the locked fields other than active
    Extras,    \* values of what is submitted and not locked: first_name_attribute
    Workers,   \* processes that serve requests
    MaxCalls,  \* bound: calls to the orchestrator
    Keep,      \* of a field that a request does not name
    NoRow,
    Nothing,   \* the orchestrator has not configured anything
    Idle

ASSUME CallsAssumption == MaxCalls \in Nat
ASSUME FieldAssumption == Keep \notin Data /\ Keep \notin Extras /\ Keep \notin BOOLEAN

VARIABLES
    row,      \* the configuration record
    request,  \* the request each worker serves
    calls,    \* the calls that reached the orchestrator, and their fate
    applied,  \* what the orchestrator has configured last
    upset     \* history: events after which record and orchestrator may differ

vars == <<row, request, calls, applied, upset>>

\* configured, errored: since the submission; known: configured ever; unsent, a
\* history: an update has changed extra and was not submitted
Row == [data : Data, extra : Extras, active : BOOLEAN, configured : BOOLEAN,
        errored : BOOLEAN, elapsed : BOOLEAN, known : BOOLEAN, removed : BOOLEAN,
        unsent : BOOLEAN]
Configuration == [data : Data, extra : Extras, enabled : BOOLEAN]
Patch == [data : Data \union {Keep}, extra : Extras \union {Keep},
          active : BOOLEAN \union {Keep}]

\* working: not answered; done, failed: on the way back
Call == [data : Data, extra : Extras, enabled : BOOLEAN, updating : BOOLEAN,
         state : {"working", "done", "failed", "answered"}]
Request ==
    [op : {"create"}, row : Row]
        \union [op : {"update"}, patch : Patch, needs : BOOLEAN]
        \union [op : {"submitted"}, row : Row]
        \union [op : {"callback"}, copy : Row, error : BOOLEAN, updating : BOOLEAN]

ASSUME RowAssumption == NoRow \notin Row
ASSUME NothingAssumption == Nothing \notin Configuration
ASSUME IdleAssumption == Idle \notin Request

TypeOK ==
    /\ row \in Row \union {NoRow}
    /\ request \in [Workers -> Request \union {Idle}]
    /\ calls \in Seq(Call) /\ Len(calls) <= MaxCalls
    /\ applied \in Configuration \union {Nothing}
    /\ upset \in SUBSET {"timeout", "lost", "overtaken"}

Init ==
    /\ row = NoRow
    /\ request = [w \in Workers |-> Idle]
    /\ calls = <<>>
    /\ applied = Nothing
    /\ upset = {}

Serving(w, op) == request[w] # Idle /\ request[w].op = op

\* A transaction that has written the row holds its lock.
RowLocked == \E w \in Workers : Serving(w, "submitted")

End(w) == request' = [request EXCEPT ![w] = Idle]

IsPendingConfiguration(r) == ~r.elapsed /\ ~r.errored /\ ~r.configured

\* Mutant: a pending record may be submitted, too.
MaySubmitAlways(r) == TRUE

MaySubmit(r) == ~IsPendingConfiguration(r)

\* Mutant: only a change of active counts.
DiffersInActive(patch, r) == patch.active \notin {Keep, r.active}

\* update: does the request change a locked field?
Differs(patch, r) == patch.data \notin {Keep, r.data} \/ patch.active \notin {Keep, r.active}

Patched(r, patch) ==
    [r EXCEPT !.data = IF patch.data = Keep THEN @ ELSE patch.data,
              !.extra = IF patch.extra = Keep THEN @ ELSE patch.extra,
              !.active = IF patch.active = Keep THEN @ ELSE patch.active,
              !.unsent = @ \/ patch.extra \notin {Keep, r.extra}]

\* Mutant: the answers to the submission before are kept.
SubmittedAgain(r) == [r EXCEPT !.elapsed = FALSE]

Submitted(r) ==
    [r EXCEPT !.configured = FALSE, !.errored = FALSE, !.elapsed = FALSE, !.unsent = FALSE]

\* configure_sso_orchestration_record: a record that is created is enabled.
Submit(r, updating) ==
    /\ Len(calls) < MaxCalls
    /\ calls' = Append(calls, [data |-> r.data, extra |-> r.extra,
                               enabled |-> updating => r.active,
                               updating |-> updating, state |-> "working"])

-----------------------------------------------------------------------------
(* create, update, destroy                                                 *)

\* Mutant: the answer is left undefined.
NewRowUnanswered(data, extra, active) ==
    [data |-> data, extra |-> extra, active |-> active, configured |-> FALSE,
     errored |-> Nothing, elapsed |-> FALSE, known |-> FALSE, removed |-> FALSE,
     unsent |-> FALSE]

NewRow(data, extra, active) ==
    [data |-> data, extra |-> extra, active |-> active, configured |-> FALSE,
     errored |-> FALSE, elapsed |-> FALSE, known |-> FALSE, removed |-> FALSE,
     unsent |-> FALSE]

BeginCreate(w, data, extra, active) ==
    /\ request[w] = Idle /\ row = NoRow /\ calls = <<>>
    /\ Submit(NewRow(data, extra, active), FALSE)
    /\ request' = [request EXCEPT ![w] = [op |-> "create", row |-> NewRow(data, extra, active)]]
    /\ UNCHANGED <<row, applied, upset>>

CommitCreate(w) ==
    /\ Serving(w, "create")
    /\ row' = request[w].row
    /\ End(w)
    /\ UNCHANGED <<calls, applied, upset>>

\* needs_submitting is found out before the row is written.
BeginUpdate(w, patch) ==
    /\ request[w] = Idle /\ row # NoRow
    /\ request' = [request EXCEPT ![w] =
           [op |-> "update", patch |-> patch, needs |-> Differs(patch, row)]]
    /\ UNCHANGED <<row, calls, applied, upset>>

IsStaleUpdate(w) ==
    Serving(w, "update") /\ request[w].needs # Differs(request[w].patch, row)

Overtaken(stale) == upset' = upset \union (IF stale THEN {"overtaken"} ELSE {})

\* No locked field changes: the update ends here, whatever else it has changed.
Update(w) ==
    /\ Serving(w, "update") /\ ~RowLocked
    /\ ~request[w].needs
    /\ row' = Patched(row, request[w].patch)
    /\ Overtaken(IsStaleUpdate(w))
    /\ End(w)
    /\ UNCHANGED <<calls, applied>>

UpdateAndSubmit(w) ==
    /\ Serving(w, "update") /\ ~RowLocked
    /\ request[w].needs
    /\ MaySubmit(row)
    /\ Submit(Patched(row, request[w].patch), TRUE)
    /\ request' = [request EXCEPT ![w] =
           [op |-> "submitted", row |-> Submitted(Patched(row, request[w].patch))]]
    /\ Overtaken(IsStaleUpdate(w))
    /\ UNCHANGED <<row, applied>>

CommitUpdate(w) ==
    /\ Serving(w, "submitted")
    /\ row' = request[w].row
    /\ End(w)
    /\ UNCHANGED <<calls, applied, upset>>

\* The record is pending, or the call does not reach the orchestrator.
RefuseUpdate(w) ==
    /\ Serving(w, "update")
    /\ End(w)
    /\ UNCHANGED <<row, calls, applied, upset>>

\* The orchestrator has got the call and its response does not arrive.
LoseResponse(w) ==
    /\ Serving(w, "create") \/ Serving(w, "submitted")
    /\ upset' = upset \union {"lost"}
    /\ End(w)
    /\ UNCHANGED <<row, calls, applied>>

Destroy ==
    /\ row # NoRow /\ ~row.removed /\ ~RowLocked
    /\ row' = [row EXCEPT !.removed = TRUE]
    /\ UNCHANGED <<request, calls, applied, upset>>

-----------------------------------------------------------------------------
(* The orchestrator, and oauth_orchestration_complete                      *)

Working == {i \in DOMAIN calls : calls[i].state = "working"}
Returning == {i \in DOMAIN calls : calls[i].state \in {"done", "failed"}}

Configure(i) ==
    /\ i \in Working
    /\ applied' = [data |-> calls[i].data, extra |-> calls[i].extra,
                   enabled |-> calls[i].enabled]
    /\ calls' = [calls EXCEPT ![i].state = "done"]
    /\ UNCHANGED <<row, request, upset>>

FailToConfigure(i) ==
    /\ i \in Working
    /\ calls' = [calls EXCEPT ![i].state = "failed"]
    /\ UNCHANGED <<row, request, applied, upset>>

\* A record that is not committed yet, or removed, is not found.
NotFound(i) ==
    /\ i \in Returning
    /\ row # NoRow => row.removed
    /\ calls' = [calls EXCEPT ![i].state = "answered"]
    /\ upset' = upset \union {"lost"}
    /\ UNCHANGED <<row, request, applied>>

BeginCallback(w, i) ==
    /\ i \in Returning /\ request[w] = Idle
    /\ row # NoRow /\ ~row.removed
    /\ calls' = [calls EXCEPT ![i].state = "answered"]
    /\ request' = [request EXCEPT ![w] =
           [op |-> "callback", copy |-> row, error |-> calls[i].state = "failed",
            updating |-> calls[i].updating]]
    /\ UNCHANGED <<row, applied, upset>>

\* The row that is saved.
Completed(copy, error, updating) ==
    IF error THEN [copy EXCEPT !.errored = TRUE]
    ELSE [copy EXCEPT !.active = ~copy.known \/ ~updating \/ copy.active,
                      !.configured = TRUE, !.known = TRUE]

IsStaleCallback(w) == Serving(w, "callback") /\ request[w].copy # row

OauthOrchestrationComplete(w) ==
    LET q == request[w] IN
    /\ Serving(w, "callback") /\ ~RowLocked
    /\ row' = Completed(q.copy, q.error, q.updating)
    /\ Overtaken(IsStaleCallback(w))
    /\ End(w)
    /\ UNCHANGED <<calls, applied>>

\* ENTERPRISE_SSO_ORCHESTRATOR_TIMEOUT_HOURS pass without an answer.
TimeOut ==
    /\ row # NoRow /\ IsPendingConfiguration(row)
    /\ row' = [row EXCEPT !.elapsed = TRUE]
    /\ upset' = upset \union {"timeout"}
    /\ UNCHANGED <<request, calls, applied>>

-----------------------------------------------------------------------------
Administrator(w) ==
    \/ \E data \in Data, extra \in Extras, active \in BOOLEAN :
           BeginCreate(w, data, extra, active)
    \/ CommitCreate(w)
    \/ \E patch \in Patch : BeginUpdate(w, patch)
    \/ Update(w)
    \/ UpdateAndSubmit(w)
    \/ CommitUpdate(w)
    \/ RefuseUpdate(w)
    \/ LoseResponse(w)

Orchestrator ==
    \E i \in DOMAIN calls : Configure(i) \/ FailToConfigure(i) \/ NotFound(i)

Callback(w) ==
    \/ \E i \in DOMAIN calls : BeginCallback(w, i)
    \/ OauthOrchestrationComplete(w)

Next ==
    \/ \E w \in Workers : Administrator(w) \/ Callback(w)
    \/ Destroy
    \/ Orchestrator
    \/ TimeOut

Spec == Init /\ [][Next]_vars

-----------------------------------------------------------------------------
(* Properties                                                              *)

\* What the orchestrator is working on does not change under it: while the
\* configuration is pending the locked fields keep their values, unless a
\* request that had read an older row overwrites it.
LockedWhileConfiguring ==
    [][row # NoRow /\ IsPendingConfiguration(row) /\ row'.data # row.data =>
          \E w \in Workers : IsStaleUpdate(w) \/ IsStaleCallback(w)]_vars

\* The orchestrator never works on two submissions of the record, unless a
\* time limit passed, a response or callback was lost, or a stale row was saved.
OneAtATime == upset = {} => Cardinality(Working) <= 1

\* With the same exceptions, a record that counts as configured, while nothing
\* is under way, holds in its locked fields what the orchestrator has configured;
\* so it does in the other fields that are submitted, unless an update that
\* changed no locked field has changed them since.
SettledMatchesOrchestrator ==
    /\ upset = {} /\ row # NoRow
    /\ row.configured /\ ~row.errored
    /\ Working \union Returning = {} /\ \A w \in Workers : request[w] = Idle
    => /\ applied # Nothing /\ applied.data = row.data
       /\ applied.extra = row.extra \/ row.unsent

\* A record whose orchestration is complete, and that is active, is enabled.
ActiveIsEnabled ==
    /\ upset = {} /\ row # NoRow
    /\ row.configured /\ ~row.errored /\ row.active
    /\ Working \union Returning = {} /\ \A w \in Workers : request[w] = Idle
    => applied.enabled
===============================================================================
