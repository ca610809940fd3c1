------------------------------ MODULE InviteKeys ------------------------------
(***************************************************************************)
(* The invite keys of one customer and the learners who join with them.    *)
(* A request reads the key, the count of its users or the count of the     *)
(* keys, and writes when its transaction commits: joining, creating and    *)
(* changing a key are two steps each.  A key counts the learners who are   *)
(* linked now and whose row names it.                                      *)
(***************************************************************************)
EXTENDS Naturals, FiniteSets

CONSTANTS
    Learners,
    Keys,        \* keys that may be created
    Workers,     \* processes that serve requests
    UsageLimit,  \* the usage_limit of every key
    MaxKeys,     \* MAX_INVITE_KEYS
    NoKey,
    NoRow,
    Idle

ASSUME LimitAssumption == UsageLimit \in Nat /\ MaxKeys \in Nat
ASSUME NameAssumption  == NoKey \notin Keys
ASSUME WorkerAssumption == IsFiniteSet(Workers) /\ Workers # {}

VARIABLES
    key,       \* the row of each key
    link,      \* the EnterpriseCustomerUser row of each learner
    universal, \* enable_universal_link
    request    \* the request each worker serves

vars == <<key, link, universal, request>>

Key == [active : BOOLEAN, expired : BOOLEAN]

ASSUME RowAssumption == NoKey \notin Key

\* readmitted: linked again by an administrator, not with the key
Row == [linked : BOOLEAN, active : BOOLEAN, key : Keys \union {NoKey}, readmitted : BOOLEAN]

Request ==
    [op : {"join"}, learner : Learners, key : Keys, new : BOOLEAN]
        \union [op : {"patch"}, key : Keys, copy : Key]
        \union [op : {"create"}, key : Keys]

TypeOK ==
    /\ key \in [Keys -> Key \union {NoKey}]
    /\ link \in [Learners -> Row \union {NoRow}]
    /\ universal \in BOOLEAN
    /\ request \in [Workers -> Request \union {Idle}]

Init ==
    /\ key = [k \in Keys |-> NoKey]
    /\ link = [l \in Learners |-> NoRow]
    /\ universal = FALSE
    /\ request = [w \in Workers |-> Idle]

IsLinked(row) == row # NoRow /\ row.linked

UsageCount(k) == Cardinality({l \in Learners : IsLinked(link[l]) /\ link[l].key = k})
KeyCount == Cardinality({k \in Keys : key[k] # NoKey})

\* Mutant: off by one.
IsValidUpTo(k) == key[k].active /\ ~key[k].expired /\ UsageCount(k) <= UsageLimit

IsValid(k) == key[k].active /\ ~key[k].expired /\ UsageCount(k) < UsageLimit

Begin(w, q) ==
    /\ request[w] = Idle
    /\ request' = [request EXCEPT ![w] = q]
    /\ UNCHANGED <<key, link, universal>>

\* Also the end of a request that fails.
End(w) ==
    /\ request[w] # Idle
    /\ request' = [request EXCEPT ![w] = Idle]

Serving(w, op) == request[w] # Idle /\ request[w].op = op

-----------------------------------------------------------------------------
(* Joining with a key                                                      *)

\* A learner who is linked and active is welcomed without a change.
BeginJoin(w, l, k) ==
    /\ key[k] # NoKey /\ IsValid(k)
    /\ link[l] # NoRow => ~link[l].linked \/ ~link[l].active
    /\ Begin(w, [op |-> "join", learner |-> l, key |-> k, new |-> link[l] = NoRow])

\* get_or_create reads again a row that has appeared since it found none, unless
\* save can take it over, and welcomes a learner who is linked and active by now.
AlreadyIn(q) == q.new /\ IsLinked(link[q.learner]) /\ link[q.learner].active

Join(w) ==
    LET q == request[w] IN
    /\ Serving(w, "join")
    /\ link' = IF AlreadyIn(q) THEN link
               ELSE [link EXCEPT ![q.learner] =
                   [linked |-> TRUE, active |-> TRUE, key |-> q.key, readmitted |-> FALSE]]
    /\ End(w)
    /\ UNCHANGED <<key, universal>>

Unlink(l) ==
    /\ IsLinked(link[l])
    /\ link' = [link EXCEPT ![l].linked = FALSE, ![l].active = FALSE,
                              ![l].readmitted = FALSE]
    /\ UNCHANGED <<key, universal, request>>

\* The learner turns to another customer.
Inactivate(l) ==
    /\ IsLinked(link[l]) /\ link[l].active
    /\ link' = [link EXCEPT ![l].active = FALSE]
    /\ UNCHANGED <<key, universal, request>>

\* link_user of an administrator, who needs no key: the row keeps its own.
LinkByAdmin(l) ==
    /\ ~IsLinked(link[l])
    /\ link' = [link EXCEPT ![l] =
           IF @ = NoRow
           THEN [linked |-> TRUE, active |-> TRUE, key |-> NoKey, readmitted |-> TRUE]
           ELSE [@ EXCEPT !.linked = TRUE, !.active = TRUE, !.readmitted = TRUE]]
    /\ UNCHANGED <<key, universal, request>>

-----------------------------------------------------------------------------
(* EnterpriseCustomerInviteKey.save                                        *)

MayCreate(k) == key[k] = NoKey /\ KeyCount < MaxKeys

\* Mutant: the date of expiry is missing.
NewKeyUndated == [active |-> TRUE]

NewKey == [active |-> TRUE, expired |-> FALSE]

BeginCreate(w, k) == MayCreate(k) /\ Begin(w, [op |-> "create", key |-> k])

Create(w) ==
    /\ Serving(w, "create")
    /\ key[request[w].key] = NoKey
    /\ key' = [key EXCEPT ![request[w].key] = NewKey]
    /\ End(w)
    /\ UNCHANGED <<link, universal>>

BeginPatch(w, k) == key[k] # NoKey /\ Begin(w, [op |-> "patch", key |-> k, copy |-> key[k]])

\* Mutant: the value that was loaded is not compared.
SavedUnchecked(copy, active, expired) == TRUE

\* Cannot reactivate an inactive invite key.
MaySave(copy, active, expired) == active => copy.active

\* The whole row is saved: an update of the expiration date writes the value of
\* is_active that it has read.
Patch(w, active, expired) ==
    LET q == request[w] IN
    /\ Serving(w, "patch")
    /\ MaySave(q.copy, active, expired)
    /\ key' = [key EXCEPT ![q.key] = [active |-> active, expired |-> expired]]
    /\ End(w)
    /\ UNCHANGED <<link, universal>>

FailRequest(w) ==
    /\ End(w)
    /\ UNCHANGED <<key, link, universal>>

Expire(k) ==
    /\ key[k] # NoKey /\ ~key[k].expired
    /\ key' = [key EXCEPT ![k].expired = TRUE]
    /\ UNCHANGED <<link, universal, request>>

-----------------------------------------------------------------------------
(* toggle_universal_link                                                   *)

\* At the limit of keys the whole request fails.
EnableUniversalLink(k) ==
    /\ ~universal /\ MayCreate(k)
    /\ universal' = TRUE
    /\ key' = [key EXCEPT ![k] = NewKey]
    /\ UNCHANGED <<link, request>>

AllDeactivated == [k \in Keys |->
    IF key[k] # NoKey THEN [key[k] EXCEPT !.active = FALSE] ELSE NoKey]

DisableUniversalLink ==
    /\ universal
    /\ universal' = FALSE
    /\ key' = AllDeactivated
    /\ UNCHANGED <<link, request>>

-----------------------------------------------------------------------------
Serve(w) ==
    \/ \E l \in Learners, k \in Keys : BeginJoin(w, l, k)
    \/ \E k \in Keys : BeginCreate(w, k) \/ BeginPatch(w, k)
    \/ Join(w)
    \/ Create(w)
    \/ \E active, expired \in BOOLEAN : Patch(w, active, expired)
    \/ FailRequest(w)

Next ==
    \/ \E w \in Workers : Serve(w)
    \/ \E l \in Learners : Unlink(l) \/ Inactivate(l) \/ LinkByAdmin(l)
    \/ \E k \in Keys : Expire(k) \/ EnableUniversalLink(k)
    \/ DisableUniversalLink

Spec == Init /\ [][Next]_vars

-----------------------------------------------------------------------------
(* Properties                                                              *)

\* The learners a key has linked exceed its limit by at most one for each
\* further request in progress.  (Those who had left and were readmitted by an
\* administrator come on top.)
UsageWithinLimit ==
    \A k \in Keys :
        Cardinality({l \in Learners : /\ IsLinked(link[l]) /\ link[l].key = k
                                      /\ ~link[l].readmitted})
            < UsageLimit + Cardinality(Workers)

\* Likewise for the number of the customer's keys.
KeysWithinLimit ==
    KeyCount < MaxKeys + Cardinality(Workers) + 1

\* However the requests interleave, limits that are read before the rows they
\* limit are written are exceeded by the requests in progress only.
WithinLimits == UsageWithinLimit /\ KeysWithinLimit

\* A key that was deactivated stays so, unless a request that had read it
\* before saves it afterwards.
InactiveUnlessOvertaken ==
    [][\A k \in Keys :
          key[k] # NoKey /\ ~key[k].active /\ key'[k].active =>
              \E w \in Workers :
                  /\ Serving(w, "patch") /\ request'[w] = Idle
                  /\ request[w].key = k /\ request[w].copy.active]_vars

\* The help text of usage_limit: the number of times this key can be used to
\* link a learner.
UsageLimitHolds == \A k \in Keys : UsageCount(k) <= UsageLimit
===============================================================================
