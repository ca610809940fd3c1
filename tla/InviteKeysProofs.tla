--------------------------- MODULE InviteKeysProofs ---------------------------
(***************************************************************************)
(* Proofs for InviteKeys.  A limit is read while there is room below it,   *)
(* so that rows and requests in progress together never exceed the limit   *)
(* by more than the number of workers; a request that writes gives its     *)
(* place to the row.  Learners and Keys may be infinite: at any time       *)
(* finitely many of them have a row.                                       *)
(***************************************************************************)
EXTENDS InviteKeys, FiniteSetTheorems, TLAPS

\* The learners whom the key has linked, and the requests that will do so.
Users(k) == {l \in Learners : /\ IsLinked(link[l]) /\ link[l].key = k
                              /\ ~link[l].readmitted}
Joining(k) == {w \in Workers : Serving(w, "join") /\ request[w].key = k}

Existing == {k \in Keys : key[k] # NoKey}
Creating == {w \in Workers : Serving(w, "create")}

WithRow == {l \in Learners : link[l] # NoRow}

\* Finitely many rows have been written.
Finite == IsFiniteSet(WithRow) /\ IsFiniteSet(Existing)

\* A learner who is being linked has a place, and so has a key that is being
\* created.
UsersHavePlaces ==
    \A k \in Keys :
        Cardinality(Users(k)) + Cardinality(Joining(k)) < UsageLimit + Cardinality(Workers)
KeysHavePlaces ==
    Cardinality(Existing) + Cardinality(Creating) < MaxKeys + Cardinality(Workers) + 1

\* A key that is being saved has a row (rows of keys are never deleted).
SavedExists == \A w \in Workers : Serving(w, "patch") => key[request[w].key] # NoKey

\* The inductive invariant.
IInv == TypeOK /\ Finite /\ SavedExists /\ UsersHavePlaces /\ KeysHavePlaces

-----------------------------------------------------------------------------
(* Types                                                                   *)

\* What a request in progress holds, by its operation.
LEMMA RequestFacts ==
    ASSUME TypeOK, NEW w \in Workers, request[w] # Idle
    PROVE  /\ request[w] \in Request
           /\ Serving(w, "join") => request[w].learner \in Learners /\ request[w].key \in Keys
           /\ Serving(w, "patch") => request[w].key \in Keys /\ request[w].copy \in Key
           /\ Serving(w, "create") => request[w].key \in Keys
  <1>1. request[w] \in Request
    BY DEF TypeOK
  <1>2. QED
    BY <1>1 DEF Request, Serving

\* The rows of learners who leave, turn away or are readmitted are rows.
LEMMA ChangedRowFacts ==
    ASSUME NEW row \in Row
    PROVE  /\ [row EXCEPT !.linked = FALSE, !.active = FALSE, !.readmitted = FALSE] \in Row
           /\ [row EXCEPT !.active = FALSE] \in Row
           /\ [row EXCEPT !.linked = TRUE, !.active = TRUE, !.readmitted = TRUE] \in Row
  BY DEF Row

\* The types are right initially.
LEMMA TypeInit == Init => TypeOK
  BY DEF Init, TypeOK

\* A request that begins keeps the types.
LEMMA TypeBegin ==
    ASSUME TypeOK, NEW w \in Workers, NEW q \in Request, Begin(w, q)
    PROVE  TypeOK'
  BY DEF Begin, TypeOK

\* Every step preserves the types.
LEMMA TypeNext ==
    ASSUME TypeOK, [Next]_vars
    PROVE  TypeOK'
  <1>1. ASSUME NEW w \in Workers, Serve(w)
        PROVE  TypeOK'
    <2>1. CASE \E l \in Learners, k \in Keys : BeginJoin(w, l, k)
      <3>1. PICK l \in Learners, k \in Keys : BeginJoin(w, l, k)
        BY <2>1
      <3>2. (link[l] = NoRow) \in BOOLEAN
        OBVIOUS
      <3>3. [op |-> "join", learner |-> l, key |-> k, new |-> link[l] = NoRow] \in Request
        BY <3>2 DEF Request
      <3>4. QED
        BY <3>1, <3>3, TypeBegin DEF BeginJoin
    <2>2. CASE \E k \in Keys : BeginCreate(w, k)
      <3>1. PICK k \in Keys : BeginCreate(w, k)
        BY <2>2
      <3>2. [op |-> "create", key |-> k] \in Request
        BY DEF Request
      <3>3. QED
        BY <3>1, <3>2, TypeBegin DEF BeginCreate
    <2>3. CASE \E k \in Keys : BeginPatch(w, k)
      <3>1. PICK k \in Keys : BeginPatch(w, k)
        BY <2>3
      <3>2. key[k] \in Key
        BY <3>1 DEF BeginPatch, TypeOK
      <3>3. [op |-> "patch", key |-> k, copy |-> key[k]] \in Request
        BY <3>2 DEF Request
      <3>4. QED
        BY <3>1, <3>3, TypeBegin DEF BeginPatch
    <2>4. CASE Join(w)
      <3> DEFINE q == request[w]
                 row == [linked |-> TRUE, active |-> TRUE, key |-> q.key,
                         readmitted |-> FALSE]
      <3>1. q.learner \in Learners /\ q.key \in Keys
        BY <2>4, RequestFacts DEF Join, Serving
      <3>2. row \in Row
        BY <3>1 DEF Row
      <3>3. link' = link \/ link' = [link EXCEPT ![q.learner] = row]
        BY <2>4 DEF Join
      <3> HIDE DEF row
      <3>4. QED
        BY <2>4, <3>1, <3>2, <3>3 DEF Join, End, TypeOK
    <2>5. CASE Create(w)
      BY <2>5, RequestFacts DEF Create, End, NewKey, Key, TypeOK, Serving
    <2>6. CASE \E active, expired \in BOOLEAN : Patch(w, active, expired)
      BY <2>6, RequestFacts DEF Patch, End, Key, TypeOK, Serving
    <2>7. CASE FailRequest(w)
      BY <2>7 DEF FailRequest, End, TypeOK
    <2>8. QED
      BY <1>1, <2>1, <2>2, <2>3, <2>4, <2>5, <2>6, <2>7 DEF Serve
  <1>2. ASSUME NEW l \in Learners, Unlink(l) \/ Inactivate(l) \/ LinkByAdmin(l)
        PROVE  TypeOK'
    <2>1. CASE Unlink(l)
      <3> DEFINE row == [link[l] EXCEPT !.linked = FALSE, !.active = FALSE,
                                        !.readmitted = FALSE]
      <3>1. row \in Row
        BY <2>1, ChangedRowFacts DEF Unlink, IsLinked, TypeOK
      <3>2. link' = [link EXCEPT ![l] = row]
        BY <2>1 DEF Unlink, TypeOK
      <3> HIDE DEF row
      <3>3. QED
        BY <2>1, <3>1, <3>2 DEF Unlink, TypeOK
    <2>2. CASE Inactivate(l)
      <3> DEFINE row == [link[l] EXCEPT !.active = FALSE]
      <3>1. row \in Row
        BY <2>2, ChangedRowFacts DEF Inactivate, IsLinked, TypeOK
      <3>2. link' = [link EXCEPT ![l] = row]
        BY <2>2 DEF Inactivate, TypeOK
      <3> HIDE DEF row
      <3>3. QED
        BY <2>2, <3>1, <3>2 DEF Inactivate, TypeOK
    <2>3. CASE LinkByAdmin(l)
      <3>1. PICK row \in Row : link' = [link EXCEPT ![l] = row]
        <4>1. CASE link[l] = NoRow
          <5>1. [linked |-> TRUE, active |-> TRUE, key |-> NoKey, readmitted |-> TRUE] \in Row
            BY DEF Row
          <5>2. QED
            BY <2>3, <4>1, <5>1 DEF LinkByAdmin
        <4>2. CASE link[l] # NoRow
          BY <2>3, <4>2, ChangedRowFacts DEF LinkByAdmin, TypeOK
        <4>3. QED
          BY <4>1, <4>2
      <3>2. QED
        BY <2>3, <3>1 DEF LinkByAdmin, TypeOK
    <2>4. QED
      BY <1>2, <2>1, <2>2, <2>3
  <1>3. ASSUME NEW k \in Keys, Expire(k) \/ EnableUniversalLink(k)
        PROVE  TypeOK'
    <2>1. CASE Expire(k)
      <3> DEFINE row == [key[k] EXCEPT !.expired = TRUE]
      <3>1. key[k] \in Key
        BY <2>1 DEF Expire, TypeOK
      <3>2. row \in Key
        BY <3>1 DEF Key
      <3>3. key' = [key EXCEPT ![k] = row]
        BY <2>1 DEF Expire, TypeOK
      <3> HIDE DEF row
      <3>4. QED
        BY <2>1, <3>2, <3>3 DEF Expire, TypeOK
    <2>2. CASE EnableUniversalLink(k)
      BY <2>2 DEF EnableUniversalLink, NewKey, Key, TypeOK
    <2>3. QED
      BY <1>3, <2>1, <2>2
  <1>4. CASE DisableUniversalLink
    BY <1>4 DEF DisableUniversalLink, AllDeactivated, Key, TypeOK
  <1>5. CASE UNCHANGED vars
    BY <1>5 DEF vars, TypeOK
  <1>6. QED
    BY <1>1, <1>2, <1>3, <1>4, <1>5 DEF Next

\* The rows, requests and keys always have their types.
THEOREM TypeCorrect == Spec => []TypeOK
  BY TypeInit, TypeNext, PTL DEF Spec

-----------------------------------------------------------------------------
(* Sets that grow by at most one element                                   *)

\* A set within a finite one and one more element.
LEMMA AtMostOneMore ==
    ASSUME NEW S, NEW T, NEW x, IsFiniteSet(S), T \subseteq S \union {x}
    PROVE  /\ IsFiniteSet(T)
           /\ Cardinality(T) \in Nat /\ Cardinality(S) \in Nat
           /\ Cardinality(T) <= Cardinality(S) + 1
  <1>1. /\ IsFiniteSet(S \union {x})
        /\ Cardinality(S \union {x}) = IF x \in S THEN Cardinality(S) ELSE Cardinality(S) + 1
    BY FS_AddElement
  <1>2. IsFiniteSet(T) /\ Cardinality(T) <= Cardinality(S \union {x})
    BY <1>1, FS_Subset
  <1>3. Cardinality(T) \in Nat /\ Cardinality(S) \in Nat
    BY <1>2, FS_CardinalityType
  <1>4. QED
    BY <1>1, <1>2, <1>3

\* A set within a finite one.
LEMMA NoMore ==
    ASSUME NEW S, NEW T, IsFiniteSet(S), T \subseteq S
    PROVE  /\ IsFiniteSet(T)
           /\ Cardinality(T) \in Nat /\ Cardinality(S) \in Nat
           /\ Cardinality(T) <= Cardinality(S)
  BY FS_Subset, FS_CardinalityType

\* A set within a finite one from which an element is gone.
LEMMA OneLess ==
    ASSUME NEW S, NEW T, NEW x, IsFiniteSet(S), x \in S, T \subseteq S \ {x}
    PROVE  /\ Cardinality(T) \in Nat /\ Cardinality(S) \in Nat
           /\ Cardinality(T) + 1 <= Cardinality(S)
  <1>1. IsFiniteSet(S \ {x}) /\ Cardinality(S \ {x}) = Cardinality(S) - 1
    BY FS_RemoveElement
  <1>2. Cardinality(T) \in Nat /\ Cardinality(T) <= Cardinality(S \ {x})
    BY <1>1, NoMore
  <1>3. Cardinality(S) \in Nat
    BY FS_CardinalityType
  <1>4. QED
    BY <1>1, <1>2, <1>3

\* The sets that are counted are finite.
LEMMA CountedFinite ==
    ASSUME Finite, NEW k \in Keys
    PROVE  /\ IsFiniteSet(Users(k)) /\ IsFiniteSet(Joining(k))
           /\ IsFiniteSet(Existing) /\ IsFiniteSet(Creating)
           /\ Cardinality(Users(k)) \in Nat /\ Cardinality(Joining(k)) \in Nat
           /\ Cardinality(Existing) \in Nat /\ Cardinality(Creating) \in Nat
           /\ Cardinality(Workers) \in Nat
           /\ Cardinality(Joining(k)) <= Cardinality(Workers)
           /\ Cardinality(Creating) <= Cardinality(Workers)
  <1>1. Users(k) \subseteq WithRow
    BY DEF Users, WithRow, IsLinked
  <1>2. Joining(k) \subseteq Workers /\ Creating \subseteq Workers
    BY DEF Joining, Creating
  <1>3. IsFiniteSet(Workers)
    BY WorkerAssumption
  <1>4. QED
    BY <1>1, <1>2, <1>3, NoMore, FS_CardinalityType DEF Finite

-----------------------------------------------------------------------------
(* The places of the users of a key                                        *)

\* A step that starts no join and readmits nobody, or links a learner by an
\* administrator, gives no key a further user.
UsersStay == \A k \in Keys : Users(k)' \subseteq Users(k)
JoiningStays == \A k \in Keys : Joining(k)' \subseteq Joining(k)

\* Where neither the users nor the requests grow, everybody has a place.
LEMMA PlacesStay ==
    ASSUME Finite, UsersHavePlaces, UsersStay, JoiningStays
    PROVE  UsersHavePlaces'
  <1> SUFFICES ASSUME NEW k \in Keys
               PROVE  Cardinality(Users(k)') + Cardinality(Joining(k)')
                          < UsageLimit + Cardinality(Workers)
    BY DEF UsersHavePlaces
  <1>1. /\ Cardinality(Users(k)') \in Nat /\ Cardinality(Users(k)') <= Cardinality(Users(k))
        /\ Cardinality(Joining(k)') \in Nat
        /\ Cardinality(Joining(k)') <= Cardinality(Joining(k))
    BY CountedFinite, NoMore DEF UsersStay, JoiningStays
  <1>2. Cardinality(Users(k)) + Cardinality(Joining(k)) < UsageLimit + Cardinality(Workers)
    BY DEF UsersHavePlaces
  <1> HIDE DEF Users, Joining
  <1>3. QED
    BY <1>1, <1>2, CountedFinite, LimitAssumption

\* The request that begins to join with a key has found room below its limit.
LEMMA PlaceToBeginJoin ==
    ASSUME TypeOK, Finite, UsersHavePlaces, NEW w \in Workers, NEW l \in Learners,
           NEW k \in Keys, BeginJoin(w, l, k)
    PROVE  UsersHavePlaces'
  <1>1. \A j \in Keys : Users(j)' = Users(j)
    BY DEF BeginJoin, Begin, Users
  <1>2. \A j \in Keys : j # k => Joining(j)' = Joining(j)
    BY DEF BeginJoin, Begin, Joining, Serving, TypeOK
  <1>3. Cardinality(Users(k)) < UsageLimit
    <2> DEFINE C == {m \in Learners : IsLinked(link[m]) /\ link[m].key = k}
    <2>1. Users(k) \subseteq C /\ C \subseteq WithRow
      BY DEF Users, WithRow, IsLinked
    <2>2. Cardinality(C) < UsageLimit
      BY DEF BeginJoin, IsValid, UsageCount
    <2> HIDE DEF C, Users
    <2>3. IsFiniteSet(C)
      BY <2>1, NoMore DEF Finite
    <2>4. QED
      BY <2>1, <2>2, <2>3, NoMore, LimitAssumption
  <1>4. Joining(k)' \subseteq Workers
    BY DEF Joining
  <1>5. Cardinality(Joining(k)') \in Nat /\ Cardinality(Joining(k)') <= Cardinality(Workers)
    BY <1>4, WorkerAssumption, NoMore
  <1>6. Cardinality(Users(k)') + Cardinality(Joining(k)') < UsageLimit + Cardinality(Workers)
    <2> HIDE DEF Users, Joining
    <2>1. QED
      BY <1>1, <1>3, <1>5, CountedFinite, LimitAssumption
  <1>7. ASSUME NEW j \in Keys
        PROVE  Cardinality(Users(j)') + Cardinality(Joining(j)')
                   < UsageLimit + Cardinality(Workers)
    <2>1. CASE j = k
      BY <2>1, <1>6
    <2>2. CASE j # k
      BY <2>2, <1>1, <1>2 DEF UsersHavePlaces
    <2>3. QED
      BY <2>1, <2>2
  <1>8. QED
    BY <1>7 DEF UsersHavePlaces

\* The learner who has joined takes the place of the request.
LEMMA PlaceToJoin ==
    ASSUME TypeOK, Finite, UsersHavePlaces, NEW w \in Workers, Join(w)
    PROVE  UsersHavePlaces'
  <1>0. PICK k \in Keys, l \in Learners : k = request[w].key /\ l = request[w].learner
    BY RequestFacts DEF Join, Serving
  <1>1. w \in Joining(k)
    BY <1>0 DEF Join, Joining, Serving
  <1>2. \A j \in Keys : Joining(j)' \subseteq Joining(j)
    BY DEF Join, End, Joining, Serving, TypeOK
  <1>3. Joining(k)' \subseteq Joining(k) \ {w}
    BY <1>0, <1>2 DEF Join, End, Joining, Serving, TypeOK
  <1>4. \A j \in Keys : j # k => Users(j)' \subseteq Users(j)
    BY <1>0 DEF Join, Users, TypeOK, IsLinked
  <1>5. Users(k)' \subseteq Users(k) \union {l}
    BY <1>0 DEF Join, Users, TypeOK, IsLinked
  <1>6. Cardinality(Users(k)') + Cardinality(Joining(k)') < UsageLimit + Cardinality(Workers)
    <2>1. /\ Cardinality(Users(k)') \in Nat
          /\ Cardinality(Users(k)') <= Cardinality(Users(k)) + 1
      BY <1>1, <1>5, CountedFinite, AtMostOneMore
    <2>2. /\ Cardinality(Joining(k)') \in Nat
          /\ Cardinality(Joining(k)') + 1 <= Cardinality(Joining(k))
      BY <1>1, <1>3, CountedFinite, OneLess
    <2>3. Cardinality(Users(k)) + Cardinality(Joining(k)) < UsageLimit + Cardinality(Workers)
      BY <1>1 DEF UsersHavePlaces
    <2> HIDE DEF Users, Joining
    <2>4. QED
      BY <1>1, <2>1, <2>2, <2>3, CountedFinite, LimitAssumption
  <1>7. ASSUME NEW j \in Keys, j # k
        PROVE  Cardinality(Users(j)') + Cardinality(Joining(j)')
                   < UsageLimit + Cardinality(Workers)
    <2>1. /\ Cardinality(Users(j)') \in Nat
          /\ Cardinality(Users(j)') <= Cardinality(Users(j))
      BY <1>4, <1>7, CountedFinite, NoMore
    <2>2. /\ Cardinality(Joining(j)') \in Nat
          /\ Cardinality(Joining(j)') <= Cardinality(Joining(j))
      BY <1>2, CountedFinite, NoMore
    <2>3. Cardinality(Users(j)) + Cardinality(Joining(j)) < UsageLimit + Cardinality(Workers)
      BY DEF UsersHavePlaces
    <2> HIDE DEF Users, Joining
    <2>4. QED
      BY <2>1, <2>2, <2>3, CountedFinite, LimitAssumption
  <1>8. QED
    BY <1>6, <1>7 DEF UsersHavePlaces

\* Whoever leaves, turns away or is readmitted is no further user of a key.
LEMMA PlacesWithoutKey ==
    ASSUME TypeOK, Finite, UsersHavePlaces, NEW l \in Learners,
           Unlink(l) \/ Inactivate(l) \/ LinkByAdmin(l)
    PROVE  UsersHavePlaces'
  <1>1. JoiningStays
    BY DEF JoiningStays, Joining, Serving, Unlink, Inactivate, LinkByAdmin
  <1>2. \A m \in Learners : m # l => link'[m] = link[m]
    BY DEF Unlink, Inactivate, LinkByAdmin, TypeOK
  <1>3. ASSUME NEW k \in Keys, l \in Users(k)'
        PROVE  l \in Users(k)
    <2>1. CASE Unlink(l)
      <3>1. link[l] \in Row
        BY <2>1 DEF Unlink, IsLinked, TypeOK
      <3>2. ~link'[l].linked
        BY <2>1, <3>1 DEF Unlink, TypeOK, Row
      <3>3. QED
        BY <1>3, <3>2 DEF Users, IsLinked
    <2>2. CASE Inactivate(l)
      <3>1. link[l] \in Row /\ IsLinked(link[l])
        BY <2>2 DEF Inactivate, IsLinked, TypeOK
      <3>2. link'[l].key = link[l].key /\ link'[l].readmitted = link[l].readmitted
        BY <2>2, <3>1 DEF Inactivate, TypeOK, Row
      <3>3. QED
        BY <1>3, <3>1, <3>2 DEF Users
    <2>3. CASE LinkByAdmin(l)
      <3>1. link[l] \in Row \union {NoRow}
        BY DEF TypeOK
      <3>2. link'[l].readmitted
        BY <2>3, <3>1 DEF LinkByAdmin, TypeOK, Row
      <3>3. QED
        BY <1>3, <3>2 DEF Users
    <2>4. QED
      BY <2>1, <2>2, <2>3
  <1>4. UsersStay
    BY <1>2, <1>3 DEF UsersStay, Users
  <1>5. QED
    BY <1>1, <1>4, PlacesStay

-----------------------------------------------------------------------------
(* The rows of the keys                                                    *)

\* A step writes the row of a key in one of these ways, or leaves it.
LEMMA KeySteps ==
    ASSUME TypeOK, SavedExists, [Next]_vars, NEW k \in Keys
    PROVE  \/ key'[k] = key[k]
           \/ key[k] = NoKey /\ key'[k] = NewKey
           \/ key[k] # NoKey /\ key'[k] \in Key /\ key'[k].active = key[k].active
           \/ key[k] # NoKey /\ key'[k] \in Key /\ ~key'[k].active
           \/ /\ key[k] # NoKey /\ key'[k] \in Key
              /\ \E w \in Workers :
                    /\ Serving(w, "patch") /\ request[w].key = k /\ request'[w] = Idle
                    /\ key'[k].active => request[w].copy.active
  <1>1. ASSUME NEW w \in Workers, Create(w)
        PROVE  key'[k] = key[k] \/ (key[k] = NoKey /\ key'[k] = NewKey)
    BY <1>1, RequestFacts DEF Create, Serving, TypeOK
  <1>2. ASSUME NEW w \in Workers, NEW active \in BOOLEAN, NEW expired \in BOOLEAN,
               Patch(w, active, expired)
        PROVE  \/ key'[k] = key[k]
               \/ /\ key[k] # NoKey /\ key'[k] \in Key
                  /\ Serving(w, "patch") /\ request[w].key = k /\ request'[w] = Idle
                  /\ key'[k].active => request[w].copy.active
    <2>1. CASE request[w].key = k
      <3>1. Serving(w, "patch") /\ key[k] # NoKey
        BY <1>2, <2>1 DEF Patch, SavedExists
      <3>2. key'[k] = [active |-> active, expired |-> expired]
        BY <1>2, <2>1 DEF Patch, TypeOK
      <3>3. request'[w] = Idle /\ (active => request[w].copy.active)
        BY <1>2 DEF Patch, End, MaySave, TypeOK
      <3>4. QED
        BY <2>1, <3>1, <3>2, <3>3 DEF Key
    <2>2. CASE request[w].key # k
      BY <1>2, <2>2 DEF Patch, TypeOK
    <2>3. QED
      BY <2>1, <2>2
  <1>3. ASSUME NEW j \in Keys, Expire(j)
        PROVE  \/ key'[k] = key[k]
               \/ key[k] # NoKey /\ key'[k] \in Key /\ key'[k].active = key[k].active
    <2>1. CASE j = k
      <3> DEFINE row == [key[k] EXCEPT !.expired = TRUE]
      <3>1. key[k] # NoKey /\ key[k] \in Key /\ key'[k] = row
        BY <1>3, <2>1 DEF Expire, TypeOK
      <3>2. row \in Key /\ row.active = key[k].active
        BY <3>1 DEF Key
      <3> HIDE DEF row
      <3>3. QED
        BY <3>1, <3>2
    <2>2. CASE j # k
      BY <1>3, <2>2 DEF Expire, TypeOK
    <2>3. QED
      BY <2>1, <2>2
  <1>4. ASSUME NEW j \in Keys, EnableUniversalLink(j)
        PROVE  key'[k] = key[k] \/ (key[k] = NoKey /\ key'[k] = NewKey)
    BY <1>4 DEF EnableUniversalLink, MayCreate, TypeOK
  <1>5. ASSUME DisableUniversalLink
        PROVE  \/ key'[k] = key[k]
               \/ key[k] # NoKey /\ key'[k] \in Key /\ ~key'[k].active
    <2>1. CASE key[k] = NoKey
      BY <1>5, <2>1 DEF DisableUniversalLink, AllDeactivated
    <2>2. CASE key[k] # NoKey
      <3> DEFINE row == [key[k] EXCEPT !.active = FALSE]
      <3>1. key[k] \in Key /\ key'[k] = row
        BY <1>5, <2>2 DEF DisableUniversalLink, AllDeactivated, TypeOK
      <3>2. row \in Key /\ ~row.active
        BY <3>1 DEF Key
      <3> HIDE DEF row
      <3>3. QED
        BY <2>2, <3>1, <3>2
    <2>3. QED
      BY <2>1, <2>2
  <1>6. ASSUME NEW w \in Workers,
               \/ \E l \in Learners, j \in Keys : BeginJoin(w, l, j)
               \/ \E j \in Keys : BeginCreate(w, j) \/ BeginPatch(w, j)
               \/ Join(w) \/ FailRequest(w)
        PROVE  key'[k] = key[k]
    BY <1>6 DEF BeginJoin, BeginCreate, BeginPatch, Begin, Join, FailRequest
  <1>7. ASSUME NEW l \in Learners, Unlink(l) \/ Inactivate(l) \/ LinkByAdmin(l)
        PROVE  key'[k] = key[k]
    BY <1>7 DEF Unlink, Inactivate, LinkByAdmin
  <1>8. CASE UNCHANGED vars
    BY <1>8 DEF vars
  <1>9. CASE \E w \in Workers : Serve(w)
    BY <1>1, <1>2, <1>6, <1>9 DEF Serve
  <1>10. QED
    BY <1>3, <1>4, <1>5, <1>7, <1>8, <1>9 DEF Next

\* The row of a key is never deleted.
LEMMA KeysStay ==
    ASSUME TypeOK, SavedExists, [Next]_vars, NEW k \in Keys, key[k] # NoKey
    PROVE  key'[k] # NoKey
  BY KeySteps, RowAssumption

\* A request that saves a key goes on with a row that exists.
LEMMA SavedNext ==
    ASSUME TypeOK, SavedExists, [Next]_vars
    PROVE  SavedExists'
  <1> SUFFICES ASSUME NEW v \in Workers, Serving(v, "patch")'
               PROVE  key'[request'[v].key] # NoKey
    BY DEF SavedExists
  <1>1. ASSUME Serving(v, "patch"), request'[v] = request[v]
        PROVE  key'[request'[v].key] # NoKey
    BY <1>1, RequestFacts, KeysStay DEF SavedExists, Serving
  <1>2. ASSUME NEW w \in Workers, NEW q \in Request, Begin(w, q),
               q.op = "patch" => key[q.key] # NoKey
        PROVE  key'[request'[v].key] # NoKey
    <2>1. CASE v = w
      BY <1>2, <2>1 DEF Begin, Serving, TypeOK
    <2>2. CASE v # w
      BY <1>1, <1>2, <2>2 DEF Begin, Serving, TypeOK
    <2>3. QED
      BY <2>1, <2>2
  <1>3. ASSUME NEW w \in Workers, End(w)
        PROVE  key'[request'[v].key] # NoKey
    BY <1>1, <1>3 DEF End, Serving, TypeOK
  <1>4. ASSUME request' = request
        PROVE  key'[request'[v].key] # NoKey
    BY <1>1, <1>4 DEF Serving
  <1>5. ASSUME NEW w \in Workers, Serve(w)
        PROVE  key'[request'[v].key] # NoKey
    <2>1. CASE \E l \in Learners, k \in Keys : BeginJoin(w, l, k)
      <3>1. PICK l \in Learners, k \in Keys : BeginJoin(w, l, k)
        BY <2>1
      <3> DEFINE q == [op |-> "join", learner |-> l, key |-> k, new |-> link[l] = NoRow]
      <3>2. q \in Request /\ q.op = "join"
        BY DEF Request
      <3>3. Begin(w, q)
        BY <3>1 DEF BeginJoin
      <3> HIDE DEF q
      <3>4. QED
        BY <1>2, <3>2, <3>3
    <2>2. CASE \E k \in Keys : BeginCreate(w, k)
      BY <1>2, <2>2 DEF BeginCreate, Request
    <2>3. CASE \E k \in Keys : BeginPatch(w, k)
      <3>1. PICK k \in Keys : BeginPatch(w, k)
        BY <2>3
      <3> DEFINE q == [op |-> "patch", key |-> k, copy |-> key[k]]
      <3>2. key[k] \in Key /\ key[k] # NoKey
        BY <3>1 DEF BeginPatch, TypeOK
      <3>3. q \in Request /\ q.key = k
        BY <3>2 DEF Request
      <3>4. Begin(w, q)
        BY <3>1 DEF BeginPatch
      <3> HIDE DEF q
      <3>5. QED
        BY <1>2, <3>2, <3>3, <3>4
    <2>4. CASE Join(w) \/ Create(w) \/ FailRequest(w)
      BY <1>3, <2>4 DEF Join, Create, FailRequest
    <2>5. CASE \E active, expired \in BOOLEAN : Patch(w, active, expired)
      BY <1>3, <2>5 DEF Patch
    <2>6. QED
      BY <1>5, <2>1, <2>2, <2>3, <2>4, <2>5 DEF Serve
  <1>6. ASSUME NEW l \in Learners, Unlink(l) \/ Inactivate(l) \/ LinkByAdmin(l)
        PROVE  request' = request
    BY <1>6 DEF Unlink, Inactivate, LinkByAdmin
  <1>7. ASSUME NEW k \in Keys, Expire(k) \/ EnableUniversalLink(k)
        PROVE  request' = request
    BY <1>7 DEF Expire, EnableUniversalLink
  <1>8. DisableUniversalLink \/ UNCHANGED vars => request' = request
    BY DEF DisableUniversalLink, vars
  <1>9. QED
    BY <1>4, <1>5, <1>6, <1>7, <1>8 DEF Next

-----------------------------------------------------------------------------
(* The places of the keys                                                  *)

\* A key that is created takes the place of the request; the others begin, or
\* create at one go, while there is room.
LEMMA KeysNext ==
    ASSUME TypeOK, Finite, SavedExists, KeysHavePlaces, [Next]_vars
    PROVE  KeysHavePlaces'
  <1>0. /\ IsFiniteSet(Existing) /\ IsFiniteSet(Creating)
        /\ Cardinality(Existing) \in Nat /\ Cardinality(Creating) \in Nat
        /\ Cardinality(Workers) \in Nat /\ IsFiniteSet(Workers)
        /\ Cardinality(Creating) <= Cardinality(Workers)
    <2>1. Creating \subseteq Workers
      BY DEF Creating
    <2>2. QED
      BY <2>1, NoMore, WorkerAssumption, FS_CardinalityType DEF Finite
  <1>1. ASSUME Existing' \subseteq Existing, Creating' \subseteq Creating
        PROVE  KeysHavePlaces'
    <2>1. /\ Cardinality(Existing') \in Nat /\ Cardinality(Existing') <= Cardinality(Existing)
          /\ Cardinality(Creating') \in Nat /\ Cardinality(Creating') <= Cardinality(Creating)
      BY <1>0, <1>1, NoMore
    <2> HIDE DEF Existing, Creating
    <2>2. QED
      BY <1>0, <2>1, LimitAssumption DEF KeysHavePlaces
  <1>2. ASSUME NEW w \in Workers, NEW k \in Keys, BeginCreate(w, k)
        PROVE  KeysHavePlaces'
    <2>1. Existing' = Existing /\ Cardinality(Existing) < MaxKeys
      BY <1>2 DEF BeginCreate, Begin, MayCreate, KeyCount, Existing
    <2>2. Creating' \subseteq Workers
      BY DEF Creating
    <2>3. Cardinality(Creating') \in Nat /\ Cardinality(Creating') <= Cardinality(Workers)
      BY <1>0, <2>2, NoMore
    <2> HIDE DEF Existing, Creating
    <2>4. QED
      BY <1>0, <2>1, <2>3, LimitAssumption DEF KeysHavePlaces
  <1>3. ASSUME NEW w \in Workers, Create(w)
        PROVE  KeysHavePlaces'
    <2>1. PICK k \in Keys : k = request[w].key
      BY <1>3, RequestFacts DEF Create, Serving
    <2>2. Existing' \subseteq Existing \union {k}
      BY <1>3, <2>1 DEF Create, Existing, TypeOK
    <2>3. w \in Creating /\ Creating' \subseteq Creating \ {w}
      BY <1>3 DEF Create, End, Creating, Serving, TypeOK
    <2>4. /\ Cardinality(Existing') \in Nat
          /\ Cardinality(Existing') <= Cardinality(Existing) + 1
      BY <1>0, <2>2, AtMostOneMore
    <2>5. /\ Cardinality(Creating') \in Nat
          /\ Cardinality(Creating') + 1 <= Cardinality(Creating)
      BY <1>0, <2>3, OneLess
    <2> HIDE DEF Existing, Creating
    <2>6. QED
      BY <1>0, <2>4, <2>5, LimitAssumption DEF KeysHavePlaces
  <1>4. ASSUME NEW k \in Keys, EnableUniversalLink(k)
        PROVE  KeysHavePlaces'
    <2>1. Existing' \subseteq Existing \union {k} /\ Creating' = Creating
      BY <1>4 DEF EnableUniversalLink, Existing, Creating, Serving, TypeOK
    <2>2. Cardinality(Existing) < MaxKeys
      BY <1>4 DEF EnableUniversalLink, MayCreate, KeyCount, Existing
    <2>3. /\ Cardinality(Existing') \in Nat
          /\ Cardinality(Existing') <= Cardinality(Existing) + 1
      BY <1>0, <2>1, AtMostOneMore
    <2> HIDE DEF Existing, Creating
    <2>4. QED
      BY <1>0, <2>1, <2>2, <2>3, LimitAssumption DEF KeysHavePlaces
  <1>5. ASSUME NEW w \in Workers,
               \/ \E l \in Learners, k \in Keys : BeginJoin(w, l, k)
               \/ \E k \in Keys : BeginPatch(w, k)
               \/ Join(w) \/ FailRequest(w)
               \/ \E active, expired \in BOOLEAN : Patch(w, active, expired)
        PROVE  KeysHavePlaces'
    <2>1. CASE \E l \in Learners, k \in Keys : BeginJoin(w, l, k)
      BY <1>1, <2>1 DEF BeginJoin, Begin, Existing, Creating, Serving, TypeOK
    <2>2. CASE \E k \in Keys : BeginPatch(w, k)
      BY <1>1, <2>2 DEF BeginPatch, Begin, Existing, Creating, Serving, TypeOK
    <2>3. CASE Join(w) \/ FailRequest(w)
      BY <1>1, <2>3 DEF Join, FailRequest, End, Existing, Creating, Serving, TypeOK
    <2>4. CASE \E active, expired \in BOOLEAN : Patch(w, active, expired)
      <3>1. PICK k \in Keys : k = request[w].key /\ key[k] # NoKey
        BY <2>4, RequestFacts DEF Patch, Serving, SavedExists
      <3>2. QED
        BY <1>1, <2>4, <3>1 DEF Patch, End, Existing, Creating, Serving, TypeOK
    <2>5. QED
      BY <1>5, <2>1, <2>2, <2>3, <2>4
  <1>6. ASSUME NEW l \in Learners, Unlink(l) \/ Inactivate(l) \/ LinkByAdmin(l)
        PROVE  KeysHavePlaces'
    BY <1>1, <1>6 DEF Unlink, Inactivate, LinkByAdmin, Existing, Creating, Serving
  <1>7. ASSUME NEW k \in Keys, Expire(k)
        PROVE  KeysHavePlaces'
    BY <1>1, <1>7 DEF Expire, Existing, Creating, Serving, TypeOK
  <1>8. CASE DisableUniversalLink
    BY <1>1, <1>8 DEF DisableUniversalLink, AllDeactivated, Existing, Creating, Serving, TypeOK
  <1>9. CASE UNCHANGED vars
    BY <1>1, <1>9 DEF vars, Existing, Creating, Serving
  <1>10. QED
    BY <1>2, <1>3, <1>4, <1>5, <1>6, <1>7, <1>8, <1>9 DEF Next, Serve

-----------------------------------------------------------------------------
(* The inductive invariant                                                 *)

\* A step gives a row to one key at most.
LEMMA OneNewKey ==
    ASSUME TypeOK, SavedExists, [Next]_vars
    PROVE  \E k \in Keys \union {NoKey} : Existing' \subseteq Existing \union {k}
  <1>1. ASSUME NEW k \in Keys, \A j \in Keys : j # k => key'[j] = key[j]
        PROVE  Existing' \subseteq Existing \union {k}
    BY <1>1 DEF Existing
  <1>2. ASSUME \A j \in Keys : key[j] = NoKey => key'[j] = NoKey
        PROVE  Existing' \subseteq Existing \union {NoKey}
    BY <1>2 DEF Existing
  <1>3. ASSUME NEW w \in Workers, Create(w)
        PROVE  \E k \in Keys : \A j \in Keys : j # k => key'[j] = key[j]
    BY <1>3, RequestFacts DEF Create, Serving, TypeOK
  <1>4. ASSUME NEW w \in Workers, NEW active \in BOOLEAN, NEW expired \in BOOLEAN,
               Patch(w, active, expired)
        PROVE  \E k \in Keys : \A j \in Keys : j # k => key'[j] = key[j]
    BY <1>4, RequestFacts DEF Patch, Serving, TypeOK
  <1>5. ASSUME NEW k \in Keys, Expire(k) \/ EnableUniversalLink(k)
        PROVE  \A j \in Keys : j # k => key'[j] = key[j]
    BY <1>5 DEF Expire, EnableUniversalLink, TypeOK
  <1>6. ASSUME NEW w \in Workers,
               \/ \E l \in Learners, j \in Keys : BeginJoin(w, l, j)
               \/ \E j \in Keys : BeginCreate(w, j) \/ BeginPatch(w, j)
               \/ Join(w) \/ FailRequest(w)
        PROVE  key' = key
    BY <1>6 DEF BeginJoin, BeginCreate, BeginPatch, Begin, Join, FailRequest
  <1>7. ASSUME NEW l \in Learners, Unlink(l) \/ Inactivate(l) \/ LinkByAdmin(l)
        PROVE  key' = key
    BY <1>7 DEF Unlink, Inactivate, LinkByAdmin
  <1>8. DisableUniversalLink => \A j \in Keys : key[j] = NoKey => key'[j] = NoKey
    BY DEF DisableUniversalLink, AllDeactivated
  <1>9. UNCHANGED vars => key' = key
    BY DEF vars
  <1>10. CASE \E w \in Workers : Serve(w)
    BY <1>1, <1>2, <1>3, <1>4, <1>6, <1>10 DEF Serve
  <1>11. QED
    BY <1>1, <1>2, <1>5, <1>7, <1>8, <1>9, <1>10 DEF Next

\* A step gives a row to one learner at most.
LEMMA OneNewLink ==
    ASSUME TypeOK, [Next]_vars
    PROVE  \E x : WithRow' \subseteq WithRow \union {x}
  <1>1. ASSUME NEW l \in Learners, \A m \in Learners : m # l => link'[m] = link[m]
        PROVE  WithRow' \subseteq WithRow \union {l}
    BY <1>1 DEF WithRow
  <1>2. ASSUME link' = link
        PROVE  WithRow' \subseteq WithRow \union {NoRow}
    BY <1>2 DEF WithRow
  <1>3. ASSUME NEW w \in Workers, Join(w)
        PROVE  \E l \in Learners : \A m \in Learners : m # l => link'[m] = link[m]
    BY <1>3, RequestFacts DEF Join, Serving, TypeOK
  <1>4. ASSUME NEW l \in Learners, Unlink(l) \/ Inactivate(l) \/ LinkByAdmin(l)
        PROVE  \A m \in Learners : m # l => link'[m] = link[m]
    BY <1>4 DEF Unlink, Inactivate, LinkByAdmin, TypeOK
  <1>5. ASSUME NEW w \in Workers, Serve(w)
        PROVE  Join(w) \/ link' = link
    BY <1>5 DEF Serve, BeginJoin, BeginCreate, BeginPatch, Begin, Create, Patch, FailRequest
  <1>6. ASSUME NEW k \in Keys, Expire(k) \/ EnableUniversalLink(k)
        PROVE  link' = link
    BY <1>6 DEF Expire, EnableUniversalLink
  <1>7. DisableUniversalLink \/ UNCHANGED vars => link' = link
    BY DEF DisableUniversalLink, vars
  <1>8. QED
    BY <1>1, <1>2, <1>3, <1>4, <1>5, <1>6, <1>7 DEF Next

\* The rows stay finitely many.
LEMMA FiniteNext ==
    ASSUME TypeOK, SavedExists, Finite, [Next]_vars
    PROVE  Finite'
  <1>1. IsFiniteSet(WithRow')
    BY OneNewLink, AtMostOneMore DEF Finite
  <1>2. IsFiniteSet(Existing')
    BY OneNewKey, AtMostOneMore DEF Finite
  <1>3. QED
    BY <1>1, <1>2 DEF Finite

\* Everybody who has joined, or is joining, keeps a place.
LEMMA UsersNext ==
    ASSUME TypeOK, Finite, UsersHavePlaces, [Next]_vars
    PROVE  UsersHavePlaces'
  <1>1. ASSUME NEW w \in Workers, Serve(w)
        PROVE  UsersHavePlaces'
    <2>1. CASE \E l \in Learners, k \in Keys : BeginJoin(w, l, k)
      BY <2>1, PlaceToBeginJoin
    <2>2. CASE Join(w)
      BY <2>2, PlaceToJoin
    <2>3. CASE \E k \in Keys : BeginCreate(w, k) \/ BeginPatch(w, k)
      BY <2>3, PlacesStay
         DEF BeginCreate, BeginPatch, Begin, UsersStay, JoiningStays, Users, Joining, Serving,
             TypeOK
    <2>4. CASE \/ Create(w) \/ FailRequest(w)
               \/ \E active, expired \in BOOLEAN : Patch(w, active, expired)
      BY <2>4, PlacesStay
         DEF Create, FailRequest, Patch, End, UsersStay, JoiningStays, Users, Joining, Serving,
             TypeOK
    <2>5. QED
      BY <1>1, <2>1, <2>2, <2>3, <2>4 DEF Serve
  <1>2. ASSUME NEW l \in Learners, Unlink(l) \/ Inactivate(l) \/ LinkByAdmin(l)
        PROVE  UsersHavePlaces'
    BY <1>2, PlacesWithoutKey
  <1>3. ASSUME NEW k \in Keys, Expire(k) \/ EnableUniversalLink(k)
        PROVE  UsersHavePlaces'
    BY <1>3, PlacesStay
       DEF Expire, EnableUniversalLink, UsersStay, JoiningStays, Users, Joining, Serving
  <1>4. CASE DisableUniversalLink \/ UNCHANGED vars
    BY <1>4, PlacesStay
       DEF DisableUniversalLink, vars, UsersStay, JoiningStays, Users, Joining, Serving
  <1>5. QED
    BY <1>1, <1>2, <1>3, <1>4 DEF Next

\* Nobody has a place at the start, and there is a worker, so that there is room
\* even if the limits are zero.
LEMMA IInvInit == Init => IInv
  <1> SUFFICES ASSUME Init
               PROVE  IInv
    OBVIOUS
  <1>1. Existing = {} /\ Creating = {} /\ WithRow = {}
    BY DEF Init, Existing, Creating, WithRow, Serving
  <1>2. \A k \in Keys : Users(k) = {} /\ Joining(k) = {}
    BY DEF Init, Users, Joining, Serving, IsLinked
  <1>3. IsFiniteSet({}) /\ Cardinality({}) = 0
    BY FS_EmptySet
  <1>4. Cardinality(Workers) \in Nat /\ Cardinality(Workers) # 0
    BY WorkerAssumption, FS_CardinalityType, FS_EmptySet
  <1>5. Finite
    BY <1>1, <1>3 DEF Finite
  <1>6. SavedExists
    BY DEF Init, SavedExists, Serving
  <1>7. UsersHavePlaces /\ KeysHavePlaces
    <2>1. 0 + 0 < UsageLimit + Cardinality(Workers)
      BY <1>4, LimitAssumption
    <2>2. 0 + 0 < MaxKeys + Cardinality(Workers) + 1
      BY <1>4, LimitAssumption
    <2>3. QED
      BY <1>1, <1>2, <1>3, <2>1, <2>2 DEF UsersHavePlaces, KeysHavePlaces
  <1>8. QED
    BY <1>5, <1>6, <1>7, TypeInit DEF IInv

\* Every step preserves the inductive invariant.
LEMMA IInvNext == IInv /\ [Next]_vars => IInv'
  BY TypeNext, FiniteNext, SavedNext, UsersNext, KeysNext DEF IInv

\* The inductive invariant always holds.
LEMMA IInvHolds == Spec => []IInv
  BY IInvInit, IInvNext, PTL DEF Spec

\* However the requests interleave, the learners a key has linked exceed
\* usage_limit by less than the number of workers, and the keys of the customer
\* MAX_INVITE_KEYS by at most that number.
THEOREM LimitsHold == Spec => []WithinLimits
  <1>1. ASSUME Finite, UsersHavePlaces, KeysHavePlaces
        PROVE  WithinLimits
    <2>1. ASSUME NEW k \in Keys
          PROVE  Cardinality(Users(k)) < UsageLimit + Cardinality(Workers)
      <3> HIDE DEF Users, Joining
      <3>1. QED
        BY <1>1, CountedFinite, LimitAssumption DEF UsersHavePlaces
    <2>2. Cardinality(Existing) < MaxKeys + Cardinality(Workers) + 1
      <3>1. /\ Cardinality(Existing) \in Nat /\ Cardinality(Creating) \in Nat
            /\ Cardinality(Workers) \in Nat
        <4>1. Creating \subseteq Workers
          BY DEF Creating
        <4>2. QED
          BY <1>1, <4>1, NoMore, WorkerAssumption, FS_CardinalityType DEF Finite
      <3> HIDE DEF Existing, Creating
      <3>2. QED
        BY <1>1, <3>1, LimitAssumption DEF KeysHavePlaces
    <2>3. QED
      BY <2>1, <2>2
         DEF WithinLimits, UsageWithinLimit, KeysWithinLimit, KeyCount, Users, Existing
  <1>2. IInv => WithinLimits
    BY <1>1 DEF IInv
  <1>3. QED
    BY <1>2, IInvHolds, PTL

\* A key that was deactivated becomes active again only by a request that had
\* read it before.
THEOREM InactiveKeysStay == Spec => InactiveUnlessOvertaken
  <1>1. ASSUME IInv, [Next]_vars
        PROVE  \A k \in Keys :
                   key[k] # NoKey /\ ~key[k].active /\ key'[k].active =>
                       \E w \in Workers :
                           /\ Serving(w, "patch") /\ request'[w] = Idle
                           /\ request[w].key = k /\ request[w].copy.active
    BY <1>1, KeySteps DEF IInv
  <1>2. QED
    BY <1>1, IInvHolds, PTL DEF Spec, InactiveUnlessOvertaken
===============================================================================
