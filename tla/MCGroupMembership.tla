-------------------------- MODULE MCGroupMembership --------------------------
(* Instances of GroupMembership with a second address or a second group.   *)
EXTENDS GroupMembership

CONSTANTS SecondEmail, SecondGroup

OneEmail ==
    /\ SecondEmail \notin pending /\ ~Registered(SecondEmail)
    /\ \A w \in Workers : request[w] # Idle => SecondEmail \notin request[w].emails
OneGroup ==
    /\ \A h \in Holders : member[SecondGroup][h] = NoRow
    /\ \A w \in Workers : request[w] # Idle => request[w].group # SecondGroup
NoCourse == \A e \in Emails : wish[e] = {}
NoForced == \A g \in Groups, e \in Emails : member[g][e] # NoRow => ~member[g][e].forced

\* What happens to two addresses in two groups at once adds no interaction to
\* that of two addresses in a group and one address in two groups.
\* Statuses that a request sets are explored for one address in both groups.
Scope == OneEmail \/ (OneGroup /\ NoCourse /\ NoForced)
=============================================================================
