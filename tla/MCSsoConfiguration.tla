-------------------------- MODULE MCSsoConfiguration --------------------------
(* Instances of SsoConfiguration.                                          *)
EXTENDS SsoConfiguration, TLC

\* Processes and values are interchangeable, and only safety is checked.
Symmetry == Permutations(Workers) \union Permutations(Data) \union Permutations(Extras)

\* An update that changes what is submitted without being locked is in
\* progress or has changed the record.
ExtraChanges ==
    \/ \E w \in Workers : Serving(w, "update") /\ request[w].patch.extra # Keep
    \/ row # NoRow /\ (row.unsent \/ row.extra # calls[1].extra)

\* Three submissions while all goes well; what is still promised after a loss,
\* a time-out or a stale save, or when fields change that are not locked, is a
\* matter of two.
Scope ==
    \/ upset = {} /\ ~ExtraChanges
    \/ Len(calls) <= 2 /\ (upset = {} \/ ~ExtraChanges)
===============================================================================
