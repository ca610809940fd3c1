--------------------------- MODULE ContentMirror ---------------------------
(***************************************************************************)
(* What a channel promises the customer whose LMS it fills: the LMS shows  *)
(* no item that no catalog has listed, no version before it is published,  *)
(* and never goes back from a version to an older one.  An item may be     *)
(* withdrawn at any time and shown again later.                            *)
(***************************************************************************)
EXTENDS Naturals

CONSTANTS Catalogs, Content, MaxVersion

VARIABLES
    catalogContent, \* the items each catalog lists
    version,        \* the version of each item that is published
    offered,        \* the items a catalog has listed when it was exported
    shown           \* the version of each item in the LMS, 0 if it has none

vars == <<catalogContent, version, offered, shown>>

Init ==
    /\ catalogContent \in [Catalogs -> SUBSET Content]
    /\ version = [c \in Content |-> 1]
    /\ offered = {}
    /\ shown = [c \in Content |-> 0]

Edit(k, C) ==
    /\ catalogContent' = [catalogContent EXCEPT ![k] = C]
    /\ UNCHANGED <<version, offered, shown>>

Publish(c) ==
    /\ version[c] < MaxVersion
    /\ version' = [version EXCEPT ![c] = @ + 1]
    /\ UNCHANGED <<catalogContent, offered, shown>>

Offer(k, C) ==
    /\ C \subseteq catalogContent[k]
    /\ offered' = offered \union C
    /\ UNCHANGED <<catalogContent, version, shown>>

\* Any version from the one shown, or the first, to the one published.
Show(C) ==
    /\ C \subseteq offered
    /\ shown' \in [Content -> 0..MaxVersion]
    /\ \A c \in C : shown[c] <= shown'[c] /\ shown'[c] \in 1..version[c]
    /\ \A c \in Content \ C : shown'[c] = shown[c]
    /\ UNCHANGED <<catalogContent, version, offered>>

Withdraw(C) ==
    /\ shown' = [c \in Content |-> IF c \in C THEN 0 ELSE shown[c]]
    /\ UNCHANGED <<catalogContent, version, offered>>

Next ==
    \/ \E k \in Catalogs, C \in SUBSET Content : Edit(k, C) \/ Offer(k, C)
    \/ \E c \in Content : Publish(c)
    \/ \E C \in SUBSET Content : Show(C) \/ Withdraw(C)

Spec == Init /\ [][Next]_vars

(* Nothing is shown that was not offered, nor before it was published. *)
ShownIsOffered == \A c \in Content : shown[c] # 0 => c \in offered /\ shown[c] <= version[c]
=============================================================================
