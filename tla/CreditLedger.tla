---------------------------- MODULE CreditLedger ----------------------------
(***************************************************************************)
(* What the enrollments promise the ledger that pays for them: a           *)
(* transaction is redeemed once, is given back by one report, and never    *)
(* pays for anything after it.                                             *)
(*                                                                         *)
(* Two constants say how much of it a deployment gives up: with            *)
(* cancel_enrollment a report may be sent again, and where redemptions of  *)
(* one enrollment overlap, an accepted transaction may pay for nothing.    *)
(***************************************************************************)
EXTENDS Naturals

CONSTANTS
    Transactions,
    Repeats, \* whether a report may be sent again
    Lossy    \* whether an accepted transaction may be left unused

VARIABLES
    used,     \* the transactions that were created
    accepted, \* those whose redemption has succeeded
    held,     \* those that pay for an enrollment
    reports   \* how often each was reported as revoked

vars == <<used, accepted, held, reports>>

Init ==
    /\ used = {}
    /\ accepted = {}
    /\ held = {}
    /\ reports = [t \in Transactions |-> 0]

Create(t) ==
    /\ t \notin used
    /\ used' = used \union {t}
    /\ UNCHANGED <<accepted, held, reports>>

Redeem(t) ==
    /\ t \in used \ accepted
    /\ accepted' = accepted \union {t}
    /\ \/ held' = held \union {t}
       \/ Lossy /\ UNCHANGED held
    /\ UNCHANGED <<used, reports>>

GiveBack(t) ==
    /\ t \in held
    /\ held' = held \ {t}
    /\ reports' = [reports EXCEPT ![t] = @ + 1]
    /\ UNCHANGED <<used, accepted>>

ReportAgain(t) ==
    /\ Repeats
    /\ t \notin held /\ reports[t] > 0
    /\ reports' = [reports EXCEPT ![t] = @ + 1]
    /\ UNCHANGED <<used, accepted, held>>

Next == \E t \in Transactions : Create(t) \/ Redeem(t) \/ GiveBack(t) \/ ReportAgain(t)

Spec == Init /\ [][Next]_vars

(* What is accepted pays for an enrollment or was given back. *)
NoneLost == ~Lossy => \A t \in accepted : t \in held \/ reports[t] > 0

(* What was given back pays for nothing. *)
GivenBackIsFree == \A t \in held : reports[t] = 0

(* A transaction is given back once. *)
GivenBackOnce == ~Repeats => \A t \in Transactions : reports[t] <= 1
=============================================================================
