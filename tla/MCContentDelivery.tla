------------------------- MODULE MCContentDelivery -------------------------
(* The liveness of ContentTransmission under four kinds of environment,    *)
(* each with the refusals and changes one of the promises has to survive.  *)
(* The kind is chosen in the initial state and bounds what the environment *)
(* does; the configuration itself behaves as in ContentTransmission.       *)
EXTENDS ContentTransmission

VARIABLE scenario

\* The items and catalogs in play, the calls the LMS may refuse, and how
\* often catalogs, the list of them, the LMS and the workers misbehave.
Scenario == [items : SUBSET Content, catalogs : SUBSET Catalogs, refused : SUBSET Actions,
             edits : 0..MaxEdits, swaps : 0..MaxSwaps, failures : 0..MaxFailures,
             aborts : 0..MaxAborts, versions : Versions]

One(S) == {CHOOSE x \in S : TRUE}

Scenarios ==
    { \* two items of two catalogs compete for the one chunk a run may send
      [items |-> Content, catalogs |-> Catalogs, refused |-> {"update", "delete"},
       edits |-> 1, swaps |-> 0, failures |-> 1, aborts |-> 0, versions |-> MaxVersion],
      \* an item moves between catalogs while creates and updates are refused
      [items |-> One(Content), catalogs |-> Catalogs, refused |-> {"create", "update"},
       edits |-> 2, swaps |-> 0, failures |-> 2, aborts |-> 1, versions |-> MaxVersion],
      \* an item leaves and returns while deletes are refused and a worker dies
      [items |-> One(Content), catalogs |-> Catalogs, refused |-> {"delete"},
       edits |-> 2, swaps |-> 0, failures |-> 1, aborts |-> 1, versions |-> 1],
      \* the only catalog of an item is no longer transmitted
      [items |-> One(Content), catalogs |-> One(Catalogs), refused |-> {"delete"},
       edits |-> 0, swaps |-> 1, failures |-> 2, aborts |-> 1, versions |-> 1] }

ASSUME ScenarioAssumption == Scenarios \subseteq Scenario

\* What the steps of a behaviour may do under its scenario.
Within ==
    /\ edits' <= scenario.edits /\ swaps' <= scenario.swaps
    /\ failures' <= scenario.failures /\ aborts' <= scenario.aborts
    /\ failures' # failures => pc \in scenario.refused
    /\ \A c \in Content : version'[c] <= IF c \in scenario.items THEN scenario.versions ELSE 1
    /\ \A k \in Catalogs :
          catalogContent'[k] \subseteq IF k \in scenario.catalogs THEN scenario.items ELSE {}

ScenarioInit ==
    /\ Init
    /\ scenario \in Scenarios
    /\ \A k \in Catalogs :
          catalogContent[k] \subseteq IF k \in scenario.catalogs THEN scenario.items ELSE {}

ScenarioNext == Next /\ Within /\ UNCHANGED scenario

ScenarioSpec ==
    /\ ScenarioInit /\ [][ScenarioNext]_<<vars, scenario>>
    /\ WF_vars(Run /\ Within)
    /\ WF_vars(OrphanTask)
=============================================================================
