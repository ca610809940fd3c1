------------------------- MODULE MCDataSharingConsent -------------------------
(* Instances of DataSharingConsent with the runs of one course.            *)
EXTENDS DataSharingConsent

CONSTANT Course

MCCourseOf == [r \in Runs |-> Course]

\* The customer asks for no consent to the other courses of the program.
Scope == covered \subseteq {Course}
===============================================================================
