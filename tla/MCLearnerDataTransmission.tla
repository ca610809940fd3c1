--------------------- MODULE MCLearnerDataTransmission ---------------------
(* Small instances of LearnerDataTransmission for TLC.  The configurations *)
(* are named after their channels; each set of Alone is a customer with    *)
(* one of them, so that a run goes through all kinds of channels.          *)
EXTENDS LearnerDataTransmission

MCChannels == {"SAP", "CSOD", "DEGREED", "CANVAS", "BLACKBOARD"}

MCChannelOf ==
    [c \in Configs |-> CASE c = "sap" -> "SAP" [] c = "csod" -> "CSOD"
                         [] c = "degreed" -> "DEGREED" [] c = "blackboard" -> "BLACKBOARD"
                         [] OTHER -> "CANVAS"]
MCRecordOf ==
    [ch \in MCChannels |-> CASE ch = "CSOD" -> "refreshed" [] ch = "DEGREED" -> "fresh"
                             [] OTHER -> "reused"]
MCGradeOf ==
    [ch \in MCChannels |-> CASE ch \in {"CANVAS", "BLACKBOARD"} -> "percent"
                             [] ch = "DEGREED" -> "none" [] OTHER -> "letter"]

Alone  == {{c} : c \in Configs}
MCJobs == {"completion"} \X (Configs \ Assessed) \union {"assessment"} \X Assessed
=============================================================================
