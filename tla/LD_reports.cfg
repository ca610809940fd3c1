SPECIFICATION FairSpec
CONSTANTS
  Idle = Idle
  Enrollments = {e1}
  Subsections = {s1}
  Configs = {"sap", "csod", "degreed", "canvas", "blackboard"}
  Channels <- MCChannels
  Deployments <- Alone
  ChannelOf <- MCChannelOf
  RecordOf <- MCRecordOf
  GradeOf <- MCGradeOf
  DetectGrade = {"CSOD", "DEGREED", "CANVAS", "BLACKBOARD"}
  FlagsInactive = {"SAP"}
  ReportIncomplete = {}
  Assessed = {"blackboard"}
  Jobs <- MCJobs
  Workers = {w1, w2}
  Marks = {"0", "90"}
  Zero = "0"
  Answers = {"error", "redirect", "inactive", "exception"}
  MaxChanges = 1
  MaxFailures = 1
  MaxCrashes = 1
  Overrun = {"sap"}
INVARIANTS TypeOK SkippedWasReceived RepeatHasCause
PROPERTIES RunsExclude ProgressIsReported
