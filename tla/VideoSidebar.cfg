SPECIFICATION Spec
CONSTANTS
  Videos = {v1, v2}
  None = None
  Known = {v1}
  Earlier = earlier
  MaxJobs = 2
  MaxSecond = 1
  MaxTurns = 2
  Kinds = {"summary"}
  MaxClicks = 3
INVARIANTS
  NothingSavedIsLost
  RightResults
  RecordedMediaStay
  OneAnalysisAtATime
PROPERTIES
  AnalysisComesBack
CHECK_DEADLOCK FALSE
