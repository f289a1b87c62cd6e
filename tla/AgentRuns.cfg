SPECIFICATION FairSpec
CONSTANTS
  Messages = {m1}
  Diags = {d1}
  Waiters = {w1}
  SteeringMode = "all"
  FollowUpMode = "one-at-a-time"
  DiagCap = 1
  SeenCap = 2
  MaxCalls = 2
  MaxTurns = 2
  MaxRuns = 2
INVARIANTS TypeOK HistoryPaired RequestIsTranscript DiagnosticsStayInRun NoLostWakeup
PROPERTY AbortedRunEnds
CHECK_DEADLOCK FALSE
