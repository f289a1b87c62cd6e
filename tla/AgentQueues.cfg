SPECIFICATION Spec
CONSTANTS
  Messages = {m1, m2, m3}
  Diags = {}
  Waiters = {}
  SteeringMode = "one-at-a-time"
  FollowUpMode = "all"
  DiagCap = 0
  SeenCap = 0
  MaxCalls = 1
  MaxTurns = 2
  MaxRuns = 2
INVARIANTS DeliveredInOrder OneSteeringPerTurn QueueSurvives
SYMMETRY Symmetry
CHECK_DEADLOCK FALSE
