SPECIFICATION Spec
CONSTANTS
  RuleX = RuleX
  Windows = {}
  DateMax = 20
  Temporary429 = 1
  Routes <- PooledRoutes
  Captures <- PooledCaptures
  Accounts = {"a", "b"}
  Destinations = {"d"}
  Sources = {}
  Scope <- NoScope
  Backoff <- NoBackoff
  Snapshots <- NoRules
  MaxTracked = 9
  MaxSequence = 2
  MaxRevision = 1
  InitialProbe = 1
  MaxProbe = 2
  RetryAfters = {2}
  PolicyRetryAfters = {}
  PlanResets = {}
  WallSteps <- Forward
  Horizon = 0
INVARIANTS
  ClaimsAreCounted
  CapacityHolds
  ResetForgetsOldReplies
  PreviewAgreesWithAcquire

