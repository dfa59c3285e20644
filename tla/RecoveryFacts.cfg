SPECIFICATION Spec
CONSTANTS
  RuleX = RuleX
  Windows = {"Week"}
  DateMax = 20
  Temporary429 = 1
  Routes <- BothRoutes
  Captures <- Either
  Accounts = {"a"}
  Destinations = {"d"}
  Sources = {}
  Scope <- NoScope
  Backoff <- NoBackoff
  Snapshots <- NoRules
  MaxTracked = 20
  MaxSequence = 3
  MaxRevision = 1
  InitialProbe = 1
  MaxProbe = 2
  RetryAfters <- PaidHeaders
  PolicyRetryAfters = {}
  PlanResets = {2}
  WallSteps <- Forward
  Horizon = 0
INVARIANTS
    OneProbePerEpisode
PROPERTIES
    ConfirmKeepsLaterFailures
    RetryAfterIsHonoured
