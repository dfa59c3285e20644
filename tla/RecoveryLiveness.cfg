SPECIFICATION FairSpec
CONSTANTS
  RuleX = RuleX
  Windows = {}
  DateMax = 20
  Temporary429 = 1
  Routes <- FreeRoutes
  Captures <- One
  Accounts = {"a"}
  Destinations = {"d"}
  Sources = {RuleX}
  Scope <- OneScope
  Backoff <- OneBackoff
  Snapshots <- OneRule
  MaxTracked = 20
  MaxSequence = 2
  MaxRevision = 1
  InitialProbe = 1
  MaxProbe = 2
  RetryAfters <- Absent
  PolicyRetryAfters = {2}
  PlanResets = {}
  WallSteps <- Forward
  Horizon = 0
INVARIANTS
    TypeOK
    LeasesAreHeld
    RevokedSourceStaysRevoked
PROPERTIES
  RefusedRoutesRecover
