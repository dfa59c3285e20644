SPECIFICATION FairSpec
CONSTANTS
    c1 = c1
    r1 = r1
    r2 = r2
    Credentials = {c1}
    Requests = {r1, r2}
    Snapshots <- MCSnapshots
    TrialRetry = 1
    FirstUnknown = 1
    MaxKnownReset = 4
    Horizon = 2
    MaxKey = 2
    MaxEpisodes = 2
    NoRow = NoRow
    NoEpisode = NoEpisode
    NoSync = NoSync
    NoCredential = NoCredential
INVARIANTS
    TypeOK
    WaitCoversEvidence
    ProbeHasOwner
    OneTrialPerEpisode
    RowBelongsToKey
PROPERTIES
    TrialsAreSpaced
    OnlyOwnTrialClears
    NoStaleEvidence
    ProbingEnds
