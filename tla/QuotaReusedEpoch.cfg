SPECIFICATION Spec
CONSTANTS
    c1 = c1
    r1 = r1
    r2 = r2
    Credentials = {c1}
    Requests = {r1}
    Snapshots <- MCShortSnapshots
    TrialRetry = 2
    FirstUnknown = 2
    MaxKnownReset = 4
    Horizon = 4
    MaxKey = 1
    MaxEpisodes = 2
    NoRow = NoRow
    NoEpisode = NoEpisode
    NoSync = NoSync
    NoCredential = NoCredential
PROPERTIES
    PreviousEpisodeNeverClears
