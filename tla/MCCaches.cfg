SPECIFICATION CachesSpec
CONSTANTS
    k1 = k1  k2 = k2  NoKid = NoKid  g1 = g1  g2 = g2
    Kids = {k1, k2}
    Tokens <- MCTokens
    Audiences = {"server"}
    Verifiers = {g1, g2}
    CacheTTL = 1
    FetchTimeout = 1
    MaxTime = 4
    NoRepo = NoRepo  NoRequest = NoRequest
    UserRepos = {"r1"}
    Requests = {g1, g2}
    AccessCacheTTL = 1
    AccessMaxStaleness = 2
    RequestTimeout = 1
    MaxClock = 6
    MaxTokens = 2
SYMMETRY MCSymmetry
INVARIANTS
    WithdrawnKeysStopVerifying PublishedKeysBecomeKnown
    BindingsRestOnRecentAccess StoredRefreshTokenIsUsable
PROPERTY CopiesNeverGoBack
CHECK_DEADLOCK FALSE
