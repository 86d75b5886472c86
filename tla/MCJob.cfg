CONSTANTS
    r1 = r1  r2 = r2  o1 = o1  e1 = e1  s1 = s1  s2 = s2  h1 = h1  h2 = h2
    p1 = p1  p2 = p2
    Repos = {r1, r2}
    Owners = {o1}
    OwnerOf <- MCOwnerOf
    Executions = {e1}
    Payloads = {s1, s2}
    ValidPayloads = {s1, s2}
    Handlers = {h1, h2}
    Posts = {p1, p2}
    Upload <- MCUpload
    Quota = 1
    Day = 1
    TokenTTL = 1
    RateLimit = 3
    RateWindow = 1
    MaxTime = 1
    MaxTokens = 4
    Matchable = {e1}
    MaxAttempts = 3
    MaxFaults = 3
    Unretryable = TRUE
    MaxEvents = 2
    MaxEmitted = 4
    MaxPid = 4
    MaxLineageDepth = 3
    MaxTraced = 3
SPECIFICATION JobSpec
INVARIANTS UploadsStoreTheirOwnSummary OnlyUnreadLinesAreLost
           EventsAreInTheTree TreeEdgesWereParents
PROPERTIES RetriesKeepTheRun FirstAnswersAreTrue FaultsAreOutlasted
           UploadsEnd StuckAgentsAreLeftBehind
CHECK_DEADLOCK FALSE
