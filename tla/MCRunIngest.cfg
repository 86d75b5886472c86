CONSTANTS
    r1 = r1  r2 = r2  o1 = o1  e1 = e1  e2 = e2  e3 = e3  good = good  bad = bad  h1 = h1  h2 = h2
    Repos = {r1, r2}
    Owners = {o1}
    OwnerOf <- MCOwnerOf
    Executions = {e1}
    Payloads = {good, bad}
    ValidPayloads = {good}
    Handlers = {h1, h2}
    Quota = 0
    Day = 1
    TokenTTL = 1
    RateLimit = 2
    RateWindow = 1
    MaxTime = 2
    MaxTokens = 2
    Matchable = {e1}
SYMMETRY MCSymmetry
SPECIFICATION IngestSpec
INVARIANTS TypeOK StoredRunsWereAuthorised AcceptedRunsAreStored
           RunWritersHaveTheirRepo
PROPERTIES ImplementsRunStore UploadsNeverRedateRuns OnlyTheRepoWritesItsRuns
CHECK_DEADLOCK FALSE
