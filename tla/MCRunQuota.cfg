CONSTANTS
    r1 = r1  r2 = r2  o1 = o1  e1 = e1  e2 = e2  e3 = e3
    good = good  bad = bad  h1 = h1  h2 = h2
    Repos = {r1}
    Owners = {o1}
    OwnerOf <- MCOwnerOf
    Executions = {e1, e2, e3}
    Payloads = {good}
    ValidPayloads = {good}
    Handlers = {h1, h2}
    Quota = 1
    Day = 1
    TokenTTL = 2
    RateLimit = 2
    RateWindow = 1
    MaxTime = 2
    MaxTokens = 3
    Matchable = {}
SYMMETRY MCSymmetry
SPECIFICATION IngestSpec
INVARIANTS QuotaOvershootIsBounded
CHECK_DEADLOCK FALSE
