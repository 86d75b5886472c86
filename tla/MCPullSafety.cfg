CONSTANTS
    r1 = r1  r2 = r2  Null = Null
    Repos = {r1, r2}
    Installs = {1, 2}
    Retention = 0
    MaxAborts = 1
SPECIFICATION PagedSpec
PROPERTIES CoveredReposKeepTheirRuns CoveredReposKeepTheirBindings
           PurgeWaitsOutTheRetentionWindow
