CONSTANTS
    r1 = r1  r2 = r2  Null = Null
    Repos = {r1}
    Installs = {1}
    Retention = 1
    MaxAborts = 1
SPECIFICATION FairPullSpec
PROPERTIES ReadableVisibilityConverges UnretainedRunsArePurged
