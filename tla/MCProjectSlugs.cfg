SPECIFICATION ProjectsSpec
CONSTANTS
    Users = {u1, u2}
    Requests = {r1, r2, r3}
    Names <- MCNames
    MaxTries = 3
    MaxFaults = 0
INVARIANT
    RefusedOnlyWithoutSlugs
CHECK_DEADLOCK FALSE
