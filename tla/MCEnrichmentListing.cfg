SPECIFICATION EnrichmentSpec
CONSTANTS
    e1 = e1  e2 = e2
    c1 = c1  c2 = c2  c3 = c3  c4 = c4  c5 = c5
    j1 = j1  j2 = j2  j3 = j3
    Executions = {e1, e2}
    Captures = {c1, c2, c3, c4, c5}
    Named <- MCNamed
    Untimed = {c5}
    Jobs = {j1, j2, j3}
    Capture <- MCCapture
    Job <- MCJob
    Slack = 1
    EnrichmentBatch = 1
    ListQueryAccepted = FALSE
    MaxAborts = 1
    MaxMoves = 2
PROPERTY PendingRunsAreSettled
