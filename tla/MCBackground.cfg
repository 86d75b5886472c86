SPECIFICATION BackgroundSpec
CONSTANTS
    Processes = {"old", "new", "job"}
    Files <- MCFiles
    MigrateOnly = {"job"}
    MaxFaults = 2
    Chars <- MCChars
    WordChars = {"x"}
    Spaces <- MCSpaces
    Texts <- MCTexts
    Repos <- MCRepos
    PageSize = 2
    TokenLife = 4
    Margin = 1
    MaxChanges = 2
    MaxFailures = 1
    MaxDelays = 2
    e1 = e1  e2 = e2
    c1 = c1  c2 = c2  c3 = c3  c4 = c4  c5 = c5
    j1 = j1  j2 = j2  j3 = j3
    Executions = {e1, e2}
    Captures = {c1, c2, c3, c4, c5}
    Named <- MCNamed
    Untimed = {c5}
    Jobs = {j1, j2, j3}
    Capture <- MCCapture
    Job <- MCJob
    Slack = 1
    EnrichmentBatch = 1
    ListQueryAccepted = TRUE
    MaxAborts = 1
    MaxMoves = 2
INVARIANTS
    MigrationsTakeEffectOnce MigrationsAreInOrder
    ListingErrorsAreBounded MatchedRunsFitTheirJob
PROPERTIES
    EveryProcessStarts SplitsLikeTheLexer CoverageConverges PendingRunsAreSettled
CHECK_DEADLOCK FALSE
