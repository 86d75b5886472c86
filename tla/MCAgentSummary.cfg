SPECIFICATION StuckAgentSpec
CONSTANTS
    MaxEvents = 2
    MaxEmitted = 2
INVARIANT SummariesAreReadWhole
CHECK_DEADLOCK FALSE
