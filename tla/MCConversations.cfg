CONSTANTS
    Convs = {1, 2}
    Requests = {1, 2, 3}
    Score <- MCScore
    Size <- MCSize
    Thresholds <- MCThresholds
    Readers = {"d"}
    PageLimit = 1
    HistoryRecords = 3
    HistoryTokens = 2
    MaxTime = 1
    PlaceholderLength <- MCPlaceholderLength
    Prompts = {"p", "q"}
    MaxMounts = 2
    MaxTurns = 3
    MaxConversations = 2
SPECIFICATION MCSpec
INVARIANTS
    PagesExact
    CountsMatchMessages
    HistoryHonoursPolicy
    WorkspaceSound
CHECK_DEADLOCK FALSE
