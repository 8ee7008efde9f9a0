CONSTANTS
    Prompts = {"p", "q"}
    MaxMounts = 2
    MaxTurns = 3
    MaxConversations = 2
SPECIFICATION WorkspaceSpec
INVARIANTS
    RouteChangeAborts
CHECK_DEADLOCK FALSE
