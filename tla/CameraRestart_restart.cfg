SPECIFICATION RestartSpec
CONSTANTS
    c1 = c1
    c2 = c2
    Callers = {c1, c2}
    Parser = Parser
    Commands = {"active"}
    QueueLimit = 6
    MaxFaults = 2
CHECK_DEADLOCK FALSE
INVARIANT RestartTypeOK
INVARIANT Reconnected
PROPERTY HangsHaveACause
PROPERTY GhostsHaveACause
PROPERTY ExitNeedsARace
