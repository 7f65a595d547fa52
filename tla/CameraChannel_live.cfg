SPECIFICATION FairSpec
CONSTANTS
    c1 = c1
    c2 = c2
    c3 = c3
    Callers = {c1, c2}
    Parser = Parser
    Commands <- AskingCommands
    QueueLimit = 2
INVARIANT SuccessIsTrue
PROPERTY PromiseKept
