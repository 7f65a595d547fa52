SPECIFICATION Spec
CONSTANTS
    c1 = c1
    c2 = c2
    c3 = c3
    Callers = {c1, c2, c3}
    Parser = Parser
    Commands <- OverlapCommands
    QueueLimit = 1
SYMMETRY Symmetry
INVARIANT TypeOK
INVARIANT MessagePerCall
INVARIANT OneSleeper
INVARIANT OnlyCurrentCommands
INVARIANT FullQueueDrains
PROPERTY FlagsStableAtRest
PROPERTY PromiseSafe
