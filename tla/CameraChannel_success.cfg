SPECIFICATION Spec
CONSTANTS
    c1 = c1
    c2 = c2
    c3 = c3
    Callers = {c1, c2}
    Parser = Parser
    Commands <- OverlapCommands
    QueueLimit = 1
INVARIANT SuccessAsPrinted
