SPECIFICATION Spec
CONSTANTS
    k1 = k1
    k2 = k2
    k3 = k3
    t1 = t1
    t2 = t2
    t3 = t3
    center = center
    user1 = user1
    Clients = {k1, k2, k3}
    Threads = {t1, t2, t3}
    MaxSlot = 2
    MaxFd = 3
    Accounts = {center, user1}
SYMMETRY Symmetry
CHECK_DEADLOCK FALSE
INVARIANT TypeOK
INVARIANT SlotLedger
INVARIANT OwnConnection
INVARIANT NoAccountLockedOut
