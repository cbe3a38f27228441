\* One account, one address and callers without one; two logins at a time.
SPECIFICATION Spec
CONSTANTS
    Accounts = {a1}
    Clients = {c1}
    NoClient = NoClient
    Workers = {w1, w2}
    AccountFails = 2
    ClientFails = 3
    Lock = 2
    Window = 2
    Retention = 3
    Delay = 1
    MaxTime = 5
    MaxLogins = 4
INVARIANTS IInv LockDeserved LockComes
PROPERTIES LockKept
SYMMETRY Perms
CHECK_DEADLOCK FALSE
