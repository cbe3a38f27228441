SPECIFICATION Spec
CONSTANTS
    alice = alice
    bob = bob
    carol = carol
    NoName = NoName
    Names = {alice, bob, carol}
    Workers = {w1, w2}
    MaxUsers = 3
    MaxTokens = 2
    MaxRequests = 3
    MaxFailures = 1
    Databases <- SomeDatabases
INVARIANTS IInv SessionOfOwner SessionsCurrent AdminRemains
SYMMETRY Requests
CHECK_DEADLOCK FALSE
