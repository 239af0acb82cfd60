CONSTANTS
    Conns = {c1, c2}
    Workers = {w1, w2}
    None = None
    MaxQueued = 1
    MaxRequests = 1
    MaxSends = 2
    CloseWakes = FALSE
SPECIFICATION Spec
INVARIANT TypeOK
INVARIANT OneOwner
INVARIANT ReadersWoken
PROPERTY QueueServed
PROPERTY StopCompletes
CHECK_DEADLOCK FALSE
