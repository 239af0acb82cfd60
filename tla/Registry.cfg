CONSTANTS
    Incarnation = {n1, n2}
    GrantModes = {"Mutating", "ReadOnlyShared"}
    Ttls = {1, 2}
    MaxCounter = 4
    MaxTtl = 1
    MaxLeaseHistory = 2
    MaxFenceHistory = 1
    MaxReadOnly = 1
    MaxTime = 1
    MaxTokens = 3
    MaxEpoch = 2
    MaxReloads = 1
SPECIFICATION Spec
INVARIANT TypeOK
INVARIANT SingleSlotHolder
INVARIANT IncumbentCurrent
INVARIANT FencingCanComplete
INVARIANT SingleAcceptedClaim
PROPERTY LiveLeaseKept
PROPERTY EraMonotonic
PROPERTY StaleStaysStale
SYMMETRY HolderSymmetry
