CONSTANTS
    Incarnation <- MCIncarnation
    MaxCounter = 20
    MaxTtl = 4
    MaxLeaseHistory = 20
    MaxFenceHistory = 20
    MaxReadOnly = 1
    SourceSchema = 1
    TargetSchema = 2
    LeaseTtl = 2
    MaxBatch = 2
    MaxLog = 2
    WindowOps = 0
    WindowTime = 0
    MaxRestarts = 4
    MaxRounds = 3
    Boundaries = {FALSE}
    Operations = {"Preflight", "Start", "Advance", "Reconcile"}
    MaxBoot = 1
    MaxCrashes = 0
    Failures = {"late"}
    MaxLosses = 1
    MaxWrites = 4
    MaxProbes = 2
    MaxPlans = 1
    MaxTime = 0
SPECIFICATION Spec
INVARIANT AppliedOnce
