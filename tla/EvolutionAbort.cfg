CONSTANTS
    Incarnation <- MCIncarnation
    MaxCounter = 20
    MaxTtl = 4
    MaxLeaseHistory = 20
    MaxFenceHistory = 20
    MaxReadOnly = 1
    SourceSchema = 1
    TargetSchema = 2
    LeaseTtl = 2
    MaxBatch = 2
    MaxLog = 4
    WindowOps = 1
    WindowTime = 0
    MaxRestarts = 4
    MaxRounds = 3
    Boundaries = {TRUE, FALSE}
    Operations = {"Plan", "Preflight", "Start", "Advance", "Pause", "Resume", "Abort", "Reconcile"}
    MaxBoot = 1
    MaxCrashes = 0
    Failures = {"request lost", "answer lost"}
    MaxLosses = 0
    MaxWrites = 2
    MaxProbes = 2
    MaxPlans = 2
    MaxTime = 1
SPECIFICATION Spec
INVARIANT SingleWriter
PROPERTY AbortRestores
PROPERTY NoRollbackPastBoundary
