CONSTANTS
    Incarnation <- MCIncarnation
    MaxCounter = 20
    MaxTtl = 4
    MaxLeaseHistory = 20
    MaxFenceHistory = 20
    MaxReadOnly = 1
    SourceSchema = 1
    TargetSchema = 2
    LeaseTtl = 3
    MaxBatch = 2
    MaxLog = 4
    WindowOps = 0
    WindowTime = 0
    MaxRestarts = 4
    MaxRounds = 3
    Boundaries = {FALSE}
    Operations = {"Preflight", "Start", "Advance", "Reconcile"}
    MaxBoot = 1
    MaxCrashes = 0
    Failures = {"request lost", "answer lost"}
    MaxLosses = 0
    MaxWrites = 1
    MaxProbes = 2
    MaxPlans = 1
    MaxTime = 3
SPECIFICATION FairSpec
PROPERTY CampaignCompletes
PROPERTY FencedGetsOwner
