CONSTANTS
    MaxLog = 2
    Snapshots <- MCSnapshots
    MaxWrites = 3
    MaxCrashes = 2
    MaxErrors = 1
    MaxLosses = 1
SPECIFICATION Spec
INVARIANT TypeOK
INVARIANT AckedSurvives
INVARIANT LogAgrees
INVARIANT NoHole
PROPERTY ImplementsDurableDocument
