CONSTANTS
    Capacity = 2
    MaxDecisions = 9
    MaxCrashes = 1
    MaxErrors = 1
SPECIFICATION Spec
INVARIANT JournalFirst
INVARIANT LossReported
INVARIANT GrowthPerBoot
