CONSTANTS
    Manifests <- MCManifests
    Registries <- MCRegistries
    Sources <- MCSources
    Targets <- MCTargets
    SourceStates <- MCSourceStates
    Policies = {"exact", "refresh"}
    MaxRestarts = 1
    MaxFields = 3
    MaxValue = 4
    JournalCapacity = 2
    Prefix = "("
    Suffix = ")"
    Lower <- MCLower
SPECIFICATION Spec
INVARIANT TypeOK
INVARIANT DeclaredNegotiates
INVARIANT NegotiatedSafe
INVARIANT ReadyRanThePath
INVARIANT RoundTrip
CHECK_DEADLOCK FALSE
