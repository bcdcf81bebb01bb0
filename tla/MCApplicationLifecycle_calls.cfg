SPECIFICATION FairSpec
CONSTANTS
    h1 = h1
    h2 = h2
    k1 = k1
    k2 = k2
    Handlers <- TwoHandlers
    Kinds = {"env", "registry"}
    Keys = {k1, k2}
    Limits <- MCLimits
    Scenarios <- AllScenarios
INVARIANTS
    TypeOK
    NoDangling
    NoOrphans
    DirectoryHoldsApplication
PROPERTIES
    LifecycleOrder
    StagesAreCleaned
    FinalAfterCommit
    AnswersHold
    NothingResurfaces
