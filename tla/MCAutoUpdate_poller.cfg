SPECIFICATION FairSpec
CONSTANTS
    a1 = a1
    a2 = a2
    good = good
    bad = bad
    Apps <- TwoApps
    Tags <- TwoTags
    Bad = {bad}
    Initial = good
    NoTag = NoTag
    NoApp = NoApp
    MaxQueue = 2
    Asks <- OwnAsks
    Watched <- OneWatched
    Scenarios <- AllScenarios
INVARIANTS
    TypeOK
    RollsBackOnce
PROPERTIES
    TagIsRun
    BadTagLeaves
