SPECIFICATION Spec
CONSTANTS
    h1 = h1
    h2 = h2
    k1 = k1
    k2 = k2
    Handlers <- TwoHandlers
    Kinds = {"env"}
    Keys = {k1}
    Limits <- MCLimits
    Scenarios = {{"overlap"}}
PROPERTIES
    ConflictMeansExists
