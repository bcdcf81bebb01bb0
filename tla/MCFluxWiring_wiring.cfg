SPECIFICATION FairSpec
CONSTANTS
    Projects <- MCProjects
    Protected = {}
    Apps <- MCApps
    Clusters <- MCClusters
    Envs <- MCEnvs
    EnvLists <- MCEnvLists
    Policies <- MCPolicies
    MaxCalls <- MCMaxCalls
    NoProject = NoProject
    NoApp = NoApp
    NoEnv = NoEnv
    Manual = Manual
    Scenarios <- MCScenarios
INVARIANTS
    TypeOK
    RootsListChildren
    ChildrenMatchApplications
PROPERTIES
    OrphansAreCleanedUnlessArchived
CHECK_DEADLOCK FALSE
