SPECIFICATION Spec
CONSTANTS
    c1 = c1
    c2 = c2
    h1 = h1
    h2 = h2
    create = create
    policy = policy
    redeploy = redeploy
    retag = retag
    shared = shared
    prod = prod
    NoChange = NoChange
    NoRequest = NoRequest
    Changes = {c1}
    RequestsOf <- AnyRequest
    Handlers <- TwoHandlers
    Requests <- AllRequests
    OperationOf <- OwnOperation
    Envs = {shared, prod}
    EnvOf <- OwnEnv
    RequiresPR <- PolicyRequiresPR
    Prod = prod
    Declared <- SharedReviewed
SYMMETRY Interchangeable
INVARIANTS
    TypeOK
    ApprovedBeforeApplied
    MergedIsApplied
    DeploysOnce
