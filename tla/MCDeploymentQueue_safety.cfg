SPECIFICATION Spec
CONSTANTS
    w1 = w1
    w2 = w2
    r1 = r1
    r2 = r2
    cart = cart
    dev = dev
    prod = prod
    branch = branch
    NoWorker = NoWorker
    NoRequest = NoRequest
    NoId = NoId
    NoEnv = NoEnv
    Workers <- TwoWorkers
    Requests <- TwoRequests
    Ids <- TwoRequests
    IdOf <- OwnId
    Apps = {cart}
    AppOf <- OneApp
    Envs = {dev, prod}
    EnvOf <- TwoEnvs
    LockKeys = {branch}
    KeyOf <- OneKey
    Lease = 2
    MaxAttempts = 2
    BatchLimit = 2
    Scenarios <- SafetyScenarios
    MaxFaults = 1
INVARIANTS
    TypeOK
    WorkerHoldsRow
    AttemptsWithinBudget
    SingleWriterIfTimely
    RecordedWhereRequested
PROPERTIES
    ImplementsLedger
    WritesKeepOrderIfUndisturbed
