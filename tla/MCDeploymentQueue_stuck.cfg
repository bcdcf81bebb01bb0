SPECIFICATION FairSpec
CONSTANTS
    w1 = w1
    w2 = w2
    r1 = r1
    r2 = r2
    cart = cart
    dev = dev
    prod = prod
    branch = branch
    NoWorker = NoWorker
    NoRequest = NoRequest
    NoId = NoId
    NoEnv = NoEnv
    Workers <- OneWorker
    Requests <- TwoRequests
    Ids <- TwoRequests
    IdOf <- OwnId
    Apps = {cart}
    AppOf <- OneApp
    Envs = {dev}
    EnvOf <- OneEnv
    LockKeys = {branch}
    KeyOf <- OneKey
    Lease = 2
    MaxAttempts = 2
    BatchLimit = 2
    Scenarios = {{"crash"}}
    MaxFaults = 1
PROPERTIES
    EverySettles
