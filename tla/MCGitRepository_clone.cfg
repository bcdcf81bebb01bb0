SPECIFICATION FairSpec
CONSTANTS
    w1 = w1
    w2 = w2
    app = app
    other = other
    Background = Background
    Others = Others
    Initial = Initial
    NoOne = NoOne
    Files = {app, other}
    Writers <- TwoWriters
    FilesOf <- SharedFile
    Readers = {reader}
    Impatient = {w2}
    Scenarios <- AllScenarios
    MaxFaults = 2
INVARIANTS
    TypeOK
    SuccessIsLanded
PROPERTIES
    ReadsAreStable
    ImplementsAtomicRepository
    WritersSucceedIfRecoverable
    ReadersSeeBranchIfRecoverable
