SPECIFICATION FairSpec
CONSTANTS
    w1 = w1
    w2 = w2
    app = app
    other = other
    Background = Background
    Others = Others
    Initial = Initial
    NoOne = NoOne
    Files = {app, other}
    Writers <- TwoWriters
    FilesOf <- SharedFile
    Readers = {reader}
    Impatient = {w2}
    Scenarios <- FailedEdit
    MaxFaults = 2
PROPERTIES
    WritersSucceed
