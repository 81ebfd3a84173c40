SPECIFICATION FairSpec
CONSTANTS
    Devices = {d1, d2}
    None = None
    Parts = {"ams"}
    MaxEdits = 2
    MaxCommands = 1
INVARIANTS
    TypeOK
    FetchBacked
    OwnShown
PROPERTIES
    Settles
    CommandsShown
