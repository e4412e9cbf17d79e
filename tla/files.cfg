SPECIFICATION Spec
CONSTANTS
    Chunk = 3
    Header = 1
    Sizes = {2, 3, 4, 6, 7}
    MaxTransfers = 2
    MaxTexts = 1
    MaxLosses = 2
CHECK_DEADLOCK FALSE
INVARIANTS
    TypeOK
    LogsAgree
    WholeFilesIntact
PROPERTIES
    FilesArrive
    ButtonReturns
