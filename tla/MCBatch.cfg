SPECIFICATION Spec
CONSTANTS
    BatchSize = 3
    BatchIdNumber = 5
    PtxtSizes = {2, 3, 4}
    ScanLimit = 6
    Id = {1, 2, 3, 4, 5, 6}
    Lettered = {6}
    DataFiles <- MCDataFiles
    Unterminated <- MCUnterminated
    BatchFiles <- MCBatchFiles
    IdMaps <- MCIdMaps
    Garbage = Garbage
    Runs <- MCRuns
INVARIANTS
    BatchTypeOK
    ResultsAreRecords
PROPERTIES
    ScanFindsAll
    BatchCompletes
CHECK_DEADLOCK FALSE
