SPECIFICATION Spec
CONSTANTS
    NumGroups = 2
    Id = {"a", "b", "c", "x", "z"}
    GroupOf <- MCGroupOf
    Kind <- MCKind
    DataFiles <- MCDataFiles
    Layout <- MCLayout
    Stripped = Stripped
    Garbage = Garbage
    Nothing = Nothing
    NotFound = NotFound
INVARIANTS
    IdFilesTypeOK
    PreparationRepairs
    SyncFitsBuffer
    IndexesFollowServer
    RepliesAreRecords
PROPERTIES
    SyncLosesOnlyOddIds
