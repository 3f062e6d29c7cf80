SPECIFICATION Spec
CONSTANTS
    FirstDim = 4
    Dim = 2
    PerPtxt = 2
    N = 32
    T = 97
    Base = 3
    GswSize = 2
    Padding = Padding
    Counts <- MCCounts
INVARIANTS
    RetrievalTypeOK
    DimensionsHold
    QueryFits
    ExpansionSplits
    SumsArePlaintexts
    BreaksOnlyWhenSmall
PROPERTIES
    RetrievesElement
CHECK_DEADLOCK FALSE
