CONSTANTS
    SysconfResults <- MC_SysconfResults
    Needed <- MC_Needed
    NotFound = NotFound
    Errnos <- MC_Errnos
    MaxSources = 1
    Signals <- MC_Signals
SPECIFICATION Spec
INVARIANT TypeOK
INVARIANT BufferBounded
INVARIANT ReturnsEntryOrError
 
PROPERTY OnlyNonblockChanges
