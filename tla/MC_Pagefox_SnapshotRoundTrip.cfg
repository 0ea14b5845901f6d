CONSTANTS
    RegValues <- MC_RegValues
    RamValues <- MC_RamValues
    RamPattern <- MC_RamPattern
SPECIFICATION Spec
PROPERTY SnapshotRoundTrip
