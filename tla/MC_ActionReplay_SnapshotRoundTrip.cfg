CONSTANTS
    RegValues <- MC_RegValues
    RamValues <- MC_RamValues
    RamPattern <- MC_RamPattern
    C64RamByte <- MC_C64RamByte
SPECIFICATION Spec
PROPERTY SnapshotRoundTrip
