CONSTANTS
    RegValues <- MC_RegValues
    RamValues <- MC_RamValues
    RamPattern <- MC_RamPattern
SPECIFICATION Spec
INVARIANT TypeOK
INVARIANT RamInBounds
INVARIANT RamBackedWhileAttached
