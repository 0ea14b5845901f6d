CONSTANTS
    G_RC_BOX_SIZE <- MC_BoxSizeAsserts
    STRUCT_ALIGNMENT = 8
    GSIZE_BITS = 8
    G_DISABLE_ASSERT = FALSE
    Alignments <- MC_Alignments
    BlockSizes <- MC_BlockSizes
    MaxRefs = 4
SPECIFICATION Spec
INVARIANT TypeOK
INVARIANT HeaderFoundByMacro
INVARIANT BlockFitsAllocation
INVARIANT RefCountTracksReferences
