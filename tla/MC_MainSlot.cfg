CONSTANTS
    TGImages <- MC_TGImages
    TGOldModules <- MC_NoOldModules
    SSImages <- MC_SSImages
    StoreValues <- MC_StoreValues
SPECIFICATION Spec
INVARIANT TypeOK
INVARIANT TG_BankMatchesConfig
INVARIANT SS_RomConfigMatchesMapping
PROPERTY TG_SnapshotRoundTrip
PROPERTY SS_SnapshotRoundTrip
