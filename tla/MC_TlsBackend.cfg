CONSTANTS
    Callers = {c1, c2}
    Databases = {d1, d2, d3}
    openssl = openssl
    legacy = legacy
    dummy = dummy
    Backends = {openssl, legacy, dummy}
    DummyBackend = dummy
    VTable <- MC_VTable
    NULL = NULL
    NoOwner = NoOwner
SPECIFICATION FairSpec
INVARIANT RefcountIsReferences
PROPERTY OneDefaultBackend
PROPERTY AbstractSpec
PROPERTY GetDefaultReturns
