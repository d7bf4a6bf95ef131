SPECIFICATION PolicySpec
\* Calls are bounded, so the parts come to rest.
CHECK_DEADLOCK FALSE
CONSTANTS
    Requests <- SomeRequests
    Entries <- SomeEntries
    MaxRecords = 2
INVARIANTS
    KnownDenialsRepeat
    DeniedOnlyOnGrounds
    DecisionIsStrongest
    DenialsAreTraced
    RegistryIsExact
    
    NothingBeyondAuthority
