SPECIFICATION Spec
CONSTANTS
    r1 = r1
    r2 = r2
    u1 = u1
    u2 = u2
    u3 = u3
    u4 = u4
    Runs = {r1, r2}
    Uris = {u1, u3, u4}
    Owner <- Owners
    ForeignRefs <- Shared
    Unresolvable = {u3}
    Directories = {u4}
    Cleaners = {c1, c2}
    DaysFor <- Days
    ReportDays = 1
    MaxTime = 2
    MaxPasses = 2
SYMMETRY CleanerSymmetry
INVARIANTS
    
    ReportIsComplete
CHECK_DEADLOCK FALSE
