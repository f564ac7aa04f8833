SPECIFICATION Spec
CONSTANTS
    Revs <- MCRevs
    Guarded <- MCGuarded
    None = NoRev
    NoRev = NoRev
    R1 = R1
    R2 = R2
    R3 = R3
INVARIANT AlwaysReconcilable
INVARIANT RestorePointsKept
PROPERTY StartupReadsStable
PROPERTY ImplementsOwnedChange
