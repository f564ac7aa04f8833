SPECIFICATION Spec
CONSTANTS
    MaxRecoveries = 3
    MaxStarts = 1
    MaxUpgrades = 2
    Nobody = Nobody
    None = Nobody
INVARIANT OneIdentity
