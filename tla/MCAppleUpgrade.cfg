SPECIFICATION Spec
CONSTANTS
    MaxRecoveries = 2
    MaxStarts = 1
    MaxUpgrades = 2
    Nobody = Nobody
    None = Nobody
INVARIANT OneIdentity
INVARIANT DecidedMeansDone
INVARIANT ChangedUnderReview
