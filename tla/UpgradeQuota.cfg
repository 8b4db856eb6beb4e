\* An upgrade approved after part of the old quota was used.
SPECIFICATION Spec
CONSTANTS
    MaxRevisions = 1
    MaxCalls = 1
    OldLimit = 1
    NewLimit = 2
INVARIANTS
    UpgradeGrantsItsQuota
\* The month may end before anything is requested.
CHECK_DEADLOCK FALSE
