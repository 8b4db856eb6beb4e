\* Two upgrades and two handlers on stale copies, while messages use up a quota of
\* two and then one of two more.
SPECIFICATION Spec
CONSTANTS
    MaxRevisions = 2
    MaxCalls = 2
    OldLimit = 2
    NewLimit = 2
INVARIANTS
    UsageIsCovered
    PaidUpgradeIsPending
\* The month may end before anything is requested.
CHECK_DEADLOCK FALSE
