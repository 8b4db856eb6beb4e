\* Three handlers on one invoice, which two bundles could claim, across the end of
\* its month: supplied and made invoices, payments, corrections, reversals, proofs
\* saved late, and a pass or a call that dies.
SPECIFICATION FairSpec
CONSTANTS
    MaxBills = 1
    MaxCalls = 3
    MaxPurchases = 2
    Horizon = 1
    MaxCrashes = 1
INVARIANTS
    GrantIsPaidFor
    PaidIsGranted
PROPERTIES
    EndedStaysEnded
    BundlesLapse
\* The months end at Horizon.
CHECK_DEADLOCK FALSE
