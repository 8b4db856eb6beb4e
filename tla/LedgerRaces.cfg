\* Two calls in flight on stale rows: tenant and admin invoices, voided and reissued.
SPECIFICATION Spec
CONSTANTS
    Bills = {b1, b2}
    NoBill = NoBill
    Calls = {c1, c2}
    Schedulers = {s1}
    MonthLength = 1
    GraceLength = 1
    TrialEnd = 0
    Horizon = 1
    MaxAhead = 3
    AutoApprove = FALSE
    Offered = {"period", "manual"}
    Edits = {"void"}
SYMMETRY Symmetry
INVARIANTS
    OneActivePaid
    ProjectionBacked
    GraceFollowsTheWindow
    FutureStaysUpcoming
PROPERTIES
    ImplementsLifecycle
\* The clock stops at Horizon and every bill may be used up.
CHECK_DEADLOCK FALSE
