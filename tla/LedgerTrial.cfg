\* A trial that ends in the middle of the second month, with both ways out of it,
\* under a scheduler and an expiry job that keep running.
SPECIFICATION FairSpec
CONSTANTS
    Bills = {b1, b2}
    NoBill = NoBill
    Calls = {c1}
    Schedulers = {s1}
    MonthLength = 2
    GraceLength = 1
    TrialEnd = 3
    Horizon = 4
    MaxAhead = 3
    AutoApprove = FALSE
    Offered = {"after_trial", "trial_conversion"}
    Edits = {}
INVARIANTS
    TrialClosedForAReason
PROPERTIES
    DuePeriodsExpire
    ApprovedPeriodsStart
    TrialExpires
    EntitlementLapses
\* The clock stops at Horizon and every bill may be used up.
CHECK_DEADLOCK FALSE
