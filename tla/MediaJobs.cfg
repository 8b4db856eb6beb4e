\* One job on a small store: the worker and a request that may run it at once, a
\* crash after which the worker may be off or on, uploads refused or cut short.
SPECIFICATION FairSpec
CONSTANTS
    Tenants = {t1}
    MaxUploads = 2
    Processes = {p1}
    Limits = {1}
    Unlimited = Unlimited
    MaxStops = 0
    World = {"proof"}
    Nobody = Nobody
    MaxJobs = 1
    Requests = {q1}
    MaxRequests = 1
    MaxAttempts = 2
    Settings <- MCSettings
    MaxCrashes = 1
INVARIANTS
    OutputsExist
PROPERTIES
    SettledStays
    JobSettles
\* Once every upload, call and job is used up there is nothing to do.
CHECK_DEADLOCK FALSE
