\* Two deliveries at once of a message, its edit and another message, a period that
\* allows at most two, and a channel that is disconnected, connected and removed.
SPECIFICATION Spec
CONSTANTS
    c1 = c1
    m1 = m1
    m2 = m2
    e1 = e1
    e2 = e2
    e3 = e3
    Channels = {c1}
    Messages = {m1, m2}
    Events = {e1, e2, e3}
    On <- MCOn
    Of <- MCOf
    Handlers = {h1, h2}
    MaxLimit = 2
    MaxSends = 2
    MaxTries = 1
    MaxFaults = 1
SYMMETRY Symmetry
\* Nothing is left to do once every event is delivered or given up.
CHECK_DEADLOCK FALSE
INVARIANTS
    QuotaIsRespected
    BilledOnce
    RowsAgree
    AnnouncedOnce
    GoneMeansEmpty
    DeliveredIsSettled
