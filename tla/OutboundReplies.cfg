\* Two messages and a limit of one: a callback, a report and a request may hold
\* stale copies of one message at once.
SPECIFICATION FairSpec
CONSTANTS
    MaxMessages = 2
    Limit = 1
    Handlers = {h1}
    Callbacks = {"sent", "delivered", "read"}
INVARIANTS
    TakenIsBilled
    TakenWithinQuota
    SentMeansAccepted
PROPERTIES
    MessageLeavesSending
