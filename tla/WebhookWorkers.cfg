\* Two workers that keep running, one slow enough for the other to take its
\* entry, and keys that expire while their event is still queued.
SPECIFICATION FairSpec
CONSTANTS
    Events = {e1}
    Workers = {w1, w2}
    Calls = {c1, c2}
    Operators = {c1}
    None = None
    MaxDepth = 3
    MaxAttempts = 2
    Timeout = 1
    KeyLife = 2
    MaxTime = 2
    MaxLetters = 2
    MaxFaults = 0
    Faults = {}
INVARIANTS
    AcceptedIsKept
PROPERTIES
    AcceptedIsSettled
\* Once every key is claimed and every entry settled there is nothing to do.
CHECK_DEADLOCK FALSE
