\* One worker and one call at a queue of one place: the worker dies between any
\* two commands, a command fails or its reply is lost, an operator replays.
SPECIFICATION Spec
CONSTANTS
    Events = {e1, e2}
    Workers = {w1}
    Calls = {c1}
    Operators = {c1}
    None = None
    MaxDepth = 1
    MaxAttempts = 2
    Timeout = 1
    KeyLife = 9
    MaxTime = 1
    MaxLetters = 2
    MaxFaults = 1
    Faults = {"redis", "crash"}
SYMMETRY Symmetry
INVARIANTS
    WorkIsListedOnce
    AttemptsArePaidFor
    DepthIsBounded
    KeyMeansWork
\* Once every key is claimed and every entry settled there is nothing to do.
CHECK_DEADLOCK FALSE
