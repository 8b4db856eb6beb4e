\* One setup link, two setups and an operation on the channels of one bot in two
\* workspaces: each may take over, test or remove what the other works on, the link
\* may be cancelled and lapse, and core may stop once.
SPECIFICATION Spec
CONSTANTS
    a1 = a1
    Workspaces = {w1, w2}
    Bots = {b1}
    Accounts = {a1}
    Creator <- MCCreator
    Console = {"connect", "test", "disconnect", "delete"}
    Calls = {c1, c2}
    MaxRequests = 1
    MaxSetups = 2
    MaxOperations = 1
    MaxCrashes = 1
    NoOne = NoOne
SYMMETRY Symmetry
INVARIANTS
    RequestTellsTheTruth
    HookLeadsToItsChannel
    ProvisioningIsAttended
PROPERTIES
    ConnectedIsLeftByStaleCopiesOnly
