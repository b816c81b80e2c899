\* Two clients at the same time: whose requests a storage executes.
CONSTANTS
    Clients = {a, b}
    MaxRequests = 1
SPECIFICATION Spec
SYMMETRY ClientSymmetry
INVARIANT EveryoneServedRight
