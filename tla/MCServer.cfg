\* Two clients of two requests, at the same time or one after another.
CONSTANTS
    Clients = {a, b}
    MaxRequests = 2
SPECIFICATION Spec
INVARIANTS
    TypeOK
    AloneServedRight
    AloneKeepsItsStream
    AtMostOnce
PROPERTIES
    AloneAnswered
    HandlersEnd
