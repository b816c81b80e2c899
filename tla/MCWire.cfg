\* Lines in pieces, and a connection that is lost at any character.
CONSTANTS
    Messages <- MCMessages
    MaxRequests = 3
SPECIFICATION Spec
INVARIANTS
    TypeOK
    HandedOnAsWritten
    OnlyACutLineThrows
PROPERTY WaitEnds
