\* Every command line and file, servers of other people here and elsewhere.
CONSTANTS
    Texts <- MCTexts
    Options <- MCOptions
    Foreign = {"here", "there"}
    ForeignPort = 1113
SPECIFICATION Spec
INVARIANTS
    TypeOK
    ClientFindsItsServer
    ExitedClientLeavesNoServer
PROPERTIES
    FileEndsBoth
    ShutdownCompletes
    ServerGoesWithClient
