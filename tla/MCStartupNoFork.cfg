\* A process that cannot be created.
CONSTANTS
    Texts <- MCTexts
    Options <- FreeOptions
    Foreign = {"here"}
    ForeignPort = 1113
SPECIFICATION Spec
INVARIANT KillsOnlyItsServer
