\* A server of other people runs at the address that the file gives.
CONSTANTS
    Texts <- MCTexts
    Options <- FreeOptions
    Foreign = {"there"}
    ForeignPort = 1113
SPECIFICATION Spec
PROPERTY ServerClosesWithClient
