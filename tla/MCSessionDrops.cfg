\* Connections that break, twice, at any point.
CONSTANTS
    DBL_MAX = 9
    ANNUAL_INTEREST_RATE = 2
    Names = {b, c, k, x}
    BuilderNames = {b}
    CarNames = {c}
    CalculatorNames = {k}
    PsInputs = {65637}
    KilometerInputs = {}
    ValueInputs = {1}
    FuelInputs = {}
    TypeInputs = {}
    BrandInputs = {}
    DurationInputs = {}
    ClassInputs = {}
    AmountInputs = {}
    AgeInputs = {}
    Unreadable = {x}
    CutNumbers = {4}
    MaxMessages = 5
    MaxDrops = 2
SPECIFICATION Spec
INVARIANTS
    TypeOK
    ServerFollowsLog
    NothingForgotten
PROPERTIES
    CommandsComplete
    RemoteSpec
