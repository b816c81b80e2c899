\* A connection lost within a reply.
CONSTANTS
    DBL_MAX = 9
    ANNUAL_INTEREST_RATE = 2
    Names = {b, c, k}
    BuilderNames = {b}
    CarNames = {c}
    CalculatorNames = {}
    PsInputs = {65637}
    KilometerInputs = {}
    ValueInputs = {1}
    FuelInputs = {}
    TypeInputs = {}
    BrandInputs = {}
    DurationInputs = {}
    ClassInputs = {}
    AmountInputs = {}
    AgeInputs = {}
    Unreadable = {}
    CutNumbers = {}
    MaxMessages = 4
    MaxDrops = 1
SPECIFICATION Spec
INVARIANT OnlyNamedObjects
