CONSTANTS
    DBL_MAX = 9
    ANNUAL_INTEREST_RATE = 2
    Names = {a, b}
    CarMessages <- MCCarMessages
    CalculatorMessages <- MCCalculatorMessages
SPECIFICATION Spec
SYMMETRY Symmetry
CONSTRAINT TwoNames
INVARIANTS
    TypeOK
    CarsAreComplete
    ReplyShowsStoredObject
PROPERTIES
    ErrorsKeepObjects
    CalculatorCarIsACopy
