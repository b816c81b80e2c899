\* A connection that holds: every setter, two cars, both rates.
CONSTANTS
    DBL_MAX = 9
    ANNUAL_INTEREST_RATE = 2
    Names = {b, c, d, k}
    BuilderNames = {b}
    CarNames = {c, d}
    CalculatorNames = {k}
    PsInputs = {65637}
    KilometerInputs = {7}
    ValueInputs = {1}
    FuelInputs = {"DIESEL"}
    TypeInputs = {"SUV"}
    BrandInputs = {"BMW"}
    DurationInputs = {5}
    ClassInputs = {3}
    AmountInputs = {1}
    AgeInputs = {FALSE}
    Unreadable = {}
    CutNumbers = {}
    MaxMessages = 8
    MaxDrops = 0
SPECIFICATION Spec
VIEW ConnectedView
CONSTRAINT BuildersOrCalculators
INVARIANTS
    ObjectsSynchronised
    ResultsUseEditedObjects
