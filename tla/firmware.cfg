CONSTANTS
    MaxDevice = 2
    Worker = {w1, w2}
    CheckEvery = 1
    Retry = 1
    MaxAge = 1
    Budget <- OneOfEach
    NoRow = NoRow
SPECIFICATION Spec
SYMMETRY Alike
INVARIANTS TypeOK RunningIsOwned PreviousIsOlder
PROPERTIES ImplementsGate NeverGoesBack
