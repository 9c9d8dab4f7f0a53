SPECIFICATION Spec
CONSTANTS
    Unit = unit
    Hands = {}
    Installers = {}
    MaxVersion = 2
INVARIANTS
    FailureIsShown
CHECK_DEADLOCK FALSE
