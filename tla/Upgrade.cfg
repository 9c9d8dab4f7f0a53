SPECIFICATION Spec
CONSTANTS
    Unit = unit
    Hands = {hand}
    Installers = {installer}
    MaxVersion = 2
INVARIANTS
    TypeOK
    SucceededIsInstalled
CHECK_DEADLOCK FALSE
