SPECIFICATION Spec
CONSTANTS
    Admins = {a, b}
    Nobody = nobody
    Burst = 2
    Rate = 1
    IdleTicks = 1
    MaxRequests = 4
INVARIANTS
    TypeOK
    NeverLockedOut
    SecretIsConfirmed
    PasskeysSignIn
    CleanupForgetsNothing
SYMMETRY Symmetry
CHECK_DEADLOCK FALSE
