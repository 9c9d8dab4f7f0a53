SPECIFICATION Spec
CONSTANTS
    Domains = {d1}
    Relays = {x1}
    Global = global
    Admins = {a1, a2}
    Logins = {l1, l2}
    Nexthop <- MCNexthop
    Direct = direct
    Inherit = inherit
    Null = null
    MaxRequests = 3
    MaxCrashes = 1
INVARIANTS
    TypeOK
    RelayModeIsHonoured
    LoadedIsOnDisk
    OrderlyIsCurrent
    OneLoginPerNexthop
PROPERTY RelayInUseStays
SYMMETRY Symmetry
CHECK_DEADLOCK FALSE
