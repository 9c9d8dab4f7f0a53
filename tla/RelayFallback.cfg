SPECIFICATION Spec
CONSTANTS
    Domains = {d1}
    Relays = {x1}
    Global = global
    Admins = {a1}
    Logins = {l1}
    Nexthop <- MCNexthop
    Direct = direct
    Inherit = inherit
    Null = null
    MaxRequests = 5
    MaxCrashes = 1
INVARIANT NeverFallsBack
CHECK_DEADLOCK FALSE
