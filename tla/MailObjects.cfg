SPECIFICATION Spec
CONSTANTS
    Names = {n1}
    Locals = {a, b}
    CatchAll = any
    Outside = outside
    DomainIds = {d1, d2}
    MailboxIds = {m1, m2}
    AliasIds = {x1}
    Admins = {a1, a2}
    Null = null
    Here = here
    Answers <- MCAnswers
    MaxRequests = 3
INVARIANTS
    TypeOK
    RowsBelong
    MapsAreCurrent
    SendersAgree
    ActiveIsEarned
SYMMETRY Symmetry
CHECK_DEADLOCK FALSE
