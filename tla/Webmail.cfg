SPECIFICATION Spec
CONSTANTS
    Addresses = {"me", "ann", "list"}
    Me = "me"
    Parts = {"p1", "p2"}
    Arriving <- MCArriving
    Forms <- MCForms
    PageSize = 1
    AtStart <- MCAtStart
    MaxRequests = 2
    MaxOutside = 2
INVARIANTS
    TypeOK
    QueuedAsAsked
    SentIsQueued
    PagesMissNothing
PROPERTIES
    OnlyAskedRemoved
    FollowsSubmission
    EveryRequestAnswered
CHECK_DEADLOCK FALSE
