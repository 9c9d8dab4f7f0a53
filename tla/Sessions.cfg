\* Two requests and three sessions: a sign-in, a password change and a logout
\* overlapping with each other and with the sweeper.
SPECIFICATION Spec
CONSTANTS
    Requests = {r1, r2}
    MaxTokens = 3
INVARIANTS
    TypeOK
PROPERTIES
    SweepSparesLive
    EndedIsForgotten
