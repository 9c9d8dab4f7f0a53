SPECIFICATION Spec
CONSTANTS
    Hosts = {h1}
    Requests = {r1}
    Loop = loop
    Nobody = nobody
    Handshakes = {t1}
    Lifetime = 9
    renewBefore = 3
    Delays <- MCDelays
    maxBackoff = 3
    MaxRows = 2
    MaxSerial = 2
    MaxCrashes = 1
INVARIANTS
    TypeOK
    ActivePairMatches
    ServedIsCurrent
PROPERTIES
    FilesNeverRegress
    FollowsLifecycle
