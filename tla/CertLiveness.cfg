SPECIFICATION Spec
CONSTANTS
    Hosts = {h1}
    Requests = {r1}
    Loop = loop
    Nobody = nobody
    Handshakes = {}
    Lifetime = 9
    renewBefore = 3
    Delays <- MCOneDelay
    maxBackoff = 3
    MaxRows = 2
    MaxSerial = 1
    MaxCrashes = 1
PROPERTIES
    IssuingIsLeft
    DueIsTried
