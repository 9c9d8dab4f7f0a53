\* Two requests, two passwords, a mailbox that is deleted and created anew, and
\* enough random values for a passkey to be registered and used.
SPECIFICATION Spec
CONSTANTS
    Passwords = {p1, p2}
    Requests = {r1, r2}
    Null = null
    MaxRandoms = 3
    MaxMailboxes = 2
INVARIANTS
    TypeOK
    PasskeysOpen
SYMMETRY Interchangeable
