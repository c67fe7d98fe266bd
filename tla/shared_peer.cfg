SPECIFICATION AuditSpec
CONSTANTS
    d1 = d1
    a1 = a1
    a2 = a2
    c1 = c1
    c2 = c2
    c3 = c3
    None = None
    Device = {d1}
    Account = {a1, a2}
    Emulator = {e1}
    Client = {c1, c3}
    Owner <- MCOwner
    Target <- MCTarget
    Trickle = 1
    MaxOffers <- Once
INVARIANTS AnswersOwnClient
CHECK_DEADLOCK FALSE
