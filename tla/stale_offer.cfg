SPECIFICATION AuditSpec
CONSTANTS
    d1 = d1
    d2 = d2
    a1 = a1
    a2 = a2
    None = None
    Device = {d1}
    Account = {a1}
    EmulatorSocket = {e1}
    ClientSocket = {c1}
    Socket <- MCSocket
    Owner <- MCOwner
    Rows = 1
    RowId <- MCRowId
    ShotDevice = {}
    Faults = FALSE
PROPERTIES OfferNeedsEmulator
CHECK_DEADLOCK FALSE
