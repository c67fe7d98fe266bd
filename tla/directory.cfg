SPECIFICATION AuditSpec
CONSTANTS
    op = op
    u1 = u1
    a1 = a1
    a3 = a3
    a4 = a4
    None = None
    User = {op, u1}
    UserRole <- MCUserRole
    Account = {a1, a3, a4}
    AccountUser <- MCAccountUser
    Root <- MCRoot
    Req = {r1, r2}
    Pin = {p1, p2}
    Faults = TRUE
INVARIANTS AuditTypeOK RootExact PinsDistinct
PROPERTIES TenancySpec
SYMMETRY SlotsAndPins
CHECK_DEADLOCK FALSE
