SPECIFICATION AuditSpec
CONSTANTS
    u1 = u1
    u2 = u2
    a1 = a1
    a2 = a2
    a3 = a3
    None = None
    User = {u1}
    Account = {a1, a3}
    Device = {d1}
    Req = {r1}
    Leases = 2
    LinkId <- MCLinkId
    LinkUser <- MCLinkUser
    LinkDevice <- MCLinkDevice
    AccountUser <- MCAccountUser
    Root <- MCRoot
    DeviceLists <- SingleLists
    AccountLists <- AllAccounts
    DefaultDays = 1
    ExtendDays = 1
    MaxExpiry = 3
    Ops = {"link", "unlink", "assign"}
    Faults = FALSE
PROPERTIES AssignReachesLease
CHECK_DEADLOCK FALSE
