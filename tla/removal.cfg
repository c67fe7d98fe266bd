SPECIFICATION FairAuditSpec
CONSTANTS
    u1 = u1
    u2 = u2
    a1 = a1
    a2 = a2
    a3 = a3
    None = None
    User = {u1}
    Account = {a1}
    Device = {d1, d2}
    Req = {r1, r2}
    Leases = 1
    LinkId <- MCLinkId
    LinkUser <- MCLinkUser
    LinkDevice <- MCLinkDevice
    AccountUser <- MCAccountUser
    Root <- MCRoot
    DeviceLists <- AllLists
    AccountLists <- AllAccounts
    DefaultDays = 1
    ExtendDays = 1
    MaxExpiry = 3
    Ops = {"link", "unlink", "removeUser", "removeAccount"}
    Faults = FALSE
INVARIANTS LeaseConsistent
PROPERTIES RemovalFrees
CHECK_DEADLOCK FALSE
