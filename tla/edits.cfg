SPECIFICATION PutSpec
CONSTANTS
    u1 = u1
    u2 = u2
    a1 = a1
    a2 = a2
    a3 = a3
    None = None
    User = {u1, u2}
    Account = {a1, a2}
    Device = {d1, d2}
    Req = {r1}
    Put = {p1}
    Operators = {o1}
    Leases = 2
    LinkId <- MCLinkId
    LinkUser <- MCLinkUser
    LinkDevice <- MCLinkDevice
    AccountUser <- MCAccountUser
    Root <- MCRoot
    Spare = {d2}
    DeviceLists <- LeasedLists
    AccountLists <- AllAccounts
    DefaultDays = 1
    ExtendDays = 1
    MaxExpiry = 3
    Ops = {"link", "unlink", "removeUser"}
    Faults = TRUE
INVARIANTS LeaseConsistent EditedByLessee
SYMMETRY SlotsAndPuts
CHECK_DEADLOCK FALSE
