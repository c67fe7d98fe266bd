SPECIFICATION PutSpec
CONSTANTS
    u1 = u1
    u2 = u2
    a1 = a1
    a2 = a2
    a3 = a3
    None = None
    User = {u1}
    Account = {a1}
    Device = {d1}
    Req = {r1}
    Put = {p1}
    Operators = {o1}
    Leases = 1
    LinkId <- MCLinkId
    LinkUser <- MCLinkUser
    LinkDevice <- MCLinkDevice
    AccountUser <- MCAccountUser
    Root <- MCRoot
    Spare = {}
    DeviceLists <- LeasedLists
    AccountLists <- OrdinaryLists
    DefaultDays = 1
    ExtendDays = 1
    MaxExpiry = 3
    Ops = {"link", "unlink"}
    Faults = FALSE
PROPERTIES EditorLeases
CHECK_DEADLOCK FALSE
