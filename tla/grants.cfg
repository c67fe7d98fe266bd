SPECIFICATION PopulatedSpec
CONSTANTS
    u1 = u1
    u2 = u2
    a1 = a1
    a2 = a2
    a3 = a3
    None = None
    User = {u1, u2}
    Account = {a1, a2, a3}
    Device = {d1}
    Req = {r1, r2}
    Leases = 1
    LinkId <- MCLinkId
    LinkUser <- MCLinkUser
    LinkDevice <- MCLinkDevice
    AccountUser <- MCAccountUser
    Root <- MCRoot
    DeviceLists <- SingleLists
    AccountLists <- OrdinaryLists
    DefaultDays = 1
    ExtendDays = 1
    MaxExpiry = 2
    Ops = {"link", "unlink", "assign", "unassign", "removeUser", "removeAccount", "removeDevice"}
    Faults = TRUE
INVARIANTS GrantsOwned AccountViewsAgree HolderSeen CountSeen
SYMMETRY Slots
CHECK_DEADLOCK FALSE
