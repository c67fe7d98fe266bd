SPECIFICATION AuditSpec
CONSTANTS
    u1 = u1
    u2 = u2
    u3 = u3
    u4 = u4
    Upload = {u1, u2, u3, u4}
    VersionOf <- MCVersionOf
    None = None
    Faults = TRUE
INVARIANTS UploadTakesEffect OnlyOverlapsMix
CHECK_DEADLOCK FALSE
