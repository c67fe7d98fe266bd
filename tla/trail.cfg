SPECIFICATION AuditSpec
CONSTANTS
    None = None
    User = {u0, u1, u2}
    Android = {u1}
    Seeded = {u0}
    Email = {e0, e1}
    Configured = {e0}
    Device = {d1}
    Req = {r1, r2}
    Row = {i1, i2, i3}
    MaxErased = 1
    MaxWritten = 1
    Faults = TRUE
    Written <- Forged
INVARIANTS RemovalsTold EmailsTold CreationsHappened
SYMMETRY Names
CHECK_DEADLOCK FALSE
