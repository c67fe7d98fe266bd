SPECIFICATION FairAuditSpec
CONSTANTS
    Server = {s1, s2, s3}
    None = None
    Faults = TRUE
INVARIANTS ListeningIsSeeded SomeServerUp StartRestores
PROPERTIES SomeServerListens
CHECK_DEADLOCK FALSE
