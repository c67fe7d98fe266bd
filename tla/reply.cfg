SPECIFICATION AuditSpec
CONSTANTS
    Req = {r1, r2}
INVARIANTS AuditTypeOK ReplyTruthful SealedOnceDecrypted
