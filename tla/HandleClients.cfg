SPECIFICATION Spec
CONSTANTS
    r1 = r1
    r2 = r2
    Users = {c1, c2}
    JSThread = js
    Refs = {r1, r2}
    HashCodes <- AllHandles
    Hash <- DistinctHashes
    GC = TRUE
    MayClose = FALSE
    NoHandle = NoHandle
INVARIANT HeldIsAlive
