SPECIFICATION Spec
CONSTANTS
    r1 = r1
    r2 = r2
    Users = {js}
    JSThread = js
    Refs = {r1, r2}
    HashCodes <- AllHandles
    Hash <- CollidingHashes
    GC = TRUE
    MayClose = TRUE
    NoHandle = NoHandle
INVARIANT TypeOK
INVARIANT NoDoubleFree
INVARIANT HeldIsAlive
INVARIANT AllReleasedAtFree
