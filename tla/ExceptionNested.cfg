SPECIFICATION Spec
CONSTANTS
    t1 = t1
    t2 = t2
    js = js
    JSThread = js
    Users = {t1, t2, js}
    Unchecked = TRUE
    CallbackThrows = TRUE
    MaxCalls = 5
    MaxDepth = 3
INVARIANT TypeOK
INVARIANT ThrowsOnlyItsOwn
INVARIANT NoErrorSwallowed
