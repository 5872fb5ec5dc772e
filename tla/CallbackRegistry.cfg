SPECIFICATION Spec
CONSTANTS
    t1 = t1
    js = js
    x1 = x1
    x2 = x2
    f = f
    g = g
    v = v
    h1 = h1
    h2 = h2
    None = None
    JSThread = js
    Callbacks = {f, g, v}
    Void = {v}
    HashCodes = {h1, h2}
    Users = {t1, js}
    Contexts = {x1, x2}
    Kinds = {"method", "function", "class"}
    Shares = TRUE
INVARIANT TypeOK
INVARIANT RunsItsOwn
INVARIANT NoCallLost
SYMMETRY Symmetry
