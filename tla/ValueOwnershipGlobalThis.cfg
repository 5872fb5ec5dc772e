SPECIFICATION Spec
CONSTANTS
    g = g
    f = f
    a = a
    ctx = ctx
    Objects = {g, f, a}
    Classes <- ClassesAt
    Global = g
    Ctx = ctx
    Keys = {"k"}
    Null = Null
    MaxHandles = 1
    MaxDepth = 2
    Passed = {a}
    Receivers = {g}
INVARIANT AssertionsHold
