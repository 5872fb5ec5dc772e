SPECIFICATION Spec
CONSTANTS
    Clients = {c1, c2}
    JSThread = js
    NoMsg = NoMsg
    Modes = {"eventQueue", "looper", "noLooper"}
    Calls = {"post", "postVoid", "close", "createContext"}
    Outcomes = {"value", "exception", "error"}
    Interrupts = TRUE
    MaxCalls = 2
SYMMETRY ClientSymmetry
INVARIANT TypeOK
INVARIANT WaiterIsServed
INVARIANT BlockingCallComplete
CHECK_DEADLOCK FALSE
