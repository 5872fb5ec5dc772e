SPECIFICATION FairSpec
CONSTANTS
    Clients = {c1, c2}
    JSThread = js
    NoMsg = NoMsg
    Modes = {"eventQueue", "looper", "noLooper"}
    Calls = {"postVoid", "postEvent", "close"}
    Outcomes = {"value", "exception"}
    Interrupts = FALSE
    MaxCalls = 2
INVARIANT SingleNativeThread
INVARIANT RuntimeAliveInNative
PROPERTY ExecutesSerially
PROPERTY CloseReleases
PROPERTY BlockedCallReturns
