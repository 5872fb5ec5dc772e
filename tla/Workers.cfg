SPECIFICATION FairSpec
CONSTANTS
    app = app
    w1 = w1
    w2 = w2
    Main = app
    Workers = {w1, w2}
    Timeouts = {1}
    Tag <- SameTag
    Scenes <- TheScenes
    Delays = {"missing", "negative", "some"}
CHECK_DEADLOCK FALSE
INVARIANT TypeOK
INVARIANT LooperEnds
INVARIANT HeardInOrder
PROPERTY TimeoutFires
PROPERTY WorkersAreClosed
PROPERTY ScriptThreadReturns
PROPERTY CloseCanBeRepeated
