SPECIFICATION CommonJSSpec
CONSTANTS
    Scripts <- TheScripts
    EntryNames <- TheEntries
    MaxRuns = 6
    MaxDepth = 4
CHECK_DEADLOCK FALSE
INVARIANT RequireSharesModules
