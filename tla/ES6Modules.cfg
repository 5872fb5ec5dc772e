SPECIFICATION Spec
CONSTANTS
    Worlds <- TheWorlds
    Entries <- TheEntries
    MaxDefs = 6
CHECK_DEADLOCK FALSE
INVARIANT NoUseOfFreed
INVARIANT OneRecordPerFile
PROPERTY ImportsEvaluatedFirst
