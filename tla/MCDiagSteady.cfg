SPECIFICATION RmtDiagSpec
CONSTANTS
    Ctrl = {}
    Job <- MCClients
    BadJob = "unknown"
    NoJob = "none"
    MaxMailbox = 2
    MaxTx = 1
    IgnSwitches = FALSE
    EngineInTime = TRUE
INVARIANT LockFreedWithItsUser  
