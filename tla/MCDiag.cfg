SPECIFICATION RmtDiagSpec
CONSTANTS
    Ctrl = {}
    Job <- MCClients
    BadJob = "unknown"
    NoJob = "none"
    MaxMailbox = 1
    MaxTx = 1
    IgnSwitches = TRUE
    EngineInTime = FALSE
INVARIANT OneDiagnosisAtATime
