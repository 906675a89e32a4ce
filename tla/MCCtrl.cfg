SPECIFICATION RmtCtrlSpec
CONSTANTS
    Ctrl = {"SUNROOF", "CAMERA", "RMTSTART"}
    PP_RmtCtrlFunc <- MCSunroofCameraStart
    ClearOrder <- MCSunroofCameraStart
    Repeats = TRUE
    BleRaces = TRUE
    Stops = TRUE
INVARIANT NoControlAbandoned
INVARIANT UpgradeHoldsLock
