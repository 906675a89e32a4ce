SPECIFICATION RmtCtrlSpec
CONSTANTS
    Ctrl = {"DOORLOCK", "AUTODOOR", "SEARCHVEHI"}
    PP_RmtCtrlFunc <- MCDoorTailgateSearch
    ClearOrder <- MCTailgateDoorSearch
    Repeats = FALSE
    BleRaces = FALSE
    Stops = FALSE
INVARIANT ControlExcludesFota NoControlLeak
PROPERTY ControlEnds UpgradeIsAnswered BluetoothIsAnswered
