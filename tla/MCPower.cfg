SPECIFICATION PowerSpec
CONSTANTS
    Modules = {gb}
    gb = gb
    SleepTicks = 2
    RestartTicks = 0
    FotaTicks = 0
    FotaErrors = 0
    MaxQueue = 1
    MaxReadErrors = 1
    MaxUpdates = 1
    Modes = {"running", "emergency", "off"}
    Requests = {"AT_RING", "RESTART_4G", "FOTA"}
 
PROPERTY SleepsWithMcu
PROPERTY AwakeMcuWakesModule
PROPERTY QuietModuleSleeps
PROPERTY RingWakesMcu
