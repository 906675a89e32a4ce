CONSTANTS
    MaxSeq = 2
    MaxRetry = 1
    MaxFaults = 2
    MaxQueue = 1
SPECIFICATION GbProtSpec
INVARIANT LogoutMatchesLogin
PROPERTY SilentBusSleeps
PROPERTY AwakeBusReports
