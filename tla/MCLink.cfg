CONSTANT SleepTries = 1
SPECIFICATION TspLinkSpec
INVARIANT ClosesWhatItOpened
PROPERTY CloseIsServed
PROPERTY LinkReopens
PROPERTY LinkLetsSleep
