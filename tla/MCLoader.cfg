\* Two packages and a fault, or one and two faults, so that a cut can fall into
\* the recovery from another.
CONSTANTS
    AppImage = AppImage
    Script = Script
    Cfg = Cfg
    Subs <- MCSubs
    Scripts = {Script}
    NoFile = NoFile
    MaxInstalls = 2
    MaxEvents = 3
SPECIFICATION AplSpec
INVARIANT GoodIsWhole
INVARIANT Recoverable
 
PROPERTY BootsAgain
