SPECIFICATION EngineSpec
CONSTANTS
    Vcu = Vcu
    Bms = Bms
    Third = Third
    TboxEcu = TboxEcu
    EcuList <- MCEcuList
    Asked = {Bms}
    TBox = TboxEcu
    NoEcu = NoEcu
    MaxQueue = 2
    MaxSettings = 2
    MaxBus = 2
    MaxPend = 1
    Prompt = TRUE
INVARIANT AnswerFromItsEcu
