------------------------ MODULE MCRemoteDiagEngine ------------------------
(* ECUs behind the MCU and the T-Box itself.                               *)
EXTENDS RemoteDiagEngine

CONSTANTS Vcu, Bms, Third, TboxEcu

MCEcuList == <<Vcu, Bms, Third, TboxEcu>>

MCVcuTbox == <<Vcu, TboxEcu>>
=============================================================================
