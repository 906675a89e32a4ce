----------------------------- MODULE MCRmtCtrl -----------------------------
(* Instances with three of the controls of PP_RmtCtrlFunc, in the order    *)
(* of the table and in the order of PP_rmtCtrl_clear.                      *)
EXTENDS RmtCtrl

MCSunroofCameraStart == <<"SUNROOF", "CAMERA", "RMTSTART">>

MCDoorTailgateSearch == <<"DOORLOCK", "AUTODOOR", "SEARCHVEHI">>

MCTailgateDoorSearch == <<"AUTODOOR", "DOORLOCK", "SEARCHVEHI">>
=============================================================================
