---------------------------- MODULE MCAppLoader ----------------------------
(* The image directory and one of the others.                              *)
EXTENDS AppLoader

CONSTANTS Script, Cfg

MCSubs == <<{AppImage, Script}, {Cfg}>>
=============================================================================
