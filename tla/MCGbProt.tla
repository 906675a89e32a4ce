------------------------------ MODULE MCGbProt ------------------------------
(* The instance of GbProt that TLC checks.                                 *)
EXTENDS GbProt
=============================================================================
