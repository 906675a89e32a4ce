------------------------------ MODULE MCTspLink ------------------------------
(* The instance of TspLink that TLC checks.                                *)
EXTENDS TspLink
=============================================================================
