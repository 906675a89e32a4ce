----------------------------- MODULE MCPowerMgr -----------------------------
(* One registered module, and the shortest waits that still count.         *)
EXTENDS PowerMgr
=============================================================================
