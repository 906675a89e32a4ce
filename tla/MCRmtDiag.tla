----------------------------- MODULE MCRmtDiag -----------------------------
(* The three clients of the diagnosis thread; a job is named by its client. *)
EXTENDS RmtDiag

MCClients == {"TSP", "ACTIVE", "CLEAN"}
=============================================================================
