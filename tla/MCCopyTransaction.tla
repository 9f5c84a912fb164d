-------------------------- MODULE MCCopyTransaction --------------------------
(* CopyTransaction with small constants for TLC. *)
EXTENDS CopyTransaction

MCPolicies == {"ERROR", "OVERWRITE", "SKIP", "RENAME"}
MCOverwrite == {"OVERWRITE"}
=============================================================================
