------------------------------- MODULE MCPmm -------------------------------
(* The instance of Pmm that TLC checks; see its configuration. *)
EXTENDS Pmm
=============================================================================
