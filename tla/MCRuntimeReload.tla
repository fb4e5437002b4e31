-------------------------- MODULE MCRuntimeReload --------------------------
(* Instances of RuntimeReload for TLC.                                     *)
EXTENDS RuntimeReload

CONSTANTS e1, e2, a1, a2, gateway
=============================================================================
