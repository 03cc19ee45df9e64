--------------------------- MODULE MCDaemonClient ---------------------------
(* The commands and bounds are in the configuration. *)
EXTENDS DaemonClient, TLC
=============================================================================
