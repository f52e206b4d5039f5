------------------------------ MODULE MCDaemon ------------------------------
(* The daemon with bounds given by MCDaemon.cfg.                             *)
EXTENDS Daemon
=============================================================================
