----------------------------- MODULE MCDaemonLife ------------------------------
(***************************************************************************)
(* Instances of DaemonLife for TLC: one autostarted service, three pids.   *)
(***************************************************************************)
EXTENDS DaemonLife

CONSTANTS bot, p1, p2, p3
===============================================================================
