------------------------------- MODULE MCPwRelay -------------------------------
(***************************************************************************)
(* Instance of PwRelay for TLC: an upload through a browser whose socket   *)
(* is replaced.                                                            *)
(***************************************************************************)
EXTENDS PwRelay

CONSTANTS file, k1, k2
===============================================================================
