------------------------------ MODULE MCPhoneHook ------------------------------
(***************************************************************************)
(* Instances of PhoneHook for TLC: numbered rows.                          *)
(***************************************************************************)
EXTENDS PhoneHook
===============================================================================
