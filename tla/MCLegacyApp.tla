------------------------------ MODULE MCLegacyApp ------------------------------
(***************************************************************************)
(* LegacyApp for TLC: Pageant and two listeners.                           *)
(***************************************************************************)
EXTENDS LegacyApp

Started3 == <<"pageant", "pipe", "cygwin">>

================================================================================
