----------------------------- MODULE MCMainProcess -----------------------------
(***************************************************************************)
(* MainProcess for TLC with one interface, Pageant, which may hang.        *)
(***************************************************************************)
EXTENDS MainProcess

CONSTANT pageant

================================================================================
