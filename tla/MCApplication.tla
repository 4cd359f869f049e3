----------------------------- MODULE MCApplication -----------------------------
(***************************************************************************)
(* Application for TLC: an interface that may hang, one that does not, and *)
(* a test component without a Ready channel.                               *)
(***************************************************************************)
EXTENDS Application

CONSTANTS pageant, cygwin, fake

================================================================================
