----------------------------- MODULE MCConnections -----------------------------
(***************************************************************************)
(* Connections for TLC.  Two connections let one be served while the other *)
(* is accepted, cancelled, or waits in its handshake.                      *)
(***************************************************************************)
EXTENDS Connections

CONSTANTS c1, c2

================================================================================
