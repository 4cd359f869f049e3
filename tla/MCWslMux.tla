-------------------------------- MODULE MCWslMux -------------------------------
(***************************************************************************)
(* WslMux for TLC: two clients, one of which has more requests open than   *)
(* its channel has places, so that readLoop may be blocked.               *)
(***************************************************************************)
EXTENDS WslMux

Requests == [c \in Conns |-> IF c = "c2" THEN 2 ELSE 1]

================================================================================
