------------------------------- MODULE Lifecycle -------------------------------
(***************************************************************************)
(* What the program promises about its life as a whole, in the terms of    *)
(* its state diagram: a start settles in one of three states, a shutdown   *)
(* ends either with everything stopped or as a forced stop, and a process  *)
(* that cannot run ends at once.  For every interface it says whether it   *)
(* has not come up, serves clients, or is gone.                            *)
(***************************************************************************)
CONSTANT Components

VARIABLES phase, service

vars == <<phase, service>>

Init ==
    /\ phase = "starting"
    /\ service = [c \in Components |-> "down"]

(* An interface comes up.  Running claims that all of them have, a         *)
(* configuration error that none may, and after a complete stop none can.  *)
ComeUp(c) ==
    /\ phase \in {"starting", "degraded", "shutting_down", "forced_stop", "aborted"}
    /\ service[c] = "down"
    /\ service' = [service EXCEPT ![c] = "serving"]
    /\ UNCHANGED phase

(* An interface fails or stops, which no other interface notices. *)
GoDown(c) ==
    /\ phase # "configuration_error"
    /\ service[c] # "gone"
    /\ service' = [service EXCEPT ![c] = "gone"]
    /\ UNCHANGED phase

Settle ==
    /\ phase = "starting"
    /\ \/ phase' = "running" /\ \A c \in Components : service[c] # "down"
       \/ phase' = "degraded"
       \/ phase' = "configuration_error" /\ \A c \in Components : service[c] = "down"
    /\ UNCHANGED service

BeginShutdown ==
    /\ phase \in {"running", "degraded", "configuration_error"}
    /\ phase' = "shutting_down"
    /\ UNCHANGED service

EndShutdown ==
    /\ phase = "shutting_down"
    /\ \/ phase' = "stopped" /\ \A c \in Components : service[c] # "serving"
       \/ phase' = "forced_stop"
    /\ UNCHANGED service

(* The process cannot run: it is the second one, or Windows or the tray    *)
(* refuses.                                                                *)
Abort ==
    /\ phase \in {"starting", "running", "degraded", "configuration_error"}
    /\ phase' = "aborted"
    /\ UNCHANGED service

Next ==
    \/ \E c \in Components : ComeUp(c) \/ GoDown(c)
    \/ Settle \/ BeginShutdown \/ EndShutdown \/ Abort

Spec == Init /\ [][Next]_vars

================================================================================
