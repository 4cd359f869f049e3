------------------------------- MODULE Interface -------------------------------
(***************************************************************************)
(* What Application relies on in a compatibility interface, the contract   *)
(* of interface.go: Start reports once how the start went, a success       *)
(* before it serves and an error when it gives up before that; it stops by *)
(* itself only with an error; and after its context is cancelled it        *)
(* returns in the end.                                                     *)
(***************************************************************************)
VARIABLES
    cancelled,  \* the context is done
    ready,      \* what was sent to Ready
    phase       \* starting, serving, stopped without or failed with an error

vars == <<cancelled, ready, phase>>

Init ==
    /\ cancelled = FALSE
    /\ ready = "none"
    /\ phase = "starting"

Cancel ==
    /\ cancelled' = TRUE
    /\ UNCHANGED <<ready, phase>>

ComeUp ==
    /\ phase = "starting"
    /\ phase' = "serving"
    /\ ready' = "ok"
    /\ UNCHANGED cancelled

GiveUp ==
    /\ phase = "starting"
    /\ phase' = "failed"
    /\ ready' = "error"
    /\ UNCHANGED cancelled

Stop ==
    /\ phase = "serving"
    /\ phase' = "failed" \/ (cancelled /\ phase' = "stopped")
    /\ UNCHANGED <<cancelled, ready>>

Next == Cancel \/ ComeUp \/ GiveUp \/ Stop

Spec == Init /\ [][Next]_vars /\ (cancelled ~> (phase \in {"stopped", "failed"}))

================================================================================
