--------------------------- MODULE ApplicationProofs ---------------------------
(***************************************************************************)
(* Proofs about Application for every finite set of components.            *)
(*                                                                         *)
(* DoneMeansStopped and the two claims about the aggregated state are not  *)
(* inductive: they speak of what Run, Shutdown and a.done conclude, and    *)
(* what those conclude rests on what each supervisor knew when it sent its *)
(* result.  AppInv adds, goroutine by goroutine, that knowledge.           *)
(***************************************************************************)
EXTENDS Application, TLAPS

(* Before Run nothing has happened to any component. *)
IdleInv ==
    runPc = "idle" =>
        \A c \in Components : /\ startPc[c] = "idle"
                              /\ supPc[c] = "idle"
                              /\ outcome[c] = "none"

(* Nothing is in a Ready channel before Start has got somewhere. *)
ReadyInv ==
    \A c \in Components : startPc[c] \in {"idle", "starting"} => ready[c] = "none"

(* A value in `stopped' comes from a Start that is over. *)
StoppedInv == \A c \in stopped : startPc[c] = "stopped"

(* A supervisor ends only after it has received that value. *)
SupervisorInv == \A c \in Components : supPc[c] = "done" => c \in stopped

(* A result is sent once, and never for a component that is still selecting. *)
SentInv ==
    \A c \in Components : outcome[c] # "none" => supPc[c] \in {"await", "done"}

(* What a supervisor knew when it sent its result. *)
OutcomeInv ==
    \A c \in Components :
        /\ outcome[c] = "ready" => c \in Plain \/ ready[c] = "ok"
        /\ outcome[c] = "failed" =>
              Cancelled \/ ready[c] = "err" \/ c \in stopped

(* What Run has collected, and the state it set from it. *)
CollectInv ==
    /\ \A c \in statuses : outcome[c] # "none"
    /\ runPc = "returned" => statuses = Components /\ state = Aggregate(outcome)
    /\ runPc # "returned" => state = "degraded"

(* What a.done and Shutdown conclude. *)
DoneInv ==
    /\ done => runPc = "returned" /\ \A c \in Components : supPc[c] = "done"
    /\ shutPc = "ok" => done

AppInv ==
    /\ AppTypeOK
    /\ IdleInv
    /\ ReadyInv
    /\ StoppedInv
    /\ SupervisorInv
    /\ SentInv
    /\ OutcomeInv
    /\ CollectInv
    /\ DoneInv

(* The three conclusions follow from the invariant. *)
LEMMA AppInvImplies ==
    ASSUME AppInv
    PROVE  RunningOnlyIfReady /\ DegradedHasCause /\ DoneMeansStopped
<1>1. RunningOnlyIfReady
  BY DEF AppInv, CollectInv, OutcomeInv, Aggregate, RunningOnlyIfReady, AppTypeOK
<1>2. DegradedHasCause
  <2> SUFFICES ASSUME runPc = "returned", state = "degraded"
               PROVE  Cancelled \/ \E c \in Components : ready[c] = "err" \/ c \in stopped
    BY DEF DegradedHasCause
  <2>1. PICK c \in Components : outcome[c] # "ready"
    BY DEF AppInv, CollectInv, Aggregate
  <2>2. outcome[c] = "failed"
    BY <2>1 DEF AppInv, CollectInv, AppTypeOK
  <2> QED
    BY <2>2 DEF AppInv, OutcomeInv
<1>3. DoneMeansStopped
  BY DEF AppInv, DoneInv, SupervisorInv, StoppedInv, DoneMeansStopped
<1> QED
  BY <1>1, <1>2, <1>3

(* Every step of Run, of a component, of a supervisor and of Shutdown keeps *)
(* the invariant.                                                           *)
LEMMA AppInvStep == AppInv /\ [AppNext]_appVars => AppInv'
<1> SUFFICES ASSUME AppInv, [AppNext]_appVars PROVE AppInv'
  OBVIOUS
<1> USE DEF AppInv, AppTypeOK, States, IdleInv, ReadyInv, StoppedInv, SupervisorInv,
            SentInv, OutcomeInv, CollectInv, DoneInv, Cancelled, Aggregate
<1>1. ASSUME Cancel PROVE AppInv'
  BY <1>1 DEF Cancel
<1>2. ASSUME RunSpawn PROVE AppInv'
  BY <1>2 DEF RunSpawn
<1>3. ASSUME NEW c \in Components, RunCollect(c) PROVE AppInv'
  BY <1>3 DEF RunCollect, Results
<1>4. ASSUME RunPublish PROVE AppInv'
  BY <1>4 DEF RunPublish
<1>5. ASSUME CloseDone PROVE AppInv'
  BY <1>5 DEF CloseDone
<1>6. ASSUME NEW c \in Components, ReportReady(c) PROVE AppInv'
  BY <1>6 DEF ReportReady
<1>7. ASSUME NEW c \in Components, StartFails(c) PROVE AppInv'
  BY <1>7 DEF StartFails
<1>8. ASSUME NEW c \in Components, ServeStops(c) PROVE AppInv'
  BY <1>8 DEF ServeStops
<1>9. ASSUME NEW c \in Components, StartPanics(c) PROVE AppInv'
  BY <1>9 DEF StartPanics
<1>10. ASSUME NEW c \in Components, StartReturns(c) PROVE AppInv'
  BY <1>10 DEF StartReturns
<1>11. ASSUME NEW c \in Components, SupReady(c) PROVE AppInv'
  BY <1>11 DEF SupReady, SendResult
<1>12. ASSUME NEW c \in Components, SupStopped(c) PROVE AppInv'
  BY <1>12 DEF SupStopped, SendResult
<1>13. ASSUME NEW c \in Components, SupCancelled(c) PROVE AppInv'
  BY <1>13 DEF SupCancelled, SendResult
<1>14. ASSUME NEW c \in Components, SupPlain(c) PROVE AppInv'
  BY <1>14 DEF SupPlain, SendResult
<1>15. ASSUME NEW c \in Components, SupAwait(c) PROVE AppInv'
  BY <1>15 DEF SupAwait
<1>16. ASSUME ShutdownCall PROVE AppInv'
  BY <1>16 DEF ShutdownCall
<1>17. ASSUME ShutdownOk PROVE AppInv'
  BY <1>17 DEF ShutdownOk
<1>18. ASSUME ShutdownTimeout PROVE AppInv'
  BY <1>18 DEF ShutdownTimeout
<1>19. CASE UNCHANGED appVars
  BY <1>19 DEF appVars
<1> QED
  BY <1>1, <1>2, <1>3, <1>4, <1>5, <1>6, <1>7, <1>8, <1>9, <1>10, <1>11, <1>12, <1>13, <1>14, <1>15, <1>16, <1>17, <1>18, <1>19
     DEF AppNext, RunLoop, StartStep, SupStep

(* The goroutines' joint invariant holds in every reachable state. *)
THEOREM AppInvariant == AppSpec => []AppInv
<1>1. AppInit => AppInv
  BY DEF AppInit, AppInv, AppTypeOK, States, IdleInv, ReadyInv, StoppedInv, SupervisorInv,
         SentInv, OutcomeInv, CollectInv, DoneInv
<1>2. AppInv /\ [AppNext]_appVars => AppInv'
  BY AppInvStep
<1> QED
  BY <1>1, <1>2, PTL DEF AppSpec

(* Type correctness of Application. *)
THEOREM AppTypeCorrect == AppSpec => []AppTypeOK
<1>1. AppInv => AppTypeOK
  BY DEF AppInv
<1> QED
  BY <1>1, AppInvariant, PTL

(* When a.done is closed or Shutdown has returned nil, every component's    *)
(* Start has returned (Application.Run's WaitGroup and Shutdown).           *)
THEOREM ShutdownIsComplete == AppSpec => []DoneMeansStopped
<1>1. AppInv => DoneMeansStopped
  BY AppInvImplies
<1> QED
  BY <1>1, AppInvariant, PTL

(* The aggregated state is running only if every component with a Ready     *)
(* channel reported success on it (Aggregate).                              *)
THEOREM RunningIsEarned == AppSpec => []RunningOnlyIfReady
<1>1. AppInv => RunningOnlyIfReady
  BY AppInvImplies
<1> QED
  BY <1>1, AppInvariant, PTL

(* The aggregated state is degraded after Run only if a component failed or *)
(* the start was cancelled (Aggregate).                                     *)
THEOREM DegradedIsCaused == AppSpec => []DegradedHasCause
<1>1. AppInv => DegradedHasCause
  BY AppInvImplies
<1> QED
  BY <1>1, AppInvariant, PTL

================================================================================
