--------------------------- MODULE MainProcessProofs ---------------------------
(***************************************************************************)
(* Proofs about MainProcess for every set of components: a clean exit is   *)
(* clean, the tray was told the application's state, and the process       *)
(* implements the state diagram of Lifecycle.                              *)
(*                                                                         *)
(* main, the application and the tray share variables, so each part's      *)
(* invariant must survive the steps of the others.  That of the            *)
(* application is taken from ApplicationProofs: every step of the process  *)
(* is a step of the application or leaves it alone.                        *)
(*                                                                         *)
(* At the end are the theorems about main's logs (DailyWriter).            *)
(***************************************************************************)
EXTENDS MainProcess, DailyWriter, TLAPS

P == INSTANCE ApplicationProofs WITH Plain <- {}

(* Where main and application.Run are: main is inside Run, has not called   *)
(* it, or Run has returned.                                                 *)
RunInv ==
    /\ mainPc \in {"acquire", "event", "prepare", "config"} => runPc = "idle" /\ ~configError
    /\ runPc = "collect" <=> mainPc = "run"
    /\ mainPc \in {"stopApplication", "shutdown"} => runPc = "returned"
    /\ mainPc = "trayWait" => runPc = "idle" \/ shutPc \in {"ok", "timeout"}

(* The exit code is set by what main returns with, and nil only behind both *)
(* selects.                                                                 *)
ExitInv ==
    /\ mainPc \notin Defers \cup {"exited"} => exit = NoExit
    /\ exit = ExitOK => /\ runPc = "idle" \/ shutPc \in {"ok", "timeout"}
                        /\ trayTimeout \/ trayDone = "taken"

(* The tray's icon belongs to its loop, and trayDone to its end. *)
TrayInv ==
    /\ shown # "none" => trayPc = "loop" /\ added
    /\ "taskbar" \notin queue
    /\ "quit" \in queue => trayPc = "loop" /\ ~window /\ shown = "none"
    /\ trayDone # "empty" => trayPc = "returned"

ToldInv ==
    mainPc \in {"setState", "select"} /\ runPc = "returned" /\ ~shuttingDown =>
        tstate = state

Inv ==
    /\ P!AppInv
    /\ RunInv
    /\ ExitInv
    /\ TrayInv
    /\ ToldInv

--------------------------------------------------------------------------------
(* A step of the process is a step of the application or leaves it alone. *)
LEMMA AppStep ==
    ASSUME P!AppInv, [Next]_vars
    PROVE  [P!AppNext]_(P!appVars)
<1> USE DEF appVars, appOnly, P!appVars
<1>1. ASSUME ctxDone' = TRUE, UNCHANGED appOnly PROVE [P!AppNext]_(P!appVars)
  BY <1>1 DEF P!AppInv, P!AppTypeOK, P!AppNext, P!Cancel
<1>2. CASE Main
  <2>1. CASE StartApplication
    BY <2>1 DEF StartApplication, App!RunSpawn, P!AppNext, P!RunSpawn
  <2>2. CASE CollectResult
    <3>1. PICK c \in Components : App!RunCollect(c)
      BY <2>2 DEF CollectResult
    <3>2. P!RunCollect(c)
      BY <3>1 DEF App!RunCollect, P!RunCollect, App!Results, P!Results
    <3> QED
      BY <3>2 DEF P!AppNext, P!RunLoop
  <2>3. CASE PublishState
    <3>1. P!RunPublish
      BY <2>3 DEF PublishState, App!RunPublish, P!RunPublish, App!Aggregate, P!Aggregate
    <3> QED
      BY <3>1 DEF P!AppNext, P!RunLoop
  <2>4. CASE CallShutdown
    BY <2>4 DEF CallShutdown, App!ShutdownCall, P!AppNext, P!ShutdownCall
  <2>5. CASE ShutdownReturns
    BY <2>5 DEF ShutdownReturns, App!ShutdownOk, App!ShutdownTimeout, P!AppNext,
                P!ShutdownOk, P!ShutdownTimeout
  <2>6. CASE CancelAll \/ DeferCancel
    BY <2>6, <1>1 DEF CancelAll, DeferCancel
  <2> QED
    BY <1>2, <2>1, <2>2, <2>3, <2>4, <2>5, <2>6
       DEF Main, Acquire, CreateEvent, Prepare, PrepareFails, ConfigurationFails, BackendFails,
           FinishSetState, TrayFailed, LeaveSelect, TrayEnded, TrayTimesOut, DeferCloseEvent,
           DeferCloseMutex, OsExit
<1>3. CASE TrayStep
  <2>1. UNCHANGED appOnly /\ (ctxDone' = TRUE \/ UNCHANGED ctxDone)
    BY <1>3 DEF TrayStep, T!TrayThread, T!Quit, T!QuitReturns, T!OnQuit, T!CreateWindow,
                T!FinishInitialize, T!AddFirstIcon, T!InitializeFails, T!DismissFatal,
                T!DispatchApply, T!DispatchClose, T!DispatchTaskbar, T!LoopEnds, T!LoopFails
  <2> QED
    BY <2>1, <1>1
<1>4. CASE CloseDone
  BY <1>4 DEF CloseDone, App!CloseDone, P!AppNext, P!CloseDone
<1>5. CASE EventArrives
  BY <1>5, <1>1 DEF EventArrives
<1>6. CASE RequestShutdown
  BY <1>6 DEF RequestShutdown
<1>7. CASE User
  BY <1>7 DEF User, T!CommandQuit, T!CloseFromOutside
<1>8. ASSUME NEW c \in Components, ComponentStep(c) PROVE [P!AppNext]_(P!appVars)
  <2>1. P!StartStep(c)
    BY <1>8 DEF ComponentStep, App!StartStep, App!ReportReady, App!StartFails, App!ServeStops,
                App!StartPanics, App!StartReturns, App!Cancelled, P!StartStep, P!ReportReady,
                P!StartFails, P!ServeStops, P!StartPanics, P!StartReturns, P!Cancelled
  <2> QED
    BY <2>1 DEF P!AppNext
<1>9. ASSUME NEW c \in Components, SupervisorStep(c) PROVE [P!AppNext]_(P!appVars)
  <2>1. P!SupStep(c)
    BY <1>9 DEF SupervisorStep, App!SupStep, App!SupReady, App!SupStopped, App!SupCancelled,
                App!SupPlain, App!SupAwait, App!SendResult, App!Cancelled, P!SupStep, P!SupReady,
                P!SupStopped, P!SupCancelled, P!SupPlain, P!SupAwait, P!SendResult, P!Cancelled
  <2> QED
    BY <2>1 DEF P!AppNext
<1>10. CASE UNCHANGED vars
  BY <1>10 DEF vars
<1> QED
  BY <1>2, <1>3, <1>4, <1>5, <1>6, <1>7, <1>8, <1>9, <1>10 DEF Next

(* Every step of the process keeps what relates its parts. *)
LEMMA PartsStep ==
    ASSUME Inv, [Next]_vars
    PROVE  RunInv' /\ ExitInv' /\ TrayInv' /\ ToldInv'
<1> DEFINE Goal == RunInv' /\ ExitInv' /\ TrayInv' /\ ToldInv'
<1> USE DEF Inv, RunInv, ExitInv, TrayInv, ToldInv, Defers, Goto, Return, appVars, appOnly,
            trayOnly, mainVars, ExitOK, ExitAlreadyRunning, ExitInternal, ExitWindows, NoExit
<1>1. CASE Main
  <2>1. CASE Acquire
    BY <2>1 DEF Acquire
  <2>2. CASE CreateEvent
    BY <2>2 DEF CreateEvent
  <2>3. CASE Prepare
    BY <2>3 DEF Prepare, T!RunTray
  <2>4. CASE PrepareFails
    BY <2>4 DEF PrepareFails
  <2>5. CASE StartApplication
    BY <2>5 DEF StartApplication, App!RunSpawn
  <2>6. CASE ConfigurationFails
    BY <2>6 DEF ConfigurationFails, T!SetState
  <2>7. CASE BackendFails
    BY <2>7 DEF BackendFails, T!SetState
  <2>8. CASE CollectResult
    BY <2>8 DEF CollectResult, App!RunCollect
  <2>9. CASE PublishState
    BY <2>9 DEF PublishState, App!RunPublish, T!SetState
  <2>10. CASE FinishSetState
    BY <2>10 DEF FinishSetState, T!SetStateReturns, T!Post
  <2>11. CASE TrayFailed
    BY <2>11 DEF TrayFailed
  <2>12. CASE LeaveSelect
    BY <2>12 DEF LeaveSelect
  <2>13. CASE CancelAll
    BY <2>13 DEF CancelAll, P!AppInv, P!AppTypeOK
  <2>14. CASE CallShutdown
    BY <2>14 DEF CallShutdown, App!ShutdownCall
  <2>15. CASE ShutdownReturns
    BY <2>15 DEF ShutdownReturns, App!ShutdownOk, App!ShutdownTimeout
  <2>16. CASE TrayEnded
    BY <2>16 DEF TrayEnded
  <2>17. CASE TrayTimesOut
    BY <2>17 DEF TrayTimesOut
  <2>18. CASE DeferCancel
    BY <2>18 DEF DeferCancel
  <2>19. CASE DeferCloseEvent
    BY <2>19 DEF DeferCloseEvent
  <2>20. CASE DeferCloseMutex
    BY <2>20 DEF DeferCloseMutex
  <2>21. CASE OsExit
    BY <2>21 DEF OsExit
  <2> QED
    BY <1>1, <2>1, <2>2, <2>3, <2>4, <2>5, <2>6, <2>7, <2>8, <2>9, <2>10, <2>11, <2>12, <2>13, <2>14, <2>15, <2>16, <2>17, <2>18, <2>19, <2>20, <2>21 DEF Main
<1>2. CASE TrayStep
  <2>1. CASE T!CreateWindow
    BY <1>2, <2>1 DEF TrayStep, SendTrayDone, T!CreateWindow
  <2>2. CASE T!FinishInitialize
    BY <1>2, <2>2 DEF TrayStep, SendTrayDone, T!FinishInitialize
  <2>3. CASE T!AddFirstIcon
    BY <1>2, <2>3 DEF TrayStep, SendTrayDone, T!AddFirstIcon
  <2>4. CASE T!InitializeFails
    BY <1>2, <2>4 DEF TrayStep, SendTrayDone, T!InitializeFails
  <2>5. CASE T!DismissFatal
    BY <1>2, <2>5 DEF TrayStep, SendTrayDone, T!DismissFatal
  <2>6. CASE T!DispatchApply
    BY <1>2, <2>6 DEF TrayStep, SendTrayDone, T!DispatchApply
  <2>7. CASE T!DispatchClose
    BY <1>2, <2>7 DEF TrayStep, SendTrayDone, T!DispatchClose
  <2>8. CASE T!DispatchTaskbar
    BY <1>2, <2>8 DEF TrayStep, SendTrayDone, T!DispatchTaskbar
  <2>9. CASE T!LoopEnds
    BY <1>2, <2>9 DEF TrayStep, SendTrayDone, T!LoopEnds
  <2>10. CASE T!LoopFails
    BY <1>2, <2>10 DEF TrayStep, SendTrayDone, T!LoopFails
  <2>11. CASE T!Quit
    BY <1>2, <2>11 DEF TrayStep, SendTrayDone, T!Quit
  <2>12. CASE T!QuitReturns
    BY <1>2, <2>12 DEF TrayStep, SendTrayDone, T!QuitReturns, T!Post
  <2>13. CASE T!OnQuit
    BY <1>2, <2>13 DEF TrayStep, SendTrayDone, T!OnQuit
  <2> QED
    BY <1>2, <2>1, <2>2, <2>3, <2>4, <2>5, <2>6, <2>7, <2>8, <2>9, <2>10, <2>11, <2>12, <2>13 DEF TrayStep, T!TrayThread
<1>3. CASE CloseDone
  BY <1>3 DEF CloseDone, App!CloseDone
<1>4. CASE EventArrives
  BY <1>4 DEF EventArrives
<1>5. CASE RequestShutdown
  BY <1>5 DEF RequestShutdown
<1>6. CASE User
  BY <1>6 DEF User, T!CommandQuit, T!CloseFromOutside, T!Post
<1>7. ASSUME NEW c \in Components, ComponentStep(c) PROVE Goal
  BY <1>7 DEF ComponentStep, App!StartStep, App!ReportReady, App!StartFails, App!ServeStops,
              App!StartPanics, App!StartReturns
<1>8. ASSUME NEW c \in Components, SupervisorStep(c) PROVE Goal
  BY <1>8 DEF SupervisorStep, App!SupStep, App!SupReady, App!SupStopped, App!SupCancelled,
              App!SupPlain, App!SupAwait, App!SendResult
<1>9. CASE UNCHANGED vars
  BY <1>9 DEF vars
<1> QED
  BY <1>1, <1>2, <1>3, <1>4, <1>5, <1>6, <1>7, <1>8, <1>9 DEF Next

(* The invariant of the process holds in every reachable state. *)
THEOREM ProcessInvariant == Spec => []Inv
<1>1. Init => Inv
  <2>1. ASSUME Init PROVE P!AppInv
    BY <2>1 DEF Init, App!AppInit, P!AppInv, P!AppTypeOK, P!States, P!IdleInv, P!ReadyInv,
                P!StoppedInv, P!SupervisorInv, P!SentInv, P!OutcomeInv, P!CollectInv, P!DoneInv
  <2>2. ASSUME Init PROVE RunInv /\ ExitInv /\ TrayInv /\ ToldInv
    BY <2>2 DEF Init, App!AppInit, T!TrayInit, RunInv, ExitInv, TrayInv, ToldInv, Defers,
                ExitOK, NoExit
  <2> QED
    BY <2>1, <2>2 DEF Inv
<1>2. Inv /\ [Next]_vars => Inv'
  <2> SUFFICES ASSUME Inv, [Next]_vars PROVE Inv'
    OBVIOUS
  <2>1. [P!AppNext]_(P!appVars)
    BY AppStep DEF Inv
  <2>2. P!AppInv'
    <3>1. P!IsFiniteSet(Components) /\ Hangable \subseteq Components
      BY MainAssumption DEF IsFiniteSet, P!IsFiniteSet
    <3> QED
      BY <2>1, <3>1, P!AppInvStep DEF Inv
  <2>3. RunInv' /\ ExitInv' /\ TrayInv' /\ ToldInv'
    BY PartsStep
  <2> QED
    BY <2>2, <2>3 DEF Inv
<1> QED
  BY <1>1, <1>2, PTL DEF Spec

--------------------------------------------------------------------------------
(* What Shutdown's success says about the components. *)
LEMMA ShutdownStopped ==
    ASSUME Inv, runPc = "idle" \/ shutPc = "ok"
    PROVE  \A c \in Components : startPc[c] \in {"idle", "stopped"}
  BY DEF Inv, P!AppInv, P!AppTypeOK, P!IdleInv, P!DoneInv, P!SupervisorInv, P!StoppedInv

(* A successor of a clean exit meets no component, no tray and no icon of   *)
(* this process (Shutdown, the two selects and the deferred calls of run).  *)
THEOREM ExitIsClean == Spec => []CleanExit
<1>1. Inv => CleanExit
  <2> SUFFICES ASSUME Inv, exit = ExitOK, shutPc # "timeout", ~trayTimeout
               PROVE  /\ \A c \in Components : startPc[c] \in {"idle", "stopped"}
                      /\ trayPc = "returned"
                      /\ shown = "none"
    BY DEF CleanExit
  <2>1. \A c \in Components : startPc[c] \in {"idle", "stopped"}
    BY ShutdownStopped DEF Inv, ExitInv
  <2>2. trayPc = "returned"
    BY DEF Inv, ExitInv, TrayInv
  <2>3. shown = "none"
    BY <2>2 DEF Inv, TrayInv
  <2> QED
    BY <2>1, <2>2, <2>3
<1> QED
  BY <1>1, ProcessInvariant, PTL

(* While the program waits, the tray has been told the state that           *)
(* application.Run computed (setState and its sink).                        *)
THEOREM TrayIsTold == Spec => []TrayWasTold
<1>1. Inv => TrayWasTold
  BY DEF Inv, ToldInv, TrayWasTold
<1> QED
  BY <1>1, ProcessInvariant, PTL

--------------------------------------------------------------------------------
(* What a phase of the diagram says about the components. *)
PhaseInv ==
    /\ Phase = "running" => \A c \in Components : startPc[c] \notin {"idle", "starting"}
    /\ Phase = "stopped" => \A c \in Components : startPc[c] \in {"idle", "stopped"}
    /\ Phase = "configuration_error" => \A c \in Components : startPc[c] = "idle"
    /\ Phase \in {"starting", "running", "degraded", "configuration_error",
                  "shutting_down", "forced_stop", "stopped", "aborted"}

(* The invariant of the process relates phases and components. *)
LEMMA PhaseFacts == Inv => PhaseInv
<1> SUFFICES ASSUME Inv PROVE PhaseInv
  OBVIOUS
<1> USE DEF Inv, P!AppInv, P!AppTypeOK
<1>1. ASSUME Phase = "running", NEW c \in Components PROVE startPc[c] \notin {"idle", "starting"}
  <2>1. state = "running" /\ runPc = "returned"
    BY <1>1 DEF Phase
  <2>2. ready[c] = "ok"
    BY <2>1 DEF P!CollectInv, P!Aggregate, P!OutcomeInv
  <2> QED
    BY <2>2 DEF P!ReadyInv
<1>2. ASSUME Phase = "stopped" PROVE \A c \in Components : startPc[c] \in {"idle", "stopped"}
  <2>1. exit = ExitOK /\ shutPc # "timeout" /\ ~trayTimeout
    BY <1>2 DEF Phase, P!States
  <2> QED
    BY <2>1, ShutdownStopped DEF ExitInv
<1>3. ASSUME Phase = "configuration_error", NEW c \in Components PROVE startPc[c] = "idle"
  <2>1. runPc = "idle"
    BY <1>3 DEF Phase, RunInv, P!CollectInv, P!Aggregate
  <2> QED
    BY <2>1 DEF P!IdleInv
<1>4. Phase \in {"starting", "running", "degraded", "configuration_error",
               "shutting_down", "forced_stop", "stopped", "aborted"}
  BY DEF Phase, P!States
<1> QED
  BY <1>1, <1>2, <1>3, <1>4 DEF PhaseInv

(* A step of a component is one of its interface in the diagram. *)
LEMMA ComponentRefines ==
    ASSUME Inv, NEW c \in Components, ComponentStep(c)
    PROVE  [L!Next]_(L!vars)
<1> USE DEF Inv, P!AppInv, P!AppTypeOK
<1>1. Phase' = Phase
  BY DEF Phase, ComponentStep, mainVars, App!StartStep, App!ReportReady, App!StartFails,
         App!ServeStops, App!StartPanics, App!StartReturns
<1>2. Service \in [Components -> {"down", "serving", "gone"}]
  BY DEF Service
<1>3. CASE App!ReportReady(c)
  <2>1. Service[c] = "down" /\ Service' = [Service EXCEPT ![c] = "serving"]
    BY <1>3 DEF App!ReportReady, Service
  <2>2. Phase \in {"starting", "degraded", "shutting_down", "forced_stop", "aborted"}
    BY <1>3, PhaseFacts DEF App!ReportReady, PhaseInv
  <2> QED
    BY <1>1, <2>1, <2>2 DEF L!Next, L!ComeUp
<1>4. CASE App!StartReturns(c)
  <2>1. Service' = Service
    BY <1>4 DEF App!StartReturns, Service
  <2> QED
    BY <1>1, <2>1 DEF L!vars
<1>5. CASE App!StartFails(c) \/ App!ServeStops(c) \/ App!StartPanics(c)
  <2>1. Service[c] # "gone" /\ Service' = [Service EXCEPT ![c] = "gone"]
    BY <1>5 DEF App!StartFails, App!ServeStops, App!StartPanics, Service
  <2>2. Phase # "configuration_error"
    BY <1>5, PhaseFacts DEF PhaseInv, App!StartFails, App!ServeStops, App!StartPanics
  <2> QED
    BY <1>1, <2>1, <2>2 DEF L!Next, L!GoDown
<1> QED
  BY <1>3, <1>4, <1>5 DEF ComponentStep, App!StartStep

(* A step of main is a transition of the diagram, or none. *)
LEMMA MainRefines ==
    ASSUME Inv, PhaseInv', Main
    PROVE  [L!Next]_(L!vars)
<1> USE DEF Inv, P!AppInv, P!AppTypeOK, RunInv, ExitInv, Defers, Goto, Return, appVars, appOnly,
            mainVars, ExitOK, ExitAlreadyRunning, ExitInternal, ExitWindows, NoExit
<1>1. ASSUME UNCHANGED startPc PROVE Service' = Service
  BY <1>1 DEF Service
<1>2. CASE Acquire \/ CreateEvent \/ PrepareFails
  <2>1. Service' = Service
    BY <1>1, <1>2 DEF Acquire, CreateEvent, PrepareFails
  <2>2. Phase = "starting" /\ Phase' \in {"starting", "aborted"}
    BY <1>2 DEF Acquire, CreateEvent, PrepareFails, Phase
  <2> QED
    BY <2>1, <2>2 DEF L!Next, L!Abort, L!vars
<1>3. CASE Prepare \/ CollectResult
  <2>1. Service' = Service
    BY <1>1, <1>3 DEF Prepare, CollectResult, App!RunCollect
  <2>2. Phase = "starting" /\ Phase' = "starting"
    BY <1>3 DEF Prepare, CollectResult, Phase
  <2> QED
    BY <2>1, <2>2 DEF L!vars
<1>4. CASE StartApplication
  <2>1. Service' = Service
    BY <1>4 DEF StartApplication, App!RunSpawn, Service, P!IdleInv
  <2>2. Phase = "starting" /\ Phase' = "starting"
    BY <1>4 DEF StartApplication, Phase
  <2> QED
    BY <2>1, <2>2 DEF L!vars
<1>5. CASE ConfigurationFails \/ BackendFails
  <2>1. Service' = Service /\ \A c \in Components : Service[c] = "down"
    BY <1>1, <1>5 DEF ConfigurationFails, BackendFails, Service, P!IdleInv
  <2>2. Phase = "starting" /\ Phase' \in {"configuration_error", "degraded"}
    BY <1>5 DEF ConfigurationFails, BackendFails, Phase
  <2> QED
    BY <2>1, <2>2 DEF L!Next, L!Settle
<1>6. CASE PublishState
  <2>1. UNCHANGED startPc /\ Phase = "starting" /\ Phase' \in {"running", "degraded"}
    BY <1>6 DEF PublishState, App!RunPublish, App!Aggregate, Phase
  <2>2. Phase' = "running" => \A c \in Components : startPc'[c] \notin {"idle", "starting"}
    BY DEF PhaseInv
  <2>3. Phase' = "running" => \A c \in Components : Service[c] # "down"
    BY <2>1, <2>2 DEF Service
  <2> QED
    BY <1>1, <2>1, <2>3 DEF L!Next, L!Settle
<1>7. CASE FinishSetState
  <2>1. Phase' = Phase
    BY <1>7 DEF FinishSetState, Phase
  <2> QED
    BY <1>1, <1>7, <2>1 DEF FinishSetState, L!vars
<1>8. CASE TrayFailed
  <2>1. Phase \in {"running", "degraded", "configuration_error"} /\ Phase' = "aborted"
    BY <1>8 DEF TrayFailed, Phase, P!States
  <2> QED
    BY <1>1, <1>8, <2>1 DEF TrayFailed, L!Next, L!Abort
<1>9. CASE LeaveSelect
  <2>1. Phase \in {"running", "degraded", "configuration_error"} /\ Phase' = "shutting_down"
    BY <1>9 DEF LeaveSelect, Phase, P!States
  <2> QED
    BY <1>1, <1>9, <2>1 DEF LeaveSelect, L!Next, L!BeginShutdown
<1>10. CASE CancelAll \/ CallShutdown \/ ShutdownReturns
  <2>1. UNCHANGED startPc /\ Phase = "shutting_down" /\ Phase' = "shutting_down"
    BY <1>10 DEF CancelAll, CallShutdown, ShutdownReturns, App!ShutdownCall, App!ShutdownOk,
                 App!ShutdownTimeout, Phase
  <2> QED
    BY <1>1, <2>1 DEF L!vars
<1>11. CASE TrayEnded \/ TrayTimesOut
  <2>1. UNCHANGED startPc /\ Phase = "shutting_down" /\ Phase' \in {"stopped", "forced_stop"}
    BY <1>11 DEF TrayEnded, TrayTimesOut, Phase
  <2>2. Phase' = "stopped" => \A c \in Components : startPc'[c] \in {"idle", "stopped"}
    BY DEF PhaseInv
  <2>3. Phase' = "stopped" => \A c \in Components : Service[c] # "serving"
    BY <2>1, <2>2 DEF Service
  <2> QED
    BY <1>1, <2>1, <2>3 DEF L!Next, L!EndShutdown
<1>12. CASE DeferCancel \/ DeferCloseEvent \/ DeferCloseMutex \/ OsExit
  <2>1. UNCHANGED startPc /\ Phase' = Phase
    BY <1>12 DEF DeferCancel, DeferCloseEvent, DeferCloseMutex, OsExit, Phase
  <2> QED
    BY <1>1, <2>1 DEF L!vars
<1> QED
  BY <1>2, <1>3, <1>4, <1>5, <1>6, <1>7, <1>8, <1>9, <1>10, <1>11, <1>12 DEF Main

(* Any other goroutine, and the world outside, leave the diagram alone. *)
LEMMA OthersRefine ==
    ASSUME \/ TrayStep \/ CloseDone \/ EventArrives \/ RequestShutdown \/ User
           \/ \E c \in Components : SupervisorStep(c)
           \/ UNCHANGED vars
    PROVE  UNCHANGED L!vars
<1>1. UNCHANGED <<startPc, mainPc, runPc, state, configError, exit, shutPc, trayTimeout>>
  BY DEF vars, appVars, appOnly, trayOnly, mainVars, TrayStep, CloseDone, App!CloseDone,
         EventArrives, RequestShutdown, User, SupervisorStep, App!SupStep, App!SupReady,
         App!SupStopped, App!SupCancelled, App!SupPlain, App!SupAwait, App!SendResult
<1> QED
  BY <1>1 DEF L!vars, Phase, Service

(* The process implements its state diagram, whatever its components are:   *)
(* running is reached only when every interface has come up, and stopped    *)
(* only when none serves (run, Application and Tray together).              *)
THEOREM RefinesLifecycle == Spec => ImplementsLifecycle
<1>1. Init => L!Init
  BY DEF Init, App!AppInit, L!Init, Phase, Service
<1>2. Inv /\ PhaseInv' /\ [Next]_vars => [L!Next]_(L!vars)
  BY MainRefines, ComponentRefines, OthersRefine DEF Next
<1> QED
  BY <1>1, <1>2, ProcessInvariant, PhaseFacts, PTL DEF Spec, ImplementsLifecycle, L!Spec

--------------------------------------------------------------------------------
(* The log of main, for any number of days.  RecordsKept is not inductive: *)
(* that a closed w.file is never written to follows from ClosedIsOld, the  *)
(* order of its date and today's.                                          *)
LEMMA LogInitInv == LogInit => LogInv
  BY LastDayAssumption
     DEF LogInit, LogInv, LogTypeOK, ClosedIsOld, RecordsKept, NoHandleLeft, NewWriter, Days, Writers

(* Every step of Write preserves the invariant, on either writer. *)
LEMMA LogWriteInv == LogInv /\ Write => LogInv'
  <1> SUFFICES ASSUME LogInv, Write PROVE LogInv'
    OBVIOUS
  <1> USE LastDayAssumption DEF LogInv, LogTypeOK, Days, Kept, ToFile
  <1>0. PICK x \in Writers : /\ x = main \/ (main = "ended" /\ x = "configured")
                             /\ WriteSameDay(x) \/ WriteNewDay(x) \/ WriteFails(x)
    BY DEF Write
  <1>1. UNCHANGED <<day, steady, main>>
    BY DEF Write
  <1>2. CASE WriteSameDay(x)
    <2>1. LogTypeOK'
      BY <1>0, <1>1, <1>2 DEF WriteSameDay
    <2>2. ClosedIsOld' /\ NoHandleLeft'
      BY <1>1, <1>2 DEF WriteSameDay, ClosedIsOld, NoHandleLeft
    <2>3. RecordsKept'
      BY <1>0, <1>1, <1>2 DEF WriteSameDay, ClosedIsOld, RecordsKept
    <2> QED BY <2>1, <2>2, <2>3
  <1>3. CASE WriteNewDay(x)
    <2>1. LogTypeOK'
      BY <1>0, <1>1, <1>3 DEF WriteNewDay, Closed
    <2>2. ClosedIsOld'
      BY <1>0, <1>1, <1>3 DEF WriteNewDay, ClosedIsOld
    <2>3. RecordsKept'
      BY <1>0, <1>1, <1>3 DEF WriteNewDay, RecordsKept
    <2>4. NoHandleLeft'
      BY <1>0, <1>1, <1>3 DEF WriteNewDay, NoHandleLeft, Closed, Writers
    <2> QED BY <2>1, <2>2, <2>3, <2>4
  <1>4. CASE WriteFails(x)
    <2>1. LogTypeOK'
      BY <1>0, <1>1, <1>4 DEF WriteFails, Closed
    <2>2. ClosedIsOld'
      <3> SUFFICES ASSUME NEW y \in Writers, steady
                   PROVE  w'[y].date <= day /\ (w'[y].file = "closed" => w'[y].date < day)
        BY <1>1 DEF ClosedIsOld
      <3>1. /\ w[y].date <= day /\ w'[y].date = w[y].date
            /\ w[y].file = "closed" => w[y].date < day
        BY <1>4 DEF WriteFails, ClosedIsOld
      <3>2. CASE y # x
        BY <3>1, <3>2, <1>4 DEF WriteFails
      <3>3. CASE y = x /\ w[x].file = "nil"
        BY <3>1, <3>3, <1>4 DEF WriteFails
      <3>4. CASE y = x /\ w[x].date # day
        BY <3>1, <3>4
      <3> QED BY <3>2, <3>3, <3>4, <1>4 DEF WriteFails
    <2>3. RecordsKept'
      BY <1>0, <1>1, <1>4 DEF WriteFails, RecordsKept
    <2>4. NoHandleLeft'
      BY <1>0, <1>1, <1>4 DEF WriteFails, NoHandleLeft, Closed, Writers
    <2> QED BY <2>1, <2>2, <2>3, <2>4
  <1> QED BY <1>0, <1>2, <1>3, <1>4

(* So do the steps of main and of the clock. *)
LEMMA LogRestInv == LogInv /\ (Configured \/ End \/ Clock \/ UNCHANGED logVars) => LogInv'
  <1> SUFFICES ASSUME LogInv, Configured \/ End \/ Clock \/ UNCHANGED logVars PROVE LogInv'
    OBVIOUS
  <1> USE LastDayAssumption DEF LogInv, LogTypeOK, Days
  <1>1. CASE Configured
    BY <1>1 DEF Configured, Close, Closed, ClosedIsOld, RecordsKept, NoHandleLeft, Writers
  <1>2. CASE End
    BY <1>2 DEF End, Close, Closed, ClosedIsOld, RecordsKept, NoHandleLeft, Writers
  <1>3. CASE Clock
    <2>1. LogTypeOK' /\ RecordsKept' /\ NoHandleLeft'
      BY <1>3 DEF Clock, RecordsKept, NoHandleLeft
    <2>2. ClosedIsOld'
      <3> SUFFICES ASSUME NEW y \in Writers, steady'
                   PROVE  w[y].date < day'
        BY <1>3 DEF Clock, ClosedIsOld, Writers
      <3>1. steady /\ day' > day
        BY <1>3, Zenon DEF Clock
      <3>2. w[y].date <= day
        BY <3>1 DEF ClosedIsOld
      <3>3. day \in Nat /\ day' \in Nat /\ w[y].date \in Nat
        BY <1>3 DEF Clock
      <3> QED BY <3>1, <3>2, <3>3
    <2> QED BY <2>1, <2>2
  <1>4. CASE UNCHANGED logVars
    BY <1>4 DEF logVars, ClosedIsOld, RecordsKept, NoHandleLeft
  <1> QED BY <1>1, <1>2, <1>3, <1>4

(* The inductive invariant holds for every bound on the dates. *)
THEOREM LogInvHolds == LogSpec => []LogInv
  <1>1. LogInit => LogInv
    BY LogInitInv
  <1>2. LogInv /\ [LogNext]_logVars => LogInv'
    BY LogWriteInv, LogRestInv DEF LogNext
  <1> QED BY <1>1, <1>2, PTL DEF LogSpec

(* While the date does not go back no record of the log is written to a     *)
(* closed file, and the file written to is always that of the record's day, *)
(* for any number of days.                                                  *)
THEOREM RecordsAreKept == LogSpec => []RecordsKept
  BY LogInvHolds, PTL DEF LogInv

(* The writers leave no file open, for any number of days. *)
THEOREM HandlesAreClosed == LogSpec => []NoHandleLeft
  BY LogInvHolds, PTL DEF LogInv

================================================================================
