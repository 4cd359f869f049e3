------------------------------ MODULE MainProcess ------------------------------
(***************************************************************************)
(* cmd/omnisshagent: run, from the singleton mutex to os.Exit, together    *)
(* with the Application and the Tray it starts and the goroutine that      *)
(* waits for the shutdown event of the installer.                          *)
(*                                                                         *)
(* main is the goroutine of run.  It shares with the others the context,   *)
(* the channel trayDone, which holds one value, and the channels of the    *)
(* Application.  When run has returned the process is gone, whatever its   *)
(* other goroutines were doing.                                            *)
(***************************************************************************)
EXTENDS Naturals, FiniteSets

CONSTANTS Components, Hangable   \* as in Application

ASSUME MainAssumption == IsFiniteSet(Components) /\ Hangable \subseteq Components

VARIABLES
    ctxDone, appDone, runPc, startPc, ready, stopped, supPc, outcome, statuses,
    state, done, shutPc,
    trayPc, trayErr, tstate, window, added, shuttingDown, queue, label, shown,
    setter, watcher, quitGo,
    mainPc,      \* where run is
    mutex,       \* who holds Local\OmniSSHAgent: "free", "own", "other"
    event,       \* the shutdown event: "none", "unset", "set"
    eventWaiter, \* the goroutine in shutdownEvent.Wait
    trayDone,    \* what is in trayDone, or "taken"
    logOpen,     \* the log is open
    configError, \* the configuration could not be created or loaded
    trayTimeout, \* `tray shutdown timeout' was logged
    exit         \* the exit code, NoExit before

App == INSTANCE Application WITH Plain <- {}
T == INSTANCE Tray WITH States <- App!States

appOnly == <<appDone, runPc, startPc, ready, stopped, supPc, outcome, statuses,
             state, done, shutPc>>
appVars == <<ctxDone, appOnly>>
trayOnly == <<trayPc, trayErr, tstate, window, added, shuttingDown, queue, label,
              shown, setter, watcher, quitGo>>
mainVars == <<mainPc, mutex, event, eventWaiter, trayDone, logOpen, configError,
              trayTimeout, exit>>
vars == <<appVars, trayOnly, mainVars>>

(* internal/cli *)
ExitOK == 0
ExitAlreadyRunning == 4
ExitInternal == 1
ExitWindows == 7
NoExit == 99

Defers == {"cancel", "closeEvent", "closeMutex"}

TypeOK ==
    /\ App!AppTypeOK
    /\ T!TrayTypeOK
    /\ mainPc \in {"acquire", "event", "prepare", "config", "run", "setState",
                   "select", "stop", "stopApplication", "shutdown", "trayWait",
                   "exited"} \cup Defers
    /\ mutex \in {"free", "own", "other"}
    /\ event \in {"none", "unset", "set"}
    /\ eventWaiter \in {"off", "waiting", "done"}
    /\ trayDone \in {"empty", "nil", "err", "taken"}
    /\ logOpen \in BOOLEAN
    /\ configError \in BOOLEAN
    /\ trayTimeout \in BOOLEAN
    /\ exit \in {ExitOK, ExitAlreadyRunning, ExitInternal, ExitWindows, NoExit}

Init ==
    /\ App!AppInit
    /\ T!TrayInit
    /\ mainPc = "acquire"
    /\ mutex \in {"free", "other"}
    /\ event = "none"
    /\ eventWaiter = "off"
    /\ trayDone = "empty"
    /\ logOpen = FALSE
    /\ configError = FALSE
    /\ trayTimeout = FALSE
    /\ exit = NoExit

--------------------------------------------------------------------------------
Goto(pc) == mainPc' = pc
Return(code, pc) == exit' = code /\ mainPc' = pc

(* singleton.Acquire *)
Acquire ==
    /\ mainPc = "acquire"
    /\ \/ mutex = "other" /\ Return(ExitAlreadyRunning, "exited") /\ UNCHANGED mutex
       \/ mutex = "free" /\ mutex' = "own" /\ Goto("event") /\ UNCHANGED exit
       \/ Return(ExitWindows, "exited") /\ UNCHANGED mutex
    /\ UNCHANGED <<appVars, trayOnly, event, eventWaiter, trayDone, logOpen,
                   configError, trayTimeout>>

(* control.NewShutdownEvent *)
CreateEvent ==
    /\ mainPc = "event"
    /\ \/ event' = "unset" /\ Goto("prepare") /\ UNCHANGED exit
       \/ Return(ExitWindows, "closeMutex") /\ UNCHANGED event
    /\ UNCHANGED <<appVars, trayOnly, mutex, eventWaiter, trayDone, logOpen,
                   configError, trayTimeout>>

(* The paths, the log, the context and the two goroutines. *)
Prepare ==
    /\ mainPc = "prepare"
    /\ logOpen' = TRUE
    /\ eventWaiter' = "waiting"
    /\ T!RunTray
    /\ Goto("config")
    /\ UNCHANGED <<appVars, mutex, event, trayDone, configError, trayTimeout, exit>>

PrepareFails ==
    /\ mainPc = "prepare"
    /\ Return(ExitInternal, "closeEvent")
    /\ UNCHANGED <<appVars, trayOnly, mutex, event, eventWaiter, trayDone, logOpen,
                   configError, trayTimeout>>

(* CreateDefault, LoadRuntime and newBackend succeed; application.Run starts. *)
StartApplication ==
    /\ mainPc = "config"
    /\ App!RunSpawn
    /\ Goto("run")
    /\ UNCHANGED <<trayOnly, mutex, event, eventWaiter, trayDone, logOpen,
                   configError, trayTimeout, exit>>

(* No application: only the tray learns of it. *)
ConfigurationFails ==
    /\ mainPc = "config"
    /\ configError' = TRUE
    /\ T!SetState("configuration_error")
    /\ Goto("setState")
    /\ UNCHANGED <<appVars, mutex, event, eventWaiter, trayDone, logOpen,
                   trayTimeout, exit>>

BackendFails ==
    /\ mainPc = "config"
    /\ T!SetState("degraded")
    /\ Goto("setState")
    /\ UNCHANGED <<appVars, mutex, event, eventWaiter, trayDone, logOpen,
                   configError, trayTimeout, exit>>

(* The loop of application.Run, then setState, whose sink is the tray *)
CollectResult ==
    /\ mainPc = "run"
    /\ \E c \in Components : App!RunCollect(c)
    /\ UNCHANGED <<trayOnly, mainVars>>

(* Mutant: the sink gets the state before it is set. *)
PublishOldState ==
    /\ mainPc = "run"
    /\ App!RunPublish
    /\ T!SetState(state)
    /\ Goto("setState")
    /\ UNCHANGED <<mutex, event, eventWaiter, trayDone, logOpen, configError,
                   trayTimeout, exit>>

PublishState ==
    /\ mainPc = "run"
    /\ App!RunPublish
    /\ T!SetState(state')
    /\ Goto("setState")
    /\ UNCHANGED <<mutex, event, eventWaiter, trayDone, logOpen, configError,
                   trayTimeout, exit>>

FinishSetState ==
    /\ mainPc = "setState"
    /\ T!SetStateReturns
    /\ Goto("select")
    /\ UNCHANGED <<appVars, mutex, event, eventWaiter, trayDone, logOpen,
                   configError, trayTimeout, exit>>

(* Mutant: the error of the tray is only logged. *)
TrayFailedLogged ==
    /\ mainPc = "select"
    /\ trayDone = "err"
    /\ trayDone' = "taken"
    /\ UNCHANGED <<appVars, trayOnly, mainPc, mutex, event, eventWaiter, logOpen,
                   configError, trayTimeout, exit>>

(* The first select: the tray failed, and run returns without Shutdown. *)
TrayFailed ==
    /\ mainPc = "select"
    /\ trayDone = "err"
    /\ trayDone' = "taken"
    /\ Return(ExitWindows, "cancel")
    /\ UNCHANGED <<appVars, trayOnly, mutex, event, eventWaiter, logOpen,
                   configError, trayTimeout>>

(* Mutant: only the end of the tray ends the program. *)
LeaveSelectOnTray ==
    /\ mainPc = "select"
    /\ trayDone = "nil"
    /\ trayDone' = "taken"
    /\ Goto("stop")
    /\ UNCHANGED <<appVars, trayOnly, mutex, event, eventWaiter, logOpen,
                   configError, trayTimeout, exit>>

(* The first select: the tray ended, or the context was cancelled. *)
LeaveSelect ==
    /\ mainPc = "select"
    /\ \/ trayDone = "nil" /\ trayDone' = "taken"
       \/ ctxDone /\ UNCHANGED trayDone
    /\ Goto("stop")
    /\ UNCHANGED <<appVars, trayOnly, mutex, event, eventWaiter, logOpen,
                   configError, trayTimeout, exit>>

(* Mutant: Shutdown of the application is forgotten. *)
CancelOnly ==
    /\ mainPc = "stop"
    /\ ctxDone' = TRUE
    /\ Goto("trayWait")
    /\ UNCHANGED <<appOnly, trayOnly, mutex, event, eventWaiter, trayDone, logOpen,
                   configError, trayTimeout, exit>>

(* cancel() *)
CancelAll ==
    /\ mainPc = "stop"
    /\ ctxDone' = TRUE
    /\ Goto(IF runPc = "returned" THEN "stopApplication" ELSE "trayWait")
    /\ UNCHANGED <<appOnly, trayOnly, mutex, event, eventWaiter,
                   trayDone, logOpen, configError, trayTimeout, exit>>

(* application.Shutdown with a deadline of ten seconds *)
CallShutdown ==
    /\ mainPc = "stopApplication"
    /\ App!ShutdownCall
    /\ Goto("shutdown")
    /\ UNCHANGED <<trayOnly, mutex, event, eventWaiter, trayDone, logOpen,
                   configError, trayTimeout, exit>>

ShutdownReturns ==
    /\ mainPc = "shutdown"
    /\ App!ShutdownOk \/ App!ShutdownTimeout
    /\ Goto("trayWait")
    /\ UNCHANGED <<trayOnly, mutex, event, eventWaiter, trayDone, logOpen,
                   configError, trayTimeout, exit>>

(* The second select: trayDone, or ten seconds *)
TrayEnded ==
    /\ mainPc = "trayWait"
    /\ trayDone \in {"nil", "err"}
    /\ trayDone' = "taken"
    /\ Return(ExitOK, "cancel")
    /\ UNCHANGED <<appVars, trayOnly, mutex, event, eventWaiter, logOpen,
                   configError, trayTimeout>>

TrayTimesOut ==
    /\ mainPc = "trayWait"
    /\ trayTimeout' = TRUE
    /\ Return(ExitOK, "cancel")
    /\ UNCHANGED <<appVars, trayOnly, mutex, event, eventWaiter, trayDone, logOpen,
                   configError>>

(* The deferred calls, last one first: cancel and the log, the event, the  *)
(* mutex; then os.Exit.                                                    *)
DeferCancel ==
    /\ mainPc = "cancel"
    /\ ctxDone' = TRUE
    /\ logOpen' = FALSE
    /\ Goto("closeEvent")
    /\ UNCHANGED <<appOnly, trayOnly, mutex, event, eventWaiter,
                   trayDone, configError, trayTimeout, exit>>

DeferCloseEvent ==
    /\ mainPc = "closeEvent"
    /\ event' = "none"
    /\ Goto("closeMutex")
    /\ UNCHANGED <<appVars, trayOnly, mutex, eventWaiter, trayDone, logOpen,
                   configError, trayTimeout, exit>>

DeferCloseMutex ==
    /\ mainPc = "closeMutex"
    /\ mutex = "own"
    /\ mutex' = "free"
    /\ UNCHANGED <<appVars, trayOnly, mainPc, event, eventWaiter, trayDone, logOpen,
                   configError, trayTimeout, exit>>

OsExit ==
    /\ mainPc = "closeMutex"
    /\ mutex # "own"
    /\ Goto("exited")
    /\ UNCHANGED <<appVars, trayOnly, mutex, event, eventWaiter, trayDone, logOpen,
                   configError, trayTimeout, exit>>

Main ==
    \/ Acquire \/ CreateEvent \/ Prepare \/ PrepareFails
    \/ StartApplication \/ ConfigurationFails \/ BackendFails
    \/ CollectResult \/ PublishState \/ FinishSetState
    \/ TrayFailed \/ LeaveSelect \/ CancelAll \/ CallShutdown \/ ShutdownReturns
    \/ TrayEnded \/ TrayTimesOut
    \/ DeferCancel \/ DeferCloseEvent \/ DeferCloseMutex \/ OsExit

--------------------------------------------------------------------------------
(* The other goroutines, as long as the process exists. *)

(* trayDone <- t.Run(ctx) *)
SendTrayDone ==
    trayDone' = IF trayPc' = "returned" /\ trayPc # "returned"
                THEN IF trayErr' THEN "err" ELSE "nil"
                ELSE trayDone

TrayStep ==
    /\ mainPc # "exited"
    /\ T!TrayThread \/ T!Quit \/ T!QuitReturns \/ T!OnQuit
    /\ SendTrayDone
    /\ UNCHANGED <<appOnly, mainPc, mutex, event, eventWaiter, logOpen,
                   configError, trayTimeout, exit>>

ComponentStep(c) ==
    /\ mainPc # "exited"
    /\ App!StartStep(c)
    /\ UNCHANGED <<trayOnly, mainVars>>

SupervisorStep(c) ==
    /\ mainPc # "exited"
    /\ App!SupStep(c)
    /\ UNCHANGED <<trayOnly, mainVars>>

CloseDone ==
    /\ mainPc # "exited"
    /\ App!CloseDone
    /\ UNCHANGED <<trayOnly, mainVars>>

(* shutdownEvent.Wait returns nil and the goroutine calls cancel.  It ends *)
(* without when the context is cancelled or the handle is closed.          *)
EventArrives ==
    /\ mainPc # "exited"
    /\ eventWaiter = "waiting"
    /\ \/ event = "set" /\ ctxDone' = TRUE
       \/ (ctxDone \/ event = "none") /\ UNCHANGED ctxDone
    /\ eventWaiter' = "done"
    /\ UNCHANGED <<appOnly, trayOnly, mainPc, mutex, event, trayDone,
                   logOpen, configError, trayTimeout, exit>>

(* control.RequestShutdown, called by the installer *)
RequestShutdown ==
    /\ event = "unset"
    /\ event' = "set"
    /\ UNCHANGED <<appVars, trayOnly, mainPc, mutex, eventWaiter, trayDone, logOpen,
                   configError, trayTimeout, exit>>

(* Restarts of the shell are left to Tray: main cannot tell. *)
User ==
    /\ mainPc # "exited"
    /\ T!CommandQuit \/ T!CloseFromOutside
    /\ UNCHANGED <<appOnly, mainVars>>

Next ==
    \/ Main \/ TrayStep \/ CloseDone \/ EventArrives \/ RequestShutdown \/ User
    \/ \E c \in Components : ComponentStep(c) \/ SupervisorStep(c)

Spec == Init /\ [][Next]_vars

(* The scheduler runs every goroutine, timers expire, and every component, *)
(* also a Hangable one, reports the outcome of its start: Hangable ones    *)
(* hang while they serve.  (One that hangs while starting, and that a      *)
(* cancellation still lets Run return, is in Application.)  The tray owes  *)
(* nothing: the user may leave its message box open.                       *)
Fairness ==
    /\ WF_vars(Main)
    /\ WF_vars(CloseDone)
    /\ WF_vars(EventArrives)
    /\ \A c \in Components :
          /\ WF_vars(SupervisorStep(c))
          /\ WF_vars(startPc[c] = "starting" /\ ComponentStep(c))
          /\ WF_vars(startPc[c] = "returning" /\ ComponentStep(c))
    /\ \A c \in Components \ Hangable :
          WF_vars(startPc[c] = "serving" /\ App!Cancelled /\ ComponentStep(c))

FairSpec == Spec /\ Fairness

--------------------------------------------------------------------------------
(* A clean end is clean: when the mutex is given up with exit code 0 and no *)
(* timeout was logged, the Start of every component has returned, the tray  *)
(* thread is over and its icon gone (run, with its deferred calls last).    *)
(* Requirement 15 asks for more, the end of every goroutine: the handlers   *)
(* of the Cygwin socket are not counted and may outlive their Start.        *)
CleanExit ==
    (exit = ExitOK /\ mutex = "free" /\ shutPc # "timeout" /\ ~trayTimeout) =>
        /\ \A c \in Components : startPc[c] \in {"idle", "stopped"}
        /\ trayPc = "returned"
        /\ shown = "none"

(* While the program waits in its first select, the state the tray was told *)
(* is the application's, unless the tray was already shutting down.         *)
TrayWasTold ==
    (mainPc = "select" /\ runPc = "returned" /\ ~shuttingDown) => tstate = state

(* Quit, the installer's request or anything else that cancels the context  *)
(* ends the process, even if a component hangs while it serves and the tray *)
(* never answers.  The request counts from the moment it is made: it may    *)
(* come before the goroutine that waits for the event is started, and is    *)
(* not lost (CreateEvent before the tray, Wait, cancel).                    *)
CancelEndsProcess == (ctxDone \/ event = "set") ~> (mainPc = "exited")

(* A tray that fails, at any moment of the start or after it, ends the      *)
(* process (plan 5.6: no resident process without a tray), even if a        *)
(* component hangs while it serves.                                         *)
TrayFailureEndsProcess == (trayDone = "err") ~> (mainPc = "exited")

(* The timeout of the tray is logged only for a tray that is still there:   *)
(* requirement 15 asks to log the components that remain.                   *)
TrayTimeoutIsReal == trayTimeout => trayDone # "taken"

--------------------------------------------------------------------------------
(* The life of the process as its state diagram tells it. *)
Phase ==
    IF mainPc \in {"acquire", "event", "prepare", "config", "run"} THEN "starting"
    ELSE IF mainPc \in {"setState", "select"} THEN
            IF runPc = "returned" THEN state
            ELSE IF configError THEN "configuration_error" ELSE "degraded"
    ELSE IF mainPc \in {"stop", "stopApplication", "shutdown", "trayWait"} THEN "shutting_down"
    ELSE IF exit # ExitOK THEN "aborted"
    ELSE IF shutPc = "timeout" \/ trayTimeout THEN "forced_stop"
    ELSE "stopped"

Service ==
    [c \in Components |->
        CASE startPc[c] \in {"idle", "starting"} -> "down"
          [] startPc[c] = "serving" -> "serving"
          [] OTHER -> "gone"]

L == INSTANCE Lifecycle WITH phase <- Phase, service <- Service

(* The process implements its state diagram: running is reached only when   *)
(* every interface has come up, and stopped only when none serves.          *)
ImplementsLifecycle == L!Spec

================================================================================
