--------------------------------- MODULE Tray ----------------------------------
(***************************************************************************)
(* internal/tray: the notification icon.  One locked OS thread creates a   *)
(* hidden window, adds the icon and then dispatches messages until         *)
(* WM_QUIT.  Other goroutines reach it by posting messages to the window:  *)
(* SetState posts wmApply, the watcher of the context posts WM_CLOSE.      *)
(*                                                                         *)
(* SetState reads t.window under t.mu, but initialize writes it without,   *)
(* and a post is a step of its own after the lock is released: the window  *)
(* may appear just too late or be gone by then.                            *)
(***************************************************************************)

CONSTANT States   \* app.State

ASSUME StatesAssumption == "degraded" \in States /\ "none" \notin States

VARIABLES
    ctxDone,      \* the context passed to Run is cancelled
    trayPc,       \* where Run is
    trayErr,      \* Run returned an error
    tstate,       \* t.state
    window,       \* t.window # 0
    added,        \* t.added
    shuttingDown, \* t.shuttingDown
    queue,        \* messages posted to the thread
    label,        \* the state in the tooltip buffer and the menu
    shown,        \* the state the shell shows, "none" without an icon
    setter,       \* where the goroutine that calls SetState is
    watcher,      \* where the goroutine that waits for the context is
    quitGo        \* `go t.onQuit()' has been started and has not run yet

trayVars == <<trayPc, trayErr, tstate, window, added, shuttingDown, queue, label,
              shown, setter, watcher, quitGo>>

Messages == {"apply", "close", "taskbar", "quit"}

TrayTypeOK ==
    /\ ctxDone \in BOOLEAN
    /\ trayPc \in {"idle", "create", "initialize", "addIcon", "loop", "fatal",
                   "fatalIcon", "returned"}
    /\ trayErr \in BOOLEAN
    /\ tstate \in States
    /\ window \in BOOLEAN
    /\ added \in BOOLEAN
    /\ shuttingDown \in BOOLEAN
    /\ queue \in SUBSET Messages
    /\ label \in States
    /\ shown \in States \cup {"none"}
    /\ setter \in {"idle", "post", "skip"}
    /\ watcher \in {"idle", "waiting", "post", "skip", "done"}
    /\ quitGo \in BOOLEAN

TrayInit ==
    /\ trayPc = "idle"
    /\ trayErr = FALSE
    /\ tstate = "degraded"
    /\ window = FALSE
    /\ added = FALSE
    /\ shuttingDown = FALSE
    /\ queue = {}
    /\ label = "degraded"
    /\ shown = "none"
    /\ setter = "idle"
    /\ watcher = "idle"
    /\ quitGo = FALSE

--------------------------------------------------------------------------------
(* The goroutine of main that calls Run. *)
RunTray ==
    /\ trayPc = "idle"
    /\ trayPc' = "create"
    /\ UNCHANGED <<ctxDone, trayErr, tstate, window, added, shuttingDown, queue,
                   label, shown, setter, watcher, quitGo>>

(* initialize up to t.window = window *)
CreateWindow ==
    /\ trayPc = "create"
    /\ window' = TRUE
    /\ trayPc' = "initialize"
    /\ UNCHANGED <<ctxDone, trayErr, tstate, added, shuttingDown, queue, label,
                   shown, setter, watcher, quitGo>>

(* Mutant: initialize does not apply the state. *)
FinishInitializeStale ==
    /\ trayPc = "initialize"
    /\ trayPc' = "addIcon"
    /\ UNCHANGED <<ctxDone, trayErr, tstate, window, added, shuttingDown, queue,
                   label, shown, setter, watcher, quitGo>>

(* The rest of initialize: icon, menu, and applyState before the icon is   *)
(* added.                                                                  *)
FinishInitialize ==
    /\ trayPc = "initialize"
    /\ label' = tstate
    /\ trayPc' = "addIcon"
    /\ UNCHANGED <<ctxDone, trayErr, tstate, window, added, shuttingDown, queue,
                   shown, setter, watcher, quitGo>>

(* addIcon, and the goroutine that waits for the context *)
AddFirstIcon ==
    /\ trayPc = "addIcon"
    /\ added' = TRUE
    /\ shown' = label
    /\ watcher' = "waiting"
    /\ trayPc' = "loop"
    /\ UNCHANGED <<ctxDone, trayErr, tstate, window, shuttingDown, queue, label,
                   setter, quitGo>>

(* A Windows call of initialize or addIcon fails: ShowFatal blocks in a    *)
(* message box until the user has read it.  The box dispatches messages    *)
(* too, but there is no icon they could change.                            *)
InitializeFails ==
    /\ \/ trayPc \in {"create", "initialize"} /\ trayPc' = "fatal"
       \/ trayPc = "addIcon" /\ trayPc' = "fatalIcon"
    /\ UNCHANGED <<ctxDone, trayErr, tstate, window, added, shuttingDown, queue,
                   label, shown, setter, watcher, quitGo>>

(* Run returns the error; close is deferred only after initialize. *)
DismissFatal ==
    /\ trayPc \in {"fatal", "fatalIcon"}
    /\ trayPc' = "returned"
    /\ trayErr' = TRUE
    /\ window' = (window /\ trayPc = "fatal")
    /\ UNCHANGED <<ctxDone, tstate, added, shuttingDown, queue, label, shown,
                   setter, watcher, quitGo>>

--------------------------------------------------------------------------------
(* The message loop and windowProc. *)

(* wmApply: applyState *)
DispatchApply ==
    /\ trayPc = "loop"
    /\ "apply" \in queue
    /\ queue' = queue \ {"apply"}
    /\ label' = tstate
    /\ shown' = IF added /\ shown # "none" THEN tstate ELSE shown
    /\ UNCHANGED <<ctxDone, trayPc, trayErr, tstate, window, added, shuttingDown,
                   setter, watcher, quitGo>>

(* WM_CLOSE: DefWindowProc destroys the window, and WM_DESTROY removes the *)
(* icon and posts WM_QUIT.  Messages for the window are gone with it.      *)
DispatchClose ==
    /\ trayPc = "loop"
    /\ "close" \in queue
    /\ queue' = {"quit"}
    /\ shown' = IF added THEN "none" ELSE shown
    /\ added' = FALSE
    /\ window' = FALSE
    /\ UNCHANGED <<ctxDone, trayPc, trayErr, tstate, shuttingDown, label, setter,
                   watcher, quitGo>>

(* TaskbarCreated: a new taskbar has no icons, so add this one again; an   *)
(* error is ignored.                                                       *)
DispatchTaskbar ==
    /\ trayPc = "loop"
    /\ "taskbar" \in queue
    /\ queue' = queue \ {"taskbar"}
    /\ \/ added' = TRUE /\ shown' = label
       \/ added' = FALSE /\ UNCHANGED shown
    /\ UNCHANGED <<ctxDone, trayPc, trayErr, tstate, window, shuttingDown, label,
                   setter, watcher, quitGo>>

(* command(menuQuit) *)
CommandQuit ==
    /\ trayPc = "loop"
    /\ window
    /\ ~shuttingDown
    /\ quitGo' = TRUE
    /\ UNCHANGED <<ctxDone, trayPc, trayErr, tstate, window, added, shuttingDown,
                   queue, label, shown, setter, watcher>>

(* GetMessage returns 0 once only WM_QUIT is left; close has nothing to    *)
(* remove any more.                                                        *)
LoopEnds ==
    /\ trayPc = "loop"
    /\ queue = {"quit"}
    /\ queue' = {}
    /\ trayPc' = "returned"
    /\ UNCHANGED <<ctxDone, trayErr, tstate, window, added, shuttingDown, label,
                   shown, setter, watcher, quitGo>>

(* Mutant: Run returns the error without close. *)
LoopFailsOpen ==
    /\ trayPc = "loop"
    /\ trayPc' = "returned"
    /\ trayErr' = TRUE
    /\ UNCHANGED <<ctxDone, tstate, window, added, shuttingDown, queue, label,
                   shown, setter, watcher, quitGo>>

(* GetMessage returns -1: close removes the icon and destroys the window. *)
LoopFails ==
    /\ trayPc = "loop"
    /\ trayPc' = "returned"
    /\ trayErr' = TRUE
    /\ shown' = IF added THEN "none" ELSE shown
    /\ added' = FALSE
    /\ window' = FALSE
    /\ queue' = {}
    /\ UNCHANGED <<ctxDone, tstate, shuttingDown, label, setter, watcher, quitGo>>

--------------------------------------------------------------------------------
(* PostMessage to the window; a message for a destroyed window is lost. *)
Post(message) == queue' = IF window THEN queue \cup {message} ELSE queue

(* SetState, the part under t.mu *)
SetState(s) ==
    /\ setter = "idle"
    /\ tstate' = IF shuttingDown THEN tstate ELSE s
    /\ setter' = IF ~shuttingDown /\ window THEN "post" ELSE "skip"
    /\ UNCHANGED <<ctxDone, trayPc, trayErr, window, added, shuttingDown, queue,
                   label, shown, watcher, quitGo>>

(* SetState, the rest *)
SetStateReturns ==
    /\ setter \in {"post", "skip"}
    /\ IF setter = "post" THEN Post("apply") ELSE UNCHANGED queue
    /\ setter' = "idle"
    /\ UNCHANGED <<ctxDone, trayPc, trayErr, tstate, window, added, shuttingDown,
                   label, shown, watcher, quitGo>>

(* Mutant: t.shuttingDown is set before it is tested. *)
QuitSetsFirst ==
    /\ watcher = "waiting"
    /\ ctxDone
    /\ watcher' = "skip"
    /\ shuttingDown' = TRUE
    /\ UNCHANGED <<ctxDone, trayPc, trayErr, tstate, window, added, queue, label,
                   shown, setter, quitGo>>

(* The watcher: <-ctx.Done(), then quit, the part under t.mu *)
Quit ==
    /\ watcher = "waiting"
    /\ ctxDone
    /\ watcher' = IF ~shuttingDown /\ window THEN "post" ELSE "skip"
    /\ shuttingDown' = TRUE
    /\ UNCHANGED <<ctxDone, trayPc, trayErr, tstate, window, added, queue, label,
                   shown, setter, quitGo>>

(* quit, the rest *)
QuitReturns ==
    /\ watcher \in {"post", "skip"}
    /\ IF watcher = "post" THEN Post("close") ELSE UNCHANGED queue
    /\ watcher' = "done"
    /\ UNCHANGED <<ctxDone, trayPc, trayErr, tstate, window, added, shuttingDown,
                   label, shown, setter, quitGo>>

(* onQuit is the cancel function of main. *)
OnQuit ==
    /\ quitGo
    /\ quitGo' = FALSE
    /\ ctxDone' = TRUE
    /\ UNCHANGED <<trayPc, trayErr, tstate, window, added, shuttingDown, queue,
                   label, shown, setter, watcher>>

--------------------------------------------------------------------------------
(* Another program asks the window to close, as taskkill without /F does. *)
CloseFromOutside ==
    /\ window
    /\ trayPc = "loop"
    /\ Post("close")
    /\ UNCHANGED <<ctxDone, trayPc, trayErr, tstate, window, added, shuttingDown,
                   label, shown, setter, watcher, quitGo>>

(* Explorer restarts: every icon is gone and top-level windows are told. *)
ExplorerRestarts ==
    /\ trayPc = "loop"
    /\ window
    /\ shown # "none"
    /\ shown' = "none"
    /\ Post("taskbar")
    /\ UNCHANGED <<ctxDone, trayPc, trayErr, tstate, window, added, shuttingDown,
                   label, setter, watcher, quitGo>>

CancelContext ==
    /\ ~ctxDone
    /\ ctxDone' = TRUE
    /\ UNCHANGED trayVars

--------------------------------------------------------------------------------
TrayThread ==
    \/ CreateWindow \/ FinishInitialize \/ AddFirstIcon \/ InitializeFails
    \/ DismissFatal \/ DispatchApply \/ DispatchClose \/ DispatchTaskbar
    \/ LoopEnds \/ LoopFails

TrayGoroutines == SetStateReturns \/ Quit \/ QuitReturns \/ OnQuit

TrayUser == CommandQuit \/ CloseFromOutside \/ ExplorerRestarts

Init == TrayInit /\ ctxDone = FALSE

Next ==
    \/ RunTray \/ TrayThread \/ TrayGoroutines \/ TrayUser
    \/ CancelContext
    \/ \E s \in States : SetState(s)

vars == <<trayVars, ctxDone>>

Spec == Init /\ [][Next]_vars

(* The thread gets its messages in the end, and started goroutines run.    *)
(* Nothing is assumed of the user, who may leave the message box open.     *)
TrayFairness ==
    /\ WF_vars(CreateWindow \/ InitializeFails)
    /\ WF_vars(FinishInitialize \/ InitializeFails)
    /\ WF_vars(AddFirstIcon \/ InitializeFails)
    /\ WF_vars(DispatchApply)
    /\ WF_vars(DispatchClose)
    /\ WF_vars(DispatchTaskbar)
    /\ WF_vars(LoopEnds)
    /\ WF_vars(SetStateReturns)
    /\ WF_vars(Quit)
    /\ WF_vars(QuitReturns)
    /\ WF_vars(OnQuit)

FairSpec == Spec /\ TrayFairness

--------------------------------------------------------------------------------
(* No icon is left behind: when Run has returned, whatever the way, the     *)
(* shell shows none (close and WM_DESTROY both remove it, once).            *)
NoIconLeft == trayPc = "returned" => shown = "none"

(* A state set at any moment, also while the window is being created,       *)
(* reaches the tooltip and the menu: the label does not stay behind t.state *)
(* while the message loop runs (SetState against initialize's applyState).  *)
StateIsApplied ==
    (trayPc = "loop" /\ label # tstate) ~> (label = tstate \/ queue = {"quit"}
                                            \/ trayPc = "returned")

(* Cancelling the context closes the tray once it is up, also when it was   *)
(* cancelled while it was coming up.                                        *)
CancelClosesTray == (ctxDone /\ trayPc = "loop") ~> (trayPc = "returned")

================================================================================
