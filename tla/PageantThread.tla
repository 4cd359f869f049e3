----------------------------- MODULE PageantThread -----------------------------
(***************************************************************************)
(* The Pageant interface: Start on its locked thread, from the check for   *)
(* another Pageant to the deferred calls, the goroutine that posts WM_QUIT *)
(* to the thread, and the requests of clients, which are served on that    *)
(* thread while the client waits in SendMessage.                           *)
(*                                                                         *)
(* A request is the size of the client's mapping, the message length in    *)
(* it, and the length of the agent's answer.  Each client sends one.       *)
(***************************************************************************)
EXTENDS Naturals

CONSTANTS Clients, Requests, MaxMessageLen, None

ASSUME PageantAssumption ==
    /\ None \notin Clients
    /\ Requests \subseteq [size : Nat, length : Nat, reply : Nat]
    /\ MaxMessageLen \in Nat

VARIABLES
    cancelled, \* ctx is done
    pc,        \* where the thread is
    active,    \* the global `active' is this component
    window,    \* the Pageant window exists
    queue,     \* the thread has a message queue
    quit,      \* WM_QUIT is in it
    watcher,   \* the goroutine that waits for ctx or stop
    stop,      \* the channel `stop' is closed
    ready,     \* what was reported
    failed,    \* Start returns an error
    sender,    \* each client: idle, in SendMessage, or with its result
    request,   \* its request
    current,   \* the client being served
    touched    \* how much of its mapping was read or written

vars == <<cancelled, pc, active, window, queue, quit, watcher, stop, ready, failed,
          sender, request, current, touched>>

threadVars == <<active, window, queue, stop, ready, failed>>
clientVars == <<sender, request, current, touched>>

TypeOK ==
    /\ cancelled \in BOOLEAN /\ active \in BOOLEAN /\ window \in BOOLEAN
    /\ queue \in BOOLEAN /\ quit \in BOOLEAN /\ stop \in BOOLEAN /\ failed \in BOOLEAN
    /\ pc \in {"start", "find", "create", "report", "watch", "get", "check", "map", "read",
               "call", "respond", "copied", "stop", "destroy", "unset", "return", "returned"}
    /\ watcher \in {"none", "waiting", "done"}
    /\ ready \in {"none", "ok", "error"}
    /\ sender \in [Clients -> {"idle", "sent", "ok", "fail"}]
    /\ request \in [Clients -> Requests \cup {None}]
    /\ current \in Clients \cup {None}
    /\ touched \in Nat

Init ==
    /\ cancelled = FALSE
    /\ pc = "start"
    /\ active = FALSE /\ window = FALSE /\ queue = FALSE
    /\ quit = FALSE /\ stop = FALSE /\ failed = FALSE
    /\ watcher = "none"
    /\ ready = "none"
    /\ sender = [c \in Clients |-> "idle"]
    /\ request = [c \in Clients |-> None]
    /\ current = None
    /\ touched = 0

Goto(p) == pc' = p

--------------------------------------------------------------------------------
(* Start, up to the message loop *)

LockActive ==
    /\ pc = "start"
    /\ active' = TRUE
    /\ Goto("find")
    /\ UNCHANGED <<cancelled, window, queue, quit, watcher, stop, ready, failed>>
    /\ UNCHANGED clientVars

(* There is no window of another Pageant, and the class is registered. *)
FindWindow ==
    /\ pc = "find"
    /\ Goto("create")
    /\ UNCHANGED <<cancelled, quit, watcher>> /\ UNCHANGED threadVars /\ UNCHANGED clientVars

(* Creating a window gives the thread its queue. *)
CreateWindow ==
    /\ pc = "create"
    /\ window' = TRUE
    /\ queue' = TRUE
    /\ Goto("report")
    /\ UNCHANGED <<cancelled, active, quit, watcher, stop, ready, failed>>
    /\ UNCHANGED clientVars

(* Another Pageant has the window, or a call fails. *)
StartFails ==
    /\ pc \in {"find", "create"}
    /\ failed' = TRUE
    /\ Goto("unset")
    /\ UNCHANGED <<cancelled, active, window, queue, quit, watcher, stop, ready>>
    /\ UNCHANGED clientVars

ReportReady ==
    /\ pc = "report"
    /\ ready' = "ok"
    /\ Goto("watch")
    /\ UNCHANGED <<cancelled, active, window, queue, quit, watcher, stop, failed>>
    /\ UNCHANGED clientVars

SpawnWatcher ==
    /\ pc = "watch"
    /\ watcher' = "waiting"
    /\ Goto("get")
    /\ UNCHANGED <<cancelled, quit>> /\ UNCHANGED threadVars /\ UNCHANGED clientVars

Cancel ==
    /\ ~cancelled
    /\ cancelled' = TRUE
    /\ UNCHANGED <<pc, quit, watcher>> /\ UNCHANGED threadVars /\ UNCHANGED clientVars

(* Mutant: WM_QUIT reaches the thread only while it waits for messages. *)
WatcherPostsIdle ==
    /\ watcher = "waiting"
    /\ cancelled
    /\ watcher' = "done"
    /\ quit' = (quit \/ pc = "get")
    /\ UNCHANGED <<cancelled, pc>> /\ UNCHANGED threadVars /\ UNCHANGED clientVars

(* PostThreadMessage fails for a thread that has no queue. *)
WatcherPosts ==
    /\ watcher = "waiting"
    /\ cancelled
    /\ watcher' = "done"
    /\ quit' = (quit \/ queue)
    /\ UNCHANGED <<cancelled, pc>> /\ UNCHANGED threadVars /\ UNCHANGED clientVars

WatcherStops ==
    /\ watcher = "waiting"
    /\ stop
    /\ watcher' = "done"
    /\ UNCHANGED <<cancelled, pc, quit>> /\ UNCHANGED threadVars /\ UNCHANGED clientVars

--------------------------------------------------------------------------------
(* The message loop.  GetMessage calls windowProc for what was sent.       *)

Dispatch(c) ==
    /\ pc = "get"
    /\ sender[c] = "sent"
    /\ current' = c
    /\ touched' = 0
    /\ Goto("check")
    /\ UNCHANGED <<cancelled, quit, watcher, sender, request>> /\ UNCHANGED threadVars

GetQuit ==
    /\ pc = "get"
    /\ quit
    /\ quit' = FALSE
    /\ Goto("stop")
    /\ UNCHANGED <<cancelled, watcher>> /\ UNCHANGED threadVars /\ UNCHANGED clientVars

(* Mutant: the error of GetMessage leaves the window. *)
GetMessageFailsOpen ==
    /\ pc = "get"
    /\ failed' = TRUE
    /\ Goto("unset")
    /\ UNCHANGED <<cancelled, active, window, queue, quit, watcher, stop, ready>>
    /\ UNCHANGED clientVars

GetMessageFails ==
    /\ pc = "get"
    /\ failed' = TRUE
    /\ Goto("stop")
    /\ UNCHANGED <<cancelled, active, window, queue, quit, watcher, stop, ready>>
    /\ UNCHANGED clientVars

--------------------------------------------------------------------------------
(* handle, for the current client *)

(* windowProc returns to the client. *)
Answer(result) ==
    /\ sender' = [sender EXCEPT ![current] = result]
    /\ current' = None
    /\ touched' = 0
    /\ Goto("get")
    /\ UNCHANGED <<cancelled, quit, watcher, request>> /\ UNCHANGED threadVars

(* handle goes on, having touched so much of the mapping. *)
Proceed(p, n) ==
    /\ Goto(p)
    /\ touched' = n
    /\ UNCHANGED <<cancelled, quit, watcher, sender, request, current>>
    /\ UNCHANGED threadVars

(* The identifier and the name of the mapping are accepted or not. *)
CheckName ==
    /\ pc = "check"
    /\ Proceed("map", 0) \/ Answer("fail")

(* OpenFileMapping, MapViewOfFile, VirtualQuery *)
MapView ==
    /\ pc = "map"
    /\ \/ request[current].size >= 4 /\ Proceed("read", 4)
       \/ Answer("fail")

(* Mutant: the four bytes of the length are forgotten. *)
ReadRequestShort ==
    /\ pc = "read"
    /\ LET r == request[current]
       IN  IF r.length = 0 \/ r.length > MaxMessageLen \/ r.length > r.size
           THEN Answer("fail")
           ELSE Proceed("call", r.length + 4)

ReadRequest ==
    /\ pc = "read"
    /\ LET r == request[current]
       IN  IF r.length = 0 \/ r.length > MaxMessageLen \/ r.length + 4 > r.size
           THEN Answer("fail")
           ELSE Proceed("call", r.length + 4)

(* ServeAgent: the backend answers, or its error becomes SSH_AGENT_FAILURE. *)
Backend ==
    /\ pc = "call"
    /\ Proceed("respond", touched)

(* windowProc recovers from a panic and returns 0. *)
BackendPanics ==
    /\ pc = "call"
    /\ Answer("fail")

(* The answer, or the five bytes of a failure, is copied if it fits. *)
CopyResponse ==
    /\ pc = "respond"
    /\ \E n \in {request[current].reply, 5} :
          IF n >= 5 /\ n <= request[current].size
          THEN Proceed("copied", IF n > touched THEN n ELSE touched)
          ELSE Answer("fail")

HandleReturns ==
    /\ pc = "copied"
    /\ Answer("ok")

--------------------------------------------------------------------------------
(* The deferred calls *)

CloseStop ==
    /\ pc = "stop"
    /\ stop' = TRUE
    /\ Goto("destroy")
    /\ UNCHANGED <<cancelled, active, window, queue, quit, watcher, ready, failed>>
    /\ UNCHANGED clientVars

(* Mutant: the component is forgotten before the window is destroyed. *)
UnsetFirst ==
    /\ pc = "destroy"
    /\ active' = FALSE
    /\ Goto("unset")
    /\ UNCHANGED <<cancelled, window, queue, quit, watcher, stop, ready, failed>>
    /\ UNCHANGED clientVars

(* A client that waits for the window gets its failure. *)
DestroyWindow ==
    /\ pc = "destroy"
    /\ window' = FALSE
    /\ sender' = [c \in Clients |-> IF sender[c] = "sent" THEN "fail" ELSE sender[c]]
    /\ Goto("unset")
    /\ UNCHANGED <<cancelled, active, queue, quit, watcher, stop, ready, failed, request,
                   current, touched>>

UnsetActive ==
    /\ pc = "unset"
    /\ active' = FALSE
    /\ Goto("return")
    /\ UNCHANGED <<cancelled, window, queue, quit, watcher, stop, ready, failed>>
    /\ UNCHANGED clientVars

(* An error is reported, unless something has been reported before. *)
Return ==
    /\ pc = "return"
    /\ ready' = IF failed /\ ready = "none" THEN "error" ELSE ready
    /\ Goto("returned")
    /\ UNCHANGED <<cancelled, active, window, queue, quit, watcher, stop, failed>>
    /\ UNCHANGED clientVars

--------------------------------------------------------------------------------
(* A client finds the window and sends WM_COPYDATA. *)
Send(c, r) ==
    /\ sender[c] = "idle"
    /\ window
    /\ sender' = [sender EXCEPT ![c] = "sent"]
    /\ request' = [request EXCEPT ![c] = r]
    /\ UNCHANGED <<cancelled, pc, quit, watcher, current, touched>> /\ UNCHANGED threadVars

(* What the thread does by itself, and the request it serves *)
Thread ==
    \/ LockActive \/ FindWindow \/ CreateWindow \/ ReportReady \/ SpawnWatcher
    \/ GetQuit \/ (\E c \in Clients : Dispatch(c))
    \/ CheckName \/ MapView \/ ReadRequest \/ Backend \/ CopyResponse \/ HandleReturns
    \/ CloseStop \/ DestroyWindow \/ UnsetActive \/ Return

Watcher == WatcherPosts \/ WatcherStops

Next ==
    \/ Cancel \/ Thread \/ Watcher
    \/ StartFails \/ GetMessageFails \/ BackendPanics
    \/ \E c \in Clients, r \in Requests : Send(c, r)

(* Threads run and the backend answers; no call need fail. *)
Fairness == WF_vars(Thread) /\ WF_vars(Watcher)

Spec == Init /\ [][Next]_vars /\ Fairness

--------------------------------------------------------------------------------
(* As long as clients can find the window, windowProc finds its component:  *)
(* a request is never left to DefWindowProc (the order of the deferred      *)
(* calls of Start).                                                         *)
WindowHasComponent == window => active

(* Only the client's mapping is read and written, whatever lengths it and   *)
(* the agent announce (the checks of handle before it slices and copies).   *)
InBounds == current # None => touched <= request[current].size

(* Start as its caller sees it *)
Phase ==
    IF pc = "returned" THEN IF failed THEN "failed" ELSE "stopped"
    ELSE IF ready = "ok" THEN "serving" ELSE "starting"

I == INSTANCE Interface WITH phase <- Phase

(* The thread keeps the contract of an interface: it reports exactly once,   *)
(* an error also from the deferred calls; it returns nil only after a        *)
(* cancellation; and a cancellation at any moment ends it, because WM_QUIT   *)
(* is not lost before the loop, during a request or while clients keep       *)
(* sending.                                                                  *)
ImplementsInterface == I!Spec

(* A client is never left in SendMessage, also when the thread fails. *)
SenderReleased ==
    \A c \in Clients : (sender[c] = "sent") ~> (sender[c] # "sent")

================================================================================
