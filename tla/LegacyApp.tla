------------------------------- MODULE LegacyApp -------------------------------
(***************************************************************************)
(* old/app.go with old/pkg/wintray and the RunAgent functions: how the     *)
(* replaced version starts and shuts down.  startup runs in a goroutine of *)
(* its own and starts the thread of the tray before it makes the key ring  *)
(* and the agents; the tray's Win32 calls are queued as commands for its   *)
(* thread; shutdown waits for the tray and the agents with one WaitGroup.  *)
(***************************************************************************)
EXTENDS Naturals, Sequences, FiniteSets

CONSTANTS
    Order,     \* the agents the settings switch on, as startup starts them
    Pageant,   \* the one among them that is a window, not a listener
    Notices,   \* bound on the notices of the key ring: one goroutine each
    Own,       \* commands the tray queues before its loop, 8 in the code
    Cap        \* capacity of commandCh, 128 in the code

Agents == {Order[i] : i \in DOMAIN Order}

(* The tray's own commands fit into commandCh, 8 into 128; nothing limits   *)
(* the notices that may come to them before the loop runs.                  *)
ASSUME LegacyAssumption ==
    /\ Order \in Seq(Agents)
    /\ \A i, j \in DOMAIN Order : Order[i] = Order[j] => i = j
    /\ IsFiniteSet(Notices)
    /\ Own \in Nat \ {0} /\ Cap \in Nat \ {0} /\ Own <= Cap

VARIABLES
    startup,   \* where startup is
    left,      \* agents that startup has still to start
    wg,        \* a.wg
    cancelled, \* agentCtx
    agent,     \* where each RunAgent is
    tray,      \* where the goroutine of the tray is
    own,       \* commands onReady has still to queue
    hwnd,      \* ti.hwnd # 0
    chan,      \* the number of commands in commandCh
    queue,     \* messages posted to the tray's thread
    stopped,   \* ti.shuttingDown
    notice,    \* where each goroutine of a notice is
    shutdown,  \* where shutdown is
    early      \* shutdown looked at cancelAgents before startup was through

legacyVars == <<startup, left, wg, cancelled, agent, tray, own, hwnd, chan, queue, stopped,
                notice, shutdown, early>>
ofStart == <<startup, left>>
ofTray == <<tray, own, hwnd, stopped>>
ofShutdown == <<shutdown, cancelled, early>>

LegacyInit ==
    /\ startup = "tray"
    /\ left = Order
    /\ wg = 0
    /\ cancelled = FALSE
    /\ agent = [a \in Agents |-> "off"]
    /\ tray = "off"
    /\ own = Own
    /\ hwnd = FALSE
    /\ chan = 0
    /\ queue = {}
    /\ stopped = FALSE
    /\ notice = [n \in Notices |-> "idle"]
    /\ shutdown = "no"
    /\ early = FALSE

Alive == tray # "fatal"   \* os.Exit has not been called

--------------------------------------------------------------------------------
(* startup *)
StartTray ==
    /\ Alive /\ startup = "tray"
    /\ startup' = "keyRing"
    /\ wg' = wg + 1
    /\ tray' = "window"
    /\ UNCHANGED <<left, agent, own, hwnd, chan, queue, stopped, notice, ofShutdown>>

(* NewKeyRing and AddKeys; the callback is set when the keys are loaded. *)
MakeKeyRing ==
    /\ Alive /\ startup = "keyRing"
    /\ startup' = "context"
    /\ UNCHANGED <<left, wg, agent, ofTray, chan, queue, notice, ofShutdown>>

MakeContext ==
    /\ Alive /\ startup = "context"
    /\ startup' = "agents"
    /\ UNCHANGED <<left, wg, agent, ofTray, chan, queue, notice, ofShutdown>>

(* Mutant: the WaitGroup does not count the agent. *)
StartAgentUncounted(a) ==
    /\ Alive /\ startup = "agents" /\ left # <<>> /\ a = Head(left)
    /\ left' = Tail(left)
    /\ agent' = [agent EXCEPT ![a] = "start"]
    /\ UNCHANGED <<startup, wg, ofTray, chan, queue, notice, ofShutdown>>

StartAgent(a) ==
    /\ Alive /\ startup = "agents" /\ left # <<>> /\ a = Head(left)
    /\ left' = Tail(left)
    /\ wg' = wg + 1
    /\ agent' = [agent EXCEPT ![a] = "start"]
    /\ UNCHANGED <<startup, ofTray, chan, queue, notice, ofShutdown>>

KeyRingMade == startup \in {"context", "agents"}
Started == startup = "agents" /\ left = <<>>

--------------------------------------------------------------------------------
(* The agents.  Their handlers are not counted and not waited for. *)
Returns(a) ==
    /\ agent' = [agent EXCEPT ![a] = "returned"]
    /\ wg' = wg - 1

OfAgent == UNCHANGED <<ofStart, ofTray, chan, queue, notice, ofShutdown>>

(* A listener is opened, after an old socket file has been removed. *)
Listen(a) ==
    /\ Alive /\ a # Pageant /\ agent[a] = "start"
    /\ agent' = [agent EXCEPT ![a] = "serve"]
    /\ UNCHANGED wg /\ OfAgent

ListenFails(a) ==
    /\ Alive /\ a # Pageant /\ agent[a] = "start"
    /\ Returns(a) /\ OfAgent

(* Serve: a goroutine closes the listener when the context is cancelled,    *)
(* and Accept fails.                                                        *)
ServeEnds(a) ==
    /\ Alive /\ a # Pageant /\ agent[a] = "serve" /\ cancelled
    /\ Returns(a) /\ OfAgent

(* Accept fails by itself. *)
AcceptFails(a) ==
    /\ Alive /\ a # Pageant /\ agent[a] = "serve"
    /\ Returns(a) /\ OfAgent

(* Pageant's window, and the watcher of its context, or no window *)
CreatePageant ==
    /\ Alive /\ Pageant \in Agents /\ agent[Pageant] = "start"
    /\ \/ agent' = [agent EXCEPT ![Pageant] = "serve"] /\ UNCHANGED wg
       \/ Returns(Pageant)
    /\ OfAgent

(* startCancelWatcher posts WM_QUIT, which the message loop gets even if it *)
(* was posted before the loop.                                              *)
PageantWatcher ==
    /\ Alive /\ Pageant \in Agents /\ agent[Pageant] = "serve" /\ cancelled
    /\ agent' = [agent EXCEPT ![Pageant] = "quit"]
    /\ UNCHANGED wg /\ OfAgent

PageantLoopEnds ==
    /\ Alive /\ Pageant \in Agents /\ agent[Pageant] = "quit"
    /\ Returns(Pageant) /\ OfAgent

--------------------------------------------------------------------------------
(* The tray's thread. *)

(* Run up to the icon; a failure is shown and ends the process. *)
CreateTray ==
    /\ Alive /\ tray = "window"
    /\ \/ tray' = "ready" /\ hwnd' = TRUE
       \/ tray' = "fatal" /\ UNCHANGED hwnd
    /\ UNCHANGED <<ofStart, wg, agent, own, chan, queue, stopped, notice, ofShutdown>>

(* SetIcon and onReady queue commands, while nobody takes any out.  The     *)
(* tooltip asks the key ring: without one it is a nil dereference, which is *)
(* recovered outside Run, before onExit was deferred.  In a full channel    *)
(* the send blocks for good: the thread that would take commands out is the *)
(* one that sends, and a later ti.Quit does not release it.                 *)
OnReady ==
    /\ Alive /\ tray = "ready" /\ own > 0
    /\ \/ /\ own = Own - 1 /\ ~KeyRingMade
          /\ tray' = "panicked"
          /\ UNCHANGED <<own, chan, queue>>
       \/ /\ own = Own - 1 => KeyRingMade
          /\ stopped
          /\ own' = own - 1
          /\ UNCHANGED <<tray, chan, queue>>
       \/ /\ own = Own - 1 => KeyRingMade
          /\ ~stopped /\ chan < Cap
          /\ own' = own - 1
          /\ chan' = chan + 1
          /\ queue' = queue \cup {"command"}
          /\ UNCHANGED tray
       \/ /\ own = Own - 1 => KeyRingMade
          /\ ~stopped /\ chan = Cap
          /\ tray' = "blocked"
          /\ UNCHANGED <<own, chan, queue>>
    /\ UNCHANGED <<ofStart, wg, agent, hwnd, stopped, notice, ofShutdown>>

EnterLoop ==
    /\ Alive /\ tray = "ready" /\ own = 0
    /\ tray' = "loop"
    /\ UNCHANGED <<ofStart, wg, agent, own, hwnd, chan, queue, stopped, notice, ofShutdown>>

(* trayCommandMessage: handleCommands runs all that are there.  Messages of *)
(* one kind are one: the first empties the channel.                         *)
HandleCommands ==
    /\ Alive /\ tray = "loop" /\ "command" \in queue
    /\ queue' = queue \ {"command"}
    /\ chan' = 0
    /\ UNCHANGED <<ofStart, wg, agent, ofTray, notice, ofShutdown>>

(* WM_CLOSE destroys the window, and WM_DESTROY posts WM_QUIT. *)
TrayCloses ==
    /\ Alive /\ tray = "loop" /\ "close" \in queue
    /\ queue' = {"quit"}
    /\ UNCHANGED <<ofStart, wg, agent, ofTray, chan, notice, ofShutdown>>

(* Dispose, and the deferred onExit: the log is closed before wg.Done. *)
TrayExits ==
    /\ Alive /\ tray = "loop" /\ "quit" \in queue
    /\ tray' = "returned"
    /\ wg' = wg - 1
    /\ queue' = {}
    /\ UNCHANGED <<ofStart, agent, own, hwnd, chan, stopped, notice, ofShutdown>>

(* Another program closes the window. *)
CloseFromOutside ==
    /\ Alive /\ tray = "loop" /\ "quit" \notin queue
    /\ queue' = queue \cup {"close"}
    /\ UNCHANGED <<ofStart, wg, agent, ofTray, chan, notice, ofShutdown>>

--------------------------------------------------------------------------------
(* Notices of the key ring, in goroutines: the tooltip or a balloon. *)
Notify(n) ==
    /\ Alive /\ notice[n] = "idle" /\ \E a \in Agents : agent[a] = "serve"
    /\ notice' = [notice EXCEPT ![n] = IF stopped THEN "done" ELSE "send"]
    /\ UNCHANGED <<ofStart, wg, agent, ofTray, chan, queue, ofShutdown>>

(* ch <- cmd, after the lock was released *)
Send(n) ==
    /\ Alive /\ notice[n] = "send" /\ chan < Cap
    /\ chan' = chan + 1
    /\ notice' = [notice EXCEPT ![n] = "post"]
    /\ UNCHANGED <<ofStart, wg, agent, ofTray, queue, ofShutdown>>

(* Mutant: the tray's thread is not told. *)
PostNothing(n) ==
    /\ Alive /\ notice[n] = "post"
    /\ notice' = [notice EXCEPT ![n] = "done"]
    /\ UNCHANGED <<ofStart, wg, agent, ofTray, chan, queue, ofShutdown>>

(* PostMessage, unless there is no window; a window that is gone gets none. *)
PostCommand(n) ==
    /\ Alive /\ notice[n] = "post"
    /\ notice' = [notice EXCEPT ![n] = "done"]
    /\ queue' = IF hwnd /\ tray \in {"ready", "blocked", "loop"} /\ "quit" \notin queue
                THEN queue \cup {"command"} ELSE queue
    /\ UNCHANGED <<ofStart, wg, agent, ofTray, chan, ofShutdown>>

--------------------------------------------------------------------------------
(* runtime.Quit: Wails calls shutdown, which runs once. *)
Quit ==
    /\ Alive /\ shutdown = "no"
    /\ shutdown' = "cancel"
    /\ UNCHANGED <<ofStart, wg, agent, ofTray, chan, queue, notice, cancelled, early>>

(* The tray's goroutine quits when Run has ended in any way. *)
TrayQuits == tray \in {"returned", "panicked"} /\ Quit

(* The menu, and the end of the session *)
UserQuits == tray \notin {"returned", "panicked"} /\ Quit

(* Mutant: shutdown does not cancel the agents. *)
CancelNobody ==
    /\ Alive /\ shutdown = "cancel"
    /\ shutdown' = "quit"
    /\ UNCHANGED <<cancelled, early, ofStart, wg, agent, ofTray, chan, queue, notice>>

(* cancelAgents, if startup has set it *)
CancelAgents ==
    /\ Alive /\ shutdown = "cancel"
    /\ shutdown' = "quit"
    /\ cancelled' = (startup = "agents")
    /\ early' = ~Started
    /\ UNCHANGED <<ofStart, wg, agent, ofTray, chan, queue, notice>>

(* ti.Quit, if there is a tray: stopCommandQueue, and WM_CLOSE is posted to *)
(* the window; without one it goes to the calling thread.                   *)
QuitTray ==
    /\ Alive /\ shutdown = "quit"
    /\ shutdown' = "wait"
    /\ stopped' = (startup # "tray")
    /\ queue' = IF hwnd /\ tray \in {"ready", "blocked", "loop"} /\ "quit" \notin queue
                THEN queue \cup {"close"} ELSE queue
    /\ UNCHANGED <<ofStart, wg, agent, tray, own, hwnd, chan, notice, cancelled, early>>

(* a.wg.Wait *)
ShutdownReturns ==
    /\ Alive /\ shutdown = "wait" /\ wg = 0
    /\ shutdown' = "returned"
    /\ UNCHANGED <<ofStart, wg, agent, ofTray, chan, queue, notice, cancelled, early>>

--------------------------------------------------------------------------------
StartupStep == StartTray \/ MakeKeyRing \/ MakeContext \/ \E a \in Agents : StartAgent(a)
AgentStep == \/ CreatePageant \/ PageantWatcher \/ PageantLoopEnds
             \/ \E a \in Agents : Listen(a) \/ ListenFails(a) \/ ServeEnds(a) \/ AcceptFails(a)
TrayStep == CreateTray \/ OnReady \/ EnterLoop \/ HandleCommands \/ TrayCloses \/ TrayExits
NoticeStep == \E n \in Notices : Notify(n) \/ Send(n) \/ PostCommand(n)
ShutdownStep == CancelAgents \/ QuitTray \/ ShutdownReturns

LegacyNext == StartupStep \/ AgentStep \/ TrayStep \/ NoticeStep \/ ShutdownStep
              \/ TrayQuits \/ UserQuits \/ CloseFromOutside

(* The goroutines run; nothing makes a listener fail, a notice arrive or    *)
(* the application quit.                                                    *)
LegacySpec ==
    /\ LegacyInit /\ [][LegacyNext]_legacyVars
    /\ WF_legacyVars(StartTray \/ MakeKeyRing \/ MakeContext)
    /\ \A a \in Agents :
         /\ WF_legacyVars(StartAgent(a)) /\ WF_legacyVars(Listen(a) \/ ListenFails(a)) /\ WF_legacyVars(ServeEnds(a))
    /\ WF_legacyVars(CreatePageant \/ PageantWatcher \/ PageantLoopEnds)
    /\ WF_legacyVars(CreateTray \/ OnReady \/ EnterLoop)
    /\ WF_legacyVars(HandleCommands) /\ WF_legacyVars(TrayCloses) /\ WF_legacyVars(TrayExits)
    /\ \A n \in Notices : WF_legacyVars(Send(n) \/ PostCommand(n))
    /\ WF_legacyVars(TrayQuits) /\ WF_legacyVars(ShutdownStep)

--------------------------------------------------------------------------------
(* A command is run in the end, also one that was queued before there was a *)
(* window to post to, as long as the loop runs (enqueueCommand sends before *)
(* it posts; handleCommands empties the channel).                           *)
CommandsRun == (tray = "loop" /\ chan > 0) ~> (chan = 0 \/ shutdown # "no" \/ tray = "returned"
                                               \/ "quit" \in queue)

(* The notices that have sent their command. *)
Sent == {n \in Notices : notice[n] \in {"post", "done"}}

(* When startup is through and the tray has its window, shutdown returns,   *)
(* whatever agents have failed; and when the tray ends by itself the whole  *)
(* application does (a.Quit after Run, cancelAgents, ti.Quit, the           *)
(* WaitGroup).  The exception is a tray whose thread blocks in onReady, for *)
(* which more notices than commandCh has places besides the tray's own      *)
(* commands must have come before the loop (the send in enqueueCommand).    *)
ShutdownEnds ==
    (Started /\ ~early /\ (tray = "returned" \/ (tray \in {"ready", "loop"} /\ shutdown = "cancel")))
        ~> (shutdown = "returned" \/ (tray = "blocked" /\ Cardinality(Sent) > Cap - Own))

(* When shutdown returns no agent serves any more and the tray's thread has *)
(* let its icon go, unless shutdown overtook startup (cancelAgents is nil). *)
NothingLeft ==
    (shutdown = "returned" /\ ~early) =>
        /\ \A a \in Agents : agent[a] \in {"off", "returned"}
        /\ tray \in {"off", "returned"}

================================================================================
