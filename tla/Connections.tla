------------------------------ MODULE Connections ------------------------------
(***************************************************************************)
(* The connections of a listening interface: Start's accept loop, one      *)
(* handler goroutine per connection with the goroutine that closes the     *)
(* connection on a cancellation, and the backend: the keys of the process  *)
(* itself, or a client that opens one connection to the Windows OpenSSH    *)
(* agent for every request.                                                *)
(*                                                                         *)
(* The kind "pipe" is opensshpipe, which counts its handlers and waits for *)
(* them, and which main starts with the embedded backend only; the kind    *)
(* "cygwin" is the Cygwin socket, which starts its handlers without        *)
(* counting them, has a handshake with a deadline first, and serves either *)
(* backend.                                                                *)
(* Nothing bounds the time an agent takes to answer what it has accepted.  *)
(***************************************************************************)

CONSTANTS Conns,  \* connections, at most so many in a behaviour
          Kinds   \* the interfaces

ASSUME KindsAssumption == Kinds \subseteq {"pipe", "cygwin"}

VARIABLES
    kind,      \* the interface
    backend,   \* the backend it was given
    cancelled, \* ctx is done
    loop,      \* Start: accepting, its deferred calls, returned
    listener,  \* the listener is open
    wg,        \* the connections counted in the WaitGroup `clients'
    handler,   \* where the handler of a connection is
    closer,    \* the goroutine that closes the connection on a cancellation
    open,      \* this side of the connection is open
    client,    \* the client: not connected, idle, waiting for an answer, gone
    agent      \* the Windows OpenSSH agent

vars == <<kind, backend, cancelled, loop, listener, wg, handler, closer, open, client, agent>>

Handshaking == {"nonce", "pid"}
Finished == {"none", "done"}

TypeOK ==
    /\ kind \in Kinds
    /\ backend \in {"embedded", "openssh"}
    /\ cancelled \in BOOLEAN
    /\ loop \in {"accept", "ending", "wait", "returned"}
    /\ listener \in BOOLEAN
    /\ wg \subseteq Conns
    /\ handler \in [Conns -> Handshaking \cup Finished \cup {"spawned"} \cup
                       {"read", "local", "dial", "call", "cut", "ok", "fail", "stop", "exit"}]
    /\ closer \in [Conns -> {"none", "waiting", "done"}]
    /\ open \in [Conns -> BOOLEAN]
    /\ client \in [Conns -> {"out", "open", "asked", "gone"}]
    /\ agent \in {"up", "busy", "down"}

Init ==
    /\ kind \in Kinds
    /\ backend \in {"embedded", "openssh"}
    /\ kind = "pipe" => backend = "embedded"   \* newComponents
    /\ cancelled = FALSE
    /\ loop = "accept"
    /\ listener = TRUE
    /\ wg = {}
    /\ handler = [c \in Conns |-> "none"]
    /\ closer = [c \in Conns |-> "none"]
    /\ open = [c \in Conns |-> FALSE]
    /\ client = [c \in Conns |-> "out"]
    /\ agent = "up"

(* The context of the handlers: the named pipe's Start cancels its own. *)
RunDone == cancelled \/ (kind = "pipe" /\ loop \in {"wait", "returned"})

(* The handler of c moves on, and nothing but it. *)
Move(c, pc) ==
    /\ handler' = [handler EXCEPT ![c] = pc]
    /\ UNCHANGED <<kind, backend, cancelled, loop, listener, wg, closer, open, client, agent>>

--------------------------------------------------------------------------------
(* Start *)

Cancel ==
    /\ ~cancelled
    /\ cancelled' = TRUE
    /\ UNCHANGED <<kind, backend, loop, listener, wg, handler, closer, open, client, agent>>

(* The goroutine that waits for the context *)
CloseListener ==
    /\ RunDone
    /\ listener
    /\ listener' = FALSE
    /\ UNCHANGED <<kind, backend, cancelled, loop, wg, handler, closer, open, client, agent>>

(* Mutant: the handler is started before, and without, clients.Add. *)
AcceptUncounted(c) ==
    /\ loop = "accept"
    /\ listener
    /\ client[c] # "out"
    /\ handler[c] = "none"
    /\ handler' = [handler EXCEPT ![c] = "spawned"]
    /\ open' = [open EXCEPT ![c] = TRUE]
    /\ UNCHANGED <<kind, backend, cancelled, loop, listener, wg, closer, client, agent>>

Accept(c) ==
    /\ loop = "accept"
    /\ listener
    /\ client[c] # "out"
    /\ handler[c] = "none"
    /\ handler' = [handler EXCEPT ![c] = "spawned"]
    /\ open' = [open EXCEPT ![c] = TRUE]
    /\ wg' = IF kind = "pipe" THEN wg \cup {c} ELSE wg
    /\ UNCHANGED <<kind, backend, cancelled, loop, listener, closer, client, agent>>

(* Accept fails because the listener was closed, or for another reason. *)
AcceptFails ==
    /\ loop = "accept"
    /\ loop' = "ending"
    /\ UNCHANGED <<kind, backend, cancelled, listener, wg, handler, closer, open, client, agent>>

(* The deferred calls close the listener; the named pipe's also cancel the *)
(* handlers, and then wait for them.                                       *)
EndStart ==
    /\ loop = "ending"
    /\ listener' = FALSE
    /\ loop' = IF kind = "pipe" THEN "wait" ELSE "returned"
    /\ UNCHANGED <<kind, backend, cancelled, wg, handler, closer, open, client, agent>>

ClientsWait ==
    /\ loop = "wait"
    /\ wg = {}
    /\ loop' = "returned"
    /\ UNCHANGED <<kind, backend, cancelled, listener, wg, handler, closer, open, client, agent>>

--------------------------------------------------------------------------------
(* handle *)

(* ServeAgent begins, with the closer beside it. *)
Serve(c) ==
    /\ handler' = [handler EXCEPT ![c] = "read"]
    /\ closer' = [closer EXCEPT ![c] = "waiting"]
    /\ UNCHANGED <<kind, backend, cancelled, loop, listener, wg, open, client, agent>>

Handle(c) ==
    /\ handler[c] = "spawned"
    /\ IF kind = "pipe" THEN Serve(c) ELSE Move(c, "nonce")

(* The client sent the nonce and got it back; or it sent another, or left. *)
ReadNonce(c) ==
    /\ handler[c] = "nonce"
    /\ Move(c, "pid") \/ Move(c, "exit")

ReadPid(c) ==
    /\ handler[c] = "pid"
    /\ Serve(c) \/ Move(c, "exit")

(* Mutant: no deadline is set for the answer to the nonce. *)
NonceTimeout(c) ==
    /\ handler[c] = "nonce"
    /\ Move(c, "exit")

HandshakeTimeout(c) ==
    /\ handler[c] \in Handshaking
    /\ Move(c, "exit")

(* Mutant: nothing closes the connection on a cancellation. *)
CloserIgnores(c) ==
    /\ closer[c] = "waiting"
    /\ RunDone
    /\ closer' = [closer EXCEPT ![c] = "done"]
    /\ UNCHANGED <<kind, backend, cancelled, loop, listener, wg, handler, open, client, agent>>

(* The closer is woken by the context, and closes the connection. *)
CloserCloses(c) ==
    /\ closer[c] = "waiting"
    /\ RunDone
    /\ open' = [open EXCEPT ![c] = FALSE]
    /\ closer' = [closer EXCEPT ![c] = "done"]
    /\ UNCHANGED <<kind, backend, cancelled, loop, listener, wg, handler, client, agent>>

(* The closer is woken because ServeAgent has returned. *)
CloserStops(c) ==
    /\ closer[c] = "waiting"
    /\ handler[c] \in {"stop", "exit", "done"}
    /\ closer' = [closer EXCEPT ![c] = "done"]
    /\ UNCHANGED <<kind, backend, cancelled, loop, listener, wg, handler, open, client, agent>>

ReadRequest(c) ==
    /\ handler[c] = "read"
    /\ open[c]
    /\ client[c] = "asked"
    /\ Move(c, IF backend = "embedded" THEN "local" ELSE "dial")

ReadFails(c) ==
    /\ handler[c] = "read"
    /\ ~open[c] \/ client[c] = "gone"
    /\ Move(c, "stop")

(* The answer is written; a connection that was closed ends ServeAgent. *)
Reply(c) ==
    /\ handler[c] \in {"ok", "fail"}
    /\ IF open[c] /\ client[c] = "asked"
       THEN /\ client' = [client EXCEPT ![c] = "open"]
            /\ handler' = [handler EXCEPT ![c] = "read"]
            /\ UNCHANGED <<kind, backend, cancelled, loop, listener, wg, closer, open, agent>>
       ELSE Move(c, "stop")

(* ServeAgent has returned: the named pipe's handler waits for its closer. *)
StopCloser(c) ==
    /\ handler[c] = "stop"
    /\ kind = "pipe" => closer[c] = "done"
    /\ Move(c, "exit")

(* Mutant: clients.Done is not called. *)
ExitCounted(c) ==
    /\ handler[c] = "exit"
    /\ open' = [open EXCEPT ![c] = FALSE]
    /\ handler' = [handler EXCEPT ![c] = "done"]
    /\ UNCHANGED <<kind, backend, cancelled, loop, listener, wg, closer, client, agent>>

(* The deferred calls: conn.Close, clients.Done *)
Exit(c) ==
    /\ handler[c] = "exit"
    /\ open' = [open EXCEPT ![c] = FALSE]
    /\ handler' = [handler EXCEPT ![c] = "done"]
    /\ wg' = wg \ {c}
    /\ UNCHANGED <<kind, backend, cancelled, loop, listener, closer, client, agent>>

--------------------------------------------------------------------------------
(* The embedded backend answers in the handler's goroutine, or refuses. *)
AnswerHere(c) ==
    /\ handler[c] = "local"
    /\ Move(c, "ok") \/ Move(c, "fail")

(* The backend client: a connection for this request *)

(* Mutant: the connection is one that was kept, perhaps to an agent that    *)
(* has been restarted since.                                               *)
DialKept(c) ==
    /\ handler[c] = "dial"
    /\ agent = "up"
    /\ Move(c, "call") \/ Move(c, "cut")

Dial(c) ==
    /\ handler[c] = "dial"
    /\ agent = "up"
    /\ Move(c, "call")

(* The pipe does not exist, or was busy until the connect timeout. *)
DialFails(c) ==
    /\ handler[c] = "dial"
    /\ agent # "up"
    /\ Move(c, "fail")

CallReturns(c) ==
    /\ handler[c] = "call"
    /\ Move(c, "ok")

(* The agent closed the connection before it answered. *)
CallFails(c) ==
    /\ handler[c] = "cut"
    /\ Move(c, "fail")

--------------------------------------------------------------------------------
(* The clients and the agent *)

Connect(c) ==
    /\ client[c] = "out"
    /\ listener
    /\ client' = [client EXCEPT ![c] = "open"]
    /\ UNCHANGED <<kind, backend, cancelled, loop, listener, wg, handler, closer, open, agent>>

(* A Cygwin client asks only after the handshake. *)
Ask(c) ==
    /\ client[c] = "open"
    /\ kind = "cygwin" => handler[c] \notin Handshaking \cup {"none", "spawned"}
    /\ client' = [client EXCEPT ![c] = "asked"]
    /\ UNCHANGED <<kind, backend, cancelled, loop, listener, wg, handler, closer, open, agent>>

Leave(c) ==
    /\ client[c] \in {"open", "asked"}
    /\ client' = [client EXCEPT ![c] = "gone"]
    /\ UNCHANGED <<kind, backend, cancelled, loop, listener, wg, handler, closer, open, agent>>

(* The agent stops, and with it its connections; it starts; it is busy. *)
AgentChanges(a) ==
    /\ agent' = a
    /\ handler' = [c \in Conns |->
                      IF a = "down" /\ handler[c] = "call" THEN "cut" ELSE handler[c]]
    /\ UNCHANGED <<kind, backend, cancelled, loop, listener, wg, closer, open, client>>

--------------------------------------------------------------------------------
(* What the goroutines of c do by themselves *)
Goroutine(c) ==
    \/ Handle(c) \/ HandshakeTimeout(c) \/ ReadRequest(c) \/ ReadFails(c)
    \/ Reply(c) \/ StopCloser(c) \/ Exit(c)
    \/ AnswerHere(c) \/ Dial(c) \/ DialFails(c) \/ CallFails(c)

Closer(c) == CloserCloses(c) \/ CloserStops(c)

Start == CloseListener \/ EndStart \/ ClientsWait

Next ==
    \/ Cancel \/ Start \/ AcceptFails
    \/ \E c \in Conns :
         \/ Accept(c) \/ Goroutine(c) \/ Closer(c)
         \/ ReadNonce(c) \/ ReadPid(c) \/ CallReturns(c)
         \/ Connect(c) \/ Ask(c) \/ Leave(c)
    \/ \E a \in {"up", "busy", "down"} : AgentChanges(a)

(* Goroutines run, a closed listener makes Accept fail, and deadlines pass.  *)
(* Nothing makes a client speak or the agent answer.                         *)
Fairness ==
    /\ WF_vars(CloseListener) /\ WF_vars(EndStart) /\ WF_vars(ClientsWait)
    /\ WF_vars(~listener /\ AcceptFails)
    /\ \A c \in Conns : WF_vars(Accept(c)) /\ WF_vars(Goroutine(c)) /\ WF_vars(Closer(c))

Spec == Init /\ [][Next]_vars /\ Fairness

--------------------------------------------------------------------------------
NothingRuns == \A c \in Conns : handler[c] \in Finished /\ closer[c] # "waiting"

(* When Start of the named pipe interface has returned, no handler and no   *)
(* closer of it runs: nothing of it is left when the application says that  *)
(* it has stopped (the WaitGroup `clients' and closerDone).                 *)
PipeDrained == (kind = "pipe" /\ loop = "returned") => NothingRuns

(* A cancellation ends Start, whatever the clients do and wherever their    *)
(* handlers are: the named pipe's waits for its handlers, and none of them  *)
(* can wait for the Windows agent; the Cygwin socket's waits for none       *)
(* (newComponents, the deferred calls of Start).                            *)
CancelReturns == cancelled ~> (loop = "returned")

(* A cancellation closes every connection, also one whose request the agent *)
(* never answers and one that is still in the handshake.                    *)
CancelClosesAll ==
    cancelled ~> (loop # "accept" /\ \A c \in Conns : ~open[c])

(* A client that leaves, or does not go on with its handshake, leaves no    *)
(* goroutine behind (the deadline covers both messages of the handshake,    *)
(* and ServeAgent's end stops the closer), unless the agent never answers.  *)
NoGoroutineLeft ==
    \A c \in Conns :
      (handler[c] \in Handshaking \/ (client[c] = "gone" /\ handler[c] # "none"))
        ~> \/ handler[c] = "done" /\ closer[c] # "waiting"
           \/ handler[c] = "call"
           \/ handler[c] = "read" /\ client[c] # "gone"

(* A request that arrives while the agent is up reaches it, whatever        *)
(* happened to the requests before it: no connection to an agent that has   *)
(* been restarted is used again.                                            *)
AgentRecovers ==
    \A c \in Conns :
      (backend = "openssh" /\ agent = "up" /\ handler[c] = "read" /\ client[c] = "asked")
        ~> (handler[c] = "call" \/ agent # "up" \/ RunDone \/ client[c] = "gone")

================================================================================
