--------------------------------- MODULE WslMux --------------------------------
(***************************************************************************)
(* old/cmd/wsl2-ssh-agent-proxy: connections to a Unix socket in WSL are   *)
(* multiplexed over the standard input and output of one PowerShell        *)
(* process, which speaks to the agent's named pipe on Windows (pwsh.ps1).  *)
(*                                                                         *)
(* A connection has a reader and a writer goroutine and a Go channel that  *)
(* readLoop fills.  Its handler reaches the multiplexer through            *)
(* ps.Multiplexer, which is nil before the first PowerShell has started    *)
(* and is replaced when PowerShell was started again.                      *)
(*                                                                         *)
(* Requests are <<connection, number>>; the workers of pwsh.ps1 answer the *)
(* packets of one channel in order and those of different channels in any. *)
(***************************************************************************)
EXTENDS Naturals, Sequences, FiniteSets

CONSTANTS
    Conns,    \* connections
    MaxGen,   \* bound on the PowerShell processes
    ChanCap,  \* capacity of a Go channel, 10 in the code
    MaxReq,   \* bound on the requests of each connection
    PipeCap   \* bound on the packets on their way

None == "none"

ASSUME MuxAssumption ==
    /\ None \notin Conns
    /\ ChanCap \in Nat /\ MaxReq \in [Conns -> Nat] /\ PipeCap \in Nat
    /\ IsFiniteSet(Conns) /\ MaxGen \in Nat \ {0}

VARIABLES
    proc,   \* mux: generation of ps.Multiplexer, 0 is nil; listen: generation of listenLoop;
            \* next: channelID; end: why the proxy has ended
    link,   \* per generation: ps: PowerShell; to, from: its pipes; chans: mux.channels;
            \* hold: what readLoop is about to send; done: ctx.Done()
    conn    \* per connection: sock, id, gen: of its ctx, home: of its channel; chan, buf: its
            \* channel; rd, wr: its goroutines; sent, read, got: its requests

vars == <<proc, link, conn>>

Gens == 1 .. MaxGen
Ids == 1 .. Cardinality(Conns)
Empty == <<>>   \* the payload that is written after a read error

NoLink == [ps |-> "off", to |-> <<>>, from |-> <<>>, chans |-> [i \in Ids |-> None],
           hold |-> <<>>, done |-> FALSE]
NoConn == [sock |-> "none", id |-> 1, gen |-> 0, home |-> 0, chan |-> "none", buf |-> <<>>,
           rd |-> "off", wr |-> "off", sent |-> 0, read |-> 0, got |-> <<>>]

Init ==
    /\ proc = [mux |-> 0, listen |-> 1, next |-> 1, end |-> "no"]
    /\ link = [g \in Gens |-> NoLink]
    /\ conn = [c \in Conns |-> NoConn]

Running == proc.end = "no"

--------------------------------------------------------------------------------
(* The PowerShell process and its supervision. *)

(* startPowerShellProces: a new Multiplexer, or a failure that cancels ctx *)
StartPowerShell(g) ==
    /\ Running /\ proc.listen = g /\ link[g].ps = "off"
    /\ \/ /\ link' = [link EXCEPT ![g].ps = "up"]
          /\ proc' = [proc EXCEPT !.mux = g]
       \/ /\ link' = [link EXCEPT ![g].ps = "down", ![g].done = TRUE]
          /\ UNCHANGED proc
    /\ UNCHANGED conn

(* Mutant: the channel number is not advanced. *)
AcceptSameId(c) ==
    /\ Running /\ conn[c].sock = "none"
    /\ conn' = [conn EXCEPT ![c].sock = "open", ![c].id = proc.next, ![c].gen = proc.listen]
    /\ proc' = IF link[proc.listen].done /\ proc.listen + 1 \in Gens
               THEN [proc EXCEPT !.listen = @ + 1, !.next = 1] ELSE proc
    /\ UNCHANGED link

(* listenLoop: a connection is accepted and handled; only then is ctx      *)
(* looked at, and main starts the next PowerShell with channel 1 again.    *)
Accept(c) ==
    /\ Running /\ conn[c].sock = "none"
    /\ conn' = [conn EXCEPT ![c].sock = "open", ![c].id = proc.next, ![c].gen = proc.listen]
    /\ proc' = IF link[proc.listen].done /\ proc.listen + 1 \in Gens
               THEN [proc EXCEPT !.listen = @ + 1, !.next = 1]
               ELSE [proc EXCEPT !.next = @ + 1]
    /\ UNCHANGED link

(* handleConnection: OpenChannel on the current Multiplexer, then the      *)
(* goroutines; without a Multiplexer it is a nil dereference.              *)
HandleConnection(c) ==
    /\ Running /\ conn[c].sock # "none" /\ conn[c].rd = "off"
    /\ IF proc.mux = 0
       THEN proc' = [proc EXCEPT !.end = "nil"] /\ UNCHANGED <<link, conn>>
       ELSE /\ conn' = [conn EXCEPT ![c].chan = "open", ![c].home = proc.mux,
                                    ![c].rd = "connect", ![c].wr = "range"]
            /\ link' = [link EXCEPT ![proc.mux].chans[conn[c].id] = c]
            /\ UNCHANGED proc

(* sigStopWorker: killPwsh and os.Exit *)
Signal ==
    /\ Running
    /\ proc' = [proc EXCEPT !.end = "exit"]
    /\ link' = [g \in Gens |-> NoLink]
    /\ conn' = [c \in Conns |-> NoConn]

--------------------------------------------------------------------------------
(* The multiplexer. *)

(* Mutant: the channel stays in the map. *)
CloseChannelKeeps(l, cs, g, i) ==
    LET c == l[g].chans[i]
    IN  IF c = None THEN link' = l /\ conn' = cs /\ UNCHANGED proc
        ELSE /\ proc' = IF conn[c].chan = "closed" THEN [proc EXCEPT !.end = "panic"] ELSE proc
             /\ conn' = [cs EXCEPT ![c].chan = "closed"]
             /\ link' = l

(* CloseChannel, from the state l, cs: close and delete under one lock; to *)
(* close a closed channel would panic.                                     *)
CloseChannel(l, cs, g, i) ==
    LET c == l[g].chans[i]
    IN  IF c = None THEN link' = l /\ conn' = cs /\ UNCHANGED proc
        ELSE /\ proc' = IF conn[c].chan = "closed" THEN [proc EXCEPT !.end = "panic"] ELSE proc
             /\ conn' = [cs EXCEPT ![c].chan = "closed"]
             /\ link' = [l EXCEPT ![g].chans[i] = None]

(* readLoop: the channel of a packet of type Send is looked up under the   *)
(* lock and used after it; a packet for an unknown channel is dropped.     *)
ReadPacket(g) ==
    /\ Running /\ link[g].hold = <<>> /\ link[g].from # <<>>
    /\ LET p == Head(link[g].from)
           c == link[g].chans[p.id]
           l == [link EXCEPT ![g].from = Tail(@)]
       IN  \/ p.type = "close" /\ CloseChannel(l, conn, g, p.id)
           \/ /\ p.type # "close"
              /\ link' = IF c = None THEN l ELSE [l EXCEPT ![g].hold = <<c, p.req>>]
              /\ UNCHANGED <<proc, conn>>

(* Mutant: the channel has one place less. *)
ChanFullEarly(c) == Len(conn[c].buf) >= ChanCap - 1

(* make(chan []byte, 10) *)
ChanFull(c) == Len(conn[c].buf) >= ChanCap

(* ch <- payload: it blocks readLoop while the channel is full and panics  *)
(* when it has been closed since the look-up.                              *)
Deliver(g) ==
    /\ Running /\ link[g].hold # <<>>
    /\ LET c == link[g].hold[1]
       IN  IF conn[c].chan = "closed"
           THEN proc' = [proc EXCEPT !.end = "panic"] /\ UNCHANGED <<link, conn>>
           ELSE /\ ~ChanFull(c)
                /\ conn' = [conn EXCEPT ![c].buf = Append(@, link[g].hold[2])]
                /\ link' = [link EXCEPT ![g].hold = <<>>]
                /\ UNCHANGED proc

(* readLoop returns at the end of the output, and cancels ctx. *)
ReadLoopEnds(g) ==
    /\ Running /\ link[g].ps = "down" /\ link[g].from = <<>> /\ link[g].hold = <<>>
    /\ ~link[g].done
    /\ link' = [link EXCEPT ![g].done = TRUE]
    /\ UNCHANGED <<proc, conn>>

(* WriteChannel writes to the current PowerShell, in one call; the error   *)
(* of a broken pipe is ignored.                                            *)
Room == link[proc.mux].ps = "down" \/ Len(link[proc.mux].to) < PipeCap
WriteChannel(type, i, req) ==
    /\ Room
    /\ link' = IF link[proc.mux].ps = "down" THEN link
               ELSE [link EXCEPT ![proc.mux].to = Append(@, [type |-> type, id |-> i, req |-> req])]

--------------------------------------------------------------------------------
(* The goroutines of a connection. *)
PacketType(c) == IF conn[c].rd = "connect" THEN "connect" ELSE "send"
AfterRead(c) == IF link[conn[c].gen].done THEN "sendClose" ELSE "read"
Reading(c) == Running /\ conn[c].rd \in {"connect", "read", "eof"}

(* A request of the client is passed on; then ctx is looked at. *)
PassRequest(c) ==
    /\ Reading(c) /\ conn[c].sock # "closed" /\ conn[c].read < conn[c].sent
    /\ WriteChannel(PacketType(c), conn[c].id, <<c, conn[c].read + 1>>)
    /\ conn' = [conn EXCEPT ![c].read = @ + 1, ![c].rd = AfterRead(c)]
    /\ UNCHANGED proc

(* An error other than io.EOF is passed on as an empty packet: again and   *)
(* again when the writer has closed the connection, once before io.EOF     *)
(* when the client has left in the middle of something.                    *)
PassError(c) ==
    /\ Reading(c)
    /\ \/ conn[c].sock = "closed"
       \/ conn[c].sock = "left" /\ conn[c].read = conn[c].sent /\ conn[c].rd # "eof"
    /\ WriteChannel(PacketType(c), conn[c].id, Empty)
    /\ conn' = [conn EXCEPT ![c].rd = IF conn[c].sock = "left" /\ AfterRead(c) = "read"
                                     THEN "eof" ELSE AfterRead(c)]
    /\ UNCHANGED proc

(* io.EOF *)
ReadEOF(c) ==
    /\ Reading(c) /\ conn[c].sock = "left" /\ conn[c].read = conn[c].sent
    /\ conn' = [conn EXCEPT ![c].rd = "sendClose"]
    /\ UNCHANGED <<proc, link>>

(* The deferred calls of the reader. *)
SendClose(c) ==
    /\ Running /\ conn[c].rd = "sendClose"
    /\ WriteChannel("close", conn[c].id, Empty)
    /\ conn' = [conn EXCEPT ![c].rd = "closeChannel"]
    /\ UNCHANGED proc

ReaderReturns(c) ==
    /\ Running /\ conn[c].rd = "closeChannel"
    /\ CloseChannel(link, [conn EXCEPT ![c].rd = "done"], proc.mux, conn[c].id)

(* The writer: range ch.  The error of a client that is gone is found when  *)
(* the answer is larger than the buffer, or else by the answer after it,    *)
(* because the error of Flush is ignored.                                   *)
Ranging(c) == Running /\ conn[c].wr \in {"range", "broken"}

WriteAnswer(c) ==
    /\ Ranging(c) /\ conn[c].buf # <<>>
    /\ \/ /\ conn[c].sock = "open"
          /\ conn' = [conn EXCEPT ![c].buf = Tail(@), ![c].got = Append(@, Head(conn[c].buf))]
       \/ /\ conn[c].sock # "open" /\ conn[c].wr = "range"
          /\ conn' = [conn EXCEPT ![c].buf = Tail(@), ![c].wr = "broken"]
       \/ /\ conn[c].sock # "open"
          /\ conn' = [conn EXCEPT ![c].buf = Tail(@), ![c].wr = "done", ![c].sock = "closed"]
    /\ UNCHANGED <<proc, link>>

(* The channel is closed and empty: conn.Close is deferred. *)
WriterReturns(c) ==
    /\ Ranging(c) /\ conn[c].buf = <<>> /\ conn[c].chan = "closed"
    /\ conn' = [conn EXCEPT ![c].wr = "done", ![c].sock = "closed"]
    /\ UNCHANGED <<proc, link>>

--------------------------------------------------------------------------------
(* pwsh.ps1: a packet is answered by the worker of its channel, after the  *)
(* earlier ones of that channel, or the worker stops and says so.          *)
Without(s, k) == SubSeq(s, 1, k - 1) \o SubSeq(s, k + 1, Len(s))
First(g, k) == \A j \in 1 .. k - 1 : link[g].to[j].id # link[g].to[k].id

Answer(g, k) ==
    /\ Running /\ link[g].ps = "up" /\ k \in DOMAIN link[g].to /\ First(g, k)
    /\ Len(link[g].from) < PipeCap
    /\ LET p == link[g].to[k]
       IN  \E type \in IF p.req = Empty THEN {"close"} ELSE {"send", "close"} :
             link' = [link EXCEPT ![g].to = Without(@, k),
                                  ![g].from = Append(@, [p EXCEPT !.type = type])]
    /\ UNCHANGED <<proc, conn>>

PowerShellDies(g) ==
    /\ Running /\ link[g].ps = "up"
    /\ link' = [link EXCEPT ![g].ps = "down", ![g].to = <<>>]
    /\ UNCHANGED <<proc, conn>>

(* Clients. *)
Ask(c) ==
    /\ Running /\ conn[c].sock = "open" /\ conn[c].sent < MaxReq[c]
    /\ conn' = [conn EXCEPT ![c].sent = @ + 1]
    /\ UNCHANGED <<proc, link>>

Leave(c) ==
    /\ Running /\ conn[c].sock = "open"
    /\ conn' = [conn EXCEPT ![c].sock = "left"]
    /\ UNCHANGED <<proc, link>>

--------------------------------------------------------------------------------
OfConnection(c) ==
    \/ Accept(c) \/ HandleConnection(c) \/ PassRequest(c) \/ PassError(c) \/ ReadEOF(c)
    \/ SendClose(c) \/ ReaderReturns(c) \/ WriteAnswer(c) \/ WriterReturns(c)
    \/ Ask(c) \/ Leave(c)

OfLink(g) ==
    \/ StartPowerShell(g) \/ ReadPacket(g) \/ Deliver(g) \/ ReadLoopEnds(g)
    \/ PowerShellDies(g) \/ \E k \in 1 .. PipeCap : Answer(g, k)

Next == Signal \/ (\E c \in Conns : OfConnection(c)) \/ (\E g \in Gens : OfLink(g))

Spec == Init /\ [][Next]_vars

--------------------------------------------------------------------------------
(* PowerShell has not been started again.  Afterwards the channel numbers   *)
(* start at 1 once more, while the handlers of the old connections go on    *)
(* using theirs with the new Multiplexer.                                   *)
FirstPowerShell == proc.listen = 1

(* A client gets the answers to its own requests, in their order, whatever  *)
(* the workers of PowerShell do; when PowerShell has been started again it  *)
(* gets answers for its channel number only, which an old connection may    *)
(* share (channelID, readLoop's look-up, the Go channels).                  *)
AnswersAreOwn ==
    \A c \in Conns : \A n \in DOMAIN conn[c].got :
        /\ conn[conn[c].got[n][1]].id = conn[c].id
        /\ FirstPowerShell => conn[c].got[n] = <<c, n>>

(* With the first PowerShell, the proxy panics only when a client has left, *)
(* or was closed by PowerShell, with a request open: CloseChannel is safe   *)
(* against being called by the reader and by readLoop, and readLoop's       *)
(* unlocked send meets a closed channel only then.                          *)
PanicNeedsLeaver ==
    (proc.end = "panic" /\ FirstPowerShell) =>
        \E c \in Conns : conn[c].sock \in {"left", "closed"} /\ Len(conn[c].got) < conn[c].sent

(* readLoop is blocked by a full channel, and with it every other client,   *)
(* only when the channel's connection has passed on more requests than the  *)
(* channel has places and has no answer to them: a client that waits for    *)
(* its answers, or stops reading with fewer requests open, blocks nobody    *)
(* (first PowerShell; make(chan []byte, 10) and the send in readLoop).      *)
BlockedByBacklog ==
    FirstPowerShell => \A g \in Gens : link[g].hold # <<>> =>
        LET c == link[g].hold[1]
        IN  ChanFull(c) => conn[c].read - Len(conn[c].got) > ChanCap

================================================================================
