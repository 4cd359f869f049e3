--------------------------- MODULE ConnectionsProofs ---------------------------
(***************************************************************************)
(* For any set of connections: when Start of the named pipe interface has  *)
(* returned, none of its goroutines runs.                                  *)
(***************************************************************************)
EXTENDS Connections, TLAPS

(* Every handler of the named pipe is counted until it has ended. *)
Counted == kind = "pipe" => \A c \in Conns : handler[c] \notin Finished => c \in wg

(* A closer runs only beside ServeAgent: the handler waits for it to end. *)
CloserBeside ==
    kind = "pipe" =>
      \A c \in Conns : closer[c] = "waiting" =>
        handler[c] \in {"read", "local", "dial", "call", "cut", "ok", "fail", "stop"}

(* Its Start returns only when nothing is counted, and accepts nothing after. *)
NobodyCounted == (kind = "pipe" /\ loop = "returned") => wg = {}

Inv == TypeOK /\ Counted /\ CloserBeside /\ NobodyCounted

--------------------------------------------------------------------------------
(* A step of one handler from a place where it is counted to another *)
LEMMA MoveKeeps ==
  ASSUME Inv, NEW c \in Conns, handler[c] \notin Finished,
         NEW pc \in {"nonce", "pid", "local", "dial", "call", "ok", "fail", "stop", "exit"},
         (kind = "pipe" /\ pc \in {"nonce", "pid", "exit"}) => closer[c] # "waiting",
         Move(c, pc)
  PROVE  Inv'
<1>1. TypeOK'
  BY DEF Inv, TypeOK, Move, Handshaking, Finished
<1> QED
  BY <1>1 DEF Inv, TypeOK, Counted, CloserBeside, NobodyCounted, Move, Finished

LEMMA ServeKeeps ==
  ASSUME Inv, NEW c \in Conns, handler[c] \notin Finished, Serve(c)
  PROVE  Inv'
<1>1. TypeOK'
  BY DEF Inv, TypeOK, Serve
<1> QED
  BY <1>1 DEF Inv, TypeOK, Counted, CloserBeside, NobodyCounted, Serve, Finished

(* The steps of Start, the clients and the agent *)
LEMMA StartKeeps ==
  ASSUME Inv,
         \/ Cancel \/ Start \/ AcceptFails
         \/ \E c \in Conns : Accept(c) \/ Connect(c) \/ Ask(c) \/ Leave(c)
         \/ \E a \in {"up", "busy", "down"} : AgentChanges(a)
  PROVE  Inv'
<1>1. CASE Cancel \/ Start \/ AcceptFails
  BY <1>1 DEF Inv, TypeOK, Counted, CloserBeside, NobodyCounted, Cancel, Start,
     CloseListener, EndStart, ClientsWait, AcceptFails
<1>2. ASSUME NEW c \in Conns, Accept(c) PROVE Inv'
  <2>1. TypeOK'
    BY <1>2 DEF Inv, TypeOK, Accept
  <2> QED
    BY <1>2, <2>1 DEF Inv, TypeOK, Counted, CloserBeside, NobodyCounted, Accept, Finished
<1>3. ASSUME NEW c \in Conns, Connect(c) \/ Ask(c) \/ Leave(c) PROVE Inv'
  BY <1>3 DEF Inv, TypeOK, Counted, CloserBeside, NobodyCounted, Connect, Ask, Leave
<1>4. ASSUME NEW a \in {"up", "busy", "down"}, AgentChanges(a) PROVE Inv'
  <2>1. TypeOK'
    BY <1>4 DEF Inv, TypeOK, AgentChanges
  <2> QED
    BY <1>4, <2>1 DEF Inv, TypeOK, Counted, CloserBeside, NobodyCounted, AgentChanges,
       Finished
<1> QED  BY <1>1, <1>2, <1>3, <1>4

(* The steps of a handler and of its closer *)
LEMMA GoroutineKeeps ==
  ASSUME Inv, NEW c \in Conns,
         Goroutine(c) \/ Closer(c) \/ ReadNonce(c) \/ ReadPid(c) \/ CallReturns(c)
  PROVE  Inv'
<1>1. CASE Handle(c)
  BY <1>1, ServeKeeps, MoveKeeps DEF Handle, Finished
<1>2. CASE HandshakeTimeout(c)
  <2>1. (kind = "pipe" => closer[c] # "waiting") /\ handler[c] \notin Finished
    BY <1>2 DEF Inv, CloserBeside, HandshakeTimeout, Handshaking, Finished
  <2> QED  BY <1>2, <2>1, MoveKeeps DEF HandshakeTimeout
<1>3. CASE ReadNonce(c)
  <2>1. (kind = "pipe" => closer[c] # "waiting") /\ handler[c] \notin Finished
    BY <1>3 DEF Inv, CloserBeside, ReadNonce, Finished
  <2> QED  BY <1>3, <2>1, MoveKeeps DEF ReadNonce
<1>4. CASE ReadPid(c)
  <2>1. (kind = "pipe" => closer[c] # "waiting") /\ handler[c] \notin Finished
    BY <1>4 DEF Inv, CloserBeside, ReadPid, Finished
  <2> QED  BY <1>4, <2>1, MoveKeeps, ServeKeeps DEF ReadPid
<1>5. CASE ReadRequest(c) \/ ReadFails(c) \/ AnswerHere(c)
  BY <1>5, MoveKeeps DEF ReadRequest, ReadFails, AnswerHere, Finished
<1>6. CASE Dial(c) \/ DialFails(c) \/ CallReturns(c) \/ CallFails(c)
  BY <1>6, MoveKeeps DEF Dial, DialFails, CallReturns, CallFails, Finished
<1>7. CASE Reply(c)
  <2>1. CASE open[c] /\ client[c] = "asked"
    <3>1. TypeOK'
      BY <1>7, <2>1 DEF Inv, TypeOK, Reply
    <3> QED
      BY <1>7, <2>1, <3>1 DEF Inv, TypeOK, Counted, CloserBeside, NobodyCounted, Reply,
         Finished
  <2>2. CASE ~(open[c] /\ client[c] = "asked")
    BY <1>7, <2>2, MoveKeeps DEF Reply, Finished
  <2> QED  BY <2>1, <2>2
<1>8. CASE StopCloser(c)
  BY <1>8, MoveKeeps DEF StopCloser, Finished
<1>9. CASE Exit(c)
  <2>1. TypeOK'
    BY <1>9 DEF Inv, TypeOK, Exit, Finished
  <2> QED
    BY <1>9, <2>1 DEF Inv, TypeOK, Counted, CloserBeside, NobodyCounted, Exit, Finished
<1>10. CASE CloserCloses(c) \/ CloserStops(c)
  <2>1. TypeOK'
    BY <1>10 DEF Inv, TypeOK, CloserCloses, CloserStops
  <2> QED
    BY <1>10, <2>1 DEF Inv, TypeOK, Counted, CloserBeside, NobodyCounted, CloserCloses,
       CloserStops
<1> QED
  BY <1>1, <1>2, <1>3, <1>4, <1>5, <1>6, <1>7, <1>8, <1>9, <1>10 DEF Goroutine, Closer

LEMMA InvHolds == Spec => []Inv
<1>1. Init => Inv
  <2>1. Init => TypeOK
    <3> SUFFICES ASSUME Init PROVE TypeOK
      OBVIOUS
    <3>1. handler \in [Conns -> Finished] /\ closer \in [Conns -> {"none", "waiting", "done"}]
      BY DEF Init, Finished
    <3>2. open \in [Conns -> BOOLEAN] /\ client \in [Conns -> {"out", "open", "asked", "gone"}]
      BY DEF Init
    <3> QED
      BY <3>1, <3>2 DEF Init, TypeOK
  <2>2. Init => Counted /\ CloserBeside /\ NobodyCounted
    BY DEF Init, Counted, CloserBeside, NobodyCounted, Finished
  <2> QED  BY <2>1, <2>2 DEF Inv
<1>2. Inv /\ [Next]_vars => Inv'
  <2> SUFFICES ASSUME Inv, [Next]_vars PROVE Inv'
    OBVIOUS
  <2>1. CASE UNCHANGED vars
    BY <2>1 DEF Inv, TypeOK, Counted, CloserBeside, NobodyCounted, vars
  <2>2. CASE Next
    BY <2>2, StartKeeps, GoroutineKeeps DEF Next
  <2> QED  BY <2>1, <2>2
<1> QED  BY <1>1, <1>2, PTL DEF Spec

(* PipeDrained for any set of connections: Start of the named pipe         *)
(* interface returns only when every handler and every closer has ended    *)
(* (the WaitGroup and closerDone).                                         *)
THEOREM PipeIsDrained == Spec => []PipeDrained
<1>1. Inv => PipeDrained
  BY DEF Inv, PipeDrained, NothingRuns, Counted, CloserBeside, NobodyCounted, Finished
<1> QED  BY <1>1, InvHolds, PTL

================================================================================
