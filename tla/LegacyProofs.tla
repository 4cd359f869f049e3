----------------------------- MODULE LegacyProofs ------------------------------
(***************************************************************************)
(* Proofs about the programs under old/: the WSL2 proxy (WslMux) and, at   *)
(* the end, the application (LegacyApp), whose shutdown waits for exactly  *)
(* what was started (LegacyInv).                                           *)
(*                                                                         *)
(* The invariants of the proxy are about everything an answer passes       *)
(* through: the pipe to PowerShell, the pipe from it, the hands of         *)
(* readLoop, the Go channel and the client.                                *)
(*                                                                         *)
(*   - OwnInv: whatever is on this way carries the number of its handler;  *)
(*   - FirstInv: with the first PowerShell the numbers are different, a    *)
(*     registered channel is open, and readers give up for a reason only;  *)
(*   - DataInv: with the first PowerShell the requests of a connection are *)
(*     on this way in their order, without a gap while it is registered    *)
(*     and its client is there.                                            *)
(*                                                                         *)
(* One lemma per action says what the action changes, field by field; the  *)
(* lemmas about the parts of the invariant cite those.                     *)
(***************************************************************************)
EXTENDS WslMux, LegacyApp, TLAPS, FiniteSetTheorems, SequenceTheorems

(* The types of WslMux.  A request is its connection and its number, a packet *)
(* that comes from PowerShell without one says that a channel is closed.      *)
Reqs == Conns \X Nat
Packets(types) == [type : types, id : Ids, req : Reqs \cup {Empty}]
Outgoing == Packets({"connect", "send", "close"})
Incoming == {p \in Packets({"send", "close"}) : p.req = Empty => p.type = "close"}

(* proc *)
Procs == [mux : 0 .. MaxGen, listen : Gens, next : Nat \ {0},
          end : {"no", "nil", "exit", "panic"}]

(* one generation of link *)
Links == [ps : {"off", "up", "down"}, to : Seq(Outgoing), from : Seq(Incoming),
          chans : [Ids -> Conns \cup {None}],
          hold : {<<>>} \cup (Conns \X Reqs), done : BOOLEAN]

(* the handler of one connection *)
Handlers == [sock : {"none", "open", "left", "closed"}, id : Ids, gen : 0 .. MaxGen,
             home : 0 .. MaxGen, chan : {"none", "open", "closed"}, buf : Seq(Reqs),
             rd : {"off", "connect", "read", "eof", "sendClose", "closeChannel", "done"},
             wr : {"off", "range", "broken", "done"}, sent : Nat, read : Nat, got : Seq(Reqs)]

(* The type invariant of the proxy. *)
MuxTypeOK == proc \in Procs /\ link \in [Gens -> Links] /\ conn \in [Conns -> Handlers]

(* The connections that were accepted have the first channel numbers. *)
Accepted == {c \in Conns : conn[c].sock # "none"}
NextIsFree == proc.next <= Cardinality(Accepted) + 1

(* Nothing happens for a connection before its handler runs. *)
Fresh ==
    \A c \in Conns :
      /\ conn[c].sock = "none" => conn[c].rd = "off"
      /\ conn[c].rd = "off" => /\ conn[c].buf = <<>> /\ conn[c].got = <<>>
                               /\ conn[c].read = 0 /\ conn[c].chan = "none"
      /\ conn[c].rd # "off" => proc.mux # 0

(* Without removes the element at k and moves the later ones down. *)
LEMMA WithoutType ==
  ASSUME NEW S, NEW s \in Seq(S), NEW k \in 1 .. Len(s)
  PROVE  /\ Without(s, k) \in Seq(S) /\ Len(Without(s, k)) = Len(s) - 1
         /\ \A j \in 1 .. Len(s) - 1 : Without(s, k)[j] = s[IF j < k THEN j ELSE j + 1]
<1> DEFINE a == SubSeq(s, 1, k - 1)
           b == SubSeq(s, k + 1, Len(s))
<1>0. k \in Nat /\ Len(s) \in Nat
  OBVIOUS
<1>1. a \in Seq(S) /\ b \in Seq(S)
  OBVIOUS
<1>2. Len(a) = k - 1 /\ Len(b) = Len(s) - k
  OBVIOUS
<1>3. \A j \in 1 .. k - 1 : a[j] = s[j]
  OBVIOUS
<1>4. \A j \in 1 .. Len(s) - k : b[j] = s[k + j]
  OBVIOUS
<1> HIDE DEF a, b
<1>5. a \o b \in Seq(S) /\ Len(a \o b) = Len(s) - 1
  <2>1. a \o b \in Seq(S) /\ Len(a \o b) = Len(a) + Len(b)
    BY <1>1, ConcatProperties
  <2> QED  BY <2>1, <1>0, <1>2
<1>6. ASSUME NEW j \in 1 .. Len(s) - 1 PROVE (a \o b)[j] = s[IF j < k THEN j ELSE j + 1]
  <2>1. (a \o b)[j] = IF j <= k - 1 THEN a[j] ELSE b[j - (k - 1)]
    BY <1>1, <1>2, ConcatProperties
  <2>2. CASE j < k
    BY <2>1, <2>2, <1>3
  <2>3. CASE ~(j < k)
    BY <2>1, <2>3, <1>4
  <2> QED BY <2>2, <2>3
<1> QED  BY <1>5, <1>6 DEF Without, a, b

(* The elements of a sequence with one more at the end *)
LEMMA AppendAt ==
  ASSUME NEW S, NEW s \in Seq(S), NEW e \in S
  PROVE  /\ Append(s, e) \in Seq(S) /\ Len(Append(s, e)) = Len(s) + 1
         /\ \A k \in DOMAIN s : k \in DOMAIN Append(s, e) /\ Append(s, e)[k] = s[k]
         /\ Len(s) + 1 \in DOMAIN Append(s, e) /\ Append(s, e)[Len(s) + 1] = e
         /\ \A k \in DOMAIN Append(s, e) :
              \/ k \in DOMAIN s /\ k <= Len(s) /\ Append(s, e)[k] = s[k]
              \/ k = Len(s) + 1 /\ Append(s, e)[k] = e
  OBVIOUS

(* The elements of a sequence without its first *)
LEMMA TailAt ==
  ASSUME NEW S, NEW s \in Seq(S), s # <<>>
  PROVE  /\ Tail(s) \in Seq(S) /\ Len(Tail(s)) = Len(s) - 1
         /\ 1 \in DOMAIN s /\ Head(s) = s[1] /\ s[1] \in S
         /\ \A k \in DOMAIN Tail(s) : k + 1 \in DOMAIN s /\ Tail(s)[k] = s[k + 1]
         /\ \A k \in DOMAIN s : k # 1 => k - 1 \in DOMAIN Tail(s) /\ Tail(s)[k - 1] = s[k]
  OBVIOUS

(* There is a channel number as soon as there is a connection. *)
LEMMA IdsInit == \A c \in Conns : 1 \in Ids
<1>1. ASSUME NEW c \in Conns PROVE Cardinality(Conns) # 0 /\ Cardinality(Conns) \in Nat
  BY <1>1, MuxAssumption, FS_EmptySet, FS_CardinalityType
<1> QED BY <1>1 DEF Ids

(* Accept has a channel number within Ids: fewer numbers were given out than *)
(* there are connections.                                                    *)
LEMMA NextId ==
  ASSUME MuxTypeOK, NextIsFree, NEW c \in Conns, conn[c].sock = "none"
  PROVE  proc.next \in Ids
<1>1. Accepted \subseteq Conns /\ c \notin Accepted
  BY DEF Accepted
<1>2. /\ Cardinality(Accepted) \in Nat /\ Cardinality(Conns) \in Nat
      /\ Cardinality(Accepted) < Cardinality(Conns)
  BY <1>1, MuxAssumption, FS_Subset, FS_CardinalityType
<1> QED BY <1>2 DEF NextIsFree, Ids, MuxTypeOK, Procs

(* The updates of one handler and of one link keep their types. *)
LEMMA ConnTypes ==
  ASSUME NEW cs \in [Conns -> Handlers], NEW c \in Conns
  PROVE  /\ \A i \in Ids, g \in 0 .. MaxGen :
              [cs EXCEPT ![c].sock = "open", ![c].id = i, ![c].gen = g] \in [Conns -> Handlers]
         /\ \A g \in 0 .. MaxGen :
              [cs EXCEPT ![c].chan = "open", ![c].home = g, ![c].rd = "connect",
                         ![c].wr = "range"] \in [Conns -> Handlers]
         /\ [cs EXCEPT ![c].chan = "closed"] \in [Conns -> Handlers]
         /\ [cs EXCEPT ![c].sock = "left"] \in [Conns -> Handlers]
         /\ [cs EXCEPT ![c].wr = "done", ![c].sock = "closed"] \in [Conns -> Handlers]
         /\ \A x \in Nat : [cs EXCEPT ![c].sent = x] \in [Conns -> Handlers]
         /\ \A r \in {"eof", "read", "sendClose", "closeChannel", "done"} :
              /\ [cs EXCEPT ![c].rd = r] \in [Conns -> Handlers]
              /\ \A x \in Nat : [cs EXCEPT ![c].read = x, ![c].rd = r] \in [Conns -> Handlers]
         /\ \A b \in Seq(Reqs) :
              /\ [cs EXCEPT ![c].buf = b] \in [Conns -> Handlers]
              /\ [cs EXCEPT ![c].buf = b, ![c].wr = "broken"] \in [Conns -> Handlers]
              /\ [cs EXCEPT ![c].buf = b, ![c].wr = "done", ![c].sock = "closed"]
                   \in [Conns -> Handlers]
              /\ \A x \in Seq(Reqs) :
                   [cs EXCEPT ![c].buf = b, ![c].got = x] \in [Conns -> Handlers]
<1>1. cs[c] \in Handlers
  OBVIOUS
<1>2. \A i \in Ids, g \in 0 .. MaxGen :
        [cs EXCEPT ![c].sock = "open", ![c].id = i, ![c].gen = g] \in [Conns -> Handlers]
  BY <1>1, Zenon DEF Handlers
<1>3. \A g \in 0 .. MaxGen :
        [cs EXCEPT ![c].chan = "open", ![c].home = g, ![c].rd = "connect", ![c].wr = "range"]
          \in [Conns -> Handlers]
  BY <1>1, Zenon DEF Handlers
<1>4. [cs EXCEPT ![c].chan = "closed"] \in [Conns -> Handlers]
  BY <1>1, Zenon DEF Handlers
<1>5. [cs EXCEPT ![c].sock = "left"] \in [Conns -> Handlers]
  BY <1>1, Zenon DEF Handlers
<1>6. [cs EXCEPT ![c].wr = "done", ![c].sock = "closed"] \in [Conns -> Handlers]
  BY <1>1, Zenon DEF Handlers
<1>7. \A x \in Nat : [cs EXCEPT ![c].sent = x] \in [Conns -> Handlers]
  BY <1>1, Zenon DEF Handlers
<1>8. \A r \in {"eof", "read", "sendClose", "closeChannel", "done"} :
        [cs EXCEPT ![c].rd = r] \in [Conns -> Handlers]
  BY <1>1, Zenon DEF Handlers
<1>9. \A r \in {"eof", "read", "sendClose", "closeChannel", "done"}, x \in Nat :
        [cs EXCEPT ![c].read = x, ![c].rd = r] \in [Conns -> Handlers]
  BY <1>1, Zenon DEF Handlers
<1>10. \A b \in Seq(Reqs) : [cs EXCEPT ![c].buf = b] \in [Conns -> Handlers]
  BY <1>1, Zenon DEF Handlers
<1>11. \A b \in Seq(Reqs) :
         [cs EXCEPT ![c].buf = b, ![c].wr = "broken"] \in [Conns -> Handlers]
  BY <1>1, Zenon DEF Handlers
<1>12. \A b \in Seq(Reqs) :
         [cs EXCEPT ![c].buf = b, ![c].wr = "done", ![c].sock = "closed"]
           \in [Conns -> Handlers]
  BY <1>1, Zenon DEF Handlers
<1>13. \A b \in Seq(Reqs), x \in Seq(Reqs) :
         [cs EXCEPT ![c].buf = b, ![c].got = x] \in [Conns -> Handlers]
  BY <1>1, Zenon DEF Handlers
<1> QED
  BY <1>2, <1>3, <1>4, <1>5, <1>6, <1>7, <1>8, <1>9, <1>10, <1>11, <1>12, <1>13, Zenon

(* The updates of one link keep its type. *)
LEMMA LinkTypes ==
  ASSUME NEW ls \in [Gens -> Links], NEW g \in Gens
  PROVE  /\ [ls EXCEPT ![g].ps = "up"] \in [Gens -> Links]
         /\ [ls EXCEPT ![g].ps = "down", ![g].done = TRUE] \in [Gens -> Links]
         /\ [ls EXCEPT ![g].done = TRUE] \in [Gens -> Links]
         /\ [ls EXCEPT ![g].hold = <<>>] \in [Gens -> Links]
         /\ \A i \in Ids, c \in Conns \cup {None} :
              [ls EXCEPT ![g].chans[i] = c] \in [Gens -> Links]
         /\ \A x \in Conns \X Reqs : [ls EXCEPT ![g].hold = x] \in [Gens -> Links]
         /\ \A s \in Seq(Incoming) : [ls EXCEPT ![g].from = s] \in [Gens -> Links]
         /\ [ls EXCEPT ![g].ps = "down", ![g].to = <<>>] \in [Gens -> Links]
         /\ \A s \in Seq(Outgoing) :
              /\ [ls EXCEPT ![g].to = s] \in [Gens -> Links]
              /\ \A x \in Seq(Incoming) :
                   [ls EXCEPT ![g].to = s, ![g].from = x] \in [Gens -> Links]
<1>1. ls[g] \in Links /\ <<>> \in Seq(Outgoing)
  OBVIOUS
<1>2. \A i \in Ids, c \in Conns \cup {None} :
        [ls[g].chans EXCEPT ![i] = c] \in [Ids -> Conns \cup {None}]
  BY <1>1 DEF Links
<1> QED BY <1>1, <1>2, Zenon DEF Links

(* The updates of proc keep its type. *)
LEMMA ProcTypes ==
  ASSUME NEW p \in Procs
  PROVE  /\ \A e \in {"nil", "exit", "panic"} : [p EXCEPT !.end = e] \in Procs
         /\ \A g \in Gens : [p EXCEPT !.mux = g] \in Procs
         /\ [p EXCEPT !.next = @ + 1] \in Procs
         /\ p.listen + 1 \in Gens => [p EXCEPT !.listen = @ + 1, !.next = 1] \in Procs
<1>1. /\ \A g \in Gens : g \in 0 .. MaxGen
      /\ 1 \in Nat \ {0} /\ p.next + 1 \in Nat \ {0}
  BY DEF Procs, Gens
<1> QED BY <1>1, Zenon DEF Procs

(* The initial state is well typed. *)
LEMMA TypeInit == Init => MuxTypeOK
<1> SUFFICES ASSUME Init PROVE MuxTypeOK
  OBVIOUS
<1> USE MuxAssumption DEF Init, Gens
<1>1. NoLink \in Links
  BY DEF NoLink, Links
<1>2. ASSUME NEW c \in Conns PROVE NoConn \in Handlers
  BY <1>2, IdsInit DEF NoConn, Handlers
<1> QED BY <1>1, <1>2 DEF MuxTypeOK, Procs

(* Every action keeps the types. *)
LEMMA TypeStep ==
  ASSUME MuxTypeOK, NextIsFree, Fresh, [Next]_vars
  PROVE  MuxTypeOK'
<1>a. proc \in Procs /\ link \in [Gens -> Links] /\ conn \in [Conns -> Handlers]
  BY DEF MuxTypeOK
<1>b. \A c \in Conns : conn[c] \in Handlers
  BY DEF MuxTypeOK
<1>l. \A g \in Gens : link[g] \in Links
  BY DEF MuxTypeOK
<1>1. ASSUME NEW c \in Conns, Accept(c) PROVE MuxTypeOK'
  <2>1. proc.listen \in 0 .. MaxGen /\ proc.next \in Ids
    BY <1>1, NextId DEF MuxTypeOK, Procs, Gens, Accept
  <2>2. conn' \in [Conns -> Handlers]
    BY <1>1, <1>a, <2>1, ConnTypes, Zenon DEF Accept
  <2>3. proc' \in Procs
    BY <1>1, <1>a, ProcTypes DEF Accept
  <2> QED BY <1>1, <2>2, <2>3 DEF Accept, MuxTypeOK
<1>2. ASSUME NEW c \in Conns, HandleConnection(c) PROVE MuxTypeOK'
  <2>1. CASE proc.mux = 0
    BY <1>2, <2>1 DEF HandleConnection, MuxTypeOK, Procs
  <2>2. CASE proc.mux # 0
    <3>1. proc.mux \in Gens /\ conn[c].id \in Ids /\ proc.mux \in 0 .. MaxGen
      BY <1>b, <2>2, MuxAssumption DEF MuxTypeOK, Procs, Gens, Handlers
    <3>2. /\ conn' = [conn EXCEPT ![c].chan = "open", ![c].home = proc.mux,
                                  ![c].rd = "connect", ![c].wr = "range"]
          /\ link' = [link EXCEPT ![proc.mux].chans[conn[c].id] = c]
      BY <1>2, <2>2 DEF HandleConnection
    <3>3. conn' \in [Conns -> Handlers]
      BY <1>a, <3>1, <3>2, ConnTypes, ZenonT(40)
    <3>4. link' \in [Gens -> Links]
      BY <1>a, <3>1, <3>2, LinkTypes, Zenon
    <3> QED BY <1>2, <2>2, <3>3, <3>4 DEF HandleConnection, MuxTypeOK
  <2> QED BY <2>1, <2>2
<1>3. ASSUME NEW c \in Conns, NEW r \in Reqs \cup {Empty}, NEW t \in {"connect", "send", "close"},
             conn[c].rd # "off", WriteChannel(t, conn[c].id, r)
      PROVE  link' \in [Gens -> Links]
  <2>1. proc.mux \in Gens
    BY <1>3, MuxAssumption DEF MuxTypeOK, Procs, Gens, Fresh
  <2>2. [type |-> t, id |-> conn[c].id, req |-> r] \in Outgoing
    BY <1>3, <1>b DEF Outgoing, Packets, Handlers
  <2>3. Append(link[proc.mux].to, [type |-> t, id |-> conn[c].id, req |-> r]) \in Seq(Outgoing)
    BY <2>1, <2>2, <1>l DEF Links
  <2> QED BY <1>3, <1>a, <2>1, <2>3, LinkTypes DEF WriteChannel, MuxTypeOK
<1>4. ASSUME NEW c \in Conns, PassRequest(c) PROVE MuxTypeOK'
  <2>1. conn[c].read + 1 \in Nat /\ AfterRead(c) \in {"eof", "read", "sendClose"}
        /\ PacketType(c) \in {"connect", "send", "close"}
    BY <1>b DEF Handlers, AfterRead, PacketType
  <2>2. conn' \in [Conns -> Handlers]
    BY <1>4, <1>a, <2>1, ConnTypes, ZenonT(40) DEF PassRequest
  <2>3. link' \in [Gens -> Links]
    BY <1>4, <2>1, <1>3 DEF PassRequest, Reading, Reqs
  <2> QED BY <1>4, <2>2, <2>3 DEF PassRequest, MuxTypeOK
<1>5. ASSUME NEW c \in Conns, PassError(c) PROVE MuxTypeOK'
  <2>1. AfterRead(c) \in {"eof", "read", "sendClose"}
        /\ PacketType(c) \in {"connect", "send", "close"}
    BY DEF AfterRead, PacketType
  <2>2. conn' \in [Conns -> Handlers]
    BY <1>5, <1>a, <2>1, ConnTypes, ZenonT(40) DEF PassError
  <2>3. link' \in [Gens -> Links]
    BY <1>5, <2>1, <1>3 DEF PassError, Reading
  <2> QED BY <1>5, <2>2, <2>3 DEF PassError, MuxTypeOK
<1>6. ASSUME NEW c \in Conns, ReadEOF(c) PROVE MuxTypeOK'
  <2>1. conn' \in [Conns -> Handlers]
    BY <1>6, <1>a, ConnTypes, Zenon DEF ReadEOF
  <2> QED BY <1>6, <2>1 DEF ReadEOF, MuxTypeOK
<1>7. ASSUME NEW c \in Conns, SendClose(c) PROVE MuxTypeOK'
  <2>2. conn' \in [Conns -> Handlers]
    BY <1>7, <1>a, ConnTypes, Zenon DEF SendClose
  <2>3. link' \in [Gens -> Links]
    BY <1>7, <1>3 DEF SendClose
  <2> QED BY <1>7, <2>2, <2>3 DEF SendClose, MuxTypeOK
<1>8. ASSUME NEW g \in Gens, NEW i \in Ids, NEW l \in [Gens -> Links],
             NEW cs \in [Conns -> Handlers], CloseChannel(l, cs, g, i)
      PROVE  MuxTypeOK'
  <2>1. CASE l[g].chans[i] = None
    BY <1>8, <2>1 DEF CloseChannel, MuxTypeOK
  <2>2. CASE l[g].chans[i] # None
    <3>1. l[g].chans[i] \in Conns
      BY <1>8, <2>2 DEF Links
    <3>2. /\ conn' = [cs EXCEPT ![l[g].chans[i]].chan = "closed"]
          /\ link' = [l EXCEPT ![g].chans[i] = None]
      BY <1>8, <2>2 DEF CloseChannel
    <3>3. conn' \in [Conns -> Handlers]
      BY <3>1, <3>2, ConnTypes, Zenon
    <3>4. link' \in [Gens -> Links]
      BY <3>2, LinkTypes, Zenon
    <3>5. proc' \in Procs
      BY <1>8, <1>a, <2>2, ProcTypes DEF CloseChannel
    <3> QED BY <3>3, <3>4, <3>5 DEF MuxTypeOK
  <2> QED BY <2>1, <2>2
<1>9. ASSUME NEW c \in Conns, ReaderReturns(c) PROVE MuxTypeOK'
  <2>1. proc.mux \in Gens /\ conn[c].id \in Ids
    BY <1>9, <1>b, MuxAssumption DEF ReaderReturns, MuxTypeOK, Procs, Gens, Fresh, Handlers
  <2>2. [conn EXCEPT ![c].rd = "done"] \in [Conns -> Handlers]
    BY <1>a, ConnTypes, Zenon
  <2>3. CloseChannel(link, [conn EXCEPT ![c].rd = "done"], proc.mux, conn[c].id)
    BY <1>9 DEF ReaderReturns
  <2>4. link \in [Gens -> Links]
    BY DEF MuxTypeOK
  <2> QED BY <2>1, <2>2, <2>3, <2>4, <1>8
<1>10. ASSUME NEW c \in Conns, WriteAnswer(c) PROVE MuxTypeOK'
  <2>1. Tail(conn[c].buf) \in Seq(Reqs) /\ Append(conn[c].got, Head(conn[c].buf)) \in Seq(Reqs)
    BY <1>10, <1>b DEF WriteAnswer, Handlers
  <2>2. ASSUME conn' = [conn EXCEPT ![c].buf = Tail(@), ![c].got = Append(@, Head(conn[c].buf))]
        PROVE  conn' \in [Conns -> Handlers]
    BY <1>a, <2>1, <2>2, ConnTypes, Zenon
  <2>3. ASSUME conn' = [conn EXCEPT ![c].buf = Tail(@), ![c].wr = "broken"]
        PROVE  conn' \in [Conns -> Handlers]
    BY <1>a, <2>1, <2>3, ConnTypes, Zenon
  <2>4. ASSUME conn' = [conn EXCEPT ![c].buf = Tail(@), ![c].wr = "done", ![c].sock = "closed"]
        PROVE  conn' \in [Conns -> Handlers]
    BY <1>a, <2>1, <2>4, ConnTypes, Zenon
  <2>5. conn' \in [Conns -> Handlers]
    BY <1>10, <2>2, <2>3, <2>4 DEF WriteAnswer
  <2> QED BY <1>10, <2>5 DEF WriteAnswer, MuxTypeOK
<1>11. ASSUME NEW c \in Conns, WriterReturns(c) \/ Ask(c) \/ Leave(c) PROVE MuxTypeOK'
  <2>1. conn[c].sent + 1 \in Nat
    BY <1>b DEF Handlers
  <2>2. conn' \in [Conns -> Handlers]
    <3>1. CASE WriterReturns(c)
      BY <3>1, <1>a, ConnTypes, Zenon DEF WriterReturns
    <3>2. CASE Ask(c)
      BY <3>2, <1>a, <2>1, ConnTypes, Zenon DEF Ask
    <3>3. CASE Leave(c)
      BY <3>3, <1>a, ConnTypes, Zenon DEF Leave
    <3> QED BY <1>11, <3>1, <3>2, <3>3
  <2> QED BY <1>11, <2>2 DEF WriterReturns, Ask, Leave, MuxTypeOK
<1>12. CASE Signal
  <2>1. proc' \in Procs
    BY <1>12 DEF Signal, MuxTypeOK, Procs
  <2>2. NoLink \in Links
    BY DEF NoLink, Links
  <2>3. \A c \in Conns : NoConn \in Handlers
    BY IdsInit, MuxAssumption DEF NoConn, Handlers
  <2> QED BY <1>12, <2>1, <2>2, <2>3 DEF Signal, MuxTypeOK
<1>13. ASSUME NEW g \in Gens, StartPowerShell(g) PROVE MuxTypeOK'
  <2>1. proc' \in Procs
    <3>1. proc' = proc \/ proc' = [proc EXCEPT !.mux = g]
      BY <1>13 DEF StartPowerShell
    <3> QED BY <1>a, <3>1, ProcTypes
  <2>2. [link EXCEPT ![g].ps = "up"] \in [Gens -> Links]
        /\ [link EXCEPT ![g].ps = "down", ![g].done = TRUE] \in [Gens -> Links]
    BY <1>a, LinkTypes
  <2> QED BY <1>13, <2>1, <2>2 DEF StartPowerShell, MuxTypeOK
<1>14. ASSUME NEW g \in Gens, ReadPacket(g) PROVE MuxTypeOK'
  <2> DEFINE p == Head(link[g].from)
             l == [link EXCEPT ![g].from = Tail(@)]
  <2>1. p \in Incoming /\ Tail(link[g].from) \in Seq(Incoming)
    BY <1>14, <1>l DEF ReadPacket, Links
  <2>2. l \in [Gens -> Links]
    BY <2>1, <1>a, LinkTypes, Zenon
  <2>3. CASE p.type = "close" /\ CloseChannel(l, conn, g, p.id)
    <3>1. p.id \in Ids /\ conn \in [Conns -> Handlers]
      BY <2>1 DEF Incoming, Packets, MuxTypeOK
    <3> HIDE DEF l, p
    <3> QED BY <2>2, <2>3, <3>1, <1>8
  <2>4. CASE /\ p.type # "close"
             /\ link' = IF link[g].chans[p.id] = None THEN l
                        ELSE [l EXCEPT ![g].hold = <<link[g].chans[p.id], p.req>>]
             /\ UNCHANGED <<proc, conn>>
    <3>1. p.req \in Reqs /\ p.id \in Ids
      BY <2>1, <2>4 DEF Incoming, Packets
    <3>2. link[g].chans[p.id] # None => <<link[g].chans[p.id], p.req>> \in Conns \X Reqs
      BY <1>l, <3>1 DEF Links
    <3> HIDE DEF l, p
    <3>3. link' \in [Gens -> Links]
      BY <2>2, <2>4, <3>2, LinkTypes, Zenon
    <3> QED BY <2>4, <3>3 DEF MuxTypeOK
  <2> QED BY <1>14, <2>3, <2>4 DEF ReadPacket
<1>15. ASSUME NEW g \in Gens, Deliver(g) PROVE MuxTypeOK'
  <2>1. link[g].hold \in Conns \X Reqs
    BY <1>15, <1>l DEF Deliver, Links
  <2>2. link[g].hold[1] \in Conns /\ link[g].hold[2] \in Reqs
    BY <2>1
  <2>3. CASE conn[link[g].hold[1]].chan = "closed"
    BY <1>15, <2>3 DEF Deliver, MuxTypeOK, Procs
  <2>4. CASE conn[link[g].hold[1]].chan # "closed"
    <3>1. Append(conn[link[g].hold[1]].buf, link[g].hold[2]) \in Seq(Reqs)
      BY <2>2, <1>b DEF Handlers
    <3>2. /\ conn' = [conn EXCEPT ![link[g].hold[1]].buf = Append(@, link[g].hold[2])]
          /\ link' = [link EXCEPT ![g].hold = <<>>]
      BY <1>15, <2>4 DEF Deliver
    <3>3. conn' \in [Conns -> Handlers]
      BY <1>a, <2>2, <3>1, <3>2, ConnTypes, ZenonT(40)
    <3>4. link' \in [Gens -> Links]
      BY <1>a, <3>2, LinkTypes, Zenon
    <3> QED BY <1>15, <2>4, <3>3, <3>4 DEF Deliver, MuxTypeOK
  <2> QED BY <2>3, <2>4
<1>16. ASSUME NEW g \in Gens, ReadLoopEnds(g) \/ PowerShellDies(g) PROVE MuxTypeOK'
  <2>2. link' \in [Gens -> Links]
    <3>1. CASE ReadLoopEnds(g)
      BY <3>1, <1>a, LinkTypes, Zenon DEF ReadLoopEnds
    <3>2. CASE PowerShellDies(g)
      BY <3>2, <1>a, LinkTypes, Zenon DEF PowerShellDies
    <3> QED BY <1>16, <3>1, <3>2
  <2> QED BY <1>16, <2>2 DEF ReadLoopEnds, PowerShellDies, MuxTypeOK
<1>17. ASSUME NEW g \in Gens, NEW k \in 1 .. PipeCap, Answer(g, k) PROVE MuxTypeOK'
  <2>1. link[g].to \in Seq(Outgoing) /\ k \in 1 .. Len(link[g].to)
    BY <1>17, <1>l DEF Answer, Links
  <2>2. PICK t \in IF link[g].to[k].req = Empty THEN {"close"} ELSE {"send", "close"} :
          link' = [link EXCEPT ![g].to = Without(@, k),
                               ![g].from = Append(@, [link[g].to[k] EXCEPT !.type = t])]
    BY <1>17 DEF Answer
  <2>3. [link[g].to[k] EXCEPT !.type = t] \in Incoming
    <3>1. link[g].to[k] \in Outgoing /\ t \in {"send", "close"}
      BY <2>1, <2>2
    <3>2. [link[g].to[k] EXCEPT !.type = t] \in Packets({"send", "close"})
      BY <3>1 DEF Outgoing, Packets
    <3>3. [link[g].to[k] EXCEPT !.type = t].req = link[g].to[k].req
          /\ [link[g].to[k] EXCEPT !.type = t].type = t
      BY <3>1 DEF Outgoing, Packets
    <3> QED BY <2>2, <3>2, <3>3 DEF Incoming
  <2>4. Append(link[g].from, [link[g].to[k] EXCEPT !.type = t]) \in Seq(Incoming)
    BY <2>3, <1>l DEF Links
  <2>5. Without(link[g].to, k) \in Seq(Outgoing)
    BY <2>1, WithoutType
  <2>6. link' \in [Gens -> Links]
    BY <2>2, <2>4, <2>5, <1>a, LinkTypes, Zenon
  <2> QED BY <1>17, <2>6 DEF Answer, MuxTypeOK
<1>18. CASE UNCHANGED vars
  BY <1>18 DEF vars, MuxTypeOK
<1>19. ASSUME NEW c \in Conns, OfConnection(c) PROVE MuxTypeOK'
  BY <1>19, <1>1, <1>2, <1>4, <1>5, <1>6, <1>7, <1>9, <1>10, <1>11 DEF OfConnection
<1>20. ASSUME NEW g \in Gens, OfLink(g) PROVE MuxTypeOK'
  BY <1>20, <1>13, <1>14, <1>15, <1>16, <1>17 DEF OfLink
<1> QED BY <1>12, <1>18, <1>19, <1>20 DEF Next

--------------------------------------------------------------------------------
(* c has a handler, and i is its channel number *)
Sender(c, i) == conn[c].rd # "off" /\ conn[c].id = i

(* A packet on its way carries the number of the handler that wrote it. *)
PacketsOwned ==
    \A g \in Gens, c \in Conns, n \in Nat :
      /\ \A k \in DOMAIN link[g].to :
           link[g].to[k].req = <<c, n>> => Sender(c, link[g].to[k].id)
      /\ \A k \in DOMAIN link[g].from :
           link[g].from[k].req = <<c, n>> => Sender(c, link[g].from[k].id)

(* mux.channels has every handler under its own number. *)
ChansOwned ==
    \A g \in Gens, i \in Ids, c \in Conns : link[g].chans[i] = c => Sender(c, i)

(* What readLoop holds for c was asked by a handler with the number of c. *)
HoldOwned ==
    \A g \in Gens, c, d \in Conns, n \in Nat :
      link[g].hold = <<c, <<d, n>>>> => conn[c].rd # "off" /\ Sender(d, conn[c].id)

(* So was what is in the Go channel of c and what its client got. *)
StreamsOwned ==
    \A c, d \in Conns, n \in Nat :
      /\ \A k \in DOMAIN conn[c].buf : conn[c].buf[k] = <<d, n>> => Sender(d, conn[c].id)
      /\ \A k \in DOMAIN conn[c].got : conn[c].got[k] = <<d, n>> => Sender(d, conn[c].id)

(* The first half of AnswersAreOwn, over everything an answer passes through. *)
OwnInv == PacketsOwned /\ ChansOwned /\ HoldOwned /\ StreamsOwned

(* Every handler stays, with its number. *)
SendersStay == \A c \in Conns : conn[c].rd # "off" => conn'[c].rd # "off" /\ conn'[c].id = conn[c].id

(* Sender of the next state *)
SenderAfter(c, i) == conn'[c].rd # "off" /\ conn'[c].id = i

(* A step that leaves the packets, the channels and the answers alone *)
LEMMA OwnQuiet ==
  ASSUME OwnInv, Fresh, SendersStay,
         \A g \in Gens : /\ link'[g].to = link[g].to /\ link'[g].from = link[g].from
                         /\ link'[g].chans = link[g].chans /\ link'[g].hold = link[g].hold,
         \A c \in Conns : conn'[c].buf = conn[c].buf /\ conn'[c].got = conn[c].got
  PROVE  OwnInv'
<1>1. PacketsOwned'
  BY DEF OwnInv, PacketsOwned, Sender, SendersStay
<1>2. ChansOwned'
  BY DEF OwnInv, ChansOwned, Sender, SendersStay
<1>3. HoldOwned'
  BY DEF OwnInv, HoldOwned, Sender, SendersStay
<1>4. StreamsOwned'
  BY DEF OwnInv, StreamsOwned, Sender, SendersStay, Fresh
<1> QED BY <1>1, <1>2, <1>3, <1>4 DEF OwnInv

(* WriteChannel from a handler keeps OwnInv. *)
LEMMA OwnWrite ==
  ASSUME MuxTypeOK, OwnInv, Fresh, SendersStay, NEW c \in Conns, conn[c].rd # "off",
         NEW t \in {"connect", "send", "close"}, NEW r, r = Empty \/ \E n \in Nat : r = <<c, n>>,
         WriteChannel(t, conn[c].id, r),
         \A d \in Conns : conn'[d].buf = conn[d].buf /\ conn'[d].got = conn[d].got
  PROVE  OwnInv'
<1> DEFINE m == proc.mux
           p == [type |-> t, id |-> conn[c].id, req |-> r]
<1>1. m \in Gens
  BY MuxAssumption DEF MuxTypeOK, Procs, Gens, Fresh
<1>2. CASE link[m].ps = "down"
  BY <1>2, OwnQuiet DEF WriteChannel
<1>3. CASE link[m].ps # "down"
  <2>1. /\ \A g \in Gens : /\ link'[g].from = link[g].from
                           /\ link'[g].chans = link[g].chans /\ link'[g].hold = link[g].hold
                           /\ g # m => link'[g].to = link[g].to
        /\ link'[m].to = Append(link[m].to, p)
    BY <1>1, <1>3 DEF WriteChannel, MuxTypeOK, Links
  <2>2. link[m].to \in Seq(Outgoing)
    BY <1>1 DEF MuxTypeOK, Links
  <2>3. p.req = r /\ p.id = conn[c].id
    OBVIOUS
  <2> HIDE DEF p, m
  <2>4. ASSUME NEW k \in DOMAIN link'[m].to
        PROVE  link'[m].to[k] = p \/ (k \in DOMAIN link[m].to /\ link'[m].to[k] = link[m].to[k])
    BY <2>1, <2>2
  <2>5. PacketsOwned'
    <3> SUFFICES ASSUME NEW g \in Gens, NEW d \in Conns, NEW n \in Nat
                 PROVE  /\ \A k \in DOMAIN link'[g].to :
                             link'[g].to[k].req = <<d, n>> => SenderAfter(d, link'[g].to[k].id)
                        /\ \A k \in DOMAIN link'[g].from :
                             link'[g].from[k].req = <<d, n>> => SenderAfter(d, link'[g].from[k].id)
      BY DEF PacketsOwned, Sender, SenderAfter
    <3>1. \A k \in DOMAIN link[g].to :
             link[g].to[k].req = <<d, n>> => SenderAfter(d, link[g].to[k].id)
      BY DEF OwnInv, PacketsOwned, Sender, SenderAfter, SendersStay
    <3>2. \A k \in DOMAIN link'[g].from :
             link'[g].from[k].req = <<d, n>> => SenderAfter(d, link'[g].from[k].id)
      BY <2>1 DEF OwnInv, PacketsOwned, Sender, SenderAfter, SendersStay
    <3>3. p.req = <<d, n>> => SenderAfter(d, p.id)
      <4>1. p.req = <<d, n>> => d = c
        BY <2>3 DEF Empty
      <4> QED BY <2>3, <4>1 DEF SenderAfter, SendersStay
    <3> QED BY <3>1, <3>2, <3>3, <2>1, <2>4
  <2>6. ChansOwned' /\ HoldOwned'
    BY <2>1 DEF OwnInv, ChansOwned, HoldOwned, Sender, SendersStay
  <2>7. StreamsOwned'
    BY DEF OwnInv, StreamsOwned, Sender, SendersStay, Fresh
  <2> QED BY <2>5, <2>6, <2>7 DEF OwnInv
<1> QED BY <1>2, <1>3

--------------------------------------------------------------------------------
(* What the actions change, field by field. *)
OthersKept(c) == \A d \in Conns \ {c} : conn'[d] = conn[d]
LinksKept(g) == \A h \in Gens \ {g} : link'[h] = link[h]
IdKept(c) == conn'[c].id = conn[c].id /\ conn'[c].gen = conn[c].gen
StreamKept(c) == conn'[c].buf = conn[c].buf /\ conn'[c].got = conn[c].got
RequestsKept(c) == conn'[c].read = conn[c].read /\ conn'[c].sent = conn[c].sent
PipesKept(g) == link'[g].to = link[g].to /\ link'[g].from = link[g].from
ProcessKept(g) == link'[g].ps = link[g].ps /\ link'[g].done = link[g].done
LoopKept(g) == link'[g].chans = link[g].chans /\ link'[g].hold = link[g].hold

(* Accept takes the next number and leaves the other connections alone. *)
LEMMA AcceptEffect ==
  ASSUME MuxTypeOK, NEW c \in Conns, Accept(c)
  PROVE  /\ link' = link /\ OthersKept(c) /\ StreamKept(c) /\ RequestsKept(c)
         /\ conn[c].sock = "none" /\ conn'[c].sock = "open"
         /\ conn'[c].id = proc.next /\ conn'[c].gen = proc.listen
         /\ conn'[c].rd = conn[c].rd /\ conn'[c].chan = conn[c].chan
         /\ proc'.mux = proc.mux /\ proc'.end = proc.end
         /\ \/ proc'.listen = proc.listen /\ proc'.next = proc.next + 1
            \/ proc'.listen = proc.listen + 1 /\ proc'.next = 1
<1>1. /\ link' = link /\ OthersKept(c) /\ StreamKept(c) /\ RequestsKept(c)
      /\ conn[c].sock = "none" /\ conn'[c].sock = "open"
      /\ conn'[c].id = proc.next /\ conn'[c].gen = proc.listen
      /\ conn'[c].rd = conn[c].rd /\ conn'[c].chan = conn[c].chan
  BY DEF Accept, MuxTypeOK, Handlers, OthersKept, StreamKept, RequestsKept
<1>2. /\ proc'.mux = proc.mux /\ proc'.end = proc.end
      /\ \/ proc'.listen = proc.listen /\ proc'.next = proc.next + 1
         \/ proc'.listen = proc.listen + 1 /\ proc'.next = 1
  BY DEF Accept, MuxTypeOK, Procs
<1> QED BY <1>1, <1>2

(* handleConnection registers the connection and starts its goroutines. *)
LEMMA HandleEffect ==
  ASSUME MuxTypeOK, NEW c \in Conns, HandleConnection(c), Running'
  PROVE  /\ proc' = proc /\ proc.mux \in Gens
         /\ conn[c].rd = "off" /\ conn[c].sock # "none"
         /\ OthersKept(c) /\ StreamKept(c) /\ RequestsKept(c) /\ IdKept(c)
         /\ conn'[c].sock = conn[c].sock
         /\ conn'[c].rd = "connect" /\ conn'[c].chan = "open"
         /\ LinksKept(proc.mux) /\ PipesKept(proc.mux) /\ ProcessKept(proc.mux)
         /\ link'[proc.mux].hold = link[proc.mux].hold
         /\ link'[proc.mux].chans[conn[c].id] = c
         /\ \A i \in Ids \ {conn[c].id} : link'[proc.mux].chans[i] = link[proc.mux].chans[i]
<1>1. proc.mux # 0
  BY DEF HandleConnection, Running, MuxTypeOK, Procs
<1>2. proc.mux \in Gens
  BY <1>1, MuxAssumption DEF MuxTypeOK, Procs, Gens
<1>3. /\ proc' = proc /\ conn[c].rd = "off" /\ conn[c].sock # "none"
      /\ conn' = [conn EXCEPT ![c].chan = "open", ![c].home = proc.mux,
                              ![c].rd = "connect", ![c].wr = "range"]
      /\ link' = [link EXCEPT ![proc.mux].chans[conn[c].id] = c]
  BY <1>1 DEF HandleConnection
<1>4. conn[c].id \in Ids
  BY DEF MuxTypeOK, Handlers
<1>5. /\ OthersKept(c) /\ StreamKept(c) /\ RequestsKept(c) /\ IdKept(c)
      /\ conn'[c].sock = conn[c].sock
      /\ conn'[c].rd = "connect" /\ conn'[c].chan = "open"
  BY <1>3 DEF MuxTypeOK, Handlers, OthersKept, StreamKept, RequestsKept, IdKept
<1>6. /\ LinksKept(proc.mux) /\ PipesKept(proc.mux) /\ ProcessKept(proc.mux)
      /\ link'[proc.mux].hold = link[proc.mux].hold
      /\ link'[proc.mux].chans[conn[c].id] = c
      /\ \A i \in Ids \ {conn[c].id} : link'[proc.mux].chans[i] = link[proc.mux].chans[i]
  BY <1>2, <1>3, <1>4 DEF MuxTypeOK, Links, LinksKept, PipesKept, ProcessKept
<1> QED BY <1>2, <1>3, <1>5, <1>6

(* WriteChannel, from a handler *)
LEMMA WriteEffect ==
  ASSUME MuxTypeOK, Fresh, NEW c \in Conns, conn[c].rd # "off", NEW t, NEW r,
         WriteChannel(t, conn[c].id, r)
  PROVE  /\ proc.mux \in Gens
         /\ link[proc.mux].ps = "down" => link' = link
         /\ link[proc.mux].ps # "down" =>
              /\ LinksKept(proc.mux) /\ ProcessKept(proc.mux) /\ LoopKept(proc.mux)
              /\ link'[proc.mux].from = link[proc.mux].from
              /\ link'[proc.mux].to =
                   Append(link[proc.mux].to, [type |-> t, id |-> conn[c].id, req |-> r])
<1>1. proc.mux \in Gens
  BY MuxAssumption DEF MuxTypeOK, Procs, Gens, Fresh
<1> QED
  BY <1>1 DEF WriteChannel, MuxTypeOK, Links, LinksKept, ProcessKept, LoopKept

(* A reader passes on a request or an error, or its close. *)
LEMMA ReaderEffect ==
  ASSUME MuxTypeOK, NEW c \in Conns,
         PassRequest(c) \/ PassError(c) \/ ReadEOF(c) \/ SendClose(c)
  PROVE  /\ proc' = proc /\ conn[c].rd # "off" /\ conn'[c].rd # "off" /\ conn'[c].rd # "done"
         /\ OthersKept(c) /\ StreamKept(c) /\ IdKept(c)
         /\ conn'[c].sock = conn[c].sock /\ conn'[c].chan = conn[c].chan
         /\ conn'[c].sent = conn[c].sent
         /\ conn'[c].rd \in {"sendClose", "closeChannel"} =>
              link[conn[c].gen].done \/ conn[c].sock = "left" \/ conn[c].rd = "sendClose"
<1> USE DEF MuxTypeOK, Handlers, OthersKept, StreamKept, IdKept
<1>1. CASE PassRequest(c)
  BY <1>1 DEF PassRequest, Reading, AfterRead
<1>2. CASE PassError(c)
  BY <1>2 DEF PassError, Reading, AfterRead
<1>3. CASE ReadEOF(c)
  BY <1>3 DEF ReadEOF, Reading
<1>4. CASE SendClose(c)
  BY <1>4 DEF SendClose
<1> QED BY <1>1, <1>2, <1>3, <1>4

(* CloseChannel of a registered connection d, or of none *)
LEMMA ReaderReturnsEffect ==
  ASSUME MuxTypeOK, Fresh, NEW c \in Conns, ReaderReturns(c)
  PROVE  LET g == proc.mux
             d == link[g].chans[conn[c].id]
         IN  /\ g \in Gens /\ conn[c].rd = "closeChannel" /\ conn'[c].rd = "done"
             /\ \A x \in Conns :
                  /\ StreamKept(x) /\ RequestsKept(x) /\ IdKept(x)
                  /\ conn'[x].sock = conn[x].sock
                  /\ x # c => conn'[x].rd = conn[x].rd
                  /\ conn'[x].chan = IF x = d THEN "closed" ELSE conn[x].chan
             /\ LinksKept(g) /\ PipesKept(g) /\ ProcessKept(g)
             /\ link'[g].hold = link[g].hold
             /\ link'[g].chans[conn[c].id] = None
             /\ \A i \in Ids \ {conn[c].id} : link'[g].chans[i] = link[g].chans[i]
             /\ proc' = proc \/ (d # None /\ conn[d].chan = "closed" /\ proc'.end = "panic"
                                 /\ proc'.listen = proc.listen)
<1> DEFINE g == proc.mux
           i == conn[c].id
           d == link[g].chans[i]
           cs == [conn EXCEPT ![c].rd = "done"]
<1>1. g \in Gens /\ i \in Ids /\ conn[c].rd = "closeChannel"
  BY MuxAssumption DEF ReaderReturns, MuxTypeOK, Procs, Gens, Fresh, Handlers
<1>2. CloseChannel(link, cs, g, i)
  BY DEF ReaderReturns
<1>3. cs \in [Conns -> Handlers]
  BY ConnTypes, Zenon DEF MuxTypeOK
<1>4. /\ cs[c].rd = "done"
      /\ \A x \in Conns : /\ cs[x].buf = conn[x].buf /\ cs[x].got = conn[x].got
                          /\ cs[x].read = conn[x].read /\ cs[x].sent = conn[x].sent
                          /\ cs[x].id = conn[x].id /\ cs[x].gen = conn[x].gen
                          /\ cs[x].sock = conn[x].sock /\ cs[x].chan = conn[x].chan
                          /\ x # c => cs[x].rd = conn[x].rd
  BY DEF MuxTypeOK, Handlers
<1>5. d = None \/ d \in Conns
  BY <1>1 DEF MuxTypeOK, Links
<1> HIDE DEF cs
<1>6. CASE d = None
  <2>1. link' = link /\ conn' = cs /\ proc' = proc
    BY <1>2, <1>6 DEF CloseChannel
  <2>2. \A x \in Conns : x # d
    BY <1>6, MuxAssumption
  <2> QED
    BY <1>1, <1>4, <1>6, <2>1, <2>2 DEF StreamKept, RequestsKept, IdKept, LinksKept, PipesKept,
       ProcessKept
<1>7. CASE d # None
  <2>1. /\ conn' = [cs EXCEPT ![d].chan = "closed"]
        /\ link' = [link EXCEPT ![g].chans[i] = None]
        /\ proc' = IF conn[d].chan = "closed" THEN [proc EXCEPT !.end = "panic"] ELSE proc
    BY <1>2, <1>7 DEF CloseChannel
  <2> HIDE DEF d
  <2>2. /\ conn'[c].rd = "done"
        /\ \A x \in Conns : /\ conn'[x].buf = cs[x].buf /\ conn'[x].got = cs[x].got
                            /\ conn'[x].read = cs[x].read /\ conn'[x].sent = cs[x].sent
                            /\ conn'[x].id = cs[x].id /\ conn'[x].gen = cs[x].gen
                            /\ conn'[x].sock = cs[x].sock /\ conn'[x].rd = cs[x].rd
                            /\ conn'[x].chan = IF x = d THEN "closed" ELSE cs[x].chan
    BY <1>3, <1>4, <1>5, <1>7, <2>1, SMTT(30) DEF Handlers
  <2>3. /\ LinksKept(g) /\ PipesKept(g) /\ ProcessKept(g)
        /\ link'[g].hold = link[g].hold
        /\ link'[g].chans[i] = None
        /\ \A j \in Ids \ {i} : link'[g].chans[j] = link[g].chans[j]
    BY <1>1, <2>1 DEF MuxTypeOK, Links, LinksKept, PipesKept, ProcessKept
  <2>4. proc' = proc \/ (conn[d].chan = "closed" /\ proc'.end = "panic" /\ proc'.listen = proc.listen)
    BY <2>1 DEF MuxTypeOK, Procs
  <2>5. \A x \in Conns :
          /\ StreamKept(x) /\ RequestsKept(x) /\ IdKept(x)
          /\ conn'[x].sock = conn[x].sock
          /\ x # c => conn'[x].rd = conn[x].rd
          /\ conn'[x].chan = IF x = d THEN "closed" ELSE conn[x].chan
    BY <1>4, <2>2 DEF StreamKept, RequestsKept, IdKept
  <2> QED
    BY <1>1, <1>7, <2>2, <2>3, <2>4, <2>5, ZenonT(40) DEF d
<1> QED BY <1>6, <1>7

(* The writer takes the first answer of the Go channel. *)
LEMMA WriteAnswerEffect ==
  ASSUME MuxTypeOK, NEW c \in Conns, WriteAnswer(c)
  PROVE  /\ proc' = proc /\ link' = link /\ conn[c].buf # <<>>
         /\ OthersKept(c) /\ RequestsKept(c) /\ IdKept(c)
         /\ conn'[c].rd = conn[c].rd /\ conn'[c].chan = conn[c].chan
         /\ conn'[c].buf = Tail(conn[c].buf)
         /\ \/ /\ conn[c].sock = "open" /\ conn'[c].sock = "open"
               /\ conn'[c].got = Append(conn[c].got, Head(conn[c].buf))
            \/ /\ conn[c].sock # "open" /\ conn'[c].got = conn[c].got
               /\ conn'[c].sock \in {conn[c].sock, "closed"}
<1> USE DEF MuxTypeOK, Handlers, OthersKept, RequestsKept, IdKept
<1>1. ASSUME conn' = [conn EXCEPT ![c].buf = Tail(@), ![c].got = Append(@, Head(conn[c].buf))]
      PROVE  /\ OthersKept(c) /\ RequestsKept(c) /\ IdKept(c)
             /\ conn'[c].rd = conn[c].rd /\ conn'[c].chan = conn[c].chan
             /\ conn'[c].buf = Tail(conn[c].buf) /\ conn'[c].sock = conn[c].sock
             /\ conn'[c].got = Append(conn[c].got, Head(conn[c].buf))
  BY <1>1
<1>2. ASSUME conn' = [conn EXCEPT ![c].buf = Tail(@), ![c].wr = "broken"]
      PROVE  /\ OthersKept(c) /\ RequestsKept(c) /\ IdKept(c)
             /\ conn'[c].rd = conn[c].rd /\ conn'[c].chan = conn[c].chan
             /\ conn'[c].buf = Tail(conn[c].buf) /\ conn'[c].got = conn[c].got
             /\ conn'[c].sock = conn[c].sock
  BY <1>2
<1>3. ASSUME conn' = [conn EXCEPT ![c].buf = Tail(@), ![c].wr = "done", ![c].sock = "closed"]
      PROVE  /\ OthersKept(c) /\ RequestsKept(c) /\ IdKept(c)
             /\ conn'[c].rd = conn[c].rd /\ conn'[c].chan = conn[c].chan
             /\ conn'[c].buf = Tail(conn[c].buf) /\ conn'[c].got = conn[c].got
             /\ conn'[c].sock = "closed"
  BY <1>3
<1>4. proc' = proc /\ link' = link /\ conn[c].buf # <<>>
  BY DEF WriteAnswer
<1> HIDE DEF MuxTypeOK, Handlers, OthersKept, RequestsKept, IdKept
<1> QED BY <1>1, <1>2, <1>3, <1>4 DEF WriteAnswer

(* The other steps of a connection's goroutines and its client *)
LEMMA QuietEffect ==
  ASSUME MuxTypeOK, Fresh, NEW c \in Conns, WriterReturns(c) \/ Ask(c) \/ Leave(c)
  PROVE  /\ proc' = proc /\ link' = link /\ conn[c].sock # "none"
         /\ OthersKept(c) /\ StreamKept(c) /\ IdKept(c)
         /\ conn'[c].read = conn[c].read /\ conn'[c].chan = conn[c].chan
         /\ conn'[c].rd = conn[c].rd
         /\ \/ conn'[c].sock \in {"left", "closed"} /\ conn'[c].sent = conn[c].sent
            \/ conn'[c].sock = conn[c].sock /\ conn'[c].sent = conn[c].sent + 1
<1> USE DEF MuxTypeOK, Handlers, OthersKept, StreamKept, IdKept
<1>1. CASE WriterReturns(c)
  BY <1>1 DEF WriterReturns, Ranging, Fresh
<1>2. CASE Ask(c)
  BY <1>2 DEF Ask
<1>3. CASE Leave(c)
  BY <1>3 DEF Leave
<1> QED BY <1>1, <1>2, <1>3

(* startPowerShellProces changes its own link and ps.Multiplexer only. *)
LEMMA StartEffect ==
  ASSUME MuxTypeOK, NEW g \in Gens, StartPowerShell(g)
  PROVE  /\ conn' = conn /\ proc.listen = g /\ link[g].ps = "off"
         /\ LinksKept(g) /\ PipesKept(g) /\ LoopKept(g)
         /\ proc'.listen = g /\ proc'.next = proc.next /\ proc'.end = proc.end
         /\ \/ link'[g].ps = "up" /\ link'[g].done = link[g].done /\ proc'.mux = g
            \/ link'[g].ps = "down" /\ link'[g].done = TRUE /\ proc' = proc
<1>1. ASSUME link' = [link EXCEPT ![g].ps = "up"]
      PROVE  /\ LinksKept(g) /\ PipesKept(g) /\ LoopKept(g)
             /\ link'[g].ps = "up" /\ link'[g].done = link[g].done
  BY <1>1 DEF MuxTypeOK, Links, LinksKept, PipesKept, LoopKept
<1>2. ASSUME link' = [link EXCEPT ![g].ps = "down", ![g].done = TRUE]
      PROVE  /\ LinksKept(g) /\ PipesKept(g) /\ LoopKept(g)
             /\ link'[g].ps = "down" /\ link'[g].done = TRUE
  BY <1>2 DEF MuxTypeOK, Links, LinksKept, PipesKept, LoopKept
<1>3. ASSUME proc' = [proc EXCEPT !.mux = g]
      PROVE  /\ proc'.listen = proc.listen /\ proc'.next = proc.next
             /\ proc'.end = proc.end /\ proc'.mux = g
  BY <1>3 DEF MuxTypeOK, Procs
<1> QED BY <1>1, <1>2, <1>3 DEF StartPowerShell

(* readLoop reads the next packet p: it closes the channel, drops the       *)
(* packet or is about to send it.                                           *)
LEMMA ReadPacketEffect ==
  ASSUME MuxTypeOK, NEW g \in Gens, ReadPacket(g)
  PROVE  \E p \in Incoming :
           /\ link[g].from # <<>> /\ p = link[g].from[1] /\ link[g].hold = <<>>
           /\ LinksKept(g) /\ ProcessKept(g)
           /\ link'[g].to = link[g].to /\ link'[g].from = Tail(link[g].from)
           /\ \A x \in Conns :
                /\ StreamKept(x) /\ RequestsKept(x) /\ IdKept(x)
                /\ conn'[x].sock = conn[x].sock /\ conn'[x].rd = conn[x].rd
                /\ conn'[x].chan = IF p.type = "close" /\ x = link[g].chans[p.id] THEN "closed"
                                   ELSE conn[x].chan
           /\ \/ /\ p.type = "close" /\ link'[g].hold = <<>>
                 /\ link'[g].chans[p.id] = None
                 /\ \A i \in Ids \ {p.id} : link'[g].chans[i] = link[g].chans[i]
                 /\ \/ proc' = proc
                    \/ /\ link[g].chans[p.id] \in Conns
                       /\ conn[link[g].chans[p.id]].chan = "closed"
                       /\ proc'.end = "panic" /\ proc'.listen = proc.listen
              \/ /\ p.type = "send" /\ link[g].chans[p.id] = None /\ link'[g].hold = <<>>
                 /\ link'[g].chans = link[g].chans /\ proc' = proc
              \/ /\ p.type = "send" /\ link[g].chans[p.id] \in Conns
                 /\ link'[g].hold = <<link[g].chans[p.id], p.req>>
                 /\ link'[g].chans = link[g].chans /\ proc' = proc
<1> DEFINE p == Head(link[g].from)
           l == [link EXCEPT ![g].from = Tail(@)]
           d == link[g].chans[p.id]
<1>1. /\ link[g].from \in Seq(Incoming) /\ link[g].from # <<>> /\ link[g].hold = <<>>
  BY DEF ReadPacket, MuxTypeOK, Links
<1>2. p \in Incoming /\ p = link[g].from[1]
  BY <1>1
<1>3. p.id \in Ids /\ p.type \in {"send", "close"}
  BY <1>2 DEF Incoming, Packets
<1>4. d = None \/ d \in Conns
  BY <1>3 DEF MuxTypeOK, Links
<1>5. l \in [Gens -> Links]
  <2>1. Tail(link[g].from) \in Seq(Incoming)
    BY <1>1
  <2> QED BY <2>1, LinkTypes, Zenon DEF MuxTypeOK
<1>6. /\ \A h \in Gens \ {g} : l[h] = link[h]
      /\ l[g].ps = link[g].ps /\ l[g].done = link[g].done
      /\ l[g].to = link[g].to /\ l[g].from = Tail(link[g].from)
      /\ l[g].chans = link[g].chans /\ l[g].hold = link[g].hold
  BY DEF MuxTypeOK, Links
<1>7. \/ p.type = "close" /\ CloseChannel(l, conn, g, p.id)
      \/ /\ p.type # "close"
         /\ link' = IF d = None THEN l ELSE [l EXCEPT ![g].hold = <<d, p.req>>]
         /\ UNCHANGED <<proc, conn>>
  BY DEF ReadPacket
<1> HIDE DEF l, p
<1> USE DEF StreamKept, RequestsKept, IdKept, LinksKept, ProcessKept
<1>8. CASE p.type = "close" /\ d = None
  <2>1. link' = l /\ conn' = conn /\ proc' = proc
    BY <1>6, <1>7, <1>8 DEF CloseChannel
  <2>2. \A x \in Conns : x # d
    BY <1>8, MuxAssumption, SMTT(30)
  <2> QED BY <1>1, <1>2, <1>6, <1>8, <2>1, <2>2
<1>9. CASE p.type = "close" /\ d # None
  <2>1. /\ conn' = [conn EXCEPT ![d].chan = "closed"]
        /\ link' = [l EXCEPT ![g].chans[p.id] = None]
        /\ proc' = IF conn[d].chan = "closed" THEN [proc EXCEPT !.end = "panic"] ELSE proc
    BY <1>6, <1>7, <1>9 DEF CloseChannel
  <2> HIDE DEF d
  <2>2. \A x \in Conns : /\ StreamKept(x) /\ RequestsKept(x) /\ IdKept(x)
                          /\ conn'[x].sock = conn[x].sock /\ conn'[x].rd = conn[x].rd
                          /\ conn'[x].chan = IF x = d THEN "closed" ELSE conn[x].chan
    BY <1>4, <1>9, <2>1 DEF MuxTypeOK, Handlers
  <2>3. /\ LinksKept(g) /\ ProcessKept(g) /\ link'[g].hold = link[g].hold
        /\ link'[g].to = link[g].to /\ link'[g].from = Tail(link[g].from)
        /\ link'[g].chans[p.id] = None
        /\ \A i \in Ids \ {p.id} : link'[g].chans[i] = link[g].chans[i]
    BY <1>3, <1>5, <1>6, <2>1 DEF Links
  <2>4. proc' = proc \/ (conn[d].chan = "closed" /\ proc'.end = "panic" /\ proc'.listen = proc.listen)
    BY <2>1 DEF MuxTypeOK, Procs
  <2> HIDE DEF StreamKept, RequestsKept, IdKept, LinksKept, ProcessKept
  <2> QED BY <1>1, <1>2, <1>4, <1>9, <2>2, <2>3, <2>4 DEF d
<1>10. CASE p.type = "send" /\ d = None
  <2>1. link' = l /\ proc' = proc /\ conn' = conn
    BY <1>7, <1>10, SMTT(30)
  <2> QED BY <1>1, <1>2, <1>6, <1>10, <2>1
<1>11. CASE p.type = "send" /\ d # None
  <2>1. link' = [l EXCEPT ![g].hold = <<d, p.req>>] /\ proc' = proc /\ conn' = conn
    BY <1>7, <1>11
  <2>0. d \in Conns
    BY <1>4, <1>11
  <2> HIDE DEF d
  <2>2. /\ LinksKept(g) /\ ProcessKept(g)
        /\ link'[g].to = link[g].to /\ link'[g].from = Tail(link[g].from)
        /\ link'[g].chans = link[g].chans /\ link'[g].hold = <<d, p.req>>
    BY <1>5, <1>6, <2>1 DEF Links
  <2> HIDE DEF LinksKept, ProcessKept
  <2> QED BY <1>1, <1>2, <1>11, <2>0, <2>1, <2>2 DEF d
<1> QED BY <1>3, <1>8, <1>9, <1>10, <1>11

(* readLoop sends into the Go channel, or the proxy panics. *)
LEMMA DeliverEffect ==
  ASSUME MuxTypeOK, NEW g \in Gens, Deliver(g)
  PROVE  \E c \in Conns, r \in Reqs :
           /\ link[g].hold = <<c, r>>
           /\ \/ /\ conn[c].chan = "closed" /\ link' = link /\ conn' = conn
                 /\ proc'.end = "panic" /\ proc'.listen = proc.listen
              \/ /\ conn[c].chan # "closed" /\ proc' = proc
                 /\ OthersKept(c) /\ IdKept(c) /\ RequestsKept(c)
                 /\ conn'[c].sock = conn[c].sock /\ conn'[c].rd = conn[c].rd
                 /\ conn'[c].chan = conn[c].chan /\ conn'[c].got = conn[c].got
                 /\ conn'[c].buf = Append(conn[c].buf, r)
                 /\ LinksKept(g) /\ PipesKept(g) /\ ProcessKept(g)
                 /\ link'[g].chans = link[g].chans /\ link'[g].hold = <<>>
<1>1. link[g].hold \in Conns \X Reqs
  BY DEF Deliver, MuxTypeOK, Links
<1>2. PICK c \in Conns, r \in Reqs : link[g].hold = <<c, r>>
  BY <1>1
<1>3. CASE conn[c].chan = "closed"
  BY <1>2, <1>3 DEF Deliver, MuxTypeOK, Procs
<1>4. CASE conn[c].chan # "closed"
  <2>1. /\ conn' = [conn EXCEPT ![c].buf = Append(@, r)]
        /\ link' = [link EXCEPT ![g].hold = <<>>] /\ proc' = proc
    BY <1>2, <1>4 DEF Deliver
  <2>2. /\ OthersKept(c) /\ IdKept(c) /\ RequestsKept(c)
        /\ conn'[c].sock = conn[c].sock /\ conn'[c].rd = conn[c].rd
        /\ conn'[c].chan = conn[c].chan /\ conn'[c].got = conn[c].got
        /\ conn'[c].buf = Append(conn[c].buf, r)
    BY <2>1 DEF MuxTypeOK, Handlers, OthersKept, IdKept, RequestsKept
  <2>3. /\ LinksKept(g) /\ PipesKept(g) /\ ProcessKept(g)
        /\ link'[g].chans = link[g].chans /\ link'[g].hold = <<>>
    BY <2>1 DEF MuxTypeOK, Links, LinksKept, PipesKept, ProcessKept
  <2> QED BY <1>2, <1>4, <2>1, <2>2, <2>3
<1> QED BY <1>3, <1>4

(* readLoop or PowerShell ends: at most the pipe to PowerShell is lost. *)
LEMMA EndsEffect ==
  ASSUME MuxTypeOK, NEW g \in Gens, ReadLoopEnds(g) \/ PowerShellDies(g)
  PROVE  /\ proc' = proc /\ conn' = conn
         /\ LinksKept(g) /\ LoopKept(g) /\ link'[g].from = link[g].from
         /\ link'[g].ps = "down"
         /\ \/ /\ link[g].ps = "down" /\ link[g].from = <<>> /\ link[g].hold = <<>>
               /\ link'[g].to = link[g].to
            \/ /\ link[g].ps = "up" /\ link'[g].done = link[g].done /\ link'[g].to = <<>>
<1> USE DEF MuxTypeOK, Links, LinksKept, LoopKept
<1>1. CASE ReadLoopEnds(g)
  BY <1>1 DEF ReadLoopEnds
<1>2. CASE PowerShellDies(g)
  BY <1>2 DEF PowerShellDies
<1> QED BY <1>1, <1>2

(* PowerShell moves one packet from its input to the end of its output. *)
LEMMA AnswerEffect ==
  ASSUME MuxTypeOK, NEW g \in Gens, NEW k \in 1 .. PipeCap, Answer(g, k)
  PROVE  /\ proc' = proc /\ conn' = conn /\ k \in 1 .. Len(link[g].to) /\ First(g, k)
         /\ LinksKept(g) /\ LoopKept(g) /\ ProcessKept(g) /\ link[g].ps = "up"
         /\ link'[g].to = Without(link[g].to, k)
         /\ \E p \in Incoming : /\ link'[g].from = Append(link[g].from, p)
                                 /\ p.req = link[g].to[k].req /\ p.id = link[g].to[k].id
<1>1. PICK t \in IF link[g].to[k].req = Empty THEN {"close"} ELSE {"send", "close"} :
        link' = [link EXCEPT ![g].to = Without(@, k),
                             ![g].from = Append(@, [link[g].to[k] EXCEPT !.type = t])]
  BY DEF Answer
<1>2. link[g].to \in Seq(Outgoing) /\ k \in 1 .. Len(link[g].to)
  BY DEF Answer, MuxTypeOK, Links
<1>3. PICK p : p = [link[g].to[k] EXCEPT !.type = t]
  OBVIOUS
<1>4. p \in Incoming /\ p.req = link[g].to[k].req /\ p.id = link[g].to[k].id
  <2>1. link[g].to[k] \in Outgoing /\ t \in {"send", "close"}
    BY <1>1, <1>2
  <2>2. p \in Packets({"send", "close"})
    BY <1>3, <2>1 DEF Outgoing, Packets
  <2>3. p.req = link[g].to[k].req /\ p.type = t /\ p.id = link[g].to[k].id
    BY <1>3, <2>1 DEF Outgoing, Packets
  <2> QED BY <1>1, <2>2, <2>3 DEF Incoming
<1>5. /\ LinksKept(g) /\ LoopKept(g) /\ ProcessKept(g)
      /\ link'[g].to = Without(link[g].to, k) /\ link'[g].from = Append(link[g].from, p)
  BY <1>1, <1>3 DEF MuxTypeOK, Links, LinksKept, LoopKept, ProcessKept
<1> QED BY <1>2, <1>4, <1>5 DEF Answer

(* A nil Multiplexer ends the proxy and changes nothing else. *)
LEMMA HandleNil ==
  ASSUME MuxTypeOK, NEW c \in Conns, HandleConnection(c), ~Running'
  PROVE  link' = link /\ conn' = conn /\ proc'.mux = proc.mux /\ proc'.listen = proc.listen
         /\ proc'.end = "nil"
<1>1. proc.mux = 0
  BY DEF HandleConnection, Running
<1> QED BY <1>1 DEF HandleConnection, MuxTypeOK, Procs

(* Every step keeps the handlers and their numbers, except the end by a     *)
(* signal; only Accept takes a connection.                                  *)
SocksStay == \A c \in Conns : (conn'[c].sock = "none" <=> conn[c].sock = "none") /\ IdKept(c)

(* Every step keeps Fresh. *)
LEMMA FreshStep ==
  ASSUME MuxTypeOK, Fresh, ChansOwned, HoldOwned, Next
  PROVE  /\ Fresh' 
         /\ Signal \/ SendersStay
         /\ Signal \/ (\E c \in Conns : Accept(c)) \/ (SocksStay /\ proc'.next = proc.next)
<1> USE DEF Fresh, SendersStay, SocksStay, IdKept
<1> DEFINE Goal == Fresh' /\ SendersStay /\ SocksStay /\ proc'.next = proc.next
<1>1. ASSUME NEW c \in Conns, Accept(c) PROVE Fresh' /\ SendersStay
  BY <1>1, AcceptEffect DEF OthersKept, StreamKept, RequestsKept
<1>2. ASSUME NEW c \in Conns, HandleConnection(c) PROVE Goal
  <2>1. CASE Running'
    BY <1>2, <2>1, HandleEffect DEF OthersKept, MuxTypeOK, Procs, Gens
  <2>2. CASE ~Running'
    <3>1. proc'.next = proc.next
      BY <1>2, <2>2, HandleNil DEF HandleConnection, MuxTypeOK, Procs
    <3> QED BY <1>2, <2>2, <3>1, HandleNil
  <2> QED BY <2>1, <2>2
<1>3. ASSUME NEW c \in Conns, PassRequest(c) \/ PassError(c) \/ ReadEOF(c) \/ SendClose(c)
      PROVE  Goal
  BY <1>3, ReaderEffect DEF OthersKept
<1>4. ASSUME NEW c \in Conns, ReaderReturns(c) PROVE Goal
  <2>1. proc'.mux = proc.mux /\ proc'.next = proc.next
    BY <1>4 DEF ReaderReturns, CloseChannel, MuxTypeOK, Procs
  <2>2. \A x \in Conns : /\ StreamKept(x) /\ RequestsKept(x) /\ IdKept(x)
                         /\ conn'[x].sock = conn[x].sock
                         /\ x # c => conn'[x].rd = conn[x].rd
    BY <1>4, ReaderReturnsEffect
  <2>3. /\ conn[c].rd = "closeChannel" /\ conn'[c].rd = "done"
        /\ proc.mux \in Gens /\ conn[c].id \in Ids
    BY <1>4, ReaderReturnsEffect DEF MuxTypeOK, Handlers
  <2>4. \A x \in Conns : conn[x].rd = "off" => conn'[x].chan = conn[x].chan
    <3>1. \A x \in Conns : conn'[x].chan = IF x = link[proc.mux].chans[conn[c].id]
                                           THEN "closed" ELSE conn[x].chan
      BY <1>4, ReaderReturnsEffect
    <3> QED BY <3>1, <2>3 DEF ChansOwned, Sender
  <2> QED BY <2>1, <2>2, <2>3, <2>4, SMTT(30) DEF StreamKept, RequestsKept
<1>5. ASSUME NEW c \in Conns, WriteAnswer(c) PROVE Goal
  BY <1>5, WriteAnswerEffect DEF OthersKept
<1>6. ASSUME NEW c \in Conns, WriterReturns(c) \/ Ask(c) \/ Leave(c) PROVE Goal
  BY <1>6, QuietEffect DEF OthersKept, StreamKept
<1>7. ASSUME NEW g \in Gens, StartPowerShell(g) PROVE Goal
  <2>1. g # 0
    BY MuxAssumption DEF Gens
  <2>2. /\ conn' = conn /\ proc'.next = proc.next
        /\ proc'.mux = g \/ proc' = proc
    BY <1>7, StartEffect
  <2> QED BY <2>1, <2>2
<1>8. ASSUME NEW g \in Gens, ReadPacket(g) PROVE Goal
  <2>1. proc'.mux = proc.mux /\ proc'.next = proc.next
    BY <1>8 DEF ReadPacket, CloseChannel, MuxTypeOK, Procs
  <2>2. PICK p \in Incoming :
          \A x \in Conns :
            /\ StreamKept(x) /\ RequestsKept(x) /\ IdKept(x)
            /\ conn'[x].sock = conn[x].sock /\ conn'[x].rd = conn[x].rd
            /\ conn'[x].chan = IF p.type = "close" /\ x = link[g].chans[p.id] THEN "closed"
                               ELSE conn[x].chan
    BY <1>8, ReadPacketEffect
  <2>3. p.id \in Ids
    BY DEF Incoming, Packets
  <2>4. \A x \in Conns : conn[x].rd = "off" => conn'[x].chan = conn[x].chan
    BY <2>2, <2>3 DEF ChansOwned, Sender
  <2> QED BY <2>1, <2>2, <2>4 DEF StreamKept, RequestsKept
<1>9. ASSUME NEW g \in Gens, Deliver(g) PROVE Goal
  <2>1. proc'.mux = proc.mux /\ proc'.next = proc.next
    BY <1>9 DEF Deliver, MuxTypeOK, Procs
  <2> QED BY <1>9, <2>1, DeliverEffect DEF OthersKept, RequestsKept, HoldOwned, Reqs
<1>10. ASSUME NEW g \in Gens, ReadLoopEnds(g) \/ PowerShellDies(g) PROVE Goal
  BY <1>10, EndsEffect
<1>11. ASSUME NEW g \in Gens, NEW k \in 1 .. PipeCap, Answer(g, k) PROVE Goal
  BY <1>11, AnswerEffect
<1>12. CASE Signal
  BY <1>12 DEF Signal, NoConn
<1> HIDE DEF Goal, Fresh, SendersStay, SocksStay, IdKept
<1>13. ASSUME NEW c \in Conns, OfConnection(c), ~Accept(c) PROVE Goal
  BY <1>13, <1>2, <1>3, <1>4, <1>5, <1>6 DEF OfConnection
<1>14. ASSUME NEW g \in Gens, OfLink(g) PROVE Goal
  BY <1>14, <1>7, <1>8, <1>9, <1>10, <1>11 DEF OfLink
<1> QED BY <1>1, <1>12, <1>13, <1>14 DEF Next, Goal

(* Every step that does not end the proxy keeps NextIsFree. *)
LEMMA NextStep ==
  ASSUME MuxTypeOK, Fresh, ChansOwned, HoldOwned, NextIsFree, Next, Running'
  PROVE  NextIsFree'
<1> DEFINE A == Accepted
           B == {c \in Conns : conn'[c].sock # "none"}
<1>0. B = Accepted'
  BY DEF Accepted
<1>1. IsFiniteSet(A) /\ Cardinality(A) \in Nat
  BY MuxAssumption, FS_Subset, FS_CardinalityType DEF Accepted
<1>2. ASSUME NEW c \in Conns, Accept(c) PROVE NextIsFree'
  <2>1. B = A \cup {c} /\ c \notin A
    BY <1>2, AcceptEffect DEF Accepted, OthersKept
  <2>2. Cardinality(B) = Cardinality(A) + 1
    BY <1>1, <2>1, FS_AddElement
  <2>3. proc'.next \in {proc.next + 1, 1} /\ proc.next \in Nat
    BY <1>2, AcceptEffect DEF MuxTypeOK, Procs
  <2> HIDE DEF A, B
  <2>4. proc.next <= Cardinality(A) + 1
    BY DEF NextIsFree, A
  <2>5. proc'.next <= Cardinality(B) + 1
    BY <1>1, <2>2, <2>3, <2>4
  <2> QED BY <1>0, <2>5 DEF NextIsFree
<1>3. ASSUME SocksStay, proc'.next = proc.next PROVE NextIsFree'
  <2>1. B = A
    BY <1>3 DEF SocksStay, Accepted
  <2> QED BY <1>0, <1>3, <2>1 DEF NextIsFree
<1>4. ~Signal
  BY DEF Signal, Running, MuxTypeOK, Procs
<1> QED BY <1>2, <1>3, <1>4, FreshStep

(* OwnInv of the next state, with the parts of the state it is about *)
LEMMA OwnStep ==
  ASSUME MuxTypeOK, Fresh, OwnInv, Next
  PROVE  OwnInv'
<1>0. ChansOwned /\ HoldOwned
  BY DEF OwnInv
<1>1. ASSUME NEW c \in Conns, Accept(c) PROVE OwnInv'
  <2>1. SendersStay
    BY <1>1, AcceptEffect DEF Fresh, SendersStay, OthersKept
  <2> QED BY <1>1, <2>1, OwnQuiet, AcceptEffect DEF OthersKept, StreamKept
<1>s. ASSUME Signal PROVE OwnInv'
  <2>1. \A g \in Gens : /\ link'[g].to = <<>> /\ link'[g].from = <<>> /\ link'[g].hold = <<>>
                        /\ \A i \in Ids : link'[g].chans[i] = None
    BY <1>s DEF Signal, NoLink
  <2>2. \A c \in Conns : conn'[c].buf = <<>> /\ conn'[c].got = <<>>
    BY <1>s DEF Signal, NoConn
  <2>3. PacketsOwned'
    BY <2>1 DEF PacketsOwned
  <2>4. ChansOwned' /\ HoldOwned'
    <3>1. ChansOwned'
      BY <2>1, MuxAssumption DEF ChansOwned
    <3>2. HoldOwned'
      BY <2>1 DEF HoldOwned, Sender
    <3> QED BY <3>1, <3>2
  <2>5. StreamsOwned'
    BY <2>2 DEF StreamsOwned
  <2> QED BY <2>3, <2>4, <2>5 DEF OwnInv
<1>2. ASSUME NEW c \in Conns, HandleConnection(c) PROVE OwnInv'
  <2>1. CASE ~Running'
    BY <1>2, <2>1, HandleNil, OwnQuiet DEF SendersStay
  <2>2. CASE Running'
    <3>1. SendersStay /\ SenderAfter(c, conn[c].id) /\ \A x \in Conns : StreamKept(x)
      BY <1>2, <2>2, HandleEffect DEF SendersStay, SenderAfter, OthersKept, StreamKept, IdKept
    <3>2. PacketsOwned' /\ HoldOwned'
      <4>1. \A g \in Gens : /\ link'[g].to = link[g].to /\ link'[g].from = link[g].from
                            /\ link'[g].hold = link[g].hold
        BY <1>2, <2>2, HandleEffect DEF LinksKept, PipesKept
      <4> QED BY <4>1, <3>1 DEF OwnInv, PacketsOwned, HoldOwned, Sender, SendersStay
    <3>3. ChansOwned'
      <4> SUFFICES ASSUME NEW g \in Gens, NEW i \in Ids, NEW d \in Conns, link'[g].chans[i] = d
                   PROVE  SenderAfter(d, i)
        BY DEF ChansOwned, Sender, SenderAfter
      <4>1. CASE g = proc.mux /\ i = conn[c].id
        BY <1>2, <2>2, <3>1, <4>1, HandleEffect
      <4>2. CASE ~(g = proc.mux /\ i = conn[c].id)
        <5>1. link[g].chans[i] = d
          BY <1>2, <2>2, <4>2, HandleEffect DEF LinksKept
        <5> QED BY <5>1, <3>1, <1>0 DEF ChansOwned, Sender, SendersStay, SenderAfter
      <4> QED BY <4>1, <4>2
    <3>4. StreamsOwned'
      <4>1. \A d \in Conns : /\ conn'[d].buf = conn[d].buf /\ conn'[d].got = conn[d].got
                             /\ conn[d].rd = "off" => conn[d].buf = <<>> /\ conn[d].got = <<>>
        BY <3>1 DEF StreamKept, Fresh
      <4> SUFFICES ASSUME NEW x \in Conns, NEW d \in Conns, NEW n \in Nat
                   PROVE  /\ \A k \in DOMAIN conn'[x].buf :
                                conn'[x].buf[k] = <<d, n>> => SenderAfter(d, conn'[x].id)
                          /\ \A k \in DOMAIN conn'[x].got :
                                conn'[x].got[k] = <<d, n>> => SenderAfter(d, conn'[x].id)
        BY DEF StreamsOwned, Sender, SenderAfter
      <4>2. CASE conn[x].rd = "off"
        <5>1. DOMAIN conn'[x].buf = {} /\ DOMAIN conn'[x].got = {}
          BY <4>1, <4>2
        <5> QED BY <5>1
      <4>3. CASE conn[x].rd # "off"
        <5>1. /\ \A k \in DOMAIN conn[x].buf :
                   conn[x].buf[k] = <<d, n>> => Sender(d, conn[x].id)
              /\ \A k \in DOMAIN conn[x].got :
                   conn[x].got[k] = <<d, n>> => Sender(d, conn[x].id)
          BY DEF OwnInv, StreamsOwned
        <5>2. conn'[x].id = conn[x].id /\ (Sender(d, conn[x].id) => SenderAfter(d, conn[x].id))
          BY <3>1, <4>3 DEF SendersStay, Sender, SenderAfter
        <5> QED BY <4>1, <5>1, <5>2
      <4> QED BY <4>2, <4>3
    <3> QED BY <3>2, <3>3, <3>4 DEF OwnInv
  <2> QED BY <2>1, <2>2
<1>3. ASSUME NEW c \in Conns, PassRequest(c) \/ PassError(c) \/ SendClose(c) PROVE OwnInv'
  <2>1. /\ SendersStay /\ conn[c].rd # "off"
        /\ \A d \in Conns : conn'[d].buf = conn[d].buf /\ conn'[d].got = conn[d].got
    BY <1>3, ReaderEffect DEF SendersStay, OthersKept, StreamKept, IdKept
  <2>2. conn[c].read + 1 \in Nat /\ PacketType(c) \in {"connect", "send", "close"}
    BY DEF MuxTypeOK, Handlers, PacketType
  <2>3. CASE PassRequest(c)
    BY <2>1, <2>2, <2>3, OwnWrite DEF PassRequest
  <2>4. CASE PassError(c)
    BY <2>1, <2>2, <2>4, OwnWrite DEF PassError
  <2>5. CASE SendClose(c)
    BY <2>1, <2>5, OwnWrite DEF SendClose
  <2> QED BY <1>3, <2>3, <2>4, <2>5
<1>4. ASSUME NEW c \in Conns, ReadEOF(c) PROVE OwnInv'
  <2>1. SendersStay /\ \A d \in Conns : StreamKept(d)
    BY <1>4, ReaderEffect DEF SendersStay, OthersKept, StreamKept, IdKept
  <2>2. link' = link
    BY <1>4 DEF ReadEOF
  <2> QED BY <2>1, <2>2, OwnQuiet DEF StreamKept
<1>5. ASSUME NEW c \in Conns, ReaderReturns(c) PROVE OwnInv'
  <2>0. SendersStay
    <3>1. Signal \/ SendersStay
      BY <1>0, FreshStep, SMTT(30)
    <3>2. ~Signal
      BY <1>5 DEF Signal, ReaderReturns, CloseChannel, MuxTypeOK, Procs, Running
    <3> QED BY <3>1, <3>2
  <2>1. \A x \in Conns : StreamKept(x)
    BY <1>5, ReaderReturnsEffect
  <2>2. PacketsOwned' /\ HoldOwned'
    <4>1. \A g \in Gens : /\ link'[g].to = link[g].to /\ link'[g].from = link[g].from
                          /\ link'[g].hold = link[g].hold
      BY <1>5, ReaderReturnsEffect DEF LinksKept, PipesKept
    <4> QED BY <4>1, <2>0 DEF OwnInv, PacketsOwned, HoldOwned, Sender, SendersStay
  <2>3. ChansOwned'
    <4>1. \A g \in Gens, i \in Ids : link'[g].chans[i] = link[g].chans[i] \/ link'[g].chans[i] = None
      BY <1>5, ReaderReturnsEffect DEF LinksKept
    <4> QED BY <4>1, <2>0, <1>0, MuxAssumption DEF ChansOwned, Sender, SendersStay
  <2>4. StreamsOwned'
    BY <2>0, <2>1 DEF OwnInv, StreamsOwned, Sender, SendersStay, Fresh, StreamKept
  <2> QED BY <2>2, <2>3, <2>4 DEF OwnInv
<1>6. ASSUME NEW c \in Conns, WriteAnswer(c) PROVE OwnInv'
  <2>1. SendersStay /\ link' = link /\ conn'[c].id = conn[c].id /\ OthersKept(c)
    BY <1>6, WriteAnswerEffect DEF SendersStay, OthersKept, IdKept
  <2>2. PacketsOwned' /\ ChansOwned' /\ HoldOwned'
    BY <2>1 DEF OwnInv, PacketsOwned, ChansOwned, HoldOwned, Sender, SendersStay
  <2>3. conn[c].buf \in Seq(Reqs) /\ conn[c].got \in Seq(Reqs) /\ conn[c].buf # <<>>
    BY <1>6 DEF WriteAnswer, MuxTypeOK, Handlers
  <2>4. /\ conn'[c].buf = Tail(conn[c].buf)
        /\ conn'[c].got \in {conn[c].got, Append(conn[c].got, Head(conn[c].buf))}
    BY <1>6, WriteAnswerEffect
  <2>5. /\ \A k \in DOMAIN conn'[c].buf : \E j \in DOMAIN conn[c].buf : conn'[c].buf[k] = conn[c].buf[j]
        /\ \A k \in DOMAIN conn'[c].got : \/ \E j \in DOMAIN conn[c].buf : conn'[c].got[k] = conn[c].buf[j]
                                          \/ \E j \in DOMAIN conn[c].got : conn'[c].got[k] = conn[c].got[j]
    <3>1. \A k \in DOMAIN conn'[c].buf : k + 1 \in DOMAIN conn[c].buf /\ conn'[c].buf[k] = conn[c].buf[k + 1]
      BY <2>3, <2>4
    <3>2. Head(conn[c].buf) = conn[c].buf[1] /\ 1 \in DOMAIN conn[c].buf
      BY <2>3
    <3>3. \A k \in DOMAIN conn'[c].got : \/ conn'[c].got[k] = conn[c].buf[1]
                                         \/ k \in DOMAIN conn[c].got /\ conn'[c].got[k] = conn[c].got[k]
      <4>1. Head(conn[c].buf) \in Reqs
        BY <2>3
      <4>2. CASE conn'[c].got = conn[c].got
        BY <4>2
      <4>3. CASE conn'[c].got = Append(conn[c].got, Head(conn[c].buf))
        BY <2>3, <3>2, <4>1, <4>3, AppendAt
      <4> QED BY <2>4, <4>2, <4>3
    <3> QED BY <3>1, <3>2, <3>3
  <2>6. StreamsOwned'
    <3> SUFFICES ASSUME NEW x \in Conns, NEW d \in Conns, NEW n \in Nat
                 PROVE  /\ \A k \in DOMAIN conn'[x].buf :
                             conn'[x].buf[k] = <<d, n>> => SenderAfter(d, conn'[x].id)
                        /\ \A k \in DOMAIN conn'[x].got :
                             conn'[x].got[k] = <<d, n>> => SenderAfter(d, conn'[x].id)
      BY DEF StreamsOwned, Sender, SenderAfter
    <3>1. /\ \A k \in DOMAIN conn[x].buf :
                conn[x].buf[k] = <<d, n>> => SenderAfter(d, conn'[x].id)
          /\ \A k \in DOMAIN conn[x].got :
                conn[x].got[k] = <<d, n>> => SenderAfter(d, conn'[x].id)
      BY <2>1 DEF OwnInv, StreamsOwned, Sender, SenderAfter, SendersStay, OthersKept
    <3>2. CASE x = c
      BY <2>5, <3>1, <3>2
    <3>3. CASE x # c
      BY <2>1, <3>1, <3>3 DEF OthersKept
    <3> QED BY <3>2, <3>3
  <2> QED BY <2>2, <2>6 DEF OwnInv
<1>7. ASSUME NEW c \in Conns, WriterReturns(c) \/ Ask(c) \/ Leave(c) PROVE OwnInv'
  <2>1. SendersStay /\ link' = link /\ \A d \in Conns : StreamKept(d)
    BY <1>7, QuietEffect DEF SendersStay, OthersKept, StreamKept, IdKept
  <2> QED BY <2>1, OwnQuiet DEF StreamKept
<1>8. ASSUME NEW g \in Gens, StartPowerShell(g) PROVE OwnInv'
  <2>1. SendersStay /\ conn' = conn
    BY <1>8, StartEffect DEF SendersStay
  <2>2. \A h \in Gens : PipesKept(h) /\ LoopKept(h)
    BY <1>8, StartEffect DEF LinksKept, PipesKept, LoopKept
  <2> QED BY <2>1, <2>2, OwnQuiet DEF PipesKept, LoopKept
<1>9. ASSUME NEW g \in Gens, ReadPacket(g) PROVE OwnInv'
  <2>0. PICK p \in Incoming :
           /\ link[g].from # <<>> /\ p = link[g].from[1] /\ link[g].hold = <<>>
           /\ LinksKept(g)
           /\ link'[g].to = link[g].to /\ link'[g].from = Tail(link[g].from)
           /\ \A x \in Conns : StreamKept(x) /\ IdKept(x) /\ conn'[x].rd = conn[x].rd
           /\ \/ /\ p.type = "close" /\ link'[g].hold = <<>>
                 /\ link'[g].chans[p.id] = None
                 /\ \A i \in Ids \ {p.id} : link'[g].chans[i] = link[g].chans[i]
              \/ /\ p.type = "send" /\ link[g].chans[p.id] = None /\ link'[g].hold = <<>>
                 /\ link'[g].chans = link[g].chans
              \/ /\ p.type = "send" /\ link[g].chans[p.id] \in Conns
                 /\ link'[g].hold = <<link[g].chans[p.id], p.req>>
                 /\ link'[g].chans = link[g].chans
    BY <1>9, ReadPacketEffect
  <2>1. SendersStay
    BY <2>0 DEF SendersStay, IdKept
  <2>2. link[g].from \in Seq(Incoming) /\ p.id \in Ids
    BY DEF MuxTypeOK, Links, Incoming, Packets
  <2>3. PacketsOwned'
    <3>1. \A h \in Gens : link'[h].to = link[h].to
      BY <2>0 DEF LinksKept
    <3>2. \A h \in Gens : \A k \in DOMAIN link'[h].from : \E j \in DOMAIN link[h].from :
            link'[h].from[k] = link[h].from[j]
      <4>1. \A k \in DOMAIN link'[g].from : k + 1 \in DOMAIN link[g].from /\ link'[g].from[k] = link[g].from[k + 1]
        BY <2>0, <2>2
      <4>2. \A h \in Gens \ {g} : link'[h].from = link[h].from
        BY <2>0 DEF LinksKept
      <4> QED BY <4>1, <4>2
    <3> QED BY <2>1, <3>1, <3>2 DEF OwnInv, PacketsOwned, Sender, SendersStay
  <2>4. ChansOwned'
    <4>1. \A h \in Gens, i \in Ids : link'[h].chans[i] = link[h].chans[i] \/ link'[h].chans[i] = None
      BY <2>0 DEF LinksKept
    <4> QED BY <4>1, <2>1, <1>0, MuxAssumption DEF ChansOwned, Sender, SendersStay
  <2>5. HoldOwned'
    <3> SUFFICES ASSUME NEW h \in Gens, NEW c \in Conns, NEW d \in Conns, NEW n \in Nat,
                        link'[h].hold = <<c, <<d, n>>>>
                 PROVE  conn'[c].rd # "off" /\ SenderAfter(d, conn'[c].id)
      BY SMTT(30) DEF HoldOwned, Sender, SenderAfter
    <3>1. CASE link'[h].hold = link[h].hold
      BY <3>1, <2>0, <1>0 DEF HoldOwned, Sender, SenderAfter, IdKept
    <3>2. CASE link'[h].hold # link[h].hold
      <4>1. h = g /\ link'[g].hold = <<link[g].chans[p.id], p.req>> /\ link[g].chans[p.id] \in Conns
        BY <2>0, <3>2 DEF LinksKept
      <4>2. c = link[g].chans[p.id] /\ p.req = <<d, n>>
        BY <4>1
      <4>3. Sender(c, p.id)
        BY <4>2, <2>2, <1>0, SMTT(30) DEF ChansOwned
      <4>4. Sender(d, p.id)
        <5>1. 1 \in DOMAIN link[g].from
          BY <2>0, <2>2
        <5> QED BY <5>1, <4>2, <2>0 DEF OwnInv, PacketsOwned
      <4> QED BY <4>3, <4>4, <2>0 DEF Sender, SenderAfter, IdKept
    <3> QED BY <3>1, <3>2
  <2>6. StreamsOwned'
    <3>1. \A c \in Conns : /\ conn'[c].buf = conn[c].buf /\ conn'[c].got = conn[c].got
                            /\ conn'[c].id = conn[c].id
      BY <2>0 DEF StreamKept, IdKept
    <3>2. \A d \in Conns, i \in Ids : Sender(d, i) => SenderAfter(d, i)
      BY <2>1 DEF Sender, SenderAfter, SendersStay
    <3>3. \A c \in Conns : conn[c].id \in Ids
      BY DEF MuxTypeOK, Handlers
    <3>4. StreamsOwned
      BY DEF OwnInv
    <3> QED BY <3>1, <3>2, <3>3, <3>4 DEF StreamsOwned, Sender, SenderAfter
  <2> QED BY <2>3, <2>4, <2>5, <2>6 DEF OwnInv
<1>10. ASSUME NEW g \in Gens, Deliver(g) PROVE OwnInv'
  <2>0. PICK c \in Conns, r \in Reqs :
           /\ link[g].hold = <<c, r>>
           /\ \/ link' = link /\ conn' = conn
              \/ /\ OthersKept(c) /\ IdKept(c)
                 /\ conn'[c].rd = conn[c].rd /\ conn'[c].got = conn[c].got
                 /\ conn'[c].buf = Append(conn[c].buf, r)
                 /\ LinksKept(g) /\ PipesKept(g)
                 /\ link'[g].chans = link[g].chans /\ link'[g].hold = <<>>
    BY <1>10, DeliverEffect
  <2>1. CASE link' = link /\ conn' = conn
    BY <2>1, OwnQuiet DEF SendersStay
  <2>2. CASE ~(link' = link /\ conn' = conn)
    <3>1. SendersStay
      BY <2>0, <2>2 DEF SendersStay, OthersKept, IdKept
    <3>2. /\ \A h \in Gens : PipesKept(h) /\ link'[h].chans = link[h].chans
          /\ \A h \in Gens : link'[h].hold = link[h].hold \/ link'[h].hold = <<>>
      BY <2>0, <2>2 DEF LinksKept, PipesKept
    <3>3. PacketsOwned' /\ ChansOwned' /\ HoldOwned'
      <4>1. PacketsOwned'
        BY <3>1, <3>2 DEF OwnInv, PacketsOwned, Sender, SendersStay, PipesKept
      <4>2. ChansOwned'
        BY <3>1, <3>2 DEF OwnInv, ChansOwned, Sender, SendersStay
      <4>3. HoldOwned'
        BY <3>1, <3>2 DEF OwnInv, HoldOwned, Sender, SendersStay
      <4> QED BY <4>1, <4>2, <4>3
    <3>4. conn[c].buf \in Seq(Reqs)
      BY DEF MuxTypeOK, Handlers
    <3>5. \A k \in DOMAIN conn'[c].buf : \/ conn'[c].buf[k] = r
                                         \/ k \in DOMAIN conn[c].buf /\ conn'[c].buf[k] = conn[c].buf[k]
      <4>1. conn'[c].buf = Append(conn[c].buf, r)
        BY <2>0, <2>2
      <4> QED BY <3>4, <4>1, AppendAt
    <3>6. StreamsOwned'
      <4> SUFFICES ASSUME NEW x \in Conns, NEW d \in Conns, NEW n \in Nat
                   PROVE  /\ \A k \in DOMAIN conn'[x].buf :
                               conn'[x].buf[k] = <<d, n>> => SenderAfter(d, conn'[x].id)
                          /\ \A k \in DOMAIN conn'[x].got :
                               conn'[x].got[k] = <<d, n>> => SenderAfter(d, conn'[x].id)
        BY DEF StreamsOwned, Sender, SenderAfter
      <4>0. conn'[x].id = conn[x].id /\ conn'[x].got = conn[x].got
        BY <2>0, <2>2 DEF OthersKept, IdKept
      <4>1. /\ \A k \in DOMAIN conn[x].buf :
                  conn[x].buf[k] = <<d, n>> => SenderAfter(d, conn'[x].id)
            /\ \A k \in DOMAIN conn[x].got :
                  conn[x].got[k] = <<d, n>> => SenderAfter(d, conn'[x].id)
        BY <3>1, <4>0 DEF OwnInv, StreamsOwned, Sender, SenderAfter, SendersStay
      <4>2. r = <<d, n>> => SenderAfter(d, conn[c].id)
        BY <2>0, <3>1, <1>0 DEF HoldOwned, Sender, SenderAfter, SendersStay
      <4>3. CASE x = c
        BY <3>5, <4>0, <4>1, <4>2, <4>3
      <4>4. CASE x # c
        BY <2>0, <2>2, <4>0, <4>1, <4>4 DEF OthersKept
      <4> QED BY <4>3, <4>4
    <3> QED BY <3>3, <3>6 DEF OwnInv
  <2> QED BY <2>1, <2>2
<1>11. ASSUME NEW g \in Gens, ReadLoopEnds(g) \/ PowerShellDies(g) PROVE OwnInv'
  <2>1. conn' = conn /\ SendersStay
    BY <1>11, EndsEffect DEF SendersStay
  <2>2. \A h \in Gens : /\ link'[h].to = link[h].to \/ link'[h].to = <<>>
                        /\ link'[h].from = link[h].from /\ LoopKept(h)
    BY <1>11, EndsEffect DEF LinksKept, LoopKept
  <2>3. PacketsOwned' /\ ChansOwned' /\ HoldOwned'
    BY <2>1, <2>2 DEF OwnInv, PacketsOwned, ChansOwned, HoldOwned, Sender, LoopKept
  <2> QED BY <2>1, <2>3 DEF OwnInv, StreamsOwned, Sender
<1>12. ASSUME NEW g \in Gens, NEW k \in 1 .. PipeCap, Answer(g, k) PROVE OwnInv'
  <2>0. /\ conn' = conn /\ k \in 1 .. Len(link[g].to)
        /\ LinksKept(g) /\ LoopKept(g) /\ link'[g].to = Without(link[g].to, k)
    BY <1>12, AnswerEffect
  <2>1. PICK p \in Incoming : /\ link'[g].from = Append(link[g].from, p)
                               /\ p.req = link[g].to[k].req /\ p.id = link[g].to[k].id
    BY <1>12, AnswerEffect
  <2>2. link[g].to \in Seq(Outgoing) /\ link[g].from \in Seq(Incoming)
    BY DEF MuxTypeOK, Links
  <2>3. \A j \in DOMAIN link'[g].to : \E i \in DOMAIN link[g].to : link'[g].to[j] = link[g].to[i]
    <3>1. /\ Without(link[g].to, k) \in Seq(Outgoing)
          /\ Len(Without(link[g].to, k)) = Len(link[g].to) - 1
          /\ \A j \in 1 .. Len(link[g].to) - 1 :
               Without(link[g].to, k)[j] = link[g].to[IF j < k THEN j ELSE j + 1]
      BY <2>0, <2>2, WithoutType
    <3> QED BY <2>0, <2>2, <3>1
  <2>4. \A j \in DOMAIN link'[g].from : \/ link'[g].from[j] = p
                                        \/ j \in DOMAIN link[g].from /\ link'[g].from[j] = link[g].from[j]
    BY <2>1, <2>2
  <2>5. PacketsOwned'
    <3> SUFFICES ASSUME NEW h \in Gens, NEW d \in Conns, NEW n \in Nat
                 PROVE  /\ \A j \in DOMAIN link'[h].to :
                             link'[h].to[j].req = <<d, n>> => Sender(d, link'[h].to[j].id)
                        /\ \A j \in DOMAIN link'[h].from :
                             link'[h].from[j].req = <<d, n>> => Sender(d, link'[h].from[j].id)
      BY <2>0 DEF PacketsOwned, Sender
    <3>1. /\ \A j \in DOMAIN link[h].to :
               link[h].to[j].req = <<d, n>> => Sender(d, link[h].to[j].id)
          /\ \A j \in DOMAIN link[h].from :
               link[h].from[j].req = <<d, n>> => Sender(d, link[h].from[j].id)
      BY DEF OwnInv, PacketsOwned
    <3>2. CASE h # g
      BY <2>0, <3>1, <3>2 DEF LinksKept
    <3>3. CASE h = g
      <4>1. \A j \in DOMAIN link'[g].to :
               link'[g].to[j].req = <<d, n>> => Sender(d, link'[g].to[j].id)
        BY <2>3, <3>1, <3>3
      <4>2. p.req = <<d, n>> => Sender(d, p.id)
        <5>1. k \in DOMAIN link[g].to
          BY <2>0, <2>2
        <5> QED BY <5>1, <2>1, <3>1, <3>3
      <4>3. \A j \in DOMAIN link'[g].from :
               link'[g].from[j].req = <<d, n>> => Sender(d, link'[g].from[j].id)
        BY <2>4, <3>1, <3>3, <4>2
      <4> QED BY <3>3, <4>1, <4>3
    <3> QED BY <3>2, <3>3
  <2>6. ChansOwned' /\ HoldOwned'
    BY <2>0 DEF OwnInv, ChansOwned, HoldOwned, Sender, LinksKept, LoopKept
  <2> QED BY <2>0, <2>5, <2>6 DEF OwnInv, StreamsOwned, Sender
<1>13. ASSUME NEW c \in Conns, OfConnection(c) PROVE OwnInv'
  BY <1>13, <1>1, <1>2, <1>3, <1>4, <1>5, <1>6, <1>7 DEF OfConnection
<1>14. ASSUME NEW g \in Gens, OfLink(g) PROVE OwnInv'
  BY <1>14, <1>8, <1>9, <1>10, <1>11, <1>12 DEF OfLink
<1> QED BY <1>s, <1>13, <1>14 DEF Next

--------------------------------------------------------------------------------
(* While the first PowerShell is the only one *)
OneLink ==
    /\ proc.mux \in {0, 1}
    /\ \A g \in Gens \ {1} : /\ link[g].ps = "off"
                             /\ link[g].from = <<>> /\ link[g].hold = <<>>
    /\ link[1].ps = "off" => /\ proc.mux = 0 /\ link[1].to = <<>>
                             /\ link[1].from = <<>> /\ link[1].hold = <<>>
    /\ link[1].ps = "down" => link[1].to = <<>>
    /\ link[1].done => link[1].from = <<>> /\ link[1].hold = <<>> /\ link[1].ps = "down"

(* The numbers of the accepted connections are below channelID, and different. *)
OneId ==
    \A c \in Conns : conn[c].sock # "none" =>
      /\ conn[c].id < proc.next /\ conn[c].gen = 1
      /\ \A d \in Conns : conn[d].sock # "none" /\ conn[d].id = conn[c].id => d = c

(* A registered channel is open: CloseChannel closes and deletes it in one. *)
ChanOpen == \A i \in Ids, c \in Conns : link[1].chans[i] = c => conn[c].chan = "open"

(* A reader gives up only when its client or PowerShell is gone, and readLoop *)
(* holds an answer for a closed channel only when the reader has closed it.   *)
CloseOrder ==
    \A c \in Conns :
      /\ conn[c].rd \in {"sendClose", "closeChannel", "done"} =>
           link[1].done \/ conn[c].sock \in {"left", "closed"}
      /\ \A r \in Reqs : link[1].hold = <<c, r>> /\ conn[c].chan = "closed" => conn[c].rd = "done"

(* A connection passes on what its client has sent. *)
ReadIsSent == \A c \in Conns : conn[c].read <= conn[c].sent

(* The control half of what holds while no second PowerShell was started. *)
FirstInv == OneLink /\ OneId /\ ChanOpen /\ CloseOrder /\ ReadIsSent

(* The only link that steps is the first. *)
LEMMA OnlyFirst ==
  ASSUME MuxTypeOK, OneLink, FirstPowerShell
  PROVE  /\ 1 \in Gens
         /\ \A g \in Gens : OfLink(g) => g = 1
<1>1. 1 \in Gens
  BY MuxAssumption DEF Gens
<1>2. ASSUME NEW g \in Gens \ {1} PROVE ~OfLink(g)
  <2>1. link[g].ps = "off" /\ link[g].from = <<>> /\ link[g].hold = <<>> /\ proc.listen # g
    BY DEF OneLink, FirstPowerShell
  <2> QED BY <2>1 DEF OfLink, StartPowerShell, ReadPacket, Deliver, ReadLoopEnds, PowerShellDies,
     Answer
<1> QED BY <1>1, <1>2

(* Two handlers with one number are the same. *)
LEMMA SenderUnique ==
  ASSUME Fresh, OneId, NEW c \in Conns, NEW d \in Conns, NEW i, Sender(c, i), Sender(d, i)
  PROVE  c = d
  BY DEF Fresh, OneId, Sender

(* Every step keeps OneId. *)
LEMMA OneIdStep ==
  ASSUME MuxTypeOK, Fresh, OwnInv, OneId, Next, FirstPowerShell, FirstPowerShell', Running'
  PROVE  OneId'
<1>1. ASSUME NEW c \in Conns, Accept(c) PROVE OneId'
  <2>1. /\ conn[c].sock = "none" /\ OthersKept(c) /\ conn'[c].id = proc.next /\ conn'[c].gen = 1
        /\ proc'.next = proc.next + 1 /\ proc.next \in Nat
    BY <1>1, AcceptEffect DEF FirstPowerShell, MuxTypeOK, Procs
  <2>2. \A d \in Conns : conn[d].id \in Nat
    BY MuxAssumption, FS_CardinalityType, SMTT(30) DEF MuxTypeOK, Handlers, Ids
  <2>3. ASSUME NEW d \in Conns, conn'[d].sock # "none", d # c
        PROVE  conn'[d].id < proc.next /\ conn'[d].gen = 1
    BY <2>1, <2>3 DEF OneId, OthersKept
  <2>4. ASSUME NEW d \in Conns, NEW x \in Conns, conn'[d].sock # "none", conn'[x].sock # "none",
               conn'[x].id = conn'[d].id
        PROVE  x = d
    <3>1. CASE d # c /\ x # c
      BY <2>1, <2>4, <3>1 DEF OneId, OthersKept
    <3>2. CASE d = c /\ x # c
      BY <2>1, <2>2, <2>3, <2>4, <3>2
    <3>3. CASE d # c /\ x = c
      BY <2>1, <2>2, <2>3, <2>4, <3>3
    <3> QED BY <3>1, <3>2, <3>3
  <2>5. \A d \in Conns : conn'[d].sock # "none" => conn'[d].id < proc'.next /\ conn'[d].gen = 1
    <3>1. \A d \in Conns : conn'[d].id \in Nat
      BY <2>1, <2>2 DEF OthersKept
    <3> QED BY <2>1, <2>3, <3>1
  <2> QED BY <2>4, <2>5 DEF OneId
<1>2. ASSUME SocksStay, proc'.next = proc.next PROVE OneId'
  BY <1>2 DEF OneId, SocksStay, IdKept
<1>3. ~Signal
  BY DEF Signal, Running, MuxTypeOK, Procs
<1> QED BY <1>1, <1>2, <1>3, FreshStep DEF OwnInv

(* Every step keeps OneLink. *)
LEMMA OneLinkStep ==
  ASSUME MuxTypeOK, Fresh, OneLink, Next, FirstPowerShell, Running'
  PROVE  OneLink'
<1>0. 1 \in Gens
  BY OnlyFirst
<1>1. ASSUME proc'.mux = proc.mux, link' = link PROVE OneLink'
  BY <1>1 DEF OneLink
<1>2. ASSUME NEW c \in Conns, conn[c].rd # "off", NEW t, NEW r, WriteChannel(t, conn[c].id, r),
             proc' = proc
      PROVE  OneLink'
  <2>1. proc.mux = 1
    BY <1>2 DEF Fresh, OneLink
  <2>2. CASE link[1].ps = "down"
    BY <1>2, <2>1, <2>2, <1>1, WriteEffect
  <2>3. CASE link[1].ps # "down"
    <3>1. LinksKept(1) /\ ProcessKept(1) /\ LoopKept(1) /\ link'[1].from = link[1].from
      BY <1>2, <2>1, <2>3, WriteEffect
    <3> QED BY <1>2, <2>1, <2>3, <3>1 DEF OneLink, LinksKept, ProcessKept, LoopKept
  <2> QED BY <2>2, <2>3
<1>3. ASSUME NEW c \in Conns, OfConnection(c) PROVE OneLink'
  <2>1. CASE Accept(c)
    BY <2>1, <1>1, AcceptEffect
  <2>2. CASE HandleConnection(c)
    <3>1. proc.mux = 1 /\ proc' = proc
      BY <2>2, HandleEffect DEF OneLink, Gens
    <3>2. LinksKept(1) /\ PipesKept(1) /\ ProcessKept(1) /\ link'[1].hold = link[1].hold
      BY <2>2, <3>1, HandleEffect
    <3> QED BY <3>1, <3>2 DEF OneLink, LinksKept, ProcessKept, PipesKept
  <2>3. CASE PassRequest(c) \/ PassError(c) \/ SendClose(c)
    <3>1. proc' = proc /\ conn[c].rd # "off"
      BY <2>3, ReaderEffect
    <3> QED BY <2>3, <3>1, <1>2 DEF PassRequest, PassError, SendClose
  <2>4. CASE ReadEOF(c)
    BY <2>4, <1>1 DEF ReadEOF
  <2>5. CASE ReaderReturns(c)
    <3>1. /\ proc.mux \in Gens
          /\ LinksKept(proc.mux) /\ PipesKept(proc.mux) /\ ProcessKept(proc.mux)
          /\ link'[proc.mux].hold = link[proc.mux].hold
      BY <2>5, ReaderReturnsEffect
    <3>2. proc.mux = 1
      BY <3>1 DEF OneLink, Gens
    <3>3. proc'.mux = proc.mux
      BY <2>5 DEF ReaderReturns, CloseChannel, MuxTypeOK, Procs
    <3> QED BY <3>1, <3>2, <3>3, SMTT(30) DEF OneLink, LinksKept, ProcessKept, PipesKept
  <2>6. CASE WriteAnswer(c)
    BY <2>6, <1>1, WriteAnswerEffect
  <2>7. CASE WriterReturns(c) \/ Ask(c) \/ Leave(c)
    BY <2>7, <1>1, QuietEffect
  <2> QED BY <1>3, <2>1, <2>2, <2>3, <2>4, <2>5, <2>6, <2>7 DEF OfConnection
<1>4. ASSUME OfLink(1) PROVE OneLink'
  <2>1. CASE StartPowerShell(1)
    <3>1. /\ link[1].ps = "off" /\ LinksKept(1) /\ PipesKept(1) /\ LoopKept(1)
          /\ \/ link'[1].ps = "up" /\ link'[1].done = link[1].done /\ proc'.mux = 1
             \/ link'[1].ps = "down" /\ proc'.mux = proc.mux
      BY <2>1, <1>0, StartEffect
    <3>2. ~link[1].done /\ link[1].from = <<>> /\ link[1].hold = <<>> /\ link[1].to = <<>>
      BY <3>1 DEF OneLink
    <3> QED BY <3>1, <3>2 DEF OneLink, LinksKept, PipesKept, LoopKept
  <2>2. CASE ReadPacket(1)
    <3>1. PICK p \in Incoming :
           /\ link[1].from # <<>>
           /\ LinksKept(1) /\ ProcessKept(1) /\ link'[1].to = link[1].to
      BY <2>2, <1>0, ReadPacketEffect, SMTT(30)
    <3>2. proc'.mux = proc.mux
      BY <2>2 DEF ReadPacket, CloseChannel, MuxTypeOK, Procs
    <3> QED BY <3>1, <3>2, SMTT(30) DEF OneLink, LinksKept, ProcessKept
  <2>3. CASE Deliver(1)
    <3>1. /\ link[1].hold # <<>>
          /\ link' = link \/ (LinksKept(1) /\ PipesKept(1) /\ ProcessKept(1))
      BY <2>3, <1>0, DeliverEffect DEF Deliver
    <3>2. proc'.mux = proc.mux
      BY <2>3 DEF Deliver, MuxTypeOK, Procs
    <3> QED BY <3>1, <3>2, <1>1 DEF OneLink, LinksKept, ProcessKept, PipesKept
  <2>4. CASE ReadLoopEnds(1) \/ PowerShellDies(1)
    <3>1. /\ proc' = proc
          /\ LinksKept(1) /\ LoopKept(1) /\ link'[1].from = link[1].from
          /\ link'[1].ps = "down"
          /\ \/ /\ link[1].ps = "down" /\ link[1].from = <<>> /\ link[1].hold = <<>>
                /\ link'[1].to = link[1].to
             \/ /\ link[1].ps = "up" /\ link'[1].done = link[1].done /\ link'[1].to = <<>>
      BY <2>4, <1>0, EndsEffect
    <3> QED BY <3>1 DEF OneLink, LinksKept, LoopKept
  <2>5. ASSUME NEW k \in 1 .. PipeCap, Answer(1, k) PROVE OneLink'
    BY <2>5, <1>0, AnswerEffect DEF OneLink, LinksKept, LoopKept, ProcessKept
  <2> QED BY <1>4, <2>1, <2>2, <2>3, <2>4, <2>5 DEF OfLink
<1>5. ~Signal
  BY DEF Signal, Running, MuxTypeOK, Procs
<1> QED BY <1>3, <1>4, <1>5, OnlyFirst DEF Next

(* Every step keeps ChanOpen. *)
LEMMA ChanOpenStep ==
  ASSUME MuxTypeOK, Fresh, OwnInv, OneLink, OneId, ChanOpen, Next, FirstPowerShell, Running'
  PROVE  ChanOpen'
<1>0. 1 \in Gens
  BY OnlyFirst
<1>1. ASSUME link'[1].chans = link[1].chans, \A c \in Conns : conn'[c].chan = conn[c].chan
      PROVE  ChanOpen'
  BY <1>1 DEF ChanOpen
(* CloseChannel of the channel i *)
<1>2. ASSUME NEW i \in Ids, link'[1].chans[i] = None,
             \A j \in Ids \ {i} : link'[1].chans[j] = link[1].chans[j],
             \A c \in Conns : conn'[c].chan = IF c = link[1].chans[i] THEN "closed" ELSE conn[c].chan
      PROVE  ChanOpen'
  <2> SUFFICES ASSUME NEW j \in Ids, NEW c \in Conns, link'[1].chans[j] = c
               PROVE  conn'[c].chan = "open"
    BY DEF ChanOpen
  <2>1. j # i /\ link[1].chans[j] = c
    BY <1>2, MuxAssumption
  <2>2. link[1].chans[i] # c
    BY <1>0, <2>1 DEF OwnInv, ChansOwned, Sender
  <2> QED BY <1>2, <2>1, <2>2 DEF ChanOpen
<1>3. ASSUME NEW c \in Conns, OfConnection(c) PROVE ChanOpen'
  <2>1. CASE Accept(c)
    BY <2>1, <1>1, AcceptEffect DEF OthersKept
  <2>2. CASE HandleConnection(c)
    <3>1. proc.mux = 1
      BY <2>2, HandleEffect DEF OneLink, Gens
    <3>2. /\ conn'[c].chan = "open" /\ OthersKept(c) /\ link'[1].chans[conn[c].id] = c
          /\ \A i \in Ids \ {conn[c].id} : link'[1].chans[i] = link[1].chans[i]
      BY <2>2, <3>1, HandleEffect
    <3> QED BY <3>2 DEF ChanOpen, OthersKept
  <2>3. CASE PassRequest(c) \/ PassError(c) \/ SendClose(c)
    <3>1. conn[c].rd # "off" /\ \A d \in Conns : conn'[d].chan = conn[d].chan
      BY <2>3, ReaderEffect DEF OthersKept
    <3>2. proc.mux = 1
      BY <3>1 DEF OneLink, Fresh
    <3>3. PICK t, r : WriteChannel(t, conn[c].id, r)
      BY <2>3 DEF PassRequest, PassError, SendClose
    <3>4. link'[1].chans = link[1].chans
      BY <3>1, <3>2, <3>3, WriteEffect DEF LoopKept
    <3> QED BY <3>1, <3>4, <1>1
  <2>4. CASE ReadEOF(c)
    <3>1. \A d \in Conns : conn'[d].chan = conn[d].chan
      BY <2>4, ReaderEffect DEF OthersKept
    <3> QED BY <2>4, <3>1, <1>1 DEF ReadEOF
  <2>5. CASE ReaderReturns(c)
    <3>1. proc.mux = 1 /\ conn[c].id \in Ids
      BY <2>5, ReaderReturnsEffect DEF OneLink, Gens, MuxTypeOK, Handlers
    <3>2. /\ \A x \in Conns :
               conn'[x].chan = IF x = link[1].chans[conn[c].id] THEN "closed" ELSE conn[x].chan
          /\ link'[1].chans[conn[c].id] = None
          /\ \A i \in Ids \ {conn[c].id} : link'[1].chans[i] = link[1].chans[i]
      BY <2>5, <3>1, ReaderReturnsEffect
    <3> QED BY <3>1, <3>2, <1>2
  <2>6. CASE WriteAnswer(c)
    BY <2>6, <1>1, WriteAnswerEffect DEF OthersKept
  <2>7. CASE WriterReturns(c) \/ Ask(c) \/ Leave(c)
    BY <2>7, <1>1, QuietEffect DEF OthersKept
  <2> QED BY <1>3, <2>1, <2>2, <2>3, <2>4, <2>5, <2>6, <2>7 DEF OfConnection
<1>4. ASSUME OfLink(1) PROVE ChanOpen'
  <2>1. CASE StartPowerShell(1)
    BY <2>1, <1>0, <1>1, StartEffect DEF LoopKept
  <2>2. CASE ReadPacket(1)
    <3>1. PICK p \in Incoming :
           /\ \A x \in Conns :
                conn'[x].chan = IF p.type = "close" /\ x = link[1].chans[p.id] THEN "closed"
                                ELSE conn[x].chan
           /\ \/ /\ p.type = "close" /\ link'[1].chans[p.id] = None
                 /\ \A i \in Ids \ {p.id} : link'[1].chans[i] = link[1].chans[i]
              \/ p.type = "send" /\ link'[1].chans = link[1].chans
      BY <2>2, <1>0, ReadPacketEffect
    <3>2. p.id \in Ids
      BY DEF Incoming, Packets
    <3> QED BY <3>1, <3>2, <1>1, <1>2
  <2>3. CASE Deliver(1)
    BY <2>3, <1>0, <1>1, DeliverEffect DEF OthersKept
  <2>4. CASE ReadLoopEnds(1) \/ PowerShellDies(1)
    BY <2>4, <1>0, <1>1, EndsEffect DEF LoopKept
  <2>5. ASSUME NEW k \in 1 .. PipeCap, Answer(1, k) PROVE ChanOpen'
    BY <2>5, <1>0, <1>1, AnswerEffect DEF LoopKept
  <2> QED BY <1>4, <2>1, <2>2, <2>3, <2>4, <2>5 DEF OfLink
<1>5. ~Signal
  BY DEF Signal, Running, MuxTypeOK, Procs
<1> QED BY <1>3, <1>4, <1>5, OnlyFirst DEF Next

(* Every step keeps CloseOrder. *)
LEMMA CloseOrderStep ==
  ASSUME MuxTypeOK, Fresh, OwnInv, FirstInv, Next, FirstPowerShell, Running'
  PROVE  CloseOrder'
<1>0. 1 \in Gens
  BY OnlyFirst DEF FirstInv
<1> DEFINE Closing == {"sendClose", "closeChannel", "done"}
(* Nothing is taken from readLoop, and no channel is closed. *)
<1>1. ASSUME link'[1].hold = link[1].hold \/ link'[1].hold = <<>>,
             link'[1].done = link[1].done \/ link'[1].done = TRUE,
             \A c \in Conns :
               /\ conn'[c].chan = conn[c].chan \/ (conn'[c].chan = "open" /\ conn[c].rd = "off")
               /\ conn[c].rd = "done" => conn'[c].rd = "done"
               /\ conn'[c].rd \in Closing =>
                    link[1].done \/ conn'[c].sock \in {"left", "closed"}
      PROVE  CloseOrder'
  BY <1>1 DEF FirstInv, CloseOrder
<1>2. ASSUME NEW c \in Conns, OfConnection(c) PROVE CloseOrder'
  <2>1. CASE Accept(c)
    <3>1. conn[c].rd = "off"
      BY <2>1, AcceptEffect DEF Fresh
    <3> QED BY <2>1, <3>1, <1>1, AcceptEffect DEF OthersKept, FirstInv, CloseOrder
  <2>2. CASE HandleConnection(c)
    <3>1. proc.mux = 1
      BY <2>2, HandleEffect DEF FirstInv, OneLink, Gens
    <3>2. /\ conn[c].rd = "off" /\ conn'[c].rd = "connect" /\ conn'[c].chan = "open" /\ OthersKept(c)
          /\ link'[1].hold = link[1].hold /\ ProcessKept(1)
      BY <2>2, <3>1, HandleEffect
    <3> QED BY <3>2, <1>1 DEF OthersKept, ProcessKept, FirstInv, CloseOrder
  <2>3. CASE PassRequest(c) \/ PassError(c) \/ ReadEOF(c) \/ SendClose(c)
    <3>1. /\ conn[c].rd # "off" /\ conn[c].rd # "done" /\ conn'[c].rd # "done" /\ OthersKept(c)
          /\ conn'[c].sock = conn[c].sock /\ conn'[c].chan = conn[c].chan
          /\ conn'[c].rd \in {"sendClose", "closeChannel"} =>
               link[conn[c].gen].done \/ conn[c].sock = "left" \/ conn[c].rd = "sendClose"
      <4>1. conn[c].rd # "done"
        BY <2>3 DEF PassRequest, PassError, ReadEOF, SendClose, Reading
      <4> QED BY <2>3, <4>1, ReaderEffect
    <3>2. proc.mux = 1 /\ conn[c].gen = 1
      BY <3>1 DEF FirstInv, OneLink, OneId, Fresh
    <3>3. link' = link \/ \E t, r : WriteChannel(t, conn[c].id, r)
      BY <2>3 DEF PassRequest, PassError, SendClose, ReadEOF
    <3>4. link'[1].hold = link[1].hold /\ link'[1].done = link[1].done
      BY <3>1, <3>2, <3>3, WriteEffect DEF LoopKept, ProcessKept
    <3>5. conn'[c].rd \in Closing => link[1].done \/ conn'[c].sock \in {"left", "closed"}
      BY <3>1, <3>2 DEF FirstInv, CloseOrder
    <3> QED BY <3>1, <3>4, <3>5, <1>1 DEF OthersKept, FirstInv, CloseOrder
  <2>4. CASE ReaderReturns(c)
    <3>1. proc.mux = 1 /\ conn[c].id \in Ids
      BY <2>4, ReaderReturnsEffect DEF FirstInv, OneLink, Gens, MuxTypeOK, Handlers
    <3>2. /\ conn[c].rd = "closeChannel" /\ conn'[c].rd = "done"
          /\ \A x \in Conns :
               /\ conn'[x].sock = conn[x].sock
               /\ x # c => conn'[x].rd = conn[x].rd
               /\ conn'[x].chan = IF x = link[1].chans[conn[c].id] THEN "closed" ELSE conn[x].chan
          /\ link'[1].hold = link[1].hold /\ ProcessKept(1)
      BY <2>4, <3>1, ReaderReturnsEffect
    <3>3. \A x \in Conns : x = link[1].chans[conn[c].id] => x = c
      <4> SUFFICES ASSUME NEW x \in Conns, x = link[1].chans[conn[c].id] PROVE x = c
        OBVIOUS
      <4>1. Sender(x, conn[c].id)
        BY <1>0, <3>1 DEF OwnInv, ChansOwned
      <4>2. Sender(c, conn[c].id)
        BY <3>2 DEF Sender
      <4> QED BY <4>1, <4>2, SenderUnique DEF FirstInv
    <3>4. \A x \in Conns : x # c => conn'[x].chan = conn[x].chan
      BY <3>2, <3>3
    <3> QED BY <3>2, <3>4 DEF FirstInv, CloseOrder, ProcessKept
  <2>5. CASE WriteAnswer(c)
    BY <2>5, <1>1, WriteAnswerEffect DEF OthersKept, FirstInv, CloseOrder
  <2>6. CASE WriterReturns(c) \/ Ask(c) \/ Leave(c)
    <3>1. /\ link' = link /\ OthersKept(c) /\ conn'[c].chan = conn[c].chan /\ conn'[c].rd = conn[c].rd
          /\ conn'[c].sock \in {"left", "closed"} \/ conn'[c].sock = conn[c].sock
      BY <2>6, QuietEffect
    <3> QED BY <3>1, <1>1 DEF OthersKept, FirstInv, CloseOrder
  <2> QED BY <1>2, <2>1, <2>2, <2>3, <2>4, <2>5, <2>6 DEF OfConnection
<1>3. ASSUME OfLink(1) PROVE CloseOrder'
  <2>1. CASE StartPowerShell(1)
    BY <2>1, <1>0, <1>1, StartEffect DEF LoopKept, FirstInv, CloseOrder
  <2>2. CASE ReadPacket(1)
    <3>1. PICK p \in Incoming :
           /\ link[1].hold = <<>> /\ ProcessKept(1)
           /\ \A x \in Conns :
                /\ conn'[x].sock = conn[x].sock /\ conn'[x].rd = conn[x].rd
                /\ conn'[x].chan = IF p.type = "close" /\ x = link[1].chans[p.id] THEN "closed"
                                   ELSE conn[x].chan
           /\ \/ link'[1].hold = <<>>
              \/ /\ p.type = "send" /\ link[1].chans[p.id] \in Conns
                 /\ link'[1].hold = <<link[1].chans[p.id], p.req>>
      BY <2>2, <1>0, ReadPacketEffect
    <3>2. p.id \in Ids
      BY DEF Incoming, Packets
    <3>3. CASE link'[1].hold = <<>>
      BY <3>1, <3>3 DEF FirstInv, CloseOrder, ProcessKept
    <3>4. CASE link'[1].hold # <<>>
      <4>1. conn[link[1].chans[p.id]].chan = "open"
        BY <3>1, <3>2, <3>4 DEF FirstInv, ChanOpen
      <4>2. \A x \in Conns : conn'[x].chan = conn[x].chan
        BY <3>1, <3>4
      <4>3. \A c \in Conns, r \in Reqs : link'[1].hold = <<c, r>> => c = link[1].chans[p.id]
        BY <3>1, <3>4
      <4>4. \A c \in Conns, r \in Reqs : link'[1].hold = <<c, r>> => conn'[c].chan # "closed"
        BY <4>1, <4>2, <4>3
      <4> QED BY <3>1, <4>4 DEF FirstInv, CloseOrder, ProcessKept
    <3> QED BY <3>3, <3>4
  <2>3. CASE Deliver(1)
    <3>1. \/ link' = link /\ conn' = conn
          \/ \E c \in Conns : /\ OthersKept(c) /\ conn'[c].sock = conn[c].sock
                              /\ conn'[c].rd = conn[c].rd /\ conn'[c].chan = conn[c].chan
                              /\ ProcessKept(1) /\ link'[1].hold = <<>>
      BY <2>3, <1>0, DeliverEffect
    <3> QED BY <3>1 DEF OthersKept, FirstInv, CloseOrder, ProcessKept
  <2>4. CASE ReadLoopEnds(1) \/ PowerShellDies(1)
    <3>1. conn' = conn /\ link'[1].hold = link[1].hold
      BY <2>4, <1>0, EndsEffect DEF LoopKept
    <3>2. link'[1].done = link[1].done \/ link'[1].done = TRUE
      BY <2>4, <1>0 DEF ReadLoopEnds, PowerShellDies, MuxTypeOK, Links
    <3> QED BY <3>1, <3>2, <1>1 DEF FirstInv, CloseOrder
  <2>5. ASSUME NEW k \in 1 .. PipeCap, Answer(1, k) PROVE CloseOrder'
    BY <2>5, <1>0, <1>1, AnswerEffect DEF LoopKept, ProcessKept, FirstInv, CloseOrder
  <2> QED BY <1>3, <2>1, <2>2, <2>3, <2>4, <2>5 DEF OfLink
<1>4. ~Signal
  BY DEF Signal, Running, MuxTypeOK, Procs
<1> QED BY <1>2, <1>3, <1>4, OnlyFirst DEF Next, FirstInv

(* Every step keeps ReadIsSent. *)
LEMMA ReadIsSentStep ==
  ASSUME MuxTypeOK, MuxTypeOK', Fresh, FirstInv, Next, FirstPowerShell, Running'
  PROVE  ReadIsSent'
<1>0. \A c \in Conns : conn[c].read \in Nat /\ conn[c].sent \in Nat
  BY DEF MuxTypeOK, Handlers
<1>1. ASSUME \A c \in Conns : RequestsKept(c) PROVE ReadIsSent'
  BY <1>1 DEF FirstInv, ReadIsSent, RequestsKept
<1>2. ASSUME NEW c \in Conns, OfConnection(c) PROVE ReadIsSent'
  <2>1. CASE Accept(c)
    BY <2>1, <1>1, AcceptEffect DEF OthersKept, RequestsKept
  <2>2. CASE HandleConnection(c)
    BY <2>2, <1>1, HandleEffect DEF OthersKept, RequestsKept
  <2>3. CASE PassRequest(c)
    <3>1. /\ OthersKept(c) /\ conn'[c].sent = conn[c].sent
      BY <2>3, ReaderEffect
    <3>2. conn'[c].read = conn[c].read + 1 /\ conn[c].read < conn[c].sent
      BY <2>3 DEF PassRequest, MuxTypeOK, Handlers
    <3> QED BY <1>0, <3>1, <3>2 DEF FirstInv, ReadIsSent, OthersKept
  <2>4. CASE PassError(c) \/ ReadEOF(c) \/ SendClose(c)
    <3>1. /\ OthersKept(c) /\ conn'[c].sent = conn[c].sent
      BY <2>4, ReaderEffect
    <3>2. conn'[c].read = conn[c].read
      BY <2>4 DEF PassError, ReadEOF, SendClose, MuxTypeOK, Handlers
    <3> QED BY <3>1, <3>2, <1>1 DEF OthersKept, RequestsKept
  <2>5. CASE ReaderReturns(c)
    BY <2>5, <1>1, ReaderReturnsEffect
  <2>6. CASE WriteAnswer(c)
    BY <2>6, <1>1, WriteAnswerEffect DEF OthersKept, RequestsKept
  <2>7. CASE WriterReturns(c) \/ Ask(c) \/ Leave(c)
    <3>1. /\ OthersKept(c) /\ conn'[c].read = conn[c].read
          /\ conn'[c].sent = conn[c].sent \/ conn'[c].sent = conn[c].sent + 1
      BY <2>7, QuietEffect
    <3> QED BY <1>0, <3>1 DEF FirstInv, ReadIsSent, OthersKept
  <2> QED BY <1>2, <2>1, <2>2, <2>3, <2>4, <2>5, <2>6, <2>7 DEF OfConnection
<1>3. ASSUME OfLink(1) PROVE ReadIsSent'
  <2>0. 1 \in Gens
    BY OnlyFirst DEF FirstInv
  <2>1. \A c \in Conns : RequestsKept(c)
    <3>1. CASE StartPowerShell(1) \/ ReadLoopEnds(1) \/ PowerShellDies(1) \/ \E k \in 1 .. PipeCap : Answer(1, k)
      BY <3>1 DEF StartPowerShell, ReadLoopEnds, PowerShellDies, Answer, RequestsKept
    <3>2. CASE ReadPacket(1)
      BY <3>2, <2>0, ReadPacketEffect DEF StreamKept
    <3>3. CASE Deliver(1)
      BY <3>3, <2>0, DeliverEffect DEF OthersKept, RequestsKept
    <3> QED BY <1>3, <3>1, <3>2, <3>3 DEF OfLink
  <2> QED BY <2>1, <1>1
<1>4. ~Signal
  BY DEF Signal, Running, MuxTypeOK, Procs
<1> QED BY <1>2, <1>3, <1>4, OnlyFirst DEF Next, FirstInv

--------------------------------------------------------------------------------
(* The packet of request m of c is at k in q, or anywhere in it. *)
At(q, k, c, m) == k \in DOMAIN q /\ q[k].req = <<c, m>>
Has(q, c, m) == \E k \in DOMAIN q : q[k].req = <<c, m>>

(* The requests of c in q have rising numbers. *)
Rising(q, c) == \A j, k \in Nat, l, m \in Nat : At(q, j, c, l) /\ At(q, k, c, m) /\ j < k => l < m

(* Nothing is missing between the answers passed on and the requests read. *)
NoGap(t, f, c, n, s, ps) ==
    /\ \A k \in Nat, m \in Nat : At(f, k, c, m) => \A i \in s + 1 .. m - 1 : Has(f, c, i)
    /\ ps # "down" => \A i \in s + 1 .. n : Has(f, c, i) \/ Has(t, c, i)

(* The packets of the connection c in the pipes t to and f from PowerShell. *)
(* n requests were read from the client, s answers were passed on; o is *)
(* who is registered under its number, w its socket, ps PowerShell.         *)
PacketsOf(t, f, c, n, s, o, w, ps) ==
    /\ \A k \in Nat, m \in Nat : At(t, k, c, m) \/ At(f, k, c, m) => m \in 1 .. n /\ (o = c => s < m)
    /\ Rising(t, c) /\ Rising(f, c)
    /\ \A j, k \in Nat, l, m \in Nat : At(f, j, c, l) /\ At(t, k, c, m) => l < m
    /\ o = c /\ w = "open" => NoGap(t, f, c, n, s, ps)

(* The packets of c in p are packets in q, in the same order. *)
Within(p, q, c) ==
    \E h \in [Nat -> Nat] :
      /\ \A j, k \in Nat : j < k => h[j] < h[k]
      /\ \A k \in Nat, m \in Nat : At(p, k, c, m) => At(q, h[k], c, m)

(* Within is reflexive, *)
LEMMA WithinSelf == ASSUME NEW q, NEW c PROVE Within(q, q, c)
<1> DEFINE h == [k \in Nat |-> k]
<1>1. h \in [Nat -> Nat] /\ (\A j, k \in Nat : j < k => h[j] < h[k]) /\ \A k \in Nat : h[k] = k
  OBVIOUS
<1> HIDE DEF h
<1> QED BY <1>1 DEF Within

(* holds of the empty sequence, *)
LEMMA WithinEmpty == ASSUME NEW q, NEW c PROVE Within(<<>>, q, c)
<1> DEFINE h == [k \in Nat |-> k]
<1>1. h \in [Nat -> Nat] /\ (\A j, k \in Nat : j < k => h[j] < h[k]) /\ \A k \in Nat : h[k] = k
  OBVIOUS
<1>2. \A k \in Nat, m \in Nat : ~At(<<>>, k, c, m)
  BY DEF At
<1> HIDE DEF h
<1> QED BY <1>1, <1>2 DEF Within

(* of a sequence that got another packet, *)
LEMMA WithinAppend ==
  ASSUME NEW S, NEW q \in Seq(S), NEW p \in S, NEW c, \A m \in Nat : p.req # <<c, m>>
  PROVE  /\ Within(Append(q, p), q, c)
         /\ \A m \in Nat : Has(q, c, m) => Has(Append(q, p), c, m)
<1> DEFINE h == [k \in Nat |-> k]
<1>1. h \in [Nat -> Nat] /\ (\A j, k \in Nat : j < k => h[j] < h[k]) /\ \A k \in Nat : h[k] = k
  OBVIOUS
<1>2. \A k \in Nat, m \in Nat : At(Append(q, p), k, c, m) => At(q, k, c, m)
  BY AppendAt DEF At
<1>3. \A m \in Nat : Has(q, c, m) => Has(Append(q, p), c, m)
  BY AppendAt DEF Has
<1> HIDE DEF h
<1> QED BY <1>1, <1>2, <1>3 DEF Within

(* of one that lost its first packet, *)
LEMMA WithinTail ==
  ASSUME NEW S, NEW q \in Seq(S), q # <<>>, NEW c
  PROVE  /\ Within(Tail(q), q, c)
         /\ \A m \in Nat : Has(q, c, m) /\ q[1].req # <<c, m>> => Has(Tail(q), c, m)
<1> DEFINE h == [k \in Nat |-> k + 1]
<1>1. h \in [Nat -> Nat] /\ (\A j, k \in Nat : j < k => h[j] < h[k]) /\ \A k \in Nat : h[k] = k + 1
  OBVIOUS
<1>2. \A k \in Nat, m \in Nat : At(Tail(q), k, c, m) => At(q, k + 1, c, m)
  BY TailAt DEF At
<1>3. ASSUME NEW m \in Nat, Has(q, c, m), q[1].req # <<c, m>> PROVE Has(Tail(q), c, m)
  <2>1. PICK k \in DOMAIN q : q[k].req = <<c, m>>
    BY <1>3 DEF Has
  <2>2. k # 1
    BY <1>3, <2>1
  <2>3. k - 1 \in DOMAIN Tail(q) /\ Tail(q)[k - 1] = q[k]
    BY <2>2, TailAt
  <2> QED BY <2>1, <2>3 DEF Has
<1> HIDE DEF h
<1> QED BY <1>1, <1>2, <1>3 DEF Within

(* and of one that lost the packet at k. *)
LEMMA WithinWithout ==
  ASSUME NEW S, NEW q \in Seq(S), NEW i \in 1 .. Len(q), NEW c
  PROVE  /\ Within(Without(q, i), q, c)
         /\ \A m \in Nat : Has(q, c, m) /\ q[i].req # <<c, m>> => Has(Without(q, i), c, m)
         /\ \A k \in Nat, m \in Nat : At(Without(q, i), k, c, m) => \E j \in Nat : j # i /\ At(q, j, c, m)
<1> DEFINE h == [k \in Nat |-> IF k < i THEN k ELSE k + 1]
           w == Without(q, i)
<1>1. h \in [Nat -> Nat] /\ (\A j, k \in Nat : j < k => h[j] < h[k])
      /\ \A k \in Nat : h[k] = IF k < i THEN k ELSE k + 1
  OBVIOUS
<1>2. /\ w \in Seq(S) /\ Len(w) = Len(q) - 1
      /\ \A j \in 1 .. Len(q) - 1 : w[j] = q[IF j < i THEN j ELSE j + 1]
  BY WithoutType
<1> HIDE DEF w
<1>3. ASSUME NEW k \in Nat, NEW m \in Nat, At(w, k, c, m)
      PROVE  At(q, IF k < i THEN k ELSE k + 1, c, m)
  <2>1. k \in 1 .. Len(q) - 1 /\ w[k].req = <<c, m>>
    BY <1>2, <1>3 DEF At
  <2> QED BY <1>2, <2>1 DEF At
<1>4. ASSUME NEW m \in Nat, Has(q, c, m), q[i].req # <<c, m>> PROVE Has(w, c, m)
  <2>1. PICK k \in DOMAIN q : q[k].req = <<c, m>>
    BY <1>4 DEF Has
  <2>2. k \in 1 .. Len(q) /\ k # i
    BY <1>4, <2>1
  <2>3. CASE k < i
    <3>1. k \in DOMAIN w /\ w[k] = q[k]
      BY <1>2, <2>2, <2>3
    <3> QED BY <2>1, <3>1 DEF Has
  <2>4. CASE k > i
    <3>1. k - 1 \in DOMAIN w /\ w[k - 1] = q[k]
      <4>1. /\ k - 1 \in 1 .. Len(q) - 1 /\ ~(k - 1 < i) /\ (k - 1) + 1 = k
        BY <2>2, <2>4
      <4>2. DOMAIN w = 1 .. Len(q) - 1
        BY <1>2
      <4>3. w[k - 1] = q[IF k - 1 < i THEN k - 1 ELSE (k - 1) + 1]
        BY <1>2, <4>1, Zenon
      <4> QED BY <4>1, <4>2, <4>3
    <3> QED BY <2>1, <3>1 DEF Has
  <2> QED BY <2>2, <2>3, <2>4
<1>5. \A k \in Nat, m \in Nat : At(w, k, c, m) => \E j \in Nat : j # i /\ At(q, j, c, m)
  BY <1>3
<1> HIDE DEF h
<1>6. Within(w, q, c)
  BY <1>1, <1>3 DEF Within
<1> QED BY <1>4, <1>5, <1>6 DEF w

(* Packets may go and c may pass on fewer answers than it was sent.         *)
LEMMA PacketsKept ==
  ASSUME NEW t, NEW f, NEW t2, NEW f2, NEW c, NEW n \in Nat, NEW s \in Nat, NEW s2 \in Nat,
         NEW o, NEW o2, NEW w, NEW w2,
         NEW ps, NEW ps2,
         PacketsOf(t, f, c, n, s, o, w, ps), Within(t2, t, c), Within(f2, f, c),
         o2 = c => o = c /\ s2 <= s,
         o2 = c /\ w2 = "open" =>
           /\ w = "open" /\ s2 = s
           /\ \A m \in Nat : Has(f, c, m) => Has(f2, c, m)
           /\ ps2 # "down" => ps # "down" /\ \A m \in Nat : Has(t, c, m) => Has(t2, c, m)
  PROVE  PacketsOf(t2, f2, c, n, s2, o2, w2, ps2)
<1>1. PICK h \in [Nat -> Nat] :
        /\ \A j, k \in Nat : j < k => h[j] < h[k]
        /\ \A k \in Nat, m \in Nat : At(t2, k, c, m) => At(t, h[k], c, m)
  BY DEF Within
<1>2. PICK e \in [Nat -> Nat] :
        /\ \A j, k \in Nat : j < k => e[j] < e[k]
        /\ \A k \in Nat, m \in Nat : At(f2, k, c, m) => At(f, e[k], c, m)
  BY DEF Within
<1>3. \A k \in Nat, m \in Nat : At(t2, k, c, m) \/ At(f2, k, c, m) => m \in 1 .. n /\ (o2 = c => s2 < m)
  BY <1>1, <1>2 DEF PacketsOf
<1>4. Rising(t2, c) /\ Rising(f2, c)
  <2>1. Rising(t, c) /\ Rising(f, c)
    BY DEF PacketsOf
  <2>2. Rising(t2, c)
    BY <1>1, <2>1 DEF Rising
  <2>3. Rising(f2, c)
    BY <1>2, <2>1 DEF Rising
  <2> QED BY <2>2, <2>3
<1>5. \A j, k \in Nat, l, m \in Nat : At(f2, j, c, l) /\ At(t2, k, c, m) => l < m
  BY <1>1, <1>2 DEF PacketsOf
<1>6. ASSUME o2 = c, w2 = "open" PROVE NoGap(t2, f2, c, n, s2, ps2)
  <2>0. /\ o = c /\ w = "open" /\ s2 = s
        /\ \A m \in Nat : Has(f, c, m) => Has(f2, c, m)
        /\ ps2 # "down" => ps # "down" /\ \A m \in Nat : Has(t, c, m) => Has(t2, c, m)
    BY <1>6
  <2>1. NoGap(t, f, c, n, s, ps)
    BY <2>0 DEF PacketsOf
  <2>2. \A k \in Nat, m \in Nat : At(f2, k, c, m) => \A i \in s + 1 .. m - 1 : Has(f2, c, i)
    <3> SUFFICES ASSUME NEW k \in Nat, NEW m \in Nat, At(f2, k, c, m), NEW i \in s + 1 .. m - 1
                 PROVE  Has(f2, c, i)
      OBVIOUS
    <3>1. At(f, e[k], c, m) /\ e[k] \in Nat /\ i \in Nat
      BY <1>2
    <3>2. Has(f, c, i)
      BY <2>1, <3>1 DEF NoGap
    <3> QED BY <2>0, <3>1, <3>2
  <2>3. ASSUME ps2 # "down", NEW i \in s + 1 .. n PROVE Has(f2, c, i) \/ Has(t2, c, i)
    <3>1. i \in Nat /\ (Has(f, c, i) \/ Has(t, c, i))
      BY <2>0, <2>1, <2>3 DEF NoGap
    <3> QED BY <2>0, <2>3, <3>1
  <2> QED BY <2>0, <2>2, <2>3 DEF NoGap
<1> QED BY <1>3, <1>4, <1>5, <1>6 DEF PacketsOf

(* The next request of c is written. *)
LEMMA PacketAsked ==
  ASSUME NEW S, NEW t \in Seq(S), NEW f, NEW c, NEW n \in Nat, NEW s \in 0 .. n,
         NEW o, NEW w, NEW ps, NEW p \in S,
         p.req = <<c, n + 1>>, PacketsOf(t, f, c, n, s, o, w, ps), NEW t2,
         t2 = IF ps # "down" THEN Append(t, p) ELSE t
  PROVE  PacketsOf(t2, f, c, n + 1, s, o, w, ps)
<1>1. \A k \in Nat, m \in Nat : At(t2, k, c, m) =>
        \/ k <= Len(t) /\ At(t, k, c, m)
        \/ ps # "down" /\ k = Len(t) + 1 /\ m = n + 1
  <2>1. CASE ps # "down"
    BY <2>1, AppendAt DEF At
  <2>2. CASE ps = "down"
    BY <2>2 DEF At
  <2> QED BY <2>1, <2>2
<1>2. \A k \in Nat, m \in Nat : At(t, k, c, m) \/ At(f, k, c, m) => m \in 1 .. n /\ (o = c => s < m)
  BY DEF PacketsOf
<1>3. \A k \in Nat, m \in Nat : At(t2, k, c, m) \/ At(f, k, c, m) => m \in 1 .. n + 1 /\ (o = c => s < m)
  BY <1>1, <1>2
<1>4. Rising(t2, c)
  <2> SUFFICES ASSUME NEW j \in Nat, NEW k \in Nat, NEW l \in Nat, NEW m \in Nat,
                      At(t2, j, c, l), At(t2, k, c, m), j < k
               PROVE  l < m
    BY DEF Rising
  <2>0. Len(t) \in Nat /\ (At(t, j, c, l) \/ j = Len(t) + 1)
    BY <1>1
  <2>1. CASE k <= Len(t) /\ At(t, k, c, m)
    <3>1. j # Len(t) + 1
      BY <2>0, <2>1
    <3>2. At(t, j, c, l) /\ Rising(t, c)
      BY <2>0, <3>1 DEF PacketsOf
    <3> QED BY <2>1, <3>2 DEF Rising
  <2>2. CASE k = Len(t) + 1 /\ m = n + 1
    <3>1. j # Len(t) + 1
      BY <2>0, <2>2
    <3>2. At(t, j, c, l)
      BY <2>0, <3>1
    <3> QED BY <2>2, <3>2, <1>2
  <2> QED BY <1>1, <2>1, <2>2
<1>5. \A j, k \in Nat, l, m \in Nat : At(f, j, c, l) /\ At(t2, k, c, m) => l < m
  <2> SUFFICES ASSUME NEW j \in Nat, NEW k \in Nat, NEW l \in Nat, NEW m \in Nat,
                      At(f, j, c, l), At(t2, k, c, m)
               PROVE  l < m
    OBVIOUS
  <2>1. l \in 1 .. n
    BY <1>2
  <2> QED BY <1>1, <2>1 DEF PacketsOf
<1>6. ASSUME o = c, w = "open" PROVE NoGap(t2, f, c, n + 1, s, ps)
  <2>1. NoGap(t, f, c, n, s, ps)
    BY <1>6 DEF PacketsOf
  <2>2. ASSUME ps # "down", NEW i \in s + 1 .. n + 1 PROVE Has(f, c, i) \/ Has(t2, c, i)
    <3>1. t2 = Append(t, p)
      BY <2>2
    <3>2. CASE i = n + 1
      BY <3>1, <3>2, AppendAt DEF Has
    <3>3. CASE i # n + 1
      <4>1. Has(f, c, i) \/ Has(t, c, i)
        BY <2>1, <2>2, <3>3 DEF NoGap
      <4>2. Has(t, c, i) => Has(t2, c, i)
        BY <3>1, AppendAt DEF Has
      <4> QED BY <4>1, <4>2
    <3> QED BY <3>2, <3>3
  <2> QED BY <2>1, <2>2 DEF NoGap
<1> QED BY <1>3, <1>4, <1>5, <1>6 DEF PacketsOf

(* readLoop takes the next packet of c, which is the answer it expects. *)
LEMMA PacketRead ==
  ASSUME NEW S, NEW f \in Seq(S), f # <<>>, NEW t, NEW c, NEW n \in Nat, NEW s \in Nat,
         NEW w, NEW ps, NEW m \in Nat, f[1].req = <<c, m>>,
         PacketsOf(t, f, c, n, s, c, w, ps)
  PROVE  /\ s + 1 <= m /\ m <= n /\ (w = "open" => m = s + 1)
         /\ PacketsOf(t, Tail(f), c, n, s + 1, c, w, ps)
<1>0. At(f, 1, c, m) /\ Rising(f, c) /\ Rising(t, c)
  BY TailAt DEF At, PacketsOf
<1>1. m \in 1 .. n /\ s < m
  BY <1>0 DEF PacketsOf
<1>2. \A k \in Nat, l \in Nat : At(Tail(f), k, c, l) => At(f, k + 1, c, l) /\ m < l
  <2> SUFFICES ASSUME NEW k \in Nat, NEW l \in Nat, At(Tail(f), k, c, l)
               PROVE  At(f, k + 1, c, l) /\ m < l
    OBVIOUS
  <2>1. At(f, k + 1, c, l) /\ 1 < k + 1
    BY TailAt DEF At
  <2> QED BY <1>0, <2>1 DEF Rising
<1>3. ASSUME w = "open" PROVE m = s + 1
  <2> SUFFICES ASSUME m # s + 1 PROVE FALSE
    OBVIOUS
  <2>1. s + 1 \in s + 1 .. m - 1 /\ s + 1 \in Nat
    BY <1>1
  <2>2. Has(f, c, s + 1)
    BY <1>0, <1>3, <2>1 DEF PacketsOf, NoGap
  <2>3. PICK k \in DOMAIN f : f[k].req = <<c, s + 1>>
    BY <2>2 DEF Has
  <2>4. k \in Nat /\ k # 1 /\ k >= 1 /\ At(f, k, c, s + 1)
    BY <2>3 DEF At
  <2>5. m < s + 1
    BY <1>0, <2>1, <2>4 DEF Rising
  <2> QED BY <1>1, <2>5
<1>4. \A k \in Nat, l \in Nat : At(t, k, c, l) \/ At(Tail(f), k, c, l) => l \in 1 .. n /\ s + 1 < l
  <2> SUFFICES ASSUME NEW k \in Nat, NEW l \in Nat, At(t, k, c, l) \/ At(Tail(f), k, c, l)
               PROVE  l \in 1 .. n /\ s + 1 < l
    OBVIOUS
  <2>1. CASE At(t, k, c, l)
    BY <1>0, <1>1, <2>1 DEF PacketsOf
  <2>2. CASE At(Tail(f), k, c, l)
    <3>1. At(f, k + 1, c, l) /\ m < l /\ k + 1 \in Nat
      BY <1>2, <2>2
    <3> QED BY <3>1, <1>1 DEF PacketsOf
  <2> QED BY <2>1, <2>2
<1>5. Rising(Tail(f), c)
  <2> SUFFICES ASSUME NEW j \in Nat, NEW k \in Nat, NEW l \in Nat, NEW i \in Nat,
                      At(Tail(f), j, c, l), At(Tail(f), k, c, i), j < k
               PROVE  l < i
    BY DEF Rising
  <2>1. At(f, j + 1, c, l) /\ At(f, k + 1, c, i) /\ j + 1 < k + 1
    BY <1>2
  <2> QED BY <1>0, <2>1 DEF Rising
<1>6. \A j, k \in Nat, l, i \in Nat : At(Tail(f), j, c, l) /\ At(t, k, c, i) => l < i
  <2> SUFFICES ASSUME NEW j \in Nat, NEW k \in Nat, NEW l \in Nat, NEW i \in Nat,
                      At(Tail(f), j, c, l), At(t, k, c, i)
               PROVE  l < i
    OBVIOUS
  <2>1. At(f, j + 1, c, l) /\ j + 1 \in Nat
    BY <1>2
  <2> QED BY <2>1 DEF PacketsOf
<1>7. ASSUME w = "open" PROVE NoGap(t, Tail(f), c, n, s + 1, ps)
  <2>1. NoGap(t, f, c, n, s, ps)
    BY <1>7 DEF PacketsOf
  <2>2. ASSUME NEW i \in Nat, i > s + 1, Has(f, c, i) PROVE Has(Tail(f), c, i)
    <3>1. f[1].req # <<c, i>>
      BY <1>3, <1>7, <2>2
    <3> QED BY <2>2, <3>1, WithinTail
  <2>3. ASSUME NEW k \in Nat, NEW l \in Nat, At(Tail(f), k, c, l), NEW i \in s + 1 + 1 .. l - 1
        PROVE  Has(Tail(f), c, i)
    <3>1. At(f, k + 1, c, l) /\ k + 1 \in Nat /\ i \in s + 1 .. l - 1 /\ i \in Nat /\ i > s + 1
      BY <1>2, <2>3
    <3>2. Has(f, c, i)
      BY <2>1, <3>1 DEF NoGap
    <3> QED BY <2>2, <3>1, <3>2
  <2>4. ASSUME ps # "down", NEW i \in s + 1 + 1 .. n PROVE Has(Tail(f), c, i) \/ Has(t, c, i)
    <3>1. i \in s + 1 .. n /\ i \in Nat /\ i > s + 1
      BY <2>4
    <3>2. Has(f, c, i) \/ Has(t, c, i)
      BY <2>1, <2>4, <3>1 DEF NoGap
    <3> QED BY <2>2, <3>1, <3>2
  <2> QED BY <2>3, <2>4 DEF NoGap
<1>8. PacketsOf(t, Tail(f), c, n, s + 1, c, w, ps)
  BY <1>0, <1>4, <1>5, <1>6, <1>7 DEF PacketsOf
<1>9. s + 1 <= m /\ m <= n
  BY <1>1
<1> QED BY <1>3, <1>8, <1>9

(* A worker of PowerShell answers the first packet of c. *)
LEMMA PacketAnswered ==
  ASSUME NEW S, NEW R, NEW t \in Seq(S), NEW f \in Seq(R), NEW c, NEW n \in Nat, NEW s \in Nat,
         NEW o, NEW w, NEW ps,
         NEW i \in 1 .. Len(t), NEW m \in Nat, t[i].req = <<c, m>>,
         \A j \in Nat, l \in Nat : At(t, j, c, l) => i <= j,
         NEW p \in R, p.req = <<c, m>>, ps # "down",
         PacketsOf(t, f, c, n, s, o, w, ps)
  PROVE  PacketsOf(Without(t, i), Append(f, p), c, n, s, o, w, ps)
<1> DEFINE t2 == Without(t, i)
           f2 == Append(f, p)
<1>0. At(t, i, c, m) /\ i \in Nat /\ Rising(f, c) /\ Rising(t, c)
  BY DEF At, PacketsOf
<1>1. \A k \in Nat, l \in Nat : At(f2, k, c, l) => \/ k <= Len(f) /\ At(f, k, c, l)
                                                   \/ k = Len(f) + 1 /\ l = m
  BY AppendAt DEF At
<1>2. \A k \in Nat, l \in Nat : At(t2, k, c, l) => m < l /\ \E j \in Nat : At(t, j, c, l)
  <2> SUFFICES ASSUME NEW k \in Nat, NEW l \in Nat, At(t2, k, c, l)
               PROVE  m < l /\ \E j \in Nat : At(t, j, c, l)
    OBVIOUS
  <2>1. PICK j \in Nat : j # i /\ At(t, j, c, l)
    BY WithinWithout
  <2>2. i < j
    BY <1>0, <2>1
  <2> QED BY <1>0, <2>1, <2>2 DEF Rising
<1>3. /\ \A l \in Nat : Has(f, c, l) => Has(f2, c, l)
      /\ Has(f2, c, m)
      /\ \A l \in Nat : Has(t, c, l) /\ l # m => Has(t2, c, l)
  <2>1. \A l \in Nat : l # m => t[i].req # <<c, l>>
    OBVIOUS
  <2>2. \A l \in Nat : Has(t, c, l) /\ l # m => Has(t2, c, l)
    BY <2>1, WithinWithout
  <2>3. (\A l \in Nat : Has(f, c, l) => Has(f2, c, l)) /\ Has(f2, c, m)
    <3>1. /\ \A k \in DOMAIN f : k \in DOMAIN f2 /\ f2[k] = f[k]
          /\ Len(f) + 1 \in DOMAIN f2 /\ f2[Len(f) + 1] = p
      BY AppendAt
    <3> HIDE DEF f2
    <3> QED BY <3>1 DEF Has
  <2> QED BY <2>2, <2>3
<1>4. \A k \in Nat, l \in Nat : At(t, k, c, l) \/ At(f, k, c, l) => l \in 1 .. n /\ (o = c => s < l)
  BY DEF PacketsOf
<1>5. \A j \in Nat, l \in Nat : At(f, j, c, l) => l < m
  BY <1>0 DEF PacketsOf
<1>w. Within(t2, t, c)
  BY WithinWithout
<1> HIDE DEF t2, f2
<1>6. \A k \in Nat, l \in Nat : At(t2, k, c, l) \/ At(f2, k, c, l) => l \in 1 .. n /\ (o = c => s < l)
  BY <1>0, <1>1, <1>2, <1>4
<1>7. Rising(t2, c)
  <2>1. PICK h \in [Nat -> Nat] :
          /\ \A j, k \in Nat : j < k => h[j] < h[k]
          /\ \A k \in Nat, l \in Nat : At(t2, k, c, l) => At(t, h[k], c, l)
    BY <1>w DEF Within
  <2> QED BY <1>0, <2>1, ZenonT(40) DEF Rising
<1>8. Rising(f2, c)
  <2> SUFFICES ASSUME NEW j \in Nat, NEW k \in Nat, NEW l \in Nat, NEW x \in Nat,
                      At(f2, j, c, l), At(f2, k, c, x), j < k
               PROVE  l < x
    BY DEF Rising
  <2>0. Len(f) \in Nat
    OBVIOUS
  <2>1. CASE k <= Len(f)
    <3>1. At(f, j, c, l) /\ At(f, k, c, x)
      BY <1>1, <2>0, <2>1
    <3> QED BY <1>0, <3>1 DEF Rising
  <2>2. CASE k = Len(f) + 1
    BY <1>1, <1>5, <2>0, <2>2
  <2> QED BY <1>1, <2>0, <2>1, <2>2
<1>9. \A j, k \in Nat, l, x \in Nat : At(f2, j, c, l) /\ At(t2, k, c, x) => l < x
  <2> SUFFICES ASSUME NEW j \in Nat, NEW k \in Nat, NEW l \in Nat, NEW x \in Nat,
                      At(f2, j, c, l), At(t2, k, c, x)
               PROVE  l < x
    OBVIOUS
  <2>1. m < x
    BY <1>2
  <2>2. l <= m
    BY <1>1, <1>5
  <2> QED BY <2>1, <2>2
<1>10. ASSUME o = c, w = "open" PROVE NoGap(t2, f2, c, n, s, ps)
  <2>1. NoGap(t, f, c, n, s, ps)
    BY <1>10 DEF PacketsOf
  <2>2. \A x \in s + 1 .. n : Has(f2, c, x) \/ Has(t2, c, x)
    <3> SUFFICES ASSUME NEW x \in s + 1 .. n PROVE Has(f2, c, x) \/ Has(t2, c, x)
      OBVIOUS
    <3>1. x \in Nat /\ (Has(f, c, x) \/ Has(t, c, x))
      BY <2>1 DEF NoGap
    <3> QED BY <1>3, <3>1
  <2>3. \A x \in s + 1 .. m - 1 : Has(f, c, x)
    <3> SUFFICES ASSUME NEW x \in s + 1 .. m - 1 PROVE Has(f, c, x)
      OBVIOUS
    <3>1. x \in Nat /\ x < m /\ x \in s + 1 .. n
      BY <1>0, <1>4
    <3>2. Has(f, c, x) \/ Has(t, c, x)
      BY <2>1, <3>1 DEF NoGap
    <3>3. ASSUME NEW j \in DOMAIN t, t[j].req = <<c, x>> PROVE FALSE
      <4>1. At(t, j, c, x) /\ j \in Nat
        BY <3>3 DEF At
      <4>2. i < j \/ i = j
        BY <4>1, <3>1, <1>0
      <4>3. i # j
        BY <3>3, <3>1
      <4> QED BY <1>0, <3>1, <4>1, <4>2, <4>3 DEF Rising
    <3> QED BY <3>2, <3>3 DEF Has
  <2>4. ASSUME NEW k \in Nat, NEW l \in Nat, At(f2, k, c, l), NEW x \in s + 1 .. l - 1
        PROVE  Has(f2, c, x)
    <3>1. x \in Nat
      OBVIOUS
    <3>2. Has(f, c, x)
      BY <1>1, <2>1, <2>3, <2>4 DEF NoGap
    <3> QED BY <1>3, <3>1, <3>2
  <2> QED BY <2>2, <2>4 DEF NoGap
<1>11. PacketsOf(t2, f2, c, n, s, o, w, ps)
  BY <1>6, <1>7, <1>8, <1>9, <1>10 DEF PacketsOf
<1> QED BY <1>11 DEF t2, f2

--------------------------------------------------------------------------------
(* The answers of the connection c: got by its client, in its Go channel, and *)
(* held by readLoop.                                                          *)
Holds(hold, c) == hold # <<>> /\ hold[1] = c

(* The number of answers that readLoop has taken for c *)
Passed(got, buf, hold, c) == Len(got) + Len(buf) + IF Holds(hold, c) THEN 1 ELSE 0

(* The answers of c: those its client got are 1, 2, ... in order, those in the *)
(* Go channel and in the hands of readLoop follow, without a gap while its     *)
(* client is there.                                                            *)
AnswersOf(c, got, buf, hold, n, w) ==
    /\ \A j \in DOMAIN got : got[j] = <<c, j>>
    /\ \A j \in DOMAIN buf : \E k \in Nat :
         /\ buf[j] = <<c, k>> /\ Len(got) + j <= k /\ k <= n
         /\ w = "open" => k = Len(got) + j
    /\ Holds(hold, c) => \E k \in Nat :
         /\ hold[2] = <<c, k>> /\ Len(got) + Len(buf) + 1 <= k /\ k <= n
         /\ w = "open" => k = Len(got) + Len(buf) + 1
    /\ Len(got) + Len(buf) <= n

(* No more answers are passed on than requests were read. *)
LEMMA PassedBound ==
  ASSUME NEW c, NEW got \in Seq(Reqs), NEW buf \in Seq(Reqs), NEW hold, NEW n \in Nat, NEW w,
         AnswersOf(c, got, buf, hold, n, w)
  PROVE  Passed(got, buf, hold, c) \in 0 .. n
<1>1. Len(got) \in Nat /\ Len(buf) \in Nat
  OBVIOUS
<1>2. Len(got) + Len(buf) <= n /\ (Holds(hold, c) => Len(got) + Len(buf) + 1 <= n)
  BY <1>1 DEF AnswersOf
<1> QED BY <1>1, <1>2 DEF Passed

(* More requests, and a client that leaves, keep AnswersOf. *)
LEMMA AnswersKept ==
  ASSUME NEW c, NEW got \in Seq(Reqs), NEW buf \in Seq(Reqs), NEW hold, NEW hold2,
         NEW n \in Nat, NEW n2 \in Nat, NEW w, NEW w2,
         AnswersOf(c, got, buf, hold, n, w), n <= n2,
         Holds(hold2, c) => hold2 = hold,
         w2 = "open" => w = "open" \/ (buf = <<>> /\ ~Holds(hold2, c))
  PROVE  AnswersOf(c, got, buf, hold2, n2, w2)
<1>1. Len(got) \in Nat /\ Len(buf) \in Nat
  OBVIOUS
<1>2. \A j \in DOMAIN got : got[j] = <<c, j>>
  BY DEF AnswersOf
<1>3. ASSUME NEW j \in DOMAIN buf
      PROVE  \E k \in Nat : /\ buf[j] = <<c, k>> /\ Len(got) + j <= k /\ k <= n2
                            /\ w2 = "open" => k = Len(got) + j
  <2>1. PICK k \in Nat : /\ buf[j] = <<c, k>> /\ Len(got) + j <= k /\ k <= n
                         /\ w = "open" => k = Len(got) + j
    BY DEF AnswersOf
  <2>2. w2 = "open" => w = "open"
    OBVIOUS
  <2> QED BY <2>1, <2>2
<1>4. ASSUME Holds(hold2, c)
      PROVE  \E k \in Nat : /\ hold2[2] = <<c, k>> /\ Len(got) + Len(buf) + 1 <= k /\ k <= n2
                            /\ w2 = "open" => k = Len(got) + Len(buf) + 1
  <2>0. hold2 = hold /\ (w2 = "open" => w = "open")
    BY <1>4
  <2>1. PICK k \in Nat : /\ hold[2] = <<c, k>> /\ Len(got) + Len(buf) + 1 <= k /\ k <= n
                         /\ w = "open" => k = Len(got) + Len(buf) + 1
    BY <1>4, <2>0 DEF AnswersOf
  <2> QED BY <2>0, <2>1
<1>5. Len(got) + Len(buf) <= n2
  BY <1>1 DEF AnswersOf
<1> QED BY <1>2, <1>3, <1>4, <1>5 DEF AnswersOf

(* The held answer goes to the end of the Go channel. *)
LEMMA AnswersDelivered ==
  ASSUME NEW c, NEW got \in Seq(Reqs), NEW buf \in Seq(Reqs), NEW r \in Reqs,
         NEW n \in Nat, NEW w, AnswersOf(c, got, buf, <<c, r>>, n, w)
  PROVE  AnswersOf(c, got, Append(buf, r), <<>>, n, w)
<1>1. Len(got) \in Nat /\ Len(buf) \in Nat /\ Len(Append(buf, r)) = Len(buf) + 1
  BY AppendAt
<1>2. Holds(<<c, r>>, c) /\ ~Holds(<<>>, c) /\ <<c, r>>[2] = r
  BY DEF Holds
<1>3. PICK k \in Nat : /\ r = <<c, k>> /\ Len(got) + Len(buf) + 1 <= k /\ k <= n
                       /\ w = "open" => k = Len(got) + Len(buf) + 1
  BY <1>2 DEF AnswersOf
<1>4. ASSUME NEW j \in DOMAIN Append(buf, r)
      PROVE  \E i \in Nat : /\ Append(buf, r)[j] = <<c, i>> /\ Len(got) + j <= i /\ i <= n
                            /\ w = "open" => i = Len(got) + j
  <2>1. CASE j \in DOMAIN buf /\ Append(buf, r)[j] = buf[j]
    BY <2>1 DEF AnswersOf
  <2>2. CASE j = Len(buf) + 1 /\ Append(buf, r)[j] = r
    <3>1. Len(got) + j = Len(got) + Len(buf) + 1
      BY <1>1, <2>2
    <3> QED BY <1>3, <2>2, <3>1
  <2>3. \/ j \in DOMAIN buf /\ Append(buf, r)[j] = buf[j]
        \/ j = Len(buf) + 1 /\ Append(buf, r)[j] = r
    BY AppendAt
  <2> QED BY <2>1, <2>2, <2>3
<1>5. Len(got) + Len(Append(buf, r)) <= n
  BY <1>1, <1>3
<1>6. \A j \in DOMAIN got : got[j] = <<c, j>>
  BY DEF AnswersOf
<1> QED BY <1>2, <1>4, <1>5, <1>6 DEF AnswersOf

(* The writer takes the next answer, and its client gets it or is gone. *)
LEMMA AnswerWritten ==
  ASSUME NEW c, NEW got \in Seq(Reqs), NEW buf \in Seq(Reqs), buf # <<>>, NEW hold,
         NEW n \in Nat, NEW w, NEW w2, NEW got2, AnswersOf(c, got, buf, hold, n, w),
         \/ w = "open" /\ w2 = "open" /\ got2 = Append(got, Head(buf))
         \/ w2 # "open" /\ got2 = got
  PROVE  /\ AnswersOf(c, got2, Tail(buf), hold, n, w2)
         /\ Passed(got2, Tail(buf), hold, c) <= Passed(got, buf, hold, c)
         /\ w2 = "open" => Passed(got2, Tail(buf), hold, c) = Passed(got, buf, hold, c)
<1> DEFINE g == Len(got)
           b == Len(buf)
<1>1. /\ g \in Nat /\ b \in Nat /\ Len(Tail(buf)) = b - 1 /\ b >= 1
      /\ Head(buf) = buf[1] /\ buf[1] \in Reqs /\ 1 \in DOMAIN buf
  BY TailAt
<1>2. \A j \in DOMAIN Tail(buf) : j + 1 \in DOMAIN buf /\ Tail(buf)[j] = buf[j + 1] /\ j \in Nat
  BY TailAt
<1>0. /\ \A j \in DOMAIN got : got[j] = <<c, j>>
      /\ \A j \in DOMAIN buf : \E k \in Nat :
           /\ buf[j] = <<c, k>> /\ g + j <= k /\ k <= n
           /\ w = "open" => k = g + j
      /\ Holds(hold, c) => \E k \in Nat :
           /\ hold[2] = <<c, k>> /\ g + b + 1 <= k /\ k <= n
           /\ w = "open" => k = g + b + 1
      /\ g + b <= n
  BY DEF AnswersOf
<1>3. CASE w = "open" /\ w2 = "open" /\ got2 = Append(got, Head(buf))
  <2>1. Len(got2) = g + 1 /\ \A j \in DOMAIN got2 : \/ j \in DOMAIN got /\ got2[j] = got[j]
                                                    \/ j = g + 1 /\ got2[j] = buf[1]
    BY <1>1, <1>3, AppendAt
  <2>2. buf[1] = <<c, g + 1>>
    BY <1>0, <1>1, <1>3
  <2>3. \A j \in DOMAIN got2 : got2[j] = <<c, j>>
    BY <2>1, <2>2, <1>0
  <2> HIDE DEF g, b
  <2>4. ASSUME NEW j \in DOMAIN Tail(buf)
        PROVE  \E k \in Nat : /\ Tail(buf)[j] = <<c, k>> /\ Len(got2) + j <= k /\ k <= n
                              /\ w2 = "open" => k = Len(got2) + j
    <3>1. PICK k \in Nat : /\ buf[j + 1] = <<c, k>> /\ g + (j + 1) <= k /\ k <= n
                           /\ w = "open" => k = g + (j + 1)
      BY <1>0, <1>2
    <3>2. Len(got2) + j = g + (j + 1)
      BY <1>1, <1>2, <2>1
    <3> QED BY <1>2, <1>3, <3>1, <3>2
  <2>5. Len(got2) + Len(Tail(buf)) = g + b
    BY <1>1, <2>1
  <2>6. AnswersOf(c, got2, Tail(buf), hold, n, w2)
    BY <1>0, <1>3, <2>3, <2>4, <2>5 DEF AnswersOf
  <2>7. Passed(got2, Tail(buf), hold, c) = Passed(got, buf, hold, c)
    BY <2>5 DEF Passed, g, b
  <2>8. Passed(got, buf, hold, c) \in Int
    BY <1>1 DEF Passed, g, b
  <2> QED BY <2>6, <2>7, <2>8
<1>4. CASE w2 # "open" /\ got2 = got
  <2> HIDE DEF g, b
  <2>4. ASSUME NEW j \in DOMAIN Tail(buf)
        PROVE  \E k \in Nat : Tail(buf)[j] = <<c, k>> /\ g + j <= k /\ k <= n
    <3>1. PICK k \in Nat : buf[j + 1] = <<c, k>> /\ g + (j + 1) <= k /\ k <= n
      BY <1>0, <1>2
    <3>2. g + j <= k
      BY <1>1, <1>2, <3>1
    <3> QED BY <1>2, <3>1, <3>2
  <2>5. Holds(hold, c) => \E k \in Nat : hold[2] = <<c, k>> /\ g + Len(Tail(buf)) + 1 <= k /\ k <= n
    <3> SUFFICES ASSUME Holds(hold, c)
                 PROVE  \E k \in Nat : hold[2] = <<c, k>> /\ g + Len(Tail(buf)) + 1 <= k /\ k <= n
      OBVIOUS
    <3>1. PICK k \in Nat : hold[2] = <<c, k>> /\ g + b + 1 <= k /\ k <= n
      BY <1>0
    <3>2. g + Len(Tail(buf)) + 1 <= k
      BY <1>1, <3>1
    <3> QED BY <3>1, <3>2
  <2>6. g + Len(Tail(buf)) <= n
    BY <1>0, <1>1
  <2>7. AnswersOf(c, got2, Tail(buf), hold, n, w2)
    BY <1>0, <1>4, <2>4, <2>5, <2>6 DEF AnswersOf, g
  <2>8. Passed(got2, Tail(buf), hold, c) <= Passed(got, buf, hold, c)
    BY <1>1, <1>4 DEF Passed, g, b
  <2> QED BY <1>4, <2>7, <2>8
<1> QED BY <1>3, <1>4

(* readLoop holds the next answer of c. *)
LEMMA AnswerHeld ==
  ASSUME NEW c, NEW got \in Seq(Reqs), NEW buf \in Seq(Reqs), NEW n \in Nat, NEW w, NEW m \in Nat,
         AnswersOf(c, got, buf, <<>>, n, w), Passed(got, buf, <<>>, c) + 1 <= m, m <= n,
         w = "open" => m = Passed(got, buf, <<>>, c) + 1
  PROVE  /\ AnswersOf(c, got, buf, <<c, <<c, m>>>>, n, w)
         /\ Passed(got, buf, <<c, <<c, m>>>>, c) = Passed(got, buf, <<>>, c) + 1
<1> DEFINE h == <<c, <<c, m>>>>
<1>1. Holds(h, c) /\ h[2] = <<c, m>> /\ ~Holds(<<>>, c)
  BY DEF Holds
<1> HIDE DEF h
<1>2. Len(got) \in Nat /\ Len(buf) \in Nat
  OBVIOUS
<1>3. /\ Passed(got, buf, <<>>, c) = Len(got) + Len(buf)
      /\ Passed(got, buf, h, c) = Len(got) + Len(buf) + 1
  BY <1>1, <1>2 DEF Passed
<1>4. AnswersOf(c, got, buf, h, n, w)
  BY <1>1, <1>3 DEF AnswersOf
<1> QED BY <1>3, <1>4 DEF h

--------------------------------------------------------------------------------
(* The data half of what holds while no second PowerShell was started: every *)
(* connection has its packets and its answers in order.                      *)
DataInv ==
    \A c \in Conns :
      /\ PacketsOf(link[1].to, link[1].from, c, conn[c].read,
                   Passed(conn[c].got, conn[c].buf, link[1].hold, c),
                   link[1].chans[conn[c].id], conn[c].sock, link[1].ps)
      /\ AnswersOf(c, conn[c].got, conn[c].buf, link[1].hold, conn[c].read, conn[c].sock)

(* DataInv of the next state, for one connection *)
DataAfter(c) ==
    /\ PacketsOf(link'[1].to, link'[1].from, c, conn'[c].read,
                 Passed(conn'[c].got, conn'[c].buf, link'[1].hold, c),
                 link'[1].chans[conn'[c].id], conn'[c].sock, link'[1].ps)
    /\ AnswersOf(c, conn'[c].got, conn'[c].buf, link'[1].hold, conn'[c].read, conn'[c].sock)

(* c is in mux.channels. *)
Registered(c) == link[1].chans[conn[c].id] = c
RegisteredAfter(c) == link'[1].chans[conn'[c].id] = c

(* The types that the proofs about DataInv use *)
LEMMA DataTypes ==
  ASSUME MuxTypeOK, 1 \in Gens
  PROVE  /\ \A c \in Conns : /\ conn[c].got \in Seq(Reqs) /\ conn[c].buf \in Seq(Reqs)
                             /\ conn[c].read \in Nat /\ conn[c].id \in Ids
         /\ link[1].to \in Seq(Outgoing) /\ link[1].from \in Seq(Incoming)
         /\ \A i \in Ids : link[1].chans[i] \in Conns \cup {None}
  BY DEF MuxTypeOK, Handlers, Links

(* Passed is a number. *)
LEMMA PassedInt ==
  ASSUME NEW got \in Seq(Reqs), NEW buf \in Seq(Reqs), NEW hold, NEW c
  PROVE  Passed(got, buf, hold, c) \in Nat
<1>1. Len(got) \in Nat /\ Len(buf) \in Nat
  OBVIOUS
<1> QED BY <1>1 DEF Passed

(* A step that neither passes on an answer to x nor a request of x. *)
LEMMA DataKept ==
  ASSUME MuxTypeOK, DataInv, 1 \in Gens, NEW x \in Conns,
         conn'[x].read = conn[x].read, StreamKept(x),
         Within(link'[1].to, link[1].to, x), Within(link'[1].from, link[1].from, x),
         Holds(link'[1].hold, x) => link'[1].hold = link[1].hold,
         Holds(link[1].hold, x) => link'[1].hold = link[1].hold,
         conn'[x].sock = "open" =>
           conn[x].sock = "open" \/ (conn[x].buf = <<>> /\ ~Holds(link'[1].hold, x)),
         RegisteredAfter(x) => Registered(x),
         RegisteredAfter(x) /\ conn'[x].sock = "open" =>
           /\ conn[x].sock = "open"
           /\ \A m \in Nat : Has(link[1].from, x, m) => Has(link'[1].from, x, m)
           /\ link'[1].ps # "down" =>
                link[1].ps # "down" /\ \A m \in Nat : Has(link[1].to, x, m) => Has(link'[1].to, x, m)
  PROVE  DataAfter(x)
<1> DEFINE s == Passed(conn[x].got, conn[x].buf, link[1].hold, x)
           s2 == Passed(conn'[x].got, conn'[x].buf, link'[1].hold, x)
<1>1. /\ conn[x].got \in Seq(Reqs) /\ conn[x].buf \in Seq(Reqs) /\ conn[x].read \in Nat
  BY DataTypes
<1>2. s2 = s /\ s \in Nat
  <2>1. Holds(link'[1].hold, x) <=> Holds(link[1].hold, x)
    <3>1. CASE link'[1].hold = link[1].hold
      BY <3>1
    <3>2. CASE link'[1].hold # link[1].hold
      BY <3>2
    <3> QED BY <3>1, <3>2
  <2>2. s \in Nat
    BY <1>1, PassedInt
  <2>3. s2 = s
    BY <2>1 DEF Passed, StreamKept
  <2> QED BY <2>2, <2>3
<1>3. AnswersOf(x, conn[x].got, conn[x].buf, link[1].hold, conn[x].read, conn[x].sock)
  BY DEF DataInv
<1>4. AnswersOf(x, conn[x].got, conn[x].buf, link'[1].hold, conn[x].read, conn'[x].sock)
  <2>1. conn[x].read <= conn[x].read
    BY <1>1
  <2> QED BY <1>1, <1>3, <2>1, AnswersKept
<1>5. PacketsOf(link[1].to, link[1].from, x, conn[x].read, s,
                link[1].chans[conn[x].id], conn[x].sock, link[1].ps)
  BY DEF DataInv
<1> HIDE DEF s, s2
<1>6. s2 \in Nat /\ s2 <= s
  BY <1>2
<1>7. PacketsOf(link'[1].to, link'[1].from, x, conn[x].read, s2,
                link'[1].chans[conn'[x].id], conn'[x].sock, link'[1].ps)
  BY <1>1, <1>2, <1>5, <1>6, PacketsKept DEF Registered, RegisteredAfter
<1> QED BY <1>4, <1>7 DEF DataAfter, StreamKept, s2

(* The channel of a handler is registered for it or for nobody. *)
LEMMA RegisteredOwn ==
  ASSUME Fresh, OwnInv, OneId, 1 \in Gens, NEW c \in Conns, NEW d \in Conns, NEW i \in Ids,
         Sender(c, i), link[1].chans[i] = d
  PROVE  d = c
<1>1. Sender(d, i)
  BY DEF OwnInv, ChansOwned
<1> QED BY <1>1, SenderUnique

(* A packet without a request is written, or nothing. *)
LEMMA DataWrite ==
  ASSUME MuxTypeOK, MuxTypeOK', Fresh, OneLink, DataInv, 1 \in Gens, NEW c \in Conns,
  conn[c].rd # "off",
         NEW t \in {"connect", "send", "close"}, NEW r \in Reqs \cup {Empty},
         WriteChannel(t, conn[c].id, r), NEW x \in Conns, \A m \in Nat : r # <<x, m>>,
         conn'[x].read = conn[x].read, StreamKept(x), IdKept(x), conn'[x].sock = conn[x].sock
  PROVE  DataAfter(x)
<1>1. proc.mux = 1
  BY DEF Fresh, OneLink
<1>2. CASE link[1].ps = "down"
  <2>1. link' = link
    BY <1>1, <1>2, WriteEffect
  <2>2. Within(link'[1].to, link[1].to, x) /\ Within(link'[1].from, link[1].from, x)
    BY <2>1, WithinSelf
  <2> QED BY <2>1, <2>2, DataKept DEF IdKept, Registered, RegisteredAfter
<1>3. CASE link[1].ps # "down"
  <2> DEFINE p == [type |-> t, id |-> conn[c].id, req |-> r]
  <2>1. /\ ProcessKept(1) /\ LoopKept(1) /\ link'[1].from = link[1].from
        /\ link'[1].to = Append(link[1].to, p)
    BY <1>1, <1>3, WriteEffect
  <2>2. p \in Outgoing /\ link[1].to \in Seq(Outgoing) /\ p.req = r
    BY DEF Outgoing, Packets, MuxTypeOK, Handlers, Links
  <2> HIDE DEF p
  <2>3. Within(link'[1].to, link[1].to, x)
        /\ \A m \in Nat : Has(link[1].to, x, m) => Has(link'[1].to, x, m)
    BY <2>1, <2>2, WithinAppend
  <2>4. Within(link'[1].from, link[1].from, x)
    BY <2>1, WithinSelf
  <2> QED BY <2>1, <2>3, <2>4, DataKept DEF IdKept, Registered, RegisteredAfter, ProcessKept,
     LoopKept
<1> QED BY <1>2, <1>3

(* Every step of a connection keeps DataInv. *)
LEMMA DataOfConnection ==
  ASSUME MuxTypeOK, MuxTypeOK', Fresh, OwnInv, FirstInv, DataInv, FirstPowerShell, Running',
         NEW c \in Conns, OfConnection(c), NEW x \in Conns
  PROVE  DataAfter(x)
<1>0. 1 \in Gens /\ OneLink /\ OneId
  BY OnlyFirst DEF FirstInv
<1>t. /\ conn[x].got \in Seq(Reqs) /\ conn[x].buf \in Seq(Reqs) /\ conn[x].read \in Nat
      /\ conn[x].id \in Ids /\ link[1].to \in Seq(Outgoing) /\ link[1].from \in Seq(Incoming)
  BY <1>0, DataTypes
<1>f. conn[x].rd = "off" =>
        /\ conn[x].buf = <<>> /\ conn[x].read = 0 /\ ~Holds(link[1].hold, x)
        /\ \A i \in Ids : link[1].chans[i] # x
        /\ \A k \in Nat, m \in Nat : ~At(link[1].to, k, x, m) /\ ~At(link[1].from, k, x, m)
  <2> SUFFICES ASSUME conn[x].rd = "off"
               PROVE  /\ conn[x].buf = <<>> /\ conn[x].read = 0 /\ ~Holds(link[1].hold, x)
                      /\ \A i \in Ids : link[1].chans[i] # x
                      /\ \A k \in Nat, m \in Nat : ~At(link[1].to, k, x, m) /\ ~At(link[1].from, k, x, m)
    OBVIOUS
  <2>1. conn[x].buf = <<>> /\ conn[x].read = 0
    BY DEF Fresh
  <2>2. \A i \in Ids : link[1].chans[i] # x
    BY <1>0 DEF OwnInv, ChansOwned, Sender
  <2>3. ~Holds(link[1].hold, x)
    <3> SUFFICES ASSUME Holds(link[1].hold, x) PROVE FALSE
      OBVIOUS
    <3>1. link[1].hold \in Conns \X Reqs
      BY <1>0 DEF Holds, MuxTypeOK, Links
    <3>2. PICK d \in Conns, m \in Nat : link[1].hold = <<x, <<d, m>>>>
      BY <3>1 DEF Holds, Reqs
    <3> QED BY <1>0, <3>2 DEF OwnInv, HoldOwned
  <2>4. \A k \in Nat, m \in Nat : ~At(link[1].to, k, x, m) /\ ~At(link[1].from, k, x, m)
    BY <1>0 DEF OwnInv, PacketsOwned, Sender, At
  <2> QED BY <2>1, <2>2, <2>3, <2>4
<1>w. ASSUME link'[1].to = link[1].to, link'[1].from = link[1].from
      PROVE  /\ Within(link'[1].to, link[1].to, x) /\ Within(link'[1].from, link[1].from, x)
             /\ \A m \in Nat : Has(link[1].from, x, m) => Has(link'[1].from, x, m)
             /\ \A m \in Nat : Has(link[1].to, x, m) => Has(link'[1].to, x, m)
  BY <1>w, WithinSelf
<1>1. CASE Accept(c)
  <2>1. link' = link /\ OthersKept(c) /\ StreamKept(c) /\ RequestsKept(c) /\ conn[c].rd = "off"
        /\ conn'[c].id \in Ids
    BY <1>1, AcceptEffect DEF Fresh, MuxTypeOK, Handlers
  <2>2. CASE x = c
    <3>1. ~RegisteredAfter(x) /\ ~Holds(link'[1].hold, x) /\ conn[x].buf = <<>>
          /\ ~Holds(link[1].hold, x)
      BY <1>f, <2>1, <2>2 DEF RegisteredAfter
    <3> QED BY <1>0, <1>w, <2>1, <2>2, <3>1, DataKept DEF RequestsKept
  <2>3. CASE x # c
    BY <1>0, <1>w, <2>1, <2>3, DataKept DEF OthersKept, StreamKept, Registered, RegisteredAfter
  <2> QED BY <2>2, <2>3
<1>2. CASE HandleConnection(c)
  <2>0. proc.mux = 1
    BY <1>0, <1>2, HandleEffect DEF OneLink, Gens
  <2>1. /\ conn[c].rd = "off" /\ OthersKept(c) /\ StreamKept(c) /\ RequestsKept(c) /\ IdKept(c)
        /\ conn'[c].sock = conn[c].sock
        /\ PipesKept(1) /\ ProcessKept(1) /\ link'[1].hold = link[1].hold
        /\ link'[1].chans[conn[c].id] = c
        /\ \A i \in Ids \ {conn[c].id} : link'[1].chans[i] = link[1].chans[i]
    BY <1>2, <2>0, HandleEffect
  <2>2. CASE x = c
    <3>1. \A k \in Nat, m \in Nat : ~At(link'[1].to, k, x, m) /\ ~At(link'[1].from, k, x, m)
      BY <1>f, <2>1, <2>2 DEF PipesKept
    <3>2. conn'[x].read = 0 /\ Passed(conn'[x].got, conn'[x].buf, link'[1].hold, x) \in Nat
      BY <1>f, <1>t, <2>1, <2>2, PassedInt DEF RequestsKept, StreamKept
    <3>3. PacketsOf(link'[1].to, link'[1].from, x, conn'[x].read,
                    Passed(conn'[x].got, conn'[x].buf, link'[1].hold, x),
                    link'[1].chans[conn'[x].id], conn'[x].sock, link'[1].ps)
      <4> DEFINE s == Passed(conn'[x].got, conn'[x].buf, link'[1].hold, x)
      <4>1. s + 1 .. 0 = {}
        BY <3>2
      <4> HIDE DEF s
      <4> QED BY <3>1, <3>2, <4>1 DEF PacketsOf, Rising, NoGap, s
    <3>4. AnswersOf(x, conn'[x].got, conn'[x].buf, link'[1].hold, conn'[x].read, conn'[x].sock)
      BY <2>1, <2>2 DEF DataInv, StreamKept, RequestsKept
    <3> QED BY <3>3, <3>4 DEF DataAfter
  <2>3. CASE x # c
    <3>1. conn'[x] = conn[x] /\ (RegisteredAfter(x) => Registered(x))
      BY <1>t, <2>1, <2>3 DEF OthersKept, Registered, RegisteredAfter
    <3> QED BY <1>0, <1>w, <2>1, <3>1, DataKept DEF StreamKept, PipesKept, ProcessKept
  <2> QED BY <2>2, <2>3
<1>3. CASE PassRequest(c)
  <2>0. proc.mux = 1
    BY <1>0, <1>3, ReaderEffect DEF OneLink, Fresh
  <2>1. /\ conn[c].rd # "off" /\ OthersKept(c) /\ StreamKept(c) /\ IdKept(c)
        /\ conn'[c].sock = conn[c].sock
    BY <1>3, ReaderEffect
  <2>2. /\ conn'[c].read = conn[c].read + 1
        /\ WriteChannel(PacketType(c), conn[c].id, <<c, conn[c].read + 1>>)
        /\ PacketType(c) \in {"connect", "send", "close"} /\ conn[c].read + 1 \in Nat
        /\ <<c, conn[c].read + 1>> \in Reqs \cup {Empty}
    BY <1>3, SMTT(30) DEF PassRequest, MuxTypeOK, Handlers, PacketType, Reqs
  <2>3. CASE x # c
    <3>1. \A m \in Nat : <<c, conn[c].read + 1>> # <<x, m>>
      BY <2>3
    <3> QED BY <1>0, <2>1, <2>2, <2>3, <3>1, DataWrite DEF OthersKept, StreamKept, IdKept
  <2>4. CASE x = c
    <3> DEFINE p == [type |-> PacketType(c), id |-> conn[c].id, req |-> <<c, conn[c].read + 1>>]
               s == Passed(conn[c].got, conn[c].buf, link[1].hold, c)
    <3>1. p \in Outgoing /\ p.req = <<c, conn[c].read + 1>>
      BY <2>2 DEF Outgoing, Packets, MuxTypeOK, Handlers
    <3>2. s \in 0 .. conn[c].read
      BY <1>t, <2>4, PassedBound DEF DataInv
    <3>3. PacketsOf(link[1].to, link[1].from, c, conn[c].read, s,
                    link[1].chans[conn[c].id], conn[c].sock, link[1].ps)
      BY DEF DataInv
    <3>4. /\ link'[1].to = IF link[1].ps # "down" THEN Append(link[1].to, p) ELSE link[1].to
          /\ link'[1].from = link[1].from /\ ProcessKept(1) /\ LoopKept(1)
      <4>1. CASE link[1].ps = "down"
        BY <2>0, <2>1, <2>2, <4>1, WriteEffect DEF ProcessKept, LoopKept
      <4>2. CASE link[1].ps # "down"
        BY <2>0, <2>1, <2>2, <4>2, WriteEffect
      <4> QED BY <4>1, <4>2
    <3>5. Passed(conn'[c].got, conn'[c].buf, link'[1].hold, c) = s
      BY <2>1, <3>4 DEF StreamKept, LoopKept
    <3> HIDE DEF p, s
    <3>6. PacketsOf(link'[1].to, link[1].from, c, conn[c].read + 1, s,
                    link[1].chans[conn[c].id], conn[c].sock, link[1].ps)
      BY <1>t, <2>4, <3>1, <3>2, <3>3, <3>4, PacketAsked
    <3>7. AnswersOf(c, conn[c].got, conn[c].buf, link[1].hold, conn[c].read + 1, conn[c].sock)
      <4>1. conn[c].read <= conn[c].read + 1
        BY <1>t, <2>4
      <4>2. AnswersOf(c, conn[c].got, conn[c].buf, link[1].hold, conn[c].read, conn[c].sock)
        BY DEF DataInv
      <4> QED BY <1>t, <2>2, <2>4, <4>1, <4>2, AnswersKept
    <3> QED BY <2>1, <2>2, <2>4, <3>4, <3>5, <3>6, <3>7
         DEF DataAfter, StreamKept, IdKept, ProcessKept, LoopKept
  <2> QED BY <2>3, <2>4
<1>4. CASE PassError(c) \/ SendClose(c)
  <2>1. /\ conn[c].rd # "off" /\ OthersKept(c) /\ StreamKept(c) /\ IdKept(c)
        /\ conn'[c].sock = conn[c].sock
    BY <1>4, ReaderEffect
  <2>2. conn'[c].read = conn[c].read
    BY <1>4 DEF PassError, SendClose, MuxTypeOK, Handlers
  <2>3. PICK t \in {"connect", "send", "close"} : WriteChannel(t, conn[c].id, Empty)
    BY <1>4 DEF PassError, SendClose, PacketType
  <2>4. \A m \in Nat : Empty # <<x, m>>
    BY DEF Empty
  <2>5. conn'[x].read = conn[x].read /\ StreamKept(x) /\ IdKept(x) /\ conn'[x].sock = conn[x].sock
    BY <2>1, <2>2 DEF OthersKept, StreamKept, IdKept
  <2> QED BY <1>0, <2>1, <2>3, <2>4, <2>5, DataWrite
<1>5. CASE ReadEOF(c)
  <2>1. /\ OthersKept(c) /\ StreamKept(c) /\ IdKept(c) /\ conn'[c].sock = conn[c].sock
    BY <1>5, ReaderEffect
  <2>2. conn'[c].read = conn[c].read /\ link' = link
    BY <1>5 DEF ReadEOF, MuxTypeOK, Handlers
  <2>3. conn'[x].read = conn[x].read /\ StreamKept(x) /\ IdKept(x) /\ conn'[x].sock = conn[x].sock
    BY <2>1, <2>2 DEF OthersKept, StreamKept, IdKept
  <2> QED BY <1>0, <1>w, <2>2, <2>3, DataKept DEF IdKept, Registered, RegisteredAfter
<1>6. CASE ReaderReturns(c)
  <2>0. proc.mux = 1 /\ conn[c].id \in Ids
    <3>1. proc.mux \in Gens
      BY <1>6, ReaderReturnsEffect
    <3>2. proc.mux # 0
      BY <3>1, MuxAssumption DEF Gens
    <3>3. conn[c].id \in Ids
      BY DEF MuxTypeOK, Handlers
    <3> QED BY <1>0, <3>2, <3>3 DEF OneLink
  <2>1. /\ StreamKept(x) /\ RequestsKept(x) /\ IdKept(x) /\ conn'[x].sock = conn[x].sock
        /\ PipesKept(1) /\ ProcessKept(1) /\ link'[1].hold = link[1].hold
        /\ link'[1].chans[conn[c].id] = None
        /\ \A i \in Ids \ {conn[c].id} : link'[1].chans[i] = link[1].chans[i]
    BY <1>6, <2>0, ReaderReturnsEffect
  <2>2. RegisteredAfter(x) => Registered(x)
    BY <1>t, <2>1, MuxAssumption DEF IdKept, Registered, RegisteredAfter
  <2> QED BY <1>0, <1>w, <2>1, <2>2, DataKept DEF RequestsKept, PipesKept, ProcessKept
<1>7. CASE WriteAnswer(c)
  <2>1. /\ link' = link /\ conn[c].buf # <<>> /\ OthersKept(c) /\ RequestsKept(c) /\ IdKept(c)
        /\ conn'[c].buf = Tail(conn[c].buf)
        /\ \/ /\ conn[c].sock = "open" /\ conn'[c].sock = "open"
              /\ conn'[c].got = Append(conn[c].got, Head(conn[c].buf))
           \/ conn'[c].sock # "open" /\ conn'[c].got = conn[c].got
    BY <1>7, WriteAnswerEffect
  <2>2. CASE x # c
    BY <1>0, <1>w, <2>1, <2>2, DataKept DEF OthersKept, StreamKept, Registered, RegisteredAfter
  <2>3. CASE x = c
    <3> DEFINE s == Passed(conn[c].got, conn[c].buf, link[1].hold, c)
               s2 == Passed(conn'[c].got, conn'[c].buf, link'[1].hold, c)
    <3>1. /\ AnswersOf(c, conn'[c].got, conn'[c].buf, link'[1].hold, conn'[c].read, conn'[c].sock)
          /\ s2 <= s /\ (conn'[c].sock = "open" => s2 = s)
      <4>1. AnswersOf(c, conn[c].got, conn[c].buf, link[1].hold, conn[c].read, conn[c].sock)
        BY DEF DataInv
      <4>2. conn[c].got \in Seq(Reqs) /\ conn[c].buf \in Seq(Reqs) /\ conn[c].read \in Nat
        BY <1>t, <2>3
      <4>3. /\ AnswersOf(c, conn'[c].got, Tail(conn[c].buf), link[1].hold, conn[c].read, conn'[c].sock)
            /\ Passed(conn'[c].got, Tail(conn[c].buf), link[1].hold, c) <= s
            /\ conn'[c].sock = "open" => Passed(conn'[c].got, Tail(conn[c].buf), link[1].hold, c) = s
        BY <2>1, <4>1, <4>2, AnswerWritten
      <4> QED BY <2>1, <4>3 DEF RequestsKept
    <3>2. s \in Nat /\ s2 \in Nat
      <4>1. conn'[c].got \in Seq(Reqs) /\ conn'[c].buf \in Seq(Reqs)
        BY DEF MuxTypeOK, Handlers
      <4> QED BY <1>t, <2>3, <4>1, PassedInt
    <3>3. PacketsOf(link[1].to, link[1].from, c, conn[c].read, s,
                    link[1].chans[conn[c].id], conn[c].sock, link[1].ps)
      BY DEF DataInv
    <3>5. conn'[c].sock = "open" => conn[c].sock = "open"
      BY <2>1
    <3> HIDE DEF s, s2
    <3>4. PacketsOf(link[1].to, link[1].from, c, conn[c].read, s2,
                    link[1].chans[conn[c].id], conn'[c].sock, link[1].ps)
      <4>1. Within(link[1].to, link[1].to, c) /\ Within(link[1].from, link[1].from, c)
        BY WithinSelf
      <4>2. conn[c].read \in Nat
        BY <1>t, <2>3
      <4> QED BY <3>1, <3>2, <3>3, <3>5, <4>1, <4>2, PacketsKept
    <3> QED BY <2>1, <2>3, <3>1, <3>4 DEF DataAfter, IdKept, RequestsKept, s2
  <2> QED BY <2>2, <2>3
<1>8. CASE WriterReturns(c) \/ Ask(c) \/ Leave(c)
  <2>1. /\ link' = link /\ OthersKept(c) /\ StreamKept(c) /\ IdKept(c)
        /\ conn'[c].read = conn[c].read
        /\ conn'[c].sock \in {"left", "closed"} \/ conn'[c].sock = conn[c].sock
    BY <1>8, QuietEffect
  <2>2. /\ StreamKept(x) /\ IdKept(x) /\ conn'[x].read = conn[x].read
        /\ conn'[x].sock = "open" => conn[x].sock = "open"
    BY <2>1 DEF OthersKept, StreamKept, IdKept
  <2> QED BY <1>0, <1>w, <2>1, <2>2, DataKept DEF IdKept, Registered, RegisteredAfter
<1> QED BY <1>1, <1>2, <1>3, <1>4, <1>5, <1>6, <1>7, <1>8 DEF OfConnection

(* Every step of PowerShell or readLoop keeps DataInv. *)
LEMMA DataOfLink ==
  ASSUME MuxTypeOK, MuxTypeOK', Fresh, OwnInv, FirstInv, DataInv, FirstPowerShell, Running',
         OfLink(1), NEW x \in Conns
  PROVE  DataAfter(x)
<1>0. 1 \in Gens /\ OneLink /\ OneId
  BY OnlyFirst DEF FirstInv
<1>t. /\ conn[x].got \in Seq(Reqs) /\ conn[x].buf \in Seq(Reqs) /\ conn[x].read \in Nat
      /\ conn[x].id \in Ids /\ link[1].to \in Seq(Outgoing) /\ link[1].from \in Seq(Incoming)
  BY <1>0, DataTypes
<1>w. ASSUME link'[1].to = link[1].to, link'[1].from = link[1].from
      PROVE  /\ Within(link'[1].to, link[1].to, x) /\ Within(link'[1].from, link[1].from, x)
             /\ \A m \in Nat : Has(link[1].from, x, m) => Has(link'[1].from, x, m)
             /\ \A m \in Nat : Has(link[1].to, x, m) => Has(link'[1].to, x, m)
  BY <1>w, WithinSelf
<1>d. /\ PacketsOf(link[1].to, link[1].from, x, conn[x].read,
                   Passed(conn[x].got, conn[x].buf, link[1].hold, x),
                   link[1].chans[conn[x].id], conn[x].sock, link[1].ps)
      /\ AnswersOf(x, conn[x].got, conn[x].buf, link[1].hold, conn[x].read, conn[x].sock)
  BY DEF DataInv
<1>1. CASE StartPowerShell(1)
  <2>1. conn' = conn /\ PipesKept(1) /\ LoopKept(1) /\ link[1].ps = "off"
    BY <1>0, <1>1, StartEffect
  <2> QED BY <1>0, <1>w, <2>1, DataKept DEF PipesKept, LoopKept, StreamKept, Registered,
     RegisteredAfter
<1>2. CASE ReadPacket(1)
  <2>0. PICK p \in Incoming :
           /\ link[1].from # <<>> /\ p = link[1].from[1] /\ link[1].hold = <<>>
           /\ ProcessKept(1)
           /\ link'[1].to = link[1].to /\ link'[1].from = Tail(link[1].from)
           /\ StreamKept(x) /\ RequestsKept(x) /\ IdKept(x) /\ conn'[x].sock = conn[x].sock
           /\ \/ /\ p.type = "close" /\ link'[1].hold = <<>>
                 /\ link'[1].chans[p.id] = None
                 /\ \A i \in Ids \ {p.id} : link'[1].chans[i] = link[1].chans[i]
              \/ /\ p.type = "send" /\ link[1].chans[p.id] = None /\ link'[1].hold = <<>>
                 /\ link'[1].chans = link[1].chans
              \/ /\ p.type = "send" /\ link[1].chans[p.id] \in Conns
                 /\ link'[1].hold = <<link[1].chans[p.id], p.req>>
                 /\ link'[1].chans = link[1].chans
    BY <1>0, <1>2, ReadPacketEffect
  <2>1. p.id \in Ids /\ p.req \in Reqs \cup {Empty} /\ (p.req = Empty => p.type = "close")
    BY DEF Incoming, Packets
  <2>2. RegisteredAfter(x) => Registered(x)
    BY <1>t, <2>0, MuxAssumption, SMTT(30) DEF IdKept, Registered, RegisteredAfter
  <2>3. Within(link'[1].from, link[1].from, x) /\ Within(link'[1].to, link[1].to, x)
    BY <1>t, <2>0, WithinTail, WithinSelf
  <2>4. ~Holds(link[1].hold, x)
    BY <2>0, SMTT(30) DEF Holds
  (* x is sent nothing *)
  <2>5. ASSUME ~Holds(link'[1].hold, x),
               RegisteredAfter(x) => \A m \in Nat : p.req # <<x, m>>
        PROVE  DataAfter(x)
    <3>1. RegisteredAfter(x) => \A m \in Nat : Has(link[1].from, x, m) => Has(link'[1].from, x, m)
      BY <1>t, <2>0, <2>5, WithinTail
    <3>2. /\ StreamKept(x) /\ conn'[x].read = conn[x].read /\ conn'[x].sock = conn[x].sock
          /\ link'[1].ps = link[1].ps /\ link'[1].to = link[1].to
      BY <2>0, Zenon DEF RequestsKept, ProcessKept
    <3>3. /\ ~Holds(link'[1].hold, x) /\ ~Holds(link[1].hold, x)
          /\ Within(link'[1].to, link[1].to, x) /\ Within(link'[1].from, link[1].from, x)
          /\ RegisteredAfter(x) => Registered(x)
      BY <2>2, <2>3, <2>4, <2>5, Zenon
    <3>4. RegisteredAfter(x) /\ conn'[x].sock = "open" =>
           /\ conn[x].sock = "open"
           /\ \A m \in Nat : Has(link[1].from, x, m) => Has(link'[1].from, x, m)
           /\ link'[1].ps # "down" =>
                link[1].ps # "down" /\ \A m \in Nat : Has(link[1].to, x, m) => Has(link'[1].to, x, m)
      BY <3>1, <3>2, Zenon
    <3>5. conn'[x].sock = "open" =>
            conn[x].sock = "open" \/ (conn[x].buf = <<>> /\ ~Holds(link'[1].hold, x))
      BY <3>2, Zenon
    <3> QED BY <1>0, <3>2, <3>3, <3>4, <3>5, DataKept, Zenon
  <2>6. ASSUME NEW m \in Nat, p.req = <<x, m>>
        PROVE  Sender(x, p.id) /\ conn[x].id = p.id
    <3>1. 1 \in DOMAIN link[1].from
      BY <1>t, <2>0
    <3>2. link[1].from[1] = p
      BY <2>0
    <3>3. Sender(x, p.id)
      BY <1>0, <2>6, <3>1, <3>2 DEF OwnInv, PacketsOwned
    <3> QED BY <3>3 DEF Sender
  <2>7. CASE link'[1].hold = <<>>
    <3>1. ~Holds(link'[1].hold, x)
      BY <2>7 DEF Holds
    <3>2. ASSUME RegisteredAfter(x), NEW m \in Nat, p.req = <<x, m>> PROVE FALSE
      <4>1. link'[1].chans[p.id] = x
        BY <2>0, <2>6, <3>2 DEF RegisteredAfter, IdKept
      <4>2. \/ link'[1].chans[p.id] = None
            \/ link'[1].hold = <<link[1].chans[p.id], p.req>>
        BY <2>0, Zenon
      <4>3. link'[1].chans[p.id] = None
        BY <2>7, <4>2
      <4>4. None # x
        BY MuxAssumption
      <4> QED BY <4>1, <4>3, <4>4, Zenon
    <3> QED BY <2>5, <3>1, <3>2
  <2>8. CASE link'[1].hold # <<>>
    <3>1. /\ link[1].chans[p.id] \in Conns /\ link'[1].hold = <<link[1].chans[p.id], p.req>>
          /\ link'[1].chans = link[1].chans /\ p.type = "send"
      BY <2>0, <2>8
    <3>2. PICK d \in Conns, m \in Nat : p.req = <<d, m>>
      BY <2>1, <3>1 DEF Reqs
    <3>3. d = link[1].chans[p.id]
      <4>1. Sender(d, p.id)
        <5>1. 1 \in DOMAIN link[1].from
          BY <1>t, <2>0
        <5> QED BY <1>0, <2>0, <3>2, <5>1 DEF OwnInv, PacketsOwned
      <4> QED BY <1>0, <2>1, <3>1, <4>1, RegisteredOwn, SMTT(30)
    <3>4. CASE x # d
      <4>1. ~Holds(link'[1].hold, x) /\ \A i \in Nat : p.req # <<x, i>>
        BY <3>1, <3>2, <3>3, <3>4 DEF Holds
      <4> QED BY <2>5, <4>1
    <3>5. CASE x = d
      <4> DEFINE s == Passed(conn[x].got, conn[x].buf, <<>>, x)
      <4>1. s \in Nat
        BY <1>t, PassedInt
      <4>2. conn[x].id = p.id /\ link[1].chans[conn[x].id] = x
        BY <2>6, <3>2, <3>3, <3>5
      <4>3. /\ PacketsOf(link[1].to, link[1].from, x, conn[x].read, s, x, conn[x].sock, link[1].ps)
            /\ AnswersOf(x, conn[x].got, conn[x].buf, <<>>, conn[x].read, conn[x].sock)
        BY <1>d, <2>0, <4>2
      <4>4. link[1].from[1].req = <<x, m>>
        BY <2>0, <3>2, <3>5, SMTT(30)
      <4> HIDE DEF s
      <4>5. /\ s + 1 <= m /\ m <= conn[x].read /\ (conn[x].sock = "open" => m = s + 1)
            /\ PacketsOf(link[1].to, Tail(link[1].from), x, conn[x].read, s + 1, x,
                         conn[x].sock, link[1].ps)
        BY <1>t, <2>0, <4>1, <4>3, <4>4, PacketRead
      <4>6. /\ AnswersOf(x, conn[x].got, conn[x].buf, <<x, <<x, m>>>>, conn[x].read, conn[x].sock)
            /\ Passed(conn[x].got, conn[x].buf, <<x, <<x, m>>>>, x) = s + 1
        BY <1>t, <4>3, <4>5, AnswerHeld DEF s
      <4>7. link'[1].hold = <<x, <<x, m>>>>
        BY <3>1, <3>2, <3>3, <3>5
      <4> QED BY <2>0, <3>1, <4>2, <4>5, <4>6, <4>7
           DEF DataAfter, StreamKept, RequestsKept, IdKept, ProcessKept
    <3> QED BY <3>4, <3>5
  <2> QED BY <2>7, <2>8
<1>3. CASE Deliver(1)
  <2>0. PICK c \in Conns, r \in Reqs :
           /\ link[1].hold = <<c, r>>
           /\ \/ proc'.end = "panic"
              \/ /\ OthersKept(c) /\ IdKept(c) /\ RequestsKept(c)
                 /\ conn'[c].sock = conn[c].sock /\ conn'[c].got = conn[c].got
                 /\ conn'[c].buf = Append(conn[c].buf, r)
                 /\ PipesKept(1) /\ ProcessKept(1)
                 /\ link'[1].chans = link[1].chans /\ link'[1].hold = <<>>
    BY <1>0, <1>3, DeliverEffect
  <2>1. /\ OthersKept(c) /\ IdKept(c) /\ RequestsKept(c)
        /\ conn'[c].sock = conn[c].sock /\ conn'[c].got = conn[c].got
        /\ conn'[c].buf = Append(conn[c].buf, r)
        /\ PipesKept(1) /\ ProcessKept(1)
        /\ link'[1].chans = link[1].chans /\ link'[1].hold = <<>>
    BY <2>0 DEF Running
  <2>2. CASE x # c
    <3>1. ~Holds(link[1].hold, x) /\ ~Holds(link'[1].hold, x)
      BY <2>0, <2>1, <2>2 DEF Holds
    <3> QED BY <1>0, <1>w, <2>1, <2>2, <3>1, DataKept
         DEF OthersKept, StreamKept, PipesKept, ProcessKept, Registered, RegisteredAfter
  <2>3. CASE x = c
    <3>1. AnswersOf(x, conn[x].got, Append(conn[x].buf, r), <<>>, conn[x].read, conn[x].sock)
      BY <1>d, <1>t, <2>0, <2>3, AnswersDelivered
    <3>2. Passed(conn[x].got, Append(conn[x].buf, r), <<>>, x)
            = Passed(conn[x].got, conn[x].buf, link[1].hold, x)
      <4> DEFINE b2 == Append(conn[x].buf, r)
      <4>1. Len(b2) = Len(conn[x].buf) + 1
        BY <1>t, AppendAt
      <4>2. Len(conn[x].buf) \in Nat /\ Len(conn[x].got) \in Nat
        BY <1>t
      <4>3. Holds(link[1].hold, x) /\ ~Holds(<<>>, x)
        BY <2>0, <2>3 DEF Holds
      <4> HIDE DEF b2
      <4>4. /\ Passed(conn[x].got, b2, <<>>, x) = Len(conn[x].got) + Len(b2) + 0
            /\ Passed(conn[x].got, conn[x].buf, link[1].hold, x)
                 = Len(conn[x].got) + Len(conn[x].buf) + 1
        BY <4>3, Zenon DEF Passed
      <4>5. Passed(conn[x].got, b2, <<>>, x) = Passed(conn[x].got, conn[x].buf, link[1].hold, x)
        <5>1. ASSUME NEW g \in Nat, NEW b \in Nat, NEW l, l = b + 1 PROVE g + l + 0 = g + b + 1
          BY <5>1
        <5>2. Len(conn[x].got) + Len(b2) + 0 = Len(conn[x].got) + Len(conn[x].buf) + 1
          BY <4>1, <4>2, <5>1, Zenon
        <5> QED BY <4>4, <5>2, Zenon
      <4> QED BY <4>5 DEF b2
    <3> QED BY <1>d, <2>1, <2>3, <3>1, <3>2
         DEF DataAfter, IdKept, RequestsKept, PipesKept, ProcessKept
  <2> QED BY <2>2, <2>3
<1>4. CASE ReadLoopEnds(1) \/ PowerShellDies(1)
  <2>1. /\ conn' = conn /\ LoopKept(1) /\ link'[1].from = link[1].from /\ link'[1].ps = "down"
        /\ link'[1].to = link[1].to \/ link'[1].to = <<>>
    BY <1>0, <1>4, EndsEffect
  <2>2. Within(link'[1].to, link[1].to, x) /\ Within(link'[1].from, link[1].from, x)
    BY <2>1, WithinSelf, WithinEmpty
  <2> QED BY <1>0, <2>1, <2>2, DataKept DEF LoopKept, StreamKept, Registered, RegisteredAfter
<1>5. ASSUME NEW k \in 1 .. PipeCap, Answer(1, k) PROVE DataAfter(x)
  <2>0. /\ conn' = conn /\ k \in 1 .. Len(link[1].to) /\ First(1, k)
        /\ LoopKept(1) /\ ProcessKept(1) /\ link[1].ps = "up"
        /\ link'[1].to = Without(link[1].to, k)
    BY <1>0, <1>5, AnswerEffect
  <2>1. PICK p \in Incoming : /\ link'[1].from = Append(link[1].from, p)
                              /\ p.req = link[1].to[k].req /\ p.id = link[1].to[k].id
    BY <1>0, <1>5, AnswerEffect
  <2>2. CASE \A m \in Nat : p.req # <<x, m>>
    <3>1. /\ Within(link'[1].from, link[1].from, x)
          /\ \A m \in Nat : Has(link[1].from, x, m) => Has(link'[1].from, x, m)
      BY <1>t, <2>1, <2>2, WithinAppend
    <3>2. /\ Within(link'[1].to, link[1].to, x)
          /\ \A m \in Nat : Has(link[1].to, x, m) => Has(link'[1].to, x, m)
      <4>1. \A m \in Nat : link[1].to[k].req # <<x, m>>
        BY <2>1, <2>2
      <4>2. /\ Within(Without(link[1].to, k), link[1].to, x)
            /\ \A m \in Nat : Has(link[1].to, x, m) /\ link[1].to[k].req # <<x, m>> =>
                 Has(Without(link[1].to, k), x, m)
        BY <1>t, <2>0, WithinWithout
      <4> QED BY <2>0, <4>1, <4>2
    <3> QED BY <1>0, <2>0, <3>1, <3>2, DataKept
         DEF LoopKept, ProcessKept, StreamKept, Registered, RegisteredAfter
  <2>3. ASSUME NEW m \in Nat, p.req = <<x, m>> PROVE DataAfter(x)
    <3>1. \A j \in Nat, l \in Nat : At(link[1].to, j, x, l) => k <= j
      <4> SUFFICES ASSUME NEW j \in Nat, NEW l \in Nat, At(link[1].to, j, x, l), j < k
                   PROVE  FALSE
        BY <2>0
      <4>1. j \in DOMAIN link[1].to /\ k \in DOMAIN link[1].to /\ j \in 1 .. k - 1
        BY <1>t, <2>0 DEF At
      <4>2. link[1].to[j].id = conn[x].id /\ link[1].to[k].id = conn[x].id
        <5>1. link[1].to[j].req = <<x, l>> /\ link[1].to[k].req = <<x, m>>
          BY <2>1, <2>3 DEF At
        <5>2. Sender(x, link[1].to[j].id) /\ Sender(x, link[1].to[k].id)
          BY <1>0, <4>1, <5>1 DEF OwnInv, PacketsOwned
        <5> QED BY <5>2 DEF Sender
      <4> QED BY <2>0, <4>1, <4>2 DEF First
    <3>2. Passed(conn[x].got, conn[x].buf, link[1].hold, x) \in Nat
      BY <1>t, PassedInt
    <3>3. PacketsOf(Without(link[1].to, k), Append(link[1].from, p), x, conn[x].read,
                    Passed(conn[x].got, conn[x].buf, link[1].hold, x),
                    link[1].chans[conn[x].id], conn[x].sock, link[1].ps)
      BY <1>d, <1>t, <2>0, <2>1, <2>3, <3>1, <3>2, PacketAnswered
    <3> QED BY <1>d, <2>0, <2>1, <3>3 DEF DataAfter, LoopKept, ProcessKept
  <2> QED BY <2>2, <2>3
<1> QED BY <1>1, <1>2, <1>3, <1>4, <1>5 DEF OfLink

--------------------------------------------------------------------------------
(* With the first PowerShell: a client got its answers in order, and the ones *)
(* in its channel and in readLoop's hand are to requests it has passed on.    *)
GotInOrder == \A c \in Conns : \A n \in DOMAIN conn[c].got : conn[c].got[n] = <<c, n>>
HeldCounts ==
    \A g \in Gens, c \in Conns :
      Holds(link[g].hold, c) => Len(conn[c].got) + Len(conn[c].buf) < conn[c].read

(* Counting: the answer that is held is one more than those given and queued. *)
LEMMA OneMore ==
  ASSUME NEW g \in Nat, NEW b \in Nat, NEW k \in Nat, NEW r \in Nat, g + b + 1 <= k, k <= r
  PROVE  g + b < r
OBVIOUS

(* What readLoop holds is the answer to a request that is open. *)
LEMMA HeldIsOpen ==
  ASSUME MuxTypeOK, FirstInv, DataInv, 1 \in Gens, NEW c \in Conns, Holds(link[1].hold, c)
  PROVE  Len(conn[c].got) < conn[c].sent
<1>1. /\ conn[c].got \in Seq(Reqs) /\ conn[c].buf \in Seq(Reqs) /\ conn[c].read \in Nat
      /\ conn[c].sent \in Nat
  BY DEF MuxTypeOK, Handlers
<1>2. PICK k \in Nat : Len(conn[c].got) + Len(conn[c].buf) + 1 <= k /\ k <= conn[c].read
  BY DEF DataInv, AnswersOf
<1>3. conn[c].read <= conn[c].sent
  BY DEF FirstInv, ReadIsSent
<1>4. Len(conn[c].got) \in Nat /\ Len(conn[c].buf) \in Nat
  BY <1>1
<1>5. ASSUME NEW g \in Nat, NEW b \in Nat, NEW k2 \in Nat, NEW r \in Nat, NEW s \in Nat,
             g + b + 1 <= k2, k2 <= r, r <= s
      PROVE  g < s
  BY <1>5
<1> QED BY <1>1, <1>2, <1>3, <1>4, <1>5, Zenon

(* The same of the state after a step. *)
LEMMA HeldCountsAfter ==
  ASSUME MuxTypeOK', FirstInv', DataInv'
  PROVE  HeldCounts'
<1> SUFFICES ASSUME NEW g \in Gens, NEW c \in Conns, Holds(link'[g].hold, c)
             PROVE  Len(conn'[c].got) + Len(conn'[c].buf) < conn'[c].read
  BY DEF HeldCounts
<1>0. g = 1
  <2>1. link'[g].hold # <<>>
    BY DEF Holds
  <2> QED BY <2>1, MuxAssumption DEF FirstInv, OneLink, Gens
<1>1. conn'[c].got \in Seq(Reqs) /\ conn'[c].buf \in Seq(Reqs) /\ conn'[c].read \in Nat
  BY DEF MuxTypeOK, Handlers
<1>2. PICK k \in Nat : Len(conn'[c].got) + Len(conn'[c].buf) + 1 <= k /\ k <= conn'[c].read
  BY <1>0 DEF DataInv, AnswersOf
<1>3. Len(conn'[c].got) \in Nat /\ Len(conn'[c].buf) \in Nat
  BY <1>1
<1> QED BY <1>1, <1>2, <1>3, OneMore, Zenon

(* listenLoop never goes back to the first PowerShell. *)
LEMMA ListenStep ==
  ASSUME MuxTypeOK, Next, FirstPowerShell'
  PROVE  FirstPowerShell
<1>1. ASSUME proc'.listen = proc.listen PROVE FirstPowerShell
  BY <1>1 DEF FirstPowerShell
<1>2. ASSUME NEW c \in Conns, OfConnection(c) PROVE FirstPowerShell
  <2>1. CASE Accept(c)
    <3>1. proc'.listen = proc.listen \/ proc'.listen = proc.listen + 1
      BY <2>1, AcceptEffect
    <3> QED BY <3>1, MuxAssumption DEF FirstPowerShell, MuxTypeOK, Procs, Gens
  <2>2. CASE HandleConnection(c)
    BY <2>2, <1>1, SMTT(30) DEF HandleConnection, MuxTypeOK, Procs
  <2>3. CASE ReaderReturns(c)
    BY <2>3, <1>1 DEF ReaderReturns, CloseChannel, MuxTypeOK, Procs
  <2>4. CASE ~(Accept(c) \/ HandleConnection(c) \/ ReaderReturns(c))
    BY <1>2, <2>4, <1>1 DEF OfConnection, PassRequest, PassError, ReadEOF, SendClose, WriteAnswer,
         WriterReturns, Ask, Leave
  <2> QED BY <2>1, <2>2, <2>3, <2>4
<1>3. ASSUME NEW g \in Gens, OfLink(g) PROVE FirstPowerShell
  <2>1. CASE StartPowerShell(g)
    BY <2>1, <1>1, StartEffect
  <2>2. CASE ReadPacket(g)
    BY <2>2, <1>1 DEF ReadPacket, CloseChannel, MuxTypeOK, Procs
  <2>3. CASE Deliver(g)
    BY <2>3, <1>1 DEF Deliver, MuxTypeOK, Procs
  <2>4. CASE ~(StartPowerShell(g) \/ ReadPacket(g) \/ Deliver(g))
    BY <1>3, <2>4, <1>1 DEF OfLink, ReadLoopEnds, PowerShellDies, Answer
  <2> QED BY <2>1, <2>2, <2>3, <2>4
<1>4. CASE Signal
  BY <1>4, <1>1 DEF Signal, MuxTypeOK, Procs
<1> QED BY <1>2, <1>3, <1>4 DEF Next

(* The last step of a proxy with one PowerShell *)
LEMMA EndStep ==
  ASSUME MuxTypeOK, Fresh, OwnInv, FirstInv, DataInv, Running, FirstPowerShell, Next, ~Running',
  ~Signal
  PROVE  /\ link' = link /\ conn' = conn
         /\ proc'.end = "panic" => \E c \in Conns : /\ conn[c].sock \in {"left", "closed"}
                                                    /\ Len(conn[c].got) < conn[c].sent
<1>0. 1 \in Gens
  BY OnlyFirst DEF FirstInv
<1>e. proc'.end # proc.end
  BY DEF Running
<1>1. ASSUME NEW c \in Conns, OfConnection(c) PROVE HandleConnection(c)
  <2>1. ~Accept(c)
    BY <1>e, AcceptEffect
  <2>2. ~ReaderReturns(c)
    <3> SUFFICES ASSUME ReaderReturns(c) PROVE FALSE
      OBVIOUS
    <3> DEFINE d == link[proc.mux].chans[conn[c].id]
    <3>1. proc.mux \in Gens /\ d # None /\ conn[d].chan = "closed"
      BY <1>e, ReaderReturnsEffect
    <3>2. proc.mux = 1
      BY <3>1, MuxAssumption DEF FirstInv, OneLink, Gens
    <3>3. conn[c].id \in Ids /\ d \in Conns
      BY <3>1 DEF MuxTypeOK, Handlers, Links
    <3> QED BY <3>1, <3>2, <3>3 DEF FirstInv, ChanOpen
  <2> QED BY <1>1, <1>e, <2>1, <2>2 DEF OfConnection, PassRequest, PassError, ReadEOF, SendClose,
         WriteAnswer, WriterReturns, Ask, Leave
<1>2. ASSUME OfLink(1) PROVE Deliver(1)
  <2>1. ~StartPowerShell(1)
    BY <1>0, <1>e, StartEffect
  <2>2. ~ReadPacket(1)
    <3> SUFFICES ASSUME ReadPacket(1) PROVE FALSE
      OBVIOUS
    <3>1. PICK p \in Incoming : link[1].chans[p.id] \in Conns /\ conn[link[1].chans[p.id]].chan = "closed"
      BY <1>0, <1>e, ReadPacketEffect
    <3>2. p.id \in Ids
      BY DEF Incoming, Packets
    <3> QED BY <3>1, <3>2 DEF FirstInv, ChanOpen
  <2> QED BY <1>2, <1>e, <2>1, <2>2 DEF OfLink, ReadLoopEnds, PowerShellDies, Answer
<1>3. ASSUME NEW c \in Conns, HandleConnection(c)
      PROVE  link' = link /\ conn' = conn /\ proc'.end = "nil"
  BY <1>3, HandleNil
<1>4. ASSUME Deliver(1)
      PROVE  /\ link' = link /\ conn' = conn
             /\ \E c \in Conns : conn[c].sock \in {"left", "closed"} /\ Len(conn[c].got) < conn[c].sent
  <2>1. PICK c \in Conns, r \in Reqs :
           link[1].hold = <<c, r>> /\ conn[c].chan = "closed" /\ link' = link /\ conn' = conn
    BY <1>0, <1>4, <1>e, DeliverEffect
  <2>2. conn[c].rd = "done"
    BY <2>1 DEF FirstInv, CloseOrder
  <2>3. ~link[1].done
    BY <2>1 DEF FirstInv, OneLink
  <2>4. conn[c].sock \in {"left", "closed"}
    BY <2>2, <2>3 DEF FirstInv, CloseOrder
  <2>5. Holds(link[1].hold, c)
    BY <2>1 DEF Holds
  <2>6. Len(conn[c].got) < conn[c].sent
    BY <1>0, <2>5, HeldIsOpen
  <2> QED BY <2>1, <2>4, <2>6
<1>5. (\E c \in Conns : OfConnection(c)) \/ OfLink(1)
  BY OnlyFirst DEF Next, FirstInv
<1> QED BY <1>1, <1>2, <1>3, <1>4, <1>5

--------------------------------------------------------------------------------
(* What holds until the proxy ends *)
RunningInv == NextIsFree /\ (FirstPowerShell => FirstInv /\ DataInv)

(* The inductive invariant.  Its last two parts stay true of the state in which *)
(* the proxy has ended.                                                         *)
MuxInv ==
    /\ MuxTypeOK /\ Fresh /\ OwnInv
    /\ Running => RunningInv
    /\ FirstPowerShell => GotInOrder /\ HeldCounts
    /\ PanicNeedsLeaver

(* MuxInv holds initially. *)
LEMMA MuxInvInit == Init => MuxInv
<1> SUFFICES ASSUME Init PROVE MuxInv
  OBVIOUS
<1>1. MuxTypeOK
  BY TypeInit
<1>2. /\ \A c \in Conns : conn[c] = NoConn
      /\ \A g \in Gens : link[g] = NoLink
      /\ proc.mux = 0 /\ proc.listen = 1 /\ proc.next = 1 /\ proc.end = "no" /\ 1 \in Gens
  BY MuxAssumption DEF Init, Gens
<1>3. /\ \A c \in Conns : /\ conn[c].sock = "none" /\ conn[c].rd = "off" /\ conn[c].buf = <<>>
                          /\ conn[c].got = <<>> /\ conn[c].read = 0 /\ conn[c].sent = 0
                          /\ conn[c].chan = "none"
  BY <1>2 DEF NoConn
<1>4. \A g \in Gens : /\ link[g].ps = "off" /\ link[g].to = <<>> /\ link[g].from = <<>>
                      /\ link[g].hold = <<>> /\ link[g].done = FALSE
                      /\ \A i \in Ids : link[g].chans[i] = None
  BY <1>2 DEF NoLink
<1>5. Fresh
  BY <1>3 DEF Fresh
<1>6. OwnInv
  <2>1. PacketsOwned
    BY <1>4 DEF PacketsOwned
  <2>2. ChansOwned
    BY <1>4, MuxAssumption DEF ChansOwned
  <2>4. HoldOwned
    BY <1>4 DEF HoldOwned, Holds
  <2>3. StreamsOwned
    BY <1>3 DEF StreamsOwned
  <2> QED BY <2>1, <2>2, <2>3, <2>4 DEF OwnInv
<1>7. NextIsFree
  <2>1. Accepted = {}
    BY <1>3 DEF Accepted
  <2> QED BY <1>2, <2>1, FS_EmptySet DEF NextIsFree
<1>8. FirstInv
  <2>1. OneLink /\ OneId
    BY <1>2, <1>3, <1>4 DEF OneLink, OneId
  <2>2. ChanOpen
    BY <1>2, <1>4, MuxAssumption DEF ChanOpen
  <2>3. CloseOrder
    BY <1>2, <1>3, <1>4 DEF CloseOrder
  <2>4. ReadIsSent
    BY <1>3, MuxAssumption DEF ReadIsSent
  <2> QED BY <2>1, <2>2, <2>3, <2>4 DEF FirstInv
<1>9. DataInv
  <2> SUFFICES ASSUME NEW c \in Conns
               PROVE  /\ PacketsOf(<<>>, <<>>, c, 0, Passed(<<>>, <<>>, <<>>, c),
                                   link[1].chans[conn[c].id], conn[c].sock, link[1].ps)
                      /\ AnswersOf(c, <<>>, <<>>, <<>>, 0, conn[c].sock)
    BY <1>2, <1>3, <1>4 DEF DataInv
  <2>1. ~Holds(<<>>, c)
    BY DEF Holds
  <2>2. Passed(<<>>, <<>>, <<>>, c) = 0
    BY <2>1 DEF Passed
  <2>3. \A k \in Nat, m \in Nat : ~At(<<>>, k, c, m)
    BY DEF At
  <2>4. PacketsOf(<<>>, <<>>, c, 0, 0, link[1].chans[conn[c].id], conn[c].sock, link[1].ps)
    <3>1. Rising(<<>>, c)
      BY <2>3 DEF Rising
    <3>2. 0 + 1 .. 0 = {}
      OBVIOUS
    <3>3. NoGap(<<>>, <<>>, c, 0, 0, link[1].ps)
      BY <2>3, <3>2, Zenon DEF NoGap
    <3> QED BY <2>3, <3>1, <3>3, Zenon DEF PacketsOf
  <2>5. AnswersOf(c, <<>>, <<>>, <<>>, 0, conn[c].sock)
    BY <2>1 DEF AnswersOf
  <2> QED BY <2>2, <2>4, <2>5
<1>10. GotInOrder /\ HeldCounts /\ PanicNeedsLeaver
  <2>1. GotInOrder /\ PanicNeedsLeaver
    BY <1>2, <1>3 DEF GotInOrder, PanicNeedsLeaver
  <2>2. \A g \in Gens, c \in Conns : ~Holds(link[g].hold, c)
    BY <1>4 DEF Holds
  <2> QED BY <2>1, <2>2, Zenon DEF HeldCounts
<1> QED BY <1>1, <1>5, <1>6, <1>7, <1>8, <1>9, <1>10 DEF MuxInv, RunningInv

(* Every step keeps MuxInv. *)
LEMMA MuxInvStep == MuxInv /\ [Next]_vars => MuxInv'
<1> SUFFICES ASSUME MuxInv, [Next]_vars PROVE MuxInv'
  OBVIOUS
<1>1. CASE UNCHANGED vars
  <2>1. proc' = proc /\ link' = link /\ conn' = conn
    BY <1>1 DEF vars
  <2>2. MuxTypeOK' /\ Fresh' /\ OwnInv'
    <3>1. MuxTypeOK /\ Fresh /\ PacketsOwned /\ ChansOwned /\ HoldOwned /\ StreamsOwned
      BY DEF MuxInv, OwnInv
    <3>2. MuxTypeOK'
      BY <2>1, <3>1, Zenon DEF MuxTypeOK
    <3>3. Fresh'
      BY <2>1, <3>1, Zenon DEF Fresh
    <3>4. PacketsOwned'
      BY <2>1, <3>1 DEF PacketsOwned, Sender
    <3>5. ChansOwned'
      BY <2>1, <3>1 DEF ChansOwned, Sender
    <3>6. HoldOwned'
      BY <2>1, <3>1 DEF HoldOwned, Sender
    <3>7. StreamsOwned'
      BY <2>1, <3>1 DEF StreamsOwned, Sender
    <3> QED BY <3>2, <3>3, <3>4, <3>5, <3>6, <3>7 DEF OwnInv
  <2>3. (Running => NextIsFree)'
    BY <2>1 DEF MuxInv, Running, RunningInv, NextIsFree, Accepted
  <2>4. (Running /\ FirstPowerShell => FirstInv)'
    BY <2>1 DEF MuxInv, Running, RunningInv, FirstPowerShell, FirstInv, OneLink, OneId, ChanOpen,
       CloseOrder, ReadIsSent
  <2>5. (Running /\ FirstPowerShell => DataInv)'
    BY <2>1, Zenon DEF MuxInv, Running, RunningInv, FirstPowerShell, DataInv
  <2>6. (FirstPowerShell => GotInOrder /\ HeldCounts)' /\ PanicNeedsLeaver'
    BY <2>1, Zenon DEF MuxInv, FirstPowerShell, GotInOrder, HeldCounts, PanicNeedsLeaver
  <2> QED BY <2>2, <2>3, <2>4, <2>5, <2>6 DEF MuxInv, RunningInv
<1>2. CASE Next
  <2>0. Running
    BY <1>2 DEF Next, OfConnection, OfLink, Signal, Accept, HandleConnection, PassRequest,
       PassError, ReadEOF,
       SendClose, ReaderReturns, WriteAnswer, WriterReturns, Ask, Leave, StartPowerShell,
       ReadPacket,
       Deliver, ReadLoopEnds, PowerShellDies, Answer, Reading, Ranging
  <2>1. /\ MuxTypeOK /\ Fresh /\ OwnInv /\ NextIsFree
        /\ FirstPowerShell => FirstInv /\ DataInv
    BY <2>0 DEF MuxInv, RunningInv
  <2>2. MuxTypeOK' /\ Fresh' /\ OwnInv'
    BY <1>2, <2>1, TypeStep, FreshStep, OwnStep DEF OwnInv
  <2>3. ASSUME Running' PROVE RunningInv'
    <3>1. NextIsFree'
      BY <1>2, <2>1, <2>3, NextStep DEF OwnInv
    <3>2. ASSUME FirstPowerShell' PROVE FirstInv' /\ DataInv'
      <4>1. FirstPowerShell
        BY <1>2, <2>1, <3>2, ListenStep
      <4>2. FirstInv /\ DataInv
        BY <2>1, <4>1
      <4>3. OneLink' /\ OneId' /\ ChanOpen' /\ CloseOrder' /\ ReadIsSent'
        BY <1>2, <2>1, <2>2, <2>3, <3>2, <4>1, <4>2, OneLinkStep, OneIdStep, ChanOpenStep,
           CloseOrderStep, ReadIsSentStep DEF FirstInv
      <4>4. ~Signal
        BY <2>1, <2>3 DEF Signal, Running, MuxTypeOK, Procs
      <4>5. (\E c \in Conns : OfConnection(c)) \/ OfLink(1)
        BY <1>2, <2>1, <4>1, <4>2, <4>4, OnlyFirst DEF Next, FirstInv
      <4>6. ASSUME NEW x \in Conns PROVE DataAfter(x)
        BY <2>1, <2>2, <2>3, <4>1, <4>2, <4>5, DataOfConnection, DataOfLink
      <4> QED BY <4>3, <4>6 DEF FirstInv, DataInv, DataAfter
    <3> QED BY <3>1, <3>2 DEF RunningInv
  <2>4. CASE Running'
    <3>1. FirstPowerShell' => FirstInv' /\ DataInv'
      BY <2>3, <2>4 DEF RunningInv
    <3>2. FirstPowerShell' => GotInOrder'
      BY <3>1 DEF DataInv, AnswersOf, GotInOrder
    <3>3. FirstPowerShell' => HeldCounts'
      BY <2>2, <3>1, HeldCountsAfter
    <3>5. PanicNeedsLeaver'
      BY <2>4 DEF PanicNeedsLeaver, Running
    <3> QED BY <2>2, <2>3, <3>2, <3>3, <3>5 DEF MuxInv
  <2>5. CASE Signal
    <3>1. /\ ~Running' /\ proc'.end = "exit"
          /\ \A c \in Conns : conn'[c].got = <<>>
          /\ \A g \in Gens : link'[g].hold = <<>>
      BY <2>1, <2>5 DEF Signal, Running, MuxTypeOK, Procs, NoConn, NoLink
    <3>2. GotInOrder' /\ HeldCounts' /\ PanicNeedsLeaver'
      <4>1. GotInOrder' /\ PanicNeedsLeaver'
        BY <3>1 DEF GotInOrder, PanicNeedsLeaver
      <4>2. \A g \in Gens, c \in Conns : ~Holds(link'[g].hold, c)
        BY <3>1 DEF Holds
      <4> QED BY <4>1, <4>2, Zenon DEF HeldCounts
    <3> QED BY <2>2, <3>1, <3>2 DEF MuxInv
  <2>6. CASE ~Running' /\ ~Signal
    <3>1. CASE ~FirstPowerShell'
      BY <2>2, <2>6, <3>1 DEF MuxInv, PanicNeedsLeaver
    <3>2. CASE FirstPowerShell'
      <4>1. FirstPowerShell
        BY <1>2, <2>1, <3>2, ListenStep
      <4>2. /\ link' = link /\ conn' = conn
            /\ proc'.end = "panic" => \E c \in Conns : /\ conn[c].sock \in {"left", "closed"}
                                                       /\ Len(conn[c].got) < conn[c].sent
        BY <1>2, <2>0, <2>1, <2>6, <4>1, EndStep
      <4>3. GotInOrder' /\ HeldCounts'
        BY <4>1, <4>2 DEF MuxInv, GotInOrder, HeldCounts
      <4>4. PanicNeedsLeaver'
        BY <4>2 DEF PanicNeedsLeaver
      <4> QED BY <2>2, <2>6, <4>3, <4>4 DEF MuxInv
    <3> QED BY <3>1, <3>2
  <2> QED BY <2>4, <2>5, <2>6, SMTT(30)
<1> QED BY <1>1, <1>2

(* The inductive invariant of the proxy holds in every reachable state, for *)
(* every number of connections, requests and PowerShell processes.          *)
THEOREM MuxInvHolds == Spec => []MuxInv
<1> QED BY MuxInvInit, MuxInvStep, PTL DEF Spec

(* A client gets the answers to its own requests in their order, and answers *)
(* of its own channel number only once PowerShell has been started again     *)
(* (channelID in listenLoop, the look-up in readLoop, the Go channels).      *)
THEOREM OwnAnswers == Spec => []AnswersAreOwn
<1>1. ASSUME MuxInv PROVE AnswersAreOwn
  <2> SUFFICES ASSUME NEW c \in Conns, NEW n \in DOMAIN conn[c].got
               PROVE  /\ conn[conn[c].got[n][1]].id = conn[c].id
                      /\ FirstPowerShell => conn[c].got[n] = <<c, n>>
    BY DEF AnswersAreOwn
  <2>1. conn[c].got[n] \in Reqs
    BY <1>1 DEF MuxInv, MuxTypeOK, Handlers
  <2>2. PICK d \in Conns, m \in Nat : conn[c].got[n] = <<d, m>>
    BY <2>1 DEF Reqs
  <2>3. Sender(d, conn[c].id)
    BY <1>1, <2>2 DEF MuxInv, OwnInv, StreamsOwned
  <2> QED BY <1>1, <2>2, <2>3 DEF Sender, MuxInv, GotInOrder
<1> QED BY <1>1, MuxInvHolds, PTL

(* With the first PowerShell the proxy panics only when a client is gone with a *)
(* request open: CloseChannel never closes a closed channel, and what readLoop  *)
(* sends without the lock meets a closed channel only then.                     *)
THEOREM PanicIsCaused == Spec => []PanicNeedsLeaver
<1>1. MuxInv => PanicNeedsLeaver
  BY DEF MuxInv
<1> QED BY <1>1, MuxInvHolds, PTL

(* With the first PowerShell readLoop is blocked on a full Go channel only by a *)
(* connection that has more requests without an answer than the channel has     *)
(* places, for any number of clients and requests (readLoop, WriteChannel and   *)
(* the writer of a connection).                                                 *)
THEOREM ReadLoopIsFree == Spec => []BlockedByBacklog
<1>1. ASSUME MuxInv PROVE BlockedByBacklog
  <2> SUFFICES ASSUME FirstPowerShell, NEW g \in Gens, link[g].hold # <<>>,
                      ChanFull(link[g].hold[1])
               PROVE  conn[link[g].hold[1]].read - Len(conn[link[g].hold[1]].got) > ChanCap
    BY DEF BlockedByBacklog
  <2>1. link[g].hold \in Conns \X Reqs
    BY <1>1 DEF MuxInv, MuxTypeOK, Links
  <2>2. PICK c \in Conns : link[g].hold[1] = c
    BY <2>1
  <2>3. Len(conn[c].got) + Len(conn[c].buf) < conn[c].read
    BY <1>1, <2>1, <2>2 DEF MuxInv, HeldCounts, Holds
  <2>4. conn[c].buf \in Seq(Reqs) /\ conn[c].got \in Seq(Reqs) /\ conn[c].read \in Nat
    BY <1>1 DEF MuxInv, MuxTypeOK, Handlers
  <2>5. Len(conn[c].buf) >= ChanCap
    BY <2>2 DEF ChanFull
  <2>6. Len(conn[c].buf) \in Nat /\ Len(conn[c].got) \in Nat
    BY <2>4
  <2>7. ASSUME NEW x \in Nat, NEW y \in Nat, NEW z \in Nat, x + y < z, y >= ChanCap
        PROVE  z - x > ChanCap
    BY <2>7, MuxAssumption
  <2>8. conn[c].read - Len(conn[c].got) > ChanCap
    BY <2>3, <2>4, <2>5, <2>6, <2>7, Zenon
  <2> QED BY <2>2, <2>8
<1> QED BY <1>1, MuxInvHolds, PTL

--------------------------------------------------------------------------------
(* LegacyApp: shutdown waits for everything that was started.              *)

(* The types of LegacyApp *)
TrayStates == {"off", "window", "ready", "blocked", "loop", "panicked", "fatal", "returned"}
AgentStates == {"off", "start", "serve", "quit", "returned"}

LegacyTypes ==
    /\ left \in Seq(Agents) /\ agent \in [Agents -> AgentStates] /\ tray \in TrayStates

(* The WaitGroup counts the agents that run and the tray's goroutine. *)
Serving == {a \in Agents : agent[a] \notin {"off", "returned"}}
TrayCount == IF tray \in {"off", "returned"} THEN 0 ELSE 1
Counted == wg = Cardinality(Serving) + TrayCount

(* startup starts every agent once. *)
ToStart ==
    /\ \A i, j \in DOMAIN left : left[i] = left[j] => i = j
    /\ \A i \in DOMAIN left : agent[left[i]] = "off"

(* The tray is started first, and shutdown that did not overtake startup has *)
(* nothing that could still start.                                           *)
TrayFirst == startup # "tray" => tray # "off"
TrayOnce == startup = "tray" => tray = "off"
InOrder == shutdown \in {"quit", "wait", "returned"} /\ ~early => Started
Waited == shutdown = "returned" /\ ~early => wg = 0

(* The inductive invariant of the legacy application. *)
LegacyInv == LegacyTypes /\ Counted /\ ToStart /\ TrayFirst /\ TrayOnce /\ InOrder /\ Waited

(* The agents are finitely many, because startup has a list of them. *)
LEMMA AgentsFinite == IsFiniteSet(Agents)
<1>1. Order \in [1 .. Len(Order) -> Agents] /\ DOMAIN Order = 1 .. Len(Order) /\ Len(Order) \in Nat
  BY LegacyAssumption
<1>2. Order \in Surjection(1 .. Len(Order), Agents)
  BY <1>1 DEF Surjection, Agents
<1>3. IsFiniteSet(1 .. Len(Order))
  BY <1>1, FS_Interval
<1> QED BY <1>2, <1>3, FS_Surjection

(* So are those that run. *)
LEMMA ServingFinite == IsFiniteSet(Serving) /\ Cardinality(Serving) \in Nat
<1>1. Serving \in SUBSET Agents
  BY DEF Serving
<1> QED BY <1>1, AgentsFinite, FS_Subset, FS_CardinalityType

(* A step that starts nothing, neither an agent nor the tray, and counts    *)
(* what it lets end.                                                        *)
LEMMA NothingStarts ==
  ASSUME LegacyInv, LegacyTypes', Counted',
         startup' = startup \/ (startup = "keyRing" /\ startup' = "context")
                            \/ (startup = "context" /\ startup' = "agents"),
         left' = left, tray = "off" <=> tray' = "off",
         \A a \in Agents : agent[a] = "off" => agent'[a] = "off",
         shutdown' = shutdown, early' = early,
         wg' = wg \/ wg # 0
  PROVE  LegacyInv'
<1>1. ToStart'
  BY DEF LegacyInv, LegacyTypes, ToStart
<1>2. TrayFirst' /\ TrayOnce'
  BY DEF LegacyInv, TrayFirst, TrayOnce
<1>3. InOrder'
  BY DEF LegacyInv, InOrder, Started
<1>4. Waited'
  BY DEF LegacyInv, Waited
<1> QED BY <1>1, <1>2, <1>3, <1>4 DEF LegacyInv

(* An agent that goes from one state in which it runs to another *)
LEMMA AgentMoves ==
  ASSUME LegacyInv, NEW a \in Agents, NEW s \in {"serve", "quit"}, agent[a] \in {"start", "serve"},
         agent' = [agent EXCEPT ![a] = s], wg' = wg, OfAgent
  PROVE  LegacyInv'
<1>1. LegacyTypes'
  BY DEF LegacyInv, LegacyTypes, OfAgent, ofStart, ofTray, AgentStates
<1>2. Serving' = Serving
  BY DEF LegacyInv, LegacyTypes, Serving
<1>3. Counted'
  BY <1>2 DEF LegacyInv, Counted, TrayCount, OfAgent, ofTray
<1>4. \A b \in Agents : agent[b] = "off" => agent'[b] = "off"
  BY DEF LegacyInv, LegacyTypes
<1> QED BY <1>1, <1>3, <1>4, NothingStarts DEF OfAgent, ofStart, ofTray, ofShutdown

(* An agent that returns, with its wg.Done *)
LEMMA AgentReturns ==
  ASSUME LegacyInv, NEW a \in Agents, agent[a] \in {"start", "serve", "quit"}, Returns(a), OfAgent
  PROVE  LegacyInv'
<1>1. LegacyTypes'
  BY DEF LegacyInv, LegacyTypes, OfAgent, ofStart, ofTray, AgentStates, Returns
<1>2. Serving' = Serving \ {a} /\ a \in Serving
  BY DEF LegacyInv, LegacyTypes, Serving, Returns
<1>3. Cardinality(Serving') = Cardinality(Serving) - 1
  BY <1>2, ServingFinite, FS_RemoveElement
<1>4. Cardinality(Serving) # 0
  BY <1>2, ServingFinite, FS_EmptySet
<1>5. Counted' /\ wg # 0
  BY <1>3, <1>4, ServingFinite DEF LegacyInv, Counted, TrayCount, OfAgent, ofTray, Returns
<1>6. \A b \in Agents : agent[b] = "off" => agent'[b] = "off"
  BY DEF LegacyInv, LegacyTypes, Returns
<1> QED BY <1>1, <1>5, <1>6, NothingStarts DEF OfAgent, ofStart, ofTray, ofShutdown

(* A step that leaves the agents alone and does not start or end the tray's *)
(* goroutine                                                                *)
LEMMA AgentsAlone ==
  ASSUME LegacyInv, agent' = agent, wg' = wg, left' = left,
         startup' = startup \/ (startup = "keyRing" /\ startup' = "context")
                            \/ (startup = "context" /\ startup' = "agents"),
         tray' = tray \/ /\ tray \in {"window", "ready", "loop"}
                         /\ tray' \in {"ready", "blocked", "loop", "panicked", "fatal"},
         shutdown' = shutdown, early' = early
  PROVE  LegacyInv'
<1>1. LegacyTypes'
  BY DEF LegacyInv, LegacyTypes, TrayStates
<1>2. Counted'
  BY DEF LegacyInv, Counted, Serving, TrayCount
<1> QED BY <1>1, <1>2, NothingStarts

(* LegacyInv holds initially. *)
LEMMA LegacyInvInit == LegacyInit => LegacyInv
<1> SUFFICES ASSUME LegacyInit PROVE LegacyInv
  OBVIOUS
<1>1. LegacyTypes
  BY LegacyAssumption DEF LegacyInit, LegacyTypes, AgentStates, TrayStates
<1>2. Serving = {}
  BY DEF LegacyInit, Serving
<1>3. Counted
  BY <1>2, FS_EmptySet DEF LegacyInit, Counted, TrayCount
<1>4. ToStart
  BY LegacyAssumption DEF LegacyInit, ToStart
<1> QED BY <1>1, <1>3, <1>4 DEF LegacyInit, LegacyInv, TrayFirst, TrayOnce, InOrder, Waited

(* Every step keeps LegacyInv. *)
LEMMA LegacyInvStep == LegacyInv /\ [LegacyNext]_legacyVars => LegacyInv'
<1> SUFFICES ASSUME LegacyInv, [LegacyNext]_legacyVars PROVE LegacyInv'
  OBVIOUS
<1>1. CASE StartTray
  <2>1. LegacyTypes'
    BY <1>1 DEF StartTray, LegacyInv, LegacyTypes, TrayStates
  <2>2. tray = "off"
    BY <1>1 DEF StartTray, LegacyInv, TrayOnce
  <2>3. Counted'
    <3>1. Serving' = Serving
      BY <1>1 DEF StartTray, Serving
    <3> QED BY <1>1, <2>2, <3>1, ServingFinite DEF StartTray, LegacyInv, Counted, TrayCount
  <2>4. ToStart' /\ TrayFirst' /\ TrayOnce'
    BY <1>1 DEF StartTray, LegacyInv, ToStart, TrayFirst, TrayOnce
  <2>5. InOrder' /\ Waited'
    BY <1>1 DEF StartTray, LegacyInv, InOrder, Waited, Started, ofShutdown
  <2> QED BY <2>1, <2>3, <2>4, <2>5 DEF LegacyInv
<1>2. CASE MakeKeyRing \/ MakeContext
  BY <1>2, AgentsAlone DEF MakeKeyRing, MakeContext, ofTray, ofShutdown
<1>3. ASSUME NEW a \in Agents, StartAgent(a) PROVE LegacyInv'
  <2>0. left \in Seq(Agents) /\ left # <<>> /\ agent \in [Agents -> AgentStates]
    BY <1>3 DEF StartAgent, LegacyInv, LegacyTypes
  <2>1. LegacyTypes'
    BY <1>3, <2>0 DEF StartAgent, LegacyInv, LegacyTypes, AgentStates, ofTray
  <2>2. /\ \A i \in DOMAIN left' : i + 1 \in DOMAIN left /\ left'[i] = left[i + 1] /\ i \in Nat
        /\ 1 \in DOMAIN left /\ a = left[1]
    BY <1>3, <2>0 DEF StartAgent
  <2>3. agent[a] = "off"
    BY <2>2 DEF LegacyInv, ToStart
  <2>4. Serving' = Serving \cup {a} /\ a \notin Serving
    BY <1>3, <2>0, <2>3 DEF StartAgent, Serving
  <2>5. Cardinality(Serving') = Cardinality(Serving) + 1
    BY <2>4, ServingFinite, FS_AddElement
  <2>6. Counted'
    BY <1>3, <2>5, ServingFinite DEF StartAgent, LegacyInv, Counted, TrayCount, ofTray
  <2>7. ToStart'
    <3>1. ASSUME NEW i \in DOMAIN left', NEW j \in DOMAIN left', left'[i] = left'[j] PROVE i = j
      <4>1. i + 1 = j + 1
        BY <2>2, <3>1 DEF LegacyInv, ToStart
      <4> QED BY <2>2, <4>1
    <3>2. ASSUME NEW i \in DOMAIN left' PROVE agent'[left'[i]] = "off"
      <4>1. left'[i] = left[i + 1] /\ i + 1 \in DOMAIN left /\ i + 1 # 1
        <5>1. i \in DOMAIN left' => i # 0
          BY <2>1 DEF LegacyTypes
        <5> QED BY <2>2, <3>2, <5>1
      <4>2. left[i + 1] # a /\ agent[left[i + 1]] = "off"
        BY <2>2, <4>1 DEF LegacyInv, ToStart
      <4>3. left[i + 1] \in Agents
        BY <2>0, <4>1
      <4> QED BY <1>3, <2>0, <4>1, <4>2, <4>3 DEF StartAgent
    <3> QED BY <3>1, <3>2 DEF ToStart
  <2>8. TrayFirst' /\ TrayOnce'
    BY <1>3 DEF StartAgent, LegacyInv, TrayFirst, TrayOnce, ofTray
  <2>9. InOrder' /\ Waited'
    BY <1>3 DEF StartAgent, LegacyInv, InOrder, Waited, Started, ofShutdown
  <2> QED BY <2>1, <2>6, <2>7, <2>8, <2>9 DEF LegacyInv
<1>4. CASE AgentStep
  <2>1. ASSUME NEW a \in Agents, Listen(a) PROVE LegacyInv'
    BY <2>1, AgentMoves DEF Listen
  <2>2. ASSUME NEW a \in Agents, ListenFails(a) \/ ServeEnds(a) \/ AcceptFails(a) PROVE LegacyInv'
    BY <2>2, AgentReturns DEF ListenFails, ServeEnds, AcceptFails
  <2>3. CASE CreatePageant
    BY <2>3, AgentMoves, AgentReturns DEF CreatePageant
  <2>4. CASE PageantWatcher
    BY <2>4, AgentMoves DEF PageantWatcher
  <2>5. CASE PageantLoopEnds
    BY <2>5, AgentReturns DEF PageantLoopEnds
  <2> QED BY <1>4, <2>1, <2>2, <2>3, <2>4, <2>5 DEF AgentStep
<1>5. CASE CreateTray \/ OnReady \/ EnterLoop
  BY <1>5, AgentsAlone DEF CreateTray, OnReady, EnterLoop, ofStart, ofTray, ofShutdown
<1>6. CASE HandleCommands \/ TrayCloses \/ CloseFromOutside
  BY <1>6, AgentsAlone DEF HandleCommands, TrayCloses, CloseFromOutside, ofStart, ofTray, ofShutdown
<1>7. CASE TrayExits
  <2>1. LegacyTypes'
    BY <1>7 DEF TrayExits, LegacyInv, LegacyTypes, TrayStates, ofStart
  <2>2. Serving' = Serving
    BY <1>7 DEF TrayExits, Serving
  <2>3. Counted' /\ wg # 0
    BY <1>7, <2>2, ServingFinite DEF TrayExits, LegacyInv, Counted, TrayCount
  <2> QED BY <1>7, <2>1, <2>3, NothingStarts DEF TrayExits, ofStart, ofShutdown
<1>8. CASE NoticeStep
  BY <1>8, AgentsAlone DEF NoticeStep, Notify, Send, PostCommand, ofStart, ofTray, ofShutdown
<1>9. CASE ShutdownStep \/ Quit
  <2>1. LegacyTypes' /\ ToStart' /\ TrayFirst' /\ TrayOnce'
    BY <1>9 DEF ShutdownStep, CancelAgents, QuitTray, ShutdownReturns, Quit, ofStart, ofTray, LegacyInv,
       LegacyTypes, ToStart, TrayFirst, TrayOnce
  <2>2. Counted'
    BY <1>9 DEF ShutdownStep, CancelAgents, QuitTray, ShutdownReturns, Quit, ofTray, LegacyInv,
       Counted, Serving, TrayCount
  <2>3. InOrder' /\ Waited'
    BY <1>9 DEF ShutdownStep, CancelAgents, QuitTray, ShutdownReturns, Quit, ofStart, LegacyInv,
       InOrder, Waited, Started
  <2> QED BY <2>1, <2>2, <2>3 DEF LegacyInv
<1>10. CASE UNCHANGED legacyVars
  BY <1>10, AgentsAlone DEF legacyVars
<1> QED BY <1>1, <1>2, <1>3, <1>4, <1>5, <1>6, <1>7, <1>8, <1>9, <1>10
        DEF LegacyNext, StartupStep, TrayStep, TrayQuits, UserQuits

(* When shutdown of the old version returns and did not overtake startup, no *)
(* agent serves and the tray's thread has ended, for every list of agents    *)
(* and every number of notices: the WaitGroup counts them all.               *)
THEOREM ShutdownLeavesNothing == LegacySpec => []NothingLeft
<1>1. LegacyInv => NothingLeft
  <2> SUFFICES ASSUME LegacyInv, shutdown = "returned", ~early
               PROVE  /\ \A a \in Agents : agent[a] \in {"off", "returned"}
                      /\ tray \in {"off", "returned"}
    BY DEF NothingLeft
  <2>1. Cardinality(Serving) + TrayCount = 0
    BY DEF LegacyInv, Waited, Counted
  <2>2. Cardinality(Serving) = 0 /\ TrayCount = 0
    BY <2>1, ServingFinite DEF TrayCount
  <2>3. Serving = {}
    BY <2>2, ServingFinite, FS_EmptySet
  <2> QED BY <2>2, <2>3 DEF Serving, TrayCount
<1> QED BY <1>1, LegacyInvInit, LegacyInvStep, PTL DEF LegacySpec

================================================================================
