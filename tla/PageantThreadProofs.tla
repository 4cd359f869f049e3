-------------------------- MODULE PageantThreadProofs --------------------------
(***************************************************************************)
(* For any clients and any requests: while clients can find the window its *)
(* procedure finds the component, only the client's mapping is touched,    *)
(* and every step of the thread is a step of the contract in Interface.    *)
(***************************************************************************)
EXTENDS PageantThread, TLAPS

InHandle == {"check", "map", "read", "call", "respond", "copied"}
Deferred == {"stop", "destroy", "unset", "return"}

(* What exists at each place of Start *)
ResourceInv ==
    /\ window => pc \in {"report", "watch", "get", "stop", "destroy"} \cup InHandle
    /\ pc \notin {"start", "return", "returned"} => active

(* A request that is served has been sent, and is within its mapping. *)
RequestInv ==
    /\ \A c \in Clients : sender[c] = "sent" => request[c] \in Requests
    /\ pc \in InHandle <=> current # None
    /\ current # None => sender[current] = "sent"
    /\ InBounds

(* What has been reported at each place, and why Start ends *)
ReportInv ==
    /\ pc \in {"start", "find", "create", "report"} => ready = "none" /\ ~failed
    /\ pc \in {"watch", "get", "stop", "destroy"} \cup InHandle => ready = "ok"
    /\ pc \in {"unset", "return"} => ready = "ok" \/ (ready = "none" /\ failed)
    /\ quit => cancelled
    /\ pc \in Deferred /\ ~failed => cancelled

Inv == TypeOK /\ ResourceInv /\ RequestInv /\ ReportInv

--------------------------------------------------------------------------------
LEMMA InitInv == Init => Inv
<1> SUFFICES ASSUME Init PROVE Inv
  OBVIOUS
<1>1. TypeOK
  BY DEF Init, TypeOK
<1>2. ResourceInv /\ ReportInv
  BY DEF Init, ResourceInv, ReportInv, InHandle, Deferred
<1>3. RequestInv
  BY DEF Init, RequestInv, InBounds, InHandle
<1> QED  BY <1>1, <1>2, <1>3 DEF Inv

(* The steps of Start and of its watcher leave the clients alone. *)
LEMMA StartKeeps ==
  ASSUME Inv,
         \/ LockActive \/ FindWindow \/ CreateWindow \/ StartFails \/ ReportReady
         \/ SpawnWatcher \/ Cancel \/ WatcherPosts \/ WatcherStops \/ GetQuit
         \/ GetMessageFails \/ CloseStop \/ UnsetActive \/ Return
  PROVE  Inv'
<1> USE DEF LockActive, FindWindow, CreateWindow, StartFails, ReportReady, SpawnWatcher,
        Cancel, WatcherPosts, WatcherStops, GetQuit, GetMessageFails, CloseStop, UnsetActive,
        Return, Goto, threadVars, clientVars
<1>1. TypeOK'
  <2>1. CASE WatcherPosts
    <3>1. quit' \in BOOLEAN
      BY <2>1 DEF Inv, TypeOK
    <3> QED  BY <2>1, <3>1 DEF Inv, TypeOK
  <2>2. CASE Return
    BY <2>2 DEF Inv, TypeOK
  <2>3. CASE LockActive
    BY <2>3 DEF Inv, TypeOK
  <2>4. CASE FindWindow
    BY <2>4 DEF Inv, TypeOK
  <2>5. CASE CreateWindow
    BY <2>5 DEF Inv, TypeOK
  <2>6. CASE StartFails
    BY <2>6 DEF Inv, TypeOK
  <2>7. CASE ReportReady
    BY <2>7 DEF Inv, TypeOK
  <2>8. CASE SpawnWatcher
    BY <2>8 DEF Inv, TypeOK
  <2>9. CASE Cancel
    BY <2>9 DEF Inv, TypeOK
  <2>10. CASE WatcherStops
    BY <2>10 DEF Inv, TypeOK
  <2>11. CASE GetQuit
    <3>1. quit' \in BOOLEAN
      BY <2>11
    <3> QED  BY <2>11, <3>1 DEF Inv, TypeOK
  <2>12. CASE GetMessageFails
    BY <2>12 DEF Inv, TypeOK
  <2>13. CASE CloseStop
    BY <2>13 DEF Inv, TypeOK
  <2>14. CASE UnsetActive
    <3>1. active' \in BOOLEAN
      BY <2>14
    <3> QED  BY <2>14, <3>1 DEF Inv, TypeOK
  <2> QED
    BY <2>1, <2>2, <2>3, <2>4, <2>5, <2>6, <2>7, <2>8, <2>9, <2>10, <2>11, <2>12, <2>13, <2>14
<1>2. ResourceInv'
  BY DEF Inv, TypeOK, ResourceInv, InHandle
<1>3. RequestInv'
  BY DEF Inv, TypeOK, RequestInv, InBounds, InHandle
<1>4. ReportInv'
  BY DEF Inv, TypeOK, ReportInv, InHandle, Deferred
<1> QED  BY <1>1, <1>2, <1>3, <1>4 DEF Inv

LEMMA DestroyKeeps == ASSUME Inv, DestroyWindow PROVE Inv'
<1> USE DEF DestroyWindow, Goto
<1>1. TypeOK'
  BY DEF Inv, TypeOK
<1>2. ResourceInv' /\ ReportInv'
  BY DEF Inv, TypeOK, ResourceInv, ReportInv, InHandle, Deferred
<1>3. RequestInv'
  BY DEF Inv, TypeOK, RequestInv, InBounds, InHandle
<1> QED  BY <1>1, <1>2, <1>3 DEF Inv

LEMMA SendKeeps == ASSUME Inv, NEW c \in Clients, NEW r \in Requests, Send(c, r) PROVE Inv'
<1> USE DEF Send, threadVars
<1>1. TypeOK'
  BY DEF Inv, TypeOK
<1>2. ResourceInv' /\ ReportInv'
  BY DEF Inv, TypeOK, ResourceInv, ReportInv, InHandle, Deferred
<1>3. RequestInv'
  BY DEF Inv, TypeOK, RequestInv, InBounds, InHandle
<1> QED  BY <1>1, <1>2, <1>3 DEF Inv

LEMMA DispatchKeeps == ASSUME Inv, NEW c \in Clients, Dispatch(c) PROVE Inv'
<1> USE DEF Dispatch, Goto, threadVars
<1>1. TypeOK'
  BY DEF Inv, TypeOK
<1>2. ResourceInv' /\ ReportInv'
  BY DEF Inv, TypeOK, ResourceInv, ReportInv, InHandle, Deferred
<1>3. RequestInv'
  BY PageantAssumption DEF Inv, TypeOK, RequestInv, InBounds, InHandle
<1> QED  BY <1>1, <1>2, <1>3 DEF Inv

(* windowProc returns from handle. *)
LEMMA AnswerKeeps ==
  ASSUME Inv, pc \in InHandle, NEW result \in {"ok", "fail"}, Answer(result)
  PROVE  Inv'
<1> USE DEF Answer, Goto, threadVars
<1>1. TypeOK'
  BY DEF Inv, TypeOK, RequestInv
<1>2. ResourceInv' /\ ReportInv'
  BY DEF Inv, TypeOK, ResourceInv, ReportInv, InHandle, Deferred
<1>3. RequestInv'
  BY PageantAssumption DEF Inv, TypeOK, RequestInv, InBounds, InHandle
<1> QED  BY <1>1, <1>2, <1>3 DEF Inv

(* handle goes on, within the mapping. *)
LEMMA ProceedKeeps ==
  ASSUME Inv, pc \in InHandle, NEW p \in InHandle, NEW n \in Nat, n <= request[current].size,
         Proceed(p, n)
  PROVE  Inv'
<1> USE DEF Proceed, Goto, threadVars
<1>1. TypeOK'
  BY DEF Inv, TypeOK, InHandle
<1>2. ResourceInv' /\ ReportInv'
  BY DEF Inv, TypeOK, ResourceInv, ReportInv, InHandle, Deferred
<1>3. RequestInv'
  BY DEF Inv, TypeOK, RequestInv, InBounds, InHandle
<1> QED  BY <1>1, <1>2, <1>3 DEF Inv

Handle == CheckName \/ MapView \/ ReadRequest \/ Backend \/ BackendPanics \/ CopyResponse
          \/ HandleReturns

(* Every step of handle is an answer or goes on within the mapping. *)
LEMMA HandleSteps ==
  ASSUME Inv, Handle
  PROVE  /\ pc \in InHandle
         /\ \/ \E result \in {"ok", "fail"} : Answer(result)
            \/ \E p \in InHandle, n \in Nat : n <= request[current].size /\ Proceed(p, n)
<1>0. pc \in InHandle
  BY DEF Handle, CheckName, MapView, ReadRequest, Backend, BackendPanics, CopyResponse,
     HandleReturns, InHandle
<1>1. /\ request[current].size \in Nat /\ request[current].length \in Nat
      /\ request[current].reply \in Nat /\ touched \in Nat
      /\ touched <= request[current].size
  <2>1. request[current] \in [size : Nat, length : Nat, reply : Nat]
    <3>1. current \in Clients /\ sender[current] = "sent"
      BY <1>0 DEF Inv, TypeOK, RequestInv
    <3> QED  BY <3>1, PageantAssumption DEF Inv, RequestInv
  <2> QED  BY <1>0, <2>1 DEF Inv, TypeOK, RequestInv, InBounds
<1>2. CASE CheckName
  BY <1>1, <1>2, <1>0 DEF CheckName, InHandle
<1>3. CASE MapView
  BY <1>1, <1>3, <1>0 DEF MapView, InHandle
<1>4. CASE ReadRequest
  <2>1. CASE Answer("fail")
    BY <2>1, <1>0
  <2>2. CASE Proceed("call", request[current].length + 4)
            /\ request[current].length + 4 <= request[current].size
    <3>1. request[current].length + 4 \in Nat /\ "call" \in InHandle
      BY <1>1 DEF InHandle
    <3> QED  BY <2>2, <3>1, <1>0
  <2> QED  BY <1>1, <1>4, <2>1, <2>2, PageantAssumption DEF ReadRequest
<1>5. CASE Backend \/ BackendPanics \/ HandleReturns
  BY <1>1, <1>5, <1>0 DEF Backend, BackendPanics, HandleReturns, InHandle
<1>6. CASE CopyResponse
  <2>1. PICK n \in {request[current].reply, 5} :
           IF n >= 5 /\ n <= request[current].size
           THEN Proceed("copied", IF n > touched THEN n ELSE touched)
           ELSE Answer("fail")
    BY <1>6 DEF CopyResponse
  <2>2. n \in Nat /\ "copied" \in InHandle
    BY <1>1 DEF InHandle
  <2>3. CASE Answer("fail")
    BY <2>3, <1>0
  <2>4. CASE n <= request[current].size /\ Proceed("copied", IF n > touched THEN n ELSE touched)
    <3> DEFINE k == IF n > touched THEN n ELSE touched
    <3>1. k \in Nat /\ k <= request[current].size
      BY <1>1, <2>2, <2>4
    <3>2. Proceed("copied", k)
      BY <2>4
    <3> HIDE DEF k
    <3> QED  BY <3>1, <3>2, <2>2, <1>0
  <2> QED  BY <2>1, <2>3, <2>4
<1> QED  BY <1>2, <1>3, <1>4, <1>5, <1>6 DEF Handle

LEMMA HandleKeeps == ASSUME Inv, Handle PROVE Inv'
  BY HandleSteps, AnswerKeeps, ProceedKeeps

LEMMA NextKeeps == Inv /\ [Next]_vars => Inv'
<1> SUFFICES ASSUME Inv, [Next]_vars PROVE Inv'
  OBVIOUS
<1>1. CASE UNCHANGED vars
  BY <1>1 DEF vars, Inv, TypeOK, ResourceInv, RequestInv, ReportInv, InBounds, InHandle, Deferred
<1>2. CASE Next
  BY <1>2, StartKeeps, DestroyKeeps, SendKeeps, DispatchKeeps, HandleKeeps
     DEF Next, Thread, Watcher, Handle
<1> QED  BY <1>1, <1>2

(* The inductive invariant holds throughout. *)
THEOREM InvHolds == Spec => []Inv
<1> QED  BY InitInv, NextKeeps, PTL DEF Spec

(* WindowHasComponent for any clients: a request is never left to           *)
(* DefWindowProc, because Start destroys the window before it unsets        *)
(* `active'.                                                                *)
THEOREM WindowIsServed == Spec => []WindowHasComponent
<1>1. Inv => WindowHasComponent
  BY DEF Inv, ResourceInv, WindowHasComponent, InHandle
<1> QED  BY <1>1, InvHolds, PTL

(* InBounds for any clients and any lengths: handle reads and writes only   *)
(* the client's mapping.                                                    *)
THEOREM MappingIsKept == Spec => []InBounds
<1>1. Inv => InBounds
  BY DEF Inv, RequestInv
<1> QED  BY <1>1, InvHolds, PTL

--------------------------------------------------------------------------------
(* The steps that the caller of Start does not see *)
Hidden == pc' # "returned" /\ pc # "returned" /\ UNCHANGED <<cancelled, ready>>

LEMMA HiddenSteps ==
  ASSUME Inv,
         \/ LockActive \/ FindWindow \/ CreateWindow \/ StartFails \/ SpawnWatcher \/ GetQuit
         \/ GetMessageFails \/ CloseStop \/ UnsetActive \/ DestroyWindow \/ Handle
         \/ \E c \in Clients : Dispatch(c)
  PROVE  Hidden
<1>1. CASE Handle
  BY <1>1, HandleSteps DEF Answer, Proceed, Goto, threadVars, Hidden, InHandle
<1> QED
  BY <1>1 DEF LockActive, FindWindow, CreateWindow, StartFails, SpawnWatcher, GetQuit,
     GetMessageFails, CloseStop, UnsetActive, DestroyWindow, Dispatch, Goto, threadVars, Hidden

(* Every step is a step of the contract or changes nothing in it. *)
LEMMA StepImplements == Inv /\ [Next]_vars => [I!Next]_(I!vars)
<1> SUFFICES ASSUME Inv, [Next]_vars PROVE [I!Next]_(I!vars)
  OBVIOUS
<1>1. CASE UNCHANGED vars
  BY <1>1 DEF vars, I!vars, Phase
<1>2. CASE Hidden
  BY <1>2 DEF Hidden, I!vars, Phase
<1>3. CASE WatcherPosts \/ WatcherStops \/ \E c \in Clients, r \in Requests : Send(c, r)
  BY <1>3 DEF WatcherPosts, WatcherStops, Send, threadVars, I!vars, Phase
<1>4. CASE Cancel
  BY <1>4 DEF Cancel, threadVars, I!Next, I!Cancel, Phase
<1>5. CASE ReportReady
  BY <1>5 DEF ReportReady, Goto, Inv, ReportInv, I!Next, I!ComeUp, Phase
<1>6. CASE Return
  <2>1. CASE ready = "ok"
    <3>1. Phase = "serving" /\ UNCHANGED <<cancelled, ready>>
      BY <1>6, <2>1 DEF Return, Phase
    <3>2. pc' = "returned" /\ failed' = failed
      BY <1>6 DEF Return, Goto
    <3>3. CASE failed
      <4>1. Phase' = "failed"
        BY <3>2, <3>3 DEF Phase
      <4> QED  BY <3>1, <4>1 DEF I!Next, I!Stop
    <3>4. CASE ~failed
      <4>1. Phase' = "stopped"
        BY <3>2, <3>4 DEF Phase
      <4>2. cancelled
        BY <1>6, <3>4 DEF Return, Inv, ReportInv, Deferred
      <4> QED  BY <3>1, <4>1, <4>2 DEF I!Next, I!Stop
    <3> QED  BY <3>3, <3>4
  <2>2. CASE ready = "none" /\ failed
    BY <1>6, <2>2 DEF Return, Goto, I!Next, I!GiveUp, Phase
  <2> QED  BY <1>6, <2>1, <2>2 DEF Return, Inv, ReportInv
<1> QED
  BY <1>1, <1>2, <1>3, <1>4, <1>5, <1>6, HiddenSteps DEF Next, Thread, Watcher, Handle

(* The safety part of ImplementsInterface for any clients and requests:     *)
(* Start reports exactly once, serves only after a success, and returns nil *)
(* only after a cancellation (reportReady, the deferred calls, WM_QUIT).    *)
THEOREM KeepsContract == Spec => I!Init /\ [][I!Next]_(I!vars)
<1>1. Init => I!Init
  BY DEF Init, I!Init, Phase
<1> QED  BY <1>1, StepImplements, InvHolds, PTL DEF Spec

================================================================================
