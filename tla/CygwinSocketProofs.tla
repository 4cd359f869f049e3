-------------------------- MODULE CygwinSocketProofs ---------------------------
(***************************************************************************)
(* Proofs about CygwinSocket for any number of launches and any reuse of   *)
(* process ids, when all instances run in one logon session and no Start   *)
(* stalls beyond the shutdown deadline.                                    *)
(*                                                                         *)
(* The singleton mutex alone does not exclude that two instances work on   *)
(* the files at once: one that serves or stops may have released it.  The  *)
(* invariant says, for every place in Start, what the two files hold then. *)
(* An instance that stops still has its marker in place, so a starting one *)
(* cannot have passed prepareExisting.                                     *)
(***************************************************************************)
EXTENDS CygwinSocket, TLAPS

OneSession == \A s, t \in Sessions : s = t

(* Between the launch and the end of writeFiles. *)
Front(i) == pc[i] \in Starting /\ next[i] # "stopped"

(* A starting instance holds the mutex, so there is at most one. *)
MutexInv ==
    /\ \A i \in Instances : Front(i) => \E s \in Sessions : mutex[s] = i
    /\ \A i \in Instances : next[i] = "stopped" =>
          pc[i] \in {"rmSocket", "rmOwner", "stopped", "dead"}

(* What the files hold while i reads what it found: the socket file it saw *)
(* may have gone since, and nothing else happens to the files.             *)
CheckInv ==
    \A i \in Instances :
        /\ pc[i] = "statOwner" /\ saw[i] = NoFile => socket = NoFile
        /\ pc[i] = "readOwner" => saw[i] # NoFile /\ socket \in {NoFile, saw[i]}
        /\ pc[i] = "probe" => /\ saw[i] \in Instances
                              /\ socket \in {NoFile, saw[i]}
                              /\ owner \in {NoFile, saw[i]}

(* What they hold while i removes the pair of an instance that has ended. *)
StaleInv ==
    \A i \in Instances :
        next[i] = "listen" /\ pc[i] \in {"rmSocket", "rmOwner"} =>
            /\ saw[i] \in Instances
            /\ pc[saw[i]] \in {"off", "dead"}
            /\ socket \in IF pc[i] = "rmOwner" THEN {NoFile} ELSE {NoFile, saw[i]}
            /\ owner \in {NoFile, saw[i]}

(* What they hold while i writes, serves, and removes its own pair. *)
OwnInv ==
    \A i \in Instances :
        /\ pc[i] \in {"listen", "writeSocket"} => socket = NoFile /\ owner = NoFile
        /\ pc[i] \in {"writeOwner", "unwrite"} => socket = i /\ owner = NoFile
        /\ pc[i] \in {"attr", "serving", "cleanup"} => socket = i /\ owner = i
        /\ pc[i] = "serving" => readonly
        /\ pc[i] = "rmSocket" /\ next[i] # "listen" => socket = i /\ owner = i
        /\ pc[i] = "rmOwner" /\ next[i] # "listen" => socket = NoFile /\ owner = i

Inv ==
    /\ TypeOK
    /\ MutexInv
    /\ CheckInv
    /\ StaleInv
    /\ OwnInv
    /\ NeverMixed

(* Every step of an instance and of its environment keeps the invariant. *)
LEMMA InvStep ==
    ASSUME OneSession, ~StalledStart, Inv, [Next]_vars
    PROVE  Inv'
<1> USE CygwinAssumption
    DEF Inv, TypeOK, MutexInv, CheckInv, StaleInv, OwnInv, NeverMixed, Front,
        Starting, OneSession, files, procs, Goto
<1>1. ASSUME NEW i \in Instances, StatSocket(i) PROVE Inv'
  BY <1>1 DEF StatSocket
<1>2. ASSUME NEW i \in Instances, StatOwner(i) PROVE Inv'
  BY <1>2 DEF StatOwner
<1>3. ASSUME NEW i \in Instances, ReadSocket(i) PROVE Inv'
  BY <1>3 DEF ReadSocket, Regular
<1>4. ASSUME NEW i \in Instances, ReadOwner(i) PROVE Inv'
  BY <1>4 DEF ReadOwner
<1>5. ASSUME NEW i \in Instances, Probe(i) PROVE Inv'
  BY <1>5 DEF Probe, ProcessAlive, PidsInUse, Alive
<1>6. ASSUME NEW i \in Instances, RemoveSocket(i) PROVE Inv'
  <2>1. TypeOK'
    BY <1>6 DEF RemoveSocket
  <2>2. MutexInv'
    BY <1>6 DEF RemoveSocket
  <2>3. CheckInv'
    BY <1>6 DEF RemoveSocket
  <2>4. StaleInv'
    BY <1>6 DEF RemoveSocket
  <2>5. OwnInv'
    BY <1>6 DEF RemoveSocket
  <2>6. NeverMixed'
    BY <1>6 DEF RemoveSocket
  <2> QED
    BY <2>1, <2>2, <2>3, <2>4, <2>5, <2>6
<1>7. ASSUME NEW i \in Instances, RemoveOwner(i) PROVE Inv'
  BY <1>7 DEF RemoveOwner
<1>8. ASSUME NEW i \in Instances, RemoveFails(i) PROVE Inv'
  <2>1. TypeOK'
    <3>1. readonly' \in BOOLEAN
      BY <1>8 DEF RemoveFails
    <3>2. pc' \in [Instances -> Starting \cup
                     {"off", "serving", "cleanup", "failed", "stopped", "dead"}]
      BY <1>8 DEF RemoveFails
    <3>3. UNCHANGED <<socket, owner, saw, next, pid, others, mutex>>
      BY <1>8 DEF RemoveFails
    <3> QED
      BY <3>1, <3>2, <3>3
  <2>2. MutexInv'
    BY <1>8 DEF RemoveFails
  <2>3. CheckInv'
    BY <1>8 DEF RemoveFails
  <2>4. StaleInv'
    BY <1>8 DEF RemoveFails
  <2>5. OwnInv'
    BY <1>8 DEF RemoveFails
  <2>6. NeverMixed'
    BY <1>8 DEF RemoveFails
  <2> QED
    BY <2>1, <2>2, <2>3, <2>4, <2>5, <2>6
<1>9. ASSUME NEW i \in Instances, Listen(i) PROVE Inv'
  BY <1>9 DEF Listen
<1>10. ASSUME NEW i \in Instances, WriteSocket(i) PROVE Inv'
  BY <1>10 DEF WriteSocket
<1>11. ASSUME NEW i \in Instances, WriteSocketFails(i) PROVE Inv'
  BY <1>11 DEF WriteSocketFails
<1>12. ASSUME NEW i \in Instances, WriteOwner(i) PROVE Inv'
  BY <1>12 DEF WriteOwner
<1>13. ASSUME NEW i \in Instances, WriteOwnerFails(i) PROVE Inv'
  BY <1>13 DEF WriteOwnerFails
<1>14. ASSUME NEW i \in Instances, Unwrite(i) PROVE Inv'
  <2>1. TypeOK'
    BY <1>14 DEF Unwrite
  <2>2. MutexInv'
    BY <1>14 DEF Unwrite
  <2>3. CheckInv'
    BY <1>14 DEF Unwrite
  <2>4. StaleInv'
    BY <1>14 DEF Unwrite
  <2>5. OwnInv'
    BY <1>14 DEF Unwrite
  <2>6. NeverMixed'
    BY <1>14 DEF Unwrite
  <2> QED
    BY <2>1, <2>2, <2>3, <2>4, <2>5, <2>6
<1>15. ASSUME NEW i \in Instances, MarkSocket(i) PROVE Inv'
  BY <1>15 DEF MarkSocket
<1>16. ASSUME NEW i \in Instances, MarkSocketFails(i) PROVE Inv'
  BY <1>16 DEF MarkSocketFails
<1>17. ASSUME NEW i \in Instances, StopServing(i) PROVE Inv'
  BY <1>17 DEF StopServing
<1>18. ASSUME NEW i \in Instances, Cleanup(i) PROVE Inv'
  BY <1>18 DEF Cleanup
<1>19. ASSUME NEW i \in Instances, Die(i) PROVE Inv'
  BY <1>19 DEF Die, Alive
<1>20. ASSUME NEW i \in Instances, NEW s \in Sessions, ReleaseMutex(i, s) PROVE Inv'
  BY <1>20 DEF ReleaseMutex
<1>21. ASSUME NEW i \in Instances, NEW s \in Sessions, NEW p \in Pids, Launch(i, s, p)
        PROVE Inv'
  BY <1>21 DEF Launch
<1>22. ASSUME NEW p \in Pids, OtherStarts(p) \/ OtherExits(p) PROVE Inv'
  BY <1>22 DEF OtherStarts, OtherExits
<1>23. ASSUME UserChangesFiles PROVE Inv'
  BY <1>23 DEF UserChangesFiles, Alive
<1>24. CASE UNCHANGED vars
  BY <1>24 DEF vars
<1> QED
  BY <1>1, <1>2, <1>3, <1>4, <1>5, <1>6, <1>7, <1>8, <1>9, <1>10, <1>11, <1>12, <1>13, <1>14, <1>15, <1>16, <1>17, <1>18, <1>19, <1>20, <1>21, <1>22, <1>23, <1>24
     DEF Next, StartStep

(* The invariant holds in every reachable state. *)
THEOREM SocketInvariant ==
    ASSUME OneSession, ~StalledStart
    PROVE  Spec => []Inv
<1>1. Init => Inv
  BY CygwinAssumption
     DEF Init, Inv, TypeOK, MutexInv, CheckInv, StaleInv, OwnInv, NeverMixed, Front,
         Starting
<1>2. Inv /\ [Next]_vars => Inv'
  BY InvStep
<1> QED
  BY <1>1, <1>2, PTL DEF Spec

(* While an instance serves, both files are its own (writeFiles, cleanup    *)
(* and prepareExisting of every other instance).                            *)
THEOREM ServingPairHolds ==
    ASSUME OneSession, ~StalledStart
    PROVE  Spec => []ServingPair
<1>1. Inv => ServingPair
  BY DEF Inv, OwnInv, ServingPair
<1> QED
  BY <1>1, SocketInvariant, PTL

(* What two instances leave behind, whenever they crash, is a pair of one   *)
(* of them (the order of the writes in writeFiles and of the removals in    *)
(* removeFiles).                                                            *)
THEOREM PairsMatch ==
    ASSUME OneSession, ~StalledStart
    PROVE  Spec => []NeverMixed
<1>1. Inv => NeverMixed
  BY DEF Inv
<1> QED
  BY <1>1, SocketInvariant, PTL

(* The steps that change what the two files hold are removals and writes;  *)
(* each knows what it removes or finds nothing to replace.                 *)
LEMMA FileSteps ==
    ASSUME Inv, [Next]_vars, Alive # {}
    PROVE  /\ \/ socket' = socket
              \/ socket = NoFile
              \/ \E j \in Instances : socket = j /\ (pc'[j] # pc[j] \/ j \notin Alive)
           /\ \/ owner' = owner
              \/ owner = NoFile
              \/ \E j \in Instances : owner = j /\ (pc'[j] # pc[j] \/ j \notin Alive)
<1> DEFINE Goal ==
       /\ \/ socket' = socket
          \/ socket = NoFile
          \/ \E j \in Instances : socket = j /\ (pc'[j] # pc[j] \/ j \notin Alive)
       /\ \/ owner' = owner
          \/ owner = NoFile
          \/ \E j \in Instances : owner = j /\ (pc'[j] # pc[j] \/ j \notin Alive)
<1> USE CygwinAssumption DEF Inv, TypeOK, OwnInv, StaleInv, files, procs, Goto
<1>1. ASSUME NEW i \in Instances, RemoveSocket(i) PROVE Goal
  <2>1. owner' = owner /\ pc'[i] # pc[i]
    BY <1>1 DEF RemoveSocket
  <2>2. CASE next[i] = "listen"
    BY <1>1, <2>1, <2>2 DEF RemoveSocket, Alive
  <2>3. CASE next[i] # "listen"
    BY <1>1, <2>1, <2>3 DEF RemoveSocket
  <2> QED
    BY <2>2, <2>3
<1>2. ASSUME NEW i \in Instances, RemoveOwner(i) PROVE Goal
  <2>1. socket' = socket /\ pc'[i] # pc[i]
    BY <1>2 DEF RemoveOwner
  <2>2. CASE next[i] = "listen"
    BY <1>2, <2>1, <2>2 DEF RemoveOwner, Alive
  <2>3. CASE next[i] # "listen"
    BY <1>2, <2>1, <2>3 DEF RemoveOwner
  <2> QED
    BY <2>2, <2>3
<1>3. ASSUME NEW i \in Instances, WriteSocket(i) PROVE Goal
  BY <1>3 DEF WriteSocket
<1>4. ASSUME NEW i \in Instances, WriteOwner(i) PROVE Goal
  BY <1>4 DEF WriteOwner
<1>5. ASSUME NEW i \in Instances, Unwrite(i) PROVE Goal
  BY <1>5 DEF Unwrite
<1>6. ASSUME UNCHANGED <<socket, owner>> PROVE Goal
  BY <1>6
<1>7. ASSUME NEW i \in Instances, StartStep(i) PROVE Goal
  BY <1>7, <1>1, <1>2, <1>3, <1>4, <1>5, <1>6
     DEF StartStep, StatSocket, StatOwner, ReadSocket, ReadOwner, Probe, RemoveFails, Listen,
         WriteSocketFails, WriteOwnerFails, MarkSocket, MarkSocketFails, StopServing, Cleanup
<1> QED
  BY <1>6, <1>7
     DEF Next, vars, Die, ReleaseMutex, Launch, OtherStarts, OtherExits, UserChangesFiles

(* No running instance removes or replaces what the user put at either path *)
(* (the early returns of prepareExisting).                                  *)
THEOREM UserFilesSafe ==
    ASSUME OneSession, ~StalledStart
    PROVE  Spec => UserFilesPreserved
<1>1. Inv /\ [Next]_vars =>
        [Alive # {} => /\ socket \in {Foreign, Directory} => socket' = socket
                       /\ owner = Foreign => owner' = owner]_vars
  BY FileSteps, CygwinAssumption
<1> QED
  BY <1>1, SocketInvariant, PTL DEF Spec, UserFilesPreserved

(* No instance removes or replaces a file of another live instance          *)
(* (removeFiles, writeFiles).                                               *)
THEOREM LiveFilesSafe ==
    ASSUME OneSession, ~StalledStart
    PROVE  Spec => LiveFilesPreserved
<1>1. Inv /\ [Next]_vars =>
        [\A j \in Alive :
           /\ socket = j /\ socket' # j => pc'[j] # pc[j]
           /\ owner = j /\ owner' # j => pc'[j] # pc[j]]_vars
  BY FileSteps, CygwinAssumption DEF Alive
<1> QED
  BY <1>1, SocketInvariant, PTL DEF Spec, LiveFilesPreserved

================================================================================
