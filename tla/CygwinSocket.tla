----------------------------- MODULE CygwinSocket ------------------------------
(***************************************************************************)
(* internal/interfaces/cygwin: the protocol by which instances of the      *)
(* program share one socket description file and its `.owner' marker.      *)
(* Start checks what an earlier instance may have left (prepareExisting),  *)
(* writes both files (writeFiles), serves, and removes them when it stops  *)
(* (cleanup).  No file is locked: what an instance reads, writes or        *)
(* removes is a step of its own, and it may die between any two of them.   *)
(* Looking at a file before reading it, and clearing its attributes before *)
(* removing it, belong to that step.                                       *)
(*                                                                         *)
(* An instance stands for its nonce: Start draws 16 random bytes, so no    *)
(* two instances share one.  A socket file holds the nonce of its writer,  *)
(* a marker the nonce and the process id of its writer.                    *)
(***************************************************************************)

CONSTANTS Instances,   \* launches of the program
          Pids,        \* process ids, which Windows reuses
          Sessions,    \* logon sessions of the user who owns the path
          StalledStart,\* TRUE: the mutex may be released while a Start is on its
                       \* way, stalled beyond Shutdown's deadline or overtaken
                       \* by a run that returns because its tray failed
          NoFile, Foreign, Directory, None

ASSUME CygwinAssumption ==
    /\ StalledStart \in BOOLEAN
    /\ {NoFile, Foreign, Directory, None} \cap Instances = {}
    /\ NoFile # Foreign /\ NoFile # Directory /\ Foreign # Directory

VARIABLES
    socket,   \* c.path: whose socket description, or what else is there
    readonly, \* its READONLY attribute
    owner,    \* c.path + ".owner": whose marker, or what else is there
    pc,       \* where each instance's Start is
    saw,      \* what each instance has read of c.path
    next,     \* where each instance goes after removeFiles
    pid,      \* the process id each instance has or had
    others,   \* process ids of unrelated processes
    mutex     \* per session, the instance that holds Local\OmniSSHAgent

vars == <<socket, readonly, owner, pc, saw, next, pid, others, mutex>>
files == <<socket, readonly, owner>>
procs == <<pid, others, mutex>>

Starting == {"stat", "statOwner", "readSocket", "readOwner", "probe",
             "rmSocket", "rmOwner", "listen", "writeSocket", "writeOwner",
             "unwrite", "attr"}
Alive == {i \in Instances : pc[i] \notin {"off", "dead"}}

(* What the second Stat of c.path accepts as a regular file. *)
Regular == Instances \cup {Foreign}

TypeOK ==
    /\ socket \in Instances \cup {NoFile, Foreign, Directory}
    /\ readonly \in BOOLEAN
    /\ owner \in Instances \cup {NoFile, Foreign}
    /\ pc \in [Instances -> Starting \cup
                  {"off", "serving", "cleanup", "failed", "stopped", "dead"}]
    /\ saw \in [Instances -> Instances \cup {NoFile, Foreign, Directory}]
    /\ next \in [Instances -> {"listen", "failed", "stopped"}]
    /\ pid \in [Instances -> Pids \cup {None}]
    /\ others \in SUBSET Pids
    /\ mutex \in [Sessions -> Instances \cup {None}]

Init ==
    /\ socket \in {NoFile, Foreign, Directory}
    /\ readonly = FALSE
    /\ owner \in {NoFile, Foreign}
    /\ pc = [i \in Instances |-> "off"]
    /\ saw = [i \in Instances |-> NoFile]
    /\ next = [i \in Instances |-> "listen"]
    /\ pid = [i \in Instances |-> None]
    /\ others = {}
    /\ mutex = [s \in Sessions |-> None]

--------------------------------------------------------------------------------
(* The process table. *)

PidsInUse == others \cup {pid[i] : i \in Alive}

(* processAlive: some process has this id, whoever it is. *)
ProcessAlive(p) == p \in PidsInUse

OtherStarts(p) ==
    /\ p \notin PidsInUse
    /\ others' = others \cup {p}
    /\ UNCHANGED <<files, pc, saw, next, pid, mutex>>

OtherExits(p) ==
    /\ p \in others
    /\ others' = others \ {p}
    /\ UNCHANGED <<files, pc, saw, next, pid, mutex>>

(* main: singleton.Acquire succeeds, and later the component is started.   *)
(* An instance that finds the mutex held exits without touching a file.    *)
Launch(i, s, p) ==
    /\ pc[i] = "off"
    /\ p \notin PidsInUse
    /\ mutex[s] = None
    /\ mutex' = [mutex EXCEPT ![s] = i]
    /\ pid' = [pid EXCEPT ![i] = p]
    /\ pc' = [pc EXCEPT ![i] = "stat"]
    /\ UNCHANGED <<files, saw, next, others>>

(* main: run returns and its defers close the mutex before os.Exit ends    *)
(* the process.  Start may still be running then: run returns at once when *)
(* the tray fails, also while a cancelled start is on its way, and after   *)
(* ten seconds when Shutdown does not succeed.  Without StalledStart both  *)
(* are left out: a start has run to its end before the mutex is released.  *)
ReleaseMutex(i, s) ==
    /\ mutex[s] = i
    /\ StalledStart \/ pc[i] \notin Starting \/ next[i] = "stopped"
    /\ mutex' = [mutex EXCEPT ![s] = None]
    /\ UNCHANGED <<files, pc, saw, next, pid, others>>

(* The process ends: os.Exit, a crash, a forced kill or a logoff.  Windows *)
(* closes its handles, and what it had written stays.                      *)
Die(i) ==
    /\ i \in Alive
    /\ pc' = [pc EXCEPT ![i] = "dead"]
    /\ mutex' = [s \in Sessions |-> IF mutex[s] = i THEN None ELSE mutex[s]]
    /\ UNCHANGED <<files, saw, next, pid, others>>

(* The user puts something of their own at either path, or deletes what is *)
(* there, while no instance is running.                                    *)
UserChangesFiles ==
    /\ Alive = {}
    /\ socket' \in {NoFile, Foreign, Directory}
    /\ owner' \in {NoFile, Foreign}
    /\ readonly' = FALSE
    /\ UNCHANGED <<pc, saw, next, procs>>

--------------------------------------------------------------------------------
(* prepareExisting *)

Goto(i, label) == pc' = [pc EXCEPT ![i] = label]

StatSocket(i) ==
    /\ pc[i] = "stat"
    /\ saw' = [saw EXCEPT ![i] = socket]
    /\ Goto(i, "statOwner")
    /\ UNCHANGED <<files, next, procs>>

(* Mutant: one missing file is enough to go on. *)
StatOwnerEither(i) ==
    /\ pc[i] = "statOwner"
    /\ Goto(i, IF saw[i] = NoFile \/ owner = NoFile THEN "listen" ELSE "readSocket")
    /\ UNCHANGED <<files, saw, next, procs>>

StatOwner(i) ==
    /\ pc[i] = "statOwner"
    /\ Goto(i, CASE saw[i] = NoFile /\ owner = NoFile -> "listen"
                 [] saw[i] # NoFile /\ owner # NoFile -> "readSocket"
                 [] OTHER -> "failed")
    /\ UNCHANGED <<files, saw, next, procs>>

ReadSocket(i) ==
    /\ pc[i] = "readSocket"
    /\ saw' = [saw EXCEPT ![i] = socket]
    /\ Goto(i, IF socket \in Regular THEN "readOwner" ELSE "failed")
    /\ UNCHANGED <<files, next, procs>>

(* A marker that is not ours, or a nonce that differs, is a conflict. *)
ReadOwner(i) ==
    /\ pc[i] = "readOwner"
    /\ Goto(i, IF owner \in Instances /\ saw[i] = owner THEN "probe" ELSE "failed")
    /\ UNCHANGED <<files, saw, next, procs>>

(* Mutant: a matching pair is taken for stale without asking Windows. *)
ProbeNothing(i) ==
    /\ pc[i] = "probe"
    /\ Goto(i, "rmSocket")
    /\ next' = [next EXCEPT ![i] = "listen"]
    /\ UNCHANGED <<files, saw, procs>>

Probe(i) ==
    /\ pc[i] = "probe"
    /\ IF ProcessAlive(pid[saw[i]])
       THEN Goto(i, "failed") /\ UNCHANGED next
       ELSE Goto(i, "rmSocket") /\ next' = [next EXCEPT ![i] = "listen"]
    /\ UNCHANGED <<files, saw, procs>>

--------------------------------------------------------------------------------
(* removeFiles: the socket, then the marker; a file that is gone is no     *)
(* error, any other error ends it.                                         *)

RemoveSocket(i) ==
    /\ pc[i] = "rmSocket"
    /\ socket' = NoFile
    /\ readonly' = FALSE
    /\ Goto(i, "rmOwner")
    /\ UNCHANGED <<owner, saw, next, procs>>

RemoveOwner(i) ==
    /\ pc[i] = "rmOwner"
    /\ owner' = NoFile
    /\ Goto(i, next[i])
    /\ UNCHANGED <<socket, readonly, saw, next, procs>>

(* The error of a removal: prepareExisting returns it, writeFiles and      *)
(* cleanup ignore it.  The attributes were reset before.                   *)
RemoveFails(i) ==
    /\ \/ pc[i] = "rmSocket" /\ readonly' = FALSE
       \/ pc[i] = "rmOwner" /\ UNCHANGED readonly
    /\ Goto(i, IF next[i] = "listen" THEN "failed" ELSE next[i])
    /\ UNCHANGED <<socket, owner, saw, next, procs>>

--------------------------------------------------------------------------------
(* MkdirAll, net.Listen and the nonce; then writeFiles, by atomicWrite. *)

Listen(i) ==
    /\ pc[i] = "listen"
    /\ \E label \in {"writeSocket", "failed"} : Goto(i, label)
    /\ UNCHANGED <<files, saw, next, procs>>

(* A rename replaces an ordinary file; it fails on a directory and on a    *)
(* read-only file.                                                         *)
WriteSocket(i) ==
    /\ pc[i] = "writeSocket"
    /\ socket # Directory /\ ~readonly
    /\ socket' = i
    /\ Goto(i, "writeOwner")
    /\ UNCHANGED <<readonly, owner, saw, next, procs>>

WriteSocketFails(i) ==
    /\ pc[i] = "writeSocket"
    /\ Goto(i, "failed")
    /\ UNCHANGED <<files, saw, next, procs>>

WriteOwner(i) ==
    /\ pc[i] = "writeOwner"
    /\ owner' = i
    /\ Goto(i, "attr")
    /\ UNCHANGED <<socket, readonly, saw, next, procs>>

WriteOwnerFails(i) ==
    /\ pc[i] = "writeOwner"
    /\ Goto(i, "unwrite")
    /\ UNCHANGED <<files, saw, next, procs>>

(* os.Remove(c.path), its error ignored *)
Unwrite(i) ==
    /\ pc[i] = "unwrite"
    /\ \/ socket' = NoFile /\ readonly' = FALSE
       \/ UNCHANGED <<socket, readonly>>
    /\ Goto(i, "failed")
    /\ UNCHANGED <<owner, saw, next, procs>>

(* SetFileAttributes, then reportReady(nil) *)
MarkSocket(i) ==
    /\ pc[i] = "attr"
    /\ socket # NoFile
    /\ readonly' = TRUE
    /\ Goto(i, "serving")
    /\ UNCHANGED <<socket, owner, saw, next, procs>>

MarkSocketFails(i) ==
    /\ pc[i] = "attr"
    /\ next' = [next EXCEPT ![i] = "failed"]
    /\ Goto(i, "rmSocket")
    /\ UNCHANGED <<files, saw, procs>>

--------------------------------------------------------------------------------
(* The context is cancelled or Accept fails: Start runs its defers. *)
StopServing(i) ==
    /\ pc[i] = "serving"
    /\ Goto(i, "cleanup")
    /\ UNCHANGED <<files, saw, next, procs>>

(* cleanup: remove the files only if the marker is this instance's own. *)
Cleanup(i) ==
    /\ pc[i] = "cleanup"
    /\ next' = [next EXCEPT ![i] = "stopped"]
    /\ Goto(i, IF owner = i THEN "rmSocket" ELSE "stopped")
    /\ UNCHANGED <<files, saw, procs>>

--------------------------------------------------------------------------------
StartStep(i) ==
    \/ StatSocket(i) \/ StatOwner(i) \/ ReadSocket(i) \/ ReadOwner(i) \/ Probe(i)
    \/ RemoveSocket(i) \/ RemoveOwner(i) \/ RemoveFails(i)
    \/ Listen(i) \/ WriteSocket(i) \/ WriteSocketFails(i)
    \/ WriteOwner(i) \/ WriteOwnerFails(i) \/ Unwrite(i)
    \/ MarkSocket(i) \/ MarkSocketFails(i)
    \/ StopServing(i) \/ Cleanup(i)

Next ==
    \/ \E i \in Instances : StartStep(i) \/ Die(i)
    \/ \E i \in Instances, s \in Sessions : ReleaseMutex(i, s)
    \/ \E i \in Instances, s \in Sessions, p \in Pids : Launch(i, s, p)
    \/ \E p \in Pids : OtherStarts(p) \/ OtherExits(p)
    \/ UserChangesFiles

Spec == Init /\ [][Next]_vars

--------------------------------------------------------------------------------
(* While an instance serves, a Cygwin client that opens the path finds that *)
(* instance's port and nonce, the marker names the same instance, and the   *)
(* file carries the attribute Cygwin needs: no step of any other instance,  *)
(* starting, stopping or dying, has disturbed the pair (prepareExisting,    *)
(* writeFiles, cleanup).                                                    *)
ServingPair ==
    \A i \in Instances :
        pc[i] = "serving" => socket = i /\ owner = i /\ readonly

(* Two files left behind by instances always belong to the same one, so     *)
(* that the next Start can recognise them as a pair (the order of writes in *)
(* writeFiles and of removals in removeFiles).                              *)
NeverMixed == (socket \in Instances /\ owner \in Instances) => socket = owner

(* No instance removes or replaces a file of another instance that is       *)
(* alive: only the owner of a file, or its death, makes it go.              *)
LiveFilesPreserved ==
    [][\A j \in Alive :
         /\ socket = j /\ socket' # j => pc'[j] # pc[j]
         /\ owner = j /\ owner' # j => pc'[j] # pc[j]]_vars

(* What the user put at either path is never removed or replaced by a       *)
(* running instance (the early returns of prepareExisting).                 *)
UserFilesPreserved ==
    [][Alive # {} =>
         /\ socket \in {Foreign, Directory} => socket' = socket
         /\ owner = Foreign => owner' = owner]_vars

================================================================================
