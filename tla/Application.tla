------------------------------ MODULE Application ------------------------------
(***************************************************************************)
(* internal/app: Application.Run starts every enabled compatibility        *)
(* interface in a goroutine of its own, waits until each has reported how  *)
(* its start went, aggregates the reports into one state, and closes       *)
(* a.done when all of them have stopped.  Shutdown cancels them and waits  *)
(* for a.done or for its deadline.                                         *)
(*                                                                         *)
(* Every component has two goroutines: one calls component.Start (startPc) *)
(* and one supervises it (supPc), selecting among the component's Ready    *)
(* channel, its `stopped' channel and the context.  All three channels are *)
(* independent, so the supervisor may see them in any order.               *)
(***************************************************************************)
EXTENDS FiniteSets

CONSTANTS Components,  \* the enabled interfaces (newComponents)
          Plain,       \* those that do not implement ReadyComponent
          Hangable     \* those whose Start may never return, e.g. Pageant
                       \* while a request blocks its message thread

ASSUME ComponentsAssumption ==
    /\ IsFiniteSet(Components)
    /\ Plain \subseteq Components
    /\ Hangable \subseteq Components

VARIABLES
    ctxDone,    \* the context passed to Run is cancelled
    appDone,    \* the context Run derives from it is cancelled by a.cancel
    runPc,      \* where Run is
    startPc,    \* where each component.Start is
    ready,      \* what reportReady put into each Ready channel (once)
    stopped,    \* components with a value in their `stopped' channel
    supPc,      \* where each supervising goroutine is
    outcome,    \* what each supervisor sent to `results'
    statuses,   \* a.statuses: components whose result Run has received
    state,      \* a.state
    done,       \* a.done is closed
    shutPc      \* where the call of Shutdown is

appVars == <<ctxDone, appDone, runPc, startPc, ready, stopped, supPc, outcome,
             statuses, state, done, shutPc>>

States == {"running", "degraded", "configuration_error"}

(* The context of the components: cancelling a parent cancels the child. *)
Cancelled == ctxDone \/ appDone

Results == {c \in Components : outcome[c] # "none"} \ statuses

(* Mutant: one component that runs is enough. *)
AggregateAny(report) ==
    IF \E c \in Components : report[c] = "ready" THEN "running" ELSE "degraded"

(* Aggregate(nil, statuses): running unless some enabled component is not. *)
Aggregate(report) ==
    IF \A c \in Components : report[c] = "ready" THEN "running" ELSE "degraded"

AppTypeOK ==
    /\ ctxDone \in BOOLEAN
    /\ appDone \in BOOLEAN
    /\ runPc \in {"idle", "collect", "returned"}
    /\ startPc \in [Components ->
                      {"idle", "starting", "serving", "returning", "stopped"}]
    /\ ready \in [Components -> {"none", "ok", "err"}]
    /\ stopped \in SUBSET Components
    /\ supPc \in [Components -> {"idle", "select", "await", "done"}]
    /\ outcome \in [Components -> {"none", "ready", "failed"}]
    /\ statuses \in SUBSET Components
    /\ state \in States
    /\ done \in BOOLEAN
    /\ shutPc \in {"idle", "waiting", "ok", "timeout"}

AppInit ==
    /\ ctxDone = FALSE
    /\ appDone = FALSE
    /\ runPc = "idle"
    /\ startPc = [c \in Components |-> "idle"]
    /\ ready = [c \in Components |-> "none"]
    /\ stopped = {}
    /\ supPc = [c \in Components |-> "idle"]
    /\ outcome = [c \in Components |-> "none"]
    /\ statuses = {}
    /\ state = "degraded"
    /\ done = FALSE
    /\ shutPc = "idle"

--------------------------------------------------------------------------------
(* The caller cancels the context it passed to Run. *)
Cancel ==
    /\ ~ctxDone
    /\ ctxDone' = TRUE
    /\ UNCHANGED <<appDone, runPc, startPc, ready, stopped, supPc, outcome,
                   statuses, state, done, shutPc>>

(* Run: derive the context and start both goroutines of every component. *)
RunSpawn ==
    /\ runPc = "idle"
    /\ runPc' = "collect"
    /\ startPc' = [c \in Components |-> "starting"]
    /\ supPc' = [c \in Components |-> "select"]
    /\ UNCHANGED <<ctxDone, appDone, ready, stopped, outcome, statuses, state,
                   done, shutPc>>

(* Run: receive one result. *)
RunCollect(c) ==
    /\ runPc = "collect"
    /\ c \in Results
    /\ statuses' = statuses \cup {c}
    /\ UNCHANGED <<ctxDone, appDone, runPc, startPc, ready, stopped, supPc,
                   outcome, state, done, shutPc>>

(* Run: all results are in; set the state and start the waiter of a.done. *)
RunPublish ==
    /\ runPc = "collect"
    /\ statuses = Components
    /\ state' = Aggregate(outcome)
    /\ runPc' = "returned"
    /\ UNCHANGED <<ctxDone, appDone, startPc, ready, stopped, supPc, outcome,
                   statuses, done, shutPc>>

(* The goroutine of Run's last statement: wg.Wait, then close(a.done). *)
CloseDone ==
    /\ runPc = "returned"
    /\ \A c \in Components : supPc[c] = "done"
    /\ ~done
    /\ done' = TRUE
    /\ UNCHANGED <<ctxDone, appDone, runPc, startPc, ready, stopped, supPc,
                   outcome, statuses, state, shutPc>>

--------------------------------------------------------------------------------
(* component.Start: the resources are there, reportReady(nil). *)
ReportReady(c) ==
    /\ startPc[c] = "starting"
    /\ startPc' = [startPc EXCEPT ![c] = "serving"]
    /\ ready' = IF c \in Plain THEN ready ELSE [ready EXCEPT ![c] = "ok"]
    /\ UNCHANGED <<ctxDone, appDone, runPc, stopped, supPc, outcome, statuses,
                   state, done, shutPc>>

(* component.Start returns an error.  Its first defer hands the error to   *)
(* reportReady, which readyOnce turns into nothing after a success.        *)
StartFails(c) ==
    /\ startPc[c] \in {"starting", "serving"}
    /\ startPc' = [startPc EXCEPT ![c] = "returning"]
    /\ ready' = IF c \in Plain \/ ready[c] # "none"
                THEN ready ELSE [ready EXCEPT ![c] = "err"]
    /\ UNCHANGED <<ctxDone, appDone, runPc, stopped, supPc, outcome, statuses,
                   state, done, shutPc>>

(* Mutant: the component got a context that is not derived from Run's. *)
ServeStopsOwnContext(c) ==
    /\ startPc[c] = "serving"
    /\ appDone
    /\ startPc' = [startPc EXCEPT ![c] = "returning"]
    /\ UNCHANGED <<ctxDone, appDone, runPc, ready, stopped, supPc, outcome,
                   statuses, state, done, shutPc>>

(* component.Start returns nil because its context was cancelled. *)
ServeStops(c) ==
    /\ startPc[c] = "serving"
    /\ Cancelled
    /\ startPc' = [startPc EXCEPT ![c] = "returning"]
    /\ UNCHANGED <<ctxDone, appDone, runPc, ready, stopped, supPc, outcome,
                   statuses, state, done, shutPc>>

(* Mutant: the recover of a panic sends nothing to `stopped'. *)
StartPanicsSilently(c) ==
    /\ startPc[c] \in {"starting", "serving"}
    /\ startPc' = [startPc EXCEPT ![c] = "stopped"]
    /\ UNCHANGED <<ctxDone, appDone, runPc, ready, stopped, supPc, outcome,
                   statuses, state, done, shutPc>>

(* component.Start panics: no error is reported to Ready, and the deferred *)
(* recover sends the panic to `stopped'.                                   *)
StartPanics(c) ==
    /\ startPc[c] \in {"starting", "serving"}
    /\ startPc' = [startPc EXCEPT ![c] = "stopped"]
    /\ stopped' = stopped \cup {c}
    /\ UNCHANGED <<ctxDone, appDone, runPc, ready, supPc, outcome, statuses,
                   state, done, shutPc>>

(* stopped <- component.Start(ctx) *)
StartReturns(c) ==
    /\ startPc[c] = "returning"
    /\ startPc' = [startPc EXCEPT ![c] = "stopped"]
    /\ stopped' = stopped \cup {c}
    /\ UNCHANGED <<ctxDone, appDone, runPc, ready, supPc, outcome, statuses,
                   state, done, shutPc>>

--------------------------------------------------------------------------------
(* A supervisor sends its one result and goes to pc. *)
SendResult(c, result, pc) ==
    /\ outcome' = [outcome EXCEPT ![c] = result]
    /\ supPc' = [supPc EXCEPT ![c] = pc]
    /\ UNCHANGED <<ctxDone, appDone, runPc, startPc, ready, stopped, statuses,
                   state, done, shutPc>>

(* case err := <-ready.Ready() *)
SupReady(c) ==
    /\ supPc[c] = "select"
    /\ ready[c] # "none"
    /\ SendResult(c, IF ready[c] = "ok" THEN "ready" ELSE "failed", "await")

(* case err := <-stopped: the component is over, the supervisor returns. *)
SupStopped(c) ==
    /\ supPc[c] = "select"
    /\ c \notin Plain
    /\ c \in stopped
    /\ SendResult(c, "failed", "done")

(* Mutants: the supervisor gives up waiting, returns without awaiting       *)
(* `stopped', or does not look at the context.                             *)
SupCancelledEager(c) ==
    /\ supPc[c] = "select"
    /\ c \notin Plain
    /\ SendResult(c, "failed", "await")

SupCancelledReturns(c) ==
    /\ supPc[c] = "select"
    /\ c \notin Plain
    /\ Cancelled
    /\ SendResult(c, "failed", "done")

SupCancelledNever(c) ==
    /\ supPc[c] = "select"
    /\ c \notin Plain
    /\ Cancelled /\ c \in stopped
    /\ SendResult(c, "failed", "await")

(* case <-ctx.Done() *)
SupCancelled(c) ==
    /\ supPc[c] = "select"
    /\ c \notin Plain
    /\ Cancelled
    /\ SendResult(c, "failed", "await")

(* A component without a Ready channel counts as running at once. *)
SupPlain(c) ==
    /\ supPc[c] = "select"
    /\ c \in Plain
    /\ SendResult(c, "ready", "await")

(* <-stopped, then wg.Done *)
SupAwait(c) ==
    /\ supPc[c] = "await"
    /\ c \in stopped
    /\ supPc' = [supPc EXCEPT ![c] = "done"]
    /\ UNCHANGED <<ctxDone, appDone, runPc, startPc, ready, stopped, outcome,
                   statuses, state, done, shutPc>>

--------------------------------------------------------------------------------
(* Shutdown: cancel once, then wait.  Run has returned before it is called. *)
ShutdownCall ==
    /\ runPc = "returned"
    /\ shutPc = "idle"
    /\ appDone' = TRUE
    /\ shutPc' = "waiting"
    /\ UNCHANGED <<ctxDone, runPc, startPc, ready, stopped, supPc, outcome,
                   statuses, state, done>>

(* case <-a.done: return nil *)
ShutdownOk ==
    /\ shutPc = "waiting"
    /\ done
    /\ shutPc' = "ok"
    /\ UNCHANGED <<ctxDone, appDone, runPc, startPc, ready, stopped, supPc,
                   outcome, statuses, state, done>>

(* case <-ctx.Done(): the deadline of the caller *)
ShutdownTimeout ==
    /\ shutPc = "waiting"
    /\ shutPc' = "timeout"
    /\ UNCHANGED <<ctxDone, appDone, runPc, startPc, ready, stopped, supPc,
                   outcome, statuses, state, done>>

--------------------------------------------------------------------------------
RunLoop == (\E c \in Components : RunCollect(c)) \/ RunPublish

StartStep(c) ==
    \/ ReportReady(c) \/ StartFails(c) \/ ServeStops(c)
    \/ StartPanics(c) \/ StartReturns(c)

SupStep(c) ==
    \/ SupReady(c) \/ SupStopped(c) \/ SupCancelled(c) \/ SupPlain(c)
    \/ SupAwait(c)

AppNext ==
    \/ Cancel \/ RunSpawn \/ RunLoop \/ CloseDone
    \/ \E c \in Components : StartStep(c) \/ SupStep(c)
    \/ ShutdownCall \/ ShutdownOk \/ ShutdownTimeout

AppSpec == AppInit /\ [][AppNext]_appVars

(* The Go scheduler runs every runnable goroutine, and a deadline expires. *)
(* The components owe nothing here: a hung Start is possible.              *)
SchedulerFairness ==
    /\ WF_appVars(RunLoop)
    /\ WF_appVars(CloseDone)
    /\ \A c \in Components : WF_appVars(SupStep(c))
    /\ WF_appVars(ShutdownOk \/ ShutdownTimeout)

(* The components outside Hangable make progress: they report, and they    *)
(* return once their context is cancelled.                                 *)
ComponentFairness ==
    \A c \in Components \ Hangable :
        /\ WF_appVars(startPc[c] = "starting" /\ StartStep(c))
        /\ WF_appVars(ServeStops(c))
        /\ WF_appVars(StartReturns(c))

AppFairSpec == AppSpec /\ SchedulerFairness /\ ComponentFairness

--------------------------------------------------------------------------------
(* Running is never claimed for an interface that did not come up: when the *)
(* aggregated state is running, every component with a Ready channel had    *)
(* reported success on it (Aggregate over what the supervisors selected).   *)
RunningOnlyIfReady ==
    state = "running" => \A c \in Components \ Plain : ready[c] = "ok"

(* Degraded is never claimed without a cause: a component reported an       *)
(* error or stopped, or everything was cancelled while starting.            *)
DegradedHasCause ==
    (runPc = "returned" /\ state = "degraded") =>
        \/ Cancelled
        \/ \E c \in Components : ready[c] = "err" \/ c \in stopped

(* a.done is closed, and Shutdown returns nil, only when the Start of every *)
(* component has returned: also of one that was reported as failed or       *)
(* cancelled while its Start was still on its way.                          *)
DoneMeansStopped ==
    (done \/ shutPc = "ok") => \A c \in Components : startPc[c] = "stopped"

(* Cancelling the context makes Run return even if a component hangs while  *)
(* it starts: the supervisors answer for it.                                *)
CancelledRunReturns == (runPc = "collect" /\ Cancelled) ~> (runPc = "returned")

(* A start that is not cancelled finishes as well, unless a component that  *)
(* may hang is still starting.                                              *)
RunReturns ==
    (runPc = "collect")
      ~> (runPc = "returned" \/ \E c \in Hangable : startPc[c] = "starting")

(* After a cancellation all components stop and a.done is closed, unless a  *)
(* component that may hang has not returned.                                *)
CancelledStops ==
    (runPc # "idle" /\ Cancelled)
      ~> (done \/ \E c \in Hangable : startPc[c] # "stopped")

================================================================================
