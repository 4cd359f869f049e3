# A TLA+ verification of OmniSSHAgent

OmniSSHAgent is a Windows tray program that offers one SSH agent (the Windows
OpenSSH agent, or a keyring of its own) to programs that speak other dialects:
Pageant's shared memory, Cygwin's emulated Unix sockets and the OpenSSH named
pipe.  The cryptography is in libraries.  What is this program's own is the
*coordination*: goroutines, a window thread, files and named objects of Windows
that several processes share, and an orderly start and end of all of it.  That
is what these modules model.

Paths below are relative to the repository's root.

## 1. Inventory

| Component | State it keeps | Operations | Talks to |
|---|---|---|---|
| Entry point `cmd/omnisshagent/main_windows.go` | context, `trayDone`, logger, deferred closes | `run`, `newBackend`, `newComponents` | everything below |
| Application `internal/app` | `state`, `statuses`, `done`, one supervisor per component | `Run`, `Shutdown`, `Aggregate` | components (`Start`, `Ready`), the tray as `StateSink` |
| Single instance `internal/singleton` | the mutex `Local\OmniSSHAgent` | `Acquire`, `Close` | other instances of the same logon session |
| Shutdown event `internal/control` | the named event | `NewShutdownEvent`, `RequestShutdown`, `Wait`, `Close` | the installer's process |
| Tray `internal/tray/tray_windows.go` | window, icon, menu, `state`, `shuttingDown` | `Run`, `SetState`, `quit`, `close`, `windowProc`, `command` | the shell, main (`onQuit`, `trayDone`) |
| Tray dialogs `internal/tray/{settings,keys,dialog}_windows.go` | a modal window, the loaded settings or keys | open, save, add, remove | configuration, backend |
| Cygwin interface `internal/interfaces/cygwin` | listener, nonce, the socket file and its `.owner` marker | `prepareExisting`, `writeFiles`, `cleanup`, `handle` | other instances through the files, Cygwin clients |
| Pageant interface `internal/interfaces/pageant` | a window and its thread | `Start`, the `WM_COPYDATA` handler | Pageant clients, backend |
| OpenSSH pipe `internal/interfaces/opensshpipe` | pipe listener, live connections | `Start`, the connection handlers | OpenSSH clients, embedded backend |
| Backends `internal/backend/{openssh,embedded}` | none; a keyring | the agent operations | the Windows OpenSSH agent |
| Configuration `internal/config` | `config.toml` | `CreateDefault`, `LoadRuntime`, `Validate`, `Save`, `ToggleBooleanSetting` | main, the tray thread, the user's editor |
| Logging `internal/logging` | the open file and its date | `Write`, `Close` | all goroutines |
| Autostart, open helper, CLI | one registry value; none; none | single calls | |
| Installer scripts | files in the installation directory | stop, copy, start | the shutdown event |
| Legacy application `old/app.go`, `old/pkg` | the tray's command queue, `wg`, `cancelAgents` | `startup`, `shutdown`, `RunAgent`, notices | replaced by the above; still in the repository |
| Legacy WSL2 proxy `old/cmd/wsl2-ssh-agent-proxy` | one PowerShell, `Multiplexer` with a Go channel per client | `listenLoop`, `handleConnection`, `readLoop` | SSH clients in WSL, `pwsh.ps1` |

What is hard about them, and what makes them correct:

* **Application**: the channels `Ready`, `stopped` and `ctx.Done` of a component
  become available in any order, and a component may fail, panic or hang.
  *Running* must be earned by every component, *degraded* must have a cause,
  `Run` and `Shutdown` must return, and `a.done` must mean that nothing works
  any more.
* **Tray**: `SetState` and `quit` decide under a lock and post a message after
  it, to a window that is being created or destroyed by another thread.  No
  state may be lost, no icon may be left, and a cancellation must close it.
* **Entry point**: quit, the installer's event, a closed window and a failing
  tray arrive at any moment of the start.  The process must end, and a clean
  end must leave nothing running when the mutex is given up.
* **Cygwin files**: instances share two files without a lock and may crash
  between any two file operations; Windows reuses process ids.  A serving
  instance's pair must stay intact, and a file of the user must never be
  touched.
* **Configuration**: main, the menu, the settings dialog and the user's editor
  work on one file without a lock.  A save must keep what it is not about, never
  make a usable configuration unusable, and never leave half a file.
* **Connections and backend client**: a cancellation meets clients that are being
  accepted, shake hands, wait for an answer or have left, and an agent that
  stops, restarts or never answers.  No goroutine may be left, every connection
  must be closed, and a restarted agent must be used again.
* **Pageant thread**: requests are served on the thread that must see `WM_QUIT`,
  from memory whose lengths the client chose.  The quit must not be lost, no
  client may be left in `SendMessage`, and only its mapping may be touched.
* **Dialogs**: every dialog, picker and message box runs a message loop inside the
  handler that opened it, and such a loop dispatches the messages of *all* windows
  of the thread.  The dialogs' globals must be the live windows, `WM_QUIT` must
  pass through every loop, and a key is removed by its position in a list that may
  have been read again since it was selected.
* **Logging**: a new file each day, while opens fail, the clock goes back and
  components log after main has closed the log.  No record may go to a closed file
  or to another day's, and no handle may be left.
* **Legacy application**: the tray's thread runs while `startup` still makes what
  it uses, commands are queued before there is a window, and one wait group is to
  wait for the tray and for agents that may fail early.
* **Legacy WSL2 proxy**: answers come back in any order over one pipe and must
  reach the client that asked; clients leave and PowerShell dies in between.

`PROJECT.json` lists each hazard at its line with the properties that watch it.

## 2. Modules

| Module | Models | State and actions |
|---|---|---|
| `Application` | `application.go`, `state.go` | two program counters per component, `startPc` (the goroutine in `component.Start`) and `supPc` (its supervisor); one action per branch of the supervisor's `select`, per exit of `Start`, and per step of `Run` and `Shutdown` |
| `Tray` | `tray_windows.go` without menus and dialogs | `trayPc` is the locked thread; `setter` and `watcher` are the goroutines in `SetState` and `quit`, split where the lock is released; `queue` is the thread's message queue |
| `TrayDialogs` | extends `Tray` with the menu commands, `settings_windows.go`, `keys_windows.go` and `dialog_windows.go` | `stack` is the nested message loops, innermost last; `ptr` is `settingsDlg`, `keysDlg`, `passwordDlg`; `listed` is the list box with `d.keys`, `sel` the selected row with the key it showed |
| `MainProcess` | `main_windows.go`, `singleton`, `control`; composes `Application` and `Tray` by `INSTANCE` over shared variables (`ctxDone` is the one context) | `mainPc` is the goroutine of `run`, from `Acquire` through the deferred calls to `os.Exit` |
| `Lifecycle` | abstract: the program's state diagram, and what each interface does in it | `phase`, `service`; implemented by `MainProcess` |
| `Interface` | abstract: the contract of `interface.go` | `cancelled`, `ready`, `phase`; implemented by `PageantThread` |
| `CygwinSocket` | the file protocol of `cygwin_windows.go` for several instances | one step per file operation, except that a `Stat` is joined to the read that follows it and the clearing of the attributes to the removal; `Die` may come between any two; `mutex` is per logon session |
| `ConfigStore` | `internal/config`, the menu commands and `settings_windows.go` on `config.toml` | `file` is what is at the path; `main` and `tray` are the two threads, split between stat, load and the four system calls of `write` (`at`, `tmp`, `synced`); `dialog` holds the values in the settings dialog |
| `Connections` | the accept loop and the handlers of `opensshpipe` and of `cygwin_windows.go` (`kind`), the embedded backend and the client of `internal/backend/openssh` (`backend`) | `loop` is `Start`; `handler` and `closer` are the two goroutines of each connection; `wg` is the wait group; `agent` is the Windows OpenSSH agent |
| `PageantThread` | `pageant_windows.go` | `pc` is the locked thread, in `Start`, in `handle` for `current`, or in the deferred calls; `watcher` posts `WM_QUIT`; `touched` is how much of the client's mapping was used |
| `DailyWriter` | `logging.go` and main's two writers | `w` is `w.file` and `w.date` of each; `handles` is what is really open; `last` is what became of the last record |
| `LegacyApp` | `old/app.go`, `wintray`, and the `RunAgent`s of `old/pkg` | `startup`, `tray`, `agent`, `notice` and `shutdown` are the goroutines; `chan` is `commandCh`, `wg` the wait group |
| `WslMux` | `old/cmd/wsl2-ssh-agent-proxy` | `proc` is the proxy, `link` each PowerShell with its pipes and channels, `conn` each client with its two goroutines |
| `...Proofs` | theorems about the module of the same name; `TrayProofs` covers `Tray` and `TrayDialogs`, `MainProcessProofs` also `DailyWriter`, `LegacyProofs` both `WslMux` and `LegacyApp` | |
| `MC...` | constants, definitions and symmetry for TLC | |

Abstractions worth knowing:

* An instance of the program *is* its nonce in `CygwinSocket` (16 random bytes),
  so a file's content is the instance that wrote it, or `Foreign`, or nothing.
  The port and the encoding of the nonce are left out.
* Some supervisors' and components' details are left to nondeterminism: *when*
  a component reports, fails, panics or hangs is a free choice.
* The queue of the tray is a set: two equal pending messages have the effect of
  one, and `GetMessage` delivers `WM_QUIT` last.
* Timers (ten seconds for `Shutdown`, ten for the tray) may expire at any
  moment.  No property depends on them not expiring.
* A configuration in `ConfigStore` has for each field the classes that `Validate`
  and the dialog tell apart (a pipe name is empty, good or bad; a socket path is
  empty, blank, absolute or relative).  `write` is four steps, each of which may
  fail: the temporary file is created, filled, flushed and renamed to the path
  (closing it is joined to the flush).  What a process wrote survives its end, but
  only what was flushed survives a loss of power.  A rename that was not on the disk
  by then is as if it had not been made, and the old file, which is complete, is
  there; a temporary file that is left behind is never used again and is left out;
  what the user's editor writes counts as flushed.  `raced` records that another
  actor wrote between the load and the rename of a command; it is history for the
  properties, and no action reads it.
* In `Connections` the content of a request is left out.  The named pipe has the
  embedded backend, as `newComponents` starts it with no other; the Cygwin socket
  has either.  The embedded backend answers, or refuses, in the handler's
  goroutine.  The ten operations of the backend client differ only in the message
  they send.
* A loop of `TrayDialogs` is a frame of a stack with its window's kind, whether the
  window still exists, its owner (a loop below, the tray's window, or `NoOwner`) and
  what the user chose in it.  What `DestroyWindow` takes with a window is the least
  set that contains it and everything a member owns (`Destroyed`).  A call of the
  backend in a handler is one step: other clients come before or after it.  As they
  change the keys at any time, `List` returns any list of `Lists`.  A row of the
  list box is a key: `listAdd` skips a label it cannot encode
  (`dialog_windows.go:338`), and labels are assumed to be encodable, since the rows
  would otherwise not be the positions in `d.keys`.
  `runModal`'s failing `GetMessage` is included.
* `DailyWriter` has one step per `Write` and `Close`, which hold the lock
  throughout.  A file is its date.  A write to an open file succeeds or fails.
* In `LegacyApp` the commands are counted, not told apart; a handler of an agent's
  connection is left out, because `Serve` does not wait for it.
* In `WslMux` a client sends whole requests, and the pool of workers in `pwsh.ps1`
  is a choice among the packets on their way: those of one channel are answered in
  order.  `checkStartAgent`, which only may end the proxy before it listens, is
  left out.
* What Windows, the shell, the user and the installer do is marked `external`
  in the map.

Operators named *Mutant* in their comment are wrong variants of the action that
follows them.  No specification uses them; each shows that a property notices
the bug that variant stands for.

## 3. Runs

| Run | Module, bound | Shows |
|---|---|---|
| `app` | `MCApplication`, three components: one that may hang, one that does not, one without `Ready` | `RunningOnlyIfReady`, `DegradedHasCause`, `DoneMeansStopped` under all interleavings of starts, failures, panics and cancellation; `CancelledRunReturns`, `RunReturns`, `CancelledStops` |
| `tray` | `MCTrayDialogs`, two states, two keys, loops nested three deep | `NoIconLeft`, `StateIsApplied`, `CancelClosesTray` with any dialogs open; `DialogPointers`, `RemovesSelected` |
| `main` | `MCMainProcess`, one component that may hang | `CleanExit`, `TrayWasTold`, the refinement `ImplementsLifecycle`; `CancelEndsProcess`, `TrayFailureEndsProcess` |
| `main_traytimeout` | one component | *violated*: see findings |
| `cygwin_one` | `MCCygwinSocket`, three launches, three process ids, one session | `ServingPair`, `NeverMixed`, `LiveFilesPreserved`, `UserFilesPreserved` |
| `config_all` | `MCConfigStore`, six files, three entries in the dialog | `SavesAreAtomic`, `NeverInvalidated`, `NothingTorn` |
| `config_first` | the same, no file at first | *violated*: see findings |
| `connections` | `MCConnections`, two connections of the named pipe or of the Cygwin socket, both backends | `PipeDrained`, `CancelReturns`, `CancelClosesAll`, `NoGoroutineLeft`, `AgentRecovers` |
| `pageant` | `MCPageantThread`, two clients, six requests | the refinement `ImplementsInterface`, liveness included; `WindowHasComponent`, `InBounds`, `SenderReleased` |
| `wslmux` | `MCWslMux`, two clients, two PowerShells, channels of one place | `AnswersAreOwn`, `PanicNeedsLeaver`, `BlockedByBacklog` |
| `legacy` | `MCLegacyApp`, Pageant and two listeners, two notices | `CommandsRun`, `ShutdownEnds`, `NothingLeft` |
| `daily` | `DailyWriter`, three days | `RecordsKept`, `NoHandleLeft` |

Bounds.  The components do not interact with each other except through the
aggregate and the wait group, so three, one of each kind, show every mixture.
`main` has one, because liveness of the composition is expensive to check and the
component that hangs is the case that matters; what it says about safety is
proved for any number.
In `TrayDialogs` three loops are the settings, the keys and a picker, passphrase
dialog or box above them, or a dialog that is closed and opened again while a box
keeps its first loop waiting.  Of two keys the lists are both or the second alone,
so that a position means another key after the list is read again.  That a
prompt loses its owner *and* its global takes six loops: the theorem covers it.
In `CygwinSocket` a crash, its successor and one more instance need three
launches; three process ids allow one to be reused while the others are taken.
The files and entries of `ConfigStore` contain one of each kind: nothing,
unreadable, default, invalid, a newer version, and an embedded backend with
settings that only it ignores.  Connections share only the accept loop and the
wait group, so two show every interference.  The requests of `PageantThread` are
the boundaries of each length check.  In `WslMux` one client may have
two requests open for a channel of one place (10 in the code), so that `readLoop`
does block, and the other one is there to be blocked; one restart of PowerShell is
`MaxGen` 2.  In `LegacyApp` `Cap` is one place more than the tray's own commands
(`Own` 8 and `Cap` 128 in the code): one notice before the loop fits, two make the
tray's thread block itself.  Three days are
before, at and after a change of the date.
The shell restarts only in the run `tray`: main cannot tell.
Symmetry is used in the runs of `CygwinSocket` only, which check no liveness.

`CHECK_DEADLOCK FALSE` stands where the program really ends: a process that has
exited, or a thread that has returned, takes no step.

Fairness.  `SchedulerFairness` and `Fairness` assume what the Go runtime and Windows
give: a runnable goroutine runs, a posted message is delivered to a thread that is
in its loop, a timer expires. `ComponentFairness` assumes that a component that is
not in `Hangable` reports and returns after its context is cancelled.  In
`MainProcess` every component, also a `Hangable` one, reports its start, so
`CancelEndsProcess` and `TrayFailureEndsProcess` are about one that hangs while it
serves; one that hangs while it starts is in `Application`, where
`CancelledRunReturns` is about it.  Nothing is assumed of the user, who may leave
the tray's message box open, nor, in `MainProcess`, of the tray. In `DialogSpec` the
thread gets its messages in whichever loop asks for them, a loop whose window is
gone returns, and the backend answers; no user need close a dialog for
`CancelClosesTray`.  In `Connections` goroutines run and deadlines pass, and the
embedded backend answers; no client need ever speak and the Windows agent need never
answer, so that `NoGoroutineLeft` excepts a request it holds.  `CancelReturns` has
no exception: the Cygwin socket's `Start` waits for no handler, and the named pipe's
handlers never call that agent.  `PageantThread` assumes that the backend answers:
its thread serves the requests itself, and one that is never answered blocks it
until `Shutdown`'s deadline (`CancelEndsProcess`).  In `LegacyApp` goroutines run;
no listener need fail, no notice arrive and nobody need quit.

## 4. Findings

1. `main_traytimeout` (`main_windows.go:118`).  `trayDone` holds one value.  When
   the tray ends first, the first `select` takes it and the second waits ten
   seconds and logs `tray shutdown timeout` for a tray that is gone.
2. `config_first` (`defaults.go:42`).  `CreateDefault` looks whether the file
   exists and renames over it later.  The tray runs before main gets there: a menu
   command in between creates the file and saves a toggle, and main writes the
   defaults over it.

Two more disagreements with the requirements
(`docs/requirements/260720-omnisshagent-windows-mvp-requirements.md`) that the
models show and no run is spent on:

* Line 619 wants every goroutine and thread ended before the mutex is released
  (`すべてのゴルーチンとOSスレッドの終了を待つ`).  The Cygwin interface does not count its
  handlers (`cygwin_windows.go:94`): its `Start` returns, and `a.done` is closed, while
  one still answers a request or waits for its handshake's deadline.  The named pipe
  interface does wait (`PipeDrained`), and `CleanExit` therefore speaks of `Start`s.
* The same line, when the tray fails: `run` returns at once (`main_windows.go:105`)
  and releases the mutex while components serve or are still starting.  `CleanExit`
  is about exits with code 0.

What the models also show, where no document promises otherwise or the code is
the replaced version:

* The mutex is `Local\`, one per logon session, while the socket path is one per
  user (`cygwin_windows.go:146`).  Two sessions can both pass `prepareExisting`, and
  the first then serves with a file that is not its own.  `cygwin_one` and the
  theorems are about one session.  The same is possible in one session when the mutex
  is released while a start is on its way (`StalledStart`): a start that stalls beyond
  `Shutdown`'s ten seconds, or, without any stall, a tray that fails during the
  start, since `run` then returns without `Shutdown` (`main_windows.go:102-105`).
  `cygwin_one` and the theorems leave both out.
* A reused process id makes a stale pair look alive, because only its existence is
  checked (`cygwin_windows.go:218`): the start then fails, and nothing worse follows.
* A keys dialog may be closed while its file picker is open.  `add` then asks for the
  passphrase of a locked key all the same, in a prompt without an owner
  (`keys_windows.go:226`), which is not closed with the other dialogs.  When a
  second keys dialog opens another prompt, that one takes `passwordDlg` over
  (`keys_windows.go:298`), and the messages of the first go to `DefWindowProc`.
* A failed reopen keeps a closed log file with its date; when the clock goes back to
  that date records are lost without the fallback (`logging.go:31`).  A record is
  also lost, on any date, when the write to an open file fails, for example because
  the disk is full: `logging.go:44` returns the error past the fallback.
* In the legacy application the tray may use the key ring before it exists and
  panic outside `Run`, after which `shutdown` waits for ever, and a `shutdown` that
  overtakes `startup` cancels no agent (`early`).  Nothing limits the notices that
  are sent before the loop: if they leave no place for the tray's own commands, its
  thread blocks in `enqueueCommand` (`wintray.go:85`) and `shutdown` waits for ever.
* In the legacy proxy a send to a channel that was just closed panics when a client
  leaves with a request open; a client with more unanswered requests than its
  channel has places can stop `readLoop`, and with it all clients, until it reads;
  after a restart of PowerShell channel numbers start at 1 again and an old
  connection may get a new one's answer.

## 5. Theorems

All proofs are checked by TLAPS.  They hold for every value of the constants
that satisfies the named assumptions, which TLC evaluates on every run.

`ApplicationProofs` (assumption `ComponentsAssumption`: the components are a
finite set).  The inductive invariant is `AppInv`: type correctness and

* `IdleInv`, `ReadyInv`, `StoppedInv`: what a component's program counter says
  about its channels, e.g. `stopped` holds a value exactly when `startPc` is
  `stopped`;
* `SupervisorInv`, `SentInv`: a supervisor that is done has seen `stopped`, one
  that has left its `select` has sent a result;
* `OutcomeInv`: a result *ready* comes from a Ready channel that holds *ok*, a
  result *failed* from an error, a stop or a cancellation;
* `CollectInv`, `DoneInv`: what `Run` has aggregated is all results, and
  `a.done` is closed only after all supervisors are done.

None of the safety properties is inductive alone: *running* is computed from
`outcome`, which says something about `ready` only through `OutcomeInv`, and
`a.done` says something about `startPc` only through the chain `DoneInv`,
`SupervisorInv`, `StoppedInv`.  From `AppInv` follow `AppTypeCorrect`,
`RunningIsEarned`, `DegradedIsCaused` and `ShutdownIsComplete`.

`CygwinSocketProofs` (assumption `CygwinAssumption`, and `OneSession` and
`~StalledStart` as hypotheses of each theorem).  The inductive invariant `Inv`
says that at most one instance is in `Front`, the part of its life in which it
may touch the files (`MutexInv`: it holds the mutex); that what it has checked is
still so (`CheckInv`); that a pair it removes as stale belongs to a dead instance
(`StaleInv`); and which files exist at each point between the writes and the
removals (`OwnInv`).  From it follow `ServingPairHolds`, `PairsMatch`, `UserFilesSafe` and
`LiveFilesSafe`; the last two are action properties, proved with `FileSteps`.

`ConfigStoreProofs` (assumption `ConfigAssumption`).  The inductive invariant adds
to the types that a command of the dialog runs while the dialog is open, and
`BufferIsFresh`: what is about to be saved is the command applied to the file as it
is, and can be started with if the file can, as long as nobody else wrote.
`WriteInOrder` says what a call of `write` has done at each of its steps, for two
calls at once: a temporary file that is about to be renamed is complete and flushed.
So what is at the path is on the disk (`Flushed`), which is what `NothingTorn` needs
of a loss of power; neither holds if the flush is dropped or follows the rename. It
rests on lemmas about `Toggle`, `Controls` and `Merge`.  From it follow
`ConfigTypeCorrect`, `SavesAtomic`, `NeverMadeInvalid` and `FileIsNeverTorn`, for
every file the user may leave and every entry in the dialog.

`ConnectionsProofs` (no assumption on the connections).  `PipeDrained` is not
inductive: it needs `Counted` (a handler is in the wait group until it has
ended), `CloserBeside` (a closer runs only beside `ServeAgent`, because the
handler waits for it) and `NobodyCounted`.  From them follows `PipeIsDrained`, for
any set of connections.

`TrayProofs` (no assumption but that of the states).  `DialogStep` shows that every
step of the thread with its nested dialogs is a step of `Tray` or leaves it alone,
hence `DialogsKeepTray`: `DialogSpec => Spec`.  `NoIconLeft` needs `IconInv`: an icon
exists only in the loop and is known to `added`, a pending `TaskbarCreated` means
that the shell has dropped it, and `WM_QUIT` is posted when window and icon are
gone and nothing can be posted after it.  From both follows `NoIconIsLeft`, for any
depth of dialogs.

The dialogs' own invariant is `Shape` (assumption `DialogAssumption`), stated of any
stack and any globals so that each lemma is about one change of them: a window is
pushed, a loop returns, a set of windows is destroyed.  `DialogPointers` is not
inductive, because `promptPassphrase` overwrites `passwordDlg` without a look.  It
takes `Chain` (an owner is below what it owns and lives as long, so a destroyed
set is closed), `Kinship` (pickers and prompts belong to a keys dialog, and only a
prompt may have lost it) and `OnePrompt` (below a picker no prompt has an owner,
since the picker's keys dialog was enabled).  The first attempt at this proof failed
for a good reason: that *every* live dialog has its global is false with six nested
loops, beyond the bound of the run (the prompt without an owner of section 4).
The property now excepts exactly that prompt, and `PointersAreLive` proves it.
`RemovesAreSelected` rests on `SelectionStep`: through every return of a nested loop,
every destroyed window and every `refresh`, a selection is kept only together with the
list it was made in, whatever lists the backend returns in between.

`MainProcessProofs` (assumption `MainAssumption`: the components are a finite set).
main, the application and the tray share variables, so each part's invariant must
survive the others' steps.  `AppStep` shows that a step of the process is a step of
`Application` or leaves it alone, which makes `AppInv` of `ApplicationProofs` an
invariant of the process; `RunInv` relates main to `Run`, `ExitInv` the exit code to
`Shutdown` and `trayDone`, `TrayInv` the icon to the loop and `trayDone` to the tray's
end, `ToldInv` the two copies of the state.  From them follow `ExitIsClean` and
`TrayIsTold`, and, by `PhaseInv` (what a phase says about the components) and one
lemma each for main, the components and the rest, `RefinesLifecycle`: the process
implements the state diagram, for any set of components.

`PageantThreadProofs` (the assumptions of `PageantThread`).  The inductive invariant
is `ResourceInv` (what exists at each place of `Start`), `RequestInv` (a request that
is served has been sent and `InBounds` holds) and `ReportInv` (what has been
reported at each place, and that an end without an error has a cancellation behind
it).  From it follow `WindowIsServed`, `MappingIsKept` and `KeepsContract`, the
initial state and the steps of `Interface`; that a cancelled interface returns is
liveness and checked in `pageant`.

The same module proves `DailyWriter` (assumption `LastDayAssumption`), on which
`MainProcess` does not depend.  `RecordsKept` is not inductive:
a record goes to a closed file when that is the file of today, and that there is none
follows from `ClosedIsOld`, the order of the dates.  From it follow `RecordsAreKept`
and `HandlesAreClosed`.

`LegacyProofs`, first part: `WslMux` (assumption `MuxAssumption`), for any
connections, numbers of requests, capacities of the channels and restarts of
PowerShell.  One lemma per action says what the action changes, field by field, and
the parts of the invariant `MuxInv` are shown from those:

* `MuxTypeOK`, `Fresh`, `NextIsFree`: the types, that nothing happens for a
  connection before its handler runs, and that the accepted connections have the
  first numbers;
* `OwnInv`: everything an answer passes through (both pipes, `readLoop`'s hands, the
  Go channel, the client) carries the number of its handler, in every generation;
* `FirstInv`: with the first PowerShell the numbers are different, a registered
  channel is open, and a reader that gives up has a reason;
* `DataInv`: with the first PowerShell the requests of a connection are on this way
  in their order, and without a gap while it is registered and its client is there.

`OwnInv` alone says which number an answer has, not whose it is: after a restart the
numbers are given again.  `AnswersAreOwn` therefore needs `FirstInv` for the
different numbers and `DataInv` for the order; `PanicNeedsLeaver` needs that a
channel is closed only with a cause; `BlockedByBacklog` counts what a connection has
passed on and has no answer to against what is in its channel and in `readLoop`'s
hands, which is what `DataInv`'s order and gaps are for.  No assumption limits a
client's requests.  From `MuxInv` (`MuxInvHolds`) follow `OwnAnswers`,
`PanicIsCaused` and `ReadLoopIsFree`.

`LegacyProofs`, second part: `LegacyApp` (assumption `LegacyAssumption`), for any list
of agents.  `LegacyInv` says that the wait group counts exactly the tray's thread and
the agents that serve, that an agent starts only in `startup`, and that a shutdown
which is past `wg.Wait` has found the count at zero.  From it follows
`ShutdownLeavesNothing`.

Every safety property of a passing run is stated by a theorem.  Only model-checked,
since the prover has no fairness, are the liveness properties:
`CancelledRunReturns`, `RunReturns`, `CancelledStops`, `StateIsApplied`,
`CancelClosesTray`, `CancelEndsProcess`, `TrayFailureEndsProcess`, `CancelReturns`,
`CancelClosesAll`, `NoGoroutineLeft`, `AgentRecovers`, `SenderReleased`, `CommandsRun`,
`ShutdownEnds` and the last conjunct of `ImplementsInterface`.

## 6. Not modelled

* The layout of the dialogs, the autostart entry and the open helper: single Windows
  calls without a state of their own.
* The installer's and uninstaller's file copies; of them `MainProcess` has the
  request of the shutdown event.
* The parsing of the command line's three flags.
* `old/pkg/sshutil`, `store` and `filelog`: the replaced version's keys in the
  credential store and its log, sequential code that nothing uses any more.  The
  replaced versions of the connection handlers and of Pageant's requests are
  covered by their successors' models only.
* In `PageantThread` the check for another Pageant and a second component in the
  same process are single failures of `Start`; in `ConfigStore` the menu's check
  marks, which are read from the file each time, are left out.

## 7. Plan

Done: the components of the program, the dialogs, the log, the replaced
application's start and end, and its WSL2 multiplexer.  What would come next:

1. `Connections` as an implementation of `Interface`, and `Application` over
   components that are any implementation of it.
2. `Installer`: stop, copy and roll back against the shutdown event and the mutex.
3. Theorems: that `Connections` reports and returns as `Interface` says, for both
   kinds.
