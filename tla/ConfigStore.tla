------------------------------ MODULE ConfigStore ------------------------------
(***************************************************************************)
(* internal/config and its users: config.toml is created and read by main  *)
(* while it starts, changed by the menu and the settings dialog on the     *)
(* tray thread, and edited by the user.  Nobody locks it.  Both writers go *)
(* through write, one system call at a time: it fills and flushes a        *)
(* temporary file and renames it to the path.  What was checked or loaded  *)
(* before may be out of date by then, and the process or the power may go  *)
(* at any moment.                                                          *)
(*                                                                         *)
(* The check marks of the menu are read from the file each time the menu   *)
(* is shown and are left out; so is the registry value of the autostart,   *)
(* except that setting it may fail.  A temporary file that a crash leaves  *)
(* behind is never used again, and is left out.                            *)
(***************************************************************************)

CONSTANTS Missing, Garbage, None,
          Contents,     \* what the user may leave at the path
          Entries,      \* what the user may enter in the dialog
          ProfileKnown  \* USERPROFILE is set

Config == [version : {1, 2},
           backend : {"openssh", "embedded", "other"},
           pipe : {"", "name", "bad"}, timeout : {"ok", "bad"},
           pageant : BOOLEAN, cygwin : BOOLEAN, socket : {"", "blank", "abs", "rel"},
           level : {"info", "debug", "other"}, notify : BOOLEAN]

(* settingsValues *)
Values == [backend : {"openssh", "embedded"}, pipe : {"", "name", "bad"},
           timeout : {"ok", "bad"}, pageant : BOOLEAN, cygwin : BOOLEAN,
           socket : {"", "blank", "abs", "rel"}, level : {"info", "debug"}]

ASSUME ConfigAssumption ==
    /\ {Missing, Garbage, None} \cap (Config \cup Values) = {}
    /\ Missing # Garbage
    /\ Contents \subseteq Config \cup {Missing, Garbage}
    /\ Entries \subseteq Values
    /\ ProfileKnown \in BOOLEAN

VARIABLES
    file,    \* what is at the path
    main,    \* where main is: CreateDefault, LoadRuntime, then run or error
    runtime, \* the configuration main runs with
    tray,    \* where the tray thread is in a menu or dialog command
    op,      \* that command, "none" if it is idle
    buf,     \* the configuration it is about to save
    raced,   \* another actor has changed the file since buf was computed
    dialog,  \* the values in the settings dialog, None if it is closed
    at,      \* where a call of write is; at rest it is at its first step
    tmp,     \* what is in its temporary file
    synced,  \* the writers whose temporary file is on the disk
    cached   \* what is at the path is not on the disk yet

command == <<op, buf, raced, dialog>>
writing == <<at, tmp, synced>>
vars == <<file, main, runtime, tray, command, writing, cached>>

Toggles == {"pageant", "cygwin"}
Writers == {"main", "tray"}

TypeOK ==
    /\ file \in Config \cup {Missing, Garbage}
    /\ main \in {"stat", "create", "load", "run", "error"}
    /\ runtime \in Config \cup {None}
    /\ tray \in {"idle", "stat", "create", "load", "save", "autostart"}
    /\ op \in Toggles \cup {"none", "open", "settings", "apply", "ok"}
    /\ buf \in Config \cup {None}
    /\ raced \in BOOLEAN
    /\ dialog \in Values \cup {None}
    /\ at \in [Writers -> {"create", "write", "sync", "rename"}]
    /\ tmp \in [Writers -> Config \cup {Missing, Garbage}]
    /\ synced \subseteq Writers
    /\ cached \in BOOLEAN

--------------------------------------------------------------------------------
Default == [version |-> 1, backend |-> "openssh", pipe |-> "name", timeout |-> "ok",
            pageant |-> TRUE, cygwin |-> TRUE, socket |-> "", level |-> "info",
            notify |-> FALSE]

(* Validate accepts c. *)
Valid(c) ==
    /\ c.version = 1
    /\ \/ c.backend = "openssh" /\ c.pipe = "name" /\ c.timeout = "ok"
       \/ c.backend = "embedded"
    /\ c.socket = "abs" \/ (c.socket = "" /\ ProfileKnown)
    /\ c.level \in {"info", "debug"}

(* ToggleBooleanSetting, between Load and Save *)
Toggle(c, setting) ==
    IF setting = "pageant" THEN [c EXCEPT !.pageant = ~@] ELSE [c EXCEPT !.cygwin = ~@]

(* settingsDialog.load: the controls for a configuration *)
Controls(c) ==
    [backend |-> IF c.backend = "other" THEN "openssh" ELSE c.backend,
     pipe |-> c.pipe, timeout |-> c.timeout, pageant |-> c.pageant,
     cygwin |-> c.cygwin,
     socket |-> IF c.socket = "" /\ ProfileKnown THEN "abs" ELSE c.socket,
     level |-> IF c.level = "other" THEN "info" ELSE c.level]

(* strings.TrimSpace: a path of blanks becomes the default path. *)
Trim(s) == IF s = "blank" THEN "" ELSE s

(* Mutant: the fields the dialog does not show are taken from the defaults. *)
MergeIntoDefault(c, v) ==
    [Default EXCEPT !.backend = v.backend, !.pipe = v.pipe, !.timeout = v.timeout,
                    !.pageant = v.pageant, !.cygwin = v.cygwin, !.socket = Trim(v.socket),
                    !.level = v.level]

(* mergeSettings: the version and the notifications are not in the dialog. *)
Merge(c, v) ==
    [c EXCEPT !.backend = v.backend, !.pipe = v.pipe, !.timeout = v.timeout,
              !.pageant = v.pageant, !.cygwin = v.cygwin, !.socket = Trim(v.socket),
              !.level = v.level]

Init ==
    /\ file \in Contents
    /\ main = "stat"
    /\ runtime = None
    /\ tray = "idle"
    /\ op = "none"
    /\ buf = None
    /\ raced = FALSE
    /\ dialog = None
    /\ at = [w \in Writers |-> "create"]
    /\ tmp = [w \in Writers |-> Missing]
    /\ synced = {}
    /\ cached = FALSE

(* A write of another actor, as seen by the tray's save. *)
Race == raced' = (raced \/ tray = "save")

--------------------------------------------------------------------------------
(* write(path, data), called by CreateDefault and by Save *)
Calls(w) == IF w = "main" THEN main = "create" ELSE tray \in {"create", "save"}
Data(w) == IF w = "tray" /\ tray = "save" THEN buf ELSE Default

At(w, here, next) == Calls(w) /\ at[w] = here /\ at' = [at EXCEPT ![w] = next]

(* CreateTemp and Chmod: the file is empty. *)
WriteTemp(w) ==
    /\ At(w, "create", "write")
    /\ tmp' = [tmp EXCEPT ![w] = Garbage]
    /\ UNCHANGED <<file, main, runtime, tray, command, synced, cached>>

(* Mutant: the data are not flushed before the rename. *)
WriteDataUnflushed(w) ==
    /\ At(w, "write", "rename")
    /\ tmp' = [tmp EXCEPT ![w] = Data(w)]
    /\ UNCHANGED <<file, main, runtime, tray, command, synced, cached>>

WriteData(w) ==
    /\ At(w, "write", "sync")
    /\ tmp' = [tmp EXCEPT ![w] = Data(w)]
    /\ UNCHANGED <<file, main, runtime, tray, command, synced, cached>>

(* Sync and Close *)
WriteSync(w) ==
    /\ At(w, "sync", "rename")
    /\ synced' = synced \cup {w}
    /\ UNCHANGED <<file, main, runtime, tray, command, tmp, cached>>

(* The call returns; its deferred Remove finds the temporary file, or not. *)
Returned(w) ==
    /\ at' = [at EXCEPT ![w] = "create"]
    /\ tmp' = [tmp EXCEPT ![w] = Missing]
    /\ synced' = synced \ {w}

(* Rename: the path gets what the temporary file holds, flushed or not. *)
Install(w) ==
    /\ at[w] = "rename"
    /\ file' = tmp[w]
    /\ cached' = (w \notin synced)
    /\ Returned(w)

(* A step of write fails, after it wrote something or nothing. *)
Fail(w) == Returned(w) /\ UNCHANGED <<file, cached>>

--------------------------------------------------------------------------------
(* main: CreateDefault, then LoadRuntime; an error of the first makes the  *)
(* result of the second irrelevant.                                        *)

MainStat ==
    /\ main = "stat"
    /\ main' \in {IF file = Missing THEN "create" ELSE "load", "error"}
    /\ UNCHANGED <<file, runtime, tray, command, writing, cached>>

MainCreate ==
    /\ main = "create"
    /\ Install("main")
    /\ main' = "load"
    /\ Race
    /\ UNCHANGED <<runtime, tray, op, buf, dialog>>

MainCreateFails ==
    /\ main = "create"
    /\ Fail("main")
    /\ main' = "error"
    /\ UNCHANGED <<runtime, tray, command>>

MainLoad ==
    /\ main = "load"
    /\ IF file \in Config /\ Valid(file)
       THEN main' = "run" /\ runtime' = file
       ELSE main' = "error" /\ UNCHANGED runtime
    /\ UNCHANGED <<file, tray, command, writing, cached>>

--------------------------------------------------------------------------------
(* The tray thread.  Every command but Cancel starts with CreateDefault.   *)

Goto(pc) == tray' = pc /\ op' = IF pc = "idle" THEN "none" ELSE op

(* command: open the configuration, a toggle, or the settings.  The dialog *)
(* runs its own message loop, so commands arrive while it is open.         *)
MenuCommand(o) ==
    /\ tray = "idle"
    /\ o = "settings" => dialog = None
    /\ op' = o
    /\ tray' = "stat"
    /\ UNCHANGED <<file, main, runtime, buf, raced, dialog, writing, cached>>

(* The buttons Apply and OK *)
DialogCommand(o) ==
    /\ tray = "idle"
    /\ dialog # None
    /\ op' = o
    /\ tray' = "stat"
    /\ UNCHANGED <<file, main, runtime, buf, raced, dialog, writing, cached>>

TrayStat ==
    /\ tray = "stat"
    /\ \E pc \in {IF file = Missing THEN "create" ELSE "load", "idle"} : Goto(pc)
    /\ UNCHANGED <<file, main, runtime, buf, raced, dialog, writing, cached>>

TrayCreate ==
    /\ tray = "create"
    /\ Install("tray")
    /\ Goto("load")
    /\ UNCHANGED <<main, runtime, buf, raced, dialog>>

TrayFails ==
    /\ tray \in {"create", "load", "autostart"}
    /\ Fail("tray")
    /\ Goto("idle")
    /\ UNCHANGED <<main, runtime, buf, raced, dialog>>

(* The configuration is opened in the user's editor. *)
OpenEditor ==
    /\ tray = "load"
    /\ op = "open"
    /\ Goto("idle")
    /\ UNCHANGED <<file, main, runtime, buf, raced, dialog, writing, cached>>

(* openSettings: the dialog gets the values of the file. *)
OpenDialog ==
    /\ tray = "load"
    /\ op = "settings"
    /\ file \in Config
    /\ dialog' = Controls(file)
    /\ Goto("idle")
    /\ UNCHANGED <<file, main, runtime, buf, raced, writing, cached>>

LoadForToggle ==
    /\ tray = "load"
    /\ op \in Toggles
    /\ file \in Config
    /\ buf' = Toggle(file, op)
    /\ raced' = FALSE
    /\ Goto("save")
    /\ UNCHANGED <<file, main, runtime, dialog, writing, cached>>

(* Mutant: the dialog saves without validating. *)
LoadForApplyUnchecked ==
    /\ tray = "load"
    /\ op \in {"apply", "ok"}
    /\ file \in Config
    /\ buf' = Merge(file, dialog)
    /\ raced' = FALSE
    /\ Goto("save")
    /\ UNCHANGED <<file, main, runtime, dialog, writing, cached>>

(* apply: load, merge and validate *)
LoadForApply ==
    /\ tray = "load"
    /\ op \in {"apply", "ok"}
    /\ file \in Config
    /\ Valid(Merge(file, dialog))
    /\ buf' = Merge(file, dialog)
    /\ raced' = FALSE
    /\ Goto("save")
    /\ UNCHANGED <<file, main, runtime, dialog, writing, cached>>

(* Save; after a toggle the menu's check marks are read again. *)
TraySave ==
    /\ tray = "save"
    /\ Install("tray")
    /\ buf' = None
    /\ raced' = FALSE
    /\ Goto(IF op \in Toggles THEN "idle" ELSE "autostart")
    /\ UNCHANGED <<main, runtime, dialog>>

SaveFails ==
    /\ tray = "save"
    /\ Fail("tray")
    /\ buf' = None
    /\ raced' = FALSE
    /\ Goto("idle")
    /\ UNCHANGED <<main, runtime, dialog>>

(* apply sets the autostart entry; OK then closes the dialog. *)
SetAutoStart ==
    /\ tray = "autostart"
    /\ Goto("idle")
    /\ dialog' = IF op = "ok" THEN None ELSE dialog
    /\ UNCHANGED <<file, main, runtime, buf, raced, writing, cached>>

(* The user changes the controls, or closes the dialog. *)
EditDialog(v) ==
    /\ tray = "idle"
    /\ dialog # None
    /\ dialog' = v
    /\ UNCHANGED <<file, main, runtime, tray, op, buf, raced, writing, cached>>

CloseDialog ==
    /\ tray = "idle"
    /\ dialog # None
    /\ dialog' = None
    /\ UNCHANGED <<file, main, runtime, tray, op, buf, raced, writing, cached>>

--------------------------------------------------------------------------------
(* The user edits, breaks or deletes the file. *)
UserEdits(c) ==
    /\ file' = c
    /\ cached' = FALSE
    /\ Race
    /\ UNCHANGED <<main, runtime, tray, op, buf, dialog, writing>>

(* The process is gone, and the next one starts. *)
Reset ==
    /\ main' = "stat"
    /\ runtime' = None
    /\ tray' = "idle" /\ op' = "none"
    /\ buf' = None
    /\ raced' = FALSE
    /\ dialog' = None
    /\ at' = [w \in Writers |-> "create"]
    /\ tmp' = [w \in Writers |-> Missing]
    /\ synced' = {}

(* The process ends at any moment: what it wrote stays with the system. *)
Restart == Reset /\ UNCHANGED <<file, cached>>

(* The power fails: what was not flushed is lost. *)
PowerLoss ==
    /\ Reset
    /\ file' = IF cached THEN Garbage ELSE file
    /\ cached' = FALSE

Tray ==
    \/ \E o \in Toggles \cup {"open", "settings"} : MenuCommand(o)
    \/ \E o \in {"apply", "ok"} : DialogCommand(o)
    \/ TrayStat \/ TrayCreate \/ TrayFails \/ OpenEditor \/ OpenDialog
    \/ LoadForToggle \/ LoadForApply \/ TraySave \/ SaveFails \/ SetAutoStart
    \/ CloseDialog

Program ==
    \/ MainStat \/ MainCreate \/ MainCreateFails \/ MainLoad
    \/ Tray
    \/ \E v \in Entries : EditDialog(v)
    \/ \E w \in Writers : WriteTemp(w) \/ WriteData(w) \/ WriteSync(w)

Next ==
    \/ Program
    \/ \E c \in Contents : UserEdits(c)
    \/ Restart
    \/ PowerLoss

Spec == Init /\ [][Next]_vars

--------------------------------------------------------------------------------
Saves == tray = "save" /\ tray' # "save" /\ file' # file

(* A save is the command applied to the file as it is: unless another actor *)
(* wrote in between, it changes what the command is about and keeps all     *)
(* else, what the user edited while the dialog was open included            *)
(* (ToggleBooleanSetting and apply load again before they save).            *)
SavesAreAtomic ==
    [][Saves /\ ~raced =>
         /\ file \in Config
         /\ file' = IF op \in Toggles THEN Toggle(file, op)
                    ELSE [k \in DOMAIN file |->
                             IF k \notin DOMAIN dialog THEN file[k]
                             ELSE IF k = "socket" THEN Trim(dialog[k])
                             ELSE dialog[k]]]_vars

(* The program never turns a configuration it can start with into one it    *)
(* cannot: no toggle and no dialog, with whatever was entered in it, makes  *)
(* the next start fail, unless another actor wrote in between (apply        *)
(* validates, and what a toggle changes is not validated).                  *)
NeverInvalidated ==
    [][(Saves /\ ~raced /\ Valid(file)) => (file' \in Config /\ Valid(file'))]_vars

(* Only the user leaves a file that cannot be read, or none: whatever the    *)
(* two writers do at the same time, whichever call of write fails, and also  *)
(* when the process or the power goes between two of them, the path keeps a  *)
(* complete configuration (the order of Write, Sync and Rename in write, and *)
(* a temporary file for each call).                                          *)
NothingTorn ==
    [][Program \/ Restart \/ PowerLoss => file' \in Config \cup {file}]_vars

(* CreateDefault does not overwrite an existing file: at the most it writes *)
(* the defaults again over the defaults (CreateDefault returns early if the *)
(* file exists).                                                            *)
ExistingNotOverwritten ==
    [][\/ main = "create" /\ main' = "load"
       \/ tray = "create" /\ tray' = "load"
       => file \in {Missing, Default}]_vars

================================================================================
