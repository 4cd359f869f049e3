--------------------------- MODULE ConfigStoreProofs ---------------------------
(***************************************************************************)
(* For every configuration the user may leave and every entry in the       *)
(* dialog: a save applies its command to the file as it is, never turns a  *)
(* configuration the program can start with into one it cannot, and never  *)
(* leaves a file that is not complete, on the disk as well.                *)
(***************************************************************************)
EXTENDS ConfigStore, TLAPS

(* What the command makes of a configuration *)
Applied(c) ==
    IF op \in Toggles THEN Toggle(c, op)
    ELSE [k \in DOMAIN c |-> IF k \notin DOMAIN dialog THEN c[k]
                             ELSE IF k = "socket" THEN Trim(dialog[k])
                             ELSE dialog[k]]

(* A command of the dialog runs while the dialog is open. *)
DialogIsOpen == (tray # "idle" /\ op \in {"apply", "ok"}) => dialog # None

(* What is about to be saved is the command applied to the file, and can be *)
(* started with if the file can, as long as nobody else has written.        *)
BufferIsFresh ==
    tray = "save" =>
      /\ buf \in Config
      /\ op \in Toggles \cup {"apply", "ok"}
      /\ ~raced => /\ file \in Config
                   /\ buf = Applied(file)
                   /\ Valid(file) => Valid(buf)

(* A call of write that is about to flush holds its data, one that is about *)
(* to rename has flushed them, and no call is left half way when its caller *)
(* has gone on.                                                             *)
WriteInOrder ==
    \A w \in Writers :
      /\ ~Calls(w) => at[w] = "create"
      /\ at[w] \in {"sync", "rename"} => tmp[w] = Data(w)
      /\ at[w] = "rename" => w \in synced

(* What is at the path is on the disk. *)
Flushed == ~cached

Inv == TypeOK /\ DialogIsOpen /\ BufferIsFresh /\ WriteInOrder /\ Flushed

--------------------------------------------------------------------------------
LEMMA DefaultType == Default \in Config
  BY DEF Default, Config

(* What a call of write is about to install *)
LEMMA DataType ==
  ASSUME Inv, NEW w \in Writers, Calls(w) PROVE Data(w) \in Config
  BY DefaultType DEF Inv, BufferIsFresh, Calls, Data, Writers

LEMMA ControlsType == ASSUME NEW c \in Config PROVE Controls(c) \in Values
  BY ConfigAssumption DEF Config, Values, Controls

(* A toggle keeps the type and the validity of a configuration: neither    *)
(* flag is validated.                                                      *)
LEMMA ToggleKeeps ==
  ASSUME NEW c \in Config, NEW s \in Toggles
  PROVE  Toggle(c, s) \in Config /\ (Valid(c) => Valid(Toggle(c, s)))
  BY DEF Config, Toggle, Toggles, Valid

LEMMA MergeType ==
  ASSUME NEW c \in Config, NEW v \in Values PROVE Merge(c, v) \in Config
<1>1. /\ v.backend \in {"openssh", "embedded", "other"}
      /\ v.pipe \in {"", "name", "bad"} /\ v.timeout \in {"ok", "bad"}
      /\ v.pageant \in BOOLEAN /\ v.cygwin \in BOOLEAN
      /\ Trim(v.socket) \in {"", "blank", "abs", "rel"}
      /\ v.level \in {"info", "debug", "other"}
  BY DEF Values, Trim
<1>2. ASSUME NEW s \in {"", "blank", "abs", "rel"}
      PROVE  [c EXCEPT !.backend = v.backend, !.pipe = v.pipe, !.timeout = v.timeout,
                       !.pageant = v.pageant, !.cygwin = v.cygwin, !.socket = s,
                       !.level = v.level] \in Config
  BY <1>1 DEF Config
<1> QED  BY <1>1, <1>2 DEF Merge

(* Merge replaces the fields of the dialog and keeps the others. *)
LEMMA MergeReplaces ==
  ASSUME NEW c \in Config, NEW v \in Values
  PROVE  Merge(c, v) = [k \in DOMAIN c |-> IF k \notin DOMAIN v THEN c[k]
                                           ELSE IF k = "socket" THEN Trim(v[k])
                                           ELSE v[k]]
  BY DEF Config, Values, Merge, Trim

--------------------------------------------------------------------------------
(* One call of write: its steps keep the order, and leave the rest alone. *)
LEMMA WriteStep ==
  ASSUME Inv, NEW w \in Writers, WriteTemp(w) \/ WriteData(w) \/ WriteSync(w)
  PROVE  Inv'
<1> USE ConfigAssumption
<1>1. /\ UNCHANGED <<file, main, runtime, tray, command, cached>>
      /\ \A v \in Writers : (Calls(v))' = Calls(v) /\ (Data(v))' = Data(v)
      /\ Calls(w)
  BY DEF WriteTemp, WriteData, WriteSync, At, Calls, Data, command
<1>2. Data(w) \in Config
  BY <1>1, DataType
<1>3. TypeOK'
  BY <1>1, <1>2 DEF Inv, TypeOK, WriteTemp, WriteData, WriteSync, At, command
<1>4. WriteInOrder'
  BY <1>1 DEF Inv, TypeOK, WriteInOrder, WriteTemp, WriteData, WriteSync, At
<1> QED BY <1>1, <1>3, <1>4 DEF Inv, DialogIsOpen, BufferIsFresh, Applied, Flushed, command

(* A call that returns leaves the other one as it is. *)
LEMMA ReturnStep ==
  ASSUME Inv, NEW w \in Writers, Returned(w),
         \A v \in Writers \ {w} : (Calls(v))' = Calls(v) /\ (Data(v))' = Data(v)
  PROVE  WriteInOrder'
  BY DEF Inv, TypeOK, WriteInOrder, Returned

(* Nothing happens to a call that is not under way. *)
LEMMA RestStep ==
  ASSUME Inv, UNCHANGED writing,
         \A v \in Writers : \/ (Calls(v))' = Calls(v) /\ (Data(v))' = Data(v)
                            \/ ~Calls(v)
  PROVE  WriteInOrder'
  BY DEF Inv, TypeOK, WriteInOrder, writing

(* The program and the user keep the types, the dialog open, the buffer     *)
(* fresh and the calls of write in order.                                   *)
LEMMA Inductive == Inv /\ [Next]_vars => Inv'
<1> SUFFICES ASSUME Inv, [Next]_vars PROVE Inv'
  OBVIOUS
<1> USE ConfigAssumption, DefaultType
<1>1. CASE MainStat
  <2>1. TypeOK'
    BY <1>1 DEF Inv, TypeOK, MainStat, command, writing
  <2>2. WriteInOrder'
    BY <1>1, RestStep DEF MainStat, Calls, Data, Writers, command
  <2> QED  BY <1>1, <2>1, <2>2
              DEF Inv, DialogIsOpen, BufferIsFresh, Applied, Flushed, MainStat, command
<1>2. CASE MainCreate \/ MainCreateFails
  <2>1. Returned("main") /\ "main" \in Writers /\ UNCHANGED <<runtime, tray, op, buf, dialog>>
    BY <1>2 DEF MainCreate, MainCreateFails, Install, Fail, Writers, command
  <2>2. WriteInOrder'
    BY <2>1, ReturnStep DEF Calls, Data, Writers
  <2>3. CASE MainCreate
    <3>1. file' = Default /\ main' = "load" /\ cached' = FALSE
      BY <2>3 DEF MainCreate, Install, Inv, WriteInOrder, Writers, Data
    <3>2. TypeOK'
      BY <2>1, <2>3, <3>1 DEF Inv, TypeOK, MainCreate, Race, Returned
    <3> QED  BY <2>1, <2>2, <2>3, <3>1, <3>2
                DEF Inv, DialogIsOpen, BufferIsFresh, Applied, Flushed, MainCreate, Race
  <2>4. CASE MainCreateFails
    <3>1. TypeOK'
      BY <2>1, <2>4 DEF Inv, TypeOK, MainCreateFails, Fail, Returned, command
    <3> QED  BY <2>2, <2>4, <3>1
                DEF Inv, DialogIsOpen, BufferIsFresh, Applied, Flushed, MainCreateFails, Fail,
                    command
  <2> QED  BY <1>2, <2>3, <2>4
<1>3. CASE MainLoad
  <2>1. TypeOK'
    BY <1>3 DEF Inv, TypeOK, MainLoad, command, writing
  <2>2. WriteInOrder'
    BY <1>3, RestStep DEF MainLoad, Calls, Data, Writers, command
  <2> QED  BY <1>3, <2>1, <2>2
              DEF Inv, DialogIsOpen, BufferIsFresh, Applied, Flushed, MainLoad, command
<1>4. ASSUME NEW o \in Toggles \cup {"open", "settings"}, MenuCommand(o) PROVE Inv'
  <2>1. TypeOK'
    BY <1>4 DEF Inv, TypeOK, MenuCommand, Toggles, command, writing
  <2>2. WriteInOrder'
    BY <1>4, RestStep DEF MenuCommand, Toggles, Calls, Data, Writers, command
  <2> QED  BY <1>4, <2>1, <2>2
              DEF Inv, DialogIsOpen, BufferIsFresh, Applied, Flushed, MenuCommand, Toggles, command
<1>5. ASSUME NEW o \in {"apply", "ok"}, DialogCommand(o) PROVE Inv'
  <2>1. TypeOK'
    BY <1>5 DEF Inv, TypeOK, DialogCommand, command, writing
  <2>2. WriteInOrder'
    BY <1>5, RestStep DEF DialogCommand, Calls, Data, Writers, command
  <2> QED  BY <1>5, <2>1, <2>2
              DEF Inv, DialogIsOpen, BufferIsFresh, Applied, Flushed, DialogCommand, command
<1>6. CASE TrayStat
  <2>1. TypeOK'
    BY <1>6 DEF Inv, TypeOK, TrayStat, Goto, command, writing
  <2>2. WriteInOrder'
    BY <1>6, RestStep DEF TrayStat, Goto, Calls, Data, Writers, command
  <2> QED  BY <1>6, <2>1, <2>2
              DEF Inv, DialogIsOpen, BufferIsFresh, Applied, Flushed, TrayStat, Goto, command
<1>7. CASE TrayCreate \/ TraySave \/ SaveFails \/ TrayFails
  <2>1. Returned("tray") /\ "tray" \in Writers /\ UNCHANGED <<main, runtime, dialog>>
    BY <1>7 DEF TrayCreate, TraySave, SaveFails, TrayFails, Install, Fail, Writers
  <2>2. WriteInOrder'
    BY <2>1, ReturnStep DEF Calls, Data, Writers
  <2>3. \/ file' = file /\ cached' = cached
        \/ file' \in Config /\ cached' = FALSE
    BY <1>7 DEF TrayCreate, TraySave, SaveFails, TrayFails, Install, Fail, Inv, WriteInOrder,
                BufferIsFresh, Writers, Data
  <2>4. /\ tray' \in {"idle", "load", "autostart"} /\ tray # "idle"
        /\ op' = (IF tray' = "idle" THEN "none" ELSE op)
        /\ buf' \in {buf, None} /\ raced' \in {raced, FALSE}
    BY <1>7 DEF TrayCreate, TraySave, SaveFails, TrayFails, Goto
  <2>5. TypeOK'
    BY <2>1, <2>3, <2>4 DEF Inv, TypeOK, Returned
  <2> QED  BY <2>1, <2>2, <2>3, <2>4, <2>5
              DEF Inv, DialogIsOpen, BufferIsFresh, Flushed
<1>8. CASE OpenEditor
  <2>1. TypeOK'
    BY <1>8 DEF Inv, TypeOK, OpenEditor, Goto, command, writing
  <2>2. WriteInOrder'
    BY <1>8, RestStep DEF OpenEditor, Goto, Calls, Data, Writers, command
  <2> QED  BY <1>8, <2>1, <2>2
              DEF Inv, DialogIsOpen, BufferIsFresh, Applied, Flushed, OpenEditor, Goto, command
<1>9. CASE OpenDialog
  <2>1. TypeOK'
    BY <1>9, ControlsType DEF Inv, TypeOK, OpenDialog, Goto, command, writing
  <2>2. WriteInOrder'
    BY <1>9, RestStep DEF OpenDialog, Goto, Calls, Data, Writers, command
  <2> QED  BY <1>9, <2>1, <2>2
              DEF Inv, DialogIsOpen, BufferIsFresh, Applied, Flushed, OpenDialog, Goto, command
<1>10. CASE LoadForToggle
  <2>1. /\ op \in Toggles /\ file \in Config
        /\ buf' = Toggle(file, op) /\ tray = "load" /\ tray' = "save"
        /\ UNCHANGED <<file, main, runtime, op, dialog, at, tmp, synced, cached>>
        /\ raced' = FALSE
    BY <1>10 DEF LoadForToggle, Goto, writing
  <2>2. buf' \in Config /\ (Valid(file) => Valid(buf'))
    BY <2>1, ToggleKeeps
  <2>3. TypeOK'
    BY <2>1, <2>2 DEF Inv, TypeOK
  <2>4. Applied(file)' = buf'
    BY <2>1 DEF Applied
  <2>5. WriteInOrder'
    BY <2>1, RestStep DEF writing, Calls, Data, Writers
  <2> QED  BY <2>1, <2>2, <2>3, <2>4, <2>5 DEF Inv, DialogIsOpen, BufferIsFresh, Flushed, Toggles
<1>11. CASE LoadForApply
  <2>1. /\ op \in {"apply", "ok"} /\ file \in Config /\ Valid(Merge(file, dialog))
        /\ buf' = Merge(file, dialog) /\ tray = "load" /\ tray' = "save"
        /\ UNCHANGED <<file, main, runtime, op, dialog, at, tmp, synced, cached>>
        /\ raced' = FALSE
    BY <1>11 DEF LoadForApply, Goto, writing
  <2>2. dialog \in Values
    BY <2>1 DEF Inv, TypeOK, DialogIsOpen
  <2>3. buf' \in Config
    BY <2>1, <2>2, MergeType
  <2>4. TypeOK'
    BY <2>1, <2>3 DEF Inv, TypeOK
  <2>5. Applied(file)' = buf'
    BY <2>1, <2>2, MergeReplaces DEF Applied, Toggles
  <2>6. WriteInOrder'
    BY <2>1, RestStep DEF writing, Calls, Data, Writers
  <2> QED  BY <2>1, <2>2, <2>3, <2>4, <2>5, <2>6 DEF Inv, DialogIsOpen, BufferIsFresh, Flushed
<1>12. CASE SetAutoStart
  <2>1. TypeOK'
    BY <1>12 DEF Inv, TypeOK, SetAutoStart, Goto, command, writing
  <2>2. WriteInOrder'
    BY <1>12, RestStep DEF SetAutoStart, Goto, Calls, Data, Writers, command
  <2> QED  BY <1>12, <2>1, <2>2
              DEF Inv, DialogIsOpen, BufferIsFresh, Applied, Flushed, SetAutoStart, Goto, command
<1>13. CASE CloseDialog
  <2>1. TypeOK'
    BY <1>13 DEF Inv, TypeOK, CloseDialog, command, writing
  <2>2. WriteInOrder'
    BY <1>13, RestStep DEF CloseDialog, Calls, Data, Writers, command
  <2> QED  BY <1>13, <2>1, <2>2
              DEF Inv, DialogIsOpen, BufferIsFresh, Applied, Flushed, CloseDialog, command
<1>14. ASSUME NEW v \in Entries, EditDialog(v) PROVE Inv'
  <2>1. TypeOK'
    BY <1>14 DEF Inv, TypeOK, EditDialog, command, writing
  <2>2. WriteInOrder'
    BY <1>14, RestStep DEF EditDialog, Calls, Data, Writers, command
  <2> QED  BY <1>14, <2>1, <2>2
              DEF Inv, DialogIsOpen, BufferIsFresh, Applied, Flushed, EditDialog, command
<1>15. ASSUME NEW c \in Contents, UserEdits(c) PROVE Inv'
  <2>1. TypeOK'
    BY <1>15 DEF Inv, TypeOK, UserEdits, Race, command, writing
  <2>2. WriteInOrder'
    BY <1>15, RestStep DEF UserEdits, Race, Calls, Data, Writers, command
  <2> QED  BY <1>15, <2>1, <2>2
              DEF Inv, DialogIsOpen, BufferIsFresh, Applied, Flushed, UserEdits, Race, command
<1>16. CASE Restart \/ PowerLoss
  <2>1. Reset /\ (file' = file \/ file' = Garbage) /\ cached' = FALSE
    BY <1>16 DEF Restart, PowerLoss, Inv, Flushed
  <2>2. TypeOK'
    BY <2>1 DEF Inv, TypeOK, Reset
  <2> QED  BY <2>1, <2>2 DEF Inv, DialogIsOpen, BufferIsFresh, WriteInOrder, Calls, Flushed, Reset
<1>17. ASSUME NEW w \in Writers, WriteTemp(w) \/ WriteData(w) \/ WriteSync(w) PROVE Inv'
  BY <1>17, WriteStep
<1>18. CASE UNCHANGED vars
  <2>1. TypeOK'
    BY <1>18 DEF Inv, TypeOK, vars, command, writing
  <2>2. WriteInOrder'
    BY <1>18, RestStep DEF vars, Calls, Data, Writers, command
  <2> QED  BY <1>18, <2>1, <2>2
              DEF Inv, DialogIsOpen, BufferIsFresh, Applied, Flushed, vars, command
<1> QED
  BY <1>1, <1>2, <1>3, <1>4, <1>5, <1>6, <1>7, <1>8, <1>9,
     <1>10, <1>11, <1>12, <1>13, <1>14, <1>15, <1>16, <1>17, <1>18 DEF Next, Program, Tray

LEMMA Invariance == Spec => []Inv
<1>1. Init => Inv
  BY ConfigAssumption DEF Init, Inv, TypeOK, DialogIsOpen, BufferIsFresh, WriteInOrder, Calls,
     Flushed
<1> QED  BY <1>1, Inductive, PTL DEF Spec

(* The variables of the configuration store keep their types. *)
THEOREM ConfigTypeCorrect == Spec => []TypeOK
<1>1. Inv => TypeOK
  BY DEF Inv
<1> QED  BY <1>1, Invariance, PTL

(* What the program does to the file: main and the tray install what a call  *)
(* of write has prepared; no other step of it, no crash and no power loss    *)
(* touches the file.                                                         *)
LEMMA ProgramFile ==
  ASSUME Inv, Program \/ Restart \/ PowerLoss
  PROVE  \/ file' = file
         \/ MainCreate /\ file' = Default
         \/ TrayCreate /\ file' = Default
         \/ TraySave /\ file' = buf /\ buf \in Config
<1>1. CASE MainCreate
  BY <1>1 DEF MainCreate, Install, Inv, WriteInOrder, Writers, Data
<1>2. CASE TrayCreate
  BY <1>2 DEF TrayCreate, Install, Inv, WriteInOrder, Writers, Data
<1>3. CASE TraySave
  BY <1>3 DEF TraySave, Install, Inv, WriteInOrder, BufferIsFresh, Writers, Data
<1>4. CASE PowerLoss
  BY <1>4 DEF PowerLoss, Inv, Flushed
<1> QED
  BY <1>1, <1>2, <1>3, <1>4
     DEF Program, Tray, MainStat, MainCreateFails, MainLoad, MenuCommand,
         DialogCommand, TrayStat, TrayFails, OpenEditor, OpenDialog, LoadForToggle,
         LoadForApply, SaveFails, SetAutoStart, CloseDialog, EditDialog, Restart, Fail,
         WriteTemp, WriteData, WriteSync

(* The only step that ends a save and changes the file writes the buffer. *)
LEMMA OnlyTraySaves ==
  ASSUME Inv, [Next]_vars, Saves, ~raced
  PROVE  file' = buf
  BY ProgramFile DEF Next, vars, Saves, MainCreate, TrayCreate, UserEdits

(* SavesAreAtomic for every file and every entry: a toggle or an Apply is   *)
(* applied to the file as it is when nobody else wrote since it was loaded. *)
THEOREM SavesAtomic == Spec => SavesAreAtomic
<1>1. ASSUME Inv, [Next]_vars
      PROVE  [Saves /\ ~raced =>
                 /\ file \in Config
                 /\ file' = IF op \in Toggles THEN Toggle(file, op)
                            ELSE [k \in DOMAIN file |->
                                     IF k \notin DOMAIN dialog THEN file[k]
                                     ELSE IF k = "socket" THEN Trim(dialog[k])
                                     ELSE dialog[k]]]_vars
  BY <1>1, OnlyTraySaves DEF Inv, BufferIsFresh, Applied, Saves
<1> QED  BY <1>1, Invariance, PTL DEF Spec, SavesAreAtomic

(* NeverInvalidated for every file and every entry: what the program saves  *)
(* over a configuration it can start with is one it can start with.         *)
THEOREM NeverMadeInvalid == Spec => NeverInvalidated
<1>1. ASSUME Inv, [Next]_vars
      PROVE  [(Saves /\ ~raced /\ Valid(file)) => (file' \in Config /\ Valid(file'))]_vars
  BY <1>1, OnlyTraySaves DEF Inv, BufferIsFresh, Saves
<1> QED  BY <1>1, Invariance, PTL DEF Spec, NeverInvalidated

(* Program steps, a process and a power that go at any moment: the path      *)
(* keeps a complete configuration, for every file and every entry (the order *)
(* of the calls in write, with two writers at work).                         *)
THEOREM FileIsNeverTorn == Spec => NothingTorn
<1>1. ASSUME Inv, [Next]_vars
      PROVE  [Program \/ Restart \/ PowerLoss => file' \in Config \cup {file}]_vars
  BY <1>1, ProgramFile, DefaultType
<1> QED  BY <1>1, Invariance, PTL DEF Spec, NothingTorn

================================================================================
