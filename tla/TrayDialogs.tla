------------------------------ MODULE TrayDialogs ------------------------------
(***************************************************************************)
(* The dialogs of internal/tray on the thread of the tray.  Every dialog,  *)
(* file picker and message box runs a message loop of its own inside the   *)
(* handler that opened it, and such a loop dispatches the messages of all  *)
(* windows of the thread: a menu command, a click in a lower dialog or the *)
(* WM_CLOSE of the tray may arrive in any of them.  The stack of running   *)
(* loops is explicit; a loop returns only when it is on top.               *)
(*                                                                         *)
(* The keys dialog shows a list of the agent's keys that was read earlier, *)
(* and its remove button goes by the position of the selected row.  Other  *)
(* clients change the agent between any two calls, so every call of List   *)
(* may return any list, and Remove and Add may fail.  What the settings    *)
(* dialog does to the configuration is in ConfigStore.                     *)
(***************************************************************************)
EXTENDS Tray, Naturals, Sequences, FiniteSets

CONSTANTS
    Keys,      \* the keys an agent may hold
    Lists,     \* the lists of keys that its List may return
    MaxDepth   \* bound on the nested loops

ASSUME DialogAssumption == MaxDepth \in Nat \ {0} /\ Lists \subseteq Seq(Keys)

VARIABLES
    stack,   \* the running loops, the innermost last
    ptr,     \* settingsDlg, keysDlg, passwordDlg: a position of the stack, 0 is nil
    listed,  \* d.keys of the open keys dialog; the rows of its list box are made from it
    sel      \* LB_GETCURSEL and the key the user saw in that row, <<>> is no selection

keysVars == <<listed, sel>>
dialogVars == <<stack, ptr, keysVars>>
ofTray == <<ctxDone, trayPc, trayErr, tstate, window, added, shuttingDown, label, shown,
            setter, watcher, quitGo>>   \* all of the tray but its queue

Dialogs == {"settings", "keys", "pass"}
Kinds == Dialogs \cup {"pick", "box"}
NoOwner == MaxDepth + 1   \* a window without an owner

(* A loop: its window's kind, whether the window exists, the position of    *)
(* the owner's loop (0 is the tray's window) and what the user chose in it. *)
Frame == [kind : Kinds, live : BOOLEAN, owner : 0 .. NoOwner,
          result : {"none", "plain", "locked", "bad"}]

DialogTypeOK ==
    /\ TrayTypeOK
    /\ Len(stack) <= MaxDepth
    /\ \A i \in DOMAIN stack : stack[i] \in Frame
    /\ ptr \in [Dialogs -> 0 .. MaxDepth]
    /\ listed \in Lists \cup {<<>>}
    /\ sel \in {<<>>} \cup ((1 .. Len(listed)) \X Keys)

DialogInit ==
    /\ Init
    /\ stack = <<>>
    /\ ptr = [k \in Dialogs |-> 0]
    /\ listed = <<>>
    /\ sel = <<>>

--------------------------------------------------------------------------------
(* Windows. *)
Top == Len(stack)

Room == Top < MaxDepth
Push(s, kind, owner) ==
    Append(s, [kind |-> kind, live |-> TRUE, owner |-> owner, result |-> "none"])

(* DestroyWindow destroys the windows that the window owns as well. *)
Owned(i, S) == i \in S /\ \A j \in DOMAIN stack : stack[j].owner \in S => j \in S
Destroyed(i) == {j \in DOMAIN stack : \A S \in SUBSET (0 .. Top) : Owned(i, S) => j \in S}

Dead(gone, result) ==
    [j \in DOMAIN stack |->
        IF j \in gone THEN [stack[j] EXCEPT !.live = FALSE,
                              !.result = IF stack[j].live THEN result ELSE @]
                      ELSE stack[j]]

(* Mutant: WM_DESTROY does not forget the dialog. *)
ForgetLater(gone) == ptr

(* WM_DESTROY of a dialog: its global is nil again. *)
Forget(gone) == [k \in Dialogs |-> IF ptr[k] \in gone THEN 0 ELSE ptr[k]]

(* The list and its selection go with the dialog. *)
Drop(gone) == IF ptr["keys"] \in gone THEN listed' = <<>> /\ sel' = <<>>
                                      ELSE UNCHANGED keysVars

(* DestroyWindow of the window at i: result is what the user chose in it. *)
Destroy(i, result) ==
    \E gone \in {Destroyed(i)} :
      stack' = Dead(gone, result) /\ ptr' = Forget(gone) /\ Drop(gone)

(* The user can click in a window that runs no modal child. *)
Enabled(i, kind) ==
    /\ trayPc = "loop"
    /\ i \in DOMAIN stack
    /\ stack[i].kind = kind
    /\ stack[i].live
    /\ \A j \in DOMAIN stack : stack[j].owner # i

(* d.hwnd of the dialog at i, as an owner: it is 0 when the dialog is gone. *)
Hwnd(s, i) == IF i \in DOMAIN s /\ s[i].live THEN i ELSE NoOwner

ShowError(s, i) == Push(s, "box", Hwnd(s, i))
ShowFatal(s) == Push(s, "box", NoOwner)

--------------------------------------------------------------------------------
(* command(menuSettings): an open dialog is only brought to the front; a    *)
(* failed createDefaultConfig or create is shown in a box.                  *)
OpenSettings ==
    /\ trayPc = "loop" /\ window /\ ~shuttingDown
    /\ ptr["settings"] = 0
    /\ Room
    /\ \/ stack' = Push(stack, "settings", 0) /\ ptr' = [ptr EXCEPT !["settings"] = Top + 1]
       \/ stack' = ShowFatal(stack) /\ UNCHANGED ptr
    /\ UNCHANGED keysVars

(* A toggle of the menu fails. *)
ToggleFails ==
    /\ trayPc = "loop" /\ window /\ ~shuttingDown
    /\ Room
    /\ stack' = ShowFatal(stack)
    /\ UNCHANGED <<ptr, keysVars>>

(* idManageKeys: openKeys.  There may be no backend, create may fail, and   *)
(* the first List may fail after the dialog was created.                    *)
OpenKeys(i) ==
    /\ Room /\ Enabled(i, "settings")
    /\ ptr["settings"] = i
    /\ ptr["keys"] = 0
    /\ \/ stack' = ShowError(stack, i) /\ UNCHANGED <<ptr, keysVars>>
       \/ LET opened == Push(stack, "keys", i)
          IN  /\ ptr' = [ptr EXCEPT !["keys"] = Top + 1]
              /\ sel' = <<>>
              /\ \/ stack' = opened /\ listed' \in Lists
                 \/ Len(opened) < MaxDepth /\ stack' = ShowError(opened, Top + 1) /\ listed' = <<>>

(* Mutant: the rows are filled anew and the selection stays where it was. *)
RefreshInPlace(s, i) ==
    \/ stack' = s /\ IF ptr["keys"] = i THEN listed' \in Lists /\ UNCHANGED sel
                                        ELSE UNCHANGED keysVars
    \/ stack' = ShowError(s, i) /\ UNCHANGED keysVars

(* refresh at the end of add and remove, on the dialog they were called on: *)
(* LB_RESETCONTENT ends the selection; a failing List keeps the old list.   *)
Refresh(s, i) ==
    \/ stack' = s /\ IF ptr["keys"] = i THEN listed' \in Lists /\ sel' = <<>>
                                        ELSE UNCHANGED keysVars
    \/ stack' = ShowError(s, i) /\ UNCHANGED keysVars

(* The user selects a row of the list box and sees its key. *)
SelectRow(i, n) ==
    /\ Enabled(i, "keys") /\ ptr["keys"] = i
    /\ n \in DOMAIN listed
    /\ sel' = <<n, listed[n]>>
    /\ UNCHANGED <<stack, ptr, listed>>

(* The index of remove, and the key it takes. *)
Selected == sel # <<>> /\ sel[1] \in DOMAIN listed
Target == listed[sel[1]]

(* idRemoveKey: Remove(Target) of the backend, which may have lost the key; *)
(* without a selection there is only an error.                              *)
RemoveKey(i) ==
    /\ Room /\ Enabled(i, "keys") /\ ptr["keys"] = i
    /\ \/ Selected /\ Refresh(stack, i)
       \/ stack' = ShowError(stack, i) /\ UNCHANGED keysVars
    /\ UNCHANGED ptr

(* idAddKey: the file picker *)
AddKey(i) ==
    /\ Room /\ Enabled(i, "keys") /\ ptr["keys"] = i
    /\ stack' = Push(stack, "pick", i)
    /\ UNCHANGED <<ptr, keysVars>>

(* The user chooses a file, enters a passphrase or dismisses a box. *)
Choose(i, result) ==
    /\ Enabled(i, "pick") \/ Enabled(i, "pass")
    /\ stack[i].kind = "pass" => result # "locked" /\ ptr["pass"] = i
    /\ Destroy(i, result)

(* A window is cancelled, dismissed or closed, by the user or from outside. *)
CloseWindow(i) ==
    /\ trayPc = "loop"
    /\ i \in DOMAIN stack
    /\ stack[i].live
    /\ Destroy(i, "none")

--------------------------------------------------------------------------------
(* Return of the innermost loop, and the rest of the handler it ran in. *)
Rest == SubSeq(stack, 1, Top - 1)

(* addKeyFromFile with a key that could be parsed; add shows an error of    *)
(* the backend and refreshes otherwise.                                     *)
AddToAgent(i) ==
    \/ Refresh(Rest, i)
    \/ stack' = ShowError(Rest, i) /\ UNCHANGED keysVars

(* What follows the loop on top. *)
Continue ==
    LET f == stack[Top]
    IN  CASE f.result = "none"   -> stack' = Rest /\ UNCHANGED keysVars
          [] f.result = "bad"    -> stack' = ShowError(Rest, f.owner) /\ UNCHANGED keysVars
          [] f.result = "plain"  -> AddToAgent(f.owner)
          [] f.result = "locked" -> UNCHANGED keysVars
                                    /\ stack' \in {Push(Rest, "pass", Hwnd(Rest, f.owner)),
                                                    ShowError(Rest, f.owner), Rest}

(* promptPassphrase sets passwordDlg whatever it was; when no dialog could   *)
(* be created it is nil again at the end.                                   *)
PassOpened == Len(stack') = Top /\ stack'[Top].kind = "pass"
PassAfter == IF stack[Top].result # "locked" THEN ptr["pass"]
             ELSE IF PassOpened THEN Top ELSE 0

(* IsWindow is false: the loop returns. *)
LoopReturns ==
    /\ trayPc = "loop"
    /\ stack # <<>>
    /\ ~stack[Top].live
    /\ Continue
    /\ ptr' = [ptr EXCEPT !["pass"] = PassAfter]

(* Mutant: runModal takes WM_QUIT and does not post it again. *)
QuitSwallowed ==
    /\ trayPc = "loop" /\ queue = {"quit"} /\ stack # <<>>
    /\ stack[Top].live
    /\ stack' = Rest
    /\ ptr' = Forget({Top}) /\ Drop({Top})
    /\ queue' = {}

(* WM_QUIT in a loop whose window exists: destroy it, post WM_QUIT again    *)
(* and return; pickers and boxes of Windows do the same.                    *)
QuitReposted ==
    /\ trayPc = "loop" /\ queue = {"quit"} /\ stack # <<>>
    /\ stack[Top].live
    /\ stack' = Rest
    /\ ptr' = Forget({Top}) /\ Drop({Top})
    /\ UNCHANGED queue

(* GetMessage fails in runModal: the window is left to DefWindowProc. *)
ModalFails ==
    /\ trayPc = "loop" /\ stack # <<>>
    /\ stack[Top].kind \in Dialogs
    /\ stack' = Rest
    /\ ptr' = Forget({Top}) /\ Drop({Top})

(* WM_CLOSE of the tray's window destroys the dialogs first. *)
CloseAll ==
    /\ DispatchClose
    /\ Destroy(0, "none")

--------------------------------------------------------------------------------
InLoop == LoopReturns \/ ModalFails \/ OpenSettings \/ ToggleFails
          \/ \E i \in DOMAIN stack :
               \/ OpenKeys(i) \/ AddKey(i) \/ RemoveKey(i) \/ CloseWindow(i)
               \/ \E n \in DOMAIN listed : SelectRow(i, n)
               \/ \E r \in {"plain", "locked", "bad"} : Choose(i, r)

(* Run itself gets messages only when no dialog runs. *)
Outermost == stack = <<>> /\ (LoopEnds \/ LoopFails)

OfTray ==
    \/ RunTray \/ CreateWindow \/ FinishInitialize \/ AddFirstIcon \/ InitializeFails
    \/ DismissFatal \/ DispatchApply \/ DispatchTaskbar \/ Outermost
    \/ TrayGoroutines \/ TrayUser \/ CancelContext
    \/ \E s \in States : SetState(s)

DialogNext ==
    \/ CloseAll
    \/ OfTray /\ UNCHANGED dialogVars
    \/ InLoop /\ UNCHANGED vars
    \/ QuitReposted /\ UNCHANGED ofTray

allVars == <<vars, dialogVars>>

(* Run comes to its loop or fails; the thread gets its messages, whichever  *)
(* loop asks for them, and the backend answers; started goroutines run.     *)
(* Nothing is assumed of the user.                                          *)
DialogSpec ==
    /\ DialogInit /\ [][DialogNext]_allVars
    /\ WF_allVars((CreateWindow \/ FinishInitialize \/ AddFirstIcon \/ InitializeFails)
                  /\ UNCHANGED dialogVars)
    /\ WF_allVars(DispatchApply /\ UNCHANGED dialogVars)
    /\ WF_allVars(CloseAll)
    /\ WF_allVars(\/ LoopReturns /\ UNCHANGED vars
                  \/ QuitReposted /\ UNCHANGED ofTray
                  \/ stack = <<>> /\ LoopEnds /\ UNCHANGED dialogVars)
    /\ WF_allVars(SetStateReturns /\ UNCHANGED dialogVars)
    /\ WF_allVars((Quit \/ QuitReturns) /\ UNCHANGED dialogVars)

--------------------------------------------------------------------------------
(* The globals the window procedures and the open functions go by are the   *)
(* live windows: a dialog is never refused because of one that is gone, and *)
(* the messages of an open one never go to DefWindowProc, also when it was  *)
(* closed and opened again while its first loop waits below another one     *)
(* (WM_DESTROY and the deferred resets of openSettings, openKeys,           *)
(* promptPassphrase).  Except a passphrase dialog that was opened when its  *)
(* keys dialog was gone already: nothing destroys it with the other         *)
(* dialogs, and the prompt of a later keys dialog takes its global over.    *)
DialogPointers ==
    \A i \in DOMAIN stack : stack[i].kind \in Dialogs =>
        /\ ptr[stack[i].kind] = i => stack[i].live
        /\ stack[i].live /\ stack[i].owner # NoOwner => ptr[stack[i].kind] = i

(* The key that the remove button takes from the agent is the one the user   *)
(* saw in the row when selecting it, although remove goes by the position in *)
(* d.keys: whatever was added or removed since, whichever dialogs were       *)
(* closed and opened again and whichever calls of List failed, the position  *)
(* still means that key (refresh, add, remove and the WM_DESTROY of the      *)
(* dialog).                                                                  *)
RemovesSelected == sel # <<>> => Selected /\ Target = sel[2]

================================================================================
