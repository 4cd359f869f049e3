------------------------------ MODULE TrayProofs -------------------------------
(***************************************************************************)
(* The dialogs run inside the handlers of the tray's window.  Whatever     *)
(* they do, what the tray does is a behaviour of Tray, and so no icon is   *)
(* left by a tray that ends with any number of dialogs open.               *)
(*                                                                         *)
(* The second part is about the dialogs themselves.  Their invariant,      *)
(* Shape, holds of the stack of loops and the three globals: an owner is   *)
(* below what it owns and lives as long, a picker or a prompt belongs to   *)
(* the keys dialog, and below a picker no prompt has an owner.  Because of *)
(* the last part a prompt that has an owner never loses passwordDlg, which *)
(* promptPassphrase overwrites without a look.                             *)
(***************************************************************************)
EXTENDS TrayDialogs, TLAPS, FiniteSetTheorems, SequenceTheorems

(* The icon and the messages that are about it belong to the loop; WM_QUIT  *)
(* is posted when the window and the icon are gone, and no other message    *)
(* comes after it.                                                          *)
IconInv ==
    /\ shown # "none" => trayPc = "loop" /\ added /\ "taskbar" \notin queue
    /\ "taskbar" \in queue => trayPc = "loop" /\ "quit" \notin queue
    /\ "quit" \in queue => trayPc = "loop" /\ ~window /\ shown = "none"

(* At first there is neither an icon nor a message. *)
LEMMA InitIcon == Init => IconInv
  BY DEF Init, TrayInit, IconInv

(* One step of the tray keeps IconInv. *)
LEMMA NextIcon == IconInv /\ [Next]_vars => IconInv'
<1> SUFFICES ASSUME IconInv, [Next]_vars PROVE IconInv'
  OBVIOUS
<1> USE DEF IconInv
<1>1. CASE RunTray
  BY <1>1 DEF RunTray
<1>2. CASE TrayThread
  <2>1. CASE CreateWindow
    BY <2>1 DEF CreateWindow
  <2>2. CASE FinishInitialize
    BY <2>2 DEF FinishInitialize
  <2>3. CASE AddFirstIcon
    BY <2>3 DEF AddFirstIcon
  <2>4. CASE InitializeFails
    BY <2>4 DEF InitializeFails
  <2>5. CASE DismissFatal
    BY <2>5 DEF DismissFatal
  <2>6. CASE DispatchApply
    BY <2>6 DEF DispatchApply
  <2>7. CASE DispatchClose
    BY <2>7 DEF DispatchClose
  <2>8. CASE DispatchTaskbar
    BY <2>8 DEF DispatchTaskbar
  <2>9. CASE LoopEnds
    BY <2>9 DEF LoopEnds
  <2>10. CASE LoopFails
    BY <2>10 DEF LoopFails
  <2> QED
    BY <1>2, <2>1, <2>2, <2>3, <2>4, <2>5, <2>6, <2>7, <2>8, <2>9, <2>10 DEF TrayThread
<1>3. CASE TrayGoroutines
  BY <1>3 DEF TrayGoroutines, SetStateReturns, Quit, QuitReturns, OnQuit, Post
<1>4. CASE TrayUser
  BY <1>4 DEF TrayUser, CommandQuit, CloseFromOutside, ExplorerRestarts, Post
<1>5. CASE CancelContext
  BY <1>5 DEF CancelContext, trayVars
<1>6. CASE \E s \in States : SetState(s)
  BY <1>6 DEF SetState
<1>7. CASE UNCHANGED vars
  BY <1>7 DEF vars, trayVars
<1> QED
  BY <1>1, <1>2, <1>3, <1>4, <1>5, <1>6, <1>7 DEF Next

(* An icon outside the loop would be one that is left. *)
LEMMA IconInvImplies == IconInv => NoIconLeft
  BY DEF IconInv, NoIconLeft

(* A step of the thread with its dialogs is a step of the tray, or leaves   *)
(* the tray alone: no nested loop changes what the window's messages do.    *)
LEMMA DialogStep == DialogNext => [Next]_vars
<1> SUFFICES ASSUME DialogNext PROVE [Next]_vars
  OBVIOUS
<1>1. CASE CloseAll
  BY <1>1 DEF CloseAll, Next, TrayThread
<1>2. CASE OfTray
  BY <1>2 DEF OfTray, Outermost, Next, TrayThread
<1>3. CASE UNCHANGED vars
  BY <1>3
<1>4. CASE QuitReposted /\ UNCHANGED ofTray
  BY <1>4 DEF QuitReposted, ofTray, vars, trayVars
<1> QED
  BY <1>1, <1>2, <1>3, <1>4 DEF DialogNext

(* The dialogs do not disturb the tray: whatever loops run inside its       *)
(* handlers (runModal, pickers, message boxes), it behaves as Tray says.    *)
THEOREM DialogsKeepTray == DialogSpec => Spec
<1>1. DialogInit => Init
  BY DEF DialogInit
<1>2. [DialogNext]_allVars => [Next]_vars
  BY DialogStep DEF allVars
<1> QED
  BY <1>1, <1>2, PTL DEF DialogSpec, Spec

(* No icon is left in the notification area when Run has returned, for any  *)
(* set of states and keys and any depth of dialogs (close, WM_DESTROY and   *)
(* TaskbarCreated).                                                         *)
THEOREM NoIconIsLeft == DialogSpec => []NoIconLeft
<1>1. Spec => []IconInv
  BY InitIcon, NextIcon, PTL DEF Spec
<1> QED
  BY <1>1, DialogsKeepTray, IconInvImplies, PTL

--------------------------------------------------------------------------------
(* The dialogs.  s is a stack of loops and p the globals. *)
StackType(s, p) ==
    /\ s \in Seq(Frame) /\ Len(s) <= MaxDepth
    /\ p \in [Dialogs -> 0 .. MaxDepth]

(* A global is nil or a live dialog of its kind. *)
Pointed(s, p) ==
    \A k \in Dialogs : p[k] # 0 => p[k] \in DOMAIN s /\ s[p[k]].kind = k /\ s[p[k]].live

(* A live dialog that has an owner has its global. *)
Known(s, p) ==
    \A i \in DOMAIN s :
      s[i].kind \in Dialogs /\ s[i].live /\ s[i].owner # NoOwner => p[s[i].kind] = i

(* An owner is below what it owns, and lives as long. *)
Chain(s) ==
    \A i \in DOMAIN s :
      /\ s[i].owner \in 0 .. i - 1 \/ s[i].owner = NoOwner
      /\ s[i].live /\ s[i].owner \in DOMAIN s => s[s[i].owner].live

(* Who opens what: pickers and prompts belong to a keys dialog, only a       *)
(* prompt may have lost it, and only a picker finds out that a key is locked. *)
Kinship(s) ==
    \A i \in DOMAIN s :
      /\ s[i].kind = "pick" => s[i].owner # NoOwner
      /\ s[i].kind \in {"pick", "pass"} /\ s[i].owner # NoOwner =>
           s[i].owner \in DOMAIN s /\ s[s[i].owner].kind = "keys"
      /\ s[i].kind \in {"settings", "keys"} => s[i].owner # NoOwner
      /\ s[i].result = "locked" => s[i].kind = "pick"

(* Below a picker no prompt has an owner: the picker's keys dialog is the    *)
(* only one, and it was enabled when it opened the picker.                   *)
OnePrompt(s) ==
    \A i, j \in DOMAIN s :
      s[i].kind = "pick" /\ j < i /\ s[j].kind = "pass" /\ s[j].live => s[j].owner = NoOwner

(* The inductive invariant of the dialogs. *)
Shape(s, p) ==
    StackType(s, p) /\ Pointed(s, p) /\ Known(s, p) /\ Chain(s) /\ Kinship(s) /\ OnePrompt(s)

(* No frame is at NoOwner. *)
LEMMA NoFrame == ASSUME NEW s, NEW p, StackType(s, p)
                 PROVE  /\ NoOwner \notin DOMAIN s /\ NoOwner # 0 /\ NoOwner \in Nat
                        /\ \A i \in DOMAIN s : i \in Nat /\ i # 0 /\ i <= Len(s) /\ s[i] \in Frame
BY DialogAssumption DEF StackType, NoOwner

(* A window is opened. *)
LEMMA PushShape ==
  ASSUME NEW s, NEW p, NEW q, NEW kind \in Kinds, NEW owner, Shape(s, p), Len(s) < MaxDepth,
         owner \in 0 .. Len(s) \/ owner = NoOwner,
         owner \in DOMAIN s => s[owner].live,
         kind = "pick" => owner # NoOwner,
         kind \in {"pick", "pass"} /\ owner # NoOwner => owner \in DOMAIN s /\ s[owner].kind = "keys",
         kind \in {"settings", "keys"} => owner # NoOwner,
         kind = "pick" =>
           \A j \in DOMAIN s : s[j].kind = "pass" /\ s[j].live => s[j].owner = NoOwner,
         kind \in Dialogs =>
           /\ q = [p EXCEPT ![kind] = Len(s) + 1]
           /\ \A j \in DOMAIN s : s[j].kind = kind /\ s[j].live => s[j].owner = NoOwner,
         kind \notin Dialogs => q = p
  PROVE  Shape(Push(s, kind, owner), q)
<1> DEFINE t == Push(s, kind, owner)
           f == [kind |-> kind, live |-> TRUE, owner |-> owner, result |-> "none"]
           n == Len(s) + 1
<1>1. /\ s \in Seq(Frame) /\ Len(s) \in Nat /\ p \in [Dialogs -> 0 .. MaxDepth] /\ MaxDepth \in Nat
      /\ DOMAIN s = 1 .. Len(s) /\ n \in 0 .. MaxDepth
  BY DialogAssumption DEF Shape, StackType
<1>2. f \in Frame
  BY <1>1, DialogAssumption DEF Frame, NoOwner
<1>3. /\ t \in Seq(Frame) /\ Len(t) = n /\ DOMAIN t = 1 .. n /\ t[n] = f
      /\ \A i \in DOMAIN s : i \in DOMAIN t /\ t[i] = s[i] /\ i < n
      /\ \A i \in DOMAIN t : i = n \/ i \in DOMAIN s
  <2>1. t = Append(s, f)
    BY DEF Push
  <2> HIDE DEF t, f
  <2> QED BY <1>1, <1>2, <2>1
<1>4. f.kind = kind /\ f.live = TRUE /\ f.owner = owner /\ f.result = "none"
  OBVIOUS
<1>5. NoOwner \notin DOMAIN s /\ NoOwner \notin DOMAIN t
  BY <1>1, <1>3, NoFrame, DialogAssumption DEF Shape, NoOwner
<1> HIDE DEF t, f, n
<1>6. StackType(t, q)
  BY <1>1, <1>3 DEF StackType
<1>7. Pointed(t, q)
  <2>1. CASE kind \in Dialogs
    BY <1>1, <1>3, <1>4, <2>1 DEF Shape, Pointed, n
  <2>2. CASE kind \notin Dialogs
    BY <1>3, <2>2 DEF Shape, Pointed
  <2> QED BY <2>1, <2>2
<1>8. Known(t, q)
  <2> SUFFICES ASSUME NEW i \in DOMAIN t, t[i].kind \in Dialogs, t[i].live, t[i].owner # NoOwner
               PROVE  q[t[i].kind] = i
    BY DEF Known
  <2>1. CASE i = n
    BY <1>1, <1>3, <1>4, <2>1 DEF n
  <2>2. CASE i \in DOMAIN s
    <3>1. t[i] = s[i] /\ p[s[i].kind] = i
      BY <1>3, <2>2 DEF Shape, Known
    <3>2. kind \in Dialogs => s[i].kind # kind
      BY <2>2, <3>1
    <3> QED BY <1>1, <3>1, <3>2
  <2> QED BY <1>3, <2>1, <2>2
<1>9. Chain(t)
  <2> SUFFICES ASSUME NEW i \in DOMAIN t
               PROVE  /\ t[i].owner \in 0 .. i - 1 \/ t[i].owner = NoOwner
                      /\ t[i].live /\ t[i].owner \in DOMAIN t => t[t[i].owner].live
    BY DEF Chain
  <2>1. CASE i = n
    <3>1. owner \in DOMAIN t => owner \in DOMAIN s
      BY <1>1, <1>3, <1>5 DEF n
    <3>2. owner \in 0 .. i - 1 \/ owner = NoOwner
      BY <1>1, <2>1 DEF n
    <3> QED BY <1>3, <1>4, <2>1, <3>1, <3>2
  <2>2. CASE i \in DOMAIN s
    <3>1. /\ s[i].owner \in 0 .. i - 1 \/ s[i].owner = NoOwner
          /\ s[i].live /\ s[i].owner \in DOMAIN s => s[s[i].owner].live
      BY <2>2 DEF Shape, Chain
    <3>2. s[i].owner \in DOMAIN t => s[i].owner \in DOMAIN s
      BY <1>1, <1>3, <1>5, <2>2, <3>1 DEF n
    <3> QED BY <1>3, <2>2, <3>1, <3>2
  <2> QED BY <1>3, <2>1, <2>2
<1>10. Kinship(t)
  BY <1>3, <1>4 DEF Shape, Kinship
<1>11. OnePrompt(t)
  <2> SUFFICES ASSUME NEW i \in DOMAIN t, NEW j \in DOMAIN t, t[i].kind = "pick", j < i,
                      t[j].kind = "pass", t[j].live
               PROVE  t[j].owner = NoOwner
    BY DEF OnePrompt
  <2>1. j \in DOMAIN s /\ t[j] = s[j]
    BY <1>1, <1>3 DEF n
  <2>2. CASE i = n
    BY <1>3, <1>4, <2>1, <2>2
  <2>3. CASE i \in DOMAIN s
    BY <1>3, <2>1, <2>3 DEF Shape, OnePrompt
  <2> QED BY <1>3, <2>2, <2>3
<1> QED BY <1>6, <1>7, <1>8, <1>9, <1>10, <1>11 DEF Shape, t

(* The innermost loop returns, and forgets its dialog if it is still there. *)
LEMMA PopShape ==
  ASSUME NEW s, NEW p, NEW q, Shape(s, p), s # <<>>,
         q = [k \in Dialogs |-> IF p[k] \in {Len(s)} THEN 0 ELSE p[k]]
  PROVE  Shape(SubSeq(s, 1, Len(s) - 1), q)
<1> DEFINE t == SubSeq(s, 1, Len(s) - 1)
<1>1. /\ s \in Seq(Frame) /\ Len(s) \in Nat /\ p \in [Dialogs -> 0 .. MaxDepth] /\ MaxDepth \in Nat
      /\ DOMAIN s = 1 .. Len(s) /\ Len(s) <= MaxDepth /\ Len(s) # 0
  BY DialogAssumption DEF Shape, StackType
<1>2. /\ t \in Seq(Frame) /\ Len(t) = Len(s) - 1 /\ DOMAIN t = 1 .. Len(s) - 1
      /\ \A i \in DOMAIN t : t[i] = s[i]
  BY <1>1
<1>3. \A i \in DOMAIN s : i \in DOMAIN t <=> i # Len(s)
  BY <1>1, <1>2
<1>4. \A i \in DOMAIN t : i \in DOMAIN s
  BY <1>1, <1>2
<1> HIDE DEF t
<1>5. StackType(t, q)
  BY <1>1, <1>2 DEF StackType
<1>6. Pointed(t, q)
  BY <1>2, <1>3 DEF Shape, Pointed
<1>7. Known(t, q)
  <2> SUFFICES ASSUME NEW i \in DOMAIN t, t[i].kind \in Dialogs, t[i].live, t[i].owner # NoOwner
               PROVE  q[t[i].kind] = i
    BY DEF Known
  <2>1. t[i] = s[i] /\ i # Len(s) /\ i \in DOMAIN s
    BY <1>2, <1>3, <1>4
  <2>2. p[s[i].kind] = i
    BY <2>1 DEF Shape, Known
  <2> QED BY <2>1, <2>2
<1>8. Chain(t) /\ Kinship(t)
  <2> SUFFICES ASSUME NEW i \in DOMAIN t
               PROVE  /\ t[i] = s[i] /\ i \in DOMAIN s
                      /\ s[i].owner \in DOMAIN s =>
                           s[i].owner \in DOMAIN t /\ t[s[i].owner] = s[s[i].owner]
                      /\ s[i].owner \in DOMAIN t => s[i].owner \in DOMAIN s
    BY DEF Shape, Chain, Kinship
  <2>1. t[i] = s[i] /\ i \in DOMAIN s
    BY <1>2, <1>4
  <2>2. s[i].owner \in 0 .. i - 1 \/ s[i].owner = NoOwner
    BY <2>1 DEF Shape, Chain
  <2>3. NoOwner \notin DOMAIN s
    BY NoFrame DEF Shape
  <2>4. s[i].owner \in DOMAIN s => s[i].owner # Len(s)
    BY <1>1, <1>2, <2>2, <2>3
  <2> QED BY <1>2, <1>3, <1>4, <2>1, <2>4
<1>9. OnePrompt(t)
  BY <1>2, <1>4 DEF Shape, OnePrompt
<1> QED BY <1>5, <1>6, <1>7, <1>8, <1>9 DEF Shape, t

(* A message box is opened, for a dialog that may be gone or for nobody. *)
LEMMA BoxShape ==
  ASSUME NEW s, NEW p, NEW i, Shape(s, p), Len(s) < MaxDepth
  PROVE  Shape(ShowError(s, i), p) /\ Shape(ShowFatal(s), p)
<1>1. "box" \in Kinds /\ "box" \notin Dialogs /\ "box" \notin {"pick", "pass"}
      /\ "box" \notin {"settings", "keys"}
  BY DEF Kinds, Dialogs
<1>2. DOMAIN s = 1 .. Len(s) /\ Len(s) \in Nat /\ NoOwner \notin DOMAIN s
  BY NoFrame DEF Shape, StackType
<1>3. Hwnd(s, i) \in 0 .. Len(s) \/ Hwnd(s, i) = NoOwner
  BY <1>2 DEF Hwnd
<1>4. Hwnd(s, i) \in DOMAIN s => s[Hwnd(s, i)].live
  BY <1>2 DEF Hwnd
<1>5. Shape(Push(s, "box", Hwnd(s, i)), p)
  <2> HIDE DEF Hwnd
  <2> QED BY <1>1, <1>3, <1>4, PushShape, Zenon
<1>6. Shape(Push(s, "box", NoOwner), p)
  BY <1>1, <1>2, PushShape, Zenon
<1> QED BY <1>5, <1>6 DEF ShowError, ShowFatal

(* DestroyWindow takes what the window owns with it, and no more. *)
LEMMA DestroyedClosed ==
  ASSUME NEW i
  PROVE  /\ Destroyed(i) \subseteq DOMAIN stack
         /\ \A j \in DOMAIN stack : stack[j].owner \in Destroyed(i) => j \in Destroyed(i)
<1>1. ASSUME NEW j \in DOMAIN stack, stack[j].owner \in Destroyed(i) PROVE j \in Destroyed(i)
  <2> SUFFICES ASSUME NEW S \in SUBSET (0 .. Top), Owned(i, S) PROVE j \in S
    BY DEF Destroyed
  <2>1. stack[j].owner \in S
    BY <1>1 DEF Destroyed
  <2> QED BY <2>1 DEF Owned
<1> QED BY <1>1 DEF Destroyed

(* A window that owns none goes alone. *)
LEMMA DestroyedAlone ==
  ASSUME NEW i \in DOMAIN stack, stack \in Seq(Frame), \A j \in DOMAIN stack : stack[j].owner # i
  PROVE  \A j \in Destroyed(i) : j = i
<1>1. {i} \in SUBSET (0 .. Top)
  BY DEF Top
<1>2. Owned(i, {i})
  BY DEF Owned
<1> QED BY <1>1, <1>2 DEF Destroyed

(* Windows are destroyed. *)
LEMMA DestroyShape ==
  ASSUME Shape(stack, ptr), NEW gone, NEW result \in {"none", "plain", "locked", "bad"},
         gone \subseteq DOMAIN stack,
         \A j \in DOMAIN stack : stack[j].owner \in gone => j \in gone,
         result = "locked" => \A j \in gone : stack[j].kind = "pick"
  PROVE  Shape(Dead(gone, result), Forget(gone))
<1> DEFINE t == Dead(gone, result)
           q == Forget(gone)
<1>1. /\ stack \in Seq(Frame) /\ Len(stack) \in Nat /\ ptr \in [Dialogs -> 0 .. MaxDepth]
      /\ DOMAIN stack = 1 .. Len(stack) /\ Len(stack) <= MaxDepth
  BY DEF Shape, StackType
<1>2. ASSUME NEW j \in DOMAIN stack
      PROVE  /\ t[j] \in Frame /\ t[j].kind = stack[j].kind /\ t[j].owner = stack[j].owner
             /\ t[j].live <=> stack[j].live /\ j \notin gone
             /\ t[j].result = stack[j].result \/ (j \in gone /\ t[j].result = result)
  <2>1. stack[j] \in Frame
    BY <1>1
  <2>2. CASE j \in gone
    <3> DEFINE r == IF stack[j].live THEN result ELSE stack[j].result
    <3>1. t[j] = [stack[j] EXCEPT !.live = FALSE, !.result = r]
      BY <2>2 DEF Dead
    <3>2. r \in {"none", "plain", "locked", "bad"} /\ (r = stack[j].result \/ r = result)
      BY <2>1 DEF Frame
    <3> HIDE DEF t, r
    <3>3. /\ [stack[j] EXCEPT !.live = FALSE, !.result = r] \in Frame
          /\ [stack[j] EXCEPT !.live = FALSE, !.result = r].kind = stack[j].kind
          /\ [stack[j] EXCEPT !.live = FALSE, !.result = r].owner = stack[j].owner
          /\ [stack[j] EXCEPT !.live = FALSE, !.result = r].live = FALSE
          /\ [stack[j] EXCEPT !.live = FALSE, !.result = r].result = r
      BY <2>1, <3>2 DEF Frame
    <3> QED BY <2>2, <3>1, <3>2, <3>3
  <2>3. CASE j \notin gone
    BY <2>1, <2>3 DEF Dead
  <2> QED BY <2>2, <2>3
<1>3. DOMAIN t = DOMAIN stack
  BY DEF Dead
<1>4. t \in Seq(Frame) /\ Len(t) = Len(stack)
  <2>1. t = [j \in 1 .. Len(stack) |-> t[j]]
    BY <1>1 DEF Dead
  <2> HIDE DEF t
  <2>2. \A j \in 1 .. Len(stack) : t[j] \in Frame
    BY <1>1, <1>2
  <2> QED BY <1>1, <2>1, <2>2
<1>5. /\ q \in [Dialogs -> 0 .. MaxDepth]
      /\ \A k \in Dialogs : q[k] = IF ptr[k] \in gone THEN 0 ELSE ptr[k]
  BY <1>1, DialogAssumption DEF Forget
<1> HIDE DEF t, q
<1>6. StackType(t, q)
  BY <1>1, <1>4, <1>5 DEF StackType
<1>7. Pointed(t, q)
  BY <1>2, <1>3, <1>5 DEF Shape, Pointed
<1>8. Known(t, q)
  <2> SUFFICES ASSUME NEW i \in DOMAIN t, t[i].kind \in Dialogs, t[i].live, t[i].owner # NoOwner
               PROVE  q[t[i].kind] = i
    BY DEF Known
  <2>1. i \in DOMAIN stack /\ i \notin gone /\ stack[i].live /\ t[i].kind = stack[i].kind
        /\ stack[i].owner # NoOwner
    BY <1>2, <1>3
  <2>2. ptr[stack[i].kind] = i
    BY <2>1 DEF Shape, Known
  <2> QED BY <1>5, <2>1, <2>2
<1>9. Chain(t)
  BY <1>2, <1>3 DEF Shape, Chain
<1>10. Kinship(t)
  BY <1>2, <1>3 DEF Shape, Kinship
<1>11. OnePrompt(t)
  BY <1>2, <1>3 DEF Shape, OnePrompt
<1> QED BY <1>6, <1>7, <1>8, <1>9, <1>10, <1>11 DEF Shape, t, q

(* A live keys dialog that is enabled is the only one that could have a     *)
(* prompt, and it has none.                                                 *)
LEMMA NoPromptOwned ==
  ASSUME Shape(stack, ptr), NEW i, Enabled(i, "keys"), ptr["keys"] = i,
         NEW j \in DOMAIN stack, stack[j].kind = "pass", stack[j].live
  PROVE  stack[j].owner = NoOwner
<1> SUFFICES ASSUME stack[j].owner # NoOwner PROVE FALSE
  OBVIOUS
<1>1. stack[j].owner \in DOMAIN stack /\ stack[stack[j].owner].kind = "keys"
  BY DEF Shape, Kinship
<1>2. stack[stack[j].owner].live
  BY <1>1 DEF Shape, Chain
<1>3. stack[stack[j].owner].owner # NoOwner
  BY <1>1 DEF Shape, Kinship
<1>4. ptr["keys"] = stack[j].owner
  BY <1>1, <1>2, <1>3 DEF Shape, Known, Dialogs
<1> QED BY <1>4 DEF Enabled

(* The last prompt is forgotten when a picker returns and opens none. *)
LEMMA PromptForgotten ==
  ASSUME NEW s, NEW p, Shape(s, p),
         \A j \in DOMAIN s : s[j].kind = "pass" /\ s[j].live => s[j].owner = NoOwner
  PROVE  Shape(s, [p EXCEPT !["pass"] = 0])
<1> DEFINE q == [p EXCEPT !["pass"] = 0]
<1>1. p \in [Dialogs -> 0 .. MaxDepth] /\ 0 \in 0 .. MaxDepth /\ "pass" \in Dialogs
  BY DialogAssumption DEF Shape, StackType, Dialogs
<1>2. /\ q \in [Dialogs -> 0 .. MaxDepth] /\ q["pass"] = 0
      /\ \A k \in Dialogs : k # "pass" => q[k] = p[k]
  BY <1>1
<1> HIDE DEF q
<1>3. StackType(s, q) /\ Pointed(s, q)
  BY <1>2 DEF Shape, StackType, Pointed
<1>4. Known(s, q)
  BY <1>2 DEF Shape, Known
<1> QED BY <1>3, <1>4 DEF Shape, q

(* The loop on top returns: what was below it keeps its shape. *)
LEMMA ReturnShape ==
  ASSUME Shape(stack, ptr), stack # <<>>, ~stack[Top].live
  PROVE  /\ Shape(Rest, ptr) /\ Len(Rest) < MaxDepth /\ Len(Rest) + 1 = Top
         /\ \A j \in DOMAIN Rest : j \in DOMAIN stack /\ j < Top /\ Rest[j] = stack[j]
         /\ Top \in DOMAIN stack /\ stack[Top] \in Frame
<1>1. /\ stack \in Seq(Frame) /\ Len(stack) \in Nat /\ ptr \in [Dialogs -> 0 .. MaxDepth]
      /\ DOMAIN stack = 1 .. Len(stack) /\ Len(stack) <= MaxDepth /\ Len(stack) # 0 /\ MaxDepth \in Nat
  BY DialogAssumption DEF Shape, StackType
<1>2. \A k \in Dialogs : ptr[k] # Len(stack)
  BY <1>1 DEF Shape, Pointed, Top
<1>3. ptr = [k \in Dialogs |-> IF ptr[k] \in {Len(stack)} THEN 0 ELSE ptr[k]]
  BY <1>1, <1>2
<1>4. Shape(SubSeq(stack, 1, Len(stack) - 1), ptr)
  BY <1>3, PopShape
<1> QED BY <1>1, <1>4 DEF Rest, Top

(* keysDialog.add goes on after the picker or the prompt. *)
LEMMA LoopReturnsShape ==
  ASSUME Shape(stack, ptr), LoopReturns
  PROVE  Shape(stack', ptr')
<1> DEFINE f == stack[Top]
<1>1. /\ Shape(Rest, ptr) /\ Len(Rest) < MaxDepth /\ Len(Rest) + 1 = Top
      /\ \A j \in DOMAIN Rest : j \in DOMAIN stack /\ j < Top /\ Rest[j] = stack[j]
      /\ Top \in DOMAIN stack /\ f \in Frame
  BY ReturnShape DEF LoopReturns
<1>2. Continue /\ ptr' = [ptr EXCEPT !["pass"] = PassAfter]
  BY DEF LoopReturns
<1>3. ptr \in [Dialogs -> 0 .. MaxDepth] /\ "pass" \in Dialogs /\ Top \in Nat
  BY <1>1 DEF Shape, StackType, Dialogs, Top
<1>4. CASE f.result # "locked"
  <2>1. PassAfter = ptr["pass"]
    BY <1>4 DEF PassAfter
  <2>2. ptr' = ptr
    BY <1>2, <1>3, <2>1
  <2>3. stack' = Rest \/ stack' = ShowError(Rest, f.owner)
    BY <1>1, <1>2, <1>4 DEF Continue, AddToAgent, Refresh, Frame
  <2> QED BY <1>1, <2>2, <2>3, BoxShape
<1>5. CASE f.result = "locked"
  <2>1. f.kind = "pick" /\ f.owner # NoOwner
    BY <1>1, <1>5 DEF Shape, Kinship
  <2>2. \A j \in DOMAIN Rest : Rest[j].kind = "pass" /\ Rest[j].live => Rest[j].owner = NoOwner
    BY <1>1, <2>1 DEF Shape, OnePrompt
  <2>3. \/ stack' = Push(Rest, "pass", Hwnd(Rest, f.owner))
        \/ stack' = ShowError(Rest, f.owner)
        \/ stack' = Rest
    BY <1>2, <1>5 DEF Continue
  <2>4. CASE stack' = Push(Rest, "pass", Hwnd(Rest, f.owner))
    <3> DEFINE o == Hwnd(Rest, f.owner)
    <3>1. /\ Rest \in Seq(Frame) /\ DOMAIN Rest = 1 .. Len(Rest) /\ Len(Rest) \in Nat
          /\ NoOwner \notin DOMAIN Rest
      BY <1>1, NoFrame DEF Shape, StackType
    <3>2. /\ o \in 0 .. Len(Rest) \/ o = NoOwner
          /\ o \in DOMAIN Rest => Rest[o].live
          /\ o # NoOwner => o = f.owner /\ o \in DOMAIN Rest
      BY <3>1 DEF Hwnd
    <3>3. o # NoOwner => o \in DOMAIN Rest /\ Rest[o].kind = "keys"
      BY <1>1, <2>1, <3>2 DEF Shape, Kinship
    <3>4. PassOpened
      <4>1. /\ Len(stack') = Len(Rest) + 1
            /\ stack'[Len(Rest) + 1] =
                 [kind |-> "pass", live |-> TRUE, owner |-> o, result |-> "none"]
        <5> DEFINE e == [kind |-> "pass", live |-> TRUE, owner |-> o, result |-> "none"]
        <5>1. stack' = Append(Rest, e)
          BY <2>4 DEF Push
        <5> HIDE DEF e
        <5>2. Len(stack') = Len(Rest) + 1 /\ stack'[Len(Rest) + 1] = e
          BY <3>1, <5>1
        <5> QED BY <5>2 DEF e
      <4> QED BY <1>1, <4>1 DEF PassOpened
    <3>5. ptr' = [ptr EXCEPT !["pass"] = Len(Rest) + 1]
      BY <1>1, <1>2, <1>5, <3>4 DEF PassAfter
    <3>6. "pass" \in Kinds /\ "pass" # "pick" /\ "pass" \notin {"settings", "keys"}
      BY DEF Kinds, Dialogs
    <3> HIDE DEF o
    <3>7. Shape(Push(Rest, "pass", o), ptr')
      BY <1>1, <1>3, <2>2, <3>2, <3>3, <3>5, <3>6, PushShape, Zenon
    <3> QED BY <2>4, <3>7 DEF o
  <2>5. CASE stack' = Rest \/ stack' = ShowError(Rest, f.owner)
    <3>1. Rest \in Seq(Frame) /\ Len(Rest) \in Nat
      BY <1>1 DEF Shape, StackType
    <3>2. ~PassOpened
      <4>1. CASE stack' = Rest
        BY <1>1, <3>1, <4>1 DEF PassOpened
      <4>2. CASE stack' = ShowError(Rest, f.owner)
        <5> DEFINE e == [kind |-> "box", live |-> TRUE, owner |-> Hwnd(Rest, f.owner),
                         result |-> "none"]
        <5>1. stack' = Append(Rest, e) /\ e.kind = "box"
          BY <4>2 DEF ShowError, Push
        <5> HIDE DEF e
        <5>2. stack'[Len(Rest) + 1] = e
          BY <3>1, <5>1
        <5> QED BY <1>1, <5>1, <5>2 DEF PassOpened
      <4> QED BY <2>5, <4>1, <4>2
    <3>3. ptr' = [ptr EXCEPT !["pass"] = 0]
      BY <1>2, <1>5, <3>2 DEF PassAfter
    <3>4. Shape(Rest, ptr')
      BY <1>1, <2>2, <3>3, PromptForgotten
    <3> QED BY <1>1, <2>5, <3>4, BoxShape
  <2> QED BY <2>3, <2>4, <2>5
<1> QED BY <1>4, <1>5

(* The loop on top is left while its window is alive. *)
LEMMA LeaveShape ==
  ASSUME Shape(stack, ptr), stack # <<>>, stack' = Rest, ptr' = Forget({Top})
  PROVE  Shape(stack', ptr')
<1>1. ptr' = [k \in Dialogs |-> IF ptr[k] \in {Len(stack)} THEN 0 ELSE ptr[k]]
  BY DEF Forget, Top
<1> QED BY <1>1, PopShape DEF Rest, Top

(* A dialog or a picker is opened by a click. *)
LEMMA OpenShape ==
  ASSUME Shape(stack, ptr), OpenSettings \/ \E i \in DOMAIN stack : OpenKeys(i) \/ AddKey(i)
  PROVE  Shape(stack', ptr')
<1>1. /\ stack \in Seq(Frame) /\ Len(stack) \in Nat /\ DOMAIN stack = 1 .. Len(stack)
      /\ NoOwner \notin DOMAIN stack /\ NoOwner # 0 /\ 0 \notin DOMAIN stack
  BY NoFrame DEF Shape, StackType
<1>2. \A kind \in {"settings", "keys"} : ptr[kind] = 0 =>
        \A j \in DOMAIN stack : stack[j].kind = kind /\ stack[j].live => stack[j].owner = NoOwner
  BY <1>1 DEF Shape, Known, Dialogs
<1>3. /\ {"settings", "keys", "pick"} \subseteq Kinds /\ {"settings", "keys"} \subseteq Dialogs
      /\ "pick" \notin Dialogs /\ 0 \in 0 .. Len(stack)
  BY <1>1 DEF Kinds, Dialogs
<1>4. CASE OpenSettings
  <2>1. CASE /\ stack' = Push(stack, "settings", 0)
             /\ ptr' = [ptr EXCEPT !["settings"] = Len(stack) + 1]
    <3>1. Len(stack) < MaxDepth /\ ptr["settings"] = 0
      BY <1>4 DEF OpenSettings, Room, Top
    <3>2. "settings" \notin {"pick", "pass"} /\ "settings" \in {"settings", "keys"}
      OBVIOUS
    <3>3. Shape(Push(stack, "settings", 0), ptr')
      BY <1>1, <1>2, <1>3, <2>1, <3>1, <3>2, PushShape, Zenon
    <3> QED BY <2>1, <3>3
  <2>2. CASE stack' = ShowFatal(stack) /\ UNCHANGED ptr
    BY <1>4, <2>2, BoxShape DEF OpenSettings, Room, Top
  <2> QED BY <1>4, <2>1, <2>2 DEF OpenSettings, Top
<1>5. ASSUME NEW i \in DOMAIN stack, OpenKeys(i) PROVE Shape(stack', ptr')
  <2> DEFINE opened == Push(stack, "keys", i)
  <2>1. CASE stack' = ShowError(stack, i) /\ UNCHANGED ptr
    BY <1>5, <2>1, BoxShape DEF OpenKeys, Room, Top
  <2>2. CASE /\ ptr' = [ptr EXCEPT !["keys"] = Top + 1]
             /\ \/ stack' = opened
                \/ Len(opened) < MaxDepth /\ stack' = ShowError(opened, Top + 1)
    <3>1. Len(stack) < MaxDepth /\ ptr["keys"] = 0 /\ stack[i].live
      BY <1>5 DEF OpenKeys, Room, Top, Enabled
    <3>2. "keys" \notin {"pick", "pass"} /\ "keys" \in {"settings", "keys"}
      OBVIOUS
    <3>3. i \in 0 .. Len(stack) /\ i # NoOwner /\ ptr' = [ptr EXCEPT !["keys"] = Len(stack) + 1]
      BY <1>1, <2>2 DEF Top
    <3>4. Shape(opened, ptr')
      BY <1>1, <1>2, <1>3, <3>1, <3>2, <3>3, PushShape, Zenon
    <3> HIDE DEF opened
    <3> QED BY <2>2, <3>4, BoxShape
  <2> QED BY <1>5, <2>1, <2>2 DEF OpenKeys
<1>6. ASSUME NEW i \in DOMAIN stack, AddKey(i) PROVE Shape(stack', ptr')
  <2>1. /\ Len(stack) < MaxDepth /\ ptr["keys"] = i /\ stack[i].live /\ stack[i].kind = "keys"
        /\ stack' = Push(stack, "pick", i) /\ ptr' = ptr
    BY <1>6 DEF AddKey, Room, Top, Enabled
  <2>2. \A j \in DOMAIN stack : stack[j].kind = "pass" /\ stack[j].live => stack[j].owner = NoOwner
    BY <1>6, NoPromptOwned DEF AddKey
  <2>3. i \in 0 .. Len(stack) /\ i # NoOwner /\ "pick" \notin {"settings", "keys"}
    BY <1>1
  <2>4. Shape(Push(stack, "pick", i), ptr)
    BY <1>1, <1>3, <2>1, <2>2, <2>3, PushShape, Zenon
  <2> QED BY <2>1, <2>4
<1> QED BY <1>4, <1>5, <1>6

(* A window is closed, or the user chooses something in it. *)
LEMMA CloseShape ==
  ASSUME Shape(stack, ptr), NEW i, NEW result \in {"none", "plain", "locked", "bad"},
         Destroy(i, result), result = "locked" => \A j \in Destroyed(i) : stack[j].kind = "pick"
  PROVE  Shape(stack', ptr')
<1>1. stack' = Dead(Destroyed(i), result) /\ ptr' = Forget(Destroyed(i))
  BY DEF Destroy
<1> QED BY <1>1, DestroyedClosed, DestroyShape

(* Every step of the thread keeps the shape. *)
LEMMA ShapeStep == Shape(stack, ptr) /\ [DialogNext]_allVars => Shape(stack', ptr')
<1> SUFFICES ASSUME Shape(stack, ptr), [DialogNext]_allVars PROVE Shape(stack', ptr')
  OBVIOUS
<1>1. CASE UNCHANGED <<stack, ptr>>
  BY <1>1
<1>2. CASE LoopReturns
  BY <1>2, LoopReturnsShape
<1>3. CASE ModalFails \/ QuitReposted
  BY <1>3, LeaveShape DEF ModalFails, QuitReposted
<1>4. CASE OpenSettings \/ \E i \in DOMAIN stack : OpenKeys(i) \/ AddKey(i)
  BY <1>4, OpenShape
<1>5. CASE ToggleFails
  BY <1>5, BoxShape DEF ToggleFails, Room, Top
<1>6. ASSUME NEW i \in DOMAIN stack, RemoveKey(i) PROVE Shape(stack', ptr')
  <2>1. Len(stack) < MaxDepth /\ ptr' = ptr /\ (stack' = stack \/ stack' = ShowError(stack, i))
    BY <1>6 DEF RemoveKey, Room, Top, Refresh
  <2> QED BY <2>1, BoxShape
<1>7. ASSUME NEW i \in DOMAIN stack, NEW r \in {"plain", "locked", "bad"}, Choose(i, r)
      PROVE  Shape(stack', ptr')
  <2>1. \A j \in DOMAIN stack : stack[j].owner # i
    BY <1>7 DEF Choose, Enabled
  <2>2. \A j \in Destroyed(i) : j = i
    BY <2>1, DestroyedAlone DEF Shape, StackType
  <2>3. r = "locked" => stack[i].kind = "pick"
    BY <1>7 DEF Choose, Enabled
  <2> QED BY <1>7, <2>2, <2>3, CloseShape DEF Choose
<1>8. ASSUME NEW i \in DOMAIN stack, CloseWindow(i) PROVE Shape(stack', ptr')
  BY <1>8, CloseShape DEF CloseWindow
<1>9. CASE CloseAll
  BY <1>9, CloseShape DEF CloseAll
<1>10. CASE \E i \in DOMAIN stack, n \in DOMAIN listed : SelectRow(i, n)
  BY <1>10, <1>1 DEF SelectRow
<1>11. CASE InLoop
  BY <1>11, <1>2, <1>3, <1>4, <1>5, <1>6, <1>7, <1>8, <1>10 DEF InLoop
<1>12. CASE UNCHANGED dialogVars \/ UNCHANGED allVars
  BY <1>12, <1>1 DEF allVars, dialogVars
<1> QED BY <1>3, <1>9, <1>11, <1>12 DEF DialogNext

(* At first there is no dialog. *)
LEMMA ShapeInit == DialogInit => Shape(stack, ptr)
<1> SUFFICES ASSUME DialogInit PROVE Shape(stack, ptr)
  OBVIOUS
<1>1. stack = <<>> /\ \A k \in Dialogs : ptr[k] = 0
  BY DEF DialogInit
<1>2. StackType(stack, ptr)
  BY DialogAssumption DEF DialogInit, StackType
<1> QED BY <1>1, <1>2 DEF Shape, Pointed, Known, Chain, Kinship, OnePrompt

(* What is proved of the stack and the globals in every state. *)
DialogInv == Shape(stack, ptr)

(* The stack and the globals have this shape in every state. *)
THEOREM DialogInvHolds == DialogSpec => []DialogInv
<1>1. DialogInit => DialogInv
  BY ShapeInit DEF DialogInv
<1>2. DialogInv /\ [DialogNext]_allVars => DialogInv'
  BY ShapeStep DEF DialogInv
<1> QED
  BY <1>1, <1>2, PTL DEF DialogSpec

(* The globals of the dialogs are their live windows, for every depth of     *)
(* nested loops and whatever is closed from outside, but for a passphrase    *)
(* dialog that has outlived its keys dialog (openSettings, openKeys,         *)
(* promptPassphrase and the WM_DESTROY of their windows).                    *)
THEOREM PointersAreLive == DialogSpec => []DialogPointers
<1>1. Shape(stack, ptr) => DialogPointers
  <2> SUFFICES ASSUME Shape(stack, ptr), NEW i \in DOMAIN stack, stack[i].kind \in Dialogs
               PROVE  /\ ptr[stack[i].kind] = i => stack[i].live
                      /\ stack[i].live /\ stack[i].owner # NoOwner => ptr[stack[i].kind] = i
    BY DEF DialogPointers
  <2>1. i # 0
    BY NoFrame DEF Shape
  <2> QED BY <2>1 DEF Shape, Pointed, Known
<1>2. DialogInv => DialogPointers
  BY <1>1 DEF DialogInv
<1> QED
  BY <1>2, DialogInvHolds, PTL

(* What a step may do to the list and to the selection in it: both stay, or  *)
(* the selection ends with the list it was made in, or the user selects a    *)
(* row of the list that is shown.                                            *)
LEMMA SelectionStep ==
  ASSUME DialogInv, [DialogNext]_allVars
  PROVE  \/ UNCHANGED keysVars
         \/ sel' = <<>>
         \/ \E n \in DOMAIN listed : sel' = <<n, listed[n]>> /\ listed' = listed
<1>1. CASE LoopReturns
  <2>1. stack[Top].result \in {"none", "plain", "locked", "bad"}
    BY <1>1, ReturnShape DEF LoopReturns, DialogInv, Frame
  <2>2. CASE stack[Top].result = "plain"
    <3>1. AddToAgent(stack[Top].owner)
      BY <1>1, <2>2 DEF LoopReturns, Continue
    <3> QED BY <3>1 DEF AddToAgent, Refresh
  <2>3. CASE stack[Top].result # "plain"
    <3>1. UNCHANGED keysVars
      BY <1>1, <2>1, <2>3 DEF LoopReturns, Continue
    <3> QED BY <3>1
  <2> QED BY <2>2, <2>3
<1>2. CASE ModalFails \/ QuitReposted \/ CloseAll
  BY <1>2 DEF ModalFails, QuitReposted, CloseAll, Destroy, Drop
<1>3. CASE OpenSettings \/ ToggleFails
  BY <1>3 DEF OpenSettings, ToggleFails
<1>4. ASSUME NEW i \in DOMAIN stack, OpenKeys(i) \/ AddKey(i) \/ CloseWindow(i)
      PROVE  UNCHANGED keysVars \/ sel' = <<>>
  BY <1>4 DEF OpenKeys, AddKey, CloseWindow, Destroy, Drop
<1>5. ASSUME NEW i \in DOMAIN stack, NEW r, Choose(i, r)
      PROVE  UNCHANGED keysVars \/ sel' = <<>>
  BY <1>5 DEF Choose, Destroy, Drop
<1>6. ASSUME NEW i \in DOMAIN stack, RemoveKey(i)
      PROVE  UNCHANGED keysVars \/ sel' = <<>>
  BY <1>6 DEF RemoveKey, Refresh
<1>7. ASSUME NEW i \in DOMAIN stack, NEW n \in DOMAIN listed, SelectRow(i, n)
      PROVE  sel' = <<n, listed[n]>> /\ listed' = listed
  BY <1>7 DEF SelectRow
<1>8. CASE InLoop
  BY <1>1, <1>2, <1>3, <1>4, <1>5, <1>6, <1>7, <1>8 DEF InLoop
<1>9. CASE UNCHANGED dialogVars \/ UNCHANGED allVars
  BY <1>9 DEF dialogVars, allVars
<1> QED BY <1>2, <1>8, <1>9 DEF DialogNext

(* The selected row, if there is one, still shows the key the user saw. *)
SelectionInv == sel = <<>> \/ \E n \in DOMAIN listed : sel = <<n, listed[n]>>

(* The remove button takes the key that the user selected, for any number of  *)
(* keys, whatever lists the agent returns between the selection and the click *)
(* and at any depth of dialogs (refresh, add, remove, WM_DESTROY).            *)
THEOREM RemovesAreSelected == DialogSpec => []RemovesSelected
<1>1. DialogInit => SelectionInv
  BY DEF DialogInit, SelectionInv
<1>2. DialogInv /\ SelectionInv /\ [DialogNext]_allVars => SelectionInv'
  <2> SUFFICES ASSUME DialogInv, SelectionInv, [DialogNext]_allVars PROVE SelectionInv'
    OBVIOUS
  <2>1. CASE UNCHANGED keysVars \/ sel' = <<>>
    BY <2>1 DEF SelectionInv, keysVars
  <2>2. CASE \E n \in DOMAIN listed : sel' = <<n, listed[n]>> /\ listed' = listed
    BY <2>2 DEF SelectionInv
  <2> QED BY <2>1, <2>2, SelectionStep
<1>3. SelectionInv => RemovesSelected
  <2> SUFFICES ASSUME SelectionInv, sel # <<>> PROVE Selected /\ Target = sel[2]
    BY DEF RemovesSelected
  <2>1. PICK n \in DOMAIN listed : sel = <<n, listed[n]>>
    BY DEF SelectionInv
  <2>2. sel[1] = n /\ sel[2] = listed[n]
    BY <2>1
  <2> QED BY <2>2 DEF Selected, Target
<1> QED
  BY <1>1, <1>2, <1>3, DialogInvHolds, PTL DEF DialogSpec

================================================================================
