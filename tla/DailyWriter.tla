------------------------------ MODULE DailyWriter ------------------------------
(***************************************************************************)
(* internal/logging: a writer with one log file per day, and how main uses *)
(* two of them, one until the configuration is known and one for the       *)
(* configured directory.  Write and Close hold w.mu throughout, so each is *)
(* one step.  The local date may go back when the clock or the time zone   *)
(* is changed, directories come and go, and components write records after *)
(* main has closed the log.                                                *)
(***************************************************************************)
EXTENDS Naturals

CONSTANT LastDay   \* bound on the dates

ASSUME LastDayAssumption == LastDay \in Nat \ {0}

VARIABLES
    day,      \* w.now() as a date
    steady,   \* the date has never gone back
    main,     \* the log that main holds; "ended" and "stopped" when run has returned
    w,        \* the writers: w.file and w.date
    handles,  \* files that were opened by a writer and not closed
    last      \* what became of the last record

logVars == <<day, steady, main, w, handles, last>>

Days == 1 .. LastDay
Writers == {"initial", "configured"}

LogTypeOK ==
    /\ day \in Days
    /\ steady \in BOOLEAN
    /\ main \in {"initial", "configured", "ended", "stopped"}
    /\ w \in [Writers -> [file : {"nil", "open", "closed"}, date : 0 .. LastDay]]
    /\ handles \in [Writers -> SUBSET Days]
    /\ last \in [to : {"none", "file", "fallback", "disk", "closed"}, file : 0 .. LastDay, day : 0 .. LastDay]

(* NewDailyWriter *)
NewWriter == [file |-> "nil", date |-> 0]

LogInit ==
    /\ day = 1
    /\ steady = TRUE
    /\ main = "initial"
    /\ w = [x \in Writers |-> NewWriter]
    /\ handles = [x \in Writers |-> {}]
    /\ last = [to |-> "none", file |-> 0, day |-> 0]

--------------------------------------------------------------------------------
(* The handle of w.file is closed, unless it is nil or closed already. *)
Closed(x) == IF w[x].file = "open" THEN handles[x] \ {w[x].date} ELSE handles[x]

Kept(to, file) == last' = [to |-> to, file |-> file, day |-> day]

(* w.file.Write: an open file takes the record, or the disk does not; the   *)
(* error of either kind of failure is returned, past the fallback, and      *)
(* nobody looks at it.                                                      *)
ToFile(file, date) ==
    \/ file = "open" /\ Kept("file", date)
    \/ file = "open" /\ Kept("disk", date)
    \/ file = "closed" /\ Kept("closed", date)

(* The same day: the file is the one that was used last. *)
WriteSameDay(x) ==
    /\ w[x].file # "nil" /\ w[x].date = day
    /\ ToFile(w[x].file, w[x].date)
    /\ UNCHANGED <<w, handles>>

(* Mutant: the file of the day before is not closed. *)
WriteNewDayOpen(x) ==
    /\ w[x].file = "nil" \/ w[x].date # day
    /\ w' = [w EXCEPT ![x] = [file |-> "open", date |-> day]]
    /\ handles' = [handles EXCEPT ![x] = @ \cup {day}]
    /\ ToFile("open", day)

(* Another day, or no file yet: the old file is closed, the new one opened. *)
WriteNewDay(x) ==
    /\ w[x].file = "nil" \/ w[x].date # day
    /\ w' = [w EXCEPT ![x] = [file |-> "open", date |-> day]]
    /\ handles' = [handles EXCEPT ![x] = Closed(x) \cup {day}]
    /\ ToFile("open", day)

(* Mutant: the date is taken over before the new file is open. *)
WriteFailsDated(x) ==
    /\ w[x].file = "nil" \/ w[x].date # day
    /\ w' = [w EXCEPT ![x] = [file |-> IF @.file = "nil" THEN "nil" ELSE "closed", date |-> day]]
    /\ handles' = [handles EXCEPT ![x] = Closed(x)]
    /\ Kept("fallback", 0)

(* MkdirAll or OpenFile fails: w.file and w.date stay those of the file     *)
(* that has just been closed.                                               *)
WriteFails(x) ==
    /\ w[x].file = "nil" \/ w[x].date # day
    /\ w' = [w EXCEPT ![x].file = IF @ = "nil" THEN "nil" ELSE "closed"]
    /\ handles' = [handles EXCEPT ![x] = Closed(x)]
    /\ Kept("fallback", 0)

(* A record of main, of the application or of a component: New's writer is  *)
(* the one main holds; components have the configured one and may outlive   *)
(* the end of main by a moment.                                             *)
Write ==
    /\ \E x \in Writers :
         /\ x = main \/ (main = "ended" /\ x = "configured")
         /\ WriteSameDay(x) \/ WriteNewDay(x) \/ WriteFails(x)
    /\ UNCHANGED <<day, steady, main>>

(* Close *)
Close(x) ==
    /\ w' = [w EXCEPT ![x].file = "nil"]
    /\ handles' = [handles EXCEPT ![x] = Closed(x)]

(* main: the configuration has been read. *)
Configured ==
    /\ main = "initial"
    /\ main' = "configured"
    /\ Close("initial")
    /\ UNCHANGED <<day, steady, last>>

(* main: the deferred function closes the log that is in use, whichever     *)
(* of the two it is.                                                        *)
End ==
    /\ main \in Writers
    /\ main' = IF main = "configured" THEN "ended" ELSE "stopped"
    /\ Close(main)
    /\ UNCHANGED <<day, steady, last>>

(* The clock. *)
Clock ==
    /\ day' \in Days \ {day}
    /\ steady' = (steady /\ day' > day)
    /\ UNCHANGED <<main, w, handles, last>>

LogNext == Write \/ Configured \/ End \/ Clock

LogSpec == LogInit /\ [][LogNext]_logVars

--------------------------------------------------------------------------------
(* While the date does not go back no record is written to a file that has  *)
(* been closed, through failures at any change of the day and after the     *)
(* close of the log: it goes to an open file or to the fallback, and only   *)
(* the disk can lose it.  Also when the date does go back the file that is  *)
(* written to is the one of the record's own day (Write, which keeps a      *)
(* closed w.file with its old w.date).                                      *)
RecordsKept ==
    /\ steady => last.to # "closed"
    /\ last.to \in {"file", "disk", "closed"} => last.file = last.day

(* A writer has no open file but w.file: none is left by a change of the    *)
(* day, by a failure, or by main when it changes to the configured log.     *)
NoHandleLeft ==
    /\ \A x \in Writers : handles[x] = IF w[x].file = "open" THEN {w[x].date} ELSE {}
    /\ main # "initial" => handles["initial"] = {}

--------------------------------------------------------------------------------
(* A closed file is one of an earlier day while the date does not go back. *)
ClosedIsOld ==
    /\ \A x \in Writers : steady => (w[x].file = "closed" => w[x].date < day)
    /\ \A x \in Writers : steady => w[x].date <= day

LogInv == LogTypeOK /\ ClosedIsOld /\ RecordsKept /\ NoHandleLeft

================================================================================
