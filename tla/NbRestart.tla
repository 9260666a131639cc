------------------------------ MODULE NbRestart ------------------------------
(***************************************************************************)
(* serviceGetNbRestart of service.c: how many times a service has been     *)
(* restarted since the last request.                                       *)
(*                                                                         *)
(* Systemd counts the restarts of a unit since the boot (or since somebody *)
(* started the unit by hand); the library keeps the count it saw last in a *)
(* file of /tmp and returns the difference.  Any process may ask; nothing  *)
(* locks the file.                                                         *)
(***************************************************************************)
EXTENDS Integers

CONSTANTS
    Proc,
    MaxRestarts,   \* bound: restarts of the service in a behaviour
    CanFail        \* files may fail, and callers may die

ASSUME NbRestartAssumption ==
    /\ MaxRestarts \in Nat
    /\ CanFail \in BOOLEAN

VARIABLES
    nRestarts,   \* NRestarts of the unit
    file,        \* the count in the file, or Absent or Empty
    pc,
    newValue,    \* *newValue: the count read from systemd, then the result
    oldValue,
    rc,
    occurred,    \* the restarts since the boot
    reported,    \* the sum of the counts that were returned since then
    since,       \* the restarts since the last request read the counter
    expected,    \* what since was when a caller read the counter
    faulty,      \* whether something failed, or a caller died, since the boot
    misread,     \* whether a file that exists could not be opened
    overlapped,  \* whether two requests were in progress at the same time
    byHand       \* whether the unit was started by hand since the boot

exceptions == <<faulty, misread, overlapped, byHand>>
vars == <<nRestarts, file, pc, newValue, oldValue, rc,
          occurred, reported, since, expected, exceptions>>
historyVars == <<occurred, reported, since, expected, exceptions>>

Absent == -1
Empty == -2

Location == {"idle", "load", "compare", "save", "done"}
Count == 0 .. MaxRestarts

NbRestartTypeOK ==
    /\ nRestarts \in Count
    /\ file \in Count \cup {Absent, Empty}
    /\ pc \in [Proc -> Location]
    /\ newValue \in [Proc -> Count]
    /\ oldValue \in [Proc -> Count]
    /\ rc \in [Proc -> {0, -1}]
    /\ occurred \in Count
    /\ since \in Count
    /\ expected \in [Proc -> Count]
    /\ faulty \in BOOLEAN
    /\ misread \in BOOLEAN
    /\ overlapped \in BOOLEAN
    /\ byHand \in BOOLEAN

Init ==
    /\ nRestarts = 0
    /\ file = Absent
    /\ pc = [p \in Proc |-> "idle"]
    /\ newValue = [p \in Proc |-> 0]
    /\ oldValue = [p \in Proc |-> 0]
    /\ rc = [p \in Proc |-> 0]
    /\ occurred = 0
    /\ reported = 0
    /\ since = 0
    /\ expected = [p \in Proc |-> 0]
    /\ faulty = FALSE
    /\ misread = FALSE
    /\ overlapped = FALSE
    /\ byHand = FALSE

Go(p, loc) == pc' = [pc EXCEPT ![p] = loc]

-----------------------------------------------------------------------------
(* serviceGetNbRestart and _serviceGetLastNbRestart.                       *)

\* The bus gives NRestarts.
AskSystemd(p) ==
    /\ pc[p] = "idle"
    /\ newValue' = [newValue EXCEPT ![p] = nRestarts]
    /\ rc' = [rc EXCEPT ![p] = 0]
    /\ Go(p, "load")
    /\ expected' = [expected EXCEPT ![p] = since]
    /\ since' = 0
    /\ overlapped' = (overlapped \/ \E q \in Proc : pc[q] # "idle")
    /\ UNCHANGED <<nRestarts, file, oldValue, occurred, reported, faulty, misread,
                   byHand>>

\* The bus, the path of the unit or its property is not there: -1.
AskFails(p) ==
    /\ CanFail
    /\ pc[p] = "idle"
    /\ rc' = [rc EXCEPT ![p] = -1]
    /\ Go(p, "done")
    /\ UNCHANGED <<nRestarts, file, newValue, oldValue, historyVars>>

\* An empty file counts as no file.
LoadEmptyAsAbsent(p) ==
    /\ pc[p] = "load"
    /\ oldValue' = [oldValue EXCEPT ![p] = IF file >= 0 THEN file ELSE 0]
    /\ Go(p, "compare")
    /\ UNCHANGED <<nRestarts, file, newValue, rc, historyVars>>

\* The file is read; when there is none the old value is 0, and an empty one
\* is an error.
Load(p) ==
    /\ pc[p] = "load"
    /\ oldValue' = [oldValue EXCEPT ![p] = IF file >= 0 THEN file ELSE 0]
    /\ IF file = Empty
       THEN rc' = [rc EXCEPT ![p] = -1] /\ Go(p, "done")
       ELSE Go(p, "compare") /\ UNCHANGED rc
    /\ UNCHANGED <<nRestarts, file, newValue, historyVars>>

MustSave(p) == oldValue[p] < newValue[p]

\* A new value is saved after fopen("w") has emptied the file; otherwise the
\* result is 0.
Compare(p) ==
    /\ pc[p] = "compare"
    /\ IF MustSave(p)
       THEN /\ file' = Empty
            /\ Go(p, "save")
            /\ UNCHANGED <<newValue, reported>>
       ELSE /\ newValue' = [newValue EXCEPT ![p] = 0]
            /\ Go(p, "done")
            /\ UNCHANGED <<file, reported>>
    /\ UNCHANGED <<nRestarts, oldValue, rc, occurred, since, expected,
                   exceptions>>

\* The difference is saved, for the new value.
SavedDifference(p) == newValue[p] - oldValue[p]

Saved(p) == newValue[p]

\* The operands are swapped.
DifferenceSwapped(p) == oldValue[p] - newValue[p]

Difference(p) == newValue[p] - oldValue[p]

\* The sum is not followed any further once a file was misread.
Reported(p) == IF misread THEN reported ELSE reported + Difference(p)

\* fwrite, and fclose which moves the value to the file.
Save(p) ==
    /\ pc[p] = "save"
    /\ file' = Saved(p)
    /\ newValue' = [newValue EXCEPT ![p] = Difference(p)]
    /\ reported' = Reported(p)
    /\ Go(p, "done")
    /\ UNCHANGED <<nRestarts, oldValue, rc, occurred, since, expected,
                   exceptions>>

Return(p) ==
    /\ pc[p] = "done"
    /\ Go(p, "idle")
    /\ newValue' = [newValue EXCEPT ![p] = 0]
    /\ oldValue' = [oldValue EXCEPT ![p] = 0]
    /\ rc' = [rc EXCEPT ![p] = 0]
    /\ expected' = [expected EXCEPT ![p] = 0]
    /\ UNCHANGED <<nRestarts, file, occurred, reported, since, exceptions>>

-----------------------------------------------------------------------------
(* Failures.                                                               *)

\* A file cannot be read, opened for writing, or written: -1.
Fails(p) ==
    /\ CanFail
    /\ pc[p] \in {"load", "compare", "save"}
    /\ pc[p] = "compare" => MustSave(p)
    /\ rc' = [rc EXCEPT ![p] = -1]
    /\ Go(p, "done")
    /\ faulty' = TRUE
    /\ UNCHANGED <<nRestarts, file, newValue, oldValue,
                   occurred, reported, since, expected, misread, overlapped, byHand>>

\* The file exists, but fopen("r") fails (no descriptor left): the library
\* takes it for a file that is not there.
TakenForAbsent(p) ==
    /\ CanFail
    /\ pc[p] = "load"
    /\ oldValue' = [oldValue EXCEPT ![p] = 0]
    /\ Go(p, "compare")
    /\ faulty' = TRUE
    /\ misread' = TRUE
    /\ UNCHANGED <<nRestarts, file, newValue, rc,
                   occurred, reported, since, expected, overlapped, byHand>>

\* The value does not reach the file at fclose (the disk is full), and the
\* result of fclose is not looked at.
FlushFails(p) ==
    /\ CanFail
    /\ pc[p] = "save"
    /\ newValue' = [newValue EXCEPT ![p] = Difference(p)]
    /\ reported' = Reported(p)
    /\ Go(p, "done")
    /\ faulty' = TRUE
    /\ UNCHANGED <<nRestarts, file, oldValue, rc, occurred, since, expected,
                   misread, overlapped, byHand>>

Die(p) ==
    /\ CanFail
    /\ pc[p] # "idle"
    /\ Go(p, "idle")
    /\ newValue' = [newValue EXCEPT ![p] = 0]
    /\ oldValue' = [oldValue EXCEPT ![p] = 0]
    /\ rc' = [rc EXCEPT ![p] = 0]
    /\ expected' = [expected EXCEPT ![p] = 0]
    /\ faulty' = TRUE
    /\ UNCHANGED <<nRestarts, file, occurred, reported, since, misread, overlapped,
                   byHand>>

-----------------------------------------------------------------------------
(* Systemd and the machine.                                                *)

ServiceRestarts ==
    /\ occurred < MaxRestarts
    /\ nRestarts' = nRestarts + 1
    /\ occurred' = occurred + 1
    /\ since' = since + 1
    /\ UNCHANGED <<file, pc, newValue, oldValue, rc, reported, expected,
                   exceptions>>

\* Starting the unit by hand resets its counter.
StartedByHand ==
    /\ nRestarts' = 0
    /\ byHand' = TRUE
    /\ UNCHANGED <<file, pc, newValue, oldValue, rc, occurred, reported, since,
                   expected, faulty, misread, overlapped>>

\* /tmp is empty after a boot, and the counter is 0.
Reboot ==
    /\ nRestarts' = 0
    /\ file' = Absent
    /\ pc' = [p \in Proc |-> "idle"]
    /\ newValue' = [p \in Proc |-> 0]
    /\ oldValue' = [p \in Proc |-> 0]
    /\ rc' = [p \in Proc |-> 0]
    /\ occurred' = 0
    /\ reported' = 0
    /\ since' = 0
    /\ expected' = [p \in Proc |-> 0]
    /\ faulty' = FALSE
    /\ misread' = FALSE
    /\ overlapped' = FALSE
    /\ byHand' = FALSE

Next ==
    \/ \E p \in Proc :
          \/ AskSystemd(p)
          \/ AskFails(p)
          \/ Load(p)
          \/ Compare(p)
          \/ Save(p)
          \/ Return(p)
          \/ Fails(p)
          \/ TakenForAbsent(p)
          \/ FlushFails(p)
          \/ Die(p)
    \/ ServiceRestarts
    \/ StartedByHand
    \/ Reboot

Spec == Init /\ [][Next]_vars

-----------------------------------------------------------------------------
(* Properties.                                                             *)

(***************************************************************************)
(* No restart is reported twice: the counts that were returned add up to   *)
(* no more than the restarts that happened, whatever fails and whoever     *)
(* starts the unit.  Two exceptions: two requests at the same time, which  *)
(* both read the file before either writes it (lines 134 and 162), and a   *)
(* file that is there but cannot be opened, which counts as absent.        *)
(***************************************************************************)
NoneTwice == ~misread /\ ~overlapped => reported <= occurred

(***************************************************************************)
(* "Reads the number of time a service has been restarted because of       *)
(* failure since the last request" (libyocto.h, line 219): as long as      *)
(* nothing failed, the count of a request is exactly that.  Two exceptions *)
(* again: requests at the same time, and a unit that was started by hand,  *)
(* whose counter is then below the saved one (line 158).                   *)
(***************************************************************************)
CountIsExact ==
    ~faulty /\ ~overlapped /\ ~byHand =>
        \A p \in Proc : pc[p] = "done" /\ rc[p] = 0 => newValue[p] = expected[p]

\* The file is empty, and nobody has read it before it was.
Stuck == file = Empty /\ \A p \in Proc : pc[p] \notin {"compare", "save"}

(***************************************************************************)
(* A caller that dies, or a write that fails, leaves the file empty, and   *)
(* then no request gets past reading it until the next boot removes it     *)
(* (lines 138-149, 162-183); unless, again, it cannot be opened.           *)
(***************************************************************************)
EmptyUntilBoot == [][Stuck => Stuck' \/ file' = Absent \/ misread']_vars

=============================================================================
