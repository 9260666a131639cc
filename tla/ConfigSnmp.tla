----------------------------- MODULE ConfigSnmp -----------------------------
(***************************************************************************)
(* yoctoConfigSnmp of libyocto.c: snmpd is stopped, its two files are      *)
(* written (configSnmpWrite), and it is started again.  serviceManage asks *)
(* systemd for a stop or a start and returns when the job is queued:       *)
(* systemd does it later, unless another job has replaced it.  snmpd reads *)
(* its files when it starts, and may save the first one when it exits.     *)
(***************************************************************************)
EXTENDS Naturals, Sequences, TextFile

CONSTANTS
    Proc,
    Gives,         \* the users that each caller sets, with their passwords
    Fault          \* what may fail

User == UNION {Gives[p] : p \in Proc}

ASSUME SnmpAssumption ==
    /\ Fault \subseteq {"stop", "write", "close", "start", "die"}
    /\ User \cap NotText = {}

\* In the order configSnmpWrite writes them.
FileName == <<"snmpd", "users">>
File == {"snmpd", "users"}

VARIABLES
    unit,      \* what snmpd does
    job,       \* the job of systemd for it that has not begun
    served,    \* the files it read when it started
    files,
    pc,
    user,      \* the argument of the call
    at,        \* the file that is being written
    rc,
    upset,     \* whether the call met another, a fault that it did not see, or
               \*   an snmpd that was not down yet
    gaveUp     \* whether a start failed or a caller died, since the last call

unitVars == <<unit, job, served>>
snmpVars == <<unitVars, files, pc, user, at, rc, upset, gaveUp>>

SnmpTypeOK ==
    /\ <<unit, job>> \in
          {"running"} \X {"none", "stop"} \cup {"stopping", "stopped"} \X {"none", "start"}
    /\ files \in [File -> User \cup NotText]
    /\ served \in [File -> User \cup NotText]
    /\ pc \in [Proc -> {"idle", "stop", "check", "write", "open", "start",
                        "done"}]
    /\ user \in [Proc -> User \cup NotText]
    /\ at \in [Proc -> {1, 2}]
    /\ rc \in [Proc -> {"0", "-1"}]
    /\ upset \in [Proc -> BOOLEAN]
    /\ gaveUp \in BOOLEAN

Init ==
    /\ files = [f \in File |-> "absent"]
    /\ served = files
    /\ unit = "running"
    /\ job = "none"
    /\ pc = [p \in Proc |-> "idle"]
    /\ user = [p \in Proc |-> "absent"]
    /\ at = [p \in Proc |-> 1]
    /\ rc = [p \in Proc |-> "0"]
    /\ upset = [p \in Proc |-> FALSE]
    /\ gaveUp = FALSE

Go(p, loc) == pc' = [pc EXCEPT ![p] = loc]

Returns(p, code) == rc' = [rc EXCEPT ![p] = code]

-----------------------------------------------------------------------------
Begin(p, u) ==
    /\ pc[p] = "idle"
    /\ user' = [user EXCEPT ![p] = u]
    /\ Go(p, "stop")
    /\ LET others == {q \in Proc \ {p} : pc[q] # "idle"}
       IN  upset' = [q \in Proc |->
                        IF q = p THEN others # {}
                        ELSE upset[q] \/ q \in others]
    /\ gaveUp' = FALSE
    /\ UNCHANGED <<unitVars, files, at, rc>>

\* serviceManage with "replace": the new job takes the place of one that has
\* not begun, and there is none when nothing has to be done.
QueueStop == job' = IF unit = "running" THEN "stop" ELSE "none"

\* The start does not take the place of a stop that has not begun.
QueueStartBehind == job' = IF unit = "running" THEN job ELSE "start"

QueueStart == job' = IF unit = "running" THEN "none" ELSE "start"

Stop(p) ==
    /\ pc[p] = "stop"
    /\ QueueStop
    /\ Go(p, "check")
    /\ UNCHANGED <<unit, served, files, user, at, rc, upset, gaveUp>>

\* rc takes the value of the comparison, (yoctoServiceStop(...) >= 0): 0.
\* The user is not saved.  The answer alone may have been lost.
StopFails(p) ==
    /\ "stop" \in Fault
    /\ pc[p] = "stop"
    /\ QueueStop \/ UNCHANGED job
    /\ Returns(p, "0")
    /\ Go(p, "start")
    /\ upset' = [upset EXCEPT ![p] = TRUE]
    /\ UNCHANGED <<unit, served, files, user, at, gaveUp>>

\* The length of the passwords.
Accepted(p) ==
    /\ pc[p] = "check"
    /\ Go(p, "write")
    /\ UNCHANGED <<unitVars, files, user, at, rc, upset, gaveUp>>

Refused(p) ==
    /\ pc[p] = "check"
    /\ Returns(p, "-1")
    /\ Go(p, "start")
    /\ UNCHANGED <<unitVars, files, user, at, upset, gaveUp>>

\* configWriteFile: fopen.
OpenFile(p) ==
    /\ pc[p] = "write"
    /\ files' = [files EXCEPT ![FileName[at[p]]] = "empty"]
    /\ Go(p, "open")
    /\ upset' = [upset EXCEPT ![p] = @ \/ unit # "stopped"]
    /\ UNCHANGED <<unitVars, user, at, rc, gaveUp>>

WriteFails(p) ==
    /\ "write" \in Fault
    /\ \/ pc[p] = "write" /\ UNCHANGED files
       \/ /\ pc[p] = "open"
          /\ \E content \in HalfFlushed(files[FileName[at[p]]]) :
                 files' = [files EXCEPT ![FileName[at[p]]] = content]
    /\ Returns(p, "-1")
    /\ Go(p, "start")
    /\ UNCHANGED <<unitVars, user, at, upset, gaveUp>>

\* The second file is forgotten.
NextFileNone(p) == Go(p, "start") /\ UNCHANGED at

\* The index is not bounded.
NextFileAlways(p) ==
    /\ at' = [at EXCEPT ![p] = @ + 1]
    /\ Go(p, IF at[p] = 1 THEN "write" ELSE "start")

NextFile(p) ==
    IF at[p] = 1
    THEN at' = [at EXCEPT ![p] = 2] /\ Go(p, "write")
    ELSE UNCHANGED at /\ Go(p, "start")

\* vfprintf and fclose.
FlushFile(p) ==
    /\ pc[p] = "open"
    /\ \E content \in Flushed(files[FileName[at[p]]], user[p]) :
           files' = [files EXCEPT ![FileName[at[p]]] = content]
    /\ NextFile(p)
    /\ UNCHANGED <<unitVars, user, rc, upset, gaveUp>>

\* The error of fclose is not seen.
CloseFails(p) ==
    /\ "close" \in Fault
    /\ pc[p] = "open"
    /\ \E content \in HalfFlushed(files[FileName[at[p]]]) :
           files' = [files EXCEPT ![FileName[at[p]]] = content]
    /\ NextFile(p)
    /\ upset' = [upset EXCEPT ![p] = TRUE]
    /\ UNCHANGED <<unitVars, user, rc, gaveUp>>

Start(p) ==
    /\ pc[p] = "start"
    /\ QueueStart
    /\ Go(p, "done")
    /\ UNCHANGED <<unit, served, files, user, at, rc, upset, gaveUp>>

\* The code of serviceManage, which is returned.
StartCode(p) == "-1"

StartFails(p) ==
    /\ "start" \in Fault
    /\ pc[p] = "start"
    /\ QueueStart \/ UNCHANGED job
    /\ Returns(p, StartCode(p))
    /\ Go(p, "done")
    /\ gaveUp' = TRUE
    /\ UNCHANGED <<unit, served, files, user, at, upset>>

Gone(p) ==
    /\ Go(p, "idle")
    /\ user' = [user EXCEPT ![p] = "absent"]
    /\ at' = [at EXCEPT ![p] = 1]
    /\ Returns(p, "0")
    /\ upset' = [upset EXCEPT ![p] = FALSE]
    /\ UNCHANGED <<unitVars, files>>

Return(p) == pc[p] = "done" /\ Gone(p) /\ UNCHANGED gaveUp

Die(p) ==
    /\ "die" \in Fault
    /\ pc[p] \notin {"idle", "done"}
    /\ Gone(p)
    /\ gaveUp' = TRUE

-----------------------------------------------------------------------------
(* systemd and snmpd.                                                      *)

daemonFrame == <<pc, user, at, rc, upset, gaveUp>>

StopJob ==
    /\ job = "stop"
    /\ unit' = "stopping"
    /\ job' = "none"
    /\ UNCHANGED <<served, files, daemonFrame>>

\* snmpd may save the users it knows over its file.
Exit ==
    /\ unit = "stopping"
    /\ unit' = "stopped"
    /\ \/ UNCHANGED files
       \/ files' = [files EXCEPT !["snmpd"] = served["snmpd"]]
    /\ UNCHANGED <<job, served, daemonFrame>>

\* A start waits for the end of the stop.
StartJob ==
    /\ job = "start"
    /\ unit = "stopped"
    /\ unit' = "running"
    /\ job' = "none"
    /\ served' = files
    /\ UNCHANGED <<files, daemonFrame>>

Daemon == StopJob \/ Exit \/ StartJob

-----------------------------------------------------------------------------
Step(p) ==
    \/ Stop(p)
    \/ StopFails(p)
    \/ Accepted(p)
    \/ Refused(p)
    \/ OpenFile(p)
    \/ WriteFails(p)
    \/ FlushFile(p)
    \/ CloseFails(p)
    \/ Start(p)
    \/ StartFails(p)
    \/ Return(p)

Next ==
    \/ \E p \in Proc : (\E u \in Gives[p] : Begin(p, u)) \/ Step(p) \/ Die(p)
    \/ Daemon

Spec == Init /\ [][Next]_snmpVars

\* A caller that is in a call goes on, and so do systemd and snmpd.
FairSpec ==
    /\ Spec
    /\ \A p \in Proc : WF_snmpVars(Step(p))
    /\ WF_snmpVars(Daemon)

-----------------------------------------------------------------------------
(* Properties.                                                             *)

\* snmpd has read the files that hold the user of p, or is about to.
Serves(p) ==
    /\ files = [f \in File |-> user[p]]
    /\ \/ unit = "running" /\ job = "none" /\ served = files
       \/ unit = "stopped" /\ job = "start"

(***************************************************************************)
(* "Set the v3 user for the snmp server ... returns 0 if ok" (libyocto.h   *)
(* 319-324): when a call returns 0, snmpd serves the user that the call    *)
(* has set, at the latest when systemd has done its job.                   *)
(***************************************************************************)
OkMeansServed ==
    \A p \in Proc : pc[p] = "done" /\ rc[p] = "0" => Serves(p)

(***************************************************************************)
(* The same but for the calls whose stop failed (libyocto.c 432), whose    *)
(* text was lost by fclose, that met another call, or that wrote before    *)
(* snmpd was down (service.c 77-103): whatever failed or died before, with *)
(* snmpd left running or stopped, jobs left in the queue, one file written *)
(* or none.                                                                *)
(***************************************************************************)
ZeroMeansServed ==
    \A p \in Proc :
        pc[p] = "done" /\ rc[p] = "0" /\ ~upset[p] => Serves(p)

Quiet == \A p \in Proc : pc[p] = "idle"

(***************************************************************************)
(* Callers that stop and start snmpd in any order, whose jobs replace each *)
(* other, whose stops and writes fail or whose users are refused, leave it *)
(* running once nobody calls any more (libyocto.c 432-442); only a start   *)
(* that fails or a caller that dies leaves it stopped, until the next call.*)
(***************************************************************************)
StoppedIsTransient == <>[]Quiet => <>[](unit = "running" \/ gaveUp)

=============================================================================
