-------------------------- MODULE ConfigSnmpProofs --------------------------
(***************************************************************************)
(* Theorems about yoctoConfigSnmp and their proofs, for any number of      *)
(* callers, users and faults, and any order of systemd's jobs.             *)
(***************************************************************************)
EXTENDS ConfigSnmp, TLAPS

\* A call that nothing has upset is the only one.
Alone ==
    \A p, q \in Proc :
        pc[p] # "idle" /\ ~upset[p] /\ q # p => pc[q] = "idle"

\* snmpd is down, and no job will start it.
Down == unit = "stopped" /\ job = "none"

\* It is down, or on its way down.
GoesDown == IF unit = "running" THEN job = "stop" ELSE job = "none"

\* What a call that nothing has upset has reached where it is.
Reached(p) ==
    /\ pc[p] \in {"idle", "stop", "check"} => at[p] = 1
    /\ ~upset[p] =>
          /\ pc[p] \in {"check", "write"} => GoesDown
          /\ pc[p] = "open" => Down /\ files[FileName[at[p]]] = "empty"
          /\ pc[p] \in {"write", "open"} /\ at[p] = 2 =>
                Down /\ files["snmpd"] = user[p]
          /\ pc[p] = "start" =>
                rc[p] = "-1" \/ (Down /\ \A f \in File : files[f] = user[p])
          /\ pc[p] = "done" => rc[p] = "-1" \/ Serves(p)

SnmpInv == SnmpTypeOK /\ Alone /\ \A p \in Proc : Reached(p)

-----------------------------------------------------------------------------
LEMMA SnmpInitially == Init => SnmpInv
<1> SUFFICES ASSUME Init PROVE SnmpInv
    OBVIOUS
<1> USE DEF Init
<1>1. SnmpTypeOK
    BY DEF SnmpTypeOK, File, NotText
<1>2. Alone
    BY DEF Alone
<1>3. \A p \in Proc : Reached(p)
    BY DEF Reached
<1> QED
    BY <1>1, <1>2, <1>3 DEF SnmpInv

\* What is in a file when its stream was closed.
LEMMA FlushedType ==
    ASSUME NEW old \in User \cup NotText, NEW new \in User \cup NotText
    PROVE  /\ Flushed(old, new) \subseteq User \cup NotText
           /\ HalfFlushed(old) \subseteq User \cup NotText
BY DEF Flushed, HalfFlushed, NotText

LEMMA SnmpTypeStep == SnmpTypeOK /\ [Next]_snmpVars => SnmpTypeOK'
<1> SUFFICES ASSUME SnmpTypeOK, [Next]_snmpVars PROVE SnmpTypeOK'
    OBVIOUS
<1> USE DEF SnmpTypeOK, Go, Returns, unitVars
<1>1. CASE UNCHANGED snmpVars
    BY <1>1 DEF snmpVars
<1>2. ASSUME NEW p \in Proc, NEW u \in Gives[p], Begin(p, u)
      PROVE  SnmpTypeOK'
  <2>1. u \in User
      BY DEF User
  <2> QED
      BY <1>2, <2>1 DEF Begin
<1>3. ASSUME NEW p \in Proc, Stop(p) \/ StopFails(p)
      PROVE  SnmpTypeOK'
    BY <1>3 DEF Stop, StopFails, QueueStop
<1>4. ASSUME NEW p \in Proc, Accepted(p) \/ Refused(p)
      PROVE  SnmpTypeOK'
    BY <1>4 DEF Accepted, Refused
<1>5. ASSUME NEW p \in Proc, OpenFile(p)
      PROVE  SnmpTypeOK'
    BY <1>5 DEF OpenFile, NotText
<1>6. ASSUME NEW p \in Proc, WriteFails(p) \/ FlushFile(p) \/ CloseFails(p)
      PROVE  SnmpTypeOK'
  <2>1. FileName[at[p]] \in File
      BY DEF FileName, File
  <2>2. files' \in [File -> User \cup NotText]
      BY <1>6, <2>1, FlushedType DEF WriteFails, FlushFile, CloseFails
  <2> QED
      BY <1>6, <2>2 DEF WriteFails, FlushFile, CloseFails, NextFile
<1>7. ASSUME NEW p \in Proc, Start(p) \/ StartFails(p)
      PROVE  SnmpTypeOK'
    BY <1>7 DEF Start, StartFails, QueueStart, StartCode
<1>8. ASSUME NEW p \in Proc, Return(p) \/ Die(p)
      PROVE  SnmpTypeOK'
    BY <1>8 DEF Return, Die, Gone, NotText
<1>9. CASE Daemon
    BY <1>9 DEF Daemon, StopJob, Exit, StartJob, daemonFrame, File
<1> QED
    BY <1>1, <1>2, <1>3, <1>4, <1>5, <1>6, <1>7, <1>8, <1>9 DEF Next, Step

-----------------------------------------------------------------------------
\* While a call goes on, nothing is known of the others, or they are idle.
LEMMA OthersDoNotMatter ==
    ASSUME SnmpInv, NEW p \in Proc, pc[p] # "idle", NEW q \in Proc, q # p
    PROVE  pc[q] = "idle" \/ upset[q]
BY DEF SnmpInv, Alone

\* A step of one call that upsets nobody else leaves the others where they were.
LEMMA OthersKept ==
    ASSUME SnmpInv, NEW p \in Proc, pc[p] # "idle",
           \A q \in Proc \ {p} :
               pc'[q] = pc[q] /\ upset'[q] = upset[q] /\ at'[q] = at[q],
           pc'[p] = "idle" \/ upset'[p] \/ ~upset[p]
    PROVE  Alone' /\ \A q \in Proc \ {p} : Reached(q)'
<1>1. Alone'
    BY OthersDoNotMatter DEF SnmpInv, Alone
<1>2. ASSUME NEW q \in Proc \ {p} PROVE Reached(q)'
    BY <1>2, OthersDoNotMatter DEF SnmpInv, Reached
<1> QED
    BY <1>1, <1>2

(***************************************************************************)
(* Every step of a caller, of systemd and of snmpd preserves SnmpInv.      *)
(***************************************************************************)
LEMMA SnmpStep == SnmpInv /\ [Next]_snmpVars => SnmpInv'
<1> SUFFICES ASSUME SnmpInv, [Next]_snmpVars PROVE SnmpInv'
    OBVIOUS
<1>1. SnmpTypeOK /\ SnmpTypeOK'
    BY SnmpTypeStep DEF SnmpInv
<1>2. \A p \in Proc : Reached(p)
    BY DEF SnmpInv
<1> USE <1>1 DEF SnmpTypeOK, Go, Returns, unitVars
<1>3. CASE UNCHANGED snmpVars
    BY <1>3 DEF snmpVars, SnmpInv, Alone, Reached, Down, GoesDown, Serves
<1>4. ASSUME NEW p \in Proc, NEW u \in Gives[p], Begin(p, u)
      PROVE  SnmpInv'
  <2>1. \A q \in Proc : pc'[q] # "idle" /\ ~upset'[q] =>
                            q = p /\ \A r \in Proc \ {p} : pc[r] = "idle"
      BY <1>4 DEF Begin
  <2>2. pc' = [pc EXCEPT ![p] = "stop"] /\ UNCHANGED at /\ pc[p] = "idle"
      BY <1>4 DEF Begin
  <2>3. Alone'
      BY <2>1, <2>2 DEF Alone
  <2>4. \A q \in Proc : Reached(q)'
      BY <1>2, <2>1, <2>2 DEF Reached
  <2> QED
      BY <2>3, <2>4 DEF SnmpInv
<1>5. ASSUME NEW p \in Proc, Step(p) \/ Die(p)
      PROVE  SnmpInv'
  <2> USE DEF Reached
  <2>1. pc[p] # "idle"
      BY <1>5 DEF Step, Die, Stop, StopFails, Accepted, Refused, OpenFile,
                  WriteFails, FlushFile, CloseFails, Start, StartFails, Return
  <2>2. /\ \A q \in Proc \ {p} :
              pc'[q] = pc[q] /\ upset'[q] = upset[q] /\ at'[q] = at[q]
        /\ pc'[p] = "idle" \/ upset'[p] \/ ~upset[p]
    <3>1. CASE Stop(p) \/ StopFails(p) \/ Accepted(p) \/ Refused(p)
        BY <3>1 DEF Stop, StopFails, Accepted, Refused
    <3>2. CASE OpenFile(p) \/ WriteFails(p)
        BY <3>2 DEF OpenFile, WriteFails
    <3>3. CASE FlushFile(p) \/ CloseFails(p)
        BY <3>3 DEF FlushFile, CloseFails, NextFile
    <3>4. CASE Start(p) \/ StartFails(p) \/ Return(p) \/ Die(p)
        BY <3>4 DEF Start, StartFails, Return, Die, Gone
    <3> QED
        BY <1>5, <3>1, <3>2, <3>3, <3>4 DEF Step
  <2>3. Reached(p)'
    <3>1. CASE Stop(p) \/ StopFails(p)
        BY <1>2, <3>1 DEF Stop, StopFails, QueueStop, GoesDown
    <3>2. CASE Accepted(p) \/ Refused(p)
        BY <1>2, <3>2 DEF Accepted, Refused, GoesDown
    <3>3. CASE OpenFile(p)
      <4> USE <1>2, <3>3 DEF OpenFile, GoesDown, Down
      <4>1. upset'[p] \/ Down'
          OBVIOUS
      <4>2. files' = [files EXCEPT ![FileName[at[p]]] = "empty"]
          OBVIOUS
      <4>3. CASE at[p] = 1
          BY <4>1, <4>2, <4>3 DEF FileName, File
      <4>4. CASE at[p] = 2
          BY <4>1, <4>2, <4>4 DEF FileName, File
      <4> QED
          BY <4>3, <4>4
    <3>4. CASE WriteFails(p)
        BY <1>2, <3>4 DEF WriteFails
    <3>5. CASE FlushFile(p)
      <4>1. upset[p] \/ /\ Down /\ Down'
                        /\ files' = [files EXCEPT ![FileName[at[p]]] = user[p]]
          BY <1>2, <3>5 DEF FlushFile, Flushed, Down
      <4>2. upset'[p] = upset[p] /\ user'[p] = user[p]
          BY <3>5 DEF FlushFile
      <4>3. CASE at[p] = 1
          BY <3>5, <4>1, <4>2, <4>3 DEF FlushFile, NextFile, Down, GoesDown,
                                         FileName, File
      <4>4. CASE at[p] = 2
          BY <1>2, <3>5, <4>1, <4>2, <4>4 DEF FlushFile, NextFile, FileName, File
      <4> QED
          BY <4>3, <4>4
    <3>6. CASE CloseFails(p)
        BY <1>2, <3>6 DEF CloseFails, NextFile
    <3>7. CASE Start(p)
        BY <1>2, <3>7 DEF Start, QueueStart, Down, Serves
    <3>8. CASE StartFails(p)
        BY <1>2, <3>8 DEF StartFails, StartCode
    <3>9. CASE Return(p) \/ Die(p)
        BY <3>9 DEF Return, Die, Gone
    <3> QED
        BY <1>5, <3>1, <3>2, <3>3, <3>4, <3>5, <3>6, <3>7, <3>8, <3>9 DEF Step
  <2>4. Alone' /\ \A q \in Proc \ {p} : Reached(q)'
      BY <2>1, <2>2, OthersKept
  <2> QED
      BY <2>3, <2>4 DEF SnmpInv
<1>6. CASE Daemon
  <2>1. UNCHANGED daemonFrame
      BY <1>6 DEF Daemon, StopJob, Exit, StartJob
  <2>2. ASSUME NEW p \in Proc PROVE Reached(p)'
    <3>1. CASE StopJob
        BY <1>2, <2>1, <3>1 DEF StopJob, daemonFrame, Reached, GoesDown, Down, Serves
    <3>2. CASE Exit
        BY <1>2, <2>1, <3>2 DEF Exit, daemonFrame, Reached, GoesDown, Down, Serves
    <3>3. CASE StartJob
        BY <1>2, <2>1, <3>3 DEF StartJob, daemonFrame, Reached, GoesDown, Down, Serves
    <3> QED
        BY <1>6, <3>1, <3>2, <3>3 DEF Daemon
  <2>3. Alone'
      BY <2>1 DEF SnmpInv, Alone, daemonFrame
  <2> QED
      BY <2>2, <2>3 DEF SnmpInv
<1> QED
    BY <1>3, <1>4, <1>5, <1>6 DEF Next

-----------------------------------------------------------------------------
\* What is true at every step of yoctoConfigSnmp, whoever fails or dies.
THEOREM SnmpInvariance == Spec => []SnmpInv
BY SnmpInitially, SnmpStep, PTL DEF Spec

\* Every variable of yoctoConfigSnmp, of systemd and of snmpd keeps its type.
THEOREM SnmpTypeCorrect == Spec => []SnmpTypeOK
<1>1. SnmpInv => SnmpTypeOK
    BY DEF SnmpInv
<1> QED
    BY <1>1, SnmpInvariance, PTL

(***************************************************************************)
(* A call that nothing has upset returns 0 only when snmpd serves its user *)
(* or is about to: the stop and the start are queued in an order that      *)
(* leaves no other job between them, whatever was in the queue before      *)
(* (yoctoConfigSnmp, lines 432-442).                                       *)
(***************************************************************************)
THEOREM ZeroIsServed == Spec => []ZeroMeansServed
<1>1. SnmpInv => ZeroMeansServed
    BY DEF SnmpInv, Reached, ZeroMeansServed
<1> QED
    BY <1>1, SnmpInvariance, PTL

-----------------------------------------------------------------------------
(* The safety half of StoppedIsTransient.                                  *)

\* snmpd runs and is not to stop, or is to be started.
WillRun == IF unit = "running" THEN job = "none" ELSE job = "start"

InCall(p) == pc[p] \notin {"idle", "done"}

\* Where it does not, a call in progress will start it.
SomebodyStarts == ~gaveUp => WillRun \/ \E p \in Proc : InCall(p)

LEMMA SomebodyStartsStep ==
    SnmpTypeOK /\ SomebodyStarts /\ [Next]_snmpVars => SomebodyStarts'
<1> SUFFICES ASSUME SnmpTypeOK, SomebodyStarts, [Next]_snmpVars
             PROVE  SomebodyStarts'
    OBVIOUS
<1> USE DEF SnmpTypeOK, Go, unitVars, SomebodyStarts, WillRun, InCall
<1>1. CASE UNCHANGED snmpVars
    BY <1>1 DEF snmpVars
<1>2. ASSUME NEW p \in Proc, NEW u \in Gives[p], Begin(p, u)
      PROVE  SomebodyStarts'
    BY <1>2 DEF Begin
<1>3. ASSUME NEW p \in Proc,
             \/ Stop(p) \/ StopFails(p) \/ Accepted(p) \/ Refused(p)
             \/ OpenFile(p) \/ WriteFails(p) \/ FlushFile(p) \/ CloseFails(p)
      PROVE  SomebodyStarts'
  <2>1. InCall(p)'
      BY <1>3 DEF Stop, StopFails, Accepted, Refused, OpenFile, WriteFails,
                  FlushFile, CloseFails, NextFile
  <2> QED
      BY <2>1
<1>4. ASSUME NEW p \in Proc, Start(p)
      PROVE  SomebodyStarts'
    BY <1>4 DEF Start, QueueStart
<1>5. ASSUME NEW p \in Proc, StartFails(p) \/ Die(p)
      PROVE  SomebodyStarts'
    BY <1>5 DEF StartFails, Die
<1>6. ASSUME NEW p \in Proc, Return(p)
      PROVE  SomebodyStarts'
    BY <1>6 DEF Return, Gone
<1>7. CASE Daemon
  <2>1. UNCHANGED daemonFrame
      BY <1>7 DEF Daemon, StopJob, Exit, StartJob
  <2>2. WillRun => WillRun'
      BY <1>7 DEF Daemon, StopJob, Exit, StartJob
  <2> QED
      BY <2>1, <2>2 DEF daemonFrame
<1> QED
    BY <1>1, <1>2, <1>3, <1>4, <1>5, <1>6, <1>7 DEF Next, Step

(***************************************************************************)
(* Once the calls are over, snmpd runs or the job that starts it is queued,*)
(* unless a start failed or a caller died after the last call began: no    *)
(* order of stops and starts, and no stop or write that fails, leaves it   *)
(* stopped with nothing to start it (lines 432-442).                       *)
(***************************************************************************)
THEOREM NobodyLeavesItStopped ==
    Spec => [](~gaveUp /\ Quiet => WillRun)
<1>1. Init => SnmpTypeOK /\ SomebodyStarts
    BY SnmpInitially DEF Init, SnmpInv, SomebodyStarts, WillRun
<1>2. SomebodyStarts => (~gaveUp /\ Quiet => WillRun)
    BY DEF SomebodyStarts, Quiet, InCall
<1> QED
    BY <1>1, <1>2, SnmpTypeStep, SomebodyStartsStep, PTL DEF Spec

=============================================================================
