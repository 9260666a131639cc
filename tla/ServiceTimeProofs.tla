------------------------- MODULE ServiceTimeProofs -------------------------
(***************************************************************************)
(* serviceSetTime, for any number of callers and any timestamps: what a 0  *)
(* means, and what becomes of NTP.                                         *)
(***************************************************************************)
EXTENDS ServiceTime, TLAPS

\* The invariant holds at the beginning.
LEMMA TimeInitEstablishes == Init => TimeInv
<1> SUFFICES ASSUME Init PROVE TimeInv
    OBVIOUS
<1>1. TimeTypeOK /\ CallKept
    BY DEF Init, TimeTypeOK, CallKept, Location
<1>2. configured = ntp /\ \A p \in Proc : ~ntpEnabled[p]
    BY DEF Init
<1>3. SomebodyPutsBack
    BY <1>2, Zenon DEF SomebodyPutsBack
<1> QED
    BY <1>1, <1>3 DEF TimeInv

(***************************************************************************)
(* Every step of a call, every failure and death of a caller and every     *)
(* change by the administrator preserves TimeInv.                          *)
(***************************************************************************)
LEMMA TimeStepPreserves == TimeInv /\ [Next]_timeVars => TimeInv'
<1> SUFFICES ASSUME TimeInv, [Next]_timeVars PROVE TimeInv'
    OBVIOUS
<1> USE TimeAssumption DEF TimeInv, TimeTypeOK, CallKept, SomebodyPutsBack, PutsBack,
        Location, Go
<1>1. CASE UNCHANGED timeVars
    BY <1>1 DEF timeVars, callVars
<1>2. ASSUME NEW p \in Proc, NEW t \in Timestamp, Begin(p, t)
      PROVE  TimeInv'
    BY <1>2 DEF Begin
<1>3. ASSUME NEW p \in Proc, GetNtp(p) \/ GetNtpFails(p)
      PROVE  TimeInv'
    BY <1>3 DEF GetNtp, GetNtpFails
<1>4. ASSUME NEW p \in Proc, Disable(p) \/ DisableFails(p)
      PROVE  TimeInv'
    BY <1>4 DEF Disable, DisableFails
<1>5. ASSUME NEW p \in Proc, SetTime(p)
      PROVE  TimeInv'
  <2>1. TimeTypeOK' /\ CallKept'
      BY <1>5 DEF SetTime, MarkSet, AfterSetTime
  <2>2. \A q \in Proc : /\ PutsBack(q) => PutsBack(q)'
                        /\ pc'[q] # "done" => pc[q] # "done"
      BY <1>5 DEF SetTime, AfterSetTime
  <2> QED
      BY <1>5, <2>1, <2>2 DEF SetTime
<1>6. ASSUME NEW p \in Proc, SetTimeFails(p)
      PROVE  TimeInv'
  <2>1. TimeTypeOK' /\ CallKept'
      BY <1>6 DEF SetTimeFails, MarkSet, AfterSetTime, Refused
  <2>2. ntp \/ faulty'
      BY <1>6 DEF SetTimeFails
  <2> QED
      BY <1>6, <2>1, <2>2 DEF SetTimeFails
<1>7. ASSUME NEW p \in Proc, Reenable(p) \/ ReenableFails(p)
      PROVE  TimeInv'
    BY <1>7 DEF Reenable, ReenableFails, NotSent
<1>8. ASSUME NEW p \in Proc, Return(p)
      PROVE  TimeInv'
  <2>1. TimeTypeOK' /\ CallKept'
      BY <1>8 DEF Return, Leave
  <2>2. \A q \in Proc : /\ PutsBack(q) => PutsBack(q)'
                        /\ ~ntpEnabled[q] => ~ntpEnabled'[q]
                        /\ ntpEnabled'[q] /\ pc'[q] # "done" =>
                              ntpEnabled[q] /\ pc[q] # "done"
      BY <1>8 DEF Return, Leave
  <2> QED
      BY <1>8, <2>1, <2>2 DEF Return, Leave
<1>9. ASSUME NEW p \in Proc, Die(p)
      PROVE  TimeInv'
    BY <1>9 DEF Die, Leave
<1>10. ASSUME NEW on \in BOOLEAN, Administrator(on)
      PROVE  TimeInv'
    BY <1>10 DEF Administrator, callVars
<1> QED
    BY <1>1, <1>2, <1>3, <1>4, <1>5, <1>6, <1>7, <1>8, <1>9, <1>10 DEF Next

\* The invariant holds in every state.
THEOREM TimeInvariance == Spec => []TimeInv
BY TimeInitEstablishes, TimeStepPreserves, PTL DEF Spec

\* Every variable of serviceSetTime keeps its type.
THEOREM TimeTypeCorrect == Spec => []TimeTypeOK
<1>1. TimeInv => TimeTypeOK
    BY DEF TimeInv
<1> QED
    BY <1>1, TimeInvariance, PTL

\* A call that returns 0 has set the clock, whatever the others do.
THEOREM ZeroIsSet == Spec => []ZeroMeansSet
<1>1. TimeInv => ZeroMeansSet
    BY DEF TimeInv, CallKept, ZeroMeansSet
<1> QED
    BY <1>1, TimeInvariance, PTL

(***************************************************************************)
(* NTP is as the administrator set it when nobody sets the time: a call    *)
(* that turned it off puts it back on every path of serviceSetTime on      *)
(* which nothing failed.                                                   *)
(***************************************************************************)
THEOREM NtpIsKept == Spec => []NtpKept
<1>1. TimeInv => NtpKept
    BY DEF TimeInv, TimeTypeOK, SomebodyPutsBack, PutsBack, NtpKept
<1> QED
    BY <1>1, TimeInvariance, PTL

(***************************************************************************)
(* Once NTP is off and no call has seen it on, only the administrator      *)
(* turns it on (serviceSetTime, lines 321-325).                            *)
(***************************************************************************)
THEOREM OffIsKept == Spec => OffStaysOff
<1> DEFINE Off == ~ntp /\ \A p \in Proc : ~ntpEnabled[p]
<1>1. ASSUME TimeInv, [Next]_timeVars, Off
      PROVE  Off' \/ Administrator(TRUE)
  <2> USE <1>1 DEF TimeInv, TimeTypeOK, CallKept, Go
  <2>1. CASE UNCHANGED timeVars
      BY <2>1 DEF timeVars, callVars
  <2>2. ASSUME NEW p \in Proc,
               \/ \E t \in Timestamp : Begin(p, t)
               \/ GetNtp(p)
               \/ GetNtpFails(p)
        PROVE  Off'
      BY <2>2 DEF Begin, GetNtp, GetNtpFails
  <2>3. ASSUME NEW p \in Proc, Disable(p) \/ DisableFails(p)
        PROVE  Off'
      BY <2>3 DEF Disable, DisableFails
  <2>4. ASSUME NEW p \in Proc, SetTime(p) \/ SetTimeFails(p)
        PROVE  Off'
      BY <2>4 DEF SetTime, SetTimeFails
  <2>5. ASSUME NEW p \in Proc, Reenable(p) \/ ReenableFails(p)
        PROVE  Off'
      BY <2>5 DEF Reenable, ReenableFails
  <2>6. ASSUME NEW p \in Proc, Return(p) \/ Die(p)
        PROVE  Off'
      BY <2>6 DEF Return, Die, Leave
  <2>7. ASSUME NEW on \in BOOLEAN, Administrator(on)
        PROVE  Off' \/ Administrator(TRUE)
      BY <2>7 DEF Administrator, callVars
  <2> QED
      BY <2>1, <2>2, <2>3, <2>4, <2>5, <2>6, <2>7 DEF Next
<1>2. TimeInv /\ [Next]_timeVars
      => [Off => \/ ~ntp' /\ (\A p \in Proc : ~ntpEnabled'[p])
                 \/ Administrator(TRUE)]_timeVars
    BY <1>1
<1> QED
    BY <1>2, TimeInvariance, PTL DEF Spec, OffStaysOff

=============================================================================
