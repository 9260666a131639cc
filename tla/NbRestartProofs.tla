--------------------------- MODULE NbRestartProofs ---------------------------
(***************************************************************************)
(* The restarts that serviceGetNbRestart hands out, for any number of      *)
(* callers and of restarts.                                                *)
(***************************************************************************)
EXTENDS NbRestart, TLAPS

\* A value is saved only when it is greater than the old one, and neither the
\* counter nor what a caller has read of it is beyond what has happened.
Bounded ==
    /\ nRestarts \in Count
    /\ file \in Count \cup {Absent, Empty}
    /\ pc \in [Proc -> Location]
    /\ newValue \in [Proc -> Count]
    /\ oldValue \in [Proc -> Count]
    /\ rc \in [Proc -> {0, -1}]
    /\ occurred \in Count
    /\ since \in Count
    /\ expected \in [Proc -> Count]
    /\ reported \in Int
    /\ nRestarts <= occurred
    /\ since <= occurred
    /\ \A p \in Proc : pc[p] = "save" => oldValue[p] < newValue[p]

Active(p) == pc[p] \in {"load", "compare", "save"}

OneActive == \A p, q \in Proc : Active(p) /\ Active(q) => p = q

\* What is in the file counts at least what was reported.
Kept ==
    /\ file = Absent => reported <= 0
    /\ file >= 0 => reported <= file /\ file <= occurred
    /\ \A p \in Proc :
          /\ Active(p) => newValue[p] <= occurred
          /\ pc[p] = "compare" => /\ file # Empty
                                  /\ oldValue[p] = IF file >= 0 THEN file ELSE 0
          /\ pc[p] = "save" => file = Empty /\ reported <= oldValue[p]

OnceInv == ~misread /\ ~overlapped => OneActive /\ Kept /\ reported <= occurred

LEMMA BoundedInitially == Init => Bounded
BY NbRestartAssumption DEF Init, Bounded, Location, Count, Absent, Empty

LEMMA BoundedStep == Bounded /\ [Next]_vars => Bounded'
<1> SUFFICES ASSUME Bounded, [Next]_vars PROVE Bounded'
    OBVIOUS
<1> USE NbRestartAssumption DEF Bounded, Location, Count, Go,
                                historyVars, exceptions, Absent, Empty
<1>1. CASE UNCHANGED vars
    BY <1>1 DEF vars
<1>2. ASSUME NEW p \in Proc, AskSystemd(p) \/ AskFails(p)
      PROVE  Bounded'
    BY <1>2 DEF AskSystemd, AskFails
<1>3. ASSUME NEW p \in Proc, Load(p) \/ TakenForAbsent(p)
      PROVE  Bounded'
    BY <1>3 DEF Load, TakenForAbsent
<1>4. ASSUME NEW p \in Proc, Compare(p)
      PROVE  Bounded'
    BY <1>4 DEF Compare, MustSave
<1>5. ASSUME NEW p \in Proc, Save(p) \/ FlushFails(p)
      PROVE  Bounded'
    BY <1>5 DEF Save, FlushFails, Saved, Difference, Reported
<1>6. ASSUME NEW p \in Proc, Fails(p) \/ Return(p) \/ Die(p)
      PROVE  Bounded'
    BY <1>6 DEF Fails, Return, Die
<1>7. CASE ServiceRestarts \/ StartedByHand
    BY <1>7 DEF ServiceRestarts, StartedByHand
<1>8. CASE Reboot
    BY <1>8 DEF Reboot
<1> QED
    BY <1>1, <1>2, <1>3, <1>4, <1>5, <1>6, <1>7, <1>8 DEF Next

\* What the history of a behaviour tells is true or false.
Flags ==
    /\ faulty \in BOOLEAN /\ misread \in BOOLEAN
    /\ overlapped \in BOOLEAN /\ byHand \in BOOLEAN

LEMMA FlagsInitially == Init => Flags
BY DEF Init, Flags

LEMMA FlagsStep == Flags /\ [Next]_vars => Flags'
<1> SUFFICES ASSUME Flags, [Next]_vars PROVE Flags'
    OBVIOUS
<1> USE DEF Flags, historyVars, exceptions
<1>1. CASE UNCHANGED vars
    BY <1>1, Zenon DEF vars
<1>2. ASSUME NEW p \in Proc, AskSystemd(p)
      PROVE  Flags'
    BY <1>2, Zenon DEF AskSystemd
<1>3. ASSUME NEW p \in Proc, AskFails(p) \/ Load(p) \/ Compare(p)
      PROVE  Flags'
    BY <1>3, Zenon DEF AskFails, Load, Compare
<1>4. ASSUME NEW p \in Proc, Save(p) \/ FlushFails(p) \/ TakenForAbsent(p)
      PROVE  Flags'
    BY <1>4, Zenon DEF Save, FlushFails, TakenForAbsent
<1>5. ASSUME NEW p \in Proc, Fails(p) \/ Return(p) \/ Die(p)
      PROVE  Flags'
    BY <1>5, Zenon DEF Fails, Return, Die
<1>6. CASE ServiceRestarts \/ StartedByHand \/ Reboot
    BY <1>6, Zenon DEF ServiceRestarts, StartedByHand, Reboot
<1> QED
    BY <1>1, <1>2, <1>3, <1>4, <1>5, <1>6 DEF Next

(***************************************************************************)
(* The counters stay within what the service did, and a difference is      *)
(* never negative (serviceGetNbRestart 158-175).                           *)
(***************************************************************************)
THEOREM RestartTypeCorrect == Spec => []NbRestartTypeOK
<1>1. Bounded /\ Flags => NbRestartTypeOK
    BY DEF Bounded, Flags, NbRestartTypeOK
<1> QED
    BY <1>1, BoundedInitially, BoundedStep, FlagsInitially, FlagsStep, PTL
       DEF Spec

-----------------------------------------------------------------------------
LEMMA OnceInitially == Init => OnceInv
BY NbRestartAssumption DEF Init, OnceInv, OneActive, Active, Kept, Absent

LEMMA OnceStep == Bounded /\ OnceInv /\ [Next]_vars => OnceInv'
<1> SUFFICES ASSUME Bounded, OnceInv, [Next]_vars, ~misread', ~overlapped'
             PROVE  OneActive' /\ Kept' /\ (reported <= occurred)'
    BY DEF OnceInv
<1> USE NbRestartAssumption DEF Bounded, Count, OnceInv,
        OneActive, Active, Kept, Go, historyVars, exceptions, Absent, Empty
<1>1. CASE UNCHANGED vars
    BY <1>1 DEF vars
<1>2. ASSUME NEW p \in Proc, AskSystemd(p) \/ AskFails(p)
      PROVE  OneActive' /\ Kept' /\ (reported <= occurred)'
    BY <1>2 DEF AskSystemd, AskFails
<1>3. ASSUME NEW p \in Proc, Load(p) \/ TakenForAbsent(p)
      PROVE  OneActive' /\ Kept' /\ (reported <= occurred)'
    BY <1>3 DEF Load, TakenForAbsent
<1>4. ASSUME NEW p \in Proc, Compare(p)
      PROVE  OneActive' /\ Kept' /\ (reported <= occurred)'
    BY <1>4 DEF Compare, MustSave
<1>5. ASSUME NEW p \in Proc, Save(p) \/ FlushFails(p)
      PROVE  OneActive' /\ Kept' /\ (reported <= occurred)'
    BY <1>5 DEF Save, FlushFails, Saved, Difference, Reported
<1>6. ASSUME NEW p \in Proc, Fails(p) \/ Return(p) \/ Die(p)
      PROVE  OneActive' /\ Kept' /\ (reported <= occurred)'
    BY <1>6 DEF Fails, Return, Die
<1>7. CASE ServiceRestarts \/ StartedByHand
    BY <1>7 DEF ServiceRestarts, StartedByHand
<1>8. CASE Reboot
    BY <1>8 DEF Reboot
<1> QED
    BY <1>1, <1>2, <1>3, <1>4, <1>5, <1>6, <1>7, <1>8 DEF Next

(***************************************************************************)
(* No restart is reported twice (serviceGetNbRestart), whatever file       *)
(* fails, whoever dies or starts the unit by hand, as long as no two       *)
(* requests met and no file was misread.                                   *)
(***************************************************************************)
THEOREM ReportedOnce == Spec => []NoneTwice
<1>1. OnceInv => NoneTwice
    BY DEF OnceInv, NoneTwice
<1> QED
    BY <1>1, BoundedInitially, BoundedStep, OnceInitially, OnceStep, PTL DEF Spec

-----------------------------------------------------------------------------
\* What the file stands for.
Known == IF file >= 0 THEN file ELSE 0

\* The counter is what the file stands for, or a caller is about to save, and
\* the restarts since the last request.
ExactInv ==
    ~faulty /\ ~overlapped /\ ~byHand =>
        /\ OneActive
        /\ (\A p \in Proc : ~Active(p)) => file # Empty /\ nRestarts = Known + since
        /\ \A p \in Proc :
              /\ Active(p) => nRestarts = newValue[p] + since
              /\ pc[p] = "load" => file # Empty /\ newValue[p] = Known + expected[p]
              /\ pc[p] = "compare" => /\ file # Empty
                                      /\ oldValue[p] = Known
              /\ pc[p] \in {"compare", "save"} =>
                    newValue[p] = oldValue[p] + expected[p]
              /\ pc[p] = "done" /\ rc[p] = 0 => newValue[p] = expected[p]

LEMMA ExactInitially == Init => ExactInv
BY DEF Init, ExactInv, OneActive, Active, Known, Absent, Empty

LEMMA ExactStep == Bounded /\ ExactInv /\ [Next]_vars => ExactInv'
<1> SUFFICES ASSUME Bounded, ExactInv, [Next]_vars,
                    ~faulty', ~overlapped', ~byHand'
             PROVE  ExactInv'
    BY DEF ExactInv
<1> USE NbRestartAssumption DEF Bounded, Count, ExactInv, OneActive, Active,
        Known, Go, historyVars, exceptions, Absent, Empty
<1>1. CASE UNCHANGED vars
    BY <1>1 DEF vars
<1>2. ASSUME NEW p \in Proc, AskSystemd(p)
      PROVE  ExactInv'
  <2>1. /\ \A q \in Proc : pc[q] = "idle"
        /\ ~faulty /\ ~overlapped /\ ~byHand
      BY <1>2 DEF AskSystemd
  <2>2. file # Empty /\ nRestarts = Known + since
      BY <2>1
  <2>3. /\ pc' = [pc EXCEPT ![p] = "load"]
        /\ newValue' = [newValue EXCEPT ![p] = nRestarts]
        /\ expected' = [expected EXCEPT ![p] = since]
        /\ since' = 0
        /\ UNCHANGED <<nRestarts, file>>
      BY <1>2 DEF AskSystemd
  <2>4. \A q \in Proc \ {p} : pc'[q] = "idle"
      BY <2>1, <2>3
  <2>5. pc'[p] = "load" /\ newValue'[p] = nRestarts /\ expected'[p] = since
      BY <2>3
  <2> QED
      BY <2>2, <2>3, <2>4, <2>5
<1>3. ASSUME NEW p \in Proc, AskFails(p)
      PROVE  ExactInv'
    BY <1>3 DEF AskFails
<1>4. ASSUME NEW p \in Proc, Load(p)
      PROVE  ExactInv'
    BY <1>4 DEF Load
<1>5. ASSUME NEW p \in Proc, Compare(p)
      PROVE  ExactInv'
    BY <1>5 DEF Compare, MustSave
<1>6. ASSUME NEW p \in Proc, Save(p)
      PROVE  ExactInv'
    BY <1>6 DEF Save, Saved, Difference
<1>7. ASSUME NEW p \in Proc, Return(p)
      PROVE  ExactInv'
    BY <1>7 DEF Return
<1>8. ASSUME NEW p \in Proc, TakenForAbsent(p) \/ FlushFails(p) \/ Fails(p) \/ Die(p)
      PROVE  ExactInv'
    BY <1>8 DEF TakenForAbsent, FlushFails, Fails, Die
<1>9. CASE ServiceRestarts \/ StartedByHand
    BY <1>9 DEF ServiceRestarts, StartedByHand
<1>10. CASE Reboot
    BY <1>10 DEF Reboot
<1> QED
    BY <1>1, <1>2, <1>3, <1>4, <1>5, <1>6, <1>7, <1>8, <1>9, <1>10 DEF Next

(***************************************************************************)
(* The answer of a request is the number of restarts since the last one    *)
(* (libyocto.h 219), for any number of callers that come one after the     *)
(* other, while nothing fails and nobody starts the unit by hand.          *)
(***************************************************************************)
THEOREM AnswerIsExact == Spec => []CountIsExact
<1>1. ExactInv => CountIsExact
    BY DEF ExactInv, CountIsExact
<1> QED
    BY <1>1, BoundedInitially, BoundedStep, ExactInitially, ExactStep, PTL
       DEF Spec

(***************************************************************************)
(* Once a caller has left the file empty, no request saves a count before  *)
(* the next boot, unless the file cannot be opened.                        *)
(***************************************************************************)
THEOREM EmptyIsFinal == Spec => EmptyUntilBoot
<1> DEFINE Stays == Stuck => Stuck' \/ file' = Absent \/ misread'
<1>1. Bounded /\ [Next]_vars => [Stays]_vars
  <2> SUFFICES ASSUME Bounded, Next, Stuck
               PROVE  Stuck' \/ file' = Absent \/ misread'
      OBVIOUS
  <2> USE DEF Bounded, Stuck, Go, Absent, Empty, historyVars
  <2>1. ASSUME NEW p \in Proc,
               \/ AskSystemd(p) \/ AskFails(p) \/ Load(p)
               \/ Return(p) \/ Fails(p) \/ Die(p)
        PROVE  Stuck'
      BY <2>1 DEF AskSystemd, AskFails, Load, Return, Fails, Die
  <2>2. ASSUME NEW p \in Proc, Compare(p) \/ Save(p) \/ FlushFails(p)
        PROVE  FALSE
      BY <2>2 DEF Compare, Save, FlushFails
  <2>3. ASSUME NEW p \in Proc, TakenForAbsent(p)
        PROVE  misread'
      BY <2>3 DEF TakenForAbsent
  <2>4. CASE ServiceRestarts \/ StartedByHand
      BY <2>4 DEF ServiceRestarts, StartedByHand
  <2>5. CASE Reboot
      BY <2>5 DEF Reboot
  <2> QED
      BY <2>1, <2>2, <2>3, <2>4, <2>5 DEF Next
<1> QED
    BY <1>1, BoundedInitially, BoundedStep, PTL DEF Spec, EmptyUntilBoot

=============================================================================
