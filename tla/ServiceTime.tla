----------------------------- MODULE ServiceTime -----------------------------
(***************************************************************************)
(* serviceSetTime of service.c: the clock is set through timedated, which  *)
(* refuses while NTP is on; so NTP is turned off before and on again after.*)
(* Each call on the bus is a step; several processes may set the time.     *)
(***************************************************************************)
EXTENDS Naturals

CONSTANTS
    Proc,
    Timestamp,   \* the timestamps that callers give
    Accepted,    \* those that timedated takes for a date
    CanFail      \* calls on the bus may fail, and callers may die

ASSUME TimeAssumption ==
    /\ Accepted \subseteq Timestamp
    /\ CanFail \in BOOLEAN

VARIABLES
    ntp,          \* whether timedated keeps the clock synchronised
    configured,   \* what the administrator has asked for, and may change
    pc,
    timestamp,    \* the argument of the call
    ntpEnabled,   \* the local variable
    dirty,        \* whether the local sd_bus_error holds an error
    rc,
    mine,         \* whether this call has set the clock
    faulty        \* whether, since the administrator last set NTP while nobody
                  \*   set the time, NTP may have been lost: a timestamp was no
                  \*   date, a call failed once NTP was to be off, its caller
                  \*   died, or the administrator set NTP during a call

callVars == <<pc, timestamp, ntpEnabled, dirty, rc, mine>>
timeVars == <<ntp, configured, callVars, faulty>>

Never == "never"

Location == {"idle", "getNtp", "disable", "setTime", "reenable", "done"}

TimeTypeOK ==
    /\ ntp \in BOOLEAN
    /\ configured \in BOOLEAN
    /\ pc \in [Proc -> Location]
    /\ timestamp \in [Proc -> Timestamp \cup {Never}]
    /\ ntpEnabled \in [Proc -> BOOLEAN]
    /\ dirty \in [Proc -> BOOLEAN]
    /\ rc \in [Proc -> {"0", "-1"}]
    /\ mine \in [Proc -> BOOLEAN]
    /\ faulty \in BOOLEAN

Init ==
    /\ ntp \in BOOLEAN
    /\ configured = ntp
    /\ pc = [p \in Proc |-> "idle"]
    /\ timestamp = [p \in Proc |-> Never]
    /\ ntpEnabled = [p \in Proc |-> FALSE]
    /\ dirty = [p \in Proc |-> FALSE]
    /\ rc = [p \in Proc |-> "0"]
    /\ mine = [p \in Proc |-> FALSE]
    /\ faulty = FALSE

Go(p, loc) == pc' = [pc EXCEPT ![p] = loc]

-----------------------------------------------------------------------------
Begin(p, t) ==
    /\ pc[p] = "idle"
    /\ timestamp' = [timestamp EXCEPT ![p] = t]
    /\ Go(p, "getNtp")
    /\ UNCHANGED <<ntp, configured, ntpEnabled, dirty, rc, mine, faulty>>

\* _serviceGetNtp.
GetNtp(p) ==
    /\ pc[p] = "getNtp"
    /\ ntpEnabled' = [ntpEnabled EXCEPT ![p] = ntp]
    /\ Go(p, IF ntp THEN "disable" ELSE "setTime")
    /\ UNCHANGED <<ntp, configured, timestamp, dirty, rc, mine, faulty>>

GetNtpFails(p) ==
    /\ CanFail
    /\ pc[p] = "getNtp"
    /\ rc' = [rc EXCEPT ![p] = "-1"]
    /\ Go(p, "done")
    /\ UNCHANGED <<ntp, configured, timestamp, ntpEnabled, dirty, mine, faulty>>

\* _serviceSetNtp(..., 0).
Disable(p) ==
    /\ pc[p] = "disable"
    /\ ntp' = FALSE
    /\ Go(p, "setTime")
    /\ UNCHANGED <<configured, timestamp, ntpEnabled, dirty, rc, mine, faulty>>

\* The clock is left alone when NTP could not be turned off (or when the
\* answer was lost), and NTP is turned on again.
DisableFails(p) ==
    /\ CanFail
    /\ pc[p] = "disable"
    /\ ntp' \in {ntp, FALSE}
    /\ dirty' = [dirty EXCEPT ![p] = TRUE]
    /\ rc' = [rc EXCEPT ![p] = "-1"]
    /\ Go(p, "reenable")
    /\ faulty' = TRUE
    /\ UNCHANGED <<configured, timestamp, ntpEnabled, mine>>

\* NTP is not turned on again.
AfterSetTimeDone(p) == "done"

\* NTP is turned on whatever it was before.
AfterSetTimeAlways(p) == "reenable"

AfterSetTime(p) == IF ntpEnabled[p] THEN "reenable" ELSE "done"

MarkSet(p) == timestamp[p] \in Accepted /\ mine' = [mine EXCEPT ![p] = TRUE]

\* timedated sets the clock and the rtc.
SetTime(p) ==
    /\ pc[p] = "setTime"
    /\ ~ntp
    /\ MarkSet(p)
    /\ Go(p, AfterSetTime(p))
    /\ UNCHANGED <<ntp, configured, timestamp, ntpEnabled, dirty, rc, faulty>>

\* rc of SetTime is overwritten by what follows.
RefusedUnnoticed(p) == rc

\* A positive error number is returned.
RefusedPositive(p) == [rc EXCEPT ![p] = "errno"]

Refused(p) == [rc EXCEPT ![p] = "-1"]

\* It refuses: NTP is on (another process turned it on), or the timestamp is
\* no date; or the call fails, and the clock may be set all the same.
SetTimeFails(p) ==
    /\ pc[p] = "setTime"
    /\ \/ ntp /\ UNCHANGED <<mine, faulty>>
       \/ timestamp[p] \notin Accepted /\ UNCHANGED mine /\ faulty' = TRUE
       \/ /\ CanFail
          /\ UNCHANGED mine \/ (~ntp /\ MarkSet(p))
          /\ faulty' = TRUE
    /\ dirty' = [dirty EXCEPT ![p] = TRUE]
    /\ rc' = Refused(p)
    /\ Go(p, AfterSetTime(p))
    /\ UNCHANGED <<ntp, configured, timestamp, ntpEnabled>>

\* sd_bus_call refuses to store an error over another one (-EINVAL): when an
\* error is there, the call is not sent.
NotSent(p) == dirty[p]

\* _serviceSetNtp(..., 1): its result is not looked at.
Reenable(p) ==
    /\ pc[p] = "reenable"
    /\ ntp' = IF NotSent(p) THEN ntp ELSE TRUE
    /\ Go(p, "done")
    /\ UNCHANGED <<configured, timestamp, ntpEnabled, dirty, rc, mine, faulty>>

ReenableFails(p) ==
    /\ CanFail
    /\ pc[p] = "reenable"
    /\ ntp' \in {ntp, ntp \/ ~NotSent(p)}
    /\ Go(p, "done")
    /\ faulty' = TRUE
    /\ UNCHANGED <<configured, timestamp, ntpEnabled, dirty, rc, mine>>

Leave(p) ==
    /\ Go(p, "idle")
    /\ timestamp' = [timestamp EXCEPT ![p] = Never]
    /\ ntpEnabled' = [ntpEnabled EXCEPT ![p] = FALSE]
    /\ dirty' = [dirty EXCEPT ![p] = FALSE]
    /\ rc' = [rc EXCEPT ![p] = "0"]
    /\ mine' = [mine EXCEPT ![p] = FALSE]
    /\ UNCHANGED <<ntp, configured>>

Return(p) ==
    /\ pc[p] = "done"
    /\ Leave(p)
    /\ UNCHANGED faulty

Die(p) ==
    /\ CanFail
    /\ pc[p] \notin {"idle", "done"}
    /\ Leave(p)
    /\ faulty' = TRUE

\* The administrator turns NTP on or off, in timedated.  A call in progress may
\* undo it: it puts back what it read.
Administrator(on) ==
    /\ configured' = on
    /\ ntp' = on
    /\ faulty' = \E p \in Proc : pc[p] \notin {"idle", "done"}
    /\ UNCHANGED callVars

Next ==
    \/ \E p \in Proc :
          \/ \E t \in Timestamp : Begin(p, t)
          \/ GetNtp(p)
          \/ GetNtpFails(p)
          \/ Disable(p)
          \/ DisableFails(p)
          \/ SetTime(p)
          \/ SetTimeFails(p)
          \/ Reenable(p)
          \/ ReenableFails(p)
          \/ Return(p)
          \/ Die(p)
    \/ \E on \in BOOLEAN : Administrator(on)

Spec == Init /\ [][Next]_timeVars

-----------------------------------------------------------------------------
(* Properties.                                                             *)

(***************************************************************************)
(* "Sets the system time ... returns 0 if ok, -1 if error" (libyocto.h,    *)
(* lines 228-230): a call returns 0 only when it has set the clock, in the *)
(* presence of other callers that turn NTP off and on under its feet.      *)
(***************************************************************************)
ZeroMeansSet ==
    \A p \in Proc : pc[p] = "done" /\ rc[p] = "0" => mine[p]

(***************************************************************************)
(* Once NTP is off and no call in progress has seen it on, it stays off    *)
(* until the administrator turns it on: calls turn it on only where they,  *)
(* or a call they overlap with, found it on (lines 293-297, 321-325).      *)
(* This is as it should be where the administrator has turned it off, and  *)
(* why a caller that dies between the two leaves it off for good: no later *)
(* call repairs it.                                                        *)
(***************************************************************************)
OffStaysOff ==
    [][~ntp /\ (\A p \in Proc : ~ntpEnabled[p]) =>
          \/ ~ntp' /\ (\A p \in Proc : ~ntpEnabled'[p])
          \/ Administrator(TRUE)]_timeVars

(***************************************************************************)
(* When nobody is setting the time, NTP is what the administrator asked    *)
(* for, however the callers have interleaved and refused each other:       *)
(* "Reeanable it" (line 323).  It is not when a timestamp was refused or a *)
(* call failed: the error it left makes line 324 fail, unnoticed.          *)
(***************************************************************************)
NtpKept == ~faulty /\ (\A p \in Proc : pc[p] = "idle") => ntp = configured

-----------------------------------------------------------------------------
(***************************************************************************)
(* The inductive invariant behind the properties (ServiceTimeProofs).      *)
(* CallKept: what the local variables of a call hold where it is.          *)
(* SomebodyPutsBack: where NTP is off but should be on, a call in progress *)
(* has turned it off, and nothing has gone wrong in it so far.             *)
(***************************************************************************)
CallKept ==
    \A p \in Proc :
        /\ pc[p] \notin {"reenable", "done"} => ~dirty[p] /\ rc[p] = "0"
        /\ pc[p] \in {"idle", "getNtp"} => ~ntpEnabled[p]
        /\ pc[p] \in {"disable", "reenable"} => ntpEnabled[p]
        /\ pc[p] \in {"reenable", "done"} /\ rc[p] = "0" => mine[p]

PutsBack(p) == pc[p] \in {"setTime", "reenable"} /\ ntpEnabled[p] /\ ~dirty[p]

SomebodyPutsBack ==
    ~faulty =>
        IF configured
        THEN ntp \/ \E p \in Proc : PutsBack(p)
        ELSE ~ntp /\ \A p \in Proc : pc[p] # "done" => ~ntpEnabled[p]

TimeInv == TimeTypeOK /\ CallKept /\ SomebodyPutsBack

=============================================================================
