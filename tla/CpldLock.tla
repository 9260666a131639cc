------------------------------ MODULE CpldLock ------------------------------
(***************************************************************************)
(* The lock that serialises the accesses of several processes to the CPLD  *)
(* of the RBOX630: cpldRboxOpen, cpldRboxClose and _initShmLock of         *)
(* rbox/cpld_rbox.c.                                                       *)
(*                                                                         *)
(* The lock is a pthread mutex in a System V shared memory segment, next   *)
(* to a flag that says whether the mutex was set up.  Nobody owns the      *)
(* set-up: every process that opens the device for the first time reads    *)
(* the flag and, when it is not 1, initialises the mutex itself.           *)
(*                                                                         *)
(* A process is single-threaded here: shmd and shmInitOk are globals of    *)
(* the library.  Each access to the shared segment is a step of its own;   *)
(* the local instructions around it belong to the same step.               *)
(***************************************************************************)

CONSTANTS
    Proc,            \* the processes linked with the library
    PthreadCanFail   \* whether a pthread call may return an error number

(***************************************************************************)
(* The other values of the mutex: never initialised (the kernel hands out  *)
(* a zeroed segment), unlocked, and locked by a process that died before   *)
(* it unlocked it, or that could not unlock it.                            *)
(***************************************************************************)
NotAProc == {"none", "free", "orphan"}

ASSUME LockAssumption ==
    /\ Proc \cap NotAProc = {}
    /\ PthreadCanFail \in BOOLEAN

VARIABLES
    flag,        \* ShmData.flag, in the shared segment
    mutex,       \* ShmData.mutex: a member of NotAProc, or the process that locked it
    pc,          \* where each process is in cpldRboxOpen
    shmd,        \* the attachment pointer of each process
    shmInitOk    \* whether the process has completed _initShmLock

lockVars == <<flag, mutex, pc, shmd, shmInitOk>>

(***************************************************************************)
(* "idle": outside; "checkFlag", "initMutex", "setFlag": in _initShmLock;  *)
(* "attach", "lock": back in cpldRboxOpen; "held": cpldRboxOpen returned 0 *)
(* and the caller has not called cpldRboxClose yet.                        *)
(***************************************************************************)
Location == {"idle", "checkFlag", "initMutex", "setFlag",
             "attach", "lock", "held"}

\* NULL, a valid address, or the (void * )-1 that a failed shmat returns.
Pointer == {"null", "mapped", "failed"}

LockTypeOK ==
    /\ flag \in {0, 1}
    /\ mutex \in Proc \cup NotAProc
    /\ pc \in [Proc -> Location]
    /\ shmd \in [Proc -> Pointer]
    /\ shmInitOk \in [Proc -> BOOLEAN]

LockInit ==
    /\ flag = 0
    /\ mutex = "none"
    /\ pc = [p \in Proc |-> "idle"]
    /\ shmd = [p \in Proc |-> "null"]
    /\ shmInitOk = [p \in Proc |-> FALSE]

-----------------------------------------------------------------------------
(* The steps of cpldRboxOpen.                                              *)

GoTo(p, loc) == pc' = [pc EXCEPT ![p] = loc]

SetShmd(p, ptr) == shmd' = [shmd EXCEPT ![p] = ptr]

\* open() and ioctl() succeed.
OpenDevice(p) ==
    /\ pc[p] = "idle"
    /\ GoTo(p, IF shmInitOk[p] THEN "attach" ELSE "checkFlag")
    /\ UNCHANGED <<flag, mutex, shmd, shmInitOk>>

\* shmget or shmat returns an error: cpldRboxOpen returns -1, and a failed
\* shmat leaves its error value in shmd.
ShmFails(p) ==
    /\ pc[p] \in {"checkFlag", "attach"}
    /\ \/ pc[p] = "checkFlag" /\ UNCHANGED shmd
       \/ SetShmd(p, "failed")
    /\ GoTo(p, "idle")
    /\ UNCHANGED <<flag, mutex, shmInitOk>>

\* The mutations of this module carry a name ending in what they get wrong;
\* they are no part of the model.
CheckFlagIgnored(p) ==
    /\ pc[p] = "checkFlag"
    /\ SetShmd(p, "mapped")
    /\ GoTo(p, "initMutex")
    /\ UNCHANGED <<flag, mutex, shmInitOk>>

\* The segment is attached and its flag read: a set-up mutex is taken as it
\* is, the segment is detached and _initShmLock is done for this process.
CheckFlag(p) ==
    /\ pc[p] = "checkFlag"
    /\ \/ /\ flag = 1
          /\ SetShmd(p, "null")
          /\ shmInitOk' = [shmInitOk EXCEPT ![p] = TRUE]
          /\ GoTo(p, "attach")
       \/ /\ flag # 1
          /\ SetShmd(p, "mapped")
          /\ GoTo(p, "initMutex")
          /\ UNCHANGED shmInitOk
    /\ UNCHANGED <<flag, mutex>>

MutexInit(p) ==
    /\ pc[p] = "initMutex"
    /\ mutex' = "free"
    /\ GoTo(p, "setFlag")
    /\ UNCHANGED <<flag, shmd, shmInitOk>>

\* shmInitOk set whatever the result is.
InitFailsMarked(p) ==
    /\ PthreadCanFail
    /\ pc[p] = "initMutex"
    /\ SetShmd(p, "null")
    /\ shmInitOk' = [shmInitOk EXCEPT ![p] = TRUE]
    /\ GoTo(p, "held")
    /\ UNCHANGED <<flag, mutex>>

\* pthread_mutexattr_init, _setpshared or pthread_mutex_init returns a
\* positive error number.  _initShmLock returns it; cpldRboxOpen skips the
\* lock because the number is not 0, and returns 0 because it is not negative.
InitFails(p) ==
    /\ PthreadCanFail
    /\ pc[p] = "initMutex"
    /\ SetShmd(p, "null")
    /\ GoTo(p, "held")
    /\ UNCHANGED <<flag, mutex, shmInitOk>>

\* A flag that is not the one the other processes test.
SetFlagOther(p) ==
    /\ pc[p] = "setFlag"
    /\ flag' = 2
    /\ SetShmd(p, "null")
    /\ shmInitOk' = [shmInitOk EXCEPT ![p] = TRUE]
    /\ GoTo(p, "attach")
    /\ UNCHANGED mutex

SetFlag(p) ==
    /\ pc[p] = "setFlag"
    /\ flag' = 1
    /\ SetShmd(p, "null")
    /\ shmInitOk' = [shmInitOk EXCEPT ![p] = TRUE]
    /\ GoTo(p, "attach")
    /\ UNCHANGED mutex

Attach(p) ==
    /\ pc[p] = "attach"
    /\ SetShmd(p, "mapped")
    /\ GoTo(p, "lock")
    /\ UNCHANGED <<flag, mutex, shmInitOk>>

\* Going on when the mutex is busy, as with an unchecked trylock.
LockNotAwaited(p) ==
    /\ pc[p] = "lock"
    /\ mutex' = IF mutex = "free" THEN p ELSE mutex
    /\ GoTo(p, "held")
    /\ UNCHANGED <<flag, shmd, shmInitOk>>

\* pthread_mutex_lock blocks until the mutex is free.
Lock(p) ==
    /\ pc[p] = "lock"
    /\ mutex = "free"
    /\ mutex' = p
    /\ GoTo(p, "held")
    /\ UNCHANGED <<flag, shmd, shmInitOk>>

\* pthread_mutex_lock returns a positive error number: the segment is
\* detached, and cpldRboxOpen returns 0.
LockFails(p) ==
    /\ PthreadCanFail
    /\ pc[p] = "lock"
    /\ SetShmd(p, "null")
    /\ GoTo(p, "held")
    /\ UNCHANGED <<flag, mutex, shmInitOk>>

-----------------------------------------------------------------------------
(* cpldRboxClose, and the death of a process.                              *)

\* Unlocked, when cpldRboxClose forgets the pthread_mutex_unlock.
UnlockedForgotten(p) == mutex

\* What pthread_mutex_unlock leaves: it does not check who locked a mutex of
\* the default type.
Unlocked(p) == IF shmd[p] # "null" THEN "free" ELSE mutex

Close(p) ==
    /\ pc[p] = "held"
    /\ mutex' = Unlocked(p)
    /\ SetShmd(p, "null")
    /\ GoTo(p, "idle")
    /\ UNCHANGED <<flag, shmInitOk>>

\* pthread_mutex_unlock returns a positive error number: the segment is
\* detached all the same, and nobody unlocks the mutex any more.
UnlockFails(p) ==
    /\ PthreadCanFail
    /\ pc[p] = "held"
    /\ shmd[p] # "null"
    /\ mutex' = IF mutex = p THEN "orphan" ELSE mutex
    /\ SetShmd(p, "null")
    /\ GoTo(p, "idle")
    /\ UNCHANGED <<flag, shmInitOk>>

\* The process exits or is killed anywhere, and may be started again.  The
\* segment outlives it; a mutex it held stays locked, for it is not robust.
Crash(p) ==
    /\ mutex' = IF mutex = p THEN "orphan" ELSE mutex
    /\ shmInitOk' = [shmInitOk EXCEPT ![p] = FALSE]
    /\ SetShmd(p, "null")
    /\ GoTo(p, "idle")
    /\ UNCHANGED flag

-----------------------------------------------------------------------------
(* What a caller does by itself once it has started to open the device.    *)
LockStep(p) ==
    \/ CheckFlag(p)
    \/ MutexInit(p)
    \/ SetFlag(p)
    \/ Attach(p)
    \/ Lock(p)
    \/ Close(p)

LockNext ==
    \E p \in Proc :
        \/ OpenDevice(p)
        \/ LockStep(p)
        \/ ShmFails(p)
        \/ InitFails(p)
        \/ LockFails(p)
        \/ UnlockFails(p)
        \/ Crash(p)

LockSpec == LockInit /\ [][LockNext]_lockVars

(***************************************************************************)
(* The set-up is sound only when two processes do not run it at the same   *)
(* time, as when one program opens the device early in the boot.  This is  *)
(* an assumption on the deployment; nothing in the code enforces it.       *)
(***************************************************************************)
InSetup(p) == pc[p] \in {"initMutex", "setFlag"}

SetupsDoNotOverlap ==
    \A p, q \in Proc : InSetup(p) /\ InSetup(q) => p = q

BootSpec == LockInit /\ [][LockNext /\ SetupsDoNotOverlap']_lockVars

\* A process that is running keeps running: the scheduler is fair to each one,
\* and the section between open and close is a bounded number of transfers.
FairBootSpec ==
    /\ BootSpec
    /\ \A p \in Proc : WF_lockVars(LockStep(p) /\ SetupsDoNotOverlap')

-----------------------------------------------------------------------------
(* Properties.                                                             *)

\* p is between its pthread_mutex_lock and its pthread_mutex_unlock.
Holds(p) == pc[p] = "held" /\ shmd[p] = "mapped"

(***************************************************************************)
(* No two processes are inside the lock at once, whatever calls failed and *)
(* whichever processes died and came back (cpldRboxOpen, lines 128-134).   *)
(***************************************************************************)
MutualExclusion == \A p, q \in Proc : Holds(p) /\ Holds(q) => p = q

(***************************************************************************)
(* A process for which cpldRboxOpen returned 0 is alone with the device,   *)
(* which is what its callers rely on (cpld_rbox.h, lines 20-24).           *)
(***************************************************************************)
ExclusiveAccess ==
    \A p, q \in Proc : pc[p] = "held" /\ pc[q] = "held" => p = q

(***************************************************************************)
(* When cpldRboxOpen returns 0 the lock is taken: "Opens and locks the     *)
(* cpld device. returns 0 if ok, -1 if error" (cpld_rbox.h, lines 20-24).  *)
(***************************************************************************)
OpenMeansLocked == \A p \in Proc : pc[p] = "held" => Holds(p)

(***************************************************************************)
(* The pointers and the mutex that are used are good ones: a process that  *)
(* is past _initShmLock finds an initialised mutex, even if the process    *)
(* that was setting it up died half-way, and cpldRboxClose never follows   *)
(* the error value that a failed shmat left in shmd.                       *)
(***************************************************************************)
MutexUsable ==
    \A p \in Proc :
        /\ (pc[p] \in {"attach", "lock"} \/ Holds(p)) => mutex # "none"
        /\ pc[p] \in {"lock", "held"} => shmd[p] # "failed"

(***************************************************************************)
(* A lock whose holder died, or failed to unlock it, is never taken again: *)
(* no later set-up replaces it, and every other process blocks in          *)
(* cpldRboxOpen until the next boot.                                       *)
(***************************************************************************)
OrphanIsForever == [][mutex = "orphan" => mutex' = "orphan"]_lockVars

(***************************************************************************)
(* The lock is not lost: when a process waits in cpldRboxOpen for ever, it *)
(* is because the mutex is released and taken again by others, again and   *)
(* again, or because a holder died.  No single process is promised its     *)
(* turn, for a pthread mutex is not fair.                                  *)
(***************************************************************************)
LockMovesOn ==
    \A p \in Proc :
        [](mutex # "orphan") /\ <>[](pc[p] = "lock")
            => []<>(mutex = "free") /\ []<>(\E q \in Proc : Holds(q))

-----------------------------------------------------------------------------
(***************************************************************************)
(* The inductive invariant behind the safety properties (CpldRboxProofs).  *)
(* FlagKept: the flag is only seen as 1 once the mutex is initialised, and *)
(* a process in the set-up or past it knows the value of the flag; HoldKept *)
(* ties the mutex to the process that is inside.                           *)
(***************************************************************************)
PastSetup(p) == shmInitOk[p] \/ pc[p] \in {"attach", "lock"} \/ Holds(p)

FlagKept ==
    /\ flag = 1 => mutex # "none"
    /\ flag = 0 => mutex # "orphan"
    /\ \A p \in Proc :
          /\ InSetup(p) => flag = 0
          /\ pc[p] = "setFlag" => mutex # "none"
          /\ PastSetup(p) => flag = 1

HoldKept ==
    \A p \in Proc :
        /\ pc[p] \in {"initMutex", "setFlag", "lock"} => shmd[p] = "mapped"
        /\ pc[p] = "held" => shmd[p] # "failed"
        /\ Holds(p) <=> mutex = p

LockInv == LockTypeOK /\ SetupsDoNotOverlap /\ FlagKept /\ HoldKept

=============================================================================
