--------------------------- MODULE CpldRboxProofs ---------------------------
(***************************************************************************)
(* Theorems about the lock of the CPLD and about its clients, and their    *)
(* proofs.                                                                 *)
(*                                                                         *)
(* First the safety of the lock, for any set of processes: under the       *)
(* assumption on the deployment (BootSpec) LockInv is inductive and        *)
(* implies mutual exclusion.  Then its clients: they use the lock as       *)
(* cpld_rbox.c offers it, and what it protects is the selected bank, and   *)
(* the byte between its read and its write.  With it each call is atomic,  *)
(* as BoardIO says.                                                        *)
(***************************************************************************)
EXTENDS CpldRbox, TLAPS

-----------------------------------------------------------------------------
(* The lock.                                                               *)

(***************************************************************************)
(* LockInv holds when the segment was just created, and no process         *)
(* attached to it yet (_initShmLock, lines 43-50).                         *)
(***************************************************************************)
LEMMA InitEstablishes == LockInit => LockInv
<1> SUFFICES ASSUME LockInit PROVE LockInv
    OBVIOUS
<1> USE LockAssumption DEF LockInit, NotAProc
<1>1. LockTypeOK
    BY DEF LockTypeOK, Location, Pointer
<1>2. SetupsDoNotOverlap
    BY DEF SetupsDoNotOverlap, InSetup
<1>3. FlagKept
    BY DEF FlagKept, PastSetup, InSetup, Holds
<1>4. HoldKept
    BY DEF HoldKept, Holds
<1> QED
    BY <1>1, <1>2, <1>3, <1>4 DEF LockInv

(***************************************************************************)
(* Every step of cpldRboxOpen and cpldRboxClose and every death of a       *)
(* process preserves LockInv, when two set-ups do not run at once.         *)
(***************************************************************************)
LEMMA StepPreserves ==
    LockInv /\ [LockNext /\ SetupsDoNotOverlap']_lockVars => LockInv'
<1> SUFFICES ASSUME LockInv, [LockNext /\ SetupsDoNotOverlap']_lockVars
             PROVE LockInv'
    OBVIOUS
<1> USE LockAssumption DEF NotAProc, LockInv, LockTypeOK, FlagKept, HoldKept,
                           PastSetup, InSetup, Holds, Location, Pointer
<1>1. CASE UNCHANGED lockVars
    BY <1>1 DEF lockVars, SetupsDoNotOverlap
<1>2. ASSUME LockNext, SetupsDoNotOverlap'
      PROVE LockInv'
  <2>1. PICK p \in Proc :
            \/ OpenDevice(p)
            \/ LockStep(p)
            \/ ShmFails(p)
            \/ InitFails(p)
            \/ LockFails(p)
            \/ UnlockFails(p)
            \/ Crash(p)
      BY <1>2 DEF LockNext
  <2> USE <1>2 DEF GoTo, SetShmd
  <2>2. CASE OpenDevice(p)
      BY <2>2 DEF OpenDevice
  <2>3. CASE ShmFails(p)
      BY <2>3 DEF ShmFails
  <2>4. CASE CheckFlag(p)
    <3>1. CASE flag = 1
        BY <2>4, <3>1 DEF CheckFlag
    <3>2. CASE flag # 1
      <4>1. LockTypeOK' /\ SetupsDoNotOverlap'
          BY <2>4, <3>2 DEF CheckFlag
      <4>2. FlagKept'
          BY <2>4, <3>2 DEF CheckFlag
      <4>3. HoldKept'
          BY <2>4, <3>2 DEF CheckFlag
      <4> QED
          BY <4>1, <4>2, <4>3
    <3> QED
        BY <3>1, <3>2
  <2>5. CASE MutexInit(p)
      BY <2>5 DEF MutexInit
  <2>6. CASE SetFlag(p)
      BY <2>6 DEF SetFlag, SetupsDoNotOverlap
  <2>7. CASE Attach(p)
      BY <2>7 DEF Attach
  <2>8. CASE Lock(p)
      BY <2>8 DEF Lock
  <2>9. CASE Close(p)
      BY <2>9 DEF Close, Unlocked
  <2>10. CASE InitFails(p)
      BY <2>10 DEF InitFails
  <2>11. CASE LockFails(p)
      BY <2>11 DEF LockFails
  <2>12. CASE Crash(p)
      BY <2>12 DEF Crash
  <2>13. CASE UnlockFails(p)
      BY <2>13 DEF UnlockFails
  <2> QED
      BY <2>1, <2>2, <2>3, <2>4, <2>5, <2>6, <2>7, <2>8, <2>9, <2>10, <2>11,
         <2>12, <2>13 DEF LockStep
<1> QED
    BY <1>1, <1>2

(***************************************************************************)
(* The invariant in every reachable state of cpldRboxOpen's callers.       *)
(***************************************************************************)
THEOREM Invariance == BootSpec => []LockInv
<1>1. LockInit => LockInv
    BY InitEstablishes
<1>2. LockInv /\ [LockNext /\ SetupsDoNotOverlap']_lockVars => LockInv'
    BY StepPreserves
<1> QED
    BY <1>1, <1>2, PTL DEF BootSpec

-----------------------------------------------------------------------------
(* What follows from the invariant.                                        *)

(***************************************************************************)
(* The variables of the lock have their types (cpld_rbox.c, lines 23-31).  *)
(***************************************************************************)
THEOREM TypeCorrect == BootSpec => []LockTypeOK
<1>1. LockInv => LockTypeOK
    BY DEF LockInv
<1> QED
    BY <1>1, Invariance, PTL

(***************************************************************************)
(* No two processes are inside the lock at once, whatever pthread call     *)
(* fails and whichever process dies (cpldRboxOpen, cpldRboxClose).         *)
(***************************************************************************)
THEOREM Safety == BootSpec => []MutualExclusion
<1>1. LockInv => MutualExclusion
    BY DEF LockInv, HoldKept, MutualExclusion
<1> QED
    BY <1>1, Invariance, PTL

(***************************************************************************)
(* cpldRboxOpen and cpldRboxClose use neither a mutex that nobody          *)
(* initialised nor the error value of shmat.                               *)
(***************************************************************************)
THEOREM Usable == BootSpec => []MutexUsable
<1>1. LockInv => MutexUsable
    BY DEF LockInv, FlagKept, HoldKept, PastSetup, MutexUsable
<1> QED
    BY <1>1, Invariance, PTL

(***************************************************************************)
(* The mutex of a process that died inside the lock is never taken,        *)
(* released or replaced again.                                             *)
(***************************************************************************)
THEOREM Orphaned == BootSpec => OrphanIsForever
<1>1. LockInv /\ [LockNext /\ SetupsDoNotOverlap']_lockVars
      => [mutex = "orphan" => mutex' = "orphan"]_lockVars
  <2> SUFFICES ASSUME LockInv, LockNext, mutex = "orphan"
               PROVE mutex' = "orphan"
      BY DEF lockVars
  <2> USE LockAssumption DEF NotAProc, LockInv, LockTypeOK
  <2>1. PICK p \in Proc :
            \/ OpenDevice(p)
            \/ LockStep(p)
            \/ ShmFails(p)
            \/ InitFails(p)
            \/ LockFails(p)
            \/ UnlockFails(p)
            \/ Crash(p)
      BY DEF LockNext
  <2>2. CASE MutexInit(p)
      BY <2>2 DEF MutexInit, FlagKept, InSetup
  <2>3. CASE Close(p)
    <3>1. p # "orphan" /\ shmd[p] \in Pointer
        OBVIOUS
    <3>2. ~Holds(p) /\ pc[p] = "held" /\ shmd[p] # "failed"
        BY <2>3, <3>1 DEF Close, HoldKept
    <3>3. shmd[p] = "null"
        BY <3>1, <3>2 DEF Holds, Pointer
    <3> QED
        BY <2>3, <3>3 DEF Close, Unlocked
  <2>4. CASE Lock(p) \/ UnlockFails(p) \/ Crash(p)
      BY <2>4 DEF Lock, UnlockFails, Crash
  <2>5. CASE \/ OpenDevice(p)
             \/ CheckFlag(p)
             \/ SetFlag(p)
             \/ Attach(p)
             \/ ShmFails(p)
             \/ InitFails(p)
             \/ LockFails(p)
      BY <2>5 DEF OpenDevice, CheckFlag, SetFlag, Attach, ShmFails,
                  InitFails, LockFails
  <2> QED
      BY <2>1, <2>2, <2>3, <2>4, <2>5 DEF LockStep
<1> QED
    BY <1>1, Invariance, PTL DEF BootSpec, OrphanIsForever

(***************************************************************************)
(* When no pthread call fails, a process for which cpldRboxOpen returned 0 *)
(* is alone with the device.                                               *)
(***************************************************************************)
THEOREM Exclusion ==
    ASSUME ~PthreadCanFail
    PROVE  BootSpec => []ExclusiveAccess
<1>1. LockInit => OpenMeansLocked
    BY DEF LockInit, OpenMeansLocked
<1>2. /\ LockInv
      /\ OpenMeansLocked
      /\ [LockNext /\ SetupsDoNotOverlap']_lockVars
      => OpenMeansLocked'
  <2> SUFFICES ASSUME LockInv, OpenMeansLocked,
                      [LockNext /\ SetupsDoNotOverlap']_lockVars
               PROVE OpenMeansLocked'
      OBVIOUS
  <2> USE DEF OpenMeansLocked, Holds, LockInv, LockTypeOK
  <2>1. CASE UNCHANGED lockVars
      BY <2>1 DEF lockVars
  <2>2. CASE LockNext
    <3>1. PICK p \in Proc :
              \/ OpenDevice(p)
              \/ LockStep(p)
              \/ ShmFails(p)
              \/ Crash(p)
        BY <2>2 DEF LockNext, InitFails, LockFails, UnlockFails
    <3> USE DEF GoTo, SetShmd
    <3>2. CASE Lock(p)
        BY <3>2 DEF Lock, HoldKept
    <3>3. CASE OpenDevice(p) \/ ShmFails(p) \/ Crash(p)
        BY <3>3 DEF OpenDevice, ShmFails, Crash
    <3>4. CASE CheckFlag(p) \/ MutexInit(p) \/ SetFlag(p) \/ Attach(p)
        BY <3>4 DEF CheckFlag, MutexInit, SetFlag, Attach
    <3>5. CASE Close(p)
        BY <3>5 DEF Close
    <3> QED
        BY <3>1, <3>2, <3>3, <3>4, <3>5 DEF LockStep
  <2> QED
      BY <2>1, <2>2
<1>3. LockInv /\ OpenMeansLocked => ExclusiveAccess
    BY DEF LockInv, HoldKept, OpenMeansLocked, ExclusiveAccess
<1> QED
    BY <1>1, <1>2, <1>3, Invariance, PTL DEF BootSpec

-----------------------------------------------------------------------------
(* What com_rbox.c, gpio_rbox.c and led_rbox.c do to the lock.             *)

(***************************************************************************)
(* Every step of a client is a step of cpldRboxOpen or cpldRboxClose, or   *)
(* leaves the lock alone.                                                  *)
(***************************************************************************)
LEMMA StepIsLockStep ==
    [Next /\ SetupsDoNotOverlap']_vars
        => [LockNext /\ SetupsDoNotOverlap']_lockVars
<1> SUFFICES ASSUME Next, SetupsDoNotOverlap'
             PROVE  [LockNext]_lockVars
    BY DEF vars
<1>1. PICK p \in Proc :
          \/ \E r \in Request : Invoke(p, r)
          \/ OpenFails(p)
          \/ Open(p)
          \/ Select(p)
          \/ Read(p)
          \/ Write(p)
          \/ TransferFails(p)
          \/ CloseDevice(p)
          \/ Return(p)
          \/ Die(p)
    BY DEF Next
<1>2. CASE \/ \E r \in Request : Invoke(p, r)
           \/ Select(p)
           \/ Read(p)
           \/ Write(p)
           \/ TransferFails(p)
           \/ Return(p)
    BY <1>2 DEF Invoke, Select, Read, Write, TransferFails, Return
<1>3. CASE OpenFails(p)
    BY <1>3 DEF OpenFails, LockNext
<1>4. CASE Open(p)
    BY <1>4 DEF Open, LockNext, LockStep
<1>5. CASE CloseDevice(p)
    BY <1>5 DEF CloseDevice, LockNext, LockStep
<1>6. CASE Die(p)
    BY <1>6 DEF Die, LockNext
<1> QED
    BY <1>1, <1>2, <1>3, <1>4, <1>5, <1>6

(***************************************************************************)
(* The clients implement the lock: whatever is proved of the processes     *)
(* that open and close the device holds of those that use it in between.   *)
(***************************************************************************)
THEOREM LockImplemented == Spec => BootSpec
<1>1. Init => LockInit
    BY DEF Init
<1> QED
    BY <1>1, StepIsLockStep, PTL DEF Spec, BootSpec

-----------------------------------------------------------------------------
(* The map of the device.                                                  *)

(***************************************************************************)
(* A request that passed its checks names a register of the device         *)
(* (_comRboxGetCmd, cpld_rbox.h).                                          *)
(***************************************************************************)
LEMMA TargetType ==
    ASSUME NEW r \in Request, Valid(r)
    PROVE  /\ BankOf(r) \in Bank
           /\ CommandOf(r) \in Command
<1> USE DeviceAssumption DEF ComOps, GpioOps, Bank, Command,
        CPLD_BANK_CONF, CPLD_BANK_SYS, CPLD_BANK_COM, CPLD_BANK_GPO,
        CPLD_COMMAND_COM, CPLD_COMMAND_GPO, CPLD_COMMAND_LED
<1>1. BankOf(r) \in Bank
    BY DEF BankOf
<1>2. CommandOf(r) \in Command
    BY DEF CommandOf, Valid, Port
<1> QED
    BY <1>1, <1>2

(***************************************************************************)
(* What is written to a register is a byte (gpioRboxWrite, ledRboxSet,     *)
(* comRboxConfigWrite).                                                    *)
(***************************************************************************)
LEMMA NewByteType ==
    ASSUME NEW r \in Request, Valid(r), Writes(r), NEW old \in Byte
    PROVE  NewByte(r, old) \in Byte
<1> USE DeviceAssumption DEF Byte, Bit, Valid, Writes, ComOps, IdOps, GpioOps
<1>1. CASE r.op = "gpioRboxWriteAll"
    BY <1>1 DEF NewByte
<1>2. CASE r.op = "gpioRboxWrite"
    BY <1>2 DEF NewByte
<1>3. CASE r.op = "ledRboxSet"
    BY <1>3 DEF NewByte
<1>4. CASE r.op = "comRboxConfigWrite"
    BY <1>4 DEF NewByte, ComByte, TypeBits, COM_CONFIG_TERM_BIT
<1> QED
    BY <1>1, <1>2, <1>3, <1>4

-----------------------------------------------------------------------------
(* The invariant.                                                          *)

(***************************************************************************)
(* DeviceInv holds before the first call of any process.                   *)
(***************************************************************************)
LEMMA DeviceInitEstablishes == Init => LockInv /\ DeviceInv
<1> SUFFICES ASSUME Init PROVE LockInv /\ DeviceInv
    OBVIOUS
<1>1. LockInv
    BY InitEstablishes DEF Init
<1>2. DeviceTypeOK
    BY <1>1, DeviceAssumption
       DEF Init, DeviceTypeOK, LockInv, Bank, Step, Byte,
           CPLD_BANK_CONF, CPLD_BANK_SYS, CPLD_BANK_COM, CPLD_BANK_GPO
<1>3. CallPlaced
    BY DEF Init, LockInit, CallPlaced
<1> QED
    BY <1>1, <1>2, <1>3 DEF DeviceInv

(***************************************************************************)
(* Every step of a client preserves DeviceInv.                             *)
(***************************************************************************)
LEMMA DeviceStepPreserves ==
    LockInv /\ DeviceInv /\ [Next /\ SetupsDoNotOverlap']_vars => DeviceInv'
<1> SUFFICES ASSUME LockInv, DeviceInv, [Next /\ SetupsDoNotOverlap']_vars
             PROVE  DeviceInv'
    OBVIOUS
<1>1. LockTypeOK'
    BY StepIsLockStep, StepPreserves DEF LockInv
<1> USE DEF DeviceInv, DeviceTypeOK
<1>2. CASE UNCHANGED vars
    BY <1>2 DEF vars, lockVars, deviceVars, clientVars, LockTypeOK, CallPlaced
<1>3. CASE Next
  <2>1. PICK p \in Proc :
            \/ \E r \in Request : Invoke(p, r)
            \/ OpenFails(p)
            \/ Open(p)
            \/ Select(p)
            \/ Read(p)
            \/ Write(p)
            \/ TransferFails(p)
            \/ CloseDevice(p)
            \/ Return(p)
            \/ Die(p)
      BY <1>3 DEF Next
  <2> USE <1>1 DEF LockTypeOK, CallPlaced, Step, Become, Answer, lockVars,
                   deviceVars, clientVars
  <2>2. ASSUME NEW r \in Request, Invoke(p, r) PROVE DeviceInv'
      BY <2>2 DEF Invoke
  <2>3. CASE OpenFails(p)
      BY <2>3 DEF OpenFails, ShmFails, GoTo, Location
  <2>4. CASE Open(p)
    <3>1. pc'[p] # "idle" /\ \A q \in Proc \ {p} : pc'[q] = pc[q]
        BY <2>4 DEF Open, OpenDevice, CheckFlag, MutexInit, InitFails, SetFlag,
                    Attach, Lock, LockFails, GoTo, Location
    <3>2. step[p] = "open" /\ UNCHANGED deviceVars
        BY <2>4 DEF Open
    <3> QED
        BY <3>1, <3>2
  <2>5. CASE Select(p)
    <3>1. bank' \in Bank
        BY <2>5, TargetType DEF Select
    <3>2. ~Reads(call[p]) => Writes(call[p])
        BY DEF Reads, Writes
    <3> QED
        BY <2>5, <3>1, <3>2 DEF Select
  <2>6. CASE Read(p)
    <3>1. reg[<<bank, CommandOf(call[p])>>] \in Byte
        BY <2>6, TargetType DEF Read, Register
    <3>2. CASE Writes(call[p])
        BY <2>6, <3>1, <3>2 DEF Read
    <3>3. CASE ~Writes(call[p])
        BY <2>6, <3>3 DEF Read
    <3> QED
        BY <3>2, <3>3
  <2>7. ASSUME step[p] = "write", WriteRegister(p)
        PROVE  reg' \in [Register -> Byte]
      BY <2>7, TargetType, NewByteType DEF WriteRegister, Register
  <2>8. CASE Write(p)
      BY <2>7, <2>8 DEF Write
  <2>9. CASE TransferFails(p)
    <3>1. CASE step[p] = "open" /\ pc[p] = "held"
      <4>1. bank' \in Bank /\ UNCHANGED reg
          BY <2>9, <3>1, TargetType DEF TransferFails
      <4> QED
          BY <2>9, <3>1, <4>1 DEF TransferFails
    <3>2. CASE step[p] = "read"
        BY <2>9, <3>2 DEF TransferFails
    <3>3. CASE step[p] = "write"
        BY <2>7, <2>9, <3>3 DEF TransferFails
    <3> QED
        BY <2>9, <3>1, <3>2, <3>3 DEF TransferFails
  <2>10. CASE CloseDevice(p)
      BY <2>10 DEF CloseDevice, Close, UnlockFails, GoTo, Location
  <2>11. CASE Return(p)
      BY <2>11 DEF Return, Forget, Byte
  <2>12. CASE Die(p)
      BY <2>12 DEF Die, Forget, Crash, GoTo, Location, Byte
  <2> QED
      BY <2>1, <2>2, <2>3, <2>4, <2>5, <2>6, <2>8, <2>9, <2>10, <2>11, <2>12
<1> QED
    BY <1>2, <1>3

(***************************************************************************)
(* The invariants of the lock and of its clients, in every reachable       *)
(* state.                                                                  *)
(***************************************************************************)
THEOREM DeviceInvariance == Spec => [](LockInv /\ DeviceInv)
<1>1. LockInv /\ DeviceInv /\ [Next /\ SetupsDoNotOverlap']_vars
      => LockInv' /\ DeviceInv'
    BY StepIsLockStep, StepPreserves, DeviceStepPreserves
<1> QED
    BY <1>1, DeviceInitEstablishes, PTL DEF Spec

-----------------------------------------------------------------------------
(* What follows.                                                           *)

(***************************************************************************)
(* The registers hold bytes, the bank is one of the device's, and so on    *)
(* for the variables of the clients (com_rbox.c, gpio_rbox.c, led_rbox.c). *)
(***************************************************************************)
THEOREM DeviceTypeCorrect == Spec => []DeviceTypeOK
<1>1. DeviceInv => DeviceTypeOK
    BY DEF DeviceInv
<1> QED
    BY <1>1, DeviceInvariance, PTL

(***************************************************************************)
(* On no path, of success or of error, does a call return with the device  *)
(* locked (comRboxConfigWrite, comRboxConfigRead, gpioRbox*, ledRboxSet).  *)
(***************************************************************************)
THEOREM Released == Spec => []ReleasedOnReturn
<1>1. LockInv /\ DeviceInv => ReleasedOnReturn
    BY DEF LockInv, HoldKept, Holds, DeviceInv, CallPlaced, ReleasedOnReturn
<1> QED
    BY <1>1, DeviceInvariance, PTL

(***************************************************************************)
(* When no pthread call fails, the bank that a call selected is the one    *)
(* that its transfers use, and the byte it writes back is made from the    *)
(* one the register holds: the lock covers the whole call.                 *)
(***************************************************************************)
THEOREM SelectedAndFresh ==
    ASSUME ~PthreadCanFail
    PROVE  Spec => []TransfersAreSound
<1>1. Spec => []ExclusiveAccess
    BY LockImplemented, Exclusion, PTL
<1>2. Init => SelectionKept /\ DataFresh
    BY DEF Init, SelectionKept, DataFresh
<1>3. /\ LockInv /\ DeviceInv /\ ExclusiveAccess
      /\ SelectionKept /\ DataFresh
      /\ [Next /\ SetupsDoNotOverlap']_vars
      => SelectionKept' /\ DataFresh'
  <2> SUFFICES ASSUME LockInv, DeviceInv, ExclusiveAccess, SelectionKept,
                      DataFresh, [Next]_vars
               PROVE  SelectionKept' /\ DataFresh'
      OBVIOUS
  <2> USE DEF DeviceInv, DeviceTypeOK, SelectionKept, DataFresh, lockVars,
              deviceVars, clientVars, Become, Answer, Step
  <2>1. CASE UNCHANGED vars
      BY <2>1 DEF vars
  <2>2. CASE Next
    <3>1. PICK p \in Proc :
              \/ \E r \in Request : Invoke(p, r)
              \/ OpenFails(p)
              \/ Open(p)
              \/ Select(p)
              \/ Read(p)
              \/ Write(p)
              \/ TransferFails(p)
              \/ CloseDevice(p)
              \/ Return(p)
              \/ Die(p)
        BY <2>2 DEF Next
    <3>2. ASSUME pc[p] = "held"
          PROVE  \A q \in Proc \ {p} : step[q] \notin {"read", "write"}
        BY <3>2 DEF CallPlaced, ExclusiveAccess
    <3>3. CASE \/ \E r \in Request : Invoke(p, r)
               \/ OpenFails(p)
               \/ Open(p)
               \/ CloseDevice(p)
               \/ Return(p)
               \/ Die(p)
        BY <3>3 DEF Invoke, OpenFails, Open, CloseDevice, Return, Die, Forget
    <3>4. CASE Select(p)
        BY <3>2, <3>4 DEF Select
    <3>5. CASE Read(p)
      <4>1. reg[<<bank, CommandOf(call[p])>>] = reg[Target(call[p])]
          BY <3>5 DEF Read, Target
      <4> QED
          BY <3>5, <4>1 DEF Read
    <3>6. CASE Write(p)
        BY <3>2, <3>6 DEF Write, WriteRegister, CallPlaced
    <3>7. CASE TransferFails(p)
        BY <3>2, <3>7 DEF TransferFails, WriteRegister, CallPlaced
    <3> QED
        BY <3>1, <3>3, <3>4, <3>5, <3>6, <3>7
  <2> QED
      BY <2>1, <2>2
<1> QED
    BY <1>1, <1>2, <1>3, DeviceInvariance, PTL DEF Spec, TransfersAreSound

-----------------------------------------------------------------------------
(* What a write does.                                                      *)

\* The invariant that holds when no pthread call fails.
ClientInv == LockInv /\ DeviceInv /\ TransfersAreSound

THEOREM ClientInvariance ==
    ASSUME ~PthreadCanFail
    PROVE  Spec => []ClientInv
BY DeviceInvariance, SelectedAndFresh, PTL DEF ClientInv

\* The byte that is written differs from the old one where the request says.
LEMMA NewBits ==
    ASSUME NEW r \in Request, Valid(r), Writes(r), NEW old \in Byte
    PROVE  Differ(old, NewByte(r, old)) \subseteq Mask(r)
<1> USE DeviceAssumption DEF Byte, Bit, Valid, Writes, ComOps, IdOps, GpioOps,
                             Differ, Mask
<1>1. CASE r.op = "gpioRboxWriteAll"
    BY <1>1 DEF NewByte
<1>2. CASE r.op = "gpioRboxWrite"
    BY <1>2 DEF NewByte
<1>3. CASE r.op = "ledRboxSet"
    BY <1>3 DEF NewByte
<1>4. CASE r.op = "comRboxConfigWrite"
    BY <1>4 DEF NewByte, ComByte, TypeBits, COM_CONFIG_TERM_BIT
<1> QED
    BY <1>1, <1>2, <1>3, <1>4

(***************************************************************************)
(* A write reaches the register of its request, and makes its byte from    *)
(* the one that is there (cpldRboxWriteByte, after the read of the same    *)
(* call).                                                                  *)
(***************************************************************************)
LEMMA WriteReaches ==
    ASSUME ClientInv, NEW p \in Proc, step[p] = "write"
    PROVE  /\ call[p] \in Request /\ Valid(call[p]) /\ Writes(call[p])
           /\ Target(call[p]) \in Register
           /\ WriteRegister(p) =>
                 reg' = [reg EXCEPT ![Target(call[p])] =
                            NewByte(call[p], reg[Target(call[p])])]
<1>1. call[p] \in Request /\ Valid(call[p]) /\ Writes(call[p])
    BY DEF ClientInv, DeviceInv, CallPlaced
<1>2. Target(call[p]) \in Register
    BY <1>1, TargetType DEF Target, Register
<1>3. <<bank, CommandOf(call[p])>> = Target(call[p])
    BY DEF ClientInv, TransfersAreSound, SelectionKept, Target
<1>4. NewByte(call[p], data[p]) = NewByte(call[p], reg[Target(call[p])])
  <2>1. CASE Reads(call[p])
      BY <2>1 DEF ClientInv, TransfersAreSound, DataFresh
  <2>2. CASE ~Reads(call[p])
      BY <2>2 DEF Reads, NewByte
  <2> QED
      BY <2>1, <2>2
<1> QED
    BY <1>1, <1>2, <1>3, <1>4 DEF WriteRegister

(***************************************************************************)
(* When no pthread call fails, a register changes only by the write of a   *)
(* request that is about it, and only in the bits that this request names. *)
(***************************************************************************)
THEOREM OthersKept ==
    ASSUME ~PthreadCanFail
    PROVE  Spec => OnlyRequestedBits
<1> DEFINE Named ==
        \A a \in Register :
            reg'[a] # reg[a] =>
                \E p \in Proc :
                    /\ step[p] = "write"
                    /\ a = Target(call[p])
                    /\ Differ(reg[a], reg'[a]) \subseteq Mask(call[p])
<1>1. ClientInv /\ [Next /\ SetupsDoNotOverlap']_vars => [Named]_vars
  <2> SUFFICES ASSUME ClientInv, Next PROVE Named
      OBVIOUS
  <2>1. PICK p \in Proc :
            UNCHANGED reg \/ (step[p] = "write" /\ WriteRegister(p))
      BY DEF Next, Invoke, OpenFails, Open, Select, Read, Write, TransferFails,
             CloseDevice, Return, Die, Forget, deviceVars
  <2>2. CASE UNCHANGED reg
      BY <2>2
  <2>3. CASE step[p] = "write" /\ WriteRegister(p)
    <3> DEFINE t == Target(call[p])
    <3>1. /\ call[p] \in Request /\ Valid(call[p]) /\ Writes(call[p])
          /\ t \in Register
          /\ reg' = [reg EXCEPT ![t] = NewByte(call[p], reg[t])]
        BY <2>3, WriteReaches
    <3>2. reg \in [Register -> Byte]
        BY DEF ClientInv, DeviceInv, DeviceTypeOK
    <3>3. Differ(reg[t], NewByte(call[p], reg[t])) \subseteq Mask(call[p])
        BY <3>1, <3>2, NewBits
    <3> HIDE DEF t
    <3>4. \A a \in Register : reg'[a] # reg[a] => a = t
        BY <3>1, <3>2
    <3>5. reg'[t] = NewByte(call[p], reg[t])
        BY <3>1, <3>2
    <3> QED
        BY <2>3, <3>3, <3>4, <3>5 DEF t
  <2> QED
      BY <2>1, <2>2, <2>3
<1> QED
    BY <1>1, ClientInvariance, PTL DEF Spec, OnlyRequestedBits

-----------------------------------------------------------------------------
(* The clients implement the abstract board.                               *)

\* A call has no answer before it has done its work.
AnswerPlaced ==
    /\ answer = [p \in Proc |-> answer[p]]
    /\ \A p \in Proc :
          /\ step[p] = "none" <=> call[p] = NoCall
          /\ step[p] \in {"none", "open", "read", "write"} => answer[p] = Pending

LEMMA AnswerStepPreserves ==
    DeviceInv /\ AnswerPlaced /\ [Next]_vars => AnswerPlaced'
<1> SUFFICES ASSUME DeviceInv, AnswerPlaced, [Next]_vars PROVE AnswerPlaced'
    OBVIOUS
<1> USE DEF DeviceInv, DeviceTypeOK, AnswerPlaced, Step, Become, Answer,
            deviceVars, clientVars
<1>1. CASE UNCHANGED vars
    BY <1>1 DEF vars
<1>2. CASE Next
  <2>1. PICK p \in Proc :
            \/ \E r \in Request : Invoke(p, r)
            \/ OpenFails(p)
            \/ Open(p)
            \/ Select(p)
            \/ Read(p)
            \/ Write(p)
            \/ TransferFails(p)
            \/ CloseDevice(p)
            \/ Return(p)
            \/ Die(p)
      BY <1>2 DEF Next
  <2>2. ASSUME NEW r \in Request, Invoke(p, r) PROVE AnswerPlaced'
      BY <2>2, DeviceAssumption DEF Invoke
  <2>3. CASE OpenFails(p) \/ Open(p) \/ Select(p)
      BY <2>3 DEF OpenFails, Open, Select
  <2>4. CASE Read(p)
    <3>1. CASE Writes(call[p])
        BY <2>4, <3>1 DEF Read
    <3>2. CASE ~Writes(call[p])
        BY <2>4, <3>2 DEF Read
    <3> QED
        BY <3>1, <3>2
  <2>5. CASE Write(p) \/ TransferFails(p) \/ CloseDevice(p)
      BY <2>5 DEF Write, TransferFails, CloseDevice
  <2>6. CASE Return(p) \/ Die(p)
      BY <2>6 DEF Return, Die, Forget
  <2> QED
      BY <2>1, <2>2, <2>3, <2>4, <2>5, <2>6
<1> QED
    BY <1>1, <1>2

\* The abstract board and the clients speak of the same requests and answers.
LEMMA SameRequests ==
    /\ Board!NoCall = NoCall /\ Board!Pending = Pending /\ Board!Error = Error
    /\ Board!Byte = Byte /\ Board!Port = Port /\ Board!TypeBits = TypeBits
    /\ \A bytes : Board!Ok(bytes) = Ok(bytes)
    /\ \A r : Board!Valid(r) = Valid(r)
<1> USE DEF Bit, Board!Bit, Port, Board!Port, TypeBits, Board!TypeBits,
            ComOps, Board!ComOps, IdOps, Board!IdOps
<1>1. \A r : Board!Valid(r) = Valid(r)
    BY DEF Valid, Board!Valid
<1>2. \A bytes : Board!Ok(bytes) = Ok(bytes)
    BY DEF Ok, Board!Ok
<1>3. /\ Board!NoCall = NoCall /\ Board!Pending = Pending
      /\ Board!Error = Error /\ Board!Byte = Byte
    BY DEF NoCall, Board!NoCall, Pending, Board!Pending, Error, Board!Error,
           Byte, Board!Byte
<1> QED
    BY <1>1, <1>2, <1>3

\* One bit of a byte, as the library reads it: data >> n & 1.
LEMMA BitRead ==
    ASSUME NEW byte \in Byte, NEW n \in Nat
    PROVE  Shift(byte, n) \cap {0} = Board!One(n \in byte)
BY DEF Byte, Bit, Shift, Board!One

\* What a call that only reads answers is what the abstract board stores.
LEMMA ReadAnswers ==
    ASSUME ClientInv, NEW p \in Proc, step[p] = "read", ~Writes(call[p])
    PROVE  Decoded(call[p], reg[<<bank, CommandOf(call[p])>>])
               = Board!Stored(call[p])
<1> DEFINE r == call[p]
           byte == reg[<<bank, CommandOf(r)>>]
<1>1. r \in Request /\ Valid(r)
    BY DEF ClientInv, DeviceInv, CallPlaced
<1>2. bank = BankOf(r)
    BY DEF ClientInv, TransfersAreSound, SelectionKept
<1>3. <<BankOf(r), CommandOf(r)>> \in Register
    BY <1>1, TargetType DEF Register
<1>4. byte \in Byte
    BY <1>2, <1>3 DEF ClientInv, DeviceInv, DeviceTypeOK
<1>5. r.op \in {"gpioRboxReadAll", "gpioRboxRead", "comRboxConfigRead"}
    BY <1>1, DeviceAssumption DEF Writes, ComOps, GpioOps
<1>6. CASE r.op \in GpioOps
  <2>1. byte = reg[<<CPLD_BANK_GPO, CPLD_COMMAND_GPO>>]
      BY <1>2, <1>6 DEF BankOf, CommandOf, ComOps, GpioOps
  <2>2. Bit \ byte \in Byte
      BY DEF Byte
  <2>3. CASE r.op = "gpioRboxReadAll"
      BY <2>1, <2>3 DEF Decoded, Board!Stored
  <2>4. CASE r.op = "gpioRboxRead"
    <3>1. r.id \in Nat
        BY <1>1, <2>4 DEF Valid, IdOps, Bit
    <3>2. Shift(Bit \ byte, r.id) \cap {0} = Board!One(r.id \in Bit \ byte)
        BY <2>2, <3>1, BitRead
    <3> QED
        BY <2>1, <2>4, <3>2 DEF Decoded, Board!Stored
  <2> QED
      BY <1>5, <1>6, <2>3, <2>4 DEF GpioOps
<1>7. CASE r.op = "comRboxConfigRead"
  <2>1. r.id \in Port
      BY <1>1, <1>7 DEF Valid, ComOps
  <2>2. byte = ComPort(r.id)
    <3>1. BankOf(r) = CPLD_BANK_COM
        BY <1>7 DEF BankOf, ComOps, GpioOps
    <3>2. CommandOf(r) = CPLD_COMMAND_COM + r.id - 1
        BY <1>7 DEF CommandOf, ComOps, GpioOps
    <3> QED
        BY <1>2, <3>1, <3>2 DEF ComPort
  <2>3. Shift(byte, COM_CONFIG_TERM_BIT) \cap {0}
            = Board!One(COM_CONFIG_TERM_BIT \in byte)
      BY <1>4, BitRead DEF COM_CONFIG_TERM_BIT
  <2> QED
      BY <1>7, <2>1, <2>2, <2>3 DEF Decoded, Board!Stored
<1> QED
    BY <1>5, <1>6, <1>7 DEF GpioOps

\* The registers of the mapping are different ones.
LEMMA MapOfDevice ==
    /\ <<CPLD_BANK_GPO, CPLD_COMMAND_GPO>> # <<CPLD_BANK_SYS, CPLD_COMMAND_LED>>
    /\ \A n \in Port :
          /\ <<CPLD_BANK_COM, CPLD_COMMAND_COM + n - 1>> \in Register
          /\ <<CPLD_BANK_COM, CPLD_COMMAND_COM + n - 1>>
                \notin {<<CPLD_BANK_GPO, CPLD_COMMAND_GPO>>,
                        <<CPLD_BANK_SYS, CPLD_COMMAND_LED>>}
          /\ \A m \in Port \ {n} :
                <<CPLD_BANK_COM, CPLD_COMMAND_COM + n - 1>>
                    # <<CPLD_BANK_COM, CPLD_COMMAND_COM + m - 1>>
BY DEF Port, Register, Bank, Command, CPLD_BANK_CONF, CPLD_BANK_SYS,
       CPLD_BANK_COM, CPLD_BANK_GPO, CPLD_COMMAND_COM, CPLD_COMMAND_GPO,
       CPLD_COMMAND_LED

(***************************************************************************)
(* The write of a byte is the effect of the call on the abstract board:    *)
(* the outputs or leds it names and no others, the port it names with its  *)
(* new type and termination.                                               *)
(***************************************************************************)
LEMMA WriteIsEffect ==
    ASSUME ClientInv, NEW p \in Proc, step[p] = "write", WriteRegister(p)
    PROVE  Board!Effect(call[p])
<1> DEFINE r == call[p]
           t == Target(r)
           old == reg[t]
<1>1. /\ r \in Request /\ Valid(r) /\ Writes(r)
      /\ t \in Register
      /\ reg' = [reg EXCEPT ![t] = NewByte(r, old)]
    BY WriteReaches
<1>2. reg \in [Register -> Byte]
    BY DEF ClientInv, DeviceInv, DeviceTypeOK
<1>3. old \in Byte
    BY <1>1, <1>2
<1>4. reg'[t] = NewByte(r, old) /\ \A a \in Register \ {t} : reg'[a] = reg[a]
    BY <1>1, <1>2
<1>5. r.op \in {"gpioRboxWriteAll", "gpioRboxWrite", "ledRboxSet",
                "comRboxConfigWrite"}
    BY <1>1 DEF Writes
<1> DEFINE gpo == <<CPLD_BANK_GPO, CPLD_COMMAND_GPO>>
           led == <<CPLD_BANK_SYS, CPLD_COMMAND_LED>>
<1>6. gpo \in Register /\ led \in Register
    BY DEF Register, Bank, Command, CPLD_BANK_SYS, CPLD_BANK_GPO,
           CPLD_COMMAND_GPO, CPLD_COMMAND_LED
<1> USE DEF Byte, Bit
<1>7. CASE r.op \in {"gpioRboxWriteAll", "gpioRboxWrite"}
  <2>1. t = gpo
      BY <1>7 DEF Target, BankOf, CommandOf, ComOps, GpioOps
  <2>2. reg'[led] = reg[led] /\ \A n \in Port : ComPort(n)' = ComPort(n)
      BY <1>4, <1>6, <2>1, MapOfDevice DEF ComPort
  <2>3. Bit \ reg'[gpo] = IF r.op = "gpioRboxWriteAll" THEN r.data
                          ELSE Board!With(Bit \ reg[gpo], r.id, r.on)
    <3>1. CASE r.op = "gpioRboxWriteAll"
      <4>1. NewByte(r, old) = Bit \ r.data
          BY <3>1 DEF NewByte
      <4>2. r.data \in Byte
          BY <1>1, <3>1, DeviceAssumption
      <4> QED
          BY <1>4, <2>1, <3>1, <4>1, <4>2
    <3>2. CASE r.op = "gpioRboxWrite"
      <4>1. NewByte(r, old) = LET on == Bit \ old
                              IN  Bit \ (IF r.on THEN on \cup {r.id} ELSE on \ {r.id})
          BY <3>2 DEF NewByte
      <4>2. r.id \in Bit
          BY <1>1, <3>2 DEF Valid, IdOps
      <4> QED
          BY <1>4, <2>1, <3>2, <4>1, <4>2 DEF Board!With
    <3> QED
        BY <1>7, <3>1, <3>2
  <2> QED
      BY <1>7, <2>2, <2>3 DEF Board!Effect
<1>8. CASE r.op = "ledRboxSet"
  <2>1. t = led
      BY <1>8 DEF Target, BankOf, CommandOf, ComOps, GpioOps
  <2>2. reg'[gpo] = reg[gpo] /\ \A n \in Port : ComPort(n)' = ComPort(n)
      BY <1>4, <1>6, <2>1, MapOfDevice DEF ComPort
  <2>3. Bit \ reg'[led] = Board!With(Bit \ reg[led], r.led, r.on)
    <3>1. NewByte(r, old) = IF r.on THEN old \ {r.led} ELSE old \cup {r.led}
        BY <1>8 DEF NewByte
    <3>2. r.led \in Bit
        BY <1>1, <1>8 DEF Valid
    <3> QED
        BY <1>3, <1>4, <2>1, <3>1, <3>2 DEF Board!With
  <2> QED
      BY <1>8, <2>2, <2>3 DEF Board!Effect
<1>9. CASE r.op = "comRboxConfigWrite"
  <2>1. t = <<CPLD_BANK_COM, CPLD_COMMAND_COM + r.id - 1>> /\ r.id \in Port
      BY <1>1, <1>9 DEF Target, BankOf, CommandOf, ComOps, GpioOps, Valid
  <2>2. reg'[gpo] = reg[gpo] /\ reg'[led] = reg[led]
      BY <1>4, <1>6, <2>1, MapOfDevice
  <2>3. reg'[t] = ComByte(r, old)
    <3>1. NewByte(r, old) = ComByte(r, old)
        BY <1>9 DEF NewByte
    <3> QED
        BY <1>4, <3>1
  <2>4. \A n \in Port : ComPort(n)' = IF n = r.id THEN ComByte(r, old)
                                                 ELSE ComPort(n)
      BY <1>4, <2>1, <2>3, MapOfDevice DEF ComPort
  <2>5. /\ ComByte(r, old) \cap TypeBits = r.type
        /\ (COM_CONFIG_TERM_BIT \in ComByte(r, old)) = r.term
    <3>1. r.type \subseteq TypeBits /\ r.term \in BOOLEAN
        BY <1>1, <1>9, DeviceAssumption DEF Valid, ComOps
    <3>2. COM_CONFIG_TERM_BIT \in ComByte(r, old) <=> r.term
        BY <3>1 DEF ComByte, TypeBits, COM_CONFIG_TERM_BIT
    <3>3. ComByte(r, old) \cap TypeBits = r.type
        BY <3>1 DEF ComByte, TypeBits, COM_CONFIG_TERM_BIT
    <3> QED
        BY <3>1, <3>2, <3>3
  <2>6. \A n \in Port :
            [type |-> ComPort(n)' \cap TypeBits,
             term |-> COM_CONFIG_TERM_BIT \in ComPort(n)']
            = IF n = r.id THEN [type |-> r.type, term |-> r.term]
              ELSE [type |-> ComPort(n) \cap TypeBits,
                    term |-> COM_CONFIG_TERM_BIT \in ComPort(n)]
      BY <2>4, <2>5
  <2> QED
      BY <1>9, <2>1, <2>2, <2>6 DEF Board!Effect
<1> QED
    BY <1>5, <1>7, <1>8, <1>9

\* The device at power-on is a board with some outputs, leds and ports.
LEMMA BoardInitially == Init => Board!IOInit
<1> SUFFICES ASSUME Init PROVE Board!IOInit
    OBVIOUS
<1>1. reg \in [Register -> Byte]
    BY DeviceAssumption DEF Init
<1>2. \A n \in Port : ComPort(n) \in Byte
    BY <1>1, MapOfDevice DEF ComPort
<1>3. \A n \in Port : [type |-> ComPort(n) \cap TypeBits,
                       term |-> COM_CONFIG_TERM_BIT \in ComPort(n)]
                          \in Board!ComConfig
    BY <1>2, SameRequests DEF Board!ComConfig
<1> QED
    BY <1>3, SameRequests DEF Init, Board!IOInit, Byte

(***************************************************************************)
(* Each step of a call is a step of the abstract board or leaves it as it  *)
(* is: it is invoked, it takes effect with its last transfer, it fails, or *)
(* its caller leaves.                                                      *)
(***************************************************************************)
LEMMA StepIsBoardStep ==
    ClientInv /\ AnswerPlaced /\ [Next]_vars => [Board!IONext]_(Board!ioVars)
<1> SUFFICES ASSUME ClientInv, AnswerPlaced, Next
             PROVE  Board!IONext \/ UNCHANGED Board!ioVars
    BY DEF vars, deviceVars, clientVars, Board!ioVars, ComPort
<1>1. PICK p \in Proc :
          \/ \E r \in Request : Invoke(p, r)
          \/ OpenFails(p)
          \/ Open(p)
          \/ Select(p)
          \/ Read(p)
          \/ Write(p)
          \/ TransferFails(p)
          \/ CloseDevice(p)
          \/ Return(p)
          \/ Die(p)
    BY DEF Next
<1> USE SameRequests DEF Answer, Board!Answer, Become
<1>2. UNCHANGED reg => UNCHANGED Board!boardVars
    BY DEF Board!boardVars, ComPort
<1>3. UNCHANGED <<reg, call, answer>> => UNCHANGED Board!ioVars
    BY DEF Board!ioVars, ComPort
<1>4. step[p] \in {"open", "read", "write"} => Board!InProgress(p)
    BY DEF AnswerPlaced, Board!InProgress
<1>5. ASSUME NEW r \in Request, Invoke(p, r)
      PROVE  Board!Invoke(p, r)
    BY <1>2, <1>5 DEF Invoke, AnswerPlaced, Board!Invoke
<1>6. CASE OpenFails(p)
  <2>1. Board!Fail(p)
      BY <1>2, <1>4, <1>6 DEF OpenFails, Board!Fail
  <2> QED
      BY <2>1 DEF Board!IONext
<1>7. CASE Open(p) \/ Select(p) \/ CloseDevice(p)
    BY <1>3, <1>7 DEF Open, Select, CloseDevice, deviceVars, clientVars
<1>8. CASE Read(p)
  <2>1. CASE Writes(call[p])
      BY <1>3, <1>8, <2>1 DEF Read
  <2>2. CASE ~Writes(call[p])
    <3>1. step[p] = "read" /\ UNCHANGED <<reg, call>>
        BY <1>8 DEF Read
    <3>2. answer' = [answer EXCEPT ![p] = Ok(Board!Stored(call[p]))]
        BY <1>8, <2>2, ReadAnswers DEF Read
    <3>3. Board!Effect(call[p])
        BY <1>2, <2>2, <3>1 DEF Board!Effect, Board!boardVars, Writes
    <3>4. Board!Perform(p)
        BY <1>4, <3>1, <3>2, <3>3 DEF Board!Perform
    <3> QED
        BY <3>4 DEF Board!IONext
  <2> QED
      BY <2>1, <2>2
<1>9. CASE Write(p)
  <2>1. step[p] = "write" /\ WriteRegister(p) /\ UNCHANGED call
      BY <1>9 DEF Write
  <2>2. Board!Effect(call[p])
      BY <2>1, WriteIsEffect
  <2>3. Board!Stored(call[p]) = <<>>
      BY <2>1, WriteReaches DEF Board!Stored, Writes
  <2>4. answer' = [answer EXCEPT ![p] = Ok(Board!Stored(call[p]))]
      BY <1>9, <2>3 DEF Write
  <2>5. Board!Perform(p)
      BY <1>4, <2>1, <2>2, <2>4 DEF Board!Perform
  <2> QED
      BY <2>5 DEF Board!IONext
<1>10. CASE TransferFails(p)
  <2>1. /\ step[p] \in {"open", "read", "write"}
        /\ answer' = [answer EXCEPT ![p] = Error]
        /\ UNCHANGED call
        /\ UNCHANGED reg \/ (step[p] = "write" /\ WriteRegister(p))
      BY <1>10 DEF TransferFails
  <2>2. Board!Effect(call[p]) \/ UNCHANGED Board!boardVars
      BY <1>2, <2>1, WriteIsEffect
  <2>3. Board!Fail(p)
      BY <1>4, <2>1, <2>2 DEF Board!Fail
  <2> QED
      BY <2>3 DEF Board!IONext
<1>11. CASE Return(p) \/ Die(p)
  <2>1. /\ call' = [call EXCEPT ![p] = NoCall]
        /\ answer' = [answer EXCEPT ![p] = Pending]
        /\ UNCHANGED reg
      BY <1>11 DEF Return, Die, Forget
  <2>2. CASE call[p] # NoCall
      BY <1>2, <2>1, <2>2 DEF Board!Leave, Board!IONext
  <2>3. CASE call[p] = NoCall
    <3>1. answer[p] = Pending
        BY <2>3 DEF AnswerPlaced
    <3>2. call' = call
        BY <2>1, <2>3 DEF ClientInv, DeviceInv, DeviceTypeOK
    <3>3. answer' = answer
        BY <2>1, <3>1 DEF AnswerPlaced
    <3> QED
        BY <1>3, <2>1, <3>2, <3>3
  <2> QED
      BY <2>2, <2>3
<1> QED
    BY <1>1, <1>5, <1>6, <1>7, <1>8, <1>9, <1>10, <1>11 DEF Board!IONext

(***************************************************************************)
(* When no pthread call fails, the calls are atomic, for any number of     *)
(* processes and any requests: the clients and the lock implement the      *)
(* board that libyocto.h describes, with failed transfers and deaths.      *)
(***************************************************************************)
THEOREM BoardImplemented ==
    ASSUME ~PthreadCanFail
    PROVE  Spec => CallsAreAtomic
<1>1. Init => AnswerPlaced
    BY DEF Init, AnswerPlaced
<1>2. Spec => []AnswerPlaced
  <2>1. LockInv /\ DeviceInv /\ AnswerPlaced /\ [Next /\ SetupsDoNotOverlap']_vars
        => AnswerPlaced'
      BY AnswerStepPreserves
  <2> QED
      BY <1>1, <2>1, DeviceInvariance, PTL DEF Spec
<1>3. ClientInv /\ AnswerPlaced /\ [Next /\ SetupsDoNotOverlap']_vars
      => [Board!IONext]_(Board!ioVars)
    BY StepIsBoardStep
<1> QED
    BY <1>2, <1>3, ClientInvariance, BoardInitially, PTL
       DEF Spec, CallsAreAtomic, Board!IOSpec

=============================================================================
