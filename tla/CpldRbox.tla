------------------------------ MODULE CpldRbox ------------------------------
(***************************************************************************)
(* The CPLD of the RBOX630 and its clients: com_rbox.c, gpio_rbox.c and    *)
(* led_rbox.c over cpldRboxSelect, cpldRboxReadByte and cpldRboxWriteByte  *)
(* of cpld_rbox.c.                                                         *)
(*                                                                         *)
(* The device has one bank register for all its users, and the same        *)
(* command addresses another register in each bank.  A call opens and      *)
(* locks the device (CpldLock), selects a bank, reads a byte, writes the   *)
(* changed byte back, and closes the device; each transfer on the bus is a *)
(* step of its own and may fail.                                           *)
(***************************************************************************)
EXTENDS CpldLock, RboxRequest

CONSTANTS
    Request,   \* the requests that processes make
    PowerOn    \* the contents of the registers when the library first runs

VARIABLES
    bank,      \* the selected bank of the device
    reg,       \* its registers
    call,      \* the request each process is executing
    step,      \* the step of the call it is at
    data,      \* the local variable data
    answer     \* what the call returns

clientVars == <<call, step, data, answer>>
deviceVars == <<bank, reg, clientVars>>
vars == <<lockVars, deviceVars>>

-----------------------------------------------------------------------------
(* The map of the device (cpld_rbox.h).                                    *)

CPLD_BANK_CONF == 0    \* selected at power-on; the library uses the others
CPLD_BANK_SYS == 1
CPLD_BANK_COM == 2
CPLD_BANK_GPO == 6

CPLD_COMMAND_COM == 80
CPLD_COMMAND_GPO == 80
CPLD_COMMAND_LED == 81

Bank == {CPLD_BANK_CONF, CPLD_BANK_SYS, CPLD_BANK_COM, CPLD_BANK_GPO}
Command == 80 .. 83
Register == Bank \X Command

GpioOps == {"gpioRboxReadAll", "gpioRboxRead",
            "gpioRboxWriteAll", "gpioRboxWrite"}

\* The bank of the inputs, for the one of the outputs.
BankOfInputs(r) ==
    CASE r.op \in ComOps       -> CPLD_BANK_COM
      [] r.op \in GpioOps      -> 5
      [] r.op = "ledRboxSet"   -> CPLD_BANK_SYS

BankOf(r) ==
    CASE r.op \in ComOps       -> CPLD_BANK_COM
      [] r.op \in GpioOps      -> CPLD_BANK_GPO
      [] r.op = "ledRboxSet"   -> CPLD_BANK_SYS

\* The ports have consecutive commands (_comRboxGetCmd).
CommandOf(r) ==
    CASE r.op \in ComOps       -> CPLD_COMMAND_COM + r.id - 1
      [] r.op \in GpioOps      -> CPLD_COMMAND_GPO
      [] r.op = "ledRboxSet"   -> CPLD_COMMAND_LED

Target(r) == <<BankOf(r), CommandOf(r)>>

Reads(r) == r.op # "gpioRboxWriteAll"

Writes(r) ==
    r.op \in {"comRboxConfigWrite", "gpioRboxWriteAll", "gpioRboxWrite",
              "ledRboxSet"}

COM_CONFIG_TERM_BIT == 2

\* The old type of the port is not erased.
ComByteNotErased(r, old) ==
    old \cup r.type \cup (IF r.term THEN {COM_CONFIG_TERM_BIT} ELSE {})

\* The unknown bits of the port are lost.
ComByteFresh(r, old) ==
    r.type \cup (IF r.term THEN {COM_CONFIG_TERM_BIT} ELSE {})

\* Erase and set bits.
ComByte(r, old) ==
    (old \ (TypeBits \cup {COM_CONFIG_TERM_BIT}))
        \cup r.type
        \cup (IF r.term THEN {COM_CONFIG_TERM_BIT} ELSE {})

\* The byte that is written.  Outputs and leds are active low: an output
\* that is on, or a led that is lit, is a bit that is 0.
NewByte(r, old) ==
    CASE r.op = "gpioRboxWriteAll" -> Bit \ r.data
      [] r.op = "gpioRboxWrite" ->
            LET on == Bit \ old
            IN  Bit \ (IF r.on THEN on \cup {r.id} ELSE on \ {r.id})
      [] r.op = "ledRboxSet" ->
            IF r.on THEN old \ {r.led} ELSE old \cup {r.led}
      [] r.op = "comRboxConfigWrite" -> ComByte(r, old)

\* What a call that reads stores through its pointers, from the byte read.
Decoded(r, byte) ==
    CASE r.op = "gpioRboxReadAll" -> <<Bit \ byte>>
      [] r.op = "gpioRboxRead"    -> <<Shift(Bit \ byte, r.id) \cap {0}>>
      [] r.op = "comRboxConfigRead" ->
            <<byte \cap TypeBits, Shift(byte, COM_CONFIG_TERM_BIT) \cap {0}>>

-----------------------------------------------------------------------------
ASSUME DeviceAssumption ==
    /\ PowerOn \in [Register -> Byte]
    /\ \A r \in Request :
          /\ r # NoCall
          /\ r.op \in ComOps \cup GpioOps \cup {"ledRboxSet"}
          /\ r.op = "gpioRboxWriteAll" => r.data \in Byte
          /\ r.op = "comRboxConfigWrite" => r.term \in BOOLEAN

Step == {"none", "open", "read", "write", "close", "return"}

DeviceTypeOK ==
    /\ LockTypeOK
    /\ bank \in Bank
    /\ reg \in [Register -> Byte]
    /\ call \in [Proc -> Request \cup {NoCall}]
    /\ step \in [Proc -> Step]
    /\ data \in [Proc -> Byte]

Init ==
    /\ LockInit
    /\ bank = CPLD_BANK_CONF
    /\ reg = PowerOn
    /\ call = [p \in Proc |-> NoCall]
    /\ step = [p \in Proc |-> "none"]
    /\ data = [p \in Proc |-> {}]
    /\ answer = [p \in Proc |-> Pending]

-----------------------------------------------------------------------------
Become(p, s) == step' = [step EXCEPT ![p] = s]

Answer(p, a) == answer' = [answer EXCEPT ![p] = a]

\* A bad id, led or type is refused before the device is opened.
Invoke(p, r) ==
    /\ step[p] = "none"
    /\ call' = [call EXCEPT ![p] = r]
    /\ Become(p, IF Valid(r) THEN "open" ELSE "return")
    /\ Answer(p, IF Valid(r) THEN Pending ELSE Error)
    /\ UNCHANGED <<lockVars, bank, reg, data>>

\* The error path of a failed shmget or shmat unlocks the mutex.
OpenFailsUnlocked(p) ==
    /\ step[p] = "open"
    /\ pc[p] \in {"checkFlag", "attach"}
    /\ mutex' = "free"
    /\ GoTo(p, "idle")
    /\ Become(p, "return")
    /\ Answer(p, Error)
    /\ UNCHANGED <<flag, shmd, shmInitOk, bank, reg, call, data>>

\* cpldRboxOpen returns -1: open or ioctl, or the shared segment, failed.
OpenFails(p) ==
    /\ step[p] = "open"
    /\ \/ pc[p] = "idle" /\ UNCHANGED lockVars
       \/ ShmFails(p)
    /\ Become(p, "return")
    /\ Answer(p, Error)
    /\ UNCHANGED <<bank, reg, call, data>>

\* The steps of cpldRboxOpen that do not end in an error.
Open(p) ==
    /\ step[p] = "open"
    /\ \/ OpenDevice(p)
       \/ CheckFlag(p)
       \/ MutexInit(p)
       \/ InitFails(p)
       \/ SetFlag(p)
       \/ Attach(p)
       \/ Lock(p)
       \/ LockFails(p)
    /\ UNCHANGED deviceVars

-----------------------------------------------------------------------------
(* The transfers, once cpldRboxOpen has returned 0.                        *)

\* cpldRboxSelect.
Select(p) ==
    /\ step[p] = "open" /\ pc[p] = "held"
    /\ bank' = BankOf(call[p])
    /\ Become(p, IF Reads(call[p]) THEN "read" ELSE "write")
    /\ UNCHANGED <<lockVars, reg, call, data, answer>>

\* cpldRboxReadByte: of the register at that command in the selected bank.
Read(p) ==
    /\ step[p] = "read"
    /\ LET byte == reg[<<bank, CommandOf(call[p])>>]
       IN  IF Writes(call[p])
           THEN /\ data' = [data EXCEPT ![p] = byte]
                /\ Become(p, "write")
                /\ UNCHANGED answer
           ELSE /\ Answer(p, Ok(Decoded(call[p], byte)))
                /\ Become(p, "close")
                /\ UNCHANGED data
    /\ UNCHANGED <<lockVars, bank, reg, call>>

\* What cpldRboxWriteByte does to the registers.
WriteRegister(p) ==
    reg' = [reg EXCEPT ![<<bank, CommandOf(call[p])>>] =
                NewByte(call[p], data[p])]

Write(p) ==
    /\ step[p] = "write"
    /\ WriteRegister(p)
    /\ Answer(p, Ok(<<>>))
    /\ Become(p, "close")
    /\ UNCHANGED <<lockVars, bank, call, data>>

\* A failed read is returned before the device is closed.
TransferFailsOpen(p) ==
    /\ step[p] = "read"
    /\ Answer(p, Error)
    /\ Become(p, "return")
    /\ UNCHANGED <<lockVars, bank, reg, call, data>>

\* A transfer fails, and the call returns -1 after cpldRboxClose.  The device
\* may have taken the byte that was sent to it.
TransferFails(p) ==
    /\ \/ /\ step[p] = "open" /\ pc[p] = "held"
          /\ bank' \in {bank, BankOf(call[p])}
          /\ UNCHANGED reg
       \/ /\ step[p] = "read"
          /\ UNCHANGED <<bank, reg>>
       \/ /\ step[p] = "write"
          /\ WriteRegister(p) \/ UNCHANGED reg
          /\ UNCHANGED bank
    /\ Answer(p, Error)
    /\ Become(p, "close")
    /\ UNCHANGED <<lockVars, call, data>>

-----------------------------------------------------------------------------
CloseDevice(p) ==
    /\ step[p] = "close"
    /\ Close(p) \/ UnlockFails(p)
    /\ Become(p, "return")
    /\ UNCHANGED <<bank, reg, call, data, answer>>

\* The call and its local variables are gone.
Forget(p) ==
    /\ call' = [call EXCEPT ![p] = NoCall]
    /\ data' = [data EXCEPT ![p] = {}]
    /\ Answer(p, Pending)
    /\ Become(p, "none")
    /\ UNCHANGED <<bank, reg>>

Return(p) ==
    /\ step[p] = "return"
    /\ Forget(p)
    /\ UNCHANGED lockVars

\* The process dies; a step it was at is not completed.
Die(p) == Crash(p) /\ Forget(p)

Next ==
    \E p \in Proc :
        \/ \E r \in Request : Invoke(p, r)
        \/ OpenFails(p)
        \/ Open(p)
        \/ Select(p)
        \/ Read(p)
        \/ Write(p)
        \/ TransferFails(p)
        \/ CloseDevice(p)
        \/ Return(p)
        \/ Die(p)

\* As for BootSpec: the set-up of the mutex is run by one process at a time.
Spec == Init /\ [][Next /\ SetupsDoNotOverlap']_vars

-----------------------------------------------------------------------------
(* Properties.                                                             *)

\* The bank that a call selected is still selected when it transfers a byte.
SelectionKept ==
    \A p \in Proc : step[p] \in {"read", "write"} => bank = BankOf(call[p])

\* The byte that a call is about to modify is the one that the register holds.
DataFresh ==
    \A p \in Proc :
        step[p] = "write" /\ Reads(call[p]) => data[p] = reg[Target(call[p])]

(***************************************************************************)
(* A transfer reaches the register that its call means, for no other       *)
(* process selects a bank in between (comRboxConfigWrite, lines 56-65),    *)
(* and writes back a byte that is still current: no update of another      *)
(* process is lost (gpioRboxWrite, lines 84-100, ledRboxSet).              *)
(***************************************************************************)
TransfersAreSound == SelectionKept /\ DataFresh

(***************************************************************************)
(* A call leaves nothing locked behind, on its error paths either: the     *)
(* mutex of a process that is outside the library is not its own.          *)
(***************************************************************************)
ReleasedOnReturn ==
    \A p \in Proc : step[p] \in {"none", "return"} => mutex # p

\* The bits that a request is about.
Mask(r) ==
    CASE r.op = "gpioRboxWriteAll"   -> Bit
      [] r.op = "gpioRboxWrite"      -> {r.id}
      [] r.op = "ledRboxSet"         -> {r.led}
      [] r.op = "comRboxConfigWrite" -> TypeBits \cup {COM_CONFIG_TERM_BIT}
      [] OTHER                       -> {}

Differ(a, b) == (a \ b) \cup (b \ a)

(***************************************************************************)
(* A register changes only in the bits that a request in progress names:   *)
(* not in the other outputs, leds or ports, nor in the bits of a port that *)
(* the library does not know.                                              *)
(***************************************************************************)
OnlyRequestedBits ==
    [][\A a \in Register :
          reg'[a] # reg[a] =>
              \E p \in Proc :
                  /\ step[p] = "write"
                  /\ a = Target(call[p])
                  /\ Differ(reg[a], reg'[a]) \subseteq Mask(call[p])]_vars

(***************************************************************************)
(* The board as the callers of the library see it, and what they are       *)
(* promised: the calls are atomic.                                         *)
(***************************************************************************)
ComPort(n) == reg[<<CPLD_BANK_COM, CPLD_COMMAND_COM + n - 1>>]

Board == INSTANCE BoardIO WITH
    outputs <- Bit \ reg[<<CPLD_BANK_GPO, CPLD_COMMAND_GPO>>],
    leds <- Bit \ reg[<<CPLD_BANK_SYS, CPLD_COMMAND_LED>>],
    com <- [n \in Port |-> [type |-> ComPort(n) \cap TypeBits,
                            term |-> COM_CONFIG_TERM_BIT \in ComPort(n)]]

CallsAreAtomic == Board!IOSpec

-----------------------------------------------------------------------------
(***************************************************************************)
(* The inductive invariant behind the safety properties (CpldRboxProofs):  *)
(* where a call is in the library tells where its process is in the lock,  *)
(* and what is known of its request.                                       *)
(***************************************************************************)
CallPlaced ==
    \A p \in Proc :
        /\ step[p] \in {"none", "return"} => pc[p] = "idle"
        /\ step[p] \in {"read", "write", "close"} => pc[p] = "held"
        /\ step[p] \in {"open", "read", "write", "close"} =>
              call[p] \in Request /\ Valid(call[p])
        /\ step[p] = "write" => Writes(call[p])

DeviceInv == DeviceTypeOK /\ CallPlaced

=============================================================================
