# libyocto in TLA+

libyocto is a C library that the applications of an embedded Linux product
link with. It drives the board (digital inputs and outputs, leds, serial
ports, behind either an I2C CPLD or gpio lines), asks systemd and timedated
for services over D-Bus, and rewrites configuration files of other daemons.
Every application calls it in its own process, and several applications run on
one board: what the library shares between its callers is the device, the
kernel's gpio lines, System V shared memory, the files and the daemons.

This directory models the library as state machines in TLA+, checks them with
TLC on small instances, and proves the central safety properties with TLAPS
for every instance. Paths below are relative to `src/src/libyocto/`.

## 1. Inventory

| component | code | state it keeps | operations | what is hard |
|---|---|---|---|---|
| CPLD lock | `rbox/cpld_rbox.c` | flag and pthread mutex in a shared segment; `shmd`, `shmId`, `shmInitOk` in each process | `_initShmLock`, `cpldRboxOpen`, `cpldRboxClose` | set-up by several processes, deaths with the lock, errors of pthread |
| CPLD clients | `rbox/com_rbox.c`, `rbox/gpio_rbox.c`, `rbox/led_rbox.c` | bank register and registers of the device | read, write one bit, write all, led and buzzer, configuration of a serial port | a shared bank, read-modify-write of shared bytes, failures between lock and unlock |
| gpio lines | `gpio.c` | `gChips`, `gInputs`, `gOutputs`; lines owned in the kernel | init, uninit, read and write of one or of all lines | partial initialisation, use after release, bit order |
| restart counter | `service.c` 118-234 | a counter in a file of `/tmp` | `serviceGetNbRestart` | unlocked read-compare-write, empty file, counter that goes back |
| clock and NTP | `service.c` 236-335 | `ntp` of timedated | `serviceSetTime` | must put NTP back on every path, several callers, an administrator who sets NTP too |
| service management | `service.c` 72-114 | the units and jobs of systemd | `serviceManage` | a call returns when its job is queued, and a job may be replaced |
| wifi access point | `config/config_wifi.c`, `config/config.c` 105-150 | one file, temporary files | read, write | copy, remove, copy back: readers, writers, faults, deaths |
| whole-file configurations | `config/config_ssl.c`, `config_8021x.c`, `config_remotejournal.c`, `config_ntp.c`, `config_service.c`, `config.c` | thirteen files | write in sequence, enable, disable | one of several writes fails, lost text, return codes |
| snmp user | `libyocto.c` 426-452, `config/config_snmp.c` | two files, `snmpd` | stop, write, start | the stop fails, two callers |
| network interfaces | `config/config_network.c` | a key file for each interface | read, write | lost updates |
| dispatch | `libyocto.c`, `libyocto_config.h` | none | selects an implementation for each of four boards at compile time | the same call means gpio lines, the CPLD, sysfs or nothing |
| sysfs leds | `led.c` | the trigger of each led, in the kernel | `ledSysSetTrigger` | a failed or short write, several programs |
| watchdog, logger | `daemon.c`, `logger.c` | a log level | `sd_notify`, output | - |
| programs | `boardtest/`, `setled/` | an exit status | `boardtest` tries inputs and outputs, `setled` sets one led | going on after a call that failed, the status at the end |

How they interact: the CPLD clients *call* the lock and share the device with
clients in other processes; `yoctoConfigSnmp` calls the service management and
`configWriteFile`; all configurations share `configWriteFile` or
`configCopyTmpFile`; the programs call gpio lines, CPLD and sysfs through the dispatch.
Between processes there are no messages and no callbacks,
only shared memory, files and the device. The library starts no thread; the
globals in `cpld_rbox.c` and `gpio.c` are not protected against threads of the
caller, and the models have one thread per process.

What makes each component correct:

* lock: at most one owner; nobody locks a mutex that was not set up; a caller
  that uses the device owns the mutex; each wait ends when no owner dies;
* clients: each call takes effect at one instant, changes only the bits it
  names, and gives the lock back on every path;
* gpio: all lines or none, reads and writes refer to the lines that are
  documented, only the requested outputs change;
* counter: no restart reported twice, none forgotten;
* clock: 0 means that this call set the clock; NTP ends as it was configured;
* configurations: 0 means that the file holds what the caller gave; what other
  lines, keys and interfaces held is kept; files that belong together match;
* snmp: 0 means that snmpd serves the user, and it does not stay stopped;
* programs: each ends, and a status of 0 is true on every board (with one exception,
  the status led: section 5).

## 2. Modules

| module | models | notes |
|---|---|---|
| `CpldLock` | `cpld_rbox.c` 23-168 | `flag`, `mutex` are the segment, `pc`, `shmd`, `shmInitOk` each process |
| `RboxRequest` | arguments and results of the CPLD calls | requests are records, a byte is the set of its bits |
| `CpldRbox` | `com_rbox.c`, `gpio_rbox.c`, `led_rbox.c`, and select, read, write of `cpld_rbox.c` | extends `CpldLock`: `OpenDevice ... Close` are its steps |
| `BoardIO` | the calls as `libyocto.h` describes them | abstract: one step for each call; no CPLD, no lock |
| `Boards` | the tables of `gpio.c` and `libyocto_config.h` for the four boards | constant operators, no state |
| `Gpio` | `gpio.c` | the board is a variable that no step changes, its tables come from `Boards` |
| `Programs` | `boardtest.c`, `setled.c`, `led.c`, and the dispatch of `libyocto.c` | a program is a sequence of calls |
| `NbRestart` | `serviceGetNbRestart` | with history variables for what was reported |
| `ServiceTime` | `serviceSetTime` | `dirty` is the `sd_bus_error` of the call, `configured` what the administrator asked for |
| `TextFile` | what a stream of `configWriteFile` leaves in a file | shared by the next two |
| `ConfigFiles` | ssl, 802.1x, remote journal, ntp, enabled services | each call is a script of checks and writes |
| `ConfigSnmp` | `yoctoConfigSnmp`, `configSnmpWrite`, `serviceManage` | `unit` and `job` are systemd's, `served` is what `snmpd` has read |
| `ConfigWifi` | `configWifiRead`, `configWifiWrite`, `configCopyTmpFile` | files are inodes, a removed file lives while it is open |
| `ConfigNetwork` | `config_network.c` | the key file is replaced in one step, as GLib does |
| `CpldRboxProofs` (lock and clients), `GpioProofs` (lines and programs), `NbRestartProofs`, `ServiceTimeProofs`, `ConfigWifiProofs`, `ConfigFilesProofs`, `ConfigSnmpProofs`, `ConfigNetworkProofs` | - | theorems and proofs |
| `MC*` | - | constants for TLC, symmetry |

Granularity. An action is the code between two accesses to something shared
(segment, device, file, daemon), with every local assignment around it. A
system call or a transfer on the bus is one step, and where the code handles
its failure there is an action, or a disjunct, that fails. A loop over lines is one
step for each line. `PROJECT.json` names the source lines of each definition.

Composition. `CpldRbox` extends `CpldLock`, adds the device and the calls, and
is shown to implement both the specification of the lock alone (`BootSpec`)
and, under a refinement mapping from registers to outputs, leds and serial
ports, the abstract board (`CallsAreAtomic == Board!IOSpec` in `CpldRbox`). In
the mapping, the bits of the outputs are inverted as `gpio_rbox.c` inverts them,
and a call that writes takes effect when its byte is written.

`Programs` extends `Gpio` with the programs that call it, and takes the CPLD at its
promise: it instantiates the abstract board (`IO == INSTANCE BoardIO WITH call <- ioCall`)
whose steps `Invoke`, `Perform`, `Fail` and `Leave` are the calls of the program. That
`CpldRbox` implements `BoardIO` is proved (section 6), so the small model stands for the
lock, the bank and the registers below it. The dispatch, `Impl`, sends each call of a
program to one of the two, to sysfs or nowhere.

What is outside the library is modelled from how the library uses it, and the
map marks it external: the kernel's ownership of gpio lines, systemd's
`NRestarts` and its queue of jobs, the administrator who sets NTP, timedated (which refuses to set the time while NTP is on),
`sd_bus_call` (which refuses an error structure that is already set), snmpd (which reads its files
when it starts and may save one when it exits), files that somebody else changes, reboots, deaths of processes.

Data that no property tells apart is abstract: a key or certificate is one of
two texts and its size check a boolean, a line of the wifi file is its key and
the process whose value it holds, addresses are two values. Log output is left
out.

## 3. Assumptions

* **One set-up at a time** (`SetupsDoNotOverlap` in `CpldLock`). The set-up of
  the mutex is not protected: `CpldLockRace` shows two owners. All other
  properties of the lock are stated for `BootSpec`, which assumes that no two
  processes are between the test of the flag and its setting at once, as when
  one service runs before the others at boot. The assumption says nothing about
  the steps after the set-up.
* **Failures of pthread calls** (`PthreadCanFail`). The safety of the mutex is
  checked and proved with them. `ExclusiveAccess`, `TransfersAreSound`,
  `OnlyRequestedBits` and `CallsAreAtomic` need that they do not fail, because `cpldRboxOpen` returns 0 when
  they do (section 5). The run `CpldRbox` is made without them, the run
  `CpldLock` with them.
* **One thread per process.**
* **Nobody else writes to the outputs**, and a line that was given back keeps its level.
  The kernel keeps other processes off the lines of an owner.
* **Fairness.** `FairBootSpec`: each process that is inside `cpldRboxOpen`, or
  holds the device, goes on (weak fairness of `LockStep`). The code between the
  calls is sequential and has no wait other than `pthread_mutex_lock`. Weak
  fairness is not enough to promise an individual process the mutex, and
  `LockMovesOn` does not: it says that the lock goes on from each owner. `FairSpec`
  of `ConfigSnmp`: a call that has begun goes on, systemd does its jobs, and an
  snmpd that is asked to exit does. Neither assumes that anybody
  begins a call. `ProgramsSpec`: a program that has been started goes on and its calls
  return. Its code is sequential and waits only in `pthread_mutex_lock`, for another
  program that makes one call and ends, or for an owner that died, which is left out.
* **Exceptions inside properties.** Where the code keeps a promise only under a
  condition, the module has a history variable for the condition and the property
  names it: `exceptions` of `NbRestart`, `faulty` of `ServiceTime`, `upset` of
  `ConfigWifi` and `ConfigSnmp`, `lost` and `mishaps` of `ConfigFiles`, `stale`
  of `ConfigNetwork`. The runs have everything fail and all callers interleave;
  the exception takes out the behaviours listed in section 5 and no others.

## 4. Runs

| run | question | instance | states |
|---|---|---|---|
| `CpldLock` | mutual exclusion, usable mutex, orphaned mutex, and the lock moves on, with deaths and failures of pthread | 3 processes, fair scheduler | 3 thousand |
| `CpldRbox` | bank, freshness of the byte, only the requested bits, released on each return; refinement of `CpldLock` and of `BoardIO` | 2 processes, 8 requests, all failures of transfers, deaths | 305 thousand |
| `Gpio` | all lines or none; places, offsets, masks and order of reads and writes; kept outputs | both boards with gpio lines, 1 process, all failures, deaths; the 256 levels of the inputs of the RBOX630, outputs of the RADIPV3 that start on | 564 thousand |
| `Programs` | a status of 0 is true (but for a status led that is asked off, section 5), programs end, boardtest aborts exactly when `yoctoInit` failed | four boards; one boardtest, or two setled with any arguments; all failures | 393 thousand |
| `NbRestart` | nothing reported twice, the exact count, the empty file | 2 processes, 3 restarts, failures, reboots, starts by hand | 287 thousand |
| `ServiceTime` | 0 means set, NTP never turned on wrongly, NTP as configured when quiet | 3 processes, an administrator, failures, deaths | 12 thousand |
| `ConfigWifi` | one writer for a file, no mixed read, a write that returns 0 leaves the whole file with its values, the file is whole when quiet, a lost file stays lost | 2 processes, 3 inodes, 2 lines, failures, deaths | 250 thousand |
| `ConfigFiles` | no missing authority, pairs match, 0 means written | 2 processes, 2 calls of 10 kinds, failures, deaths | 594 thousand |
| `ConfigSnmp` | 0 means served, snmpd does not stay stopped | 2 processes, failures, deaths, jobs that are late or replaced, fair callers and daemons | 1 159 thousand |
| `ConfigNetwork` | an address comes from a call and is never lost | 2 processes, 2 interfaces, failures, deaths | 124 thousand |
| `CpldLockRace` | ends in a violation of `MutualExclusion`: two set-ups at once | 2 processes | - |
| `ConfigSnmpStop` | ends in a violation of `OkMeansServed`: 0 though the user was not saved | 1 process, failing stops | - |

The two last runs show where the code differs from what its header says; each has
an entry under "findings" in `PROJECT.json`.

### Bounds, and why they are enough

* *Processes*: two, three for the lock and the clock, one for the gpio lines (a
  line that another process owns is a request that fails). Nobody names another
  process; what one does to another goes through one flag, one mutex, one file.
  Three lets one wait while two interact. The proofs remove this bound where
  they exist.
* `MaxRestarts` 3: a counter that is read, grows, is read again and goes back
  needs three.
* *Inodes*: 3 for two processes: the file of the name and one removed file for
  each process that still has it open.
* *Lines*: 2, ssid and passphrase, which is enough to lose one or to mix two.
* `MaxCalls` 2 and `MaxLost` 1 of `ConfigFiles`: one call that leaves something
  behind, or that runs at the same time, and the one that finds it; every property
  relates the files of two calls at most.
* *Values*: two users, texts or addresses, "mine" and "another". In `ConfigSnmp` one
  caller sets either of two users and the other always the second: they agree or
  they differ, and one caller alone changes the user from call to call.
* *Programs*: one boardtest, since it owns the gpio lines, or two setled, which may
  name the same led; all arguments, wrong ones included.
* *Registers*: the commands 80 to 83 of each bank that the library uses; bits that
  no request names are there, so that a lost bit shows.
* *Requests*: one of each kind, chosen so that several share a byte or a bank.

## 5. Where the code departs from its headers and comments

Each departure below is a behaviour of the models. Two of them (lines 57 of
`cpld_rbox.c` and 432 of `libyocto.c`) are shown by a run. Most of the others are
what an exception in a property takes out: without the exception, TLC prints the
behaviour. The rest are in the model and no property speaks of them.

| code | what it does | exception |
|---|---|---|
| `cpld_rbox.c` 57-79 | two set-ups at once both initialise the mutex, and both processes own it ("Creates a shared process lock", line 34) | `SetupsDoNotOverlap`; run `CpldLockRace` |
| `cpld_rbox.c` 138 | errors of pthread are positive numbers, the test is `rc < 0`: `cpldRboxOpen` returns 0 without the lock (`OpenMeansLocked`, which `Exclusion` is proved through, needs `~PthreadCanFail`) | `PthreadCanFail = FALSE` in `CpldRbox` |
| `gpio.c` 152-166, 195 | after `gpioUninit` the bulks still list lines of a chip that was freed, and "No gpio lines reserved" does not fire; the model's `UseStale` | `TransfersAreRight` asks for `Up(p)`, `OutputsKept` for an owner of the line that changes (`owner'[l] = p`); what boardtest makes of it is in `EndsAsItBegan` |
| `gpio.c` 147-149, 181 | when a chip cannot be opened, the error path of `gpioInit` fails the assertion of `gpioUninit` and the process aborts (`CloseNoChip`) | none needed |
| `boardtest.c` 618-652 | boardtest goes on after a `yoctoInit` that failed, and the assertion of `gpioUninit` aborts it at the end | stated by `EndsAsItBegan` |
| `service.c` 72-103 | a stop and a start return when their job is queued: the files may be written while snmpd still runs, which may save its own over them | `upset` in `ZeroMeansServed` |
| `service.c` 134, 162 | two requests at once both report the same restarts | `overlapped` in `NoneTwice`, `CountIsExact` |
| `service.c` 134 | a file that cannot be opened counts as no file, its restarts are reported again | `misread` |
| `service.c` 158 | after a start by hand NRestarts is below the saved count, and restarts go unreported | `byHand` in `CountIsExact` |
| `service.c` 183 | the result of `fclose` is ignored: an empty file refuses every request until the boot | `faulty`; stated by `EmptyUntilBoot` |
| `service.c` 324 | after a refused timestamp `error` is set, the call that turns NTP on again is refused, unnoticed ("Reeanable it") | `faulty` in `NtpKept` |
| `service.c` 291, 321 | an administrator who turns NTP off during a call is overruled at its end, a caller that dies leaves NTP off for good | `faulty` in `NtpKept`; stated by `OffStaysOff` |
| `libyocto.h` 143-147 | "Sets status led off" says the header of `yoctoLedStatusBlink`, and `boardtest.c` 432 prints "LedStatusOff"; on every board with this led the call makes it blink (`libyocto.c` 211-222), and so does `setled status off` (`setled.c` 63), with an exit status of 0 | `BlinksInstead` in `SuccessIsTrue` |
| `libyocto.h` 155-165 | the comments of `yoctoLedWifiOn` ("Sets wifi led off") and `yoctoLedWifiOff` ("on") are swapped; the code, `setled.c` 69 and `boardtest.c` 394-404 agree with the names, which the property follows | none needed |
| `config_wifi.c` 204-210 | a second writer reads the file that the first has half filled and returns 0 with lines lost; a death here loses the file, and no later call brings it back | `upset` in `OkMeansWritten`, `WholeWhenQuiet`; stated by `LostForGood` |
| `config_wifi.c` 188, 195 | a short write and a read error are not errors of the call | `upset` in `OkMeansWritten`, `WholeWhenQuiet` |
| `config_wifi.c` 118 | `configWifiRead` returns 0 even if a buffer is too short | `Answer`; no property on it |
| `config.c` 70 | a text lost by `fclose` is not noticed | `lost`, `upset` |
| `config_8021x.c` 86 | a successful call returns a number of characters | `Code`; no property on it |
| `config_remotejournal.c` 33 | -2 for a refused certificate | `ScriptJournal`; no property on it |
| `config_ssl.c` 39-43 | a failure or a death between two files leaves a pair that does not match | `mishaps` in `PairsMatch` |
| `libyocto.c` 432 | `rc` takes the value of a comparison: after a failed stop the call returns 0 | `upset` in `ZeroMeansServed`; run `ConfigSnmpStop` |
| `libyocto.c` 439 | the start of a second caller finds snmpd running, which has not read its files | `upset` |
| `config_network.c` 60-83 | load, change and save are not one step: a call that sets the gateway brings an older address back | `stale` in `OnlyCallsChangeAddress` |

## 6. Proofs

Checked by tlapm, for every set of processes and every set of requests.

**`CpldRboxProofs`, the lock.** The invariant is

    LockInv == LockTypeOK /\ SetupsDoNotOverlap /\ FlagKept /\ HoldKept

Mutual exclusion is not inductive: from a state in which a process is about to
initialise the mutex while another holds it, the next step breaks it. `FlagKept`
says why this state is not reached: a flag that is 1 stays 1 and the mutex is then
set up, a process beyond the set-up saw the flag 1 or set it, and while a process
is in the set-up no process is beyond it. `HoldKept` ties the mutex to the location
of the process that owns it. `InitEstablishes` and `StepPreserves` (one step
for each action) give `Invariance`, from which follow `TypeCorrect`, `Safety`
(`MutualExclusion`), `Usable` (`MutexUsable`), `Orphaned` (the action property
`OrphanIsForever`) and, when no pthread call fails, `Exclusion`
(`ExclusiveAccess`).

**`CpldRboxProofs`, the clients.** `StepIsLockStep`: each step of a client is a step of the lock
or leaves its variables unchanged; with the initial states this is
`LockImplemented`, `Spec => BootSpec`. All theorems of the lock then hold of its
clients. `DeviceInv` adds `CallPlaced`, which relates the step of a call to its
place in the lock: a call that selects, reads or writes is "held" in the lock, and one that
has returned is not. From it follow `DeviceTypeCorrect`, `Released`
(`ReleasedOnReturn`, also with failing pthread calls) and `SelectedAndFresh`
(`TransfersAreSound`): a client that transfers is alone by
`ExclusiveAccess`, so nobody changed the bank or the register since its own
selection and read. `ClientInv` joins these invariants. With it, `OthersKept`
(`OnlyRequestedBits`) follows from what each request writes (`NewBits`) and from where
(`WriteReaches`).

`BoardImplemented` is the refinement, `Spec => CallsAreAtomic`: for any number of
processes, the clients over the lock implement the board on which each call is one
step. `BoardInitially` maps the initial states, `StepIsBoardStep` each step: a
call begins with `Invoke`, a write takes effect with `Write`, a read with
`Read`, a failure with the step that gives up, and all other steps stutter.
`MapOfDevice` says how a changed register changes the outputs, leds or ports of the
abstract board, `WriteIsEffect` that the write of a request's byte is the effect
`BoardIO` names, `ReadAnswers` that the bits that were read are the abstract
answer, and `AnswerPlaced` that the answer of a call is pending as long as the
call has not had its effect.

**`GpioProofs`.** `AllOrNothing` compares the handles of a process with the owners of
the lines in the kernel, between calls only. `HandlesInv` says it everywhere: the
lines a process owns are those of the bulks it holds, each in one of them
(`Owning`), and how many chips and bulks it has is told by how far its call is
(`Place`), in `gpioInit` those before `at`, in `gpioUninit` those from `at` on.
`StepOfOne` is why the others do not matter: a step of one process changes no line
of another, since a line is released by its owner only. There is a lemma for the
steps of each call (`StartHandles`, `InitHandles`, `UninitHandles`,
`TransferHandles`, `EndHandles`), and together they give `GpioTypeCorrect` and
`NothingHalfReserved` (`AllOrNothing`). `TransferInv` follows the data of a call:
what a read has is the bits of the bulks it has passed (`Seen`), and a write has
given their bits to the outputs of the bulks it has passed and, if it is of one output,
carries the present value of every other one. `TransfersCorrect`
(`TransfersAreRight`) and `OutputsAreKept` (`OutputsKept`) follow from it and from the
lemmas on the tables: the bits of a bulk are those of its lines (`OutputBits`,
`OutputsSet`), one bulk after the other completes the data (`SeenGrows`,
`AllOutputsSeen`), and the reordering puts each input in its place (`AllInputsSeen`). The
first and the last bulk of a side exist by `Least` and `Greatest`, which
the well-foundedness of `<` gives.

The tables are any that satisfy `TableOK`: each bulk has a chip, outputs come after inputs,
and the offset of a bulk, the index of a line and the reordering lead to the number
that the header gives the line (`PlacesAgree`). This is what line 11 and the masks of lines
239-248 must agree on; TLC evaluates it for the real tables. The theorems say what the code
makes of it when bulks are read and written one by one, fail, and lines move. A board
without lines makes no call of `gpio.c`: `HasGpio` is a guard of `BeginInit` and
`BeginUninit`, and the tables of such a board are empty.

**`GpioProofs`, the programs.** `RunsInv` says of each program that the call in
progress, of the lines or of the CPLD, is the one its script has come to (`OnScript`),
that boardtest has all of its lines between an init that returned 0 and its uninit
(`HasLines`), that each output whose last write has returned is off (`StayOff`),
and that the led of a setled that was answered is as a setled asked (`LedIsSet`), or
blinks, where that is what yoctoLedStatusBlink makes of "off" (`BlinksInstead`).
`SuccessIsTrue` alone speaks of programs that ended, and says nothing of how they
got there. `OnScript` makes each step of a program a step of `Gpio`
(`GpioImplemented`, `ProgramsSpec => Spec`), so that the invariants and action
properties above hold of the programs; with the transfers of `TransferInv`, a write
that returned 0 has turned its output off, and the others keep their level.
`StayOff` needs a call after which boardtest turns none on: `BoardTestCalls` and the
lemmas before it (`Joined`, `Tabulated`, `Counts`, `ClearCalls`, `OutputCalls`) find
it in the script, whatever the number of outputs, and `OutputsFall` says that from there on
no step of anybody turns an output on, neither of gpio nor of the CPLD (`CpldEffect`).
`StatusIsTrue` (`SuccessIsTrue`) follows. It holds for one boardtest together with any
number of setled, which the run does not have at once, and for any tables and numbers
of processes; the four boards are those of `Boards`. `EndsInv` follows what a
yoctoInit that failed, or returned 0, leaves for the uninit at the end: in the first case
no chip is open, in the second each chip and bulk that gpioUninit comes to is there
(`Undone`). It gives `EndsAreByInit`, the safety half of `EndsAsItBegan`: boardtest exits
only where its init returned 0, and aborts only where it did not.

**`NbRestartProofs`.** `Bounded` gives the types. `OnceInv` says, while no two requests
met and no file was misread, that at most one request is active, and that what was
reported is at most what the file holds and what occurred; a request that has emptied
the file still carries the old count. It gives `ReportedOnce` (`NoneTwice`).
`ExactInv` relates systemd's counter to the file (or to the copies of the request in
progress) and to the restarts since the last request; it gives `AnswerIsExact`
(`CountIsExact`). `EmptyIsFinal` (`EmptyUntilBoot`) needs no more than the types.

**`ServiceTimeProofs`.** `TimeInv` joins the types with what each call knows
(`CallKept`) and `SomebodyPutsBack`: where nothing is faulty and NTP is off but
configured to be on, some call in progress has found it on and will turn it on again.
Several callers may be past their `disable` at once; that each of them need not, but
one of them does, is what makes `NtpIsKept` (`NtpKept`) inductive. `ZeroIsSet`
(`ZeroMeansSet`) and `OffIsKept` (`OffStaysOff`) follow from `CallKept`.

**`ConfigWifiProofs`.** `WriterInv` joins `OneCreator` and `OneWriterPerFile` with
`HandlesOK`, which says what files a process can have open where it is; `OneWriter`
holds for any number of processes, files and lines, with failures and deaths.
`ReadInv` adds `FilesOK` (types), `OneOwner` (the values of a
file all belong to one writer, or are those the board was delivered with), `Appends` (a file grows by its one writer at its end),
`FromFile` (what a reader has got is in the file that it has open) and `Unread`; from it
follow `WifiTypeCorrect` and `NeverMixed` (`NoMixedRead`). A writer that removes the
file does not disturb a reader, whose inode lives on. `LossIsFinal` is `LostForGood`.
`WholeInv` says, as long as nothing upset the writers, that one writes at a time
(`OneWriting`), that the file is whole outside of its writing (`WholeOutside`), and
how many lines each text of the writer has (`Progress`): the copy is as far as the
file is read, the file as far as the copy is written. `QuietIsWhole`
(`WholeWhenQuiet`) follows. `OkMeansWritten` speaks of the step that returns 0: after it
the name refers to a file that is the whole original with the values of this caller.
An invariant could not say it, since the next writer may come before this one has
returned. In `OkIsWritten` the only step that returns 0 and upsets nothing is the end of
`configCopyTmpFile` (`FillEnd`); the copy is then complete by `Progress`, the file has
as many of its lines as it has, and `WholeIsText` makes them the text.

**`ConfigFilesProofs`.** `FilesInv` adds to the types that what a caller has left is the
end of the script of its request (`Follows`), so that `Done` says how far it is; it
gives `FilesTypeCorrect`. The lemmas before it write the scripts out
(`Script8021xIs`, `ScriptOf`) and say what their instructions are. `CaInv` is
`NoDanglingCa` and `CaWritten`: a caller that comes to the configuration with an
authority has created the file of the authority. Nothing removes that file, so it
does not matter who else writes; `CaNeverDangles` needs neither that calls succeed nor
that they are apart. `SslInv` says that two writers are apart as long as none met, and
that each file that a writer of ssl files has done holds its text (`SslWritten`):
`OkFilesAreWritten` (`OkMeansWritten`). `MatchInv` says, while nothing failed, that
the four files match or some caller is midway, with both texts checked and a file to
write: `PairsMatchWhenQuiet` (`PairsMatch`).

**`ConfigSnmpProofs`.** `SnmpInv` joins the types with `Alone` (a call that nothing
upset is the only one) and `Reached`, which says what an undisturbed call has
brought about where it is: snmpd goes down, is down, has one file, has both, will serve
the user. It gives `SnmpTypeCorrect` and `ZeroIsServed` (`ZeroMeansServed`).
`NobodyLeavesItStopped` is the safety half of `StoppedIsTransient`: where no start
failed and no caller died, snmpd runs, or its start is queued, or a call in
progress will start it (`SomebodyStarts`), whatever the order of the jobs.

**`ConfigNetworkProofs`.** `CopiesOK` follows a key file from load to save: a copy that
is about to be saved has the address of its call or, unless it is stale, the one
the file still holds. `AddressIsFromCall` is `OnlyCallsChangeAddress`.

What is assumed: the named assumptions of the modules (`LockAssumption`,
`DeviceAssumption`, `GpioAssumption`, `ProgramsAssumption` (the programs are setled and at most
one boardtest, which may make the calls of its script), `NbRestartAssumption`, `TimeAssumption`, `WifiAssumption`,
`FilesAssumption`, `SnmpAssumption`, `NetworkAssumption`), which TLC evaluates in each run, `~PthreadCanFail` in the
theorems of `CpldRboxProofs` that name it, and, as part of
`BootSpec`, that two set-ups do not overlap.

Only model-checked: liveness (`LockMovesOn`, `StoppedIsTransient`, `EndsAsItBegan`) is
out of the prover's reach, as is what a recursive definition or a fold computes for
every input. Every other property of the runs that pass is a theorem.

## 7. What is not modelled, and why

* `daemon.c`: a single call of `sd_notify`, no state of the library.
* `logger.c`, and every log message: no property is about it.
* the functions of `libyocto.c` that only hand their arguments on: a call of the
  component below is a call of the function.
* the tests of `boardtest.c` that its `main` has in a comment (services,
  configurations).
* a second `gpioInit` without an uninit: no caller does this.
* `serviceManage` for other units than snmpd: it changes nothing of the library's own.
* lengths of texts and buffers, descriptors and memory that are not released: the
  data is abstract. The hazards in `PROJECT.json` name these lines.
* threads of one process: see the plan.

## 8. Plan

Done, in this order: lock, clients, abstract board; gpio; services; configurations;
programs over gpio, the abstract board and sysfs; the queue of systemd; the proofs of
section 6. Next:

1. *Model*: threads of a process that share `shmd`, `shmInitOk` and the gpio
   globals (`CpldThreads`, over `CpldLock`).
2. *Abstract specifications*: a configuration as one register that calls write
   atomically, which `ConfigNetwork` and `ConfigWifi` implement when
   writers do not meet; a restart counter that hands each restart out once.
3. *Prove*: that the implementations of item 2 implement them, step by step.
