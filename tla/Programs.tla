------------------------------ MODULE Programs ------------------------------
(***************************************************************************)
(* The programs of the repository on each of the boards: boardtest, which  *)
(* tries the digital inputs and outputs, and setled, which sets one led.   *)
(*                                                                         *)
(* A program is a sequence of calls of libyocto.h.  On each board a call   *)
(* comes to gpio.c (module Gpio), to the CPLD, or to sysfs (led.c).  The   *)
(* CPLD is taken at its promise, the abstract board of BoardIO, which      *)
(* CpldRbox implements.                                                    *)
(***************************************************************************)
EXTENDS Gpio, Boards

CONSTANTS Together   \* the programs that run at the same time: one each

VARIABLES
    program,   \* what each process runs
    pos,       \* the number of the call it makes, or comes to
    failed,    \* whether its status tells of a failure
    initOk,    \* whether yoctoInit returned 0, or is not called
    outputs,   \* the outputs and leds of the RBOX630 that are on
    leds,
    com,       \* its serial ports, which these programs leave alone
    ioCall,    \* the call of each process that the CPLD has to do
    answer,
    trigger    \* the trigger of each led of sysfs

runVars == <<program, pos, failed, initOk>>
cpldVars == <<outputs, leds, com, ioCall, answer>>
vars == <<gpioVars, runVars, cpldVars, trigger>>

IO == INSTANCE BoardIO WITH call <- ioCall, Request <- {}

LED_RBOX_ACTREADY == 0
LED_RBOX_ALARM == 6

-----------------------------------------------------------------------------
(* The calls of a program.                                                 *)

Read(op, i) == [op |-> op, id |-> i]
Write(i, on) == [op |-> "outputWrite", id |-> i, on |-> on]

TestDigitalInput(b) ==
    [k \in 1 .. InputCount[b] |-> Read("inputRead", k - 1)]
    \o <<[op |-> "inputReadAll"]>>

\* One output after the other is set.
SetEach(n, on) == [k \in 1 .. n |-> Write(k - 1, on)]

\* Each output is read, set to 0 and read again.
Clear(n) ==
    [k \in 1 .. 3 * n |->
        IF k % 3 = 2 THEN Write((k - 1) \div 3, FALSE)
                     ELSE Read("outputRead", (k - 1) \div 3)]

TestDigitalOutput(b) ==
    LET n == OutputCount[b]
    IN  SetEach(n, TRUE) \o SetEach(n, FALSE)
        \o <<[op |-> "outputWriteAll", data |-> 0 .. 7], [op |-> "outputReadAll"]>>
        \o Clear(n) \o <<[op |-> "outputReadAll"]>>

BoardTest ==
    [b \in Boards |->
        <<[op |-> "init"]>>
        \o (IF InputCount[b] > 0 THEN TestDigitalInput(b) ELSE <<>>)
        \o (IF OutputCount[b] > 0 THEN TestDigitalOutput(b) ELSE <<>>)
        \o <<[op |-> "uninit"]>>]

\* Wrong arguments, or a led that the board does not have: no call.
SetLed(b, run) ==
    IF run.led \in Leds /\ run.state \in {"on", "off"} /\ LedBy[b][run.led] # "none"
    THEN <<[op |-> "led", led |-> run.led, on |-> run.state = "on"]>>
    ELSE <<>>

\* Who does a call on a board.
DoneBy(b, c) ==
    CASE c.op \in {"init", "uninit"}            -> InitBy[b]
      [] c.op \in {"inputRead", "inputReadAll"} -> InputBy[b]
      [] c.op = "led"                           -> LedBy[b][c.led]
      [] OTHER                                  -> OutputBy[b]

\* The reads and writes of boardtest that gpio.c does.
GpioCalls(b) ==
    {c \in Range(BoardTest[b]) :
        c.op \notin {"init", "uninit"} /\ DoneBy(b, c) = "gpio"}

\* boardtest is alone with the digital inputs and outputs of its board.
ASSUME ProgramsAssumption ==
    /\ Board \subseteq Boards
    /\ \A b \in Board :
          /\ OutputBy[b] # "cpld" => Len(Table[b].outputs) = OutputCount[b]
          /\ GpioCalls(b) \subseteq Request[b]
    /\ \A runs \in Together :
          /\ \A p \in Proc : runs[p].name \in {"boardtest", "setled"}
          /\ \A p, q \in Proc :
                runs[p].name = "boardtest" /\ runs[q].name = "boardtest" => p = q

Script(p) ==
    IF program[p].name = "boardtest" THEN BoardTest[board]
                                     ELSE SetLed(board, program[p])

Exited(p) == pos[p] > Len(Script(p))

Call(p) == Script(p)[pos[p]]

Impl(c) == DoneBy(board, c)

-----------------------------------------------------------------------------
\* The trigger that a led of sysfs is given.
Trigger(led, on) ==
    CASE led = "wifi"   -> IF on THEN "phy0tpt" ELSE "none"
      [] led = "status" -> IF on THEN "default-on" ELSE "heartbeat"

\* The status led of the RBOX630 blinks when its bit is 1: yoctoLedStatusBlink.
CpldLed(led, on) ==
    IF led = "alarm" THEN [op |-> "ledRboxSet", led |-> LED_RBOX_ALARM, on |-> on]
    ELSE [op |-> "ledRboxSet", led |-> LED_RBOX_ACTREADY, on |-> ~on]

CpldRequest(c) ==
    CASE c.op = "outputRead"     -> [op |-> "gpioRboxRead", id |-> c.id]
      [] c.op = "outputReadAll"  -> [op |-> "gpioRboxReadAll"]
      [] c.op = "outputWrite"    -> [op |-> "gpioRboxWrite", id |-> c.id, on |-> c.on]
      [] c.op = "outputWriteAll" -> [op |-> "gpioRboxWriteAll", data |-> c.data]
      [] c.op = "led"            -> CpldLed(c.led, c.on)

-----------------------------------------------------------------------------
ProgramsInit ==
    /\ Init
    /\ program \in Together
    /\ pos = [p \in Proc |-> 1]
    /\ failed = [p \in Proc |-> Script(p) = <<>>]
    /\ initOk = [p \in Proc |-> program[p].name # "boardtest"]
    /\ outputs = {}
    /\ leds \in {{}, {LED_RBOX_ACTREADY, LED_RBOX_ALARM}}
    /\ com = [n \in IO!Port |-> [type |-> {}, term |-> FALSE]]
    /\ ioCall = [p \in Proc |-> IO!NoCall]
    /\ answer = [p \in Proc |-> IO!Pending]
    /\ trigger = [l \in Leds |-> "boot"]

\* status is that of the last call.
AdvanceForgetful(p, bad) ==
    /\ pos' = [pos EXCEPT ![p] = @ + 1]
    /\ failed' = [failed EXCEPT ![p] = bad]

\* A call that fails is made again.
AdvanceStubborn(p, bad) ==
    /\ pos' = [pos EXCEPT ![p] = IF bad THEN @ ELSE @ + 1]
    /\ failed' = [failed EXCEPT ![p] = @ \/ bad]

\* status keeps every failure.
Advance(p, bad) ==
    /\ pos' = [pos EXCEPT ![p] = @ + 1]
    /\ failed' = [failed EXCEPT ![p] = @ \/ bad]

\* Between two calls, the next of which is done by impl.
Calls(p, impl) ==
    /\ pc[p] = "idle"
    /\ ~Exited(p)
    /\ Impl(Call(p)) = impl

GpioCall(p) ==
    /\ Calls(p, "gpio")
    /\ CASE Call(p).op = "init"   -> BeginInit(p)
         [] Call(p).op = "uninit" -> BeginUninit(p)
         [] OTHER -> BeginRead(p, Call(p)) \/ BeginWriteAll(p, Call(p))
    /\ UNCHANGED <<runVars, cpldVars, trigger>>

GpioStep(p) ==
    /\ CallStep(p)
    /\ UNCHANGED <<runVars, cpldVars, trigger>>

GpioReturn(p) ==
    /\ Return(p)
    /\ Advance(p, rc[p] # 0)
    /\ initOk' = [initOk EXCEPT ![p] = @ \/ (call[p].op = "init" /\ rc[p] = 0)]
    /\ UNCHANGED <<program, cpldVars, trigger>>

CpldCall(p) ==
    /\ Calls(p, "cpld")
    /\ IO!Invoke(p, CpldRequest(Call(p)))
    /\ UNCHANGED <<gpioVars, runVars, trigger>>

CpldStep(p) ==
    /\ IO!Perform(p) \/ IO!Fail(p)
    /\ UNCHANGED <<gpioVars, runVars, trigger>>

CpldReturn(p) ==
    /\ answer[p] # IO!Pending
    /\ IO!Leave(p)
    /\ Advance(p, answer[p] = IO!Error)
    /\ UNCHANGED <<gpioVars, program, initOk, trigger>>

\* ledSysSetTrigger: open, write and close.  An open or a write that fails, or
\* a write that is short, is an error, whatever the led made of it.
SetTrigger(p) ==
    /\ Calls(p, "sysfs")
    /\ LET c == Call(p)
           written == [trigger EXCEPT ![c.led] = Trigger(c.led, c.on)]
       IN  \/ trigger' = written /\ Advance(p, FALSE)
           \/ trigger' \in {trigger, written} /\ Advance(p, TRUE)
    /\ UNCHANGED <<gpioVars, program, initOk, cpldVars>>

\* yoctoInit and yoctoUninit where there are no gpio lines.
Nothing(p) ==
    /\ Calls(p, "nothing")
    /\ Advance(p, FALSE)
    /\ initOk' = [initOk EXCEPT ![p] = TRUE]
    /\ UNCHANGED <<gpioVars, program, cpldVars, trigger>>

Step(p) ==
    \/ GpioCall(p)
    \/ GpioStep(p)
    \/ GpioReturn(p)
    \/ CpldCall(p)
    \/ CpldStep(p)
    \/ CpldReturn(p)
    \/ SetTrigger(p)
    \/ Nothing(p)

ProgramsNext == UNCHANGED board /\ \E p \in Proc : Step(p)

\* A program that has been started goes on, and its calls return.
ProgramsSpec ==
    /\ ProgramsInit
    /\ [][ProgramsNext]_vars
    /\ \A p \in Proc : WF_vars(UNCHANGED board /\ Step(p))

-----------------------------------------------------------------------------
(* Properties.                                                             *)

\* What the user of the board sees of a led.
ShownBySysfs(t) ==
    CASE t = "heartbeat" -> "blinks"
      [] t = "none"      -> "off"
      [] OTHER           -> "on"

ShownByCpld(led) ==
    IF led = "alarm" THEN IF LED_RBOX_ALARM \in leds THEN "on" ELSE "off"
                     ELSE IF LED_RBOX_ACTREADY \in leds THEN "blinks" ELSE "on"

Shown(led) ==
    IF LedBy[board][led] = "sysfs" THEN ShownBySysfs(trigger[led])
                                   ELSE ShownByCpld(led)

\* What setled is asked for: its own word.
Asked(run) == run.state

(***************************************************************************)
(* setled status off calls yoctoLedStatusBlink (setled.c 63), of which     *)
(* libyocto.h 143-147 says "Sets status led off" and boardtest.c 432       *)
(* "LedStatusOff".  On every board that has this led it blinks instead     *)
(* (libyocto.c 211-222): there is no call that makes it dark.              *)
(***************************************************************************)
BlinksInstead(run) == run.led = "status" /\ run.state = "off"

\* What it gets when nothing fails.
Obtained(run) == IF BlinksInstead(run) THEN "blinks" ELSE Asked(run)

OutputsOn == IF OutputBy[board] = "cpld" THEN outputs ELSE On(OutputOrder)

Succeeds(p) == Exited(p) /\ ~failed[p]

(***************************************************************************)
(* A program whose exit status is 0 has done its work on every board: the  *)
(* led of setled is as it, or another setled for the same led, asked, but  *)
(* for a status led that is asked off: it blinks (BlinksInstead), against  *)
(* what libyocto.h 143-147 says of it.  Alarm and wifi are what the names  *)
(* of the calls say, on or off; the comments of libyocto.h 155-165 have    *)
(* the two of wifi the wrong way round.  boardtest, whose last writes turn *)
(* each output off, leaves none of them on, although each write of an      *)
(* output by gpio writes all of them, and an earlier call may fail at any  *)
(* point (setled.c 54-77, boardtest.c 252-347 and 615-655).                *)
(***************************************************************************)
SuccessIsTrue ==
    \A p \in Proc :
        Succeeds(p) =>
            IF program[p].name = "setled"
            THEN \E q \in Proc : /\ program[q].name = "setled"
                                 /\ program[q].led = program[p].led
                                 /\ Shown(program[p].led) = Obtained(program[q])
            ELSE OutputsOn = {}

(***************************************************************************)
(* Every program ends.  boardtest goes on after a yoctoInit that failed,   *)
(* reads bulks that may list lines of a closed chip, and calls yoctoUninit *)
(* in any case (boardtest.c 618-652): the assertion of gpioUninit then     *)
(* aborts it, so that it exits if and only if yoctoInit returned 0.        *)
(***************************************************************************)
EndsAsItBegan ==
    \A p \in Proc :
        <>(IF initOk[p] THEN Exited(p) ELSE pc[p] = "aborted")

=============================================================================
