------------------------------- MODULE BoardIO -------------------------------
(***************************************************************************)
(* What the RBOX630 functions of the library promise to their callers,     *)
(* without the CPLD, its banks and its lock: the board has outputs, leds   *)
(* and serial ports, and a call reads or changes exactly what it names, at *)
(* one instant between its invocation and its return.                      *)
(***************************************************************************)
EXTENDS RboxRequest

CONSTANTS Proc, Request

VARIABLES
    outputs,   \* the digital outputs that are on
    leds,      \* the leds that are lit
    com,       \* the type and the termination of each serial port
    call,      \* the request each process is waiting for
    answer     \* what the library answers

boardVars == <<outputs, leds, com>>
ioVars == <<outputs, leds, com, call, answer>>

ComConfig == [type : SUBSET TypeBits, term : BOOLEAN]

IOInit ==
    /\ outputs \in Byte
    /\ leds \in Byte
    /\ com \in [Port -> ComConfig]
    /\ call = [p \in Proc |-> NoCall]
    /\ answer = [p \in Proc |-> Pending]

-----------------------------------------------------------------------------
With(set, i, on) == IF on THEN set \cup {i} ELSE set \ {i}

\* What a successful call does to the board.
Effect(r) ==
    /\ outputs' = CASE r.op = "gpioRboxWriteAll" -> r.data
                    [] r.op = "gpioRboxWrite"    -> With(outputs, r.id, r.on)
                    [] OTHER                     -> outputs
    /\ leds' = IF r.op = "ledRboxSet" THEN With(leds, r.led, r.on) ELSE leds
    /\ com' = IF r.op = "comRboxConfigWrite"
                THEN [com EXCEPT ![r.id] = [type |-> r.type, term |-> r.term]]
                ELSE com

\* The byte of a boolean.
One(on) == IF on THEN {0} ELSE {}

\* What it stores for its caller.
Stored(r) ==
    CASE r.op = "gpioRboxReadAll"   -> <<outputs>>
      [] r.op = "gpioRboxRead"      -> <<One(r.id \in outputs)>>
      [] r.op = "comRboxConfigRead" -> <<com[r.id].type, One(com[r.id].term)>>
      [] OTHER                      -> <<>>

-----------------------------------------------------------------------------
Answer(p, a) == answer' = [answer EXCEPT ![p] = a]

Invoke(p, r) ==
    /\ call[p] = NoCall
    /\ call' = [call EXCEPT ![p] = r]
    /\ Answer(p, IF Valid(r) THEN Pending ELSE Error)
    /\ UNCHANGED boardVars

InProgress(p) == call[p] # NoCall /\ answer[p] = Pending

Perform(p) ==
    /\ InProgress(p)
    /\ Effect(call[p])
    /\ Answer(p, Ok(Stored(call[p])))
    /\ UNCHANGED call

\* A call that reports an error had its whole effect or none.
Fail(p) ==
    /\ InProgress(p)
    /\ Effect(call[p]) \/ UNCHANGED boardVars
    /\ Answer(p, Error)
    /\ UNCHANGED call

\* The call returns its answer, or its caller dies with or without one.
Leave(p) ==
    /\ call[p] # NoCall
    /\ call' = [call EXCEPT ![p] = NoCall]
    /\ Answer(p, Pending)
    /\ UNCHANGED boardVars

IONext ==
    \E p \in Proc :
        \/ \E r \in Request : Invoke(p, r)
        \/ Perform(p)
        \/ Fail(p)
        \/ Leave(p)

IOSpec == IOInit /\ [][IONext]_ioVars

=============================================================================
