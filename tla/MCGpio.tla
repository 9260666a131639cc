------------------------------- MODULE MCGpio -------------------------------
(* One process, on each of the two boards that have gpio lines.            *)
EXTENDS Gpio, Boards

CONSTANTS p1

OneProc == {p1}

\* RADIPV3: outputs in both bulks, off that are on by default and conversely.
\* RBOX630: its outputs are in the CPLD.
Requests ==
    [b \in GpioBoards |->
        IF b = "RBOX630"
        THEN {[op |-> "inputReadAll"], [op |-> "inputRead", id |-> 3]}
        ELSE {[op |-> "inputRead", id |-> 2],
              [op |-> "outputReadAll"],
              [op |-> "outputRead", id |-> 4],
              [op |-> "outputWriteAll", data |-> {1, 2, 7}],
              [op |-> "outputWrite", id |-> 4, on |-> TRUE],
              [op |-> "outputWrite", id |-> 3, on |-> FALSE]}]

\* Every combination of the eight inputs of the RBOX630.
MovingInputs ==
    [b \in GpioBoards |->
        IF b = "RBOX630" THEN {12, 13, 36, 37, 150, 151, 152, 153} ELSE {26}]

=============================================================================
