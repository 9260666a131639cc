------------------------------- MODULE Boards -------------------------------
(***************************************************************************)
(* The boards the library is built for, and what the build selects for     *)
(* each of them: the tables of gpio.c and the macros of libyocto_config.h. *)
(***************************************************************************)
EXTENDS Integers, Sequences, TLC

Boards == {"AMD64", "RBOX630", "GWS501", "RADIPV3"}

\* The boards whose digital inputs or outputs are gpio lines.
GpioBoards == {"RBOX630", "RADIPV3"}

In(c, ls) == [chip |-> c, lines |-> ls, out |-> FALSE, on |-> {}]

\* The lines at the places of ones are 1 by default.
Out(c, ls, ones) == [chip |-> c, lines |-> ls, out |-> TRUE, on |-> ones]

\* The data of the RADIPV3 is in the order of its bulks.
AsRead == [n \in 0 .. 7 |-> n]

\* The masks and shifts of gpioInputReadAll for the RBOX630.
ReorderRBOX630 ==
    0 :> 2 @@ 1 :> 3 @@ 2 :> 1 @@ 3 :> 4 @@ 4 :> 6 @@ 5 :> 0 @@ 6 :> 5 @@ 7 :> 7

(***************************************************************************)
(* For each board:                                                         *)
(*   chips     the length of gChips                                        *)
(*   bulks     gInputs then gOutputs, in the order of the requests; a bulk *)
(*             is a chip, its lines, and their defaults if it is an output *)
(*   reorder   the new place of each bit of the inputs, once they are read *)
(*   inputs,   the line of input 0, 1, ... and of output 0, 1, ... as line *)
(*   outputs   11 and the header number them, whatever the tables say      *)
(***************************************************************************)
GpioTable ==
    [b \in GpioBoards |->
        IF b = "RBOX630"
        THEN [chips   |-> 3,
              bulks   |-> <<In(1, <<12, 13>>), In(2, <<36, 37>>),
                            In(3, <<150, 151, 152, 153>>)>>,
              reorder |-> ReorderRBOX630,
              inputs  |-> <<151, 36, 12, 13, 37, 152, 150, 153>>,
              outputs |-> <<>>]
        ELSE [chips   |-> 1,
              bulks   |-> <<In(1, <<24, 25>>), In(1, <<26>>),
                            Out(1, <<17, 18, 19, 20>>, {4}), Out(1, <<21>>, {1})>>,
              reorder |-> AsRead,
              inputs  |-> <<24, 25, 26>>,
              outputs |-> <<17, 18, 19, 20, 21>>]]

\* A board on which gpio.c is not built.
NoGpio == [chips |-> 0, bulks |-> <<>>, reorder |-> AsRead,
           inputs |-> <<>>, outputs |-> <<>>]

\* For every board.
AllTables == [b \in Boards |-> IF b \in GpioBoards THEN GpioTable[b] ELSE NoGpio]

-----------------------------------------------------------------------------
(***************************************************************************)
(* What a call of libyocto.h comes to on each board: "gpio" (gpio.c),      *)
(* "cpld" (the rbox directory), "sysfs" (led.c), "nothing" (0 at once), or *)
(* "none" (not there: the call returns -1).                                *)
(***************************************************************************)
InputCount ==
    [b \in Boards |-> CASE b = "RBOX630" -> 8 [] b = "RADIPV3" -> 3 [] OTHER -> 0]

OutputCount ==
    [b \in Boards |-> CASE b = "RBOX630" -> 8 [] b = "RADIPV3" -> 5 [] OTHER -> 0]

Leds == {"alarm", "status", "wifi"}

InitBy == [b \in Boards |-> IF b \in GpioBoards THEN "gpio" ELSE "nothing"]
InputBy == [b \in Boards |-> IF b \in GpioBoards THEN "gpio" ELSE "none"]
OutputBy == [InputBy EXCEPT !["RBOX630"] = "cpld"]

LedBy ==
    [b \in Boards |->
        CASE b = "RBOX630" ->
                [l \in Leds |-> IF l = "wifi" THEN "sysfs" ELSE "cpld"]
          [] b \in {"GWS501", "RADIPV3"} ->
                [l \in Leds |-> IF l = "status" THEN "sysfs" ELSE "none"]
          [] OTHER -> [l \in Leds |-> "none"]]

=============================================================================
