----------------------------- MODULE MCCpldRbox -----------------------------
(* Small instances of CpldRbox.                                            *)
EXTENDS CpldRbox, TLC

CONSTANTS p1, p2

TwoProcs == {p1, p2}

\* Requests that share the byte of the outputs, the byte of the leds and the
\* register of a port; one port does not exist.
MCRequest ==
    {[op |-> "gpioRboxWriteAll", data |-> {1, 7}],
     [op |-> "gpioRboxWrite", id |-> 7, on |-> FALSE],
     [op |-> "gpioRboxRead", id |-> 7],
     [op |-> "ledRboxSet", led |-> 1, on |-> FALSE],
     [op |-> "comRboxConfigWrite", id |-> 2, type |-> {1}, term |-> TRUE],
     [op |-> "comRboxConfigWrite", id |-> 2, type |-> {}, term |-> FALSE],
     [op |-> "comRboxConfigRead", id |-> 2],
     [op |-> "comRboxConfigRead", id |-> 5]}

\* Outputs off but for the last, leds off, ports with an unknown bit set.
MCPowerOn ==
    [a \in Register |->
        CASE a = <<CPLD_BANK_GPO, CPLD_COMMAND_GPO>> -> 0 .. 6
          [] a = <<CPLD_BANK_SYS, CPLD_COMMAND_LED>> -> Bit
          [] a[1] = CPLD_BANK_COM                    -> {0, 5}
          [] OTHER                                   -> {}]

ProcSymmetry == Permutations(Proc)

=============================================================================
