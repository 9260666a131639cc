----------------------------- MODULE RboxRequest -----------------------------
(***************************************************************************)
(* The calls that reach the CPLD of the RBOX630: the four serial ports     *)
(* (com_rbox.c), the eight digital outputs (gpio_rbox.c) and the leds      *)
(* (led_rbox.c).  A byte is the set of its bits that are 1.                *)
(***************************************************************************)
EXTENDS Naturals

Bit == 0 .. 7
Byte == SUBSET Bit

\* data >> n
Shift(byte, n) == {b - n : b \in {i \in byte : i >= n}}

Port == 1 .. 4
TypeBits == {0, 1}

(***************************************************************************)
(* A request is a record: its op and the arguments of the C function.  Of  *)
(* an argument that is only tested against 0, the model keeps the test.    *)
(***************************************************************************)
ComOps == {"comRboxConfigWrite", "comRboxConfigRead"}
IdOps == {"gpioRboxRead", "gpioRboxWrite"}

\* The arguments that the functions accept before they open the device.
Valid(r) ==
    /\ r.op \in ComOps => r.id \in Port
    /\ r.op = "comRboxConfigWrite" => r.type \in SUBSET TypeBits \ {{}}
    /\ r.op \in IdOps => r.id \in Bit
    /\ r.op = "ledRboxSet" => r.led \in Bit

\* A process that is not in a call, and what a call returns: its result and
\* the bytes it stored through its pointer arguments.
NoCall == [op |-> "none"]

Pending == [rc |-> "pending", data |-> <<>>]
Error == [rc |-> "-1", data |-> <<>>]
Ok(bytes) == [rc |-> "0", data |-> bytes]

=============================================================================
