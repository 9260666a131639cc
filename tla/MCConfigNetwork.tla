--------------------------- MODULE MCConfigNetwork ---------------------------
(* A small instance of ConfigNetwork.                                      *)
EXTENDS ConfigNetwork, TLC

CONSTANTS p1, p2, v1, v2, eth0, eth1, can0

TwoProcs == {p1, p2}
Values == {v1, v2}
TwoInterfaces == {eth0, eth1}

Symmetric ==
    Permutations(Proc) \cup Permutations(Value) \cup Permutations(Interface)

=============================================================================
