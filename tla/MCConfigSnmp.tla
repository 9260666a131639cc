---------------------------- MODULE MCConfigSnmp ----------------------------
(* Small instances of ConfigSnmp.                                          *)
EXTENDS ConfigSnmp

CONSTANTS p1, p2, new, other

OneProc == {p1}
TwoProcs == {p1, p2}

\* One caller changes the user, the other always sets the same.
MCGives == [p \in Proc |-> IF p = p1 THEN {new, other} ELSE {other}]

=============================================================================
