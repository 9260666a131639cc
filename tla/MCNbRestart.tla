---------------------------- MODULE MCNbRestart ----------------------------
(* Small instances of NbRestart.                                           *)
EXTENDS NbRestart, TLC

CONSTANTS p1, p2

TwoProcs == {p1, p2}

Symmetric == Permutations(Proc)

=============================================================================
