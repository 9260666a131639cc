----------------------------- MODULE MCCpldLock -----------------------------
(* Small instances of CpldLock.                                            *)
EXTENDS CpldLock, TLC

CONSTANTS p1, p2, p3

TwoProcs == {p1, p2}
ThreeProcs == {p1, p2, p3}

\* The processes are interchangeable; used where no liveness is checked.
ProcSymmetry == Permutations(Proc)

=============================================================================
