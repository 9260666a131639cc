--------------------------- MODULE MCServiceTime ---------------------------
(* Small instances of ServiceTime.                                         *)
EXTENDS ServiceTime, TLC

CONSTANTS p1, p2, p3, date, bad

ThreeProcs == {p1, p2, p3}
Dates == {date}
AnyNumber == {date, bad}

Symmetric == Permutations(Proc)

=============================================================================
