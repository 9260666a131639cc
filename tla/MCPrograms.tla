----------------------------- MODULE MCPrograms -----------------------------
(* Two setled at once, or one boardtest, on the four boards.               *)
EXTENDS Programs

CONSTANTS p1, p2

TwoProcs == {p1, p2}

SetLeds == [name : {"setled"}, led : Leds \cup {"?"}, state : {"on", "off", "?"}]

\* A setled with wrong arguments has ended: boardtest is alone.
Alone ==
    [p \in TwoProcs |-> IF p = p1 THEN [name |-> "boardtest"]
                        ELSE [name |-> "setled", led |-> "?", state |-> "?"]]

Pairs ==
    {[p \in TwoProcs |-> IF p = p1 THEN a ELSE b] : a, b \in SetLeds} \cup {Alone}

Requests == [b \in Boards |-> GpioCalls(b)]

NoInput == [b \in Boards |-> {}]

=============================================================================
