---------------------------- MODULE MCConfigFiles ----------------------------
(* A small instance of ConfigFiles.                                        *)
EXTENDS ConfigFiles, TLC

CONSTANTS p1, p2, new, other

TwoProcs == {p1, p2}
Texts == {new, other}

Symmetric == Permutations(Proc)

Asked(op, text, ca, valid) ==
    [op |-> op, text |-> text, ca |-> ca, valid |-> valid]

\* 802.1x with and without an authority; ssl files that are accepted, or
\* refused for the certificate; and each of the other calls.
Requests ==
    {Asked("8021x", new, TRUE, Part), Asked("8021x", other, FALSE, Part),
     Asked("ssl", new, FALSE, Part), Asked("ssl", other, FALSE, Part),
     Asked("ssl", other, FALSE, {"key"}),
     Asked("journal", new, FALSE, Part \ {"cert"})}
    \cup {Asked(op, new, FALSE, {}) : op \in {"ntp", "ntpKeys", "enable",
                                             "disable", "enabled"}}

=============================================================================
