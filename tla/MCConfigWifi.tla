---------------------------- MODULE MCConfigWifi ----------------------------
(* A small instance of ConfigWifi: a file of two lines.                   *)
EXTENDS ConfigWifi, TLC

CONSTANTS p1, p2, f1, f2, f3, Image

TwoProcs == {p1, p2}
ThreeFiles == {f1, f2, f3}

\* Processes and files are interchangeable.
Symmetric == Permutations(Proc) \cup Permutations(Inode)

TwoLines ==
    <<[key |-> "ssid", value |-> Image],
      [key |-> "wpa_passphrase", value |-> Image]>>

=============================================================================
