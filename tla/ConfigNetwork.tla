---------------------------- MODULE ConfigNetwork ----------------------------
(***************************************************************************)
(* config_network.c: the address and the gateway of an interface, in the   *)
(* key file of systemd-networkd.  A writer loads the file, changes its     *)
(* copy and saves it; GLib saves to another file that it renames, so that  *)
(* a file is replaced in one step.  Nothing is locked in between.          *)
(***************************************************************************)
CONSTANTS
    Proc,
    Value,      \* addresses and gateways
    Interface,  \* the interfaces that the board has a file for
    Unknown,    \* another interface
    CanFail     \* loads and saves may fail, and callers may die

\* "" as an argument, no key in a file.
None == "none"

ASSUME NetworkAssumption ==
    /\ Unknown \notin Interface
    /\ None \notin Value
    /\ CanFail \in BOOLEAN

Setting == [address : Value \cup {None}, gateway : Value \cup {None}]

VARIABLES
    file,    \* the file of each interface
    pc,
    name,    \* the interface of the call
    args,    \* the address and the gateway to write
    keyfile, \* the copy that the call has loaded
    rc,
    stale    \* whether another call has saved the file since the load

networkVars == <<file, pc, name, args, keyfile, rc, stale>>

Blank == [address |-> None, gateway |-> None]

NetworkTypeOK ==
    /\ file \in [Interface -> Setting]
    /\ pc \in [Proc -> {"idle", "load", "save", "get", "done"}]
    /\ name \in [Proc -> Interface \cup {Unknown}]
    /\ args \in [Proc -> Setting]
    /\ keyfile \in [Proc -> Setting]
    /\ rc \in [Proc -> {"0", "-1"}]
    /\ stale \in [Proc -> BOOLEAN]

Init ==
    /\ file \in [Interface -> [address : Value, gateway : {None}]]
    /\ pc = [p \in Proc |-> "idle"]
    /\ name = [p \in Proc |-> Unknown]
    /\ args = [p \in Proc |-> Blank]
    /\ keyfile = [p \in Proc |-> Blank]
    /\ rc = [p \in Proc |-> "0"]
    /\ stale = [p \in Proc |-> FALSE]

Go(p, loc) == pc' = [pc EXCEPT ![p] = loc]

Ends(p, code) == Go(p, "done") /\ rc' = [rc EXCEPT ![p] = code]

-----------------------------------------------------------------------------
(* configNetworkWrite.                                                     *)

BeginWrite(p, interface, setting) ==
    /\ pc[p] = "idle"
    /\ interface \in Interface
    /\ name' = [name EXCEPT ![p] = interface]
    /\ args' = [args EXCEPT ![p] = setting]
    /\ Go(p, "load")
    /\ UNCHANGED <<file, keyfile, rc, stale>>

\* The gateway is written under the key of the address.
ChangedSameKey(old, new) ==
    [address |-> IF new.gateway = None THEN old.address ELSE new.gateway,
     gateway |-> new.gateway]

\* An empty address leaves the address, an empty gateway removes it.
Changed(old, new) ==
    [address |-> IF new.address = None THEN old.address ELSE new.address,
     gateway |-> new.gateway]

Load(p) ==
    /\ pc[p] = "load"
    /\ keyfile' = [keyfile EXCEPT ![p] = Changed(file[name[p]], args[p])]
    /\ Go(p, "save")
    /\ UNCHANGED <<file, name, args, rc, stale>>

Save(p) ==
    /\ pc[p] = "save"
    /\ file' = [file EXCEPT ![name[p]] = keyfile[p]]
    /\ Ends(p, "0")
    /\ stale' = [q \in Proc |->
                    stale[q] \/ (q # p /\ pc[q] = "save" /\ name[q] = name[p])]
    /\ UNCHANGED <<name, args, keyfile>>

WriteFails(p) ==
    /\ CanFail
    /\ pc[p] \in {"load", "save"}
    /\ Ends(p, "-1")
    /\ UNCHANGED <<file, name, args, keyfile, stale>>

-----------------------------------------------------------------------------
(* configNetworkRead.                                                      *)

\* The file is loaded; a key that it does not have reads as "".
ReadLoad(p, interface) ==
    /\ pc[p] = "idle"
    /\ interface \in Interface
    /\ name' = [name EXCEPT ![p] = interface]
    /\ keyfile' = [keyfile EXCEPT ![p] = file[interface]]
    /\ Go(p, "get")
    /\ UNCHANGED <<file, args, rc, stale>>

\* The number of values read is returned.
CodeCount(short) == IF short THEN "-1" ELSE "2"

\* -1 when a buffer is too short for its value.
Code(short) == IF short THEN "-1" ELSE "0"

ReadValues(p) ==
    /\ pc[p] = "get"
    /\ \E short \in {CanFail, FALSE} : Ends(p, Code(short))
    /\ UNCHANGED <<file, name, args, keyfile, stale>>

\* There is no file for the interface, or it cannot be loaded.
Refused(p, interface) ==
    /\ pc[p] = "idle"
    /\ interface = Unknown \/ CanFail
    /\ Ends(p, "-1")
    /\ UNCHANGED <<file, name, args, keyfile, stale>>

-----------------------------------------------------------------------------
Gone(p) ==
    /\ Go(p, "idle")
    /\ name' = [name EXCEPT ![p] = Unknown]
    /\ args' = [args EXCEPT ![p] = Blank]
    /\ keyfile' = [keyfile EXCEPT ![p] = Blank]
    /\ rc' = [rc EXCEPT ![p] = "0"]
    /\ stale' = [stale EXCEPT ![p] = FALSE]
    /\ UNCHANGED file

Return(p) == pc[p] = "done" /\ Gone(p)

Die(p) == CanFail /\ pc[p] \in {"load", "save", "get"} /\ Gone(p)

Next ==
    \E p \in Proc :
        \/ \E interface \in Interface \cup {Unknown} :
               \/ \E setting \in Setting : BeginWrite(p, interface, setting)
               \/ ReadLoad(p, interface)
               \/ Refused(p, interface)
        \/ Load(p)
        \/ Save(p)
        \/ WriteFails(p)
        \/ ReadValues(p)
        \/ Return(p)
        \/ Die(p)

Spec == Init /\ [][Next]_networkVars

-----------------------------------------------------------------------------
(* Properties.                                                             *)

(***************************************************************************)
(* "Writes the configuration of a network interface ... returns 0 if ok"   *)
(* (libyocto.h 248-252): an interface never loses its address, and its     *)
(* address is replaced only by the one of another call on the same         *)
(* interface, whatever fails or dies.  A call that sets the gateway alone  *)
(* brings an older address back when another has saved the file since it   *)
(* was loaded: the load and the save are not one step (lines 60-82).       *)
(***************************************************************************)
OnlyCallsChangeAddress ==
    [][\A i \in Interface :
          file'[i].address # file[i].address =>
              /\ file'[i].address # None
              /\ \E p \in Proc :
                    /\ pc[p] = "save"
                    /\ name[p] = i
                    /\ \/ args[p].address = file'[i].address
                       \/ args[p].address = None /\ stale[p]]_networkVars

=============================================================================
