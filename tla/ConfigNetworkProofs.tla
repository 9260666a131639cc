------------------------- MODULE ConfigNetworkProofs -------------------------
(***************************************************************************)
(* What concurrent writers can do to the address of an interface, for any  *)
(* number of callers, interfaces and addresses.                            *)
(***************************************************************************)
EXTENDS ConfigNetwork, TLAPS

\* A writer that is about to save has an address: the one of its call, or the
\* one that the file still holds unless another has saved it.
CopiesOK ==
    /\ \A i \in Interface : file[i].address # None
    /\ \A p \in Proc :
          /\ pc[p] \in {"load", "save"} => name[p] \in Interface
          /\ pc[p] = "save" =>
                /\ keyfile[p].address # None
                /\ args[p].address # None => keyfile[p].address = args[p].address
                /\ args[p].address = None =>
                      stale[p] \/ keyfile[p].address = file[name[p]].address

NetworkInv == NetworkTypeOK /\ CopiesOK

LEMMA NetworkInitially == Init => NetworkInv
<1> SUFFICES ASSUME Init PROVE NetworkInv
    OBVIOUS
<1>1. NetworkTypeOK
    BY DEF Init, NetworkTypeOK, Setting, Blank
<1>2. CopiesOK
    BY NetworkAssumption DEF Init, CopiesOK
<1> QED
    BY <1>1, <1>2 DEF NetworkInv

\* What a call saves is a setting, with the address of the call if it has one.
LEMMA ChangedIs ==
    ASSUME NEW old \in Setting, NEW new \in Setting
    PROVE  /\ Changed(old, new) \in Setting
           /\ new.address # None => Changed(old, new).address = new.address
           /\ new.address = None => Changed(old, new).address = old.address
BY DEF Changed, Setting

LEMMA NetworkStep == NetworkInv /\ [Next]_networkVars => NetworkInv'
<1> SUFFICES ASSUME NetworkInv, [Next]_networkVars PROVE NetworkInv'
    OBVIOUS
<1> USE NetworkAssumption DEF NetworkInv, NetworkTypeOK, CopiesOK, Go, Ends
<1>1. CASE UNCHANGED networkVars
    BY <1>1 DEF networkVars
<1>2. ASSUME NEW p \in Proc, NEW i \in Interface, NEW setting \in Setting,
             BeginWrite(p, i, setting)
      PROVE  NetworkInv'
    BY <1>2 DEF BeginWrite
<1>3. ASSUME NEW p \in Proc, Load(p)
      PROVE  NetworkInv'
  <2>1. /\ name[p] \in Interface
        /\ keyfile' = [keyfile EXCEPT ![p] = Changed(file[name[p]], args[p])]
      BY <1>3 DEF Load
  <2>2. /\ keyfile'[p] \in Setting
        /\ args[p].address # None => keyfile'[p].address = args[p].address
        /\ args[p].address = None => keyfile'[p].address = file[name[p]].address
      BY <2>1, ChangedIs
  <2>3. \A q \in Proc \ {p} : keyfile'[q] = keyfile[q]
      BY <2>1
  <2> QED
      BY <1>3, <2>1, <2>2, <2>3 DEF Load
<1>4. ASSUME NEW p \in Proc, Save(p)
      PROVE  NetworkInv'
    BY <1>4 DEF Save
<1>5. ASSUME NEW p \in Proc, WriteFails(p) \/ ReadValues(p)
      PROVE  NetworkInv'
    BY <1>5 DEF WriteFails, ReadValues, Code
<1>6. ASSUME NEW p \in Proc, NEW i \in Interface \cup {Unknown},
             ReadLoad(p, i) \/ Refused(p, i)
      PROVE  NetworkInv'
    BY <1>6 DEF ReadLoad, Refused
<1>7. ASSUME NEW p \in Proc, Return(p) \/ Die(p)
      PROVE  NetworkInv'
  <2>1. Blank \in Setting
      BY DEF Blank, Setting
  <2>2. Gone(p)
      BY <1>7 DEF Return, Die
  <2>3. NetworkTypeOK'
      BY <2>1, <2>2 DEF Gone
  <2>4. CopiesOK'
      BY <2>2 DEF Gone
  <2> QED
      BY <2>3, <2>4
<1> QED
    BY <1>1, <1>2, <1>3, <1>4, <1>5, <1>6, <1>7 DEF Next, BeginWrite

(***************************************************************************)
(* Every variable of config_network.c keeps its type.                      *)
(***************************************************************************)
THEOREM NetworkTypeCorrect == Spec => []NetworkTypeOK
<1>1. NetworkInv => NetworkTypeOK
    BY DEF NetworkInv
<1> QED
    BY <1>1, NetworkInitially, NetworkStep, PTL DEF Spec

(***************************************************************************)
(* An interface never loses its address, and the address changes only to   *)
(* the one of a call, or to an older one by a call that overtook another   *)
(* (configNetworkWrite 60-82).                                             *)
(***************************************************************************)
THEOREM AddressIsFromCall == Spec => OnlyCallsChangeAddress
<1> DEFINE FromCall ==
        \A i \in Interface :
            file'[i].address # file[i].address =>
                /\ file'[i].address # None
                /\ \E p \in Proc :
                      /\ pc[p] = "save"
                      /\ name[p] = i
                      /\ \/ args[p].address = file'[i].address
                         \/ args[p].address = None /\ stale[p]
<1>1. NetworkInv /\ [Next]_networkVars => [FromCall]_networkVars
  <2> SUFFICES ASSUME NetworkInv, Next PROVE FromCall
      OBVIOUS
  <2>1. PICK p \in Proc : UNCHANGED file \/ Save(p)
      BY DEF Next, BeginWrite, ReadLoad, Refused, Load, WriteFails, ReadValues,
             Return, Die, Gone
  <2>2. CASE Save(p)
    <3>1. /\ pc[p] = "save"
          /\ file' = [file EXCEPT ![name[p]] = keyfile[p]]
        BY <2>2 DEF Save
    <3>2. \A i \in Interface : i # name[p] => file'[i] = file[i]
        BY <3>1 DEF NetworkInv, NetworkTypeOK
    <3>3. name[p] \in Interface /\ file'[name[p]] = keyfile[p]
        BY <3>1 DEF NetworkInv, NetworkTypeOK, CopiesOK
    <3> QED
        BY <3>1, <3>2, <3>3 DEF NetworkInv, CopiesOK
  <2> QED
      BY <2>1, <2>2
<1> QED
    BY <1>1, NetworkInitially, NetworkStep, PTL DEF Spec, OnlyCallsChangeAddress

=============================================================================
