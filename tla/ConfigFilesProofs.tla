-------------------------- MODULE ConfigFilesProofs --------------------------
(***************************************************************************)
(* Theorems about the configurations that are several files written one    *)
(* after the other, and their proofs, for any number of callers, calls and *)
(* texts.                                                                  *)
(***************************************************************************)
EXTENDS ConfigFiles, SequenceTheorems, TLAPS

-----------------------------------------------------------------------------
(* Scripts.                                                                *)

Codes == {"-1", "-2"}

Instruction == [do : {"check"}, what : Part, code : Codes]
               \cup [do : {"write"}, what : File, code : Codes]

\* The four files of configSslWrite in the order it writes them.
SslFile == <<"sslKey", "sslCert", "journalKey", "journalCert">>

\* The script of the 802.1x files, written out.
WithCa ==
    <<Check("key", "-1"), Write("radiusKey", "-1"),
      Check("cert", "-1"), Write("radiusCert", "-1"),
      Check("ca", "-1"), Write("radiusCa", "-1"), Write("wpa", "-1")>>

WithoutCa ==
    <<Check("key", "-1"), Write("radiusKey", "-1"),
      Check("cert", "-1"), Write("radiusCert", "-1"), Write("wpa", "-1")>>

LEMMA InstructionType ==
    /\ \A part \in Part, code \in Codes : Check(part, code) \in Instruction
    /\ \A file \in File, code \in Codes : Write(file, code) \in Instruction
BY DEF Check, Write, Instruction

\* ConcatProperties, for instructions.
LEMMA Concatenated ==
    ASSUME NEW s \in Seq(Instruction), NEW t \in Seq(Instruction)
    PROVE  /\ s \o t \in Seq(Instruction)
           /\ Len(s \o t) = Len(s) + Len(t)
           /\ \A i \in 1 .. Len(s) + Len(t) :
                  (s \o t)[i] = IF i <= Len(s) THEN s[i] ELSE t[i - Len(s)]
BY ConcatProperties

LEMMA Script8021xIs ==
    ASSUME NEW r
    PROVE  Script8021x(r) = IF r.ca THEN WithCa ELSE WithoutCa
<1> DEFINE keys == <<Check("key", "-1"), Write("radiusKey", "-1"),
                     Check("cert", "-1"), Write("radiusCert", "-1")>>
           ca == <<Check("ca", "-1"), Write("radiusCa", "-1")>>
           wpa == <<Write("wpa", "-1")>>
<1>1. keys \in Seq(Instruction) /\ Len(keys) = 4
    BY InstructionType DEF Codes, Part, File
<1>2. ca \in Seq(Instruction) /\ Len(ca) = 2
    BY InstructionType DEF Codes, Part, File
<1>3. wpa \in Seq(Instruction) /\ Len(wpa) = 1
    BY InstructionType DEF Codes, Part, File
<1> HIDE DEF keys, ca, wpa
<1>4. CASE r.ca
  <2>1. /\ keys \o ca \in Seq(Instruction) /\ Len(keys \o ca) = 6
        /\ \A i \in 1 .. 6 :
              (keys \o ca)[i] = IF i <= 4 THEN keys[i] ELSE ca[i - 4]
    <3>1. keys \o ca \in Seq(Instruction)
        BY <1>1, <1>2, Concatenated
    <3>2. Len(keys \o ca) = Len(keys) + Len(ca)
        BY <1>1, <1>2, Concatenated
    <3>3. \A i \in 1 .. Len(keys) + Len(ca) :
             (keys \o ca)[i] =
                 IF i <= Len(keys) THEN (keys)[i] ELSE ca[i - Len(keys)]
        BY <1>1, <1>2, Concatenated
    <3>4. 1 .. Len(keys) + Len(ca) = 1 .. 6
        BY <1>1, <1>2
    <3> QED
        BY <1>1, <1>2, <3>1, <3>2, <3>3, <3>4
  <2>2. /\ (keys \o ca) \o wpa \in Seq(Instruction)
        /\ Len((keys \o ca) \o wpa) = 7
        /\ \A i \in 1 .. 7 : ((keys \o ca) \o wpa)[i] =
                                 IF i <= 6 THEN (keys \o ca)[i] ELSE wpa[i - 6]
    <3>1. (keys \o ca) \o wpa \in Seq(Instruction)
        BY <1>3, <2>1, Concatenated
    <3>2. Len((keys \o ca) \o wpa) = Len((keys \o ca)) + Len(wpa)
        BY <1>3, <2>1, Concatenated
    <3>3. \A i \in 1 .. Len((keys \o ca)) + Len(wpa) :
             ((keys \o ca) \o wpa)[i] =
                 IF i <= Len((keys \o ca)) THEN ((keys \o ca))[i] ELSE wpa[i - Len((keys \o ca))]
        BY <1>3, <2>1, Concatenated
    <3>4. 1 .. Len((keys \o ca)) + Len(wpa) = 1 .. 7
        BY <1>3, <2>1
    <3> QED
        BY <1>3, <2>1, <3>1, <3>2, <3>3, <3>4
  <2>3. WithCa \in Seq(Instruction) /\ Len(WithCa) = 7
      BY InstructionType DEF WithCa, Codes, Part, File
  <2>4. \A i \in 1 .. 7 : ((keys \o ca) \o wpa)[i] = WithCa[i]
      BY <2>1, <2>2 DEF WithCa, keys, ca, wpa
  <2>5. (keys \o ca) \o wpa = WithCa
      BY <2>2, <2>3, <2>4, SeqEqual
  <2> QED
      BY <1>4, <2>5 DEF Script8021x, CaSteps, keys, ca, wpa
<1>5. CASE ~r.ca
  <2>1. keys \o <<>> = keys
      BY <1>1, ConcatEmptySeq
  <2>2. /\ keys \o wpa \in Seq(Instruction) /\ Len(keys \o wpa) = 5
        /\ \A i \in 1 .. 5 :
              (keys \o wpa)[i] = IF i <= 4 THEN keys[i] ELSE wpa[i - 4]
    <3>1. keys \o wpa \in Seq(Instruction)
        BY <1>1, <1>3, Concatenated
    <3>2. Len(keys \o wpa) = Len(keys) + Len(wpa)
        BY <1>1, <1>3, Concatenated
    <3>3. \A i \in 1 .. Len(keys) + Len(wpa) :
             (keys \o wpa)[i] =
                 IF i <= Len(keys) THEN (keys)[i] ELSE wpa[i - Len(keys)]
        BY <1>1, <1>3, Concatenated
    <3>4. 1 .. Len(keys) + Len(wpa) = 1 .. 5
        BY <1>1, <1>3
    <3> QED
        BY <1>1, <1>3, <3>1, <3>2, <3>3, <3>4
  <2>3. WithoutCa \in Seq(Instruction) /\ Len(WithoutCa) = 5
      BY InstructionType DEF WithoutCa, Codes, Part, File
  <2>4. \A i \in 1 .. 5 : (keys \o wpa)[i] = WithoutCa[i]
      BY <2>2 DEF WithoutCa, keys, wpa
  <2>5. (keys \o <<>>) \o wpa = WithoutCa
      BY <2>1, <2>2, <2>3, <2>4, SeqEqual
  <2> QED
      BY <1>5, <2>5 DEF Script8021x, CaSteps, keys, wpa
<1> QED
    BY <1>4, <1>5

\* What each caller does.
LEMMA ScriptOf ==
    ASSUME NEW r
    PROVE  \/ r.op = "8021x" /\ r.ca /\ Script(r) = WithCa
           \/ r.op = "8021x" /\ ~r.ca /\ Script(r) = WithoutCa
           \/ r.op = "ssl" /\ Script(r) = ScriptSsl(r)
           \/ r.op = "journal" /\ Script(r) = ScriptJournal(r)
           \/ /\ r.op \in {"ntp", "ntpKeys", "enable"}
              /\ \E file \in {"chrony", "chronyKeys", "service"} :
                    Script(r) = <<Write(file, "-1")>>
           \/ r.op \notin WriteOps /\ Script(r) = <<>>
BY Script8021xIs DEF Script, WriteOps

LEMMA ScriptType ==
    ASSUME NEW r
    PROVE  Script(r) \in Seq(Instruction)
<1> USE InstructionType DEF Codes, Part, File
<1>1. CASE Script(r) = WithCa
    BY <1>1 DEF WithCa
<1>2. CASE Script(r) = WithoutCa
    BY <1>2 DEF WithoutCa
<1>3. CASE Script(r) = ScriptSsl(r)
    BY <1>3 DEF ScriptSsl
<1>4. CASE Script(r) = ScriptJournal(r)
    BY <1>4 DEF ScriptJournal
<1>5. ASSUME NEW file \in {"chrony", "chronyKeys", "service"},
             Script(r) = <<Write(file, "-1")>>
      PROVE  Script(r) \in Seq(Instruction)
    BY <1>5
<1>6. CASE Script(r) = <<>>
    BY <1>6
<1> QED
    BY <1>1, <1>2, <1>3, <1>4, <1>5, <1>6, ScriptOf

\* The ssl files are written when both texts have been checked.
LEMMA ScriptOfSsl ==
    ASSUME NEW r, r.op = "ssl"
    PROVE  /\ Len(Script(r)) = 6
           /\ Script(r)[1].do = "check" /\ Script(r)[2].do = "check"
           /\ \A k \in 1 .. 4 : Script(r)[k + 2] = Write(SslFile[k], "-1")
           /\ \A k \in 1 .. 6 : Script(r)[k].code = "-1"
BY DEF Script, ScriptSsl, Check, Write, SslFile

\* The configuration of wpa_supplicant comes last, the authority before it.
LEMMA ScriptOfWpa ==
    ASSUME NEW r, NEW k \in 1 .. Len(Script(r)),
           Script(r)[k].what = "wpa"
    PROVE  /\ k = Len(Script(r))
           /\ r.ca => /\ Script(r)[k - 1] = Write("radiusCa", "-1")
                      /\ r.op = "8021x" /\ k = 7
<1> USE DEF Check, Write
<1>1. CASE r.op = "8021x" /\ Script(r) = WithCa
    BY <1>1 DEF WithCa
<1>2. CASE ~r.ca /\ Script(r) = WithoutCa
    BY <1>2 DEF WithoutCa
<1>3. CASE Script(r) = ScriptSsl(r)
    BY <1>3 DEF ScriptSsl
<1>4. CASE Script(r) = ScriptJournal(r)
    BY <1>4 DEF ScriptJournal
<1>5. ASSUME NEW file \in {"chrony", "chronyKeys", "service"},
             Script(r) = <<Write(file, "-1")>>
      PROVE  FALSE
    BY <1>5
<1>6. CASE Script(r) = <<>>
    BY <1>6
<1> QED
    BY <1>1, <1>2, <1>3, <1>4, <1>5, <1>6, ScriptOf

-----------------------------------------------------------------------------
\* What remains of a script when n of its instructions are done.
Rest(s, n) == SubSeq(s, n + 1, Len(s))

LEMMA RestIs ==
    ASSUME NEW s \in Seq(Instruction), NEW n \in 0 .. Len(s)
    PROVE  /\ Rest(s, n) \in Seq(Instruction)
           /\ Len(Rest(s, n)) = Len(s) - n
           /\ Rest(s, n) = <<>> <=> n = Len(s)
           /\ n < Len(s) => /\ Head(Rest(s, n)) = s[n + 1]
                            /\ Tail(Rest(s, n)) = Rest(s, n + 1)
<1>1. Len(s) \in Nat /\ \A i \in 1 .. Len(s) : s[i] \in Instruction
    OBVIOUS
<1>2. /\ Rest(s, n) \in Seq(Instruction)
      /\ Len(Rest(s, n)) = Len(s) - n
    BY <1>1, SubSeqProperties DEF Rest
<1>3. n < Len(s) => /\ Head(Rest(s, n)) = s[n + 1]
                    /\ Tail(Rest(s, n)) = Rest(s, n + 1)
    BY <1>1, HeadTailOfSubSeq DEF Rest
<1> QED
    BY <1>1, <1>2, <1>3, EmptySeq

-----------------------------------------------------------------------------
(* The inductive invariant.                                                *)

\* How many instructions of its script a caller has done.
Done(p) == Len(Script(request[p])) - Len(script[p])

Types ==
    /\ files \in [File -> Text \cup NotText]
    /\ namesCa \in BOOLEAN
    /\ phase \in [Proc -> {"idle", "run", "open", "done"}]
    /\ request \in [Proc -> Request \cup {Nothing}]
    /\ \A p \in Proc : phase[p] = "idle" <=> request[p] = Nothing
    /\ script \in [Proc -> Seq(Instruction)]
    /\ rc \in [Proc -> {"0", "1", "-1", "-2", "count"}]
    /\ calls \in 0 .. MaxCalls
    /\ lost \in 0 .. MaxLost
    /\ mishaps \subseteq Mishap

\* What a caller has left is the end of the script of its request, and a file
\* is open for an instruction that writes.
Follows(p) ==
    /\ Len(script[p]) <= Len(Script(request[p]))
    /\ script[p] = Rest(Script(request[p]), Done(p))
    /\ phase[p] = "open" => At(p, "write")

FilesInv == Types /\ \A p \in Proc : Follows(p)

\* The file of the authority is there before the configuration is opened.
CaWritten(p) ==
    /\ request[p].op = "8021x"
    /\ request[p].ca
    /\ \/ phase[p] \in {"run", "open"} /\ Done(p) >= 6
       \/ phase[p] = "open" /\ Done(p) >= 5
    => files["radiusCa"] # "absent"

CaInv == NoDanglingCa /\ \A p \in Proc : CaWritten(p)

\* Among the callers that write files.
Writing(p) == phase[p] # "idle" /\ request[p].op \in WriteOps

Apart == \A p, q \in Proc : Writing(p) /\ Writing(q) => p = q

\* What a caller of configSslWrite has done of its files.
SslWritten(p) ==
    phase[p] # "idle" /\ request[p].op = "ssl" =>
        /\ \A k \in 1 .. 4 :
              Done(p) >= k + 2 => files[SslFile[k]] = request[p].text
        /\ phase[p] = "open" => files[Head(script[p]).what] = "empty"
        /\ phase[p] = "done" /\ rc[p] = "0" => script[p] = <<>>

SslInv ==
    /\ "overlap" \notin mishaps => Apart
    /\ lost = 0 /\ "overlap" \notin mishaps => \A p \in Proc : SslWritten(p)

\* Both texts have been checked, not all four files are written.
Midway(p) ==
    /\ phase[p] \in {"run", "open"}
    /\ request[p].op = "ssl"
    /\ Done(p) >= 2

Matching ==
    /\ files["sslKey"] = files["sslCert"]
    /\ files["journalKey"] = files["sslKey"]
    /\ files["journalCert"] = files["sslCert"]

MatchInv ==
    lost = 0 /\ mishaps = {} => Matching \/ \E p \in Proc : Midway(p)

-----------------------------------------------------------------------------
(* The invariant, where every caller is.                                   *)

LEMMA ForgottenRequest ==
    /\ Nothing \notin Request
    /\ Nothing.op \notin WriteOps
    /\ \A r \in Request : /\ r.op \in WriteOps \cup {"disable", "enabled"}
                          /\ r.text \in Text
                          /\ r.ca \in BOOLEAN
BY FilesAssumption DEF Nothing, WriteOps

\* The next instruction of a caller.
LEMMA NextOne ==
    ASSUME FilesInv, NEW p \in Proc
    PROVE  /\ Script(request[p]) \in Seq(Instruction)
           /\ script[p] \in Seq(Instruction)
           /\ Done(p) \in 0 .. Len(Script(request[p]))
           /\ script[p] = <<>> <=> Done(p) = Len(Script(request[p]))
           /\ script[p] # <<>> =>
                  /\ Done(p) + 1 \in 1 .. Len(Script(request[p]))
                  /\ Head(script[p]) = Script(request[p])[Done(p) + 1]
                  /\ Head(script[p]) \in Instruction
                  /\ Tail(script[p]) = Rest(Script(request[p]), Done(p) + 1)
                  /\ Tail(script[p]) \in Seq(Instruction)
                  /\ Len(Tail(script[p])) =
                         Len(Script(request[p])) - (Done(p) + 1)
<1>1. Script(request[p]) \in Seq(Instruction)
    BY ScriptType
<1>2. script[p] \in Seq(Instruction)
    BY DEF FilesInv, Types
<1>3. Len(Script(request[p])) \in Nat /\ Len(script[p]) \in Nat
    BY <1>1, <1>2, LenProperties
<1>4. Done(p) \in 0 .. Len(Script(request[p]))
  <2>1. Len(script[p]) <= Len(Script(request[p]))
      BY DEF FilesInv, Follows
  <2>2. \A m, n \in Nat : n <= m => m - n \in 0 .. m
      OBVIOUS
  <2> QED
      BY <1>3, <2>1, <2>2, Zenon DEF Done
<1>5. script[p] = Rest(Script(request[p]), Done(p))
    BY DEF FilesInv, Follows
<1>6. script[p] = <<>> <=> Done(p) = Len(Script(request[p]))
    BY <1>1, <1>4, <1>5, RestIs
<1>7. ASSUME script[p] # <<>>
      PROVE  /\ Done(p) + 1 \in 1 .. Len(Script(request[p]))
             /\ Head(script[p]) = Script(request[p])[Done(p) + 1]
             /\ Tail(script[p]) = Rest(Script(request[p]), Done(p) + 1)
  <2>1. Done(p) < Len(Script(request[p]))
      BY <1>1, <1>4, <1>6, <1>7
  <2>2. /\ Head(Rest(Script(request[p]), Done(p))) =
               Script(request[p])[Done(p) + 1]
        /\ Tail(Rest(Script(request[p]), Done(p))) =
               Rest(Script(request[p]), Done(p) + 1)
      BY <1>1, <1>4, <2>1, RestIs
  <2> QED
      BY <1>3, <1>4, <1>5, <2>1, <2>2
<1>8. ASSUME script[p] # <<>>
      PROVE  /\ Tail(script[p]) \in Seq(Instruction)
             /\ Len(Tail(script[p])) = Len(Script(request[p])) - (Done(p) + 1)
  <2>1. Done(p) + 1 \in 0 .. Len(Script(request[p]))
      BY <1>3, <1>4, <1>7, <1>8
  <2>2. /\ Rest(Script(request[p]), Done(p) + 1) \in Seq(Instruction)
        /\ Len(Rest(Script(request[p]), Done(p) + 1)) =
               Len(Script(request[p])) - (Done(p) + 1)
      BY <1>1, <2>1, RestIs
  <2> QED
      BY <1>7, <1>8, <2>2
<1> QED
    BY <1>3, <1>1, <1>2, <1>4, <1>6, <1>7, <1>8

LEMMA FilesTyped ==
    ASSUME FilesInv
    PROVE  FilesTypeOK
<1>1. ASSUME NEW p \in Proc
      PROVE  \E n \in 0 .. Len(Script(request[p])) :
                 script[p] = SubSeq(Script(request[p]), n + 1,
                                    Len(Script(request[p])))
  <2>1. Done(p) \in 0 .. Len(Script(request[p]))
      BY NextOne
  <2> QED
      BY <2>1 DEF FilesInv, Follows, Rest
<1> QED
    BY <1>1 DEF FilesInv, Types, FilesTypeOK

\* What an instruction can say.
LEMMA InstructionParts ==
    ASSUME NEW i \in Instruction
    PROVE  /\ i.code \in Codes
           /\ i.do \in {"check", "write"}
           /\ i.do = "write" => i.what \in File
           /\ i.do = "check" => i.what \in Part
BY DEF Instruction

-----------------------------------------------------------------------------
LEMMA FilesInitially ==
    ASSUME Init
    PROVE  FilesInv /\ CaInv /\ SslInv /\ MatchInv
<1>1. Script(Nothing) = <<>>
    BY ScriptOf, ForgottenRequest DEF Nothing, WriteOps
<1>2. <<>> \in Seq(Instruction) /\ Len(<<>>) = 0
    BY EmptySeq
<1>3. Rest(<<>>, 0) = <<>>
    BY <1>2, SubSeqEmpty DEF Rest
<1>4. Types
  <2>1. calls \in 0 .. MaxCalls /\ lost \in 0 .. MaxLost
      BY FilesAssumption DEF Init
  <2>2. script \in [Proc -> Seq(Instruction)]
      BY <1>2 DEF Init
  <2> QED
      BY <2>1, <2>2 DEF Init, Types, Mishap, NotText
<1>5. \A p \in Proc : Follows(p)
    BY <1>1, <1>2, <1>3 DEF Init, Follows, Done
<1>6. CaInv
    BY DEF Init, CaInv, NoDanglingCa, CaWritten, Nothing
<1>7. SslInv /\ MatchInv
    BY DEF Init, SslInv, MatchInv, SslWritten, Apart, Writing, Matching, File
<1> QED
    BY <1>4, <1>5, <1>6, <1>7 DEF FilesInv

-----------------------------------------------------------------------------
(* Every step leaves the callers somewhere in their scripts.               *)

\* A step of p touches nothing of the others.
OnlyOf(p) ==
    \A q \in Proc \ {p} : /\ phase'[q] = phase[q]
                          /\ request'[q] = request[q]
                          /\ script'[q] = script[q]
                          /\ rc'[q] = rc[q]

LEMMA StepsAreApart ==
    ASSUME Types, NEW p \in Proc
    PROVE  /\ Step(p) => OnlyOf(p)
           /\ \A r \in Request : Ask(p, r) => OnlyOf(p)
<1> USE DEF Types, OnlyOf, Ends, Advance, Gone, past
<1>1. Step(p) => OnlyOf(p)
    BY DEF Step, Checked, Refused, OpenFile, OpenFails, FlushFile, FlushFails,
           Finish, Return, Die
<1>2. ASSUME NEW r \in Request
      PROVE  Ask(p, r) => OnlyOf(p)
    BY DEF Ask, Begin, AsksFor, Disable, DisableFails, IsEnabled,
           IsEnabledFails
<1> QED
    BY <1>1, <1>2

\* Nothing but the step of a caller moves it.
LEMMA OthersFollow ==
    ASSUME FilesInv, NEW p \in Proc, OnlyOf(p)
    PROVE  \A q \in Proc \ {p} : Follows(q)' /\ Done(q)' = Done(q)
BY DEF FilesInv, Follows, OnlyOf, Done, At

\* Where a caller is when it starts.
LEMMA AtTheBeginning ==
    ASSUME NEW r
    PROVE  /\ Rest(Script(r), 0) = Script(r)
           /\ Len(Script(r)) - Len(Script(r)) = 0
<1>1. Script(r) \in Seq(Instruction) /\ Len(Script(r)) \in Nat
    BY ScriptType, LenProperties
<1>2. /\ Rest(Script(r), 0) \in Seq(Instruction)
      /\ Len(Rest(Script(r), 0)) = Len(Script(r))
    BY <1>1, RestIs
<1>3. \A i \in 1 .. Len(Script(r)) : Rest(Script(r), 0)[i] = Script(r)[i]
  <2>1. \A i \in 1 .. Len(Script(r)) : Script(r)[i] \in Instruction
      BY <1>1
  <2> QED
      BY <1>1, <2>1, SubSeqProperties DEF Rest
<1> QED
    BY <1>1, <1>2, <1>3, SeqEqual

LEMMA FollowsFrom ==
    ASSUME FilesInv, NEW p \in Proc,
           phase' \in [Proc -> {"idle", "run", "open", "done"}]
    PROVE  /\ /\ script'[p] = script[p]
              /\ request'[p] = request[p]
              /\ phase'[p] = "open" => At(p, "write")
              => Follows(p)' /\ Done(p)' = Done(p)
           /\ /\ script[p] # <<>>
              /\ script'[p] = Tail(script[p])
              /\ request'[p] = request[p]
              /\ phase'[p] # "open"
              => Follows(p)' /\ Done(p)' = Done(p) + 1
           /\ /\ script'[p] = Script(request'[p])
              /\ phase'[p] # "open"
              => Follows(p)' /\ Done(p)' = 0
<1>1. ASSUME script'[p] = script[p], request'[p] = request[p],
             phase'[p] = "open" => At(p, "write")
      PROVE  Follows(p)' /\ Done(p)' = Done(p)
    BY <1>1 DEF FilesInv, Follows, Done, At
<1>2. ASSUME script[p] # <<>>, script'[p] = Tail(script[p]),
             request'[p] = request[p], phase'[p] # "open"
      PROVE  Follows(p)' /\ Done(p)' = Done(p) + 1
  <2>1. /\ Done(p) + 1 \in 1 .. Len(Script(request[p]))
        /\ script'[p] = Rest(Script(request[p]), Done(p) + 1)
        /\ Len(script'[p]) = Len(Script(request[p])) - (Done(p) + 1)
        /\ Len(Script(request[p])) \in Nat
      BY <1>2, NextOne, LenProperties
  <2>2. \A m, n \in Nat : n <= m => /\ m - (m - n) = n
                                    /\ m - n <= m
      OBVIOUS
  <2>3. Done(p) + 1 \in Nat /\ Done(p) + 1 <= Len(Script(request[p]))
      BY <2>1
  <2>4. Done(p)' = Done(p) + 1
      BY <1>2, <2>1, <2>2, <2>3, Zenon DEF Done
  <2>5. Len(script'[p]) <= Len(Script(request'[p]))
    <3>1. Len(Script(request[p])) - (Done(p) + 1) <= Len(Script(request[p]))
        BY <2>1, <2>2, <2>3, Zenon
    <3> QED
        BY <1>2, <2>1, <3>1
  <2> QED
      BY <1>2, <2>1, <2>4, <2>5 DEF Follows
<1>3. ASSUME script'[p] = Script(request'[p]), phase'[p] # "open"
      PROVE  Follows(p)' /\ Done(p)' = 0
  <2>1. Done(p)' = 0
      BY <1>3, AtTheBeginning DEF Done
  <2>2. Len(Script(request'[p])) \in Nat
      BY ScriptType, LenProperties
  <2> QED
      BY <1>3, <2>1, <2>2, AtTheBeginning DEF Follows
<1> QED
    BY <1>1, <1>2, <1>3

\* What is asked for the first time, and what is forgotten, has no script left.
LEMMA NothingLeft ==
    /\ Script(Nothing) = <<>>
    /\ \A r \in Request : r.op \notin WriteOps => Script(r) = <<>>
    /\ FilesInv => \A p \in Proc : phase[p] = "idle" => script[p] = <<>>
<1>1. Script(Nothing) = <<>>
    BY ScriptOf, ForgottenRequest DEF Nothing, WriteOps
<1>2. ASSUME NEW r \in Request, r.op \notin WriteOps
      PROVE  Script(r) = <<>>
    BY <1>2, ScriptOf DEF WriteOps
<1>3. ASSUME FilesInv, NEW p \in Proc, phase[p] = "idle"
      PROVE  script[p] = <<>>
  <2>1. Script(request[p]) = <<>>
      BY <1>1, <1>3 DEF FilesInv, Types
  <2>2. Done(p) \in 0 .. 0
      BY <1>3, <2>1, NextOne, EmptySeq
  <2> QED
      BY <1>3, <2>1, <2>2, NextOne, EmptySeq
<1> QED
    BY <1>1, <1>2, <1>3

LEMMA TypesKept ==
    ASSUME FilesInv, [Next]_filesVars
    PROVE  Types'
<1> USE DEF FilesInv, Types
<1>1. CASE UNCHANGED filesVars
    BY <1>1 DEF filesVars, past
<1>2. ASSUME NEW p \in Proc, NEW r \in Request, Ask(p, r)
      PROVE  Types'
  <2>1. CASE Begin(p, r)
      BY <2>1, ScriptType, FilesAssumption, ForgottenRequest
         DEF Begin, Mishap
  <2>2. CASE Disable(p, r) \/ IsEnabled(p, r) \/ DisableFails(p, r)
             \/ IsEnabledFails(p, r)
    <3>1. /\ request' = [request EXCEPT ![p] = r]
          /\ phase' = [phase EXCEPT ![p] = "done"]
          /\ UNCHANGED <<namesCa, script, calls, lost, mishaps>>
        BY <2>2 DEF Disable, DisableFails, IsEnabled, IsEnabledFails, AsksFor,
                    Ends, past
    <3>2. rc' \in [Proc -> {"0", "1", "-1", "-2", "count"}]
        BY <2>2 DEF Disable, DisableFails, IsEnabled, IsEnabledFails, Ends
    <3>3. files' \in [File -> Text \cup NotText]
        BY <2>2 DEF Disable, DisableFails, IsEnabled, IsEnabledFails, NotText
    <3> QED
        BY <3>1, <3>2, <3>3, ForgottenRequest
  <2> QED
      BY <1>2, <2>1, <2>2 DEF Ask
<1>3. ASSUME NEW p \in Proc, Step(p)
      PROVE  Types'
  <2>1. script[p] # <<>> => /\ Head(script[p]) \in Instruction
                            /\ Tail(script[p]) \in Seq(Instruction)
      BY NextOne
  <2>2. phase[p] \in {"run", "open"} => request[p] \in Request
      OBVIOUS
  <2>3. phase[p] = "open" => At(p, "write")
      BY DEF Follows
  <2>4. CASE Checked(p)
      BY <2>1, <2>4 DEF Checked, At, Advance, past
  <2>5. CASE Refused(p)
      BY <2>1, <2>5, InstructionParts DEF Refused, At, Ends, Codes, past
  <2>6. CASE OpenFile(p)
    <3>1. Head(script[p]).what \in File
        BY <2>1, <2>6, InstructionParts DEF OpenFile, At
    <3>2. NamesCa(p, "empty") \in BOOLEAN
        BY DEF NamesCa
    <3> QED
        BY <2>6, <3>1, <3>2 DEF OpenFile, NotText, past
  <2>7. CASE OpenFails(p)
      BY <2>1, <2>7, InstructionParts
         DEF OpenFails, At, Ends, Codes, Failed, Mishap
  <2>8. CASE FlushFile(p)
    <3>1. Head(script[p]).what \in File /\ script[p] # <<>>
        BY <2>1, <2>3, <2>8, InstructionParts DEF FlushFile, At
    <3>2. \A content : NamesCa(p, content) \in BOOLEAN
        BY DEF NamesCa
    <3>3. request[p].text \in Text
        BY <2>2, <2>8, ForgottenRequest DEF FlushFile
    <3>4. PICK content \in Flushed(files[Head(script[p]).what],
                                   request[p].text) :
              /\ files' = [files EXCEPT ![Head(script[p]).what] = content]
              /\ namesCa' = NamesCa(p, content)
        BY <2>8 DEF FlushFile
    <3>5. content \in Text \cup NotText
        BY <3>3 DEF Flushed, NotText
    <3> QED
        BY <2>1, <2>8, <3>1, <3>2, <3>4, <3>5 DEF FlushFile, Advance, past
  <2>9. CASE FlushFails(p)
    <3>1. /\ Head(script[p]).what \in File /\ script[p] # <<>>
          /\ Head(script[p]).code \in Codes
        BY <2>1, <2>3, <2>9, InstructionParts DEF FlushFails, At
    <3>2. \A content : NamesCa(p, content) \in BOOLEAN
        BY DEF NamesCa
    <3>3. PICK content \in HalfFlushed(files[Head(script[p]).what]) :
              /\ files' = [files EXCEPT ![Head(script[p]).what] = content]
              /\ namesCa' = NamesCa(p, content)
        BY <2>9 DEF FlushFails
    <3>4. content \in Text \cup NotText
        BY <3>1 DEF HalfFlushed, NotText
    <3>5. files' \in [File -> Text \cup NotText] /\ namesCa' \in BOOLEAN
        BY <3>1, <3>2, <3>3, <3>4
    <3>6. CASE Ends(p, Head(script[p]).code) /\ Failed /\ UNCHANGED script
        BY <2>9, <3>1, <3>5, <3>6 DEF FlushFails, Ends, Failed, Mishap, Codes
    <3>7. CASE /\ Advance(p)
               /\ lost < MaxLost
               /\ lost' = lost + 1
               /\ UNCHANGED <<calls, mishaps, rc>>
               /\ phase' = [phase EXCEPT ![p] = "run"]
      <4>1. lost' \in 0 .. MaxLost
          BY <3>7, FilesAssumption
      <4> QED
          BY <2>1, <2>9, <3>1, <3>5, <3>7, <4>1 DEF FlushFails, Advance
    <3> QED
        BY <2>9, <3>6, <3>7 DEF FlushFails
  <2>10. CASE Finish(p)
      BY <2>10 DEF Finish, Ends, Code, past
  <2>11. CASE Return(p) \/ Die(p)
    <3>1. /\ request' = [request EXCEPT ![p] = Nothing]
          /\ phase' = [phase EXCEPT ![p] = "idle"]
          /\ script' = [script EXCEPT ![p] = <<>>]
          /\ rc' = [rc EXCEPT ![p] = "0"]
          /\ UNCHANGED <<files, namesCa, calls, lost>>
          /\ mishaps' \subseteq Mishap
        BY <2>11 DEF Return, Die, Gone, Failed, Mishap, past
    <3> QED
        BY <3>1, EmptySeq
  <2> QED
      BY <1>3, <2>4, <2>5, <2>6, <2>7, <2>8, <2>9, <2>10, <2>11 DEF Step
<1> QED
    BY <1>1, <1>2, <1>3 DEF Next

LEMMA FilesStep ==
    ASSUME FilesInv, [Next]_filesVars
    PROVE  FilesInv'
<1>1. Types /\ Types'
    BY TypesKept DEF FilesInv
<1>2. phase' \in [Proc -> {"idle", "run", "open", "done"}]
    BY <1>1 DEF Types
<1>3. CASE UNCHANGED filesVars
    BY <1>1, <1>3 DEF filesVars, FilesInv, Follows, Done, At
<1>4. ASSUME NEW p \in Proc, NEW r \in Request, Ask(p, r)
      PROVE  FilesInv'
  <2>1. \A q \in Proc \ {p} : Follows(q)'
      BY <1>1, <1>4, StepsAreApart, OthersFollow
  <2>2. phase'[p] # "open" /\ script'[p] = Script(request'[p])
    <3>1. CASE Begin(p, r)
        BY <1>1, <3>1 DEF Begin, Types
    <3>2. CASE r.op \notin WriteOps /\ AsksFor(p, r, r.op)
               /\ phase' = [phase EXCEPT ![p] = "done"]
        BY <1>1, <3>2, NothingLeft DEF AsksFor, Types
    <3> QED
        BY <1>4, <3>1, <3>2
           DEF Ask, Disable, DisableFails, IsEnabled, IsEnabledFails, AsksFor,
               Ends, WriteOps
  <2>3. Follows(p)'
      BY <1>2, <2>2, FollowsFrom
  <2> QED
      BY <1>1, <2>1, <2>3 DEF FilesInv
<1>5. ASSUME NEW p \in Proc, Step(p)
      PROVE  FilesInv'
  <2>1. \A q \in Proc \ {p} : Follows(q)'
      BY <1>1, <1>5, StepsAreApart, OthersFollow
  <2>2. phase[p] = "open" => At(p, "write")
      BY DEF FilesInv, Follows
  <2>3. \/ /\ script'[p] = script[p] /\ request'[p] = request[p]
           /\ phase'[p] = "open" => At(p, "write")
        \/ /\ script[p] # <<>> /\ script'[p] = Tail(script[p])
           /\ request'[p] = request[p] /\ phase'[p] # "open"
        \/ script'[p] = Script(request'[p]) /\ phase'[p] # "open"
    <3> USE <1>1, <2>2 DEF Types
    <3>1. CASE Checked(p) \/ FlushFile(p)
        BY <3>1 DEF Checked, FlushFile, Advance, At
    <3>2. CASE Refused(p) \/ OpenFile(p) \/ OpenFails(p) \/ Finish(p)
        BY <3>2 DEF Refused, OpenFile, OpenFails, Finish, Ends, past
    <3>3. CASE FlushFails(p)
        BY <3>3 DEF FlushFails, Advance, Ends, At
    <3>4. CASE Return(p) \/ Die(p)
        BY <3>4, NothingLeft DEF Return, Die, Gone
    <3> QED
        BY <1>5, <3>1, <3>2, <3>3, <3>4 DEF Step
  <2>4. Follows(p)'
      BY <1>2, <2>3, FollowsFrom
  <2> QED
      BY <1>1, <2>1, <2>4 DEF FilesInv
<1> QED
    BY <1>3, <1>4, <1>5 DEF Next

(***************************************************************************)
(* Everything is of its type, and every caller is at a place of the script *)
(* of its request.                                                         *)
(***************************************************************************)
THEOREM FilesTypeCorrect == Spec => []FilesTypeOK
<1>1. Init => FilesInv
    BY FilesInitially
<1>2. FilesInv /\ [Next]_filesVars => FilesInv'
    BY FilesStep
<1>3. FilesInv => FilesTypeOK
    BY FilesTyped
<1> QED
    BY <1>1, <1>2, <1>3, PTL DEF Spec

-----------------------------------------------------------------------------
(* What a step of a caller does to the files.                              *)

\* It puts something in the file of its instruction.
Puts(p, content) ==
    /\ files' = [files EXCEPT ![Head(script[p]).what] = content]
    /\ namesCa' = NamesCa(p, content)

LEMMA Moves ==
    ASSUME FilesInv, NEW p \in Proc
    PROVE  /\ Checked(p) =>
                  /\ Done(p)' = Done(p) + 1
                  /\ phase'[p] = "run" /\ request'[p] = request[p]
           /\ OpenFile(p) =>
                  /\ Done(p)' = Done(p)
                  /\ phase'[p] = "open" /\ request'[p] = request[p]
                  /\ script'[p] = script[p]
           /\ FlushFile(p) =>
                  /\ \E content \in Flushed(files[Head(script[p]).what],
                                            request[p].text) :
                        Puts(p, content)
                  /\ Done(p)' = Done(p) + 1
                  /\ phase'[p] = "run" /\ request'[p] = request[p]
           /\ FlushFails(p) =>
                  /\ \E content \in HalfFlushed(files[Head(script[p]).what]) :
                        Puts(p, content)
                  /\ request'[p] = request[p]
                  /\ \/ /\ phase'[p] = "done" /\ "failed" \in mishaps'
                        /\ Done(p)' = Done(p)
                        /\ rc'[p] = Head(script[p]).code
                     \/ /\ phase'[p] = "run" /\ lost' = lost + 1
                        /\ Done(p)' = Done(p) + 1
           /\ Refused(p) \/ OpenFails(p) \/ Finish(p) =>
                  /\ phase'[p] = "done" /\ request'[p] = request[p]
                  /\ Done(p)' = Done(p)
           /\ Return(p) \/ Die(p) => phase'[p] = "idle"
<1>1. Types
    BY DEF FilesInv
<1>2. phase[p] = "open" => At(p, "write")
    BY DEF FilesInv, Follows
<1>3. Step(p) => phase' \in [Proc -> {"idle", "run", "open", "done"}]
    BY TypesKept DEF Next, Types
<1>4. /\ script'[p] = script[p]
      /\ request'[p] = request[p]
      => Done(p)' = Done(p)
    BY DEF Done
<1>5. /\ Step(p)
      /\ script[p] # <<>>
      /\ script'[p] = Tail(script[p])
      /\ request'[p] = request[p]
      /\ phase'[p] # "open"
      => Done(p)' = Done(p) + 1
    BY <1>3, FollowsFrom
<1> USE <1>1, <1>2 DEF Types, Step
<1>6. ASSUME Checked(p)
      PROVE  /\ Done(p)' = Done(p) + 1
             /\ phase'[p] = "run" /\ request'[p] = request[p]
    BY <1>5, <1>6 DEF Checked, Advance, At
<1>7. ASSUME OpenFile(p)
      PROVE  /\ Done(p)' = Done(p)
             /\ phase'[p] = "open" /\ request'[p] = request[p]
             /\ script'[p] = script[p]
    BY <1>4, <1>7 DEF OpenFile
<1>8. ASSUME FlushFile(p)
      PROVE  /\ \E content \in Flushed(files[Head(script[p]).what],
                                       request[p].text) :
                   Puts(p, content)
             /\ Done(p)' = Done(p) + 1
             /\ phase'[p] = "run" /\ request'[p] = request[p]
  <2>1. /\ script'[p] = Tail(script[p]) /\ script[p] # <<>>
        /\ phase'[p] = "run" /\ request'[p] = request[p]
      BY <1>8 DEF FlushFile, Advance, At
  <2> QED
      BY <1>5, <1>8, <2>1 DEF FlushFile, Puts
<1>9. ASSUME FlushFails(p)
      PROVE  /\ \E content \in HalfFlushed(files[Head(script[p]).what]) :
                   Puts(p, content)
             /\ request'[p] = request[p]
             /\ \/ /\ phase'[p] = "done" /\ "failed" \in mishaps'
                   /\ Done(p)' = Done(p)
                   /\ rc'[p] = Head(script[p]).code
                \/ /\ phase'[p] = "run" /\ lost' = lost + 1
                   /\ Done(p)' = Done(p) + 1
  <2>1. request'[p] = request[p] /\ script[p] # <<>>
      BY <1>9 DEF FlushFails, At
  <2>2. \/ /\ Ends(p, Head(script[p]).code) /\ Failed /\ script' = script
        \/ /\ Advance(p) /\ lost' = lost + 1
           /\ phase' = [phase EXCEPT ![p] = "run"]
      BY <1>9 DEF FlushFails
  <2>3. CASE Ends(p, Head(script[p]).code) /\ Failed /\ script' = script
      BY <1>4, <1>9, <2>1, <2>3 DEF Ends, Failed, FlushFails, Puts
  <2>4. CASE /\ Advance(p) /\ lost' = lost + 1
             /\ phase' = [phase EXCEPT ![p] = "run"]
      BY <1>5, <1>9, <2>1, <2>4 DEF Advance, FlushFails, Puts
  <2> QED
      BY <2>2, <2>3, <2>4
<1>10. ASSUME Refused(p) \/ OpenFails(p) \/ Finish(p)
       PROVE  /\ phase'[p] = "done" /\ request'[p] = request[p]
              /\ Done(p)' = Done(p)
    BY <1>4, <1>10 DEF Refused, OpenFails, Finish, Ends
<1>11. ASSUME Return(p) \/ Die(p)
       PROVE  phase'[p] = "idle"
    BY <1>11 DEF Return, Die, Gone
<1> QED
    BY <1>6, <1>7, <1>8, <1>9, <1>10, <1>11

\* What a step of a caller that starts does.
LEMMA Asks ==
    ASSUME FilesInv, NEW p \in Proc, NEW r \in Request, Ask(p, r)
    PROVE  /\ phase[p] = "idle"
           /\ request'[p] = r
           /\ \/ phase'[p] = "run" /\ Done(p)' = 0 /\ Begin(p, r)
              \/ phase'[p] = "done" /\ r.op \notin WriteOps
           /\ namesCa' = namesCa /\ lost' = lost
           /\ \A file \in File \ {"service"} : files'[file] = files[file]
<1>1. Types
    BY DEF FilesInv
<1>2. CASE Begin(p, r)
  <2>1. Done(p)' = 0
      BY <1>1, <1>2, AtTheBeginning DEF Begin, Done, Types
  <2> QED
      BY <1>1, <1>2, <2>1 DEF Begin, Types
<1>3. CASE Disable(p, r)
    BY <1>1, <1>3 DEF Disable, AsksFor, Ends, Types, WriteOps, past
<1>4. CASE DisableFails(p, r) \/ IsEnabled(p, r) \/ IsEnabledFails(p, r)
    BY <1>1, <1>4 DEF DisableFails, IsEnabled, IsEnabledFails, AsksFor, Ends,
                      Types, WriteOps, past
<1> QED
    BY <1>2, <1>3, <1>4 DEF Ask

-----------------------------------------------------------------------------
(* The authority that the configuration names.                             *)

\* The sixth instruction writes the authority.
LEMMA ScriptOfCa ==
    ASSUME NEW r, r.op = "8021x", r.ca
    PROVE  /\ Script(r)[6] = Write("radiusCa", "-1")
           /\ Len(Script(r)) = 7
BY ScriptOf DEF WithCa, WriteOps

\* Nothing removes it.
LEMMA TheCaStays ==
    ASSUME FilesInv, [Next]_filesVars, files["radiusCa"] # "absent"
    PROVE  files'["radiusCa"] # "absent"
<1>1. Types
    BY DEF FilesInv
<1>2. CASE UNCHANGED filesVars
    BY <1>2 DEF filesVars
<1>3. ASSUME NEW p \in Proc, NEW r \in Request, Ask(p, r)
      PROVE  files'["radiusCa"] = files["radiusCa"]
    BY <1>3, Asks DEF File
<1>4. ASSUME NEW p \in Proc, Step(p)
      PROVE  files'["radiusCa"] # "absent"
  <2>1. CASE OpenFile(p)
      BY <1>1, <2>1 DEF OpenFile, Types, File
  <2>2. CASE FlushFile(p)
    <3>1. PICK content \in Flushed(files[Head(script[p]).what],
                                   request[p].text) : Puts(p, content)
        BY <2>2, Moves
    <3>2. request[p].text # "absent"
      <4>1. request[p] \in Request
          BY <1>1, <2>2 DEF Types, FlushFile
      <4>2. request[p].text \in Text
          BY <4>1, ForgottenRequest
      <4> QED
          BY <4>2, FilesAssumption DEF NotText
    <3>3. content # "absent"
        BY <3>2 DEF Flushed
    <3> QED
        BY <1>1, <3>1, <3>3 DEF Puts, Types, File
  <2>3. CASE FlushFails(p)
    <3>1. PICK content \in HalfFlushed(files[Head(script[p]).what]) :
              Puts(p, content)
        BY <2>3, Moves
    <3> QED
        BY <1>1, <3>1 DEF Puts, Types, File, HalfFlushed
  <2>4. CASE files' = files
      BY <2>4
  <2> QED
      BY <1>4, <2>1, <2>2, <2>3, <2>4
         DEF Step, Checked, Refused, OpenFails, Finish, Return, Die, Gone
<1> QED
    BY <1>2, <1>3, <1>4 DEF Next

LEMMA CaStep ==
    ASSUME FilesInv, CaInv, [Next]_filesVars
    PROVE  CaInv'
<1>1. Types
    BY DEF FilesInv
<1>2. files["radiusCa"] # "absent" => files'["radiusCa"] # "absent"
    BY TheCaStays
<1>3. CASE UNCHANGED filesVars
  <2>1. \A q \in Proc : CaWritten(q)'
      BY <1>3 DEF filesVars, CaInv, CaWritten, Done
  <2> QED
      BY <1>3, <2>1 DEF filesVars, CaInv, NoDanglingCa
<1>4. ASSUME NEW p \in Proc, OnlyOf(p), NEW q \in Proc \ {p}
      PROVE  CaWritten(q)'
  <2>1. phase'[q] = phase[q] /\ request'[q] = request[q] /\ Done(q)' = Done(q)
      BY <1>4, OthersFollow DEF OnlyOf
  <2> QED
      BY <1>2, <2>1 DEF CaInv, CaWritten
<1>5. ASSUME NEW p \in Proc, NEW r \in Request, Ask(p, r)
      PROVE  CaInv'
  <2>1. CaWritten(p)'
      BY <1>5, Asks DEF CaWritten
  <2>2. OnlyOf(p)
      BY <1>1, <1>5, StepsAreApart
  <2>3. NoDanglingCa'
      BY <1>2, <1>5, Asks DEF CaInv, NoDanglingCa
  <2> QED
      BY <1>4, <2>1, <2>2, <2>3 DEF CaInv
<1>6. ASSUME NEW p \in Proc, Step(p)
      PROVE  CaInv'
  <2>1. OnlyOf(p)
      BY <1>1, <1>6, StepsAreApart
  <2>2. Done(p) \in Nat
      BY NextOne
  <2>3. ASSUME request[p].op = "8021x", request[p].ca, Done(p) = 5,
               script[p] # <<>>
        PROVE  /\ Head(script[p]) = Write("radiusCa", "-1")
               /\ Head(script[p]).do = "write"
      BY <2>3, NextOne, ScriptOfCa DEF Write
  <2>4. ASSUME phase[p] = "open", NEW content, Puts(p, content), namesCa'
        PROVE  files["radiusCa"] # "absent"
    <3>1. CASE namesCa
        BY <3>1 DEF CaInv, NoDanglingCa
    <3>2. CASE ~namesCa
      <4>1. Head(script[p]).what = "wpa" /\ request[p].ca
          BY <2>4, <3>2 DEF Puts, NamesCa
      <4>2. script[p] # <<>>
          BY <2>4 DEF FilesInv, Follows, At
      <4>3. request[p].op = "8021x" /\ Done(p) + 1 = 7
          BY <4>1, <4>2, NextOne, ScriptOfWpa
      <4> QED
          BY <2>2, <2>4, <4>1, <4>3 DEF CaInv, CaWritten
    <3> QED
        BY <3>1, <3>2
  <2>5. CASE Checked(p)
    <3>1. CaWritten(p)'
      <4>1. ASSUME request[p].op = "8021x", request[p].ca, Done(p) + 1 >= 6
            PROVE  files["radiusCa"] # "absent"
        <5>1. Done(p) # 5
            BY <2>3, <2>5, <4>1 DEF Checked, At
        <5>2. Done(p) >= 6
            BY <2>2, <4>1, <5>1
        <5> QED
            BY <2>5, <4>1, <5>2 DEF Checked, CaInv, CaWritten
      <4> QED
          BY <1>2, <2>5, <4>1, Moves DEF CaWritten
    <3> QED
        BY <1>2, <1>4, <2>1, <2>5, <3>1 DEF Checked, CaInv, NoDanglingCa
  <2>6. CASE OpenFile(p)
    <3>1. CaWritten(p)'
      <4>1. ASSUME request[p].op = "8021x", request[p].ca, Done(p) >= 5
            PROVE  files'["radiusCa"] # "absent"
        <5>1. CASE Done(p) = 5
          <6>1. Head(script[p]).what = "radiusCa"
              BY <2>3, <2>6, <4>1, <5>1 DEF OpenFile, At, Write
          <6> QED
              BY <1>1, <2>6, <6>1 DEF OpenFile, Types, File
        <5>2. CASE Done(p) >= 6
            BY <1>2, <2>6, <4>1, <5>2 DEF OpenFile, CaInv, CaWritten
        <5> QED
            BY <2>2, <4>1, <5>1, <5>2
      <4> QED
          BY <2>2, <2>6, <4>1, Moves DEF CaWritten
    <3>2. namesCa' => namesCa
        BY <2>6 DEF OpenFile, NamesCa
    <3> QED
        BY <1>2, <1>4, <2>1, <3>1, <3>2 DEF CaInv, NoDanglingCa
  <2>7. CASE FlushFile(p) \/ FlushFails(p)
    <3>1. phase[p] = "open"
        BY <2>7 DEF FlushFile, FlushFails
    <3>2. \E content : Puts(p, content)
        BY <2>7, Moves
    <3>3. CaWritten(p)'
      <4>1. ASSUME request[p].op = "8021x", request[p].ca, Done(p) + 1 >= 6
            PROVE  files["radiusCa"] # "absent"
        <5>1. Done(p) >= 5
            BY <2>2, <4>1
        <5> QED
            BY <3>1, <4>1, <5>1 DEF CaInv, CaWritten
      <4>2. /\ request'[p] = request[p]
            /\ \/ phase'[p] = "done"
               \/ phase'[p] = "run" /\ Done(p)' = Done(p) + 1
          BY <2>7, Moves
      <4> QED
          BY <1>2, <4>1, <4>2 DEF CaWritten
    <3>4. NoDanglingCa'
        BY <1>2, <2>4, <3>1, <3>2 DEF NoDanglingCa
    <3> QED
        BY <1>4, <2>1, <3>3, <3>4 DEF CaInv
  <2>8. CASE Refused(p) \/ OpenFails(p) \/ Finish(p) \/ Return(p) \/ Die(p)
    <3>1. phase'[p] \in {"done", "idle"}
        BY <2>8, Moves
    <3>2. files' = files /\ namesCa' = namesCa
        BY <2>8 DEF Refused, OpenFails, Finish, Return, Die, Gone
    <3>3. CaWritten(p)'
        BY <3>1 DEF CaWritten
    <3> QED
        BY <1>4, <2>1, <3>2, <3>3 DEF CaInv, NoDanglingCa
  <2> QED
      BY <1>6, <2>5, <2>6, <2>7, <2>8 DEF Step
<1> QED
    BY <1>3, <1>5, <1>6 DEF Next

(***************************************************************************)
(* The configuration of wpa_supplicant never names an authority whose file *)
(* was never written, however many callers write at the same time, fail or *)
(* die (config8021xWrite 52-91).                                           *)
(***************************************************************************)
THEOREM CaNeverDangles == Spec => []NoDanglingCa
<1>1. Init => FilesInv /\ CaInv
    BY FilesInitially
<1>2. FilesInv /\ CaInv /\ [Next]_filesVars => (FilesInv /\ CaInv)'
    BY FilesStep, CaStep
<1>3. CaInv => NoDanglingCa
    BY DEF CaInv
<1> QED
    BY <1>1, <1>2, <1>3, PTL DEF Spec

-----------------------------------------------------------------------------
(* The files of the web server.                                            *)

SslFiles == {"sslKey", "sslCert", "journalKey", "journalCert"}

\* They are written by configSslWrite only, from its third instruction on.
LEMMA WhoWritesSsl ==
    ASSUME NEW r, NEW k \in 1 .. Len(Script(r)), Script(r)[k].what \in SslFiles
    PROVE  r.op = "ssl" /\ k >= 3
<1> USE DEF Check, Write, SslFiles
<1>1. CASE Script(r) = WithCa
    BY <1>1 DEF WithCa
<1>2. CASE Script(r) = WithoutCa
    BY <1>2 DEF WithoutCa
<1>3. CASE r.op = "ssl" /\ Script(r) = ScriptSsl(r)
    BY <1>3 DEF ScriptSsl
<1>4. CASE Script(r) = ScriptJournal(r)
    BY <1>4 DEF ScriptJournal
<1>5. ASSUME NEW file \in {"chrony", "chronyKeys", "service"},
             Script(r) = <<Write(file, "-1")>>
      PROVE  FALSE
    BY <1>5
<1>6. CASE Script(r) = <<>>
    BY <1>6
<1> QED
    BY <1>1, <1>2, <1>3, <1>4, <1>5, <1>6, ScriptOf

\* The files and their ranks, and the instruction of each.
LEMMA RankOfSsl ==
    /\ \A k \in 1 .. 4 : SslFile[k] \in SslFiles
    /\ \A j, k \in 1 .. 4 : SslFile[j] = SslFile[k] => j = k
    /\ SslFiles \subseteq File \ {"service"}
BY DEF SslFile, SslFiles, File

\* Where a caller of configSslWrite is.
LEMMA SslAt ==
    ASSUME FilesInv, NEW p \in Proc, request[p].op = "ssl"
    PROVE  /\ Done(p) \in 0 .. 6
           /\ script[p] = <<>> <=> Done(p) = 6
           /\ script[p] # <<>> =>
                  /\ Head(script[p]).code = "-1"
                  /\ Head(script[p]).do = "check" => Done(p) < 2
                  /\ Head(script[p]).do = "write" =>
                         /\ Done(p) - 1 \in 1 .. 4
                         /\ Head(script[p]).what = SslFile[Done(p) - 1]
<1>1. Done(p) \in 0 .. 6 /\ (script[p] = <<>> <=> Done(p) = 6)
    BY NextOne, ScriptOfSsl
<1>2. ASSUME script[p] # <<>>
      PROVE  /\ Head(script[p]) = Script(request[p])[Done(p) + 1]
             /\ Done(p) \in 0 .. 5
    BY <1>1, <1>2, NextOne
<1>3. ASSUME script[p] # <<>>, Done(p) \in {0, 1}
      PROVE  Head(script[p]).do = "check" /\ Head(script[p]).code = "-1"
    BY <1>2, <1>3, ScriptOfSsl
<1>4. ASSUME script[p] # <<>>, Done(p) \in 2 .. 5
      PROVE  /\ Head(script[p]).do = "write" /\ Head(script[p]).code = "-1"
             /\ Done(p) - 1 \in 1 .. 4
             /\ Head(script[p]).what = SslFile[Done(p) - 1]
  <2>1. Done(p) - 1 \in 1 .. 4 /\ (Done(p) - 1) + 2 = Done(p) + 1
      BY <1>4
  <2>2. Script(request[p])[(Done(p) - 1) + 2] =
            Write(SslFile[Done(p) - 1], "-1")
      BY <2>1, ScriptOfSsl
  <2> QED
      BY <1>2, <1>4, <2>1, <2>2 DEF Write
<1> QED
    BY <1>1, <1>2, <1>3, <1>4

\* Only a caller that writes touches them.
LEMMA WhoTouchesSsl ==
    ASSUME FilesInv, [Next]_filesVars, NEW file \in SslFiles,
           files'[file] # files[file]
    PROVE  \E p \in Proc :
               /\ OpenFile(p) \/ FlushFile(p) \/ FlushFails(p)
               /\ request[p].op = "ssl"
               /\ Done(p) - 1 \in 1 .. 4
               /\ file = SslFile[Done(p) - 1]
<1>1. file \in File \ {"service"}
    BY RankOfSsl
<1>2. CASE UNCHANGED filesVars
    BY <1>2 DEF filesVars
<1>3. ASSUME NEW p \in Proc, NEW r \in Request, Ask(p, r)
      PROVE  FALSE
    BY <1>1, <1>3, Asks
<1>4. ASSUME NEW p \in Proc, Step(p)
      PROVE  /\ OpenFile(p) \/ FlushFile(p) \/ FlushFails(p)
             /\ request[p].op = "ssl"
             /\ Done(p) - 1 \in 1 .. 4
             /\ file = SslFile[Done(p) - 1]
  <2>1. OpenFile(p) \/ FlushFile(p) \/ FlushFails(p)
      BY <1>4 DEF Step, Checked, Refused, OpenFails, Finish, Return, Die, Gone
  <2>2. At(p, "write")
      BY <2>1 DEF OpenFile, FlushFile, FlushFails, FilesInv, Follows
  <2>3. file = Head(script[p]).what
    <3>1. \E content : files' =
                           [files EXCEPT ![Head(script[p]).what] = content]
      <4>1. CASE OpenFile(p)
          BY <4>1 DEF OpenFile
      <4>2. CASE FlushFile(p) \/ FlushFails(p)
          BY <4>2, Moves DEF Puts
      <4> QED
          BY <2>1, <4>1, <4>2
    <3> QED
        BY <1>1, <3>1 DEF FilesInv, Types
  <2>4. request[p].op = "ssl"
      BY <2>2, <2>3, NextOne, WhoWritesSsl DEF At
  <2> QED
      BY <2>1, <2>2, <2>3, <2>4, SslAt DEF At
<1> QED
    BY <1>2, <1>3, <1>4 DEF Next

-----------------------------------------------------------------------------
\* Two callers that write have met.
LEMMA ApartStep ==
    ASSUME FilesInv, "overlap" \notin mishaps => Apart, [Next]_filesVars
    PROVE  "overlap" \notin mishaps' => Apart' /\ "overlap" \notin mishaps
<1>1. Types
    BY DEF FilesInv
<1>2. CASE UNCHANGED filesVars
    BY <1>2 DEF filesVars, past, Apart, Writing
<1>3. ASSUME NEW p \in Proc, OnlyOf(p), Writing(p)' => Writing(p),
             "overlap" \notin mishaps' => "overlap" \notin mishaps
      PROVE  "overlap" \notin mishaps' => Apart' /\ "overlap" \notin mishaps
  <2>1. \A q \in Proc : Writing(q)' => Writing(q)
      BY <1>3 DEF OnlyOf, Writing
  <2> QED
      BY <1>3, <2>1 DEF Apart
<1>4. ASSUME NEW p \in Proc, NEW r \in Request, Ask(p, r)
      PROVE  "overlap" \notin mishaps' => Apart' /\ "overlap" \notin mishaps
  <2>1. OnlyOf(p)
      BY <1>1, <1>4, StepsAreApart
  <2>2. CASE Begin(p, r)
    <3>1. "overlap" \notin mishaps' =>
              "overlap" \notin mishaps /\ \A q \in Proc : phase[q] = "idle"
        BY <2>2 DEF Begin
    <3>2. ASSUME \A q \in Proc : phase[q] = "idle"
          PROVE  Apart'
      <4>1. \A q \in Proc \ {p} : ~Writing(q)'
          BY <2>1, <3>2 DEF OnlyOf, Writing
      <4> QED
          BY <4>1 DEF Apart
    <3> QED
        BY <3>1, <3>2
  <2>3. CASE phase'[p] = "done" /\ request'[p].op \notin WriteOps
             /\ mishaps' = mishaps
      BY <1>3, <2>1, <2>3 DEF Writing
  <2>4. mishaps' = mishaps \/ Begin(p, r)
      BY <1>4 DEF Ask, Disable, DisableFails, IsEnabled, IsEnabledFails,
                  AsksFor, past
  <2> QED
      BY <1>4, <2>2, <2>3, <2>4, Asks
<1>5. ASSUME NEW p \in Proc, Step(p)
      PROVE  "overlap" \notin mishaps' => Apart' /\ "overlap" \notin mishaps
  <2>1. OnlyOf(p)
      BY <1>1, <1>5, StepsAreApart
  <2>2. "overlap" \notin mishaps' => "overlap" \notin mishaps
      BY <1>5 DEF Step, Checked, Refused, OpenFile, OpenFails, FlushFile,
                  FlushFails, Finish, Return, Die, Failed, past
  <2>3. Writing(p)' => Writing(p)
    <3>1. CASE Return(p) \/ Die(p)
        BY <3>1, Moves DEF Writing
    <3>2. CASE ~(Return(p) \/ Die(p))
        BY <1>5, <3>2
           DEF Writing, Step, Checked, Refused, OpenFile, OpenFails, FlushFile,
               FlushFails, Finish
    <3> QED
        BY <3>1, <3>2
  <2> QED
      BY <1>3, <2>1, <2>2, <2>3
<1> QED
    BY <1>2, <1>4, <1>5 DEF Next

\* The errors that nobody sees are counted.
LEMMA LostIsCounted ==
    ASSUME FilesInv, [Next]_filesVars, lost' = 0
    PROVE  lost = 0
<1>1. lost \in Nat
    BY FilesAssumption DEF FilesInv, Types
<1>2. lost' = lost \/ lost' = lost + 1
  <2>1. CASE UNCHANGED filesVars
      BY <2>1 DEF filesVars, past
  <2>2. ASSUME NEW p \in Proc, NEW r \in Request, Ask(p, r)
        PROVE  lost' = lost
      BY <2>2, Asks
  <2>3. ASSUME NEW p \in Proc, Step(p)
        PROVE  lost' = lost \/ lost' = lost + 1
      BY <2>3 DEF Step, Checked, Refused, OpenFile, OpenFails, FlushFile,
                  FlushFails, Finish, Return, Die, Failed, past
  <2> QED
      BY <2>1, <2>2, <2>3 DEF Next
<1> QED
    BY <1>1, <1>2

LEMMA SslStep ==
    ASSUME FilesInv, SslInv, [Next]_filesVars
    PROVE  SslInv'
<1>1. Types
    BY DEF FilesInv
<1>2. "overlap" \notin mishaps' => Apart' /\ Apart /\ "overlap" \notin mishaps
    BY ApartStep DEF SslInv
<1> SUFFICES ASSUME lost' = 0, "overlap" \notin mishaps', NEW p \in Proc,
                    phase'[p] # "idle", request'[p].op = "ssl"
             PROVE  SslWritten(p)'
    BY <1>2 DEF SslInv, SslWritten
<1>3. SslWritten(p) /\ Apart
    BY <1>2, LostIsCounted DEF SslInv
<1>4. CASE UNCHANGED filesVars
    BY <1>3, <1>4 DEF filesVars, SslWritten, Done
<1>5. ASSUME NEW q \in Proc, OnlyOf(q), q # p,
             Step(q) \/ \E r \in Request : Ask(q, r)
      PROVE  SslWritten(p)'
  <2>1. /\ phase'[p] = phase[p] /\ request'[p] = request[p]
        /\ script'[p] = script[p] /\ rc'[p] = rc[p]
        /\ Done(p)' = Done(p)
      BY <1>5, OthersFollow DEF OnlyOf
  <2>2. ASSUME NEW file \in SslFiles
        PROVE  files'[file] = files[file]
    <3>1. SUFFICES ASSUME files'[file] # files[file]
                   PROVE  FALSE
        OBVIOUS
    <3>2. PICK s \in Proc : /\ OpenFile(s) \/ FlushFile(s) \/ FlushFails(s)
                            /\ request[s].op = "ssl"
        BY <3>1, WhoTouchesSsl
    <3>3. Writing(s) /\ Writing(p)
        BY <2>1, <3>2
           DEF Writing, WriteOps, OpenFile, FlushFile, FlushFails
    <3>4. s = p
        BY <1>3, <3>3 DEF Apart
    <3>5. phase'[s] # phase[s]
      <4>1. CASE OpenFile(s)
          BY <4>1, Moves DEF OpenFile
      <4>2. CASE FlushFile(s)
          BY <4>2, Moves DEF FlushFile
      <4>3. CASE FlushFails(s)
          BY <1>1, <4>3 DEF FlushFails, Ends, Types
      <4> QED
          BY <3>2, <4>1, <4>2, <4>3
    <3> QED
        BY <2>1, <3>4, <3>5
  <2>3. phase[p] = "open" => Head(script[p]).what \in SslFiles
    <3>1. phase[p] = "open" => At(p, "write")
        BY DEF FilesInv, Follows
    <3> QED
        BY <2>1, <3>1, SslAt, RankOfSsl DEF At
  <2> QED
      BY <1>3, <2>1, <2>2, <2>3, RankOfSsl DEF SslWritten
<1>6. ASSUME NEW r \in Request, Ask(p, r)
      PROVE  SslWritten(p)'
  <2>1. phase'[p] = "run" /\ Done(p)' = 0
      BY <1>6, Asks DEF WriteOps
  <2> QED
      BY <2>1 DEF SslWritten
<1>7. ASSUME Step(p)
      PROVE  SslWritten(p)'
  <2>1. request[p].op = "ssl" /\ phase[p] # "idle"
    <3>1. CASE Return(p) \/ Die(p)
        BY <3>1, Moves
    <3>2. CASE ~(Return(p) \/ Die(p))
        BY <1>7, <3>2
           DEF Step, Checked, Refused, OpenFile, OpenFails, FlushFile,
               FlushFails, Finish
    <3> QED
        BY <3>1, <3>2
  <2>2. /\ Done(p) \in 0 .. 6
        /\ \A k \in 1 .. 4 :
              Done(p) >= k + 2 => files[SslFile[k]] = request[p].text
      BY <1>3, <2>1, SslAt DEF SslWritten
  <2>3. CASE Checked(p)
    <3>1. Done(p)' < 3
        BY <2>1, <2>2, <2>3, SslAt, Moves DEF Checked, At
    <3> QED
        BY <2>2, <2>3, <3>1, Moves DEF SslWritten
  <2>4. CASE OpenFile(p)
    <3>1. /\ Done(p) - 1 \in 1 .. 4
          /\ Head(script[p]).what = SslFile[Done(p) - 1]
        BY <2>1, <2>4, SslAt DEF OpenFile, At
    <3>2. files' = [files EXCEPT ![SslFile[Done(p) - 1]] = "empty"]
        BY <2>4, <3>1 DEF OpenFile
    <3>3. files'[SslFile[Done(p) - 1]] = "empty"
        BY <1>1, <3>1, <3>2, RankOfSsl DEF Types
    <3>4. ASSUME NEW k \in 1 .. 4, Done(p) >= k + 2
          PROVE  files'[SslFile[k]] = request[p].text
      <4>1. SslFile[k] # SslFile[Done(p) - 1]
          BY <2>2, <3>1, <3>4, RankOfSsl
      <4> QED
          BY <1>1, <2>2, <3>2, <3>4, <4>1, RankOfSsl DEF Types
    <3>5. /\ Done(p)' = Done(p) /\ phase'[p] = "open"
          /\ request'[p] = request[p] /\ script'[p] = script[p]
        BY <2>4, Moves
    <3> QED
        BY <3>1, <3>3, <3>4, <3>5 DEF SslWritten
  <2>5. CASE FlushFile(p)
    <3>1. phase[p] = "open" /\ At(p, "write")
        BY <2>5 DEF FlushFile, FilesInv, Follows
    <3>2. /\ Done(p) - 1 \in 1 .. 4
          /\ Head(script[p]).what = SslFile[Done(p) - 1]
        BY <2>1, <3>1, SslAt DEF At
    <3>3. files[Head(script[p]).what] = "empty"
        BY <1>3, <2>1, <3>1 DEF SslWritten
    <3>4. files' = [files EXCEPT ![SslFile[Done(p) - 1]] = request[p].text]
        BY <2>5, <3>2, <3>3, Moves DEF Puts, Flushed
    <3>5. /\ Done(p)' = Done(p) + 1 /\ phase'[p] = "run"
          /\ request'[p] = request[p]
        BY <2>5, Moves
    <3>6. ASSUME NEW k \in 1 .. 4, Done(p) + 1 >= k + 2
          PROVE  files'[SslFile[k]] = request[p].text
      <4>1. CASE k = Done(p) - 1
          BY <1>1, <3>2, <3>4, <4>1, RankOfSsl DEF Types
      <4>2. CASE k # Done(p) - 1
        <5>1. Done(p) >= k + 2 /\ SslFile[k] # SslFile[Done(p) - 1]
            BY <2>2, <3>2, <3>6, <4>2, RankOfSsl
        <5> QED
            BY <1>1, <2>2, <3>4, <5>1, RankOfSsl DEF Types
      <4> QED
          BY <4>1, <4>2
    <3> QED
        BY <3>5, <3>6 DEF SslWritten
  <2>6. CASE FlushFails(p)
    <3>1. phase[p] = "open" /\ At(p, "write")
        BY <2>6 DEF FlushFails, FilesInv, Follows
    <3>2. /\ Done(p) - 1 \in 1 .. 4
          /\ Head(script[p]).what = SslFile[Done(p) - 1]
          /\ Head(script[p]).code = "-1"
        BY <2>1, <3>1, SslAt DEF At
    <3>3. lost' # lost + 1
        BY LostIsCounted
    <3>4. /\ Done(p)' = Done(p) /\ phase'[p] = "done" /\ rc'[p] = "-1"
          /\ request'[p] = request[p]
        BY <2>6, <3>2, <3>3, Moves
    <3>5. \E content :
              files' = [files EXCEPT ![SslFile[Done(p) - 1]] = content]
        BY <2>6, <3>2, Moves DEF Puts
    <3>6. ASSUME NEW k \in 1 .. 4, Done(p) >= k + 2
          PROVE  files'[SslFile[k]] = request[p].text
      <4>1. SslFile[k] # SslFile[Done(p) - 1]
          BY <2>2, <3>2, <3>6, RankOfSsl
      <4> QED
          BY <1>1, <2>2, <3>5, <3>6, <4>1, RankOfSsl DEF Types
    <3> QED
        BY <3>4, <3>6 DEF SslWritten
  <2>7. CASE Refused(p) \/ OpenFails(p)
    <3>1. script[p] # <<>> /\ rc'[p] = Head(script[p]).code
        BY <1>1, <2>7 DEF Refused, OpenFails, At, Ends, Types
    <3>2. rc'[p] = "-1"
        BY <2>1, <3>1, SslAt
    <3>3. /\ Done(p)' = Done(p) /\ phase'[p] = "done"
          /\ request'[p] = request[p]
        BY <2>7, Moves
    <3>4. files' = files
        BY <2>7 DEF Refused, OpenFails
    <3> QED
        BY <2>2, <3>2, <3>3, <3>4 DEF SslWritten
  <2>8. CASE Finish(p)
    <3>1. /\ Done(p)' = Done(p) /\ phase'[p] = "done"
          /\ request'[p] = request[p]
        BY <2>8, Moves
    <3>2. files' = files /\ script' = script /\ script[p] = <<>>
        BY <2>8 DEF Finish
    <3> QED
        BY <2>2, <3>1, <3>2 DEF SslWritten
  <2>9. CASE Return(p) \/ Die(p)
      BY <2>9, Moves
  <2> QED
      BY <1>7, <2>3, <2>4, <2>5, <2>6, <2>7, <2>8, <2>9 DEF Step
<1> QED
    BY <1>1, <1>4, <1>5, <1>6, <1>7, StepsAreApart DEF Next

(***************************************************************************)
(* "Overwrites the ssl privateKey and certificates files ... returns 0 if  *)
(* ok" (libyocto.h 279-282): every file holds the text of a call that      *)
(* returns 0, whatever failed or died before it, as long as no error of    *)
(* fclose was missed and no two calls met.                                 *)
(***************************************************************************)
THEOREM OkFilesAreWritten == Spec => []OkMeansWritten
<1>1. Init => FilesInv /\ SslInv
    BY FilesInitially
<1>2. FilesInv /\ SslInv /\ [Next]_filesVars => (FilesInv /\ SslInv)'
    BY FilesStep, SslStep
<1>3. FilesInv /\ SslInv => OkMeansWritten
  <2> SUFFICES ASSUME FilesInv, SslInv, lost = 0, "overlap" \notin mishaps,
                      NEW p \in Proc, phase[p] = "done", rc[p] = "0",
                      request[p].op = "ssl", NEW f \in SslFiles
               PROVE  files[f] = request[p].text
      BY DEF OkMeansWritten, SslFiles
  <2>1. Done(p) = 6
      BY SslAt DEF SslInv, SslWritten
  <2>2. \A k \in 1 .. 4 : files[SslFile[k]] = request[p].text
      BY <2>1 DEF SslInv, SslWritten
  <2> QED
      BY <2>2 DEF SslFile, SslFiles
<1> QED
    BY <1>1, <1>2, <1>3, PTL DEF Spec

-----------------------------------------------------------------------------
LEMMA MatchStep ==
    ASSUME FilesInv, SslInv, MatchInv, [Next]_filesVars
    PROVE  MatchInv'
<1>1. Types
    BY DEF FilesInv
<1> SUFFICES ASSUME lost' = 0, mishaps' = {}, ~\E p \in Proc : Midway(p)'
             PROVE  Matching'
    BY DEF MatchInv
<1>2. mishaps = {}
  <2>1. CASE UNCHANGED filesVars
      BY <2>1 DEF filesVars, past
  <2>2. ASSUME NEW p \in Proc, NEW r \in Request, Ask(p, r)
        PROVE  mishaps = {}
      BY <2>2 DEF Ask, Begin, Disable, DisableFails, IsEnabled,
                  IsEnabledFails, AsksFor, past
  <2>3. ASSUME NEW p \in Proc, Step(p)
        PROVE  mishaps = {}
      BY <2>3 DEF Step, Checked, Refused, OpenFile, OpenFails, FlushFile,
                  FlushFails, Finish, Return, Die, Failed, past
  <2> QED
      BY <2>1, <2>2, <2>3 DEF Next
<1>3. lost = 0
    BY LostIsCounted
\* Who is midway stays so until its last instruction.
<1>4. ASSUME NEW p \in Proc, Midway(p)
      PROVE  Finish(p)
  <2>1. ASSUME phase'[p] = phase[p], request'[p] = request[p],
               Done(p)' = Done(p)
        PROVE  FALSE
      BY <1>4, <2>1 DEF Midway
  <2>2. CASE UNCHANGED filesVars
      BY <2>1, <2>2 DEF filesVars, Done
  <2>3. ASSUME NEW q \in Proc \ {p}, OnlyOf(q)
        PROVE  FALSE
      BY <2>1, <2>3, OthersFollow DEF OnlyOf
  <2>4. ASSUME NEW r \in Request, Ask(p, r)
        PROVE  FALSE
      BY <1>4, <2>4, Asks DEF Midway
  <2>5. ASSUME Step(p)
        PROVE  Finish(p)
    <3>1. Done(p) \in Nat /\ Done(p) >= 2 /\ request[p].op = "ssl"
        BY <1>4, NextOne DEF Midway
    <3>2. CASE Checked(p) \/ Refused(p)
        BY <3>1, <3>2, SslAt DEF Checked, Refused, At
    <3>3. CASE OpenFile(p)
        BY <3>1, <3>3, Moves DEF Midway
    <3>4. CASE FlushFile(p)
        BY <3>1, <3>4, Moves DEF Midway
    <3>5. CASE FlushFails(p)
      <4>1. \/ "failed" \in mishaps'
            \/ lost' = lost + 1
          BY <3>5, Moves
      <4> QED
          BY <1>3, <4>1
    <3>6. CASE OpenFails(p) \/ Die(p)
        BY <3>6 DEF OpenFails, Die, Failed
    <3>7. ~Return(p)
        BY <1>4 DEF Return, Midway
    <3> QED
        BY <2>5, <3>2, <3>3, <3>4, <3>5, <3>6, <3>7 DEF Step
  <2> QED
      BY <1>1, <2>2, <2>3, <2>4, <2>5, StepsAreApart DEF Next
<1>5. CASE \E p \in Proc : Midway(p)
  <2>1. PICK p \in Proc : Midway(p) /\ Finish(p)
      BY <1>4, <1>5
  <2>2. files' = files /\ Done(p) = 6
      BY <2>1, SslAt DEF Finish, Midway
  <2>3. \A k \in 1 .. 4 : files[SslFile[k]] = request[p].text
      BY <1>2, <1>3, <2>1, <2>2 DEF SslInv, SslWritten, Midway
  <2> QED
      BY <2>2, <2>3 DEF Matching, SslFile
<1>6. CASE ~\E p \in Proc : Midway(p)
  <2>1. Matching
      BY <1>2, <1>3, <1>6 DEF MatchInv
  <2>2. ASSUME NEW file \in SslFiles, files'[file] # files[file]
        PROVE  FALSE
    <3>1. PICK p \in Proc : /\ OpenFile(p) \/ FlushFile(p) \/ FlushFails(p)
                            /\ request[p].op = "ssl"
                            /\ Done(p) - 1 \in 1 .. 4
        BY <2>2, WhoTouchesSsl
    <3>2. Done(p) >= 2
        BY <3>1, NextOne
    <3> QED
        BY <1>6, <3>1, <3>2 DEF Midway, OpenFile, FlushFile, FlushFails
  <2> QED
      BY <2>1, <2>2 DEF Matching, SslFiles
<1> QED
    BY <1>5, <1>6

(***************************************************************************)
(* The key and the certificate of the web server and their copies are of   *)
(* the same caller whenever nobody is writing, as long as no file failed,  *)
(* no caller died and no two calls met: a refused call has written none of *)
(* them (configSslWrite 30-46).                                            *)
(***************************************************************************)
THEOREM PairsMatchWhenQuiet == Spec => []PairsMatch
<1>1. Init => FilesInv /\ SslInv /\ MatchInv
    BY FilesInitially
<1>2. /\ FilesInv /\ SslInv /\ MatchInv
      /\ [Next]_filesVars
      => (FilesInv /\ SslInv /\ MatchInv)'
    BY FilesStep, SslStep, MatchStep
<1>3. MatchInv => PairsMatch
    BY DEF MatchInv, PairsMatch, Quiet, Midway, Matching
<1> QED
    BY <1>1, <1>2, <1>3, PTL DEF Spec

=============================================================================
