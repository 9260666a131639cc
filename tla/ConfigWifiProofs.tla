-------------------------- MODULE ConfigWifiProofs --------------------------
(***************************************************************************)
(* Two processes never write to the same file, a reader takes the values   *)
(* of one caller, a writer that nothing upset leaves the whole file, and a *)
(* lost file stays lost, for any number of processes and files, and any    *)
(* text of the configuration.                                              *)
(***************************************************************************)
EXTENDS ConfigWifi, TLAPS

\* What the argument needs to know of the types.
HandlesOK ==
    /\ name \in Inode \cup {None}
    /\ pc \in [Proc -> Location]
    /\ open \in [Proc -> Inode \cup {None}]

\* OneCreator strengthens OneWriterPerFile: the process that is about to make
\* the file finds no file of that name, and is alone to look for one.
WriterInv == HandlesOK /\ OneCreator /\ OneWriterPerFile

(***************************************************************************)
(* Every step of configWifiWrite and configWifiRead, every failure and     *)
(* every death preserves WriterInv.                                        *)
(***************************************************************************)
LEMMA WifiStepPreserves == WriterInv /\ [Next]_wifiVars => WriterInv'
<1> SUFFICES ASSUME WriterInv, [Next]_wifiVars PROVE WriterInv'
    OBVIOUS
<1> USE DEF WriterInv, HandlesOK, OneCreator, OneWriterPerFile, Location, Go,
            Closed, Opened
<1>1. CASE UNCHANGED wifiVars
    BY <1>1 DEF wifiVars
<1>2. ASSUME NEW p \in Proc, WriteNext(p)
      PROVE  WriterInv'
  <2>1. CASE WriteOpen(p) \/ WriteRefused(p)
      BY <2>1 DEF WriteOpen, WriteRefused, WriteEnds
  <2>2. CASE CopyLine(p) \/ CopyFails(p) \/ CopyEnd(p)
      BY <2>2 DEF CopyLine, CopyFails, CopyEnd, WriteEnds
  <2>3. CASE Remove(p)
      BY <2>3 DEF Remove
  <2>4. CASE RemoveFails(p) \/ CreateFails(p)
      BY <2>4 DEF RemoveFails, CreateFails, WriteEnds
  <2>5. CASE Create(p)
    <3>1. name = None /\ pc[p] = "create" /\ Go(p, "fill")
        BY <2>5 DEF Create
    <3>2. PICK i \in Inode : ~InUse(i) /\ name' = i /\ Opened(p, i)
        BY <2>5, <3>1 DEF Create
    <3>3. \A q \in Proc : open[q] # i
        BY <3>2 DEF InUse
    <3>4. \A q \in Proc : pc[q] = "create" => q = p
        BY <3>1
    <3> QED
        BY <3>1, <3>2, <3>3, <3>4
  <2>6. CASE Fill(p) \/ FillEnd(p) \/ FillFails(p)
      BY <2>6 DEF Fill, FillEnd, FillFails, WriteEnds
  <2> QED
      BY <1>2, <2>1, <2>2, <2>3, <2>4, <2>5, <2>6 DEF WriteNext
<1>3. ASSUME NEW p \in Proc, ReadNext(p)
      PROVE  WriterInv'
    BY <1>3 DEF ReadNext, ReadOpen, ReadRefused, ReadLine, ReadTooLong,
                ReadEnd, ReadEnds
<1>4. ASSUME NEW p \in Proc, Return(p) \/ Die(p)
      PROVE  WriterInv'
    BY <1>4 DEF Return, Die, Gone
<1> QED
    BY <1>1, <1>2, <1>3, <1>4 DEF Next

(***************************************************************************)
(* At most one process is between remove() and fopen(), and no two write   *)
(* to one file (configWifiWrite, configCopyTmpFile), whoever fails or      *)
(* dies.                                                                   *)
(***************************************************************************)
THEOREM OneWriter == Spec => [](OneCreator /\ OneWriterPerFile)
<1>1. Init => WriterInv
    BY DEF Init, WriterInv, HandlesOK, OneCreator, OneWriterPerFile, Location
<1>2. WriterInv => OneCreator /\ OneWriterPerFile
    BY DEF WriterInv
<1> QED
    BY <1>1, <1>2, WifiStepPreserves, PTL DEF Spec

-----------------------------------------------------------------------------
(* What a reader takes.                                                    *)

OpenOK ==
    \A p \in Proc : pc[p] \in {"copy", "read", "fill"} => open[p] \in Inode

TextsOK ==
    /\ disk \in [Inode -> Seq(Line)]
    /\ tmp \in [Proc -> Seq(Line)]
    /\ pos \in [Proc -> Nat]

ValuesOK ==
    /\ room \in [Proc -> SUBSET Replaced]
    /\ got \in [Proc -> [Replaced -> Proc \cup {Factory, None}]]
    /\ rc \in [Proc -> {"0", "1", "-1"}]
    /\ upset \in BOOLEAN

FilesOK == HandlesOK /\ OpenOK /\ TextsOK /\ ValuesOK

\* The two values of the file are those of one owner.
Owned(file, owner) ==
    \A n \in DOMAIN file : file[n].key \in Replaced => file[n].value = owner

OneOwner ==
    /\ \A i \in Inode : \E owner \in Proc \cup {Factory} : Owned(disk[i], owner)
    /\ \A p \in Proc : Owned(tmp[p], p)

\* A writer is at the end of the file it makes.
Appends ==
    \A p \in Proc :
        pc[p] = "fill" => /\ Owned(disk[open[p]], p)
                          /\ pos[p] = Len(disk[open[p]])

\* What a reader has got is in the file it has open.
Holds(file, k, v) == \E n \in DOMAIN file : file[n].key = k /\ file[n].value = v

FromFile ==
    \A p \in Proc :
        pc[p] = "read" =>
            \A k \in Replaced : got[p][k] = None \/ Holds(disk[open[p]], k, got[p][k])

Unread ==
    \A p \in Proc :
        pc[p] \notin {"read", "answered"} => \A k \in Replaced : got[p][k] = None

ReadInv ==
    /\ WriterInv /\ FilesOK
    /\ OneOwner /\ Appends /\ FromFile /\ Unread /\ NoMixedRead

\* A file that has one more line keeps the others.
LEMMA Appended ==
    ASSUME NEW file \in Seq(Line), NEW line \in Line, NEW k \in Nat, k = Len(file)
    PROVE  /\ Filled(file, k + 1, line) \in Seq(Line)
           /\ Len(Filled(file, k + 1, line)) = k + 1
           /\ DOMAIN Filled(file, k + 1, line) = 1 .. (k + 1)
           /\ \A n \in 1 .. k : Filled(file, k + 1, line)[n] = file[n]
           /\ Filled(file, k + 1, line)[k + 1] = line
<1>1. Filled(file, k + 1, line) =
          [n \in 1 .. (k + 1) |-> IF n = k + 1 THEN line ELSE file[n]]
  <2>1. Len(file) \in Nat /\ k + 1 > Len(file)
      OBVIOUS
  <2>2. \A n \in 1 .. (k + 1) : n = k + 1 \/ n > Len(file) <=> n = k + 1
      OBVIOUS
  <2> QED
      BY <2>1, <2>2 DEF Filled
<1>2. \A n \in 1 .. k : file[n] \in Line
    OBVIOUS
<1>3. [n \in 1 .. (k + 1) |-> IF n = k + 1 THEN line ELSE file[n]] \in Seq(Line)
    BY <1>2
<1> QED
    BY <1>1, <1>3

\* Every step keeps the texts texts.
LEMMA TextsStep == FilesOK /\ Appends /\ [Next]_wifiVars => TextsOK'
<1> SUFFICES ASSUME FilesOK, Appends, [Next]_wifiVars PROVE TextsOK'
    OBVIOUS
<1> USE DEF FilesOK, TextsOK, Closed, Opened
<1>1. CASE UNCHANGED wifiVars
    BY <1>1 DEF wifiVars
<1>2. ASSUME NEW p \in Proc, WriteNext(p)
      PROVE  TextsOK'
  <2>1. CASE WriteOpen(p) \/ WriteRefused(p)
    <3>1. UNCHANGED <<disk, tmp>> /\ pos' = [pos EXCEPT ![p] = 0]
        BY <2>1 DEF WriteOpen, WriteRefused, WriteEnds
    <3> QED
        BY <3>1
  <2>2. CASE CopyLine(p)
    <3>1. open[p] \in Inode /\ pos[p] + 1 \in 1 .. Len(disk[open[p]])
        BY <2>2 DEF CopyLine, AtEnd, OpenOK
    <3>2. NextLine(p) \in Line
        BY <3>1 DEF NextLine
    <3>3. WithValue(p, NextLine(p)) \in Line
        BY <3>2 DEF WithValue, Line
    <3>4. Append(tmp[p], WithValue(p, NextLine(p))) \in Seq(Line)
        BY <3>3
    <3>5. /\ UNCHANGED disk
          /\ pos' = [pos EXCEPT ![p] = @ + 1]
          /\ \/ tmp' = [tmp EXCEPT ![p] = Append(@, WithValue(p, NextLine(p)))]
             \/ tmp' = tmp
        BY <2>2 DEF CopyLine
    <3>6. disk' \in [Inode -> Seq(Line)] /\ tmp' \in [Proc -> Seq(Line)]
        BY <3>4, <3>5
    <3>7. pos' \in [Proc -> Nat]
        BY <3>5
    <3> QED
        BY <3>6, <3>7
  <2>3. CASE CopyFails(p) \/ CopyEnd(p)
      BY <2>3 DEF CopyFails, CopyEnd, WriteEnds
  <2>4. CASE Remove(p) \/ RemoveFails(p) \/ CreateFails(p)
      BY <2>4 DEF Remove, RemoveFails, CreateFails, WriteEnds
  <2>5. CASE Create(p)
      BY <2>5 DEF Create
  <2>6. CASE Fill(p)
    <3>1. open[p] \in Inode /\ pos[p] + 1 \in 1 .. Len(tmp[p])
        BY <2>6 DEF Fill, OpenOK
    <3>2. tmp[p][pos[p] + 1] \in Line
        BY <3>1
    <3>3. Filled(disk[open[p]], pos[p] + 1, tmp[p][pos[p] + 1]) \in Seq(Line)
        BY <2>6, <3>1, <3>2, Appended DEF Fill, Appends
    <3> QED
        BY <2>6, <3>1, <3>3 DEF Fill
  <2>7. CASE FillEnd(p) \/ FillFails(p)
    <3>1. UNCHANGED <<disk, tmp>> /\ pos' = [pos EXCEPT ![p] = 0]
        BY <2>7 DEF FillEnd, FillFails, WriteEnds
    <3> QED
        BY <3>1
  <2> QED
      BY <1>2, <2>1, <2>2, <2>3, <2>4, <2>5, <2>6, <2>7 DEF WriteNext
<1>3. ASSUME NEW p \in Proc, ReadNext(p)
      PROVE  TextsOK'
    BY <1>3 DEF ReadNext, ReadOpen, ReadRefused, ReadLine, ReadTooLong,
                ReadEnd, ReadEnds
<1>4. ASSUME NEW p \in Proc, Return(p) \/ Die(p)
      PROVE  TextsOK'
  <2>1. /\ UNCHANGED disk
        /\ pos' = [pos EXCEPT ![p] = 0]
        /\ tmp' = [tmp EXCEPT ![p] = <<>>]
      BY <1>4 DEF Return, Die, Gone
  <2> QED
      BY <2>1
<1> QED
    BY <1>1, <1>2, <1>3, <1>4 DEF Next

LEMMA ValuesStep == FilesOK /\ [Next]_wifiVars => ValuesOK'
<1> SUFFICES ASSUME FilesOK, [Next]_wifiVars PROVE ValuesOK'
    OBVIOUS
<1> USE DEF FilesOK, ValuesOK
<1>1. CASE UNCHANGED wifiVars
    BY <1>1 DEF wifiVars
<1>2. ASSUME NEW p \in Proc, WriteNext(p)
      PROVE  ValuesOK'
    BY <1>2 DEF WriteNext, WriteOpen, WriteRefused, WriteEnds, CopyLine,
                CopyFails, CopyEnd, Remove, RemoveFails, Create, CreateFails,
                Fill, FillEnd, FillFails
<1>3. ASSUME NEW p \in Proc, ReadNext(p)
      PROVE  ValuesOK'
  <2>1. CASE ReadOpen(p) \/ ReadRefused(p)
      BY <2>1 DEF ReadOpen, ReadRefused, ReadEnds
  <2>2. CASE ReadLine(p)
    <3>1. open[p] \in Inode /\ pos[p] + 1 \in 1 .. Len(disk[open[p]])
        BY <2>2 DEF ReadLine, AtEnd, OpenOK, TextsOK
    <3>2. NextLine(p) \in Line
        BY <3>1 DEF NextLine, TextsOK
    <3>3. NextLine(p).value \in Proc \cup {Factory}
        BY <3>2 DEF Line
    <3> QED
        BY <2>2, <3>3 DEF ReadLine
  <2>3. CASE ReadTooLong(p) \/ ReadEnd(p)
      BY <2>3 DEF ReadTooLong, ReadEnd, ReadEnds, Answer
  <2> QED
      BY <1>3, <2>1, <2>2, <2>3 DEF ReadNext
<1>4. ASSUME NEW p \in Proc, Return(p) \/ Die(p)
      PROVE  ValuesOK'
  <2>1. /\ room' = [room EXCEPT ![p] = {}]
        /\ got' = [got EXCEPT ![p] = [k \in Replaced |-> None]]
        /\ rc' = [rc EXCEPT ![p] = "0"]
      BY <1>4 DEF Return, Die, Gone
  <2>2. upset' \in BOOLEAN
      BY <1>4 DEF Return, Die
  <2> QED
      BY <2>1, <2>2
<1> QED
    BY <1>1, <1>2, <1>3, <1>4 DEF Next

LEMMA OpenStep == HandlesOK /\ OpenOK /\ [Next]_wifiVars => OpenOK'
<1> SUFFICES ASSUME HandlesOK, OpenOK, [Next]_wifiVars PROVE OpenOK'
    OBVIOUS
<1> USE DEF HandlesOK, OpenOK, Location, Go, Closed, Opened
<1>1. CASE UNCHANGED wifiVars
    BY <1>1 DEF wifiVars
<1>2. ASSUME NEW p \in Proc, WriteNext(p)
      PROVE  OpenOK'
    BY <1>2 DEF WriteNext, WriteOpen, WriteRefused, WriteEnds, CopyLine,
                CopyFails, CopyEnd, Remove, RemoveFails, Create, CreateFails,
                Fill, FillEnd, FillFails
<1>3. ASSUME NEW p \in Proc, ReadNext(p)
      PROVE  OpenOK'
    BY <1>3 DEF ReadNext, ReadOpen, ReadRefused, ReadLine, ReadTooLong,
                ReadEnd, ReadEnds
<1>4. ASSUME NEW p \in Proc, Return(p) \/ Die(p)
      PROVE  OpenOK'
    BY <1>4 DEF Return, Die, Gone
<1> QED
    BY <1>1, <1>2, <1>3, <1>4 DEF Next

-----------------------------------------------------------------------------
\* The values a reader takes: one step for each action that touches a file,
\* or what somebody read of it.
LEMMA ReadStep == ReadInv /\ [Next]_wifiVars => ReadInv'
<1> SUFFICES ASSUME ReadInv, [Next]_wifiVars PROVE ReadInv'
    OBVIOUS
<1>1. WriterInv'
    BY WifiStepPreserves DEF ReadInv
<1>2. FilesOK'
    BY <1>1, TextsStep, ValuesStep, OpenStep DEF ReadInv, FilesOK, WriterInv
<1> DEFINE Rest == OneOwner /\ Appends /\ FromFile /\ Unread /\ NoMixedRead
<1> SUFFICES Rest'
    BY <1>1, <1>2 DEF ReadInv
<1> USE DEF ReadInv, FilesOK, HandlesOK, OpenOK, TextsOK, ValuesOK
<1>3. CASE UNCHANGED wifiVars
    BY <1>3 DEF wifiVars, OneOwner, Appends, FromFile, Unread, NoMixedRead
<1>4. ASSUME NEW p \in Proc,
             UNCHANGED <<disk, got>>,
             \A q \in Proc \ {p} : /\ pc'[q] = pc[q] /\ open'[q] = open[q]
                                   /\ pos'[q] = pos[q] /\ tmp'[q] = tmp[q],
             pc'[p] # "fill" /\ pc'[p] # "read",
             pc'[p] = "answered" => pc[p] \in {"read", "answered", "idle"},
             pc[p] = "answered" => pc'[p] = "answered",
             pc[p] = "read" => pc'[p] = "answered",
             Owned(tmp'[p], p)
      PROVE  Rest'
  <2>1. OneOwner'
      BY <1>4 DEF OneOwner
  <2>2. Appends'
      BY <1>4 DEF Appends
  <2>3. FromFile'
      BY <1>4 DEF FromFile
  <2>4. Unread'
      BY <1>4 DEF Unread
  <2>5. NoMixedRead'
      BY <1>4 DEF NoMixedRead
  <2> QED
      BY <2>1, <2>2, <2>3, <2>4, <2>5
<1>5. ASSUME NEW p \in Proc, Gone(p)
      PROVE  Rest'
  <2>1. /\ UNCHANGED disk
        /\ pc' = [pc EXCEPT ![p] = "idle"]
        /\ open' = [open EXCEPT ![p] = None]
        /\ pos' = [pos EXCEPT ![p] = 0]
        /\ tmp' = [tmp EXCEPT ![p] = <<>>]
        /\ got' = [got EXCEPT ![p] = [k \in Replaced |-> None]]
      BY <1>5 DEF Gone, Closed, Go
  <2>2. OneOwner'
    <3>1. Owned(<<>>, p)
        BY DEF Owned
    <3> QED
        BY <2>1, <3>1 DEF OneOwner
  <2>3. Appends'
      BY <2>1 DEF Appends
  <2>4. FromFile'
      BY <2>1 DEF FromFile
  <2>5. Unread'
      BY <2>1 DEF Unread
  <2>6. NoMixedRead'
    <3>1. \A q \in Proc \ {p} : got'[q] = got[q]
        BY <2>1
    <3>2. got'[p]["ssid"] = got'[p]["wpa_passphrase"]
        BY <2>1 DEF Replaced
    <3> QED
        BY <3>1, <3>2 DEF NoMixedRead
  <2> QED
      BY <2>2, <2>3, <2>4, <2>5, <2>6
<1>6. ASSUME NEW p \in Proc, WriteNext(p) \/ ReadNext(p)
      PROVE  Rest'
  <2> USE DEF Go, Opened, Closed
  <2>1. CASE WriteOpen(p) \/ WriteRefused(p) \/ CopyFails(p) \/ CopyEnd(p)
      BY <1>4, <2>1 DEF WriteOpen, WriteRefused, CopyFails, CopyEnd, WriteEnds,
                        OneOwner
  <2>2. CASE CopyLine(p)
    <3>1. Owned(tmp'[p], p)
      <4>1. CASE tmp' = tmp
          BY <4>1 DEF OneOwner
      <4>2. CASE tmp' = [tmp EXCEPT ![p] = Append(@, WithValue(p, NextLine(p)))]
        <5>1. open[p] \in Inode /\ pos[p] + 1 \in 1 .. Len(disk[open[p]])
            BY <2>2 DEF CopyLine, AtEnd
        <5>2. NextLine(p) \in Line
            BY <5>1 DEF NextLine
        <5> DEFINE line == WithValue(p, NextLine(p))
        <5>3. line.key \in Replaced => line.value = p
            BY <5>2 DEF WithValue, Line
        <5>4. line \in Line
            BY <5>2 DEF WithValue, Line
        <5>5. tmp'[p] = Append(tmp[p], line)
            BY <4>2
        <5>6. Owned(tmp[p], p) /\ tmp[p] \in Seq(Line)
            BY DEF OneOwner
        <5> HIDE DEF line
        <5>7. Owned(Append(tmp[p], line), p)
            BY <5>3, <5>4, <5>6 DEF Owned
        <5> QED
            BY <5>5, <5>7
      <4> QED
          BY <2>2, <4>1, <4>2 DEF CopyLine
    <3> QED
        BY <1>4, <2>2, <3>1 DEF CopyLine
  <2>3. CASE Remove(p) \/ RemoveFails(p) \/ CreateFails(p)
      BY <1>4, <2>3 DEF Remove, RemoveFails, CreateFails, WriteEnds, OneOwner
  <2>4. CASE FillEnd(p) \/ FillFails(p)
      BY <1>4, <2>4 DEF FillEnd, FillFails, WriteEnds, OneOwner
  <2>5. CASE ReadRefused(p) \/ ReadTooLong(p) \/ ReadEnd(p)
      BY <1>4, <2>5 DEF ReadRefused, ReadTooLong, ReadEnd, ReadEnds, OneOwner
  <2>6. CASE Create(p)
    <3>1. pc[p] = "create" /\ name = None
        BY <2>6 DEF Create, WriterInv, OneCreator
    <3>2. PICK i \in Inode : /\ ~InUse(i)
                             /\ disk' = [disk EXCEPT ![i] = <<>>]
                             /\ open' = [open EXCEPT ![p] = i]
                             /\ pos' = [pos EXCEPT ![p] = 0]
        BY <2>6, <3>1 DEF Create
    <3>3. \A q \in Proc : open[q] # i
        BY <3>2 DEF InUse
    <3>4. pc' = [pc EXCEPT ![p] = "fill"] /\ UNCHANGED <<tmp, got>>
        BY <2>6 DEF Create
    <3>5. \A w : Owned(<<>>, w)
        BY DEF Owned
    <3>6. OneOwner'
        BY <3>2, <3>4, <3>5 DEF OneOwner
    <3>7. Appends'
        BY <3>2, <3>3, <3>4, <3>5 DEF Appends
    <3>8. FromFile'
        BY <3>2, <3>3, <3>4 DEF FromFile
    <3>9. Unread' /\ NoMixedRead'
        BY <3>1, <3>4 DEF Unread, NoMixedRead
    <3> QED
        BY <3>6, <3>7, <3>8, <3>9
  <2>7. CASE Fill(p)
    <3> DEFINE i == open[p]
               k == pos[p]
               line == tmp[p][k + 1]
               file == Filled(disk[i], k + 1, line)
    <3>1. /\ pc[p] = "fill" /\ k < Len(tmp[p])
          /\ pos' = [pos EXCEPT ![p] = k + 1]
          /\ disk' = [disk EXCEPT ![i] = file]
          /\ UNCHANGED <<pc, open, tmp, got>>
        BY <2>7 DEF Fill
    <3>2. /\ i \in Inode /\ k \in Nat /\ k = Len(disk[i])
          /\ disk[i] \in Seq(Line) /\ tmp[p] \in Seq(Line)
          /\ Owned(disk[i], p) /\ Owned(tmp[p], p)
        BY <3>1 DEF Appends, OneOwner
    <3>3. line \in Line /\ (line.key \in Replaced => line.value = p)
        BY <3>1, <3>2 DEF Owned
    <3>4. \A q \in Proc \ {p} : pc[q] = "fill" => open[q] # i
        BY <3>1 DEF WriterInv, OneWriterPerFile
    <3> HIDE DEF line
    <3>5. /\ Len(file) = k + 1
          /\ DOMAIN file = 1 .. (k + 1)
          /\ \A n \in 1 .. k : file[n] = disk[i][n]
          /\ file[k + 1] = line
        BY <3>2, <3>3, Appended
    <3> HIDE DEF file
    <3>6. DOMAIN disk[i] = 1 .. k
        BY <3>2
    <3>7. Owned(file, p)
      <4>1. ASSUME NEW n \in DOMAIN file, file[n].key \in Replaced
            PROVE  file[n].value = p
        <5>1. n \in 1 .. k \/ n = k + 1
            BY <3>2, <3>5
        <5>2. CASE n \in 1 .. k
            BY <4>1, <5>2, <3>2, <3>5, <3>6 DEF Owned
        <5>3. CASE n = k + 1
            BY <4>1, <5>3, <3>3, <3>5
        <5> QED
            BY <5>1, <5>2, <5>3
      <4> QED
          BY <4>1 DEF Owned
    <3>8. \A key, v : Holds(disk[i], key, v) => Holds(file, key, v)
        BY <3>2, <3>5, <3>6 DEF Holds
    <3> HIDE DEF i, k
    <3>9. OneOwner'
        BY <3>1, <3>2, <3>7 DEF OneOwner
    <3>10. Appends'
      <4>1. \A q \in Proc \ {p} : pc[q] = "fill" => disk'[open[q]] = disk[open[q]]
          BY <3>1, <3>2, <3>4
      <4>2. disk'[i] = file /\ open[p] = i /\ pos'[p] = Len(file)
          BY <3>1, <3>2, <3>5 DEF i
      <4> QED
          BY <3>1, <3>7, <4>1, <4>2 DEF Appends
    <3>11. FromFile'
        BY <3>1, <3>2, <3>8 DEF FromFile
    <3>12. Unread' /\ NoMixedRead'
        BY <3>1 DEF Unread, NoMixedRead
    <3> QED
        BY <3>9, <3>10, <3>11, <3>12
  <2>8. CASE ReadOpen(p)
    <3>1. /\ pc[p] = "idle" /\ pc' = [pc EXCEPT ![p] = "read"]
          /\ open' = [open EXCEPT ![p] = name]
          /\ pos' = [pos EXCEPT ![p] = 0]
          /\ UNCHANGED <<disk, tmp, got>>
        BY <2>8 DEF ReadOpen
    <3>2. OneOwner' /\ NoMixedRead'
        BY <3>1 DEF OneOwner, NoMixedRead
    <3>3. Appends'
        BY <3>1 DEF Appends
    <3>4. FromFile' /\ Unread'
        BY <3>1 DEF FromFile, Unread
    <3> QED
        BY <3>2, <3>3, <3>4
  <2>9. CASE ReadLine(p)
    <3> DEFINE line == NextLine(p)
    <3>1. /\ pc[p] = "read" /\ ~AtEnd(p)
          /\ pos' = [pos EXCEPT ![p] = @ + 1]
          /\ got' = IF line.key \in Replaced
                    THEN [got EXCEPT ![p][line.key] = line.value] ELSE got
          /\ UNCHANGED <<disk, pc, open, tmp>>
        BY <2>9 DEF ReadLine
    <3>2. /\ open[p] \in Inode
          /\ pos[p] + 1 \in DOMAIN disk[open[p]]
          /\ line = disk[open[p]][pos[p] + 1]
        BY <3>1 DEF AtEnd, NextLine
    <3> HIDE DEF line
    <3>3. Holds(disk[open[p]], line.key, line.value)
        BY <3>2 DEF Holds
    <3>4. OneOwner' /\ Appends' /\ Unread'
        BY <3>1 DEF OneOwner, Appends, Unread
    <3>5. \A key \in Replaced :
              got'[p][key] = None \/ Holds(disk[open[p]], key, got'[p][key])
        BY <3>1, <3>3 DEF FromFile
    <3>6. \A q \in Proc \ {p} : got'[q] = got[q]
        BY <3>1
    <3>7. FromFile'
        BY <3>1, <3>5, <3>6 DEF FromFile
    <3>8. NoMixedRead'
      <4>1. PICK w \in Proc \cup {Factory} : Owned(disk[open[p]], w)
          BY <3>2 DEF OneOwner
      <4>2. \A key \in Replaced : got'[p][key] = None \/ got'[p][key] = w
          BY <3>5, <4>1 DEF Holds, Owned
      <4> QED
          BY <3>6, <4>2 DEF NoMixedRead, Replaced
    <3> QED
        BY <3>4, <3>7, <3>8
  <2> QED
      BY <1>6, <2>1, <2>2, <2>3, <2>4, <2>5, <2>6, <2>7, <2>8, <2>9
         DEF WriteNext, ReadNext
<1> QED
    BY <1>3, <1>5, <1>6 DEF Next, Return, Die

LEMMA ReadInitially == Init => ReadInv
<1> SUFFICES ASSUME Init PROVE ReadInv
    OBVIOUS
<1>1. WriterInv
    BY DEF Init, WriterInv, HandlesOK, OneCreator, OneWriterPerFile, Location
<1>2. OpenOK /\ Appends /\ FromFile /\ Unread /\ NoMixedRead
    BY DEF Init, OpenOK, Appends, FromFile, Unread, NoMixedRead, Replaced
<1>3. <<>> \in Seq(Line) /\ \A owner : Owned(<<>>, owner)
    BY DEF Owned
<1>4. TextsOK
    BY <1>3, WifiAssumption DEF Init, TextsOK
<1>5. ValuesOK
    BY DEF Init, ValuesOK
<1>6. Owned(Original, Factory)
    BY WifiAssumption DEF Owned
<1>7. OneOwner
    BY <1>3, <1>6 DEF Init, OneOwner
<1> QED
    BY <1>1, <1>2, <1>4, <1>5, <1>7 DEF ReadInv, FilesOK, WriterInv

(***************************************************************************)
(* For any number of processes, files and lines, with every failure and    *)
(* death: the files, the texts and the values that were read keep their    *)
(* types.                                                                  *)
(***************************************************************************)
THEOREM WifiTypeCorrect == Spec => []WifiTypeOK
<1>1. ReadInv => WifiTypeOK
    BY DEF ReadInv, FilesOK, HandlesOK, TextsOK, ValuesOK, WifiTypeOK
<1> QED
    BY <1>1, ReadInitially, ReadStep, PTL DEF Spec

(***************************************************************************)
(* A reader never mixes the values of two callers (configWifiRead 85-114), *)
(* whoever writes, fails or dies while it reads.                           *)
(***************************************************************************)
THEOREM NeverMixed == Spec => []NoMixedRead
<1>1. ReadInv => NoMixedRead
    BY DEF ReadInv
<1> QED
    BY <1>1, ReadInitially, ReadStep, PTL DEF Spec

(***************************************************************************)
(* A configuration that was removed and not made again never comes back    *)
(* (configWifiWrite 204-210): the only step that makes the file is that of *)
(* the process that removed it, and the only step that leads to it finds   *)
(* the file.                                                               *)
(***************************************************************************)
THEOREM LossIsFinal == Spec => LostForGood
<1>1. ReadInv /\ [Next]_wifiVars => [Lost => Lost']_wifiVars
  <2> SUFFICES ASSUME ReadInv, [Next]_wifiVars, Lost PROVE Lost'
      OBVIOUS
  <2> USE DEF ReadInv, WriterInv, HandlesOK, Lost, Go, Location
  <2>1. CASE UNCHANGED wifiVars
      BY <2>1 DEF wifiVars
  <2>2. ASSUME NEW p \in Proc, WriteNext(p)
        PROVE  Lost'
      BY <2>2 DEF WriteNext, WriteOpen, WriteRefused, WriteEnds, CopyLine,
                  CopyFails, CopyEnd, Remove, RemoveFails, Create, CreateFails,
                  Fill, FillEnd, FillFails
  <2>3. ASSUME NEW p \in Proc, ReadNext(p) \/ Return(p) \/ Die(p)
        PROVE  Lost'
      BY <2>3 DEF ReadNext, ReadOpen, ReadRefused, ReadLine, ReadTooLong,
                  ReadEnd, ReadEnds, Return, Die, Gone
  <2> QED
      BY <2>1, <2>2, <2>3 DEF Next
<1> QED
    BY <1>1, ReadInitially, ReadStep, PTL DEF Spec, LostForGood

-----------------------------------------------------------------------------
(* What a writer writes.                                                   *)

\* The file has the first n lines of the original, with the values of owner.
HasLines(lines, owner, n) ==
    /\ Len(lines) = n
    /\ \A k \in 1 .. n : lines[k] = WithValue(owner, Original[k])

IsWhole(lines, owner) == HasLines(lines, owner, Len(Original))

OneWriting == \A p, q \in Proc : Writing(p) /\ Writing(q) => p = q

\* The file is whole unless a writer is between remove() and the end.
WholeOutside ==
    (\A p \in Proc : pc[p] \notin {"create", "fill"}) =>
        /\ name # None
        /\ \E owner \in Proc \cup {Factory} : IsWhole(disk[name], owner)

\* How far the texts of a writer are.
Progress(p) ==
    /\ pc[p] \in {"idle", "read", "answered"} => tmp[p] = <<>>
    /\ pc[p] = "copy" => /\ open[p] = name
                         /\ pos[p] <= Len(Original)
                         /\ HasLines(tmp[p], p, pos[p])
    /\ pc[p] \in {"remove", "create", "fill"} => IsWhole(tmp[p], p)
    /\ pc[p] = "fill" => open[p] = name /\ HasLines(disk[name], p, pos[p])

WholeInv == ~upset => OneWriting /\ WholeOutside /\ \A p \in Proc : Progress(p)

\* One more line.
LEMMA OneMoreLine ==
    ASSUME NEW lines, NEW more, NEW owner, NEW n \in Nat, HasLines(lines, owner, n),
           Len(more) = n + 1, \A k \in 1 .. n : more[k] = lines[k],
           more[n + 1] = WithValue(owner, Original[n + 1])
    PROVE  HasLines(more, owner, n + 1)
<1>1. ASSUME NEW k \in 1 .. (n + 1)
      PROVE  more[k] = WithValue(owner, Original[k])
  <2>1. CASE k = n + 1
      BY <2>1
  <2>2. CASE k # n + 1
    <3>1. k \in 1 .. n
        BY <2>2
    <3> QED
        BY <3>1 DEF HasLines
  <2> QED
      BY <2>1, <2>2
<1> QED
    BY <1>1 DEF HasLines

\* A value that was replaced is replaced again.
LEMMA ValueReplaced ==
    ASSUME NEW line \in Line, NEW p \in Proc, NEW owner \in Proc \cup {Factory}
    PROVE  /\ WithValue(p, WithValue(owner, line)) = WithValue(p, line)
           /\ WithValue(p, line) \in Line
BY DEF WithValue, Line

\* The writer that steps is the only one, so that what the others have to
\* keep is in their own texts.
LEMMA OthersProgress ==
    ASSUME OneWriting, NEW p \in Proc, NEW q \in Proc, q # p, Progress(q),
           Writing(p) \/ UNCHANGED <<name, disk>>,
           pc'[q] = pc[q], open'[q] = open[q], pos'[q] = pos[q],
           tmp'[q] = tmp[q], rc'[q] = rc[q]
    PROVE  Progress(q)'
<1>1. CASE UNCHANGED <<name, disk>>
    BY <1>1 DEF Progress, IsWhole, HasLines, WithValue
<1>2. CASE ~Writing(q)
    BY <1>2 DEF Progress, IsWhole, HasLines, WithValue, Writing
<1> QED
    BY <1>1, <1>2 DEF OneWriting

LEMMA WholeInitially == Init => WholeInv
<1> SUFFICES ASSUME Init PROVE WholeInv
    OBVIOUS
<1>1. Len(Original) \in Nat /\ \A n \in 1 .. Len(Original) : Original[n] \in Line
    BY WifiAssumption
<1>2. \A n \in 1 .. Len(Original) :
          Original[n].key \in Replaced => Original[n].value = Factory
    BY WifiAssumption
<1>3. ASSUME NEW n \in 1 .. Len(Original)
      PROVE  Original[n] = WithValue(Factory, Original[n])
    BY <1>1, <1>2 DEF WithValue, Line
<1>4. IsWhole(Original, Factory)
    BY <1>3 DEF IsWhole, HasLines
<1>5. WholeOutside
    BY <1>4, WifiAssumption DEF Init, WholeOutside
<1>6. OneWriting /\ \A p \in Proc : Progress(p)
    BY DEF Init, OneWriting, Progress, Writing
<1> QED
    BY <1>5, <1>6 DEF WholeInv

(***************************************************************************)
(* Every step that upsets nobody keeps the file whole outside of the       *)
(* writing, and the texts of the writer as far as it is.                   *)
(***************************************************************************)
LEMMA WholeStep == ReadInv /\ ReadInv' /\ WholeInv /\ [Next]_wifiVars => WholeInv'
<1> SUFFICES ASSUME ReadInv, ReadInv', WholeInv, [Next]_wifiVars, ~upset'
             PROVE  /\ OneWriting' /\ WholeOutside'
                    /\ \A p \in Proc : Progress(p)'
    BY DEF WholeInv
<1> USE DEF Go, Closed, Opened
<1>1. ~upset
    BY DEF Next, WriteNext, ReadNext, wifiVars, WriteOpen, WriteRefused, CopyLine,
           CopyFails, CopyEnd, Remove, RemoveFails, Create, CreateFails, Fill,
           FillEnd, FillFails, ReadOpen, ReadRefused, ReadLine, ReadTooLong,
           ReadEnd, Return, Die
<1>2. OneWriting /\ WholeOutside /\ \A p \in Proc : Progress(p)
    BY <1>1 DEF WholeInv
<1>3. /\ name \in Inode \cup {None} /\ pc \in [Proc -> Location]
      /\ open \in [Proc -> Inode \cup {None}] /\ pos \in [Proc -> Nat]
      /\ disk \in [Inode -> Seq(Line)] /\ tmp \in [Proc -> Seq(Line)]
      /\ rc \in [Proc -> {"0", "1", "-1"}]
    BY DEF ReadInv, WriterInv, HandlesOK, FilesOK, TextsOK, ValuesOK
<1>4. CASE UNCHANGED wifiVars
    BY <1>2, <1>4 DEF wifiVars, OneWriting, WholeOutside, Progress, Writing,
                      IsWhole, HasLines
<1>5. /\ Len(Original) \in Nat
      /\ \A n \in 1 .. Len(Original) : Original[n] \in Line
    BY WifiAssumption
<1>6. ASSUME NEW p \in Proc, WriteNext(p) \/ ReadNext(p) \/ Return(p) \/ Die(p)
      PROVE  OneWriting' /\ WholeOutside' /\ \A q \in Proc : Progress(q)'
  <2>1. \A q \in Proc \ {p} :
            /\ pc'[q] = pc[q] /\ open'[q] = open[q] /\ pos'[q] = pos[q]
            /\ tmp'[q] = tmp[q] /\ rc'[q] = rc[q]
    <3>1. CASE WriteNext(p)
        BY <1>3, <3>1 DEF WriteNext, WriteOpen, WriteRefused, WriteEnds, CopyLine,
               CopyFails, CopyEnd, Remove, RemoveFails, Create, CreateFails,
               Fill, FillEnd, FillFails
    <3>2. CASE ReadNext(p)
        BY <1>3, <3>2 DEF ReadNext, ReadOpen, ReadRefused, ReadLine, ReadTooLong,
               ReadEnd, ReadEnds
    <3>3. CASE Return(p) \/ Die(p)
        BY <1>3, <3>3 DEF Return, Die, Gone
    <3> QED
        BY <1>6, <3>1, <3>2, <3>3
  <2>2. Writing(p) \/ UNCHANGED <<name, disk>>
      BY <1>6 DEF WriteNext, ReadNext, WriteOpen, WriteRefused, CopyLine,
             CopyFails, CopyEnd, Remove, RemoveFails, Create, CreateFails, Fill,
             FillEnd, FillFails, ReadOpen, ReadRefused, ReadLine, ReadTooLong,
             ReadEnd, Return, Die, Gone, Writing
  <2>3. \A q \in Proc \ {p} : Progress(q)'
      BY <1>2, <2>1, <2>2, OthersProgress
  <2>4. Writing(p)' => Writing(p) \/ \A q \in Proc : ~Writing(q)
      BY <1>3, <1>6 DEF WriteNext, ReadNext, WriteOpen, WriteRefused, WriteEnds,
             CopyLine, CopyFails, CopyEnd, Remove, RemoveFails, Create,
             CreateFails, Fill, FillEnd, FillFails, ReadOpen, ReadRefused,
             ReadEnds, ReadLine, ReadTooLong, ReadEnd, Return, Die, Gone, Writing
  <2>5. OneWriting'
      BY <1>2, <2>1, <2>4 DEF OneWriting, Writing
  <2>6. ASSUME UNCHANGED <<name, disk>>,
               pc[p] \notin {"create", "fill"}
        PROVE  WholeOutside'
      BY <1>2, <1>3, <2>1, <2>6 DEF WholeOutside, IsWhole, HasLines
  <2>7. Progress(p)
      BY <1>2
  <2>8. Progress(p)' /\ WholeOutside'
    <3>1. CASE WriteOpen(p)
      <4>1. HasLines(<<>>, p, 0)
          BY DEF HasLines
      <4>2. tmp'[p] = <<>> /\ open'[p] = name' /\ pos'[p] = 0 /\ pc'[p] = "copy"
          BY <1>3, <2>7, <3>1 DEF WriteOpen, Progress
      <4>3. Progress(p)'
          BY <1>5, <4>1, <4>2 DEF Progress, HasLines, WithValue
      <4> QED
          BY <2>6, <3>1, <4>3 DEF WriteOpen
    <3>2. CASE WriteRefused(p) \/ CopyFails(p) \/ RemoveFails(p)
      <4>1. Progress(p)'
          BY <1>3, <3>2 DEF WriteRefused, CopyFails, RemoveFails, WriteEnds, Progress
      <4> QED
          BY <2>6, <3>2, <4>1 DEF WriteRefused, CopyFails, RemoveFails
    <3>3. CASE CopyLine(p)
      <4>1. /\ pc[p] = "copy" /\ UNCHANGED <<name, disk, pc, open, rc>>
            /\ pos' = [pos EXCEPT ![p] = @ + 1] /\ ~AtEnd(p)
            /\ tmp' = [tmp EXCEPT ![p] = Append(@, WithValue(p, NextLine(p)))]
          BY <3>3 DEF CopyLine
      <4>2. \A q \in Proc : pc[q] \notin {"create", "fill"}
          BY <1>2, <4>1 DEF OneWriting, Writing
      <4>3. PICK owner \in Proc \cup {Factory} : IsWhole(disk[name], owner)
          BY <1>2, <4>2 DEF WholeOutside
      <4>4. /\ open[p] = name /\ HasLines(tmp[p], p, pos[p])
            /\ pos[p] + 1 \in 1 .. Len(Original)
          BY <1>3, <1>5, <2>7, <4>1, <4>3 DEF AtEnd, IsWhole, HasLines, Progress
      <4>5. NextLine(p) = WithValue(owner, Original[pos[p] + 1])
          BY <4>3, <4>4 DEF NextLine, IsWhole, HasLines
      <4> DEFINE line == WithValue(p, NextLine(p))
      <4>6. line = WithValue(p, Original[pos[p] + 1]) /\ line \in Line
          BY <1>5, <4>4, <4>5, ValueReplaced
      <4>7. tmp'[p] = Append(tmp[p], line) /\ tmp[p] \in Seq(Line)
          BY <1>3, <4>1
      <4> HIDE DEF line
      <4>8. /\ Len(tmp'[p]) = pos[p] + 1
            /\ \A k \in 1 .. pos[p] : tmp'[p][k] = tmp[p][k]
            /\ tmp'[p][pos[p] + 1] = line
          BY <1>3, <4>4, <4>6, <4>7 DEF HasLines
      <4>9. HasLines(tmp'[p], p, pos[p] + 1)
          BY <1>3, <4>4, <4>6, <4>8, OneMoreLine
      <4>10. /\ pc'[p] = "copy" /\ open'[p] = name' /\ pos'[p] = pos[p] + 1
             /\ pos'[p] <= Len(Original)
          BY <1>3, <1>5, <4>1, <4>4
      <4>11. HasLines(tmp[p], p, pos[p])'
          BY <4>9, <4>10 DEF HasLines, WithValue
      <4>12. Progress(p)'
          BY <4>10, <4>11 DEF Progress
      <4> QED
          BY <2>6, <4>1, <4>12
    <3>4. CASE CopyEnd(p)
      <4>1. /\ pc[p] = "copy" /\ AtEnd(p) /\ UNCHANGED <<name, disk, tmp>>
            /\ pc'[p] = "remove"
          BY <1>3, <3>4 DEF CopyEnd
      <4>2. \A q \in Proc : pc[q] \notin {"create", "fill"}
          BY <1>2, <4>1 DEF OneWriting, Writing
      <4>3. Len(disk[name]) = Len(Original)
          BY <1>2, <4>2 DEF WholeOutside, IsWhole, HasLines
      <4>4. pos[p] = Len(Original)
          BY <1>3, <1>5, <2>7, <4>1, <4>3 DEF AtEnd, Progress
      <4>5. IsWhole(tmp'[p], p)
          BY <2>7, <4>1, <4>4 DEF Progress, IsWhole
      <4>6. Progress(p)'
          BY <4>1, <4>5 DEF Progress, IsWhole, HasLines, WithValue
      <4> QED
          BY <2>6, <4>1, <4>6
    <3>5. CASE Remove(p)
      <4>1. pc[p] = "remove" /\ pc'[p] = "create" /\ UNCHANGED tmp
          BY <1>3, <3>5 DEF Remove
      <4>2. Progress(p)'
          BY <2>7, <4>1 DEF Progress, IsWhole, HasLines, WithValue
      <4> QED
          BY <4>1, <4>2 DEF WholeOutside
    <3>6. CASE Create(p)
      <4>1. pc[p] = "create" /\ pc'[p] = "fill" /\ UNCHANGED tmp
          BY <1>3, <3>6 DEF Create
      <4>2. /\ name' \in Inode /\ disk'[name'] = <<>>
            /\ open'[p] = name' /\ pos'[p] = 0
          BY <1>3, <3>6 DEF Create
      <4>3. HasLines(disk'[name'], p, pos'[p])
          BY <4>2 DEF HasLines
      <4>4. Progress(p)'
          BY <2>7, <4>1, <4>2, <4>3 DEF Progress, IsWhole, HasLines, WithValue
      <4> QED
          BY <4>1, <4>4 DEF WholeOutside
    <3>7. CASE Fill(p)
      <4> DEFINE k == pos[p]
                 line == tmp[p][k + 1]
                 file == Filled(disk[name], k + 1, line)
      <4>1. /\ pc[p] = "fill" /\ k < Len(tmp[p])
            /\ pos' = [pos EXCEPT ![p] = k + 1]
            /\ disk' = [disk EXCEPT ![open[p]] = Filled(@, k + 1, line)]
            /\ UNCHANGED <<name, pc, open, tmp>>
          BY <3>7 DEF Fill
      <4>2. /\ open[p] = name /\ HasLines(disk[name], p, k)
            /\ IsWhole(tmp[p], p)
          BY <2>7, <4>1 DEF Progress
      <4>3. name \in Inode
          BY <4>1, <4>2 DEF ReadInv, FilesOK, OpenOK
      <4>4. k \in Nat /\ k + 1 \in 1 .. Len(Original)
          BY <1>3, <1>5, <4>1, <4>2 DEF IsWhole, HasLines
      <4>5. line = WithValue(p, Original[k + 1]) /\ line \in Line
          BY <1>5, <4>2, <4>4, ValueReplaced DEF IsWhole, HasLines
      <4>6. disk[name] \in Seq(Line) /\ k = Len(disk[name]) /\ k \in Nat
          BY <1>3, <4>2, <4>3, <4>4 DEF HasLines
      <4>7. disk'[name'] = file /\ pos'[p] = k + 1
          BY <1>3, <4>1, <4>2, <4>3
      <4>8. line \in Line
          BY <4>5
      <4> HIDE DEF line, k
      <4>9. /\ Len(file) = k + 1
            /\ \A n \in 1 .. k : file[n] = disk[name][n]
            /\ file[k + 1] = line
          BY <4>6, <4>8, Appended
      <4> HIDE DEF file
      <4>10. HasLines(file, p, k + 1)
          BY <4>2, <4>5, <4>6, <4>9, OneMoreLine
      <4>11. Progress(p)'
          BY <4>1, <4>2, <4>7, <4>10 DEF Progress, IsWhole, HasLines, WithValue
      <4> QED
          BY <4>1, <4>11 DEF WholeOutside
    <3>8. CASE FillEnd(p)
      <4>1. /\ pc[p] = "fill" /\ pos[p] = Len(tmp[p]) /\ pc'[p] = "written"
            /\ UNCHANGED <<name, disk, tmp>>
          BY <1>3, <3>8 DEF FillEnd, WriteEnds
      <4>2. IsWhole(tmp[p], p) /\ HasLines(disk[name], p, pos[p]) /\ open[p] = name
          BY <2>7, <4>1 DEF Progress
      <4>3. IsWhole(disk[name], p)
          BY <4>1, <4>2 DEF IsWhole, HasLines
      <4>4. name # None
          BY <4>1, <4>2, WifiAssumption DEF ReadInv, FilesOK, OpenOK
      <4>5. Progress(p)' /\ WholeOutside'
          BY <4>1, <4>2, <4>3, <4>4
             DEF Progress, WholeOutside, IsWhole, HasLines, WithValue
      <4> QED
          BY <4>5
    <3>9. CASE CreateFails(p) \/ FillFails(p)
        BY <3>9 DEF CreateFails, FillFails
    <3>10. CASE ReadNext(p)
      <4>1. /\ pc[p] \in {"idle", "read"} /\ pc'[p] \in {"read", "answered"}
            /\ UNCHANGED <<name, disk, tmp>>
          BY <1>3, <3>10 DEF ReadNext, ReadOpen, ReadRefused, ReadLine, ReadTooLong,
                             ReadEnd, ReadEnds
      <4>2. Progress(p)'
          BY <2>7, <4>1 DEF Progress
      <4> QED
          BY <2>6, <4>1, <4>2
    <3>11. CASE Return(p) \/ Die(p)
      <4>1. /\ pc'[p] = "idle" /\ tmp'[p] = <<>> /\ UNCHANGED <<name, disk>>
            /\ pc[p] \notin {"create", "fill"}
          BY <1>3, <3>11 DEF Return, Die, Gone
      <4>2. Progress(p)'
          BY <4>1 DEF Progress
      <4> QED
          BY <2>6, <4>1, <4>2
    <3> QED
        BY <1>6, <3>1, <3>2, <3>3, <3>4, <3>5, <3>6, <3>7, <3>8, <3>9, <3>10, <3>11
           DEF WriteNext
  <2> QED
      BY <2>3, <2>5, <2>8
<1> QED
    BY <1>4, <1>6 DEF Next

LEMMA WholeInvariance == Spec => [](ReadInv /\ WholeInv)
BY ReadInitially, ReadStep, WholeInitially, WholeStep, PTL DEF Spec

\* Equal length and equal lines make equal texts.
LEMMA WholeIsText ==
    ASSUME NEW lines \in Seq(Line), NEW owner, IsWhole(lines, owner)
    PROVE  lines = [n \in DOMAIN Original |-> WithValue(owner, Original[n])]
<1>1. DOMAIN lines = 1 .. Len(lines) /\ DOMAIN Original = 1 .. Len(Original)
    BY WifiAssumption
<1>2. lines = [n \in DOMAIN lines |-> lines[n]]
    OBVIOUS
<1> QED
    BY <1>1, <1>2 DEF IsWhole, HasLines

(***************************************************************************)
(* "returns 0 if ok" (libyocto.h 272): when configWifiWrite returns 0 the  *)
(* name refers to a file that is the whole original with the values of     *)
(* this caller, for any number of processes and lines, and readers at any  *)
(* time, as long as nothing upset the writers.  The only step that returns *)
(* 0 without an upset is the end of configCopyTmpFile (config.c 121-149).  *)
(***************************************************************************)
THEOREM OkIsWritten == Spec => OkMeansWritten
<1>1. ASSUME ReadInv, WholeInv, [Next]_wifiVars, NEW p \in Proc,
             pc[p] # "written", pc'[p] = "written", rc'[p] = "0", ~upset'
      PROVE  FileIs(p)'
  <2>1. pc \in [Proc -> Location] /\ rc \in [Proc -> {"0", "1", "-1"}]
      BY <1>1 DEF ReadInv, WriterInv, HandlesOK, FilesOK, ValuesOK
  <2>2. PICK q \in Proc : WriteNext(q) \/ ReadNext(q) \/ Return(q) \/ Die(q)
      BY <1>1 DEF Next, wifiVars
  <2>3. q = p /\ FillEnd(p)
    <3> USE DEF Go, Location
    <3>1. CASE WriteOpen(q) \/ CopyLine(q) \/ CopyEnd(q) \/ Remove(q) \/ Create(q) \/ Fill(q)
        BY <1>1, <2>1, <3>1 DEF WriteOpen, CopyLine, CopyEnd, Remove, Create, Fill
    <3>2. CASE WriteRefused(q) \/ CopyFails(q) \/ RemoveFails(q) \/ CreateFails(q)
        BY <1>1, <2>1, <3>2 DEF WriteRefused, CopyFails, RemoveFails, CreateFails, WriteEnds
    <3>3. CASE FillEnd(q)
        BY <1>1, <2>1, <3>3 DEF FillEnd, WriteEnds
    <3>4. CASE FillFails(q)
        BY <1>1, <3>4 DEF FillFails
    <3>5. CASE ReadNext(q)
        BY <1>1, <2>1, <3>5 DEF ReadNext, ReadOpen, ReadRefused, ReadLine,
                                ReadTooLong, ReadEnd, ReadEnds
    <3>6. CASE Return(q) \/ Die(q)
        BY <1>1, <2>1, <3>6 DEF Return, Die, Gone
    <3> QED
        BY <2>2, <3>1, <3>2, <3>3, <3>4, <3>5, <3>6 DEF WriteNext
  <2>4. /\ pc[p] = "fill" /\ pos[p] = Len(tmp[p])
        /\ UNCHANGED <<name, disk, upset>>
      BY <2>3 DEF FillEnd
  <2>5. Progress(p)
      BY <1>1, <2>4 DEF WholeInv
  <2>6. /\ IsWhole(tmp[p], p) /\ open[p] = name /\ HasLines(disk[name], p, pos[p])
      BY <2>4, <2>5 DEF Progress
  <2>7. IsWhole(disk[name], p)
      BY <2>4, <2>6 DEF IsWhole, HasLines
  <2>8. name \in Inode /\ disk[name] \in Seq(Line)
      BY <1>1, <2>4, <2>6 DEF ReadInv, FilesOK, OpenOK, TextsOK
  <2>9. FileIs(p)
      BY <2>7, <2>8, WholeIsText, WifiAssumption DEF FileIs
  <2> QED
      BY <2>4, <2>9 DEF FileIs, WithValue
<1>2. ReadInv /\ WholeInv /\ [Next]_wifiVars
      => [\A p \in Proc :
             pc[p] # "written" /\ pc'[p] = "written" /\ rc'[p] = "0" /\ ~upset'
             => FileIs(p)']_wifiVars
    BY <1>1
<1> QED
    BY <1>2, WholeInvariance, PTL DEF Spec, OkMeansWritten

(***************************************************************************)
(* Nobody writing, the file is there and has all of its lines, those that  *)
(* are replaced with the values of one caller (configWifiWrite 179-210),   *)
(* after any number of writers that came one after the other, failed or    *)
(* died before remove().                                                   *)
(***************************************************************************)
THEOREM QuietIsWhole == Spec => []WholeWhenQuiet
<1>1. ReadInv /\ WholeInv => WholeWhenQuiet
  <2> SUFFICES ASSUME ReadInv, WholeInv, ~upset, \A p \in Proc : ~Writing(p)
               PROVE  \E owner \in Proc \cup {Factory} : FileIs(owner)
      BY DEF WholeWhenQuiet
  <2>1. name # None /\ \E owner \in Proc \cup {Factory} : IsWhole(disk[name], owner)
      BY DEF WholeInv, WholeOutside, Writing
  <2>2. disk[name] \in Seq(Line)
      BY <2>1 DEF ReadInv, WriterInv, HandlesOK, FilesOK, TextsOK
  <2> QED
      BY <2>1, <2>2, WholeIsText DEF FileIs
<1> QED
    BY <1>1, WholeInvariance, PTL

=============================================================================
