----------------------------- MODULE ConfigWifi -----------------------------
(***************************************************************************)
(* config_wifi.c and configCopyTmpFile of config.c: the configuration of   *)
(* the access point is rewritten by copying it, line by line and with the  *)
(* two values replaced, to a temporary file, removing it, and copying the  *)
(* temporary file to a new file of its name.  No lock is taken: processes  *)
(* that read and write it interleave.                                      *)
(*                                                                         *)
(* A file is a sequence of lines; a line is a key and the process whose    *)
(* value it holds.  A removed file lives on while somebody has it open.    *)
(***************************************************************************)
EXTENDS Integers, Sequences

CONSTANTS
    Proc,
    Inode,      \* the files that may exist at the same time
    Original,   \* the lines of the file in the image
    CanFail,    \* reads, writes and opens may fail, and callers may die
    Factory,    \* the owner of the values of the image
    None

Replaced == {"ssid", "wpa_passphrase"}

Line == [key : Replaced \cup {"other"}, value : Proc \cup {Factory}]

ASSUME WifiAssumption ==
    /\ Original \in Seq(Line)
    /\ CanFail \in BOOLEAN
    /\ None \notin Inode \cup Proc
    /\ Inode # {}
    /\ \A n \in DOMAIN Original :
          Original[n].key \in Replaced => Original[n].value = Factory

VARIABLES
    name,    \* the file that the name refers to
    disk,    \* the lines of the files
    pc,
    open,    \* the file that the process has open, to read or to write
    pos,     \* the lines it has read from it, or written to it
    tmp,     \* its temporary file
    room,    \* the values its buffers have room for
    got,     \* the values it has read
    rc,
    upset    \* whether something happened that nothing in the code allows for

wifiVars == <<name, disk, pc, open, pos, tmp, room, got, rc, upset>>

Location == {"idle", "copy", "remove", "create", "fill", "read",
             "written", "answered"}

WifiTypeOK ==
    /\ name \in Inode \cup {None}
    /\ disk \in [Inode -> Seq(Line)]
    /\ pc \in [Proc -> Location]
    /\ open \in [Proc -> Inode \cup {None}]
    /\ pos \in [Proc -> Nat]
    /\ tmp \in [Proc -> Seq(Line)]
    /\ room \in [Proc -> SUBSET Replaced]
    /\ got \in [Proc -> [Replaced -> Proc \cup {Factory, None}]]
    /\ rc \in [Proc -> {"0", "1", "-1"}]
    /\ upset \in BOOLEAN

Init ==
    /\ name \in Inode
    /\ disk = [i \in Inode |-> IF i = name THEN Original ELSE <<>>]
    /\ pc = [p \in Proc |-> "idle"]
    /\ open = [p \in Proc |-> None]
    /\ pos = [p \in Proc |-> 0]
    /\ tmp = [p \in Proc |-> <<>>]
    /\ room = [p \in Proc |-> {}]
    /\ got = [p \in Proc |-> [k \in Replaced |-> None]]
    /\ rc = [p \in Proc |-> "0"]
    /\ upset = FALSE

Go(p, loc) == pc' = [pc EXCEPT ![p] = loc]

\* The descriptors of the process are closed.
Closed(p) ==
    /\ open' = [open EXCEPT ![p] = None]
    /\ pos' = [pos EXCEPT ![p] = 0]

Opened(p, i) ==
    /\ open' = [open EXCEPT ![p] = i]
    /\ pos' = [pos EXCEPT ![p] = 0]

NextLine(p) == disk[open[p]][pos[p] + 1]

\* The last line is taken for the end of the file.
AtEndEarly(p) == pos[p] + 1 >= Len(disk[open[p]])

AtEnd(p) == pos[p] >= Len(disk[open[p]])

-----------------------------------------------------------------------------
(* configWifiWrite.                                                        *)

Writing(p) == pc[p] \in {"copy", "remove", "create", "fill"}

\* A second writer at the same time upsets the first.
WriteOpen(p) ==
    /\ pc[p] = "idle"
    /\ name # None
    /\ Opened(p, name)
    /\ Go(p, "copy")
    /\ upset' = (upset \/ \E q \in Proc : Writing(q))
    /\ UNCHANGED <<name, disk, tmp, room, got, rc>>

WriteEnds(p, code) ==
    /\ rc' = [rc EXCEPT ![p] = code]
    /\ Closed(p)
    /\ Go(p, "written")

\* The passphrase is too short or too long, or there is no temporary file,
\* or no file to copy.
WriteRefused(p) ==
    /\ pc[p] = "idle"
    /\ WriteEnds(p, "-1")
    /\ UNCHANGED <<name, disk, tmp, room, got, upset>>

WithValue(p, line) ==
    IF line.key \in Replaced THEN [line EXCEPT !.value = p] ELSE line

\* The line is copied; a short write counts as a write.
CopyLine(p) ==
    /\ pc[p] = "copy"
    /\ ~AtEnd(p)
    /\ pos' = [pos EXCEPT ![p] = @ + 1]
    /\ \/ /\ tmp' = [tmp EXCEPT ![p] = Append(@, WithValue(p, NextLine(p)))]
          /\ UNCHANGED upset
       \/ /\ CanFail
          /\ upset' = TRUE
          /\ UNCHANGED tmp
    /\ UNCHANGED <<name, disk, pc, open, room, got, rc>>

\* The value does not fit in the line, or the temporary file takes no more.
CopyFails(p) ==
    /\ CanFail
    /\ pc[p] = "copy"
    /\ ~AtEnd(p)
    /\ WriteEnds(p, "-1")
    /\ UNCHANGED <<name, disk, tmp, room, got, upset>>

\* An error of the read ends the loop as the end of the file does.
CopyEnd(p) ==
    /\ pc[p] = "copy"
    /\ AtEnd(p) \/ CanFail
    /\ upset' = (upset \/ ~AtEnd(p))
    /\ Closed(p)
    /\ Go(p, "remove")
    /\ UNCHANGED <<name, disk, tmp, room, got, rc>>

\* The file is truncated where it is.
RemoveSkipped(p) ==
    /\ pc[p] = "remove"
    /\ name # None
    /\ Go(p, "create")
    /\ UNCHANGED <<name, disk, open, pos, tmp, room, got, rc, upset>>

Remove(p) ==
    /\ pc[p] = "remove"
    /\ name # None
    /\ name' = None
    /\ Go(p, "create")
    /\ UNCHANGED <<disk, open, pos, tmp, room, got, rc, upset>>

\* A file that is not there counts as removed.
RemoveFailsIgnored(p) ==
    /\ pc[p] = "remove"
    /\ name = None \/ CanFail
    /\ IF name = None
       THEN Go(p, "create") /\ UNCHANGED <<open, pos, rc>>
       ELSE WriteEnds(p, "-1")
    /\ UNCHANGED <<name, disk, tmp, room, got, upset>>

RemoveFails(p) ==
    /\ pc[p] = "remove"
    /\ name = None \/ CanFail
    /\ WriteEnds(p, "-1")
    /\ UNCHANGED <<name, disk, tmp, room, got, upset>>

InUse(i) == i = name \/ \E p \in Proc : open[p] = i

\* configCopyTmpFile: fopen(destFilename, "w") truncates the file of that
\* name, or makes one.
Create(p) ==
    /\ pc[p] = "create"
    /\ \E i \in Inode :
           /\ IF name = None THEN ~InUse(i) ELSE i = name
           /\ name' = i
           /\ disk' = [disk EXCEPT ![i] = <<>>]
           /\ Opened(p, i)
    /\ Go(p, "fill")
    /\ UNCHANGED <<tmp, room, got, rc, upset>>

CreateFails(p) ==
    /\ CanFail
    /\ pc[p] = "create"
    /\ WriteEnds(p, "-1")
    /\ upset' = TRUE
    /\ UNCHANGED <<name, disk, tmp, room, got>>

\* Line k of the temporary file is written at its place in the file; what is
\* missing before it (another truncated the file) reads as that line too.
Filled(file, k, line) ==
    [n \in 1 .. (IF k > Len(file) THEN k ELSE Len(file)) |->
        IF n = k \/ n > Len(file) THEN line ELSE file[n]]

Fill(p) ==
    /\ pc[p] = "fill"
    /\ pos[p] < Len(tmp[p])
    /\ pos' = [pos EXCEPT ![p] = @ + 1]
    /\ disk' = [disk EXCEPT ![open[p]] =
                   Filled(@, pos[p] + 1, tmp[p][pos[p] + 1])]
    /\ UNCHANGED <<name, pc, open, tmp, room, got, rc, upset>>

\* configCopyTmpFile returns 0 before it has copied everything.
FillEndEarly(p) ==
    /\ pc[p] = "fill"
    /\ WriteEnds(p, "0")
    /\ UNCHANGED <<name, disk, tmp, room, got, upset>>

FillEnd(p) ==
    /\ pc[p] = "fill"
    /\ pos[p] = Len(tmp[p])
    /\ WriteEnds(p, "0")
    /\ UNCHANGED <<name, disk, tmp, room, got, upset>>

\* fwrite and read report their errors, fclose is not asked for its own.
FillFails(p) ==
    /\ CanFail
    /\ pc[p] = "fill"
    /\ \E code \in {"0", "-1"} : WriteEnds(p, code)
    /\ upset' = TRUE
    /\ UNCHANGED <<name, disk, tmp, room, got>>

-----------------------------------------------------------------------------
(* configWifiRead.  nbValue, which starts at 2, is decremented only when a *)
(* value does not fit, which also ends the loop with rc < 0.               *)

ReadOpen(p) ==
    /\ pc[p] = "idle"
    /\ name # None
    /\ \E keys \in SUBSET Replaced : room' = [room EXCEPT ![p] = keys]
    /\ Opened(p, name)
    /\ Go(p, "read")
    /\ UNCHANGED <<name, disk, tmp, got, rc, upset>>

ReadEnds(p, code) ==
    /\ rc' = [rc EXCEPT ![p] = code]
    /\ Closed(p)
    /\ Go(p, "answered")

ReadRefused(p) ==
    /\ pc[p] = "idle"
    /\ name = None \/ CanFail
    /\ ReadEnds(p, "-1")
    /\ UNCHANGED <<name, disk, tmp, room, got, upset>>

\* The number of values read is returned.
AnswerNumber(readRc, nbValue) == IF readRc = 0 THEN "2" ELSE "-1"

\* return rc == 0 && nbValue == 0.
Answer(readRc, nbValue) == IF readRc = 0 /\ nbValue = 0 THEN "1" ELSE "0"

ReadLine(p) ==
    /\ pc[p] = "read"
    /\ ~AtEnd(p)
    /\ NextLine(p).key \in Replaced => NextLine(p).key \in room[p]
    /\ pos' = [pos EXCEPT ![p] = @ + 1]
    /\ got' = IF NextLine(p).key \in Replaced
              THEN [got EXCEPT ![p][NextLine(p).key] = NextLine(p).value]
              ELSE got
    /\ UNCHANGED <<name, disk, pc, open, tmp, room, rc, upset>>

ReadTooLong(p) ==
    /\ pc[p] = "read"
    /\ ~AtEnd(p)
    /\ NextLine(p).key \in Replaced \ room[p]
    /\ ReadEnds(p, Answer(-1, 1))
    /\ UNCHANGED <<name, disk, tmp, room, got, upset>>

ReadEnd(p) ==
    /\ pc[p] = "read"
    /\ AtEnd(p) \/ CanFail
    /\ ReadEnds(p, Answer(0, 2))
    /\ UNCHANGED <<name, disk, tmp, room, got, upset>>

-----------------------------------------------------------------------------
\* What the process had is gone; the temporary file of a writer that dies is
\* left in /tmp, where nobody looks for it.
Gone(p) ==
    /\ Closed(p)
    /\ Go(p, "idle")
    /\ tmp' = [tmp EXCEPT ![p] = <<>>]
    /\ room' = [room EXCEPT ![p] = {}]
    /\ got' = [got EXCEPT ![p] = [k \in Replaced |-> None]]
    /\ rc' = [rc EXCEPT ![p] = "0"]
    /\ UNCHANGED <<name, disk>>

Return(p) ==
    /\ pc[p] \in {"written", "answered"}
    /\ Gone(p)
    /\ UNCHANGED upset

Die(p) ==
    /\ CanFail
    /\ pc[p] \notin {"idle", "written", "answered"}
    /\ upset' = (upset \/ pc[p] \in {"create", "fill"})
    /\ Gone(p)

WriteNext(p) ==
    \/ WriteOpen(p)
    \/ WriteRefused(p)
    \/ CopyLine(p)
    \/ CopyFails(p)
    \/ CopyEnd(p)
    \/ Remove(p)
    \/ RemoveFails(p)
    \/ Create(p)
    \/ CreateFails(p)
    \/ Fill(p)
    \/ FillEnd(p)
    \/ FillFails(p)

ReadNext(p) ==
    \/ ReadOpen(p)
    \/ ReadRefused(p)
    \/ ReadLine(p)
    \/ ReadTooLong(p)
    \/ ReadEnd(p)

Next == \E p \in Proc : WriteNext(p) \/ ReadNext(p) \/ Return(p) \/ Die(p)

Spec == Init /\ [][Next]_wifiVars

-----------------------------------------------------------------------------
(* Properties.                                                             *)

(***************************************************************************)
(* remove() does the work of a lock: the process that removed the file is  *)
(* the only one that can make it again, so that two processes never write  *)
(* to the same file (config_wifi.c 204-210, config.c 115-139), even when   *)
(* others fail or die between the two.                                     *)
(***************************************************************************)
OneWriterPerFile ==
    \A p, q \in Proc :
        pc[p] = "fill" /\ pc[q] = "fill" /\ p # q => open[p] # open[q]

\* Between the removal and the creation the name refers to nothing, and one
\* process at most is there.
OneCreator ==
    /\ \A p \in Proc : pc[p] = "create" => name = None
    /\ \A p, q \in Proc : pc[p] = "create" /\ pc[q] = "create" => p = q

(***************************************************************************)
(* A reader gets the ssid and the passphrase of the same caller, whoever   *)
(* writes while it reads (configWifiRead 70-119): it keeps reading the     *)
(* file it opened, which no one else than its maker ever writes.           *)
(***************************************************************************)
NoMixedRead ==
    \A p \in Proc :
        None \in {got[p][k] : k \in Replaced}
        \/ got[p]["ssid"] = got[p]["wpa_passphrase"]

\* There is no file, and nobody about to make it.
Lost == name = None /\ \A p \in Proc : pc[p] # "create"

(***************************************************************************)
(* A configuration that a caller removed and did not write again, because  *)
(* it died or failed between remove() and fopen(), is lost for good: its   *)
(* temporary file is looked for by nobody, readers and writers only report *)
(* an error, and a writer that was copying the old file gives up as well   *)
(* (lines 204-210).                                                        *)
(***************************************************************************)
LostForGood == [][Lost => Lost']_wifiVars

\* The file that the name refers to is the original with the values of owner.
FileIs(owner) ==
    /\ name # None
    /\ disk[name] = [n \in DOMAIN Original |-> WithValue(owner, Original[n])]

(***************************************************************************)
(* "returns 0 if ok, -1 if error" (libyocto.h 272): when a write returns 0 *)
(* the configuration is there, with every line of the original and the     *)
(* values of this caller, however many readers and earlier writers there   *)
(* were (config_wifi.c 180-210, config.c 105-149).  It need not be so when *)
(* the original could not be read to its end (only logged, line 195), a    *)
(* write was short (line 188), fclose lost the text, somebody failed or    *)
(* died between remove() and the end, or two writers met: the second reads *)
(* the file that the first has half filled.                                *)
(***************************************************************************)
OkMeansWritten ==
    [][\A p \in Proc :
          pc[p] # "written" /\ pc'[p] = "written" /\ rc'[p] = "0" /\ ~upset'
          => FileIs(p)']_wifiVars

(***************************************************************************)
(* Nobody writing, the file has the lines of the original and the values   *)
(* of one caller, after writers that came one after the other, writers     *)
(* that failed or died before remove(), and readers at any time.  A death  *)
(* or a failure after remove() loses it (lines 204-210).                   *)
(***************************************************************************)
WholeWhenQuiet ==
    ~upset /\ (\A p \in Proc : ~Writing(p)) =>
        \E owner \in Proc \cup {Factory} : FileIs(owner)

=============================================================================
