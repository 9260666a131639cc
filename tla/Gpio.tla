-------------------------------- MODULE Gpio --------------------------------
(***************************************************************************)
(* The digital inputs and outputs on gpio lines (gpio.c over libgpiod 1):  *)
(* gpioInit and gpioUninit, which reserve and release the lines, and the   *)
(* reads and writes, which transfer one bulk of lines at a time.           *)
(*                                                                         *)
(* Several processes may use the library, each from one thread.  The       *)
(* kernel gives a line to one process at a time, and takes the lines of a  *)
(* process that dies.  levels are the logical ones: libgpiod inverts the   *)
(* lines that are requested as active low.                                 *)
(***************************************************************************)
EXTENDS Integers, Sequences, FiniteSets, Functions

CONSTANTS
    Proc,
    Board,         \* the boards that are looked at
    Table,         \* the chips and bulks of each of them (module Boards)
    Request,       \* its reads and writes, with ids that are in range
    Moving         \* its input lines that the outside world changes

Nobody == "nobody"

Ops == {"init", "uninit", "inputReadAll", "inputRead", "outputReadAll",
        "outputRead", "outputWriteAll", "outputWrite"}

OnOutputs(c) ==
    c.op \in {"outputReadAll", "outputRead", "outputWriteAll", "outputWrite"}

-----------------------------------------------------------------------------
(* The tables.                                                             *)

LinesIn(bulks, b) == {bulks[b].lines[k] : k \in 1 .. Len(bulks[b].lines)}

\* The bulks of one direction: gInputs or gOutputs.
SideIn(bulks, isOut) == {b \in 1 .. Len(bulks) : bulks[b].out = isOut}

\* The place of the first line of bulk b in the data.
OffsetIn(bulks, b) ==
    Cardinality(UNION {LinesIn(bulks, c) :
                          c \in {d \in SideIn(bulks, bulks[b].out) : d < b}})

\* Input or output n is the line that its order says: at the place where the
\* bulks of its side have it in the data, once placed by the reordering.
PlacesAgree(bulks, isOut, placed, order) ==
    LET Lines(b) == 1 .. Len(bulks[b].lines)
        Place(b, k) == placed[OffsetIn(bulks, b) + k - 1]
    IN  /\ \A b \in SideIn(bulks, isOut) : \A k \in Lines(b) :
              /\ OffsetIn(bulks, b) + k - 1 \in 0 .. 7
              /\ Place(b, k) \in 0 .. Len(order) - 1
              /\ order[Place(b, k) + 1] = bulks[b].lines[k]
        /\ \A n \in 0 .. Len(order) - 1 :
              \E b \in SideIn(bulks, isOut) : \E k \in Lines(b) :
                 n = Place(b, k)

\* Each bulk is on a chip, the outputs come last, and the lines are numbered
\* as line 11 says.
TableOK(t) ==
    /\ t.chips \in Nat
    /\ Len(t.bulks) \in Nat
    /\ \A b \in 1 .. Len(t.bulks) :
          /\ t.bulks[b].chip \in 1 .. t.chips
          /\ t.bulks[b].out \in BOOLEAN
          /\ Len(t.bulks[b].lines) \in Nat
          /\ DOMAIN t.bulks[b].lines = 1 .. Len(t.bulks[b].lines)
    /\ \A b, c \in 1 .. Len(t.bulks) :
          b < c /\ t.bulks[b].out => t.bulks[c].out
    /\ Len(t.inputs) \in 0 .. 8
    /\ Len(t.outputs) \in 0 .. 8
    /\ t.reorder \in [0 .. 7 -> 0 .. 7]
    /\ PlacesAgree(t.bulks, FALSE, t.reorder, t.inputs)
    /\ PlacesAgree(t.bulks, TRUE, [n \in 0 .. 7 |-> n], t.outputs)
    /\ DOMAIN t.outputs = 1 .. Len(t.outputs)
    /\ IsInjective(t.outputs)

\* A read or write of something that the board has.
RequestOK(t, c) ==
    /\ c.op \in Ops \ {"init", "uninit"}
    /\ SideIn(t.bulks, OnOutputs(c)) # {}
    /\ c.op = "inputRead" => c.id \in 0 .. Len(t.inputs) - 1
    /\ c.op = "outputRead" => c.id \in 0 .. Len(t.outputs) - 1
    /\ c.op = "outputWrite" =>
          c.id \in 0 .. Len(t.outputs) - 1 /\ c.on \in BOOLEAN
    /\ c.op = "outputWriteAll" => c.data \subseteq 0 .. 7

ASSUME GpioAssumption ==
    /\ Nobody \notin Proc
    /\ \A b \in Board :
          /\ TableOK(Table[b])
          /\ \A c \in Request[b] : RequestOK(Table[b], c)
          /\ Moving[b] \cap Range(Table[b].outputs) = {}

VARIABLES
    board,    \* the board the library was built for
    owner,    \* the process that has requested each line
    level,    \* the logical value of each line
    chip,     \* gChips: whether each chip of each process is not NULL
    bulk,     \* what each bulk of each process holds
    pc, call, at,   \* where each process is, in which call, at which chip or bulk
    data,     \* *data of the call
    rc,       \* its result
    steady    \* whether no line moved since the call began

kernelVars == <<owner, level>>
handleVars == <<chip, bulk>>
callVars == <<pc, call, at, data, rc, steady>>
gpioVars == <<board, kernelVars, handleVars, callVars>>

-----------------------------------------------------------------------------
NChips == Table[board].chips
Bulks == Table[board].bulks
Reorder == Table[board].reorder
InputOrder == Table[board].inputs
OutputOrder == Table[board].outputs

Bulk == 1 .. Len(Bulks)
LinesOf(b) == LinesIn(Bulks, b)
Line == UNION {LinesOf(b) : b \in Bulk}

Side(isOut) == SideIn(Bulks, isOut)
First(isOut) == CHOOSE b \in Side(isOut) : \A c \in Side(isOut) : b <= c
Last(isOut) == CHOOSE b \in Side(isOut) : \A c \in Side(isOut) : c <= b

Offset(b) == OffsetIn(Bulks, b)

\* gpio.c is built for the boards that have such lines.
HasGpio == NChips > 0 /\ Len(Bulks) > 0

\* "empty": no lines in it; "free": lines that are not requested; "held":
\* requested lines; "stale": lines of a chip that was closed, their memory is freed.
BulkState == {"empty", "free", "held", "stale"}

NoCall == [op |-> "none"]
Location == {"idle", "openChip", "request", "freeBulk", "closeChip",
             "read", "write", "done", "aborted"}

GpioTypeOK ==
    /\ board \in Board
    /\ owner \in [Line -> Proc \cup {Nobody}]
    /\ level \in [Line -> {0, 1}]
    /\ chip \in [Proc -> [1 .. NChips -> BOOLEAN]]
    /\ bulk \in [Proc -> [Bulk -> BulkState]]
    /\ pc \in [Proc -> Location]
    /\ DOMAIN call = Proc
    /\ \A p \in Proc : call[p].op \in Ops \cup {"none"}
    /\ at \in [Proc -> 0 .. Len(Bulks) + NChips]
    /\ data \in [Proc -> SUBSET (0 .. 7)]
    /\ rc \in [Proc -> {0, -1}]
    /\ steady \in [Proc -> BOOLEAN]

Init ==
    /\ board \in Board
    /\ owner = [l \in Line |-> Nobody]
    /\ level = [l \in Line |-> 0]
    /\ chip = [p \in Proc |-> [c \in 1 .. NChips |-> FALSE]]
    /\ bulk = [p \in Proc |-> [b \in Bulk |-> "empty"]]
    /\ pc = [p \in Proc |-> "idle"]
    /\ call = [p \in Proc |-> NoCall]
    /\ at = [p \in Proc |-> 0]
    /\ data = [p \in Proc |-> {}]
    /\ rc = [p \in Proc |-> 0]
    /\ steady = [p \in Proc |-> TRUE]

-----------------------------------------------------------------------------
Go(p, loc, i) ==
    /\ pc' = [pc EXCEPT ![p] = loc]
    /\ at' = [at EXCEPT ![p] = i]

\* A positive error number is returned for -1.
ResultErrno(p, r) == rc' = [rc EXCEPT ![p] = -r]

Result(p, r) == rc' = [rc EXCEPT ![p] = r]

\* The call returns r.
Finish(p, r) == Go(p, "done", 0) /\ Result(p, r)

SetBulk(p, b, s) == bulk' = [bulk EXCEPT ![p][b] = s]

\* The lines of a process that is gone.
Disowned(p) == [l \in Line |-> IF owner[l] = p THEN Nobody ELSE owner[l]]

\* An assertion fails, or freed memory is used: the process is gone.
Abort(p) ==
    /\ owner' = Disowned(p)
    /\ Go(p, "aborted", 0)
    /\ UNCHANGED <<level, handleVars, call, data, rc, steady>>

\* goto error: gpioInit calls gpioUninit and returns -1.
InitError(p) == Go(p, "freeBulk", 1) /\ Result(p, -1)

-----------------------------------------------------------------------------
(* gpioInit.  It is not called again before gpioUninit.                    *)

Begin(p, c, loc, i) ==
    /\ pc[p] = "idle"
    /\ call' = [call EXCEPT ![p] = c]
    /\ Go(p, loc, i)
    /\ data' = [data EXCEPT ![p] = {}]
    /\ rc' = [rc EXCEPT ![p] = 0]
    /\ steady' = [steady EXCEPT ![p] = TRUE]
    /\ UNCHANGED <<kernelVars, handleVars>>

BeginInit(p) ==
    /\ HasGpio
    /\ \A c \in 1 .. NChips : ~chip[p][c]
    /\ Begin(p, [op |-> "init"], "openChip", 1)

OpenChip(p) ==
    /\ pc[p] = "openChip"
    /\ \/ /\ chip' = [chip EXCEPT ![p][at[p]] = TRUE]
          /\ IF at[p] = NChips THEN Go(p, "request", 1)
                               ELSE Go(p, "openChip", at[p] + 1)
          /\ UNCHANGED rc
       \/ /\ InitError(p)
          /\ UNCHANGED chip
    /\ UNCHANGED <<kernelVars, bulk, call, data, steady>>

\* The lines of bulk b, with the bit that line l has in a set of places.
Leveled(b, ones) ==
    [l \in Line |->
        IF l \in LinesOf(b)
        THEN IF \E k \in ones : Bulks[b].lines[k] = l THEN 1 ELSE 0
        ELSE level[l]]

\* _requestInput or _requestOutput succeeds; outputs take their defaults.
RequestBulk(p) ==
    /\ pc[p] = "request"
    /\ \A l \in LinesOf(at[p]) : owner[l] = Nobody
    /\ owner' = [l \in Line |-> IF l \in LinesOf(at[p]) THEN p ELSE owner[l]]
    /\ level' = IF Bulks[at[p]].out THEN Leveled(at[p], Bulks[at[p]].on)
                                    ELSE level
    /\ SetBulk(p, at[p], "held")
    /\ IF at[p] = Len(Bulks) THEN Finish(p, 0)
                             ELSE Go(p, "request", at[p] + 1) /\ UNCHANGED rc
    /\ UNCHANGED <<chip, call, data, steady>>

\* The lines are not found, or the request is refused (a line is taken).
RequestFails(p) ==
    /\ pc[p] = "request"
    /\ \E s \in {"empty", "free"} : SetBulk(p, at[p], s)
    /\ InitError(p)
    /\ UNCHANGED <<kernelVars, chip, call, data, steady>>

-----------------------------------------------------------------------------
(* gpioUninit.                                                             *)

BeginUninit(p) == HasGpio /\ Begin(p, [op |-> "uninit"], "freeBulk", 1)

\* The loop of freeBulk starts at the second bulk.
IsReleasedFromSecond(p, b) == bulk[p][b] = "held" /\ b > 1

IsReleased(p, b) == bulk[p][b] = "held"

\* freeBulk: the lines are released, and stay in the bulk.
FreeBulk(p) ==
    /\ pc[p] = "freeBulk"
    /\ LET b == at[p]
       IN  IF IsReleased(p, b)
           THEN /\ owner' = [l \in Line |-> IF l \in LinesOf(b) THEN Nobody
                                                           ELSE owner[l]]
                /\ SetBulk(p, b, "free")
           ELSE UNCHANGED <<owner, bulk>>
    /\ IF at[p] = Len(Bulks) THEN Go(p, "closeChip", 1)
                             ELSE Go(p, "freeBulk", at[p] + 1)
    /\ UNCHANGED <<level, chip, call, data, rc, steady>>

\* assert(gChips[index] != NULL), and the chip is closed.
CloseChip(p) ==
    /\ pc[p] = "closeChip"
    /\ chip[p][at[p]]
    /\ chip' = [chip EXCEPT ![p][at[p]] = FALSE]
    /\ bulk' = [bulk EXCEPT ![p] =
                  [b \in Bulk |-> IF Bulks[b].chip = at[p] /\ @[b] = "free"
                                  THEN "stale" ELSE @[b]]]
    /\ IF at[p] = NChips THEN Go(p, "done", 0) ELSE Go(p, "closeChip", at[p] + 1)
    /\ UNCHANGED <<kernelVars, call, data, rc, steady>>

CloseNoChip(p) ==
    /\ pc[p] = "closeChip"
    /\ ~chip[p][at[p]]
    /\ Abort(p)

-----------------------------------------------------------------------------
(* Reads and writes.  gpioOutputWrite reads the outputs, changes one bit   *)
(* and writes all of them back.                                            *)

BeginRead(p, c) ==
    /\ c.op # "outputWriteAll"
    /\ Begin(p, c, "read", First(OnOutputs(c)))

BeginWriteAll(p, c) ==
    /\ c.op = "outputWriteAll"
    /\ pc[p] = "idle"
    /\ call' = [call EXCEPT ![p] = c]
    /\ Go(p, "write", First(TRUE))
    /\ data' = [data EXCEPT ![p] = c.data]
    /\ UNCHANGED <<kernelVars, handleVars, rc, steady>>

\* The bits that _getData reads from bulk b.
BitsOf(b) ==
    {Offset(b) + k - 1 :
        k \in {i \in DOMAIN Bulks[b].lines : level[Bulks[b].lines[i]] = 1}}

\* Memory that was freed gives any value.
BitsRead(p, b) ==
    IF bulk[p][b] = "held" THEN {BitsOf(b)}
    ELSE SUBSET {Offset(b) + k - 1 : k \in DOMAIN Bulks[b].lines}

\* The inputs of the RBOX630 in the order of their lines.
ReorderedAsRead(raw) == raw

Reordered(raw) == {Reorder[n] : n \in raw}

OneBit(byte, id) == IF id \in byte THEN {0} ELSE {}

\* The bit to write in the data that was read.
ChangedOthersOff(c, byte) == IF c.on THEN {c.id} ELSE byte \ {c.id}

Changed(c, byte) == IF c.on THEN byte \cup {c.id} ELSE byte \ {c.id}

\* What the callers of _getData do with the data once it is complete.
EndOfRead(p, byte) ==
    LET c == call[p]
        result == CASE c.op = "inputReadAll"  -> Reordered(byte)
                    [] c.op = "inputRead"     -> OneBit(Reordered(byte), c.id)
                    [] c.op = "outputReadAll" -> byte
                    [] c.op = "outputRead"    -> OneBit(byte, c.id)
                    [] c.op = "outputWrite"   -> Changed(c, byte)
    IN  /\ data' = [data EXCEPT ![p] = result]
        /\ IF c.op = "outputWrite" THEN Go(p, "write", First(TRUE)) /\ UNCHANGED rc
                                   ELSE Finish(p, 0)

\* gpiod_line_get_value_bulk on the lines of one bulk.
ReadBulk(p) ==
    /\ pc[p] = "read"
    /\ bulk[p][at[p]] \in {"held", "stale"}
    /\ \E bits \in BitsRead(p, at[p]) :
          IF at[p] = Last(OnOutputs(call[p]))
          THEN EndOfRead(p, data[p] \cup bits)
          ELSE /\ data' = [data EXCEPT ![p] = @ \cup bits]
               /\ Go(p, "read", at[p] + 1)
               /\ UNCHANGED rc
    /\ UNCHANGED <<kernelVars, handleVars, call, steady>>

\* The values that _writeData sets.
Ones(p, b) ==
    {k \in DOMAIN Bulks[b].lines : Offset(b) + k - 1 \in data[p]}

\* gpiod_line_set_value_bulk on the lines of one bulk.
WriteBulk(p) ==
    /\ pc[p] = "write"
    /\ bulk[p][at[p]] \in {"held", "stale"}
    /\ level' = IF bulk[p][at[p]] = "held" THEN Leveled(at[p], Ones(p, at[p]))
                                            ELSE level
    /\ IF at[p] = Last(TRUE) THEN Finish(p, 0)
                             ELSE Go(p, "write", at[p] + 1) /\ UNCHANGED rc
    /\ UNCHANGED <<owner, handleVars, call, data, steady>>

\* No lines in the bulk, lines that are not requested, or an error of the
\* kernel: -1.  The bulks that were written before stay written.
TransferFails(p) ==
    /\ pc[p] \in {"read", "write"}
    /\ Finish(p, -1)
    /\ UNCHANGED <<kernelVars, handleVars, call, data, steady>>

\* Using or releasing the lines of a closed chip touches freed memory.
UseStale(p) ==
    /\ pc[p] \in {"read", "write", "freeBulk"}
    /\ bulk[p][at[p]] = "stale"
    /\ Abort(p)

-----------------------------------------------------------------------------
Return(p) ==
    /\ pc[p] = "done"
    /\ Go(p, "idle", 0)
    /\ call' = [call EXCEPT ![p] = NoCall]
    /\ data' = [data EXCEPT ![p] = {}]
    /\ rc' = [rc EXCEPT ![p] = 0]
    /\ steady' = [steady EXCEPT ![p] = TRUE]
    /\ UNCHANGED <<kernelVars, handleVars>>

\* The process is killed, or has aborted, and starts again.
Restart(p) ==
    /\ owner' = Disowned(p)
    /\ chip' = [chip EXCEPT ![p] = [c \in 1 .. NChips |-> FALSE]]
    /\ bulk' = [bulk EXCEPT ![p] = [b \in Bulk |-> "empty"]]
    /\ Go(p, "idle", 0)
    /\ call' = [call EXCEPT ![p] = NoCall]
    /\ data' = [data EXCEPT ![p] = {}]
    /\ rc' = [rc EXCEPT ![p] = 0]
    /\ steady' = [steady EXCEPT ![p] = TRUE]
    /\ UNCHANGED level

MoveInput(l) ==
    /\ level' = [level EXCEPT ![l] = 1 - @]
    /\ steady' = [p \in Proc |-> pc[p] = "idle"]
    /\ UNCHANGED <<owner, handleVars, pc, call, at, data, rc>>

\* The steps of a call that has begun.
CallStep(p) ==
    \/ OpenChip(p)
    \/ RequestBulk(p)
    \/ RequestFails(p)
    \/ FreeBulk(p)
    \/ CloseChip(p)
    \/ CloseNoChip(p)
    \/ ReadBulk(p)
    \/ WriteBulk(p)
    \/ TransferFails(p)
    \/ UseStale(p)

Next ==
    /\ UNCHANGED board
    /\ \/ \E p \in Proc :
             \/ BeginInit(p)
             \/ BeginUninit(p)
             \/ \E c \in Request[board] : BeginRead(p, c) \/ BeginWriteAll(p, c)
             \/ CallStep(p)
             \/ Return(p)
             \/ Restart(p)
       \/ \E l \in Moving[board] : MoveInput(l)

Spec == Init /\ [][Next]_gpioVars

-----------------------------------------------------------------------------
(* Properties.                                                             *)

Up(p) ==
    /\ \A c \in 1 .. NChips : chip[p][c]
    /\ \A b \in Bulk : bulk[p][b] = "held"
    /\ \A l \in Line : owner[l] = p

Down(p) ==
    /\ \A c \in 1 .. NChips : ~chip[p][c]
    /\ \A b \in Bulk : bulk[p][b] # "held"
    /\ \A l \in Line : owner[l] # p

(***************************************************************************)
(* Between two calls, the library has all of its chips and lines or none   *)
(* of them, and the kernel agrees: a gpioInit that fails half-way, or a    *)
(* gpioUninit, leaves no line reserved (lines 147-149, 152-187).           *)
(***************************************************************************)
AllOrNothing ==
    \A p \in Proc :
        /\ pc[p] = "idle" => Up(p) \/ Down(p)
        /\ pc[p] = "done" /\ call[p].op = "init" =>
              IF rc[p] = 0 THEN Up(p) ELSE Down(p)

\* The bits of the lines of an order that are 1.
On(order) == {n \in 0 .. Len(order) - 1 : level[order[n + 1]] = 1}

\* A call that returned 0 to a process that had the lines.
Succeeded(p) == pc[p] = "done" /\ rc[p] = 0 /\ Up(p)

(***************************************************************************)
(* Bit n of what is read is the value of digital input or output n: the    *)
(* places of the lines in the bulks, the offsets of the bulks and the      *)
(* reordering of the RBOX630 agree (lines 11, 189-311); a line that moves  *)
(* during the call may be seen before or after.  A write that returned 0   *)
(* has set what it names (lines 314-382).                                  *)
(***************************************************************************)
ReadIsRight(p) ==
    /\ call[p].op = "inputReadAll" => data[p] = On(InputOrder)
    /\ call[p].op = "inputRead" => data[p] = OneBit(On(InputOrder), call[p].id)
    /\ call[p].op = "outputReadAll" => data[p] = On(OutputOrder)
    /\ call[p].op = "outputRead" => data[p] = OneBit(On(OutputOrder), call[p].id)

WriteIsDone(p) ==
    /\ call[p].op = "outputWriteAll" =>
          On(OutputOrder) = call[p].data \cap (0 .. Len(OutputOrder) - 1)
    /\ call[p].op = "outputWrite" =>
          (call[p].id \in On(OutputOrder) <=> call[p].on)

TransfersAreRight ==
    \A p \in Proc :
        Succeeded(p) => /\ steady[p] => ReadIsRight(p)
                        /\ WriteIsDone(p)

(***************************************************************************)
(* An output changes only when its owner writes it, or when gpioInit gives *)
(* it its default; a write of one output changes no other, although it     *)
(* writes them all, and neither does a failed or interrupted one.          *)
(***************************************************************************)
OutputsKept ==
    [][\A l \in Range(OutputOrder) :
          level'[l] # level[l] =>
              \E p \in Proc :
                  /\ owner'[l] = p
                  /\ \/ pc[p] = "request"
                     \/ pc[p] = "write" /\ call[p].op = "outputWriteAll"
                     \/ /\ pc[p] = "write" /\ call[p].op = "outputWrite"
                        /\ l = OutputOrder[call[p].id + 1]]_gpioVars

=============================================================================
