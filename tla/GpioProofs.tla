----------------------------- MODULE GpioProofs -----------------------------
(***************************************************************************)
(* Theorems about the gpio lines and about the programs that use them, and *)
(* their proofs, for any number of processes and any tables that agree     *)
(* with the order of the inputs and outputs (TableOK).                     *)
(***************************************************************************)
EXTENDS Programs, SequenceTheorems, WellFoundedInduction, TLAPS

-----------------------------------------------------------------------------
(* The inductive invariants.                                               *)

Held(p, b) == bulk[p][b] = "held"

(***************************************************************************)
(* The lines that a process has requested are those of the bulks it holds, *)
(* each in one of them.  A process that aborted has none.                  *)
(***************************************************************************)
Owning(p) ==
    IF pc[p] = "aborted" THEN \A l \in Line : owner[l] # p
    ELSE /\ \A b \in Bulk : Held(p, b) => \A l \in LinesOf(b) : owner[l] = p
         /\ \A l \in Line :
               owner[l] = p => \E b \in Bulk : Held(p, b) /\ l \in LinesOf(b)
         /\ \A b, c \in Bulk :
               Held(p, b) /\ Held(p, c) /\ b # c => LinesOf(b) \cap LinesOf(c) = {}

\* The calls and the results of each location.
CallOK(p) ==
    /\ pc[p] = "idle" => call[p] = NoCall /\ rc[p] = 0
    /\ pc[p] \in {"openChip", "request"} => call[p].op = "init"
    /\ pc[p] \in {"freeBulk", "closeChip"} =>
          \/ call[p].op = "init" /\ rc[p] = -1
          \/ call[p].op = "uninit" /\ rc[p] = 0
    /\ pc[p] \in {"read", "write"} => call[p] \in Request[board] /\ rc[p] = 0
    /\ pc[p] = "read" => call[p].op # "outputWriteAll"
    /\ pc[p] = "write" => call[p].op \in {"outputWriteAll", "outputWrite"}
    /\ pc[p] = "done" => \/ call[p].op \in {"init", "uninit"}
                         \/ call[p] \in Request[board]

\* How far a call is.
Place(p) ==
    /\ pc[p] = "openChip" => /\ at[p] \in 1 .. NChips
                             /\ \A c \in 1 .. NChips : chip[p][c] <=> c < at[p]
                             /\ \A b \in Bulk : ~Held(p, b)
    /\ pc[p] = "request" => /\ at[p] \in Bulk
                            /\ \A c \in 1 .. NChips : chip[p][c]
                            /\ \A b \in Bulk : Held(p, b) <=> b < at[p]
    /\ pc[p] = "freeBulk" => /\ at[p] \in Bulk
                             /\ \A b \in Bulk : Held(p, b) => b >= at[p]
    /\ pc[p] = "closeChip" => /\ at[p] \in 1 .. NChips
                              /\ \A b \in Bulk : ~Held(p, b)
                              /\ \A c \in 1 .. NChips : chip[p][c] => c >= at[p]
    /\ pc[p] = "read" => at[p] \in Side(OnOutputs(call[p]))
    /\ pc[p] = "write" => at[p] \in Side(TRUE)
    /\ pc[p] \in {"idle", "done", "aborted"} => at[p] = 0
    /\ pc[p] \in {"openChip", "request", "freeBulk", "closeChip"} => HasGpio

AllHeld(p) ==
    /\ \A c \in 1 .. NChips : chip[p][c]
    /\ \A b \in Bulk : Held(p, b)

NoneHeld(p) ==
    /\ \A c \in 1 .. NChips : ~chip[p][c]
    /\ \A b \in Bulk : ~Held(p, b)

Settled(p) ==
    /\ pc[p] \in {"idle", "read", "write", "done"} => AllHeld(p) \/ NoneHeld(p)
    /\ pc[p] = "done" /\ call[p].op = "init" =>
          IF rc[p] = 0 THEN AllHeld(p) ELSE NoneHeld(p)

\* The bits of the bulks of a side before bulk i.
Seen(isOut, i) == UNION {BitsOf(b) : b \in {c \in Side(isOut) : c < i}}

\* The bit of output n in the data is its value.
AsData(p, n) == n \in data[p] <=> level[OutputOrder[n + 1]] = 1

\* The bulk that output n belongs to is before bulk i.
Before(n, i) ==
    \E b \in Side(TRUE) : b < i /\ OutputOrder[n + 1] \in LinesOf(b)

Outputs == 0 .. Len(OutputOrder) - 1

\* What is in the data of the calls of a process that has the lines.
Transferred(p) ==
    AllHeld(p) =>
        /\ pc[p] = "read" /\ (steady[p] \/ OnOutputs(call[p])) =>
              data[p] = Seen(OnOutputs(call[p]), at[p])
        /\ pc[p] = "write" =>
              /\ call[p].op = "outputWriteAll" => data[p] = call[p].data
              /\ call[p].op = "outputWrite" =>
                    /\ call[p].id \in data[p] <=> call[p].on
                    /\ \A n \in Outputs : n # call[p].id => AsData(p, n)
              /\ \A n \in Outputs : Before(n, at[p]) => AsData(p, n)
        /\ pc[p] = "done" /\ rc[p] = 0 =>
              /\ steady[p] => ReadIsRight(p)
              /\ WriteIsDone(p)

Handles(p) == Owning(p) /\ CallOK(p) /\ Place(p) /\ Settled(p)

HandlesInv == \A p \in Proc : Handles(p)

TransferInv == \A p \in Proc : Transferred(p)

-----------------------------------------------------------------------------
(* Tables.                                                                 *)

LEMMA Least ==
    ASSUME NEW S \in SUBSET Nat, S # {}
    PROVE  \E m \in S : \A n \in S : m <= n
<1>1. IsWellFoundedOn(OpToRel(<, Nat), Nat)
    BY NatLessThanWellFounded, Zenon
<1>2. PICK m \in S : \A n \in S : <<n, m>> \notin OpToRel(<, Nat)
    BY <1>1, WFMin, Zenon
<1>3. \A n \in S : ~(n < m)
    BY <1>2 DEF OpToRel
<1> QED
    BY <1>3

LEMMA Greatest ==
    ASSUME NEW N \in Nat, NEW S \in SUBSET (0 .. N), S # {}
    PROVE  \E m \in S : \A n \in S : n <= m
<1> DEFINE T == {N - n : n \in S}
<1>1. PICK m \in T : \A n \in T : m <= n
  <2>1. PICK n \in S : TRUE
      OBVIOUS
  <2>2. N - n \in T
      BY <2>1
  <2>3. \A i \in S : N - i \in Nat
      OBVIOUS
  <2>4. T \in SUBSET Nat
      BY <2>3
  <2> HIDE DEF T
  <2> QED
      BY <2>2, <2>4, Least
<1>2. N - m \in S /\ \A n \in S : n <= N - m
    BY <1>1
<1> QED
    BY <1>2

LEMMA TheTable ==
    ASSUME board \in Board
    PROVE  /\ TableOK(Table[board])
           /\ \A c \in Request[board] : RequestOK(Table[board], c)
           /\ Moving[board] \cap Range(OutputOrder) = {}
           /\ NChips \in Nat /\ Len(Bulks) \in Nat /\ Bulk = 1 .. Len(Bulks)
           /\ \A b \in Bulk : /\ Bulks[b].out \in BOOLEAN
                              /\ Len(Bulks[b].lines) \in Nat
                              /\ DOMAIN Bulks[b].lines =
                                     1 .. Len(Bulks[b].lines)
           /\ Len(InputOrder) \in 0 .. 8 /\ Len(OutputOrder) \in 0 .. 8
           /\ Reorder \in [0 .. 7 -> 0 .. 7]
BY GpioAssumption
   DEF TableOK, NChips, Bulks, Bulk, InputOrder, OutputOrder, Reorder

LEMMA SideEnds ==
    ASSUME board \in Board, NEW isOut \in BOOLEAN, Side(isOut) # {}
    PROVE  /\ Side(isOut) \subseteq Bulk
           /\ First(isOut) \in Side(isOut)
           /\ \A c \in Side(isOut) : First(isOut) <= c
           /\ Last(isOut) \in Side(isOut)
           /\ \A c \in Side(isOut) : c <= Last(isOut)
           /\ \A b \in Side(isOut) : b # Last(isOut) => b + 1 \in Side(isOut)
<1>1. Side(isOut) \subseteq Bulk /\ Bulk = 1 .. Len(Bulks) /\ Len(Bulks) \in Nat
    BY TheTable DEF Side, SideIn, Bulk
<1>2. \E b \in Side(isOut) : \A c \in Side(isOut) : b <= c
  <2>1. Side(isOut) \in SUBSET Nat
      BY <1>1
  <2> QED
      BY <2>1, Least
<1>3. \E b \in Side(isOut) : \A c \in Side(isOut) : c <= b
  <2>1. Side(isOut) \in SUBSET (0 .. Len(Bulks))
      BY <1>1
  <2> QED
      BY <1>1, <2>1, Greatest
<1>4. First(isOut) \in Side(isOut) /\ \A c \in Side(isOut) : First(isOut) <= c
    BY <1>2 DEF First
<1>5. Last(isOut) \in Side(isOut) /\ \A c \in Side(isOut) : c <= Last(isOut)
    BY <1>3 DEF Last
<1>6. ASSUME NEW b \in Side(isOut), b # Last(isOut)
      PROVE  b + 1 \in Side(isOut)
  <2>1. b \in Bulk /\ Last(isOut) \in Bulk /\ b + 1 \in Bulk
        /\ b + 1 <= Last(isOut) /\ b < b + 1
      BY <1>1, <1>5, <1>6
  <2>2. Bulks[b].out = isOut /\ Bulks[Last(isOut)].out = isOut
      BY <1>5 DEF Side, SideIn
  <2>3. \A c, d \in Bulk : c < d /\ Bulks[c].out => Bulks[d].out
      BY TheTable DEF TableOK, Bulks, Bulk
  <2>4. Bulks[b + 1].out \in BOOLEAN
      BY <2>1, TheTable
  <2>5. CASE isOut
      BY <2>1, <2>2, <2>3, <2>4, <2>5 DEF Side, SideIn, Bulk
  <2>6. CASE ~isOut
    <3>1. ~Bulks[b + 1].out
      <4>1. CASE b + 1 = Last(isOut)
          BY <2>2, <2>6, <4>1
      <4>2. CASE b + 1 < Last(isOut)
          BY <2>1, <2>2, <2>3, <2>6, <4>2
      <4> QED
          BY <2>1, <1>1, <4>1, <4>2
    <3> QED
        BY <2>1, <2>4, <2>6, <3>1 DEF Side, SideIn, Bulk
  <2> QED
      BY <2>5, <2>6
<1> QED
    BY <1>1, <1>4, <1>5, <1>6

LEMMA SideOrder ==
    ASSUME board \in Board, NEW isOut \in BOOLEAN, Side(isOut) # {}
    PROVE  /\ \A b \in Side(isOut) : ~(b < First(isOut))
           /\ \A b \in Side(isOut) : b < Last(isOut) + 1
           /\ \A b, c \in Side(isOut) : b < c + 1 => b < c \/ b = c
<1>1. Side(isOut) \subseteq Nat
    BY SideEnds, TheTable
<1>2. /\ First(isOut) \in Nat /\ Last(isOut) \in Nat
      /\ \A b \in Side(isOut) : First(isOut) <= b /\ b <= Last(isOut)
    BY <1>1, SideEnds
<1> QED
    BY <1>1, <1>2

-----------------------------------------------------------------------------
(* Bits and lines.                                                         *)

LEMMA InputPlaces ==
    ASSUME board \in Board
    PROVE  /\ \A b \in Side(FALSE) : \A k \in 1 .. Len(Bulks[b].lines) :
                 LET n == Reorder[Offset(b) + k - 1]
                 IN  /\ Offset(b) + k - 1 \in 0 .. 7
                     /\ n \in 0 .. Len(InputOrder) - 1
                     /\ InputOrder[n + 1] = Bulks[b].lines[k]
           /\ \A n \in 0 .. Len(InputOrder) - 1 :
                 \E b \in Side(FALSE) : \E k \in 1 .. Len(Bulks[b].lines) :
                    n = Reorder[Offset(b) + k - 1]
BY TheTable DEF TableOK, PlacesAgree, Side, Offset, Bulks, Reorder, InputOrder

LEMMA OutputPlaces ==
    ASSUME board \in Board
    PROVE  /\ \A b \in Side(TRUE) : \A k \in 1 .. Len(Bulks[b].lines) :
                 /\ Offset(b) + k - 1 \in 0 .. 7
                 /\ Offset(b) + k - 1 \in Outputs
                 /\ OutputOrder[Offset(b) + k - 1 + 1] = Bulks[b].lines[k]
           /\ \A n \in Outputs :
                 \E b \in Side(TRUE) : \E k \in 1 .. Len(Bulks[b].lines) :
                    n = Offset(b) + k - 1
<1> DEFINE asRead == [n \in 0 .. 7 |-> n]
<1>1. PlacesAgree(Bulks, TRUE, asRead, OutputOrder)
    BY TheTable DEF TableOK, Bulks, OutputOrder
<1> HIDE DEF asRead
<1>2. \A b \in Side(TRUE) : \A k \in 1 .. Len(Bulks[b].lines) :
         /\ Offset(b) + k - 1 \in 0 .. 7
         /\ asRead[Offset(b) + k - 1] \in Outputs
         /\ OutputOrder[asRead[Offset(b) + k - 1] + 1] = Bulks[b].lines[k]
    BY <1>1 DEF PlacesAgree, Side, Offset, Outputs
<1>3. \A n \in Outputs :
         \E b \in Side(TRUE) : \E k \in 1 .. Len(Bulks[b].lines) :
            n = asRead[Offset(b) + k - 1]
    BY <1>1 DEF PlacesAgree, Side, Offset, Outputs
<1>4. \A n \in 0 .. 7 : asRead[n] = n
    BY DEF asRead
<1>5. \A b \in Side(TRUE) : \A k \in 1 .. Len(Bulks[b].lines) :
         asRead[Offset(b) + k - 1] = Offset(b) + k - 1
    BY <1>2, <1>4
<1>6. ASSUME NEW b \in Side(TRUE), NEW k \in 1 .. Len(Bulks[b].lines)
      PROVE  /\ Offset(b) + k - 1 \in 0 .. 7
             /\ Offset(b) + k - 1 \in Outputs
             /\ OutputOrder[Offset(b) + k - 1 + 1] = Bulks[b].lines[k]
  <2>1. asRead[Offset(b) + k - 1] = Offset(b) + k - 1
      BY <1>5
  <2>2. /\ asRead[Offset(b) + k - 1] \in Outputs
        /\ OutputOrder[asRead[Offset(b) + k - 1] + 1] = Bulks[b].lines[k]
        /\ Offset(b) + k - 1 \in 0 .. 7
      BY <1>2
  <2> QED
      BY <2>1, <2>2
<1>7. ASSUME NEW n \in Outputs
      PROVE  \E b \in Side(TRUE) : \E k \in 1 .. Len(Bulks[b].lines) :
                n = Offset(b) + k - 1
  <2>1. PICK b \in Side(TRUE) : \E k \in 1 .. Len(Bulks[b].lines) :
                                    n = asRead[Offset(b) + k - 1]
      BY <1>3
  <2>2. PICK k \in 1 .. Len(Bulks[b].lines) : n = asRead[Offset(b) + k - 1]
      BY <2>1
  <2> QED
      BY <1>5, <2>2
<1> QED
    BY <1>6, <1>7

LEMMA OutputLines ==
    ASSUME board \in Board
    PROVE  /\ Outputs \subseteq 0 .. 7
           /\ \A m, n \in Outputs :
                 OutputOrder[m + 1] = OutputOrder[n + 1] => m = n
           /\ Range(OutputOrder) = {OutputOrder[n + 1] : n \in Outputs}
           /\ \A n \in Outputs :
                 \E b \in Side(TRUE) : OutputOrder[n + 1] \in LinesOf(b)
           /\ \A n \in Outputs : OutputOrder[n + 1] \in Line
           /\ \A b \in Side(TRUE) : LinesOf(b) \subseteq Range(OutputOrder)
<1>1. /\ DOMAIN OutputOrder = 1 .. Len(OutputOrder)
      /\ IsInjective(OutputOrder)
      /\ Len(OutputOrder) \in 0 .. 8
    BY TheTable DEF TableOK, OutputOrder
<1>2. /\ Outputs \subseteq 0 .. 7
      /\ \A n \in Outputs : n + 1 \in DOMAIN OutputOrder
      /\ \A i \in DOMAIN OutputOrder : i - 1 \in Outputs /\ (i - 1) + 1 = i
  <2> DEFINE L == Len(OutputOrder)
  <2>1. L \in 0 .. 8 /\ Outputs = 0 .. L - 1 /\ DOMAIN OutputOrder = 1 .. L
      BY <1>1 DEF Outputs
  <2> HIDE DEF L
  <2> QED
      BY <2>1
<1>3. \A m, n \in Outputs : OutputOrder[m + 1] = OutputOrder[n + 1] => m = n
  <2> SUFFICES ASSUME NEW m \in Outputs, NEW n \in Outputs,
                      OutputOrder[m + 1] = OutputOrder[n + 1]
               PROVE  m = n
      OBVIOUS
  <2>1. m + 1 = n + 1
      BY <1>1, <1>2 DEF IsInjective
  <2> QED
      BY <1>2, <2>1
<1>4. Range(OutputOrder) = {OutputOrder[n + 1] : n \in Outputs}
    BY <1>2 DEF Range
<1>5. ASSUME NEW n \in Outputs
      PROVE  \E b \in Side(TRUE) : OutputOrder[n + 1] \in LinesOf(b)
  <2>1. PICK b \in Side(TRUE) : \E k \in 1 .. Len(Bulks[b].lines) :
                                    n = Offset(b) + k - 1
      BY OutputPlaces
  <2>2. PICK k \in 1 .. Len(Bulks[b].lines) : n = Offset(b) + k - 1
      BY <2>1
  <2>3. OutputOrder[Offset(b) + k - 1 + 1] = Bulks[b].lines[k]
      BY OutputPlaces
  <2>4. OutputOrder[n + 1] = Bulks[b].lines[k]
      BY <2>2, <2>3
  <2> QED
      BY <2>4 DEF LinesOf, LinesIn
<1>6. \A n \in Outputs : OutputOrder[n + 1] \in Line
    BY <1>5 DEF Line, Side, SideIn, Bulk
<1>7. ASSUME NEW b \in Side(TRUE), NEW l \in LinesOf(b)
      PROVE  l \in Range(OutputOrder)
  <2>1. PICK k \in 1 .. Len(Bulks[b].lines) : l = Bulks[b].lines[k]
      BY DEF LinesOf, LinesIn
  <2>2. \E n \in Outputs : OutputOrder[n + 1] = l
      BY <2>1, OutputPlaces
  <2> QED
      BY <1>4, <2>2
<1> QED
    BY <1>2, <1>3, <1>4, <1>5, <1>6, <1>7

\* The bits of a bulk are those of its lines.
LEMMA OutputBits ==
    ASSUME board \in Board, NEW b \in Side(TRUE)
    PROVE  /\ BitsOf(b) \subseteq Outputs
           /\ \A n \in Outputs :
                 n \in BitsOf(b) <=> /\ OutputOrder[n + 1] \in LinesOf(b)
                                     /\ level[OutputOrder[n + 1]] = 1
<1>1. b \in Bulk /\ DOMAIN Bulks[b].lines = 1 .. Len(Bulks[b].lines)
    BY TheTable DEF Side, SideIn, Bulk
<1>2. BitsOf(b) = {Offset(b) + k - 1 :
                      k \in {i \in 1 .. Len(Bulks[b].lines) :
                                level[Bulks[b].lines[i]] = 1}}
    BY <1>1 DEF BitsOf
<1>3. BitsOf(b) \subseteq Outputs
    BY <1>2, OutputPlaces
<1>4. ASSUME NEW n \in BitsOf(b)
      PROVE  /\ OutputOrder[n + 1] \in LinesOf(b)
             /\ level[OutputOrder[n + 1]] = 1
  <2>1. PICK k \in 1 .. Len(Bulks[b].lines) :
            n = Offset(b) + k - 1 /\ level[Bulks[b].lines[k]] = 1
      BY <1>2
  <2>2. OutputOrder[n + 1] = Bulks[b].lines[k]
      BY <2>1, OutputPlaces
  <2> QED
      BY <2>1, <2>2 DEF LinesOf, LinesIn
<1>5. ASSUME NEW n \in Outputs, OutputOrder[n + 1] \in LinesOf(b),
             level[OutputOrder[n + 1]] = 1
      PROVE  n \in BitsOf(b)
  <2>1. PICK k \in 1 .. Len(Bulks[b].lines) :
            OutputOrder[n + 1] = Bulks[b].lines[k]
      BY <1>5 DEF LinesOf, LinesIn
  <2>2. /\ Offset(b) + k - 1 \in Outputs
        /\ OutputOrder[Offset(b) + k - 1 + 1] = Bulks[b].lines[k]
      BY OutputPlaces
  <2>3. n = Offset(b) + k - 1
      BY <2>1, <2>2, OutputLines
  <2> QED
      BY <1>2, <1>5, <2>1, <2>3
<1> QED
    BY <1>3, <1>4, <1>5

\* A bulk that is written has the values of the data.
LEMMA OutputsSet ==
    ASSUME board \in Board, NEW b \in Side(TRUE), NEW p, NEW n \in Outputs
    PROVE  LET l == OutputOrder[n + 1]
               new == Leveled(b, Ones(p, b))
           IN  IF l \in LinesOf(b) THEN new[l] = IF n \in data[p] THEN 1 ELSE 0
                                   ELSE new[l] = level[l]
<1> DEFINE l == OutputOrder[n + 1]
<1>1. b \in Bulk /\ DOMAIN Bulks[b].lines = 1 .. Len(Bulks[b].lines)
    BY TheTable DEF Side, SideIn, Bulk
<1>2. l \in Line
    BY OutputLines
<1>3. ASSUME l \in LinesOf(b)
      PROVE  (\E k \in Ones(p, b) : Bulks[b].lines[k] = l) <=> n \in data[p]
  <2>1. PICK k \in 1 .. Len(Bulks[b].lines) : l = Bulks[b].lines[k]
      BY <1>3 DEF LinesOf, LinesIn
  <2>2. ASSUME NEW i \in 1 .. Len(Bulks[b].lines), l = Bulks[b].lines[i]
        PROVE  n = Offset(b) + i - 1
    <3>1. /\ Offset(b) + i - 1 \in Outputs
          /\ OutputOrder[Offset(b) + i - 1 + 1] = Bulks[b].lines[i]
        BY OutputPlaces
    <3> QED
        BY <2>2, <3>1, OutputLines
  <2> QED
      BY <1>1, <2>1, <2>2 DEF Ones
<1> QED
    BY <1>2, <1>3 DEF Leveled

\* One bulk after the other is read.
LEMMA SeenGrows ==
    ASSUME board \in Board, NEW isOut \in BOOLEAN, Side(isOut) # {}
    PROVE  /\ Seen(isOut, First(isOut)) = {}
           /\ \A b \in Side(isOut) :
                 Seen(isOut, b + 1) = Seen(isOut, b) \cup BitsOf(b)
           /\ Seen(isOut, Last(isOut) + 1) =
                 UNION {BitsOf(b) : b \in Side(isOut)}
<1>1. Side(isOut) \subseteq Nat
    BY SideEnds, TheTable
<1>2. Seen(isOut, First(isOut)) = {}
  <2>1. First(isOut) \in Nat
      BY <1>1, SideEnds
  <2>2. \A c \in Side(isOut) : ~(c < First(isOut))
      BY <1>1, <2>1, SideEnds
  <2> QED
      BY <2>2 DEF Seen
<1>3. ASSUME NEW b \in Side(isOut)
      PROVE  Seen(isOut, b + 1) = Seen(isOut, b) \cup BitsOf(b)
  <2>1. \A c \in Side(isOut) : c < b + 1 <=> c < b \/ c = b
      BY <1>1
  <2> QED
      BY <2>1 DEF Seen
<1>4. Seen(isOut, Last(isOut) + 1) = UNION {BitsOf(b) : b \in Side(isOut)}
  <2>1. \A c \in Side(isOut) : c < Last(isOut) + 1
      BY <1>1, SideEnds
  <2> QED
      BY <2>1 DEF Seen
<1> QED
    BY <1>2, <1>3, <1>4

LEMMA AllOutputsSeen ==
    ASSUME board \in Board
    PROVE  UNION {BitsOf(b) : b \in Side(TRUE)} = On(OutputOrder)
<1>1. ASSUME NEW b \in Side(TRUE), NEW n \in BitsOf(b)
      PROVE  n \in On(OutputOrder)
    BY <1>1, OutputBits DEF On, Outputs
<1>2. ASSUME NEW n \in On(OutputOrder)
      PROVE  \E b \in Side(TRUE) : n \in BitsOf(b)
  <2>1. n \in Outputs /\ level[OutputOrder[n + 1]] = 1
      BY DEF On, Outputs
  <2>2. PICK b \in Side(TRUE) : OutputOrder[n + 1] \in LinesOf(b)
      BY <2>1, OutputLines
  <2> QED
      BY <2>1, <2>2, OutputBits
<1> QED
    BY <1>1, <1>2

LEMMA AllInputsSeen ==
    ASSUME board \in Board
    PROVE  Reordered(UNION {BitsOf(b) : b \in Side(FALSE)}) = On(InputOrder)
<1>1. ASSUME NEW b \in Side(FALSE)
      PROVE  BitsOf(b) = {Offset(b) + k - 1 :
                             k \in {i \in 1 .. Len(Bulks[b].lines) :
                                       level[Bulks[b].lines[i]] = 1}}
    BY TheTable DEF BitsOf, Side, SideIn, Bulk
<1>2. ASSUME NEW b \in Side(FALSE), NEW m \in BitsOf(b)
      PROVE  Reorder[m] \in On(InputOrder)
  <2>1. PICK k \in 1 .. Len(Bulks[b].lines) :
            m = Offset(b) + k - 1 /\ level[Bulks[b].lines[k]] = 1
      BY <1>1
  <2>2. /\ Reorder[m] \in 0 .. Len(InputOrder) - 1
        /\ InputOrder[Reorder[m] + 1] = Bulks[b].lines[k]
      BY <2>1, InputPlaces
  <2> QED
      BY <2>1, <2>2 DEF On
<1>3. ASSUME NEW n \in On(InputOrder)
      PROVE  \E b \in Side(FALSE) : \E m \in BitsOf(b) : n = Reorder[m]
  <2>1. n \in 0 .. Len(InputOrder) - 1 /\ level[InputOrder[n + 1]] = 1
      BY DEF On
  <2>2. PICK b \in Side(FALSE) : \E k \in 1 .. Len(Bulks[b].lines) :
                                     n = Reorder[Offset(b) + k - 1]
      BY <2>1, InputPlaces
  <2>3. PICK k \in 1 .. Len(Bulks[b].lines) : n = Reorder[Offset(b) + k - 1]
      BY <2>2
  <2>4. InputOrder[n + 1] = Bulks[b].lines[k]
      BY <2>3, InputPlaces
  <2>5. Offset(b) + k - 1 \in BitsOf(b)
      BY <1>1, <2>1, <2>4
  <2> QED
      BY <2>3, <2>5
<1> DEFINE all == UNION {BitsOf(b) : b \in Side(FALSE)}
<1>4. \A m \in all : Reorder[m] \in On(InputOrder)
    BY <1>2
<1>5. \A n \in On(InputOrder) : \E m \in all : n = Reorder[m]
    BY <1>3
<1> HIDE DEF all
<1>6. Reordered(all) = On(InputOrder)
    BY <1>4, <1>5 DEF Reordered
<1> QED
    BY <1>6 DEF all

-----------------------------------------------------------------------------
(* The board stays the same, and so do its tables.                         *)

LEMMA SameTables ==
    ASSUME board' = board
    PROVE  /\ NChips' = NChips /\ Bulks' = Bulks /\ Bulk' = Bulk /\ Line' = Line
           /\ HasGpio' = HasGpio
           /\ Reorder' = Reorder /\ InputOrder' = InputOrder
           /\ OutputOrder' = OutputOrder /\ Outputs' = Outputs
           /\ \A b : LinesOf(b)' = LinesOf(b) /\ Offset(b)' = Offset(b)
           /\ \A isOut : /\ Side(isOut)' = Side(isOut)
                         /\ First(isOut)' = First(isOut)
                         /\ Last(isOut)' = Last(isOut)
BY DEF NChips, Bulks, Bulk, Line, HasGpio, Reorder, InputOrder, OutputOrder, Outputs,
       LinesOf, Offset, Side, First, Last

\* The bits that are read depend on the lines of the bulk only.
LEMMA SameBits ==
    ASSUME board \in Board, board' = board, NEW b \in Bulk,
           \A l \in LinesOf(b) : level'[l] = level[l]
    PROVE  BitsOf(b)' = BitsOf(b)
<1>1. DOMAIN Bulks[b].lines = 1 .. Len(Bulks[b].lines)
    BY TheTable
<1>2. \A k \in DOMAIN Bulks[b].lines : Bulks[b].lines[k] \in LinesOf(b)
    BY <1>1 DEF LinesOf, LinesIn
<1>3. \A k \in DOMAIN Bulks[b].lines :
         level'[Bulks[b].lines[k]] = level[Bulks[b].lines[k]]
    BY <1>2
<1> QED
    BY <1>3, SameTables DEF BitsOf

-----------------------------------------------------------------------------
(* Types.                                                                  *)

\* A call and its steps.
Starts(p) ==
    \/ BeginInit(p)
    \/ BeginUninit(p)
    \/ \E c \in Request[board] : BeginRead(p, c) \/ BeginWriteAll(p, c)

GpioInv == GpioTypeOK /\ HandlesInv

LEMMA GpioInitially ==
    ASSUME Init
    PROVE  GpioInv /\ TransferInv
<1>1. board \in Board
    BY DEF Init
<1>2. GpioTypeOK
  <2>1. 0 \in 0 .. Len(Bulks) + NChips
      BY <1>1, TheTable
  <2>2. at \in [Proc -> 0 .. Len(Bulks) + NChips]
      BY <2>1 DEF Init
  <2> QED
      BY <2>2 DEF Init, GpioTypeOK, BulkState, Location, NoCall
<1>3. HandlesInv
    BY GpioAssumption
       DEF Init, HandlesInv, Handles, Owning, CallOK, Place, Settled, NoneHeld, Held
<1>4. TransferInv
    BY DEF Init, TransferInv, Transferred
<1> QED
    BY <1>2, <1>3, <1>4 DEF GpioInv

\* The data fits a byte.
LEMMA BitsFit ==
    ASSUME board \in Board, NEW isOut \in BOOLEAN, NEW b \in Side(isOut)
    PROVE  /\ BitsOf(b) \subseteq 0 .. 7
           /\ \A p : \A bits \in BitsRead(p, b) : bits \subseteq 0 .. 7
<1>1. DOMAIN Bulks[b].lines = 1 .. Len(Bulks[b].lines)
    BY TheTable DEF Side, SideIn, Bulk
<1>2. \A k \in DOMAIN Bulks[b].lines : Offset(b) + k - 1 \in 0 .. 7
    BY <1>1, InputPlaces, OutputPlaces
<1>3. BitsOf(b) \subseteq 0 .. 7
    BY <1>2 DEF BitsOf
<1>4. {Offset(b) + k - 1 : k \in DOMAIN Bulks[b].lines} \subseteq 0 .. 7
    BY <1>2
<1> QED
    BY <1>3, <1>4 DEF BitsRead

LEMMA GpioTypeStep ==
    ASSUME GpioInv, [Next]_gpioVars
    PROVE  GpioTypeOK'
<1> USE DEF GpioInv, GpioTypeOK, HandlesInv, Handles
<1>1. /\ board \in Board /\ NChips \in Nat /\ Len(Bulks) \in Nat
      /\ Bulk = 1 .. Len(Bulks)
    BY TheTable
<1>2. CASE UNCHANGED gpioVars
    BY <1>2, SameTables DEF gpioVars, kernelVars, handleVars, callVars
<1> SUFFICES ASSUME Next
             PROVE  GpioTypeOK'
    BY <1>2
<1>3. board' = board
    BY DEF Next
<1>4. NChips' = NChips /\ Bulks' = Bulks /\ Bulk' = Bulk /\ Line' = Line
    BY <1>3, SameTables
<1>5. board' \in Board
    BY <1>1, <1>3
<1>9. /\ 0 \in 0 .. Len(Bulks) + NChips
      /\ HasGpio => 1 \in 0 .. Len(Bulks) + NChips
      /\ \A c \in 1 .. NChips : c # NChips => c + 1 \in 0 .. Len(Bulks) + NChips
      /\ \A b \in Bulk :
            /\ b \in 0 .. Len(Bulks) + NChips
            /\ b # Len(Bulks) => b + 1 \in 0 .. Len(Bulks) + NChips
  <2> DEFINE L == Len(Bulks)
  <2>1. L \in Nat /\ Bulk = 1 .. L /\ (HasGpio => L > 0)
      BY <1>1 DEF HasGpio
  <2> HIDE DEF L
  <2>2. /\ 0 \in 0 .. L + NChips
        /\ L > 0 => 1 \in 0 .. L + NChips
        /\ \A c \in 1 .. NChips : c # NChips => c + 1 \in 0 .. L + NChips
        /\ \A b \in 1 .. L : b \in 0 .. L + NChips
        /\ \A b \in 1 .. L : b # L => b + 1 \in 0 .. L + NChips
      BY <1>1, <2>1
  <2> QED
      BY <2>1, <2>2 DEF L
<1>6. ASSUME NEW l \in Moving[board], MoveInput(l)
      PROVE  GpioTypeOK'
  <2>1. level' \in [Line -> {0, 1}]
    <3>1. /\ level' = [level EXCEPT ![l] = 1 - level[l]]
          /\ level \in [Line -> {0, 1}]
        BY <1>6 DEF MoveInput
    <3>2. CASE l \in Line
      <4>1. 1 - level[l] \in {0, 1}
          BY <3>1, <3>2
      <4> QED
          BY <3>1, <4>1
    <3>3. CASE l \notin Line
        BY <3>1, <3>3
    <3> QED
        BY <3>2, <3>3
  <2> QED
      BY <1>4, <1>5, <1>6, <2>1 DEF MoveInput, handleVars
<1>7. ASSUME NEW p \in Proc, Starts(p)
      PROVE  GpioTypeOK'
  <2>1. HasGpio => 1 \in 0 .. Len(Bulks) + NChips
      BY <1>9
  <2>2. ASSUME NEW c, NEW loc \in Location, NEW i \in 0 .. Len(Bulks) + NChips,
               c.op \in Ops, Begin(p, c, loc, i)
        PROVE  GpioTypeOK'
      BY <1>4, <1>5, <2>2 DEF Begin, Go, kernelVars, handleVars
  <2>3. CASE BeginInit(p)
      BY <2>1, <2>2, <2>3 DEF BeginInit, Location, Ops
  <2>4. CASE BeginUninit(p)
      BY <2>1, <2>2, <2>4 DEF BeginUninit, Location, Ops
  <2>5. ASSUME NEW c \in Request[board], BeginRead(p, c)
        PROVE  GpioTypeOK'
    <3>1. c.op \in Ops /\ Side(OnOutputs(c)) # {}
        BY <1>1, TheTable DEF RequestOK, Side, Bulks
    <3>2. OnOutputs(c) \in BOOLEAN
        BY DEF OnOutputs
    <3>3. First(OnOutputs(c)) \in Bulk
        BY <1>1, <3>1, <3>2, SideEnds
    <3>4. First(OnOutputs(c)) \in 0 .. Len(Bulks) + NChips
        BY <3>3, <1>9
    <3> QED
        BY <2>2, <2>5, <3>1, <3>4 DEF BeginRead, Location
  <2>6. ASSUME NEW c \in Request[board], BeginWriteAll(p, c)
        PROVE  GpioTypeOK'
    <3>1. c.op \in Ops /\ Side(TRUE) # {} /\ c.data \subseteq 0 .. 7
        BY <1>1, <2>6, TheTable
           DEF RequestOK, Side, Bulks, BeginWriteAll, OnOutputs
    <3>2. First(TRUE) \in Bulk
        BY <1>1, <3>1, SideEnds
    <3>3. First(TRUE) \in 0 .. Len(Bulks) + NChips
        BY <3>2, <1>9
    <3> QED
        BY <1>4, <1>5, <2>6, <3>1, <3>3
           DEF BeginWriteAll, Go, kernelVars, handleVars, Location
  <2> QED
      BY <1>7, <2>3, <2>4, <2>5, <2>6 DEF Starts
<1>8. ASSUME NEW p \in Proc, CallStep(p) \/ Return(p) \/ Restart(p)
      PROVE  GpioTypeOK'
  <2>1. /\ pc[p] \in {"openChip", "closeChip"} => at[p] \in 1 .. NChips
        /\ pc[p] \in {"request", "freeBulk"} => at[p] \in Bulk
        /\ pc[p] \in {"openChip", "request", "freeBulk", "closeChip"} => HasGpio
      BY DEF Place
  <2>2. pc[p] \in {"read", "write"} =>
           \E isOut \in BOOLEAN : at[p] \in Side(isOut)
    <3>1. OnOutputs(call[p]) \in BOOLEAN /\ TRUE \in BOOLEAN
        BY DEF OnOutputs
    <3>2. Place(p)
        OBVIOUS
    <3>3. /\ pc[p] = "read" => at[p] \in Side(OnOutputs(call[p]))
          /\ pc[p] = "write" => at[p] \in Side(TRUE)
        BY <3>2 DEF Place
    <3> QED
        BY <3>1, <3>3
  <2>3. pc[p] \in {"read", "write"} => at[p] \in Bulk
      BY <2>2 DEF Side, SideIn, Bulk
  <2>4. ASSUME NEW loc \in Location, NEW i \in 0 .. Len(Bulks) + NChips,
               Go(p, loc, i)
        PROVE  /\ pc' \in [Proc -> Location]
               /\ at' \in [Proc -> 0 .. Len(Bulks) + NChips]
      BY <2>4 DEF Go
  <2>5. ASSUME NEW r \in {0, -1}, Result(p, r)
        PROVE  rc' \in [Proc -> {0, -1}]
      BY <2>5 DEF Result
  <2>6. /\ Disowned(p) \in [Line -> Proc \cup {Nobody}]
        /\ \A b : [l \in Line |-> IF l \in LinesOf(b) THEN p ELSE owner[l]] \in
                     [Line -> Proc \cup {Nobody}]
        /\ \A b : [l \in Line |-> IF l \in LinesOf(b) THEN Nobody
                                                     ELSE owner[l]] \in
                     [Line -> Proc \cup {Nobody}]
      BY DEF Disowned
  <2>7. \A b : \A ones : Leveled(b, ones) \in [Line -> {0, 1}]
      BY DEF Leveled
  <2>21. ASSUME NEW b, NEW s \in BulkState, SetBulk(p, b, s)
         PROVE  bulk' \in [Proc -> [Bulk -> BulkState]]
      BY <2>21 DEF SetBulk
  <2>8. Abort(p) => GpioTypeOK'
      BY <1>4, <1>5, <1>9, <2>4, <2>6 DEF Abort, handleVars, Location
  <2>9. CASE OpenChip(p)
    <3>1. /\ pc' \in [Proc -> Location]
          /\ at' \in [Proc -> 0 .. Len(Bulks) + NChips]
        BY <1>9, <2>1, <2>4, <2>9 DEF OpenChip, InitError, Location
    <3>2. rc' \in [Proc -> {0, -1}]
        BY <2>5, <2>9 DEF OpenChip, InitError
    <3>3. chip' \in [Proc -> [1 .. NChips -> BOOLEAN]]
      <4>1. \/ chip' = [chip EXCEPT ![p][at[p]] = TRUE]
            \/ chip' = chip
          BY <2>9 DEF OpenChip
      <4>2. /\ chip \in [Proc -> [1 .. NChips -> BOOLEAN]]
            /\ [chip[p] EXCEPT ![at[p]] = TRUE] \in [1 .. NChips -> BOOLEAN]
          BY Zenon
      <4> QED
          BY <4>1, <4>2, Zenon
    <3> QED
        BY <1>4, <1>5, <2>9, <3>1, <3>2, <3>3 DEF OpenChip, kernelVars
  <2>10. CASE RequestBulk(p)
    <3>1. /\ pc' \in [Proc -> Location]
          /\ at' \in [Proc -> 0 .. Len(Bulks) + NChips]
        BY <1>9, <2>1, <2>4, <2>10 DEF RequestBulk, Finish, Location
    <3>2. rc' \in [Proc -> {0, -1}]
        BY <2>5, <2>10 DEF RequestBulk, Finish
    <3>3. bulk' \in [Proc -> [Bulk -> BulkState]]
        BY <2>10, <2>21 DEF RequestBulk, BulkState
    <3>4. /\ owner' \in [Line -> Proc \cup {Nobody}]
          /\ level' \in [Line -> {0, 1}]
        BY <2>6, <2>7, <2>10 DEF RequestBulk
    <3> QED
        BY <1>4, <1>5, <2>10, <3>1, <3>2, <3>3, <3>4 DEF RequestBulk
  <2>11. CASE RequestFails(p)
    <3>1. /\ pc' \in [Proc -> Location]
          /\ at' \in [Proc -> 0 .. Len(Bulks) + NChips]
        BY <1>9, <2>1, <2>4, <2>11 DEF RequestFails, InitError, Location
    <3>2. rc' \in [Proc -> {0, -1}]
        BY <2>5, <2>11 DEF RequestFails, InitError
    <3>3. bulk' \in [Proc -> [Bulk -> BulkState]]
      <4>1. PICK s \in {"empty", "free"} : SetBulk(p, at[p], s)
          BY <2>11 DEF RequestFails
      <4> QED
          BY <2>21, <4>1 DEF BulkState
    <3> QED
        BY <1>4, <1>5, <2>11, <3>1, <3>2, <3>3 DEF RequestFails, kernelVars
  <2>12. CASE FreeBulk(p)
    <3>1. /\ pc' \in [Proc -> Location]
          /\ at' \in [Proc -> 0 .. Len(Bulks) + NChips]
        BY <1>9, <2>1, <2>4, <2>12 DEF FreeBulk, Location
    <3>2. bulk' \in [Proc -> [Bulk -> BulkState]]
        BY <2>12, <2>21 DEF FreeBulk, BulkState
    <3>3. owner' \in [Line -> Proc \cup {Nobody}]
        BY <2>6, <2>12 DEF FreeBulk
    <3> QED
        BY <1>4, <1>5, <2>12, <3>1, <3>2, <3>3 DEF FreeBulk
  <2>13. CASE CloseChip(p)
    <3>1. /\ pc' \in [Proc -> Location]
          /\ at' \in [Proc -> 0 .. Len(Bulks) + NChips]
        BY <1>9, <2>1, <2>4, <2>13 DEF CloseChip, Location
    <3>2. bulk' \in [Proc -> [Bulk -> BulkState]]
        BY <2>13 DEF CloseChip, BulkState
    <3>3. chip' \in [Proc -> [1 .. NChips -> BOOLEAN]]
        BY <2>13 DEF CloseChip
    <3> QED
        BY <1>4, <1>5, <2>13, <3>1, <3>2, <3>3 DEF CloseChip, kernelVars
  <2>14. CASE CloseNoChip(p)
      BY <2>8, <2>14 DEF CloseNoChip
  <2>15. CASE ReadBulk(p)
    <3>1. PICK bits \in BitsRead(p, at[p]) :
             IF at[p] = Last(OnOutputs(call[p]))
             THEN EndOfRead(p, data[p] \cup bits)
             ELSE /\ data' = [data EXCEPT ![p] = @ \cup bits]
                  /\ Go(p, "read", at[p] + 1)
                  /\ UNCHANGED rc
        BY <2>15 DEF ReadBulk
    <3>2. /\ pc[p] = "read" /\ OnOutputs(call[p]) \in BOOLEAN
          /\ at[p] \in Side(OnOutputs(call[p]))
      <4>1. pc[p] = "read" /\ OnOutputs(call[p]) \in BOOLEAN
          BY <2>15 DEF ReadBulk, OnOutputs
      <4> QED
          BY <4>1 DEF Place
    <3>3. data[p] \cup bits \subseteq 0 .. 7
        BY <1>1, <3>2, BitsFit
    <3>4. CASE at[p] = Last(OnOutputs(call[p]))
      <4>1. /\ call[p] \in Request[board] /\ call[p].op # "outputWriteAll"
            /\ RequestOK(Table[board], call[p])
          BY <1>1, <3>2, TheTable DEF CallOK
      <4>2. EndOfRead(p, data[p] \cup bits)
          BY <3>1, <3>4
      <4>3. /\ Reordered(data[p] \cup bits) \subseteq 0 .. 7
            /\ \A n : \A byte : OneBit(byte, n) \subseteq 0 .. 7
        <5>1. Reorder \in [0 .. 7 -> 0 .. 7]
            BY <1>1, TheTable
        <5>2. Reordered(data[p] \cup bits) \subseteq 0 .. 7
            BY <3>3, <5>1 DEF Reordered
        <5>3. ASSUME NEW n, NEW byte
              PROVE  OneBit(byte, n) \subseteq 0 .. 7
          <6>1. OneBit(byte, n) = {0} \/ OneBit(byte, n) = {}
              BY DEF OneBit
          <6> QED
              BY <6>1
        <5> QED
            BY <5>2, <5>3, Zenon
      <4>4. call[p].op = "outputWrite" =>
               Changed(call[p], data[p] \cup bits) \subseteq 0 .. 7
        <5>1. ASSUME call[p].op = "outputWrite"
              PROVE  call[p].id \in 0 .. 7
            BY <1>1, <4>1, <5>1, OutputLines DEF RequestOK, Outputs, OutputOrder
        <5> QED
            BY <3>3, <5>1 DEF Changed
      <4>5. call[p].op \in {"inputReadAll", "inputRead", "outputReadAll",
                            "outputRead", "outputWrite"}
          BY <4>1 DEF RequestOK, Ops
      <4>6. data' \in [Proc -> SUBSET (0 .. 7)]
          BY <3>3, <4>2, <4>3, <4>4, <4>5 DEF EndOfRead
      <4>7. call[p].op = "outputWrite" =>
               First(TRUE) \in 0 .. Len(Bulks) + NChips
        <5>1. ASSUME call[p].op = "outputWrite"
              PROVE  First(TRUE) \in Bulk
          <6>1. OnOutputs(call[p]) = TRUE
              BY <5>1 DEF OnOutputs
          <6> QED
              BY <1>1, <3>2, <6>1, SideEnds
        <5> QED
            BY <1>9, <5>1
      <4>8. /\ pc' \in [Proc -> Location]
            /\ at' \in [Proc -> 0 .. Len(Bulks) + NChips]
          BY <1>9, <2>4, <4>2, <4>7 DEF EndOfRead, Finish, Location
      <4>9. rc' \in [Proc -> {0, -1}]
          BY <2>5, <4>2 DEF EndOfRead, Finish
      <4> QED
          BY <1>4, <1>5, <2>15, <4>6, <4>8, <4>9
             DEF ReadBulk, kernelVars, handleVars
    <3>5. CASE at[p] # Last(OnOutputs(call[p]))
      <4>1. at[p] + 1 \in Bulk
          BY <1>1, <3>2, <3>5, SideEnds
      <4>2. at[p] + 1 \in 0 .. Len(Bulks) + NChips
          BY <1>9, <4>1
      <4>3. /\ pc' \in [Proc -> Location]
            /\ at' \in [Proc -> 0 .. Len(Bulks) + NChips]
          BY <2>4, <3>1, <3>5, <4>2 DEF Location
      <4>4. data' \in [Proc -> SUBSET (0 .. 7)]
        <5>1. data' = [data EXCEPT ![p] = data[p] \cup bits]
            BY <3>1, <3>5
        <5>2. data[p] \cup bits \in SUBSET (0 .. 7)
            BY <3>3
        <5> QED
            BY <5>1, <5>2
      <4> QED
          BY <1>4, <1>5, <2>15, <3>1, <3>5, <4>3, <4>4
             DEF ReadBulk, kernelVars, handleVars
    <3> QED
        BY <3>4, <3>5
  <2>16. CASE WriteBulk(p)
    <3>1. at[p] # Last(TRUE) => at[p] + 1 \in 0 .. Len(Bulks) + NChips
      <4>1. at[p] \in Side(TRUE)
          BY <2>16 DEF WriteBulk, Place
      <4>2. at[p] # Last(TRUE) => at[p] + 1 \in Bulk
          BY <1>1, <4>1, SideEnds
      <4> QED
          BY <1>9, <4>2
    <3>2. /\ pc' \in [Proc -> Location]
          /\ at' \in [Proc -> 0 .. Len(Bulks) + NChips]
        BY <1>9, <2>4, <2>16, <3>1 DEF WriteBulk, Finish, Location
    <3>3. rc' \in [Proc -> {0, -1}]
        BY <2>5, <2>16 DEF WriteBulk, Finish
    <3>4. level' \in [Line -> {0, 1}]
        BY <2>7, <2>16 DEF WriteBulk
    <3> QED
        BY <1>4, <1>5, <2>16, <3>2, <3>3, <3>4 DEF WriteBulk, handleVars
  <2>17. CASE TransferFails(p)
    <3>1. /\ pc' \in [Proc -> Location]
          /\ at' \in [Proc -> 0 .. Len(Bulks) + NChips]
        BY <1>9, <2>4, <2>17 DEF TransferFails, Finish, Location
    <3>2. rc' \in [Proc -> {0, -1}]
        BY <2>5, <2>17 DEF TransferFails, Finish
    <3> QED
        BY <1>4, <1>5, <2>17, <3>1, <3>2
           DEF TransferFails, kernelVars, handleVars
  <2>18. CASE UseStale(p)
      BY <2>8, <2>18 DEF UseStale
  <2>19. CASE Return(p)
    <3>1. /\ pc' \in [Proc -> Location]
          /\ at' \in [Proc -> 0 .. Len(Bulks) + NChips]
        BY <1>9, <2>4, <2>19 DEF Return, Location
    <3> QED
        BY <1>4, <1>5, <2>19, <3>1 DEF Return, NoCall, kernelVars, handleVars
  <2>20. CASE Restart(p)
    <3>1. /\ pc' \in [Proc -> Location]
          /\ at' \in [Proc -> 0 .. Len(Bulks) + NChips]
        BY <1>9, <2>4, <2>20 DEF Restart, Location
    <3>2. /\ chip' \in [Proc -> [1 .. NChips -> BOOLEAN]]
          /\ bulk' \in [Proc -> [Bulk -> BulkState]]
        BY <2>20 DEF Restart, BulkState
    <3> QED
        BY <1>4, <1>5, <2>6, <2>20, <3>1, <3>2 DEF Restart, NoCall
  <2> QED
      BY <1>8, <2>9, <2>10, <2>11, <2>12, <2>13, <2>14, <2>15, <2>16, <2>17,
         <2>18, <2>19, <2>20 DEF CallStep
<1> QED
    BY <1>6, <1>7, <1>8 DEF Next, Starts

-----------------------------------------------------------------------------
(* A step of a process leaves the handles, the call and the lines of the   *)
(* others alone.                                                           *)

OthersStay(p) ==
    \A q \in Proc \ {p} :
        /\ chip'[q] = chip[q] /\ bulk'[q] = bulk[q]
        /\ pc'[q] = pc[q] /\ call'[q] = call[q] /\ at'[q] = at[q]
        /\ data'[q] = data[q] /\ rc'[q] = rc[q] /\ steady'[q] = steady[q]
        /\ \A l \in Line : owner'[l] = q <=> owner[l] = q
        /\ \A l \in Line : owner[l] = q => level'[l] = level[l]

LEMMA StepOfOne ==
    ASSUME GpioInv, NEW p \in Proc,
           Starts(p) \/ CallStep(p) \/ Return(p) \/ Restart(p)
    PROVE  OthersStay(p)
<1> USE DEF GpioInv, GpioTypeOK
<1>1. Nobody \notin Proc
    BY GpioAssumption
<1>2. \A q \in Proc \ {p} : \A l \in Line :
         Disowned(p)[l] = q <=> owner[l] = q
    BY <1>1 DEF Disowned
<1>3. ASSUME Abort(p)
      PROVE  OthersStay(p)
    BY <1>2, <1>3 DEF Abort, Go, handleVars, OthersStay
<1>4. ASSUME NEW c, NEW loc, NEW i, Begin(p, c, loc, i)
      PROVE  OthersStay(p)
    BY <1>4 DEF Begin, Go, kernelVars, handleVars, OthersStay
<1>5. CASE Starts(p)
  <2>1. ASSUME NEW c, BeginWriteAll(p, c)
        PROVE  OthersStay(p)
      BY <2>1 DEF BeginWriteAll, Go, kernelVars, handleVars, OthersStay
  <2> QED
      BY <1>4, <1>5, <2>1 DEF Starts, BeginInit, BeginUninit, BeginRead
<1>6. CASE OpenChip(p)
    BY <1>6 DEF OpenChip, InitError, Go, Result, kernelVars, OthersStay
<1>7. CASE RequestBulk(p)
  <2>1. \A l \in LinesOf(at[p]) : owner[l] = Nobody
      BY <1>7 DEF RequestBulk
  <2>2. /\ owner' = [l \in Line |-> IF l \in LinesOf(at[p]) THEN p ELSE owner[l]]
        /\ level' = level \/ level' = Leveled(at[p], Bulks[at[p]].on)
      BY <1>7 DEF RequestBulk
  <2>3. ASSUME NEW q \in Proc \ {p}, NEW l \in Line
        PROVE  /\ owner'[l] = q <=> owner[l] = q
               /\ owner[l] = q => level'[l] = level[l]
      BY <1>1, <2>1, <2>2 DEF Leveled
  <2>4. ASSUME NEW q \in Proc \ {p}
        PROVE  /\ chip'[q] = chip[q] /\ bulk'[q] = bulk[q]
               /\ pc'[q] = pc[q] /\ call'[q] = call[q] /\ at'[q] = at[q]
               /\ data'[q] = data[q] /\ rc'[q] = rc[q] /\ steady'[q] = steady[q]
      BY <1>7 DEF RequestBulk, SetBulk, Finish, Go, Result
  <2> QED
      BY <2>3, <2>4 DEF OthersStay
<1>8. CASE RequestFails(p)
    BY <1>8 DEF RequestFails, SetBulk, InitError, Go, Result, kernelVars, OthersStay
<1>9. CASE FreeBulk(p)
  <2>1. ASSUME NEW q \in Proc \ {p}, NEW l \in Line
        PROVE  owner'[l] = q <=> owner[l] = q
    <3>1. CASE UNCHANGED owner
        BY <3>1
    <3>2. CASE /\ IsReleased(p, at[p])
               /\ owner' = [k \in Line |-> IF k \in LinesOf(at[p]) THEN Nobody
                                                             ELSE owner[k]]
      <4>1. pc[p] = "freeBulk" /\ Handles(p)
          BY <1>9 DEF FreeBulk, HandlesInv
      <4>2. \A k \in LinesOf(at[p]) : owner[k] = p
          BY <3>2, <4>1 DEF Handles, Owning, Place, Held, IsReleased
      <4> QED
          BY <1>1, <3>2, <4>2
    <3> QED
        BY <1>9, <3>1, <3>2 DEF FreeBulk
  <2>2. ASSUME NEW q \in Proc \ {p}
        PROVE  /\ chip'[q] = chip[q] /\ bulk'[q] = bulk[q]
               /\ pc'[q] = pc[q] /\ call'[q] = call[q] /\ at'[q] = at[q]
               /\ data'[q] = data[q] /\ rc'[q] = rc[q] /\ steady'[q] = steady[q]
               /\ level' = level
      BY <1>9 DEF FreeBulk, SetBulk, Go
  <2> QED
      BY <2>1, <2>2 DEF OthersStay
<1>10. CASE CloseChip(p)
    BY <1>10 DEF CloseChip, Go, kernelVars, OthersStay
<1>11. CASE CloseNoChip(p) \/ UseStale(p)
    BY <1>3, <1>11 DEF CloseNoChip, UseStale
<1>12. CASE ReadBulk(p)
  <2>1. /\ UNCHANGED <<kernelVars, handleVars, call, steady>>
        /\ \A q \in Proc \ {p} : /\ pc'[q] = pc[q] /\ at'[q] = at[q]
                                 /\ data'[q] = data[q] /\ rc'[q] = rc[q]
    <3>1. CASE at[p] = Last(OnOutputs(call[p]))
      <4>1. /\ UNCHANGED <<kernelVars, handleVars, call, steady>>
            /\ \E byte : EndOfRead(p, byte)
          BY <1>12, <3>1 DEF ReadBulk
      <4>2. /\ \E result : data' = [data EXCEPT ![p] = result]
            /\ \/ Go(p, "write", First(TRUE)) /\ UNCHANGED rc
               \/ Finish(p, 0)
          BY <4>1, Zenon DEF EndOfRead
      <4> QED
          BY <4>1, <4>2 DEF Finish, Go, Result
    <3>2. CASE at[p] # Last(OnOutputs(call[p]))
        BY <1>12, <3>2 DEF ReadBulk, Go
    <3> QED
        BY <3>1, <3>2
  <2> QED
      BY <2>1 DEF kernelVars, handleVars, OthersStay
<1>13. CASE WriteBulk(p)
  <2>1. ASSUME NEW q \in Proc \ {p}, NEW l \in Line, owner[l] = q
        PROVE  level'[l] = level[l]
    <3>1. CASE Held(p, at[p])
      <4>1. pc[p] = "write" /\ Handles(p) /\ at[p] \in Bulk
          BY <1>13 DEF WriteBulk, HandlesInv, Handles, Place, Side, SideIn, Bulk
      <4>2. \A k \in LinesOf(at[p]) : owner[k] = p
          BY <3>1, <4>1 DEF Handles, Owning
      <4>3. level' = Leveled(at[p], Ones(p, at[p]))
          BY <1>13, <3>1 DEF WriteBulk, Held
      <4> QED
          BY <2>1, <4>2, <4>3 DEF Leveled
    <3>2. CASE ~Held(p, at[p])
        BY <1>13, <3>2 DEF WriteBulk, Held
    <3> QED
        BY <3>1, <3>2
  <2>2. ASSUME NEW q \in Proc \ {p}
        PROVE  /\ chip'[q] = chip[q] /\ bulk'[q] = bulk[q]
               /\ pc'[q] = pc[q] /\ call'[q] = call[q] /\ at'[q] = at[q]
               /\ data'[q] = data[q] /\ rc'[q] = rc[q] /\ steady'[q] = steady[q]
               /\ owner' = owner
      BY <1>13 DEF WriteBulk, Finish, Go, Result, handleVars
  <2> QED
      BY <2>1, <2>2 DEF OthersStay
<1>14. CASE TransferFails(p)
    BY <1>14 DEF TransferFails, Finish, Go, Result, kernelVars, handleVars, OthersStay
<1>15. CASE Return(p)
    BY <1>15 DEF Return, Go, kernelVars, handleVars, OthersStay
<1>16. CASE Restart(p)
    BY <1>2, <1>16 DEF Restart, Go, OthersStay
<1> QED
    BY <1>5, <1>6, <1>7, <1>8, <1>9, <1>10, <1>11, <1>12, <1>13, <1>14, <1>15,
       <1>16 DEF CallStep

\* What is known of a process is still true when another one has made a step.
LEMMA HandlesStay ==
    ASSUME GpioInv, board' = board, NEW p \in Proc, OthersStay(p),
           NEW q \in Proc \ {p}
    PROVE  Handles(q)'
<1>1. /\ chip'[q] = chip[q] /\ bulk'[q] = bulk[q]
      /\ pc'[q] = pc[q] /\ call'[q] = call[q] /\ at'[q] = at[q]
      /\ rc'[q] = rc[q]
      /\ \A l \in Line : owner'[l] = q <=> owner[l] = q
    BY DEF OthersStay
<1>2. Handles(q)
    BY DEF GpioInv, HandlesInv
<1>3. \A b \in Bulk : Held(q, b)' <=> Held(q, b)
    BY <1>1 DEF Held
<1>4. \A b \in Bulk : LinesOf(b) \subseteq Line
    BY DEF Line
<1>5. Owning(q)'
    BY <1>1, <1>2, <1>3, <1>4, SameTables DEF Handles, Owning
<1>6. CallOK(q)'
    BY <1>1, <1>2 DEF Handles, CallOK
<1>7. Place(q)'
  <2>1. /\ Bulks' = Bulks /\ NChips' = NChips /\ Bulk' = Bulk
        /\ HasGpio' = HasGpio /\ OnOutputs(call[q])' = OnOutputs(call[q])
      BY <1>1, SameTables DEF OnOutputs
  <2>2. Place(q)
      BY <1>2 DEF Handles
  <2> QED
      BY <1>1, <1>3, <2>1, <2>2 DEF Place, Side
<1>8. Settled(q)'
    BY <1>1, <1>2, <1>3, SameTables DEF Handles, Settled, AllHeld, NoneHeld
<1> QED
    BY <1>5, <1>6, <1>7, <1>8 DEF Handles

-----------------------------------------------------------------------------
(* The steps of a process and its own lines.                               *)

LEMMA SameLines ==
    ASSUME GpioInv, board' = board, NEW p \in Proc, UNCHANGED owner,
           pc[p] # "aborted", pc'[p] # "aborted",
           \A b \in Bulk : Held(p, b)' <=> Held(p, b)
    PROVE  Owning(p)'
<1>1. Owning(p)
    BY DEF GpioInv, HandlesInv, Handles
<1> QED
    BY <1>1, SameTables DEF Owning

LEMMA StartHandles ==
    ASSUME GpioInv, board' = board, NEW p \in Proc, Starts(p)
    PROVE  Handles(p)'
<1> USE DEF GpioInv, GpioTypeOK
<1>1. /\ board \in Board
      /\ HasGpio => 1 \in 1 .. NChips /\ 1 \in Bulk
      /\ \A c \in 1 .. NChips : c >= 1
      /\ \A b \in Bulk : b >= 1
    BY TheTable DEF HasGpio
<1>2. /\ pc[p] = "idle" /\ pc'[p] # "aborted" /\ pc'[p] # "idle"
      /\ UNCHANGED <<owner, chip, bulk>>
    BY DEF Starts, BeginInit, BeginUninit, BeginRead, BeginWriteAll, Begin, Go,
           kernelVars, handleVars
<1>3. /\ \A b \in Bulk : Held(p, b)' <=> Held(p, b)
      /\ AllHeld(p)' <=> AllHeld(p)
      /\ NoneHeld(p)' <=> NoneHeld(p)
    BY <1>2, SameTables DEF Held, AllHeld, NoneHeld
<1>4. Owning(p)'
    BY <1>2, <1>3, SameLines
<1>5. /\ AllHeld(p) \/ NoneHeld(p)
      /\ rc[p] = 0
    BY <1>2 DEF HandlesInv, Handles, CallOK, Settled
<1>6. CASE BeginInit(p)
  <2>1. /\ pc'[p] = "openChip" /\ at'[p] = 1 /\ call'[p].op = "init"
        /\ \A c \in 1 .. NChips : ~chip[p][c]
        /\ HasGpio
      BY <1>6 DEF BeginInit, Begin, Go
  <2>2. \A b \in Bulk : ~Held(p, b)
      BY <1>1, <1>5, <2>1 DEF AllHeld, NoneHeld
  <2>3. \A c \in 1 .. NChips : chip'[p][c] <=> c < 1
    <3>1. \A c \in 1 .. NChips : ~(c < 1)
        BY <1>1, TheTable
    <3> QED
        BY <1>2, <2>1, <3>1
  <2>4. \A b \in Bulk : ~Held(p, b)'
      BY <1>3, <2>2
  <2>5. Place(p)'
      BY <1>1, <2>1, <2>3, <2>4, SameTables DEF Place
  <2> QED
      BY <1>4, <2>1, <2>5 DEF Handles, CallOK, Settled
<1>7. CASE BeginUninit(p)
  <2>1. /\ pc'[p] = "freeBulk" /\ at'[p] = 1
        /\ call'[p].op = "uninit" /\ rc'[p] = 0
        /\ HasGpio
      BY <1>7 DEF BeginUninit, Begin, Go
  <2>2. Place(p)'
      BY <1>1, <2>1, SameTables DEF Place
  <2> QED
      BY <1>4, <2>1, <2>2 DEF Handles, CallOK, Settled
<1>8. ASSUME NEW c \in Request[board], BeginRead(p, c)
      PROVE  Handles(p)'
  <2>1. /\ pc'[p] = "read" /\ at'[p] = First(OnOutputs(c))
        /\ call'[p] = c /\ rc'[p] = 0 /\ c.op # "outputWriteAll"
      BY <1>8 DEF BeginRead, Begin, Go
  <2>2. First(OnOutputs(c)) \in Side(OnOutputs(c))
    <3>1. RequestOK(Table[board], c)
        BY <1>1, <1>8, GpioAssumption
    <3>2. Side(OnOutputs(c)) # {} /\ OnOutputs(c) \in BOOLEAN
        BY <3>1 DEF RequestOK, Side, Bulks, OnOutputs
    <3> QED
        BY <1>1, <3>2, SideEnds
  <2>3. Place(p)'
      BY <2>1, <2>2, SameTables DEF Place, Side
  <2> QED
      BY <1>3, <1>4, <1>5, <2>1, <2>3 DEF Handles, CallOK, Settled
<1>9. ASSUME NEW c \in Request[board], BeginWriteAll(p, c)
      PROVE  Handles(p)'
  <2>1. /\ pc'[p] = "write" /\ at'[p] = First(TRUE)
        /\ call'[p] = c /\ c.op = "outputWriteAll"
      BY <1>9 DEF BeginWriteAll, Go
  <2>2. First(TRUE) \in Side(TRUE)
    <3>1. Side(TRUE) # {}
        BY <1>1, <2>1, TheTable DEF RequestOK, Side, Bulks, OnOutputs
    <3> QED
        BY <1>1, <3>1, SideEnds
  <2>3. Place(p)'
      BY <2>1, <2>2, SameTables DEF Place, Side
  <2>4. rc'[p] = 0
      BY <1>5, <1>9 DEF BeginWriteAll
  <2> QED
      BY <1>3, <1>4, <1>5, <2>1, <2>3, <2>4 DEF Handles, CallOK, Settled
<1> QED
    BY <1>6, <1>7, <1>8, <1>9 DEF Starts

\* gpioInit.
LEMMA InitHandles ==
    ASSUME GpioInv, board' = board, NEW p \in Proc,
           OpenChip(p) \/ RequestBulk(p) \/ RequestFails(p)
    PROVE  Handles(p)'
<1> USE DEF GpioInv, GpioTypeOK
<1>1. /\ board \in Board /\ 1 \in 1 .. NChips /\ 1 \in Bulk
      /\ NChips \in Nat /\ Len(Bulks) \in Nat /\ Bulk = 1 .. Len(Bulks)
      /\ \A b \in Bulk : b >= 1
      /\ HasGpio
  <2>1. HasGpio
      BY DEF HandlesInv, Handles, Place, OpenChip, RequestBulk, RequestFails
  <2> QED
      BY <2>1, TheTable DEF HasGpio
<1>2. Owning(p) /\ CallOK(p) /\ Place(p)
    BY DEF HandlesInv, Handles
<1>3. ASSUME InitError(p), \A b \in Bulk : ~Held(p, b)', Owning(p)',
             call'[p].op = "init"
      PROVE  Handles(p)'
  <2>1. pc'[p] = "freeBulk" /\ at'[p] = 1 /\ rc'[p] = -1
      BY <1>3 DEF InitError, Go, Result
  <2>2. Place(p)'
      BY <1>1, <1>3, <2>1, SameTables DEF Place
  <2> QED
      BY <1>3, <2>1, <2>2 DEF Handles, CallOK, Settled
<1>4. CASE OpenChip(p)
  <2>1. /\ pc[p] = "openChip" /\ at[p] \in 1 .. NChips /\ call[p].op = "init"
        /\ \A c \in 1 .. NChips : chip[p][c] <=> c < at[p]
        /\ \A b \in Bulk : ~Held(p, b)
      BY <1>2, <1>4 DEF OpenChip, CallOK, Place
  <2>2. UNCHANGED <<owner, bulk, call>>
      BY <1>4 DEF OpenChip, kernelVars
  <2>3. \A b \in Bulk : ~Held(p, b)' /\ ~Held(p, b)
      BY <2>1, <2>2 DEF Held
  <2>4. CASE InitError(p)
    <3>1. pc'[p] # "aborted"
        BY <2>4 DEF InitError, Go
    <3>2. Owning(p)'
        BY <2>1, <2>2, <2>3, <3>1, SameLines
    <3> QED
        BY <1>3, <2>1, <2>2, <2>3, <2>4, <3>2
  <2>5. CASE /\ chip' = [chip EXCEPT ![p][at[p]] = TRUE]
             /\ IF at[p] = NChips THEN Go(p, "request", 1)
                                  ELSE Go(p, "openChip", at[p] + 1)
    <3>1. /\ pc'[p] = IF at[p] = NChips THEN "request" ELSE "openChip"
          /\ at'[p] = IF at[p] = NChips THEN 1 ELSE at[p] + 1
        BY <2>5 DEF Go
    <3>2. chip'[p] = [chip[p] EXCEPT ![at[p]] = TRUE]
        BY <2>5
    <3>3. \A c \in 1 .. NChips : chip'[p][c] <=> c = at[p] \/ chip[p][c]
        BY <3>2
    <3>4. \A c \in 1 .. NChips : chip'[p][c] <=> c < at[p] + 1
        BY <1>1, <2>1, <3>3
    <3>5. Place(p)'
      <4>1. CASE at[p] = NChips
        <5>1. \A c \in 1 .. NChips : chip'[p][c]
          <6>1. \A c \in 1 .. NChips : c < NChips + 1
              BY <1>1
          <6> QED
              BY <3>4, <4>1, <6>1
        <5>2. \A b \in Bulk : Held(p, b)' <=> b < 1
            BY <1>1, <2>3
        <5> QED
            BY <1>1, <3>1, <4>1, <5>1, <5>2, SameTables DEF Place
      <4>2. CASE at[p] # NChips
        <5>1. at[p] + 1 \in 1 .. NChips
            BY <1>1, <2>1, <4>2
        <5> QED
            BY <1>1, <2>3, <3>1, <3>4, <4>2, <5>1, SameTables DEF Place
      <4> QED
          BY <4>1, <4>2
    <3>6. Owning(p)'
        BY <2>1, <2>2, <2>3, <3>1, SameLines
    <3> QED
        BY <2>1, <2>2, <3>1, <3>5, <3>6 DEF Handles, CallOK, Settled
  <2> QED
      BY <1>4, <2>4, <2>5 DEF OpenChip
<1>5. CASE RequestBulk(p)
  <2>1. /\ pc[p] = "request" /\ at[p] \in Bulk /\ call[p].op = "init"
        /\ \A c \in 1 .. NChips : chip[p][c]
        /\ \A b \in Bulk : Held(p, b) <=> b < at[p]
      BY <1>2, <1>5 DEF RequestBulk, CallOK, Place
  <2>2. /\ \A l \in LinesOf(at[p]) : owner[l] = Nobody
        /\ owner' = [l \in Line |-> IF l \in LinesOf(at[p]) THEN p ELSE owner[l]]
        /\ bulk' = [bulk EXCEPT ![p][at[p]] = "held"]
        /\ UNCHANGED <<chip, call>>
      BY <1>5 DEF RequestBulk, SetBulk
  <2>3. \A b \in Bulk : Held(p, b)' <=> b = at[p] \/ Held(p, b)
    <3>1. bulk'[p] = [bulk[p] EXCEPT ![at[p]] = "held"]
        BY <2>2
    <3> QED
        BY <2>1, <3>1 DEF Held
  <2>4. \A b \in Bulk : Held(p, b)' <=> b < at[p] + 1
      BY <1>1, <2>1, <2>3
  <2>5. /\ pc'[p] = IF at[p] = Len(Bulks) THEN "done" ELSE "request"
        /\ at'[p] = IF at[p] = Len(Bulks) THEN 0 ELSE at[p] + 1
        /\ at[p] = Len(Bulks) => rc'[p] = 0
      BY <1>5 DEF RequestBulk, Finish, Go, Result
  <2>6. Owning(p)'
    <3>1. /\ \A b \in Bulk : Held(p, b) => \A l \in LinesOf(b) : owner[l] = p
          /\ \A l \in Line :
                owner[l] = p => \E b \in Bulk : Held(p, b) /\ l \in LinesOf(b)
          /\ \A b, c \in Bulk :
                Held(p, b) /\ Held(p, c) /\ b # c =>
                   LinesOf(b) \cap LinesOf(c) = {}
        BY <1>2, <2>1 DEF Owning
    <3>2. p # Nobody
        BY GpioAssumption
    <3>3. \A b \in Bulk : Held(p, b) => LinesOf(b) \cap LinesOf(at[p]) = {}
        BY <2>2, <3>1, <3>2
    <3>4. \A b \in Bulk : LinesOf(b) \subseteq Line
        BY DEF Line
    <3>5. ASSUME NEW b \in Bulk, Held(p, b)', NEW l \in LinesOf(b)
          PROVE  owner'[l] = p
        BY <2>2, <2>3, <3>1, <3>4, <3>5
    <3>6. ASSUME NEW l \in Line, owner'[l] = p
          PROVE  \E b \in Bulk : Held(p, b)' /\ l \in LinesOf(b)
        BY <2>1, <2>2, <2>3, <3>1, <3>6
    <3>7. ASSUME NEW b \in Bulk, NEW c \in Bulk, Held(p, b)', Held(p, c)', b # c
          PROVE  LinesOf(b) \cap LinesOf(c) = {}
        BY <2>3, <3>1, <3>3, <3>7
    <3>8. pc'[p] # "aborted"
        BY <2>5
    <3> QED
        BY <3>5, <3>6, <3>7, <3>8, SameTables DEF Owning
  <2>7. CASE at[p] = Len(Bulks)
    <3>1. \A b \in Bulk : Held(p, b)'
        BY <1>1, <2>4, <2>7
    <3>2. AllHeld(p)'
        BY <2>1, <2>2, <3>1, SameTables DEF AllHeld
    <3>3. Place(p)'
        BY <2>5, <2>7 DEF Place
    <3> QED
        BY <2>1, <2>2, <2>5, <2>6, <2>7, <3>2, <3>3 DEF Handles, CallOK, Settled
  <2>8. CASE at[p] # Len(Bulks)
    <3>1. at[p] + 1 \in Bulk
        BY <1>1, <2>1, <2>8
    <3>2. Place(p)'
        BY <1>1, <2>1, <2>2, <2>4, <2>5, <2>8, <3>1, SameTables DEF Place
    <3> QED
        BY <2>1, <2>2, <2>5, <2>6, <2>8, <3>2 DEF Handles, CallOK, Settled
  <2> QED
      BY <2>7, <2>8
<1>6. CASE RequestFails(p)
  <2>1. /\ pc[p] = "request" /\ at[p] \in Bulk /\ call[p].op = "init"
        /\ \A b \in Bulk : Held(p, b) <=> b < at[p]
      BY <1>2, <1>6 DEF RequestFails, CallOK, Place
  <2>2. InitError(p) /\ UNCHANGED <<owner, call>>
      BY <1>6 DEF RequestFails, kernelVars
  <2>3. PICK s \in {"empty", "free"} :
            bulk' = [bulk EXCEPT ![p][at[p]] = s]
      BY <1>6 DEF RequestFails, SetBulk
  <2>4. \A b \in Bulk : Held(p, b)' <=> Held(p, b)
    <3>1. bulk'[p] = [bulk[p] EXCEPT ![at[p]] = s]
        BY <2>3
    <3>2. ~Held(p, at[p])
        BY <1>1, <2>1
    <3> QED
        BY <2>1, <3>1, <3>2 DEF Held
  <2>5. pc'[p] = "freeBulk" /\ at'[p] = 1 /\ rc'[p] = -1
      BY <2>2 DEF InitError, Go, Result
  <2>6. Owning(p)'
      BY <2>1, <2>2, <2>4, <2>5, SameLines
  <2>7. Place(p)'
      BY <1>1, <2>5, SameTables DEF Place
  <2> QED
      BY <2>1, <2>2, <2>5, <2>6, <2>7 DEF Handles, CallOK, Settled
<1> QED
    BY <1>4, <1>5, <1>6

\* gpioUninit.
LEMMA UninitHandles ==
    ASSUME GpioInv, board' = board, NEW p \in Proc,
           FreeBulk(p) \/ CloseChip(p)
    PROVE  Handles(p)'
<1> USE DEF GpioInv, GpioTypeOK
<1>1. /\ board \in Board /\ 1 \in 1 .. NChips /\ 1 \in Bulk
      /\ NChips \in Nat /\ Len(Bulks) \in Nat /\ Bulk = 1 .. Len(Bulks)
      /\ \A c \in 1 .. NChips : c >= 1
      /\ HasGpio
  <2>1. HasGpio
      BY DEF HandlesInv, Handles, Place, FreeBulk, CloseChip
  <2> QED
      BY <2>1, TheTable DEF HasGpio
<1>2. Owning(p) /\ CallOK(p) /\ Place(p)
    BY DEF HandlesInv, Handles
<1>3. CASE FreeBulk(p)
  <2>1. /\ pc[p] = "freeBulk" /\ at[p] \in Bulk
        /\ \/ call[p].op = "init" /\ rc[p] = -1
           \/ call[p].op = "uninit" /\ rc[p] = 0
        /\ \A b \in Bulk : Held(p, b) => b >= at[p]
      BY <1>2, <1>3 DEF FreeBulk, CallOK, Place
  <2>2. UNCHANGED <<call, rc, chip>>
      BY <1>3 DEF FreeBulk
  <2>3. /\ pc'[p] = IF at[p] = Len(Bulks) THEN "closeChip" ELSE "freeBulk"
        /\ at'[p] = IF at[p] = Len(Bulks) THEN 1 ELSE at[p] + 1
      BY <1>3 DEF FreeBulk, Go
  <2>4. (\A b \in Bulk : Held(p, b)' <=> Held(p, b) /\ b # at[p]) /\ Owning(p)'
    <3>1. CASE Held(p, at[p])
      <4>1. /\ owner' = [l \in Line |-> IF l \in LinesOf(at[p]) THEN Nobody
                                                           ELSE owner[l]]
            /\ bulk' = [bulk EXCEPT ![p][at[p]] = "free"]
          BY <1>3, <3>1 DEF FreeBulk, IsReleased, Held, SetBulk
      <4>2. bulk'[p] = [bulk[p] EXCEPT ![at[p]] = "free"]
          BY <4>1
      <4>3. \A b \in Bulk : Held(p, b)' <=> Held(p, b) /\ b # at[p]
          BY <2>1, <4>2 DEF Held
      <4>4. /\ \A b \in Bulk : Held(p, b) => \A l \in LinesOf(b) : owner[l] = p
            /\ \A l \in Line :
                  owner[l] = p => \E b \in Bulk : Held(p, b) /\ l \in LinesOf(b)
            /\ \A b, c \in Bulk :
                  Held(p, b) /\ Held(p, c) /\ b # c =>
                     LinesOf(b) \cap LinesOf(c) = {}
          BY <1>2, <2>1 DEF Owning
      <4>5. p # Nobody
          BY GpioAssumption
      <4>6. \A b \in Bulk : LinesOf(b) \subseteq Line
          BY DEF Line
      <4>7. ASSUME NEW b \in Bulk, Held(p, b)', NEW l \in LinesOf(b)
            PROVE  owner'[l] = p
        <5>1. l \notin LinesOf(at[p])
            BY <2>1, <3>1, <4>3, <4>4, <4>7
        <5> QED
            BY <4>1, <4>3, <4>4, <4>6, <4>7, <5>1
      <4>8. ASSUME NEW l \in Line, owner'[l] = p
            PROVE  \E b \in Bulk : Held(p, b)' /\ l \in LinesOf(b)
        <5>1. l \notin LinesOf(at[p]) /\ owner[l] = p
            BY <4>1, <4>5, <4>8
        <5> QED
            BY <4>3, <4>4, <5>1
      <4>9. pc'[p] # "aborted"
          BY <2>3
      <4> QED
          BY <4>3, <4>4, <4>7, <4>8, <4>9, SameTables DEF Owning
    <3>2. CASE ~Held(p, at[p])
      <4>1. UNCHANGED <<owner, bulk>>
          BY <1>3, <3>2 DEF FreeBulk, IsReleased, Held
      <4>2. \A b \in Bulk : Held(p, b)' <=> Held(p, b)
          BY <4>1 DEF Held
      <4>3. Owning(p)'
          BY <2>1, <2>3, <4>1, <4>2, SameLines
      <4> QED
          BY <3>2, <4>2, <4>3
    <3> QED
        BY <3>1, <3>2
  <2>5. Place(p)'
    <3>1. CASE at[p] = Len(Bulks)
      <4>1. \A b \in Bulk : ~Held(p, b)'
          BY <1>1, <2>1, <2>4, <3>1
      <4> QED
          BY <1>1, <2>3, <3>1, <4>1, SameTables DEF Place
    <3>2. CASE at[p] # Len(Bulks)
      <4>1. at[p] + 1 \in Bulk
          BY <1>1, <2>1, <3>2
      <4>2. \A b \in Bulk : Held(p, b)' => b >= at[p] + 1
          BY <1>1, <2>1, <2>4
      <4> QED
          BY <1>1, <2>3, <3>2, <4>1, <4>2, SameTables DEF Place
    <3> QED
        BY <3>1, <3>2
  <2> QED
      BY <2>1, <2>2, <2>3, <2>4, <2>5 DEF Handles, CallOK, Settled
<1>4. CASE CloseChip(p)
  <2>1. /\ pc[p] = "closeChip" /\ at[p] \in 1 .. NChips
        /\ \/ call[p].op = "init" /\ rc[p] = -1
           \/ call[p].op = "uninit" /\ rc[p] = 0
        /\ \A b \in Bulk : ~Held(p, b)
        /\ \A c \in 1 .. NChips : chip[p][c] => c >= at[p]
      BY <1>2, <1>4 DEF CloseChip, CallOK, Place
  <2>2. UNCHANGED <<owner, call, rc>>
      BY <1>4 DEF CloseChip, kernelVars
  <2>3. /\ pc'[p] = IF at[p] = NChips THEN "done" ELSE "closeChip"
        /\ at'[p] = IF at[p] = NChips THEN 0 ELSE at[p] + 1
      BY <1>4 DEF CloseChip, Go
  <2>4. \A b \in Bulk : ~Held(p, b)'
    <3>1. bulk'[p] = [b \in Bulk |->
                         IF Bulks[b].chip = at[p] /\ bulk[p][b] = "free"
                         THEN "stale" ELSE bulk[p][b]]
        BY <1>4 DEF CloseChip
    <3> QED
        BY <2>1, <3>1 DEF Held
  <2>5. \A c \in 1 .. NChips : chip'[p][c] => c >= at[p] + 1
    <3>1. chip'[p] = [chip[p] EXCEPT ![at[p]] = FALSE]
        BY <1>4 DEF CloseChip
    <3>2. \A c \in 1 .. NChips : chip'[p][c] => c # at[p] /\ chip[p][c]
        BY <3>1
    <3> HIDE DEF GpioInv, GpioTypeOK
    <3>3. \A c \in 1 .. NChips : c >= at[p] /\ c # at[p] => c >= at[p] + 1
        BY <2>1
    <3> QED
        BY <2>1, <3>2, <3>3
  <2>6. Owning(p)'
      BY <2>1, <2>2, <2>3, <2>4, SameLines
  <2>7. CASE at[p] = NChips
    <3>1. \A c \in 1 .. NChips : ~chip'[p][c]
      <4> HIDE DEF GpioInv, GpioTypeOK
      <4>1. \A c \in 1 .. NChips : ~(c >= at[p] + 1)
          BY <1>1, <2>7
      <4> QED
          BY <2>5, <4>1
    <3>2. NoneHeld(p)'
        BY <2>4, <3>1, SameTables DEF NoneHeld
    <3>3. Place(p)'
        BY <2>3, <2>7 DEF Place
    <3> QED
        BY <2>1, <2>2, <2>3, <2>6, <2>7, <3>2, <3>3 DEF Handles, CallOK, Settled
  <2>8. CASE at[p] # NChips
    <3>1. at[p] + 1 \in 1 .. NChips
        BY <1>1, <2>1, <2>8
    <3>2. Place(p)'
        BY <1>1, <2>3, <2>4, <2>5, <2>8, <3>1, SameTables DEF Place
    <3> QED
        BY <2>1, <2>2, <2>3, <2>6, <2>8, <3>2 DEF Handles, CallOK, Settled
  <2> QED
      BY <2>7, <2>8
<1> QED
    BY <1>3, <1>4

\* Reads and writes.
LEMMA TransferHandles ==
    ASSUME GpioInv, board' = board, NEW p \in Proc,
           ReadBulk(p) \/ WriteBulk(p) \/ TransferFails(p)
    PROVE  Handles(p)'
<1> USE DEF GpioInv, GpioTypeOK
<1>1. board \in Board
    OBVIOUS
<1>2. /\ UNCHANGED <<owner, chip, bulk, call>>
      /\ pc[p] \in {"read", "write"}
    BY DEF ReadBulk, WriteBulk, TransferFails, kernelVars, handleVars
<1>3. /\ call[p] \in Request[board] /\ rc[p] = 0
      /\ pc[p] = "read" => call[p].op # "outputWriteAll"
      /\ pc[p] = "write" => call[p].op \in {"outputWriteAll", "outputWrite"}
      /\ pc[p] = "read" => at[p] \in Side(OnOutputs(call[p]))
      /\ pc[p] = "write" => at[p] \in Side(TRUE)
      /\ AllHeld(p) \/ NoneHeld(p)
    BY <1>2 DEF HandlesInv, Handles, CallOK, Place, Settled
<1>4. /\ \A b \in Bulk : Held(p, b)' <=> Held(p, b)
      /\ AllHeld(p)' <=> AllHeld(p)
      /\ NoneHeld(p)' <=> NoneHeld(p)
    BY <1>2, SameTables DEF Held, AllHeld, NoneHeld
<1>5. call[p].op \notin {"init", "uninit"}
    BY <1>1, <1>3, TheTable DEF RequestOK
<1>6. ASSUME Go(p, "done", 0)
      PROVE  Handles(p)'
  <2>1. pc'[p] = "done" /\ at'[p] = 0
      BY <1>6 DEF Go
  <2>2. Owning(p)'
      BY <1>2, <1>4, <2>1, SameLines
  <2>3. Place(p)'
      BY <2>1 DEF Place
  <2> QED
      BY <1>2, <1>3, <1>4, <1>5, <2>1, <2>2, <2>3 DEF Handles, CallOK, Settled
<1>7. ASSUME NEW i \in Side(TRUE), Go(p, "write", i), UNCHANGED rc,
             call[p].op \in {"outputWriteAll", "outputWrite"}
      PROVE  Handles(p)'
  <2>1. pc'[p] = "write" /\ at'[p] = i
      BY <1>7 DEF Go
  <2>2. Owning(p)'
      BY <1>2, <1>4, <2>1, SameLines
  <2>3. Place(p)'
      BY <2>1, SameTables DEF Place, Side
  <2> QED
      BY <1>2, <1>3, <1>4, <1>7, <2>1, <2>2, <2>3 DEF Handles, CallOK, Settled
<1>8. CASE ReadBulk(p)
  <2> DEFINE isOut == OnOutputs(call[p])
  <2>1. pc[p] = "read" /\ isOut \in BOOLEAN /\ at[p] \in Side(isOut)
      BY <1>3, <1>8 DEF ReadBulk, OnOutputs
  <2>2. PICK bits \in BitsRead(p, at[p]) :
            IF at[p] = Last(isOut)
            THEN EndOfRead(p, data[p] \cup bits)
            ELSE Go(p, "read", at[p] + 1) /\ UNCHANGED rc
      BY <1>8 DEF ReadBulk
  <2>3. CASE at[p] = Last(isOut)
    <3>1. EndOfRead(p, data[p] \cup bits)
        BY <2>2, <2>3
    <3>2. CASE call[p].op = "outputWrite"
      <4>1. isOut = TRUE
          BY <3>2 DEF OnOutputs
      <4>2. First(TRUE) \in Side(TRUE)
          BY <1>1, <2>1, <4>1, SideEnds
      <4> QED
          BY <1>7, <3>1, <3>2, <4>2 DEF EndOfRead
    <3>3. CASE call[p].op # "outputWrite"
        BY <1>6, <3>1, <3>3 DEF EndOfRead, Finish
    <3> QED
        BY <3>2, <3>3
  <2>4. CASE at[p] # Last(isOut)
    <3>1. pc'[p] = "read" /\ at'[p] = at[p] + 1 /\ UNCHANGED rc
        BY <2>2, <2>4 DEF Go
    <3>2. at[p] + 1 \in Side(isOut)
        BY <1>1, <2>1, <2>4, SideEnds
    <3>3. Owning(p)'
        BY <1>2, <1>4, <3>1, SameLines
    <3>4. Place(p)'
      <4>1. OnOutputs(call[p])' = isOut /\ Bulks' = Bulks
          BY <1>2, SameTables DEF OnOutputs
      <4> QED
          BY <3>1, <3>2, <4>1 DEF Place, Side
    <3> QED
        BY <1>2, <1>3, <1>4, <2>1, <3>1, <3>3, <3>4 DEF Handles, CallOK, Settled
  <2> QED
      BY <2>3, <2>4
<1>9. CASE WriteBulk(p)
  <2>1. pc[p] = "write"
      BY <1>9 DEF WriteBulk
  <2>2. CASE at[p] = Last(TRUE)
      BY <1>6, <1>9, <2>2 DEF WriteBulk, Finish
  <2>3. CASE at[p] # Last(TRUE)
    <3>1. at[p] + 1 \in Side(TRUE)
        BY <1>1, <1>3, <2>1, <2>3, SideEnds
    <3> QED
        BY <1>3, <1>7, <1>9, <2>1, <2>3, <3>1 DEF WriteBulk
  <2> QED
      BY <2>2, <2>3
<1>10. CASE TransferFails(p)
    BY <1>6, <1>10 DEF TransferFails, Finish
<1> QED
    BY <1>8, <1>9, <1>10

\* The end of a call, and of a process.
LEMMA EndHandles ==
    ASSUME GpioInv, board' = board, NEW p \in Proc,
           CloseNoChip(p) \/ UseStale(p) \/ Return(p) \/ Restart(p)
    PROVE  Handles(p)'
<1> USE DEF GpioInv, GpioTypeOK
<1>1. \A l \in Line : Disowned(p)[l] # p
  <2>1. p # Nobody
      BY GpioAssumption
  <2> QED
      BY <2>1 DEF Disowned
<1>2. CASE Abort(p)
  <2>1. pc'[p] = "aborted" /\ at'[p] = 0 /\ owner' = Disowned(p)
      BY <1>2 DEF Abort, Go
  <2>2. Owning(p)'
      BY <1>1, <2>1, SameTables DEF Owning
  <2> QED
      BY <2>1, <2>2 DEF Handles, CallOK, Place, Settled
<1>3. CASE Return(p)
  <2>1. /\ pc[p] = "done" /\ pc'[p] = "idle" /\ at'[p] = 0
        /\ call'[p] = NoCall /\ rc'[p] = 0
        /\ UNCHANGED <<owner, chip, bulk>>
      BY <1>3 DEF Return, Go, kernelVars, handleVars
  <2>2. /\ \A b \in Bulk : Held(p, b)' <=> Held(p, b)
        /\ AllHeld(p)' <=> AllHeld(p)
        /\ NoneHeld(p)' <=> NoneHeld(p)
      BY <2>1, SameTables DEF Held, AllHeld, NoneHeld
  <2>3. AllHeld(p) \/ NoneHeld(p)
      BY <2>1 DEF HandlesInv, Handles, Settled
  <2>4. Owning(p)'
      BY <2>1, <2>2, SameLines
  <2> QED
      BY <2>1, <2>2, <2>3, <2>4 DEF Handles, CallOK, Place, Settled, NoCall
<1>4. CASE Restart(p)
  <2>1. /\ pc'[p] = "idle" /\ at'[p] = 0 /\ owner' = Disowned(p)
        /\ call'[p] = NoCall /\ rc'[p] = 0
        /\ chip'[p] = [c \in 1 .. NChips |-> FALSE]
        /\ bulk'[p] = [b \in Bulk |-> "empty"]
      BY <1>4 DEF Restart, Go
  <2>2. NoneHeld(p)'
      BY <2>1, SameTables DEF NoneHeld, Held
  <2>3. Owning(p)'
    <3>1. \A b \in Bulk : ~Held(p, b)'
        BY <2>1 DEF Held
    <3> QED
        BY <1>1, <2>1, <3>1, SameTables DEF Owning
  <2> QED
      BY <2>1, <2>2, <2>3 DEF Handles, CallOK, Place, Settled, NoCall
<1> QED
    BY <1>2, <1>3, <1>4 DEF CloseNoChip, UseStale

LEMMA HandlesStep ==
    ASSUME GpioInv, [Next]_gpioVars
    PROVE  HandlesInv'
<1>1. CASE UNCHANGED gpioVars
  <2>1. board' = board
      BY <1>1 DEF gpioVars
  <2>2. ASSUME NEW p \in Proc
        PROVE  Handles(p)'
    <3>1. Handles(p)
        BY DEF GpioInv, HandlesInv
    <3>2. \A b \in Bulk : Held(p, b)' <=> Held(p, b)
        BY <1>1 DEF gpioVars, handleVars, Held
    <3>3. Owning(p)' /\ CallOK(p)' /\ Settled(p)'
        BY <1>1, <2>1, <3>1, <3>2, SameTables
           DEF gpioVars, kernelVars, handleVars, callVars, Handles, Owning,
               CallOK, Settled, AllHeld, NoneHeld
    <3>4. Place(p)'
      <4>1. Bulks' = Bulks /\ OnOutputs(call[p])' = OnOutputs(call[p])
          BY <1>1, <2>1, SameTables DEF gpioVars, callVars, OnOutputs
      <4> QED
          BY <1>1, <2>1, <3>1, <3>2, <4>1, SameTables
             DEF gpioVars, handleVars, callVars, Handles, Place, Side
    <3> QED
        BY <3>3, <3>4 DEF Handles
  <2> QED
      BY <2>2 DEF HandlesInv
<1>2. ASSUME board' = board, NEW p \in Proc,
             Starts(p) \/ CallStep(p) \/ Return(p) \/ Restart(p)
      PROVE  HandlesInv'
  <2>1. Handles(p)'
      BY <1>2, StartHandles, InitHandles, UninitHandles, TransferHandles,
         EndHandles DEF CallStep
  <2>2. OthersStay(p)
      BY <1>2, StepOfOne
  <2>3. \A q \in Proc \ {p} : Handles(q)'
      BY <1>2, <2>2, HandlesStay
  <2> QED
      BY <2>1, <2>3 DEF HandlesInv
<1>3. ASSUME board' = board, NEW l, MoveInput(l)
      PROVE  HandlesInv'
  <2>1. UNCHANGED <<owner, chip, bulk, pc, call, at, rc>>
      BY <1>3 DEF MoveInput, handleVars
  <2>2. ASSUME NEW p \in Proc
        PROVE  Handles(p)'
    <3>1. Handles(p)
        BY DEF GpioInv, HandlesInv
    <3>2. \A b \in Bulk : Held(p, b)' <=> Held(p, b)
        BY <2>1 DEF Held
    <3>3. Owning(p)' /\ CallOK(p)' /\ Settled(p)'
        BY <1>3, <2>1, <3>1, <3>2, SameTables
           DEF Handles, Owning, CallOK, Settled, AllHeld, NoneHeld
    <3>4. Place(p)'
      <4>1. Bulks' = Bulks /\ OnOutputs(call[p])' = OnOutputs(call[p])
          BY <1>3, <2>1, SameTables DEF OnOutputs
      <4> QED
          BY <1>3, <2>1, <3>1, <3>2, <4>1, SameTables DEF Handles, Place, Side
    <3> QED
        BY <3>3, <3>4 DEF Handles
  <2> QED
      BY <2>2 DEF HandlesInv
<1> QED
    BY <1>1, <1>2, <1>3 DEF Next, Starts

-----------------------------------------------------------------------------
(* Transfers.                                                              *)

LEMMA InputLines ==
    ASSUME board \in Board, NEW n \in 0 .. Len(InputOrder) - 1
    PROVE  InputOrder[n + 1] \in Line
<1>1. PICK b \in Side(FALSE) : \E k \in 1 .. Len(Bulks[b].lines) :
                                  n = Reorder[Offset(b) + k - 1]
    BY InputPlaces
<1>2. PICK k \in 1 .. Len(Bulks[b].lines) : n = Reorder[Offset(b) + k - 1]
    BY <1>1
<1>3. InputOrder[n + 1] = Bulks[b].lines[k]
    BY <1>2, InputPlaces
<1> QED
    BY <1>3 DEF Line, LinesOf, LinesIn, Side, SideIn, Bulk

\* What is read from outputs that do not change.
LEMMA SameOutputs ==
    ASSUME board \in Board, board' = board,
           \A l \in Range(OutputOrder) : level'[l] = level[l]
    PROVE  /\ On(OutputOrder)' = On(OutputOrder)
           /\ \A i : Seen(TRUE, i)' = Seen(TRUE, i)
           /\ \A n \in Outputs :
                 level'[OutputOrder[n + 1]] = level[OutputOrder[n + 1]]
<1>1. \A n \in Outputs : level'[OutputOrder[n + 1]] = level[OutputOrder[n + 1]]
    BY OutputLines
<1>2. On(OutputOrder)' = On(OutputOrder)
    BY <1>1, SameTables DEF On, Outputs
<1>3. \A b \in Side(TRUE) : BitsOf(b)' = BitsOf(b)
  <2> SUFFICES ASSUME NEW b \in Side(TRUE)
               PROVE  BitsOf(b)' = BitsOf(b)
      OBVIOUS
  <2>1. b \in Bulk
      BY DEF Side, SideIn, Bulk
  <2>2. \A l \in LinesOf(b) : level'[l] = level[l]
      BY OutputLines
  <2> QED
      BY <2>1, <2>2, SameBits
<1>4. \A i : Seen(TRUE, i)' = Seen(TRUE, i)
  <2>1. Side(TRUE)' = Side(TRUE)
      BY SameTables
  <2> QED
      BY <1>3, <2>1 DEF Seen
<1> QED
    BY <1>1, <1>2, <1>4

\* What is read from lines that do not change.
LEMMA SameLevels ==
    ASSUME board \in Board, board' = board,
           \A l \in Line : level'[l] = level[l]
    PROVE  /\ On(OutputOrder)' = On(OutputOrder)
           /\ On(InputOrder)' = On(InputOrder)
           /\ \A isOut : \A i : Seen(isOut, i)' = Seen(isOut, i)
           /\ \A n \in Outputs :
                 level'[OutputOrder[n + 1]] = level[OutputOrder[n + 1]]
<1>1. \A l \in Range(OutputOrder) : level'[l] = level[l]
    BY OutputLines
<1>2. On(InputOrder)' = On(InputOrder)
    BY InputLines, SameTables DEF On
<1>3. \A b \in Bulk : BitsOf(b)' = BitsOf(b)
  <2> SUFFICES ASSUME NEW b \in Bulk
               PROVE  BitsOf(b)' = BitsOf(b)
      OBVIOUS
  <2>1. \A l \in LinesOf(b) : level'[l] = level[l]
      BY DEF Line
  <2> QED
      BY <2>1, SameBits
<1>4. \A isOut : Side(isOut) \subseteq Bulk
    BY DEF Side, SideIn, Bulk
<1>5. \A isOut : \A i : Seen(isOut, i)' = Seen(isOut, i)
    BY <1>3, <1>4, SameTables DEF Seen
<1> QED
    BY <1>1, <1>2, <1>5, SameOutputs

\* Nothing is said of a process that neither transfers nor has transferred.
LEMMA NoTransfer ==
    ASSUME NEW p,
           \/ pc'[p] \notin {"read", "write", "done"}
           \/ pc'[p] = "done" /\ rc'[p] # 0
           \/ pc'[p] = "done" /\ call'[p].op \in {"init", "uninit"}
    PROVE  Transferred(p)'
BY DEF Transferred, ReadIsRight, WriteIsDone

LEMMA TransferredStays ==
    ASSUME GpioInv, board' = board, NEW q \in Proc, Transferred(q),
           chip'[q] = chip[q], bulk'[q] = bulk[q],
           pc'[q] = pc[q], call'[q] = call[q], at'[q] = at[q],
           data'[q] = data[q], rc'[q] = rc[q], steady'[q] = steady[q],
           AllHeld(q) /\ pc[q] # "aborted" =>
              \A l \in Line : level'[l] = level[l]
    PROVE  Transferred(q)'
<1> SUFFICES ASSUME AllHeld(q)', pc'[q] \in {"read", "write", "done"}
             PROVE  Transferred(q)'
    BY DEF Transferred
<1>1. AllHeld(q) /\ board \in Board
    BY SameTables DEF AllHeld, Held, GpioInv, GpioTypeOK
<1>2. \A l \in Line : level'[l] = level[l]
    BY <1>1
<1>3. /\ On(OutputOrder)' = On(OutputOrder)
      /\ On(InputOrder)' = On(InputOrder)
      /\ \A isOut : \A i : Seen(isOut, i)' = Seen(isOut, i)
      /\ \A n \in Outputs : AsData(q, n)' <=> AsData(q, n)
    BY <1>1, <1>2, SameLevels, SameTables DEF AsData
<1>4. /\ OnOutputs(call[q])' = OnOutputs(call[q])
      /\ Seen(OnOutputs(call[q]), at[q])' = Seen(OnOutputs(call[q]), at[q])
      /\ \A n \in Outputs : Before(n, at[q])' <=> Before(n, at[q])
    BY <1>3, SameTables DEF OnOutputs, Before
<1>5. /\ ReadIsRight(q)' <=> ReadIsRight(q)
      /\ WriteIsDone(q)' <=> WriteIsDone(q)
    BY <1>3, SameTables DEF ReadIsRight, WriteIsDone
<1> QED
    BY <1>1, <1>3, <1>4, <1>5, SameTables DEF Transferred

\* An input that moves changes no output, and ends the calls' being steady.
LEMMA MoveTransfers ==
    ASSUME GpioInv, TransferInv, board' = board,
           NEW l \in Moving[board], MoveInput(l)
    PROVE  TransferInv'
<1> USE DEF GpioInv, GpioTypeOK
<1>1. board \in Board /\ l \notin Range(OutputOrder)
    BY TheTable
<1>2. \A k \in Range(OutputOrder) : level'[k] = level[k]
    BY <1>1 DEF MoveInput
<1>3. UNCHANGED <<chip, bulk, pc, call, at, data, rc>>
    BY DEF MoveInput, handleVars
<1>4. ASSUME NEW q \in Proc, AllHeld(q)', pc'[q] \in {"read", "write", "done"}
      PROVE  Transferred(q)'
  <2>1. AllHeld(q) /\ Transferred(q) /\ ~steady'[q]
    <3>1. steady' = [p \in Proc |-> pc[p] = "idle"]
        BY DEF MoveInput
    <3> QED
        BY <1>3, <1>4, <3>1, SameTables DEF AllHeld, Held, TransferInv
  <2>2. /\ On(OutputOrder)' = On(OutputOrder)
        /\ \A i : Seen(TRUE, i)' = Seen(TRUE, i)
        /\ \A n \in Outputs : AsData(q, n)' <=> AsData(q, n)
      BY <1>1, <1>2, <1>3, SameOutputs, SameTables DEF AsData
  <2>3. /\ OnOutputs(call[q])' = OnOutputs(call[q])
        /\ OnOutputs(call[q]) =>
              Seen(OnOutputs(call[q]), at[q])' = Seen(TRUE, at[q])
        /\ OnOutputs(call[q]) =>
              Seen(OnOutputs(call[q]), at[q]) = Seen(TRUE, at[q])
        /\ \A n \in Outputs : Before(n, at[q])' <=> Before(n, at[q])
    <3>1. call' = call /\ at' = at
        BY <1>3
    <3>2. OnOutputs(call[q])' = OnOutputs(call[q]) /\ OnOutputs(call[q]) \in BOOLEAN
        BY <3>1 DEF OnOutputs
    <3>3. ASSUME OnOutputs(call[q])
          PROVE  /\ Seen(OnOutputs(call[q]), at[q])' = Seen(TRUE, at[q])
                 /\ Seen(OnOutputs(call[q]), at[q]) = Seen(TRUE, at[q])
      <4>1. OnOutputs(call[q]) = TRUE /\ OnOutputs(call[q])' = TRUE
          BY <3>2, <3>3
      <4>2. Seen(OnOutputs(call[q]), at[q])' = Seen(TRUE, at[q])'
          BY <4>1 DEF Seen, Side
      <4> QED
          BY <2>2, <3>1, <4>1, <4>2
    <3>4. \A n \in Outputs : Before(n, at[q])' <=> Before(n, at[q])
        BY <3>1, SameTables DEF Before
    <3> QED
        BY <3>2, <3>3, <3>4
  <2>4. WriteIsDone(q)' <=> WriteIsDone(q)
      BY <1>3, <2>2, SameTables DEF WriteIsDone
  <2> QED
      BY <1>3, <2>1, <2>2, <2>3, <2>4, SameTables DEF Transferred
<1>5. ASSUME NEW q \in Proc
      PROVE  Transferred(q)'
    BY <1>4 DEF Transferred
<1> QED
    BY <1>5 DEF TransferInv

\* A call begins with no bits, or with those that it is to write.
LEMMA StartTransfers ==
    ASSUME GpioInv, board' = board, NEW p \in Proc, Starts(p)
    PROVE  Transferred(p)'
<1> USE DEF GpioInv, GpioTypeOK
<1>1. CASE BeginInit(p) \/ BeginUninit(p)
  <2>1. pc'[p] \in {"openChip", "freeBulk"}
      BY <1>1 DEF BeginInit, BeginUninit, Begin, Go
  <2> QED
      BY <2>1, NoTransfer
<1>2. ASSUME NEW c \in Request[board], BeginRead(p, c)
      PROVE  Transferred(p)'
  <2>1. /\ pc'[p] = "read" /\ call'[p] = c /\ data'[p] = {}
        /\ at'[p] = First(OnOutputs(c)) /\ level' = level
      BY <1>2 DEF BeginRead, Begin, Go, kernelVars
  <2>2. OnOutputs(c) \in BOOLEAN /\ Side(OnOutputs(c)) # {}
      BY TheTable DEF RequestOK, Side, Bulks, OnOutputs
  <2>3. Seen(OnOutputs(c), First(OnOutputs(c))) = {}
      BY <2>2, SeenGrows
  <2>4. Seen(OnOutputs(call[p]), at[p])' = {}
    <3>1. OnOutputs(call[p])' = OnOutputs(c)
        BY <2>1 DEF OnOutputs
    <3>2. \A isOut : \A i : Seen(isOut, i)' = Seen(isOut, i)
        BY <2>1, SameLevels
    <3> QED
        BY <2>1, <2>3, <3>1, <3>2
  <2> QED
      BY <2>1, <2>4 DEF Transferred
<1>3. ASSUME NEW c \in Request[board], BeginWriteAll(p, c)
      PROVE  Transferred(p)'
  <2>1. /\ pc'[p] = "write" /\ call'[p] = c /\ data'[p] = c.data
        /\ at'[p] = First(TRUE) /\ c.op = "outputWriteAll"
      BY <1>3 DEF BeginWriteAll, Go
  <2>2. Side(TRUE) # {}
      BY <2>1, TheTable DEF RequestOK, Side, Bulks, OnOutputs
  <2>3. \A n \in Outputs' : ~Before(n, at[p])'
    <3>1. \A b \in Side(TRUE) : ~(b < First(TRUE))
        BY <2>2, SideOrder
    <3> QED
        BY <2>1, <3>1, SameTables DEF Before
  <2> QED
      BY <2>1, <2>3 DEF Transferred
<1> QED
    BY <1>1, <1>2, <1>3 DEF Starts

LEMMA ReadTransfers ==
    ASSUME GpioInv, TransferInv, board' = board, NEW p \in Proc, ReadBulk(p)
    PROVE  Transferred(p)'
<1> USE DEF GpioInv, GpioTypeOK
<1> DEFINE isOut == OnOutputs(call[p])
           byte == data[p] \cup BitsOf(at[p])
<1> SUFFICES ASSUME AllHeld(p)'
             PROVE  Transferred(p)'
    BY DEF Transferred
<1>1. /\ pc[p] = "read" /\ level' = level
      /\ UNCHANGED <<chip, bulk, call, steady>>
    BY DEF ReadBulk, kernelVars, handleVars
<1>2. /\ AllHeld(p) /\ Transferred(p) /\ board \in Board
      /\ isOut \in BOOLEAN /\ at[p] \in Side(isOut)
      /\ call[p] \in Request[board] /\ call[p].op # "outputWriteAll"
      /\ OnOutputs(call[p])' = isOut
  <2>1. AllHeld(p) /\ OnOutputs(call[p])' = isOut
      BY <1>1, SameTables DEF AllHeld, Held, OnOutputs
  <2>2. Handles(p) /\ Transferred(p)
      BY DEF HandlesInv, TransferInv
  <2>3. /\ at[p] \in Side(isOut)
        /\ call[p] \in Request[board] /\ call[p].op # "outputWriteAll"
      BY <1>1, <2>2 DEF Handles, Place, CallOK
  <2> QED
      BY <2>1, <2>2, <2>3 DEF OnOutputs
<1>3. steady[p] \/ isOut => data[p] = Seen(isOut, at[p])
    BY <1>1, <1>2 DEF Transferred
<1>4. IF at[p] = Last(isOut)
      THEN EndOfRead(p, byte)
      ELSE data' = [data EXCEPT ![p] = byte] /\ Go(p, "read", at[p] + 1)
  <2>1. at[p] \in Bulk
      BY <1>2 DEF Side, SideIn, Bulk
  <2>2. BitsRead(p, at[p]) = {BitsOf(at[p])}
      BY <1>2, <2>1 DEF AllHeld, Held, BitsRead
  <2> QED
      BY <2>2 DEF ReadBulk
<1>5. /\ Side(isOut) # {}
      /\ steady[p] \/ isOut => byte = Seen(isOut, at[p] + 1)
  <2>1. Side(isOut) # {}
      BY <1>2
  <2>2. Seen(isOut, at[p] + 1) = Seen(isOut, at[p]) \cup BitsOf(at[p])
      BY <1>2, <2>1, SeenGrows
  <2> QED
      BY <1>3, <2>1, <2>2
<1>6. /\ \A out : \A i : Seen(out, i)' = Seen(out, i)
      /\ On(OutputOrder)' = On(OutputOrder)
      /\ On(InputOrder)' = On(InputOrder)
    BY <1>1, <1>2, SameLevels
<1>7. CASE at[p] # Last(isOut)
  <2>1. pc'[p] = "read" /\ at'[p] = at[p] + 1 /\ data'[p] = byte
      BY <1>4, <1>7 DEF Go
  <2>2. Seen(OnOutputs(call[p]), at[p])' = Seen(isOut, at[p] + 1)
      BY <1>2, <1>6, <2>1
  <2> QED
      BY <1>1, <1>2, <1>5, <2>1, <2>2 DEF Transferred
<1>8. CASE at[p] = Last(isOut)
  <2>1. EndOfRead(p, byte)
      BY <1>4, <1>8
  <2>2. steady[p] \/ isOut => byte = UNION {BitsOf(b) : b \in Side(isOut)}
      BY <1>2, <1>5, <1>8, SeenGrows
  <2>3. isOut => byte = On(OutputOrder)
      BY <1>2, <2>2, AllOutputsSeen
  <2>4. ~isOut /\ steady[p] => Reordered(byte) = On(InputOrder)
      BY <1>2, <2>2, AllInputsSeen
  <2> HIDE DEF byte
  <2>5. CASE call[p].op = "outputWrite"
    <3>1. isOut
        BY <2>5 DEF OnOutputs
    <3>2. /\ pc'[p] = "write" /\ at'[p] = First(TRUE)
          /\ data'[p] = Changed(call[p], On(OutputOrder))
        BY <2>1, <2>3, <2>5, <3>1 DEF EndOfRead, Go
    <3>3. /\ call[p].id \in Outputs /\ call[p].on \in BOOLEAN
          /\ call'[p] = call[p]
        BY <1>1, <1>2, <2>5, TheTable DEF RequestOK, Outputs, OutputOrder
    <3>4. /\ call[p].id \in data'[p] <=> call[p].on
          /\ \A n \in Outputs : n # call[p].id =>
                (n \in data'[p] <=> n \in On(OutputOrder))
        BY <3>2, <3>3 DEF Changed
    <3>5. \A n \in Outputs : n \in On(OutputOrder) <=> level[OutputOrder[n + 1]] = 1
        BY DEF On, Outputs
    <3>6. \A n \in Outputs : n # call[p].id => AsData(p, n)'
        BY <1>1, <3>4, <3>5, SameTables DEF AsData
    <3>7. \A n \in Outputs : ~Before(n, at[p])'
      <4>1. isOut = TRUE
          BY <1>2, <3>1
      <4>2. \A b \in Side(TRUE) : ~(b < First(TRUE))
          BY <1>2, <1>5, <4>1, SideOrder
      <4> QED
          BY <3>2, <4>2, SameTables DEF Before
    <3> QED
        BY <2>5, <3>2, <3>3, <3>4, <3>6, <3>7, SameTables DEF Transferred
  <2>6. CASE call[p].op # "outputWrite"
    <3>1. /\ pc'[p] = "done"
          /\ call[p].op = "inputReadAll" => data'[p] = Reordered(byte)
          /\ call[p].op = "inputRead" =>
                data'[p] = OneBit(Reordered(byte), call[p].id)
          /\ call[p].op = "outputReadAll" => data'[p] = byte
          /\ call[p].op = "outputRead" => data'[p] = OneBit(byte, call[p].id)
        BY <2>1, <2>6 DEF EndOfRead, Finish, Go
    <3>2. /\ isOut <=> call[p].op \in {"outputReadAll", "outputRead"}
          /\ isOut => byte = On(OutputOrder)
        BY <1>2, <2>3, <2>6 DEF OnOutputs
    <3>3. steady[p] => ReadIsRight(p)'
        BY <1>1, <1>6, <2>3, <2>4, <3>1, <3>2 DEF ReadIsRight, OneBit
    <3>4. WriteIsDone(p)'
        BY <1>1, <1>2, <2>6 DEF WriteIsDone
    <3> QED
        BY <1>1, <3>1, <3>3, <3>4 DEF Transferred
  <2> QED
      BY <2>5, <2>6
<1> QED
    BY <1>7, <1>8

\* The outputs of the bulk that is written take their bits, no other changes.
LEMMA WrittenBulk ==
    ASSUME GpioInv, board' = board, NEW p \in Proc, WriteBulk(p), AllHeld(p)
    PROVE  /\ at[p] \in Side(TRUE)
           /\ UNCHANGED <<owner, chip, bulk, call, data, steady>>
           /\ \A n \in Outputs :
                 IF OutputOrder[n + 1] \in LinesOf(at[p])
                 THEN level'[OutputOrder[n + 1]] = IF n \in data[p] THEN 1 ELSE 0
                 ELSE level'[OutputOrder[n + 1]] = level[OutputOrder[n + 1]]
<1>1. at[p] \in Side(TRUE) /\ board \in Board
    BY DEF WriteBulk, GpioInv, GpioTypeOK, HandlesInv, Handles, Place
<1>2. UNCHANGED <<owner, chip, bulk, call, data, steady>>
    BY DEF WriteBulk, handleVars
<1>3. level' = Leveled(at[p], Ones(p, at[p]))
  <2>1. at[p] \in Bulk
      BY <1>1 DEF Side, SideIn, Bulk
  <2> QED
      BY <2>1 DEF WriteBulk, AllHeld, Held
<1> QED
    BY <1>1, <1>2, <1>3, OutputsSet

LEMMA WriteTransfers ==
    ASSUME GpioInv, TransferInv, board' = board, NEW p \in Proc, WriteBulk(p)
    PROVE  Transferred(p)'
<1> USE DEF GpioInv, GpioTypeOK
<1> SUFFICES ASSUME AllHeld(p)'
             PROVE  Transferred(p)'
    BY DEF Transferred
<1>1. pc[p] = "write" /\ UNCHANGED <<chip, bulk>>
    BY DEF WriteBulk, handleVars
<1>2. /\ AllHeld(p) /\ Transferred(p) /\ board \in Board
      /\ call[p] \in Request[board]
      /\ call[p].op \in {"outputWriteAll", "outputWrite"}
    BY <1>1, SameTables DEF AllHeld, Held, TransferInv, HandlesInv, Handles, CallOK
<1>3. /\ at[p] \in Side(TRUE)
      /\ UNCHANGED <<call, data, steady>>
      /\ \A n \in Outputs :
            IF OutputOrder[n + 1] \in LinesOf(at[p])
            THEN level'[OutputOrder[n + 1]] = IF n \in data[p] THEN 1 ELSE 0
            ELSE level'[OutputOrder[n + 1]] = level[OutputOrder[n + 1]]
    BY <1>2, WrittenBulk
<1>4. /\ call[p].op = "outputWriteAll" => data[p] = call[p].data
      /\ call[p].op = "outputWrite" =>
            /\ call[p].id \in data[p] <=> call[p].on
            /\ \A n \in Outputs : n # call[p].id => AsData(p, n)
      /\ \A n \in Outputs : Before(n, at[p]) => AsData(p, n)
    BY <1>1, <1>2 DEF Transferred
<1>5. /\ \A n \in Outputs : AsData(p, n) => AsData(p, n)'
      /\ \A n \in Outputs : OutputOrder[n + 1] \in LinesOf(at[p]) => AsData(p, n)'
  <2>1. ASSUME NEW n \in Outputs, OutputOrder[n + 1] \in LinesOf(at[p])
        PROVE  AsData(p, n)'
      BY <1>3, <2>1, SameTables DEF AsData
  <2>2. ASSUME NEW n \in Outputs, OutputOrder[n + 1] \notin LinesOf(at[p]), AsData(p, n)
        PROVE  AsData(p, n)'
      BY <1>3, <2>2, SameTables DEF AsData
  <2> QED
      BY <2>1, <2>2
<1>6. Side(TRUE) # {}
    BY <1>3
<1>7. \A n \in Outputs : Before(n, at[p] + 1) => AsData(p, n)'
  <2>1. \A b \in Side(TRUE) : b < at[p] + 1 => b < at[p] \/ b = at[p]
      BY <1>2, <1>3, <1>6, SideOrder
  <2> QED
      BY <1>4, <1>5, <2>1 DEF Before
<1>8. CASE at[p] = Last(TRUE)
  <2>1. pc'[p] = "done"
      BY <1>8 DEF WriteBulk, Finish, Go
  <2>2. \A n \in Outputs : Before(n, at[p] + 1)
    <3>1. \A b \in Side(TRUE) : b < at[p] + 1
        BY <1>2, <1>6, <1>8, SideOrder
    <3> QED
        BY <1>2, <3>1, OutputLines DEF Before
  <2>3. \A n \in Outputs : n \in On(OutputOrder)' <=> n \in data[p]
    <3>1. \A n \in Outputs : AsData(p, n)'
        BY <1>7, <2>2
    <3> QED
        BY <1>3, <3>1, SameTables DEF AsData, On, Outputs
  <2>4. On(OutputOrder)' \subseteq Outputs
      BY SameTables DEF On, Outputs
  <2>5. WriteIsDone(p)'
    <3>1. CASE call[p].op = "outputWriteAll"
      <4>1. On(OutputOrder)' = call[p].data \cap Outputs
          BY <1>4, <2>3, <2>4, <3>1
      <4> QED
          BY <1>3, <3>1, <4>1, SameTables DEF WriteIsDone, Outputs
    <3>2. CASE call[p].op = "outputWrite"
      <4>1. call[p].id \in Outputs
          BY <1>2, <3>2, TheTable DEF RequestOK, Outputs, OutputOrder
      <4>2. call[p].id \in On(OutputOrder)' <=> call[p].on
          BY <1>4, <2>3, <3>2, <4>1
      <4> QED
          BY <1>3, <3>2, <4>2 DEF WriteIsDone
    <3> QED
        BY <1>2, <3>1, <3>2
  <2>6. ReadIsRight(p)'
      BY <1>2, <1>3 DEF ReadIsRight
  <2> QED
      BY <2>1, <2>5, <2>6 DEF Transferred
<1>9. CASE at[p] # Last(TRUE)
  <2>1. pc'[p] = "write" /\ at'[p] = at[p] + 1
      BY <1>9 DEF WriteBulk, Go
  <2>2. \A n \in Outputs : Before(n, at[p])' => AsData(p, n)'
    <3>1. \A n \in Outputs : Before(n, at[p])' <=> Before(n, at[p] + 1)
      <4>1. /\ Side(TRUE)' = Side(TRUE) /\ OutputOrder' = OutputOrder
            /\ \A b : LinesOf(b)' = LinesOf(b)
          BY SameTables
      <4> DEFINE next == at[p] + 1
      <4>2. at'[p] = next
          BY <2>1
      <4> HIDE DEF next
      <4>3. \A n \in Outputs : Before(n, at[p])' <=> Before(n, next)
          BY <4>1, <4>2 DEF Before
      <4> QED
          BY <4>3 DEF next
    <3> QED
        BY <1>7, <3>1
  <2> QED
      BY <1>3, <1>4, <1>5, <2>1, <2>2, SameTables DEF Transferred
<1> QED
    BY <1>8, <1>9

LEMMA TransferStep ==
    ASSUME GpioInv, TransferInv, [Next]_gpioVars
    PROVE  TransferInv'
<1> USE DEF GpioInv, GpioTypeOK
<1>1. CASE UNCHANGED gpioVars
  <2>1. board' = board
      BY <1>1 DEF gpioVars
  <2>2. ASSUME NEW q \in Proc
        PROVE  Transferred(q)'
    <3>1. Transferred(q)
        BY DEF TransferInv
    <3> QED
        BY <1>1, <2>1, <3>1, TransferredStays
           DEF gpioVars, kernelVars, handleVars, callVars
  <2> QED
      BY <2>2 DEF TransferInv
<1>2. ASSUME board' = board, NEW p \in Proc,
             Starts(p) \/ CallStep(p) \/ Return(p) \/ Restart(p)
      PROVE  TransferInv'
  <2>1. ASSUME OpenChip(p) \/ RequestBulk(p) \/ RequestFails(p)
        PROVE  Transferred(p)'
    <3>1. call[p].op = "init" /\ call' = call
        BY <2>1 DEF OpenChip, RequestBulk, RequestFails, HandlesInv, Handles, CallOK
    <3>2. pc'[p] \in {"openChip", "request", "freeBulk", "done"}
        BY <2>1 DEF OpenChip, RequestBulk, RequestFails, InitError, Finish, Go
    <3> QED
        BY <3>1, <3>2, NoTransfer
  <2>2. ASSUME FreeBulk(p) \/ CloseChip(p)
        PROVE  Transferred(p)'
    <3>1. call[p].op \in {"init", "uninit"} /\ call' = call
        BY <2>2 DEF FreeBulk, CloseChip, HandlesInv, Handles, CallOK
    <3>2. pc'[p] \in {"freeBulk", "closeChip", "done"}
        BY <2>2 DEF FreeBulk, CloseChip, Go
    <3> QED
        BY <3>1, <3>2, NoTransfer
  <2>3. ASSUME TransferFails(p)
        PROVE  Transferred(p)'
    <3>1. pc'[p] = "done" /\ rc'[p] = -1
        BY <2>3 DEF TransferFails, Finish, Go, Result
    <3> QED
        BY <3>1, NoTransfer
  <2>4. ASSUME CloseNoChip(p) \/ UseStale(p) \/ Return(p) \/ Restart(p)
        PROVE  Transferred(p)'
    <3>1. pc'[p] \in {"aborted", "idle"}
        BY <2>4 DEF CloseNoChip, UseStale, Abort, Return, Restart, Go
    <3> QED
        BY <3>1, NoTransfer
  <2>5. Transferred(p)'
      BY <1>2, <2>1, <2>2, <2>3, <2>4, StartTransfers, ReadTransfers,
         WriteTransfers DEF CallStep
  <2>6. OthersStay(p)
      BY <1>2, StepOfOne
  <2>7. ASSUME NEW q \in Proc \ {p}
        PROVE  Transferred(q)'
    <3>1. /\ chip'[q] = chip[q] /\ bulk'[q] = bulk[q]
          /\ pc'[q] = pc[q] /\ call'[q] = call[q] /\ at'[q] = at[q]
          /\ data'[q] = data[q] /\ rc'[q] = rc[q] /\ steady'[q] = steady[q]
          /\ \A l \in Line : owner[l] = q => level'[l] = level[l]
        BY <2>6 DEF OthersStay
    <3>2. Transferred(q) /\ Handles(q)
        BY DEF TransferInv, HandlesInv
    <3>3. AllHeld(q) /\ pc[q] # "aborted" => \A l \in Line : owner[l] = q
        BY <3>2 DEF Handles, Owning, AllHeld, Line
    <3> QED
        BY <1>2, <3>1, <3>2, <3>3, TransferredStays
  <2> QED
      BY <2>5, <2>7 DEF TransferInv
<1> QED
    BY <1>1, <1>2, MoveTransfers DEF Next, Starts

-----------------------------------------------------------------------------
(* Theorems.                                                               *)

(***************************************************************************)
(* What the calls of gpio.c keep: the variables have their types, and the  *)
(* lines that a process has requested are those of the bulks it holds.     *)
(***************************************************************************)
THEOREM GpioTypeCorrect ==
    Spec => []GpioTypeOK
<1>1. Init => GpioInv
    BY GpioInitially
<1>2. GpioInv /\ [Next]_gpioVars => GpioInv'
    BY GpioTypeStep, HandlesStep DEF GpioInv
<1>3. GpioInv => GpioTypeOK
    BY DEF GpioInv
<1> QED
    BY <1>1, <1>2, <1>3, PTL DEF Spec

(***************************************************************************)
(* Between two calls, the library of each process has all of its chips and *)
(* lines or none of them, whatever the other processes do, and gpioInit    *)
(* that fails leaves nothing reserved (gpio.c 147-187).                    *)
(***************************************************************************)
THEOREM NothingHalfReserved ==
    Spec => []AllOrNothing
<1>1. Init => GpioInv
    BY GpioInitially
<1>2. GpioInv /\ [Next]_gpioVars => GpioInv'
    BY GpioTypeStep, HandlesStep DEF GpioInv
<1>3. GpioInv => AllOrNothing
  <2> SUFFICES ASSUME GpioInv, NEW p \in Proc
               PROVE  /\ pc[p] = "idle" => Up(p) \/ Down(p)
                      /\ pc[p] = "done" /\ call[p].op = "init" =>
                            IF rc[p] = 0 THEN Up(p) ELSE Down(p)
      BY DEF AllOrNothing
  <2>1. Handles(p)
      BY DEF GpioInv, HandlesInv
  <2>2. ASSUME pc[p] # "aborted", AllHeld(p)
        PROVE  Up(p)
      BY <2>1, <2>2 DEF Handles, Owning, AllHeld, Up, Held, Line
  <2>3. ASSUME pc[p] # "aborted", NoneHeld(p)
        PROVE  Down(p)
      BY <2>1, <2>3 DEF Handles, Owning, NoneHeld, Down, Held
  <2> QED
      BY <2>1, <2>2, <2>3 DEF Handles, Settled
<1> QED
    BY <1>1, <1>2, <1>3, PTL DEF Spec

LEMMA GpioInvariant ==
    Spec => [](GpioInv /\ TransferInv)
<1>1. Init => GpioInv /\ TransferInv
    BY GpioInitially
<1>2. GpioInv /\ TransferInv /\ [Next]_gpioVars => (GpioInv /\ TransferInv)'
    BY GpioTypeStep, HandlesStep, TransferStep DEF GpioInv
<1> QED
    BY <1>1, <1>2, PTL DEF Spec

(***************************************************************************)
(* What a read that returned 0 gives is the value of the inputs or outputs *)
(* it names, and a write that returned 0 has set them, for any tables that *)
(* agree with their order and whatever the other processes do (gpio.c      *)
(* 189-382).                                                               *)
(***************************************************************************)
THEOREM TransfersCorrect ==
    Spec => []TransfersAreRight
<1>1. GpioInv /\ TransferInv => TransfersAreRight
  <2> SUFFICES ASSUME TransferInv, GpioInv, NEW p \in Proc, Succeeded(p)
               PROVE  /\ steady[p] => ReadIsRight(p)
                      /\ WriteIsDone(p)
      BY DEF TransfersAreRight
  <2>1. AllHeld(p) /\ pc[p] = "done" /\ rc[p] = 0
      BY DEF Succeeded, Up, AllHeld, Held
  <2> QED
      BY <2>1 DEF TransferInv, Transferred
<1> QED
    BY <1>1, GpioInvariant, PTL

\* A write of the outputs changes those that it names.
LEMMA WriteChanges ==
    ASSUME GpioInv, TransferInv, board' = board, NEW p \in Proc, WriteBulk(p),
           NEW l \in Range(OutputOrder), level'[l] # level[l]
    PROVE  /\ owner'[l] = p
           /\ pc[p] = "write"
           /\ \/ call[p].op = "outputWriteAll"
              \/ /\ call[p].op = "outputWrite"
                 /\ l = OutputOrder[call[p].id + 1]
<1> USE DEF GpioInv, GpioTypeOK
<1>1. Handles(p) /\ Transferred(p) /\ board \in Board
    BY DEF HandlesInv, TransferInv
<1>2. pc[p] = "write" /\ at[p] \in Bulk /\ Held(p, at[p])
    BY <1>1 DEF WriteBulk, Handles, Place, Side, SideIn, Bulk, Held
<1>3. AllHeld(p)
    BY <1>1, <1>2 DEF Handles, Settled, NoneHeld
<1>4. PICK n \in Outputs : l = OutputOrder[n + 1]
    BY <1>1, OutputLines
<1>5. /\ UNCHANGED owner
      /\ l \in LinesOf(at[p])
      /\ level'[l] = IF n \in data[p] THEN 1 ELSE 0
    BY <1>3, <1>4, WrittenBulk
<1>6. owner'[l] = p
    BY <1>1, <1>2, <1>5 DEF Handles, Owning
<1>7. call[p].op = "outputWrite" => l = OutputOrder[call[p].id + 1]
  <2> SUFFICES ASSUME call[p].op = "outputWrite", n # call[p].id
               PROVE  FALSE
      BY <1>4
  <2>1. AsData(p, n)
      BY <1>1, <1>2, <1>3 DEF Transferred
  <2>2. level[l] \in {0, 1}
      BY <1>1, <1>4, OutputLines
  <2> QED
      BY <1>4, <1>5, <2>1, <2>2 DEF AsData
<1> QED
    BY <1>1, <1>2, <1>6, <1>7 DEF Handles, CallOK

(***************************************************************************)
(* An output changes only when its owner writes it or reserves it: a write *)
(* of one output, which writes all of them back, and a failed or           *)
(* interrupted write change no other (gpio.c 314-382).                     *)
(***************************************************************************)
THEOREM OutputsAreKept ==
    Spec => OutputsKept
<1> DEFINE Kept ==
        \A l \in Range(OutputOrder) :
           level'[l] # level[l] =>
              \E p \in Proc :
                  /\ owner'[l] = p
                  /\ \/ pc[p] = "request"
                     \/ pc[p] = "write" /\ call[p].op = "outputWriteAll"
                     \/ /\ pc[p] = "write" /\ call[p].op = "outputWrite"
                        /\ l = OutputOrder[call[p].id + 1]
<1>1. GpioInv /\ TransferInv /\ [Next]_gpioVars => [Kept]_gpioVars
  <2> SUFFICES ASSUME GpioInv, TransferInv, Next,
                      NEW l \in Range(OutputOrder), level'[l] # level[l]
               PROVE  \E p \in Proc :
                         /\ owner'[l] = p
                         /\ \/ pc[p] = "request"
                            \/ pc[p] = "write" /\ call[p].op = "outputWriteAll"
                            \/ /\ pc[p] = "write" /\ call[p].op = "outputWrite"
                               /\ l = OutputOrder[call[p].id + 1]
      OBVIOUS
  <2>1. /\ board \in Board /\ board' = board
        /\ l \in Line
        /\ level \in [Line -> {0, 1}] /\ owner \in [Line -> Proc \cup {Nobody}]
    <3>1. /\ board \in Board /\ board' = board
          /\ level \in [Line -> {0, 1}]
          /\ owner \in [Line -> Proc \cup {Nobody}]
        BY DEF GpioInv, GpioTypeOK, Next
    <3>2. l \in Line
        BY <3>1, OutputLines
    <3> QED
        BY <3>1, <3>2
  <2>2. ASSUME NEW k \in Moving[board], MoveInput(k)
        PROVE  FALSE
    <3>1. k # l
        BY <2>1, TheTable
    <3> QED
        BY <2>1, <2>2, <3>1 DEF MoveInput
  <2>3. PICK p \in Proc : Starts(p) \/ CallStep(p) \/ Return(p) \/ Restart(p)
      BY <2>2 DEF Next, Starts
  <2>4. RequestBulk(p) \/ WriteBulk(p)
    <3>1. CASE Starts(p)
        BY <3>1 DEF Starts, BeginInit, BeginUninit, BeginRead, BeginWriteAll,
                    Begin, kernelVars
    <3>2. CASE Return(p) \/ Restart(p)
        BY <3>2 DEF Return, Restart, kernelVars
    <3>3. CASE CallStep(p)
        BY <3>3 DEF CallStep, OpenChip, RequestFails, FreeBulk, CloseChip,
                    CloseNoChip, ReadBulk, TransferFails, UseStale, Abort, kernelVars
    <3> QED
        BY <2>3, <3>1, <3>2, <3>3
  <2>5. CASE RequestBulk(p)
    <3>1. l \in LinesOf(at[p])
        BY <2>1, <2>5 DEF RequestBulk, Leveled
    <3> QED
        BY <2>1, <2>5, <3>1 DEF RequestBulk
  <2>6. CASE WriteBulk(p)
      BY <2>1, <2>6, WriteChanges
  <2> QED
      BY <2>4, <2>5, <2>6
<1> QED
    BY <1>1, GpioInvariant, PTL DEF Spec, OutputsKept

-----------------------------------------------------------------------------
(* The programs: where each is, and what is on behind it.                  *)

(***************************************************************************)
(* boardtest ends by turning each output off: from some call on it turns   *)
(* none on.                                                                *)
(***************************************************************************)
TurnsOn(c) == c.op = "outputWriteAll" \/ (c.op = "outputWrite" /\ c.on)

OnlyClears(b, n) ==
    /\ \A k \in n + 1 .. Len(BoardTest[b]) : ~TurnsOn(BoardTest[b][k])
    /\ \A i \in 0 .. OutputCount[b] - 1 :
          \E k \in n + 1 .. Len(BoardTest[b]) : BoardTest[b][k] = Write(i, FALSE)

LastOn(b) == CHOOSE n \in 1 .. Len(BoardTest[b]) : OnlyClears(b, n)

Tester(p) == program[p].name = "boardtest"

Answered(p) == answer[p] \notin {IO!Pending, IO!Error}

\* A call in progress is the one the program has come to.
OnScript(p) ==
    /\ pos[p] \in 1 .. Len(Script(p)) + 1
    /\ pc[p] \notin {"idle", "aborted"} =>
          ~Exited(p) /\ Impl(Call(p)) = "gpio" /\ call[p] = Call(p)
    /\ ioCall[p] # IO!NoCall =>
          /\ pc[p] = "idle" /\ ~Exited(p) /\ Impl(Call(p)) = "cpld"
          /\ ioCall[p] = CpldRequest(Call(p))
          /\ answer[p] = IO!Pending => IO!Valid(ioCall[p])
    /\ answer[p] # IO!Pending => ioCall[p] # IO!NoCall

\* Between yoctoInit and yoctoUninit boardtest has the lines.
HasLines(p) ==
    /\ Tester(p) /\ InitBy[board] = "gpio" /\ ~failed[p]
    /\ pos[p] \in 2 .. Len(Script(p)) /\ call[p].op # "uninit"
    => AllHeld(p)

\* The outputs that boardtest has turned off for the last time are off.
StayOff(p) ==
    Tester(p) /\ ~failed[p] =>
        \A k \in LastOn(board) + 1 .. Len(Script(p)) :
            /\ Script(p)[k].op = "outputWrite"
            /\ k < pos[p] \/ (k = pos[p] /\ Answered(p))
            => Script(p)[k].id \notin OutputsOn

\* A led is as some setled asked, or blinks where it was asked to be dark
\* (BlinksInstead).
AsAsked(led) ==
    \E q \in Proc : /\ program[q].name = "setled"
                    /\ program[q].led = led
                    /\ Shown(led) = Obtained(program[q])

LedIsSet(p) ==
    ~Tester(p) =>
        /\ Script(p) = <<>> => failed[p]
        /\ Script(p) # <<>> /\ ~failed[p] /\ (Exited(p) \/ Answered(p)) =>
              AsAsked(program[p].led)

RunsTypeOK ==
    /\ program \in Together
    /\ DOMAIN pos = Proc
    /\ failed \in [Proc -> BOOLEAN]
    /\ DOMAIN ioCall = Proc
    /\ DOMAIN answer = Proc
    /\ DOMAIN trigger = Leds
    /\ OutputBy[board] = "cpld" => outputs \subseteq 0 .. OutputCount[board] - 1

RunsInv ==
    /\ RunsTypeOK
    /\ \A p \in Proc : OnScript(p) /\ HasLines(p) /\ StayOff(p) /\ LedIsSet(p)

-----------------------------------------------------------------------------
(* The calls of boardtest.                                                 *)

Body ==
    [op : {"inputReadAll", "outputReadAll"}]
    \cup [op : {"inputRead", "outputRead"}, id : Nat]
    \cup [op : {"outputWrite"}, id : Nat, on : BOOLEAN]
    \cup {[op |-> "outputWriteAll", data |-> 0 .. 7]}

Ends == {[op |-> "init"], [op |-> "uninit"]}

\* The calls that turn no output on.
Mild ==
    [op : {"uninit", "outputReadAll"}]
    \cup [op : {"inputRead", "outputRead"}, id : Nat]
    \cup [op : {"outputWrite"}, id : Nat, on : {FALSE}]

LEMMA Joined ==
    ASSUME NEW S, NEW s \in Seq(S), NEW t \in Seq(S)
    PROVE  /\ s \o t \in Seq(S)
           /\ Len(s) \in Nat /\ Len(t) \in Nat
           /\ Len(s \o t) = Len(s) + Len(t)
           /\ \A k \in 1 .. Len(s) : (s \o t)[k] = s[k]
           /\ \A k \in Len(s) + 1 .. Len(s) + Len(t) :
                 (s \o t)[k] = t[k - Len(s)] /\ k - Len(s) \in 1 .. Len(t)
           /\ \A k \in 1 .. Len(t) : (s \o t)[Len(s) + k] = t[k]
<1>1. Len(s) \in Nat /\ Len(t) \in Nat
    BY LenProperties
<1>2. /\ s \o t \in Seq(S) /\ Len(s \o t) = Len(s) + Len(t)
      /\ \A k \in 1 .. Len(s) + Len(t) :
            (s \o t)[k] = IF k <= Len(s) THEN s[k] ELSE t[k - Len(s)]
    BY ConcatProperties
<1>3. \A k \in 1 .. Len(s) : k \in 1 .. Len(s) + Len(t) /\ k <= Len(s)
    BY <1>1
<1>4. \A k \in Len(s) + 1 .. Len(s) + Len(t) :
         /\ k \in 1 .. Len(s) + Len(t) /\ ~(k <= Len(s))
         /\ k - Len(s) \in 1 .. Len(t)
    BY <1>1
<1>5. \A k \in 1 .. Len(t) :
         /\ Len(s) + k \in 1 .. Len(s) + Len(t) /\ ~(Len(s) + k <= Len(s))
         /\ (Len(s) + k) - Len(s) = k
    BY <1>1
<1> QED
    BY <1>1, <1>2, <1>3, <1>4, <1>5

LEMMA Tabulated ==
    ASSUME NEW S, NEW n \in Nat, NEW s \in [1 .. n -> S]
    PROVE  s \in Seq(S) /\ Len(s) = n
OBVIOUS

LEMMA Counts ==
    ASSUME NEW b \in Boards
    PROVE  /\ InputCount[b] \in 0 .. 8 /\ OutputCount[b] \in 0 .. 8
           /\ InitBy[b] \in {"gpio", "nothing"}
           /\ InputBy[b] \in {"gpio", "none"}
           /\ OutputBy[b] \in {"gpio", "cpld", "none"}
           /\ OutputBy[b] = "cpld" => OutputCount[b] = 8
           /\ InputBy[b] = "gpio" \/ OutputBy[b] = "gpio" => InitBy[b] = "gpio"
           /\ \A l \in Leds : LedBy[b][l] \in {"cpld", "sysfs", "none"}
           /\ LedBy[b]["alarm"] # "sysfs" /\ LedBy[b]["wifi"] # "cpld"
<1>1. b \in {"AMD64", "RBOX630", "GWS501", "RADIPV3"}
    BY DEF Boards
<1> QED
    BY <1>1 DEF Boards, GpioBoards, InputCount, OutputCount, InitBy, InputBy,
                OutputBy, LedBy, Leds

LEMMA ClearCalls ==
    ASSUME NEW n \in 0 .. 8
    PROVE  /\ Clear(n) \in Seq(Body \cap Mild) /\ Len(Clear(n)) = 3 * n
           /\ \A i \in 0 .. n - 1 :
                 3 * i + 2 \in 1 .. 3 * n /\ Clear(n)[3 * i + 2] = Write(i, FALSE)
<1>1. \A k \in 1 .. 3 * n : (k - 1) \div 3 \in Nat
    OBVIOUS
<1>2. \A i \in Nat : /\ Write(i, FALSE) \in Body \cap Mild
                     /\ Read("outputRead", i) \in Body \cap Mild
    BY DEF Body, Mild, Write, Read
<1>3. Clear(n) \in [1 .. 3 * n -> Body \cap Mild]
    BY <1>1, <1>2 DEF Clear
<1>4. \A i \in 0 .. n - 1 : /\ 3 * i + 2 \in 1 .. 3 * n
                            /\ (3 * i + 2) % 3 = 2
                            /\ ((3 * i + 2) - 1) \div 3 = i
    OBVIOUS
<1>5. 3 * n \in Nat
    OBVIOUS
<1>6. \A i \in 0 .. n - 1 : Clear(n)[3 * i + 2] = Write(i, FALSE)
    BY <1>4 DEF Clear
<1>7. Clear(n) \in Seq(Body \cap Mild) /\ Len(Clear(n)) = 3 * n
    BY <1>3, <1>5, Tabulated
<1> QED
    BY <1>4, <1>6, <1>7

LEMMA OutputCalls ==
    ASSUME NEW b \in Boards
    PROVE  /\ TestDigitalInput(b) \in Seq(Body)
           /\ TestDigitalOutput(b) \in Seq(Body)
           /\ \E n \in 0 .. Len(TestDigitalOutput(b)) :
                 /\ \A k \in n + 1 .. Len(TestDigitalOutput(b)) :
                       TestDigitalOutput(b)[k] \in Mild
                 /\ \A i \in 0 .. OutputCount[b] - 1 :
                       \E k \in n + 1 .. Len(TestDigitalOutput(b)) :
                          TestDigitalOutput(b)[k] = Write(i, FALSE)
<1> DEFINE n == OutputCount[b]
           all == [op |-> "outputReadAll"]
           set == <<[op |-> "outputWriteAll", data |-> 0 .. 7], all>>
           ons == SetEach(n, TRUE) \o SetEach(n, FALSE) \o set
<1>1. n \in 0 .. 8 /\ InputCount[b] \in 0 .. 8
    BY Counts
<1>2. \A i \in Nat : /\ Read("inputRead", i) \in Body
                     /\ \A on \in BOOLEAN : Write(i, on) \in Body
    BY DEF Read, Write, Body
<1>3. all \in Body \cap Mild /\ set \in Seq(Body) /\ <<all>> \in Seq(Body)
    BY DEF Body, Mild
<1>4. TestDigitalInput(b) \in Seq(Body)
  <2>1. [k \in 1 .. InputCount[b] |-> Read("inputRead", k - 1)] \in Seq(Body)
      BY <1>1, <1>2, Tabulated
  <2>2. <<[op |-> "inputReadAll"]>> \in Seq(Body)
      BY DEF Body
  <2> QED
      BY <2>1, <2>2, Joined DEF TestDigitalInput
<1>5. ons \in Seq(Body)
  <2>1. ASSUME NEW on \in BOOLEAN
        PROVE  SetEach(n, on) \in Seq(Body)
      BY <1>1, <1>2, Tabulated DEF SetEach
  <2>2. SetEach(n, TRUE) \o SetEach(n, FALSE) \in Seq(Body)
      BY <2>1, Joined
  <2> QED
      BY <1>3, <2>2, Joined
<1>6. /\ Clear(n) \in Seq(Body) /\ Len(Clear(n)) = 3 * n
      /\ \A k \in 1 .. Len(Clear(n)) : Clear(n)[k] \in Mild
      /\ \A i \in 0 .. n - 1 :
            3 * i + 2 \in 1 .. 3 * n /\ Clear(n)[3 * i + 2] = Write(i, FALSE)
  <2>1. /\ Clear(n) \in Seq(Body \cap Mild) /\ Len(Clear(n)) = 3 * n
        /\ \A i \in 0 .. n - 1 :
              3 * i + 2 \in 1 .. 3 * n /\ Clear(n)[3 * i + 2] = Write(i, FALSE)
      BY <1>1, ClearCalls
  <2>2. \A k \in 1 .. Len(Clear(n)) : Clear(n)[k] \in Body \cap Mild
      BY <2>1, ElementOfSeq
  <2>3. Seq(Body \cap Mild) \subseteq Seq(Body)
      BY SeqMonotonic
  <2> QED
      BY <2>1, <2>2, <2>3
<1> DEFINE front == ons \o Clear(n)
<1>7. TestDigitalOutput(b) = front \o <<all>>
    BY DEF TestDigitalOutput
<1> HIDE DEF n, all, set, ons
<1>8. /\ front \in Seq(Body) /\ Len(ons) \in Nat
      /\ Len(front) = Len(ons) + 3 * n
      /\ \A k \in Len(ons) + 1 .. Len(front) : front[k] \in Mild
      /\ \A i \in 0 .. n - 1 :
            /\ Len(ons) + (3 * i + 2) \in Len(ons) + 1 .. Len(front)
            /\ front[Len(ons) + (3 * i + 2)] = Write(i, FALSE)
  <2>1. /\ front \in Seq(Body) /\ Len(ons) \in Nat
        /\ Len(front) = Len(ons) + 3 * n
        /\ \A k \in Len(ons) + 1 .. Len(front) :
              front[k] = Clear(n)[k - Len(ons)] /\ k - Len(ons) \in 1 .. Len(Clear(n))
        /\ \A k \in 1 .. 3 * n : front[Len(ons) + k] = Clear(n)[k]
    <3> DEFINE c == Clear(n)
    <3>1. c \in Seq(Body) /\ Len(c) = 3 * n
        BY <1>6
    <3> HIDE DEF c
    <3>2. /\ ons \o c \in Seq(Body) /\ Len(ons) \in Nat
          /\ Len(ons \o c) = Len(ons) + Len(c)
          /\ \A k \in Len(ons) + 1 .. Len(ons) + Len(c) :
                (ons \o c)[k] = c[k - Len(ons)] /\ k - Len(ons) \in 1 .. Len(c)
          /\ \A k \in 1 .. Len(c) : (ons \o c)[Len(ons) + k] = c[k]
      <4>1. ons \in Seq(Body) /\ c \in Seq(Body)
          BY <1>5, <3>1
      <4>2. ons \o c \in Seq(Body) /\ Len(ons) \in Nat
          BY <4>1, Joined
      <4>3. Len(ons \o c) = Len(ons) + Len(c)
          BY <4>1, Joined
      <4>4. \A k \in Len(ons) + 1 .. Len(ons) + Len(c) :
               (ons \o c)[k] = c[k - Len(ons)] /\ k - Len(ons) \in 1 .. Len(c)
          BY <4>1, Joined
      <4>5. \A k \in 1 .. Len(c) : (ons \o c)[Len(ons) + k] = c[k]
          BY <4>1, Joined
      <4> QED
          BY <4>2, <4>3, <4>4, <4>5
    <3> QED
        BY <3>1, <3>2 DEF c
  <2>2. \A k \in 1 .. 3 * n : Len(ons) + k \in Len(ons) + 1 .. Len(ons) + 3 * n
      BY <1>1, <2>1
  <2> QED
      BY <1>6, <2>1, <2>2
<1> HIDE DEF front
<1>9. /\ TestDigitalOutput(b) \in Seq(Body)
      /\ Len(TestDigitalOutput(b)) = Len(front) + 1
      /\ \A k \in 1 .. Len(front) : TestDigitalOutput(b)[k] = front[k]
      /\ TestDigitalOutput(b)[Len(front) + 1] = all
  <2>1. Len(<<all>>) = 1 /\ <<all>>[1] = all /\ 1 \in 1 .. 1
      OBVIOUS
  <2> QED
      BY <1>3, <1>7, <1>8, <2>1, Joined
<1>10. Len(ons) \in 0 .. Len(TestDigitalOutput(b))
    BY <1>1, <1>8, <1>9
<1>11. ASSUME NEW k \in Len(ons) + 1 .. Len(TestDigitalOutput(b))
       PROVE  TestDigitalOutput(b)[k] \in Mild
  <2>1. k \in Len(ons) + 1 .. Len(front) \/ k = Len(front) + 1
      BY <1>1, <1>8, <1>9
  <2>2. \A j \in Len(ons) + 1 .. Len(front) : j \in 1 .. Len(front)
      BY <1>8
  <2> QED
      BY <1>3, <1>8, <1>9, <2>1, <2>2
<1>12. ASSUME NEW i \in 0 .. n - 1
       PROVE  \E k \in Len(ons) + 1 .. Len(TestDigitalOutput(b)) :
                 TestDigitalOutput(b)[k] = Write(i, FALSE)
  <2> DEFINE k == Len(ons) + (3 * i + 2)
  <2>1. k \in Len(ons) + 1 .. Len(front) /\ front[k] = Write(i, FALSE)
      BY <1>8
  <2>2. /\ k \in 1 .. Len(front)
        /\ k \in Len(ons) + 1 .. Len(TestDigitalOutput(b))
      BY <1>1, <1>8, <1>9, <2>1
  <2> QED
      BY <1>9, <2>1, <2>2
<1> QED
    BY <1>4, <1>9, <1>10, <1>11, <1>12 DEF n

LEMMA BoardTestCalls ==
    ASSUME NEW b \in Boards
    PROVE  /\ Len(BoardTest[b]) \in Nat /\ Len(BoardTest[b]) >= 2
           /\ BoardTest[b][1] = [op |-> "init"]
           /\ BoardTest[b][Len(BoardTest[b])] = [op |-> "uninit"]
           /\ \A k \in 2 .. Len(BoardTest[b]) - 1 : BoardTest[b][k] \in Body
           /\ DOMAIN BoardTest[b] = 1 .. Len(BoardTest[b])
           /\ LastOn(b) \in 1 .. Len(BoardTest[b])
           /\ OnlyClears(b, LastOn(b))
<1> DEFINE All == Body \cup Ends
           init == <<[op |-> "init"]>>
           in == IF InputCount[b] > 0 THEN TestDigitalInput(b) ELSE <<>>
           out == IF OutputCount[b] > 0 THEN TestDigitalOutput(b) ELSE <<>>
           uninit == <<[op |-> "uninit"]>>
           front == init \o in
           body == front \o out
<1>1. BoardTest[b] = body \o uninit
    BY DEF BoardTest
<1>2. /\ init \in Seq(All) /\ uninit \in Seq(All)
      /\ Len(init) = 1 /\ Len(uninit) = 1
      /\ init[1] = [op |-> "init"] /\ uninit[1] = [op |-> "uninit"]
    BY DEF Ends
<1>3. /\ in \in Seq(Body) /\ out \in Seq(Body)
      /\ Len(in) \in Nat /\ Len(out) \in Nat
  <2>1. <<>> \in Seq(Body)
      OBVIOUS
  <2> QED
      BY <2>1, OutputCalls, LenProperties
<1>4. Seq(Body) \subseteq Seq(All)
    BY SeqMonotonic
<1>5. /\ \A k \in 1 .. Len(in) : in[k] \in Body
      /\ \A k \in 1 .. Len(out) : out[k] \in Body
    BY <1>3, ElementOfSeq
<1> HIDE DEF in, out, init, uninit
<1>6. /\ front \in Seq(All) /\ Len(front) = 1 + Len(in)
      /\ front[1] = [op |-> "init"]
      /\ \A k \in 2 .. Len(front) : front[k] \in Body
  <2>1. init \in Seq(All) /\ in \in Seq(All)
      BY <1>2, <1>3, <1>4
  <2>2. front \in Seq(All) /\ Len(front) = 1 + Len(in)
    <3>1. front \in Seq(All)
        BY <2>1, Joined
    <3>2. Len(front) = Len(init) + Len(in)
        BY <2>1, Joined
    <3> QED
        BY <1>2, <3>1, <3>2
  <2>3. front[1] = [op |-> "init"]
    <3>1. 1 \in 1 .. Len(init)
        BY <1>2
    <3> QED
        BY <1>2, <2>1, <3>1, Joined
  <2>4. \A k \in Len(init) + 1 .. Len(init) + Len(in) :
           front[k] = in[k - Len(init)] /\ k - Len(init) \in 1 .. Len(in)
      BY <2>1, Joined
  <2>5. \A k \in 2 .. Len(front) : k \in Len(init) + 1 .. Len(init) + Len(in)
      BY <1>2, <1>3, <2>2
  <2> QED
      BY <1>5, <2>2, <2>3, <2>4, <2>5
<1> HIDE DEF front
<1>7. /\ body \in Seq(All) /\ Len(body) = Len(front) + Len(out)
      /\ \A k \in 1 .. Len(front) : body[k] = front[k]
      /\ \A k \in Len(front) + 1 .. Len(body) :
            body[k] = out[k - Len(front)] /\ k - Len(front) \in 1 .. Len(out)
      /\ \A k \in 1 .. Len(out) : body[Len(front) + k] = out[k]
  <2>1. front \in Seq(All) /\ out \in Seq(All)
      BY <1>3, <1>4, <1>6
  <2>2. body \in Seq(All) /\ Len(body) = Len(front) + Len(out)
      BY <2>1, Joined
  <2>3. \A k \in 1 .. Len(front) : body[k] = front[k]
      BY <2>1, Joined
  <2>4. \A k \in Len(front) + 1 .. Len(front) + Len(out) :
           body[k] = out[k - Len(front)] /\ k - Len(front) \in 1 .. Len(out)
      BY <2>1, Joined
  <2>5. \A k \in 1 .. Len(out) : body[Len(front) + k] = out[k]
      BY <2>1, Joined
  <2> QED
      BY <2>2, <2>3, <2>4, <2>5
<1> HIDE DEF body
<1>8. /\ BoardTest[b] \in Seq(All) /\ Len(BoardTest[b]) = Len(body) + 1
      /\ \A k \in 1 .. Len(body) : BoardTest[b][k] = body[k]
      /\ BoardTest[b][Len(body) + 1] = [op |-> "uninit"]
  <2> body \in Seq(All) /\ uninit \in Seq(All)
      BY <1>2, <1>7
  <2>1. body \o uninit \in Seq(All) /\ Len(body \o uninit) = Len(body) + 1
    <3>1. body \o uninit \in Seq(All)
        BY Joined
    <3>2. Len(body \o uninit) = Len(body) + Len(uninit)
        BY Joined
    <3> QED
        BY <1>2, <3>1, <3>2
  <2>2. \A k \in 1 .. Len(body) : (body \o uninit)[k] = body[k]
      BY Joined
  <2>3. 1 \in 1 .. Len(uninit)
      BY <1>2
  <2>4. (body \o uninit)[Len(body) + 1] = uninit[1]
      BY <2>3, Joined
  <2> QED
      BY <1>1, <1>2, <2>1, <2>2, <2>4
<1>9. /\ Len(front) \in Nat /\ Len(front) >= 1
      /\ Len(body) \in Nat /\ Len(body) >= 1
      /\ Len(BoardTest[b]) \in Nat /\ Len(BoardTest[b]) >= 2
      /\ Len(BoardTest[b]) - 1 = Len(body)
    BY <1>3, <1>6, <1>7, <1>8
<1>10. BoardTest[b][1] = [op |-> "init"]
  <2>1. 1 \in 1 .. Len(front) /\ 1 \in 1 .. Len(body)
      BY <1>9
  <2> QED
      BY <1>6, <1>7, <1>8, <2>1
<1>11. ASSUME NEW k \in 2 .. Len(body)
       PROVE  BoardTest[b][k] \in Body
  <2>1. k \in 1 .. Len(body)
      OBVIOUS
  <2>2. k \in 2 .. Len(front) \/ k \in Len(front) + 1 .. Len(body)
      BY <1>9
  <2>3. CASE k \in 2 .. Len(front)
    <3>1. k \in 1 .. Len(front)
        BY <2>3
    <3> QED
        BY <1>6, <1>7, <1>8, <2>1, <2>3, <3>1
  <2>4. CASE k \in Len(front) + 1 .. Len(body)
    <3>1. body[k] = out[k - Len(front)] /\ k - Len(front) \in 1 .. Len(out)
        BY <1>7, <2>4
    <3>2. body[k] \in Body
        BY <1>5, <3>1
    <3> QED
        BY <1>8, <2>1, <3>2
  <2> QED
      BY <2>2, <2>3, <2>4
<1>12. \E n \in 1 .. Len(BoardTest[b]) : OnlyClears(b, n)
  <2>1. \A c \in Mild : ~TurnsOn(c)
      BY DEF Mild, TurnsOn
  <2>2. CASE OutputCount[b] > 0
    <3>1. PICK m \in 0 .. Len(out) :
             /\ \A k \in m + 1 .. Len(out) : out[k] \in Mild
             /\ \A i \in 0 .. OutputCount[b] - 1 :
                   \E k \in m + 1 .. Len(out) : out[k] = Write(i, FALSE)
        BY <2>2, OutputCalls DEF out
    <3> DEFINE n == Len(front) + m
    <3>2. n \in 1 .. Len(BoardTest[b])
        BY <1>3, <1>7, <1>8, <1>9
    <3>3. ASSUME NEW k \in n + 1 .. Len(BoardTest[b])
          PROVE  ~TurnsOn(BoardTest[b][k])
      <4>1. k \in n + 1 .. Len(body) \/ k = Len(body) + 1
          BY <1>3, <1>7, <1>8, <1>9
      <4>2. CASE k \in n + 1 .. Len(body)
        <5>1. /\ k \in 1 .. Len(body) /\ k \in Len(front) + 1 .. Len(body)
              /\ k - Len(front) \in m + 1 .. Len(out)
            BY <1>3, <1>7, <1>9, <4>2
        <5> QED
            BY <1>7, <1>8, <2>1, <3>1, <5>1
      <4>3. CASE k = Len(body) + 1
          BY <1>8, <4>3 DEF TurnsOn
      <4> QED
          BY <4>1, <4>2, <4>3
    <3>4. ASSUME NEW i \in 0 .. OutputCount[b] - 1
          PROVE  \E k \in n + 1 .. Len(BoardTest[b]) :
                    BoardTest[b][k] = Write(i, FALSE)
      <4>1. PICK k \in m + 1 .. Len(out) : out[k] = Write(i, FALSE)
          BY <3>1
      <4>2. /\ k \in 1 .. Len(out) /\ Len(front) + k \in 1 .. Len(body)
            /\ Len(front) + k \in n + 1 .. Len(BoardTest[b])
          BY <1>3, <1>7, <1>8, <1>9
      <4> QED
          BY <1>7, <1>8, <4>1, <4>2
    <3> QED
        BY <3>2, <3>3, <3>4 DEF OnlyClears
  <2>3. CASE ~(OutputCount[b] > 0)
    <3>1. OutputCount[b] = 0
        BY <2>3, Counts
    <3> QED
        BY <1>9, <3>1 DEF OnlyClears
  <2> QED
      BY <2>2, <2>3
<1>13. DOMAIN BoardTest[b] = 1 .. Len(BoardTest[b])
    BY <1>8, LenProperties
<1> QED
    BY <1>8, <1>9, <1>10, <1>11, <1>12, <1>13 DEF LastOn

-----------------------------------------------------------------------------
(* Where a program is.                                                     *)

LEMMA Scripts ==
    ASSUME board \in Board, program \in Together, NEW p \in Proc
    PROVE  /\ board \in Boards
           /\ Len(Script(p)) \in Nat
           /\ Tester(p) => Script(p) = BoardTest[board]
           /\ ~Tester(p) =>
                 /\ program[p].name = "setled"
                 /\ Script(p) # <<>> =>
                       /\ Script(p) = <<[op |-> "led", led |-> program[p].led,
                                         on |-> program[p].state = "on"]>>
                       /\ program[p].led \in Leds
                       /\ program[p].state \in {"on", "off"}
                       /\ LedBy[board][program[p].led] \in {"cpld", "sysfs"}
<1>1. board \in Boards /\ program[p].name \in {"boardtest", "setled"}
    BY ProgramsAssumption
<1>2. CASE Tester(p)
    BY <1>1, <1>2, BoardTestCalls DEF Tester, Script
<1>3. CASE ~Tester(p)
  <2>1. Script(p) = SetLed(board, program[p])
      BY <1>3 DEF Tester, Script
  <2>2. CASE Script(p) = <<>>
      BY <1>1, <1>3, <2>2 DEF Tester
  <2>3. CASE Script(p) # <<>>
      BY <1>1, <1>3, <2>1, <2>3, Counts DEF Tester, SetLed
  <2> QED
      BY <2>2, <2>3
<1> QED
    BY <1>2, <1>3

\* The call that a program makes or comes to.
LEMMA NextCall ==
    ASSUME board \in Board, program \in Together, NEW p \in Proc,
           pos[p] \in 1 .. Len(Script(p)) + 1, ~Exited(p)
    PROVE  /\ pos[p] \in 1 .. Len(Script(p))
           /\ Tester(p) =>
                 /\ Call(p) \in Body \cup Ends
                 /\ Call(p).op = "init" => pos[p] = 1
                 /\ Call(p).op = "uninit" => pos[p] = Len(Script(p))
                 /\ pos[p] > LastOn(board) => ~TurnsOn(Call(p))
                 /\ Impl(Call(p)) # "sysfs"
           /\ ~Tester(p) =>
                 /\ pos[p] = 1 /\ Len(Script(p)) = 1 /\ Script(p) # <<>>
                 /\ Call(p) = [op |-> "led", led |-> program[p].led,
                               on |-> program[p].state = "on"]
                 /\ Impl(Call(p)) = LedBy[board][program[p].led]
                 /\ Impl(Call(p)) \in {"cpld", "sysfs"}
           /\ Impl(Call(p)) = "gpio" =>
                 /\ Tester(p) /\ InitBy[board] = "gpio"
                 /\ Call(p) \in Ends \/ Call(p) \in Request[board]
           /\ Tester(p) /\ Impl(Call(p)) = "cpld" =>
                 /\ Call(p) \in Body
                 /\ Call(p).op \notin {"inputRead", "inputReadAll"}
                 /\ OutputBy[board] = "cpld"
<1>1. pos[p] \in 1 .. Len(Script(p)) /\ Len(Script(p)) \in Nat /\ board \in Boards
    BY Scripts DEF Exited
<1>2. CASE Tester(p)
  <2>1. Script(p) = BoardTest[board]
      BY <1>2, Scripts
  <2> DEFINE L == Len(BoardTest[board])
  <2>2. /\ L \in Nat /\ L >= 2 /\ pos[p] \in 1 .. L
        /\ Call(p) = BoardTest[board][pos[p]]
      BY <1>1, <2>1, BoardTestCalls DEF Call
  <2>3. \/ pos[p] = 1 /\ Call(p) = [op |-> "init"]
        \/ pos[p] = L /\ Call(p) = [op |-> "uninit"]
        \/ Call(p) \in Body
    <3>1. pos[p] = 1 \/ pos[p] = L \/ pos[p] \in 2 .. L - 1
        BY <2>2
    <3> QED
        BY <1>1, <2>2, <3>1, BoardTestCalls
  <2>4. \A c \in Body : c.op \in {"inputRead", "inputReadAll", "outputRead",
                                  "outputReadAll", "outputWrite", "outputWriteAll"}
      BY DEF Body
  <2>5. pos[p] > LastOn(board) => ~TurnsOn(Call(p))
    <3>1. LastOn(board) \in 1 .. L /\ OnlyClears(board, LastOn(board))
        BY <1>1, BoardTestCalls
    <3>2. pos[p] > LastOn(board) => pos[p] \in LastOn(board) + 1 .. L
        BY <2>2, <3>1
    <3> QED
        BY <2>2, <3>1, <3>2 DEF OnlyClears
  <2>6. Impl(Call(p)) \in {"gpio", "cpld", "nothing", "none"}
      BY <1>1, <2>3, <2>4, Counts DEF Impl, DoneBy
  <2>7. Impl(Call(p)) = "gpio" => /\ InitBy[board] = "gpio"
                                  /\ Call(p) \in Ends \/ Call(p) \in Request[board]
    <3>1. CASE Call(p) \in Body
      <4>1. ASSUME Impl(Call(p)) = "gpio"
            PROVE  Call(p) \in GpioCalls(board)
        <5>1. Call(p) \in Range(BoardTest[board])
            BY <1>1, <2>2, BoardTestCalls DEF Range
        <5> QED
            BY <2>4, <3>1, <4>1, <5>1 DEF GpioCalls, Impl
      <4>2. Impl(Call(p)) = "gpio" => InitBy[board] = "gpio"
          BY <1>1, <2>4, <3>1, Counts DEF Impl, DoneBy
      <4> QED
          BY <4>1, <4>2, ProgramsAssumption
    <3>2. CASE Call(p) \in Ends
        BY <3>2 DEF Ends, Impl, DoneBy
    <3> QED
        BY <2>3, <3>1, <3>2 DEF Ends
  <2>8. Impl(Call(p)) = "cpld" =>
             /\ Call(p) \in Body
             /\ Call(p).op \notin {"inputRead", "inputReadAll"}
             /\ OutputBy[board] = "cpld"
      BY <1>1, <2>3, <2>4, Counts DEF Impl, DoneBy
  <2> HIDE DEF L
  <2>9. /\ Call(p) \in Body \cup Ends
        /\ Call(p).op = "init" => pos[p] = 1
        /\ Call(p).op = "uninit" => pos[p] = Len(Script(p))
      BY <2>1, <2>3, <2>4 DEF Ends, L
  <2> QED
      BY <1>1, <1>2, <2>5, <2>6, <2>7, <2>8, <2>9
<1>3. CASE ~Tester(p)
  <2>1. Script(p) # <<>>
      BY <1>1
  <2>2. /\ Script(p) = <<[op |-> "led", led |-> program[p].led,
                          on |-> program[p].state = "on"]>>
        /\ LedBy[board][program[p].led] \in {"cpld", "sysfs"}
      BY <1>3, <2>1, Scripts
  <2>3. Len(Script(p)) = 1 /\ pos[p] = 1
      BY <1>1, <2>2
  <2>4. Call(p) = [op |-> "led", led |-> program[p].led,
                   on |-> program[p].state = "on"]
      BY <2>2, <2>3 DEF Call
  <2>5. Impl(Call(p)) = LedBy[board][program[p].led]
      BY <2>4 DEF Impl, DoneBy
  <2> QED
      BY <1>1, <1>3, <2>1, <2>2, <2>3, <2>4, <2>5
<1> QED
    BY <1>2, <1>3

-----------------------------------------------------------------------------
(* The steps of a program and of gpio.c.                                   *)

LEMMA SameScript ==
    ASSUME board' = board, program' = program, NEW p
    PROVE  /\ Script(p)' = Script(p) /\ (Tester(p)' <=> Tester(p))
           /\ pos'[p] = pos[p] =>
                 /\ Exited(p)' <=> Exited(p)
                 /\ Call(p)' = Call(p) /\ Impl(Call(p))' = Impl(Call(p))
BY DEF Script, Tester, Exited, Call, Impl

LEMMA CallStepIs ==
    ASSUME GpioInv, board' = board, NEW p \in Proc, CallStep(p)
    PROVE  /\ pc[p] \notin {"idle", "aborted"} /\ pc'[p] # "idle"
           /\ call' = call
           /\ pc[p] \in {"read", "write"} =>
                 UNCHANGED <<chip, bulk>>
<1> USE DEF GpioInv, GpioTypeOK
<1>1. CASE OpenChip(p) \/ RequestBulk(p) \/ RequestFails(p)
    BY <1>1 DEF OpenChip, RequestBulk, RequestFails, InitError, Go, Finish
<1>2. CASE FreeBulk(p) \/ CloseChip(p)
    BY <1>2 DEF FreeBulk, CloseChip, Go
<1>3. CASE ReadBulk(p) \/ WriteBulk(p) \/ TransferFails(p)
    BY <1>3 DEF ReadBulk, EndOfRead, WriteBulk, TransferFails, Finish, Go, handleVars
<1>4. CASE CloseNoChip(p) \/ UseStale(p)
    BY <1>4 DEF CloseNoChip, UseStale, Abort, Go, handleVars
<1> QED
    BY <1>1, <1>2, <1>3, <1>4 DEF CallStep

LEMMA BeginIs ==
    ASSUME GpioInv, RunsTypeOK, board' = board,
           NEW p \in Proc, OnScript(p), GpioCall(p)
    PROVE  /\ Starts(p)
           /\ Tester(p) /\ InitBy[board] = "gpio"
           /\ pc[p] = "idle" /\ pc'[p] \notin {"idle", "aborted"}
           /\ call'[p] = Call(p) /\ ~Exited(p) /\ Impl(Call(p)) = "gpio"
           /\ UNCHANGED <<level, chip, bulk, runVars, cpldVars, trigger>>
<1> USE DEF GpioInv, GpioTypeOK
<1>1. /\ pc[p] = "idle" /\ ~Exited(p) /\ Impl(Call(p)) = "gpio"
      /\ UNCHANGED <<runVars, cpldVars, trigger>>
    BY DEF GpioCall, Calls
<1>2. /\ Tester(p) /\ InitBy[board] = "gpio"
      /\ Call(p) \in Ends \/ Call(p) \in Request[board]
    BY <1>1, NextCall DEF OnScript, RunsTypeOK
<1>3. CASE Call(p).op = "init"
  <2>1. BeginInit(p)
      BY <1>3 DEF GpioCall
  <2>2. Call(p) = [op |-> "init"]
      BY <1>2, <1>3, TheTable DEF Ends, RequestOK
  <2> QED
      BY <1>1, <1>2, <2>1, <2>2
         DEF Starts, BeginInit, Begin, Go, kernelVars, handleVars
<1>4. CASE Call(p).op = "uninit"
  <2>1. BeginUninit(p)
      BY <1>4 DEF GpioCall
  <2>2. Call(p) = [op |-> "uninit"]
      BY <1>2, <1>4, TheTable DEF Ends, RequestOK
  <2> QED
      BY <1>1, <1>2, <2>1, <2>2
         DEF Starts, BeginUninit, Begin, Go, kernelVars, handleVars
<1>5. CASE Call(p).op \notin {"init", "uninit"}
  <2>1. Call(p) \in Request[board]
      BY <1>2, <1>5 DEF Ends
  <2>2. BeginRead(p, Call(p)) \/ BeginWriteAll(p, Call(p))
      BY <1>5 DEF GpioCall
  <2> QED
      BY <1>1, <1>2, <2>1, <2>2
         DEF Starts, BeginRead, BeginWriteAll, Begin, Go, kernelVars, handleVars
<1> QED
    BY <1>3, <1>4, <1>5

LEMMA OthersRun ==
    ASSUME GpioInv, RunsTypeOK, board' = board, NEW p \in Proc, Step(p), OnScript(p),
           NEW q \in Proc \ {p}
    PROVE  /\ program' = program
           /\ pos'[q] = pos[q] /\ failed'[q] = failed[q]
           /\ ioCall'[q] = ioCall[q] /\ answer'[q] = answer[q]
           /\ pc'[q] = pc[q] /\ call'[q] = call[q]
           /\ AllHeld(q)' <=> AllHeld(q)
<1> USE DEF RunsTypeOK
<1>1. GpioCall(p) => Starts(p)
    BY BeginIs
<1>2. GpioStep(p) => CallStep(p)
    BY DEF GpioStep
<1>3. GpioReturn(p) => Return(p)
    BY DEF GpioReturn
<1>4. \/ OthersStay(p)
      \/ UNCHANGED gpioVars
    BY <1>1, <1>2, <1>3, StepOfOne
       DEF Step, CpldCall, CpldStep, CpldReturn, SetTrigger, Nothing
<1>5. /\ pc'[q] = pc[q] /\ call'[q] = call[q]
      /\ chip'[q] = chip[q] /\ bulk'[q] = bulk[q]
    BY <1>4 DEF OthersStay, gpioVars, handleVars, callVars
<1>6. AllHeld(q)' <=> AllHeld(q)
    BY <1>5, SameTables DEF AllHeld, Held
<1>7. /\ program' = program
      /\ pos'[q] = pos[q] /\ failed'[q] = failed[q]
      /\ ioCall'[q] = ioCall[q] /\ answer'[q] = answer[q]
  <2>1. CASE GpioCall(p) \/ GpioStep(p)
      BY <2>1 DEF GpioCall, GpioStep, runVars, cpldVars
  <2>2. CASE GpioReturn(p)
      BY <2>2 DEF GpioReturn, Advance, cpldVars
  <2>3. CASE CpldCall(p)
      BY <2>3 DEF CpldCall, IO!Invoke, IO!Answer, runVars
  <2>4. CASE CpldStep(p)
      BY <2>4 DEF CpldStep, IO!Perform, IO!Fail, IO!Answer, runVars
  <2>5. CASE CpldReturn(p)
      BY <2>5 DEF CpldReturn, IO!Leave, IO!Answer, Advance
  <2>6. CASE SetTrigger(p)
      BY <2>6 DEF SetTrigger, Advance, cpldVars
  <2>7. CASE Nothing(p)
      BY <2>7 DEF Nothing, Advance, cpldVars
  <2> QED
      BY <2>1, <2>2, <2>3, <2>4, <2>5, <2>6, <2>7 DEF Step
<1> QED
    BY <1>5, <1>6, <1>7

LEMMA OnScriptStep ==
    ASSUME GpioInv, RunsTypeOK, board' = board, NEW p \in Proc, OnScript(p), Step(p)
    PROVE  OnScript(p)'
<1> USE DEF GpioInv, GpioTypeOK, RunsTypeOK
<1>1. Len(Script(p)) \in Nat /\ pos[p] \in 1 .. Len(Script(p)) + 1
    BY Scripts DEF OnScript
<1>2. /\ pos[p] \in 1 .. Len(Script(p)) + 1
      /\ pc[p] \notin {"idle", "aborted"} =>
            ~Exited(p) /\ Impl(Call(p)) = "gpio" /\ call[p] = Call(p)
      /\ ioCall[p] # IO!NoCall =>
            /\ pc[p] = "idle" /\ ~Exited(p) /\ Impl(Call(p)) = "cpld"
            /\ ioCall[p] = CpldRequest(Call(p))
            /\ answer[p] = IO!Pending => IO!Valid(ioCall[p])
      /\ answer[p] # IO!Pending => ioCall[p] # IO!NoCall
    BY DEF OnScript
<1>3. ~Exited(p) => pos[p] + 1 \in 1 .. Len(Script(p)) + 1
    BY <1>1 DEF Exited
<1>4. CASE GpioCall(p)
  <2>1. /\ pc'[p] \notin {"idle", "aborted"} /\ call'[p] = Call(p)
        /\ ~Exited(p) /\ Impl(Call(p)) = "gpio"
        /\ UNCHANGED <<program, pos, ioCall, answer>>
      BY <1>4, BeginIs DEF runVars, cpldVars
  <2> QED
      BY <1>2, <2>1, SameScript DEF OnScript
<1>5. CASE GpioStep(p)
  <2>1. /\ pc[p] \notin {"idle", "aborted"} /\ pc'[p] # "idle" /\ call' = call
        /\ UNCHANGED <<program, pos, ioCall, answer>>
      BY <1>5, CallStepIs DEF GpioStep, runVars, cpldVars
  <2> QED
      BY <1>2, <2>1, SameScript DEF OnScript
<1>6. CASE GpioReturn(p)
  <2>1. /\ pc[p] = "done" /\ pc'[p] = "idle" /\ pos'[p] = pos[p] + 1
        /\ UNCHANGED <<program, ioCall, answer>>
      BY <1>6 DEF GpioReturn, Return, Go, Advance, cpldVars
  <2> QED
      BY <1>2, <1>3, <2>1, SameScript DEF OnScript
<1>7. CASE CpldCall(p)
  <2>1. /\ pc[p] = "idle" /\ ~Exited(p) /\ Impl(Call(p)) = "cpld"
        /\ ioCall'[p] = CpldRequest(Call(p))
        /\ answer'[p] = IO!Pending => IO!Valid(ioCall'[p])
        /\ UNCHANGED <<program, pos, pc>>
      BY <1>7 DEF CpldCall, Calls, IO!Invoke, IO!Answer, IO!Pending, IO!Error, runVars,
                  gpioVars, callVars
  <2>2. CpldRequest(Call(p)) # IO!NoCall
    <3>1. Call(p) \in Body \/ Call(p).op = "led"
        BY <2>1, NextCall DEF OnScript
    <3> QED
        BY <2>1, <3>1, NextCall DEF CpldRequest, CpldLed, IO!NoCall, Body, OnScript
  <2> QED
      BY <1>2, <2>1, <2>2, SameScript DEF OnScript
<1>8. CASE CpldStep(p)
  <2>1. /\ UNCHANGED <<program, pos, pc, call, ioCall>>
        /\ ioCall[p] # IO!NoCall /\ answer'[p] # IO!Pending
      BY <1>8 DEF CpldStep, IO!Perform, IO!Fail, IO!InProgress, IO!Answer, IO!Pending,
                  IO!Error, IO!Ok, runVars, gpioVars, callVars
  <2> QED
      BY <1>2, <2>1, SameScript DEF OnScript
<1>9. CASE CpldReturn(p)
  <2>1. /\ answer[p] # IO!Pending
        /\ ioCall'[p] = IO!NoCall /\ answer'[p] = IO!Pending
        /\ pos'[p] = pos[p] + 1 /\ UNCHANGED <<program, pc>>
      BY <1>9 DEF CpldReturn, IO!Leave, IO!Answer, Advance, gpioVars, callVars
  <2> QED
      BY <1>2, <1>3, <2>1, SameScript DEF OnScript
<1>10. CASE SetTrigger(p) \/ Nothing(p)
  <2>1. /\ pc[p] = "idle" /\ ~Exited(p) /\ Impl(Call(p)) # "cpld"
        /\ pos'[p] = pos[p] + 1 /\ UNCHANGED <<program, pc, ioCall, answer>>
      BY <1>10 DEF SetTrigger, Nothing, Calls, Advance, gpioVars, callVars, cpldVars
  <2> QED
      BY <1>2, <1>3, <2>1, SameScript DEF OnScript
<1> QED
    BY <1>4, <1>5, <1>6, <1>7, <1>8, <1>9, <1>10 DEF Step

LEMMA HasLinesStep ==
    ASSUME GpioInv, GpioInv', RunsTypeOK, board' = board,
           NEW p \in Proc, OnScript(p), OnScript(p)', HasLines(p), Step(p)
    PROVE  HasLines(p)'
<1> USE DEF GpioInv, GpioTypeOK, RunsTypeOK
<1> SUFFICES ASSUME Tester(p)', InitBy[board]' = "gpio", ~failed'[p],
                    pos'[p] \in 2 .. Len(Script(p))', call'[p].op # "uninit"
             PROVE  AllHeld(p)'
    BY DEF HasLines
<1>1. Len(Script(p)) \in Nat /\ pos[p] \in 1 .. Len(Script(p)) + 1
    BY Scripts DEF OnScript
<1>2. UNCHANGED <<chip, bulk>> => (AllHeld(p)' <=> AllHeld(p))
    BY SameTables DEF AllHeld, Held
<1>3. CASE GpioCall(p)
  <2>1. /\ UNCHANGED <<program, pos, failed, chip, bulk>>
        /\ pc[p] = "idle"
      BY <1>3, BeginIs DEF runVars
  <2>2. call[p].op # "uninit"
    <3>1. call[p] = NoCall
        BY <2>1 DEF HandlesInv, Handles, CallOK
    <3> QED
        BY <3>1 DEF NoCall
  <2> QED
      BY <1>2, <2>1, <2>2, SameScript DEF HasLines
<1>4. CASE GpioStep(p)
  <2>1. /\ pc[p] \notin {"idle", "aborted"} /\ call' = call
        /\ pc[p] \in {"read", "write"} => UNCHANGED <<chip, bulk>>
        /\ UNCHANGED <<program, pos, failed>>
      BY <1>4, CallStepIs DEF GpioStep, runVars
  <2>2. call[p] = Call(p) /\ ~Exited(p) /\ pos[p] >= 2
      BY <2>1 DEF OnScript
  <2>3. Call(p).op # "init"
    <3>1. Tester(p)
        BY <2>1, SameScript
    <3> QED
        BY <2>2, <3>1, NextCall DEF OnScript
  <2>4. pc[p] \in {"read", "write"}
    <3>1. CallOK(p)
        BY DEF HandlesInv, Handles
    <3>2. pc[p] # "done"
        BY <1>4 DEF GpioStep, CallStep, OpenChip, RequestBulk, RequestFails, FreeBulk,
                    CloseChip, CloseNoChip, ReadBulk, WriteBulk, TransferFails, UseStale
    <3> QED
        BY <2>1, <2>2, <2>3, <3>1, <3>2 DEF CallOK, Location
  <2> QED
      BY <1>2, <2>1, <2>4, SameScript DEF HasLines
<1>5. CASE GpioReturn(p)
  <2>1. /\ pc[p] = "done" /\ pos'[p] = pos[p] + 1
        /\ UNCHANGED <<program, chip, bulk>>
        /\ ~failed[p] /\ rc[p] = 0
      BY <1>5 DEF GpioReturn, Return, Go, Advance, handleVars
  <2>2. call[p] = Call(p) /\ ~Exited(p) /\ Tester(p)
      BY <2>1, SameScript DEF OnScript
  <2>3. pos[p] < Len(Script(p))
      BY <1>1, <2>1, SameScript
  <2>4. Call(p).op # "uninit"
      BY <1>1, <2>2, <2>3, NextCall DEF OnScript
  <2>5. CASE pos[p] = 1
    <3>1. Call(p) = [op |-> "init"]
        BY <2>2, <2>5, Scripts, BoardTestCalls DEF Call
    <3>2. Settled(p)
        BY DEF HandlesInv, Handles
    <3> QED
        BY <1>2, <2>1, <2>2, <3>1, <3>2 DEF Settled
  <2>6. CASE pos[p] # 1
    <3>1. pos[p] \in 2 .. Len(Script(p))
        BY <1>1, <2>3, <2>6
    <3> QED
        BY <1>2, <2>1, <2>2, <2>4, <3>1, SameScript DEF HasLines
  <2> QED
      BY <2>5, <2>6
<1>6. CASE CpldCall(p) \/ CpldStep(p)
  <2>1. UNCHANGED <<program, pos, failed, chip, bulk, call>>
      BY <1>6 DEF CpldCall, CpldStep, runVars, gpioVars, handleVars, callVars
  <2> QED
      BY <1>2, <2>1, SameScript DEF HasLines
<1>7. CASE CpldReturn(p) \/ SetTrigger(p) \/ Nothing(p)
  <2>1. /\ pos'[p] = pos[p] + 1 /\ (failed[p] => failed'[p])
        /\ UNCHANGED <<program, chip, bulk, call>>
      BY <1>7 DEF CpldReturn, SetTrigger, Nothing, Advance, gpioVars, handleVars,
                  callVars
  <2>2. ~Exited(p) /\ Impl(Call(p)) # "gpio"
      BY <1>7 DEF CpldReturn, SetTrigger, Nothing, Calls, OnScript
  <2>3. pos[p] # 1
    <3>1. CASE pos[p] = 1
      <4>1. Call(p) = [op |-> "init"]
          BY <2>1, <3>1, Scripts, BoardTestCalls, SameScript DEF Call
      <4> QED
          BY <2>2, <4>1 DEF Impl, DoneBy
    <3> QED
        BY <3>1
  <2>4. pos[p] \in 2 .. Len(Script(p))
      BY <1>1, <2>1, <2>3, SameScript
  <2> QED
      BY <1>2, <2>1, <2>4, SameScript DEF HasLines
<1> QED
    BY <1>3, <1>4, <1>5, <1>6, <1>7 DEF Step

-----------------------------------------------------------------------------
(* Once boardtest has come to its last writes, outputs only go off.        *)

\* Only boardtest asks for outputs.
LEMMA OneTester ==
    ASSUME program \in Together, NEW p \in Proc, NEW q \in Proc,
           Tester(p), Tester(q)
    PROVE  p = q
BY ProgramsAssumption DEF Tester

\* A call of a led changes no output, and one of boardtest no led.
LEMMA CpldEffect ==
    ASSUME board \in Board, program \in Together, NEW p \in Proc, OnScript(p),
           ioCall[p] # IO!NoCall, IO!Effect(ioCall[p])
    PROVE  /\ Tester(p) =>
                 /\ UNCHANGED leds
                 /\ OutputBy[board] = "cpld"
                 /\ Call(p).op = "outputWrite" =>
                       outputs' = IF Call(p).on THEN outputs \cup {Call(p).id}
                                  ELSE outputs \ {Call(p).id}
                 /\ Call(p).op = "outputWriteAll" => outputs' = 0 .. 7
                 /\ Call(p).op \notin {"outputWrite", "outputWriteAll"} =>
                       UNCHANGED outputs
           /\ ~Tester(p) =>
                 /\ UNCHANGED outputs
                 /\ leds' = IF program[p].led = "alarm"
                            THEN IF program[p].state = "on"
                                 THEN leds \cup {LED_RBOX_ALARM}
                                 ELSE leds \ {LED_RBOX_ALARM}
                            ELSE IF program[p].state = "on"
                                 THEN leds \ {LED_RBOX_ACTREADY}
                                 ELSE leds \cup {LED_RBOX_ACTREADY}
<1>1. /\ pos[p] \in 1 .. Len(Script(p)) + 1 /\ ~Exited(p)
      /\ Impl(Call(p)) = "cpld" /\ ioCall[p] = CpldRequest(Call(p))
    BY DEF OnScript
<1>2. CASE Tester(p)
  <2>1. /\ Call(p) \in Body /\ Call(p).op \notin {"inputRead", "inputReadAll"}
        /\ OutputBy[board] = "cpld"
      BY <1>1, <1>2, NextCall
  <2>2. CASE Call(p).op = "outputWrite"
    <3>1. ioCall[p] = [op |-> "gpioRboxWrite", id |-> Call(p).id, on |-> Call(p).on]
        BY <1>1, <2>2 DEF CpldRequest
    <3> QED
        BY <1>2, <2>1, <2>2, <3>1 DEF IO!Effect, IO!With
  <2>3. CASE Call(p).op = "outputWriteAll"
    <3>1. ioCall[p] = [op |-> "gpioRboxWriteAll", data |-> Call(p).data]
        BY <1>1, <2>3 DEF CpldRequest
    <3>2. Call(p).data = 0 .. 7
        BY <2>1, <2>3 DEF Body
    <3> QED
        BY <1>2, <2>1, <2>3, <3>1, <3>2 DEF IO!Effect
  <2>4. CASE Call(p).op \in {"outputRead", "outputReadAll"}
    <3>1. ioCall[p].op \in {"gpioRboxRead", "gpioRboxReadAll"}
        BY <1>1, <2>4 DEF CpldRequest
    <3> QED
        BY <1>2, <2>1, <2>4, <3>1 DEF IO!Effect
  <2> QED
      BY <2>1, <2>2, <2>3, <2>4 DEF Body
<1>3. CASE ~Tester(p)
  <2>1. Call(p) = [op |-> "led", led |-> program[p].led,
                   on |-> program[p].state = "on"]
      BY <1>1, <1>3, NextCall
  <2>2. ioCall[p] = CpldLed(program[p].led, program[p].state = "on")
      BY <1>1, <2>1 DEF CpldRequest
  <2>3. /\ ioCall[p].op = "ledRboxSet"
        /\ ioCall[p].led \in {LED_RBOX_ALARM, LED_RBOX_ACTREADY}
      BY <2>2 DEF CpldLed
  <2>4. UNCHANGED outputs /\ leds' = IO!With(leds, ioCall[p].led, ioCall[p].on)
      BY <2>3 DEF IO!Effect
  <2>5. CASE program[p].led = "alarm"
    <3>1. /\ ioCall[p].led = LED_RBOX_ALARM
          /\ ioCall[p].on = (program[p].state = "on")
        BY <2>2, <2>5 DEF CpldLed
    <3> QED
        BY <1>3, <2>4, <2>5, <3>1 DEF IO!With
  <2>6. CASE program[p].led # "alarm"
    <3>1. /\ ioCall[p].led = LED_RBOX_ACTREADY
          /\ ioCall[p].on = (program[p].state # "on")
        BY <2>2, <2>6 DEF CpldLed
    <3> QED
        BY <1>3, <2>4, <2>6, <3>1 DEF IO!With
  <2> QED
      BY <2>5, <2>6
<1> QED
    BY <1>2, <1>3

\* A write of one output to 0.
LEMMA WriteOff ==
    ASSUME GpioInv, TransferInv, board' = board, NEW p \in Proc, WriteBulk(p),
           AllHeld(p), call[p].op = "outputWrite", ~call[p].on
    PROVE  On(OutputOrder)' \subseteq On(OutputOrder)
<1> USE DEF GpioInv, GpioTypeOK
<1>1. /\ pc[p] = "write"
      /\ \A n \in Outputs : n # call[p].id => AsData(p, n)
      /\ call[p].id \notin data[p]
  <2>1. pc[p] = "write"
      BY DEF WriteBulk
  <2>2. Transferred(p)
      BY DEF TransferInv
  <2> QED
      BY <2>1, <2>2 DEF Transferred
<1>2. ASSUME NEW n \in Outputs, level'[OutputOrder[n + 1]] = 1
      PROVE  level[OutputOrder[n + 1]] = 1
  <2>1. IF OutputOrder[n + 1] \in LinesOf(at[p])
        THEN level'[OutputOrder[n + 1]] = IF n \in data[p] THEN 1 ELSE 0
        ELSE level'[OutputOrder[n + 1]] = level[OutputOrder[n + 1]]
      BY WrittenBulk
  <2> QED
      BY <1>1, <1>2, <2>1 DEF AsData
<1> QED
    BY <1>2, SameTables DEF On, Outputs

LEMMA OutputsFall ==
    ASSUME GpioInv, TransferInv, RunsTypeOK, board' = board,
           NEW p \in Proc, OnScript(p), HasLines(p), Step(p),
           NEW q \in Proc, Tester(q), ~failed[q], pos[q] > LastOn(board)
    PROVE  OutputsOn' \subseteq OutputsOn
<1> USE DEF GpioInv, GpioTypeOK, RunsTypeOK
<1>1. UNCHANGED <<outputs, level>> => OutputsOn' = OutputsOn
    BY SameTables DEF OutputsOn, On
<1>2. CASE GpioStep(p)
  <2>1. CallStep(p) /\ UNCHANGED <<outputs, program>>
      BY <1>2 DEF GpioStep, runVars, cpldVars
  <2>2. /\ pc[p] \notin {"idle", "aborted"} /\ ~Exited(p)
        /\ Impl(Call(p)) = "gpio" /\ call[p] = Call(p)
      BY <2>1, CallStepIs DEF OnScript
  <2>3. Tester(p) /\ p = q /\ InitBy[board] = "gpio"
      BY <2>2, NextCall, OneTester DEF OnScript
  <2>4. /\ LastOn(board) \in Nat /\ LastOn(board) >= 1
        /\ Len(Script(p)) \in Nat /\ pos[p] \in 1 .. Len(Script(p))
      BY <2>2, Scripts, BoardTestCalls, NextCall DEF OnScript
  <2>5. Call(p).op # "init" /\ ~TurnsOn(Call(p))
      BY <2>2, <2>3, <2>4, NextCall DEF OnScript
  <2>6. CASE WriteBulk(p)
    <3>1. call[p].op = "outputWrite" /\ ~call[p].on
      <4>1. CallOK(p) /\ pc[p] = "write"
          BY <2>6 DEF HandlesInv, Handles, WriteBulk
      <4> QED
          BY <2>2, <2>5, <4>1 DEF CallOK, TurnsOn
    <3>2. AllHeld(p)
      <4>1. pos[p] \in 2 .. Len(Script(p))
          BY <2>3, <2>4
      <4> QED
          BY <2>3, <3>1, <4>1 DEF HasLines
    <3> QED
        BY <2>1, <2>6, <3>1, <3>2, WriteOff DEF OutputsOn
  <2>7. CASE ~WriteBulk(p)
    <3>1. CallOK(p)
        BY DEF HandlesInv, Handles
    <3>2. ~RequestBulk(p)
        BY <2>2, <2>5, <3>1 DEF RequestBulk, CallOK
    <3>3. UNCHANGED level
        BY <2>1, <2>7, <3>2 DEF CallStep, OpenChip, RequestFails, FreeBulk, CloseChip,
             CloseNoChip, ReadBulk, TransferFails, UseStale, Abort, kernelVars
    <3> QED
        BY <1>1, <2>1, <3>3
  <2> QED
      BY <2>6, <2>7
<1>3. CASE CpldStep(p)
  <2>1. /\ UNCHANGED level /\ ioCall[p] # IO!NoCall
        /\ IO!Effect(ioCall[p]) \/ UNCHANGED outputs
      BY <1>3 DEF CpldStep, IO!Perform, IO!Fail, IO!InProgress, gpioVars, kernelVars,
                  IO!boardVars
  <2>2. CASE UNCHANGED outputs
      BY <1>1, <2>1, <2>2
  <2>3. CASE IO!Effect(ioCall[p]) /\ Tester(p)
    <3>1. p = q /\ ~Exited(p)
        BY <2>1, <2>3, OneTester DEF OnScript
    <3>2. ~TurnsOn(Call(p))
        BY <2>3, <3>1, NextCall DEF OnScript
    <3>3. outputs' \subseteq outputs /\ OutputBy[board] = "cpld"
        BY <2>1, <2>3, <3>2, CpldEffect DEF TurnsOn
    <3> QED
        BY <3>3 DEF OutputsOn
  <2>4. CASE IO!Effect(ioCall[p]) /\ ~Tester(p)
    <3>1. UNCHANGED outputs
        BY <2>1, <2>4, CpldEffect
    <3> QED
        BY <1>1, <2>1, <3>1
  <2> QED
      BY <2>1, <2>2, <2>3, <2>4
<1>4. CASE GpioCall(p)
    BY <1>1, <1>4, BeginIs DEF cpldVars
<1>5. CASE GpioReturn(p) \/ CpldCall(p) \/ CpldReturn(p) \/ SetTrigger(p) \/ Nothing(p)
  <2>1. UNCHANGED <<outputs, level>>
      BY <1>5 DEF GpioReturn, Return, CpldCall, CpldReturn, SetTrigger, Nothing,
           IO!Invoke, IO!Leave, IO!boardVars, kernelVars, gpioVars, cpldVars
  <2> QED
      BY <1>1, <2>1
<1> QED
    BY <1>2, <1>3, <1>4, <1>5 DEF Step

\* What the call that ends has turned off.
LEMMA OwnOff ==
    ASSUME GpioInv, TransferInv, RunsTypeOK, RunsTypeOK', board' = board,
           NEW p \in Proc, OnScript(p), OnScript(p)', HasLines(p), StayOff(p), Step(p),
           Tester(p), ~failed'[p],
           NEW k \in LastOn(board) + 1 .. Len(Script(p)),
           Script(p)[k].op = "outputWrite",
           k < pos'[p] \/ (k = pos'[p] /\ Answered(p)')
    PROVE  Script(p)[k].id \notin OutputsOn'
<1> USE DEF GpioInv, GpioTypeOK, RunsTypeOK
<1>1. /\ LastOn(board) \in Nat /\ LastOn(board) >= 1
      /\ Len(Script(p)) \in Nat /\ pos[p] \in 1 .. Len(Script(p)) + 1
      /\ k \in 1 .. Len(Script(p)) /\ k >= 2
    BY Scripts, BoardTestCalls DEF OnScript
<1>2. ~failed[p]
  <2>1. failed[p] => failed'[p]
      BY DEF Step, GpioCall, GpioStep, GpioReturn, CpldCall, CpldStep, CpldReturn,
           SetTrigger, Nothing, Advance, runVars
  <2> QED
      BY <2>1
<1>3. CASE k < pos[p] \/ (k = pos[p] /\ Answered(p))
  <2>1. Script(p)[k].id \notin OutputsOn
      BY <1>2, <1>3 DEF StayOff
  <2>2. pos[p] > LastOn(board)
      BY <1>1, <1>3
  <2> QED
      BY <1>2, <2>1, <2>2, OutputsFall
<1>4. CASE k = pos[p] /\ ~Answered(p)
  <2>1. /\ ~Exited(p) /\ Call(p) = Script(p)[k] /\ Call(p).op = "outputWrite"
        /\ pos[p] > LastOn(board) /\ ~Call(p).on
    <3>1. ~Exited(p) /\ Call(p) = Script(p)[k] /\ pos[p] > LastOn(board)
        BY <1>1, <1>4 DEF Exited, Call
    <3>2. ~TurnsOn(Call(p))
        BY <3>1, NextCall DEF OnScript
    <3> QED
        BY <3>1, <3>2 DEF TurnsOn
  <2>2. Impl(Call(p)) = OutputBy[board]
      BY <2>1 DEF Impl, DoneBy
  <2>3. Impl(Call(p)) \in {"gpio", "cpld", "none"}
      BY <2>2, Scripts, Counts
  <2>4. CASE GpioReturn(p)
    <3>1. /\ pc[p] = "done" /\ rc[p] = 0 /\ UNCHANGED level
          /\ Impl(Call(p)) = "gpio" /\ call[p] = Call(p)
        BY <2>4 DEF GpioReturn, Return, Advance, kernelVars, OnScript
    <3>2. InitBy[board] = "gpio"
        BY <2>1, <3>1, NextCall DEF OnScript
    <3>3. pos[p] \in 2 .. Len(Script(p))
        BY <1>1, <1>4
    <3>4. AllHeld(p)
        BY <1>2, <2>1, <3>1, <3>2, <3>3 DEF HasLines
    <3>5. WriteIsDone(p)
        BY <3>1, <3>4 DEF TransferInv, Transferred
    <3>6. Call(p).id \notin On(OutputOrder)
        BY <2>1, <3>1, <3>5 DEF WriteIsDone
    <3> QED
        BY <2>1, <2>2, <3>1, <3>6, SameTables DEF OutputsOn, On
  <2>5. CASE CpldStep(p)
    <3>1. /\ ioCall[p] # IO!NoCall /\ UNCHANGED pos
          /\ IO!Perform(p) \/ IO!Fail(p)
        BY <2>5 DEF CpldStep, IO!Perform, IO!Fail, IO!InProgress, runVars
    <3>2. Answered(p)'
        BY <1>4, <3>1, <1>1
    <3>3. IO!Perform(p)
        BY <3>1, <3>2 DEF IO!Fail, IO!Answer, Answered
    <3>4. /\ OutputBy[board] = "cpld"
          /\ outputs' = outputs \ {Call(p).id}
        BY <2>1, <3>1, <3>3, CpldEffect DEF IO!Perform
    <3> QED
        BY <2>1, <3>4 DEF OutputsOn
  <2>6. CASE CpldReturn(p)
    <3>1. answer[p] \notin {IO!Pending, IO!Error}
        BY <2>6 DEF CpldReturn, Advance
    <3> QED
        BY <1>4, <3>1 DEF Answered
  <2>7. CASE GpioCall(p) \/ GpioStep(p) \/ CpldCall(p)
    <3>1. UNCHANGED pos
        BY <2>7 DEF GpioCall, GpioStep, CpldCall, runVars
    <3>2. Answered(p)'
        BY <1>1, <1>4, <3>1
    <3>3. CASE GpioCall(p) \/ GpioStep(p)
        BY <1>4, <3>2, <3>3 DEF GpioCall, GpioStep, cpldVars, Answered
    <3>4. CASE CpldCall(p)
        BY <3>2, <3>4 DEF CpldCall, IO!Invoke, IO!Answer, Answered
    <3> QED
        BY <2>7, <3>3, <3>4
  <2>8. CASE SetTrigger(p) \/ Nothing(p)
      BY <2>3, <2>8 DEF SetTrigger, Nothing, Calls
  <2> QED
      BY <2>4, <2>5, <2>6, <2>7, <2>8 DEF Step
<1>5. CASE k > pos[p]
  <2>1. /\ pos'[p] = pos[p] \/ pos'[p] = pos[p] + 1
        /\ pos'[p] # pos[p] => ~Answered(p)'
    <3>1. CASE GpioCall(p) \/ GpioStep(p) \/ CpldCall(p) \/ CpldStep(p)
        BY <3>1 DEF GpioCall, GpioStep, CpldCall, CpldStep, runVars
    <3>2. CASE GpioReturn(p) \/ SetTrigger(p) \/ Nothing(p)
      <4>1. pos'[p] = pos[p] + 1 /\ answer' = answer
          BY <3>2 DEF GpioReturn, SetTrigger, Nothing, Advance, cpldVars
      <4>2. ioCall[p] = IO!NoCall
          BY <3>2 DEF GpioReturn, Return, SetTrigger, Nothing, Calls, OnScript
      <4> QED
          BY <4>1, <4>2 DEF OnScript, Answered
    <3>3. CASE CpldReturn(p)
        BY <3>3 DEF CpldReturn, IO!Leave, IO!Answer, Advance, Answered
    <3> QED
        BY <3>1, <3>2, <3>3 DEF Step
  <2> QED
      BY <1>1, <1>5, <2>1
<1> QED
    BY <1>1, <1>3, <1>4, <1>5

-----------------------------------------------------------------------------
(* Leds: what changes one is a setled for it.                              *)

\* A led that setled sets on this board.
IsSet(led) == led \in Leds /\ LedBy[board][led] \in {"cpld", "sysfs"}

LEMMA SysfsShows ==
    ASSUME RunsTypeOK, board \in Board, board' = board, NEW p \in Proc, OnScript(p),
           Calls(p, "sysfs"),
           NEW led, led = Call(p).led
    PROVE  /\ ~Tester(p) /\ led = program[p].led
           /\ LedBy[board][led] = "sysfs"
           /\ trigger' = [trigger EXCEPT ![led] = Trigger(led, Call(p).on)] =>
                 Shown(led)' = Obtained(program[p])
<1> USE DEF RunsTypeOK
<1>1. ~Exited(p) /\ Impl(Call(p)) = "sysfs"
    BY DEF Calls
<1>2. ~Tester(p) /\ Script(p) # <<>>
    BY <1>1, NextCall DEF OnScript
<1>3. /\ led = program[p].led
      /\ Call(p).on = (program[p].state = "on")
      /\ LedBy[board][led] = "sysfs"
    BY <1>1, <1>2, NextCall DEF OnScript
<1>4. led \in {"status", "wifi"} /\ program[p].state \in {"on", "off"}
    BY <1>2, <1>3, Scripts, Counts DEF Leds
<1>5. ASSUME trigger' = [trigger EXCEPT ![led] = Trigger(led, Call(p).on)]
      PROVE  Shown(led)' = Obtained(program[p])
  <2>1. /\ trigger'[led] = Trigger(led, Call(p).on)
        /\ Shown(led)' = ShownBySysfs(trigger'[led])
      BY <1>3, <1>4, <1>5 DEF Shown, ShownBySysfs, Leds
  <2>2. CASE program[p].state = "on"
    <3>1. Call(p).on = TRUE
        BY <1>3, <2>2
    <3>2. trigger'[led] \in {"phy0tpt", "default-on"}
        BY <1>4, <2>1, <3>1 DEF Trigger
    <3>3. Obtained(program[p]) = "on"
        BY <2>2 DEF Obtained, BlinksInstead, Asked
    <3> QED
        BY <2>1, <3>2, <3>3 DEF ShownBySysfs
  <2>3. CASE program[p].state = "off"
    <3>1. Call(p).on = FALSE
        BY <1>3, <2>3
    <3>2. trigger'[led] = IF led = "wifi" THEN "none" ELSE "heartbeat"
        BY <1>4, <2>1, <3>1 DEF Trigger
    <3>3. Obtained(program[p]) = IF led = "wifi" THEN "off" ELSE "blinks"
        BY <1>3, <1>4, <2>3 DEF Obtained, BlinksInstead, Asked
    <3> QED
        BY <2>1, <3>2, <3>3 DEF ShownBySysfs
  <2> QED
      BY <1>4, <2>2, <2>3
<1> QED
    BY <1>2, <1>3, <1>5

LEMMA CpldShows ==
    ASSUME RunsTypeOK, board \in Board, board' = board, NEW p \in Proc, OnScript(p),
           ~Tester(p), ioCall[p] # IO!NoCall, IO!Effect(ioCall[p]), UNCHANGED trigger,
           NEW led, IsSet(led)
    PROVE  Shown(led)' = IF led = program[p].led THEN Obtained(program[p])
                                                    ELSE Shown(led)
<1> USE DEF RunsTypeOK
<1>1. ~Exited(p) /\ Impl(Call(p)) = "cpld"
    BY DEF OnScript
<1>2. Script(p) # <<>> /\ LedBy[board][program[p].led] = "cpld"
    BY <1>1, NextCall DEF OnScript
<1>3. /\ program[p].led \in {"alarm", "status"} /\ program[p].state \in {"on", "off"}
      /\ led \in {"alarm", "status", "wifi"}
      /\ LedBy[board][led] = "sysfs" => led # "alarm" /\ led # program[p].led
      /\ LedBy[board][led] # "sysfs" => led \in {"alarm", "status"}
    BY <1>2, Scripts, Counts DEF Leds, IsSet
<1>4. leds' = IF program[p].led = "alarm"
              THEN IF program[p].state = "on" THEN leds \cup {LED_RBOX_ALARM}
                                              ELSE leds \ {LED_RBOX_ALARM}
              ELSE IF program[p].state = "on" THEN leds \ {LED_RBOX_ACTREADY}
                                              ELSE leds \cup {LED_RBOX_ACTREADY}
    BY CpldEffect
<1>5. CASE LedBy[board][led] = "sysfs"
    BY <1>3, <1>5 DEF Shown
<1>6. CASE LedBy[board][led] # "sysfs" /\ program[p].led = "alarm"
  <2>1. /\ LED_RBOX_ACTREADY \in leds' <=> LED_RBOX_ACTREADY \in leds
        /\ LED_RBOX_ALARM \in leds' <=> program[p].state = "on"
      BY <1>4, <1>6 DEF LED_RBOX_ACTREADY, LED_RBOX_ALARM
  <2>2. Obtained(program[p]) = IF program[p].state = "on" THEN "on" ELSE "off"
      BY <1>3, <1>6 DEF Obtained, BlinksInstead, Asked
  <2> QED
      BY <1>3, <1>6, <2>1, <2>2 DEF Shown, ShownByCpld
<1>7. CASE LedBy[board][led] # "sysfs" /\ program[p].led = "status"
  <2>1. /\ LED_RBOX_ALARM \in leds' <=> LED_RBOX_ALARM \in leds
        /\ LED_RBOX_ACTREADY \in leds' <=> program[p].state # "on"
      BY <1>4, <1>7 DEF LED_RBOX_ACTREADY, LED_RBOX_ALARM
  <2>2. Obtained(program[p]) = IF program[p].state = "on" THEN "on" ELSE "blinks"
      BY <1>3, <1>7 DEF Obtained, BlinksInstead, Asked
  <2> QED
      BY <1>3, <1>7, <2>1, <2>2 DEF Shown, ShownByCpld
<1> QED
    BY <1>3, <1>5, <1>6, <1>7

LEMMA LedChange ==
    ASSUME RunsTypeOK, board \in Board, board' = board,
           NEW p \in Proc, OnScript(p), Step(p), NEW led, IsSet(led)
    PROVE  \/ Shown(led)' = Shown(led)
           \/ /\ ~Tester(p) /\ program[p].led = led
              /\ Shown(led)' = Obtained(program[p])
<1> USE DEF RunsTypeOK
<1>1. UNCHANGED <<leds, trigger>> => Shown(led)' = Shown(led)
    BY DEF Shown, ShownByCpld
<1>2. CASE SetTrigger(p)
  <2> DEFINE m == Call(p).led
             written == [trigger EXCEPT ![m] = Trigger(m, Call(p).on)]
  <2>1. /\ Calls(p, "sysfs") /\ UNCHANGED leds
        /\ trigger' = trigger \/ trigger' = written
      BY <1>2 DEF SetTrigger, cpldVars
  <2>2. CASE trigger' = written /\ m # led
    <3>1. trigger'[led] = trigger[led]
        BY <2>2
    <3> QED
        BY <2>1, <3>1 DEF Shown, ShownByCpld
  <2>3. CASE trigger' = written /\ m = led
      BY <2>1, <2>3, SysfsShows
  <2> QED
      BY <1>1, <2>1, <2>2, <2>3
<1>3. CASE CpldStep(p)
  <2>1. /\ UNCHANGED trigger /\ ioCall[p] # IO!NoCall
        /\ IO!Effect(ioCall[p]) \/ UNCHANGED leds
      BY <1>3 DEF CpldStep, IO!Perform, IO!Fail, IO!InProgress, IO!boardVars
  <2>2. CASE IO!Effect(ioCall[p]) /\ Tester(p)
      BY <1>1, <2>1, <2>2, CpldEffect
  <2>3. CASE IO!Effect(ioCall[p]) /\ ~Tester(p)
      BY <2>1, <2>3, CpldShows
  <2> QED
      BY <1>1, <2>1, <2>2, <2>3
<1>4. CASE \/ GpioCall(p) \/ GpioStep(p) \/ GpioReturn(p) \/ CpldCall(p)
           \/ CpldReturn(p) \/ Nothing(p)
  <2>1. UNCHANGED <<leds, trigger>>
      BY <1>4 DEF GpioCall, GpioStep, GpioReturn, CpldCall, CpldReturn, Nothing,
           IO!Invoke, IO!Leave, IO!boardVars, cpldVars
  <2> QED
      BY <1>1, <2>1
<1> QED
    BY <1>2, <1>3, <1>4 DEF Step

\* A led that is as some setled asked remains so.
LEMMA AsAskedStays ==
    ASSUME RunsTypeOK, board \in Board, board' = board, program' = program,
           NEW p \in Proc, OnScript(p), Step(p), NEW led, IsSet(led), AsAsked(led)
    PROVE  AsAsked(led)'
<1>1. CASE Shown(led)' = Shown(led)
    BY <1>1 DEF AsAsked, Obtained, BlinksInstead, Asked
<1>2. CASE /\ ~Tester(p) /\ program[p].led = led
           /\ Shown(led)' = Obtained(program[p])
  <2>1. program[p].name = "setled"
      BY <1>2, Scripts DEF RunsTypeOK
  <2> QED
      BY <1>2, <2>1 DEF AsAsked, Obtained, BlinksInstead, Asked
<1> QED
    BY <1>1, <1>2, LedChange

LEMMA LedIsSetStep ==
    ASSUME RunsTypeOK, RunsTypeOK', board \in Board, board' = board,
           program' = program, NEW p \in Proc, OnScript(p), Step(p),
           NEW q \in Proc, OnScript(q), OnScript(q)', LedIsSet(q),
           q # p => /\ pos'[q] = pos[q] /\ failed'[q] = failed[q]
                    /\ answer'[q] = answer[q]
    PROVE  LedIsSet(q)'
<1> USE DEF RunsTypeOK
<1> DEFINE led == program[q].led
<1>1. failed[q] => failed'[q]
    BY DEF Step, GpioCall, GpioStep, GpioReturn, CpldCall, CpldStep, CpldReturn,
         SetTrigger, Nothing, Advance, runVars
<1> SUFFICES ASSUME ~Tester(q), Script(q) # <<>>, ~failed[q], ~failed'[q],
                    Exited(q)' \/ Answered(q)'
             PROVE  AsAsked(led)'
    BY <1>1, SameScript DEF LedIsSet, AsAsked
<1>2. /\ IsSet(led) /\ program[q].name = "setled" /\ program'[q] = program[q]
      /\ Len(Script(q)) = 1 /\ pos[q] \in 1 .. 2
  <2>1. /\ IsSet(led) /\ program[q].name = "setled"
        /\ Script(q) = <<[op |-> "led", led |-> led, on |-> program[q].state = "on"]>>
      BY Scripts DEF IsSet
  <2>2. Len(Script(q)) = 1
      BY <2>1
  <2> QED
      BY <2>1, <2>2 DEF OnScript
<1>3. CASE Exited(q) \/ Answered(q)
  <2>1. AsAsked(led)
      BY <1>3 DEF LedIsSet
  <2> QED
      BY <1>2, <2>1, AsAskedStays
<1>4. CASE ~Exited(q) /\ ~Answered(q)
  <2>1. p = q
      BY <1>4, SameScript DEF Answered
  <2>2. ASSUME Shown(led)' = Obtained(program[q])
        PROVE  AsAsked(led)'
      BY <1>2, <2>2 DEF AsAsked, Obtained, BlinksInstead, Asked
  <2>3. Impl(Call(q)) \in {"cpld", "sysfs"}
      BY <1>4, NextCall DEF OnScript
  <2>4. CASE SetTrigger(p)
    <3>1. PICK m : m = Call(p).led
        OBVIOUS
    <3>2. /\ Calls(p, "sysfs")
          /\ trigger' = [trigger EXCEPT ![m] = Trigger(m, Call(p).on)]
        BY <2>1, <2>4, <3>1 DEF SetTrigger, Advance
    <3>3. m = program[p].led /\ Shown(m)' = Obtained(program[p])
        BY <3>1, <3>2, SysfsShows
    <3> QED
        BY <1>2, <2>1, <3>3 DEF AsAsked, Obtained, BlinksInstead, Asked
  <2>5. CASE CpldStep(p)
    <3>1. /\ ioCall[p] # IO!NoCall /\ UNCHANGED <<pos, trigger>>
          /\ IO!Perform(p) \/ IO!Fail(p)
        BY <2>5 DEF CpldStep, IO!Perform, IO!Fail, IO!InProgress, runVars
    <3>2. Answered(q)'
        BY <1>4, <3>1, SameScript
    <3>3. IO!Effect(ioCall[p])
        BY <2>1, <3>1, <3>2 DEF IO!Perform, IO!Fail, IO!Answer, Answered
    <3> QED
        BY <1>2, <2>1, <2>2, <3>1, <3>3, CpldShows
  <2>6. CASE CpldReturn(p)
      BY <1>4, <2>1, <2>6 DEF CpldReturn, Advance, Answered
  <2>7. CASE CpldCall(p)
    <3>1. UNCHANGED pos
        BY <2>7 DEF CpldCall, runVars
    <3>2. Answered(q)'
        BY <1>4, <3>1, SameScript
    <3> QED
        BY <2>1, <2>7, <3>2 DEF CpldCall, IO!Invoke, IO!Answer, Answered
  <2>8. CASE GpioCall(p) \/ Nothing(p)
      BY <2>1, <2>3, <2>8 DEF GpioCall, Nothing, Calls
  <2>9. CASE GpioStep(p)
    <3>1. UNCHANGED <<pos, answer>>
        BY <2>9 DEF GpioStep, runVars, cpldVars
    <3> QED
        BY <1>4, <3>1, SameScript DEF Answered
  <2>10. CASE GpioReturn(p)
      BY <2>1, <2>3, <2>10 DEF GpioReturn, Return, OnScript
  <2> QED
      BY <2>4, <2>5, <2>6, <2>7, <2>8, <2>9, <2>10 DEF Step
<1> QED
    BY <1>3, <1>4

-----------------------------------------------------------------------------
(* The programs and the theorems.                                          *)

LEMMA RunsInitially ==
    ASSUME ProgramsInit
    PROVE  RunsInv
<1>1. board \in Board /\ program \in Together
    BY DEF ProgramsInit, Init
<1>2. RunsTypeOK
  <2>1. failed \in [Proc -> BOOLEAN]
      BY DEF ProgramsInit
  <2>2. OutputBy[board] = "cpld" => outputs \subseteq 0 .. OutputCount[board] - 1
      BY DEF ProgramsInit
  <2> QED
      BY <1>1, <2>1, <2>2 DEF ProgramsInit, RunsTypeOK
<1>3. ASSUME NEW p \in Proc
      PROVE  OnScript(p) /\ HasLines(p) /\ StayOff(p) /\ LedIsSet(p)
  <2>1. /\ pos[p] = 1 /\ pc[p] = "idle" /\ ~Answered(p)
        /\ ioCall[p] = IO!NoCall /\ answer[p] = IO!Pending
        /\ failed[p] = (Script(p) = <<>>)
      BY DEF ProgramsInit, Init, Answered
  <2>2. Len(Script(p)) \in Nat
      BY <1>1, Scripts
  <2>3. OnScript(p)
      BY <2>1, <2>2 DEF OnScript
  <2>4. HasLines(p)
      BY <2>1, <2>2 DEF HasLines
  <2>5. StayOff(p)
    <3>1. ASSUME Tester(p)
          PROVE  LastOn(board) \in Nat /\ LastOn(board) >= 1
        BY <1>1, Scripts, BoardTestCalls
    <3> QED
        BY <2>1, <2>2, <3>1 DEF StayOff
  <2>6. LedIsSet(p)
    <3>1. CASE Script(p) = <<>>
        BY <2>1, <3>1 DEF LedIsSet
    <3>2. CASE Script(p) # <<>> /\ ~Tester(p)
      <4>1. Len(Script(p)) = 1
        <5>1. Script(p) = <<[op |-> "led", led |-> program[p].led,
                             on |-> program[p].state = "on"]>>
            BY <1>1, <3>2, Scripts
        <5> QED
            BY <5>1
      <4> QED
          BY <2>1, <3>2, <4>1 DEF LedIsSet, Exited
    <3> QED
        BY <3>1, <3>2 DEF LedIsSet
  <2> QED
      BY <2>3, <2>4, <2>5, <2>6
<1> QED
    BY <1>2, <1>3 DEF RunsInv

LEMMA RunsTypeStep ==
    ASSUME RunsInv, board \in Board, board' = board, NEW p \in Proc, Step(p)
    PROVE  RunsTypeOK' /\ program' = program
<1> USE DEF RunsTypeOK
<1>1. RunsTypeOK /\ OnScript(p)
    BY DEF RunsInv
<1>2. /\ program' = program /\ DOMAIN pos' = Proc /\ failed' \in [Proc -> BOOLEAN]
      /\ DOMAIN ioCall' = Proc /\ DOMAIN answer' = Proc /\ DOMAIN trigger' = Leds
  <2>1. CASE GpioCall(p) \/ GpioStep(p)
      BY <1>1, <2>1 DEF GpioCall, GpioStep, runVars, cpldVars
  <2>2. CASE GpioReturn(p)
      BY <1>1, <2>2 DEF GpioReturn, Advance, cpldVars
  <2>3. CASE CpldCall(p)
      BY <1>1, <2>3 DEF CpldCall, IO!Invoke, IO!Answer, runVars
  <2>4. CASE CpldStep(p)
      BY <1>1, <2>4 DEF CpldStep, IO!Perform, IO!Fail, IO!Answer, runVars
  <2>5. CASE CpldReturn(p)
      BY <1>1, <2>5 DEF CpldReturn, IO!Leave, IO!Answer, Advance
  <2>6. CASE SetTrigger(p)
      BY <1>1, <2>6 DEF SetTrigger, Advance, cpldVars
  <2>7. CASE Nothing(p)
      BY <1>1, <2>7 DEF Nothing, Advance, cpldVars
  <2> QED
      BY <2>1, <2>2, <2>3, <2>4, <2>5, <2>6, <2>7 DEF Step
<1>3. OutputBy[board] = "cpld" => outputs' \subseteq 0 .. OutputCount[board] - 1
  <2>1. OutputBy[board] = "cpld" =>
             OutputCount[board] = 8 /\ outputs \subseteq 0 .. OutputCount[board] - 1
      BY <1>1, Scripts, Counts
  <2>2. CASE CpldStep(p)
    <3>1. /\ ioCall[p] # IO!NoCall /\ answer[p] = IO!Pending
          /\ IO!Effect(ioCall[p]) \/ UNCHANGED outputs
        BY <2>2 DEF CpldStep, IO!Perform, IO!Fail, IO!InProgress, IO!boardVars
    <3>2. ~Tester(p) => UNCHANGED outputs
        BY <1>1, <3>1, CpldEffect
    <3>3. CASE Tester(p) /\ IO!Effect(ioCall[p]) /\ Call(p).op = "outputWrite"
      <4>1. Call(p).id \in 0 .. 7
        <5>1. ioCall[p] = [op |-> "gpioRboxWrite", id |-> Call(p).id, on |-> Call(p).on]
            BY <1>1, <3>1, <3>3 DEF OnScript, CpldRequest
        <5>2. IO!Valid(ioCall[p])
            BY <1>1, <3>1 DEF OnScript
        <5> QED
            BY <5>1, <5>2 DEF IO!Valid, IO!IdOps, IO!Bit
      <4> QED
          BY <1>1, <2>1, <3>1, <3>3, <4>1, CpldEffect
    <3>4. CASE Tester(p) /\ IO!Effect(ioCall[p]) /\ Call(p).op # "outputWrite"
      <4>1. outputs' = 0 .. 7 \/ UNCHANGED outputs
          BY <1>1, <3>1, <3>4, CpldEffect
      <4> QED
          BY <2>1, <4>1
    <3> QED
        BY <2>1, <3>1, <3>2, <3>3, <3>4
  <2>3. CASE ~CpldStep(p)
    <3>1. UNCHANGED outputs
        BY <2>3 DEF Step, GpioCall, GpioStep, GpioReturn, CpldCall, CpldReturn,
             SetTrigger, Nothing, IO!Invoke, IO!Leave, IO!boardVars, cpldVars
    <3> QED
        BY <2>1, <3>1
  <2> QED
      BY <2>2, <2>3
<1> QED
    BY <1>1, <1>2, <1>3

LEMMA RunsStep ==
    ASSUME GpioInv, GpioInv', TransferInv, RunsInv, [ProgramsNext]_vars
    PROVE  RunsInv'
<1> USE DEF GpioInv, GpioTypeOK
<1>1. CASE UNCHANGED vars
  <2>1. /\ board' = board /\ program' = program
        /\ UNCHANGED <<pos, failed, outputs, leds, ioCall, answer, trigger>>
        /\ UNCHANGED <<level, chip, bulk, pc, call>>
      BY <1>1 DEF vars, runVars, cpldVars, gpioVars, kernelVars, handleVars, callVars
  <2>2. RunsTypeOK'
      BY <2>1 DEF RunsInv, RunsTypeOK
  <2>3. ASSUME NEW p \in Proc
        PROVE  (OnScript(p) /\ HasLines(p) /\ StayOff(p) /\ LedIsSet(p))'
    <3>1. OnScript(p) /\ HasLines(p) /\ StayOff(p) /\ LedIsSet(p)
        BY DEF RunsInv
    <3>2. AllHeld(p)' <=> AllHeld(p)
        BY <2>1, SameTables DEF AllHeld, Held
    <3>3. OutputsOn' = OutputsOn
        BY <2>1, SameTables DEF OutputsOn, On
    <3>4. AsAsked(program[p].led)' <=> AsAsked(program[p].led)
        BY <2>1 DEF AsAsked, Shown, ShownByCpld, Obtained, BlinksInstead, Asked
    <3>5. Answered(p)' <=> Answered(p)
        BY <2>1 DEF Answered
    <3>6. OnScript(p)'
        BY <2>1, <3>1, SameScript DEF OnScript
    <3>7. HasLines(p)'
        BY <2>1, <3>1, <3>2, SameScript DEF HasLines
    <3>8. StayOff(p)'
        BY <2>1, <3>1, <3>3, <3>5, SameScript DEF StayOff
    <3>9. LedIsSet(p)'
        BY <2>1, <3>1, <3>4, <3>5, SameScript DEF LedIsSet
    <3> QED
        BY <3>6, <3>7, <3>8, <3>9
  <2> QED
      BY <2>2, <2>3 DEF RunsInv
<1>2. CASE ProgramsNext
  <2>1. PICK p \in Proc : Step(p)
      BY <1>2 DEF ProgramsNext
  <2>2. /\ board' = board /\ board \in Board
        /\ RunsTypeOK /\ OnScript(p) /\ HasLines(p)
      BY <1>2 DEF ProgramsNext, RunsInv
  <2>3. RunsTypeOK' /\ program' = program
      BY <2>1, <2>2, RunsTypeStep
  <2>4. OnScript(p)' /\ HasLines(p)'
      BY <2>1, <2>2, OnScriptStep, HasLinesStep
  <2>5. ASSUME NEW q \in Proc \ {p}
        PROVE  /\ pos'[q] = pos[q] /\ failed'[q] = failed[q]
               /\ ioCall'[q] = ioCall[q] /\ answer'[q] = answer[q]
               /\ pc'[q] = pc[q] /\ call'[q] = call[q]
               /\ AllHeld(q)' <=> AllHeld(q)
      BY <2>1, <2>2, OthersRun
  <2>6. ASSUME NEW q \in Proc
        PROVE  OnScript(q)' /\ HasLines(q)'
    <3>1. CASE q # p
      <4>1. OnScript(q) /\ HasLines(q)
          BY DEF RunsInv
      <4>2. OnScript(q)'
          BY <2>2, <2>3, <2>5, <3>1, <4>1, SameScript DEF OnScript
      <4>3. HasLines(q)'
          BY <2>2, <2>3, <2>5, <3>1, <4>1, SameScript DEF HasLines
      <4> QED
          BY <4>2, <4>3
    <3> QED
        BY <2>4, <3>1
  <2>7. ASSUME NEW q \in Proc
        PROVE  StayOff(q)'
    <3>1. StayOff(q)
        BY DEF RunsInv
    <3>2. CASE q # p
      <4>1. /\ Script(q)' = Script(q) /\ (Tester(q)' <=> Tester(q))
            /\ pos'[q] = pos[q] /\ failed'[q] = failed[q]
            /\ (Answered(q)' <=> Answered(q))
          BY <2>2, <2>3, <2>5, <3>2, SameScript DEF Answered
      <4> SUFFICES ASSUME Tester(q), ~failed[q],
                          NEW k \in LastOn(board) + 1 .. Len(Script(q)),
                          Script(q)[k].op = "outputWrite",
                          k < pos[q] \/ (k = pos[q] /\ Answered(q))
                   PROVE  Script(q)[k].id \notin OutputsOn'
          BY <2>2, <4>1 DEF StayOff
      <4>2. Script(q)[k].id \notin OutputsOn
          BY <3>1 DEF StayOff
      <4>3. pos[q] > LastOn(board)
        <5>1. LastOn(board) \in Nat
            BY <2>2, Scripts, BoardTestCalls DEF RunsTypeOK
        <5>2. pos[q] \in 1 .. Len(Script(q)) + 1 /\ Len(Script(q)) \in Nat
            BY <2>2, Scripts DEF RunsInv, OnScript, RunsTypeOK
        <5> QED
            BY <5>1, <5>2
      <4> QED
          BY <2>1, <2>2, <4>2, <4>3, OutputsFall
    <3>3. CASE q = p
      <4> SUFFICES ASSUME Tester(p), ~failed'[p],
                          NEW k \in LastOn(board) + 1 .. Len(Script(p)),
                          Script(p)[k].op = "outputWrite",
                          k < pos'[p] \/ (k = pos'[p] /\ Answered(p)')
                   PROVE  Script(p)[k].id \notin OutputsOn'
          BY <2>2, <2>3, <3>3, SameScript DEF StayOff
      <4> QED
          BY <2>1, <2>2, <2>3, <2>4, <3>1, <3>3, OwnOff
    <3> QED
        BY <3>2, <3>3
  <2>8. ASSUME NEW q \in Proc
        PROVE  LedIsSet(q)'
    <3>1. OnScript(q) /\ LedIsSet(q) /\ OnScript(q)'
        BY <2>6 DEF RunsInv
    <3> QED
        BY <2>1, <2>2, <2>3, <2>5, <3>1, LedIsSetStep
  <2> QED
      BY <2>3, <2>6, <2>7, <2>8 DEF RunsInv
<1> QED
    BY <1>1, <1>2

(***************************************************************************)
(* What the programs make of the gpio lines is a behaviour of Gpio: each   *)
(* call of gpio.c they make is one that Gpio allows, so that the theorems  *)
(* above hold of them (libyocto.c 60-183, boardtest.c 615-655).            *)
(***************************************************************************)
THEOREM GpioImplemented ==
    ProgramsSpec => Spec
<1>1. ProgramsInit => Init /\ RunsInv
    BY RunsInitially DEF ProgramsInit
<1>2. ASSUME GpioInv, RunsInv, [ProgramsNext]_vars
      PROVE  [Next]_gpioVars
  <2>1. CASE UNCHANGED vars
      BY <2>1 DEF vars
  <2>2. CASE ProgramsNext
    <3>1. PICK p \in Proc : Step(p)
        BY <2>2 DEF ProgramsNext
    <3>2. board' = board
        BY <2>2 DEF ProgramsNext
    <3>3. GpioCall(p) => Starts(p)
        BY <1>2, <3>2, BeginIs DEF RunsInv
    <3>4. \/ Starts(p) \/ CallStep(p) \/ Return(p)
          \/ UNCHANGED gpioVars
        BY <3>1, <3>3 DEF Step, GpioStep, GpioReturn, CpldCall, CpldStep, CpldReturn,
             SetTrigger, Nothing
    <3> QED
        BY <3>2, <3>4 DEF Next, Starts
  <2> QED
      BY <1>2, <2>1, <2>2
<1>3. Init => GpioInv /\ TransferInv
    BY GpioInitially
<1>4. GpioInv /\ TransferInv /\ [Next]_gpioVars => (GpioInv /\ TransferInv)'
    BY GpioTypeStep, HandlesStep, TransferStep DEF GpioInv
<1>5. GpioInv /\ GpioInv' /\ TransferInv /\ RunsInv /\ [ProgramsNext]_vars => RunsInv'
    BY RunsStep
<1> QED
    BY <1>1, <1>2, <1>3, <1>4, <1>5, PTL DEF ProgramsSpec, Spec

LEMMA RunsInvariant ==
    ProgramsSpec => [](GpioInv /\ TransferInv /\ RunsInv)
<1>1. ProgramsInit => RunsInv
    BY RunsInitially
<1>2. GpioInv /\ GpioInv' /\ TransferInv /\ RunsInv /\ [ProgramsNext]_vars => RunsInv'
    BY RunsStep
<1> QED
    BY <1>1, <1>2, GpioImplemented, GpioInvariant, PTL DEF ProgramsSpec

(***************************************************************************)
(* A status of 0 is true: the led of setled is on or off as a setled       *)
(* asked, boardtest leaves no output on, whatever fails on the way and     *)
(* with any number of setled beside it (setled.c 54-77, boardtest.c        *)
(* 252-347 and 615-655).  The one exception is a status led that is asked  *)
(* off: it blinks, whatever libyocto.h 143-147 says (BlinksInstead).       *)
(***************************************************************************)
THEOREM StatusIsTrue ==
    ProgramsSpec => []SuccessIsTrue
<1>1. GpioInv /\ RunsInv => SuccessIsTrue
  <2> SUFFICES ASSUME GpioInv, RunsInv, NEW p \in Proc, Succeeds(p)
               PROVE  IF program[p].name = "setled"
                      THEN AsAsked(program[p].led)
                      ELSE OutputsOn = {}
      BY DEF SuccessIsTrue, AsAsked
  <2>1. /\ RunsTypeOK /\ OnScript(p) /\ StayOff(p) /\ LedIsSet(p)
        /\ board \in Board /\ program \in Together
        /\ Exited(p) /\ ~failed[p]
      BY DEF RunsInv, RunsTypeOK, GpioInv, GpioTypeOK, Succeeds
  <2>2. CASE program[p].name = "setled"
      BY <2>1, <2>2 DEF LedIsSet, Tester
  <2>3. CASE program[p].name # "setled"
    <3>1. Tester(p) /\ Script(p) = BoardTest[board] /\ board \in Boards
        BY <2>1, <2>3, Scripts
    <3>2. \A i \in 0 .. OutputCount[board] - 1 :
             \E k \in LastOn(board) + 1 .. Len(Script(p)) :
                Script(p)[k] = Write(i, FALSE)
        BY <3>1, BoardTestCalls DEF OnlyClears
    <3>3. ASSUME NEW i \in 0 .. OutputCount[board] - 1
          PROVE  i \notin OutputsOn
      <4>1. PICK k \in LastOn(board) + 1 .. Len(Script(p)) :
                    Script(p)[k] = Write(i, FALSE)
          BY <3>2
      <4>2. Script(p)[k].op = "outputWrite" /\ Script(p)[k].id = i
          BY <4>1 DEF Write
      <4>3. k < pos[p]
        <5>1. Len(Script(p)) \in Nat /\ LastOn(board) \in Nat
            BY <2>1, <3>1, Scripts, BoardTestCalls
        <5>2. pos[p] \in 1 .. Len(Script(p)) + 1 /\ pos[p] > Len(Script(p))
            BY <2>1 DEF OnScript, Exited
        <5> QED
            BY <5>1, <5>2
      <4> QED
          BY <2>1, <3>1, <4>2, <4>3 DEF StayOff
    <3>4. OutputsOn \subseteq 0 .. OutputCount[board] - 1
        BY <2>1, ProgramsAssumption DEF OutputsOn, On, RunsTypeOK, OutputOrder
    <3> QED
        BY <2>3, <3>3, <3>4
  <2> QED
      BY <2>2, <2>3
<1> QED
    BY <1>1, RunsInvariant, PTL

-----------------------------------------------------------------------------
(* How boardtest ends: the safety half of EndsAsItBegan.                   *)

(***************************************************************************)
(* A program that has ended by itself had its lines: boardtest exits only  *)
(* after a yoctoInit that returned 0, and the assertion of gpioUninit      *)
(* aborts it only if yoctoInit did not (boardtest.c 618-652, gpio.c 181).  *)
(***************************************************************************)
EndsByInit ==
    \A p \in Proc : /\ Exited(p) => initOk[p]
                    /\ pc[p] = "aborted" => ~initOk[p]

\* gpioUninit finds what an init that returned 0 has left, or no chip.
Undone(p) ==
    IF initOk[p]
    THEN /\ pc[p] = "freeBulk" =>
               /\ \A c \in 1 .. NChips : chip[p][c]
               /\ \A b \in Bulk : b >= at[p] => Held(p, b)
         /\ pc[p] = "closeChip" => \A c \in 1 .. NChips : c >= at[p] => chip[p][c]
    ELSE /\ pc[p] # "done"
         /\ \A c \in 1 .. NChips : ~chip[p][c]

LinesByInit(p) ==
    /\ pos[p] = 1 => ~initOk[p]
    /\ pos[p] > 1 /\ call[p].op # "uninit" /\ pc[p] # "aborted" /\ ~Exited(p) =>
          IF initOk[p] THEN AllHeld(p) ELSE NoneHeld(p)
    /\ call[p].op = "uninit" /\ pc[p] # "aborted" => Undone(p)

InitKnown(p) ==
    /\ ~Tester(p) => initOk[p]
    /\ Tester(p) /\ pos[p] > 1 /\ InitBy[board] # "gpio" => initOk[p]
    /\ Tester(p) /\ InitBy[board] = "gpio" => LinesByInit(p)
    /\ Exited(p) => initOk[p]
    /\ pc[p] = "aborted" => Tester(p) /\ InitBy[board] = "gpio" /\ ~initOk[p]

EndsInv ==
    /\ DOMAIN initOk = Proc
    /\ \A p \in Proc : InitKnown(p)

\* The handles of a process and what its calls know of them.
EndsSame(q) ==
    /\ chip'[q] = chip[q] /\ bulk'[q] = bulk[q]
    /\ pc'[q] = pc[q] /\ call'[q] = call[q] /\ at'[q] = at[q]
    /\ pos'[q] = pos[q] /\ initOk'[q] = initOk[q]

LEMMA EndsStay ==
    ASSUME board' = board, program' = program, NEW q, EndsSame(q), InitKnown(q)
    PROVE  InitKnown(q)'
<1>1. /\ AllHeld(q)' <=> AllHeld(q)
      /\ NoneHeld(q)' <=> NoneHeld(q)
      /\ Undone(q)' <=> Undone(q)
    BY SameTables DEF EndsSame, AllHeld, NoneHeld, Undone, Held
<1>2. /\ Tester(q)' <=> Tester(q)
      /\ Exited(q)' <=> Exited(q)
    BY SameScript DEF EndsSame
<1> QED
    BY <1>1, <1>2 DEF EndsSame, InitKnown, LinesByInit

LEMMA OthersEnd ==
    ASSUME GpioInv, RunsTypeOK, DOMAIN initOk = Proc, board' = board,
           NEW p \in Proc, Step(p), OnScript(p), NEW q \in Proc \ {p}
    PROVE  EndsSame(q)
<1>1. GpioCall(p) => Starts(p)
    BY BeginIs
<1>2. \/ OthersStay(p)
      \/ UNCHANGED gpioVars
    BY <1>1, StepOfOne
       DEF Step, GpioStep, GpioReturn, CpldCall, CpldStep, CpldReturn, SetTrigger,
           Nothing
<1>3. /\ chip'[q] = chip[q] /\ bulk'[q] = bulk[q]
      /\ pc'[q] = pc[q] /\ call'[q] = call[q] /\ at'[q] = at[q]
    BY <1>2 DEF OthersStay, gpioVars, handleVars, callVars
<1>4. initOk'[q] = initOk[q]
    BY DEF Step, GpioCall, GpioStep, GpioReturn, CpldCall, CpldStep, CpldReturn,
           SetTrigger, Nothing, runVars
<1>5. pos'[q] = pos[q]
    BY OthersRun
<1> QED
    BY <1>3, <1>4, <1>5 DEF EndsSame

\* gpioUninit after an init that returned 0 does not abort, and returns only then.
LEMMA UndoneStep ==
    ASSUME GpioInv, board' = board, initOk' = initOk, NEW p \in Proc, CallStep(p),
           call[p].op = "uninit", Undone(p)
    PROVE  /\ initOk[p] => pc'[p] # "aborted"
           /\ pc'[p] # "aborted" => Undone(p)'
<1> USE DEF GpioInv, GpioTypeOK
<1>1. CallOK(p) /\ Place(p) /\ board \in Board
    BY DEF HandlesInv, Handles
<1>2. pc[p] \in {"freeBulk", "closeChip"}
  <2>1. pc[p] \notin {"idle", "done", "aborted"}
      BY DEF CallStep, OpenChip, RequestBulk, RequestFails, FreeBulk, CloseChip,
             CloseNoChip, ReadBulk, WriteBulk, TransferFails, UseStale
  <2>2. call[p] \notin Request[board]
      BY <1>1, TheTable DEF RequestOK
  <2> QED
      BY <1>1, <2>1, <2>2 DEF CallOK, Location
<1>3. /\ NChips \in Nat /\ Len(Bulks) \in Nat /\ Bulk = 1 .. Len(Bulks)
      /\ NChips' = NChips /\ Bulk' = Bulk
    BY <1>1, TheTable, SameTables
<1>4. CASE FreeBulk(p)
  <2>1. /\ chip' = chip /\ at[p] \in Bulk
        /\ \A b \in Bulk : b # at[p] => (Held(p, b)' <=> Held(p, b))
        /\ IF at[p] = Len(Bulks) THEN pc'[p] = "closeChip" /\ at'[p] = 1
                                 ELSE pc'[p] = "freeBulk" /\ at'[p] = at[p] + 1
      BY <1>1, <1>3, <1>4 DEF FreeBulk, SetBulk, Go, Place, Held
  <2>2. pc[p] = "freeBulk"
      BY <1>4 DEF FreeBulk
  <2>3. CASE initOk[p]
    <3>1. /\ \A c \in 1 .. NChips : chip[p][c]
          /\ \A b \in Bulk : b >= at[p] => Held(p, b)
        BY <2>2, <2>3 DEF Undone
    <3>2. ASSUME NEW b \in Bulk, b >= at[p] + 1
          PROVE  Held(p, b)'
      <4>1. b # at[p] /\ b >= at[p]
          BY <1>3, <2>1, <3>2
      <4> QED
          BY <2>1, <3>1, <4>1
    <3> QED
        BY <1>3, <2>1, <2>3, <3>1, <3>2 DEF Undone
  <2>4. CASE ~initOk[p]
      BY <1>3, <2>1, <2>4 DEF Undone
  <2> QED
      BY <2>3, <2>4
<1>5. CASE CloseChip(p)
  <2>1. /\ pc[p] = "closeChip" /\ chip[p][at[p]] /\ at[p] \in 1 .. NChips
        /\ chip' = [chip EXCEPT ![p][at[p]] = FALSE]
        /\ IF at[p] = NChips THEN pc'[p] = "done"
                             ELSE pc'[p] = "closeChip" /\ at'[p] = at[p] + 1
      BY <1>1, <1>5 DEF CloseChip, Go, Place
  <2>2. initOk[p] /\ \A c \in 1 .. NChips : c >= at[p] => chip[p][c]
      BY <2>1 DEF Undone
  <2>3. \A c \in 1 .. NChips : c >= at[p] + 1 => chip'[p][c]
      BY <1>3, <2>1, <2>2
  <2> QED
      BY <1>3, <2>1, <2>2, <2>3 DEF Undone
<1>6. CASE CloseNoChip(p)
  <2>1. ~initOk[p]
      BY <1>1, <1>3, <1>6 DEF CloseNoChip, Undone, Place
  <2>2. pc'[p] = "aborted"
      BY <1>6 DEF CloseNoChip, Abort, Go
  <2> QED
      BY <2>1, <2>2
<1>7. CASE UseStale(p)
  <2>1. ~initOk[p]
    <3>1. pc[p] = "freeBulk" /\ bulk[p][at[p]] = "stale" /\ at[p] \in Bulk
        BY <1>1, <1>2, <1>7 DEF UseStale, Place
    <3>2. at[p] >= at[p]
        BY <1>3, <3>1
    <3>3. ~Held(p, at[p])
        BY <3>1 DEF Held
    <3> QED
        BY <3>1, <3>2, <3>3 DEF Undone
  <2>2. pc'[p] = "aborted"
      BY <1>7 DEF UseStale, Abort, Go
  <2> QED
      BY <2>1, <2>2
<1> QED
    BY <1>2, <1>4, <1>5, <1>6, <1>7
       DEF CallStep, OpenChip, RequestBulk, RequestFails, ReadBulk, WriteBulk,
           TransferFails

\* Where the calls that gpio.c does not do are in the script of boardtest.
LEMMA OtherCall ==
    ASSUME board \in Board, program \in Together, NEW p \in Proc, Tester(p),
           pos[p] \in 1 .. Len(Script(p)) + 1, ~Exited(p), Impl(Call(p)) # "gpio"
    PROVE  /\ InitBy[board] = "gpio" =>
                 /\ pos[p] > 1 /\ pos[p] < Len(Script(p))
                 /\ Impl(Call(p)) # "nothing"
           /\ InitBy[board] # "gpio" /\ pos[p] = 1 => Impl(Call(p)) = "nothing"
<1>1. /\ board \in Boards /\ Script(p) = BoardTest[board]
      /\ pos[p] \in 1 .. Len(Script(p)) /\ Len(Script(p)) \in Nat
      /\ Call(p) \in Body \cup Ends
    BY Scripts, NextCall
<1>2. /\ pos[p] = 1 => Call(p).op = "init"
      /\ pos[p] = Len(Script(p)) => Call(p).op = "uninit"
    BY <1>1, BoardTestCalls DEF Call
<1>3. Call(p).op \in {"init", "uninit"} => Impl(Call(p)) = InitBy[board]
    BY DEF Impl, DoneBy
<1>4. Call(p) \in Body => Impl(Call(p)) \in {"gpio", "cpld", "none"}
  <2>1. \A c \in Body : c.op \in {"inputRead", "inputReadAll", "outputRead",
                                  "outputReadAll", "outputWrite", "outputWriteAll"}
      BY DEF Body
  <2> QED
      BY <1>1, <2>1, Counts DEF Impl, DoneBy
<1>5. Call(p) \in Ends => Call(p).op \in {"init", "uninit"}
    BY DEF Ends
<1> QED
    BY <1>1, <1>2, <1>3, <1>4, <1>5, Counts

LEMMA EndsStep ==
    ASSUME GpioInv, GpioInv', RunsTypeOK, DOMAIN initOk = Proc, board' = board,
           NEW p \in Proc, OnScript(p), OnScript(p)', InitKnown(p), Step(p)
    PROVE  InitKnown(p)'
<1> USE DEF GpioInv, GpioTypeOK, RunsTypeOK
<1>1. /\ Len(Script(p)) \in Nat /\ pos[p] \in 1 .. Len(Script(p)) + 1
      /\ board \in Board
    BY Scripts DEF OnScript
<1>2. UNCHANGED <<chip, bulk>> => /\ AllHeld(p)' <=> AllHeld(p)
                                  /\ NoneHeld(p)' <=> NoneHeld(p)
    BY SameTables DEF AllHeld, NoneHeld, Held
<1>3. CASE GpioCall(p)
  <2>1. /\ Tester(p) /\ InitBy[board] = "gpio" /\ ~Exited(p)
        /\ pc[p] = "idle" /\ pc'[p] \notin {"idle", "aborted"}
        /\ call'[p] = Call(p)
        /\ UNCHANGED <<program, pos, initOk, chip, bulk>>
      BY <1>3, BeginIs DEF runVars
  <2>2. LinesByInit(p) /\ call[p].op # "uninit"
    <3>1. call[p] = NoCall
        BY <2>1 DEF HandlesInv, Handles, CallOK
    <3> QED
        BY <2>1, <3>1 DEF InitKnown, NoCall
  <2>3. pos[p] > 1 => IF initOk[p] THEN AllHeld(p) ELSE NoneHeld(p)
      BY <2>1, <2>2 DEF LinesByInit
  <2>4. ASSUME call'[p].op = "uninit"
        PROVE  Undone(p)'
    <3>1. pos[p] = Len(Script(p)) /\ pos[p] > 1
      <4>1. pos[p] = Len(Script(p))
          BY <1>1, <2>1, <2>4, NextCall
      <4>2. Len(Script(p)) >= 2
          BY <1>1, <2>1, Scripts, BoardTestCalls
      <4> QED
          BY <1>1, <4>1, <4>2
    <3>2. pc'[p] = "freeBulk"
        BY <1>3, <2>1, <2>4 DEF GpioCall, BeginUninit, Begin, Go
    <3>3. IF initOk[p] THEN AllHeld(p)' ELSE NoneHeld(p)'
        BY <1>2, <2>1, <2>3, <3>1
    <3> QED
        BY <2>1, <3>2, <3>3 DEF Undone, AllHeld, NoneHeld
  <2>5. LinesByInit(p)'
      BY <1>2, <2>1, <2>2, <2>3, <2>4 DEF LinesByInit
  <2> QED
      BY <2>1, <2>5, SameScript DEF InitKnown
<1>4. CASE GpioStep(p)
  <2>1. /\ CallStep(p) /\ pc[p] \notin {"idle", "aborted"} /\ call' = call
        /\ pc[p] \in {"read", "write"} => UNCHANGED <<chip, bulk>>
        /\ UNCHANGED <<program, pos, initOk>>
      BY <1>4, CallStepIs DEF GpioStep, runVars
  <2>2. /\ call[p] = Call(p) /\ ~Exited(p)
        /\ Tester(p) /\ InitBy[board] = "gpio" /\ LinesByInit(p)
    <3>1. call[p] = Call(p) /\ ~Exited(p) /\ Impl(Call(p)) = "gpio"
        BY <2>1 DEF OnScript
    <3> QED
        BY <1>1, <3>1, NextCall DEF InitKnown
  <2>3. CASE call[p].op = "uninit"
    <3>1. Undone(p)
        BY <2>1, <2>2, <2>3 DEF LinesByInit
    <3>2. /\ initOk[p] => pc'[p] # "aborted"
          /\ pc'[p] # "aborted" => Undone(p)'
        BY <2>1, <2>3, <3>1, UndoneStep
    <3>3. LinesByInit(p)'
        BY <2>1, <2>2, <2>3, <3>2 DEF LinesByInit
    <3> QED
        BY <2>1, <2>2, <3>2, <3>3, SameScript DEF InitKnown
  <2>4. CASE call[p].op # "uninit" /\ pos[p] = 1
    <3>1. ~initOk[p]
        BY <2>2, <2>4 DEF LinesByInit
    <3>2. LinesByInit(p)'
        BY <2>1, <2>4, <3>1 DEF LinesByInit
    <3> QED
        BY <2>1, <2>2, <3>1, <3>2, SameScript DEF InitKnown
  <2>5. CASE call[p].op # "uninit" /\ pos[p] # 1
    <3>1. pos[p] > 1 /\ IF initOk[p] THEN AllHeld(p) ELSE NoneHeld(p)
        BY <1>1, <2>1, <2>2, <2>5 DEF LinesByInit
    <3>2. CallOK(p) /\ Place(p)
        BY DEF HandlesInv, Handles
    <3>3. pc[p] \in {"read", "write"}
      <4>1. call[p].op # "init"
          BY <1>1, <2>2, <3>1, NextCall
      <4>2. pc[p] # "done"
          BY <2>1 DEF CallStep, OpenChip, RequestBulk, RequestFails, FreeBulk, CloseChip,
                      CloseNoChip, ReadBulk, WriteBulk, TransferFails, UseStale
      <4> QED
          BY <2>1, <2>5, <3>2, <4>1, <4>2 DEF CallOK, Location
    <3>4. pc'[p] = "aborted" => ~initOk[p]
      <4>1. pc'[p] = "aborted" => bulk[p][at[p]] = "stale" /\ at[p] \in Bulk
        <5>1. at[p] \in Bulk
            BY <3>2, <3>3 DEF Place, Side, SideIn, Bulk
        <5> QED
            BY <2>1, <3>3, <5>1
               DEF CallStep, OpenChip, RequestBulk, RequestFails, FreeBulk, CloseChip,
                   CloseNoChip, ReadBulk, EndOfRead, WriteBulk, TransferFails, UseStale,
                   Finish, Go
      <4> QED
          BY <3>1, <4>1 DEF AllHeld, Held
    <3>5. IF initOk[p] THEN AllHeld(p)' ELSE NoneHeld(p)'
        BY <1>2, <2>1, <3>1, <3>3
    <3>6. LinesByInit(p)'
        BY <2>1, <2>5, <3>1, <3>5 DEF LinesByInit
    <3> QED
        BY <2>1, <2>2, <3>1, <3>4, <3>6, SameScript DEF InitKnown
  <2> QED
      BY <2>3, <2>4, <2>5
<1>5. CASE GpioReturn(p)
  <2>1. /\ pc[p] = "done" /\ pc'[p] = "idle" /\ pos'[p] = pos[p] + 1
        /\ call'[p] = NoCall
        /\ initOk'[p] = (initOk[p] \/ (call[p].op = "init" /\ rc[p] = 0))
        /\ UNCHANGED <<program, chip, bulk>>
      BY <1>5 DEF GpioReturn, Return, Go, Advance, handleVars
  <2>2. /\ call[p] = Call(p) /\ ~Exited(p)
        /\ Tester(p) /\ InitBy[board] = "gpio" /\ LinesByInit(p)
    <3>1. call[p] = Call(p) /\ ~Exited(p) /\ Impl(Call(p)) = "gpio"
        BY <2>1 DEF OnScript
    <3> QED
        BY <1>1, <3>1, NextCall DEF InitKnown
  <2>3. call'[p].op # "uninit" /\ pos'[p] > 1
      BY <1>1, <2>1 DEF NoCall
  <2>4. Len(Script(p)) >= 2 /\ Script(p) = BoardTest[board] /\ board \in Boards
      BY <1>1, <2>2, Scripts, BoardTestCalls
  <2>5. CASE pos[p] = 1
    <3>1. ~initOk[p] /\ call[p].op = "init"
        BY <2>2, <2>4, <2>5, BoardTestCalls DEF LinesByInit, Call
    <3>2. Settled(p)
        BY DEF HandlesInv, Handles
    <3>3. IF initOk'[p] THEN AllHeld(p)' ELSE NoneHeld(p)'
        BY <1>2, <2>1, <3>1, <3>2 DEF Settled
    <3>4. ~Exited(p)'
        BY <1>1, <2>1, <2>4, <2>5, SameScript DEF Exited
    <3> QED
        BY <2>1, <2>2, <2>3, <3>3, <3>4, SameScript DEF InitKnown, LinesByInit
  <2>6. CASE pos[p] # 1 /\ call[p].op # "uninit"
    <3>1. pos[p] > 1 /\ call[p].op # "init"
        BY <1>1, <2>2, <2>6, NextCall
    <3>2. IF initOk'[p] THEN AllHeld(p)' ELSE NoneHeld(p)'
        BY <1>2, <2>1, <2>2, <2>6, <3>1 DEF LinesByInit
    <3>3. pos[p] # Len(Script(p))
        BY <2>2, <2>4, <2>6, BoardTestCalls DEF Call
    <3>4. ~Exited(p)'
        BY <1>1, <2>1, <2>2, <3>3, SameScript DEF Exited
    <3> QED
        BY <2>1, <2>2, <2>3, <3>2, <3>4, SameScript DEF InitKnown, LinesByInit
  <2>7. CASE pos[p] # 1 /\ call[p].op = "uninit"
    <3>1. initOk[p] /\ initOk'[p]
        BY <2>1, <2>2, <2>7 DEF LinesByInit, Undone
    <3>2. pos[p] = Len(Script(p))
        BY <1>1, <2>2, <2>7, NextCall
    <3>3. Exited(p)'
        BY <1>1, <2>1, <3>2, SameScript DEF Exited
    <3> QED
        BY <2>1, <2>2, <2>3, <3>1, <3>3, SameScript DEF InitKnown, LinesByInit
  <2> QED
      BY <2>5, <2>6, <2>7
<1>6. CASE CpldCall(p) \/ CpldStep(p)
  <2>1. EndsSame(p) /\ program' = program
      BY <1>6 DEF CpldCall, CpldStep, EndsSame, runVars, gpioVars, handleVars, callVars
  <2> QED
      BY <2>1, EndsStay
<1>7. CASE CpldReturn(p) \/ SetTrigger(p) \/ Nothing(p)
  <2>1. /\ pos'[p] = pos[p] + 1
        /\ IF Nothing(p) THEN initOk'[p] ELSE initOk'[p] = initOk[p]
        /\ UNCHANGED <<program, chip, bulk, pc, call>>
      BY <1>7 DEF CpldReturn, SetTrigger, Nothing, Advance, gpioVars, handleVars, callVars
  <2>2. /\ pc[p] = "idle" /\ ~Exited(p) /\ Impl(Call(p)) # "gpio"
        /\ ~Nothing(p) => Impl(Call(p)) # "nothing"
      BY <1>7 DEF CpldReturn, SetTrigger, Nothing, Calls, OnScript
  <2>3. call[p].op # "uninit"
    <3>1. call[p] = NoCall
        BY <2>2 DEF HandlesInv, Handles, CallOK
    <3> QED
        BY <3>1 DEF NoCall
  <2>4. CASE ~Tester(p)
      BY <2>1, <2>2, <2>4, SameScript DEF InitKnown
  <2>5. CASE Tester(p) /\ InitBy[board] # "gpio"
    <3>1. initOk'[p]
      <4>1. CASE Nothing(p)
          BY <2>1, <4>1
      <4>2. CASE ~Nothing(p)
        <5>1. pos[p] # 1
            BY <1>1, <2>2, <2>5, <4>2, OtherCall
        <5> QED
            BY <1>1, <2>1, <2>5, <4>2, <5>1 DEF InitKnown
      <4> QED
          BY <4>1, <4>2
    <3> QED
        BY <2>1, <2>2, <2>5, <3>1, SameScript DEF InitKnown
  <2>6. CASE Tester(p) /\ InitBy[board] = "gpio"
    <3>1. pos[p] > 1 /\ pos[p] < Len(Script(p)) /\ Impl(Call(p)) # "nothing"
        BY <1>1, <2>2, <2>6, OtherCall
    <3>2. initOk'[p] = initOk[p] /\ LinesByInit(p)
        BY <2>1, <2>6, <3>1 DEF Nothing, Calls, InitKnown
    <3>3. IF initOk[p] THEN AllHeld(p) ELSE NoneHeld(p)
        BY <2>2, <2>3, <3>1, <3>2 DEF LinesByInit
    <3>4. ~Exited(p)' /\ pos'[p] > 1
        BY <1>1, <2>1, <3>1, SameScript DEF Exited
    <3>5. LinesByInit(p)'
        BY <1>2, <2>1, <2>3, <3>2, <3>3, <3>4, SameScript DEF LinesByInit
    <3> QED
        BY <2>1, <2>2, <2>6, <3>4, <3>5, SameScript DEF InitKnown
  <2> QED
      BY <2>4, <2>5, <2>6
<1> QED
    BY <1>3, <1>4, <1>5, <1>6, <1>7 DEF Step

(***************************************************************************)
(* boardtest exits only if its yoctoInit returned 0 and is aborted only if *)
(* it did not, on every board and whatever fails (boardtest.c 618-652,     *)
(* gpio.c 181).  That it ends at all is EndsAsItBegan.                     *)
(***************************************************************************)
THEOREM EndsAreByInit ==
    ProgramsSpec => []EndsByInit
<1>1. ProgramsInit => EndsInv
  <2> SUFFICES ASSUME ProgramsInit
               PROVE  EndsInv
      OBVIOUS
  <2>1. board \in Board /\ program \in Together /\ DOMAIN initOk = Proc
      BY DEF ProgramsInit, Init
  <2>2. ASSUME NEW p \in Proc
        PROVE  InitKnown(p)
    <3>1. /\ pos[p] = 1 /\ pc[p] = "idle" /\ call[p] = NoCall
          /\ initOk[p] = (program[p].name # "boardtest")
        BY DEF ProgramsInit, Init
    <3>2. Tester(p) => Len(Script(p)) \in Nat /\ Len(Script(p)) >= 2
        BY <2>1, Scripts, BoardTestCalls
    <3>3. IF Tester(p) THEN ~initOk[p] ELSE initOk[p]
        BY <3>1 DEF Tester
    <3>4. Tester(p) => ~Exited(p)
        BY <3>1, <3>2 DEF Exited
    <3> QED
        BY <3>1, <3>3, <3>4 DEF InitKnown, LinesByInit, NoCall
  <2> QED
      BY <2>1, <2>2 DEF EndsInv
<1>2. GpioInv /\ GpioInv' /\ RunsInv /\ RunsInv' /\ EndsInv /\ [ProgramsNext]_vars
          => EndsInv'
  <2> SUFFICES ASSUME GpioInv, GpioInv', RunsInv, RunsInv', EndsInv,
                      [ProgramsNext]_vars
               PROVE  EndsInv'
      OBVIOUS
  <2>1. RunsTypeOK /\ board \in Board /\ DOMAIN initOk = Proc
        /\ \A q \in Proc : OnScript(q) /\ OnScript(q)' /\ InitKnown(q)
      BY DEF RunsInv, EndsInv, GpioInv, GpioTypeOK
  <2>2. CASE UNCHANGED vars
    <3>1. board' = board /\ program' = program /\ \A q \in Proc : EndsSame(q)
        BY <2>2 DEF vars, gpioVars, handleVars, callVars, runVars, EndsSame
    <3>2. \A q \in Proc : InitKnown(q)'
        BY <2>1, <3>1, EndsStay
    <3> QED
        BY <2>1, <2>2, <3>2 DEF EndsInv, vars, runVars
  <2>3. CASE ProgramsNext
    <3>1. PICK p \in Proc : Step(p)
        BY <2>3 DEF ProgramsNext
    <3>2. board' = board
        BY <2>3 DEF ProgramsNext
    <3>3. program' = program
        BY <2>1, <3>1, <3>2, RunsTypeStep
    <3>4. InitKnown(p)'
        BY <2>1, <3>1, <3>2, EndsStep
    <3>5. ASSUME NEW q \in Proc \ {p}
          PROVE  InitKnown(q)'
      <4>1. EndsSame(q)
          BY <2>1, <3>1, <3>2, OthersEnd
      <4> QED
          BY <2>1, <3>2, <3>3, <4>1, EndsStay
    <3>6. DOMAIN initOk' = Proc
        BY <2>1, <3>1 DEF Step, GpioCall, GpioStep, GpioReturn, CpldCall, CpldStep,
                         CpldReturn, SetTrigger, Nothing, runVars
    <3> QED
        BY <3>4, <3>5, <3>6 DEF EndsInv
  <2> QED
      BY <2>2, <2>3
<1>3. EndsInv => EndsByInit
    BY DEF EndsInv, InitKnown, EndsByInit
<1> QED
    BY <1>1, <1>2, <1>3, RunsInvariant, PTL DEF ProgramsSpec

=============================================================================
