--------------------------- MODULE OutboundProofs ---------------------------
(***************************************************************************)
(* What holds of the sender for every choice of messages, friends, part    *)
(* numbers, window and receipt range, and whatever the base library        *)
(* refuses, loses, delays or reorders (Outbound.tla).                      *)
(***************************************************************************)
EXTENDS Outbound, StructureProofs

USE OutboundAssumption

Row == [meta : BOOLEAN, data : BOOLEAN, done : Nat, confirmed : SUBSET Nat]

Ops == [at : Labels, msg : Msgs \cup {NoMsg}, i : Nat, cell : Int, cut : Nat]

(***************************************************************************)
(* The inductive invariant.                                                *)
(***************************************************************************)
StructsOK ==
  /\ heap \subseteq Msgs
  /\ DOMAIN partReceipt = Msgs /\ DOMAIN confirmed = Msgs
  /\ lastSent \in [Msgs -> Nat]
  /\ \A m \in Msgs :
       /\ partReceipt[m] \in [Parts(m) -> Nat]
       /\ confirmed[m] \subseteq Parts(m)
       /\ lastSent[m] \in Parts(m)
  /\ numConfirmed \in [Msgs -> Nat]
  /\ clientReceipt \in [Msgs -> Nat]

DbOK ==
  /\ db \in [Msgs -> Row]
  /\ \A m \in Msgs : db[m].confirmed \subseteq Parts(m)
  /\ \A m \in Msgs : db[m].meta => m \in called

WorldOK ==
  /\ online \subseteq Friends
  /\ called \subseteq Msgs
  /\ wire \subseteq Cell(Msgs)
  /\ \A x \in wire : x.part \in Parts(x.msg)
  /\ DOMAIN acked = Msgs /\ \A m \in Msgs : acked[m] \subseteq Parts(m)
  /\ lastReceipt \in ReceiptRangeLo .. ReceiptRangeHi
  /\ ring \in Seq(called)

\* Labels at which a handler has a message, and at which it is processing a
\* receipt, whose cell is emptied last.
WithMsg == {"first", "insertData", "confirmMeta", "pass1", "pass2", "notify", "discard", "more"}

WithCell == {"confirmMeta", "notify", "discard", "retire"}

\* Labels that are reached while a receipt is processed, or otherwise.
MaybeCell == {"first", "insertData", "pass1", "pass2", "fault"}

OpOK ==
  /\ op \in Ops
  /\ op.at \in WithMsg => op.msg \in called
  /\ op.at \in WithCell => op.cell \in DOMAIN table.cells
  /\ op.at \in MaybeCell => op.cell = -1 \/ op.cell \in DOMAIN table.cells
  /\ op.at \notin WithCell \cup MaybeCell => op.cell = -1

TableOK ==
  /\ nextId \in Nat
  /\ WellFormed(table, Msgs, nextId)
  /\ \A k \in DOMAIN table.cells :
       table.cells[k].msg \in called /\ table.cells[k].part \in Parts(table.cells[k].msg)

CountOK ==
  /\ numTransit \in [Msgs -> Nat]
  /\ \A m \in Msgs : numTransit[m] <= FragmentsAtATime
  /\ \A m \in heap : numTransit[m] = Cardinality(Records(m))
  /\ \A m \in Msgs \ called : numTransit[m] = 0
  /\ op.at \in {"down", "load"} =>
       DOMAIN table.cells = {} /\ \A m \in Msgs : numTransit[m] = 0

Inv == StructsOK /\ DbOK /\ WorldOK /\ OpOK /\ TableOK /\ CountOK

-----------------------------------------------------------------------------
LEMMA PartsNat == \A m \in Msgs : Parts(m) \subseteq Nat /\ 0 \in Parts(m)
BY DEF Parts

LEMMA AtFields ==
  ASSUME NEW l \in Labels
  PROVE  /\ At(l) \in Ops
         /\ At(l).at = l /\ At(l).msg = NoMsg /\ At(l).i = 0 /\ At(l).cell = -1 /\ At(l).cut = 0
BY DEF At, Ops

LEMMA InitInv == Init => Inv
<1> SUFFICES ASSUME Init
             PROVE  Inv
  OBVIOUS
<1> USE DEF Init
<1>1. StructsOK
  BY PartsNat DEF StructsOK
<1>2. DbOK
  BY DEF DbOK, Row, Row0
<1>3. WorldOK
  BY DEF WorldOK
<1>4. op = At("idle") /\ At("idle") \in Ops /\ op.at = "idle" /\ op.cell = -1
  BY AtFields DEF Idle, Labels
<1>5. OpOK
  BY <1>4 DEF OpOK, WithMsg, WithCell, MaybeCell
<1>6. TableOK
  BY EmptyWellFormed DEF TableOK
<1>7. CountOK
  BY <1>4 DEF CountOK
<1> QED
  BY <1>1, <1>2, <1>3, <1>5, <1>6, <1>7 DEF Inv

-----------------------------------------------------------------------------
(* Lemmas on the pieces the handlers share.                                *)

(***************************************************************************)
(* sendMore only visits listed messages, and those were sent.              *)
(***************************************************************************)
MoreTarget(o) ==
  o \in Ops /\ o.cell = -1 /\ (o.at = "idle" \/ (o.at = "more" /\ o.msg \in called \cap Listed))

LEMMA MoreType ==
  ASSUME WorldOK
  PROVE  MoreTarget(MoreFromHead) /\ \A m : MoreTarget(MoreAfter(m))
<1>1. ring \in Seq(called) /\ called \subseteq Msgs
  BY DEF WorldOK
<1>2. ASSUME NEW n \in called \cap Listed
      PROVE  MoreTarget([At("more") EXCEPT !.msg = n])
  <2>1. [At("more") EXCEPT !.msg = n]
          = [at |-> "more", msg |-> n, i |-> 0, cell |-> -1, cut |-> 0]
    BY DEF At
  <2>2. n \in Msgs \cup {NoMsg}
    BY <1>1
  <2> QED
    BY <2>1, <2>2 DEF MoreTarget, Ops, Labels
<1>3. MoreTarget(Idle)
  BY AtFields DEF Idle, Labels, MoreTarget
<1>4. ASSUME NEW m
      PROVE  MoreTarget(MoreAfter(m))
  <2>1. CASE \E j \in 1 .. Len(ring) - 1 : ring[j] = m
    <3> DEFINE j == CHOOSE k \in 1 .. Len(ring) - 1 : ring[k] = m
    <3>1. j \in 1 .. Len(ring) - 1
      BY <2>1
    <3>2. MoreAfter(m) = [At("more") EXCEPT !.msg = ring[j + 1]]
      BY <2>1 DEF MoreAfter
    <3> HIDE DEF j
    <3>3. ring[j + 1] \in called \cap Listed
      BY <3>1, <1>1 DEF Listed, ToSet
    <3> QED
      BY <3>2, <3>3, <1>2
  <2>2. CASE ~\E j \in 1 .. Len(ring) - 1 : ring[j] = m
    BY <2>2, <1>3 DEF MoreAfter
  <2> QED
    BY <2>1, <2>2
<1>5. MoreTarget(MoreFromHead)
  <2>1. CASE ring = <<>>
    BY <2>1, <1>3 DEF MoreFromHead
  <2>2. CASE ring # <<>>
    <3>1. Head(ring) \in called \cap Listed
      BY <2>2, <1>1 DEF Listed, ToSet
    <3> QED
      BY <2>2, <3>1, <1>2 DEF MoreFromHead
  <2> QED
    BY <2>1, <2>2
<1> QED
  BY <1>4, <1>5

(***************************************************************************)
(* generateReceiptNo returns a number of the range.                        *)
(***************************************************************************)
LEMMA GeneratedType ==
  ASSUME FreeReceipts # {}, lastReceipt \in ReceiptRangeLo .. ReceiptRangeHi
  PROVE  GenerateReceiptNo \in ReceiptRangeLo .. ReceiptRangeHi
<1> DEFINE A == {Ahead(r) : r \in FreeReceipts}
<1>1. \A r \in FreeReceipts : r \in ReceiptRangeLo .. ReceiptRangeHi
  BY DEF FreeReceipts
<1>2. \A r \in FreeReceipts : Ahead(r) \in Nat
  BY <1>1 DEF Ahead
<1>3. A \subseteq Nat /\ A # {}
  BY <1>2
<1>4. PICK x \in A : \A y \in A : x <= y
  BY <1>3, LeastExists
<1>5. \E r \in FreeReceipts : \A q \in FreeReceipts : Ahead(r) <= Ahead(q)
  BY <1>4
<1>6. GenerateReceiptNo \in FreeReceipts
  BY <1>5 DEF GenerateReceiptNo
<1> QED
  BY <1>1, <1>6

(***************************************************************************)
(* msgSendPart on a well-formed table: one record more, at the end.        *)
(***************************************************************************)
LEMMA SentFacts ==
  ASSUME NEW t, nextId \in Nat, WellFormed(t, Msgs, nextId),
         NEW m \in Msgs, NEW i \in Parts(m), PartSent(m, i, t)
  PROVE  /\ nextId' = nextId + 1 /\ nextId' \in Nat
         /\ WellFormed(table', Msgs, nextId')
         /\ t.hi \notin DOMAIN t.cells /\ t.hi \in Nat
         /\ DOMAIN table'.cells = DOMAIN t.cells \cup {t.hi}
         /\ table'.cells[t.hi] = Fragment(m, i)
         /\ \A k \in DOMAIN t.cells : table'.cells[k] = t.cells[k]
         /\ Fragment(m, i) \in Cell(Msgs)
         /\ wire' = wire \cup {Fragment(m, i)}
         /\ partReceipt' = [partReceipt EXCEPT ![m][i] = nextId + 1]
<1>1. Fragment(m, i) \in Cell(Msgs) /\ Fragment(m, i).receipt = nextId + 1
  BY PartsNat DEF Fragment, Cell
<1>2. /\ nextId' = nextId + 1
      /\ table' = AddReceipt(t, Fragment(m, i))
      /\ wire' = wire \cup {Fragment(m, i)}
      /\ partReceipt' = [partReceipt EXCEPT ![m][i] = nextId + 1]
  BY DEF PartSent
<1>3. t.hi \in Nat
  BY CellFacts
<1>4. /\ WellFormed(table', Msgs, nextId + 1)
      /\ t.hi \notin DOMAIN t.cells
      /\ DOMAIN table'.cells = DOMAIN t.cells \cup {t.hi}
      /\ table'.cells[t.hi] = Fragment(m, i)
      /\ \A k \in DOMAIN t.cells : table'.cells[k] = t.cells[k]
  BY <1>1, <1>2, AppendWellFormed
<1> QED
  BY <1>1, <1>2, <1>3, <1>4

-----------------------------------------------------------------------------
(* Every step keeps the invariant.                                         *)

(***************************************************************************)
(* A step that leaves the structures and the table alone, and goes from a  *)
(* label to another without a change of the cell it holds.                 *)
(***************************************************************************)
LEMMA FrameStep ==
  ASSUME Inv, UNCHANGED <<structs, table, nextId, called>>,
         DbOK', WorldOK', OpOK',
         \/ op'.cell = op.cell
         \/ op.cell \notin DOMAIN table.cells /\ op'.cell \notin DOMAIN table.cells,
         op'.at \in {"down", "load"} => op.at \in {"down", "load"}
  PROVE  Inv'
<1>1. StructsOK'
  BY DEF Inv, StructsOK, structs
<1>2. TableOK'
  BY DEF Inv, TableOK
<1>3. CountOK'
  <2>1. CountOK /\ numTransit' = numTransit /\ heap' = heap /\ table' = table /\ called' = called
    BY DEF Inv, structs
  <2>2. \A m : Records(m)' = Records(m)
    BY <2>1 DEF Records
  <2> QED
    BY <2>1, <2>2 DEF CountOK
<1> QED
  BY <1>1, <1>2, <1>3 DEF Inv

\* Stuttering.
LEMMA StutterStep == Inv /\ UNCHANGED vars => Inv'
<1> SUFFICES ASSUME Inv, UNCHANGED vars
             PROVE  Inv'
  OBVIOUS
<1> USE DEF vars, structs, statics, base, client, bounds
<1>1. DbOK'
  BY DEF Inv, DbOK
<1>2. WorldOK'
  BY DEF Inv, WorldOK
<1>3. OpOK'
  BY DEF Inv, OpOK
<1> QED
  BY <1>1, <1>2, <1>3, FrameStep

(***************************************************************************)
(* What the invariant says of the running handler.                         *)
(***************************************************************************)
LEMMA OpFacts ==
  ASSUME Inv
  PROVE  /\ op \in Ops /\ op.at \in Labels /\ op.msg \in Msgs \cup {NoMsg}
         /\ op.i \in Nat /\ op.cell \in Int /\ op.cut \in Nat
         /\ op = [at |-> op.at, msg |-> op.msg, i |-> op.i, cell |-> op.cell, cut |-> op.cut]
         /\ op.at \in WithMsg => op.msg \in called /\ op.msg \in Msgs
         /\ DOMAIN table.cells \subseteq Nat
         /\ op = Idle => op.at = "idle" /\ op.cell = -1
<1>1. op \in Ops /\ (op.at \in WithMsg => op.msg \in called) /\ called \subseteq Msgs
  BY DEF Inv, OpOK, WorldOK
<1>2. DOMAIN table.cells \subseteq Nat
  BY CellFacts DEF Inv, TableOK
<1>3. op = Idle => op.at = "idle" /\ op.cell = -1
  BY AtFields DEF Idle, Labels
<1> QED
  BY <1>1, <1>2, <1>3 DEF Ops

\* friend_send_message_long returns to a client that has none of our functions
\* on its stack, or to one in the callback of the message whose receipt it holds.
LEMMA ReturnedOK ==
  ASSUME Inv, op.at \in {"first", "insertData"}, op' = Returned,
         called' = called, table' = table
  PROVE  OpOK' /\ op'.cell = op.cell /\ op'.at \in {"idle", "discard"}
<1>1. op.cell = -1 \/ (op.cell \in DOMAIN table.cells /\ op.cell \in Nat)
  BY OpFacts DEF Inv, OpOK, MaybeCell
<1>2. CASE op.cell = -1
  <2>1. op' = At("idle")
    BY <1>2 DEF Returned, Idle
  <2>2. op' \in Ops /\ op'.at = "idle" /\ op'.cell = -1
    BY <2>1, AtFields DEF Labels
  <2> QED
    BY <1>2, <2>2 DEF OpOK, WithMsg, WithCell, MaybeCell
<1>3. CASE op.cell \in DOMAIN table.cells /\ op.cell \in Nat
  <2>1. op' = [at |-> "discard", msg |-> table.cells[op.cell].msg, i |-> 0,
               cell |-> op.cell, cut |-> 0]
    BY <1>3 DEF Returned
  <2>2. table.cells[op.cell].msg \in called /\ called \subseteq Msgs
    BY <1>3 DEF Inv, TableOK, WorldOK
  <2>3. /\ op' \in Ops /\ op'.at = "discard" /\ op'.cell = op.cell
        /\ op'.msg = table.cells[op.cell].msg
    BY <1>3, <2>1, <2>2 DEF Ops, Labels
  <2> QED
    BY <1>3, <2>2, <2>3 DEF OpOK, WithMsg, WithCell, MaybeCell
<1> QED
  BY <1>1, <1>2, <1>3

(***************************************************************************)
(* One turn of a sending loop: the count and the table grow together, and  *)
(* Room keeps the count within the window.                                 *)
(***************************************************************************)
LEMMA SendPartStep ==
  ASSUME Inv, op.at \in {"first", "pass1", "pass2"},
         op.i < NumParts[op.msg], Room(op.msg), SendPart(op.msg, op.i),
         lastSent' = lastSent \/ lastSent' = [lastSent EXCEPT ![op.msg] = op.i],
         op' = [op EXCEPT !.i = @ + 1],
         UNCHANGED <<heap, confirmed, numConfirmed, clientReceipt, ring, lastReceipt,
                     db, online, acked, client, bounds>>
  PROVE  Inv'
<1> DEFINE m == op.msg
           i == op.i
<1>1. /\ StructsOK /\ DbOK /\ WorldOK /\ OpOK /\ TableOK /\ CountOK
      /\ called' = called /\ heap' = heap
  BY DEF Inv, client
<1>2. /\ op \in Ops /\ op.at \in Labels /\ m \in Msgs /\ m \in called
      /\ i \in Nat /\ i \in Parts(m)
      /\ op.cell \in Int
      /\ op.cell = -1 \/ op.cell \in DOMAIN table.cells
      /\ DOMAIN table.cells \subseteq Nat
  <2>1. m \in Msgs /\ m \in called
    BY OpFacts DEF WithMsg
  <2>2. i \in Parts(m)
    BY <2>1, OpFacts DEF Parts
  <2>3. op.cell = -1 \/ op.cell \in DOMAIN table.cells
    BY <1>1 DEF OpOK, WithCell, MaybeCell
  <2> QED
    BY <2>1, <2>2, <2>3, OpFacts
<1>3. /\ op'.at = op.at /\ op'.msg = op.msg /\ op'.i = op.i + 1
      /\ op'.cell = op.cell /\ op'.cut = op.cut /\ op' \in Ops
  BY <1>2 DEF Ops
<1>4. DbOK'
  BY <1>1 DEF DbOK
<1>5. lastSent' = lastSent \/ lastSent' = [lastSent EXCEPT ![m] = i]
  OBVIOUS
<1>6. /\ lastSent' \in [Msgs -> Nat]
      /\ \A n \in Msgs : lastSent'[n] \in Parts(n)
  BY <1>1, <1>2, <1>5 DEF StructsOK
<1>7. op'.at \notin {"down", "load"}
  BY <1>3
<1>8. CASE PartSent(m, i, table) /\ numTransit' = [numTransit EXCEPT ![m] = @ + 1]
  <2>1. /\ nextId' = nextId + 1 /\ nextId' \in Nat
        /\ WellFormed(table', Msgs, nextId')
        /\ table.hi \notin DOMAIN table.cells /\ table.hi \in Nat
        /\ DOMAIN table'.cells = DOMAIN table.cells \cup {table.hi}
        /\ table'.cells[table.hi] = Fragment(m, i)
        /\ \A k \in DOMAIN table.cells : table'.cells[k] = table.cells[k]
        /\ Fragment(m, i) \in Cell(Msgs)
        /\ wire' = wire \cup {Fragment(m, i)}
        /\ partReceipt' = [partReceipt EXCEPT ![m][i] = nextId + 1]
    BY <1>1, <1>2, <1>8, SentFacts DEF TableOK
  <2>2. Fragment(m, i).msg = m /\ Fragment(m, i).part = i
    BY DEF Fragment
  <2> HIDE DEF m, i
  <2>3. StructsOK'
    <3>1. DOMAIN partReceipt' = Msgs
      BY <1>1, <2>1 DEF StructsOK
    <3>2. ASSUME NEW n \in Msgs
          PROVE  partReceipt'[n] \in [Parts(n) -> Nat]
      BY <1>1, <1>2, <2>1 DEF StructsOK
    <3> QED
      BY <1>1, <1>6, <3>1, <3>2 DEF StructsOK
  <2>4. WorldOK'
    BY <1>1, <1>2, <2>1, <2>2 DEF WorldOK
  <2>5. OpOK'
    BY <1>1, <1>2, <1>3, <2>1 DEF OpOK
  <2>6. TableOK'
    BY <1>1, <1>2, <2>1, <2>2 DEF TableOK
  <2>7. CountOK'
    <3>1. numTransit' \in [Msgs -> Nat] /\ \A n \in Msgs : numTransit'[n] <= FragmentsAtATime
      BY <1>1, <1>2, <1>8 DEF CountOK, Room, m
    <3>2. \A n \in Msgs \ called' : numTransit'[n] = 0
      BY <1>1, <1>2, <1>8 DEF CountOK
    <3>3. ASSUME NEW n \in heap'
          PROVE  numTransit'[n] = Cardinality(Records(n)')
      <4>1. n \in Msgs /\ numTransit[n] = Cardinality(Records(n)) /\ numTransit[n] \in Nat
        BY <1>1, <3>3 DEF CountOK, StructsOK
      <4>2. Records(n) = CellsOf(table, n) \ {op.cell}
        BY DEF Records, CellsOf
      <4>3. Records(n)' = CellsOf(table', n) \ {op.cell}
        BY <1>3 DEF Records, CellsOf
      <4>4. op.cell # table.hi
        BY <1>2, <2>1
      <4>5. OneMore(table, table', table.hi)
        BY <1>1, <2>1 DEF TableOK, WellFormed, OneMore
      <4>6. /\ m = n => Cardinality(CellsOf(table', n) \ {op.cell})
                        = Cardinality(CellsOf(table, n) \ {op.cell}) + 1
            /\ m # n => CellsOf(table', n) = CellsOf(table, n)
        <5>1. table'.cells[table.hi].msg = m
          BY <2>1, <2>2
        <5>2. CASE m = n
          <6> DEFINE old == CellsOf(table, n) \ {op.cell}
          <6>1. table'.cells[table.hi].msg = n
            BY <5>1, <5>2
          <6>2. /\ CellsOf(table', n) = CellsOf(table, n) \cup {table.hi}
                /\ table.hi \notin CellsOf(table, n)
                /\ IsFiniteSet(CellsOf(table, n))
            BY <6>1, <4>5, CellAdded
          <6>3. /\ CellsOf(table', n) \ {op.cell} = old \cup {table.hi}
                /\ table.hi \notin old
            BY <6>2, <4>4
          <6>4. IsFiniteSet(old)
            BY <6>2, FS_Subset
          <6>5. Cardinality(old \cup {table.hi}) = Cardinality(old) + 1
            BY <6>3, <6>4, FS_AddElement
          <6> QED
            BY <5>2, <6>3, <6>5
        <5>3. CASE m # n
          <6>1. table'.cells[table.hi].msg # n
            BY <5>1, <5>3
          <6> QED
            BY <5>3, <6>1, <4>5, CellAddedOther
        <5> QED
          BY <5>2, <5>3
      <4>7. numTransit'[n] = IF m = n THEN numTransit[n] + 1 ELSE numTransit[n]
        BY <1>1, <1>2, <1>8, <4>1 DEF CountOK
      <4> QED
        BY <4>1, <4>2, <4>3, <4>6, <4>7
    <3> QED
      BY <1>7, <3>1, <3>2, <3>3 DEF CountOK
  <2> QED
    BY <1>4, <2>3, <2>4, <2>5, <2>6, <2>7 DEF Inv
<1>9. CASE PartRefused(m, i, table) /\ UNCHANGED numTransit
  <2>1. /\ table' = table /\ nextId' = nextId /\ wire' = wire
        /\ partReceipt' = partReceipt /\ numTransit' = numTransit
    BY <1>9 DEF PartRefused, base
  <2>2. StructsOK'
    BY <1>1, <1>6, <2>1 DEF StructsOK
  <2>3. WorldOK'
    BY <1>1, <2>1 DEF WorldOK
  <2>4. OpOK'
    BY <1>1, <1>3, <2>1 DEF OpOK
  <2>5. TableOK'
    BY <1>1, <2>1 DEF TableOK
  <2>6. CountOK'
    <3>1. \A n : Records(n)' = Records(n)
      BY <1>3, <2>1 DEF Records
    <3> QED
      BY <1>1, <1>7, <2>1, <3>1 DEF CountOK
  <2> QED
    BY <1>4, <2>2, <2>3, <2>4, <2>5, <2>6 DEF Inv
<1> QED
  BY <1>8, <1>9 DEF SendPart

(***************************************************************************)
(* The sending loops.                                                      *)
(***************************************************************************)
LEMMA FirstPartStep == Inv /\ FirstPart => Inv'
<1> SUFFICES ASSUME Inv, FirstPart
             PROVE  Inv'
  OBVIOUS
<1>1. lastSent' = lastSent \/ lastSent' = [lastSent EXCEPT ![op.msg] = op.i]
  <2>1. lastSent' = [lastSent EXCEPT ![op.msg] = IF nextId' # nextId THEN op.i ELSE @]
    BY DEF FirstPart, SendNextPart
  <2>2. lastSent \in [Msgs -> Nat] /\ op.msg \in Msgs
    BY OpFacts DEF FirstPart, WithMsg, Inv, StructsOK
  <2> QED
    BY <2>1, <2>2
<1> QED
  BY <1>1, SendPartStep DEF FirstPart, SendNextPart

LEMMA Pass1PartStep == Inv /\ Pass1Part => Inv'
<1> SUFFICES ASSUME Inv, Pass1Part
             PROVE  Inv'
  OBVIOUS
<1>1. lastSent' = lastSent \/ lastSent' = [lastSent EXCEPT ![op.msg] = op.i]
  <2>1. lastSent' = [lastSent EXCEPT ![op.msg] = IF nextId' # nextId THEN op.i ELSE @]
    BY DEF Pass1Part, SendNextPart
  <2>2. lastSent \in [Msgs -> Nat] /\ op.msg \in Msgs
    BY OpFacts DEF Pass1Part, WithMsg, Inv, StructsOK
  <2> QED
    BY <2>1, <2>2
<1> QED
  BY <1>1, SendPartStep DEF Pass1Part, SendNextPart

LEMMA Pass2PartStep == Inv /\ Pass2Part => Inv'
<1> SUFFICES ASSUME Inv, Pass2Part
             PROVE  Inv'
  OBVIOUS
<1>1. CASE Unsent(op.msg, op.i)
  BY <1>1, SendPartStep DEF Pass2Part, Pass2Goes
<1>2. CASE ~Unsent(op.msg, op.i)
  <2>1. /\ UNCHANGED <<structs, table, ring, lastReceipt, db, online, base, acked, client>>
        /\ op' = [op EXCEPT !.i = @ + 1] /\ op.at = "pass2"
    BY <1>2 DEF Pass2Part, structs
  <2>2. /\ op'.at = op.at /\ op'.msg = op.msg /\ op'.i = op.i + 1
        /\ op'.cell = op.cell /\ op'.cut = op.cut /\ op' \in Ops
    BY <2>1, OpFacts DEF Ops
  <2>3. DbOK'
    BY <2>1 DEF Inv, DbOK, client
  <2>4. WorldOK'
    BY <2>1 DEF Inv, WorldOK, base, client
  <2>5. OpOK'
    BY <2>1, <2>2 DEF Inv, OpOK, client
  <2> QED
    BY <2>1, <2>2, <2>3, <2>4, <2>5, FrameStep DEF base, client
<1> QED
  BY <1>1, <1>2

(***************************************************************************)
(* Steps that only move the handler on.                                    *)
(***************************************************************************)
LEMMA MoveStep ==
  ASSUME Inv, UNCHANGED <<structs, statics, db, nextId, called>>,
         online' \subseteq Friends,
         wire' \subseteq wire,
         DOMAIN acked' = Msgs, \A m \in Msgs : acked'[m] \subseteq Parts(m),
         OpOK',
         op'.cell = op.cell \/ (op.cell = -1 /\ op'.cell = -1),
         op'.at \in {"down", "load"} => op.at \in {"down", "load"}
  PROVE  Inv'
<1>1. /\ table' = table /\ called' = called /\ db' = db /\ lastReceipt' = lastReceipt
      /\ ring' = ring
  BY DEF statics
<1>2. DbOK'
  BY <1>1 DEF Inv, DbOK
<1>3. WorldOK'
  BY <1>1 DEF Inv, WorldOK
<1>4. DOMAIN table.cells \subseteq Nat
  BY OpFacts
<1> QED
  BY <1>1, <1>2, <1>3, <1>4, FrameStep

\* The environment and the label are as they were in all of them but the last.
LEMMA QuietStep ==
  ASSUME Inv, UNCHANGED <<structs, statics, db, online, base, acked, called>>,
         OpOK',
         op'.cell = op.cell \/ (op.cell = -1 /\ op'.cell = -1),
         op'.at \in {"down", "load"} => op.at \in {"down", "load"}
  PROVE  Inv'
<1>1. online' \subseteq Friends /\ wire' \subseteq wire
  BY DEF Inv, WorldOK, base
<1>2. DOMAIN acked' = Msgs /\ \A m \in Msgs : acked'[m] \subseteq Parts(m)
  BY DEF Inv, WorldOK
<1> QED
  BY <1>1, <1>2, MoveStep DEF base

LEMMA NextPartsFields ==
  ASSUME Inv, NEW m \in called, NEW c \in Int
  PROVE  LET o == NextParts(m, c)
         IN  o \in Ops /\ o.at = "pass1" /\ o.msg = m /\ o.cell = c
<1>1. m \in Msgs /\ lastSent[m] \in Nat
  BY DEF Inv, WorldOK, StructsOK, Parts
<1>2. NextParts(m, c) = [at |-> "pass1", msg |-> m, i |-> lastSent[m] + 1,
                         cell |-> c, cut |-> 0]
  BY DEF NextParts
<1>3. m \in Msgs \cup {NoMsg} /\ lastSent[m] + 1 \in Nat
  BY <1>1
<1>4. NextParts(m, c) \in Ops
  BY <1>2, <1>3 DEF Ops, Labels
<1> QED
  BY <1>2, <1>4

LEMMA Pass1DoneStep == Inv /\ Pass1Done => Inv'
<1> SUFFICES ASSUME Inv, Pass1Done
             PROVE  Inv'
  OBVIOUS
<1>1. op.at = "pass1" /\ UNCHANGED <<structs, statics, db, online, base, acked, called>>
  BY DEF Pass1Done, client
<1>2. op' = [op EXCEPT !.at = "pass2", !.i = 0]
  BY DEF Pass1Done
<1>3. op' = [at |-> "pass2", msg |-> op.msg, i |-> 0, cell |-> op.cell, cut |-> op.cut]
  BY <1>2, OpFacts DEF Ops
<1>4. op' \in Ops /\ op'.at = "pass2" /\ op'.msg = op.msg /\ op'.cell = op.cell
  BY <1>3, OpFacts DEF Ops, Labels
<1>5. OpOK'
  BY <1>1, <1>4 DEF Inv, OpOK, WithMsg, WithCell, MaybeCell, statics
<1> QED
  BY <1>1, <1>4, <1>5, QuietStep

LEMMA Pass2DoneStep == Inv /\ Pass2Done => Inv'
<1> SUFFICES ASSUME Inv, Pass2Done
             PROVE  Inv'
  OBVIOUS
<1>1. /\ op.at = "pass2" /\ UNCHANGED <<structs, statics, db, online, base, acked, called>>
      /\ table' = table /\ called' = called
  BY DEF Pass2Done, client, statics
<1>2. op.cell = -1 \/ (op.cell \in DOMAIN table.cells /\ op.cell \in Nat)
  <2>1. op.cell = -1 \/ op.cell \in DOMAIN table.cells
    BY <1>1 DEF Inv, OpOK
  <2>2. DOMAIN table.cells \subseteq Nat
    BY OpFacts
  <2> QED
    BY <2>1, <2>2
<1>3. CASE op.cell >= 0
  <2>1. op' = [op EXCEPT !.at = "retire", !.i = 0]
    BY <1>3 DEF Pass2Done
  <2>2. op' = [at |-> "retire", msg |-> op.msg, i |-> 0, cell |-> op.cell, cut |-> op.cut]
    BY <2>1, OpFacts DEF Ops
  <2>3. op' \in Ops /\ op'.at = "retire" /\ op'.cell = op.cell
    BY <2>2, OpFacts DEF Ops, Labels
  <2>4. OpOK'
    BY <1>1, <1>2, <1>3, <2>3 DEF OpOK, WithMsg, WithCell, MaybeCell
  <2> QED
    BY <1>1, <2>3, <2>4, QuietStep
<1>4. CASE ~(op.cell >= 0)
  <2>1. op' = MoreAfter(op.msg) /\ op.cell = -1
    BY <1>2, <1>4 DEF Pass2Done
  <2>2. /\ op' \in Ops /\ op'.cell = -1
        /\ op'.at = "idle" \/ (op'.at = "more" /\ op'.msg \in called)
    <3>1. MoreTarget(MoreAfter(op.msg))
      BY MoreType DEF Inv
    <3> QED
      BY <2>1, <3>1 DEF MoreTarget
  <2>3. OpOK'
    BY <1>1, <2>2 DEF OpOK, WithMsg, WithCell, MaybeCell
  <2> QED
    BY <1>1, <2>1, <2>2, <2>3, QuietStep
<1> QED
  BY <1>3, <1>4

LEMMA ResendDoneStep == Inv /\ ResendDone => Inv'
<1> SUFFICES ASSUME Inv, ResendDone
             PROVE  Inv'
  OBVIOUS
<1>1. /\ op.at = "expire" /\ op' = MoreFromHead
      /\ UNCHANGED <<structs, statics, db, online, base, acked, called>>
      /\ called' = called
  BY DEF ResendDone, client
<1>2. op.cell = -1
  BY <1>1 DEF Inv, OpOK, WithCell, MaybeCell
<1>3. /\ op' \in Ops /\ op'.cell = -1
      /\ op'.at = "idle" \/ (op'.at = "more" /\ op'.msg \in called)
  <2>1. MoreTarget(MoreFromHead)
    BY MoreType DEF Inv
  <2> QED
    BY <1>1, <2>1 DEF MoreTarget
<1>4. OpOK'
  BY <1>1, <1>3 DEF OpOK, WithMsg, WithCell, MaybeCell
<1> QED
  BY <1>1, <1>2, <1>3, <1>4, QuietStep

LEMMA SendMoreStep == Inv /\ SendMore => Inv'
<1> SUFFICES ASSUME Inv, SendMore
             PROVE  Inv'
  OBVIOUS
<1>1. /\ op.at = "more"
      /\ op' = NextParts(op.msg, -1) \/ op' = MoreAfter(op.msg)
      /\ UNCHANGED <<structs, statics, db, online, base, acked, called>>
      /\ called' = called
  BY DEF SendMore, client
<1>2. op.cell = -1 /\ op.msg \in called
  BY <1>1 DEF Inv, OpOK, WithCell, MaybeCell, WithMsg
<1>3. /\ op' \in Ops /\ op'.cell = -1
      /\ \/ op'.at = "idle"
         \/ op'.at \in {"more", "pass1"} /\ op'.msg \in called
  <2>1. MoreTarget(MoreAfter(op.msg))
    BY MoreType DEF Inv
  <2>2. LET o == NextParts(op.msg, -1)
        IN  o \in Ops /\ o.at = "pass1" /\ o.msg = op.msg /\ o.cell = -1
    BY <1>2, NextPartsFields
  <2> QED
    BY <1>1, <1>2, <2>1, <2>2 DEF MoreTarget
<1>4. OpOK'
  BY <1>1, <1>3 DEF OpOK, WithMsg, WithCell, MaybeCell
<1> QED
  BY <1>1, <1>2, <1>3, <1>4, QuietStep

LEMMA PeriodicStep == Inv /\ Periodic => Inv'
<1> SUFFICES ASSUME Inv, Periodic
             PROVE  Inv'
  OBVIOUS
<1>1. /\ op = Idle
      /\ UNCHANGED <<structs, statics, db, online, base, acked, called>>
      /\ called' = called /\ table' = table
  BY DEF Periodic, client, statics
<1>2. op.cell = -1 /\ op.at = "idle"
  BY <1>1, OpFacts
<1>3. PICK cut \in {0} \cup {table.cells[k].receipt : k \in DOMAIN table.cells} :
        op' = IF table.num = 0 THEN MoreFromHead
              ELSE [at |-> "expire", msg |-> NoMsg, i |-> table.lo, cell |-> -1, cut |-> cut]
  BY DEF Periodic
<1>4. cut \in Nat /\ table.lo \in Nat
  <2>1. WellFormed(table, Msgs, nextId) /\ nextId \in Nat
    BY DEF Inv, TableOK
  <2>2. table.lo \in Nat /\ \A k \in DOMAIN table.cells : table.cells[k].receipt \in Nat
    BY <2>1, CellFacts
  <2> QED
    BY <2>2
<1>6. /\ op' \in Ops /\ op'.cell = -1
      /\ \/ op'.at \in {"idle", "expire"}
         \/ op'.at = "more" /\ op'.msg \in called
  <2>1. CASE table.num = 0
    <3>1. MoreTarget(MoreFromHead)
      BY MoreType DEF Inv
    <3> QED
      BY <2>1, <1>3, <3>1 DEF MoreTarget
  <2>2. CASE table.num # 0
    BY <2>2, <1>3, <1>4 DEF Ops, Labels
  <2> QED
    BY <2>1, <2>2
<1>7. OpOK'
  BY <1>1, <1>6 DEF OpOK, WithMsg, WithCell, MaybeCell
<1> QED
  BY <1>1, <1>2, <1>6, <1>7, QuietStep

LEMMA NotifyStep == Inv /\ Notify => Inv'
<1> SUFFICES ASSUME Inv, Notify
             PROVE  Inv'
  OBVIOUS
<1>1. /\ op.at = "notify" /\ op' = [op EXCEPT !.at = "discard"]
      /\ UNCHANGED <<structs, statics, db, online, base, acked, called>>
      /\ table' = table /\ called' = called
  BY DEF Notify, statics
<1>2. op' = [at |-> "discard", msg |-> op.msg, i |-> op.i, cell |-> op.cell, cut |-> op.cut]
  BY <1>1, OpFacts DEF Ops
<1>3. op' \in Ops /\ op'.at = "discard" /\ op'.msg = op.msg /\ op'.cell = op.cell
  BY <1>2, OpFacts DEF Ops, Labels
<1>4. OpOK'
  BY <1>1, <1>3 DEF Inv, OpOK, WithMsg, WithCell, MaybeCell
<1> QED
  BY <1>1, <1>3, <1>4, QuietStep

LEMMA RestartStep == Inv /\ Restart => Inv'
<1> SUFFICES ASSUME Inv, Restart
             PROVE  Inv'
  OBVIOUS
<1>1. /\ op.at = "down" /\ op' = At("load")
      /\ UNCHANGED <<structs, statics, db, online, base, acked, called>>
      /\ table' = table /\ called' = called
  BY DEF Restart, client, statics
<1>2. op' \in Ops /\ op'.at = "load" /\ op'.cell = -1 /\ op.cell = -1
  BY <1>1, AtFields DEF Labels, Inv, OpOK, WithCell, MaybeCell
<1>3. OpOK'
  BY <1>1, <1>2 DEF OpOK, WithMsg, WithCell, MaybeCell
<1> QED
  BY <1>1, <1>2, <1>3, QuietStep

LEMMA LoadDoneStep == Inv /\ LoadDone => Inv'
<1> SUFFICES ASSUME Inv, LoadDone
             PROVE  Inv'
  OBVIOUS
<1>1. /\ op.at = "load" /\ op' = Idle
      /\ UNCHANGED <<structs, statics, db, online, base, acked, called>>
      /\ table' = table /\ called' = called
  BY DEF LoadDone, client, statics
<1>2. op' \in Ops /\ op'.at = "idle" /\ op'.cell = -1 /\ op.cell = -1
  BY <1>1, AtFields DEF Idle, Labels, Inv, OpOK, WithCell, MaybeCell
<1>3. OpOK'
  BY <1>1, <1>2 DEF OpOK, WithMsg, WithCell, MaybeCell
<1> QED
  BY <1>1, <1>2, <1>3, QuietStep

(***************************************************************************)
(* The friends, and receipts that are not in the table.                    *)
(***************************************************************************)
LEMMA FriendStep == Inv /\ (\E fr \in Unsteady : GoOffline(fr) \/ GoOnline(fr)) => Inv'
<1> SUFFICES ASSUME Inv, NEW fr \in Unsteady, GoOffline(fr) \/ GoOnline(fr)
             PROVE  Inv'
  OBVIOUS
<1>1. /\ UNCHANGED <<structs, statics, db, op, base, acked, called>>
      /\ table' = table /\ called' = called /\ op' = op
      /\ online' \subseteq online \cup {fr}
  BY DEF GoOffline, GoOnline, client, statics
<1>2. online' \subseteq Friends /\ nextId' = nextId /\ wire' \subseteq wire
  BY <1>1 DEF Inv, WorldOK, base
<1>3. DOMAIN acked' = Msgs /\ \A m \in Msgs : acked'[m] \subseteq Parts(m)
  BY <1>1 DEF Inv, WorldOK
<1>4. OpOK'
  BY <1>1 DEF Inv, OpOK
<1> QED
  BY <1>1, <1>2, <1>3, <1>4, MoveStep

LEMMA ArrivesFacts ==
  ASSUME Inv, NEW f \in wire, Arrives(f)
  PROVE  /\ f \in Cell(Msgs) /\ f.receipt \in Nat \ {0}
         /\ op.at = "idle" /\ op.cell = -1
         /\ wire' \subseteq wire
         /\ DOMAIN acked' = Msgs /\ \A m \in Msgs : acked'[m] \subseteq Parts(m)
<1>1. f \in Cell(Msgs) /\ f.part \in Parts(f.msg)
  BY DEF Inv, WorldOK
<1>2. f.receipt \in Nat \ {0} /\ f.msg \in Msgs
  BY <1>1 DEF Cell
<1>3. op.at = "idle" /\ op.cell = -1
  BY OpFacts DEF Arrives
<1>4. wire' \subseteq wire /\ acked' = [acked EXCEPT ![f.msg] = @ \cup {f.part}]
  BY DEF Arrives
<1>5. DOMAIN acked' = Msgs /\ \A m \in Msgs : acked'[m] \subseteq Parts(m)
  BY <1>1, <1>2, <1>4 DEF Inv, WorldOK
<1> QED
  BY <1>1, <1>2, <1>3, <1>4, <1>5

LEMMA ForeignReceiptStep == Inv /\ (\E f \in wire : ForeignReceipt(f)) => Inv'
<1> SUFFICES ASSUME Inv, NEW f \in wire, ForeignReceipt(f)
             PROVE  Inv'
  OBVIOUS
<1>1. /\ UNCHANGED <<structs, statics, db, nextId, called>>
      /\ table' = table /\ called' = called /\ op' = op /\ online' = online
      /\ Arrives(f)
  BY DEF ForeignReceipt, statics
<1>2. online' \subseteq Friends
  BY <1>1 DEF Inv, WorldOK
<1>3. wire' \subseteq wire /\ DOMAIN acked' = Msgs /\ \A m \in Msgs : acked'[m] \subseteq Parts(m)
  BY <1>1, ArrivesFacts
<1>4. OpOK'
  BY <1>1 DEF Inv, OpOK
<1> QED
  BY <1>1, <1>2, <1>3, <1>4, MoveStep

(***************************************************************************)
(* Steps that write the database.                                          *)
(***************************************************************************)
LEMMA RowWritten ==
  ASSUME DbOK, NEW m \in Msgs, NEW row \in Row,
         row.confirmed \subseteq Parts(m), row.meta => m \in called,
         called \subseteq called', db' = [db EXCEPT ![m] = row]
  PROVE  DbOK'
BY DEF DbOK

\* The data row is written or deleted: nothing else of the row's type depends on it.
LEMMA DataWritten ==
  ASSUME NEW row \in Row, NEW d \in BOOLEAN
  PROVE  LET new == [row EXCEPT !.data = d]
         IN  new \in Row /\ new.confirmed = row.confirmed /\ new.meta = row.meta
BY DEF Row

LEMMA MetaWritten ==
  ASSUME NEW row \in Row
  PROVE  LET new == [row EXCEPT !.meta = TRUE]
         IN  new \in Row /\ new.confirmed = row.confirmed
BY DEF Row

LEMMA ConfirmMetaStep == Inv /\ ConfirmMeta => Inv'
<1> SUFFICES ASSUME Inv, ConfirmMeta
             PROVE  Inv'
  OBVIOUS
<1>1. /\ op.at = "confirmMeta" /\ op.msg \in called /\ op.msg \in Msgs
      /\ op.cell \in DOMAIN table.cells /\ op.cell \in Int
      /\ UNCHANGED <<structs, statics, online, base, acked, called, nextId, table>>
      /\ table' = table /\ called' = called
  BY OpFacts DEF ConfirmMeta, client, statics, base, WithMsg, WithCell, MaybeCell, Inv, OpOK
<1>2. db' = [db EXCEPT ![op.msg].done = @ + 1]
  BY DEF ConfirmMeta
<1>3. /\ op' \in Ops
      /\ op'.cell = op.cell
      /\ \/ op'.at \in {"notify", "pass1"} /\ op'.msg \in called
         \/ op'.at = "retire"
  <2>1. LET o == NextParts(op.msg, op.cell)
        IN  o \in Ops /\ o.at = "pass1" /\ o.msg = op.msg /\ o.cell = op.cell
    BY <1>1, NextPartsFields
  <2>2. ASSUME NEW l \in Labels
        PROVE  LET o == [op EXCEPT !.at = l]
               IN  o \in Ops /\ o.at = l /\ o.msg = op.msg /\ o.cell = op.cell
    BY OpFacts DEF Ops
  <2>3. "notify" \in Labels /\ "retire" \in Labels
    BY DEF Labels
  <2> QED
    BY <1>1, <2>1, <2>2, <2>3 DEF ConfirmMeta
<1>4. DbOK'
  BY <1>1, <1>2 DEF Inv, DbOK, Row
<1>5. WorldOK'
  BY <1>1 DEF Inv, WorldOK, statics, base
<1>6. OpOK'
  BY <1>1, <1>3 DEF OpOK, WithMsg, WithCell, MaybeCell
<1> QED
  BY <1>1, <1>3, <1>4, <1>5, <1>6, FrameStep

LEMMA InsertDataStep == Inv /\ InsertData => Inv'
<1> SUFFICES ASSUME Inv, InsertData
             PROVE  Inv'
  OBVIOUS
<1>1. /\ op.at = "insertData" /\ op.msg \in called /\ op.msg \in Msgs /\ op' = Returned
      /\ UNCHANGED <<structs, statics, online, base, acked, called, nextId, table>>
      /\ table' = table /\ called' = called
  BY OpFacts DEF InsertData, statics, base, WithMsg, WithCell, MaybeCell, Inv, OpOK
<1>2. db' = [db EXCEPT ![op.msg].data = TRUE]
  BY DEF InsertData
<1>3. OpOK' /\ op'.cell = op.cell /\ op'.at \in {"idle", "discard"}
  BY <1>1, ReturnedOK
<1>5. DbOK'
  <2> DEFINE row == [db[op.msg] EXCEPT !.data = TRUE]
  <2>1. DbOK /\ db[op.msg] \in Row
    BY <1>1 DEF Inv, DbOK
  <2>2. row \in Row /\ row.confirmed = db[op.msg].confirmed /\ row.meta = db[op.msg].meta
    BY <2>1, DataWritten
  <2>3. db' = [db EXCEPT ![op.msg] = row]
    BY <1>2
  <2> HIDE DEF row
  <2> QED
    BY <1>1, <2>1, <2>2, <2>3, RowWritten DEF DbOK
<1>6. WorldOK'
  BY <1>1 DEF Inv, WorldOK, statics, base
<1> QED
  BY <1>1, <1>3, <1>5, <1>6, FrameStep

LEMMA DropRowStep == Inv /\ (\E m \in Msgs : DropRow(m)) => Inv'
<1> SUFFICES ASSUME Inv, NEW m \in Msgs, DropRow(m)
             PROVE  Inv'
  OBVIOUS
<1>1. /\ UNCHANGED <<structs, statics, online, base, acked, called, nextId, table>>
      /\ table' = table /\ called' = called /\ op' = op
      /\ db' = [db EXCEPT ![m].data = FALSE]
  BY DEF DropRow, statics, base, client
<1>2. DbOK'
  <2> DEFINE row == [db[m] EXCEPT !.data = FALSE]
  <2>1. DbOK /\ db[m] \in Row
    BY DEF Inv, DbOK
  <2>2. row \in Row /\ row.confirmed = db[m].confirmed /\ row.meta = db[m].meta
    BY <2>1, DataWritten
  <2>3. db' = [db EXCEPT ![m] = row]
    BY <1>1
  <2> HIDE DEF row
  <2> QED
    BY <1>1, <2>1, <2>2, <2>3, RowWritten DEF DbOK
<1>3. WorldOK'
  BY <1>1 DEF Inv, WorldOK, statics, base
<1>4. OpOK'
  BY <1>1 DEF Inv, OpOK
<1> QED
  BY <1>1, <1>2, <1>3, <1>4, FrameStep

(***************************************************************************)
(* Steps that create, free and count messages.                             *)
(***************************************************************************)
\* A message that was never sent has no record and no count.
LEMMA SendLongStep == Inv /\ (\E m \in Msgs : SendLong(m)) => Inv'
<1> SUFFICES ASSUME Inv, NEW m \in Msgs, SendLong(m)
             PROVE  Inv'
  OBVIOUS
<1>1. /\ StructsOK /\ DbOK /\ WorldOK /\ OpOK /\ TableOK /\ CountOK
      /\ m \notin called /\ op.at \in {"idle", "discard"}
      /\ called' = called \cup {m} /\ heap' = heap \cup {m}
      /\ partReceipt' = partReceipt /\ confirmed' = confirmed /\ lastSent' = lastSent
      /\ numTransit' = numTransit /\ numConfirmed' = numConfirmed
      /\ clientReceipt' = clientReceipt /\ ring' = ring /\ table' = table
      /\ lastReceipt' = lastReceipt /\ db' = db /\ online' = online /\ nextId' = nextId
      /\ wire' = wire /\ acked' = acked
      /\ op' = [at |-> "first", msg |-> m, i |-> 0, cell |-> op.cell, cut |-> 0]
  BY OpFacts DEF SendLong, Inv, statics, base
<1>2. op.cell \in Int /\ (op.cell = -1 \/ op.cell \in DOMAIN table.cells)
  BY <1>1, OpFacts DEF OpOK, WithCell, MaybeCell
<1>3. op' \in Ops /\ op'.at = "first" /\ op'.msg = m /\ op'.cell = op.cell
  BY <1>1, <1>2 DEF Ops, Labels
<1>4. StructsOK'
  BY <1>1 DEF StructsOK
<1>5. DbOK'
  BY <1>1 DEF DbOK
<1>6. WorldOK'
  <2>1. ring \in Seq(called \cup {m})
    BY <1>1 DEF WorldOK
  <2> QED
    BY <1>1, <2>1 DEF WorldOK
<1>7. OpOK'
  BY <1>1, <1>2, <1>3 DEF OpOK, WithMsg, WithCell, MaybeCell
<1>8. TableOK'
  BY <1>1 DEF TableOK
<1>9. CountOK'
  <2>1. \A n \in Msgs : Records(n)' = Records(n)
    BY <1>1, <1>3 DEF Records
  <2>2. Records(m) = {}
    BY <1>1 DEF Records, TableOK
  <2>3. numTransit[m] = 0 /\ Cardinality({}) = 0
    BY <1>1, FS_EmptySet DEF CountOK
  <2>4. \A n \in heap' : numTransit'[n] = Cardinality(Records(n)')
    BY <1>1, <2>1, <2>2, <2>3 DEF CountOK, StructsOK
  <2> QED
    BY <1>1, <1>3, <2>4 DEF CountOK
<1> QED
  BY <1>4, <1>5, <1>6, <1>7, <1>8, <1>9 DEF Inv

\* Freeing a message that could not be sent.
LEMMA SendFailsStep == Inv /\ SendFails => Inv'
<1> SUFFICES ASSUME Inv, SendFails
             PROVE  Inv'
  OBVIOUS
<1>1. /\ StructsOK /\ DbOK /\ WorldOK /\ OpOK /\ TableOK /\ CountOK
      /\ op.at = "first" /\ op' = Returned
      /\ called' = called /\ heap' \subseteq heap
      /\ partReceipt' = partReceipt /\ confirmed' = confirmed /\ lastSent' = lastSent
      /\ numTransit' = numTransit /\ numConfirmed' = numConfirmed
      /\ clientReceipt' = clientReceipt /\ ring' = ring /\ table' = table
      /\ lastReceipt' = lastReceipt /\ db' = db /\ online' = online /\ nextId' = nextId
      /\ wire' = wire /\ acked' = acked
  BY DEF SendFails, FirstDone, Inv, statics, base, client
<1>2. OpOK' /\ op'.cell = op.cell /\ op'.at \in {"idle", "discard"}
  BY <1>1, ReturnedOK
<1>3. StructsOK' /\ DbOK' /\ WorldOK' /\ TableOK'
  BY <1>1 DEF StructsOK, DbOK, WorldOK, TableOK
<1>5. CountOK'
  <2>1. \A n : Records(n)' = Records(n)
    BY <1>1, <1>2 DEF Records
  <2> QED
    BY <1>1, <1>2, <2>1 DEF CountOK
<1> QED
  BY <1>2, <1>3, <1>5 DEF Inv

LEMMA InsertMetaStep == Inv /\ InsertMeta => Inv'
<1> SUFFICES ASSUME Inv, InsertMeta
             PROVE  Inv'
  OBVIOUS
<1>1. /\ StructsOK /\ DbOK /\ WorldOK /\ OpOK /\ TableOK /\ CountOK
      /\ op.at = "first" /\ op.msg \in called /\ op.msg \in Msgs
      /\ op.cell = -1 \/ op.cell \in DOMAIN table.cells
      /\ called' = called /\ heap' = heap
      /\ partReceipt' = partReceipt /\ confirmed' = confirmed /\ lastSent' = lastSent
      /\ numTransit' = numTransit /\ numConfirmed' = numConfirmed /\ table' = table
      /\ online' = online /\ nextId' = nextId /\ wire' = wire /\ acked' = acked
  BY OpFacts DEF InsertMeta, FirstDone, Inv, base, client, OpOK, WithMsg, WithCell, MaybeCell
<1>2. /\ clientReceipt' \in [Msgs -> Nat]
      /\ lastReceipt' \in ReceiptRangeLo .. ReceiptRangeHi
      /\ ring' \in Seq(called)
      /\ DbOK'
      /\ op' \in Ops /\ op'.cell = op.cell
      /\ op'.at = "fault" \/ (op'.at = "insertData" /\ op'.msg \in called)
  <2>1. CASE FreeReceipts = {}
    <3>1. /\ clientReceipt' = clientReceipt /\ lastReceipt' = lastReceipt /\ ring' = ring
          /\ db' = db /\ op' = [op EXCEPT !.at = "fault"]
      BY <2>1 DEF InsertMeta
    <3>2. op' \in Ops /\ op'.cell = op.cell /\ op'.at = "fault"
      BY <3>1, OpFacts DEF Ops, Labels
    <3> QED
      BY <1>1, <3>1, <3>2 DEF StructsOK, WorldOK, DbOK
  <2>2. CASE FreeReceipts # {}
    <3>1. /\ clientReceipt' = [clientReceipt EXCEPT ![op.msg] = GenerateReceiptNo]
          /\ lastReceipt' = GenerateReceiptNo
          /\ ring' = Link(ring, op.msg)
          /\ db' = [db EXCEPT ![op.msg].meta = TRUE]
          /\ op' = [op EXCEPT !.at = "insertData"]
      BY <2>2 DEF InsertMeta
    <3>2. GenerateReceiptNo \in ReceiptRangeLo .. ReceiptRangeHi
      BY <2>2, <1>1, GeneratedType DEF WorldOK
    <3>3. ring' \in Seq(called)
      BY <1>1, <3>1, LinkType DEF WorldOK
    <3>4. op' \in Ops /\ op'.at = "insertData" /\ op'.msg = op.msg /\ op'.cell = op.cell
      BY <3>1, OpFacts DEF Ops, Labels
    <3>5. DbOK'
      <4> DEFINE row == [db[op.msg] EXCEPT !.meta = TRUE]
      <4>1. row \in Row /\ row.confirmed = db[op.msg].confirmed
        <5>1. db[op.msg] \in Row
          BY <1>1 DEF DbOK
        <5> QED
          BY <5>1, MetaWritten
      <4>2. db' = [db EXCEPT ![op.msg] = row]
        BY <3>1
      <4> HIDE DEF row
      <4> QED
        BY <1>1, <4>1, <4>2, RowWritten DEF DbOK
    <3>6. clientReceipt' \in [Msgs -> Nat]
      BY <1>1, <3>1, <3>2 DEF StructsOK
    <3> QED
      BY <1>1, <3>1, <3>2, <3>3, <3>4, <3>5, <3>6
  <2> QED
    BY <2>1, <2>2
<1>3. StructsOK' /\ WorldOK' /\ TableOK'
  BY <1>1, <1>2 DEF StructsOK, WorldOK, TableOK
<1>4. OpOK'
  BY <1>1, <1>2 DEF OpOK, WithMsg, WithCell, MaybeCell
<1>5. CountOK'
  <2>1. \A n : Records(n)' = Records(n)
    BY <1>1, <1>2 DEF Records
  <2> QED
    BY <1>1, <1>2, <2>1 DEF CountOK
<1> QED
  BY <1>2, <1>3, <1>4, <1>5 DEF Inv

\* The message is freed while its last receipt is still in the table.
LEMMA DiscardStep == Inv /\ Discard => Inv'
<1> SUFFICES ASSUME Inv, Discard
             PROVE  Inv'
  OBVIOUS
<1> DEFINE m == op.msg
<1>1. /\ StructsOK /\ DbOK /\ WorldOK /\ OpOK /\ TableOK /\ CountOK
      /\ op.at = "discard" /\ m \in called /\ m \in Msgs /\ op.cell \in DOMAIN table.cells
      /\ called' = called /\ table' = table /\ lastReceipt' = lastReceipt
      /\ online' = online /\ nextId' = nextId /\ wire' = wire /\ acked' = acked
      /\ db' = [db EXCEPT ![m].data = FALSE]
      /\ ring' = Unlink(ring, m)
      /\ op' = [op EXCEPT !.at = "retire", !.msg = NoMsg]
  BY OpFacts DEF Discard, Inv, base, client, OpOK, WithMsg, WithCell, MaybeCell
<1>2. /\ heap' = heap \ {m}
      /\ partReceipt' = [partReceipt EXCEPT ![m] = [i \in Parts(m) |-> 0]]
      /\ confirmed' = [confirmed EXCEPT ![m] = {}]
      /\ lastSent' = [lastSent EXCEPT ![m] = 0]
      /\ numTransit' = [numTransit EXCEPT ![m] = 0]
      /\ numConfirmed' = [numConfirmed EXCEPT ![m] = 0]
      /\ clientReceipt' = [clientReceipt EXCEPT ![m] = 0]
  BY DEF Discard, Freed
<1> HIDE DEF m
<1>3. op' \in Ops /\ op'.at = "retire" /\ op'.cell = op.cell
  <2>1. op' = [at |-> "retire", msg |-> NoMsg, i |-> op.i, cell |-> op.cell, cut |-> op.cut]
    BY <1>1, OpFacts DEF Ops
  <2> QED
    BY <2>1, OpFacts DEF Ops, Labels
<1>4. StructsOK'
  BY <1>1, <1>2, PartsNat DEF StructsOK
<1>5. DbOK'
  <2> DEFINE row == [db[m] EXCEPT !.data = FALSE]
  <2>1. db[m] \in Row
    BY <1>1 DEF DbOK
  <2>2. row \in Row /\ row.confirmed = db[m].confirmed /\ row.meta = db[m].meta
    BY <2>1, DataWritten
  <2>3. db' = [db EXCEPT ![m] = row]
    BY <1>1
  <2> HIDE DEF row
  <2> QED
    BY <1>1, <2>1, <2>2, <2>3, RowWritten DEF DbOK
<1>6. WorldOK'
  <2>1. ring' \in Seq(called)
    BY <1>1, UnlinkType DEF WorldOK
  <2> QED
    BY <1>1, <2>1 DEF WorldOK
<1>7. OpOK'
  BY <1>1, <1>3 DEF OpOK, WithMsg, WithCell, MaybeCell
<1>8. TableOK'
  BY <1>1 DEF TableOK
<1>9. CountOK'
  <2>1. \A n : Records(n)' = Records(n)
    BY <1>1, <1>3 DEF Records
  <2> QED
    BY <1>1, <1>2, <1>3, <2>1 DEF CountOK
<1> QED
  BY <1>4, <1>5, <1>6, <1>7, <1>8, <1>9 DEF Inv

\* The end of tryProcessReceipt: the cell that was set aside is emptied.
LEMMA RetireStep == Inv /\ Retire => Inv'
<1> SUFFICES ASSUME Inv, Retire
             PROVE  Inv'
  OBVIOUS
<1>1. /\ StructsOK /\ DbOK /\ WorldOK /\ OpOK /\ TableOK /\ CountOK
      /\ op.at = "retire" /\ op' = Idle /\ op.cell \in DOMAIN table.cells
      /\ called' = called /\ heap' = heap /\ numTransit' = numTransit
      /\ UNCHANGED structs /\ ring' = ring /\ lastReceipt' = lastReceipt /\ db' = db
      /\ online' = online /\ nextId' = nextId /\ wire' = wire /\ acked' = acked
      /\ table' = RetireReceipt(table, op.cell)
  BY DEF Retire, Inv, base, client, OpOK, WithCell, MaybeCell, structs
<1>2. op' \in Ops /\ op'.at = "idle" /\ op'.cell = -1
  BY <1>1, AtFields DEF Idle, Labels
<1>3. /\ WellFormed(table', Msgs, nextId)
      /\ DOMAIN table'.cells = DOMAIN table.cells \ {op.cell}
      /\ \A j \in DOMAIN table'.cells : table'.cells[j] = table.cells[j]
  <2>1. WellFormed(table, Msgs, nextId) /\ nextId \in Nat
    BY <1>1 DEF TableOK
  <2>2. WellFormed(table', Msgs, nextId) /\ OneMore(table', table, op.cell)
    BY <1>1, <2>1, RetireWellFormed
  <2> QED
    BY <1>1, <2>2 DEF OneMore
<1>4. StructsOK' /\ DbOK' /\ WorldOK'
  BY <1>1 DEF StructsOK, DbOK, WorldOK, structs
<1>5. OpOK'
  BY <1>1, <1>2 DEF OpOK, WithMsg, WithCell, MaybeCell
<1>6. TableOK'
  BY <1>1, <1>3 DEF TableOK
<1>7. CountOK'
  <2>1. DOMAIN table'.cells \subseteq Nat
    BY <1>1, <1>3, OpFacts
  <2>2. \A n : Records(n)' = Records(n)
    BY <1>2, <1>3, <2>1 DEF Records
  <2> QED
    BY <1>1, <1>2, <2>2 DEF CountOK
<1> QED
  BY <1>4, <1>5, <1>6, <1>7 DEF Inv

\* The receipt's record stops counting before its cell is emptied.
LEMMA ReceiptStep == Inv /\ (\E f \in wire : Receipt(f)) => Inv'
<1> SUFFICES ASSUME Inv, NEW f \in wire, Receipt(f)
             PROVE  Inv'
  OBVIOUS
<1> DEFINE k == FindReceipt(table, f.receipt)
           c == table.cells[k]
<1>1. /\ StructsOK /\ DbOK /\ WorldOK /\ OpOK /\ TableOK /\ CountOK
      /\ Arrives(f) /\ ReceiptAt(table, k) = f.receipt
      /\ called' = called /\ heap' = heap /\ table' = table
      /\ lastSent' = lastSent /\ clientReceipt' = clientReceipt
      /\ ring' = ring /\ lastReceipt' = lastReceipt
      /\ online' = online /\ nextId' = nextId
  BY DEF Receipt, Inv, statics, client
<1>2. CASE c.msg \in heap /\ db[c.msg].data
  <2>1. /\ partReceipt' = [partReceipt EXCEPT ![c.msg][c.part] = 0]
        /\ confirmed' = [confirmed EXCEPT ![c.msg] = @ \cup {c.part}]
        /\ numConfirmed' = [numConfirmed EXCEPT ![c.msg] = @ + 1]
        /\ numTransit' = [numTransit EXCEPT ![c.msg] = @ - 1]
        /\ db' = [db EXCEPT ![c.msg].confirmed = @ \cup {c.part}]
        /\ op' = [At("confirmMeta") EXCEPT !.msg = c.msg, !.cell = k]
    BY <1>2 DEF Receipt
  <2> HIDE DEF k
  <2>2. /\ f.receipt \in Nat \ {0} /\ op.at = "idle" /\ op.cell = -1 /\ wire' \subseteq wire
        /\ DOMAIN acked' = Msgs /\ \A m \in Msgs : acked'[m] \subseteq Parts(m)
    BY <1>1, ArrivesFacts
  <2>3. k \in DOMAIN table.cells
    BY <1>1, <2>2, FoundIsOccupied
  <2>4. /\ c.msg \in called /\ c.msg \in Msgs /\ c.part \in Parts(c.msg)
        /\ k \in Nat
    BY <1>1, <2>3, OpFacts DEF TableOK, WorldOK
  <2>5. op' = [at |-> "confirmMeta", msg |-> c.msg, i |-> 0, cell |-> k, cut |-> 0]
    BY <2>1 DEF At
  <2>6. op' \in Ops /\ op'.at = "confirmMeta" /\ op'.msg = c.msg /\ op'.cell = k
    BY <2>4, <2>5 DEF Ops, Labels
  <2> DEFINE m == c.msg
             p == c.part
  <2>7. StructsOK'
    <3>1. ASSUME NEW n \in Msgs
          PROVE  partReceipt'[n] \in [Parts(n) -> Nat] /\ confirmed'[n] \subseteq Parts(n)
      <4> HIDE DEF c
      <4> QED
        BY <1>1, <2>1, <2>4 DEF StructsOK
    <3>2. DOMAIN partReceipt' = Msgs /\ DOMAIN confirmed' = Msgs
      BY <1>1, <2>1 DEF StructsOK
    <3>3. numConfirmed' \in [Msgs -> Nat]
      <4> HIDE DEF c
      <4> QED
        BY <1>1, <2>1, <2>4 DEF StructsOK
    <3> HIDE DEF c
    <3> QED
      BY <1>1, <3>1, <3>2, <3>3 DEF StructsOK
  <2>8. DbOK'
    <3> DEFINE row == [db[m] EXCEPT !.confirmed = @ \cup {p}]
    <3>1. DbOK /\ db[m] \in Row /\ db[m].confirmed \subseteq Parts(m)
      BY <1>1, <2>4 DEF DbOK
    <3>2. row \in Row /\ row.confirmed = db[m].confirmed \cup {p} /\ row.meta = db[m].meta
      BY <3>1, <2>4, PartsNat DEF Row
    <3>3. db' = [db EXCEPT ![m] = row]
      BY <2>1
    <3> HIDE DEF row
    <3>4. row.confirmed \subseteq Parts(m) /\ (row.meta => m \in called)
      BY <2>4, <3>1, <3>2
    <3> QED
      BY <1>1, <2>4, <3>1, <3>2, <3>3, <3>4, RowWritten
  <2>9. WorldOK'
    BY <1>1, <2>2 DEF WorldOK
  <2>10. OpOK'
    BY <1>1, <2>3, <2>4, <2>6 DEF OpOK, WithMsg, WithCell, MaybeCell
  <2>11. TableOK'
    BY <1>1 DEF TableOK
  <2>12. CountOK'
    <3>1. \A n : Records(n) = CellsOf(table, n) /\ Records(n)' = CellsOf(table, n) \ {k}
      BY <1>1, <2>2, <2>6, OpFacts DEF Records, CellsOf
    <3>2. IsFiniteSet(CellsOf(table, m)) /\ k \in CellsOf(table, m)
      <4>1. IsFiniteSet(DOMAIN table.cells)
        BY <1>1 DEF TableOK, WellFormed
      <4>2. CellsOf(table, m) \subseteq DOMAIN table.cells
        BY DEF CellsOf
      <4> QED
        BY <2>3, <4>1, <4>2, FS_Subset DEF CellsOf
    <3> HIDE DEF c, m
    <3>3. /\ Cardinality(CellsOf(table, m) \ {k}) = Cardinality(CellsOf(table, m)) - 1
          /\ IsFiniteSet(CellsOf(table, m) \ {k})
      BY <3>2, FS_RemoveElement, Zenon
    <3>4. Cardinality(CellsOf(table, m) \ {k}) \in Nat
      BY <3>3, FS_CardinalityType
    <3>5. numTransit[m] = Cardinality(CellsOf(table, m)) /\ numTransit \in [Msgs -> Nat]
      BY <1>1, <1>2, <3>1 DEF CountOK, m
    <3>6. numTransit' = [numTransit EXCEPT ![m] = @ - 1]
      BY <2>1 DEF m
    <3>7. m \in called /\ m \in Msgs
      BY <2>4 DEF m
    <3>8. numTransit' \in [Msgs -> Nat] /\ \A n \in Msgs : numTransit'[n] <= FragmentsAtATime
      BY <1>1, <3>3, <3>4, <3>5, <3>6, <3>7 DEF CountOK
    <3>9. ASSUME NEW n \in heap'
          PROVE  numTransit'[n] = Cardinality(Records(n)')
      <4>1. CASE n = m
        BY <4>1, <3>1, <3>3, <3>5, <3>6, <3>7
      <4>2. CASE n # m
        <5>1. k \notin CellsOf(table, n)
          BY <4>2 DEF CellsOf, m, c
        <5>2. Records(n)' = Records(n)
          BY <3>1, <5>1
        <5>3. n \in heap /\ n \in Msgs
          BY <1>1, <3>9 DEF StructsOK
        <5> QED
          BY <1>1, <4>2, <5>2, <5>3, <3>5, <3>6, <3>7 DEF CountOK
      <4> QED
        BY <4>1, <4>2
    <3>10. \A n \in Msgs \ called' : numTransit'[n] = 0
      BY <1>1, <3>5, <3>6, <3>7 DEF CountOK
    <3> QED
      BY <2>6, <3>8, <3>9, <3>10 DEF CountOK
  <2> QED
    BY <2>7, <2>8, <2>9, <2>10, <2>11, <2>12 DEF Inv
<1>3. CASE ~(c.msg \in heap /\ db[c.msg].data)
  <2>1. /\ UNCHANGED <<structs, statics, db, nextId, called>>
        /\ op' = Fault
    BY <1>1, <1>3 DEF Receipt, structs, statics
  <2>2. /\ op.at = "idle" /\ op.cell = -1 /\ wire' \subseteq wire
        /\ DOMAIN acked' = Msgs /\ \A m \in Msgs : acked'[m] \subseteq Parts(m)
    BY <1>1, ArrivesFacts
  <2>3. op' \in Ops /\ op'.at = "fault" /\ op'.cell = -1
    BY <2>1, AtFields DEF Fault, Labels
  <2>4. OpOK'
    BY <1>1, <2>3 DEF OpOK, WithMsg, WithCell, MaybeCell
  <2>5. online' \subseteq Friends
    BY <1>1 DEF WorldOK
  <2> QED
    BY <2>1, <2>2, <2>3, <2>4, <2>5, MoveStep
<1> QED
  BY <1>2, <1>3

\* The record is emptied, and the part that is sent again gets a new one at
\* the end: the count stays, and the window with it.
LEMMA ResendExpiredStep == Inv /\ ResendExpired => Inv'
<1> SUFFICES ASSUME Inv, ResendExpired
             PROVE  Inv'
  OBVIOUS
<1> DEFINE k == Min(Due(op.i, op.cut))
           c == table.cells[k]
           t == ExpireReceipt(table, k)
<1>1. /\ StructsOK /\ DbOK /\ WorldOK /\ OpOK /\ TableOK /\ CountOK
      /\ op.at = "expire" /\ op.cell = -1 /\ Due(op.i, op.cut) # {}
      /\ heap' = heap /\ confirmed' = confirmed /\ lastSent' = lastSent
      /\ numConfirmed' = numConfirmed /\ clientReceipt' = clientReceipt
      /\ ring' = ring /\ lastReceipt' = lastReceipt /\ db' = db /\ online' = online
      /\ acked' = acked /\ called' = called
  BY DEF ResendExpired, Inv, client, OpOK, WithCell, MaybeCell
<1>2. k \in DOMAIN table.cells /\ k \in Nat
  <2>1. Due(op.i, op.cut) \subseteq DOMAIN table.cells
    BY DEF Due
  <2>2. DOMAIN table.cells \subseteq Nat
    BY OpFacts
  <2>3. k \in Due(op.i, op.cut)
    BY <1>1, <2>1, <2>2, MinProperty
  <2> QED
    BY <2>1, <2>2, <2>3
<1> HIDE DEF k
<1>3. /\ WellFormed(t, Msgs, nextId)
      /\ DOMAIN t.cells = DOMAIN table.cells \ {k}
      /\ \A j \in DOMAIN t.cells : t.cells[j] = table.cells[j]
  <2>1. WellFormed(table, Msgs, nextId) /\ nextId \in Nat
    BY <1>1 DEF TableOK
  <2>2. WellFormed(t, Msgs, nextId) /\ OneMore(t, table, k)
    BY <1>2, <2>1, ExpireWellFormed DEF t
  <2> QED
    BY <1>2, <2>2 DEF OneMore
<1> HIDE DEF t
<1>4. DbOK'
  BY <1>1 DEF DbOK
<1>5. CASE c.msg \notin heap
  <2>1. /\ op' = Fault /\ partReceipt' = partReceipt /\ table' = table
        /\ numTransit' = numTransit /\ nextId' = nextId /\ wire' = wire
    BY <1>5 DEF ResendExpired, k, base
  <2>2. op' \in Ops /\ op'.at = "fault" /\ op'.cell = -1
    BY <2>1, AtFields DEF Fault, Labels
  <2>3. StructsOK' /\ WorldOK' /\ TableOK'
    BY <1>1, <2>1 DEF StructsOK, WorldOK, TableOK
  <2>4. OpOK'
    BY <1>1, <2>1, <2>2 DEF OpOK, WithMsg, WithCell, MaybeCell
  <2>5. CountOK'
    <3>1. \A n : Records(n)' = Records(n)
      BY <1>1, <2>1, <2>2 DEF Records
    <3> QED
      BY <1>1, <2>1, <2>2, <3>1 DEF CountOK
  <2> QED
    BY <1>4, <2>3, <2>4, <2>5 DEF Inv
<1>6. CASE c.msg \in heap
  <2>1. /\ \/ PartSent(c.msg, c.part, t) /\ UNCHANGED numTransit
           \/ /\ PartRefused(c.msg, c.part, t)
              /\ numTransit' = [numTransit EXCEPT ![c.msg] = @ - 1]
        /\ op' = [op EXCEPT !.i = k + 1]
    BY <1>6 DEF ResendExpired, k, t
  <2>2. c.msg \in called /\ c.msg \in Msgs /\ c.part \in Parts(c.msg)
    BY <1>1, <1>2 DEF TableOK, WorldOK
  <2>3. op' \in Ops /\ op'.at = "expire" /\ op'.cell = -1
    BY <1>1, <1>2, <2>1, OpFacts DEF Ops
  <2>4. OneMore(t, table, k)
    <3>1. IsFiniteSet(DOMAIN t.cells)
      BY <1>3 DEF WellFormed
    <3> QED
      BY <1>2, <1>3, <3>1 DEF OneMore
  <2>5. \A n : Records(n) = CellsOf(table, n)
    BY <1>1, OpFacts DEF Records, CellsOf
  <2> DEFINE m == c.msg
             p == c.part
  <2>6. /\ Cardinality(CellsOf(t, m)) \in Nat
        /\ IsFiniteSet(CellsOf(t, m))
        /\ numTransit[m] = Cardinality(CellsOf(t, m)) + 1
        /\ \A n \in heap : n # m => numTransit[n] = Cardinality(CellsOf(t, n))
    <3>1. /\ Cardinality(CellsOf(t, m)) \in Nat
          /\ Cardinality(CellsOf(table, m)) = Cardinality(CellsOf(t, m)) + 1
      BY <2>4, CellRemoved
    <3>2. \A n : n # m => CellsOf(t, n) = CellsOf(table, n)
      BY <2>4, CellRemovedOther
    <3>3. IsFiniteSet(CellsOf(t, m))
      <4>1. CellsOf(t, m) \subseteq DOMAIN t.cells
        BY DEF CellsOf
      <4> QED
        BY <2>4, <4>1, FS_Subset DEF OneMore
    <3> HIDE DEF m
    <3>4. m \in heap
      BY <1>6 DEF m
    <3> QED
      BY <1>1, <2>5, <3>1, <3>2, <3>3, <3>4 DEF CountOK
  <2> HIDE DEF c
  <2>7. \A j \in DOMAIN t.cells :
          t.cells[j].msg \in called /\ t.cells[j].part \in Parts(t.cells[j].msg)
    BY <1>1, <1>3 DEF TableOK
  <2>8. numTransit \in [Msgs -> Nat] /\ \A n \in Msgs : numTransit[n] <= FragmentsAtATime
    BY <1>1 DEF CountOK
  <2>9. CASE PartSent(m, p, t) /\ UNCHANGED numTransit
    <3>1. /\ nextId' = nextId + 1 /\ nextId' \in Nat
          /\ WellFormed(table', Msgs, nextId')
          /\ t.hi \notin DOMAIN t.cells /\ t.hi \in Nat
          /\ DOMAIN table'.cells = DOMAIN t.cells \cup {t.hi}
          /\ table'.cells[t.hi] = Fragment(m, p)
          /\ \A j \in DOMAIN t.cells : table'.cells[j] = t.cells[j]
          /\ Fragment(m, p) \in Cell(Msgs)
          /\ wire' = wire \cup {Fragment(m, p)}
          /\ partReceipt' = [partReceipt EXCEPT ![m][p] = nextId + 1]
      BY <1>1, <1>3, <2>2, <2>9, SentFacts DEF TableOK
    <3>2. Fragment(m, p).msg = m /\ Fragment(m, p).part = p
      BY DEF Fragment
    <3> HIDE DEF m, p
    <3>3. m \in called /\ m \in Msgs /\ p \in Parts(m)
      BY <2>2 DEF m, p
    <3>4. StructsOK'
      <4>1. \A n \in Msgs : partReceipt'[n] \in [Parts(n) -> Nat]
        BY <1>1, <3>1, <3>3 DEF StructsOK
      <4> QED
        BY <1>1, <3>1, <4>1 DEF StructsOK
    <3>5. WorldOK'
      BY <1>1, <3>1, <3>2, <3>3 DEF WorldOK
    <3>6. TableOK'
      BY <1>1, <2>7, <3>1, <3>2, <3>3 DEF TableOK
    <3>7. OpOK'
      BY <1>1, <2>3 DEF OpOK, WithMsg, WithCell, MaybeCell
    <3>8. CountOK'
      <4>1. OneMore(t, table', t.hi)
        BY <2>4, <3>1 DEF OneMore
      <4>2. \A n : Records(n)' = CellsOf(table', n)
        <5>1. DOMAIN table'.cells \subseteq Nat
          BY <1>3, <2>4, <3>1, OpFacts DEF OneMore
        <5> QED
          BY <2>3, <5>1 DEF Records, CellsOf
      <4>3. numTransit' = numTransit
        BY <2>9
      <4>4. ASSUME NEW n \in heap'
            PROVE  numTransit'[n] = Cardinality(Records(n)')
        <5>1. CASE n = m
          <6>1. table'.cells[t.hi].msg = m
            BY <3>1, <3>2
          <6>2. /\ CellsOf(table', m) = CellsOf(t, m) \cup {t.hi}
                /\ t.hi \notin CellsOf(t, m)
            BY <4>1, <6>1, CellAdded
          <6>3. Cardinality(CellsOf(t, m) \cup {t.hi}) = Cardinality(CellsOf(t, m)) + 1
            BY <2>6, <6>2, FS_AddElement DEF m
          <6> QED
            BY <5>1, <2>6, <4>2, <4>3, <6>2, <6>3 DEF m
        <5>2. CASE n # m
          <6>1. table'.cells[t.hi].msg # n
            BY <3>1, <3>2, <5>2
          <6>2. CellsOf(table', n) = CellsOf(t, n)
            BY <4>1, <6>1, CellAddedOther
          <6> QED
            BY <1>1, <2>6, <4>2, <4>3, <4>4, <5>2, <6>2 DEF m
        <5> QED
          BY <5>1, <5>2
      <4> QED
        BY <1>1, <2>3, <4>3, <4>4 DEF CountOK
    <3> QED
      BY <1>4, <3>4, <3>5, <3>6, <3>7, <3>8 DEF Inv
  <2>10. CASE /\ PartRefused(m, p, t)
              /\ numTransit' = [numTransit EXCEPT ![m] = @ - 1]
    <3>1. table' = t /\ partReceipt' = partReceipt /\ nextId' = nextId /\ wire' = wire
      BY <2>10 DEF PartRefused, base
    <3>2. StructsOK' /\ WorldOK'
      BY <1>1, <3>1 DEF StructsOK, WorldOK
    <3>3. OpOK'
      BY <1>1, <2>3 DEF OpOK, WithMsg, WithCell, MaybeCell
    <3>4. TableOK'
      BY <1>1, <1>3, <2>7, <3>1 DEF TableOK
    <3>5. CountOK'
      <4>1. \A n : Records(n)' = CellsOf(t, n)
        <5>1. DOMAIN t.cells \subseteq Nat
          BY <1>3, OpFacts
        <5> QED
          BY <2>3, <3>1, <5>1 DEF Records, CellsOf
      <4> HIDE DEF m
      <4>2. m \in called /\ m \in Msgs
        BY <2>2 DEF m
      <4>3. numTransit' = [numTransit EXCEPT ![m] = @ - 1]
        BY <2>10
      <4>4. numTransit' \in [Msgs -> Nat] /\ \A n \in Msgs : numTransit'[n] <= FragmentsAtATime
        BY <2>6, <2>8, <4>2, <4>3
      <4>5. \A n \in heap' : numTransit'[n] = Cardinality(Records(n)')
        BY <1>1, <2>6, <2>8, <4>1, <4>2, <4>3 DEF StructsOK
      <4>6. \A n \in Msgs \ called' : numTransit'[n] = 0
        BY <1>1, <4>2, <4>3 DEF CountOK
      <4> QED
        BY <2>3, <4>4, <4>5, <4>6 DEF CountOK
    <3> QED
      BY <1>4, <3>2, <3>3, <3>4, <3>5 DEF Inv
  <2> QED
    BY <2>1, <2>9, <2>10
<1> QED
  BY <1>5, <1>6

(***************************************************************************)
(* A crash empties the memory; what is loaded has no part in flight.       *)
(***************************************************************************)
LEMMA LoadRowStep == Inv /\ (\E m \in Msgs : LoadRow(m)) => Inv'
<1> SUFFICES ASSUME Inv, NEW m \in Msgs, LoadRow(m)
             PROVE  Inv'
  OBVIOUS
<1>1. /\ StructsOK /\ DbOK /\ WorldOK /\ OpOK /\ TableOK /\ CountOK
      /\ op.at = "load" /\ db[m].meta /\ heap' = heap \cup {m}
      /\ confirmed' = [confirmed EXCEPT ![m] = db[m].confirmed]
      /\ numConfirmed' = [numConfirmed EXCEPT ![m] = Cardinality(db[m].confirmed)]
      /\ ring' = Link(ring, m) /\ op' = op
      /\ partReceipt' = partReceipt /\ lastSent' = lastSent /\ numTransit' = numTransit
      /\ clientReceipt' = clientReceipt /\ table' = table /\ lastReceipt' = lastReceipt
      /\ db' = db /\ online' = online /\ nextId' = nextId /\ wire' = wire
      /\ acked' = acked /\ called' = called
  BY DEF LoadRow, ToLoad, Inv, base, client
<1>2. m \in called /\ db[m].confirmed \subseteq Parts(m)
  BY <1>1 DEF DbOK
<1>3. Cardinality(db[m].confirmed) \in Nat
  <2>1. NumParts[m] - 1 \in Int
    OBVIOUS
  <2>2. IsFiniteSet(Parts(m))
    BY <2>1, FS_Interval DEF Parts
  <2> QED
    BY <1>2, <2>2, FS_Subset, FS_CardinalityType
<1>4. StructsOK'
  BY <1>1, <1>2, <1>3 DEF StructsOK
<1>5. DbOK' /\ TableOK' /\ OpOK'
  BY <1>1 DEF DbOK, TableOK, OpOK
<1>6. WorldOK'
  <2>1. ring' \in Seq(called)
    BY <1>1, <1>2, LinkType DEF WorldOK
  <2> QED
    BY <1>1, <2>1 DEF WorldOK
<1>7. CountOK'
  <2>1. DOMAIN table.cells = {} /\ \A n \in Msgs : numTransit[n] = 0
    BY <1>1 DEF CountOK
  <2>2. \A n : Records(n)' = {}
    BY <1>1, <2>1 DEF Records
  <2>3. Cardinality({}) = 0
    BY FS_EmptySet
  <2> QED
    BY <1>1, <2>1, <2>2, <2>3 DEF CountOK, StructsOK
<1> QED
  BY <1>4, <1>5, <1>6, <1>7 DEF Inv

LEMMA CrashStep == Inv /\ Crash => Inv'
<1> SUFFICES ASSUME Inv, Crash
             PROVE  Inv'
  OBVIOUS
<1>1. /\ StructsOK /\ DbOK /\ WorldOK /\ OpOK /\ TableOK /\ CountOK
      /\ heap' = {} /\ ring' = <<>> /\ table' = EmptyTable /\ wire' = {}
      /\ partReceipt' = [m \in Msgs |-> [i \in Parts(m) |-> 0]]
      /\ confirmed' = [m \in Msgs |-> {}]
      /\ lastSent' = [m \in Msgs |-> 0]
      /\ numTransit' = [m \in Msgs |-> 0]
      /\ numConfirmed' = [m \in Msgs |-> 0]
      /\ clientReceipt' = [m \in Msgs |-> 0]
      /\ lastReceipt' = ReceiptRangeLo
      /\ db' = db /\ online' = online /\ nextId' = nextId /\ acked' = acked
      /\ called' = called /\ op' = At("down")
  BY DEF Crash, Inv, client
<1>2. op' \in Ops /\ op'.at = "down" /\ op'.cell = -1
  BY <1>1, AtFields DEF Labels
<1>3. StructsOK'
  BY <1>1, PartsNat DEF StructsOK
<1>4. DbOK'
  BY <1>1 DEF DbOK
<1>5. WorldOK'
  BY <1>1 DEF WorldOK
<1>6. OpOK'
  BY <1>1, <1>2 DEF OpOK, WithMsg, WithCell, MaybeCell
<1>7. nextId \in Nat
  BY <1>1 DEF TableOK
<1>8. WellFormed(table', Msgs, nextId) /\ DOMAIN table'.cells = {}
  BY <1>1, <1>7, EmptyWellFormed
<1>9. TableOK'
  BY <1>1, <1>7, <1>8 DEF TableOK
<1>10. CountOK'
  BY <1>1, <1>8 DEF CountOK
<1> QED
  BY <1>3, <1>4, <1>5, <1>6, <1>9, <1>10 DEF Inv

-----------------------------------------------------------------------------
(* The theorems.                                                           *)

LEMMA NextInv == Inv /\ [Next]_vars => Inv'
<1>1. Inv /\ Handler => Inv'
  BY FirstPartStep, SendFailsStep, InsertMetaStep, InsertDataStep, Pass1PartStep,
     Pass1DoneStep, Pass2PartStep, Pass2DoneStep, ConfirmMetaStep, NotifyStep,
     DiscardStep, RetireStep, ResendExpiredStep, ResendDoneStep, SendMoreStep,
     RestartStep, LoadRowStep, DropRowStep, LoadDoneStep DEF Handler
<1>2. Inv /\ ReadReceipt => Inv'
  BY ForeignReceiptStep, ReceiptStep DEF ReadReceipt
<1> QED
  BY <1>1, <1>2, SendLongStep, PeriodicStep, FriendStep, CrashStep, StutterStep DEF Next

(***************************************************************************)
(* The inductive invariant holds throughout.                               *)
(***************************************************************************)
THEOREM Invariance == Spec => []Inv
<1> QED
  BY InitInv, NextInv, PTL DEF Spec

(***************************************************************************)
(* Type correctness.  In particular numTransit, an unsigned in the code,   *)
(* is decremented (c:632, c:541) only when it is positive.                 *)
(***************************************************************************)
THEOREM TypeCorrect == Spec => []TypeOK
<1>1. Inv => TypeOK
  BY DEF Inv, StructsOK, DbOK, WorldOK, OpOK, TableOK, CountOK, TypeOK, Ops
<1> QED
  BY <1>1, Invariance, PTL

(***************************************************************************)
(* numTransit is the number of receipts in the table, whatever is lost,    *)
(* refused or reordered, and however often parts are sent again.           *)
(***************************************************************************)
THEOREM TransitCounted == Spec => []TransitExact
<1>1. Inv => TransitExact
  BY DEF Inv, CountOK, TransitExact
<1> QED
  BY <1>1, Invariance, PTL

(***************************************************************************)
(* fragmentsAtATime is a limit, for every window and every message.        *)
(***************************************************************************)
THEOREM WindowKept == Spec => []WindowRespected
<1>1. Inv => WindowRespected
  BY DEF Inv, CountOK, WindowRespected
<1> QED
  BY <1>1, Invariance, PTL

(***************************************************************************)
(* The table stays in the order of its receipts, within [lo, hi), and      *)
(* receiptsNum never falls below the number of records.                    *)
(***************************************************************************)
THEOREM TableKeptInOrder == Spec => []TableOrdered
<1>1. Inv => TableOrdered
  BY DEF Inv, TableOK, WellFormed, Ordered, TableOrdered
<1> QED
  BY <1>1, Invariance, PTL

=============================================================================
