------------------------ MODULE OutboundSafetyProofs ------------------------
(***************************************************************************)
(* The records of the sender's table, its count of confirmed parts, its    *)
(* list, its database and what its client is told, for every choice of the *)
(* constants.  The invariant of OutboundProofs, which is about types and   *)
(* numbers, is used throughout; what is added here says which message and  *)
(* which part a number stands for.                                         *)
(***************************************************************************)
EXTENDS OutboundProofs

USE OutboundAssumption

(***************************************************************************)
(* The list, and the message a handler works on.                           *)
(***************************************************************************)
Confirming == {"confirmMeta", "notify", "discard"}

\* Labels of friend_send_message_long.
Sending == {"first", "insertData"}

OnHeap ==
  /\ op.at \in WithMsg => op.msg \in heap
  /\ op.at = "first" => op.msg \notin Listed
  /\ op.at \in Sending /\ op.cell # -1 =>
       table.cells[op.cell].msg \in heap /\ table.cells[op.cell].msg # op.msg
  /\ op.at \in Confirming => table.cells[op.cell].msg = op.msg

ListOK ==
  /\ heap \subseteq called
  /\ IsInjective(ring)
  /\ Listed \subseteq heap
  /\ OnHeap

(***************************************************************************)
(* What else there is to say of records, parts and rows.  It holds unless  *)
(* the base library refuses a fragment for a friend who is online          *)
(* (SpuriousRefusal).                                                      *)
(***************************************************************************)

\* Labels at which a message of friend_send_message_long may have no row.
New == {"first", "insertData", "fault"}

\* A message that the client has not sent yet.
FreshOK ==
  \A m \in Msgs \ called :
    /\ \A i \in Parts(m) : partReceipt[m][i] = 0
    /\ confirmed[m] = {} /\ db[m].confirmed = {} /\ db[m].done = 0
    /\ told[m] = 0

\* The records that still wait for their receipts, and the base library's.
RecordsOK ==
  /\ \A k \in DOMAIN table.cells :
       k # op.cell =>
         /\ table.cells[k].msg \in heap
         /\ partReceipt[table.cells[k].msg][table.cells[k].part] = table.cells[k].receipt
         /\ table.cells[k].part \notin confirmed[table.cells[k].msg]
  /\ \A f \in wire : f.receipt <= nextId
  /\ \A f \in wire : \A k \in DOMAIN table.cells :
       f.receipt = table.cells[k].receipt => f = table.cells[k]

\* Parts behind the last one sent wait for no receipt, so that the first pass
\* sends no part that is in flight.  The second pass, which goes by the part's
\* receipt, sends none of them: if there is room they are all confirmed.
SentOK ==
  /\ \A m \in heap : \A i \in Parts(m) : i > lastSent[m] => partReceipt[m][i] = 0
  /\ op.at = "first" =>
       \A i \in Parts(op.msg) : i >= op.i => partReceipt[op.msg][i] = 0
  /\ op.at = "pass1" =>
       /\ FriendOf[op.msg] \in online
       /\ op.i > lastSent[op.msg]
       /\ \A i \in Parts(op.msg) : lastSent[op.msg] < i /\ i < op.i => i \in confirmed[op.msg]
  /\ op.at = "pass2" =>
       \/ ~Room(op.msg)
       \/ \A i \in Parts(op.msg) : i > lastSent[op.msg] => i \in confirmed[op.msg]
  /\ op.at \in {"down", "load"} =>
       \A m \in Msgs : \A i \in Parts(m) : partReceipt[m][i] = 0

\* Memory, database and friend agree on what has arrived.
ConfirmedOK ==
  /\ \A m \in Msgs : numConfirmed[m] = Cardinality(confirmed[m])
  /\ \A m \in Msgs : confirmed[m] \subseteq acked[m] /\ db[m].confirmed \subseteq acked[m]
  /\ \A m \in heap :
       /\ db[m].confirmed = confirmed[m]
       /\ Cardinality(confirmed[m])
            = IF op.at = "confirmMeta" /\ op.msg = m THEN db[m].done + 1 ELSE db[m].done
       /\ (db[m].meta /\ db[m].data) \/ (op.at \in New /\ op.msg = m)
  /\ op.at \in New => confirmed[op.msg] = {}
  /\ op.at = "insertData" => db[op.msg].meta

\* The client has been told of m, and m is about to be forgotten.
Finishing(m) ==
  \/ op.at = "discard" /\ op.msg = m
  \/ op.at \in New /\ op.cell # -1 /\ table.cells[op.cell].msg = m

ToldOK ==
  /\ told \in [Msgs -> 0 .. 1]
  /\ \A m \in Msgs :
       /\ told[m] = 1 => acked[m] = Parts(m) /\ db[m].done >= NumParts[m]
       /\ m \in heap /\ told[m] = 1 => Finishing(m)
       /\ Finishing(m) \/ (op.at = "notify" /\ op.msg = m) =>
            m \in heap /\ confirmed[m] = Parts(m)

Safe == FreshOK /\ RecordsOK /\ SentOK /\ ConfirmedOK /\ ToldOK

-----------------------------------------------------------------------------
(* What the steps do to the running handler.                               *)

\* The parts of a message, counted.
LEMMA PartsCounted ==
  ASSUME NEW m \in Msgs
  PROVE  /\ IsFiniteSet(Parts(m)) /\ Cardinality(Parts(m)) = NumParts[m]
         /\ Parts(m) # {}
         /\ \A S \in SUBSET Parts(m) :
              /\ IsFiniteSet(S) /\ Cardinality(S) \in Nat
              /\ Cardinality(S) >= NumParts[m] => S = Parts(m)
<1>1. NumParts[m] \in Nat /\ NumParts[m] > 0
  OBVIOUS
<1>2. IsFiniteSet(0 .. NumParts[m] - 1)
      /\ Cardinality(0 .. NumParts[m] - 1) = (NumParts[m] - 1) - 0 + 1
  <2>1. 0 \in Int /\ NumParts[m] - 1 \in Int /\ 0 <= NumParts[m] - 1
    BY <1>1
  <2> QED
    BY <2>1, FS_Interval
<1>3. IsFiniteSet(Parts(m)) /\ Cardinality(Parts(m)) = NumParts[m]
  BY <1>1, <1>2 DEF Parts
<1>4. 0 \in Parts(m)
  BY PartsNat
<1>5. ASSUME NEW S \in SUBSET Parts(m)
      PROVE  /\ IsFiniteSet(S) /\ Cardinality(S) \in Nat
             /\ Cardinality(S) >= NumParts[m] => S = Parts(m)
  <2>1. IsFiniteSet(S) /\ Cardinality(S) \in Nat
    BY <1>3, FS_Subset, FS_CardinalityType
  <2>2. Cardinality(S) <= Cardinality(Parts(m)) /\ (Cardinality(Parts(m)) = Cardinality(S) => Parts(m) = S)
    BY <1>3, FS_Subset
  <2> QED
    BY <1>1, <1>3, <2>1, <2>2
<1> QED
  BY <1>3, <1>4, <1>5

(***************************************************************************)
(* One turn of a sending loop.                                             *)
(***************************************************************************)
LoopTurn == FirstPart \/ Pass1Part \/ Pass2Part

\* The part is sent ...
TurnSent(m, i) ==
  /\ Accepts(m, i)
  /\ op.at = "pass2" => Unsent(m, i)
  /\ nextId' = nextId + 1
  /\ table.hi \notin DOMAIN table.cells
  /\ DOMAIN table'.cells = DOMAIN table.cells \cup {table.hi}
  /\ table'.cells[table.hi] = Fragment(m, i)
  /\ \A k \in DOMAIN table.cells : table'.cells[k] = table.cells[k]
  /\ wire' = wire \cup {Fragment(m, i)}
  /\ partReceipt' = [partReceipt EXCEPT ![m][i] = nextId + 1]
  /\ numTransit' = [numTransit EXCEPT ![m] = @ + 1]
  /\ lastSent' = IF op.at = "pass2" THEN lastSent ELSE [lastSent EXCEPT ![m] = i]

\* ... or passed over, or refused.
TurnNotSent(m, i) ==
  /\ op.at \in {"first", "pass1"} => SpuriousRefusal \/ ~Accepts(m, i)
  /\ UNCHANGED <<partReceipt, table, numTransit, lastSent, nextId, wire>>

LEMMA LoopFacts ==
  ASSUME Inv, LoopTurn
  PROVE  /\ op.at \in {"first", "pass1", "pass2"}
         /\ op.msg \in Msgs /\ op.msg \in called /\ op.i \in Nat /\ op.i \in Parts(op.msg)
         /\ Room(op.msg)
         /\ op'.at = op.at /\ op'.msg = op.msg /\ op'.i = op.i + 1 /\ op'.cell = op.cell
         /\ op.cell = -1 \/ op.cell \in DOMAIN table.cells
         /\ UNCHANGED <<heap, confirmed, numConfirmed, ring, db, online, acked, called, told>>
         /\ TurnSent(op.msg, op.i) \/ TurnNotSent(op.msg, op.i)
<1>1. op.at \in {"first", "pass1", "pass2"} /\ op.i < NumParts[op.msg] /\ Room(op.msg)
  BY DEF LoopTurn, FirstPart, Pass1Part, Pass2Part, Pass2Goes
<1>2. /\ op.msg \in Msgs /\ op.msg \in called /\ op.i \in Nat
      /\ nextId \in Nat /\ WellFormed(table, Msgs, nextId) /\ lastSent \in [Msgs -> Nat]
  BY <1>1, OpFacts DEF WithMsg, Inv, TableOK, StructsOK
<1>3. op.i \in Parts(op.msg)
  BY <1>1, <1>2 DEF Parts
<1>4. /\ op' = [op EXCEPT !.i = @ + 1]
      /\ UNCHANGED <<heap, confirmed, numConfirmed, ring, db, online, acked, called, told>>
  BY DEF LoopTurn, FirstPart, Pass1Part, Pass2Part, client
<1>5. op'.at = op.at /\ op'.msg = op.msg /\ op'.i = op.i + 1 /\ op'.cell = op.cell
  BY <1>4, OpFacts DEF Ops
<1>6. op.cell = -1 \/ op.cell \in DOMAIN table.cells
  BY <1>1 DEF Inv, OpOK, MaybeCell
<1>7. ASSUME PartSent(op.msg, op.i, table), numTransit' = [numTransit EXCEPT ![op.msg] = @ + 1],
             lastSent' = IF op.at = "pass2" THEN lastSent ELSE [lastSent EXCEPT ![op.msg] = op.i],
             op.at = "pass2" => Unsent(op.msg, op.i)
      PROVE  TurnSent(op.msg, op.i)
  <2>1. Accepts(op.msg, op.i)
    BY <1>7 DEF PartSent
  <2> QED
    BY <1>2, <1>3, <1>7, <2>1, SentFacts DEF TurnSent
<1>8. ASSUME FirstPart \/ Pass1Part
      PROVE  TurnSent(op.msg, op.i) \/ TurnNotSent(op.msg, op.i)
  <2>1. /\ op.at \in {"first", "pass1"}
        /\ SendPart(op.msg, op.i)
        /\ lastSent' = [lastSent EXCEPT ![op.msg] = IF nextId' # nextId THEN op.i ELSE @]
    BY <1>8 DEF FirstPart, Pass1Part, SendNextPart
  <2>2. CASE PartSent(op.msg, op.i, table) /\ numTransit' = [numTransit EXCEPT ![op.msg] = @ + 1]
    <3>1. nextId' # nextId
      BY <1>2, <2>2 DEF PartSent
    <3> QED
      BY <1>7, <2>1, <2>2, <3>1
  <2>3. CASE PartRefused(op.msg, op.i, table) /\ UNCHANGED numTransit
    <3>1. nextId' = nextId /\ wire' = wire /\ table' = table /\ partReceipt' = partReceipt
      BY <2>3 DEF PartRefused, base
    <3>2. lastSent' = lastSent
      BY <1>2, <2>1, <3>1
    <3> QED
      BY <2>3, <3>1, <3>2 DEF PartRefused, TurnNotSent
  <2> QED
    BY <2>1, <2>2, <2>3 DEF SendPart
<1>9. ASSUME Pass2Part
      PROVE  TurnSent(op.msg, op.i) \/ TurnNotSent(op.msg, op.i)
  <2>1. op.at = "pass2" /\ lastSent' = lastSent
    BY <1>9 DEF Pass2Part
  <2>2. CASE Unsent(op.msg, op.i) /\ PartSent(op.msg, op.i, table)
             /\ numTransit' = [numTransit EXCEPT ![op.msg] = @ + 1]
    BY <1>7, <2>1, <2>2
  <2>3. CASE PartRefused(op.msg, op.i, table) /\ UNCHANGED numTransit
    <3>1. nextId' = nextId /\ wire' = wire /\ table' = table /\ partReceipt' = partReceipt
      BY <2>3 DEF PartRefused, base
    <3> QED
      BY <2>1, <2>3, <3>1 DEF TurnNotSent
  <2>4. CASE ~Unsent(op.msg, op.i)
    BY <1>9, <2>1, <2>4 DEF Pass2Part, TurnNotSent, base
  <2> QED
    BY <1>9, <2>2, <2>3, <2>4 DEF Pass2Part, SendPart
<1> QED
  BY <1>1, <1>2, <1>3, <1>4, <1>5, <1>6, <1>8, <1>9 DEF LoopTurn

(***************************************************************************)
(* Steps that only move the handler on.                                    *)
(***************************************************************************)
Move ==
  \/ Pass1Done \/ Pass2Done \/ ResendDone \/ SendMore \/ Periodic \/ Restart \/ LoadDone
  \/ \E fr \in Unsteady : GoOffline(fr) \/ GoOnline(fr)

Resting == {"idle", "expire", "pass2", "more", "load"}

Moved ==
  \/ /\ op.at = "pass1" /\ op'.at = "pass2" /\ op'.msg = op.msg /\ op'.cell = op.cell
     /\ ~(op.i < NumParts[op.msg] /\ Room(op.msg))
  \/ op.at = "pass2" /\ op'.at = "retire" /\ op'.cell = op.cell
  \/ /\ op.at \in Resting /\ op.cell = -1 /\ op'.cell = -1
     /\ op'.at \in {"idle", "expire"} \/ (op'.at = "more" /\ op'.msg \in Listed)
  \/ /\ op.at = "more" /\ op'.at = "pass1" /\ op'.msg = op.msg
     /\ op.cell = -1 /\ op'.cell = -1 /\ op'.i = lastSent[op.msg] + 1
     /\ FriendOf[op.msg] \in online'
  \/ op.at = "down" /\ op'.at = "load" /\ op.cell = -1 /\ op'.cell = -1

LEMMA MoveFacts ==
  ASSUME Inv, Move
  PROVE  /\ UNCHANGED <<heap, partReceipt, confirmed, lastSent, numTransit, numConfirmed,
                        ring, table, db, nextId, wire, acked, called, told>>
         /\ op.at # "fault"
         /\ Moved
<1>1. op \in Ops /\ op.at \in Labels /\ OpOK
  BY OpFacts DEF Inv, OpOK
<1>2. \A l \in Labels : At(l).at = l /\ At(l).msg = NoMsg /\ At(l).i = 0 /\ At(l).cell = -1
  BY AtFields
<1>3. op = Idle => op.at = "idle" /\ op.cell = -1
  BY OpFacts
<1>4. WorldOK
  BY DEF Inv
<1>5. MoreTarget(MoreFromHead) /\ \A m : MoreTarget(MoreAfter(m))
  BY <1>4, MoreType
<1>6. op.at \in {"expire", "more", "down", "load"} => op.cell = -1
  BY <1>1 DEF OpOK, WithCell, MaybeCell
<1>7. UNCHANGED <<heap, partReceipt, confirmed, lastSent, numTransit, numConfirmed,
                  ring, table, db, nextId, wire, acked, called, told>>
  BY DEF Move, Pass1Done, Pass2Done, ResendDone, SendMore, Periodic, Restart, LoadDone,
         GoOffline, GoOnline, structs, statics, base, client
<1>8. ASSUME Pass1Done
      PROVE  op.at # "fault" /\ Moved
  <2>1. /\ op.at = "pass1" /\ op' = [op EXCEPT !.at = "pass2", !.i = 0]
        /\ ~(op.i < NumParts[op.msg] /\ Room(op.msg))
    BY <1>8 DEF Pass1Done
  <2>2. op'.at = "pass2" /\ op'.msg = op.msg /\ op'.cell = op.cell
    BY <1>1, <2>1 DEF Ops
  <2> QED
    BY <2>1, <2>2 DEF Moved
<1>9. ASSUME Pass2Done
      PROVE  op.at # "fault" /\ Moved
  <2>1. /\ op.at = "pass2"
        /\ op' = IF op.cell >= 0 THEN [op EXCEPT !.at = "retire", !.i = 0] ELSE MoreAfter(op.msg)
    BY <1>9 DEF Pass2Done
  <2>2. op.cell = -1 \/ op.cell >= 0
    BY <1>1, <2>1, OpFacts DEF OpOK, MaybeCell
  <2>3. CASE op.cell >= 0
    <3>1. op'.at = "retire" /\ op'.cell = op.cell
      BY <1>1, <2>1, <2>3 DEF Ops
    <3> QED
      BY <2>1, <3>1 DEF Moved
  <2>4. CASE op.cell = -1
    BY <1>5, <2>1, <2>4 DEF Moved, MoreTarget, Resting
  <2> QED
    BY <2>2, <2>3, <2>4
<1>10. ASSUME ResendDone
       PROVE  op.at # "fault" /\ Moved
  BY <1>5, <1>6, <1>10 DEF ResendDone, Moved, MoreTarget, Resting
<1>11. ASSUME SendMore
       PROVE  op.at # "fault" /\ Moved
  <2>1. /\ op.at = "more" /\ op.cell = -1 /\ online' = online
        /\ op' = IF FriendOf[op.msg] \in online THEN NextParts(op.msg, -1) ELSE MoreAfter(op.msg)
    BY <1>6, <1>11 DEF SendMore
  <2>2. CASE FriendOf[op.msg] \in online
    BY <2>1, <2>2 DEF NextParts, Moved
  <2>3. CASE FriendOf[op.msg] \notin online
    BY <1>5, <2>1, <2>3 DEF Moved, MoreTarget, Resting
  <2> QED
    BY <2>2, <2>3
<1>12. ASSUME Periodic
       PROVE  op.at # "fault" /\ Moved
  <2>1. op.at = "idle" /\ op.cell = -1
    BY <1>3, <1>12 DEF Periodic
  <2>2. \/ op' = MoreFromHead
        \/ \E cut : op' = [at |-> "expire", msg |-> NoMsg, i |-> table.lo, cell |-> -1, cut |-> cut]
    BY <1>12 DEF Periodic
  <2>3. op'.cell = -1 /\ (op'.at \in {"idle", "expire"} \/ (op'.at = "more" /\ op'.msg \in Listed))
    BY <1>5, <2>2 DEF MoreTarget
  <2> QED
    BY <2>1, <2>3 DEF Moved, Resting
<1>13. ASSUME Restart \/ LoadDone
       PROVE  op.at # "fault" /\ Moved
  <2>1. \/ op.at = "down" /\ op' = At("load")
        \/ op.at = "load" /\ op' = At("idle")
    BY <1>13 DEF Restart, LoadDone, Idle
  <2> QED
    BY <1>2, <1>6, <2>1 DEF Moved, Resting, Labels
<1>14. ASSUME NEW fr \in Unsteady, GoOffline(fr) \/ GoOnline(fr)
       PROVE  op.at # "fault" /\ Moved
  <2>1. op.at = "idle" /\ op.cell = -1 /\ op' = op
    BY <1>3, <1>14 DEF GoOffline, GoOnline
  <2> QED
    BY <2>1 DEF Moved, Resting
<1> QED
  BY <1>7, <1>8, <1>9, <1>10, <1>11, <1>12, <1>13, <1>14 DEF Move

(***************************************************************************)
(* The other steps, in so far as they move the handler on.                 *)
(***************************************************************************)
LEMMA SendLongFacts ==
  ASSUME Inv, NEW m \in Msgs, SendLong(m)
  PROVE  /\ op.at \in {"idle", "discard"}
         /\ op.at = "idle" => op.cell = -1
         /\ op.at = "discard" => op.cell \in DOMAIN table.cells
         /\ op'.at = "first" /\ op'.msg = m /\ op'.i = 0 /\ op'.cell = op.cell
         /\ m \notin called /\ called' = called \cup {m} /\ heap' = heap \cup {m}
         /\ UNCHANGED <<partReceipt, confirmed, lastSent, numTransit, numConfirmed,
                        ring, table, db, nextId, wire, acked, told>>
<1>1. /\ op = Idle \/ op.at = "discard"
      /\ op' = [at |-> "first", msg |-> m, i |-> 0, cell |-> op.cell, cut |-> 0]
      /\ m \notin called /\ called' = called \cup {m} /\ heap' = heap \cup {m}
      /\ UNCHANGED <<partReceipt, confirmed, lastSent, numTransit, numConfirmed,
                     ring, table, db, nextId, wire, acked, told>>
  BY DEF SendLong, statics, base
<1>2. op = Idle => op.at = "idle" /\ op.cell = -1
  BY OpFacts
<1>3. /\ op.at = "discard" => op.cell \in DOMAIN table.cells
      /\ op.at = "idle" => op.cell = -1
  BY DEF Inv, OpOK, WithCell, MaybeCell
<1> QED
  BY <1>1, <1>2, <1>3

LEMMA ReturnedFacts ==
  ASSUME Inv, op.at \in Sending
  PROVE  /\ Returned.cell = op.cell
         /\ \/ op.cell = -1 /\ Returned.at = "idle"
            \/ /\ op.cell # -1 /\ op.cell \in DOMAIN table.cells
               /\ Returned.at = "discard" /\ Returned.msg = table.cells[op.cell].msg
<1>1. op.cell = -1 \/ (op.cell \in DOMAIN table.cells /\ op.cell \in Nat)
  BY OpFacts DEF Inv, OpOK, MaybeCell, Sending
<1>2. Idle.at = "idle" /\ Idle.cell = -1
  BY AtFields DEF Idle, Labels
<1> QED
  BY <1>1, <1>2 DEF Returned

LEMMA SendFailsFacts ==
  ASSUME Inv, SendFails
  PROVE  /\ op.at = "first" /\ op.msg \in Msgs /\ numTransit[op.msg] = 0
         /\ heap' = heap \ {op.msg}
         /\ op' = Returned
         /\ UNCHANGED <<partReceipt, confirmed, lastSent, numTransit, numConfirmed,
                        ring, table, db, nextId, wire, acked, called, told>>
<1>1. op.at = "first"
  BY DEF SendFails, FirstDone
<1>2. op.msg \in Msgs
  BY <1>1, OpFacts DEF WithMsg
<1> QED
  BY <1>1, <1>2 DEF SendFails, statics, base, client

LEMMA InsertMetaFacts ==
  ASSUME Inv, InsertMeta
  PROVE  /\ op.at = "first" /\ op.msg \in Msgs /\ op.msg \in called
         /\ op'.msg = op.msg /\ op'.cell = op.cell
         /\ \/ FreeReceipts = {} /\ op'.at = "fault" /\ ring' = ring /\ db' = db
            \/ /\ FreeReceipts # {} /\ op'.at = "insertData" /\ ring' = Link(ring, op.msg)
               /\ db' = [db EXCEPT ![op.msg].meta = TRUE]
         /\ UNCHANGED <<heap, partReceipt, confirmed, lastSent, numTransit, numConfirmed,
                        table, nextId, wire, acked, called, told>>
<1>1. op.at = "first"
  BY DEF InsertMeta, FirstDone
<1>2. op.msg \in Msgs /\ op.msg \in called /\ op \in Ops
  BY <1>1, OpFacts DEF WithMsg
<1>3. /\ op' = [op EXCEPT !.at = IF FreeReceipts = {} THEN "fault" ELSE "insertData"]
      /\ FreeReceipts = {} => ring' = ring /\ db' = db
      /\ FreeReceipts # {} => ring' = Link(ring, op.msg) /\ db' = [db EXCEPT ![op.msg].meta = TRUE]
  BY DEF InsertMeta
<1>4. /\ op'.at = IF FreeReceipts = {} THEN "fault" ELSE "insertData"
      /\ op'.msg = op.msg /\ op'.cell = op.cell
  BY <1>2, <1>3 DEF Ops
<1> QED
  BY <1>1, <1>2, <1>3, <1>4 DEF InsertMeta, base, client

LEMMA InsertDataFacts ==
  ASSUME Inv, InsertData
  PROVE  /\ op.at = "insertData" /\ op.msg \in Msgs
         /\ db' = [db EXCEPT ![op.msg].data = TRUE]
         /\ op' = Returned
         /\ UNCHANGED <<heap, partReceipt, confirmed, lastSent, numTransit, numConfirmed,
                        ring, table, nextId, wire, acked, called, told>>
<1>1. op.at = "insertData" /\ op.msg \in Msgs
  BY OpFacts DEF InsertData, WithMsg
<1> QED
  BY <1>1 DEF InsertData, structs, statics, base

LEMMA ConfirmMetaFacts ==
  ASSUME Inv, ConfirmMeta
  PROVE  /\ op.at = "confirmMeta" /\ op.msg \in Msgs
         /\ op.cell \in DOMAIN table.cells /\ op'.cell = op.cell
         /\ db' = [db EXCEPT ![op.msg].done = @ + 1]
         /\ \/ op'.at = "notify" /\ Complete(op.msg) /\ op'.msg = op.msg
            \/ /\ op'.at = "pass1" /\ ~Complete(op.msg) /\ op'.msg = op.msg
               /\ op'.i = lastSent[op.msg] + 1 /\ FriendOf[op.msg] \in online'
            \/ op'.at = "retire" /\ ~Complete(op.msg)
         /\ UNCHANGED <<heap, partReceipt, confirmed, lastSent, numTransit, numConfirmed,
                        ring, table, nextId, wire, acked, called, told>>
<1>1. /\ op.at = "confirmMeta" /\ db' = [db EXCEPT ![op.msg].done = @ + 1] /\ online' = online
      /\ op' = IF Complete(op.msg) THEN [op EXCEPT !.at = "notify"]
               ELSE IF FriendOf[op.msg] \in online THEN NextParts(op.msg, op.cell)
               ELSE [op EXCEPT !.at = "retire"]
      /\ UNCHANGED <<heap, partReceipt, confirmed, lastSent, numTransit, numConfirmed,
                     ring, table, nextId, wire, acked, called, told>>
  BY DEF ConfirmMeta, structs, statics, base, client
<1>2. op.msg \in Msgs /\ op \in Ops
  BY <1>1, OpFacts DEF WithMsg
<1>3. op.cell \in DOMAIN table.cells
  BY <1>1 DEF Inv, OpOK, WithCell
<1>4. CASE Complete(op.msg)
  <2>1. op'.at = "notify" /\ op'.msg = op.msg /\ op'.cell = op.cell
    BY <1>1, <1>2, <1>4 DEF Ops
  <2> QED
    BY <1>1, <1>2, <1>3, <1>4, <2>1
<1>5. CASE ~Complete(op.msg) /\ FriendOf[op.msg] \in online
  <2>1. /\ op'.at = "pass1" /\ op'.msg = op.msg /\ op'.cell = op.cell
        /\ op'.i = lastSent[op.msg] + 1
    BY <1>1, <1>5 DEF NextParts
  <2> QED
    BY <1>1, <1>2, <1>3, <1>5, <2>1
<1>6. CASE ~Complete(op.msg) /\ FriendOf[op.msg] \notin online
  <2>1. op'.at = "retire" /\ op'.cell = op.cell
    BY <1>1, <1>2, <1>6 DEF Ops
  <2> QED
    BY <1>1, <1>2, <1>3, <1>6, <2>1
<1> QED
  BY <1>4, <1>5, <1>6

LEMMA NotifyFacts ==
  ASSUME Inv, Notify
  PROVE  /\ op.at = "notify" /\ op.msg \in Msgs
         /\ op'.at = "discard" /\ op'.msg = op.msg /\ op'.cell = op.cell
         /\ op.cell \in DOMAIN table.cells
         /\ told' = [told EXCEPT ![op.msg] = @ + 1]
         /\ UNCHANGED <<heap, partReceipt, confirmed, lastSent, numTransit, numConfirmed,
                        ring, table, db, nextId, wire, acked, called>>
<1>1. /\ op.at = "notify" /\ op' = [op EXCEPT !.at = "discard"]
      /\ told' = [told EXCEPT ![op.msg] = @ + 1]
      /\ UNCHANGED <<heap, partReceipt, confirmed, lastSent, numTransit, numConfirmed,
                     ring, table, db, nextId, wire, acked, called>>
  BY DEF Notify, structs, statics, base
<1>2. op.msg \in Msgs /\ op \in Ops
  BY <1>1, OpFacts DEF WithMsg
<1>3. op.cell \in DOMAIN table.cells
  BY <1>1 DEF Inv, OpOK, WithCell
<1>4. op'.at = "discard" /\ op'.msg = op.msg /\ op'.cell = op.cell
  BY <1>1, <1>2 DEF Ops
<1> QED
  BY <1>1, <1>2, <1>3, <1>4

LEMMA DiscardFacts ==
  ASSUME Inv, Discard
  PROVE  /\ op.at = "discard" /\ op.msg \in Msgs
         /\ op'.at = "retire" /\ op'.cell = op.cell /\ op.cell \in DOMAIN table.cells
         /\ db' = [db EXCEPT ![op.msg].data = FALSE]
         /\ ring' = Unlink(ring, op.msg)
         /\ Freed(op.msg)
         /\ UNCHANGED <<table, nextId, wire, acked, called, told>>
<1>1. /\ op.at = "discard" /\ op' = [op EXCEPT !.at = "retire", !.msg = NoMsg]
      /\ db' = [db EXCEPT ![op.msg].data = FALSE]
      /\ ring' = Unlink(ring, op.msg)
      /\ Freed(op.msg)
      /\ UNCHANGED <<table, nextId, wire, acked, called, told>>
  BY DEF Discard, base, client
<1>2. op.msg \in Msgs /\ op \in Ops
  BY <1>1, OpFacts DEF WithMsg
<1>3. op.cell \in DOMAIN table.cells
  BY <1>1 DEF Inv, OpOK, WithCell
<1>4. op'.at = "retire" /\ op'.cell = op.cell
  BY <1>1, <1>2 DEF Ops
<1> QED
  BY <1>1, <1>2, <1>3, <1>4

LEMMA RetireFacts ==
  ASSUME Inv, Retire
  PROVE  /\ op.at = "retire" /\ op.cell \in DOMAIN table.cells
         /\ op'.at = "idle" /\ op'.cell = -1
         /\ DOMAIN table.cells = DOMAIN table'.cells \cup {op.cell}
         /\ op.cell \notin DOMAIN table'.cells
         /\ \A k \in DOMAIN table'.cells : table'.cells[k] = table.cells[k]
         /\ UNCHANGED <<heap, partReceipt, confirmed, lastSent, numTransit, numConfirmed,
                        ring, db, nextId, wire, acked, called, told>>
<1>1. /\ op.at = "retire" /\ op' = At("idle") /\ table' = RetireReceipt(table, op.cell)
      /\ UNCHANGED <<heap, partReceipt, confirmed, lastSent, numTransit, numConfirmed,
                     ring, db, nextId, wire, acked, called, told>>
  BY DEF Retire, Idle, structs, base, client
<1>2. op.cell \in DOMAIN table.cells /\ WellFormed(table, Msgs, nextId) /\ nextId \in Nat
  BY <1>1 DEF Inv, OpOK, WithCell, TableOK
<1>3. OneMore(table', table, op.cell)
  BY <1>1, <1>2, RetireWellFormed
<1>4. op'.at = "idle" /\ op'.cell = -1
  BY <1>1, AtFields DEF Labels
<1> QED
  BY <1>1, <1>2, <1>3, <1>4 DEF OneMore

(***************************************************************************)
(* Receipts, timeouts, crashes.                                            *)
(***************************************************************************)
\* What the base library's callback changes before the table is looked at.
Delivery(f) ==
  /\ f \in wire /\ f.msg \in Msgs /\ f.part \in Parts(f.msg)
  /\ wire' = wire \ {f}
  /\ acked' = [acked EXCEPT ![f.msg] = @ \cup {f.part}]

LEMMA DeliveryFacts ==
  ASSUME Inv, NEW f \in wire, Arrives(f)
  PROVE  Delivery(f) /\ op.at = "idle" /\ op.cell = -1 /\ f.receipt \in Nat \ {0}
<1>1. f \in Cell(Msgs) /\ f.part \in Parts(f.msg)
  BY DEF Inv, WorldOK
<1>2. f.msg \in Msgs
  BY <1>1 DEF Cell
<1> QED
  BY <1>1, <1>2, ArrivesFacts DEF Arrives, Delivery

LEMMA ForeignFacts ==
  ASSUME Inv, NEW f \in wire, ForeignReceipt(f)
  PROVE  /\ Delivery(f) /\ op.at = "idle" /\ op.cell = -1 /\ op' = op
         /\ UNCHANGED <<heap, partReceipt, confirmed, lastSent, numTransit, numConfirmed,
                        ring, table, db, nextId, called, told>>
<1>1. Arrives(f)
  BY DEF ForeignReceipt
<1> QED
  BY <1>1, DeliveryFacts DEF ForeignReceipt, structs, statics

\* The record in cell k is the one the receipt belongs to.
Confirms(k) ==
  LET m == table.cells[k].msg
      p == table.cells[k].part
  IN  /\ m \in heap /\ db[m].data
      /\ partReceipt' = [partReceipt EXCEPT ![m][p] = 0]
      /\ confirmed' = [confirmed EXCEPT ![m] = @ \cup {p}]
      /\ numConfirmed' = [numConfirmed EXCEPT ![m] = @ + 1]
      /\ db' = [db EXCEPT ![m].confirmed = @ \cup {p}]
      /\ op'.at = "confirmMeta" /\ op'.msg = m /\ op'.cell = k

LEMMA ReceiptFacts ==
  ASSUME Inv, NEW f \in wire, Receipt(f)
  PROVE  /\ Delivery(f) /\ op.at = "idle" /\ op.cell = -1
         /\ UNCHANGED <<heap, lastSent, ring, table, nextId, called, told>>
         /\ \E k \in DOMAIN table.cells :
              /\ table.cells[k].receipt = f.receipt
              /\ table.cells[k].msg \in Msgs
              /\ table.cells[k].part \in Parts(table.cells[k].msg)
              /\ \/ Confirms(k)
                 \/ /\ ~(table.cells[k].msg \in heap /\ db[table.cells[k].msg].data)
                    /\ op'.at = "fault" /\ op'.cell = -1 /\ op'.msg = NoMsg
                    /\ UNCHANGED <<partReceipt, confirmed, numConfirmed, db>>
<1> DEFINE k == FindReceipt(table, f.receipt)
           c == table.cells[k]
<1>1. Arrives(f) /\ ReceiptAt(table, k) = f.receipt
      /\ UNCHANGED <<heap, lastSent, ring, table, nextId, called, told>>
  BY DEF Receipt, statics, client
<1>2. Delivery(f) /\ op.at = "idle" /\ op.cell = -1 /\ f.receipt \in Nat \ {0}
  BY <1>1, DeliveryFacts
<1>3. \/ /\ c.msg \in heap /\ db[c.msg].data
         /\ partReceipt' = [partReceipt EXCEPT ![c.msg][c.part] = 0]
         /\ confirmed' = [confirmed EXCEPT ![c.msg] = @ \cup {c.part}]
         /\ numConfirmed' = [numConfirmed EXCEPT ![c.msg] = @ + 1]
         /\ db' = [db EXCEPT ![c.msg].confirmed = @ \cup {c.part}]
         /\ op' = [At("confirmMeta") EXCEPT !.msg = c.msg, !.cell = k]
      \/ /\ ~(c.msg \in heap /\ db[c.msg].data)
         /\ op' = Fault
         /\ UNCHANGED <<partReceipt, confirmed, numConfirmed, db>>
  BY DEF Receipt
<1> HIDE DEF k
<1>4. k \in DOMAIN table.cells /\ table.cells[k].receipt = f.receipt
  BY <1>1, <1>2, FoundIsOccupied
<1>5. c.msg \in Msgs /\ c.part \in Parts(c.msg)
  BY <1>4 DEF Inv, TableOK, WorldOK
<1>6. ASSUME op' = [At("confirmMeta") EXCEPT !.msg = c.msg, !.cell = k]
      PROVE  op'.at = "confirmMeta" /\ op'.msg = c.msg /\ op'.cell = k
  BY <1>6 DEF At
<1>7. ASSUME op' = Fault
      PROVE  op'.at = "fault" /\ op'.cell = -1 /\ op'.msg = NoMsg
  BY <1>7, AtFields DEF Fault, Labels
<1>8. \/ Confirms(k)
      \/ /\ ~(table.cells[k].msg \in heap /\ db[table.cells[k].msg].data)
         /\ op'.at = "fault" /\ op'.cell = -1 /\ op'.msg = NoMsg
         /\ UNCHANGED <<partReceipt, confirmed, numConfirmed, db>>
  BY <1>3, <1>6, <1>7 DEF Confirms
<1> QED
  BY <1>1, <1>2, <1>4, <1>5, <1>8

\* The record in cell k is given up, and the part sent again or not.
Expires(k) ==
  LET m == table.cells[k].msg
      p == table.cells[k].part
  IN  /\ m \in heap /\ m \in Msgs /\ p \in Parts(m)
      /\ op'.at = "expire" /\ op'.cell = -1
      /\ \/ \E h \in Nat :
              /\ nextId' = nextId + 1
              /\ h \notin DOMAIN table.cells \ {k}
              /\ DOMAIN table'.cells = (DOMAIN table.cells \ {k}) \cup {h}
              /\ table'.cells[h] = Fragment(m, p)
              /\ \A j \in DOMAIN table.cells \ {k} : table'.cells[j] = table.cells[j]
              /\ wire' = wire \cup {Fragment(m, p)}
              /\ partReceipt' = [partReceipt EXCEPT ![m][p] = nextId + 1]
         \/ /\ nextId' = nextId
            /\ DOMAIN table'.cells = DOMAIN table.cells \ {k}
            /\ \A j \in DOMAIN table'.cells : table'.cells[j] = table.cells[j]
            /\ UNCHANGED <<wire, partReceipt>>

LEMMA ResendFacts ==
  ASSUME Inv, ResendExpired
  PROVE  /\ op.at = "expire" /\ op.cell = -1
         /\ UNCHANGED <<heap, confirmed, lastSent, numConfirmed, ring, db, acked, called, told>>
         /\ \E k \in DOMAIN table.cells :
              \/ Expires(k)
              \/ /\ table.cells[k].msg \notin heap
                 /\ op'.at = "fault" /\ op'.cell = -1 /\ op'.msg = NoMsg
                 /\ UNCHANGED <<partReceipt, table, nextId, wire>>
<1> DEFINE k == Min(Due(op.i, op.cut))
           c == table.cells[k]
           t == ExpireReceipt(table, k)
<1>1. /\ op.at = "expire" /\ op.cell = -1 /\ Due(op.i, op.cut) # {}
      /\ UNCHANGED <<heap, confirmed, lastSent, numConfirmed, ring, db, acked, called, told>>
  BY DEF ResendExpired, Inv, client, OpOK, WithCell, MaybeCell
<1>2. k \in DOMAIN table.cells /\ k \in Nat
  <2>1. Due(op.i, op.cut) \subseteq DOMAIN table.cells
    BY DEF Due
  <2>2. DOMAIN table.cells \subseteq Nat
    BY OpFacts
  <2>3. k \in Due(op.i, op.cut)
    BY <1>1, <2>1, <2>2, MinProperty
  <2> QED
    BY <2>1, <2>2, <2>3
<1>3. \/ c.msg \notin heap /\ op' = Fault /\ UNCHANGED <<partReceipt, table, nextId, wire>>
      \/ /\ c.msg \in heap /\ op' = [op EXCEPT !.i = k + 1]
         /\ PartSent(c.msg, c.part, t) \/ PartRefused(c.msg, c.part, t)
  BY DEF ResendExpired, base
<1> HIDE DEF k
<1>4. WellFormed(table, Msgs, nextId) /\ nextId \in Nat
  BY DEF Inv, TableOK
<1>5. /\ WellFormed(t, Msgs, nextId)
      /\ DOMAIN t.cells = DOMAIN table.cells \ {k}
      /\ \A j \in DOMAIN t.cells : t.cells[j] = table.cells[j]
  <2>1. WellFormed(t, Msgs, nextId) /\ OneMore(t, table, k)
    BY <1>2, <1>4, ExpireWellFormed DEF t
  <2> QED
    BY <1>2, <2>1 DEF OneMore
<1> HIDE DEF t
<1>6. c.msg \in Msgs /\ c.part \in Parts(c.msg)
  BY <1>2 DEF Inv, TableOK, WorldOK
<1>7. CASE c.msg \notin heap /\ op' = Fault /\ UNCHANGED <<partReceipt, table, nextId, wire>>
  <2>1. op'.at = "fault" /\ op'.cell = -1 /\ op'.msg = NoMsg
    BY <1>7, AtFields DEF Fault, Labels
  <2> QED
    BY <1>1, <1>2, <1>7, <2>1
<1>8. ASSUME c.msg \in heap, op' = [op EXCEPT !.i = k + 1],
             PartSent(c.msg, c.part, t) \/ PartRefused(c.msg, c.part, t)
      PROVE  Expires(k)
  <2>1. op'.at = "expire" /\ op'.cell = -1
    BY <1>1, <1>8, OpFacts DEF Ops
  <2>2. CASE PartSent(c.msg, c.part, t)
    <3>1. /\ nextId' = nextId + 1
          /\ t.hi \notin DOMAIN t.cells /\ t.hi \in Nat
          /\ DOMAIN table'.cells = DOMAIN t.cells \cup {t.hi}
          /\ table'.cells[t.hi] = Fragment(c.msg, c.part)
          /\ \A j \in DOMAIN t.cells : table'.cells[j] = t.cells[j]
          /\ wire' = wire \cup {Fragment(c.msg, c.part)}
          /\ partReceipt' = [partReceipt EXCEPT ![c.msg][c.part] = nextId + 1]
      <4> HIDE DEF c
      <4> QED
        BY <1>4, <1>5, <1>6, <2>2, SentFacts
    <3>2. \A j \in DOMAIN table.cells \ {k} : table'.cells[j] = table.cells[j]
      BY <1>5, <3>1
    <3> QED
      BY <1>5, <1>6, <1>8, <2>1, <3>1, <3>2 DEF Expires
  <2>3. CASE PartRefused(c.msg, c.part, t)
    <3>1. table' = t /\ partReceipt' = partReceipt /\ nextId' = nextId /\ wire' = wire
      BY <2>3 DEF PartRefused, base
    <3> QED
      BY <1>5, <1>6, <1>8, <2>1, <3>1 DEF Expires
  <2> QED
    BY <1>8, <2>2, <2>3
<1> QED
  BY <1>1, <1>2, <1>3, <1>7, <1>8

LEMMA LoadRowFacts ==
  ASSUME Inv, NEW m \in Msgs, LoadRow(m)
  PROVE  /\ op.at = "load" /\ op.cell = -1 /\ op' = op
         /\ m \notin heap /\ m \in called
         /\ db[m].meta /\ db[m].data
         /\ Cardinality(db[m].confirmed) = db[m].done /\ db[m].done < NumParts[m]
         /\ heap' = heap \cup {m}
         /\ confirmed' = [confirmed EXCEPT ![m] = db[m].confirmed]
         /\ numConfirmed' = [numConfirmed EXCEPT ![m] = Cardinality(db[m].confirmed)]
         /\ ring' = Link(ring, m)
         /\ UNCHANGED <<partReceipt, lastSent, table, db, nextId, wire, acked, called, told>>
<1>1. op.at = "load" /\ m \in ToLoad /\ Loadable(m)
  BY DEF LoadRow
<1>2. op.cell = -1
  BY <1>1 DEF Inv, OpOK, WithCell, MaybeCell
<1>3. db[m].meta /\ db[m].data /\ m \notin heap /\ m \in called
  BY <1>1 DEF ToLoad, Inv, DbOK
<1> QED
  BY <1>1, <1>2, <1>3 DEF LoadRow, Loadable, base, client

LEMMA DropRowFacts ==
  ASSUME Inv, NEW m \in Msgs, DropRow(m)
  PROVE  /\ op.at = "load" /\ op.cell = -1 /\ op' = op
         /\ m \notin heap
         /\ db' = [db EXCEPT ![m].data = FALSE]
         /\ UNCHANGED <<heap, partReceipt, confirmed, lastSent, numTransit, numConfirmed,
                        ring, table, nextId, wire, acked, called, told>>
<1>1. op.at = "load" /\ m \in ToLoad
  BY DEF DropRow
<1>2. op.cell = -1
  BY <1>1 DEF Inv, OpOK, WithCell, MaybeCell
<1> QED
  BY <1>1, <1>2 DEF DropRow, ToLoad, structs, statics, base, client

LEMMA CrashFacts ==
  ASSUME Inv, Crash
  PROVE  /\ op'.at = "down" /\ op'.cell = -1
         /\ heap' = {} /\ ring' = <<>> /\ DOMAIN table'.cells = {} /\ wire' = {}
         /\ partReceipt' = [m \in Msgs |-> [i \in Parts(m) |-> 0]]
         /\ confirmed' = [m \in Msgs |-> {}]
         /\ numConfirmed' = [m \in Msgs |-> 0]
         /\ UNCHANGED <<db, nextId, acked, called, told>>
<1>1. op' = At("down") /\ table' = EmptyTable
  BY DEF Crash
<1>2. op'.at = "down" /\ op'.cell = -1
  BY <1>1, AtFields DEF Labels
<1>3. DOMAIN table'.cells = {}
  BY <1>1 DEF EmptyTable
<1> QED
  BY <1>2, <1>3 DEF Crash, client

(***************************************************************************)
(* The list holds messages in memory, none twice.                          *)
(***************************************************************************)
LEMMA ListKept ==
  ASSUME Inv, ListOK, heap' = heap, ring' = ring, called' = called, OnHeap'
  PROVE  ListOK'
BY DEF ListOK, Listed

LEMMA HandlerKeepsList ==
  ASSUME Inv, ListOK, LoopTurn \/ Move \/ ConfirmMeta \/ Notify \/ Retire
  PROVE  ListOK'
<1>1. ListOK /\ OnHeap /\ Listed \subseteq heap
  BY DEF ListOK
<1>2. ASSUME LoopTurn
      PROVE  ListOK'
  <2>1. /\ op.at \in {"first", "pass1", "pass2"} /\ op'.at = op.at /\ op'.msg = op.msg
        /\ op'.cell = op.cell
        /\ op.cell = -1 \/ op.cell \in DOMAIN table.cells
        /\ heap' = heap /\ ring' = ring /\ called' = called
        /\ TurnSent(op.msg, op.i) \/ TurnNotSent(op.msg, op.i)
    BY <1>2, LoopFacts
  <2>2. op.cell \in DOMAIN table.cells => table'.cells[op.cell] = table.cells[op.cell]
    BY <2>1 DEF TurnSent, TurnNotSent
  <2>3. OnHeap'
    BY <1>1, <2>1, <2>2 DEF OnHeap, Listed, WithMsg, Sending, Confirming
  <2> QED
    BY <2>1, <2>3, ListKept
<1>3. ASSUME Move
      PROVE  ListOK'
  <2>1. heap' = heap /\ ring' = ring /\ called' = called /\ table' = table /\ Moved
    BY <1>3, MoveFacts
  <2>2. OnHeap'
    BY <1>1, <2>1 DEF OnHeap, Listed, WithMsg, Sending, Confirming, Moved, Resting
  <2> QED
    BY <2>1, <2>2, ListKept
<1>4. ASSUME ConfirmMeta
      PROVE  ListOK'
  <2>1. /\ op.at = "confirmMeta" /\ op'.cell = op.cell
        /\ \/ op'.at \in {"notify", "pass1"} /\ op'.msg = op.msg
           \/ op'.at = "retire"
        /\ heap' = heap /\ ring' = ring /\ called' = called /\ table' = table
    BY <1>4, ConfirmMetaFacts
  <2>2. OnHeap'
    BY <1>1, <2>1 DEF OnHeap, Listed, WithMsg, Sending, Confirming
  <2> QED
    BY <2>1, <2>2, ListKept
<1>5. ASSUME Notify
      PROVE  ListOK'
  <2>1. /\ op.at = "notify" /\ op'.at = "discard" /\ op'.msg = op.msg /\ op'.cell = op.cell
        /\ heap' = heap /\ ring' = ring /\ called' = called /\ table' = table
    BY <1>5, NotifyFacts
  <2>2. OnHeap'
    BY <1>1, <2>1 DEF OnHeap, Listed, WithMsg, Sending, Confirming
  <2> QED
    BY <2>1, <2>2, ListKept
<1>6. ASSUME Retire
      PROVE  ListOK'
  <2>1. op'.at = "idle" /\ heap' = heap /\ ring' = ring /\ called' = called
    BY <1>6, RetireFacts
  <2>2. OnHeap'
    BY <2>1 DEF OnHeap, WithMsg, Sending, Confirming
  <2> QED
    BY <2>1, <2>2, ListKept
<1> QED
  BY <1>2, <1>3, <1>4, <1>5, <1>6

\* Returning to the client's callback, the message it was called for is there.
LEMMA SendingKeepsList ==
  ASSUME Inv, ListOK, (\E m \in Msgs : SendLong(m)) \/ SendFails \/ InsertMeta \/ InsertData
  PROVE  ListOK'
<1>1. /\ ListOK /\ OnHeap /\ Listed \subseteq heap /\ heap \subseteq called
      /\ IsInjective(ring) /\ ring \in Seq(called) /\ called \subseteq Msgs
  BY DEF ListOK, Inv, WorldOK
<1>2. ASSUME NEW m \in Msgs, SendLong(m)
      PROVE  ListOK'
  <2>1. /\ op.at \in {"idle", "discard"}
        /\ op.at = "idle" => op.cell = -1
        /\ op'.at = "first" /\ op'.msg = m /\ op'.cell = op.cell
        /\ m \notin called /\ called' = called \cup {m} /\ heap' = heap \cup {m}
        /\ ring' = ring /\ table' = table
    BY <1>2, SendLongFacts
  <2>2. op.cell # -1 => table.cells[op.cell].msg \in heap
    BY <1>1, <2>1 DEF OnHeap, WithMsg, Confirming
  <2>3. OnHeap'
    BY <1>1, <2>1, <2>2 DEF OnHeap, Listed, WithMsg, Sending, Confirming
  <2> QED
    BY <1>1, <2>1, <2>3 DEF ListOK, Listed
<1>3. ASSUME op.at \in Sending
      PROVE  /\ Returned.at = "idle" \/ Returned.at = "discard"
             /\ Returned.at = "discard" =>
                  /\ Returned.msg \in heap /\ Returned.msg # op.msg
                  /\ table.cells[Returned.cell].msg = Returned.msg
  BY <1>1, <1>3, ReturnedFacts DEF OnHeap
<1>4. ASSUME SendFails
      PROVE  ListOK'
  <2>1. /\ op.at = "first" /\ heap' = heap \ {op.msg} /\ op' = Returned
        /\ ring' = ring /\ table' = table /\ called' = called
    BY <1>4, SendFailsFacts
  <2>2. op.msg \notin Listed
    BY <1>1, <2>1 DEF OnHeap
  <2>3. OnHeap'
    BY <1>3, <2>1 DEF OnHeap, WithMsg, Sending, Confirming
  <2> QED
    BY <1>1, <2>1, <2>2, <2>3 DEF ListOK, Listed
<1>5. ASSUME InsertMeta
      PROVE  ListOK'
  <2>1. /\ op.at = "first" /\ op.msg \in called /\ op'.msg = op.msg /\ op'.cell = op.cell
        /\ \/ op'.at = "fault" /\ ring' = ring
           \/ op'.at = "insertData" /\ ring' = Link(ring, op.msg)
        /\ heap' = heap /\ table' = table /\ called' = called
    BY <1>5, InsertMetaFacts
  <2>2. op.msg \notin Listed /\ op.msg \in heap
    BY <1>1, <2>1 DEF OnHeap, WithMsg
  <2>3. OnHeap'
    BY <1>1, <2>1 DEF OnHeap, WithMsg, Sending, Confirming
  <2>4. IsInjective(ring') /\ ToSet(ring') \subseteq heap
    <3>1. /\ ToSet(Link(ring, op.msg)) = Listed \cup {op.msg}
          /\ IsInjective(Link(ring, op.msg))
      BY <1>1, <2>1, <2>2, LinkLists DEF Listed
    <3> QED
      BY <1>1, <2>1, <2>2, <3>1 DEF Listed
  <2> QED
    BY <1>1, <2>1, <2>3, <2>4 DEF ListOK, Listed
<1>6. ASSUME InsertData
      PROVE  ListOK'
  <2>1. /\ op.at = "insertData" /\ op' = Returned
        /\ heap' = heap /\ ring' = ring /\ table' = table /\ called' = called
    BY <1>6, InsertDataFacts
  <2>2. OnHeap'
    BY <1>3, <2>1 DEF OnHeap, WithMsg, Sending, Confirming
  <2> QED
    BY <2>1, <2>2, ListKept
<1> QED
  BY <1>2, <1>4, <1>5, <1>6

LEMMA OthersKeepList ==
  ASSUME Inv, ListOK,
         \/ ReadReceipt \/ ResendExpired \/ Discard \/ Crash
         \/ \E m \in Msgs : LoadRow(m) \/ DropRow(m)
         \/ UNCHANGED vars
  PROVE  ListOK'
<1>1. /\ ListOK /\ OnHeap /\ Listed \subseteq heap /\ heap \subseteq called
      /\ IsInjective(ring) /\ ring \in Seq(called) /\ called \subseteq Msgs
  BY DEF ListOK, Inv, WorldOK
<1>2. ASSUME NEW f \in wire, ForeignReceipt(f)
      PROVE  ListOK'
  <2>1. op'.at = "idle" /\ heap' = heap /\ ring' = ring /\ called' = called
    BY <1>2, ForeignFacts
  <2>2. OnHeap'
    BY <2>1 DEF OnHeap, WithMsg, Sending, Confirming
  <2> QED
    BY <2>1, <2>2, ListKept
<1>3. ASSUME NEW f \in wire, Receipt(f)
      PROVE  ListOK'
  <2>1. /\ heap' = heap /\ ring' = ring /\ called' = called /\ table' = table
        /\ \/ op'.at = "fault"
           \/ \E k \in DOMAIN table.cells : Confirms(k)
    BY <1>3, ReceiptFacts
  <2>2. OnHeap'
    BY <1>1, <2>1 DEF OnHeap, WithMsg, Sending, Confirming, Confirms
  <2> QED
    BY <2>1, <2>2, ListKept
<1>4. ASSUME ResendExpired
      PROVE  ListOK'
  <2>1. op'.at \in {"expire", "fault"} /\ heap' = heap /\ ring' = ring /\ called' = called
    BY <1>4, ResendFacts DEF Expires
  <2>2. OnHeap'
    BY <2>1 DEF OnHeap, WithMsg, Sending, Confirming
  <2> QED
    BY <2>1, <2>2, ListKept
<1>5. ASSUME Discard
      PROVE  ListOK'
  <2>1. /\ op'.at = "retire" /\ ring' = Unlink(ring, op.msg) /\ heap' = heap \ {op.msg}
        /\ called' = called
    BY <1>5, DiscardFacts DEF Freed
  <2>2. OnHeap'
    BY <2>1 DEF OnHeap, WithMsg, Sending, Confirming
  <2>3. ToSet(ring') \subseteq Listed \ {op.msg} /\ IsInjective(ring')
    BY <1>1, <2>1, UnlinkLists DEF Listed
  <2> QED
    BY <1>1, <2>1, <2>2, <2>3 DEF ListOK, Listed
<1>6. ASSUME Crash
      PROVE  ListOK'
  <2>1. op'.at = "down" /\ heap' = {} /\ ring' = <<>>
    BY <1>6, CrashFacts
  <2>2. OnHeap'
    BY <2>1 DEF OnHeap, WithMsg, Sending, Confirming
  <2> QED
    BY <2>1, <2>2 DEF ListOK, Listed, IsInjective, ToSet
<1>7. ASSUME NEW m \in Msgs, LoadRow(m)
      PROVE  ListOK'
  <2>1. /\ op'.at = "load" /\ m \notin heap /\ m \in called /\ heap' = heap \cup {m}
        /\ ring' = Link(ring, m) /\ called' = called
    BY <1>7, LoadRowFacts
  <2>2. OnHeap'
    BY <2>1 DEF OnHeap, WithMsg, Sending, Confirming
  <2>3. ToSet(ring') = Listed \cup {m} /\ IsInjective(ring')
    BY <1>1, <2>1, LinkLists DEF Listed
  <2> QED
    BY <1>1, <2>1, <2>2, <2>3 DEF ListOK, Listed
<1>8. ASSUME NEW m \in Msgs, DropRow(m)
      PROVE  ListOK'
  <2>1. op'.at = "load" /\ heap' = heap /\ ring' = ring /\ called' = called
    BY <1>8, DropRowFacts
  <2>2. OnHeap'
    BY <2>1 DEF OnHeap, WithMsg, Sending, Confirming
  <2> QED
    BY <2>1, <2>2, ListKept
<1>9. ASSUME UNCHANGED vars
      PROVE  ListOK'
  BY <1>9 DEF vars, structs, statics, client, ListOK, OnHeap, Listed
<1> QED
  BY <1>2, <1>3, <1>4, <1>5, <1>6, <1>7, <1>8, <1>9 DEF ReadReceipt

LEMMA InitList == Init => ListOK
<1> SUFFICES ASSUME Init
             PROVE  ListOK
  OBVIOUS
<1>1. op.at = "idle"
  BY AtFields DEF Init, Idle, Labels
<1> QED
  BY <1>1 DEF Init, ListOK, OnHeap, Listed, ToSet, IsInjective, WithMsg, Sending, Confirming

\* Next, as the lemmas of this module divide it.
LEMMA NextDivided ==
  ASSUME [Next]_vars
  PROVE  \/ LoopTurn \/ Move \/ ConfirmMeta \/ Notify \/ Retire
         \/ (\E m \in Msgs : SendLong(m)) \/ SendFails \/ InsertMeta \/ InsertData
         \/ ReadReceipt \/ ResendExpired \/ Discard \/ Crash
         \/ (\E m \in Msgs : LoadRow(m) \/ DropRow(m))
         \/ UNCHANGED vars
BY DEF Next, Handler, LoopTurn, Move

LEMMA NextList == Inv /\ ListOK /\ [Next]_vars => ListOK'
BY NextDivided, HandlerKeepsList, SendingKeepsList, OthersKeepList

(***************************************************************************)
(* The list that sendMore, generateReceiptNo and is_receipt_pending walk   *)
(* has no freed message in it and none twice, whatever the client sends    *)
(* from inside its callback, and whatever the base refuses.                *)
(***************************************************************************)
THEOREM ListStaysLive == Spec => []ListLive
<1>1. Init => Inv /\ ListOK
  BY InitInv, InitList
<1>2. Inv /\ ListOK /\ [Next]_vars => (Inv /\ ListOK)'
  BY NextInv, NextList
<1>3. ListOK => ListLive
  BY DEF ListOK, ListLive
<1> QED
  BY <1>1, <1>2, <1>3, PTL DEF Spec

(***************************************************************************)
(* The rest of the invariant, one conjunct and one kind of step at a time. *)
(***************************************************************************)
\* What the steps that write the database leave of the rows.
LEMMA RowWrites ==
  ASSUME NEW row \in Row
  PROVE  /\ \A d \in BOOLEAN : LET new == [row EXCEPT !.data = d]
            IN  /\ new.confirmed = row.confirmed /\ new.done = row.done
                /\ new.meta = row.meta /\ new.data = d
         /\ LET new == [row EXCEPT !.meta = TRUE]
            IN  /\ new.confirmed = row.confirmed /\ new.done = row.done
                /\ new.data = row.data /\ new.meta = TRUE
         /\ LET new == [row EXCEPT !.done = row.done + 1]
            IN  /\ new.confirmed = row.confirmed /\ new.data = row.data
                /\ new.meta = row.meta /\ new.done = row.done + 1
         /\ \A p \in Nat : LET new == [row EXCEPT !.confirmed = row.confirmed \cup {p}]
            IN  /\ new.done = row.done /\ new.data = row.data
                /\ new.meta = row.meta /\ new.confirmed = row.confirmed \cup {p}
         /\ row.done \in Nat
BY DEF Row

LEMMA OneRowWritten ==
  ASSUME Inv, NEW m \in Msgs, NEW row, db' = [db EXCEPT ![m] = row]
  PROVE  db[m] \in Row /\ \A n \in Msgs : db'[n] = IF n = m THEN row ELSE db[n]
BY DEF Inv, DbOK

LEMMA DataFields ==
  ASSUME Inv, NEW m \in Msgs, NEW d \in BOOLEAN, db' = [db EXCEPT ![m].data = d]
  PROVE  \A n \in Msgs :
           /\ db'[n].confirmed = db[n].confirmed /\ db'[n].done = db[n].done
           /\ db[n].meta <=> db'[n].meta
           /\ (n = m /\ d) \/ (n # m /\ db[n].data) <=> db'[n].data
<1> DEFINE new == [db[m] EXCEPT !.data = d]
<1>1. db[m] \in Row /\ \A n \in Msgs : db'[n] = IF n = m THEN new ELSE db[n]
  BY OneRowWritten
<1>2. /\ new.confirmed = db[m].confirmed /\ new.done = db[m].done
      /\ new.meta = db[m].meta /\ new.data = d
  BY <1>1, RowWrites
<1> HIDE DEF new
<1> QED
  BY <1>1, <1>2

LEMMA MetaFields ==
  ASSUME Inv, NEW m \in Msgs, db' = [db EXCEPT ![m].meta = TRUE]
  PROVE  \A n \in Msgs :
           /\ db'[n].confirmed = db[n].confirmed /\ db'[n].done = db[n].done
           /\ db[n].data <=> db'[n].data
           /\ n = m \/ db[n].meta <=> db'[n].meta
<1> DEFINE new == [db[m] EXCEPT !.meta = TRUE]
<1>1. db[m] \in Row /\ \A n \in Msgs : db'[n] = IF n = m THEN new ELSE db[n]
  BY OneRowWritten
<1>2. /\ new.confirmed = db[m].confirmed /\ new.done = db[m].done
      /\ new.data = db[m].data /\ new.meta = TRUE
  BY <1>1, RowWrites
<1> HIDE DEF new
<1> QED
  BY <1>1, <1>2

LEMMA DoneFields ==
  ASSUME Inv, NEW m \in Msgs, db' = [db EXCEPT ![m].done = @ + 1]
  PROVE  \A n \in Msgs :
           /\ db'[n].confirmed = db[n].confirmed
           /\ db[n].data <=> db'[n].data
           /\ db[n].meta <=> db'[n].meta
           /\ db'[n].done = IF n = m THEN db[n].done + 1 ELSE db[n].done
           /\ db[n].done \in Nat
<1> DEFINE new == [db[m] EXCEPT !.done = db[m].done + 1]
<1>1. db[m] \in Row /\ \A n \in Msgs : db'[n] = IF n = m THEN new ELSE db[n]
  BY OneRowWritten
<1>2. /\ new.confirmed = db[m].confirmed /\ new.data = db[m].data
      /\ new.meta = db[m].meta /\ new.done = db[m].done + 1
  BY <1>1, RowWrites
<1>3. \A n \in Msgs : db[n].done \in Nat
  BY RowWrites DEF Inv, DbOK
<1> HIDE DEF new
<1> QED
  BY <1>1, <1>2, <1>3

LEMMA ConfirmedFields ==
  ASSUME Inv, NEW m \in Msgs, NEW p \in Nat, db' = [db EXCEPT ![m].confirmed = @ \cup {p}]
  PROVE  \A n \in Msgs :
           /\ db'[n].done = db[n].done
           /\ db[n].data <=> db'[n].data
           /\ db[n].meta <=> db'[n].meta
           /\ n = m => db'[n].confirmed = db[n].confirmed \cup {p}
           /\ n # m => db'[n].confirmed = db[n].confirmed
<1> DEFINE new == [db[m] EXCEPT !.confirmed = db[m].confirmed \cup {p}]
<1>1. db[m] \in Row /\ \A n \in Msgs : db'[n] = IF n = m THEN new ELSE db[n]
  BY OneRowWritten
<1>2. /\ new.done = db[m].done /\ new.data = db[m].data
      /\ new.meta = db[m].meta /\ new.confirmed = db[m].confirmed \cup {p}
  BY <1>1, RowWrites
<1> HIDE DEF new
<1>3. db'[m] = new /\ \A n \in Msgs \ {m} : db'[n] = db[n]
  BY <1>1
<1> QED
  BY <1>2, <1>3

LEMMA FreshKept ==
  ASSUME FreshOK, called \subseteq called',
         \A m \in Msgs \ called' :
           /\ partReceipt'[m] = partReceipt[m] /\ confirmed'[m] = confirmed[m]
           /\ db'[m].confirmed = db[m].confirmed /\ db'[m].done = db[m].done
           /\ told'[m] = told[m]
  PROVE  FreshOK'
BY DEF FreshOK

LEMMA RecordsKept ==
  ASSUME RecordsOK, table' = table, op'.cell = op.cell, heap \subseteq heap',
         partReceipt' = partReceipt, confirmed' = confirmed,
         wire' \subseteq wire, nextId' = nextId
  PROVE  RecordsOK'
BY DEF RecordsOK

\* Of two records, one message's part has only one.
LEMMA OneRecordEach ==
  ASSUME Inv, RecordsOK,
         NEW j \in DOMAIN table.cells, NEW k \in DOMAIN table.cells,
         j # op.cell, k # op.cell,
         table.cells[j].msg = table.cells[k].msg, table.cells[j].part = table.cells[k].part
  PROVE  j = k
<1>1. /\ DOMAIN table.cells \subseteq Nat
      /\ table.cells[j].receipt \in Nat /\ table.cells[k].receipt \in Nat
  BY CellFacts DEF Inv, TableOK
<1>2. table.cells[j].receipt = table.cells[k].receipt
  BY DEF RecordsOK
<1>3. Ordered(table)
  BY DEF Inv, TableOK, WellFormed
<1>4. ~(j < k) /\ ~(k < j)
  BY <1>1, <1>2, <1>3 DEF Ordered
<1> QED
  BY <1>1, <1>4

\* What a record says is a message and one of its parts.
LEMMA RecordFacts ==
  ASSUME Inv, NEW k \in DOMAIN table.cells
  PROVE  /\ k \in Nat
         /\ table.cells[k].msg \in Msgs /\ table.cells[k].msg \in called
         /\ table.cells[k].part \in Parts(table.cells[k].msg)
         /\ table.cells[k].receipt \in Nat \ {0} /\ table.cells[k].receipt <= nextId
<1>1. /\ DOMAIN table.cells \subseteq Nat /\ table.cells[k] \in Cell(Msgs)
      /\ table.cells[k].receipt <= nextId
  BY CellFacts DEF Inv, TableOK
<1> QED
  BY <1>1 DEF Inv, TableOK, WorldOK, Cell

(***************************************************************************)
(* One turn of a sending loop.                                             *)
(***************************************************************************)
\* The part that is sent waits for no receipt.
LEMMA SentPartIsNew ==
  ASSUME Inv, SentOK, LoopTurn, TurnSent(op.msg, op.i), op.msg \in heap
  PROVE  /\ partReceipt[op.msg][op.i] = 0
         /\ op.at = "pass2" => op.i <= lastSent[op.msg]
<1>1. /\ op.at \in {"first", "pass1", "pass2"} /\ op.msg \in Msgs /\ op.i \in Nat
      /\ op.i \in Parts(op.msg) /\ Room(op.msg)
  BY LoopFacts
<1>2. op.i \notin confirmed[op.msg] /\ (op.at = "pass2" => Unsent(op.msg, op.i))
  BY DEF TurnSent, Accepts
<1>3. lastSent[op.msg] \in Nat
  BY <1>1 DEF Inv, StructsOK
<1>4. CASE op.at = "first"
  BY <1>1, <1>4 DEF SentOK
<1>5. CASE op.at = "pass1"
  BY <1>1, <1>5 DEF SentOK
<1>6. CASE op.at = "pass2"
  BY <1>1, <1>2, <1>3, <1>6 DEF SentOK, Unsent
<1> QED
  BY <1>1, <1>4, <1>5, <1>6

LEMMA SentRecords ==
  ASSUME Inv, RecordsOK, SentOK, ListOK, LoopTurn, TurnSent(op.msg, op.i)
  PROVE  RecordsOK'
<1> DEFINE m == op.msg
           i == op.i
           h == table.hi
<1>1. /\ m \in Msgs /\ i \in Parts(m) /\ op'.cell = op.cell
      /\ op.at \in WithMsg
      /\ op.cell = -1 \/ op.cell \in DOMAIN table.cells
      /\ heap' = heap /\ confirmed' = confirmed
  BY LoopFacts DEF WithMsg
<1>2. m \in heap
  BY <1>1 DEF ListOK, OnHeap
<1>3. partReceipt[m][i] = 0
  BY <1>2, SentPartIsNew
<1>4. /\ i \notin confirmed[m]
      /\ nextId' = nextId + 1 /\ nextId \in Nat
      /\ h \notin DOMAIN table.cells
      /\ DOMAIN table'.cells = DOMAIN table.cells \cup {h}
      /\ table'.cells[h] = Fragment(m, i)
      /\ \A k \in DOMAIN table.cells : table'.cells[k] = table.cells[k]
      /\ wire' = wire \cup {Fragment(m, i)}
      /\ partReceipt' = [partReceipt EXCEPT ![m][i] = nextId + 1]
  BY DEF TurnSent, Accepts, Inv, TableOK
<1>5. /\ Fragment(m, i).receipt = nextId + 1 /\ Fragment(m, i).msg = m
      /\ Fragment(m, i).part = i
  BY DEF Fragment
<1>6. /\ DOMAIN partReceipt = Msgs
      /\ \A n \in Msgs : DOMAIN partReceipt[n] = Parts(n)
  BY DEF Inv, StructsOK
<1>7. \A n \in Msgs : \A j \in Parts(n) :
        partReceipt'[n][j] = IF n = m /\ j = i THEN nextId + 1 ELSE partReceipt[n][j]
  BY <1>1, <1>4, <1>6
<1> HIDE DEF m, i, h
<1>8. ASSUME NEW k \in DOMAIN table'.cells, k # op'.cell
      PROVE  /\ table'.cells[k].msg \in heap'
             /\ partReceipt'[table'.cells[k].msg][table'.cells[k].part] = table'.cells[k].receipt
             /\ table'.cells[k].part \notin confirmed'[table'.cells[k].msg]
  <2>1. CASE k = h
    BY <1>1, <1>2, <1>4, <1>5, <1>7, <2>1
  <2>2. CASE k \in DOMAIN table.cells
    <3>1. /\ table.cells[k].msg \in Msgs /\ table.cells[k].part \in Parts(table.cells[k].msg)
          /\ table.cells[k].receipt \in Nat \ {0}
      BY <2>2, RecordFacts
    <3>2. /\ table.cells[k].msg \in heap
          /\ partReceipt[table.cells[k].msg][table.cells[k].part] = table.cells[k].receipt
          /\ table.cells[k].part \notin confirmed[table.cells[k].msg]
      BY <1>1, <1>8, <2>2 DEF RecordsOK
    <3>3. ~(table.cells[k].msg = m /\ table.cells[k].part = i)
      BY <1>3, <3>1, <3>2
    <3> QED
      BY <1>1, <1>4, <1>7, <2>2, <3>1, <3>2, <3>3
  <2> QED
    BY <1>4, <2>1, <2>2
<1>9. \A f \in wire : f.receipt <= nextId /\ f.receipt \in Nat
  BY DEF RecordsOK, Inv, WorldOK, Cell
<1>10. \A f \in wire' : f.receipt <= nextId'
  BY <1>4, <1>5, <1>9
<1>11. ASSUME NEW f \in wire', NEW k \in DOMAIN table'.cells,
              f.receipt = table'.cells[k].receipt
       PROVE  f = table'.cells[k]
  <2>1. CASE f \in wire /\ k \in DOMAIN table.cells
    BY <1>4, <1>11, <2>1 DEF RecordsOK
  <2>2. CASE f \in wire /\ k = h
    BY <1>4, <1>5, <1>9, <1>11, <2>2
  <2>3. CASE f = Fragment(m, i) /\ k = h
    BY <1>4, <2>3
  <2>4. CASE f = Fragment(m, i) /\ k \in DOMAIN table.cells
    BY <1>4, <1>5, <1>11, <2>4, RecordFacts
  <2> QED
    BY <1>4, <2>1, <2>2, <2>3, <2>4
<1> QED
  BY <1>8, <1>10, <1>11 DEF RecordsOK

LEMMA TurnSafe ==
  ASSUME Inv, Safe, ListOK, SpuriousRefusal = FALSE, LoopTurn
  PROVE  Safe'
<1> DEFINE m == op.msg
           i == op.i
<1>1. /\ op.at \in {"first", "pass1", "pass2"}
      /\ m \in Msgs /\ m \in called /\ i \in Nat /\ i \in Parts(m)
      /\ Room(m)
      /\ op'.at = op.at /\ op'.msg = m /\ op'.i = i + 1 /\ op'.cell = op.cell
      /\ op.cell = -1 \/ op.cell \in DOMAIN table.cells
      /\ UNCHANGED <<heap, confirmed, numConfirmed, ring, db, online, acked, called, told>>
      /\ TurnSent(m, i) \/ TurnNotSent(m, i)
  BY LoopFacts
<1>2. FreshOK /\ RecordsOK /\ SentOK /\ ConfirmedOK /\ ToldOK
  BY DEF Safe
<1>3. m \in heap
  BY <1>1 DEF ListOK, OnHeap, WithMsg
<1>4. /\ DOMAIN partReceipt = Msgs /\ DOMAIN confirmed = Msgs
      /\ \A n \in Msgs : DOMAIN partReceipt[n] = Parts(n)
      /\ lastSent \in [Msgs -> Nat]
      /\ heap \subseteq Msgs /\ \A n \in Msgs : Parts(n) \subseteq Nat
  BY PartsNat DEF Inv, StructsOK
<1>5. \A k \in DOMAIN table.cells : table'.cells[k] = table.cells[k]
  BY <1>1 DEF TurnSent, TurnNotSent
<1>6. \A n \in Msgs \ called : partReceipt'[n] = partReceipt[n]
  <2>1. CASE TurnSent(m, i)
    <3>1. partReceipt' = [partReceipt EXCEPT ![m][i] = nextId + 1]
      BY <2>1 DEF TurnSent
    <3> QED
      BY <1>1, <1>4, <3>1
  <2>2. CASE TurnNotSent(m, i)
    BY <2>2 DEF TurnNotSent
  <2> QED
    BY <1>1, <2>1, <2>2
<1>7. FreshOK'
  BY <1>1, <1>2, <1>6, FreshKept
<1>8. RecordsOK'
  <2>1. CASE TurnSent(m, i)
    BY <1>2, <2>1, SentRecords
  <2>2. CASE TurnNotSent(m, i)
    BY <1>1, <1>2, <2>2, RecordsKept DEF TurnNotSent
  <2> QED
    BY <1>1, <2>1, <2>2
<1>9. ConfirmedOK'
  BY <1>1, <1>2 DEF ConfirmedOK
<1>10. ToldOK'
  <2>1. \A n : Finishing(n)' <=> Finishing(n)
    BY <1>1, <1>5 DEF Finishing
  <2> QED
    BY <1>1, <1>2, <2>1 DEF ToldOK
<1>11. SentOK'
  <2>1. CASE TurnSent(m, i)
    <3>1. /\ partReceipt[m][i] = 0
          /\ op.at = "pass2" => i <= lastSent[m]
      BY <1>2, <1>3, <2>1, SentPartIsNew
    <3>2. /\ i \notin confirmed[m]
          /\ partReceipt' = [partReceipt EXCEPT ![m][i] = nextId + 1]
          /\ lastSent' = IF op.at = "pass2" THEN lastSent ELSE [lastSent EXCEPT ![m] = i]
      BY <2>1 DEF TurnSent, Accepts
    <3> HIDE DEF m, i
    <3>3. \A n \in Msgs : \A j \in Parts(n) :
            partReceipt'[n][j] = IF n = m /\ j = i THEN nextId + 1 ELSE partReceipt[n][j]
      BY <1>1, <1>4, <3>2
    <3>4. \A n \in Msgs : lastSent'[n] = IF op.at # "pass2" /\ n = m THEN i ELSE lastSent[n]
      BY <1>1, <1>4, <3>2
    <3>5. ASSUME NEW n \in heap', NEW j \in Parts(n), j > lastSent'[n]
          PROVE  partReceipt'[n][j] = 0
      <4>1. n \in Msgs /\ n \in heap /\ j \in Nat
        BY <1>1, <1>4
      <4>2. CASE n # m
        BY <1>2, <3>3, <3>4, <3>5, <4>1, <4>2 DEF SentOK
      <4>3. CASE n = m /\ op.at = "first"
        <5>1. j > i
          BY <3>4, <3>5, <4>1, <4>3
        <5>2. partReceipt[m][j] = 0
          BY <1>1, <1>2, <4>1, <4>3, <5>1 DEF SentOK, m, i
        <5> QED
          BY <1>1, <3>3, <4>1, <4>3, <5>1, <5>2
      <4>4. CASE n = m /\ op.at = "pass1"
        <5>1. j > i /\ i > lastSent[m]
          BY <1>2, <3>4, <3>5, <4>1, <4>4 DEF SentOK, m, i
        <5>2. j > lastSent[m]
          BY <1>1, <1>4, <4>1, <5>1
        <5>3. partReceipt[m][j] = 0
          BY <1>2, <4>1, <4>4, <5>2 DEF SentOK
        <5> QED
          BY <1>1, <3>3, <4>1, <4>4, <5>1, <5>3
      <4>5. CASE n = m /\ op.at = "pass2"
        <5>1. j > lastSent[m] /\ i <= lastSent[m]
          BY <3>1, <3>4, <3>5, <4>1, <4>5 DEF m, i
        <5>2. j # i
          BY <1>1, <1>4, <4>1, <5>1
        <5>3. partReceipt[m][j] = 0
          BY <1>2, <4>1, <4>5, <5>1 DEF SentOK
        <5> QED
          BY <1>1, <3>3, <4>1, <4>5, <5>2, <5>3
      <4> QED
        BY <1>1, <4>2, <4>3, <4>4, <4>5
    <3>6. op'.at = "first" =>
            \A j \in Parts(op'.msg) : j >= op'.i => partReceipt'[op'.msg][j] = 0
      <4> SUFFICES ASSUME op.at = "first", NEW j \in Parts(m), j >= i + 1
                   PROVE  partReceipt'[m][j] = 0
        BY <1>1
      <4>1. j \in Nat /\ j # i /\ j >= i
        BY <1>1, <1>4
      <4>2. partReceipt[m][j] = 0
        BY <1>2, <4>1 DEF SentOK, m, i
      <4> QED
        BY <1>1, <3>3, <4>1, <4>2
    <3>7. op'.at = "pass1" =>
            /\ FriendOf[op'.msg] \in online'
            /\ op'.i > lastSent'[op'.msg]
            /\ \A j \in Parts(op'.msg) :
                 lastSent'[op'.msg] < j /\ j < op'.i => j \in confirmed'[op'.msg]
      <4> SUFFICES ASSUME op.at = "pass1"
                   PROVE  /\ FriendOf[m] \in online
                          /\ i + 1 > i
                          /\ \A j \in Parts(m) : i < j /\ j < i + 1 => j \in confirmed[m]
        BY <1>1, <3>4
      <4>1. FriendOf[m] \in online
        BY <1>2 DEF SentOK, m
      <4> QED
        BY <1>1, <1>4, <4>1
    <3>8. op'.at = "pass2" =>
            \A j \in Parts(op'.msg) : j > lastSent'[op'.msg] => j \in confirmed'[op'.msg]
      BY <1>1, <1>2, <3>4 DEF SentOK, m
    <3> QED
      BY <1>1, <3>5, <3>6, <3>7, <3>8 DEF SentOK
  <2>2. CASE TurnNotSent(m, i)
    <3>1. /\ op.at = "pass1" => ~Accepts(m, i)
          /\ UNCHANGED <<partReceipt, numTransit, lastSent>>
      BY <2>2 DEF TurnNotSent
    <3> HIDE DEF m, i
    <3>2. op.at = "pass1" => i \in confirmed[m]
      BY <1>2, <3>1 DEF SentOK, Accepts, m
    <3>3. op'.at = "pass1" =>
            /\ FriendOf[op'.msg] \in online'
            /\ op'.i > lastSent'[op'.msg]
            /\ \A j \in Parts(op'.msg) :
                 lastSent'[op'.msg] < j /\ j < op'.i => j \in confirmed'[op'.msg]
      <4> SUFFICES ASSUME op.at = "pass1", NEW j \in Parts(m)
                   PROVE  /\ FriendOf[m] \in online
                          /\ i + 1 > lastSent[m]
                          /\ lastSent[m] < j /\ j < i + 1 => j \in confirmed[m]
        <5>1. 0 \in Parts(m)
          BY <1>1, PartsNat
        <5> QED
          BY <1>1, <3>1, <5>1
      <4>1. /\ FriendOf[m] \in online /\ i > lastSent[m]
            /\ lastSent[m] < j /\ j < i => j \in confirmed[m]
        BY <1>2 DEF SentOK, m, i
      <4>2. j \in Nat /\ lastSent[m] \in Nat
        BY <1>1, <1>4
      <4> QED
        BY <1>1, <3>2, <4>1, <4>2
    <3>4. op'.at = "first" =>
            \A j \in Parts(op'.msg) : j >= op'.i => partReceipt'[op'.msg][j] = 0
      <4> SUFFICES ASSUME op.at = "first", NEW j \in Parts(m), j >= i + 1
                   PROVE  partReceipt[m][j] = 0
        BY <1>1, <3>1
      <4>1. j >= i
        BY <1>1, <1>4
      <4> QED
        BY <1>2, <4>1 DEF SentOK, m, i
    <3>5. op'.at = "pass2" =>
            \A j \in Parts(op'.msg) : j > lastSent'[op'.msg] => j \in confirmed'[op'.msg]
      BY <1>1, <1>2, <3>1 DEF SentOK, m
    <3>6. \A n \in heap' : \A j \in Parts(n) : j > lastSent'[n] => partReceipt'[n][j] = 0
      BY <1>1, <1>2, <3>1 DEF SentOK
    <3> QED
      BY <1>1, <3>3, <3>4, <3>5, <3>6 DEF SentOK
  <2> QED
    BY <1>1, <2>1, <2>2
<1> QED
  BY <1>7, <1>8, <1>9, <1>10, <1>11 DEF Safe

(***************************************************************************)
(* Steps that only move the handler on.                                    *)
(***************************************************************************)
LEMMA MoveSafe ==
  ASSUME Inv, Safe, ListOK, Move
  PROVE  Safe'
<1>1. /\ UNCHANGED <<heap, partReceipt, confirmed, lastSent, numTransit, numConfirmed,
                     ring, table, db, nextId, wire, acked, called, told>>
      /\ op.at # "fault" /\ Moved
  BY MoveFacts
<1>2. FreshOK /\ RecordsOK /\ SentOK /\ ConfirmedOK /\ ToldOK
  BY DEF Safe
<1>3. FreshOK'
  BY <1>1, <1>2 DEF FreshOK
<1>4. op'.cell = op.cell
  BY <1>1 DEF Moved
<1>5. RecordsOK'
  BY <1>1, <1>2, <1>4, RecordsKept
<1>6. /\ op.at \notin New \cup {"confirmMeta", "discard", "notify"}
      /\ op'.at \notin New \cup {"confirmMeta", "discard", "notify"}
  BY <1>1 DEF Moved, Resting, New
<1>7. ConfirmedOK'
  BY <1>1, <1>2, <1>6 DEF ConfirmedOK, New
<1>8. ToldOK'
  BY <1>1, <1>2, <1>6 DEF ToldOK, Finishing
<1>9. SentOK'
  <2>1. op'.at # "first"
    BY <1>6 DEF New
  <2>2. \A n \in heap' : \A j \in Parts(n) : j > lastSent'[n] => partReceipt'[n][j] = 0
    BY <1>1, <1>2 DEF SentOK
  <2>3. op'.at \in {"down", "load"} =>
          \A n \in Msgs : \A j \in Parts(n) : partReceipt'[n][j] = 0
    BY <1>1, <1>2 DEF SentOK, Moved, Resting
  <2>4. ASSUME op'.at = "pass1"
        PROVE  /\ FriendOf[op'.msg] \in online'
               /\ op'.i > lastSent'[op'.msg]
               /\ \A j \in Parts(op'.msg) :
                    lastSent'[op'.msg] < j /\ j < op'.i => j \in confirmed'[op'.msg]
    <3>1. /\ op.at = "more" /\ op'.msg = op.msg /\ op'.i = lastSent[op.msg] + 1
          /\ FriendOf[op.msg] \in online'
      BY <1>1, <2>4 DEF Moved
    <3>2. op.msg \in Msgs
      BY <3>1, OpFacts DEF WithMsg
    <3>3. lastSent[op.msg] \in Nat /\ Parts(op.msg) \subseteq Nat
      BY <3>2, PartsNat DEF Inv, StructsOK
    <3> QED
      BY <1>1, <3>1, <3>3
  <2>5. ASSUME op'.at = "pass2"
        PROVE  \/ ~Room(op.msg)'
               \/ \A j \in Parts(op'.msg) : j > lastSent'[op'.msg] => j \in confirmed'[op'.msg]
    <3>1. /\ op.at = "pass1" /\ op'.msg = op.msg
          /\ ~(op.i < NumParts[op.msg] /\ Room(op.msg))
      BY <1>1, <2>5 DEF Moved, Resting
    <3>2. CASE ~Room(op.msg)
      BY <1>1, <3>1, <3>2 DEF Room
    <3>3. CASE ~(op.i < NumParts[op.msg])
      <4>1. op.msg \in Msgs /\ op.i \in Nat
        BY <3>1, OpFacts DEF WithMsg
      <4>2. \A j \in Parts(op.msg) : j < op.i
        BY <3>3, <4>1 DEF Parts
      <4> QED
        BY <1>1, <1>2, <3>1, <4>2 DEF SentOK
    <3> QED
      BY <3>1, <3>2, <3>3
  <2> QED
    BY <2>1, <2>2, <2>3, <2>4, <2>5 DEF SentOK
<1> QED
  BY <1>3, <1>5, <1>7, <1>8, <1>9 DEF Safe

(***************************************************************************)
(* friend_send_message_long, in the client's callback or not.              *)
(***************************************************************************)
LEMMA SendLongSafe ==
  ASSUME Inv, Safe, ListOK, NEW m \in Msgs, SendLong(m)
  PROVE  Safe'
<1>1. /\ op.at \in {"idle", "discard"}
      /\ op.at = "idle" => op.cell = -1
      /\ op.at = "discard" => op.cell \in DOMAIN table.cells
      /\ op'.at = "first" /\ op'.msg = m /\ op'.i = 0 /\ op'.cell = op.cell
      /\ m \notin called /\ called' = called \cup {m} /\ heap' = heap \cup {m}
      /\ UNCHANGED <<partReceipt, confirmed, lastSent, numTransit, numConfirmed,
                     ring, table, db, nextId, wire, acked, told>>
  BY SendLongFacts
<1>2. FreshOK /\ RecordsOK /\ SentOK /\ ConfirmedOK /\ ToldOK
  BY DEF Safe
<1>3. /\ \A i \in Parts(m) : partReceipt[m][i] = 0
      /\ confirmed[m] = {} /\ db[m].confirmed = {} /\ db[m].done = 0 /\ told[m] = 0
  BY <1>1, <1>2 DEF FreshOK
<1>4. FreshOK'
  BY <1>1, <1>2, FreshKept
<1>5. RecordsOK'
  BY <1>1, <1>2, RecordsKept
<1>6. SentOK'
  BY <1>1, <1>2, <1>3 DEF SentOK
<1>7. ConfirmedOK'
  <2>1. Cardinality({}) = 0
    BY FS_EmptySet
  <2>2. op.at \notin New \cup {"confirmMeta"} /\ op'.at \in New
    BY <1>1 DEF New
  <2>3. ASSUME NEW n \in heap'
        PROVE  /\ db'[n].confirmed = confirmed'[n]
               /\ Cardinality(confirmed'[n]) = db'[n].done
               /\ (db'[n].meta /\ db'[n].data) \/ n = m
    <3>1. CASE n = m
      BY <1>1, <1>3, <2>1, <3>1
    <3>2. CASE n \in heap
      <4>1. /\ db[n].confirmed = confirmed[n]
            /\ Cardinality(confirmed[n]) = db[n].done
            /\ db[n].meta /\ db[n].data
        BY <1>2, <2>2, <3>2 DEF ConfirmedOK
      <4> QED
        BY <1>1, <4>1
    <3> QED
      BY <1>1, <2>3, <3>1, <3>2
  <2> QED
    BY <1>1, <1>2, <1>3, <2>2, <2>3 DEF ConfirmedOK
<1>8. ToldOK'
  <2>1. op.cell \in DOMAIN table.cells => op.cell # -1
    BY RecordFacts
  <2>2. op.at = "discard" => table.cells[op.cell].msg = op.msg
    BY DEF ListOK, OnHeap, Confirming
  <2>3. \A n : Finishing(n)' <=> Finishing(n)
    BY <1>1, <2>1, <2>2 DEF Finishing, New
  <2> QED
    BY <1>1, <1>2, <1>3, <2>3 DEF ToldOK
<1> QED
  BY <1>4, <1>5, <1>6, <1>7, <1>8 DEF Safe

\* The message that is about to be forgotten stays so.
LEMMA ReturnedFinishes ==
  ASSUME Inv, op.at \in Sending, op' = Returned, table' = table
  PROVE  /\ \A n : Finishing(n)' <=> Finishing(n)
         /\ op'.at \in {"idle", "discard"}
         /\ op'.cell = op.cell
<1>1. /\ op'.cell = op.cell
      /\ \/ op.cell = -1 /\ op'.at = "idle"
         \/ /\ op.cell # -1 /\ op.cell \in DOMAIN table.cells
            /\ op'.at = "discard" /\ op'.msg = table.cells[op.cell].msg
  BY ReturnedFacts
<1>2. \A n : Finishing(n)' <=> Finishing(n)
  BY <1>1 DEF Finishing, New, Sending
<1> QED
  BY <1>1, <1>2

\* A message of which nothing was sent has no record: it can be freed.
LEMMA SendFailsSafe ==
  ASSUME Inv, Safe, ListOK, SendFails
  PROVE  Safe'
<1>1. /\ op.at = "first" /\ op.msg \in Msgs /\ numTransit[op.msg] = 0
      /\ heap' = heap \ {op.msg}
      /\ op' = Returned
      /\ UNCHANGED <<partReceipt, confirmed, lastSent, numTransit, numConfirmed,
                     ring, table, db, nextId, wire, acked, called, told>>
  BY SendFailsFacts
<1>2. FreshOK /\ RecordsOK /\ SentOK /\ ConfirmedOK /\ ToldOK
  BY DEF Safe
<1>3. /\ \A n : Finishing(n)' <=> Finishing(n)
      /\ op'.at \in {"idle", "discard"}
      /\ op'.cell = op.cell
  BY <1>1, ReturnedFinishes DEF Sending
<1>4. Records(op.msg) = {}
  <2>1. op.msg \in heap
    BY <1>1 DEF ListOK, OnHeap, WithMsg
  <2>2. Cardinality(Records(op.msg)) = 0
    BY <1>1, <2>1 DEF Inv, CountOK
  <2>3. IsFiniteSet(Records(op.msg))
    <3>1. IsFiniteSet(DOMAIN table.cells) /\ Records(op.msg) \subseteq DOMAIN table.cells
      BY DEF Inv, TableOK, WellFormed, Records
    <3> QED
      BY <3>1, FS_Subset
  <2> QED
    BY <2>2, <2>3, FS_EmptySet
<1>5. FreshOK'
  BY <1>1, <1>2 DEF FreshOK
<1>6. RecordsOK'
  <2>1. \A k \in DOMAIN table.cells : k # op.cell => table.cells[k].msg # op.msg
    BY <1>4 DEF Records
  <2> QED
    BY <1>1, <1>2, <1>3, <2>1 DEF RecordsOK
<1>7. SentOK'
  BY <1>1, <1>2, <1>3 DEF SentOK
<1>8. ConfirmedOK'
  BY <1>1, <1>2, <1>3 DEF ConfirmedOK, New
<1>9. ToldOK'
  <2>1. \A n \in Msgs : n \in heap' /\ told'[n] = 1 => Finishing(n)'
    BY <1>1, <1>2, <1>3 DEF ToldOK
  <2>2. op'.at # "notify" /\ op.at # "notify"
    BY <1>1, <1>3
  <2>3. ~Finishing(op.msg)
    <3>1. op.cell # -1 => table.cells[op.cell].msg # op.msg
      BY <1>1 DEF ListOK, OnHeap, Sending
    <3> QED
      BY <1>1, <3>1 DEF Finishing
  <2> QED
    BY <1>1, <1>2, <1>3, <2>1, <2>2, <2>3 DEF ToldOK
<1> QED
  BY <1>5, <1>6, <1>7, <1>8, <1>9 DEF Safe

LEMMA InsertMetaSafe ==
  ASSUME Inv, Safe, ListOK, InsertMeta
  PROVE  Safe'
<1>1. /\ op.at = "first" /\ op.msg \in Msgs /\ op.msg \in called
      /\ op'.msg = op.msg /\ op'.cell = op.cell
      /\ \/ op'.at = "fault" /\ db' = db
         \/ op'.at = "insertData" /\ db' = [db EXCEPT ![op.msg].meta = TRUE]
      /\ UNCHANGED <<heap, partReceipt, confirmed, lastSent, numTransit, numConfirmed,
                     table, nextId, wire, acked, called, told>>
  BY InsertMetaFacts
<1>2. FreshOK /\ RecordsOK /\ SentOK /\ ConfirmedOK /\ ToldOK
  BY DEF Safe
<1>3. /\ \A n \in Msgs :
           /\ db'[n].confirmed = db[n].confirmed /\ db'[n].done = db[n].done
           /\ db[n].data => db'[n].data
           /\ db[n].meta => db'[n].meta
      /\ op'.at = "insertData" => db'[op.msg].meta
  <2>1. CASE op'.at = "fault" /\ db' = db
    BY <2>1
  <2>2. CASE db' = [db EXCEPT ![op.msg].meta = TRUE]
    <3>1. \A n \in Msgs :
            /\ db'[n].confirmed = db[n].confirmed /\ db'[n].done = db[n].done
            /\ db[n].data <=> db'[n].data
            /\ n = op.msg \/ db[n].meta <=> db'[n].meta
      BY <1>1, <2>2, MetaFields
    <3> QED
      BY <1>1, <3>1
  <2> QED
    BY <1>1, <2>1, <2>2
<1>4. FreshOK'
  BY <1>1, <1>2, <1>3, FreshKept
<1>5. RecordsOK'
  BY <1>1, <1>2, RecordsKept
<1>6. SentOK'
  BY <1>1, <1>2 DEF SentOK
<1>7. heap \subseteq Msgs
  BY DEF Inv, StructsOK
<1>8. ConfirmedOK'
  BY <1>1, <1>2, <1>3, <1>7 DEF ConfirmedOK, New
<1>9. ToldOK'
  <2>1. \A n : Finishing(n)' <=> Finishing(n)
    BY <1>1 DEF Finishing, New
  <2> QED
    BY <1>1, <1>2, <1>3, <2>1 DEF ToldOK
<1> QED
  BY <1>4, <1>5, <1>6, <1>8, <1>9 DEF Safe

LEMMA InsertDataSafe ==
  ASSUME Inv, Safe, ListOK, InsertData
  PROVE  Safe'
<1>1. /\ op.at = "insertData" /\ op.msg \in Msgs
      /\ db' = [db EXCEPT ![op.msg].data = TRUE]
      /\ op' = Returned
      /\ UNCHANGED <<heap, partReceipt, confirmed, lastSent, numTransit, numConfirmed,
                     ring, table, nextId, wire, acked, called, told>>
  BY InsertDataFacts
<1>2. FreshOK /\ RecordsOK /\ SentOK /\ ConfirmedOK /\ ToldOK
  BY DEF Safe
<1>3. \A n \in Msgs :
        /\ db'[n].confirmed = db[n].confirmed /\ db'[n].done = db[n].done
        /\ db[n].meta => db'[n].meta
        /\ n = op.msg \/ db[n].data => db'[n].data
  <2> DEFINE d == TRUE
  <2>1. d \in BOOLEAN /\ d /\ db' = [db EXCEPT ![op.msg].data = d]
    BY <1>1
  <2> HIDE DEF d
  <2> QED
    BY <1>1, <2>1, DataFields
<1>4. /\ \A n : Finishing(n)' <=> Finishing(n)
      /\ op'.at \in {"idle", "discard"}
      /\ op'.cell = op.cell
  BY <1>1, ReturnedFinishes DEF Sending
<1>5. FreshOK'
  BY <1>1, <1>2, <1>3, FreshKept
<1>6. RecordsOK'
  BY <1>1, <1>2, <1>4, RecordsKept
<1>7. SentOK'
  BY <1>1, <1>2, <1>4 DEF SentOK
<1>8. heap \subseteq Msgs
  BY DEF Inv, StructsOK
<1>9. ConfirmedOK'
  BY <1>1, <1>2, <1>3, <1>4, <1>8 DEF ConfirmedOK, New
<1>10. ToldOK'
  BY <1>1, <1>2, <1>3, <1>4 DEF ToldOK
<1> QED
  BY <1>5, <1>6, <1>7, <1>9, <1>10 DEF Safe

(***************************************************************************)
(* Receipts.                                                               *)
(***************************************************************************)
\* What has arrived stays so.
LEMMA AckedGrows ==
  ASSUME Inv, NEW f, Delivery(f)
  PROVE  /\ \A m \in Msgs : acked[m] \subseteq acked'[m]
         /\ \A m \in Msgs : acked[m] = Parts(m) => acked'[m] = Parts(m)
         /\ f.part \in acked'[f.msg]
         /\ f.msg \in Msgs /\ f.part \in Parts(f.msg) /\ wire' \subseteq wire
BY DEF Delivery, Inv, WorldOK

LEMMA ForeignSafe ==
  ASSUME Inv, Safe, NEW f \in wire, ForeignReceipt(f)
  PROVE  Safe'
<1>1. /\ Delivery(f) /\ op' = op /\ op.at = "idle" /\ op.cell = -1
      /\ UNCHANGED <<heap, partReceipt, confirmed, lastSent, numTransit, numConfirmed,
                     ring, table, db, nextId, called, told>>
  BY ForeignFacts
<1>2. FreshOK /\ RecordsOK /\ SentOK /\ ConfirmedOK /\ ToldOK
  BY DEF Safe
<1>3. /\ \A m \in Msgs : acked[m] \subseteq acked'[m]
      /\ \A m \in Msgs : acked[m] = Parts(m) => acked'[m] = Parts(m)
      /\ wire' \subseteq wire
  BY <1>1, AckedGrows
<1>4. FreshOK'
  BY <1>1, <1>2 DEF FreshOK
<1>5. RecordsOK'
  BY <1>1, <1>2, <1>3, RecordsKept
<1>6. SentOK'
  BY <1>1, <1>2 DEF SentOK
<1>7. ConfirmedOK'
  BY <1>1, <1>2, <1>3 DEF ConfirmedOK, New
<1>8. ToldOK'
  BY <1>1, <1>2, <1>3 DEF ToldOK, Finishing
<1> QED
  BY <1>4, <1>5, <1>6, <1>7, <1>8 DEF Safe

LEMMA ReceiptSafe ==
  ASSUME Inv, Safe, ListOK, NEW f \in wire, Receipt(f)
  PROVE  Safe'
<1>1. /\ Delivery(f) /\ op.at = "idle" /\ op.cell = -1
      /\ UNCHANGED <<heap, lastSent, ring, table, nextId, called, told>>
  BY ReceiptFacts
<1>2. FreshOK /\ RecordsOK /\ SentOK /\ ConfirmedOK /\ ToldOK
  BY DEF Safe
<1>3. PICK k \in DOMAIN table.cells :
        /\ table.cells[k].receipt = f.receipt
        /\ \/ Confirms(k)
           \/ ~(table.cells[k].msg \in heap /\ db[table.cells[k].msg].data)
  BY ReceiptFacts
<1> DEFINE m == table.cells[k].msg
           p == table.cells[k].part
<1>4. /\ k # op.cell /\ k \in Nat
      /\ m \in Msgs /\ m \in called /\ p \in Parts(m) /\ p \in Nat
  <2>1. k \in Nat /\ m \in Msgs /\ m \in called /\ p \in Parts(m)
    BY RecordFacts
  <2> QED
    BY <1>1, <2>1, PartsNat
<1>5. f = table.cells[k]
  BY <1>2, <1>3 DEF RecordsOK
<1>6. m \in heap /\ partReceipt[m][p] = table.cells[k].receipt /\ p \notin confirmed[m]
  BY <1>2, <1>4 DEF RecordsOK
<1>7. db[m].data
  BY <1>1, <1>2, <1>6 DEF ConfirmedOK, New
<1>8. /\ partReceipt' = [partReceipt EXCEPT ![m][p] = 0]
      /\ confirmed' = [confirmed EXCEPT ![m] = @ \cup {p}]
      /\ numConfirmed' = [numConfirmed EXCEPT ![m] = @ + 1]
      /\ db' = [db EXCEPT ![m].confirmed = @ \cup {p}]
      /\ op'.at = "confirmMeta" /\ op'.msg = m /\ op'.cell = k
  BY <1>3, <1>6, <1>7 DEF Confirms
<1>9. /\ \A n \in Msgs : acked[n] \subseteq acked'[n]
      /\ \A n \in Msgs : acked[n] = Parts(n) => acked'[n] = Parts(n)
      /\ p \in acked'[m]
      /\ wire' \subseteq wire
  BY <1>1, <1>5, AckedGrows
<1>10. \A j \in DOMAIN table.cells :
         j # k => ~(table.cells[j].msg = m /\ table.cells[j].part = p)
  <2>1. ASSUME NEW j \in DOMAIN table.cells, table.cells[j].msg = m, table.cells[j].part = p
        PROVE  j = k
    <3>1. j # op.cell
      BY <1>1, RecordFacts
    <3> QED
      BY <1>2, <1>4, <2>1, <3>1, OneRecordEach
  <2> QED
    BY <2>1
<1>11. /\ DOMAIN partReceipt = Msgs /\ DOMAIN confirmed = Msgs /\ heap \subseteq Msgs
       /\ \A n \in Msgs : DOMAIN partReceipt[n] = Parts(n) /\ confirmed[n] \subseteq Parts(n)
       /\ numConfirmed \in [Msgs -> Nat]
  BY DEF Inv, StructsOK
<1>12. \A j \in DOMAIN table.cells :
         /\ table.cells[j].msg \in Msgs /\ table.cells[j].part \in Parts(table.cells[j].msg)
         /\ j \in Nat
  BY RecordFacts
<1> HIDE DEF m, p
<1>13. \A n \in Msgs :
         /\ \A j \in Parts(n) :
              partReceipt'[n][j] = IF n = m /\ j = p THEN 0 ELSE partReceipt[n][j]
         /\ n = m => confirmed'[n] = confirmed[n] \cup {p}
         /\ n # m => confirmed'[n] = confirmed[n]
         /\ numConfirmed'[n] = IF n = m THEN numConfirmed[m] + 1 ELSE numConfirmed[n]
         /\ n # m => partReceipt'[n] = partReceipt[n]
  BY <1>4, <1>8, <1>11
<1>14. \A n \in Msgs :
         /\ db'[n].done = db[n].done
         /\ db[n].data <=> db'[n].data
         /\ db[n].meta <=> db'[n].meta
         /\ n = m => db'[n].confirmed = db[n].confirmed \cup {p}
         /\ n # m => db'[n].confirmed = db[n].confirmed
  <2>1. m \in Msgs /\ p \in Nat /\ db' = [db EXCEPT ![m].confirmed = @ \cup {p}]
    BY <1>4, <1>8
  <2> QED
    BY <2>1, ConfirmedFields, Zenon
<1>15. FreshOK'
  BY <1>1, <1>2, <1>4, <1>13, <1>14, FreshKept
<1>16. RecordsOK'
  <2>1. ASSUME NEW j \in DOMAIN table.cells, j # k
        PROVE  /\ table.cells[j].msg \in heap
               /\ partReceipt'[table.cells[j].msg][table.cells[j].part] = table.cells[j].receipt
               /\ table.cells[j].part \notin confirmed'[table.cells[j].msg]
    <3>1. /\ table.cells[j].msg \in heap
          /\ partReceipt[table.cells[j].msg][table.cells[j].part] = table.cells[j].receipt
          /\ table.cells[j].part \notin confirmed[table.cells[j].msg]
      BY <1>1, <1>2, <1>12 DEF RecordsOK
    <3> QED
      BY <1>10, <1>12, <1>13, <2>1, <3>1
  <2>2. \A g \in wire' : g \in wire
    BY <1>9
  <2> QED
    BY <1>1, <1>2, <1>8, <2>1, <2>2 DEF RecordsOK
<1>17. SentOK'
  BY <1>1, <1>2, <1>8, <1>11, <1>13 DEF SentOK
<1>18. ConfirmedOK'
  <2>1. Cardinality(confirmed[m] \cup {p}) = Cardinality(confirmed[m]) + 1
    <3>1. IsFiniteSet(confirmed[m])
      BY <1>4, <1>11, PartsCounted
    <3> QED
      BY <1>6, <3>1, FS_AddElement
  <2>2. ASSUME NEW n \in Msgs
        PROVE  numConfirmed'[n] = Cardinality(confirmed'[n])
    <3>1. numConfirmed[n] = Cardinality(confirmed[n])
      BY <1>2 DEF ConfirmedOK
    <3> QED
      BY <1>13, <2>1, <3>1
  <2>3. \A n \in Msgs : confirmed'[n] \subseteq acked'[n] /\ db'[n].confirmed \subseteq acked'[n]
    <3>1. ASSUME NEW n \in Msgs
          PROVE  confirmed'[n] \subseteq acked'[n] /\ db'[n].confirmed \subseteq acked'[n]
      <4>1. confirmed[n] \subseteq acked'[n] /\ db[n].confirmed \subseteq acked'[n]
        <5>1. confirmed[n] \subseteq acked[n] /\ db[n].confirmed \subseteq acked[n]
          BY <1>2 DEF ConfirmedOK
        <5>2. acked[n] \subseteq acked'[n]
          BY <1>9
        <5> QED
          BY <5>1, <5>2
      <4>2. CASE n = m
        BY <1>9, <1>13, <1>14, <4>1, <4>2
      <4>3. CASE n # m
        BY <1>13, <1>14, <4>1, <4>3
      <4> QED
        BY <4>2, <4>3
    <3> QED
      BY <3>1
  <2>4. ASSUME NEW n \in heap
        PROVE  /\ db'[n].confirmed = confirmed'[n]
               /\ Cardinality(confirmed'[n]) = IF n = m THEN db'[n].done + 1 ELSE db'[n].done
               /\ db'[n].meta /\ db'[n].data
    <3>1. /\ db[n].confirmed = confirmed[n] /\ Cardinality(confirmed[n]) = db[n].done
          /\ db[n].meta /\ db[n].data
      BY <1>1, <1>2 DEF ConfirmedOK, New
    <3>2. n \in Msgs
      BY <1>11
    <3>3. CASE n = m
      <4>1. confirmed'[m] = confirmed[m] \cup {p} /\ db'[m].confirmed = db[m].confirmed \cup {p}
        BY <1>4, <1>13, <1>14
      <4>2. db'[m].done = db[m].done /\ db'[m].meta /\ db'[m].data
        BY <1>4, <1>14, <3>1, <3>3
      <4> QED
        BY <2>1, <3>1, <3>3, <4>1, <4>2
    <3>4. CASE n # m
      BY <1>13, <1>14, <3>1, <3>2, <3>4
    <3> QED
      BY <3>3, <3>4
  <2>5. op'.at \notin New
    BY <1>8 DEF New
  <2>6. \A n \in heap' :
          /\ db'[n].confirmed = confirmed'[n]
          /\ Cardinality(confirmed'[n])
               = IF op'.at = "confirmMeta" /\ op'.msg = n THEN db'[n].done + 1 ELSE db'[n].done
          /\ db'[n].meta /\ db'[n].data
    <3>1. heap' = heap /\ op'.at = "confirmMeta" /\ op'.msg = m
      BY <1>1, <1>8
    <3> SUFFICES ASSUME NEW n \in heap
                 PROVE  /\ db'[n].confirmed = confirmed'[n]
                        /\ Cardinality(confirmed'[n])
                             = IF m = n THEN db'[n].done + 1 ELSE db'[n].done
                        /\ db'[n].meta /\ db'[n].data
      BY <3>1
    <3> QED
      BY <2>4
  <2> QED
    BY <1>8, <2>2, <2>3, <2>5, <2>6 DEF ConfirmedOK
<1>19. ToldOK'
  <2>1. \A n : ~Finishing(n)' /\ ~Finishing(n)
    BY <1>1, <1>8 DEF Finishing, New
  <2> QED
    BY <1>1, <1>2, <1>8, <1>9, <1>14, <2>1 DEF ToldOK
<1> QED
  BY <1>15, <1>16, <1>17, <1>18, <1>19 DEF Safe

LEMMA ConfirmMetaSafe ==
  ASSUME Inv, Safe, ListOK, ConfirmMeta
  PROVE  Safe'
<1> DEFINE m == op.msg
<1>1. /\ op.at = "confirmMeta" /\ m \in Msgs
      /\ op'.cell = op.cell
      /\ db' = [db EXCEPT ![m].done = @ + 1]
      /\ \/ op'.at = "notify" /\ Complete(m) /\ op'.msg = m
         \/ /\ op'.at = "pass1" /\ op'.msg = m
            /\ op'.i = lastSent[m] + 1 /\ FriendOf[m] \in online'
         \/ op'.at = "retire"
      /\ UNCHANGED <<heap, partReceipt, confirmed, lastSent, numTransit, numConfirmed,
                     ring, table, nextId, wire, acked, called, told>>
  BY ConfirmMetaFacts
<1>2. FreshOK /\ RecordsOK /\ SentOK /\ ConfirmedOK /\ ToldOK
  BY DEF Safe
<1>3. m \in heap /\ heap \subseteq called /\ heap \subseteq Msgs
  BY <1>1 DEF ListOK, OnHeap, WithMsg, Inv, StructsOK
<1>4. \A n \in Msgs :
        /\ db'[n].confirmed = db[n].confirmed
        /\ db[n].data <=> db'[n].data
        /\ db[n].meta <=> db'[n].meta
        /\ db'[n].done = IF n = m THEN db[n].done + 1 ELSE db[n].done
        /\ db[n].done \in Nat
  BY <1>1, DoneFields
<1>5. lastSent[m] \in Nat /\ Parts(m) \subseteq Nat /\ NumParts[m] \in Nat
  BY <1>1, PartsNat DEF Inv, StructsOK
<1>6. op'.at \notin New \cup {"confirmMeta", "discard"}
  BY <1>1 DEF New
<1>7. FreshOK'
  BY <1>1, <1>2, <1>3, <1>4, FreshKept
<1>8. RecordsOK'
  BY <1>1, <1>2, RecordsKept
<1>9. SentOK'
  <2>1. op'.at = "pass1" =>
          /\ FriendOf[op'.msg] \in online'
          /\ op'.i > lastSent'[op'.msg]
          /\ \A j \in Parts(op'.msg) :
               lastSent'[op'.msg] < j /\ j < op'.i => j \in confirmed'[op'.msg]
    <3> HIDE DEF m
    <3> QED
      BY <1>1, <1>5
  <2>2. op'.at \notin {"first", "pass2", "down", "load"}
    BY <1>1
  <2>3. \A n \in heap' : \A j \in Parts(n) : j > lastSent'[n] => partReceipt'[n][j] = 0
    BY <1>1, <1>2 DEF SentOK
  <2> QED
    BY <2>1, <2>2, <2>3 DEF SentOK
<1>10. ConfirmedOK'
  <2>1. ASSUME NEW n \in heap
        PROVE  /\ db'[n].confirmed = confirmed'[n]
               /\ Cardinality(confirmed'[n]) = db'[n].done
               /\ db'[n].meta /\ db'[n].data
    <3>1. /\ db[n].confirmed = confirmed[n]
          /\ Cardinality(confirmed[n]) = IF n = m THEN db[n].done + 1 ELSE db[n].done
          /\ db[n].meta /\ db[n].data
      BY <1>1, <1>2 DEF ConfirmedOK, New
    <3> QED
      BY <1>1, <1>3, <1>4, <3>1
  <2>2. /\ \A n \in Msgs : numConfirmed'[n] = Cardinality(confirmed'[n])
        /\ \A n \in Msgs : confirmed'[n] \subseteq acked'[n] /\ db'[n].confirmed \subseteq acked'[n]
    BY <1>1, <1>2, <1>4 DEF ConfirmedOK
  <2>3. op'.at # "insertData" /\ op'.at \notin New /\ op'.at # "confirmMeta"
    BY <1>6 DEF New
  <2> QED
    BY <1>1, <2>1, <2>2, <2>3 DEF ConfirmedOK
<1>11. ToldOK'
  <2>1. \A n : ~Finishing(n)' /\ ~Finishing(n)
    BY <1>1, <1>6 DEF Finishing, New
  <2>2. op'.at = "notify" => op'.msg = m /\ confirmed[m] = Parts(m)
    <3>1. Complete(m) => confirmed[m] = Parts(m)
      <4>1. numConfirmed[m] = Cardinality(confirmed[m]) /\ confirmed[m] \in SUBSET Parts(m)
        BY <1>1, <1>2 DEF ConfirmedOK, Inv, StructsOK
      <4> HIDE DEF m
      <4> QED
        BY <1>1, <4>1, PartsCounted DEF Complete
    <3> QED
      BY <1>1, <3>1
  <2>3. ASSUME NEW n \in Msgs, told'[n] = 1
        PROVE  acked'[n] = Parts(n) /\ db'[n].done >= NumParts[n] /\ n \notin heap'
    <3>1. acked[n] = Parts(n) /\ db[n].done >= NumParts[n] /\ n \notin heap
      BY <1>1, <1>2, <2>1, <2>3 DEF ToldOK
    <3> QED
      BY <1>1, <1>4, <3>1
  <2>4. told' \in [Msgs -> 0 .. 1]
    BY <1>1, <1>2 DEF ToldOK
  <2> QED
    BY <1>1, <1>3, <2>1, <2>2, <2>3, <2>4 DEF ToldOK
<1> QED
  BY <1>7, <1>8, <1>9, <1>10, <1>11 DEF Safe

LEMMA NotifySafe ==
  ASSUME Inv, Safe, ListOK, Notify
  PROVE  Safe'
<1> DEFINE m == op.msg
<1>1. /\ op.at = "notify" /\ m \in Msgs
      /\ op'.at = "discard" /\ op'.msg = m /\ op'.cell = op.cell
      /\ told' = [told EXCEPT ![m] = @ + 1]
      /\ UNCHANGED <<heap, partReceipt, confirmed, lastSent, numTransit, numConfirmed,
                     ring, table, db, nextId, wire, acked, called>>
  BY NotifyFacts
<1>2. FreshOK /\ RecordsOK /\ SentOK /\ ConfirmedOK /\ ToldOK
  BY DEF Safe
<1>3. m \in heap /\ m \in called
  BY <1>1 DEF ListOK, OnHeap, WithMsg
<1>4. confirmed[m] = Parts(m)
  BY <1>1, <1>2 DEF ToldOK
<1>5. acked[m] = Parts(m)
  <2>1. confirmed[m] \subseteq acked[m]
    BY <1>1, <1>2 DEF ConfirmedOK
  <2>2. acked[m] \subseteq Parts(m)
    BY <1>1 DEF Inv, WorldOK
  <2> QED
    BY <1>4, <2>1, <2>2
<1>6. db[m].done >= NumParts[m]
  <2>1. Cardinality(confirmed[m]) = db[m].done
    BY <1>1, <1>2, <1>3 DEF ConfirmedOK
  <2>2. Cardinality(Parts(m)) = NumParts[m] /\ NumParts[m] \in Nat
    BY <1>1, PartsCounted
  <2> QED
    BY <1>4, <2>1, <2>2
<1>7. told[m] = 0
  <2>1. ~Finishing(m)
    BY <1>1 DEF Finishing, New
  <2> QED
    BY <1>1, <1>2, <1>3, <2>1 DEF ToldOK
<1> HIDE DEF m
<1>8. /\ told' \in [Msgs -> 0 .. 1]
      /\ \A n \in Msgs : told'[n] = IF n = m THEN 1 ELSE told[n]
  BY <1>1, <1>2, <1>7 DEF ToldOK
<1>9. FreshOK'
  BY <1>1, <1>2, <1>3, <1>8, FreshKept
<1>10. RecordsOK'
  BY <1>1, <1>2, RecordsKept
<1>11. SentOK'
  BY <1>1, <1>2 DEF SentOK
<1>12. ConfirmedOK'
  BY <1>1, <1>2 DEF ConfirmedOK, New
<1>13. ToldOK'
  <2>1. \A n : (Finishing(n)' <=> n = m) /\ ~Finishing(n)
    BY <1>1 DEF Finishing, New, m
  <2> QED
    BY <1>1, <1>2, <1>3, <1>4, <1>5, <1>6, <1>8, <2>1 DEF ToldOK
<1> QED
  BY <1>9, <1>10, <1>11, <1>12, <1>13 DEF Safe

\* A message that has arrived in full has no record that still waits.
LEMMA DiscardSafe ==
  ASSUME Inv, Safe, ListOK, Discard
  PROVE  Safe'
<1> DEFINE m == op.msg
<1>1. /\ op.at = "discard" /\ m \in Msgs
      /\ op'.at = "retire" /\ op'.cell = op.cell
      /\ db' = [db EXCEPT ![m].data = FALSE]
      /\ heap' = heap \ {m}
      /\ partReceipt' = [partReceipt EXCEPT ![m] = [i \in Parts(m) |-> 0]]
      /\ confirmed' = [confirmed EXCEPT ![m] = {}]
      /\ lastSent' = [lastSent EXCEPT ![m] = 0]
      /\ numConfirmed' = [numConfirmed EXCEPT ![m] = 0]
      /\ UNCHANGED <<table, nextId, wire, acked, called, told>>
  BY DiscardFacts DEF Freed
<1>2. FreshOK /\ RecordsOK /\ SentOK /\ ConfirmedOK /\ ToldOK
  BY DEF Safe
<1>3. m \in heap /\ heap \subseteq called /\ heap \subseteq Msgs
  BY <1>1 DEF ListOK, OnHeap, WithMsg, Inv, StructsOK
<1>4. confirmed[m] = Parts(m)
  BY <1>1, <1>2 DEF ToldOK, Finishing
<1>5. /\ DOMAIN partReceipt = Msgs /\ DOMAIN confirmed = Msgs
      /\ numConfirmed \in [Msgs -> Nat] /\ lastSent \in [Msgs -> Nat]
  BY DEF Inv, StructsOK
<1>6. \A n \in Msgs :
        /\ db'[n].confirmed = db[n].confirmed /\ db'[n].done = db[n].done
        /\ db[n].meta => db'[n].meta
        /\ n # m /\ db[n].data => db'[n].data
  <2> DEFINE d == FALSE
  <2>1. d \in BOOLEAN /\ db' = [db EXCEPT ![m].data = d]
    BY <1>1
  <2> HIDE DEF d, m
  <2> QED
    BY <1>1, <2>1, DataFields
<1>7. ~Finishing(m)'
  BY <1>1 DEF Finishing, New
<1>8. \A n : ~Finishing(n)' /\ (Finishing(n) => n = m)
  BY <1>1 DEF Finishing, New
<1> HIDE DEF m
<1>9. \A n \in Msgs \ {m} :
        /\ partReceipt'[n] = partReceipt[n] /\ confirmed'[n] = confirmed[n]
        /\ numConfirmed'[n] = numConfirmed[n] /\ lastSent'[n] = lastSent[n]
  BY <1>1, <1>5
<1>10. confirmed'[m] = {} /\ numConfirmed'[m] = 0
  BY <1>1, <1>5
<1>11. FreshOK'
  BY <1>1, <1>2, <1>3, <1>6, <1>9, FreshKept
<1>12. RecordsOK'
  <2>1. ASSUME NEW k \in DOMAIN table.cells, k # op.cell
        PROVE  /\ table.cells[k].msg \in heap \ {m}
               /\ partReceipt'[table.cells[k].msg][table.cells[k].part] = table.cells[k].receipt
               /\ table.cells[k].part \notin confirmed'[table.cells[k].msg]
    <3>1. /\ table.cells[k].msg \in heap
          /\ partReceipt[table.cells[k].msg][table.cells[k].part] = table.cells[k].receipt
          /\ table.cells[k].part \notin confirmed[table.cells[k].msg]
      BY <1>2, <2>1 DEF RecordsOK
    <3>2. table.cells[k].part \in Parts(table.cells[k].msg)
      BY RecordFacts
    <3>3. table.cells[k].msg # m
      BY <1>4, <3>1, <3>2
    <3> QED
      BY <1>3, <1>9, <3>1, <3>3
  <2> QED
    BY <1>1, <1>2, <2>1 DEF RecordsOK
<1>13. SentOK'
  BY <1>1, <1>2, <1>3, <1>9 DEF SentOK
<1>14. ConfirmedOK'
  <2>1. Cardinality({}) = 0
    BY FS_EmptySet
  <2>2. ASSUME NEW n \in Msgs
        PROVE  numConfirmed'[n] = Cardinality(confirmed'[n])
    <3>1. numConfirmed[n] = Cardinality(confirmed[n])
      BY <1>2 DEF ConfirmedOK
    <3> QED
      BY <1>9, <1>10, <2>1, <3>1
  <2>3. \A n \in Msgs : confirmed'[n] \subseteq acked'[n] /\ db'[n].confirmed \subseteq acked'[n]
    BY <1>1, <1>2, <1>6, <1>9, <1>10 DEF ConfirmedOK
  <2>4. ASSUME NEW n \in heap'
        PROVE  /\ db'[n].confirmed = confirmed'[n]
               /\ Cardinality(confirmed'[n]) = db'[n].done
               /\ db'[n].meta /\ db'[n].data
    <3>1. n \in heap /\ n # m /\ n \in Msgs
      BY <1>1, <1>3
    <3>2. /\ db[n].confirmed = confirmed[n] /\ Cardinality(confirmed[n]) = db[n].done
          /\ db[n].meta /\ db[n].data
      BY <1>1, <1>2, <3>1 DEF ConfirmedOK, New
    <3> QED
      BY <1>6, <1>9, <3>1, <3>2
  <2> QED
    BY <1>1, <2>2, <2>3, <2>4 DEF ConfirmedOK, New
<1>15. ToldOK'
  BY <1>1, <1>2, <1>3, <1>6, <1>8 DEF ToldOK
<1> QED
  BY <1>11, <1>12, <1>13, <1>14, <1>15 DEF Safe

LEMMA RetireSafe ==
  ASSUME Inv, Safe, ListOK, Retire
  PROVE  Safe'
<1>1. /\ op.at = "retire" /\ op.cell \in DOMAIN table.cells
      /\ op'.at = "idle" /\ op'.cell = -1
      /\ DOMAIN table.cells = DOMAIN table'.cells \cup {op.cell}
      /\ op.cell \notin DOMAIN table'.cells
      /\ \A k \in DOMAIN table'.cells : table'.cells[k] = table.cells[k]
      /\ UNCHANGED <<heap, partReceipt, confirmed, lastSent, numTransit, numConfirmed,
                     ring, db, nextId, wire, acked, called, told>>
  BY RetireFacts
<1>2. FreshOK /\ RecordsOK /\ SentOK /\ ConfirmedOK /\ ToldOK
  BY DEF Safe
<1>3. FreshOK'
  BY <1>1, <1>2 DEF FreshOK
<1>4. RecordsOK'
  <2>1. \A k \in DOMAIN table'.cells :
          k \in DOMAIN table.cells /\ k # op.cell /\ table'.cells[k] = table.cells[k]
    BY <1>1
  <2> QED
    BY <1>1, <1>2, <2>1 DEF RecordsOK
<1>5. SentOK'
  BY <1>1, <1>2 DEF SentOK
<1>6. ConfirmedOK'
  BY <1>1, <1>2 DEF ConfirmedOK, New
<1>7. ToldOK'
  BY <1>1, <1>2 DEF ToldOK, Finishing, New
<1> QED
  BY <1>3, <1>4, <1>5, <1>6, <1>7 DEF Safe

(***************************************************************************)
(* Timeouts, and crashes.                                                  *)
(***************************************************************************)
\* A record's message is in memory: nothing freed is sent again.
LEMMA ExpiresIt ==
  ASSUME Inv, Safe, ResendExpired
  PROVE  \E k \in DOMAIN table.cells : Expires(k)
<1>1. op.cell = -1
  BY ResendFacts
<1>2. PICK k \in DOMAIN table.cells : Expires(k) \/ table.cells[k].msg \notin heap
  BY ResendFacts
<1>3. k # op.cell
  BY <1>1, RecordFacts
<1>4. table.cells[k].msg \in heap
  BY <1>3 DEF Safe, RecordsOK
<1> QED
  BY <1>2, <1>4

\* The part that is sent again has no other record than the one given up.
LEMMA ExpiredRecords ==
  ASSUME Inv, Safe, op.cell = -1, confirmed' = confirmed, heap' = heap,
         NEW k \in DOMAIN table.cells, Expires(k)
  PROVE  RecordsOK'
<1> DEFINE m == table.cells[k].msg
           p == table.cells[k].part
<1>1. m \in heap /\ m \in Msgs /\ p \in Parts(m) /\ op'.cell = -1
  BY DEF Expires
<1>2. RecordsOK
  BY DEF Safe
<1>3. \A j \in DOMAIN table.cells :
        /\ j \in Nat /\ j # op.cell
        /\ table.cells[j].msg \in Msgs /\ table.cells[j].part \in Parts(table.cells[j].msg)
        /\ table.cells[j].receipt \in Nat \ {0} /\ table.cells[j].receipt <= nextId
  BY RecordFacts
<1>4. \A j \in DOMAIN table.cells :
        j # k => ~(table.cells[j].msg = m /\ table.cells[j].part = p)
  <2>1. ASSUME NEW j \in DOMAIN table.cells, table.cells[j].msg = m, table.cells[j].part = p
        PROVE  j = k
    BY <1>2, <1>3, <2>1, OneRecordEach
  <2> QED
    BY <2>1
<1>5. p \notin confirmed[m]
  BY <1>2, <1>3 DEF RecordsOK
<1>6. /\ DOMAIN partReceipt = Msgs /\ \A n \in Msgs : DOMAIN partReceipt[n] = Parts(n)
      /\ nextId \in Nat
  BY DEF Inv, StructsOK, TableOK
<1>7. \A f \in wire : f.receipt <= nextId /\ f.receipt \in Nat
  BY <1>2 DEF RecordsOK, Inv, WorldOK, Cell
<1>8. \A j \in DOMAIN table.cells :
        /\ table.cells[j].msg \in heap
        /\ partReceipt[table.cells[j].msg][table.cells[j].part] = table.cells[j].receipt
        /\ table.cells[j].part \notin confirmed[table.cells[j].msg]
  BY <1>2, <1>3 DEF RecordsOK
<1>9. \A f \in wire : \A j \in DOMAIN table.cells :
        f.receipt = table.cells[j].receipt => f = table.cells[j]
  BY <1>2 DEF RecordsOK
<1>10. \/ \E h \in Nat :
            /\ nextId' = nextId + 1
            /\ h \notin DOMAIN table.cells \ {k}
            /\ DOMAIN table'.cells = (DOMAIN table.cells \ {k}) \cup {h}
            /\ table'.cells[h] = Fragment(m, p)
            /\ \A j \in DOMAIN table.cells \ {k} : table'.cells[j] = table.cells[j]
            /\ wire' = wire \cup {Fragment(m, p)}
            /\ partReceipt' = [partReceipt EXCEPT ![m][p] = nextId + 1]
       \/ /\ nextId' = nextId
          /\ DOMAIN table'.cells = DOMAIN table.cells \ {k}
          /\ \A j \in DOMAIN table'.cells : table'.cells[j] = table.cells[j]
          /\ UNCHANGED <<wire, partReceipt>>
  BY DEF Expires
<1> HIDE DEF m, p
<1>11. CASE /\ nextId' = nextId
            /\ DOMAIN table'.cells = DOMAIN table.cells \ {k}
            /\ \A j \in DOMAIN table'.cells : table'.cells[j] = table.cells[j]
            /\ UNCHANGED <<wire, partReceipt>>
  BY <1>7, <1>8, <1>9, <1>11 DEF RecordsOK
<1>12. ASSUME NEW h \in Nat,
              nextId' = nextId + 1,
              DOMAIN table'.cells = (DOMAIN table.cells \ {k}) \cup {h},
              h \notin DOMAIN table.cells \ {k},
              table'.cells[h] = Fragment(m, p),
              \A j \in DOMAIN table.cells \ {k} : table'.cells[j] = table.cells[j],
              wire' = wire \cup {Fragment(m, p)},
              partReceipt' = [partReceipt EXCEPT ![m][p] = nextId + 1]
       PROVE  RecordsOK'
  <2>1. /\ Fragment(m, p).receipt = nextId + 1 /\ Fragment(m, p).msg = m
        /\ Fragment(m, p).part = p
    BY DEF Fragment
  <2>2. \A n \in Msgs : \A j \in Parts(n) :
          partReceipt'[n][j] = IF n = m /\ j = p THEN nextId + 1 ELSE partReceipt[n][j]
    BY <1>1, <1>6, <1>12
  <2>3. ASSUME NEW j \in DOMAIN table'.cells
        PROVE  /\ table'.cells[j].msg \in heap'
               /\ partReceipt'[table'.cells[j].msg][table'.cells[j].part] = table'.cells[j].receipt
               /\ table'.cells[j].part \notin confirmed'[table'.cells[j].msg]
    <3>1. CASE j = h
      BY <1>1, <1>5, <1>12, <2>1, <2>2, <3>1
    <3>2. CASE j \in DOMAIN table.cells \ {k}
      <4>1. table'.cells[j] = table.cells[j]
        BY <1>12, <3>2
      <4>2. ~(table.cells[j].msg = m /\ table.cells[j].part = p)
        BY <1>4, <3>2
      <4> QED
        BY <1>3, <1>8, <2>2, <3>2, <4>1, <4>2
    <3> QED
      BY <1>12, <3>1, <3>2
  <2>4. \A f \in wire' : f.receipt <= nextId'
    BY <1>6, <1>7, <1>12, <2>1
  <2>5. ASSUME NEW f \in wire', NEW j \in DOMAIN table'.cells,
               f.receipt = table'.cells[j].receipt
        PROVE  f = table'.cells[j]
    <3>1. CASE f \in wire /\ j \in DOMAIN table.cells \ {k}
      BY <1>9, <1>12, <2>5, <3>1
    <3>2. CASE f \in wire /\ j = h
      BY <1>6, <1>7, <1>12, <2>1, <2>5, <3>2
    <3>3. CASE f = Fragment(m, p) /\ j = h
      BY <1>12, <3>3
    <3>4. CASE f = Fragment(m, p) /\ j \in DOMAIN table.cells \ {k}
      BY <1>3, <1>6, <1>12, <2>1, <2>5, <3>4
    <3> QED
      BY <1>12, <3>1, <3>2, <3>3, <3>4
  <2> QED
    BY <2>3, <2>4, <2>5 DEF RecordsOK
<1> QED
  BY <1>10, <1>11, <1>12

LEMMA ResendSafe ==
  ASSUME Inv, Safe, ListOK, ResendExpired
  PROVE  Safe'
<1>1. /\ op.at = "expire" /\ op.cell = -1
      /\ UNCHANGED <<heap, confirmed, lastSent, numConfirmed, ring, db, acked, called, told>>
  BY ResendFacts
<1>2. FreshOK /\ RecordsOK /\ SentOK /\ ConfirmedOK /\ ToldOK
  BY DEF Safe
<1>3. PICK k \in DOMAIN table.cells : Expires(k)
  BY ExpiresIt
<1> DEFINE m == table.cells[k].msg
           p == table.cells[k].part
<1>4. /\ m \in heap /\ m \in Msgs /\ p \in Parts(m)
      /\ op'.at = "expire" /\ op'.cell = -1
      /\ \/ partReceipt' = [partReceipt EXCEPT ![m][p] = nextId + 1]
         \/ partReceipt' = partReceipt
  BY <1>3 DEF Expires
<1>5. RecordsOK'
  BY <1>1, <1>3, ExpiredRecords
<1>6. partReceipt[m][p] # 0 /\ m \in called
  <2>1. /\ m \in called /\ table.cells[k].receipt \in Nat \ {0} /\ k \in Nat
    BY RecordFacts
  <2>2. partReceipt[m][p] = table.cells[k].receipt
    BY <1>1, <1>2, <2>1 DEF RecordsOK
  <2> QED
    BY <2>1, <2>2
<1>7. /\ DOMAIN partReceipt = Msgs /\ \A n \in Msgs : DOMAIN partReceipt[n] = Parts(n)
      /\ heap \subseteq Msgs
  BY DEF Inv, StructsOK
<1> HIDE DEF m, p
<1>8. \A n \in Msgs :
        /\ n # m => partReceipt'[n] = partReceipt[n]
        /\ \A j \in Parts(n) : ~(n = m /\ j = p) => partReceipt'[n][j] = partReceipt[n][j]
  <2>1. CASE partReceipt' = partReceipt
    BY <2>1
  <2>2. CASE partReceipt' = [partReceipt EXCEPT ![m][p] = nextId + 1]
    BY <1>4, <1>7, <2>2
  <2> QED
    BY <1>4, <2>1, <2>2
<1>9. FreshOK'
  BY <1>1, <1>2, <1>6, <1>8, FreshKept
<1>10. SentOK'
  <2>1. ASSUME NEW n \in heap, NEW j \in Parts(n), j > lastSent[n]
        PROVE  partReceipt'[n][j] = 0
    <3>1. partReceipt[n][j] = 0 /\ n \in Msgs
      BY <1>2, <1>7, <2>1 DEF SentOK
    <3>2. ~(n = m /\ j = p)
      BY <1>6, <3>1
    <3> QED
      BY <1>8, <3>1, <3>2
  <2> QED
    BY <1>1, <1>4, <2>1 DEF SentOK
<1>11. ConfirmedOK'
  BY <1>1, <1>2, <1>4 DEF ConfirmedOK, New
<1>12. ToldOK'
  BY <1>1, <1>2, <1>4 DEF ToldOK, Finishing, New
<1> QED
  BY <1>5, <1>9, <1>10, <1>11, <1>12 DEF Safe

\* A message that the client was told of has too many confirmed parts in its
\* row to be loaded again.
LEMMA LoadRowSafe ==
  ASSUME Inv, Safe, ListOK, NEW m \in Msgs, LoadRow(m)
  PROVE  Safe'
<1>1. /\ op.at = "load" /\ op.cell = -1 /\ op' = op
      /\ m \notin heap /\ m \in called
      /\ db[m].meta /\ db[m].data
      /\ Cardinality(db[m].confirmed) = db[m].done /\ db[m].done < NumParts[m]
      /\ heap' = heap \cup {m}
      /\ confirmed' = [confirmed EXCEPT ![m] = db[m].confirmed]
      /\ numConfirmed' = [numConfirmed EXCEPT ![m] = Cardinality(db[m].confirmed)]
      /\ UNCHANGED <<partReceipt, lastSent, table, db, nextId, wire, acked, called, told>>
  BY LoadRowFacts
<1>2. FreshOK /\ RecordsOK /\ SentOK /\ ConfirmedOK /\ ToldOK
  BY DEF Safe
<1>3. /\ DOMAIN confirmed = Msgs /\ numConfirmed \in [Msgs -> Nat] /\ heap \subseteq Msgs
      /\ DOMAIN table.cells = {}
  BY <1>1 DEF Inv, StructsOK, CountOK
<1>4. \A n \in Msgs \ {m} : confirmed'[n] = confirmed[n] /\ numConfirmed'[n] = numConfirmed[n]
  BY <1>1, <1>3
<1>5. confirmed'[m] = db[m].confirmed /\ numConfirmed'[m] = Cardinality(db[m].confirmed)
  BY <1>1, <1>3
<1>6. FreshOK'
  BY <1>1, <1>2, <1>4, FreshKept
<1>7. RecordsOK'
  BY <1>1, <1>2, <1>3 DEF RecordsOK
<1>8. SentOK'
  BY <1>1, <1>2, <1>3 DEF SentOK
<1>9. ConfirmedOK'
  <2>1. ASSUME NEW n \in Msgs
        PROVE  numConfirmed'[n] = Cardinality(confirmed'[n]) /\ confirmed'[n] \subseteq acked'[n]
    <3>1. /\ numConfirmed[n] = Cardinality(confirmed[n])
          /\ confirmed[n] \subseteq acked[n] /\ db[n].confirmed \subseteq acked[n]
      BY <1>2 DEF ConfirmedOK
    <3> QED
      BY <1>1, <1>4, <1>5, <3>1
  <2>2. ASSUME NEW n \in heap'
        PROVE  /\ db[n].confirmed = confirmed'[n]
               /\ Cardinality(confirmed'[n]) = db[n].done
               /\ db[n].meta /\ db[n].data
    <3>1. CASE n = m
      BY <1>1, <1>5, <3>1
    <3>2. CASE n \in heap /\ n # m
      <4>1. /\ db[n].confirmed = confirmed[n] /\ Cardinality(confirmed[n]) = db[n].done
            /\ db[n].meta /\ db[n].data
        BY <1>1, <1>2, <3>2 DEF ConfirmedOK, New
      <4> QED
        BY <1>3, <1>4, <3>2, <4>1
    <3> QED
      BY <1>1, <3>1, <3>2
  <2>3. \A n \in Msgs : db[n].confirmed \subseteq acked[n]
    BY <1>2 DEF ConfirmedOK
  <2> QED
    BY <1>1, <2>1, <2>2, <2>3 DEF ConfirmedOK, New
<1>10. ToldOK'
  <2>1. told[m] # 1
    <3>1. db[m].done \in Nat /\ NumParts[m] \in Nat
      BY RowWrites DEF Inv, DbOK
    <3> QED
      BY <1>1, <1>2, <3>1 DEF ToldOK
  <2> QED
    BY <1>1, <1>2, <2>1 DEF ToldOK, Finishing, New
<1> QED
  BY <1>6, <1>7, <1>8, <1>9, <1>10 DEF Safe

LEMMA DropRowSafe ==
  ASSUME Inv, Safe, NEW m \in Msgs, DropRow(m)
  PROVE  Safe'
<1>1. /\ op.at = "load" /\ op.cell = -1 /\ op' = op
      /\ m \notin heap
      /\ db' = [db EXCEPT ![m].data = FALSE]
      /\ UNCHANGED <<heap, partReceipt, confirmed, lastSent, numTransit, numConfirmed,
                     ring, table, nextId, wire, acked, called, told>>
  BY DropRowFacts
<1>2. FreshOK /\ RecordsOK /\ SentOK /\ ConfirmedOK /\ ToldOK
  BY DEF Safe
<1>3. \A n \in Msgs :
        /\ db'[n].confirmed = db[n].confirmed /\ db'[n].done = db[n].done
        /\ db[n].meta => db'[n].meta
        /\ n # m /\ db[n].data => db'[n].data
  <2> DEFINE d == FALSE
  <2>1. d \in BOOLEAN /\ db' = [db EXCEPT ![m].data = d]
    BY <1>1
  <2> HIDE DEF d
  <2> QED
    BY <2>1, DataFields
<1>4. heap \subseteq Msgs
  BY DEF Inv, StructsOK
<1>5. FreshOK'
  BY <1>1, <1>2, <1>3, FreshKept
<1>6. RecordsOK'
  BY <1>1, <1>2, RecordsKept
<1>7. SentOK'
  BY <1>1, <1>2 DEF SentOK
<1>8. ConfirmedOK'
  <2>1. ASSUME NEW n \in heap
        PROVE  /\ db'[n].confirmed = confirmed[n]
               /\ Cardinality(confirmed[n]) = db'[n].done
               /\ db'[n].meta /\ db'[n].data
    <3>1. /\ db[n].confirmed = confirmed[n] /\ Cardinality(confirmed[n]) = db[n].done
          /\ db[n].meta /\ db[n].data /\ n \in Msgs /\ n # m
      BY <1>1, <1>2, <1>4 DEF ConfirmedOK, New
    <3> QED
      BY <1>3, <3>1
  <2> QED
    BY <1>1, <1>2, <1>3, <2>1 DEF ConfirmedOK, New
<1>9. ToldOK'
  BY <1>1, <1>2, <1>3 DEF ToldOK, Finishing, New
<1> QED
  BY <1>5, <1>6, <1>7, <1>8, <1>9 DEF Safe

LEMMA CrashSafe ==
  ASSUME Inv, Safe, Crash
  PROVE  Safe'
<1>1. /\ op'.at = "down" /\ op'.cell = -1
      /\ heap' = {} /\ DOMAIN table'.cells = {} /\ wire' = {}
      /\ partReceipt' = [m \in Msgs |-> [i \in Parts(m) |-> 0]]
      /\ confirmed' = [m \in Msgs |-> {}]
      /\ numConfirmed' = [m \in Msgs |-> 0]
      /\ UNCHANGED <<db, nextId, acked, called, told>>
  BY CrashFacts
<1>2. FreshOK /\ ConfirmedOK /\ ToldOK
  BY DEF Safe
<1>3. FreshOK'
  BY <1>1, <1>2 DEF FreshOK
<1>4. RecordsOK'
  BY <1>1 DEF RecordsOK
<1>5. SentOK'
  BY <1>1 DEF SentOK
<1>6. ConfirmedOK'
  <2>1. Cardinality({}) = 0
    BY FS_EmptySet
  <2> QED
    BY <1>1, <1>2, <2>1 DEF ConfirmedOK, New
<1>7. ToldOK'
  BY <1>1, <1>2 DEF ToldOK, Finishing, New
<1> QED
  BY <1>3, <1>4, <1>5, <1>6, <1>7 DEF Safe

LEMMA StutterSafe ==
  ASSUME Safe, UNCHANGED vars
  PROVE  Safe'
<1> USE DEF vars, structs, statics, base, client
<1>1. FreshOK' /\ RecordsOK'
  BY DEF Safe, FreshOK, RecordsOK
<1>2. SentOK'
  BY DEF Safe, SentOK, Room
<1>3. ConfirmedOK' /\ ToldOK'
  BY DEF Safe, ConfirmedOK, ToldOK, Finishing
<1> QED
  BY <1>1, <1>2, <1>3 DEF Safe

LEMMA InitSafe == Init => Safe
<1> SUFFICES ASSUME Init
             PROVE  Safe
  OBVIOUS
<1>1. op.at = "idle" /\ op.cell = -1
  BY AtFields DEF Init, Idle, Labels
<1>2. DOMAIN table.cells = {} /\ Cardinality({}) = 0
  BY FS_EmptySet DEF Init, EmptyTable
<1>3. FreshOK
  BY DEF Init, FreshOK, Row0
<1>4. RecordsOK /\ SentOK
  BY <1>1, <1>2 DEF Init, RecordsOK, SentOK
<1>5. ConfirmedOK
  BY <1>1, <1>2 DEF Init, ConfirmedOK, New, Row0
<1>6. ToldOK
  BY <1>1 DEF Init, ToldOK, Finishing, New
<1> QED
  BY <1>3, <1>4, <1>5, <1>6 DEF Safe

LEMMA NextSafe ==
  ASSUME SpuriousRefusal = FALSE, Inv, Safe, ListOK, [Next]_vars
  PROVE  Safe'
BY NextDivided, TurnSafe, MoveSafe, SendLongSafe, SendFailsSafe, InsertMetaSafe,
   InsertDataSafe, ForeignSafe, ReceiptSafe, ConfirmMetaSafe, NotifySafe, DiscardSafe,
   RetireSafe, ResendSafe, LoadRowSafe, DropRowSafe, CrashSafe, StutterSafe
   DEF ReadReceipt

-----------------------------------------------------------------------------
(* The theorems.  SpuriousRefusal is the one assumption: a base library    *)
(* that refuses a fragment for a friend who is online makes the first pass *)
(* of msgSendNextParts send parts that are in flight (run double_send).    *)

LEMMA SafeThroughout ==
  ASSUME SpuriousRefusal = FALSE
  PROVE  Spec => [](Inv /\ ListOK /\ Safe)
<1>1. Init => Inv /\ ListOK /\ Safe
  BY InitInv, InitList, InitSafe
<1>2. Inv /\ ListOK /\ Safe /\ [Next]_vars => (Inv /\ ListOK /\ Safe)'
  BY NextInv, NextList, NextSafe
<1> QED
  BY <1>1, <1>2, PTL DEF Spec

(***************************************************************************)
(* Every record whose receipt is still awaited points to a message in      *)
(* memory (c:404) and to a part that waits for just that receipt: no part  *)
(* is in flight twice, nor after it was confirmed.                         *)
(***************************************************************************)
THEOREM RecordsStayLive ==
  ASSUME SpuriousRefusal = FALSE
  PROVE  Spec => []RecordsLive
<1>1. RecordsOK => RecordsLive
  BY DEF RecordsOK, RecordsLive, Records
<1> QED
  BY <1>1, SafeThroughout, PTL DEF Safe

(***************************************************************************)
(* numConfirmed, which decides completion (c:641), is the number of parts  *)
(* that are confirmed: none is counted twice.                              *)
(***************************************************************************)
THEOREM ConfirmedCounted ==
  ASSUME SpuriousRefusal = FALSE
  PROVE  Spec => []ConfirmedExact
<1>1. Inv /\ ConfirmedOK => ConfirmedExact
  BY DEF Inv, StructsOK, ConfirmedOK, ConfirmedExact
<1> QED
  BY <1>1, SafeThroughout, PTL DEF Safe

(***************************************************************************)
(* The client hears at most once that its message has arrived (c:413), and *)
(* only when the friend has received every part, whatever crashes, times   *)
(* out or is read out of order in between.                                 *)
(***************************************************************************)
THEOREM CompletionIsTrue ==
  ASSUME SpuriousRefusal = FALSE
  PROVE  Spec => []Completion
<1>1. ToldOK => Completion
  BY DEF ToldOK, Completion
<1> QED
  BY <1>1, SafeThroughout, PTL DEF Safe

(***************************************************************************)
(* Between handlers the rows of a message in memory say what the memory    *)
(* says (c:374, c:636).                                                    *)
(***************************************************************************)
THEOREM DatabaseAgrees ==
  ASSUME SpuriousRefusal = FALSE
  PROVE  Spec => []DbAgrees
<1>1. Inv /\ ConfirmedOK => DbAgrees
  <2> SUFFICES ASSUME Inv, ConfirmedOK, op = Idle, NEW m \in heap
               PROVE  /\ db[m].meta /\ db[m].data
                      /\ db[m].confirmed = confirmed[m]
                      /\ db[m].done = Cardinality(confirmed[m])
    BY DEF DbAgrees
  <2>1. op.at = "idle"
    BY OpFacts
  <2> QED
    BY <2>1 DEF ConfirmedOK, New
<1> QED
  BY <1>1, SafeThroughout, PTL DEF Safe

\* The receipt range has a number for every message in memory.
RangeSuffices ==
  IsFiniteSet(heap) /\ Cardinality(heap) <= ReceiptRangeHi - ReceiptRangeLo + 1

\* The listed messages leave a number for the one that is about to be listed.
LEMMA NumberLeft ==
  ASSUME Inv, ListOK, RangeSuffices, op.at = "first"
  PROVE  FreeReceipts # {}
<1> DEFINE R == ReceiptRangeLo .. ReceiptRangeHi
           U == {clientReceipt[m] : m \in Listed}
<1>1. op.msg \in heap /\ op.msg \notin Listed /\ Listed \subseteq heap
  BY DEF ListOK, OnHeap, WithMsg
<1>2. /\ IsFiniteSet(heap \ {op.msg}) /\ Cardinality(heap \ {op.msg}) = Cardinality(heap) - 1
      /\ Cardinality(heap) \in Nat
  BY <1>1, FS_RemoveElement, FS_CardinalityType DEF RangeSuffices
<1>3. IsFiniteSet(Listed) /\ Cardinality(Listed) <= Cardinality(heap) - 1
      /\ Cardinality(Listed) \in Nat
  <2>1. Listed \subseteq heap \ {op.msg}
    BY <1>1
  <2> QED
    BY <1>2, <2>1, FS_Subset, FS_CardinalityType
<1>4. IsFiniteSet(U) /\ Cardinality(U) <= Cardinality(Listed)
  <2> DEFINE f == [m \in Listed |-> clientReceipt[m]]
  <2>1. f \in Surjection(Listed, U)
    BY DEF Surjection
  <2> HIDE DEF f, U
  <2> QED
    BY <1>3, <2>1, FS_Surjection
<1>5. /\ IsFiniteSet(R) /\ Cardinality(R) = ReceiptRangeHi - ReceiptRangeLo + 1
      /\ Cardinality(U) \in Nat
  <2>1. ReceiptRangeLo \in Int /\ ReceiptRangeHi \in Int /\ ReceiptRangeLo <= ReceiptRangeHi
    OBVIOUS
  <2> QED
    BY <1>4, <2>1, FS_Interval, FS_CardinalityType
<1>6. ASSUME R \subseteq U
      PROVE  FALSE
  <2>1. Cardinality(R) <= Cardinality(U)
    BY <1>4, <1>6, FS_Subset
  <2> HIDE DEF R, U
  <2> QED
    BY <1>2, <1>3, <1>4, <1>5, <2>1 DEF RangeSuffices
<1> QED
  BY <1>6 DEF FreeReceipts

LEMMA NoFaultStep ==
  ASSUME Inv, ListOK, Safe, NoFault, RangeSuffices, [Next]_vars
  PROVE  NoFault'
<1>1. op.at # "fault"
  BY DEF NoFault
<1>2. CASE LoopTurn
  BY <1>1, <1>2, LoopFacts DEF NoFault
<1>3. CASE Move
  BY <1>3, MoveFacts DEF NoFault, Moved
<1>4. CASE ConfirmMeta
  BY <1>4, ConfirmMetaFacts DEF NoFault
<1>5. CASE Notify \/ Retire \/ Discard
  BY <1>5, NotifyFacts, RetireFacts, DiscardFacts DEF NoFault
<1>6. ASSUME NEW m \in Msgs, SendLong(m)
      PROVE  NoFault'
  BY <1>6, SendLongFacts DEF NoFault
<1>7. CASE SendFails \/ InsertData
  <2>1. op.at \in Sending /\ op' = Returned /\ table' = table
    BY <1>7, SendFailsFacts, InsertDataFacts DEF Sending
  <2>2. op'.at \in {"idle", "discard"}
    BY <2>1, ReturnedFinishes
  <2> QED
    BY <2>2 DEF NoFault
<1>8. CASE InsertMeta
  <2>1. op.at = "first" /\ (FreeReceipts # {} => op'.at = "insertData")
    BY <1>8, InsertMetaFacts
  <2> QED
    BY <2>1, NumberLeft DEF NoFault
<1>9. ASSUME NEW f \in wire, ForeignReceipt(f) \/ Receipt(f)
      PROVE  NoFault'
  <2>1. CASE ForeignReceipt(f)
    BY <1>1, <2>1, ForeignFacts DEF NoFault
  <2>2. CASE Receipt(f)
    <3>1. PICK k \in DOMAIN table.cells :
            \/ Confirms(k)
            \/ ~(table.cells[k].msg \in heap /\ db[table.cells[k].msg].data)
      BY <2>2, ReceiptFacts
    <3>2. op.at = "idle" /\ k # op.cell /\ table.cells[k].msg \in Msgs
      BY <2>2, ReceiptFacts, RecordFacts
    <3>3. table.cells[k].msg \in heap
      BY <3>2 DEF Safe, RecordsOK
    <3>4. db[table.cells[k].msg].data
      BY <3>2, <3>3 DEF Safe, ConfirmedOK, New
    <3> QED
      BY <3>1, <3>3, <3>4 DEF Confirms, NoFault
  <2> QED
    BY <1>9, <2>1, <2>2
<1>10. CASE ResendExpired
  BY <1>10, ExpiresIt DEF Expires, NoFault
<1>11. CASE Crash
  BY <1>11, CrashFacts DEF NoFault
<1>12. ASSUME NEW m \in Msgs, LoadRow(m) \/ DropRow(m)
       PROVE  NoFault'
  BY <1>1, <1>12, LoadRowFacts, DropRowFacts DEF NoFault
<1>13. CASE UNCHANGED vars
  BY <1>1, <1>13 DEF vars, NoFault
<1> QED
  BY <1>2, <1>3, <1>4, <1>5, <1>6, <1>7, <1>8, <1>9, <1>10, <1>11, <1>12, <1>13,
     NextDivided DEF ReadReceipt

(***************************************************************************)
(* As long as there are no more messages in memory than numbers in the     *)
(* client's range, no handler uses freed memory, misses a row that it      *)
(* expects (abort), or looks for a receipt number for ever (c:203).        *)
(***************************************************************************)
THEOREM NothingFaults ==
  ASSUME SpuriousRefusal = FALSE
  PROVE  Spec /\ []RangeSuffices => []NoFault
<1>1. Init => NoFault
  BY AtFields DEF Init, Idle, Labels, NoFault
<1>2. Inv /\ ListOK /\ Safe /\ NoFault /\ RangeSuffices /\ [Next]_vars => NoFault'
  BY NoFaultStep
<1>3. Spec => [](Inv /\ ListOK /\ Safe)
  BY SafeThroughout
<1> QED
  BY <1>1, <1>2, <1>3, PTL DEF Spec
=============================================================================
