------------------------------ MODULE Outbound ------------------------------
(***************************************************************************)
(* The sending half of tox-defragmenter (tox-defragmenter.c, section SEND) *)
(* together with the outbound rows it keeps in the database (database.c).  *)
(*                                                                         *)
(* One client thread runs every handler.  A handler is a sequence of steps *)
(* tracked by `op': a step ends at each call of the base Tox library and   *)
(* at each database write, because the base may answer either way and the  *)
(* process may be killed there.  No other handler starts until it is done, *)
(* but the client may send from inside its receipt callback.               *)
(*                                                                         *)
(* Around the sender: the base library numbers the fragments it accepts    *)
(* and returns a read receipt for each some time later, in any order; the  *)
(* friends come and go; the process crashes and is started again.          *)
(*                                                                         *)
(* References: c:n is line n of tox-defragmenter.c, db.c:n of database.c.  *)
(***************************************************************************)
EXTENDS ReceiptTable, Ring

CONSTANTS
  Msgs,             \* the long messages the client may send, each once
  NoMsg,            \* no message
  Friends,
  FriendOf,         \* FriendOf[m]: whom m is for
  NumParts,         \* NumParts[m]: fragments splitMessage cuts m into
  ReloadParts,      \* ReloadParts[m]: fragments when m is cut again on loading
  FragmentsAtATime, \* params.fragmentsAtATime
  ReceiptRangeLo,   \* params.receiptRangeLo
  ReceiptRangeHi,   \* params.receiptRangeHi
  SpuriousRefusal,  \* may the base refuse a fragment for an online friend?
  InOrder,          \* do a friend's read receipts come back in the order of sending?
  Unsteady,         \* the friends who come and go
  PeriodicRuns,     \* does anybody run doPeriodic?
  MaxExpiries,      \* bound: receipts that time out
  MaxRestarts       \* bound: crashes

ASSUME OutboundAssumption ==
  /\ NoMsg \notin Msgs
  /\ FriendOf \in [Msgs -> Friends]
  /\ NumParts \in [Msgs -> Nat \ {0}]
  /\ ReloadParts \in [Msgs -> Nat \ {0}]
  /\ FragmentsAtATime \in Nat \ {0}
  /\ ReceiptRangeLo \in Nat \ {0}
  /\ ReceiptRangeHi \in Nat
  /\ ReceiptRangeLo <= ReceiptRangeHi
  /\ SpuriousRefusal \in BOOLEAN
  /\ InOrder \in BOOLEAN
  /\ Unsteady \subseteq Friends
  /\ PeriodicRuns \in BOOLEAN
  /\ MaxExpiries \in Nat
  /\ MaxRestarts \in Nat

VARIABLES
  \* the msg_outbound structures
  heap,           \* which messages have one allocated
  partReceipt,    \* fragment.receipt
  confirmed,      \* the parts whose fragment.confirmed is set (their data is freed)
  lastSent, numTransit, numConfirmed,
  clientReceipt,  \* msg_outbound.receipt
  \* static data
  ring,           \* msgsOutbound and the messages reached from it through next
  table,          \* receipts
  lastReceipt,
  \* the database and the running handler
  db, op,
  \* the base library, the friends, the client
  online, nextId, wire, acked, called, given, told, foreign, expiries, restarts

structs == <<heap, partReceipt, confirmed, lastSent, numTransit, numConfirmed,
             clientReceipt>>
statics == <<ring, table, lastReceipt>>
base    == <<nextId, wire>>
client  == <<called, given, told, foreign>>
bounds  == <<expiries, restarts>>
vars    == <<structs, statics, db, op, online, base, acked, client, bounds>>

Parts(m) == 0 .. NumParts[m] - 1

-----------------------------------------------------------------------------
(* Handlers in progress.                                                   *)

Labels == {"idle", "first", "insertData", "confirmMeta", "pass1", "pass2",
           "notify", "discard", "retire", "expire", "more",
           "down", "load", "fault"}

\* at: where the handler is; msg: its message; i: its loop index;
\* cell: the recIdx of tryProcessReceipt, also while the client, called by it,
\* sends another message (-1 in other handlers);
\* cut: resendExpiredReceipts' idea of what is too old.
At(label) == [at |-> label, msg |-> NoMsg, i |-> 0, cell |-> -1, cut |-> 0]
Idle  == At("idle")
Fault == At("fault")      \* freed memory used, abort(), or an endless loop

-----------------------------------------------------------------------------
Listed == ToSet(ring)

\* generateReceiptNo: the next number of the range, in a circle, that no
\* listed message has.
FreeReceipts ==
  (ReceiptRangeLo .. ReceiptRangeHi) \ {clientReceipt[m] : m \in Listed}

Ahead(r) == IF r > lastReceipt THEN r - lastReceipt
            ELSE r - lastReceipt + (ReceiptRangeHi - ReceiptRangeLo + 1)

GenerateReceiptNo ==
  CHOOSE r \in FreeReceipts : \A q \in FreeReceipts : Ahead(r) <= Ahead(q)

-----------------------------------------------------------------------------
Row0 == [meta |-> FALSE, data |-> FALSE, done |-> 0, confirmed |-> {}]

Init ==
  /\ heap = {}
  /\ partReceipt = [m \in Msgs |-> [i \in Parts(m) |-> 0]]
  /\ confirmed = [m \in Msgs |-> {}]
  /\ lastSent = [m \in Msgs |-> 0]
  /\ numTransit = [m \in Msgs |-> 0]
  /\ numConfirmed = [m \in Msgs |-> 0]
  /\ clientReceipt = [m \in Msgs |-> 0]
  /\ ring = <<>>
  /\ table = EmptyTable
  /\ lastReceipt = ReceiptRangeLo
  /\ db = [m \in Msgs |-> Row0]
  /\ op = Idle
  /\ online = Friends
  /\ nextId = 0
  /\ wire = {}
  /\ acked = [m \in Msgs |-> {}]
  /\ called = {}
  /\ given = [m \in Msgs |-> 0]
  /\ told = [m \in Msgs |-> 0]
  /\ foreign = {}
  /\ expiries = 0
  /\ restarts = 0

-----------------------------------------------------------------------------
(* msgSendPart: hand part i of m to the base, and note the receipt it owes *)
(* in table t.  The base refuses when the friend is offline, and when the  *)
(* part's data has been freed (a NULL message).                            *)

Accepts(m, i) == FriendOf[m] \in online /\ i \notin confirmed[m]

Fragment(m, i) == [receipt |-> nextId + 1, msg |-> m, part |-> i]

PartSent(m, i, t) ==
  /\ Accepts(m, i)
  /\ partReceipt' = [partReceipt EXCEPT ![m][i] = nextId + 1]
  /\ table' = AddReceipt(t, Fragment(m, i))
  /\ nextId' = nextId + 1
  /\ wire' = wire \cup {Fragment(m, i)}

PartRefused(m, i, t) ==
  /\ SpuriousRefusal \/ ~Accepts(m, i)
  /\ table' = t
  /\ UNCHANGED <<partReceipt, base>>

\* One turn of a loop that counts what it sends.
SendPart(m, i) ==
  \/ PartSent(m, i, table) /\ numTransit' = [numTransit EXCEPT ![m] = @ + 1]
  \/ PartRefused(m, i, table) /\ UNCHANGED numTransit

\* The same in the loops that remember how far they have come.
SendNextPart(m, i) ==
  /\ SendPart(m, i)
  /\ lastSent' = [lastSent EXCEPT ![m] = IF nextId' # nextId THEN i ELSE @]

\* Slip: one part too many.
RoomForOneMore(m) == numTransit[m] <= FragmentsAtATime

\* Slip: what has arrived still takes room.
RoomForUnconfirmed(m) == numTransit[m] + numConfirmed[m] < FragmentsAtATime

Room(m) == numTransit[m] < FragmentsAtATime

-----------------------------------------------------------------------------
(* friend_send_message_long                                                *)

\* The client sends when no handler runs, or from inside the callback that
\* msgIsComplete makes: the completed message is then still in the list, and
\* its last receipt in the table.
SendLong(m) ==
  /\ op = Idle \/ op.at = "discard"
  /\ m \notin called
  /\ called' = called \cup {m}
  /\ heap' = heap \cup {m}
  /\ op' = [at |-> "first", msg |-> m, i |-> 0, cell |-> op.cell, cut |-> 0]
  /\ UNCHANGED <<partReceipt, confirmed, lastSent, numTransit, numConfirmed,
                 clientReceipt, statics, db, online, base, acked, given, told,
                 foreign, bounds>>

FirstPart ==
  /\ op.at = "first"
  /\ op.i < NumParts[op.msg] /\ Room(op.msg)
  /\ SendNextPart(op.msg, op.i)
  /\ op' = [op EXCEPT !.i = @ + 1]
  /\ UNCHANGED <<heap, confirmed, numConfirmed, clientReceipt, ring, lastReceipt,
                 db, online, acked, client, bounds>>

FirstDone == op.at = "first" /\ ~(op.i < NumParts[op.msg] /\ Room(op.msg))

\* friend_send_message_long returns to the client, in its callback or not.
Returned ==
  IF op.cell < 0 THEN Idle
  ELSE [at |-> "discard", msg |-> table.cells[op.cell].msg, i |-> 0, cell |-> op.cell, cut |-> 0]

\* Nothing could be sent: the client gets 0.
SendFails ==
  /\ FirstDone
  /\ numTransit[op.msg] = 0
  /\ heap' = heap \ {op.msg}
  /\ op' = Returned
  /\ UNCHANGED <<partReceipt, confirmed, lastSent, numTransit, numConfirmed,
                 clientReceipt, statics, db, online, base, acked, client, bounds>>

\* generateReceiptNo never returns when every number of the range is taken.
InsertMeta ==
  /\ FirstDone
  /\ numTransit[op.msg] > 0
  /\ IF FreeReceipts = {}
     THEN /\ op' = [op EXCEPT !.at = "fault"]
          /\ UNCHANGED <<clientReceipt, lastReceipt, ring, db>>
     ELSE /\ clientReceipt' = [clientReceipt EXCEPT ![op.msg] = GenerateReceiptNo]
          /\ lastReceipt' = GenerateReceiptNo
          /\ ring' = Link(ring, op.msg)
          /\ db' = [db EXCEPT ![op.msg].meta = TRUE]
          /\ op' = [op EXCEPT !.at = "insertData"]
  /\ UNCHANGED <<heap, partReceipt, confirmed, lastSent, numTransit, numConfirmed,
                 table, online, base, acked, client, bounds>>

InsertData ==
  /\ op.at = "insertData"
  /\ db' = [db EXCEPT ![op.msg].data = TRUE]
  /\ given' = [given EXCEPT ![op.msg] = clientReceipt[op.msg]]
  /\ op' = Returned
  /\ UNCHANGED <<structs, statics, online, base, acked, called, told, foreign, bounds>>

-----------------------------------------------------------------------------
(* msgSendNextParts, called with the friend online                         *)

\* Slip: the last part sent is sent again.
NextPartsFromLast(m, cell) ==
  [at |-> "pass1", msg |-> m, i |-> lastSent[m], cell |-> cell, cut |-> 0]

NextParts(m, cell) ==
  [at |-> "pass1", msg |-> m, i |-> lastSent[m] + 1, cell |-> cell, cut |-> 0]

Pass1Part ==
  /\ op.at = "pass1"
  /\ op.i < NumParts[op.msg] /\ Room(op.msg)
  /\ SendNextPart(op.msg, op.i)
  /\ op' = [op EXCEPT !.i = @ + 1]
  /\ UNCHANGED <<heap, confirmed, numConfirmed, clientReceipt, ring, lastReceipt,
                 db, online, acked, client, bounds>>

Pass1Done ==
  /\ op.at = "pass1"
  /\ ~(op.i < NumParts[op.msg] /\ Room(op.msg))
  /\ op' = [op EXCEPT !.at = "pass2", !.i = 0]
  /\ UNCHANGED <<structs, statics, db, online, base, acked, client, bounds>>

Pass2Goes(m, i) ==
  i < NumParts[m] /\ Room(m) /\ numTransit[m] + numConfirmed[m] < NumParts[m]

\* Slip: parts in flight are sent again.
UnsentOrInFlight(m, i) == i \notin confirmed[m]

\* A part that waits for no receipt and is not confirmed has to be sent.
Unsent(m, i) == partReceipt[m][i] = 0 /\ i \notin confirmed[m]

Pass2Part ==
  /\ op.at = "pass2"
  /\ Pass2Goes(op.msg, op.i)
  /\ IF Unsent(op.msg, op.i)
     THEN SendPart(op.msg, op.i)
     ELSE UNCHANGED <<partReceipt, numTransit, table, base>>
  /\ op' = [op EXCEPT !.i = @ + 1]
  /\ UNCHANGED <<heap, confirmed, lastSent, numConfirmed, clientReceipt, ring,
                 lastReceipt, db, online, acked, client, bounds>>

\* sendMore goes on with the next message of the ring, up to the head.
MoreAfter(m) ==
  IF \E j \in 1 .. Len(ring) - 1 : ring[j] = m
  THEN LET j == CHOOSE k \in 1 .. Len(ring) - 1 : ring[k] = m
       IN  [At("more") EXCEPT !.msg = ring[j + 1]]
  ELSE Idle

Pass2Done ==
  /\ op.at = "pass2"
  /\ ~Pass2Goes(op.msg, op.i)
  /\ op' = IF op.cell >= 0 THEN [op EXCEPT !.at = "retire", !.i = 0]
           ELSE MoreAfter(op.msg)
  /\ UNCHANGED <<structs, statics, db, online, base, acked, client, bounds>>

-----------------------------------------------------------------------------
(* friend_read_receipt_cb and tryProcessReceipt                            *)

Arrives(f) ==
  /\ op = Idle
  /\ f \in wire
  /\ InOrder => \A g \in wire : FriendOf[g.msg] = FriendOf[f.msg] => f.receipt <= g.receipt
  /\ wire' = wire \ {f}
  /\ acked' = [acked EXCEPT ![f.msg] = @ \cup {f.part}]

\* Not in the table: passed on to the client, or taken for a duplicate of
\* a receipt of ours when its number is in our range.
ForeignReceipt(f) ==
  /\ Arrives(f)
  /\ ReceiptAt(table, FindReceipt(table, f.receipt)) # f.receipt
  /\ foreign' = foreign \cup ({f.receipt} \ (ReceiptRangeLo .. ReceiptRangeHi))
  /\ UNCHANGED <<structs, statics, db, op, online, nextId, called, given, told, bounds>>

\* In the table: confirm the part, in memory and in the database's blob.  The
\* record may point to freed memory, or the row may be gone: abort().
Receipt(f) ==
  LET k == FindReceipt(table, f.receipt)
      c == table.cells[k]
  IN  /\ Arrives(f)
      /\ ReceiptAt(table, k) = f.receipt
      /\ IF c.msg \in heap /\ db[c.msg].data
         THEN /\ partReceipt' = [partReceipt EXCEPT ![c.msg][c.part] = 0]
              /\ confirmed' = [confirmed EXCEPT ![c.msg] = @ \cup {c.part}]
              /\ numConfirmed' = [numConfirmed EXCEPT ![c.msg] = @ + 1]
              /\ numTransit' = [numTransit EXCEPT ![c.msg] = @ - 1]
              /\ db' = [db EXCEPT ![c.msg].confirmed = @ \cup {c.part}]
              /\ op' = [At("confirmMeta") EXCEPT !.msg = c.msg, !.cell = k]
         ELSE /\ op' = Fault
              /\ UNCHANGED <<partReceipt, confirmed, numConfirmed, numTransit, db>>
      /\ UNCHANGED <<heap, lastSent, clientReceipt, statics, online, nextId,
                     client, bounds>>

\* Slip: parts in flight count as arrived.
CompleteWhenSent(m) == numConfirmed[m] + numTransit[m] >= NumParts[m]

Complete(m) == numConfirmed[m] >= NumParts[m]

\* The database's count of confirmed parts, then what is left to do.
ConfirmMeta ==
  /\ op.at = "confirmMeta"
  /\ db' = [db EXCEPT ![op.msg].done = @ + 1]
  /\ op' = IF Complete(op.msg) THEN [op EXCEPT !.at = "notify"]
           ELSE IF FriendOf[op.msg] \in online THEN NextParts(op.msg, op.cell)
           ELSE [op EXCEPT !.at = "retire"]
  /\ UNCHANGED <<structs, statics, online, base, acked, client, bounds>>

\* msgIsComplete tells the client ...
Notify ==
  /\ op.at = "notify"
  /\ told' = [told EXCEPT ![op.msg] = @ + 1]
  /\ foreign' = foreign \cup ({clientReceipt[op.msg]} \ {given[op.msg]})
  /\ op' = [op EXCEPT !.at = "discard"]
  /\ UNCHANGED <<structs, statics, db, online, base, acked, called, given, bounds>>

\* ... and, when the client has returned, forgets the message.
Freed(m) ==
  /\ heap' = heap \ {m}
  /\ partReceipt' = [partReceipt EXCEPT ![m] = [i \in Parts(m) |-> 0]]
  /\ confirmed' = [confirmed EXCEPT ![m] = {}]
  /\ lastSent' = [lastSent EXCEPT ![m] = 0]
  /\ numTransit' = [numTransit EXCEPT ![m] = 0]
  /\ numConfirmed' = [numConfirmed EXCEPT ![m] = 0]
  /\ clientReceipt' = [clientReceipt EXCEPT ![m] = 0]

Discard ==
  /\ op.at = "discard"
  /\ db' = [db EXCEPT ![op.msg].data = FALSE]
  /\ ring' = Unlink(ring, op.msg)
  /\ Freed(op.msg)
  /\ op' = [op EXCEPT !.at = "retire", !.msg = NoMsg]
  /\ UNCHANGED <<table, lastReceipt, online, base, acked, client, bounds>>

Retire ==
  /\ op.at = "retire"
  /\ table' = RetireReceipt(table, op.cell)
  /\ op' = Idle
  /\ UNCHANGED <<structs, ring, lastReceipt, db, online, base, acked, client, bounds>>

-----------------------------------------------------------------------------
(* doPeriodic: resendExpiredReceipts, then sendMore                        *)

Due(from, cut) ==
  {k \in DOMAIN table.cells : from <= k /\ k < table.hi /\ table.cells[k].receipt <= cut}

MoreFromHead == IF ring = <<>> THEN Idle ELSE [At("more") EXCEPT !.msg = Head(ring)]

\* Timestamps grow with the numbers of the base, so what has expired is
\* everything up to some number.
Periodic ==
  /\ PeriodicRuns
  /\ op = Idle
  /\ \E cut \in {0} \cup {table.cells[k].receipt : k \in DOMAIN table.cells} :
       /\ expiries + Cardinality(Due(table.lo, cut)) <= MaxExpiries
       /\ expiries' = expiries + Cardinality(Due(table.lo, cut))
       /\ op' = IF table.num = 0 THEN MoreFromHead
                ELSE [at |-> "expire", msg |-> NoMsg, i |-> table.lo, cell |-> -1, cut |-> cut]
  /\ UNCHANGED <<structs, statics, db, online, base, acked, client, restarts>>

\* The part's receipt is forgotten and the part is sent again.
ResendExpired ==
  /\ op.at = "expire"
  /\ Due(op.i, op.cut) # {}
  /\ LET k == Min(Due(op.i, op.cut))
         c == table.cells[k]
     IN  IF c.msg \notin heap
         THEN op' = Fault /\ UNCHANGED <<partReceipt, table, numTransit, base>>
         ELSE /\ \/ PartSent(c.msg, c.part, ExpireReceipt(table, k)) /\ UNCHANGED numTransit
                 \/ /\ PartRefused(c.msg, c.part, ExpireReceipt(table, k))
                    /\ numTransit' = [numTransit EXCEPT ![c.msg] = @ - 1]
              /\ op' = [op EXCEPT !.i = k + 1]
  /\ UNCHANGED <<heap, confirmed, lastSent, numConfirmed, clientReceipt, ring,
                 lastReceipt, db, online, acked, client, bounds>>

ResendDone ==
  /\ op.at = "expire"
  /\ Due(op.i, op.cut) = {}
  /\ op' = MoreFromHead
  /\ UNCHANGED <<structs, statics, db, online, base, acked, client, bounds>>

SendMore ==
  /\ op.at = "more"
  /\ op' = IF FriendOf[op.msg] \in online THEN NextParts(op.msg, -1) ELSE MoreAfter(op.msg)
  /\ UNCHANGED <<structs, statics, db, online, base, acked, client, bounds>>

-----------------------------------------------------------------------------
(* A crash, and loadPendingSentMessages at the next start                  *)

Crash ==
  /\ op.at \notin {"down", "fault"}
  /\ restarts < MaxRestarts
  /\ restarts' = restarts + 1
  /\ heap' = {}
  /\ partReceipt' = [m \in Msgs |-> [i \in Parts(m) |-> 0]]
  /\ confirmed' = [m \in Msgs |-> {}]
  /\ lastSent' = [m \in Msgs |-> 0]
  /\ numTransit' = [m \in Msgs |-> 0]
  /\ numConfirmed' = [m \in Msgs |-> 0]
  /\ clientReceipt' = [m \in Msgs |-> 0]
  /\ ring' = <<>>
  /\ table' = EmptyTable
  /\ lastReceipt' = ReceiptRangeLo
  /\ wire' = {}
  /\ op' = At("down")
  /\ UNCHANGED <<db, online, nextId, acked, client, expiries>>

Restart ==
  /\ op.at = "down"
  /\ op' = At("load")
  /\ UNCHANGED <<structs, statics, db, online, base, acked, client, bounds>>

\* The rows of the JOIN that have not been handled yet.
ToLoad == {m \in Msgs : db[m].meta /\ db[m].data /\ m \notin heap}

\* Slip: the count of confirmed parts is not compared with the parts.
LoadableUncounted(m) == ReloadParts[m] = NumParts[m] /\ db[m].done < NumParts[m]

Loadable(m) ==
  /\ ReloadParts[m] = NumParts[m]
  /\ Cardinality(db[m].confirmed) = db[m].done
  /\ db[m].done < NumParts[m]

\* The receipt column is stored and never put back, so the model leaves it out.
LoadRow(m) ==
  /\ op.at = "load"
  /\ m \in ToLoad /\ Loadable(m)
  /\ heap' = heap \cup {m}
  /\ confirmed' = [confirmed EXCEPT ![m] = db[m].confirmed]
  /\ numConfirmed' = [numConfirmed EXCEPT ![m] = Cardinality(db[m].confirmed)]
  /\ ring' = Link(ring, m)
  /\ UNCHANGED <<partReceipt, lastSent, numTransit, clientReceipt, table,
                 lastReceipt, db, op, online, base, acked, client, bounds>>

DropRow(m) ==
  /\ op.at = "load"
  /\ m \in ToLoad /\ ~Loadable(m)
  /\ db' = [db EXCEPT ![m].data = FALSE]
  /\ UNCHANGED <<structs, statics, op, online, base, acked, client, bounds>>

LoadDone ==
  /\ op.at = "load"
  /\ ToLoad = {}
  /\ op' = Idle
  /\ UNCHANGED <<structs, statics, db, online, base, acked, client, bounds>>

-----------------------------------------------------------------------------
GoOffline(fr) ==
  /\ op = Idle
  /\ fr \in online
  /\ online' = online \ {fr}
  /\ UNCHANGED <<structs, statics, db, op, base, acked, client, bounds>>

GoOnline(fr) ==
  /\ op = Idle
  /\ fr \notin online
  /\ online' = online \cup {fr}
  /\ UNCHANGED <<structs, statics, db, op, base, acked, client, bounds>>

-----------------------------------------------------------------------------
Handler ==
  \/ FirstPart \/ SendFails \/ InsertMeta \/ InsertData
  \/ Pass1Part \/ Pass1Done \/ Pass2Part \/ Pass2Done
  \/ ConfirmMeta \/ Notify \/ Discard \/ Retire
  \/ ResendExpired \/ ResendDone \/ SendMore
  \/ Restart \/ (\E m \in Msgs : LoadRow(m) \/ DropRow(m)) \/ LoadDone

ReadReceipt == \E f \in wire : ForeignReceipt(f) \/ Receipt(f)

Next ==
  \/ \E m \in Msgs : SendLong(m)
  \/ Handler
  \/ ReadReceipt
  \/ Periodic
  \/ \E fr \in Unsteady : GoOffline(fr) \/ GoOnline(fr)
  \/ Crash

Spec == Init /\ [][Next]_vars

\* A started handler is finished, and the client's loop keeps coming back to the
\* base library, which delivers the receipts it owes.  Of the periodic function
\* nothing is assumed: nobody calls it (c:255, c:327).
FairSpec == Spec /\ WF_vars(Handler) /\ WF_vars(ReadReceipt)

-----------------------------------------------------------------------------
(* Properties.                                                             *)

\* Every variable keeps its type: in particular the unsigned counters
\* numTransit and numConfirmed (c:82-83) never wrap below zero.
TypeOK ==
  /\ heap \subseteq Msgs
  /\ \A m \in Msgs :
       /\ partReceipt[m] \in [Parts(m) -> Nat]
       /\ confirmed[m] \subseteq Parts(m)
       /\ lastSent[m] \in Parts(m)
       /\ db[m].confirmed \subseteq Parts(m)
       /\ acked[m] \subseteq Parts(m)
  /\ numTransit \in [Msgs -> Nat]
  /\ numConfirmed \in [Msgs -> Nat]
  /\ clientReceipt \in [Msgs -> Nat]
  /\ op.at \in Labels /\ op.msg \in Msgs \cup {NoMsg}
  /\ op.i \in Nat /\ op.cell \in Int /\ op.cut \in Nat
  /\ online \subseteq Friends
  /\ nextId \in Nat

\* The records of message m in the table, without the one whose receipt is
\* being processed: tryProcessReceipt empties its cell last (c:652).
Records(m) == {k \in DOMAIN table.cells : table.cells[k].msg = m /\ k # op.cell}

\* numTransit, which meters the sending (c:360, c:393, c:402), is exactly the
\* number of receipts the table still expects for the message.
TransitExact == \A m \in heap : numTransit[m] = Cardinality(Records(m))

\* No more than fragmentsAtATime parts of a message wait for a receipt, the
\* ones resent after a timeout (c:540) included.
WindowRespected == \A m \in Msgs : numTransit[m] <= FragmentsAtATime

\* A record points to a message that has not been freed, and its part waits
\* for that very receipt: no part is in flight twice, and none is in flight
\* after it was confirmed (c:404-405).
RecordsLive ==
  op.at # "fault" =>
    \A m \in Msgs : \A k \in Records(m) :
      /\ m \in heap
      /\ partReceipt[m][table.cells[k].part] = table.cells[k].receipt
      /\ table.cells[k].part \notin confirmed[m]

\* numConfirmed counts parts, not receipts: it decides completion (c:641).
ConfirmedExact == \A m \in heap : numConfirmed[m] = Cardinality(confirmed[m])

\* The client hears at most once, crashes included, that its message has
\* arrived, and only when the friend has received every part (c:413-416).
Completion ==
  \A m \in Msgs : told[m] <= 1 /\ (told[m] = 1 => acked[m] = Parts(m))

\* No freed message is used, no row is missing, and a receipt number for the
\* client can always be found.
NoFault == op.at # "fault"

\* Between handlers the database says of each message in memory what the
\* memory says, so that a crash there loses nothing (c:374, c:636).
DbAgrees ==
  op = Idle =>
    \A m \in heap : /\ db[m].meta /\ db[m].data
                   /\ db[m].confirmed = confirmed[m]
                   /\ db[m].done = Cardinality(confirmed[m])

\* Whatever the client sends from inside its callback, the list that sendMore,
\* generateReceiptNo and is_receipt_pending walk has no freed message in it and
\* none twice (c:289, c:300, c:418).
ListLive == IsInjective(ring) /\ Listed \subseteq heap

\* What the lookup and the resending rely on: records lie in [lo, hi), in
\* the order of their receipts, and receiptsNum is not zero while there are
\* any (c:528).
TableOrdered ==
  /\ DOMAIN table.cells \subseteq table.lo .. table.hi - 1
  /\ \A j, k \in DOMAIN table.cells :
       j < k => table.cells[j].receipt < table.cells[k].receipt
  /\ table.num >= Cardinality(DOMAIN table.cells)

-----------------------------------------------------------------------------
(* What comments and documentation of the code say, and the code refutes.  *)

\* A part's receipt field is the "receipt from below that we are waiting for"
\* (c:67): a part that waits for a receipt is in the table.
ReceiptAwaited ==
  op = Idle =>
    \A m \in heap : \A i \in Parts(m) :
      partReceipt[m][i] # 0 =>
        \E k \in DOMAIN table.cells : table.cells[k].receipt = partReceipt[m][i]

\* The sender knows the receipts it is waiting for (c:67, c:88-93), so none of
\* them is handed to the client as if the client had sent a short message.
OwnReceiptsKept == foreign = {}

\* Long messages are sent "persistently across sessions" when they are kept in a
\* database file (README.md:13): one that is in memory after the last crash
\* arrives.
Delivered ==
  \A m \in Msgs :
    (op = Idle /\ m \in heap /\ restarts = MaxRestarts) ~> (acked[m] = Parts(m))

-----------------------------------------------------------------------------
(* What holds as long as they are true.                                    *)

\* Sending never comes to a standstill.  Only a read receipt makes the sender go
\* on with a message sent in this process (c:641-643), so as long as it holds one
\* for a friend who does not go away, a receipt for it is on its way that the
\* table will know; whatever else was sent, resent, confirmed or left out, and
\* unless a receipt was missed before (OwnReceiptsKept).
Driven ==
  op = Idle /\ OwnReceiptsKept =>
    \A m \in heap : clientReceipt[m] # 0 /\ FriendOf[m] \notin Unsteady =>
      \E k \in DOMAIN table.cells : table.cells[k].msg = m /\ table.cells[k] \in wire
=============================================================================
