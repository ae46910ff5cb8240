# A verification of tox-defragmenter

tox-defragmenter sits between a Tox client and the Tox library. It cuts a long message into fragments, keeps the message
in a database until the friend has acknowledged every fragment, and at the other end puts the fragments together again.
This directory holds TLA+ models of it, the TLC runs that check them on small instances, and proofs, checked by TLAPS,
of what holds for every instance. `PROJECT.json` lists all runs, the source lines of every definition, the hazards and
the findings. In the modules `c:n` is line n of `src/tox-defragmenter.c`, `db.c:n` of `src/database.c`,
`t:n` of `src/test-peer.c`.

To check: `tlc -config outbound.cfg MCOutbound.tla` (likewise the others), `tlapm OutboundProofs.tla`.

## Inventory

| Part | State | Operations | Talks to |
|---|---|---|---|
| Outbound messages (c: SEND) | `msg_outbound` structures with their `fragment`s; the circular list `msgsOutbound`; `lastReceipt` | `friend_send_message_long`, `msgSendNextParts`, `msgSendPart`, `friend_read_receipt_cb`/`tryProcessReceipt`, `msgIsComplete`, `resendExpiredReceipts`, `sendMore`, `loadPendingSentMessages` | base Tox library (send, online?), client (receipts), receipt table, outbound rows |
| Receipt table | array `receipts`, `receiptsLo`, `receiptsHi`, `receiptsNum` | `addReceipt`, `findReceipt`, removal on receipt and on expiry | used by the above only |
| Inbound messages (c: RECV, db.c) | rows of `fragmented_meta` and `fragmented_data` with outbound = 0 | `friend_message_cb`, `dbInsertInboundFragment`, `messageReady` | base library (messages), client (messages, lock) |
| Fragmenter | none but `markerMaxSizeEver` | `friend_send_message`, `splitMessage` | called when sending and when loading |
| Marker codec | none | `markerMaxSizeBytes`, `markerPrint`, `markerExists`, `markerParse` | called on every message sent or received |
| Database layer | the two tables, prepared statements, the client's lock | the statements, `openBlob` and friends | SQLite |
| Lifecycle, parameters | `initializedApi`, `initializedDb`, `params`, `toxInstance` | `initialize_api`, `initialize_db`, `uninitialize`, `set_parameters`, `tox_new`, `tox_kill` | all |
| Periodic thread | `thread`, `threadStopFlag` | `threadRoutine`, `doPeriodic` | outbound messages, without a lock |
| Test peer | packet queues, receipts seen | a socket program that plays client and base library | all, from outside |

What makes each part correct:

* outbound: the counters `numTransit` and `numConfirmed` mean what they are used for; no part is in flight twice; the
  window is respected; the client is told of an arrival once, and not before the friend has everything; memory and
  database agree whenever the process may be killed between handlers; sending does not come to a standstill;
* receipt table: sorted, within its bounds, complete; a receipt that is there is found;
* inbound: the client sees each message whole and once, whatever is duplicated or reordered, and wherever the process
  is killed; everything that arrived is shown; locks are given back;
* fragmenter: the fragments make up the message, and fit the array, the marker's buffer and a Tox message;
* codec: parsing undoes printing, and a client's message is not taken for a fragment;
* lifecycle: any legal order of the API's calls leads to an initialized, and back to a clean state;
* the two ends together: a message is shown as it was sent, once, before its sender hears of it;
* test peer: the test ends, and neither peer leaves before the other has what it needs.

What is hard about this code: receipts of several friends come back in any order and after any delay; a timeout races a
late receipt; a friend goes offline between two fragments; fragments arrive twice; every SQL statement commits on its
own, so a kill between two of them leaves half of a change; one thread runs the periodic work without a lock; a message
is cut a second time after a restart, by an estimate that has changed.

## Modules

| Module | Models |
|---|---|
| `ReceiptTable`, `Ring` | operators on a value of the receipt table and of the list of messages, as the handlers use them |
| `Outbound` | the sender, its rows, the base library, the friends, the client, crashes |
| `Inbound` | the receiver and its rows, statement by statement |
| `Reassembly` | the abstract specification of the receiver |
| `Marker`, `Cut` | marker.c on bytes; the arithmetic of `splitMessage` |
| `Split` | `friend_send_message` up to the fragments, in real numbers of bytes |
| `Delivery` | `Outbound`, fragments on their way, and the receiver, in bytes |
| `Messenger` | the abstract specification of the two ends together |
| `Lifecycle` | the API's calls over several processes, and the library's thread |
| `TestPeer` | the two processes of the regression test and the sockets between them |
| `MCOutbound`, `MCInbound`, `MCSplit`, `MCDelivery`, `MCLifecycle`, `MCTestPeer` | instances for TLC |
| `StructureProofs`, `CutProofs` | lemmas on the receipt table, the ring and the arithmetic of the cut |
| `OutboundProofs`, `OutboundSafetyProofs`, `InboundProofs`, `LifecycleProofs`, `SplitProofs`, `DeliveryProofs` | theorems |

### ReceiptTable and Ring

A table is a record `[cells, lo, hi, num]`. `cells` is the partial function from the 0-based indices of the non-empty
array elements to their records; `lo`, `hi`, `num` are `receiptsLo`, `receiptsHi`, `receiptsNum`. `FindReceipt` is the
binary search of `findReceipt` with its slide over empty cells, as a recursive function of the window. `AddReceipt`
appends or inserts; `RetireReceipt` is the end of `tryProcessReceipt`, `ExpireReceipt` the head of
`resendExpiredReceipts`. `receiptsAlloc` is left out (new memory is zeroed, that is, empty); reading one cell beyond it,
which `findReceipt` may return, would be undefined.

The circular list `msgsOutbound` is the sequence of messages read from its head through `next`. A message that
`Unlink` drops from a list of two keeps its structure and is in no list.

### Outbound

Each field of `msg_outbound` and `fragment` that has an effect is a variable indexed by message: `partReceipt`
(`fragment.receipt`), `confirmed`, `lastSent`, `numTransit`, `numConfirmed`, `clientReceipt` (`msg_outbound.receipt`);
`heap` says which messages have a structure at all. `db[m]` is what the two rows of m hold: whether they exist,
`frags_done`, and the `confirmed` blob.

A handler runs to its end before another one starts (one client thread), but it is cut into steps by `op`, at each call
of the base library and at each SQL statement: the base may accept or refuse, and `Crash` may happen before every step.
The labels follow the code: `first` (the loop of `friend_send_message_long`), `insertData`, `confirmMeta` (the second
write of `dbOutboundPartConfirmed`), `pass1` and `pass2` (the loops of `msgSendNextParts`), `notify` and `discard`
(`msgIsComplete`), `retire` (the end of `tryProcessReceipt`), `expire` and `more` (`doPeriodic`), `down` and `load`.
`fault` stands for use of freed memory, `abort()`, or an endless `generateReceiptNo`.

One handler may start inside another: the client sends from its receipt callback. `SendLong` is therefore possible at
`discard` too, when `msgIsComplete` has called the client and has not yet unlinked the message; `op.cell` keeps the
`recIdx` of the interrupted `tryProcessReceipt`, and `Returned` goes back to it. The new message's records are added to the
table, and the message to the list, while the completed one is still in both.

The base library gives the fragments it accepts increasing numbers (`nextId`), for all friends together, and owes a receipt
for each (`wire`); a
receipt is returned at any later time, in any order, or, with `InOrder`, in the order of sending per friend. It refuses
when the friend is offline, or when the data is NULL (a confirmed part's is); `SpuriousRefusal` lets it refuse at other
times too (a full queue). `acked`, `called`, `given`, `told`, `foreign` record what the friend and the client have seen.
Which receipts have timed out is a choice: timestamps grow with the numbers, so a prefix of the table has.

The numbers are test-peer.c's (`msgIdNet`), and what the sender takes for granted: `tryProcessReceipt` looks a receipt up by its
number without regard to the friend. It follows that `AddReceipt` always appends; `InsertReceipt` (c:474-487) is translated,
and executed in no run. In the runs the numbers of the base stay below the client's range.

`doPeriodic` is a handler that starts between other handlers, if `PeriodicRuns`. In the code it would run in the library's own
thread, and does not run at all (finding 6). It is on in the runs `outbound`, `delivery`, `expired_lost` and `recut`, to check the code that is
there, and off in the others.

### Inbound and Reassembly

`meta` and `done` are the rows of `fragmented_meta`, `data` and `blob` those of `fragmented_data` with the parts written
into them. A handler is cut at each autocommitted statement and at the call of the client, so that `Crash` may fall
between any two. `Written` is the test of the byte at the fragment's offset; `ZeroFirst` says which parts would fool it.
`locks` counts `dbLock` minus `dbUnlock`; the lock is assumed to let its holder in again (or to be absent, as it is for
the in-memory database).

`Reassembly` promises: parts are collected (`have`), and a message is shown once, when all its parts are there. Inbound
implements it with `have <- blob`.

### Marker, Cut and Split

A message is its length and its first bytes; the bytes that the codec does not tell apart are one. `MarkerExists`,
`MarkerParse` follow `markerParseFields` field by field (its loop over the four fields is written out), including the last byte of the closing marker character, which
the code may look for behind the end of the message: `past` is what is found there. `IsMarked` is a grammar of the
marker, written without regard to how the parser works, that the parser is compared with.

`Estimate`, `RoomForMarker`, `Step`, `NumPartsOf` are the arithmetic of `splitMessage`; its loop is `CutPart` in `Split`.
The argument `e` is `markerMaxSizeEver`: `SizeEver` (63) when sending, 0 while loading at the first start of a process.

### Delivery and Messenger

`Delivery` extends `Outbound`: `SenderStep` is any step of the sender, and puts what it sends on its way as a `Piece` with
the offset, size and type that the marker and the packet carry. The receiver has a row per message with a set of
intervals written (`blob`); a handler is given by the `Trail` of states its statements leave behind, which `Deliver` takes
to the end and `Die` leaves anywhere. A receipt comes only for a fragment that was handled. `ConfirmedIsThere` relates the two
databases: what the sender's row calls confirmed is in the receiver's row, or was shown, whichever of them was killed.

`Messenger` promises: a message that was sent is shown as it was sent, at most once; the sender's client hears of it at
most once, and not before it was shown, unless the receiver was killed at work. The exception is needed: a receiver that
dies between writing a part and counting it acknowledges the part's resent copy as a duplicate, and never shows the
message. The mapping is `sent <- called`, `shown <-` what `seen` shows whole.

### Lifecycle

A client makes the API's calls in any order that `README.md` of the code allows. A call is an entry and an exit, with
steps of the thread in between. `structs`, `ring`, `receiptOf` are the messages; fragments are left out, and a message is
complete when a call `confirm` says so. The SELECT that loads pending messages has no ORDER BY: they come in any order. Which
rows are then discarded (c:579-611) is for `Outbound` to say; here it is any of them.
`GenerateReceiptNo` is where the loop of `generateReceiptNo` stops: the least number that is free above `lastReceipt`, or else
from the start of the range. `stmts` are the prepared statements: `Load`, `Store`, `Look` and so on say
what each operation prepares when it gets there, and `Destroyed` is the list in `destroyPreparedStatements`, as it is written.
`tox_new` and `tox_kill` are there, with what the code does: each calls itself.

### TestPeer

Each handler of `loop3` is a step; `ready` is what `select` returned. A packet is a fragment or short message, a receipt or
the end signal. The library in between is reduced to what the test sees of it when nothing is lost: which parts are
sent when a receipt comes, when a message is complete at either end. The sockets hold `SocketRoom` packets each way.

## Runs

| Run | Instance | Shows |
|---|---|---|
| `outbound` | 2 messages (3 and 2 parts) to 2 friends, window 2, 1 timeout, the second friend comes and goes, 1 crash, sends from the callback | the eleven invariants of the sender |
| `inbound` | 2 messages (3 and 2 parts), each fragment up to twice, 2 crashes | the invariants of the receiver, and that it implements `Reassembly` |
| `split` | every length from 1300 to 13200 and some near 130000, `maxMessageLength` 1372; 7 markers, cut off anywhere or with any one byte changed | fragments and markers fit and are read back; lookalikes are refused |
| `delivery` | 1 message of 3 parts, window 2, 1 timeout, receipts in any order, 1 crash of each end | both ends implement `Messenger` |
| `lifecycle` | 3 messages, 3 processes, 5 ms, 2 receipt ranges of 3 numbers | initialization, ids, receipt numbers, end |
| `peers` | messages of 2, 1, 2 and of 1, 3 parts, window 2, sockets of 2 packets | the test ends, with everything exchanged |
| `double_send`, `expired_lost`, `own_receipts` | the smallest instances | three findings about the sender |
| `recut`, `type_lost` | 1 message of 3 parts | two findings about the two ends together |
| `not_resumed` | 1 message of 3 parts to a steady friend, 1 crash, under fairness | `Delivered` is false |

Why the bounds are enough. Two messages make the ring's special cases (head, non-head, ring of two) and a table with
records of both; three parts and a window of two leave one part for the first pass after a receipt, and one for the
second after a refusal; one timeout gives a resend, a late receipt for the old number, and an offline friend's refused
resend. The friend of the message of three parts is steady in `outbound`, for `Driven`; one who goes away between its parts is
in `delivery`, and in the theorems. One crash falls before every step of every handler, those of loading excepted in that run; two crashes in
`inbound` let the second one fall while the first one's damage is dealt with. In `split` the number of fragments passes
9 and 99 and the length 9999, where a field gets one more digit. In `delivery` sender and receiver may each crash while the
other's crash is dealt with. In `lifecycle` three messages make a ring of more than two and use up a range of three
numbers, which starts over; three processes let a message be loaded twice in a row. In `peers` one message is larger than
the window and one short one follows a long one. `CHECK_DEADLOCK FALSE` is set everywhere, because with every message
sent, every bound used up and nothing to receive the program does stop.

The bounds are `MaxExpiries`, `MaxRestarts`, `MaxKills`, `MaxCopies`, `MaxClock`, and that each message is sent once; nothing
else is cut off.

Standstill and fairness. Nobody calls `doPeriodic`, so only read receipts drive the sender on. `Driven` says that this is
enough for a message sent in this process to a friend who does not go away: as long as the sender holds it, a receipt is on its
way that the table will know. It is a safety property: a state in which the sender waits for nothing, and nothing will wake it,
is never reached. What it leaves out is what the findings are about: a receipt missed by the lookup (`own_receipts`), a part
that expired (`expired_lost`), a message that was loaded (`not_resumed`).
`FairSpec` of `Outbound`, for `not_resumed`: a handler that has started goes on, and receipts that are owed are delivered (weak
fairness of `Handler` and `ReadReceipt`), which the client's loop around `tox_iterate` does. Of `Periodic` nothing is assumed.
The message of that run is not delivered although its friend is online and no other handler is in the way. `Spec` of
`TestPeer`: each process is scheduled again and again (weak fairness of its steps).

## Findings

Each is a violation run; `PROJECT.json` quotes the line that the run refutes.

1. `double_send` (c:401): the second pass of `msgSendNextParts` sends a part without raising `lastSent`; a later first
   pass sends it again. Both receipts count, and the client is told of an arrival that did not happen.
2. `expired_lost` (c:540): a part that cannot be resent when its receipt expires is never sent again.
3. `own_receipts` (c:498): `findReceipt` misses a receipt behind an empty cell; the client gets it as its own.
4. `recut` (c:579, c:210): a message that is loaded after a crash is cut at other offsets; with the same number of parts
   it is resumed all the same, and the friend's client gets a message with a hole.
5. `type_lost` (c:369): the first batch of fragments goes out before the type is set; a long action arrives as a normal
   message.
6. `not_resumed` (c:327): a message that was loaded from the database is never sent again. The README of the code asks the
   client to call `tox_defragmenter_periodic`, which does not exist; the thread runs `doPeriodic` only with `toxInstance` set
   (c:255), and the overloaded `tox_new` calls itself before it sets it. With `PeriodicRuns = TRUE`, and fairness for `Periodic`, the
   message would arrive.

Findings 2 and 4 are in code that, because of finding 6, does not run as shipped; they show once `doPeriodic` is called.

The models also show the following, without a run of their own:

* c:295: unlinking the head of a list of two messages empties the list (`Unlink`). The other message goes on by its
  receipts, but `sendMore`, `generateReceiptNo` and `is_receipt_pending` do not see it, and `msgsOutboundDeleteAll` leaks it
  (`Deleted`): that function itself always leaves one of two behind.
* db.c:181: a fragment whose data starts with NUL is not recognized when it comes again, and is counted twice; with a
  part in `ZeroFirst`, `inbound` fails `Whole`.
* db.c:149: a process that dies between inserting the data row and the meta row of a message cannot go on after its restart: the
  next fragment of the message finds no meta row, inserts the data row again, breaks the primary key and aborts, and so at each
  start (`abort` in `Inbound`; without the condition `restarts = 0`, `NoAbort` fails).
* c:192-203: with fewer receipt numbers than messages, `generateReceiptNo` does not return; with `ReceiptRangeHi = 101`, `outbound` fails
  `NoFault`.
* db.c:185: a duplicate fragment leaves the client's lock taken; `Locked` makes that exception.
* c:210: with `SizesEver` including 0, `split` fails `MarkerFits`: a message of 12100 bytes that is loaded gets markers of
  37 bytes where 35 were set aside.
* c:602-605: messages loaded from the database have no client receipt, so that the client is told of them by the number 0,
  and the comment at c:189 is void.
* c:178: a clock that is set back while no process runs may repeat an id (`Restart` of `Lifecycle` excludes it).
* db.c:294: `dbClearOutboundPending` is called under the lock of `dbLoadPendingSentMessages`.
* db.c:356-359, c:229: a second initialization uses a finalized statement, a second `uninitialize` frees twice.
* marker.c:120: the last byte of a marker may be looked for one byte behind the message (`past`).
* test-peer.c:221: a short message sent after many fragments has a net id above the number of messages; its receipt is
  never counted, and the test does not end. test.sh draws such inputs now and then (its third batch). With
  `Input` of one peer `<<3, 1>>`, `peers` fails `BothEnd`.
* test-peer.c:195, 205: a connect between the other's bind and listen is refused and fatal; with `ConnectsInGap = TRUE`,
  `peers` fails `NoPeerDies`.

## Proofs

Each theorem but `PrintThenParse`, which is about operators, is of the form `Spec => []P` or a refinement, from an inductive
invariant that TLC has checked on the run's instance.
Nothing is assumed but the named assumptions on the constants (`OutboundAssumption`, `InboundAssumption`, ...) and what
the theorem says. The assumptions have three of substance: a `maxMessageLength` above the longest marker, of whose absence
`set_parameters` only warns (c:795); for `Lifecycle` ranges with a number for every message; and for `Delivery` messages
longer than `maxMessageLength`, as others are passed on uncut (c:344).

| Module | Assumes besides | Proves |
|---|---|---|
| `OutboundProofs` | nothing | `TypeOK`, `TransitExact`, `WindowRespected`, `TableOrdered` |
| `OutboundSafetyProofs` | nothing | `ListLive` |
| | `SpuriousRefusal = FALSE` | `RecordsLive`, `ConfirmedExact`, `Completion`, `DbAgrees` |
| | the same, and `RangeSuffices` in every state | `NoFault` |
| `InboundProofs` | nothing | `Locked`, `NoAbort` |
| | `ZeroFirst = {}` | `TypeOK`, `Whole`, `Once`, `FinishedIsShown`, `CountExact`, `Recombined`, `Reassembles` |
| `LifecycleProofs` | nothing | `TypeOK`, `LoadedOnce`, `IdsDistinct`, `ReceiptsInRange`, `NoStatementLeft` |
| `SplitProofs` | nothing | `MarkedIsRefused`, `PrintThenParse` |
| | `SizesEver = {SizeEver}` | `TypeOK`, `MarkerFits`, `FragmentFits`, `CutExactly` |
| | the same, and messages shorter than 2^32 bytes (`LengthsUnsigned`) | `Recombinable` |
| `DeliveryProofs` | `SpuriousRefusal = FALSE`, `CutAlike` | `DeliveryTypeOK`, `ConfirmedIsThere`, `KeepsPromise`; `Original` of run `recut` |

Each condition excludes something that the code gets wrong. A base that refuses an online friend's fragment leads to `double_send`, where
`Completion` is false. A part that starts with NUL is counted twice (db.c:181), and `Whole` is false. A range with fewer
numbers than messages makes `generateReceiptNo` (c:203) endless. A message cut when `markerMaxSizeEver` is 0 gets markers
that are too long (c:210), and `MarkerFits` is false. A message of 2^32 bytes or more is cut short, as `splitMessage` narrows its
`size_t` to an `unsigned` (c:447). `CutAlike` says of every message that is resumed after a restart that it is cut at the same
offsets again; `recut` has one that is not, and `Original` is false.

**Operators.** `StructureProofs` proves of each table operator, for any well-formed table (records ordered by receipt, in
`[lo, hi)`, counted by `num`), that its result is well-formed and has one record more or less for the right message. It
also follows from the numbering that `AddReceipt` always appends: every new number is above all in the table. Its second
half says what linking and unlinking leave in the list: no message twice, and none that was not there before or is linked.

**The sender: numbers.** The inductive invariant `Inv` of `OutboundProofs` adds to the properties
what a handler knows at each of its steps: the message `op.msg` has been sent by the client, the cell `op.cell` is
occupied while a receipt is processed, also while the client sends from inside its callback, and the record in that
cell is the one not counted by `numTransit` any more.
Without this last point `TransitExact` is not inductive: `numTransit` goes down at the head of `tryProcessReceipt` (c:633)
and the cell is emptied at its end (c:652), with sends in between.

**The sender: what the numbers stand for.** `OutboundSafetyProofs` adds two invariants. `ListOK` says that listed messages have
structures, and that the message a handler holds in a local variable has one (`OnHeap`). `Safe` relates the table, the
fragments, the rows and the friend's memory:

* `RecordsOK`: a record in the table points to a live message, to a part that is not confirmed, and whose `fragment.receipt`
  is the record's number. So there is one record per part. The record at `op.cell` is excepted: its receipt has been taken.
  A receipt that the base still owes and the table's record of the same number are about the same fragment.
* `SentOK`: which parts have a receipt number, in terms of `lastSent` and of the step of the handler. This is why the first
  pass of `msgSendNextParts` (c:392), which goes by `lastSent`, and the second one, which goes by `fragment.receipt`, never
  send the same part. A refusal of an online friend is what breaks it.
* `ConfirmedOK`: a confirmed part is one the friend has. Memory and rows have the same parts; `frags_done` is one behind
  only between the two writes of `dbOutboundPartConfirmed` (db.c:256, 258), and a crash just there loses the count but not
  the part.
* `ToldOK`: the client was told of a message only when all its parts are confirmed, and not a second time after it was
  told and the process was killed before the row was deleted.

`Completion` follows from the last two: `numConfirmed` counts parts that are confirmed, each once, so that when it
reaches `numParts` the friend has everything.

**The receiver.** `Inv` of `InboundProofs` says of each message that `frags_done` is at most the number of parts written, that
a message shown is whole, that one with a meta row and no data row was shown, and, for the handler at work, that a
counted part is one that was just written: this is why `frags_done` = `frags_num` means that everything is there. `CalmInv`
holds besides as long as there was no crash, and makes "at most" exact. `Implements` is the refinement of `Reassembly`, one
step lemma per action. `LockInv` is an invariant of its own, which does without `ZeroFirst = {}`: what is written has
arrived, so the way out that keeps the lock (db.c:185) is open to a repeated fragment only, and as long as there was no
crash a data row without a meta row is that of the handler at work.

**Lifecycle.** `LInv` is `Typed`, and what each part of the static state says about the others: `CallOK` (a call that was entered is
still allowed when it is carried out: the thread's steps in between take nothing away), `PhaseOK` (what is there before,
between and after the initializing functions), `ListOK`, `IdsOK` and `NumbersOK`. `IdsDistinct` alone is not inductive: a new
process starts with `lastMsgId` 0, so `IdsOK` says that the ids of earlier processes lie before the clock. For
`ReceiptsInRange` the search of `generateReceiptNo` must find a number: there are fewer listed messages than numbers
(`LifecycleAssumption`), by a counting argument (`SomeNumberFree`). For `LoadedOnce`, loading keeps a row exactly when it makes
a structure of it (`InitializeFacts`). `NoStatementLeft` holds because all that any operation may have prepared is in `Destroyed`; no
statement is prepared before both initializing functions were called (`PhaseOK`).

**The cut.** `CutProofs` proves the arithmetic: the number of digits grows with the number, a longer step makes no
more parts, and the estimate that the room for markers is measured by is no lower than the number of parts in the end.
`SInv` of `SplitProofs` then says how far the loop is: all parts but the last are a step long, so `off` is a multiple of `step`, and
`BeforeTheEnd` bounds the number of parts. `CutExactly` is the arithmetic half of `Recombinable`: the array is filled and not
overrun, and the last part ends where the message does.

**The codec.** There are four fields of at most ten digits, so nothing needs induction: a number is the sum of its ten digits
by their `Worth`, and `ParsesBack` (strtoul after printf) is a case for each number of digits. `Laid` says where each byte of a
printed marker is. `FormAt` is the form with given sizes of the fields; `FormIsParsed` says that `markerParseFields` accepts
it, and nothing else, whatever byte `past` follows the message. The two meet in `PrintThenParse`. `Recombinable` adds that the
numbers have no more than ten digits: `FewParts` bounds the part numbers by the length. For `MarkedIsRefused`, the grammar
`IsMarked` is compared with `FormAt` in both directions: a message of that form is recognized with any `past`, and one that is
recognized has the form, or would have it with one byte more (`NearlyMarked`). The invariant `Choice` says which way the
message went.

**Both ends.** `DInv` of `DeliveryProofs` is added to the sender's invariants (`Inv`, `ListOK`, `Safe`, which hold under any step of
`DeliverySpec`, as it only adds to them):

* `WayOK`: a fragment on its way carries the `Place` (offset and size) of its part, and one of two types (`type_lost`). This is
  where `CutAlike` is needed, with `LoadedOK`: what is loaded and cut into another number of parts is not resumed.
* `RowsOK`: a row holds whole places only, which neither overlap nor leave out a byte, so that the blob is full when all parts
  are stored, and not before. `done` is at most their number, and equal to it as long as the receiver was never killed; a
  message that was shown was shown once, whole. That a message with a meta row and no data row was shown keeps it from being
  shown again.
* `ArrivedOK`: a fragment whose receipt is owed is on its way or stored, and one whose receipt came is stored.

Each point of a handler's `Trail` keeps `RowsOK`, so `Die` does too; at its last point the part is stored, so `Deliver` may
owe the receipt. `ConfirmedIsThere` follows from `ArrivedOK` and the sender's `ConfirmedOK`, and `PromiseKept` is the refinement, a lemma per
action: the client hears of a message when all parts are acknowledged, hence stored, and then the message was shown, unless
the receiver was ever killed. `SameDigits` shows what `CutAlike` asks of a message: two estimates, with and without
`markerMaxSizeEver`, of as many digits. 100 bytes in fragments of at most 75 satisfy it (run `delivery`), 120 bytes do not (run `recut`).

**Only model-checked.**

* `BothEnd`, since liveness under fairness is beyond TLAPS.
* `Driven`: it needs of the base's numbers that they stay below the client's range, and of every fragment the way from the
  table to the wire, which the invariants above follow in the other direction only.
* `TestPeer`: a handler may send several parts at once, by a fold (`SendParts`), and `Exchanged`, `QuietEnd` and
  `NoPeerDies` follow from counts of the packets of each kind in a queue and a socket: the lemmas are inductions over
  sequences, which these provers do not do.

## Mutants

An operator introduced by "Slip:" is not the code. It is a mistake that could be made in the definition after it; put in
that definition's place it must break a property (`PROJECT.json`, "mutants"), which shows that the property speaks of
the code and that the run's bounds reach the case.

## Not modelled

* What an unsynchronised `doPeriodic` would do to the sender's data. The code as it is never gets there; if `tox_new` worked,
  every access would be a data race and nothing could be said.
* Calls of the client from inside its message callback, between db.c:207 and db.c:217: they use other statements, and
  nothing of the receiver's is read before and used after.
* Contents of messages beyond what the codec and the duplicate test look at; NUL bytes in `Delivery`.
* Several messages in the runs of `Delivery`, for the size of the state space; the theorems of `DeliveryProofs` are about any number
  of them, and their interference is also in `Outbound` and `Inbound`.
* Parameters out of range: `set_parameters` only warns of a `maxMessageLength` below a marker's size, and `splitMessage`
  then divides by zero or by a wrapped number.
* SQLite: its statements are taken to do what SQL says, one transaction each. Binding and stepping of statements and the
  reporting of errors (db.c:424-606), logging (util.c), headers.
* A process killed by SQLite's errors (disk full); `memRealloc` running out of memory.
* `compressReceipts`, which nothing calls, and the blob cache, which is compiled out.
* In the test peer: the text of packets, reading it byte by byte, partial reads, and a peer without a database file.

## Plan

Done: all modules above, and the proofs of all but `TestPeer`.

Left: a proof of `Driven`; `TypeOK` of `TestPeer`, if the fold can be given a closed form, and then the counts of its packets.
