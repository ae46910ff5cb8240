------------------------------ MODULE Lifecycle ------------------------------
(***************************************************************************)
(* The calls a client makes to set tox-defragmenter up, use it and take it *)
(* down, over several runs of the process, together with the thread that   *)
(* the library starts by itself.                                           *)
(*                                                                         *)
(* The client keeps the rules of README.md:11 and of the warning c:795: in *)
(* each process it calls the two initializing functions once, in either    *)
(* order, uses the library when both are done, and calls uninitialize at   *)
(* most once, at the end; it sets the parameters before it initializes.    *)
(* A process that initializes a database again uses a statement that       *)
(* readDbName has finalized (db.c:356-359), and one that calls             *)
(* uninitialize again frees receipts twice (c:229).                        *)
(*                                                                         *)
(* A call of the client is two steps, so that the thread may come between  *)
(* its beginning and its end.  Fragments are left to module Outbound.      *)
(***************************************************************************)
EXTENDS Integers, FiniteSets, Ring

CONSTANTS
  Msgs,             \* the long messages the client sends, each once
  Ranges,           \* receipt ranges that set_parameters is called with
  DefaultRange,     \* the range of a process that does not call it
  MaxClock,         \* bound: the last millisecond
  MaxRestarts       \* bound: processes after the first

ASSUME LifecycleAssumption ==
  /\ IsFiniteSet(Msgs)
  /\ \A r \in Ranges \cup {DefaultRange} :
       r.lo \in Nat \ {0} /\ r.hi \in Nat /\ r.hi - r.lo + 1 >= Cardinality(Msgs)
  /\ MaxClock \in Nat /\ MaxRestarts \in Nat

VARIABLES
  \* static data of the process
  initializedApi, initializedDb,
  params,           \* receiptRangeLo and receiptRangeHi, the others play no part here
  database,         \* which database: none, the client's file, or in memory
  stmts,            \* the prepared statements
  receipts,         \* the receipt table: null, allocated or freed
  structs,          \* structs[m]: how many msg_outbound there are of m
  ring,             \* msgsOutbound
  lastMsgId, lastReceipt,
  receiptOf,        \* msg_outbound.receipt
  toxInstance,      \* is it set?
  \* what the process is doing
  call,             \* the client's call in progress
  thread, threadStopFlag,
  over,             \* was uninitialize called in this process?
  \* what outlives the process
  pending,          \* messages with rows in the file
  idOf,             \* the ids of messages; the friends know them for ever
  \* the rest of the world
  unsent, clock, restarts

flags    == <<initializedApi, initializedDb>>
messages == <<structs, ring, receiptOf>>
numbers  == <<lastMsgId, lastReceipt>>
process  == <<thread, threadStopFlag, over>>
world    == <<pending, idOf, unsent, clock, restarts>>
statics  == <<flags, params, database, stmts, receipts, messages, numbers, toxInstance>>
vars     == <<statics, call, process, world>>

Ready == initializedApi /\ initializedDb

\* The static variables for prepared statements.
AllStmts ==
  {"insertDataInbound", "insertMetaInbound", "rowid", "insertDataOutbound",
   "insertMetaOutbound", "updateMeta", "inboundDone", "outboundPending", "deleteData"}

\* What each operation prepares when it gets there for the first time (db.c: prepare).
Load    == {"outboundPending"}
Store   == {"insertMetaOutbound", "insertDataOutbound"}
Delete  == {"deleteData"}
Confirm == {"rowid", "updateMeta"}
Look    == {"insertDataInbound", "insertMetaInbound", "rowid"}
Count   == {"updateMeta", "inboundDone"}

Init ==
  /\ initializedApi = FALSE /\ initializedDb = FALSE
  /\ params = DefaultRange
  /\ database = "none" /\ stmts = {} /\ receipts = "null"
  /\ structs = [m \in Msgs |-> 0] /\ ring = <<>> /\ receiptOf = [m \in Msgs |-> 0]
  /\ lastMsgId = 0 /\ lastReceipt = 0
  /\ toxInstance = FALSE
  /\ call = "none" /\ thread = "sleep" /\ threadStopFlag = FALSE /\ over = FALSE
  /\ pending = {} /\ idOf = [m \in Msgs |-> 0]
  /\ unsent = Msgs /\ clock = 1 /\ restarts = 0

-----------------------------------------------------------------------------
(* initialize()                                                            *)

\* Slip: the numbers start anywhere.
ReceiptsInitializeNoNumber ==
  /\ receipts' = "live"
  /\ UNCHANGED lastReceipt

ReceiptsInitialize ==
  /\ receipts' = "live"
  /\ lastReceipt' = params.lo

\* The rows of the database become messages in memory, without a receipt, or
\* are discarded: when the message is cut into another number of parts, when
\* its counts disagree, or when all is confirmed (module Outbound says which).
\* The list is empty before, and the SELECT asks for no order (db.c:265-272).
LoadPendingSentMessages(where) ==
  LET rows == IF where = "file" THEN pending ELSE {}
  IN  \E kept \in SUBSET rows :
        /\ structs' = [m \in Msgs |-> structs[m] + (IF m \in kept THEN 1 ELSE 0)]
        /\ ring' \in SetToSeqs(kept)
        /\ pending' = pending \ (rows \ kept)
        /\ stmts' = stmts \cup Load \cup (IF kept = rows THEN {} ELSE Delete)
        /\ UNCHANGED receiptOf

Initialize(where) ==
  /\ ReceiptsInitialize
  /\ LoadPendingSentMessages(where)

NotYet == UNCHANGED <<receipts, lastReceipt, messages, stmts, pending>>

-----------------------------------------------------------------------------
(* The API.                                                                *)

Calls ==
  {"set_parameters", "initialize_api", "initialize_db", "initialize_db_inmemory",
   "send", "confirm", "receive", "uninitialize", "new", "kill", "exit"}

Allowed(c) ==
  CASE c = "set_parameters"  -> ~initializedApi /\ ~initializedDb /\ ~over
    [] c = "initialize_api"  -> ~initializedApi /\ ~over
    [] c \in {"initialize_db", "initialize_db_inmemory"} -> ~initializedDb /\ ~over
    [] c = "send"            -> Ready /\ unsent # {}
    [] c = "confirm"         -> Ready /\ \E m \in Msgs : receiptOf[m] # 0
    [] c = "receive"         -> Ready
    [] c = "uninitialize"    -> ~over
    [] c \in {"new", "kill"} -> initializedApi
    [] c = "exit"            -> TRUE

Enter ==
  /\ call = "none"
  /\ \E c \in Calls : Allowed(c) /\ call' = c
  /\ UNCHANGED <<statics, process, world>>

Return == call' = "none" /\ UNCHANGED process

SetParameters ==
  /\ call = "set_parameters" /\ Return
  /\ params' \in Ranges
  /\ UNCHANGED <<flags, database, stmts, receipts, messages, numbers, toxInstance, world>>

\* Slip: only initialize_db goes on to initialize().
ApiNeverSecond == FALSE

ApiIsSecond == initializedDb

InitializeApi ==
  /\ call = "initialize_api" /\ Return
  /\ initializedApi' = TRUE
  /\ IF ApiIsSecond THEN Initialize(database) ELSE NotYet
  /\ UNCHANGED <<initializedDb, params, database, lastMsgId, toxInstance, idOf, unsent,
                 clock, restarts>>

\* Slip: initialize() does not wait for the API.
DbAlways == TRUE

DbIsSecond == initializedApi

\* dbInitialize or dbInitializeInMemory
InitializeDb ==
  /\ call \in {"initialize_db", "initialize_db_inmemory"} /\ Return
  /\ initializedDb' = TRUE
  /\ database' = IF call = "initialize_db" THEN "file" ELSE "memory"
  /\ IF DbIsSecond THEN Initialize(database') ELSE NotYet
  /\ UNCHANGED <<initializedApi, params, lastMsgId, toxInstance, idOf, unsent, clock, restarts>>

\* Slip: ids are the time, however fast the client sends.
IdFromClock == clock

\* generateMsgId
GenerateMsgId == IF clock > lastMsgId THEN clock ELSE lastMsgId + 1

\* is_receipt_pending
IsReceiptPending(r) == \E m \in ToSet(ring) : receiptOf[m] = r

\* generateReceiptNo: the first number after lastReceipt that no listed message
\* has, and if there is none up to the end of the range, the first from its start.
GenerateReceiptNo ==
  LET free(lo) == {r \in lo .. params.hi : ~IsReceiptPending(r)}
  IN  Min(free(IF free(lastReceipt + 1) # {} THEN lastReceipt + 1 ELSE params.lo))

\* friend_send_message_long, when the base accepts a part.
Send(m) ==
  /\ call = "send" /\ Return
  /\ m \in unsent
  /\ unsent' = unsent \ {m}
  /\ idOf' = [idOf EXCEPT ![m] = GenerateMsgId]
  /\ lastMsgId' = GenerateMsgId
  /\ receiptOf' = [receiptOf EXCEPT ![m] = GenerateReceiptNo]
  /\ lastReceipt' = GenerateReceiptNo
  /\ structs' = [structs EXCEPT ![m] = 1]
  /\ ring' = Link(ring, m)
  /\ pending' = IF database = "file" THEN pending \cup {m} ELSE pending
  /\ stmts' = stmts \cup Store
  /\ UNCHANGED <<flags, params, database, receipts, toxInstance, clock, restarts>>

\* The last receipt of a message comes in: msgIsComplete.  One that was loaded
\* has no parts in flight until the thread sends them.
LastReceipt(m) ==
  /\ call = "confirm" /\ Return
  /\ receiptOf[m] # 0
  /\ structs' = [structs EXCEPT ![m] = @ - 1]
  /\ ring' = Unlink(ring, m)
  /\ receiptOf' = [receiptOf EXCEPT ![m] = 0]
  /\ pending' = pending \ {m}
  /\ stmts' = stmts \cup Confirm \cup Delete
  /\ UNCHANGED <<flags, params, database, receipts, numbers, toxInstance, idOf, unsent,
                 clock, restarts>>

\* A fragment comes in: one that is there already, a new one, or the last one
\* of its message.
ReceiveFragment ==
  /\ call = "receive" /\ Return
  /\ \E reached \in {Look, Look \cup Count, Look \cup Count \cup Delete} :
       stmts' = stmts \cup reached
  /\ UNCHANGED <<flags, params, database, receipts, messages, numbers, toxInstance, world>>

\* Slip: one statement is forgotten, that of the last fragment of a message.
DestroyedButOne ==
  {"insertDataInbound", "insertMetaInbound", "rowid", "insertDataOutbound",
   "insertMetaOutbound", "updateMeta", "inboundDone", "outboundPending"}

\* The list that is written out in destroyPreparedStatements.
Destroyed ==
  {"insertDataInbound", "insertMetaInbound", "rowid", "insertDataOutbound",
   "insertMetaOutbound", "updateMeta", "inboundDone", "outboundPending", "deleteData"}

DestroyPreparedStatements == stmts \ Destroyed

\* uninitialize, dbUninitialize: the loop that deletes the messages stops when
\* the list is empty; sqlite3_close refuses a database that has statements,
\* and err() aborts.
Uninitialize ==
  /\ call = "uninitialize"
  /\ over' = TRUE
  /\ structs' = [m \in Msgs |-> IF m \in Deleted(ring) THEN 0 ELSE structs[m]]
  /\ ring' = <<>>
  /\ receiptOf' = [m \in Msgs |-> 0]
  /\ receipts' = IF receipts = "null" THEN "null" ELSE "freed"
  /\ stmts' = DestroyPreparedStatements
  /\ call' = IF database = "memory" /\ stmts' # {} THEN "abort" ELSE "none"
  /\ database' = "none"
  /\ initializedApi' = FALSE /\ initializedDb' = FALSE
  /\ UNCHANGED <<params, numbers, toxInstance, thread, threadStopFlag, world>>

-----------------------------------------------------------------------------
(* tox_new and tox_kill                                                    *)

\* MY(new) refuses a second instance, and makes the first by calling itself:
\* the process runs out of stack.
New == UNCHANGED toxInstance /\ call' = "abort"

\* MY(kill) wants the instance, and there is none; it would call itself, too.
Kill == UNCHANGED toxInstance /\ call' = "abort"

NewOrKill ==
  /\ call \in {"new", "kill"}
  /\ IF call = "new" THEN New ELSE Kill
  /\ UNCHANGED <<flags, params, database, stmts, receipts, messages, numbers, process, world>>

-----------------------------------------------------------------------------
(* The thread, started with the process                                    *)

\* sleep(2) is over.  With an instance, and initialized, the thread goes into
\* the sender's data; when it comes out it looks at the flag.
Thread ==
  /\ call # "abort"
  /\ thread \in {"sleep", "periodic"}
  /\ thread' = IF thread = "sleep" /\ toxInstance /\ Ready THEN "periodic"
               ELSE IF threadStopFlag THEN "ended"
               ELSE "sleep"
  /\ UNCHANGED <<statics, call, threadStopFlag, over, world>>

\* threadFini, when the process exits; it waits for the thread.
ThreadFini ==
  /\ call = "exit" /\ ~threadStopFlag
  /\ threadStopFlag' = TRUE
  /\ UNCHANGED <<statics, call, thread, over, world>>

-----------------------------------------------------------------------------
(* The process ends, by itself or not, and the next one starts.            *)

Tick ==
  /\ clock < MaxClock
  /\ clock' = clock + 1
  /\ UNCHANGED <<statics, call, process, pending, idOf, unsent, restarts>>

\* By then the clock has passed the ids of the last process, which run ahead
\* of it if messages are sent faster than one in a millisecond.  (A clock that
\* is set back while no process runs breaks this.)
Restart ==
  /\ restarts < MaxRestarts
  /\ restarts' = restarts + 1
  /\ \A m \in Msgs : idOf[m] < clock
  /\ initializedApi' = FALSE /\ initializedDb' = FALSE
  /\ params' = DefaultRange
  /\ database' = "none" /\ stmts' = {} /\ receipts' = "null"
  /\ structs' = [m \in Msgs |-> 0] /\ ring' = <<>> /\ receiptOf' = [m \in Msgs |-> 0]
  /\ lastMsgId' = 0 /\ lastReceipt' = 0
  /\ toxInstance' = FALSE
  /\ call' = "none" /\ thread' = "sleep" /\ threadStopFlag' = FALSE /\ over' = FALSE
  /\ UNCHANGED <<pending, idOf, unsent, clock>>

-----------------------------------------------------------------------------
Next ==
  \/ Enter
  \/ SetParameters \/ InitializeApi \/ InitializeDb
  \/ \E m \in Msgs : Send(m) \/ LastReceipt(m)
  \/ ReceiveFragment
  \/ Uninitialize
  \/ NewOrKill
  \/ Thread \/ ThreadFini
  \/ Tick
  \/ Restart

Spec == Init /\ [][Next]_vars

-----------------------------------------------------------------------------
(* Properties.                                                             *)

\* Every variable keeps its type, and a message has one structure at most
\* (c:208-212: initialize() must not run twice).
TypeOK ==
  /\ initializedApi \in BOOLEAN /\ initializedDb \in BOOLEAN
  /\ params \in Ranges \cup {DefaultRange}
  /\ initializedDb <=> database \in {"file", "memory"}
  /\ stmts \subseteq AllStmts
  /\ receipts \in {"null", "live", "freed"}
  /\ structs \in [Msgs -> 0 .. 1]
  /\ \A m \in ToSet(ring) : structs[m] = 1
  /\ call \in Calls \cup {"none", "abort"}
  /\ pending \subseteq Msgs \ unsent

\* Whichever of the two is initialized first, in the end the receipt table is
\* there and each message that the database has is in memory, once (c:208-212,
\* c:746, c:756, c:765).
LoadedOnce ==
  Ready /\ call # "abort" =>
    /\ receipts = "live"
    /\ database = "file" => \A m \in pending : structs[m] = 1

\* No two messages have the same id, however fast they are sent and wherever
\* the process is started again: the receiver would take the second for
\* fragments of the first, and the INSERT here breaks the key (c:177-184).
IdsDistinct ==
  \A m, n \in Msgs \ unsent : m # n => idOf[m] # idOf[n]

\* The numbers given to the client for listed messages are in the range it has
\* set, where the base library has none, and are distinct, also when the range
\* starts over (c:186-206, c:225).
ReceiptsInRange ==
  \A m \in ToSet(ring) : receiptOf[m] # 0 =>
    /\ receiptOf[m] \in params.lo .. params.hi
    /\ \A n \in ToSet(ring) \ {m} : receiptOf[n] # receiptOf[m]

\* No prepared statement outlives the use of its database, whatever was done
\* with it before: sqlite3_close would refuse, which aborts for a database in
\* memory, and keeps the client from closing its own (db.c:112-123, db.c:407-417).
NoStatementLeft == database = "none" => stmts = {}
==============================================================================
