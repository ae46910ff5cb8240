------------------------------- MODULE Inbound -------------------------------
(***************************************************************************)
(* The receiving half of tox-defragmenter: processInFragment and           *)
(* dbInsertInboundFragment.  One handler runs for each fragment that the   *)
(* base Tox library delivers, in the client's thread, and its progress is  *)
(* kept in `op'.  A handler is cut into steps at its autocommitted SQL     *)
(* statements and at the call of the client, because the process may be    *)
(* killed between any two of them and leaves the tables as they are.       *)
(*                                                                         *)
(* Around it: fragments arrive in any order, interleaved between messages  *)
(* and friends, and more than once when the sender has sent them again.    *)
(* The client's lock is assumed to let the thread that holds it in again.  *)
(* (outbound, friend_id, frags_id), the key of both tables, is a message   *)
(* here.  A message's data row is as long as the message and zero-filled   *)
(* at first; all that matters of it is which parts were written.           *)
(*                                                                         *)
(* References: c:n is line n of tox-defragmenter.c, db.c:n of database.c.  *)
(***************************************************************************)
EXTENDS Integers, FiniteSets

CONSTANTS
  Msgs,             \* the long messages that friends send
  NoMsg,            \* no message
  NumParts,         \* NumParts[m]: fragments m comes in
  ZeroFirst,        \* the parts <<m, p>> whose first byte is NUL
  MaxCopies,        \* bound: how often each fragment arrives
  MaxRestarts       \* bound: crashes

ASSUME InboundAssumption ==
  /\ NoMsg \notin Msgs
  /\ NumParts \in [Msgs -> Nat \ {0}]
  /\ MaxCopies \in Nat
  /\ MaxRestarts \in Nat

VARIABLES
  \* table fragmented_meta: the messages with a row, and its frags_done
  meta, done,
  \* table fragmented_data: the messages with a row, and the parts written
  \* into it (what was written last, once the row is deleted)
  data, blob,
  op,               \* the running handler
  locks,            \* how often dbLock was called without a dbUnlock
  shown,            \* shown[m]: how often m was handed to the client
  cropped,          \* messages handed to the client with a part missing
  copies,           \* copies[m][p]: how often part p of m has arrived
  restarts

tables  == <<meta, done, data, blob>>
client  == <<shown, cropped>>
bounds  == <<copies, restarts>>
vars    == <<tables, op, locks, client, bounds>>

Parts(m) == 1 .. NumParts[m]

Labels == {"idle", "insertData", "insertMeta", "store", "count", "show",
           "delete", "abort"}

Idle  == [at |-> "idle", msg |-> NoMsg, part |-> 0]
Abort == [at |-> "abort", msg |-> NoMsg, part |-> 0]

Init ==
  /\ meta = {}
  /\ done = [m \in Msgs |-> 0]
  /\ data = {}
  /\ blob = [m \in Msgs |-> {}]
  /\ op = Idle
  /\ locks = 0
  /\ shown = [m \in Msgs |-> 0]
  /\ cropped = {}
  /\ copies = [m \in Msgs |-> [p \in Parts(m) |-> 0]]
  /\ restarts = 0

GoTo(label) == op' = [at |-> label, msg |-> op.msg, part |-> op.part]

\* Slip: the lock is not given back.
ReturnLocked ==
  /\ op' = Idle
  /\ UNCHANGED locks

\* dbUnlock and return.
Return ==
  /\ op' = Idle
  /\ locks' = locks - 1

-----------------------------------------------------------------------------
(* friend_message_cb hands a fragment to dbInsertInboundFragment.          *)

Arrive(m, p) ==
  /\ op = Idle
  /\ copies[m][p] < MaxCopies
  /\ copies' = [copies EXCEPT ![m][p] = @ + 1]
  /\ op' = [at |-> "insertData", msg |-> m, part |-> p]
  /\ locks' = locks + 1
  /\ UNCHANGED <<tables, client, restarts>>

\* Slip: the INSERT asks for the wrong table.
UnknownNotStored(m) == m \notin data

\* Slip: the INSERT asks for nothing.
AlwaysUnknown(m) == TRUE

Unknown(m) == m \notin meta

\* INSERT INTO fragmented_data ... WHERE NOT EXISTS (... fragmented_meta ...):
\* breaks the primary key, and so aborts, when only the data row is there.
InsertData ==
  /\ op.at = "insertData"
  /\ IF Unknown(op.msg) /\ op.msg \in data
     THEN op' = Abort /\ UNCHANGED <<data, blob>>
     ELSE /\ GoTo("insertMeta")
          /\ IF Unknown(op.msg)
             THEN /\ data' = data \cup {op.msg}
                  /\ blob' = [blob EXCEPT ![op.msg] = {}]
             ELSE UNCHANGED <<data, blob>>
  /\ UNCHANGED <<meta, done, locks, client, bounds>>

InsertMeta ==
  /\ op.at = "insertMeta"
  /\ meta' = meta \cup {op.msg}
  /\ GoTo("store")
  /\ UNCHANGED <<done, data, blob, locks, client, bounds>>

\* getFragmentsDataRowid finds nothing: the message is finished.
LateDuplicate ==
  /\ op.at = "store"
  /\ op.msg \notin data
  /\ Return
  /\ UNCHANGED <<tables, client, bounds>>

\* Slip: every fragment is taken for a new one.
NeverWritten(m, p) == FALSE

\* The byte at the fragment's offset is not zero any more.
Written(m, p) == p \in blob[m] /\ <<m, p>> \notin ZeroFirst

\* A duplicate of a message in progress: returns without dbUnlock.
Duplicate ==
  /\ op.at = "store"
  /\ op.msg \in data
  /\ Written(op.msg, op.part)
  /\ op' = Idle
  /\ UNCHANGED <<tables, locks, client, bounds>>

WriteBlob ==
  /\ op.at = "store"
  /\ op.msg \in data
  /\ ~Written(op.msg, op.part)
  /\ blob' = [blob EXCEPT ![op.msg] = @ \cup {op.part}]
  /\ GoTo("count")
  /\ UNCHANGED <<meta, done, data, locks, client, bounds>>

\* Slip: the message counts as complete one part too early.
OneIsMissing(m, n) == n + 1 >= NumParts[m]

\* Slip: or one part too late.
OneTooMany(m, n) == n > NumParts[m]

AllDone(m, n) == n = NumParts[m]

\* Slip: the data row is deleted before the client sees the message.
CountThenDelete ==
  /\ op.at = "count"
  /\ done' = [done EXCEPT ![op.msg] = @ + 1]
  /\ IF AllDone(op.msg, done[op.msg] + 1)
     THEN GoTo("show") /\ data' = data \ {op.msg} /\ UNCHANGED locks
     ELSE Return /\ UNCHANGED data
  /\ UNCHANGED <<meta, blob, client, bounds>>

\* updateFragmentedMetaDone, and the SELECT that asks for the last one.
Count ==
  /\ op.at = "count"
  /\ done' = [done EXCEPT ![op.msg] = @ + 1]
  /\ IF AllDone(op.msg, done[op.msg] + 1)
     THEN GoTo("show") /\ UNCHANGED locks
     ELSE Return
  /\ UNCHANGED <<meta, data, blob, client, bounds>>

\* messageReady: the client gets the message, with the database locked.
Show ==
  /\ op.at = "show"
  /\ shown' = [shown EXCEPT ![op.msg] = @ + 1]
  /\ cropped' = cropped \cup {m \in {op.msg} : blob[m] # Parts(m)}
  /\ GoTo("delete")
  /\ UNCHANGED <<tables, locks, bounds>>

\* The meta row stays, so that later duplicates are recognized.
Delete ==
  /\ op.at = "delete"
  /\ data' = data \ {op.msg}
  /\ Return
  /\ UNCHANGED <<meta, done, blob, client, bounds>>

-----------------------------------------------------------------------------
\* The process is killed, or has aborted, and is started again.
Crash ==
  /\ restarts < MaxRestarts
  /\ restarts' = restarts + 1
  /\ op' = Idle
  /\ locks' = 0
  /\ UNCHANGED <<tables, client, copies>>

-----------------------------------------------------------------------------
Handler ==
  \/ InsertData \/ InsertMeta
  \/ LateDuplicate \/ Duplicate \/ WriteBlob
  \/ Count \/ Show \/ Delete

Next ==
  \/ \E m \in Msgs : \E p \in Parts(m) : Arrive(m, p)
  \/ Handler
  \/ Crash

Spec == Init /\ [][Next]_vars

-----------------------------------------------------------------------------
(* Properties.                                                             *)

\* Every variable keeps its type; frags_done never passes frags_num (db.c:199).
TypeOK ==
  /\ meta \subseteq Msgs /\ data \subseteq Msgs
  /\ done \in [Msgs -> Nat]
  /\ \A m \in Msgs : done[m] <= NumParts[m]
  /\ blob \in [Msgs -> SUBSET Nat]
  /\ \A m \in Msgs : blob[m] \subseteq Parts(m)
  /\ op.at \in Labels /\ op.msg \in Msgs \cup {NoMsg} /\ op.part \in Nat
  /\ locks \in Nat
  /\ shown \in [Msgs -> Nat]

\* The client is never shown a message with a hole in it, whatever arrives
\* twice and wherever the process is killed (db.c:195-212).
Whole == cropped = {}

\* The client sees each message once: neither duplicates nor a crash between
\* showing the message and deleting its data row show it again (db.c:207-221).
Once == \A m \in Msgs : shown[m] <= 1

\* "In case fragmented_meta exists but fragmented_data doesn't, this message
\* is already finished" (db.c:138-139): such a message was shown, so that
\* dropping its fragments loses nothing.
FinishedIsShown == \A m \in meta \ data : shown[m] = 1

\* Unless the process is killed, frags_done counts the parts that were
\* written (db.c:187-192): nothing else tells when the message is complete.
CountExact ==
  restarts = 0 /\ op = Idle => \A m \in Msgs : done[m] = Cardinality(blob[m])

\* Unless the process is killed, a message all of whose fragments arrived has
\* been shown, as soon as the last of them is dealt with (README.md:8).
Recombined ==
  restarts = 0 /\ op = Idle =>
    \A m \in Msgs : (\A p \in Parts(m) : copies[m][p] > 0) => shown[m] = 1

\* Unless the process is killed between two statements, no INSERT breaks a
\* primary key (db.c:143-158).
NoAbort == restarts = 0 => op # Abort

\* Every statement and the client's callback run under the client's lock, and
\* it is given back on each way out (db.c:163, db.c:225) but one, the way of a
\* fragment that arrived before (db.c:185).
Locked ==
  /\ op.at \notin {"idle", "abort"} => locks > 0
  /\ op = Idle /\ (\A m \in Msgs : \A p \in Parts(m) : copies[m][p] <= 1) => locks = 0

\* The receiver, crashes and all, is an implementation of Reassembly.
Promise == INSTANCE Reassembly WITH have <- blob
Reassembles == Promise!Spec
==============================================================================
