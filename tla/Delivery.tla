------------------------------ MODULE Delivery ------------------------------
(***************************************************************************)
(* Both ends together: the sender of module Outbound, the fragments on     *)
(* their way with the offsets and types their markers and packets carry,   *)
(* and the receiver's rows, in bytes.                                      *)
(*                                                                         *)
(* The sender cuts a message when it is sent and again when it is loaded   *)
(* from the database, by a different estimate (module Cut), and resumes it *)
(* if the number of parts is the same.  The receiver goes by offsets.      *)
(*                                                                         *)
(* The receiver runs one handler per fragment.  It is given here by the    *)
(* trail of what its statements leave behind: the handler takes it to the  *)
(* end, and a receiver that is killed stops anywhere on it.  (Module       *)
(* Inbound has the handler step by step, without the bytes.)  The receipt  *)
(* of a fragment is owed when its handler has returned.  No byte of a      *)
(* message is NUL.                                                         *)
(***************************************************************************)
EXTENDS Outbound, Cut

CONSTANTS
  LengthOf,         \* LengthOf[m]: the bytes of m
  TypeOf,           \* TypeOf[m]: its TOX_MESSAGE_TYPE
  Normal,           \* TOX_MESSAGE_TYPE_NORMAL, which is 0
  MaxKills          \* bound: how often the receiver is killed

\* A message is cut only when it is too long (c:344), by a limit that leaves
\* room for the longest marker (c:795).
ASSUME DeliveryAssumption ==
  /\ MaxLength > SizeEver
  /\ \A m \in Msgs : /\ LengthOf[m] \in Nat /\ LengthOf[m] > MaxLength
                     /\ NumParts[m] = NumPartsOf(LengthOf[m], SizeEver)
                     /\ ReloadParts[m] = NumPartsOf(LengthOf[m], 0)
  /\ MaxKills \in Nat

VARIABLES
  fromDb,           \* messages in memory that were loaded from the database
  way,              \* fragments on their way
  rows,             \* rows[m]: what the receiver's tables have of m
  seen,             \* seen[m]: what its client was shown for m, and as what type
  kills

receiver == <<rows, seen, kills>>

RowsInit == [meta |-> FALSE, done |-> 0, data |-> FALSE, blob |-> {}]

DeliveryInit ==
  /\ Init
  /\ fromDb = {}
  /\ way = {}
  /\ rows = [m \in Msgs |-> RowsInit]
  /\ seen = [m \in Msgs |-> <<>>]
  /\ kills = 0

-----------------------------------------------------------------------------
(* From the sender onto the way.                                           *)

\* Slip: a message that is loaded is cut into fragments of another size.
StepOfLoaded(m) == IF m \in fromDb THEN Step(LengthOf[m], 0) - 1
                   ELSE Step(LengthOf[m], SizeEver)

StepOf(m) == Step(LengthOf[m], IF m \in fromDb THEN 0 ELSE SizeEver)

\* The first parts are sent before msg->type is set (c:359-369), and a message
\* from the database never gets one (c:602-605).
SentAs(m) == IF op.at = "first" \/ m \in fromDb THEN Normal ELSE TypeOf[m]

Piece(f) ==
  LET off == f.part * StepOf(f.msg)
  IN  [fragment |-> f, off |-> off,
       size |-> Min({StepOf(f.msg), LengthOf[f.msg] - off}),
       type |-> SentAs(f.msg)]

\* A step of the sender.  Only a fragment that was handled has a receipt;
\* after a crash of the sender nobody waits for the others'.
SenderStep ==
  /\ Next
  /\ op'.at # "down" => \A w \in way : w.fragment \notin wire \ wire'
  /\ way' = way \cup {Piece(f) : f \in wire' \ wire}
  /\ fromDb' = {m \in heap' : IF m \in heap THEN m \in fromDb ELSE op.at = "load"}
  /\ UNCHANGED receiver

-----------------------------------------------------------------------------
(* dbInsertInboundFragment                                                 *)

Bytes(blob) == UNION {e.off .. e.off + e.size - 1 : e \in blob}

\* Slip: a fragment of a message that has begun is taken for a duplicate.
KnownIfAny(blob, off) == blob # {}

\* Slip: no fragment is.
NeverKnown(blob, off) == FALSE

\* The byte at the fragment's offset is not zero any more.
Known(blob, off) == off \in Bytes(blob)

AllIn(m, done) == done = NumParts[m]

\* The rows of a message, and what its client has seen, after each statement
\* that has an effect.
Trail(w) ==
  LET m      == w.fragment.msg
      none   == [row |-> rows[m], seen |-> seen[m]]
      data   == IF none.row.meta THEN none
                ELSE [none EXCEPT !.row.data = TRUE, !.row.blob = {}]
      meta   == [data EXCEPT !.row.meta = TRUE]
      stored == [meta EXCEPT !.row.blob = @ \cup {[off |-> w.off, size |-> w.size]}]
      count  == [stored EXCEPT !.row.done = @ + 1]
      show   == [count EXCEPT !.seen = Append(@,
                   [whole |-> Bytes(count.row.blob) = 0 .. LengthOf[m] - 1, type |-> w.type])]
      delete == [show EXCEPT !.row.data = FALSE]
  IN  CASE rows[m].data /\ ~rows[m].meta -> <<none>>   \* the key exists: abort()
        [] (rows[m].meta /\ ~rows[m].data) \/ (rows[m].meta /\ Known(rows[m].blob, w.off))
             -> <<none, none>>
        [] OTHER -> IF AllIn(m, count.row.done)
                    THEN <<none, data, meta, stored, count, show, delete>>
                    ELSE <<none, data, meta, stored, count>>

LeavesBehind(w, state) ==
  /\ rows' = [rows EXCEPT ![w.fragment.msg] = state.row]
  /\ seen' = [seen EXCEPT ![w.fragment.msg] = state.seen]
  /\ way' = way \ {w}

Deliver(w) ==
  /\ Len(Trail(w)) > 1
  /\ LeavesBehind(w, Last(Trail(w)))
  /\ UNCHANGED <<vars, fromDb, kills>>

\* The receiver is killed, or aborts, and is started again.  There will be no
\* receipt for the fragment.
Die(w) ==
  /\ kills < MaxKills
  /\ kills' = kills + 1
  /\ \E i \in 1 .. Len(Trail(w)) : LeavesBehind(w, Trail(w)[i])
  /\ wire' = wire \ {w.fragment}
  /\ UNCHANGED <<structs, statics, db, op, online, nextId, acked, client, bounds, fromDb>>

-----------------------------------------------------------------------------
DeliveryNext ==
  \/ SenderStep
  \/ \E w \in way : Deliver(w) \/ Die(w)

deliveryVars == <<vars, fromDb, way, receiver>>

DeliverySpec == DeliveryInit /\ [][DeliveryNext]_deliveryVars

-----------------------------------------------------------------------------
(* Properties.                                                             *)

\* Every variable keeps its type, and frags_done does not pass frags_num
\* (db.c:199), also when the last part is handled twice around a kill.
DeliveryTypeOK ==
  /\ fromDb \subseteq heap
  /\ \A m \in Msgs :
       /\ rows[m].done \in 0 .. NumParts[m]
       /\ Bytes(rows[m].blob) \subseteq 0 .. LengthOf[m] - 1
       /\ seen[m] \in Seq([whole : BOOLEAN, type : {Normal, TypeOf[m]}])
  /\ \A w \in way : w.size > 0

\* What the sender has noted as confirmed, in its database too, and will not
\* send again (c:404-405, c:585-592), the receiver has: in its row or shown.
\* This is across crashes of the sender and kills of the receiver, whose rows
\* outlive it: what a kill may cost is the showing, and no byte.
ConfirmedIsThere ==
  \A m \in Msgs : \A i \in confirmed[m] \cup db[m].confirmed :
    \/ seen[m] # <<>>
    \/ \E e \in rows[m].blob :
         e.off = i * Step(LengthOf[m], SizeEver) \/ e.off = i * Step(LengthOf[m], 0)

\* The two ends together do what Messenger promises.
Promise == INSTANCE Messenger WITH
  sent   <- called,
  shown  <- [m \in Msgs |-> [i \in DOMAIN seen[m] |-> IF seen[m][i].whole THEN m ELSE NoMsg]],
  killed <- kills > 0

KeepsPromise == Promise!Spec

-----------------------------------------------------------------------------
(* What the documentation says, and the code refutes.                      *)

\* "tox-defragmenter recombines the fragments into the original message"
\* (README.md:8): what is shown has no hole in it.
Original == \A m \in Msgs : \A i \in DOMAIN seen[m] : seen[m][i].whole

\* "users expect their messages to be received in the same form they were
\* sent" (README.md:5): an action is shown as an action.
SameForm == \A m \in Msgs : \A i \in DOMAIN seen[m] : seen[m][i].type = TypeOf[m]
=============================================================================
