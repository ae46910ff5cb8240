------------------------------- MODULE TestPeer -------------------------------
(***************************************************************************)
(* The regression test (test.sh): two test-peer processes, each between a  *)
(* client, which it reads commands from and writes events to, and a socket *)
(* that leads to the other one and plays the Tox network.  tox-defragmenter*)
(* runs in both.                                                           *)
(*                                                                         *)
(* A process runs a select loop, of which each handler is a step.  What    *)
(* the library does is abstracted to what the test sees: in this test no   *)
(* fragment is lost, receipts come back in order, and nothing times out.   *)
(* Standard input and output are files, always ready.  Both peers are      *)
(* given a database file: with none, main does not call initialize_api and *)
(* calls a NULL function.                                                  *)
(*                                                                         *)
(* References: t:n is line n of test-peer.c.                               *)
(***************************************************************************)
EXTENDS Integers, FiniteSets, Sequences, SequencesExt

CONSTANTS
  Connector,         \* the peer with argument C
  Listener,          \* the peer with argument L
  Input,             \* Input[p][k]: parts of p's k-th message; 1: it is short
  FragmentsAtATime,  \* argument 7
  SocketRoom,        \* packets that fit in the socket, each way
  ConnectsInGap      \* may C connect between the bind and the listen of L?

Peers == {Connector, Listener}
Other(p) == IF p = Connector THEN Listener ELSE Connector

ASSUME TestPeerAssumption ==
  /\ Connector # Listener
  /\ \A p \in Peers : Input[p] \in Seq(Nat \ {0})
  /\ FragmentsAtATime \in Nat \ {0}
  /\ SocketRoom \in Nat \ {0}
  /\ ConnectsInGap \in BOOLEAN

VARIABLES
  phase,   \* where in main each peer is
  ready,   \* the handlers that are still to run in this turn of loop3
  peer,    \* the static data of each peer
  out,     \* out[p]: the messages p has written to its client
  sock     \* sock[p]: packets on their way to p

vars == <<phase, ready, peer, out, sock>>

-----------------------------------------------------------------------------
(* Packets and static data                                                 *)

Message(id, k, i) == [kind |-> "M", id |-> id, msg |-> k, part |-> i]
Receipt(id)       == [kind |-> "R", id |-> id]
EndSignal(count)  == [kind |-> "E", count |-> count]

Zero(n) == [k \in 1 .. n |-> 0]

\* sent, confirmed and got count parts of messages, in the library: those
\* handed to the base, those whose receipt has come, and those received.
\* owner[id] is the message that was sent, or is a part of, under net id.
Start(p) ==
  [sawIfaceEOF |-> FALSE, sawNetEOF |-> FALSE, sawNetEndSignal |-> FALSE,
   netExpectMessages |-> 0, netReceivedMessages |-> 0,
   receiptsShort |-> {}, receiptsLong |-> {},
   msgIdIface |-> 0, msgIdNet |-> 0,
   ifaceOut |-> <<>>, netOut |-> <<>>,
   owner |-> <<>>,
   sent |-> Zero(Len(Input[p])), confirmed |-> Zero(Len(Input[p])),
   got |-> Zero(Len(Input[Other(p)]))]

Init ==
  /\ phase = [p \in Peers |-> "open"]
  /\ ready = [p \in Peers |-> {}]
  /\ peer = [p \in Peers |-> Start(p)]
  /\ out = [p \in Peers |-> <<>>]
  /\ sock = [p \in Peers |-> <<>>]

-----------------------------------------------------------------------------
(* The base Tox library, and what the defragmenter makes of it             *)

IsLong(p, k) == Input[p][k] > 1

\* base_friend_send_message
BaseSend(s, k, i) ==
  [s EXCEPT !.msgIdNet = @ + 1,
            !.owner = Append(@, k),
            !.netOut = Append(@, Message(s.msgIdNet + 1, k, i))]

\* The next n parts of message k.
SendParts(s, k, n) ==
  LET new == FoldLeft(LAMBDA t, j : BaseSend(t, k, s.sent[k] + j), s, [j \in 1 .. n |-> j])
  IN  [new EXCEPT !.sent[k] = @ + n]

Least(m, n) == IF m < n THEN m ELSE n

\* Slip: one part too many.
RoomForOneMore(p, s, k) ==
  Least(FragmentsAtATime + 1 - (s.sent[k] - s.confirmed[k]), Input[p][k] - s.sent[k])

\* As many parts of message k as may be in transit and are left.
Room(p, s, k) ==
  Least(FragmentsAtATime - (s.sent[k] - s.confirmed[k]), Input[p][k] - s.sent[k])

\* The client's receipt of a long message, as t:276 counts it: the numbers are
\* given from DEFRAG_RECEIPTS_LO + 1 on.
LongNo(p, k) == Cardinality({j \in 1 .. k : IsLong(p, j)})

\* front_friend_message
FrontMessage(s, k) ==
  [s EXCEPT !.ifaceOut = Append(@, Message(0, k, 0)),
            !.netReceivedMessages = @ + 1]

\* front_read_receipt
FrontReceiptShort(s, id) ==
  [s EXCEPT !.receiptsShort = @ \cup {id}, !.ifaceOut = Append(@, Receipt(id))]

FrontReceiptLong(s, no) ==
  [s EXCEPT !.receiptsLong = @ \cup {no}, !.ifaceOut = Append(@, Receipt(no))]

\* friend_read_receipt_cb
ReadReceipt(p, s, id) ==
  LET k == s.owner[id]
      t == [s EXCEPT !.confirmed[k] = @ + 1]
  IN  IF ~IsLong(p, k) THEN FrontReceiptShort(s, id)
      ELSE IF t.confirmed[k] < Input[p][k] THEN SendParts(t, k, Room(p, t, k))
      ELSE FrontReceiptLong(t, LongNo(p, k))

\* friend_message_cb
ReceivedMessage(p, s, k) ==
  LET t == [s EXCEPT !.got[k] = @ + 1]
  IN  IF t.got[k] = Input[Other(p)][k] THEN FrontMessage(t, k) ELSE t

-----------------------------------------------------------------------------
(* When to go on                                                           *)

\* Slip: the last index is not looked at.
ReceivedAllButLast(s) ==
  Cardinality({i \in s.receiptsShort : i < s.msgIdIface}) +
  Cardinality({i \in s.receiptsLong : i < s.msgIdIface}) = s.msgIdIface

\* Long messages are numbered from 1, and short ones have net ids: the index of
\* a short message that is sent after fragments may be past msgIdIface.
ReceivedAllReceipts(s) ==
  Cardinality({i \in s.receiptsShort : i <= s.msgIdIface}) +
  Cardinality({i \in s.receiptsLong : i <= s.msgIdIface}) = s.msgIdIface

IsNetRD(s) ==
  \/ ~s.sawNetEndSignal \/ ~s.sawNetEOF
  \/ s.netReceivedMessages < s.netExpectMessages
  \/ ~ReceivedAllReceipts(s)

\* Slips: a condition is forgotten.
ContinueWithoutMessages(s) ==
  \/ ~s.sawIfaceEOF \/ ~s.sawNetEndSignal
  \/ ~ReceivedAllReceipts(s)
  \/ s.ifaceOut # <<>> \/ s.netOut # <<>>

ContinueWithoutReceipts(s) ==
  \/ ~s.sawIfaceEOF \/ ~s.sawNetEndSignal
  \/ s.netReceivedMessages < s.netExpectMessages
  \/ s.ifaceOut # <<>> \/ s.netOut # <<>>

NeedContinue(s) ==
  \/ ~s.sawIfaceEOF \/ ~s.sawNetEndSignal
  \/ s.netReceivedMessages < s.netExpectMessages
  \/ ~ReceivedAllReceipts(s)
  \/ s.ifaceOut # <<>> \/ s.netOut # <<>>

-----------------------------------------------------------------------------
(* openSocket                                                              *)

Goes(p, from, to) == phase[p] = from /\ phase' = [phase EXCEPT ![p] = to]

Bind ==
  /\ Goes(Listener, "open", "bound")
  /\ UNCHANGED <<ready, peer, out, sock>>

Listen ==
  /\ Goes(Listener, "bound", "listening")
  /\ UNCHANGED <<ready, peer, out, sock>>

Accept ==
  /\ phase[Connector] \in {"connected", "select", "handle"}
  /\ Goes(Listener, "listening", "connected")
  /\ UNCHANGED <<ready, peer, out, sock>>

\* Without the socket's file the connector sleeps and tries again; any other
\* error, such as nobody listening, is fatal.
Connect ==
  /\ CASE phase[Listener] = "bound" /\ ConnectsInGap -> Goes(Connector, "open", "aborted")
       [] phase[Listener] = "listening"              -> Goes(Connector, "open", "connected")
       [] OTHER                                      -> FALSE
  /\ UNCHANGED <<ready, peer, out, sock>>

\* The parameters, the two initializing functions and the callbacks.
SetUp(p) ==
  /\ Goes(p, "connected", "select")
  /\ UNCHANGED <<ready, peer, out, sock>>

-----------------------------------------------------------------------------
(* loop3                                                                   *)

Handlers == <<"ifaceRD", "netRD", "ifaceWR", "netWR">>

Closed(p) == phase[p] \in {"done", "aborted"}

IsReady(p, h) ==
  LET s == peer[p]
  IN  CASE h = "ifaceRD" -> ~s.sawIfaceEOF
        [] h = "netRD"   -> IsNetRD(s) /\ (sock[p] # <<>> \/ Closed(Other(p)))
        [] h = "ifaceWR" -> s.ifaceOut # <<>>
        [] h = "netWR"   -> s.netOut # <<>> /\ (Len(sock[Other(p)]) < SocketRoom \/ Closed(Other(p)))

\* The process waits in select until something is ready.
Select(p) ==
  /\ Goes(p, "select", "handle")
  /\ ready' = [ready EXCEPT ![p] = {h \in ToSet(Handlers) : IsReady(p, h)}]
  /\ ready'[p] # {}
  /\ UNCHANGED <<peer, out, sock>>

\* The handlers run in the order of loop3.
Turn(p, h) ==
  /\ phase[p] = "handle"
  /\ ready[p] # {}
  /\ h = SelectSeq(Handlers, LAMBDA g : g \in ready[p])[1]
  /\ ready' = [ready EXCEPT ![p] = @ \ {h}]

Becomes(p, s) == peer' = [peer EXCEPT ![p] = s]

\* onIfaceRD: friend_send_message of the front, or the end signal.
OnIfaceRD(p) ==
  LET s == peer[p]
      k == s.msgIdIface + 1
  IN  /\ Turn(p, "ifaceRD")
      /\ IF k <= Len(Input[p])
         THEN Becomes(p, [SendParts(s, k, Room(p, s, k)) EXCEPT !.msgIdIface = k])
         ELSE Becomes(p, [s EXCEPT !.sawIfaceEOF = TRUE,
                                   !.netOut = Append(@, EndSignal(s.msgIdIface))])
      /\ UNCHANGED <<phase, out, sock>>

\* A message comes in: to the library, and a receipt back.
Answer(p, s, id, k) ==
  LET t == ReceivedMessage(p, s, k) IN [t EXCEPT !.netOut = Append(@, Receipt(id))]

\* onNetRD, with something in the socket
OnNetRD(p) ==
  LET s == peer[p]
      x == Head(sock[p])
  IN  /\ Turn(p, "netRD")
      /\ sock[p] # <<>>
      /\ Becomes(p, CASE x.kind = "M" -> Answer(p, s, x.id, x.msg)
                      [] x.kind = "R" -> ReadReceipt(p, s, x.id)
                      [] x.kind = "E" -> [s EXCEPT !.sawNetEndSignal = TRUE,
                                                   !.netExpectMessages = x.count])
      /\ sock' = [sock EXCEPT ![p] = Tail(@)]
      /\ UNCHANGED <<phase, out>>

\* onNetRD, at the end of file
OnNetEOF(p) ==
  /\ Turn(p, "netRD")
  /\ sock[p] = <<>>
  /\ IF peer[p].sawNetEndSignal
     THEN Becomes(p, [peer[p] EXCEPT !.sawNetEOF = TRUE]) /\ UNCHANGED phase
     ELSE phase' = [phase EXCEPT ![p] = "aborted"] /\ UNCHANGED peer
  /\ UNCHANGED <<out, sock>>

\* onIfaceWR
OnIfaceWR(p) ==
  LET x == Head(peer[p].ifaceOut)
  IN  /\ Turn(p, "ifaceWR")
      /\ Becomes(p, [peer[p] EXCEPT !.ifaceOut = Tail(@)])
      /\ out' = [out EXCEPT ![p] = IF x.kind = "M" THEN Append(@, x.msg) ELSE @]
      /\ UNCHANGED <<phase, sock>>

\* onNetWR; SIGPIPE when the other end is closed.
OnNetWR(p) ==
  /\ Turn(p, "netWR")
  /\ IF Closed(Other(p))
     THEN phase' = [phase EXCEPT ![p] = "aborted"] /\ UNCHANGED <<peer, sock>>
     ELSE /\ Becomes(p, [peer[p] EXCEPT !.netOut = Tail(@)])
          /\ sock' = [sock EXCEPT ![Other(p)] = Append(@, Head(peer[p].netOut))]
          /\ UNCHANGED phase
  /\ UNCHANGED out

\* while (needToContinue()); then main closes everything.
Again(p) ==
  /\ ready[p] = {}
  /\ Goes(p, "handle", IF NeedContinue(peer[p]) THEN "select" ELSE "done")
  /\ UNCHANGED <<ready, peer, out, sock>>

-----------------------------------------------------------------------------
Step(p) ==
  \/ p = Listener /\ (Bind \/ Listen \/ Accept)
  \/ p = Connector /\ Connect
  \/ SetUp(p)
  \/ Select(p)
  \/ OnIfaceRD(p)
  \/ OnNetRD(p)
  \/ OnNetEOF(p)
  \/ OnIfaceWR(p)
  \/ OnNetWR(p)
  \/ Again(p)

Next == \E p \in Peers : Step(p)

\* Each process is scheduled again and again.
Spec == Init /\ [][Next]_vars /\ \A p \in Peers : WF_vars(Step(p))

-----------------------------------------------------------------------------
(* Properties.                                                             *)

\* Every variable keeps its type, and no message has more parts in transit than
\* FragmentsAtATime allows.
TypeOK ==
  /\ phase \in [Peers -> {"open", "bound", "listening", "connected", "select", "handle",
                          "done", "aborted"}]
  /\ ready \in [Peers -> SUBSET ToSet(Handlers)]
  /\ \A p \in Peers :
       /\ Len(sock[p]) <= SocketRoom
       /\ peer[p].msgIdIface <= Len(Input[p])
       /\ Len(peer[p].owner) = peer[p].msgIdNet
       /\ \A k \in DOMAIN Input[p] :
            /\ peer[p].sent[k] <= Input[p][k]
            /\ peer[p].sent[k] - peer[p].confirmed[k] <= FragmentsAtATime

\* What the test compares (test.sh: compareMsgs): when a peer has ended, it has
\* written each message of the other to its client, once (t:386-396).
Exchanged ==
  \A p \in Peers : phase[p] = "done" =>
    /\ Len(out[p]) = Len(Input[Other(p)])
    /\ ToSet(out[p]) = DOMAIN Input[Other(p)]

\* No peer dies: none sees the end of file before the end signal (t:377), and
\* none writes to a socket that the other has closed (t:340).
NoPeerDies == \A p \in Peers : phase[p] # "aborted"

\* A peer ends when the conversation is over: nothing for it is on its way, in
\* the socket or in the other's queue (t:386-396).  Closing a socket with
\* unread data would be a reset to the other end.
QuietEnd ==
  \A p \in Peers : phase[p] = "done" => sock[p] = <<>> /\ peer[Other(p)].netOut = <<>>

\* Both peers end, as test.sh waits for them to: neither waits for the other in
\* select, or for a receipt it has had (t:219-228, t:410-431).
BothEnd == <>(\A p \in Peers : phase[p] = "done")
===============================================================================
