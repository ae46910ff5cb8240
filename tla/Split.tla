-------------------------------- MODULE Split --------------------------------
(***************************************************************************)
(* friend_send_message up to where the fragments are ready: a message that *)
(* could be taken for a fragment is refused, a short one is passed on, and *)
(* a long one is cut by splitMessage.  Sizes are real numbers of bytes; of *)
(* the bytes, those are kept that the marker codec looks at.               *)
(*                                                                         *)
(* References: c:n is line n of tox-defragmenter.c.                        *)
(***************************************************************************)
EXTENDS Cut

CONSTANTS
  Texts,            \* the client's messages, as [head, length]
  SizesEver,        \* the values of markerMaxSizeEver splitMessage may find
  MsgId             \* the digits of the message's id

ASSUME SplitAssumption ==
  /\ SizesEver \subseteq Nat
  /\ \A s \in SizesEver : s < MaxLength
  /\ \A t \in Texts : /\ t.length \in Nat
                      /\ t.head \in Seq(0 .. 255) /\ Len(t.head) <= t.length
  /\ MsgId \in Seq(Digits) /\ Len(MsgId) = SzTm

VARIABLES
  text, ever,       \* what friend_send_message is called with
  room,             \* bytes set aside for a marker (maxMarker)
  step,             \* bytes of the message in a fragment (maxLength, lowered)
  numParts,
  off, len,         \* bytes cut off so far, and left
  fragments,        \* as messages, with the number of bytes of data in each
  at

vars == <<text, ever, room, step, numParts, off, len, fragments, at>>

-----------------------------------------------------------------------------
Init ==
  /\ text \in Texts
  /\ ever \in SizesEver
  /\ room = 0 /\ step = 0 /\ numParts = 0 /\ off = 0 /\ len = 0
  /\ fragments = <<>>
  /\ at = "start"

\* friend_send_message: refuse or pass on.  The last byte that markerExists
\* looks at may lie behind the message, where there is anything.
Refuse ==
  /\ at = "start"
  /\ \E past \in Pasts : MarkerExists(text, past)
  /\ at' = "refused"
  /\ UNCHANGED <<text, ever, room, step, numParts, off, len, fragments>>

PassOn ==
  /\ at = "start"
  /\ \E past \in Pasts : ~MarkerExists(text, past)
  /\ text.length <= MaxLength
  /\ at' = "passed"
  /\ UNCHANGED <<text, ever, room, step, numParts, off, len, fragments>>

\* The head of splitMessage.
Measure ==
  /\ at = "start"
  /\ \E past \in Pasts : ~MarkerExists(text, past)
  /\ text.length > MaxLength
  /\ room' = RoomForMarker(text.length, ever)
  /\ step' = Step(text.length, ever)
  /\ numParts' = NumPartsOf(text.length, ever)
  /\ len' = text.length
  /\ at' = "cut"
  /\ UNCHANGED <<text, ever, off, fragments>>

\* Slip: the last fragment is as long as the others.
WholeStep(left) == step

PartLength(left) == IF left >= step THEN step ELSE left

\* Slip: parts are numbered from 0.
PrintPartFromZero ==
  MarkerPrint(MsgId, Len(fragments), numParts, off, text.length)

PrintPart == MarkerPrint(MsgId, Len(fragments) + 1, numParts, off, text.length)

\* One turn of the loop: the marker is printed into a buffer of room + 1
\* bytes, and the fragment goes into an array of numParts.
CutPart ==
  /\ at = "cut"
  /\ len > 0
  /\ fragments' = Append(fragments,
       [head |-> PrintPart, length |-> Len(PrintPart) + PartLength(len),
        data |-> PartLength(len)])
  /\ len' = len - PartLength(len)
  /\ off' = off + PartLength(len)
  /\ UNCHANGED <<text, ever, room, step, numParts, at>>

CutDone ==
  /\ at = "cut"
  /\ len = 0
  /\ at' = "done"
  /\ UNCHANGED <<text, ever, room, step, numParts, off, len, fragments>>

Next == Refuse \/ PassOn \/ Measure \/ CutPart \/ CutDone

Spec == Init /\ [][Next]_vars

-----------------------------------------------------------------------------
(* Properties.                                                             *)

\* Every variable keeps its type: the unsigned `len' does not pass zero (c:456).
TypeOK ==
  /\ {text.length, ever} \subseteq Nat
  /\ {room, step, numParts, off, len} \subseteq Nat
  /\ \A i \in DOMAIN fragments : fragments[i].data \in Nat
  /\ at \in {"start", "refused", "passed", "cut", "done"}

\* What processInFragment reads from the fragments (c:690-706) puts them back
\* into the message: each is recognized, has the part number of its place and
\* the offset where the data before it ends, and the last one ends the message.
\* Nor are there more of them than the array has room for (c:443, c:459).
Recombinable ==
  /\ Len(fragments) <= numParts
  /\ fragments # <<>> =>
       LET f == Last(fragments)
       IN  /\ MarkerExists(f, Other)
           /\ MarkerParse(f, Other) =
                [id |-> MsgId, partNo |-> Len(fragments), numParts |-> numParts,
                 off |-> (Len(fragments) - 1) * step, sz |-> text.length,
                 size |-> Len(f.head)]
  /\ at = "done" => /\ Len(fragments) = numParts
                    /\ (numParts - 1) * step + Last(fragments).data = text.length

\* What markerPrint prints never runs over the buffer it prints into, which
\* was measured before the number of fragments was known (c:439, c:450).
MarkerFits == \A i \in DOMAIN fragments : Len(fragments[i].head) <= room

\* Marker and data together are no longer than what the base library takes
\* for one message (c:452, c:344): a longer fragment is refused each time.
FragmentFits == \A i \in DOMAIN fragments : fragments[i].length <= MaxLength

\* A client's message is refused when it has the form of a fragment, which the
\* friend would take for one, and then only (c:340-342).  A message that stops
\* one byte short of the marker's end goes either way.
NearlyMarked(s) ==
  /\ s.length = Len(s.head)
  /\ IsMarked([head |-> Append(s.head, MarkerChar[SzMarkerChar]), length |-> s.length + 1])

MarkedIsRefused ==
  at # "start" =>
    \/ at = "refused" <=> IsMarked(text)
    \/ NearlyMarked(text)
==============================================================================
