----------------------------- MODULE Reassembly -----------------------------
(***************************************************************************)
(* What the receiving half of tox-defragmenter promises its client: the    *)
(* parts of a message are collected in any order, and the message is shown *)
(* once, whole.  Module Inbound implements it.                             *)
(***************************************************************************)
EXTENDS Integers

CONSTANTS
  Msgs,             \* the long messages that friends send
  NumParts          \* NumParts[m]: the fragments m comes in

VARIABLES
  have,             \* have[m]: the parts of m collected so far
  shown             \* shown[m]: how often m was handed to the client

Parts(m) == 1 .. NumParts[m]

Init ==
  /\ have = [m \in Msgs |-> {}]
  /\ shown = [m \in Msgs |-> 0]

Take(m, p) ==
  /\ have' = [have EXCEPT ![m] = @ \cup {p}]
  /\ UNCHANGED shown

Show(m) ==
  /\ have[m] = Parts(m)
  /\ shown[m] = 0
  /\ shown' = [shown EXCEPT ![m] = 1]
  /\ UNCHANGED have

Next == \E m \in Msgs : Show(m) \/ (\E p \in Parts(m) : Take(m, p))

Spec == Init /\ [][Next]_<<have, shown>>
=============================================================================
