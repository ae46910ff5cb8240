----------------------------- MODULE Messenger ------------------------------
(***************************************************************************)
(* What two tox-defragmenters, one at each end, promise their clients: a   *)
(* long message is shown at the other end as it was sent, once, and the    *)
(* sender's client hears of it at most once and not before that.           *)
(*                                                                         *)
(* One exception is part of the promise.  Statements are committed one by  *)
(* one and fragments are acknowledged one by one, so a receiver that is    *)
(* killed while it handles a fragment may never show the message although  *)
(* the sender goes on and hears of its arrival.                            *)
(***************************************************************************)
EXTENDS Integers, Sequences

CONSTANT Msgs             \* the long messages

VARIABLES
  sent,                   \* messages the sender's client has sent
  shown,                  \* shown[m]: what the receiver's client was shown for m
  told,                   \* told[m]: how often the sender's client heard of m
  killed                  \* was the receiver killed at work?

vars == <<sent, shown, told, killed>>

Init ==
  /\ sent = {}
  /\ shown = [m \in Msgs |-> <<>>]
  /\ told = [m \in Msgs |-> 0]
  /\ killed = FALSE

Send(m) ==
  /\ m \notin sent
  /\ sent' = sent \cup {m}
  /\ UNCHANGED <<shown, told, killed>>

Shows(m) == m \in sent /\ shown[m] = <<>> /\ shown' = [shown EXCEPT ![m] = <<m>>]

Show(m) == Shows(m) /\ UNCHANGED <<sent, told, killed>>

Kill ==
  /\ killed' = TRUE
  /\ UNCHANGED shown \/ \E m \in Msgs : Shows(m)
  /\ UNCHANGED <<sent, told>>

Tell(m) ==
  /\ m \in sent /\ told[m] = 0
  /\ shown[m] # <<>> \/ killed
  /\ told' = [told EXCEPT ![m] = 1]
  /\ UNCHANGED <<sent, shown, killed>>

Next == Kill \/ \E m \in Msgs : Send(m) \/ Show(m) \/ Tell(m)

Spec == Init /\ [][Next]_vars
=============================================================================
