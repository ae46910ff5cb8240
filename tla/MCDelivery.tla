----------------------------- MODULE MCDelivery ------------------------------
(* Small instances of Delivery for TLC: one message, with the sizes of the   *)
(* repository's own test (test.sh: at most 75 bytes in a Tox message).       *)
EXTENDS Delivery

CONSTANTS a, f, action

JustA    == (a :> f)
Bytes100 == (a :> 100)    \* 3 parts of 44 bytes, however it is cut
Bytes120 == (a :> 120)    \* 3 parts of 42 bytes when sent, of 44 when loaded
Three    == (a :> 3)
Action   == (a :> action)
==============================================================================
