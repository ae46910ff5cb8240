------------------------------ MODULE MCOutbound ------------------------------
(* Small instances of Outbound for TLC.                                      *)
EXTENDS Outbound

CONSTANTS a, b,        \* messages
          f, g         \* friends

TwoFriends  == (a :> f @@ b :> g)
OneFriend   == (a :> f @@ b :> f)
JustA       == (a :> f)

ThreeAndTwo == (a :> 3 @@ b :> 2)
TwoAndTwo   == (a :> 2 @@ b :> 2)
FourForA    == (a :> 4)
ThreeForA   == (a :> 3)
TwoForA     == (a :> 2)
===============================================================================
