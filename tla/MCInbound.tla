------------------------------ MODULE MCInbound ------------------------------
(* Small instances of Inbound for TLC.                                       *)
EXTENDS Inbound, TLC

CONSTANTS a, b       \* messages

ThreeAndTwo == (a :> 3 @@ b :> 2)
Never       == {}
==============================================================================
