--------------------------------- MODULE Cut ---------------------------------
(***************************************************************************)
(* The arithmetic of splitMessage (c:438-464): how many bytes of a message *)
(* of n bytes go into a fragment, and how many fragments there are.        *)
(*                                                                         *)
(* The cut has to know how long the markers will be before it knows how    *)
(* many fragments there will be.  It goes by an estimate that depends on   *)
(* the static variable markerMaxSizeEver (e, here), which initialize()     *)
(* sets only after it has cut the messages found in the database           *)
(* (c:210-211): those are cut with 0, all others with the size of the      *)
(* longest marker.                                                         *)
(***************************************************************************)
EXTENDS Marker

CONSTANT MaxLength        \* params.maxMessageLength

ASSUME MaxLengthAssumption == MaxLength \in Nat

CeilDiv(x, y) == (x + y - 1) \div y

\* Slip: fragments are taken to be filled by the message alone.
EstimateWithoutMarkers(n, e) == CeilDiv(n, MaxLength)

\* The "conservative estimate" of the number of fragments.
Estimate(n, e) == CeilDiv(n, MaxLength - e)

RoomForMarker(n, e) == MarkerMaxSizeBytes(Estimate(n, e), n)

Step(n, e) == MaxLength - RoomForMarker(n, e)

NumPartsOf(n, e) == CeilDiv(n, Step(n, e))

\* markerMaxSizeEver once initialize() has run: both arguments are INT_MAX.
SizeEver == MarkerMaxSizeBytes(2147483647, 2147483647)
==============================================================================
