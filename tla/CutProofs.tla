------------------------------ MODULE CutProofs ------------------------------
(***************************************************************************)
(* The arithmetic of splitMessage (Cut), for every limit on the length of  *)
(* a Tox message that is above the size of the longest marker, which       *)
(* set_parameters asks for (c:795), and every length of the message.  The  *)
(* facts about the cutting of one message (SplitProofs) and about both     *)
(* ends together (DeliveryProofs) rest on these lemmas.                    *)
(***************************************************************************)
EXTENDS Cut, TLAPS

USE MaxLengthAssumption

-----------------------------------------------------------------------------
(* Numbers of digits.                                                      *)

LEMMA PowerValues ==
  /\ Power[1] = 1 /\ Power[2] = 10 /\ Power[3] = 100 /\ Power[4] = 1000
  /\ Power[5] = 10000 /\ Power[6] = 100000 /\ Power[7] = 1000000
  /\ Power[8] = 10000000 /\ Power[9] = 100000000 /\ Power[10] = 1000000000
BY DEF Power

LEMMA PowerGrows ==
  /\ \A d \in 1 .. 10 : Power[d] \in Nat /\ Power[d] > 0
  /\ \A d, e \in 1 .. 10 : d <= e => Power[d] <= Power[e]
<1>1. ASSUME NEW d \in 1 .. 10
      PROVE  d = 1 \/ d = 2 \/ d = 3 \/ d = 4 \/ d = 5 \/ d = 6 \/ d = 7 \/ d = 8 \/ d = 9 \/ d = 10
  OBVIOUS
<1>2. \A d, e \in 1 .. 10 : d <= e => Power[d] <= Power[e]
  BY <1>1, PowerValues
<1>3. ASSUME NEW d \in 1 .. 10
      PROVE  Power[d] \in Nat /\ Power[d] > 0
  <2>1. CASE d = 1
    BY <2>1, PowerValues
  <2>2. CASE d = 2
    BY <2>2, PowerValues
  <2>3. CASE d = 3
    BY <2>3, PowerValues
  <2>4. CASE d = 4
    BY <2>4, PowerValues
  <2>5. CASE d = 5
    BY <2>5, PowerValues
  <2>6. CASE d = 6
    BY <2>6, PowerValues
  <2>7. CASE d = 7
    BY <2>7, PowerValues
  <2>8. CASE d = 8
    BY <2>8, PowerValues
  <2>9. CASE d = 9
    BY <2>9, PowerValues
  <2>10. CASE d = 10
    BY <2>10, PowerValues
  <2> QED
    BY <1>1, <2>1, <2>2, <2>3, <2>4, <2>5, <2>6, <2>7, <2>8, <2>9, <2>10
<1> QED
  BY <1>2, <1>3

\* numDigits returns the number that its loop condition describes.
LEMMA NumDigitsProperty ==
  ASSUME NEW i \in Nat
  PROVE  /\ NumDigits(i) \in 1 .. 10
         /\ NumDigits(i) = 1 \/ i >= Power[NumDigits(i)]
         /\ NumDigits(i) = 10 \/ i < Power[NumDigits(i) + 1]
<1> DEFINE P(d) == (d = 1 \/ i >= Power[d]) /\ (d = 10 \/ i < Power[d + 1])
<1>1. \E d \in 1 .. 10 : P(d)
  <2>1. CASE i < 10
    BY <2>1, PowerValues
  <2>2. CASE i >= 10 /\ i < 100
    BY <2>2, PowerValues
  <2>3. CASE i >= 100 /\ i < 1000
    BY <2>3, PowerValues
  <2>4. CASE i >= 1000 /\ i < 10000
    BY <2>4, PowerValues
  <2>5. CASE i >= 10000 /\ i < 100000
    BY <2>5, PowerValues
  <2>6. CASE i >= 100000 /\ i < 1000000
    BY <2>6, PowerValues
  <2>7. CASE i >= 1000000 /\ i < 10000000
    BY <2>7, PowerValues
  <2>8. CASE i >= 10000000 /\ i < 100000000
    BY <2>8, PowerValues
  <2>9. CASE i >= 100000000 /\ i < 1000000000
    BY <2>9, PowerValues
  <2>10. CASE i >= 1000000000
    BY <2>10, PowerValues
  <2> QED
    BY <2>1, <2>2, <2>3, <2>4, <2>5, <2>6, <2>7, <2>8, <2>9, <2>10
<1>2. NumDigits(i) = CHOOSE d \in 1 .. 10 : P(d)
  BY DEF NumDigits, SzIntMax
<1> HIDE DEF P
<1>3. NumDigits(i) \in 1 .. 10 /\ P(NumDigits(i))
  BY <1>1, <1>2
<1> QED
  BY <1>3 DEF P

\* The larger number has as many digits, or more.
LEMMA NumDigitsMonotone ==
  ASSUME NEW i \in Nat, NEW j \in Nat, i <= j
  PROVE  NumDigits(i) <= NumDigits(j)
<1> DEFINE d == NumDigits(i)
           e == NumDigits(j)
<1>1. d \in 1 .. 10 /\ e \in 1 .. 10
  BY NumDigitsProperty
<1>2. SUFFICES ASSUME e < d PROVE FALSE
  BY <1>1
<1>3. i >= Power[d]
  BY <1>1, <1>2, NumDigitsProperty
<1>4. j < Power[e + 1]
  BY <1>1, <1>2, NumDigitsProperty
<1>5. Power[e + 1] <= Power[d] /\ Power[e + 1] \in Nat /\ Power[d] \in Nat
  <2>1. e + 1 \in 1 .. 10 /\ e + 1 <= d
    BY <1>1, <1>2
  <2> HIDE DEF d, e
  <2> QED
    BY <1>1, <2>1, PowerGrows
<1> HIDE DEF d, e
<1> QED
  BY <1>3, <1>4, <1>5

-----------------------------------------------------------------------------
(* Numbers of parts.                                                       *)

\* x divided by y, rounded up, is the least q such that y goes q times.
LEMMA CeilDivProperty ==
  ASSUME NEW x \in Nat, NEW y \in Nat, y > 0
  PROVE  /\ CeilDiv(x, y) \in Nat
         /\ x <= CeilDiv(x, y) * y
         /\ CeilDiv(x, y) * y < x + y
<1> DEFINE q == (x + y - 1) \div y
           z == x + y - 1
<1>1. z \in Nat /\ q = z \div y
  OBVIOUS
<1>2. q \in Nat /\ q * y <= z /\ z < q * y + y
  OBVIOUS
<1> QED
  BY <1>2 DEF CeilDiv

LEMMA Times ==
  ASSUME NEW a \in Nat, NEW b \in Nat, NEW c \in Nat
  PROVE  /\ a <= b => a * c <= b * c /\ c * a <= c * b
         /\ a * c < b * c => a < b
         /\ a * c \in Nat /\ (a + 1) * c = a * c + c /\ 0 * c = 0
OBVIOUS

\* A part begins before the end of a message only if it is counted.
LEMMA BeforeTheEnd ==
  ASSUME NEW x \in Nat, NEW y \in Nat, y > 0, NEW k \in Nat
  PROVE  /\ k * y < x => k < CeilDiv(x, y)
         /\ k * y >= x => k >= CeilDiv(x, y)
<1>1. CeilDiv(x, y) \in Nat /\ x <= CeilDiv(x, y) * y /\ CeilDiv(x, y) * y < x + y
  BY CeilDivProperty
<1> DEFINE q == CeilDiv(x, y)
<1> HIDE DEF q
<1>2. ASSUME k * y < x PROVE k < q
  <2>1. k * y < q * y
    BY <1>1, <1>2, Times DEF q
  <2> QED
    BY <1>1, <2>1, Times DEF q
<1>3. ASSUME k * y >= x PROVE k >= q
  <2>1. q * y < (k + 1) * y
    BY <1>1, <1>3, Times DEF q
  <2>2. q < k + 1
    BY <1>1, <2>1, Times DEF q
  <2> QED
    BY <1>1, <2>2 DEF q
<1> QED
  BY <1>2, <1>3 DEF q

\* Longer parts, fewer of them.
LEMMA LongerIsFewer ==
  ASSUME NEW x \in Nat, NEW y \in Nat, NEW z \in Nat, 0 < y, y <= z
  PROVE  CeilDiv(x, z) <= CeilDiv(x, y)
<1> DEFINE q == CeilDiv(x, y)
<1>1. q \in Nat /\ x <= q * y
  BY CeilDivProperty
<1> HIDE DEF q
<1>2. x <= q * z
  <2>1. q * y <= q * z /\ q * y \in Nat /\ q * z \in Nat
    BY <1>1, Times
  <2> QED
    BY <1>1, <2>1
<1>3. CeilDiv(x, z) \in Nat
  <2>1. z > 0
    OBVIOUS
  <2> QED
    BY <2>1, CeilDivProperty
<1>4. q >= CeilDiv(x, z)
  BY <1>1, <1>2, BeforeTheEnd
<1> QED
  BY <1>1, <1>3, <1>4 DEF q

-----------------------------------------------------------------------------
(* The room for a marker.                                                  *)

\* markerMaxSizeBytes, for any estimate and length, and the largest of them.
LEMMA MarkerSizes ==
  ASSUME NEW n \in Nat, NEW size \in Nat
  PROVE  /\ MarkerMaxSizeBytes(n, size) = 23 + 2 * NumDigits(n) + 2 * NumDigits(size)
         /\ MarkerMaxSizeBytes(n, size) \in Nat
         /\ MarkerMaxSizeBytes(n, size) <= SizeEver
         /\ SizeEver = 63
<1>1. NumDigits(n) \in 1 .. 10 /\ NumDigits(size) \in 1 .. 10
  BY NumDigitsProperty
<1>2. MarkerMaxSizeBytes(n, size) = 23 + 2 * NumDigits(n) + 2 * NumDigits(size)
  <2> DEFINE d == NumDigits(n)
             e == NumDigits(size)
  <2>1. MarkerMaxSizeBytes(n, size) = 3 + 13 + 1 + d + 1 + d + 1 + e + 1 + e + 3
    BY DEF MarkerMaxSizeBytes, SzMarkerChar, SzTm
  <2>2. d \in Nat /\ e \in Nat
    BY <1>1
  <2> HIDE DEF d, e
  <2>3. 3 + 13 + 1 + d + 1 + d + 1 + e + 1 + e + 3 = 23 + 2 * d + 2 * e
    BY <2>2
  <2> QED
    BY <2>1, <2>3 DEF d, e
<1>3. NumDigits(2147483647) = 10
  <2> DEFINE d == NumDigits(2147483647)
  <2>1. d \in 1 .. 10 /\ (d = 10 \/ 2147483647 < Power[d + 1])
    BY NumDigitsProperty
  <2> HIDE DEF d
  <2>2. d # 10 => d + 1 \in 1 .. 10 /\ d + 1 <= 10 /\ 10 \in 1 .. 10
    BY <2>1
  <2>3. d # 10 => Power[d + 1] <= Power[10] /\ Power[d + 1] \in Nat
    BY <2>2, PowerGrows
  <2>4. d = 10
    BY <2>1, <2>3, PowerValues
  <2> QED
    BY <2>4 DEF d
<1>4. SizeEver = 63
  BY <1>3 DEF SizeEver, MarkerMaxSizeBytes, SzMarkerChar, SzTm
<1> DEFINE d == NumDigits(n)
           e == NumDigits(size)
<1>5. 23 + 2 * d + 2 * e \in Nat /\ 23 + 2 * d + 2 * e <= 63
  <2>1. d \in 1 .. 10 /\ e \in 1 .. 10
    BY <1>1
  <2> HIDE DEF d, e
  <2> QED
    BY <2>1
<1> QED
  BY <1>2, <1>4, <1>5

(***************************************************************************)
(* The "conservative estimate" is one: with at least a byte of the message *)
(* in each fragment there are no more fragments than were estimated, and   *)
(* so the room is enough for every marker.                                 *)
(***************************************************************************)
LEMMA CutSizes ==
  ASSUME MaxLength > SizeEver, NEW n \in Nat, n > 0
  PROVE  /\ RoomForMarker(n, SizeEver) \in Nat
         /\ Step(n, SizeEver) \in Nat /\ Step(n, SizeEver) > 0
         /\ Step(n, SizeEver) + RoomForMarker(n, SizeEver) = MaxLength
         /\ Estimate(n, SizeEver) \in Nat
         /\ RoomForMarker(n, SizeEver) =
              23 + 2 * NumDigits(Estimate(n, SizeEver)) + 2 * NumDigits(n)
         /\ NumPartsOf(n, SizeEver) \in Nat /\ NumPartsOf(n, SizeEver) > 0
         /\ NumPartsOf(n, SizeEver) <= Estimate(n, SizeEver)
<1>1. SizeEver = 63 /\ MaxLength \in Nat
  BY MarkerSizes
<1> DEFINE y == MaxLength - SizeEver
           e == Estimate(n, SizeEver)
           rm == RoomForMarker(n, SizeEver)
           st == Step(n, SizeEver)
<1>2. y \in Nat /\ y > 0
  BY <1>1
<1>3. e = CeilDiv(n, y)
  BY DEF Estimate
<1>4. e \in Nat
  <2> HIDE DEF y, e
  <2> QED
    BY <1>2, <1>3, CeilDivProperty
<1>5. rm = MarkerMaxSizeBytes(e, n)
  BY DEF RoomForMarker
<1>6. rm = 23 + 2 * NumDigits(e) + 2 * NumDigits(n) /\ rm \in Nat /\ rm <= SizeEver
  <2> HIDE DEF rm, e
  <2> QED
    BY <1>4, <1>5, MarkerSizes
<1>7. st = MaxLength - rm
  BY DEF Step
<1>8. st \in Nat /\ st >= y /\ st > 0 /\ st + rm = MaxLength
  <2> HIDE DEF rm, st
  <2> QED
    BY <1>1, <1>6, <1>7
<1>9. NumPartsOf(n, SizeEver) = CeilDiv(n, st)
  BY DEF NumPartsOf
<1> HIDE DEF y, e, rm, st
<1>10. CeilDiv(n, st) \in Nat /\ CeilDiv(n, st) <= e
  BY <1>2, <1>3, <1>8, CeilDivProperty, LongerIsFewer
<1>11. CeilDiv(n, st) > 0
  <2>1. 0 * st < n
    BY <1>8
  <2> QED
    BY <1>8, <2>1, BeforeTheEnd
<1> QED
  BY <1>4, <1>6, <1>8, <1>9, <1>10, <1>11 DEF e, rm, st
==============================================================================
