----------------------------- MODULE SplitProofs -----------------------------
(***************************************************************************)
(* What splitMessage makes of a message of any length, for every limit on  *)
(* the length of a Tox message that is above the size of the longest       *)
(* marker, which set_parameters asks for (c:795).  The sizes of markers    *)
(* and the numbers of parts need not be enumerated for it, only compared.  *)
(*                                                                         *)
(* The marker codec comes first: where each byte of a printed marker is,   *)
(* what markerParseFields accepts, and that parsing undoes printing.  Its  *)
(* fields have 10 digits at most, so that nothing is proved by induction.  *)
(***************************************************************************)
EXTENDS Split, CutProofs

USE MaxLengthAssumption

-----------------------------------------------------------------------------
(* Markers.                                                                *)

LEMMA LenConcat ==
  ASSUME NEW p \in Seq(Int), NEW q \in Seq(Int), NEW r \in Seq(Int)
  PROVE  p \o q \o r \in Seq(Int) /\ Len(p \o q \o r) = Len(p) + Len(q) + Len(r)
OBVIOUS

LEMMA SeqOfMore ==
  ASSUME NEW S, NEW T, S \subseteq T, NEW s \in Seq(S)
  PROVE  s \in Seq(T)
<1>1. Len(s) \in Nat /\ s \in [1 .. Len(s) -> S]
  OBVIOUS
<1>2. s \in [1 .. Len(s) -> T]
  BY <1>1
<1> QED
  BY <1>1, <1>2

\* What a sequence is made of.
LEMMA Bytes ==
  ASSUME NEW S, NEW s \in Seq(S), NEW k \in 1 .. Len(s)
  PROVE  s[k] \in S
<1>1. s \in [1 .. Len(s) -> S]
  OBVIOUS
<1> QED
  BY <1>1

\* The id is 13 digits.
LEMMA MsgIdBytes ==
  MsgId \in Seq(Int) /\ Len(MsgId) = 13 /\ \A k \in 1 .. 13 : MsgId[k] \in Digits
<1>1. MsgId \in Seq(Digits) /\ Len(MsgId) = 13
  BY SplitAssumption DEF SzTm
<1>2. Digits \subseteq Int
  BY DEF Digits, Zero
<1> QED
  BY <1>1, <1>2, SeqOfMore, Bytes

\* A number is printed in as many bytes as numDigits says.
LEMMA DecimalLength ==
  ASSUME NEW i \in Nat
  PROVE  Decimal(i) \in Seq(Int) /\ Len(Decimal(i)) = NumDigits(i)
<1> DEFINE n == NumDigits(i)
<1>1. n \in 1 .. 10 /\ n \in Nat
  BY NumDigitsProperty
<1>2. ASSUME NEW k \in 1 .. n
      PROVE  Zero + ((i \div Power[n - k + 1]) % 10) \in Int
  <2> DEFINE d == Power[n - k + 1]
  <2>1. n - k + 1 \in 1 .. 10
    <3> HIDE DEF n
    <3> QED
      BY <1>1
  <2>2. d \in Nat /\ d > 0
    BY <2>1, PowerGrows
  <2> HIDE DEF d
  <2>3. i \div d \in Int
    BY <2>2
  <2>4. (i \div d) % 10 \in Int
    BY <2>3
  <2> QED
    BY <2>4 DEF Zero, d
<1>3. Decimal(i) = [k \in 1 .. n |-> Zero + ((i \div Power[n - k + 1]) % 10)]
  BY DEF Decimal
<1> HIDE DEF n
<1>4. Decimal(i) \in [1 .. n -> Int]
  BY <1>2, <1>3
<1>5. Decimal(i) \in Seq(Int) /\ Len(Decimal(i)) = n
  BY <1>1, <1>4
<1> QED
  BY <1>5 DEF n

\* The size of a printed marker.
LEMMA MarkerLength ==
  ASSUME NEW a \in Nat, NEW b \in Nat, NEW c \in Nat, NEW d \in Nat
  PROVE  /\ MarkerPrint(MsgId, a, b, c, d) \in Seq(Int)
         /\ Len(MarkerPrint(MsgId, a, b, c, d)) =
              23 + NumDigits(a) + NumDigits(b) + NumDigits(c) + NumDigits(d)
<1> DEFINE char == MarkerChar
           bar == <<Bar>>
<1>1. char \in Seq(Int) /\ bar \in Seq(Int)
  BY DEF MarkerChar, Bar
<1>0. Len(char) = 3 /\ Len(bar) = 1
  BY DEF MarkerChar, Bar
<1>2. MsgId \in Seq(Int) /\ Len(MsgId) = 13
  BY MsgIdBytes
<1>3. \A i \in Nat : Decimal(i) \in Seq(Int) /\ Len(Decimal(i)) = NumDigits(i)
  BY DecimalLength
<1>4. /\ NumDigits(a) \in Nat /\ NumDigits(b) \in Nat
      /\ NumDigits(c) \in Nat /\ NumDigits(d) \in Nat
  BY NumDigitsProperty
<1> DEFINE s1 == char \o MsgId \o bar
           s2 == s1 \o Decimal(a) \o bar
           s3 == s2 \o Decimal(b) \o bar
           s4 == s3 \o Decimal(c) \o bar
<1>5. MarkerPrint(MsgId, a, b, c, d) = s4 \o Decimal(d) \o char
  BY DEF MarkerPrint
<1> HIDE DEF char, bar
<1> DEFINE s5 == s4 \o Decimal(d) \o char
<1>6. s1 \in Seq(Int) /\ Len(s1) = Len(char) + Len(MsgId) + Len(bar)
  BY <1>1, <1>2, LenConcat, Zenon
<1> HIDE DEF s1
<1>7. Len(s1) = 17
  BY <1>0, <1>2, <1>6
<1>8. s2 \in Seq(Int) /\ Len(s2) = Len(s1) + Len(Decimal(a)) + Len(bar)
  BY <1>1, <1>3, <1>6, LenConcat, Zenon
<1> HIDE DEF s2
<1>9. Len(s2) = 18 + NumDigits(a)
  <2>1. Len(s2) = Len(s1) + NumDigits(a) + Len(bar)
    BY <1>3, <1>8
  <2> QED
    BY <1>0, <1>4, <1>7, <2>1
<1>10. s3 \in Seq(Int) /\ Len(s3) = Len(s2) + Len(Decimal(b)) + Len(bar)
  BY <1>1, <1>3, <1>8, LenConcat, Zenon
<1> HIDE DEF s3
<1>11. Len(s3) = 19 + NumDigits(a) + NumDigits(b)
  <2>1. Len(s3) = Len(s2) + NumDigits(b) + Len(bar)
    BY <1>3, <1>10
  <2>2. Len(s3) = (18 + NumDigits(a)) + NumDigits(b) + 1
    BY <1>0, <1>9, <2>1, Zenon
  <2> QED
    BY <1>4, <2>2
<1>12. s4 \in Seq(Int) /\ Len(s4) = Len(s3) + Len(Decimal(c)) + Len(bar)
  BY <1>1, <1>3, <1>10, LenConcat, Zenon
<1> HIDE DEF s4
<1>13. Len(s4) = 20 + NumDigits(a) + NumDigits(b) + NumDigits(c)
  <2>1. Len(s4) = Len(s3) + NumDigits(c) + Len(bar)
    BY <1>3, <1>12
  <2>2. Len(s4) = (19 + NumDigits(a) + NumDigits(b)) + NumDigits(c) + 1
    BY <1>0, <1>11, <2>1, Zenon
  <2> QED
    BY <1>4, <2>2
<1>14. s5 \in Seq(Int) /\ Len(s5) = Len(s4) + Len(Decimal(d)) + Len(char)
  BY <1>1, <1>3, <1>12, LenConcat, Zenon
<1> HIDE DEF s5
<1>15. Len(s5) = 23 + NumDigits(a) + NumDigits(b) + NumDigits(c) + NumDigits(d)
  <2>1. Len(s5) = Len(s4) + NumDigits(d) + Len(char)
    BY <1>3, <1>14
  <2>2. Len(s5) = (20 + NumDigits(a) + NumDigits(b) + NumDigits(c)) + NumDigits(d) + 3
    BY <1>0, <1>13, <2>1, Zenon
  <2> QED
    BY <1>4, <2>2
<1> QED
  BY <1>5, <1>14, <1>15 DEF s5

LEMMA AnyPrinted ==
  ASSUME NEW p, NEW a \in Nat, NEW b \in Nat, NEW c \in Nat, NEW d \in Nat,
         p = MarkerPrint(MsgId, a, b, c, d)
  PROVE  /\ p \in Seq(Int)
         /\ Len(p) = 23 + NumDigits(a) + NumDigits(b) + NumDigits(c) + NumDigits(d)
<1> DEFINE m == MarkerPrint(MsgId, a, b, c, d)
<1>1. m \in Seq(Int)
  BY MarkerLength
<1>2. Len(m) = 23 + NumDigits(a) + NumDigits(b) + NumDigits(c) + NumDigits(d)
  BY MarkerLength
<1>3. p = m
  OBVIOUS
<1> HIDE DEF m
<1> QED
  BY <1>1, <1>2, <1>3

-----------------------------------------------------------------------------
(* A number is the sum of its digits.                                      *)

\* The digit that stands for Power[j].
Digit(x, j) == (x \div Power[j]) % 10

LEMMA LastDigit ==
  ASSUME NEW x \in Nat
  PROVE  x = 10 * (x \div 10) + (x % 10) /\ x \div 10 \in Nat /\ x % 10 \in 0 .. 9
OBVIOUS

LEMMA Shifted ==
  ASSUME NEW x \in Nat
  PROVE  /\ x \div 1 = x
         /\ x \div 10 \in Nat /\ (x \div 10) \div 10 = x \div 100
         /\ x \div 100 \in Nat /\ (x \div 100) \div 10 = x \div 1000
         /\ x \div 1000 \in Nat /\ (x \div 1000) \div 10 = x \div 10000
         /\ x \div 10000 \in Nat /\ (x \div 10000) \div 10 = x \div 100000
         /\ x \div 100000 \in Nat /\ (x \div 100000) \div 10 = x \div 1000000
         /\ x \div 1000000 \in Nat /\ (x \div 1000000) \div 10 = x \div 10000000
         /\ x \div 10000000 \in Nat /\ (x \div 10000000) \div 10 = x \div 100000000
         /\ x \div 100000000 \in Nat /\ (x \div 100000000) \div 10 = x \div 1000000000
         /\ x \div 1000000000 \in Nat /\ (x \div 1000000000) \div 10 = x \div 10000000000
OBVIOUS

LEMMA DigitValues ==
  ASSUME NEW x \in Nat
  PROVE  /\ \A j \in 1 .. 10 : Digit(x, j) \in 0 .. 9
         /\ x < 10 * Power[10] =>
              x = Power[1] * Digit(x, 1) + Power[2] * Digit(x, 2) + Power[3] * Digit(x, 3) + Power[4] * Digit(x, 4) + Power[5] * Digit(x, 5)
                    + Power[6] * Digit(x, 6) + Power[7] * Digit(x, 7) + Power[8] * Digit(x, 8) + Power[9] * Digit(x, 9) + Power[10] * Digit(x, 10)
         /\ \A j \in 1 .. 10 : x < Power[j] => Digit(x, j) = 0
<1> DEFINE q1 == x \div 10
           q2 == x \div 100
           q3 == x \div 1000
           q4 == x \div 10000
           q5 == x \div 100000
           q6 == x \div 1000000
           q7 == x \div 10000000
           q8 == x \div 100000000
           q9 == x \div 1000000000
           q10 == x \div 10000000000
<1>1. /\ q1 \in Nat /\ x \div 1 = x /\ x \div 10 = q1
      /\ q2 \in Nat /\ q1 \div 10 = q2
      /\ q3 \in Nat /\ q2 \div 10 = q3
      /\ q4 \in Nat /\ q3 \div 10 = q4
      /\ q5 \in Nat /\ q4 \div 10 = q5
      /\ q6 \in Nat /\ q5 \div 10 = q6
      /\ q7 \in Nat /\ q6 \div 10 = q7
      /\ q8 \in Nat /\ q7 \div 10 = q8
      /\ q9 \in Nat /\ q8 \div 10 = q9
      /\ q10 \in Nat /\ q9 \div 10 = q10
  BY Shifted
<1>2. /\ Digit(x, 1) = x % 10
      /\ Digit(x, 2) = q1 % 10
      /\ Digit(x, 3) = q2 % 10
      /\ Digit(x, 4) = q3 % 10
      /\ Digit(x, 5) = q4 % 10
      /\ Digit(x, 6) = q5 % 10
      /\ Digit(x, 7) = q6 % 10
      /\ Digit(x, 8) = q7 % 10
      /\ Digit(x, 9) = q8 % 10
      /\ Digit(x, 10) = q9 % 10
  BY <1>1, PowerValues DEF Digit
<1>3. x < 10 * Power[10] => q10 = 0
  BY PowerValues
<1>4. /\ x < Power[2] => q1 = 0
      /\ x < Power[3] => q2 = 0
      /\ x < Power[4] => q3 = 0
      /\ x < Power[5] => q4 = 0
      /\ x < Power[6] => q5 = 0
      /\ x < Power[7] => q6 = 0
      /\ x < Power[8] => q7 = 0
      /\ x < Power[9] => q8 = 0
      /\ x < Power[10] => q9 = 0
  BY PowerValues
<1> HIDE DEF q1, q2, q3, q4, q5, q6, q7, q8, q9, q10
<1>5. /\ x = 10 * q1 + (x % 10) /\ x % 10 \in 0 .. 9
      /\ q1 = 10 * q2 + (q1 % 10) /\ q1 % 10 \in 0 .. 9
      /\ q2 = 10 * q3 + (q2 % 10) /\ q2 % 10 \in 0 .. 9
      /\ q3 = 10 * q4 + (q3 % 10) /\ q3 % 10 \in 0 .. 9
      /\ q4 = 10 * q5 + (q4 % 10) /\ q4 % 10 \in 0 .. 9
      /\ q5 = 10 * q6 + (q5 % 10) /\ q5 % 10 \in 0 .. 9
      /\ q6 = 10 * q7 + (q6 % 10) /\ q6 % 10 \in 0 .. 9
      /\ q7 = 10 * q8 + (q7 % 10) /\ q7 % 10 \in 0 .. 9
      /\ q8 = 10 * q9 + (q8 % 10) /\ q8 % 10 \in 0 .. 9
      /\ q9 = 10 * q10 + (q9 % 10) /\ q9 % 10 \in 0 .. 9
  BY <1>1, LastDigit
<1>6. ASSUME NEW j \in 1 .. 10
      PROVE  j = 1 \/ j = 2 \/ j = 3 \/ j = 4 \/ j = 5 \/ j = 6 \/ j = 7 \/ j = 8 \/ j = 9 \/ j = 10
  OBVIOUS
<1>7. \A j \in 1 .. 10 : Digit(x, j) \in 0 .. 9
  BY <1>2, <1>5, <1>6
<1>8. ASSUME x < 10 * Power[10]
      PROVE  x = Power[1] * Digit(x, 1) + Power[2] * Digit(x, 2) + Power[3] * Digit(x, 3) + Power[4] * Digit(x, 4) + Power[5] * Digit(x, 5)
                   + Power[6] * Digit(x, 6) + Power[7] * Digit(x, 7) + Power[8] * Digit(x, 8) + Power[9] * Digit(x, 9) + Power[10] * Digit(x, 10)
  <2> DEFINE e0 == x % 10
             e1 == q1 % 10
             e2 == q2 % 10
             e3 == q3 % 10
             e4 == q4 % 10
             e5 == q5 % 10
             e6 == q6 % 10
             e7 == q7 % 10
             e8 == q8 % 10
             e9 == q9 % 10
  <2>1. /\ x = 10 * q1 + e0 /\ e0 \in Nat
        /\ q1 = 10 * q2 + e1 /\ e1 \in Nat /\ q1 \in Nat
        /\ q2 = 10 * q3 + e2 /\ e2 \in Nat /\ q2 \in Nat
        /\ q3 = 10 * q4 + e3 /\ e3 \in Nat /\ q3 \in Nat
        /\ q4 = 10 * q5 + e4 /\ e4 \in Nat /\ q4 \in Nat
        /\ q5 = 10 * q6 + e5 /\ e5 \in Nat /\ q5 \in Nat
        /\ q6 = 10 * q7 + e6 /\ e6 \in Nat /\ q6 \in Nat
        /\ q7 = 10 * q8 + e7 /\ e7 \in Nat /\ q7 \in Nat
        /\ q8 = 10 * q9 + e8 /\ e8 \in Nat /\ q8 \in Nat
        /\ q9 = 10 * q10 + e9 /\ e9 \in Nat /\ q9 \in Nat
    BY <1>1, <1>5
  <2>2. q10 = 0
    BY <1>3, <1>8
  <2> HIDE DEF e0, e1, e2, e3, e4, e5, e6, e7, e8, e9
  <2>3. x = 1 * e0 + 10 * e1 + 100 * e2 + 1000 * e3 + 10000 * e4
              + 100000 * e5 + 1000000 * e6 + 10000000 * e7 + 100000000 * e8 + 1000000000 * e9
    BY <2>1, <2>2
  <2>4. Digit(x, 1) = e0 /\ Digit(x, 2) = e1 /\ Digit(x, 3) = e2 /\ Digit(x, 4) = e3 /\ Digit(x, 5) = e4
        /\ Digit(x, 6) = e5 /\ Digit(x, 7) = e6 /\ Digit(x, 8) = e7 /\ Digit(x, 9) = e8 /\ Digit(x, 10) = e9
    BY <1>2 DEF e0, e1, e2, e3, e4, e5, e6, e7, e8, e9
  <2> QED
    BY <2>3, <2>4, PowerValues
<1>9. ASSUME NEW j \in 1 .. 10, x < Power[j]
      PROVE  Digit(x, j) = 0
  <2>1. j = 1 => x < 1
    BY <1>9, PowerValues
  <2>2. \A q : q = 0 => q % 10 = 0
    OBVIOUS
  <2> QED
    BY <1>2, <1>4, <1>6, <1>9, <2>1, <2>2
<1> QED
  BY <1>7, <1>8, <1>9

\* strtoul of what printf has printed.
LEMMA ParsesBack ==
  ASSUME NEW s, NEW o \in Nat, NEW x \in Nat, x < 10 * Power[10],
         \A k \in 1 .. NumDigits(x) : s.head[o + k] = Decimal(x)[k]
  PROVE  ParseUInt32(s, [off |-> o, size |-> NumDigits(x)]) = x
<1> DEFINE n == NumDigits(x)
           field == [off |-> o, size |-> n]
           Worth(k) == IF k > field.size THEN 0
                       ELSE (s.head[field.off + k] - Zero) * Power[field.size - k + 1]
<1>1. n \in 1 .. 10 /\ (n = 10 \/ x < Power[n + 1])
  BY NumDigitsProperty
<1>2. ASSUME NEW k \in 1 .. n
      PROVE  Worth(k) = Power[n - k + 1] * Digit(x, n - k + 1)
  <2>1. s.head[o + k] = Zero + Digit(x, n - k + 1)
    BY <1>2 DEF Decimal, Digit
  <2>2. n - k + 1 \in 1 .. 10 /\ ~(k > n)
    <3> HIDE DEF n
    <3> QED
      BY <1>1
  <2>3. Digit(x, n - k + 1) \in 0 .. 9 /\ Power[n - k + 1] \in Nat
    BY <2>2, DigitValues, PowerGrows
  <2>4. Worth(k) = (s.head[o + k] - Zero) * Power[n - k + 1]
    BY <2>2
  <2> DEFINE d == Digit(x, n - k + 1)
             q == Power[n - k + 1]
             h == s.head[o + k] - Zero
  <2>5. d \in Nat /\ q \in Nat
    BY <2>3
  <2>6. h = d
    <3> DEFINE g == s.head[o + k]
    <3>1. g = Zero + d
      BY <2>1
    <3> HIDE DEF d, g
    <3>2. g - Zero = d
      BY <2>5, <3>1 DEF Zero
    <3> QED
      BY <3>2 DEF g
  <2>7. Worth(k) = h * q
    BY <2>4
  <2> HIDE DEF d, q, h, Worth
  <2>8. Worth(k) = q * d
    BY <2>5, <2>6, <2>7
  <2> QED
    BY <2>8 DEF d, q
<1>3. \A k \in 1 .. 10 : k > n => Worth(k) = 0
  OBVIOUS
<1>4. ParseUInt32(s, field) = Worth(1) + Worth(2) + Worth(3) + Worth(4) + Worth(5)
                                + Worth(6) + Worth(7) + Worth(8) + Worth(9) + Worth(10)
  BY DEF ParseUInt32
<1> HIDE DEF Worth, field
<1> DEFINE e(j) == Power[j] * Digit(x, j)
<1>5. \A j \in 1 .. 10 : e(j) \in Nat /\ (x < Power[j] => e(j) = 0)
  <2> SUFFICES ASSUME NEW j \in 1 .. 10
               PROVE  e(j) \in Nat /\ (x < Power[j] => e(j) = 0)
    OBVIOUS
  <2> DEFINE d == Digit(x, j)
             q == Power[j]
  <2>1. d \in Nat /\ q \in Nat
    <3>1. Digit(x, j) \in 0 .. 9
      BY DigitValues
    <3>2. Power[j] \in Nat
      BY PowerGrows
    <3> QED
      BY <3>1, <3>2
  <2>2. x < q => d = 0
    BY DigitValues
  <2> HIDE DEF d, q
  <2>3. q * d \in Nat /\ (x < q => q * d = 0)
    BY <2>1, <2>2
  <2> QED
    BY <2>3 DEF d, q
<1>6. x = e(1) + e(2) + e(3) + e(4) + e(5) + e(6) + e(7) + e(8) + e(9) + e(10)
  BY DigitValues
<1>7. \A k \in 1 .. n : Worth(k) = e(n - k + 1)
  BY <1>2
<1> HIDE DEF e, n
<1>8. \A j \in 1 .. 10 : j > n => e(j) = 0
  <2> SUFFICES ASSUME NEW j \in 1 .. 10, j > n
               PROVE  e(j) = 0
    OBVIOUS
  <2>1. n + 1 \in 1 .. 10 /\ n + 1 <= j /\ n # 10
    BY <1>1
  <2>2. Power[n + 1] <= Power[j] /\ Power[n + 1] \in Nat /\ Power[j] \in Nat
    BY <2>1, PowerGrows
  <2> QED
    BY <1>1, <1>5, <2>1, <2>2
<1>9. /\ e(1) \in Nat /\ e(2) \in Nat /\ e(3) \in Nat /\ e(4) \in Nat /\ e(5) \in Nat
      /\ e(6) \in Nat /\ e(7) \in Nat /\ e(8) \in Nat /\ e(9) \in Nat /\ e(10) \in Nat
  BY <1>5
<1>10. ASSUME NEW k \in 1 .. 10
       PROVE  Worth(k) = IF k <= n THEN e(n - k + 1) ELSE 0
  BY <1>1, <1>3, <1>7
<1>11. n = 1 => ParseUInt32(s, field) = x
  BY <1>4, <1>6, <1>8, <1>9, <1>10
<1>12. n = 2 => ParseUInt32(s, field) = x
  BY <1>4, <1>6, <1>8, <1>9, <1>10
<1>13. n = 3 => ParseUInt32(s, field) = x
  BY <1>4, <1>6, <1>8, <1>9, <1>10
<1>14. n = 4 => ParseUInt32(s, field) = x
  BY <1>4, <1>6, <1>8, <1>9, <1>10
<1>15. n = 5 => ParseUInt32(s, field) = x
  BY <1>4, <1>6, <1>8, <1>9, <1>10
<1>16. n = 6 => ParseUInt32(s, field) = x
  BY <1>4, <1>6, <1>8, <1>9, <1>10
<1>17. n = 7 => ParseUInt32(s, field) = x
  BY <1>4, <1>6, <1>8, <1>9, <1>10
<1>18. n = 8 => ParseUInt32(s, field) = x
  BY <1>4, <1>6, <1>8, <1>9, <1>10
<1>19. n = 9 => ParseUInt32(s, field) = x
  BY <1>4, <1>6, <1>8, <1>9, <1>10
<1>20. n = 10 => ParseUInt32(s, field) = x
  BY <1>4, <1>6, <1>8, <1>9, <1>10
<1> QED
  BY <1>1, <1>11, <1>12, <1>13, <1>14, <1>15, <1>16, <1>17, <1>18, <1>19, <1>20 DEF field, n

-----------------------------------------------------------------------------
(* The bytes of a printed marker.                                          *)

LEMMA ConcatAt ==
  ASSUME NEW p \in Seq(Int), NEW q \in Seq(Int), NEW r \in Seq(Int)
  PROVE  /\ \A i \in 1 .. Len(p) : (p \o q \o r)[i] = p[i]
         /\ \A i \in 1 .. Len(q) : (p \o q \o r)[Len(p) + i] = q[i]
         /\ \A i \in 1 .. Len(r) : (p \o q \o r)[Len(p) + Len(q) + i] = r[i]
OBVIOUS

\* What is printed of a number are digits.
LEMMA DecimalDigits ==
  ASSUME NEW x \in Nat
  PROVE  \A k \in 1 .. NumDigits(x) : Decimal(x)[k] \in Digits
<1> SUFFICES ASSUME NEW k \in 1 .. NumDigits(x)
             PROVE  Decimal(x)[k] \in Digits
  OBVIOUS
<1> DEFINE j == NumDigits(x) - k + 1
           d == Digit(x, j)
<1>1. Decimal(x)[k] = Zero + d
  BY DEF Decimal, Digit
<1>2. j \in 1 .. 10
  <2> DEFINE n == NumDigits(x)
  <2>1. n \in 1 .. 10 /\ k \in 1 .. n
    BY NumDigitsProperty
  <2> HIDE DEF n
  <2>2. n - k + 1 \in 1 .. 10
    BY <2>1
  <2> QED
    BY <2>2 DEF n
<1>3. d \in 0 .. 9
  <2> HIDE DEF j
  <2> QED
    BY <1>2, DigitValues
<1> HIDE DEF d
<1> QED
  BY <1>1, <1>3 DEF Digits, Zero

\* Bytes i + 1, i + 2, ... of h are those of p.
Holds(h, i, p) == \A k \in 1 .. Len(p) : h[i + k] = p[k]

\* g begins with h.
Starts(h, g) == \A j \in 1 .. Len(h) : g[j] = h[j]

LEMMA HoldsOn ==
  ASSUME NEW h \in Seq(Int), NEW g, NEW i \in Nat, NEW p \in Seq(Int),
         i + Len(p) <= Len(h), Starts(h, g), Holds(h, i, p)
  PROVE  Holds(g, i, p)
<1>1. ASSUME NEW k \in 1 .. Len(p)
      PROVE  g[i + k] = p[k]
  <2>1. i + k \in 1 .. Len(h)
    OBVIOUS
  <2> QED
    BY <2>1 DEF Starts, Holds
<1> QED
  BY <1>1 DEF Holds

\* One part and what separates it are printed behind the others.
LEMMA Stage ==
  ASSUME NEW h \in Seq(Int), NEW q \in Seq(Int), NEW r \in Seq(Int), NEW g, g = h \o q \o r
  PROVE  /\ g \in Seq(Int) /\ Len(g) = Len(h) + Len(q) + Len(r)
         /\ Starts(h, g) /\ Holds(g, Len(h), q) /\ Holds(g, Len(h) + Len(q), r)
<1>1. g \in Seq(Int) /\ Len(g) = Len(h) + Len(q) + Len(r)
  BY LenConcat
<1>2. \A j \in 1 .. Len(h) : g[j] = h[j]
  BY ConcatAt
<1>3. \A j \in 1 .. Len(q) : g[Len(h) + j] = q[j]
  BY ConcatAt
<1>4. \A j \in 1 .. Len(r) : g[Len(h) + Len(q) + j] = r[j]
  BY ConcatAt
<1> QED
  BY <1>1, <1>2, <1>3, <1>4 DEF Starts, Holds

LEMMA StartsOn ==
  ASSUME NEW f \in Seq(Int), NEW g \in Seq(Int), NEW h, Len(f) <= Len(g),
         Starts(f, g), Starts(g, h)
  PROVE  Starts(f, h)
<1> SUFFICES ASSUME NEW j \in 1 .. Len(f) PROVE h[j] = f[j]
  BY DEF Starts
<1>1. j \in 1 .. Len(g)
  OBVIOUS
<1> QED
  BY <1>1 DEF Starts

\* Where each part of a printed marker is.
Laid(m, a, b, c, d, na, nb, nc, nd) ==
  /\ Holds(m, 0, MarkerChar) /\ Holds(m, 3, MsgId) /\ Holds(m, 16, <<Bar>>)
  /\ Holds(m, 17, Decimal(a)) /\ Holds(m, 17 + na, <<Bar>>)
  /\ Holds(m, 18 + na, Decimal(b)) /\ Holds(m, 18 + na + nb, <<Bar>>)
  /\ Holds(m, 19 + na + nb, Decimal(c)) /\ Holds(m, 19 + na + nb + nc, <<Bar>>)
  /\ Holds(m, 20 + na + nb + nc, Decimal(d))
  /\ Holds(m, 20 + na + nb + nc + nd, MarkerChar)

LEMMA PrintedBytes ==
  ASSUME NEW a \in Nat, NEW b \in Nat, NEW c \in Nat, NEW d \in Nat,
         NEW m, m = MarkerPrint(MsgId, a, b, c, d),
         NEW na, na = NumDigits(a), NEW nb, nb = NumDigits(b),
         NEW nc, nc = NumDigits(c), NEW nd, nd = NumDigits(d)
  PROVE  Laid(m, a, b, c, d, na, nb, nc, nd)
<1> DEFINE char == MarkerChar
           bar == <<Bar>>
           da == Decimal(a)
           db == Decimal(b)
           dc == Decimal(c)
           dd == Decimal(d)
           id == MsgId
<1>1. /\ char \in Seq(Int) /\ Len(char) = 3
      /\ bar \in Seq(Int) /\ Len(bar) = 1
  BY DEF MarkerChar, Bar
<1>2. id \in Seq(Int) /\ Len(id) = 13
  BY MsgIdBytes
<1>3. da \in Seq(Int) /\ Len(da) = na
  BY DecimalLength
<1>4. db \in Seq(Int) /\ Len(db) = nb
  BY DecimalLength
<1>5. dc \in Seq(Int) /\ Len(dc) = nc
  BY DecimalLength
<1>6. dd \in Seq(Int) /\ Len(dd) = nd
  BY DecimalLength
<1>7. na \in Nat /\ nb \in Nat /\ nc \in Nat /\ nd \in Nat
  BY NumDigitsProperty
<1> DEFINE s1 == char \o id \o bar
           s2 == s1 \o da \o bar
           s3 == s2 \o db \o bar
           s4 == s3 \o dc \o bar
           s5 == s4 \o dd \o char
<1>8. m = s5
  BY DEF MarkerPrint
<1> HIDE DEF char, bar, da, db, dc, dd, id
<1>9. /\ s1 \in Seq(Int) /\ Len(s1) = Len(char) + Len(id) + Len(bar)
      /\ Starts(char, s1) /\ Holds(s1, Len(char), id) /\ Holds(s1, Len(char) + Len(id), bar)
  BY <1>1, <1>2, Stage
<1> HIDE DEF s1
<1>10. /\ s2 \in Seq(Int) /\ Len(s2) = Len(s1) + Len(da) + Len(bar)
       /\ Starts(s1, s2) /\ Holds(s2, Len(s1), da) /\ Holds(s2, Len(s1) + Len(da), bar)
  BY <1>1, <1>3, <1>9, Stage
<1> HIDE DEF s2
<1>11. /\ s3 \in Seq(Int) /\ Len(s3) = Len(s2) + Len(db) + Len(bar)
       /\ Starts(s2, s3) /\ Holds(s3, Len(s2), db) /\ Holds(s3, Len(s2) + Len(db), bar)
  BY <1>1, <1>4, <1>10, Stage
<1> HIDE DEF s3
<1>12. /\ s4 \in Seq(Int) /\ Len(s4) = Len(s3) + Len(dc) + Len(bar)
       /\ Starts(s3, s4) /\ Holds(s4, Len(s3), dc) /\ Holds(s4, Len(s3) + Len(dc), bar)
  BY <1>1, <1>5, <1>11, Stage
<1> HIDE DEF s4
<1>13. /\ s5 \in Seq(Int) /\ Len(s5) = Len(s4) + Len(dd) + Len(char)
       /\ Starts(s4, s5) /\ Holds(s5, Len(s4), dd) /\ Holds(s5, Len(s4) + Len(dd), char)
  BY <1>1, <1>6, <1>12, Stage
<1> HIDE DEF s5
<1>14. /\ Len(s1) = 17 /\ Len(s2) = 18 + na /\ Len(s3) = 19 + na + nb
       /\ Len(s4) = 20 + na + nb + nc
       /\ 3 <= Len(s1) /\ Len(s1) <= Len(s2) /\ Len(s2) <= Len(s3) /\ Len(s3) <= Len(s4)
       /\ 17 + na + 1 <= Len(s2) /\ 17 + na <= Len(s2)
       /\ 18 + na + nb + 1 <= Len(s3) /\ 18 + na + nb <= Len(s3)
       /\ 19 + na + nb + nc + 1 <= Len(s4) /\ 19 + na + nb + nc <= Len(s4)
  <2>1. Len(s1) = 17
    BY <1>1, <1>2, <1>9
  <2>2. Len(s2) = Len(s1) + na + 1
    BY <1>1, <1>3, <1>10
  <2>3. Len(s3) = Len(s2) + nb + 1
    BY <1>1, <1>4, <1>11
  <2>4. Len(s4) = Len(s3) + nc + 1
    BY <1>1, <1>5, <1>12
  <2> DEFINE l1 == Len(s1)
             l2 == Len(s2)
             l3 == Len(s3)
             l4 == Len(s4)
  <2>5. l1 = 17 /\ l2 = l1 + na + 1 /\ l3 = l2 + nb + 1 /\ l4 = l3 + nc + 1
    BY <2>1, <2>2, <2>3, <2>4
  <2> HIDE DEF l1, l2, l3, l4
  <2>6. /\ l2 = 18 + na /\ l3 = 19 + na + nb /\ l4 = 20 + na + nb + nc
        /\ 3 <= l1 /\ l1 <= l2 /\ l2 <= l3 /\ l3 <= l4
        /\ 17 + na + 1 <= l2 /\ 17 + na <= l2
        /\ 18 + na + nb + 1 <= l3 /\ 18 + na + nb <= l3
        /\ 19 + na + nb + nc + 1 <= l4 /\ 19 + na + nb + nc <= l4
    BY <1>7, <2>5
  <2> QED
    BY <2>5, <2>6 DEF l1, l2, l3, l4
<1>15. Starts(s3, s5)
  BY <1>11, <1>12, <1>13, <1>14, StartsOn
<1>16. Starts(s2, s5)
  BY <1>10, <1>11, <1>14, <1>15, StartsOn
<1>17. Starts(s1, s5)
  BY <1>9, <1>10, <1>14, <1>16, StartsOn
<1>18. Holds(s5, 0, char)
  <2>1. Starts(char, s5)
    BY <1>1, <1>9, <1>14, <1>17, StartsOn
  <2>2. \A k \in 1 .. Len(char) : 0 + k = k
    BY <1>1
  <2> QED
    BY <2>1, <2>2 DEF Starts, Holds
<1>19. Holds(s5, 3, id)
  <2>1. Holds(s1, 3, id) /\ 3 + Len(id) <= Len(s1)
    BY <1>1, <1>2, <1>9, <1>14
  <2> QED
    BY <1>2, <1>9, <1>17, <2>1, HoldsOn
<1>20. Holds(s5, 16, bar)
  <2>1. Holds(s1, 16, bar) /\ 16 + Len(bar) <= Len(s1)
    BY <1>1, <1>2, <1>9, <1>14
  <2> QED
    BY <1>1, <1>9, <1>17, <2>1, HoldsOn
<1>21. Holds(s5, 17, da) /\ Holds(s5, 17 + na, bar)
  <2> DEFINE i == 17
  <2>1. i \in Nat /\ i + na \in Nat
    BY <1>7
  <2>2. Len(s1) = i
    BY <1>14
  <2>3. Holds(s2, i, da) /\ Holds(s2, i + na, bar)
    BY <1>3, <1>10, <2>2
  <2> HIDE DEF i
  <2>4. i + Len(da) <= Len(s2) /\ i + na + Len(bar) <= Len(s2)
    BY <1>1, <1>3, <1>14 DEF i
  <2>5. Holds(s5, i, da) /\ Holds(s5, i + na, bar)
    BY <1>1, <1>3, <1>10, <1>16, <2>1, <2>3, <2>4, HoldsOn
  <2> QED
    BY <2>5 DEF i
<1>22. Holds(s5, 18 + na, db) /\ Holds(s5, 18 + na + nb, bar)
  <2> DEFINE i == 18 + na
  <2>1. i \in Nat /\ i + nb \in Nat
    BY <1>7
  <2>2. Len(s2) = i
    BY <1>14
  <2>3. Holds(s3, i, db) /\ Holds(s3, i + nb, bar)
    BY <1>4, <1>11, <2>2
  <2> HIDE DEF i
  <2>4. i + Len(db) <= Len(s3) /\ i + nb + Len(bar) <= Len(s3)
    BY <1>1, <1>4, <1>14 DEF i
  <2>5. Holds(s5, i, db) /\ Holds(s5, i + nb, bar)
    BY <1>1, <1>4, <1>11, <1>15, <2>1, <2>3, <2>4, HoldsOn
  <2> QED
    BY <2>5 DEF i
<1>23. Holds(s5, 19 + na + nb, dc) /\ Holds(s5, 19 + na + nb + nc, bar)
  <2> DEFINE i == 19 + na + nb
  <2>1. i \in Nat /\ i + nc \in Nat
    BY <1>7
  <2>2. Len(s3) = i
    BY <1>14
  <2>3. Holds(s4, i, dc) /\ Holds(s4, i + nc, bar)
    BY <1>5, <1>12, <2>2
  <2> HIDE DEF i
  <2>4. i + Len(dc) <= Len(s4) /\ i + nc + Len(bar) <= Len(s4)
    BY <1>1, <1>5, <1>14 DEF i
  <2>5. Holds(s5, i, dc) /\ Holds(s5, i + nc, bar)
    BY <1>1, <1>5, <1>12, <1>13, <2>1, <2>3, <2>4, HoldsOn
  <2> QED
    BY <2>5 DEF i
<1>24. Holds(s5, 20 + na + nb + nc, dd) /\ Holds(s5, 20 + na + nb + nc + nd, char)
  BY <1>6, <1>7, <1>13, <1>14
<1> QED
  BY <1>8, <1>18, <1>19, <1>20, <1>21, <1>22, <1>23, <1>24 DEF Laid, char, bar, da, db, dc, dd, id

-----------------------------------------------------------------------------
(* What markerParseFields accepts.                                         *)

\* Of the bytes from p on, the first n are digits; the next is none unless n
\* is the most that is looked at.
DigitsFrom(s, p, n) ==
  /\ \A k \in 0 .. n - 1 : ByteAt(s, p + k, Other) \in Digits
  /\ n = 10 \/ ByteAt(s, p + n, Other) \notin Digits

LEMMA FieldSizeProperty ==
  ASSUME NEW s, NEW p \in Nat
  PROVE  /\ FieldSize(s, p) \in 0 .. 10 /\ DigitsFrom(s, p, FieldSize(s, p))
         /\ \A n \in 0 .. 10 : DigitsFrom(s, p, n) => FieldSize(s, p) = n
<1> DEFINE D(k) == ByteAt(s, p + k, Other) \in Digits
           P(n) == (\A k \in 0 .. n - 1 : D(k)) /\ (n = 10 \/ ~D(n))
<1>1. \A n : DigitsFrom(s, p, n) <=> P(n)
  BY DEF DigitsFrom
<1>2. FieldSize(s, p) = CHOOSE n \in 0 .. 10 : P(n)
  BY DEF FieldSize, SzIntMax
<1> HIDE DEF D
<1>3. \E n \in 0 .. 10 : P(n)
  <2>1. CASE \A k \in 0 .. 9 : D(k)
    <3>1. P(10)
      BY <2>1
    <3> QED
      BY <3>1
  <2>2. CASE ~D(0)
    BY <2>2
  <2>3. CASE D(0) /\ ~D(1)
    BY <2>3
  <2>4. CASE D(0) /\ D(1) /\ ~D(2)
    BY <2>4
  <2>5. CASE D(0) /\ D(1) /\ D(2) /\ ~D(3)
    BY <2>5
  <2>6. CASE D(0) /\ D(1) /\ D(2) /\ D(3) /\ ~D(4)
    BY <2>6
  <2>7. CASE D(0) /\ D(1) /\ D(2) /\ D(3) /\ D(4) /\ ~D(5)
    BY <2>7
  <2>8. CASE D(0) /\ D(1) /\ D(2) /\ D(3) /\ D(4) /\ D(5) /\ ~D(6)
    BY <2>8
  <2>9. CASE D(0) /\ D(1) /\ D(2) /\ D(3) /\ D(4) /\ D(5) /\ D(6) /\ ~D(7)
    BY <2>9
  <2>10. CASE D(0) /\ D(1) /\ D(2) /\ D(3) /\ D(4) /\ D(5) /\ D(6) /\ D(7) /\ ~D(8)
    BY <2>10
  <2>11. CASE D(0) /\ D(1) /\ D(2) /\ D(3) /\ D(4) /\ D(5) /\ D(6) /\ D(7) /\ D(8) /\ ~D(9)
    BY <2>11
  <2>12. ASSUME D(0) /\ D(1) /\ D(2) /\ D(3) /\ D(4) /\ D(5) /\ D(6) /\ D(7) /\ D(8) /\ D(9)
         PROVE  \A k \in 0 .. 9 : D(k)
    BY <2>12
  <2> QED
    BY <2>1, <2>2, <2>3, <2>4, <2>5, <2>6, <2>7, <2>8, <2>9, <2>10, <2>11, <2>12
<1>4. ASSUME NEW m \in 0 .. 10, NEW n \in 0 .. 10, P(m), P(n)
      PROVE  m = n
  <2>1. ~(m < n)
    <3> SUFFICES ASSUME m < n PROVE FALSE
      OBVIOUS
    <3>1. m \in 0 .. n - 1 /\ m # 10
      OBVIOUS
    <3> QED
      BY <1>4, <3>1
  <2>2. ~(n < m)
    <3> SUFFICES ASSUME n < m PROVE FALSE
      OBVIOUS
    <3>1. n \in 0 .. m - 1 /\ n # 10
      OBVIOUS
    <3> QED
      BY <1>4, <3>1
  <2> QED
    BY <2>1, <2>2
<1> DEFINE z == FieldSize(s, p)
<1> HIDE DEF P
<1>5. z \in 0 .. 10 /\ P(z)
  BY <1>2, <1>3
<1>6. \A n \in 0 .. 10 : P(n) => z = n
  BY <1>4, <1>5
<1> QED
  BY <1>1, <1>5, <1>6

\* There is a field of n bytes at p that can be field f of a marker.
FieldAt(s, past, f, p, n) ==
  /\ DigitsFrom(s, p, n)
  /\ p + n + 1 < s.length
  /\ FieldEnds(s, f, p + n, past)

\* What the loop over the fields keeps.
Reading == [p : Nat, ok : BOOLEAN, found : Seq([off : Nat, size : Nat])]

\* A turn from r to t over field f goes on when there is a field, and then only.
Turned(s, past, r, f, t) ==
  /\ t \in Reading
  /\ t.ok => r.ok /\ \E n \in 1 .. 10 : FieldAt(s, past, f, r.p, n)
  /\ \A n \in 1 .. 10 : r.ok /\ FieldAt(s, past, f, r.p, n) =>
       /\ t.ok /\ t.p = r.p + n + 1
       /\ t.found = Append(r.found, [off |-> r.p, size |-> n])

LEMMA ParseFieldTurn ==
  ASSUME NEW s, s.length \in Nat, NEW past, NEW r \in Reading, NEW f \in 1 .. 4,
         NEW t, t = ParseField(s, past, r, f)
  PROVE  Turned(s, past, r, f, t)
<1> DEFINE z == FieldSize(s, r.p)
           more == [p |-> r.p + z + 1, ok |-> TRUE,
                    found |-> Append(r.found, [off |-> r.p, size |-> z])]
           stop == [r EXCEPT !.ok = FALSE]
           Good == r.ok /\ z # 0 /\ r.p + z + 1 < s.length /\ FieldEnds(s, f, r.p + z, past)
<1>1. r.p \in Nat /\ r.ok \in BOOLEAN /\ r.found \in Seq([off : Nat, size : Nat])
  BY DEF Reading
<1>2. z \in 0 .. 10 /\ DigitsFrom(s, r.p, z)
      /\ \A n \in 0 .. 10 : DigitsFrom(s, r.p, n) => z = n
  BY <1>1, FieldSizeProperty
<1>3. t = IF Good THEN more ELSE stop
  BY DEF ParseField
<1> HIDE DEF z
<1>4. more \in Reading
  <2>1. [off |-> r.p, size |-> z] \in [off : Nat, size : Nat]
    BY <1>1, <1>2
  <2>2. Append(r.found, [off |-> r.p, size |-> z]) \in Seq([off : Nat, size : Nat])
    BY <1>1, <2>1
  <2>3. r.p + z + 1 \in Nat
    <3>1. r.p \in Nat /\ z \in Nat
      BY <1>1, <1>2
    <3>2. \A i, j \in Nat : i + j + 1 \in Nat
      OBVIOUS
    <3> QED
      BY <3>1, <3>2
  <2> QED
    BY <2>2, <2>3 DEF Reading
<1>5. stop \in Reading /\ stop.ok = FALSE
  BY DEF Reading
<1>6. t \in Reading
  BY <1>3, <1>4, <1>5
<1>7. ASSUME t.ok PROVE r.ok /\ \E n \in 1 .. 10 : FieldAt(s, past, f, r.p, n)
  <2>1. Good
    BY <1>3, <1>5, <1>7
  <2>2. z \in 1 .. 10
    BY <1>2, <2>1
  <2>3. FieldAt(s, past, f, r.p, z)
    BY <1>2, <2>1 DEF FieldAt
  <2> QED
    BY <2>1, <2>2, <2>3
<1>8. ASSUME NEW n \in 1 .. 10, r.ok, FieldAt(s, past, f, r.p, n)
      PROVE  /\ t.ok /\ t.p = r.p + n + 1
             /\ t.found = Append(r.found, [off |-> r.p, size |-> n])
  <2>1. z = n
    BY <1>2, <1>8 DEF FieldAt
  <2>2. Good
    BY <1>8, <2>1 DEF FieldAt
  <2>3. t = more
    BY <1>3, <2>2
  <2> QED
    BY <2>1, <2>3
<1> QED
  BY <1>6, <1>7, <1>8 DEF Turned

\* A marker with fields of a, b, c and d bytes, as markerParseFields sees it.
FormAt(s, past, a, b, c, d) ==
  /\ s.length > 27
  /\ IsMarkerChar(s, 0, past)
  /\ \A i \in 3 .. 15 : ByteAt(s, i, past) \in Digits
  /\ ByteAt(s, 16, past) = Bar
  /\ FieldAt(s, past, 1, 17, a)
  /\ FieldAt(s, past, 2, 18 + a, b)
  /\ FieldAt(s, past, 3, 19 + a + b, c)
  /\ FieldAt(s, past, 4, 20 + a + b + c, d)

\* What is found of such a marker.
FieldsOf(found, a, b, c, d) ==
  /\ Len(found) = 4
  /\ found[1] = [off |-> 17, size |-> a]
  /\ found[2] = [off |-> 18 + a, size |-> b]
  /\ found[3] = [off |-> 19 + a + b, size |-> c]
  /\ found[4] = [off |-> 20 + a + b + c, size |-> d]

\* t is s and x behind it.
Longer(S, s, x, t) ==
  /\ t \in Seq(S) /\ Len(t) = Len(s) + 1 /\ t[Len(s) + 1] = x
  /\ \A i \in 1 .. Len(s) : t[i] = s[i]

LEMMA Appended ==
  ASSUME NEW S, NEW s \in Seq(S), NEW x \in S
  PROVE  Longer(S, s, x, Append(s, x))
BY DEF Longer

LEMMA FourAppended ==
  ASSUME NEW S, NEW w \in S, NEW x \in S, NEW y \in S, NEW z \in S,
         NEW t, t = Append(Append(Append(Append(<<>>, w), x), y), z)
  PROVE  Len(t) = 4 /\ t[1] = w /\ t[2] = x /\ t[3] = y /\ t[4] = z
<1> DEFINE t0 == <<>>
           t1 == Append(t0, w)
           t2 == Append(t1, x)
           t3 == Append(t2, y)
<1>1. t0 \in Seq(S) /\ Len(t0) = 0
  OBVIOUS
<1>2. t = Append(t3, z)
  OBVIOUS
<1> HIDE DEF t0
<1>3. Longer(S, t0, w, t1)
  BY <1>1, Appended, Zenon
<1> HIDE DEF t1
<1>4. Longer(S, t1, x, t2)
  <2>1. t1 \in Seq(S)
    BY <1>3 DEF Longer
  <2> QED
    BY <2>1, Appended, Zenon
<1> HIDE DEF t2
<1>5. Longer(S, t2, y, t3)
  <2>1. t2 \in Seq(S)
    BY <1>4 DEF Longer
  <2> QED
    BY <2>1, Appended, Zenon
<1> HIDE DEF t3
<1>6. Longer(S, t3, z, t)
  <2>1. t3 \in Seq(S)
    BY <1>5 DEF Longer
  <2> QED
    BY <1>2, <2>1, Appended, Zenon
<1>7. Len(t1) = 1 /\ t1[1] = w
  BY <1>1, <1>3 DEF Longer
<1>8. Len(t2) = 2 /\ t2[1] = w /\ t2[2] = x
  BY <1>4, <1>7 DEF Longer
<1>9. Len(t3) = 3 /\ t3[1] = w /\ t3[2] = x /\ t3[3] = y
  BY <1>5, <1>8 DEF Longer
<1> QED
  BY <1>6, <1>9 DEF Longer

\* markerParseFields accepts the form, and nothing else.
LEMMA FormIsParsed ==
  ASSUME NEW s, s.length \in Nat, NEW past
  PROVE  /\ MarkerExists(s, past) <=> \E a, b, c, d \in 1 .. 10 : FormAt(s, past, a, b, c, d)
         /\ \A a, b, c, d \in 1 .. 10 : FormAt(s, past, a, b, c, d) =>
              FieldsOf(ParseFields(s, past), a, b, c, d)
<1> DEFINE Opens == /\ s.length > 27 /\ IsMarkerChar(s, 0, past)
                   /\ \A i \in 3 .. 15 : ByteAt(s, i, past) \in Digits
                   /\ ByteAt(s, 16, past) = Bar
           start == [p |-> 17, ok |-> TRUE, found |-> <<>>]
           first == ParseField(s, past, start, 1)
           next  == ParseField(s, past, first, 2)
           third == ParseField(s, past, next, 3)
           last  == ParseField(s, past, third, 4)
<1>1. ParseFields(s, past) = IF Opens /\ last.ok THEN last.found ELSE <<>>
  <2>1. s.length <= 27 <=> ~(s.length > 27)
    OBVIOUS
  <2>2. ParseFields(s, past) =
          IF \/ s.length <= 27
             \/ ~IsMarkerChar(s, 0, past)
             \/ ByteAt(s, 16, past) # Bar
             \/ \E i \in 3 .. 15 : ByteAt(s, i, past) \notin Digits
          THEN <<>>
          ELSE IF last.ok THEN last.found ELSE <<>>
    BY DEF ParseFields, SzMarkerChar, SzTm, NInts, SzIntMin
  <2> HIDE DEF last
  <2> QED
    BY <2>1, <2>2
<1>2. start \in Reading /\ start.ok /\ start.p = 17 /\ start.found = <<>>
  BY DEF Reading
<1> HIDE DEF start
<1>3. Turned(s, past, start, 1, first)
  BY <1>2, ParseFieldTurn
<1> HIDE DEF first
<1>4. Turned(s, past, first, 2, next)
  <2>1. first \in Reading
    BY <1>3 DEF Turned
  <2> QED
    BY <2>1, ParseFieldTurn
<1> HIDE DEF next
<1>5. Turned(s, past, next, 3, third)
  <2>1. next \in Reading
    BY <1>4 DEF Turned
  <2> QED
    BY <2>1, ParseFieldTurn
<1> HIDE DEF third
<1>6. Turned(s, past, third, 4, last)
  <2>1. third \in Reading
    BY <1>5 DEF Turned
  <2> QED
    BY <2>1, ParseFieldTurn
<1> HIDE DEF last
<1>7. ASSUME NEW a \in 1 .. 10, FieldAt(s, past, 1, 17, a)
      PROVE  first.ok /\ first.p = 18 + a
             /\ first.found = Append(<<>>, [off |-> 17, size |-> a])
  BY <1>2, <1>3, <1>7 DEF Turned
<1>8. ASSUME NEW a \in 1 .. 10, FieldAt(s, past, 1, 17, a),
             NEW b \in 1 .. 10, FieldAt(s, past, 2, 18 + a, b)
      PROVE  next.ok /\ next.p = 19 + a + b
             /\ next.found = Append(first.found, [off |-> 18 + a, size |-> b])
  <2>1. first.ok /\ first.p = 18 + a
    BY <1>7, <1>8
  <2>2. next.ok /\ next.p = 18 + a + b + 1
        /\ next.found = Append(first.found, [off |-> 18 + a, size |-> b])
    BY <1>4, <1>8, <2>1 DEF Turned
  <2> QED
    BY <2>2
<1>9. ASSUME NEW a \in 1 .. 10, FieldAt(s, past, 1, 17, a),
             NEW b \in 1 .. 10, FieldAt(s, past, 2, 18 + a, b),
             NEW c \in 1 .. 10, FieldAt(s, past, 3, 19 + a + b, c)
      PROVE  third.ok /\ third.p = 20 + a + b + c
             /\ third.found = Append(next.found, [off |-> 19 + a + b, size |-> c])
  <2>1. next.ok /\ next.p = 19 + a + b
    BY <1>8, <1>9
  <2>2. third.ok /\ third.p = 19 + a + b + c + 1
        /\ third.found = Append(next.found, [off |-> 19 + a + b, size |-> c])
    BY <1>5, <1>9, <2>1 DEF Turned
  <2> QED
    BY <2>2
<1>10. ASSUME NEW a \in 1 .. 10, NEW b \in 1 .. 10, NEW c \in 1 .. 10, NEW d \in 1 .. 10,
              FormAt(s, past, a, b, c, d)
       PROVE  /\ FieldsOf(ParseFields(s, past), a, b, c, d)
              /\ MarkerExists(s, past)
  <2>1. /\ Opens
        /\ FieldAt(s, past, 1, 17, a) /\ FieldAt(s, past, 2, 18 + a, b)
        /\ FieldAt(s, past, 3, 19 + a + b, c) /\ FieldAt(s, past, 4, 20 + a + b + c, d)
    BY <1>10 DEF FormAt
  <2> HIDE DEF Opens
  <2>2. first.found = Append(<<>>, [off |-> 17, size |-> a])
    BY <1>7, <2>1
  <2>3. next.found = Append(first.found, [off |-> 18 + a, size |-> b])
    BY <1>8, <2>1
  <2>4. third.ok /\ third.p = 20 + a + b + c
        /\ third.found = Append(next.found, [off |-> 19 + a + b, size |-> c])
    BY <1>9, <2>1
  <2>5. last.ok /\ last.found = Append(third.found, [off |-> 20 + a + b + c, size |-> d])
    BY <1>6, <2>1, <2>4 DEF Turned
  <2>6. ParseFields(s, past) = last.found
    BY <1>1, <2>1, <2>5
  <2>7. FieldsOf(last.found, a, b, c, d)
    <3> DEFINE w == [off |-> 17, size |-> a]
               x == [off |-> 18 + a, size |-> b]
               y == [off |-> 19 + a + b, size |-> c]
               z == [off |-> 20 + a + b + c, size |-> d]
               S == {w, x, y, z}
    <3>1. last.found = Append(Append(Append(Append(<<>>, w), x), y), z)
      BY <2>2, <2>3, <2>4, <2>5, Zenon
    <3>2. w \in S /\ x \in S /\ y \in S /\ z \in S
      OBVIOUS
    <3> HIDE DEF w, x, y, z, S
    <3>3. /\ Len(last.found) = 4 /\ last.found[1] = w /\ last.found[2] = x
          /\ last.found[3] = y /\ last.found[4] = z
      BY <3>1, <3>2, FourAppended
    <3> QED
      BY <3>3 DEF FieldsOf, w, x, y, z
  <2>8. last.found # <<>>
    <3>1. Len(<<>>) = 0
      OBVIOUS
    <3> QED
      BY <2>7, <3>1 DEF FieldsOf
  <2> QED
    BY <2>6, <2>7, <2>8 DEF MarkerExists
<1>11. ASSUME MarkerExists(s, past)
       PROVE  \E a, b, c, d \in 1 .. 10 : FormAt(s, past, a, b, c, d)
  <2>1. Opens /\ last.ok
    BY <1>1, <1>11 DEF MarkerExists
  <2>2. third.ok /\ next.ok /\ first.ok
    BY <1>4, <1>5, <1>6, <2>1 DEF Turned
  <2>3. PICK a \in 1 .. 10 : FieldAt(s, past, 1, 17, a)
    BY <1>2, <1>3, <2>2 DEF Turned
  <2>4. first.p = 18 + a
    BY <1>7, <2>3
  <2>5. PICK b \in 1 .. 10 : FieldAt(s, past, 2, 18 + a, b)
    BY <1>4, <2>2, <2>4 DEF Turned
  <2>6. next.p = 19 + a + b
    BY <1>8, <2>3, <2>5
  <2>7. PICK c \in 1 .. 10 : FieldAt(s, past, 3, 19 + a + b, c)
    BY <1>5, <2>2, <2>6 DEF Turned
  <2>8. third.p = 20 + a + b + c
    BY <1>9, <2>3, <2>5, <2>7
  <2>9. PICK d \in 1 .. 10 : FieldAt(s, past, 4, 20 + a + b + c, d)
    BY <1>6, <2>1, <2>8 DEF Turned
  <2>10. FormAt(s, past, a, b, c, d)
    BY <2>1, <2>3, <2>5, <2>7, <2>9 DEF FormAt
  <2> QED
    BY <2>10
<1> QED
  BY <1>10, <1>11

-----------------------------------------------------------------------------
(* Parsing undoes printing.                                                *)

\* From byte i on the message reads p, whatever lies behind it.
Reads(s, i, p) == \A k \in 0 .. Len(p) - 1 : \A past : ByteAt(s, i + k, past) = p[k + 1]

LEMMA HeldBytes ==
  ASSUME NEW s, s.length \in Nat, s.head \in Seq(Int), Len(s.head) <= s.length,
         NEW i \in Nat, NEW p \in Seq(Int), i + Len(p) <= Len(s.head), Holds(s.head, i, p)
  PROVE  Reads(s, i, p)
<1> SUFFICES ASSUME NEW k \in 0 .. Len(p) - 1, NEW past
             PROVE  ByteAt(s, i + k, past) = p[k + 1]
  BY DEF Reads
<1> DEFINE l == s.length
           h == s.head
           n == Len(h)
           z == Len(p)
<1>1. l \in Nat /\ n \in Nat /\ n <= l /\ z \in Nat /\ i + z <= n /\ k \in 0 .. z - 1
  OBVIOUS
<1>2. ByteAt(s, i + k, past) = IF i + k >= l THEN past ELSE IF i + k < n THEN h[i + k + 1] ELSE Other
  BY DEF ByteAt
<1>3. \A j \in 1 .. z : h[i + j] = p[j]
  BY DEF Holds
<1> HIDE DEF l, n, z, h
<1>4. ~(i + k >= l) /\ i + k < n /\ k + 1 \in 1 .. z /\ i + k + 1 = i + (k + 1)
  BY <1>1
<1> QED
  BY <1>2, <1>3, <1>4

LEMMA BytesApart ==
  /\ MarkerChar \in Seq(Int) /\ Len(MarkerChar) = 3 /\ <<Bar>> \in Seq(Int) /\ Len(<<Bar>>) = 1
  /\ <<Bar>>[1] = Bar /\ Bar \notin Digits /\ MarkerChar[1] \notin Digits
BY DEF MarkerChar, Bar, Digits, Zero

\* What a printed number of n bytes at p has behind it.
Followed(h, p, n, f) ==
  /\ f < 4 => p + n + 1 <= Len(h) /\ Holds(h, p + n, <<Bar>>)
  /\ f = 4 => p + n + 3 <= Len(h) /\ Holds(h, p + n, MarkerChar)

\* A printed number is a field.
LEMMA PrintedField ==
  ASSUME NEW s, s.length \in Nat, s.head \in Seq(Int), Len(s.head) < s.length, NEW past,
         NEW x \in Nat, NEW p \in Nat, Holds(s.head, p, Decimal(x)),
         NEW n, n = NumDigits(x), NEW f \in 1 .. 4,
         Followed(s.head, p, n, f)
  PROVE  FieldAt(s, past, f, p, n)
<1>1. n \in 1 .. 10 /\ Decimal(x) \in Seq(Int) /\ Len(Decimal(x)) = n
  BY NumDigitsProperty, DecimalLength
<1>2. Len(s.head) \in Nat /\ Len(s.head) <= s.length
  OBVIOUS
<1>3. p + n + 1 <= Len(s.head) /\ Len(s.head) \in Nat /\ p + n \in Nat
  <2>1. f < 4 \/ f = 4
    OBVIOUS
  <2>2. p + n + 1 <= Len(s.head) \/ p + n + 3 <= Len(s.head)
    BY <2>1 DEF Followed
  <2> QED
    BY <1>1, <1>2, <2>2
<1>4. ASSUME NEW k \in 0 .. n - 1
      PROVE  ByteAt(s, p + k, Other) \in Digits
  <2>1. Reads(s, p, Decimal(x))
    <3>1. p + Len(Decimal(x)) <= Len(s.head)
      BY <1>1, <1>3
    <3> QED
      BY <1>1, <1>2, <3>1, HeldBytes
  <2>2. ByteAt(s, p + k, Other) = Decimal(x)[k + 1]
    BY <1>1, <2>1 DEF Reads
  <2>3. k + 1 \in 1 .. n
    BY <1>1
  <2>4. \A j \in 1 .. NumDigits(x) : Decimal(x)[j] \in Digits
    BY DecimalDigits
  <2> QED
    BY <2>3, <2>4, <2>2
<1>5. ByteAt(s, p + n, Other) \notin Digits /\ FieldEnds(s, f, p + n, past)
  <2>1. CASE f < 4
    <3>1. \A k \in 0 .. 0 : \A q : ByteAt(s, (p + n) + k, q) = <<Bar>>[k + 1]
      <4>1. (p + n) + Len(<<Bar>>) <= Len(s.head) /\ Holds(s.head, p + n, <<Bar>>)
        BY <2>1, BytesApart DEF Followed
      <4>2. Reads(s, p + n, <<Bar>>)
        BY <1>3, <1>2, <4>1, BytesApart, HeldBytes
      <4> QED
        BY <4>2, BytesApart DEF Reads
    <3>2. \A q : ByteAt(s, p + n, q) = Bar
      <4>1. (p + n) + 0 = p + n /\ 0 \in 0 .. 0 /\ 0 + 1 = 1
        BY <1>3
      <4> QED
        BY <3>1, <4>1, BytesApart
    <3> QED
      BY <2>1, <3>2, BytesApart DEF FieldEnds, NInts
  <2>2. CASE f = 4
    <3>1. \A k \in 0 .. 2 : \A q : ByteAt(s, (p + n) + k, q) = MarkerChar[k + 1]
      <4>1. (p + n) + Len(MarkerChar) <= Len(s.head) /\ Holds(s.head, p + n, MarkerChar)
        BY <2>2, BytesApart DEF Followed
      <4>2. Reads(s, p + n, MarkerChar)
        BY <1>3, <1>2, <4>1, BytesApart, HeldBytes
      <4> QED
        BY <4>2, BytesApart DEF Reads
    <3>2. ByteAt(s, p + n, Other) = MarkerChar[1]
      <4>1. (p + n) + 0 = p + n /\ 0 \in 0 .. 2 /\ 0 + 1 = 1
        BY <1>3
      <4> QED
        BY <3>1, <4>1
    <3>3. IsMarkerChar(s, p + n, past)
      BY <3>1 DEF IsMarkerChar, SzMarkerChar
    <3> QED
      BY <2>2, <3>2, <3>3, BytesApart DEF FieldEnds, NInts
  <2> QED
    BY <2>1, <2>2, f < 4 \/ f = 4
<1>6. p + n + 1 < s.length
  BY <1>3
<1> QED
  BY <1>4, <1>5, <1>6 DEF FieldAt, DigitsFrom

\* A message that begins with a printed marker, and has a byte behind it.
Begins(s, a, b, c, d) ==
  /\ a \in Nat /\ b \in Nat /\ c \in Nat /\ d \in Nat
  /\ s.length \in Nat /\ Len(s.head) < s.length
  /\ s.head = MarkerPrint(MsgId, a, b, c, d)

LEMMA PrintedForm ==
  ASSUME NEW s, NEW a, NEW b, NEW c, NEW d, Begins(s, a, b, c, d), NEW past,
         NEW na, na = NumDigits(a), NEW nb, nb = NumDigits(b),
         NEW nc, nc = NumDigits(c), NEW nd, nd = NumDigits(d)
  PROVE  FormAt(s, past, na, nb, nc, nd)
<1> DEFINE m == s.head
<1>1. /\ a \in Nat /\ b \in Nat /\ c \in Nat /\ d \in Nat
      /\ s.length \in Nat /\ Len(m) < s.length /\ m = MarkerPrint(MsgId, a, b, c, d)
  BY DEF Begins
<1>2. na \in 1 .. 10 /\ nb \in 1 .. 10 /\ nc \in 1 .. 10 /\ nd \in 1 .. 10
  BY <1>1, NumDigitsProperty
<1>3. m \in Seq(Int) /\ Len(m) = 23 + na + nb + nc + nd
  BY <1>1, AnyPrinted
<1>4. Laid(m, a, b, c, d, na, nb, nc, nd)
  BY <1>1, PrintedBytes
<1>5. /\ Holds(m, 0, MarkerChar) /\ Holds(m, 3, MsgId) /\ Holds(m, 16, <<Bar>>)
      /\ Holds(m, 17, Decimal(a)) /\ Holds(m, 17 + na, <<Bar>>)
      /\ Holds(m, 18 + na, Decimal(b)) /\ Holds(m, 18 + na + nb, <<Bar>>)
      /\ Holds(m, 19 + na + nb, Decimal(c)) /\ Holds(m, 19 + na + nb + nc, <<Bar>>)
      /\ Holds(m, 20 + na + nb + nc, Decimal(d))
      /\ Holds(m, 20 + na + nb + nc + nd, MarkerChar)
  BY <1>4 DEF Laid
<1> DEFINE z == Len(m)
           l == s.length
<1>6. z = 23 + na + nb + nc + nd /\ z < l /\ l \in Nat
  BY <1>1, <1>3
<1> HIDE DEF z, l
<1>7. /\ z > 26 /\ z \in Nat /\ z <= l /\ l > 27
      /\ 17 + na + 1 <= z /\ (18 + na) + nb + 1 <= z /\ (19 + na + nb) + nc + 1 <= z
      /\ (20 + na + nb + nc) + nd + 3 <= z
      /\ 17 \in Nat /\ 18 + na \in Nat /\ 19 + na + nb \in Nat /\ 20 + na + nb + nc \in Nat
  BY <1>2, <1>6
<1>8. FieldAt(s, past, 1, 17, na)
  <2> DEFINE p == 17
  <2>1. p \in Nat /\ Holds(s.head, p, Decimal(a))
    BY <1>5, <1>7
  <2>2. Followed(s.head, p, na, 1)
    BY <1>5, <1>7 DEF Followed, z
  <2> HIDE DEF p
  <2>3. FieldAt(s, past, 1, p, na)
    BY <1>1, <1>3, <2>1, <2>2, PrintedField
  <2> QED
    BY <2>3 DEF p
<1>9. FieldAt(s, past, 2, 18 + na, nb)
  <2> DEFINE p == 18 + na
  <2>1. p \in Nat /\ Holds(s.head, p, Decimal(b))
    BY <1>5, <1>7
  <2>2. Followed(s.head, p, nb, 2)
    BY <1>5, <1>7 DEF Followed, z
  <2> HIDE DEF p
  <2>3. FieldAt(s, past, 2, p, nb)
    BY <1>1, <1>3, <2>1, <2>2, PrintedField
  <2> QED
    BY <2>3 DEF p
<1>10. FieldAt(s, past, 3, 19 + na + nb, nc)
  <2> DEFINE p == 19 + na + nb
  <2>1. p \in Nat /\ Holds(s.head, p, Decimal(c))
    BY <1>5, <1>7
  <2>2. Followed(s.head, p, nc, 3)
    BY <1>5, <1>7 DEF Followed, z
  <2> HIDE DEF p
  <2>3. FieldAt(s, past, 3, p, nc)
    BY <1>1, <1>3, <2>1, <2>2, PrintedField
  <2> QED
    BY <2>3 DEF p
<1>11. FieldAt(s, past, 4, 20 + na + nb + nc, nd)
  <2> DEFINE p == 20 + na + nb + nc
  <2>1. p \in Nat /\ Holds(s.head, p, Decimal(d))
    BY <1>5, <1>7
  <2>2. Followed(s.head, p, nd, 4)
    BY <1>5, <1>7 DEF Followed, z
  <2> HIDE DEF p
  <2>3. FieldAt(s, past, 4, p, nd)
    BY <1>1, <1>3, <2>1, <2>2, PrintedField
  <2> QED
    BY <2>3 DEF p
<1>12. Len(s.head) \in Nat /\ Len(s.head) <= s.length /\ Len(s.head) > 26
  BY <1>7 DEF z, l
<1>13. Reads(s, 0, MarkerChar)
  <2>1. 0 + Len(MarkerChar) <= Len(s.head)
    BY <1>12, BytesApart
  <2> QED
    BY <1>1, <1>3, <1>5, <1>12, <2>1, BytesApart, HeldBytes
<1>14. Reads(s, 3, MsgId)
  <2>1. 3 + Len(MsgId) <= Len(s.head)
    BY <1>12, MsgIdBytes
  <2> QED
    BY <1>1, <1>3, <1>5, <1>12, <2>1, MsgIdBytes, HeldBytes
<1>15. Reads(s, 16, <<Bar>>)
  <2>1. 16 + Len(<<Bar>>) <= Len(s.head)
    BY <1>12, BytesApart
  <2> QED
    BY <1>1, <1>3, <1>5, <1>12, <2>1, BytesApart, HeldBytes
<1>16. IsMarkerChar(s, 0, past)
  BY <1>13, BytesApart DEF Reads, IsMarkerChar, SzMarkerChar
<1>17. ASSUME NEW i \in 3 .. 15
       PROVE  ByteAt(s, i, past) \in Digits
  <2>1. i - 3 \in 0 .. 12 /\ 3 + (i - 3) = i /\ (i - 3) + 1 \in 1 .. 13
    OBVIOUS
  <2>2. ByteAt(s, 3 + (i - 3), past) = MsgId[(i - 3) + 1]
    BY <1>14, <2>1, MsgIdBytes DEF Reads
  <2> QED
    BY <2>1, <2>2, MsgIdBytes
<1>18. ByteAt(s, 16, past) = Bar
  <2>1. \A k \in 0 .. 0 : ByteAt(s, 16 + k, past) = <<Bar>>[k + 1]
    BY <1>15, BytesApart DEF Reads
  <2>2. 16 + 0 = 16 /\ 0 \in 0 .. 0 /\ 0 + 1 = 1
    OBVIOUS
  <2> QED
    BY <2>1, <2>2, BytesApart
<1>19. s.length > 27
  BY <1>7 DEF l
<1> QED
  BY <1>8, <1>9, <1>10, <1>11, <1>16, <1>17, <1>18, <1>19 DEF FormAt

\* A number that is printed with at most 10 digits, as an unsigned is.
Printable(x) == x < 10 * Power[10]

(***************************************************************************)
(* markerParse gives back the numbers that markerPrint was given, and the  *)
(* size of the marker, whatever they are and whatever is in memory behind  *)
(* the message.                                                            *)
(***************************************************************************)
THEOREM PrintThenParse ==
  ASSUME NEW s, NEW a, NEW b, NEW c, NEW d, Begins(s, a, b, c, d), NEW past,
         Printable(a), Printable(b), Printable(c), Printable(d)
  PROVE  /\ MarkerExists(s, past)
         /\ MarkerParse(s, past) = [id |-> MsgId, partNo |-> a, numParts |-> b, off |-> c,
                                    sz |-> d, size |-> Len(s.head)]
<1> DEFINE m == s.head
           na == NumDigits(a)
           nb == NumDigits(b)
           nc == NumDigits(c)
           nd == NumDigits(d)
           found == ParseFields(s, past)
<1>1. /\ a \in Nat /\ b \in Nat /\ c \in Nat /\ d \in Nat
      /\ s.length \in Nat /\ m = MarkerPrint(MsgId, a, b, c, d)
  BY DEF Begins
<1>2. na \in 1 .. 10 /\ nb \in 1 .. 10 /\ nc \in 1 .. 10 /\ nd \in 1 .. 10
  BY <1>1, NumDigitsProperty
<1>3. m \in Seq(Int) /\ Len(m) = 23 + na + nb + nc + nd
  BY <1>1, AnyPrinted
<1>4. FormAt(s, past, na, nb, nc, nd)
  BY PrintedForm
<1>5. MarkerExists(s, past) /\ FieldsOf(found, na, nb, nc, nd)
  <2> HIDE DEF na, nb, nc, nd
  <2> QED
    BY <1>1, <1>2, <1>4, FormIsParsed
<1>6. /\ Holds(m, 3, MsgId) /\ Holds(m, 17, Decimal(a)) /\ Holds(m, 18 + na, Decimal(b))
      /\ Holds(m, 19 + na + nb, Decimal(c)) /\ Holds(m, 20 + na + nb + nc, Decimal(d))
  <2>1. Laid(m, a, b, c, d, na, nb, nc, nd)
    BY <1>1, PrintedBytes
  <2> QED
    BY <2>1 DEF Laid
<1>7. ASSUME NEW x \in Nat, Printable(x), NEW o \in Nat, Holds(m, o, Decimal(x))
      PROVE  ParseUInt32(s, [off |-> o, size |-> NumDigits(x)]) = x
  <2>1. \A k \in 1 .. NumDigits(x) : s.head[o + k] = Decimal(x)[k]
    BY <1>7, DecimalLength DEF Holds
  <2> QED
    BY <1>7, <2>1, ParsesBack DEF Printable
<1>8. 17 \in Nat /\ 18 + na \in Nat /\ 19 + na + nb \in Nat /\ 20 + na + nb + nc \in Nat
  <2> HIDE DEF na, nb, nc
  <2> QED
    BY <1>2
<1>9. /\ ParseUInt32(s, found[1]) = a /\ ParseUInt32(s, found[2]) = b
      /\ ParseUInt32(s, found[3]) = c /\ ParseUInt32(s, found[4]) = d
  BY <1>1, <1>5, <1>6, <1>7, <1>8 DEF FieldsOf
<1>10. found[4].off + found[4].size + SzMarkerChar = Len(m)
  <2>1. found[4].off = 20 + na + nb + nc /\ found[4].size = nd
    BY <1>5 DEF FieldsOf
  <2> HIDE DEF na, nb, nc, nd, m
  <2> QED
    BY <1>2, <1>3, <2>1 DEF SzMarkerChar
<1>11. SubSeq(m, SzMarkerChar + 1, SzMarkerChar + SzTm) = MsgId
  <2>1. \A k \in 1 .. 13 : m[3 + k] = MsgId[k]
    BY <1>6, MsgIdBytes DEF Holds
  <2>2. Len(m) \in Nat /\ Len(m) > 16
    <3> DEFINE z == Len(m)
    <3> HIDE DEF na, nb, nc, nd, z
    <3>1. z \in Nat /\ z > 16
      BY <1>2, <1>3 DEF z
    <3> QED
      BY <3>1 DEF z
  <2> HIDE DEF m
  <2>3. SubSeq(m, 4, 16) = [k \in 1 .. 13 |-> m[3 + k]]
    BY <1>3, <2>2
  <2>4. MsgId = [k \in 1 .. 13 |-> MsgId[k]]
    BY MsgIdBytes
  <2>5. SubSeq(m, 4, 16) = MsgId
    BY <2>1, <2>3, <2>4
  <2> QED
    BY <2>5 DEF SzMarkerChar, SzTm
<1> QED
  BY <1>5, <1>9, <1>10, <1>11 DEF MarkerParse

-----------------------------------------------------------------------------
(***************************************************************************)
(* The inductive invariant: how far the loop of splitMessage has come.     *)
(***************************************************************************)
Fragment == [head : Seq(Int), length : Nat, data : Nat]

Whole == text.length

NotCut ==
  /\ {room, step, numParts, off, len} = {0}
  /\ fragments = <<>>

Sizes ==
  /\ Whole > 0
  /\ room = RoomForMarker(Whole, SizeEver)
  /\ step = Step(Whole, SizeEver)
  /\ numParts = NumPartsOf(Whole, SizeEver)

\* All parts but the last are a step long.
Progress ==
  /\ off \in Nat /\ len \in Nat /\ off + len = Whole
  /\ Len(fragments) <= numParts
  /\ len > 0 => off = Len(fragments) * step
  /\ len = 0 => /\ fragments # <<>>
                /\ (Len(fragments) - 1) * step + fragments[Len(fragments)].data = Whole
                /\ Len(fragments) * step >= Whole

FragmentsOK ==
  /\ fragments \in Seq(Fragment)
  /\ \A i \in 1 .. Len(fragments) :
       /\ Len(fragments[i].head) <= room
       /\ fragments[i].data <= step
       /\ fragments[i].length = Len(fragments[i].head) + fragments[i].data

SInv ==
  /\ text \in Texts /\ ever = SizeEver
  /\ at \in {"start", "refused", "passed", "cut", "done"}
  /\ at \in {"start", "refused", "passed"} => NotCut
  /\ at \in {"cut", "done"} => Sizes /\ Progress /\ FragmentsOK
  /\ at = "done" => len = 0

LEMMA InitSInv == SizesEver = {SizeEver} /\ Init => SInv
  BY DEF Init, SInv, NotCut

\* What the limits are good for, once a message is being cut.
LEMMA SizesFacts ==
  ASSUME SizesEver = {SizeEver}, text \in Texts, Sizes
  PROVE  /\ Whole \in Nat /\ room \in Nat /\ step \in Nat /\ step > 0
         /\ numParts \in Nat /\ numParts > 0
         /\ room + step = MaxLength
         /\ Estimate(Whole, SizeEver) \in Nat /\ numParts <= Estimate(Whole, SizeEver)
         /\ room = 23 + 2 * NumDigits(Estimate(Whole, SizeEver)) + 2 * NumDigits(Whole)
         /\ numParts = CeilDiv(Whole, step)
<1>1. SizeEver \in SizesEver /\ SizeEver < MaxLength /\ Whole \in Nat
  BY SplitAssumption DEF Whole
<1>2. SizeEver = 63
  BY MarkerSizes, 0 \in Nat
<1>3. MaxLength > SizeEver
  BY <1>1, <1>2
<1> DEFINE n == Whole
<1>4. n \in Nat /\ n > 0
  BY <1>1 DEF Sizes
<1>5. /\ room = RoomForMarker(n, SizeEver) /\ step = Step(n, SizeEver)
      /\ numParts = NumPartsOf(n, SizeEver)
  BY DEF Sizes
<1>6. NumPartsOf(n, SizeEver) = CeilDiv(n, Step(n, SizeEver))
  BY DEF NumPartsOf
<1> HIDE DEF n
<1>7. /\ RoomForMarker(n, SizeEver) \in Nat
      /\ Step(n, SizeEver) \in Nat /\ Step(n, SizeEver) > 0
      /\ Step(n, SizeEver) + RoomForMarker(n, SizeEver) = MaxLength
      /\ Estimate(n, SizeEver) \in Nat
      /\ RoomForMarker(n, SizeEver) =
           23 + 2 * NumDigits(Estimate(n, SizeEver)) + 2 * NumDigits(n)
      /\ NumPartsOf(n, SizeEver) \in Nat /\ NumPartsOf(n, SizeEver) > 0
      /\ NumPartsOf(n, SizeEver) <= Estimate(n, SizeEver)
  BY <1>3, <1>4, CutSizes
<1>8. room + step = MaxLength
  BY <1>5, <1>7
<1> QED
  BY <1>4, <1>5, <1>6, <1>7, <1>8 DEF n

LEMMA MeasureStep ==
  ASSUME SizesEver = {SizeEver}, SInv, Measure
  PROVE  SInv'
<1>1. /\ text' = text /\ text \in Texts /\ ever' = SizeEver /\ off' = 0 /\ fragments' = <<>>
      /\ at' = "cut" /\ len' = text.length /\ text.length > MaxLength /\ text.length \in Nat
      /\ room' = RoomForMarker(text.length, SizeEver)
      /\ step' = Step(text.length, SizeEver)
      /\ numParts' = NumPartsOf(text.length, SizeEver)
  BY SplitAssumption DEF SInv, Measure, NotCut
<1>2. Sizes'
  BY <1>1 DEF Sizes, Whole
<1>3. step' \in Nat /\ numParts' \in Nat
  <2>1. SizeEver < MaxLength /\ SizeEver = 63
    BY SplitAssumption, MarkerSizes, 0 \in Nat
  <2>2. text.length > 0 /\ MaxLength > SizeEver
    BY <1>1, <2>1
  <2> QED
    BY <1>1, <2>2, CutSizes
<1>4. Progress'
  <2>1. 0 * step' = 0
    BY <1>3, Times
  <2>2. len' > 0
    BY <1>1
  <2> QED
    BY <1>1, <1>3, <2>1, <2>2 DEF Progress, Whole
<1>5. FragmentsOK'
  BY <1>1 DEF FragmentsOK
<1> QED
  BY <1>1, <1>2, <1>4, <1>5 DEF SInv

\* The marker of the next part is no longer than the room.
LEMMA PrintedFits ==
  ASSUME SizesEver = {SizeEver}, SInv, at = "cut", len > 0
  PROVE  /\ Len(fragments) \in Nat /\ Len(fragments) < numParts
         /\ PrintPart \in Seq(Int) /\ Len(PrintPart) \in Nat /\ Len(PrintPart) <= room
<1>1. text \in Texts /\ Sizes /\ Progress /\ FragmentsOK
  BY DEF SInv
<1> DEFINE k == Len(fragments)
           est == Estimate(Whole, SizeEver)
<1>2. /\ Whole \in Nat /\ room \in Nat /\ step \in Nat /\ step > 0 /\ numParts \in Nat
      /\ est \in Nat /\ numParts <= est /\ numParts = CeilDiv(Whole, step)
      /\ room = 23 + 2 * NumDigits(est) + 2 * NumDigits(Whole)
  BY <1>1, SizesFacts
<1>3. k \in Nat
  BY <1>1 DEF FragmentsOK
<1>4. off \in Nat /\ off = k * step /\ off < Whole
  BY <1>1, <1>2 DEF Progress
<1> HIDE DEF k, est
<1>5. k < numParts
  BY <1>2, <1>3, <1>4, BeforeTheEnd
<1>6. k + 1 \in Nat /\ k + 1 <= est /\ off <= Whole
  BY <1>2, <1>3, <1>4, <1>5
<1>7. NumDigits(k + 1) <= NumDigits(est) /\ NumDigits(numParts) <= NumDigits(est)
      /\ NumDigits(off) <= NumDigits(Whole)
  BY <1>2, <1>4, <1>6, NumDigitsMonotone
<1>8. PrintPart = MarkerPrint(MsgId, k + 1, numParts, off, Whole)
  BY DEF PrintPart, Whole, k
<1>9. /\ PrintPart \in Seq(Int)
      /\ Len(PrintPart) = 23 + NumDigits(k + 1) + NumDigits(numParts)
                             + NumDigits(off) + NumDigits(Whole)
  <2>1. k + 1 \in Nat /\ numParts \in Nat /\ off \in Nat /\ Whole \in Nat
    BY <1>2, <1>4, <1>6
  <2> QED
    BY <1>8, <2>1, AnyPrinted
<1> DEFINE d1 == NumDigits(k + 1)
           d2 == NumDigits(numParts)
           d3 == NumDigits(off)
           d4 == NumDigits(Whole)
           d5 == NumDigits(est)
           l == Len(PrintPart)
<1>10. d1 \in Nat /\ d2 \in Nat /\ d3 \in Nat /\ d4 \in Nat /\ d5 \in Nat
  BY <1>2, <1>4, <1>6, NumDigitsProperty
<1>11. l = 23 + d1 + d2 + d3 + d4 /\ d1 <= d5 /\ d2 <= d5 /\ d3 <= d4
       /\ room = 23 + 2 * d5 + 2 * d4
  BY <1>2, <1>7, <1>9
<1> HIDE DEF d1, d2, d3, d4, d5, l
<1>12. l \in Nat /\ l <= room
  BY <1>10, <1>11
<1> QED
  BY <1>3, <1>5, <1>9, <1>12 DEF k, l

(***************************************************************************)
(* One turn of the loop: a part that is not the last is a whole step long, *)
(* and the last one ends where the message ends.                           *)
(***************************************************************************)
LEMMA CutPartStep ==
  ASSUME SizesEver = {SizeEver}, SInv, CutPart
  PROVE  SInv'
<1>0. at = "cut" /\ len > 0 /\ at' = "cut" /\ text \in Texts /\ Sizes /\ Progress /\ FragmentsOK
  BY DEF SInv, CutPart
<1>1. UNCHANGED <<text, ever, room, step, numParts>>
  BY DEF CutPart
<1> DEFINE k == Len(fragments)
           d == PartLength(len)
           p == PrintPart
           f == [head |-> p, length |-> Len(p) + d, data |-> d]
<1>2. k \in Nat /\ k < numParts /\ p \in Seq(Int) /\ Len(p) \in Nat /\ Len(p) <= room
  BY <1>0, PrintedFits
<1>3. Whole \in Nat /\ step \in Nat /\ step > 0 /\ numParts \in Nat
  BY <1>0, SizesFacts
<1>4. off \in Nat /\ len \in Nat /\ off + len = Whole /\ off = k * step
  BY <1>0 DEF Progress
<1>5. d = IF len >= step THEN step ELSE len
  BY DEF PartLength
<1>6. d \in Nat /\ d <= step /\ d <= len /\ d > 0
  BY <1>0, <1>3, <1>4, <1>5
<1>7. fragments' = Append(fragments, f) /\ len' = len - d /\ off' = off + d
  BY DEF CutPart
<1>8. fragments \in Seq(Fragment)
  BY <1>0 DEF FragmentsOK
<1> HIDE DEF d, p
<1>9. f \in Fragment
  BY <1>2, <1>6 DEF Fragment
<1>10. f.head = p /\ f.data = d /\ f.length = Len(p) + d
  OBVIOUS
<1> HIDE DEF f
<1>11. /\ fragments' \in Seq(Fragment) /\ Len(fragments') = k + 1
       /\ fragments'[k + 1] = f /\ \A i \in 1 .. k : fragments'[i] = fragments[i]
  BY <1>7, <1>8, <1>9
<1> HIDE DEF k
<1>12. FragmentsOK'
  <2>1. ASSUME NEW i \in 1 .. k + 1
        PROVE  /\ Len(fragments'[i].head) <= room'
               /\ fragments'[i].data <= step'
               /\ fragments'[i].length = Len(fragments'[i].head) + fragments'[i].data
    <3>1. CASE i = k + 1
      BY <1>1, <1>2, <1>6, <1>10, <1>11, <3>1
    <3>2. CASE i # k + 1
      <4>1. i \in 1 .. k
        BY <1>2, <3>2
      <4> QED
        BY <1>0, <1>1, <1>11, <4>1 DEF FragmentsOK, k
    <3> QED
      BY <3>1, <3>2
  <2> QED
    BY <1>11, <2>1 DEF FragmentsOK
<1>13. Progress'
  <2>1. (k + 1) * step = k * step + step
    BY <1>2, <1>3, Times
  <2>2. len' \in Nat /\ off' \in Nat /\ off' + len' = Whole
    BY <1>4, <1>6, <1>7
  <2>3. len' > 0 => off' = (k + 1) * step
    BY <1>4, <1>5, <1>7, <2>1
  <2>4. len' = 0 => k * step + d = Whole /\ (k + 1) * step >= Whole
    BY <1>3, <1>4, <1>6, <1>7, <2>1
  <2>5. k + 1 <= numParts /\ (k + 1) - 1 = k
    BY <1>2, <1>3
  <2>6. Whole' = Whole /\ fragments' # <<>>
    BY <1>1, <1>2, <1>11 DEF Whole
  <2>7. len' = 0 => (Len(fragments') - 1) * step + fragments'[Len(fragments')].data = Whole
    BY <1>10, <1>11, <2>4, <2>5, Zenon
  <2>8. /\ len' > 0 => off' = Len(fragments') * step'
        /\ len' = 0 => Len(fragments') * step' >= Whole'
        /\ Len(fragments') <= numParts'
    BY <1>1, <1>11, <2>3, <2>4, <2>5, <2>6, Zenon
  <2>9. len' = 0 => (Len(fragments') - 1) * step' + fragments'[Len(fragments')].data = Whole'
    BY <1>1, <2>6, <2>7, Zenon
  <2> QED
    BY <2>2, <2>6, <2>8, <2>9, Zenon DEF Progress
<1>14. Sizes'
  BY <1>0, <1>1 DEF Sizes, Whole
<1> QED
  BY <1>0, <1>1, <1>12, <1>13, <1>14 DEF SInv

LEMMA OtherSteps ==
  ASSUME SInv, Refuse \/ PassOn \/ CutDone \/ UNCHANGED vars
  PROVE  SInv'
<1>1. /\ UNCHANGED <<text, ever, room, step, numParts, off, len, fragments>>
      /\ \/ at = "start" /\ at' \in {"refused", "passed"}
         \/ at = "cut" /\ at' = "done" /\ len = 0
         \/ at' = at
  BY DEF Refuse, PassOn, CutDone, vars
<1>2. (NotCut => NotCut') /\ (Sizes => Sizes') /\ (Progress => Progress')
      /\ (FragmentsOK => FragmentsOK')
  BY <1>1 DEF NotCut, Sizes, Progress, FragmentsOK, Whole
<1> QED
  BY <1>1, <1>2 DEF SInv

-----------------------------------------------------------------------------
(* The theorems.                                                           *)

(***************************************************************************)
(* The inductive invariant holds throughout, for messages that are cut     *)
(* after initialize() has set markerMaxSizeEver.                           *)
(***************************************************************************)
THEOREM Invariance == SizesEver = {SizeEver} => (Spec => []SInv)
<1> SUFFICES ASSUME SizesEver = {SizeEver} PROVE Spec => []SInv
  OBVIOUS
<1>1. SInv /\ [Next]_vars => SInv'
  BY MeasureStep, CutPartStep, OtherSteps DEF Next
<1> QED
  BY InitSInv, <1>1, PTL DEF Spec

(***************************************************************************)
(* Type correctness: the unsigned counters of the loop do not pass zero.   *)
(***************************************************************************)
THEOREM TypeCorrect == SizesEver = {SizeEver} => (Spec => []TypeOK)
<1> SUFFICES ASSUME SizesEver = {SizeEver} PROVE Spec => []TypeOK
  OBVIOUS
<1>1. SInv => TypeOK
  <2> SUFFICES ASSUME SInv PROVE TypeOK
    OBVIOUS
  <2>1. text.length \in Nat /\ ever \in Nat /\ text \in Texts
    BY SplitAssumption DEF SInv
  <2>2. CASE at \in {"cut", "done"}
    <3>1. Sizes /\ Progress /\ FragmentsOK
      BY <2>2 DEF SInv
    <3>2. room \in Nat /\ step \in Nat /\ numParts \in Nat
      BY <2>1, <3>1, SizesFacts
    <3>3. off \in Nat /\ len \in Nat
      BY <3>1 DEF Progress
    <3>4. \A i \in DOMAIN fragments : fragments[i].data \in Nat
      <4>1. fragments \in Seq(Fragment)
        BY <3>1 DEF FragmentsOK
      <4>2. \A i \in DOMAIN fragments : fragments[i] \in Fragment
        BY <4>1
      <4> QED
        BY <4>2 DEF Fragment
    <3> QED
      BY <2>1, <2>2, <3>2, <3>3, <3>4 DEF TypeOK
  <2>3. CASE at \in {"start", "refused", "passed"}
    <3>1. NotCut
      BY <2>3 DEF SInv
    <3>2. room = 0 /\ step = 0 /\ numParts = 0 /\ off = 0 /\ len = 0 /\ fragments = <<>>
      BY <3>1 DEF NotCut
    <3> QED
      BY <2>1, <2>3, <3>2 DEF TypeOK
  <2> QED
    BY <2>2, <2>3 DEF SInv
<1> QED
  BY <1>1, Invariance, PTL

(***************************************************************************)
(* No marker runs over the buffer it is printed into, although the buffer  *)
(* is measured before the number of parts is known.                        *)
(***************************************************************************)
THEOREM BufferSuffices == SizesEver = {SizeEver} => (Spec => []MarkerFits)
<1>1. SInv => MarkerFits
  <2> SUFFICES ASSUME SInv PROVE MarkerFits
    OBVIOUS
  <2>1. CASE at \in {"cut", "done"}
    <3>1. FragmentsOK
      BY <2>1 DEF SInv
    <3>2. DOMAIN fragments = 1 .. Len(fragments)
      BY <3>1 DEF FragmentsOK
    <3> QED
      BY <3>1, <3>2 DEF FragmentsOK, MarkerFits
  <2>2. CASE at \notin {"cut", "done"}
    BY <2>2 DEF SInv, NotCut, MarkerFits
  <2> QED
    BY <2>1, <2>2
<1> QED
  BY <1>1, Invariance, PTL

(***************************************************************************)
(* No fragment is longer than a Tox message may be.                        *)
(***************************************************************************)
THEOREM BaseTakesFragments == SizesEver = {SizeEver} => (Spec => []FragmentFits)
<1> SUFFICES ASSUME SizesEver = {SizeEver} PROVE Spec => []FragmentFits
  OBVIOUS
<1>1. SInv => FragmentFits
  <2> SUFFICES ASSUME SInv PROVE FragmentFits
    OBVIOUS
  <2>1. CASE at \in {"cut", "done"}
    <3>1. FragmentsOK /\ Sizes /\ text \in Texts
      BY <2>1 DEF SInv
    <3>2. DOMAIN fragments = 1 .. Len(fragments) /\ fragments \in Seq(Fragment)
      BY <3>1 DEF FragmentsOK
    <3>3. room \in Nat /\ step \in Nat /\ room + step = MaxLength
      BY <3>1, SizesFacts
    <3>4. ASSUME NEW i \in DOMAIN fragments
          PROVE  fragments[i].length <= MaxLength
      <4>1. fragments[i] \in Fragment
        BY <3>2
      <4>2. fragments[i].data \in Nat /\ Len(fragments[i].head) \in Nat
        BY <4>1 DEF Fragment
      <4>3. /\ Len(fragments[i].head) <= room /\ fragments[i].data <= step
            /\ fragments[i].length = Len(fragments[i].head) + fragments[i].data
        BY <3>1, <3>2 DEF FragmentsOK
      <4> QED
        BY <3>3, <4>2, <4>3
    <3> QED
      BY <3>4 DEF FragmentFits
  <2>2. CASE at \notin {"cut", "done"}
    BY <2>2 DEF SInv, NotCut, FragmentFits
  <2> QED
    BY <2>1, <2>2
<1> QED
  BY <1>1, Invariance, PTL

(***************************************************************************)
(* The array has room for every fragment, and the loop leaves it full, the *)
(* last fragment ending where the message ends: the arithmetic half of     *)
(* Recombinable, for every message.                                        *)
(***************************************************************************)
CutExactly ==
  /\ Len(fragments) <= numParts
  /\ at = "done" => /\ Len(fragments) = numParts
                    /\ (numParts - 1) * step + fragments[numParts].data = text.length

THEOREM MessageUsedUp == SizesEver = {SizeEver} => (Spec => []CutExactly)
<1> SUFFICES ASSUME SizesEver = {SizeEver} PROVE Spec => []CutExactly
  OBVIOUS
<1>1. SInv => CutExactly
  <2> SUFFICES ASSUME SInv PROVE CutExactly
    OBVIOUS
  <2>1. CASE at = "cut"
    BY <2>1 DEF SInv, Progress, CutExactly
  <2>2. CASE at = "done"
    <3>1. Sizes /\ Progress /\ FragmentsOK /\ text \in Texts /\ len = 0
      BY <2>2 DEF SInv
    <3> DEFINE k == Len(fragments)
    <3>2. /\ k \in Nat /\ k <= numParts /\ k * step >= Whole
          /\ (k - 1) * step + fragments[k].data = Whole
      BY <3>1 DEF Progress, FragmentsOK
    <3>3. Whole \in Nat /\ step \in Nat /\ step > 0 /\ numParts \in Nat /\ numParts = CeilDiv(Whole, step)
      BY <3>1, SizesFacts
    <3> HIDE DEF k
    <3>4. k >= numParts
      BY <3>2, <3>3, BeforeTheEnd
    <3>5. k = numParts
      BY <3>2, <3>3, <3>4
    <3> QED
      BY <2>2, <3>2, <3>5 DEF CutExactly, Whole, k
  <2>3. CASE at \in {"start", "refused", "passed"}
    <3>1. fragments = <<>> /\ numParts = 0
      BY <2>3 DEF SInv, NotCut
    <3> QED
      BY <2>3, <3>1 DEF CutExactly
  <2> QED
    BY <2>1, <2>2, <2>3 DEF SInv
<1> QED
  BY <1>1, Invariance, PTL

-----------------------------------------------------------------------------
(* The fragments can be put together again.                                *)

\* The fragment cut last carries the marker of its place, and some data.
LastPrinted ==
  fragments # <<>> =>
    LET k == Len(fragments)
    IN  /\ fragments[k].head = MarkerPrint(MsgId, k, numParts, (k - 1) * step, Whole)
        /\ fragments[k].data > 0

LEMMA LastPrintedStep ==
  ASSUME SizesEver = {SizeEver}, SInv, LastPrinted, [Next]_vars
  PROVE  LastPrinted'
<1>1. ASSUME CutPart PROVE LastPrinted'
  <2> DEFINE k == Len(fragments)
             d == PartLength(len)
             p == PrintPart
             f == [head |-> p, length |-> Len(p) + d, data |-> d]
  <2>1. at = "cut" /\ len > 0 /\ text \in Texts /\ Sizes /\ Progress /\ FragmentsOK
    BY <1>1 DEF SInv, CutPart
  <2>2. UNCHANGED <<text, numParts, step>> /\ fragments' = Append(fragments, f)
    BY <1>1 DEF CutPart
  <2>3. /\ k \in Nat /\ fragments \in Seq(Fragment)
        /\ p \in Seq(Int) /\ Len(p) \in Nat
    BY <2>1, PrintedFits DEF FragmentsOK
  <2>4. step \in Nat /\ step > 0 /\ len \in Nat /\ off = k * step
    BY <2>1, SizesFacts DEF Progress
  <2>5. d \in Nat /\ d > 0
    BY <2>1, <2>4 DEF PartLength
  <2>6. p = MarkerPrint(MsgId, k + 1, numParts, k * step, Whole)
    BY <2>4 DEF PrintPart, Whole
  <2> HIDE DEF d, p
  <2>7. f \in Fragment /\ f.head = p /\ f.data = d
    BY <2>3, <2>5 DEF Fragment
  <2> HIDE DEF f
  <2>8. Len(fragments') = k + 1 /\ fragments'[k + 1] = f
    BY <2>2, <2>3, <2>7
  <2> HIDE DEF k
  <2>9. (k + 1) - 1 = k
    BY <2>3
  <2>10. Whole' = Whole /\ numParts' = numParts /\ step' = step
    BY <2>2 DEF Whole
  <2>11. /\ fragments'[Len(fragments')].head =
              MarkerPrint(MsgId, Len(fragments'), numParts', (Len(fragments') - 1) * step', Whole')
         /\ fragments'[Len(fragments')].data > 0
    BY <2>5, <2>6, <2>7, <2>8, <2>9, <2>10
  <2> QED
    BY <2>11 DEF LastPrinted
<1>2. ASSUME Measure PROVE LastPrinted'
  BY <1>2 DEF SInv, Measure, NotCut, LastPrinted
<1>3. ASSUME Refuse \/ PassOn \/ CutDone \/ UNCHANGED vars PROVE LastPrinted'
  <2>1. UNCHANGED <<text, numParts, step, fragments>>
    BY <1>3 DEF Refuse, PassOn, CutDone, vars
  <2> QED
    BY <2>1 DEF LastPrinted, Whole
<1> QED
  BY <1>1, <1>2, <1>3 DEF Next

\* No message has more bytes than an unsigned can count: splitMessage narrows the size_t of its length (c:447).
LengthsUnsigned == \A t \in Texts : t.length < 4294967296

\* There are no more parts than bytes, as every part has one.
LEMMA FewParts ==
  ASSUME SizesEver = {SizeEver}, text \in Texts, Sizes
  PROVE  numParts <= Whole
<1>1. /\ Whole \in Nat /\ step \in Nat /\ step > 0 /\ numParts \in Nat
      /\ numParts = CeilDiv(Whole, step)
  BY SizesFacts
<1>2. Whole * step >= Whole
  <2>1. 1 <= step /\ Whole * 1 = Whole
    BY <1>1
  <2>2. Whole * 1 <= Whole * step /\ Whole * step \in Nat
    BY <1>1, <2>1, Times
  <2> QED
    BY <1>1, <2>1, <2>2
<1> QED
  BY <1>1, <1>2, BeforeTheEnd

LEMMA LastIsRecognized ==
  ASSUME SizesEver = {SizeEver}, LengthsUnsigned, SInv, LastPrinted, fragments # <<>>,
         NEW f, f = fragments[Len(fragments)]
  PROVE  /\ MarkerExists(f, Other)
         /\ MarkerParse(f, Other) =
              [id |-> MsgId, partNo |-> Len(fragments), numParts |-> numParts,
               off |-> (Len(fragments) - 1) * step, sz |-> Whole, size |-> Len(f.head)]
<1> DEFINE k == Len(fragments)
           o == (k - 1) * step
<1>1. text \in Texts /\ Sizes /\ Progress /\ FragmentsOK
  BY DEF SInv, NotCut
<1>2. /\ Whole \in Nat /\ step \in Nat /\ step > 0 /\ numParts \in Nat /\ numParts <= Whole
      /\ numParts = CeilDiv(Whole, step)
  BY <1>1, SizesFacts, FewParts
<1>3. k \in Nat /\ k > 0 /\ k <= numParts /\ fragments \in Seq(Fragment)
  BY <1>1 DEF Progress, FragmentsOK
<1>4. /\ f \in Fragment /\ f.length = Len(f.head) + f.data /\ f.data > 0
      /\ f.head = MarkerPrint(MsgId, k, numParts, o, Whole)
  <2>1. k \in 1 .. Len(fragments)
    BY <1>3
  <2> QED
    BY <1>1, <1>3, <2>1 DEF LastPrinted, FragmentsOK
<1>5. f.data \in Nat /\ f.length \in Nat /\ Len(f.head) \in Nat
  BY <1>4 DEF Fragment
<1>6. Len(f.head) < f.length
  BY <1>4, <1>5
<1>7. k - 1 \in Nat /\ k - 1 < numParts
  <2> HIDE DEF k
  <2> QED
    BY <1>2, <1>3
<1>8. o \in Nat /\ o < Whole
  <2> DEFINE j == k - 1
  <2>1. j \in Nat /\ j < CeilDiv(Whole, step)
    BY <1>2, <1>7
  <2> HIDE DEF j
  <2>2. j * step < Whole /\ j * step \in Nat
    <3>1. j * step \in Nat
      BY <1>2, <2>1, Times
    <3>2. ~(j * step >= Whole)
      <4>1. CeilDiv(Whole, step) \in Nat
        BY <1>2
      <4>2. j * step >= Whole => j >= CeilDiv(Whole, step)
        BY <1>2, <2>1, BeforeTheEnd
      <4> QED
        BY <2>1, <4>1, <4>2
    <3> QED
      BY <1>2, <3>1, <3>2
  <2> QED
    BY <2>2 DEF j
<1>9. Whole < 10 * Power[10]
  <2>1. Whole < 4294967296
    BY <1>1 DEF LengthsUnsigned, Whole
  <2> QED
    BY <1>2, <2>1, PowerValues
<1> HIDE DEF k, o
<1>10. 10 * Power[10] \in Nat
  BY PowerValues
<1>11. Printable(k) /\ Printable(numParts) /\ Printable(o) /\ Printable(Whole)
  <2> DEFINE z == 10 * Power[10]
  <2>1. Whole < z /\ z \in Nat
    BY <1>9, <1>10
  <2> HIDE DEF z
  <2>2. k < z /\ numParts < z /\ o < z
    BY <1>2, <1>3, <1>8, <2>1
  <2> QED
    BY <2>1, <2>2 DEF Printable, z
<1>12. Begins(f, k, numParts, o, Whole)
  BY <1>2, <1>3, <1>4, <1>5, <1>6, <1>8 DEF Begins
<1>13. /\ MarkerExists(f, Other)
       /\ MarkerParse(f, Other) =
            [id |-> MsgId, partNo |-> k, numParts |-> numParts,
             off |-> o, sz |-> Whole, size |-> Len(f.head)]
  BY <1>11, <1>12, PrintThenParse
<1> QED
  BY <1>13 DEF k, o

(***************************************************************************)
(* What the friend reads from the fragments puts them back into the        *)
(* message: their markers are recognized, their numbers are those that     *)
(* were printed, and the array is full when the message is used up.        *)
(***************************************************************************)
THEOREM FragmentsRecombine ==
  SizesEver = {SizeEver} /\ LengthsUnsigned => (Spec => []Recombinable)
<1> SUFFICES ASSUME SizesEver = {SizeEver}, LengthsUnsigned PROVE Spec => []Recombinable
  OBVIOUS
<1>1. Init => LastPrinted
  BY DEF Init, LastPrinted
<1>2. SInv /\ LastPrinted /\ [Next]_vars => LastPrinted'
  BY LastPrintedStep
<1>3. SInv /\ LastPrinted /\ CutExactly => Recombinable
  <2> SUFFICES ASSUME SInv, LastPrinted, CutExactly PROVE Recombinable
    OBVIOUS
  <2> DEFINE f == Last(fragments)
  <2>1. f = fragments[Len(fragments)]
    BY DEF Last
  <2> HIDE DEF f
  <2>2. fragments # <<>> =>
          /\ MarkerExists(f, Other)
          /\ MarkerParse(f, Other) =
               [id |-> MsgId, partNo |-> Len(fragments), numParts |-> numParts,
                off |-> (Len(fragments) - 1) * step, sz |-> text.length, size |-> Len(f.head)]
    BY <2>1, LastIsRecognized DEF Whole
  <2>3. Len(fragments) <= numParts
    BY DEF CutExactly
  <2>4. at = "done" => /\ Len(fragments) = numParts
                       /\ (numParts - 1) * step + f.data = text.length
    BY <2>1 DEF CutExactly
  <2> QED
    BY <2>2, <2>3, <2>4 DEF Recombinable, f
<1> QED
  BY <1>1, <1>2, <1>3, Invariance, MessageUsedUp, PTL DEF Spec

-----------------------------------------------------------------------------
(* Only what has the form of a fragment is refused.                        *)

\* The bytes of IsMarked, for fields of a, b, c and d bytes.
MarkedAt(s, a, b, c, d) ==
  /\ \A k \in 0 .. 2 : ByteAt(s, k, Other) = MarkerChar[k + 1]
  /\ \A i \in 3 .. 15 : ByteAt(s, i, Other) \in Digits
  /\ ByteAt(s, 16, Other) = Bar
  /\ \A i \in 17 .. 16 + a : ByteAt(s, i, Other) \in Digits
  /\ ByteAt(s, 17 + a, Other) = Bar
  /\ \A i \in 18 + a .. 17 + a + b : ByteAt(s, i, Other) \in Digits
  /\ ByteAt(s, 18 + a + b, Other) = Bar
  /\ \A i \in 19 + a + b .. 18 + a + b + c : ByteAt(s, i, Other) \in Digits
  /\ ByteAt(s, 19 + a + b + c, Other) = Bar
  /\ \A i \in 20 + a + b + c .. 19 + a + b + c + d : ByteAt(s, i, Other) \in Digits
  /\ \A k \in 0 .. 2 : ByteAt(s, 20 + a + b + c + d + k, Other) = MarkerChar[k + 1]

LEMMA MarkedSomewhere ==
  ASSUME NEW s
  PROVE  IsMarked(s) <=> s.length > 27 /\ \E a, b, c, d \in 1 .. 10 : MarkedAt(s, a, b, c, d)
<1> DEFINE Char(i)      == \A k \in 0 .. 2 : ByteAt(s, i + k, Other) = MarkerChar[k + 1]
           Number(i, n) == \A k \in i .. i + n - 1 : ByteAt(s, k, Other) \in Digits
           Sep(i)       == ByteAt(s, i, Other) = Bar
           Tail4(a, b, c, d) == Number(20 + a + b + c, d) /\ Char(20 + a + b + c + d)
           Tail3(a, b, c) == Number(19 + a + b, c) /\ Sep(19 + a + b + c)
           Tail2(a, b) == Number(18 + a, b) /\ Sep(18 + a + b)
           Tail1(a) == Number(17, a) /\ Sep(17 + a)
           Start == Char(0) /\ Number(3, 13) /\ Sep(16)
<1>1. IsMarked(s) <=>
        /\ s.length > 27 /\ Start
        /\ \E a \in 1 .. 10 : Tail1(a) /\ \E b \in 1 .. 10 : Tail2(a, b)
             /\ \E c \in 1 .. 10 : Tail3(a, b, c) /\ \E d \in 1 .. 10 : Tail4(a, b, c, d)
  BY DEF IsMarked
<1>2. ASSUME NEW a \in 1 .. 10, NEW b \in 1 .. 10, NEW c \in 1 .. 10, NEW d \in 1 .. 10
      PROVE  MarkedAt(s, a, b, c, d) <=>
               Start /\ Tail1(a) /\ Tail2(a, b) /\ Tail3(a, b, c) /\ Tail4(a, b, c, d)
  <2>1. /\ 17 + a - 1 = 16 + a /\ 18 + a + b - 1 = 17 + a + b
        /\ 19 + a + b + c - 1 = 18 + a + b + c /\ 20 + a + b + c + d - 1 = 19 + a + b + c + d
        /\ 3 + 13 - 1 = 15
    OBVIOUS
  <2>2. \A k \in 0 .. 2 : 0 + k = k
    OBVIOUS
  <2>3. Start <=> /\ \A k \in 0 .. 2 : ByteAt(s, k, Other) = MarkerChar[k + 1]
                  /\ \A i \in 3 .. 15 : ByteAt(s, i, Other) \in Digits
                  /\ ByteAt(s, 16, Other) = Bar
    BY <2>1, <2>2
  <2>4. Tail1(a) <=> /\ \A i \in 17 .. 16 + a : ByteAt(s, i, Other) \in Digits
                     /\ ByteAt(s, 17 + a, Other) = Bar
    BY <2>1
  <2>5. Tail2(a, b) <=> /\ \A i \in 18 + a .. 17 + a + b : ByteAt(s, i, Other) \in Digits
                        /\ ByteAt(s, 18 + a + b, Other) = Bar
    BY <2>1
  <2>6. Tail3(a, b, c) <=> /\ \A i \in 19 + a + b .. 18 + a + b + c : ByteAt(s, i, Other) \in Digits
                           /\ ByteAt(s, 19 + a + b + c, Other) = Bar
    BY <2>1
  <2>7. Tail4(a, b, c, d) <=>
          /\ \A i \in 20 + a + b + c .. 19 + a + b + c + d : ByteAt(s, i, Other) \in Digits
          /\ \A k \in 0 .. 2 : ByteAt(s, 20 + a + b + c + d + k, Other) = MarkerChar[k + 1]
    BY <2>1
  <2> HIDE DEF Start, Tail1, Tail2, Tail3, Tail4
  <2> QED
    BY <2>3, <2>4, <2>5, <2>6, <2>7 DEF MarkedAt
<1> HIDE DEF Start, Tail1, Tail2, Tail3, Tail4
<1>3. ASSUME IsMarked(s)
      PROVE  s.length > 27 /\ \E a, b, c, d \in 1 .. 10 : MarkedAt(s, a, b, c, d)
  <2>1. PICK a \in 1 .. 10 : Tail1(a) /\ \E b \in 1 .. 10 : Tail2(a, b)
               /\ \E c \in 1 .. 10 : Tail3(a, b, c) /\ \E d \in 1 .. 10 : Tail4(a, b, c, d)
    BY <1>1, <1>3, Zenon
  <2>2. PICK b \in 1 .. 10 : Tail2(a, b)
               /\ \E c \in 1 .. 10 : Tail3(a, b, c) /\ \E d \in 1 .. 10 : Tail4(a, b, c, d)
    BY <2>1, Zenon
  <2>3. PICK c \in 1 .. 10 : Tail3(a, b, c) /\ \E d \in 1 .. 10 : Tail4(a, b, c, d)
    BY <2>2, Zenon
  <2>4. PICK d \in 1 .. 10 : Tail4(a, b, c, d)
    BY <2>3, Zenon
  <2>5. s.length > 27 /\ Start
    BY <1>1, <1>3, Zenon
  <2>6. MarkedAt(s, a, b, c, d)
    BY <1>2, <2>1, <2>2, <2>3, <2>4, <2>5, Zenon
  <2> QED
    BY <2>5, <2>6, Zenon
<1>4. ASSUME s.length > 27, NEW a \in 1 .. 10, NEW b \in 1 .. 10, NEW c \in 1 .. 10, NEW d \in 1 .. 10,
             MarkedAt(s, a, b, c, d)
      PROVE  IsMarked(s)
  <2>1. Start /\ Tail1(a) /\ Tail2(a, b) /\ Tail3(a, b, c) /\ Tail4(a, b, c, d)
    BY <1>2, <1>4, Zenon
  <2> QED
    BY <1>1, <1>4, <2>1, Zenon
<1> QED
  BY <1>3, <1>4, Zenon

\* A byte that matters lies within the message.
LEMMA Inside ==
  ASSUME NEW s, s.length \in Nat, NEW i \in Nat, ByteAt(s, i, Other) # Other
  PROVE  i < s.length /\ \A past : ByteAt(s, i, past) = ByteAt(s, i, Other)
BY DEF ByteAt

LEMMA OtherApart ==
  /\ Other \notin Digits /\ Bar # Other
  /\ \A k \in 0 .. 2 : MarkerChar[k + 1] # Other
BY DEF Other, Digits, Zero, Bar, MarkerChar

\* What has the form is recognized, whatever is behind it.
LEMMA MarkedIsRecognized ==
  ASSUME NEW s, s.length \in Nat, IsMarked(s), NEW past
  PROVE  MarkerExists(s, past)
<1> DEFINE l == s.length
<1>1. PICK a, b, c, d \in 1 .. 10 : l > 27 /\ MarkedAt(s, a, b, c, d)
  BY MarkedSomewhere
<1> DEFINE B(i) == ByteAt(s, i, Other)
<1>2. \A i \in Nat : B(i) # Other => i < l /\ ByteAt(s, i, past) = B(i)
  BY Inside
<1>3. /\ \A k \in 0 .. 2 : B(k) = MarkerChar[k + 1]
      /\ \A i \in 3 .. 15 : B(i) \in Digits
      /\ B(16) = Bar
  BY <1>1 DEF MarkedAt
<1>4. (\A i \in 17 .. 16 + a : B(i) \in Digits) /\ B(17 + a) = Bar
  BY <1>1 DEF MarkedAt
<1>5. (\A i \in 18 + a .. 17 + a + b : B(i) \in Digits) /\ B(18 + a + b) = Bar
  BY <1>1 DEF MarkedAt
<1>6. (\A i \in 19 + a + b .. 18 + a + b + c : B(i) \in Digits) /\ B(19 + a + b + c) = Bar
  BY <1>1 DEF MarkedAt
<1>7. /\ \A i \in 20 + a + b + c .. 19 + a + b + c + d : B(i) \in Digits
      /\ \A k \in 0 .. 2 : B(20 + a + b + c + d + k) = MarkerChar[k + 1]
  BY <1>1 DEF MarkedAt
<1> HIDE DEF B, l
<1>8. ASSUME NEW p \in Nat, NEW n \in 1 .. 10, NEW f \in 1 .. 4,
             \A i \in p .. p + n - 1 : B(i) \in Digits,
             IF f < 4 THEN B(p + n) = Bar /\ B(p + n + 1) # Other
                      ELSE \A k \in 0 .. 2 : B(p + n + k) = MarkerChar[k + 1]
      PROVE  FieldAt(s, past, f, p, n)
  <2>1. \A k \in 0 .. n - 1 : ByteAt(s, p + k, Other) \in Digits
    <3> SUFFICES ASSUME NEW k \in 0 .. n - 1 PROVE B(p + k) \in Digits
      BY DEF B
    <3>1. p + k \in p .. p + n - 1
      OBVIOUS
    <3> QED
      BY <1>8, <3>1
  <2>2. p + n \in Nat /\ p + n + 0 = p + n /\ p + n + 1 \in Nat /\ p + n + 2 \in Nat
    OBVIOUS
  <2>3. CASE f < 4
    <3>1. B(p + n) = Bar /\ B(p + n + 1) # Other
      BY <1>8, <2>3
    <3>2. p + n + 1 < l /\ ByteAt(s, p + n, past) = Bar
      BY <1>2, <2>2, <3>1, OtherApart
    <3>3. ByteAt(s, p + n, Other) \notin Digits
      BY <3>1, BytesApart DEF B
    <3> QED
      BY <2>1, <2>3, <3>2, <3>3 DEF FieldAt, DigitsFrom, FieldEnds, NInts, l
  <2>4. CASE f = 4
    <3>1. \A k \in 0 .. 2 : B(p + n + k) = MarkerChar[k + 1]
      BY <1>8, <2>4
    <3>2. \A k \in 0 .. 2 : ByteAt(s, p + n + k, past) = MarkerChar[k + 1]
      <4> SUFFICES ASSUME NEW k \in 0 .. 2 PROVE ByteAt(s, p + n + k, past) = MarkerChar[k + 1]
        OBVIOUS
      <4>1. p + n + k \in Nat
        OBVIOUS
      <4> QED
        BY <1>2, <3>1, <4>1, OtherApart
    <3>3. p + n + 1 < l
      <4>1. B(p + n + 1) = MarkerChar[1 + 1] /\ 1 \in 0 .. 2
        BY <3>1
      <4> QED
        BY <1>2, <2>2, <4>1, OtherApart
    <3>4. ByteAt(s, p + n, Other) \notin Digits
      <4>1. B(p + n) = MarkerChar[0 + 1] /\ 0 + 1 = 1
        BY <2>2, <3>1
      <4> QED
        BY <4>1, BytesApart DEF B
    <3> QED
      BY <2>1, <2>4, <3>2, <3>3, <3>4
      DEF FieldAt, DigitsFrom, FieldEnds, NInts, IsMarkerChar, SzMarkerChar, l
  <2> QED
    BY <2>3, <2>4
<1>9. FieldAt(s, past, 1, 17, a)
  <2>1. 18 + a \in 18 + a .. 17 + a + b /\ 17 + a + 1 = 18 + a /\ 17 + a - 1 = 16 + a
    OBVIOUS
  <2>2. B(17 + a + 1) # Other
    BY <1>5, <2>1, OtherApart
  <2> QED
    BY <1>4, <1>8, <2>1, <2>2
<1>10. FieldAt(s, past, 2, 18 + a, b)
  <2>1. /\ 19 + a + b \in 19 + a + b .. 18 + a + b + c /\ 18 + a + b + 1 = 19 + a + b
        /\ 18 + a + b - 1 = 17 + a + b /\ 18 + a \in Nat
    OBVIOUS
  <2>2. B(18 + a + b + 1) # Other
    BY <1>6, <2>1, OtherApart
  <2> QED
    BY <1>5, <1>8, <2>1, <2>2
<1>11. FieldAt(s, past, 3, 19 + a + b, c)
  <2>1. /\ 20 + a + b + c \in 20 + a + b + c .. 19 + a + b + c + d
        /\ 19 + a + b + c + 1 = 20 + a + b + c
        /\ 19 + a + b + c - 1 = 18 + a + b + c /\ 19 + a + b \in Nat
    OBVIOUS
  <2>2. B(19 + a + b + c + 1) # Other
    BY <1>7, <2>1, OtherApart
  <2> QED
    BY <1>6, <1>8, <2>1, <2>2
<1>12. FieldAt(s, past, 4, 20 + a + b + c, d)
  <2>1. 20 + a + b + c + d - 1 = 19 + a + b + c + d /\ 20 + a + b + c \in Nat
    OBVIOUS
  <2> QED
    BY <1>7, <1>8, <2>1
<1>13. IsMarkerChar(s, 0, past)
  <2>1. ASSUME NEW k \in 0 .. 2 PROVE ByteAt(s, 0 + k, past) = MarkerChar[k + 1]
    <3>1. k \in Nat /\ 0 + k = k
      OBVIOUS
    <3> QED
      BY <1>2, <1>3, <3>1, OtherApart
  <2> QED
    BY <2>1 DEF IsMarkerChar, SzMarkerChar
<1>14. \A i \in 3 .. 15 : ByteAt(s, i, past) \in Digits
  <2>1. \A i \in 3 .. 15 : i \in Nat
    OBVIOUS
  <2> QED
    BY <1>2, <1>3, <2>1, OtherApart
<1>15. ByteAt(s, 16, past) = Bar
  BY <1>2, <1>3, OtherApart
<1>16. FormAt(s, past, a, b, c, d)
  BY <1>1, <1>9, <1>10, <1>11, <1>12, <1>13, <1>14, <1>15 DEF FormAt, l
<1> QED
  BY <1>16, FormIsParsed

\* Up to byte e, u has what s has with past behind it.
SameBytes(u, s, past, e) == \A i \in 0 .. e : ByteAt(u, i, Other) = ByteAt(s, i, past)

\* What is recognized in s has the form, in any message with the same bytes.
LEMMA FormIsMarked ==
  ASSUME NEW s, s.length \in Nat, NEW past,
         NEW a \in 1 .. 10, NEW b \in 1 .. 10, NEW c \in 1 .. 10, NEW d \in 1 .. 10,
         FormAt(s, past, a, b, c, d),
         NEW u, u.length > 27,
         SameBytes(u, s, past, 22 + a + b + c + d)
  PROVE  IsMarked(u)
<1> DEFINE l == s.length
           B(i) == ByteAt(s, i, past)
           U(i) == ByteAt(u, i, Other)
           e == 22 + a + b + c + d
<1>1. \A i \in 0 .. e : U(i) = B(i)
  BY DEF SameBytes
<1>2. l \in Nat /\ l > 27 /\ 20 + a + b + c + d + 1 < l
  BY DEF FormAt, FieldAt
<1>3. ASSUME NEW i \in Nat, i < l PROVE B(i) = ByteAt(s, i, Other)
  BY <1>2, <1>3 DEF ByteAt
<1>4. /\ \A k \in 0 .. 2 : B(0 + k) = MarkerChar[k + 1]
      /\ \A i \in 3 .. 15 : B(i) \in Digits
      /\ B(16) = Bar
  BY DEF FormAt, IsMarkerChar, SzMarkerChar
<1>5. /\ \A k \in 0 .. a - 1 : ByteAt(s, 17 + k, Other) \in Digits
      /\ B(17 + a) = Bar
  BY DEF FormAt, FieldAt, DigitsFrom, FieldEnds, NInts
<1>6. /\ \A k \in 0 .. b - 1 : ByteAt(s, 18 + a + k, Other) \in Digits
      /\ B(18 + a + b) = Bar
  BY DEF FormAt, FieldAt, DigitsFrom, FieldEnds, NInts
<1>7. /\ \A k \in 0 .. c - 1 : ByteAt(s, 19 + a + b + k, Other) \in Digits
      /\ B(19 + a + b + c) = Bar
  BY DEF FormAt, FieldAt, DigitsFrom, FieldEnds, NInts
<1>8. /\ \A k \in 0 .. d - 1 : ByteAt(s, 20 + a + b + c + k, Other) \in Digits
      /\ \A k \in 0 .. 2 : B(20 + a + b + c + d + k) = MarkerChar[k + 1]
  BY DEF FormAt, FieldAt, DigitsFrom, FieldEnds, NInts, IsMarkerChar, SzMarkerChar
<1> HIDE DEF B, U, l
<1>9. ASSUME NEW p \in Nat, NEW n \in 1 .. 10, p + n <= e - 2,
             \A k \in 0 .. n - 1 : ByteAt(s, p + k, Other) \in Digits
      PROVE  \A i \in p .. p + n - 1 : U(i) \in Digits
  <2> SUFFICES ASSUME NEW i \in p .. p + n - 1 PROVE U(i) \in Digits
    OBVIOUS
  <2>1. i \in Nat /\ i < l /\ i \in 0 .. e
    BY <1>2, <1>9
  <2>2. i - p \in 0 .. n - 1 /\ p + (i - p) = i
    OBVIOUS
  <2>3. ByteAt(s, p + (i - p), Other) \in Digits
    BY <1>9, <2>2
  <2> QED
    BY <1>1, <1>3, <2>1, <2>2, <2>3
<1>10. /\ \A k \in 0 .. 2 : U(k) = MarkerChar[k + 1]
       /\ \A i \in 3 .. 15 : U(i) \in Digits
       /\ U(16) = Bar
  <2>1. \A i \in 0 .. 16 : i \in 0 .. e
    OBVIOUS
  <2>2. \A k \in 0 .. 2 : 0 + k = k /\ k \in 0 .. 16
    OBVIOUS
  <2>3. (\A i \in 3 .. 15 : i \in 0 .. 16) /\ 16 \in 0 .. 16
    OBVIOUS
  <2> QED
    BY <1>1, <1>4, <2>1, <2>2, <2>3
<1>11. (\A i \in 17 .. 16 + a : U(i) \in Digits) /\ U(17 + a) = Bar
  <2>1. 17 + a - 1 = 16 + a /\ 17 + a <= e - 2 /\ 17 + a \in 0 .. e
    OBVIOUS
  <2>2. \A i \in 17 .. 17 + a - 1 : U(i) \in Digits
    BY <1>5, <1>9, <2>1
  <2> QED
    BY <1>1, <1>5, <2>1, <2>2
<1>12. (\A i \in 18 + a .. 17 + a + b : U(i) \in Digits) /\ U(18 + a + b) = Bar
  <2> DEFINE p == 18 + a
  <2>1. p + b - 1 = 17 + a + b /\ p + b <= e - 2 /\ p + b \in 0 .. e /\ p \in Nat
        /\ p + b = 18 + a + b
    OBVIOUS
  <2>2. \A k \in 0 .. b - 1 : ByteAt(s, p + k, Other) \in Digits
    BY <1>6
  <2> HIDE DEF p
  <2>3. \A i \in p .. p + b - 1 : U(i) \in Digits
    BY <1>9, <2>1, <2>2
  <2>4. U(p + b) = B(p + b)
    BY <1>1, <2>1
  <2> QED
    BY <1>6, <2>1, <2>3, <2>4 DEF p
<1>13. (\A i \in 19 + a + b .. 18 + a + b + c : U(i) \in Digits) /\ U(19 + a + b + c) = Bar
  <2> DEFINE p == 19 + a + b
  <2>1. p + c - 1 = 18 + a + b + c /\ p + c <= e - 2 /\ p + c \in 0 .. e /\ p \in Nat
        /\ p + c = 19 + a + b + c
    OBVIOUS
  <2>2. \A k \in 0 .. c - 1 : ByteAt(s, p + k, Other) \in Digits
    BY <1>7
  <2> HIDE DEF p
  <2>3. \A i \in p .. p + c - 1 : U(i) \in Digits
    BY <1>9, <2>1, <2>2
  <2>4. U(p + c) = B(p + c)
    BY <1>1, <2>1
  <2> QED
    BY <1>7, <2>1, <2>3, <2>4 DEF p
<1>14. /\ \A i \in 20 + a + b + c .. 19 + a + b + c + d : U(i) \in Digits
       /\ \A k \in 0 .. 2 : U(20 + a + b + c + d + k) = MarkerChar[k + 1]
  <2> DEFINE p == 20 + a + b + c
  <2>1. p + d - 1 = 19 + a + b + c + d /\ p + d <= e - 2 /\ p \in Nat
        /\ p + d = 20 + a + b + c + d
    OBVIOUS
  <2>2. \A k \in 0 .. d - 1 : ByteAt(s, p + k, Other) \in Digits
    BY <1>8
  <2>3. \A k \in 0 .. 2 : 20 + a + b + c + d + k \in 0 .. e
    OBVIOUS
  <2> HIDE DEF p
  <2>4. \A i \in p .. p + d - 1 : U(i) \in Digits
    BY <1>9, <2>1, <2>2
  <2> HIDE DEF e
  <2>5. \A k \in 0 .. 2 : U(20 + a + b + c + d + k) = MarkerChar[k + 1]
    BY <1>1, <1>8, <2>3
  <2> QED
    BY <2>1, <2>4, <2>5 DEF p
<1>15. MarkedAt(u, a, b, c, d)
  BY <1>10, <1>11, <1>12, <1>13, <1>14 DEF MarkedAt, U
<1> QED
  BY <1>15, MarkedSomewhere

\* Recognized, with one byte or none behind the end: the form, or nearly.
LEMMA RecognizedIsMarked ==
  ASSUME NEW s, s.length \in Nat, s.head \in Seq(Int), Len(s.head) <= s.length,
         NEW past \in Pasts, MarkerExists(s, past)
  PROVE  IsMarked(s) \/ NearlyMarked(s)
<1> DEFINE l == s.length
           n == Len(s.head)
<1>1. l \in Nat /\ n \in Nat /\ n <= l
  OBVIOUS
<1>2. PICK a, b, c, d \in 1 .. 10 : FormAt(s, past, a, b, c, d)
  BY FormIsParsed
<1> DEFINE e == 22 + a + b + c + d
<1>3. l > 27 /\ e - 1 < l
  <2>1. l > 27 /\ 20 + a + b + c + d + 1 < l
    BY <1>2 DEF FormAt, FieldAt
  <2> HIDE DEF l
  <2> QED
    BY <1>1, <2>1
<1>4. \A k \in 0 .. 2 : ByteAt(s, 20 + a + b + c + d + k, past) = MarkerChar[k + 1]
  <2>1. FieldAt(s, past, 4, 20 + a + b + c, d)
    BY <1>2 DEF FormAt
  <2>2. IsMarkerChar(s, 20 + a + b + c + d, past)
    BY <2>1 DEF FieldAt, FieldEnds, NInts
  <2> QED
    BY <2>2 DEF IsMarkerChar, SzMarkerChar
<1>5. /\ e \in Nat /\ e - 1 \in Nat /\ 20 + a + b + c + d + 2 = e
      /\ 20 + a + b + c + d + 1 = e - 1 /\ 1 \in 0 .. 2 /\ 2 \in 0 .. 2
  OBVIOUS
<1>6. ByteAt(s, e, past) = MarkerChar[3] /\ ByteAt(s, e - 1, past) = MarkerChar[2]
  <2>1. 1 + 1 = 2 /\ 2 + 1 = 3
    OBVIOUS
  <2> HIDE DEF e
  <2> QED
    BY <1>4, <1>5, <2>1
<1>7. MarkerChar[3] # Other /\ MarkerChar[2] # Other
  BY DEF MarkerChar, Other
<1>8. \A i \in Nat : i < l => ByteAt(s, i, past) = ByteAt(s, i, Other)
  BY <1>1 DEF ByteAt
<1>9. CASE e < l
  <2>1. ASSUME NEW i \in 0 .. e
        PROVE  ByteAt(s, i, Other) = ByteAt(s, i, past)
    <3>1. i \in Nat /\ i < l
      <4> HIDE DEF e, l
      <4> QED
        BY <1>1, <1>5, <1>9
    <3> QED
      BY <1>8, <3>1
  <2>2. SameBytes(s, s, past, 22 + a + b + c + d)
    BY <2>1 DEF SameBytes
  <2> HIDE DEF e, n
  <2>3. IsMarked(s)
    BY <1>1, <1>2, <1>3, <2>2, FormIsMarked DEF l
  <2> QED
    BY <2>3
<1>10. CASE ~(e < l)
  <2> HIDE DEF l, e, n
  <2>1. e = l
    BY <1>1, <1>3, <1>5, <1>10
  <2>2. ByteAt(s, e, past) = past
    BY <1>1, <2>1 DEF ByteAt, l
  <2>3. past = MarkerChar[3]
    BY <1>6, <2>2
  <2>4. ~(e - 1 >= l)
    BY <1>1, <1>3, <1>5
  <2>5. e - 1 < n
    BY <1>6, <1>7, <2>4 DEF ByteAt, l, n
  <2>6. n = l
    BY <1>1, <1>5, <2>1, <2>5
  <2> DEFINE u == [head |-> Append(s.head, MarkerChar[SzMarkerChar]), length |-> s.length + 1]
             h == Append(s.head, MarkerChar[3])
  <2>7. u.length = l + 1 /\ u.head = h
    BY DEF l, SzMarkerChar
  <2>8. /\ Len(h) = l + 1 /\ h[l + 1] = MarkerChar[3]
        /\ \A i \in 1 .. l : h[i] = s.head[i]
    <3>1. MarkerChar[3] \in Int
      BY DEF MarkerChar
    <3> QED
      BY <2>6, <3>1 DEF n
  <2> HIDE DEF u, h
  <2>9. \A i \in 0 .. e : ByteAt(u, i, Other) = ByteAt(s, i, past)
    <3> SUFFICES ASSUME NEW i \in 0 .. e PROVE ByteAt(u, i, Other) = ByteAt(s, i, past)
      OBVIOUS
    <3>1. i \in Nat /\ i <= l
      BY <1>1, <2>1
    <3>2. ByteAt(u, i, Other) = IF i >= l + 1 THEN Other ELSE IF i < l + 1 THEN h[i + 1] ELSE Other
      BY <2>7, <2>8 DEF ByteAt
    <3>3. ByteAt(u, i, Other) = h[i + 1]
      BY <1>1, <3>1, <3>2
    <3>4. ByteAt(s, i, past) = IF i >= l THEN past ELSE IF i < n THEN s.head[i + 1] ELSE Other
      BY DEF ByteAt, l, n
    <3>5. CASE i = l
      BY <1>1, <2>3, <2>8, <3>3, <3>4, <3>5
    <3>6. CASE i < l
      <4>1. i + 1 \in 1 .. l /\ ~(i >= l) /\ i < n
        BY <1>1, <2>6, <3>1, <3>6
      <4> QED
        BY <2>8, <3>3, <3>4, <4>1
    <3> QED
      BY <1>1, <3>1, <3>5, <3>6
  <2>10. u.length > 27
    BY <1>1, <1>3, <2>7
  <2>11. SameBytes(u, s, past, 22 + a + b + c + d)
    BY <2>9 DEF SameBytes, e
  <2>12. IsMarked(u)
    BY <1>1, <1>2, <2>10, <2>11, FormIsMarked DEF l
  <2>13. s.length = Len(s.head)
    BY <2>6 DEF l, n
  <2> QED
    BY <2>12, <2>13 DEF NearlyMarked, u
<1> QED
  BY <1>9, <1>10

\* What was found when the message was looked at.
Choice ==
  /\ text \in Texts
  /\ at \in {"start", "refused", "passed", "cut", "done"}
  /\ at = "refused" => \E past \in Pasts : MarkerExists(text, past)
  /\ at \in {"passed", "cut", "done"} => \E past \in Pasts : ~MarkerExists(text, past)

(***************************************************************************)
(* A message is refused when it has the form of a fragment, and only then, *)
(* but for one that stops a byte short of it: for every message and every  *)
(* limit on its length.                                                    *)
(***************************************************************************)
THEOREM OnlyMarkedRefused == Spec => []MarkedIsRefused
<1>1. Init => Choice
  BY DEF Init, Choice
<1>2. Choice /\ [Next]_vars => Choice'
  <2> SUFFICES ASSUME Choice, [Next]_vars PROVE Choice'
    OBVIOUS
  <2>1. ASSUME Refuse PROVE Choice'
    BY <2>1 DEF Refuse, Choice
  <2>2. ASSUME PassOn \/ Measure PROVE Choice'
    BY <2>2 DEF PassOn, Measure, Choice
  <2>3. ASSUME CutPart \/ CutDone \/ UNCHANGED vars PROVE Choice'
    BY <2>3 DEF CutPart, CutDone, vars, Choice
  <2> QED
    BY <2>1, <2>2, <2>3 DEF Next
<1>3. Choice => MarkedIsRefused
  <2> SUFFICES ASSUME Choice, at # "start", ~NearlyMarked(text)
               PROVE  at = "refused" <=> IsMarked(text)
    BY DEF MarkedIsRefused
  <2>1. text.length \in Nat /\ text.head \in Seq(Int) /\ Len(text.head) <= text.length
    <3>1. text.head \in Seq(0 .. 255) /\ text.length \in Nat /\ Len(text.head) <= text.length
      BY SplitAssumption DEF Choice
    <3>2. 0 .. 255 \subseteq Int
      OBVIOUS
    <3> QED
      BY <3>1, <3>2, SeqOfMore
  <2>2. \A past \in Pasts : MarkerExists(text, past) <=> IsMarked(text)
    BY <2>1, MarkedIsRecognized, RecognizedIsMarked
  <2> QED
    BY <2>2 DEF Choice
<1> QED
  BY <1>1, <1>2, <1>3, PTL DEF Spec
==============================================================================
