------------------------------- MODULE Marker -------------------------------
(***************************************************************************)
(* marker.c: the marker in front of each fragment.                         *)
(*                                                                         *)
(*    ZWSP id | partNo | numParts | off | sz ZWSP                          *)
(*                                                                         *)
(* ZWSP is the zero width space, three bytes; the id has 13 digits, the    *)
(* others 1 to 10.  Bytes are numbers; those that play no part are Other.  *)
(* A message is a record of its length and of its first bytes, `head'; all *)
(* the others are Other.  As in the code, offsets are 0-based.  The id,    *)
(* too large for TLC, is the sequence of its digits.                       *)
(***************************************************************************)
EXTENDS Integers, Sequences, SequencesExt

SzMarkerChar == 3
SzTm == 13
SzIntMin == 1
SzIntMax == 10
NInts == 4

MarkerChar == <<226, 128, 139>>
Bar == 124
Other == 120
Zero == 48
Digits == Zero .. Zero + 9
-----------------------------------------------------------------------------
(* Sizes and printing.                                                     *)

\* The least number that has d digits is Power[d], but for 0.
Power == <<1, 10, 100, 1000, 10000, 100000, 1000000, 10000000, 100000000, 1000000000>>

NumDigits(i) ==
  CHOOSE d \in 1 .. SzIntMax :
    /\ d = 1 \/ i >= Power[d]
    /\ d = SzIntMax \/ i < Power[d + 1]

\* Slip: the part numbers are given one field's digits for the two of them.
OneFieldForBoth(n, size) ==
  SzMarkerChar + SzTm + 1 + NumDigits(n) + 1 + 1 + NumDigits(size)
    + 1 + NumDigits(size) + SzMarkerChar

MarkerMaxSizeBytes(n, size) ==
  SzMarkerChar + SzTm + 1 + NumDigits(n) + 1 + NumDigits(n) + 1 + NumDigits(size)
    + 1 + NumDigits(size) + SzMarkerChar

\* %u of printf.
Decimal(i) == [k \in 1 .. NumDigits(i) |-> Zero + ((i \div Power[NumDigits(i) - k + 1]) % 10)]

MarkerPrint(id, partNo, numParts, off, sz) ==
  MarkerChar \o id \o <<Bar>> \o Decimal(partNo) \o <<Bar>> \o Decimal(numParts)
    \o <<Bar>> \o Decimal(off) \o <<Bar>> \o Decimal(sz) \o MarkerChar

-----------------------------------------------------------------------------
(* Recognizing.  `past' is the byte in memory behind the message: that is  *)
(* where the last byte of a marker character may be looked for.            *)

Pasts == {MarkerChar[SzMarkerChar], Other}

ByteAt(s, i, past) ==
  IF i >= s.length THEN past ELSE IF i < Len(s.head) THEN s.head[i + 1] ELSE Other

IsMarkerChar(s, i, past) ==
  \A k \in 0 .. SzMarkerChar - 1 : ByteAt(s, i + k, past) = MarkerChar[k + 1]

\* The digits from p on, 10 at most.
FieldSize(s, p) ==
  CHOOSE n \in 0 .. SzIntMax :
    /\ \A k \in 0 .. n - 1 : ByteAt(s, p + k, Other) \in Digits
    /\ n = SzIntMax \/ ByteAt(s, p + n, Other) \notin Digits

\* Slip: where the last field ends is not looked at.
FieldEndsOpen(s, f, p, past) == f = NInts \/ ByteAt(s, p, past) = Bar

\* Field f ends at p with a bar, the last one with a marker character.
FieldEnds(s, f, p, past) ==
  IF f < NInts THEN ByteAt(s, p, past) = Bar ELSE IsMarkerChar(s, p, past)

\* One turn of the loop over the fields; found is a sequence of offsets and
\* sizes, and ok says that all was well so far.
ParseField(s, past, r, f) ==
  LET n == FieldSize(s, r.p)
  IN  IF r.ok /\ n # 0 /\ r.p + n + 1 < s.length /\ FieldEnds(s, f, r.p + n, past)
      THEN [p |-> r.p + n + 1, ok |-> TRUE,
            found |-> Append(r.found, [off |-> r.p, size |-> n])]
      ELSE [r EXCEPT !.ok = FALSE]

\* markerParseFields: the fields, or an empty sequence.
ParseFields(s, past) ==
  IF \/ s.length <= SzMarkerChar + SzTm + NInts * (1 + SzIntMin) + SzMarkerChar
     \/ ~IsMarkerChar(s, 0, past)
     \/ ByteAt(s, SzMarkerChar + SzTm, past) # Bar
     \/ \E i \in SzMarkerChar .. SzMarkerChar + SzTm - 1 : ByteAt(s, i, past) \notin Digits
  THEN <<>>
  ELSE LET start == [p |-> SzMarkerChar + SzTm + 1, ok |-> TRUE, found |-> <<>>]
           first == ParseField(s, past, start, 1)
           next  == ParseField(s, past, first, 2)
           third == ParseField(s, past, next, 3)
           last  == ParseField(s, past, third, NInts)
       IN  IF last.ok THEN last.found ELSE <<>>

MarkerExists(s, past) == ParseFields(s, past) # <<>>

-----------------------------------------------------------------------------
(* Parsing.                                                                *)

\* strtoul, on the digits of a field, which are 10 at most.
ParseUInt32(s, field) ==
  LET Worth(k) == IF k > field.size THEN 0
                  ELSE (s.head[field.off + k] - Zero) * Power[field.size - k + 1]
  IN  Worth(1) + Worth(2) + Worth(3) + Worth(4) + Worth(5)
        + Worth(6) + Worth(7) + Worth(8) + Worth(9) + Worth(10)

\* markerParse, with the size of the marker that it returns.
MarkerParse(s, past) ==
  LET found == ParseFields(s, past)
  IN  [id       |-> SubSeq(s.head, SzMarkerChar + 1, SzMarkerChar + SzTm),
       partNo   |-> ParseUInt32(s, found[1]),
       numParts |-> ParseUInt32(s, found[2]),
       off      |-> ParseUInt32(s, found[3]),
       sz       |-> ParseUInt32(s, found[4]),
       size     |-> found[4].off + found[4].size + SzMarkerChar]

-----------------------------------------------------------------------------
\* The form of a marker, as markerPrint writes it, complete and in front of at
\* least one more byte or with a field of more than one digit.
IsMarked(s) ==
  LET Char(i)      == \A k \in 0 .. 2 : ByteAt(s, i + k, Other) = MarkerChar[k + 1]
      Number(i, n) == \A k \in i .. i + n - 1 : ByteAt(s, k, Other) \in Digits
      Sep(i)       == ByteAt(s, i, Other) = Bar
  IN  /\ s.length > 27
      /\ Char(0) /\ Number(3, 13) /\ Sep(16)
      /\ \E a \in 1 .. 10 : Number(17, a) /\ Sep(17 + a)
         /\ \E b \in 1 .. 10 : Number(18 + a, b) /\ Sep(18 + a + b)
            /\ \E c \in 1 .. 10 : Number(19 + a + b, c) /\ Sep(19 + a + b + c)
               /\ \E d \in 1 .. 10 :
                    Number(20 + a + b + c, d) /\ Char(20 + a + b + c + d)
==============================================================================
