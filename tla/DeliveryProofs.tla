--------------------------- MODULE DeliveryProofs ---------------------------
(***************************************************************************)
(* Both ends together, for any number of messages of any length, any       *)
(* window and receipt range, and however often either end is killed        *)
(* (Delivery.tla).  The invariants of the sender (OutboundProofs,          *)
(* OutboundSafetyProofs) are used throughout.  What is added here follows  *)
(* a part onto the way, into the receiver's row and back as a receipt.     *)
(***************************************************************************)
EXTENDS Delivery, OutboundSafetyProofs, CutProofs

USE OutboundAssumption, MaxLengthAssumption, DeliveryAssumption

\* A message that is loaded is cut as it was when it was sent: without that,
\* what is shown may have a hole in it (run recut).
CutAlike ==
  \A m \in Msgs :
    ReloadParts[m] = NumParts[m] => Step(LengthOf[m], 0) = Step(LengthOf[m], SizeEver)

\* It is, if the two estimates of the number of parts have as many digits.
LEMMA SameDigits ==
  ASSUME \A m \in Msgs : /\ Estimate(LengthOf[m], 0) \in Nat
                         /\ Estimate(LengthOf[m], SizeEver) \in Nat
                         /\ NumDigits(Estimate(LengthOf[m], 0))
                              = NumDigits(Estimate(LengthOf[m], SizeEver))
  PROVE  CutAlike
<1> SUFFICES ASSUME NEW m \in Msgs
             PROVE  Step(LengthOf[m], 0) = Step(LengthOf[m], SizeEver)
  BY DEF CutAlike
<1> DEFINE n == LengthOf[m]
           a == Estimate(n, 0)
           b == Estimate(n, SizeEver)
<1>1. n \in Nat /\ a \in Nat /\ b \in Nat /\ NumDigits(a) = NumDigits(b)
  OBVIOUS
<1>2. Step(n, 0) = MaxLength - MarkerMaxSizeBytes(a, n)
      /\ Step(n, SizeEver) = MaxLength - MarkerMaxSizeBytes(b, n)
  BY DEF Step, RoomForMarker
<1> HIDE DEF a, b, n
<1>3. MarkerMaxSizeBytes(a, n) = 23 + 2 * NumDigits(a) + 2 * NumDigits(n)
      /\ MarkerMaxSizeBytes(b, n) = 23 + 2 * NumDigits(b) + 2 * NumDigits(n)
  BY <1>1, MarkerSizes
<1> QED
  BY <1>1, <1>2, <1>3 DEF n

(***************************************************************************)
(* Where part i of a message belongs, and the parts of which a blob has    *)
(* all bytes.                                                              *)
(***************************************************************************)
PartSize(m) == Step(LengthOf[m], SizeEver)

Place(m, i) ==
  [off |-> i * PartSize(m), size |-> Min({PartSize(m), LengthOf[m] - i * PartSize(m)})]

Places(m) == {Place(m, i) : i \in Parts(m)}

Stored(m, blob) == {i \in Parts(m) : Place(m, i) \in blob}

(***************************************************************************)
(* The inductive invariant.  A row, with what the client has seen of the   *)
(* message: it may have been written by a handler that was killed.         *)
(***************************************************************************)
Rows(m) == [meta : BOOLEAN, done : Nat, data : BOOLEAN, blob : SUBSET Places(m)]

ShownOnce(m, q) == \E t \in {Normal, TypeOf[m]} : q = <<[whole |-> TRUE, type |-> t]>>

RowOK(m, r, q) ==
  /\ r \in Rows(m)
  /\ r.done <= Cardinality(Stored(m, r.blob))
  /\ ~r.meta => r.blob = {}
  /\ r.meta /\ ~r.data => q # <<>>
  /\ q # <<>> => ShownOnce(m, q) /\ r.done = NumParts[m]

\* A row that every handler has left as it should.
Steady(m, r, q) ==
  /\ r.data => r.meta
  /\ r.done = Cardinality(Stored(m, r.blob))
  /\ r.done = NumParts[m] => q # <<>>

RowsOK ==
  /\ DOMAIN rows = Msgs /\ DOMAIN seen = Msgs
  /\ kills \in Nat
  /\ \A m \in Msgs : /\ RowOK(m, rows[m], seen[m])
                     /\ kills = 0 => Steady(m, rows[m], seen[m])

LoadedOK == fromDb \subseteq heap /\ \A m \in fromDb : ReloadParts[m] = NumParts[m]

\* A fragment on its way carries the place of its part.
Carries(w, m, i) ==
  /\ w.off = Place(m, i).off /\ w.size = Place(m, i).size
  /\ w.type \in {Normal, TypeOf[m]}

WayOK ==
  \A w \in way :
    /\ w.fragment.msg \in called /\ w.fragment.part \in Parts(w.fragment.msg)
    /\ Carries(w, w.fragment.msg, w.fragment.part)

\* A fragment whose receipt is awaited is on its way or stored, and one whose
\* receipt has come is stored.
OnTheWay(x) == \E w \in way : w.fragment = x

ArrivedOK ==
  /\ \A x \in wire : OnTheWay(x) \/ Place(x.msg, x.part) \in rows[x.msg].blob
  /\ \A m \in Msgs : \A i \in acked[m] : Place(m, i) \in rows[m].blob

DInv == RowsOK /\ LoadedOK /\ WayOK /\ ArrivedOK

SenderInv == Inv /\ ListOK /\ Safe

-----------------------------------------------------------------------------
(* Places: the parts cover the message, and no two of them overlap.        *)

LEMMA SizesOfParts ==
  ASSUME NEW m \in Msgs
  PROVE  /\ PartSize(m) \in Nat /\ PartSize(m) > 0
         /\ LengthOf[m] \in Nat /\ LengthOf[m] > 0
         /\ NumParts[m] = CeilDiv(LengthOf[m], PartSize(m))
         /\ NumParts[m] \in Nat /\ NumParts[m] > 0
<1> DEFINE n == LengthOf[m]
<1>1. n \in Nat /\ n > 0 /\ MaxLength > SizeEver
  OBVIOUS
<1>2. NumParts[m] = NumPartsOf(n, SizeEver)
  OBVIOUS
<1>3. NumPartsOf(n, SizeEver) = CeilDiv(n, Step(n, SizeEver))
  BY DEF NumPartsOf
<1> HIDE DEF n
<1>4. Step(n, SizeEver) \in Nat /\ Step(n, SizeEver) > 0
  BY <1>1, CutSizes
<1> QED
  BY <1>1, <1>2, <1>3, <1>4 DEF PartSize, n

LEMMA PlaceFacts ==
  ASSUME NEW m \in Msgs, NEW i \in Parts(m)
  PROVE  LET p == Place(m, i)
         IN  /\ p \in Places(m)
             /\ p.off = i * PartSize(m) /\ p.off \in Nat
             /\ p.size \in Nat /\ p.size > 0 /\ p.size <= PartSize(m)
             /\ p.off + p.size <= LengthOf[m]
             /\ p.size = PartSize(m) \/ p.off + p.size = LengthOf[m]
<1> DEFINE y == PartSize(m)
           n == LengthOf[m]
           d == n - i * y
<1>1. y \in Nat /\ y > 0 /\ n \in Nat /\ NumParts[m] = CeilDiv(n, y) /\ NumParts[m] \in Nat
  BY SizesOfParts
<1>2. i \in Nat /\ i < NumParts[m]
  BY <1>1 DEF Parts
<1>3. Place(m, i) = [off |-> i * y, size |-> Min({y, d})]
  BY DEF Place
<1> HIDE DEF y, n
<1>4. i * y \in Nat
  BY <1>1, <1>2, Times
<1>5. i * y < n
  <2>1. i * y >= n => i >= CeilDiv(n, y)
    BY <1>1, <1>2, BeforeTheEnd
  <2> QED
    BY <1>1, <1>2, <1>4, <2>1
<1>6. d \in Nat /\ d > 0 /\ i * y + d = n
  BY <1>1, <1>4, <1>5
<1> HIDE DEF d
<1>7. Min({y, d}) \in {y, d} /\ Min({y, d}) <= y /\ Min({y, d}) <= d
  <2>1. {y, d} \subseteq Nat /\ {y, d} # {}
    BY <1>1, <1>6
  <2> QED
    BY <2>1, MinProperty
<1> DEFINE o == i * y
           s == Min({y, d})
<1> HIDE DEF o, s
<1>8. /\ s \in Nat /\ s > 0 /\ s <= y /\ o + s <= n
      /\ s = y \/ o + s = n
  BY <1>1, <1>4, <1>6, <1>7 DEF o, s
<1>9. Place(m, i).off = o /\ Place(m, i).size = s
  BY <1>3 DEF o, s
<1>10. Place(m, i) \in Places(m)
  BY DEF Places
<1> QED
  BY <1>4, <1>8, <1>9, <1>10 DEF o, y, n

LEMMA PlacesApart ==
  ASSUME NEW m \in Msgs, NEW i \in Parts(m), NEW j \in Parts(m),
         Place(m, j).off <= Place(m, i).off,
         Place(m, i).off < Place(m, j).off + Place(m, j).size
  PROVE  i = j
<1> DEFINE y == PartSize(m)
<1>1. y \in Nat /\ y > 0 /\ i \in Nat /\ j \in Nat
  BY SizesOfParts DEF Parts
<1>2. Place(m, i).off = i * y /\ Place(m, j).off = j * y
  BY PlaceFacts
<1>3. Place(m, j).size \in Nat /\ Place(m, j).size <= y
  BY PlaceFacts
<1> HIDE DEF y
<1>4. i * y \in Nat /\ j * y \in Nat /\ (i + 1) * y = i * y + y /\ (j + 1) * y = j * y + y
  BY <1>1, Times
<1>5. i * y < (j + 1) * y
  BY <1>1, <1>2, <1>3, <1>4
<1>6. i < j + 1
  BY <1>1, <1>5, Times
<1>7. j * y < (i + 1) * y
  BY <1>1, <1>2, <1>4
<1>8. j < i + 1
  BY <1>1, <1>7, Times
<1> QED
  BY <1>1, <1>6, <1>8

LEMMA OnePlaceEach ==
  ASSUME NEW m \in Msgs, NEW i \in Parts(m), NEW j \in Parts(m), Place(m, i) = Place(m, j)
  PROVE  i = j
<1>1. Place(m, j).off \in Nat /\ Place(m, j).size \in Nat /\ Place(m, j).size > 0
  BY PlaceFacts
<1>2. Place(m, i).off = Place(m, j).off
  OBVIOUS
<1>3. Place(m, j).off <= Place(m, i).off /\ Place(m, i).off < Place(m, j).off + Place(m, j).size
  BY <1>1, <1>2
<1> QED
  BY <1>3, PlacesApart

-----------------------------------------------------------------------------
(* Blobs.                                                                  *)

\* The check for a duplicate, which looks at one byte, is right.
LEMMA KnownIsStored ==
  ASSUME NEW m \in Msgs, NEW blob, blob \subseteq Places(m), NEW i \in Parts(m)
  PROVE  Known(blob, Place(m, i).off) <=> Place(m, i) \in blob
<1> DEFINE p == Place(m, i)
<1>1. p.off \in Nat /\ p.size \in Nat /\ p.size > 0
  BY PlaceFacts
<1>2. ASSUME p \in blob
      PROVE  p.off \in Bytes(blob)
  <2>1. p.off \in p.off .. p.off + p.size - 1
    <3> HIDE DEF p
    <3> QED
      BY <1>1
  <2> QED
    BY <1>2, <2>1 DEF Bytes
<1>3. ASSUME p.off \in Bytes(blob)
      PROVE  p \in blob
  <2>1. PICK e \in blob : p.off \in e.off .. e.off + e.size - 1
    BY <1>3 DEF Bytes
  <2>2. PICK j \in Parts(m) : e = Place(m, j)
    BY <2>1 DEF Places
  <2>3. e.off \in Nat /\ e.size \in Nat
    BY <2>2, PlaceFacts
  <2>4. e.off <= p.off /\ p.off < e.off + e.size
    <3> HIDE DEF p
    <3> QED
      BY <1>1, <2>1, <2>3
  <2>5. i = j
    BY <2>2, <2>4, PlacesApart
  <2> QED
    BY <2>1, <2>2, <2>5
<1> QED
  BY <1>2, <1>3 DEF Known

LEMMA BytesWithin ==
  ASSUME NEW m \in Msgs, NEW blob, blob \subseteq Places(m)
  PROVE  Bytes(blob) \subseteq 0 .. LengthOf[m] - 1
<1> SUFFICES ASSUME NEW b \in Bytes(blob)
             PROVE  b \in 0 .. LengthOf[m] - 1
  OBVIOUS
<1>1. PICK e \in blob : b \in e.off .. e.off + e.size - 1
  BY DEF Bytes
<1>2. PICK j \in Parts(m) : e = Place(m, j)
  BY <1>1 DEF Places
<1>3. e.off \in Nat /\ e.size \in Nat /\ e.off + e.size <= LengthOf[m]
  BY <1>2, PlaceFacts
<1>4. LengthOf[m] \in Nat
  BY SizesOfParts
<1> QED
  BY <1>1, <1>3, <1>4

\* Byte b belongs to part b \div y.
LEMMA Quotient ==
  ASSUME NEW b \in Nat, NEW y \in Nat, y > 0
  PROVE  b \div y \in Nat /\ (b \div y) * y <= b /\ b < (b \div y) * y + y
OBVIOUS

LEMMA EveryByteHasAPlace ==
  ASSUME NEW m \in Msgs, NEW b \in 0 .. LengthOf[m] - 1
  PROVE  \E i \in Parts(m) :
           b \in Place(m, i).off .. Place(m, i).off + Place(m, i).size - 1
<1> DEFINE y == PartSize(m)
           n == LengthOf[m]
           i == b \div y
<1>1. y \in Nat /\ y > 0 /\ n \in Nat /\ NumParts[m] = CeilDiv(n, y) /\ NumParts[m] \in Nat
  BY SizesOfParts
<1>2. b \in Nat /\ b < n
  BY <1>1
<1> HIDE DEF y, n
<1>3. i \in Nat /\ i * y <= b /\ b < i * y + y
  BY <1>1, <1>2, Quotient
<1> HIDE DEF i
<1>4. i * y \in Nat
  BY <1>1, <1>3, Times
<1>5. i * y < n
  BY <1>1, <1>2, <1>3, <1>4
<1>6. i < CeilDiv(n, y)
  BY <1>1, <1>3, <1>5, BeforeTheEnd
<1>7. i \in Parts(m)
  BY <1>1, <1>3, <1>6 DEF Parts
<1> DEFINE p == Place(m, i)
<1>8. /\ p.off = i * y /\ p.off \in Nat /\ p.size \in Nat
      /\ p.size = y \/ p.off + p.size = n
  BY <1>7, PlaceFacts DEF y, n
<1> HIDE DEF p
<1>9. b \in p.off .. p.off + p.size - 1
  BY <1>1, <1>2, <1>3, <1>4, <1>8
<1> QED
  BY <1>7, <1>9 DEF p

LEMMA AllStoredIsWhole ==
  ASSUME NEW m \in Msgs, NEW blob, blob \subseteq Places(m), Stored(m, blob) = Parts(m)
  PROVE  Bytes(blob) = 0 .. LengthOf[m] - 1
<1>1. ASSUME NEW b \in 0 .. LengthOf[m] - 1
      PROVE  b \in Bytes(blob)
  <2>1. PICK i \in Parts(m) : b \in Place(m, i).off .. Place(m, i).off + Place(m, i).size - 1
    BY EveryByteHasAPlace
  <2>2. Place(m, i) \in blob
    BY DEF Stored
  <2> QED
    BY <2>1, <2>2 DEF Bytes
<1> QED
  BY <1>1, BytesWithin

LEMMA StoredCounted ==
  ASSUME NEW m \in Msgs, NEW blob
  PROVE  /\ IsFiniteSet(Stored(m, blob)) /\ Cardinality(Stored(m, blob)) \in Nat
         /\ Cardinality(Stored(m, blob)) <= NumParts[m]
         /\ Cardinality(Stored(m, blob)) >= NumParts[m] => Stored(m, blob) = Parts(m)
<1>1. Stored(m, blob) \in SUBSET Parts(m)
  BY DEF Stored
<1>2. IsFiniteSet(Parts(m)) /\ Cardinality(Parts(m)) = NumParts[m]
  BY PartsCounted
<1>3. Cardinality(Stored(m, blob)) <= Cardinality(Parts(m))
  BY <1>1, <1>2, FS_Subset
<1> QED
  BY <1>1, <1>2, <1>3, PartsCounted

LEMMA NothingStored ==
  ASSUME NEW m \in Msgs
  PROVE  Stored(m, {}) = {} /\ Cardinality(Stored(m, {})) = 0
BY FS_EmptySet DEF Stored

LEMMA OneMoreStored ==
  ASSUME NEW m \in Msgs, NEW blob, NEW i \in Parts(m), Place(m, i) \notin blob
  PROVE  /\ Stored(m, blob \cup {Place(m, i)}) = Stored(m, blob) \cup {i}
         /\ Cardinality(Stored(m, blob \cup {Place(m, i)})) = Cardinality(Stored(m, blob)) + 1
<1> DEFINE S == Stored(m, blob)
           T == Stored(m, blob \cup {Place(m, i)})
<1>1. ASSUME NEW j
      PROVE  j \in T <=> j \in S \cup {i}
  BY OnePlaceEach DEF Stored
<1>2. T = S \cup {i} /\ i \notin S
  BY <1>1 DEF Stored
<1>3. IsFiniteSet(S)
  BY StoredCounted
<1> HIDE DEF S, T
<1>4. Cardinality(S \cup {i}) = Cardinality(S) + 1
  BY <1>2, <1>3, FS_AddElement
<1> QED
  BY <1>2, <1>4 DEF S, T

-----------------------------------------------------------------------------
(* The handler's trail.                                                    *)

\* Only the last statement but one shows anything.
States(m) ==
  [row : Rows(m), seen : Seq([whole : BOOLEAN, type : {Normal, TypeOf[m]}])]

Is(s, m, meta, done, data, blob, q) ==
  /\ s \in States(m)
  /\ s.row.meta = meta /\ s.row.done = done /\ s.row.data = data /\ s.row.blob = blob
  /\ s.seen = q

\* One statement.
LEMMA StateChanges ==
  ASSUME NEW m, NEW me, NEW do, NEW da, NEW bl, NEW q, NEW s, Is(s, m, me, do, da, bl, q)
  PROVE  /\ \A x \in BOOLEAN : Is([s EXCEPT !.row.meta = x], m, x, do, da, bl, q)
         /\ \A x \in BOOLEAN : Is([s EXCEPT !.row.data = x], m, me, do, x, bl, q)
         /\ \A x \in Nat : Is([s EXCEPT !.row.done = x], m, me, x, da, bl, q)
         /\ \A x \in Places(m) :
              Is([s EXCEPT !.row.blob = @ \cup {x}], m, me, do, da, bl \cup {x}, q)
<1>1. ASSUME NEW x \in BOOLEAN
      PROVE  /\ Is([s EXCEPT !.row.meta = x], m, x, do, da, bl, q)
             /\ Is([s EXCEPT !.row.data = x], m, me, do, x, bl, q)
  BY DEF Is, States, Rows
<1>2. ASSUME NEW x \in Nat
      PROVE  Is([s EXCEPT !.row.done = x], m, me, x, da, bl, q)
  BY DEF Is, States, Rows
<1>3. ASSUME NEW x \in Places(m)
      PROVE  Is([s EXCEPT !.row.blob = @ \cup {x}], m, me, do, da, bl \cup {x}, q)
  BY DEF Is, States, Rows
<1> QED
  BY <1>1, <1>2, <1>3

(***************************************************************************)
(* A handler that finds something to do: what it leaves behind, statement  *)
(* by statement.                                                           *)
(***************************************************************************)
More(w, blob) == blob \cup {[off |-> w.off, size |-> w.size]}

Say(w, m, blob) ==
  <<[whole |-> Bytes(blob) = 0 .. LengthOf[m] - 1, type |-> w.type]>>

TrailIs(w, m, me, do, bl, more, say, s1, s2, s3, s4, s5, s6, s7) ==
  /\ Is(s1, m, me, do, me, bl, <<>>)
  /\ Is(s2, m, me, do, TRUE, bl, <<>>)
  /\ Is(s3, m, TRUE, do, TRUE, bl, <<>>)
  /\ Is(s4, m, TRUE, do, TRUE, more, <<>>)
  /\ Is(s5, m, TRUE, do + 1, TRUE, more, <<>>)
  /\ Is(s6, m, TRUE, do + 1, TRUE, more, say)
  /\ Is(s7, m, TRUE, do + 1, FALSE, more, say)
  /\ Trail(w) = IF do + 1 = NumParts[m] THEN <<s1, s2, s3, s4, s5, s6, s7>>
                ELSE <<s1, s2, s3, s4, s5>>

TrailOf(w, m, me, do, bl, more, say) ==
  \E s1, s2, s3, s4, s5, s6, s7 :
    TrailIs(w, m, me, do, bl, more, say, s1, s2, s3, s4, s5, s6, s7)

FindsWork(w, m, me, do, bl) ==
  /\ m \in Msgs /\ m = w.fragment.msg /\ me \in BOOLEAN /\ do \in Nat
  /\ [off |-> w.off, size |-> w.size] \in Places(m) /\ w.type \in {Normal, TypeOf[m]}
  /\ Is([row |-> rows[m], seen |-> seen[m]], m, me, do, me, bl, <<>>)
  /\ ~me => bl = {}
  /\ me => ~Known(bl, w.off)

LEMMA TrailOfNewPart ==
  ASSUME NEW w, NEW m, NEW me, NEW do, NEW bl, FindsWork(w, m, me, do, bl)
  PROVE  TrailOf(w, m, me, do, bl, More(w, bl), Say(w, m, More(w, bl)))
<1>0. /\ m \in Msgs /\ m = w.fragment.msg /\ me \in BOOLEAN /\ do \in Nat
      /\ [off |-> w.off, size |-> w.size] \in Places(m) /\ w.type \in {Normal, TypeOf[m]}
      /\ Is([row |-> rows[m], seen |-> seen[m]], m, me, do, me, bl, <<>>)
      /\ ~me => bl = {}
      /\ me => ~Known(bl, w.off)
  BY DEF FindsWork
<1> DEFINE v      == w.fragment.msg
           p      == [off |-> w.off, size |-> w.size]
           none   == [row |-> rows[v], seen |-> seen[v]]
           data   == IF none.row.meta THEN none
                     ELSE [none EXCEPT !.row.data = TRUE, !.row.blob = {}]
           meta   == [data EXCEPT !.row.meta = TRUE]
           stored == [meta EXCEPT !.row.blob = @ \cup {p}]
           count  == [stored EXCEPT !.row.done = @ + 1]
           one    == [whole |-> Bytes(count.row.blob) = 0 .. LengthOf[v] - 1, type |-> w.type]
           show   == [count EXCEPT !.seen = Append(@, one)]
           delete == [show EXCEPT !.row.data = FALSE]
           more   == More(w, bl)
           say    == Say(w, v, more)
<1>1. Is(none, v, me, do, me, bl, <<>>) /\ p \in Places(v) /\ w.type \in {Normal, TypeOf[v]}
  BY <1>0
<1>2. rows[v].meta = me /\ rows[v].data = me /\ rows[v].blob = bl
  BY <1>1 DEF Is
<1>3. /\ ~(rows[v].data /\ ~rows[v].meta)
      /\ ~((rows[v].meta /\ ~rows[v].data) \/ (rows[v].meta /\ Known(rows[v].blob, w.off)))
  BY <1>0, <1>2
<1>4. Trail(w) = IF AllIn(v, count.row.done)
                 THEN <<none, data, meta, stored, count, show, delete>>
                 ELSE <<none, data, meta, stored, count>>
  BY <1>3 DEF Trail
<1> HIDE DEF v, p, none
<1>5. Is(data, v, me, do, TRUE, bl, <<>>)
  <2>1. none.row.meta = me
    BY <1>1 DEF Is
  <2>2. CASE me
    BY <1>0, <1>1, <2>1, <2>2
  <2>3. CASE ~me
    BY <1>0, <1>1, <2>1, <2>3 DEF Is, States, Rows
  <2> QED
    BY <1>0, <2>2, <2>3
<1> HIDE DEF data
<1>6. Is(meta, v, TRUE, do, TRUE, bl, <<>>)
  BY <1>5, StateChanges
<1> HIDE DEF meta
<1>7. Is(stored, v, TRUE, do, TRUE, more, <<>>)
  <2>1. more = bl \cup {p}
    BY DEF More, p
  <2> HIDE DEF more
  <2> QED
    BY <1>1, <1>6, <2>1, StateChanges
<1> HIDE DEF more, stored
<1>8. Is(count, v, TRUE, do + 1, TRUE, more, <<>>)
  <2>1. stored.row.done = do /\ do + 1 \in Nat
    BY <1>0, <1>7 DEF Is
  <2>2. Is([stored EXCEPT !.row.done = do + 1], v, TRUE, do + 1, TRUE, more, <<>>)
    BY <1>7, <2>1, StateChanges
  <2> QED
    BY <2>1, <2>2
<1> HIDE DEF count
<1>9. count.row.blob = more /\ count.row.done = do + 1 /\ count.seen = <<>>
  BY <1>8 DEF Is
<1>10. Is(show, v, TRUE, do + 1, TRUE, more, say)
  <2>1. say = <<one>> /\ one \in [whole : BOOLEAN, type : {Normal, TypeOf[v]}]
    BY <1>1, <1>9 DEF Say
  <2> HIDE DEF say, one
  <2>2. Append(<<>>, one) = say /\ say \in Seq([whole : BOOLEAN, type : {Normal, TypeOf[v]}])
    BY <2>1
  <2>3. show = [count EXCEPT !.seen = say]
    BY <1>9, <2>2
  <2> HIDE DEF show
  <2> QED
    BY <1>8, <2>2, <2>3 DEF Is, States
<1> HIDE DEF show, say
<1>11. Is(delete, v, TRUE, do + 1, FALSE, more, say)
  BY <1>10, StateChanges
<1> HIDE DEF delete
<1>12. Trail(w) = IF do + 1 = NumParts[v]
                  THEN <<none, data, meta, stored, count, show, delete>>
                  ELSE <<none, data, meta, stored, count>>
  BY <1>4, <1>9 DEF AllIn
<1>13. TrailIs(w, v, me, do, bl, more, say, none, data, meta, stored, count, show, delete)
  BY <1>1, <1>5, <1>6, <1>7, <1>8, <1>10, <1>11, <1>12, Zenon DEF TrailIs
<1>14. TrailOf(w, v, me, do, bl, more, say)
  BY <1>13, Zenon DEF TrailOf
<1> QED
  BY <1>0, <1>14 DEF v, more, say

(***************************************************************************)
(* Wherever the handler is stopped, the row is one that a later handler    *)
(* can go on with; no byte is lost; and what is shown is whole, and shown  *)
(* when nothing was shown before.                                          *)
(***************************************************************************)
Leaves(m, s) ==
  /\ RowOK(m, s.row, s.seen)
  /\ rows[m].blob \subseteq s.row.blob
  /\ s.seen = seen[m] \/ (seen[m] = <<>> /\ ShownOnce(m, s.seen))

\* The handler has come to its end.
Finishes(m, i, s) ==
  /\ Place(m, i) \in s.row.blob
  /\ Steady(m, rows[m], seen[m]) => Steady(m, s.row, s.seen)

\* A message that was shown has all its parts stored.
LEMMA ShownIsStored ==
  ASSUME NEW m \in Msgs, NEW r, NEW q, RowOK(m, r, q), q # <<>>, NEW i \in Parts(m)
  PROVE  Place(m, i) \in r.blob
<1>1. Cardinality(Stored(m, r.blob)) >= NumParts[m]
  <2>1. r.done = NumParts[m] /\ r.done <= Cardinality(Stored(m, r.blob))
    BY DEF RowOK
  <2> QED
    BY <2>1, StoredCounted, SizesOfParts
<1>2. Stored(m, r.blob) = Parts(m)
  BY <1>1, StoredCounted
<1> QED
  BY <1>2 DEF Stored

LEMMA TrailAtRest ==
  ASSUME RowsOK, NEW w, NEW m \in Msgs, m = w.fragment.msg,
         NEW i \in Parts(m), Carries(w, m, i),
         \/ rows[m].data /\ ~rows[m].meta
         \/ rows[m].meta /\ ~rows[m].data
         \/ rows[m].meta /\ Known(rows[m].blob, w.off)
  PROVE  /\ Len(Trail(w)) \in Nat
         /\ \A k \in 1 .. Len(Trail(w)) : Leaves(m, Trail(w)[k])
         /\ Len(Trail(w)) > 1 => Finishes(m, i, Last(Trail(w)))
<1> DEFINE none == [row |-> rows[m], seen |-> seen[m]]
<1>1. RowOK(m, rows[m], seen[m])
  BY DEF RowsOK
<1>2. none.row = rows[m] /\ none.seen = seen[m]
  OBVIOUS
<1>3. Trail(w) = IF rows[m].data /\ ~rows[m].meta THEN <<none>> ELSE <<none, none>>
  <2> DEFINE n == w.fragment.msg
             u == [row |-> rows[n], seen |-> seen[n]]
  <2>1. CASE rows[n].data /\ ~rows[n].meta
    <3>1. Trail(w) = <<u>>
      BY <2>1 DEF Trail
    <3> QED
      BY <2>1, <3>1
  <2>2. CASE ~(rows[n].data /\ ~rows[n].meta)
    <3>1. (rows[n].meta /\ ~rows[n].data) \/ (rows[n].meta /\ Known(rows[n].blob, w.off))
      BY <2>2
    <3>2. Trail(w) = <<u, u>>
      BY <2>2, <3>1 DEF Trail
    <3> QED
      BY <2>2, <3>2
  <2> QED
    BY <2>1, <2>2
<1> HIDE DEF none
<1>4. Leaves(m, none)
  BY <1>1, <1>2 DEF Leaves
<1>5. CASE rows[m].data /\ ~rows[m].meta
  <2>1. Trail(w) = <<none>>
    BY <1>3, <1>5
  <2> QED
    BY <1>4, <2>1
<1>6. CASE ~(rows[m].data /\ ~rows[m].meta)
  <2>1. Trail(w) = <<none, none>>
    BY <1>3, <1>6
  <2>2. Last(Trail(w)) = none /\ Len(Trail(w)) = 2
    BY <2>1 DEF Last
  <2>3. \A k \in 1 .. 2 : Trail(w)[k] = none
    BY <2>1
  <2>4. Place(m, i) \in rows[m].blob
    <3>1. CASE rows[m].meta /\ ~rows[m].data
      <4>1. seen[m] # <<>>
        BY <1>1, <3>1 DEF RowOK
      <4> QED
        BY <1>1, <4>1, ShownIsStored
    <3>2. CASE Known(rows[m].blob, w.off)
      <4>1. rows[m].blob \subseteq Places(m) /\ w.off = Place(m, i).off
        BY <1>1 DEF RowOK, Rows, Carries
      <4> QED
        BY <3>2, <4>1, KnownIsStored
    <3> QED
      BY <1>6, <3>1, <3>2
  <2>5. Finishes(m, i, none)
    BY <1>2, <2>4 DEF Finishes
  <2> QED
    BY <1>4, <2>2, <2>3, <2>5
<1> QED
  BY <1>5, <1>6

\* A state of the trail, from its fields.
LEMMA RowOfState ==
  ASSUME NEW m \in Msgs, NEW s \in States(m),
         s.row.done <= Cardinality(Stored(m, s.row.blob)),
         ~s.row.meta => s.row.blob = {},
         s.row.meta /\ ~s.row.data => s.seen # <<>>,
         s.seen # <<>> => ShownOnce(m, s.seen) /\ s.row.done = NumParts[m],
         rows[m].blob \subseteq s.row.blob,
         s.seen = seen[m] \/ (seen[m] = <<>> /\ ShownOnce(m, s.seen))
  PROVE  Leaves(m, s)
<1>1. s.row \in Rows(m)
  BY DEF States
<1>2. RowOK(m, s.row, s.seen)
  BY <1>1 DEF RowOK
<1> QED
  BY <1>2 DEF Leaves

LEMMA TrailAtWork ==
  ASSUME RowsOK, NEW w, NEW m \in Msgs, m = w.fragment.msg,
         NEW i \in Parts(m), Carries(w, m, i),
         rows[m].data <=> rows[m].meta,
         rows[m].meta => ~Known(rows[m].blob, w.off)
  PROVE  /\ Len(Trail(w)) \in Nat
         /\ \A k \in 1 .. Len(Trail(w)) : Leaves(m, Trail(w)[k])
         /\ Len(Trail(w)) > 1 => Finishes(m, i, Last(Trail(w)))
<1> DEFINE me == rows[m].meta
           do == rows[m].done
           bl == rows[m].blob
           more == More(w, bl)
           say == Say(w, m, more)
           n == Cardinality(Stored(m, bl))
<1>1. /\ RowOK(m, rows[m], seen[m])
      /\ rows[m] \in Rows(m) /\ me \in BOOLEAN /\ do \in Nat /\ bl \subseteq Places(m)
      /\ rows[m].data = me /\ do <= n /\ (~me => bl = {})
  BY DEF RowsOK, RowOK, Rows
<1>2. w.off = Place(m, i).off /\ w.size = Place(m, i).size /\ w.type \in {Normal, TypeOf[m]}
  BY DEF Carries
<1>3. [off |-> w.off, size |-> w.size] = Place(m, i) /\ Place(m, i) \in Places(m)
  BY <1>2, PlaceFacts DEF Place
<1>0. (~me => bl = {}) /\ (me => ~Known(bl, w.off))
  BY <1>1
<1>4. Place(m, i) \notin bl
  BY <1>1, <1>2, KnownIsStored
<1>5. seen[m] = <<>>
  BY <1>1, <1>4, ShownIsStored
<1>6. more = bl \cup {Place(m, i)} /\ more \subseteq Places(m) /\ bl \subseteq more
  BY <1>1, <1>3 DEF More
<1>7. /\ n \in Nat
      /\ Cardinality(Stored(m, more)) = n + 1
      /\ n + 1 >= NumParts[m] => Stored(m, more) = Parts(m)
  <2>1. Cardinality(Stored(m, more)) = n + 1
    BY <1>4, <1>6, OneMoreStored
  <2> HIDE DEF more
  <2> QED
    BY <2>1, StoredCounted
<1>8. Is([row |-> rows[m], seen |-> seen[m]], m, me, do, me, bl, <<>>)
  BY <1>1, <1>5 DEF Is, States
<1>9. TrailOf(w, m, me, do, bl, more, say)
  <2>1. /\ me \in BOOLEAN /\ do \in Nat
        /\ [off |-> w.off, size |-> w.size] \in Places(m)
        /\ w.type \in {Normal, TypeOf[m]}
    BY <1>1, <1>2, <1>3
  <2>2. FindsWork(w, m, me, do, bl)
    BY <1>0, <1>8, <2>1 DEF FindsWork
  <2> HIDE DEF me, do, bl
  <2> QED
    BY <2>2, TrailOfNewPart
<1> HIDE DEF me, do, bl, more
<1>10. PICK s1, s2, s3, s4, s5, s6, s7 :
         TrailIs(w, m, me, do, bl, more, say, s1, s2, s3, s4, s5, s6, s7)
  BY <1>9, Zenon DEF TrailOf
<1>11. say # <<>>
  BY DEF Say
<1>12. do + 1 = NumParts[m] => ShownOnce(m, say)
  <2> SUFFICES ASSUME do + 1 = NumParts[m]
               PROVE  ShownOnce(m, say)
    OBVIOUS
  <2>1. n + 1 >= NumParts[m]
    BY <1>1, <1>7, SizesOfParts
  <2>2. Bytes(more) = 0 .. LengthOf[m] - 1
    BY <1>6, <1>7, <2>1, AllStoredIsWhole
  <2>3. say = <<[whole |-> TRUE, type |-> w.type]>>
    BY <2>2 DEF Say
  <2> QED
    BY <1>2, <2>3 DEF ShownOnce
<1> HIDE DEF say
<1>13. /\ Is(s1, m, me, do, me, bl, <<>>)
       /\ Is(s2, m, me, do, TRUE, bl, <<>>)
       /\ Is(s3, m, TRUE, do, TRUE, bl, <<>>)
       /\ Is(s4, m, TRUE, do, TRUE, more, <<>>)
       /\ Is(s5, m, TRUE, do + 1, TRUE, more, <<>>)
       /\ Is(s6, m, TRUE, do + 1, TRUE, more, say)
       /\ Is(s7, m, TRUE, do + 1, FALSE, more, say)
       /\ Trail(w) = IF do + 1 = NumParts[m] THEN <<s1, s2, s3, s4, s5, s6, s7>>
                     ELSE <<s1, s2, s3, s4, s5>>
  BY <1>10 DEF TrailIs
<1>14. /\ do <= n + 1 /\ do + 1 <= n + 1 /\ do + 1 \in Nat
       /\ rows[m].blob = bl /\ rows[m].blob \subseteq more
  BY <1>1, <1>6, <1>7 DEF bl
<1>15. ASSUME NEW s \in {s1, s2, s3}
       PROVE  Leaves(m, s)
  <2>1. s \in States(m) /\ s.row.done = do /\ s.row.blob = bl /\ s.seen = <<>>
    BY <1>13 DEF Is
  <2>2. /\ ~s.row.meta => bl = {}
        /\ ~(s.row.meta /\ ~s.row.data)
    BY <1>1, <1>13 DEF Is
  <2> QED
    BY <1>1, <1>5, <1>14, <2>1, <2>2, RowOfState DEF n
<1>16. ASSUME NEW s \in {s4, s5}
       PROVE  Leaves(m, s)
  <2>1. /\ s \in States(m) /\ s.row.done \in {do, do + 1} /\ s.row.blob = more
        /\ s.seen = <<>> /\ s.row.meta /\ s.row.data
    BY <1>13 DEF Is
  <2> QED
    BY <1>5, <1>7, <1>14, <2>1, RowOfState
<1>17. ASSUME do + 1 = NumParts[m], NEW s \in {s6, s7}
       PROVE  Leaves(m, s)
  <2>1. /\ s \in States(m) /\ s.row.done = do + 1 /\ s.row.blob = more
        /\ s.seen = say /\ s.row.meta
    BY <1>13 DEF Is
  <2> QED
    BY <1>5, <1>7, <1>11, <1>12, <1>14, <1>17, <2>1, RowOfState
<1>18. Place(m, i) \in more
  BY <1>6
<1>19. Steady(m, rows[m], seen[m]) => do + 1 = Cardinality(Stored(m, more))
  BY <1>7 DEF Steady, do, bl, n
<1>20. CASE do + 1 = NumParts[m]
  <2>1. Trail(w) = <<s1, s2, s3, s4, s5, s6, s7>>
    BY <1>13, <1>20
  <2>2. Last(Trail(w)) = s7 /\ Len(Trail(w)) = 7
    BY <2>1 DEF Last
  <2>3. \A k \in 1 .. 7 : Trail(w)[k] \in {s1, s2, s3, s4, s5, s6, s7}
    BY <2>1
  <2>4. Finishes(m, i, s7)
    BY <1>11, <1>13, <1>18, <1>19 DEF Finishes, Steady, Is
  <2> QED
    BY <1>15, <1>16, <1>17, <1>20, <2>2, <2>3, <2>4
<1>21. CASE do + 1 # NumParts[m]
  <2>1. Trail(w) = <<s1, s2, s3, s4, s5>>
    BY <1>13, <1>21
  <2>2. Last(Trail(w)) = s5 /\ Len(Trail(w)) = 5
    BY <2>1 DEF Last
  <2>3. \A k \in 1 .. 5 : Trail(w)[k] \in {s1, s2, s3, s4, s5}
    BY <2>1
  <2>4. Finishes(m, i, s5)
    BY <1>13, <1>18, <1>19, <1>21 DEF Finishes, Steady, Is
  <2> QED
    BY <1>15, <1>16, <2>2, <2>3, <2>4
<1> QED
  BY <1>20, <1>21

LEMMA TrailFacts ==
  ASSUME RowsOK, NEW w, NEW m \in Msgs, m = w.fragment.msg,
         NEW i \in Parts(m), Carries(w, m, i)
  PROVE  /\ Len(Trail(w)) \in Nat
         /\ \A k \in 1 .. Len(Trail(w)) : Leaves(m, Trail(w)[k])
         /\ Len(Trail(w)) > 1 => Finishes(m, i, Last(Trail(w)))
<1>1. rows[m].meta \in BOOLEAN /\ rows[m].data \in BOOLEAN
  BY DEF RowsOK, RowOK, Rows
<1> QED
  BY <1>1, TrailAtRest, TrailAtWork

-----------------------------------------------------------------------------
(* What the sender's steps do to the base library's fragments and receipts,*)
(* to the messages in memory, and to what its client said and heard.       *)

HandsOver ==
  \E m \in called : \E i \in Parts(m) : wire' = wire \cup {Fragment(m, i)} /\ acked' = acked

TakesReceipt == op'.at # "down" /\ \E f \in wire : Delivery(f)

Forgets == wire' = {} /\ acked' = acked

LoadsOnlyAlike == \A m \in heap' \ heap : op.at = "load" => ReloadParts[m] = NumParts[m]

LEMMA SenderMoves ==
  ASSUME Inv, ListOK, Next
  PROVE  /\ UNCHANGED <<wire, acked>> \/ HandsOver \/ TakesReceipt \/ Forgets
         /\ LoadsOnlyAlike
         /\ \/ UNCHANGED <<called, told>>
            \/ Notify /\ called' = called
            \/ (\E m \in Msgs : SendLong(m)) /\ told' = told
<1>1. CASE LoopTurn
  <2>1. UNCHANGED <<heap, acked, called, told>> /\ op.msg \in called /\ op.i \in Parts(op.msg)
    BY <1>1, LoopFacts
  <2>2. wire' = wire \cup {Fragment(op.msg, op.i)} \/ wire' = wire
    BY <1>1, LoopFacts DEF TurnSent, TurnNotSent
  <2> QED
    BY <2>1, <2>2 DEF HandsOver, LoadsOnlyAlike
<1>2. CASE Move
  BY <1>2, MoveFacts DEF LoadsOnlyAlike
<1>3. CASE ConfirmMeta
  BY <1>3, ConfirmMetaFacts DEF LoadsOnlyAlike
<1>4. CASE Notify
  BY <1>4, NotifyFacts DEF LoadsOnlyAlike
<1>5. CASE Retire
  BY <1>5, RetireFacts DEF LoadsOnlyAlike
<1>6. ASSUME NEW m \in Msgs, SendLong(m)
      PROVE  /\ UNCHANGED <<wire, acked>> /\ LoadsOnlyAlike
             /\ (\E n \in Msgs : SendLong(n)) /\ told' = told
  BY <1>6, SendLongFacts DEF LoadsOnlyAlike
<1>7. CASE SendFails
  BY <1>7, SendFailsFacts DEF LoadsOnlyAlike
<1>8. CASE InsertMeta
  BY <1>8, InsertMetaFacts DEF LoadsOnlyAlike
<1>9. CASE InsertData
  BY <1>9, InsertDataFacts DEF LoadsOnlyAlike
<1>10. ASSUME NEW f \in wire, ForeignReceipt(f) \/ Receipt(f)
       PROVE  TakesReceipt /\ LoadsOnlyAlike /\ UNCHANGED <<called, told>>
  <2>1. CASE ForeignReceipt(f)
    BY <2>1, ForeignFacts DEF TakesReceipt, LoadsOnlyAlike
  <2>2. CASE Receipt(f)
    <3>1. op'.at # "down"
      BY <2>2, ReceiptFacts DEF Confirms
    <3> QED
      BY <2>2, <3>1, ReceiptFacts DEF TakesReceipt, LoadsOnlyAlike
  <2> QED
    BY <1>10, <2>1, <2>2
<1>11. CASE ResendExpired
  <2>1. UNCHANGED <<heap, acked, called, told>> /\ heap \subseteq called
    BY <1>11, ResendFacts DEF ListOK
  <2>2. wire' = wire \/ \E m \in heap : \E i \in Parts(m) : wire' = wire \cup {Fragment(m, i)}
    BY <1>11, ResendFacts DEF Expires
  <2> QED
    BY <2>1, <2>2 DEF HandsOver, LoadsOnlyAlike
<1>12. CASE Discard
  BY <1>12, DiscardFacts DEF LoadsOnlyAlike, Freed
<1>13. CASE Crash
  BY <1>13, CrashFacts DEF Forgets, LoadsOnlyAlike
<1>14. ASSUME NEW m \in Msgs, LoadRow(m) \/ DropRow(m)
       PROVE  UNCHANGED <<wire, acked, called, told>> /\ LoadsOnlyAlike
  <2>1. CASE LoadRow(m)
    <3>1. ReloadParts[m] = NumParts[m]
      BY <2>1 DEF LoadRow, Loadable
    <3> QED
      BY <2>1, <3>1, LoadRowFacts DEF LoadsOnlyAlike
  <2>2. CASE DropRow(m)
    BY <2>2, DropRowFacts DEF LoadsOnlyAlike
  <2> QED
    BY <1>14, <2>1, <2>2
<1>15. CASE UNCHANGED vars
  BY <1>15 DEF vars, structs, base, client, LoadsOnlyAlike
<1> QED
  BY <1>1, <1>2, <1>3, <1>4, <1>5, <1>6, <1>7, <1>8, <1>9, <1>10, <1>11, <1>12, <1>13,
     <1>14, <1>15, NextDivided DEF ReadReceipt

-----------------------------------------------------------------------------
(* The sender's steps, on the way.                                         *)

LEMMA FragmentFields ==
  ASSUME NEW m, NEW i
  PROVE  Fragment(m, i).msg = m /\ Fragment(m, i).part = i
BY DEF Fragment

\* A part is cut as the message was cut at first, whenever it is sent.
LEMMA PieceCarries ==
  ASSUME CutAlike, LoadedOK, NEW m \in Msgs, NEW i \in Parts(m),
         NEW f, f.msg = m, f.part = i
  PROVE  Piece(f).fragment = f /\ Carries(Piece(f), m, i)
<1>1. StepOf(m) = PartSize(m)
  BY DEF CutAlike, LoadedOK, StepOf, PartSize
<1>2. SentAs(m) \in {Normal, TypeOf[m]}
  BY DEF SentAs
<1>3. /\ Piece(f).fragment = f
      /\ Piece(f).off = i * StepOf(m)
      /\ Piece(f).size = Min({StepOf(m), LengthOf[m] - i * StepOf(m)})
      /\ Piece(f).type = SentAs(m)
  BY DEF Piece
<1> QED
  BY <1>1, <1>2, <1>3 DEF Carries, Place

LEMMA SenderKeepsWay ==
  ASSUME CutAlike, Inv, ListOK, DInv, SenderStep
  PROVE  DInv'
<1>1. /\ UNCHANGED <<wire, acked>> \/ HandsOver \/ TakesReceipt \/ Forgets
      /\ LoadsOnlyAlike /\ called \subseteq called' /\ called \subseteq Msgs
  <2>1. Next
    BY DEF SenderStep
  <2>2. called \subseteq called'
    BY <2>1, SenderMoves DEF SendLong
  <2> QED
    BY <2>1, <2>2, SenderMoves DEF Inv, WorldOK
<1>2. rows' = rows /\ seen' = seen /\ kills' = kills
  BY DEF SenderStep, receiver
<1>3. /\ op'.at # "down" => \A w \in way : w.fragment \notin wire \ wire'
      /\ way' = way \cup {Piece(f) : f \in wire' \ wire}
      /\ fromDb' = {m \in heap' : IF m \in heap THEN m \in fromDb ELSE op.at = "load"}
  BY DEF SenderStep
<1>4. \A x \in wire : x.msg \in Msgs /\ x.part \in Parts(x.msg)
  BY DEF Inv, WorldOK, Cell
<1>5. LoadedOK'
  BY <1>1, <1>3 DEF DInv, LoadedOK, LoadsOnlyAlike
<1>6. RowsOK'
  BY <1>2 DEF DInv, RowsOK, RowOK, Steady, Rows, ShownOnce
<1>7. ASSUME NEW f \in wire' \ wire
      PROVE  /\ f.msg \in called /\ f.part \in Parts(f.msg)
             /\ Piece(f).fragment = f /\ Carries(Piece(f), f.msg, f.part)
  <2>1. PICK m \in called : \E i \in Parts(m) : wire' = wire \cup {Fragment(m, i)}
    BY <1>1, <1>7 DEF HandsOver, TakesReceipt, Delivery, Forgets
  <2>2. PICK i \in Parts(m) : wire' = wire \cup {Fragment(m, i)}
    BY <2>1
  <2>3. f.msg = m /\ f.part = i /\ m \in Msgs
    BY <1>1, <1>7, <2>2, FragmentFields
  <2> QED
    BY <2>3, PieceCarries DEF DInv
<1>8. WayOK'
  <2> SUFFICES ASSUME NEW w \in way'
               PROVE  /\ w.fragment.msg \in called' /\ w.fragment.part \in Parts(w.fragment.msg)
                      /\ Carries(w, w.fragment.msg, w.fragment.part)
    BY DEF WayOK, Carries, Place, PartSize, Parts
  <2>1. CASE w \in way
    BY <1>1, <2>1 DEF DInv, WayOK
  <2>2. ASSUME NEW f \in wire' \ wire, w = Piece(f)
        PROVE  /\ w.fragment.msg \in called' /\ w.fragment.part \in Parts(w.fragment.msg)
               /\ Carries(w, w.fragment.msg, w.fragment.part)
    BY <1>1, <1>7, <2>2
  <2> QED
    BY <1>3, <2>1, <2>2
<1>9. ArrivedOK'
  <2>1. ASSUME NEW x \in wire'
        PROVE  (\E w \in way' : w.fragment = x) \/ Place(x.msg, x.part) \in rows[x.msg].blob
    <3>1. CASE x \in wire
      BY <1>3, <3>1 DEF DInv, ArrivedOK, OnTheWay
    <3>2. CASE x \notin wire
      BY <1>3, <1>7, <3>2
    <3> QED
      BY <3>1, <3>2
  <2>2. ASSUME NEW m \in Msgs, NEW i \in acked'[m]
        PROVE  Place(m, i) \in rows[m].blob
    <3>1. CASE i \in acked[m]
      BY <3>1 DEF DInv, ArrivedOK
    <3>2. CASE i \notin acked[m]
      <4>1. op'.at # "down" /\ \E f \in wire : Delivery(f)
        BY <1>1, <3>2 DEF HandsOver, TakesReceipt, Forgets
      <4>2. PICK f \in wire : Delivery(f)
        BY <4>1
      <4>3. m = f.msg /\ i = f.part
        BY <3>2, <4>2 DEF Delivery, Inv, WorldOK
      <4>4. f \in wire \ wire'
        BY <4>2 DEF Delivery
      <4>5. ~OnTheWay(f)
        BY <1>3, <4>1, <4>4 DEF OnTheWay
      <4> QED
        BY <4>3, <4>5 DEF DInv, ArrivedOK
    <3> QED
      BY <3>1, <3>2
  <2> QED
    BY <1>2, <2>1, <2>2 DEF ArrivedOK, OnTheWay, Place, PartSize
<1> QED
  BY <1>5, <1>6, <1>8, <1>9 DEF DInv

-----------------------------------------------------------------------------
(* The receiver's steps.                                                   *)

\* A receiver that is killed takes its receipt with it, and nothing else of
\* the sender's.
LEMMA WireShrinks ==
  ASSUME SenderInv, wire' \subseteq wire,
         UNCHANGED <<structs, statics, db, op, online, nextId, acked, client, bounds>>
  PROVE  SenderInv'
<1> USE DEF SenderInv, structs, statics, client, bounds
<1>1. Inv'
  <2>1. DbOK'
    BY DEF Inv, DbOK
  <2>2. WorldOK'
    BY DEF Inv, WorldOK
  <2>3. OpOK'
    BY DEF Inv, OpOK
  <2> QED
    BY <2>1, <2>2, <2>3, FrameStep
<1>2. ListOK'
  BY DEF ListOK, OnHeap, Listed
<1>3. FreshOK' /\ RecordsOK'
  BY DEF Safe, FreshOK, RecordsOK
<1>4. SentOK'
  BY DEF Safe, SentOK, Room
<1>5. ConfirmedOK' /\ ToldOK'
  BY DEF Safe, ConfirmedOK, ToldOK, Finishing
<1> QED
  BY <1>1, <1>2, <1>3, <1>4, <1>5 DEF Safe

LEMMA HandlerKeepsWay ==
  ASSUME DInv, NEW w \in way, NEW m \in Msgs, m = w.fragment.msg,
         NEW s, Leaves(m, s), LeavesBehind(w, s),
         UNCHANGED <<heap, fromDb, called, acked>>,
         kills' \in Nat,
         kills' = 0 => kills = 0 /\ (Steady(m, rows[m], seen[m]) => Steady(m, s.row, s.seen)),
         wire' \subseteq wire,
         w.fragment \in wire' => Place(m, w.fragment.part) \in s.row.blob
  PROVE  DInv'
<1>1. /\ rows' = [rows EXCEPT ![m] = s.row] /\ seen' = [seen EXCEPT ![m] = s.seen]
      /\ way' = way \ {w}
      /\ DOMAIN rows = Msgs /\ DOMAIN seen = Msgs
  BY DEF LeavesBehind, DInv, RowsOK
<1>2. /\ DOMAIN rows' = Msgs /\ DOMAIN seen' = Msgs
      /\ rows'[m] = s.row /\ seen'[m] = s.seen
      /\ \A n \in Msgs : n # m => rows'[n] = rows[n] /\ seen'[n] = seen[n]
  BY <1>1
<1>3. \A n \in Msgs : rows[n].blob \subseteq rows'[n].blob
  BY <1>2 DEF Leaves
<1>4. RowsOK'
  <2>1. ASSUME NEW n \in Msgs
        PROVE  /\ RowOK(n, rows'[n], seen'[n])
               /\ kills' = 0 => Steady(n, rows'[n], seen'[n])
    <3>1. RowOK(n, rows[n], seen[n]) /\ (kills = 0 => Steady(n, rows[n], seen[n]))
      BY DEF DInv, RowsOK
    <3> QED
      BY <1>2, <3>1 DEF Leaves
  <2> QED
    BY <1>2, <2>1 DEF RowsOK, RowOK, Steady, Rows, ShownOnce, Places, Place, PartSize, Stored, Parts
<1>5. LoadedOK'
  BY DEF DInv, LoadedOK
<1>6. WayOK'
  BY <1>1 DEF DInv, WayOK, Carries, Place, PartSize, Parts
<1>7. ArrivedOK'
  <2>1. ASSUME NEW x \in wire'
        PROVE  (\E v \in way' : v.fragment = x) \/ Place(x.msg, x.part) \in rows'[x.msg].blob
    <3>1. x \in wire
      OBVIOUS
    <3>2. CASE x = w.fragment
      BY <1>2, <3>2
    <3>3. CASE x # w.fragment /\ \E v \in way : v.fragment = x
      BY <1>1, <3>3
    <3>4. CASE Place(x.msg, x.part) \in rows[x.msg].blob
      <4>1. CASE x.msg = m
        BY <1>3, <3>4, <4>1
      <4>2. CASE x.msg # m
        BY <1>1, <3>4, <4>2
      <4> QED
        BY <4>1, <4>2
    <3> QED
      BY <3>1, <3>2, <3>3, <3>4 DEF DInv, ArrivedOK, OnTheWay
  <2>2. ASSUME NEW n \in Msgs, NEW i \in acked'[n]
        PROVE  Place(n, i) \in rows'[n].blob
    BY <1>3 DEF DInv, ArrivedOK
  <2> QED
    BY <2>1, <2>2 DEF ArrivedOK, OnTheWay, Place, PartSize
<1> QED
  BY <1>4, <1>5, <1>6, <1>7 DEF DInv

\* What a fragment on its way does to the rows of its message.
LEMMA OnItsWay ==
  ASSUME DInv, called \subseteq Msgs, NEW w \in way
  PROVE  LET m == w.fragment.msg
         IN  /\ m \in called /\ m \in Msgs /\ w.fragment.part \in Parts(m)
             /\ Len(Trail(w)) \in Nat
             /\ \A k \in 1 .. Len(Trail(w)) : Leaves(m, Trail(w)[k])
             /\ Len(Trail(w)) > 1 => /\ Leaves(m, Last(Trail(w)))
                                    /\ Finishes(m, w.fragment.part, Last(Trail(w)))
<1> DEFINE m == w.fragment.msg
           i == w.fragment.part
<1>1. m \in called /\ m \in Msgs /\ i \in Parts(m) /\ Carries(w, m, i) /\ RowsOK
  BY DEF DInv, WayOK
<1>2. /\ Len(Trail(w)) \in Nat
      /\ \A k \in 1 .. Len(Trail(w)) : Leaves(m, Trail(w)[k])
      /\ Len(Trail(w)) > 1 => Finishes(m, i, Last(Trail(w)))
  BY <1>1, TrailFacts
<1>3. Len(Trail(w)) > 1 => Leaves(m, Last(Trail(w)))
  BY <1>2 DEF Last
<1> QED
  BY <1>1, <1>2, <1>3

LEMMA DeliverKeeps ==
  ASSUME SenderInv, DInv, NEW w \in way, Deliver(w)
  PROVE  SenderInv' /\ DInv'
<1> DEFINE m == w.fragment.msg
           s == Last(Trail(w))
<1>1. /\ Len(Trail(w)) > 1 /\ LeavesBehind(w, s)
      /\ UNCHANGED <<structs, statics, db, op, online, nextId, wire, acked, client, bounds>>
      /\ UNCHANGED <<heap, called, fromDb, kills>>
  BY DEF Deliver, vars, base, structs, client
<1>2. SenderInv'
  BY <1>1, WireShrinks
<1>3. /\ m \in Msgs /\ Leaves(m, s) /\ Finishes(m, w.fragment.part, s)
  BY <1>1, OnItsWay DEF SenderInv, Inv, WorldOK
<1>4. kills \in Nat
  BY DEF DInv, RowsOK
<1> HIDE DEF s
<1>5. DInv'
  BY <1>1, <1>3, <1>4, HandlerKeepsWay DEF Finishes
<1> QED
  BY <1>2, <1>5

LEMMA DieKeeps ==
  ASSUME SenderInv, DInv, NEW w \in way, Die(w)
  PROVE  SenderInv' /\ DInv'
<1> DEFINE m == w.fragment.msg
<1>1. /\ kills' = kills + 1 /\ wire' = wire \ {w.fragment}
      /\ UNCHANGED <<structs, statics, db, op, online, nextId, acked, client, bounds>>
      /\ UNCHANGED <<heap, called, acked, fromDb>>
  BY DEF Die, structs, client
<1>2. PICK k \in 1 .. Len(Trail(w)) : LeavesBehind(w, Trail(w)[k])
  BY DEF Die
<1>3. SenderInv'
  BY <1>1, WireShrinks
<1>4. m \in Msgs /\ Leaves(m, Trail(w)[k])
  BY <1>2, OnItsWay DEF SenderInv, Inv, WorldOK
<1>5. kills' \in Nat /\ kills' # 0
  BY <1>1 DEF DInv, RowsOK
<1>6. wire' \subseteq wire /\ w.fragment \notin wire'
  BY <1>1
<1> DEFINE s == Trail(w)[k]
<1> HIDE DEF s
<1>7. DInv'
  <2>1. Leaves(m, s) /\ LeavesBehind(w, s)
    BY <1>2, <1>4 DEF s
  <2> QED
    BY <1>1, <1>4, <1>5, <1>6, <2>1, HandlerKeepsWay
<1> QED
  BY <1>3, <1>7

-----------------------------------------------------------------------------
(* The invariant holds throughout.                                         *)

LEMMA NoneShownAtFirst ==
  ASSUME NEW m \in Msgs
  PROVE  RowOK(m, RowsInit, <<>>) /\ Steady(m, RowsInit, <<>>)
<1>1. NumParts[m] # 0 /\ Cardinality(Stored(m, {})) = 0
  BY SizesOfParts, NothingStored
<1> QED
  BY <1>1 DEF RowOK, Rows, Steady, RowsInit

LEMMA InitKeeps == DeliveryInit => SenderInv /\ DInv
<1> SUFFICES ASSUME DeliveryInit
             PROVE  SenderInv /\ DInv
  OBVIOUS
<1>1. Init
  BY DEF DeliveryInit
<1>2. SenderInv
  BY <1>1, InitInv, InitList, InitSafe DEF SenderInv
<1>3. RowsOK
  <2>1. \A m \in Msgs : rows[m] = RowsInit /\ seen[m] = <<>>
    BY DEF DeliveryInit
  <2> QED
    BY <2>1, NoneShownAtFirst DEF DeliveryInit, RowsOK
<1>4. LoadedOK /\ WayOK /\ ArrivedOK
  BY <1>1 DEF DeliveryInit, Init, LoadedOK, WayOK, ArrivedOK
<1> QED
  BY <1>2, <1>3, <1>4 DEF DInv

LEMMA NextKeeps ==
  ASSUME SpuriousRefusal = FALSE, CutAlike, SenderInv, DInv, [DeliveryNext]_deliveryVars
  PROVE  SenderInv' /\ DInv'
<1>1. CASE SenderStep
  <2>1. SenderInv'
    BY <1>1, NextInv, NextList, NextSafe DEF SenderStep, SenderInv
  <2>2. DInv'
    BY <1>1, SenderKeepsWay DEF SenderInv
  <2> QED
    BY <2>1, <2>2
<1>2. ASSUME NEW w \in way, Deliver(w) \/ Die(w)
      PROVE  SenderInv' /\ DInv'
  BY <1>2, DeliverKeeps, DieKeeps
<1>3. CASE UNCHANGED deliveryVars
  <2>1. /\ UNCHANGED <<structs, statics, db, op, online, nextId, wire, acked, client, bounds>>
        /\ UNCHANGED <<heap, called, fromDb, way, rows, seen, kills>>
    BY <1>3 DEF deliveryVars, vars, base, receiver, structs, client
  <2>2. SenderInv'
    BY <2>1, WireShrinks
  <2>3. RowsOK'
    BY <2>1 DEF DInv, RowsOK, RowOK, Steady, Rows, ShownOnce
  <2>4. LoadedOK' /\ WayOK' /\ ArrivedOK'
    BY <2>1 DEF DInv, LoadedOK, WayOK, Carries, ArrivedOK, OnTheWay
  <2> QED
    BY <2>2, <2>3, <2>4 DEF DInv
<1> QED
  BY <1>1, <1>2, <1>3 DEF DeliveryNext

(***************************************************************************)
(* Sender, way and receiver: a fragment that the base library answers for  *)
(* is on its way or stored in its place, and one that the sender has the   *)
(* receipt of is stored, also when the handler of another fragment was     *)
(* killed between any two of its statements (db.c:119-206).                *)
(***************************************************************************)
THEOREM DeliveryInvariance ==
  ASSUME SpuriousRefusal = FALSE, CutAlike
  PROVE  DeliverySpec => [](SenderInv /\ DInv)
BY InitKeeps, NextKeeps, PTL DEF DeliverySpec

(***************************************************************************)
(* Type correctness of both ends: frags_done does not pass frags_num       *)
(* (db.c:199), nothing is stored behind the end of the message, and no     *)
(* fragment is empty.                                                      *)
(***************************************************************************)
THEOREM DeliveryTypeCorrect ==
  ASSUME SpuriousRefusal = FALSE, CutAlike
  PROVE  DeliverySpec => []DeliveryTypeOK
<1>1. SenderInv /\ DInv => DeliveryTypeOK
  <2> SUFFICES ASSUME SenderInv, DInv
               PROVE  DeliveryTypeOK
    OBVIOUS
  <2>1. fromDb \subseteq heap
    BY DEF DInv, LoadedOK
  <2>2. ASSUME NEW m \in Msgs
        PROVE  /\ rows[m].done \in 0 .. NumParts[m]
               /\ Bytes(rows[m].blob) \subseteq 0 .. LengthOf[m] - 1
               /\ seen[m] \in Seq([whole : BOOLEAN, type : {Normal, TypeOf[m]}])
    <3>1. RowOK(m, rows[m], seen[m])
      BY DEF DInv, RowsOK
    <3>2. rows[m].done \in Nat /\ rows[m].blob \subseteq Places(m)
      BY <3>1 DEF RowOK, Rows
    <3>3. rows[m].done <= NumParts[m]
      BY <3>1, <3>2, StoredCounted, SizesOfParts DEF RowOK
    <3>4. seen[m] = <<>> \/ ShownOnce(m, seen[m])
      BY <3>1 DEF RowOK
    <3>5. seen[m] \in Seq([whole : BOOLEAN, type : {Normal, TypeOf[m]}])
      <4> DEFINE S == [whole : BOOLEAN, type : {Normal, TypeOf[m]}]
      <4>1. CASE ShownOnce(m, seen[m])
        <5>1. PICK t \in {Normal, TypeOf[m]} : seen[m] = <<[whole |-> TRUE, type |-> t]>>
          BY <4>1 DEF ShownOnce
        <5>2. [whole |-> TRUE, type |-> t] \in S
          BY <5>1
        <5> HIDE DEF S
        <5>3. \A r \in S : <<r>> \in Seq(S)
          OBVIOUS
        <5> QED
          BY <5>1, <5>2, <5>3 DEF S
      <4>2. CASE seen[m] = <<>>
        BY <4>2
      <4> QED
        BY <3>4, <4>1, <4>2
    <3> QED
      BY <3>2, <3>3, <3>5, SizesOfParts, BytesWithin
  <2>3. ASSUME NEW w \in way
        PROVE  w.size > 0
    <3> DEFINE m == w.fragment.msg
               i == w.fragment.part
    <3>1. m \in Msgs /\ i \in Parts(m) /\ w.size = Place(m, i).size
      BY DEF DInv, WayOK, Carries, SenderInv, Inv, WorldOK
    <3> QED
      BY <3>1, PlaceFacts
  <2> QED
    BY <2>1, <2>2, <2>3 DEF DeliveryTypeOK
<1> QED
  BY <1>1, DeliveryInvariance, PTL

(***************************************************************************)
(* What the sender has noted as confirmed, in its memory or its database   *)
(* (c:404-405, c:636), the receiver has, across crashes of the one and     *)
(* kills of the other.                                                     *)
(***************************************************************************)
LEMMA ConfirmedIsStored ==
  ASSUME SenderInv, DInv, NEW m \in Msgs, NEW i \in confirmed[m] \cup db[m].confirmed
  PROVE  i \in Parts(m) /\ Place(m, i) \in rows[m].blob
<1>1. i \in acked[m]
  BY DEF SenderInv, Safe, ConfirmedOK
<1>2. i \in Parts(m)
  BY <1>1 DEF SenderInv, Inv, WorldOK
<1> QED
  BY <1>1, <1>2 DEF DInv, ArrivedOK

THEOREM ConfirmedKept ==
  ASSUME SpuriousRefusal = FALSE, CutAlike
  PROVE  DeliverySpec => []ConfirmedIsThere
<1>1. SenderInv /\ DInv => ConfirmedIsThere
  <2> SUFFICES ASSUME SenderInv, DInv, NEW m \in Msgs,
                      NEW i \in confirmed[m] \cup db[m].confirmed
               PROVE  \E e \in rows[m].blob : e.off = i * Step(LengthOf[m], SizeEver)
    BY DEF ConfirmedIsThere
  <2>1. i \in Parts(m) /\ Place(m, i) \in rows[m].blob
    BY ConfirmedIsStored
  <2>2. Place(m, i).off = i * Step(LengthOf[m], SizeEver)
    BY DEF Place, PartSize
  <2> QED
    BY <2>1, <2>2
<1> QED
  BY <1>1, DeliveryInvariance, PTL

(***************************************************************************)
(* What the README says of recombining (README.md:8) is so for messages    *)
(* that are cut alike: what is shown has no hole in it.                    *)
(***************************************************************************)
THEOREM ShownHasNoHole ==
  ASSUME SpuriousRefusal = FALSE, CutAlike
  PROVE  DeliverySpec => []Original
<1>1. DInv => Original
  <2> SUFFICES ASSUME DInv, NEW m \in Msgs, NEW i \in DOMAIN seen[m]
               PROVE  seen[m][i].whole
    BY DEF Original
  <2>1. seen[m] = <<>> \/ ShownOnce(m, seen[m])
    BY DEF DInv, RowsOK, RowOK
  <2>2. ASSUME seen[m] = <<>>
        PROVE  DOMAIN seen[m] = {}
    BY <2>2
  <2>3. PICK t : seen[m] = <<[whole |-> TRUE, type |-> t]>>
    BY <2>1, <2>2 DEF ShownOnce
  <2> QED
    BY <2>3
<1> QED
  BY <1>1, DeliveryInvariance, PTL

-----------------------------------------------------------------------------
(* The promise of Messenger, step by step.                                 *)

Shown == [m \in Msgs |-> [i \in DOMAIN seen[m] |-> IF seen[m][i].whole THEN m ELSE NoMsg]]

LEMMA ShownValues ==
  ASSUME NEW m \in Msgs
  PROVE  /\ seen[m] = <<>> => Shown[m] = <<>>
         /\ ShownOnce(m, seen[m]) => Shown[m] = <<m>>
<1>1. Shown[m] = [i \in DOMAIN seen[m] |-> IF seen[m][i].whole THEN m ELSE NoMsg]
  BY DEF Shown
<1>2. CASE seen[m] = <<>>
  <2>1. DOMAIN seen[m] = {}
    BY <1>2
  <2>2. Shown[m] = <<>>
    BY <1>1, <2>1
  <2>3. ~ShownOnce(m, seen[m])
    BY <1>2 DEF ShownOnce
  <2> QED
    BY <2>2, <2>3
<1>3. CASE ShownOnce(m, seen[m])
  <2>1. DOMAIN seen[m] = 1 .. 1 /\ seen[m][1].whole = TRUE /\ seen[m] # <<>>
    BY <1>3 DEF ShownOnce
  <2>2. Shown[m] = [i \in 1 .. 1 |-> m]
    BY <1>1, <2>1
  <2> QED
    BY <2>1, <2>2
<1> QED
  BY <1>2, <1>3

LEMMA PromiseInit == DeliveryInit => Promise!Init
<1> SUFFICES ASSUME DeliveryInit
             PROVE  Promise!Init
  OBVIOUS
<1>1. \A m \in Msgs : Shown[m] = <<>>
  BY ShownValues DEF DeliveryInit
<1>2. Shown = [m \in Msgs |-> <<>>]
  BY <1>1 DEF Shown
<1> QED
  BY <1>2 DEF DeliveryInit, Init, Promise!Init, Shown

\* What a handler leaves behind is shown as one step of the promise.
LEMMA HandlerShows ==
  ASSUME DInv, NEW w, NEW m \in Msgs, m = w.fragment.msg, m \in called,
         NEW s, Leaves(m, s), LeavesBehind(w, s)
  PROVE  Shown' = Shown \/ Promise!Shows(m)
<1>1. /\ seen' = [seen EXCEPT ![m] = s.seen] /\ DOMAIN seen = Msgs
      /\ s.seen = seen[m] \/ (seen[m] = <<>> /\ ShownOnce(m, s.seen))
  BY DEF LeavesBehind, Leaves, DInv, RowsOK
<1>2. CASE s.seen = seen[m]
  <2>1. \A n \in Msgs : seen'[n] = seen[n]
    BY <1>1, <1>2
  <2> QED
    BY <2>1 DEF Shown
<1>3. CASE seen[m] = <<>> /\ ShownOnce(m, s.seen)
  <2>1. PICK t : s.seen = <<[whole |-> TRUE, type |-> t]>>
    BY <1>3 DEF ShownOnce
  <2>2. seen'[m] = <<[whole |-> TRUE, type |-> t]>> /\ \A n \in Msgs : n # m => seen'[n] = seen[n]
    BY <1>1, <2>1
  <2>3. DOMAIN seen'[m] = 1 .. 1 /\ seen'[m][1].whole = TRUE
    BY <2>2
  <2>4. \A n \in Msgs : Shown'[n] = [i \in DOMAIN seen'[n] |-> IF seen'[n][i].whole THEN n ELSE NoMsg]
    BY DEF Shown
  <2>5. Shown'[m] = <<m>>
    <3> DEFINE q == seen'[m]
    <3>1. Shown'[m] = [i \in DOMAIN q |-> IF q[i].whole THEN m ELSE NoMsg]
      BY <2>4
    <3>2. DOMAIN q = 1 .. 1 /\ q[1].whole = TRUE
      BY <2>3
    <3> HIDE DEF q
    <3>3. Shown'[m] = [i \in 1 .. 1 |-> m]
      BY <3>1, <3>2
    <3> QED
      BY <3>3
  <2>6. \A n \in Msgs : n # m => Shown'[n] = Shown[n]
    BY <2>2, <2>4 DEF Shown
  <2>7. Shown' = [Shown EXCEPT ![m] = <<m>>]
    <3>1. DOMAIN Shown = Msgs /\ DOMAIN Shown' = Msgs
      BY DEF Shown
    <3>2. Shown' = [n \in Msgs |-> Shown'[n]] /\ Shown = [n \in Msgs |-> Shown[n]]
      BY DEF Shown
    <3> HIDE DEF Shown
    <3> QED
      BY <2>5, <2>6, <3>1, <3>2
  <2>8. Shown[m] = <<>>
    BY <1>3, ShownValues
  <2> QED
    BY <2>7, <2>8 DEF Promise!Shows, Shown
<1> QED
  BY <1>1, <1>2, <1>3

\* The client of the sender hears of a message that was shown, if no handler of
\* the receiver was ever killed.
LEMMA ToldOfShown ==
  ASSUME SenderInv, DInv, Notify
  PROVE  /\ op.msg \in Msgs /\ op.msg \in called /\ told[op.msg] = 0
         /\ told' = [told EXCEPT ![op.msg] = 1]
         /\ Shown[op.msg] # <<>> \/ kills > 0
<1> DEFINE m == op.msg
<1>1. m \in Msgs /\ op.at = "notify" /\ told' = [told EXCEPT ![m] = @ + 1]
  BY NotifyFacts DEF SenderInv
<1>2. m \in heap /\ confirmed[m] = Parts(m) /\ told[m] = 0
  BY <1>1 DEF SenderInv, Safe, ToldOK, Finishing, New
<1>3. m \in called
  BY <1>2 DEF SenderInv, ListOK
<1>4. told' = [told EXCEPT ![m] = 1]
  BY <1>1, <1>2
<1>5. ASSUME kills = 0
      PROVE  Shown[m] # <<>>
  <2>1. Stored(m, rows[m].blob) = Parts(m)
    BY <1>1, <1>2, ConfirmedIsStored DEF Stored
  <2>2. Steady(m, rows[m], seen[m]) /\ RowOK(m, rows[m], seen[m])
    BY <1>1, <1>5 DEF DInv, RowsOK
  <2>3. rows[m].done = NumParts[m]
    BY <1>1, <2>1, <2>2, PartsCounted DEF Steady
  <2>4. ShownOnce(m, seen[m])
    BY <2>2, <2>3 DEF Steady, RowOK
  <2>5. Shown[m] = <<m>>
    BY <1>1, <2>4, ShownValues
  <2> QED
    BY <2>5
<1>6. kills \in Nat
  BY DEF DInv, RowsOK
<1> QED
  BY <1>1, <1>2, <1>3, <1>4, <1>5, <1>6

LEMMA PromiseStep ==
  ASSUME SenderInv, DInv, [DeliveryNext]_deliveryVars
  PROVE  [Promise!Next]_Promise!vars
<1> SUFFICES Promise!Next \/ (called' = called /\ Shown' = Shown /\ told' = told /\ (kills > 0)' = (kills > 0))
  BY DEF Promise!vars, Shown
<1>1. CASE SenderStep
  <2>1. seen' = seen /\ kills' = kills /\ Next /\ Inv /\ ListOK
    BY <1>1 DEF SenderStep, receiver, SenderInv
  <2>2. Shown' = Shown /\ (kills > 0)' = (kills > 0)
    BY <2>1 DEF Shown
  <2>3. CASE UNCHANGED <<called, told>>
    BY <2>2, <2>3
  <2>4. CASE Notify /\ called' = called
    <3>1. Promise!Tell(op.msg)
      BY <2>2, <2>4, ToldOfShown DEF Promise!Tell, Shown
    <3> QED
      BY <3>1, ToldOfShown, <2>4 DEF Promise!Next
  <2>5. ASSUME NEW m \in Msgs, SendLong(m), told' = told
        PROVE  Promise!Next
    <3>1. m \notin called /\ called' = called \cup {m}
      BY <2>5 DEF SendLong
    <3>2. Promise!Send(m)
      BY <2>2, <2>5, <3>1 DEF Promise!Send, Shown
    <3> QED
      BY <3>2 DEF Promise!Next
  <2> QED
    BY <2>1, <2>3, <2>4, <2>5, SenderMoves
<1>2. ASSUME NEW w \in way, Deliver(w)
      PROVE  Promise!Next \/ (called' = called /\ Shown' = Shown /\ told' = told /\ (kills > 0)' = (kills > 0))
  <2> DEFINE m == w.fragment.msg
             s == Last(Trail(w))
  <2>1. Len(Trail(w)) > 1 /\ LeavesBehind(w, s) /\ UNCHANGED <<called, told, kills>>
    BY <1>2 DEF Deliver, vars, client
  <2>2. m \in Msgs /\ m \in called /\ Leaves(m, s)
    BY <2>1, OnItsWay DEF SenderInv, Inv, WorldOK
  <2> HIDE DEF s
  <2>3. Shown' = Shown \/ Promise!Shows(m)
    BY <2>1, <2>2, HandlerShows
  <2>4. Promise!Shows(m) => Promise!Show(m)
    BY <2>1 DEF Promise!Show
  <2> QED
    BY <2>1, <2>2, <2>3, <2>4 DEF Promise!Next
<1>3. ASSUME NEW w \in way, Die(w)
      PROVE  Promise!Next
  <2> DEFINE m == w.fragment.msg
  <2>1. kills' = kills + 1 /\ UNCHANGED <<called, told>> /\ kills \in Nat
    BY <1>3 DEF Die, client, DInv, RowsOK
  <2>2. PICK k \in 1 .. Len(Trail(w)) : LeavesBehind(w, Trail(w)[k])
    BY <1>3 DEF Die
  <2>3. m \in Msgs /\ m \in called /\ Leaves(m, Trail(w)[k])
    BY <2>2, OnItsWay DEF SenderInv, Inv, WorldOK
  <2> DEFINE s == Trail(w)[k]
  <2> HIDE DEF s
  <2>4. LeavesBehind(w, s) /\ Leaves(m, s)
    BY <2>2, <2>3 DEF s
  <2>5. Shown' = Shown \/ Promise!Shows(m)
    BY <2>3, <2>4, HandlerShows
  <2>6. (kills > 0)' = TRUE
    BY <2>1
  <2>7. Promise!Kill
    BY <2>1, <2>3, <2>5, <2>6 DEF Promise!Kill, Shown
  <2> QED
    BY <2>7 DEF Promise!Next
<1>4. CASE UNCHANGED deliveryVars
  BY <1>4 DEF deliveryVars, vars, client, receiver, Shown
<1> QED
  BY <1>1, <1>2, <1>3, <1>4 DEF DeliveryNext

(***************************************************************************)
(* The two defragmenters together keep the promise of Messenger: what is   *)
(* shown is the message, without a hole, once; and the sender's client     *)
(* hears of it once, and not before it was shown unless the receiver was   *)
(* killed at work.                                                         *)
(***************************************************************************)
THEOREM PromiseKept ==
  ASSUME SpuriousRefusal = FALSE, CutAlike
  PROVE  DeliverySpec => KeepsPromise
<1>1. DeliveryInit => Promise!Init
  BY PromiseInit
<1>2. SenderInv /\ DInv /\ [DeliveryNext]_deliveryVars => [Promise!Next]_Promise!vars
  BY PromiseStep
<1>3. DeliverySpec => [](SenderInv /\ DInv)
  BY DeliveryInvariance
<1> QED
  BY <1>1, <1>2, <1>3, PTL DEF DeliverySpec, KeepsPromise, Promise!Spec
=============================================================================
