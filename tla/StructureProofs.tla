-------------------------- MODULE StructureProofs --------------------------
(***************************************************************************)
(* The data structures of the sender.  What the operators of ReceiptTable  *)
(* do to a well-formed table, and that the list of messages stays a list,  *)
(* without repetitions: what linking and unlinking (Ring) put where.  The  *)
(* facts about the sender (OutboundProofs) and about the library's life    *)
(* (LifecycleProofs, which needs the list alone) rest on these lemmas.     *)
(***************************************************************************)
EXTENDS ReceiptTable, Ring, FiniteSetTheorems, NaturalsInduction, TLAPS

(***************************************************************************)
(* A table is well formed for base number n when its records lie in        *)
(* [lo, hi) in the order of their receipts and none is above n, so that    *)
(* the next number the base gives out belongs at the end.                  *)
(***************************************************************************)
Cell(M) == [receipt : Nat \ {0}, msg : M, part : Nat]

CellFunctions(M) == UNION {[D -> Cell(M)] : D \in SUBSET Nat}

Ordered(t) ==
  \A j, k \in DOMAIN t.cells : j < k => t.cells[j].receipt < t.cells[k].receipt

WellFormed(t, M, n) ==
  /\ t \in [cells : CellFunctions(M), lo : Nat, hi : Nat, num : Nat]
  /\ t.lo <= t.hi
  /\ DOMAIN t.cells \subseteq t.lo .. t.hi - 1
  /\ \A k \in DOMAIN t.cells : t.cells[k].receipt <= n
  /\ Ordered(t)
  /\ IsFiniteSet(DOMAIN t.cells)
  /\ Cardinality(DOMAIN t.cells) <= t.num

\* Table u has the records of t and one more, in cell k.
OneMore(t, u, k) ==
  /\ IsFiniteSet(DOMAIN t.cells)
  /\ k \notin DOMAIN t.cells
  /\ DOMAIN u.cells = DOMAIN t.cells \cup {k}
  /\ \A j \in DOMAIN t.cells : u.cells[j] = t.cells[j]

CellsOf(t, m) == {k \in DOMAIN t.cells : t.cells[k].msg = m}

(***************************************************************************)
(* A nonempty set of natural numbers has a least element; one that is also *)
(* bounded has a greatest one.                                             *)
(***************************************************************************)
LEMMA LeastExists ==
  ASSUME NEW S, S \subseteq Nat, S # {}
  PROVE  \E x \in S : \A y \in S : x <= y
<1>1. IsWellFoundedOn(OpToRel(<, Nat), Nat)
  BY NatLessThanWellFounded
<1>2. PICK x \in S : \A y \in S : ~(<<y, x>> \in OpToRel(<, Nat))
  BY <1>1, WFMin
<1>3. \A y \in S : x <= y
  <2>1. ASSUME NEW y \in S, y < x
        PROVE  FALSE
    <3>1. <<y, x>> \in Nat \X Nat /\ <<y, x>>[1] < <<y, x>>[2]
      BY <2>1
    <3>2. <<y, x>> \in OpToRel(<, Nat)
      BY <3>1, Zenon DEF OpToRel
    <3> QED
      BY <1>2, <3>2
  <2> QED
    BY <2>1
<1> QED
  BY <1>2, <1>3

LEMMA MinProperty ==
  ASSUME NEW S, S \subseteq Nat, S # {}
  PROVE  Min(S) \in S /\ \A y \in S : Min(S) <= y
<1>1. \E x \in S : \A y \in S : x <= y
  BY LeastExists
<1> QED
  BY <1>1 DEF Min

LEMMA MaxProperty ==
  ASSUME NEW S, NEW n \in Nat, S \subseteq 0 .. n, S # {}
  PROVE  Max(S) \in S /\ \A y \in S : Max(S) >= y
<1> DEFINE T == {n - x : x \in S}
<1>1. T \subseteq Nat /\ T # {}
  <2>1. \A x \in S : n - x \in Nat
    OBVIOUS
  <2>2. \E x \in S : n - x \in T
    OBVIOUS
  <2> QED
    BY <2>1, <2>2
<1>2. PICK z \in T : \A y \in T : z <= y
  BY <1>1, LeastExists
<1>3. PICK x \in S : z = n - x
  BY <1>2
<1>4. \A y \in S : n - x <= n - y
  BY <1>2, <1>3
<1>5. \A y \in S : x >= y
  BY <1>4, <1>3
<1> QED
  BY <1>3, <1>5 DEF Max

-----------------------------------------------------------------------------
(* Lemmas on the table.                                                    *)

(***************************************************************************)
(* Reading a cell beyond the occupied ones yields 0, so a receipt number   *)
(* that is found is found in an occupied cell (tryProcessReceipt, c:625).  *)
(***************************************************************************)
LEMMA FoundIsOccupied ==
  ASSUME NEW t, NEW k, NEW r \in Nat \ {0}, ReceiptAt(t, k) = r
  PROVE  k \in DOMAIN t.cells /\ t.cells[k].receipt = r
BY DEF ReceiptAt

LEMMA CellFacts ==
  ASSUME NEW M, NEW n \in Nat, NEW t, WellFormed(t, M, n)
  PROVE  /\ t.cells = [j \in DOMAIN t.cells |-> t.cells[j]]
         /\ DOMAIN t.cells \subseteq Nat
         /\ \A k \in DOMAIN t.cells :
              /\ t.cells[k] \in Cell(M)
              /\ t.cells[k].receipt \in Nat /\ t.cells[k].receipt <= n
              /\ t.lo <= k /\ k < t.hi
         /\ t.lo \in Nat /\ t.hi \in Nat /\ t.num \in Nat
         /\ t.hi \notin DOMAIN t.cells
<1>1. t.cells \in CellFunctions(M) /\ t.lo \in Nat /\ t.hi \in Nat /\ t.num \in Nat
  BY DEF WellFormed
<1>2. PICK D \in SUBSET Nat : t.cells \in [D -> Cell(M)]
  BY <1>1 DEF CellFunctions
<1>3. \A k \in DOMAIN t.cells : k \in t.lo .. t.hi - 1 /\ t.cells[k].receipt <= n
  BY DEF WellFormed
<1>4. \A k \in DOMAIN t.cells : t.cells[k] \in Cell(M)
  BY <1>2
<1>5. \A k \in DOMAIN t.cells : t.cells[k].receipt \in Nat
  BY <1>4 DEF Cell
<1> QED
  BY <1>1, <1>2, <1>3, <1>4, <1>5

(***************************************************************************)
(* The next base number is appended: addReceipt never inserts (c:467).     *)
(***************************************************************************)
LEMMA AddAppends ==
  ASSUME NEW M, NEW n \in Nat, NEW t, WellFormed(t, M, n),
         NEW rec, rec.receipt = n + 1
  PROVE  AddReceipt(t, rec) = AppendReceipt(t, rec)
<1>1. \A k \in DOMAIN t.cells : t.cells[k].receipt \in Nat /\ t.cells[k].receipt <= n
  BY CellFacts
<1>2. t.hi = 0 \/ ReceiptAt(t, t.hi - 1) < rec.receipt
  BY <1>1 DEF ReceiptAt
<1> QED
  BY <1>2 DEF AddReceipt

LEMMA AppendWellFormed ==
  ASSUME NEW M, NEW n \in Nat, NEW t, WellFormed(t, M, n),
         NEW rec \in Cell(M), rec.receipt = n + 1
  PROVE  LET u == AddReceipt(t, rec)
         IN  /\ WellFormed(u, M, n + 1)
             /\ t.hi \notin DOMAIN t.cells
             /\ DOMAIN u.cells = DOMAIN t.cells \cup {t.hi}
             /\ u.cells[t.hi] = rec
             /\ \A k \in DOMAIN t.cells : u.cells[k] = t.cells[k]
             /\ u.hi \in Nat
<1> DEFINE u == AppendReceipt(t, rec)
           cells == [j \in DOMAIN t.cells \cup {t.hi} |->
                       IF j = t.hi THEN rec ELSE t.cells[j]]
<1>1. AddReceipt(t, rec) = u
  BY AddAppends
<1>2. /\ DOMAIN t.cells \subseteq Nat
      /\ \A k \in DOMAIN t.cells :
           /\ t.cells[k] \in Cell(M)
           /\ t.cells[k].receipt \in Nat /\ t.cells[k].receipt <= n
           /\ t.lo <= k /\ k < t.hi
      /\ t.lo \in Nat /\ t.hi \in Nat /\ t.num \in Nat
      /\ t.hi \notin DOMAIN t.cells
  BY CellFacts
<1>3. t \in [cells : CellFunctions(M), lo : Nat, hi : Nat, num : Nat]
  BY DEF WellFormed
<1>4. u = [cells |-> cells, lo |-> t.lo, hi |-> t.hi + 1, num |-> t.num + 1]
  <2>1. cells = Fill(t.cells, t.hi, rec)
    BY DEF Fill
  <2> HIDE DEF cells
  <2> QED
    BY <2>1 DEF AppendReceipt
<1>5. u.cells = cells /\ u.lo = t.lo /\ u.hi = t.hi + 1 /\ u.num = t.num + 1
  BY <1>4
<1> HIDE DEF u
<1>6. /\ DOMAIN u.cells = DOMAIN t.cells \cup {t.hi}
      /\ u.cells[t.hi] = rec
      /\ \A k \in DOMAIN t.cells : u.cells[k] = t.cells[k]
  BY <1>2, <1>5
<1>7. u \in [cells : CellFunctions(M), lo : Nat, hi : Nat, num : Nat]
  <2>1. cells \in [DOMAIN t.cells \cup {t.hi} -> Cell(M)]
    BY <1>2
  <2>2. DOMAIN t.cells \cup {t.hi} \in SUBSET Nat
    BY <1>2
  <2> HIDE DEF cells
  <2>3. cells \in CellFunctions(M)
    BY <2>1, <2>2 DEF CellFunctions
  <2> QED
    BY <1>2, <1>4, <2>3
<1>8. u.lo <= u.hi /\ DOMAIN u.cells \subseteq u.lo .. u.hi - 1
  <2>1. t.lo <= t.hi
    BY DEF WellFormed
  <2> QED
    BY <2>1, <1>2, <1>5, <1>6
<1>9. \A k \in DOMAIN u.cells : u.cells[k].receipt <= n + 1
  BY <1>2, <1>6
<1>10. Ordered(u)
  <2> SUFFICES ASSUME NEW j \in DOMAIN u.cells, NEW k \in DOMAIN u.cells, j < k
               PROVE  u.cells[j].receipt < u.cells[k].receipt
    BY DEF Ordered
  <2>1. j \in DOMAIN t.cells
    BY <1>2, <1>6
  <2>2. CASE k = t.hi
    BY <2>1, <2>2, <1>2, <1>6
  <2>3. CASE k \in DOMAIN t.cells
    BY <2>1, <2>3, <1>6 DEF WellFormed, Ordered
  <2> QED
    BY <2>2, <2>3, <1>6
<1>11. IsFiniteSet(DOMAIN u.cells) /\ Cardinality(DOMAIN u.cells) <= u.num
  <2>1. IsFiniteSet(DOMAIN t.cells) /\ Cardinality(DOMAIN t.cells) <= t.num
    BY DEF WellFormed
  <2>2. /\ IsFiniteSet(DOMAIN t.cells \cup {t.hi})
        /\ Cardinality(DOMAIN t.cells \cup {t.hi}) = Cardinality(DOMAIN t.cells) + 1
    BY <2>1, <1>2, FS_AddElement, Zenon
  <2>3. Cardinality(DOMAIN t.cells) \in Nat
    BY <2>1, FS_CardinalityType
  <2> QED
    BY <2>1, <2>2, <2>3, <1>2, <1>5, <1>6
<1> QED
  BY <1>1, <1>2, <1>5, <1>6, <1>7, <1>8, <1>9, <1>10, <1>11 DEF WellFormed

(***************************************************************************)
(* Emptying a cell, at the end of tryProcessReceipt or on expiry.          *)
(***************************************************************************)
LEMMA EmptiedCells ==
  ASSUME NEW M, NEW n \in Nat, NEW t, WellFormed(t, M, n),
         NEW k \in DOMAIN t.cells
  PROVE  /\ Empty(t.cells, k) \in CellFunctions(M)
         /\ DOMAIN Empty(t.cells, k) = DOMAIN t.cells \ {k}
         /\ \A j \in DOMAIN Empty(t.cells, k) : Empty(t.cells, k)[j] = t.cells[j]
         /\ IsFiniteSet(DOMAIN Empty(t.cells, k))
         /\ Cardinality(DOMAIN Empty(t.cells, k)) + 1 = Cardinality(DOMAIN t.cells)
         /\ Cardinality(DOMAIN Empty(t.cells, k)) \in Nat
<1> DEFINE D == DOMAIN t.cells \ {k}
           e == [j \in D |-> t.cells[j]]
<1>1. Empty(t.cells, k) = e
  BY DEF Empty, Restrict
<1>2. DOMAIN t.cells \subseteq Nat /\ \A j \in DOMAIN t.cells : t.cells[j] \in Cell(M)
  BY CellFacts
<1>3. DOMAIN e = D /\ \A j \in D : e[j] = t.cells[j]
  OBVIOUS
<1>4. e \in [D -> Cell(M)] /\ D \in SUBSET Nat
  BY <1>2
<1>5. e \in CellFunctions(M)
  <2> HIDE DEF e, D
  <2> QED
    BY <1>4 DEF CellFunctions
<1>6. IsFiniteSet(DOMAIN t.cells)
  BY DEF WellFormed
<1>7. /\ IsFiniteSet(D)
      /\ Cardinality(D) = Cardinality(DOMAIN t.cells) - 1
  BY <1>6, FS_RemoveElement, Zenon
<1>8. Cardinality(D) \in Nat /\ Cardinality(DOMAIN t.cells) \in Nat
  BY <1>6, <1>7, FS_CardinalityType, Zenon
<1> HIDE DEF e
<1> QED
  BY <1>1, <1>3, <1>5, <1>7, <1>8

LEMMA ExpireWellFormed ==
  ASSUME NEW M, NEW n \in Nat, NEW t, WellFormed(t, M, n), NEW k \in DOMAIN t.cells
  PROVE  WellFormed(ExpireReceipt(t, k), M, n) /\ OneMore(ExpireReceipt(t, k), t, k)
<1> DEFINE u == ExpireReceipt(t, k)
           c == Empty(t.cells, k)
<1>1. /\ c \in CellFunctions(M)
      /\ DOMAIN c = DOMAIN t.cells \ {k}
      /\ \A j \in DOMAIN c : c[j] = t.cells[j]
      /\ IsFiniteSet(DOMAIN c)
      /\ Cardinality(DOMAIN c) + 1 = Cardinality(DOMAIN t.cells)
      /\ Cardinality(DOMAIN c) \in Nat
  BY EmptiedCells, Zenon DEF c
<1>2. /\ t \in [cells : CellFunctions(M), lo : Nat, hi : Nat, num : Nat]
      /\ t.lo <= t.hi
      /\ DOMAIN t.cells \subseteq t.lo .. t.hi - 1
      /\ \A j \in DOMAIN t.cells : t.cells[j].receipt <= n
      /\ \A i, j \in DOMAIN t.cells : i < j => t.cells[i].receipt < t.cells[j].receipt
      /\ Cardinality(DOMAIN t.cells) <= t.num
  BY DEF WellFormed, Ordered
<1> HIDE DEF c
<1>3. u = [cells |-> c, lo |-> t.lo, hi |-> t.hi, num |-> t.num - 1]
  BY DEF ExpireReceipt, c
<1>4. u.cells = c /\ u.lo = t.lo /\ u.hi = t.hi /\ u.num = t.num - 1
  BY <1>3
<1> HIDE DEF u
<1>5. t.lo \in Nat /\ t.hi \in Nat /\ t.num \in Nat
  BY <1>2
<1>6. u \in [cells : CellFunctions(M), lo : Nat, hi : Nat, num : Nat]
  BY <1>1, <1>2, <1>3, <1>5
<1>7. Ordered(u)
  BY <1>1, <1>2, <1>4 DEF Ordered
<1>8. \A j \in DOMAIN u.cells : u.cells[j].receipt <= n
  BY <1>1, <1>2, <1>4
<1>9. u.lo <= u.hi /\ DOMAIN u.cells \subseteq u.lo .. u.hi - 1
  BY <1>1, <1>2, <1>4
<1>10. IsFiniteSet(DOMAIN u.cells) /\ Cardinality(DOMAIN u.cells) <= u.num
  BY <1>1, <1>2, <1>4, <1>5
<1> QED
  BY <1>1, <1>4, <1>6, <1>7, <1>8, <1>9, <1>10 DEF WellFormed, OneMore, u

LEMMA RetireWellFormed ==
  ASSUME NEW M, NEW n \in Nat, NEW t, WellFormed(t, M, n), NEW k \in DOMAIN t.cells
  PROVE  WellFormed(RetireReceipt(t, k), M, n) /\ OneMore(RetireReceipt(t, k), t, k)
<1> DEFINE c  == Empty(t.cells, k)
           S  == {j \in t.lo + 1 .. t.hi : j = t.hi \/ j \in DOMAIN c}
           T  == {j \in t.lo .. t.hi - 1 : j = t.lo \/ j - 1 \in DOMAIN c}
           lo == IF k = t.lo THEN Min(S) ELSE t.lo
           hi == IF k # t.lo /\ k + 1 = t.hi THEN Max(T) ELSE t.hi
           u  == [cells |-> c, lo |-> IF lo = hi THEN 0 ELSE lo,
                  hi |-> IF lo = hi THEN 0 ELSE hi, num |-> t.num]
<1>1. /\ c \in CellFunctions(M)
      /\ DOMAIN c = DOMAIN t.cells \ {k}
      /\ \A j \in DOMAIN c : c[j] = t.cells[j]
      /\ IsFiniteSet(DOMAIN c)
      /\ Cardinality(DOMAIN c) + 1 = Cardinality(DOMAIN t.cells)
      /\ Cardinality(DOMAIN c) \in Nat
  BY EmptiedCells, Zenon DEF c
<1>2. /\ t \in [cells : CellFunctions(M), lo : Nat, hi : Nat, num : Nat]
      /\ \A j \in DOMAIN t.cells : t.cells[j].receipt <= n
      /\ \A i, j \in DOMAIN t.cells : i < j => t.cells[i].receipt < t.cells[j].receipt
      /\ Cardinality(DOMAIN t.cells) <= t.num
  BY DEF WellFormed, Ordered
<1>3. /\ DOMAIN t.cells \subseteq Nat
      /\ \A j \in DOMAIN t.cells : t.lo <= j /\ j < t.hi
      /\ t.lo \in Nat /\ t.hi \in Nat /\ t.num \in Nat
  BY CellFacts
<1>4. RetireReceipt(t, k) = u
  BY DEF RetireReceipt
<1> HIDE DEF c
<1>5. /\ lo \in Nat /\ lo <= t.hi /\ t.lo <= lo
      /\ \A j \in DOMAIN c : lo <= j
  <2>1. CASE k = t.lo
    <3>1. S \subseteq Nat /\ t.hi \in S
      BY <1>3, <2>1
    <3>2. Min(S) \in S /\ \A j \in S : Min(S) <= j
      BY <3>1, MinProperty
    <3>3. \A j \in DOMAIN c : j \in S
      BY <1>1, <1>3, <2>1
    <3> QED
      BY <2>1, <3>2, <3>3, <1>3
  <2>2. CASE k # t.lo
    BY <2>2, <1>1, <1>3
  <2> QED
    BY <2>1, <2>2
<1>6. /\ hi \in Nat /\ lo <= hi
      /\ \A j \in DOMAIN c : j < hi
  <2>1. CASE k # t.lo /\ k + 1 = t.hi
    <3>1. T \subseteq 0 .. t.hi /\ t.lo \in T
      BY <1>3, <2>1
    <3>2. Max(T) \in T /\ \A j \in T : Max(T) >= j
      BY <3>1, <1>3, MaxProperty
    <3>3. \A j \in DOMAIN c : j + 1 \in T
      BY <1>1, <1>3, <2>1
    <3>4. hi = Max(T) /\ lo = t.lo
      BY <2>1
    <3>5. Max(T) \in Nat /\ t.lo <= Max(T)
      BY <3>2, <1>3
    <3>6. \A j \in DOMAIN c : j \in Nat /\ j + 1 <= Max(T)
      BY <3>2, <3>3, <1>1, <1>3
    <3> QED
      BY <3>4, <3>5, <3>6
  <2>2. CASE ~(k # t.lo /\ k + 1 = t.hi)
    BY <2>2, <1>1, <1>3, <1>5
  <2> QED
    BY <2>1, <2>2
<1> HIDE DEF lo, hi
<1>7. lo = hi => DOMAIN c = {}
  <2>1. \A j \in DOMAIN c : lo <= j /\ j < hi /\ j \in Nat
    BY <1>1, <1>3, <1>5, <1>6
  <2> QED
    BY <2>1, <1>5, <1>6
<1>8. /\ u.cells = c /\ u.num = t.num
      /\ u.lo = (IF lo = hi THEN 0 ELSE lo) /\ u.hi = (IF lo = hi THEN 0 ELSE hi)
  OBVIOUS
<1>9. u \in [cells : CellFunctions(M), lo : Nat, hi : Nat, num : Nat]
  BY <1>1, <1>3, <1>5, <1>6
<1> HIDE DEF u
<1>10. u.lo <= u.hi /\ DOMAIN u.cells \subseteq u.lo .. u.hi - 1
  BY <1>1, <1>3, <1>5, <1>6, <1>7, <1>8
<1>11. Ordered(u)
  BY <1>1, <1>2, <1>8 DEF Ordered
<1>12. \A j \in DOMAIN u.cells : u.cells[j].receipt <= n
  BY <1>1, <1>2, <1>8
<1>13. IsFiniteSet(DOMAIN u.cells) /\ Cardinality(DOMAIN u.cells) <= u.num
  BY <1>1, <1>2, <1>3, <1>8
<1> QED
  BY <1>1, <1>4, <1>8, <1>9, <1>10, <1>11, <1>12, <1>13 DEF WellFormed, OneMore

LEMMA EmptyWellFormed ==
  ASSUME NEW M, NEW n \in Nat
  PROVE  WellFormed(EmptyTable, M, n) /\ DOMAIN EmptyTable.cells = {}
<1> DEFINE e == [k \in {} |-> 0]
<1>1. DOMAIN e = {} /\ e \in [{} -> Cell(M)]
  OBVIOUS
<1>2. e \in CellFunctions(M)
  <2> HIDE DEF e
  <2> QED
    BY <1>1 DEF CellFunctions
<1>3. IsFiniteSet({}) /\ Cardinality({}) = 0
  BY FS_EmptySet
<1> HIDE DEF e
<1>4. EmptyTable = [cells |-> e, lo |-> 0, hi |-> 0, num |-> 0]
  BY DEF EmptyTable, e
<1> QED
  BY <1>1, <1>2, <1>3, <1>4 DEF WellFormed, Ordered
(***************************************************************************)
(* The records of a message when a record is added to a table or taken    *)
(* from it: numTransit is compared with their number.                      *)
(***************************************************************************)
LEMMA CellAddedOther ==
  ASSUME NEW t, NEW u, NEW k, NEW m, OneMore(t, u, k), u.cells[k].msg # m
  PROVE  CellsOf(u, m) = CellsOf(t, m)
BY DEF OneMore, CellsOf

LEMMA CellAdded ==
  ASSUME NEW t, NEW u, NEW k, NEW m, OneMore(t, u, k), u.cells[k].msg = m
  PROVE  /\ CellsOf(u, m) = CellsOf(t, m) \cup {k}
         /\ k \notin CellsOf(t, m)
         /\ IsFiniteSet(CellsOf(t, m))
<1>1. CellsOf(t, m) \subseteq DOMAIN t.cells
  BY DEF CellsOf
<1>2. IsFiniteSet(CellsOf(t, m))
  BY <1>1, FS_Subset DEF OneMore
<1> QED
  BY <1>2 DEF CellsOf, OneMore

LEMMA CellRemoved ==
  ASSUME NEW t, NEW u, NEW k, NEW m, OneMore(u, t, k), t.cells[k].msg = m
  PROVE  /\ CellsOf(u, m) = CellsOf(t, m) \ {k}
         /\ Cardinality(CellsOf(u, m)) \in Nat
         /\ Cardinality(CellsOf(t, m)) = Cardinality(CellsOf(u, m)) + 1
<1>1. CellsOf(t, m) = CellsOf(u, m) \cup {k} /\ k \notin CellsOf(u, m)
  BY DEF CellsOf, OneMore
<1>2. CellsOf(u, m) \subseteq DOMAIN u.cells
  BY DEF CellsOf
<1>3. IsFiniteSet(CellsOf(u, m))
  BY <1>2, FS_Subset DEF OneMore
<1>4. Cardinality(CellsOf(u, m) \cup {k}) = Cardinality(CellsOf(u, m)) + 1
  BY <1>1, <1>3, FS_AddElement, Zenon
<1>5. Cardinality(CellsOf(u, m)) \in Nat
  BY <1>3, FS_CardinalityType
<1> QED
  BY <1>1, <1>4, <1>5

LEMMA CellRemovedOther ==
  ASSUME NEW t, NEW u, NEW k, NEW m, OneMore(u, t, k), t.cells[k].msg # m
  PROVE  CellsOf(u, m) = CellsOf(t, m)
BY DEF OneMore, CellsOf

-----------------------------------------------------------------------------
(* The list.                                                               *)

\* Where the elements of a concatenation come from.
LEMMA ConcatPositions ==
  ASSUME NEW S, NEW p \in Seq(S), NEW q \in Seq(S)
  PROVE  /\ p \o q \in Seq(S) /\ Len(p \o q) = Len(p) + Len(q)
         /\ \A i \in 1 .. Len(p) + Len(q) :
              (p \o q)[i] = IF i <= Len(p) THEN p[i] ELSE q[i - Len(p)]
OBVIOUS

LEMMA LinkType ==
  ASSUME NEW S, NEW s \in Seq(S), NEW m \in S
  PROVE  Link(s, m) \in Seq(S)
BY DEF Link

\* msgsOutboundLink adds the message and nothing else, and a message that is
\* not listed yet does not get listed twice.
LEMMA LinkLists ==
  ASSUME NEW S, NEW s \in Seq(S), NEW m \in S
  PROVE  /\ ToSet(Link(s, m)) = ToSet(s) \cup {m}
         /\ IsInjective(s) /\ m \notin ToSet(s) => IsInjective(Link(s, m))
<1>1. CASE s = <<>>
  <2>1. Link(s, m) = <<m>>
    BY <1>1 DEF Link
  <2> QED
    BY <1>1, <2>1 DEF ToSet, IsInjective
<1>2. CASE s # <<>>
  <2> DEFINE t == Link(s, m)
  <2>1. /\ t \in Seq(S) /\ Len(t) = Len(s) + 1
        /\ \A i \in 1 .. Len(t) : t[i] = IF i = 1 THEN s[1] ELSE IF i = 2 THEN m ELSE s[i - 1]
    BY <1>2 DEF Link
  <2>2. Len(s) \in Nat /\ Len(s) > 0 /\ DOMAIN s = 1 .. Len(s) /\ DOMAIN t = 1 .. Len(s) + 1
    BY <1>2, <2>1
  <2> HIDE DEF t
  <2>3. ASSUME NEW i \in DOMAIN t
        PROVE  t[i] \in ToSet(s) \cup {m}
    <3>1. CASE i = 2
      BY <2>1, <2>2, <3>1
    <3>2. CASE i # 2
      <4> DEFINE j == IF i = 1 THEN 1 ELSE i - 1
      <4>1. j \in DOMAIN s /\ t[i] = s[j]
        BY <2>1, <2>2, <3>2
      <4> QED
        BY <4>1 DEF ToSet
    <3> QED
      BY <3>1, <3>2
  <2>4. m \in ToSet(t)
    <3>1. 2 \in DOMAIN t /\ t[2] = m
      BY <2>1, <2>2
    <3> QED
      BY <3>1 DEF ToSet
  <2>5. ASSUME NEW i \in DOMAIN s
        PROVE  s[i] \in ToSet(t)
    <3> DEFINE j == IF i = 1 THEN 1 ELSE i + 1
    <3>1. j \in DOMAIN t /\ t[j] = s[i]
      BY <2>1, <2>2
    <3> QED
      BY <3>1 DEF ToSet
  <2>6. ASSUME IsInjective(s), m \notin ToSet(s)
        PROVE  IsInjective(t)
    <3>1. SUFFICES ASSUME NEW a \in DOMAIN t, NEW b \in DOMAIN t, t[a] = t[b], a # b
                   PROVE  FALSE
      BY DEF IsInjective
    <3>2. \A i \in 1 .. Len(s) : s[i] # m
      BY <2>2, <2>6 DEF ToSet
    <3>3. \A i, j \in 1 .. Len(s) : s[i] = s[j] => i = j
      BY <2>2, <2>6 DEF IsInjective
    <3>4. a \in 1 .. Len(s) + 1 /\ b \in 1 .. Len(s) + 1
      BY <2>2
    <3>5. CASE a = 2 \/ b = 2
      BY <2>1, <2>2, <3>1, <3>2, <3>4, <3>5
    <3>6. CASE a # 2 /\ b # 2
      <4> DEFINE x == IF a = 1 THEN 1 ELSE a - 1
                 y == IF b = 1 THEN 1 ELSE b - 1
      <4>1. x \in 1 .. Len(s) /\ y \in 1 .. Len(s) /\ x # y
        BY <2>2, <3>1, <3>4, <3>6
      <4>2. t[a] = s[x] /\ t[b] = s[y]
        BY <2>1, <2>2, <3>4, <3>6
      <4> QED
        BY <3>1, <3>3, <4>1, <4>2
    <3> QED
      BY <3>5, <3>6
  <2>7. ToSet(s) \subseteq ToSet(t) /\ ToSet(t) \subseteq ToSet(s) \cup {m}
    BY <2>3, <2>5 DEF ToSet
  <2> QED
    BY <2>4, <2>6, <2>7 DEF t
<1> QED
  BY <1>1, <1>2

(***************************************************************************)
(* msgsOutboundUnlink, position by position.                               *)
(***************************************************************************)
LEMMA UnlinkPositions ==
  ASSUME NEW S, NEW s \in Seq(S), NEW m
  PROVE  LET u == Unlink(s, m)
         IN  /\ u \in Seq(S)
             /\ \/ m \notin ToSet(s) /\ u = s
                \/ m \in ToSet(s) /\ u = <<>>
                \/ /\ Len(s) > 2 /\ s[1] = m /\ Len(u) = Len(s) - 1
                   /\ \A i \in 1 .. Len(u) : u[i] = IF i = 1 THEN s[Len(s)] ELSE s[i]
                \/ /\ Len(u) = Len(s) - 1
                   /\ \E j \in 1 .. Len(s) :
                        /\ s[j] = m
                        /\ \A i \in 1 .. Len(u) : u[i] = IF i < j THEN s[i] ELSE s[i + 1]
<1> DEFINE u == Unlink(s, m)
<1>1. CASE ~Contains(s, m)
  <2>1. m \notin ToSet(s) /\ u = s
    BY <1>1 DEF Unlink, Contains, ToSet
  <2> QED
    BY <2>1
<1>2. CASE Contains(s, m) /\ m = Head(s) /\ Len(s) <= 2
  <2>1. m \in ToSet(s) /\ u = <<>>
    BY <1>2 DEF Unlink, Contains, ToSet
  <2> QED
    BY <2>1
<1>3. CASE Contains(s, m) /\ m = Head(s) /\ Len(s) > 2
  <2>1. u = <<Last(s)>> \o SubSeq(s, 2, Len(s) - 1)
    BY <1>3 DEF Unlink
  <2>2. Last(s) = s[Len(s)] /\ s[Len(s)] \in S /\ s[1] = m
    BY <1>3 DEF Last
  <2>3. /\ SubSeq(s, 2, Len(s) - 1) \in Seq(S)
        /\ Len(SubSeq(s, 2, Len(s) - 1)) = Len(s) - 2
        /\ \A i \in 1 .. Len(s) - 2 : SubSeq(s, 2, Len(s) - 1)[i] = s[i + 1]
    BY <1>3
  <2> DEFINE q == SubSeq(s, 2, Len(s) - 1)
  <2>4. <<s[Len(s)]>> \in Seq(S) /\ Len(<<s[Len(s)]>>) = 1 /\ <<s[Len(s)]>>[1] = s[Len(s)]
    BY <2>2
  <2>5. u = <<s[Len(s)]>> \o q /\ Len(q) = Len(s) - 2
    BY <2>1, <2>2, <2>3
  <2>6. \A i \in 1 .. Len(s) - 2 : q[i] = s[i + 1]
    BY <2>3
  <2>7. q \in Seq(S)
    BY <2>3
  <2> HIDE DEF q, u
  <2>8. /\ u \in Seq(S) /\ Len(u) = Len(s) - 1
        /\ \A i \in 1 .. Len(s) - 1 : u[i] = IF i <= 1 THEN <<s[Len(s)]>>[i] ELSE q[i - 1]
    BY <1>3, <2>4, <2>5, <2>7, ConcatPositions
  <2>9. \A i \in 1 .. Len(s) - 1 : u[i] = IF i = 1 THEN s[Len(s)] ELSE s[i]
    BY <1>3, <2>4, <2>6, <2>8
  <2> QED
    BY <1>3, <2>2, <2>8, <2>9 DEF u
<1>4. CASE Contains(s, m) /\ m # Head(s)
  <2> DEFINE j == CHOOSE k \in DOMAIN s : s[k] = m
  <2>1. j \in 1 .. Len(s) /\ s[j] = m
    BY <1>4 DEF Contains
  <2>2. u = RemoveAt(s, j)
    BY <1>4 DEF Unlink
  <2> HIDE DEF j
  <2>3. RemoveAt(s, j) = SubSeq(s, 1, j - 1) \o SubSeq(s, j + 1, Len(s))
    BY DEF RemoveAt
  <2>4. /\ SubSeq(s, 1, j - 1) \in Seq(S) /\ SubSeq(s, j + 1, Len(s)) \in Seq(S)
        /\ Len(SubSeq(s, 1, j - 1)) = j - 1 /\ Len(SubSeq(s, j + 1, Len(s))) = Len(s) - j
        /\ \A i \in 1 .. j - 1 : SubSeq(s, 1, j - 1)[i] = s[i]
        /\ \A i \in 1 .. Len(s) - j : SubSeq(s, j + 1, Len(s))[i] = s[j + i]
    BY <2>1
  <2>5. /\ u \in Seq(S) /\ Len(u) = Len(s) - 1
        /\ \A i \in 1 .. Len(u) : u[i] = IF i < j THEN s[i] ELSE s[i + 1]
    <3> DEFINE p == SubSeq(s, 1, j - 1)
               q == SubSeq(s, j + 1, Len(s))
    <3>1. /\ p \in Seq(S) /\ Len(p) = j - 1 /\ \A i \in 1 .. j - 1 : p[i] = s[i]
          /\ q \in Seq(S) /\ Len(q) = Len(s) - j /\ \A i \in 1 .. Len(s) - j : q[i] = s[j + i]
          /\ u = p \o q
      BY <2>2, <2>3, <2>4
    <3>2. j \in Nat /\ Len(s) \in Nat /\ j >= 1 /\ j <= Len(s)
      BY <2>1
    <3> HIDE DEF p, q, u
    <3>3. /\ u \in Seq(S) /\ Len(u) = Len(p) + Len(q)
          /\ \A i \in 1 .. Len(p) + Len(q) :
               u[i] = IF i <= Len(p) THEN p[i] ELSE q[i - Len(p)]
      BY <3>1, ConcatPositions
    <3>4. Len(u) = Len(s) - 1
      BY <3>1, <3>2, <3>3
    <3>5. ASSUME NEW i \in 1 .. Len(s) - 1
          PROVE  u[i] = IF i < j THEN s[i] ELSE s[i + 1]
      <4>1. CASE i < j
        BY <3>1, <3>2, <3>3, <4>1
      <4>2. CASE ~(i < j)
        <5>1. i - (j - 1) \in 1 .. Len(s) - j /\ j + (i - (j - 1)) = i + 1
          BY <3>2, <4>2
        <5>2. q[i - (j - 1)] = s[i + 1]
          BY <3>1, <5>1
        <5>3. i \in 1 .. Len(p) + Len(q) /\ ~(i <= Len(p))
          BY <3>1, <3>2, <4>2
        <5>4. u[i] = q[i - (j - 1)]
          BY <3>1, <3>3, <5>3
        <5> QED
          BY <4>2, <5>2, <5>4
      <4> QED
        BY <4>1, <4>2
    <3> QED
      BY <3>3, <3>4, <3>5
  <2> QED
    BY <2>1, <2>5
<1> QED
  BY <1>1, <1>2, <1>3, <1>4

LEMMA UnlinkType ==
  ASSUME NEW S, NEW s \in Seq(S), NEW m
  PROVE  Unlink(s, m) \in Seq(S)
BY UnlinkPositions

\* The unlinked message is gone, and no other appears, let alone twice.
LEMMA UnlinkLists ==
  ASSUME NEW S, NEW s \in Seq(S), NEW m, IsInjective(s)
  PROVE  /\ ToSet(Unlink(s, m)) \subseteq ToSet(s) \ {m}
         /\ IsInjective(Unlink(s, m))
<1> DEFINE u == Unlink(s, m)
<1>0. u \in Seq(S) /\ Len(s) \in Nat /\ DOMAIN s = 1 .. Len(s) /\ DOMAIN u = 1 .. Len(u)
  BY UnlinkType
<1>1. CASE m \notin ToSet(s) /\ u = s
  BY <1>1
<1>2. CASE m \in ToSet(s) /\ u = <<>>
  BY <1>2 DEF ToSet, IsInjective
<1>3. CASE /\ Len(s) > 2 /\ s[1] = m /\ Len(u) = Len(s) - 1
           /\ \A i \in 1 .. Len(u) : u[i] = IF i = 1 THEN s[Len(s)] ELSE s[i]
  <2> HIDE DEF u
  <2>1. ASSUME NEW i \in DOMAIN u
        PROVE  u[i] \in ToSet(s) \ {m}
    <3> DEFINE o == IF i = 1 THEN Len(s) ELSE i
    <3>1. o \in DOMAIN s /\ 1 \in DOMAIN s /\ o # 1 /\ u[i] = s[o]
      BY <1>0, <1>3
    <3> HIDE DEF o
    <3>2. s[o] # m
      BY <1>0, <1>3, <3>1 DEF IsInjective
    <3> QED
      BY <3>1, <3>2 DEF ToSet
  <2>2. IsInjective(u)
    <3>1. SUFFICES ASSUME NEW a \in DOMAIN u, NEW b \in DOMAIN u, u[a] = u[b]
                   PROVE  a = b
      BY DEF IsInjective
    <3> DEFINE Old(i) == IF i = 1 THEN Len(s) ELSE i
    <3>2. /\ Old(a) \in DOMAIN s /\ Old(b) \in DOMAIN s
          /\ u[a] = s[Old(a)] /\ u[b] = s[Old(b)] /\ (Old(a) = Old(b) => a = b)
      BY <1>0, <1>3
    <3> QED
      BY <3>1, <3>2 DEF IsInjective
  <2> QED
    BY <2>1, <2>2 DEF ToSet, u
<1>4. CASE /\ Len(u) = Len(s) - 1
           /\ \E j \in 1 .. Len(s) :
                /\ s[j] = m
                /\ \A i \in 1 .. Len(u) : u[i] = IF i < j THEN s[i] ELSE s[i + 1]
  <2> HIDE DEF u
  <2>1. PICK j \in 1 .. Len(s) :
          /\ s[j] = m
          /\ \A i \in 1 .. Len(u) : u[i] = IF i < j THEN s[i] ELSE s[i + 1]
    BY <1>4
  <2>2. ASSUME NEW i \in DOMAIN u
        PROVE  u[i] \in ToSet(s) \ {m}
    <3> DEFINE o == IF i < j THEN i ELSE i + 1
    <3>1. o \in DOMAIN s /\ j \in DOMAIN s /\ o # j /\ u[i] = s[o]
      BY <1>0, <1>4, <2>1
    <3> HIDE DEF o
    <3>2. s[o] # m
      BY <1>0, <2>1, <3>1 DEF IsInjective
    <3> QED
      BY <3>1, <3>2 DEF ToSet
  <2>3. IsInjective(u)
    <3>1. SUFFICES ASSUME NEW a \in DOMAIN u, NEW b \in DOMAIN u, u[a] = u[b]
                   PROVE  a = b
      BY DEF IsInjective
    <3> DEFINE Old(i) == IF i < j THEN i ELSE i + 1
    <3>2. /\ Old(a) \in DOMAIN s /\ Old(b) \in DOMAIN s
          /\ u[a] = s[Old(a)] /\ u[b] = s[Old(b)] /\ (Old(a) = Old(b) => a = b)
      BY <1>0, <1>4, <2>1
    <3> QED
      BY <3>1, <3>2 DEF IsInjective
  <2> QED
    BY <2>2, <2>3 DEF ToSet, u
<1> QED
  BY <1>1, <1>2, <1>3, <1>4, UnlinkPositions
=============================================================================
