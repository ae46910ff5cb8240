---------------------------- MODULE ReceiptTable ----------------------------
(***************************************************************************)
(* The sender's table of receipts that the base Tox library still owes     *)
(* (tox-defragmenter.c: receipts, receiptsLo, receiptsHi, receiptsNum).    *)
(*                                                                         *)
(* The C code keeps a growing array of receipt_record.  A cell whose       *)
(* receipt field is 0 is empty, and an empty cell's other fields are never *)
(* read, so the array is modelled by the partial function `cells' from the *)
(* 0-based indices of its occupied cells to their records.  receiptsAlloc  *)
(* and realloc() are left out: new memory is zeroed, so it is empty.       *)
(*                                                                         *)
(* Everything here is an operator on a table value, so that the handlers   *)
(* that use the table, and proofs about them, can share it.                *)
(*                                                                         *)
(* An operator introduced by `Slip:' is not the code.  It is a mistake     *)
(* that could be made in the definition after it, and shows that a         *)
(* property notices it (README.md, Mutants).                               *)
(***************************************************************************)
EXTENDS Integers, FiniteSets, FiniteSetsExt, Functions

CONSTANT ShiftGap        \* how far addReceipt shifts the tail (16 in the code)

ASSUME ShiftGapAssumption == ShiftGap \in Nat \ {0}

-----------------------------------------------------------------------------

EmptyTable == [cells |-> [k \in {} |-> 0], lo |-> 0, hi |-> 0, num |-> 0]

\* The receipt field of array element k: 0 when the cell is empty.
ReceiptAt(t, k) == IF k \in DOMAIN t.cells THEN t.cells[k].receipt ELSE 0

Fill(cells, k, rec) ==
  [j \in DOMAIN cells \cup {k} |-> IF j = k THEN rec ELSE cells[j]]

Empty(cells, k) == Restrict(cells, DOMAIN cells \ {k})

-----------------------------------------------------------------------------
(* Lookup.  The window of the search is [i1, i2).  The probe slides right  *)
(* over empty cells; a probe that reaches the window's last cell is not    *)
(* compared, the window is halved instead.                                 *)

Probe(t, i1, i2) ==
  LET im == (i1 + i2) \div 2
  IN  Min({j \in im .. i2 - 1 : j = i2 - 1 \/ ReceiptAt(t, j) # 0})

FindReceipt(t, r) ==
  LET Search[w \in Nat \X Nat] ==
        LET i1  == w[1]
            i2  == w[2]
            im  == (i1 + i2) \div 2
            imu == Probe(t, i1, i2)
        IN  IF i1 + 1 >= i2 THEN IF ReceiptAt(t, i1) < r THEN i2 ELSE i1
            ELSE IF imu + 1 >= i2         THEN Search[<<i1, im>>]
            ELSE IF ReceiptAt(t, imu) < r THEN Search[<<imu, i2>>]
            ELSE IF r < ReceiptAt(t, imu) THEN Search[<<i1, im>>]
            ELSE imu
  IN  IF t.lo = t.hi THEN -1 ELSE Search[<<t.lo, t.hi>>]

-----------------------------------------------------------------------------
(* Insertion.                                                              *)

\* Slip: receiptsHi++ forgotten.
AppendReceiptHiStays(t, rec) ==
  [t EXCEPT !.cells = Fill(t.cells, t.hi, rec), !.num = @ + 1]

AppendReceipt(t, rec) ==
  [cells |-> Fill(t.cells, t.hi, rec), lo |-> t.lo, hi |-> t.hi + 1, num |-> t.num + 1]

\* A receipt below the last one goes next to where the lookup points.  When
\* that cell is taken the tail is moved up by ShiftGap; hi does not follow.
InsertReceipt(t, rec) ==
  LET at      == FindReceipt(t, rec.receipt) + 1
      moved   == {j + ShiftGap : j \in DOMAIN t.cells \cap (at .. t.hi - 1)}
      kept    == {j \in DOMAIN t.cells : j < at \/ j >= t.hi + ShiftGap}
      shifted == [j \in kept \cup moved |->
                    IF j \in moved THEN t.cells[j - ShiftGap] ELSE t.cells[j]]
  IN  [t EXCEPT !.cells = Fill(IF ReceiptAt(t, at) # 0 THEN shifted ELSE @, at, rec),
                !.num = @ + 1]

AddReceipt(t, rec) ==
  IF t.hi = 0 \/ ReceiptAt(t, t.hi - 1) < rec.receipt
  THEN AppendReceipt(t, rec)
  ELSE InsertReceipt(t, rec)

-----------------------------------------------------------------------------
(* Removal.                                                                *)

\* Slip: lo or hi moves by one, whichever cell was emptied.
RetireReceiptEitherEnd(t, k) ==
  [t EXCEPT !.cells = Empty(@, k),
            !.lo = IF k = t.lo THEN @ + 1 ELSE @,
            !.hi = IF k = t.lo THEN @ ELSE @ - 1]

\* The end of tryProcessReceipt: empty cell k, then move lo or hi over the
\* empty cells next to it.  receiptsNum is not touched.
RetireReceipt(t, k) ==
  LET cells == Empty(t.cells, k)
      lo    == IF k = t.lo
               THEN Min({j \in t.lo + 1 .. t.hi : j = t.hi \/ j \in DOMAIN cells})
               ELSE t.lo
      hi    == IF k # t.lo /\ k + 1 = t.hi
               THEN Max({j \in t.lo .. t.hi - 1 : j = t.lo \/ j - 1 \in DOMAIN cells})
               ELSE t.hi
  IN  [cells |-> cells,
       lo    |-> IF lo = hi THEN 0 ELSE lo,
       hi    |-> IF lo = hi THEN 0 ELSE hi,
       num   |-> t.num]

\* Slip: the cell is not emptied.
ExpireReceiptKept(t, k) == [t EXCEPT !.num = @ - 1]

\* resendExpiredReceipts empties a cell and leaves lo and hi where they are.
ExpireReceipt(t, k) ==
  [cells |-> Empty(t.cells, k), lo |-> t.lo, hi |-> t.hi, num |-> t.num - 1]

=============================================================================
