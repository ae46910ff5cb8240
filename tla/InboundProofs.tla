---------------------------- MODULE InboundProofs ----------------------------
(***************************************************************************)
(* What holds of the receiver for every number of messages, parts, copies  *)
(* and crashes, in every order of arrival: what becomes of the messages,   *)
(* as long as no fragment's data starts with a NUL byte, and at the end,   *)
(* whatever it starts with, the lock and the primary keys (Inbound.tla).   *)
(***************************************************************************)
EXTENDS Inbound, FiniteSetTheorems, TLAPS

USE InboundAssumption

Ops == [at : Labels, msg : Msgs \cup {NoMsg}, part : Nat]

(***************************************************************************)
(* The inductive invariant.                                                *)
(***************************************************************************)
TablesOK ==
  /\ meta \subseteq Msgs /\ data \subseteq Msgs
  /\ done \in [Msgs -> Nat]
  /\ blob \in [Msgs -> SUBSET Nat] /\ \A m \in Msgs : blob[m] \subseteq Parts(m)
  /\ shown \in [Msgs -> Nat]
  /\ cropped = {}
  /\ DOMAIN copies = Msgs /\ \A m \in Msgs : copies[m] \in [Parts(m) -> Nat]
  /\ locks \in Nat /\ restarts \in Nat

\* What a handler knows of its message at each of its steps.
OpOK ==
  /\ op \in Ops
  /\ op.at \notin {"idle", "abort"} => op.msg \in Msgs /\ op.part \in Parts(op.msg) /\ locks > 0
  /\ op.at = "insertMeta" => op.msg \in data \cup meta
  /\ op.at \in {"store", "count", "show", "delete"} => op.msg \in meta
  /\ op.at = "count" => /\ op.msg \in data
                        /\ shown[op.msg] = 0
                        /\ done[op.msg] < Cardinality(blob[op.msg])
  /\ op.at = "show" => shown[op.msg] = 0 /\ blob[op.msg] = Parts(op.msg)
  /\ op.at = "delete" => shown[op.msg] = 1

\* The four stages of message m: unheard of, in progress, shown, forgotten.
RowsOK(m) ==
  /\ done[m] <= Cardinality(blob[m])
  /\ shown[m] = 0 \/ (shown[m] = 1 /\ blob[m] = Parts(m))
  /\ m \in meta \ data => shown[m] = 1
  /\ m \notin meta => blob[m] = {} /\ done[m] = 0 /\ shown[m] = 0

Inv == TablesOK /\ OpOK /\ (\A m \in Msgs : RowsOK(m))

\* Holds besides for message m as long as there was no crash.
Working(m, labels) == op.msg = m /\ op.at \in labels

Calm(m) ==
  /\ Cardinality(blob[m]) = IF Working(m, {"count"}) THEN done[m] + 1 ELSE done[m]
  /\ blob[m] = Parts(m) => shown[m] = 1 \/ Working(m, {"count", "show"})
  /\ m \in data \ meta => Working(m, {"insertMeta"})
  /\ \A p \in Parts(m) :
       copies[m][p] > 0 => \/ p \in blob[m]
                           \/ Working(m, {"insertData", "insertMeta", "store"}) /\ op.part = p

CalmInv == restarts = 0 => op.at # "abort" /\ (\A m \in Msgs : Calm(m))

-----------------------------------------------------------------------------
(* Parts and their number.                                                 *)

\* A part is one of finitely many.
LEMMA PartsFinite ==
  ASSUME NEW m \in Msgs
  PROVE  /\ IsFiniteSet(Parts(m))
         /\ Cardinality(Parts(m)) = NumParts[m]
         /\ Parts(m) # {}
<1>1. NumParts[m] \in Nat /\ NumParts[m] > 0
  OBVIOUS
<1>2. 1 \in Parts(m)
  BY <1>1 DEF Parts
<1>3. IsFiniteSet(1 .. NumParts[m]) /\ Cardinality(1 .. NumParts[m]) = NumParts[m]
  BY <1>1, FS_Interval
<1> QED
  BY <1>2, <1>3 DEF Parts

\* A set of parts has a size, at most the number of parts, and that only if
\* it has them all.
LEMMA SomeParts ==
  ASSUME NEW m \in Msgs, NEW S, S \subseteq Parts(m)
  PROVE  /\ IsFiniteSet(S)
         /\ Cardinality(S) \in Nat
         /\ Cardinality(S) <= NumParts[m]
         /\ Cardinality(S) = NumParts[m] <=> S = Parts(m)
<1>1. S \in SUBSET Parts(m)
  OBVIOUS
<1>2. IsFiniteSet(S) /\ Cardinality(S) <= NumParts[m]
      /\ (Cardinality(S) = NumParts[m] => S = Parts(m))
  BY <1>1, PartsFinite, FS_Subset
<1> QED
  BY <1>2, PartsFinite, FS_CardinalityType

\* A new part makes a set of parts larger by one.
LEMMA OnePartMore ==
  ASSUME NEW m \in Msgs, NEW S, S \subseteq Parts(m), NEW p \in Parts(m), p \notin S
  PROVE  Cardinality(S \cup {p}) = Cardinality(S) + 1
  BY SomeParts, FS_AddElement

-----------------------------------------------------------------------------
(* One lemma per action.                                                   *)

LEMMA InitInv == Init => Inv /\ CalmInv
<1> SUFFICES ASSUME Init PROVE Inv /\ CalmInv
  OBVIOUS
<1> USE DEF Init, Idle
<1>1. TablesOK
  BY DEF TablesOK, Parts
<1>2. OpOK
  BY DEF OpOK, Ops, Labels
<1>3. ASSUME NEW m \in Msgs PROVE RowsOK(m) /\ Calm(m)
  BY PartsFinite, FS_EmptySet DEF RowsOK, Calm, Working
<1> QED
  BY <1>1, <1>2, <1>3 DEF Inv, CalmInv

\* A handler starts.
LEMMA ArriveStep ==
  ASSUME Inv, CalmInv, NEW m \in Msgs, NEW p \in Parts(m), Arrive(m, p)
  PROVE  Inv' /\ CalmInv'
<1> USE DEF Arrive, tables, client, Idle
<1>1. TablesOK'
  BY DEF Inv, TablesOK, Parts
<1>2. OpOK'
  BY DEF Inv, TablesOK, OpOK, Ops, Labels, Parts
<1>3. ASSUME NEW x \in Msgs PROVE RowsOK(x)'
  BY DEF Inv, RowsOK, Parts
<1>4. ASSUME NEW x \in Msgs, restarts = 0 PROVE Calm(x)'
  BY <1>4 DEF Inv, TablesOK, CalmInv, Calm, Working, Parts
<1> QED
  BY <1>1, <1>2, <1>3, <1>4 DEF Inv, CalmInv

LEMMA InsertDataStep ==
  ASSUME Inv, CalmInv, InsertData
  PROVE  Inv' /\ CalmInv' /\ UNCHANGED <<blob, shown>>
<1> USE DEF InsertData, client, bounds, GoTo, Abort, Unknown
<1>0. op.msg \in Msgs /\ op.part \in Parts(op.msg) /\ locks > 0
  BY DEF Inv, OpOK
<1>1. UNCHANGED <<blob, shown>>
  <2>1. CASE op.msg \notin meta /\ op.msg \notin data
    <3>1. blob[op.msg] = {} /\ blob \in [Msgs -> SUBSET Nat]
      BY <1>0, <2>1 DEF Inv, TablesOK, RowsOK
    <3> QED
      BY <2>1, <3>1
  <2> QED
    BY <2>1
<1>2. TablesOK'
  BY <1>0, <1>1 DEF Inv, TablesOK, Parts
<1>3. OpOK'
  BY <1>0 DEF Inv, OpOK, Ops, Labels, Parts
<1>4. ASSUME NEW x \in Msgs PROVE RowsOK(x)'
  BY <1>1 DEF Inv, RowsOK, Parts
<1>5. ASSUME restarts = 0 PROVE op'.at # "abort" /\ (\A x \in Msgs : Calm(x)')
  BY <1>0, <1>1, <1>5 DEF Inv, TablesOK, CalmInv, Calm, Working, Parts
<1> QED
  BY <1>1, <1>2, <1>3, <1>4, <1>5 DEF Inv, CalmInv

LEMMA InsertMetaStep ==
  ASSUME Inv, CalmInv, InsertMeta
  PROVE  Inv' /\ CalmInv' /\ UNCHANGED <<blob, shown>>
<1> USE DEF InsertMeta, client, bounds, GoTo
<1>0. op.msg \in Msgs /\ op.part \in Parts(op.msg) /\ locks > 0 /\ op.msg \in data \cup meta
  BY DEF Inv, OpOK
<1>1. TablesOK'
  BY <1>0 DEF Inv, TablesOK, Parts
<1>2. OpOK'
  BY <1>0 DEF Inv, OpOK, Ops, Labels, Parts
<1>3. ASSUME NEW x \in Msgs PROVE RowsOK(x)'
  BY <1>0 DEF Inv, RowsOK, Parts
<1>4. ASSUME restarts = 0 PROVE op'.at # "abort" /\ (\A x \in Msgs : Calm(x)')
  BY <1>0, <1>4 DEF Inv, TablesOK, CalmInv, Calm, Working, Parts
<1> QED
  BY <1>1, <1>2, <1>3, <1>4 DEF Inv, CalmInv

\* A fragment is ignored: its message is finished.
LEMMA LateDuplicateStep ==
  ASSUME Inv, CalmInv, LateDuplicate
  PROVE  Inv' /\ CalmInv' /\ UNCHANGED <<blob, shown>>
<1> USE DEF LateDuplicate, tables, client, bounds, Return, Idle
<1>0. op.msg \in Msgs /\ op.part \in Parts(op.msg) /\ locks > 0 /\ op.msg \in meta
  BY DEF Inv, OpOK
<1>1. TablesOK'
  BY <1>0 DEF Inv, TablesOK, Parts
<1>2. OpOK'
  BY <1>0 DEF Inv, OpOK, Ops, Labels, Parts
<1>3. ASSUME NEW x \in Msgs PROVE RowsOK(x)'
  BY <1>0 DEF Inv, RowsOK, Parts
<1>4. op.part \in blob[op.msg]
  BY <1>0 DEF Inv, RowsOK
<1>5. ASSUME restarts = 0 PROVE op'.at # "abort" /\ (\A x \in Msgs : Calm(x)')
  BY <1>0, <1>4, <1>5 DEF Inv, TablesOK, CalmInv, Calm, Working, Parts
<1> QED
  BY <1>1, <1>2, <1>3, <1>5 DEF Inv, CalmInv

\* A fragment is ignored: its part was written before.
LEMMA DuplicateStep ==
  ASSUME Inv, CalmInv, Duplicate
  PROVE  Inv' /\ CalmInv' /\ UNCHANGED <<blob, shown>>
<1> USE DEF Duplicate, tables, client, bounds, Idle
<1>0. op.msg \in Msgs /\ op.part \in Parts(op.msg) /\ op.part \in blob[op.msg]
  BY DEF Inv, OpOK, Written
<1>1. TablesOK'
  BY <1>0 DEF Inv, TablesOK, Parts
<1>2. OpOK'
  BY <1>0 DEF Inv, OpOK, Ops, Labels, Parts
<1>3. ASSUME NEW x \in Msgs PROVE RowsOK(x)'
  BY <1>0 DEF Inv, RowsOK, Parts
<1>4. ASSUME restarts = 0 PROVE op'.at # "abort" /\ (\A x \in Msgs : Calm(x)')
  BY <1>0, <1>4 DEF Inv, TablesOK, CalmInv, Calm, Working, Parts
<1> QED
  BY <1>1, <1>2, <1>3, <1>4 DEF Inv, CalmInv

\* A fragment is new: the message has shown nothing yet, and one part more.
LEMMA WriteBlobStep ==
  ASSUME ZeroFirst = {}, Inv, CalmInv, WriteBlob
  PROVE  /\ Inv' /\ CalmInv'
         /\ blob' = [blob EXCEPT ![op.msg] = @ \cup {op.part}] /\ UNCHANGED shown
<1> USE DEF WriteBlob, client, bounds, GoTo
<1> DEFINE m == op.msg
           p == op.part
<1>0. /\ m \in Msgs /\ p \in Parts(m) /\ locks > 0 /\ m \in meta /\ m \in data
      /\ p \notin blob[m] /\ blob[m] \subseteq Parts(m) /\ DOMAIN blob = Msgs
  BY DEF Inv, TablesOK, OpOK, Written
<1>1. Cardinality(blob[m]) \in Nat /\ Cardinality(blob'[m]) = Cardinality(blob[m]) + 1
  BY <1>0, SomeParts, OnePartMore
<1>2. shown[m] = 0
  BY <1>0 DEF Inv, RowsOK
<1>3. \A x \in Msgs : x # m => blob'[x] = blob[x]
  BY <1>0
<1>4. \A x \in Msgs : blob'[x] \subseteq Parts(x)
  BY <1>0 DEF Inv, TablesOK
<1>5. TablesOK'
  BY <1>0, <1>4 DEF Inv, TablesOK, Parts
<1>6. OpOK'
  <2>1. op' \in Ops
    BY <1>0 DEF Inv, OpOK, Ops, Labels
  <2>2. done[m] \in Nat /\ done[m] < Cardinality(blob'[m])
    BY <1>0, <1>1 DEF Inv, TablesOK, RowsOK
  <2> QED
    BY <1>0, <1>2, <2>1, <2>2 DEF OpOK, Parts
<1>7. ASSUME NEW x \in Msgs PROVE RowsOK(x)'
  <2>1. CASE x = m
    BY <1>0, <1>1, <1>2, <2>1 DEF Inv, TablesOK, RowsOK, Parts
  <2>2. CASE x # m
    BY <1>3, <2>2 DEF Inv, RowsOK, Parts
  <2> QED
    BY <2>1, <2>2
<1>8. ASSUME NEW x \in Msgs, restarts = 0 PROVE Calm(x)'
  <2>1. CASE x = m
    BY <1>0, <1>1, <1>2, <1>8, <2>1 DEF CalmInv, Calm, Working, Parts
  <2>2. CASE x # m
    BY <1>0, <1>3, <1>8, <2>2 DEF CalmInv, Calm, Working, Parts
  <2> QED
    BY <2>1, <2>2
<1> QED
  BY <1>5, <1>6, <1>7, <1>8 DEF Inv, CalmInv

\* frags_done reaches frags_num only when every part was written.
LEMMA CountStep ==
  ASSUME Inv, CalmInv, Count
  PROVE  Inv' /\ CalmInv' /\ UNCHANGED <<blob, shown>>
<1> USE DEF Count, client, bounds, GoTo, Return, Idle, AllDone
<1> DEFINE m == op.msg
<1>0. /\ m \in Msgs /\ op.part \in Parts(m) /\ locks > 0 /\ m \in meta /\ m \in data
      /\ shown[m] = 0 /\ done[m] \in Nat /\ NumParts[m] \in Nat
      /\ done[m] < Cardinality(blob[m])
  BY DEF Inv, TablesOK, OpOK
<1>1. /\ Cardinality(blob[m]) \in Nat /\ Cardinality(blob[m]) <= NumParts[m]
      /\ Cardinality(blob[m]) = NumParts[m] <=> blob[m] = Parts(m)
  BY <1>0, SomeParts DEF Inv, TablesOK
<1>2. done' = [done EXCEPT ![m] = done[m] + 1] /\ DOMAIN done = Msgs
  BY DEF Inv, TablesOK
<1>3. done'[m] = done[m] + 1 /\ (\A x \in Msgs : x # m => done'[x] = done[x])
  BY <1>0, <1>2
<1>4. TablesOK'
  BY <1>0, <1>2 DEF Inv, TablesOK, Parts
<1>5. OpOK'
  <2>1. CASE done[m] + 1 = NumParts[m]
    <3>1. blob[m] = Parts(m)
      BY <1>0, <1>1, <2>1
    <3> QED
      BY <1>0, <2>1, <3>1 DEF Inv, OpOK, Ops, Labels, Parts
  <2>2. CASE done[m] + 1 # NumParts[m]
    BY <2>2 DEF Inv, OpOK, Ops, Labels, Parts
  <2> QED
    BY <2>1, <2>2
<1>6. ASSUME NEW x \in Msgs PROVE RowsOK(x)'
  <2>1. CASE x = m
    BY <1>0, <1>1, <1>3, <2>1 DEF RowsOK
  <2>2. CASE x # m
    BY <1>3, <2>2 DEF Inv, RowsOK, Parts
  <2> QED
    BY <2>1, <2>2
<1>7. ASSUME NEW x \in Msgs, restarts = 0 PROVE Calm(x)'
  <2>1. CASE x = m
    <3>1. Cardinality(blob[m]) = done[m] + 1
      BY <1>0, <1>7 DEF CalmInv, Calm, Working
    <3>2. blob[m] = Parts(m) => Working(m, {"show"})'
      BY <1>1, <3>1 DEF Working
    <3>3. \A p \in Parts(m) : copies[m][p] > 0 => p \in blob[m]
      BY <1>0, <1>7 DEF CalmInv, Calm, Working
    <3> QED
      BY <1>0, <1>3, <2>1, <3>1, <3>2, <3>3 DEF Calm, Working, Parts
  <2>2. CASE x # m
    BY <1>0, <1>3, <1>7, <2>2 DEF CalmInv, Calm, Working, Parts
  <2> QED
    BY <2>1, <2>2
<1>8. restarts = 0 => op'.at # "abort"
  OBVIOUS
<1> QED
  BY <1>4, <1>5, <1>6, <1>7, <1>8 DEF Inv, CalmInv

\* The client is shown a whole message that it has not seen before.
LEMMA ShowStep ==
  ASSUME Inv, CalmInv, Show
  PROVE  /\ Inv' /\ CalmInv' /\ UNCHANGED blob
         /\ op.msg \in Msgs /\ blob[op.msg] = Parts(op.msg) /\ shown[op.msg] = 0
         /\ shown' = [shown EXCEPT ![op.msg] = 1]
<1> USE DEF Show, tables, bounds, GoTo
<1> DEFINE m == op.msg
<1>0. /\ m \in Msgs /\ op.part \in Parts(m) /\ locks > 0 /\ m \in meta
      /\ shown[m] = 0 /\ blob[m] = Parts(m)
  BY DEF Inv, OpOK
<1>1. shown' = [shown EXCEPT ![m] = 1] /\ DOMAIN shown = Msgs
  BY <1>0 DEF Inv, TablesOK
<1>2. shown'[m] = 1 /\ (\A x \in Msgs : x # m => shown'[x] = shown[x])
  BY <1>0, <1>1
<1>3. TablesOK'
  BY <1>0, <1>1 DEF Inv, TablesOK, Parts
<1>4. OpOK'
  BY <1>0, <1>2 DEF Inv, OpOK, Ops, Labels, Parts
<1>5. ASSUME NEW x \in Msgs PROVE RowsOK(x)'
  BY <1>0, <1>2 DEF Inv, RowsOK, Parts
<1>6. ASSUME restarts = 0 PROVE op'.at # "abort" /\ (\A x \in Msgs : Calm(x)')
  BY <1>0, <1>2, <1>6 DEF CalmInv, Calm, Working, Parts
<1> QED
  BY <1>0, <1>1, <1>3, <1>4, <1>5, <1>6 DEF Inv, CalmInv

LEMMA DeleteStep ==
  ASSUME Inv, CalmInv, Delete
  PROVE  Inv' /\ CalmInv' /\ UNCHANGED <<blob, shown>>
<1> USE DEF Delete, client, bounds, Return, Idle
<1>0. op.msg \in Msgs /\ locks > 0 /\ op.msg \in meta /\ shown[op.msg] = 1
  BY DEF Inv, OpOK
<1>1. TablesOK'
  BY <1>0 DEF Inv, TablesOK, Parts
<1>2. OpOK'
  BY <1>0 DEF Inv, OpOK, Ops, Labels, Parts
<1>3. ASSUME NEW x \in Msgs PROVE RowsOK(x)'
  BY <1>0 DEF Inv, RowsOK, Parts
<1>4. ASSUME restarts = 0 PROVE op'.at # "abort" /\ (\A x \in Msgs : Calm(x)')
  BY <1>0, <1>4 DEF CalmInv, Calm, Working, Parts
<1> QED
  BY <1>1, <1>2, <1>3, <1>4 DEF Inv, CalmInv

\* Killed anywhere, the process leaves the tables such that Inv still holds.
LEMMA CrashStep ==
  ASSUME Inv, Crash
  PROVE  Inv' /\ CalmInv' /\ UNCHANGED <<blob, shown>>
<1> USE DEF Crash, tables, client, Idle
<1>1. TablesOK' /\ restarts' # 0
  BY DEF Inv, TablesOK, Parts
<1>2. OpOK'
  BY DEF Inv, OpOK, Ops, Labels, Parts
<1>3. ASSUME NEW x \in Msgs PROVE RowsOK(x)'
  BY DEF Inv, RowsOK, Parts
<1> QED
  BY <1>1, <1>2, <1>3 DEF Inv, CalmInv

LEMMA StutterStep ==
  ASSUME Inv, CalmInv, UNCHANGED vars
  PROVE  Inv' /\ CalmInv' /\ UNCHANGED <<blob, shown>>
<1> USE DEF vars, tables, client, bounds
<1>1. TablesOK' /\ OpOK'
  BY DEF Inv, TablesOK, OpOK, Parts
<1>2. ASSUME NEW x \in Msgs PROVE RowsOK(x)' /\ (Calm(x) => Calm(x)')
  BY DEF Inv, RowsOK, Calm, Working, Parts
<1> QED
  BY <1>1, <1>2 DEF Inv, CalmInv

-----------------------------------------------------------------------------
(* The theorems.                                                           *)

(***************************************************************************)
(* Every step keeps the invariant, and is a step of Reassembly or leaves   *)
(* what Reassembly speaks of as it is.                                     *)
(***************************************************************************)
LEMMA NextStep ==
  ASSUME ZeroFirst = {}, Inv, CalmInv, [Next]_vars
  PROVE  /\ Inv' /\ CalmInv'
         /\ [Promise!Next]_<<blob, shown>>
<1> USE DEF Promise!Next
<1>1. CASE \E m \in Msgs : \E p \in Parts(m) : Arrive(m, p)
  BY <1>1, ArriveStep DEF Arrive, tables, client
<1>2. CASE WriteBlob
  <2>1. op.msg \in Msgs /\ op.part \in Parts(op.msg)
    BY <1>2 DEF Inv, OpOK, WriteBlob
  <2>2. Promise!Take(op.msg, op.part)
    BY <1>2, WriteBlobStep DEF Promise!Take
  <2> QED
    BY <1>2, <2>1, <2>2, WriteBlobStep DEF Parts, Promise!Parts
<1>3. CASE Show
  <2>1. op.msg \in Msgs /\ Promise!Show(op.msg)
    BY <1>3, ShowStep DEF Promise!Show, Parts, Promise!Parts
  <2> QED
    BY <1>3, <2>1, ShowStep
<1>4. CASE InsertData \/ InsertMeta \/ LateDuplicate \/ Duplicate \/ Count \/ Delete
  BY <1>4, InsertDataStep, InsertMetaStep, LateDuplicateStep, DuplicateStep, CountStep,
     DeleteStep
<1>5. CASE Crash \/ UNCHANGED vars
  BY <1>5, CrashStep, StutterStep
<1> QED
  BY <1>1, <1>2, <1>3, <1>4, <1>5 DEF Next, Handler

(***************************************************************************)
(* The inductive invariant holds throughout.                               *)
(***************************************************************************)
THEOREM Invariance == ZeroFirst = {} => (Spec => [](Inv /\ CalmInv))
<1> SUFFICES ASSUME ZeroFirst = {} PROVE Spec => [](Inv /\ CalmInv)
  OBVIOUS
<1>1. Inv /\ CalmInv /\ [Next]_vars => (Inv /\ CalmInv)'
  BY NextStep
<1> QED
  BY InitInv, <1>1, PTL DEF Spec

(***************************************************************************)
(* No message is shown with a hole in it, whatever arrives twice or late,  *)
(* and wherever the process is killed.                                     *)
(***************************************************************************)
THEOREM ShownWhole == ZeroFirst = {} => (Spec => []Whole)
<1>1. Inv => Whole
  BY DEF Inv, TablesOK, Whole
<1> QED
  BY <1>1, Invariance, PTL

(***************************************************************************)
(* No message is shown twice, not even when the process is killed between  *)
(* showing it and deleting its data row.                                   *)
(***************************************************************************)
THEOREM ShownOnce == ZeroFirst = {} => (Spec => []Once)
<1>1. Inv => Once
  BY DEF Inv, TablesOK, RowsOK, Once
<1> QED
  BY <1>1, Invariance, PTL

(***************************************************************************)
(* A message whose fragments are dropped as late ones has been shown.      *)
(***************************************************************************)
THEOREM ForgottenWasShown == ZeroFirst = {} => (Spec => []FinishedIsShown)
<1>1. Inv => FinishedIsShown
  BY DEF Inv, TablesOK, RowsOK, FinishedIsShown
<1> QED
  BY <1>1, Invariance, PTL

(***************************************************************************)
(* Without a crash frags_done is the number of parts written.              *)
(***************************************************************************)
THEOREM CountsParts == ZeroFirst = {} => (Spec => []CountExact)
<1>1. Inv /\ CalmInv => CountExact
  BY DEF CalmInv, Calm, Working, CountExact, Idle
<1> QED
  BY <1>1, Invariance, PTL

(***************************************************************************)
(* Without a crash a message all of whose fragments arrived is shown.      *)
(***************************************************************************)
THEOREM AllIsShown == ZeroFirst = {} => (Spec => []Recombined)
<1>1. Inv /\ CalmInv => Recombined
  <2> SUFFICES ASSUME Inv, CalmInv, restarts = 0, op = Idle, NEW m \in Msgs,
                      \A p \in Parts(m) : copies[m][p] > 0
               PROVE  shown[m] = 1
    BY DEF Recombined
  <2>1. \A p \in Parts(m) : p \in blob[m]
    BY DEF CalmInv, Calm, Working, Idle
  <2>2. blob[m] = Parts(m)
    BY <2>1 DEF Inv, TablesOK
  <2> QED
    BY <2>2 DEF CalmInv, Calm, Working, Idle
<1> QED
  BY <1>1, Invariance, PTL

(***************************************************************************)
(* Type correctness: frags_done, in particular, never passes frags_num.    *)
(***************************************************************************)
THEOREM TypeCorrect == ZeroFirst = {} => (Spec => []TypeOK)
<1>1. Inv => TypeOK
  <2> SUFFICES ASSUME Inv PROVE TypeOK
    OBVIOUS
  <2>1. ASSUME NEW m \in Msgs PROVE done[m] <= NumParts[m] /\ blob[m] \in SUBSET Nat
    <3>1. blob[m] \subseteq Parts(m) /\ done[m] \in Nat /\ done[m] <= Cardinality(blob[m])
      BY DEF Inv, TablesOK, RowsOK
    <3>2. Cardinality(blob[m]) \in Nat /\ Cardinality(blob[m]) <= NumParts[m]
      BY <3>1, SomeParts
    <3> QED
      BY <3>1, <3>2 DEF Parts
  <2>2. op.at \in Labels /\ op.msg \in Msgs \cup {NoMsg} /\ op.part \in Nat
    BY DEF Inv, OpOK, Ops
  <2> QED
    BY <2>1, <2>2 DEF Inv, TablesOK, TypeOK
<1> QED
  BY <1>1, Invariance, PTL

(***************************************************************************)
(* The receiver keeps the promise of Reassembly.                           *)
(***************************************************************************)
THEOREM Implements == ZeroFirst = {} => (Spec => Reassembles)
<1> SUFFICES ASSUME ZeroFirst = {} PROVE Spec => Promise!Spec
  BY DEF Reassembles
<1>1. Init => Promise!Init
  BY DEF Init, Promise!Init
<1>2. Inv /\ CalmInv /\ [Next]_vars => [Promise!Next]_<<blob, shown>>
  BY NextStep
<1>3. Spec => [](Inv /\ CalmInv)
  BY Invariance
<1> QED
  BY <1>1, <1>2, <1>3, PTL DEF Spec, Promise!Spec

-----------------------------------------------------------------------------
(***************************************************************************)
(* The lock and the primary keys, whatever byte the fragments start with.  *)
(* The one way out of a handler that keeps the lock is taken only by a     *)
(* fragment that has arrived before: a part that was written has arrived,  *)
(* and what arrives for the first time is not written until it is stored.  *)
(***************************************************************************)
Storing == {"insertData", "insertMeta", "store"}

NoRepeat == \A m \in Msgs : \A p \in Parts(m) : copies[m][p] <= 1

LockInv ==
  /\ op \in Ops /\ locks \in Nat /\ restarts \in Nat
  /\ DOMAIN blob = Msgs /\ DOMAIN copies = Msgs
  /\ \A m \in Msgs : copies[m] \in [Parts(m) -> Nat]
  /\ op.at \notin {"idle", "abort"} =>
       op.msg \in Msgs /\ op.part \in Parts(op.msg) /\ locks > 0
  /\ NoRepeat => locks = IF op.at = "idle" THEN 0 ELSE 1
  /\ \A m \in Msgs : \A p \in Parts(m) : p \in blob[m] => copies[m][p] > 0
  /\ op.at \in Storing => /\ copies[op.msg][op.part] > 0
                          /\ op.part \in blob[op.msg] => copies[op.msg][op.part] > 1
  /\ restarts = 0 => /\ op.at # "abort"
                     /\ \A m \in data \ meta : op.at = "insertMeta" /\ op.msg = m

LEMMA LockInit == Init => LockInv
  BY DEF Init, Idle, LockInv, Ops, Labels, Storing, NoRepeat, Parts

LEMMA LockStep == LockInv /\ [Next]_vars => LockInv'
<1> SUFFICES ASSUME LockInv, [Next]_vars PROVE LockInv'
  OBVIOUS
<1> USE DEF LockInv, Ops, Labels, Storing, NoRepeat
<1>1. ASSUME NEW m \in Msgs, NEW p \in Parts(m), Arrive(m, p) PROVE LockInv'
  <2>1. /\ DOMAIN copies' = Msgs /\ copies'[m][p] = copies[m][p] + 1
        /\ \A x \in Msgs : copies'[x] \in [Parts(x) -> Nat]
        /\ \A x \in Msgs : \A q \in Parts(x) : copies'[x][q] >= copies[x][q]
    BY <1>1 DEF Arrive
  <2>2. NoRepeat' => NoRepeat
    BY <2>1 DEF Parts
  <2>3. p \in blob[m] => copies'[m][p] > 1
    BY <2>1
  <2>4. /\ op' = [at |-> "insertData", msg |-> m, part |-> p] /\ p \in Nat
        /\ locks' = locks + 1 /\ op.at = "idle"
        /\ UNCHANGED <<meta, data, blob, restarts>>
    BY <1>1 DEF Arrive, tables, Idle, Parts
  <2>5. op' \in Ops /\ op'.at = "insertData" /\ op'.msg = m /\ op'.part = p
    BY <2>4
  <2>6. NoRepeat' => locks' = 1
    BY <2>2, <2>4
  <2>7. copies'[m][p] > 0
    BY <2>1
  <2>8. \A x \in Msgs : \A q \in Parts(x) : q \in blob[x] => copies'[x][q] > 0
    BY <2>1
  <2>9. restarts = 0 => data \ meta = {}
    BY <2>4
  <2> HIDE DEF NoRepeat
  <2> QED
    BY <2>1, <2>3, <2>4, <2>5, <2>6, <2>7, <2>8, <2>9 DEF Parts
<1>2. CASE InsertData
  <2>1. /\ DOMAIN blob' = Msgs
        /\ \A m \in Msgs : blob'[m] \subseteq blob[m]
    BY <1>2 DEF InsertData
  <2> QED
    BY <1>2, <2>1 DEF InsertData, client, bounds, GoTo, Abort, Unknown, Parts
<1>3. CASE InsertMeta
  BY <1>3 DEF InsertMeta, client, bounds, GoTo, Parts
<1>4. CASE LateDuplicate
  BY <1>4 DEF LateDuplicate, tables, client, bounds, Return, Idle, Parts
<1>5. CASE Duplicate
  <2>1. ~NoRepeat
    BY <1>5 DEF Duplicate, Written
  <2> QED
    BY <1>5, <2>1 DEF Duplicate, tables, client, bounds, Idle, Parts
<1>6. CASE WriteBlob
  <2>0. op.at = "store" /\ blob' = [blob EXCEPT ![op.msg] = blob[op.msg] \cup {op.part}]
    BY <1>6 DEF WriteBlob
  <2>1. /\ DOMAIN blob' = Msgs
        /\ op.msg \in Msgs /\ blob'[op.msg] = blob[op.msg] \cup {op.part}
        /\ \A m \in Msgs : m # op.msg => blob'[m] = blob[m]
    BY <2>0
  <2>2. ASSUME NEW m \in Msgs, NEW p \in Parts(m), p \in blob'[m] PROVE copies[m][p] > 0
    <3>1. CASE m = op.msg /\ p = op.part
      BY <2>0, <3>1
    <3>2. CASE ~(m = op.msg /\ p = op.part)
      BY <2>1, <2>2, <3>2
    <3> QED
      BY <3>1, <3>2
  <2> QED
    BY <1>6, <2>1, <2>2 DEF WriteBlob, client, bounds, GoTo, Parts
<1>7. CASE Count
  BY <1>7 DEF Count, client, bounds, GoTo, Return, Idle, Parts
<1>8. CASE Show
  BY <1>8 DEF Show, tables, bounds, GoTo, Parts
<1>9. CASE Delete
  BY <1>9 DEF Delete, client, bounds, Return, Idle, Parts
<1>10. CASE Crash
  BY <1>10 DEF Crash, tables, client, Idle, Parts
<1>11. CASE UNCHANGED vars
  BY <1>11 DEF vars, tables, client, bounds, Parts
<1> QED
  BY <1>1, <1>2, <1>3, <1>4, <1>5, <1>6, <1>7, <1>8, <1>9, <1>10, <1>11 DEF Next, Handler

THEOREM LockInvariance == Spec => []LockInv
  BY LockInit, LockStep, PTL DEF Spec

(***************************************************************************)
(* A handler runs under the lock, and as long as no fragment arrives twice *)
(* none of them leaves it taken.                                           *)
(***************************************************************************)
THEOREM LockGivenBack == Spec => []Locked
<1>1. LockInv => Locked
  BY DEF LockInv, Locked, NoRepeat, Idle
<1> QED
  BY <1>1, LockInvariance, PTL

(***************************************************************************)
(* No INSERT breaks a primary key, unless the process is killed.           *)
(***************************************************************************)
THEOREM InsertsSucceed == Spec => []NoAbort
<1>1. LockInv => NoAbort
  BY DEF LockInv, NoAbort, Abort
<1> QED
  BY <1>1, LockInvariance, PTL
=============================================================================
