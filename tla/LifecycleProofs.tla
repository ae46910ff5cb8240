--------------------------- MODULE LifecycleProofs ---------------------------
(***************************************************************************)
(* What holds of the library's set-up, use and take-down for every number  *)
(* of messages, processes and milliseconds, every receipt range that is    *)
(* large enough, and every order of calls (Lifecycle.tla).                 *)
(***************************************************************************)
EXTENDS Lifecycle, StructureProofs

USE LifecycleAssumption

(***************************************************************************)
(* The inductive invariant.                                                *)
(***************************************************************************)
Typed ==
  /\ initializedApi \in BOOLEAN /\ initializedDb \in BOOLEAN
  /\ params \in Ranges \cup {DefaultRange}
  /\ database \in {"none", "file", "memory"}
  /\ initializedDb <=> database # "none"
  /\ stmts \subseteq AllStmts
  /\ receipts \in {"null", "live", "freed"}
  /\ structs \in [Msgs -> 0 .. 1]
  /\ receiptOf \in [Msgs -> Nat] /\ lastReceipt \in Nat
  /\ ring \in Seq(Msgs)
  /\ idOf \in [Msgs -> Nat] /\ lastMsgId \in Nat /\ clock \in Nat
  /\ unsent \subseteq Msgs /\ pending \subseteq Msgs \ unsent

\* What allowed the client to make a call still holds when it is carried out.
CallOK ==
  /\ call \in Calls \cup {"none", "abort"}
  /\ call \in Calls => Allowed(call)
  /\ over => ~initializedApi /\ ~initializedDb

\* Nothing is there before both initializing functions were called, and what
\* uninitialize leaves behind is out of reach.
PhaseOK ==
  /\ ~Ready => stmts = {} /\ ring = <<>> /\ \A m \in Msgs : receiptOf[m] = 0
  /\ ~Ready /\ ~over => \A m \in Msgs : structs[m] = 0
  /\ Ready => receipts = "live"
  /\ Ready /\ database = "file" => \A m \in pending : structs[m] = 1

\* The list has no message twice, none that was freed, and none that is not
\* sent yet, so that linking that one keeps it so.
ListOK ==
  /\ IsInjective(ring)
  /\ \A m \in ToSet(ring) : structs[m] = 1 /\ m \notin unsent
  /\ \A m \in Msgs : receiptOf[m] # 0 => structs[m] = 1

\* The ids given out are behind lastMsgId in this process, behind the clock
\* when they are from an earlier one.
IdsOK ==
  /\ IdsDistinct
  /\ \A m \in Msgs \ unsent : idOf[m] <= lastMsgId \/ idOf[m] < clock

\* The numbers given out start behind the start of the range.
NumbersOK ==
  /\ ReceiptsInRange
  /\ Ready => lastReceipt >= params.lo

LInv == Typed /\ CallOK /\ PhaseOK /\ ListOK /\ IdsOK /\ NumbersOK

-----------------------------------------------------------------------------
(* Lemmas on the operators.                                                *)

\* Any order of a finite set is a list of its elements, none of them twice.
LEMMA OrderOfSet ==
  ASSUME NEW S, IsFiniteSet(S), NEW s \in SetToSeqs(S)
  PROVE  s \in Seq(S) /\ ToSet(s) \subseteq S /\ IsInjective(s)
<1>1. Cardinality(S) \in Nat
  BY FS_CardinalityType
<1>2. s \in [1 .. Cardinality(S) -> S]
      /\ (\A i, j \in 1 .. Cardinality(S) : i # j => s[i] # s[j])
  BY DEF SetToSeqs
<1>3. DOMAIN s = 1 .. Cardinality(S)
  BY <1>2
<1> QED
  BY <1>1, <1>2, <1>3 DEF ToSet, IsInjective

(***************************************************************************)
(* As long as message m is not listed, the others leave a number of the    *)
(* range to it: generateReceiptNo comes to an end, and what it returns is  *)
(* a number that no listed message has.                                    *)
(***************************************************************************)
LEMMA SomeNumberFree ==
  ASSUME Typed, NEW m \in Msgs, m \notin ToSet(ring)
  PROVE  \E r \in params.lo .. params.hi : ~IsReceiptPending(r)
<1> DEFINE R == params.lo .. params.hi
           T == {x \in Msgs \ {m} : receiptOf[x] \in R}
           f == [x \in T |-> receiptOf[x]]
<1> SUFFICES ASSUME \A r \in R : IsReceiptPending(r) PROVE FALSE
  OBVIOUS
<1>1. params.lo \in Nat /\ params.hi \in Nat /\ params.hi - params.lo + 1 >= Cardinality(Msgs)
  BY DEF Typed
<1>2. Cardinality(Msgs) \in Nat /\ Cardinality(Msgs \ {m}) = Cardinality(Msgs) - 1
      /\ IsFiniteSet(Msgs \ {m})
  BY FS_RemoveElement, FS_CardinalityType
<1>3. IsFiniteSet(T) /\ Cardinality(T) <= Cardinality(Msgs) - 1
  <2>1. T \subseteq Msgs \ {m}
    OBVIOUS
  <2> HIDE DEF T
  <2> QED
    BY <1>2, <2>1, FS_Subset
<1>4. f \in Surjection(T, R)
  <2>1. ToSet(ring) \subseteq Msgs \ {m}
    BY DEF Typed, ToSet
  <2>2. \A r \in R : \E x \in T : receiptOf[x] = r
    BY <2>1 DEF IsReceiptPending
  <2> QED
    BY <2>2 DEF Surjection
<1>5. Cardinality(R) <= Cardinality(T)
  <2> HIDE DEF T, R, f
  <2> QED
    BY <1>3, <1>4, FS_Surjection
<1>6. Cardinality(T) \in Nat
  BY <1>3, FS_CardinalityType
<1>7. Cardinality(R) = IF params.lo > params.hi THEN 0 ELSE params.hi - params.lo + 1
  <2> DEFINE a == params.lo
             b == params.hi
  <2>1. a \in Int /\ b \in Int
    BY <1>1
  <2> HIDE DEF a, b
  <2>2. Cardinality(a .. b) = IF a > b THEN 0 ELSE b - a + 1
    BY <2>1, FS_Interval
  <2> QED
    BY <2>2 DEF a, b
<1>8. Cardinality(Msgs) >= 1
  BY <1>2, <1>3, <1>6
<1> HIDE DEF T, R
<1> QED
  BY <1>1, <1>2, <1>3, <1>5, <1>6, <1>7, <1>8

LEMMA NumberIsFree ==
  ASSUME Typed, NEW m \in Msgs, m \notin ToSet(ring), lastReceipt + 1 >= params.lo
  PROVE  /\ GenerateReceiptNo \in params.lo .. params.hi
         /\ ~IsReceiptPending(GenerateReceiptNo)
<1> DEFINE Free(lo) == {r \in lo .. params.hi : ~IsReceiptPending(r)}
           lo == IF Free(lastReceipt + 1) # {} THEN lastReceipt + 1 ELSE params.lo
<1>1. params.lo \in Nat /\ params.hi \in Nat /\ lastReceipt \in Nat
  BY DEF Typed
<1>2. Free(params.lo) # {}
  BY SomeNumberFree
<1>3. Free(lo) # {} /\ Free(lo) \subseteq params.lo .. params.hi /\ Free(lo) \subseteq Nat
  BY <1>1, <1>2
<1>4. Min(Free(lo)) \in Free(lo)
  <2> HIDE DEF Free
  <2> QED
    BY <1>3, MinProperty
<1>5. GenerateReceiptNo = Min(Free(lo))
  BY DEF GenerateReceiptNo
<1> HIDE DEF lo
<1> QED
  BY <1>3, <1>4, <1>5

-----------------------------------------------------------------------------
(* One lemma per action.                                                   *)

LEMMA InitLInv == Init => LInv
<1> SUFFICES ASSUME Init PROVE LInv
  OBVIOUS
<1> USE DEF Init
<1>1. Typed
  <2>1. stmts \subseteq AllStmts /\ pending \subseteq Msgs \ unsent
    OBVIOUS
  <2>2. ring \in Seq(Msgs)
    OBVIOUS
  <2>3. structs \in [Msgs -> 0 .. 1] /\ receiptOf \in [Msgs -> Nat] /\ idOf \in [Msgs -> Nat]
    OBVIOUS
  <2> QED
    BY <2>1, <2>2, <2>3 DEF Typed
<1>2. CallOK
  BY DEF CallOK, Calls
<1>3. PhaseOK
  BY DEF PhaseOK, Ready
<1>4. ListOK /\ NumbersOK
  BY DEF ListOK, NumbersOK, ReceiptsInRange, Ready, ToSet, IsInjective
<1>5. IdsOK
  BY DEF IdsOK, IdsDistinct
<1> QED
  BY <1>1, <1>2, <1>3, <1>4, <1>5 DEF LInv

\* What CallOK says of the call that is being carried out.
LEMMA AllowedCalls ==
  ASSUME CallOK
  PROVE  /\ call = "set_parameters" => ~initializedApi /\ ~initializedDb /\ ~over
         /\ call = "initialize_api" => ~initializedApi /\ ~over
         /\ call \in {"initialize_db", "initialize_db_inmemory"} => ~initializedDb /\ ~over
         /\ call \in {"send", "confirm", "receive"} => Ready
  BY DEF CallOK, Calls, Allowed

LEMMA EnterStep == ASSUME LInv, Enter PROVE LInv'
<1> USE DEF LInv, Enter, statics, flags, messages, numbers, process, world
<1>1. Typed'
  BY DEF Typed
<1>2. CallOK'
  BY DEF CallOK, Calls, Allowed, Ready
<1>3. PhaseOK' /\ ListOK'
  BY DEF PhaseOK, ListOK, Ready
<1>4. IdsOK' /\ NumbersOK'
  BY DEF IdsOK, IdsDistinct, NumbersOK, ReceiptsInRange, Ready
<1> QED
  BY <1>1, <1>2, <1>3, <1>4

\* A new range, when no number was given out yet.
LEMMA SetParametersStep == ASSUME LInv, SetParameters PROVE LInv'
<1> USE DEF LInv, SetParameters, Return, flags, messages, numbers, process, world
<1>0. ~Ready /\ ~over /\ ring = <<>>
  BY AllowedCalls DEF PhaseOK, Ready
<1>1. Typed'
  BY DEF Typed
<1>2. CallOK'
  BY DEF CallOK, Calls
<1>3. PhaseOK' /\ ListOK'
  BY DEF PhaseOK, ListOK, Ready
<1>4. IdsOK' /\ NumbersOK'
  BY <1>0 DEF IdsOK, IdsDistinct, NumbersOK, ReceiptsInRange, Ready, ToSet
<1> QED
  BY <1>1, <1>2, <1>3, <1>4

(***************************************************************************)
(* initialize(), called when the second of the two flags is set.           *)
(***************************************************************************)
LEMMA InitializeFacts ==
  ASSUME LInv, ~Ready, ~over, NEW where, Initialize(where)
  PROVE  /\ receipts' = "live" /\ lastReceipt' = params.lo /\ lastReceipt' \in Nat
         /\ structs' \in [Msgs -> 0 .. 1] /\ ring' \in Seq(Msgs) /\ IsInjective(ring')
         /\ pending' \subseteq pending
         /\ \A m \in ToSet(ring') : structs'[m] = 1 /\ m \in pending
         /\ where = "file" => \A m \in pending' : structs'[m] = 1
         /\ receiptOf' = receiptOf /\ \A m \in Msgs : receiptOf[m] = 0
         /\ stmts' \subseteq AllStmts
<1> DEFINE rows == IF where = "file" THEN pending ELSE {}
<1> USE DEF LInv
<1>0. rows \subseteq Msgs /\ IsFiniteSet(rows) /\ rows \subseteq pending
  BY FS_Subset DEF Typed
<1>1. PICK kept \in SUBSET rows :
        /\ structs' = [m \in Msgs |-> structs[m] + (IF m \in kept THEN 1 ELSE 0)]
        /\ ring' \in SetToSeqs(kept)
        /\ pending' = pending \ (rows \ kept)
        /\ stmts' = stmts \cup Load \cup (IF kept = rows THEN {} ELSE Delete)
        /\ UNCHANGED receiptOf
  BY DEF Initialize, LoadPendingSentMessages
<1>2. structs' = [m \in Msgs |-> IF m \in kept THEN 1 ELSE 0]
  BY <1>1 DEF PhaseOK, Typed
<1>3. ring' \in Seq(kept) /\ ToSet(ring') \subseteq kept /\ IsInjective(ring')
  <2>1. IsFiniteSet(kept)
    BY <1>0, <1>1, FS_Subset
  <2> QED
    BY <1>1, <2>1, OrderOfSet
<1>4. ring' \in Seq(Msgs)
  BY <1>0, <1>1, <1>3
<1>5. receipts' = "live" /\ lastReceipt' = params.lo /\ lastReceipt' \in Nat
  BY DEF Typed, Initialize, ReceiptsInitialize
<1>6. stmts' \subseteq AllStmts /\ receiptOf' = receiptOf /\ \A m \in Msgs : receiptOf[m] = 0
  BY <1>1 DEF Typed, AllStmts, PhaseOK, Load, Delete
<1>7. \A m \in ToSet(ring') : structs'[m] = 1 /\ m \in pending
  BY <1>0, <1>1, <1>2, <1>3
<1>8. where = "file" => \A m \in pending' : structs'[m] = 1
  BY <1>0, <1>1, <1>2
<1>9. structs' \in [Msgs -> 0 .. 1]
  BY <1>2
<1>10. pending' \subseteq pending
  BY <1>1
<1> HIDE DEF LInv, rows
<1> QED
  BY <1>3, <1>4, <1>5, <1>6, <1>7, <1>8, <1>9, <1>10

LEMMA InitializeApiStep == ASSUME LInv, InitializeApi PROVE LInv'
<1> USE DEF LInv, InitializeApi, Return, process, world
<1>0. ~initializedApi /\ ~Ready /\ ~over
  BY AllowedCalls DEF Ready
<1>1. CallOK'
  BY <1>0 DEF CallOK, Calls
<1>2. ASSUME initializedDb
      PROVE  Typed' /\ PhaseOK' /\ ListOK' /\ IdsOK' /\ NumbersOK'
  <2>1. Initialize(database)
    BY <1>2 DEF ApiIsSecond
  <2>2. /\ receipts' = "live" /\ lastReceipt' = params.lo /\ lastReceipt' \in Nat
        /\ structs' \in [Msgs -> 0 .. 1] /\ ring' \in Seq(Msgs) /\ IsInjective(ring')
        /\ pending' \subseteq pending
        /\ \A m \in ToSet(ring') : structs'[m] = 1 /\ m \in pending
        /\ database = "file" => \A m \in pending' : structs'[m] = 1
        /\ receiptOf' = receiptOf /\ \A m \in Msgs : receiptOf[m] = 0
        /\ stmts' \subseteq AllStmts
    BY <1>0, <2>1, InitializeFacts
  <2>3. Typed'
    BY <2>2 DEF Typed
  <2>4. PhaseOK'
    BY <1>2, <2>2 DEF PhaseOK, Ready
  <2>5. ListOK'
    BY <2>2 DEF ListOK, Typed
  <2>6. IdsOK'
    BY DEF IdsOK, IdsDistinct
  <2>7. NumbersOK'
    <3>1. \A m \in ToSet(ring') : receiptOf'[m] = 0
      BY <2>2 DEF Typed
    <3>2. params.lo \in Nat
      BY DEF Typed
    <3> QED
      BY <2>2, <3>1, <3>2 DEF NumbersOK, ReceiptsInRange
  <2> QED
    BY <2>3, <2>4, <2>5, <2>6, <2>7
<1>3. ASSUME ~initializedDb
      PROVE  Typed' /\ PhaseOK' /\ ListOK' /\ IdsOK' /\ NumbersOK'
  <2> USE DEF NotYet, ApiIsSecond, messages
  <2>1. Typed'
    BY <1>3 DEF Typed
  <2>2. PhaseOK' /\ ListOK'
    BY <1>0, <1>3 DEF PhaseOK, Ready, ListOK
  <2>3. IdsOK' /\ NumbersOK'
    BY <1>3 DEF IdsOK, IdsDistinct, NumbersOK, ReceiptsInRange, Ready
  <2> QED
    BY <2>1, <2>2, <2>3
<1> QED
  BY <1>1, <1>2, <1>3

LEMMA InitializeDbStep == ASSUME LInv, InitializeDb PROVE LInv'
<1> USE DEF LInv, InitializeDb, Return, process, world
<1>0. ~initializedDb /\ ~Ready /\ ~over /\ database' \in {"file", "memory"}
  BY AllowedCalls DEF Ready
<1>1. CallOK'
  BY <1>0 DEF CallOK, Calls
<1>2. ASSUME initializedApi
      PROVE  Typed' /\ PhaseOK' /\ ListOK' /\ IdsOK' /\ NumbersOK'
  <2>1. Initialize(database')
    BY <1>2 DEF DbIsSecond
  <2>2. /\ receipts' = "live" /\ lastReceipt' = params.lo /\ lastReceipt' \in Nat
        /\ structs' \in [Msgs -> 0 .. 1] /\ ring' \in Seq(Msgs) /\ IsInjective(ring')
        /\ pending' \subseteq pending
        /\ \A m \in ToSet(ring') : structs'[m] = 1 /\ m \in pending
        /\ database' = "file" => \A m \in pending' : structs'[m] = 1
        /\ receiptOf' = receiptOf /\ \A m \in Msgs : receiptOf[m] = 0
        /\ stmts' \subseteq AllStmts
    BY <1>0, <2>1, InitializeFacts
  <2>3. Typed'
    BY <1>0, <2>2 DEF Typed
  <2>4. PhaseOK'
    BY <1>2, <2>2 DEF PhaseOK, Ready
  <2>5. ListOK'
    BY <2>2 DEF ListOK, Typed
  <2>6. IdsOK'
    BY DEF IdsOK, IdsDistinct
  <2>7. NumbersOK'
    <3>1. \A m \in ToSet(ring') : receiptOf'[m] = 0
      BY <2>2 DEF Typed
    <3>2. params.lo \in Nat
      BY DEF Typed
    <3> QED
      BY <2>2, <3>1, <3>2 DEF NumbersOK, ReceiptsInRange
  <2> QED
    BY <2>3, <2>4, <2>5, <2>6, <2>7
<1>3. ASSUME ~initializedApi
      PROVE  Typed' /\ PhaseOK' /\ ListOK' /\ IdsOK' /\ NumbersOK'
  <2> USE DEF NotYet, DbIsSecond, messages
  <2>1. Typed'
    BY <1>0, <1>3 DEF Typed
  <2>2. PhaseOK' /\ ListOK'
    BY <1>0, <1>3 DEF PhaseOK, Ready, ListOK
  <2>3. IdsOK' /\ NumbersOK'
    BY <1>3 DEF IdsOK, IdsDistinct, NumbersOK, ReceiptsInRange, Ready
  <2> QED
    BY <2>1, <2>2, <2>3
<1> QED
  BY <1>1, <1>2, <1>3

(***************************************************************************)
(* A message is sent: its id is above all earlier ones, its number is one  *)
(* that no listed message has.                                             *)
(***************************************************************************)
LEMMA SendStep == ASSUME LInv, NEW m \in Msgs, Send(m) PROVE LInv'
<1> USE DEF LInv, Send, Return, flags, process
<1>0. Ready /\ Ready' /\ m \in unsent /\ m \notin ToSet(ring) /\ ~over
  BY AllowedCalls DEF Ready, ListOK, CallOK
<1>1. /\ GenerateReceiptNo \in params.lo .. params.hi
      /\ ~IsReceiptPending(GenerateReceiptNo)
  <2>1. lastReceipt + 1 >= params.lo
    BY <1>0 DEF NumbersOK, Typed
  <2> QED
    BY <1>0, <2>1, NumberIsFree
<1>2. params.lo \in Nat /\ params.lo > 0 /\ params.hi \in Nat
  BY DEF Typed
<1>3. GenerateMsgId \in Nat /\ GenerateMsgId > lastMsgId /\ GenerateMsgId >= clock
  BY DEF GenerateMsgId, Typed
<1>4. /\ Link(ring, m) \in Seq(Msgs) /\ IsInjective(Link(ring, m))
      /\ ToSet(Link(ring, m)) = ToSet(ring) \cup {m}
  BY <1>0, LinkType, LinkLists DEF Typed, ListOK
<1> DEFINE r == GenerateReceiptNo
           id == GenerateMsgId
<1>5. /\ receiptOf' = [receiptOf EXCEPT ![m] = r] /\ lastReceipt' = r
      /\ idOf' = [idOf EXCEPT ![m] = id] /\ lastMsgId' = id
  OBVIOUS
<1>6. r \in Nat /\ r >= params.lo /\ r <= params.hi /\ r > 0
  BY <1>1, <1>2
<1> HIDE DEF r, id
<1>7. CallOK'
  BY <1>0 DEF CallOK, Calls, Ready
<1>8. Typed'
  <2>1. idOf' \in [Msgs -> Nat] /\ receiptOf' \in [Msgs -> Nat] /\ lastMsgId' \in Nat
    BY <1>3, <1>5, <1>6 DEF Typed, id
  <2>2. stmts' \subseteq AllStmts
    BY DEF AllStmts, Store, Typed
  <2>3. structs' \in [Msgs -> 0 .. 1]
    BY DEF Typed
  <2> QED
    BY <1>4, <1>5, <1>6, <2>1, <2>2, <2>3 DEF Typed
<1>9. PhaseOK'
  BY <1>0 DEF PhaseOK, Ready, Typed
<1>10. ListOK'
  BY <1>0, <1>4, <1>5 DEF ListOK, Typed
<1>11. IdsOK'
  <2>1. ASSUME NEW x \in Msgs \ unsent
        PROVE  x # m /\ idOf'[x] = idOf[x] /\ idOf[x] < id
    <3>1. x # m /\ idOf'[x] = idOf[x]
      BY <1>0, <1>5 DEF Typed
    <3>2. idOf[x] \in Nat /\ lastMsgId \in Nat /\ clock \in Nat
      BY DEF Typed
    <3>3. idOf[x] <= lastMsgId \/ idOf[x] < clock
      BY DEF IdsOK
    <3>4. id \in Nat /\ id > lastMsgId /\ id >= clock
      BY <1>3 DEF id
    <3> QED
      BY <3>1, <3>2, <3>3, <3>4
  <2>2. idOf'[m] = id /\ unsent' = unsent \ {m}
    BY <1>5 DEF Typed
  <2>3. Msgs \ unsent' = (Msgs \ unsent) \cup {m}
    BY <2>2
  <2>4. \A x \in Msgs \ unsent : idOf[x] \in Nat
    BY DEF Typed
  <2>5. id \in Nat
    BY <1>3 DEF id
  <2>6. IdsDistinct'
    <3>1. SUFFICES ASSUME NEW x \in Msgs \ unsent', NEW y \in Msgs \ unsent', x # y
                   PROVE  idOf'[x] # idOf'[y]
      BY DEF IdsDistinct
    <3>2. CASE x = m
      BY <2>1, <2>2, <2>3, <2>4, <2>5, <3>1, <3>2
    <3>3. CASE y = m
      BY <2>1, <2>2, <2>3, <2>4, <2>5, <3>1, <3>3
    <3>4. CASE x # m /\ y # m
      BY <2>1, <2>3, <3>1, <3>4 DEF IdsOK, IdsDistinct
    <3> QED
      BY <3>2, <3>3, <3>4
  <2>7. ASSUME NEW x \in Msgs \ unsent'
        PROVE  idOf'[x] <= lastMsgId' \/ idOf'[x] < clock'
    BY <1>5, <2>1, <2>2, <2>3, <2>4, <2>5
  <2> QED
    BY <2>6, <2>7 DEF IdsOK
<1>12. NumbersOK'
  <2>1. \A x \in ToSet(ring) : x \in Msgs /\ receiptOf[x] # r
    BY <1>1 DEF IsReceiptPending, r, Typed, ToSet
  <2>2. receiptOf'[m] = r /\ \A x \in ToSet(ring) : receiptOf'[x] = receiptOf[x]
    BY <1>0, <1>5, <2>1 DEF Typed
  <2>3. ToSet(ring') = ToSet(ring) \cup {m}
    BY <1>4
  <2>4. ReceiptsInRange'
    <3>1. SUFFICES ASSUME NEW x \in ToSet(ring'), receiptOf'[x] # 0
                   PROVE  /\ receiptOf'[x] \in params.lo .. params.hi
                          /\ \A y \in ToSet(ring') \ {x} : receiptOf'[y] # receiptOf'[x]
      BY DEF ReceiptsInRange
    <3>2. CASE x = m
      BY <1>1, <2>1, <2>2, <2>3, <3>2 DEF r
    <3>3. CASE x # m
      BY <2>1, <2>2, <2>3, <3>1, <3>3 DEF NumbersOK, ReceiptsInRange
    <3> QED
      BY <3>2, <3>3
  <2> QED
    BY <1>5, <1>6, <2>4 DEF NumbersOK
<1> QED
  BY <1>7, <1>8, <1>9, <1>10, <1>11, <1>12

\* A message is complete: it leaves the list, if it is still there.
LEMMA LastReceiptStep == ASSUME LInv, NEW m \in Msgs, LastReceipt(m) PROVE LInv'
<1> USE DEF LInv, LastReceipt, Return, flags, numbers, process
<1>0. Ready /\ Ready' /\ ~over /\ structs[m] = 1
  BY AllowedCalls DEF Ready, ListOK, CallOK
<1>1. /\ Unlink(ring, m) \in Seq(Msgs) /\ IsInjective(Unlink(ring, m))
      /\ ToSet(Unlink(ring, m)) \subseteq ToSet(ring) \ {m}
  BY UnlinkType, UnlinkLists DEF Typed, ListOK
<1>2. structs' = [structs EXCEPT ![m] = 0]
  BY <1>0 DEF Typed
<1>3. CallOK'
  BY <1>0 DEF CallOK, Calls, Ready
<1>4. Typed'
  <2>1. receiptOf' \in [Msgs -> Nat] /\ structs' \in [Msgs -> 0 .. 1]
    BY <1>2 DEF Typed
  <2>2. stmts' \subseteq AllStmts
    BY DEF AllStmts, Confirm, Delete, Typed
  <2> QED
    BY <1>1, <2>1, <2>2 DEF Typed
<1>5. PhaseOK'
  BY <1>0, <1>2 DEF PhaseOK, Ready, Typed
<1>6. ASSUME NEW x \in ToSet(ring')
      PROVE  x \in Msgs /\ x # m /\ x \in ToSet(ring) /\ receiptOf'[x] = receiptOf[x]
             /\ structs'[x] = structs[x]
  <2>1. x \in ToSet(ring) /\ x # m
    BY <1>1
  <2>2. x \in Msgs
    BY <2>1 DEF Typed, ToSet
  <2> QED
    BY <1>2, <2>1, <2>2 DEF Typed
<1>7. ListOK'
  BY <1>1, <1>2, <1>6 DEF ListOK, Typed
<1>8. IdsOK'
  BY DEF IdsOK, IdsDistinct
<1>9. NumbersOK'
  BY <1>0, <1>6 DEF NumbersOK, ReceiptsInRange
<1> QED
  BY <1>3, <1>4, <1>5, <1>7, <1>8, <1>9

LEMMA ReceiveStep == ASSUME LInv, ReceiveFragment PROVE LInv'
<1> USE DEF LInv, ReceiveFragment, Return, flags, messages, numbers, process, world
<1>0. Ready /\ Ready'
  BY AllowedCalls DEF Ready
<1>1. Typed'
  BY DEF Typed, AllStmts, Look, Count, Delete
<1>2. CallOK' /\ PhaseOK' /\ ListOK'
  BY <1>0 DEF CallOK, Calls, PhaseOK, ListOK, Ready
<1>3. IdsOK' /\ NumbersOK'
  BY DEF IdsOK, IdsDistinct, NumbersOK, ReceiptsInRange, Ready
<1> QED
  BY <1>1, <1>2, <1>3

\* Every statement is destroyed, so that the database can be closed.
LEMMA UninitializeStep == ASSUME LInv, Uninitialize PROVE LInv'
<1> USE DEF LInv, Uninitialize, numbers, world
<1>0. stmts' = {} /\ ring' = <<>> /\ call' = "none" /\ ~Ready' /\ over'
  BY DEF DestroyPreparedStatements, Destroyed, AllStmts, Typed, Ready
<1>1. Typed'
  <2>1. structs' \in [Msgs -> 0 .. 1] /\ receiptOf' \in [Msgs -> Nat] /\ ring' \in Seq(Msgs)
    BY <1>0 DEF Typed
  <2> QED
    BY <1>0, <2>1 DEF Typed
<1>2. CallOK' /\ PhaseOK'
  BY <1>0 DEF CallOK, Calls, PhaseOK
<1>3. ListOK' /\ NumbersOK'
  BY <1>0 DEF ListOK, NumbersOK, ReceiptsInRange, ToSet, IsInjective
<1>4. IdsOK'
  BY DEF IdsOK, IdsDistinct
<1> QED
  BY <1>1, <1>2, <1>3, <1>4

\* Steps that leave the library's data alone.
LEMMA OtherStep ==
  ASSUME LInv, NewOrKill \/ Thread \/ ThreadFini \/ UNCHANGED vars
  PROVE  LInv'
<1> USE DEF LInv
<1>0. /\ UNCHANGED <<flags, params, database, stmts, receipts, messages, numbers, toxInstance>>
      /\ UNCHANGED <<over, world>>
      /\ call' = call \/ call' = "abort"
  BY DEF NewOrKill, New, Kill, Thread, ThreadFini, vars, statics, process
<1> USE DEF flags, messages, numbers, world
<1>1. Typed'
  BY <1>0 DEF Typed
<1>2. CallOK' /\ PhaseOK' /\ ListOK'
  <2>1. CallOK'
    BY <1>0 DEF CallOK, Calls, Allowed, Ready
  <2> QED
    BY <1>0, <2>1 DEF PhaseOK, ListOK, Ready
<1>3. IdsOK' /\ NumbersOK'
  BY <1>0 DEF IdsOK, IdsDistinct, NumbersOK, ReceiptsInRange, Ready
<1> QED
  BY <1>1, <1>2, <1>3

LEMMA TickStep == ASSUME LInv, Tick PROVE LInv'
<1> USE DEF LInv, Tick, statics, flags, messages, numbers, process
<1>1. Typed'
  BY DEF Typed
<1>2. CallOK' /\ PhaseOK' /\ ListOK'
  <2>1. CallOK'
    BY DEF CallOK, Calls, Allowed, Ready
  <2> QED
    BY <2>1 DEF PhaseOK, ListOK, Ready
<1>3. IdsOK' /\ NumbersOK'
  <2>1. \A m \in Msgs : idOf[m] \in Nat /\ clock \in Nat /\ clock' = clock + 1
    BY DEF Typed
  <2> QED
    BY <2>1 DEF IdsOK, IdsDistinct, NumbersOK, ReceiptsInRange, Ready
<1> QED
  BY <1>1, <1>2, <1>3

LEMMA RestartStep == ASSUME LInv, Restart PROVE LInv'
<1> USE DEF LInv, Restart
<1>1. Typed'
  <2>1. structs' \in [Msgs -> 0 .. 1] /\ receiptOf' \in [Msgs -> Nat] /\ ring' \in Seq(Msgs)
    OBVIOUS
  <2> QED
    BY <2>1 DEF Typed
<1>2. CallOK' /\ PhaseOK'
  BY DEF CallOK, Calls, PhaseOK, Ready
<1>3. ListOK' /\ NumbersOK'
  BY DEF ListOK, NumbersOK, ReceiptsInRange, Ready, ToSet, IsInjective
<1>4. IdsOK'
  BY DEF IdsOK, IdsDistinct
<1> QED
  BY <1>1, <1>2, <1>3, <1>4

-----------------------------------------------------------------------------
(* The theorems.                                                           *)

(***************************************************************************)
(* The inductive invariant holds throughout.                               *)
(***************************************************************************)
THEOREM Invariance == Spec => []LInv
<1>1. LInv /\ [Next]_vars => LInv'
  BY EnterStep, SetParametersStep, InitializeApiStep, InitializeDbStep, SendStep,
     LastReceiptStep, ReceiveStep, UninitializeStep, OtherStep, TickStep, RestartStep
     DEF Next
<1> QED
  BY InitLInv, <1>1, PTL DEF Spec

(***************************************************************************)
(* Type correctness; no message is in memory twice.                        *)
(***************************************************************************)
THEOREM TypeCorrect == Spec => []TypeOK
<1>1. LInv => TypeOK
  BY DEF LInv, Typed, CallOK, ListOK, TypeOK
<1> QED
  BY <1>1, Invariance, PTL

(***************************************************************************)
(* Whichever of the two initializing functions comes first, in the end     *)
(* everything is there, and there once.                                    *)
(***************************************************************************)
THEOREM Loaded == Spec => []LoadedOnce
<1>1. LInv => LoadedOnce
  BY DEF LInv, PhaseOK, LoadedOnce
<1> QED
  BY <1>1, Invariance, PTL

(***************************************************************************)
(* No id is given out twice, neither in a millisecond nor by the next      *)
(* process.                                                                *)
(***************************************************************************)
THEOREM IdsNeverRepeat == Spec => []IdsDistinct
<1>1. LInv => IdsDistinct
  BY DEF LInv, IdsOK
<1> QED
  BY <1>1, Invariance, PTL

(***************************************************************************)
(* The client's numbers are of its range, and no two listed messages have  *)
(* the same, also after the range has started over.                        *)
(***************************************************************************)
THEOREM ReceiptsStayInRange == Spec => []ReceiptsInRange
<1>1. LInv => ReceiptsInRange
  BY DEF LInv, NumbersOK
<1> QED
  BY <1>1, Invariance, PTL

(***************************************************************************)
(* Whatever was called before, no statement keeps a database open: the     *)
(* list in destroyPreparedStatements names all that can have been prepared *)
(* by then.                                                                *)
(***************************************************************************)
THEOREM StatementsDestroyed == Spec => []NoStatementLeft
<1>1. LInv => NoStatementLeft
  BY DEF LInv, Typed, PhaseOK, Ready, NoStatementLeft
<1> QED
  BY <1>1, Invariance, PTL
==============================================================================
