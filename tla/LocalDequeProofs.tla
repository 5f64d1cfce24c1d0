-------------------------- MODULE LocalDequeProofs --------------------------
(***************************************************************************)
(* Proofs about LocalDeque for every ring length, every set of thieves and *)
(* every number of tasks.                                                  *)
(***************************************************************************)
EXTENDS LocalDeque, TLAPS

-----------------------------------------------------------------------------
(***************************************************************************)
(* The ring: two indices less than a ring length apart use different slots.*)
(***************************************************************************)

\* The ring index (index & MASK) is in bounds.
LEMMA SlotInRange ==
    ASSUME NEW i \in Nat PROVE Slot(i) \in 0 .. SLOT_LENGTH - 1
  BY SlotLengthAssumption DEF Slot

\* So is the difference of two indices, wrapped (fn len).
LEMMA LenInRange ==
    ASSUME NEW i \in Int PROVE Slot(i) \in 0 .. SLOT_LENGTH - 1
  BY SlotLengthAssumption DEF Slot

\* A positive multiple of the ring length is at least the ring length.
LEMMA Multiples ==
    ASSUME NEW k \in Int
    PROVE  /\ k >= 1 => SLOT_LENGTH * k >= SLOT_LENGTH
           /\ k <= 0 => SLOT_LENGTH * k <= 0
  <1>1. SLOT_LENGTH * k = SLOT_LENGTH * (k - 1) + SLOT_LENGTH
    BY SlotLengthAssumption
  <1>2. k >= 1 => SLOT_LENGTH * (k - 1) >= 0
    BY SlotLengthAssumption
  <1>3. k <= 0 => SLOT_LENGTH * k <= 0
    BY SlotLengthAssumption
  <1> QED
    BY <1>1, <1>2, <1>3, SlotLengthAssumption

\* Indices of one window of the ring never share a slot (fn slot).
LEMMA SlotInjective ==
    ASSUME NEW i \in Nat, NEW j \in Nat, i < j, j - i < SLOT_LENGTH
    PROVE  Slot(i) # Slot(j)
  <1> SUFFICES ASSUME i % SLOT_LENGTH = j % SLOT_LENGTH PROVE FALSE
    BY DEF Slot
  <1> DEFINE a == i \div SLOT_LENGTH
             b == j \div SLOT_LENGTH
  <1>1. a \in Int /\ b \in Int
    BY SlotLengthAssumption
  <1>2. /\ i = (SLOT_LENGTH * a) + (i % SLOT_LENGTH)
        /\ j = (SLOT_LENGTH * b) + (j % SLOT_LENGTH)
    BY SlotLengthAssumption
  <1> HIDE DEF a, b
  <1>3. j - i = SLOT_LENGTH * b - SLOT_LENGTH * a
    <2>1. SLOT_LENGTH * a \in Int /\ SLOT_LENGTH * b \in Int
      BY <1>1, SlotLengthAssumption
    <2>2. i % SLOT_LENGTH \in Int
      BY SlotLengthAssumption
    <2> QED BY <2>1, <2>2, <1>2
  <1>4. SLOT_LENGTH * b - SLOT_LENGTH * a = SLOT_LENGTH * (b - a)
    BY <1>1, SlotLengthAssumption
  <1>5. CASE b - a >= 1
    BY <1>5, <1>3, <1>4, <1>1, Multiples, SlotLengthAssumption
  <1>6. CASE b - a <= 0
    BY <1>6, <1>3, <1>4, <1>1, Multiples, SlotLengthAssumption
  <1> QED
    BY <1>5, <1>6, <1>1

-----------------------------------------------------------------------------
(***************************************************************************)
(* The invariant is inductive, one lemma per conjunct.                     *)
(***************************************************************************)

\* Whatever slot is read, it holds a task or torn bits.
LEMMA SlotTyped ==
    ASSUME TypeOK, NEW i \in Nat
    PROVE  slots[Slot(i)] \in 0 .. MaxTasks
  <1>1. Slot(i) \in 0 .. SLOT_LENGTH - 1
    BY SlotInRange
  <1> QED BY <1>1 DEF TypeOK

\* Counting a task that is handed out keeps the counters' type.
LEMMA TakeTyped ==
    ASSUME TypeOK, NEW v \in 0 .. MaxTasks, Take(v)
    PROVE  taken' \in [0 .. MaxTasks -> Nat]
  BY DEF TypeOK, Take

\* Half of a length (len >> 1) is a length.
LEMMA Half == ASSUME NEW n \in 0 .. SLOT_LENGTH - 1 PROVE n \div 2 \in 0 .. CAP
  BY SlotLengthAssumption DEF CAP

\* One round of steal_worker_inner less.
LEMMA OneLess == ASSUME NEW n \in 0 .. CAP, n > 0 PROVE n - 1 \in 0 .. CAP
  BY SlotLengthAssumption DEF CAP

\* Every step of the deque keeps the types.
LEMMA TypeStep == IInv /\ [Next]_vars => TypeOK'
  <1> SUFFICES ASSUME IInv, [Next]_vars PROVE TypeOK'
    OBVIOUS
  <1> USE SlotLengthAssumption, MaxTasksAssumption
  <1>0. TypeOK /\ Indices BY DEF IInv
  <1> USE <1>0 DEF TypeOK, OwnerPC, ThiefPC, CAP, Torn
  <1>1. CASE PopLoadHead
    BY <1>1 DEF PopLoadHead, tvars
  <1>2. CASE PopStoreTail
    BY <1>2 DEF PopStoreTail, tvars, Indices
  <1>3. CASE PopReloadHead
    BY <1>3 DEF PopReloadHead, tvars
  <1>4. CASE PopRead
    <2>1. slots[Slot(tail)] \in 0 .. MaxTasks
      BY SlotTyped
    <2>2. taken' \in [0 .. MaxTasks -> Nat]
      BY <1>4, <2>1, TakeTyped DEF PopRead
    <2> QED BY <1>4, <2>2 DEF PopRead, tvars
  <1>5. CASE PopHandoff
    BY <1>5 DEF PopHandoff, tvars
  <1>6. CASE PopRestoreWon
    <2>1. slots[Slot(tail)] \in 0 .. MaxTasks
      BY SlotTyped
    <2>2. taken' \in [0 .. MaxTasks -> Nat]
      BY <1>6, <2>1, TakeTyped DEF PopRestoreWon
    <2> QED BY <1>6, <2>2 DEF PopRestoreWon, tvars
  <1>7. CASE PopRestoreLost
    BY <1>7 DEF PopRestoreLost, tvars
  <1>8. CASE PopClaimLast
    <2>1. slots[Slot(oh)] \in 0 .. MaxTasks
      BY SlotTyped
    <2>2. taken' \in [0 .. MaxTasks -> Nat]
      BY <1>8, <2>1, TakeTyped DEF PopClaimLast
    <2> QED BY <1>8, <2>2 DEF PopClaimLast, tvars
  <1>9. CASE StealGlobal
    BY <1>9 DEF StealGlobal, tvars
  <1>10. CASE StealWorkerBegin
    BY <1>10 DEF StealWorkerBegin, tvars
  <1>11. CASE StealWorkerRound
    BY <1>11 DEF StealWorkerRound, tvars
  <1>12. CASE StealWorkerEnd
    BY <1>12 DEF StealWorkerEnd, tvars
  <1>13. CASE PushWrite
    <2>1. Slot(ot) \in 0 .. SLOT_LENGTH - 1
      BY SlotInRange
    <2>3. next + oleft - 1 \in 0 .. MaxTasks
      BY <1>13 DEF PushWrite, Indices
    <2>2. slots' \in [0 .. SLOT_LENGTH - 1 -> 0 .. MaxTasks]
      BY <1>13, <2>1, <2>3 DEF PushWrite
    <2> QED BY <1>13, <2>2, SMTT(20) DEF PushWrite, tvars
  <1>14. CASE PushPublish
    BY <1>14, SMTT(20) DEF PushPublish, tvars, Indices
  <1>15. CASE DropBegin
    BY <1>15 DEF DropBegin, tvars
  <1>16. CASE DropOne
    <2>1. slots[Slot(head)] \in 0 .. MaxTasks
      BY SlotTyped
    <2>2. taken' \in [0 .. MaxTasks -> Nat]
      BY <1>16, <2>1, TakeTyped DEF DropOne
    <2>3. head' \in Nat
      BY <1>16 DEF DropOne
    <2> QED BY <1>16, <2>2, <2>3 DEF DropOne, tvars, ovars
  <1>17. CASE DropEnd
    BY <1>17 DEF DropEnd, tvars
  <1>18. ASSUME NEW p \in Thieves, StealLoadHead(p) PROVE TypeOK'
    BY <1>18 DEF StealLoadHead, ovars
  <1>19. ASSUME NEW p \in Thieves, StealLoadTail(p) PROVE TypeOK'
    <2>1. tpc' \in [Thieves -> ThiefPC]
      BY <1>19 DEF StealLoadTail
    <2>2. trest' \in [Thieves -> 0 .. CAP]
      <3>1. CASE trest' = [trest EXCEPT ![p] = 0]
        BY <3>1
      <3> QED BY <1>19, <3>1 DEF StealLoadTail
    <2> QED BY <1>19, <2>1, <2>2 DEF StealLoadTail, ovars
  <1>20. ASSUME NEW p \in Thieves, StealPeek(p) PROVE TypeOK'
    <2>1. slots[Slot(th[p])] \in 0 .. MaxTasks
      BY SlotTyped
    <2>2. tval' \in [Thieves -> 0 .. MaxTasks]
      <3>1. CASE tval' = [tval EXCEPT ![p] = slots[Slot(th[p])]]
        BY <2>1, <3>1
      <3>2. CASE tval' = [tval EXCEPT ![p] = Torn]
        BY <3>2
      <3> QED BY <1>20, <3>1, <3>2 DEF StealPeek
    <2>3. tpc' \in [Thieves -> ThiefPC]
      BY <1>20 DEF StealPeek
    <2> QED BY <1>20, <2>2, <2>3 DEF StealPeek, ovars
  <1>21. ASSUME NEW p \in Thieves, StealCas(p) PROVE TypeOK'
    <2>1. taken' \in [0 .. MaxTasks -> Nat]
      BY <1>21, TakeTyped DEF StealCas
    <2>2. tpc' \in [Thieves -> ThiefPC]
      BY <1>21 DEF StealCas
    <2>3. trest' \in [Thieves -> 0 .. CAP]
      <3>1. CASE trest[p] > 0 /\ trest' = [trest EXCEPT ![p] = @ - 1]
        <4>0. trest[p] \in 0 .. CAP
          OBVIOUS
        <4>1. trest[p] - 1 \in 0 .. CAP
          BY <3>1, <4>0, OneLess
        <4> QED BY <3>1, <4>1
      <3> QED BY <1>21, <3>1 DEF StealCas
    <2>4. head' \in Nat
      BY <1>21, SMTT(20) DEF StealCas
    <2> QED BY <1>21, <2>1, <2>2, <2>3, <2>4 DEF StealCas, ovars
  <1>22. ASSUME NEW p \in Thieves, StealRetry(p) PROVE TypeOK'
    BY <1>22 DEF StealRetry, ovars
  <1>23. ASSUME NEW p \in Thieves, LenLoadHead(p) PROVE TypeOK'
    BY <1>23 DEF LenLoadHead, ovars
  <1>24. ASSUME NEW p \in Thieves, LenLoadTail(p) PROVE TypeOK'
    <2>0. tail - th[p] \in Int
      OBVIOUS
    <2>2. Slot(tail - th[p]) \in 0 .. SLOT_LENGTH - 1
      BY <2>0, LenInRange
    <2>1. Slot(tail - th[p]) \div 2 \in 0 .. CAP
      BY <2>2, Half
    <2> QED BY <1>24, <2>1 DEF LenLoadTail, ovars
  <1>25. CASE UNCHANGED vars
    BY <1>25 DEF vars
  <1> QED
    BY <1>1, <1>2, <1>3, <1>4, <1>5, <1>6, <1>7, <1>8, <1>9, <1>10, <1>11,
       <1>12, <1>13, <1>14, <1>15, <1>16, <1>17, <1>18, <1>19, <1>20, <1>21,
       <1>22, <1>23, <1>24, <1>25
       DEF Next, Pop, Refill, Drop, Steal

\* Every step keeps head, tail and the owner's local indices in their places.
LEMMA IndicesStep == IInv /\ [Next]_vars => Indices'
  <1> SUFFICES ASSUME IInv, [Next]_vars PROVE Indices'
    OBVIOUS
  <1>0. /\ head \in Nat /\ tail \in Nat /\ ot \in Nat /\ oh \in Nat
        /\ oleft \in 0 .. CAP /\ orest \in 0 .. CAP /\ next \in Nat
        /\ opc \in OwnerPC
        /\ CAP \in Nat /\ CAP >= 1 /\ MaxTasks \in Nat
    BY SlotLengthAssumption, MaxTasksAssumption DEF IInv, TypeOK, CAP
  <1>i. Indices
    BY DEF IInv
  <1>1. CASE PopLoadHead
    BY <1>1, <1>0, <1>i DEF PopLoadHead, Indices, Bottom, Empty
  <1>2. CASE PopStoreTail
    BY <1>2, <1>0, <1>i DEF PopStoreTail, Indices, Bottom, Empty
  <1>3. CASE PopReloadHead
    BY <1>3, <1>0, <1>i DEF PopReloadHead, Indices, Bottom, Empty
  <1>4. CASE PopRead
    BY <1>4, <1>0, <1>i DEF PopRead, Indices, Bottom, Empty
  <1>5. CASE PopHandoff
    BY <1>5, <1>0, <1>i DEF PopHandoff, Indices, Bottom, Empty
  <1>6. CASE PopRestoreWon
    BY <1>6, <1>0, <1>i DEF PopRestoreWon, Indices, Bottom, Empty
  <1>7. CASE PopRestoreLost
    BY <1>7, <1>0, <1>i DEF PopRestoreLost, Indices, Bottom, Empty
  <1>8. CASE PopClaimLast
    BY <1>8, <1>0, <1>i DEF PopClaimLast, Indices, Bottom, Empty
  <1>9. CASE StealGlobal
    BY <1>9, <1>0, <1>i DEF StealGlobal, Indices, Bottom, Empty
  <1>10. CASE StealWorkerBegin
    BY <1>10, <1>0, <1>i DEF StealWorkerBegin, Indices, Bottom, Empty
  <1>11. CASE StealWorkerRound
    BY <1>11, <1>0, <1>i DEF StealWorkerRound, Indices, Bottom, Empty
  <1>12. CASE StealWorkerEnd
    BY <1>12, <1>0, <1>i DEF StealWorkerEnd, Indices, Bottom, Empty
  <1>13. CASE PushWrite
    BY <1>13, <1>0, <1>i DEF PushWrite, Indices, Bottom, Empty
  <1>14. CASE PushPublish
    BY <1>14, <1>0, <1>i DEF PushPublish, Indices, Bottom, Empty
  <1>15. CASE DropBegin
    BY <1>15, <1>0, <1>i DEF DropBegin, Indices, Bottom, Empty
  <1>16. CASE DropOne
    BY <1>16, <1>0, <1>i DEF DropOne, ovars, Indices, Bottom, Empty
  <1>17. CASE DropEnd
    BY <1>17, <1>0, <1>i DEF DropEnd, Indices, Bottom, Empty
  <1>18. ASSUME NEW p \in Thieves, StealCas(p) PROVE Indices'
    <2>1. head < Bottom /\ opc \notin {"drop", "dropped"}
      BY <1>18 DEF IInv, ThievesAgree, StealCas
    <2>2. head' = head + 1 /\ UNCHANGED <<tail, ovars>>
      BY <1>18 DEF StealCas
    <2> QED BY <2>1, <2>2, <1>0, <1>i DEF ovars, Indices, Bottom
  <1>19. ASSUME NEW p \in Thieves, Steal(p), ~StealCas(p) PROVE Indices'
    <2>1. UNCHANGED <<head, tail, ovars>>
      BY <1>19 DEF Steal, StealLoadHead, StealLoadTail, StealPeek, StealRetry,
                   LenLoadHead, LenLoadTail
    <2> QED BY <2>1, <1>i DEF ovars, Indices, Bottom
  <1>20. CASE UNCHANGED vars
    BY <1>20, <1>i DEF vars, Indices, Bottom
  <1> QED
    BY <1>1, <1>2, <1>3, <1>4, <1>5, <1>6, <1>7, <1>8, <1>9, <1>10, <1>11,
       <1>12, <1>13, <1>14, <1>15, <1>16, <1>17, <1>18, <1>19, <1>20
       DEF Next, Pop, Refill, Drop
\* A write into the ring never touches the slot a thief may still claim:
\* the element at head, if there is one, is less than a ring length behind
\* the owner's cursor.
LEMMA WriteClear ==
    ASSUME IInv, opc = "write", oleft > 0, NEW i \in head .. ot - 1
    PROVE  Slot(i) # Slot(ot)
  <1>1. /\ head \in Nat /\ ot \in Nat /\ CAP = SLOT_LENGTH - 1
        /\ oleft \in Nat /\ orest \in Nat /\ SLOT_LENGTH \in Nat
    BY SlotLengthAssumption DEF IInv, TypeOK, CAP
  <1>2. ot + oleft + orest <= head + CAP
    BY DEF IInv, Indices
  <1>3. i \in Nat /\ i < ot /\ ot - i < SLOT_LENGTH
    BY <1>1, <1>2
  <1> QED BY <1>1, <1>3, SlotInjective

\* What a thief needs to know of the deque while it is between two steps.
Agrees(q) ==
    /\ tpc[q] \in {"loaded", "peek", "cas"} => th[q] <= head
    /\ tpc[q] \in {"peek", "cas"} /\ th[q] = head => head < Bottom
    /\ tpc[q] = "cas" /\ th[q] = head => tval[q] = slots[Slot(head)]
    /\ opc \in {"drop", "dropped"} => tpc[q] = "idle"

\* Every step keeps each thief's view of the element it wants up to date.
LEMMA ThievesStep == IInv /\ [Next]_vars => ThievesAgree'
  <1> SUFFICES ASSUME IInv, [Next]_vars, NEW q \in Thieves PROVE Agrees(q)'
    BY DEF ThievesAgree, Agrees
  <1>0. /\ head \in Nat /\ tail \in Nat /\ ot \in Nat /\ oh \in Nat
        /\ oleft \in 0 .. CAP /\ orest \in 0 .. CAP
        /\ th[q] \in Nat /\ CAP \in Nat /\ CAP = SLOT_LENGTH - 1
    BY SlotLengthAssumption DEF IInv, TypeOK, CAP
  <1>i. Indices /\ Agrees(q)
    BY DEF IInv, ThievesAgree, Agrees
  <1>1. CASE PopLoadHead
    BY <1>1, <1>0, <1>i DEF PopLoadHead, tvars, Indices, Agrees, Bottom, Empty
  <1>2. CASE PopStoreTail
    BY <1>2, <1>0, <1>i DEF PopStoreTail, tvars, Indices, Agrees, Bottom, Empty
  <1>3. CASE PopReloadHead
    BY <1>3, <1>0, <1>i DEF PopReloadHead, tvars, Indices, Agrees, Bottom, Empty
  <1>4. CASE PopRead
    BY <1>4, <1>0, <1>i DEF PopRead, tvars, Indices, Agrees, Bottom, Empty
  <1>5. CASE PopRestoreWon
    BY <1>5, <1>0, <1>i DEF PopRestoreWon, tvars, Indices, Agrees, Bottom, Empty
  <1>6. CASE PopRestoreLost
    BY <1>6, <1>0, <1>i DEF PopRestoreLost, tvars, Indices, Agrees, Bottom, Empty
  <1>7. CASE StealGlobal
    BY <1>7, <1>0, <1>i DEF StealGlobal, tvars, Indices, Agrees, Bottom, Empty
  <1>8. CASE StealWorkerBegin
    BY <1>8, <1>0, <1>i DEF StealWorkerBegin, tvars, Indices, Agrees, Bottom, Empty
  <1>9. CASE StealWorkerRound
    BY <1>9, <1>0, <1>i DEF StealWorkerRound, tvars, Indices, Agrees, Bottom, Empty
  <1>10. CASE StealWorkerEnd
    BY <1>10, <1>0, <1>i DEF StealWorkerEnd, tvars, Indices, Agrees, Bottom, Empty
  <1>11. CASE PushPublish
    BY <1>11, <1>0, <1>i DEF PushPublish, tvars, Indices, Agrees, Bottom, Empty
  <1>12. CASE DropEnd
    BY <1>12, <1>0, <1>i DEF DropEnd, tvars, Indices, Agrees, Bottom, Empty
  <1>13. CASE PopHandoff
    BY <1>13, <1>0, <1>i DEF PopHandoff, tvars, Indices, Agrees, Bottom
  <1>14. CASE PopClaimLast
    BY <1>14, <1>0, <1>i DEF PopClaimLast, tvars, Indices, Agrees, Bottom
  <1>15. CASE PushWrite
    <2>1. head < Bottom => slots'[Slot(head)] = slots[Slot(head)]
      <3> SUFFICES ASSUME head < Bottom PROVE Slot(head) # Slot(ot)
        BY <1>15 DEF PushWrite
      <3>1. head \in head .. ot - 1
        BY <1>15, <1>0, <1>i DEF PushWrite, Indices, Bottom
      <3> QED BY <1>15, <3>1, WriteClear DEF PushWrite
    <2> QED BY <1>15, <2>1, <1>0, <1>i DEF PushWrite, tvars, Agrees, Bottom
  <1>16. CASE DropBegin
    BY <1>16, <1>0, <1>i DEF DropBegin, ovars, tvars, Agrees
  <1>17. CASE DropOne
    BY <1>17, <1>0, <1>i DEF DropOne, ovars, tvars, Agrees
  <1>18. ASSUME NEW p \in Thieves, Steal(p) PROVE Agrees(q)'
    <2>1. CASE p # q /\ ~StealCas(p)
      <3>1. /\ UNCHANGED <<head, tail, slots, ovars>>
            /\ tpc'[q] = tpc[q] /\ th'[q] = th[q] /\ tval'[q] = tval[q]
        BY <1>18, <2>1 DEF IInv, TypeOK, Steal, StealLoadHead, StealLoadTail,
                           StealPeek, StealRetry, LenLoadHead, LenLoadTail
      <3> QED BY <3>1, <1>i DEF ovars, Agrees, Bottom
    <2>2. CASE StealCas(p)
      <3>1. /\ head' = head + 1 /\ UNCHANGED <<tail, slots, ovars>>
            /\ tpc'[q] \in {"idle", "len", "again"} \/ p # q
            /\ p # q => tpc'[q] = tpc[q] /\ th'[q] = th[q]
            /\ opc \notin {"drop", "dropped"}
        BY <2>2 DEF IInv, TypeOK, ThievesAgree, StealCas
      <3> QED BY <3>1, <1>0, <1>i DEF ovars, Agrees
    <2>3. CASE p = q /\ StealLoadHead(q)
      BY <2>3, <1>0 DEF IInv, TypeOK, StealLoadHead, ovars, Agrees
    <2>4. CASE p = q /\ StealLoadTail(q)
      <3>1. /\ UNCHANGED <<head, tail, slots, ovars, th, tval>>
            /\ tpc[q] = "loaded"
            /\ \/ tpc'[q] = "idle"
               \/ tpc'[q] = "peek" /\ ~Empty(th[q], tail)
        BY <2>4 DEF IInv, TypeOK, StealLoadTail
      <3>2. th[q] \in Nat
        BY DEF IInv, TypeOK
      <3>3. ~Empty(th[q], tail) /\ th[q] = head => head < tail
        BY <3>2, <1>0, SlotLengthAssumption DEF Empty, CAP
      <3>4. tail <= Bottom
        BY <1>0, <1>i DEF Bottom, Indices
      <3> QED BY <3>1, <3>2, <3>3, <3>4, <1>0, <1>i DEF ovars, Agrees, Bottom
    <2>5. CASE p = q /\ StealPeek(q)
      <3>1. th[q] = head =>
               ~(opc = "write" /\ oleft > 0 /\ Slot(ot) = Slot(th[q]))
        <4> SUFFICES ASSUME th[q] = head, opc = "write", oleft > 0
                     PROVE  Slot(ot) # Slot(head)
          OBVIOUS
        <4>1. head \in head .. ot - 1
          BY <2>5, <1>0, <1>i DEF StealPeek, Indices, Agrees, Bottom
        <4> QED BY <4>1, WriteClear
      <3>2. tpc' = [tpc EXCEPT ![q] = "cas"] /\ UNCHANGED <<head, tail, slots, ovars, th>>
        BY <2>5 DEF StealPeek
      <3>3. th[q] = head => tval'[q] = slots[Slot(head)]
        BY <2>5, <3>1 DEF StealPeek, IInv, TypeOK
      <3>4. tpc[q] = "peek"
        BY <2>5 DEF StealPeek
      <3> QED BY <3>2, <3>3, <3>4, <1>i DEF ovars, Agrees, Bottom, IInv, TypeOK
    <2>6. CASE p = q /\ (StealRetry(q) \/ LenLoadHead(q) \/ LenLoadTail(q))
      <3>1. UNCHANGED <<head, ovars>> /\ tpc'[q] \in {"again", "len2", "idle"}
        BY <2>6 DEF StealRetry, LenLoadHead, LenLoadTail, IInv, TypeOK
      <3>2. opc \notin {"drop", "dropped"}
        BY <2>6, <1>i DEF StealRetry, LenLoadHead, LenLoadTail, Agrees
      <3> QED BY <3>1, <3>2 DEF ovars, Agrees
    <2> QED BY <1>18, <2>1, <2>2, <2>3, <2>4, <2>5, <2>6 DEF Steal
  <1>19. CASE UNCHANGED vars
    BY <1>19, <1>i DEF vars, Agrees, Bottom
  <1> QED
    BY <1>1, <1>2, <1>3, <1>4, <1>5, <1>6, <1>7, <1>8, <1>9, <1>10, <1>11,
       <1>12, <1>13, <1>14, <1>15, <1>16, <1>17, <1>18, <1>19
       DEF Next, Pop, Refill, Drop
-----------------------------------------------------------------------------
(***************************************************************************)
(* The tasks: what every step does to the stored ones and to the counters. *)
(***************************************************************************)

Tasks == Contents /\ Untouched /\ ExactlyOnce /\ NoTaskLost

\* A step that neither hands out nor stores a task.
LEMMA SameStored ==
    ASSUME Tasks, Stored' = Stored, UNCHANGED <<slots, taken, next>>,
           \A i \in Written' : slots[Slot(i)] = next + oleft' + (ot' - 1 - i)
    PROVE  Tasks'
  <1>1. Contents'
    BY DEF Tasks, Contents
  <1>2. Untouched' /\ ExactlyOnce' /\ NoTaskLost'
    BY DEF Tasks, Untouched, ExactlyOnce, NoTaskLost
  <1> QED BY <1>1, <1>2 DEF Tasks

\* A step that hands out one stored task: a pop, a steal or a drop.
LEMMA TakeStored ==
    ASSUME TypeOK, Tasks, NEW k \in Stored, Stored \subseteq Nat,
           Stored' = Stored \ {k},
           Take(slots[Slot(k)]), UNCHANGED <<slots, next>>,
           \A i \in Written' : slots[Slot(i)] = next + oleft' + (ot' - 1 - i)
    PROVE  Tasks'
  <1> DEFINE v == slots[Slot(k)]
  <1>1. v \in 1 .. next - 1 /\ taken[v] = 0
    BY DEF Tasks, Contents
  <1>2. v \in 0 .. MaxTasks /\ next \in Nat /\ MaxTasks \in Nat
        /\ taken \in [0 .. MaxTasks -> Nat]
    BY <1>1, SlotTyped, MaxTasksAssumption, SMTT(20) DEF TypeOK
  <1>3. /\ taken'[v] = 1
        /\ \A t \in 0 .. MaxTasks : t # v => taken'[t] = taken[t]
    BY <1>1, <1>2 DEF Take
  <1>4. Contents'
    <2>1. ASSUME NEW i \in Stored'
          PROVE  /\ slots[Slot(i)] \in 1 .. next - 1
                 /\ taken'[slots[Slot(i)]] = 0
      <3>1. slots[Slot(i)] # v /\ slots[Slot(i)] \in 1 .. next - 1
            /\ taken[slots[Slot(i)]] = 0
        BY <2>1 DEF Tasks, Contents
      <3>2. slots[Slot(i)] \in 0 .. MaxTasks
        BY SlotTyped
      <3> QED BY <3>1, <3>2, <1>3
    <2>2. \A i \in Stored', j \in Stored' : i # j => slots[Slot(i)] # slots[Slot(j)]
      BY DEF Tasks, Contents
    <2> QED BY <2>1, <2>2 DEF Contents
  <1>5. Untouched'
    BY <1>1, <1>2, <1>3 DEF Tasks, Untouched
  <1>6. ExactlyOnce'
    <2>1. taken'[Torn] = 0
      BY <1>1, <1>2, <1>3 DEF Tasks, ExactlyOnce, Torn
    <2>2. ASSUME NEW t \in Task PROVE taken'[t] <= 1
      BY <1>2, <1>3 DEF Tasks, ExactlyOnce, Task
    <2> QED BY <2>1, <2>2 DEF ExactlyOnce
  <1>7. NoTaskLost'
    <2> SUFFICES ASSUME NEW t \in 1 .. next - 1, taken'[t] # 1
                 PROVE  \E i \in Stored' : slots[Slot(i)] = t
      BY DEF NoTaskLost
    <2>1. t \in 0 .. MaxTasks /\ t # v
      BY <1>2, <1>3 DEF TypeOK
    <2>2. PICK i \in Stored : slots[Slot(i)] = t
      BY <2>1, <1>3 DEF Tasks, NoTaskLost
    <2>3. i \in Stored'
      BY <2>1, <2>2
    <2> QED BY <2>2, <2>3
  <1> QED BY <1>4, <1>5, <1>6, <1>7 DEF Tasks
\* push and push_many: the slot written holds no stored or written task.
LEMMA PushWriteTasks == IInv /\ PushWrite => Tasks'
  <1> SUFFICES ASSUME IInv, PushWrite PROVE Tasks'
    OBVIOUS
  <1>0. /\ head \in Nat /\ tail \in Nat /\ ot \in Nat /\ next \in Nat
        /\ oleft \in Nat /\ opc = "write" /\ oleft > 0
        /\ head <= tail /\ tail <= ot
        /\ slots \in [0 .. SLOT_LENGTH - 1 -> 0 .. MaxTasks]
    BY DEF IInv, TypeOK, Indices, PushWrite, Bottom
  <1>1. Stored = head .. tail - 1 /\ Stored' = Stored
    BY <1>0 DEF PushWrite, Stored, Live, Held, Bottom
  <1>2. Written = tail .. ot - 1 /\ Written' = tail .. ot
    BY <1>0 DEF PushWrite, Written
  <1>3. ASSUME NEW i \in head .. ot - 1 PROVE slots'[Slot(i)] = slots[Slot(i)]
    <2>1. Slot(i) # Slot(ot)
      BY <1>0, <1>3, WriteClear
    <2>2. Slot(i) \in 0 .. SLOT_LENGTH - 1
      <3>1. i \in Nat
        BY <1>0, <1>3
      <3> QED BY <3>1, SlotInRange
    <2> QED BY <2>1, <2>2, <1>0 DEF PushWrite
  <1>4. slots'[Slot(ot)] = next + oleft - 1
    <2>1. Slot(ot) \in 0 .. SLOT_LENGTH - 1
      BY <1>0, SlotInRange
    <2> QED BY <2>1, <1>0 DEF PushWrite
  <1>5. \A i \in Stored : slots'[Slot(i)] = slots[Slot(i)]
    BY <1>0, <1>1, <1>3
  <1>6. Contents'
    <2>1. \A i \in Written' : slots'[Slot(i)] = next + oleft' + (ot' - 1 - i)
      <3>0. oleft' = oleft - 1 /\ ot' = ot + 1
        BY DEF PushWrite
      <3> SUFFICES ASSUME NEW i \in tail .. ot
                   PROVE  slots'[Slot(i)] = next + oleft' + (ot' - 1 - i)
        BY <1>2
      <3>1. CASE i = ot
        BY <3>0, <3>1, <1>4, <1>0
      <3>2. CASE i # ot
        <4>1. i \in tail .. ot - 1 /\ i \in head .. ot - 1
          BY <3>2, <1>0
        <4>2. slots[Slot(i)] = next + oleft + (ot - 1 - i)
          BY <4>1, <1>2 DEF IInv, Contents
        <4>3. slots'[Slot(i)] = slots[Slot(i)]
          BY <4>1, <1>3
        <4> QED BY <4>1, <4>2, <4>3, <3>0, <1>0
      <3> QED BY <3>1, <3>2
    <2>2. next' = next /\ taken' = taken
      BY DEF PushWrite
    <2> QED BY <2>1, <2>2, <1>1, <1>5 DEF IInv, Contents
  <1>7. Untouched' /\ ExactlyOnce'
    BY DEF IInv, PushWrite, Untouched, ExactlyOnce
  <1>8. NoTaskLost'
    BY <1>1, <1>5 DEF IInv, PushWrite, NoTaskLost
  <1> QED BY <1>6, <1>7, <1>8 DEF Tasks

\* The store of tail turns the written slots into stored ones.
LEMMA PushPublishTasks == IInv /\ PushPublish => Tasks'
  <1> SUFFICES ASSUME IInv, PushPublish PROVE Tasks'
    OBVIOUS
  <1>0. /\ head \in Nat /\ tail \in Nat /\ ot \in Nat /\ next \in Nat
        /\ next >= 1 /\ opc = "write" /\ oleft = 0 /\ head <= tail /\ tail <= ot
        /\ next + (ot - tail) <= MaxTasks + 1 /\ MaxTasks \in Nat
        /\ taken \in [0 .. MaxTasks -> Nat]
    BY MaxTasksAssumption DEF IInv, TypeOK, Indices, PushPublish, Bottom
  <1>1. /\ Stored = head .. tail - 1 /\ Written = tail .. ot - 1
        /\ Stored' = head .. ot - 1 /\ Written' = {}
        /\ next' = next + (ot - tail) /\ UNCHANGED <<slots, taken>>
    BY <1>0 DEF PushPublish, Stored, Live, Held, Bottom, Written
  <1>2. ASSUME NEW i \in tail .. ot - 1
        PROVE  /\ slots[Slot(i)] = next + (ot - 1 - i)
               /\ slots[Slot(i)] \in next .. next' - 1
               /\ taken[slots[Slot(i)]] = 0
    <2>1. slots[Slot(i)] = next + (ot - 1 - i)
      BY <1>0, <1>1 DEF IInv, Contents
    <2>2. next + (ot - 1 - i) \in next .. MaxTasks
          /\ next + (ot - 1 - i) \in next .. next' - 1
      BY <1>0, <1>1
    <2> QED BY <2>1, <2>2 DEF IInv, Untouched
  <1>3. ASSUME NEW i \in head .. tail - 1
        PROVE  slots[Slot(i)] \in 1 .. next - 1 /\ taken[slots[Slot(i)]] = 0
    BY <1>1, <1>3 DEF IInv, Contents
  <1>4. ASSUME NEW i \in Stored', NEW j \in Stored', i # j
        PROVE  slots[Slot(i)] # slots[Slot(j)]
    <2>1. CASE i \in head .. tail - 1 /\ j \in head .. tail - 1
      BY <2>1, <1>1, <1>4 DEF IInv, Contents
    <2>2. CASE i \in tail .. ot - 1 /\ j \in tail .. ot - 1
      BY <2>2, <1>2, <1>4, <1>0
    <2>3. CASE i \in head .. tail - 1 /\ j \in tail .. ot - 1
      BY <2>3, <1>2, <1>3, <1>0
    <2>4. CASE i \in tail .. ot - 1 /\ j \in head .. tail - 1
      BY <2>4, <1>2, <1>3, <1>0
    <2> QED BY <2>1, <2>2, <2>3, <2>4, <1>0, <1>1
  <1>5. ASSUME NEW i \in Stored'
        PROVE  slots[Slot(i)] \in 1 .. next' - 1 /\ taken[slots[Slot(i)]] = 0
    <2>1. CASE i \in head .. tail - 1
      BY <2>1, <1>3, <1>0, <1>1
    <2>2. CASE i \in tail .. ot - 1
      BY <2>2, <1>2, <1>0, <1>1
    <2> QED BY <2>1, <2>2, <1>0, <1>1
  <1>6. Contents'
    BY <1>1, <1>4, <1>5 DEF Contents
  <1>7. Untouched' /\ ExactlyOnce'
    BY <1>0, <1>1 DEF IInv, Untouched, ExactlyOnce
  <1>8. NoTaskLost'
    <2> SUFFICES ASSUME NEW t \in 1 .. next' - 1
                 PROVE  taken[t] = 1 \/ \E i \in Stored' : slots[Slot(i)] = t
      BY <1>1 DEF NoTaskLost
    <2>1. CASE t < next
      <3>1. t \in 1 .. next - 1
        BY <2>1, <1>0, <1>1
      <3>2. Stored \subseteq Stored'
        BY <1>0, <1>1
      <3> QED BY <3>1, <3>2 DEF IInv, NoTaskLost
    <2>2. CASE t >= next
      <3> DEFINE k == ot - 1 - (t - next)
      <3>1. k \in tail .. ot - 1 /\ k \in Stored'
        BY <2>2, <1>0, <1>1
      <3>2. slots[Slot(k)] = next + (ot - 1 - k)
        BY <3>1, <1>2
      <3>3. slots[Slot(k)] = t
        BY <3>2, <1>0, <1>1
      <3> QED BY <3>1, <3>3
    <2> QED BY <2>1, <2>2, <1>0, <1>1
  <1> QED BY <1>6, <1>7, <1>8 DEF Tasks
\* Every step hands out at most one task, a stored one, and stores only new
\* ones.
LEMMA TasksStep == IInv /\ [Next]_vars => Tasks'
  <1> SUFFICES ASSUME IInv, [Next]_vars PROVE Tasks'
    OBVIOUS
  <1>0. /\ head \in Nat /\ tail \in Nat /\ ot \in Nat /\ oh \in Nat
        /\ oleft \in Nat /\ TypeOK /\ Tasks
        /\ CAP \in Nat
    BY SlotLengthAssumption DEF IInv, TypeOK, Tasks, CAP
  <1>i. Indices
    BY DEF IInv
  <1>w. \A i \in Written : slots[Slot(i)] = next + oleft + (ot - 1 - i)
    BY DEF IInv, Contents
  <1>n. Stored \subseteq Nat
    BY <1>0, <1>i DEF Stored, Live, Held, Bottom, Indices
  <1>1. CASE PopLoadHead
    <2>1. UNCHANGED <<slots, taken, next>>
      BY <1>1 DEF PopLoadHead
    <2>2. Stored' = Stored /\ Written' = {}
      BY <1>1, <1>0, <1>i DEF PopLoadHead, Stored, Live, Held, Bottom, Written, Indices
    <2> QED BY <1>0, <2>1, <2>2, SameStored
  <1>2. CASE PopStoreTail
    <2>1. UNCHANGED <<slots, taken, next>>
      BY <1>2 DEF PopStoreTail
    <2>2. Stored' = Stored /\ Written' = {}
      BY <1>2, <1>0, <1>i DEF PopStoreTail, Stored, Live, Held, Bottom, Written, Indices
    <2> QED BY <1>0, <2>1, <2>2, SameStored
  <1>3. CASE PopReloadHead
    <2>1. UNCHANGED <<slots, taken, next>>
      BY <1>3 DEF PopReloadHead
    <2>2. Stored' = Stored /\ Written' = {}
      BY <1>3, <1>0, <1>i DEF PopReloadHead, Stored, Live, Held, Bottom, Written, Indices, Empty
    <2> QED BY <1>0, <2>1, <2>2, SameStored
  <1>4. CASE PopRestoreLost
    <2>1. UNCHANGED <<slots, taken, next>>
      BY <1>4 DEF PopRestoreLost
    <2>2. Stored' = Stored /\ Written' = {}
      BY <1>4, <1>0, <1>i DEF PopRestoreLost, Stored, Live, Held, Bottom, Written, Indices
    <2> QED BY <1>0, <2>1, <2>2, SameStored
  <1>5. CASE PopHandoff
    <2>1. UNCHANGED <<slots, taken, next>>
      BY <1>5 DEF PopHandoff
    <2>2. Stored' = Stored /\ Written' = {}
      BY <1>5, <1>0, <1>i DEF PopHandoff, Stored, Live, Held, Bottom, Written, Indices
    <2> QED BY <1>0, <2>1, <2>2, SameStored
  <1>6. CASE StealWorkerBegin
    <2>1. UNCHANGED <<slots, taken, next>>
      BY <1>6 DEF StealWorkerBegin
    <2>2. Stored' = Stored /\ Written' = {}
      BY <1>6, <1>0, <1>i DEF StealWorkerBegin, Stored, Live, Held, Bottom, Written, Indices
    <2> QED BY <1>0, <2>1, <2>2, SameStored
  <1>7. CASE StealWorkerEnd
    <2>1. UNCHANGED <<slots, taken, next>>
      BY <1>7 DEF StealWorkerEnd
    <2>2. Stored' = Stored /\ Written' = {}
      BY <1>7, <1>0, <1>i DEF StealWorkerEnd, Stored, Live, Held, Bottom, Written, Indices
    <2> QED BY <1>0, <2>1, <2>2, SameStored
  <1>8. CASE StealGlobal
    <2>1. UNCHANGED <<slots, taken, next>>
      BY <1>8 DEF StealGlobal
    <2>2. Stored' = Stored /\ Written' = {}
      BY <1>8, <1>0, <1>i DEF StealGlobal, Stored, Live, Held, Bottom, Written, Indices
    <2> QED BY <1>0, <2>1, <2>2, SameStored
  <1>9. CASE StealWorkerRound
    <2>1. UNCHANGED <<slots, taken, next>>
      BY <1>9 DEF StealWorkerRound
    <2>2. Stored' = Stored /\ Written' = {}
      BY <1>9, <1>0, <1>i DEF StealWorkerRound, Stored, Live, Held, Bottom, Written, Indices
    <2> QED BY <1>0, <2>1, <2>2, SameStored
  <1>10. CASE DropBegin
    <2>1. UNCHANGED <<slots, taken, next>>
      BY <1>10 DEF DropBegin
    <2>2. Stored' = Stored /\ Written' = {}
      BY <1>10, <1>0, <1>i DEF DropBegin, Stored, Live, Held, Bottom, Written, Indices
    <2> QED BY <1>0, <2>1, <2>2, SameStored
  <1>11. CASE DropEnd
    <2>1. UNCHANGED <<slots, taken, next>>
      BY <1>11 DEF DropEnd
    <2>2. Stored' = Stored /\ Written' = {}
      BY <1>11, <1>0, <1>i DEF DropEnd, Stored, Live, Held, Bottom, Written, Indices
    <2> QED BY <1>0, <2>1, <2>2, SameStored
  <1>12. CASE PopRead
    <2>1. Take(slots[Slot(tail)]) /\ UNCHANGED <<slots, next>>
      BY <1>12 DEF PopRead
    <2>2. tail \in Stored /\ Stored' = Stored \ {tail} /\ Written' = {}
      BY <1>12, <1>0, <1>i DEF PopRead, Stored, Live, Held, Bottom, Written, Indices
    <2> QED BY <1>0, <1>n, <2>1, <2>2, TakeStored
  <1>13. CASE PopRestoreWon
    <2>1. Take(slots[Slot(tail)]) /\ UNCHANGED <<slots, next>>
      BY <1>13 DEF PopRestoreWon
    <2>2. tail \in Stored /\ Stored' = Stored \ {tail} /\ Written' = {}
      BY <1>13, <1>0, <1>i DEF PopRestoreWon, Stored, Live, Held, Bottom, Written, Indices
    <2> QED BY <1>0, <1>n, <2>1, <2>2, TakeStored
  <1>14. CASE PopClaimLast
    <2>1. CASE head = oh
      <3>1. Take(slots[Slot(oh)]) /\ UNCHANGED <<slots, next>>
        BY <1>14, <2>1 DEF PopClaimLast
      <3>2. oh \in Stored /\ Stored' = Stored \ {oh} /\ Written' = {}
        BY <1>14, <2>1, <1>0, <1>i DEF PopClaimLast, Stored, Live, Held, Bottom, Written, Indices
      <3> QED BY <1>0, <1>n, <3>1, <3>2, TakeStored
    <2>2. CASE head # oh
      <3>1. UNCHANGED <<slots, taken, next>>
        BY <1>14, <2>2 DEF PopClaimLast
      <3>2. Stored' = Stored /\ Written' = {}
        BY <1>14, <2>2, <1>0 DEF PopClaimLast, Stored, Live, Held, Bottom, Written
      <3> QED BY <1>0, <3>1, <3>2, SameStored
    <2> QED BY <2>1, <2>2
  <1>15. CASE DropOne
    <2>1. Take(slots[Slot(head)]) /\ UNCHANGED <<slots, next>>
      BY <1>15 DEF DropOne, ovars
    <2>2. head \in Stored /\ Stored' = Stored \ {head} /\ Written' = {}
      BY <1>15, <1>0, <1>i DEF DropOne, ovars, Stored, Live, Held, Bottom, Written, Indices
    <2> QED BY <1>0, <1>n, <2>1, <2>2, TakeStored
  <1>16. CASE PushWrite
    BY <1>16, PushWriteTasks
  <1>17. CASE PushPublish
    BY <1>17, PushPublishTasks
  <1>18. ASSUME NEW p \in Thieves, StealCas(p) PROVE Tasks'
    <2>1. /\ head < Bottom /\ Take(slots[Slot(head)])
          /\ opc \notin {"drop", "dropped"}
      BY <1>18 DEF IInv, ThievesAgree, StealCas
    <2>2. head' = head + 1 /\ UNCHANGED <<tail, slots, ovars>>
      BY <1>18 DEF StealCas
    <2>3. Written' = Written /\ oleft' = oleft /\ ot' = ot /\ next' = next
      BY <2>2 DEF ovars, Written
    <2>4. head \in Stored /\ Stored' = Stored \ {head}
      BY <2>1, <2>2, <1>0, <1>i DEF ovars, Stored, Live, Held, Bottom, Indices
    <2> QED BY <1>0, <1>n, <1>w, <2>1, <2>2, <2>3, <2>4, TakeStored
  <1>19. CASE UNCHANGED <<head, tail, slots, ovars, taken>>
    <2>1. UNCHANGED <<slots, taken, next, oleft, ot>>
      BY <1>19 DEF ovars
    <2>2. Stored' = Stored /\ Written' = Written
      BY <1>19 DEF ovars, Stored, Live, Held, Bottom, Written
    <2> QED BY <1>0, <1>w, <2>1, <2>2, SameStored
  <1>20. ASSUME NEW p \in Thieves, Steal(p), ~StealCas(p) PROVE Tasks'
    <2>1. UNCHANGED <<head, tail, slots, ovars, taken>>
      BY <1>20 DEF Steal, StealLoadHead, StealLoadTail, StealPeek, StealRetry,
                   LenLoadHead, LenLoadTail
    <2> QED BY <2>1, <1>19
  <1>21. CASE UNCHANGED vars
    BY <1>21, <1>19 DEF vars, ovars
  <1> QED
    BY <1>1, <1>2, <1>3, <1>4, <1>5, <1>6, <1>7, <1>8, <1>9, <1>10, <1>11,
       <1>12, <1>13, <1>14, <1>15, <1>16, <1>17, <1>18, <1>20, <1>21
       DEF Next, Pop, Refill, Drop

-----------------------------------------------------------------------------
(***************************************************************************)
(* The theorems.                                                           *)
(***************************************************************************)

\* A new deque satisfies the invariant (LocalDeque::new).
LEMMA InitIInv == Init => IInv
  <1> SUFFICES ASSUME Init PROVE IInv
    OBVIOUS
  <1> USE SlotLengthAssumption, MaxTasksAssumption
  <1>1. TypeOK
    BY DEF Init, TypeOK, OwnerPC, ThiefPC, CAP, Torn
  <1>2. Indices /\ ThievesAgree
    BY DEF Init, Indices, ThievesAgree, Bottom, CAP
  <1>3. Stored = {} /\ Written = {}
    BY DEF Init, Stored, Live, Held, Bottom, Written
  <1>4. Contents /\ Untouched /\ ExactlyOnce /\ NoTaskLost
    BY <1>3 DEF Init, Contents, Untouched, ExactlyOnce, NoTaskLost, Task, Torn
  <1> QED BY <1>1, <1>2, <1>4 DEF IInv

\* IInv is an inductive invariant of the deque.
THEOREM DequeInvariant == Spec => []IInv
  <1>1. IInv /\ [Next]_vars => IInv'
    BY TypeStep, IndicesStep, ThievesStep, TasksStep DEF IInv, Tasks
  <1> QED BY <1>1, InitIInv, PTL DEF Spec

\* Type correctness of the deque and of its callers' local state.
THEOREM DequeTypes == Spec => []TypeOK
  BY DequeInvariant, PTL DEF IInv

\* No task is handed out twice and no torn slot is handed out, whatever the
\* ring length, the number of thieves and their interleaving with the owner.
THEOREM DequeExactlyOnce == Spec => []ExactlyOnce
  BY DequeInvariant, PTL DEF IInv

\* No task that was pushed disappears.
THEOREM DequeNoTaskLost == Spec => []NoTaskLost
  BY DequeInvariant, PTL DEF IInv

\* The contract push and push_many leave to their callers is kept: a pop that
\* returned None leaves the deque empty until the refill, and no write of the
\* refill meets a live or an already written slot.
THEOREM DequeNeverFull == Spec => []NeverFull
  <1>1. IInv => NeverFull
    <2> SUFFICES ASSUME IInv PROVE NeverFull
      OBVIOUS
    <2>1. opc = "none" => head = tail
      BY DEF IInv, Indices
    <2>2. ASSUME opc = "write", oleft > 0, NEW i \in Live \cup Written
          PROVE  Slot(i) # Slot(ot)
      <3>1. /\ head \in Nat /\ tail \in Nat /\ ot \in Nat
            /\ head <= tail /\ tail <= ot
        BY <2>2 DEF IInv, TypeOK, Indices, Bottom
      <3>2. i \in head .. ot - 1
        BY <2>2, <3>1 DEF Live, Written, Bottom
      <3> QED BY <2>2, <3>2, WriteClear
    <2> QED BY <2>1, <2>2 DEF NeverFull
  <1> QED BY <1>1, DequeInvariant, PTL
=============================================================================
