----------------------------- MODULE LocalDeque -----------------------------
(***************************************************************************)
(* The bounded Chase-Lev deque of zlim-task (platform/multi/local_deque.rs)*)
(* and the way its owner and its thieves drive it (platform/multi/         *)
(* executors.rs): the owner refills the deque only after a `pop` returned  *)
(* None, and neither `push` nor `push_many` checks the capacity.           *)
(*                                                                         *)
(* One action is one atomic access to `head` or `tail`, or one access to a *)
(* slot.  The accesses are interleaved sequentially consistently: the      *)
(* SeqCst fence between the store of `tail` and the reload of `head` in    *)
(* `pop`, the SeqCst load of `tail` in `steal` and the SeqCst CASes on     *)
(* `head` forbid the one reordering (store of `tail` after load of `head`) *)
(* the algorithm is sensitive to.  `tail` and the slots are written by the *)
(* owner only, so its own loads of them are not steps of their own.        *)
(*                                                                         *)
(* Indices are naturals: `usize` arithmetic wraps at 2^64, far beyond any  *)
(* run, and what the code uses of the wrapping is that a negative          *)
(* difference is a huge number (see Empty).                                *)
(***************************************************************************)
EXTENDS Integers

CONSTANTS
    Thieves,      \* the threads that may call steal on this deque
    SLOT_LENGTH,  \* ring length (64 in the code, a power of two)
    MaxTasks      \* bound: tasks handed to the owner during one behaviour

ASSUME SlotLengthAssumption == SLOT_LENGTH \in Nat /\ SLOT_LENGTH >= 2
ASSUME MaxTasksAssumption   == MaxTasks \in Nat

CAP == SLOT_LENGTH - 1

Task == 1 .. MaxTasks

\* What a read of an unwritten slot, or one that overlaps a write, returns.
Torn == 0

VARIABLES
    head,    \* next index to steal
    tail,    \* next index to push
    slots,   \* the ring buffer
    opc,     \* where the owner is
    ot,      \* owner's local tail (pop), or its write cursor (push, push_many)
    oh,      \* owner's local copy of head in pop
    oleft,   \* owner: runnables still to be written in this push / push_many
    orest,   \* owner: iterations left in steal_worker_inner
    next,    \* the tasks next .. MaxTasks have not reached the deque yet
    tpc,     \* where each thief is
    th,      \* thief's local copy of head
    tval,    \* the bits a thief read from the slot it wants
    trest,   \* thief: iterations left in steal_worker_inner
    taken    \* how often each value was returned by pop or steal, or dropped

ovars == <<opc, ot, oh, oleft, orest, next>>
tvars == <<tpc, th, tval, trest>>
vars  == <<head, tail, slots, opc, ot, oh, oleft, orest, next,
           tpc, th, tval, trest, taken>>

\* fn slot: the ring index (index & MASK).
Slot(i) == i % SLOT_LENGTH

\* Two ways to get the emptiness test wrong: counting num instead of num - 1,
\* and leaving the last element behind.
EmptyOffByOne(h, t) == t - h \notin 0 .. CAP
EmptyLeavesLast(h, t) == t - (h + 1) \notin 1 .. CAP - 1

\* tail.wrapping_sub(head + 1) >= CAP: nothing to take for someone who read
\* these two indices.  A tail at or behind head wraps to a huge number.
Empty(h, t) == t - (h + 1) \notin 0 .. CAP - 1

\* Runnable handed out: the ghost count the exactly-once property is about.
Take(v) == taken' = [taken EXCEPT ![v] = @ + 1]

Init ==
    /\ head = 0 /\ tail = 0
    /\ slots = [i \in 0 .. SLOT_LENGTH - 1 |-> Torn]
    /\ opc = "pop" /\ ot = 0 /\ oh = 0 /\ oleft = 0 /\ orest = 0 /\ next = 1
    /\ tpc = [p \in Thieves |-> "idle"]
    /\ th = [p \in Thieves |-> 0]
    /\ tval = [p \in Thieves |-> Torn]
    /\ trest = [p \in Thieves |-> 0]
    /\ taken = [v \in 0 .. MaxTasks |-> 0]

-----------------------------------------------------------------------------
(***************************************************************************)
(* pop: the owner's end.                                                   *)
(***************************************************************************)

\* The head load at the top of the loop and the branch it decides: return
\* None, try to move tail back, or claim the last element through head.
PopLoadHead ==
    /\ opc = "pop"
    /\ oh' = head
    /\ opc' = CASE Empty(head, tail)                       -> "none"
                [] ~Empty(head, tail) /\ tail - 1 # head -> "tent"
                [] ~Empty(head, tail) /\ tail - 1 = head -> "last"
    /\ UNCHANGED <<head, tail, slots, ot, oleft, orest, next, tvars, taken>>

\* self.tail.store(new_tail): tentative, `ot` remembers the old tail.
PopStoreTail ==
    /\ opc = "tent"
    /\ tail' = tail - 1
    /\ ot' = tail
    /\ opc' = "reload"
    /\ UNCHANGED <<head, slots, oh, oleft, orest, next, tvars, taken>>

\* The second head load without its test.
PopReloadUnchecked ==
    /\ opc = "reload"
    /\ opc' = "read"
    /\ UNCHANGED <<head, tail, slots, ot, oh, oleft, orest, next, tvars, taken>>

\* The second head load, after the fence.
PopReloadHead ==
    /\ opc = "reload"
    /\ opc' = IF Empty(head, tail) THEN "handoff" ELSE "read"
    /\ UNCHANGED <<head, tail, slots, ot, oh, oleft, orest, next, tvars, taken>>

\* More elements remain: the slot is exclusively the owner's.
PopRead ==
    /\ opc = "read"
    /\ Take(slots[Slot(tail)])
    /\ opc' = "pop"
    /\ UNCHANGED <<head, tail, slots, ot, oh, oleft, orest, next, tvars>>

\* The race given up instead of run.
PopHandoffGivenUp ==
    /\ opc = "handoff"
    /\ opc' = "lost"
    /\ UNCHANGED <<head, tail, slots, ot, oh, oleft, orest, next, tvars, taken>>

\* compare_exchange(new_tail, tail) on head: the race for the last element.
PopHandoff ==
    /\ opc = "handoff"
    /\ \/ head = tail /\ head' = ot /\ opc' = "won"
       \/ head # tail /\ UNCHANGED head /\ opc' = "lost"
    /\ UNCHANGED <<tail, slots, ot, oh, oleft, orest, next, tvars, taken>>

\* The CAS succeeded: restore tail, then read and return the element.
PopRestoreWon ==
    /\ opc = "won"
    /\ tail' = ot
    /\ Take(slots[Slot(tail)])
    /\ opc' = "pop"
    /\ UNCHANGED <<head, slots, ot, oh, oleft, orest, next, tvars>>

\* The restore of tail forgotten.
PopLostNoRestore ==
    /\ opc = "lost"
    /\ opc' = "none"
    /\ UNCHANGED <<head, tail, slots, ot, oh, oleft, orest, next, tvars, taken>>

\* The CAS failed: restore tail, return None.
PopRestoreLost ==
    /\ opc = "lost"
    /\ tail' = ot
    /\ opc' = "none"
    /\ UNCHANGED <<head, slots, ot, oh, oleft, orest, next, tvars, taken>>

\* One element left: read it, compare_exchange(head, tail); retry on failure.
PopClaimLast ==
    /\ opc = "last"
    /\ \/ head = oh /\ head' = tail /\ Take(slots[Slot(oh)])
       \/ head # oh /\ UNCHANGED <<head, taken>>
    /\ opc' = "pop"
    /\ UNCHANGED <<tail, slots, ot, oh, oleft, orest, next, tvars>>

-----------------------------------------------------------------------------
(***************************************************************************)
(* Refilling the empty deque (executors.rs).  `pop` returned None: the     *)
(* owner goes to steal_global, which takes up to CAP runnables beside the  *)
(* one it returns and calls push_many, or to steal_worker_inner, which     *)
(* pushes up to half of a victim's length one by one, or finds nothing.    *)
(***************************************************************************)

\* steal_global collected n runnables; push_many will write them.
StealGlobal ==
    /\ opc = "none"
    /\ \E n \in 1 .. CAP :
          /\ next + n - 1 <= MaxTasks
          /\ oleft' = n
    /\ ot' = tail
    /\ opc' = "write"
    /\ UNCHANGED <<head, tail, slots, oh, orest, next, tvars, taken>>

\* steal_worker_inner with the victim's len >> 1 as its number of rounds.
StealWorkerBegin ==
    /\ opc = "none"
    /\ \E n \in 0 .. CAP \div 2 : orest' = n
    /\ opc' = "inner"
    /\ UNCHANGED <<head, tail, slots, ot, oh, oleft, next, tvars, taken>>

\* One round: the victim had a runnable, which is pushed on this deque.
StealWorkerRound ==
    /\ opc = "inner"
    /\ orest > 0
    /\ next <= MaxTasks
    /\ orest' = orest - 1
    /\ oleft' = 1
    /\ ot' = tail
    /\ opc' = "write"
    /\ UNCHANGED <<head, tail, slots, oh, next, tvars, taken>>

\* The rounds are over, or the victim had nothing left.
StealWorkerEnd ==
    /\ opc = "inner"
    /\ orest' = 0
    /\ opc' = "pop"
    /\ UNCHANGED <<head, tail, slots, ot, oh, oleft, next, tvars, taken>>

\* push and push_many write the slot at the cursor, without a capacity check.
\* push_many pops its buffer from the back: the batch next .. next + n - 1 is
\* written in reverse order.
PushWrite ==
    /\ opc = "write"
    /\ oleft > 0
    /\ slots' = [slots EXCEPT ![Slot(ot)] = next + oleft - 1]
    /\ ot' = ot + 1
    /\ oleft' = oleft - 1
    /\ UNCHANGED <<head, tail, opc, oh, orest, next, tvars, taken>>

\* The release store of tail that publishes everything written.
PushPublish ==
    /\ opc = "write"
    /\ oleft = 0
    /\ tail' = ot
    /\ next' = next + (ot - tail)
    /\ opc' = IF orest > 0 THEN "inner" ELSE "pop"
    /\ UNCHANGED <<head, slots, ot, oh, oleft, orest, tvars, taken>>

-----------------------------------------------------------------------------
(***************************************************************************)
(* steal: any thread's end, and steal_worker_inner seen from the thief.    *)
(***************************************************************************)

StealLoadHead(p) ==
    /\ tpc[p] \in {"idle", "again"}
    /\ opc \notin {"drop", "dropped"}
    /\ th' = [th EXCEPT ![p] = head]
    /\ tpc' = [tpc EXCEPT ![p] = "loaded"]
    /\ UNCHANGED <<head, tail, slots, ovars, tval, trest, taken>>

\* The tail load and the emptiness test; None ends steal_worker_inner too.
StealLoadTail(p) ==
    /\ tpc[p] = "loaded"
    /\ \/ /\ Empty(th[p], tail)
          /\ tpc' = [tpc EXCEPT ![p] = "idle"]
          /\ trest' = [trest EXCEPT ![p] = 0]
       \/ /\ ~Empty(th[p], tail)
          /\ tpc' = [tpc EXCEPT ![p] = "peek"]
          /\ UNCHANGED trest
    /\ UNCHANGED <<head, tail, slots, ovars, th, tval, taken>>

\* The plain read of the slot: if the owner is writing that very slot the
\* bits may be torn.
StealPeek(p) ==
    /\ tpc[p] = "peek"
    /\ \/ tval' = [tval EXCEPT ![p] = slots[Slot(th[p])]]
       \/ /\ opc = "write" /\ oleft > 0 /\ Slot(ot) = Slot(th[p])
          /\ tval' = [tval EXCEPT ![p] = Torn]
    /\ tpc' = [tpc EXCEPT ![p] = "cas"]
    /\ UNCHANGED <<head, tail, slots, ovars, th, trest, taken>>

\* compare_exchange_weak succeeds.  The first success of steal_worker is
\* followed by len; assist_run and a finished round go back to idle.
StealCas(p) ==
    /\ tpc[p] = "cas"
    /\ head = th[p]
    /\ head' = head + 1
    /\ Take(tval[p])
    /\ \/ trest[p] = 0 /\ UNCHANGED trest
          /\ \E pc \in {"idle", "len"} : tpc' = [tpc EXCEPT ![p] = pc]
       \/ /\ trest[p] > 0
          /\ trest' = [trest EXCEPT ![p] = @ - 1]
          /\ tpc' = [tpc EXCEPT ![p] = IF trest[p] = 1 THEN "idle" ELSE "again"]
    /\ UNCHANGED <<tail, slots, ovars, th, tval>>

\* It fails: head has moved, or spuriously.  Retry.
StealRetry(p) ==
    /\ tpc[p] = "cas"
    /\ tpc' = [tpc EXCEPT ![p] = "again"]
    /\ UNCHANGED <<head, tail, slots, ovars, th, tval, trest, taken>>

\* len: two separate loads, the difference masked by CAPACITY.
LenLoadHead(p) ==
    /\ tpc[p] = "len"
    /\ th' = [th EXCEPT ![p] = head]
    /\ tpc' = [tpc EXCEPT ![p] = "len2"]
    /\ UNCHANGED <<head, tail, slots, ovars, tval, trest, taken>>

LenLoadTail(p) ==
    /\ tpc[p] = "len2"
    /\ LET rounds == Slot(tail - th[p]) \div 2
       IN  /\ trest' = [trest EXCEPT ![p] = rounds]
           /\ tpc' = [tpc EXCEPT ![p] = IF rounds = 0 THEN "idle" ELSE "again"]
    /\ UNCHANGED <<head, tail, slots, ovars, th, tval, taken>>

-----------------------------------------------------------------------------
(***************************************************************************)
(* Drop: exclusive access, so the owner is between calls and no thief is   *)
(* inside one.  It drops the live tasks from head up to tail.              *)
(***************************************************************************)

DropBegin ==
    /\ opc \in {"pop", "none"}
    /\ \A p \in Thieves : tpc[p] = "idle"
    /\ opc' = "drop"
    /\ UNCHANGED <<head, tail, slots, ot, oh, oleft, orest, next, tvars, taken>>

DropOne ==
    /\ opc = "drop"
    /\ head # tail
    /\ Take(slots[Slot(head)])
    /\ head' = head + 1
    /\ UNCHANGED <<tail, slots, ovars, tvars>>

DropEnd ==
    /\ opc = "drop"
    /\ head = tail
    /\ opc' = "dropped"
    /\ UNCHANGED <<head, tail, slots, ot, oh, oleft, orest, next, tvars, taken>>

-----------------------------------------------------------------------------
Pop == \/ PopLoadHead \/ PopStoreTail \/ PopReloadHead \/ PopRead \/ PopHandoff
       \/ PopRestoreWon \/ PopRestoreLost \/ PopClaimLast

Refill == \/ StealGlobal \/ StealWorkerBegin \/ StealWorkerRound
          \/ StealWorkerEnd \/ PushWrite \/ PushPublish

Drop == DropBegin \/ DropOne \/ DropEnd

Steal(p) == \/ StealLoadHead(p) \/ StealLoadTail(p) \/ StealPeek(p)
            \/ StealCas(p) \/ StealRetry(p) \/ LenLoadHead(p) \/ LenLoadTail(p)

Next == Pop \/ Refill \/ Drop \/ \E p \in Thieves : Steal(p)

Spec == Init /\ [][Next]_vars

(***************************************************************************)
(* The owner's worker loop never stops calling pop (worker_run), and a     *)
(* Drop that has begun is carried through.  Nothing is assumed of thieves: *)
(* one may be preempted for ever in the middle of a steal.                 *)
(***************************************************************************)
FairSpec == Spec /\ WF_vars(Pop \/ Refill) /\ WF_vars(DropOne \/ DropEnd)

-----------------------------------------------------------------------------
(***************************************************************************)
(* Properties.                                                             *)
(***************************************************************************)

OwnerPC == {"pop", "none", "tent", "last", "reload", "read", "handoff", "won",
            "lost", "inner", "write", "drop", "dropped"}

ThiefPC == {"idle", "again", "loaded", "peek", "cas", "len", "len2"}

\* The type invariant of the deque and of its callers' local state.
TypeOK ==
    /\ head \in Nat /\ tail \in Nat /\ ot \in Nat /\ oh \in Nat
    /\ slots \in [0 .. SLOT_LENGTH - 1 -> 0 .. MaxTasks]
    /\ opc \in OwnerPC
    /\ oleft \in 0 .. CAP /\ orest \in 0 .. CAP
    /\ next \in 1 .. MaxTasks + 1
    /\ tpc \in [Thieves -> ThiefPC]
    /\ th \in [Thieves -> Nat]
    /\ tval \in [Thieves -> 0 .. MaxTasks]
    /\ trest \in [Thieves -> 0 .. CAP]
    /\ taken \in [0 .. MaxTasks -> Nat]

\* The end of the live region: while pop has moved tail back and not yet
\* decided who gets the element, that element still counts.
Bottom == IF opc \in {"reload", "handoff", "won", "lost"} THEN ot ELSE tail

\* Indices of elements that some call still has to return.
Held    == IF opc \in {"read", "won"} THEN {tail} ELSE {}
Written == IF opc = "write" THEN tail .. ot - 1 ELSE {}
Live    == head .. Bottom - 1
Stored  == Live \cup Held

\* Exactly once: pop, steal and Drop together never hand out a task twice
\* and never hand out the bits of an unwritten or half-written slot.
ExactlyOnce ==
    /\ taken[Torn] = 0
    /\ \A t \in Task : taken[t] <= 1

\* No task is lost: whatever was pushed has been returned or is still in a
\* slot that a call will return it from.
NoTaskLost ==
    \A t \in 1 .. next - 1 :
        taken[t] = 1 \/ \E i \in Stored : slots[Slot(i)] = t

\* The contract of push and push_many ("the caller must guarantee the deque
\* is not full", "dst was empty before this call"): when pop has returned
\* None the deque is empty, and every slot write stays clear of the live ones.
NeverFull ==
    /\ opc = "none" => head = tail
    /\ opc = "write" /\ oleft > 0 =>
          \A i \in Live \cup Written : Slot(i) # Slot(ot)

\* Lock freedom: with fairness for the owner alone every task pushed is
\* eventually returned or dropped, whatever the thieves do or leave undone.
EveryTaskTaken ==
    \A t \in Task : (t < next) ~> (taken[t] = 1)

-----------------------------------------------------------------------------
(***************************************************************************)
(* The inductive invariant behind ExactlyOnce, NoTaskLost and NeverFull.   *)
(***************************************************************************)

\* Where head, tail and the owner's local indices stand at each step.
Indices ==
    /\ head <= Bottom /\ Bottom <= head + CAP
    /\ opc \in {"reload", "handoff", "won", "lost"} => ot = tail + 1
    /\ opc = "tent" => tail >= 1
    /\ opc = "handoff" => head >= tail
    /\ opc \in {"won", "lost"} => head = ot
    /\ opc = "last" => oh <= head /\ oh + 1 = tail
    /\ opc = "none" => head = tail
    /\ opc = "read" => tail + 1 <= head + CAP
    /\ opc \notin {"inner", "write"} => orest = 0
    /\ opc = "inner" => tail + orest <= head + CAP
    /\ opc = "write" => /\ tail <= ot /\ ot + oleft + orest <= head + CAP
                        /\ next + oleft + (ot - tail) <= MaxTasks + 1

\* A thief whose CAS can still succeed wants a live element and has read it.
ThievesAgree ==
    \A p \in Thieves :
        /\ tpc[p] \in {"loaded", "peek", "cas"} => th[p] <= head
        /\ tpc[p] \in {"peek", "cas"} /\ th[p] = head => head < Bottom
        /\ tpc[p] = "cas" /\ th[p] = head => tval[p] = slots[Slot(head)]
        /\ opc \in {"drop", "dropped"} => tpc[p] = "idle"

\* The slots that matter hold distinct tasks nobody has been given yet.
Contents ==
    /\ \A i \in Stored : /\ slots[Slot(i)] \in 1 .. next - 1
                        /\ taken[slots[Slot(i)]] = 0
    /\ \A i \in Stored, j \in Stored :
            i # j => slots[Slot(i)] # slots[Slot(j)]
    /\ \A i \in Written : slots[Slot(i)] = next + oleft + (ot - 1 - i)

\* Tasks that have not reached the deque have not been taken.
Untouched == \A t \in next .. MaxTasks : taken[t] = 0

IInv == /\ TypeOK /\ Indices /\ ThievesAgree /\ Contents /\ Untouched
        /\ ExactlyOnce /\ NoTaskLost
=============================================================================
