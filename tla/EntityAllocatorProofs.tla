----------------------- MODULE EntityAllocatorProofs -----------------------
(***************************************************************************)
(* Why the allocator hands no id out twice and loses none, for any number  *)
(* of threads, any width and any sizes of its buffers.                     *)
(*                                                                         *)
(* Every id that was minted has one home: a slot that is in the list or    *)
(* belongs to a call that has popped it, the fresh ids of a call, a buffer *)
(* of the owner, the hands of free, or the world.  A blind pop moves the   *)
(* end of the list into the region of its call, and free writes beyond     *)
(* both.  A remote whose compare-exchange succeeds has seen no pop since   *)
(* it read the word, because the generation counts them; the list can only *)
(* have grown, so that the slot it has read is still the last one.         *)
(***************************************************************************)
EXTENDS EntityAllocator, TLAPS, FiniteSetTheorems

\* The pops that the generation of w has counted.
Pops(w) == IF w.gen = 0 THEN 0 ELSE GENERATIONS - w.gen

\* The slots that are in the list or in the region of a call.
Taken(c, i) == req[c].lo <= i /\ i < req[c].hi
Owned(i) == i < Listed \/ \E c \in Callers : Taken(c, i)

\* The word counts its pops; free owns it while the flag is set.
WordOk ==
    /\ Pops(word) <= ops
    /\ Listed < MAX
    /\ fr.pc = "idle" => fr = NoFree /\ ~word.disabled
    /\ fr.pc = "write" =>
          /\ word = [fr.old EXCEPT !.disabled = TRUE] /\ ~fr.old.disabled
          /\ Length(fr.old) <= fr.at
          /\ \A c \in Callers : req[c].pc = "idle"

\* The regions of the calls are disjoint and beyond the list.
CallsOk ==
    \A c \in Callers :
        /\ req[c].pc = "idle" => req[c] = NoRequest
        /\ req[c].pc = "popped" => req[c].fresh = {} /\ req[c].hi - req[c].lo <= req[c].want
        /\ req[c].lo <= req[c].hi /\ req[c].hi < MAX
        /\ \A i \in Indices : Taken(c, i) => i >= Listed
        /\ \A d \in Callers \ {c} : /\ \A i \in Indices : ~(Taken(c, i) /\ Taken(d, i))
                                    /\ req[c].fresh \cap req[d].fresh = {}

\* What is in those slots are ids, each in one slot.
SlotsOk ==
    \A i \in Indices : Owned(i) =>
        /\ Slot(i) \in Ids
        /\ \A j \in Indices : Owned(j) /\ Slot(j) = Slot(i) => i = j

\* The homes of an id.
InSlot(e) == \E i \in Indices : Owned(i) /\ Slot(i) = e
InFresh(e) == \E c \in Callers : e \in req[c].fresh
InHands(e) == e \in fr.src \/ e \in fr.push
InBuffer(e) == e \in free_buf \/ e \in alloc_buf
Somewhere(e) == InSlot(e) \/ InFresh(e) \/ InHands(e) \/ InBuffer(e) \/ held[e] > 0

\* No id has two.
Apart(e) ==
    /\ InSlot(e) => ~InFresh(e) /\ ~InHands(e) /\ ~InBuffer(e) /\ held[e] = 0
    /\ InFresh(e) => ~InHands(e) /\ ~InBuffer(e) /\ held[e] = 0
    /\ InHands(e) => ~InBuffer(e) /\ held[e] = 0
    /\ InBuffer(e) => held[e] = 0
    /\ ~(e \in fr.src /\ e \in fr.push) /\ ~(e \in free_buf /\ e \in alloc_buf)
    /\ held[e] <= 1

Homes == \A e \in Ids : Apart(e) /\ (Somewhere(e) => e < next)

NoneLost == \A e \in 1 .. next - 1 : Somewhere(e) \/ e \in leaked

\* A remote knows a word that is older or up to date; if nothing has been popped since,
\* the list has only grown, and the slot it has read is the one it would claim.
Current(r) == Pops(rem[r].state) = Pops(word) /\ ~rem[r].state.disabled
RemotesOk ==
    \A r \in Remotes :
        /\ rem[r].pc \in {"loaded", "read"} =>
              /\ Pops(rem[r].state) <= Pops(word)
              /\ Current(r) => rem[r].state.len <= word.len
        /\ rem[r].pc = "read" =>
              /\ ~rem[r].state.disabled /\ Length(rem[r].state) > 0
              /\ Current(r) => rem[r].val = Slot(Length(rem[r].state) - 1)

Inv == /\ WordOk /\ CallsOk /\ SlotsOk /\ Homes /\ held[PLACEHOLDER] = 0
       /\ NoneLost /\ RemotesOk

IInv == TypeOK /\ (~borrowed => Inv)

-----------------------------------------------------------------------------
\* The numbers the widths are made of.
LEMMA Widths ==
    /\ MAX \in Nat /\ MAX > 1 /\ BIAS = MAX + 1
    /\ GENERATIONS \in Nat /\ MaxOps \in Nat /\ MaxOps < GENERATIONS
    /\ MaxCount \in 0 .. MAX /\ LOCAL_SIZE + 1 \in 0 .. MAX
<1>1. BIAS = MAX + 1
  BY AllocAssumption DEF MAX, BIAS
<1> QED
  BY <1>1, AllocAssumption

\* The ids below the next fresh one.
LEMMA IdRange == \A n \in 1 .. MAX : \A e \in 1 .. n - 1 : e \in Ids /\ e < n
  BY Widths DEF Ids

\* The bound on calls leaves room for one more.
LEMMA Room == TypeOK /\ Bounded => ops < MaxOps
<1> SUFFICES ASSUME TypeOK, Bounded PROVE ops < MaxOps
  OBVIOUS
<1> DEFINE busy == {r \in Remotes : rem[r].pc # "idle"}
<1>1. Cardinality(busy) \in Nat
  BY AllocAssumption, FS_Subset, FS_CardinalityType
<1> QED
  BY <1>1, Widths DEF Bounded, TypeOK

\* FreeCountState::pop as long as it does not borrow: the length goes down, what is
\* popped are the last ids of the list, and the generation counts one pop more.
LEMMA PopEffect ==
    ASSUME NEW w \in Words, NEW n \in 0 .. MAX
    PROVE  /\ Pop(w, n) \in Words
           /\ w.len - n >= -BIAS =>
                 /\ Pop(w, n).len = w.len - n /\ Pop(w, n).disabled = w.disabled
                 /\ Length(Pop(w, n)) =
                       IF Length(w) > n THEN Length(w) - n ELSE 0
                 /\ Pops(w) < GENERATIONS - 1 => Pops(Pop(w, n)) = Pops(w) + 1
<1>1. /\ w.len \in -BIAS .. BIAS - 1 /\ w.disabled \in BOOLEAN
      /\ w.gen \in 0 .. GENERATIONS - 1
  BY DEF Words
<1>2. \A g \in 0 .. GENERATIONS - 1 : PrevGen(g) \in 0 .. GENERATIONS - 1
  BY Widths DEF PrevGen
<1>3. CASE w.len - n >= -BIAS
  <2>1. Pop(w, n) = [len |-> w.len - n, disabled |-> w.disabled, gen |-> PrevGen(w.gen)]
    BY <1>3 DEF Pop
  <2>2. Pop(w, n) \in Words
    BY <1>1, <1>2, <1>3, <2>1, Widths DEF Words
  <2>3. Length(Pop(w, n)) = IF Length(w) > n THEN Length(w) - n ELSE 0
    BY <1>1, <2>1, Widths DEF Length
  <2>4. Pops(w) < GENERATIONS - 1 => Pops(Pop(w, n)) = Pops(w) + 1
    BY <1>1, <2>1, Widths DEF Pops, PrevGen
  <2> QED
    BY <2>1, <2>2, <2>3, <2>4
<1>4. CASE w.len - n < -BIAS
  <2> DEFINE g == IF w.disabled THEN PrevGen(w.gen) ELSE PrevGen(PrevGen(w.gen))
  <2>1. Pop(w, n) = [len |-> w.len - n + 2 * BIAS, disabled |-> ~w.disabled, gen |-> g]
    BY <1>1, <1>4, Widths DEF Pop
  <2>2. /\ w.len - n + 2 * BIAS \in -BIAS .. BIAS - 1 /\ (~w.disabled) \in BOOLEAN
        /\ g \in 0 .. GENERATIONS - 1
    BY <1>1, <1>2, <1>4, Widths
  <2> QED
    BY <1>1, <1>4, <2>1, <2>2, Widths DEF Words
<1> QED
  BY <1>1, <1>3, <1>4, Widths

\* The slots of different indices are different places.
LEMMA SlotWrite ==
    ASSUME NEW i \in Indices, NEW e \in Values, slots \in [Addresses -> Values],
           slots' = [slots EXCEPT ![Address(i)] = e]
    PROVE  /\ slots' \in [Addresses -> Values] /\ Slot(i)' = e
           /\ \A j \in Indices : j # i => Slot(j)' = Slot(j)
  BY AddressAssumption DEF Slot, Addresses

\* A slot of the ring holds an id or nothing.
LEMMA SlotType ==
    ASSUME slots \in [Addresses -> Values], NEW i \in Indices
    PROVE  Slot(i) \in Values
  BY DEF Slot, Addresses

\* Slots that hold different ids, all but one of the ids: fewer than there are ids.
LEMMA ListFits ==
    ASSUME NEW n \in Nat, n < MAX, NEW e \in Ids, NEW f \in [1 .. n -> Ids \ {e}],
           \A i, j \in 1 .. n : f[i] = f[j] => i = j
    PROVE  n + 1 < MAX
<1>1. IsFiniteSet(1 .. n) /\ Cardinality(1 .. n) = n
  BY FS_Interval
<1>2. IsFiniteSet(Ids) /\ Cardinality(Ids) = MAX - 1
  BY FS_Interval, Widths DEF Ids
<1>3. IsFiniteSet(Ids \ {e}) /\ Cardinality(Ids \ {e}) = MAX - 2
  BY <1>2, FS_RemoveElement, Widths
<1>4. ~(MAX - 2 < n)
  BY <1>1, <1>3, FS_PigeonHole
<1> QED
  BY <1>4, Widths

\* The least of some numbers exists.
LEMMA Least ==
    ASSUME NEW T \in SUBSET Nat, T # {}
    PROVE  \E m \in T : \A x \in T : m <= x
<1> DEFINE R == {ss \in Nat \X Nat : ss[1] < ss[2]}
<1>1. IsWellFoundedOn(R, Nat)
  BY NatLessThanWellFounded, Zenon DEF OpToRel
<1> HIDE DEF R
<1>2. PICK m \in T : \A x \in T : ~(<<x, m>> \in R)
  BY <1>1, WFMin, Zenon
<1>3. \A x \in T : ~(x < m)
  BY <1>2 DEF R
<1> QED
  BY <1>3

-----------------------------------------------------------------------------
\* A new allocator has handed out no id.
LEMMA InitIInv == Init => IInv
<1> SUFFICES ASSUME Init PROVE IInv
  OBVIOUS
<1>1. TypeOK
  <2>1. Word0 \in Words
    BY Widths DEF Words, Word0
  <2>2. NoRequest \in Requests /\ NoRemote \in RemoteOps /\ NoFree \in Frees
    BY <2>1, Widths DEF Requests, RemoteOps, Frees, NoRequest, NoRemote, NoFree, Values
  <2>3. /\ slots \in [Addresses -> Values] /\ held \in [Values -> Nat]
        /\ req \in [Callers -> Requests] /\ rem \in [Remotes -> RemoteOps]
    BY <2>2 DEF Init, Values
  <2>4. word \in Words /\ fr \in Frees
    BY <2>1, <2>2 DEF Init
  <2>5. is_closed \in BOOLEAN /\ panicked \in BOOLEAN /\ borrowed \in BOOLEAN
    BY DEF Init
  <2>6. next \in 1 .. MAX /\ ops \in 0 .. MaxOps
    BY Widths DEF Init
  <2>7. free_buf \in SUBSET Ids /\ alloc_buf \in SUBSET Ids /\ leaked \in SUBSET Ids
    BY DEF Init
  <2> QED
    BY <2>3, <2>4, <2>5, <2>6, <2>7 DEF TypeOK
<1>2. Listed = 0 /\ \A c \in Callers, i \in Indices : ~Taken(c, i)
  BY Widths DEF Init, Listed, Length, Word0, NoFree, Taken, NoRequest, Indices
<1>3. \A i \in Indices : ~Owned(i)
  BY <1>2, Widths DEF Owned, Indices
<1>4. WordOk
  BY <1>2, Widths DEF Init, WordOk, Pops, Word0, NoFree
<1>5. CallsOk
  BY <1>2, Widths DEF Init, CallsOk, NoRequest
<1>6. SlotsOk /\ RemotesOk
  BY <1>3 DEF SlotsOk, Init, RemotesOk, NoRemote
<1>7. Homes /\ held[PLACEHOLDER] = 0 /\ NoneLost
  BY <1>3, Widths DEF Init, Homes, Apart, Somewhere, InSlot, InFresh, InHands, InBuffer,
     NoneLost, NoRequest, NoFree, Ids, Values, PLACEHOLDER
<1> QED
  BY <1>1, <1>4, <1>5, <1>6, <1>7 DEF IInv, Inv

-----------------------------------------------------------------------------
\* The parts of the invariant, and the types of what the actions read.
LEMMA Parts ==
    ASSUME IInv, ~borrowed
    PROVE  /\ TypeOK /\ WordOk /\ CallsOk /\ SlotsOk /\ Homes /\ NoneLost /\ RemotesOk
           /\ held[PLACEHOLDER] = 0
           /\ word \in Words /\ Listed \in Nat /\ Length(word) \in Nat
           /\ next \in 1 .. MAX /\ ops \in Nat
           /\ \A c \in Callers : req[c] \in Requests
           /\ \A e \in Ids : held[e] \in Nat
<1>1. word \in Words /\ fr \in Frees /\ ops \in Nat
  BY Widths DEF IInv, TypeOK
<1>2. Length(word) \in Nat
  BY <1>1, Widths DEF Length, Words
<1>3. Listed \in Nat
  BY <1>1, <1>2, Widths DEF Listed, Frees
<1>4. \A e \in Ids : held[e] \in Nat
  BY DEF IInv, TypeOK, Values
<1> QED
  BY <1>1, <1>2, <1>3, <1>4 DEF IInv, Inv, TypeOK

\* A pop: the ids it takes leave the list for the region of the call, where they
\* stay in their slots; every remote that has read the word is out of date.
LEMMA PopIInv ==
    ASSUME IInv, ~borrowed, NEW c \in Callers, NEW n \in 0 .. MAX, fr.pc = "idle",
           req[c].pc = "idle", PopList(c, n)
    PROVE  IInv'
<1> DEFINE lo == IF Length(word) > n THEN Length(word) - n ELSE 0
           q == [pc |-> "popped", want |-> n, lo |-> lo, hi |-> Length(word), fresh |-> {}]
<1>0. /\ TypeOK /\ WordOk /\ CallsOk /\ SlotsOk /\ Homes /\ NoneLost /\ RemotesOk
      /\ held[PLACEHOLDER] = 0 /\ word \in Words /\ Length(word) \in Nat
      /\ \A d \in Callers : req[d] \in Requests
  BY Parts
<1>1. /\ ops' = ops + 1 /\ ops < MaxOps
      /\ word' = Pop(word, n) /\ borrowed' = (word.len - n < -BIAS)
      /\ req' = [req EXCEPT ![c] = q]
      /\ UNCHANGED <<slots, next, free_buf, alloc_buf, held, leaked, fr, rem, is_closed,
                     panicked>>
  BY <1>0, Room DEF PopList
<1>2. req[c] = NoRequest /\ Listed = Length(word) /\ Length(word) < MAX
  BY <1>0 DEF CallsOk, WordOk, Listed
<1>3. lo \in Nat /\ lo <= Length(word) /\ Length(word) - lo <= n /\ n \in Nat
  BY <1>0, Widths
<1>4. q \in Requests
  BY <1>0, <1>3 DEF Requests
<1>5. TypeOK'
  <2>1. word' \in Words
    BY <1>0, <1>1, PopEffect
  <2>2. req' \in [Callers -> Requests]
    BY <1>0, <1>1, <1>4 DEF TypeOK
  <2>3. ops' \in 0 .. MaxOps
    BY <1>0, <1>1, Widths DEF TypeOK
  <2>4. borrowed' \in BOOLEAN
    BY <1>1
  <2> QED
    BY <1>0, <1>1, <2>1, <2>2, <2>3, <2>4 DEF TypeOK
<1>6. ASSUME ~borrowed' PROVE Inv'
  <2>1. /\ word'.disabled = word.disabled /\ Length(word') = lo
        /\ Pops(word') = Pops(word) + 1 /\ Pops(word) \in Nat
    <3>1. word.len - n >= -BIAS
      <4>1. ~(word.len - n < -BIAS)
        BY <1>1, <1>6
      <4>2. word.len \in Int
        BY <1>0, Widths DEF Words
      <4> QED
        BY <4>1, <4>2, Widths
    <3>2. Pops(word) \in Nat /\ Pops(word) <= ops
      BY <1>0, Widths DEF WordOk, Pops, Words
    <3>3. Pops(word) < GENERATIONS - 1
      BY <1>0, <1>1, <3>2, Widths DEF TypeOK
    <3> QED
      BY <1>0, <1>1, <3>1, <3>2, <3>3, PopEffect
  <2>2. Listed' = lo
    BY <1>1, <2>1 DEF Listed
  <2>3. /\ \A i \in Indices : Taken(c, i)' <=> lo <= i /\ i < Length(word)
        /\ \A d \in Callers \ {c}, i \in Indices : Taken(d, i)' <=> Taken(d, i)
        /\ \A i \in Indices : ~Taken(c, i)
    BY <1>0, <1>1, <1>2, Widths DEF Taken, NoRequest, TypeOK, Indices
  <2>4. \A i \in Indices : Owned(i)' <=> Owned(i)
    <3> TAKE i \in Indices
    <3>1. i \in Nat
      BY DEF Indices
    <3> QED
      BY <1>0, <1>2, <1>3, <2>2, <2>3, <3>1 DEF Owned
  <2>5. \A i \in Indices : Slot(i)' = Slot(i)
    BY <1>1 DEF Slot
  <2>6. /\ \A d \in Callers : req'[d].fresh = req[d].fresh
        /\ \A d \in Callers \ {c} : req'[d] = req[d]
        /\ req'[c] = q
    BY <1>0, <1>1, <1>2, SMTT(20) DEF TypeOK, NoRequest
  <2>7. WordOk'
    <3>1. Pops(word') <= ops'
      BY <1>0, <1>1, <2>1, Widths DEF WordOk, TypeOK
    <3>2. Listed' < MAX
      BY <1>0, <1>2, <1>3, <2>2, Widths
    <3> QED
      BY <1>0, <1>1, <2>1, <3>1, <3>2 DEF WordOk
  <2>8. CallsOk'
    <3>1. \A d \in Callers \ {c}, i \in Indices : Taken(d, i) => i >= Length(word)
      BY <1>0, <1>2 DEF CallsOk
    <3> SUFFICES ASSUME NEW a \in Callers
                 PROVE  /\ req'[a].pc = "idle" => req'[a] = NoRequest
                        /\ req'[a].pc = "popped" => /\ req'[a].fresh = {}
                                                    /\ req'[a].hi - req'[a].lo <= req'[a].want
                        /\ req'[a].lo <= req'[a].hi /\ req'[a].hi < MAX
                        /\ \A i \in Indices : Taken(a, i)' => i >= Listed'
                        /\ \A d \in Callers \ {a} :
                              /\ \A i \in Indices : ~(Taken(a, i)' /\ Taken(d, i)')
                              /\ req'[a].fresh \cap req'[d].fresh = {}
      BY Zenon DEF CallsOk
    <3>2. CASE a = c
      <4>1. q.fresh = {} /\ q.hi - q.lo <= q.want /\ q.lo <= q.hi /\ q.hi < MAX
        BY <1>2, <1>3
      <4>2. \A i \in Indices : Taken(a, i)' => i >= Listed'
        BY <2>2, <2>3, <3>2
      <4>3. \A d \in Callers \ {a}, i \in Indices : ~(Taken(a, i)' /\ Taken(d, i)')
        <5> SUFFICES ASSUME NEW d \in Callers \ {a}, NEW i \in Indices,
                            Taken(a, i)', Taken(d, i)'
                     PROVE  FALSE
          OBVIOUS
        <5>1. i < Length(word) /\ i >= Length(word) /\ i \in Nat
          BY <2>3, <3>1, <3>2 DEF Indices
        <5> QED
          BY <1>0, <5>1
      <4> QED
        BY <2>6, <3>2, <4>1, <4>2, <4>3
    <3>3. CASE a # c
      <4>1. \A i \in Indices : Taken(a, i) => i >= Listed'
        <5> TAKE i \in Indices
        <5>1. i \in Nat
          BY DEF Indices
        <5> QED
          BY <1>0, <1>3, <2>2, <3>1, <3>3, <5>1
      <4>2. \A d \in Callers \ {a}, i \in Indices : ~(Taken(a, i) /\ Taken(d, i)')
        <5> TAKE d \in Callers \ {a}, i \in Indices
        <5>1. CASE d = c
          <6>1. i \in Nat
            BY DEF Indices
          <6> QED
            BY <1>0, <2>3, <3>1, <3>3, <5>1, <6>1
        <5>2. CASE d # c
          BY <1>0, <2>3, <3>3, <5>2 DEF CallsOk
        <5> QED
          BY <5>1, <5>2
      <4> QED
        BY <1>0, <2>3, <2>6, <3>3, <4>1, <4>2 DEF CallsOk
    <3> QED
      BY <3>2, <3>3
  <2>9. SlotsOk'
    BY <1>0, <2>4, <2>5 DEF SlotsOk
  <2>10. /\ \A e \in Ids : InSlot(e)' <=> InSlot(e)
         /\ \A e \in Ids : InFresh(e)' <=> InFresh(e)
    BY <2>4, <2>5, <2>6 DEF InSlot, InFresh
  <2>11. Homes' /\ NoneLost' /\ held'[PLACEHOLDER] = 0
    <3>1. \A e \in 1 .. next - 1 : e \in Ids
      BY <1>0, Widths DEF TypeOK, Ids
    <3> QED
      BY <1>0, <1>1, <2>10, <3>1 DEF Homes, Apart, Somewhere, InHands, InBuffer, NoneLost
  <2>12. RemotesOk'
    <3>1. \A r \in Remotes : rem[r].state \in Words
      BY <1>0 DEF TypeOK, RemoteOps
    <3>2. \A r \in Remotes : Pops(rem[r].state) \in Nat
      BY <3>1, Widths DEF Pops, Words
    <3> QED
      BY <1>0, <1>1, <2>1, <3>2 DEF RemotesOk, Current
  <2> QED
    BY <2>7, <2>8, <2>9, <2>11, <2>12 DEF Inv
<1> QED
  BY <1>5, <1>6 DEF IInv

\* What call c gives up when its request becomes q.
Keeps(q, i) == q.lo <= i /\ i < q.hi
GivenUp(c, q, e) == \E i \in Indices : Taken(c, i) /\ ~Keeps(q, i) /\ Slot(i) = e

\* A step of a call under way that keeps some of the slots of its region: the rest
\* of the list machinery does not notice.
LEMMA CallStep ==
    ASSUME IInv, ~borrowed, NEW c \in Callers, NEW q \in Requests,
           req[c].pc # "idle", req' = [req EXCEPT ![c] = q],
           UNCHANGED <<word, slots, fr, rem, ops>>,
           q.pc # "popped", q.pc = "idle" => q = NoRequest,
           q.lo <= q.hi, q.hi < MAX, \A i \in Indices : Keeps(q, i) => Taken(c, i),
           \A d \in Callers \ {c} : q.fresh \cap req[d].fresh = {}
    PROVE  /\ req' \in [Callers -> Requests]
           /\ WordOk' /\ CallsOk' /\ SlotsOk' /\ RemotesOk'
           /\ \A e \in Ids : /\ InSlot(e) <=> InSlot(e)' \/ GivenUp(c, q, e)
                             /\ ~(InSlot(e)' /\ GivenUp(c, q, e))
           /\ \A e \in Ids : InFresh(e)' <=>
                  e \in q.fresh \/ \E d \in Callers \ {c} : e \in req[d].fresh
<1>0. /\ TypeOK /\ WordOk /\ CallsOk /\ SlotsOk /\ RemotesOk
      /\ \A d \in Callers : req[d] \in Requests
  BY Parts
<1>1. /\ req' \in [Callers -> Requests] /\ req'[c] = q
      /\ \A d \in Callers \ {c} : req'[d] = req[d]
  BY <1>0 DEF TypeOK
<1>2. /\ Listed' = Listed /\ \A i \in Indices : Slot(i)' = Slot(i)
      /\ \A i \in Indices : Taken(c, i)' <=> Keeps(q, i)
      /\ \A d \in Callers \ {c}, i \in Indices : Taken(d, i)' <=> Taken(d, i)
  BY <1>1 DEF Listed, Slot, Taken, Keeps
<1>3. WordOk'
  BY <1>0, <1>2 DEF WordOk
<1>4. CallsOk'
  <2> SUFFICES ASSUME NEW a \in Callers
               PROVE  /\ req'[a].pc = "idle" => req'[a] = NoRequest
                      /\ req'[a].pc = "popped" => /\ req'[a].fresh = {}
                                                  /\ req'[a].hi - req'[a].lo <= req'[a].want
                      /\ req'[a].lo <= req'[a].hi /\ req'[a].hi < MAX
                      /\ \A i \in Indices : Taken(a, i)' => i >= Listed'
                      /\ \A d \in Callers \ {a} :
                            /\ \A i \in Indices : ~(Taken(a, i)' /\ Taken(d, i)')
                            /\ req'[a].fresh \cap req'[d].fresh = {}
    BY Zenon DEF CallsOk
  <2>1. CASE a = c
    <3>1. \A i \in Indices : Taken(a, i)' => i >= Listed'
      BY <1>0, <1>2, <2>1 DEF CallsOk
    <3>2. \A d \in Callers \ {a}, i \in Indices : ~(Taken(a, i)' /\ Taken(d, i)')
      BY <1>0, <1>2, <2>1 DEF CallsOk
    <3> QED
      BY <1>1, <2>1, <3>1, <3>2
  <2>2. CASE a # c
    <3>1. \A i \in Indices : Taken(a, i)' => i >= Listed'
      BY <1>0, <1>2, <2>2 DEF CallsOk
    <3>2. \A d \in Callers \ {a}, i \in Indices : ~(Taken(a, i)' /\ Taken(d, i)')
      BY <1>0, <1>2, <2>2 DEF CallsOk
    <3>3. \A d \in Callers \ {a} : req'[a].fresh \cap req'[d].fresh = {}
      BY <1>0, <1>1, <2>2 DEF CallsOk
    <3>4. /\ req'[a].pc = "idle" => req'[a] = NoRequest
          /\ req'[a].pc = "popped" => /\ req'[a].fresh = {}
                                      /\ req'[a].hi - req'[a].lo <= req'[a].want
          /\ req'[a].lo <= req'[a].hi /\ req'[a].hi < MAX
      BY <1>0, <1>1, <2>2 DEF CallsOk
    <3> QED
      BY <3>1, <3>2, <3>3, <3>4
  <2> QED
    BY <2>1, <2>2
<1>5. \A i \in Indices : Owned(i) <=> Owned(i)' \/ (Taken(c, i) /\ ~Keeps(q, i))
  <2> TAKE i \in Indices
  <2>1. Taken(c, i) => ~(i < Listed) /\ \A d \in Callers \ {c} : ~Taken(d, i)
    <3>1. i \in Nat /\ Listed \in Nat
      BY Parts DEF Indices
    <3> QED
      BY <1>0, <3>1 DEF CallsOk
  <2> QED
    BY <1>2, <2>1 DEF Owned
<1>6. \A i \in Indices : Taken(c, i) /\ ~Keeps(q, i) => Owned(i) /\ ~Owned(i)'
  <2> TAKE i \in Indices
  <2>1. Taken(c, i) => ~(i < Listed) /\ \A d \in Callers \ {c} : ~Taken(d, i)
    <3>1. i \in Nat /\ Listed \in Nat
      BY Parts DEF Indices
    <3> QED
      BY <1>0, <3>1 DEF CallsOk
  <2> QED
    BY <1>2, <2>1 DEF Owned
<1>7. SlotsOk'
  BY <1>0, <1>2, <1>5 DEF SlotsOk
<1>8. RemotesOk'
  BY <1>0, <1>2 DEF RemotesOk, Current, Slot
<1>9. \A e \in Ids : /\ InSlot(e) <=> InSlot(e)' \/ GivenUp(c, q, e)
                     /\ ~(InSlot(e)' /\ GivenUp(c, q, e))
  <2> TAKE e \in Ids
  <2>1. InSlot(e)' <=> \E i \in Indices : Owned(i)' /\ Slot(i) = e
    BY <1>2 DEF InSlot
  <2>2. InSlot(e) <=> InSlot(e)' \/ GivenUp(c, q, e)
    BY <1>5, <2>1 DEF InSlot, GivenUp
  <2>3. ASSUME InSlot(e)', GivenUp(c, q, e) PROVE FALSE
    <3>1. PICK i \in Indices : Owned(i)' /\ Slot(i) = e
      BY <2>1, <2>3
    <3>2. PICK j \in Indices : Taken(c, j) /\ ~Keeps(q, j) /\ Slot(j) = e
      BY <2>3 DEF GivenUp
    <3>3. Owned(i) /\ Owned(j) /\ ~Owned(j)'
      BY <1>5, <1>6, <3>1, <3>2
    <3> QED
      BY <1>0, <3>1, <3>2, <3>3 DEF SlotsOk
  <2> QED
    BY <2>2, <2>3
<1>10. \A e \in Ids : InFresh(e)' <=>
           e \in q.fresh \/ \E d \in Callers \ {c} : e \in req[d].fresh
  BY <1>1 DEF InFresh
<1> QED
  BY <1>1, <1>3, <1>4, <1>7, <1>8, <1>9, <1>10

\* The region of a call are the ids in the slots it has popped.
LEMMA RegionIs ==
    ASSUME IInv, ~borrowed, NEW c \in Callers
    PROVE  /\ Region(c) \subseteq Ids
           /\ \A e \in Ids : e \in Region(c) <=> \E i \in Indices : Taken(c, i) /\ Slot(i) = e
           /\ \A i \in Indices : ~Keeps(NoRequest, i)
<1>1. /\ SlotsOk /\ req[c] \in Requests /\ req[c].hi < MAX
  BY Parts DEF CallsOk
<1>2. \A i \in req[c].lo .. req[c].hi - 1 : i \in Indices /\ Taken(c, i)
  BY <1>1, Widths DEF Requests, Indices, Taken
<1>3. \A i \in Indices : Taken(c, i) => i \in req[c].lo .. req[c].hi - 1
  BY <1>1, Widths DEF Requests, Indices, Taken
<1>4. Region(c) \subseteq Ids
  BY <1>1, <1>2 DEF Region, SlotsOk, Owned
<1>5. \A i \in Indices : ~Keeps(NoRequest, i)
  BY Widths DEF Indices, Keeps, NoRequest
<1> QED
  BY <1>2, <1>3, <1>4, <1>5 DEF Region

\* The rest of a call's ids is minted beyond all there are, or the call is given up.
LEMMA MintIInv ==
    ASSUME IInv, ~borrowed, NEW c \in Callers, Mint(c)
    PROVE  IInv'
<1> DEFINE q == req[c]
           need == q.want - (q.hi - q.lo)
<1>0. /\ TypeOK /\ WordOk /\ CallsOk /\ SlotsOk /\ Homes /\ NoneLost /\ RemotesOk
      /\ held[PLACEHOLDER] = 0 /\ next \in 1 .. MAX /\ q \in Requests
      /\ \A e \in Ids : held[e] \in Nat
  BY Parts
<1>1. /\ q.pc = "popped" /\ q.fresh = {} /\ need \in Nat
      /\ q.lo \in Nat /\ q.hi \in Nat /\ q.lo <= q.hi /\ q.hi < MAX
      /\ UNCHANGED <<word, slots, free_buf, alloc_buf, held, fr, rem, is_closed, ops,
                     borrowed>>
  BY <1>0, Widths, SMTT(20) DEF Mint, CallsOk, Requests
<1>2. CASE next + need <= MAX /\ next' = next + need
           /\ req' = [req EXCEPT ![c].pc = "ready", ![c].fresh = next .. next + need - 1]
           /\ UNCHANGED <<leaked, panicked>>
  <2> DEFINE new == next .. next + need - 1
             q2 == [q EXCEPT !.pc = "ready", !.fresh = new]
  <2>1. new \subseteq Ids
    BY <1>0, <1>1, <1>2, Widths, SMTT(20) DEF Ids
  <2>2. /\ q2 \in Requests /\ q2.pc = "ready" /\ q2.fresh = new
        /\ q2.lo = q.lo /\ q2.hi = q.hi
    BY <1>0, <2>1 DEF Requests
  <2>3. req' = [req EXCEPT ![c] = q2]
    BY <1>2
  <2> HIDE DEF q2
  <2>4. \A e \in new : e \in Ids /\ ~(e < next)
    BY <1>0, <1>1, <2>1
  <2> HIDE DEF new
  <2>5. \A e \in new : ~Somewhere(e)
    BY <1>0, <2>4 DEF Homes
  <2>6. \A d \in Callers \ {c} : q2.fresh \cap req[d].fresh = {}
    BY <2>2, <2>5 DEF Somewhere, InFresh
  <2>7. \A i \in Indices : Keeps(q2, i) <=> Taken(c, i)
    BY <2>2 DEF Keeps, Taken
  <2>8. /\ req' \in [Callers -> Requests]
        /\ WordOk' /\ CallsOk' /\ SlotsOk' /\ RemotesOk'
        /\ \A e \in Ids : InSlot(e) <=> InSlot(e)' \/ GivenUp(c, q2, e)
        /\ \A e \in Ids : InFresh(e)' <=>
               e \in q2.fresh \/ \E d \in Callers \ {c} : e \in req[d].fresh
    BY <1>1, <2>2, <2>3, <2>6, <2>7, CallStep
  <2>9. \A e \in Ids : /\ InSlot(e)' <=> InSlot(e)
                       /\ InFresh(e)' <=> InFresh(e) \/ e \in new
    BY <1>1, <2>2, <2>7, <2>8 DEF GivenUp, InFresh
  <2>10. next' \in 1 .. MAX /\ \A e \in Ids : e < next' <=> e < next \/ e \in new
    <3>1. next \in Nat /\ need \in Nat /\ next' = next + need /\ next' <= MAX
      BY <1>0, <1>1, <1>2
    <3>2. \A e \in Int : e \in new <=> next <= e /\ e < next + need
      BY <3>1 DEF new
    <3> QED
      BY <1>0, <3>1, <3>2, Widths DEF Ids
  <2>11. TypeOK'
    BY <1>0, <1>1, <1>2, <2>8, <2>10 DEF TypeOK
  <2>12. Homes'
    <3> SUFFICES ASSUME NEW e \in Ids PROVE Apart(e)' /\ (Somewhere(e)' => e < next')
      BY DEF Homes
    <3>1. Apart(e) /\ (Somewhere(e) => e < next) /\ (e \in new => ~Somewhere(e))
      BY <1>0, <2>5 DEF Homes
    <3>2. /\ InHands(e)' <=> InHands(e)
          /\ InBuffer(e)' <=> InBuffer(e)
          /\ UNCHANGED <<held, fr, free_buf, alloc_buf>>
      BY <1>1 DEF InHands, InBuffer
    <3> QED
      <4>1. /\ InSlot(e)' <=> InSlot(e)
            /\ InFresh(e)' <=> InFresh(e) \/ e \in new
            /\ e < next' <=> e < next \/ e \in new
        BY <2>9, <2>10
      <4>2. held'[e] = held[e] /\ fr' = fr /\ free_buf' = free_buf /\ alloc_buf' = alloc_buf
        BY <3>2
      <4>3. /\ ~(e \in fr.src /\ e \in fr.push) /\ ~(e \in free_buf /\ e \in alloc_buf)
            /\ held[e] <= 1 /\ held[e] \in Nat
        BY <1>0, <3>1 DEF Apart
      <4>4. CASE e \in new
        BY <3>1, <3>2, <4>1, <4>2, <4>3, <4>4 DEF Apart, Somewhere
      <4>5. CASE e \notin new
        BY <3>1, <3>2, <4>1, <4>2, <4>3, <4>5 DEF Apart, Somewhere
      <4> QED
        BY <4>4, <4>5
  <2>13. NoneLost'
    <3>1. \A e \in 1 .. next' - 1 : e \in Ids /\ e < next'
      BY <2>10, IdRange
    <3>2. \A e \in Ids : e < next => e \in 1 .. next - 1
      BY <1>0, Widths DEF Ids
    <3> QED
      BY <1>0, <1>1, <1>2, <2>9, <2>10, <3>1, <3>2 DEF NoneLost, Somewhere, InHands, InBuffer
  <2> QED
    BY <1>0, <1>1, <2>8, <2>11, <2>12, <2>13 DEF IInv, Inv
<1>3. CASE req' = [req EXCEPT ![c] = NoRequest] /\ leaked' = leaked \cup Region(c)
           /\ panicked' = TRUE /\ UNCHANGED next
  <2>1. NoRequest \in Requests /\ NoRequest.pc = "idle" /\ NoRequest.fresh = {}
        /\ NoRequest.lo <= NoRequest.hi /\ NoRequest.hi < MAX
    BY Widths DEF NoRequest, Requests
  <2>2. /\ Region(c) \subseteq Ids
        /\ \A e \in Ids : e \in Region(c) <=> GivenUp(c, NoRequest, e)
        /\ \A i \in Indices : ~Keeps(NoRequest, i)
    BY RegionIs DEF GivenUp
  <2>3. /\ req' \in [Callers -> Requests]
        /\ WordOk' /\ CallsOk' /\ SlotsOk' /\ RemotesOk'
        /\ \A e \in Ids : InSlot(e) <=> InSlot(e)' \/ GivenUp(c, NoRequest, e)
        /\ \A e \in Ids : InFresh(e)' <=>
               e \in NoRequest.fresh \/ \E d \in Callers \ {c} : e \in req[d].fresh
    BY <1>1, <1>3, <2>1, <2>2, CallStep, ZenonT(40)
  <2>4. \A e \in Ids : /\ InSlot(e)' => InSlot(e)
                       /\ InFresh(e)' <=> InFresh(e)
                       /\ InSlot(e) => InSlot(e)' \/ e \in leaked'
    BY <1>1, <1>3, <2>1, <2>2, <2>3 DEF InFresh
  <2>5. TypeOK'
    BY <1>0, <1>1, <1>3, <2>2, <2>3 DEF TypeOK
  <2>6. Homes'
    BY <1>0, <1>1, <1>3, <2>4 DEF Homes, Apart, Somewhere, InHands, InBuffer
  <2>7. NoneLost'
    <3>1. \A e \in 1 .. next - 1 : e \in Ids
      BY <1>0, Widths DEF Ids
    <3> QED
      BY <1>0, <1>1, <1>3, <2>4, <3>1 DEF NoneLost, Somewhere, InHands, InBuffer
  <2> QED
    BY <1>0, <1>1, <2>3, <2>5, <2>6, <2>7 DEF IInv, Inv
<1> QED
  BY <1>2, <1>3 DEF Mint

\* What HandOut does to the type of held and to the other ids.
LEMMA HandOutEffect ==
    ASSUME TypeOK, held[PLACEHOLDER] = 0, NEW e \in Ids, HandOut(e)
    PROVE  /\ held' \in [Values -> Nat] /\ held'[PLACEHOLDER] = 0
           /\ held'[e] = held[e] + 1 /\ \A d \in Ids \ {e} : held'[d] = held[d]
<1>1. PLACEHOLDER \in Values /\ e \in Values /\ e # PLACEHOLDER /\ Ids \subseteq Values
  BY Widths DEF Values, PLACEHOLDER, Ids
<1>2. held \in [Values -> Nat]
  BY DEF TypeOK
<1> QED
  BY <1>1, <1>2 DEF HandOut

\* A call hands out one id: one it gives up.
LEMMA YieldIInv ==
    ASSUME IInv, ~borrowed, NEW c \in Callers, Yield(c)
    PROVE  IInv'
<1> DEFINE q == req[c]
<1>0. /\ TypeOK /\ WordOk /\ CallsOk /\ SlotsOk /\ Homes /\ NoneLost /\ RemotesOk
      /\ held[PLACEHOLDER] = 0 /\ next \in 1 .. MAX /\ q \in Requests
      /\ \A e \in Ids : held[e] \in Nat
  BY Parts
<1>1. /\ q.pc = "ready" /\ q.lo \in Nat /\ q.hi \in Nat /\ q.lo <= q.hi /\ q.hi < MAX
      /\ UNCHANGED <<word, slots, next, free_buf, alloc_buf, leaked, fr, rem, is_closed,
                     ops, panicked, borrowed>>
  BY <1>0 DEF Yield, CallsOk, Requests
<1>2. \A e \in 1 .. next - 1 : e \in Ids
  BY <1>0, Widths DEF Ids
\* One id leaves the call and is handed out, the others stay where they are.
<1>3. ASSUME NEW e \in Ids, HandOut(e), NEW q2 \in Requests,
             req' = [req EXCEPT ![c] = q2], q2.pc = "ready",
             q2.lo <= q2.hi, q2.hi < MAX, \A i \in Indices : Keeps(q2, i) => Taken(c, i),
             q2.fresh \subseteq q.fresh,
             InSlot(e) \/ InFresh(e),
             \A d \in Ids : GivenUp(c, q2, d) \/ d \in q.fresh \ q2.fresh <=> d = e
      PROVE  IInv'
  <2>1. \A d \in Callers \ {c} : q2.fresh \cap req[d].fresh = {}
    BY <1>0, <1>3 DEF CallsOk
  <2>2. /\ req' \in [Callers -> Requests]
        /\ WordOk' /\ CallsOk' /\ SlotsOk' /\ RemotesOk'
        /\ \A d \in Ids : /\ InSlot(d) <=> InSlot(d)' \/ GivenUp(c, q2, d)
                          /\ ~(InSlot(d)' /\ GivenUp(c, q2, d))
        /\ \A d \in Ids : InFresh(d)' <=>
               d \in q2.fresh \/ \E a \in Callers \ {c} : d \in req[a].fresh
    BY <1>1, <1>3, <2>1, CallStep
  <2>3. /\ held' \in [Values -> Nat] /\ held'[PLACEHOLDER] = 0
        /\ held'[e] = held[e] + 1 /\ \A d \in Ids \ {e} : held'[d] = held[d]
    BY <1>0, <1>3, HandOutEffect
  <2>4. \A d \in Ids \ {e} : (InSlot(d)' <=> InSlot(d)) /\ (InFresh(d)' <=> InFresh(d))
    BY <1>3, <2>2 DEF InFresh
  <2>5. ~InSlot(e)' /\ ~InFresh(e)'
    <3>1. InSlot(e) => ~InFresh(e)
      BY <1>0 DEF Homes, Apart
    <3>2. e \in q.fresh => \A a \in Callers \ {c} : e \notin req[a].fresh
      BY <1>0 DEF CallsOk
    <3>3. InSlot(e)' => InSlot(e)
      BY <2>2
    <3>4. InFresh(e)' => InFresh(e)
      BY <1>3, <2>2 DEF InFresh
    <3>5. GivenUp(c, q2, e) \/ e \in q.fresh \ q2.fresh
      BY <1>3
    <3>6. CASE GivenUp(c, q2, e)
      BY <2>2, <3>1, <3>4, <3>6
    <3>7. CASE e \in q.fresh \ q2.fresh
      <4>1. InFresh(e)
        BY <3>7 DEF InFresh
      <4> QED
        BY <2>2, <3>1, <3>2, <3>3, <3>7, <4>1
    <3> QED
      BY <3>5, <3>6, <3>7
  <2>6. held[e] = 0 /\ ~InHands(e) /\ ~InBuffer(e) /\ e < next
    BY <1>0, <1>3 DEF Homes, Apart, Somewhere
  <2>7. TypeOK'
    BY <1>0, <1>1, <2>2, <2>3 DEF TypeOK
  <2>8. Homes'
    <3>1. /\ \A d \in Ids : (InHands(d)' <=> InHands(d)) /\ (InBuffer(d)' <=> InBuffer(d))
          /\ next' = next
      BY <1>1 DEF InHands, InBuffer
    <3>2. Apart(e)' /\ (Somewhere(e)' => e < next')
      BY <1>0, <1>1, <2>3, <2>5, <2>6, <3>1 DEF Homes, Apart, Somewhere
    <3>3. \A d \in Ids \ {e} : Apart(d)' /\ (Somewhere(d)' => d < next')
      BY <1>0, <1>1, <2>3, <2>4, <3>1 DEF Homes, Apart, Somewhere
    <3> QED
      BY <3>2, <3>3 DEF Homes
  <2>9. NoneLost'
    BY <1>0, <1>1, <1>2, <2>3, <2>4, <2>6 DEF NoneLost, Somewhere, InHands, InBuffer
  <2> QED
    BY <1>1, <2>2, <2>3, <2>7, <2>8, <2>9 DEF IInv, Inv
<1>4. CASE q.lo < q.hi /\ HandOut(Slot(q.lo)) /\ req' = [req EXCEPT ![c].lo = @ + 1]
  <2> DEFINE q2 == [q EXCEPT !.lo = q.lo + 1]
  <2>1. q.lo \in Indices /\ Taken(c, q.lo) /\ Owned(q.lo)
    BY <1>1, <1>4, Widths DEF Indices, Taken, Owned
  <2>2. Slot(q.lo) \in Ids /\ InSlot(Slot(q.lo))
    BY <1>0, <2>1 DEF SlotsOk, InSlot
  <2>3. /\ q2 \in Requests /\ q2.pc = "ready" /\ q2.lo = q.lo + 1 /\ q2.hi = q.hi
        /\ q2.fresh = q.fresh
    BY <1>0, <1>1 DEF Requests
  <2>4. req' = [req EXCEPT ![c] = q2]
    BY <1>4
  <2> HIDE DEF q2
  <2>5. \A i \in Indices : /\ Keeps(q2, i) => Taken(c, i)
                           /\ Taken(c, i) /\ ~Keeps(q2, i) <=> i = q.lo
    BY <1>1, <1>4, <2>3, Widths DEF Indices, Keeps, Taken
  <2>6. \A d \in Ids : GivenUp(c, q2, d) \/ d \in q.fresh \ q2.fresh <=> d = Slot(q.lo)
    BY <2>1, <2>3, <2>5 DEF GivenUp
  <2>7. q2.lo <= q2.hi /\ q2.hi < MAX /\ q2.fresh \subseteq q.fresh
    BY <1>1, <1>4, <2>3
  <2> QED
    BY <1>3, <1>4, <2>2, <2>3, <2>4, <2>5, <2>6, <2>7
<1>5. ASSUME NEW e \in q.fresh, q.lo = q.hi, HandOut(e),
             req' = [req EXCEPT ![c].fresh = @ \ {e}]
      PROVE  IInv'
  <2> DEFINE q2 == [q EXCEPT !.fresh = q.fresh \ {e}]
  <2>1. e \in Ids /\ InFresh(e)
    BY <1>0, <1>5 DEF Requests, InFresh
  <2>3. /\ q2 \in Requests /\ q2.pc = "ready" /\ q2.lo = q.lo /\ q2.hi = q.hi
        /\ q2.fresh = q.fresh \ {e}
    BY <1>0, <1>1 DEF Requests
  <2>4. req' = [req EXCEPT ![c] = q2]
    BY <1>5
  <2> HIDE DEF q2
  <2>5. \A i \in Indices : Keeps(q2, i) <=> Taken(c, i)
    BY <2>3 DEF Keeps, Taken
  <2>6. \A d \in Ids : GivenUp(c, q2, d) \/ d \in q.fresh \ q2.fresh <=> d = e
    BY <1>5, <2>3, <2>5 DEF GivenUp
  <2>7. q2.lo <= q2.hi /\ q2.hi < MAX /\ q2.fresh \subseteq q.fresh
    BY <1>1, <2>3
  <2> QED
    BY <1>3, <1>5, <2>1, <2>3, <2>4, <2>5, <2>6, <2>7
<1>6. q.fresh # {} => (CHOOSE e \in q.fresh : \A d \in q.fresh : e <= d) \in q.fresh
  <2>1. q.fresh \in SUBSET Nat
    BY <1>0, Widths DEF Requests, Ids
  <2> QED
    BY <2>1, Least
<1> QED
  BY <1>4, <1>5, <1>6 DEF Yield

\* A request that is over, and what it has given up.
LEMMA EndCall ==
    ASSUME IInv, ~borrowed, NEW c \in Callers, req[c].pc # "idle",
           req' = [req EXCEPT ![c] = NoRequest], UNCHANGED <<word, slots, fr, rem, ops>>
    PROVE  /\ req' \in [Callers -> Requests]
           /\ WordOk' /\ CallsOk' /\ SlotsOk' /\ RemotesOk'
           /\ Region(c) \subseteq Ids /\ req[c].fresh \subseteq Ids
           /\ \A e \in Ids : /\ InSlot(e) <=> InSlot(e)' \/ e \in Region(c)
                             /\ ~(InSlot(e)' /\ e \in Region(c))
                             /\ InFresh(e) <=> InFresh(e)' \/ e \in req[c].fresh
                             /\ ~(InFresh(e)' /\ e \in req[c].fresh)
<1>0. CallsOk /\ req[c] \in Requests
  BY Parts
<1>1. NoRequest \in Requests /\ NoRequest.pc = "idle" /\ NoRequest.fresh = {}
      /\ NoRequest.lo <= NoRequest.hi /\ NoRequest.hi < MAX
  BY Widths DEF NoRequest, Requests
<1>2. /\ Region(c) \subseteq Ids
      /\ \A e \in Ids : e \in Region(c) <=> GivenUp(c, NoRequest, e)
      /\ \A i \in Indices : ~Keeps(NoRequest, i)
  BY RegionIs DEF GivenUp
<1>3. /\ req' \in [Callers -> Requests]
      /\ WordOk' /\ CallsOk' /\ SlotsOk' /\ RemotesOk'
      /\ \A e \in Ids : /\ InSlot(e) <=> InSlot(e)' \/ GivenUp(c, NoRequest, e)
                        /\ ~(InSlot(e)' /\ GivenUp(c, NoRequest, e))
      /\ \A e \in Ids : InFresh(e)' <=>
             e \in NoRequest.fresh \/ \E d \in Callers \ {c} : e \in req[d].fresh
  BY <1>1, <1>2, CallStep, ZenonT(40)
<1>4. req[c].fresh \subseteq Ids
  BY <1>0 DEF Requests
<1>5. \A e \in Ids : /\ InFresh(e) <=> InFresh(e)' \/ e \in req[c].fresh
                     /\ ~(InFresh(e)' /\ e \in req[c].fresh)
  BY <1>0, <1>1, <1>3 DEF InFresh, CallsOk
<1> QED
  BY <1>2, <1>3, <1>4, <1>5

\* An iterator is dropped: what it has not yielded leaks.
LEMMA DropIterIInv ==
    ASSUME IInv, ~borrowed, NEW c \in Callers, DropIter(c)
    PROVE  IInv'
<1>0. /\ TypeOK /\ Homes /\ NoneLost /\ held[PLACEHOLDER] = 0 /\ next \in 1 .. MAX
  BY Parts
<1>1. /\ leaked' = leaked \cup Region(c) \cup req[c].fresh
      /\ UNCHANGED <<word, slots, next, free_buf, alloc_buf, held, fr, rem, is_closed, ops,
                     panicked, borrowed>>
  BY DEF DropIter
<1>2. /\ req' \in [Callers -> Requests]
      /\ WordOk' /\ CallsOk' /\ SlotsOk' /\ RemotesOk'
      /\ Region(c) \subseteq Ids /\ req[c].fresh \subseteq Ids
      /\ \A e \in Ids : /\ InSlot(e) <=> InSlot(e)' \/ e \in Region(c)
                        /\ InFresh(e) <=> InFresh(e)' \/ e \in req[c].fresh
  BY EndCall DEF DropIter
<1>3. TypeOK'
  BY <1>0, <1>1, <1>2 DEF TypeOK
<1>4. Homes'
  BY <1>0, <1>1, <1>2 DEF Homes, Apart, Somewhere, InHands, InBuffer
<1>5. NoneLost'
  BY <1>0, <1>1, <1>2, IdRange DEF NoneLost, Somewhere, InHands, InBuffer
<1> QED
  BY <1>0, <1>1, <1>2, <1>3, <1>4, <1>5 DEF IInv, Inv

\* The slow path of alloc_mut: one id is handed out, the others go to the buffer.
LEMMA FillIInv ==
    ASSUME IInv, ~borrowed, AllocMutFill
    PROVE  IInv'
<1> DEFINE got == Region(Owner) \cup req[Owner].fresh
<1>0. /\ TypeOK /\ Homes /\ NoneLost /\ held[PLACEHOLDER] = 0 /\ next \in 1 .. MAX
      /\ \A e \in Ids : held[e] \in Nat
  BY Parts
<1>1. /\ req[Owner].pc = "ready" /\ req' = [req EXCEPT ![Owner] = NoRequest]
      /\ UNCHANGED <<word, slots, next, free_buf, leaked, fr, rem, is_closed, ops,
                     panicked, borrowed>>
  BY DEF AllocMutFill
<1>2. PICK e \in got : HandOut(e) /\ alloc_buf' = alloc_buf \cup (got \ {e})
  BY DEF AllocMutFill
<1>3. Owner \in Callers
  BY DEF Callers
<1>4. /\ req' \in [Callers -> Requests]
      /\ WordOk' /\ CallsOk' /\ SlotsOk' /\ RemotesOk' /\ got \subseteq Ids
      /\ \A d \in Ids : d \in got => InSlot(d) \/ InFresh(d)
      /\ \A d \in Ids : /\ InSlot(d) \/ InFresh(d) <=> InSlot(d)' \/ InFresh(d)' \/ d \in got
                        /\ InSlot(d)' => InSlot(d)
                        /\ InFresh(d)' => InFresh(d)
                        /\ d \in got => ~InSlot(d)' /\ ~InFresh(d)'
  <2>1. \A d \in Ids : InSlot(d) => ~InFresh(d)
    BY <1>0 DEF Homes, Apart
  <2> QED
    BY <1>1, <1>3, <2>1, EndCall
<1> HIDE DEF got
<1>5. e \in Ids /\ e \in got
  BY <1>2, <1>4
<1>6. /\ held' \in [Values -> Nat] /\ held'[PLACEHOLDER] = 0
      /\ held'[e] = held[e] + 1 /\ \A d \in Ids \ {e} : held'[d] = held[d]
  BY <1>0, <1>2, <1>5, HandOutEffect
<1>7. TypeOK'
  BY <1>0, <1>1, <1>2, <1>4, <1>6 DEF TypeOK
<1>8. \A d \in got : ~InHands(d) /\ ~InBuffer(d) /\ held[d] = 0 /\ d < next
  BY <1>0, <1>4 DEF Homes, Apart, Somewhere
<1>9. Homes'
  <2> SUFFICES ASSUME NEW d \in Ids PROVE Apart(d)' /\ (Somewhere(d)' => d < next')
    BY DEF Homes
  <2>1. Apart(d) /\ (Somewhere(d) => d < next)
    BY <1>0 DEF Homes
  <2>2. CASE d \in got
    BY <1>0, <1>1, <1>2, <1>4, <1>5, <1>6, <1>8, <2>1, <2>2
       DEF Apart, Somewhere, InHands, InBuffer
  <2>3. CASE d \notin got
    BY <1>0, <1>1, <1>2, <1>4, <1>5, <1>6, <2>1, <2>3
       DEF Apart, Somewhere, InHands, InBuffer
  <2> QED
    BY <2>2, <2>3
<1>10. NoneLost'
  <2> SUFFICES ASSUME NEW d \in 1 .. next - 1 PROVE Somewhere(d)' \/ d \in leaked'
    BY <1>1 DEF NoneLost
  <2>1. d \in Ids /\ (Somewhere(d) \/ d \in leaked)
    BY <1>0, IdRange DEF NoneLost
  <2> QED
    BY <1>0, <1>1, <1>2, <1>4, <1>5, <1>6, <1>8, <2>1
       DEF Somewhere, InHands, InBuffer
<1> QED
  BY <1>1, <1>4, <1>6, <1>7, <1>9, <1>10 DEF IInv, Inv

\* A step that changes neither the slots, nor the end of the list, nor the calls.
LEMMA PlacesSame ==
    ASSUME IInv, ~borrowed, Listed' = Listed, UNCHANGED <<slots, req>>
    PROVE  /\ CallsOk' /\ SlotsOk'
           /\ \A i \in Indices : Slot(i)' = Slot(i)
           /\ \A e \in Ids : (InSlot(e)' <=> InSlot(e)) /\ (InFresh(e)' <=> InFresh(e))
<1>0. CallsOk /\ SlotsOk
  BY Parts
<1>1. /\ \A i \in Indices : Slot(i)' = Slot(i)
      /\ \A c \in Callers, i \in Indices : Taken(c, i)' <=> Taken(c, i)
  BY DEF Slot, Taken
<1>2. \A i \in Indices : Owned(i)' <=> Owned(i)
  BY <1>1 DEF Owned
<1>3. CallsOk'
  BY <1>0, <1>1 DEF CallsOk
<1>4. SlotsOk'
  BY <1>0, <1>1, <1>2 DEF SlotsOk
<1>5. \A e \in Ids : (InSlot(e)' <=> InSlot(e)) /\ (InFresh(e)' <=> InFresh(e))
  BY <1>1, <1>2 DEF InSlot, InFresh
<1> QED
  BY <1>1, <1>3, <1>4, <1>5

\* What a step that leaves the list machinery alone leaves alone.
LEMMA ListSame ==
    ASSUME IInv, ~borrowed, UNCHANGED <<word, slots, req, fr, rem>>, ops' \in Nat, ops' >= ops
    PROVE  /\ WordOk' /\ CallsOk' /\ SlotsOk' /\ RemotesOk'
           /\ \A e \in Ids : (InSlot(e)' <=> InSlot(e)) /\ (InFresh(e)' <=> InFresh(e))
                             /\ (InHands(e)' <=> InHands(e))
<1>0. WordOk /\ RemotesOk /\ word \in Words /\ ops \in Nat
  BY Parts
<1>1. Listed' = Listed /\ Pops(word)' = Pops(word)
  BY DEF Listed, Pops
<1>2. /\ CallsOk' /\ SlotsOk'
      /\ \A i \in Indices : Slot(i)' = Slot(i)
      /\ \A e \in Ids : (InSlot(e)' <=> InSlot(e)) /\ (InFresh(e)' <=> InFresh(e))
  BY <1>1, PlacesSame
<1>3. WordOk'
  <2>1. Pops(word) \in Nat /\ Pops(word) <= ops
    BY <1>0, Widths DEF WordOk, Pops, Words
  <2> QED
    BY <1>0, <1>1, <2>1 DEF WordOk
<1>4. RemotesOk'
  BY <1>0, <1>1 DEF RemotesOk, Current, Slot
<1>5. \A e \in Ids : InHands(e)' <=> InHands(e)
  BY DEF InHands
<1> QED
  BY <1>2, <1>3, <1>4, <1>5

\* The owner hands out an id of its buffer.
LEMMA BufferedIInv ==
    ASSUME IInv, ~borrowed, AllocMutBuffered
    PROVE  IInv'
<1>0. /\ TypeOK /\ Homes /\ NoneLost /\ held[PLACEHOLDER] = 0 /\ next \in 1 .. MAX
      /\ ops \in Nat /\ \A e \in Ids : held[e] \in Nat
  BY Parts
<1>1. UNCHANGED <<word, slots, next, free_buf, leaked, req, fr, rem, is_closed, ops,
                  panicked, borrowed>>
  BY DEF AllocMutBuffered
<1>2. PICK e \in alloc_buf : HandOut(e) /\ alloc_buf' = alloc_buf \ {e}
  BY DEF AllocMutBuffered
<1>3. e \in Ids /\ InBuffer(e)
  BY <1>0, <1>2 DEF TypeOK, InBuffer
<1>4. /\ WordOk' /\ CallsOk' /\ SlotsOk' /\ RemotesOk'
      /\ \A d \in Ids : (InSlot(d)' <=> InSlot(d)) /\ (InFresh(d)' <=> InFresh(d))
                        /\ (InHands(d)' <=> InHands(d))
  BY <1>0, <1>1, ListSame
<1>5. /\ held' \in [Values -> Nat] /\ held'[PLACEHOLDER] = 0
      /\ held'[e] = held[e] + 1 /\ \A d \in Ids \ {e} : held'[d] = held[d]
  BY <1>0, <1>2, <1>3, HandOutEffect
<1>6. /\ ~InBuffer(e)'
      /\ \A d \in Ids \ {e} : InBuffer(d)' <=> InBuffer(d)
      /\ \A d \in Ids : ~(d \in free_buf' /\ d \in alloc_buf')
  BY <1>0, <1>1, <1>2, <1>3 DEF InBuffer, Homes, Apart
<1>7. TypeOK'
  BY <1>0, <1>1, <1>2, <1>5 DEF TypeOK
<1>8. Homes'
  <2> SUFFICES ASSUME NEW d \in Ids PROVE Apart(d)' /\ (Somewhere(d)' => d < next')
    BY DEF Homes
  <2>1. Apart(d) /\ (Somewhere(d) => d < next)
    BY <1>0 DEF Homes
  <2>2. CASE d = e
    BY <1>0, <1>1, <1>3, <1>4, <1>5, <1>6, <2>1, <2>2 DEF Apart, Somewhere
  <2>3. CASE d # e
    BY <1>0, <1>1, <1>4, <1>5, <1>6, <2>1, <2>3 DEF Apart, Somewhere
  <2> QED
    BY <2>2, <2>3
<1>9. NoneLost'
  <2> SUFFICES ASSUME NEW d \in 1 .. next - 1 PROVE Somewhere(d)' \/ d \in leaked'
    BY <1>1 DEF NoneLost
  <2>1. d \in Ids /\ (Somewhere(d) \/ d \in leaked)
    BY <1>0, IdRange DEF NoneLost
  <2> QED
    BY <1>0, <1>1, <1>4, <1>5, <1>6, <2>1 DEF Somewhere
<1> QED
  BY <1>1, <1>4, <1>5, <1>7, <1>8, <1>9 DEF IInv, Inv

\* The allocator is dropped: its ids stay where they are.
LEMMA DropIInv ==
    ASSUME IInv, ~borrowed, DropAllocator
    PROVE  IInv'
<1>0. /\ TypeOK /\ Homes /\ NoneLost /\ held[PLACEHOLDER] = 0 /\ ops \in Nat
  BY Parts
<1>1. /\ is_closed' = TRUE
      /\ UNCHANGED <<word, slots, next, free_buf, alloc_buf, held, leaked, req, fr, rem,
                     ops, panicked, borrowed>>
  BY DEF DropAllocator
<1>2. /\ WordOk' /\ CallsOk' /\ SlotsOk' /\ RemotesOk'
      /\ \A d \in Ids : (InSlot(d)' <=> InSlot(d)) /\ (InFresh(d)' <=> InFresh(d))
                        /\ (InHands(d)' <=> InHands(d))
  BY <1>0, <1>1, ListSame
<1>3. TypeOK'
  BY <1>0, <1>1 DEF TypeOK
<1>4. Homes' /\ NoneLost'
  BY <1>0, <1>1, <1>2, IdRange DEF TypeOK, Homes, NoneLost, Apart, Somewhere, InBuffer
<1> QED
  BY <1>0, <1>1, <1>2, <1>3, <1>4 DEF IInv, Inv

-----------------------------------------------------------------------------
\* What TakeBack does to the type of held, to the ids given back and to the others.
LEMMA TakeBackEffect ==
    ASSUME IInv, ~borrowed, NEW S \in SUBSET Ids, TakeBack(S)
    PROVE  /\ held' \in [Values -> Nat] /\ held'[PLACEHOLDER] = 0
           /\ \A e \in S : held[e] = 1 /\ held'[e] = 0
           /\ \A e \in Ids \ S : held'[e] = held[e]
<1>0. TypeOK /\ Homes /\ held[PLACEHOLDER] = 0 /\ \A e \in Ids : held[e] \in Nat
  BY Parts
<1>1. PLACEHOLDER \in Values /\ PLACEHOLDER \notin S /\ Ids \subseteq Values
  BY Widths DEF Values, PLACEHOLDER, Ids
<1>2. /\ \A e \in S : held[e] > 0 /\ held'[e] = held[e] - 1
      /\ \A e \in Values \ S : held'[e] = held[e]
      /\ held' = [e \in Values |-> IF e \in S THEN held[e] - 1 ELSE held[e]]
  BY <1>1 DEF TakeBack
<1>3. held' \in [Values -> Nat]
  BY <1>0, <1>1, <1>2, SMTT(20) DEF TypeOK
<1>4. \A e \in S : held[e] = 1
  BY <1>0, <1>2 DEF Homes, Apart
<1> QED
  BY <1>0, <1>1, <1>2, <1>3, <1>4

\* The owner sets the flag: the ids it is about to push are in its hands, and the list
\* keeps its end.
LEMMA DisableEffect ==
    ASSUME IInv, ~borrowed, Exclusive, NEW S \in SUBSET Ids, NEW later \in SUBSET Ids,
           Disable(S, later), UNCHANGED <<slots, req, rem>>, ops' \in Nat, ops' >= ops
    PROVE  /\ word' \in Words /\ fr' \in Frees
           /\ WordOk' /\ CallsOk' /\ SlotsOk' /\ RemotesOk'
           /\ \A e \in Ids : /\ InSlot(e)' <=> InSlot(e)
                             /\ InFresh(e)' <=> InFresh(e)
                             /\ ~InHands(e)
                             /\ InHands(e)' <=> e \in S \/ e \in later
           /\ fr'.src = S /\ fr'.push = later
<1>0. /\ TypeOK /\ WordOk /\ RemotesOk /\ word \in Words /\ Length(word) \in Nat
      /\ ops \in Nat
  BY Parts
<1>1. /\ fr = NoFree /\ ~word.disabled /\ Listed = Length(word) /\ Length(word) < MAX
      /\ \A c \in Callers : req[c].pc = "idle"
  BY <1>0 DEF Exclusive, WordOk, Listed
<1>2. /\ word' = [word EXCEPT !.disabled = TRUE]
      /\ fr' = [pc |-> "write", old |-> word, at |-> Length(word), src |-> S, push |-> later]
  BY DEF Disable
<1>3. word' \in Words /\ word'.len = word.len /\ word'.gen = word.gen
  BY <1>0, <1>2 DEF Words
<1>4. fr' \in Frees
  BY <1>0, <1>1, <1>2, Widths DEF Frees
<1>5. Pops(word') = Pops(word) /\ Pops(word) \in Nat /\ Pops(word) <= ops
  BY <1>0, <1>3, Widths DEF Pops, WordOk, Words
<1>6. Listed' = Listed
  BY <1>1, <1>2 DEF Listed
<1>7. /\ CallsOk' /\ SlotsOk'
      /\ \A i \in Indices : Slot(i)' = Slot(i)
      /\ \A e \in Ids : (InSlot(e)' <=> InSlot(e)) /\ (InFresh(e)' <=> InFresh(e))
  BY <1>6, PlacesSame
<1>8. WordOk'
  BY <1>0, <1>1, <1>2, <1>5, <1>6 DEF WordOk
<1>9. RemotesOk'
  BY <1>0, <1>3, <1>5 DEF RemotesOk, Current, Slot
<1>10. \A e \in Ids : ~InHands(e) /\ (InHands(e)' <=> e \in S \/ e \in later)
  BY <1>1, <1>2 DEF InHands, NoFree
<1> QED
  BY <1>2, <1>3, <1>4, <1>7, <1>8, <1>9, <1>10

\* The owner frees one id, into its buffer or with the whole buffer into the list.
LEMMA FreeIInv ==
    ASSUME IInv, ~borrowed, NEW x \in Ids, Free(x)
    PROVE  IInv'
<1>0. /\ TypeOK /\ Homes /\ NoneLost /\ ops \in Nat /\ \A e \in Ids : held[e] \in Nat
  BY Parts
<1>1. /\ Exclusive /\ TakeBack({x})
      /\ UNCHANGED <<slots, next, alloc_buf, leaked, req, rem, is_closed, ops, panicked,
                     borrowed>>
  BY DEF Free
<1>2. /\ held' \in [Values -> Nat] /\ held'[PLACEHOLDER] = 0
      /\ held[x] = 1 /\ held'[x] = 0 /\ \A e \in Ids \ {x} : held'[e] = held[e]
  BY <1>1, TakeBackEffect
<1>3. ~InSlot(x) /\ ~InFresh(x) /\ ~InHands(x) /\ ~InBuffer(x) /\ x < next
  BY <1>0, <1>2 DEF Homes, Apart, Somewhere
<1>4. ops' \in Nat /\ ops' >= ops
  BY <1>0, <1>1
<1>5. CASE free_buf' = free_buf \cup {x} /\ UNCHANGED <<word, fr>>
  <2>1. /\ WordOk' /\ CallsOk' /\ SlotsOk' /\ RemotesOk'
        /\ \A d \in Ids : (InSlot(d)' <=> InSlot(d)) /\ (InFresh(d)' <=> InFresh(d))
                          /\ (InHands(d)' <=> InHands(d))
    BY <1>1, <1>4, <1>5, ListSame
  <2>2. TypeOK'
    BY <1>0, <1>1, <1>2, <1>5 DEF TypeOK
  <2>3. \A d \in Ids : /\ InBuffer(d)' <=> InBuffer(d) \/ d = x
                       /\ ~(d \in free_buf' /\ d \in alloc_buf')
    BY <1>0, <1>1, <1>3, <1>5 DEF InBuffer, Homes, Apart
  <2>4. Homes'
    <3> SUFFICES ASSUME NEW d \in Ids PROVE Apart(d)' /\ (Somewhere(d)' => d < next')
      BY DEF Homes
    <3>1. Apart(d) /\ (Somewhere(d) => d < next)
      BY <1>0 DEF Homes
    <3>2. CASE d = x
      BY <1>0, <1>1, <1>2, <1>3, <1>5, <2>1, <2>3, <3>1, <3>2 DEF Apart, Somewhere
    <3>3. CASE d # x
      BY <1>0, <1>1, <1>2, <1>5, <2>1, <2>3, <3>1, <3>3 DEF Apart, Somewhere
    <3> QED
      BY <3>2, <3>3
  <2>5. NoneLost'
    <3> SUFFICES ASSUME NEW d \in 1 .. next - 1 PROVE Somewhere(d)' \/ d \in leaked'
      BY <1>1 DEF NoneLost
    <3>1. d \in Ids /\ (Somewhere(d) \/ d \in leaked)
      BY <1>0, IdRange DEF NoneLost, TypeOK
    <3> QED
      BY <1>0, <1>1, <1>2, <2>1, <2>3, <3>1 DEF Somewhere
  <2> QED
    BY <1>1, <1>2, <2>1, <2>2, <2>4, <2>5 DEF IInv, Inv
<1>6. CASE Disable(free_buf, {x}) /\ free_buf' = {}
  <2>1. /\ word' \in Words /\ fr' \in Frees
        /\ WordOk' /\ CallsOk' /\ SlotsOk' /\ RemotesOk'
        /\ \A e \in Ids : /\ InSlot(e)' <=> InSlot(e)
                          /\ InFresh(e)' <=> InFresh(e)
                          /\ ~InHands(e)
                          /\ InHands(e)' <=> e \in free_buf \/ e \in {x}
        /\ fr'.src = free_buf /\ fr'.push = {x}
    <3>1. free_buf \in SUBSET Ids /\ {x} \in SUBSET Ids
      BY <1>0 DEF TypeOK
    <3> QED
      BY <1>1, <1>4, <1>6, <3>1, DisableEffect
  <2>2. TypeOK'
    BY <1>0, <1>1, <1>2, <1>6, <2>1 DEF TypeOK
  <2>3. \A d \in Ids : /\ InBuffer(d) <=> d \in alloc_buf \/ d \in free_buf
                       /\ InBuffer(d)' <=> d \in alloc_buf
                       /\ ~(d \in free_buf' /\ d \in alloc_buf')
                       /\ ~(d \in free_buf /\ d \in alloc_buf)
    BY <1>0, <1>1, <1>6 DEF InBuffer, Homes, Apart
  <2>4. Homes'
    <3> SUFFICES ASSUME NEW d \in Ids PROVE Apart(d)' /\ (Somewhere(d)' => d < next')
      BY DEF Homes
    <3>1. Apart(d) /\ (Somewhere(d) => d < next)
      BY <1>0 DEF Homes
    <3>2. CASE d = x
      BY <1>0, <1>1, <1>2, <1>3, <1>6, <2>1, <2>3, <3>1, <3>2 DEF Apart, Somewhere
    <3>3. CASE d # x
      BY <1>0, <1>1, <1>2, <1>6, <2>1, <2>3, <3>1, <3>3 DEF Apart, Somewhere
    <3> QED
      BY <3>2, <3>3
  <2>5. NoneLost'
    <3> SUFFICES ASSUME NEW d \in 1 .. next - 1 PROVE Somewhere(d)' \/ d \in leaked'
      BY <1>1 DEF NoneLost
    <3>1. d \in Ids /\ (Somewhere(d) \/ d \in leaked)
      BY <1>0, IdRange DEF NoneLost, TypeOK
    <3> QED
      BY <1>0, <1>1, <1>2, <2>1, <2>3, <3>1 DEF Somewhere
  <2> QED
    BY <1>1, <1>2, <2>1, <2>2, <2>4, <2>5 DEF IInv, Inv
<1> QED
  BY <1>5, <1>6 DEF Free

\* The owner frees many ids at once, past its buffer.
LEMMA FreeManyIInv ==
    ASSUME IInv, ~borrowed, NEW S \in SUBSET Ids, FreeMany(S)
    PROVE  IInv'
<1>0. /\ TypeOK /\ Homes /\ NoneLost /\ ops \in Nat /\ \A e \in Ids : held[e] \in Nat
  BY Parts
<1>1. /\ Exclusive /\ TakeBack(S) /\ Disable(S, {}) /\ ops' = ops + 1 /\ ops < MaxOps
      /\ UNCHANGED <<slots, next, free_buf, alloc_buf, leaked, req, rem, is_closed,
                     panicked, borrowed>>
  BY <1>0, Room DEF FreeMany
<1>2. /\ held' \in [Values -> Nat] /\ held'[PLACEHOLDER] = 0
      /\ \A e \in S : held[e] = 1 /\ held'[e] = 0
      /\ \A e \in Ids \ S : held'[e] = held[e]
  BY <1>1, TakeBackEffect
<1>3. ops' \in 0 .. MaxOps /\ ops' \in Nat /\ ops' >= ops
  BY <1>0, <1>1, Widths
<1>4. /\ word' \in Words /\ fr' \in Frees
      /\ WordOk' /\ CallsOk' /\ SlotsOk' /\ RemotesOk'
      /\ \A e \in Ids : /\ InSlot(e)' <=> InSlot(e)
                        /\ InFresh(e)' <=> InFresh(e)
                        /\ ~InHands(e)
                        /\ InHands(e)' <=> e \in S
      /\ fr'.src = S /\ fr'.push = {}
  <2>1. {} \in SUBSET Ids
    OBVIOUS
  <2> QED
    BY <1>1, <1>3, <2>1, DisableEffect
<1>5. TypeOK'
  BY <1>0, <1>1, <1>2, <1>3, <1>4 DEF TypeOK
<1>6. \A d \in Ids : InBuffer(d)' <=> InBuffer(d)
  BY <1>1 DEF InBuffer
<1>7. Homes'
  <2> SUFFICES ASSUME NEW d \in Ids PROVE Apart(d)' /\ (Somewhere(d)' => d < next')
    BY DEF Homes
  <2>1. Apart(d) /\ (Somewhere(d) => d < next)
    BY <1>0 DEF Homes
  <2>2. CASE d \in S
    BY <1>0, <1>1, <1>2, <1>4, <1>6, <2>1, <2>2 DEF Apart, Somewhere
  <2>3. CASE d \notin S
    BY <1>0, <1>1, <1>2, <1>4, <1>6, <2>1, <2>3 DEF Apart, Somewhere
  <2> QED
    BY <2>2, <2>3
<1>8. NoneLost'
  <2> SUFFICES ASSUME NEW d \in 1 .. next - 1 PROVE Somewhere(d)' \/ d \in leaked'
    BY <1>1 DEF NoneLost
  <2>1. d \in Ids /\ (Somewhere(d) \/ d \in leaked)
    BY <1>0, IdRange DEF NoneLost, TypeOK
  <2> QED
    BY <1>0, <1>1, <1>2, <1>4, <1>6, <2>1 DEF Somewhere
<1> QED
  BY <1>1, <1>2, <1>4, <1>5, <1>7, <1>8 DEF IInv, Inv

\* While the owner frees, nobody has a region and the list ends where it writes.
LEMMA Writing ==
    ASSUME IInv, ~borrowed, fr.pc = "write"
    PROVE  /\ fr \in Frees /\ fr.at \in Nat /\ fr.at < MAX /\ fr.at \in Indices
           /\ Listed = fr.at /\ fr.old \in Words /\ ~fr.old.disabled
           /\ word = [fr.old EXCEPT !.disabled = TRUE] /\ word.len = fr.old.len
           /\ word.gen = fr.old.gen /\ fr.old.len <= fr.at /\ Length(fr.old) <= fr.at
           /\ \A c \in Callers : req[c] = NoRequest
           /\ \A i \in Indices : Owned(i) <=> i < fr.at
<1>0. TypeOK /\ WordOk /\ CallsOk
  BY Parts
<1>1. fr \in Frees /\ fr.old \in Words /\ fr.at \in 0 .. MAX
  BY <1>0 DEF TypeOK, Frees
<1>2. Listed = fr.at /\ fr.at < MAX /\ Length(fr.old) <= fr.at
  BY <1>0 DEF WordOk, Listed
<1>3. \A c \in Callers : req[c] = NoRequest
  BY <1>0 DEF WordOk, CallsOk
<1>4. \A i \in Indices : \A c \in Callers : ~Taken(c, i)
  BY <1>3, Widths DEF Taken, NoRequest, Indices
<1>5. fr.old.len <= fr.at
  BY <1>1, <1>2, Widths DEF Length, Words
<1>6. /\ word = [fr.old EXCEPT !.disabled = TRUE] /\ ~fr.old.disabled
      /\ word.len = fr.old.len /\ word.gen = fr.old.gen
  BY <1>0, <1>1 DEF WordOk, Words
<1>7. fr.at \in Nat /\ fr.at \in Indices
  BY <1>1, <1>2, Widths DEF Indices
<1>8. \A i \in Indices : Owned(i) <=> i < fr.at
  BY <1>2, <1>4 DEF Owned
<1> QED
  BY <1>1, <1>2, <1>3, <1>5, <1>6, <1>7, <1>8

\* The owner writes an id to the slot at the end of the list: there is room for it,
\* because the ids before it are all different, and no remote has read that slot and
\* can still claim it.
LEMMA WriteIInv ==
    ASSUME IInv, ~borrowed, FreeWrite
    PROVE  IInv'
<1>0. /\ TypeOK /\ WordOk /\ CallsOk /\ SlotsOk /\ Homes /\ NoneLost /\ RemotesOk
      /\ held[PLACEHOLDER] = 0 /\ \A e \in Ids : held[e] \in Nat
  BY Parts
<1>1. fr.pc = "write"
  BY DEF FreeWrite
<1>2. /\ fr \in Frees /\ fr.at \in Nat /\ fr.at < MAX /\ fr.at \in Indices
      /\ Listed = fr.at /\ fr.old \in Words /\ word.len = fr.old.len
      /\ fr.old.len <= fr.at /\ Length(fr.old) <= fr.at
      /\ \A c \in Callers : req[c] = NoRequest
      /\ \A i \in Indices : Owned(i) <=> i < fr.at
  BY <1>1, Writing
<1>at. PICK at \in Indices : at = fr.at
  BY <1>2
<1>3. PICK e \in fr.src : /\ slots' = [slots EXCEPT ![Address(fr.at)] = e]
                          /\ fr' = [fr EXCEPT !.at = @ + 1, !.src = @ \ {e}]
  BY DEF FreeWrite
<1>4. UNCHANGED <<word, next, free_buf, alloc_buf, held, leaked, req, rem, is_closed, ops,
                  panicked, borrowed>>
  BY DEF FreeWrite
<1>5. /\ e \in Ids /\ e \in Values /\ ~InSlot(e) /\ ~InFresh(e) /\ e \notin fr.push
      /\ ~InBuffer(e) /\ held[e] = 0 /\ e < next
  BY <1>0, <1>2, <1>3 DEF Frees, Values, Homes, Apart, InHands, Somewhere
<1>6. /\ fr'.pc = "write" /\ fr'.old = fr.old /\ fr'.at = fr.at + 1
      /\ fr'.src = fr.src \ {e} /\ fr'.push = fr.push
  BY <1>1, <1>2, <1>3 DEF Frees
<1>7. /\ slots' \in [Addresses -> Values] /\ Slot(at)' = e
      /\ \A j \in Indices : j # at => Slot(j)' = Slot(j)
  BY <1>0, <1>at, <1>3, <1>5, SlotWrite DEF TypeOK
<1>8. fr.at + 1 < MAX
  <2> DEFINE f == [i \in 1 .. fr.at |-> Slot(i - 1)]
  <2>1. \A i \in 1 .. fr.at : i - 1 \in Indices /\ Owned(i - 1)
    BY <1>2, Widths DEF Indices
  <2>2. f \in [1 .. fr.at -> Ids \ {e}]
    BY <1>0, <1>5, <2>1 DEF SlotsOk, InSlot
  <2>3. \A i, j \in 1 .. fr.at : f[i] = f[j] => i = j
    <3> SUFFICES ASSUME NEW i \in 1 .. fr.at, NEW j \in 1 .. fr.at, f[i] = f[j]
                 PROVE  i = j
      OBVIOUS
    <3>1. Slot(i - 1) = Slot(j - 1)
      OBVIOUS
    <3>2. i - 1 = j - 1
      BY <1>0, <2>1, <3>1 DEF SlotsOk
    <3> QED
      BY <1>2, <3>2
  <2> HIDE DEF f
  <2> QED
    BY <1>2, <1>5, <2>2, <2>3, ListFits
<1>9. fr' \in Frees
  <2>1. fr.src \ {e} \in SUBSET Ids /\ fr.at + 1 \in 0 .. MAX
    BY <1>2, <1>8, Widths DEF Frees
  <2> QED
    BY <1>2, <1>3, <2>1 DEF Frees
<1>10. /\ Listed' = fr.at + 1
       /\ \A c \in Callers, i \in Indices : ~Taken(c, i)'
  BY <1>2, <1>4, <1>6, Widths DEF Listed, Taken, NoRequest, Indices
<1>11. \A i \in Indices : Owned(i)' <=> Owned(i) \/ i = at
  BY <1>2, <1>at, <1>10 DEF Owned, Indices
<1>12. ~Owned(at)
  BY <1>2, <1>at
<1>13. WordOk'
  <2>1. Pops(word') <= ops' /\ Listed' < MAX
    BY <1>0, <1>4, <1>8, <1>10 DEF WordOk
  <2>2. Length(fr'.old) <= fr'.at
    <3>1. Length(fr.old) \in Int
      BY <1>2, Widths DEF Length, Words
    <3> QED
      BY <1>2, <1>6, <3>1
  <2>3. /\ word' = [fr'.old EXCEPT !.disabled = TRUE] /\ ~fr'.old.disabled
        /\ \A c \in Callers : req'[c].pc = "idle"
    BY <1>0, <1>1, <1>4, <1>6 DEF WordOk
  <2> QED
    BY <1>6, <2>1, <2>2, <2>3 DEF WordOk
<1>14. CallsOk'
  BY <1>0, <1>2, <1>4, <1>10 DEF CallsOk
<1>15. \A i \in Indices : Owned(i) => Slot(i)' = Slot(i) /\ Slot(i) # e
  BY <1>5, <1>7, <1>12 DEF InSlot
<1>16. SlotsOk'
  <2> SUFFICES ASSUME NEW i \in Indices, Owned(i)'
               PROVE  /\ Slot(i)' \in Ids
                      /\ \A j \in Indices : Owned(j)' /\ Slot(j)' = Slot(i)' => i = j
    BY DEF SlotsOk
  <2>1. Slot(i)' \in Ids
    BY <1>0, <1>5, <1>7, <1>11, <1>15 DEF SlotsOk
  <2>2. ASSUME NEW j \in Indices, Owned(j)', Slot(j)' = Slot(i)' PROVE i = j
    <3>1. CASE i = at
      BY <1>7, <1>11, <1>15, <2>2, <3>1
    <3>2. CASE j = at
      BY <1>7, <1>11, <1>15, <2>2, <3>2
    <3>3. CASE i # at /\ j # at
      BY <1>0, <1>11, <1>15, <2>2, <3>3 DEF SlotsOk
    <3> QED
      BY <3>1, <3>2, <3>3
  <2> QED
    BY <2>1, <2>2
<1>17. \A d \in Ids : InSlot(d)' <=> InSlot(d) \/ d = e
  <2> SUFFICES ASSUME NEW d \in Ids PROVE InSlot(d)' <=> InSlot(d) \/ d = e
    OBVIOUS
  <2>1. InSlot(d)' => InSlot(d) \/ d = e
    BY <1>7, <1>11, <1>15 DEF InSlot
  <2>2. InSlot(d) => InSlot(d)'
    BY <1>11, <1>15 DEF InSlot
  <2>3. InSlot(e)'
    BY <1>7, <1>11 DEF InSlot
  <2> QED
    BY <2>1, <2>2, <2>3
<1>18. RemotesOk'
  <2> SUFFICES ASSUME NEW r \in Remotes, rem[r].pc = "read", Current(r)
               PROVE  Slot(Length(rem[r].state) - 1)' = Slot(Length(rem[r].state) - 1)
    BY <1>0, <1>4, Zenon DEF RemotesOk, Current, Pops
  <2>0. rem[r].pc = "read" /\ Current(r) /\ rem[r] \in RemoteOps
    BY <1>0 DEF TypeOK
  <2>1. rem[r].state.len <= word.len /\ Length(rem[r].state) > 0 /\ rem[r].state \in Words
    BY <1>0, <2>0 DEF RemotesOk, RemoteOps
  <2>2. PICK i \in Indices : i = Length(rem[r].state) - 1 /\ i # at
    BY <1>2, <1>at, <2>1, Widths DEF Indices, Length, Words
  <2> QED
    BY <1>4, <1>7, <2>2
<1>19. TypeOK'
  BY <1>0, <1>4, <1>7, <1>9 DEF TypeOK
<1>20. \A d \in Ids : /\ InFresh(d)' <=> InFresh(d)
                      /\ InHands(d)' <=> InHands(d) /\ d # e
                      /\ InBuffer(d)' <=> InBuffer(d)
  BY <1>4, <1>5, <1>6 DEF InFresh, InHands, InBuffer
<1>21. InHands(e)
  BY <1>3 DEF InHands
<1>22. Homes'
  <2> SUFFICES ASSUME NEW d \in Ids PROVE Apart(d)' /\ (Somewhere(d)' => d < next')
    BY DEF Homes
  <2>1. Apart(d) /\ (Somewhere(d) => d < next)
    BY <1>0 DEF Homes
  <2>2. CASE d = e
    BY <1>0, <1>4, <1>5, <1>6, <1>17, <1>20, <2>1, <2>2 DEF Apart, Somewhere
  <2>3. CASE d # e
    BY <1>0, <1>4, <1>6, <1>17, <1>20, <2>1, <2>3 DEF Apart, Somewhere
  <2> QED
    BY <2>2, <2>3
<1>23. NoneLost'
  <2> SUFFICES ASSUME NEW d \in 1 .. next - 1 PROVE Somewhere(d)' \/ d \in leaked'
    BY <1>4 DEF NoneLost
  <2>1. d \in Ids /\ (Somewhere(d) \/ d \in leaked)
    BY <1>0, IdRange DEF NoneLost, TypeOK
  <2> QED
    BY <1>4, <1>17, <1>20, <2>1 DEF Somewhere
<1> QED
  BY <1>0, <1>4, <1>13, <1>14, <1>16, <1>18, <1>19, <1>22, <1>23 DEF IInv, Inv

\* The owner stores the new length, which clears the flag: the list ends where free
\* has stopped writing, and an id it was asked to free goes to the emptied buffer.
LEMMA StoreIInv ==
    ASSUME IInv, ~borrowed, FreeStore
    PROVE  IInv'
<1>0. /\ TypeOK /\ WordOk /\ CallsOk /\ Homes /\ NoneLost /\ RemotesOk
      /\ held[PLACEHOLDER] = 0 /\ \A e \in Ids : held[e] \in Nat
      /\ word \in Words /\ ops \in Nat
  BY Parts
<1>1. /\ fr.pc = "write" /\ fr.src = {} /\ word' = [fr.old EXCEPT !.len = fr.at]
      /\ fr' = NoFree /\ free_buf' = free_buf \cup fr.push
      /\ UNCHANGED <<slots, next, alloc_buf, held, leaked, req, rem, is_closed, ops, panicked,
                     borrowed>>
  BY DEF FreeStore
<1>2. /\ fr \in Frees /\ fr.at \in Nat /\ fr.at < MAX /\ Listed = fr.at /\ fr.old \in Words
      /\ ~fr.old.disabled /\ word.len = fr.old.len /\ word.gen = fr.old.gen
      /\ fr.old.len <= fr.at
  BY <1>1, Writing
<1>3. /\ word' \in Words /\ ~word'.disabled /\ word'.len = fr.at /\ word'.gen = word.gen
      /\ word.len <= word'.len
  BY <1>1, <1>2, Widths DEF Words
<1>4. Listed' = Listed
  BY <1>1, <1>2, <1>3 DEF Listed, NoFree, Length
<1>5. /\ CallsOk' /\ SlotsOk'
      /\ \A i \in Indices : Slot(i)' = Slot(i)
      /\ \A e \in Ids : (InSlot(e)' <=> InSlot(e)) /\ (InFresh(e)' <=> InFresh(e))
  BY <1>1, <1>4, PlacesSame
<1>6. Pops(word') = Pops(word)
  BY <1>3 DEF Pops
<1>7. WordOk'
  BY <1>0, <1>1, <1>2, <1>3, <1>4, <1>6 DEF WordOk, NoFree
<1>8. RemotesOk'
  <2> SUFFICES ASSUME NEW r \in Remotes, rem[r].pc \in {"loaded", "read"}, Current(r)
               PROVE  rem[r].state.len <= word'.len
    BY <1>0, <1>1, <1>6, Zenon DEF RemotesOk, Current, Slot
  <2>1. rem[r].state.len <= word.len /\ rem[r].state \in Words
    BY <1>0 DEF RemotesOk, TypeOK, RemoteOps
  <2> QED
    BY <1>0, <1>3, <2>1, Widths DEF Words
<1>9. NoFree \in Frees
  BY <1>2, Widths DEF Frees, NoFree, Words, Word0
<1>10. TypeOK'
  <2>1. fr.push \in SUBSET Ids
    BY <1>2 DEF Frees
  <2> QED
    BY <1>0, <1>1, <1>3, <1>9, <2>1 DEF TypeOK
<1>11. \A d \in Ids : /\ InHands(d) <=> d \in fr.push
                      /\ ~InHands(d)'
                      /\ InBuffer(d)' <=> InBuffer(d) \/ d \in fr.push
  BY <1>1 DEF InHands, InBuffer, NoFree
<1>12. Homes'
  <2> SUFFICES ASSUME NEW d \in Ids PROVE Apart(d)' /\ (Somewhere(d)' => d < next')
    BY DEF Homes
  <2>1. Apart(d) /\ (Somewhere(d) => d < next)
    BY <1>0 DEF Homes
  <2>2. ~(d \in fr'.src /\ d \in fr'.push) /\ ~(d \in free_buf' /\ d \in alloc_buf')
    BY <1>1, <1>11, <2>1 DEF Apart, NoFree, InBuffer
  <2>3. held'[d] = held[d] /\ next' = next
    BY <1>1
  <2> QED
    BY <1>5, <1>11, <2>1, <2>2, <2>3 DEF Apart, Somewhere
<1>13. NoneLost'
  <2> SUFFICES ASSUME NEW d \in 1 .. next - 1 PROVE Somewhere(d)' \/ d \in leaked'
    BY <1>1 DEF NoneLost
  <2>1. d \in Ids /\ (Somewhere(d) \/ d \in leaked)
    BY <1>0, IdRange DEF NoneLost, TypeOK
  <2> QED
    BY <1>1, <1>5, <1>11, <2>1 DEF Somewhere
<1> QED
  BY <1>0, <1>1, <1>5, <1>7, <1>8, <1>10, <1>12, <1>13 DEF IInv, Inv

-----------------------------------------------------------------------------
\* A step of one remote that leaves the list alone, if what the remote knows is true.
LEMMA RemoteMoves ==
    ASSUME IInv, ~borrowed, NEW r \in Remotes, NEW q \in RemoteOps,
           rem' = [rem EXCEPT ![r] = q], UNCHANGED <<word, slots, req, fr, ops>>,
           q.pc \in {"loaded", "read"} =>
               /\ Pops(q.state) <= Pops(word)
               /\ (Pops(q.state) = Pops(word) /\ ~q.state.disabled) => q.state.len <= word.len,
           q.pc = "read" =>
               /\ ~q.state.disabled /\ Length(q.state) > 0
               /\ Pops(q.state) = Pops(word) => q.val = Slot(Length(q.state) - 1)
    PROVE  /\ rem' \in [Remotes -> RemoteOps]
           /\ WordOk' /\ CallsOk' /\ SlotsOk' /\ RemotesOk'
           /\ \A e \in Ids : (InSlot(e)' <=> InSlot(e)) /\ (InFresh(e)' <=> InFresh(e))
                             /\ (InHands(e)' <=> InHands(e))
<1>0. TypeOK /\ WordOk /\ RemotesOk
  BY Parts
<1>1. Listed' = Listed /\ Pops(word') = Pops(word)
  BY DEF Listed
<1>2. /\ CallsOk' /\ SlotsOk'
      /\ \A e \in Ids : (InSlot(e)' <=> InSlot(e)) /\ (InFresh(e)' <=> InFresh(e))
  BY <1>1, PlacesSame
<1>3. WordOk'
  BY <1>0, <1>1 DEF WordOk
<1>4. /\ rem' \in [Remotes -> RemoteOps] /\ rem'[r] = q
      /\ \A a \in Remotes \ {r} : rem'[a] = rem[a]
  BY <1>0 DEF TypeOK
<1>5. RemotesOk'
  <2> SUFFICES ASSUME NEW a \in Remotes
               PROVE  /\ rem'[a].pc \in {"loaded", "read"} =>
                            /\ Pops(rem'[a].state) <= Pops(word')
                            /\ Current(a)' => rem'[a].state.len <= word'.len
                      /\ rem'[a].pc = "read" =>
                            /\ ~rem'[a].state.disabled /\ Length(rem'[a].state) > 0
                            /\ Current(a)' => rem'[a].val = Slot(Length(rem[a].state) - 1)'
    BY Zenon DEF RemotesOk
  <2>1. CASE a = r
    BY <1>1, <1>4, <2>1 DEF Current, Slot
  <2>2. CASE a # r
    BY <1>0, <1>1, <1>4, <2>2 DEF RemotesOk, Current, Slot
  <2> QED
    BY <2>1, <2>2
<1>6. \A e \in Ids : InHands(e)' <=> InHands(e)
  BY DEF InHands
<1> QED
  BY <1>2, <1>3, <1>4, <1>5, <1>6

\* The rest of the invariant, when only what a remote knows has changed.
LEMMA RemoteOnly ==
    ASSUME IInv, ~borrowed, WordOk', CallsOk', SlotsOk', RemotesOk',
           rem' \in [Remotes -> RemoteOps],
           UNCHANGED <<word, slots, next, free_buf, alloc_buf, held, leaked, req, fr,
                       is_closed, ops, panicked, borrowed>>,
           \A e \in Ids : (InSlot(e)' <=> InSlot(e)) /\ (InFresh(e)' <=> InFresh(e))
                          /\ (InHands(e)' <=> InHands(e))
    PROVE  IInv'
<1>0. /\ TypeOK /\ Homes /\ NoneLost /\ held[PLACEHOLDER] = 0
  BY Parts
<1>1. TypeOK'
  BY <1>0 DEF TypeOK
<1>2. Homes' /\ NoneLost'
  BY <1>0, IdRange DEF TypeOK, Homes, NoneLost, Apart, Somewhere, InBuffer
<1> QED
  BY <1>0, <1>1, <1>2 DEF IInv, Inv

\* The word a remote loads is up to date.
LEMMA LoadIInv ==
    ASSUME IInv, ~borrowed, NEW r \in Remotes, RemoteLoad(r) \/ RemoteSnooze(r)
    PROVE  IInv'
<1>0. TypeOK /\ word \in Words /\ rem[r] \in RemoteOps /\ PLACEHOLDER \in Values
      /\ Pops(word) \in Nat
  BY Parts, Widths DEF TypeOK, Values, Pops, Words
<1>1. PICK v \in Values :
         rem' = [rem EXCEPT ![r] = [pc |-> "loaded", state |-> word, val |-> v]]
  <2>1. CASE RemoteLoad(r)
    BY <1>0, <2>1 DEF RemoteLoad
  <2>2. CASE RemoteSnooze(r)
    <3>1. [rem[r] EXCEPT !.state = word] = [pc |-> "loaded", state |-> word, val |-> rem[r].val]
      BY <1>0, <2>2 DEF RemoteSnooze, RemoteOps
    <3>2. rem' = [rem EXCEPT ![r] = [rem[r] EXCEPT !.state = word]]
      BY <2>2 DEF RemoteSnooze
    <3> QED
      BY <1>0, <3>1, <3>2 DEF RemoteOps
  <2> QED
    BY <2>1, <2>2
<1> DEFINE q == [pc |-> "loaded", state |-> word, val |-> v]
<1>2. /\ q \in RemoteOps /\ q.pc = "loaded" /\ q.pc # "read"
      /\ Pops(q.state) <= Pops(word) /\ q.state.len <= word.len
  <2>1. q.state = word
    OBVIOUS
  <2>2. word.len <= word.len
    BY <1>0, Widths DEF Words
  <2> QED
    BY <1>0, <2>1, <2>2 DEF RemoteOps
<1>3. UNCHANGED <<word, slots, next, free_buf, alloc_buf, held, leaked, req, fr,
                  is_closed, ops, panicked, borrowed>>
  BY DEF RemoteLoad, RemoteSnooze
<1>4. rem' = [rem EXCEPT ![r] = q]
  BY <1>1
<1> HIDE DEF q
<1>5. /\ rem' \in [Remotes -> RemoteOps]
      /\ WordOk' /\ CallsOk' /\ SlotsOk' /\ RemotesOk'
      /\ \A e \in Ids : (InSlot(e)' <=> InSlot(e)) /\ (InFresh(e)' <=> InFresh(e))
                        /\ (InHands(e)' <=> InHands(e))
  BY <1>0, <1>2, <1>3, <1>4, RemoteMoves
<1> QED
  BY <1>3, <1>5, RemoteOnly

\* The slot a remote reads races with free only if the word it has read is out of date.
LEMMA ReadIInv ==
    ASSUME IInv, ~borrowed, NEW r \in Remotes, RemoteRead(r)
    PROVE  IInv'
<1> DEFINE s == rem[r].state
<1>0. TypeOK /\ RemotesOk /\ word \in Words /\ rem[r] \in RemoteOps /\ s \in Words
  BY Parts DEF TypeOK, RemoteOps
<1>1. /\ rem[r].pc = "loaded" /\ ~s.disabled
      /\ UNCHANGED <<word, slots, next, free_buf, alloc_buf, held, leaked, req, fr,
                     is_closed, ops, panicked, borrowed>>
  BY DEF RemoteRead
<1>2. /\ Pops(s) <= Pops(word)
      /\ Pops(s) = Pops(word) => s.len <= word.len
  BY <1>0, <1>1 DEF RemotesOk, Current
<1>3. ASSUME NEW q \in RemoteOps, rem' = [rem EXCEPT ![r] = q], q.state = s,
             q.pc # "loaded",
             q.pc = "read" => /\ Length(s) > 0
                              /\ Pops(s) = Pops(word) => q.val = Slot(Length(s) - 1)
      PROVE  IInv'
  <2>1. /\ rem' \in [Remotes -> RemoteOps]
        /\ WordOk' /\ CallsOk' /\ SlotsOk' /\ RemotesOk'
        /\ \A e \in Ids : (InSlot(e)' <=> InSlot(e)) /\ (InFresh(e)' <=> InFresh(e))
                          /\ (InHands(e)' <=> InHands(e))
    BY <1>1, <1>2, <1>3, RemoteMoves
  <2> QED
    BY <1>1, <2>1, RemoteOnly
<1>4. CASE rem' = [rem EXCEPT ![r].pc = "fresh"]
  <2> DEFINE q == [rem[r] EXCEPT !.pc = "fresh"]
  <2>1. q \in RemoteOps /\ q.state = s /\ q.pc = "fresh" /\ rem' = [rem EXCEPT ![r] = q]
    BY <1>0, <1>4 DEF RemoteOps
  <2> QED
    BY <1>3, <2>1
<1>5. ASSUME Length(s) # 0,
             NEW v \in IF Racing(Length(s) - 1) THEN Values ELSE {Slot(Length(s) - 1)},
             rem' = [rem EXCEPT ![r].pc = "read", ![r].val = v]
      PROVE  IInv'
  <2>1. Length(s) > 0 /\ Length(s) = s.len /\ Length(s) - 1 \in Indices
    BY <1>0, <1>5, Widths DEF Length, Words, Indices
  <2>2. v \in Values
    BY <1>0, <1>5, <2>1, SlotType DEF TypeOK
  <2>3. ASSUME Pops(s) = Pops(word) PROVE v = Slot(Length(s) - 1)
    <3>1. s.len <= word.len
      BY <1>2, <2>3
    <3>2. ~Racing(Length(s) - 1)
      <4> SUFFICES ASSUME fr.pc = "write" PROVE Length(s) - 1 < Length(fr.old)
        BY <1>0, <2>1, Widths, Writing DEF Racing, Length, Words, Indices
      <4>1. word.len = fr.old.len /\ fr.old \in Words
        BY Writing
      <4> QED
        BY <1>0, <2>1, <3>1, <4>1, Widths DEF Length, Words
    <3> QED
      BY <1>5, <3>2
  <2> DEFINE q == [rem[r] EXCEPT !.pc = "read", !.val = v]
  <2>4. q \in RemoteOps /\ q.state = s /\ q.pc = "read" /\ q.val = v
        /\ rem' = [rem EXCEPT ![r] = q]
    BY <1>0, <1>5, <2>2 DEF RemoteOps
  <2> HIDE DEF q
  <2> QED
    BY <1>3, <2>1, <2>3, <2>4
<1> QED
  BY <1>4, <1>5 DEF RemoteRead

\* A claim that succeeds: nothing was popped since the remote read the word, so the
\* slot it has read is the last one of the list, and its id is nobody else's.
LEMMA CasIInv ==
    ASSUME IInv, ~borrowed, NEW r \in Remotes, RemoteCas(r)
    PROVE  IInv'
<1>0. /\ TypeOK /\ WordOk /\ CallsOk /\ SlotsOk /\ Homes /\ NoneLost /\ RemotesOk
      /\ held[PLACEHOLDER] = 0 /\ word \in Words /\ Length(word) \in Nat
      /\ rem[r] \in RemoteOps /\ ops \in Nat /\ \A e \in Ids : held[e] \in Nat
      /\ Pops(word) \in Nat
  BY Parts, Widths DEF TypeOK, Pops, Words
<1>1. /\ rem[r].pc = "read"
      /\ UNCHANGED <<slots, next, free_buf, alloc_buf, leaked, req, fr, is_closed, panicked>>
  BY DEF RemoteCas
<1>2. CASE /\ rem' = [rem EXCEPT ![r].pc = "loaded", ![r].state = word,
                                 ![r].val = PLACEHOLDER]
           /\ UNCHANGED <<word, held, ops, borrowed>>
  <2> DEFINE q == [rem[r] EXCEPT !.pc = "loaded", !.state = word, !.val = PLACEHOLDER]
  <2>1. q \in RemoteOps /\ q.pc = "loaded" /\ q.pc # "read" /\ q.state = word
    BY <1>0 DEF RemoteOps, Values
  <2>2. rem' = [rem EXCEPT ![r] = q]
    BY <1>0, <1>2 DEF RemoteOps
  <2> HIDE DEF q
  <2>3. Pops(q.state) <= Pops(word) /\ q.state.len <= word.len
    <3>1. word.len <= word.len
      BY <1>0, Widths DEF Words
    <3> QED
      BY <1>0, <2>1, <3>1
  <2>4. /\ rem' \in [Remotes -> RemoteOps]
        /\ WordOk' /\ CallsOk' /\ SlotsOk' /\ RemotesOk'
        /\ \A e \in Ids : (InSlot(e)' <=> InSlot(e)) /\ (InFresh(e)' <=> InFresh(e))
                          /\ (InHands(e)' <=> InHands(e))
    BY <1>1, <1>2, <2>1, <2>2, <2>3, RemoteMoves
  <2> QED
    BY <1>1, <1>2, <2>4, RemoteOnly
<1>3. CASE /\ word = rem[r].state
           /\ ops < MaxOps /\ ops' = ops + 1
           /\ word' = Pop(word, 1)
           /\ borrowed' = (word.len - 1 < -BIAS)
           /\ HandOut(rem[r].val)
           /\ rem' = [rem EXCEPT ![r] = NoRemote]
  <2>1. /\ ~word.disabled /\ Length(word) > 0 /\ word.len > 0 /\ Length(word) = word.len
        /\ rem[r].val = Slot(Length(word) - 1)
    <3>1. /\ ~rem[r].state.disabled /\ Length(rem[r].state) > 0 /\ Current(r)
          /\ rem[r].val = Slot(Length(rem[r].state) - 1)
      BY <1>0, <1>1, <1>3 DEF RemotesOk, Current
    <3> QED
      BY <1>0, <1>3, <3>1, Widths DEF Length, Words
  <2>2. fr.pc = "idle" /\ fr = NoFree /\ Listed = Length(word) /\ Length(word) < MAX
    <3>1. fr.pc # "write"
      <4> SUFFICES ASSUME fr.pc = "write" PROVE FALSE
        OBVIOUS
      <4>1. word = [fr.old EXCEPT !.disabled = TRUE] /\ fr.old \in Words
        BY Writing
      <4> QED
        BY <2>1, <4>1 DEF Words
    <3>2. fr.pc = "idle"
      BY <1>0, <3>1 DEF TypeOK, Frees
    <3> QED
      BY <1>0, <3>2 DEF WordOk, Listed
  <2>3. ~borrowed' /\ word.len - 1 >= -BIAS
    BY <1>0, <1>3, <2>1, Widths DEF Words
  <2>4. Pops(word) < GENERATIONS - 1
    BY <1>0, <1>3, Widths DEF WordOk
  <2>5. /\ word' \in Words /\ ~word'.disabled /\ Length(word') = Length(word) - 1
        /\ Pops(word') = Pops(word) + 1
    <3>1. 1 \in 0 .. MAX
      BY Widths
    <3>2. /\ Pop(word, 1) \in Words /\ Pop(word, 1).disabled = word.disabled
          /\ Length(Pop(word, 1)) = (IF Length(word) > 1 THEN Length(word) - 1 ELSE 0)
          /\ Pops(Pop(word, 1)) = Pops(word) + 1
      BY <1>0, <2>3, <2>4, <3>1, PopEffect
    <3> QED
      BY <1>0, <1>3, <2>1, <3>2
  <2>6. PICK last \in Indices : last = Length(word) - 1
    BY <1>0, <2>1, <2>2, Widths DEF Indices
  <2>7. PICK e \in Ids : e = Slot(last) /\ e = rem[r].val
    BY <1>0, <2>1, <2>2, <2>6 DEF SlotsOk, Owned
  <2>8. Listed' = Listed - 1 /\ last = Listed'
    BY <1>1, <2>2, <2>5, <2>6 DEF Listed
  <2>9. /\ \A i \in Indices : Slot(i)' = Slot(i)
        /\ \A c \in Callers, i \in Indices : Taken(c, i)' <=> Taken(c, i)
    BY <1>1 DEF Slot, Taken
  <2>10. \A i \in Indices : Owned(i)' <=> Owned(i) /\ i # last
    <3> SUFFICES ASSUME NEW i \in Indices PROVE Owned(i)' <=> Owned(i) /\ i # last
      OBVIOUS
    <3>1. \A c \in Callers : Taken(c, i) => i >= Listed
      BY <1>0 DEF CallsOk
    <3>2. i < Listed' <=> i < Listed /\ i # last
      BY <1>0, <2>2, <2>6, <2>8 DEF Indices
    <3>3. i = last => ~(i >= Listed)
      BY <1>0, <2>2, <2>6
    <3> QED
      BY <2>9, <3>1, <3>2, <3>3 DEF Owned
  <2>11. WordOk'
    <3>1. Listed' < MAX
      BY <1>0, <2>2, <2>8, Widths
    <3>2. Pops(word') <= ops'
      BY <1>0, <1>3, <2>5 DEF WordOk
    <3> QED
      BY <1>1, <2>2, <2>5, <3>1, <3>2 DEF WordOk
  <2>12. CallsOk'
    <3>1. \A i \in Indices : i >= Listed => i >= Listed'
      BY <1>0, <2>2, <2>8 DEF Indices
    <3> QED
      BY <1>0, <1>1, <2>9, <3>1 DEF CallsOk
  <2>13. SlotsOk'
    BY <1>0, <2>9, <2>10 DEF SlotsOk
  <2>14. Owned(last)
    BY <1>0, <2>2, <2>6 DEF Owned
  <2>15. \A d \in Ids : InSlot(d)' <=> InSlot(d) /\ d # e
    <3> SUFFICES ASSUME NEW d \in Ids PROVE InSlot(d)' <=> InSlot(d) /\ d # e
      OBVIOUS
    <3>1. ASSUME InSlot(d)' PROVE InSlot(d) /\ d # e
      <4>1. PICK i \in Indices : Owned(i)' /\ Slot(i)' = d
        BY <3>1 DEF InSlot
      <4>2. Owned(i) /\ i # last /\ Slot(i) = d
        BY <2>9, <2>10, <4>1
      <4> QED
        BY <1>0, <2>7, <2>14, <4>2 DEF InSlot, SlotsOk
    <3>2. ASSUME InSlot(d), d # e PROVE InSlot(d)'
      BY <2>7, <2>9, <2>10, <3>2 DEF InSlot
    <3> QED
      BY <3>1, <3>2
  <2>16. InSlot(e)
    BY <2>7, <2>14 DEF InSlot
  <2>17. /\ held' \in [Values -> Nat] /\ held'[PLACEHOLDER] = 0
         /\ held'[e] = held[e] + 1 /\ \A d \in Ids \ {e} : held'[d] = held[d]
    BY <1>0, <1>3, <2>7, HandOutEffect
  <2>18. NoRemote \in RemoteOps /\ rem' \in [Remotes -> RemoteOps] /\ rem'[r].pc = "idle"
         /\ \A a \in Remotes \ {r} : rem'[a] = rem[a]
    <3>1. NoRemote \in RemoteOps
      BY Widths DEF NoRemote, RemoteOps, Words, Word0, Values
    <3> QED
      BY <1>0, <1>3, <3>1 DEF TypeOK, NoRemote
  <2>19. RemotesOk'
    <3> SUFFICES ASSUME NEW a \in Remotes \ {r}, rem[a].pc \in {"loaded", "read"}
                 PROVE  Pops(rem[a].state) <= Pops(word') /\ Pops(rem[a].state) # Pops(word')
      BY <1>0, <2>18, Zenon DEF RemotesOk, Current
    <3>1. Pops(rem[a].state) <= Pops(word) /\ rem[a].state \in Words
      BY <1>0 DEF RemotesOk, TypeOK, RemoteOps
    <3>2. Pops(rem[a].state) \in Nat
      BY <3>1, Widths DEF Pops, Words
    <3> QED
      BY <1>0, <2>5, <3>1, <3>2
  <2>20. TypeOK'
    <3>1. ops' \in 0 .. MaxOps
      BY <1>0, <1>3, Widths
    <3>2. borrowed' \in BOOLEAN
      BY <1>3
    <3> QED
      BY <1>0, <1>1, <2>5, <2>17, <2>18, <3>1, <3>2 DEF TypeOK
  <2>21. \A d \in Ids : /\ InFresh(d)' <=> InFresh(d)
                        /\ InHands(d)' <=> InHands(d)
                        /\ InBuffer(d)' <=> InBuffer(d)
    BY <1>1 DEF InFresh, InHands, InBuffer
  <2>22. Homes'
    <3> SUFFICES ASSUME NEW d \in Ids PROVE Apart(d)' /\ (Somewhere(d)' => d < next')
      BY DEF Homes
    <3>1. Apart(d) /\ (Somewhere(d) => d < next)
      BY <1>0 DEF Homes
    <3>2. CASE d = e
      BY <1>0, <1>1, <2>15, <2>16, <2>17, <2>21, <3>1, <3>2 DEF Apart, Somewhere
    <3>3. CASE d # e
      BY <1>0, <1>1, <2>15, <2>17, <2>21, <3>1, <3>3 DEF Apart, Somewhere
    <3> QED
      BY <3>2, <3>3
  <2>23. NoneLost'
    <3> SUFFICES ASSUME NEW d \in 1 .. next - 1 PROVE Somewhere(d)' \/ d \in leaked'
      BY <1>1 DEF NoneLost
    <3>1. d \in Ids /\ (Somewhere(d) \/ d \in leaked)
      BY <1>0, IdRange DEF NoneLost, TypeOK
    <3> QED
      BY <1>0, <1>1, <2>15, <2>17, <2>21, <3>1 DEF Somewhere
  <2> QED
    BY <2>11, <2>12, <2>13, <2>17, <2>19, <2>20, <2>22, <2>23 DEF IInv, Inv
<1> QED
  BY <1>2, <1>3 DEF RemoteCas

\* A remote mints: the next fresh id has no home yet, or there is none left.
LEMMA RemoteMintIInv ==
    ASSUME IInv, ~borrowed, NEW r \in Remotes, RemoteMint(r)
    PROVE  IInv'
<1>0. /\ TypeOK /\ Homes /\ NoneLost /\ held[PLACEHOLDER] = 0 /\ next \in 1 .. MAX
      /\ \A e \in Ids : held[e] \in Nat
  BY Parts
<1>1. /\ rem' = [rem EXCEPT ![r] = NoRemote]
      /\ UNCHANGED <<word, slots, free_buf, alloc_buf, leaked, req, fr, is_closed, ops,
                     borrowed>>
  BY DEF RemoteMint
<1>2. NoRemote \in RemoteOps /\ NoRemote.pc = "idle"
  BY Widths DEF NoRemote, RemoteOps, Words, Word0, Values
<1>3. /\ rem' \in [Remotes -> RemoteOps]
      /\ WordOk' /\ CallsOk' /\ SlotsOk' /\ RemotesOk'
      /\ \A e \in Ids : (InSlot(e)' <=> InSlot(e)) /\ (InFresh(e)' <=> InFresh(e))
                        /\ (InHands(e)' <=> InHands(e))
  BY <1>1, <1>2, RemoteMoves
<1>4. \A d \in Ids : InBuffer(d)' <=> InBuffer(d)
  BY <1>1 DEF InBuffer
<1>5. CASE panicked' = TRUE /\ UNCHANGED <<held, next>>
  <2>1. TypeOK'
    BY <1>0, <1>1, <1>3, <1>5 DEF TypeOK
  <2>2. Homes' /\ NoneLost'
    BY <1>0, <1>1, <1>3, <1>4, <1>5, IdRange DEF Homes, NoneLost, Apart, Somewhere
  <2> QED
    BY <1>0, <1>1, <1>3, <1>5, <2>1, <2>2 DEF IInv, Inv
<1>6. CASE next < MAX /\ HandOut(next) /\ next' = next + 1 /\ UNCHANGED panicked
  <2>1. PICK e \in Ids : e = next
    BY <1>0, <1>6, Widths DEF Ids
  <2>2. ~Somewhere(e)
    BY <1>0, <2>1 DEF Homes
  <2>3. /\ held' \in [Values -> Nat] /\ held'[PLACEHOLDER] = 0
        /\ held'[e] = held[e] + 1 /\ \A d \in Ids \ {e} : held'[d] = held[d]
    BY <1>0, <1>6, <2>1, HandOutEffect
  <2>4. next' \in 1 .. MAX /\ \A d \in Ids : d < next' <=> d < next \/ d = e
    BY <1>0, <1>6, <2>1, Widths DEF Ids
  <2>5. TypeOK'
    BY <1>0, <1>1, <1>3, <1>6, <2>3, <2>4 DEF TypeOK
  <2>6. Homes'
    <3> SUFFICES ASSUME NEW d \in Ids PROVE Apart(d)' /\ (Somewhere(d)' => d < next')
      BY DEF Homes
    <3>1. Apart(d) /\ (Somewhere(d) => d < next)
      BY <1>0 DEF Homes
    <3>2. CASE d = e
      BY <1>0, <1>1, <1>3, <1>4, <2>2, <2>3, <2>4, <3>1, <3>2 DEF Apart, Somewhere
    <3>3. CASE d # e
      BY <1>0, <1>1, <1>3, <1>4, <2>3, <2>4, <3>1, <3>3 DEF Apart, Somewhere
    <3> QED
      BY <3>2, <3>3
  <2>7. NoneLost'
    <3> SUFFICES ASSUME NEW d \in 1 .. next' - 1 PROVE Somewhere(d)' \/ d \in leaked'
      BY DEF NoneLost
    <3>1. d \in Ids /\ d < next'
      BY <2>4, IdRange
    <3>2. CASE d = e
      BY <1>0, <2>3, <3>2 DEF Somewhere
    <3>3. CASE d # e
      <4>1. d \in 1 .. next - 1
        BY <1>0, <2>4, <3>1, <3>3, Widths DEF Ids
      <4>2. Somewhere(d) \/ d \in leaked
        BY <1>0, <4>1 DEF NoneLost
      <4> QED
        BY <1>1, <1>3, <1>4, <2>3, <3>1, <3>3, <4>2 DEF Somewhere
    <3> QED
      BY <3>2, <3>3
  <2> QED
    BY <1>1, <1>3, <2>3, <2>5, <2>6, <2>7 DEF IInv, Inv
<1> QED
  BY <1>5, <1>6 DEF RemoteMint

-----------------------------------------------------------------------------
\* Every step of the allocator keeps the invariant.
LEMMA NextIInv == IInv /\ [Next]_vars => IInv'
<1> SUFFICES ASSUME IInv, [Next]_vars PROVE IInv'
  OBVIOUS
<1>1. CASE UNCHANGED vars
  <2>1. TypeOK'
    BY <1>1 DEF IInv, TypeOK, vars
  <2>2. ASSUME ~borrowed' PROVE Inv'
    <3>1. ~borrowed /\ UNCHANGED <<word, slots, req, fr, rem>> /\ ops' = ops
          /\ UNCHANGED <<next, free_buf, alloc_buf, held, leaked, is_closed, panicked, borrowed>>
      BY <1>1, <2>2 DEF vars
    <3>2. ops \in Nat /\ rem \in [Remotes -> RemoteOps]
      BY <3>1, Parts DEF TypeOK
    <3>3. ops' \in Nat /\ ops' >= ops /\ rem' \in [Remotes -> RemoteOps]
      BY <3>1, <3>2
    <3>4. /\ WordOk' /\ CallsOk' /\ SlotsOk' /\ RemotesOk'
          /\ \A e \in Ids : (InSlot(e)' <=> InSlot(e)) /\ (InFresh(e)' <=> InFresh(e))
                            /\ (InHands(e)' <=> InHands(e))
      BY <3>1, <3>3, ListSame
    <3>5. IInv'
      BY <3>1, <3>3, <3>4, RemoteOnly
    <3> QED
      BY <2>2, <3>5 DEF IInv
  <2> QED
    BY <2>1, <2>2 DEF IInv
<1>2. CASE Next
  <2>1. ~borrowed
    BY <1>2 DEF Next
  <2>2. ASSUME NEW l \in Locals, LocalStep(l) PROVE IInv'
    <3>1. l \in Callers
      BY DEF Callers
    <3>2. CASE LocalAlloc(l)
      <4>1. /\ fr.pc = "idle" /\ req[l].pc = "idle"
            /\ \E n \in 0 .. MAX : PopList(l, n)
        BY <3>2, Widths DEF LocalAlloc, Shared
      <4> QED
        BY <2>1, <3>1, <4>1, PopIInv
    <3> QED
      BY <2>1, <2>2, <3>1, <3>2, MintIInv, YieldIInv, DropIterIInv DEF LocalStep
  <2>3. CASE AllocMutStep
    <3>1. Owner \in Callers
      BY DEF Callers
    <3>2. CASE AllocMut
      <4>1. /\ fr.pc = "idle" /\ req[Owner].pc = "idle" /\ PopList(Owner, LOCAL_SIZE + 1)
        BY <3>1, <3>2 DEF AllocMut, Exclusive
      <4> QED
        BY <2>1, <3>1, <4>1, Widths, PopIInv
    <3> QED
      BY <2>1, <2>3, <3>1, <3>2, BufferedIInv, MintIInv, FillIInv DEF AllocMutStep
  <2>4. CASE FreeStep
    <3>1. ASSUME NEW S \in SUBSET {e \in Ids : held[e] > 0}, FreeMany(S) PROVE IInv'
      <4>1. S \in SUBSET Ids
        OBVIOUS
      <4> QED
        BY <2>1, <3>1, <4>1, FreeManyIInv
    <3> QED
      BY <2>1, <2>4, <3>1, FreeIInv, WriteIInv, StoreIInv DEF FreeStep
  <2>5. ASSUME NEW r \in Remotes, RemoteStep(r) PROVE IInv'
    BY <2>1, <2>5, LoadIInv, ReadIInv, CasIInv, RemoteMintIInv DEF RemoteStep
  <2> QED
    BY <1>2, <2>1, <2>2, <2>3, <2>4, <2>5, DropIInv DEF Next
<1> QED
  BY <1>1, <1>2

-----------------------------------------------------------------------------
(***************************************************************************)
(* How far a length can fall below zero.                                   *)
(***************************************************************************)

\* Each pop that found too little has minted what it lacked, or still wants it.
Debt == panicked \/ -word.len < next + Cardinality(Outstanding)
Settled == (~borrowed => Debt) /\ UnderflowHarmless

\* Pairs of a call and a number up to what it wants.
Pairs(f) == {w \in Callers \X (1 .. MAX) : w[2] <= f[w[1]]}

\* What one call wants can be counted apart from the rest.
LEMMA CountApart ==
    ASSUME NEW f \in [Callers -> 0 .. MAX], NEW c \in Callers
    PROVE  LET rest == {w \in (Callers \ {c}) \X (1 .. MAX) : w[2] <= f[w[1]]}
           IN  /\ Cardinality(Pairs(f)) = Cardinality(rest) + f[c]
               /\ Cardinality(rest) \in Nat
<1> DEFINE rest == {w \in (Callers \ {c}) \X (1 .. MAX) : w[2] <= f[w[1]]}
           mine == {c} \X (1 .. f[c])
<1>1. f[c] \in 0 .. MAX /\ f[c] \in Nat /\ 1 \in Int /\ MAX \in Int
  BY Widths
<1>2. IsFiniteSet(mine) /\ Cardinality(mine) = f[c]
  <2>1. IsFiniteSet(1 .. f[c]) /\ Cardinality(1 .. f[c]) = f[c]
    BY <1>1, FS_Interval
  <2>2. IsFiniteSet({c}) /\ Cardinality({c}) = 1
    BY FS_Singleton
  <2>3. IsFiniteSet(mine) /\ Cardinality(mine) = Cardinality({c}) * Cardinality(1 .. f[c])
    BY <2>1, <2>2, FS_Product
  <2> QED
    BY <1>1, <2>1, <2>2, <2>3
<1>3. IsFiniteSet(rest) /\ Cardinality(rest) \in Nat
  <2>1. IsFiniteSet(Callers) /\ IsFiniteSet(1 .. MAX)
    BY <1>1, AllocAssumption, FS_Interval, FS_AddElement DEF Callers
  <2>2. IsFiniteSet(Callers \ {c})
    BY <2>1, FS_RemoveElement
  <2>3. IsFiniteSet((Callers \ {c}) \X (1 .. MAX))
    BY <2>1, <2>2, FS_Product
  <2> QED
    BY <2>3, FS_Subset, FS_CardinalityType
<1>4. Pairs(f) = rest \cup mine /\ rest \cap mine = {}
  BY <1>1 DEF Pairs
<1>5. Cardinality(rest \cup mine) = Cardinality(rest) + f[c]
  <2>1. Cardinality(rest \cap mine) = 0
    BY <1>4, FS_EmptySet
  <2> HIDE DEF rest, mine
  <2>2. Cardinality(rest \cup mine) =
           Cardinality(rest) + Cardinality(mine) - Cardinality(rest \cap mine)
    BY <1>2, <1>3, FS_Union
  <2> QED
    BY <1>1, <1>2, <1>3, <2>1, <2>2
<1> QED
  BY <1>3, <1>4, <1>5

\* A call wants no more than MAX.
LEMMA ShortRange ==
    ASSUME IInv, ~borrowed
    PROVE  /\ \A c \in Callers : Short(c) \in 0 .. MAX
           /\ Cardinality(Outstanding) \in Nat
<1>1. \A c \in Callers : Short(c) \in 0 .. MAX
  <2> SUFFICES ASSUME NEW c \in Callers PROVE Short(c) \in 0 .. MAX
    OBVIOUS
  <2>1. req[c] \in Requests /\ CallsOk
    BY Parts
  <2>2. /\ req[c].want \in 0 .. MAX /\ req[c].lo \in Nat /\ req[c].hi \in Nat
        /\ req[c].lo <= req[c].hi
        /\ req[c].pc = "popped" => req[c].hi - req[c].lo <= req[c].want
    BY <2>1 DEF Requests, CallsOk
  <2> QED
    BY <2>2, Widths DEF Short
<1>2. IsFiniteSet(Callers \X (1 .. MAX))
  <2>1. IsFiniteSet(Callers) /\ IsFiniteSet(1 .. MAX)
    BY Widths, AllocAssumption, FS_Interval, FS_AddElement DEF Callers
  <2> QED
    BY <2>1, FS_Product
<1>3. Cardinality(Outstanding) \in Nat
  BY <1>2, FS_Subset, FS_CardinalityType DEF Outstanding
<1> QED
  BY <1>1, <1>3

\* What is wanted in all follows what one call wants.
LEMMA WantedStep ==
    ASSUME IInv, ~borrowed, NEW c \in Callers, NEW q,
           req' = [req EXCEPT ![c] = q], Short(c)' \in 0 .. MAX
    PROVE  Cardinality(Outstanding)' = Cardinality(Outstanding) + Short(c)' - Short(c)
<1> DEFINE f == [d \in Callers |-> Short(d)]
           g == [f EXCEPT ![c] = Short(c)']
           rest == {w \in (Callers \ {c}) \X (1 .. MAX) : w[2] <= f[w[1]]}
<1>1. f \in [Callers -> 0 .. MAX] /\ g \in [Callers -> 0 .. MAX] /\ g[c] = Short(c)'
  BY ShortRange
<1>2. \A d \in Callers : Short(d)' = g[d]
  <2>1. \A d \in Callers \ {c} : req'[d] = req[d]
    BY DEF IInv, TypeOK
  <2>2. \A d \in Callers \ {c} : Short(d)' = Short(d)
    BY <2>1 DEF Short
  <2> QED
    BY <2>2
<1>3. Outstanding = Pairs(f)
  BY DEF Outstanding, Pairs
<1>4. Outstanding' = Pairs(g)
  BY <1>2 DEF Outstanding, Pairs
<1>5. {w \in (Callers \ {c}) \X (1 .. MAX) : w[2] <= g[w[1]]} = rest
  OBVIOUS
<1>6. Cardinality(Pairs(f)) = Cardinality(rest) + f[c] /\ Cardinality(rest) \in Nat
  BY <1>1, CountApart
<1>7. Cardinality(Pairs(g)) = Cardinality(rest) + g[c]
  BY <1>1, <1>5, CountApart
<1>8. f[c] = Short(c) /\ Short(c) \in 0 .. MAX
  BY ShortRange
<1> QED
  BY <1>1, <1>3, <1>4, <1>6, <1>7, <1>8, Widths

\* A pop adds to what is wanted what the list lacks; the minting of it takes that away.
LEMMA PopSettled ==
    ASSUME IInv, ~borrowed, Settled, NEW c \in Callers, NEW n \in 0 .. MAX,
           req[c].pc = "idle", PopList(c, n), IInv'
    PROVE  Settled'
<1> DEFINE len == Length(word)
           lo == IF len > n THEN len - n ELSE 0
           q == [pc |-> "popped", want |-> n, lo |-> lo, hi |-> len, fresh |-> {}]
<1>1. /\ req' = [req EXCEPT ![c] = q] /\ word' = Pop(word, n) /\ req'[c] = q
      /\ borrowed' = (word.len - n < -BIAS) /\ next' = next /\ panicked' = panicked
  BY DEF PopList, IInv, TypeOK
<1>2. /\ word.len \in Int /\ len \in Nat /\ len = IF word.len > 0 THEN word.len ELSE 0
      /\ next \in Nat /\ next > 0 /\ n \in Nat
  BY Parts, Widths DEF Words, Length
<1>3. Short(c)' = n - (len - lo)
  BY <1>1 DEF Short
<1>4. Short(c)' \in 0 .. MAX /\ Short(c) = 0
  BY <1>2, <1>3, Widths DEF Short
<1>5. Cardinality(Outstanding)' = Cardinality(Outstanding) + Short(c)'
  <2>1. Cardinality(Outstanding)' = Cardinality(Outstanding) + Short(c)' - Short(c)
    BY <1>1, <1>4, WantedStep
  <2> QED
    BY <1>4, <2>1, ShortRange, Widths
<1>6. Cardinality(Outstanding) \in Nat
  BY ShortRange
<1>7. word.len - n >= -BIAS => word'.len = word.len - n
  BY <1>1, Parts, PopEffect
<1>8. CASE panicked
  BY <1>1, <1>8 DEF Settled, Debt, UnderflowHarmless
<1>9. CASE ~panicked
  <2>1. -word.len < next + Cardinality(Outstanding)
    BY <1>9 DEF Settled, Debt
  <2>2. word.len < n => n - word.len < next' + Cardinality(Outstanding)'
    BY <1>1, <1>2, <1>3, <1>5, <1>6, <2>1
  <2>3. CASE word.len - n >= -BIAS
    <3>0. ~(word.len - n < -BIAS)
      BY <1>2, <2>3, Widths
    <3>1. ~borrowed' /\ word'.len = word.len - n
      BY <1>1, <1>7, <2>3, <3>0, Zenon
    <3>2. next' \in Nat /\ next' > 0 /\ Cardinality(Outstanding)' \in Nat
      BY <1>1, <1>2, <1>4, <1>5, <1>6, Parts, Widths
    <3>3. -word'.len < next' + Cardinality(Outstanding)'
      BY <1>2, <2>2, <3>1, <3>2
    <3> QED
      BY <3>1, <3>3 DEF Settled, Debt, UnderflowHarmless
  <2>4. CASE word.len - n < -BIAS
    <3>1. next' + Cardinality(Outstanding)' > MAX
      BY <1>1, <1>2, <1>4, <1>5, <1>6, <2>2, <2>4, Widths
    <3>2. borrowed'
      BY <1>1, <2>4, Zenon
    <3> QED
      BY <3>1, <3>2 DEF Settled, UnderflowHarmless
  <2> QED
    BY <1>2, <2>3, <2>4, Widths
<1> QED
  BY <1>8, <1>9

LEMMA MintSettled ==
    ASSUME IInv, ~borrowed, Settled, NEW c \in Callers, Mint(c)
    PROVE  Settled'
<1>1. /\ borrowed' = borrowed /\ word' = word /\ next \in Nat /\ word.len \in Int
      /\ req[c].pc = "popped"
  BY Parts, Widths DEF Mint, Words
<1>2. CASE panicked'
  BY <1>1, <1>2 DEF Settled, Debt, UnderflowHarmless
<1>3. CASE ~panicked'
  <2> DEFINE need == req[c].want - (req[c].hi - req[c].lo)
             q == [req[c] EXCEPT !.pc = "ready", !.fresh = next .. next + need - 1]
  <2>1. /\ next' = next + need /\ req' = [req EXCEPT ![c] = q] /\ req'[c].pc = "ready"
        /\ ~panicked
    BY <1>3 DEF Mint, IInv, TypeOK, Requests
  <2>2. Short(c) = need /\ Short(c) \in 0 .. MAX /\ Short(c)' = 0
    BY <1>1, <2>1, ShortRange DEF Short
  <2>3. Cardinality(Outstanding)' = Cardinality(Outstanding) + Short(c)' - Short(c)
    <3>1. Short(c)' \in 0 .. MAX
      BY <2>2, Widths
    <3> QED
      BY <2>1, <3>1, WantedStep
  <2>4. next' + Cardinality(Outstanding)' = next + Cardinality(Outstanding)
    <3> HIDE DEF need
    <3> QED
      BY <1>1, <2>1, <2>2, <2>3, ShortRange, Widths
  <2> QED
    BY <1>1, <2>1, <2>4 DEF Settled, Debt, UnderflowHarmless
<1> QED
  BY <1>2, <1>3

\* Calls that have all they want go on and end without a change of the counts.
LEMMA CallSettled ==
    ASSUME IInv, ~borrowed, Settled, NEW c \in Callers, req[c].pc = "ready",
           NEW q, q.pc # "popped", req' = [req EXCEPT ![c] = q],
           UNCHANGED <<word, next, panicked, borrowed>>
    PROVE  Settled'
<1>1. Short(c) = 0 /\ Short(c)' = 0
  BY DEF Short, IInv, TypeOK
<1>2. Cardinality(Outstanding)' = Cardinality(Outstanding)
  <2>1. Short(c)' \in 0 .. MAX
    BY <1>1, Widths
  <2>2. Cardinality(Outstanding)' = Cardinality(Outstanding) + Short(c)' - Short(c)
    BY <2>1, WantedStep
  <2> QED
    BY <1>1, <2>2, ShortRange
<1> QED
  BY <1>2 DEF Settled, Debt, UnderflowHarmless

\* Nor does any step that leaves the calls alone and does not shorten the list below zero.
LEMMA RestSettled ==
    ASSUME IInv, ~borrowed, Settled, req' = req, ~borrowed', word'.len \in Int,
           next' \in Nat, next' >= next, word'.len >= word.len \/ word'.len >= 0,
           panicked => panicked'
    PROVE  Settled'
<1>1. Outstanding' = Outstanding
  BY DEF Outstanding, Short
<1>2. next \in Nat /\ next > 0 /\ word.len \in Int /\ Cardinality(Outstanding) \in Nat
  BY Parts, ShortRange, Widths DEF Words
<1> QED
  BY <1>1, <1>2 DEF Settled, Debt, UnderflowHarmless

LEMMA SettledStep ==
    ASSUME IInv, IInv', Settled, [Next]_vars
    PROVE  Settled'
<1>1. CASE UNCHANGED vars
  BY <1>1 DEF vars, Settled, Debt, UnderflowHarmless, Outstanding, Short
<1>2. CASE Next
  <2>0. ~borrowed /\ word.len \in Int /\ next \in Nat /\ word'.len \in Int /\ next' \in Nat
    BY <1>2, Parts, Widths DEF Next, IInv, TypeOK, Words
  <2>1. ASSUME NEW l \in Locals, LocalStep(l) PROVE Settled'
    <3>1. l \in Callers /\ req[l] \in Requests
      BY <2>0, Parts DEF Callers
    <3>2. CASE LocalAlloc(l)
      BY <2>0, <3>1, <3>2, PopSettled, Widths DEF LocalAlloc
    <3>3. CASE Mint(l)
      BY <2>0, <3>1, <3>3, MintSettled
    <3>4. CASE Yield(l)
      <4>1. /\ req[l].pc = "ready" /\ UNCHANGED <<word, next, panicked, borrowed>>
            /\ \E q : q.pc # "popped" /\ req' = [req EXCEPT ![l] = q]
        <5>1. /\ [req[l] EXCEPT !.lo = @ + 1].pc = req[l].pc
              /\ \A e : [req[l] EXCEPT !.fresh = @ \ {e}].pc = req[l].pc
          BY <3>1 DEF Requests
        <5> QED
          BY <3>4, <5>1 DEF Yield
      <4> QED
        BY <2>0, <3>1, <4>1, CallSettled
    <3>5. CASE DropIter(l)
      <4>1. NoRequest.pc # "popped"
        BY DEF NoRequest
      <4> QED
        BY <2>0, <3>1, <3>5, <4>1, CallSettled DEF DropIter
    <3> QED
      BY <2>1, <3>2, <3>3, <3>4, <3>5 DEF LocalStep
  <2>2. CASE AllocMutStep
    <3>1. Owner \in Callers
      BY DEF Callers
    <3>2. CASE AllocMutBuffered
      BY <2>0, <3>2, RestSettled DEF AllocMutBuffered
    <3>3. CASE AllocMut
      BY <2>0, <3>1, <3>3, PopSettled, Widths DEF AllocMut, Exclusive
    <3>4. CASE Mint(Owner)
      BY <2>0, <3>1, <3>4, MintSettled
    <3>5. CASE AllocMutFill
      <4>1. NoRequest.pc # "popped"
        BY DEF NoRequest
      <4> QED
        BY <2>0, <3>1, <3>5, <4>1, CallSettled DEF AllocMutFill
    <3> QED
      BY <2>2, <3>2, <3>3, <3>4, <3>5 DEF AllocMutStep
  <2>3. CASE FreeStep
    <3> DEFINE Longer == /\ UNCHANGED <<req, next, panicked, borrowed>>
                         /\ word'.len >= word.len \/ word'.len >= 0
    <3>1. Longer
      <4>1. ASSUME NEW S, NEW T, Disable(S, T) PROVE word'.len = word.len
        BY <2>0, <4>1, Parts DEF Disable, Words
      <4>2. ASSUME NEW e \in Ids, Free(e) PROVE Longer
        BY <2>0, <4>1, <4>2 DEF Free
      <4>3. ASSUME NEW S, FreeMany(S) PROVE Longer
        BY <2>0, <4>1, <4>3 DEF FreeMany
      <4>4. CASE FreeWrite
        BY <2>0, <4>4 DEF FreeWrite
      <4>5. CASE FreeStore
        <5>1. fr.old \in Words /\ fr.at \in Nat
          BY Widths DEF IInv, TypeOK, Frees
        <5>2. word'.len = fr.at
          BY <4>5, <5>1 DEF FreeStore, Words
        <5> QED
          BY <4>5, <5>1, <5>2 DEF FreeStore
      <4> QED
        BY <2>3, <4>2, <4>3, <4>4, <4>5 DEF FreeStep
    <3> QED
      BY <2>0, <3>1, RestSettled
  <2>4. CASE DropAllocator
    BY <2>0, <2>4, RestSettled DEF DropAllocator
  <2>5. ASSUME NEW r \in Remotes, RemoteStep(r) PROVE Settled'
    <3>1. CASE RemoteLoad(r) \/ RemoteSnooze(r) \/ RemoteRead(r)
      BY <2>0, <3>1, RestSettled DEF RemoteLoad, RemoteSnooze, RemoteRead
    <3>2. CASE RemoteMint(r)
      BY <2>0, <3>2, RestSettled DEF RemoteMint
    <3>3. CASE RemoteCas(r)
      <4>1. CASE word # rem[r].state
        BY <2>0, <3>3, <4>1, RestSettled DEF RemoteCas
      <4>2. CASE word = rem[r].state
        <5>1. rem[r].pc = "read" /\ Length(word) > 0
          BY <2>0, <3>3, <4>2, Parts DEF RemoteCas, RemotesOk
        <5>2. word.len > 0 /\ word.len - 1 >= -BIAS
          BY <2>0, <5>1, Widths DEF Length
        <5>3. /\ word' = Pop(word, 1) /\ borrowed' = (word.len - 1 < -BIAS)
              /\ req' = req /\ next' = next /\ panicked' = panicked
          BY <3>3, <4>2 DEF RemoteCas
        <5>4. ~borrowed'
          <6>1. ~(word.len - 1 < -BIAS)
            BY <2>0, <5>2, Widths
          <6> QED
            BY <5>3, <6>1, Zenon
        <5>5. word'.len = word.len - 1
          BY <2>0, <5>2, <5>3, Parts, PopEffect, Widths
        <5> QED
          BY <2>0, <5>2, <5>3, <5>4, <5>5, RestSettled
      <4> QED
        BY <4>1, <4>2
    <3> QED
      BY <2>5, <3>1, <3>2, <3>3 DEF RemoteStep
  <2> QED
    BY <1>2, <2>1, <2>2, <2>3, <2>4, <2>5 DEF Next
<1> QED
  BY <1>1, <1>2

-----------------------------------------------------------------------------
\* What is available is at home somewhere other than the world.
LEMMA AvailableIs ==
    ASSUME IInv, ~borrowed, NEW e \in Ids
    PROVE  e \in Available <=> InSlot(e) \/ InFresh(e) \/ InHands(e) \/ InBuffer(e)
<1>0. TypeOK /\ WordOk /\ CallsOk /\ Listed \in Nat /\ \A c \in Callers : req[c] \in Requests
  BY Parts
<1>1. e \in Live <=> \E i \in Indices : i < Listed /\ Slot(i) = e
  <2>1. \A i : i \in 0 .. Listed - 1 <=> i \in Indices /\ i < Listed
    BY <1>0, Widths DEF Indices, WordOk
  <2> QED
    BY <2>1 DEF Live
<1>2. \A c \in Callers : e \in Region(c) <=> \E i \in Indices : Taken(c, i) /\ Slot(i) = e
  <2> SUFFICES ASSUME NEW c \in Callers
               PROVE  e \in Region(c) <=> \E i \in Indices : Taken(c, i) /\ Slot(i) = e
    OBVIOUS
  <2>1. req[c].lo \in Nat /\ req[c].hi \in Nat /\ req[c].hi < MAX
    BY <1>0 DEF Requests, CallsOk
  <2>2. \A i : i \in req[c].lo .. req[c].hi - 1 <=> i \in Indices /\ Taken(c, i)
    BY <2>1, Widths DEF Indices, Taken
  <2> QED
    BY <2>2 DEF Region
<1>3. e \in Live \/ (\E c \in Callers : e \in Region(c)) <=> InSlot(e)
  BY <1>1, <1>2 DEF InSlot, Owned
<1>4. e \in InFlight <=> (\E c \in Callers : e \in Region(c)) \/ InFresh(e)
  BY DEF InFlight, InFresh
<1> QED
  BY <1>3, <1>4 DEF Available, InHands, InBuffer

\* The invariant holds in every state of the allocator.
THEOREM AllocatorInvariant == Spec => []IInv
<1>1. Init => IInv
  BY InitIInv
<1>2. IInv /\ [Next]_vars => IInv'
  BY NextIInv
<1> QED
  BY <1>1, <1>2, PTL DEF Spec

\* The counters of the allocator keep to their widths and its buffers hold ids.
THEOREM AllocatorTypes == Spec => []TypeOK
<1>1. IInv => TypeOK
  BY DEF IInv
<1> QED
  BY <1>1, AllocatorInvariant, PTL

\* An id is handed out to one holder at a time and the placeholder never, whatever
\* local calls, frees and remotes do between each other's steps.
THEOREM AllocatorUnique == Spec => []UniqueHandOut
<1>1. IInv => UniqueHandOut
  <2> SUFFICES ASSUME IInv, ~borrowed
               PROVE  /\ held[PLACEHOLDER] = 0
                      /\ \A e \in Ids : held[e] <= 1 /\ (held[e] = 1 => e \notin Available)
    BY DEF UniqueHandOut
  <2>1. Homes /\ held[PLACEHOLDER] = 0
    BY Parts
  <2> QED
    BY <2>1, AvailableIs DEF Homes, Apart
<1> QED
  BY <1>1, AllocatorInvariant, PTL

\* Every id that was minted is handed out, in the list, in a buffer or in the hands
\* of a call, unless an iterator or a panic dropped it.
THEOREM AllocatorKeepsIds == Spec => []NoIdLost
<1>1. IInv => NoIdLost
  <2> SUFFICES ASSUME IInv, ~borrowed, NEW e \in 1 .. next - 1
               PROVE  held[e] > 0 \/ e \in Available \cup leaked
    BY DEF NoIdLost
  <2>1. NoneLost /\ next \in 1 .. MAX
    BY Parts
  <2>2. e \in Ids /\ (Somewhere(e) \/ e \in leaked)
    BY <2>1, IdRange DEF NoneLost
  <2> QED
    BY <2>2, AvailableIs DEF Somewhere
<1> QED
  BY <1>1, AllocatorInvariant, PTL

\* The length runs into the flag that stops remotes only if more ids are asked for than
\* there are, for any number of threads and any widths.
THEOREM AllocatorUnderflow == Spec => []UnderflowHarmless
<1>1. Init => Settled
  <2> SUFFICES ASSUME Init PROVE Settled
    OBVIOUS
  <2>1. \A c \in Callers : Short(c) = 0
    BY DEF Init, NoRequest, Short
  <2>2. Outstanding = {}
    BY <2>1 DEF Outstanding
  <2>3. Cardinality(Outstanding) = 0
    BY <2>2, FS_EmptySet
  <2> QED
    BY <2>3 DEF Init, Word0, Settled, Debt, UnderflowHarmless
<1>2. IInv /\ IInv' /\ Settled /\ [Next]_vars => Settled'
  BY SettledStep
<1>3. Settled => UnderflowHarmless
  BY DEF Settled
<1> QED
  BY <1>1, <1>2, <1>3, AllocatorInvariant, PTL DEF Spec
=============================================================================
