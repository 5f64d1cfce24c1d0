-------------------------- MODULE EntityAllocator --------------------------
(***************************************************************************)
(* The lock-free allocator of entity ids (zlim-core, entity/allocator.rs). *)
(* Ids are recycled through a free list whose length, disable flag and     *)
(* generation share one atomic word, and minted by a counter when the list *)
(* is empty.  Threads that share the world pop the list with a blind       *)
(* fetch_sub; the thread that has it exclusively frees ids, through a      *)
(* buffer, and refills a buffer of its own; remote allocators, which       *)
(* nothing excludes, read a slot first and then claim it with a            *)
(* compare-exchange of the word.                                           *)
(*                                                                         *)
(* One action per atomic access.  An id is its index: the allocator never  *)
(* touches the generation of an entity.  The buffers of the owner are sets *)
(* (which of their ids comes first plays no part); the slots of the list   *)
(* keep their addresses in the chunks.  A read of a slot while it is       *)
(* written, or after it has been given up, is a data race and yields any   *)
(* value.                                                                  *)
(***************************************************************************)
EXTENDS Integers, FiniteSets

CONSTANTS
    Locals,       \* threads that share the world
    Remotes,      \* threads with a RemoteAllocator
    BITS,         \* width of an index
    NUM_CHUNKS,   \* chunks of the buffer of the free list
    LOCAL_SIZE,   \* capacity of the buffers of the owner
    GENERATIONS,  \* generations of the word
    MaxCount,     \* bound: ids asked for in one call
    MaxOps        \* bound: calls that reach the free list

\* u32::MAX, the bias of the length (LENGTH_0), and the ids there can be.
MAX == 2^BITS - 1

\* Mutant of BIAS: fewer ids fit below zero than can be asked for.
BIASTooSmall == 2^(BITS - 2)

BIAS == 2^BITS
Ids == 1 .. MAX - 1
PLACEHOLDER == MAX
Owner == "owner"
Callers == Locals \cup {Owner}

ASSUME AllocAssumption ==
    /\ MAX \in Nat \ {0, 1} /\ BIAS \in Nat /\ NUM_CHUNKS \in 1 .. BITS /\ LOCAL_SIZE \in 1 .. MAX - 1
    /\ MaxCount \in 0 .. MAX /\ MaxOps \in Nat
    /\ GENERATIONS \in Nat /\ GENERATIONS > MaxOps
    /\ Owner \notin Locals /\ IsFiniteSet(Locals) /\ IsFiniteSet(Remotes)

-----------------------------------------------------------------------------
(***************************************************************************)
(* The chunks of the buffer: 512, 512, 1024, 2048, ... slots in the code.  *)
(***************************************************************************)

NUM_SKIPPED == BITS - NUM_CHUNKS

chunck_capacity(c) == 2^(NUM_SKIPPED + IF c = 0 THEN 1 ELSE c)

leading_zeros(i) == Cardinality({b \in 0 .. BITS - 1 : i < 2^b})

\* FreeBuffer::chunk_with_index: the chunk, and the index without the bit of
\* its capacity.
Address(i) ==
    LET gap == NUM_CHUNKS - 1 - leading_zeros(i)
        c   == IF gap > 0 THEN gap ELSE 0
        cap == chunck_capacity(c)
    IN <<c, IF (i \div cap) % 2 = 1 THEN i - cap ELSE i>>

\* The places of the list, and what makes the chunks one array: every index has
\* a slot of its own, within the capacity of its chunk.
Indices == 0 .. MAX - 1
Addresses == {Address(i) : i \in Indices}

ASSUME AddressAssumption ==
    /\ \A i, j \in Indices : Address(i) = Address(j) => i = j
    /\ \A i \in Indices : /\ Address(i)[1] < NUM_CHUNKS
                          /\ Address(i)[2] < chunck_capacity(Address(i)[1])

-----------------------------------------------------------------------------
VARIABLES
    word,      \* FreeCountState: length (without its bias), flag, generation
    slots,     \* the slots of the free list
    next,      \* FreshAllocator::next
    free_buf,  \* ids the owner has freed and not yet flushed
    alloc_buf, \* ids the owner has drawn ahead
    held,      \* how often an id is handed out and not freed
    leaked,    \* ids lost with an iterator or in a panic
    req,       \* the allocation a local caller is in
    fr,        \* the call of FreeList::free the owner is in
    rem,       \* the allocation a remote is in
    is_closed, \* the EntityAllocator is dropped
    ops,       \* calls that reached the free list
    panicked,  \* somebody panicked with "too many entities"
    borrowed   \* the length has run into the flag

vars == <<word, slots, next, free_buf, alloc_buf, held, leaked, req, fr, rem,
          is_closed, ops, panicked, borrowed>>

Values == Ids \cup {PLACEHOLDER}
Words == [len : -BIAS .. BIAS - 1, disabled : BOOLEAN, gen : 0 .. GENERATIONS - 1]
Word0 == [len |-> 0, disabled |-> FALSE, gen |-> 0]

NoRequest == [pc |-> "idle", want |-> 0, lo |-> 0, hi |-> 0, fresh |-> {}]
NoFree == [pc |-> "idle", old |-> Word0, at |-> 0, src |-> {}, push |-> {}]
NoRemote == [pc |-> "idle", state |-> Word0, val |-> PLACEHOLDER]

Init ==
    /\ word = Word0 /\ slots = [a \in Addresses |-> PLACEHOLDER] /\ next = 1
    /\ free_buf = {} /\ alloc_buf = {}
    /\ held = [e \in Values |-> 0] /\ leaked = {}
    /\ req = [c \in Callers |-> NoRequest] /\ fr = NoFree
    /\ rem = [r \in Remotes |-> NoRemote]
    /\ is_closed = FALSE /\ ops = 0 /\ panicked = FALSE /\ borrowed = FALSE

\* FreeCountState::length: a length below the bias is an empty list.
Length(w) == IF w.len > 0 THEN w.len ELSE 0

PrevGen(g) == IF g = 0 THEN GENERATIONS - 1 ELSE g - 1

\* Mutant of Pop: the generation stays.
PopSameGeneration(w, n) ==
    [w EXCEPT !.len = IF @ - n >= -BIAS THEN @ - n ELSE @ - n + 2 * BIAS]

\* FreeCountState::pop and FreeCount::pop_for_state: one subtraction from the
\* whole word.  A length below zero borrows from the flag and the generation.
Pop(w, n) ==
    IF w.len - n >= -BIAS
    THEN [len |-> w.len - n, disabled |-> w.disabled, gen |-> PrevGen(w.gen)]
    ELSE [len |-> w.len - n + 2 * BIAS, disabled |-> ~w.disabled,
          gen |-> IF w.disabled THEN PrevGen(w.gen) ELSE PrevGen(PrevGen(w.gen))]

Slot(i) == slots[Address(i)]

\* The bound on calls: every remote under way may still pop once.
Bounded == ops + Cardinality({r \in Remotes : rem[r].pc # "idle"}) < MaxOps

HandOut(e) == held' = [held EXCEPT ![e] = @ + 1]

\* &mut EntityAllocator, and &EntityAllocator.
Exclusive == /\ ~is_closed /\ fr.pc = "idle"
             /\ \A c \in Callers : req[c].pc = "idle"
Shared == ~is_closed /\ fr.pc = "idle" /\ req[Owner].pc = "idle"

-----------------------------------------------------------------------------
(***************************************************************************)
(* EntityAllocator::alloc, alloc_many and the slow path of alloc_mut.      *)
(***************************************************************************)

\* FreeList::alloc and alloc_many: the ids between what is left and the old
\* length belong to the caller, whatever their number.
PopList(c, n) ==
    LET len == Length(word)
        lo  == IF len > n THEN len - n ELSE 0
    IN /\ Bounded /\ ops' = ops + 1
       /\ word' = Pop(word, n)
       /\ borrowed' = (word.len - n < -BIAS)
       /\ req' = [req EXCEPT ![c] = [pc |-> "popped", want |-> n, lo |-> lo,
                                     hi |-> len, fresh |-> {}]]
       /\ UNCHANGED <<slots, next, free_buf, alloc_buf, held, leaked, fr, rem,
                      is_closed, panicked>>

LocalAlloc(l) ==
    /\ Shared /\ req[l].pc = "idle"
    /\ \E n \in 0 .. MaxCount : PopList(l, n)

\* The rest comes from FreshAllocator::alloc_many, or the call panics and drops
\* what it has popped.
Region(c) == {Slot(i) : i \in req[c].lo .. req[c].hi - 1}

Mint(c) ==
    LET q == req[c]
        need == q.want - (q.hi - q.lo)
    IN /\ q.pc = "popped"
       /\ \/ /\ next + need <= MAX
             /\ next' = next + need
             /\ req' = [req EXCEPT ![c].pc = "ready", ![c].fresh = next .. next + need - 1]
             /\ UNCHANGED <<leaked, panicked>>
          \/ /\ next + need > MAX
             /\ req' = [req EXCEPT ![c] = NoRequest]
             /\ leaked' = leaked \cup Region(c)
             /\ panicked' = TRUE
             /\ UNCHANGED next
       /\ UNCHANGED <<word, slots, free_buf, alloc_buf, held, fr, rem, is_closed, ops,
                      borrowed>>

\* AllocEntitiesIter::next: recycled ids before fresh ones.
Yield(l) ==
    LET q == req[l] IN
    /\ q.pc = "ready"
    /\ \/ /\ q.lo < q.hi
          /\ HandOut(Slot(q.lo))
          /\ req' = [req EXCEPT ![l].lo = @ + 1]
       \/ /\ q.lo = q.hi /\ q.fresh # {}
          /\ LET e == CHOOSE e \in q.fresh : \A d \in q.fresh : e <= d
             IN /\ HandOut(e)
                /\ req' = [req EXCEPT ![l].fresh = @ \ {e}]
    /\ UNCHANGED <<word, slots, next, free_buf, alloc_buf, leaked, fr, rem, is_closed,
                   ops, panicked, borrowed>>

\* Drop for AllocEntitiesIter: what it has not yielded is lost.
DropIter(l) ==
    /\ req[l].pc = "ready"
    /\ leaked' = leaked \cup Region(l) \cup req[l].fresh
    /\ req' = [req EXCEPT ![l] = NoRequest]
    /\ UNCHANGED <<word, slots, next, free_buf, alloc_buf, held, fr, rem, is_closed,
                   ops, panicked, borrowed>>

\* EntityAllocator::alloc_mut takes from its buffer, or asks for one more id than
\* the buffer holds, returns one of them and keeps the rest.
AllocMutBuffered ==
    /\ Exclusive
    /\ \E e \in alloc_buf : HandOut(e) /\ alloc_buf' = alloc_buf \ {e}
    /\ UNCHANGED <<word, slots, next, free_buf, leaked, req, fr, rem, is_closed, ops,
                   panicked, borrowed>>

AllocMut ==
    /\ Exclusive /\ alloc_buf = {}
    /\ PopList(Owner, LOCAL_SIZE + 1)

AllocMutFill ==
    LET q == req[Owner]
        got == Region(Owner) \cup q.fresh
    IN /\ q.pc = "ready"
       /\ \E e \in got :
             /\ IF q.lo < q.hi THEN e = Slot(q.lo) ELSE \A d \in got : e <= d
             /\ HandOut(e)
             /\ alloc_buf' = alloc_buf \cup (got \ {e})
       /\ req' = [req EXCEPT ![Owner] = NoRequest]
       /\ UNCHANGED <<word, slots, next, free_buf, leaked, fr, rem, is_closed, ops,
                      panicked, borrowed>>

-----------------------------------------------------------------------------
(***************************************************************************)
(* EntityAllocator::free and free_many, and Drop.                          *)
(***************************************************************************)

\* The world gives back ids that it holds.
TakeBack(S) ==
    /\ \A e \in S : held[e] > 0
    /\ held' = [e \in Values |-> IF e \in S THEN held[e] - 1 ELSE held[e]]

\* FreeList::free sets the flag and remembers the word from before.
Disable(S, later) ==
    /\ word' = [word EXCEPT !.disabled = TRUE]
    /\ fr' = [pc |-> "write", old |-> word, at |-> Length(word), src |-> S,
              push |-> later]

Free(e) ==
    /\ Exclusive /\ TakeBack({e})
    /\ \/ /\ Cardinality(free_buf) < LOCAL_SIZE
          /\ free_buf' = free_buf \cup {e}
          /\ UNCHANGED <<word, fr>>
       \/ /\ Cardinality(free_buf) = LOCAL_SIZE
          /\ Disable(free_buf, {e})
          /\ free_buf' = {}
    /\ UNCHANGED <<slots, next, alloc_buf, leaked, req, rem, is_closed, ops, panicked,
                   borrowed>>

FreeMany(S) ==
    /\ Exclusive /\ TakeBack(S)
    /\ Disable(S, {})
    /\ Bounded /\ ops' = ops + 1
    /\ UNCHANGED <<slots, next, free_buf, alloc_buf, leaked, req, rem, is_closed,
                   panicked, borrowed>>

\* FreeBuffer::set_slice.
FreeWrite ==
    /\ fr.pc = "write"
    /\ \E e \in fr.src :
          /\ slots' = [slots EXCEPT ![Address(fr.at)] = e]
          /\ fr' = [fr EXCEPT !.at = @ + 1, !.src = @ \ {e}]
    /\ UNCHANGED <<word, next, free_buf, alloc_buf, held, leaked, req, rem, is_closed,
                   ops, panicked, borrowed>>

\* Mutant of FreeStore: the buffer is emptied only after the id has gone there.
FreeStoreClearsLast ==
    /\ fr.pc = "write" /\ fr.src = {}
    /\ word' = [fr.old EXCEPT !.len = fr.at]
    /\ fr' = NoFree
    /\ free_buf' = IF fr.push = {} THEN free_buf ELSE {}
    /\ UNCHANGED <<slots, next, alloc_buf, held, leaked, req, rem, is_closed, ops,
                   panicked, borrowed>>

\* Mutant of FreeStore: the word is read again, flag included.
FreeStoreKeepsFlag ==
    /\ fr.pc = "write" /\ fr.src = {}
    /\ word' = [word EXCEPT !.len = fr.at]
    /\ fr' = NoFree
    /\ free_buf' = free_buf \cup fr.push
    /\ UNCHANGED <<slots, next, alloc_buf, held, leaked, req, rem, is_closed, ops,
                   panicked, borrowed>>

\* The store of the old word with the new length also clears the flag.  The slow
\* path of free, which has flushed the buffer, then puts the id there.
FreeStore ==
    /\ fr.pc = "write" /\ fr.src = {}
    /\ word' = [fr.old EXCEPT !.len = fr.at]
    /\ fr' = NoFree
    /\ free_buf' = free_buf \cup fr.push
    /\ UNCHANGED <<slots, next, alloc_buf, held, leaked, req, rem, is_closed, ops,
                   panicked, borrowed>>

DropAllocator ==
    /\ Exclusive
    /\ is_closed' = TRUE
    /\ UNCHANGED <<word, slots, next, free_buf, alloc_buf, held, leaked, req, fr, rem,
                   ops, panicked, borrowed>>

-----------------------------------------------------------------------------
(***************************************************************************)
(* RemoteAllocator::alloc.                                                 *)
(***************************************************************************)

RemoteLoad(r) ==
    /\ rem[r].pc = "idle"
    /\ Bounded
    /\ rem' = [rem EXCEPT ![r] = [pc |-> "loaded", state |-> word, val |-> PLACEHOLDER]]
    /\ UNCHANGED <<word, slots, next, free_buf, alloc_buf, held, leaked, req, fr,
                   is_closed, ops, panicked, borrowed>>

RemoteSnooze(r) ==
    /\ rem[r].pc = "loaded" /\ rem[r].state.disabled
    /\ rem' = [rem EXCEPT ![r].state = word]
    /\ UNCHANGED <<word, slots, next, free_buf, alloc_buf, held, leaked, req, fr,
                   is_closed, ops, panicked, borrowed>>

\* The slot may be one that free is writing.
Racing(i) == fr.pc = "write" /\ i >= Length(fr.old)

RemoteRead(r) ==
    LET s == rem[r].state IN
    /\ rem[r].pc = "loaded" /\ ~s.disabled
    /\ IF Length(s) = 0
       THEN rem' = [rem EXCEPT ![r].pc = "fresh"]
       ELSE \E v \in IF Racing(Length(s) - 1) THEN Values ELSE {Slot(Length(s) - 1)} :
               rem' = [rem EXCEPT ![r].pc = "read", ![r].val = v]
    /\ UNCHANGED <<word, slots, next, free_buf, alloc_buf, held, leaked, req, fr,
                   is_closed, ops, panicked, borrowed>>

\* FreeCount::try_set_state.
RemoteCas(r) ==
    /\ rem[r].pc = "read"
    /\ \/ /\ word = rem[r].state
          /\ ops < MaxOps /\ ops' = ops + 1
          /\ word' = Pop(word, 1)
          /\ borrowed' = (word.len - 1 < -BIAS)
          /\ HandOut(rem[r].val)
          /\ rem' = [rem EXCEPT ![r] = NoRemote]
       \/ /\ word # rem[r].state
          /\ rem' = [rem EXCEPT ![r].pc = "loaded", ![r].state = word,
                                ![r].val = PLACEHOLDER]
          /\ UNCHANGED <<word, held, ops, borrowed>>
    /\ UNCHANGED <<slots, next, free_buf, alloc_buf, leaked, req, fr, is_closed,
                   panicked>>

\* Mutant of RemoteMint: the counter is not checked.
RemoteMintUnchecked(r) ==
    /\ rem[r].pc = "fresh"
    /\ HandOut(next) /\ next' = next + 1
    /\ rem' = [rem EXCEPT ![r] = NoRemote]
    /\ UNCHANGED <<word, slots, free_buf, alloc_buf, leaked, req, fr, is_closed, ops,
                   panicked, borrowed>>

\* FreshAllocator::alloc never mints u32::MAX, the index of the placeholder.
RemoteMint(r) ==
    /\ rem[r].pc = "fresh"
    /\ \/ next < MAX /\ HandOut(next) /\ next' = next + 1 /\ UNCHANGED panicked
       \/ next = MAX /\ panicked' = TRUE /\ UNCHANGED <<held, next>>
    /\ rem' = [rem EXCEPT ![r] = NoRemote]
    /\ UNCHANGED <<word, slots, free_buf, alloc_buf, leaked, req, fr, is_closed, ops,
                   borrowed>>

-----------------------------------------------------------------------------
LocalStep(l) == LocalAlloc(l) \/ Mint(l) \/ Yield(l) \/ DropIter(l)

AllocMutStep == AllocMutBuffered \/ AllocMut \/ Mint(Owner) \/ AllocMutFill

FreeStep ==
    \/ \E e \in Ids : Free(e)
    \/ \E S \in SUBSET {e \in Ids : held[e] > 0} : FreeMany(S)
    \/ FreeWrite \/ FreeStore

RemoteStep(r) ==
    RemoteLoad(r) \/ RemoteSnooze(r) \/ RemoteRead(r) \/ RemoteCas(r) \/ RemoteMint(r)

\* Once the length has run into the flag slots outside the list are read, which is
\* undefined: the model stops there.
Next ==
    /\ ~borrowed
    /\ \/ \E l \in Locals : LocalStep(l)
       \/ AllocMutStep
       \/ FreeStep
       \/ DropAllocator
       \/ \E r \in Remotes : RemoteStep(r)

Spec == Init /\ [][Next]_vars

\* A thread in the middle of free, and one in the middle of an allocation, goes on.
FairSpec ==
    /\ Spec
    /\ WF_vars(~borrowed /\ (FreeWrite \/ FreeStore))
    /\ \A r \in Remotes :
          WF_vars(~borrowed /\ (RemoteSnooze(r) \/ RemoteRead(r) \/ RemoteCas(r)
                                \/ RemoteMint(r)))

-----------------------------------------------------------------------------
Requests == [pc : {"idle", "popped", "ready"}, want : 0 .. MAX, lo : Nat, hi : Nat,
             fresh : SUBSET Ids]
Frees == [pc : {"idle", "write"}, old : Words, at : 0 .. MAX, src : SUBSET Ids,
          push : SUBSET Ids]
RemoteOps == [pc : {"idle", "loaded", "read", "fresh"}, state : Words, val : Values]

\* Type invariant: counters keep to their widths (the length of the word, the next
\* fresh index, the generation), and only ids of the allocator are in its buffers.
TypeOK ==
    /\ word \in Words /\ slots \in [Addresses -> Values] /\ next \in 1 .. MAX
    /\ free_buf \in SUBSET Ids /\ alloc_buf \in SUBSET Ids
    /\ held \in [Values -> Nat] /\ leaked \in SUBSET Ids
    /\ req \in [Callers -> Requests] /\ fr \in Frees
    /\ rem \in [Remotes -> RemoteOps]
    /\ is_closed \in BOOLEAN /\ ops \in 0 .. MaxOps
    /\ panicked \in BOOLEAN /\ borrowed \in BOOLEAN

\* The ids in the list: while free is at work, those it has written count as well.
Listed == IF fr.pc = "write" THEN fr.at ELSE Length(word)
Live == {Slot(i) : i \in 0 .. Listed - 1}
InFlight == UNION {Region(c) \cup req[c].fresh : c \in Callers}

\* The ids the allocator has still to hand out.
Available == Live \cup free_buf \cup alloc_buf \cup InFlight \cup fr.src \cup fr.push

\* An id is handed out to one holder at a time: while somebody holds it, it is not
\* in the list, in a buffer or in the hands of another call, and the placeholder is
\* never handed out, although a remote reads a slot before it claims it and locals
\* pop blindly (FreeList::alloc, alloc_many and remote_alloc).
UniqueHandOut ==
    ~borrowed =>
        /\ held[PLACEHOLDER] = 0
        /\ \A e \in Ids : held[e] <= 1 /\ (held[e] = 1 => e \notin Available)

\* No id is lost: each one that was minted is handed out, in the list, in a buffer
\* of the owner or in the hands of a caller, unless an iterator was dropped early or
\* a panic dropped it (FreeList::free stores a word it has read before, and
\* FreeCountState::length clamps a list that was popped too often).
NoIdLost ==
    ~borrowed => \A e \in 1 .. next - 1 :
        held[e] > 0 \/ e \in Available \cup leaked

\* The fresh ids that calls under way still want, as (call, number) pairs.
Short(c) == IF req[c].pc = "popped" THEN req[c].want - (req[c].hi - req[c].lo) ELSE 0
Outstanding == {w \in Callers \X (1 .. MAX) : w[2] <= Short(w[1])}

\* The blind fetch_sub lets the length go below its bias; it reaches the flag that
\* stops remotes only when more ids are asked for than there are, so that a call has
\* panicked with "too many entities" or is about to (FreeCountState, LENGTH_0).
UnderflowHarmless == borrowed => panicked \/ next + Cardinality(Outstanding) > MAX

\* A remote allocation ends: the flag it waits for is always cleared, and a claim
\* fails only when another operation went through (FreeList::remote_alloc).
RemoteReturns == \A r \in Remotes : rem[r].pc # "idle" ~> rem[r].pc = "idle" \/ borrowed
=============================================================================
