-------------------------- MODULE MainThreadProofs --------------------------
(***************************************************************************)
(* Why the main thread does not sleep beside its tasks, for any number of  *)
(* tasks, threads and nested calls of block_on.  Each queue has one slot   *)
(* for a waker, and calls come and go above the one that is registered;    *)
(* yet while the innermost call polls, what it has registered is still in  *)
(* the slot, or in the hands of a thread that will wake it, or has become  *)
(* a token of its parker.  Only for the local queue may the end of a       *)
(* nested call break this, and "displaced" records that it has.            *)
(***************************************************************************)
EXTENDS MainThread, TLAPS, SequenceTheorems, WellFoundedInduction

\* Every call but the innermost runs the task that made the next one, and a task
\* runs only where a tick has popped it.
Nested ==
    \A i \in DOMAIN calls :
        /\ calls[i].task = NoTask => i = Depth
        /\ calls[i].task # NoTask => calls[i].at \in {"local", "main"}

\* The call the loop of the fake main thread makes never ends.
Endless == calls[1].awaits # <<>> /\ calls[1].awaits[1] = Forever

\* Waker w has left the slot of main_queue, but not without effect.
Answered(w) ==
    \/ w \in tokens
    \/ \E o \in Others : pc[o] = "taken" /\ held[o] = w

\* The innermost call has registered for main tasks, and a push that it has not
\* seen is by a thread on its way to the waker.
MainRegistered == Polling("pop") => main_waker = Top.waker \/ Answered(Top.waker)
MainSeen ==
    Polling("parked") =>
        \/ Answered(Top.waker)
        \/ /\ main_waker = Top.waker
           /\ main_queue # <<>> => \E o \in Others : pc[o] = "pushed"

\* The innermost call has registered for local tasks and seen none, or has been
\* woken for one.
LocalSeen ==
    Top.at \in {"main", "pop", "parked"} /\ ~Top.displaced =>
        \/ Top.waker \in tokens
        \/ local_waker = Top.waker /\ local_queue = <<>>

IInv == TypeOK /\ Nested /\ Endless /\ MainRegistered /\ MainSeen /\ LocalSeen

-----------------------------------------------------------------------------
TaskType == [kind : Kinds, state : {"queued", "running", "waiting"} \cup Over]
Places == {"future", "local", "main", "pop", "parked"}
CallType(n, k) ==
    [waker : Cached .. Cached + n, awaits : Seq(0 .. k), at : Places,
     task : 0 .. k, displaced : BOOLEAN]

\* A set of numbers below a bound that is not empty has a least element, ...
LEMMA Least ==
    ASSUME NEW T \in SUBSET Nat, T # {}
    PROVE  \E m \in T : \A x \in T : m <= x
<1> DEFINE R == {ss \in Nat \X Nat : ss[1] < ss[2]}
<1>1. IsWellFoundedOn(R, Nat)
  BY NatLessThanWellFounded, Zenon DEF OpToRel
<1> HIDE DEF R
<1>2. PICK m \in T : \A x \in T : ~(<<x, m>> \in R)
  BY <1>1, WFMin, Zenon
<1>3. \A x \in T : ~(x < m)
  BY <1>2 DEF R
<1> QED
  BY <1>3

\* ... and a greatest.
LEMMA Greatest ==
    ASSUME NEW d \in Nat, NEW T \in SUBSET (0 .. d), T # {}
    PROVE  \E m \in T : \A x \in T : x <= m
<1> DEFINE U == {d - x : x \in T}
<1>1. U \in SUBSET Nat /\ U # {}
  <2>1. \A x \in T : x \in 0 .. d /\ d - x \in Nat
    OBVIOUS
  <2>2. PICK x \in T : TRUE
    OBVIOUS
  <2>3. d - x \in U
    OBVIOUS
  <2> QED
    BY <2>1, <2>3
<1>2. PICK u \in U : \A x \in U : u <= x
  BY <1>1, Least
<1>3. PICK m \in T : u = d - m
  OBVIOUS
<1>4. \A x \in T : u <= d - x
  BY <1>2
<1> QED
  BY <1>3, <1>4

\* The type of the stack of calls.
LEMMA Stack ==
    ASSUME TypeOK
    PROVE  /\ nested \in Nat /\ Len(tasks) \in Nat /\ Depth \in Nat \ {0}
           /\ tasks \in Seq(TaskType)
           /\ calls \in Seq(CallType(nested, Len(tasks)))
           /\ \A i \in 1 .. Depth : calls[i] \in CallType(nested, Len(tasks))
           /\ Top \in CallType(nested, Len(tasks))
<1>1. nested \in Nat
  BY MainAssumption DEF TypeOK
<1>2. tasks \in Seq(TaskType)
  BY DEF TypeOK, TaskType
<1>3. calls \in Seq(CallType(nested, Len(tasks)))
  BY DEF TypeOK, CallType, Places
<1>4. Depth \in Nat \ {0}
  BY <1>3 DEF TypeOK, Depth
<1>5. \A i \in 1 .. Depth : calls[i] \in CallType(nested, Len(tasks))
  BY <1>3 DEF Depth
<1> QED
  BY <1>1, <1>2, <1>3, <1>4, <1>5 DEF Top

\* The type invariant, as the steps below establish it.
Typed(k, n) ==
    /\ tasks \in Seq(TaskType) /\ Len(tasks) = k /\ k <= MaxTasks
    /\ local_queue \in Seq(1 .. k) /\ main_queue \in Seq(1 .. k)
    /\ local_waker \in None .. Cached + n /\ main_waker \in None .. Cached + n
    /\ Depth \in Nat \ {0} /\ calls \in Seq(CallType(n, k))
    /\ tokens \subseteq WakersOf(calls)
    /\ nested = n /\ n \in 0 .. MaxNested /\ suspended \in 0 .. MaxSuspended
    /\ pc \in [Others -> {"idle", "pushed", "taken"}]
    /\ held \in [Others -> None .. Cached + n]

\* The types, with the numbers of tasks and of nested calls given a name.
LEMMA TypedNow == TypeOK => Typed(Len(tasks), nested)
<1> SUFFICES ASSUME TypeOK PROVE Typed(Len(tasks), nested)
  OBVIOUS
<1>1. local_queue \in Seq(1 .. Len(tasks)) /\ main_queue \in Seq(1 .. Len(tasks))
  BY Stack DEF TypeOK
<1> QED
  BY <1>1, Stack DEF TypeOK, Typed

\* Typed for the next state gives the types there.
LEMMA TypedNext ==
    ASSUME NEW k \in Nat, NEW n \in Nat, Typed(k, n)'
    PROVE  TypeOK'
<1>1. DOMAIN tasks' = 1 .. k
  BY DEF Typed
<1>2. local_queue' \in Seq(DOMAIN tasks') /\ main_queue' \in Seq(DOMAIN tasks')
  BY <1>1 DEF Typed
<1>3. calls' \in Seq([waker : Cached .. Cached + nested', awaits : Seq(0 .. Len(tasks')),
                      at : {"future", "local", "main", "pop", "parked"},
                      task : 0 .. Len(tasks'), displaced : BOOLEAN])
  BY DEF Typed, CallType, Places
<1>4. tasks' \in Seq([kind : Kinds, state : {"queued", "running", "waiting"} \cup Over])
  BY DEF Typed, TaskType
<1> QED
  BY <1>2, <1>3, <1>4 DEF Typed, TypeOK

\* The first task a call still waits for is one of those it awaits; the call that
\* awaits Forever goes on to wait for it.
LEMMA LeftIsFirst ==
    ASSUME TypeOK
    PROVE  /\ Left \in 0 .. Len(Top.awaits)
           /\ Top.awaits # <<>> /\ Top.awaits[1] = Forever => Left = 1
<1> DEFINE aw == Top.awaits
           I == {i \in 1 .. Len(aw) : aw[i] = Forever \/ tasks[aw[i]].state # "done"}
<1>1. Left = IF I # {} THEN Min(I) ELSE 0
  BY DEF Left, SelectInSeq
<1>2. aw \in Seq(0 .. Len(tasks))
  BY Stack DEF CallType
<1>3. Len(aw) \in Nat /\ I \in SUBSET Nat
  BY <1>2
<1>4. I # {} => Min(I) \in I /\ \A x \in I : Min(I) <= x
  BY <1>3, Least DEF Min
<1>5. aw # <<>> /\ aw[1] = Forever => 1 \in I
  BY <1>2
<1> QED
  BY <1>1, <1>3, <1>4, <1>5

\* A panic is caught at the depth it started from or above, or by the loop.
LEMMA CatcherIsBelow ==
    ASSUME NEW d \in Nat
    PROVE  Catcher(d) \in 0 .. d
<1> DEFINE C == {i \in 1 .. d : tasks[calls[i].task].kind = "main"}
<1>1. PICK m \in C \cup {0} : \A x \in C \cup {0} : x <= m
  <2>1. C \cup {0} \in SUBSET (0 .. d) /\ C \cup {0} # {}
    OBVIOUS
  <2> QED
    BY <2>1, Greatest
<1>2. Catcher(d) \in C \cup {0}
  BY <1>1 DEF Catcher
<1> QED
  BY <1>2

\* What may be in a queue or a call stays so when tasks are added.
LEMMA Grow ==
    ASSUME NEW n \in Nat, NEW n2 \in Nat, NEW k \in Nat, NEW k2 \in Nat,
           n <= n2, k <= k2
    PROVE  /\ \A q \in Seq(1 .. k) : q \in Seq(1 .. k2)
           /\ \A cs \in Seq(CallType(n, k)) : cs \in Seq(CallType(n2, k2))
<1>1. \A q \in Seq(0 .. k) : q \in Seq(0 .. k2)
  OBVIOUS
<1>2. \A c \in CallType(n, k) : c \in CallType(n2, k2)
  BY <1>1 DEF CallType, Cached
<1> QED
  BY <1>2

-----------------------------------------------------------------------------
\* When tasks end, nothing but their state changes, and no call that goes on
\* loses a token.
LEMMA ConcludeEffect ==
    ASSUME TypeOK, NEW T, NEW r \in Over, NEW cs, Conclude(T, r, cs)
    PROVE  /\ tasks' \in Seq(TaskType) /\ Len(tasks') = Len(tasks)
           /\ tokens' \subseteq WakersOf(cs)
           /\ tokens \cap WakersOf(cs) \subseteq tokens'
<1>1. tasks \in Seq(TaskType)
  BY Stack
<1>2. \A t \in DOMAIN tasks : [tasks[t] EXCEPT !.state = r] \in TaskType
  <2> TAKE t \in DOMAIN tasks
  <2>1. tasks[t] \in TaskType
    BY <1>1
  <2> QED
    BY <2>1 DEF TaskType
<1>3. tasks' \in [1 .. Len(tasks) -> TaskType]
  BY <1>1, <1>2 DEF Conclude
<1>4. tasks' \in Seq(TaskType) /\ Len(tasks') = Len(tasks)
  BY <1>1, <1>3
<1>5. tokens' \subseteq WakersOf(cs) /\ tokens \cap WakersOf(cs) \subseteq tokens'
  BY DEF Conclude, WakersOf
<1> QED
  BY <1>4, <1>5

\* A panic leaves a stack whose innermost call either has just been made or goes
\* on after a tick; if calls have been unwound above it, it is displaced.
LEMMA UnwindEffect ==
    ASSUME TypeOK, Nested, Endless, NEW d \in 1 .. Depth,
           \A i \in 1 .. d : calls[i].task # NoTask, Unwind(d)
    PROVE  /\ tasks' \in Seq(TaskType) /\ Len(tasks') = Len(tasks)
           /\ tokens' \subseteq WakersOf(calls')
           /\ tokens \cap WakersOf(calls') \subseteq tokens'
           /\ calls' \in Seq(CallType(nested, Len(tasks)))
           /\ Depth' \in 1 .. d /\ Nested' /\ Endless'
           /\ \/ Top'.at = "future"
              \/ /\ Top'.at \in {"local", "main"} /\ Top'.at = calls[Depth'].at
                 /\ Top'.waker = calls[Depth'].waker
                 /\ ~Top'.displaced => Depth' = Depth /\ ~Top.displaced
<1> DEFINE c == Catcher(d)
           caught == [calls[c] EXCEPT !.task = NoTask, !.displaced = @ \/ c < Depth]
           cs == IF c = 0 THEN Restart ELSE Append(SubSeq(calls, 1, c - 1), caught)
           Ct == CallType(nested, Len(tasks))
           T == {calls[i].task : i \in (IF c = 0 THEN 1 ELSE c) .. d}
<1>1. c \in 0 .. d
  BY CatcherIsBelow
<1>2. calls' = cs /\ Conclude(T, "panicked", cs)
  BY DEF Unwind
<1>3. /\ tasks' \in Seq(TaskType) /\ Len(tasks') = Len(tasks)
      /\ tokens' \subseteq WakersOf(calls')
      /\ tokens \cap WakersOf(calls') \subseteq tokens'
  BY <1>2, ConcludeEffect DEF Over
<1>4. CASE c = 0
  <2>1. calls' = <<Call(Cached, Forever)>>
    BY <1>2, <1>4 DEF Restart
  <2>2. Call(Cached, Forever) \in Ct
    BY Stack DEF Call, CallType, Cached, Forever, NoTask, Places
  <2>3. calls' \in Seq(Ct) /\ Len(calls') = 1 /\ calls'[1] = Call(Cached, Forever)
    BY <2>1, <2>2
  <2>4. Nested' /\ Endless' /\ Depth' \in 1 .. d /\ Top'.at = "future"
    BY <2>3, Stack DEF Nested, Endless, Depth, Top, Call, NoTask, Forever
  <2> QED
    BY <1>3, <2>3, <2>4
<1>5. CASE c # 0
  <2>1. c \in 1 .. d
    BY <1>1, <1>5
  <2>2. LET sub == SubSeq(calls, 1, c - 1)
        IN  sub \in Seq(Ct) /\ Len(sub) = c - 1 /\ \A i \in 1 .. c - 1 : sub[i] = calls[i]
    BY <2>1, Stack DEF Depth
  <2>3. calls[c] \in Ct
    BY <2>1, Stack
  <2> DEFINE disp == calls[c].displaced \/ c < Depth
             top == [calls[c] EXCEPT !.task = NoTask, !.displaced = disp]
  <2>4. /\ top \in Ct /\ top.waker = calls[c].waker /\ top.at = calls[c].at
        /\ top.task = NoTask /\ top.awaits = calls[c].awaits
        /\ ~top.displaced => ~calls[c].displaced /\ ~(c < Depth)
    <3>1. /\ disp \in BOOLEAN /\ NoTask \in 0 .. Len(tasks)
          /\ ~disp => ~calls[c].displaced /\ ~(c < Depth)
      BY Stack DEF NoTask
    <3> HIDE DEF disp
    <3>2. top \in Ct
      BY <2>3, <3>1 DEF CallType
    <3>3. /\ top.waker = calls[c].waker /\ top.at = calls[c].at
          /\ top.task = NoTask /\ top.awaits = calls[c].awaits /\ top.displaced = disp
      BY <2>3 DEF CallType
    <3> QED
      BY <3>1, <3>2, <3>3
  <2>5. /\ calls' \in Seq(Ct) /\ Len(calls') = c /\ calls'[c] = top
        /\ \A i \in 1 .. c - 1 : calls'[i] = calls[i]
    <3>1. calls' = Append(SubSeq(calls, 1, c - 1), top)
      BY <1>2, <1>5
    <3> HIDE DEF top, c
    <3> QED
      BY <3>1, <2>1, <2>2, <2>4
  <2> HIDE DEF top
  <2> HIDE DEF c
  <2>6. /\ Depth' = c /\ Top' = top /\ Depth \in Nat
        /\ DOMAIN calls' = 1 .. c /\ DOMAIN calls = 1 .. Depth
    BY <2>1, <2>5, Stack DEF Depth, Top
  <2>7. calls[c].at \in {"local", "main"}
    BY <2>1, <2>6 DEF Nested
  <2>8. Nested'
    <3> SUFFICES ASSUME NEW i \in 1 .. c
                 PROVE  /\ calls'[i].task = NoTask => i = c
                        /\ calls'[i].task # NoTask => calls'[i].at \in {"local", "main"}
      BY <2>6 DEF Nested
    <3> QED
      BY <2>1, <2>4, <2>5, <2>6 DEF Nested
  <2>9. Endless'
    <3>1. calls'[1].awaits = calls[1].awaits
      BY <2>1, <2>4, <2>5
    <3> QED
      BY <3>1 DEF Endless
  <2> QED
    BY <1>3, <2>1, <2>4, <2>5, <2>6, <2>7, <2>8, <2>9 DEF Top
<1> QED
  BY <1>4, <1>5

-----------------------------------------------------------------------------
\* The main thread starts in one call that waits for ever, with no task.
LEMMA InitIInv == Init => IInv
<1> SUFFICES ASSUME Init PROVE IInv
  OBVIOUS
<1>1. /\ Call(Cached, Forever) \in CallType(0, 0) /\ Len(calls) = 1
      /\ calls[1] = Call(Cached, Forever) /\ DOMAIN calls = {1}
  BY DEF Init, Call, CallType, Cached, Forever, NoTask, Places
<1>2. calls \in Seq(CallType(0, 0))
  BY <1>1 DEF Init
<1>3. TypeOK
  BY <1>1, <1>2, MainAssumption DEF Init, TypeOK, CallType, Places, WakersOf, Depth,
     None, Cached
<1>4. Nested /\ Endless /\ MainRegistered /\ MainSeen /\ LocalSeen
  BY <1>1 DEF Init, Nested, Endless, MainRegistered, MainSeen, LocalSeen, Polling, Top,
     Depth, Call, NoTask, Forever
<1> QED
  BY <1>3, <1>4 DEF IInv

\* A task that is scheduled is put into a queue, and wakes the innermost call if it
\* is the one registered for local tasks.
LEMMA ScheduleEffect ==
    ASSUME TypeOK, NEW k \in Kinds, NEW m \in Nat, Len(tasks) <= m,
           NEW t \in 1 .. m, Schedule(k, t)
    PROVE  /\ local_queue' \in Seq(1 .. m) /\ main_queue' \in Seq(1 .. m)
           /\ local_waker' \in None .. Cached + nested
           /\ main_waker' \in None .. Cached + nested
           /\ tokens \subseteq tokens' /\ tokens' \subseteq WakersOf(calls)
           /\ \/ UNCHANGED <<local_waker, local_queue>>
              \/ local_waker = Top.waker => Top.waker \in tokens'
<1>1. tasks \in Seq(TaskType) /\ Len(tasks) \in Nat
  BY Stack
<1>2. local_queue \in Seq(1 .. m) /\ main_queue \in Seq(1 .. m)
  <2>1. local_queue \in Seq(1 .. Len(tasks)) /\ main_queue \in Seq(1 .. Len(tasks))
    BY <1>1 DEF TypeOK
  <2> QED
    BY <1>1, <2>1, Grow
<1>3. local_queue' \in Seq(1 .. m) /\ main_queue' \in Seq(1 .. m)
  <2>1. Append(local_queue, t) \in Seq(1 .. m) /\ Append(main_queue, t) \in Seq(1 .. m)
    BY <1>2
  <2> QED
    BY <1>2, <2>1 DEF Schedule, queues
<1>4. /\ local_waker' \in None .. Cached + nested
      /\ main_waker' \in None .. Cached + nested
  <2>1. None \in None .. Cached + nested
    BY Stack DEF None, Cached
  <2> QED
    BY <2>1 DEF Schedule, TypeOK, wakers
<1>5. tokens \subseteq tokens' /\ tokens' \subseteq WakersOf(calls)
  BY DEF Schedule, TypeOK, Unpark, queues, wakers
<1>6. Top.waker \in WakersOf(calls)
  BY Stack DEF WakersOf, Top, Depth
<1>7. UNCHANGED <<local_waker, local_queue>>
      \/ (local_waker = Top.waker => Top.waker \in tokens')
  BY <1>6 DEF Schedule, Unpark, queues, wakers
<1> QED
  BY <1>3, <1>4, <1>5, <1>7

\* To spawn a task makes room in the types for one more, beside that.
LEMMA SpawnEffect ==
    ASSUME TypeOK, NEW k \in Kinds, Spawn(k)
    PROVE  /\ tasks' \in Seq(TaskType) /\ Len(tasks') = New /\ New <= MaxTasks
           /\ local_queue' \in Seq(1 .. New) /\ main_queue' \in Seq(1 .. New)
           /\ local_waker' \in None .. Cached + nested
           /\ main_waker' \in None .. Cached + nested
           /\ tokens \subseteq tokens' /\ tokens' \subseteq WakersOf(calls)
           /\ \/ UNCHANGED <<local_waker, local_queue>>
              \/ local_waker = Top.waker => Top.waker \in tokens'
<1>1. tasks \in Seq(TaskType) /\ Len(tasks) \in Nat
  BY Stack
<1>2. [kind |-> k, state |-> "queued"] \in TaskType
  BY DEF TaskType
<1>3. tasks' \in Seq(TaskType) /\ Len(tasks') = New /\ New <= MaxTasks
  BY <1>1, <1>2 DEF Spawn, Spawned, New
<1>4. New \in Nat /\ Len(tasks) <= New /\ New \in 1 .. New /\ Schedule(k, New)
  BY <1>1 DEF Spawn, New
<1> HIDE DEF New
<1> QED
  BY <1>3, <1>4, ScheduleEffect

\* A task that is suspended or woken is none more.
LEMMA BecomesEffect ==
    ASSUME TypeOK, NEW t \in 1 .. Len(tasks), NEW s \in {"queued", "running", "waiting"},
           Becomes(t, s)
    PROVE  tasks' \in Seq(TaskType) /\ Len(tasks') = Len(tasks)
<1>1. tasks \in Seq(TaskType) /\ tasks[t] \in TaskType
  BY Stack
<1> DEFINE c == [tasks[t] EXCEPT !.state = s]
<1>2. c \in TaskType /\ tasks' = [tasks EXCEPT ![t] = c]
  BY <1>1 DEF TaskType, Becomes
<1> QED
  BY <1>1, <1>2, ExceptSeq

\* A step that changes one call of the stack, and possibly adds tasks.
LEMMA OneCall ==
    ASSUME TypeOK, NEW i \in 1 .. Depth, NEW n \in Nat, NEW k \in Nat,
           nested <= n, Len(tasks) <= k,
           NEW c \in CallType(n, k), calls' = [calls EXCEPT ![i] = c],
           c.waker = calls[i].waker
    PROVE  /\ calls' \in Seq(CallType(n, k)) /\ Depth' = Depth
           /\ calls'[i] = c /\ Top' = calls'[Depth] /\ DOMAIN calls' = 1 .. Depth
           /\ \A j \in 1 .. Depth : j # i => calls'[j] = calls[j]
           /\ WakersOf(calls') = WakersOf(calls)
<1>1. calls \in Seq(CallType(n, k))
  BY Stack, Grow
<1>2. /\ calls' \in Seq(CallType(n, k)) /\ Len(calls') = Len(calls)
      /\ \A j \in 1 .. Len(calls) : calls'[j] = IF j = i THEN c ELSE calls[j]
  BY <1>1, ExceptSeq DEF Depth
<1>3. \A j \in 1 .. Depth : calls'[j].waker = calls[j].waker
  BY <1>2 DEF Depth
<1>4. DOMAIN calls' = 1 .. Depth /\ DOMAIN calls = 1 .. Depth
  BY <1>1, <1>2 DEF Depth
<1> QED
  BY <1>2, <1>3, <1>4 DEF Depth, Top, WakersOf

\* The same for the innermost call, in a step that adds no task.
LEMMA TopCall ==
    ASSUME TypeOK, NEW c \in CallType(nested, Len(tasks)),
           calls' = [calls EXCEPT ![Depth] = c], c.waker = Top.waker
    PROVE  /\ calls' \in Seq(CallType(nested, Len(tasks))) /\ Depth' = Depth
           /\ calls'[Depth] = c /\ Top' = c /\ DOMAIN calls' = 1 .. Depth
           /\ \A j \in 1 .. Depth : j # Depth => calls'[j] = calls[j]
           /\ WakersOf(calls') = WakersOf(calls)
<1>1. /\ Depth \in 1 .. Depth /\ nested \in Nat /\ Len(tasks) \in Nat
      /\ nested <= nested /\ Len(tasks) <= Len(tasks) /\ c.waker = calls[Depth].waker
  BY Stack DEF Top
<1> QED
  BY <1>1, OneCall

\* A step of the innermost call that keeps its waker keeps the nesting.
LEMMA TopCallShape ==
    ASSUME TypeOK, Nested, Endless, NEW c \in CallType(nested, Len(tasks)),
           calls' = [calls EXCEPT ![Depth] = c], c.waker = Top.waker,
           c.awaits = Top.awaits, c.task # NoTask => c.at \in {"local", "main"}
    PROVE  Nested' /\ Endless'
<1>1. Depth \in Nat \ {0} /\ Top = calls[Depth] /\ DOMAIN calls = 1 .. Depth
  BY Stack DEF Top, Depth
<1>2. /\ Depth' = Depth /\ calls'[Depth] = c /\ DOMAIN calls' = 1 .. Depth
      /\ \A j \in 1 .. Depth : j # Depth => calls'[j] = calls[j]
  BY TopCall
<1>3. Nested'
  BY <1>1, <1>2 DEF Nested
<1>4. \A j \in 1 .. Depth : calls'[j].awaits = calls[j].awaits
  BY <1>1, <1>2
<1>5. Endless'
  BY <1>1, <1>4 DEF Endless
<1> QED
  BY <1>3, <1>5

\* The first task of a queue is taken and runs.
LEMMA RunFirstEffect ==
    ASSUME TypeOK, NEW q \in Seq(1 .. Len(tasks)), RunFirst(q)
    PROVE  /\ tasks' \in Seq(TaskType) /\ Len(tasks') = Len(tasks)
           /\ Head(q) \in 1 .. Len(tasks) /\ Tail(q) \in Seq(1 .. Len(tasks))
<1>1. q # <<>> /\ tasks' = [tasks EXCEPT ![Head(q)].state = "running"]
  BY DEF RunFirst
<1>2. Head(q) \in 1 .. Len(tasks) /\ Tail(q) \in Seq(1 .. Len(tasks))
  BY <1>1, HeadTailProperties
<1>3. tasks \in Seq(TaskType) /\ tasks[Head(q)] \in TaskType
  BY <1>2, Stack
<1> DEFINE t == [tasks[Head(q)] EXCEPT !.state = "running"]
<1>4. t \in TaskType /\ tasks' = [tasks EXCEPT ![Head(q)] = t]
  BY <1>1, <1>3 DEF TaskType
<1> QED
  BY <1>2, <1>3, <1>4, ExceptSeq

-----------------------------------------------------------------------------
\* A call that no future is polled for any more ends, or passes a panic on.  It is
\* not the endless one.
LEMMA NotEndless ==
    ASSUME TypeOK, Endless, Left = 0 \/ Top.awaits[Left] # Forever
    PROVE  Depth > 1
<1>1. Depth = 1 => Top = calls[1]
  BY DEF Top
<1> QED
  BY <1>1, LeftIsFirst, Stack DEF Endless

\* One poll of the innermost call preserves the invariant.
LEMMA LoopIInv == IInv /\ Loop => IInv'
<1> SUFFICES ASSUME IInv, Loop PROVE IInv'
  OBVIOUS
<1> DEFINE n == nested
           k == Len(tasks)
<1>0. /\ TypeOK /\ Nested /\ Endless /\ MainRegistered /\ MainSeen /\ LocalSeen
      /\ n \in Nat /\ k \in Nat /\ Depth \in Nat \ {0} /\ Depth \in 1 .. Depth
      /\ Top \in CallType(n, k) /\ Top = calls[Depth] /\ DOMAIN calls = 1 .. Depth
  BY Stack DEF IInv, Top, Depth
<1>T. Typed(k, n)
  BY <1>0, TypedNow
<1>1. CASE PollFuture
  <2>0. UNCHANGED <<queues, wakers, nested, suspended, others>> /\ Polling("future")
    BY <1>1 DEF PollFuture
  <2>1. ASSUME Left # 0, UNCHANGED <<tasks, tokens>>,
               calls' = [calls EXCEPT ![Depth].awaits = SubSeq(@, Left, Len(@)),
                                      ![Depth].at = "local"]
        PROVE  IInv'
    <3> DEFINE c == [Top EXCEPT !.awaits = SubSeq(Top.awaits, Left, Len(Top.awaits)),
                                !.at = "local"]
    <3>1. /\ SubSeq(Top.awaits, Left, Len(Top.awaits)) \in Seq(0 .. k)
          /\ Top.awaits # <<>> /\ Top.awaits[1] = Forever =>
                 LET aw == SubSeq(Top.awaits, Left, Len(Top.awaits))
                 IN  aw # <<>> /\ aw[1] = Forever
      <4>1. Top.awaits \in Seq(0 .. k)
        BY <1>0 DEF CallType
      <4>2. Left \in 1 .. Len(Top.awaits)
        BY <1>0, <2>1, LeftIsFirst
      <4>3. Len(Top.awaits) \in Nat /\ Left \in Nat /\ 1 <= Left
        BY <4>1, <4>2
      <4>4. SubSeq(Top.awaits, Left, Len(Top.awaits)) \in Seq(0 .. k)
        BY <4>1, <4>2, <4>3
      <4>5. ASSUME Top.awaits # <<>>, Top.awaits[1] = Forever
            PROVE  LET aw == SubSeq(Top.awaits, Left, Len(Top.awaits))
                   IN  aw # <<>> /\ aw[1] = Forever
        <5>1. Left = 1
          BY <1>0, <4>5, LeftIsFirst
        <5>2. LET aw == SubSeq(Top.awaits, 1, Len(Top.awaits))
              IN  aw # <<>> /\ aw[1] = Top.awaits[1]
          <6>1. Len(Top.awaits) \in Nat \ {0} /\ Len(Top.awaits) <= Len(Top.awaits)
            BY <4>1, <4>5, EmptySeq
          <6>2. /\ Len(SubSeq(Top.awaits, 1, Len(Top.awaits))) = Len(Top.awaits)
                /\ SubSeq(Top.awaits, 1, Len(Top.awaits))[1] = Top.awaits[1]
            BY <4>1, <6>1, SubSeqProperties
          <6> QED
            BY <6>1, <6>2
        <5> QED
          BY <4>5, <5>1, <5>2
      <4> QED
        BY <4>4, <4>5
    <3>2. /\ c \in CallType(n, k) /\ c.waker = Top.waker /\ c.at = "local"
          /\ c.task = Top.task /\ c.displaced = Top.displaced
          /\ c.awaits = SubSeq(Top.awaits, Left, Len(Top.awaits))
      BY <1>0, <3>1 DEF CallType, Places
    <3>3. calls' = [calls EXCEPT ![Depth] = c]
      BY <1>0, <2>1
    <3> HIDE DEF c
    <3>4. /\ calls' \in Seq(CallType(n, k)) /\ Depth' = Depth
          /\ Top' = c /\ calls'[Depth] = c /\ DOMAIN calls' = 1 .. Depth
          /\ \A j \in 1 .. Depth : j # Depth => calls'[j] = calls[j]
          /\ WakersOf(calls') = WakersOf(calls)
      BY <1>0, <3>2, <3>3, TopCall
    <3>5. TypeOK'
      BY <1>0, <1>T, <2>0, <2>1, <3>4, TypedNext DEF Typed, queues, wakers, others
    <3>6. Nested'
      BY <1>0, <3>2, <3>4 DEF Nested
    <3>7. Endless'
      <4>1. CASE Depth = 1
        BY <1>0, <3>1, <3>2, <3>4, <4>1 DEF Endless
      <4>2. CASE Depth # 1
        <5>1. calls'[1] = calls[1]
          BY <1>0, <3>4, <4>2
        <5> QED
          BY <1>0, <5>1 DEF Endless
      <4> QED
        BY <4>1, <4>2
    <3>8. MainRegistered' /\ MainSeen' /\ LocalSeen'
      BY <3>2, <3>4 DEF MainRegistered, MainSeen, LocalSeen, Polling
    <3> QED
      BY <3>5, <3>6, <3>7, <3>8 DEF IInv
  <2>2. ASSUME Left = 0, UNCHANGED tasks, tokens' = tokens \ {Top.waker},
               calls' = [SubSeq(calls, 1, Depth - 1) EXCEPT ![Depth - 1].displaced = TRUE]
        PROVE  IInv'
    <3>1. Depth > 1
      BY <1>0, <2>2, NotEndless
    <3> DEFINE sub == SubSeq(calls, 1, Depth - 1)
               c == [calls[Depth - 1] EXCEPT !.displaced = TRUE]
    <3>2. /\ sub \in Seq(CallType(n, k)) /\ Len(sub) = Depth - 1
          /\ \A i \in 1 .. Depth - 1 : sub[i] = calls[i]
      BY <1>0, <3>1, Stack DEF Depth
    <3>3. calls[Depth - 1] \in CallType(n, k) /\ calls[Depth - 1].task # NoTask
      BY <1>0, <3>1, Stack DEF Nested
    <3>4. /\ c \in CallType(n, k) /\ c.waker = calls[Depth - 1].waker
          /\ c.at = calls[Depth - 1].at /\ c.task = calls[Depth - 1].task
          /\ c.awaits = calls[Depth - 1].awaits /\ c.displaced = TRUE
      BY <3>3 DEF CallType
    <3>5. calls' = [sub EXCEPT ![Depth - 1] = c]
      <4>1. sub[Depth - 1] = calls[Depth - 1]
        BY <1>0, <3>1, <3>2
      <4> QED
        BY <2>2, <4>1
    <3> HIDE DEF c, sub
    <3>6. /\ calls' \in Seq(CallType(n, k)) /\ Len(calls') = Depth - 1
          /\ calls'[Depth - 1] = c /\ \A i \in 1 .. Depth - 2 : calls'[i] = calls[i]
      BY <1>0, <3>1, <3>2, <3>4, <3>5, ExceptSeq
    <3>7. Depth' = Depth - 1 /\ Top' = c /\ DOMAIN calls' = 1 .. Depth - 1
      BY <3>6 DEF Depth, Top
    <3>8. \A i \in 1 .. Depth - 1 : calls'[i].waker = calls[i].waker
      BY <1>0, <3>4, <3>6
    <3>9. tokens' \subseteq WakersOf(calls')
      <4> SUFFICES ASSUME NEW w \in tokens, w # Top.waker PROVE w \in WakersOf(calls')
        BY <2>2
      <4>1. PICK i \in 1 .. Depth : w = calls[i].waker
        BY <1>0 DEF TypeOK, WakersOf
      <4>2. i \in 1 .. Depth - 1
        BY <1>0, <4>1
      <4> QED
        BY <3>7, <3>8, <4>1, <4>2 DEF WakersOf
    <3>10. TypeOK'
      <4>1. Depth' \in Nat \ {0}
        BY <1>0, <3>1, <3>7
      <4> QED
        BY <1>0, <1>T, <2>0, <2>2, <3>6, <3>9, <4>1, TypedNext
           DEF Typed, queues, wakers, others
    <3>11. Nested'
      <4> SUFFICES ASSUME NEW i \in 1 .. Depth - 1
                   PROVE  /\ calls'[i].task # NoTask
                          /\ calls'[i].at \in {"local", "main"}
        BY <3>7 DEF Nested
      <4>1. calls[i].task # NoTask /\ calls[i].at \in {"local", "main"}
        BY <1>0 DEF Nested
      <4> QED
        BY <1>0, <3>4, <3>6, <4>1
    <3>12. Endless'
      BY <1>0, <3>1, <3>4, <3>6 DEF Endless
    <3>13. MainRegistered' /\ MainSeen' /\ LocalSeen'
      BY <3>3, <3>4, <3>7 DEF MainRegistered, MainSeen, LocalSeen, Polling
    <3> QED
      BY <3>10, <3>11, <3>12, <3>13 DEF IInv
  <2>3. ASSUME Left # 0, Top.awaits[Left] # Forever, Unwind(Depth - 1)
        PROVE  IInv'
    <3>1. Depth - 1 \in 1 .. Depth /\ \A i \in 1 .. Depth - 1 : calls[i].task # NoTask
      BY <1>0, <2>3, NotEndless DEF Nested
    <3>2. /\ tasks' \in Seq(TaskType) /\ Len(tasks') = k
          /\ tokens' \subseteq WakersOf(calls')
          /\ calls' \in Seq(CallType(n, k)) /\ Depth' \in 1 .. Depth - 1
          /\ Nested' /\ Endless'
          /\ \/ Top'.at = "future"
             \/ /\ Top'.at \in {"local", "main"}
                /\ ~Top'.displaced => Depth' = Depth
      BY <1>0, <2>3, <3>1, UnwindEffect
    <3>3. TypeOK'
      <4>1. Depth' \in Nat \ {0}
        BY <1>0, <3>2
      <4> QED
        BY <1>0, <1>T, <2>0, <3>2, <4>1, TypedNext DEF Typed, queues, wakers, others
    <3>4. MainRegistered' /\ MainSeen' /\ LocalSeen'
      BY <1>0, <3>2 DEF MainRegistered, MainSeen, LocalSeen, Polling
    <3> QED
      BY <3>2, <3>3, <3>4 DEF IInv
  <2> QED
    BY <1>1, <2>1, <2>2, <2>3 DEF PollFuture
<1>2. CASE LocalTick
  <2>0. /\ UNCHANGED <<main_queue, main_waker, tokens, nested, suspended, others>>
        /\ Polling("local") /\ local_waker' = Top.waker
    BY <1>2 DEF LocalTick, LocalRegistered
  <2>1. ASSUME RunFirst(local_queue), local_queue' = Tail(local_queue),
               calls' = [calls EXCEPT ![Depth].task = Head(local_queue),
                                      ![Depth].displaced = FALSE]
        PROVE  IInv'
    <3> DEFINE c == [Top EXCEPT !.task = Head(local_queue), !.displaced = FALSE]
    <3>1. /\ tasks' \in Seq(TaskType) /\ Len(tasks') = k
          /\ Head(local_queue) \in 1 .. k /\ local_queue' \in Seq(1 .. k)
      BY <1>0, <1>T, <2>1, RunFirstEffect DEF Typed
    <3>2. /\ c \in CallType(n, k) /\ c.waker = Top.waker /\ c.awaits = Top.awaits
          /\ c.at = "local"
      <4>1. Head(local_queue) \in 0 .. k /\ Top.at = "local"
        BY <1>0, <2>0, <3>1 DEF Polling
      <4> QED
        BY <1>0, <4>1 DEF CallType
    <3>3. calls' = [calls EXCEPT ![Depth] = c]
      BY <1>0, <2>1
    <3> HIDE DEF c
    <3>4. /\ calls' \in Seq(CallType(n, k)) /\ Depth' = Depth /\ Top' = c
          /\ WakersOf(calls') = WakersOf(calls) /\ Nested' /\ Endless'
      BY <1>0, <3>2, <3>3, TopCall, TopCallShape
    <3>5. local_waker' \in None .. Cached + n
      BY <1>0, <2>0 DEF CallType, None, Cached
    <3>6. TypeOK'
      BY <1>0, <1>T, <2>0, <3>1, <3>4, <3>5, TypedNext DEF Typed, others
    <3>7. MainRegistered' /\ MainSeen' /\ LocalSeen'
      BY <3>2, <3>4 DEF MainRegistered, MainSeen, LocalSeen, Polling
    <3> QED
      BY <3>4, <3>6, <3>7 DEF IInv
  <2>2. ASSUME local_queue = <<>>, UNCHANGED <<tasks, local_queue>>,
               calls' = [calls EXCEPT ![Depth].at = "main", ![Depth].displaced = FALSE]
        PROVE  IInv'
    <3> DEFINE c == [Top EXCEPT !.at = "main", !.displaced = FALSE]
    <3>2. /\ c \in CallType(n, k) /\ c.waker = Top.waker /\ c.awaits = Top.awaits
          /\ c.at = "main" /\ c.task = Top.task
      BY <1>0, <2>0 DEF CallType, Places
    <3>3. calls' = [calls EXCEPT ![Depth] = c]
      BY <1>0, <2>2
    <3> HIDE DEF c
    <3>4. /\ calls' \in Seq(CallType(n, k)) /\ Depth' = Depth /\ Top' = c
          /\ WakersOf(calls') = WakersOf(calls) /\ Nested' /\ Endless'
      BY <1>0, <3>2, <3>3, TopCall, TopCallShape
    <3>5. local_waker' \in None .. Cached + n
      BY <1>0, <2>0 DEF CallType, None, Cached
    <3>6. TypeOK'
      BY <1>0, <1>T, <2>0, <2>2, <3>4, <3>5, TypedNext DEF Typed, others
    <3>7. MainRegistered' /\ MainSeen' /\ LocalSeen'
      BY <2>0, <2>2, <3>2, <3>4 DEF MainRegistered, MainSeen, LocalSeen, Polling
    <3> QED
      BY <3>4, <3>6, <3>7 DEF IInv
  <2> QED
    BY <1>2, <2>1, <2>2 DEF LocalTick, Beside
<1>3. CASE MainRegister
  <2>0. /\ UNCHANGED <<tasks, queues, local_waker, tokens, nested, suspended, others>>
        /\ Polling("main") /\ main_waker' = Top.waker
        /\ calls' = [calls EXCEPT ![Depth].at = "pop"]
    BY <1>3 DEF MainRegister, Go
  <2> DEFINE c == [Top EXCEPT !.at = "pop"]
  <2>2. /\ c \in CallType(n, k) /\ c.waker = Top.waker /\ c.awaits = Top.awaits
        /\ c.at = "pop" /\ c.task = NoTask /\ c.displaced = Top.displaced
    BY <1>0, <2>0 DEF CallType, Places, Polling
  <2>3. calls' = [calls EXCEPT ![Depth] = c]
    BY <1>0, <2>0
  <2> HIDE DEF c
  <2>4. /\ calls' \in Seq(CallType(n, k)) /\ Depth' = Depth /\ Top' = c
        /\ WakersOf(calls') = WakersOf(calls) /\ Nested' /\ Endless'
    BY <1>0, <2>2, <2>3, TopCall, TopCallShape
  <2>5. main_waker' \in None .. Cached + n
    BY <1>0, <2>0 DEF CallType, None, Cached
  <2>6. TypeOK'
    BY <1>0, <1>T, <2>0, <2>4, <2>5, TypedNext DEF Typed, others, queues
  <2>7. MainRegistered' /\ MainSeen'
    BY <2>0, <2>2, <2>4 DEF MainRegistered, MainSeen, Polling
  <2>8. LocalSeen'
    BY <1>0, <2>0, <2>2, <2>4 DEF LocalSeen, Polling, queues
  <2> QED
    BY <2>4, <2>6, <2>7, <2>8 DEF IInv
<1>4. CASE MainPop
  <2>0. UNCHANGED <<local_queue, wakers, tokens, nested, suspended, others>> /\ Polling("pop")
    BY <1>4 DEF MainPop
  <2>1. ASSUME RunFirst(main_queue), main_queue' = Tail(main_queue),
               calls' = [calls EXCEPT ![Depth].task = Head(main_queue),
                                      ![Depth].at = "main"]
        PROVE  IInv'
    <3> DEFINE c == [Top EXCEPT !.task = Head(main_queue), !.at = "main"]
    <3>1. /\ tasks' \in Seq(TaskType) /\ Len(tasks') = k
          /\ Head(main_queue) \in 1 .. k /\ main_queue' \in Seq(1 .. k)
      BY <1>0, <1>T, <2>1, RunFirstEffect DEF Typed
    <3>2. /\ c \in CallType(n, k) /\ c.waker = Top.waker /\ c.awaits = Top.awaits
          /\ c.at = "main" /\ c.displaced = Top.displaced
      <4>1. Head(main_queue) \in 0 .. k
        BY <1>0, <3>1
      <4> QED
        BY <1>0, <4>1 DEF CallType, Places
    <3>3. calls' = [calls EXCEPT ![Depth] = c]
      BY <1>0, <2>1
    <3> HIDE DEF c
    <3>4. /\ calls' \in Seq(CallType(n, k)) /\ Depth' = Depth /\ Top' = c
          /\ WakersOf(calls') = WakersOf(calls) /\ Nested' /\ Endless'
      BY <1>0, <3>2, <3>3, TopCall, TopCallShape
    <3>6. TypeOK'
      BY <1>0, <1>T, <2>0, <3>1, <3>4, TypedNext DEF Typed, others, wakers
    <3>7. MainRegistered' /\ MainSeen'
      BY <3>2, <3>4 DEF MainRegistered, MainSeen, Polling
    <3>8. LocalSeen'
      BY <1>0, <2>0, <3>2, <3>4 DEF LocalSeen, Polling, wakers
    <3> QED
      BY <3>4, <3>6, <3>7, <3>8 DEF IInv
  <2>2. ASSUME main_queue = <<>>, UNCHANGED <<tasks, main_queue>>,
               calls' = [calls EXCEPT ![Depth].at = "parked"]
        PROVE  IInv'
    <3> DEFINE c == [Top EXCEPT !.at = "parked"]
    <3>2. /\ c \in CallType(n, k) /\ c.waker = Top.waker /\ c.awaits = Top.awaits
          /\ c.at = "parked" /\ c.task = NoTask /\ c.displaced = Top.displaced
      BY <1>0, <2>0 DEF CallType, Places, Polling
    <3>3. calls' = [calls EXCEPT ![Depth] = c]
      BY <1>0, <2>2
    <3> HIDE DEF c
    <3>4. /\ calls' \in Seq(CallType(n, k)) /\ Depth' = Depth /\ Top' = c
          /\ WakersOf(calls') = WakersOf(calls) /\ Nested' /\ Endless'
      BY <1>0, <3>2, <3>3, TopCall, TopCallShape
    <3>6. TypeOK'
      BY <1>0, <1>T, <2>0, <2>2, <3>4, TypedNext DEF Typed, others, wakers
    <3>7. MainRegistered' /\ MainSeen'
      BY <1>0, <2>0, <2>2, <3>2, <3>4
         DEF MainRegistered, MainSeen, Polling, Answered, wakers, others
    <3>8. LocalSeen'
      BY <1>0, <2>0, <3>2, <3>4 DEF LocalSeen, Polling, wakers
    <3> QED
      BY <3>4, <3>6, <3>7, <3>8 DEF IInv
  <2> QED
    BY <1>4, <2>1, <2>2 DEF MainPop, Go
<1>5. CASE Resume
  <2>0. /\ UNCHANGED <<tasks, queues, wakers, nested, suspended, others>>
        /\ Polling("parked") /\ tokens' = tokens \ {Top.waker}
        /\ calls' = [calls EXCEPT ![Depth].at = "future"]
    BY <1>5 DEF Resume, Go
  <2> DEFINE c == [Top EXCEPT !.at = "future"]
  <2>2. /\ c \in CallType(n, k) /\ c.waker = Top.waker /\ c.awaits = Top.awaits
        /\ c.at = "future" /\ c.task = NoTask
    BY <1>0, <2>0 DEF CallType, Places, Polling
  <2>3. calls' = [calls EXCEPT ![Depth] = c]
    BY <1>0, <2>0
  <2> HIDE DEF c
  <2>4. /\ calls' \in Seq(CallType(n, k)) /\ Depth' = Depth /\ Top' = c
        /\ WakersOf(calls') = WakersOf(calls) /\ Nested' /\ Endless'
    BY <1>0, <2>2, <2>3, TopCall, TopCallShape
  <2>6. TypeOK'
    BY <1>0, <1>T, <2>0, <2>4, TypedNext DEF Typed, others, queues, wakers
  <2>7. MainRegistered' /\ MainSeen' /\ LocalSeen'
    BY <2>2, <2>4 DEF MainRegistered, MainSeen, LocalSeen, Polling
  <2> QED
    BY <2>4, <2>6, <2>7 DEF IInv
<1> QED
  BY <1>1, <1>2, <1>3, <1>4, <1>5 DEF Loop

-----------------------------------------------------------------------------
\* What the running task does preserves the invariant: the innermost call is not
\* polling, so only what it has registered for local tasks is at stake.
LEMMA TaskIInv == IInv /\ (SpawnTask \/ BlockOn \/ TaskEnds) => IInv'
<1> SUFFICES ASSUME IInv, SpawnTask \/ BlockOn \/ TaskEnds PROVE IInv'
  OBVIOUS
<1> DEFINE n == nested
           k == Len(tasks)
<1>0. /\ TypeOK /\ Nested /\ Endless /\ MainRegistered /\ MainSeen /\ LocalSeen
      /\ n \in Nat /\ k \in Nat /\ New = k + 1
      /\ Depth \in Nat \ {0} /\ Depth \in 1 .. Depth
      /\ Top \in CallType(n, k) /\ Top = calls[Depth] /\ DOMAIN calls = 1 .. Depth
  BY Stack DEF IInv, Top, Depth, New
<1>T. Typed(k, n)
  BY <1>0, TypedNow
<1>1. Top.task # NoTask /\ Top.at \in {"local", "main"}
  BY <1>0 DEF Nested, SpawnTask, BlockOn, TaskEnds
<1>2. CASE SpawnTask
  <2>0. UNCHANGED <<nested, suspended, others>>
    BY <1>2 DEF SpawnTask
  <2>1. /\ tasks' \in Seq(TaskType) /\ Len(tasks') = New /\ New <= MaxTasks
        /\ local_queue' \in Seq(1 .. New) /\ main_queue' \in Seq(1 .. New)
        /\ local_waker' \in None .. Cached + nested
        /\ main_waker' \in None .. Cached + nested
        /\ tokens \subseteq tokens' /\ tokens' \subseteq WakersOf(calls)
        /\ \/ UNCHANGED <<local_waker, local_queue>>
           \/ local_waker = Top.waker => Top.waker \in tokens'
    <3>1. PICK kind \in {"local", "main"} : Spawn(kind)
      BY <1>2 DEF SpawnTask
    <3>2. kind \in Kinds
      BY DEF Kinds
    <3> QED
      BY <1>0, <3>1, <3>2, SpawnEffect
  <2>2. /\ calls' \in Seq(CallType(n, New)) /\ Depth' = Depth
        /\ WakersOf(calls') = WakersOf(calls) /\ Nested' /\ Endless'
        /\ Top'.task = Top.task /\ Top'.at = Top.at /\ Top'.waker = Top.waker
        /\ Top'.displaced = Top.displaced
    <3>1. CASE UNCHANGED calls
      <4>1. calls \in Seq(CallType(n, New))
        BY <1>0, Stack, Grow
      <4> QED
        BY <1>0, <3>1, <4>1 DEF Depth, Top, WakersOf, Nested, Endless
    <3>2. ASSUME NEW i \in 1 .. Depth,
                 calls' = [calls EXCEPT ![i].awaits = Append(@, New)]
          PROVE  /\ calls' \in Seq(CallType(n, New)) /\ Depth' = Depth
                 /\ WakersOf(calls') = WakersOf(calls) /\ Nested' /\ Endless'
                 /\ Top'.task = Top.task /\ Top'.at = Top.at
                 /\ Top'.waker = Top.waker /\ Top'.displaced = Top.displaced
      <4> DEFINE c == [calls[i] EXCEPT !.awaits = Append(calls[i].awaits, New)]
      <4>1. calls[i] \in CallType(n, New) /\ New \in Nat /\ n <= n /\ k <= New
        <5>1. calls \in Seq(CallType(n, New))
          BY <1>0, Stack, Grow
        <5> QED
          BY <1>0, <5>1 DEF Depth
      <4>2. /\ Append(calls[i].awaits, New) \in Seq(0 .. New)
            /\ calls[i].awaits # <<>> =>
                  /\ Append(calls[i].awaits, New) # <<>>
                  /\ Append(calls[i].awaits, New)[1] = calls[i].awaits[1]
        BY <1>0, <4>1, SMTT(20) DEF CallType
      <4>3. /\ c \in CallType(n, New) /\ c.waker = calls[i].waker
            /\ c.at = calls[i].at /\ c.task = calls[i].task
            /\ c.displaced = calls[i].displaced
            /\ c.awaits = Append(calls[i].awaits, New)
        BY <4>1, <4>2 DEF CallType
      <4>4. calls' = [calls EXCEPT ![i] = c]
        BY <3>2
      <4> HIDE DEF c
      <4>5. /\ calls' \in Seq(CallType(n, New)) /\ Depth' = Depth
            /\ calls'[i] = c /\ Top' = calls'[Depth] /\ DOMAIN calls' = 1 .. Depth
            /\ \A j \in 1 .. Depth : j # i => calls'[j] = calls[j]
            /\ WakersOf(calls') = WakersOf(calls)
        BY <1>0, <4>1, <4>3, <4>4, OneCall
      <4>6. \A j \in 1 .. Depth : /\ calls'[j].task = calls[j].task
                                   /\ calls'[j].at = calls[j].at
                                   /\ calls'[j].waker = calls[j].waker
                                   /\ calls'[j].displaced = calls[j].displaced
        BY <4>3, <4>5
      <4>7. Nested'
        BY <1>0, <4>5, <4>6 DEF Nested
      <4>8. Endless'
        BY <1>0, <4>2, <4>3, <4>5, SMTT(20) DEF Endless
      <4> QED
        BY <1>0, <4>5, <4>6, <4>7, <4>8
    <3> QED
      BY <1>2, <3>1, <3>2 DEF SpawnTask
  <2>3. TypeOK'
    <3>1. New \in Nat
      BY <1>0
    <3> QED
      BY <1>0, <1>T, <2>0, <2>1, <2>2, <3>1, TypedNext DEF Typed, others
  <2>4. MainRegistered' /\ MainSeen'
    BY <1>1, <2>2 DEF MainRegistered, MainSeen, Polling
  <2>5. LocalSeen'
    BY <1>0, <2>1, <2>2 DEF LocalSeen
  <2> QED
    BY <2>2, <2>3, <2>4, <2>5 DEF IInv
<1>3. CASE BlockOn
  <2>0. /\ UNCHANGED <<suspended, others>> /\ nested' = nested + 1 /\ nested' \in 0 .. MaxNested
        /\ calls' = Append(calls, Call(Cached + nested', New))
    BY <1>0, <1>3, MainAssumption DEF BlockOn
  <2>1. /\ tasks' \in Seq(TaskType) /\ Len(tasks') = New /\ New <= MaxTasks
        /\ local_queue' \in Seq(1 .. New) /\ main_queue' \in Seq(1 .. New)
        /\ local_waker' \in None .. Cached + nested
        /\ main_waker' \in None .. Cached + nested
        /\ tokens' \subseteq WakersOf(calls)
    BY <1>0, <1>3, SpawnEffect DEF BlockOn
  <2> DEFINE c == Call(Cached + nested', New)
  <2>2. /\ c \in CallType(nested', New) /\ c.at = "future" /\ c.task = NoTask
    BY <1>0, <2>0 DEF CallType, Call, Places, NoTask, Cached
  <2>3. calls \in Seq(CallType(nested', New))
    BY <1>0, <2>0, Stack, Grow
  <2>4. calls' = Append(calls, c)
    BY <2>0
  <2> HIDE DEF c
  <2>5. /\ calls' \in Seq(CallType(nested', New)) /\ Depth' = Depth + 1 /\ Top' = c
        /\ DOMAIN calls' = 1 .. Depth + 1
        /\ calls'[Depth + 1] = c /\ \A i \in 1 .. Depth : calls'[i] = calls[i]
    BY <2>2, <2>3, <2>4 DEF Depth, Top
  <2>6. Nested'
    BY <1>0, <1>1, <2>2, <2>5 DEF Nested
  <2>7. Endless'
    BY <1>0, <2>5 DEF Endless
  <2>8. tokens' \subseteq WakersOf(calls')
    <3> SUFFICES ASSUME NEW w \in tokens' PROVE w \in WakersOf(calls')
      OBVIOUS
    <3>1. PICK i \in 1 .. Depth : w = calls[i].waker
      BY <1>0, <2>1 DEF WakersOf
    <3>2. i \in DOMAIN calls' /\ w = calls'[i].waker
      BY <1>0, <2>5, <3>1
    <3> QED
      BY <3>2 DEF WakersOf
  <2>9. TypeOK'
    <3>1. /\ local_waker' \in None .. Cached + nested'
          /\ main_waker' \in None .. Cached + nested'
          /\ held' \in [Others -> None .. Cached + nested']
          /\ pc' \in [Others -> {"idle", "pushed", "taken"}]
      <4>1. \A w \in None .. Cached + nested : w \in None .. Cached + nested'
        BY <1>0, <2>0 DEF None, Cached
      <4> QED
        BY <1>T, <2>0, <2>1, <4>1 DEF Typed, others
    <3> QED
      <4>1. New \in Nat /\ nested' \in Nat /\ Depth' \in Nat \ {0}
        BY <1>0, <2>0, <2>5
      <4>2. suspended' \in 0 .. MaxSuspended
        BY <1>T, <2>0 DEF Typed
      <4> QED
        BY <2>0, <2>1, <2>5, <2>8, <3>1, <4>1, <4>2, TypedNext DEF Typed
  <2>10. MainRegistered' /\ MainSeen' /\ LocalSeen'
    BY <2>2, <2>5 DEF MainRegistered, MainSeen, LocalSeen, Polling
  <2> QED
    BY <2>6, <2>7, <2>9, <2>10 DEF IInv
<1>4. CASE TaskEnds
  <2>0. UNCHANGED <<queues, wakers, nested, suspended, others>>
    BY <1>4 DEF TaskEnds
  <2>1. ASSUME calls' = [calls EXCEPT ![Depth].task = NoTask],
               Conclude({Top.task}, "done", calls)
        PROVE  IInv'
    <3> DEFINE c == [Top EXCEPT !.task = NoTask]
    <3>1. /\ tasks' \in Seq(TaskType) /\ Len(tasks') = k
          /\ tokens' \subseteq WakersOf(calls)
          /\ tokens \cap WakersOf(calls) \subseteq tokens'
      BY <1>0, <2>1, ConcludeEffect DEF Over
    <3>2. /\ c \in CallType(n, k) /\ c.waker = Top.waker /\ c.awaits = Top.awaits
          /\ c.at = Top.at /\ c.task = NoTask /\ c.displaced = Top.displaced
      <4>1. Top \in CallType(n, k) /\ NoTask \in 0 .. k
        BY <1>0 DEF NoTask
      <4> QED
        BY <4>1 DEF CallType
    <3>3. calls' = [calls EXCEPT ![Depth] = c]
      BY <1>0, <2>1
    <3> HIDE DEF c
    <3>4. /\ calls' \in Seq(CallType(n, k)) /\ Depth' = Depth /\ Top' = c
          /\ WakersOf(calls') = WakersOf(calls) /\ Nested' /\ Endless'
      BY <1>0, <3>2, <3>3, TopCall, TopCallShape
    <3>5. TypeOK'
      BY <1>0, <1>T, <2>0, <3>1, <3>4, TypedNext DEF Typed, others, queues, wakers
    <3>6. MainRegistered' /\ MainSeen'
      BY <1>1, <3>2, <3>4 DEF MainRegistered, MainSeen, Polling
    <3>7. tokens \subseteq tokens'
      BY <1>T, <3>1 DEF Typed
    <3>8. LocalSeen'
      BY <1>0, <2>0, <3>2, <3>4, <3>7 DEF LocalSeen, queues, wakers
    <3> QED
      BY <3>4, <3>5, <3>6, <3>8 DEF IInv
  <2>2. CASE Unwind(Depth)
    <3>1. \A i \in 1 .. Depth : calls[i].task # NoTask
      BY <1>0, <1>1 DEF Nested
    <3>2. /\ tasks' \in Seq(TaskType) /\ Len(tasks') = k
          /\ tokens' \subseteq WakersOf(calls')
          /\ tokens \cap WakersOf(calls') \subseteq tokens'
          /\ calls' \in Seq(CallType(n, k)) /\ Depth' \in 1 .. Depth
          /\ Nested' /\ Endless'
          /\ \/ Top'.at = "future"
             \/ /\ Top'.at \in {"local", "main"} /\ Top'.at = calls[Depth'].at
                /\ Top'.waker = calls[Depth'].waker
                /\ ~Top'.displaced => Depth' = Depth /\ ~Top.displaced
      BY <1>0, <2>2, <3>1, UnwindEffect
    <3>3. TypeOK'
      <4>1. Depth' \in Nat \ {0}
        BY <1>0, <3>2
      <4> QED
        BY <1>0, <1>T, <2>0, <3>2, <4>1, TypedNext DEF Typed, queues, wakers, others
    <3>4. MainRegistered' /\ MainSeen'
      BY <3>2 DEF MainRegistered, MainSeen, Polling
    <3>5. LocalSeen'
      <4> SUFFICES ASSUME Top'.at = "main", ~Top'.displaced
                   PROVE  \/ Top'.waker \in tokens'
                          \/ local_waker' = Top'.waker /\ local_queue' = <<>>
        BY <3>2 DEF LocalSeen
      <4>1. Depth' = Depth /\ Top.at = "main" /\ ~Top.displaced /\ Top'.waker = Top.waker
        BY <1>0, <3>2
      <4>2. Top'.waker \in WakersOf(calls')
        BY <3>2 DEF WakersOf, Top, Depth
      <4> QED
        BY <1>0, <2>0, <3>2, <4>1, <4>2 DEF LocalSeen, queues, wakers
    <3> QED
      BY <3>2, <3>3, <3>4, <3>5 DEF IInv
  <2> QED
    BY <1>4, <2>1, <2>2 DEF TaskEnds
<1> QED
  BY <1>2, <1>3, <1>4

\* So does a task that suspends, or that is woken: whichever waker the schedule
\* function takes, it is that of the innermost call if that one is registered.
LEMMA SuspendIInv == IInv /\ (TaskSuspends \/ WakeTask) => IInv'
<1> SUFFICES ASSUME IInv, TaskSuspends \/ WakeTask PROVE IInv'
  OBVIOUS
<1> DEFINE n == nested
           k == Len(tasks)
<1>0. /\ TypeOK /\ Nested /\ Endless /\ MainRegistered /\ MainSeen /\ LocalSeen
      /\ n \in Nat /\ k \in Nat /\ k <= k
      /\ Depth \in Nat \ {0} /\ Depth \in 1 .. Depth
      /\ Top \in CallType(n, k) /\ Top = calls[Depth] /\ DOMAIN calls = 1 .. Depth
      /\ DOMAIN tasks = 1 .. k
  BY Stack DEF IInv, Top, Depth
<1>T. Typed(k, n)
  BY <1>0, TypedNow
<1>K. \A t \in 1 .. k : tasks[t].kind \in Kinds
  <2>1. \A t \in 1 .. k : tasks[t] \in TaskType
    BY Stack, <1>0
  <2> QED
    BY <2>1 DEF TaskType
<1>1. Top.at \in {"future", "local", "main"}
  BY <1>0 DEF Nested, TaskSuspends, WakeTask
\* What the two have in common.
<1>2. ASSUME tasks' \in Seq(TaskType), Len(tasks') = k,
             local_queue' \in Seq(1 .. k), main_queue' \in Seq(1 .. k),
             local_waker' \in None .. Cached + n, main_waker' \in None .. Cached + n,
             tokens \subseteq tokens', tokens' \subseteq WakersOf(calls),
             \/ UNCHANGED <<local_waker, local_queue>>
             \/ local_waker = Top.waker => Top.waker \in tokens',
             calls' \in Seq(CallType(n, k)), Depth' = Depth,
             WakersOf(calls') = WakersOf(calls), Nested', Endless',
             Top'.at = Top.at, Top'.waker = Top.waker, Top'.displaced = Top.displaced,
             UNCHANGED <<nested, others>>, suspended' \in 0 .. MaxSuspended
      PROVE  IInv'
  <2>1. TypeOK'
    BY <1>0, <1>2, <1>T, TypedNext DEF Typed, others
  <2>2. MainRegistered' /\ MainSeen'
    BY <1>1, <1>2 DEF MainRegistered, MainSeen, Polling
  <2>3. LocalSeen'
    BY <1>0, <1>2 DEF LocalSeen
  <2> QED
    BY <1>2, <2>1, <2>2, <2>3 DEF IInv
<1>3. CASE TaskSuspends
  <2>1. /\ UNCHANGED <<nested, others>> /\ suspended' \in 0 .. MaxSuspended
        /\ calls' = [calls EXCEPT ![Depth].task = NoTask]
    BY <1>3, <1>T, MainAssumption DEF TaskSuspends, Typed
  <2>2. Top.task \in 1 .. k
    BY <1>0, <1>3 DEF TaskSuspends, CallType, NoTask
  <2>3. /\ tasks' \in Seq(TaskType) /\ Len(tasks') = k
        /\ local_queue' \in Seq(1 .. k) /\ main_queue' \in Seq(1 .. k)
        /\ local_waker' \in None .. Cached + n /\ main_waker' \in None .. Cached + n
        /\ tokens \subseteq tokens' /\ tokens' \subseteq WakersOf(calls)
        /\ \/ UNCHANGED <<local_waker, local_queue>>
           \/ local_waker = Top.waker => Top.waker \in tokens'
    <3>1. CASE Becomes(Top.task, "waiting") /\ UNCHANGED <<queues, wakers, tokens>>
      BY <1>0, <1>T, <2>2, <3>1, BecomesEffect DEF Typed, queues, wakers
    <3>2. CASE Becomes(Top.task, "queued") /\ Schedule(tasks[Top.task].kind, Top.task)
      <4>1. tasks' \in Seq(TaskType) /\ Len(tasks') = k
        BY <1>0, <2>2, <3>2, BecomesEffect
      <4>2. tasks[Top.task].kind \in Kinds
        BY <1>K, <2>2
      <4> QED
        BY <1>0, <2>2, <3>2, <4>1, <4>2, ScheduleEffect
    <3> QED
      BY <1>3, <3>1, <3>2 DEF TaskSuspends
  <2> DEFINE c == [Top EXCEPT !.task = NoTask]
  <2>4. /\ c \in CallType(n, k) /\ c.waker = Top.waker /\ c.awaits = Top.awaits
        /\ c.at = Top.at /\ c.task = NoTask /\ c.displaced = Top.displaced
    <3>1. Top \in CallType(n, k) /\ NoTask \in 0 .. k
      BY <1>0 DEF NoTask
    <3> QED
      BY <3>1 DEF CallType
  <2>5. calls' = [calls EXCEPT ![Depth] = c]
    BY <1>0, <2>1
  <2> HIDE DEF c
  <2>6. /\ calls' \in Seq(CallType(n, k)) /\ Depth' = Depth /\ Top' = c
        /\ WakersOf(calls') = WakersOf(calls) /\ Nested' /\ Endless'
    BY <1>0, <2>4, <2>5, TopCall, TopCallShape
  <2> QED
    BY <1>2, <2>1, <2>3, <2>4, <2>6
<1>4. CASE WakeTask
  <2>1. UNCHANGED <<calls, nested, suspended, others>>
    BY <1>4 DEF WakeTask
  <2>2. PICK t \in 1 .. k : Becomes(t, "queued") /\ Schedule(tasks[t].kind, t)
    BY <1>0, <1>4 DEF WakeTask
  <2>3. tasks' \in Seq(TaskType) /\ Len(tasks') = k
    BY <1>0, <2>2, BecomesEffect
  <2>4. tasks[t].kind \in Kinds
    BY <1>K
  <2>5. /\ local_queue' \in Seq(1 .. k) /\ main_queue' \in Seq(1 .. k)
        /\ local_waker' \in None .. Cached + n /\ main_waker' \in None .. Cached + n
        /\ tokens \subseteq tokens' /\ tokens' \subseteq WakersOf(calls)
        /\ \/ UNCHANGED <<local_waker, local_queue>>
           \/ local_waker = Top.waker => Top.waker \in tokens'
    BY <1>0, <2>2, <2>4, ScheduleEffect
  <2>6. /\ calls' \in Seq(CallType(n, k)) /\ Depth' = Depth /\ Top' = Top
        /\ WakersOf(calls') = WakersOf(calls) /\ Nested' /\ Endless'
    BY <1>0, <1>T, <2>1 DEF Typed, Depth, Top, WakersOf, Nested, Endless
  <2>7. suspended' \in 0 .. MaxSuspended
    BY <1>T, <2>1 DEF Typed
  <2> QED
    BY <1>2, <2>1, <2>3, <2>5, <2>6, <2>7
<1> QED
  BY <1>3, <1>4

-----------------------------------------------------------------------------
\* What is done elsewhere preserves the invariant: the stack of calls stays as it
\* is, and no waker is lost between the slot, the thread that takes it and the
\* parker.
LEMMA OthersIInv ==
    IInv /\ (\/ PoolTaskEnds \/ StrayTaskEnds
             \/ \E o \in Others : Other(o) \/ Push(o) \/ TryTick(o)) => IInv'
<1> SUFFICES ASSUME IInv,
                    \/ PoolTaskEnds \/ StrayTaskEnds
                    \/ \E o \in Others : Other(o) \/ Push(o) \/ TryTick(o)
             PROVE  IInv'
  OBVIOUS
<1> DEFINE n == nested
           k == Len(tasks)
<1>0. /\ TypeOK /\ Nested /\ Endless /\ MainRegistered /\ MainSeen /\ LocalSeen
      /\ n \in Nat /\ k \in Nat /\ New = k + 1
      /\ Depth \in Nat \ {0} /\ Depth \in 1 .. Depth
      /\ Top \in CallType(n, k) /\ Top = calls[Depth] /\ DOMAIN calls = 1 .. Depth
  BY Stack DEF IInv, Top, Depth, New
<1>T. Typed(k, n)
  BY <1>0, TypedNow
<1>W. Top.waker \in WakersOf(calls)
  BY <1>0 DEF WakersOf
<1>1. calls' = calls => /\ Depth' = Depth /\ Top' = Top /\ WakersOf(calls') = WakersOf(calls)
                        /\ Nested' /\ Endless'
                        /\ \A at \in Places : Polling(at)' <=> Polling(at)
  BY <1>0 DEF Depth, Top, WakersOf, Nested, Endless, Polling
\* Tasks that end or suspend here change neither slots nor queues but for one task less.
<1>2. ASSUME tasks' \in Seq(TaskType), Len(tasks') = k,
             tokens' \subseteq WakersOf(calls), tokens \subseteq tokens',
             suspended' \in 0 .. MaxSuspended,
             UNCHANGED <<local_queue, wakers, calls, nested, others>>,
             main_queue' \in Seq(1 .. k), main_queue' # <<>> => main_queue # <<>>
      PROVE  IInv'
  <2>1. UNCHANGED <<local_queue, wakers, calls, nested, others>>
    BY <1>2
  <2>2. TypeOK'
    BY <1>0, <1>1, <1>2, <1>T, <2>1, TypedNext DEF Typed, wakers, others
  <2>3. MainRegistered' /\ MainSeen' /\ LocalSeen'
    BY <1>0, <1>1, <1>2
       DEF MainRegistered, MainSeen, LocalSeen, Answered, wakers, others, Places
  <2> QED
    BY <1>1, <1>2, <2>2, <2>3 DEF IInv
<1>3. ASSUME NEW T, NEW r \in Over, Conclude(T, r, calls)
      PROVE  /\ tasks' \in Seq(TaskType) /\ Len(tasks') = k
             /\ tokens' \subseteq WakersOf(calls) /\ tokens \subseteq tokens'
  BY <1>0, <1>T, <1>3, ConcludeEffect DEF Typed
<1>4. CASE PoolTaskEnds \/ StrayTaskEnds
  <2>1. PICK r \in Over : \E T : Conclude(T, r, calls)
    BY <1>4 DEF PoolTaskEnds, StrayTaskEnds
  <2>2. UNCHANGED <<queues, wakers, calls, nested, suspended, others>>
    BY <1>4 DEF PoolTaskEnds, StrayTaskEnds
  <2>3. main_queue' \in Seq(1 .. k) /\ (main_queue' # <<>> => main_queue # <<>>)
    BY <1>T, <2>2 DEF queues, Typed
  <2>4. UNCHANGED <<local_queue, wakers, calls, nested, others>>
    BY <2>2 DEF queues
  <2>5. suspended' \in 0 .. MaxSuspended
    BY <1>T, <2>2 DEF Typed
  <2> QED
    BY <1>2, <1>3, <2>1, <2>3, <2>4, <2>5
<1>5. ASSUME NEW o \in Others, TryTick(o) PROVE IInv'
  <2>1. UNCHANGED <<local_queue, wakers, calls, nested, others>>
    BY <1>5 DEF TryTick
  <2>2. main_queue' \in Seq(1 .. k) /\ (main_queue' # <<>> => main_queue # <<>>)
    BY <1>5, <1>T, HeadTailProperties DEF TryTick, Typed
  <2>3. CASE (\E r \in Over : Conclude({Head(main_queue)}, r, calls)) /\ UNCHANGED suspended
    <3>1. suspended' \in 0 .. MaxSuspended
      BY <1>T, <2>3 DEF Typed
    <3> QED
      BY <1>2, <1>3, <2>1, <2>2, <2>3, <3>1
  <2>4. CASE /\ suspended < MaxSuspended /\ suspended' = suspended + 1
             /\ Becomes(Head(main_queue), "waiting") /\ UNCHANGED tokens
    <3>1. suspended' \in 0 .. MaxSuspended
      BY <1>T, <2>4, MainAssumption DEF Typed
    <3>2. Head(main_queue) \in 1 .. k
      BY <1>5, <1>T, HeadTailProperties DEF TryTick, Typed
    <3>3. tasks' \in Seq(TaskType) /\ Len(tasks') = k
      BY <1>0, <2>4, <3>2, BecomesEffect
    <3>4. tokens' \subseteq WakersOf(calls) /\ tokens \subseteq tokens'
      BY <1>T, <2>4 DEF Typed
    <3> QED
      BY <1>2, <2>1, <2>2, <3>1, <3>3, <3>4
  <2> QED
    BY <1>5, <2>3, <2>4 DEF TryTick
<1>6. ASSUME NEW o \in Others, Push(o) PROVE IInv'
  <2>0. /\ UNCHANGED <<local_queue, wakers, calls, tokens, nested, suspended, held>>
        /\ pc[o] = "idle" /\ pc' = [pc EXCEPT ![o] = "pushed"]
    BY <1>6 DEF Push
  <2>1. PICK m \in Nat : /\ tasks' \in Seq(TaskType) /\ Len(tasks') = m
                         /\ k <= m /\ m <= MaxTasks
                         /\ \E t \in 1 .. m : main_queue' = Append(main_queue, t)
    <3>1. CASE /\ New <= MaxPushed /\ Spawned("main")
               /\ main_queue' = Append(main_queue, New)
      <4>1. [kind |-> "main", state |-> "queued"] \in TaskType
        BY DEF TaskType, Kinds
      <4>2. tasks' = Append(tasks, [kind |-> "main", state |-> "queued"])
        BY <3>1 DEF Spawned
      <4>3. tasks' \in Seq(TaskType) /\ Len(tasks') = New
        BY <1>0, <1>T, <4>1, <4>2 DEF Typed
      <4> QED
        BY <1>0, <3>1, <4>3, MainAssumption
    <3>2. CASE \E t \in DOMAIN tasks : /\ tasks[t] = [kind |-> "main", state |-> "waiting"]
                                       /\ Becomes(t, "queued")
                                       /\ main_queue' = Append(main_queue, t)
      <4>1. DOMAIN tasks = 1 .. k /\ k <= k /\ k <= MaxTasks
        BY <1>0, <1>T DEF Typed
      <4>2. PICK t \in 1 .. k : Becomes(t, "queued") /\ main_queue' = Append(main_queue, t)
        BY <3>2, <4>1
      <4>3. tasks' \in Seq(TaskType) /\ Len(tasks') = k
        BY <1>0, <4>2, BecomesEffect
      <4> WITNESS k \in Nat
      <4> QED
        BY <4>1, <4>2, <4>3
    <3> QED
      BY <1>6, <3>1, <3>2 DEF Push
  <2>2. /\ local_queue' \in Seq(1 .. m) /\ main_queue' \in Seq(1 .. m)
        /\ calls' \in Seq(CallType(n, m))
    <3>1. local_queue \in Seq(1 .. m) /\ main_queue \in Seq(1 .. m)
          /\ calls \in Seq(CallType(n, m))
      BY <1>0, <1>T, <2>1, Grow DEF Typed
    <3> QED
      BY <2>0, <2>1, <3>1
  <2>3. pc' \in [Others -> {"idle", "pushed", "taken"}]
    BY <1>T, <2>0 DEF Typed
  <2>4. TypeOK'
    BY <1>0, <1>1, <1>T, <2>0, <2>1, <2>2, <2>3, TypedNext DEF Typed, wakers
  <2>5. Answered(Top.waker) => Answered(Top.waker)'
    BY <1>T, <1>1, <2>0 DEF Typed, Answered
  <2>6. MainRegistered' /\ MainSeen'
    <3>1. pc'[o] = "pushed"
      BY <1>T, <2>0 DEF Typed
    <3> QED
      BY <1>0, <1>1, <2>0, <2>5, <3>1 DEF MainRegistered, MainSeen, wakers, Places
  <2>7. LocalSeen'
    BY <1>0, <1>1, <2>0 DEF LocalSeen, wakers
  <2> QED
    BY <1>1, <2>0, <2>4, <2>6, <2>7 DEF IInv
<1>7. ASSUME NEW o \in Others, TakeWaker(o) PROVE IInv'
  <2>0. /\ UNCHANGED <<tasks, queues, local_waker, calls, tokens, nested, suspended>>
        /\ pc[o] = "pushed" /\ pc' = [pc EXCEPT ![o] = "taken"]
        /\ held' = [held EXCEPT ![o] = main_waker] /\ main_waker' = None
    BY <1>7 DEF TakeWaker
  <2>1. /\ pc' \in [Others -> {"idle", "pushed", "taken"}]
        /\ held' \in [Others -> None .. Cached + n] /\ main_waker' \in None .. Cached + n
    BY <1>0, <1>T, <2>0 DEF Typed, None, Cached
  <2>2. TypeOK'
    BY <1>0, <1>1, <1>T, <2>0, <2>1, TypedNext DEF Typed, queues
  <2>3. /\ Answered(Top.waker) => Answered(Top.waker)'
        /\ main_waker = Top.waker => Answered(Top.waker)'
    BY <1>T, <1>1, <2>0 DEF Typed, Answered
  <2>4. MainRegistered' /\ MainSeen'
    BY <1>0, <1>1, <2>0, <2>3 DEF MainRegistered, MainSeen, Places
  <2>5. LocalSeen'
    BY <1>0, <1>1, <2>0 DEF LocalSeen, queues
  <2> QED
    BY <1>1, <2>0, <2>2, <2>4, <2>5 DEF IInv
<1>8. ASSUME NEW o \in Others, Wake(o) PROVE IInv'
  <2>0. /\ UNCHANGED <<tasks, queues, wakers, calls, nested, suspended>>
        /\ pc[o] = "taken" /\ pc' = [pc EXCEPT ![o] = "idle"]
        /\ held' = [held EXCEPT ![o] = None]
        /\ tokens' = tokens \cup ({held[o]} \cap WakersOf(calls))
    BY <1>8 DEF Wake, Unpark
  <2>1. /\ pc' \in [Others -> {"idle", "pushed", "taken"}]
        /\ held' \in [Others -> None .. Cached + n]
    BY <1>0, <1>T, <2>0 DEF Typed, None, Cached
  <2>2. TypeOK'
    BY <1>0, <1>1, <1>T, <2>0, <2>1, TypedNext DEF Typed, queues, wakers
  <2>3. Answered(Top.waker) => Answered(Top.waker)'
    BY <1>T, <1>W, <1>1, <2>0 DEF Typed, Answered
  <2>4. MainRegistered' /\ MainSeen'
    <3>1. \A p \in Others : pc[p] = "pushed" => pc'[p] = "pushed"
      BY <1>T, <2>0 DEF Typed
    <3> QED
      BY <1>0, <1>1, <2>0, <2>3, <3>1
         DEF MainRegistered, MainSeen, queues, wakers, Places
  <2>5. LocalSeen'
    BY <1>0, <1>1, <2>0 DEF LocalSeen, queues, wakers
  <2> QED
    BY <1>1, <2>0, <2>2, <2>4, <2>5 DEF IInv
<1> QED
  BY <1>4, <1>5, <1>6, <1>7, <1>8 DEF Other

\* Every step preserves the invariant.
LEMMA NextIInv == IInv /\ [Next]_vars => IInv'
<1> SUFFICES ASSUME IInv, [Next]_vars PROVE IInv'
  OBVIOUS
<1>1. CASE Next
  BY <1>1, LoopIInv, TaskIInv, SuspendIInv, OthersIInv DEF Next
<1>2. CASE UNCHANGED vars
  BY <1>2 DEF vars, queues, wakers, others, IInv, TypeOK, Nested, Endless, MainRegistered,
     MainSeen, LocalSeen, Answered, Polling, Top, Depth, WakersOf
<1> QED
  BY <1>1, <1>2

-----------------------------------------------------------------------------
\* The inductive invariant of the main thread and those that hand tasks to it.
THEOREM MainInvariant == Spec => []IInv
  BY InitIInv, NextIInv, PTL DEF Spec

\* The variables keep their types; in particular the stack of calls never empties:
\* the call of the fake main thread neither returns nor is unwound for good.
THEOREM MainTypes == Spec => []TypeOK
<1>1. IInv => TypeOK
  BY DEF IInv
<1> QED
  BY <1>1, MainInvariant, PTL

\* MainExecutor::tick registers before it looks, and spawn pushes before it takes the
\* waker: the main thread does not sleep beside a main task, whatever calls of
\* block_on are nested, return or unwind in between.
THEOREM MainNotStranded == Spec => []NoMainTaskStranded
<1>1. IInv => NoMainTaskStranded
  BY DEF IInv, MainSeen, Answered, NoMainTaskStranded, Asleep
<1> QED
  BY <1>1, MainInvariant, PTL

\* LocalExecutor::tick registers likewise, and a local task takes the waker itself: the
\* main thread sleeps beside one only where a nested call has taken the slot.
THEOREM LocalNotStranded == Spec => []NoLocalTaskStranded
<1>1. IInv => NoLocalTaskStranded
  BY DEF IInv, LocalSeen, NoLocalTaskStranded, Asleep, Polling
<1> QED
  BY <1>1, MainInvariant, PTL
=============================================================================
