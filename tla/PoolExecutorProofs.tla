------------------------- MODULE PoolExecutorProofs -------------------------
(***************************************************************************)
(* Why no wake-up of the pool is lost, for any number of workers and       *)
(* spawners.                                                               *)
(*                                                                         *)
(* The flag is_waking may be up only while somebody is on the way: a       *)
(* thread that is about to take a sleeper, a worker that was taken and has *)
(* not yet gone back to work, or a critical section that will store the    *)
(* flag again.  While it is down and somebody sleeps, every runnable has a *)
(* thread that answers for it: one that will call wake_one, or a worker    *)
(* that is not at work and has not yet looked where the runnable is.  A    *)
(* worker that stores the flag after it has listed itself still looks once *)
(* more, and one that has found something calls wake_one after that.       *)
(***************************************************************************)
EXTENDS PoolExecutor, TLAPS, FiniteSetTheorems

-----------------------------------------------------------------------------
(***************************************************************************)
(* Runnables are counted in many places; together they are no more than    *)
(* were scheduled.                                                         *)
(***************************************************************************)

\* The worker has taken a runnable for itself.
Holds(w) == \/ pc[w] \in {"grab", "len", "inner", "self", "self2", "run"}
            \/ pc[w] \in {"cas", "take", "wake"} /\ ret[w] = "run"

\* The runnables a worker has, with the one that has entered a scope.
Load(w) == local[w] + buf[w] + (IF depth[w] = 2 THEN 1 ELSE 0) + (IF Holds(w) THEN 1 ELSE 0)

GlobalQueue == -1
Finished == -2
Places == Workers \cup {GlobalQueue, Finished}
Share(d) == IF d = GlobalQueue THEN queue ELSE IF d = Finished THEN finished ELSE Load(d)
Runnables == {p \in Places \X (1 .. MaxTasks + 1) : p[2] <= Share(p[1])}

\* Where threads are, and what they have there.
SpawnerOk(t) == pc[t] \in {"idle", "cas", "take", "wake"} /\ ret[t] = "idle"

WorkerOk(w) ==
    /\ pc[w] # "idle" /\ ret[w] # "idle"
    /\ pc[w] \in {"self", "self2"} => ret[w] \in {"run", "cas"}
    /\ pc[w] \in {"cas", "take", "wake"} => ret[w] \in {"run", "local"}
    /\ pc[w] # "grab" => buf[w] = 0
    /\ pc[w] \in {"grab", "steal", "len", "sleep"} => local[w] = 0
    /\ pc[w] = "grab" => buf[w] + left[w] <= CAP
    /\ pc[w] = "inner" => local[w] + left[w] <= CAP
    /\ pc[w] \in {"len", "inner"} => src[w] \in Workers \ {w}
    /\ w \notin victims[w]

ThreadsOk ==
    /\ \A t \in Spawners : SpawnerOk(t)
    /\ \A w \in Workers : WorkerOk(w)
    /\ \A t \in Threads : pc[t] = "wake" => target[t] \in Workers /\ level[t] \in 1 .. 3

\* The two-step critical sections of the lounge.
LockOk ==
    /\ \A w \in Workers : lock = w <=> pc[w] \in {"self2", "sleep2"}
    /\ \A w \in Workers : /\ pc[w] = "self2" => ~working[w] /\ wakers[w] = 0
                          /\ pc[w] = "sleep2" => ~working[w] /\ wakers[w] # 0

Types == TypeOK /\ Cardinality(Runnables) <= scheduled
Inv == Types /\ ThreadsOk /\ LockOk /\ LoungeCounts

-----------------------------------------------------------------------------
(***************************************************************************)
(* Wake-ups, as long as no task has entered a scope on its worker.         *)
(***************************************************************************)

\* t will call wake_one.
Calls(t) == \/ pc[t] \in {"cas", "take", "grab", "len", "inner"}
            \/ pc[t] \in {"self", "self2"} /\ ret[t] = "cas"

\* w will look for runnables at d before it parks.
Looks(w, d) ==
    /\ ~working[w]
    /\ \/ pc[w] \in {"poll", "fetch", "local", "cas", "take", "wake", "sleep2"}
       \/ wakers[w] = 0 /\ pc[w] \in {"sleep", "park", "steal"}
       \/ pc[w] = "steal" /\ d \in victims[w]

Filled == {d \in Workers \cup {GlobalQueue} : IF d = GlobalQueue THEN queue > 0 ELSE local[d] > 0}

\* A thread has taken w from the lounge and will unpark it.
ToBeWoken(w) == \E t \in Threads : pc[t] = "wake" /\ target[t] = w

\* A worker that runs a task of the pool is at work; one that is not has an empty deque,
\* unless it is about to call wake_one; one that is parked is listed or will be unparked.
WorkOk(w) ==
    /\ depth[w] = 1 /\ wakers[w] \in 0 .. 1
    /\ pc[w] = "run" => working[w]
    /\ pc[w] \in {"cas", "take", "wake"} /\ ret[w] = "run" => working[w]
    /\ ~working[w] /\ pc[w] \in {"self", "self2"} => ret[w] = "cas"
    /\ ~working[w] => local[w] = 0 \/ pc[w] \in {"inner", "self", "self2"}
    /\ pc[w] = "park" => ~working[w] /\ (wakers[w] # 0 \/ 1 \in token[w] \/ ToBeWoken(w))
    /\ pc[w] = "exit" => stop
    /\ stop => pc[w] \in {"poll", "exit"} \/ 1 \in token[w]

AtWork == \A w \in Workers : WorkOk(w)

LevelsOk == \A t \in Threads : pc[t] = "wake" => level[t] = 1

FlagOk ==
    is_waking => \/ Waking # {} \/ Sleeping = {} \/ lock # Nobody
                 \/ \E t \in Threads : pc[t] = "take"

Answered ==
    ~is_waking /\ ~stop /\ Sleeping # {} =>
        \A d \in Filled : \/ \E t \in Threads : Calls(t)
                          \/ \E w \in Workers : Looks(w, d)

Wakeups == AtWork /\ LevelsOk /\ (stop \/ FlagOk) /\ Answered

IInv == Inv /\ (scopes = 0 => Wakeups)

-----------------------------------------------------------------------------
\* Workers are numbers and spawners are not.
LEMMA Numbers ==
    /\ NumWorkers \in Nat \ {0} /\ CAP \in Nat \ {0} /\ MaxTasks \in Nat
    /\ \A w \in Workers : w \in Nat /\ w \in Threads /\ w # Nobody /\ w \notin Spawners
                          /\ w # GlobalQueue /\ w # Finished /\ w \in Places
    /\ GlobalQueue \in Places /\ Finished \in Places /\ GlobalQueue # Finished
    /\ \A t \in Threads : t \in Workers \/ t \in Spawners
    /\ \A t \in Spawners : t \in Threads /\ t \notin Workers
    /\ IsFiniteSet(Workers) /\ Cardinality(Workers) = NumWorkers
<1>1. NumWorkers \in Nat \ {0} /\ CAP \in Nat \ {0} /\ MaxTasks \in Nat
  BY PoolAssumption
<1>2. IsFiniteSet(Workers) /\ Cardinality(Workers) = NumWorkers
  BY <1>1, FS_Interval DEF Workers
<1> QED
  BY <1>1, <1>2, PoolAssumption
     DEF Workers, Threads, Places, GlobalQueue, Finished, Nobody

\* The types of what the invariant reads.
LEMMA Typed ==
    ASSUME Inv
    PROVE  /\ TypeOK /\ ThreadsOk /\ LockOk /\ LoungeCounts
           /\ queue \in Nat /\ finished \in Nat /\ scheduled \in 0 .. MaxTasks
           /\ \A w \in Workers : /\ local[w] \in 0 .. CAP /\ buf[w] \in 0 .. CAP
                                 /\ left[w] \in 0 .. CAP /\ wakers[w] \in 0 .. 3
                                 /\ depth[w] \in 1 .. 3 /\ working[w] \in BOOLEAN
                                 /\ Load(w) \in Nat /\ WorkerOk(w)
           /\ \A d \in Places : Share(d) \in Nat
<1>1. /\ TypeOK /\ ThreadsOk /\ LockOk /\ LoungeCounts
      /\ queue \in Nat /\ finished \in Nat /\ scheduled \in 0 .. MaxTasks
  BY Numbers DEF Inv, Types, TypeOK
<1>2. \A w \in Workers : /\ local[w] \in 0 .. CAP /\ buf[w] \in 0 .. CAP
                         /\ left[w] \in 0 .. CAP /\ wakers[w] \in 0 .. 3
                         /\ depth[w] \in 1 .. 3 /\ working[w] \in BOOLEAN /\ WorkerOk(w)
  BY <1>1 DEF TypeOK, ThreadsOk
<1>3. \A w \in Workers : Load(w) \in Nat
  BY <1>2, Numbers DEF Load
<1>4. \A d \in Places : Share(d) \in Nat
  BY <1>1, <1>3 DEF Share, Places
<1> QED
  BY <1>1, <1>2, <1>3, <1>4

\* The places are finitely many, and so are the runnables counted.
LEMMA Finite == IsFiniteSet(Places \X (1 .. MaxTasks + 1))
<1>1. IsFiniteSet(Workers \cup {GlobalQueue, Finished})
  <2>1. IsFiniteSet(Workers \cup {GlobalQueue})
    BY Numbers, FS_AddElement
  <2>2. IsFiniteSet((Workers \cup {GlobalQueue}) \cup {Finished})
    BY <2>1, FS_AddElement
  <2>3. (Workers \cup {GlobalQueue}) \cup {Finished} = Workers \cup {GlobalQueue, Finished}
    OBVIOUS
  <2> QED
    BY <2>2, <2>3
<1>2. IsFiniteSet(1 .. MaxTasks + 1)
  BY Numbers, FS_Interval
<1> QED
  BY <1>1, <1>2, FS_Product DEF Places

\* So they can be counted.
LEMMA RunnablesFinite ==
    IsFiniteSet(Runnables) /\ Cardinality(Runnables) \in Nat
  BY Finite, FS_Subset, FS_CardinalityType DEF Runnables

\* No place has more runnables than were scheduled.
LEMMA ShareBound ==
    ASSUME Inv, NEW a \in Places
    PROVE  Share(a) <= scheduled
<1>1. Share(a) \in Nat /\ Cardinality(Runnables) <= scheduled /\ scheduled \in 0 .. MaxTasks
  BY Typed DEF Inv, Types
<1> SUFFICES ASSUME Share(a) > scheduled PROVE FALSE
  BY <1>1, Numbers
<1> DEFINE f == [k \in 1 .. scheduled + 1 |-> <<a, k>>]
<1>2. f \in [1 .. scheduled + 1 -> Runnables]
  BY <1>1, Numbers DEF Runnables
<1>3. IsFiniteSet(1 .. scheduled + 1) /\ Cardinality(1 .. scheduled + 1) = scheduled + 1
  BY <1>1, Numbers, FS_Interval
<1>4. \A x, y \in 1 .. scheduled + 1 : f[x] = f[y] => x = y
  OBVIOUS
<1> HIDE DEF f
<1>5. Cardinality(Runnables) < Cardinality(1 .. scheduled + 1)
  BY <1>1, <1>3, RunnablesFinite, Numbers
<1>6. \E x, y \in 1 .. scheduled + 1 : x # y /\ f[x] = f[y]
  BY <1>2, <1>3, <1>5, RunnablesFinite, FS_PigeonHole
<1> QED
  BY <1>4, <1>6

\* If another place has one, there is room for one more.
LEMMA ShareRoom ==
    ASSUME Inv, NEW a \in Places, NEW b \in Places, a # b, Share(a) > 0
    PROVE  Share(b) < scheduled
<1>1. /\ Share(a) \in Nat /\ Share(b) \in Nat /\ Cardinality(Runnables) <= scheduled
      /\ scheduled \in 0 .. MaxTasks
  BY Typed DEF Inv, Types
<1> SUFFICES ASSUME Share(b) >= scheduled PROVE FALSE
  BY <1>1, Numbers
<1> DEFINE f == [k \in 1 .. scheduled + 1 |-> IF k = scheduled + 1 THEN <<a, 1>> ELSE <<b, k>>]
<1>2. f \in [1 .. scheduled + 1 -> Runnables]
  BY <1>1, Numbers DEF Runnables
<1>3. IsFiniteSet(1 .. scheduled + 1) /\ Cardinality(1 .. scheduled + 1) = scheduled + 1
  BY <1>1, Numbers, FS_Interval
<1>4. \A x, y \in 1 .. scheduled + 1 : f[x] = f[y] => x = y
  OBVIOUS
<1> HIDE DEF f
<1>5. Cardinality(Runnables) < Cardinality(1 .. scheduled + 1)
  BY <1>1, <1>3, RunnablesFinite, Numbers
<1>6. \E x, y \in 1 .. scheduled + 1 : x # y /\ f[x] = f[y]
  BY <1>2, <1>3, <1>5, RunnablesFinite, FS_PigeonHole
<1> QED
  BY <1>4, <1>6

\* A step that moves no runnable.
LEMMA CountSame ==
    ASSUME Inv, \A d \in Places : Share(d)' = Share(d), scheduled' \in Nat,
           scheduled' >= scheduled
    PROVE  Cardinality(Runnables)' <= scheduled'
<1>1. Runnables' = Runnables
  BY DEF Runnables
<1>2. Cardinality(Runnables) \in Nat /\ Cardinality(Runnables) <= scheduled /\ scheduled \in Nat
  BY RunnablesFinite, Typed, Numbers DEF Inv, Types
<1> QED
  BY <1>1, <1>2

\* A step that moves one from a to b.
LEMMA CountMove ==
    ASSUME Inv, NEW a \in Places, NEW b \in Places, a # b, Share(a) > 0,
           Share(a)' = Share(a) - 1, Share(b)' = Share(b) + 1,
           \A d \in Places \ {a, b} : Share(d)' = Share(d), scheduled' = scheduled
    PROVE  Cardinality(Runnables)' <= scheduled'
<1>1. /\ Share(a) \in Nat /\ Share(b) \in Nat /\ Cardinality(Runnables) <= scheduled
      /\ scheduled \in 0 .. MaxTasks /\ \A d \in Places : Share(d) \in Nat
  BY Typed DEF Inv, Types
<1>2. Share(a) <= scheduled /\ Share(b) < scheduled
  BY ShareBound, ShareRoom
<1>3. Runnables' = (Runnables \ {<<a, Share(a)>>}) \cup {<<b, Share(b) + 1>>}
  <2> SUFFICES ASSUME NEW d \in Places, NEW k \in 1 .. MaxTasks + 1
               PROVE  k <= Share(d)' <=> \/ k <= Share(d) /\ ~(d = a /\ k = Share(a))
                                         \/ d = b /\ k = Share(b) + 1
    BY <1>1, <1>2, Numbers DEF Runnables
  <2>1. CASE d = a
    BY <1>1, <2>1
  <2>2. CASE d = b
    BY <1>1, <2>2
  <2>3. CASE d # a /\ d # b
    BY <2>3
  <2> QED
    BY <2>1, <2>2, <2>3
<1>4. <<a, Share(a)>> \in Runnables
  BY <1>1, <1>2, Numbers DEF Runnables
<1>5. Cardinality(Runnables \ {<<a, Share(a)>>}) = Cardinality(Runnables) - 1
      /\ IsFiniteSet(Runnables \ {<<a, Share(a)>>})
  BY <1>4, RunnablesFinite, FS_RemoveElement
<1> DEFINE rest == Runnables \ {<<a, Share(a)>>}
<1>6. /\ Cardinality(rest) \in Nat /\ Cardinality(rest) = Cardinality(Runnables) - 1
      /\ IsFiniteSet(rest)
  BY <1>5, FS_CardinalityType
<1>7. Cardinality(Runnables') \in {Cardinality(rest), Cardinality(rest) + 1}
  <2>1. Runnables' = rest \cup {<<b, Share(b) + 1>>}
    BY <1>3
  <2> HIDE DEF rest
  <2> QED
    BY <1>6, <2>1, FS_AddElement
<1> QED
  BY <1>1, <1>6, <1>7, RunnablesFinite

\* A step that schedules one.
LEMMA CountAdd ==
    ASSUME Inv, NEW b \in Places, Share(b)' = Share(b) + 1, scheduled < MaxTasks,
           \A d \in Places \ {b} : Share(d)' = Share(d), scheduled' = scheduled + 1
    PROVE  Cardinality(Runnables)' <= scheduled'
<1>1. /\ Share(b) \in Nat /\ Cardinality(Runnables) <= scheduled
      /\ scheduled \in 0 .. MaxTasks /\ \A d \in Places : Share(d) \in Nat
  BY Typed DEF Inv, Types
<1>2. Share(b) <= scheduled
  BY ShareBound
<1>3. Runnables' = Runnables \cup {<<b, Share(b) + 1>>}
  <2> SUFFICES ASSUME NEW d \in Places, NEW k \in 1 .. MaxTasks + 1
               PROVE  k <= Share(d)' <=> k <= Share(d) \/ (d = b /\ k = Share(b) + 1)
    BY <1>1, <1>2, Numbers DEF Runnables
  <2>1. CASE d = b
    BY <1>1, <2>1, Numbers
  <2>2. CASE d # b
    BY <2>2
  <2> QED
    BY <2>1, <2>2
<1>4. Cardinality(Runnables') \in {Cardinality(Runnables), Cardinality(Runnables) + 1}
  BY <1>3, RunnablesFinite, FS_AddElement
<1> QED
  BY <1>1, <1>4, RunnablesFinite

-----------------------------------------------------------------------------
\* A step of t: the other threads stay where they are.
LEMMA OneMoves ==
    ASSUME Inv, NEW t \in Threads, TypeOK',
           pc'[t] = "wake" => target'[t] \in Workers /\ level'[t] \in 1 .. 3,
           \A u \in Threads \ {t} : /\ pc'[u] = pc[u] /\ ret'[u] = ret[u]
                                    /\ target'[u] = target[u] /\ level'[u] = level[u],
           \A v \in Workers \ {t} : /\ buf'[v] = buf[v] /\ left'[v] = left[v]
                                    /\ victims'[v] = victims[v] /\ src'[v] = src[v]
                                    /\ local'[v] <= local[v],
           t \in Spawners => SpawnerOk(t)', t \in Workers => WorkerOk(t)'
    PROVE  ThreadsOk'
<1>0. /\ ThreadsOk
      /\ \A v \in Workers : local[v] \in 0 .. CAP /\ left[v] \in 0 .. CAP /\ WorkerOk(v)
  BY Typed
<1>1. \A v \in Workers : local'[v] \in 0 .. CAP
  BY DEF TypeOK
<1>2. \A v \in Workers : WorkerOk(v)'
  <2> SUFFICES ASSUME NEW v \in Workers, v # t PROVE WorkerOk(v)'
    OBVIOUS
  <2>1. /\ pc'[v] = pc[v] /\ ret'[v] = ret[v] /\ buf'[v] = buf[v] /\ left'[v] = left[v]
        /\ victims'[v] = victims[v] /\ src'[v] = src[v] /\ local'[v] <= local[v]
        /\ local'[v] \in 0 .. CAP /\ local[v] \in 0 .. CAP /\ left[v] \in 0 .. CAP
    BY <1>0, <1>1, Numbers
  <2>2. WorkerOk(v)
    BY <1>0
  <2> QED
    BY <2>1, <2>2, Numbers DEF WorkerOk
<1>3. \A u \in Spawners : SpawnerOk(u)'
  BY <1>0, Numbers DEF SpawnerOk, ThreadsOk
<1>4. \A u \in Threads : pc'[u] = "wake" => target'[u] \in Workers /\ level'[u] \in 1 .. 3
  BY <1>0 DEF ThreadsOk
<1> QED
  BY <1>2, <1>3, <1>4 DEF ThreadsOk

\* A step of t outside the critical sections of the lounge.
LEMMA QuietStep ==
    ASSUME Inv, NEW t \in Threads, TypeOK', Cardinality(Runnables)' <= scheduled',
           UNCHANGED <<sleeping_num, waking_count, cached_index, wakers, lock, working>>,
           pc[t] \notin {"self2", "sleep2"}, pc'[t] \notin {"self2", "sleep2"},
           pc'[t] = "wake" => target'[t] \in Workers /\ level'[t] \in 1 .. 3,
           \A u \in Threads \ {t} : /\ pc'[u] = pc[u] /\ ret'[u] = ret[u]
                                    /\ target'[u] = target[u] /\ level'[u] = level[u],
           \A v \in Workers \ {t} : /\ buf'[v] = buf[v] /\ left'[v] = left[v]
                                    /\ victims'[v] = victims[v] /\ src'[v] = src[v]
                                    /\ local'[v] <= local[v],
           t \in Spawners => SpawnerOk(t)', t \in Workers => WorkerOk(t)'
    PROVE  Inv'
<1>0. LockOk /\ LoungeCounts
  BY Typed
<1>1. ThreadsOk'
  BY OneMoves
<1>2. \A v \in Workers : /\ pc'[v] = "self2" <=> pc[v] = "self2"
                         /\ pc'[v] = "sleep2" <=> pc[v] = "sleep2"
  BY Numbers
<1>3. LockOk'
  BY <1>0, <1>2 DEF LockOk
<1>4. Sleeping' = Sleeping /\ Waking' = Waking
  BY <1>2 DEF Sleeping, Waking
<1>5. LoungeCounts'
  BY <1>0, <1>4 DEF LoungeCounts
<1> QED
  BY <1>1, <1>3, <1>5 DEF Inv, Types

\* Other threads push, and call wake_one.
LEMMA ScheduleInv ==
    ASSUME Inv, NEW t \in Threads, Schedule(t)
    PROVE  Inv'
<1>0. /\ TypeOK /\ scheduled \in 0 .. MaxTasks /\ scheduled < MaxTasks /\ queue \in Nat
      /\ pc[t] \in {"idle", "run", "local"} /\ scheduled' = scheduled + 1
      /\ UNCHANGED <<local, sleeping_num, waking_count, cached_index, wakers, lock, is_waking,
                     target, level, buf, left, victims, src, working, token, depth, done,
                     stop, finished, scopes, pokes, ticks>>
      /\ t \in Workers => WorkerOk(t)
      /\ t \in Spawners => SpawnerOk(t)
  BY Typed DEF Schedule, lounge, taken, fetchv, limits, ThreadsOk
<1>1. CASE /\ queue' = queue + 1 /\ ret' = [ret EXCEPT ![t] = pc[t]]
           /\ pc' = [pc EXCEPT ![t] = "cas"]
  <2>1. /\ pc'[t] = "cas" /\ ret'[t] = pc[t]
        /\ \A u \in Threads \ {t} : pc'[u] = pc[u] /\ ret'[u] = ret[u]
    BY <1>0, <1>1 DEF TypeOK
  <2>2. queue < MaxTasks
    <3>1. Share(GlobalQueue) = queue /\ GlobalQueue \in Places
      BY Numbers DEF Share
    <3> QED
      BY <1>0, <3>1, ShareBound, Numbers
  <2>3. TypeOK'
    <3>1. queue' \in 0 .. MaxTasks /\ scheduled' \in 0 .. MaxTasks
      BY <1>0, <1>1, <2>2, Numbers
    <3>2. pc' \in [Threads -> PCs] /\ ret' \in [Threads -> {"idle", "run", "local", "cas"}]
      BY <1>0, <1>1 DEF TypeOK, PCs
    <3> QED
      BY <1>0, <3>1, <3>2 DEF TypeOK
  <2>4. Cardinality(Runnables)' <= scheduled'
    <3>1. \A w \in Workers : Load(w)' = Load(w)
      BY <1>0, <2>1, Numbers DEF Load, Holds, WorkerOk
    <3>2. /\ Share(GlobalQueue)' = Share(GlobalQueue) + 1
          /\ \A d \in Places \ {GlobalQueue} : Share(d)' = Share(d)
      BY <1>0, <1>1, <3>1, Numbers DEF Share, Places
    <3> QED
      BY <1>0, <3>2, CountAdd, Numbers
  <2>5. (t \in Spawners => SpawnerOk(t)') /\ (t \in Workers => WorkerOk(t)')
    BY <1>0, <2>1 DEF SpawnerOk, WorkerOk
  <2>6. \A v \in Workers : local'[v] <= local[v]
    BY <1>0, Typed, Numbers
  <2> QED
    BY <1>0, <2>1, <2>3, <2>4, <2>5, <2>6, QuietStep
<1>2. CASE UNCHANGED <<queue, ret, pc>>
  <2>1. TypeOK'
    <3>1. scheduled' \in 0 .. MaxTasks
      BY <1>0, Numbers
    <3> QED
      BY <1>0, <1>2, <3>1 DEF TypeOK
  <2>2. Cardinality(Runnables)' <= scheduled'
    <3>1. \A d \in Places : Share(d)' = Share(d)
      BY <1>0, <1>2 DEF Share, Load, Holds
    <3> QED
      BY <1>0, <3>1, CountSame
  <2>3. (t \in Spawners => SpawnerOk(t)') /\ (t \in Workers => WorkerOk(t)')
    BY <1>0, <1>2 DEF SpawnerOk, WorkerOk
  <2>4. \A v \in Workers : local'[v] <= local[v]
    BY <1>0, Typed, Numbers
  <2> QED
    BY <1>0, <1>2, <2>1, <2>2, <2>3, <2>4, QuietStep
<1> QED
  BY <1>1, <1>2 DEF Schedule, Goto

\* The compare-exchange of wake_one.
LEMMA CasInv ==
    ASSUME Inv, NEW t \in Threads, WakeOneCas(t)
    PROVE  Inv'
<1>0. /\ TypeOK /\ scheduled \in 0 .. MaxTasks /\ pc[t] = "cas" /\ is_waking' \in BOOLEAN
      /\ UNCHANGED <<queue, local, sleeping_num, waking_count, cached_index, wakers, lock,
                     ret, target, level, buf, left, victims, src, working, token, depth,
                     done, stop, scheduled, finished, scopes, pokes, ticks>>
      /\ t \in Workers => WorkerOk(t)
      /\ t \in Spawners => SpawnerOk(t)
  BY Typed DEF WakeOneCas, lounge, taken, fetchv, limits, ThreadsOk, TypeOK
<1>1. PICK l \in {"take", ret[t]} : pc' = [pc EXCEPT ![t] = l]
  BY DEF WakeOneCas, Goto
<1>2. l \in {"take", "idle", "run", "local"} /\ (l # "take" => l = ret[t])
  BY <1>0, <1>1, Numbers DEF SpawnerOk, WorkerOk, TypeOK
<1>3. pc'[t] = l /\ \A u \in Threads \ {t} : pc'[u] = pc[u]
  BY <1>0, <1>1 DEF TypeOK
<1>4. TypeOK'
  <2>1. pc' \in [Threads -> PCs]
    BY <1>0, <1>1, <1>2 DEF TypeOK, PCs
  <2> QED
    BY <1>0, <2>1 DEF TypeOK
<1>5. Cardinality(Runnables)' <= scheduled'
  <2>1. \A w \in Workers : Load(w)' = Load(w)
    BY <1>0, <1>2, <1>3, Numbers DEF Load, Holds, WorkerOk
  <2>2. \A d \in Places : Share(d)' = Share(d)
    BY <1>0, <2>1, Numbers DEF Share, Places
  <2> QED
    BY <1>0, <2>2, CountSame
<1>6. (t \in Spawners => SpawnerOk(t)') /\ (t \in Workers => WorkerOk(t)')
  BY <1>0, <1>2, <1>3 DEF SpawnerOk, WorkerOk
<1>7. \A v \in Workers : local'[v] <= local[v]
  BY <1>0, Typed, Numbers
<1> QED
  BY <1>0, <1>2, <1>3, <1>4, <1>5, <1>6, <1>7, QuietStep

\* The unpark after a take.
LEMMA WakeInv ==
    ASSUME Inv, NEW t \in Threads, Wake(t)
    PROVE  Inv'
<1>0. /\ TypeOK /\ scheduled \in 0 .. MaxTasks /\ pc[t] = "wake"
      /\ target[t] \in Workers /\ level[t] \in 1 .. 3
      /\ token' = [token EXCEPT ![target[t]] = @ \cup {level[t]}]
      /\ target' = [target EXCEPT ![t] = Nobody] /\ level' = [level EXCEPT ![t] = 0]
      /\ pc' = [pc EXCEPT ![t] = ret[t]]
      /\ UNCHANGED <<queue, local, sleeping_num, waking_count, cached_index, wakers, lock,
                     is_waking, ret, buf, left, victims, src, working, depth,
                     done, stop, scheduled, finished, scopes, pokes, ticks>>
      /\ t \in Workers => WorkerOk(t)
      /\ t \in Spawners => SpawnerOk(t)
  BY Typed DEF Wake, Goto, lounge, fetchv, limits, ThreadsOk
<1>1. ret[t] \in {"idle", "run", "local"} /\ (t \in Spawners => ret[t] = "idle")
      /\ (t \in Workers => ret[t] \in {"run", "local"})
  BY <1>0, Numbers DEF SpawnerOk, WorkerOk
<1>2. /\ pc'[t] = ret[t]
      /\ \A u \in Threads \ {t} : pc'[u] = pc[u] /\ target'[u] = target[u] /\ level'[u] = level[u]
  BY <1>0 DEF TypeOK
<1>3. TypeOK'
  <2>1. pc' \in [Threads -> PCs]
    BY <1>0, <1>1 DEF TypeOK, PCs
  <2>2. /\ target' \in [Threads -> Workers \cup {Nobody}] /\ level' \in [Threads -> 0 .. 3]
        /\ token' \in [Workers -> SUBSET (1 .. 3)]
    BY <1>0 DEF TypeOK
  <2> QED
    BY <1>0, <2>1, <2>2 DEF TypeOK
<1>4. Cardinality(Runnables)' <= scheduled'
  <2>1. \A w \in Workers : Load(w)' = Load(w)
    BY <1>0, <1>1, <1>2, Numbers DEF Load, Holds
  <2>2. \A d \in Places : Share(d)' = Share(d)
    BY <1>0, <2>1, Numbers DEF Share, Places
  <2> QED
    BY <1>0, <2>2, CountSame
<1>5. (t \in Spawners => SpawnerOk(t)') /\ (t \in Workers => WorkerOk(t)')
  BY <1>0, <1>1, <1>2 DEF SpawnerOk, WorkerOk
<1>6. \A v \in Workers : local'[v] <= local[v]
  BY <1>0, Typed, Numbers
<1> QED
  BY <1>0, <1>1, <1>2, <1>3, <1>4, <1>5, <1>6, QuietStep

\* A worker takes a runnable from its own deque.
LEMMA FetchLocalInv ==
    ASSUME Inv, NEW w \in Workers, FetchLocal(w)
    PROVE  Inv'
<1>0. /\ TypeOK /\ scheduled \in 0 .. MaxTasks /\ pc[w] \in {"fetch", "poll"}
      /\ local[w] \in 1 .. CAP /\ WorkerOk(w)
      /\ local' = [local EXCEPT ![w] = local[w] - 1] /\ ret' = [ret EXCEPT ![w] = "run"]
      /\ pc' = [pc EXCEPT ![w] = "self"]
      /\ UNCHANGED <<queue, sleeping_num, waking_count, cached_index, wakers, lock, is_waking,
                     target, level, buf, left, victims, src, working, token, depth, done,
                     stop, scheduled, finished, scopes, pokes, ticks>>
  BY Typed, Numbers DEF FetchLocal, Looping, Goto, lounge, taken, fetchv, limits
<1>1. /\ pc'[w] = "self" /\ ret'[w] = "run" /\ local'[w] = local[w] - 1
      /\ \A u \in Threads \ {w} : pc'[u] = pc[u] /\ ret'[u] = ret[u]
      /\ \A v \in Workers \ {w} : local'[v] = local[v]
  BY <1>0, Numbers DEF TypeOK
<1>2. TypeOK'
  <2>1. /\ pc' \in [Threads -> PCs] /\ ret' \in [Threads -> {"idle", "run", "local", "cas"}]
        /\ local' \in [Workers -> 0 .. CAP]
    BY <1>0, Numbers DEF TypeOK, PCs
  <2> QED
    BY <1>0, <2>1 DEF TypeOK
<1>3. Cardinality(Runnables)' <= scheduled'
  <2>1. \A v \in Workers : Load(v)' = Load(v)
    BY <1>0, <1>1, Typed, Numbers DEF Load, Holds
  <2>2. \A d \in Places : Share(d)' = Share(d)
    BY <1>0, <2>1, Numbers DEF Share, Places
  <2> QED
    BY <1>0, <2>2, CountSame
<1>4. WorkerOk(w)'
  BY <1>0, <1>1 DEF WorkerOk
<1>5. \A v \in Workers \ {w} : local'[v] <= local[v]
  BY <1>1, Typed, Numbers
<1>6. w \in Threads /\ w \notin Spawners
  BY Numbers
<1> QED
  BY <1>0, <1>1, <1>2, <1>3, <1>4, <1>5, <1>6, QuietStep

\* A worker takes a runnable from the global queue, or goes on to the other workers.
LEMMA StealGlobalInv ==
    ASSUME Inv, NEW w \in Workers, StealGlobal(w)
    PROVE  Inv'
<1>0. /\ TypeOK /\ scheduled \in 0 .. MaxTasks /\ pc[w] \in {"fetch", "poll"}
      /\ local[w] = 0 /\ buf[w] = 0 /\ WorkerOk(w) /\ queue \in Nat
      /\ UNCHANGED <<local, sleeping_num, waking_count, cached_index, wakers, lock, is_waking,
                     ret, target, level, buf, src, working, token, depth, done,
                     stop, scheduled, finished, scopes, pokes, ticks>>
  BY Typed, Numbers DEF StealGlobal, Looping, lounge, taken, limits, WorkerOk
<1>1. w \in Threads /\ w \notin Spawners
  BY Numbers
<1>2. \A v \in Workers \ {w} : local'[v] <= local[v]
  BY <1>0, Typed, Numbers
<1>3. CASE /\ queue > 0 /\ queue' = queue - 1 /\ left' = [left EXCEPT ![w] = CAP]
           /\ pc' = [pc EXCEPT ![w] = "grab"] /\ UNCHANGED victims
  <2>1. /\ pc'[w] = "grab" /\ left'[w] = CAP
        /\ \A u \in Threads \ {w} : pc'[u] = pc[u]
        /\ \A v \in Workers \ {w} : left'[v] = left[v]
    BY <1>0, <1>1, <1>3 DEF TypeOK
  <2>2. TypeOK'
    <3>1. /\ pc' \in [Threads -> PCs] /\ left' \in [Workers -> 0 .. CAP]
          /\ queue' \in 0 .. MaxTasks
      BY <1>0, <1>3, Numbers DEF TypeOK, PCs
    <3> QED
      BY <1>0, <1>3, <3>1 DEF TypeOK
  <2>3. Cardinality(Runnables)' <= scheduled'
    <3>1. Load(w)' = Load(w) + 1 /\ \A v \in Workers \ {w} : Load(v)' = Load(v)
      BY <1>0, <2>1, Typed, Numbers DEF Load, Holds
    <3>2. /\ Share(GlobalQueue) > 0 /\ Share(GlobalQueue)' = Share(GlobalQueue) - 1
          /\ Share(w)' = Share(w) + 1
          /\ \A d \in Places \ {GlobalQueue, w} : Share(d)' = Share(d)
      BY <1>0, <1>3, <3>1, Numbers DEF Share, Places
    <3> QED
      BY <1>0, <3>2, CountMove, Numbers
  <2>4. WorkerOk(w)'
    BY <1>0, <1>3, <2>1, Numbers DEF WorkerOk
  <2> QED
    BY <1>0, <1>1, <1>2, <1>3, <2>1, <2>2, <2>3, <2>4, QuietStep
<1>4. CASE /\ victims' = [victims EXCEPT ![w] = Workers \ {w}]
           /\ pc' = [pc EXCEPT ![w] = IF NumWorkers = 1 THEN "sleep" ELSE "steal"]
           /\ UNCHANGED <<queue, left>>
  <2>1. /\ pc'[w] \in {"sleep", "steal"} /\ victims'[w] = Workers \ {w}
        /\ \A u \in Threads \ {w} : pc'[u] = pc[u]
        /\ \A v \in Workers \ {w} : victims'[v] = victims[v]
    BY <1>0, <1>1, <1>4 DEF TypeOK
  <2>2. TypeOK'
    <3>1. /\ pc' \in [Threads -> PCs] /\ victims' \in [Workers -> SUBSET Workers]
      BY <1>0, <1>4 DEF TypeOK, PCs
    <3> QED
      BY <1>0, <1>4, <3>1 DEF TypeOK
  <2>3. Cardinality(Runnables)' <= scheduled'
    <3>1. \A v \in Workers : Load(v)' = Load(v)
      BY <1>0, <2>1, Numbers DEF Load, Holds
    <3>2. \A d \in Places : Share(d)' = Share(d)
      BY <1>0, <1>4, <3>1, Numbers DEF Share, Places
    <3> QED
      BY <1>0, <3>2, CountSame
  <2>4. WorkerOk(w)'
    BY <1>0, <2>1, <1>4 DEF WorkerOk
  <2> QED
    BY <1>0, <1>1, <1>2, <1>4, <2>1, <2>2, <2>3, <2>4, QuietStep
<1> QED
  BY <1>3, <1>4 DEF StealGlobal, Goto

\* A worker takes one more from the global queue, for its own deque.
LEMMA GrabMoreInv ==
    ASSUME Inv, NEW w \in Workers, GrabMore(w)
    PROVE  Inv'
<1>0. /\ TypeOK /\ scheduled \in 0 .. MaxTasks /\ pc[w] = "grab"
      /\ left[w] \in 1 .. CAP /\ buf[w] \in 0 .. CAP /\ buf[w] + left[w] <= CAP
      /\ WorkerOk(w) /\ queue \in Nat
      /\ left' = [left EXCEPT ![w] = left[w] - 1]
      /\ UNCHANGED <<local, sleeping_num, waking_count, cached_index, wakers, lock, is_waking,
                     pc, ret, target, level, victims, src, working, token, depth, done,
                     stop, scheduled, finished, scopes, pokes, ticks>>
  BY Typed, Numbers DEF GrabMore, lounge, taken, limits, WorkerOk
<1>1. w \in Threads /\ w \notin Spawners
  BY Numbers
<1>2. \A v \in Workers \ {w} : local'[v] <= local[v]
  BY <1>0, Typed, Numbers
<1>3. /\ left'[w] = left[w] - 1 /\ left' \in [Workers -> 0 .. CAP]
      /\ \A v \in Workers \ {w} : left'[v] = left[v]
  BY <1>0, Numbers DEF TypeOK
<1>4. CASE queue > 0 /\ queue' = queue - 1 /\ buf' = [buf EXCEPT ![w] = @ + 1]
  <2>1. buf'[w] = buf[w] + 1 /\ \A v \in Workers \ {w} : buf'[v] = buf[v]
    BY <1>0, <1>4 DEF TypeOK
  <2>2. TypeOK'
    <3>1. queue' \in 0 .. MaxTasks /\ buf' \in [Workers -> 0 .. CAP]
      BY <1>0, <1>4, Numbers DEF TypeOK
    <3> QED
      BY <1>0, <1>3, <3>1 DEF TypeOK
  <2>3. Cardinality(Runnables)' <= scheduled'
    <3>1. Load(w)' = Load(w) + 1 /\ \A v \in Workers \ {w} : Load(v)' = Load(v)
      BY <1>0, <2>1, Typed, Numbers DEF Load, Holds
    <3>2. /\ Share(GlobalQueue) > 0 /\ Share(GlobalQueue)' = Share(GlobalQueue) - 1
          /\ Share(w)' = Share(w) + 1
          /\ \A d \in Places \ {GlobalQueue, w} : Share(d)' = Share(d)
      BY <1>0, <1>4, <3>1, Numbers DEF Share, Places
    <3> QED
      BY <1>0, <3>2, CountMove, Numbers
  <2>4. WorkerOk(w)'
    BY <1>0, <1>3, <2>1, Numbers DEF WorkerOk
  <2> QED
    BY <1>0, <1>1, <1>2, <1>3, <2>1, <2>2, <2>3, <2>4, QuietStep
<1>5. CASE UNCHANGED <<queue, buf>>
  <2>1. TypeOK'
    BY <1>0, <1>3, <1>5 DEF TypeOK
  <2>2. Cardinality(Runnables)' <= scheduled'
    <3>1. \A d \in Places : Share(d)' = Share(d)
      BY <1>0, <1>5 DEF Share, Load, Holds
    <3> QED
      BY <1>0, <3>1, CountSame
  <2>3. WorkerOk(w)'
    BY <1>0, <1>3, <1>5, Numbers DEF WorkerOk
  <2> QED
    BY <1>0, <1>1, <1>2, <1>3, <1>5, <2>1, <2>2, <2>3, QuietStep
<1> QED
  BY <1>4, <1>5 DEF GrabMore

\* A worker pushes what it has taken.
LEMMA GrabPublishInv ==
    ASSUME Inv, NEW w \in Workers, GrabPublish(w)
    PROVE  Inv'
<1>0. /\ TypeOK /\ scheduled \in 0 .. MaxTasks /\ pc[w] = "grab"
      /\ local[w] = 0 /\ buf[w] \in 0 .. CAP /\ WorkerOk(w)
      /\ local' = [local EXCEPT ![w] = local[w] + buf[w]] /\ buf' = [buf EXCEPT ![w] = 0]
      /\ ret' = [ret EXCEPT ![w] = "cas"] /\ pc' = [pc EXCEPT ![w] = "self"]
      /\ UNCHANGED <<queue, sleeping_num, waking_count, cached_index, wakers, lock, is_waking,
                     target, level, left, victims, src, working, token, depth, done,
                     stop, scheduled, finished, scopes, pokes, ticks>>
  BY Typed, Numbers DEF GrabPublish, Goto, lounge, taken, limits, WorkerOk
<1>1. w \in Threads /\ w \notin Spawners
  BY Numbers
<1>2. /\ pc'[w] = "self" /\ ret'[w] = "cas" /\ local'[w] = buf[w] /\ buf'[w] = 0
      /\ \A u \in Threads \ {w} : pc'[u] = pc[u] /\ ret'[u] = ret[u]
      /\ \A v \in Workers \ {w} : local'[v] = local[v] /\ buf'[v] = buf[v]
  BY <1>0, <1>1, Numbers DEF TypeOK
<1>3. TypeOK'
  <2>1. /\ pc' \in [Threads -> PCs] /\ ret' \in [Threads -> {"idle", "run", "local", "cas"}]
        /\ local' \in [Workers -> 0 .. CAP] /\ buf' \in [Workers -> 0 .. CAP]
    BY <1>0, Numbers DEF TypeOK, PCs
  <2> QED
    BY <1>0, <2>1 DEF TypeOK
<1>4. Cardinality(Runnables)' <= scheduled'
  <2>1. \A v \in Workers : Load(v)' = Load(v)
    BY <1>0, <1>2, Typed, Numbers DEF Load, Holds
  <2>2. \A d \in Places : Share(d)' = Share(d)
    BY <1>0, <2>1, Numbers DEF Share, Places
  <2> QED
    BY <1>0, <2>2, CountSame
<1>5. WorkerOk(w)'
  BY <1>0, <1>2 DEF WorkerOk
<1>6. \A v \in Workers \ {w} : local'[v] <= local[v]
  BY <1>2, Typed, Numbers
<1> QED
  BY <1>0, <1>1, <1>2, <1>3, <1>4, <1>5, <1>6, QuietStep

\* A worker tries another worker's deque, and takes one runnable if there is any.
LEMMA StealWorkerInv ==
    ASSUME Inv, NEW w \in Workers, StealWorker(w)
    PROVE  Inv'
<1>0. /\ TypeOK /\ scheduled \in 0 .. MaxTasks /\ pc[w] = "steal"
      /\ local[w] = 0 /\ buf[w] = 0 /\ w \notin victims[w] /\ WorkerOk(w)
      /\ victims[w] \subseteq Workers
      /\ UNCHANGED <<queue, sleeping_num, waking_count, cached_index, wakers, lock, is_waking,
                     ret, target, level, buf, left, working, token, depth, done,
                     stop, scheduled, finished, scopes, pokes, ticks>>
  BY Typed, Numbers DEF StealWorker, lounge, taken, limits, WorkerOk, TypeOK
<1>1. w \in Threads /\ w \notin Spawners
  BY Numbers
<1>2. PICK v \in victims[w] :
          /\ victims' = [victims EXCEPT ![w] = victims[w] \ {v}]
          /\ \/ /\ local[v] = 0
                /\ pc' = [pc EXCEPT ![w] = IF victims[w] = {v} THEN "sleep" ELSE "steal"]
                /\ UNCHANGED <<local, src>>
             \/ /\ local[v] > 0 /\ local' = [local EXCEPT ![v] = local[v] - 1]
                /\ src' = [src EXCEPT ![w] = v] /\ pc' = [pc EXCEPT ![w] = "len"]
  BY DEF StealWorker, Goto
<1>3. v \in Workers /\ v # w
  BY <1>0
<1>4. /\ victims' \in [Workers -> SUBSET Workers] /\ victims'[w] = victims[w] \ {v}
      /\ \A u \in Workers \ {w} : victims'[u] = victims[u]
  BY <1>0, <1>2 DEF TypeOK
<1>5. CASE /\ pc' = [pc EXCEPT ![w] = IF victims[w] = {v} THEN "sleep" ELSE "steal"]
           /\ UNCHANGED <<local, src>>
  <2>1. /\ pc'[w] \in {"sleep", "steal"} /\ pc' \in [Threads -> PCs]
        /\ \A u \in Threads \ {w} : pc'[u] = pc[u]
    BY <1>0, <1>1, <1>5 DEF TypeOK, PCs
  <2>2. TypeOK'
    BY <1>0, <1>4, <1>5, <2>1 DEF TypeOK
  <2>3. Cardinality(Runnables)' <= scheduled'
    <3>1. \A u \in Workers : Load(u)' = Load(u)
      BY <1>0, <1>5, <2>1, Numbers DEF Load, Holds
    <3>2. \A d \in Places : Share(d)' = Share(d)
      BY <1>0, <3>1, Numbers DEF Share, Places
    <3> QED
      BY <1>0, <3>2, CountSame
  <2>4. WorkerOk(w)'
    BY <1>0, <1>4, <1>5, <2>1 DEF WorkerOk
  <2>5. \A u \in Workers \ {w} : local'[u] <= local[u]
    BY <1>5, Typed, Numbers
  <2> QED
    BY <1>0, <1>1, <1>4, <1>5, <2>1, <2>2, <2>3, <2>4, <2>5, QuietStep
<1>6. CASE /\ local[v] > 0 /\ local' = [local EXCEPT ![v] = local[v] - 1]
           /\ src' = [src EXCEPT ![w] = v] /\ pc' = [pc EXCEPT ![w] = "len"]
  <2>1. /\ pc'[w] = "len" /\ pc' \in [Threads -> PCs]
        /\ \A u \in Threads \ {w} : pc'[u] = pc[u]
        /\ src'[w] = v /\ \A u \in Workers \ {w} : src'[u] = src[u]
        /\ src' \in [Workers -> Workers \cup {Nobody}]
    BY <1>0, <1>1, <1>3, <1>6 DEF TypeOK, PCs
  <2>2. /\ local' \in [Workers -> 0 .. CAP] /\ local'[v] = local[v] - 1
        /\ \A u \in Workers \ {v} : local'[u] = local[u]
    BY <1>0, <1>3, <1>6, Numbers DEF TypeOK
  <2>3. TypeOK'
    BY <1>0, <1>4, <2>1, <2>2 DEF TypeOK
  <2>4. Cardinality(Runnables)' <= scheduled'
    <3>1. /\ Load(w)' = Load(w) + 1 /\ Load(v)' = Load(v) - 1 /\ Load(v) > 0
          /\ \A u \in Workers \ {v, w} : Load(u)' = Load(u)
      BY <1>0, <1>3, <1>6, <2>1, <2>2, Typed, Numbers DEF Load, Holds
    <3>2. /\ Share(v) > 0 /\ Share(v)' = Share(v) - 1 /\ Share(w)' = Share(w) + 1
          /\ \A d \in Places \ {v, w} : Share(d)' = Share(d)
      BY <1>0, <1>3, <3>1, Numbers DEF Share, Places
    <3> QED
      BY <1>0, <1>3, <3>2, CountMove, Numbers
  <2>5. WorkerOk(w)'
    BY <1>0, <1>3, <1>4, <2>1, <2>2, Numbers DEF WorkerOk
  <2>6. \A u \in Workers \ {w} : local'[u] <= local[u]
    BY <1>3, <2>2, Typed, Numbers
  <2> QED
    BY <1>0, <1>1, <1>4, <2>1, <2>2, <2>3, <2>4, <2>5, <2>6, QuietStep
<1> QED
  BY <1>2, <1>5, <1>6

\* It reads the length of that deque.
LEMMA StealLenInv ==
    ASSUME Inv, NEW w \in Workers, StealLen(w)
    PROVE  Inv'
<1>0. /\ TypeOK /\ scheduled \in 0 .. MaxTasks /\ pc[w] = "len"
      /\ local[w] = 0 /\ src[w] \in Workers \ {w} /\ WorkerOk(w)
      /\ left' = [left EXCEPT ![w] = local[src[w]] \div 2]
      /\ pc' = [pc EXCEPT ![w] = "inner"]
      /\ UNCHANGED <<queue, local, sleeping_num, waking_count, cached_index, wakers, lock,
                     is_waking, ret, target, level, buf, victims, src, working, token,
                     depth, done, stop, scheduled, finished, scopes, pokes, ticks>>
  BY Typed, Numbers DEF StealLen, Goto, lounge, taken, limits, WorkerOk
<1>1. w \in Threads /\ w \notin Spawners
  BY Numbers
<1>2. local[src[w]] \div 2 \in 0 .. CAP
  BY <1>0, Typed, Numbers
<1>3. /\ pc'[w] = "inner" /\ pc' \in [Threads -> PCs]
      /\ \A u \in Threads \ {w} : pc'[u] = pc[u]
      /\ left'[w] \in 0 .. CAP /\ left' \in [Workers -> 0 .. CAP]
      /\ \A v \in Workers \ {w} : left'[v] = left[v]
  BY <1>0, <1>1, <1>2 DEF TypeOK, PCs
<1>4. TypeOK'
  BY <1>0, <1>3 DEF TypeOK
<1>5. Cardinality(Runnables)' <= scheduled'
  <2>1. \A v \in Workers : Load(v)' = Load(v)
    BY <1>0, <1>3, Numbers DEF Load, Holds
  <2>2. \A d \in Places : Share(d)' = Share(d)
    BY <1>0, <2>1, Numbers DEF Share, Places
  <2> QED
    BY <1>0, <2>2, CountSame
<1>6. WorkerOk(w)'
  BY <1>0, <1>3, Numbers DEF WorkerOk
<1>7. \A v \in Workers \ {w} : local'[v] <= local[v]
  BY <1>0, Typed, Numbers
<1> QED
  BY <1>0, <1>1, <1>3, <1>4, <1>5, <1>6, <1>7, QuietStep

\* It moves one more runnable to its own deque, or is done with that deque.
LEMMA StealInnerInv ==
    ASSUME Inv, NEW w \in Workers, StealInner(w)
    PROVE  Inv'
<1>0. /\ TypeOK /\ scheduled \in 0 .. MaxTasks /\ pc[w] = "inner"
      /\ src[w] \in Workers \ {w} /\ WorkerOk(w)
      /\ local[w] \in 0 .. CAP /\ left[w] \in 0 .. CAP /\ local[w] + left[w] <= CAP
      /\ local[src[w]] \in 0 .. CAP
      /\ UNCHANGED <<queue, sleeping_num, waking_count, cached_index, wakers, lock,
                     is_waking, target, level, buf, working, token,
                     depth, done, stop, scheduled, finished, scopes, pokes, ticks>>
  BY Typed, Numbers DEF StealInner, Goto, lounge, taken, limits, WorkerOk
<1>1. w \in Threads /\ w \notin Spawners
  BY Numbers
<1>2. CASE /\ left[w] > 0 /\ local[src[w]] > 0
           /\ local' = [local EXCEPT ![src[w]] = @ - 1, ![w] = @ + 1]
           /\ left' = [left EXCEPT ![w] = @ - 1]
           /\ UNCHANGED <<pc, ret, src, victims>>
  <2>1. PICK v \in Workers \ {w} : v = src[w]
    BY <1>0
  <2>2. /\ left'[w] = left[w] - 1 /\ left' \in [Workers -> 0 .. CAP]
        /\ \A u \in Workers \ {w} : left'[u] = left[u]
    BY <1>0, <1>2, Numbers DEF TypeOK
  <2>3. /\ local'[v] = local[v] - 1 /\ local'[w] = local[w] + 1
        /\ \A u \in Workers \ {v, w} : local'[u] = local[u]
        /\ local' \in [Workers -> 0 .. CAP]
    BY <1>0, <1>2, <2>1, Numbers DEF TypeOK
  <2>4. TypeOK'
    BY <1>0, <1>2, <2>2, <2>3 DEF TypeOK
  <2>5. Cardinality(Runnables)' <= scheduled'
    <3>1. /\ Load(w)' = Load(w) + 1 /\ Load(v)' = Load(v) - 1 /\ Load(v) > 0
          /\ \A u \in Workers \ {v, w} : Load(u)' = Load(u)
      BY <1>0, <1>2, <2>1, <2>3, Typed, Numbers DEF Load, Holds
    <3>2. /\ Share(v) > 0 /\ Share(v)' = Share(v) - 1 /\ Share(w)' = Share(w) + 1
          /\ \A d \in Places \ {v, w} : Share(d)' = Share(d)
      BY <1>0, <3>1, Numbers DEF Share, Places
    <3> QED
      BY <1>0, <3>2, CountMove, Numbers
  <2>6. WorkerOk(w)'
    BY <1>0, <1>2, <2>2, <2>3, Numbers DEF WorkerOk
  <2>7. \A u \in Workers \ {w} : local'[u] <= local[u]
    BY <2>3, Typed, Numbers
  <2> QED
    BY <1>0, <1>1, <1>2, <2>2, <2>3, <2>4, <2>5, <2>6, <2>7, QuietStep
<1>3. CASE /\ left' = [left EXCEPT ![w] = 0] /\ src' = [src EXCEPT ![w] = Nobody]
           /\ victims' = [victims EXCEPT ![w] = {}] /\ ret' = [ret EXCEPT ![w] = "cas"]
           /\ pc' = [pc EXCEPT ![w] = "self"] /\ UNCHANGED local
  <2>1. /\ pc'[w] = "self" /\ ret'[w] = "cas" /\ victims'[w] = {}
        /\ \A u \in Threads \ {w} : pc'[u] = pc[u] /\ ret'[u] = ret[u]
        /\ \A v \in Workers \ {w} : /\ left'[v] = left[v] /\ src'[v] = src[v]
                                    /\ victims'[v] = victims[v]
    BY <1>0, <1>1, <1>3 DEF TypeOK
  <2>2. TypeOK'
    <3>1. /\ pc' \in [Threads -> PCs] /\ ret' \in [Threads -> {"idle", "run", "local", "cas"}]
          /\ left' \in [Workers -> 0 .. CAP] /\ src' \in [Workers -> Workers \cup {Nobody}]
          /\ victims' \in [Workers -> SUBSET Workers]
      BY <1>0, <1>3, Numbers DEF TypeOK, PCs
    <3> QED
      BY <1>0, <1>3, <3>1 DEF TypeOK
  <2>3. Cardinality(Runnables)' <= scheduled'
    <3>1. \A v \in Workers : Load(v)' = Load(v)
      BY <1>0, <1>3, <2>1, Numbers DEF Load, Holds
    <3>2. \A d \in Places : Share(d)' = Share(d)
      BY <1>0, <3>1, Numbers DEF Share, Places
    <3> QED
      BY <1>0, <3>2, CountSame
  <2>4. WorkerOk(w)'
    BY <1>0, <1>3, <2>1 DEF WorkerOk
  <2>5. \A v \in Workers \ {w} : local'[v] <= local[v]
    BY <1>3, Typed, Numbers
  <2> QED
    BY <1>0, <1>1, <1>3, <2>1, <2>2, <2>3, <2>4, <2>5, QuietStep
<1> QED
  BY <1>2, <1>3 DEF StealInner, Goto

\* A local task begins in the worker's poll.
LEMMA LocalTickInv ==
    ASSUME Inv, NEW w \in Workers, LocalTick(w)
    PROVE  Inv'
<1>0. /\ TypeOK /\ scheduled \in 0 .. MaxTasks /\ pc[w] = "poll" /\ WorkerOk(w)
      /\ ticks' \in 0 .. MaxTicks /\ pc' = [pc EXCEPT ![w] = "local"]
      /\ UNCHANGED <<queue, local, sleeping_num, waking_count, cached_index, wakers, lock,
                     is_waking, ret, target, level, buf, left, victims, src, working, token,
                     depth, done, stop, scheduled, finished, scopes, pokes>>
  BY Typed, Numbers, PoolAssumption
     DEF LocalTick, Goto, lounge, taken, fetchv, TypeOK
<1>1. w \in Threads /\ w \notin Spawners
  BY Numbers
<1>2. /\ pc'[w] = "local" /\ pc' \in [Threads -> PCs]
      /\ \A u \in Threads \ {w} : pc'[u] = pc[u]
  BY <1>0, <1>1 DEF TypeOK, PCs
<1>3. TypeOK'
  BY <1>0, <1>2 DEF TypeOK
<1>4. Cardinality(Runnables)' <= scheduled'
  <2>1. \A v \in Workers : Load(v)' = Load(v)
    BY <1>0, <1>2, Numbers DEF Load, Holds
  <2>2. \A d \in Places : Share(d)' = Share(d)
    BY <1>0, <2>1, Numbers DEF Share, Places
  <2> QED
    BY <1>0, <2>2, CountSame
<1>5. WorkerOk(w)'
  BY <1>0, <1>2 DEF WorkerOk
<1>6. \A v \in Workers \ {w} : local'[v] <= local[v]
  BY <1>0, Typed, Numbers
<1> QED
  BY <1>0, <1>1, <1>2, <1>3, <1>4, <1>5, <1>6, QuietStep

\* A step of a worker that only moves it on, between places where it holds no runnable.
LEMMA MoveInv ==
    ASSUME Inv, NEW w \in Workers, NEW l \in {"fetch", "poll"},
           pc[w] \in {"local", "park"}, pc' = [pc EXCEPT ![w] = l],
           token' \in [Workers -> SUBSET (1 .. 3)],
           UNCHANGED <<queue, local, sleeping_num, waking_count, cached_index, wakers, lock,
                       is_waking, ret, target, level, buf, left, victims, src, working,
                       depth, done, stop, scheduled, finished, scopes, pokes, ticks>>
    PROVE  Inv'
<1>0. TypeOK /\ scheduled \in 0 .. MaxTasks /\ WorkerOk(w)
  BY Typed
<1>1. w \in Threads /\ w \notin Spawners
  BY Numbers
<1>2. /\ pc'[w] = l /\ pc' \in [Threads -> PCs]
      /\ \A u \in Threads \ {w} : pc'[u] = pc[u]
  BY <1>0, <1>1 DEF TypeOK, PCs
<1>3. TypeOK'
  BY <1>0, <1>2 DEF TypeOK
<1>4. Cardinality(Runnables)' <= scheduled'
  <2>1. \A v \in Workers : Load(v)' = Load(v)
    BY <1>0, <1>2, Numbers DEF Load, Holds
  <2>2. \A d \in Places : Share(d)' = Share(d)
    BY <1>0, <2>1, Numbers DEF Share, Places
  <2> QED
    BY <1>0, <2>2, CountSame
<1>5. WorkerOk(w)'
  BY <1>0, <1>2 DEF WorkerOk
<1>6. \A v \in Workers \ {w} : local'[v] <= local[v]
  BY <1>0, Typed, Numbers
<1> QED
  BY <1>0, <1>1, <1>2, <1>3, <1>4, <1>5, <1>6, QuietStep

\* A local task ends.
LEMMA LocalEndInv ==
    ASSUME Inv, NEW w \in Workers, LocalEnd(w)
    PROVE  Inv'
<1>1. /\ pc[w] = "local" /\ token' \in [Workers -> SUBSET (1 .. 3)]
      /\ UNCHANGED <<queue, local, sleeping_num, waking_count, cached_index, wakers, lock,
                     is_waking, ret, target, level, buf, left, victims, src, working,
                     depth, done, stop, scheduled, finished, scopes, pokes, ticks>>
  BY Typed DEF LocalEnd, lounge, taken, fetchv, limits, TypeOK
<1>2. PICK l \in {"fetch", "poll"} : pc' = [pc EXCEPT ![w] = l]
  BY DEF LocalEnd, Goto
<1> QED
  BY <1>1, <1>2, MoveInv

\* A parked worker is unparked.
LEMMA UnparkInv ==
    ASSUME Inv, NEW w \in Workers, Unpark(w)
    PROVE  Inv'
<1>1. /\ pc[w] = "park" /\ token' \in [Workers -> SUBSET (1 .. 3)]
      /\ pc' = [pc EXCEPT ![w] = "poll"]
      /\ UNCHANGED <<queue, local, sleeping_num, waking_count, cached_index, wakers, lock,
                     is_waking, ret, target, level, buf, left, victims, src, working,
                     depth, done, stop, scheduled, finished, scopes, pokes, ticks>>
  BY Typed DEF Unpark, Goto, lounge, taken, fetchv, limits, TypeOK
<1> QED
  BY <1>1, MoveInv

\* The stop signal is ready: the worker leaves its loop.
LEMMA LeaveInv ==
    ASSUME Inv, NEW w \in Workers, Leave(w)
    PROVE  Inv'
<1>0. /\ TypeOK /\ scheduled \in 0 .. MaxTasks /\ pc[w] = "poll" /\ WorkerOk(w)
      /\ depth[w] \in 1 .. 3
      /\ pc' = [pc EXCEPT ![w] = <<"exit", "run", "local">>[depth[w]]]
      /\ depth' = [depth EXCEPT ![w] = 1] /\ done' = [done EXCEPT ![w] = FALSE]
      /\ UNCHANGED <<queue, local, sleeping_num, waking_count, cached_index, wakers, lock,
                     is_waking, ret, target, level, buf, left, victims, src, working, token,
                     stop, scheduled, finished, scopes, pokes, ticks>>
  BY Typed DEF Leave, Goto, lounge, taken, fetchv, limits
<1>1. w \in Threads /\ w \notin Spawners
  BY Numbers
<1>2. PICK l \in {"exit", "run", "local"} :
          pc' = [pc EXCEPT ![w] = l] /\ (l = "run" <=> depth[w] = 2)
  <2>1. depth[w] = 1 \/ depth[w] = 2 \/ depth[w] = 3
    BY <1>0
  <2>2. CASE depth[w] = 1
    <3>1. pc' = [pc EXCEPT ![w] = "exit"]
      BY <1>0, <2>2
    <3> QED
      BY <2>2, <3>1
  <2>3. CASE depth[w] = 2
    <3>1. pc' = [pc EXCEPT ![w] = "run"]
      BY <1>0, <2>3
    <3> QED
      BY <2>3, <3>1
  <2>4. CASE depth[w] = 3
    <3>1. pc' = [pc EXCEPT ![w] = "local"]
      BY <1>0, <2>4
    <3> QED
      BY <2>4, <3>1
  <2> QED
    BY <2>1, <2>2, <2>3, <2>4
<1>3. /\ pc'[w] = l /\ pc' \in [Threads -> PCs] /\ depth'[w] = 1
      /\ \A u \in Threads \ {w} : pc'[u] = pc[u]
      /\ \A v \in Workers \ {w} : depth'[v] = depth[v]
      /\ depth' \in [Workers -> 1 .. 3] /\ done' \in [Workers -> BOOLEAN]
  BY <1>0, <1>1, <1>2 DEF TypeOK, PCs
<1>4. TypeOK'
  BY <1>0, <1>3 DEF TypeOK
<1>5. Cardinality(Runnables)' <= scheduled'
  <2>1. \A v \in Workers : Load(v)' = Load(v)
    BY <1>0, <1>2, <1>3, Typed, Numbers DEF Load, Holds
  <2>2. \A d \in Places : Share(d)' = Share(d)
    BY <1>0, <2>1, Numbers DEF Share, Places
  <2> QED
    BY <1>0, <2>2, CountSame
<1>6. WorkerOk(w)'
  BY <1>0, <1>3 DEF WorkerOk
<1>7. \A v \in Workers \ {w} : local'[v] <= local[v]
  BY <1>0, Typed, Numbers
<1> QED
  BY <1>0, <1>1, <1>3, <1>4, <1>5, <1>6, <1>7, QuietStep

\* A task enters a scope.
LEMMA EnterScopeInv ==
    ASSUME Inv, NEW w \in Workers, EnterScope(w)
    PROVE  Inv'
<1>0. /\ TypeOK /\ scheduled \in 0 .. MaxTasks /\ pc[w] \in {"run", "local"} /\ WorkerOk(w)
      /\ depth[w] = 1 /\ scopes' \in 0 .. MaxScopes
      /\ pc' = [pc EXCEPT ![w] = "poll"]
      /\ UNCHANGED <<queue, local, sleeping_num, waking_count, cached_index, wakers, lock,
                     is_waking, ret, target, level, buf, left, victims, src, working,
                     done, stop, scheduled, finished, pokes, ticks>>
  BY Typed, Numbers, PoolAssumption DEF EnterScope, Goto, lounge, taken, fetchv, TypeOK
<1>1. w \in Threads /\ w \notin Spawners
  BY Numbers
<1>2. PICK d \in {2, 3} : /\ d = 2 <=> pc[w] = "run"
                          /\ depth' = [depth EXCEPT ![w] = d]
                          /\ token' = [token EXCEPT ![w] = token[w] \ {d}]
  <2>1. CASE pc[w] = "run"
    <3>1. depth' = [depth EXCEPT ![w] = 2] /\ token' = [token EXCEPT ![w] = token[w] \ {2}]
      BY <2>1 DEF EnterScope
    <3> QED
      BY <2>1, <3>1
  <2>2. CASE pc[w] # "run"
    <3>1. depth' = [depth EXCEPT ![w] = 3] /\ token' = [token EXCEPT ![w] = token[w] \ {3}]
      BY <2>2 DEF EnterScope
    <3> QED
      BY <2>2, <3>1
  <2> QED
    BY <2>1, <2>2
<1>3. /\ pc'[w] = "poll" /\ pc' \in [Threads -> PCs] /\ depth'[w] = d
      /\ \A u \in Threads \ {w} : pc'[u] = pc[u]
      /\ \A v \in Workers \ {w} : depth'[v] = depth[v]
      /\ depth' \in [Workers -> 1 .. 3] /\ token' \in [Workers -> SUBSET (1 .. 3)]
  BY <1>0, <1>1, <1>2 DEF TypeOK, PCs
<1>4. TypeOK'
  BY <1>0, <1>3 DEF TypeOK
<1>5. Cardinality(Runnables)' <= scheduled'
  <2>1. \A v \in Workers : Load(v)' = Load(v)
    BY <1>0, <1>2, <1>3, Typed, Numbers DEF Load, Holds
  <2>2. \A e \in Places : Share(e)' = Share(e)
    BY <1>0, <2>1, Numbers DEF Share, Places
  <2> QED
    BY <1>0, <2>2, CountSame
<1>6. WorkerOk(w)'
  BY <1>0, <1>3 DEF WorkerOk
<1>7. \A v \in Workers \ {w} : local'[v] <= local[v]
  BY <1>0, Typed, Numbers
<1> QED
  BY <1>0, <1>1, <1>3, <1>4, <1>5, <1>6, <1>7, QuietStep

\* A runnable returns.
LEMMA RunEndInv ==
    ASSUME Inv, NEW w \in Workers, RunEnd(w)
    PROVE  Inv'
<1>0. /\ TypeOK /\ scheduled \in 0 .. MaxTasks /\ pc[w] = "run" /\ WorkerOk(w)
      /\ finished' = finished + 1
      /\ UNCHANGED <<queue, local, sleeping_num, waking_count, cached_index, wakers, lock,
                     is_waking, ret, target, level, buf, left, victims, src, working, token,
                     depth, done, stop, scheduled, scopes, pokes, ticks>>
  BY Typed DEF RunEnd, lounge, taken, fetchv, limits
<1>1. w \in Threads /\ w \notin Spawners
  BY Numbers
<1>2. PICK l \in {"fetch", "poll"} : pc' = [pc EXCEPT ![w] = l]
  BY DEF RunEnd, Goto
<1>3. /\ pc'[w] = l /\ pc' \in [Threads -> PCs]
      /\ \A u \in Threads \ {w} : pc'[u] = pc[u]
  BY <1>0, <1>1, <1>2 DEF TypeOK, PCs
<1>4. /\ Load(w)' = Load(w) - 1 /\ Load(w) > 0
      /\ \A v \in Workers \ {w} : Load(v)' = Load(v)
  BY <1>0, <1>3, Typed, Numbers DEF Load, Holds
<1>5. /\ Share(w) > 0 /\ Share(w)' = Share(w) - 1 /\ Share(Finished) = finished
      /\ Share(Finished)' = Share(Finished) + 1
      /\ \A d \in Places \ {w, Finished} : Share(d)' = Share(d)
  BY <1>0, <1>4, Numbers DEF Share, Places
<1>6. Cardinality(Runnables)' <= scheduled'
  BY <1>0, <1>5, CountMove, Numbers
<1>7. TypeOK'
  <2>1. finished < scheduled /\ finished \in Nat
    BY <1>5, ShareRoom, Typed, Numbers
  <2>2. finished' \in 0 .. MaxTasks
    BY <1>0, <2>1, Numbers
  <2> QED
    BY <1>0, <1>3, <2>2 DEF TypeOK
<1>8. WorkerOk(w)'
  BY <1>0, <1>3 DEF WorkerOk
<1>9. \A v \in Workers \ {w} : local'[v] <= local[v]
  BY <1>0, Typed, Numbers
<1> QED
  BY <1>0, <1>1, <1>3, <1>6, <1>7, <1>8, <1>9, QuietStep

-----------------------------------------------------------------------------
\* A step that moves no thread.
LEMMA StillStep ==
    ASSUME Inv, TypeOK', Cardinality(Runnables)' <= scheduled',
           UNCHANGED <<sleeping_num, waking_count, cached_index, wakers, lock, working,
                       pc, ret, target, level, buf, left, victims, src>>,
           \A v \in Workers : local'[v] <= local[v]
    PROVE  Inv'
<1>0. /\ TypeOK /\ ThreadsOk /\ LockOk /\ LoungeCounts
      /\ \A v \in Workers : /\ local[v] \in 0 .. CAP /\ left[v] \in 0 .. CAP
                            /\ buf[v] \in 0 .. CAP /\ WorkerOk(v)
  BY Typed
<1>1. \A v \in Workers : local'[v] \in 0 .. CAP
  BY DEF TypeOK
<1>2. \A v \in Workers : WorkerOk(v)'
  BY <1>0, <1>1, Numbers DEF WorkerOk
<1>3. \A u \in Spawners : SpawnerOk(u)'
  BY <1>0 DEF SpawnerOk, ThreadsOk
<1>4. ThreadsOk' /\ LockOk' /\ LoungeCounts'
  BY <1>0, <1>2, <1>3 DEF ThreadsOk, LockOk, LoungeCounts, Sleeping, Waking
<1> QED
  BY <1>4 DEF Inv, Types

\* A scope's last task completes.
LEMMA ScopeDoneInv ==
    ASSUME Inv, NEW w \in Workers, ScopeDone(w)
    PROVE  Inv'
<1>0. /\ TypeOK /\ scheduled \in 0 .. MaxTasks /\ done' = [done EXCEPT ![w] = TRUE]
      /\ token' = [token EXCEPT ![w] = @ \cup {depth[w]}]
      /\ UNCHANGED <<queue, local, sleeping_num, waking_count, cached_index, wakers, lock,
                     is_waking, pc, ret, target, level, buf, left, victims, src, working,
                     depth, stop, scheduled, finished, scopes, pokes, ticks>>
  BY Typed DEF ScopeDone, lounge, taken, fetchv, limits
<1>1. token' \in [Workers -> SUBSET (1 .. 3)] /\ done' \in [Workers -> BOOLEAN]
  BY <1>0, Typed DEF TypeOK
<1>2. TypeOK'
  BY <1>0, <1>1 DEF TypeOK
<1>3. \A d \in Places : Share(d)' = Share(d)
  BY <1>0 DEF Share, Load, Holds
<1>4. Cardinality(Runnables)' <= scheduled'
  BY <1>0, <1>3, CountSame
<1>5. \A v \in Workers : local'[v] <= local[v]
  BY <1>0, Typed, Numbers
<1> QED
  BY <1>0, <1>2, <1>4, <1>5, StillStep

\* Somebody else unparks a worker.
LEMMA PokeInv ==
    ASSUME Inv, NEW w \in Workers, Poke(w)
    PROVE  Inv'
<1>0. /\ TypeOK /\ scheduled \in 0 .. MaxTasks /\ pokes' \in 0 .. MaxPokes
      /\ token' = [token EXCEPT ![w] = @ \cup {depth[w]}]
      /\ UNCHANGED <<queue, local, sleeping_num, waking_count, cached_index, wakers, lock,
                     is_waking, pc, ret, target, level, buf, left, victims, src, working,
                     depth, done, stop, scheduled, finished, scopes, ticks>>
  BY Typed, PoolAssumption DEF Poke, lounge, taken, fetchv, TypeOK
<1>1. token' \in [Workers -> SUBSET (1 .. 3)]
  BY <1>0, Typed DEF TypeOK
<1>2. TypeOK'
  BY <1>0, <1>1 DEF TypeOK
<1>3. \A d \in Places : Share(d)' = Share(d)
  BY <1>0 DEF Share, Load, Holds
<1>4. Cardinality(Runnables)' <= scheduled'
  BY <1>0, <1>3, CountSame
<1>5. \A v \in Workers : local'[v] <= local[v]
  BY <1>0, Typed, Numbers
<1> QED
  BY <1>0, <1>2, <1>4, <1>5, StillStep

\* The pool is dropped.
LEMMA DropPoolInv ==
    ASSUME Inv, DropPool
    PROVE  Inv'
<1>0. /\ TypeOK /\ scheduled \in 0 .. MaxTasks /\ stop' = TRUE
      /\ token' = [w \in Workers |-> token[w] \cup {1}]
      /\ UNCHANGED <<queue, local, sleeping_num, waking_count, cached_index, wakers, lock,
                     is_waking, pc, ret, target, level, buf, left, victims, src, working,
                     depth, done, scheduled, finished, scopes, pokes, ticks>>
  BY Typed DEF DropPool, lounge, taken, fetchv, limits
<1>1. token' \in [Workers -> SUBSET (1 .. 3)] /\ stop' \in BOOLEAN
  BY <1>0, Typed DEF TypeOK
<1>2. TypeOK'
  BY <1>0, <1>1 DEF TypeOK
<1>3. \A d \in Places : Share(d)' = Share(d)
  BY <1>0 DEF Share, Load, Holds
<1>4. Cardinality(Runnables)' <= scheduled'
  BY <1>0, <1>3, CountSame
<1>5. \A v \in Workers : local'[v] <= local[v]
  BY <1>0, Typed, Numbers
<1> QED
  BY <1>0, <1>2, <1>4, <1>5, StillStep

\* A scope's caller runs a runnable itself.
LEMMA AssistInv ==
    ASSUME Inv, Assist
    PROVE  Inv'
<1>0. /\ TypeOK /\ scheduled \in 0 .. MaxTasks /\ finished' = finished + 1
      /\ queue \in Nat /\ finished \in Nat
      /\ UNCHANGED <<sleeping_num, waking_count, cached_index, wakers, lock,
                     is_waking, pc, ret, target, level, buf, left, victims, src, working,
                     token, depth, done, stop, scheduled, scopes, pokes, ticks>>
  BY Typed DEF Assist, lounge, taken, fetchv, limits
<1>1. CASE queue > 0 /\ queue' = queue - 1 /\ UNCHANGED local
  <2>1. \A v \in Workers : Load(v)' = Load(v)
    BY <1>0, <1>1 DEF Load, Holds
  <2>2. /\ Share(GlobalQueue) > 0 /\ Share(GlobalQueue)' = Share(GlobalQueue) - 1
        /\ Share(Finished)' = Share(Finished) + 1 /\ Share(Finished) = finished
        /\ \A d \in Places \ {GlobalQueue, Finished} : Share(d)' = Share(d)
    BY <1>0, <1>1, <2>1, Numbers DEF Share, Places
  <2>3. Cardinality(Runnables)' <= scheduled'
    BY <1>0, <2>2, CountMove, Numbers
  <2>4. TypeOK'
    <3>1. finished < scheduled
      BY <2>2, ShareRoom, Numbers
    <3>2. finished' \in 0 .. MaxTasks /\ queue' \in 0 .. MaxTasks
      BY <1>0, <1>1, <3>1, Numbers DEF TypeOK
    <3> QED
      BY <1>0, <1>1, <3>2 DEF TypeOK
  <2>5. \A v \in Workers : local'[v] <= local[v]
    BY <1>1, Typed, Numbers
  <2> QED
    BY <1>0, <2>3, <2>4, <2>5, StillStep
<1>2. CASE \E v \in Workers : /\ local[v] > 0 /\ local' = [local EXCEPT ![v] = @ - 1]
                              /\ UNCHANGED queue
  <2>1. PICK v \in Workers : /\ local[v] > 0 /\ local' = [local EXCEPT ![v] = @ - 1]
                             /\ UNCHANGED queue
    BY <1>2
  <2>2. /\ local' \in [Workers -> 0 .. CAP] /\ local'[v] = local[v] - 1
        /\ \A u \in Workers \ {v} : local'[u] = local[u]
    BY <1>0, <2>1, Numbers DEF TypeOK
  <2>3. /\ Load(v)' = Load(v) - 1 /\ Load(v) > 0
        /\ \A u \in Workers \ {v} : Load(u)' = Load(u)
    BY <1>0, <2>1, <2>2, Typed, Numbers DEF Load, Holds
  <2>4. /\ Share(v) > 0 /\ Share(v)' = Share(v) - 1
        /\ Share(Finished)' = Share(Finished) + 1 /\ Share(Finished) = finished
        /\ \A d \in Places \ {v, Finished} : Share(d)' = Share(d)
    BY <1>0, <2>1, <2>3, Numbers DEF Share, Places
  <2>5. Cardinality(Runnables)' <= scheduled'
    BY <1>0, <2>4, CountMove, Numbers
  <2>6. TypeOK'
    <3>1. finished < scheduled
      BY <2>4, ShareRoom, Numbers
    <3>2. finished' \in 0 .. MaxTasks
      BY <1>0, <3>1, Numbers DEF TypeOK
    <3> QED
      BY <1>0, <2>1, <2>2, <3>2 DEF TypeOK
  <2>7. \A u \in Workers : local'[u] <= local[u]
    BY <2>2, Typed, Numbers
  <2> QED
    BY <1>0, <2>5, <2>6, <2>7, StillStep
<1> QED
  BY <1>1, <1>2 DEF Assist

-----------------------------------------------------------------------------
\* The counters of the lounge count workers.
LEMMA Listed ==
    \A S \in SUBSET Workers :
        /\ IsFiniteSet(S) /\ Cardinality(S) \in 0 .. NumWorkers
        /\ \A w \in Workers \ S : Cardinality(S \cup {w}) = Cardinality(S) + 1
        /\ \A w \in S : Cardinality(S \ {w}) = Cardinality(S) - 1
<1> SUFFICES ASSUME NEW S \in SUBSET Workers
             PROVE  /\ IsFiniteSet(S) /\ Cardinality(S) \in 0 .. NumWorkers
                    /\ \A w \in Workers \ S : Cardinality(S \cup {w}) = Cardinality(S) + 1
                    /\ \A w \in S : Cardinality(S \ {w}) = Cardinality(S) - 1
  OBVIOUS
<1>1. IsFiniteSet(S) /\ Cardinality(S) <= NumWorkers /\ Cardinality(S) \in Nat
  BY Numbers, FS_Subset, FS_CardinalityType
<1>2. \A w \in Workers \ S : Cardinality(S \cup {w}) = Cardinality(S) + 1
  BY <1>1, FS_AddElement
<1>3. \A w \in S : Cardinality(S \ {w}) = Cardinality(S) - 1
  BY <1>1, FS_RemoveElement
<1> QED
  BY <1>1, <1>2, <1>3, Numbers

\* What a critical section of the lounge leaves alone.
LEMMA LoungeStep ==
    ASSUME Inv, NEW w \in Workers, NEW l \in PCs,
           pc' = [pc EXCEPT ![w] = l], pc[w] \in {"self", "self2", "sleep", "sleep2"},
           l \in {"self", "self2"} <=> pc[w] \in {"self", "self2"},
           l \notin {"grab", "steal", "len", "inner", "sleep", "wake", "cas", "take", "idle", "run"},
           lock' \in Workers \cup {Nobody}, is_waking' \in BOOLEAN,
           cached_index' \in 0 .. NumWorkers,
           wakers' \in [Workers -> 0 .. 3], working' \in [Workers -> BOOLEAN],
           ticks' \in 0 .. MaxTicks, LoungeCounts',
           UNCHANGED <<queue, local, ret, target, level, buf, left, victims, src,
                       token, depth, done, stop, scheduled, finished, scopes, pokes>>
    PROVE  Types' /\ ThreadsOk'
<1>0. TypeOK /\ scheduled \in 0 .. MaxTasks /\ WorkerOk(w)
  BY Typed
<1>1. w \in Threads /\ w \notin Spawners
  BY Numbers
<1>2. pc'[w] = l /\ pc' \in [Threads -> PCs] /\ \A u \in Threads \ {w} : pc'[u] = pc[u]
  BY <1>0, <1>1 DEF TypeOK
<1>3. TypeOK'
  <2>1. sleeping_num' \in 0 .. NumWorkers /\ waking_count' \in 0 .. NumWorkers
    BY Listed DEF LoungeCounts, Sleeping, Waking
  <2> QED
    BY <1>0, <1>2, <2>1 DEF TypeOK
<1>4. Cardinality(Runnables)' <= scheduled'
  <2>1. \A v \in Workers : Load(v)' = Load(v)
    BY <1>0, <1>2, Numbers DEF Load, Holds
  <2>2. \A d \in Places : Share(d)' = Share(d)
    BY <1>0, <2>1, Numbers DEF Share, Places
  <2> QED
    BY <1>0, <2>2, CountSame
<1>5. WorkerOk(w)'
  BY <1>0, <1>2 DEF WorkerOk
<1>6. \A v \in Workers \ {w} : local'[v] <= local[v]
  BY <1>0, Typed, Numbers
<1> QED
  BY <1>0, <1>1, <1>2, <1>3, <1>4, <1>5, <1>6, OneMoves DEF Types

\* A worker lists itself as sleeping.
LEMMA SleepInv ==
    ASSUME Inv, NEW w \in Workers, Sleep(w)
    PROVE  Inv'
<1>0. /\ TypeOK /\ LockOk /\ LoungeCounts /\ pc[w] = "sleep" /\ lock = Nobody
      /\ depth[w] \in 1 .. 3 /\ cached_index \in Nat
      /\ UNCHANGED <<queue, local, is_waking, ret, target, level, buf, left, victims, src,
                     token, depth, done, stop, scheduled, finished, scopes, pokes, ticks>>
  BY Typed, Numbers DEF Sleep, taken, fetchv, limits, TypeOK
<1>1. w \in Threads /\ w \notin Spawners
  BY Numbers
<1>2. /\ wakers' = [wakers EXCEPT ![w] = depth[w]]
      /\ wakers' \in [Workers -> 0 .. 3] /\ wakers'[w] # 0
      /\ \A v \in Workers \ {w} : wakers'[v] = wakers[v]
  <2>1. wakers' = [wakers EXCEPT ![w] = depth[w]]
    BY DEF Sleep, InsertWaker
  <2> QED
    BY <1>0, <2>1 DEF TypeOK
<1>3. Sleeping' = Sleeping \cup {w}
  BY <1>2 DEF Sleeping
<1>4. CASE wakers[w] = 0
  <2>1. /\ sleeping_num' = sleeping_num + 1 /\ lock' = w
        /\ cached_index' = (IF w < cached_index THEN w ELSE cached_index)
        /\ pc' = [pc EXCEPT ![w] = "sleep2"]
        /\ \/ working[w] /\ working' = [working EXCEPT ![w] = FALSE] /\ UNCHANGED waking_count
           \/ ~working[w] /\ waking_count' = waking_count - 1 /\ UNCHANGED working
    BY <1>0, <1>4 DEF Sleep, InsertWaker, Goto
  <2>2. /\ pc'[w] = "sleep2" /\ \A u \in Threads \ {w} : pc'[u] = pc[u]
    BY <1>0, <1>1, <2>1 DEF TypeOK
  <2>3. /\ working' \in [Workers -> BOOLEAN] /\ ~working'[w]
        /\ \A v \in Workers \ {w} : working'[v] = working[v]
    <3>1. CASE working' = [working EXCEPT ![w] = FALSE]
      BY <1>0, <3>1 DEF TypeOK
    <3>2. CASE ~working[w] /\ UNCHANGED working
      BY <1>0, <3>2 DEF TypeOK
    <3> QED
      BY <2>1, <3>1, <3>2
  <2>4. /\ cached_index' \in 0 .. NumWorkers /\ cached_index' <= w
        /\ cached_index' <= cached_index
    BY <1>0, <2>1, Numbers DEF TypeOK
  <2>5. sleeping_num' = Cardinality(Sleeping)'
    <3>1. w \notin Sleeping /\ Sleeping \in SUBSET Workers
      BY <1>4 DEF Sleeping
    <3> QED
      BY <1>0, <1>3, <2>1, <3>1, Listed DEF LoungeCounts
  <2>6. waking_count' = Cardinality(Waking)'
    <3>1. CASE working[w] /\ UNCHANGED waking_count
      <4>1. Waking' = Waking
        BY <1>2, <2>2, <2>3, <3>1, Numbers DEF Waking
      <4> QED
        BY <1>0, <3>1, <4>1 DEF LoungeCounts
    <3>2. CASE ~working[w] /\ waking_count' = waking_count - 1
      <4>1. Waking' = Waking \ {w}
        BY <1>2, <2>2, <2>3, Numbers DEF Waking
      <4>2. w \in Waking /\ Waking \in SUBSET Workers
        BY <1>0, <1>4, <3>2 DEF Waking
      <4> QED
        BY <1>0, <3>2, <4>1, <4>2, Listed DEF LoungeCounts
    <3> QED
      BY <2>1, <3>1, <3>2
  <2>7. LoungeCounts'
    <3>1. \A v \in Sleeping' : ~working'[v] /\ cached_index' <= v
      BY <1>0, <1>3, <2>3, <2>4, Numbers DEF LoungeCounts, Sleeping
    <3> QED
      BY <2>5, <2>6, <3>1 DEF LoungeCounts
  <2>8. LockOk'
    BY <1>0, <1>2, <2>1, <2>2, <2>3, Numbers DEF LockOk
  <2>9. Types' /\ ThreadsOk'
    <3>1. "sleep2" \in PCs /\ lock' \in Workers \cup {Nobody} /\ ticks' \in 0 .. MaxTicks
          /\ is_waking' \in BOOLEAN
      BY <1>0, <2>1 DEF PCs, TypeOK
    <3> QED
      BY <1>0, <1>2, <2>1, <2>3, <2>4, <2>7, <3>1, LoungeStep
  <2> QED
    BY <2>7, <2>8, <2>9 DEF Inv
<1>5. CASE wakers[w] # 0
  <2>1. /\ UNCHANGED <<sleeping_num, waking_count, cached_index, lock, working>>
        /\ pc' = [pc EXCEPT ![w] = "park"]
    <3>1. ~working[w]
      BY <1>0, <1>5 DEF LoungeCounts, Sleeping
    <3> QED
      BY <1>5, <3>1 DEF Sleep, Goto
  <2>2. /\ pc'[w] = "park" /\ \A u \in Threads \ {w} : pc'[u] = pc[u]
    BY <1>0, <1>1, <2>1 DEF TypeOK
  <2>3. LoungeCounts'
    <3>1. Sleeping' = Sleeping
      BY <1>3, <1>5 DEF Sleeping
    <3>2. Waking' = Waking
      BY <1>2, <1>5, <2>1, <2>2, Numbers DEF Waking
    <3> QED
      BY <1>0, <2>1, <3>1, <3>2 DEF LoungeCounts
  <2>4. LockOk'
    BY <1>0, <1>2, <2>1, <2>2, Numbers DEF LockOk
  <2>5. Types' /\ ThreadsOk'
    <3>1. /\ "park" \in PCs /\ lock' \in Workers \cup {Nobody} /\ ticks' \in 0 .. MaxTicks
          /\ is_waking' \in BOOLEAN /\ cached_index' \in 0 .. NumWorkers
          /\ working' \in [Workers -> BOOLEAN]
      BY <1>0, <2>1 DEF PCs, TypeOK
    <3> QED
      BY <1>0, <1>2, <2>1, <2>3, <3>1, LoungeStep
  <2> QED
    BY <2>3, <2>4, <2>5 DEF Inv
<1> QED
  BY <1>4, <1>5

\* It stores the flag and looks once more.
LEMMA SleepStoreInv ==
    ASSUME Inv, NEW w \in Workers, SleepStore(w)
    PROVE  Inv'
<1>0. /\ TypeOK /\ LockOk /\ LoungeCounts /\ pc[w] = "sleep2" /\ lock = w /\ lock' = Nobody
      /\ ~working[w] /\ wakers[w] # 0 /\ ticks \in 0 .. MaxTicks
      /\ is_waking' = LoungeIsWaking
      /\ UNCHANGED <<queue, local, sleeping_num, waking_count, cached_index, wakers, ret,
                     target, level, buf, left, victims, src, working,
                     token, depth, done, stop, scheduled, finished, scopes, pokes>>
  BY Typed, Numbers DEF SleepStore, lounge, taken, fetchv, LockOk, TypeOK
<1>1. w \in Threads /\ w \notin Spawners
  BY Numbers
<1>2. PICK l \in {"fetch", "local"} : pc' = [pc EXCEPT ![w] = l]
  BY DEF SleepStore, Goto
<1>3. ticks' \in 0 .. MaxTicks
  BY <1>0, PoolAssumption DEF SleepStore
<1>4. /\ pc'[w] = l /\ \A u \in Threads \ {w} : pc'[u] = pc[u]
  BY <1>0, <1>1, <1>2 DEF TypeOK
<1>5. LoungeCounts'
  <2>1. Sleeping' = Sleeping /\ Waking' = Waking
    BY <1>0, <1>4, Numbers DEF Sleeping, Waking
  <2> QED
    BY <1>0, <2>1 DEF LoungeCounts
<1>6. LockOk'
  BY <1>0, <1>4, Numbers DEF LockOk
<1>7. Types' /\ ThreadsOk'
  <2>1. /\ l \in PCs /\ lock' \in Workers \cup {Nobody}
        /\ is_waking' \in BOOLEAN /\ cached_index' \in 0 .. NumWorkers
        /\ wakers' \in [Workers -> 0 .. 3] /\ working' \in [Workers -> BOOLEAN]
    BY <1>0 DEF PCs, TypeOK, LoungeIsWaking
  <2> QED
    BY <1>0, <1>2, <1>3, <1>5, <2>1, LoungeStep
<1> QED
  BY <1>5, <1>6, <1>7 DEF Inv

\* A worker that found a runnable leaves the lounge.
LEMMA WakeSelfInv ==
    ASSUME Inv, NEW w \in Workers, WakeSelf(w)
    PROVE  Inv'
<1>0. /\ TypeOK /\ LockOk /\ LoungeCounts /\ pc[w] = "self" /\ WorkerOk(w)
      /\ scheduled \in 0 .. MaxTasks /\ ret[w] \in {"run", "cas"}
      /\ UNCHANGED <<queue, local, is_waking, target, level, buf, left, victims, src, working,
                     token, depth, done, stop, scheduled, finished, scopes, pokes, ticks>>
  BY Typed DEF WakeSelf, taken, fetchv, limits, WorkerOk
<1>1. w \in Threads /\ w \notin Spawners
  BY Numbers
<1>2. CASE working[w]
  <2>1. /\ pc' = [pc EXCEPT ![w] = ret[w]] /\ ret' = [ret EXCEPT ![w] = "run"]
        /\ UNCHANGED <<sleeping_num, waking_count, cached_index, wakers, lock>>
    BY <1>2 DEF WakeSelf, AfterSelf, Goto, lounge
  <2>2. /\ pc'[w] = ret[w] /\ ret'[w] = "run"
        /\ \A u \in Threads \ {w} : pc'[u] = pc[u] /\ ret'[u] = ret[u]
        /\ pc' \in [Threads -> PCs] /\ ret' \in [Threads -> {"idle", "run", "local", "cas"}]
    BY <1>0, <1>1, <2>1 DEF TypeOK, PCs
  <2>3. TypeOK'
    BY <1>0, <2>1, <2>2 DEF TypeOK
  <2>4. Cardinality(Runnables)' <= scheduled'
    <3>1. \A v \in Workers : Load(v)' = Load(v)
      BY <1>0, <2>2, Numbers DEF Load, Holds
    <3>2. \A d \in Places : Share(d)' = Share(d)
      BY <1>0, <3>1, Numbers DEF Share, Places
    <3> QED
      BY <1>0, <3>2, CountSame
  <2>5. WorkerOk(w)'
    BY <1>0, <2>2 DEF WorkerOk
  <2>6. \A v \in Workers \ {w} : local'[v] <= local[v]
    BY <1>0, Typed, Numbers
  <2> QED
    BY <1>0, <1>1, <2>1, <2>2, <2>3, <2>4, <2>5, <2>6, QuietStep
<1>3. CASE ~working[w]
  <2>1. /\ lock = Nobody /\ lock' = w /\ UNCHANGED <<cached_index, ret>>
        /\ pc' = [pc EXCEPT ![w] = "self2"]
        /\ \/ /\ wakers[w] # 0 /\ wakers' = [wakers EXCEPT ![w] = 0]
              /\ sleeping_num' = sleeping_num - 1 /\ UNCHANGED waking_count
           \/ /\ wakers[w] = 0 /\ waking_count' = waking_count - 1
              /\ UNCHANGED <<wakers, sleeping_num>>
    BY <1>3 DEF WakeSelf, Goto
  <2>2. /\ pc'[w] = "self2" /\ \A u \in Threads \ {w} : pc'[u] = pc[u]
    BY <1>0, <1>1, <2>1 DEF TypeOK
  <2>3. /\ wakers' \in [Workers -> 0 .. 3] /\ wakers'[w] = 0
        /\ \A v \in Workers \ {w} : wakers'[v] = wakers[v]
    <3>1. CASE wakers' = [wakers EXCEPT ![w] = 0]
      BY <1>0, <3>1, Numbers DEF TypeOK
    <3>2. CASE wakers[w] = 0 /\ UNCHANGED <<wakers, sleeping_num>>
      BY <1>0, <3>2 DEF TypeOK
    <3> QED
      BY <2>1, <3>1, <3>2
  <2>4. Sleeping' = Sleeping \ {w} /\ Waking' = Waking \ {w}
    BY <1>0, <2>2, <2>3, Numbers DEF Sleeping, Waking
  <2>5. Sleeping \in SUBSET Workers /\ Waking \in SUBSET Workers
    BY DEF Sleeping, Waking
  <2>6. LoungeCounts'
    <3>1. \A v \in Sleeping' : ~working'[v] /\ cached_index' <= v
      BY <1>0, <2>1, <2>4 DEF LoungeCounts
    <3>2. sleeping_num' = Cardinality(Sleeping') /\ waking_count' = Cardinality(Waking')
      <4>1. CASE wakers[w] # 0 /\ sleeping_num' = sleeping_num - 1 /\ UNCHANGED waking_count
        <5>1. w \in Sleeping /\ w \notin Waking
          BY <4>1 DEF Sleeping, Waking
        <5>2. Waking \ {w} = Waking
          BY <5>1
        <5> QED
          BY <1>0, <2>4, <2>5, <4>1, <5>1, <5>2, Listed DEF LoungeCounts
      <4>2. CASE wakers[w] = 0 /\ waking_count' = waking_count - 1 /\ UNCHANGED <<wakers, sleeping_num>>
        <5>1. w \in Waking /\ w \notin Sleeping
          BY <1>0, <1>3, <4>2 DEF Sleeping, Waking
        <5>2. Sleeping \ {w} = Sleeping
          BY <5>1
        <5> QED
          BY <1>0, <2>4, <2>5, <4>2, <5>1, <5>2, Listed DEF LoungeCounts
      <4> QED
        BY <2>1, <4>1, <4>2
    <3> QED
      BY <3>1, <3>2 DEF LoungeCounts
  <2>7. LockOk'
    BY <1>0, <1>3, <2>1, <2>2, <2>3, Numbers DEF LockOk
  <2>8. Types' /\ ThreadsOk'
    <3>1. /\ "self2" \in PCs /\ lock' \in Workers \cup {Nobody} /\ ticks' \in 0 .. MaxTicks
          /\ is_waking' \in BOOLEAN /\ cached_index' \in 0 .. NumWorkers
          /\ working' \in [Workers -> BOOLEAN]
      BY <1>0, <2>1 DEF PCs, TypeOK
    <3> QED
      BY <1>0, <2>1, <2>3, <2>6, <3>1, LoungeStep
  <2> QED
    BY <2>6, <2>7, <2>8 DEF Inv
<1> QED
  BY <1>2, <1>3

\* It stores the flag and is at work again.
LEMMA WakeSelfStoreInv ==
    ASSUME Inv, NEW w \in Workers, WakeSelfStore(w)
    PROVE  Inv'
<1>0. /\ TypeOK /\ LockOk /\ LoungeCounts /\ pc[w] = "self2" /\ WorkerOk(w)
      /\ lock = w /\ lock' = Nobody /\ ~working[w] /\ wakers[w] = 0
      /\ scheduled \in 0 .. MaxTasks /\ ret[w] \in {"run", "cas"}
      /\ working' = [working EXCEPT ![w] = TRUE] /\ is_waking' = LoungeIsWaking
      /\ pc' = [pc EXCEPT ![w] = ret[w]] /\ ret' = [ret EXCEPT ![w] = "run"]
      /\ UNCHANGED <<queue, local, sleeping_num, waking_count, cached_index, wakers,
                     target, level, buf, left, victims, src,
                     token, depth, done, stop, scheduled, finished, scopes, pokes, ticks>>
  BY Typed, Numbers
     DEF WakeSelfStore, AfterSelf, Goto, lounge, taken, fetchv, limits, WorkerOk, LockOk
<1>1. w \in Threads /\ w \notin Spawners
  BY Numbers
<1>2. /\ pc'[w] = ret[w] /\ ret'[w] = "run"
      /\ \A u \in Threads \ {w} : pc'[u] = pc[u] /\ ret'[u] = ret[u]
      /\ pc' \in [Threads -> PCs] /\ ret' \in [Threads -> {"idle", "run", "local", "cas"}]
  BY <1>0, <1>1 DEF TypeOK, PCs
<1>3. /\ working' \in [Workers -> BOOLEAN] /\ working'[w]
      /\ \A v \in Workers \ {w} : working'[v] = working[v]
  BY <1>0 DEF TypeOK
<1>4. TypeOK'
  <2>1. is_waking' \in BOOLEAN
    BY <1>0 DEF LoungeIsWaking
  <2> QED
    BY <1>0, <1>2, <1>3, <2>1 DEF TypeOK
<1>5. Cardinality(Runnables)' <= scheduled'
  <2>1. \A v \in Workers : Load(v)' = Load(v)
    BY <1>0, <1>2, Numbers DEF Load, Holds
  <2>2. \A d \in Places : Share(d)' = Share(d)
    BY <1>0, <2>1, Numbers DEF Share, Places
  <2> QED
    BY <1>0, <2>2, CountSame
<1>6. WorkerOk(w)'
  BY <1>0, <1>2 DEF WorkerOk
<1>7. \A v \in Workers \ {w} : local'[v] <= local[v]
  BY <1>0, Typed, Numbers
<1>8. ThreadsOk'
  BY <1>0, <1>1, <1>2, <1>4, <1>6, <1>7, OneMoves
<1>9. LockOk'
  BY <1>0, <1>2, <1>3, Numbers DEF LockOk
<1>10. LoungeCounts'
  <2>1. Sleeping' = Sleeping /\ Waking' = Waking
    BY <1>0, <1>2, <1>3, Numbers DEF Sleeping, Waking
  <2>2. \A v \in Sleeping : v # w
    BY <1>0 DEF Sleeping
  <2> QED
    BY <1>0, <1>3, <2>1, <2>2 DEF LoungeCounts, Sleeping
<1> QED
  BY <1>4, <1>5, <1>8, <1>9, <1>10 DEF Inv, Types

\* wake_one takes the first sleeper, if there is one.
LEMMA TakeOneInv ==
    ASSUME Inv, NEW t \in Threads, TakeOne(t)
    PROVE  Inv'
<1>0. /\ TypeOK /\ LockOk /\ LoungeCounts /\ pc[t] = "take" /\ lock = Nobody
      /\ scheduled \in 0 .. MaxTasks
      /\ t \in Workers => WorkerOk(t)
      /\ t \in Spawners => SpawnerOk(t)
      /\ ret[t] \in {"idle", "run", "local"}
      /\ UNCHANGED <<queue, local, lock, is_waking, ret, buf, left, victims, src, working, token,
                     depth, done, stop, scheduled, finished, scopes, pokes, ticks>>
  BY Typed, Numbers DEF TakeOne, fetchv, limits, ThreadsOk, WorkerOk, SpawnerOk
<1>1. \A v \in Workers : local'[v] <= local[v]
  BY <1>0, Typed, Numbers
<1>2. CASE pc' = [pc EXCEPT ![t] = ret[t]] /\ UNCHANGED <<lounge, taken>>
  <2>1. /\ pc'[t] = ret[t] /\ pc' \in [Threads -> PCs]
        /\ \A u \in Threads \ {t} : pc'[u] = pc[u]
        /\ UNCHANGED <<sleeping_num, waking_count, cached_index, wakers, target, level>>
    BY <1>0, <1>2 DEF TypeOK, PCs, lounge, taken
  <2>2. TypeOK'
    BY <1>0, <2>1 DEF TypeOK
  <2>3. Cardinality(Runnables)' <= scheduled'
    <3>1. \A v \in Workers : Load(v)' = Load(v)
      BY <1>0, <2>1, Numbers DEF Load, Holds
    <3>2. \A d \in Places : Share(d)' = Share(d)
      BY <1>0, <3>1, Numbers DEF Share, Places
    <3> QED
      BY <1>0, <3>2, CountSame
  <2>4. (t \in Spawners => SpawnerOk(t)') /\ (t \in Workers => WorkerOk(t)')
    BY <1>0, <2>1 DEF SpawnerOk, WorkerOk
  <2> QED
    BY <1>0, <1>1, <2>1, <2>2, <2>3, <2>4, QuietStep
<1>3. ASSUME NEW w \in Workers, w >= cached_index, wakers[w] # 0,
             \A v \in Workers : v >= cached_index /\ wakers[v] # 0 => w <= v,
             wakers' = [wakers EXCEPT ![w] = 0], sleeping_num' = sleeping_num - 1,
             waking_count' = waking_count + 1, cached_index' = w + 1,
             target' = [target EXCEPT ![t] = w], level' = [level EXCEPT ![t] = wakers[w]],
             pc' = [pc EXCEPT ![t] = "wake"]
      PROVE  Inv'
  <2>1. /\ pc'[t] = "wake" /\ pc' \in [Threads -> PCs]
        /\ \A u \in Threads \ {t} : pc'[u] = pc[u]
    BY <1>0, <1>3 DEF TypeOK, PCs
  <2>2. /\ wakers' \in [Workers -> 0 .. 3] /\ wakers'[w] = 0
        /\ \A v \in Workers \ {w} : wakers'[v] = wakers[v]
    BY <1>0, <1>3, Numbers DEF TypeOK
  <2>3. /\ target' \in [Threads -> Workers \cup {Nobody}] /\ target'[t] = w
        /\ level' \in [Threads -> 0 .. 3] /\ level'[t] \in 1 .. 3
        /\ \A u \in Threads \ {t} : target'[u] = target[u] /\ level'[u] = level[u]
    <3>1. wakers[w] \in 1 .. 3
      BY <1>3, Typed, Numbers
    <3> QED
      BY <1>0, <1>3, <3>1 DEF TypeOK
  <2>4. w \in Sleeping /\ w \notin Waking /\ ~working[w] /\ pc[w] # "self2" /\ pc'[w] # "self2"
    BY <1>0, <1>3, <2>1, Numbers DEF Sleeping, Waking, LoungeCounts, LockOk
  <2>5. Sleeping' = Sleeping \ {w} /\ Waking' = Waking \cup {w}
    BY <1>0, <2>1, <2>2, <2>4, Numbers DEF Sleeping, Waking
  <2>6. LoungeCounts'
    <3>1. \A v \in Sleeping' : ~working'[v] /\ cached_index' <= v
      <4> SUFFICES ASSUME NEW v \in Sleeping \ {w} PROVE ~working[v] /\ w + 1 <= v
        BY <1>0, <1>3, <2>5
      <4>1. v \in Workers /\ wakers[v] # 0 /\ ~working[v] /\ cached_index <= v
        BY <1>0 DEF Sleeping, LoungeCounts
      <4>2. w <= v
        BY <1>0, <1>3, <4>1, Numbers DEF TypeOK
      <4> QED
        BY <4>1, <4>2, Numbers
    <3>2. Sleeping \in SUBSET Workers /\ Waking \in SUBSET Workers
      BY DEF Sleeping, Waking
    <3>3. sleeping_num' = Cardinality(Sleeping')
      BY <1>0, <1>3, <2>4, <2>5, <3>2, Listed DEF LoungeCounts
    <3>4. waking_count' = Cardinality(Waking')
      BY <1>0, <1>3, <2>4, <2>5, <3>2, Listed DEF LoungeCounts
    <3> QED
      BY <3>1, <3>3, <3>4 DEF LoungeCounts
  <2>7. TypeOK'
    <3>1. sleeping_num' \in 0 .. NumWorkers /\ waking_count' \in 0 .. NumWorkers
      BY <2>6, Listed DEF LoungeCounts, Sleeping, Waking
    <3>2. cached_index' \in 0 .. NumWorkers
      BY <1>3, Numbers DEF Workers
    <3> QED
      BY <1>0, <2>1, <2>2, <2>3, <3>1, <3>2 DEF TypeOK
  <2>8. Cardinality(Runnables)' <= scheduled'
    <3>1. \A v \in Workers : Load(v)' = Load(v)
      BY <1>0, <2>1, Numbers DEF Load, Holds
    <3>2. \A d \in Places : Share(d)' = Share(d)
      BY <1>0, <3>1, Numbers DEF Share, Places
    <3> QED
      BY <1>0, <3>2, CountSame
  <2>9. (t \in Spawners => SpawnerOk(t)') /\ (t \in Workers => WorkerOk(t)')
    BY <1>0, <2>1 DEF SpawnerOk, WorkerOk
  <2>10. ThreadsOk'
    BY <1>0, <1>1, <2>1, <2>3, <2>7, <2>9, OneMoves
  <2>11. LockOk'
    BY <1>0, <2>1, <2>2, Numbers DEF LockOk
  <2> QED
    BY <2>6, <2>7, <2>8, <2>10, <2>11 DEF Inv, Types
<1> QED
  BY <1>2, <1>3 DEF TakeOne, Goto

-----------------------------------------------------------------------------
\* A new pool: nothing is scheduled, all workers are at work.
LEMMA InitInv == Init => Inv
<1> SUFFICES ASSUME Init PROVE Inv
  OBVIOUS
<1>1. \A w \in Workers : /\ pc[w] = "poll" /\ ret[w] = "run" /\ local[w] = 0 /\ buf[w] = 0
                         /\ victims[w] = {} /\ depth[w] = 1 /\ wakers[w] = 0 /\ working[w]
                         /\ lock # w
  BY Numbers DEF Init
<1>2. \A t \in Spawners : pc[t] = "idle" /\ ret[t] = "idle"
  BY Numbers DEF Init
<1>3. TypeOK
  <2>1. /\ queue \in 0 .. MaxTasks /\ sleeping_num \in 0 .. NumWorkers
        /\ waking_count \in 0 .. NumWorkers /\ cached_index \in 0 .. NumWorkers
        /\ is_waking \in BOOLEAN /\ stop \in BOOLEAN /\ lock \in Workers \cup {Nobody}
        /\ scheduled \in 0 .. MaxTasks /\ finished \in 0 .. MaxTasks
        /\ scopes \in 0 .. MaxScopes /\ pokes \in 0 .. MaxPokes /\ ticks \in 0 .. MaxTicks
    <3>1. /\ 0 \in 0 .. MaxTasks /\ 0 \in 0 .. NumWorkers /\ 0 \in 0 .. MaxScopes
          /\ 0 \in 0 .. MaxPokes /\ 0 \in 0 .. MaxTicks
      BY PoolAssumption
    <3> QED
      BY <3>1 DEF Init
  <2>2. /\ local \in [Workers -> 0 .. CAP] /\ buf \in [Workers -> 0 .. CAP]
        /\ left \in [Workers -> 0 .. CAP] /\ wakers \in [Workers -> 0 .. 3]
    BY Numbers DEF Init
  <2>3. /\ pc \in [Threads -> PCs] /\ ret \in [Threads -> {"idle", "run", "local", "cas"}]
        /\ target \in [Threads -> Workers \cup {Nobody}] /\ level \in [Threads -> 0 .. 3]
    BY DEF Init, PCs
  <2>4. /\ victims \in [Workers -> SUBSET Workers] /\ src \in [Workers -> Workers \cup {Nobody}]
        /\ working \in [Workers -> BOOLEAN] /\ token \in [Workers -> SUBSET (1 .. 3)]
        /\ depth \in [Workers -> 1 .. 3] /\ done \in [Workers -> BOOLEAN]
    BY DEF Init
  <2> QED
    BY <2>1, <2>2, <2>3, <2>4 DEF TypeOK
<1>4. Cardinality(Runnables) <= scheduled
  <2>1. \A d \in Places : Share(d) = 0
    BY <1>1, Numbers DEF Share, Load, Holds, Places, Init
  <2>2. Runnables = {}
    BY <2>1 DEF Runnables
  <2> QED
    BY <2>2, FS_EmptySet DEF Init
<1>5. ThreadsOk
  BY <1>1, <1>2, Numbers DEF ThreadsOk, SpawnerOk, WorkerOk
<1>6. LockOk
  BY <1>1 DEF LockOk
<1>7. LoungeCounts
  <2>1. Sleeping = {} /\ Waking = {}
    BY <1>1 DEF Sleeping, Waking
  <2> QED
    BY <2>1, FS_EmptySet DEF LoungeCounts, Init
<1> QED
  BY <1>3, <1>4, <1>5, <1>6, <1>7 DEF Inv, Types

\* What a step may be.
LEMMA StepInv ==
    ASSUME Inv, NEW t \in Threads, Step(t)
    PROVE  Inv'
<1>1. ASSUME WakeOne(t) PROVE Inv'
  BY <1>1, CasInv, TakeOneInv, WakeInv DEF WakeOne
<1>2. ASSUME t \in Workers, Fetch(t) PROVE Inv'
  BY <1>2, FetchLocalInv, StealGlobalInv, GrabMoreInv, GrabPublishInv, StealWorkerInv,
     StealLenInv, StealInnerInv DEF Fetch
<1>3. ASSUME t \in Workers, Lounging(t) PROVE Inv'
  BY <1>3, WakeSelfInv, WakeSelfStoreInv, SleepInv, SleepStoreInv DEF Lounging
<1>4. ASSUME t \in Workers, Leave(t) \/ Unpark(t) PROVE Inv'
  BY <1>4, LeaveInv, UnparkInv
<1> QED
  BY <1>1, <1>2, <1>3, <1>4 DEF Step

\* Every step of the executor keeps the counts of the lounge.
LEMMA NextInv == Inv /\ [Next]_vars => Inv'
<1> SUFFICES ASSUME Inv, [Next]_vars PROVE Inv'
  OBVIOUS
<1>1. ASSUME NEW t \in Threads, Step(t) \/ Schedule(t) PROVE Inv'
  BY <1>1, StepInv, ScheduleInv
<1>2. ASSUME NEW w \in Workers,
             \/ RunEnd(w) \/ LocalTick(w) \/ LocalEnd(w)
             \/ EnterScope(w) \/ ScopeDone(w) \/ Poke(w)
      PROVE  Inv'
  BY <1>2, RunEndInv, LocalTickInv, LocalEndInv, EnterScopeInv, ScopeDoneInv, PokeInv
<1>3. ASSUME Assist \/ DropPool PROVE Inv'
  BY <1>3, AssistInv, DropPoolInv
<1>4. ASSUME UNCHANGED vars PROVE Inv'
  <2>1. UNCHANGED <<queue, local, sleeping_num, waking_count, cached_index, wakers, lock,
          is_waking, pc, ret, target, level, buf, left, victims, src, working, token,
          depth, done, stop, scheduled, finished, scopes, pokes, ticks>>
    BY <1>4 DEF vars
  <2>2. TypeOK' /\ \A d \in Places : Share(d)' = Share(d)
    BY <2>1, Typed DEF TypeOK, Share, Load, Holds
  <2>3. Cardinality(Runnables)' <= scheduled'
    BY <2>1, <2>2, Typed, CountSame
  <2>4. \A v \in Workers : local'[v] <= local[v]
    BY <2>1, Typed, Numbers
  <2> QED
    BY <2>1, <2>2, <2>3, <2>4, StillStep
<1> QED
  BY <1>1, <1>2, <1>3, <1>4 DEF Next

\* Every runnable scheduled is in one place at a time and no more than one, the
\* worker that is inside a two-step critical section of the lounge holds its
\* lock, and the lounge's counters count.
THEOREM PoolInvariant == Spec => []Inv
<1> QED
  BY InitInv, NextInv, PTL DEF Spec

\* State and Lounge: no deque is filled beyond its capacity by push_many or by
\* steal_worker_inner, and neither counter of the lounge wraps below zero.
THEOREM PoolTypes == Spec => []TypeOK
<1>1. Inv => TypeOK
  BY DEF Inv, Types
<1> QED
  BY <1>1, PoolInvariant, PTL

\* Lounge: sleeping_num and waking_count are the workers asleep and the workers
\* on their way, with any interleaving of sleep, wake and take_one, and
\* cached_index skips no sleeper.
THEOREM PoolCounts == Spec => []LoungeCounts
<1>1. Inv => LoungeCounts
  BY DEF Inv
<1> QED
  BY <1>1, PoolInvariant, PTL

-----------------------------------------------------------------------------
(***************************************************************************)
(* The wake-ups.                                                           *)
(***************************************************************************)
\* Who answered for a runnable still does.
LEMMA AnswerKept ==
    ASSUME Wakeups, NEW t \in Threads, is_waking' = is_waking, stop' = stop,
           Sleeping' = {} \/ Sleeping # {}, Filled' \subseteq Filled,
           \A u \in Threads \ {t} : pc'[u] = pc[u] /\ ret'[u] = ret[u],
           \A v \in Workers \ {t} : /\ working'[v] = working[v] /\ wakers'[v] = wakers[v]
                                    /\ victims'[v] = victims[v],
           Calls(t) => Calls(t)',
           \A d \in Filled' : t \in Workers /\ Looks(t, d) => Calls(t)' \/ Looks(t, d)'
    PROVE  Answered'
<1> SUFFICES ASSUME ~is_waking, ~stop, Sleeping # {}, NEW d \in Filled'
             PROVE  \/ \E u \in Threads : Calls(u)'
                    \/ \E w \in Workers : Looks(w, d)'
  BY DEF Answered
<1>1. CASE \E u \in Threads : Calls(u)
  BY <1>1 DEF Calls
<1>2. CASE \E w \in Workers : Looks(w, d)
  <2>1. PICK w \in Workers : Looks(w, d)
    BY <1>2
  <2>2. CASE w = t
    BY <2>1, <2>2
  <2>3. CASE w # t
    <3>1. w \in Threads \ {t} /\ w \in Workers \ {t}
      BY <2>3 DEF Threads
    <3>2. Looks(w, d)'
      BY <2>1, <3>1 DEF Looks
    <3> QED
      BY <3>2
  <2> QED
    BY <2>2, <2>3
<1> QED
  BY <1>1, <1>2 DEF Wakeups, Answered

\* A step of t outside the lounge: what it leaves alone.
LEMMA QuietWakeups ==
    ASSUME Inv, Wakeups, NEW t \in Threads,
           UNCHANGED <<wakers, working, lock, is_waking, stop>>,
           pc[t] \notin {"take", "wake", "self2"}, pc'[t] \notin {"wake", "self2"},
           target' = target, level' = level,
           \A u \in Threads \ {t} : pc'[u] = pc[u] /\ ret'[u] = ret[u],
           \A v \in Workers \ {t} : /\ token'[v] = token[v] /\ depth'[v] = depth[v]
                                    /\ local'[v] \in 0 .. local[v],
           t \in Workers => WorkOk(t)',
           Answered'
    PROVE  Wakeups'
<1>1. \A v \in Workers : ToBeWoken(v)' <=> ToBeWoken(v)
  BY DEF ToBeWoken
<1>2. \A v \in Workers : v \in Threads /\ local[v] \in 0 .. CAP
  BY Numbers, Typed
<1>3. AtWork'
  <2> SUFFICES ASSUME NEW v \in Workers, v # t PROVE WorkOk(v)'
    BY DEF AtWork
  <2>1. local[v] = 0 => local'[v] = 0
    BY Numbers
  <2>2. /\ pc'[v] = pc[v] /\ ret'[v] = ret[v] /\ token'[v] = token[v] /\ depth'[v] = depth[v]
    BY <1>2
  <2>3. WorkOk(v)
    BY DEF Wakeups, AtWork
  <2> QED
    BY <1>1, <2>1, <2>2, <2>3 DEF WorkOk
<1>4. LevelsOk'
  BY DEF Wakeups, LevelsOk
<1>5. (stop \/ FlagOk)'
  <2>1. Sleeping' = Sleeping /\ Waking' = Waking
    BY <1>2 DEF Sleeping, Waking
  <2>2. \A u \in Threads : pc[u] = "take" => pc'[u] = "take"
    OBVIOUS
  <2> QED
    BY <2>1, <2>2 DEF Wakeups, FlagOk
<1> QED
  BY <1>3, <1>4, <1>5 DEF Wakeups

\* What is scheduled is followed by wake_one; a pool whose workers have all left has stopped.
LEMMA ScheduleWakeups ==
    ASSUME Inv, Wakeups, NEW t \in Threads, Schedule(t)
    PROVE  Wakeups'
<1>0. /\ TypeOK /\ pc[t] \in {"idle", "run", "local"}
      /\ UNCHANGED <<local, wakers, lock, is_waking, target, level, victims, working,
                     token, depth, stop>>
      /\ t \in Workers => WorkOk(t) /\ WorkerOk(t)
      /\ \A v \in Workers : local[v] \in 0 .. local[v]
  BY Typed, Numbers DEF Schedule, lounge, taken, fetchv, limits, Wakeups, AtWork
<1>1. CASE /\ queue' = queue + 1 /\ ret' = [ret EXCEPT ![t] = pc[t]]
           /\ pc' = [pc EXCEPT ![t] = "cas"]
  <2>1. /\ pc'[t] = "cas" /\ ret'[t] = pc[t]
        /\ \A u \in Threads \ {t} : pc'[u] = pc[u] /\ ret'[u] = ret[u]
    BY <1>0, <1>1 DEF TypeOK
  <2>2. Answered'
    BY <2>1 DEF Answered, Calls
  <2>3. t \in Workers => WorkOk(t)'
    BY <1>0, <2>1 DEF WorkOk, WorkerOk
  <2> QED
    BY <1>0, <2>1, <2>2, <2>3, QuietWakeups
<1>2. CASE UNCHANGED <<queue, ret, pc>>
  <2>1. Sleeping' = Sleeping /\ Filled' = Filled
    BY <1>0, <1>2 DEF Sleeping, Filled
  <2>2. Answered'
    BY <1>0, <1>2, <2>1, AnswerKept DEF Calls, Looks
  <2>3. t \in Workers => WorkOk(t)'
    BY <1>0, <1>2 DEF WorkOk, ToBeWoken
  <2> QED
    BY <1>0, <1>2, <2>2, <2>3, QuietWakeups
<1> QED
  BY <1>1, <1>2 DEF Schedule, Goto

\* Whoever finds is_waking set leaves the wake-up to others; who sets it goes on.
LEMMA CasWakeups ==
    ASSUME Inv, Wakeups, NEW t \in Threads, WakeOneCas(t)
    PROVE  Wakeups'
<1>0. /\ TypeOK /\ pc[t] = "cas"
      /\ UNCHANGED <<queue, local, wakers, lock, ret, target, level, victims, working,
                     token, depth, stop>>
      /\ t \in Workers => WorkOk(t) /\ WorkerOk(t)
      /\ t \in Spawners => SpawnerOk(t)
      /\ is_waking'
  BY Typed, Numbers
     DEF WakeOneCas, lounge, taken, fetchv, limits, Wakeups, AtWork, ThreadsOk
<1>1. PICK l \in {"take", ret[t]} : pc' = [pc EXCEPT ![t] = l] /\ (l = "take" \/ is_waking)
  BY DEF WakeOneCas, Goto
<1>2. /\ l \in {"take", "idle", "run", "local"} /\ (l # "take" => l = ret[t])
      /\ (t \in Workers => l # "idle")
  BY <1>0, <1>1, Numbers DEF SpawnerOk, WorkerOk, TypeOK
<1>3. pc'[t] = l /\ \A u \in Threads \ {t} : pc'[u] = pc[u]
  BY <1>0, <1>1 DEF TypeOK
<1>4. \A v \in Workers : ToBeWoken(v)' <=> ToBeWoken(v)
  BY <1>0, <1>2, <1>3 DEF ToBeWoken
<1>5. AtWork'
  <2> SUFFICES ASSUME NEW v \in Workers PROVE WorkOk(v)'
    BY DEF AtWork
  <2>1. CASE v = t
    BY <1>0, <1>2, <1>3, <2>1 DEF WorkOk
  <2>2. CASE v # t
    <3>1. WorkOk(v) /\ pc'[v] = pc[v]
      BY <1>3, <2>2, Numbers DEF Wakeups, AtWork
    <3> QED
      BY <1>0, <1>4, <3>1 DEF WorkOk
  <2> QED
    BY <2>1, <2>2
<1>6. LevelsOk'
  BY <1>0, <1>2, <1>3 DEF Wakeups, LevelsOk
<1>7. (stop \/ FlagOk)'
  <2>1. CASE l = "take"
    BY <1>3, <2>1 DEF FlagOk
  <2>2. CASE is_waking
    <3>1. Sleeping' = Sleeping /\ Waking' = Waking
      BY <1>0, <1>2, <1>3, Numbers DEF Sleeping, Waking
    <3>2. \A u \in Threads : pc[u] = "take" => pc'[u] = "take"
      BY <1>0, <1>3
    <3> QED
      BY <1>0, <2>2, <3>1, <3>2 DEF Wakeups, FlagOk
  <2> QED
    BY <1>1, <2>1, <2>2
<1>8. Answered'
  BY <1>0 DEF Answered
<1> QED
  BY <1>5, <1>6, <1>7, <1>8 DEF Wakeups

\* The worker that wake_one takes will look for runnables.
LEMMA TakeOneWakeups ==
    ASSUME Inv, Wakeups, NEW t \in Threads, TakeOne(t)
    PROVE  Wakeups'
<1>0. /\ TypeOK /\ LockOk /\ LoungeCounts /\ pc[t] = "take" /\ lock = Nobody
      /\ ret[t] \in {"idle", "run", "local"}
      /\ UNCHANGED <<queue, local, lock, is_waking, ret, victims, working, token, depth, stop>>
      /\ t \in Workers => WorkOk(t) /\ WorkerOk(t)
      /\ t \in Spawners => SpawnerOk(t)
      /\ \A v \in Workers : wakers[v] \in 0 .. 3 /\ v \in Threads
  BY Typed, Numbers
     DEF TakeOne, fetchv, limits, ThreadsOk, WorkerOk, SpawnerOk, Wakeups, AtWork
<1>1. CASE /\ {w \in Workers : w >= cached_index /\ wakers[w] # 0} = {}
           /\ pc' = [pc EXCEPT ![t] = ret[t]] /\ UNCHANGED <<lounge, taken>>
  <2>1. /\ pc'[t] = ret[t] /\ \A u \in Threads \ {t} : pc'[u] = pc[u]
        /\ UNCHANGED <<sleeping_num, waking_count, cached_index, wakers, target, level>>
    BY <1>0, <1>1 DEF TypeOK, lounge, taken
  <2>2. Sleeping' = {}
    <3>1. \A w \in Workers : ~(w >= cached_index /\ wakers[w] # 0)
      BY <1>1
    <3>2. \A w \in Sleeping : w >= cached_index
      BY <1>0, Numbers DEF LoungeCounts, Sleeping, TypeOK
    <3> QED
      BY <2>1, <3>1, <3>2 DEF Sleeping
  <2>3. \A v \in Workers : ToBeWoken(v)' <=> ToBeWoken(v)
    BY <1>0, <2>1 DEF ToBeWoken
  <2>4. AtWork'
    <3> SUFFICES ASSUME NEW v \in Workers PROVE WorkOk(v)'
      BY DEF AtWork
    <3>1. CASE v = t
      BY <1>0, <2>1, <3>1, Numbers DEF WorkOk, WorkerOk
    <3>2. CASE v # t
      <4>1. WorkOk(v) /\ pc'[v] = pc[v]
        BY <1>0, <2>1, <3>2 DEF Wakeups, AtWork
      <4> QED
        BY <1>0, <2>1, <2>3, <4>1 DEF WorkOk
    <3> QED
      BY <3>1, <3>2
  <2>5. LevelsOk'
    BY <1>0, <2>1 DEF Wakeups, LevelsOk
  <2> QED
    BY <2>2, <2>4, <2>5 DEF Wakeups, FlagOk, Answered
<1>2. ASSUME NEW w \in Workers, wakers[w] # 0, wakers' = [wakers EXCEPT ![w] = 0],
             target' = [target EXCEPT ![t] = w], level' = [level EXCEPT ![t] = wakers[w]],
             pc' = [pc EXCEPT ![t] = "wake"]
      PROVE  Wakeups'
  <2>1. /\ pc'[t] = "wake" /\ \A u \in Threads \ {t} : pc'[u] = pc[u]
        /\ wakers'[w] = 0 /\ \A v \in Workers \ {w} : wakers'[v] = wakers[v]
        /\ target'[t] = w /\ level'[t] = wakers[w]
        /\ \A u \in Threads \ {t} : target'[u] = target[u] /\ level'[u] = level[u]
    BY <1>0, <1>2 DEF TypeOK
  <2>2. /\ ~working[w] /\ pc[w] \notin {"run", "idle", "self2"} /\ WorkOk(w) /\ w \in Threads
        /\ pc'[w] \notin {"run", "idle", "self2"} /\ pc'[w] \in PCs
        /\ pc'[w] \in {"cas", "take", "wake"} => ret[w] # "run"
    <3>1. ~working[w] /\ WorkOk(w) /\ WorkerOk(w)
      BY <1>0, <1>2, Typed DEF LoungeCounts, Sleeping, Wakeups, AtWork
    <3>2. pc[w] \notin {"run", "idle", "self2"} /\ pc[w] \in PCs
      BY <1>0, <1>2, <3>1, Numbers DEF WorkOk, WorkerOk, LockOk, TypeOK
    <3>3. CASE w = t
      BY <1>0, <2>1, <3>1, <3>2, <3>3 DEF WorkOk, PCs
    <3>4. CASE w # t
      <4>1. pc'[w] = pc[w]
        BY <1>0, <2>1, <3>4
      <4> QED
        BY <1>0, <3>1, <3>2, <4>1 DEF WorkOk
    <3> QED
      BY <1>0, <3>1, <3>2, <3>3, <3>4
  <2>3. ToBeWoken(w)' /\ \A v \in Workers : ToBeWoken(v) => ToBeWoken(v)'
    BY <1>0, <2>1 DEF ToBeWoken
  <2>4. AtWork'
    <3> SUFFICES ASSUME NEW v \in Workers PROVE WorkOk(v)'
      BY DEF AtWork
    <3>1. WorkOk(v) /\ v \in Threads
      BY <1>0 DEF Wakeups, AtWork
    <3>2. wakers'[v] \in 0 .. 1 /\ (wakers[v] # 0 => wakers'[v] # 0 \/ v = w)
      BY <2>1, <3>1 DEF WorkOk
    <3>3. pc'[v] = pc[v] \/ (v = t /\ pc[v] = "take" /\ pc'[v] = "wake")
      BY <1>0, <2>1, <3>1
    <3> QED
      BY <1>0, <2>3, <3>1, <3>2, <3>3 DEF WorkOk
  <2>5. LevelsOk'
    <3>1. wakers[w] = 1
      BY <1>2, <2>2 DEF WorkOk
    <3> QED
      BY <2>1, <3>1 DEF Wakeups, LevelsOk
  <2>6. (stop \/ FlagOk)'
    <3>1. w \in Waking'
      BY <1>0, <2>1, <2>2 DEF Waking
    <3> QED
      BY <3>1 DEF FlagOk
  <2>7. Answered'
    <3>1. ASSUME ~stop PROVE Calls(w)' \/ \A d \in Filled' : Looks(w, d)'
      <4>1. pc'[w] # "exit"
        BY <1>0, <2>4, <3>1 DEF AtWork, WorkOk
      <4>2. pc'[w] \in {"self"} => ret'[w] = "cas"
        BY <1>0, <2>2, <2>4 DEF AtWork, WorkOk
      <4> QED
        BY <1>0, <2>1, <2>2, <4>1, <4>2 DEF Calls, Looks, PCs
    <3> QED
      BY <1>0, <2>2, <3>1 DEF Answered
  <2> QED
    BY <2>4, <2>5, <2>6, <2>7 DEF Wakeups
<1> QED
  BY <1>1, <1>2 DEF TakeOne, Goto

\* The unpark of the worker that was taken.
LEMMA WakeWakeups ==
    ASSUME Inv, Wakeups, NEW t \in Threads, Wake(t)
    PROVE  Wakeups'
<1>0. /\ TypeOK /\ pc[t] = "wake" /\ target[t] \in Workers /\ level[t] = 1
      /\ token' = [token EXCEPT ![target[t]] = @ \cup {level[t]}]
      /\ target' = [target EXCEPT ![t] = Nobody] /\ level' = [level EXCEPT ![t] = 0]
      /\ pc' = [pc EXCEPT ![t] = ret[t]]
      /\ UNCHANGED <<queue, local, wakers, lock, is_waking, ret, victims, working, depth, stop>>
      /\ t \in Workers => WorkOk(t) /\ WorkerOk(t)
      /\ t \in Spawners => SpawnerOk(t)
  BY Typed DEF Wake, Goto, lounge, fetchv, limits, ThreadsOk, Wakeups, AtWork, LevelsOk
<1>1. PICK w \in Workers : w = target[t]
  BY <1>0
<1>2. ret[t] \in {"idle", "run", "local"} /\ (t \in Workers => ret[t] \in {"run", "local"})
  BY <1>0, Numbers DEF SpawnerOk, WorkerOk
<1>3. /\ pc'[t] = ret[t]
      /\ \A u \in Threads \ {t} : pc'[u] = pc[u] /\ target'[u] = target[u] /\ level'[u] = level[u]
      /\ 1 \in token'[w] /\ \A v \in Workers : token[v] \subseteq token'[v]
  BY <1>0, <1>1 DEF TypeOK
<1>4. \A v \in Workers \ {w} : ToBeWoken(v) => ToBeWoken(v)'
  BY <1>0, <1>1, <1>3 DEF ToBeWoken
<1>5. AtWork'
  <2> SUFFICES ASSUME NEW v \in Workers PROVE WorkOk(v)'
    BY DEF AtWork
  <2>1. WorkOk(v) /\ v \in Threads
    BY Numbers DEF Wakeups, AtWork
  <2>2. CASE v = t
    BY <1>0, <1>2, <1>3, <2>1, <2>2 DEF WorkOk
  <2>3. CASE v # t
    <3>1. pc'[v] = pc[v] /\ (1 \in token[v] => 1 \in token'[v])
          /\ (ToBeWoken(v) => ToBeWoken(v)' \/ 1 \in token'[v])
      BY <1>3, <1>4, <2>1, <2>3
    <3> QED
      BY <1>0, <2>1, <3>1 DEF WorkOk
  <2> QED
    BY <2>2, <2>3
<1>6. LevelsOk'
  BY <1>0, <1>2, <1>3 DEF Wakeups, LevelsOk
<1>7. (stop \/ FlagOk)'
  <2>1. Sleeping' = Sleeping /\ Waking' = Waking
    BY <1>0, <1>2, <1>3, Numbers DEF Sleeping, Waking
  <2>2. \A u \in Threads : pc[u] = "take" => pc'[u] = "take"
    BY <1>0, <1>3
  <2> QED
    BY <1>0, <2>1, <2>2 DEF Wakeups, FlagOk
<1>8. Answered'
  <2>1. Sleeping' = Sleeping /\ Filled' = Filled
    BY <1>0 DEF Sleeping, Filled
  <2>2. \A d \in Filled' : t \in Workers /\ Looks(t, d) => Looks(t, d)'
    <3> SUFFICES ASSUME t \in Workers, ~working[t] PROVE \A d \in Filled' : Looks(t, d)'
      BY DEF Looks
    <3>1. pc'[t] = "local"
      BY <1>0, <1>2, <1>3 DEF WorkOk
    <3> QED
      BY <1>0, <3>1 DEF Looks
  <2>3. ~Calls(t)
    BY <1>0 DEF Calls
  <2> QED
    BY <1>0, <1>3, <2>1, <2>2, <2>3, AnswerKept
<1> QED
  BY <1>5, <1>6, <1>7, <1>8 DEF Wakeups

\* Only a worker that is at work has anything in its deque.
LEMMA FetchLocalWakeups ==
    ASSUME Inv, Wakeups, NEW w \in Workers, FetchLocal(w)
    PROVE  Wakeups'
<1>0. /\ TypeOK /\ pc[w] \in {"fetch", "poll"} /\ local[w] \in 1 .. CAP /\ WorkOk(w)
      /\ w \in Threads
      /\ local' = [local EXCEPT ![w] = local[w] - 1] /\ ret' = [ret EXCEPT ![w] = "run"]
      /\ pc' = [pc EXCEPT ![w] = "self"]
      /\ UNCHANGED <<queue, wakers, lock, is_waking, target, level, victims, working, token,
                     depth, stop>>
      /\ stop => pc[w] # "poll"
  BY Typed, Numbers
     DEF FetchLocal, Looping, StopReady, Goto, lounge, taken, fetchv, limits, Wakeups, AtWork,
         WorkOk
<1>1. working[w]
  BY <1>0 DEF WorkOk
<1>2. /\ pc'[w] = "self" /\ ret'[w] = "run" /\ local'[w] = local[w] - 1
      /\ \A u \in Threads \ {w} : pc'[u] = pc[u] /\ ret'[u] = ret[u]
      /\ \A v \in Workers \ {w} : local'[v] = local[v]
  BY <1>0, Numbers DEF TypeOK
<1>3. \A v \in Workers \ {w} : local'[v] \in 0 .. local[v]
  BY <1>2, Typed, Numbers
<1>4. WorkOk(w)'
  BY <1>0, <1>1, <1>2 DEF WorkOk
<1>5. Answered'
  <2>1. Sleeping' = Sleeping
    BY <1>0 DEF Sleeping
  <2>2. Filled' \subseteq Filled
    <3>1. \A v \in Workers : local'[v] > 0 => local[v] > 0
      BY <1>0, <1>2
    <3> QED
      BY <1>0, <3>1 DEF Filled
  <2>3. ~Calls(w) /\ \A d \in Filled' : ~Looks(w, d)
    BY <1>0, <1>1 DEF Calls, Looks
  <2> QED
    BY <1>0, <1>2, <2>1, <2>2, <2>3, AnswerKept
<1> QED
  BY <1>0, <1>2, <1>3, <1>4, <1>5, QuietWakeups

\* A worker that finds the global queue empty will look at all the others.
LEMMA StealGlobalWakeups ==
    ASSUME Inv, Wakeups, NEW w \in Workers, StealGlobal(w)
    PROVE  Wakeups'
<1>0. /\ TypeOK /\ pc[w] \in {"fetch", "poll"} /\ local[w] = 0 /\ WorkOk(w)
      /\ w \in Threads /\ w # GlobalQueue
      /\ UNCHANGED <<local, ret, wakers, lock, is_waking, target, level, working, token,
                     depth, stop>>
      /\ stop => pc[w] # "poll"
      /\ \A v \in Workers \ {w} : local'[v] \in 0 .. local[v]
  BY Typed, Numbers
     DEF StealGlobal, Looping, StopReady, lounge, taken, limits, Wakeups, AtWork, WorkOk
<1>1. CASE /\ pc' = [pc EXCEPT ![w] = "grab"]
  <2>1. /\ pc'[w] = "grab" /\ \A u \in Threads \ {w} : pc'[u] = pc[u]
    BY <1>0, <1>1 DEF TypeOK
  <2>2. WorkOk(w)'
    BY <1>0, <2>1 DEF WorkOk
  <2>3. Answered'
    BY <1>0, <2>1 DEF Answered, Calls
  <2> QED
    BY <1>0, <2>1, <2>2, <2>3, QuietWakeups
<1>2. CASE /\ queue = 0 /\ victims' = [victims EXCEPT ![w] = Workers \ {w}]
           /\ pc' = [pc EXCEPT ![w] = IF NumWorkers = 1 THEN "sleep" ELSE "steal"]
           /\ UNCHANGED <<queue, left>>
  <2>1. /\ pc'[w] = (IF NumWorkers = 1 THEN "sleep" ELSE "steal")
        /\ victims'[w] = Workers \ {w}
        /\ \A u \in Threads \ {w} : pc'[u] = pc[u]
        /\ \A v \in Workers \ {w} : victims'[v] = victims[v]
    BY <1>0, <1>2 DEF TypeOK
  <2>2. WorkOk(w)'
    BY <1>0, <2>1 DEF WorkOk
  <2>3. Answered'
    <3>1. Sleeping' = Sleeping /\ Filled' = Filled
      BY <1>0, <1>2 DEF Sleeping, Filled
    <3>2. \A d \in Filled : d \in Workers \ {w} /\ NumWorkers # 1
      BY <1>0, <1>2, Numbers DEF Filled, Workers
    <3>3. ~Calls(w)
      BY <1>0 DEF Calls
    <3>4. \A d \in Filled' : Looks(w, d) => Looks(w, d)'
      BY <1>0, <2>1, <3>1, <3>2 DEF Looks
    <3> QED
      BY <1>0, <2>1, <3>1, <3>3, <3>4, AnswerKept
  <2> QED
    BY <1>0, <2>1, <2>2, <2>3, QuietWakeups
<1> QED
  BY <1>1, <1>2 DEF StealGlobal, Goto

\* A worker that is taking runnables will call wake_one.
LEMMA GrabMoreWakeups ==
    ASSUME Inv, Wakeups, NEW w \in Workers, GrabMore(w)
    PROVE  Wakeups'
<1>0. /\ TypeOK /\ pc[w] = "grab" /\ WorkOk(w) /\ w \in Threads
      /\ UNCHANGED <<local, pc, ret, wakers, lock, is_waking, target, level, working, token,
                     depth, stop>>
      /\ \A v \in Workers \ {w} : local'[v] \in 0 .. local[v]
  BY Typed, Numbers DEF GrabMore, lounge, taken, limits, Wakeups, AtWork
<1>1. WorkOk(w)'
  BY <1>0 DEF WorkOk
<1>2. Answered'
  BY <1>0 DEF Answered, Calls
<1> QED
  BY <1>0, <1>1, <1>2, QuietWakeups

\* A worker puts the tasks it grabbed into its deque, and is about to wake another.
LEMMA GrabPublishWakeups ==
    ASSUME Inv, Wakeups, NEW w \in Workers, GrabPublish(w)
    PROVE  Wakeups'
<1>0. /\ TypeOK /\ pc[w] = "grab" /\ WorkOk(w) /\ w \in Threads
      /\ local' = [local EXCEPT ![w] = local[w] + buf[w]]
      /\ ret' = [ret EXCEPT ![w] = "cas"] /\ pc' = [pc EXCEPT ![w] = "self"]
      /\ UNCHANGED <<wakers, lock, is_waking, target, level, working, token, depth, stop>>
  BY Typed, Numbers DEF GrabPublish, Goto, lounge, taken, limits, Wakeups, AtWork
<1>1. /\ pc'[w] = "self" /\ ret'[w] = "cas"
      /\ \A u \in Threads \ {w} : pc'[u] = pc[u] /\ ret'[u] = ret[u]
      /\ \A v \in Workers \ {w} : local'[v] = local[v]
  BY <1>0, Numbers DEF TypeOK
<1>2. \A v \in Workers \ {w} : local'[v] \in 0 .. local[v]
  BY <1>1, Typed, Numbers
<1>3. WorkOk(w)'
  BY <1>0, <1>1 DEF WorkOk
<1>4. Answered'
  BY <1>0, <1>1 DEF Answered, Calls
<1> QED
  BY <1>0, <1>1, <1>2, <1>3, <1>4, QuietWakeups

\* A worker strikes off only those it found empty.
LEMMA StealWorkerWakeups ==
    ASSUME Inv, Wakeups, NEW w \in Workers, StealWorker(w)
    PROVE  Wakeups'
<1>0. /\ TypeOK /\ pc[w] = "steal" /\ local[w] = 0 /\ w \notin victims[w] /\ WorkOk(w)
      /\ victims[w] \subseteq Workers /\ w \in Threads
      /\ UNCHANGED <<queue, ret, wakers, lock, is_waking, target, level, working, token,
                     depth, stop>>
  BY Typed, Numbers
     DEF StealWorker, lounge, taken, limits, WorkerOk, TypeOK, Wakeups, AtWork
<1>1. PICK v \in victims[w] :
          /\ victims' = [victims EXCEPT ![w] = victims[w] \ {v}]
          /\ \/ /\ local[v] = 0
                /\ pc' = [pc EXCEPT ![w] = IF victims[w] = {v} THEN "sleep" ELSE "steal"]
                /\ UNCHANGED <<local, src>>
             \/ /\ local[v] > 0 /\ local' = [local EXCEPT ![v] = local[v] - 1]
                /\ src' = [src EXCEPT ![w] = v] /\ pc' = [pc EXCEPT ![w] = "len"]
  BY DEF StealWorker, Goto
<1>2. /\ v \in Workers /\ v # w /\ victims'[w] = victims[w] \ {v}
      /\ \A u \in Workers \ {w} : victims'[u] = victims[u]
  BY <1>0, <1>1 DEF TypeOK
<1>3. CASE /\ local[v] = 0
           /\ pc' = [pc EXCEPT ![w] = IF victims[w] = {v} THEN "sleep" ELSE "steal"]
           /\ UNCHANGED <<local, src>>
  <2>1. /\ pc'[w] = (IF victims[w] = {v} THEN "sleep" ELSE "steal")
        /\ \A u \in Threads \ {w} : pc'[u] = pc[u]
    BY <1>0, <1>3 DEF TypeOK
  <2>2. WorkOk(w)'
    BY <1>0, <1>3, <2>1 DEF WorkOk
  <2>3. Answered'
    <3>1. Sleeping' = Sleeping /\ Filled' = Filled
      BY <1>0, <1>3 DEF Sleeping, Filled
    <3>2. v \notin Filled
      BY <1>2, <1>3, Numbers DEF Filled
    <3>3. ~Calls(w)
      BY <1>0 DEF Calls
    <3>4. \A d \in Filled' : Looks(w, d) => Looks(w, d)'
      BY <1>0, <1>2, <2>1, <3>1, <3>2 DEF Looks
    <3> QED
      BY <1>0, <1>2, <2>1, <3>1, <3>3, <3>4, AnswerKept
  <2>4. \A u \in Workers \ {w} : local'[u] \in 0 .. local[u]
    BY <1>3, Typed, Numbers
  <2> QED
    BY <1>0, <2>1, <2>2, <2>3, <2>4, QuietWakeups
<1>4. CASE /\ local[v] > 0 /\ local' = [local EXCEPT ![v] = local[v] - 1]
           /\ src' = [src EXCEPT ![w] = v] /\ pc' = [pc EXCEPT ![w] = "len"]
  <2>1. /\ pc'[w] = "len" /\ \A u \in Threads \ {w} : pc'[u] = pc[u]
    BY <1>0, <1>4 DEF TypeOK
  <2>2. /\ local'[v] = local[v] - 1 /\ \A u \in Workers \ {v} : local'[u] = local[u]
    BY <1>0, <1>2, <1>4, Numbers DEF TypeOK
  <2>3. \A u \in Workers \ {w} : local'[u] \in 0 .. local[u]
    BY <1>2, <1>4, <2>2, Typed, Numbers
  <2>4. WorkOk(w)'
    BY <1>0, <1>2, <2>1, <2>2 DEF WorkOk
  <2>5. Answered'
    BY <1>0, <2>1 DEF Answered, Calls
  <2> QED
    BY <1>0, <2>1, <2>3, <2>4, <2>5, QuietWakeups
<1> QED
  BY <1>1, <1>3, <1>4

\* A worker reads the length of the queue it steals from.
LEMMA StealLenWakeups ==
    ASSUME Inv, Wakeups, NEW w \in Workers, StealLen(w)
    PROVE  Wakeups'
<1>0. /\ TypeOK /\ pc[w] = "len" /\ WorkOk(w) /\ w \in Threads
      /\ pc' = [pc EXCEPT ![w] = "inner"]
      /\ UNCHANGED <<local, ret, wakers, lock, is_waking, target, level, working, token,
                     depth, stop>>
      /\ \A v \in Workers \ {w} : local'[v] \in 0 .. local[v]
  BY Typed, Numbers DEF StealLen, Goto, lounge, taken, limits, Wakeups, AtWork
<1>1. pc'[w] = "inner" /\ \A u \in Threads \ {w} : pc'[u] = pc[u]
  BY <1>0 DEF TypeOK
<1>2. WorkOk(w)'
  BY <1>0, <1>1 DEF WorkOk
<1>3. Answered'
  BY <1>0, <1>1 DEF Answered, Calls
<1> QED
  BY <1>0, <1>1, <1>2, <1>3, QuietWakeups

\* A worker that is done with a victim will call wake_one.
LEMMA StealInnerWakeups ==
    ASSUME Inv, Wakeups, NEW w \in Workers, StealInner(w)
    PROVE  Wakeups'
<1>0. /\ TypeOK /\ pc[w] = "inner" /\ src[w] \in Workers \ {w} /\ WorkOk(w) /\ w \in Threads
      /\ UNCHANGED <<wakers, lock, is_waking, target, level, working, token, depth, stop>>
      /\ \A v \in Workers : local[v] \in 0 .. CAP
  BY Typed, Numbers DEF StealInner, lounge, taken, limits, WorkerOk, Wakeups, AtWork
<1>1. CASE /\ left[w] > 0 /\ local[src[w]] > 0
           /\ local' = [local EXCEPT ![src[w]] = @ - 1, ![w] = @ + 1]
           /\ UNCHANGED <<pc, ret>>
  <2>1. PICK v \in Workers \ {w} : v = src[w]
    BY <1>0
  <2>2. /\ local'[v] = local[v] - 1 /\ \A u \in Workers \ {v, w} : local'[u] = local[u]
    BY <1>0, <1>1, <2>1, Numbers DEF TypeOK
  <2>3. \A u \in Workers \ {w} : local'[u] \in 0 .. local[u]
    <3>1. local[v] > 0
      BY <1>1, <2>1
    <3>2. \A u \in Workers : local[u] \in Nat
      BY <1>0, Numbers
    <3> QED
      BY <2>2, <3>1, <3>2
  <2>4. WorkOk(w)'
    BY <1>0, <1>1 DEF WorkOk
  <2>5. Answered'
    BY <1>0, <1>1 DEF Answered, Calls
  <2> QED
    BY <1>0, <1>1, <2>3, <2>4, <2>5, QuietWakeups
<1>2. CASE /\ ret' = [ret EXCEPT ![w] = "cas"] /\ pc' = [pc EXCEPT ![w] = "self"]
           /\ UNCHANGED local
  <2>1. /\ pc'[w] = "self" /\ ret'[w] = "cas"
        /\ \A u \in Threads \ {w} : pc'[u] = pc[u] /\ ret'[u] = ret[u]
    BY <1>0, <1>2 DEF TypeOK
  <2>2. \A v \in Workers \ {w} : local'[v] \in 0 .. local[v]
    BY <1>0, <1>2, Numbers
  <2>3. WorkOk(w)'
    BY <1>0, <1>2, <2>1 DEF WorkOk
  <2>4. Answered'
    BY <1>0, <2>1 DEF Answered, Calls
  <2> QED
    BY <1>0, <2>1, <2>2, <2>3, <2>4, QuietWakeups
<1> QED
  BY <1>1, <1>2 DEF StealInner, Goto

\* A worker goes on within its poll, or is unparked.
LEMMA MoveWakeups ==
    ASSUME Inv, Wakeups, NEW w \in Workers, NEW l \in {"fetch", "poll", "local"},
           pc[w] \in {"poll", "local", "park", "run"}, pc' = [pc EXCEPT ![w] = l],
           pc[w] = "poll" => ~stop,
           \A v \in Workers \ {w} : token'[v] = token[v],
           1 \in token[w] => 1 \in token'[w] \/ l = "poll",
           pc[w] = "run" => l # "local",
           UNCHANGED <<queue, local, wakers, lock, is_waking, ret, target, level, victims,
                       working, depth, stop>>
    PROVE  Wakeups'
<1>0. /\ TypeOK /\ WorkOk(w) /\ w \in Threads
      /\ \A v \in Workers \ {w} : local'[v] \in 0 .. local[v]
  <2>1. TypeOK /\ \A v \in Workers : local[v] \in 0 .. CAP
    BY Typed
  <2>2. \A v \in Workers \ {w} : local'[v] \in 0 .. local[v]
    BY <2>1, Numbers
  <2> QED
    BY <2>1, <2>2, Numbers DEF Wakeups, AtWork
<1>1. pc'[w] = l /\ \A u \in Threads \ {w} : pc'[u] = pc[u]
  BY <1>0 DEF TypeOK
<1>2. WorkOk(w)'
  BY <1>0, <1>1 DEF WorkOk
<1>3. Answered'
  <2>1. Sleeping' = Sleeping /\ Filled' = Filled
    BY DEF Sleeping, Filled
  <2>2. ~Calls(w) /\ \A d \in Filled' : Looks(w, d) => Looks(w, d)'
    BY <1>1 DEF Calls, Looks
  <2> QED
    BY <1>0, <1>1, <2>1, <2>2, AnswerKept
<1> QED
  BY <1>0, <1>1, <1>2, <1>3, QuietWakeups

\* A worker ticks its local executor, local_tick.
LEMMA LocalTickWakeups ==
    ASSUME Inv, Wakeups, NEW w \in Workers, LocalTick(w)
    PROVE  Wakeups'
<1>1. depth[w] = 1
  BY DEF Wakeups, AtWork, WorkOk
<1> QED
  BY <1>1, MoveWakeups DEF LocalTick, StopReady, Goto, lounge, taken, fetchv

\* A worker leaves its local tasks for the fetch, or for the poll.
LEMMA LocalEndWakeups ==
    ASSUME Inv, Wakeups, NEW w \in Workers, LocalEnd(w)
    PROVE  Wakeups'
<1>1. PICK l \in {"fetch", "poll"} : pc' = [pc EXCEPT ![w] = l]
  BY DEF LocalEnd, Goto
<1> QED
  BY <1>1, MoveWakeups DEF LocalEnd, lounge, taken, fetchv

\* A parked worker takes its token and polls again.
LEMMA UnparkWakeups ==
    ASSUME Inv, Wakeups, NEW w \in Workers, Unpark(w)
    PROVE  Wakeups'
<1>1. \A v \in Workers \ {w} : token'[v] = token[v]
  BY Typed DEF Unpark, TypeOK
<1> QED
  BY <1>1, MoveWakeups DEF Unpark, Goto, lounge, taken, fetchv

\* A worker has run its tasks, and fetches again.
LEMMA RunEndWakeups ==
    ASSUME Inv, Wakeups, NEW w \in Workers, RunEnd(w)
    PROVE  Wakeups'
<1>1. PICK l \in {"fetch", "poll"} : pc' = [pc EXCEPT ![w] = l]
  BY DEF RunEnd, Goto
<1> QED
  BY <1>1, MoveWakeups DEF RunEnd, lounge, taken, fetchv

\* A worker leaves its loop when the pool stops, and not before.
LEMMA LeaveWakeups ==
    ASSUME Inv, Wakeups, NEW w \in Workers, Leave(w)
    PROVE  Wakeups'
<1>0. /\ TypeOK /\ pc[w] = "poll" /\ WorkOk(w) /\ w \in Threads /\ stop
      /\ depth[w] = 1 /\ pc' = [pc EXCEPT ![w] = "exit"] /\ depth' = [depth EXCEPT ![w] = 1]
      /\ UNCHANGED <<local, wakers, lock, is_waking, ret, target, level, working,
                     token, stop>>
      /\ \A v \in Workers \ {w} : local'[v] \in 0 .. local[v]
  <2>1. TypeOK /\ WorkOk(w) /\ w \in Threads /\ depth[w] = 1
        /\ \A v \in Workers : local[v] \in 0 .. CAP
    BY Typed, Numbers DEF Wakeups, AtWork, WorkOk
  <2>2. pc' = [pc EXCEPT ![w] = "exit"]
    BY <2>1 DEF Leave, Goto
  <2>3. stop /\ UNCHANGED <<local, wakers, lock, is_waking, ret, target, level, working,
                            token, stop>>
    BY <2>1 DEF Leave, StopReady, lounge, taken, fetchv, limits
  <2>4. \A v \in Workers \ {w} : local'[v] \in 0 .. local[v]
    BY <2>1, <2>3, Numbers
  <2> QED
    BY <2>1, <2>2, <2>3, <2>4 DEF Leave
<1>1. /\ pc'[w] = "exit" /\ \A u \in Threads \ {w} : pc'[u] = pc[u]
      /\ depth'[w] = 1 /\ \A v \in Workers \ {w} : depth'[v] = depth[v]
  BY <1>0 DEF TypeOK
<1>2. WorkOk(w)'
  BY <1>0, <1>1 DEF WorkOk
<1>3. Answered'
  BY <1>0 DEF Answered
<1> QED
  BY <1>0, <1>1, <1>2, <1>3, QuietWakeups

\* No thread moves: unparks, and runnables that a scope's caller takes.
LEMMA StillWakeups ==
    ASSUME Inv, Wakeups, Filled' \subseteq Filled, stop' = stop,
           \A v \in Workers : token[v] \subseteq token'[v],
           \A v \in Workers : local'[v] \in 0 .. local[v],
           UNCHANGED <<pc, ret, wakers, lock, is_waking, target, level, victims, working, depth>>
    PROVE  Wakeups'
<1>1. /\ Sleeping' = Sleeping /\ Waking' = Waking
      /\ \A v \in Workers : ToBeWoken(v)' <=> ToBeWoken(v)
  BY DEF Sleeping, Waking, ToBeWoken
<1>2. AtWork'
  <2> SUFFICES ASSUME NEW v \in Workers PROVE WorkOk(v)'
    BY DEF AtWork
  <2>1. WorkOk(v) /\ (local[v] = 0 => local'[v] = 0) /\ (1 \in token[v] => 1 \in token'[v])
    BY DEF Wakeups, AtWork
  <2> QED
    BY <1>1, <2>1 DEF WorkOk
<1>3. LevelsOk' /\ (stop \/ FlagOk)'
  BY <1>1 DEF Wakeups, LevelsOk, FlagOk
<1>4. Answered'
  <2>1. \A d, t : /\ Calls(t)' <=> Calls(t)
                  /\ Looks(t, d)' <=> Looks(t, d)
    BY DEF Calls, Looks
  <2> QED
    BY <1>1, <2>1 DEF Wakeups, Answered
<1> QED
  BY <1>2, <1>3, <1>4 DEF Wakeups

\* The future of a nested scope ends: no worker is in one.
LEMMA ScopeDoneWakeups ==
    ASSUME Inv, Wakeups, NEW w \in Workers, ScopeDone(w)
    PROVE  Wakeups'
  BY DEF ScopeDone, Wakeups, AtWork, WorkOk

\* A parked worker gets a token that does not come from the pool.
LEMMA PokeWakeups ==
    ASSUME Inv, Wakeups, NEW w \in Workers, Poke(w)
    PROVE  Wakeups'
<1>1. \A v \in Workers : token[v] \subseteq token'[v] /\ local'[v] \in 0 .. local[v]
  BY Typed, Numbers DEF Poke, TypeOK
<1>2. Filled' = Filled
  BY DEF Poke, Filled
<1> QED
  BY <1>1, <1>2, StillWakeups DEF Poke, lounge, taken, fetchv

\* Who is not a worker takes a task, of the queue or of a deque.
LEMMA AssistWakeups ==
    ASSUME Inv, Wakeups, Assist
    PROVE  Wakeups'
<1>1. \A v \in Workers : local[v] \in Nat /\ v # GlobalQueue
  BY Typed, Numbers
<1>2. \A v \in Workers : local'[v] \in 0 .. local[v]
  <2>1. CASE UNCHANGED local
    BY <1>1, <2>1
  <2>2. CASE \E v \in Workers : local[v] > 0 /\ local' = [local EXCEPT ![v] = @ - 1]
    <3>1. PICK v \in Workers : local[v] > 0 /\ local' = [local EXCEPT ![v] = @ - 1]
      BY <2>2
    <3>2. local'[v] = local[v] - 1 /\ \A u \in Workers \ {v} : local'[u] = local[u]
      BY <3>1, Typed DEF TypeOK
    <3> QED
      BY <1>1, <3>1, <3>2
  <2> QED
    BY <2>1, <2>2 DEF Assist
<1>3. queue' > 0 => queue > 0
  BY Typed DEF Assist
<1>4. Filled' \subseteq Filled
  <2>1. \A v \in Workers : local'[v] > 0 => local[v] > 0
    BY <1>1, <1>2
  <2> QED
    BY <1>3, <2>1 DEF Filled
<1> QED
  BY <1>2, <1>4, StillWakeups DEF Assist, lounge, taken, fetchv

\* When the pool is dropped, every worker is unparked.
LEMMA DropPoolWakeups ==
    ASSUME Inv, Wakeups, DropPool
    PROVE  Wakeups'
<1>0. /\ stop' = TRUE /\ token' = [w \in Workers |-> token[w] \cup {1}]
      /\ UNCHANGED <<local, pc, ret, wakers, lock, is_waking, target, level, working, depth>>
  BY DEF DropPool, lounge, taken, fetchv
<1>1. \A v \in Workers : ToBeWoken(v)' <=> ToBeWoken(v)
  BY <1>0 DEF ToBeWoken
<1>2. AtWork'
  BY <1>0, <1>1 DEF Wakeups, AtWork, WorkOk
<1> QED
  BY <1>0, <1>2 DEF Wakeups, LevelsOk, Answered

\* Whether is_waking is stored: somebody is on the way, or nobody sleeps.
LEMMA FlagStored ==
    ASSUME Inv, LoungeIsWaking
    PROVE  Waking # {} \/ Sleeping = {}
<1>1. /\ sleeping_num = Cardinality(Sleeping) /\ waking_count = Cardinality(Waking)
      /\ IsFiniteSet(Sleeping)
  BY Typed, Listed DEF LoungeCounts, Sleeping
<1>2. CASE waking_count > 0
  BY <1>1, <1>2, FS_EmptySet
<1>3. CASE sleeping_num = 0
  BY <1>1, <1>3, FS_EmptySet
<1> QED
  BY <1>2, <1>3 DEF LoungeIsWaking

\* A worker lists itself, and still looks once more.
LEMMA SleepWakeups ==
    ASSUME Inv, Wakeups, NEW w \in Workers, Sleep(w)
    PROVE  Wakeups'
<1>0. /\ TypeOK /\ pc[w] = "sleep" /\ WorkOk(w) /\ depth[w] = 1 /\ w # Nobody
      /\ w \in Threads
      /\ UNCHANGED <<queue, local, is_waking, ret, target, level, victims, token, depth, stop>>
      /\ \A v \in Workers : wakers[v] # 0 => ~working[v]
  BY Typed, Numbers
     DEF Sleep, taken, fetchv, limits, Wakeups, AtWork, WorkOk, LoungeCounts, Sleeping
<1>1. wakers'[w] = 1 /\ \A v \in Workers \ {w} : wakers'[v] = wakers[v]
  BY <1>0 DEF Sleep, InsertWaker, TypeOK
<1>2. PICK l \in {"sleep2", "park"} :
          /\ pc' = [pc EXCEPT ![w] = l]
          /\ l = "sleep2" => lock' = w
          /\ l = "park" => lock' = lock /\ wakers[w] # 0
  BY DEF Sleep, Goto
<1>3. pc'[w] = l /\ \A u \in Threads \ {w} : pc'[u] = pc[u]
  BY <1>0, <1>2 DEF TypeOK
<1>4. ~working'[w] /\ \A v \in Workers \ {w} : working'[v] = working[v]
  BY <1>0 DEF Sleep, TypeOK
<1>5. \A v \in Workers : ToBeWoken(v)' <=> ToBeWoken(v)
  BY <1>0, <1>3 DEF ToBeWoken
<1>6. AtWork'
  <2> SUFFICES ASSUME NEW v \in Workers PROVE WorkOk(v)'
    BY DEF AtWork
  <2>1. CASE v = w
    <3>1. local[w] = 0
      BY <1>0, Typed DEF WorkerOk
    <3> QED
      BY <1>0, <1>1, <1>3, <1>4, <2>1, <3>1 DEF WorkOk
  <2>2. CASE v # w
    <3>1. WorkOk(v) /\ pc'[v] = pc[v] /\ wakers'[v] = wakers[v] /\ working'[v] = working[v]
      BY <1>1, <1>3, <1>4, <2>2, Numbers DEF Wakeups, AtWork
    <3> QED
      BY <1>0, <1>5, <3>1 DEF WorkOk
  <2> QED
    BY <2>1, <2>2
<1>7. LevelsOk'
  BY <1>0, <1>3 DEF Wakeups, LevelsOk
<1>8. CASE l = "sleep2"
  <2>1. FlagOk'
    BY <1>0, <1>2, <1>8 DEF FlagOk
  <2>2. Answered'
    BY <1>3, <1>4, <1>8 DEF Answered, Looks
  <2> QED
    BY <1>6, <1>7, <2>1, <2>2 DEF Wakeups
<1>9. CASE l = "park"
  <2>1. /\ Sleeping' = Sleeping /\ Filled' = Filled
    BY <1>0, <1>1, <1>2, <1>9 DEF Sleeping, Filled
  <2>2. Waking' = Waking
    BY <1>0, <1>1, <1>2, <1>3, <1>4, <1>9, Numbers DEF Waking
  <2>3. (stop \/ FlagOk)'
    <3>1. \A u \in Threads : pc[u] = "take" => pc'[u] = "take"
      BY <1>0, <1>3
    <3> QED
      BY <1>0, <1>2, <1>9, <2>1, <2>2, <3>1 DEF Wakeups, FlagOk
  <2>4. Answered'
    <3>1. ~Calls(w) /\ \A d \in Filled' : ~Looks(w, d)
      BY <1>0, <1>2, <1>9 DEF Calls, Looks
    <3> QED
      BY <1>0, <1>1, <1>3, <1>4, <2>1, <3>1, AnswerKept
  <2> QED
    BY <1>6, <1>7, <2>3, <2>4 DEF Wakeups
<1> QED
  BY <1>8, <1>9

\* A worker that has entered the lounge stores is_waking.
LEMMA SleepStoreWakeups ==
    ASSUME Inv, Wakeups, NEW w \in Workers, SleepStore(w)
    PROVE  Wakeups'
<1>0. /\ TypeOK /\ pc[w] = "sleep2" /\ WorkOk(w) /\ ~working[w] /\ w \in Threads
      /\ is_waking' = LoungeIsWaking
      /\ UNCHANGED <<queue, local, wakers, working, ret, target, level, victims, token,
                     depth, stop>>
  BY Typed, Numbers DEF SleepStore, lounge, taken, fetchv, Wakeups, AtWork, LockOk
<1>1. PICK l \in {"fetch", "local"} : pc' = [pc EXCEPT ![w] = l]
  BY DEF SleepStore, Goto
<1>2. pc'[w] = l /\ \A u \in Threads \ {w} : pc'[u] = pc[u]
  BY <1>0, <1>1 DEF TypeOK
<1>3. \A v \in Workers : ToBeWoken(v)' <=> ToBeWoken(v)
  BY <1>0, <1>2 DEF ToBeWoken
<1>4. AtWork'
  <2> SUFFICES ASSUME NEW v \in Workers PROVE WorkOk(v)'
    BY DEF AtWork
  <2>1. CASE v = w
    BY <1>0, <1>2, <2>1 DEF WorkOk
  <2>2. CASE v # w
    <3>1. WorkOk(v) /\ pc'[v] = pc[v]
      BY <1>2, <2>2, Numbers DEF Wakeups, AtWork
    <3> QED
      BY <1>0, <1>3, <3>1 DEF WorkOk
  <2> QED
    BY <2>1, <2>2
<1>5. LevelsOk'
  BY <1>0, <1>2 DEF Wakeups, LevelsOk
<1>6. FlagOk'
  <2>1. Sleeping' = Sleeping /\ Waking' = Waking
    BY <1>0, <1>2, Numbers DEF Sleeping, Waking
  <2> QED
    BY <1>0, <2>1, FlagStored DEF FlagOk
<1>7. Answered'
  BY <1>0, <1>2 DEF Answered, Looks
<1> QED
  BY <1>4, <1>5, <1>6, <1>7 DEF Wakeups

\* A worker that found something leaves the lounge, and will call wake_one.
LEMMA WakeSelfWakeups ==
    ASSUME Inv, Wakeups, NEW w \in Workers, WakeSelf(w)
    PROVE  Wakeups'
<1>0. /\ TypeOK /\ pc[w] = "self" /\ WorkOk(w) /\ ret[w] \in {"run", "cas"} /\ w # Nobody
      /\ w \in Threads
      /\ UNCHANGED <<queue, local, is_waking, target, level, victims, working, token, depth, stop>>
      /\ \A v \in Workers : wakers[v] \in 0 .. 3
      /\ \A v \in Workers : local[v] \in 0 .. local[v]
  BY Typed, Numbers DEF WakeSelf, taken, fetchv, limits, Wakeups, AtWork, WorkerOk
<1>1. CASE working[w]
  <2>1. /\ pc' = [pc EXCEPT ![w] = ret[w]] /\ ret' = [ret EXCEPT ![w] = "run"]
        /\ UNCHANGED <<wakers, lock>>
    BY <1>1 DEF WakeSelf, AfterSelf, Goto, lounge
  <2>2. /\ pc'[w] = ret[w] /\ ret'[w] = "run"
        /\ \A u \in Threads \ {w} : pc'[u] = pc[u] /\ ret'[u] = ret[u]
    BY <1>0, <2>1 DEF TypeOK
  <2>3. WorkOk(w)'
    BY <1>0, <1>1, <2>1, <2>2 DEF WorkOk
  <2>4. Answered'
    <3>1. Sleeping' = Sleeping /\ Filled' = Filled
      BY <1>0, <2>1 DEF Sleeping, Filled
    <3>2. (Calls(w) => Calls(w)') /\ \A d \in Filled' : ~Looks(w, d)
      BY <1>0, <1>1, <2>2 DEF Calls, Looks
    <3> QED
      BY <1>0, <2>1, <2>2, <3>1, <3>2, AnswerKept
  <2> QED
    BY <1>0, <2>1, <2>2, <2>3, <2>4, QuietWakeups
<1>2. CASE ~working[w]
  <2>1. /\ lock' = w /\ UNCHANGED ret /\ pc' = [pc EXCEPT ![w] = "self2"]
        /\ wakers' = [wakers EXCEPT ![w] = 0] \/ (wakers[w] = 0 /\ UNCHANGED wakers)
    BY <1>2 DEF WakeSelf, Goto
  <2>2. /\ pc'[w] = "self2" /\ ret'[w] = "cas" /\ \A u \in Threads \ {w} : pc'[u] = pc[u]
    BY <1>0, <1>2, <2>1 DEF TypeOK, WorkOk
  <2>3. wakers'[w] = 0 /\ \A v \in Workers \ {w} : wakers'[v] = wakers[v]
    BY <1>0, <2>1 DEF TypeOK
  <2>4. \A v \in Workers : ToBeWoken(v)' <=> ToBeWoken(v)
    BY <1>0, <2>2 DEF ToBeWoken
  <2>5. AtWork'
    <3> SUFFICES ASSUME NEW v \in Workers PROVE WorkOk(v)'
      BY DEF AtWork
    <3>1. CASE v = w
      BY <1>0, <1>2, <2>1, <2>2, <2>3, <3>1 DEF WorkOk
    <3>2. CASE v # w
      <4>1. WorkOk(v) /\ pc'[v] = pc[v] /\ wakers'[v] = wakers[v]
        BY <2>2, <2>3, <3>2, Numbers DEF Wakeups, AtWork
      <4> QED
        BY <1>0, <2>1, <2>4, <4>1 DEF WorkOk
    <3> QED
      BY <3>1, <3>2
  <2>6. LevelsOk'
    BY <1>0, <2>2 DEF Wakeups, LevelsOk
  <2>7. FlagOk' /\ Answered'
    BY <1>0, <2>1, <2>2 DEF FlagOk, Answered, Calls
  <2> QED
    BY <2>5, <2>6, <2>7 DEF Wakeups
<1> QED
  BY <1>1, <1>2

\* A worker that has left the lounge stores is_waking.
LEMMA WakeSelfStoreWakeups ==
    ASSUME Inv, Wakeups, NEW w \in Workers, WakeSelfStore(w)
    PROVE  Wakeups'
<1>0. /\ TypeOK /\ pc[w] = "self2" /\ WorkOk(w) /\ w \in Threads
      /\ ~working[w] /\ wakers[w] = 0 /\ ret[w] = "cas"
      /\ working' = [working EXCEPT ![w] = TRUE] /\ is_waking' = LoungeIsWaking
      /\ pc' = [pc EXCEPT ![w] = ret[w]] /\ ret' = [ret EXCEPT ![w] = "run"]
      /\ UNCHANGED <<queue, local, wakers, target, level, victims, token, depth, stop>>
  BY Typed, Numbers
     DEF WakeSelfStore, AfterSelf, Goto, lounge, taken, fetchv, limits, Wakeups, AtWork, LockOk,
         WorkOk
<1>1. /\ pc'[w] = "cas" /\ ret'[w] = "run" /\ working'[w]
      /\ \A u \in Threads \ {w} : pc'[u] = pc[u] /\ ret'[u] = ret[u]
      /\ \A v \in Workers \ {w} : working'[v] = working[v]
  BY <1>0 DEF TypeOK
<1>2. \A v \in Workers : ToBeWoken(v)' <=> ToBeWoken(v)
  BY <1>0, <1>1 DEF ToBeWoken
<1>3. AtWork'
  <2> SUFFICES ASSUME NEW v \in Workers PROVE WorkOk(v)'
    BY DEF AtWork
  <2>1. CASE v = w
    BY <1>0, <1>1, <2>1 DEF WorkOk
  <2>2. CASE v # w
    <3>1. WorkOk(v) /\ pc'[v] = pc[v] /\ ret'[v] = ret[v] /\ working'[v] = working[v]
      BY <1>1, <2>2, Numbers DEF Wakeups, AtWork
    <3> QED
      BY <1>0, <1>2, <3>1 DEF WorkOk
  <2> QED
    BY <2>1, <2>2
<1>4. LevelsOk'
  BY <1>0, <1>1 DEF Wakeups, LevelsOk
<1>5. FlagOk'
  <2>1. Sleeping' = Sleeping /\ Waking' = Waking
    BY <1>0, <1>1, Numbers DEF Sleeping, Waking
  <2> QED
    BY <1>0, <2>1, FlagStored DEF FlagOk
<1>6. Answered'
  BY <1>0, <1>1 DEF Answered, Calls
<1> QED
  BY <1>3, <1>4, <1>5, <1>6 DEF Wakeups

-----------------------------------------------------------------------------
\* At first every worker works, and no task waits.
LEMMA InitWakeups == Init => Wakeups
<1> SUFFICES ASSUME Init PROVE Wakeups
  OBVIOUS
<1>1. \A w \in Workers : /\ pc[w] = "poll" /\ depth[w] = 1 /\ wakers[w] = 0 /\ working[w]
  BY Numbers DEF Init
<1>2. \A t \in Threads : pc[t] \in {"poll", "idle"}
  BY DEF Init
<1>3. AtWork
  BY <1>1 DEF AtWork, WorkOk, Init
<1>4. LevelsOk
  BY <1>2 DEF LevelsOk
<1>5. Sleeping = {}
  BY <1>1 DEF Sleeping
<1> QED
  BY <1>3, <1>4, <1>5 DEF Wakeups, FlagOk, Answered

\* Every step of a thread keeps the wake-ups.
LEMMA StepWakeups ==
    ASSUME Inv, Wakeups, NEW t \in Threads, Step(t)
    PROVE  Wakeups'
<1>1. ASSUME WakeOne(t) PROVE Wakeups'
  BY <1>1, CasWakeups, TakeOneWakeups, WakeWakeups DEF WakeOne
<1>2. ASSUME t \in Workers, Fetch(t) PROVE Wakeups'
  BY <1>2, FetchLocalWakeups, StealGlobalWakeups, GrabMoreWakeups, GrabPublishWakeups,
     StealWorkerWakeups, StealLenWakeups, StealInnerWakeups DEF Fetch
<1>3. ASSUME t \in Workers, Lounging(t) PROVE Wakeups'
  BY <1>3, WakeSelfWakeups, WakeSelfStoreWakeups, SleepWakeups, SleepStoreWakeups DEF Lounging
<1>4. ASSUME t \in Workers, Leave(t) \/ Unpark(t) PROVE Wakeups'
  BY <1>4, LeaveWakeups, UnparkWakeups
<1> QED
  BY <1>1, <1>2, <1>3, <1>4 DEF Step

\* So does every step, as long as no nested scope runs.
LEMMA NextWakeups == Inv /\ Wakeups /\ [Next]_vars /\ scopes' = 0 => Wakeups'
<1> SUFFICES ASSUME Inv, Wakeups, [Next]_vars, scopes' = 0 PROVE Wakeups'
  OBVIOUS
<1>1. ASSUME NEW t \in Threads, Step(t) \/ Schedule(t) PROVE Wakeups'
  BY <1>1, StepWakeups, ScheduleWakeups
<1>2. ASSUME NEW w \in Workers,
             \/ RunEnd(w) \/ LocalTick(w) \/ LocalEnd(w) \/ ScopeDone(w) \/ Poke(w)
      PROVE  Wakeups'
  BY <1>2, RunEndWakeups, LocalTickWakeups, LocalEndWakeups, ScopeDoneWakeups, PokeWakeups
<1>3. ASSUME NEW w \in Workers, EnterScope(w) PROVE FALSE
  <2>1. scopes \in Nat
    BY Typed, PoolAssumption DEF TypeOK
  <2> QED
    BY <1>3, <2>1 DEF EnterScope
<1>4. ASSUME Assist \/ DropPool PROVE Wakeups'
  BY <1>4, AssistWakeups, DropPoolWakeups
<1>5. ASSUME UNCHANGED vars PROVE Wakeups'
  <2>1. UNCHANGED <<queue, local, wakers, lock, is_waking, pc, ret, target, level, victims,
                    working, token, depth, stop>>
    BY <1>5 DEF vars
  <2>2. Filled' = Filled /\ \A v \in Workers : local'[v] \in 0 .. local[v]
    BY <2>1, Typed, Numbers DEF Filled
  <2> QED
    BY <2>1, <2>2, StillWakeups
<1> QED
  BY <1>1, <1>2, <1>3, <1>4, <1>5 DEF Next

-----------------------------------------------------------------------------
\* PoolExecutor and Lounge: the invariant of the pool, with that of the
\* wake-ups for as long as no task has entered a scope on its own worker.
THEOREM PoolWakeups == Spec => []IInv
<1>1. Init => IInv
  BY InitInv, InitWakeups DEF IInv
<1>2. IInv /\ [Next]_vars => IInv'
  <2> SUFFICES ASSUME IInv, [Next]_vars, scopes' = 0 PROVE Wakeups'
    BY NextInv DEF IInv
  <2>1. CASE scopes = 0
    BY <2>1, NextWakeups DEF IInv
  <2>2. CASE scopes # 0
    <3>1. scopes \in Nat \ {0}
      BY <2>2, Typed, PoolAssumption DEF IInv, TypeOK
    <3>2. scopes' = scopes \/ scopes' = scopes + 1
      BY DEF Next, Step, WakeOne, Fetch, Lounging, Schedule, WakeOneCas, TakeOne, Wake, FetchLocal,
             StealGlobal, GrabMore, GrabPublish, StealWorker, StealLen, StealInner, WakeSelf,
             WakeSelfStore, Sleep, SleepStore, Leave, Unpark, RunEnd, LocalTick, LocalEnd,
             EnterScope, ScopeDone, Poke, Assist, DropPool, limits, vars
    <3> QED
      BY <3>1, <3>2
  <2> QED
    BY <2>1, <2>2
<1> QED
  BY <1>1, <1>2, PTL DEF Spec

\* A runnable that a parked worker could take has somebody on the way to it.
LEMMA ParkedAnswered ==
    ASSUME Inv, Wakeups
    PROVE  NoLostWakeup
<1> SUFFICES ASSUME Available, NEW w \in Workers, pc[w] = "park", ~Searching
             PROVE  FALSE
  BY DEF NoLostWakeup
<1>1. \A t \in Threads : pc[t] \in {"run", "park", "exit", "idle"}
  BY DEF Searching
<1>2. \A v \in Workers : /\ WorkOk(v) /\ pc[v] # "idle" /\ v \in Threads /\ ~ToBeWoken(v)
                         /\ pc[v] = "park" => 1 \notin token[v] /\ wakers[v] # 0
  <2> SUFFICES ASSUME NEW v \in Workers
               PROVE  /\ WorkOk(v) /\ pc[v] # "idle" /\ v \in Threads /\ ~ToBeWoken(v)
                      /\ pc[v] = "park" => 1 \notin token[v] /\ wakers[v] # 0
    OBVIOUS
  <2>1. WorkOk(v) /\ pc[v] # "idle" /\ v \in Threads
    BY Typed, Numbers DEF Wakeups, AtWork, WorkerOk
  <2>2. ~ToBeWoken(v)
    BY <1>1 DEF ToBeWoken
  <2>3. ASSUME pc[v] = "park" PROVE 1 \notin token[v]
    BY <2>1, <2>3 DEF Searching, WorkOk
  <2> QED
    BY <2>1, <2>2, <2>3 DEF WorkOk
<1>3. w \in Sleeping /\ ~stop
  BY <1>2 DEF Sleeping, WorkOk
<1>4. \A v \in Workers : ~working[v] => pc[v] = "park" /\ wakers[v] # 0
  BY <1>1, <1>2, <1>3 DEF WorkOk
<1>5. ~is_waking
  <2>1. Waking = {}
    BY <1>4 DEF Waking
  <2>2. lock = Nobody
    BY <1>1, <1>2, Typed DEF LockOk, TypeOK
  <2>3. \A t \in Threads : pc[t] # "take"
    BY <1>1
  <2> QED
    BY <1>3, <2>1, <2>2, <2>3 DEF Wakeups, FlagOk
<1>6. PICK d \in Workers \cup {GlobalQueue} : d \in Filled
  BY Numbers DEF Available, Filled
<1>7. \A t \in Threads : ~Calls(t)
  BY <1>1 DEF Calls
<1>8. \A v \in Workers : ~Looks(v, d)
  BY <1>4 DEF Looks
<1> QED
  BY <1>3, <1>5, <1>6, <1>7, <1>8, Typed DEF Wakeups, Answered, TypeOK

\* Spawn, wake_one, and the last look of a worker that goes to sleep: while a
\* runnable is available and a worker is parked, a thread is on its way to it,
\* for as long as no task has entered a scope on its own worker.
THEOREM PoolNoLostWakeup == Spec => []NoLostWakeup
<1>1. IInv => (scopes = 0 => NoLostWakeup)
  BY ParkedAnswered DEF IInv
<1>2. IInv => NoLostWakeup
  BY <1>1 DEF NoLostWakeup
<1> QED
  BY <1>2, PoolWakeups, PTL
=============================================================================
