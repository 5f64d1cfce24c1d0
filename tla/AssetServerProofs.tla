-------------------------- MODULE AssetServerProofs --------------------------
(***************************************************************************)
(* Why no asset is removed while somebody holds a handle of it, and why    *)
(* one that is reported loaded is, for any paths and dependencies, any     *)
(* number of entries, requests and waiting tasks.                          *)
(*                                                                         *)
(* Handles are accounted for: the drops under way of an entry are those    *)
(* that requests made up for, and one more if nobody holds a handle.  The  *)
(* states follow from three links between a dependent and a dependency:    *)
(* what the value holds, rloading, and wr or a job of the propagation.     *)
(***************************************************************************)
EXTENDS AssetServer, TLAPS

-----------------------------------------------------------------------------
EventType == [k : {"loaded", "failed", "fully"}, id : Ids, deps : SUBSET Ids]

Types ==
    /\ TypeOK
    /\ info \in [Ids -> {None} \cup EntryType]
    /\ index \in [Paths -> Nat]
    /\ queue \in Seq(EventType)
    /\ value \in [Ids -> {None} \cup SUBSET Ids]
    /\ waiter \in [Waiters -> [st : {"idle", "poll", "parked", "done"}, id : Ids \cup {None}]]

\* The entry is of no request yet.
Fresh(i) == i[2] > index[i[1]]

\* The outcome of a load task of i is queued.
Told(i) == \E n \in DOMAIN queue : queue[n].id = i /\ queue[n].k # "fully"

\* Only an entry that is loading has a load task or the outcome of one.
TaskOk(i) ==
    /\ task[i].pc = "none" => task[i] = NoTask
    /\ task[i].todo \subseteq Deps[i[1]]
    /\ \A d \in task[i].got : d[1] \in Deps[i[1]]
    /\ task[i].pc # "none" => ~Told(i)
    /\ info[i] # None /\ info[i].load # "loading" => task[i].pc = "none" /\ ~Told(i)
    /\ Fresh(i) => /\ info[i] = None /\ task[i].pc = "none" /\ ~Told(i)
                   /\ \A d \in Ids : info[d] # None => i \notin info[d].wr

EventsOk ==
    /\ \A m, n \in DOMAIN queue :
          /\ queue[m].id = queue[n].id
          /\ queue[m].k # "fully" /\ queue[n].k # "fully"
          => m = n
    /\ \A n \in DOMAIN queue : \A d \in queue[n].deps : d[1] \in Deps[queue[n].id[1]]

InsertsOk == \A r \in Requesters : insert[r].id = None => insert[r] = NoInsert

WaitersOk ==
    /\ \A w \in Waiters : waiter[w].id = None <=> waiter[w].st \in {"idle", "done"}
    /\ \A i \in Ids : info[i] # None =>
          \A w \in info[i].wait : waiter[w].st = "parked" /\ waiter[w].id = i

\* The drops under way of i.
Account(i) ==
    drops[i] = (IF info[i] = None THEN 0 ELSE info[i].skip)
                  + (IF info[i] # None /\ ~Alive(i) THEN 1 ELSE 0)
Held(i) == Alive(i) => info[i] # None

Accounts == \A i \in Ids : Account(i) /\ Held(i)

Base == /\ Types /\ EventsOk /\ InsertsOk /\ WaitersOk
        /\ \A i \in Ids : TaskOk(i)

-----------------------------------------------------------------------------
\* The states of an entry agree with its sets.
StatesOk(i) ==
    info[i] # None =>
        /\ info[i].load = "loading" => info[i].rec = "loading"
        /\ info[i].load = "failed" => info[i].rec = "failed"
        /\ info[i].rec = "loaded" => info[i].rloading = {} /\ info[i].rfailed = {}
        /\ info[i].load = "loaded" /\ info[i].rec = "failed" => info[i].rfailed # {}
        /\ info[i].rec # "loading" => info[i].wr = {}

\* What i has loaded, and what it still waits for.
ValueOk(i) ==
    info[i] # None /\ info[i].load = "loaded" =>
        /\ value[i] # None /\ info[i].rloading \subseteq value[i]
        /\ \A d \in value[i] : \/ d \in info[i].rloading \cup info[i].rfailed
                               \/ info[d] # None /\ info[d].rec = "loaded"
        /\ \A d \in info[i].rloading :
              \/ info[d] # None /\ info[d].rec = "loading" /\ i \in info[d].wr
              \/ <<"loaded", d, i>> \in work \/ <<"failed", d, i>> \in work

\* Who is to be told waits.
WaitOk(i) ==
    info[i] # None =>
        \A d \in Ids : \/ info[d] # None /\ i \in info[d].wr
                       \/ <<"loaded", d, i>> \in work \/ <<"failed", d, i>> \in work
                       => info[i].load = "loaded" /\ d \in info[i].rloading

WorkOk == \A t \in work : info[t[2]] # None /\ info[t[2]].rec = t[1]

Links == WorkOk /\ \A i \in Ids : StatesOk(i) /\ ValueOk(i) /\ WaitOk(i)

IInv == Base /\ Accounts /\ Links

-----------------------------------------------------------------------------
\* An entry is of one path, and no path needs itself.
LEMMA Paths1 ==
    /\ \A i \in Ids : i[1] \in Paths /\ i[2] \in Nat /\ i = <<i[1], i[2]>>
                      /\ i[2] \in 1 .. MaxEntries[i[1]]
    /\ \A p \in Paths : p \notin Deps[p] /\ Deps[p] \subseteq Paths /\ MaxEntries[p] \in Nat
    /\ \A i \in Ids : i # None
    /\ None \notin EntryType
    /\ \A S \in SUBSET Ids : S # None
<1>1. \A i \in Ids : i[1] \in Paths /\ i[2] \in Nat /\ i = <<i[1], i[2]>>
                     /\ i[2] \in 1 .. MaxEntries[i[1]]
  BY ServerAssumption DEF Ids
<1>2. \A p \in Paths : p \notin Deps[p] /\ Deps[p] \subseteq Paths /\ MaxEntries[p] \in Nat
  <2>1. PICK rank \in [Paths -> 1 .. Cardinality(Paths)] :
            \A p \in Paths : \A q \in Deps[p] : rank[q] < rank[p]
    BY DepsAcyclic
  <2>2. \A p \in Paths : rank[p] \in Int /\ ~(rank[p] < rank[p])
    BY <2>1
  <2> QED
    BY <2>1, <2>2, ServerAssumption
<1> QED
  BY <1>1, <1>2, NoneAssumption

\* The queue without its head, and with one more event.
LEMMA QueueTail ==
    ASSUME Types, queue # <<>>
    PROVE  /\ Head(queue) \in EventType /\ Tail(queue) \in Seq(EventType)
           /\ DOMAIN Tail(queue) = 1 .. Len(queue) - 1 /\ Len(queue) \in Nat \ {0}
           /\ DOMAIN queue = 1 .. Len(queue) /\ Head(queue) = queue[1]
           /\ \A n \in DOMAIN Tail(queue) : n + 1 \in DOMAIN queue /\ Tail(queue)[n] = queue[n + 1]
<1>1. queue \in Seq(EventType)
  BY DEF Types
<1> QED
  BY <1>1

\* The queue with one more event at its end.
LEMMA QueueAppend ==
    ASSUME NEW q \in Seq(EventType), NEW e \in EventType
    PROVE  /\ Append(q, e) \in Seq(EventType)
           /\ DOMAIN Append(q, e) = DOMAIN q \cup {Len(q) + 1}
           /\ DOMAIN q = 1 .. Len(q) /\ Len(q) \in Nat
           /\ Append(q, e)[Len(q) + 1] = e
           /\ \A n \in DOMAIN q : Append(q, e)[n] = q[n] /\ n # Len(q) + 1
  OBVIOUS

-----------------------------------------------------------------------------
(***************************************************************************)
(* What steps of a kind have in common.                                    *)
(***************************************************************************)
\* Handles are dropped, and counted.
LEMMA HandlesDrop ==
    ASSUME Base, Accounts, DropHandles,
           \A i \in Ids : Alive(i)' => Alive(i),
           \A i \in Ids : /\ info'[i] = None <=> info[i] = None
                          /\ info[i] # None => info'[i].skip = info[i].skip
    PROVE  Accounts' /\ drops' \in [Ids -> Nat]
<1>1. drops \in [Ids -> Nat] /\ \A i \in Ids : info[i] # None => info[i].skip \in Nat
  BY DEF Base, Types, TypeOK, EntryType
<1>2. \A i \in Ids : drops'[i] = drops[i] + (IF Alive(i) /\ ~Alive(i)' THEN 1 ELSE 0)
  BY DEF DropHandles
<1>3. drops' \in [Ids -> Nat]
  BY <1>1 DEF DropHandles
<1>4. ASSUME NEW i \in Ids PROVE Account(i)' /\ Held(i)'
  <2>1. Account(i) /\ Held(i)
    BY DEF Accounts
  <2>2. Held(i)'
    BY <2>1 DEF Held
  <2>3. drops'[i] = (IF info'[i] = None THEN 0 ELSE info'[i].skip)
                       + (IF info'[i] # None /\ ~Alive(i)' THEN 1 ELSE 0)
    <3>1. CASE info[i] = None
      BY <1>2, <2>1, <3>1 DEF Account, Held
    <3>2. CASE info[i] # None /\ Alive(i)
      BY <1>1, <1>2, <2>1, <3>2 DEF Account
    <3>3. CASE info[i] # None /\ ~Alive(i)
      BY <1>1, <1>2, <2>1, <3>3 DEF Account
    <3> QED
      BY <3>1, <3>2, <3>3
  <2> QED
    BY <2>2, <2>3 DEF Account
<1> QED
  BY <1>3, <1>4 DEF Accounts

\* No handle is made or dropped.
LEMMA HandlesSame ==
    ASSUME Accounts, drops' = drops,
           \A i \in Ids : Alive(i)' <=> Alive(i),
           \A i \in Ids : /\ info'[i] = None <=> info[i] = None
                          /\ info[i] # None => info'[i].skip = info[i].skip
    PROVE  Accounts'
<1> SUFFICES ASSUME NEW i \in Ids PROVE Account(i)' /\ Held(i)'
  BY DEF Accounts
<1>1. Account(i) /\ Held(i)
  BY DEF Accounts
<1> QED
  BY <1>1 DEF Account, Held

\* The links read only some fields.
LEMMA LinksKept ==
    ASSUME Links, value' = value, work' = work,
           \A i \in Ids :
              /\ info'[i] = None <=> info[i] = None
              /\ info[i] # None =>
                    /\ info'[i].load = info[i].load /\ info'[i].rec = info[i].rec
                    /\ info'[i].rloading = info[i].rloading
                    /\ info'[i].rfailed = info[i].rfailed /\ info'[i].wr = info[i].wr,
           Types
    PROVE  Links'
<1>1. work \subseteq {"loaded", "failed"} \X Ids \X Ids
      /\ \A i \in Ids : /\ value[i] # None => value[i] \subseteq Ids
                        /\ info[i] # None => info[i].rloading \subseteq Ids
  BY DEF Types, TypeOK, EntryType
<1>2. WorkOk'
  <2> SUFFICES ASSUME NEW t \in work PROVE info'[t[2]] # None /\ info'[t[2]].rec = t[1]
    BY DEF WorkOk
  <2>1. t[2] \in Ids /\ info[t[2]] # None /\ info[t[2]].rec = t[1]
    BY <1>1 DEF Links, WorkOk
  <2> QED
    BY <2>1
<1>3. ASSUME NEW i \in Ids PROVE StatesOk(i)' /\ WaitOk(i)'
  <2>1. StatesOk(i) /\ WaitOk(i)
    BY DEF Links
  <2>2. StatesOk(i)'
    BY <2>1 DEF StatesOk
  <2>3. WaitOk(i)'
    BY <2>1 DEF WaitOk
  <2> QED
    BY <2>2, <2>3
<1>4. ASSUME NEW i \in Ids PROVE ValueOk(i)'
  <2> SUFFICES ASSUME info[i] # None, info[i].load = "loaded"
               PROVE  /\ value[i] # None /\ info'[i].rloading \subseteq value[i]
                      /\ \A d \in value[i] : \/ d \in info'[i].rloading \cup info'[i].rfailed
                                             \/ info'[d] # None /\ info'[d].rec = "loaded"
                      /\ \A d \in info'[i].rloading :
                            \/ info'[d] # None /\ info'[d].rec = "loading" /\ i \in info'[d].wr
                            \/ <<"loaded", d, i>> \in work \/ <<"failed", d, i>> \in work
    BY DEF ValueOk
  <2>1. /\ value[i] # None /\ info[i].rloading \subseteq value[i]
        /\ \A d \in value[i] : \/ d \in info[i].rloading \cup info[i].rfailed
                               \/ info[d] # None /\ info[d].rec = "loaded"
        /\ \A d \in info[i].rloading :
              \/ info[d] # None /\ info[d].rec = "loading" /\ i \in info[d].wr
              \/ <<"loaded", d, i>> \in work \/ <<"failed", d, i>> \in work
    BY DEF Links, ValueOk
  <2>2. value[i] \subseteq Ids /\ info[i].rloading \subseteq Ids
    BY <1>1, <2>1
  <2> QED
    BY <2>1, <2>2
<1> QED
  BY <1>2, <1>3, <1>4 DEF Links

\* An entry keeps its task, and nothing is said about it.
LEMMA TaskKept ==
    ASSUME NEW i \in Ids, TaskOk(i), index' = index, task'[i] = task[i], Told(i)' => Told(i),
           info'[i] # None => info[i] # None /\ info'[i].load = info[i].load,
           \A d \in Ids : info'[d] # None /\ i \in info'[d].wr => info[d] # None /\ i \in info[d].wr
    PROVE  TaskOk(i)'
<1>1. Fresh(i)' <=> Fresh(i)
  BY DEF Fresh
<1> QED
  BY <1>1 DEF TaskOk

\* A task that ends, or is cancelled, leaves nothing.
LEMMA TaskEnds ==
    ASSUME NEW i \in Ids, TaskOk(i), index' = index, task'[i] = NoTask,
           Told(i)' => Told(i) \/ task[i].pc # "none",
           info'[i] = info[i],
           \A d \in Ids : info'[d] # None /\ i \in info'[d].wr => info[d] # None /\ i \in info[d].wr
    PROVE  TaskOk(i)'
<1>1. Fresh(i)' <=> Fresh(i)
  BY DEF Fresh
<1> QED
  BY <1>1 DEF TaskOk, NoTask

\* The events stay.
LEMMA ToldSame ==
    ASSUME queue' = queue
    PROVE  EventsOk => EventsOk' /\ \A i \in Ids : Told(i)' <=> Told(i)
  BY DEF EventsOk, Told

\* Steps that leave the entries alone.
LEMMA InfoSame ==
    ASSUME IInv, info' = info, value' = value, work' = work
    PROVE  Links'
<1> QED
  BY LinksKept DEF IInv, Base

-----------------------------------------------------------------------------
(***************************************************************************)
(* The actions that leave the entries as they are.                         *)
(***************************************************************************)
\* Base is kept by a step that leaves entries and paths alone, if it keeps
\* the types, what it says of events and inserts, and the tasks.
LEMMA BaseKept ==
    ASSUME Base, Types', EventsOk', InsertsOk', WaitersOk', \A i \in Ids : TaskOk(i)'
    PROVE  Base'
  BY DEF Base

\* spawn_load_task inserts the task, and may cancel the one it replaces.
LEMMA InsertInv ==
    ASSUME IInv, NEW r \in Requesters, Insert(r)
    PROVE  IInv'
<1> DEFINE i == insert[r].id
<1>1. i \in Ids /\ Base /\ Types /\ TypeOK
  BY DEF IInv, Base, InsertsOk, Insert, Types, TypeOK
<1>2. \/ task' = task
      \/ task' = [task EXCEPT ![i] = NoTask]
  BY DEF Insert, Dropped
<1>3. /\ task' \in [Ids -> [pc : {"none", "meta", "load"}, todo : SUBSET Paths, got : SUBSET Ids]]
      /\ \A x \in Ids : task'[x] = task[x] \/ task'[x] = NoTask
  BY <1>1, <1>2 DEF TypeOK, NoTask
<1>4. /\ insert' = [insert EXCEPT ![r] = NoInsert]
      /\ insert' \in [Requesters -> [id : Ids \cup {None}, old : BOOLEAN]]
      /\ pending' \subseteq Ids /\ lost' \subseteq Ids
  BY <1>1 DEF Insert, NoInsert, TypeOK
<1>5. UNCHANGED <<info, index, lock, work, queue, value, app, waiter, requests>> /\ DropHandles
  BY DEF Insert
<1>6. \A x \in Ids : Alive(x)' => Alive(x)
  <2> SUFFICES ASSUME NEW x \in Ids, Alive(x)' PROVE Alive(x)
    OBVIOUS
  <2>1. x # None
    BY Paths1
  <2>2. ASSUME NEW s \in Requesters, insert'[s].id = x PROVE insert[s].id = x
    BY <1>4, <2>1, <2>2, <1>1 DEF NoInsert, TypeOK
  <2>3. ASSUME NEW t \in Ids, x \in task'[t].got PROVE x \in task[t].got
    BY <1>3, <2>3 DEF NoTask
  <2>4. task'[x].pc = "meta" => task[x].pc = "meta"
    BY <1>3 DEF NoTask
  <2> QED
    BY <1>5, <2>2, <2>3, <2>4 DEF Alive
<1>7. Accounts' /\ drops' \in [Ids -> Nat]
  BY <1>1, <1>5, <1>6, HandlesDrop DEF IInv
<1>8. Types'
  BY <1>1, <1>3, <1>4, <1>5, <1>7 DEF Types, TypeOK
<1>9. EventsOk' /\ InsertsOk' /\ WaitersOk'
  <2>1. EventsOk' /\ WaitersOk'
    BY <1>1, <1>5 DEF Base, EventsOk, WaitersOk
  <2>2. InsertsOk'
    BY <1>1, <1>4 DEF Base, InsertsOk, TypeOK
  <2> QED
    BY <2>1, <2>2
<1>10. ASSUME NEW x \in Ids PROVE TaskOk(x)'
  <2>1. TaskOk(x) /\ (Told(x)' => Told(x))
    BY <1>1, <1>5, ToldSame DEF Base
  <2> QED
    BY <2>1, <1>3, <1>5, TaskKept, TaskEnds
<1>11. Links'
  BY <1>5, InfoSame
<1> QED
  BY <1>1, <1>7, <1>8, <1>9, <1>10, <1>11, BaseKept DEF IInv

\* The application drops its handles of an asset.
LEMMA DropInv ==
    ASSUME IInv, NEW i \in Ids, Drop(i)
    PROVE  IInv'
<1>1. Base /\ Types /\ TypeOK
  BY DEF IInv, Base, Types
<1>2. /\ UNCHANGED <<info, index, lock, work, queue, value, task, waiter, loads, requests>>
      /\ DropHandles /\ app' = app \ {i}
  BY DEF Drop
<1>3. \A x \in Ids : Alive(x)' => Alive(x)
  BY <1>2 DEF Alive, loads
<1>4. Accounts' /\ drops' \in [Ids -> Nat]
  BY <1>1, <1>2, <1>3, HandlesDrop DEF IInv
<1>5. Types'
  BY <1>1, <1>2, <1>4 DEF Types, TypeOK, loads
<1>6. EventsOk' /\ InsertsOk' /\ WaitersOk'
  BY <1>1, <1>2 DEF Base, EventsOk, WaitersOk, InsertsOk, loads
<1>7. ASSUME NEW x \in Ids PROVE TaskOk(x)'
  BY <1>1, <1>2, ToldSame, TaskKept DEF Base
<1>8. Links'
  BY <1>2, InfoSame
<1> QED
  BY <1>1, <1>4, <1>5, <1>6, <1>7, <1>8, BaseKept DEF IInv

\* The task has found a loader, and drops its handle.
LEMMA FindLoaderInv ==
    ASSUME IInv, NEW i \in Ids, FindLoader(i)
    PROVE  IInv'
<1>1. Base /\ Types /\ TypeOK
  BY DEF IInv, Base, Types
<1>2. /\ UNCHANGED <<info, index, lock, work, queue, value, app, waiter, loads, requests>>
      /\ DropHandles /\ task[i].pc = "meta"
      /\ task' = [task EXCEPT ![i] = [@ EXCEPT !.pc = "load", !.todo = Deps[i[1]]]]
  BY DEF FindLoader
<1>3. /\ task' \in [Ids -> [pc : {"none", "meta", "load"}, todo : SUBSET Paths, got : SUBSET Ids]]
      /\ \A x \in Ids : x # i => task'[x] = task[x]
      /\ task'[i].pc = "load" /\ task'[i].todo = Deps[i[1]] /\ task'[i].got = task[i].got
  BY <1>1, <1>2, Paths1, ZenonT(40) DEF TypeOK
<1>4. \A x \in Ids : Alive(x)' => Alive(x)
  BY <1>2, <1>3 DEF Alive, loads
<1>5. Accounts' /\ drops' \in [Ids -> Nat]
  BY <1>1, <1>2, <1>4, HandlesDrop DEF IInv
<1>6. Types'
  BY <1>1, <1>2, <1>3, <1>5 DEF Types, TypeOK, loads
<1>7. EventsOk' /\ InsertsOk' /\ WaitersOk'
  BY <1>1, <1>2 DEF Base, EventsOk, WaitersOk, InsertsOk, loads
<1>8. ASSUME NEW x \in Ids PROVE TaskOk(x)'
  <2>1. TaskOk(x) /\ (Told(x)' <=> Told(x)) /\ (Fresh(x)' <=> Fresh(x))
    BY <1>1, <1>2, ToldSame DEF Base, Fresh
  <2>2. CASE x = i
    BY <1>2, <1>3, <2>1, <2>2 DEF TaskOk
  <2>3. CASE x # i
    BY <1>2, <1>3, <2>1, <2>3, TaskKept
  <2> QED
    BY <2>2, <2>3
<1>9. Links'
  BY <1>2, InfoSame
<1> QED
  BY <1>1, <1>5, <1>6, <1>7, <1>8, <1>9, BaseKept DEF IInv

\* A load task tells how it ended.
LEMMA Sent ==
    ASSUME Base, NEW i \in Ids, task[i].pc # "none",
           NEW k \in {"loaded", "failed"}, NEW deps \in SUBSET Ids,
           \A d \in deps : d[1] \in Deps[i[1]],
           queue' = Append(queue, Event(k, i, deps))
    PROVE  /\ queue' \in Seq(EventType) /\ EventsOk'
           /\ \A x \in Ids : Told(x)' => Told(x) \/ x = i
           /\ \A n \in DOMAIN queue : n \in DOMAIN queue' /\ queue'[n] = queue[n]
           /\ \A n \in DOMAIN queue' : n \in DOMAIN queue \/ queue'[n].deps = deps
           /\ \E n \in DOMAIN queue' : queue'[n].deps = deps
<1> DEFINE e == Event(k, i, deps)
<1>1. queue \in Seq(EventType) /\ e \in EventType /\ ~Told(i) /\ EventsOk
  BY DEF Base, Types, EventType, Event, TaskOk
<1>2. e.id = i /\ e.k = k /\ e.deps = deps
  BY DEF Event
<1> HIDE DEF e
<1>3. queue' = Append(queue, e)
  BY DEF e
<1>4. /\ queue' \in Seq(EventType) /\ DOMAIN queue' = DOMAIN queue \cup {Len(queue) + 1}
      /\ queue'[Len(queue) + 1] = e
      /\ \A n \in DOMAIN queue : queue'[n] = queue[n] /\ n # Len(queue) + 1
  BY <1>1, <1>3, QueueAppend
<1> DEFINE l == Len(queue) + 1
<1> HIDE DEF l
<1>5. /\ DOMAIN queue' = DOMAIN queue \cup {l} /\ queue'[l] = e
      /\ \A n \in DOMAIN queue : queue'[n] = queue[n] /\ n # l
  BY <1>4 DEF l
<1>6. EventsOk'
  <2>1. ASSUME NEW m \in DOMAIN queue', NEW n \in DOMAIN queue', queue'[m].id = queue'[n].id,
               queue'[m].k # "fully", queue'[n].k # "fully"
        PROVE  m = n
    <3>1. CASE m \in DOMAIN queue /\ n \in DOMAIN queue
      BY <1>1, <1>5, <2>1, <3>1 DEF EventsOk
    <3>2. CASE m = l /\ n \in DOMAIN queue
      BY <1>1, <1>2, <1>5, <2>1, <3>2 DEF Told
    <3>3. CASE n = l /\ m \in DOMAIN queue
      BY <1>1, <1>2, <1>5, <2>1, <3>3 DEF Told
    <3> QED
      BY <1>5, <3>1, <3>2, <3>3
  <2>2. ASSUME NEW n \in DOMAIN queue', NEW d \in queue'[n].deps
        PROVE  d[1] \in Deps[queue'[n].id[1]]
    BY <1>1, <1>2, <1>5, <2>2 DEF EventsOk
  <2> QED
    BY <2>1, <2>2 DEF EventsOk
<1>7. \A x \in Ids : Told(x)' => Told(x) \/ x = i
  BY <1>2, <1>5 DEF Told
<1> QED
  BY <1>2, <1>4, <1>5, <1>6, <1>7

\* The value goes into the event, with the handles of the dependencies.
LEMMA SendLoadedInv ==
    ASSUME IInv, NEW i \in Ids, SendLoaded(i)
    PROVE  IInv'
<1>1. Base /\ Types /\ TypeOK /\ Accounts
  BY DEF IInv, Base, Types
<1>2. /\ UNCHANGED <<info, index, lock, work, drops, value, app, waiter, loads, requests>>
      /\ task[i].pc = "load" /\ task' = [task EXCEPT ![i] = NoTask]
      /\ queue' = Append(queue, Event("loaded", i, task[i].got))
  BY DEF SendLoaded
<1> DEFINE deps == task[i].got
<1>3. deps \in SUBSET Ids /\ \A d \in deps : d[1] \in Deps[i[1]]
  BY <1>1 DEF TypeOK, Base, TaskOk
<1>4. /\ queue' \in Seq(EventType) /\ EventsOk'
      /\ \A x \in Ids : Told(x)' => Told(x) \/ x = i
      /\ \A n \in DOMAIN queue : n \in DOMAIN queue' /\ queue'[n] = queue[n]
      /\ \A n \in DOMAIN queue' : n \in DOMAIN queue \/ queue'[n].deps = deps
      /\ \E n \in DOMAIN queue' : queue'[n].deps = deps
  BY <1>1, <1>2, <1>3, Sent
<1>5. /\ task' \in [Ids -> [pc : {"none", "meta", "load"}, todo : SUBSET Paths, got : SUBSET Ids]]
      /\ \A x \in Ids : x # i => task'[x] = task[x]
      /\ task'[i] = NoTask /\ task'[i].pc = "none" /\ task'[i].got = {}
  BY <1>1, <1>2 DEF TypeOK, NoTask
<1>6. ASSUME NEW x \in Ids PROVE Alive(x)' <=> Alive(x)
  <2>1. (\E t \in Ids : x \in task[t].got) <=> x \in deps \/ \E t \in Ids : x \in task'[t].got
    BY <1>5
  <2>2. (\E n \in DOMAIN queue' : x \in queue'[n].deps)
          <=> x \in deps \/ \E n \in DOMAIN queue : x \in queue[n].deps
    BY <1>4
  <2>3. task'[x].pc = "meta" <=> task[x].pc = "meta"
    BY <1>2, <1>5
  <2> HIDE DEF deps
  <2> QED
    BY <1>2, <2>1, <2>2, <2>3 DEF Alive, loads
<1>7. Accounts'
  BY <1>1, <1>2, <1>6, HandlesSame
<1>8. Types'
  <2>1. \A n \in DOMAIN queue' : queue'[n] \in EventType
    BY <1>4
  <2> QED
    BY <1>1, <1>2, <1>4, <1>5, <2>1 DEF Types, TypeOK, loads, EventType
<1>9. InsertsOk' /\ WaitersOk'
  BY <1>1, <1>2 DEF Base, WaitersOk, InsertsOk, loads
<1>10. ASSUME NEW x \in Ids PROVE TaskOk(x)'
  <2>1. TaskOk(x)
    BY <1>1 DEF Base
  <2>2. CASE x = i
    BY <1>2, <1>4, <1>5, <2>1, <2>2, TaskEnds
  <2>3. CASE x # i
    BY <1>2, <1>4, <1>5, <2>1, <2>3, TaskKept
  <2> QED
    BY <2>2, <2>3
<1>11. Links'
  BY <1>2, InfoSame
<1> QED
  BY <1>1, <1>4, <1>7, <1>8, <1>9, <1>10, <1>11, BaseKept DEF IInv

\* The load failed: the handles of the dependencies are dropped.
LEMMA SendFailedInv ==
    ASSUME IInv, NEW i \in Ids, SendFailed(i)
    PROVE  IInv'
<1>1. Base /\ Types /\ TypeOK
  BY DEF IInv, Base, Types
<1>2. /\ UNCHANGED <<info, index, lock, work, value, app, waiter, loads, requests>>
      /\ DropHandles /\ task[i].pc # "none" /\ task' = [task EXCEPT ![i] = NoTask]
      /\ queue' = Append(queue, Event("failed", i, {}))
  BY DEF SendFailed
<1>3. /\ queue' \in Seq(EventType) /\ EventsOk'
      /\ \A x \in Ids : Told(x)' => Told(x) \/ x = i
      /\ \A n \in DOMAIN queue : n \in DOMAIN queue' /\ queue'[n] = queue[n]
      /\ \A n \in DOMAIN queue' : n \in DOMAIN queue \/ queue'[n].deps = {}
  BY <1>1, <1>2, Sent
<1>4. /\ task' \in [Ids -> [pc : {"none", "meta", "load"}, todo : SUBSET Paths, got : SUBSET Ids]]
      /\ \A x \in Ids : x # i => task'[x] = task[x]
      /\ task'[i] = NoTask /\ task'[i].pc = "none" /\ task'[i].got = {}
  BY <1>1, <1>2 DEF TypeOK, NoTask
<1>5. ASSUME NEW x \in Ids, Alive(x)' PROVE Alive(x)
  <2>1. (\E t \in Ids : x \in task'[t].got) => \E t \in Ids : x \in task[t].got
    BY <1>4
  <2>2. (\E n \in DOMAIN queue' : x \in queue'[n].deps) => \E n \in DOMAIN queue : x \in queue[n].deps
    BY <1>3
  <2>3. task'[x].pc = "meta" => task[x].pc = "meta"
    BY <1>4
  <2> QED
    BY <1>2, <1>5, <2>1, <2>2, <2>3 DEF Alive, loads
<1>6. Accounts' /\ drops' \in [Ids -> Nat]
  BY <1>1, <1>2, <1>5, HandlesDrop DEF IInv
<1>7. Types'
  <2>1. \A n \in DOMAIN queue' : queue'[n] \in EventType
    BY <1>3
  <2> QED
    BY <1>1, <1>2, <1>3, <1>4, <1>6, <2>1 DEF Types, TypeOK, loads, EventType
<1>8. InsertsOk' /\ WaitersOk'
  BY <1>1, <1>2 DEF Base, WaitersOk, InsertsOk, loads
<1>9. ASSUME NEW x \in Ids PROVE TaskOk(x)'
  <2>1. TaskOk(x)
    BY <1>1 DEF Base
  <2>2. CASE x = i
    BY <1>2, <1>3, <1>4, <2>1, <2>2, TaskEnds
  <2>3. CASE x # i
    BY <1>2, <1>3, <1>4, <2>1, <2>3, TaskKept
  <2> QED
    BY <2>2, <2>3
<1>10. Links'
  BY <1>2, InfoSame
<1> QED
  BY <1>1, <1>3, <1>6, <1>7, <1>8, <1>9, <1>10, BaseKept DEF IInv

\* A task calls wait_for_asset, with a handle the application has.
LEMMA WaitInv ==
    ASSUME IInv, NEW w \in Waiters, NEW i \in Ids, Wait(w, i)
    PROVE  IInv'
<1>1. Base /\ Types /\ TypeOK /\ Accounts
  BY DEF IInv, Base, Types
<1>2. /\ UNCHANGED <<info, index, lock, work, queue, drops, value, app, task, loads, requests>>
      /\ waiter[w].st = "idle" /\ i \in app
      /\ waiter' = [waiter EXCEPT ![w] = [st |-> "poll", id |-> i]]
  BY DEF Wait
<1>3. /\ waiter' \in [Waiters -> [st : {"idle", "poll", "parked", "done"}, id : Ids \cup {None}]]
      /\ \A v \in Waiters : v # w => waiter'[v] = waiter[v]
      /\ waiter'[w].st = "poll" /\ waiter'[w].id = i /\ waiter[w].id = None
      /\ i # None /\ waiter \in [Waiters -> [st : {"idle", "poll", "parked", "done"}, id : Ids \cup {None}]]
  BY <1>1, <1>2, Paths1 DEF Types, Base, WaitersOk
<1>4. ASSUME NEW x \in Ids PROVE Alive(x)' <=> Alive(x)
  <2>1. x # None
    BY Paths1
  <2>2. (\E v \in Waiters : waiter'[v].id = x) <=> x = i \/ \E v \in Waiters : waiter[v].id = x
    BY <1>3, <2>1
  <2> QED
    BY <1>2, <2>2 DEF Alive, loads
<1>5. Accounts'
  BY <1>1, <1>2, <1>4, HandlesSame
<1>6. Types'
  <2>1. \A v \in Waiters : /\ waiter'[v].st \in {"idle", "poll", "parked", "done"}
                           /\ waiter'[v].id \in Ids \cup {None}
    BY <1>3
  <2> QED
    BY <1>1, <1>2, <1>3, <2>1 DEF Types, TypeOK, loads
<1>7. EventsOk' /\ InsertsOk'
  BY <1>1, <1>2 DEF Base, EventsOk, InsertsOk, loads
<1>8. WaitersOk'
  <2>1. \A v \in Waiters : waiter'[v].id = None <=> waiter'[v].st \in {"idle", "done"}
    BY <1>1, <1>3 DEF Base, WaitersOk
  <2>2. ASSUME NEW x \in Ids, info'[x] # None, NEW v \in info'[x].wait
        PROVE  waiter'[v].st = "parked" /\ waiter'[v].id = x
    <3>1. waiter[v].st = "parked" /\ waiter[v].id = x /\ v \in Waiters
      BY <1>1, <1>2, <2>2 DEF Base, WaitersOk, Types, EntryType
    <3> QED
      BY <1>2, <1>3, <3>1
  <2> QED
    BY <2>1, <2>2 DEF WaitersOk
<1>9. ASSUME NEW x \in Ids PROVE TaskOk(x)'
  BY <1>1, <1>2, ToldSame, TaskKept DEF Base
<1>10. Links'
  BY <1>2, InfoSame
<1> QED
  BY <1>1, <1>5, <1>6, <1>7, <1>8, <1>9, <1>10, BaseKept DEF IInv

\* A job releases the lock.
LEMMA EndsInv ==
    ASSUME IInv, EndEvents \/ EndDrops
    PROVE  IInv'
<1>1. Base /\ Types /\ TypeOK /\ Accounts
  BY DEF IInv, Base, Types
<1>2. /\ UNCHANGED <<info, index, work, queue, drops, value, app, task, loads, waiter, requests>>
      /\ lock' = "free"
  BY DEF EndEvents, EndDrops
<1>3. work' = {}
  BY <1>1 DEF EndEvents, EndDrops, TypeOK
<1>4. \A x \in Ids : Alive(x)' <=> Alive(x)
  BY <1>2 DEF Alive, loads
<1>5. Accounts'
  BY <1>1, <1>2, <1>4, HandlesSame
<1>6. Types'
  BY <1>1, <1>2, <1>3 DEF Types, TypeOK, loads
<1>7. EventsOk' /\ InsertsOk' /\ WaitersOk'
  BY <1>1, <1>2 DEF Base, EventsOk, InsertsOk, WaitersOk, loads
<1>8. ASSUME NEW x \in Ids PROVE TaskOk(x)'
  BY <1>1, <1>2, ToldSame, TaskKept DEF Base
<1>9. Links'
  BY <1>2, InfoSame
<1> QED
  BY <1>1, <1>5, <1>6, <1>7, <1>8, <1>9, BaseKept DEF IInv

\* The task parks itself in the entry, or returns.
LEMMA PollInv ==
    ASSUME IInv, NEW w \in Waiters, Poll(w)
    PROVE  IInv'
<1> DEFINE i == waiter[w].id
<1>1. Base /\ Types /\ TypeOK /\ Accounts
  BY DEF IInv, Base, Types
<1>2. /\ UNCHANGED <<index, lock, work, queue, value, app, task, loads, requests>>
      /\ DropHandles /\ waiter[w].st = "poll"
  BY DEF Poll
<1>3. i \in Ids /\ i # None
  BY <1>1, <1>2 DEF Base, WaitersOk, TypeOK
<1>4. /\ info' \in [Ids -> {None} \cup EntryType]
      /\ \A x \in Ids :
            /\ info'[x] = None <=> info[x] = None
            /\ info[x] # None =>
                  /\ info'[x].load = info[x].load /\ info'[x].rec = info[x].rec
                  /\ info'[x].rloading = info[x].rloading
                  /\ info'[x].rfailed = info[x].rfailed /\ info'[x].wr = info[x].wr
                  /\ info'[x].skip = info[x].skip
                  /\ \/ info'[x].wait = info[x].wait
                     \/ /\ x = i /\ info'[x].wait = info[x].wait \cup {w}
                        /\ waiter'[w].st = "parked"
  <2>1. CASE info' = info
    <3>1. info' \in [Ids -> {None} \cup EntryType]
      BY <1>1, <2>1 DEF Types
    <3> QED
      BY <2>1, <3>1
  <2>2. CASE /\ info[i] # None /\ info' = [info EXCEPT ![i].wait = @ \cup {w}]
             /\ waiter' = [waiter EXCEPT ![w].st = "parked"]
    <3> DEFINE q == [info[i] EXCEPT !.wait = @ \cup {w}]
    <3>1. info[i] \in EntryType
      BY <1>1, <1>3, <2>2 DEF Types
    <3>2. /\ q \in EntryType /\ q # None
          /\ q.load = info[i].load /\ q.rec = info[i].rec /\ q.rloading = info[i].rloading
          /\ q.rfailed = info[i].rfailed /\ q.wr = info[i].wr /\ q.skip = info[i].skip
          /\ q.wait = info[i].wait \cup {w}
      BY <3>1, Paths1, SMTT(20) DEF EntryType
    <3>3. info' = [info EXCEPT ![i] = q]
      BY <2>2
    <3>4. waiter'[w].st = "parked"
      BY <1>1, <2>2 DEF Types
    <3> HIDE DEF q
    <3>5. /\ info' \in [Ids -> {None} \cup EntryType]
          /\ \A x \in Ids : x # i => info'[x] = info[x]
          /\ info'[i] = q
      BY <1>1, <1>3, <3>2, <3>3 DEF Types
    <3> HIDE DEF i
    <3> QED
      BY <2>2, <3>2, <3>4, <3>5
  <2> QED
    BY <2>1, <2>2 DEF Poll
<1>5. /\ waiter' \in [Waiters -> [st : {"idle", "poll", "parked", "done"}, id : Ids \cup {None}]]
      /\ \A v \in Waiters : v # w => waiter'[v] = waiter[v]
      /\ \/ waiter'[w].st = "parked" /\ waiter'[w].id = i
         \/ waiter'[w].st = "done" /\ waiter'[w].id = None
  <2>1. waiter \in [Waiters -> [st : {"idle", "poll", "parked", "done"}, id : Ids \cup {None}]]
    BY <1>1 DEF Types
  <2>2. CASE waiter' = [waiter EXCEPT ![w].st = "parked"]
    <3> DEFINE q == [waiter[w] EXCEPT !.st = "parked"]
    <3>1. /\ q \in [st : {"idle", "poll", "parked", "done"}, id : Ids \cup {None}]
          /\ q.st = "parked" /\ q.id = i
      BY <2>1
    <3>2. waiter' = [waiter EXCEPT ![w] = q]
      BY <2>2
    <3> HIDE DEF q
    <3> QED
      BY <2>1, <3>1, <3>2
  <2>3. CASE waiter' = [waiter EXCEPT ![w] = [st |-> "done", id |-> None]]
    BY <2>1, <2>3
  <2> QED
    BY <2>2, <2>3 DEF Poll
<1>6. ASSUME NEW x \in Ids, Alive(x)' PROVE Alive(x)
  <2>1. x # None
    BY Paths1
  <2>2. (\E v \in Waiters : waiter'[v].id = x) => \E v \in Waiters : waiter[v].id = x
    BY <1>5, <2>1
  <2> QED
    BY <1>2, <1>6, <2>2 DEF Alive, loads
<1>7. Accounts' /\ drops' \in [Ids -> Nat]
  BY <1>1, <1>2, <1>4, <1>6, HandlesDrop DEF IInv
<1>8. Types'
  <2>1. \A v \in Waiters : /\ waiter'[v].st \in {"idle", "poll", "parked", "done"}
                           /\ waiter'[v].id \in Ids \cup {None}
    BY <1>5
  <2>2. \A x \in Ids : info'[x] = None \/ info'[x] \in EntryType
    BY <1>4
  <2> QED
    BY <1>1, <1>2, <1>4, <1>5, <1>7, <2>1, <2>2 DEF Types, TypeOK, loads
<1>9. EventsOk' /\ InsertsOk'
  BY <1>1, <1>2 DEF Base, EventsOk, InsertsOk, loads
<1>10. WaitersOk'
  <2>1. \A v \in Waiters : waiter'[v].id = None <=> waiter'[v].st \in {"idle", "done"}
    BY <1>1, <1>3, <1>5 DEF Base, WaitersOk
  <2>2. ASSUME NEW x \in Ids, info'[x] # None, NEW v \in info'[x].wait
        PROVE  waiter'[v].st = "parked" /\ waiter'[v].id = x
    <3>1. CASE v \in info[x].wait
      <4>1. waiter[v].st = "parked" /\ waiter[v].id = x /\ v \in Waiters
        BY <1>1, <1>4, <2>2, <3>1 DEF Base, WaitersOk, Types, EntryType
      <4> QED
        BY <1>2, <1>5, <4>1
    <3>2. CASE x = i /\ v = w /\ waiter'[w].st = "parked"
      BY <1>5, <3>2
    <3> QED
      BY <1>4, <2>2, <3>1, <3>2
  <2> QED
    BY <2>1, <2>2 DEF WaitersOk
<1>11. ASSUME NEW x \in Ids PROVE TaskOk(x)'
  BY <1>1, <1>2, <1>4, ToldSame, TaskKept DEF Base
<1>12. Links'
  BY <1>1, <1>2, <1>4, LinksKept DEF IInv
<1> QED
  BY <1>1, <1>7, <1>8, <1>9, <1>10, <1>11, <1>12, BaseKept DEF IInv

-----------------------------------------------------------------------------
(***************************************************************************)
(* Requests.                                                               *)
(***************************************************************************)
\* What get_or_alloc_internal does to the entry of the path, and to no other.
Got(j) ==
    /\ j \in Ids /\ work = {}
    /\ info' \in [Ids -> {None} \cup EntryType] /\ index' \in [Paths -> Nat]
    /\ \A p \in Paths : index'[p] \in 0 .. MaxEntries[p]
    /\ \A x \in Ids : x # j => info'[x] = info[x]
    /\ \A x \in Ids : x[2] > index'[x[1]] => Fresh(x)
    /\ ~(j[2] > index'[j[1]])
    /\ info[j] = None => Fresh(j)
    /\ info'[j] # None
    /\ info[j] = None => info'[j] = Entry
    /\ info[j] # None =>
          /\ info'[j].rloading = info[j].rloading /\ info'[j].rfailed = info[j].rfailed
          /\ info'[j].wr = info[j].wr /\ info'[j].wait = info[j].wait
          /\ info'[j].skip = IF Alive(j) THEN info[j].skip ELSE info[j].skip + 1
    /\ info[j] # None /\ info[j].load # "failed" =>
          info'[j].load = info[j].load /\ info'[j].rec = info[j].rec
    /\ info[j] # None /\ info[j].load = "failed" =>
          info'[j].load = "loading" /\ info'[j].rec = "loading"

\* A request gets an entry, and one that is to be loaded has no task.
LEMMA Requested ==
    ASSUME IInv, NEW p \in Paths, Room(p), GetOrAlloc(p)
    PROVE  Got(Target(p)) /\ Target(p)[1] = p
<1> DEFINE j == Target(p)
           new == info[j] = None
           load == new \/ info[j].load = "failed"
<1>1. Base /\ Types /\ TypeOK
  BY DEF IInv, Base, Types
<1>2. /\ j \in Ids /\ index[p] \in Nat
      /\ \/ info[j] # None /\ j = <<p, index[p]>>
         \/ j = <<p, index[p] + 1>>
  BY <1>1 DEF Room, Target, Types
<1>3. j[1] = p /\ j[2] \in Nat /\ j[2] \in 1 .. MaxEntries[p] /\ j[2] >= index[p] /\ MaxEntries[p] \in Nat
  BY <1>2, Paths1
<1>4. info[j] = None => Fresh(j)
  BY <1>2, <1>3 DEF Fresh
<1>5. work = {} /\ index' = [index EXCEPT ![p] = j[2]]
  BY <1>1 DEF GetOrAlloc, TypeOK
<1> DEFINE e == [info[j] EXCEPT !.skip = IF Alive(j) THEN @ ELSE @ + 1,
                                !.load = IF load THEN "loading" ELSE @,
                                !.dep = IF load THEN "loading" ELSE @,
                                !.rec = IF load THEN "loading" ELSE @]
<1>6. info' = [info EXCEPT ![j] = IF new THEN Entry ELSE e]
  BY DEF GetOrAlloc
<1>7. ~new => /\ e \in EntryType /\ e # None
              /\ e.rloading = info[j].rloading /\ e.rfailed = info[j].rfailed
              /\ e.wr = info[j].wr /\ e.wait = info[j].wait
              /\ e.skip = (IF Alive(j) THEN info[j].skip ELSE info[j].skip + 1)
              /\ e.load = (IF load THEN "loading" ELSE info[j].load)
              /\ e.rec = (IF load THEN "loading" ELSE info[j].rec)
  <2> DEFINE me == info[j]
             n == IF Alive(j) THEN me.skip ELSE me.skip + 1
             g == load
  <2>1. ~new => me \in EntryType /\ n \in Nat
    BY <1>1, <1>2 DEF Types, EntryType
  <2>2. e = [me EXCEPT !.skip = n, !.load = IF g THEN "loading" ELSE @,
                       !.dep = IF g THEN "loading" ELSE @, !.rec = IF g THEN "loading" ELSE @]
    OBVIOUS
  <2>3. g \in BOOLEAN /\ (g <=> load)
    OBVIOUS
  <2> HIDE DEF me, n, g, e, new, load
  <2>4. ~new => /\ e \in EntryType
                /\ e.rloading = me.rloading /\ e.rfailed = me.rfailed
                /\ e.wr = me.wr /\ e.wait = me.wait /\ e.skip = n
                /\ e.load = (IF g THEN "loading" ELSE me.load)
                /\ e.rec = (IF g THEN "loading" ELSE me.rec)
    <3> HAVE ~new
    <3>1. me \in EntryType /\ n \in Nat
      BY <2>1
    <3>2. CASE g
      BY <3>1, <2>2, <3>2 DEF EntryType, LoadStates
    <3>3. CASE ~g
      BY <3>1, <2>2, <3>3 DEF EntryType, LoadStates
    <3> QED
      BY <2>3, <3>2, <3>3
  <2> QED
    BY <2>4, Paths1 DEF me, n, g
<1>8. Entry \in EntryType /\ Entry # None
  BY Paths1 DEF Entry, EntryType, LoadStates
<1> HIDE DEF e
<1>9. /\ info' \in [Ids -> {None} \cup EntryType]
      /\ \A x \in Ids : x # j => info'[x] = info[x]
      /\ info'[j] # None /\ info'[j] = IF new THEN Entry ELSE e
  BY <1>1, <1>2, <1>6, <1>7, <1>8 DEF Types
<1>10. /\ index' \in [Paths -> Nat] /\ \A q \in Paths : index'[q] \in 0 .. MaxEntries[q]
       /\ \A q \in Paths : index'[q] = IF q = p THEN j[2] ELSE index[q]
  BY <1>1, <1>3, <1>5 DEF Types, TypeOK
<1>11. ASSUME NEW x \in Ids, x[2] > index'[x[1]] PROVE Fresh(x)
  BY <1>3, <1>10, <1>11, <1>2, Paths1 DEF Fresh
<1>12. ~(j[2] > index'[j[1]])
  BY <1>3, <1>10
<1>13. ~new => /\ info'[j].rloading = info[j].rloading /\ info'[j].rfailed = info[j].rfailed
               /\ info'[j].wr = info[j].wr /\ info'[j].wait = info[j].wait
               /\ info'[j].skip = IF Alive(j) THEN info[j].skip ELSE info[j].skip + 1
               /\ info'[j].load = IF load THEN "loading" ELSE info[j].load
               /\ info'[j].rec = IF load THEN "loading" ELSE info[j].rec
  BY <1>7, <1>9
<1>14. new => info'[j] = Entry
  BY <1>9
<1> QED
  BY <1>2, <1>3, <1>4, <1>5, <1>9, <1>10, <1>11, <1>12, <1>13, <1>14 DEF Got

\* An entry that is to be loaded is no task's, and no outcome of one waits.
LEMMA NoTaskYet ==
    ASSUME IInv, NEW j \in Ids, Got(j), ShouldLoad(j)
    PROVE  task[j] = NoTask /\ ~Told(j)
<1>1. TaskOk(j)
  BY DEF IInv, Base
<1> QED
  BY <1>1 DEF TaskOk, ShouldLoad, Got

\* The request makes a handle, and has the drop under way skipped.
LEMMA RequestAccounts ==
    ASSUME IInv, NEW j \in Ids, Got(j), drops' = drops, Alive(j)',
           \A x \in Ids : x # j => (Alive(x)' <=> Alive(x))
    PROVE  Accounts'
<1>1. Types /\ Accounts
  BY DEF IInv, Base
<1>2. \A x \in Ids : info[x] # None => info[x].skip \in Nat
  BY <1>1 DEF Types, EntryType
<1> SUFFICES ASSUME NEW x \in Ids PROVE Account(x)' /\ Held(x)'
  BY DEF Accounts
<1>3. Account(x) /\ Held(x)
  BY <1>1 DEF Accounts
<1>4. CASE x # j
  BY <1>3, <1>4 DEF Account, Held, Got
<1>5. CASE x = j
  <2>1. info'[j] # None
    BY DEF Got
  <2>2. CASE info[j] = None
    <3>1. drops[j] = 0 /\ info'[j].skip = 0
      BY <1>3, <1>5, <2>2 DEF Account, Got, Entry
    <3> QED
      BY <1>5, <2>1, <3>1 DEF Account, Held
  <2>3. CASE info[j] # None /\ Alive(j)
    <3>1. drops[j] = info[j].skip /\ info'[j].skip = info[j].skip
      BY <1>2, <1>3, <1>5, <2>3 DEF Account, Got
    <3> QED
      BY <1>2, <1>5, <2>1, <2>3, <3>1 DEF Account, Held
  <2>4. CASE info[j] # None /\ ~Alive(j)
    <3>1. drops[j] = info[j].skip + 1 /\ info'[j].skip = info[j].skip + 1
      BY <1>2, <1>3, <1>5, <2>4 DEF Account, Got
    <3> QED
      BY <1>2, <1>5, <2>1, <2>4, <3>1 DEF Account, Held
  <2> QED
    BY <2>2, <2>3, <2>4
<1> QED
  BY <1>4, <1>5

\* Nothing that is linked changes but an entry that has failed, which nobody
\* waits for any more.
LEMMA RequestLinks ==
    ASSUME IInv, NEW j \in Ids, Got(j), value' = value, work' = work
    PROVE  Links'
<1>1. Base /\ Types /\ work = {} /\ work' = {} /\ Links
  BY DEF IInv, Base, Got
<1>2. \A x \in Ids : StatesOk(x) /\ ValueOk(x) /\ WaitOk(x) /\ TaskOk(x)
  BY <1>1 DEF Links, Base
<1>3. \A x \in Ids : x # j => info'[x] = info[x]
  BY DEF Got
<1>4. CASE info[j] = None \/ info[j].load = "failed"
  <2>1. /\ info'[j] # None /\ info'[j].load = "loading" /\ info'[j].rec = "loading"
        /\ info'[j].wr = {} /\ (info[j] = None \/ info[j].rec = "failed")
    BY <1>2, <1>4 DEF Got, StatesOk, Entry
  <2>2. \A d \in Ids : info[d] # None => j \notin info[d].wr
    <3>1. CASE info[j] = None
      BY <1>2, <3>1 DEF Got, TaskOk
    <3>2. CASE info[j] # None /\ info[j].load = "failed"
      BY <1>2, <3>2 DEF WaitOk
    <3> QED
      BY <1>4, <3>1, <3>2
  <2>3. WorkOk'
    BY <1>1 DEF WorkOk
  <2>4. ASSUME NEW x \in Ids PROVE StatesOk(x)'
    BY <1>2, <1>3, <2>1 DEF StatesOk
  <2>5. ASSUME NEW x \in Ids PROVE ValueOk(x)'
    <3>1. CASE x = j
      BY <2>1, <3>1 DEF ValueOk
    <3>2. CASE x # j
      <4> SUFFICES ASSUME info[x] # None, info[x].load = "loaded"
                   PROVE  /\ value[x] # None /\ info[x].rloading \subseteq value[x]
                          /\ \A d \in value[x] : \/ d \in info[x].rloading \cup info[x].rfailed
                                                 \/ info'[d] # None /\ info'[d].rec = "loaded"
                          /\ \A d \in info[x].rloading :
                                info'[d] # None /\ info'[d].rec = "loading" /\ x \in info'[d].wr
        BY <1>1, <1>3, <3>2 DEF ValueOk
      <4>1. value[x] # None /\ value[x] \subseteq Ids /\ info[x].rloading \subseteq value[x]
        BY <1>1, <1>2 DEF ValueOk, Types
      <4>2. ASSUME NEW d \in value[x]
            PROVE  \/ d \in info[x].rloading \cup info[x].rfailed
                   \/ info'[d] # None /\ info'[d].rec = "loaded"
        BY <1>2, <1>3, <2>1, <4>1 DEF ValueOk
      <4>3. ASSUME NEW d \in info[x].rloading
            PROVE  info'[d] # None /\ info'[d].rec = "loading" /\ x \in info'[d].wr
        <5>1. d \in Ids /\ info[d] # None /\ info[d].rec = "loading" /\ x \in info[d].wr
          BY <1>1, <1>2, <4>1 DEF ValueOk
        <5> QED
          BY <1>3, <2>1, <5>1
      <4> QED
        BY <4>1, <4>2, <4>3
    <3> QED
      BY <3>1, <3>2
  <2>6. ASSUME NEW x \in Ids PROVE WaitOk(x)'
    <3> SUFFICES ASSUME info'[x] # None, NEW d \in Ids, info'[d] # None, x \in info'[d].wr
                 PROVE  info'[x].load = "loaded" /\ d \in info'[x].rloading
      BY <1>1 DEF WaitOk
    <3>1. d # j /\ info'[d] = info[d]
      BY <1>3, <2>1
    <3>2. x # j /\ info'[x] = info[x]
      BY <1>3, <2>2, <3>1
    <3> QED
      BY <1>2, <3>1, <3>2 DEF WaitOk
  <2> QED
    BY <2>3, <2>4, <2>5, <2>6 DEF Links
<1>5. CASE info[j] # None /\ info[j].load # "failed"
  <2>1. \A x \in Ids :
              /\ info'[x] = None <=> info[x] = None
              /\ info[x] # None =>
                    /\ info'[x].load = info[x].load /\ info'[x].rec = info[x].rec
                    /\ info'[x].rloading = info[x].rloading
                    /\ info'[x].rfailed = info[x].rfailed /\ info'[x].wr = info[x].wr
    BY <1>5 DEF Got
  <2> QED
    BY <1>1, <2>1, LinksKept
<1> QED
  BY <1>4, <1>5

\* A request leaves every task an entry of its own.
LEMMA RequestTask ==
    ASSUME IInv, NEW j \in Ids, Got(j), queue' = queue, NEW x \in Ids,
           task'[x].pc = (IF x = j /\ ShouldLoad(j) THEN "meta" ELSE task[x].pc),
           task'[x].pc = "none" => task'[x] = NoTask,
           task'[x].todo \subseteq Deps[x[1]], \A d \in task'[x].got : d[1] \in Deps[x[1]]
    PROVE  TaskOk(x)'
<1>1. TaskOk(x) /\ (Told(x)' <=> Told(x))
  BY ToldSame DEF IInv, Base
<1>2. CASE x = j
  <2>1. ~(Fresh(x)')
    BY <1>2 DEF Got, Fresh
  <2>2. CASE ShouldLoad(j)
    BY <1>1, <1>2, <2>1, <2>2, NoTaskYet DEF TaskOk, Got, ShouldLoad, Entry
  <2>3. CASE ~ShouldLoad(j)
    BY <1>1, <1>2, <2>1, <2>3 DEF TaskOk, Got, ShouldLoad
  <2> QED
    BY <2>2, <2>3
<1>3. CASE x # j
  <2>1. Fresh(x)' => Fresh(x)
    BY DEF Got, Fresh
  <2>2. info'[x] = info[x] /\ task'[x].pc = task[x].pc
    BY <1>3 DEF Got
  <2>3. \A d \in Ids : info'[d] # None /\ x \in info'[d].wr => info[d] # None /\ x \in info[d].wr
    BY DEF Got, Entry
  <2> QED
    BY <1>1, <2>1, <2>2, <2>3 DEF TaskOk
<1> QED
  BY <1>2, <1>3

\* The task is spawned, and is about to be inserted.
LEMMA SpawnFacts ==
    ASSUME Base, NEW r \in Requesters, NEW j \in Ids, Spawn(r, j)
    PROVE  /\ insert' \in [Requesters -> [id : Ids \cup {None}, old : BOOLEAN]]
           /\ pending' \subseteq Ids /\ InsertsOk'
           /\ \A x \in Ids : x # j =>
                 ((\E s \in Requesters : insert'[s].id = x) <=> \E s \in Requesters : insert[s].id = x)
<1>1. /\ insert \in [Requesters -> [id : Ids \cup {None}, old : BOOLEAN]]
      /\ pending \subseteq Ids /\ InsertsOk /\ insert[r] = NoInsert /\ insert[r].id = None
  BY DEF Base, Types, TypeOK, Spawn, NoInsert
<1>2. CASE UNCHANGED <<insert, pending>>
  BY <1>1, <1>2 DEF InsertsOk
<1>3. CASE /\ pending' = pending \ {j}
           /\ insert' = [s \in Requesters |->
                  IF s = r THEN [id |-> j, old |-> FALSE]
                  ELSE [insert[s] EXCEPT !.old = @ \/ insert[s].id = j]]
  <2>1. pending' \subseteq Ids
    BY <1>1, <1>3
  <2>2. insert'[r].id = j /\ insert'[r].old = FALSE
    BY <1>3
  <2>3. ASSUME NEW s \in Requesters, s # r
        PROVE  /\ insert'[s] \in [id : Ids \cup {None}, old : BOOLEAN]
               /\ insert'[s].id = insert[s].id
               /\ insert[s].id # j => insert'[s] = insert[s]
    <3> DEFINE q == insert[s]
               o == q.old \/ q.id = j
               n == [q EXCEPT !.old = o]
    <3>1. insert'[s] = n
      BY <1>3, <2>3
    <3>2. q \in [id : Ids \cup {None}, old : BOOLEAN] /\ o \in BOOLEAN
      BY <1>1
    <3>3. q.id # j => o = q.old
      BY <3>2
    <3> HIDE DEF q, o
    <3>4. n \in [id : Ids \cup {None}, old : BOOLEAN] /\ n.id = q.id /\ (o = q.old => n = q)
      BY <3>2
    <3> HIDE DEF n
    <3> QED
      BY <3>1, <3>3, <3>4 DEF q
  <2>4. insert' \in [Requesters -> [id : Ids \cup {None}, old : BOOLEAN]]
    <3>1. insert'[r] \in [id : Ids \cup {None}, old : BOOLEAN]
      BY <1>3
    <3>2. insert' = [s \in Requesters |-> insert'[s]]
      BY <1>3
    <3> QED
      BY <2>3, <3>1, <3>2
  <2>5. InsertsOk'
    <3>1. j # None
      BY Paths1
    <3> QED
      BY <1>1, <2>2, <2>3, <3>1 DEF InsertsOk
  <2>6. \A x \in Ids : x # j =>
             ((\E s \in Requesters : insert'[s].id = x) <=> \E s \in Requesters : insert[s].id = x)
    BY <1>1, <2>2, <2>3, Paths1
  <2> QED
    BY <2>1, <2>4, <2>5, <2>6
<1> QED
  BY <1>2, <1>3 DEF Spawn

\* What a request leaves of the events and of the tasks that wait.
LEMMA RequestWaits ==
    ASSUME IInv, NEW j \in Ids, Got(j), queue' = queue, waiter' = waiter
    PROVE  EventsOk' /\ WaitersOk'
<1>1. EventsOk'
  BY ToldSame DEF IInv, Base
<1>2. \A x \in Ids : info'[x] # None => info'[x].wait = {} \/ (info[x] # None /\ info'[x].wait = info[x].wait)
  BY DEF Got, Entry
<1>3. WaitersOk'
  BY <1>2 DEF IInv, Base, WaitersOk
<1> QED
  BY <1>1, <1>3

\* The task a request spawns.
LEMMA SpawnedTask ==
    ASSUME IInv, NEW j \in Ids, Got(j)
    PROVE  /\ Spawned(j) \in [Ids -> [pc : {"none", "meta", "load"}, todo : SUBSET Paths, got : SUBSET Ids]]
           /\ \A x \in Ids : /\ Spawned(j)[x].pc = (IF x = j /\ ShouldLoad(j) THEN "meta" ELSE task[x].pc)
                             /\ Spawned(j)[x].todo = task[x].todo /\ Spawned(j)[x].got = task[x].got
                             /\ Spawned(j)[x].pc = "none" => Spawned(j)[x] = NoTask
<1>1. task \in [Ids -> [pc : {"none", "meta", "load"}, todo : SUBSET Paths, got : SUBSET Ids]]
  BY DEF IInv, Base, Types, TypeOK
<1>2. \A x \in Ids : task[x].pc = "none" => task[x] = NoTask
  BY DEF IInv, Base, TaskOk
<1>3. CASE ShouldLoad(j)
  <2>1. task[j] = NoTask
    BY <1>3, NoTaskYet
  <2> DEFINE q == [NoTask EXCEPT !.pc = "meta"]
  <2>2. /\ q \in [pc : {"none", "meta", "load"}, todo : SUBSET Paths, got : SUBSET Ids]
        /\ q.pc = "meta" /\ q.todo = task[j].todo /\ q.got = task[j].got
    BY <2>1 DEF NoTask
  <2>3. Spawned(j) = [task EXCEPT ![j] = q]
    BY <1>3 DEF Spawned
  <2> HIDE DEF q
  <2> QED
    BY <1>1, <1>2, <1>3, <2>2, <2>3
<1>4. CASE ~ShouldLoad(j)
  BY <1>1, <1>2, <1>4 DEF Spawned
<1> QED
  BY <1>3, <1>4

\* The application requests an asset.
LEMMA LoadInv ==
    ASSUME IInv, NEW p \in Paths, Load(p)
    PROVE  IInv'
<1>1. PICK j : j = Target(p)
  OBVIOUS
<1>2. /\ requests < MaxRequests /\ requests' = requests + 1
      /\ Room(p) /\ GetOrAlloc(p) /\ Spawn(App, j)
      /\ app' = app \cup {j} /\ task' = Spawned(j)
      /\ UNCHANGED <<lock, work, queue, drops, value, lost, waiter>>
  BY <1>1 DEF Load
<1>3. Got(j) /\ j \in Ids
  BY <1>1, <1>2, Requested DEF Got
<1>4. Base /\ Types /\ TypeOK
  BY DEF IInv, Base, Types
<1>5. /\ insert' \in [Requesters -> [id : Ids \cup {None}, old : BOOLEAN]]
      /\ pending' \subseteq Ids /\ InsertsOk'
      /\ \A x \in Ids : x # j =>
            ((\E s \in Requesters : insert'[s].id = x) <=> \E s \in Requesters : insert[s].id = x)
  BY <1>2, <1>3, <1>4, SpawnFacts DEF Requesters
<1>6. /\ task' \in [Ids -> [pc : {"none", "meta", "load"}, todo : SUBSET Paths, got : SUBSET Ids]]
      /\ \A x \in Ids : /\ task'[x].pc = (IF x = j /\ ShouldLoad(j) THEN "meta" ELSE task[x].pc)
                        /\ task'[x].todo = task[x].todo /\ task'[x].got = task[x].got
                        /\ task'[x].pc = "none" => task'[x] = NoTask
  BY <1>2, <1>3, SpawnedTask
<1>7. Types'
  <2>1. info' \in [Ids -> {None} \cup EntryType] /\ index' \in [Paths -> Nat]
        /\ \A q \in Paths : index'[q] \in 0 .. MaxEntries[q]
    BY <1>3 DEF Got
  <2>2. \A x \in Ids : info'[x] = None \/ info'[x] \in EntryType
    BY <2>1
  <2>3. app' \subseteq Ids /\ requests' \in 0 .. MaxRequests
    BY <1>2, <1>3, <1>4, ServerAssumption DEF TypeOK
  <2> QED
    BY <1>2, <1>4, <1>5, <1>6, <2>1, <2>2, <2>3 DEF Types, TypeOK
<1>8. EventsOk' /\ WaitersOk'
  BY <1>2, <1>3, RequestWaits
<1>9. ASSUME NEW x \in Ids PROVE TaskOk(x)'
  <2>1. task[x].todo \subseteq Deps[x[1]] /\ \A d \in task[x].got : d[1] \in Deps[x[1]]
    BY <1>4 DEF Base, TaskOk
  <2> QED
    BY <1>2, <1>3, <1>6, <2>1, RequestTask
<1>10. Accounts'
  <2>1. Alive(j)'
    BY <1>2 DEF Alive
  <2>2. ASSUME NEW x \in Ids, x # j PROVE Alive(x)' <=> Alive(x)
    <3>1. (\E t \in Ids : x \in task'[t].got) <=> \E t \in Ids : x \in task[t].got
      BY <1>6
    <3>2. task'[x].pc = "meta" <=> task[x].pc = "meta"
      BY <1>6, <2>2
    <3>3. x \in app' <=> x \in app
      BY <1>2, <2>2
    <3>4. (\E s \in Requesters : insert'[s].id = x) <=> \E s \in Requesters : insert[s].id = x
      BY <1>5, <2>2
    <3> QED
      BY <1>2, <3>1, <3>2, <3>3, <3>4 DEF Alive
  <2> QED
    BY <1>2, <1>3, <2>1, <2>2, RequestAccounts
<1>11. Links'
  BY <1>2, <1>3, RequestLinks
<1> QED
  BY <1>4, <1>5, <1>7, <1>8, <1>9, <1>10, <1>11, BaseKept DEF IInv

\* The loader of an asset requests a dependency.
LEMMA LoadDepInv ==
    ASSUME IInv, NEW i \in Ids, NEW q \in Paths, LoadDep(i, q)
    PROVE  IInv'
<1>1. PICK j : j = Target(q)
  OBVIOUS
<1>2. /\ task[i].pc = "load" /\ q \in task[i].todo
      /\ Room(q) /\ GetOrAlloc(q) /\ Spawn(i, j)
      /\ task' = [Spawned(j) EXCEPT
                     ![i] = [task[i] EXCEPT !.todo = @ \ {q}, !.got = @ \cup {j}]]
      /\ UNCHANGED <<lock, work, queue, drops, value, app, lost, waiter, requests>>
  BY <1>1 DEF LoadDep
<1>3. Got(j) /\ j \in Ids /\ j[1] = q
  BY <1>1, <1>2, Requested DEF Got
<1>4. Base /\ Types /\ TypeOK
  BY DEF IInv, Base, Types
<1>5. /\ insert' \in [Requesters -> [id : Ids \cup {None}, old : BOOLEAN]]
      /\ pending' \subseteq Ids /\ InsertsOk'
      /\ \A x \in Ids : x # j =>
            ((\E s \in Requesters : insert'[s].id = x) <=> \E s \in Requesters : insert[s].id = x)
  BY <1>2, <1>3, <1>4, SpawnFacts DEF Requesters
<1>6. q \in Deps[i[1]] /\ i # j
  <2>1. q \in Deps[i[1]]
    BY <1>2, <1>4 DEF Base, TaskOk
  <2> QED
    BY <1>3, <2>1, Paths1
<1>7. /\ task' \in [Ids -> [pc : {"none", "meta", "load"}, todo : SUBSET Paths, got : SUBSET Ids]]
      /\ \A x \in Ids :
            /\ task'[x].pc = (IF x = j /\ ShouldLoad(j) THEN "meta" ELSE task[x].pc)
            /\ task'[x].todo \subseteq task[x].todo
            /\ task'[x].got = (IF x = i THEN task[i].got \cup {j} ELSE task[x].got)
            /\ task'[x].pc = "none" => task'[x] = NoTask
  <2> DEFINE f == Spawned(j)
             g == task[i]
             h == [g EXCEPT !.todo = @ \ {q}, !.got = @ \cup {j}]
  <2>1. /\ f \in [Ids -> [pc : {"none", "meta", "load"}, todo : SUBSET Paths, got : SUBSET Ids]]
        /\ \A x \in Ids : /\ f[x].pc = (IF x = j /\ ShouldLoad(j) THEN "meta" ELSE task[x].pc)
                          /\ f[x].todo = task[x].todo /\ f[x].got = task[x].got
                          /\ f[x].pc = "none" => f[x] = NoTask
    BY <1>3, SpawnedTask
  <2>2. task' = [f EXCEPT ![i] = h]
    BY <1>2
  <2> HIDE DEF f
  <2>3. g \in [pc : {"none", "meta", "load"}, todo : SUBSET Paths, got : SUBSET Ids] /\ g.pc = "load"
    BY <1>2, <1>4 DEF TypeOK
  <2>4. g.todo = task[i].todo /\ g.got = task[i].got
    OBVIOUS
  <2> HIDE DEF g
  <2>5. /\ h \in [pc : {"none", "meta", "load"}, todo : SUBSET Paths, got : SUBSET Ids]
        /\ h.pc = "load" /\ h.todo \subseteq task[i].todo /\ h.got = task[i].got \cup {j}
    BY <1>3, <2>3, <2>4
  <2> HIDE DEF h
  <2>6. task'[i] = h /\ \A x \in Ids : x # i => task'[x] = f[x]
    BY <2>1, <2>2
  <2>7. task' \in [Ids -> [pc : {"none", "meta", "load"}, todo : SUBSET Paths, got : SUBSET Ids]]
    BY <2>1, <2>2, <2>5
  <2>8. task[i].pc = "load"
    BY <1>2
  <2>9. ASSUME NEW x \in Ids
        PROVE  /\ task'[x].pc = (IF x = j /\ ShouldLoad(j) THEN "meta" ELSE task[x].pc)
               /\ task'[x].todo \subseteq task[x].todo
               /\ task'[x].got = (IF x = i THEN task[i].got \cup {j} ELSE task[x].got)
               /\ task'[x].pc = "none" => task'[x] = NoTask
    <3>1. CASE x = i
      BY <1>6, <2>5, <2>6, <2>8, <3>1
    <3>2. CASE x # i
      BY <2>1, <2>6, <3>2
    <3> QED
      BY <3>1, <3>2
  <2> QED
    BY <2>7, <2>9
<1>8. Types'
  <2>1. info' \in [Ids -> {None} \cup EntryType] /\ index' \in [Paths -> Nat]
        /\ \A p \in Paths : index'[p] \in 0 .. MaxEntries[p]
    BY <1>3 DEF Got
  <2>2. \A x \in Ids : info'[x] = None \/ info'[x] \in EntryType
    BY <2>1
  <2> QED
    BY <1>2, <1>4, <1>5, <1>7, <2>1, <2>2 DEF Types, TypeOK
<1>9. EventsOk' /\ WaitersOk'
  BY <1>2, <1>3, RequestWaits
<1>10. ASSUME NEW x \in Ids PROVE TaskOk(x)'
  <2>1. task[x].todo \subseteq Deps[x[1]] /\ \A d \in task[x].got : d[1] \in Deps[x[1]]
    BY <1>4 DEF Base, TaskOk
  <2>2. task'[x].todo \subseteq Deps[x[1]]
    BY <1>7, <2>1
  <2>3. \A d \in task'[x].got : d[1] \in Deps[x[1]]
    BY <1>3, <1>6, <1>7, <2>1
  <2>4. /\ task'[x].pc = (IF x = j /\ ShouldLoad(j) THEN "meta" ELSE task[x].pc)
        /\ task'[x].pc = "none" => task'[x] = NoTask
    BY <1>7
  <2> QED
    BY <1>2, <1>3, <2>2, <2>3, <2>4, RequestTask
<1>11. Accounts'
  <2>1. Alive(j)'
    <3>1. j \in task'[i].got
      BY <1>7
    <3> QED
      BY <3>1 DEF Alive
  <2>2. ASSUME NEW x \in Ids, x # j PROVE Alive(x)' <=> Alive(x)
    <3>1. (\E t \in Ids : x \in task'[t].got) <=> \E t \in Ids : x \in task[t].got
      BY <1>7, <2>2
    <3>2. task'[x].pc = "meta" <=> task[x].pc = "meta"
      BY <1>7, <2>2
    <3>3. (\E s \in Requesters : insert'[s].id = x) <=> \E s \in Requesters : insert[s].id = x
      BY <1>5, <2>2
    <3> QED
      BY <1>2, <3>1, <3>2, <3>3 DEF Alive
  <2> QED
    BY <1>2, <1>3, <2>1, <2>2, RequestAccounts
<1>12. Links'
  BY <1>2, <1>3, RequestLinks
<1> QED
  BY <1>4, <1>5, <1>8, <1>9, <1>10, <1>11, <1>12, BaseKept DEF IInv

-----------------------------------------------------------------------------
(***************************************************************************)
(* Events.                                                                 *)
(***************************************************************************)
\* The job takes an event off the queue, and may put a FullyLoaded one in.
LEMMA Popped ==
    ASSUME Base, queue # <<>>, NEW i \in Ids,
           \/ queue' = Tail(queue)
           \/ queue' = Append(Tail(queue), Event("fully", i, {}))
    PROVE  /\ queue' \in Seq(EventType) /\ EventsOk'
           /\ \A x \in Ids : Told(x)' => Told(x)
           /\ \A x \in Ids : x = Head(queue).id /\ Head(queue).k # "fully" => ~Told(x)'
           /\ \A n \in DOMAIN queue' : \A x \in queue'[n].deps :
                 \E m \in DOMAIN queue : x \in queue[m].deps
<1> DEFINE t == Tail(queue)
           e == Event("fully", i, {})
<1>1. Types /\ EventsOk
  BY DEF Base
<1>2. /\ Head(queue) \in EventType /\ t \in Seq(EventType)
      /\ DOMAIN t = 1 .. Len(queue) - 1 /\ Len(queue) \in Nat \ {0}
      /\ DOMAIN queue = 1 .. Len(queue) /\ Head(queue) = queue[1]
      /\ \A n \in DOMAIN t : n + 1 \in DOMAIN queue /\ t[n] = queue[n + 1]
  BY <1>1, QueueTail
<1>3. e \in EventType /\ e.k = "fully" /\ e.deps = {} /\ e.id = i
  BY DEF Event, EventType
<1>4. \A n \in DOMAIN t : n + 1 \in DOMAIN queue /\ n + 1 # 1 /\ n \in Int
  BY <1>2
<1> HIDE DEF t, e
<1>5. /\ queue' \in Seq(EventType)
      /\ \A n \in DOMAIN queue' : \/ n \in DOMAIN t /\ queue'[n] = t[n]
                                  \/ queue'[n] = e
  <2>1. CASE queue' = t
    BY <1>2, <2>1
  <2>2. CASE queue' = Append(t, e)
    <3>1. /\ Append(t, e) \in Seq(EventType)
          /\ DOMAIN Append(t, e) = DOMAIN t \cup {Len(t) + 1}
          /\ Append(t, e)[Len(t) + 1] = e
          /\ \A n \in DOMAIN t : Append(t, e)[n] = t[n]
      BY <1>2, <1>3, QueueAppend
    <3> QED
      BY <2>2, <3>1
  <2>3. queue' = t \/ queue' = Append(t, e)
    BY DEF t, e
  <2> QED
    BY <2>1, <2>2, <2>3
<1>6. \A n \in DOMAIN queue' : queue'[n].k # "fully" => n \in DOMAIN t /\ queue'[n] = queue[n + 1]
  BY <1>2, <1>3, <1>5
<1>7. EventsOk'
  <2>1. ASSUME NEW m \in DOMAIN queue', NEW n \in DOMAIN queue', queue'[m].id = queue'[n].id,
               queue'[m].k # "fully", queue'[n].k # "fully"
        PROVE  m = n
    <3>1. m + 1 = n + 1 /\ m \in Int /\ n \in Int
      BY <1>1, <1>4, <1>6, <2>1 DEF EventsOk
    <3> QED
      BY <3>1
  <2>2. ASSUME NEW n \in DOMAIN queue', NEW d \in queue'[n].deps
        PROVE  d[1] \in Deps[queue'[n].id[1]]
    <3>1. n \in DOMAIN t /\ queue'[n] = queue[n + 1] /\ n + 1 \in DOMAIN queue
      BY <1>2, <1>3, <1>4, <1>5, <2>2
    <3> QED
      BY <1>1, <2>2, <3>1 DEF EventsOk
  <2> QED
    BY <2>1, <2>2 DEF EventsOk
<1>8. ASSUME NEW x \in Ids, Told(x)' PROVE Told(x) /\ (Head(queue).k # "fully" => x # Head(queue).id)
  <2>1. PICK n \in DOMAIN queue' : queue'[n].id = x /\ queue'[n].k # "fully"
    BY <1>8 DEF Told
  <2>2. n + 1 \in DOMAIN queue /\ n + 1 # 1 /\ queue[n + 1].id = x /\ queue[n + 1].k # "fully"
    BY <1>4, <1>6, <2>1
  <2>3. 1 \in DOMAIN queue /\ Head(queue) = queue[1]
    BY <1>2
  <2> QED
    BY <1>1, <2>2, <2>3 DEF Told, EventsOk
<1>9. ASSUME NEW n \in DOMAIN queue', NEW x \in queue'[n].deps
      PROVE  \E m \in DOMAIN queue : x \in queue[m].deps
  BY <1>2, <1>3, <1>5, <1>9
<1> QED
  BY <1>5, <1>7, <1>8, <1>9

\* Tasks that wait for an entry are woken, all of them.
LEMMA Woken ==
    ASSUME Base, NEW i \in Ids, NEW S,
           \/ S = {}
           \/ info[i] # None /\ S = info[i].wait /\ (info'[i] # None => info'[i].wait = {}),
           waiter' = Wake(S),
           \A x \in Ids : info'[x] # None => info[x] # None /\ info'[x].wait \subseteq info[x].wait
    PROVE  /\ WaitersOk'
           /\ waiter' \in [Waiters -> [st : {"idle", "poll", "parked", "done"}, id : Ids \cup {None}]]
           /\ \A w \in Waiters : waiter'[w].id = waiter[w].id
<1>1. /\ waiter \in [Waiters -> [st : {"idle", "poll", "parked", "done"}, id : Ids \cup {None}]]
      /\ WaitersOk
      /\ \A x \in Ids : info[x] # None => info[x].wait \subseteq Waiters
  BY DEF Base, Types, EntryType
<1>2. S \subseteq Waiters /\ \A w \in S : waiter[w].st = "parked" /\ waiter[w].id = i
  BY <1>1 DEF WaitersOk
<1>3. \A w \in Waiters :
         /\ waiter'[w].id = waiter[w].id
         /\ w \in S => waiter'[w].st = "poll"
         /\ w \notin S => waiter'[w] = waiter[w]
         /\ waiter'[w] \in [st : {"idle", "poll", "parked", "done"}, id : Ids \cup {None}]
  BY <1>1 DEF Wake
<1>4. waiter' \in [Waiters -> [st : {"idle", "poll", "parked", "done"}, id : Ids \cup {None}]]
  BY <1>3 DEF Wake
<1>5. \A w \in Waiters : waiter'[w].id = None <=> waiter'[w].st \in {"idle", "done"}
  <2> SUFFICES ASSUME NEW w \in Waiters PROVE waiter'[w].id = None <=> waiter'[w].st \in {"idle", "done"}
    OBVIOUS
  <2>1. waiter[w].id = None <=> waiter[w].st \in {"idle", "done"}
    BY <1>1 DEF WaitersOk
  <2>2. CASE w \in S
    BY <1>2, <1>3, <2>1, <2>2
  <2>3. CASE w \notin S
    BY <1>3, <2>1, <2>3
  <2> QED
    BY <2>2, <2>3
<1>6. ASSUME NEW x \in Ids, info'[x] # None, NEW w \in info'[x].wait
      PROVE  waiter'[w].st = "parked" /\ waiter'[w].id = x
  <2>1. waiter[w].st = "parked" /\ waiter[w].id = x /\ w \in Waiters
    BY <1>1, <1>6 DEF WaitersOk
  <2>2. w \notin S
    BY <1>2, <1>6, <2>1
  <2> QED
    BY <1>3, <2>1, <2>2
<1> QED
  BY <1>3, <1>4, <1>5, <1>6 DEF WaitersOk

\* What every event is applied to: i is the asset of the event, S who is woken.
Applied(i, S) ==
    /\ queue # <<>> /\ i = Head(queue).id /\ lock' = "events"
    /\ UNCHANGED <<index, app, task, loads, requests>> /\ DropHandles
    /\ queue' = Tail(queue) \/ queue' = Append(Tail(queue), Event("fully", i, {}))
    /\ info' \in [Ids -> {None} \cup EntryType]
    /\ value' \in [Ids -> {None} \cup SUBSET Ids]
    /\ work' \subseteq {"loaded", "failed"} \X Ids \X Ids
    /\ \A x \in Ids : /\ info'[x] = None <=> info[x] = None
                      /\ info[x] # None => /\ info'[x].skip = info[x].skip
                                           /\ info'[x].wait \subseteq info[x].wait
    /\ \A x \in Ids : info[x] # None /\ (x # i \/ Head(queue).k = "fully") =>
                         info'[x].load = info[x].load
    /\ \A d, x \in Ids :
          (info'[d] # None /\ x \in info'[d].wr /\ (x # i \/ info[i] = None)) => x \in info[d].wr
    /\ \A v \in Ids : value'[v] = value[v] \/ value'[v] = Head(queue).deps
    /\ waiter' = Wake(S)
    /\ \/ S = {}
       \/ info[i] # None /\ S = info[i].wait /\ (info'[i] # None => info'[i].wait = {})

\* Whatever event is applied, the rest of the invariant follows from the links.
LEMMA AppliedInv ==
    ASSUME IInv, NEW i \in Ids, NEW S, Applied(i, S), Links'
    PROVE  IInv'
<1>1. Base /\ Types /\ TypeOK /\ queue # <<>>
  BY DEF IInv, Base, Types, Applied
<1>2. /\ queue' \in Seq(EventType) /\ EventsOk'
      /\ \A x \in Ids : Told(x)' => Told(x)
      /\ Head(queue).k # "fully" => ~(Told(i)')
      /\ \A n \in DOMAIN queue' : \A x \in queue'[n].deps :
            \E m \in DOMAIN queue : x \in queue[m].deps
  BY <1>1, Popped DEF Applied
<1>3. /\ Head(queue) \in EventType /\ 1 \in DOMAIN queue /\ Head(queue) = queue[1]
  <2>1. Len(queue) \in Nat \ {0} /\ DOMAIN queue = 1 .. Len(queue)
    BY <1>1, QueueTail
  <2>2. 1 \in DOMAIN queue
    BY <2>1
  <2> QED
    BY <1>1, <2>2, QueueTail
<1>4. /\ WaitersOk'
      /\ waiter' \in [Waiters -> [st : {"idle", "poll", "parked", "done"}, id : Ids \cup {None}]]
      /\ \A w \in Waiters : waiter'[w].id = waiter[w].id
  <2>1. /\ waiter' = Wake(S)
        /\ \/ S = {}
           \/ info[i] # None /\ S = info[i].wait /\ (info'[i] # None => info'[i].wait = {})
        /\ \A x \in Ids : info'[x] # None => info[x] # None /\ info'[x].wait \subseteq info[x].wait
    BY DEF Applied
  <2> QED
    BY <1>1, <2>1, Woken
<1>5. ASSUME NEW x \in Ids, Alive(x)' PROVE Alive(x)
  <2>1. /\ app' = app /\ task' = task /\ insert' = insert
        /\ \A v \in Ids : value'[v] = value[v] \/ value'[v] = Head(queue).deps
    BY DEF Applied, loads
  <2>2. (\E n \in DOMAIN queue' : x \in queue'[n].deps) => \E n \in DOMAIN queue : x \in queue[n].deps
    BY <1>2
  <2>3. ASSUME NEW v \in Ids, value'[v] # None /\ x \in value'[v]
        PROVE  \/ \E n \in DOMAIN queue : x \in queue[n].deps
               \/ \E u \in Ids : value[u] # None /\ x \in value[u]
    BY <1>3, <2>1, <2>3
  <2>4. (\E w \in Waiters : waiter'[w].id = x) => \E w \in Waiters : waiter[w].id = x
    BY <1>4
  <2> QED
    BY <1>5, <2>1, <2>2, <2>3, <2>4 DEF Alive
<1>6. Accounts' /\ drops' \in [Ids -> Nat]
  BY <1>1, <1>5, HandlesDrop DEF Applied, IInv
<1>7. Types'
  <2>1. \A n \in DOMAIN queue' : queue'[n] \in EventType
    BY <1>2
  <2>2. \A w \in Waiters : /\ waiter'[w].st \in {"idle", "poll", "parked", "done"}
                           /\ waiter'[w].id \in Ids \cup {None}
    BY <1>4
  <2>3. \A x \in Ids : /\ info'[x] = None \/ info'[x] \in EntryType
                       /\ value'[x] = None \/ value'[x] \subseteq Ids
    BY DEF Applied
  <2>4. /\ lock' \in {"free", "events", "drops"} /\ (work' # {} => lock' = "events")
        /\ work' \subseteq {"loaded", "failed"} \X Ids \X Ids
        /\ UNCHANGED <<index, app, task, pending, insert, lost, requests>>
        /\ info' \in [Ids -> {None} \cup EntryType] /\ value' \in [Ids -> {None} \cup SUBSET Ids]
    BY DEF Applied, loads
  <2> QED
    BY <1>1, <1>2, <1>4, <1>6, <2>1, <2>2, <2>3, <2>4 DEF Types, TypeOK, EventType
<1>8. InsertsOk'
  BY <1>1 DEF Base, InsertsOk, Applied, loads
<1>9. ASSUME NEW x \in Ids PROVE TaskOk(x)'
  <2>1. TaskOk(x) /\ (Told(x)' => Told(x)) /\ index' = index /\ task'[x] = task[x]
    BY <1>1, <1>2 DEF Base, Applied
  <2>2. /\ info'[x] # None => info[x] # None
        /\ info[x] # None /\ (x # i \/ Head(queue).k = "fully") => info'[x].load = info[x].load
        /\ \A d \in Ids :
              (info'[d] # None /\ x \in info'[d].wr /\ (x # i \/ info[i] = None))
                 => info[d] # None /\ x \in info[d].wr
    BY DEF Applied
  <2>3. CASE x # i \/ info[i] = None
    BY <2>1, <2>2, <2>3, TaskKept
  <2>4. CASE x = i /\ info[i] # None
    <3>1. ~Fresh(x) /\ ~(Fresh(x)')
      BY <2>1, <2>4 DEF TaskOk, Fresh
    <3>2. CASE Head(queue).k = "fully"
      BY <2>1, <2>2, <2>4, <3>1, <3>2 DEF TaskOk
    <3>3. CASE Head(queue).k # "fully"
      <4>1. Told(i) /\ ~(Told(i)')
        BY <1>2, <1>3, <3>3 DEF Told, Applied
      <4> QED
        BY <2>1, <2>4, <3>1, <4>1 DEF TaskOk
    <3> QED
      BY <3>2, <3>3
  <2> QED
    BY <2>3, <2>4
<1> QED
  BY <1>1, <1>2, <1>4, <1>6, <1>7, <1>8, <1>9, BaseKept DEF IInv

\* What the end of a load does to the links: i was loading, and has loaded
\* with deps or failed; it waits for the dependencies in L.
Settled(i, L) ==
    /\ info[i] # None /\ info[i].load = "loading" /\ work = {}
    /\ \A x \in Ids : info'[x] = None <=> info[x] = None
    /\ \A x \in Ids : info[x] # None /\ x # i =>
          /\ info'[x].load = info[x].load /\ info'[x].rec = info[x].rec
          /\ info'[x].rloading = info[x].rloading /\ info'[x].rfailed = info[x].rfailed
          /\ info'[x].wr = info[x].wr \cup (IF x \in L THEN {i} ELSE {})
    /\ info'[i].load \in {"loaded", "failed"} /\ info'[i].rec \in LoadStates
    /\ info'[i].load = "failed" => info'[i].rec = "failed" /\ L = {}
    /\ info'[i].rec = "loading" => info'[i].wr = info[i].wr /\ work' = {}
    /\ info'[i].rec # "loading" => /\ info'[i].wr = {}
                                   /\ work' = {<<info'[i].rec, i, x>> : x \in info[i].wr}
    /\ \A x \in Ids : x # i => value'[x] = value[x]
    /\ info'[i].load = "loaded" =>
          /\ value'[i] # None /\ i \notin value'[i] /\ L \subseteq value'[i] /\ value'[i] \subseteq Ids
          /\ info'[i].rloading = L
          /\ \A d \in value'[i] : \/ d \in L \cup info'[i].rfailed
                                  \/ info[d] # None /\ info[d].rec = "loaded"
          /\ \A d \in L : info[d] # None /\ info[d].rec = "loading"
          /\ info'[i].rec = "loaded" => L = {} /\ info'[i].rfailed = {}
          /\ info'[i].rec = "failed" => info'[i].rfailed # {}

\* The end of a load keeps the links: process_asset_load, process_asset_fail.
LEMMA SettledLinks ==
    ASSUME IInv, NEW i \in Ids, NEW L, Settled(i, L)
    PROVE  Links'
<1>1. \A x \in Ids : StatesOk(x) /\ ValueOk(x) /\ WaitOk(x)
  BY DEF IInv, Links
<1>2. /\ work = {}
      /\ \A x \in Ids : /\ info[x] # None => info[x].rloading \subseteq Ids /\ info[x].wr \subseteq Ids
                        /\ value[x] # None => value[x] \subseteq Ids
  BY DEF Settled, IInv, Base, Types, EntryType
<1>3. /\ info[i] # None /\ info'[i] # None /\ info[i].load = "loading" /\ info[i].rec = "loading"
      /\ \A x \in Ids : info'[x] = None <=> info[x] = None
  BY <1>1 DEF Settled, StatesOk
<1>4. \A x \in Ids : info[x] # None /\ x # i =>
          /\ info'[x].load = info[x].load /\ info'[x].rec = info[x].rec
          /\ info'[x].rloading = info[x].rloading /\ info'[x].rfailed = info[x].rfailed
          /\ info'[x].wr = info[x].wr \cup (IF x \in L THEN {i} ELSE {})
          /\ value'[x] = value[x]
  BY DEF Settled
<1>5. \A x \in Ids : x \in info[i].wr =>
          \/ x \in info'[i].wr /\ info'[i].rec = "loading"
          \/ <<"loaded", i, x>> \in work' \/ <<"failed", i, x>> \in work'
  BY DEF Settled, LoadStates
<1>6. \A t \in work' : \E x \in info[i].wr : t = <<info'[i].rec, i, x>>
  BY DEF Settled
<1>7. \A d \in Ids : info[d] # None => i \notin info[d].wr
  BY <1>1, <1>3 DEF WaitOk
<1>8. WorkOk'
  BY <1>3, <1>6 DEF WorkOk
<1>9. ASSUME NEW x \in Ids PROVE StatesOk(x)'
  <2>1. CASE x = i
    BY <1>3, <2>1 DEF StatesOk, Settled
  <2>2. CASE x # i
    <3> SUFFICES ASSUME info[x] # None, info'[x] # None PROVE StatesOk(x)'
      BY <1>3 DEF StatesOk
    <3>1. x \in L => info[x].rec = "loading"
      BY DEF Settled
    <3> QED
      BY <1>1, <1>4, <2>2, <3>1 DEF StatesOk
  <2> QED
    BY <2>1, <2>2
<1>10. ASSUME NEW x \in Ids PROVE ValueOk(x)'
  <2> SUFFICES ASSUME info'[x] # None, info'[x].load = "loaded"
               PROVE  /\ value'[x] # None /\ info'[x].rloading \subseteq value'[x]
                      /\ \A d \in value'[x] : \/ d \in info'[x].rloading \cup info'[x].rfailed
                                              \/ info'[d] # None /\ info'[d].rec = "loaded"
                      /\ \A d \in info'[x].rloading :
                            \/ info'[d] # None /\ info'[d].rec = "loading" /\ x \in info'[d].wr
                            \/ <<"loaded", d, x>> \in work' \/ <<"failed", d, x>> \in work'
    BY DEF ValueOk
  <2>1. CASE x = i
    <3>1. /\ value'[i] # None /\ i \notin value'[i] /\ L \subseteq value'[i] /\ value'[i] \subseteq Ids
          /\ info'[i].rloading = L
          /\ \A d \in value'[i] : \/ d \in L \cup info'[i].rfailed
                                  \/ info[d] # None /\ info[d].rec = "loaded"
          /\ \A d \in L : info[d] # None /\ info[d].rec = "loading"
      BY <2>1 DEF Settled
    <3>2. ASSUME NEW d \in value'[i]
          PROVE  d \in info'[i].rloading \cup info'[i].rfailed
                    \/ (info'[d] # None /\ info'[d].rec = "loaded")
      BY <1>3, <1>4, <3>1, <3>2
    <3>3. ASSUME NEW d \in info'[i].rloading
          PROVE  info'[d] # None /\ info'[d].rec = "loading" /\ i \in info'[d].wr
      BY <1>3, <1>4, <3>1, <3>3
    <3> QED
      BY <2>1, <3>1, <3>2, <3>3
  <2>2. CASE x # i
    <3>1. info[x] # None /\ info[x].load = "loaded"
      BY <1>3, <1>4, <2>2
    <3>2. /\ value[x] # None /\ info[x].rloading \subseteq value[x] /\ value[x] \subseteq Ids
          /\ \A d \in value[x] : \/ d \in info[x].rloading \cup info[x].rfailed
                                 \/ info[d] # None /\ info[d].rec = "loaded"
          /\ \A d \in info[x].rloading :
                info[d] # None /\ info[d].rec = "loading" /\ x \in info[d].wr
      BY <1>1, <1>2, <3>1 DEF ValueOk
    <3>3. /\ value'[x] = value[x] /\ info'[x].rloading = info[x].rloading
          /\ info'[x].rfailed = info[x].rfailed
      BY <1>4, <2>2, <3>1
    <3>4. ASSUME NEW d \in value[x]
          PROVE  d \in info[x].rloading \cup info[x].rfailed
                    \/ (info'[d] # None /\ info'[d].rec = "loaded")
      BY <1>3, <1>4, <3>2, <3>4
    <3>5. ASSUME NEW d \in info[x].rloading
          PROVE  \/ info'[d] # None /\ info'[d].rec = "loading" /\ x \in info'[d].wr
                 \/ <<"loaded", d, x>> \in work' \/ <<"failed", d, x>> \in work'
      <4>1. d \in Ids /\ info[d] # None /\ info[d].rec = "loading" /\ x \in info[d].wr
        BY <3>2
      <4>2. CASE d = i
        BY <1>3, <1>5, <4>1, <4>2
      <4>3. CASE d # i
        BY <1>3, <1>4, <4>1, <4>3
      <4> QED
        BY <4>2, <4>3
    <3> QED
      BY <3>2, <3>3, <3>4, <3>5
  <2> QED
    BY <2>1, <2>2
<1>11. ASSUME NEW x \in Ids PROVE WaitOk(x)'
  <2> SUFFICES ASSUME info'[x] # None, NEW d \in Ids,
                      \/ info'[d] # None /\ x \in info'[d].wr
                      \/ <<"loaded", d, x>> \in work' \/ <<"failed", d, x>> \in work'
               PROVE  info'[x].load = "loaded" /\ d \in info'[x].rloading
    BY DEF WaitOk
  <2>1. \/ info[d] # None /\ x \in info[d].wr
        \/ x = i /\ d \in L
    <3>1. CASE info'[d] # None /\ x \in info'[d].wr
      <4>1. CASE d = i
        BY <1>3, <3>1, <4>1 DEF Settled
      <4>2. CASE d # i
        BY <1>3, <1>4, <3>1, <4>2
      <4> QED
        BY <4>1, <4>2
    <3>2. CASE <<"loaded", d, x>> \in work' \/ <<"failed", d, x>> \in work'
      BY <1>3, <1>6, <3>2
    <3> QED
      BY <3>1, <3>2
  <2>2. CASE info[d] # None /\ x \in info[d].wr
    <3>1. x # i /\ info[x] # None
      BY <1>3, <1>7, <2>2
    <3> QED
      BY <1>1, <1>4, <2>2, <3>1 DEF WaitOk
  <2>3. CASE x = i /\ d \in L
    BY <2>3 DEF Settled
  <2> QED
    BY <2>1, <2>2, <2>3
<1> QED
  BY <1>8, <1>9, <1>10, <1>11 DEF Links

\* A value is there: process_asset_load.
LEMMA ApplyLoadedInv ==
    ASSUME IInv, ApplyEvent, Head(queue).k = "loaded",
           NEW i \in Ids, NEW deps \in SUBSET Ids, i = Head(queue).id, deps = Head(queue).deps,
           ApplyLoaded(i, deps)
    PROVE  IInv'
<1> DEFINE known == {d \in deps : info[d] # None}
           lload == {d \in deps : d \in known => info[d].load = "loading"}
           fload == {d \in known : info[d].load = "failed"}
           lrec == {d \in deps : d \in known => info[d].rec = "loading"}
           frec == {d \in known : info[d].rec = "failed"}
           rec == State(lrec, frec)
           me == info[i]
           new == [me EXCEPT !.load = "loaded", !.dep = State(lload, fload), !.rec = rec,
                             !.loading = lload, !.failed = fload,
                             !.rloading = lrec, !.rfailed = frec,
                             !.wl = {}, !.wr = IF rec = "loading" THEN @ ELSE {},
                             !.wait = IF rec = "failed" THEN {} ELSE @]
           S == IF rec = "failed" THEN me.wait ELSE {}
<1>1. Base /\ Types /\ Accounts /\ Links /\ EventsOk /\ TaskOk(i) /\ info[i] # None
  BY DEF IInv, Base, ApplyLoaded
<1>2. /\ work = {} /\ queue # <<>> /\ lock' = "events"
      /\ UNCHANGED <<index, app, task, loads, requests>> /\ DropHandles
  BY DEF ApplyEvent
<1>3. 1 \in DOMAIN queue /\ Head(queue) = queue[1]
  <2>1. Len(queue) \in Nat \ {0} /\ DOMAIN queue = 1 .. Len(queue)
    BY <1>1, <1>2, QueueTail
  <2>2. 1 \in DOMAIN queue
    BY <2>1
  <2> QED
    BY <1>1, <1>2, <2>2, QueueTail
<1>4. me.load = "loading" /\ me.rec = "loading" /\ me \in EntryType
  <2>1. Told(i)
    BY <1>3 DEF Told
  <2> QED
    BY <1>1, <2>1 DEF TaskOk, Links, StatesOk, Types
\* every dependency is known: the event holds its handle
<1>5. i \notin deps /\ \A d \in deps : d \in Ids /\ info[d] # None
  <2>1. ASSUME NEW d \in deps PROVE d # i
    BY <1>1, <1>3, Paths1 DEF EventsOk
  <2>2. ASSUME NEW d \in deps PROVE info[d] # None
    BY <1>1, <1>3 DEF Accounts, Held, Alive
  <2> QED
    BY <2>1, <2>2
<1>6. /\ lload \subseteq Ids /\ fload \subseteq Ids /\ lrec \subseteq deps /\ frec \subseteq deps
      /\ \A d \in lrec : info[d] # None /\ info[d].rec = "loading"
      /\ \A d \in Ids : d \in deps /\ info[d].rec = "loading" => d \in lrec
      /\ \A d \in deps : d \in lrec \cup frec \/ (info[d] # None /\ info[d].rec = "loaded")
  <2>1. \A d \in deps : info[d].rec \in LoadStates
    BY <1>1, <1>5 DEF Types, EntryType
  <2> QED
    BY <1>5, <2>1 DEF LoadStates
<1>7. /\ rec \in LoadStates /\ State(lload, fload) \in LoadStates
      /\ rec = "failed" => frec # {}
      /\ rec = "loaded" => lrec = {} /\ frec = {}
  BY DEF State, LoadStates
<1>8. /\ value' = [value EXCEPT ![i] = deps] /\ waiter' = Wake(S)
      /\ work' = IF rec = "loading" THEN {} ELSE {<<rec, i, x>> : x \in me.wr}
      /\ queue' = Tail(queue) \/ queue' = Append(Tail(queue), Event("fully", i, {}))
  BY DEF ApplyLoaded
<1>9. info'[i] = new
  BY <1>1 DEF ApplyLoaded
<1>10. /\ DOMAIN info' = Ids /\ info' = [x \in Ids |-> info'[x]]
       /\ \A x \in Ids : info[x] = None => info'[x] = None
  BY DEF ApplyLoaded
<1>11. \A x \in Ids : info[x] # None /\ x # i =>
          info'[x] = [info[x] EXCEPT
                  !.wl = IF x \in lload THEN @ \cup {i} ELSE @,
                  !.wr = Waiting(i, x, deps),
                  !.loading = IF x \in me.wl THEN info[x].loading \ {i} ELSE @,
                  !.dep = IF x \in me.wl /\ info[x].loading \ {i} = {} /\ @ # "failed"
                          THEN "loaded" ELSE @]
  BY DEF ApplyLoaded
<1> HIDE DEF known, lload, fload, lrec, frec, rec
<1>12. /\ info'[i] \in EntryType /\ info'[i].load = "loaded" /\ info'[i].rec = rec
       /\ info'[i].rloading = lrec /\ info'[i].rfailed = frec
       /\ info'[i].wr = (IF rec = "loading" THEN me.wr ELSE {})
       /\ info'[i].wait = (IF rec = "failed" THEN {} ELSE me.wait)
       /\ info'[i].skip = me.skip
  <2> DEFINE wr == IF rec = "loading" THEN me.wr ELSE {}
             wait == IF rec = "failed" THEN {} ELSE me.wait
             dep == State(lload, fload)
             n1 == [me EXCEPT !.load = "loaded", !.dep = dep, !.rec = rec]
             n2 == [n1 EXCEPT !.loading = lload, !.failed = fload]
             n3 == [n2 EXCEPT !.rloading = lrec, !.rfailed = frec]
             n4 == [n3 EXCEPT !.wl = {}, !.wr = wr, !.wait = wait]
  <2>1. lrec \subseteq Ids /\ frec \subseteq Ids /\ dep \in LoadStates /\ "loaded" \in LoadStates
    BY <1>6, <1>7 DEF LoadStates
  <2>2. new = n4
    OBVIOUS
  <2> HIDE DEF new, dep
  <2>3. wr \subseteq Ids /\ wait \subseteq Waiters
    BY <1>4 DEF EntryType
  <2> HIDE DEF wr, wait, me
  <2>4. n1 \in EntryType /\ n1.load = "loaded" /\ n1.rec = rec /\ n1.skip = me.skip
    BY <1>4, <1>7, <2>1 DEF EntryType
  <2> HIDE DEF n1
  <2>5. n2 \in EntryType /\ n2.load = n1.load /\ n2.rec = n1.rec /\ n2.skip = n1.skip
    BY <1>6, <2>4 DEF EntryType
  <2> HIDE DEF n2
  <2>6. /\ n3 \in EntryType /\ n3.load = n2.load /\ n3.rec = n2.rec /\ n3.skip = n2.skip
        /\ n3.rloading = lrec /\ n3.rfailed = frec
    BY <2>1, <2>5 DEF EntryType
  <2> HIDE DEF n3
  <2>7. /\ n4 \in EntryType /\ n4.load = n3.load /\ n4.rec = n3.rec /\ n4.skip = n3.skip
        /\ n4.rloading = n3.rloading /\ n4.rfailed = n3.rfailed /\ n4.wr = wr /\ n4.wait = wait
    BY <2>3, <2>6 DEF EntryType
  <2> HIDE DEF n4
  <2> QED
    BY <1>9, <2>2, <2>4, <2>5, <2>6, <2>7 DEF wr, wait
<1>13. ASSUME NEW x \in Ids, info[x] # None, x # i
       PROVE  /\ info'[x] \in EntryType
              /\ info'[x].load = info[x].load /\ info'[x].rec = info[x].rec
              /\ info'[x].rloading = info[x].rloading /\ info'[x].rfailed = info[x].rfailed
              /\ info'[x].wait = info[x].wait /\ info'[x].skip = info[x].skip
              /\ info'[x].wr = info[x].wr \cup (IF x \in lrec THEN {i} ELSE {})
  <2> DEFINE e == info[x]
             wl == IF x \in lload THEN e.wl \cup {i} ELSE e.wl
             wr == Waiting(i, x, deps)
             lo == IF x \in me.wl THEN e.loading \ {i} ELSE e.loading
             dp == IF x \in me.wl /\ e.loading \ {i} = {} /\ e.dep # "failed" THEN "loaded" ELSE e.dep
  <2>1. info'[x] = [e EXCEPT !.wl = wl, !.wr = wr, !.loading = lo, !.dep = dp]
    BY <1>11, <1>13
  <2>2. e \in EntryType
    BY <1>1, <1>13 DEF Types
  <2>3. wl \subseteq Ids /\ lo \subseteq Ids /\ dp \in LoadStates
    BY <2>2 DEF EntryType, LoadStates
  <2>4. wr = e.wr \cup (IF x \in lrec THEN {i} ELSE {})
    <3>1. x \in lrec <=> x \in deps /\ info[x].rec = "loading"
      BY <1>6
    <3> QED
      BY <3>1 DEF Waiting
  <2>5. wr \subseteq Ids
    BY <2>2, <2>4 DEF EntryType
  <2> HIDE DEF wl, wr, lo, dp, e
  <2>6. /\ info'[x] \in EntryType
        /\ info'[x].load = e.load /\ info'[x].rec = e.rec
        /\ info'[x].rloading = e.rloading /\ info'[x].rfailed = e.rfailed
        /\ info'[x].wait = e.wait /\ info'[x].skip = e.skip /\ info'[x].wr = wr
    <3> DEFINE e1 == [e EXCEPT !.wl = wl, !.wr = wr]
               e2 == [e1 EXCEPT !.loading = lo, !.dep = dp]
    <3>1. /\ e1 \in EntryType
          /\ e1.load = e.load /\ e1.rec = e.rec
          /\ e1.rloading = e.rloading /\ e1.rfailed = e.rfailed
          /\ e1.wait = e.wait /\ e1.skip = e.skip /\ e1.wr = wr
      BY <2>2, <2>3, <2>5 DEF EntryType
    <3>2. info'[x] = e2
      BY <2>1
    <3> HIDE DEF e1
    <3>3. /\ e2 \in EntryType
          /\ e2.load = e1.load /\ e2.rec = e1.rec
          /\ e2.rloading = e1.rloading /\ e2.rfailed = e1.rfailed
          /\ e2.wait = e1.wait /\ e2.skip = e1.skip /\ e2.wr = e1.wr
      BY <3>1, <2>3 DEF EntryType
    <3> HIDE DEF e2
    <3> QED
      BY <3>1, <3>2, <3>3
  <2> QED
    BY <2>4, <2>6 DEF e
<1> HIDE DEF new
<1>14. value'[i] = deps /\ \A x \in Ids : x # i => value'[x] = value[x]
  BY <1>1, <1>8 DEF Types
<1>15. Settled(i, lrec)
  <2>1. /\ info[i] # None /\ info[i].load = "loading" /\ work = {}
        /\ \A x \in Ids : info'[x] = None <=> info[x] = None
    BY <1>1, <1>2, <1>4, <1>10, <1>12, <1>13, Paths1
  <2>2. deps # None /\ deps \subseteq Ids
    BY Paths1
  <2>3. /\ info'[i].rec = "loading" => info'[i].wr = info[i].wr /\ work' = {}
        /\ info'[i].rec # "loading" => /\ info'[i].wr = {}
                                       /\ work' = {<<info'[i].rec, i, x>> : x \in info[i].wr}
    BY <1>8, <1>12
  <2> QED
    BY <1>5, <1>6, <1>7, <1>12, <1>13, <1>14, <2>1, <2>2, <2>3 DEF Settled
<1>16. Links'
  BY <1>15, SettledLinks
<1>17. Applied(i, S)
  <2>1. info' \in [Ids -> {None} \cup EntryType]
    <3>1. \A x \in Ids : info'[x] \in {None} \cup EntryType
      BY <1>10, <1>12, <1>13
    <3> QED
      BY <1>10, <3>1
  <2>2. value' \in [Ids -> {None} \cup SUBSET Ids]
    BY <1>1, <1>8 DEF Types
  <2>3. work' \subseteq {"loaded", "failed"} \X Ids \X Ids
    <3>1. me.wr \subseteq Ids
      BY <1>4 DEF EntryType
    <3> QED
      BY <1>7, <1>8, <3>1 DEF LoadStates
  <2>4. \A x \in Ids : /\ info'[x] = None <=> info[x] = None
                       /\ info[x] # None => /\ info'[x].skip = info[x].skip
                                            /\ info'[x].wait \subseteq info[x].wait
    BY <1>1, <1>10, <1>12, <1>13, Paths1
  <2>5. \A x \in Ids : info[x] # None /\ (x # i \/ Head(queue).k = "fully") =>
                         info'[x].load = info[x].load
    BY <1>13
  <2>6. ASSUME NEW d \in Ids, NEW x \in Ids, info'[d] # None, x \in info'[d].wr, x # i
        PROVE  x \in info[d].wr
    <3>1. CASE d = i
      BY <1>12, <2>6, <3>1
    <3>2. CASE d # i
      BY <1>10, <1>13, <2>6, <3>2
    <3> QED
      BY <3>1, <3>2
  <2>7. \/ S = {}
        \/ info[i] # None /\ S = info[i].wait /\ (info'[i] # None => info'[i].wait = {})
    BY <1>1, <1>12
  <2>8. \A v \in Ids : value'[v] = value[v] \/ value'[v] = Head(queue).deps
    BY <1>14
  <2> HIDE DEF S
  <2> QED
    <3>1. \A d, x \in Ids :
             (info'[d] # None /\ x \in info'[d].wr /\ (x # i \/ info[i] = None)) => x \in info[d].wr
      BY <1>1, <2>6
    <3>2. /\ queue # <<>> /\ i = Head(queue).id /\ lock' = "events"
          /\ UNCHANGED <<index, app, task, loads, requests>> /\ DropHandles
          /\ queue' = Tail(queue) \/ queue' = Append(Tail(queue), Event("fully", i, {}))
          /\ waiter' = Wake(S)
      BY <1>2, <1>8
    <3> QED
      BY <2>1, <2>2, <2>3, <2>4, <2>5, <2>7, <2>8, <3>1, <3>2 DEF Applied
<1> QED
  BY <1>16, <1>17, AppliedInv

\* A load has failed: process_asset_fail.
LEMMA ApplyFailedInv ==
    ASSUME IInv, ApplyEvent, Head(queue).k = "failed",
           NEW i \in Ids, i = Head(queue).id, ApplyFailed(i)
    PROVE  IInv'
<1> DEFINE me == info[i]
           new == [me EXCEPT !.load = "failed", !.dep = "failed", !.rec = "failed",
                             !.wl = {}, !.wr = {}, !.wait = {}]
           S == me.wait
<1>1. Base /\ Types /\ Links /\ TaskOk(i) /\ info[i] # None
  BY DEF IInv, Base, ApplyFailed
<1>2. /\ work = {} /\ queue # <<>> /\ lock' = "events"
      /\ UNCHANGED <<index, app, task, loads, requests>> /\ DropHandles
  BY DEF ApplyEvent
<1>3. 1 \in DOMAIN queue /\ Head(queue) = queue[1]
  <2>1. Len(queue) \in Nat \ {0} /\ DOMAIN queue = 1 .. Len(queue)
    BY <1>1, <1>2, QueueTail
  <2>2. 1 \in DOMAIN queue
    BY <2>1
  <2> QED
    BY <1>1, <1>2, <2>2, QueueTail
<1>4. me.load = "loading" /\ me.rec = "loading" /\ me \in EntryType
  <2>1. Told(i)
    BY <1>3 DEF Told
  <2> QED
    BY <1>1, <2>1 DEF TaskOk, Links, StatesOk, Types
<1>5. /\ value' = value /\ waiter' = Wake(S) /\ queue' = Tail(queue)
      /\ work' = {<<"failed", i, x>> : x \in me.wr}
      /\ info'[i] = new
  BY <1>1 DEF ApplyFailed
<1>6. /\ DOMAIN info' = Ids /\ info' = [x \in Ids |-> info'[x]]
      /\ \A x \in Ids : info[x] = None => info'[x] = None
      /\ \A x \in Ids : info[x] # None /\ x # i =>
            \/ info'[x] = info[x]
            \/ info'[x] = [info[x] EXCEPT !.loading = info[x].loading \ {i},
                                          !.failed = info[x].failed \cup {i}, !.dep = "failed"]
  BY DEF ApplyFailed
<1>7. /\ info'[i] \in EntryType /\ info'[i].load = "failed" /\ info'[i].rec = "failed"
      /\ info'[i].wr = {} /\ info'[i].wait = {} /\ info'[i].skip = me.skip
  <2> DEFINE n1 == [me EXCEPT !.load = "failed", !.dep = "failed", !.rec = "failed"]
             n2 == [n1 EXCEPT !.wl = {}, !.wr = {}, !.wait = {}]
  <2>1. new = n2
    OBVIOUS
  <2> HIDE DEF new, me
  <2>2. n1 \in EntryType /\ n1.load = "failed" /\ n1.rec = "failed" /\ n1.skip = me.skip
    BY <1>4 DEF EntryType, LoadStates
  <2> HIDE DEF n1
  <2>3. /\ n2 \in EntryType /\ n2.load = n1.load /\ n2.rec = n1.rec /\ n2.skip = n1.skip
        /\ n2.wr = {} /\ n2.wait = {}
    BY <2>2 DEF EntryType
  <2> HIDE DEF n2
  <2> QED
    BY <1>5, <2>1, <2>2, <2>3
<1>8. ASSUME NEW x \in Ids, info[x] # None, x # i
      PROVE  /\ info'[x] \in EntryType
             /\ info'[x].load = info[x].load /\ info'[x].rec = info[x].rec
             /\ info'[x].rloading = info[x].rloading /\ info'[x].rfailed = info[x].rfailed
             /\ info'[x].wait = info[x].wait /\ info'[x].skip = info[x].skip
             /\ info'[x].wr = info[x].wr
  <2> DEFINE e == info[x]
             lo == e.loading \ {i}
             fa == e.failed \cup {i}
  <2>1. e \in EntryType
    BY <1>1, <1>8 DEF Types
  <2>2. lo \subseteq Ids /\ fa \subseteq Ids
    BY <2>1 DEF EntryType
  <2>3. info'[x] = e \/ info'[x] = [e EXCEPT !.loading = lo, !.failed = fa, !.dep = "failed"]
    BY <1>6, <1>8
  <2> HIDE DEF lo, fa, e
  <2>4. /\ info'[x] \in EntryType
        /\ info'[x].load = e.load /\ info'[x].rec = e.rec
        /\ info'[x].rloading = e.rloading /\ info'[x].rfailed = e.rfailed
        /\ info'[x].wait = e.wait /\ info'[x].skip = e.skip /\ info'[x].wr = e.wr
    BY <2>1, <2>2, <2>3, ZenonT(40) DEF EntryType, LoadStates
  <2> QED
    BY <2>4 DEF e
<1> HIDE DEF new
<1>9. ASSUME NEW x \in Ids PROVE info'[x] = None <=> info[x] = None
  <2>1. CASE x = i
    BY <1>1, <1>7, <2>1, Paths1
  <2>2. CASE x # i
    BY <1>6, <1>8, <2>2, Paths1, ZenonT(40)
  <2> QED
    BY <2>1, <2>2
<1>10. Settled(i, {})
  <2>1. /\ info[i] # None /\ info[i].load = "loading" /\ work = {}
        /\ \A x \in Ids : info'[x] = None <=> info[x] = None
    BY <1>1, <1>2, <1>4, <1>9
  <2>2. info'[i].rec = "failed" /\ work' = {<<info'[i].rec, i, x>> : x \in info[i].wr}
    BY <1>5, <1>7
  <2> QED
    BY <1>5, <1>7, <1>8, <2>1, <2>2 DEF Settled, LoadStates
<1>11. Links'
  BY <1>10, SettledLinks
<1>12. Applied(i, S)
  <2>1. info' \in [Ids -> {None} \cup EntryType]
    <3>1. \A x \in Ids : info'[x] \in {None} \cup EntryType
      BY <1>6, <1>7, <1>8
    <3> QED
      BY <1>6, <3>1
  <2>2. value' \in [Ids -> {None} \cup SUBSET Ids]
    BY <1>1, <1>5 DEF Types
  <2>3. work' \subseteq {"loaded", "failed"} \X Ids \X Ids
    <3>1. me.wr \subseteq Ids
      BY <1>4 DEF EntryType
    <3> QED
      BY <1>5, <3>1
  <2>4. \A x \in Ids : /\ info'[x] = None <=> info[x] = None
                       /\ info[x] # None => /\ info'[x].skip = info[x].skip
                                            /\ info'[x].wait \subseteq info[x].wait
    <3> SUFFICES ASSUME NEW x \in Ids, info[x] # None
                 PROVE  info'[x].skip = info[x].skip /\ info'[x].wait \subseteq info[x].wait
      BY <1>9
    <3>1. CASE x = i
      BY <1>7, <3>1
    <3>2. CASE x # i
      BY <1>8, <3>2
    <3> QED
      BY <3>1, <3>2
  <2>5. \A x \in Ids : info[x] # None /\ (x # i \/ Head(queue).k = "fully") =>
                         info'[x].load = info[x].load
    BY <1>8
  <2>6. \A d, x \in Ids :
             (info'[d] # None /\ x \in info'[d].wr /\ (x # i \/ info[i] = None)) => x \in info[d].wr
    <3> SUFFICES ASSUME NEW d \in Ids, NEW x \in Ids, info'[d] # None, x \in info'[d].wr
                 PROVE  x \in info[d].wr
      OBVIOUS
    <3>1. CASE d = i
      BY <1>7, <3>1
    <3>2. CASE d # i
      BY <1>6, <1>8, <3>2
    <3> QED
      BY <3>1, <3>2
  <2>7. info[i] # None /\ S = info[i].wait /\ (info'[i] # None => info'[i].wait = {})
    BY <1>1, <1>7
  <2>8. /\ queue # <<>> /\ i = Head(queue).id /\ lock' = "events"
        /\ UNCHANGED <<index, app, task, loads, requests>> /\ DropHandles
        /\ queue' = Tail(queue) \/ queue' = Append(Tail(queue), Event("fully", i, {}))
        /\ waiter' = Wake(S) /\ \A v \in Ids : value'[v] = value[v] \/ value'[v] = Head(queue).deps
    BY <1>2, <1>5
  <2> HIDE DEF S
  <2> QED
    BY <2>1, <2>2, <2>3, <2>4, <2>5, <2>6, <2>7, <2>8 DEF Applied
<1> QED
  BY <1>11, <1>12, AppliedInv

\* A FullyLoaded event only wakes.
LEMMA ApplyFullyLoadedInv ==
    ASSUME IInv, ApplyEvent, Head(queue).k = "fully",
           NEW i \in Ids, i = Head(queue).id, ApplyFullyLoaded(i)
    PROVE  IInv'
<1> DEFINE new == [info[i] EXCEPT !.wait = {}]
           S == info[i].wait
<1>1. Base /\ Types /\ Links /\ info[i] # None
  BY DEF IInv, Base, ApplyFullyLoaded
<1>2. /\ work = {} /\ queue # <<>> /\ lock' = "events"
      /\ UNCHANGED <<index, app, task, loads, requests>> /\ DropHandles
  BY DEF ApplyEvent
<1>3. /\ value' = value /\ work' = work /\ waiter' = Wake(S) /\ queue' = Tail(queue)
      /\ info' = [info EXCEPT ![i] = new]
  BY DEF ApplyFullyLoaded
<1>4. /\ new \in EntryType /\ new # None /\ new.load = info[i].load /\ new.rec = info[i].rec
      /\ new.rloading = info[i].rloading /\ new.rfailed = info[i].rfailed
      /\ new.wr = info[i].wr /\ new.skip = info[i].skip /\ new.wait = {}
  <2>1. info[i] \in EntryType
    BY <1>1 DEF Types
  <2> QED
    BY <2>1, Paths1 DEF EntryType
<1> HIDE DEF new
<1>5. /\ info' \in [Ids -> {None} \cup EntryType] /\ info'[i] = new
      /\ \A x \in Ids : x # i => info'[x] = info[x]
  BY <1>1, <1>3, <1>4 DEF Types
<1>6. \A x \in Ids :
         /\ info'[x] = None <=> info[x] = None
         /\ info[x] # None =>
              /\ info'[x].load = info[x].load /\ info'[x].rec = info[x].rec
              /\ info'[x].rloading = info[x].rloading /\ info'[x].rfailed = info[x].rfailed
              /\ info'[x].wr = info[x].wr /\ info'[x].skip = info[x].skip
              /\ info'[x].wait \subseteq info[x].wait
  BY <1>1, <1>4, <1>5
<1>7. Links'
  BY <1>1, <1>3, <1>6, LinksKept
<1>8. Applied(i, S)
  <2>1. work' \subseteq {"loaded", "failed"} \X Ids \X Ids
    BY <1>1, <1>3 DEF Types, TypeOK
  <2>2. value' \in [Ids -> {None} \cup SUBSET Ids]
    BY <1>1, <1>3 DEF Types
  <2>3. info[i] # None /\ S = info[i].wait /\ (info'[i] # None => info'[i].wait = {})
    BY <1>1, <1>4, <1>5
  <2> HIDE DEF S
  <2> QED
    BY <1>2, <1>3, <1>5, <1>6, <2>1, <2>2, <2>3 DEF Applied
<1> QED
  BY <1>7, <1>8, AppliedInv

\* An event of an entry that has been removed.
LEMMA IgnoreInv ==
    ASSUME IInv, ApplyEvent, NEW i \in Ids, i = Head(queue).id, Ignore(i)
    PROVE  IInv'
<1>1. Base /\ Types /\ Links /\ info[i] = None
  BY DEF IInv, Base, Ignore
<1>2. /\ work = {} /\ queue # <<>> /\ lock' = "events"
      /\ UNCHANGED <<index, app, task, loads, requests>> /\ DropHandles
  BY DEF ApplyEvent
<1>3. /\ value' = value /\ work' = work /\ waiter' = waiter /\ queue' = Tail(queue) /\ info' = info
  BY DEF Ignore
<1>4. Links'
  BY <1>3, InfoSame
<1>5. waiter' = Wake({})
  BY <1>1, <1>3 DEF Wake, Types
<1>6. Applied(i, {})
  <2>1. work' \subseteq {"loaded", "failed"} \X Ids \X Ids
    BY <1>1, <1>3 DEF Types, TypeOK
  <2>2. value' \in [Ids -> {None} \cup SUBSET Ids] /\ info' \in [Ids -> {None} \cup EntryType]
    BY <1>1, <1>3 DEF Types
  <2> QED
    BY <1>2, <1>3, <1>5, <2>1, <2>2 DEF Applied
<1> QED
  BY <1>4, <1>6, AppliedInv

\* HandleAssetSeverEvents takes one event.
LEMMA ApplyEventInv ==
    ASSUME IInv, ApplyEvent
    PROVE  IInv'
<1>1. PICK e : e = Head(queue)
  OBVIOUS
<1>2. e \in EventType
  BY <1>1, QueueTail DEF ApplyEvent, IInv, Base
<1>3. e.id \in Ids /\ e.deps \in SUBSET Ids
  BY <1>2 DEF EventType
<1>4. \/ e.k = "loaded" /\ ApplyLoaded(e.id, e.deps)
      \/ e.k = "failed" /\ ApplyFailed(e.id)
      \/ e.k = "fully" /\ ApplyFullyLoaded(e.id)
      \/ Ignore(e.id)
  BY <1>1 DEF ApplyEvent
<1> QED
  BY <1>1, <1>3, <1>4, ApplyLoadedInv, ApplyFailedInv, ApplyFullyLoadedInv, IgnoreInv

-----------------------------------------------------------------------------
(***************************************************************************)
(* The propagation.                                                        *)
(***************************************************************************)
\* A FullyLoaded event may be put in the queue; it holds no handle.
LEMMA FullyPushed ==
    ASSUME Base, NEW i \in Ids,
           queue' = queue \/ queue' = Append(queue, Event("fully", i, {}))
    PROVE  /\ queue' \in Seq(EventType) /\ EventsOk'
           /\ \A x \in Ids : Told(x)' => Told(x)
           /\ \A x \in Ids : (\E n \in DOMAIN queue' : x \in queue'[n].deps)
                                <=> \E n \in DOMAIN queue : x \in queue[n].deps
<1> DEFINE e == Event("fully", i, {})
           l == Len(queue) + 1
<1>1. queue \in Seq(EventType) /\ EventsOk
  BY DEF Base, Types
<1>2. e \in EventType /\ e.k = "fully" /\ e.deps = {} /\ e.id = i
  BY DEF Event, EventType
<1>3. CASE queue' = queue
  BY <1>1, <1>3, ToldSame
<1>4. CASE queue' = Append(queue, e)
  <2> HIDE DEF e
  <2>1. /\ queue' \in Seq(EventType) /\ DOMAIN queue' = DOMAIN queue \cup {l}
        /\ queue'[l] = e /\ \A n \in DOMAIN queue : queue'[n] = queue[n] /\ n # l
    BY <1>1, <1>2, <1>4, QueueAppend
  <2> HIDE DEF l
  <2>2. \A n \in DOMAIN queue' : queue'[n].k # "fully" => n \in DOMAIN queue /\ queue'[n] = queue[n]
    BY <1>2, <2>1
  <2>3. EventsOk'
    <3>1. ASSUME NEW m \in DOMAIN queue', NEW n \in DOMAIN queue', queue'[m].id = queue'[n].id,
                 queue'[m].k # "fully", queue'[n].k # "fully"
          PROVE  m = n
      BY <1>1, <2>2, <3>1 DEF EventsOk
    <3>2. ASSUME NEW n \in DOMAIN queue', NEW d \in queue'[n].deps
          PROVE  d[1] \in Deps[queue'[n].id[1]]
      BY <1>1, <1>2, <2>1, <3>2 DEF EventsOk
    <3> QED
      BY <3>1, <3>2 DEF EventsOk
  <2>4. \A x \in Ids : Told(x)' => Told(x)
    BY <2>2 DEF Told
  <2> QED
    BY <1>2, <2>1, <2>3, <2>4
<1> QED
  BY <1>3, <1>4

\* x is told that its dependency i has loaded, or has failed.
Settles(k, i, x) == k = "failed" \/ (info[x].rloading \ {i} = {} /\ info[x].rfailed = {})
Moved(k, i, x) ==
    /\ <<k, i, x>> \in work /\ info[x] # None /\ info'[x] # None /\ value' = value
    /\ \A y \in Ids : y # x => info'[y] = info[y]
    /\ info'[x].load = info[x].load /\ info'[x].rloading = info[x].rloading \ {i}
    /\ k = "failed" => info'[x].rfailed = info[x].rfailed \cup {i} /\ info'[x].rec = "failed"
    /\ k = "loaded" => /\ info'[x].rfailed = info[x].rfailed
                       /\ info'[x].rec = IF Settles(k, i, x) THEN "loaded" ELSE info[x].rec
    /\ Settles(k, i, x) =>
          info'[x].wr = {} /\ work' = (work \ {<<k, i, x>>}) \cup {<<k, x, y>> : y \in info[x].wr}
    /\ ~Settles(k, i, x) => info'[x].wr = info[x].wr /\ work' = work \ {<<k, i, x>>}

\* One level of the propagation keeps the links.
LEMMA MovedLinks ==
    ASSUME IInv, NEW k \in {"loaded", "failed"}, NEW i \in Ids, NEW x \in Ids, Moved(k, i, x)
    PROVE  Links'
<1>1. \A y \in Ids : StatesOk(y) /\ ValueOk(y) /\ WaitOk(y)
  BY DEF IInv, Links
<1>2. /\ \A y \in Ids : /\ info[y] # None => info[y] \in EntryType
                        /\ value[y] # None => value[y] \subseteq Ids
      /\ work \subseteq {"loaded", "failed"} \X Ids \X Ids
  BY DEF IInv, Base, Types, TypeOK
<1>3. \A c \in {"loaded", "failed"}, d, y \in Ids :
          <<c, d, y>> \in work => info[d] # None /\ info[d].rec = c
  BY DEF IInv, Links, WorkOk
<1>4. /\ <<k, i, x>> \in work /\ info[x] # None /\ info'[x] # None /\ value' = value
      /\ \A y \in Ids : y # x => info'[y] = info[y]
      /\ info'[x].load = info[x].load /\ info'[x].rloading = info[x].rloading \ {i}
      /\ info[i] # None /\ info[i].rec = k /\ info[i].wr = {}
  BY <1>1, <1>3 DEF Moved, StatesOk
<1>5. info[x].load = "loaded" /\ i \in info[x].rloading
  BY <1>1, <1>4 DEF WaitOk
<1>6. info[x].rec \in {"loading", "failed"} /\ (info[x].rec = "failed" => info[x].rfailed # {})
  <2>1. info[x].rec \in LoadStates
    BY <1>2, <1>4 DEF EntryType
  <2>2. StatesOk(x)
    BY <1>1
  <2> QED
    BY <1>4, <1>5, <2>1, <2>2 DEF StatesOk, LoadStates
<1>7. /\ info'[x].rec \in {"loading", "loaded", "failed"}
      /\ info'[x].rec = (IF Settles(k, i, x) THEN k ELSE info[x].rec)
      /\ info'[x].wr \subseteq info[x].wr
      /\ info[x].rfailed \subseteq info'[x].rfailed
      /\ i \in info'[x].rfailed \/ k = "loaded"
  BY <1>6 DEF Moved, Settles
\* a state that was final stays
<1>8. ASSUME NEW d \in Ids, info[d] # None, info[d].rec # "loading"
      PROVE  info'[d] # None /\ info'[d].rec = info[d].rec
  <2>1. CASE d = x
    <3>1. info[x].rec = "failed" /\ info[x].rfailed # {}
      BY <1>6, <1>8, <2>1
    <3> QED
      BY <1>4, <1>7, <2>1, <3>1 DEF Settles
  <2>2. CASE d # x
    BY <1>4, <1>8, <2>2
  <2> QED
    BY <2>1, <2>2
<1>9. /\ \A t \in work : t # <<k, i, x>> => t \in work'
      /\ \A y \in info[x].wr : <<k, x, y>> \in work' \/ (~Settles(k, i, x) /\ y \in info'[x].wr)
      /\ \A t \in work' : \/ t \in work /\ t # <<k, i, x>>
                          \/ Settles(k, i, x) /\ \E y \in info[x].wr : t = <<k, x, y>>
  BY DEF Moved
<1>10. WorkOk'
  <2> SUFFICES ASSUME NEW t \in work' PROVE info'[t[2]] # None /\ info'[t[2]].rec = t[1]
    BY DEF WorkOk
  <2>1. CASE t \in work
    <3>1. t[2] \in Ids /\ t[1] \in {"loaded", "failed"} /\ info[t[2]] # None /\ info[t[2]].rec = t[1]
      BY <1>2, <2>1 DEF IInv, Links, WorkOk
    <3> QED
      BY <1>8, <3>1
  <2>2. CASE Settles(k, i, x) /\ \E y \in info[x].wr : t = <<k, x, y>>
    BY <1>4, <1>7, <2>2
  <2> QED
    BY <1>9, <2>1, <2>2
<1>11. ASSUME NEW y \in Ids PROVE StatesOk(y)'
  <2>1. CASE y # x
    BY <1>1, <1>4, <2>1 DEF StatesOk
  <2>2. CASE y = x /\ k = "failed"
    BY <1>4, <1>5, <1>7, <2>2 DEF StatesOk, Moved, Settles
  <2>3. CASE y = x /\ k = "loaded"
    BY <1>1, <1>4, <1>5, <1>6, <2>3 DEF StatesOk, Moved, Settles
  <2> QED
    BY <2>1, <2>2, <2>3
<1>12. ASSUME NEW y \in Ids PROVE ValueOk(y)'
  <2> SUFFICES ASSUME info'[y] # None, info'[y].load = "loaded"
               PROVE  /\ value[y] # None /\ info'[y].rloading \subseteq value[y]
                      /\ \A d \in value[y] : \/ d \in info'[y].rloading \cup info'[y].rfailed
                                             \/ info'[d] # None /\ info'[d].rec = "loaded"
                      /\ \A d \in info'[y].rloading :
                            \/ info'[d] # None /\ info'[d].rec = "loading" /\ y \in info'[d].wr
                            \/ <<"loaded", d, y>> \in work' \/ <<"failed", d, y>> \in work'
    BY <1>4 DEF ValueOk
  <2>1. info[y] # None /\ info[y].load = "loaded"
    BY <1>4
  <2>2. /\ value[y] # None /\ info[y].rloading \subseteq value[y] /\ value[y] \subseteq Ids
        /\ \A d \in value[y] : \/ d \in info[y].rloading \cup info[y].rfailed
                               \/ info[d] # None /\ info[d].rec = "loaded"
        /\ \A d \in info[y].rloading :
              \/ info[d] # None /\ info[d].rec = "loading" /\ y \in info[d].wr
              \/ <<"loaded", d, y>> \in work \/ <<"failed", d, y>> \in work
    BY <1>1, <1>2, <2>1 DEF ValueOk
  <2>3. /\ info'[y].rloading \subseteq info[y].rloading
        /\ \A d \in info[y].rloading : d \in info'[y].rloading \/ (y = x /\ d = i)
        /\ info[y].rfailed \subseteq info'[y].rfailed
        /\ y = x => i \notin info'[y].rloading
    BY <1>4, <1>7
  <2>4. ASSUME NEW d \in value[y]
        PROVE  d \in info'[y].rloading \cup info'[y].rfailed \/ (info'[d] # None /\ info'[d].rec = "loaded")
    <3>1. CASE d \in info[y].rloading \cup info[y].rfailed
      <4>1. CASE y = x /\ d = i /\ k = "loaded"
        BY <1>4, <1>8, <4>1
      <4>2. CASE y = x /\ d = i /\ k = "failed"
        BY <1>7, <4>2
      <4> QED
        BY <2>3, <3>1, <4>1, <4>2
    <3>2. CASE info[d] # None /\ info[d].rec = "loaded"
      BY <1>8, <2>2, <3>2
    <3> QED
      BY <2>2, <3>1, <3>2
  <2>5. ASSUME NEW d \in info'[y].rloading
        PROVE  \/ info'[d] # None /\ info'[d].rec = "loading" /\ y \in info'[d].wr
               \/ <<"loaded", d, y>> \in work' \/ <<"failed", d, y>> \in work'
    <3>1. d \in Ids /\ d \in info[y].rloading /\ ~(y = x /\ d = i)
      BY <2>2, <2>3
    <3>2. CASE info[d] # None /\ info[d].rec = "loading" /\ y \in info[d].wr
      <4>1. CASE d = x
        BY <1>4, <1>7, <1>9, <3>2, <4>1
      <4>2. CASE d # x
        BY <1>4, <3>1, <3>2, <4>2
      <4> QED
        BY <4>1, <4>2
    <3>3. CASE <<"loaded", d, y>> \in work \/ <<"failed", d, y>> \in work
      BY <1>9, <3>1, <3>3
    <3> QED
      BY <2>2, <3>1, <3>2, <3>3
  <2> QED
    BY <2>2, <2>3, <2>4, <2>5
<1>13. ASSUME NEW y \in Ids PROVE WaitOk(y)'
  <2> SUFFICES ASSUME info'[y] # None, NEW d \in Ids,
                      \/ info'[d] # None /\ y \in info'[d].wr
                      \/ <<"loaded", d, y>> \in work' \/ <<"failed", d, y>> \in work'
               PROVE  info'[y].load = "loaded" /\ d \in info'[y].rloading
    BY DEF WaitOk
  <2>1. info[y] # None /\ info'[y].load = info[y].load
    BY <1>4
  <2>2. /\ \/ info[d] # None /\ y \in info[d].wr
           \/ <<"loaded", d, y>> \in work \/ <<"failed", d, y>> \in work
        /\ ~(y = x /\ d = i)
    <3>1. CASE info'[d] # None /\ y \in info'[d].wr
      <4>1. info[d] # None /\ y \in info[d].wr
        BY <1>4, <1>7, <3>1
      <4> QED
        BY <1>4, <4>1
    <3>2. ASSUME NEW c \in {"loaded", "failed"}, <<c, d, y>> \in work', <<c, d, y>> \in work,
                 <<c, d, y>> # <<k, i, x>>
          PROVE  ~(y = x /\ d = i)
      BY <1>3, <1>4, <3>2
    <3>3. ASSUME NEW c \in {"loaded", "failed"}, NEW z \in info[x].wr, <<c, d, y>> = <<k, x, z>>
          PROVE  d = x /\ y \in info[d].wr /\ ~(y = x /\ d = i)
      BY <1>4, <3>3
    <3>4. ASSUME NEW c \in {"loaded", "failed"}, <<c, d, y>> \in work'
          PROVE  /\ \/ info[d] # None /\ y \in info[d].wr
                    \/ <<c, d, y>> \in work
                 /\ ~(y = x /\ d = i)
      BY <1>4, <1>9, <3>2, <3>3, <3>4
    <3> QED
      BY <3>1, <3>4
  <2>3. info[y].load = "loaded" /\ d \in info[y].rloading
    BY <1>1, <2>1, <2>2 DEF WaitOk
  <2> QED
    BY <1>4, <2>1, <2>2, <2>3
<1> QED
  BY <1>10, <1>11, <1>12, <1>13 DEF Links

\* One level of the propagation: propagate_loaded_state, propagate_failed_state,
\* or nothing, if the dependent has been removed.
LEMMA PropagateInv ==
    ASSUME IInv, NEW t \in work, Propagate(t[1], t[2], t[3])
    PROVE  IInv'
<1>1. Base /\ Types /\ TypeOK /\ Links /\ Accounts
  BY DEF IInv, Base, Types
<1>2. PICK k \in {"loaded", "failed"} : \E i \in Ids : \E x \in Ids : t = <<k, i, x>>
  BY <1>1 DEF TypeOK
<1>3. PICK i \in Ids : \E x \in Ids : t = <<k, i, x>>
  BY <1>2
<1>4. PICK x \in Ids : t = <<k, i, x>>
  BY <1>3
<1>5. /\ <<k, i, x>> \in work
      /\ UNCHANGED <<index, lock, drops, value, app, task, loads, requests>>
      /\ \/ k = "loaded" /\ info[x] # None /\ PropagateLoaded(i, x)
         \/ k = "failed" /\ info[x] # None /\ PropagateFailed(i, x)
         \/ info[x] = None /\ work' = work \ {<<k, i, x>>} /\ UNCHANGED <<info, queue, waiter>>
  BY <1>4 DEF Propagate
\* what every step of it keeps
<1>6. ASSUME /\ info' \in [Ids -> {None} \cup EntryType]
             /\ \A y \in Ids :
                   /\ info'[y] = None <=> info[y] = None
                   /\ info[y] # None =>
                        /\ info'[y].load = info[y].load /\ info'[y].skip = info[y].skip
                        /\ info'[y].wr \subseteq info[y].wr /\ info'[y].wait \subseteq info[y].wait
             /\ work' \subseteq {"loaded", "failed"} \X Ids \X Ids
             /\ queue' = queue \/ queue' = Append(queue, Event("fully", x, {})),
             NEW S,
             \/ S = {}
             \/ info[x] # None /\ S = info[x].wait /\ (info'[x] # None => info'[x].wait = {}),
             waiter' = Wake(S), Links'
      PROVE  IInv'
  <2>1. /\ queue' \in Seq(EventType) /\ EventsOk'
        /\ \A y \in Ids : Told(y)' => Told(y)
        /\ \A y \in Ids : (\E n \in DOMAIN queue' : y \in queue'[n].deps)
                             <=> \E n \in DOMAIN queue : y \in queue[n].deps
    BY <1>1, <1>6, FullyPushed
  <2>2. /\ WaitersOk'
        /\ waiter' \in [Waiters -> [st : {"idle", "poll", "parked", "done"}, id : Ids \cup {None}]]
        /\ \A w \in Waiters : waiter'[w].id = waiter[w].id
    BY <1>1, <1>6, Woken
  <2>3. ASSUME NEW y \in Ids PROVE Alive(y)' <=> Alive(y)
    <3>1. (\E w \in Waiters : waiter'[w].id = y) <=> \E w \in Waiters : waiter[w].id = y
      BY <2>2
    <3> QED
      BY <1>5, <2>1, <3>1 DEF Alive, loads
  <2>4. Accounts'
    BY <1>1, <1>5, <1>6, <2>3, HandlesSame
  <2>5. Types'
    <3>1. \A n \in DOMAIN queue' : queue'[n] \in EventType
      BY <2>1
    <3>2. \A w \in Waiters : /\ waiter'[w].st \in {"idle", "poll", "parked", "done"}
                             /\ waiter'[w].id \in Ids \cup {None}
      BY <2>2
    <3>3. \A y \in Ids : info'[y] = None \/ info'[y] \in EntryType
      BY <1>6
    <3>4. lock = "events"
      BY <1>1, <1>5 DEF TypeOK
    <3> QED
      BY <1>1, <1>5, <1>6, <2>1, <2>2, <3>1, <3>2, <3>3, <3>4 DEF Types, TypeOK, EventType, loads
  <2>6. InsertsOk'
    BY <1>1, <1>5 DEF Base, InsertsOk, loads
  <2>7. ASSUME NEW y \in Ids PROVE TaskOk(y)'
    <3>1. TaskOk(y) /\ index' = index /\ task'[y] = task[y] /\ (Told(y)' => Told(y))
      BY <1>1, <1>5, <2>1 DEF Base
    <3>2. /\ info'[y] # None => info[y] # None /\ info'[y].load = info[y].load
          /\ \A d \in Ids : info'[d] # None /\ y \in info'[d].wr => info[d] # None /\ y \in info[d].wr
      BY <1>6
    <3> QED
      BY <3>1, <3>2, TaskKept
  <2> QED
    BY <1>1, <1>6, <2>1, <2>2, <2>4, <2>5, <2>6, <2>7, BaseKept DEF IInv
<1>7. waiter = [w \in Waiters |-> waiter[w]] /\ Wake({}) = [w \in Waiters |-> waiter[w]]
  BY <1>1 DEF Types, Wake
<1>8. info[x] # None =>
         info[x] \in EntryType /\ info[x].wr \subseteq Ids /\ info[x].rloading \subseteq Ids
         /\ info[x].rfailed \subseteq Ids
  BY <1>1 DEF Types, EntryType
<1>9. CASE k = "loaded" /\ info[x] # None /\ PropagateLoaded(i, x)
  <2> DEFINE left == info[x].rloading \ {i}
             all == left = {} /\ info[x].rfailed = {}
             rec == IF all THEN "loaded" ELSE info[x].rec
             wr == IF all THEN {} ELSE info[x].wr
             n1 == [info[x] EXCEPT !.rloading = left]
             new == [n1 EXCEPT !.rec = rec, !.wr = wr]
  <2>1. info' = [info EXCEPT ![x] = new]
    BY <1>9 DEF PropagateLoaded
  <2>2. /\ work' = (work \ {<<"loaded", i, x>>})
                      \cup IF all THEN {<<"loaded", x, y>> : y \in info[x].wr} ELSE {}
        /\ queue' = queue \/ queue' = Append(queue, Event("fully", x, {}))
        /\ waiter' = waiter
    BY <1>9 DEF PropagateLoaded
  <2>3. left \subseteq Ids /\ rec \in LoadStates /\ wr \subseteq info[x].wr /\ info[x] \in EntryType
    BY <1>8, <1>9 DEF EntryType, LoadStates
  <2> HIDE DEF left, rec, wr
  <2>4. /\ new \in EntryType /\ new # None /\ new.load = info[x].load /\ new.skip = info[x].skip
        /\ new.rec = rec /\ new.wr = wr /\ new.rloading = left /\ new.rfailed = info[x].rfailed
        /\ new.wait = info[x].wait
    <3>1. /\ n1 \in EntryType /\ n1.load = info[x].load /\ n1.skip = info[x].skip
          /\ n1.rloading = left /\ n1.rfailed = info[x].rfailed /\ n1.wait = info[x].wait
      BY <2>3 DEF EntryType
    <3>2. wr \subseteq Ids
      BY <1>8, <1>9, <2>3
    <3> HIDE DEF n1
    <3> QED
      BY <2>3, <3>1, <3>2, Paths1, ZenonT(40) DEF EntryType
  <2> HIDE DEF new
  <2>5. /\ info' \in [Ids -> {None} \cup EntryType] /\ info'[x] = new
        /\ \A y \in Ids : y # x => info'[y] = info[y]
    BY <1>1, <2>1, <2>4 DEF Types
  <2>6. Moved("loaded", i, x)
    <3>1. all <=> Settles("loaded", i, x)
      BY DEF Settles, left
    <3>2. /\ all => /\ info'[x].wr = {} /\ info'[x].rec = "loaded"
                    /\ work' = (work \ {<<"loaded", i, x>>}) \cup {<<"loaded", x, y>> : y \in info[x].wr}
          /\ ~all => /\ info'[x].wr = info[x].wr /\ info'[x].rec = info[x].rec
                     /\ work' = work \ {<<"loaded", i, x>>}
      BY <2>2, <2>4, <2>5 DEF rec, wr
    <3>3. /\ <<"loaded", i, x>> \in work /\ info[x] # None /\ info'[x] # None /\ value' = value
          /\ info'[x].load = info[x].load /\ info'[x].rloading = info[x].rloading \ {i}
          /\ info'[x].rfailed = info[x].rfailed
      BY <1>5, <1>9, <2>4, <2>5 DEF left
    <3> HIDE DEF all
    <3> QED
      BY <2>5, <3>1, <3>2, <3>3 DEF Moved
  <2>7. Links'
    BY <2>6, MovedLinks
  <2>8. work' \subseteq {"loaded", "failed"} \X Ids \X Ids
    <3>1. work \subseteq {"loaded", "failed"} \X Ids \X Ids /\ info[x].wr \subseteq Ids
      BY <1>1, <1>8, <1>9 DEF TypeOK
    <3>2. {<<"loaded", x, y>> : y \in info[x].wr} \subseteq {"loaded", "failed"} \X Ids \X Ids
      BY <3>1
    <3> QED
      BY <2>2, <3>1, <3>2
  <2>9. \A y \in Ids :
           /\ info'[y] = None <=> info[y] = None
           /\ info[y] # None =>
                /\ info'[y].load = info[y].load /\ info'[y].skip = info[y].skip
                /\ info'[y].wr \subseteq info[y].wr /\ info'[y].wait \subseteq info[y].wait
    BY <1>9, <2>3, <2>4, <2>5
  <2>10. waiter' = Wake({})
    BY <1>7, <2>2
  <2> QED
    BY <1>6, <2>2, <2>5, <2>7, <2>8, <2>9, <2>10
<1>10. CASE k = "failed" /\ info[x] # None /\ PropagateFailed(i, x)
  <2> DEFINE rl == info[x].rloading \ {i}
             rf == info[x].rfailed \cup {i}
             n1 == [info[x] EXCEPT !.rloading = rl, !.rfailed = rf]
             new == [n1 EXCEPT !.rec = "failed", !.wr = {}, !.wait = {}]
             S == info[x].wait
  <2>1. info' = [info EXCEPT ![x] = new]
    BY <1>10 DEF PropagateFailed
  <2>2. /\ work' = (work \ {<<"failed", i, x>>}) \cup {<<"failed", x, y>> : y \in info[x].wr}
        /\ queue' = queue /\ waiter' = Wake(S)
    BY <1>10 DEF PropagateFailed
  <2>3. rl \subseteq Ids /\ rf \subseteq Ids /\ info[x] \in EntryType
    BY <1>8, <1>10
  <2> HIDE DEF rl, rf
  <2>4. /\ n1 \in EntryType /\ n1.load = info[x].load /\ n1.skip = info[x].skip
        /\ n1.rloading = rl /\ n1.rfailed = rf
    BY <2>3 DEF EntryType
  <2> HIDE DEF n1
  <2>5. /\ new \in EntryType /\ new # None /\ new.load = n1.load /\ new.skip = n1.skip
        /\ new.rec = "failed" /\ new.wr = {} /\ new.wait = {}
        /\ new.rloading = n1.rloading /\ new.rfailed = n1.rfailed
    BY <2>4, Paths1, ZenonT(40) DEF EntryType, LoadStates
  <2> HIDE DEF new
  <2>6. /\ info' \in [Ids -> {None} \cup EntryType] /\ info'[x] = new
        /\ \A y \in Ids : y # x => info'[y] = info[y]
    BY <1>1, <2>1, <2>5 DEF Types
  <2>7. Moved("failed", i, x)
    <3>1. Settles("failed", i, x)
      BY DEF Settles
    <3>2. /\ <<"failed", i, x>> \in work /\ info[x] # None /\ info'[x] # None /\ value' = value
          /\ info'[x].load = info[x].load /\ info'[x].rloading = info[x].rloading \ {i}
          /\ info'[x].rfailed = info[x].rfailed \cup {i} /\ info'[x].rec = "failed" /\ info'[x].wr = {}
      BY <1>5, <1>10, <2>4, <2>5, <2>6 DEF rl, rf
    <3> QED
      BY <2>2, <2>6, <3>1, <3>2 DEF Moved
  <2>8. Links'
    BY <2>7, MovedLinks
  <2>9. work' \subseteq {"loaded", "failed"} \X Ids \X Ids
    <3>1. work \subseteq {"loaded", "failed"} \X Ids \X Ids /\ info[x].wr \subseteq Ids
      BY <1>1, <1>8, <1>10 DEF TypeOK
    <3>2. {<<"failed", x, y>> : y \in info[x].wr} \subseteq {"loaded", "failed"} \X Ids \X Ids
      BY <3>1
    <3> QED
      BY <2>2, <3>1, <3>2
  <2>10. \A y \in Ids :
           /\ info'[y] = None <=> info[y] = None
           /\ info[y] # None =>
                /\ info'[y].load = info[y].load /\ info'[y].skip = info[y].skip
                /\ info'[y].wr \subseteq info[y].wr /\ info'[y].wait \subseteq info[y].wait
    BY <1>10, <2>4, <2>5, <2>6
  <2>11. info[x] # None /\ S = info[x].wait /\ (info'[x] # None => info'[x].wait = {})
    BY <1>10, <2>5, <2>6
  <2> HIDE DEF S
  <2> QED
    BY <1>6, <2>2, <2>6, <2>8, <2>9, <2>10, <2>11
<1>11. CASE info[x] = None /\ work' = work \ {<<k, i, x>>} /\ UNCHANGED <<info, queue, waiter>>
  <2>1. Links'
    <3>1. WorkOk'
      BY <1>1, <1>11 DEF Links, WorkOk
    <3>2. ASSUME NEW y \in Ids PROVE StatesOk(y)' /\ WaitOk(y)'
      BY <1>1, <1>11 DEF Links, StatesOk, WaitOk
    <3>3. ASSUME NEW y \in Ids PROVE ValueOk(y)'
      <4> SUFFICES ASSUME info[y] # None, y # x PROVE ValueOk(y)'
        BY <1>11 DEF ValueOk
      <4>1. ValueOk(y)
        BY <1>1 DEF Links
      <4>2. \A c \in {"loaded", "failed"}, d \in info[y].rloading : <<c, d, y>> \in work => <<c, d, y>> \in work'
        BY <1>11
      <4> QED
        BY <1>5, <1>11, <4>1, <4>2 DEF ValueOk
    <3> QED
      BY <3>1, <3>2, <3>3 DEF Links
  <2>2. work' \subseteq {"loaded", "failed"} \X Ids \X Ids /\ info' \in [Ids -> {None} \cup EntryType]
    BY <1>1, <1>11 DEF Types, TypeOK
  <2>3. waiter' = Wake({})
    BY <1>7, <1>11
  <2> QED
    BY <1>6, <1>11, <2>1, <2>2, <2>3
<1> QED
  BY <1>5, <1>9, <1>10, <1>11

-----------------------------------------------------------------------------
(***************************************************************************)
(* Drops.                                                                  *)
(***************************************************************************)
\* A drop that is not to be skipped is the drop of an entry nobody holds.
LEMMA DropOfNobody ==
    ASSUME IInv, NEW i \in Ids, drops[i] > 0, info[i] # None, info[i].skip = 0
    PROVE  ~Alive(i) /\ drops[i] = 1
<1>1. Account(i)
  BY DEF IInv, Accounts
<1> QED
  BY <1>1 DEF Account

\* process_handle_drop.
LEMMA ApplyDropInv ==
    ASSUME IInv, NEW i \in Ids, ApplyDrop(i)
    PROVE  IInv'
<1>1. Base /\ Types /\ TypeOK /\ Links /\ Accounts
  BY DEF IInv, Base, Types
<1>2. /\ lock \in {"free", "drops"} /\ drops[i] > 0 /\ lock' = "drops"
      /\ UNCHANGED <<index, work, queue, app, insert, lost, waiter, requests>>
      /\ \A x \in Ids : drops'[x] = drops[x] + (IF Alive(x) /\ ~Alive(x)' THEN 1 ELSE 0)
                                             - (IF x = i THEN 1 ELSE 0)
      /\ drops' = [x \in Ids |-> drops'[x]]
      /\ drops \in [Ids -> Nat]
  BY <1>1 DEF ApplyDrop, TypeOK
<1>3. work = {} /\ work' = {}
  BY <1>1, <1>2 DEF TypeOK
<1> DEFINE removed == info[i] # None /\ info[i].skip = 0
<1>4. /\ task' \in [Ids -> [pc : {"none", "meta", "load"}, todo : SUBSET Paths, got : SUBSET Ids]]
      /\ \A x \in Ids : task'[x] = task[x] \/ (x = i /\ task'[x] = NoTask)
      /\ pending' \subseteq Ids
  <2>1. task' = task \/ task' = [task EXCEPT ![i] = NoTask]
    BY DEF ApplyDrop, Dropped
  <2>2. NoTask \in [pc : {"none", "meta", "load"}, todo : SUBSET Paths, got : SUBSET Ids]
    BY DEF NoTask
  <2>3. pending' \subseteq Ids
    BY <1>1 DEF ApplyDrop, TypeOK
  <2> QED
    BY <1>1, <2>1, <2>2, <2>3 DEF TypeOK
<1>5. removed => /\ info' = [info EXCEPT ![i] = None] /\ value' = [value EXCEPT ![i] = None]
  BY DEF ApplyDrop
<1>6. ~removed =>
         /\ info' = IF info[i] = None THEN info ELSE [info EXCEPT ![i].skip = @ - 1]
         /\ UNCHANGED <<value, task, pending>>
  BY DEF ApplyDrop
<1>7. info \in [Ids -> {None} \cup EntryType] /\ value \in [Ids -> {None} \cup SUBSET Ids]
  BY <1>1 DEF Types
<1>8. /\ value' \in [Ids -> {None} \cup SUBSET Ids]
      /\ \A x \in Ids : value'[x] = value[x] \/ (removed /\ x = i /\ value'[x] = None)
  <2>1. CASE removed
    BY <1>5, <1>7, <2>1
  <2>2. CASE ~removed
    BY <1>6, <1>7, <2>2
  <2> QED
    BY <2>1, <2>2
<1>9. /\ info' \in [Ids -> {None} \cup EntryType]
      /\ \A x \in Ids : x # i => info'[x] = info[x]
      /\ removed => info'[i] = None
      /\ info[i] = None => info'[i] = None
      /\ info[i] # None /\ info[i].skip # 0 =>
            /\ info'[i] # None /\ info'[i].load = info[i].load /\ info'[i].rec = info[i].rec
            /\ info'[i].rloading = info[i].rloading /\ info'[i].rfailed = info[i].rfailed
            /\ info'[i].wr = info[i].wr /\ info'[i].wait = info[i].wait
            /\ info'[i].skip = info[i].skip - 1
  <2>1. CASE removed
    BY <1>5, <1>7, <2>1
  <2>2. CASE info[i] = None
    BY <1>6, <1>7, <2>2
  <2>3. CASE info[i] # None /\ info[i].skip # 0
    <3> DEFINE new == [info[i] EXCEPT !.skip = @ - 1]
    <3>1. info' = [info EXCEPT ![i] = new]
      BY <1>6, <2>3
    <3>2. info[i] \in EntryType /\ info[i].skip \in Nat
      BY <1>7, <2>3 DEF EntryType
    <3>3. /\ new \in EntryType /\ new # None /\ new.load = info[i].load /\ new.rec = info[i].rec
          /\ new.rloading = info[i].rloading /\ new.rfailed = info[i].rfailed
          /\ new.wr = info[i].wr /\ new.wait = info[i].wait /\ new.skip = info[i].skip - 1
      BY <2>3, <3>2, Paths1 DEF EntryType
    <3> HIDE DEF new
    <3>4. info'[i] = new /\ \A x \in Ids : x # i => info'[x] = info[x]
      BY <1>7, <3>1
    <3>5. info' \in [Ids -> {None} \cup EntryType]
      BY <1>7, <3>1, <3>3
    <3> QED
      BY <2>3, <3>3, <3>4, <3>5
  <2> QED
    BY <2>1, <2>2, <2>3
<1>10. ASSUME NEW x \in Ids, Alive(x)' PROVE Alive(x)
  <2>1. x # None
    BY Paths1
  <2>2. (\E t \in Ids : x \in task'[t].got) => \E t \in Ids : x \in task[t].got
    BY <1>4 DEF NoTask
  <2>3. task'[x].pc = "meta" => task[x].pc = "meta"
    BY <1>4 DEF NoTask
  <2>4. (\E v \in Ids : value'[v] # None /\ x \in value'[v]) => \E v \in Ids : value[v] # None /\ x \in value[v]
    BY <1>8
  <2> QED
    BY <1>2, <1>10, <2>2, <2>3, <2>4 DEF Alive
<1>11. removed => ~Alive(i) /\ drops[i] = 1
  BY <1>2, DropOfNobody
<1> HIDE DEF removed
<1>12. drops' \in [Ids -> Nat]
  <2>1. \A x \in Ids : drops'[x] \in Nat
    <3> SUFFICES ASSUME NEW x \in Ids PROVE drops'[x] \in Nat
      OBVIOUS
    <3>1. drops[x] \in Nat /\ (x = i => drops[x] > 0)
      BY <1>2
    <3> QED
      BY <1>2, <3>1
  <2> QED
    BY <1>2, <2>1
<1>13. ASSUME NEW x \in Ids PROVE Account(x)' /\ Held(x)'
  <2>1. Account(x) /\ Held(x) /\ drops[x] \in Nat /\ (info[x] # None => info[x].skip \in Nat)
    BY <1>1, <1>2, <1>7 DEF Accounts, EntryType
  <2>2. drops'[x] = drops[x] + (IF Alive(x) /\ ~Alive(x)' THEN 1 ELSE 0) - (IF x = i THEN 1 ELSE 0)
    BY <1>2
  <2>3. CASE x # i
    <3>1. info'[x] = info[x]
      BY <1>9, <2>3
    <3>2. CASE info[x] = None
      BY <1>10, <2>1, <2>2, <2>3, <3>1, <3>2 DEF Account, Held
    <3>3. CASE info[x] # None /\ Alive(x)
      BY <1>10, <2>1, <2>2, <2>3, <3>1, <3>3 DEF Account, Held
    <3>4. CASE info[x] # None /\ ~Alive(x)
      BY <1>10, <2>1, <2>2, <2>3, <3>1, <3>4 DEF Account, Held
    <3> QED
      BY <3>2, <3>3, <3>4
  <2>4. CASE x = i /\ removed
    <3>1. ~Alive(i) /\ ~(Alive(i)') /\ drops[i] = 1 /\ info'[i] = None
      BY <1>9, <1>10, <1>11, <2>4
    <3>2. drops'[i] = 0
      BY <2>2, <2>4, <3>1
    <3> QED
      BY <2>4, <3>1, <3>2 DEF Account, Held
  <2>5. CASE x = i /\ info[i] = None
    BY <1>2, <2>1, <2>5 DEF Account
  <2>6. CASE x = i /\ info[i] # None /\ info[i].skip # 0
    <3>1. info'[i] # None /\ info'[i].skip = info[i].skip - 1
      BY <1>9, <2>6
    <3>2. CASE Alive(i)
      BY <2>1, <2>2, <2>6, <3>1, <3>2 DEF Account, Held
    <3>3. CASE ~Alive(i)
      BY <1>10, <2>1, <2>2, <2>6, <3>1, <3>3 DEF Account, Held
    <3> QED
      BY <3>2, <3>3
  <2> QED
    BY <2>3, <2>4, <2>5, <2>6 DEF removed
<1>14. Accounts'
  BY <1>13 DEF Accounts
<1>15. Types'
  <2>1. \A x \in Ids : /\ info'[x] = None \/ info'[x] \in EntryType
                       /\ value'[x] = None \/ value'[x] \subseteq Ids
    BY <1>8, <1>9
  <2> QED
    BY <1>1, <1>2, <1>3, <1>4, <1>8, <1>9, <1>12, <2>1 DEF Types, TypeOK
<1>16. EventsOk' /\ InsertsOk' /\ WaitersOk'
  <2>1. EventsOk' /\ InsertsOk'
    BY <1>1, <1>2 DEF Base, EventsOk, InsertsOk
  <2>2. \A x \in Ids : info'[x] # None => info[x] # None /\ info'[x].wait = info[x].wait
    BY <1>9 DEF removed
  <2>3. WaitersOk'
    BY <1>1, <1>2, <2>2 DEF Base, WaitersOk
  <2> QED
    BY <2>1, <2>3
<1>17. ASSUME NEW x \in Ids PROVE TaskOk(x)'
  <2>1. TaskOk(x) /\ index' = index /\ (Told(x)' => Told(x))
    BY <1>1, <1>2, ToldSame DEF Base
  <2>2. info'[x] # None => info[x] # None /\ info'[x].load = info[x].load
    BY <1>9 DEF removed
  <2>3. \A d \in Ids : info'[d] # None /\ x \in info'[d].wr => info[d] # None /\ x \in info[d].wr
    BY <1>9 DEF removed
  <2>4. CASE task'[x] = task[x]
    BY <2>1, <2>2, <2>3, <2>4, TaskKept
  <2>5. CASE task'[x] = NoTask
    <3>1. Fresh(x)' <=> Fresh(x)
      BY <2>1 DEF Fresh
    <3> QED
      BY <2>1, <2>2, <2>3, <2>5, <3>1 DEF TaskOk, NoTask
  <2> QED
    BY <1>4, <2>4, <2>5
<1>18. Links'
  <2>1. CASE ~removed
    <3>1. \A x \in Ids :
              /\ info'[x] = None <=> info[x] = None
              /\ info[x] # None =>
                    /\ info'[x].load = info[x].load /\ info'[x].rec = info[x].rec
                    /\ info'[x].rloading = info[x].rloading
                    /\ info'[x].rfailed = info[x].rfailed /\ info'[x].wr = info[x].wr
      BY <1>9, <2>1 DEF removed
    <3>2. value' = value
      BY <1>6, <2>1 DEF removed
    <3> QED
      BY <1>1, <1>2, <3>1, <3>2, LinksKept
  <2>2. CASE removed
    <3>1. info'[i] = None /\ \A x \in Ids : x # i => info'[x] = info[x] /\ value'[x] = value[x]
      BY <1>8, <1>9, <2>2
    <3>2. \A y \in Ids : StatesOk(y) /\ ValueOk(y) /\ WaitOk(y)
      BY <1>1 DEF Links
    <3>3. WorkOk'
      BY <1>3 DEF WorkOk
    <3>4. ASSUME NEW y \in Ids PROVE StatesOk(y)' /\ WaitOk(y)'
      BY <1>3, <3>1, <3>2 DEF StatesOk, WaitOk
    \* what a value holds is held, and so is not the one that is removed
    <3>5. ASSUME NEW y \in Ids PROVE ValueOk(y)'
      <4> SUFFICES ASSUME y # i, info[y] # None, info[y].load = "loaded" PROVE ValueOk(y)'
        BY <3>1 DEF ValueOk
      <4>1. value[y] # None /\ i \notin value[y] /\ value[y] \subseteq Ids
        BY <1>7, <1>11, <2>2, <3>2 DEF ValueOk, Alive
      <4>2. info[y].rloading \subseteq value[y]
        BY <3>2 DEF ValueOk
      <4>3. \A d \in value[y] : info'[d] = info[d]
        BY <3>1, <4>1
      <4>4. ValueOk(y)
        BY <3>2
      <4> QED
        BY <1>3, <3>1, <4>1, <4>2, <4>3, <4>4 DEF ValueOk
    <3> QED
      BY <3>3, <3>4, <3>5 DEF Links
  <2> QED
    BY <2>1, <2>2
<1> QED
  BY <1>1, <1>14, <1>15, <1>16, <1>17, <1>18, BaseKept DEF IInv

-----------------------------------------------------------------------------
(***************************************************************************)
(* The theorems.                                                           *)
(***************************************************************************)
\* At first there is no entry, no task and no handle.
LEMMA InitIInv == Init => IInv
<1> SUFFICES ASSUME Init PROVE IInv
  OBVIOUS
<1>1. \A i \in Ids : /\ info[i] = None /\ drops[i] = 0 /\ value[i] = None /\ task[i] = NoTask
  BY DEF Init
<1>2. queue = <<>> /\ queue \in Seq(EventType) /\ DOMAIN queue = {} /\ work = {}
  BY DEF Init
<1>3. \A w \in Waiters : waiter[w].st = "idle" /\ waiter[w].id = None
  BY DEF Init
<1>4. \A r \in Requesters : insert[r] = NoInsert /\ insert[r].id = None
  BY DEF Init, NoInsert
<1>5. Types
  <2>1. TypeOK
    <3>1. task \in [Ids -> [pc : {"none", "meta", "load"}, todo : SUBSET Paths, got : SUBSET Ids]]
      BY DEF Init, NoTask
    <3>2. insert \in [Requesters -> [id : Ids \cup {None}, old : BOOLEAN]]
      BY DEF Init, NoInsert
    <3>3. drops \in [Ids -> Nat]
      BY DEF Init
    <3>4. \A p \in Paths : index[p] \in 0 .. MaxEntries[p]
      BY Paths1 DEF Init
    <3>5. lock = "free" /\ app = {} /\ pending = {} /\ lost = {} /\ requests \in 0 .. MaxRequests
      BY ServerAssumption DEF Init
    <3> QED
      BY <1>1, <1>2, <1>3, <3>1, <3>2, <3>3, <3>4, <3>5 DEF TypeOK
  <2>2. /\ info \in [Ids -> {None} \cup EntryType] /\ index \in [Paths -> Nat]
        /\ value \in [Ids -> {None} \cup SUBSET Ids]
        /\ waiter \in [Waiters -> [st : {"idle", "poll", "parked", "done"}, id : Ids \cup {None}]]
    BY DEF Init
  <2> QED
    BY <1>2, <2>1, <2>2 DEF Types
<1>6. EventsOk /\ InsertsOk /\ WaitersOk
  BY <1>1, <1>2, <1>3, <1>4 DEF EventsOk, InsertsOk, WaitersOk
<1>7. ASSUME NEW i \in Ids PROVE TaskOk(i)
  BY <1>1, <1>2 DEF TaskOk, Told, NoTask
<1>8. ASSUME NEW i \in Ids PROVE Account(i) /\ Held(i)
  <2>1. ~Alive(i)
    <3>1. i # None /\ i \notin app
      BY Paths1 DEF Init
    <3> QED
      BY <1>1, <1>2, <1>3, <1>4, <3>1 DEF Alive, NoTask
  <2> QED
    BY <1>1, <2>1 DEF Account, Held
<1>9. Links
  BY <1>1, <1>2 DEF Links, WorkOk, StatesOk, ValueOk, WaitOk
<1> QED
  BY <1>5, <1>6, <1>7, <1>8, <1>9 DEF IInv, Base, Accounts

\* Nothing happens.
LEMMA StutterIInv ==
    ASSUME IInv, UNCHANGED vars
    PROVE  IInv'
<1>1. UNCHANGED <<info, index, lock, work, queue, drops, value, app, task, pending, insert,
                  lost, waiter, requests>>
  BY DEF vars, loads
<1>2. Base /\ Types /\ TypeOK /\ Accounts
  BY DEF IInv, Base, Types
<1>3. \A i \in Ids : Alive(i)' <=> Alive(i)
  BY <1>1 DEF Alive
<1>4. Accounts'
  BY <1>1, <1>2, <1>3, HandlesSame
<1>5. Types'
  BY <1>1, <1>2 DEF Types, TypeOK
<1>6. EventsOk' /\ InsertsOk' /\ WaitersOk'
  BY <1>1, <1>2 DEF Base, EventsOk, InsertsOk, WaitersOk
<1>7. ASSUME NEW i \in Ids PROVE TaskOk(i)'
  BY <1>1, <1>2, ToldSame, TaskKept DEF Base
<1>8. Links'
  BY <1>1, InfoSame
<1> QED
  BY <1>2, <1>4, <1>5, <1>6, <1>7, <1>8, BaseKept DEF IInv

\* Every step of tasks, handles and jobs keeps the invariant.
LEMMA NextIInv == IInv /\ [Next]_vars => IInv'
<1> SUFFICES ASSUME IInv, [Next]_vars PROVE IInv'
  OBVIOUS
<1>1. CASE Work
  <2>1. CASE ApplyEvent
    BY <2>1, ApplyEventInv
  <2>2. CASE EndEvents \/ EndDrops
    BY <2>2, EndsInv
  <2>3. CASE \E t \in work : Propagate(t[1], t[2], t[3])
    BY <2>3, PropagateInv
  <2>4. CASE \E w \in Waiters : Poll(w)
    BY <2>4, PollInv
  <2>5. CASE \E r \in Requesters : Insert(r)
    BY <2>5, InsertInv
  <2>6. ASSUME NEW i \in Ids, ApplyDrop(i) \/ FindLoader(i) \/ SendLoaded(i) \/ SendFailed(i) PROVE IInv'
    BY <2>6, ApplyDropInv, FindLoaderInv, SendLoadedInv, SendFailedInv
  <2>7. ASSUME NEW i \in Ids, NEW q \in Paths, LoadDep(i, q) PROVE IInv'
    BY <2>7, LoadDepInv
  <2> QED
    BY <1>1, <2>1, <2>2, <2>3, <2>4, <2>5, <2>6, <2>7 DEF Work
<1>2. ASSUME NEW p \in Asked, Load(p) PROVE IInv'
  BY <1>2, LoadInv, ServerAssumption
<1>3. ASSUME NEW i \in Ids, Drop(i) PROVE IInv'
  BY <1>3, DropInv
<1>4. ASSUME NEW i \in Ids, NEW w \in Waiters, Wait(w, i) PROVE IInv'
  BY <1>4, WaitInv
<1>5. CASE UNCHANGED vars
  BY <1>5, StutterIInv
<1> QED
  BY <1>1, <1>2, <1>3, <1>4, <1>5 DEF Next

\* Tasks, handles and jobs keep the registry consistent, in whatever order
\* they run and however late events and drops are applied.
THEOREM ServerInvariant == Spec => []IInv
<1> QED
  BY InitIInv, NextIInv, PTL DEF Spec

\* The types: no count of drops of process_handle_drop goes below zero, and
\* only the job that has the lock of AssetInfos propagates.
THEOREM ServerTypes == Spec => []TypeOK
<1>1. IInv => TypeOK
  BY DEF IInv, Base, Types
<1> QED
  BY <1>1, ServerInvariant, PTL

\* process_handle_drop removes no asset somebody holds a strong handle of,
\* whatever drops of earlier handles are still queued: get_or_alloc_internal
\* makes up for each one it races with.
THEOREM ServerKeepsHeld == Spec => []HandleKeepsEntry
<1>1. IInv => HandleKeepsEntry
  BY DEF IInv, Accounts, Held, HandleKeepsEntry
<1> QED
  BY <1>1, ServerInvariant, PTL

\* An asset nobody holds has a drop under way that process_handle_drop will
\* not skip, so that it does not stay for ever.
THEOREM ServerDropIsComing == Spec => []DropIsComing
<1>1. IInv => DropIsComing
  <2> SUFFICES ASSUME IInv, NEW i \in Ids, info[i] # None, ~Alive(i) PROVE drops[i] > info[i].skip
    BY DEF DropIsComing
  <2>1. drops[i] = info[i].skip + 1 /\ info[i].skip \in Nat
    BY DEF IInv, Base, Types, EntryType, Accounts, Account
  <2> QED
    BY <2>1
<1> QED
  BY <1>1, ServerInvariant, PTL

\* Between events, what a loaded asset waits for is known, still loading and
\* will tell it: process_asset_load misses no dependency that ends early.
THEOREM ServerWaits == Spec => []WaitsForLoading
<1>1. IInv => WaitsForLoading
  BY DEF IInv, Links, ValueOk, WaitsForLoading
<1> QED
  BY <1>1, ServerInvariant, PTL

\* Between events, an asset is reported loaded with its dependencies only when
\* it and everything its value holds is: propagate_loaded_state never says so
\* too early, and no dependency that is held is removed or starts again.
THEOREM ServerLoaded == Spec => []LoadedIsLoaded
<1>1. IInv => LoadedIsLoaded
  <2> SUFFICES ASSUME IInv, work = {}, NEW i \in Ids, info[i] # None, info[i].rec = "loaded"
               PROVE  /\ info[i].load = "loaded" /\ value[i] # None
                      /\ \A d \in value[i] : info[d] # None /\ info[d].rec = "loaded"
    BY DEF LoadedIsLoaded
  <2>1. StatesOk(i) /\ ValueOk(i) /\ info[i].load \in LoadStates
    BY DEF IInv, Links, Base, Types, EntryType
  <2>2. info[i].load = "loaded" /\ info[i].rloading = {} /\ info[i].rfailed = {}
    BY <2>1 DEF StatesOk, LoadStates
  <2> QED
    BY <2>1, <2>2 DEF ValueOk
<1> QED
  BY <1>1, ServerInvariant, PTL
=============================================================================
