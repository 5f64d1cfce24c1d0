------------------------- MODULE AssetImporterProofs -------------------------
(***************************************************************************)
(* Why whoever reads an asset through the gate reads one whole revision,   *)
(* for any assets, tasks and readers, and whatever crashed before; and why *)
(* a run brings everything in line (the second half).                      *)
(*                                                                         *)
(* A run that trusts the log finds every pair of files as a task that went *)
(* to its end has left it.  A run that does not lets nobody past the gate  *)
(* of an asset before one of its own tasks has been there.  What a task    *)
(* tears is behind the lock until it is whole again, or the task gives up  *)
(* and its transaction stays open, so that the next run does not trust it. *)
(***************************************************************************)
EXTENDS AssetImporter, TLAPS, FiniteSetTheorems, WellFoundedInduction

\* The points at which a task has the lock of its asset, and its transaction is open.
Writes == {"open", "work", "written", "meta", "finish"}
Points == Writes \cup {"free", "lock", "drain", "done"}
Busy(p) == \E s \in Slots : s[1] = p /\ task[s].pc \in Writes

IsTask(t) ==
    /\ DOMAIN t = {"pc", "hash", "c", "todo", "out", "full", "res"}
    /\ t.pc \in Points /\ {t.hash, t.c} \subseteq Contents \cup {Gone}
    /\ t.todo \subseteq Paths

IsRead(r) ==
    /\ DOMAIN r = {"q", "at", "waiting", "heard"}
    /\ r.at \in {"idle", "gate1", "lock1", "gate2", "lock2", "gate3", "lock3", "held"}
    /\ r.waiting \in BOOLEAN
    /\ r.at # "idle" => r.q \in Paths
    /\ r.at = "idle" => r = NoRead

Shapes ==
    /\ DOMAIN bytes = Paths /\ DOMAIN meta = Paths /\ DOMAIN rec = Paths /\ DOMAIN writer = Paths
    /\ DOMAIN task = Slots /\ \A s \in Slots : IsTask(task[s])
    /\ DOMAIN rd = Agents /\ \A g \in Agents : IsRead(rd[g])
    /\ DOMAIN log = {"open", "bad"} /\ broken \subseteq Paths /\ mingled \in BOOLEAN
    /\ lost \in BOOLEAN

Types == TypeOK /\ Shapes

\* Before the pass nobody is at work.
Quiet ==
    /\ status = All(Paths, None) /\ broken = {} /\ writer = All(Paths, None)
    /\ \A s \in Slots : task[s] = NoTask
    /\ \A g \in Agents : rd[g] = NoRead
    /\ phase # "off" => log.open = {} /\ ~log.bad
    /\ phase \in {"off", "opened"} => rec = All(Paths, NoFile)
    /\ phase = "scan" => \A p \in unsynced : rec[p] = NoFile
QuietOk == phase \in {"off", "opened", "scan"} => Quiet

\* What somebody reads is not written, and a task reads while it works.
LocksOk ==
    /\ \A g \in Agents : \A s \in Slots : Holds(g, s[1]) => task[s].pc \notin Writes
    /\ \A s \in Slots : rd[s].at # "idle" => task[s].pc = "work" /\ rd[s].q \in task[s].todo

\* A task has its transaction open; one that was given up on stays open, or is spoilt.
LogOk ==
    phase # "off" =>
        /\ \A p \in log.open : p \in broken \/ Busy(p)
        /\ \A s \in Slots : task[s].pc \in Writes => s[1] \in log.open
        /\ broken # {} => log.bad \/ \E p \in log.open : ~Busy(p)

\* The bytes of an asset are whole, and the .meta next to them is of their revision.
Sound(p) ==
    /\ bytes[p] # Torn
    /\ bytes[p] # NoFile => meta[p] \notin {NoFile, Torn} /\ (bytes[p] = meta[p] \/ mingled)
Whole(p) == Sound(p) /\ bytes[p] # NoFile

\* Has been made by this run, or could be trusted.
Excused(p) == lost \/ p \in broken \/ Busy(p)
Made(p) == Excused(p) \/ Whole(p)

\* What is on disk when a run can trust the log, and between runs.
DiskOk ==
    /\ \A p \in Paths : IF phase = "off" THEN lost \/ Sound(p) \/ ~Validates
                        ELSE skip => Excused(p) \/ Sound(p)
    /\ skip => \A p \in Paths : rec[p].c \in Contents => Made(p)

Past(g, p) ==
    /\ rd[g].q = p
    /\ rd[g].at \in {"lock1", "gate2", "lock2", "lock3", "held"} \/ rd[g].heard = "processed"

\* Who is past the gate, or is about to be let past, reads what has been made.
GateOk ==
    /\ \A p \in Paths : status[p] = "processed" => Made(p)
    /\ \A s \in Slots : task[s].pc = "done" /\ task[s].res \in {"processed", "skipped"} => Made(s[1])
    /\ \A g \in Agents, p \in Paths : Past(g, p) => Made(p)

\* What a task has read and written.
WorkOk ==
    \A s \in Slots :
        LET t == task[s]
            p == s[1]
        IN /\ mingled \/ lost \/ p \in broken \/ t.out = t.full
           /\ t.pc \in {"written", "meta", "finish"} => bytes[p] = Rev(t.c, t.out)
           /\ t.pc = "finish" => /\ meta[p] = Rev(t.hash, t.full)
                                 /\ t.hash = t.c \/ mingled
           /\ t.pc = "done" => t.res \in {"processed", "skipped", "failed", "unloaded"}

IInv == Types /\ QuietOk /\ LocksOk /\ LogOk /\ DiskOk /\ GateOk /\ WorkOk

-----------------------------------------------------------------------------
(***************************************************************************)
(* What processing everything gives.                                       *)
(***************************************************************************)

\* A set of numbers has a least one.
LEMMA Least ==
    ASSUME NEW S \in SUBSET Nat, S # {}
    PROVE  \E n \in S : \A m \in S : n <= m
<1> DEFINE R == {ss \in Nat \X Nat : ss[1] < ss[2]}
<1>1. IsWellFoundedOn(R, Nat)
  BY NatLessThanWellFounded, Zenon DEF OpToRel
<1> HIDE DEF R
<1>2. PICK n \in S : \A m \in S : ~(<<m, n>> \in R)
  BY <1>1, WFMin, Zenon
<1>3. \A m \in S : ~(m < n)
  BY <1>2 DEF R
<1> QED
  BY <1>3

\* Only the assets that it is made from matter for what an asset becomes.
LEMMA MadeFromDeps ==
    ASSUME NEW src, NEW p, NEW f, NEW g, \A q \in DepsOf(p, src[p]) : f[q] = g[q]
    PROVE  MadeFrom(src, p, f) = MadeFrom(src, p, g)
<1> DEFINE deps == DepsOf(p, src[p])
<1>1. [q \in deps |-> f[q]] = [q \in deps |-> g[q]]
  OBVIOUS
<1>2. (\E q \in deps : f[q] = NoFile) <=> (\E q \in deps : g[q] = NoFile)
  OBVIOUS
<1> HIDE DEF deps
<1> QED
  BY <1>1, <1>2, Zenon DEF MadeFrom, deps

\* Built is defined for every source tree.
LEMMA BuiltIs ==
    ASSUME NEW src \in [Paths -> Contents \cup {Gone}]
    PROVE  Built(src) = [p \in Paths |-> MadeFrom(src, p, Built(src))]
<1>1. PICK rank \in [Paths -> 1 .. Cardinality(Paths)] :
           \A p \in Paths : \A c \in Contents : \A q \in Reads[p][c] : rank[q] < rank[p]
  BY ReadsAcyclic
<1>2. Cardinality(Paths) \in Nat
  BY ImporterAssumption, FS_CardinalityType
<1>3. ASSUME NEW p \in Paths
      PROVE  \A q \in DepsOf(p, src[p]) : q \in Paths /\ rank[q] < rank[p]
  <2> SUFFICES ASSUME NEW q \in DepsOf(p, src[p]) PROVE q \in Paths /\ rank[q] < rank[p]
    OBVIOUS
  <2>1. src[p] \in Contents /\ q \in Reads[p][src[p]]
    BY DEF DepsOf
  <2> QED
    BY <1>1, <2>1, ImporterAssumption
<1> DEFINE Below(n) == {p \in Paths : rank[p] <= n}
           Solves(g, n) == g = [p \in Below(n) |-> MadeFrom(src, p, g)]
           Bad == {n \in Nat : ~\E g : Solves(g, n)}
<1>4. Bad = {}
  <2> SUFFICES ASSUME Bad # {} PROVE FALSE
    OBVIOUS
  <2>1. PICK n \in Bad : \A m \in Bad : n <= m
    <3>1. Bad \in SUBSET Nat
      OBVIOUS
    <3> HIDE DEF Bad
    <3> QED
      BY <3>1, Least
  <2>2. n # 0
    <3>1. Below(0) = {}
      BY <1>2
    <3>2. Solves([p \in {} |-> NoFile], 0)
      BY <3>1
    <3> QED
      BY <3>2
  <2>3. n \in Nat /\ n - 1 \in Nat /\ n - 1 < n
    BY <2>2
  <2>4. PICK g : Solves(g, n - 1)
    <3>1. n - 1 \notin Bad
      <4> HIDE DEF Bad
      <4> QED
        BY <2>1, <2>3
    <3> HIDE DEF Solves
    <3> QED
      BY <2>3, <3>1
  <2> DEFINE h == [p \in Below(n) |-> IF rank[p] <= n - 1 THEN g[p] ELSE MadeFrom(src, p, g)]
  <2>5. ASSUME NEW p \in Below(n) PROVE h[p] = MadeFrom(src, p, h)
    <3>1. \A q \in DepsOf(p, src[p]) : q \in Below(n) /\ q \in Below(n - 1)
      BY <1>1, <1>2, <1>3, <2>3
    <3>2. \A q \in DepsOf(p, src[p]) : h[q] = g[q]
      BY <3>1
    <3>3. MadeFrom(src, p, g) = MadeFrom(src, p, h)
      BY <3>2, MadeFromDeps
    <3>4. p \in Below(n - 1) => g[p] = MadeFrom(src, p, g)
      BY <2>4
    <3>5. h[p] = MadeFrom(src, p, g)
      BY <3>4
    <3> QED
      BY <3>3, <3>5
  <2>6. Solves(h, n)
    <3>1. h = [p \in Below(n) |-> h[p]]
      OBVIOUS
    <3> HIDE DEF h
    <3> QED
      BY <2>5, <3>1, Zenon
  <2> QED
    BY <2>1, <2>6
<1>5. PICK g : g = [p \in Paths |-> MadeFrom(src, p, g)]
  <2>1. Below(Cardinality(Paths)) = Paths
    BY <1>1, <1>2
  <2>2. \E g : Solves(g, Cardinality(Paths))
    BY <1>2, <1>4
  <2> QED
    BY <2>1, <2>2
<1> QED
  BY <1>5 DEF Built

-----------------------------------------------------------------------------
(***************************************************************************)
(* Facts about the values.                                                 *)
(***************************************************************************)

\* A revision with a content of a source is neither no file nor half a file.
LEMMA Revisions ==
    /\ NoFile # Torn
    /\ \A c \in Contents \cup {Gone} : \A d : Rev(c, d) \notin {NoFile, Torn}
    /\ \A c, d : Rev(c, d).c = c /\ Rev(c, d).d = d
    /\ NoFile.c = -1 /\ Torn.c = -2 /\ DOMAIN NoFile.d = {}
    /\ -1 \notin Contents \cup {Gone} /\ -2 \notin Contents \cup {Gone}
<1>1. /\ NoFile.c = -1 /\ Torn.c = -2 /\ NoFile.d = <<>> /\ \A c, d : Rev(c, d).c = c /\ Rev(c, d).d = d
  BY DEF NoFile, Torn, Rev
<1>2. -1 \notin Contents \cup {Gone} /\ -2 \notin Contents \cup {Gone}
  BY ImporterAssumption DEF Contents, Gone
<1>3. DOMAIN NoFile.d = {}
  BY <1>1
<1> QED
  BY <1>1, <1>2, <1>3

\* Slots and None.
LEMMA Actors ==
    /\ \A s \in Slots : s[1] \in Paths /\ s \in Agents /\ s \notin Readers /\ s # None
    /\ Readers \subseteq Agents /\ None \notin {"processed", "failed", "missing"}
    /\ None \notin Paths
  BY ImporterAssumption DEF Slots, Agents

\* What is built is whole or nothing.
LEMMA BuiltWhole ==
    ASSUME NEW src \in [Paths -> Contents \cup {Gone}]
    PROVE  DOMAIN Built(src) = Paths /\ \A p \in Paths : Built(src)[p] # Torn
<1>1. Built(src) = [p \in Paths |-> MadeFrom(src, p, Built(src))]
  BY BuiltIs
<1>2. \A p \in Paths : MadeFrom(src, p, Built(src)) # Torn
  BY Revisions DEF MadeFrom
<1> QED
  BY <1>1, <1>2

\* A task that is not there, and a read that is not.
LEMMA Nothing ==
    /\ IsTask(NoTask) /\ NoTask.pc = "free" /\ NoTask.res = None /\ NoTask.out = NoTask.full
    /\ IsRead(NoRead) /\ NoRead.at = "idle" /\ NoRead.heard = None /\ NoRead.q = None
    /\ ~NoRead.waiting
  BY DEF IsTask, NoTask, IsRead, NoRead, Points, Writes

LEMMA InitIInv == Init => IInv
<1> SUFFICES ASSUME Init PROVE IInv
  OBVIOUS
<1>1. PICK old \in OldTrees : bytes = Built(old) /\ meta = Built(old)
  BY DEF Init
<1>2. /\ source \in [Paths -> Contents \cup {Gone}] /\ DOMAIN bytes = Paths /\ DOMAIN meta = Paths
      /\ \A p \in Paths : bytes[p] # Torn /\ meta[p] = bytes[p]
  BY <1>1, BuiltWhole, ImporterAssumption DEF Init
<1>3. /\ \A s \in Slots : task[s] = NoTask
      /\ \A g \in Agents : rd[g] = NoRead
      /\ \A p \in Paths : rec[p] = NoFile /\ status[p] = None /\ writer[p] = None
      /\ DOMAIN task = Slots /\ DOMAIN rd = Agents
  BY DEF Init, All
<1>4. TypeOK
  <2>1. /\ status \in [Paths -> {None, "processed", "failed"}]
        /\ dependents \in [Paths -> SUBSET Paths] /\ queue \in [Paths -> Nat]
    BY DEF Init, All
  <2>2. \A s \in Slots : task[s].pc \in {"drain", "open", "work", "written", "meta", "finish"}
                             <=> writer[s[1]] = s
    BY <1>3, Nothing, Actors
  <2> QED
    BY <1>2, <2>1, <2>2 DEF Init, TypeOK
<1>5. Shapes
  BY <1>2, <1>3, Nothing DEF Init, Shapes, All
<1>6. QuietOk
  BY <1>3 DEF Init, QuietOk, Quiet
<1>7. LocksOk /\ LogOk /\ WorkOk
  BY <1>3, Nothing, Actors DEF Init, LocksOk, LogOk, WorkOk, Writes, Holds
<1>8. DiskOk
  BY <1>2, <1>3, Revisions DEF Init, DiskOk, Sound
<1>9. GateOk
  BY <1>3, Nothing, Actors DEF GateOk, Past
<1> QED
  BY <1>4, <1>5, <1>6, <1>7, <1>8, <1>9 DEF IInv, Types

-----------------------------------------------------------------------------
(***************************************************************************)
(* What lasts within a run.                                                *)
(***************************************************************************)

\* The parts of the invariant that most actions read.
LEMMA Parts ==
    ASSUME IInv
    PROVE  /\ TypeOK /\ Shapes /\ QuietOk /\ LocksOk /\ LogOk /\ DiskOk /\ GateOk /\ WorkOk
           /\ \A s \in Slots : /\ s[1] \in Paths /\ IsTask(task[s]) /\ IsRead(rd[s])
                               /\ task[s].pc \in Writes \cup {"drain"} <=> writer[s[1]] = s
  BY Actors DEF IInv, Types, Shapes, TypeOK, Writes

\* The slots of an asset take turns with its lock.
LEMMA OneWriter ==
    ASSUME IInv, NEW s \in Slots, NEW z \in Slots, s[1] = z[1],
           task[s].pc \in Writes \cup {"drain"}, task[z].pc \in Writes \cup {"drain"}
    PROVE  s = z
  BY Parts

\* Nobody is at work before the pass.
LEMMA AtWork ==
    ASSUME IInv, phase \notin {"pass", "over"}
    PROVE  Quiet
  BY Parts DEF QuietOk, TypeOK

\* An asset whose files a step leaves alone is as good as before.
LEMMA Lasting ==
    ASSUME NEW p, bytes'[p] = bytes[p], meta'[p] = meta[p], Busy(p) => Busy(p)',
           lost => lost', p \in broken => p \in broken', mingled => mingled'
    PROVE  /\ Made(p) => Made(p)'
           /\ Excused(p) \/ Sound(p) => (Excused(p) \/ Sound(p))'
  BY DEF Made, Excused, Whole, Sound

\* A step of one task leaves the other tasks where they are.
LEMMA OtherTasks ==
    ASSUME IInv, NEW s \in Slots, NEW t, task' = [task EXCEPT ![s] = t]
    PROVE  /\ DOMAIN task' = Slots /\ task'[s] = t
           /\ \A z \in Slots \ {s} : task'[z] = task[z]
           /\ \A p : p # s[1] => (Busy(p)' <=> Busy(p))
           /\ t.pc \in Writes => Busy(s[1])'
           /\ task[s].pc \in Writes => Busy(s[1])
           /\ task[s].pc \notin Writes => (Busy(s[1]) => Busy(s[1])')
           /\ task[s].pc \in Writes /\ t.pc \notin Writes => ~Busy(s[1])'
<1>1. DOMAIN task = Slots
  BY Parts DEF Shapes
<1>2. /\ DOMAIN task' = Slots /\ task'[s] = t
      /\ \A z \in Slots \ {s} : task'[z] = task[z]
  BY <1>1
<1>3. \A p : p # s[1] => (Busy(p)' <=> Busy(p))
  BY <1>2 DEF Busy
<1>4. /\ t.pc \in Writes => Busy(s[1])'
      /\ task[s].pc \in Writes => Busy(s[1])
      /\ task[s].pc \notin Writes => (Busy(s[1]) => Busy(s[1])')
  BY <1>2 DEF Busy
<1>5. ASSUME task[s].pc \in Writes, t.pc \notin Writes PROVE ~Busy(s[1])'
  <2>1. \A z \in Slots : z[1] = s[1] /\ z # s => task[z].pc \notin Writes
    BY <1>5, OneWriter
  <2> QED
    BY <1>2, <1>5, <2>1 DEF Busy
<1> QED
  BY <1>2, <1>3, <1>4, <1>5

\* A task has the writer bit from SetBit to the release of the lock.
LEMMA LockKept ==
    ASSUME IInv, NEW s \in Slots, NEW t, task' = [task EXCEPT ![s] = t],
           \/ /\ writer' = writer
              /\ t.pc \in Writes \cup {"drain"} <=> task[s].pc \in Writes \cup {"drain"}
           \/ /\ writer' = [writer EXCEPT ![s[1]] = s] /\ writer[s[1]] = None
              /\ t.pc \in Writes \cup {"drain"}
           \/ /\ writer' = [writer EXCEPT ![s[1]] = None] /\ writer[s[1]] = s
              /\ t.pc \notin Writes \cup {"drain"}
    PROVE  /\ DOMAIN writer' = Paths
           /\ \A z \in Slots : task'[z].pc \in {"drain", "open", "work", "written", "meta", "finish"}
                                   <=> writer'[z[1]] = z
<1>1. DOMAIN writer' = Paths /\ s[1] \in Paths /\ DOMAIN writer = Paths
  BY Parts DEF Shapes
<1>2. task'[s] = t /\ \A z \in Slots \ {s} : task'[z] = task[z]
  BY OtherTasks
<1>3. ASSUME NEW z \in Slots
      PROVE  task'[z].pc \in Writes \cup {"drain"} <=> writer'[z[1]] = z
  <2>1. z[1] \in Paths /\ z # None /\ (task[z].pc \in Writes \cup {"drain"} <=> writer[z[1]] = z)
    BY Parts, Actors
  <2>2. CASE z = s
    BY <1>1, <1>2, <2>1, <2>2, Actors
  <2>3. CASE z # s
    BY <1>1, <1>2, <2>1, <2>3
  <2> QED
    BY <2>2, <2>3
<1> QED
  BY <1>1, <1>3 DEF Writes

\* A step of a task with a slot of asset s[1]: what it has to see to.
LEMMA TaskStep ==
    ASSUME IInv, NEW s \in Slots, NEW t, IsTask(t), task' = [task EXCEPT ![s] = t],
           task[s].pc # "free" \/ phase = "pass",
           UNCHANGED <<source, phase, skip, unsynced, known, rec, status, dependents, lost>>,
           \/ /\ writer' = writer
              /\ t.pc \in Writes \cup {"drain"} <=> task[s].pc \in Writes \cup {"drain"}
           \/ /\ writer' = [writer EXCEPT ![s[1]] = s] /\ writer[s[1]] = None
              /\ t.pc \in Writes \cup {"drain"}
           \/ /\ writer' = [writer EXCEPT ![s[1]] = None] /\ writer[s[1]] = s
              /\ t.pc \notin Writes \cup {"drain"},
           queue' \in [Paths -> Nat],
           DOMAIN log' = {"open", "bad"}, log'.open \subseteq Paths, log'.bad \in BOOLEAN, LogOk',
           DOMAIN bytes' = Paths, DOMAIN meta' = Paths,
           \A p \in Paths \ {s[1]} : bytes'[p] = bytes[p] /\ meta'[p] = meta[p],
           broken \subseteq broken', broken' \subseteq Paths, mingled => mingled', mingled' \in BOOLEAN,
           \/ bytes'[s[1]] = bytes[s[1]] /\ meta'[s[1]] = meta[s[1]]
           \/ task[s].pc \in Writes,
           task[s].pc \in Writes /\ t.pc \notin Writes => Made(s[1])',
           rd' = rd \/ rd' = [rd EXCEPT ![s] = NoRead],
           rd'[s].at # "idle" => t.pc = "work" /\ rd'[s].q \in t.todo,
           t.pc \in Writes => task[s].pc \in Writes \/ Unread(s[1]),
           t.pc = "done" => /\ t.res \in {"processed", "skipped", "failed", "unloaded"}
                            /\ t.res \in {"processed", "skipped"} => Made(s[1])',
           mingled' \/ lost' \/ s[1] \in broken' \/ t.out = t.full,
           t.pc \in {"written", "meta", "finish"} => bytes'[s[1]] = Rev(t.c, t.out),
           t.pc = "finish" => meta'[s[1]] = Rev(t.hash, t.full) /\ (t.hash = t.c \/ mingled')
    PROVE  IInv'
<1> DEFINE p == s[1]
<1>1. /\ DOMAIN task' = Slots /\ task'[s] = t /\ \A z \in Slots \ {s} : task'[z] = task[z]
      /\ \A q : q # p => (Busy(q)' <=> Busy(q))
      /\ t.pc \in Writes => Busy(p)'
      /\ task[s].pc \notin Writes => (Busy(p) => Busy(p)')
  BY OtherTasks
<1>2. /\ TypeOK /\ Shapes /\ QuietOk /\ LocksOk /\ LogOk /\ DiskOk /\ GateOk /\ WorkOk /\ p \in Paths
      /\ IsTask(task[s]) /\ s \in Agents
  BY Parts, Actors
<1>3. phase \in {"pass", "over"}
  BY AtWork, Nothing DEF Quiet
<1>4. /\ DOMAIN rd' = Agents /\ \A g \in Agents : rd'[g] = rd[g] \/ rd'[g] = NoRead
      /\ \A g \in Agents : IsRead(rd'[g])
  BY <1>2, Nothing DEF Shapes
<1>5. TypeOK' /\ Shapes'
  <2>1. /\ DOMAIN writer' = Paths
        /\ \A z \in Slots : task'[z].pc \in {"drain", "open", "work", "written", "meta", "finish"}
                                <=> writer'[z[1]] = z
    BY LockKept
  <2> QED
    BY <1>1, <1>2, <1>4, <2>1 DEF Shapes, TypeOK
<1>6. QuietOk'
  BY <1>3 DEF QuietOk
<1>7. \A q \in Paths : /\ Made(q) => Made(q)'
                       /\ Excused(q) \/ Sound(q) => (Excused(q) \/ Sound(q))'
  <2> SUFFICES ASSUME NEW q \in Paths
               PROVE  /\ Made(q) => Made(q)'
                      /\ Excused(q) \/ Sound(q) => (Excused(q) \/ Sound(q))'
    OBVIOUS
  <2>1. CASE q # p \/ task[s].pc \notin Writes
    BY <1>1, <2>1, Lasting
  <2>2. CASE q = p /\ task[s].pc \in Writes
    BY <1>1, <2>2 DEF Made, Excused, Whole
  <2> QED
    BY <2>1, <2>2
<1>8. LocksOk'
  <2>1. ASSUME NEW g \in Agents, NEW z \in Slots, Holds(g, z[1])' PROVE task'[z].pc \notin Writes
    <3>1. Holds(g, z[1])
      BY <1>4, <2>1, Nothing DEF Holds
    <3>2. task[z].pc \notin Writes
      BY <1>2, <3>1 DEF LocksOk
    <3> QED
      BY <1>1, <2>1, <3>1, <3>2 DEF Unread
  <2>2. ASSUME NEW z \in Slots, rd'[z].at # "idle"
        PROVE  task'[z].pc = "work" /\ rd'[z].q \in task'[z].todo
    <3>1. CASE z = s
      BY <1>1, <2>2, <3>1
    <3>2. CASE z # s
      <4>1. rd'[z] = rd[z]
        BY <1>4, <2>2, Nothing, Actors
      <4> QED
        BY <1>1, <1>2, <2>2, <3>2, <4>1 DEF LocksOk
    <3> QED
      BY <3>1, <3>2
  <2> QED
    BY <2>1, <2>2 DEF LocksOk
<1>9. DiskOk'
  <2>1. \A q \in Paths : skip => (Excused(q) \/ Sound(q))'
    BY <1>2, <1>3, <1>7 DEF DiskOk
  <2>2. skip => \A q \in Paths : rec[q].c \in Contents => Made(q)'
    BY <1>2, <1>7 DEF DiskOk
  <2> QED
    BY <1>3, <2>1, <2>2 DEF DiskOk
<1>10. GateOk'
  <2>1. \A q \in Paths : status[q] = "processed" => Made(q)'
    BY <1>2, <1>7 DEF GateOk
  <2>2. ASSUME NEW z \in Slots, task'[z].pc = "done", task'[z].res \in {"processed", "skipped"}
        PROVE  Made(z[1])'
    <3>1. CASE z = s
      BY <1>1, <2>2, <3>1
    <3>2. CASE z # s
      BY <1>1, <1>2, <1>7, <2>2, <3>2, Actors DEF GateOk
    <3> QED
      BY <3>1, <3>2
  <2>3. ASSUME NEW g \in Agents, NEW q \in Paths, Past(g, q)' PROVE Made(q)'
    <3>1. rd'[g] = rd[g]
      BY <1>2, <1>4, <2>3, Nothing, Actors DEF Past
    <3>2. Made(q)
      BY <1>2, <2>3, <3>1 DEF GateOk, Past
    <3> QED
      BY <1>7, <3>2
  <2> QED
    BY <2>1, <2>2, <2>3 DEF GateOk
<1>11. WorkOk'
  <2> SUFFICES ASSUME NEW z \in Slots
               PROVE  /\ mingled' \/ lost' \/ z[1] \in broken' \/ task'[z].out = task'[z].full
                      /\ task'[z].pc \in {"written", "meta", "finish"} =>
                            bytes'[z[1]] = Rev(task'[z].c, task'[z].out)
                      /\ task'[z].pc = "finish" =>
                            /\ meta'[z[1]] = Rev(task'[z].hash, task'[z].full)
                            /\ task'[z].hash = task'[z].c \/ mingled'
                      /\ task'[z].pc = "done" =>
                            task'[z].res \in {"processed", "skipped", "failed", "unloaded"}
    BY DEF WorkOk
  <2>1. CASE z = s
    BY <1>1, <2>1
  <2>2. CASE z # s
    <3>1. task'[z] = task[z] /\ z[1] \in Paths
      BY <1>1, <2>2, Actors
    <3>2. task[z].pc \in Writes => bytes'[z[1]] = bytes[z[1]] /\ meta'[z[1]] = meta[z[1]]
      BY <2>2, <3>1, OneWriter
    <3> QED
      BY <1>2, <3>1, <3>2 DEF WorkOk, Writes
  <2> QED
    BY <2>1, <2>2
<1> QED
  BY <1>2, <1>5, <1>6, <1>8, <1>9, <1>10, <1>11 DEF IInv, Types

-----------------------------------------------------------------------------
(***************************************************************************)
(* The steps of a task.                                                    *)
(***************************************************************************)

\* The log, as long as a task neither opens nor ends a transaction.
LEMMA SameLog ==
    ASSUME IInv, NEW s \in Slots, NEW t, task' = [task EXCEPT ![s] = t],
           log' = log, phase' = phase, broken \subseteq broken', broken = {} => broken' = {},
           t.pc \in Writes <=> task[s].pc \in Writes
    PROVE  LogOk'
<1>1. task'[s] = t /\ \A z \in Slots \ {s} : task'[z] = task[z]
  BY OtherTasks
<1>2. \A q : Busy(q)' <=> Busy(q)
  BY <1>1 DEF Busy
<1> QED
  BY <1>1, <1>2, Parts DEF LogOk

\* A task that gives up leaves its transaction open.
LEMMA GivenUp ==
    ASSUME IInv, NEW s \in Slots, NEW t, task' = [task EXCEPT ![s] = t],
           log' = log, phase' = phase, broken' = broken \cup {s[1]},
           task[s].pc \in Writes, t.pc \notin Writes
    PROVE  LogOk'
<1>1. /\ task'[s] = t /\ \A z \in Slots \ {s} : task'[z] = task[z]
      /\ \A q : q # s[1] => (Busy(q)' <=> Busy(q))
      /\ ~Busy(s[1])'
  BY OtherTasks
<1> QED
  BY <1>1, Parts DEF LogOk

\* Up to the writer bit nothing but the queue has changed.
LEMMA ExamineInv ==
    ASSUME IInv, NEW s \in Slots, Examine(s)
    PROVE  IInv'
<1> DEFINE p == s[1]
           c == source[p]
<1>1. /\ p \in Paths /\ IsTask(task[s]) /\ DOMAIN task = Slots
      /\ source \in [Paths -> Contents \cup {Gone}]
      /\ queue \in [Paths -> Nat] /\ Shapes /\ TypeOK
  BY Parts DEF Shapes, TypeOK
<1>2. /\ phase = "pass" /\ queue[p] > 0 /\ task[s].pc = "free" /\ queue' = [queue EXCEPT ![p] = @ - 1]
      /\ UNCHANGED <<disk, run, index, writer, rd, bounds, dirty, broken, mingled, lost>>
  BY DEF Examine
<1>3. queue' \in [Paths -> Nat]
  BY <1>1, <1>2
<1>4. PICK t : /\ IsTask(t) /\ t.out = task[s].out /\ t.full = task[s].full
               /\ task' = [task EXCEPT ![s] = t]
               /\ \/ t.pc = "done" /\ t.res = "failed"
                  \/ t.pc = "done" /\ t.res = "skipped" /\ skip /\ c # Gone /\ UpToDate(p, c)
                  \/ t.pc = "lock"
  <2>1. CASE Done(s, "failed")
    <3> DEFINE t == [task[s] EXCEPT !.pc = "done", !.res = "failed"]
    <3>1. IsTask(t) /\ t.out = task[s].out /\ t.full = task[s].full /\ t.pc = "done" /\ t.res = "failed"
      BY <1>1 DEF IsTask, Points
    <3>2. task' = [task EXCEPT ![s] = t]
      BY <1>1, <2>1 DEF Done
    <3> HIDE DEF t
    <3> QED
      BY <3>1, <3>2
  <2>2. CASE Done(s, "skipped") /\ skip /\ c # Gone /\ UpToDate(p, c)
    <3> DEFINE t == [task[s] EXCEPT !.pc = "done", !.res = "skipped"]
    <3>1. IsTask(t) /\ t.out = task[s].out /\ t.full = task[s].full /\ t.pc = "done" /\ t.res = "skipped"
      BY <1>1 DEF IsTask, Points
    <3>2. task' = [task EXCEPT ![s] = t]
      BY <1>1, <2>2 DEF Done
    <3> HIDE DEF t
    <3> QED
      BY <2>2, <3>1, <3>2
  <2>3. CASE task' = [task EXCEPT ![s].pc = "lock", ![s].hash = c]
    <3> DEFINE t == [task[s] EXCEPT !.pc = "lock", !.hash = c]
    <3>1. IsTask(t) /\ t.out = task[s].out /\ t.full = task[s].full /\ t.pc = "lock"
      BY <1>1 DEF IsTask, Points
    <3>2. task' = [task EXCEPT ![s] = t]
      BY <1>1, <2>3
    <3> HIDE DEF t
    <3> QED
      BY <3>1, <3>2
  <2> QED
    BY <2>1, <2>2, <2>3 DEF Examine
<1>5. LogOk'
  BY <1>2, <1>4, SameLog DEF disk, run, Writes
<1>6. t.res = "skipped" /\ t.pc = "done" => Made(p)
  BY <1>1, <1>4, Parts DEF UpToDate, DiskOk
<1>7. Made(p) => Made(p)'
  <2>1. Busy(p) => Busy(p)'
    BY <1>2, <1>4, OtherTasks DEF Writes
  <2> QED
    BY <1>2, <2>1, Lasting DEF disk
<1>8. rd'[s].at = "idle"
  BY <1>2, Parts DEF LocksOk
<1>9. mingled' \/ lost' \/ p \in broken' \/ t.out = t.full
  BY <1>2, <1>4, Parts DEF WorkOk
<1> QED
  BY <1>1, <1>2, <1>3, <1>4, <1>5, <1>6, <1>7, <1>8, <1>9, Parts, TaskStep
     DEF disk, run, index, Writes, Shapes, TypeOK, DiskOk

\* Nor where there was nothing to process.
LEMMA UnreadableInv ==
    ASSUME IInv, NEW s \in Slots, Unreadable(s)
    PROVE  IInv'
<1> DEFINE p == s[1]
           t == [task[s] EXCEPT !.pc = "done", !.res = "failed"]
<1>1. /\ p \in Paths /\ IsTask(task[s]) /\ DOMAIN task = Slots
      /\ queue \in [Paths -> Nat] /\ Shapes /\ TypeOK
  BY Parts DEF Shapes, TypeOK
<1>2. /\ phase = "pass" /\ queue[p] > 0 /\ task[s].pc = "free" /\ queue' = [queue EXCEPT ![p] = @ - 1]
      /\ UNCHANGED <<disk, run, index, writer, rd, broken, mingled, lost>>
  BY DEF Unreadable
<1>3. queue' \in [Paths -> Nat]
  BY <1>1, <1>2
<1>4. /\ IsTask(t) /\ t.out = task[s].out /\ t.full = task[s].full
      /\ t.pc = "done" /\ t.res = "failed" /\ task' = [task EXCEPT ![s] = t]
  BY <1>1 DEF Unreadable, Done, IsTask, Points
<1> HIDE DEF t
<1>5. LogOk'
  BY <1>2, <1>4, SameLog DEF disk, run, Writes
<1>6. rd'[s].at = "idle"
  BY <1>2, Parts DEF LocksOk
<1>7. mingled' \/ lost' \/ p \in broken' \/ t.out = t.full
  BY <1>2, <1>4, Parts DEF WorkOk
<1> QED
  BY <1>1, <1>2, <1>3, <1>4, <1>5, <1>6, <1>7, Parts, TaskStep
     DEF disk, run, index, Writes, Shapes, TypeOK

LEMMA SetBitInv ==
    ASSUME IInv, NEW s \in Slots, SetBit(s)
    PROVE  IInv'
<1> DEFINE t == [task[s] EXCEPT !.pc = "drain"]
<1>1. /\ s[1] \in Paths /\ IsTask(task[s]) /\ DOMAIN task = Slots /\ Shapes /\ TypeOK /\ DiskOk
  BY Parts DEF Shapes
<1>2. /\ IsTask(t) /\ t.pc = "drain" /\ t.out = task[s].out /\ t.full = task[s].full
      /\ task' = [task EXCEPT ![s] = t]
  BY <1>1 DEF SetBit, Go, IsTask, Points
<1> HIDE DEF t
<1>3. LogOk'
  BY <1>2, SameLog DEF SetBit, disk, run, history, Writes
<1>4. rd'[s].at = "idle"
  BY Parts DEF LocksOk, SetBit
<1>5. mingled' \/ lost' \/ s[1] \in broken' \/ t.out = t.full
  BY <1>2, Parts DEF SetBit, history, WorkOk
<1> QED
  BY <1>1, <1>2, <1>3, <1>4, <1>5, TaskStep
     DEF SetBit, disk, run, index, history, Writes, Shapes, TypeOK, DiskOk

\* A task reads nothing unless it works.
LEMMA Resting ==
    ASSUME IInv, NEW s \in Slots, task[s].pc # "work" \/ task[s].todo = {}
    PROVE  rd[s].at = "idle"
  BY Parts DEF LocksOk

LEMMA StartInv ==
    ASSUME IInv, NEW s \in Slots, Start(s)
    PROVE  IInv'
<1> DEFINE p == s[1]
           t == [task[s] EXCEPT !.pc = "open"]
<1>1. /\ p \in Paths /\ IsTask(task[s]) /\ DOMAIN task = Slots /\ Shapes /\ TypeOK /\ DiskOk
      /\ task[s].pc = "drain" /\ Unread(p)
  BY Parts DEF Shapes, Start
<1>2. /\ IsTask(t) /\ t.pc = "open" /\ t.out = task[s].out /\ t.full = task[s].full
      /\ task' = [task EXCEPT ![s] = t]
  BY <1>1 DEF Start, Go, IsTask, Points, Writes
<1> HIDE DEF t
<1>3. /\ DOMAIN log' = {"open", "bad"} /\ log'.open = log.open \cup {p} /\ log'.bad \in BOOLEAN
      /\ log.bad => log'.bad
      /\ p \in log.open => log'.bad
  <2>1. CASE p \in log.open
    <3>1. log' = [log EXCEPT !.bad = TRUE]
      BY <2>1 DEF Start
    <3>2. DOMAIN log' = {"open", "bad"} /\ log'.open = log.open /\ log'.bad = TRUE
      BY <1>1, <3>1 DEF Shapes
    <3> QED
      BY <2>1, <3>2
  <2>2. CASE p \notin log.open
    <3>1. log' = [log EXCEPT !.open = @ \cup {p}]
      BY <2>2 DEF Start
    <3>2. DOMAIN log' = {"open", "bad"} /\ log'.open = log.open \cup {p} /\ log'.bad = log.bad
      BY <1>1, <3>1 DEF Shapes
    <3> QED
      BY <1>1, <2>2, <3>2, ZenonT(20) DEF TypeOK
  <2> QED
    BY <2>1, <2>2
<1>4. LogOk'
  <2>1. /\ task'[s] = t /\ \A z \in Slots \ {s} : task'[z] = task[z]
        /\ \A q : q # p => (Busy(q)' <=> Busy(q))
        /\ Busy(p)'
    BY <1>2, OtherTasks DEF Writes
  <2>2. \A q \in log'.open : q \in broken' \/ Busy(q)'
    BY <1>3, <2>1, Parts, AtWork, Nothing DEF LogOk, Start, Quiet, history
  <2>3. \A z \in Slots : task'[z].pc \in Writes => z[1] \in log'.open
    <3>1. phase # "off"
      BY <1>1, AtWork, Nothing DEF Quiet
    <3>2. \A z \in Slots : task[z].pc \in Writes => z[1] \in log.open
      BY <3>1, Parts DEF LogOk
    <3> QED
      BY <1>3, <2>1, <3>2
  <2>4. broken' # {} => log'.bad \/ \E q \in log'.open : ~Busy(q)'
    BY <1>3, <2>1, Parts, AtWork DEF LogOk, Start, Quiet, history
  <2> QED
    BY <2>2, <2>3, <2>4 DEF LogOk
<1>5. mingled' \/ lost' \/ p \in broken' \/ t.out = t.full
  BY <1>2, Parts DEF Start, history, WorkOk
<1>6. rd[s].at = "idle"
  BY <1>1, Resting
<1>7. log'.open \subseteq Paths
  BY <1>1, <1>3 DEF TypeOK
<1> QED
  BY <1>1, <1>2, <1>3, <1>4, <1>5, <1>6, <1>7, TaskStep
     DEF Start, run, index, history, Writes, Shapes, TypeOK, DiskOk

LEMMA OpenInv ==
    ASSUME IInv, NEW s \in Slots, Open(s)
    PROVE  IInv'
<1> DEFINE p == s[1]
           c == source[p]
           t == [task[s] EXCEPT !.pc = "work", !.c = c, !.todo = DepsOf(p, c),
                                !.hash = IF Kind[p] = "copy" THEN @ ELSE c]
<1>1. /\ p \in Paths /\ IsTask(task[s]) /\ DOMAIN task = Slots /\ Shapes /\ TypeOK /\ DiskOk
      /\ task[s].pc = "open" /\ c \in Contents
  BY Parts DEF Shapes, Open, TypeOK
<1>2. DepsOf(p, c) \subseteq Paths
  BY <1>1, ImporterAssumption DEF DepsOf
<1>3. /\ IsTask(t) /\ t.pc = "work" /\ t.out = task[s].out /\ t.full = task[s].full
      /\ task' = [task EXCEPT ![s] = t]
  BY <1>1, <1>2 DEF Open, IsTask, Points, Writes
<1> HIDE DEF t
<1>4. LogOk'
  BY <1>1, <1>3, SameLog DEF Open, run, history, Writes
<1>5. /\ DOMAIN bytes' = Paths /\ bytes'[p] = Torn /\ \A q \in Paths \ {p} : bytes'[q] = bytes[q]
      /\ meta' = meta
  BY <1>1 DEF Open, Shapes
<1>6. mingled' \/ lost' \/ p \in broken' \/ t.out = t.full
  BY <1>3, Parts DEF Open, history, WorkOk
<1>7. rd[s].at = "idle" /\ NoFile # Torn
  BY <1>1, Resting, Revisions
<1>8. /\ UNCHANGED <<source, phase, skip, unsynced, known, rec, status, dependents, lost, writer,
                     queue, log, broken, mingled, rd>>
      /\ queue \in [Paths -> Nat] /\ log.open \subseteq Paths /\ log.bad \in BOOLEAN
      /\ DOMAIN log = {"open", "bad"} /\ broken \subseteq Paths /\ mingled \in BOOLEAN
      /\ DOMAIN meta = Paths
  BY <1>1 DEF Open, run, index, history, Shapes, TypeOK
<1> QED
  BY <1>1, <1>3, <1>4, <1>5, <1>6, <1>7, <1>8, TaskStep DEF Writes

\* What a task gets is whole, or taints it.
LEMMA GotInv ==
    ASSUME IInv, NEW s \in Slots, Got(s)
    PROVE  IInv'
<1> DEFINE p == s[1]
           q == rd[s].q
           t == [task[s] EXCEPT !.todo = @ \ {q}, !.out = With(@, q, bytes[q]),
                                !.full = With(@, q, meta[q])]
<1>1. /\ p \in Paths /\ IsTask(task[s]) /\ DOMAIN task = Slots /\ DOMAIN rd = Agents /\ Shapes
      /\ TypeOK /\ DiskOk /\ s \in Agents /\ rd[s].at = "held" /\ q \in Paths /\ task[s].pc = "work"
  BY Parts, Actors DEF Shapes, Got, IsRead, LocksOk
<1>2. /\ IsTask(t) /\ t.pc = "work" /\ t.out = With(task[s].out, q, bytes[q])
      /\ t.full = With(task[s].full, q, meta[q])
  BY <1>1 DEF IsTask, Points, Writes
<1>3. task' = [task EXCEPT ![s] = t]
  BY <1>1 DEF Got
<1>4. \A g \in Slots : rd'[s] = NoRead
  BY <1>1 DEF Got
<1>5. lost \/ q \in broken \/ mingled \/ bytes[q] = meta[q]
  <2>1. ~Busy(q)
    BY <1>1, Parts DEF LocksOk, Holds, Busy
  <2>2. Made(q)
    BY <1>1, Parts DEF GateOk, Past
  <2> QED
    BY <2>1, <2>2 DEF Made, Excused, Whole, Sound
<1> HIDE DEF t
<1>6. mingled' \/ lost' \/ p \in broken' \/ t.out = t.full
  <2>1. CASE mingled \/ lost \/ p \in broken \/ q \in broken
    BY <2>1 DEF Got
  <2>2. CASE task[s].out = task[s].full /\ bytes[q] = meta[q]
    BY <1>2, <2>2
  <2> QED
    BY <1>5, <2>1, <2>2, Parts DEF WorkOk
<1>7. broken \subseteq broken' /\ broken' \subseteq Paths /\ (broken = {} => broken' = {})
  BY <1>1 DEF Got, Shapes
<1>8. LogOk'
  BY <1>1, <1>2, <1>3, <1>7, SameLog DEF Got, disk, run, Writes
<1> QED
  BY <1>1, <1>2, <1>3, <1>4, <1>6, <1>7, <1>8, TaskStep, Nothing
     DEF Got, disk, run, index, Writes, Shapes, TypeOK, DiskOk

LEMMA WriteInv ==
    ASSUME IInv, NEW s \in Slots, Write(s)
    PROVE  IInv'
<1> DEFINE p == s[1]
           t == [task[s] EXCEPT !.pc = "written"]
<1>1. /\ p \in Paths /\ IsTask(task[s]) /\ DOMAIN task = Slots /\ Shapes /\ TypeOK
      /\ task[s].pc = "work" /\ rd[s].at = "idle"
  BY Parts, Resting DEF Shapes, Write
<1>2. /\ IsTask(t) /\ t.pc = "written" /\ t.out = task[s].out /\ t.full = task[s].full
      /\ t.c = task[s].c /\ task' = [task EXCEPT ![s] = t]
  BY <1>1 DEF Write, Go, IsTask, Points, Writes
<1> HIDE DEF t
<1>3. LogOk'
  BY <1>1, <1>2, SameLog DEF Write, run, history, Writes
<1>4. /\ DOMAIN bytes' = Paths /\ bytes'[p] = Rev(t.c, t.out)
      /\ \A q \in Paths \ {p} : bytes'[q] = bytes[q]
      /\ meta' = meta /\ bytes'[p] # NoFile
  BY <1>1, <1>2, Revisions DEF Write, Shapes, IsTask
<1>5. mingled' \/ lost' \/ p \in broken' \/ t.out = t.full
  BY <1>2, Parts DEF Write, history, WorkOk
<1>6. /\ UNCHANGED <<source, phase, skip, unsynced, known, rec, status, dependents, lost, writer,
                     queue, log, broken, mingled, rd>>
      /\ queue \in [Paths -> Nat] /\ log.open \subseteq Paths /\ log.bad \in BOOLEAN
      /\ DOMAIN log = {"open", "bad"} /\ broken \subseteq Paths /\ mingled \in BOOLEAN
      /\ DOMAIN meta = Paths
  BY <1>1 DEF Write, run, index, history, Shapes, TypeOK
<1> QED
  BY <1>1, <1>2, <1>3, <1>4, <1>5, <1>6, TaskStep DEF Writes

LEMMA OpenMetaInv ==
    ASSUME IInv, NEW s \in Slots, OpenMeta(s)
    PROVE  IInv'
<1> DEFINE p == s[1]
           t == [task[s] EXCEPT !.pc = "meta"]
<1>1. /\ p \in Paths /\ IsTask(task[s]) /\ DOMAIN task = Slots /\ Shapes /\ TypeOK
      /\ task[s].pc = "written" /\ rd[s].at = "idle"
  BY Parts, Resting DEF Shapes, OpenMeta
<1>2. /\ IsTask(t) /\ t.pc = "meta" /\ t.out = task[s].out /\ t.full = task[s].full
      /\ t.c = task[s].c /\ task' = [task EXCEPT ![s] = t]
  BY <1>1 DEF OpenMeta, Go, IsTask, Points, Writes
<1> HIDE DEF t
<1>3. LogOk'
  BY <1>1, <1>2, SameLog DEF OpenMeta, run, history, Writes
<1>4. /\ DOMAIN meta' = Paths /\ \A q \in Paths \ {p} : meta'[q] = meta[q]
      /\ bytes' = bytes /\ bytes[p] = Rev(t.c, t.out) /\ bytes[p] # NoFile
  BY <1>1, <1>2, Revisions, Parts DEF OpenMeta, Shapes, IsTask, WorkOk
<1>5. mingled' \/ lost' \/ p \in broken' \/ t.out = t.full
  BY <1>2, Parts DEF OpenMeta, history, WorkOk
<1>6. /\ UNCHANGED <<source, phase, skip, unsynced, known, rec, status, dependents, lost, writer,
                     queue, log, broken, mingled, rd>>
      /\ queue \in [Paths -> Nat] /\ log.open \subseteq Paths /\ log.bad \in BOOLEAN
      /\ DOMAIN log = {"open", "bad"} /\ broken \subseteq Paths /\ mingled \in BOOLEAN
      /\ DOMAIN bytes = Paths
  BY <1>1 DEF OpenMeta, run, index, history, Shapes, TypeOK
<1> QED
  BY <1>1, <1>2, <1>3, <1>4, <1>5, <1>6, TaskStep DEF Writes

LEMMA WriteMetaInv ==
    ASSUME IInv, NEW s \in Slots, WriteMeta(s)
    PROVE  IInv'
<1> DEFINE p == s[1]
           t == [task[s] EXCEPT !.pc = "finish"]
<1>1. /\ p \in Paths /\ IsTask(task[s]) /\ DOMAIN task = Slots /\ Shapes /\ TypeOK
      /\ task[s].pc = "meta" /\ rd[s].at = "idle"
  BY Parts, Resting DEF Shapes, WriteMeta
<1>2. /\ IsTask(t) /\ t.pc = "finish" /\ t.out = task[s].out /\ t.full = task[s].full
      /\ t.c = task[s].c /\ t.hash = task[s].hash /\ task' = [task EXCEPT ![s] = t]
  BY <1>1 DEF WriteMeta, Go, IsTask, Points, Writes
<1> HIDE DEF t
<1>3. LogOk'
  BY <1>1, <1>2, SameLog DEF WriteMeta, run, Writes
<1>4. /\ DOMAIN meta' = Paths /\ meta'[p] = Rev(t.hash, t.full)
      /\ \A q \in Paths \ {p} : meta'[q] = meta[q]
      /\ bytes' = bytes /\ bytes[p] = Rev(t.c, t.out) /\ bytes[p] # NoFile
  BY <1>1, <1>2, Revisions, Parts DEF WriteMeta, Shapes, IsTask, WorkOk
<1>5. mingled' \in BOOLEAN /\ (mingled => mingled') /\ (t.hash = t.c \/ mingled')
  BY <1>1, <1>2 DEF WriteMeta
<1>6. mingled' \/ lost' \/ p \in broken' \/ t.out = t.full
  BY <1>2, <1>5, Parts DEF WriteMeta, WorkOk
<1>7. /\ UNCHANGED <<source, phase, skip, unsynced, known, rec, status, dependents, lost, writer,
                     queue, log, broken, rd>>
      /\ queue \in [Paths -> Nat] /\ log.open \subseteq Paths /\ log.bad \in BOOLEAN
      /\ DOMAIN log = {"open", "bad"} /\ broken \subseteq Paths /\ DOMAIN bytes = Paths
  BY <1>1 DEF WriteMeta, run, index, Shapes, TypeOK
<1> QED
  BY <1>1, <1>2, <1>3, <1>4, <1>5, <1>6, <1>7, TaskStep DEF Writes

\* A task that goes to its end leaves a whole pair, and no transaction.
LEMMA FinishInv ==
    ASSUME IInv, NEW s \in Slots, Finish(s)
    PROVE  IInv'
<1> DEFINE p == s[1]
           t == [task[s] EXCEPT !.pc = "done", !.res = "processed"]
<1>1. /\ p \in Paths /\ IsTask(task[s]) /\ DOMAIN task = Slots /\ Shapes /\ TypeOK
      /\ task[s].pc = "finish" /\ rd[s].at = "idle" /\ phase # "off" /\ writer[p] = s
  BY Parts, Resting, AtWork, Nothing DEF Shapes, Finish, Quiet, Writes
<1>2. /\ IsTask(t) /\ t.pc = "done" /\ t.res = "processed" /\ t.out = task[s].out
      /\ t.full = task[s].full /\ task' = [task EXCEPT ![s] = t]
  BY <1>1 DEF Finish, Done, IsTask, Points, Writes
<1> HIDE DEF t
<1>3. /\ UNCHANGED <<source, bytes, meta, phase, skip, unsynced, known, rec, status, dependents,
                     lost, queue, broken, mingled, rd>>
      /\ queue \in [Paths -> Nat] /\ broken \subseteq Paths /\ mingled \in BOOLEAN
      /\ DOMAIN bytes = Paths /\ DOMAIN meta = Paths
      /\ writer' = [writer EXCEPT ![p] = None]
  BY <1>1 DEF Finish, Unlock, run, index, history, Shapes, TypeOK
<1>4. /\ DOMAIN log' = {"open", "bad"} /\ log'.open = log.open \ {p} /\ log'.bad = log.bad
  BY <1>1 DEF Finish, Shapes
<1>5. log'.open \subseteq Paths /\ log'.bad \in BOOLEAN
  BY <1>1, <1>4 DEF TypeOK
<1>6. LogOk'
  <2>1. /\ task'[s] = t /\ \A z \in Slots \ {s} : task'[z] = task[z]
        /\ \A q : q # p => (Busy(q)' <=> Busy(q))
        /\ Busy(p)
    BY <1>1, <1>2, OtherTasks DEF Writes
  <2>2. \A z \in Slots \ {s} : task[z].pc \in Writes => z[1] # p
    BY <1>1, OneWriter DEF Writes
  <2>3. /\ \A q \in log.open : q \in broken \/ Busy(q)
        /\ \A z \in Slots : task[z].pc \in Writes => z[1] \in log.open
        /\ broken # {} => log.bad \/ \E q \in log.open : ~Busy(q)
    BY <1>1, Parts DEF LogOk
  <2>4. \A z \in Slots : task'[z].pc \in Writes => z[1] \in log'.open
    BY <1>2, <1>4, <2>1, <2>2, <2>3 DEF Writes
  <2>5. \A q \in log'.open : q \in broken' \/ Busy(q)'
    BY <1>3, <1>4, <2>1, <2>3
  <2>6. broken' # {} => log'.bad \/ \E q \in log'.open : ~Busy(q)'
    BY <1>3, <1>4, <2>1, <2>3
  <2> QED
    BY <2>4, <2>5, <2>6 DEF LogOk
<1>7. mingled \/ lost \/ p \in broken \/ t.out = t.full
  BY <1>2, Parts DEF WorkOk
<1>8. Made(p)'
  <2>1. /\ bytes[p] = Rev(task[s].c, task[s].out) /\ meta[p] = Rev(task[s].hash, task[s].full)
        /\ task[s].hash = task[s].c \/ mingled
    BY <1>1, Parts DEF WorkOk
  <2>2. bytes[p] \notin {NoFile, Torn} /\ meta[p] \notin {NoFile, Torn}
    BY <1>1, <2>1, Revisions DEF IsTask
  <2>3. lost \/ p \in broken \/ mingled \/ bytes[p] = meta[p]
    BY <1>2, <1>7, <2>1
  <2> QED
    BY <1>3, <2>2, <2>3 DEF Made, Excused, Whole, Sound
<1> QED
  BY <1>1, <1>2, <1>3, <1>4, <1>5, <1>6, <1>7, <1>8, TaskStep DEF Writes

\* A task that ends before that.
LEMMA QuitInv ==
    ASSUME IInv, NEW s \in Slots, NEW res \in {"failed", "unloaded"}, Done(s, res), Unlock(s[1]),
           task[s].pc \in {"open", "work", "written", "meta"}, broken' = broken \cup {s[1]},
           (rd' = rd /\ rd[s].at = "idle") \/ rd' = [rd EXCEPT ![s] = NoRead],
           UNCHANGED <<disk, run, index, queue, mingled, lost>>
    PROVE  IInv'
<1> DEFINE p == s[1]
           t == [task[s] EXCEPT !.pc = "done", !.res = res]
<1>1. /\ p \in Paths /\ IsTask(task[s]) /\ DOMAIN task = Slots /\ Shapes /\ TypeOK /\ writer[p] = s
      /\ DOMAIN rd = Agents /\ s \in Agents
  BY Parts, Actors DEF Shapes, Writes
<1>2. /\ IsTask(t) /\ t.pc = "done" /\ t.res = res /\ task' = [task EXCEPT ![s] = t]
  BY <1>1 DEF Done, IsTask, Points, Writes
<1> HIDE DEF t
<1>3. LogOk'
  BY <1>1, <1>2, GivenUp DEF disk, run, Writes
<1>4. /\ UNCHANGED <<source, bytes, meta, log, phase, skip, unsynced, known, rec, status, dependents,
                     lost, queue, mingled>>
      /\ queue \in [Paths -> Nat] /\ log.open \subseteq Paths /\ log.bad \in BOOLEAN
      /\ DOMAIN log = {"open", "bad"} /\ mingled \in BOOLEAN
      /\ DOMAIN bytes = Paths /\ DOMAIN meta = Paths
      /\ writer' = [writer EXCEPT ![p] = None]
      /\ broken' \subseteq Paths /\ p \in broken'
  BY <1>1 DEF Unlock, disk, run, index, Shapes, TypeOK
<1>5. Made(p)'
  BY <1>4 DEF Made, Excused
<1>6. rd'[s].at = "idle"
  BY <1>1, Nothing
<1>7. rd' = rd \/ rd' = [rd EXCEPT ![s] = NoRead]
  OBVIOUS
<1>8. /\ task[s].pc # "free" /\ t.pc \notin Writes \cup {"drain"} /\ t.pc # "finish"
      /\ t.pc \notin {"written", "meta", "finish"}
      /\ t.res \in {"processed", "skipped", "failed", "unloaded"}
      /\ broken \subseteq broken' /\ (mingled' \/ lost' \/ p \in broken' \/ t.out = t.full)
  BY <1>2, <1>4 DEF Writes
<1>9. /\ queue' \in [Paths -> Nat] /\ DOMAIN log' = {"open", "bad"} /\ log'.open \subseteq Paths
      /\ log'.bad \in BOOLEAN /\ DOMAIN bytes' = Paths /\ DOMAIN meta' = Paths
      /\ \A q \in Paths \ {p} : bytes'[q] = bytes[q] /\ meta'[q] = meta[q]
      /\ bytes'[p] = bytes[p] /\ meta'[p] = meta[p] /\ mingled' \in BOOLEAN /\ (mingled => mingled')
  BY <1>4
<1>10. CASE rd' = rd
  BY <1>1, <1>2, <1>3, <1>4, <1>5, <1>6, <1>8, <1>9, <1>10, TaskStep
<1>11. CASE rd' = [rd EXCEPT ![s] = NoRead]
  BY <1>1, <1>2, <1>3, <1>4, <1>5, <1>6, <1>8, <1>9, <1>11, TaskStep
<1> QED
  BY <1>7, <1>10, <1>11

LEMMA GaveUpInv ==
    ASSUME IInv, NEW s \in Slots, Vanished(s) \/ Fail(s) \/ FailToLoad(s)
    PROVE  IInv'
<1>1. CASE Vanished(s) \/ Fail(s)
  BY <1>1, QuitInv, Resting DEF Vanished, Fail, GiveUp
<1>2. CASE FailToLoad(s)
  <2>1. task[s].pc = "work"
    BY <1>2, Parts DEF FailToLoad, NotFound, AtGate, LocksOk
  <2> QED
    BY <1>2, <2>1, QuitInv DEF FailToLoad
<1> QED
  BY <1>1, <1>2

-----------------------------------------------------------------------------
(***************************************************************************)
(* The steps of whoever reads.                                             *)
(***************************************************************************)

\* A step of one reader: what it has to see to.
LEMMA ReadStep ==
    ASSUME IInv, NEW g \in Agents, NEW r, IsRead(r), rd' = [rd EXCEPT ![g] = r],
           phase \in {"pass", "over"},
           UNCHANGED <<source, bytes, meta, log, phase, skip, unsynced, known, rec, status,
                       dependents, queue, task, writer, broken, mingled, lost>>,
           \A z \in Slots : r.q = z[1] /\ r.at \in {"gate2", "lock2", "held"} =>
                                task[z].pc \notin Writes,
           g \in Slots /\ r.at # "idle" => task[g].pc = "work" /\ r.q \in task[g].todo,
           r.at \in {"lock1", "gate2", "lock2", "lock3", "held"} \/ r.heard = "processed" =>
               (r.q \in Paths => Made(r.q))
    PROVE  IInv'
<1>1. /\ TypeOK /\ Shapes /\ QuietOk /\ LocksOk /\ LogOk /\ DiskOk /\ GateOk /\ WorkOk
      /\ DOMAIN rd = Agents
  BY Parts DEF Shapes
<1>2. /\ DOMAIN rd' = Agents /\ rd'[g] = r /\ \A a \in Agents \ {g} : rd'[a] = rd[a]
  BY <1>1
<1>3. \A p : (Busy(p)' <=> Busy(p)) /\ (Made(p)' <=> Made(p))
  BY DEF Busy, Made, Excused, Whole, Sound
<1>4. TypeOK'
  BY <1>1 DEF TypeOK
<1>5. Shapes'
  BY <1>1, <1>2 DEF Shapes
<1>6. QuietOk'
  BY DEF QuietOk
<1>7. LocksOk'
  <2>1. ASSUME NEW a \in Agents, NEW z \in Slots, Holds(a, z[1])' PROVE task[z].pc \notin Writes
    BY <1>1, <1>2, <2>1 DEF Holds, LocksOk
  <2>2. ASSUME NEW z \in Slots, rd'[z].at # "idle"
        PROVE  task[z].pc = "work" /\ rd'[z].q \in task[z].todo
    BY <1>1, <1>2, <2>2, Actors DEF LocksOk
  <2> QED
    BY <2>1, <2>2 DEF LocksOk
<1>8. LogOk'
  BY <1>1, <1>3 DEF LogOk
<1>9. DiskOk'
  <2>1. \A p \in Paths : (Excused(p)' <=> Excused(p)) /\ (Sound(p)' <=> Sound(p))
    BY <1>3 DEF Excused, Sound
  <2> QED
    BY <1>1, <1>3, <2>1 DEF DiskOk
<1>10. GateOk'
  <2>1. ASSUME NEW a \in Agents, NEW p \in Paths, Past(a, p)' PROVE Made(p)
    <3>1. CASE a = g
      BY <1>2, <2>1, <3>1 DEF Past
    <3>2. CASE a # g
      BY <1>1, <1>2, <2>1, <3>2 DEF Past, GateOk
    <3> QED
      BY <3>1, <3>2
  <2> QED
    BY <1>1, <1>3, <2>1 DEF GateOk
<1>11. WorkOk'
  BY <1>1 DEF WorkOk
<1> QED
  BY <1>4, <1>5, <1>6, <1>7, <1>8, <1>9, <1>10, <1>11 DEF IInv, Types

\* Somebody who reads, and whom the gate lets past.
LEMMA AtGates ==
    ASSUME IInv, NEW g \in Agents, rd[g].at # "idle"
    PROVE  /\ phase \in {"pass", "over"} /\ rd[g].q \in Paths /\ IsRead(rd[g])
           /\ DOMAIN rd = Agents
           /\ Answer(g) = "processed" => Made(rd[g].q)
<1>1. /\ phase \in {"pass", "over"} /\ IsRead(rd[g]) /\ DOMAIN rd = Agents
  BY AtWork, Nothing, Parts DEF Quiet, Shapes
<1>2. rd[g].q \in Paths
  BY <1>1 DEF IsRead
<1>3. ASSUME Answer(g) = "processed" PROVE Made(rd[g].q)
  <2>1. rd[g].heard = "processed" \/ status[rd[g].q] = "processed"
    BY <1>3 DEF Answer
  <2> QED
    BY <1>2, <2>1, Parts DEF GateOk, Past
<1> QED
  BY <1>1, <1>2, <1>3

LEMMA ReadingInv ==
    ASSUME IInv, NEW g \in Agents, Reading(g)
    PROVE  IInv'
<1> DEFINE q == rd[g].q
<1>1. rd[g].at # "idle"
  BY DEF Reading, Gate, PassGate, ReadLock, AtGate, AtLock
<1>2. /\ phase \in {"pass", "over"} /\ q \in Paths /\ IsRead(rd[g]) /\ DOMAIN rd = Agents
      /\ Answer(g) = "processed" => Made(q)
  BY <1>1, AtGates
<1>3. UNCHANGED <<source, bytes, meta, log, phase, skip, unsynced, known, rec, status,
                  dependents, queue, task, writer, broken, mingled, lost>>
  BY DEF Reading, disk, run, index, history
<1>4. /\ \A z \in Slots : Holds(g, z[1]) => task[z].pc \notin Writes
      /\ g \in Slots => task[g].pc = "work" /\ q \in task[g].todo
      /\ rd[g].at \in {"lock1", "gate2", "lock2", "lock3", "held"} \/ rd[g].heard = "processed" => Made(q)
  BY <1>1, <1>2, Parts DEF LocksOk, GateOk, Past
<1>5. CASE Gate(g)
  <2> DEFINE r == [rd[g] EXCEPT !.waiting = TRUE]
  <2>1. /\ IsRead(r) /\ r.q = q /\ r.at = rd[g].at /\ r.heard = rd[g].heard
        /\ rd' = [rd EXCEPT ![g] = r]
    BY <1>1, <1>2, <1>5 DEF Gate, IsRead
  <2> HIDE DEF r
  <2> QED
    BY <1>2, <1>3, <1>4, <2>1, ReadStep DEF Holds
<1>6. CASE PassGate(g)
  <2> DEFINE r == [rd[g] EXCEPT !.at = LockOf(rd[g].at), !.waiting = FALSE, !.heard = None]
  <2>1. /\ IsRead(r) /\ r.q = q /\ r.at \in {"lock1", "lock2", "lock3"}
        /\ rd' = [rd EXCEPT ![g] = r]
        /\ r.at = "lock2" => rd[g].at = "gate2"
    BY <1>1, <1>2, <1>6 DEF PassGate, AtGate, IsRead, LockOf
  <2>2. Made(q)
    BY <1>2, <1>6 DEF PassGate
  <2> HIDE DEF r
  <2> QED
    BY <1>2, <1>3, <1>4, <2>1, <2>2, ReadStep DEF Holds
<1>7. CASE ReadLock(g)
  <2> DEFINE r == [rd[g] EXCEPT !.at = AfterLock(rd[g].at)]
  <2>1. /\ IsRead(r) /\ r.q = q /\ r.at \in {"gate2", "held"} /\ rd' = [rd EXCEPT ![g] = r]
        /\ rd[g].at \in {"lock1", "lock2", "lock3"} /\ writer[q] = None
    BY <1>1, <1>2, <1>7 DEF ReadLock, AtLock, IsRead, AfterLock
  <2>2. \A z \in Slots : z[1] = q => task[z].pc \notin Writes
    BY <2>1, Parts, Actors
  <2> HIDE DEF r
  <2> QED
    BY <1>2, <1>3, <1>4, <2>1, <2>2, ReadStep
<1> QED
  BY <1>5, <1>6, <1>7 DEF Reading

\* Who begins to read, or to read without a .meta, and who has read.
LEMMA ReadsInv ==
    ASSUME IInv,
           \/ \E r \in Readers : WithoutMeta(r) \/ Loaded(r) \/ \E p \in Paths : Load(r, p)
           \/ \E s \in Slots, q \in Paths : Ask(s, q)
    PROVE  IInv'
<1> DEFINE First(q) == [NoRead EXCEPT !.q = q, !.at = "gate1"]
<1>1. \A q \in Paths : /\ IsRead(First(q)) /\ First(q).q = q /\ First(q).at = "gate1"
                       /\ First(q).heard # "processed"
  BY Actors DEF IsRead, NoRead
<1>2. DOMAIN rd = Agents
  BY Parts DEF Shapes
<1>3. UNCHANGED <<source, bytes, meta, log, phase, skip, unsynced, known, rec, status,
                  dependents, queue, task, writer, broken, mingled, lost>>
  BY DEF WithoutMeta, Loaded, Load, Ask, disk, run, index, history
<1>4. ASSUME NEW r \in Readers, Loaded(r) PROVE IInv'
  <2>1. rd[r].at # "idle" /\ rd' = [rd EXCEPT ![r] = NoRead] /\ r \in Agents
    BY <1>4, Actors DEF Loaded, NotFound, AtGate
  <2>2. phase \in {"pass", "over"}
    BY <2>1, AtGates
  <2> QED
    BY <1>3, <2>1, <2>2, ReadStep, Nothing, Actors
<1>5. ASSUME NEW r \in Readers, NEW p \in Paths, Load(r, p) PROVE IInv'
  <2>1. phase \in {"pass", "over"} /\ r \in Agents /\ r \notin Slots /\ rd' = [rd EXCEPT ![r] = First(p)]
    BY <1>5, Actors DEF Load, Started, BeginRead
  <2> HIDE DEF First
  <2> QED
    BY <1>1, <1>3, <2>1, ReadStep
<1>6. ASSUME NEW s \in Slots, NEW q \in Paths, Ask(s, q) PROVE IInv'
  <2>1. /\ task[s].pc = "work" /\ q \in task[s].todo /\ s \in Agents
        /\ rd' = [rd EXCEPT ![s] = First(q)]
    BY <1>6, Actors DEF Ask, BeginRead
  <2>2. phase \in {"pass", "over"}
    BY <2>1, AtWork, Nothing, Parts DEF Quiet, TypeOK
  <2> HIDE DEF First
  <2> QED
    BY <1>1, <1>3, <2>1, <2>2, ReadStep
<1>7. ASSUME NEW r \in Readers, WithoutMeta(r) PROVE IInv'
  <2> DEFINE b == [NoRead EXCEPT !.q = rd[r].q, !.at = "gate3"]
  <2>1. rd[r].at # "idle" /\ rd' = [rd EXCEPT ![r] = b] /\ r \in Agents /\ r \notin Slots
    BY <1>7, Actors DEF WithoutMeta
  <2>2. phase \in {"pass", "over"} /\ rd[r].q \in Paths
    BY <2>1, AtGates
  <2>3. IsRead(b) /\ b.at = "gate3" /\ b.heard # "processed"
    BY <2>2, Actors DEF IsRead, NoRead
  <2> HIDE DEF b
  <2> QED
    BY <1>3, <2>1, <2>2, <2>3, ReadStep
<1> QED
  BY <1>4, <1>5, <1>6, <1>7

\* The result of a task is announced.
LEMMA FinishProcessingInv ==
    ASSUME IInv, NEW s \in Slots, FinishProcessing(s)
    PROVE  IInv'
<1> DEFINE p == s[1]
<1>1. /\ TypeOK /\ Shapes /\ QuietOk /\ LocksOk /\ LogOk /\ DiskOk /\ GateOk /\ WorkOk
      /\ p \in Paths /\ task[s].pc = "done" /\ DOMAIN task = Slots /\ DOMAIN rd = Agents
      /\ DOMAIN rec = Paths
  BY Parts DEF FinishProcessing, Shapes
<1>2. phase \in {"pass", "over"}
  BY <1>1, AtWork, Nothing DEF Quiet
<1>3. /\ UNCHANGED <<source, bytes, meta, log, phase, skip, unsynced, known, writer, broken,
                     mingled, lost>>
      /\ task' = [task EXCEPT ![s] = NoTask]
  BY DEF FinishProcessing, disk, run, history
<1>4. /\ task'[s] = NoTask /\ \A z \in Slots \ {s} : task'[z] = task[z]
      /\ DOMAIN task' = Slots
  BY <1>3, OtherTasks
<1>5. \A q : Busy(q)' <=> Busy(q)
  BY <1>1, <1>4, Nothing DEF Busy, Writes
<1>6. \A q : (Made(q)' <=> Made(q)) /\ (Excused(q)' <=> Excused(q)) /\ (Sound(q)' <=> Sound(q))
  BY <1>3, <1>5 DEF Made, Excused, Whole, Sound
<1>7. PICK st \in {"processed", "failed"} :
          /\ Announce(p, st)
          /\ st = "processed" => Made(p)
          /\ queue' \in [Paths -> Nat] /\ dependents' \in [Paths -> SUBSET Paths]
          /\ DOMAIN rec' = Paths
          /\ \A q \in Paths : rec'[q] = rec[q] \/ rec'[q] = ZERO \/ (q = p /\ Made(p))
  <2>1. CASE /\ task[s].res = "processed" /\ Record(p, Rev(task[s].hash, task[s].full))
             /\ Announce(p, "processed") /\ Requeue(dependents'[p])
    <3>1. Made(p)
      BY <1>1, <2>1 DEF GateOk
    <3>2. dependents' \in [Paths -> SUBSET Paths] /\ DOMAIN rec' = Paths
      BY <1>1, <2>1 DEF Record, TypeOK
    <3>3. \A q \in Paths : rec'[q] = rec[q] \/ q = p
      BY <1>1, <2>1 DEF Record
    <3>4. queue' \in [Paths -> Nat]
      BY <1>1, <2>1 DEF Requeue, TypeOK
    <3> QED
      BY <2>1, <3>1, <3>2, <3>3, <3>4
  <2>2. CASE /\ task[s].res = "skipped" /\ Announce(p, "processed")
             /\ UNCHANGED <<rec, dependents, queue>>
    <3>1. Made(p)
      BY <1>1, <2>2 DEF GateOk
    <3>2. queue' \in [Paths -> Nat] /\ dependents' \in [Paths -> SUBSET Paths] /\ rec' = rec
      BY <1>1, <2>2 DEF TypeOK
    <3> QED
      BY <1>1, <2>2, <3>1, <3>2
  <2>3. CASE task[s].res = "failed" /\ Announce(p, "failed") /\ UNCHANGED <<rec, dependents, queue>>
    <3>1. queue' \in [Paths -> Nat] /\ dependents' \in [Paths -> SUBSET Paths] /\ rec' = rec
      BY <1>1, <2>3 DEF TypeOK
    <3> WITNESS "failed" \in {"processed", "failed"}
    <3> QED
      BY <1>1, <2>3, <3>1
  <2>4. CASE /\ rec' = [rec EXCEPT ![p] = ZERO]
             /\ dependents' = [dependents EXCEPT ![p] = @ \cup {p}]
             /\ Announce(p, "failed") /\ UNCHANGED queue
    <3>1. queue' \in [Paths -> Nat] /\ dependents' \in [Paths -> SUBSET Paths]
      BY <1>1, <2>4 DEF TypeOK
    <3>2. DOMAIN rec' = Paths /\ \A q \in Paths : rec'[q] = rec[q] \/ rec'[q] = ZERO
      BY <1>1, <2>4
    <3> WITNESS "failed" \in {"processed", "failed"}
    <3> QED
      BY <2>4, <3>1, <3>2
  <2> QED
    BY <2>1, <2>2, <2>3, <2>4 DEF FinishProcessing
<1>8. /\ status' = [status EXCEPT ![p] = st] /\ DOMAIN rd' = Agents
      /\ \A g \in Agents : \/ rd'[g] = rd[g]
                           \/ \E h \in {st, "missing"} : /\ rd'[g] = [rd[g] EXCEPT !.heard = h]
                                                         /\ rd[g].q = p /\ rd[g].waiting
  BY <1>7 DEF Announce
<1>9. \A g \in Agents : /\ IsRead(rd'[g]) /\ rd'[g].q = rd[g].q /\ rd'[g].at = rd[g].at
                        /\ \/ rd'[g].heard = rd[g].heard
                           \/ rd'[g].heard = "missing"
                           \/ rd'[g].heard = st /\ rd[g].q = p
  <2> SUFFICES ASSUME NEW g \in Agents
               PROVE  /\ IsRead(rd'[g]) /\ rd'[g].q = rd[g].q /\ rd'[g].at = rd[g].at
                      /\ \/ rd'[g].heard = rd[g].heard
                         \/ rd'[g].heard = "missing"
                         \/ rd'[g].heard = st /\ rd[g].q = p
    OBVIOUS
  <2>1. IsRead(rd[g])
    BY <1>1 DEF Shapes
  <2>2. CASE rd'[g] = rd[g]
    BY <2>1, <2>2
  <2>3. ASSUME NEW h \in {st, "missing"}, rd'[g] = [rd[g] EXCEPT !.heard = h],
               rd[g].q = p, rd[g].waiting
        PROVE  /\ IsRead(rd'[g]) /\ rd'[g].q = rd[g].q /\ rd'[g].at = rd[g].at
               /\ rd'[g].heard = "missing" \/ (rd'[g].heard = st /\ rd[g].q = p)
    <3>1. rd[g].at # "idle"
      BY <2>1, <2>3, Nothing DEF IsRead
    <3> QED
      BY <2>1, <2>3, <3>1 DEF IsRead
  <2> QED
    BY <1>8, <2>2, <2>3
<1>10. TypeOK' /\ Shapes'
  <2>1. /\ DOMAIN writer' = Paths
        /\ \A z \in Slots : task'[z].pc \in {"drain", "open", "work", "written", "meta", "finish"}
                                <=> writer'[z[1]] = z
    BY <1>1, <1>3, Nothing, LockKept DEF Writes
  <2>2. status' \in [Paths -> {None, "processed", "failed"}]
    BY <1>1, <1>8 DEF TypeOK
  <2>3. TypeOK'
    BY <1>1, <1>3, <1>7, <2>1, <2>2 DEF TypeOK
  <2>4. \A z \in Slots : IsTask(task'[z])
    BY <1>1, <1>4, Nothing DEF Shapes
  <2> QED
    BY <1>1, <1>3, <1>4, <1>7, <1>8, <1>9, <2>1, <2>3, <2>4 DEF Shapes
<1>11. QuietOk'
  BY <1>2, <1>3 DEF QuietOk
<1>12. LocksOk'
  <2>1. \A g \in Agents, z \in Slots : Holds(g, z[1])' => task'[z].pc \notin Writes
    BY <1>1, <1>4, <1>9, Nothing DEF LocksOk, Holds, Writes
  <2>2. \A z \in Slots : rd'[z].at # "idle" => task'[z].pc = "work" /\ rd'[z].q \in task'[z].todo
    BY <1>1, <1>4, <1>9, Actors DEF LocksOk
  <2> QED
    BY <2>1, <2>2 DEF LocksOk
<1>13. LogOk'
  BY <1>1, <1>3, <1>4, <1>5, Nothing DEF LogOk, Writes
<1>14. DiskOk'
  <2>1. \A q \in Paths : rec'[q].c \in Contents => rec[q].c \in Contents \/ Made(q)
    BY <1>7 DEF ZERO, Rev, Contents, Gone
  <2> QED
    BY <1>1, <1>2, <1>3, <1>6, <2>1 DEF DiskOk
<1>15. GateOk'
  <2>1. \A q \in Paths : status'[q] = "processed" => Made(q)
    BY <1>1, <1>7, <1>8 DEF GateOk, TypeOK
  <2>2. \A z \in Slots : task'[z].pc = "done" /\ task'[z].res \in {"processed", "skipped"} => Made(z[1])
    BY <1>1, <1>4, Nothing DEF GateOk
  <2>3. \A g \in Agents, q \in Paths : Past(g, q)' => Made(q)
    BY <1>1, <1>7, <1>9 DEF GateOk, Past
  <2> QED
    BY <1>6, <2>1, <2>2, <2>3 DEF GateOk
<1>16. WorkOk'
  BY <1>1, <1>3, <1>4, Nothing DEF WorkOk
<1> QED
  BY <1>10, <1>11, <1>12, <1>13, <1>14, <1>15, <1>16 DEF IInv, Types

-----------------------------------------------------------------------------
(***************************************************************************)
(* Up to the pass, and after it.                                           *)
(***************************************************************************)

\* As long as nobody is at work, the files are all there is to see to.
LEMMA FromQuiet == Types /\ Quiet /\ DiskOk => IInv
<1> SUFFICES ASSUME Types, Quiet, DiskOk PROVE IInv
  OBVIOUS
<1>1. LocksOk /\ LogOk /\ WorkOk /\ GateOk
  BY Nothing, Actors DEF Types, TypeOK, Quiet, All, LocksOk, LogOk, WorkOk, GateOk, Writes, Holds, Past
<1> QED
  BY <1>1 DEF IInv, QuietOk

\* What may be edited or ended does not touch the processed side.
LEMMA IdleInv ==
    ASSUME IInv,
           UNCHANGED <<bytes, meta, log, skip, unsynced, known, rec, status, dependents, queue,
                       task, writer, rd, broken, mingled, lost>>,
           source' \in [Paths -> Contents \cup {Gone}],
           phase' = phase \/ (phase = "pass" /\ phase' = "over")
    PROVE  IInv'
<1>1. /\ TypeOK /\ Shapes /\ QuietOk /\ LocksOk /\ LogOk /\ DiskOk /\ GateOk /\ WorkOk
  BY Parts
<1>2. \A p : /\ Busy(p)' <=> Busy(p)
             /\ (Made(p)' <=> Made(p)) /\ (Excused(p)' <=> Excused(p)) /\ (Sound(p)' <=> Sound(p))
  BY DEF Busy, Made, Excused, Whole, Sound
<1>3. TypeOK' /\ Shapes'
  BY <1>1 DEF TypeOK, Shapes
<1>4. QuietOk'
  BY <1>1 DEF QuietOk, Quiet
<1>5. LocksOk' /\ WorkOk'
  BY <1>1 DEF LocksOk, WorkOk, Holds
<1>6. LogOk'
  BY <1>1, <1>2 DEF LogOk
<1>7. DiskOk'
  BY <1>1, <1>2 DEF DiskOk, Validates
<1>8. GateOk'
  <2>1. \A g, p : Past(g, p)' <=> Past(g, p)
    BY DEF Past
  <2> QED
    BY <1>1, <1>2, <2>1 DEF GateOk
<1> QED
  BY <1>3, <1>4, <1>5, <1>6, <1>7, <1>8 DEF IInv, Types

LEMMA OpenLogInv == IInv /\ OpenLog => IInv'
<1> SUFFICES ASSUME IInv, OpenLog PROVE IInv'
  OBVIOUS
<1>1. /\ TypeOK /\ Shapes /\ Quiet /\ DiskOk /\ phase = "off" /\ phase' = "opened"
      /\ log' = [open |-> {}, bad |-> FALSE] /\ rec = All(Paths, NoFile)
      /\ UNCHANGED <<source, bytes, meta, known, rec, status, dependents, unsynced, queue, task,
                     writer, rd, broken, mingled, lost>>
  BY Parts, AtWork DEF OpenLog, index, history, Quiet
<1>2. skip' \in BOOLEAN /\ (skip' => Validates)
  BY <1>1 DEF OpenLog, Validates
<1>3. /\ DOMAIN log' = {"open", "bad"} /\ log'.open = {} /\ log'.bad = FALSE
  BY <1>1
<1>4. TypeOK'
  BY <1>1, <1>2, <1>3, ZenonT(30) DEF TypeOK
<1>5. Shapes'
  BY <1>1, <1>3 DEF Shapes
<1>6. Quiet'
  BY <1>1, <1>3 DEF Quiet
<1>7. \A p \in Paths : skip' => (Excused(p) \/ Sound(p))'
  BY <1>1, <1>2 DEF DiskOk, Excused, Sound
<1>8. \A p \in Paths : rec'[p].c \notin Contents
  BY <1>1, Revisions DEF All
<1>9. DiskOk'
  BY <1>1, <1>7, <1>8 DEF DiskOk
<1> QED
  BY <1>4, <1>5, <1>6, <1>9, FromQuiet, PTL DEF Types

LEMMA RegisterInv == IInv /\ Register => IInv'
<1> SUFFICES ASSUME IInv, Register PROVE IInv'
  OBVIOUS
<1>1. /\ TypeOK /\ Shapes /\ Quiet /\ DiskOk /\ phase = "opened" /\ phase' = "scan"
      /\ rec = All(Paths, NoFile) /\ known' \subseteq Paths /\ unsynced' \subseteq Paths
      /\ UNCHANGED <<source, bytes, meta, log, rec, status, dependents, skip, queue, task,
                     writer, rd, broken, mingled, lost>>
  BY Parts, AtWork DEF Register, disk, history, Quiet
<1>2. TypeOK'
  BY <1>1 DEF TypeOK
<1>3. Shapes'
  BY <1>1 DEF Shapes
<1>4. Quiet'
  BY <1>1 DEF Quiet, All
<1>5. \A p \in Paths : /\ Excused(p) \/ Sound(p) => (Excused(p) \/ Sound(p))'
                       /\ Made(p) => Made(p)'
  BY <1>1, Lasting DEF Busy
<1>6. DiskOk'
  BY <1>1, <1>5 DEF DiskOk
<1> QED
  BY <1>2, <1>3, <1>4, <1>6, FromQuiet, PTL DEF Types

\* A pair that is recorded is whole, where the log can be trusted, and a .meta without the
\* bytes does no harm.
LEMMA SyncInv == \A p \in Paths : IInv /\ Sync(p) => IInv'
<1> SUFFICES ASSUME NEW p \in Paths, IInv, Sync(p) PROVE IInv'
  OBVIOUS
<1>1. /\ TypeOK /\ Shapes /\ Quiet /\ DiskOk /\ phase = "scan" /\ p \in unsynced
      /\ unsynced' \subseteq unsynced /\ \A q \in unsynced : rec[q] = NoFile
      /\ rec' = rec \/ unsynced' = unsynced \ {p}
      /\ UNCHANGED <<source, log, known, status, phase, skip, queue, task, writer, rd, broken,
                     mingled, lost>>
  BY Parts, AtWork DEF Sync, RemoveBytes, RemoveMeta, history, Quiet
<1>2. /\ \/ (RemoveBytes(p) \/ RemoveMeta(p)) /\ UNCHANGED <<rec, dependents>>
         \/ /\ Usable(p) /\ bytes[p] # NoFile /\ Record(p, meta[p])
            /\ UNCHANGED <<bytes, meta>>
  BY DEF Sync
<1>3. /\ DOMAIN rec' = Paths /\ dependents' \in [Paths -> SUBSET Paths]
      /\ \A q \in Paths \ {p} : rec'[q] = rec[q]
      /\ rec'[p] = rec[p] \/ (Usable(p) /\ bytes[p] # NoFile /\ UNCHANGED <<bytes, meta>>)
  <2>1. CASE UNCHANGED <<rec, dependents>>
    <3>1. rec' = rec /\ dependents' = dependents
      BY <2>1
    <3> QED
      BY <1>1, <3>1 DEF TypeOK, Shapes
  <2>2. CASE /\ Usable(p) /\ bytes[p] # NoFile /\ Record(p, meta[p])
             /\ UNCHANGED <<bytes, meta>>
    <3>1. dependents' \in [Paths -> SUBSET Paths]
      BY <1>1, <2>2 DEF Record, TypeOK
    <3>2. DOMAIN rec' = Paths /\ \A q \in Paths \ {p} : rec'[q] = rec[q]
      BY <1>1, <2>2 DEF Record, Shapes
    <3> QED
      BY <2>2, <3>1, <3>2
  <2> QED
    BY <1>2, <2>1, <2>2
<1>4. /\ DOMAIN bytes' = Paths /\ DOMAIN meta' = Paths
      /\ \A q \in Paths \ {p} : bytes'[q] = bytes[q] /\ meta'[q] = meta[q]
      /\ \/ bytes'[p] = bytes[p] /\ meta'[p] = meta[p]
         \/ bytes'[p] = NoFile
  BY <1>1, <1>2 DEF RemoveBytes, RemoveMeta, Shapes
<1>5. TypeOK'
  BY <1>1, <1>3 DEF TypeOK
<1>6. Shapes'
  BY <1>1, <1>3, <1>4 DEF Shapes
<1>7. Quiet'
  BY <1>1, <1>3 DEF Quiet, TypeOK
<1>8. \A q \in Paths : /\ Excused(q) \/ Sound(q) => (Excused(q) \/ Sound(q))'
                       /\ Made(q) /\ q # p => Made(q)'
  <2>1. \A q \in Paths \ {p} : /\ Excused(q) \/ Sound(q) => (Excused(q) \/ Sound(q))'
                               /\ Made(q) => Made(q)'
    BY <1>1, <1>4, Lasting DEF Busy
  <2>2. CASE bytes'[p] = bytes[p] /\ meta'[p] = meta[p]
    BY <1>1, <2>1, <2>2, Lasting DEF Busy
  <2>3. CASE bytes'[p] = NoFile
    BY <2>1, <2>3, Revisions DEF Sound
  <2> QED
    BY <1>4, <2>1, <2>2, <2>3
<1>9. skip => (rec'[p].c \in Contents => Made(p)')
  <2>1. CASE rec'[p] = rec[p]
    BY <1>1, <2>1, Revisions
  <2>2. CASE skip /\ bytes[p] # NoFile /\ UNCHANGED <<bytes, meta>>
    <3>1. ~Busy(p) /\ p \notin broken
      BY <1>1, Nothing DEF Quiet, Busy, Writes
    <3>2. lost \/ Sound(p)
      BY <1>1, <2>2, <3>1 DEF DiskOk, Excused
    <3>3. Made(p)
      BY <2>2, <3>2 DEF Made, Excused, Whole
    <3> QED
      BY <1>1, <2>2, <3>3, Lasting DEF Busy
  <2> QED
    BY <1>3, <2>1, <2>2
<1>10. DiskOk'
  BY <1>1, <1>3, <1>4, <1>8, <1>9 DEF DiskOk
<1> QED
  BY <1>5, <1>6, <1>7, <1>10, FromQuiet, PTL DEF Types

LEMMA StartPassInv == IInv /\ StartPass => IInv'
<1> SUFFICES ASSUME IInv, StartPass PROVE IInv'
  OBVIOUS
<1>1. /\ TypeOK /\ Shapes /\ Quiet /\ DiskOk /\ phase = "scan" /\ phase' = "pass"
      /\ queue' \in [Paths -> Nat]
      /\ UNCHANGED <<source, bytes, meta, log, known, rec, status, dependents, skip, unsynced,
                     task, writer, rd, broken, mingled, lost>>
  BY Parts, AtWork DEF StartPass, disk, index
<1>2. TypeOK'
  BY <1>1 DEF TypeOK
<1>3. Shapes'
  BY <1>1 DEF Shapes
<1>4. Quiet'
  BY <1>1 DEF Quiet
<1>5. \A p \in Paths : /\ Excused(p) \/ Sound(p) => (Excused(p) \/ Sound(p))'
                       /\ Made(p) => Made(p)'
  BY <1>1, Lasting DEF Busy
<1>6. DiskOk'
  BY <1>1, <1>5 DEF DiskOk
<1> QED
  BY <1>2, <1>3, <1>4, <1>6, FromQuiet, PTL DEF Types

\* A process that dies leaves pairs that are sound, or a log that says they may not be.
LEMMA StopInv == IInv /\ Stop => IInv'
<1> SUFFICES ASSUME IInv, Stop PROVE IInv'
  OBVIOUS
<1>1. TypeOK /\ Shapes /\ LogOk /\ DiskOk /\ GateOk /\ phase # "off"
  BY Parts DEF Stop
<1>2. /\ UNCHANGED <<source, bytes, meta, log, mingled>>
      /\ phase' = "off" /\ skip' = TRUE /\ unsynced' = {} /\ known' = {}
      /\ rec' = All(Paths, NoFile) /\ status' = All(Paths, None) /\ dependents' = All(Paths, {})
      /\ queue' = All(Paths, 0) /\ writer' = All(Paths, None)
      /\ task' = All(Slots, NoTask) /\ rd' = All(Agents, NoRead) /\ broken' = {}
  BY DEF Stop, disk
<1>3. /\ lost' \in BOOLEAN /\ (lost => lost')
      /\ ~skip /\ ~lost' => \A p \in Paths : bytes[p] = NoFile \/ status[p] = "processed"
  BY <1>1 DEF Stop, Shapes
<1>4. /\ DOMAIN rec' = Paths /\ DOMAIN writer' = Paths /\ DOMAIN task' = Slots /\ DOMAIN rd' = Agents
      /\ \A p \in Paths : rec'[p] = NoFile /\ writer'[p] = None
      /\ \A s \in Slots : task'[s] = NoTask
      /\ \A g \in Agents : rd'[g] = NoRead
      /\ status' \in [Paths -> {None, "processed", "failed"}]
      /\ dependents' \in [Paths -> SUBSET Paths] /\ queue' \in [Paths -> Nat]
  BY <1>2 DEF All
<1>5. TypeOK'
  <2>1. \A s \in Slots : task'[s].pc \in {"drain", "open", "work", "written", "meta", "finish"}
                             <=> writer'[s[1]] = s
    BY <1>4, Nothing, Actors
  <2> QED
    BY <1>1, <1>2, <1>4, <2>1 DEF TypeOK
<1>6. Shapes'
  BY <1>1, <1>2, <1>3, <1>4, Nothing DEF Shapes
<1>7. Quiet'
  BY <1>2, <1>4 DEF Quiet
<1>8. ASSUME NEW p \in Paths, Validates, ~lost' PROVE Sound(p)
  <2>1. broken = {} /\ ~Busy(p)
    BY <1>1, <1>8 DEF LogOk, Validates, Busy
  <2>2. CASE skip
    BY <1>1, <1>3, <1>8, <2>1, <2>2 DEF DiskOk, Excused
  <2>3. CASE ~skip /\ bytes[p] = NoFile
    BY <2>3, Revisions DEF Sound
  <2>4. CASE ~skip /\ status[p] = "processed"
    BY <1>1, <1>3, <1>8, <2>1, <2>4 DEF GateOk, Made, Excused, Whole
  <2> QED
    BY <1>3, <1>8, <2>2, <2>3, <2>4
<1>9. DiskOk'
  <2>1. \A p \in Paths : (lost \/ Sound(p) \/ ~Validates)'
    BY <1>2, <1>8 DEF Sound, Validates
  <2>2. \A p \in Paths : rec'[p].c \notin Contents
    BY <1>4, Revisions
  <2> QED
    BY <1>2, <2>1, <2>2 DEF DiskOk
<1> QED
  BY <1>5, <1>6, <1>7, <1>9, FromQuiet, PTL DEF Types

-----------------------------------------------------------------------------
(***************************************************************************)
(* The results.                                                            *)
(***************************************************************************)

LEMMA NextIInv == IInv /\ [Next]_vars => IInv'
<1> SUFFICES ASSUME IInv, [Next]_vars PROVE IInv'
  OBVIOUS
<1>1. source \in [Paths -> Contents \cup {Gone}]
  BY Parts DEF TypeOK
<1>2. CASE OpenLog \/ Register \/ StartPass \/ \E p \in Paths : Sync(p)
  BY <1>2, OpenLogInv, RegisterInv, StartPassInv, SyncInv
<1>3. CASE EndPass
  BY <1>1, <1>3, IdleInv DEF EndPass, disk, index, history
<1>4. CASE \E g \in Agents : Reading(g)
  BY <1>4, ReadingInv
<1>5. CASE \/ \E r \in Readers : WithoutMeta(r) \/ Loaded(r) \/ \E p \in Paths : Load(r, p)
           \/ \E s \in Slots, q \in Paths : Ask(s, q)
  BY <1>5, ReadsInv
<1>6. ASSUME NEW s \in Slots,
             \/ Examine(s) \/ SetBit(s) \/ Start(s) \/ Open(s) \/ Got(s) \/ Write(s)
             \/ OpenMeta(s) \/ WriteMeta(s) \/ Finish(s) \/ Vanished(s) \/ FailToLoad(s)
             \/ FinishProcessing(s) \/ Unreadable(s) \/ Fail(s)
      PROVE  IInv'
  BY <1>6, ExamineInv, UnreadableInv, SetBitInv, StartInv, OpenInv, GotInv, WriteInv, OpenMetaInv, WriteMetaInv,
     FinishInv, GaveUpInv, FinishProcessingInv
<1>7. ASSUME NEW p \in Paths, NEW c \in Contents \cup {Gone}, Edit(p, c) PROVE IInv'
  <2>1. source' \in [Paths -> Contents \cup {Gone}]
    BY <1>1, <1>7 DEF Edit
  <2>2. /\ UNCHANGED <<bytes, meta, log, skip, unsynced, known, rec, status, dependents, queue,
                       task, writer, rd, broken, mingled, lost>>
        /\ phase' = phase
    BY <1>7 DEF Edit, run, index
  <2> QED
    BY <2>1, <2>2, IdleInv
<1>8. CASE Stop
  BY <1>8, StopInv
<1>9. CASE UNCHANGED vars
  <2>1. /\ UNCHANGED <<bytes, meta, log, skip, unsynced, known, rec, status, dependents, queue,
                       task, writer, rd, broken, mingled, lost>>
        /\ phase' = phase /\ source' = source
    BY <1>9 DEF vars, disk, run, index, history
  <2> QED
    BY <1>1, <2>1, IdleInv
<1> QED
  BY <1>2, <1>3, <1>4, <1>5, <1>6, <1>7, <1>8, <1>9 DEF Next, Work

\* The inductive invariant.
THEOREM ImporterInvariant == Spec => []IInv
  BY InitIInv, NextIInv, PTL DEF Spec

\* The types, and who has the writer bit of an asset (TypeOK).
THEOREM ImporterTypes == Spec => []TypeOK
<1>1. IInv => TypeOK
  BY DEF IInv, Types
<1> QED
  BY <1>1, ImporterInvariant, PTL

\* Whoever has the two readers of an asset, through the gate, reads one whole revision
\* (ReadsWhole): what it reads was made before it was let past the gate, and the lock it
\* holds keeps every task from the files.
THEOREM ImporterReadsWhole == Spec => []ReadsWhole
<1>1. ASSUME IInv PROVE ReadsWhole
  <2> SUFFICES ASSUME NEW g \in Agents, rd[g].at = "held", rd[g].q \notin broken, ~lost
               PROVE  /\ bytes[rd[g].q] \notin {NoFile, Torn} /\ meta[rd[g].q] \notin {NoFile, Torn}
                      /\ bytes[rd[g].q] = meta[rd[g].q] \/ mingled
    BY DEF ReadsWhole
  <2>1. rd[g].q \in Paths
    BY <1>1, AtGates
  <2>2. Made(rd[g].q)
    BY <1>1, <2>1, Parts DEF GateOk, Past
  <2>3. ~Busy(rd[g].q)
    BY <1>1, Parts DEF LocksOk, Holds, Busy
  <2> QED
    BY <2>2, <2>3 DEF Made, Excused, Whole, Sound
<1> QED
  BY <1>1, ImporterInvariant, PTL

-----------------------------------------------------------------------------
(***************************************************************************)
(* Why a run brings everything in line.  An asset that was read out of     *)
(* date is queued again by the record of what it was read from, if the     *)
(* edge is recorded; if it is not, then it could only be read when it was  *)
(* right (see late).                                                       *)
(***************************************************************************)

IsFun(f) == f = [x \in DOMAIN f |-> f[x]]

\* A revision of p, as its .meta records it.
Proper(p, r) ==
    /\ Kind[p] # "ignore" /\ r.c \in Contents
    /\ r = Rev(r.c, r.d) /\ IsFun(r.d) /\ DOMAIN r.d = DepsOf(p, r.c)

DoneWell(s) == task[s].pc = "done" /\ task[s].res = "processed"
Making(s) == task[s].pc \in Writes \cup {"lock", "drain"} \/ DoneWell(s)
Makeable(p) == Kind[p] # "ignore" /\ source[p] # Gone
Deps(p) == DepsOf(p, source[p])

\* What the records of an asset look like, and what a task has gathered.
PathFits(p) ==
    /\ Usable(p) => Proper(p, meta[p])
    /\ rec[p] \in {NoFile, ZERO} \/ Proper(p, rec[p])
TaskFits(s) ==
    LET t == task[s]
        p == s[1]
    IN /\ IsFun(t.full)
       /\ t.pc \in {"free", "lock", "drain", "open"} => t.full = <<>>
       /\ t.pc \in Writes \cup {"lock", "drain"} => Kind[p] # "ignore" /\ t.hash \in Contents
       /\ t.pc \in Writes \ {"open"} => /\ DOMAIN t.full = DepsOf(p, t.hash) \ t.todo
                                        /\ t.todo \subseteq DepsOf(p, t.hash)
       /\ t.pc \in {"written", "meta", "finish"} => t.todo = {}
       /\ DoneWell(s) => Proper(p, Rev(t.hash, t.full))
RecordsOk == (\A p \in Paths : PathFits(p)) /\ (\A s \in Slots : TaskFits(s))

\* The index of dependents has every edge that is recorded, and in a scan no other.
EdgesOk ==
    \A p, q \in Paths :
        /\ q \in DOMAIN rec[p].d => p \in dependents[q]
        /\ phase \in {"off", "opened", "scan"} /\ p \in dependents[q] => q \in DOMAIN rec[p].d

\* Whatever is there gets its turn.
TurnsOk ==
    /\ \A p \in Paths :
           /\ phase \in {"scan", "pass", "over"} /\ source[p] # Gone /\ p \notin dirty => p \in known
           /\ phase \in {"pass", "over"} /\ p \in known =>
                  queue[p] > 0 \/ status[p] # None \/ \E s \in Slots : s[1] = p /\ task[s].pc # "free"
    /\ phase = "over" => (\A p \in Paths : queue[p] = 0) /\ (\A s \in Slots : task[s].pc = "free")

\* Before its first result an asset is recorded as it is, or not at all.
FirstOk ==
    \A p \in Paths \ broken :
        status[p] = None /\ (\A s \in Slots : s[1] = p => ~Making(s)) => rec[p] \in {NoFile, meta[p]}

\* A result is about the source as it is, unless that was edited or somebody gave up.
TaskTells(s) ==
    LET t == task[s]
        p == s[1]
    IN /\ Making(s) => Makeable(p) /\ t.hash = source[p]
       /\ t.pc = "done" => t.res # "unloaded"
       /\ t.pc = "done" /\ t.res = "skipped" => Makeable(p) /\ rec[p].c = source[p]
       /\ t.pc = "done" /\ t.res = "failed" => ~Makeable(p)
StatusTells(p) ==
    /\ status[p] = "processed" => Makeable(p) /\ rec[p].c = source[p]
    /\ status[p] = "failed" => ~Makeable(p)
    /\ \A g \in Agents : Past(g, p) => status[p] = "processed"
TellsOk ==
    /\ \A p \in Paths \ (dirty \cup broken) : StatusTells(p)
    /\ \A s \in Slots : s[1] \notin dirty \cup broken => TaskTells(s)

Good(p) == Ancestry(source, p) \cap (dirty \cup broken \cup late) = {}
Up == phase \in {"pass", "over"} /\ ~lost

\* The record of q is about to change, or will never be right (see Overtaken).
Settling(q) ==
    rec[q] # meta[q] \/ \E s \in Slots : s[1] = q /\ (task[s].pc \in Writes \/ DoneWell(s))

\* p will be looked at again, reads q as it is, or has read it; or its own record is not right.
ToRead(p, q) ==
    \E s \in Slots :
        /\ s[1] = p
        /\ task[s].pc \in {"lock", "drain", "open"} \/ (task[s].pc = "work" /\ q \in task[s].todo)
HasRead(p, q) ==
    \E s \in Slots :
        /\ s[1] = p /\ task[s].pc \in Writes
        /\ q \in DOMAIN task[s].full /\ task[s].full[q] = meta[q]
Current(p, q) == ~Busy(p) /\ q \in DOMAIN meta[p].d /\ meta[p].d[q] = meta[q]
Astray(p) == rec[p] # meta[p] /\ \A s \in Slots : s[1] = p => ~Making(s)
InHand(p, q) == queue[p] > 0 \/ ToRead(p, q) \/ HasRead(p, q) \/ Current(p, q) \/ Astray(p)

\* Where the edge is recorded, p follows q.
FollowsOk ==
    Up => \A p \in Paths : Good(p) =>
              \A q \in Deps(p) : p \in dependents[q] => Settling(q) \/ InHand(p, q)

\* What x says and has read is right from the first.
Right(x) ==
    LET b == Built(source) IN
    /\ Makeable(x) /\ rec[x].c = source[x] => rec[x] = b[x]
    /\ \A s \in Slots : s[1] = x =>
           \A y \in Deps(x) : y \in DOMAIN task[s].full =>
                                  task[s].full[y] = b[y] /\ b[y] # NoFile
    /\ ~Busy(x) /\ (\/ status[x] = "processed"
                    \/ \E s \in Slots : /\ s[1] = x /\ task[s].pc = "done"
                                        /\ task[s].res \in {"processed", "skipped"})
           => meta[x] = b[x]

\* p has read q when it was right.
ReadRight(p, q) ==
    LET b == Built(source) IN
    /\ \A s \in Slots : s[1] = p /\ q \in DOMAIN task[s].full =>
                            task[s].full[q] = b[q] /\ status[q] = "processed"
    /\ ~Busy(p) /\ (\E s \in Slots : s[1] = p /\ DoneWell(s)) =>
           q \in DOMAIN meta[p].d /\ meta[p].d[q] = b[q]

\* Where it is not, q and all it is made from are right before p reads it.
RightOk ==
    Up => \A p \in Paths : Good(p) =>
              \A q \in Deps(p) : p \notin dependents[q] =>
                  ReadRight(p, q) /\ \A x \in Ancestry(source, q) : Right(x)

LInv == RecordsOk /\ EdgesOk /\ TurnsOk /\ FirstOk /\ TellsOk /\ FollowsOk /\ RightOk

\* What an asset is made from are other assets.
LEMMA DepsAreOthers ==
    ASSUME NEW p \in Paths, NEW c \in Contents \cup {Gone}
    PROVE  DepsOf(p, c) \subseteq Paths /\ p \notin DepsOf(p, c)
<1>1. PICK rank \in [Paths -> 1 .. Cardinality(Paths)] :
           \A x \in Paths : \A v \in Contents : \A q \in Reads[x][v] : rank[q] < rank[x]
  BY ReadsAcyclic
<1>2. Cardinality(Paths) \in Nat
  BY ImporterAssumption, FS_CardinalityType
<1>3. CASE DepsOf(p, c) = {}
  BY <1>3
<1>4. CASE c \in Contents /\ DepsOf(p, c) = Reads[p][c]
  <2>1. DepsOf(p, c) \subseteq Paths
    BY <1>4, ImporterAssumption
  <2>2. p \notin Reads[p][c]
    BY <1>1, <1>2, <1>4
  <2> QED
    BY <1>4, <2>1, <2>2
<1> QED
  BY <1>3, <1>4 DEF DepsOf

\* The ancestry of an asset holds it, what it is made from, and their ancestries.
LEMMA AncestryIs ==
    ASSUME NEW src \in [Paths -> Contents \cup {Gone}], NEW p \in Paths
    PROVE  /\ p \in Ancestry(src, p) /\ Ancestry(src, p) \in SUBSET Paths
           /\ Closed(src, Ancestry(src, p))
           /\ \A S \in SUBSET Paths : p \in S /\ Closed(src, S) => Ancestry(src, p) \subseteq S
           /\ \A q \in Ancestry(src, p) : Ancestry(src, q) \subseteq Ancestry(src, p)
           /\ \A q \in DepsOf(p, src[p]) : q \in Paths /\ q # p /\ q \in Ancestry(src, p)
<1>1. p \in Ancestry(src, p) /\ Ancestry(src, p) \in SUBSET Paths
  BY DEF Ancestry
<1>2. \A S \in SUBSET Paths : p \in S /\ Closed(src, S) => Ancestry(src, p) \subseteq S
  BY DEF Ancestry
<1>3. Closed(src, Ancestry(src, p))
  <2> SUFFICES ASSUME NEW q \in Ancestry(src, p), NEW x \in DepsOf(q, src[q])
               PROVE  x \in Ancestry(src, p)
    BY DEF Closed
  <2>1. q \in Paths /\ x \in Paths
    BY <1>1, DepsAreOthers
  <2> SUFFICES ASSUME NEW S \in SUBSET Paths, p \in S, Closed(src, S) PROVE x \in S
    BY <2>1 DEF Ancestry
  <2> QED
    BY <1>2 DEF Closed
<1>4. \A q \in Ancestry(src, p) : Ancestry(src, q) \subseteq Ancestry(src, p)
  BY <1>1, <1>3 DEF Ancestry
<1>5. \A q \in DepsOf(p, src[p]) : q \in Paths /\ q # p /\ q \in Ancestry(src, p)
  BY <1>1, <1>3, DepsAreOthers DEF Closed
<1> QED
  BY <1>1, <1>2, <1>3, <1>4, <1>5

\* Two source trees that agree on the ancestry of an asset give it the same ancestry ...
LEMMA AncestrySame ==
    ASSUME NEW src \in [Paths -> Contents \cup {Gone}], NEW src2 \in [Paths -> Contents \cup {Gone}],
           NEW p \in Paths, \A x \in Ancestry(src, p) : src2[x] = src[x]
    PROVE  Ancestry(src2, p) = Ancestry(src, p)
<1>1. /\ p \in Ancestry(src, p) /\ Ancestry(src, p) \in SUBSET Paths
      /\ Closed(src, Ancestry(src, p))
  BY AncestryIs
<1>2. /\ p \in Ancestry(src2, p) /\ Ancestry(src2, p) \in SUBSET Paths
      /\ Closed(src2, Ancestry(src2, p))
  BY AncestryIs
<1>3. Ancestry(src2, p) \subseteq Ancestry(src, p)
  <2>1. Closed(src2, Ancestry(src, p))
    BY <1>1 DEF Closed
  <2> QED
    BY <1>1, <2>1, AncestryIs
<1>4. Ancestry(src, p) \subseteq Ancestry(src2, p)
  <2>1. Closed(src, Ancestry(src2, p))
    BY <1>2, <1>3 DEF Closed
  <2> QED
    BY <1>2, <2>1, AncestryIs
<1> QED
  BY <1>3, <1>4

\* ... and make the same of it.
LEMMA BuiltSame ==
    ASSUME NEW src \in [Paths -> Contents \cup {Gone}], NEW src2 \in [Paths -> Contents \cup {Gone}],
           NEW S \in SUBSET Paths, Closed(src, S), \A x \in S : src2[x] = src[x]
    PROVE  \A x \in S : Built(src2)[x] = Built(src)[x]
<1>1. PICK rank \in [Paths -> 1 .. Cardinality(Paths)] :
           \A p \in Paths : \A c \in Contents : \A q \in Reads[p][c] : rank[q] < rank[p]
  BY ReadsAcyclic
<1>2. Cardinality(Paths) \in Nat
  BY ImporterAssumption, FS_CardinalityType
<1>3. /\ Built(src) = [p \in Paths |-> MadeFrom(src, p, Built(src))]
      /\ Built(src2) = [p \in Paths |-> MadeFrom(src2, p, Built(src2))]
  BY BuiltIs
<1> DEFINE Bad == {n \in Nat : \E x \in S : rank[x] = n /\ Built(src2)[x] # Built(src)[x]}
<1>4. Bad = {}
  <2> SUFFICES ASSUME Bad # {} PROVE FALSE
    OBVIOUS
  <2>1. PICK n \in Bad : \A m \in Bad : n <= m
    <3>1. Bad \in SUBSET Nat
      OBVIOUS
    <3> HIDE DEF Bad
    <3> QED
      BY <3>1, Least
  <2>2. PICK x \in S : rank[x] = n /\ Built(src2)[x] # Built(src)[x]
    BY <2>1
  <2>3. ASSUME NEW q \in DepsOf(x, src[x]) PROVE Built(src2)[q] = Built(src)[q]
    <3>1. q \in S /\ q \in Paths /\ x \in Paths
      BY DEF Closed
    <3>2. rank[q] < rank[x] /\ rank[q] \in Nat
      BY <1>1, <1>2, <3>1 DEF DepsOf
    <3>3. rank[q] \notin Bad
      <4> HIDE DEF Bad
      <4> QED
        BY <2>1, <2>2, <3>2
    <3> QED
      BY <3>1, <3>2, <3>3
  <2>4. MadeFrom(src, x, Built(src)) = MadeFrom(src, x, Built(src2))
    BY <2>3, MadeFromDeps
  <2>5. MadeFrom(src2, x, Built(src2)) = MadeFrom(src, x, Built(src2))
    BY DEF MadeFrom
  <2>6. Built(src)[x] = MadeFrom(src, x, Built(src)) /\ Built(src2)[x] = MadeFrom(src2, x, Built(src2))
    <3> HIDE DEF Bad
    <3>1. x \in Paths
      OBVIOUS
    <3> QED
      BY <1>3, <3>1
  <2> QED
    BY <2>2, <2>4, <2>5, <2>6
<1> SUFFICES ASSUME NEW x \in S, Built(src2)[x] # Built(src)[x] PROVE FALSE
  OBVIOUS
<1>5. rank[x] \in Nat
  BY <1>1, <1>2
<1>6. rank[x] \in Bad
  BY <1>5
<1> QED
  BY <1>4, <1>6

LEMMA BuiltSameAt ==
    ASSUME NEW src \in [Paths -> Contents \cup {Gone}], NEW src2 \in [Paths -> Contents \cup {Gone}],
           NEW p \in Paths, \A x \in Ancestry(src, p) : src2[x] = src[x]
    PROVE  \A x \in Ancestry(src, p) : Built(src2)[x] = Built(src)[x]
<1>1. Ancestry(src, p) \in SUBSET Paths /\ Closed(src, Ancestry(src, p))
  BY AncestryIs
<1> QED
  BY <1>1, BuiltSame

-----------------------------------------------------------------------------
\* What a good asset is made from is good.
LEMMA GoodDeps ==
    ASSUME source \in [Paths -> Contents \cup {Gone}], NEW p \in Paths, Good(p)
    PROVE  /\ p \notin dirty \cup broken \cup late
           /\ \A x \in Ancestry(source, p) : x \in Paths /\ Good(x)
           /\ \A q \in Deps(p) : q \in Paths /\ q # p /\ Good(q) /\ q \in Ancestry(source, p)
                                 /\ Ancestry(source, q) \subseteq Ancestry(source, p)
<1>1. /\ p \in Ancestry(source, p) /\ Ancestry(source, p) \in SUBSET Paths
      /\ \A q \in Ancestry(source, p) : Ancestry(source, q) \subseteq Ancestry(source, p)
      /\ \A q \in Deps(p) : q \in Paths /\ q # p /\ q \in Ancestry(source, p)
  BY AncestryIs DEF Deps
<1>2. \A x \in Ancestry(source, p) : x \in Paths /\ Good(x)
  BY <1>1 DEF Good
<1> QED
  BY <1>1, <1>2 DEF Good

\* An asset that is good after a step that edits nothing was good before.
LEMMA GoodStays ==
    ASSUME source' = source, dirty \subseteq dirty', broken \subseteq broken',
           late \subseteq late'
    PROVE  /\ \A p : Good(p)' => Good(p)
           /\ \A p : Ancestry(source, p)' = Ancestry(source, p) /\ Deps(p)' = Deps(p)
           /\ \A p : Makeable(p)' = Makeable(p)
           /\ Built(source)' = Built(source)
<1>1. \A p : Ancestry(source, p)' = Ancestry(source, p) /\ Deps(p)' = Deps(p)
  BY DEF Ancestry, Closed, Deps
<1>2. \A p : Good(p)' => Good(p)
  BY <1>1 DEF Good
<1>3. Built(source)' = Built(source)
  BY DEF Built, MadeFrom
<1>4. \A p : Makeable(p)' = Makeable(p)
  BY DEF Makeable
<1> QED
  BY <1>1, <1>2, <1>3, <1>4

\* A step that only reads lets nobody past a gate that is not open.
LEMMA ReadsInLine ==
    ASSUME IInv, LInv,
           UNCHANGED <<source, bytes, meta, phase, known, rec, status, dependents, queue, task,
                       dirty, broken, late, lost>>,
           \A g \in Agents, p \in Paths : Past(g, p)' => Past(g, p) \/ status[p] = "processed"
    PROVE  LInv'
<1>1. /\ \A p : Good(p)' = Good(p) /\ Deps(p)' = Deps(p) /\ Busy(p)' = Busy(p)
      /\ \A p : Ancestry(source, p)' = Ancestry(source, p) /\ Makeable(p)' = Makeable(p)
      /\ \A s : DoneWell(s)' = DoneWell(s) /\ Making(s)' = Making(s)
      /\ Up' = Up /\ Built(source)' = Built(source)
  BY GoodStays DEF Good, Busy, DoneWell, Making, Up
<1>2. RecordsOk' /\ EdgesOk' /\ TurnsOk'
  <2>1. RecordsOk'
    BY <1>1 DEF LInv, RecordsOk, PathFits, TaskFits, Usable
  <2>2. EdgesOk' /\ TurnsOk'
    BY DEF LInv, EdgesOk, TurnsOk
  <2> QED
    BY <2>1, <2>2
<1>3. FirstOk'
  BY <1>1 DEF LInv, FirstOk
<1>4. TellsOk'
  <2>1. \A p \in Paths : StatusTells(p) => StatusTells(p)'
    BY <1>1 DEF StatusTells
  <2>2. \A s : TaskTells(s) => TaskTells(s)'
    BY <1>1 DEF TaskTells
  <2> QED
    BY <2>1, <2>2 DEF LInv, TellsOk
<1>5. FollowsOk'
  <2>1. \A p, q : (Settling(q)' <=> Settling(q)) /\ (InHand(p, q)' <=> InHand(p, q))
    BY <1>1 DEF Settling, InHand, ToRead, HasRead, Current, Astray
  <2> QED
    BY <1>1, <2>1 DEF LInv, FollowsOk
<1>6. RightOk'
  <2>1. \A p, q : (ReadRight(p, q)' <=> ReadRight(p, q)) /\ (Right(q)' <=> Right(q))
    BY <1>1 DEF ReadRight, Right
  <2> QED
    BY <1>1, <2>1 DEF LInv, RightOk
<1> QED
  BY <1>2, <1>3, <1>4, <1>5, <1>6 DEF LInv

\* One reader moves on.
LEMMA OneReader ==
    ASSUME DOMAIN rd = Agents, NEW g \in Agents, NEW r, rd' = [rd EXCEPT ![g] = r],
           r.at \in {"lock1", "gate2", "lock2", "lock3", "held"} \/ r.heard = "processed" =>
               r.q = rd[g].q /\ (Past(g, r.q) \/ status[r.q] = "processed")
    PROVE  \A a \in Agents, p \in Paths : Past(a, p)' => Past(a, p) \/ status[p] = "processed"
<1>1. rd'[g] = r /\ \A a \in Agents \ {g} : rd'[a] = rd[a]
  OBVIOUS
<1> QED
  BY <1>1 DEF Past

\* Reading in line: Reading, Load, WithoutMeta, Loaded, Ask.
LEMMA ReadersInLine ==
    ASSUME IInv, LInv,
           \/ \E g \in Agents : Reading(g)
           \/ \E r \in Readers : WithoutMeta(r) \/ Loaded(r)
           \/ \E r \in Readers, p \in Paths : Load(r, p)
           \/ \E s \in Slots, q \in Paths : Ask(s, q)
    PROVE  LInv'
<1>1. UNCHANGED <<source, bytes, meta, phase, known, rec, status, dependents, queue, task,
                  dirty, broken, late, lost>>
  BY DEF Reading, WithoutMeta, Loaded, Load, Ask, disk, run, index, history
<1>2. /\ DOMAIN rd = Agents /\ Readers \subseteq Agents /\ Slots \subseteq Agents
      /\ \A g \in Agents : DOMAIN rd[g] = {"q", "at", "waiting", "heard"}
  BY Parts, Actors DEF Shapes, IsRead
<1> DEFINE NobodyNew ==
      \A a \in Agents, p \in Paths : Past(a, p)' => Past(a, p) \/ status[p] = "processed"
<1>3. ASSUME NEW g \in Agents, Reading(g) PROVE NobodyNew
  <2>1. CASE Gate(g)
    <3> DEFINE r == [rd[g] EXCEPT !.waiting = TRUE]
    <3>1. rd' = [rd EXCEPT ![g] = r] /\ r.at = rd[g].at /\ r.q = rd[g].q /\ r.heard = rd[g].heard
      BY <1>2, <2>1 DEF Gate
    <3> HIDE DEF r
    <3> QED
      BY <1>2, <3>1, OneReader DEF Past
  <2>2. CASE PassGate(g)
    <3>1. rd[g].heard = "processed" \/ status[rd[g].q] = "processed"
      BY <2>2 DEF PassGate, Answer
    <3> DEFINE r == [rd[g] EXCEPT !.at = LockOf(rd[g].at), !.waiting = FALSE, !.heard = None]
    <3>2. rd' = [rd EXCEPT ![g] = r] /\ r.q = rd[g].q
      BY <1>2, <2>2 DEF PassGate
    <3> HIDE DEF r
    <3> QED
      BY <1>2, <3>1, <3>2, OneReader DEF Past
  <2>3. CASE ReadLock(g)
    <3> DEFINE r == [rd[g] EXCEPT !.at = AfterLock(rd[g].at)]
    <3>1. /\ rd' = [rd EXCEPT ![g] = r] /\ rd[g].at \in {"lock1", "lock2", "lock3"}
          /\ r.q = rd[g].q
      BY <1>2, <2>3 DEF ReadLock, AtLock
    <3> HIDE DEF r
    <3> QED
      BY <1>2, <3>1, OneReader DEF Past
  <2> QED
    BY <1>3, <2>1, <2>2, <2>3 DEF Reading
<1>4. ASSUME NEW r \in Readers, Loaded(r) PROVE NobodyNew
  BY <1>2, <1>4, OneReader, Nothing, Actors DEF Loaded
<1>5. ASSUME NEW g \in Agents, NEW p \in Paths, rd' = BeginRead(g, p) PROVE NobodyNew
  <2> DEFINE r == [NoRead EXCEPT !.q = p, !.at = "gate1"]
  <2>1. rd' = [rd EXCEPT ![g] = r] /\ r.at = "gate1" /\ r.heard = None
    BY <1>5 DEF BeginRead, NoRead
  <2> HIDE DEF r
  <2> QED
    BY <1>2, <2>1, OneReader, Actors
<1>6. ASSUME NEW g \in Readers, WithoutMeta(g) PROVE NobodyNew
  <2> DEFINE r == [NoRead EXCEPT !.q = rd[g].q, !.at = "gate3"]
  <2>1. rd' = [rd EXCEPT ![g] = r] /\ r.at = "gate3" /\ r.heard = None /\ g \in Agents
    BY <1>2, <1>6 DEF WithoutMeta, NoRead
  <2> HIDE DEF r
  <2> QED
    BY <1>2, <2>1, OneReader, Actors
<1>7. NobodyNew
  BY <1>2, <1>3, <1>4, <1>5, <1>6 DEF Load, Ask
<1> QED
  BY <1>1, <1>7, ReadsInLine

-----------------------------------------------------------------------------
\* What does not change if the tasks and files of an asset do not.
LEMMA SettlingSame ==
    ASSUME NEW q, \A z \in Slots : z[1] = q => task'[z] = task[z],
           rec'[q] = rec[q], meta'[q] = meta[q]
    PROVE  Settling(q) => Settling(q)'
  BY DEF Settling, DoneWell

LEMMA InHandSame ==
    ASSUME NEW p, NEW q, \A z \in Slots : z[1] = p => task'[z] = task[z],
           queue[p] > 0 => queue'[p] > 0,
           rec'[p] = rec[p], meta'[p] = meta[p], meta'[q] = meta[q]
    PROVE  InHand(p, q) => InHand(p, q)'
<1>1. ToRead(p, q) => ToRead(p, q)'
  BY DEF ToRead
<1>2. HasRead(p, q) => HasRead(p, q)'
  BY DEF HasRead
<1>3. Current(p, q) => Current(p, q)'
  BY DEF Current, Busy
<1>4. Astray(p) => Astray(p)'
  BY DEF Astray, Making, DoneWell
<1> QED
  BY <1>1, <1>2, <1>3, <1>4 DEF InHand

LEMMA RightSame ==
    ASSUME NEW x, \A z \in Slots : z[1] = x => task'[z] = task[z],
           source' = source, rec'[x] = rec[x], meta'[x] = meta[x], status'[x] = status[x]
    PROVE  Right(x) => Right(x)'
<1>1. Built(source)' = Built(source) /\ Makeable(x)' = Makeable(x) /\ Deps(x)' = Deps(x)
  BY DEF Built, MadeFrom, Makeable, Deps
<1>2. /\ Busy(x)' <=> Busy(x)
      /\ (\E z \in Slots : z[1] = x /\ task[z].pc = "done" /\ task[z].res \in {"processed", "skipped"})'
            <=> \E z \in Slots : z[1] = x /\ task[z].pc = "done" /\ task[z].res \in {"processed", "skipped"}
  BY DEF Busy
<1> QED
  BY <1>1, <1>2 DEF Right

LEMMA ReadRightSame ==
    ASSUME NEW p, NEW q, \A z \in Slots : z[1] = p => task'[z] = task[z],
           source' = source, meta'[p] = meta[p],
           status[q] = "processed" => status'[q] = "processed"
    PROVE  ReadRight(p, q) => ReadRight(p, q)'
<1>1. Built(source)' = Built(source)
  BY DEF Built, MadeFrom
<1>2. /\ Busy(p)' <=> Busy(p)
      /\ (\E z \in Slots : z[1] = p /\ DoneWell(z))' <=> \E z \in Slots : z[1] = p /\ DoneWell(z)
  BY DEF Busy, DoneWell
<1> QED
  BY <1>1, <1>2 DEF ReadRight

\* What every step of a task s has in common; t is what becomes of it.
TaskMoves(s, t) ==
    /\ task' = [task EXCEPT ![s] = t]
    /\ t.pc # "free" /\ (task[s].pc # "free" \/ phase = "pass")
    /\ UNCHANGED <<source, phase, known, rec, status, dependents, lost>>
    /\ \A p \in Paths \ {s[1]} : meta'[p] = meta[p] /\ queue'[p] = queue[p]
    /\ broken \subseteq broken' /\ broken' \subseteq broken \cup {s[1]}
    /\ dirty \subseteq dirty' /\ dirty' \subseteq dirty \cup {s[1]} /\ late \subseteq late'
    /\ rd' = rd \/ rd' = [rd EXCEPT ![s] = NoRead]

LEMMA TaskFrame ==
    ASSUME IInv, NEW s \in Slots, NEW t, TaskMoves(s, t)
    PROVE  /\ s[1] \in Paths /\ task'[s] = t /\ \A z \in Slots \ {s} : task'[z] = task[z]
           /\ source \in [Paths -> Contents \cup {Gone}]
           /\ \A z \in Slots \ {s} : DoneWell(z)' = DoneWell(z) /\ Making(z)' = Making(z)
           /\ \A p \in Paths \ {s[1]} : Busy(p)' = Busy(p)
           /\ \A a \in Agents, p \in Paths : Past(a, p)' => Past(a, p)
           /\ \A p : Good(p)' => Good(p)
           /\ \A p : /\ Ancestry(source, p)' = Ancestry(source, p) /\ Deps(p)' = Deps(p)
                     /\ Makeable(p)' = Makeable(p)
           /\ phase \in {"pass", "over"} /\ Up' = Up /\ phase' = phase
<1>1. /\ DOMAIN task = Slots /\ DOMAIN rd = Agents /\ s[1] \in Paths
      /\ source \in [Paths -> Contents \cup {Gone}]
  BY Parts DEF Shapes, TypeOK
<1>2. task'[s] = t /\ \A z \in Slots \ {s} : task'[z] = task[z]
  BY <1>1 DEF TaskMoves
<1>3. \A z \in Slots \ {s} : DoneWell(z)' = DoneWell(z) /\ Making(z)' = Making(z)
  BY <1>2 DEF DoneWell, Making
<1>4. \A p \in Paths \ {s[1]} : Busy(p)' = Busy(p)
  BY <1>2 DEF Busy
<1>5. \A a \in Agents, p \in Paths : Past(a, p)' => Past(a, p)
  BY <1>1, Nothing, Actors DEF TaskMoves, Past
<1>6. phase \in {"pass", "over"}
  BY AtWork, Nothing DEF TaskMoves, Quiet
<1>7. /\ \A p : Good(p)' => Good(p)
      /\ \A p : /\ Ancestry(source, p)' = Ancestry(source, p) /\ Deps(p)' = Deps(p)
                /\ Makeable(p)' = Makeable(p)
  BY GoodStays DEF TaskMoves
<1>8. Up' = Up /\ phase' = phase
  BY DEF Up, TaskMoves
<1> QED
  BY <1>1, <1>2, <1>3, <1>4, <1>5, <1>6, <1>7, <1>8

\* A step of a task, given what it does to its own asset.
LEMMA TaskFollows ==
    ASSUME IInv, LInv, NEW s \in Slots, NEW t, TaskMoves(s, t),
           \/ s[1] \in broken' \/ t.pc \in Writes \/ DoneWell(s)'
           \/ meta'[s[1]] = meta[s[1]] /\ task[s].pc \notin Writes /\ ~DoneWell(s),
           Good(s[1])' =>
               \A q \in Deps(s[1]) : InHand(s[1], q) => Settling(q) \/ InHand(s[1], q)'
    PROVE  FollowsOk'
<1> DEFINE e == s[1]
<1>1. /\ e \in Paths /\ task'[s] = t /\ \A z \in Slots \ {s} : task'[z] = task[z]
      /\ source \in [Paths -> Contents \cup {Gone}]
      /\ \A z \in Slots \ {s} : DoneWell(z)' = DoneWell(z)
      /\ \A p : Good(p)' => Good(p)
      /\ \A p : Deps(p)' = Deps(p) /\ Ancestry(source, p)' = Ancestry(source, p)
      /\ Up' = Up
  BY TaskFrame
<1>2. /\ \A p \in Paths \ {e} : meta'[p] = meta[p] /\ queue'[p] = queue[p]
      /\ rec' = rec /\ dependents' = dependents
  BY DEF TaskMoves
<1>3. \A q \in Paths \ {e} : Settling(q) => Settling(q)'
  BY <1>1, <1>2, SettlingSame
<1>4. \A p \in Paths \ {e} : \A q \in Paths \ {e} : InHand(p, q) => InHand(p, q)'
  <2> SUFFICES ASSUME NEW p \in Paths \ {e}, NEW q \in Paths \ {e} PROVE InHand(p, q) => InHand(p, q)'
    OBVIOUS
  <2>1. /\ \A z \in Slots : z[1] = p => task'[z] = task[z]
        /\ queue'[p] = queue[p] /\ rec'[p] = rec[p] /\ meta'[p] = meta[p] /\ meta'[q] = meta[q]
    BY <1>1, <1>2
  <2> QED
    BY <2>1, InHandSame
<1>5. ASSUME NEW p \in Paths \ {e}, Good(p)', e \in Deps(p), Settling(e) \/ InHand(p, e)
      PROVE  Settling(e)' \/ InHand(p, e)'
  <2>1. e \notin broken'
    <3>1. e \in Ancestry(source, p)
      BY <1>1, <1>5, GoodDeps
    <3> QED
      BY <1>1, <1>5, <3>1 DEF Good
  <2>2. CASE t.pc \in Writes \/ DoneWell(s)'
    BY <1>1, <2>2 DEF Settling
  <2>3. CASE meta'[e] = meta[e] /\ task[s].pc \notin Writes /\ ~DoneWell(s)
    <3>1. Settling(e) => Settling(e)'
      BY <1>1, <1>2, <2>3 DEF Settling
    <3>2. InHand(p, e) => InHand(p, e)'
      <4>1. /\ \A z \in Slots : z[1] = p => task'[z] = task[z]
            /\ queue'[p] = queue[p] /\ rec'[p] = rec[p] /\ meta'[p] = meta[p]
        BY <1>1, <1>2
      <4> QED
        BY <2>3, <4>1, InHandSame
    <3> QED
      BY <1>5, <3>1, <3>2
  <2> QED
    BY <2>1, <2>2, <2>3
<1> SUFFICES ASSUME Up', NEW p \in Paths, Good(p)', NEW q \in Deps(p)', p \in dependents'[q]
             PROVE  Settling(q)' \/ InHand(p, q)'
  BY DEF FollowsOk
<1>6. q \in Deps(p) /\ q \in Paths /\ q # p /\ (Settling(q) \/ InHand(p, q))
  BY <1>1, <1>2, GoodDeps DEF LInv, FollowsOk
<1>7. CASE p = e
  BY <1>3, <1>6, <1>7
<1>8. CASE p # e /\ q = e
  BY <1>5, <1>6, <1>8
<1>9. CASE p # e /\ q # e
  BY <1>3, <1>4, <1>6, <1>9
<1> QED
  BY <1>7, <1>8, <1>9

LEMMA TaskRight ==
    ASSUME IInv, LInv, NEW s \in Slots, NEW t, TaskMoves(s, t),
           Up /\ Good(s[1])' /\ Right(s[1]) /\ (\A q \in Deps(s[1]) : Right(q)) => Right(s[1])',
           Up /\ Good(s[1])' =>
               \A q \in Deps(s[1]) : ReadRight(s[1], q) /\ Right(q) => ReadRight(s[1], q)'
    PROVE  RightOk'
<1> DEFINE e == s[1]
<1>1. /\ e \in Paths /\ task'[s] = t /\ \A z \in Slots \ {s} : task'[z] = task[z]
      /\ source \in [Paths -> Contents \cup {Gone}]
      /\ \A p : Good(p)' => Good(p)
      /\ \A p : Deps(p)' = Deps(p) /\ Ancestry(source, p)' = Ancestry(source, p)
      /\ Up' = Up
  BY TaskFrame
<1>2. /\ \A p \in Paths \ {e} : meta'[p] = meta[p]
      /\ rec' = rec /\ dependents' = dependents /\ status' = status /\ source' = source
  BY DEF TaskMoves
<1>3. \A x \in Paths \ {e} : Right(x) => Right(x)'
  <2> SUFFICES ASSUME NEW x \in Paths \ {e} PROVE Right(x) => Right(x)'
    OBVIOUS
  <2>1. \A z \in Slots : z[1] = x => task'[z] = task[z]
    BY <1>1
  <2> QED
    BY <1>2, <2>1, RightSame
<1>4. \A p \in Paths \ {e}, q \in Paths : ReadRight(p, q) => ReadRight(p, q)'
  <2> SUFFICES ASSUME NEW p \in Paths \ {e}, NEW q \in Paths PROVE ReadRight(p, q) => ReadRight(p, q)'
    OBVIOUS
  <2>1. \A z \in Slots : z[1] = p => task'[z] = task[z]
    BY <1>1
  <2> QED
    BY <1>2, <2>1, ReadRightSame
<1> SUFFICES ASSUME Up', NEW p \in Paths, Good(p)', NEW q \in Deps(p)', p \notin dependents'[q]
             PROVE  ReadRight(p, q)' /\ \A x \in Ancestry(source, q)' : Right(x)'
  BY DEF RightOk
<1>5. /\ q \in Deps(p) /\ q \in Paths /\ q # p /\ ReadRight(p, q) /\ q \in Ancestry(source, q)
      /\ \A x \in Ancestry(source, q) : Right(x)
  <2>1. q \in Deps(p) /\ q \in Paths /\ q # p
    BY <1>1, GoodDeps
  <2> QED
    BY <1>1, <1>2, <2>1, AncestryIs DEF LInv, RightOk
<1>6. ASSUME NEW x \in Ancestry(source, q) PROVE Right(x)'
  <2>1. x \in Paths /\ x \in Ancestry(source, p)
    BY <1>1, <1>5, GoodDeps
  <2>2. CASE x # e
    BY <1>3, <1>5, <2>1, <2>2
  <2>3. CASE x = e
    <3>1. Good(e)'
      BY <1>1, <2>1, <2>3, AncestryIs DEF Good
    <3>2. \A y \in Deps(e) : Right(y)
      BY <1>1, <1>5, <2>3, AncestryIs DEF Closed, Deps
    <3> QED
      BY <1>1, <1>5, <2>3, <3>1, <3>2
  <2> QED
    BY <2>2, <2>3
<1>7. ReadRight(p, q)'
  <2>1. Right(q)
    BY <1>5
  <2>2. CASE p # e
    BY <1>4, <1>5, <2>2
  <2>3. CASE p = e
    BY <1>1, <1>5, <2>1, <2>3
  <2> QED
    BY <2>2, <2>3
<1> QED
  BY <1>1, <1>6, <1>7

LEMMA TaskInLine ==
    ASSUME IInv, LInv, NEW s \in Slots, NEW t, TaskMoves(s, t),
           PathFits(s[1])', TaskFits(s)',
           s[1] \in dirty' \/ (s[1] \notin dirty \cup broken' => TaskTells(s)'),
           s[1] \in broken' \/ Making(s)' \/ (meta'[s[1]] = meta[s[1]] /\ ~Making(s)),
           FollowsOk', RightOk'
    PROVE  LInv'
<1> DEFINE e == s[1]
<1>1. /\ e \in Paths /\ task'[s] = t /\ \A z \in Slots \ {s} : task'[z] = task[z]
      /\ \A z \in Slots \ {s} : DoneWell(z)' = DoneWell(z) /\ Making(z)' = Making(z)
      /\ \A a \in Agents, p \in Paths : Past(a, p)' => Past(a, p)
      /\ \A p : Makeable(p)' = Makeable(p)
      /\ phase \in {"pass", "over"}
  BY TaskFrame
<1>2. /\ \A p \in Paths \ {e} : meta'[p] = meta[p] /\ queue'[p] = queue[p]
      /\ rec' = rec /\ dependents' = dependents /\ status' = status /\ source' = source
      /\ known' = known /\ phase' = phase /\ dirty \subseteq dirty' /\ broken \subseteq broken'
      /\ t.pc # "free" /\ (task[s].pc # "free" \/ phase = "pass")
  BY DEF TaskMoves
<1>3. RecordsOk'
  <2>1. ASSUME NEW p \in Paths \ {e} PROVE PathFits(p)'
    <3>1. PathFits(p)
      BY DEF LInv, RecordsOk
    <3> QED
      BY <1>2, <3>1 DEF PathFits, Usable
  <2>2. ASSUME NEW z \in Slots \ {s} PROVE TaskFits(z)'
    <3>1. TaskFits(z) /\ task'[z] = task[z] /\ (DoneWell(z)' <=> DoneWell(z))
      BY <1>1 DEF LInv, RecordsOk
    <3> QED
      BY <3>1 DEF TaskFits
  <2> QED
    BY <2>1, <2>2 DEF RecordsOk
<1>4. EdgesOk'
  BY <1>2 DEF LInv, EdgesOk
<1>5. TurnsOk'
  <2>1. phase # "over"
    BY <1>2 DEF LInv, TurnsOk
  <2>2. ASSUME NEW p \in Paths, p \in known
        PROVE  queue'[p] > 0 \/ status[p] # None \/ \E z \in Slots : z[1] = p /\ task'[z].pc # "free"
    <3>1. CASE p = e
      BY <1>1, <1>2, <3>1
    <3>2. CASE p # e
      BY <1>1, <1>2, <2>2, <3>2 DEF LInv, TurnsOk
    <3> QED
      BY <3>1, <3>2
  <2>3. \A p \in Paths : source[p] # Gone /\ p \notin dirty => p \in known
    BY <1>1 DEF LInv, TurnsOk
  <2> QED
    BY <1>2, <2>1, <2>2, <2>3 DEF TurnsOk
<1>6. FirstOk'
  <2> SUFFICES ASSUME NEW p \in Paths \ broken', status[p] = None,
                      \A z \in Slots : z[1] = p => ~Making(z)'
               PROVE  rec[p] = NoFile \/ rec[p] = meta'[p]
    BY <1>2 DEF FirstOk
  <2>1. meta'[p] = meta[p] /\ \A z \in Slots : z[1] = p => ~Making(z)
    BY <1>1, <1>2
  <2> QED
    BY <1>2, <2>1 DEF LInv, FirstOk
<1>7. TellsOk'
  <2>1. ASSUME NEW p \in Paths \ (dirty' \cup broken') PROVE StatusTells(p)'
    <3>1. StatusTells(p)
      BY <1>2 DEF LInv, TellsOk
    <3> QED
      BY <1>1, <1>2, <3>1 DEF StatusTells
  <2>2. ASSUME NEW z \in Slots \ {s}, z[1] \notin dirty' \cup broken' PROVE TaskTells(z)'
    <3>1. TaskTells(z) /\ (Making(z)' <=> Making(z)) /\ task'[z] = task[z]
      BY <1>1, <1>2, <2>2 DEF LInv, TellsOk
    <3> QED
      BY <1>1, <1>2, <3>1 DEF TaskTells
  <2> QED
    BY <1>2, <2>1, <2>2 DEF TellsOk
<1> QED
  BY <1>3, <1>4, <1>5, <1>6, <1>7 DEF LInv

\* Steps that end nothing, and write only under the lock, leave what is right.
LEMMA TaskStaysRight ==
    ASSUME IInv, LInv, NEW s \in Slots, NEW t, TaskMoves(s, t), t.full = task[s].full,
           t.pc \in Writes \/ (meta' = meta /\ t.pc # "done" /\ task[s].pc \notin Writes)
    PROVE  RightOk'
<1> DEFINE e == s[1]
<1>1. /\ e \in Paths /\ task'[s] = t /\ \A z \in Slots \ {s} : task'[z] = task[z]
      /\ \A z \in Slots \ {s} : DoneWell(z)' = DoneWell(z)
      /\ \A p : Makeable(p)' = Makeable(p) /\ Deps(p)' = Deps(p)
  BY TaskFrame
<1>2. /\ rec' = rec /\ status' = status /\ source' = source
      /\ Built(source)' = Built(source)
  BY DEF TaskMoves, Built, MadeFrom
<1>3. \A z \in Slots : task'[z].full = task[z].full
  BY <1>1
<1>4. CASE t.pc \in Writes
  <2>1. Busy(e)'
    BY <1>1, <1>4 DEF Busy
  <2>2. Right(e) => Right(e)'
    BY <1>1, <1>2, <1>3, <2>1 DEF Right
  <2>3. \A q : ReadRight(e, q) => ReadRight(e, q)'
    BY <1>1, <1>2, <1>3, <2>1 DEF ReadRight
  <2> QED
    BY <2>2, <2>3, TaskRight
<1>5. CASE meta' = meta /\ t.pc # "done" /\ task[s].pc \notin Writes
  <2>1. Busy(e) => Busy(e)'
    BY <1>1, <1>5 DEF Busy
  <2>2. \A z \in Slots : task'[z].pc = "done" => task'[z] = task[z]
    BY <1>1, <1>5
  <2>3. \A z \in Slots : DoneWell(z)' => DoneWell(z)
    BY <1>1, <1>5 DEF DoneWell
  <2>4. Right(e) => Right(e)'
    BY <1>1, <1>2, <1>3, <1>5, <2>1, <2>2 DEF Right
  <2>5. \A q : ReadRight(e, q) => ReadRight(e, q)'
    BY <1>1, <1>2, <1>3, <1>5, <2>1, <2>3 DEF ReadRight
  <2> QED
    BY <2>4, <2>5, TaskRight
<1> QED
  BY <1>4, <1>5

\* A task that has read what it needs has still read it while it writes.
LEMMA WritingInHand ==
    ASSUME IInv, LInv, NEW s \in Slots, NEW t, TaskMoves(s, t), t.full = task[s].full,
           queue' = queue, task[s].pc \in Writes \ {"open"}, task[s].todo = {}, t.pc \in Writes,
           NEW q \in Paths, q # s[1], InHand(s[1], q)
    PROVE  InHand(s[1], q)'
<1> DEFINE e == s[1]
<1>1. /\ e \in Paths /\ task'[s] = t /\ \A z \in Slots \ {s} : task'[z] = task[z]
  BY TaskFrame
<1>2. meta'[q] = meta[q] /\ Busy(e) /\ Making(s)
  BY DEF TaskMoves, Busy, Making
<1>3. CASE queue[e] > 0
  BY <1>3 DEF InHand
<1>4. CASE ToRead(e, q)
  BY <1>1, <1>4 DEF ToRead, InHand, Writes
<1>5. CASE HasRead(e, q)
  BY <1>1, <1>2, <1>5 DEF HasRead, InHand
<1> QED
  BY <1>2, <1>3, <1>4, <1>5 DEF InHand, Current, Astray

\* Up to the open output a task has everything still to read.
LEMMA SetBitInLine ==
    ASSUME IInv, LInv, NEW s \in Slots, SetBit(s)
    PROVE  LInv'
<1> DEFINE t == [task[s] EXCEPT !.pc = "drain"]
<1>1. /\ s[1] \in Paths /\ IsTask(task[s]) /\ task[s].pc = "lock" /\ DOMAIN task = Slots
  BY Parts DEF SetBit, Shapes
<1>2. /\ t.pc = "drain" /\ t.full = task[s].full /\ t.hash = task[s].hash /\ t.todo = task[s].todo
      /\ TaskMoves(s, t)
  BY <1>1 DEF SetBit, Go, IsTask, TaskMoves, disk, run, index, history
<1> HIDE DEF t
<1>3. task'[s] = t /\ \A p : Makeable(p)' = Makeable(p)
  BY <1>2, TaskFrame
<1>4. meta' = meta /\ rec' = rec /\ source' = source /\ broken' = broken
  BY DEF SetBit, disk, index, history
<1>5. PathFits(s[1])' /\ TaskFits(s)'
  BY <1>1, <1>2, <1>3, <1>4 DEF LInv, RecordsOk, PathFits, TaskFits, Usable, DoneWell, Writes
<1>6. s[1] \notin dirty \cup broken' => TaskTells(s)'
  BY <1>1, <1>2, <1>3, <1>4 DEF LInv, TellsOk, TaskTells, Making, DoneWell
<1>7. FollowsOk'
  <2>1. \A q : InHand(s[1], q)'
    BY <1>2, <1>3 DEF InHand, ToRead
  <2> QED
    BY <1>1, <1>2, <1>4, <2>1, TaskFollows DEF DoneWell, Writes
<1>8. RightOk'
  BY <1>1, <1>2, <1>4, TaskStaysRight DEF Writes
<1> QED
  BY <1>2, <1>3, <1>5, <1>6, <1>7, <1>8, TaskInLine DEF Making

LEMMA StartInLine ==
    ASSUME IInv, LInv, NEW s \in Slots, Start(s)
    PROVE  LInv'
<1> DEFINE t == [task[s] EXCEPT !.pc = "open"]
<1>1. /\ s[1] \in Paths /\ IsTask(task[s]) /\ task[s].pc = "drain" /\ DOMAIN task = Slots
  BY Parts DEF Start, Shapes
<1>2. /\ t.pc = "open" /\ t.full = task[s].full /\ t.hash = task[s].hash
      /\ TaskMoves(s, t)
  BY <1>1 DEF Start, Go, IsTask, TaskMoves, run, index, history
<1> HIDE DEF t
<1>3. task'[s] = t /\ \A p : Makeable(p)' = Makeable(p)
  BY <1>2, TaskFrame
<1>4. meta' = meta /\ rec' = rec /\ source' = source /\ broken' = broken
  BY DEF Start, index, history
<1>5. PathFits(s[1])' /\ TaskFits(s)'
  BY <1>1, <1>2, <1>3, <1>4 DEF LInv, RecordsOk, PathFits, TaskFits, Usable, DoneWell, Writes
<1>6. s[1] \notin dirty \cup broken' => TaskTells(s)'
  BY <1>1, <1>2, <1>3, <1>4 DEF LInv, TellsOk, TaskTells, Making, DoneWell
<1>7. FollowsOk'
  <2>1. \A q : InHand(s[1], q)'
    BY <1>2, <1>3 DEF InHand, ToRead
  <2> QED
    BY <1>2, <2>1, TaskFollows DEF Writes
<1>8. RightOk'
  BY <1>1, <1>2, <1>4, TaskStaysRight DEF Writes
<1> QED
  BY <1>2, <1>3, <1>5, <1>6, <1>7, <1>8, TaskInLine DEF Making, Writes

LEMMA OpenInLine ==
    ASSUME IInv, LInv, NEW s \in Slots, Open(s)
    PROVE  LInv'
<1> DEFINE p == s[1]
           c == source[p]
           t == [task[s] EXCEPT !.pc = "work", !.c = c, !.todo = DepsOf(p, c),
                                !.hash = IF Kind[p] = "copy" THEN @ ELSE c]
<1>1. /\ p \in Paths /\ IsTask(task[s]) /\ task[s].pc = "open" /\ DOMAIN task = Slots
      /\ c \in Contents
  BY Parts DEF Open, Shapes, TypeOK
<1>2. /\ t.pc = "work" /\ t.full = task[s].full /\ t.todo = Deps(p)
      /\ t.hash = IF Kind[p] = "copy" THEN task[s].hash ELSE c
      /\ TaskMoves(s, t)
  BY <1>1 DEF Open, IsTask, TaskMoves, run, index, history, Deps
<1> HIDE DEF t
<1>3. task'[s] = t /\ \A x : Makeable(x)' = Makeable(x)
  BY <1>2, TaskFrame
<1>4. meta' = meta /\ rec' = rec /\ source' = source /\ broken' = broken
  BY DEF Open, index, history
<1>5. t.hash \in Contents /\ DepsOf(p, t.hash) = Deps(p)
  BY <1>1, <1>2 DEF LInv, RecordsOk, TaskFits, DepsOf, Deps, Writes
<1>6. PathFits(p)' /\ TaskFits(s)'
  BY <1>1, <1>2, <1>3, <1>4, <1>5 DEF LInv, RecordsOk, PathFits, TaskFits, Usable, DoneWell, Writes
<1>7. p \notin dirty \cup broken' => TaskTells(s)'
  BY <1>1, <1>2, <1>3, <1>4 DEF LInv, TellsOk, TaskTells, Making, DoneWell, Writes
<1>8. FollowsOk'
  <2>1. \A q \in Deps(p) : InHand(p, q)'
    BY <1>2, <1>3 DEF InHand, ToRead
  <2> QED
    BY <1>2, <2>1, TaskFollows DEF Writes
<1>9. RightOk'
  BY <1>1, <1>2, <1>4, TaskStaysRight DEF Writes
<1> QED
  BY <1>2, <1>3, <1>6, <1>7, <1>8, <1>9, TaskInLine DEF Making, Writes

\* Write, OpenMeta and WriteMeta have the lock, and what was read is still in hand.
LEMMA WritersInLine ==
    ASSUME IInv, LInv, NEW s \in Slots, NEW t, TaskMoves(s, t), queue' = queue,
           t.full = task[s].full, t.hash = task[s].hash, t.todo = task[s].todo, task[s].todo = {},
           task[s].pc \in Writes \ {"open"}, t.pc \in Writes \ {"open"},
           \/ meta'[s[1]] \in {meta[s[1]], Torn} \/ meta'[s[1]] = Rev(t.hash, t.full)
    PROVE  LInv'
<1> DEFINE p == s[1]
<1>1. /\ p \in Paths /\ task'[s] = t /\ source \in [Paths -> Contents \cup {Gone}]
      /\ \A x : Makeable(x)' = Makeable(x) /\ Deps(x)' = Deps(x)
      /\ \A x : Good(x)' => Good(x)
  BY TaskFrame
<1>2. /\ PathFits(p) /\ TaskFits(s)
      /\ rec' = rec /\ source' = source /\ broken \subseteq broken'
  BY <1>1 DEF LInv, RecordsOk, TaskMoves
<1>3. Proper(p, Rev(t.hash, t.full))
  BY <1>2, Revisions DEF TaskFits, Proper
<1>4. PathFits(p)'
  BY <1>2, <1>3 DEF PathFits, Usable
<1>5. TaskFits(s)'
  BY <1>1, <1>2 DEF TaskFits, DoneWell, Writes
<1>6. p \notin dirty \cup broken' => TaskTells(s)'
  BY <1>1, <1>2 DEF LInv, TellsOk, TaskTells, Making, DoneWell, Writes
<1>7. FollowsOk'
  <2>1. \A q \in Deps(p) : q \in Paths /\ q # p
    BY <1>1, DepsAreOthers DEF Deps
  <2>2. \A q \in Deps(p) : InHand(p, q) => InHand(p, q)'
    BY <2>1, WritingInHand
  <2> QED
    BY <2>2, TaskFollows
<1>8. RightOk'
  BY TaskStaysRight
<1>9. Making(s)'
  BY <1>1 DEF Making
<1> QED
  BY <1>4, <1>5, <1>6, <1>7, <1>8, <1>9, TaskInLine

LEMMA WritesInLine ==
    ASSUME IInv, LInv, NEW s \in Slots, Write(s) \/ OpenMeta(s) \/ WriteMeta(s)
    PROVE  LInv'
<1> DEFINE p == s[1]
           t(pc) == [task[s] EXCEPT !.pc = pc]
<1>1. /\ p \in Paths /\ IsTask(task[s]) /\ DOMAIN task = Slots /\ DOMAIN meta = Paths
      /\ task[s].pc \in {"written", "meta", "finish"} => task[s].todo = {}
  BY Parts DEF Shapes, LInv, RecordsOk, TaskFits
<1>2. \A pc \in Points : /\ t(pc).pc = pc /\ t(pc).full = task[s].full
                         /\ t(pc).hash = task[s].hash /\ t(pc).todo = task[s].todo
  BY <1>1 DEF IsTask
<1>3. CASE Write(s)
  <2>1. TaskMoves(s, t("written")) /\ queue' = queue /\ task[s].pc = "work" /\ task[s].todo = {}
        /\ meta' = meta
    BY <1>1, <1>2, <1>3 DEF Write, Go, TaskMoves, run, index, history, Points
  <2> HIDE DEF t
  <2> QED
    BY <1>2, <2>1, WritersInLine DEF Writes, Points
<1>4. CASE OpenMeta(s)
  <2>1. /\ TaskMoves(s, t("meta")) /\ queue' = queue /\ task[s].pc = "written"
        /\ meta'[p] = Torn
    BY <1>1, <1>2, <1>4 DEF OpenMeta, Go, TaskMoves, run, index, history, Points
  <2> HIDE DEF t
  <2> QED
    BY <1>1, <1>2, <2>1, WritersInLine DEF Writes, Points
<1>5. CASE WriteMeta(s)
  <2>1. /\ TaskMoves(s, t("finish")) /\ queue' = queue /\ task[s].pc = "meta"
        /\ meta'[p] = Rev(task[s].hash, task[s].full)
    BY <1>1, <1>2, <1>5 DEF WriteMeta, Go, TaskMoves, run, index, Points
  <2> HIDE DEF t
  <2> QED
    BY <1>1, <1>2, <2>1, WritersInLine DEF Writes, Points
<1> QED
  BY <1>3, <1>4, <1>5

\* A task that gives up spoils its asset for this run.
LEMMA QuitInLine ==
    ASSUME IInv, LInv, NEW s \in Slots, Vanished(s) \/ Fail(s) \/ FailToLoad(s)
    PROVE  LInv'
<1> DEFINE p == s[1]
<1>1. /\ p \in Paths /\ IsTask(task[s]) /\ DOMAIN task = Slots
      /\ source \in [Paths -> Contents \cup {Gone}]
  BY Parts DEF Shapes, TypeOK
<1>2. PICK res \in {"failed", "unloaded"} : task' = [task EXCEPT ![s].pc = "done", ![s].res = res]
  BY DEF Vanished, Fail, FailToLoad, GiveUp, Done
<1> DEFINE t == [task[s] EXCEPT !.pc = "done", !.res = res]
<1>3. t.pc = "done" /\ t.res = res /\ t.full = task[s].full /\ task' = [task EXCEPT ![s] = t]
  BY <1>1, <1>2 DEF IsTask
<1>4. task[s].pc # "free"
  BY Parts DEF Vanished, Fail, FailToLoad, NotFound, AtGate, LocksOk
<1> HIDE DEF t
<1>5. TaskMoves(s, t) /\ meta' = meta /\ rec' = rec /\ p \in broken'
  BY <1>3, <1>4
     DEF TaskMoves, Vanished, Fail, FailToLoad, GiveUp, disk, run, index, Happens
<1>6. task'[s] = t /\ \A x : Ancestry(source, x)' = Ancestry(source, x)
  BY <1>5, TaskFrame
<1>7. PathFits(p)' /\ TaskFits(s)'
  BY <1>1, <1>3, <1>5, <1>6 DEF LInv, RecordsOk, PathFits, TaskFits, Usable, DoneWell, Writes
<1>8. ~Good(p)'
  BY <1>1, <1>5, <1>6, AncestryIs DEF Good
<1> QED
  BY <1>5, <1>7, <1>8, TaskFollows, TaskRight, TaskInLine

\* Of what could not be read nothing is said.
LEMMA UnreadableInLine ==
    ASSUME IInv, LInv, NEW s \in Slots, Unreadable(s)
    PROVE  LInv'
<1> DEFINE p == s[1]
           t == [task[s] EXCEPT !.pc = "done", !.res = "failed"]
<1>1. /\ p \in Paths /\ IsTask(task[s]) /\ DOMAIN task = Slots /\ task[s].pc = "free"
      /\ source \in [Paths -> Contents \cup {Gone}] /\ queue \in [Paths -> Nat]
  BY Parts DEF Shapes, TypeOK, Unreadable
<1>2. t.pc = "done" /\ t.res = "failed" /\ t.full = task[s].full /\ task' = [task EXCEPT ![s] = t]
  BY <1>1 DEF Unreadable, Done, IsTask
<1> HIDE DEF t
<1>3. TaskMoves(s, t) /\ meta' = meta /\ rec' = rec /\ p \in dirty'
  BY <1>1, <1>2 DEF TaskMoves, Unreadable, disk, run, index
<1>4. task'[s] = t /\ \A x : Ancestry(source, x)' = Ancestry(source, x)
  BY <1>3, TaskFrame
<1>5. PathFits(p)' /\ TaskFits(s)'
  BY <1>1, <1>2, <1>3, <1>4 DEF LInv, RecordsOk, PathFits, TaskFits, Usable, DoneWell, Writes
<1>6. ~Good(p)' /\ ~DoneWell(s) /\ ~Making(s) /\ task[s].pc \notin Writes
  BY <1>1, <1>3, <1>4, AncestryIs DEF Good, DoneWell, Making, Writes
<1>7. FollowsOk' /\ RightOk'
  BY <1>3, <1>6, TaskFollows, TaskRight
<1> QED
  BY <1>3, <1>5, <1>6, <1>7, TaskInLine

-----------------------------------------------------------------------------
\* What is read past the gate of a good asset that is right is what it is built to.
LEMMA ReadIsRight ==
    ASSUME IInv, LInv, Up, NEW g \in Agents, NEW q \in Paths, Good(q), Right(q),
           rd[g].at = "held", rd[g].q = q
    PROVE  status[q] = "processed" /\ meta[q] = Built(source)[q] /\ meta[q] # NoFile
<1>1. q \notin dirty \cup broken
  BY Parts, AncestryIs DEF Good, TypeOK
<1>2. Past(g, q)
  BY DEF Past
<1>3. status[q] = "processed"
  BY <1>1, <1>2 DEF LInv, TellsOk, StatusTells
<1>4. ~Busy(q)
  BY Parts DEF LocksOk, Holds, Busy
<1>5. meta[q] # NoFile
  <2>1. Made(q)
    BY <1>2, Parts DEF GateOk
  <2> QED
    BY <1>1, <1>4, <2>1 DEF Made, Excused, Whole, Sound, Up
<1> QED
  BY <1>3, <1>4, <1>5 DEF Right

LEMMA GotInLine ==
    ASSUME IInv, LInv, NEW s \in Slots, Got(s)
    PROVE  LInv'
<1> DEFINE p == s[1]
           y == rd[s].q
           t == [task[s] EXCEPT !.todo = @ \ {y}, !.out = With(@, y, bytes[y]),
                                !.full = With(@, y, meta[y])]
<1>1. /\ p \in Paths /\ IsTask(task[s]) /\ DOMAIN task = Slots /\ s \in Agents
      /\ source \in [Paths -> Contents \cup {Gone}]
      /\ rd[s].at = "held" /\ task[s].pc = "work" /\ y \in task[s].todo /\ y \in Paths
  BY Parts, Actors DEF Shapes, TypeOK, Got, LocksOk, IsTask
<1>2. /\ t.pc = "work" /\ t.full = With(task[s].full, y, meta[y]) /\ t.todo = task[s].todo \ {y}
      /\ t.hash = task[s].hash /\ TaskMoves(s, t)
  BY <1>1 DEF Got, IsTask, TaskMoves, disk, run, index
<1>3. /\ IsFun(t.full) /\ DOMAIN t.full = DOMAIN task[s].full \cup {y} /\ t.full[y] = meta[y]
      /\ \A x \in DOMAIN task[s].full \ {y} : t.full[x] = task[s].full[x]
  BY <1>2 DEF With, IsFun
<1> HIDE DEF t
<1>4. /\ task'[s] = t /\ \A z \in Slots \ {s} : task'[z] = task[z]
      /\ \A x : Makeable(x)' = Makeable(x) /\ Deps(x)' = Deps(x)
      /\ \A x : Good(x)' => Good(x)
      /\ \A z \in Slots \ {s} : DoneWell(z)' = DoneWell(z)
  BY <1>2, TaskFrame
<1>5. /\ meta' = meta /\ rec' = rec /\ source' = source /\ queue' = queue /\ status' = status
      /\ broken \subseteq broken' /\ Built(source)' = Built(source)
  BY DEF Got, disk, index, Built, MadeFrom
<1>6. TaskFits(s) /\ DOMAIN task[s].full = DepsOf(p, task[s].hash) \ task[s].todo
      /\ task[s].todo \subseteq DepsOf(p, task[s].hash)
  BY <1>1 DEF LInv, RecordsOk, TaskFits, Writes
<1>7. PathFits(p)' /\ TaskFits(s)'
  <2>1. PathFits(p)'
    BY <1>1, <1>5 DEF LInv, RecordsOk, PathFits, Usable
  <2>2. TaskFits(s)'
    BY <1>1, <1>2, <1>3, <1>4, <1>6 DEF TaskFits, DoneWell, Writes
  <2> QED
    BY <2>1, <2>2
<1>8. p \notin dirty \cup broken' => TaskTells(s)'
  BY <1>1, <1>2, <1>4, <1>5 DEF LInv, TellsOk, TaskTells, Making, DoneWell, Writes
<1>9. FollowsOk'
  <2> SUFFICES ASSUME NEW q \in Deps(p), InHand(p, q) PROVE InHand(p, q)'
    BY <1>2, TaskFollows DEF Writes
  <2>1. CASE q = y
    BY <1>2, <1>3, <1>4, <1>5, <2>1 DEF InHand, HasRead, Writes
  <2>2. CASE q # y /\ ToRead(p, q)
    BY <1>1, <1>2, <1>4, <2>2 DEF InHand, ToRead
  <2>3. CASE q # y /\ HasRead(p, q)
    BY <1>2, <1>3, <1>4, <1>5, <2>3 DEF InHand, HasRead, Writes
  <2>4. Busy(p) /\ Making(s)
    BY <1>1 DEF Busy, Making, Writes
  <2> QED
    BY <1>5, <2>1, <2>2, <2>3, <2>4 DEF InHand, Current, Astray
<1>10. RightOk'
  <2>1. Busy(p)'
    BY <1>2, <1>4 DEF Busy, Writes
  <2>2. ASSUME Up, Good(p)', Right(y)
        PROVE  status[y] = "processed" /\ meta[y] = Built(source)[y] /\ meta[y] # NoFile
    <3>1. Good(p) /\ p \notin dirty \cup broken
      BY <1>1, <1>4, <2>2, GoodDeps
    <3>2. task[s].hash = source[p]
      BY <1>1, <3>1 DEF LInv, TellsOk, TaskTells, Making, Writes
    <3>3. Good(y)
      BY <1>1, <1>6, <3>1, <3>2, GoodDeps DEF Deps
    <3> QED
      BY <1>1, <2>2, <3>3, ReadIsRight
  <2>3. ASSUME Up, Good(p)', Right(p), \A q \in Deps(p) : Right(q) PROVE Right(p)'
    <3>1. Right(y)
      <4>1. Good(p) /\ p \notin dirty \cup broken
        BY <1>1, <1>4, <2>3, GoodDeps
      <4>2. task[s].hash = source[p]
        BY <1>1, <4>1 DEF LInv, TellsOk, TaskTells, Making, Writes
      <4> QED
        BY <1>1, <1>6, <2>3, <4>2 DEF Deps
    <3>2. meta[y] = Built(source)[y] /\ meta[y] # NoFile
      BY <2>2, <2>3, <3>1
    <3>3. ASSUME NEW z \in Slots, z[1] = p, NEW x \in Deps(p), x \in DOMAIN task'[z].full
          PROVE  task'[z].full[x] = Built(source)[x] /\ Built(source)[x] # NoFile
      <4>1. CASE z # s
        BY <1>4, <2>3, <3>3, <4>1 DEF Right
      <4>2. CASE z = s /\ x = y
        BY <1>3, <1>4, <3>2, <4>2
      <4>3. CASE z = s /\ x # y
        BY <1>3, <1>4, <2>3, <3>3, <4>3 DEF Right
      <4> QED
        BY <4>1, <4>2, <4>3
    <3> QED
      BY <1>4, <1>5, <2>1, <2>3, <3>3 DEF Right
  <2>4. ASSUME Up, Good(p)', NEW q \in Deps(p), ReadRight(p, q), Right(q) PROVE ReadRight(p, q)'
    <3>1. ASSUME NEW z \in Slots, z[1] = p, q \in DOMAIN task'[z].full
          PROVE  task'[z].full[q] = Built(source)[q] /\ status[q] = "processed"
      <4>1. CASE z # s
        BY <1>4, <2>4, <3>1, <4>1 DEF ReadRight
      <4>2. CASE z = s /\ q = y
        BY <1>3, <1>4, <2>2, <2>4, <4>2
      <4>3. CASE z = s /\ q # y
        BY <1>3, <1>4, <2>4, <3>1, <4>3 DEF ReadRight
      <4> QED
        BY <4>1, <4>2, <4>3
    <3> QED
      BY <1>5, <2>1, <3>1 DEF ReadRight
  <2> QED
    BY <1>2, <2>3, <2>4, TaskRight
<1> QED
  BY <1>2, <1>4, <1>7, <1>8, <1>9, <1>10, TaskInLine DEF Making, Writes

\* An output of what its assets are built to is what it is built to itself.
LEMMA BuiltAs ==
    ASSUME source \in [Paths -> Contents \cup {Gone}], NEW p \in Paths, Makeable(p),
           NEW f, IsFun(f), DOMAIN f = Deps(p),
           \A q \in Deps(p) : f[q] = Built(source)[q] /\ Built(source)[q] # NoFile
    PROVE  Rev(source[p], f) = Built(source)[p]
<1> DEFINE b == Built(source)
           deps == DepsOf(p, source[p])
<1>1. b[p] = MadeFrom(source, p, b)
  BY BuiltIs, Zenon
<1>2. f = [q \in deps |-> b[q]]
  BY DEF IsFun, Deps
<1>3. \A q \in deps : b[q] # NoFile
  BY DEF Deps
<1> HIDE DEF b
<1>4. MadeFrom(source, p, b) = Rev(source[p], [q \in deps |-> b[q]])
  BY <1>3 DEF MadeFrom, Makeable
<1> QED
  BY <1>1, <1>2, <1>4 DEF b

LEMMA FinishInLine ==
    ASSUME IInv, LInv, NEW s \in Slots, Finish(s)
    PROVE  LInv'
<1> DEFINE p == s[1]
           t == [task[s] EXCEPT !.pc = "done", !.res = "processed"]
<1>1. /\ p \in Paths /\ IsTask(task[s]) /\ task[s].pc = "finish" /\ DOMAIN task = Slots
      /\ source \in [Paths -> Contents \cup {Gone}]
      /\ meta[p] = Rev(task[s].hash, task[s].full)
  BY Parts DEF Finish, Shapes, TypeOK, WorkOk
<1>2. /\ t.pc = "done" /\ t.res = "processed" /\ t.full = task[s].full /\ t.hash = task[s].hash
      /\ TaskMoves(s, t)
  BY <1>1 DEF Finish, Done, IsTask, TaskMoves, run, index, history
<1> HIDE DEF t
<1>3. /\ task'[s] = t /\ \A z \in Slots \ {s} : task'[z] = task[z]
      /\ \A x : Makeable(x)' = Makeable(x) /\ Deps(x)' = Deps(x)
      /\ \A x : Good(x)' => Good(x)
      /\ \A z \in Slots \ {s} : DoneWell(z)' = DoneWell(z)
  BY <1>2, TaskFrame
<1>4. /\ meta' = meta /\ rec' = rec /\ source' = source /\ broken' = broken /\ status' = status
      /\ queue' = queue /\ Built(source)' = Built(source)
  BY DEF Finish, index, history, Built, MadeFrom
<1>5. /\ TaskFits(s) /\ IsFun(task[s].full) /\ task[s].todo = {}
      /\ DOMAIN task[s].full = DepsOf(p, task[s].hash)
      /\ task[s].hash \in Contents /\ Kind[p] # "ignore"
  BY <1>1 DEF LInv, RecordsOk, TaskFits, Writes
<1>6. DoneWell(s)' /\ Making(s)' /\ Making(s)
  BY <1>1, <1>2, <1>3 DEF DoneWell, Making, Writes
<1>7. PathFits(p)' /\ TaskFits(s)'
  <2>1. PathFits(p)'
    BY <1>1, <1>4 DEF LInv, RecordsOk, PathFits, Usable
  <2>2. Proper(p, Rev(t.hash, t.full))
    BY <1>2, <1>5, Revisions DEF Proper
  <2>3. TaskFits(s)'
    BY <1>2, <1>3, <1>5, <2>2 DEF TaskFits, Writes
  <2> QED
    BY <2>1, <2>3
<1>8. p \notin dirty \cup broken' => TaskTells(s)'
  BY <1>1, <1>2, <1>3, <1>4, <1>6 DEF LInv, TellsOk, TaskTells
<1>9. \A z \in Slots : z[1] = p /\ task'[z].pc \in Writes => FALSE
  BY <1>1, <1>2, <1>3, OneWriter DEF Writes
<1>10. ASSUME Good(p)' PROVE p \notin dirty \cup broken /\ task[s].hash = source[p] /\ Makeable(p)
  <2>1. p \notin dirty \cup broken
    BY <1>1, <1>3, <1>10, GoodDeps
  <2> QED
    BY <1>6, <2>1 DEF LInv, TellsOk, TaskTells
<1>11. FollowsOk'
  <2> SUFFICES ASSUME Good(p)', NEW q \in Deps(p), InHand(p, q) PROVE InHand(p, q)'
    BY <1>2, <1>6, TaskFollows
  <2>1. DOMAIN task[s].full = Deps(p)
    BY <1>5, <1>10 DEF Deps
  <2>2. CASE queue[p] > 0
    BY <1>4, <2>2 DEF InHand
  <2>3. CASE ToRead(p, q)
    BY <1>1, <1>3, <1>4, <2>3 DEF InHand, ToRead
  <2>4. CASE HasRead(p, q)
    <3>1. PICK z \in Slots : /\ z[1] = p /\ task[z].pc \in Writes
                             /\ q \in DOMAIN task[z].full /\ task[z].full[q] = meta[q]
      BY <2>4 DEF HasRead
    <3>2. z = s
      BY <1>1, <3>1, OneWriter DEF Writes
    <3>3. q \in DOMAIN meta[p].d /\ meta[p].d[q] = meta[q]
      BY <1>1, <3>1, <3>2, Revisions
    <3> QED
      BY <1>4, <1>9, <3>3 DEF InHand, Current, Busy
  <2>5. Busy(p)
    BY <1>1 DEF Busy, Writes
  <2> QED
    BY <1>6, <2>2, <2>3, <2>4, <2>5 DEF InHand, Current, Astray
<1>12. RightOk'
  <2>1. \A z \in Slots : task'[z].full = task[z].full
    BY <1>2, <1>3
  <2>2. ASSUME Good(p)', Right(p) PROVE Right(p)'
    <3>1. \A q \in Deps(p) : task[s].full[q] = Built(source)[q] /\ Built(source)[q] # NoFile
      BY <1>5, <1>10, <2>2 DEF Right, Deps
    <3>2. meta[p] = Built(source)[p]
      BY <1>1, <1>5, <1>10, <2>2, <3>1, BuiltAs DEF Deps
    <3> QED
      BY <1>3, <1>4, <2>1, <2>2, <3>2 DEF Right
  <2>3. ASSUME Good(p)', NEW q \in Deps(p), ReadRight(p, q) PROVE ReadRight(p, q)'
    <3>1. q \in DOMAIN meta[p].d /\ meta[p].d[q] = Built(source)[q]
      <4>1. q \in DOMAIN task[s].full
        BY <1>5, <1>10, <2>3 DEF Deps
      <4>2. task[s].full[q] = Built(source)[q]
        BY <2>3, <4>1 DEF ReadRight
      <4> QED
        BY <1>1, <4>1, <4>2, Revisions
    <3> QED
      BY <1>4, <2>1, <2>3, <3>1 DEF ReadRight
  <2> QED
    BY <1>2, <2>2, <2>3, TaskRight
<1> QED
  BY <1>2, <1>6, <1>7, <1>8, <1>11, <1>12, TaskInLine

LEMMA ExamineInLine ==
    ASSUME IInv, LInv, NEW s \in Slots, Examine(s)
    PROVE  LInv'
<1> DEFINE p == s[1]
           c == source[p]
<1>1. /\ p \in Paths /\ IsTask(task[s]) /\ task[s].pc = "free" /\ DOMAIN task = Slots
      /\ source \in [Paths -> Contents \cup {Gone}] /\ queue \in [Paths -> Nat]
      /\ phase = "pass"
  BY Parts DEF Examine, Shapes, TypeOK
<1>2. PICK t : /\ IsTask(t) /\ t.full = task[s].full /\ task' = [task EXCEPT ![s] = t]
               /\ \/ t.pc = "done" /\ t.res = "failed" /\ (Kind[p] = "ignore" \/ c = Gone)
                  \/ /\ t.pc = "done" /\ t.res = "skipped" /\ Kind[p] # "ignore" /\ c # Gone
                     /\ UpToDate(p, c)
                  \/ t.pc = "lock" /\ t.hash = c /\ Kind[p] # "ignore" /\ c # Gone
  <2>1. CASE Kind[p] = "ignore" \/ c = Gone
    <3> DEFINE t == [task[s] EXCEPT !.pc = "done", !.res = "failed"]
    <3>1. /\ IsTask(t) /\ t.full = task[s].full /\ task' = [task EXCEPT ![s] = t]
          /\ t.pc = "done" /\ t.res = "failed"
      BY <1>1, <2>1 DEF Examine, Done, IsTask, Points
    <3> QED
      BY <2>1, <3>1
  <2>2. CASE Kind[p] # "ignore" /\ c # Gone /\ skip /\ UpToDate(p, c)
    <3> DEFINE t == [task[s] EXCEPT !.pc = "done", !.res = "skipped"]
    <3>1. /\ IsTask(t) /\ t.full = task[s].full /\ task' = [task EXCEPT ![s] = t]
          /\ t.pc = "done" /\ t.res = "skipped"
      BY <1>1, <2>2 DEF Examine, Done, IsTask, Points
    <3> QED
      BY <2>2, <3>1
  <2>3. CASE Kind[p] # "ignore" /\ c # Gone /\ ~(skip /\ UpToDate(p, c))
    <3> DEFINE t == [task[s] EXCEPT !.pc = "lock", !.hash = c]
    <3>1. task' = [task EXCEPT ![s] = t]
      <4>1. task' = [task EXCEPT ![s].pc = "lock", ![s].hash = c]
        BY <2>3 DEF Examine, Done
      <4> QED
        BY <1>1, <4>1 DEF IsTask
    <3>2. IsTask(t) /\ t.full = task[s].full /\ t.pc = "lock" /\ t.hash = c
      BY <1>1, <2>3 DEF IsTask, Points
    <3> QED
      BY <2>3, <3>1, <3>2
  <2> QED
    BY <2>1, <2>2, <2>3 DEF Examine
<1>3. TaskMoves(s, t)
  BY <1>1, <1>2 DEF Examine, TaskMoves, disk, run, index, Points
<1>4. /\ task'[s] = t /\ \A z \in Slots \ {s} : task'[z] = task[z]
      /\ \A x : Makeable(x)' = Makeable(x) /\ Deps(x)' = Deps(x)
      /\ \A x : Good(x)' => Good(x)
      /\ \A x : Ancestry(source, x)' = Ancestry(source, x)
      /\ \A z \in Slots \ {s} : DoneWell(z)' = DoneWell(z) /\ Making(z)' = Making(z)
  BY <1>3, TaskFrame
<1>5. /\ meta' = meta /\ rec' = rec /\ source' = source /\ broken' = broken /\ status' = status
      /\ Built(source)' = Built(source) /\ dirty' = dirty
  BY DEF Examine, disk, index, Built, MadeFrom
<1>6. ~Making(s) /\ ~DoneWell(s) /\ task[s].pc \notin Writes /\ (Busy(p)' <=> Busy(p)) /\ ~DoneWell(s)'
  BY <1>1, <1>2, <1>4 DEF Making, DoneWell, Busy, Writes
<1>7. PathFits(p)' /\ TaskFits(s)'
  <2>1. PathFits(p)'
    BY <1>1, <1>5 DEF LInv, RecordsOk, PathFits, Usable
  <2>2. TaskFits(s) /\ c \in Contents \cup {Gone}
    BY <1>1 DEF LInv, RecordsOk
  <2>3. TaskFits(s)'
    BY <1>1, <1>2, <1>4, <1>6, <2>2 DEF TaskFits, Writes
  <2> QED
    BY <2>1, <2>3
<1>8. p \notin dirty \cup broken' => TaskTells(s)'
  BY <1>1, <1>2, <1>4, <1>5, <1>6 DEF TaskTells, Making, Makeable, UpToDate, Writes
\* Found up to date, it is the only task of its asset, or the asset is late.
<1>9. ASSUME t.pc = "done", t.res = "skipped", Good(p)'
      PROVE  /\ \A z \in Slots : z[1] = p => ~Making(z) /\ ~Making(z)' /\ ~Busy(p)
             /\ Makeable(p) /\ rec[p].c = c /\ Proper(p, rec[p])
             /\ \A q \in DOMAIN rec[p].d : rec[q] = rec[p].d[q]
             /\ Good(p) /\ p \notin dirty \cup broken
  <2>1. p \notin late'
    BY <1>1, <1>4, <1>9, AncestryIs DEF Good
  <2>2. \A k \in 1 .. Dup : <<p, k>> # s => task[<<p, k>>].pc = "free"
    BY <1>2, <1>4, <1>9, <2>1 DEF Examine
  <2>3. \A z \in Slots : z[1] = p => task[z].pc = "free"
    <3> SUFFICES ASSUME NEW z \in Slots, z[1] = p PROVE task[z].pc = "free"
      OBVIOUS
    <3>1. PICK k \in 1 .. Dup : z = <<p, k>>
      BY DEF Slots
    <3> QED
      BY <1>1, <2>2, <3>1
  <2>4. \A z \in Slots : z[1] = p => ~Making(z) /\ ~Making(z)' /\ ~Busy(p)
    BY <1>2, <1>4, <1>6, <1>9, <2>3 DEF Making, DoneWell, Busy, Writes
  <2>5. Makeable(p) /\ rec[p].c = c /\ \A q \in DOMAIN rec[p].d : rec[q] = rec[p].d[q]
    BY <1>2, <1>9 DEF Makeable, UpToDate
  <2>6. Proper(p, rec[p])
    <3>1. c \in Contents /\ rec[p] # NoFile /\ rec[p] # ZERO
      BY <1>1, <2>5, Revisions DEF Makeable, ZERO
    <3> QED
      BY <1>1, <3>1 DEF LInv, RecordsOk, PathFits
  <2> QED
    BY <1>1, <1>4, <1>9, <2>4, <2>5, <2>6, GoodDeps
<1>10. FollowsOk'
  <2> SUFFICES ASSUME Good(p)', NEW q \in Deps(p), InHand(p, q), ~Settling(q) PROVE InHand(p, q)'
    BY <1>3, <1>5, <1>6, TaskFollows
  <2>1. CASE t.pc = "lock"
    BY <1>4, <2>1 DEF InHand, ToRead
  <2>2. CASE t.pc = "done" /\ t.res = "failed"
    BY <1>2, <2>2 DEF Deps, DepsOf
  <2>3. CASE t.pc = "done" /\ t.res = "skipped"
    <3>1. rec[q] = meta[q]
      BY DEF Settling
    <3>2. q \in DOMAIN rec[p].d /\ rec[p].d[q] = meta[q]
      BY <1>9, <2>3, <3>1 DEF Proper, Deps
    <3>3. CASE rec[p] = meta[p]
      BY <1>1, <1>5, <1>6, <1>9, <2>3, <3>2, <3>3 DEF InHand, Current
    <3>4. CASE rec[p] # meta[p]
      BY <1>1, <1>5, <1>9, <2>3, <3>4 DEF InHand, Astray
    <3> QED
      BY <3>3, <3>4
  <2> QED
    BY <1>2, <2>1, <2>2, <2>3
<1>11. RightOk'
  <2>1. \A z \in Slots : task'[z].full = task[z].full
    BY <1>2, <1>4
  <2>2. \A z \in Slots : DoneWell(z)' => DoneWell(z)
    BY <1>4, <1>6
  <2>3. \A q : ReadRight(p, q) => ReadRight(p, q)'
    BY <1>5, <1>6, <2>1, <2>2 DEF ReadRight
  <2>4. ASSUME Good(p)', Right(p) PROVE Right(p)'
    <3>1. ASSUME t.pc = "done", t.res = "skipped" PROVE meta[p] = Built(source)[p]
      <4>1. rec[p] = Built(source)[p]
        BY <1>9, <2>4, <3>1 DEF Right
      <4>2. status[p] # "failed"
        BY <1>1, <1>9, <2>4, <3>1 DEF LInv, TellsOk, StatusTells
      <4>3. CASE status[p] = "processed"
        BY <1>1, <1>9, <2>4, <3>1, <4>3 DEF Right
      <4>4. CASE status[p] = None
        <5>1. rec[p] \in {NoFile, meta[p]}
          BY <1>1, <1>9, <2>4, <3>1, <4>4 DEF LInv, FirstOk
        <5>2. rec[p] # NoFile
          BY <1>1, <1>9, <2>4, <3>1, Revisions DEF Proper
        <5> QED
          BY <4>1, <5>1, <5>2
      <4> QED
        BY <1>1, <4>2, <4>3, <4>4, Parts DEF TypeOK
    <3>2. ASSUME NEW z \in Slots, z[1] = p, task'[z].pc = "done",
                 task'[z].res \in {"processed", "skipped"}, ~Busy(p)
          PROVE  meta[p] = Built(source)[p]
      <4>1. CASE z = s
        BY <1>2, <1>4, <3>1, <3>2, <4>1
      <4>2. CASE z # s
        BY <1>4, <2>4, <3>2, <4>2 DEF Right
      <4> QED
        BY <4>1, <4>2
    <3> QED
      BY <1>4, <1>5, <1>6, <2>1, <2>4, <3>2 DEF Right
  <2> QED
    BY <1>3, <2>3, <2>4, TaskRight
<1> QED
  BY <1>3, <1>5, <1>6, <1>7, <1>8, <1>10, <1>11, TaskInLine

-----------------------------------------------------------------------------
\* What recording a result changes, and what it does not.
LEMMA RecordFrame ==
    ASSUME IInv, LInv, NEW s \in Slots, FinishProcessing(s)
    PROVE  /\ s[1] \in Paths /\ task[s].pc = "done" /\ phase = "pass"
           /\ source \in [Paths -> Contents \cup {Gone}]
           /\ UNCHANGED <<source, bytes, meta, phase, known, dirty, broken, late, lost>>
           /\ task'[s] = NoTask /\ \A z \in Slots \ {s} : task'[z] = task[z]
           /\ \A z \in Slots \ {s} : DoneWell(z)' = DoneWell(z) /\ Making(z)' = Making(z)
           /\ ~DoneWell(s)' /\ ~Making(s)'
           /\ \A p : Busy(p)' = Busy(p)
           /\ \A p : Good(p)' = Good(p) /\ Makeable(p)' = Makeable(p)
           /\ \A p : Ancestry(source, p)' = Ancestry(source, p) /\ Deps(p)' = Deps(p)
           /\ Up' = Up /\ Built(source)' = Built(source)
           /\ DOMAIN rec' = Paths /\ DOMAIN status' = Paths /\ DOMAIN queue' = Paths
           /\ \A x \in Paths \ {s[1]} : rec'[x] = rec[x] /\ status'[x] = status[x]
           /\ \A x \in Paths : queue[x] > 0 => queue'[x] > 0
           /\ \A p \in Paths \ {s[1]}, q \in Paths \ {s[1]} : p \in dependents'[q] <=> p \in dependents[q]
<1> DEFINE e == s[1]
<1>1. /\ e \in Paths /\ DOMAIN task = Slots /\ DOMAIN rec = Paths
      /\ source \in [Paths -> Contents \cup {Gone}] /\ queue \in [Paths -> Nat]
      /\ DOMAIN status = Paths /\ DOMAIN dependents = Paths
  BY Parts DEF Shapes, TypeOK
<1>2. /\ task[s].pc = "done" /\ task' = [task EXCEPT ![s] = NoTask]
      /\ UNCHANGED <<source, bytes, meta, phase, known, dirty, broken, late, lost>>
  BY DEF FinishProcessing, disk, run, history
<1>3. phase = "pass"
  <2>1. phase \in {"pass", "over"}
    BY <1>2, AtWork, Nothing DEF Quiet
  <2> QED
    BY <1>2, <2>1 DEF LInv, TurnsOk
<1>4. task'[s] = NoTask /\ \A z \in Slots \ {s} : task'[z] = task[z]
  BY <1>1, <1>2
<1>5. /\ \A z \in Slots \ {s} : DoneWell(z)' = DoneWell(z) /\ Making(z)' = Making(z)
      /\ ~DoneWell(s)' /\ ~Making(s)'
  BY <1>4, Nothing DEF DoneWell, Making, Writes
<1>6. \A p : Busy(p)' = Busy(p)
  BY <1>2, <1>4, Nothing DEF Busy, Writes
<1>7. /\ \A p : Good(p)' = Good(p) /\ Makeable(p)' = Makeable(p)
      /\ \A p : Ancestry(source, p)' = Ancestry(source, p) /\ Deps(p)' = Deps(p)
      /\ Up' = Up /\ Built(source)' = Built(source)
  BY <1>2, GoodStays DEF Good, Up
<1>8. /\ DOMAIN rec' = Paths /\ DOMAIN status' = Paths /\ DOMAIN queue' = Paths
      /\ \A x \in Paths \ {e} : rec'[x] = rec[x] /\ status'[x] = status[x]
      /\ \A x \in Paths : queue[x] > 0 => queue'[x] > 0
      /\ \A p \in Paths \ {e}, q \in Paths \ {e} : p \in dependents'[q] <=> p \in dependents[q]
  BY <1>1 DEF FinishProcessing, Record, Requeue, Announce
<1> QED
  BY <1>1, <1>2, <1>3, <1>4, <1>5, <1>6, <1>7, <1>8

\* The record of a task that has made its asset.
LEMMA RecordMade ==
    ASSUME IInv, LInv, NEW s \in Slots, FinishProcessing(s), task[s].res = "processed"
    PROVE  /\ rec'[s[1]] = Rev(task[s].hash, task[s].full) /\ status'[s[1]] = "processed"
           /\ Proper(s[1], Rev(task[s].hash, task[s].full)) /\ Making(s) /\ DoneWell(s)
           /\ \A q \in Paths : q \in DOMAIN task[s].full => s[1] \in dependents'[q]
           /\ \A p \in Paths : p \in dependents'[s[1]] => queue'[p] > 0
<1>1. /\ s[1] \in Paths /\ DOMAIN rec = Paths /\ queue \in [Paths -> Nat]
      /\ DOMAIN status = Paths /\ task[s].pc = "done"
  BY Parts DEF Shapes, TypeOK, FinishProcessing
<1>2. /\ Record(s[1], Rev(task[s].hash, task[s].full))
      /\ Announce(s[1], "processed")
      /\ Requeue(dependents'[s[1]])
  BY DEF FinishProcessing
<1>3. Making(s) /\ DoneWell(s) /\ Proper(s[1], Rev(task[s].hash, task[s].full))
  BY <1>1 DEF Making, DoneWell, LInv, RecordsOk, TaskFits
<1>4. \A q \in Paths : q \in DOMAIN task[s].full => s[1] \in dependents'[q]
  BY <1>2, Revisions DEF Record
<1> QED
  BY <1>1, <1>2, <1>3, <1>4 DEF Record, Announce, Requeue

\* The result of a task for an asset that is not spoilt.
LEMMA RecordTells ==
    ASSUME IInv, LInv, NEW s \in Slots, FinishProcessing(s), s[1] \notin dirty \cup broken
    PROVE  /\ TaskTells(s) /\ task[s].res \in {"processed", "skipped", "failed"}
           /\ task[s].res \in {"processed", "skipped"} =>
                  /\ status'[s[1]] = "processed" /\ Makeable(s[1]) /\ rec'[s[1]].c = source[s[1]]
           /\ task[s].res = "failed" => status'[s[1]] = "failed" /\ ~Makeable(s[1])
           /\ task[s].res \in {"skipped", "failed"} => UNCHANGED <<rec, dependents, queue>>
           /\ task[s].res = "processed" => task[s].hash = source[s[1]]
<1>1. s[1] \in Paths /\ task[s].pc = "done" /\ DOMAIN status = Paths /\ TaskTells(s)
  BY Parts DEF FinishProcessing, TypeOK, LInv, TellsOk
<1>2. task[s].res \in {"processed", "skipped", "failed"}
  BY <1>1, Parts DEF TaskTells, WorkOk
<1>3. CASE task[s].res = "processed"
  BY <1>1, <1>2, <1>3, RecordMade, Revisions DEF TaskTells
<1>4. CASE task[s].res = "skipped"
  BY <1>1, <1>2, <1>4 DEF TaskTells, FinishProcessing, Announce
<1>5. CASE task[s].res = "failed"
  BY <1>1, <1>2, <1>5 DEF TaskTells, FinishProcessing, Announce
<1> QED
  BY <1>1, <1>2, <1>3, <1>4, <1>5

LEMMA RecordKeepsRecords ==
    ASSUME IInv, LInv, NEW s \in Slots, FinishProcessing(s)
    PROVE  RecordsOk' /\ EdgesOk' /\ TurnsOk' /\ FirstOk'
<1> DEFINE e == s[1]
<1>1. /\ e \in Paths /\ task[s].pc = "done" /\ phase = "pass" /\ DOMAIN dependents = Paths
      /\ source' = source /\ meta' = meta /\ phase' = phase /\ known' = known /\ dirty' = dirty
      /\ broken' = broken
      /\ task'[s] = NoTask /\ \A z \in Slots \ {s} : task'[z] = task[z]
      /\ \A z \in Slots \ {s} : DoneWell(z)' = DoneWell(z) /\ Making(z)' = Making(z)
      /\ ~DoneWell(s)' /\ ~Making(s)'
      /\ \A x \in Paths \ {e} : rec'[x] = rec[x] /\ status'[x] = status[x]
      /\ \A x \in Paths : queue[x] > 0 => queue'[x] > 0
  BY RecordFrame, Parts DEF TypeOK
<1>2. status'[e] \in {"processed", "failed"}
  BY <1>1, Parts DEF FinishProcessing, Announce, TypeOK
<1>3. \/ task[s].res = "processed"
      \/ task[s].res = "unloaded" /\ rec'[e] = ZERO
      \/ task[s].res \in {"skipped", "failed"} /\ rec' = rec
  BY <1>1, Parts DEF FinishProcessing, Shapes
<1>4. RecordsOk'
  <2>1. ASSUME NEW p \in Paths PROVE PathFits(p)'
    <3>1. PathFits(p)
      BY DEF LInv, RecordsOk
    <3>2. rec'[p] \in {NoFile, ZERO} \/ Proper(p, rec'[p])
      <4>1. CASE p = e /\ task[s].res = "processed"
        BY <4>1, RecordMade
      <4>2. CASE p # e \/ task[s].res # "processed"
        BY <1>1, <1>3, <3>1, <4>2 DEF PathFits
      <4> QED
        BY <4>1, <4>2
    <3> QED
      BY <1>1, <3>1, <3>2 DEF PathFits, Usable
  <2>2. ASSUME NEW z \in Slots \ {s} PROVE TaskFits(z)'
    <3>1. TaskFits(z) /\ task'[z] = task[z] /\ (DoneWell(z)' <=> DoneWell(z))
      BY <1>1 DEF LInv, RecordsOk
    <3> QED
      BY <3>1 DEF TaskFits
  <2>3. TaskFits(s)'
    BY <1>1 DEF TaskFits, NoTask, IsFun, Writes
  <2> QED
    BY <2>1, <2>2, <2>3 DEF RecordsOk
<1>5. EdgesOk'
  <2> SUFFICES ASSUME NEW p \in Paths, NEW q \in Paths, q \in DOMAIN rec'[p].d
               PROVE  p \in dependents'[q]
    BY <1>1 DEF EdgesOk
  <2>1. CASE p = e /\ task[s].res = "processed"
    BY <2>1, RecordMade, Revisions
  <2>2. CASE p = e /\ task[s].res = "unloaded"
    BY <1>3, <2>2 DEF ZERO, Rev
  <2>3. CASE p = e /\ task[s].res \in {"skipped", "failed"}
    BY <1>3, <2>3 DEF FinishProcessing, LInv, EdgesOk
  <2>4. CASE p # e
    <3>1. p \in dependents[q]
      BY <1>1, <2>4 DEF LInv, EdgesOk
    <3> QED
      BY <1>1, <2>4, <3>1 DEF FinishProcessing, Record
  <2> QED
    BY <1>3, <2>1, <2>2, <2>3, <2>4
<1>6. TurnsOk'
  <2>1. ASSUME NEW p \in Paths, p \in known
        PROVE  queue'[p] > 0 \/ status'[p] # None \/ \E z \in Slots : z[1] = p /\ task'[z].pc # "free"
    <3>1. CASE p = e
      BY <1>2, <3>1, Actors
    <3>2. CASE p # e
      <4>1. queue[p] > 0 \/ status[p] # None \/ \E z \in Slots : z[1] = p /\ task[z].pc # "free"
        BY <1>1, <2>1 DEF LInv, TurnsOk
      <4> QED
        BY <1>1, <3>2, <4>1
    <3> QED
      BY <3>1, <3>2
  <2>2. \A p \in Paths : source[p] # Gone /\ p \notin dirty => p \in known
    BY <1>1 DEF LInv, TurnsOk
  <2> QED
    BY <1>1, <2>1, <2>2 DEF TurnsOk
<1>7. FirstOk'
  <2> SUFFICES ASSUME NEW p \in Paths \ broken, status'[p] = None,
                      \A z \in Slots : z[1] = p => ~Making(z)'
               PROVE  rec'[p] \in {NoFile, meta[p]}
    BY <1>1 DEF FirstOk
  <2>1. p # e
    BY <1>2, Actors
  <2>2. \A z \in Slots : z[1] = p => ~Making(z)
    BY <1>1, <2>1
  <2> QED
    BY <1>1, <2>1, <2>2 DEF LInv, FirstOk
<1> QED
  BY <1>4, <1>5, <1>6, <1>7

LEMMA RecordKeepsTells ==
    ASSUME IInv, LInv, NEW s \in Slots, FinishProcessing(s)
    PROVE  TellsOk'
<1> DEFINE e == s[1]
<1>1. /\ e \in Paths /\ task[s].pc = "done" /\ phase = "pass"
      /\ source' = source /\ dirty' = dirty /\ broken' = broken
      /\ task'[s] = NoTask /\ \A z \in Slots \ {s} : task'[z] = task[z]
      /\ \A z \in Slots \ {s} : Making(z)' = Making(z)
      /\ ~Making(s)' /\ \A p : Makeable(p)' = Makeable(p)
      /\ \A x \in Paths \ {e} : rec'[x] = rec[x] /\ status'[x] = status[x]
  BY RecordFrame
<1>2. ASSUME NEW g \in Agents
      PROVE  /\ rd'[g].q = rd[g].q /\ rd'[g].at = rd[g].at
             /\ rd[g].q # e => rd'[g].heard = rd[g].heard
             /\ rd'[g].heard = "processed" => rd[g].heard = "processed" \/ status'[e] = "processed"
  <2>1. PICK st \in {"processed", "failed"} : Announce(e, st)
    BY DEF FinishProcessing
  <2>2. DOMAIN rd[g] = {"q", "at", "waiting", "heard"} /\ DOMAIN status = Paths
    BY Parts DEF Shapes, IsRead, TypeOK
  <2> QED
    BY <1>1, <2>1, <2>2 DEF Announce
<1>3. ASSUME NEW p \in Paths \ (dirty \cup broken) PROVE StatusTells(p)'
  <2>1. StatusTells(p)
    BY <1>3 DEF LInv, TellsOk
  <2>2. CASE p # e
    <3>1. \A g \in Agents : Past(g, p)' => Past(g, p)
      BY <1>2, <2>2 DEF Past
    <3> QED
      BY <1>1, <2>1, <2>2, <3>1 DEF StatusTells
  <2>3. CASE p = e
    <3>1. \A g \in Agents : Past(g, e)' => Past(g, e) \/ status'[e] = "processed"
      BY <1>2 DEF Past
    <3>2. CASE task[s].res \in {"processed", "skipped"}
      BY <1>1, <1>3, <2>3, <3>2, RecordTells DEF StatusTells
    <3>3. CASE task[s].res = "failed"
      <4>1. status'[e] = "failed" /\ ~Makeable(e)
        BY <1>3, <2>3, <3>3, RecordTells
      <4>2. \A g \in Agents : ~Past(g, e)
        BY <2>1, <2>3, <4>1 DEF StatusTells
      <4> QED
        BY <1>1, <2>3, <3>1, <4>1, <4>2 DEF StatusTells
    <3> QED
      BY <1>3, <2>3, <3>2, <3>3, RecordTells
  <2> QED
    BY <2>2, <2>3
<1>4. ASSUME NEW z \in Slots, z[1] \notin dirty \cup broken PROVE TaskTells(z)'
  <2>1. CASE z = s
    BY <1>1, <2>1, Nothing DEF TaskTells
  <2>2. CASE z # s
    <3>1. TaskTells(z) /\ z[1] \in Paths
      BY <1>4, Actors DEF LInv, TellsOk
    <3>2. rec'[z[1]] = rec[z[1]] \/ (z[1] = e /\ rec'[z[1]].c = source[z[1]])
      BY <1>1, <1>4, <3>1, RecordTells
    <3> QED
      BY <1>1, <2>2, <3>1, <3>2 DEF TaskTells
  <2> QED
    BY <2>1, <2>2
<1> QED
  BY <1>1, <1>3, <1>4 DEF TellsOk

\* A task that has the lock, of an asset that is not spoilt, reads what it should or has.
LEMMA WriterReads ==
    ASSUME IInv, LInv, NEW p \in Paths, p \notin dirty \cup broken, Busy(p), NEW q \in Deps(p),
           \A z \in Slots : z[1] = p /\ q \in DOMAIN task[z].full => task[z].full[q] = meta[q]
    PROVE  InHand(p, q)
<1>1. PICK z \in Slots : z[1] = p /\ task[z].pc \in Writes
  BY DEF Busy
<1>2. TaskFits(z) /\ task[z].hash = source[p]
  BY <1>1 DEF LInv, RecordsOk, TellsOk, TaskTells, Making
<1>3. CASE task[z].pc = "open" \/ (task[z].pc = "work" /\ q \in task[z].todo)
  BY <1>1, <1>3 DEF InHand, ToRead
<1>4. CASE task[z].pc # "open" /\ q \in DOMAIN task[z].full
  BY <1>1, <1>4 DEF InHand, HasRead
<1> QED
  BY <1>1, <1>2, <1>3, <1>4 DEF TaskFits, Deps, Writes

\* The first record of an edge: what was read was right, and still is.
LEMMA NewEdge ==
    ASSUME IInv, LInv, Up, NEW p \in Paths, Good(p), NEW q \in Deps(p), p \notin dependents[q],
           NEW s \in Slots, s[1] = p, DoneWell(s), q \in DOMAIN task[s].full
    PROVE  Settling(q) \/ InHand(p, q)
<1>1. source \in [Paths -> Contents \cup {Gone}]
  BY Parts DEF TypeOK
<1>2. ReadRight(p, q) /\ Right(q) /\ q \in Paths /\ p \notin dirty \cup broken
  BY <1>1, GoodDeps, AncestryIs DEF LInv, RightOk
<1> SUFFICES ASSUME ~Settling(q) PROVE InHand(p, q)
  OBVIOUS
<1>3. ~Busy(q)
  BY DEF Settling, Busy
<1>4. meta[q] = Built(source)[q]
  BY <1>2, <1>3 DEF ReadRight, Right
<1>5. CASE Busy(p)
  BY <1>2, <1>4, <1>5, WriterReads DEF ReadRight
<1>6. CASE ~Busy(p)
  BY <1>2, <1>4, <1>6 DEF ReadRight, InHand, Current
<1> QED
  BY <1>5, <1>6

LEMMA RecordFollows ==
    ASSUME IInv, LInv, NEW s \in Slots, FinishProcessing(s)
    PROVE  FollowsOk'
<1> DEFINE e == s[1]
<1>1. /\ e \in Paths /\ task[s].pc = "done" /\ source \in [Paths -> Contents \cup {Gone}]
      /\ meta' = meta
      /\ task'[s] = NoTask /\ \A z \in Slots \ {s} : task'[z] = task[z]
      /\ \A z \in Slots \ {s} : Making(z)' = Making(z)
      /\ ~Making(s)'
      /\ \A p : Busy(p)' = Busy(p)
      /\ \A p : Good(p)' = Good(p) /\ Deps(p)' = Deps(p)
      /\ Up' = Up
      /\ \A x \in Paths \ {e} : rec'[x] = rec[x]
      /\ \A x \in Paths : queue[x] > 0 => queue'[x] > 0
      /\ \A p \in Paths \ {e}, q \in Paths \ {e} : p \in dependents'[q] <=> p \in dependents[q]
  BY RecordFrame
<1> SUFFICES ASSUME Up', NEW p \in Paths, Good(p)', NEW q \in Deps(p)', p \in dependents'[q]
             PROVE  Settling(q)' \/ InHand(p, q)'
  BY DEF FollowsOk
<1>2. /\ Up /\ Good(p) /\ q \in Deps(p) /\ q \in Paths /\ q # p /\ Good(q)
      /\ p \notin dirty \cup broken /\ q \notin dirty \cup broken
  BY <1>1, GoodDeps, AncestryIs DEF Good
<1>3. p \in dependents[q] => Settling(q) \/ InHand(p, q)
  BY <1>2 DEF LInv, FollowsOk
<1>4. q # e /\ Settling(q) => Settling(q)'
  BY <1>1, <1>2, SettlingSame
\* Edges of other assets to other assets.
<1>5. CASE p # e /\ q # e
  <2>1. InHand(p, q) => InHand(p, q)'
    BY <1>1, <1>2, <1>5, InHandSame
  <2> QED
    BY <1>1, <1>2, <1>3, <1>4, <1>5, <2>1
\* Edges to the asset that is recorded: whoever is made from it is queued again.
<1>6. CASE q = e
  <2>1. CASE task[s].res = "processed"
    BY <1>6, <2>1, RecordMade DEF InHand
  <2>2. CASE task[s].res \in {"skipped", "failed"}
    <3>1. UNCHANGED <<rec, dependents, queue>>
      BY <1>2, <1>6, <2>2, RecordTells
    <3>2. Settling(e) => Settling(e)'
      <4>1. ~DoneWell(s) /\ task[s].pc \notin Writes
        BY <1>1, <2>2 DEF DoneWell, Writes
      <4> QED
        BY <1>1, <3>1, <4>1 DEF Settling, DoneWell
    <3>3. InHand(p, q) => InHand(p, q)'
      BY <1>1, <1>2, <1>6, InHandSame
    <3> QED
      BY <1>3, <1>6, <3>1, <3>2, <3>3
  <2> QED
    BY <1>2, <1>6, <2>1, <2>2, RecordTells
\* Edges of the asset that is recorded.
<1>7. CASE p = e
  <2>1. \A z \in Slots : z[1] = e /\ task[z].pc \in Writes \cup {"lock", "drain"} => task'[z] = task[z]
    BY <1>1 DEF Writes
  <2>2. ToRead(e, q) => ToRead(e, q)'
    BY <1>1, <2>1 DEF ToRead, Writes
  <2>3. HasRead(e, q) => HasRead(e, q)'
    BY <1>1, <2>1 DEF HasRead, Writes
  <2>4. Current(e, q) => Current(e, q)'
    BY <1>1 DEF Current
  <2>5. Astray(e) => Astray(e)'
    <3> SUFFICES ASSUME Astray(e) PROVE Astray(e)'
      OBVIOUS
    <3>1. ~Making(s)
      BY DEF Astray
    <3>2. rec' = rec
      <4>1. task[s].res # "processed"
        BY <3>1, RecordMade
      <4> QED
        BY <1>2, <1>7, <4>1, RecordTells
    <3> QED
      BY <1>1, <3>2 DEF Astray
  <2>6. InHand(e, q) => InHand(e, q)'
    BY <1>1, <2>2, <2>3, <2>4, <2>5 DEF InHand
  <2>7. CASE p \in dependents[q]
    BY <1>2, <1>3, <1>4, <1>7, <2>6, <2>7
  <2>8. CASE p \notin dependents[q]
    <3>1. task[s].res = "processed"
      BY <1>2, <1>7, <2>8, RecordTells
    <3>2. q \in DOMAIN task[s].full
      <4>1. task[s].hash = source[e]
        BY <1>2, <1>7, <3>1, RecordTells
      <4> QED
        BY <1>2, <1>7, <3>1, <4>1, RecordMade, Revisions DEF Proper, Deps
    <3> QED
      BY <1>2, <1>4, <1>7, <2>6, <2>8, <3>1, <3>2, RecordMade, NewEdge
  <2> QED
    BY <2>7, <2>8
<1> QED
  BY <1>5, <1>6, <1>7

LEMMA RecordRight ==
    ASSUME IInv, LInv, NEW s \in Slots, FinishProcessing(s)
    PROVE  RightOk'
<1> DEFINE e == s[1]
<1>1. /\ e \in Paths /\ task[s].pc = "done" /\ source \in [Paths -> Contents \cup {Gone}]
      /\ meta' = meta /\ source' = source
      /\ task'[s] = NoTask /\ \A z \in Slots \ {s} : task'[z] = task[z]
      /\ \A z \in Slots \ {s} : DoneWell(z)' = DoneWell(z)
      /\ ~DoneWell(s)'
      /\ \A p : Busy(p)' = Busy(p)
      /\ \A p : Good(p)' = Good(p) /\ Deps(p)' = Deps(p) /\ Makeable(p)' = Makeable(p)
      /\ \A p : Ancestry(source, p)' = Ancestry(source, p)
      /\ Up' = Up /\ Built(source)' = Built(source)
      /\ \A x \in Paths \ {e} : rec'[x] = rec[x] /\ status'[x] = status[x]
      /\ \A p \in Paths \ {e}, q \in Paths \ {e} : p \in dependents'[q] <=> p \in dependents[q]
  BY RecordFrame
<1>2. task'[s].full = <<>> /\ task'[s].pc = "free" /\ DOMAIN <<>> = {}
  BY <1>1 DEF NoTask
<1> SUFFICES ASSUME Up', NEW p \in Paths, Good(p)', NEW q \in Deps(p)', p \notin dependents'[q]
             PROVE  ReadRight(p, q)' /\ \A x \in Ancestry(source, q)' : Right(x)'
  BY DEF RightOk
<1>3. /\ Up /\ Good(p) /\ q \in Deps(p) /\ q \in Paths /\ q # p /\ Good(q)
      /\ p \notin dirty \cup broken /\ q \notin dirty \cup broken
  <2>1. Up /\ Good(p) /\ q \in Deps(p)
    BY <1>1
  <2>2. q \in Paths /\ q # p /\ Good(q)
    BY <1>1, <2>1, GoodDeps
  <2> QED
    BY <1>1, <2>1, <2>2, GoodDeps
\* An edge that is not recorded now was not recorded before.
<1>4. p \notin dependents[q]
  <2>1. CASE p # e /\ q # e
    BY <1>1, <1>3, <2>1
  <2>2. CASE task[s].res = "processed" /\ p = e
    <3>1. q \in DOMAIN task[s].full
      <4>1. task[s].hash = source[e]
        BY <1>3, <2>2, RecordTells
      <4> QED
        BY <1>3, <2>2, <4>1, RecordMade, Revisions DEF Proper, Deps
    <3> QED
      BY <1>3, <2>2, <3>1, RecordMade
  <2>3. CASE task[s].res = "processed" /\ q = e
    <3>1. dependents'[q] = (dependents[q] \ IF q \in DOMAIN rec[e].d THEN {e} ELSE {})
                               \cup IF q \in DOMAIN task[s].full THEN {e} ELSE {}
      BY <1>3, <2>3, Revisions DEF FinishProcessing, Record
    <3> QED
      BY <1>3, <2>3, <3>1
  <2>4. CASE task[s].res # "processed" /\ (p = e \/ q = e)
    BY <1>3, <2>4, RecordTells
  <2> QED
    BY <2>1, <2>2, <2>3, <2>4
<1>5. ReadRight(p, q) /\ \A x \in Ancestry(source, q) : Right(x)
  BY <1>3, <1>4 DEF LInv, RightOk
<1>6. ASSUME NEW x \in Ancestry(source, q) PROVE Right(x)'
  <2>1. x \in Paths /\ Good(x) /\ x \notin dirty \cup broken /\ Right(x)
    BY <1>1, <1>3, <1>5, GoodDeps, AncestryIs
  <2>2. CASE x # e
    <3>1. \A z \in Slots : z[1] = x => task'[z] = task[z]
      BY <1>1, <2>2
    <3> QED
      BY <1>1, <2>1, <2>2, <3>1, RightSame
  <2>3. CASE x = e
    <3>1. rec'[e] = rec[e] \/ rec'[e] = Built(source)[e]
      <4>1. CASE task[s].res = "processed"
        <5>1. task[s].hash = source[e] /\ Makeable(e)
          BY <2>1, <2>3, <4>1, RecordTells
        <5>2. IsFun(task[s].full) /\ DOMAIN task[s].full = Deps(e)
          BY <4>1, <5>1, RecordMade, Revisions DEF Proper, Deps
        <5>3. Rev(source[e], task[s].full) = Built(source)[e]
          BY <1>1, <2>1, <2>3, <5>1, <5>2, BuiltAs DEF Right
        <5> QED
          BY <4>1, <5>1, <5>3, RecordMade
      <4> QED
        BY <2>1, <2>3, <4>1, RecordTells
    <3>2. \A z \in Slots : \A y \in DOMAIN task'[z].full :
              /\ y \in DOMAIN task[z].full /\ task'[z].full[y] = task[z].full[y]
      BY <1>1, <1>2
    <3>3. status'[e] = "processed" => task[s].res \in {"processed", "skipped"}
      BY <2>1, <2>3, RecordTells
    <3>4. \A z \in Slots : task'[z].pc = "done" => z # s /\ task'[z] = task[z]
      BY <1>1, <1>2
    <3> QED
      BY <1>1, <2>1, <2>3, <3>1, <3>2, <3>3, <3>4 DEF Right
  <2> QED
    BY <2>2, <2>3
<1>7. ReadRight(p, q)'
  <2>1. status[q] = "processed" => status'[q] = "processed"
    <3>1. CASE q = e
      <4>1. StatusTells(q)
        BY <1>3 DEF LInv, TellsOk
      <4> QED
        BY <1>3, <3>1, <4>1, RecordTells DEF StatusTells
    <3> QED
      BY <1>1, <1>3, <3>1
  <2>2. \A z \in Slots : q \in DOMAIN task'[z].full =>
            q \in DOMAIN task[z].full /\ task'[z].full[q] = task[z].full[q]
    BY <1>1, <1>2
  <2>3. \A z \in Slots : DoneWell(z)' => DoneWell(z)
    BY <1>1
  <2> QED
    BY <1>1, <1>5, <2>1, <2>2, <2>3 DEF ReadRight
<1> QED
  BY <1>1, <1>6, <1>7

-----------------------------------------------------------------------------
\* Before the pass, all there is to keep in line are the records.
Recorded ==
    /\ phase \in {"off", "opened", "scan"} /\ EdgesOk
    /\ \A p \in Paths : PathFits(p) /\ rec[p] \in {NoFile, meta[p]}
    /\ phase = "scan" => \A p \in Paths : source[p] # Gone /\ p \notin dirty => p \in known

LEMMA RecordedInLine == IInv /\ Recorded => LInv
<1> SUFFICES ASSUME IInv, Recorded PROVE LInv
  OBVIOUS
<1>1. /\ phase \in {"off", "opened", "scan"}
      /\ \A p \in Paths : status[p] = None
      /\ \A s \in Slots : task[s] = NoTask
      /\ \A g \in Agents : rd[g] = NoRead
  BY AtWork DEF Recorded, Quiet, All
<1>2. RecordsOk
  <2>1. \A s \in Slots : TaskFits(s)
    BY <1>1 DEF TaskFits, NoTask, IsFun, DoneWell, Writes
  <2> QED
    BY <2>1 DEF RecordsOk, Recorded
<1>3. TurnsOk
  BY <1>1 DEF Recorded, TurnsOk
<1>4. FirstOk
  BY DEF Recorded, FirstOk
<1>5. TellsOk
  <2>1. \A p \in Paths : StatusTells(p)
    BY <1>1, Nothing, Actors DEF StatusTells, Past
  <2>2. \A s \in Slots : TaskTells(s)
    BY <1>1, Nothing DEF TaskTells, Making, DoneWell, Writes
  <2> QED
    BY <2>1, <2>2 DEF TellsOk
<1>6. ~Up
  BY <1>1 DEF Up
<1> QED
  BY <1>2, <1>3, <1>4, <1>5, <1>6 DEF LInv, FollowsOk, RightOk, Recorded

LEMMA LineRecorded ==
    ASSUME IInv, LInv, phase \in {"off", "opened", "scan"}
    PROVE  Recorded
<1>1. /\ \A p \in Paths : status[p] = None
      /\ \A s \in Slots : task[s] = NoTask
      /\ broken = {}
  BY AtWork DEF Quiet, All
<1>2. \A s \in Slots : ~Making(s)
  BY <1>1, Nothing DEF Making, DoneWell, Writes
<1>3. \A p \in Paths : rec[p] \in {NoFile, meta[p]}
  BY <1>1, <1>2 DEF LInv, FirstOk
<1> QED
  BY <1>3 DEF Recorded, LInv, RecordsOk, TurnsOk

\* What a whole run leaves looks like a record.
LEMMA BuiltProper ==
    ASSUME NEW src \in [Paths -> Contents \cup {Gone}], NEW p \in Paths,
           Built(src)[p] # NoFile
    PROVE  Proper(p, Built(src)[p])
<1> DEFINE b == Built(src)
<1>1. b[p] = MadeFrom(src, p, b)
  BY BuiltIs, Zenon
<1>2. MadeFrom(src, p, b) # NoFile
  BY <1>1
<1> HIDE DEF b
<1>3. /\ Kind[p] # "ignore" /\ src[p] \in Contents
      /\ MadeFrom(src, p, b) = Rev(src[p], [q \in DepsOf(p, src[p]) |-> b[q]])
  BY <1>2 DEF MadeFrom
<1>4. Proper(p, Rev(src[p], [q \in DepsOf(p, src[p]) |-> b[q]]))
  BY <1>3, Revisions DEF Proper, IsFun
<1> QED
  BY <1>1, <1>3, <1>4 DEF b

LEMMA InitInLine == Init => LInv
<1> SUFFICES ASSUME Init PROVE LInv
  OBVIOUS
<1>1. IInv
  BY InitIInv
<1>2. PICK old \in OldTrees : meta = Built(old)
  BY DEF Init
<1>3. old \in [Paths -> Contents \cup {Gone}]
  BY ImporterAssumption
<1>4. /\ \A p \in Paths : rec[p] = NoFile /\ dependents[p] = {}
      /\ phase = "off"
  BY DEF Init, All
<1>5. \A p \in Paths : PathFits(p)
  BY <1>2, <1>3, <1>4, BuiltProper DEF PathFits, Usable
<1>6. EdgesOk
  BY <1>4, Revisions DEF EdgesOk
<1>7. Recorded
  BY <1>4, <1>5, <1>6 DEF Recorded
<1> QED
  BY <1>1, <1>7, RecordedInLine

\* The run up to its pass, and its end.
LEMMA EarlyInLine ==
    ASSUME IInv, IInv', LInv, OpenLog \/ Register \/ (\E p \in Paths : Sync(p)) \/ Stop
    PROVE  LInv'
<1>1. Recorded'
  <2>1. CASE OpenLog
    <3>1. Recorded /\ phase = "off"
      BY <2>1, LineRecorded DEF OpenLog
    <3> QED
      BY <2>1, <3>1 DEF OpenLog, Recorded, EdgesOk, PathFits, Usable, index
  <2>2. CASE Register
    <3>1. Recorded /\ phase = "opened"
      BY <2>2, LineRecorded DEF Register
    <3> QED
      BY <2>2, <3>1 DEF Register, Recorded, EdgesOk, PathFits, Usable, disk, history
  <2>3. CASE \E p \in Paths : Sync(p)
    <3>1. PICK x \in Paths : Sync(x)
      BY <2>3
    <3>2. Recorded /\ phase = "scan" /\ x \in unsynced /\ rec[x] = NoFile
      BY <3>1, LineRecorded, AtWork DEF Sync, Quiet
    <3>3. /\ DOMAIN meta = Paths /\ DOMAIN rec = Paths
          /\ UNCHANGED <<source, known, phase, dirty>>
      BY <3>1, Parts DEF Sync, Shapes, history
    <3>4. CASE (RemoveBytes(x) \/ RemoveMeta(x)) /\ UNCHANGED <<rec, dependents>>
      <4>1. \A p \in Paths : PathFits(p)' /\ rec'[p] \in {NoFile, meta'[p]}
        BY <3>2, <3>3, <3>4 DEF Recorded, RemoveBytes, RemoveMeta, PathFits, Usable
      <4> QED
        BY <3>2, <3>3, <3>4, <4>1 DEF Recorded, EdgesOk
    <3>5. CASE x \in known /\ Usable(x) /\ Record(x, meta[x]) /\ UNCHANGED <<bytes, meta>>
      <4>1. \A p \in Paths : PathFits(p)' /\ rec'[p] \in {NoFile, meta'[p]}
        BY <3>2, <3>3, <3>5 DEF Recorded, Record, PathFits, Usable
      <4>2. EdgesOk'
        BY <3>2, <3>3, <3>5, Revisions DEF Recorded, Record, EdgesOk
      <4> QED
        BY <3>2, <3>3, <4>1, <4>2 DEF Recorded
    <3> QED
      BY <3>1, <3>4, <3>5 DEF Sync
  <2>4. CASE Stop
    <3>1. /\ phase' = "off" /\ meta' = meta
          /\ \A p \in Paths : rec'[p] = NoFile /\ dependents'[p] = {}
      BY <2>4 DEF Stop, All, disk
    <3>2. \A p \in Paths : PathFits(p)'
      BY <3>1 DEF LInv, RecordsOk, PathFits, Usable
    <3>3. EdgesOk'
      BY <3>1, Revisions DEF EdgesOk
    <3> QED
      BY <3>1, <3>2, <3>3 DEF Recorded
  <2> QED
    BY <2>1, <2>2, <2>3, <2>4
<1>2. (IInv /\ Recorded)' => LInv'
  BY RecordedInLine, PTL
<1> QED
  BY <1>1, <1>2

\* A pass begins with everything queued, and what is young is right.
LEMMA StartPassInLine ==
    ASSUME IInv, LInv, StartPass
    PROVE  LInv'
<1>1. /\ phase = "scan" /\ phase' = "pass"
      /\ queue' = [p \in Paths |-> IF p \in known THEN 1 ELSE 0]
      /\ late' = late \cup {p \in known : \E q \in DepsOf(p, source[p]) :
                                 p \notin dependents[q] /\ DOMAIN rec[q].d # {}}
      /\ UNCHANGED <<source, bytes, meta, known, rec, status, dependents, task, rd, dirty, broken, lost>>
  BY DEF StartPass, disk, index
<1>2. /\ \A p \in Paths : status[p] = None
      /\ \A s \in Slots : task[s] = NoTask
      /\ source \in [Paths -> Contents \cup {Gone}] /\ known \subseteq Paths
      /\ Recorded
  BY <1>1, AtWork, LineRecorded, Parts DEF Quiet, All, TypeOK
<1>3. /\ \A p : Good(p)' => Good(p)
      /\ \A p : Ancestry(source, p)' = Ancestry(source, p) /\ Deps(p)' = Deps(p)
      /\ \A p : Makeable(p)' = Makeable(p)
      /\ Built(source)' = Built(source)
  BY <1>1, GoodStays
<1>4. RecordsOk' /\ EdgesOk'
  BY <1>1 DEF LInv, RecordsOk, PathFits, TaskFits, Usable, DoneWell, EdgesOk
<1>5. TurnsOk'
  BY <1>1, <1>2 DEF LInv, TurnsOk
<1>6. FirstOk'
  BY <1>1 DEF LInv, FirstOk, Making, DoneWell
<1>7. TellsOk'
  <2>1. \A p \in Paths : StatusTells(p) => StatusTells(p)'
    BY <1>1, <1>3 DEF StatusTells, Past
  <2>2. \A s \in Slots : TaskTells(s) => TaskTells(s)'
    BY <1>1, <1>3 DEF TaskTells, Making, DoneWell
  <2> QED
    BY <1>1, <2>1, <2>2 DEF LInv, TellsOk
<1>8. ASSUME NEW p \in Paths, Good(p)', NEW q \in Deps(p)
      PROVE  /\ p \in known /\ q \in Paths
             /\ p \notin dependents[q] => DOMAIN rec[q].d = {}
  <2>1. p \notin dirty \cup late'
    BY <1>2, <1>3, <1>8, AncestryIs DEF Good
  <2>2. source[p] # Gone
    BY DEF Deps, DepsOf
  <2>3. p \in known
    BY <1>1, <1>2, <2>1, <2>2 DEF Recorded
  <2> QED
    BY <1>1, <1>2, <2>1, <2>3, DepsAreOthers DEF Deps
<1>9. FollowsOk'
  <2> SUFFICES ASSUME NEW p \in Paths, Good(p)', NEW q \in Deps(p) PROVE InHand(p, q)'
    BY <1>3 DEF FollowsOk
  <2>1. queue'[p] = 1
    BY <1>1, <1>8
  <2> QED
    BY <2>1 DEF InHand
<1>10. RightOk'
  <2> SUFFICES ASSUME NEW p \in Paths, Good(p)', NEW q \in Deps(p), p \notin dependents[q]
               PROVE  ReadRight(p, q)' /\ \A x \in Ancestry(source, q) : Right(x)'
    BY <1>1, <1>3 DEF RightOk
  <2>1. \A s \in Slots : /\ task'[s].pc = "free" /\ ~DoneWell(s)'
                         /\ task'[s].full = <<>> /\ DOMAIN task'[s].full = {}
    BY <1>1, <1>2 DEF NoTask, DoneWell
  <2>2. ReadRight(p, q)'
    BY <2>1 DEF ReadRight
  <2> DEFINE Y == {x \in Ancestry(source, q) : DOMAIN rec[x].d = {}}
  <2>3. q \in Paths /\ q \in Ancestry(source, p) /\ Ancestry(source, q) \subseteq Ancestry(source, p)
        /\ Ancestry(source, q) \in SUBSET Paths /\ q \in Ancestry(source, q)
    BY <1>2, <1>8, AncestryIs DEF Deps
  <2>4. Closed(source, Y)
    <3> SUFFICES ASSUME NEW x \in Y, NEW y \in DepsOf(x, source[x]) PROVE y \in Y
      BY DEF Closed
    <3>1. x \in Paths /\ y \in Ancestry(source, q) /\ y \in Deps(x)
      BY <1>2, <2>3, AncestryIs DEF Closed, Deps
    <3>2. Good(x)'
      <4>1. Ancestry(source, x) \subseteq Ancestry(source, p)
        BY <1>2, <2>3, AncestryIs
      <4> QED
        BY <1>3, <4>1 DEF Good
    <3>3. x \notin dependents[y]
      BY <1>1, <1>2, <2>3, <3>1 DEF Recorded, EdgesOk
    <3> QED
      BY <1>8, <3>1, <3>2, <3>3
  <2>5. q \in Y /\ Y \in SUBSET Paths
    BY <1>8, <2>3
  <2>6. Ancestry(source, q) \subseteq Y
    <3> HIDE DEF Y
    <3> QED
      BY <1>2, <2>3, <2>4, <2>5, AncestryIs
  <2>7. ASSUME NEW x \in Ancestry(source, q) PROVE Right(x)'
    <3>1. x \in Paths /\ DOMAIN rec[x].d = {}
      BY <2>3, <2>6
    <3>2. ASSUME Makeable(x), rec[x].c = source[x] PROVE rec[x] = Built(source)[x]
      <4>1. source[x] \in Contents /\ rec[x] # NoFile
        BY <1>2, <3>1, <3>2, Revisions DEF Makeable
      <4>2. Proper(x, rec[x])
        BY <1>2, <3>1, <3>2, <4>1, Revisions DEF Recorded, PathFits, Makeable, ZERO
      <4>3. IsFun(rec[x].d) /\ DOMAIN rec[x].d = Deps(x) /\ rec[x] = Rev(source[x], rec[x].d)
        BY <3>2, <4>2 DEF Proper, Deps
      <4>4. \A y \in Deps(x) : rec[x].d[y] = Built(source)[y] /\ Built(source)[y] # NoFile
        BY <3>1, <4>3
      <4> QED
        BY <1>2, <3>1, <3>2, <4>3, <4>4, BuiltAs
    <3> QED
      BY <1>1, <1>2, <1>3, <2>1, <3>1, <3>2, Actors DEF Right
  <2> QED
    BY <2>2, <2>7
<1> QED
  BY <1>4, <1>5, <1>6, <1>7, <1>9, <1>10 DEF LInv

LEMMA EndPassInLine ==
    ASSUME IInv, LInv, EndPass
    PROVE  LInv'
<1>1. /\ phase = "pass" /\ phase' = "over"
      /\ (\A p \in Paths : queue[p] = 0) /\ (\A s \in Slots : task[s].pc = "free")
      /\ UNCHANGED <<source, bytes, meta, known, rec, status, dependents, queue, task, rd,
                     dirty, broken, late, lost>>
  BY DEF EndPass, disk, index, history
<1>2. /\ \A p : Good(p)' = Good(p) /\ Deps(p)' = Deps(p) /\ Busy(p)' = Busy(p)
      /\ \A p : Ancestry(source, p)' = Ancestry(source, p) /\ Makeable(p)' = Makeable(p)
      /\ \A s : DoneWell(s)' = DoneWell(s) /\ Making(s)' = Making(s)
      /\ Up' = Up /\ Built(source)' = Built(source)
  BY <1>1, GoodStays DEF Good, Busy, DoneWell, Making, Up
<1>3. RecordsOk' /\ EdgesOk' /\ FirstOk'
  BY <1>1, <1>2 DEF LInv, RecordsOk, PathFits, TaskFits, Usable, EdgesOk, FirstOk
<1>4. TurnsOk'
  BY <1>1 DEF LInv, TurnsOk
<1>5. TellsOk'
  BY <1>1, <1>2 DEF LInv, TellsOk, StatusTells, TaskTells, Past
<1>6. FollowsOk'
  <2>1. \A p, q : (Settling(q)' <=> Settling(q)) /\ (InHand(p, q)' <=> InHand(p, q))
    BY <1>1, <1>2 DEF Settling, InHand, ToRead, HasRead, Current, Astray
  <2> QED
    BY <1>1, <1>2, <2>1 DEF LInv, FollowsOk
<1>7. RightOk'
  <2>1. \A p, q : (ReadRight(p, q)' <=> ReadRight(p, q)) /\ (Right(q)' <=> Right(q))
    BY <1>1, <1>2 DEF ReadRight, Right
  <2> QED
    BY <1>1, <1>2, <2>1 DEF LInv, RightOk
<1> QED
  BY <1>3, <1>4, <1>5, <1>6, <1>7 DEF LInv

\* An edit concerns only what reaches the edited asset, which is not good any more.
LEMMA EditInLine ==
    ASSUME IInv, IInv', LInv, NEW e \in Paths, NEW c \in Contents \cup {Gone}, Edit(e, c)
    PROVE  LInv'
<1>1. /\ source' = [source EXCEPT ![e] = c]
      /\ UNCHANGED <<bytes, meta, phase, known, rec, status, dependents, queue, task, rd,
                     broken, late, lost>>
      /\ source \in [Paths -> Contents \cup {Gone}] /\ source' \in [Paths -> Contents \cup {Gone}]
  BY Parts DEF Edit, run, index, TypeOK
<1>2. CASE phase \in {"off", "opened", "scan"}
  <2>1. Recorded
    BY <1>2, LineRecorded
  <2>2. phase = "scan" => dirty' = dirty \cup {e}
    BY DEF Edit
  <2>3. Recorded'
    BY <1>1, <2>1, <2>2 DEF Recorded, EdgesOk, PathFits, Usable
  <2>4. (IInv /\ Recorded)' => LInv'
    BY RecordedInLine, PTL
  <2> QED
    BY <2>3, <2>4
<1>3. CASE phase \in {"pass", "over"}
  <2>1. dirty' = dirty \cup {e}
    BY <1>3 DEF Edit
  <2>2. /\ \A p \in Paths \ {e} : source'[p] = source[p] /\ Makeable(p)' = Makeable(p)
        /\ \A p : Busy(p)' = Busy(p)
        /\ \A s : DoneWell(s)' = DoneWell(s) /\ Making(s)' = Making(s)
        /\ Up' = Up
    BY <1>1 DEF Makeable, Busy, DoneWell, Making, Up
  <2>3. ASSUME NEW p \in Paths, Good(p)'
        PROVE  /\ Good(p) /\ Ancestry(source', p) = Ancestry(source, p) /\ e \notin Ancestry(source, p)
               /\ p # e /\ Deps(p)' = Deps(p)
               /\ \A x \in Ancestry(source, p) : Built(source')[x] = Built(source)[x]
    <3>1. e \notin Ancestry(source', p)
      BY <2>1, <2>3 DEF Good
    <3>2. Ancestry(source', p) \in SUBSET Paths /\ p \in Ancestry(source', p)
      BY <1>1, AncestryIs
    <3>3. \A x \in Ancestry(source', p) : source[x] = source'[x]
      BY <2>2, <3>1, <3>2
    <3>4. Ancestry(source, p) = Ancestry(source', p)
      BY <1>1, <3>3, AncestrySame
    <3>5. Good(p)
      BY <1>1, <2>1, <2>3, <3>4 DEF Good
    <3>6. \A x \in Ancestry(source, p) : Built(source')[x] = Built(source)[x]
      <4>1. \A x \in Ancestry(source', p) : Built(source)[x] = Built(source')[x]
        BY <1>1, <3>3, BuiltSameAt
      <4> QED
        BY <3>4, <4>1
    <3> QED
      BY <2>2, <3>1, <3>2, <3>4, <3>5, <3>6 DEF Deps
  <2>4. RecordsOk' /\ EdgesOk' /\ FirstOk'
    <3>1. RecordsOk'
      BY <1>1, <2>2 DEF LInv, RecordsOk, PathFits, TaskFits, Usable
    <3>2. EdgesOk' /\ FirstOk'
      BY <1>1, <2>2 DEF LInv, EdgesOk, FirstOk
    <3> QED
      BY <3>1, <3>2
  <2>5. TurnsOk'
    <3>1. \A p \in Paths : source'[p] # Gone /\ p \notin dirty' => p \in known
      BY <1>3, <2>1, <2>2 DEF LInv, TurnsOk
    <3> QED
      BY <1>1, <3>1 DEF LInv, TurnsOk
  <2>6. TellsOk'
    <3>1. ASSUME NEW p \in Paths \ {e}, StatusTells(p) PROVE StatusTells(p)'
      BY <1>1, <2>2, <3>1 DEF StatusTells, Past
    <3>2. ASSUME NEW s \in Slots, s[1] # e, TaskTells(s) PROVE TaskTells(s)'
      <4>1. s[1] \in Paths
        BY Actors
      <4> QED
        BY <1>1, <2>2, <3>2, <4>1 DEF TaskTells
    <3> QED
      BY <1>1, <2>1, <3>1, <3>2 DEF LInv, TellsOk
  <2>7. FollowsOk'
    <3>1. \A p, q : (Settling(q)' <=> Settling(q)) /\ (InHand(p, q)' <=> InHand(p, q))
      BY <1>1, <2>2 DEF Settling, InHand, ToRead, HasRead, Current, Astray
    <3> QED
      BY <1>1, <2>2, <2>3, <3>1 DEF LInv, FollowsOk
  <2>8. RightOk'
    <3> SUFFICES ASSUME Up, NEW p \in Paths, Good(p)', NEW q \in Deps(p), p \notin dependents[q]
                 PROVE  ReadRight(p, q)' /\ \A x \in Ancestry(source', q) : Right(x)'
      BY <1>1, <2>2, <2>3 DEF RightOk
    <3>1. /\ Good(p) /\ q \in Paths /\ q \in Ancestry(source, p)
          /\ Ancestry(source, q) \subseteq Ancestry(source, p) /\ e \notin Ancestry(source, p)
          /\ \A x \in Ancestry(source, p) : Built(source')[x] = Built(source)[x]
      BY <1>1, <2>3, GoodDeps
    <3>2. ReadRight(p, q) /\ \A x \in Ancestry(source, q) : Right(x)
      BY <3>1 DEF LInv, RightOk
    <3>3. ReadRight(p, q)'
      BY <1>1, <2>2, <3>1, <3>2 DEF ReadRight
    <3>4. Ancestry(source', q) = Ancestry(source, q)
      <4>1. \A x \in Ancestry(source, q) : source'[x] = source[x]
        BY <1>1, <2>2, <3>1, AncestryIs
      <4>2. /\ source \in [Paths -> Contents \cup {Gone}] /\ q \in Paths
            /\ source' \in [Paths -> Contents \cup {Gone}]
        BY <1>1, <3>1
      <4> QED
        BY <4>1, <4>2, AncestrySame
    <3>5. ASSUME NEW x \in Ancestry(source, q) PROVE Right(x)'
      <4>1. x \in Paths /\ x # e /\ x \in Ancestry(source, p) /\ Right(x)
        BY <1>1, <3>1, <3>2, <3>5, AncestryIs
      <4>2. Deps(x)' = Deps(x) /\ Makeable(x)' = Makeable(x) /\ source'[x] = source[x]
        BY <2>2, <4>1 DEF Deps
      <4>3. \A y \in Deps(x) : y \in Ancestry(source, p)
        BY <1>1, <4>1, AncestryIs DEF Closed, Deps
      <4>4. /\ Built(source')[x] = Built(source)[x]
            /\ \A y \in Deps(x) : Built(source')[y] = Built(source)[y]
        BY <3>1, <4>1, <4>3
      <4> QED
        BY <1>1, <2>2, <4>1, <4>2, <4>4 DEF Right
    <3> QED
      BY <3>3, <3>4, <3>5
  <2> QED
    BY <2>4, <2>5, <2>6, <2>7, <2>8 DEF LInv
<1> QED
  BY <1>2, <1>3, Parts DEF TypeOK

LEMMA NextInLine == LInv /\ IInv /\ IInv' /\ [Next]_vars => LInv'
<1> SUFFICES ASSUME LInv, IInv, IInv', [Next]_vars PROVE LInv'
  OBVIOUS
<1>1. CASE OpenLog \/ Register \/ (\E p \in Paths : Sync(p)) \/ Stop
  BY <1>1, EarlyInLine
<1>2. CASE StartPass \/ EndPass
  BY <1>2, StartPassInLine, EndPassInLine
<1>3. CASE \/ \E g \in Agents : Reading(g)
           \/ \E r \in Readers : WithoutMeta(r) \/ Loaded(r)
           \/ \E r \in Readers, p \in Paths : Load(r, p)
           \/ \E s \in Slots, q \in Paths : Ask(s, q)
  BY <1>3, ReadersInLine
<1>4. ASSUME NEW s \in Slots,
             \/ Examine(s) \/ SetBit(s) \/ Start(s) \/ Open(s) \/ Got(s) \/ Write(s)
             \/ OpenMeta(s) \/ WriteMeta(s) \/ Finish(s) \/ Vanished(s) \/ FailToLoad(s)
             \/ Unreadable(s) \/ Fail(s)
      PROVE  LInv'
  BY <1>4, ExamineInLine, UnreadableInLine, SetBitInLine, StartInLine, OpenInLine, GotInLine, WritesInLine,
     FinishInLine, QuitInLine
<1>5. ASSUME NEW s \in Slots, FinishProcessing(s) PROVE LInv'
  <2>1. RecordsOk' /\ EdgesOk' /\ TurnsOk' /\ FirstOk'
    BY <1>5, RecordKeepsRecords
  <2>2. TellsOk' /\ FollowsOk' /\ RightOk'
    BY <1>5, RecordKeepsTells, RecordFollows, RecordRight
  <2> QED
    BY <2>1, <2>2 DEF LInv
<1>6. ASSUME NEW p \in Paths, NEW c \in Contents \cup {Gone}, Edit(p, c) PROVE LInv'
  BY <1>6, EditInLine
<1>7. CASE UNCHANGED vars
  <2>1. /\ UNCHANGED <<source, bytes, meta, phase, known, rec, status, dependents, queue, task,
                       dirty, broken, late, lost>>
        /\ rd' = rd
    BY <1>7 DEF vars, disk, run, index, history
  <2>2. \A g \in Agents, p \in Paths : Past(g, p)' => Past(g, p) \/ status[p] = "processed"
    BY <2>1 DEF Past
  <2> QED
    BY <2>1, <2>2, ReadsInLine
<1> QED
  BY <1>1, <1>2, <1>3, <1>4, <1>5, <1>6, <1>7 DEF Next, Work

\* What a run that is over leaves of an asset that is settled.
LEMMA AtTheEnd ==
    ASSUME IInv, LInv, phase = "over", ~lost, NEW p \in Paths, Settled(p),
           Built(source)[p] # NoFile
    PROVE  /\ status[p] = "processed" /\ ~Busy(p) /\ p \notin broken /\ Makeable(p)
           /\ Proper(p, meta[p]) /\ meta[p].c = source[p]
           /\ \A q \in Deps(p) : /\ q \in Paths /\ Settled(q) /\ Built(source)[q] # NoFile
                                 /\ meta[p].d[q] = meta[q]
<1>1. /\ source \in [Paths -> Contents \cup {Gone}] /\ queue \in [Paths -> Nat]
      /\ status[p] \in {None, "processed", "failed"}
      /\ (\A x \in Paths : queue[x] = 0) /\ (\A s \in Slots : task[s].pc = "free")
      /\ PathFits(p)
  BY Parts DEF TypeOK, LInv, TurnsOk, RecordsOk
<1>2. /\ p \in Ancestry(source, p) /\ p \notin dirty \cup broken /\ Good(p) /\ rec[p] = meta[p]
      /\ \A q \in Deps(p) : q \in Paths /\ Settled(q) /\ rec[q] = meta[q]
  <2>1. /\ p \in Ancestry(source, p) /\ Good(p)
        /\ \A q \in Ancestry(source, p) : rec[q] = meta[q]
    BY <1>1, AncestryIs DEF Settled, Good, Overtaken
  <2>2. ASSUME NEW q \in Deps(p) PROVE q \in Paths /\ Settled(q) /\ rec[q] = meta[q]
    <3>1. q \in Paths /\ q \in Ancestry(source, p) /\ Ancestry(source, q) \subseteq Ancestry(source, p)
      BY <1>1, AncestryIs DEF Deps
    <3> QED
      BY <2>1, <3>1 DEF Settled
  <2> QED
    BY <2>1, <2>2 DEF Good
<1>3. Makeable(p) /\ \A q \in Deps(p) : Built(source)[q] # NoFile
  <2>1. Built(source) = [x \in Paths |-> MadeFrom(source, x, Built(source))]
    BY <1>1, BuiltIs
  <2>2. Built(source)[p] = MadeFrom(source, p, Built(source))
    BY <2>1, Zenon
  <2> QED
    BY <2>2 DEF MadeFrom, Makeable, Deps
<1>4. status[p] = "processed" /\ rec[p].c = source[p]
  <2>1. p \in known
    BY <1>2, <1>3 DEF Makeable, LInv, TurnsOk
  <2>2. status[p] # None
    BY <1>1, <2>1 DEF LInv, TurnsOk
  <2>3. StatusTells(p)
    BY <1>2 DEF LInv, TellsOk
  <2> QED
    BY <1>1, <1>3, <2>2, <2>3 DEF StatusTells
<1>5. Proper(p, meta[p])
  <2>1. rec[p] \notin {NoFile, ZERO}
    BY <1>1, <1>3, <1>4, Revisions DEF Makeable, ZERO
  <2> QED
    BY <1>1, <1>2, <2>1 DEF PathFits
<1>6. ~Busy(p) /\ \A s \in Slots : ~DoneWell(s)
  BY <1>1 DEF Busy, Writes, DoneWell
<1>7. ASSUME NEW q \in Deps(p) PROVE meta[p].d[q] = meta[q]
  <2>1. p \in dependents[q]
    BY <1>2, <1>4, <1>5 DEF LInv, EdgesOk, Proper, Deps
  <2>2. Settling(q) \/ InHand(p, q)
    BY <1>2, <2>1 DEF LInv, FollowsOk, Up
  <2>3. ~Settling(q) /\ ~ToRead(p, q) /\ ~HasRead(p, q) /\ ~Astray(p)
    BY <1>1, <1>2, <1>6 DEF Settling, ToRead, HasRead, Astray, Writes
  <2> QED
    BY <1>1, <2>2, <2>3 DEF InHand, Current
<1> QED
  BY <1>2, <1>3, <1>4, <1>5, <1>6, <1>7

\* What is under way is what processing everything gives, from the first of the ancestry on.
LEMMA AllBuilt ==
    ASSUME IInv, LInv, phase = "over", ~lost
    PROVE  \A p \in Paths : Settled(p) /\ Built(source)[p] # NoFile => meta[p] = Built(source)[p]
<1>1. PICK rank \in [Paths -> 1 .. Cardinality(Paths)] :
           \A p \in Paths : \A c \in Contents : \A q \in Reads[p][c] : rank[q] < rank[p]
  BY ReadsAcyclic
<1>2. Cardinality(Paths) \in Nat /\ source \in [Paths -> Contents \cup {Gone}]
  BY ImporterAssumption, FS_CardinalityType, Parts DEF TypeOK
<1> DEFINE Off(p) == Settled(p) /\ Built(source)[p] # NoFile /\ meta[p] # Built(source)[p]
           Bad == {n \in Nat : \E p \in Paths : rank[p] = n /\ Off(p)}
<1>3. Bad = {}
  <2> SUFFICES ASSUME Bad # {} PROVE FALSE
    OBVIOUS
  <2>1. PICK n \in Bad : \A m \in Bad : n <= m
    <3>1. Bad \in SUBSET Nat
      OBVIOUS
    <3> HIDE DEF Bad
    <3> QED
      BY <3>1, Least
  <2>2. PICK p \in Paths : rank[p] = n /\ Off(p)
    BY <2>1
  <2>3. /\ Makeable(p) /\ Proper(p, meta[p]) /\ meta[p].c = source[p]
        /\ \A q \in Deps(p) : /\ q \in Paths /\ Settled(q) /\ Built(source)[q] # NoFile
                              /\ meta[p].d[q] = meta[q]
    <3> HIDE DEF Bad
    <3> QED
      BY <2>2, AtTheEnd
  <2>4. ASSUME NEW q \in Deps(p) PROVE meta[q] = Built(source)[q]
    <3>1. q \in Paths /\ Settled(q) /\ Built(source)[q] # NoFile
      BY <2>3
    <3>2. rank[q] < rank[p] /\ rank[q] \in Nat
      BY <1>1, <1>2, <3>1 DEF Deps, DepsOf
    <3>3. rank[q] \notin Bad
      <4> HIDE DEF Bad
      <4> QED
        BY <2>1, <2>2, <3>2
    <3> HIDE DEF Settled
    <3> QED
      BY <3>1, <3>2, <3>3
  <2>5. meta[p] = Rev(source[p], meta[p].d) /\ IsFun(meta[p].d) /\ DOMAIN meta[p].d = Deps(p)
    BY <2>3 DEF Proper, Deps
  <2>6. Rev(source[p], meta[p].d) = Built(source)[p]
    <3> HIDE DEF Bad
    <3>1. \A q \in Deps(p) : meta[p].d[q] = Built(source)[q] /\ Built(source)[q] # NoFile
      BY <2>3, <2>4
    <3> QED
      BY <1>2, <2>3, <2>5, <3>1, BuiltAs
  <2> QED
    BY <2>2, <2>5, <2>6
<1> SUFFICES ASSUME NEW p \in Paths, Off(p) PROVE FALSE
  OBVIOUS
<1>4. rank[p] \in Nat
  BY <1>1, <1>2
<1>5. rank[p] \in Bad
  BY <1>4
<1> QED
  BY <1>3, <1>5

\* The invariant behind InLine.
THEOREM ImporterLine == Spec => []LInv
  BY ImporterInvariant, InitInLine, NextInLine, PTL DEF Spec

\* When a run is over, every asset that can be made and is settled is processed, and its
\* output is what processing everything from scratch gives (InLine): where the index has the
\* edge from an asset to what it reads, the record of what it reads queues it again; where it
\* has not, what it reads was right before it could be read.  Nothing is said of what this
\* run's edits, failures and unreadable sources reach, nor of what reaches an asset that the
\* scan found to read, unrecorded, one that is made from others, that was found up to date
\* while another task made it, or whose records came in the wrong order (Settled); nor, once
\* a run that trusted nothing has left a file as it was, of any run (lost).
THEOREM ImporterInLine == Spec => []InLine
<1>1. ASSUME IInv, LInv PROVE InLine
  <2> SUFFICES ASSUME phase = "over", ~lost, NEW p \in Paths, Built(source)[p] # NoFile, Settled(p)
               PROVE  /\ status[p] = "processed" /\ meta[p] = Built(source)[p]
                      /\ bytes[p] = Built(source)[p] \/ mingled
    BY DEF InLine
  <2>1. status[p] = "processed" /\ ~Busy(p) /\ p \notin broken
    BY <1>1, AtTheEnd
  <2>2. meta[p] = Built(source)[p]
    BY <1>1, AllBuilt
  <2>3. Made(p)
    BY <1>1, <2>1, Parts DEF GateOk
  <2> QED
    BY <2>1, <2>2, <2>3 DEF Made, Excused, Whole, Sound
<1> QED
  BY <1>1, ImporterInvariant, ImporterLine, PTL
=============================================================================
