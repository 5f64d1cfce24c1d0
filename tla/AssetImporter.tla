--------------------------- MODULE AssetImporter ---------------------------
(***************************************************************************)
(* The asset importer (zlim-asset, src/processor): runs that bring the     *)
(* processed side of an asset source in line with its source side.  A run  *)
(* validates the transaction log of the one before it, scans both sides    *)
(* and gives every asset a task of its own; a task whose processor reads   *)
(* another asset waits at the processed-side gate for that asset's result. *)
(* Applications load processed assets through the same gate all the while. *)
(* The process may crash at any point and is started again; every process  *)
(* makes one run.  Sources are edited at any time.                         *)
(*                                                                         *)
(* Data.  The content of a source file is a number, and decides which      *)
(* assets its processor reads.  A revision of an output is its content and *)
(* the revisions it was made from.  Hashes are taken to be injective, so   *)
(* the ProcessedInfo of an output (hash, full_hash and dependencies) is a  *)
(* revision too; what the bytes are made from and what the .meta records   *)
(* are kept apart.  The log is kept as what validate_transaction computes  *)
(* from it.  The maps infos.dependents and non_existent_dependents are one *)
(* function.  async_lock, async_broadcast and the file system are external.*)
(* The transaction log can always be written, and files be removed: where  *)
(* they cannot the code says so in its own log and goes on.                *)
(* The last five variables are history, for the properties.                *)
(***************************************************************************)
EXTENDS Integers, FiniteSets

CONSTANTS
    Paths,       \* the assets of the source
    Kind,        \* what their .meta asks for: "process", "copy" or "ignore"
    MaxContent,  \* contents are 1 .. MaxContent
    Reads,       \* the assets the processor reads, by path and content
    Trees,       \* bound: the source trees to start from
    OldTrees,    \* bound: the source trees an earlier run may have seen
    Readers,     \* applications that load processed assets
    Dup,         \* bound: tasks under way for one asset
    MaxRuns,     \* bound: runs
    MaxEvents,   \* bound: edits, crashes, failures and loads
    None         \* nobody, and nothing yet

Gone == 0
Contents == 1 .. MaxContent
Slots == Paths \X (1 .. Dup)
Agents == Slots \cup Readers

ASSUME ImporterAssumption ==
    /\ IsFiniteSet(Paths) /\ Kind \in [Paths -> {"process", "copy", "ignore"}]
    /\ Reads \in [Paths -> [Contents -> SUBSET Paths]]
    /\ Trees \cup OldTrees \subseteq [Paths -> Contents \cup {Gone}]
    /\ {MaxContent, Dup, MaxRuns, MaxEvents} \subseteq Nat
    /\ Readers \cap Slots = {} /\ None \notin Paths \cup Slots \cup {"processed", "failed", "missing"}

\* No asset is made from itself: the processors of a cycle wait for one another.
ASSUME ReadsAcyclic ==
    \E rank \in [Paths -> 1 .. Cardinality(Paths)] :
        \A p \in Paths : \A c \in Contents : \A q \in Reads[p][c] : rank[q] < rank[p]

VARIABLES
    source,     \* disk: the source files
    bytes,      \* disk: the processed files
    meta,       \* disk: the .meta next to them
    log,        \* disk: the transactions that are open, and whether an entry is out of place
    phase,      \* what the run is doing
    skip,       \* skip_up_to_date
    unsynced,   \* processed files the scan has still to look at
    known,      \* infos: the assets with an entry
    rec,        \* infos: processed_info
    status,     \* infos: status
    dependents, \* infos: dependents, or non_existent_dependents
    queue,      \* how often an asset is queued
    task,       \* the tasks of the pass
    writer,     \* file_transaction_lock: the task that has set the writer bit
    rd,         \* what an agent reads through the gate
    runs,       \* how many runs were started
    events,     \* how many edits, crashes, failures and loads there were
    dirty,      \* sources edited since they were listed, or that could not be read
    broken,     \* assets a task of this run gave up on, or made from such an asset
    late,       \* assets the scan of this run found to read one that is made from others,
                \* unrecorded, and those found up to date while another task made them
    mingled,    \* an asset was edited while it was copied
    lost        \* a run that trusted nothing left a file as it was

disk == <<source, bytes, meta, log>>
run == <<phase, skip, unsynced>>
index == <<known, rec, status, dependents>>
history == <<dirty, broken, late, mingled, lost>>
bounds == <<runs, events>>
vars == <<disk, run, index, queue, task, writer, rd, bounds, history>>

-----------------------------------------------------------------------------
Rev(c, d) == [c |-> c, d |-> d]
ZERO == Rev(Gone, <<>>)

\* In place of a revision: no file or record, and a file that is half written.
NoFile == Rev(-1, <<>>)
Torn == Rev(-2, <<>>)

DepsOf(p, c) == IF Kind[p] = "process" /\ c # Gone THEN Reads[p][c] ELSE {}

\* What processing an asset gives, when b is what the others gave, ...
MadeFrom(src, p, b) ==
    LET deps == DepsOf(p, src[p])
    IN IF src[p] = Gone \/ Kind[p] = "ignore" \/ \E q \in deps : b[q] = NoFile THEN NoFile
       ELSE Rev(src[p], [q \in deps |-> b[q]])

\* ... and what processing everything from scratch gives.
Built(src) == LET b[p \in Paths] == MadeFrom(src, p, b) IN b

NoTask == [pc |-> "free", hash |-> Gone, c |-> Gone, todo |-> {}, out |-> <<>>,
           full |-> <<>>, res |-> None]
NoRead == [q |-> None, at |-> "idle", waiting |-> FALSE, heard |-> None]

\* Every asset, slot or agent mapped to v.
All(S, v) == [x \in S |-> v]

\* The processed side is what an earlier run made of other sources, possibly none.
Init ==
    /\ source \in Trees
    /\ \E old \in OldTrees : bytes = Built(old)
    /\ meta = bytes
    /\ log = [open |-> {}, bad |-> FALSE]
    /\ phase = "off" /\ skip = TRUE /\ unsynced = {} /\ known = {}
    /\ rec = All(Paths, NoFile) /\ status = All(Paths, None) /\ dependents = All(Paths, {})
    /\ queue = All(Paths, 0) /\ writer = All(Paths, None)
    /\ task = All(Slots, NoTask) /\ rd = All(Agents, NoRead)
    /\ dirty = {} /\ broken = {} /\ late = {} /\ mingled = FALSE /\ lost = FALSE
    /\ runs = 0 /\ events = 0

Happens == events < MaxEvents /\ events' = events + 1 /\ UNCHANGED runs

-----------------------------------------------------------------------------
(***************************************************************************)
(* A run up to its pass: open_transaction_log and initialize.              *)
(***************************************************************************)

\* Mutant of Validates: a start without a finish passes.
ValidatesOpen == ~log.bad

\* validate_transaction.
Validates == ~log.bad /\ log.open = {}

\* AssetProcessServer::run: the log is validated, and replaced by an empty one.
OpenLog ==
    /\ phase = "off" /\ runs < MaxRuns /\ runs' = runs + 1 /\ UNCHANGED events
    /\ skip' = Validates
    /\ log' = [open |-> {}, bad |-> FALSE]
    /\ phase' = "opened"
    /\ UNCHANGED <<source, bytes, meta, index, unsynced, queue, task, writer, rd, history>>

\* collect_paths and register_paths; sync_processed_side up to its listing of the
\* processed side.
Register ==
    /\ phase = "opened"
    /\ known' = {p \in Paths : source[p] # Gone}
    /\ unsynced' = {p \in Paths : bytes[p] # NoFile}
    /\ phase' = "scan"
    /\ UNCHANGED <<disk, rec, status, dependents, skip, queue, task, writer, rd, bounds,
                   history>>

\* ProcessorAssetInfos::record.
Record(p, r) ==
    /\ rec' = [rec EXCEPT ![p] = r]
    /\ dependents' = [q \in Paths |->
          (dependents[q] \ IF q \in DOMAIN rec[p].d THEN {p} ELSE {})
              \cup IF q \in DOMAIN r.d THEN {p} ELSE {}]

\* processed_output_of: the .meta can be read.
Usable(p) == meta[p] \notin {NoFile, Torn}

\* remove_processed_asset_and_meta: the bytes go, and then the .meta.
RemoveBytes(p) ==
    /\ bytes[p] # NoFile
    /\ bytes' = [bytes EXCEPT ![p] = NoFile]
    /\ UNCHANGED <<meta, unsynced>>

RemoveMeta(p) ==
    /\ bytes[p] = NoFile
    /\ meta' = [meta EXCEPT ![p] = NoFile]
    /\ unsynced' = unsynced \ {p}
    /\ UNCHANGED bytes

\* One processed file in sync_processed_side: forget_processed_asset where the source
\* is gone (the index has no entry), discard_processed_pair, or record.  Nobody is past
\* the gate yet, so the locks are free.
Sync(p) ==
    /\ phase = "scan" /\ p \in unsynced
    /\ \/ /\ p \notin known \/ ~Usable(p) \/ bytes[p] = NoFile
          /\ RemoveBytes(p) \/ RemoveMeta(p)
          /\ UNCHANGED <<rec, dependents>>
       \/ /\ p \in known /\ Usable(p) /\ bytes[p] # NoFile
          /\ Record(p, meta[p])
          /\ unsynced' = unsynced \ {p}
          /\ UNCHANGED <<bytes, meta>>
    /\ UNCHANGED <<source, log, known, status, phase, skip, queue, task, writer, rd, bounds,
                   history>>

\* initialize announces Processing, and process_paths queues what was registered.
StartPass ==
    /\ phase = "scan" /\ unsynced = {}
    /\ phase' = "pass"
    /\ queue' = [p \in Paths |-> IF p \in known THEN 1 ELSE 0]
    /\ late' = late \cup {p \in known : \E q \in DepsOf(p, source[p]) :
                    p \notin dependents[q] /\ DOMAIN rec[q].d # {}}
    /\ UNCHANGED <<disk, index, skip, unsynced, task, writer, rd, bounds, dirty, broken,
                   mingled, lost>>

-----------------------------------------------------------------------------
(***************************************************************************)
(* Reading through the gate: ProcessorGatedReader::read and read_meta, one *)
(* after the other, the first reader being kept while the second is got    *)
(* (LoadContext::rdbytes_impl, get_meta_loader_and_reader).  "gate3" and   *)
(* "lock3" are those of a load that found no .meta and has no first reader.*)
(***************************************************************************)

BeginRead(g, q) == [rd EXCEPT ![g] = [NoRead EXCEPT !.q = q, !.at = "gate1"]]

Started == phase \in {"pass", "over"}
AtGate(g) == rd[g].at \in {"gate1", "gate2", "gate3"} /\ Started
AtLock(g) == rd[g].at \in {"lock1", "lock2", "lock3"}

\* The lock behind each gate, and what comes after each lock.
LockOf(gate) ==
    CASE gate = "gate1" -> "lock1" [] gate = "gate2" -> "lock2" [] gate = "gate3" -> "lock3"
AfterLock(lock) == IF lock = "lock1" THEN "gate2" ELSE "held"

\* ProcessingState::wait_until_processed, past wait_until_initialized: an asset that
\* has no status is waited for.
Gate(g) ==
    /\ AtGate(g) /\ rd[g].q \in known /\ status[rd[g].q] = None /\ ~rd[g].waiting
    /\ rd' = [rd EXCEPT ![g].waiting = TRUE]

\* What it answers, None for not yet.
Answer(g) ==
    IF rd[g].waiting THEN rd[g].heard
    ELSE IF rd[g].q \notin known THEN "missing" ELSE status[rd[g].q]

PassGate(g) ==
    /\ AtGate(g) /\ Answer(g) = "processed"
    /\ rd' = [rd EXCEPT ![g].at = LockOf(@),
                        ![g].waiting = FALSE, ![g].heard = None]

\* Mutant of ReadLock: a read does not respect the lock.
ReadLockBlind(g) ==
    /\ AtLock(g)
    /\ rd' = [rd EXCEPT ![g].at = AfterLock(@)]

\* ProcessingState::transaction_lock: a writer that waits keeps new readers out.
ReadLock(g) ==
    /\ AtLock(g) /\ writer[rd[g].q] = None
    /\ rd' = [rd EXCEPT ![g].at = AfterLock(@)]

\* ProcessorGatedReader::wait_for: a failed or unknown asset is NotFound.
NotFound(g) == AtGate(g) /\ Answer(g) \in {"failed", "missing"}

\* The first lock is kept until the read is over.
Holds(g, p) == rd[g].q = p /\ rd[g].at \in {"gate2", "lock2", "held"}
Unread(p) == \A g \in Agents : ~Holds(g, p)

Reading(g) ==
    /\ Gate(g) \/ PassGate(g) \/ ReadLock(g)
    /\ UNCHANGED <<disk, run, index, queue, task, writer, bounds, history>>

\* An application loads p: the .meta names the loader, then the bytes are read.  A load
\* that comes earlier waits for the start and is the same.
Load(r, p) ==
    /\ Started /\ rd[r].at = "idle" /\ Happens
    /\ rd' = BeginRead(r, p)
    /\ UNCHANGED <<disk, run, index, queue, task, writer, history>>

\* Without a .meta the default loader reads the bytes, through the gate again.
WithoutMeta(r) ==
    /\ rd[r].at = "gate1" /\ NotFound(r)
    /\ rd' = [rd EXCEPT ![r] = [NoRead EXCEPT !.q = rd[r].q, !.at = "gate3"]]
    /\ UNCHANGED <<disk, run, index, queue, task, writer, bounds, history>>

Loaded(r) ==
    /\ rd[r].at = "held" \/ (rd[r].at # "gate1" /\ NotFound(r))
    /\ rd' = [rd EXCEPT ![r] = NoRead]
    /\ UNCHANGED <<disk, run, index, queue, task, writer, bounds, history>>

-----------------------------------------------------------------------------
(***************************************************************************)
(* A task of the pass: process_asset_task for slot s, of the asset s[1].   *)
(***************************************************************************)

Go(s, pc) == task' = [task EXCEPT ![s].pc = pc]
Done(s, res) == task' = [task EXCEPT ![s].pc = "done", ![s].res = res]
\* Mutant of Unlock: the guard is not dropped.
UnlockNot(p) == UNCHANGED writer

Unlock(p) == writer' = [writer EXCEPT ![p] = None]

\* ProcessorAssetInfos::is_up_to_date.
UpToDate(p, c) ==
    /\ p \in known /\ rec[p].c = c
    /\ \A q \in DOMAIN rec[p].d : rec[q] = rec[p].d[q]

\* A queued task is taken, and gets to the up-to-date check of process_asset_internal:
\* the .meta and the source are read, and the index is asked, as if at one moment.  An
\* ignored asset is recorded like one that fails.
Examine(s) ==
    LET p == s[1]
        c == source[p]
    IN
    /\ phase = "pass" /\ queue[p] > 0 /\ task[s].pc = "free"
    /\ queue' = [queue EXCEPT ![p] = @ - 1]
    /\ \/ /\ Kind[p] = "ignore" \/ c = Gone
          /\ Done(s, "failed")
       \/ /\ Kind[p] # "ignore" /\ c # Gone /\ skip /\ UpToDate(p, c) /\ Done(s, "skipped")
       \/ /\ Kind[p] # "ignore" /\ c # Gone /\ ~(skip /\ UpToDate(p, c))
          /\ task' = [task EXCEPT ![s].pc = "lock", ![s].hash = c]
    /\ late' = IF task'[s].res = "skipped" /\ \E k \in 1 .. Dup :
                      <<p, k>> # s /\ task[<<p, k>>].pc # "free"
               THEN late \cup {p} ELSE late
    /\ UNCHANGED <<disk, run, index, writer, rd, bounds, dirty, broken, mingled, lost>>

\* The .meta or the source cannot be read, or nothing is found to process it with.
Unreadable(s) ==
    LET p == s[1] IN
    /\ phase = "pass" /\ queue[p] > 0 /\ task[s].pc = "free" /\ Happens
    /\ queue' = [queue EXCEPT ![p] = @ - 1]
    /\ Done(s, "failed")
    /\ dirty' = dirty \cup {p}
    /\ UNCHANGED <<disk, run, index, writer, rd, broken, late, mingled, lost>>

\* transaction_lock_for_write: the writer bit is set, then readers are waited for.
SetBit(s) ==
    /\ task[s].pc = "lock" /\ writer[s[1]] = None
    /\ writer' = [writer EXCEPT ![s[1]] = s]
    /\ Go(s, "drain")
    /\ UNCHANGED <<disk, run, index, queue, rd, bounds, history>>

\* The lock is held: log_start.
Start(s) ==
    LET p == s[1] IN
    /\ task[s].pc = "drain" /\ Unread(p)
    /\ log' = IF p \in log.open THEN [log EXCEPT !.bad = TRUE]
              ELSE [log EXCEPT !.open = @ \cup {p}]
    /\ Go(s, "open")
    /\ UNCHANGED <<source, bytes, meta, run, index, queue, writer, rd, bounds, history>>

\* The source is read again and the output opened.  A processed asset is hashed again.
Open(s) ==
    LET p == s[1]
        c == source[p]
    IN
    /\ task[s].pc = "open" /\ c # Gone
    /\ bytes' = [bytes EXCEPT ![p] = Torn]
    /\ task' = [task EXCEPT ![s].pc = "work", ![s].c = c, ![s].todo = DepsOf(p, c),
                            ![s].hash = IF Kind[p] = "copy" THEN @ ELSE c]
    /\ UNCHANGED <<source, meta, log, run, index, queue, writer, rd, bounds, history>>

\* The processor asks for the bytes of another asset.
Ask(s, q) ==
    /\ task[s].pc = "work" /\ q \in task[s].todo /\ rd[s].at = "idle"
    /\ rd' = BeginRead(s, q)
    /\ UNCHANGED <<disk, run, index, queue, task, writer, bounds, history>>

\* rdbytes_impl has both readers: the bytes, and the full_hash of their .meta.
With(f, q, v) == [x \in DOMAIN f \cup {q} |-> IF x = q THEN v ELSE f[x]]

Got(s) ==
    LET q == rd[s].q IN
    /\ rd[s].at = "held"
    /\ task' = [task EXCEPT ![s].todo = @ \ {q}, ![s].out = With(@, q, bytes[q]),
                            ![s].full = With(@, q, meta[q])]
    /\ rd' = [rd EXCEPT ![s] = NoRead]
    /\ broken' = IF q \in broken THEN broken \cup {s[1]} ELSE broken
    /\ UNCHANGED <<disk, run, index, queue, writer, bounds, dirty, late, mingled, lost>>

\* The output is written and flushed; the .meta is opened, and written.
Write(s) ==
    LET p == s[1] IN
    /\ task[s].pc = "work" /\ task[s].todo = {}
    /\ bytes' = [bytes EXCEPT ![p] = Rev(task[s].c, task[s].out)]
    /\ Go(s, "written")
    /\ UNCHANGED <<source, meta, log, run, index, queue, writer, rd, bounds, history>>

OpenMeta(s) ==
    /\ task[s].pc = "written"
    /\ meta' = [meta EXCEPT ![s[1]] = Torn]
    /\ Go(s, "meta")
    /\ UNCHANGED <<source, bytes, log, run, index, queue, writer, rd, bounds, history>>

WriteMeta(s) ==
    /\ task[s].pc = "meta"
    /\ meta' = [meta EXCEPT ![s[1]] = Rev(task[s].hash, task[s].full)]
    /\ mingled' = (mingled \/ task[s].hash # task[s].c)
    /\ Go(s, "finish")
    /\ UNCHANGED <<source, bytes, log, run, index, queue, writer, rd, bounds, dirty, broken,
                   late, lost>>

\* log_finish; the lock is released on the way out.
Finish(s) ==
    LET p == s[1] IN
    /\ task[s].pc = "finish"
    /\ log' = [log EXCEPT !.open = @ \ {p}]
    /\ Done(s, "processed") /\ Unlock(p)
    /\ UNCHANGED <<source, bytes, meta, run, index, queue, rd, bounds, history>>

\* An error is passed on, the lock released; the transaction stays open.
GiveUp(s) ==
    /\ Done(s, "failed") /\ Unlock(s[1])
    /\ broken' = broken \cup {s[1]}
    /\ UNCHANGED <<disk, run, index, queue, rd, dirty, late, mingled, lost>>

\* The source has gone since it was hashed.
Vanished(s) == task[s].pc = "open" /\ source[s[1]] = Gone /\ GiveUp(s) /\ UNCHANGED bounds

\* A reader, a writer or the processor fails.
Fail(s) ==
    /\ task[s].pc \in {"open", "work", "written", "meta"} /\ rd[s].at = "idle"
    /\ Happens /\ GiveUp(s)

\* A dependency has no output: the loader of the asset fails.
FailToLoad(s) ==
    /\ NotFound(s)
    /\ Done(s, "unloaded") /\ Unlock(s[1])
    /\ rd' = [rd EXCEPT ![s] = NoRead]
    /\ broken' = broken \cup {s[1]}
    /\ UNCHANGED <<disk, run, index, queue, bounds, dirty, late, mingled, lost>>

-----------------------------------------------------------------------------
\* Mutant of Announce: the status is not broadcast.
AnnounceNobody(p, st) == status' = [status EXCEPT ![p] = st] /\ UNCHANGED rd

\* update_status: a receiver keeps the first status it hears, and fails on more than one.
Announce(p, st) ==
    /\ status' = [status EXCEPT ![p] = st]
    /\ rd' = [g \in Agents |->
          IF rd[g].q = p /\ rd[g].waiting
          THEN [rd[g] EXCEPT !.heard = IF @ = None THEN st ELSE "missing"] ELSE rd[g]]

\* Mutant of Requeue: dependents are not queued again.
RequeueNothing(S) == UNCHANGED queue

Requeue(S) == queue' = [q \in Paths |-> queue[q] + IF q \in S THEN 1 ELSE 0]

\* ProcessorAssetInfos::finish_processing, under the write lock of the index.
FinishProcessing(s) ==
    LET p == s[1] IN
    /\ task[s].pc = "done"
    /\ \/ /\ task[s].res = "processed"
          /\ Record(p, Rev(task[s].hash, task[s].full))
          /\ Announce(p, "processed")
          /\ Requeue(dependents'[p])
       \/ /\ task[s].res = "skipped"
          /\ Announce(p, "processed")
          /\ UNCHANGED <<rec, dependents, queue>>
       \/ /\ task[s].res = "failed"
          /\ Announce(p, "failed")
          /\ UNCHANGED <<rec, dependents, queue>>
       \/ /\ task[s].res = "unloaded"  \* record_failure: the error names the asset itself
          /\ rec' = [rec EXCEPT ![p] = ZERO]
          /\ dependents' = [dependents EXCEPT ![p] = @ \cup {p}]
          /\ Announce(p, "failed")
          /\ UNCHANGED queue
    /\ task' = [task EXCEPT ![s] = NoTask]
    /\ UNCHANGED <<disk, run, known, writer, bounds, history>>

\* execute_processing_tasks ends: nothing is queued and no task is under way.
EndPass ==
    /\ phase = "pass"
    /\ \A p \in Paths : queue[p] = 0
    /\ \A s \in Slots : task[s].pc = "free"
    /\ phase' = "over"
    /\ UNCHANGED <<disk, index, skip, unsynced, queue, task, writer, rd, bounds, history>>

-----------------------------------------------------------------------------
\* The process dies, or ends after its run: what is on disk stays.
Stop ==
    /\ phase # "off"
    /\ IF phase = "over" THEN UNCHANGED bounds ELSE Happens
    /\ lost' = \/ lost
               \/ ~skip /\ \E p \in Paths : bytes[p] # NoFile /\ status[p] # "processed"
    /\ phase' = "off" /\ skip' = TRUE /\ unsynced' = {} /\ known' = {}
    /\ rec' = All(Paths, NoFile) /\ status' = All(Paths, None) /\ dependents' = All(Paths, {})
    /\ queue' = All(Paths, 0) /\ writer' = All(Paths, None)
    /\ task' = All(Slots, NoTask) /\ rd' = All(Agents, NoRead)
    /\ dirty' = {} /\ broken' = {} /\ late' = {}
    /\ UNCHANGED <<disk, mingled>>

\* Somebody edits, adds or deletes a source file.
Edit(p, c) ==
    /\ source[p] # c /\ Happens
    /\ source' = [source EXCEPT ![p] = c]
    /\ dirty' = IF phase \in {"off", "opened"} THEN dirty ELSE dirty \cup {p}
    /\ UNCHANGED <<bytes, meta, log, run, index, queue, task, writer, rd,
                   broken, late, mingled, lost>>

\* What the process does by itself.
Work ==
    \/ OpenLog \/ Register \/ StartPass \/ EndPass
    \/ \E p \in Paths : Sync(p)
    \/ \E g \in Agents : Reading(g)
    \/ \E r \in Readers : WithoutMeta(r) \/ Loaded(r)
    \/ \E s \in Slots :
          \/ Examine(s) \/ SetBit(s) \/ Start(s) \/ Open(s) \/ Got(s) \/ Write(s)
          \/ OpenMeta(s) \/ WriteMeta(s) \/ Finish(s) \/ Vanished(s) \/ FailToLoad(s)
          \/ FinishProcessing(s)
          \/ \E q \in Paths : Ask(s, q)

Next ==
    \/ Work
    \/ \E s \in Slots : Unreadable(s) \/ Fail(s)
    \/ \E r \in Readers, p \in Paths : Load(r, p)
    \/ \E p \in Paths, c \in Contents \cup {Gone} : Edit(p, c)
    \/ Stop

Spec == Init /\ [][Next]_vars

\* The pool runs something as long as something can run.
FairSpec == Spec /\ WF_vars(Work)

-----------------------------------------------------------------------------
(***************************************************************************)
(* Properties.                                                             *)
(***************************************************************************)

\* TypeOK: the types of the state; a task has the writer bit of its asset exactly
\* from SetBit to the release of the lock, and only tasks of the pass exist.
TypeOK ==
    /\ source \in [Paths -> Contents \cup {Gone}]
    /\ log.open \subseteq Paths /\ log.bad \in BOOLEAN
    /\ phase \in {"off", "opened", "scan", "pass", "over"}
    /\ skip \in BOOLEAN /\ unsynced \subseteq Paths /\ known \subseteq Paths
    /\ status \in [Paths -> {None, "processed", "failed"}]
    /\ dependents \in [Paths -> SUBSET Paths] /\ queue \in [Paths -> Nat]
    /\ \A s \in Slots : task[s].pc \in {"drain", "open", "work", "written", "meta", "finish"}
                            <=> writer[s[1]] = s

\* What p is made from, directly or not, and p itself.
Closed(src, S) == \A q \in S : DepsOf(q, src[q]) \subseteq S
Ancestry(src, p) == {x \in Paths : \A S \in SUBSET Paths : p \in S /\ Closed(src, S) => x \in S}

\* ReadsWhole: whoever has the two readers of an asset, through the gate, reads one whole
\* revision: bytes that were written to the end, and the .meta that belongs to them
\* (ProcessorAssetInfo::file_transaction_lock, LoadContext::rdbytes_impl, "the hash and
\* the bytes come from the same revision"), whatever crashed before.  Not covered: what a
\* task has just given up on and what is made from it, runs after one that trusted nothing
\* and left a file as it was, and outputs made from one edited while it was copied.
ReadsWhole ==
    \A g \in Agents :
        LET q == rd[g].q IN
        rd[g].at = "held" /\ q \notin broken /\ ~lost =>
            /\ bytes[q] \notin {NoFile, Torn} /\ meta[q] \notin {NoFile, Torn}
            /\ bytes[q] = meta[q] \/ mingled

\* The record of an earlier task came after that of the one that wrote the file.
Overtaken(p) == rec[p] # meta[p]

\* Left out of InLine: what an edit, a failure or an unrecorded edge of this run reaches,
\* and what an asset reaches whose records came in the wrong order.
Settled(p) ==
    /\ Ancestry(source, p) \cap (dirty \cup broken \cup late) = {}
    /\ \A q \in Ancestry(source, p) : ~Overtaken(q)

\* InLine: when a run is over, every asset that can be made is processed, and its output
\* is what processing everything from scratch gives: what was skipped was rightly skipped,
\* and what was made from an old revision was made again (AssetProcessServer::run,
\* "everything that is out of date is processed"), after crashes, failures and edits
\* during an earlier run.  Not covered: runs after one that trusted nothing and left a file
\* as it was, and the bytes once an asset was edited while it was copied.
InLine ==
    phase = "over" /\ ~lost =>
        \A p \in Paths :
            LET b == Built(source)[p] IN
            b # NoFile /\ Settled(p) =>
                status[p] = "processed" /\ meta[p] = b /\ (bytes[p] = b \/ mingled)

\* A reader that has one lock waits for the other behind a writer that waits for the first.
Entangled ==
    \E g \in Agents : rd[g].at = "lock2" /\ writer[rd[g].q] # None

\* An asset that failed to load something is its own dependent.
SelfParked == \E p \in Paths : p \in dependents[p]

Running == phase \in {"opened", "scan", "pass"}

\* PassEnds: a run comes to its end (execute_processing_tasks), unless a reader is
\* entangled with a rewrite, or an asset waits for itself.
PassEnds == Running ~> (~Running \/ Entangled \/ SelfParked)

\* RunEnds: "the run is over when nothing is left" (AssetProcessServer::run).
RunEnds == Running ~> ~Running
=============================================================================
