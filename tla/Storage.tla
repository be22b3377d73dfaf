------------------------------- MODULE Storage --------------------------------
(***************************************************************************)
(* The state layer of pranklin: RocksDbStorage (rocksdb_storage.rs) driven *)
(* by StateManager (state/src/lib.rs) and by the block loop of the         *)
(* executor (exec/src/server.rs).                                          *)
(*                                                                         *)
(* A block's writes are buffered in memory (pending) and commit() moves    *)
(* them to RocksDB in a sequence of separate puts: one per value, one per  *)
(* entry of the latest-version index, then CurrentVersion, then a snapshot *)
(* mark and a pruning pass.  Each put is a step here, so a crash or an I/O *)
(* error can fall between any two of them.  The Merkle nodes that the same *)
(* commit writes are never read back for a value and are left out.         *)
(***************************************************************************)
EXTENDS Integers, FiniteSets

CONSTANTS
    Keys,              \* hashed StateKeys
    Values,            \* serialised values
    None,              \* an absent value, an absent index entry
    Deletable,         \* the keys that some caller deletes
    MaxVersion,        \* bound: highest block executed
    PruningEnabled,    \* PruningConfig.enabled
    SnapshotInterval,  \* PruningConfig.snapshot_interval
    PruneBefore,       \* PruningConfig.prune_before
    Faults,            \* which of "crash", "restart", "io", "lost", "restore" may happen
    MaxFaults          \* bound: how many of them

ASSUME ConstantsAssumption ==
    /\ None \notin Values \cup Int
    /\ Deletable \subseteq Keys
    /\ MaxVersion \in Nat
    /\ PruningEnabled \in BOOLEAN
    /\ SnapshotInterval \in Nat \ {0}
    /\ PruneBefore \in Nat
    /\ MaxFaults \in Nat

Versions == 0 .. MaxVersion

VARIABLES
    \* on disk
    values,      \* JmtValue{key, version}
    latest,      \* LatestVersion(key)
    diskVersion, \* CurrentVersion
    snapshots,   \* Snapshot(version)
    \* in memory
    pending,     \* pending_updates
    curVersion,  \* RocksDbStorage.current_version
    version,     \* StateManager.version
    \* the commit in progress
    pc, batch, todo,
    \* the sequencer's side, and bookkeeping
    acked,       \* last height whose ExecuteTxs was answered
    faults,      \* faults so far
    torn,        \* a commit was cut short, or an older snapshot restored
    pruned       \* a pruning pass has deleted something

disk == <<values, latest, diskVersion, snapshots>>
memory == <<pending, curVersion, version>>
commit == <<pc, batch, todo>>
ghosts == <<torn, pruned>>
vars == <<values, latest, diskVersion, snapshots, pending, curVersion, version,
          pc, batch, todo, acked, faults, torn, pruned>>

Empty == [k \in Keys |-> None]

Written(f) == {k \in Keys : f[k] # None}

-------------------------------------------------------------------------------
(* Reads *)

\* The versions a backward scan from max down to 0 can stop at.
StoredVersions(k, max) == {u \in Versions : u <= max /\ values[k][u] # None}

\* The "original O(n) algorithm" of get_value_option: the newest stored version.
SlowScan(k, max) ==
    LET vs == StoredVersions(k, max)
    IN  IF vs = {} THEN None
        ELSE values[k][CHOOSE u \in vs : \A w \in vs : w <= u]

\* Slip: the index is trusted for reads of the past as well.
UsesIndexAlways(k, max) == latest[k] # None

\* The index is trusted whenever it names a version that is not in the future.
UsesIndex(k, max) == latest[k] # None /\ latest[k] <= max

GetValueOption(k, max) ==
    IF UsesIndex(k, max) THEN values[k][latest[k]] ELSE SlowScan(k, max)

Get(k, v) == IF pending[k] # None THEN pending[k] ELSE GetValueOption(k, v)

-------------------------------------------------------------------------------
Init ==
    /\ values = [k \in Keys |-> [v \in Versions |-> None]]
    /\ latest = Empty
    /\ diskVersion = 0
    /\ snapshots = {}
    /\ pending = Empty
    /\ curVersion = 0
    /\ version = 0
    /\ pc = "idle"
    /\ batch = Empty
    /\ todo = {}
    /\ acked = 0
    /\ faults = 0
    /\ torn = FALSE
    /\ pruned = FALSE

\* Writes happen inside a block, and at start-up when assets and bridge
\* operators are initialised before any block.
Set(k, x) ==
    /\ pc \in {"idle", "block"}
    /\ pending' = [pending EXCEPT ![k] = x]
    /\ UNCHANGED <<disk, curVersion, version, commit, acked, faults, ghosts>>

Delete(k) ==
    /\ pc \in {"idle", "block"}
    /\ pending' = [pending EXCEPT ![k] = None]
    /\ UNCHANGED <<disk, curVersion, version, commit, acked, faults, ghosts>>

\* Slip: a new block starts by dropping what is pending.
BeginBlockCleared ==
    /\ pc = "idle"
    /\ acked < MaxVersion
    /\ version' = acked + 1
    /\ pending' = Empty
    /\ pc' = "block"
    /\ UNCHANGED <<disk, curVersion, batch, todo, acked, faults, ghosts>>

\* The sequencer asks for the block after the last one it got an answer for.
BeginBlock ==
    /\ pc = "idle"
    /\ acked < MaxVersion
    /\ version' = acked + 1
    /\ pc' = "block"
    /\ UNCHANGED <<disk, pending, curVersion, batch, todo, acked, faults, ghosts>>

CommitStart ==
    /\ pc = "block"
    /\ batch' = pending
    /\ pending' = Empty
    /\ todo' = Written(pending)
    /\ pc' = IF Written(pending) = {} THEN "version" ELSE "values"
    /\ UNCHANGED <<disk, curVersion, version, acked, faults, ghosts>>

PutValue(k) ==
    /\ pc = "values"
    /\ k \in todo
    /\ values' = [values EXCEPT ![k][version] = batch[k]]
    /\ IF todo = {k}
       THEN pc' = "latest" /\ todo' = Written(batch)
       ELSE pc' = pc /\ todo' = todo \ {k}
    /\ UNCHANGED <<latest, diskVersion, snapshots, memory, batch, acked, faults, ghosts>>

\* Slip: an index entry is written once and never moved.
PutLatestOnce(k) ==
    /\ pc = "latest"
    /\ k \in todo
    /\ latest' = [latest EXCEPT ![k] = IF @ = None THEN version ELSE @]
    /\ todo' = todo \ {k}
    /\ pc' = IF todo = {k} THEN "version" ELSE pc
    /\ UNCHANGED <<values, diskVersion, snapshots, memory, batch, acked, faults, ghosts>>

PutLatest(k) ==
    /\ pc = "latest"
    /\ k \in todo
    /\ latest' = [latest EXCEPT ![k] = version]
    /\ todo' = todo \ {k}
    /\ pc' = IF todo = {k} THEN "version" ELSE pc
    /\ UNCHANGED <<values, diskVersion, snapshots, memory, batch, acked, faults, ghosts>>

PutVersion ==
    /\ pc = "version"
    /\ curVersion' = version
    /\ diskVersion' = version
    /\ pc' = IF PruningEnabled THEN "snapshot" ELSE "done"
    /\ UNCHANGED <<values, latest, snapshots, pending, version, batch, todo,
                   acked, faults, ghosts>>

CreateSnapshot ==
    /\ pc = "snapshot"
    /\ snapshots' = IF version % SnapshotInterval = 0
                    THEN snapshots \cup {version} ELSE snapshots
    /\ pc' = "prune"
    /\ UNCHANGED <<values, latest, diskVersion, memory, batch, todo, acked, faults,
                   ghosts>>

\* Slip: the cutoff itself is pruned.
PrunableInclusive(cutoff) ==
    {v \in Versions : v <= cutoff /\ v % SnapshotInterval # 0}

\* Versions that a pruning pass with this cutoff deletes, for every key.
Prunable(cutoff) ==
    {v \in Versions : v < cutoff /\ v % SnapshotInterval # 0}

Prune ==
    /\ pc = "prune"
    /\ LET gone == IF version > PruneBefore
                   THEN Prunable(version - PruneBefore) ELSE {}
       IN  /\ values' = [k \in Keys |-> [v \in Versions |->
                            IF v \in gone THEN None ELSE values[k][v]]]
           /\ pruned' = (pruned \/ \E k \in Keys, v \in gone : values[k][v] # None)
    /\ pc' = "done"
    /\ UNCHANGED <<latest, diskVersion, snapshots, memory, batch, todo, acked, faults,
                   torn>>

\* ExecuteTxs returns the new root, and the sequencer moves to the next height.
Reply ==
    /\ pc = "done"
    /\ pc' = "idle"
    /\ batch' = Empty
    /\ acked' = version
    /\ UNCHANGED <<disk, memory, todo, faults, ghosts>>

-------------------------------------------------------------------------------
(* Faults *)

Fault(kind) ==
    /\ kind \in Faults
    /\ faults < MaxFaults
    /\ faults' = faults + 1

\* commit() has begun its puts and has not yet written CurrentVersion.
Committing == pc \in {"values", "latest", "version"}

\* The answer is lost: the block is committed, the sequencer will ask again.
LoseReply ==
    /\ Fault("lost")
    /\ pc = "done"
    /\ pc' = "idle"
    /\ batch' = Empty
    /\ UNCHANGED <<disk, memory, todo, acked, ghosts>>

\* A put fails: commit returns early, and what was pending is gone.
IoError ==
    /\ Fault("io")
    /\ Committing \/ pc \in {"snapshot", "prune"}
    /\ curVersion' = IF pc = "version" THEN version ELSE curVersion
    /\ pc' = "idle"
    /\ batch' = Empty
    /\ todo' = {}
    /\ torn' = (torn \/ Committing)
    /\ UNCHANGED <<disk, pending, version, acked, pruned>>

\* Slip: a new process resumes at the height after CurrentVersion.
ReopenAhead ==
    /\ pending' = Empty
    /\ curVersion' = diskVersion
    /\ version' = diskVersion + 1
    /\ pc' = "idle"
    /\ batch' = Empty
    /\ todo' = {}
    /\ UNCHANGED <<disk, acked, pruned>>

\* A new process opens the database: it resumes from CurrentVersion.
Reopen ==
    /\ pending' = Empty
    /\ curVersion' = diskVersion
    /\ version' = diskVersion
    /\ pc' = "idle"
    /\ batch' = Empty
    /\ todo' = {}
    /\ UNCHANGED <<disk, acked, pruned>>

\* The process dies anywhere, a commit included.
Crash ==
    /\ Fault("crash")
    /\ Reopen
    /\ torn' = (torn \/ Committing)

\* The process is stopped between two blocks.
Restart ==
    /\ Fault("restart")
    /\ pc = "idle"
    /\ Reopen
    /\ UNCHANGED torn

\* restore_from_snapshot, with the sequencer resumed from that height.
RestoreFromSnapshot(s) ==
    /\ Fault("restore")
    /\ pc = "idle"
    /\ s \in snapshots
    /\ curVersion' = s
    /\ diskVersion' = s
    /\ acked' = s
    /\ torn' = TRUE
    /\ UNCHANGED <<values, latest, snapshots, pending, version, commit, pruned>>

Next ==
    \/ \E k \in Keys, x \in Values : Set(k, x)
    \/ \E k \in Deletable : Delete(k)
    \/ BeginBlock
    \/ CommitStart
    \/ \E k \in Keys : PutValue(k)
    \/ \E k \in Keys : PutLatest(k)
    \/ PutVersion
    \/ CreateSnapshot
    \/ Prune
    \/ Reply
    \/ LoseReply
    \/ IoError
    \/ Crash
    \/ Restart
    \/ \E s \in Versions : RestoreFromSnapshot(s)

Spec == Init /\ [][Next]_vars

-------------------------------------------------------------------------------
(* Properties *)

\* Every variable keeps the shape the code gives it, whatever faults happen.
TypeOK ==
    /\ values \in [Keys -> [Versions -> Values \cup {None}]]
    /\ latest \in [Keys -> Versions \cup {None}]
    /\ diskVersion \in Versions
    /\ snapshots \subseteq Versions
    /\ pending \in [Keys -> Values \cup {None}]
    /\ curVersion \in Versions
    /\ version \in Versions
    /\ pc \in {"idle", "block", "values", "latest", "version", "snapshot", "prune", "done"}
    /\ batch \in [Keys -> Values \cup {None}]
    /\ todo \subseteq Keys
    /\ acked \in Versions
    /\ faults \in 0 .. MaxFaults
    /\ torn \in BOOLEAN
    /\ pruned \in BOOLEAN

\* Versions whose content the running commit is not writing at this moment.
Settled(v) == v <= diskVersion /\ (Committing => v < version)

\* How far apart the sequencer's height, CurrentVersion and the block's version
\* can be, and which phase of the commit has which puts behind it.
HeightsAgree ==
    /\ acked <= diskVersion /\ diskVersion <= acked + 1
    /\ pc # "idle" => version = acked + 1
    /\ pc \in {"snapshot", "prune", "done"} => diskVersion = version

BatchProgress ==
    /\ Committing => todo \subseteq Written(batch)
    /\ pc = "values" =>
          \A k \in Written(batch) \ todo : values[k][version] # None
    /\ pc \in {"latest", "version"} =>
          \A k \in Written(batch) : values[k][version] # None
    /\ pc = "latest" => \A k \in Written(batch) \ todo : latest[k] = version
    /\ pc = "version" => \A k \in Written(batch) : latest[k] = version

\* k's put at the block's version is done and its index entry is not.
Unindexed(k) ==
    /\ pc \in {"values", "latest"}
    /\ k \in Written(batch)
    /\ pc = "latest" => k \in todo

\* The index names a stored version, and no newer one exists but the one that
\* the running commit has yet to index.
IndexExact ==
    \A k \in Keys :
        /\ latest[k] # None =>
              /\ values[k][latest[k]] # None
              /\ latest[k] <= diskVersion \/ (Committing /\ latest[k] = version)
        /\ \A u \in Versions : values[k][u] # None =>
              \/ latest[k] # None /\ u <= latest[k]
              \/ Unindexed(k) /\ u = version

\* The inductive strengthening of FastPathSound: as long as no commit was torn
\* and nothing was pruned, the index is exact up to the running commit.
IndexInv ==
    (~torn /\ ~pruned) => HeightsAgree /\ BatchProgress /\ IndexExact

\* get_value_option keeps the backward scan "for correctness" beside the index
\* lookup: at every settled version the two answer the same, through replays,
\* crashes outside a commit and a half-written commit above that version.
FastPathSound ==
    (~torn /\ ~pruned) =>
        \A k \in Keys, v \in Versions :
            Settled(v) => GetValueOption(k, v) = SlowScan(k, v)

\* A read at a settled version never changes again.  In particular a commit that
\* is under way is invisible at CurrentVersion, so the first crash that
\* interrupts one recovers exactly the last committed block.
HistoryStable ==
    [][ (~torn /\ ~pruned') =>
          \A k \in Keys, v \in Versions :
              Settled(v) => GetValueOption(k, v)' = GetValueOption(k, v) ]_vars

\* The first reads of a block see what is still pending and, below it, the state
\* committed last.
StartsFromCommitted ==
    (pc = "idle" /\ pc' = "block") =>
        \A k \in Keys :
            Get(k, version)' = IF pending[k] # None THEN pending[k]
                               ELSE GetValueOption(k, diskVersion)

\* begin_block only moves the read version, so a block starts from the state
\* committed last, also when a lost answer has it executed a second time, unless
\* an earlier commit was torn.
UntornBlockStarts == [][ (~torn /\ ~pruned) => StartsFromCommitted ]_vars

\* Pruning leaves alone every read that a version inside the retention window
\* answers.
PruneSparesWindow ==
    [][ Prune =>
          \A k \in Keys, v \in Versions :
              (\E u \in StoredVersions(k, v) : u >= version - PruneBefore)
                  => SlowScan(k, v)' = SlowScan(k, v) ]_vars

\* The key-value store that the engine sees: while a commit runs, its batch
\* stands for the writes it took out of pending.
Visible ==
    [k \in Keys |-> IF batch[k] # None THEN batch[k] ELSE Get(k, version)]

Durable == [k \in Keys |-> GetValueOption(k, diskVersion)]

Abstract == INSTANCE VersionedStore WITH current <- Visible, committed <- Durable

\* Storage implements the abstract store: the steps of one commit add up to one
\* atomic commit, and no other step changes what the engine reads.
ImplementsVersionedStore == Abstract!Spec
===============================================================================
