--------------------------- MODULE SnapshotExport ---------------------------
(***************************************************************************)
(* The snapshot exporter (state/src/snapshot_exporter.rs) as the executor  *)
(* uses it (exec/src/server.rs): after a block is committed an export is   *)
(* spawned, and runs beside the blocks that follow. It copies the database *)
(* as it stands then, and uploads archive, metadata and the pointer to the *)
(* latest archive, in that order.                                          *)
(*                                                                         *)
(* The export works on a clone of the exporter: the last_export_height it  *)
(* records is dropped with the clone, and stays 0 for should_export.  So a *)
(* block that is sent again is exported again, over the files of the first *)
(* export.  An object in the cloud is replaced as a whole; a file in a     *)
(* local directory is truncated first and then filled.                     *)
(***************************************************************************)
EXTENDS Integers, FiniteSets

CONSTANTS
  ExportInterval,   \* auto_export_interval, 0 switches exports off
  MaxBlocks,        \* bound
  MaxUploadFaults   \* bound: failed steps of an export and crashes

ASSUME ExportAssumption ==
  {ExportInterval, MaxBlocks, MaxUploadFaults} \subseteq Nat

Heights == 1 .. MaxBlocks

VARIABLES
  local,        \* the provider is a local directory, not S3 or GCS
  version,      \* height of the last block committed
  committing,   \* a commit is writing: part of the next block is on disk
  job,          \* the export of each height
  temp,         \* heights whose temporary directory exists
  archive,      \* what each archive holds: the last whole block in it; 0 when there
                \* is no archive, or part of one
  metadata,     \* heights with a whole metadata file
  latest,       \* the height latest.json names, 0 when there is none or part of one
  overwriting,  \* heights that an export began to copy over while latest.json named
                \* them, and did not complete
  uploadFaults

published == <<archive, metadata, latest, overwriting>>

vars == <<local, version, committing, job, temp, published, uploadFaults>>

\* open: the file that comes next has been truncated.
NoJob == [pc |-> "none", holds |-> 0, open |-> FALSE]

Init ==
  /\ local \in BOOLEAN
  /\ version = 0
  /\ committing = FALSE
  /\ job = [h \in Heights |-> NoJob]
  /\ temp = {}
  /\ archive = [h \in Heights |-> 0]
  /\ metadata = {}
  /\ latest = 0
  /\ overwriting = {}
  /\ uploadFaults = 0

\* should_export with the last_export_height that is never recorded
ShouldExport(h) == ExportInterval > 0 /\ h > 0 /\ h >= ExportInterval

\* A task for a height that is already being exported fails at the temporary
\* directory of the first and changes nothing.
Spawn(h) ==
  job' = IF ShouldExport(h) /\ job[h].pc = "none"
         THEN [job EXCEPT ![h] = [pc |-> "flush", holds |-> 0, open |-> FALSE]]
         ELSE job

\* Slip: the export is spawned before the block is committed.
CommitStartsSpawned ==
  /\ ~committing
  /\ version < MaxBlocks
  /\ committing' = TRUE
  /\ Spawn(version + 1)
  /\ UNCHANGED <<local, version, temp, published, uploadFaults>>

CommitStarts ==
  /\ ~committing
  /\ version < MaxBlocks
  /\ committing' = TRUE
  /\ UNCHANGED <<local, version, job, temp, published, uploadFaults>>

\* The commit is complete, and handle_snapshot_export runs.
CommitEnds ==
  /\ committing
  /\ committing' = FALSE
  /\ version' = version + 1
  /\ Spawn(version + 1)
  /\ UNCHANGED <<local, temp, published, uploadFaults>>

\* The block comes again after its answer was lost.
Reexecute ==
  /\ ~committing
  /\ version > 0
  /\ Spawn(version)
  /\ job' # job
  /\ UNCHANGED <<local, version, committing, temp, published, uploadFaults>>

\* RocksDB's checkpoint holds every block committed so far. It refuses to make
\* one where a checkpoint is left from an export that did not finish.
CreateCheckpoint(h) ==
  IF h \in temp THEN NoJob
  ELSE [pc |-> "archive", holds |-> version, open |-> FALSE]

\* flush, the temporary directory and the checkpoint
Checkpoint(h) ==
  /\ job[h].pc = "flush"
  /\ job' = [job EXCEPT ![h] = CreateCheckpoint(h)]
  /\ temp' = temp \cup {h}
  /\ UNCHANGED <<local, version, committing, published, uploadFaults>>

\* std::fs::copy and std::fs::write empty the file before they fill it.
Truncate(h) ==
  /\ local
  /\ job[h].pc \in {"archive", "metadata", "latest"}
  /\ ~job[h].open
  /\ job' = [job EXCEPT ![h].open = TRUE]
  /\ archive' = IF job[h].pc = "archive" THEN [archive EXCEPT ![h] = 0] ELSE archive
  /\ metadata' = IF job[h].pc = "metadata" THEN metadata \ {h} ELSE metadata
  /\ latest' = IF job[h].pc = "latest" THEN 0 ELSE latest
  /\ overwriting' = IF latest = h THEN overwriting \cup {h} ELSE overwriting
  /\ UNCHANGED <<local, version, committing, temp, uploadFaults>>

\* The export has written the file of step "from", in one piece or after Truncate,
\* and goes on to step "to".
Written(h, from, to) ==
  /\ job[h].pc = from
  /\ job[h].open = local
  /\ job' = [job EXCEPT ![h].pc = to, ![h].open = FALSE]
  /\ UNCHANGED <<local, version, committing, temp, uploadFaults>>

UploadArchive(h) ==
  /\ Written(h, "archive", "metadata")
  /\ archive' = [archive EXCEPT ![h] = job[h].holds]
  /\ UNCHANGED <<metadata, latest, overwriting>>

\* Slip: metadata is uploaded last, after the pointer.
UploadMetadataLate(h) ==
  /\ Written(h, "metadata", "latest")
  /\ latest' = h
  /\ UNCHANGED <<archive, metadata, overwriting>>

UploadMetadata(h) ==
  /\ Written(h, "metadata", "latest")
  /\ metadata' = metadata \cup {h}
  /\ UNCHANGED <<archive, latest, overwriting>>

UploadLatest(h) ==
  /\ Written(h, "latest", "cleanup")
  /\ latest' = h
  /\ overwriting' = overwriting \ {h}
  /\ UNCHANGED <<archive, metadata>>

\* remove_dir_all on the temporary directory
Cleanup(h) ==
  /\ job[h].pc = "cleanup"
  /\ job' = [job EXCEPT ![h] = NoJob]
  /\ temp' = temp \ {h}
  /\ UNCHANGED <<local, version, committing, published, uploadFaults>>

\* Any step after the checkpoint fails, a copy perhaps in the middle of the file, and
\* the export returns there; the temporary directory stays behind.
ExportFails(h) ==
  /\ uploadFaults < MaxUploadFaults
  /\ job[h].pc \in {"archive", "metadata", "latest", "cleanup"}
  /\ job' = [job EXCEPT ![h] = NoJob]
  /\ uploadFaults' = uploadFaults + 1
  /\ UNCHANGED <<local, version, committing, temp, published>>

\* The process ends: its tasks are gone, the half-written block comes again.
Crash ==
  /\ uploadFaults < MaxUploadFaults
  /\ uploadFaults' = uploadFaults + 1
  /\ job' = [h \in Heights |-> NoJob]
  /\ committing' = FALSE
  /\ UNCHANGED <<local, version, temp, published>>

\* The order of an export. S3, Google Cloud Storage and a local directory get the
\* same three files in the same order.
Export(h) ==
  \/ Checkpoint(h)
  \/ Truncate(h)
  \/ UploadArchive(h)
  \/ UploadMetadata(h)
  \/ UploadLatest(h)
  \/ Cleanup(h)

Next ==
  \/ CommitStarts
  \/ CommitEnds
  \/ Reexecute
  \/ Crash
  \/ \E h \in Heights : Export(h) \/ ExportFails(h)

Spec == Init /\ [][Next]_vars

-----------------------------------------------------------------------------

\* What latest.json names can be fetched: archive and metadata of that height
\* were uploaded before it and are whole, through failed exports, crashes and
\* exports of other heights that finish in any order.  The exception is a local
\* directory in which a second export of that very height, after its block was sent
\* again, is copying over the files, or was stopped in the middle of that.
LatestComplete ==
  (latest # 0 /\ latest \notin overwriting) => archive[latest] # 0 /\ latest \in metadata

\* An archive named after a height holds that block: the checkpoint is made
\* after the commit, though it may hold later blocks too.
ArchiveCoversHeight ==
  \A h \in Heights : archive[h] # 0 => archive[h] >= h

=============================================================================
