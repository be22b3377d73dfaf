------------------------ MODULE SnapshotExportProofs -------------------------
(***************************************************************************)
(* What the exporter publishes is complete and holds its block, for every  *)
(* interval, number of blocks and number of faults.                        *)
(*                                                                         *)
(* Neither property is inductive: whether the next upload keeps it depends *)
(* on what the export has already done. Standing says what is true at each *)
(* place an export can have reached.                                       *)
(***************************************************************************)
EXTENDS SnapshotExport, TLAPS

Steps == {"none", "flush", "archive", "metadata", "latest", "cleanup"}

ExportTypes ==
  /\ version \in 0 .. MaxBlocks
  /\ committing => version < MaxBlocks
  /\ job \in [Heights -> [pc : Steps, holds : Nat, open : BOOLEAN]]
  /\ archive \in [Heights -> Nat]
  /\ metadata \subseteq Heights
  /\ latest \in Heights \cup {0}

\* An export was spawned after its block, its checkpoint was made after that, and
\* it moves on only when the upload before it is done.
Standing ==
  \A h \in Heights :
    /\ job[h].pc # "none" => h <= version
    /\ job[h].pc \in {"archive", "metadata", "latest"} => h <= job[h].holds
    /\ job[h].pc \in {"metadata", "latest"} => archive[h] # 0
    /\ job[h].pc = "latest" => h \in metadata

ExportInv == ExportTypes /\ Standing /\ LatestComplete /\ ArchiveCoversHeight

\* Initially nothing is exported.
LEMMA InitExportInv == Init => ExportInv
<1>1. ASSUME Init PROVE ExportInv
  BY <1>1, ExportAssumption
     DEF Init, ExportInv, ExportTypes, Standing, LatestComplete,
         ArchiveCoversHeight, Heights, NoJob, Steps
<1> QED BY <1>1

\* A task that handle_snapshot_export spawns for a committed height is at its first
\* step, and the exports that run already are left alone.
LEMMA SpawnKeeps ==
  ASSUME ExportInv, NEW v \in Heights, v <= version', version' \in 0 .. MaxBlocks,
         version <= version', committing' => version' < MaxBlocks, Spawn(v),
         UNCHANGED published
  PROVE  ExportInv'
<1>1. job' \in [Heights -> [pc : Steps, holds : Nat, open : BOOLEAN]]
  BY DEF ExportInv, ExportTypes, Spawn, Steps
<1>2. \A h \in Heights : job'[h] = job[h] \/ (h = v /\ job'[h].pc = "flush")
  BY DEF ExportInv, ExportTypes, Spawn
<1>3. Standing'
  <2> SUFFICES ASSUME NEW h \in Heights
               PROVE  /\ job'[h].pc # "none" => h <= version'
                      /\ job'[h].pc \in {"archive", "metadata", "latest"} => h <= job'[h].holds
                      /\ job'[h].pc \in {"metadata", "latest"} => archive'[h] # 0
                      /\ job'[h].pc = "latest" => h \in metadata'
    BY DEF Standing
  <2>1. CASE job'[h] = job[h]
    BY <2>1 DEF ExportInv, ExportTypes, Standing, Heights, published
  <2>2. CASE h = v /\ job'[h].pc = "flush"
    BY <2>2
  <2> QED BY <1>2, <2>1, <2>2
<1> QED BY <1>1, <1>3
           DEF ExportInv, ExportTypes, LatestComplete, ArchiveCoversHeight, published

\* Every step of the executor, of an export and of a fault keeps the invariant.
LEMMA NextExportInv == ExportInv /\ [Next]_vars => ExportInv'
<1> SUFFICES ASSUME ExportInv, [Next]_vars PROVE ExportInv'
  OBVIOUS
<1> USE DEF ExportInv, ExportTypes, Standing, LatestComplete, ArchiveCoversHeight,
        Steps, NoJob, published
<1>1. CASE CommitStarts
  BY <1>1 DEF CommitStarts
<1>2. CASE CommitEnds
  <2>1. version \in Nat /\ version + 1 \in Heights /\ version + 1 \in 0 .. MaxBlocks
    BY <1>2, ExportAssumption DEF CommitEnds, Heights
  <2> HIDE DEF ExportInv
  <2> QED BY <1>2, <2>1, SpawnKeeps DEF CommitEnds
<1>3. CASE Reexecute
  <2>1. version \in Nat /\ version \in Heights /\ version \in 0 .. MaxBlocks
    BY <1>3, ExportAssumption DEF Reexecute, Heights
  <2> HIDE DEF ExportInv
  <2> QED BY <1>3, <2>1, SpawnKeeps DEF Reexecute
<1>4. CASE Crash
  BY <1>4 DEF Crash
<1>5. ASSUME NEW h \in Heights, Checkpoint(h) PROVE ExportInv'
  <2>0. CreateCheckpoint(h) \in [pc : Steps, holds : Nat, open : BOOLEAN]
    BY ExportAssumption DEF CreateCheckpoint
  <2>1. ExportTypes'
    BY <1>5, <2>0 DEF Checkpoint
  <2>2. \A g \in Heights \ {h} : job'[g] = job[g]
    BY <1>5 DEF Checkpoint, CreateCheckpoint, Heights
  <2>3. Standing'
    BY <1>5, <2>2 DEF Checkpoint, CreateCheckpoint, Heights
  <2>4. LatestComplete'
    BY <1>5 DEF Checkpoint, CreateCheckpoint, Heights
  <2>5. ArchiveCoversHeight'
    BY <1>5 DEF Checkpoint, CreateCheckpoint, Heights
  <2> QED BY <2>1, <2>3, <2>4, <2>5
<1>6. ASSUME NEW h \in Heights, Truncate(h) PROVE ExportInv'
  BY <1>6 DEF Truncate, Heights
<1>7. ASSUME NEW h \in Heights, UploadArchive(h) PROVE ExportInv'
  <2>1. ExportTypes'
    BY <1>7 DEF UploadArchive, Written, Heights
  <2>2. \A g \in Heights \ {h} : job'[g] = job[g]
    BY <1>7 DEF UploadArchive, Written, Heights
  <2>3. Standing'
    BY <1>7, <2>2 DEF UploadArchive, Written, Heights
  <2>4. LatestComplete'
    BY <1>7 DEF UploadArchive, Written, Heights
  <2>5. ArchiveCoversHeight'
    BY <1>7 DEF UploadArchive, Written, Heights
  <2> QED BY <2>1, <2>3, <2>4, <2>5
<1>8. ASSUME NEW h \in Heights, UploadMetadata(h) PROVE ExportInv'
  BY <1>8 DEF UploadMetadata, Written, Heights
<1>9. ASSUME NEW h \in Heights, UploadLatest(h) PROVE ExportInv'
  BY <1>9 DEF UploadLatest, Written, Heights
<1>10. ASSUME NEW h \in Heights, Cleanup(h) PROVE ExportInv'
  BY <1>10 DEF Cleanup
<1>11. ASSUME NEW h \in Heights, ExportFails(h) PROVE ExportInv'
  BY <1>11 DEF ExportFails
<1>12. CASE UNCHANGED vars
  BY <1>12 DEF vars
<1> QED
  BY <1>1, <1>2, <1>3, <1>4, <1>5, <1>6, <1>7, <1>8, <1>9, <1>10, <1>11, <1>12
     DEF Next, Export

\* The inductive invariant holds always.
THEOREM ExportInvariant == Spec => []ExportInv
<1> QED BY InitExportInv, NextExportInv, PTL DEF Spec

\* latest.json never names a height whose archive or metadata is not uploaded whole,
\* unless a second export to a local directory began to copy over that very height.
THEOREM PublishedComplete == Spec => []LatestComplete
<1>1. ExportInv => LatestComplete
  BY DEF ExportInv
<1> QED BY <1>1, ExportInvariant, PTL

\* An uploaded archive holds the block it is named after.
THEOREM ArchivesHoldTheirBlock == Spec => []ArchiveCoversHeight
<1>1. ExportInv => ArchiveCoversHeight
  BY DEF ExportInv
<1> QED BY <1>1, ExportInvariant, PTL

=============================================================================
