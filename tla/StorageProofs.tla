----------------------------- MODULE StorageProofs ----------------------------
(***************************************************************************)
(* Storage, for any number of keys, values, blocks and faults: the shape   *)
(* of the state, the exactness of the latest-version index, the            *)
(* immutability of committed versions, and step by step that this is the   *)
(* store that VersionedStore describes.                                    *)
(***************************************************************************)
EXTENDS Storage, TLAPS, WellFoundedInduction

\* Every step of the storage keeps the shape of its state.
THEOREM TypeCorrect == Spec => []TypeOK
<1>1. Init => TypeOK
  <2> SUFFICES ASSUME Init PROVE TypeOK
    OBVIOUS
  <2>1. 0 \in Versions /\ 0 \in 0 .. MaxFaults
    BY ConstantsAssumption DEF Versions
  <2>2. values \in [Keys -> [Versions -> Values \cup {None}]]
    BY DEF Init
  <2> QED
    BY <2>1, <2>2 DEF Init, TypeOK, Empty
<1>2. TypeOK /\ [Next]_vars => TypeOK'
  <2> SUFFICES ASSUME TypeOK, [Next]_vars
               PROVE  TypeOK'
    OBVIOUS
  <2> USE DEF TypeOK, Versions
  <2>1. ASSUME NEW k \in Keys, NEW x \in Values, Set(k, x)
        PROVE  TypeOK'
    BY <2>1 DEF Set, disk, commit, ghosts
  <2>2. ASSUME NEW k \in Deletable, Delete(k)
        PROVE  TypeOK'
    BY <2>2 DEF Delete, disk, commit, ghosts
  <2>3. CASE BeginBlock
    BY <2>3, ConstantsAssumption DEF BeginBlock, disk, ghosts
  <2>4. CASE CommitStart
    BY <2>4 DEF CommitStart, disk, ghosts, Written, Empty
  <2>5. ASSUME NEW k \in Keys, PutValue(k)
        PROVE  TypeOK'
    BY <2>5 DEF PutValue, memory, ghosts, Written
  <2>6. ASSUME NEW k \in Keys, PutLatest(k)
        PROVE  TypeOK'
    BY <2>6 DEF PutLatest, memory, ghosts
  <2>7. CASE PutVersion
    BY <2>7 DEF PutVersion, ghosts
  <2>8. CASE CreateSnapshot
    BY <2>8 DEF CreateSnapshot, memory, ghosts
  <2>9. CASE Prune
    BY <2>9 DEF Prune, memory
  <2>10. CASE Reply
    BY <2>10 DEF Reply, disk, memory, ghosts, Empty
  <2>11. CASE LoseReply
    BY <2>11, ConstantsAssumption DEF LoseReply, Fault, disk, memory, ghosts, Empty
  <2>12. CASE IoError
    BY <2>12, ConstantsAssumption DEF IoError, Fault, Committing, disk, Empty
  <2>13. CASE Crash
    BY <2>13, ConstantsAssumption DEF Crash, Reopen, Fault, Committing, disk, Empty
  <2>14. CASE Restart
    BY <2>14, ConstantsAssumption DEF Restart, Reopen, Fault, disk, Empty
  <2>15. ASSUME NEW s \in Versions, RestoreFromSnapshot(s)
         PROVE  TypeOK'
    BY <2>15, ConstantsAssumption DEF RestoreFromSnapshot, Fault, commit
  <2>16. CASE UNCHANGED vars
    BY <2>16 DEF vars
  <2> QED
    BY <2>1, <2>2, <2>3, <2>4, <2>5, <2>6, <2>7, <2>8, <2>9, <2>10, <2>11,
       <2>12, <2>13, <2>14, <2>15, <2>16 DEF Next
<1> QED
  BY <1>1, <1>2, PTL DEF Spec

-------------------------------------------------------------------------------

\* A nonempty set of naturals has a least element.
LEMMA NatMin ==
  ASSUME NEW T, T \subseteq Nat, T # {}
  PROVE  \E x \in T : \A y \in T : x <= y
<1> DEFINE R == {ss \in Nat \X Nat : ss[1] < ss[2]}
<1>1. IsWellFoundedOn(R, Nat)
  BY NatLessThanWellFounded, Zenon DEF OpToRel
<1>2. PICK x \in T : \A y \in T : ~(<<y, x>> \in R)
  <2> HIDE DEF R
  <2> QED
    BY <1>1, WFMin
<1>3. ASSUME NEW y \in T PROVE x <= y
  <2>1. x \in Nat /\ y \in Nat /\ ~(<<y, x>> \in R)
    BY <1>2
  <2>2. ~(y < x)
    BY <2>1
  <2> QED
    BY <2>1, <2>2
<1> QED
  BY <1>3

\* A nonempty set of naturals up to n has a greatest element.
LEMMA NatMax ==
  ASSUME NEW n \in Nat, NEW T, T \subseteq 0 .. n, T # {}
  PROVE  \E x \in T : \A y \in T : y <= x
<1> DEFINE D == {d \in Nat : n - d \in T}
<1>1. D \subseteq Nat
  OBVIOUS
<1>2. ASSUME NEW y \in T PROVE n - y \in D /\ y \in Int
  <2>1. y \in Int /\ n - y \in Nat /\ n - (n - y) = y
    OBVIOUS
  <2> QED
    BY <2>1
<1>3. D # {}
  BY <1>2
<1>4. PICK d \in D : \A e \in D : d <= e
  BY <1>1, <1>3, NatMin
<1>5. \A y \in T : y <= n - d
  BY <1>2, <1>4
<1> QED
  BY <1>4, <1>5


\* The three parts of IndexInv hold initially and across every step that neither
\* tears a commit nor prunes.
LEMMA IndexStep ==
  ASSUME TypeOK, HeightsAgree, BatchProgress, IndexExact,
         [Next]_vars, ~torn', ~pruned'
  PROVE  HeightsAgree' /\ BatchProgress' /\ IndexExact'
<1> USE DEF TypeOK, Versions
<1>0. None \notin Int
  BY ConstantsAssumption
<1>1. ASSUME NEW k \in Keys, NEW x \in Values, Set(k, x)
      PROVE  HeightsAgree' /\ BatchProgress' /\ IndexExact'
  BY <1>1 DEF Set, disk, commit, ghosts, HeightsAgree, BatchProgress, IndexExact,
              Unindexed, Committing, Written
<1>2. ASSUME NEW k \in Deletable, Delete(k)
      PROVE  HeightsAgree' /\ BatchProgress' /\ IndexExact'
  BY <1>2 DEF Delete, disk, commit, ghosts, HeightsAgree, BatchProgress, IndexExact,
              Unindexed, Committing, Written
<1>3. CASE BeginBlock
  BY <1>3 DEF BeginBlock, disk, ghosts, HeightsAgree, BatchProgress, IndexExact,
              Unindexed, Committing, Written
<1>4. CASE CommitStart
  <2>1. HeightsAgree'
    BY <1>4 DEF CommitStart, disk, HeightsAgree
  <2>2. BatchProgress'
    BY <1>4 DEF CommitStart, disk, BatchProgress, Committing, Written
  <2>3. IndexExact'
    BY <1>4 DEF CommitStart, disk, IndexExact, Unindexed, Committing, Written
  <2> QED
    BY <2>1, <2>2, <2>3
<1>5. ASSUME NEW k \in Keys, PutValue(k)
      PROVE  HeightsAgree' /\ BatchProgress' /\ IndexExact'
  <2>1. /\ pc = "values" /\ k \in todo /\ k \in Written(batch)
        /\ version' = version /\ batch' = batch /\ latest' = latest
        /\ diskVersion' = diskVersion
        /\ values' = [values EXCEPT ![k][version] = batch[k]]
        /\ \/ todo = {k} /\ pc' = "latest" /\ todo' = Written(batch)
           \/ todo # {k} /\ pc' = pc /\ todo' = todo \ {k}
    BY <1>5 DEF PutValue, memory, BatchProgress, Committing
  <2>2. batch[k] # None /\ Written(batch)' = Written(batch)
    BY <2>1 DEF Written
  <2>3. \A j \in Keys, u \in Versions :
           values'[j][u] = IF j = k /\ u = version THEN batch[k] ELSE values[j][u]
    BY <2>1
  <2>4. HeightsAgree'
    BY <1>5, <2>1 DEF PutValue, memory, HeightsAgree
  <2>5. BatchProgress'
    BY <2>1, <2>2, <2>3 DEF BatchProgress, Committing, Written
  <2>6. IndexExact'
    BY <2>1, <2>2, <2>3 DEF IndexExact, Unindexed, Committing, Written
  <2> QED
    BY <2>4, <2>5, <2>6
<1>6. ASSUME NEW k \in Keys, PutLatest(k)
      PROVE  HeightsAgree' /\ BatchProgress' /\ IndexExact'
  <2>1. /\ pc = "latest" /\ k \in todo /\ k \in Written(batch)
        /\ version' = version /\ batch' = batch /\ values' = values
        /\ diskVersion' = diskVersion
        /\ latest' = [latest EXCEPT ![k] = version]
        /\ todo' = todo \ {k}
        /\ pc' = IF todo = {k} THEN "version" ELSE pc
        /\ Written(batch)' = Written(batch)
    BY <1>6 DEF PutLatest, memory, BatchProgress, Committing, Written
  <2>2. HeightsAgree'
    BY <1>6, <2>1 DEF PutLatest, memory, HeightsAgree
  <2>3. BatchProgress'
    BY <2>1 DEF BatchProgress, Committing, Written
  <2>4. values[k][version] # None
    BY <2>1 DEF BatchProgress
  <2>5. \A u \in Versions : values[k][u] # None => u <= version
    BY <2>1, <1>0 DEF IndexExact, Unindexed, HeightsAgree, Committing
  <2>6. IndexExact'
    BY <2>1, <2>4, <2>5, <1>0 DEF IndexExact, Unindexed, Committing, Written
  <2> QED
    BY <2>2, <2>3, <2>6
<1>7. CASE PutVersion
  <2>1. HeightsAgree'
    BY <1>7 DEF PutVersion, HeightsAgree
  <2>2. BatchProgress'
    BY <1>7 DEF PutVersion, BatchProgress, Committing
  <2>3. diskVersion <= version /\ diskVersion' = version /\ diskVersion \in Int /\ version \in Int
    BY <1>7 DEF PutVersion, HeightsAgree
  <2>4. IndexExact'
    BY <1>0, <1>7, <2>3 DEF PutVersion, IndexExact, Unindexed, Committing
  <2> QED
    BY <2>1, <2>2, <2>4
<1>8. CASE CreateSnapshot
  BY <1>8 DEF CreateSnapshot, memory, HeightsAgree, BatchProgress, IndexExact,
              Unindexed, Committing, Written
<1>9. CASE Prune
  <2>1. \A k \in Keys, u \in Versions : values'[k][u] = values[k][u]
    BY <1>9 DEF Prune
  <2> QED
    BY <1>9, <2>1 DEF Prune, memory, HeightsAgree, BatchProgress, IndexExact,
                      Unindexed, Committing, Written
<1>10. CASE Reply
  BY <1>10 DEF Reply, disk, memory, HeightsAgree, BatchProgress, IndexExact,
               Unindexed, Committing, Written
<1>11. CASE LoseReply
  BY <1>11 DEF LoseReply, disk, memory, HeightsAgree, BatchProgress, IndexExact,
               Unindexed, Committing, Written
<1>12. CASE IoError
  BY <1>12 DEF IoError, disk, HeightsAgree, BatchProgress, IndexExact,
               Unindexed, Committing, Written
<1>13. CASE Crash
  BY <1>13 DEF Crash, Reopen, disk, HeightsAgree, BatchProgress, IndexExact,
               Unindexed, Committing, Written
<1>14. CASE Restart
  BY <1>14 DEF Restart, Reopen, disk, HeightsAgree, BatchProgress, IndexExact,
               Unindexed, Committing, Written
<1>15. ASSUME NEW s \in Versions, RestoreFromSnapshot(s)
       PROVE  HeightsAgree' /\ BatchProgress' /\ IndexExact'
  BY <1>15 DEF RestoreFromSnapshot
<1>16. CASE UNCHANGED vars
  BY <1>16 DEF vars, HeightsAgree, BatchProgress, IndexExact, Unindexed,
               Committing, Written
<1> QED
  BY <1>1, <1>2, <1>3, <1>4, <1>5, <1>6, <1>7, <1>8, <1>9, <1>10, <1>11,
     <1>12, <1>13, <1>14, <1>15, <1>16 DEF Next

\* torn and pruned never become false again.
LEMMA GhostsGrow ==
  ASSUME TypeOK, [Next]_vars, ~torn', ~pruned'
  PROVE  ~torn /\ ~pruned
BY DEF TypeOK, Next, vars, ghosts, Set, Delete, BeginBlock, CommitStart, PutValue,
       PutLatest, PutVersion, CreateSnapshot, Prune, Reply, LoseReply, IoError,
       Reopen, Crash, Restart, RestoreFromSnapshot

\* The strengthened index invariant holds in every reachable state.
THEOREM IndexInvariant == Spec => []IndexInv
<1>1. Init => IndexInv
  <2> SUFFICES ASSUME Init PROVE HeightsAgree /\ BatchProgress /\ IndexExact
    BY DEF IndexInv
  <2> QED
    BY DEF Init, Empty, HeightsAgree, BatchProgress, IndexExact, Unindexed,
           Committing, Written, Versions
<1>2. TypeOK /\ IndexInv /\ [Next]_vars => IndexInv'
  BY IndexStep, GhostsGrow DEF IndexInv
<1> QED
  BY <1>1, <1>2, TypeCorrect, PTL DEF Spec

\* At a settled version an exact index leads to the newest stored version.
LEMMA FastPathAgrees ==
  ASSUME TypeOK, IndexExact, NEW k \in Keys, NEW v \in Versions, Settled(v)
  PROVE  GetValueOption(k, v) = SlowScan(k, v)
<1> USE DEF TypeOK, Versions
<1>1. CASE ~UsesIndex(k, v)
  BY <1>1 DEF GetValueOption
<1>2. CASE UsesIndex(k, v)
  <2> DEFINE vs == StoredVersions(k, v)
  <2>0. None \notin Int
    BY ConstantsAssumption
  <2>1. latest[k] \in vs
    BY <1>2, <2>0 DEF UsesIndex, StoredVersions, IndexExact
  <2>2. \A w \in vs : w <= latest[k]
    BY <2>0 DEF StoredVersions, IndexExact, Unindexed, Settled, Committing
  <2>3. \A w \in vs : w \in Int
    BY DEF StoredVersions
  <2>4. (CHOOSE u \in vs : \A w \in vs : w <= u) = latest[k]
    <3> HIDE DEF vs
    <3>1. \A u \in vs : (\A w \in vs : w <= u) => u = latest[k]
      BY <2>1, <2>2, <2>3
    <3> QED
      BY <2>1, <2>2, <3>1
  <2>5. vs # {}
    BY <2>1
  <2> QED
    BY <1>2, <2>4, <2>5 DEF GetValueOption, SlowScan
<1> QED
  BY <1>1, <1>2

\* The index lookup and the backward scan agree at every settled version.
THEOREM FastPathCorrect == Spec => []FastPathSound
<1>1. TypeOK /\ IndexInv => FastPathSound
  BY FastPathAgrees DEF IndexInv, FastPathSound
<1> QED
  BY <1>1, TypeCorrect, IndexInvariant, PTL

\* A pruning pass that finds nothing to delete.
LEMMA PruneNothing ==
  ASSUME TypeOK, TypeOK', Prune, ~pruned'
  PROVE  values' = values /\ latest' = latest
<1>1. \A i \in Keys : \A u \in Versions : values'[i][u] = values[i][u]
  BY DEF Prune, TypeOK
<1>2. \A i \in Keys : values'[i] = values[i]
  BY <1>1 DEF TypeOK
<1> QED
  BY <1>2 DEF Prune, TypeOK

\* A step that neither follows a torn commit nor prunes changes no settled read.
LEMMA SettledRead ==
  ASSUME TypeOK, TypeOK', IndexInv, [Next]_vars, ~torn, ~pruned',
         NEW k \in Keys, NEW v \in Versions, Settled(v)
  PROVE  GetValueOption(k, v)' = GetValueOption(k, v)
<1>0. ~pruned
  BY DEF TypeOK, Next, vars, ghosts, Set, Delete, BeginBlock, CommitStart, PutValue,
         PutLatest, PutVersion, CreateSnapshot, Prune, Reply, LoseReply, IoError,
         Reopen, Crash, Restart, RestoreFromSnapshot
<1>1. IndexExact /\ HeightsAgree
  BY <1>0 DEF IndexInv
<1>2. ASSUME values' = values, latest' = latest
      PROVE  GetValueOption(k, v)' = GetValueOption(k, v)
  BY <1>2 DEF GetValueOption, UsesIndex, SlowScan, StoredVersions
<1>3. ASSUME NEW j \in Keys, PutValue(j)
      PROVE  GetValueOption(k, v)' = GetValueOption(k, v)
  <2>1. v < version /\ version \in Int /\ v \in Int
    BY <1>3 DEF PutValue, Settled, Committing, TypeOK, Versions
  <2>2. \A u \in Versions : u <= v => values'[k][u] = values[k][u]
    <3>1. values' = [values EXCEPT ![j] = [values[j] EXCEPT ![version] = batch[j]]]
      BY <1>3 DEF PutValue
    <3>2. ASSUME NEW u \in Versions, u <= v PROVE u # version
      BY <2>1, <3>2 DEF Versions
    <3> QED
      BY <3>1, <3>2 DEF TypeOK
  <2>3. latest' = latest
    BY <1>3 DEF PutValue
  <2>4. UsesIndex(k, v)' = UsesIndex(k, v)
    BY <2>3 DEF UsesIndex
  <2>5. UsesIndex(k, v) => values'[k][latest[k]] = values[k][latest[k]]
    BY <2>2 DEF UsesIndex, TypeOK
  <2>6. StoredVersions(k, v)' = StoredVersions(k, v)
    BY <2>2 DEF StoredVersions
  <2>7. SlowScan(k, v)' = SlowScan(k, v)
    <3> DEFINE vs == StoredVersions(k, v)
               top == CHOOSE u \in vs : \A w \in vs : w <= u
    <3>1. CASE vs = {}
      BY <3>1, <2>6 DEF SlowScan
    <3>2. CASE vs # {}
      <4>1. \E u \in vs : \A w \in vs : w <= u
        BY <3>2, NatMax, ConstantsAssumption DEF StoredVersions, Versions
      <4>2. top \in vs
        BY <4>1
      <4>3. top \in Versions /\ top <= v
        BY <4>2 DEF StoredVersions
      <4> QED
        BY <3>2, <4>3, <2>2, <2>6 DEF SlowScan
    <3> QED
      BY <3>1, <3>2
  <2> QED
    BY <2>3, <2>4, <2>5, <2>7 DEF GetValueOption
<1>4. ASSUME NEW j \in Keys, PutLatest(j)
      PROVE  GetValueOption(k, v)' = GetValueOption(k, v)
  <2>1. CASE k # j
    BY <1>4, <2>1 DEF PutLatest, GetValueOption, UsesIndex, SlowScan, StoredVersions, TypeOK
  <2>2. CASE k = j
    <3>1. v < version /\ latest'[k] = version /\ values' = values
      BY <1>4, <2>2 DEF PutLatest, Settled, Committing, TypeOK
    <3>2. ~UsesIndex(k, v)'
      BY <3>1 DEF UsesIndex, TypeOK, Versions
    <3>3. SlowScan(k, v)' = SlowScan(k, v)
      BY <3>1 DEF SlowScan, StoredVersions
    <3> QED
      BY <3>2, <3>3, <1>1, FastPathAgrees DEF GetValueOption
  <2> QED
    BY <2>1, <2>2
<1>5. ASSUME Prune
      PROVE  values' = values /\ latest' = latest
  BY <1>5, PruneNothing
<1> QED
  BY <1>2, <1>3, <1>4, <1>5
     DEF Next, vars, disk, Set, Delete, BeginBlock, CommitStart, PutVersion,
         CreateSnapshot, Reply, LoseReply, IoError, Reopen, Crash, Restart,
         RestoreFromSnapshot

\* No step changes what a settled version reads as.
THEOREM HistoryImmutable == Spec => HistoryStable
<1> DEFINE Step == (~torn /\ ~pruned') =>
              \A k \in Keys, v \in Versions :
                  Settled(v) => GetValueOption(k, v)' = GetValueOption(k, v)
<1>1. TypeOK /\ TypeOK' /\ IndexInv /\ [Next]_vars => [Step]_vars
  BY SettledRead
<1> QED
  BY <1>1, TypeCorrect, IndexInvariant, PTL DEF Spec, HistoryStable

-------------------------------------------------------------------------------

\* With an exact index and no commit under way, every version from CurrentVersion on
\* reads as the state committed last.
LEMMA NothingAbove ==
  ASSUME TypeOK, IndexExact, pc \in {"idle", "block"}, NEW k \in Keys,
         NEW v \in Versions, diskVersion <= v
  PROVE  GetValueOption(k, v) = GetValueOption(k, diskVersion)
<1> USE DEF TypeOK, Versions
<1>1. None \notin Int
  BY ConstantsAssumption
<1>2. CASE latest[k] # None
  <2>1. latest[k] \in Int /\ latest[k] <= diskVersion
    BY <1>2 DEF IndexExact, Committing
  <2>2. latest[k] <= v
    BY <2>1
  <2> QED BY <1>2, <2>1, <2>2 DEF GetValueOption, UsesIndex
<1>3. CASE latest[k] = None
  <2>1. \A u \in Versions : values[k][u] = None
    BY <1>3 DEF IndexExact, Unindexed
  <2>2. \A w : StoredVersions(k, w) = {}
    BY <2>1 DEF StoredVersions
  <2> QED BY <1>3, <2>2 DEF GetValueOption, UsesIndex, SlowScan
<1> QED BY <1>2, <1>3

\* A block starts from the committed state, also when it is executed again.
THEOREM BlocksStartCommitted == Spec => UntornBlockStarts
<1> DEFINE Step == (~torn /\ ~pruned) => StartsFromCommitted
<1>1. TypeOK /\ TypeOK' /\ IndexInv /\ [Next]_vars => [Step]_vars
  <2> SUFFICES ASSUME TypeOK, TypeOK', IndexInv, [Next]_vars, ~torn, ~pruned,
                      pc = "idle", pc' = "block", NEW k \in Keys
               PROVE  Get(k, version)' = IF pending[k] # None THEN pending[k]
                                         ELSE GetValueOption(k, diskVersion)
    BY DEF StartsFromCommitted
  <2>1. HeightsAgree /\ IndexExact
    BY DEF IndexInv
  <2>2. BeginBlock
    BY DEF Next, vars, commit, Set, Delete, CommitStart, PutValue, PutLatest, PutVersion,
           CreateSnapshot, Prune, Reply, LoseReply, IoError, Crash, Restart, Reopen,
           RestoreFromSnapshot
  <2>3. /\ version' = acked + 1 /\ pending' = pending
        /\ values' = values /\ latest' = latest
    BY <2>2 DEF BeginBlock, disk
  <2>4. version' \in Versions /\ diskVersion <= version'
    BY <2>1, <2>3 DEF TypeOK, HeightsAgree, Versions
  <2>5. GetValueOption(k, version)' = GetValueOption(k, version')
    BY <2>3 DEF GetValueOption, UsesIndex, SlowScan, StoredVersions
  <2>6. GetValueOption(k, version') = GetValueOption(k, diskVersion)
    BY <2>1, <2>4, NothingAbove
  <2> QED BY <2>3, <2>5, <2>6 DEF Get
<1> QED
  BY <1>1, TypeCorrect, IndexInvariant, PTL DEF Spec, UntornBlockStarts

\* Pruning spares every read that the retention window answers.
THEOREM PruneKeepsWindow == Spec => PruneSparesWindow
<1> DEFINE Step == Prune =>
              \A k \in Keys, v \in Versions :
                  (\E u \in StoredVersions(k, v) : u >= version - PruneBefore)
                      => SlowScan(k, v)' = SlowScan(k, v)
<1>1. TypeOK /\ [Next]_vars => [Step]_vars
  <2> SUFFICES ASSUME TypeOK, Prune, NEW k \in Keys, NEW v \in Versions,
                      NEW u \in StoredVersions(k, v), u >= version - PruneBefore
               PROVE  SlowScan(k, v)' = SlowScan(k, v)
    OBVIOUS
  <2> DEFINE vs   == StoredVersions(k, v)
             next == {w \in Versions : w <= v /\ values'[k][w] # None}
             top  == CHOOSE t \in vs : \A w \in vs : w <= t
  <2>1. /\ version \in Int /\ PruneBefore \in Int /\ MaxVersion \in Nat
        /\ vs \subseteq 0 .. MaxVersion /\ u \in vs
    BY ConstantsAssumption DEF TypeOK, Versions, StoredVersions
  <2>2. top \in vs /\ \A w \in vs : w <= top
    <3> HIDE DEF vs
    <3>1. \E t \in vs : \A w \in vs : w <= t
      BY <2>1, NatMax
    <3> QED BY <3>1
  <2>3. top \in Int /\ top >= version - PruneBefore
    <3>1. top \in Int /\ u \in Int /\ u <= top
      BY <2>1, <2>2
    <3> HIDE DEF top
    <3> QED BY <2>1, <3>1
  <2> HIDE DEF top
  <2>4. ASSUME NEW w \in Versions
        PROVE  /\ values'[k][w] # None => values'[k][w] = values[k][w]
               /\ w >= version - PruneBefore => values'[k][w] = values[k][w]
    <3> DEFINE gone == IF version > PruneBefore
                       THEN Prunable(version - PruneBefore) ELSE {}
    <3>1. values'[k][w] = IF w \in gone THEN None ELSE values[k][w]
      BY DEF Prune
    <3>2. w >= version - PruneBefore => w \notin gone
      BY <2>1 DEF Prunable, Versions
    <3> QED BY <3>1, <3>2
  <2>5. next \subseteq vs /\ top \in next
    BY <2>2, <2>3, <2>4 DEF StoredVersions
  <2>6. values'[k][top] = values[k][top]
    BY <2>2, <2>3, <2>4 DEF StoredVersions
  <2>7. (CHOOSE t \in next : \A w \in next : w <= t) = top
    <3>1. \A t \in vs : t \in Int
      BY <2>1
    <3> HIDE DEF vs, next
    <3>2. \A t \in next : (\A w \in next : w <= t) => t = top
      BY <2>2, <2>3, <2>5, <3>1
    <3>3. \A w \in next : w <= top
      BY <2>2, <2>5
    <3> QED BY <2>5, <3>2, <3>3
  <2>8. SlowScan(k, v)' = values'[k][top]
    <3>1. StoredVersions(k, v)' = next
      BY DEF StoredVersions
    <3>2. next # {}
      BY <2>5
    <3> HIDE DEF next
    <3> QED BY <2>7, <3>1, <3>2 DEF SlowScan
  <2>9. SlowScan(k, v) = values[k][top]
    BY <2>1 DEF SlowScan, top
  <2> QED BY <2>6, <2>8, <2>9
<1> QED
  BY <1>1, TypeCorrect, PTL DEF Spec, PruneSparesWindow

-------------------------------------------------------------------------------
(* Storage implements VersionedStore, step by step: also with every fault      *)
(* allowed, each step is one of the abstract store or leaves it alone, except  *)
(* the ones that Regular names.                                                *)

\* What the mapping needs beyond the index: which of pending and batch is in use in
\* which phase, and that what the commit has put is what its batch holds.
CommitShape ==
    /\ pc = "idle" => version = diskVersion
    /\ pc \in {"idle", "block"} => batch = Empty
    /\ pc \notin {"idle", "block"} => pending = Empty
    /\ pc = "values" => \A k \in Written(batch) \ todo : values[k][version] = batch[k]
    /\ pc \in {"latest", "version", "snapshot", "prune", "done"} =>
          \A k \in Written(batch) : values[k][version] = batch[k]
    /\ pc \in {"snapshot", "prune", "done"} => \A k \in Written(batch) : latest[k] = version

ShapeInv == (~torn /\ ~pruned) => CommitShape

\* The steps that behave as the abstract store's: no commit was torn and nothing is
\* pruned; a step that tears a commit is a crash, not a failed put or a restored
\* snapshot; no commit writes again under a version that is already committed; and
\* what is deleted has no committed value that would come back.
Regular ==
    /\ ~torn /\ ~pruned'
    /\ torn' => Crash
    /\ Committing => diskVersion < version
    /\ \A k \in Deletable : Delete(k) => GetValueOption(k, version) = None

\* Every step that tears and prunes nothing keeps CommitShape.
LEMMA ShapeStep ==
  ASSUME TypeOK, TypeOK', HeightsAgree, BatchProgress, CommitShape, [Next]_vars,
         ~torn', ~pruned'
  PROVE  CommitShape'
<1> USE DEF TypeOK
<1>1. ASSUME NEW k \in Keys, NEW x \in Values, Set(k, x) PROVE CommitShape'
  BY <1>1 DEF Set, disk, commit, CommitShape, Written
<1>2. ASSUME NEW k \in Deletable, Delete(k) PROVE CommitShape'
  BY <1>2 DEF Delete, disk, commit, CommitShape, Written
<1>3. CASE BeginBlock
  BY <1>3 DEF BeginBlock, disk, CommitShape, Written
<1>4. CASE CommitStart
  BY <1>4 DEF CommitStart, disk, CommitShape, Written
<1>5. ASSUME NEW k \in Keys, PutValue(k) PROVE CommitShape'
  <2>1. /\ pc = "values" /\ k \in todo
        /\ version' = version /\ batch' = batch /\ pending' = pending
        /\ \/ todo = {k} /\ pc' = "latest" /\ todo' = Written(batch)
           \/ todo # {k} /\ pc' = pc /\ todo' = todo \ {k}
    BY <1>5 DEF PutValue, memory
  <2>2. \A j \in Keys : values'[j][version] = IF j = k THEN batch[k] ELSE values[j][version]
    BY <1>5 DEF PutValue
  <2> QED BY <2>1, <2>2 DEF CommitShape, Written
<1>6. ASSUME NEW k \in Keys, PutLatest(k) PROVE CommitShape'
  BY <1>6 DEF PutLatest, memory, CommitShape, Written
<1>7. CASE PutVersion
  BY <1>7 DEF PutVersion, CommitShape, Written, BatchProgress
<1>8. CASE CreateSnapshot
  BY <1>8 DEF CreateSnapshot, memory, CommitShape, Written
<1>9. CASE Prune
  <2>1. values' = values /\ latest' = latest
    BY <1>9, PruneNothing
  <2> QED BY <1>9, <2>1 DEF Prune, memory, CommitShape, Written
<1>10. CASE Reply \/ LoseReply
  BY <1>10 DEF Reply, LoseReply, disk, memory, CommitShape, Written, HeightsAgree
<1>11. CASE IoError
  BY <1>11 DEF IoError, disk, CommitShape, Written, HeightsAgree
<1>12. CASE Crash \/ Restart
  BY <1>12 DEF Crash, Restart, Reopen, disk, CommitShape, Written
<1>13. ASSUME NEW s \in Versions, RestoreFromSnapshot(s) PROVE CommitShape'
  BY <1>13 DEF RestoreFromSnapshot
<1>14. CASE UNCHANGED vars
  BY <1>14 DEF vars, CommitShape, Written
<1> QED
  BY <1>1, <1>2, <1>3, <1>4, <1>5, <1>6, <1>7, <1>8, <1>9, <1>10, <1>11, <1>12, <1>13,
     <1>14 DEF Next

\* The invariant that the mapping rests on.
LEMMA ShapeInvariant == Spec => []ShapeInv
<1>1. Init => ShapeInv
  BY DEF Init, ShapeInv, CommitShape, Written, Empty
<1>2. TypeOK /\ TypeOK' /\ IndexInv /\ ShapeInv /\ [Next]_vars => ShapeInv'
  BY ShapeStep, GhostsGrow DEF IndexInv, ShapeInv
<1> QED
  BY <1>1, <1>2, TypeCorrect, IndexInvariant, PTL DEF Spec

\* A read depends on the key's own entries only.
LEMMA ReadFrame ==
  ASSUME NEW k, values'[k] = values[k], latest'[k] = latest[k], NEW v
  PROVE  /\ UsesIndex(k, v)' <=> UsesIndex(k, v)
         /\ GetValueOption(k, v)' = GetValueOption(k, v)
BY DEF GetValueOption, UsesIndex, SlowScan, StoredVersions

\* A regular step is a step of the abstract store or leaves it alone.
LEMMA StepSimulates ==
  ASSUME TypeOK, TypeOK', IndexInv, ShapeInv, Regular, [Next]_vars
  PROVE  [Abstract!Next]_(Abstract!svars)
<1>0. ~torn /\ ~pruned /\ ~pruned'
  BY DEF Regular, TypeOK, Next, vars, ghosts, Set, Delete, BeginBlock, CommitStart,
         PutValue, PutLatest, PutVersion, CreateSnapshot, Prune, Reply, LoseReply, IoError,
         Reopen, Crash, Restart, RestoreFromSnapshot
<1>1. /\ TypeOK /\ TypeOK' /\ IndexExact /\ HeightsAgree /\ CommitShape
      /\ IndexInv /\ ~torn /\ ~pruned' /\ BatchProgress
  BY <1>0 DEF IndexInv, ShapeInv
<1>2. None \notin Values
  BY ConstantsAssumption
<1>3. ASSUME values' = values, latest' = latest, diskVersion' = diskVersion
      PROVE  Durable' = Durable
  BY <1>3, ReadFrame DEF Durable
<1>4. ASSUME NEW k \in Keys, NEW x \in Values, Set(k, x)
      PROVE  Abstract!Write(k, x)
  <2>1. /\ values' = values /\ latest' = latest /\ diskVersion' = diskVersion
        /\ version' = version /\ batch' = batch /\ batch = Empty
        /\ pending' = [pending EXCEPT ![k] = x]
    BY <1>1, <1>4 DEF Set, disk, commit, CommitShape
  <2>2. \A j \in Keys : GetValueOption(j, version)' = GetValueOption(j, version)
    BY <2>1 DEF GetValueOption, UsesIndex, SlowScan, StoredVersions
  <2>3. \A j \in Keys : pending'[j] = IF j = k THEN x ELSE pending[j]
    BY <1>1, <2>1 DEF TypeOK
  <2>4. \A j \in Keys : Visible'[j] = IF j = k THEN x ELSE Visible[j]
    BY <1>2, <2>1, <2>2, <2>3 DEF Visible, Get, Empty
  <2>5. Visible' = [Visible EXCEPT ![k] = x]
    BY <2>4 DEF Visible
  <2>6. Durable' = Durable
    BY <1>3, <2>1
  <2> QED BY <2>5, <2>6 DEF Abstract!Write
<1>5. CASE BeginBlock
  <2>1. /\ values' = values /\ latest' = latest /\ diskVersion' = diskVersion
        /\ version' = acked + 1 /\ batch' = batch /\ pending' = pending
        /\ pc = "idle" /\ version = diskVersion /\ diskVersion <= acked + 1
    BY <1>1, <1>5 DEF BeginBlock, disk, CommitShape, HeightsAgree
  <2>2. version' \in Versions /\ diskVersion <= version'
    BY <1>1, <2>1 DEF TypeOK, Versions
  <2>3. \A j \in Keys : GetValueOption(j, version)' = GetValueOption(j, version')
    BY <2>1 DEF GetValueOption, UsesIndex, SlowScan, StoredVersions
  <2>4. \A j \in Keys : GetValueOption(j, version') = GetValueOption(j, version)
    BY <1>1, <2>1, <2>2, NothingAbove
  <2>5. Visible' = Visible
    BY <2>1, <2>3, <2>4 DEF Visible, Get
  <2> QED BY <1>3, <2>1, <2>5 DEF Abstract!svars
<1>6. CASE CommitStart
  <2>1. /\ values' = values /\ latest' = latest /\ diskVersion' = diskVersion
        /\ version' = version /\ batch = Empty /\ batch' = pending /\ pending' = Empty
    BY <1>1, <1>6 DEF CommitStart, disk, CommitShape
  <2>2. \A j \in Keys : GetValueOption(j, version)' = GetValueOption(j, version)
    BY <2>1 DEF GetValueOption, UsesIndex, SlowScan, StoredVersions
  <2>3. Visible' = Visible
    BY <2>1, <2>2 DEF Visible, Get, Empty
  <2> QED BY <1>3, <2>1, <2>3 DEF Abstract!svars
\* The puts of a commit: below the block's version nothing moves, and what the engine
\* reads of a key that is being put comes from the batch.
<1>7. ASSUME NEW k \in Keys, PutValue(k) \/ PutLatest(k)
      PROVE  UNCHANGED Abstract!svars
  <2>1. /\ Committing /\ k \in Written(batch) /\ version' = version /\ batch' = batch
        /\ pending' = pending /\ diskVersion' = diskVersion
        /\ \A j \in Keys \ {k} : values'[j] = values[j] /\ latest'[j] = latest[j]
    BY <1>1, <1>7 DEF PutValue, PutLatest, memory, Committing, BatchProgress, TypeOK
  <2>2. diskVersion \in Versions /\ Settled(diskVersion)
    <3>1. diskVersion < version
      BY <2>1 DEF Regular
    <3> QED BY <1>1, <3>1 DEF Settled, TypeOK, Versions
  <2>3. Durable' = Durable
    BY <1>1, <2>1, <2>2, SettledRead DEF Durable
  <2>4. ASSUME NEW j \in Keys \ {k}
        PROVE  GetValueOption(j, version)' = GetValueOption(j, version)
    <3>1. values'[j] = values[j] /\ latest'[j] = latest[j] /\ version' = version
      BY <2>1
    <3>2. StoredVersions(j, version)' = StoredVersions(j, version)
      BY <3>1 DEF StoredVersions
    <3>3. SlowScan(j, version)' = SlowScan(j, version)
      BY <3>1, <3>2 DEF SlowScan
    <3> QED BY <3>1, <3>3 DEF GetValueOption, UsesIndex
  <2>5. Visible' = Visible
    BY <2>1, <2>4 DEF Visible, Get, Written
  <2> QED BY <2>3, <2>5 DEF Abstract!svars
\* What a commit has written is what its batch showed.
<1>8. ASSUME NEW k \in Keys, k \in Written(batch), latest[k] = version,
             values[k][version] = batch[k]
      PROVE  GetValueOption(k, version) = batch[k]
  <2>1. version \in Int /\ version # None /\ version <= version
    BY <1>1, ConstantsAssumption DEF TypeOK, Versions
  <2> QED BY <1>8, <2>1 DEF GetValueOption, UsesIndex
<1>9. ASSUME pc \in {"version", "snapshot", "prune", "done"}
      PROVE  \A k \in Keys : Visible[k] = GetValueOption(k, version)
  <2>1. pending = Empty
    BY <1>1, <1>9 DEF CommitShape
  <2>2. \A k \in Written(batch) : latest[k] = version /\ values[k][version] = batch[k]
    BY <1>1, <1>9 DEF CommitShape, BatchProgress
  <2> QED BY <1>8, <2>1, <2>2 DEF Visible, Get, Written, Empty
<1>10. CASE PutVersion
  <2>1. /\ values' = values /\ latest' = latest /\ diskVersion' = version
        /\ version' = version /\ batch' = batch /\ pending' = pending /\ pc = "version"
    BY <1>10 DEF PutVersion
  <2>2. \A j \in Keys : /\ GetValueOption(j, diskVersion)' = GetValueOption(j, version)
                        /\ GetValueOption(j, version)' = GetValueOption(j, version)
    BY <2>1 DEF GetValueOption, UsesIndex, SlowScan, StoredVersions
  <2>3. Visible' = Visible
    BY <2>1, <2>2 DEF Visible, Get
  <2>4. Durable' = Visible
    <3>1. \A j \in Keys : Durable'[j] = Visible[j]
      BY <1>9, <2>1, <2>2 DEF Durable
    <3> QED BY <3>1 DEF Durable, Visible
  <2> QED BY <2>3, <2>4 DEF Abstract!Commit, Abstract!Next
\* The batch goes when its values are what the engine reads anyway.
<1>11. ASSUME pc \in {"snapshot", "prune", "done"}, values' = values, latest' = latest,
              diskVersion' = diskVersion, version' = version, pending' = pending,
              batch' = Empty \/ batch' = batch
       PROVE  UNCHANGED Abstract!svars
  <2>1. pending = Empty
    BY <1>1, <1>11 DEF CommitShape
  <2>2. \A j \in Keys : GetValueOption(j, version)' = GetValueOption(j, version)
    BY <1>11 DEF GetValueOption, UsesIndex, SlowScan, StoredVersions
  <2>3. \A j \in Keys : Visible[j] = GetValueOption(j, version)
    BY <1>9, <1>11
  <2>4. \A j \in Keys : Visible'[j] = Visible[j]
    <3>1. CASE batch' = Empty
      BY <1>11, <2>1, <2>2, <2>3, <3>1 DEF Visible, Get, Empty
    <3>2. CASE batch' = batch
      BY <1>11, <2>2, <3>2 DEF Visible, Get
    <3> QED BY <1>11, <3>1, <3>2
  <2>5. Visible' = Visible
    BY <2>4 DEF Visible
  <2> QED BY <1>3, <1>11, <2>5 DEF Abstract!svars
<1>12. CASE CreateSnapshot \/ Reply \/ LoseReply
  BY <1>11, <1>12 DEF CreateSnapshot, Reply, LoseReply, disk, memory
<1>13. CASE Prune
  <2>1. values' = values /\ latest' = latest
    BY <1>1, <1>13, PruneNothing
  <2> QED BY <1>11, <1>13, <2>1 DEF Prune, memory
\* A new process reads what is durable, whatever the old one was doing.
<1>14. ASSUME Reopen
       PROVE  Abstract!Restart
  <2>1. /\ values' = values /\ latest' = latest /\ diskVersion' = diskVersion
        /\ version' = diskVersion /\ batch' = Empty /\ pending' = Empty
    BY <1>14 DEF Reopen, disk
  <2>2. \A j \in Keys : GetValueOption(j, version)' = GetValueOption(j, diskVersion)
    BY <2>1 DEF GetValueOption, UsesIndex, SlowScan, StoredVersions
  <2>3. Visible' = Durable
    BY <2>1, <2>2 DEF Visible, Durable, Get, Empty
  <2> QED BY <1>3, <2>1, <2>3 DEF Abstract!Restart
<1>15. CASE Crash \/ Restart
  BY <1>14, <1>15 DEF Crash, Restart, Abstract!Next
<1>16. CASE IoError
  <2>1. CASE Committing
    <3>1. torn'
      BY <1>16, <2>1 DEF IoError
    <3> QED BY <1>15, <3>1 DEF Regular
  <2>2. CASE ~Committing
    BY <1>11, <1>16, <2>2 DEF IoError, disk
  <2> QED BY <2>1, <2>2
<1>17. ASSUME NEW s \in Versions, RestoreFromSnapshot(s)
       PROVE  [Abstract!Next]_(Abstract!svars)
  <2>1. torn'
    BY <1>17 DEF RestoreFromSnapshot
  <2> QED BY <1>15, <2>1 DEF Regular
<1>18. ASSUME NEW k \in Deletable, Delete(k)
       PROVE  Abstract!Erase(k) /\ k \in Keys
  <2>1. /\ values' = values /\ latest' = latest /\ diskVersion' = diskVersion
        /\ version' = version /\ batch' = batch /\ batch = Empty
        /\ pending' = [pending EXCEPT ![k] = None]
    BY <1>1, <1>18 DEF Delete, disk, commit, CommitShape
  <2>2. \A j \in Keys : GetValueOption(j, version)' = GetValueOption(j, version)
    BY <2>1 DEF GetValueOption, UsesIndex, SlowScan, StoredVersions
  <2>3. k \in Keys /\ \A j \in Keys : pending'[j] = IF j = k THEN None ELSE pending[j]
    BY <1>1, <2>1, ConstantsAssumption DEF TypeOK
  <2>4. GetValueOption(k, version) = None
    BY <1>18 DEF Regular
  <2>5. \A j \in Keys : Visible'[j] = IF j = k THEN None ELSE Visible[j]
    BY <2>1, <2>2, <2>3, <2>4 DEF Visible, Get, Empty
  <2>6. Visible' = [Visible EXCEPT ![k] = None]
    BY <2>3, <2>5 DEF Visible
  <2>7. Durable' = Durable
    BY <1>3, <2>1
  <2> QED BY <2>3, <2>6, <2>7 DEF Abstract!Erase
<1>19. CASE UNCHANGED vars
  <2>1. /\ values' = values /\ latest' = latest /\ diskVersion' = diskVersion
        /\ version' = version /\ batch' = batch /\ pending' = pending
    BY <1>19 DEF vars
  <2>2. \A j \in Keys : GetValueOption(j, version)' = GetValueOption(j, version)
    BY <2>1 DEF GetValueOption, UsesIndex, SlowScan, StoredVersions
  <2>3. Visible' = Visible
    BY <2>1, <2>2 DEF Visible, Get
  <2> QED BY <1>3, <2>1, <2>3 DEF Abstract!svars
<1> QED
  BY <1>4, <1>5, <1>6, <1>7, <1>10, <1>12, <1>13, <1>15, <1>16, <1>17, <1>18, <1>19
     DEF Next, Abstract!Next

\* Whatever faults happen, every regular step of the storage is a step of the abstract
\* store or leaves it alone: a crash anywhere, in a commit too, goes back to the durable
\* state, and the puts of a commit appear as one atomic step.
THEOREM RegularStepsMap == Spec => [][Regular => [Abstract!Next]_(Abstract!svars)]_vars
<1>1. TypeOK /\ TypeOK' /\ IndexInv /\ ShapeInv /\ [Next]_vars
        => [Regular => [Abstract!Next]_(Abstract!svars)]_vars
  BY StepSimulates
<1> QED
  BY <1>1, TypeCorrect, IndexInvariant, ShapeInvariant, PTL DEF Spec

\* A setting in which every step is regular.
Undisturbed == Deletable = {} /\ ~PruningEnabled /\ Faults \subseteq {"restart"}

NeverBehind ==
    /\ ~torn /\ ~pruned
    /\ pc \notin {"snapshot", "prune"}
    /\ pc # "done" => diskVersion = acked

\* In that setting the sequencer is never behind the disk when a block begins.
LEMMA NeverBehindStep ==
  ASSUME Undisturbed, TypeOK, IndexInv, NeverBehind, [Next]_vars
  PROVE  NeverBehind' /\ Regular
<1>1. ~Crash /\ ~IoError /\ ~LoseReply /\ \A s \in Versions : ~RestoreFromSnapshot(s)
  BY DEF Undisturbed, Crash, IoError, LoseReply, RestoreFromSnapshot, Fault
<1>2. ~CreateSnapshot /\ ~Prune
  BY DEF NeverBehind, CreateSnapshot, Prune
<1>3. ~ \E k \in Deletable : Delete(k)
  BY DEF Undisturbed
<1>4. HeightsAgree
  BY DEF IndexInv, NeverBehind
<1>5. NeverBehind'
  BY <1>1, <1>2, <1>3, <1>4
     DEF Next, NeverBehind, Undisturbed, HeightsAgree, TypeOK, vars, disk, memory, commit,
         ghosts, Set, BeginBlock, CommitStart, PutValue, PutLatest, PutVersion, Reply,
         Restart, Reopen
<1>6. Committing => diskVersion < version
  BY <1>4 DEF Committing, NeverBehind, HeightsAgree, TypeOK, Versions
<1> QED BY <1>3, <1>5, <1>6 DEF Regular, NeverBehind

\* Storage implements the abstract store, as long as nothing is deleted or pruned and a
\* process stops only between two blocks.
THEOREM StorageRefines == Undisturbed => (Spec => ImplementsVersionedStore)
<1> SUFFICES ASSUME Undisturbed PROVE Spec => ImplementsVersionedStore
  OBVIOUS
<1>1. Init => Abstract!Init
  <2> SUFFICES ASSUME Init PROVE Abstract!Init
    OBVIOUS
  <2>1. \A k \in Keys : GetValueOption(k, 0) = None
    BY DEF Init, GetValueOption, UsesIndex, SlowScan, StoredVersions, Empty
  <2> QED BY <2>1 DEF Init, Abstract!Init, Visible, Durable, Get, Empty
<1>2. Init => NeverBehind
  BY DEF Init, NeverBehind
<1>3. TypeOK /\ IndexInv /\ NeverBehind /\ [Next]_vars => NeverBehind'
  BY NeverBehindStep
<1>4. TypeOK /\ TypeOK' /\ IndexInv /\ ShapeInv /\ NeverBehind /\ [Next]_vars
        => [Abstract!Next]_(Abstract!svars)
  BY NeverBehindStep, StepSimulates
<1> QED
  BY <1>1, <1>2, <1>3, <1>4, TypeCorrect, IndexInvariant, ShapeInvariant, PTL
     DEF Spec, ImplementsVersionedStore, Abstract!Spec
===============================================================================
