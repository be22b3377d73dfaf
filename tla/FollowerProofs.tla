--------------------------- MODULE FollowerProofs ----------------------------
(***************************************************************************)
(* The height a follower reports is a promise it has kept, for any number  *)
(* of loops, any batch size and any number of blocks and faults.           *)
(*                                                                         *)
(* SyncedMeansReplayed is not inductive: what the end of a sync writes is  *)
(* a height that was asked for long before. Progress adds, for each loop,  *)
(* that everything below its next block has been replayed.                 *)
(***************************************************************************)
EXTENDS Follower, SequenceTheorems, TLAPS

Places == {"off", "head", "ask", "fetch", "finish", "sleep"}

FollowerTypes ==
  /\ chain \in Seq(Kinds)
  /\ times \in Seq(Nat)
  /\ Len(times) = Len(chain)
  /\ height \in 0 .. Len(chain)
  /\ task \in [Tasks -> [pc : Places, next : Nat, target : Nat]]

Replayed(h) == \A g \in 1 .. h : times[g] > 0

\* A loop that asks, fetches or finishes has replayed every block before its next
\* one; no loop aims beyond the leader's blocks or goes beyond its aim.
Progress ==
  \A k \in Tasks :
    /\ Syncing(k) => /\ task[k].next \in 1 .. Len(chain) + 1
                     /\ Replayed(task[k].next - 1)
    /\ task[k].pc \in {"fetch", "finish"} =>
         /\ task[k].target \in 0 .. Len(chain)
         /\ task[k].next <= task[k].target + 1
    /\ task[k].pc = "finish" => task[k].next = task[k].target + 1

FollowerInv == FollowerTypes /\ Progress /\ SyncedMeansReplayed

\* Nothing is replayed at first, and no height is claimed.
LEMMA InitFollowerInv == Init => FollowerInv
<1> SUFFICES ASSUME Init PROVE FollowerInv
  OBVIOUS
<1>1. Len(chain) = 0 /\ Len(times) = 0 /\ chain \in Seq(Kinds) /\ times \in Seq(Nat)
  BY DEF Init
<1>2. DOMAIN times = {}
  BY DEF Init
<1>3. FollowerTypes
  BY <1>1 DEF Init, FollowerTypes, Places, Off
<1>4. Progress
  BY DEF Init, Progress, Syncing, Off
<1>5. SyncedMeansReplayed
  BY <1>2 DEF Init, SyncedMeansReplayed
<1> QED BY <1>3, <1>4, <1>5 DEF FollowerInv

\* A new block of the leader disturbs no promise: it is beyond all of them.
LEMMA PublishKeeps ==
  ASSUME FollowerInv, NEW kind \in Kinds, Publish(kind)
  PROVE  FollowerInv'
<1> USE DEF FollowerInv, FollowerTypes, Publish
<1>1. /\ chain' \in Seq(Kinds) /\ times' \in Seq(Nat)
      /\ Len(chain') = Len(chain) + 1 /\ Len(times') = Len(chain) + 1
      /\ times'[Len(chain) + 1] = 0
      /\ \A h \in 1 .. Len(chain) : times'[h] = times[h]
  BY 0 \in Nat
<1>2. Len(chain) \in Nat /\ DOMAIN times = 1 .. Len(chain)
      /\ DOMAIN times' = 1 .. Len(chain) + 1
  BY <1>1
<1>3. FollowerTypes'
  BY <1>1, <1>2
<1>4. Progress'
  <2> SUFFICES ASSUME NEW k \in Tasks
               PROVE  (/\ Syncing(k) => /\ task[k].next \in 1 .. Len(chain) + 1
                                        /\ Replayed(task[k].next - 1)
                       /\ task[k].pc \in {"fetch", "finish"} =>
                            /\ task[k].target \in 0 .. Len(chain)
                            /\ task[k].next <= task[k].target + 1
                       /\ task[k].pc = "finish" => task[k].next = task[k].target + 1)'
    BY DEF Progress
  <2> QED BY <1>1, <1>2 DEF Progress, Syncing, Replayed
<1>5. SyncedMeansReplayed'
  BY <1>1, <1>2 DEF SyncedMeansReplayed
<1> QED BY <1>3, <1>4, <1>5

\* A batch replays the blocks from its first one up to an error, so that what is
\* replayed stays without a gap.
LEMMA ReplayBatchKeeps ==
  ASSUME FollowerInv, NEW k \in Tasks, ReplayBatch(k)
  PROVE  FollowerInv'
<1> DEFINE from == task[k].next
           end  == IF from + BatchSize - 1 <= task[k].target
                   THEN from + BatchSize - 1 ELSE task[k].target
           done == Replayable(from, end)
<1>1. /\ Len(chain) \in Nat /\ Len(times) = Len(chain)
      /\ DOMAIN times = 1 .. Len(chain)
      /\ times \in [1 .. Len(chain) -> Nat]
  BY DEF FollowerInv, FollowerTypes
<1>2. /\ task[k].pc = "fetch" /\ from <= task[k].target
      /\ from \in 1 .. Len(chain) /\ task[k].target \in 1 .. Len(chain)
      /\ Replayed(from - 1)
  BY <1>1 DEF FollowerInv, FollowerTypes, Progress, Syncing, ReplayBatch
<1>3. from <= end /\ end <= task[k].target /\ end \in 1 .. Len(chain)
  <2>1. BatchSize \in Nat /\ BatchSize >= 1
    BY FollowerAssumption
  <2>2. from \in Nat /\ task[k].target \in Nat
    BY <1>1, <1>2
  <2> HIDE DEF from
  <2>3. from <= end /\ end <= task[k].target /\ end \in Nat
    BY <1>2, <2>1, <2>2
  <2> HIDE DEF end
  <2> QED BY <1>1, <1>2, <2>2, <2>3
<1>4. times' = [h \in 1 .. Len(chain) |-> IF h \in done /\ times[h] < 2
                                          THEN times[h] + 1 ELSE times[h]]
  BY <1>1 DEF ReplayBatch
<1>5. /\ times' \in Seq(Nat) /\ Len(times') = Len(chain)
      /\ DOMAIN times' = 1 .. Len(chain)
  <2>1. \A h \in 1 .. Len(chain) :
          (IF h \in done /\ times[h] < 2 THEN times[h] + 1 ELSE times[h]) \in Nat
    BY <1>1
  <2> HIDE DEF done
  <2>2. times' \in [1 .. Len(chain) -> Nat]
    BY <2>1, <1>4
  <2> QED BY <2>2, <1>1
<1>6. /\ \A h \in 1 .. Len(chain) : times[h] > 0 => times'[h] > 0
      /\ \A h \in done : times'[h] > 0
      /\ \A h \in 1 .. Len(chain) : times'[h] > 0 => times[h] > 0 \/ h \in done
  <2>1. done \subseteq 1 .. Len(chain)
    BY <1>2, <1>3 DEF Replayable
  <2> HIDE DEF done
  <2> QED BY <1>1, <1>4, <2>1
<1>7. \A h \in done : h \in from .. end /\ \A g \in from .. h : g \in done
  BY <1>2, <1>3 DEF Replayable
<1>8. /\ chain' = chain /\ height' = height
      /\ task' = IF end \in done THEN [task EXCEPT ![k].next = end + 1]
                 ELSE [task EXCEPT ![k].pc = "sleep"]
  BY DEF ReplayBatch, Goto, AfterBatch
<1> HIDE DEF done, end
<1>9. FollowerTypes'
  <2>1. end + 1 \in Nat
    BY <1>1, <1>3
  <2>2. task' \in [Tasks -> [pc : Places, next : Nat, target : Nat]]
    BY <1>8, <2>1 DEF FollowerInv, FollowerTypes, Places
  <2> QED BY <1>5, <1>8, <2>2 DEF FollowerInv, FollowerTypes
<1>10. SyncedMeansReplayed'
  <2>1. \A h \in 1 .. height' : times'[h] > 0
    BY <1>1, <1>6, <1>8 DEF FollowerInv, FollowerTypes, SyncedMeansReplayed
  <2>2. ASSUME NEW h \in DOMAIN times', times'[h] > 0, NEW g \in 1 .. h - 1
        PROVE  times'[g] > 0
    <3>1. h \in 1 .. Len(chain) /\ g \in 1 .. Len(chain)
      BY <1>1, <1>5, <2>2
    <3>2. CASE times[h] > 0
      BY <1>1, <1>6, <3>1, <3>2, <2>2 DEF FollowerInv, SyncedMeansReplayed
    <3>3. CASE h \in done /\ g < from
      <4>1. times[g] > 0
        BY <1>2, <3>1, <3>3 DEF Replayed
      <4> QED BY <4>1, <1>6, <3>1
    <3>4. CASE h \in done /\ g >= from
      BY <1>2, <1>6, <1>7, <3>1, <3>4, <2>2
    <3> QED BY <1>2, <1>6, <2>2, <3>1, <3>2, <3>3, <3>4
  <2> QED BY <2>1, <2>2 DEF SyncedMeansReplayed
<1>11. Progress'
  <2> SUFFICES ASSUME NEW j \in Tasks
               PROVE  (/\ Syncing(j) => /\ task[j].next \in 1 .. Len(chain) + 1
                                        /\ Replayed(task[j].next - 1)
                       /\ task[j].pc \in {"fetch", "finish"} =>
                            /\ task[j].target \in 0 .. Len(chain)
                            /\ task[j].next <= task[j].target + 1
                       /\ task[j].pc = "finish" => task[j].next = task[j].target + 1)'
    BY DEF Progress
  <2>1. CASE j # k
    <3>1. task'[j] = task[j]
      BY <1>8, <2>1 DEF FollowerInv, FollowerTypes
    <3>2. \A h \in 0 .. Len(chain) : Replayed(h) => Replayed(h)'
      BY <1>1, <1>6 DEF Replayed
    <3>3. Syncing(j)' = Syncing(j)
      BY <3>1 DEF Syncing
    <3>4. ASSUME Syncing(j)
          PROVE  (task[j].next \in 1 .. Len(chain) + 1 /\ Replayed(task[j].next - 1))'
      <4>1. task[j].next \in 1 .. Len(chain) + 1 /\ Replayed(task[j].next - 1)
        BY <3>4 DEF FollowerInv, Progress
      <4>2. \A g \in 1 .. task[j].next - 1 : times'[g] > 0
        BY <4>1, <3>2, <1>1, <1>6 DEF Replayed
      <4> QED BY <4>1, <4>2, <3>1, <1>8 DEF Replayed
    <3> QED BY <3>1, <3>3, <3>4, <1>8 DEF FollowerInv, Progress
  <2>2. CASE j = k /\ end \in done
    <3>1. /\ task'[j].pc = "fetch" /\ task'[j].next = end + 1
          /\ task'[j].target = task[k].target
      BY <1>2, <1>8, <2>2 DEF FollowerInv, FollowerTypes
    <3>2. \A g \in 1 .. end : times'[g] > 0
      BY <1>2, <1>3, <1>6, <1>7, <2>2, <1>1 DEF Replayed
    <3> QED BY <3>1, <3>2, <1>1, <1>2, <1>3, <1>8 DEF Replayed, Syncing
  <2>3. CASE j = k /\ end \notin done
    <3>1. task'[j].pc = "sleep"
      BY <1>8, <2>3 DEF FollowerInv, FollowerTypes
    <3> QED BY <3>1 DEF Syncing
  <2> QED BY <2>1, <2>2, <2>3
<1> QED BY <1>9, <1>10, <1>11 DEF FollowerInv

\* A step that replays nothing moves at most one loop: the invariant holds of the
\* others as before, and what is left is where that loop and the height stand.
LEMMA QuietStepKeeps ==
  ASSUME FollowerInv, NEW k \in Tasks, NEW r \in [pc : Places, next : Nat, target : Nat],
         chain' = chain, times' = times, task' = [task EXCEPT ![k] = r],
         height' \in 0 .. Len(chain), Replayed(height'),
         r.pc \in {"ask", "fetch", "finish"} =>
           r.next \in 1 .. Len(chain) + 1 /\ Replayed(r.next - 1),
         r.pc \in {"fetch", "finish"} =>
           r.target \in 0 .. Len(chain) /\ r.next <= r.target + 1,
         r.pc = "finish" => r.next = r.target + 1
  PROVE  FollowerInv'
<1>1. FollowerTypes'
  BY DEF FollowerInv, FollowerTypes
<1>2. ASSUME NEW j \in Tasks
      PROVE  (/\ Syncing(j) => /\ task[j].next \in 1 .. Len(chain) + 1
                               /\ Replayed(task[j].next - 1)
              /\ task[j].pc \in {"fetch", "finish"} =>
                   /\ task[j].target \in 0 .. Len(chain)
                   /\ task[j].next <= task[j].target + 1
              /\ task[j].pc = "finish" => task[j].next = task[j].target + 1)'
  <2>1. CASE j = k
    <3>1. task'[j] = r
      BY <2>1 DEF FollowerInv, FollowerTypes
    <3> QED BY <3>1 DEF Syncing, Replayed
  <2>2. CASE j # k
    <3>1. task'[j] = task[j]
      BY <2>2 DEF FollowerInv, FollowerTypes
    <3> QED BY <3>1 DEF FollowerInv, Progress, Syncing, Replayed
  <2> QED BY <2>1, <2>2
<1>3. Progress'
  BY <1>2 DEF Progress
<1>4. SyncedMeansReplayed'
  BY DEF FollowerInv, SyncedMeansReplayed, Replayed
<1> QED BY <1>1, <1>3, <1>4 DEF FollowerInv

\* Every other step of a loop.
LEMMA LoopKeeps ==
  ASSUME FollowerInv, NEW k \in Tasks,
         \/ Start(k) \/ LoopHead(k) \/ FetchLeaderHeight(k) \/ AllReplayed(k)
         \/ WriteHeight(k) \/ NetworkError(k) \/ Wake(k)
  PROVE  FollowerInv'
<1>1. /\ task[k] \in [pc : Places, next : Nat, target : Nat]
      /\ Len(chain) \in Nat /\ height \in 0 .. Len(chain) /\ Replayed(height)
      /\ task \in [Tasks -> [pc : Places, next : Nat, target : Nat]]
  BY DEF FollowerInv, FollowerTypes, SyncedMeansReplayed, Replayed
<1>2. /\ Syncing(k) => /\ task[k].next \in 1 .. Len(chain) + 1
                       /\ Replayed(task[k].next - 1)
      /\ task[k].pc \in {"fetch", "finish"} =>
           /\ task[k].target \in 0 .. Len(chain)
           /\ task[k].next <= task[k].target + 1
      /\ task[k].pc = "finish" => task[k].next = task[k].target + 1
  BY DEF FollowerInv, Progress
<1> DEFINE At(pc) == [task[k] EXCEPT !.pc = pc]
<1>3. \A pc \in Places : /\ At(pc) \in [pc : Places, next : Nat, target : Nat]
                         /\ At(pc).pc = pc /\ At(pc).next = task[k].next
                         /\ At(pc).target = task[k].target
  BY <1>1
<1>4. ASSUME NEW pc \in {"head", "sleep"}, chain' = chain, times' = times,
             height' = height, Goto(k, pc)
      PROVE  FollowerInv'
  <2>1. pc \in Places
    BY DEF Places
  <2>2. task' = [task EXCEPT ![k] = At(pc)]
    BY <1>1, <1>4 DEF Goto
  <2> HIDE DEF At
  <2> QED BY <1>1, <1>3, <1>4, <2>1, <2>2, QuietStepKeeps
<1>5. CASE Start(k)
  BY <1>4, <1>5 DEF Start
<1>6. CASE LoopHead(k)
  <2>1. CASE running
    <3> DEFINE r == [pc |-> "ask", next |-> height + 1, target |-> 0]
    <3>1. r \in [pc : Places, next : Nat, target : Nat] /\ r.pc = "ask"
          /\ r.next \in 1 .. Len(chain) + 1 /\ r.next - 1 = height
      BY <1>1 DEF Places
    <3>2. chain' = chain /\ times' = times /\ height' = height
          /\ task' = [task EXCEPT ![k] = r]
      BY <1>6, <2>1 DEF LoopHead
    <3> HIDE DEF r
    <3> QED BY <1>1, <3>1, <3>2, QuietStepKeeps
  <2>2. CASE ~running
    <3>1. Off \in [pc : Places, next : Nat, target : Nat] /\ Off.pc = "off"
      BY DEF Off, Places
    <3>2. chain' = chain /\ times' = times /\ height' = height
          /\ task' = [task EXCEPT ![k] = Off]
      BY <1>6, <2>2 DEF LoopHead
    <3> QED BY <1>1, <3>1, <3>2, QuietStepKeeps
  <2> QED BY <2>1, <2>2
<1>7. CASE FetchLeaderHeight(k)
  <2> DEFINE pc == IF Len(chain) < task[k].next THEN "sleep" ELSE "fetch"
             r == [task[k] EXCEPT !.target = Len(chain), !.pc = pc]
  <2>1. r \in [pc : Places, next : Nat, target : Nat] /\ r.pc = pc
        /\ r.next = task[k].next /\ r.target = Len(chain)
    BY <1>1 DEF Places
  <2>2. chain' = chain /\ times' = times /\ height' = height
        /\ task' = [task EXCEPT ![k] = r]
    BY <1>1, <1>7 DEF FetchLeaderHeight
  <2>3. task[k].next \in 1 .. Len(chain) + 1 /\ Replayed(task[k].next - 1)
    BY <1>2, <1>7 DEF FetchLeaderHeight, Syncing
  <2>4. r.pc \in {"fetch", "finish"} => r.target \in 0 .. Len(chain) /\ r.next <= r.target + 1
    BY <1>1, <2>1, <2>3
  <2>5. r.pc # "finish"
    BY <2>1
  <2> HIDE DEF r, pc
  <2>6. r.next \in 1 .. Len(chain) + 1 /\ Replayed(r.next - 1)
    BY <2>1, <2>3
  <2>7. height' \in 0 .. Len(chain) /\ Replayed(height')
    BY <1>1, <2>2
  <2> QED BY <2>1, <2>2, <2>4, <2>5, <2>6, <2>7, QuietStepKeeps
<1>8. CASE AllReplayed(k)
  <2>1. chain' = chain /\ times' = times /\ height' = height
        /\ task' = [task EXCEPT ![k] = At("finish")]
    BY <1>1, <1>8 DEF AllReplayed, Goto
  <2>2. "finish" \in Places /\ Syncing(k) /\ task[k].next = task[k].target + 1
        /\ task[k].target \in 0 .. Len(chain)
    BY <1>1, <1>2, <1>8 DEF AllReplayed, Places, Syncing
  <2> DEFINE r == At("finish")
  <2>3. r \in [pc : Places, next : Nat, target : Nat] /\ r.next = task[k].next
        /\ r.target = task[k].target
    BY <1>3, <2>2
  <2> HIDE DEF At, r
  <2>4. /\ r.next \in 1 .. Len(chain) + 1 /\ Replayed(r.next - 1)
        /\ r.target \in 0 .. Len(chain) /\ r.next = r.target + 1
    BY <1>2, <2>2, <2>3
  <2>5. r.next <= r.target + 1
    BY <2>3, <2>4
  <2>6. height' \in 0 .. Len(chain) /\ Replayed(height')
    BY <1>1, <2>1
  <2>7. task' = [task EXCEPT ![k] = r]
    BY <2>1 DEF r
  <2> QED BY <2>1, <2>3, <2>4, <2>5, <2>6, <2>7, QuietStepKeeps
<1>9. CASE WriteHeight(k)
  <2>1. chain' = chain /\ times' = times /\ height' = task[k].target
        /\ task' = [task EXCEPT ![k] = At("sleep")]
    BY <1>1, <1>9 DEF WriteHeight, Goto
  <2>2. "sleep" \in Places /\ Syncing(k) /\ task[k].next = task[k].target + 1
        /\ task[k].target \in 0 .. Len(chain)
    BY <1>2, <1>9 DEF WriteHeight, Places, Syncing
  <2>3. Replayed(task[k].target)
    BY <1>2, <2>2
  <2> HIDE DEF At
  <2> QED BY <1>1, <1>3, <2>1, <2>2, <2>3, QuietStepKeeps
<1>10. CASE NetworkError(k)
  BY <1>4, <1>10 DEF NetworkError
<1>11. CASE Wake(k)
  BY <1>4, <1>11 DEF Wake
<1> QED BY <1>5, <1>6, <1>7, <1>8, <1>9, <1>10, <1>11

\* A restart forgets the claims together with what they were about.
LEMMA RestartKeeps ==
  ASSUME FollowerInv, Restart
  PROVE  FollowerInv'
<1>1. Len(chain) \in Nat /\ DOMAIN times = 1 .. Len(chain)
  BY DEF FollowerInv, FollowerTypes
<1>2. /\ times' = [h \in 1 .. Len(chain) |-> 0] /\ chain' = chain /\ height' = 0
      /\ task' = [k \in Tasks |-> Off]
  BY <1>1 DEF Restart
<1>3. times' \in Seq(Nat) /\ Len(times') = Len(chain) /\ DOMAIN times' = 1 .. Len(chain)
  <2>1. times' \in [1 .. Len(chain) -> Nat]
    BY <1>2
  <2> QED BY <1>1, <2>1
<1>4. FollowerTypes'
  BY <1>1, <1>2, <1>3 DEF FollowerInv, FollowerTypes, Places, Off
<1>5. Progress'
  BY <1>2 DEF Progress, Syncing, Off
<1>6. SyncedMeansReplayed'
  BY <1>1, <1>2, <1>3 DEF SyncedMeansReplayed
<1> QED BY <1>4, <1>5, <1>6 DEF FollowerInv

\* Every step keeps the invariant.
LEMMA NextFollowerInv ==
  ASSUME FollowerInv, [Next]_vars
  PROVE  FollowerInv'
<1>1. ASSUME chain' = chain, times' = times, height' = height, task' = task
      PROVE  FollowerInv'
  BY <1>1 DEF FollowerInv, FollowerTypes, Progress, SyncedMeansReplayed, Syncing, Replayed
<1>2. CASE UNCHANGED vars
  BY <1>1, <1>2 DEF vars
<1>3. CASE \E kind \in Kinds : Publish(kind)
  BY <1>3, PublishKeeps
<1>4. CASE \E k \in Tasks : Start(k) \/ Loop(k) \/ NetworkError(k)
  BY <1>4, LoopKeeps, ReplayBatchKeeps DEF Loop
<1>5. CASE Stop
  BY <1>1, <1>5 DEF Stop
<1>6. CASE Restart
  BY <1>6, RestartKeeps
<1> QED BY <1>2, <1>3, <1>4, <1>5, <1>6 DEF Next

\* Whatever fails, overlaps, is retried or restarted, the invariant holds.
THEOREM FollowerInvariant == Spec => []FollowerInv
<1>1. Init => FollowerInv
  BY InitFollowerInv
<1>2. FollowerInv /\ [Next]_vars => FollowerInv'
  BY NextFollowerInv
<1> QED BY <1>1, <1>2, PTL DEF Spec

\* The height that get_block_height reports: every block up to it was replayed,
\* and no block was replayed before the ones below it, although the height that is
\* written was asked for before the batches and other loops ran in between.
THEOREM PromiseKept == Spec => []SyncedMeansReplayed
<1>1. FollowerInv => SyncedMeansReplayed
  BY DEF FollowerInv
<1> QED BY <1>1, FollowerInvariant, PTL

-----------------------------------------------------------------------------
(***************************************************************************)
(* No payload twice. While nothing disturbed the syncs there is one of     *)
(* them at most, and nothing beyond its next block has run; when there is  *)
(* none, nothing beyond the height has. A sync that ends early must not    *)
(* have moved past the height, which is what disturbed records.            *)
(***************************************************************************)

Reached(n) == \A h \in DOMAIN times : times[h] > 0 => h <= n

Undisturbed ==
  /\ \A h \in DOMAIN times : times[h] <= 1
  /\ \A j, k \in Tasks : Syncing(j) /\ Syncing(k) => j = k
  /\ \A k \in Tasks : Syncing(k) => Reached(task[k].next - 1)
  /\ \A k \in Tasks : task[k].pc = "ask" => task[k].next = height + 1
  /\ (\A k \in Tasks : ~Syncing(k)) => Reached(height)

OnceInv == ~disturbed => Undisturbed

\* A step that replays nothing and moves one loop.
LEMMA QuietStepOnce ==
  ASSUME FollowerInv, Undisturbed, NEW k \in Tasks,
         NEW r \in [pc : Places, next : Nat, target : Nat],
         times' = times, task' = [task EXCEPT ![k] = r],
         r.pc \in {"ask", "fetch", "finish"} =>
           /\ \A j \in Tasks \ {k} : ~Syncing(j)
           /\ Reached(r.next - 1)
           /\ r.pc = "ask" => r.next = height' + 1,
         r.pc \notin {"ask", "fetch", "finish"} /\ Syncing(k) => Reached(height'),
         height' = height \/ Syncing(k)
  PROVE  Undisturbed'
<1>1. task'[k] = r /\ \A j \in Tasks \ {k} : task'[j] = task[j]
  BY DEF FollowerInv, FollowerTypes
<1>2. /\ Syncing(k)' <=> r.pc \in {"ask", "fetch", "finish"}
      /\ \A j \in Tasks \ {k} : Syncing(j)' <=> Syncing(j)
  BY <1>1 DEF Syncing
<1>3. \A n : Reached(n)' <=> Reached(n)
  BY DEF Reached
<1>4. \A h \in DOMAIN times' : times'[h] <= 1
  BY DEF Undisturbed
<1>5. \A j, l \in Tasks : Syncing(j)' /\ Syncing(l)' => j = l
  BY <1>2 DEF Undisturbed
<1>6. ASSUME NEW j \in Tasks, Syncing(j)' PROVE Reached(task[j].next - 1)'
  <2>1. CASE j = k
    BY <1>1, <1>2, <1>3, <1>6, <2>1 DEF Reached
  <2>2. CASE j # k
    <3>1. Reached(task[j].next - 1) /\ task'[j] = task[j]
      BY <1>1, <1>2, <1>6, <2>2 DEF Undisturbed
    <3> QED BY <3>1 DEF Reached
  <2> QED BY <2>1, <2>2
<1>7. ASSUME NEW j \in Tasks, task'[j].pc = "ask"
      PROVE  task'[j].next = height' + 1
  <2>1. CASE j = k
    BY <1>1, <1>7, <2>1
  <2>2. CASE j # k
    <3>1. task[j].pc = "ask" /\ task[j].next = height + 1 /\ task'[j] = task[j]
      BY <1>1, <1>7, <2>2 DEF Undisturbed
    <3>2. Syncing(j)
      BY <3>1 DEF Syncing
    <3>3. ~Syncing(k)
      BY <2>2, <3>2 DEF Undisturbed
    <3> QED BY <3>1, <3>3
  <2> QED BY <2>1, <2>2
<1>8. ASSUME \A j \in Tasks : ~Syncing(j)' PROVE Reached(height)'
  <2>1. Reached(height')
    <3>1. CASE Syncing(k)
      BY <1>2, <1>8, <3>1
    <3>2. CASE ~Syncing(k)
      BY <1>2, <1>8, <3>2 DEF Undisturbed
    <3> QED BY <3>1, <3>2
  <2> QED BY <2>1 DEF Reached
<1> QED BY <1>4, <1>5, <1>6, <1>7, <1>8 DEF Undisturbed

\* The steps of a loop other than a batch.
LEMMA LoopOnce ==
  ASSUME FollowerInv, Undisturbed, NEW k \in Tasks, ~disturbed',
         \/ Start(k) \/ LoopHead(k) \/ FetchLeaderHeight(k) \/ AllReplayed(k)
         \/ WriteHeight(k) \/ NetworkError(k) \/ Wake(k)
  PROVE  Undisturbed'
<1>1. /\ task[k] \in [pc : Places, next : Nat, target : Nat]
      /\ Len(chain) \in Nat /\ height \in 0 .. Len(chain)
      /\ task \in [Tasks -> [pc : Places, next : Nat, target : Nat]]
      /\ DOMAIN times = 1 .. Len(chain)
  BY DEF FollowerInv, FollowerTypes
<1>2. /\ Syncing(k) => /\ task[k].next \in 1 .. Len(chain) + 1
                       /\ Reached(task[k].next - 1)
                       /\ \A j \in Tasks \ {k} : ~Syncing(j)
      /\ task[k].pc = "ask" => task[k].next = height + 1
      /\ task[k].pc = "finish" => task[k].next = task[k].target + 1
  BY DEF FollowerInv, Progress, Undisturbed
<1> DEFINE At(pc) == [task[k] EXCEPT !.pc = pc]
<1>3. \A pc \in Places : /\ At(pc) \in [pc : Places, next : Nat, target : Nat]
                         /\ At(pc).pc = pc /\ At(pc).next = task[k].next
                         /\ At(pc).target = task[k].target
  BY <1>1
<1>4. ASSUME NEW pc \in {"head", "sleep"}, times' = times, Goto(k, pc),
             height' = height \/ Syncing(k), Syncing(k) => Reached(height')
      PROVE  Undisturbed'
  <2>1. pc \in Places /\ pc \notin {"ask", "fetch", "finish"}
    BY DEF Places
  <2>2. task' = [task EXCEPT ![k] = At(pc)]
    BY <1>1, <1>4 DEF Goto
  <2> DEFINE r == At(pc)
  <2>3. r \in [pc : Places, next : Nat, target : Nat] /\ r.pc = pc
        /\ task' = [task EXCEPT ![k] = r]
    BY <1>3, <2>1, <2>2
  <2> HIDE DEF At, r
  <2> QED BY <1>4, <2>1, <2>3, QuietStepOnce
<1>5. CASE Start(k)
  BY <1>4, <1>5 DEF Start, Syncing
<1>6. CASE LoopHead(k)
  <2>0. task[k].pc = "head" /\ ~Syncing(k) /\ times' = times /\ height' = height
    BY <1>6 DEF LoopHead, Syncing
  <2>1. CASE running
    <3> DEFINE r == [pc |-> "ask", next |-> height + 1, target |-> 0]
    <3>1. r \in [pc : Places, next : Nat, target : Nat] /\ r.pc = "ask"
          /\ r.next = height + 1 /\ r.next - 1 = height
      BY <1>1 DEF Places
    <3>2. /\ task' = [task EXCEPT ![k] = r]
          /\ \A j \in Tasks \ {k} : ~Syncing(j)
      BY <1>6, <2>1 DEF LoopHead
    <3>3. Reached(height)
      BY <2>0, <3>2 DEF Undisturbed
    <3>4. Reached(r.next - 1)
      BY <3>1, <3>3
    <3> HIDE DEF r
    <3> QED BY <2>0, <3>1, <3>2, <3>4, QuietStepOnce
  <2>2. CASE ~running
    <3>1. Off \in [pc : Places, next : Nat, target : Nat] /\ Off.pc = "off"
      BY DEF Off, Places
    <3>2. task' = [task EXCEPT ![k] = Off]
      BY <1>6, <2>2 DEF LoopHead
    <3> QED BY <2>0, <3>1, <3>2, QuietStepOnce
  <2> QED BY <2>1, <2>2
<1>7. CASE FetchLeaderHeight(k)
  <2> DEFINE pc == IF Len(chain) < task[k].next THEN "sleep" ELSE "fetch"
             r == [task[k] EXCEPT !.target = Len(chain), !.pc = pc]
  <2>1. r \in [pc : Places, next : Nat, target : Nat] /\ r.pc \in {"sleep", "fetch"}
        /\ r.next = task[k].next
    BY <1>1 DEF Places
  <2>2. times' = times /\ height' = height /\ task' = [task EXCEPT ![k] = r]
    BY <1>1, <1>7 DEF FetchLeaderHeight
  <2>3. Syncing(k) /\ task[k].next - 1 = height
    BY <1>1, <1>2, <1>7 DEF FetchLeaderHeight, Syncing
  <2> HIDE DEF r, pc
  <2>4. Reached(r.next - 1) /\ Reached(height') /\ \A j \in Tasks \ {k} : ~Syncing(j)
    BY <1>2, <2>1, <2>2, <2>3
  <2>5. r.pc # "ask"
    BY <2>1
  <2> QED BY <2>1, <2>2, <2>4, <2>5, QuietStepOnce
<1>8. CASE AllReplayed(k)
  <2> DEFINE r == At("finish")
  <2>1. times' = times /\ height' = height /\ task' = [task EXCEPT ![k] = r]
        /\ Syncing(k)
    BY <1>1, <1>8 DEF AllReplayed, Goto, Syncing
  <2>2. r \in [pc : Places, next : Nat, target : Nat] /\ r.next = task[k].next
        /\ r.pc = "finish"
    BY <1>3 DEF Places
  <2> HIDE DEF At, r
  <2>3. Reached(r.next - 1) /\ \A j \in Tasks \ {k} : ~Syncing(j)
    BY <1>2, <2>1, <2>2
  <2>4. r.pc # "ask" /\ r.pc \in {"ask", "fetch", "finish"}
    BY <2>2
  <2> QED BY <2>1, <2>2, <2>3, <2>4, QuietStepOnce
<1>9. CASE WriteHeight(k)
  <2>1. times' = times /\ height' = task[k].target /\ Goto(k, "sleep") /\ Syncing(k)
        /\ task[k].pc = "finish"
    BY <1>9 DEF WriteHeight, Syncing
  <2>2. height' = task[k].next - 1
    BY <1>1, <1>2, <2>1
  <2>3. Reached(height')
    BY <1>2, <2>1, <2>2
  <2> QED BY <1>4, <2>1, <2>3
<1>10. CASE NetworkError(k)
  <2>1. /\ times' = times /\ height' = height /\ Goto(k, "sleep")
        /\ Syncing(k) /\ ~(task[k].next > height + 1)
    BY <1>10 DEF NetworkError, Syncing
  <2>2. Reached(height)
    BY <1>1, <1>2, <2>1 DEF Reached
  <2>3. Reached(height')
    BY <2>1, <2>2
  <2> QED BY <1>4, <2>1, <2>3
<1>11. CASE Wake(k)
  BY <1>4, <1>11 DEF Wake, Syncing
<1> QED BY <1>5, <1>6, <1>7, <1>8, <1>9, <1>10, <1>11

\* A batch that is neither cut short nor overlapped replays only new blocks.
LEMMA ReplayBatchOnce ==
  ASSUME FollowerInv, Undisturbed, NEW k \in Tasks, ~disturbed', ReplayBatch(k)
  PROVE  Undisturbed'
<1> DEFINE from == task[k].next
           end  == IF from + BatchSize - 1 <= task[k].target
                   THEN from + BatchSize - 1 ELSE task[k].target
           done == Replayable(from, end)
<1>1. /\ Len(chain) \in Nat /\ DOMAIN times = 1 .. Len(chain)
      /\ times \in [1 .. Len(chain) -> Nat] /\ height \in 0 .. Len(chain)
      /\ task \in [Tasks -> [pc : Places, next : Nat, target : Nat]]
  BY DEF FollowerInv, FollowerTypes
<1>2. /\ task[k].pc = "fetch" /\ Syncing(k) /\ from <= task[k].target
      /\ from \in 1 .. Len(chain) /\ task[k].target \in 1 .. Len(chain)
  BY <1>1 DEF FollowerInv, FollowerTypes, Progress, Syncing, ReplayBatch
<1>3. /\ Reached(from - 1)
      /\ \A j \in Tasks \ {k} : ~Syncing(j)
      /\ \A h \in DOMAIN times : times[h] <= 1
  BY <1>2 DEF Undisturbed
<1>4. end \in 1 .. Len(chain)
  <2>1. BatchSize \in Nat /\ BatchSize >= 1
    BY FollowerAssumption
  <2>2. from \in Nat /\ task[k].target \in Nat
    BY <1>1, <1>2
  <2> HIDE DEF from
  <2>3. from <= end /\ end <= task[k].target /\ end \in Nat
    BY <1>2, <2>1, <2>2
  <2> HIDE DEF end
  <2> QED BY <1>1, <1>2, <2>2, <2>3
<1>5. times' = [h \in 1 .. Len(chain) |-> IF h \in done /\ times[h] < 2
                                          THEN times[h] + 1 ELSE times[h]]
  BY <1>1 DEF ReplayBatch
<1>6. \A h \in done : h \in from .. end
  BY DEF Replayable
<1>7. /\ height' = height
      /\ \/ end \in done /\ task' = [task EXCEPT ![k].next = end + 1]
         \/ /\ task' = [task EXCEPT ![k].pc = "sleep"]
            /\ ~(from > height + 1) /\ done = {}
  BY DEF ReplayBatch, Goto, AfterBatch
<1> HIDE DEF done, end
<1>8. \A j \in Tasks \ {k} : ~Syncing(j)' /\ task'[j].pc # "ask"
  BY <1>1, <1>3, <1>7 DEF Syncing
<1>9. /\ DOMAIN times' = 1 .. Len(chain)
      /\ \A h \in 1 .. Len(chain) :
           times'[h] = IF h \in done /\ times[h] < 2 THEN times[h] + 1 ELSE times[h]
  BY <1>5
<1>10. \A h \in 1 .. Len(chain) : times'[h] <= 1
  <2> SUFFICES ASSUME NEW h \in 1 .. Len(chain) PROVE times'[h] <= 1
    OBVIOUS
  <2>1. CASE h \in done
    <3>1. ~(h <= from - 1)
      BY <1>1, <1>2, <1>6, <2>1
    <3>2. times[h] = 0
      BY <1>1, <1>3, <3>1 DEF Reached
    <3> QED BY <1>9, <3>2
  <2>2. CASE h \notin done
    BY <1>1, <1>3, <1>9, <2>2
  <2> QED BY <2>1, <2>2
<1>11. CASE end \in done /\ task' = [task EXCEPT ![k].next = end + 1]
  <2>1. task'[k].next = end + 1 /\ task'[k].pc = "fetch" /\ Syncing(k)'
    BY <1>1, <1>2, <1>11 DEF Syncing
  <2>2. \A h \in 1 .. Len(chain) : times'[h] > 0 => h <= end
    <3> SUFFICES ASSUME NEW h \in 1 .. Len(chain), times'[h] > 0 PROVE h <= end
      OBVIOUS
    <3>1. CASE h \in done
      BY <1>6, <3>1, <1>1, <1>2, <1>4
    <3>2. CASE h \notin done
      <4>1. h <= from - 1
        BY <1>1, <1>3, <1>9, <3>2 DEF Reached
      <4>2. from <= end
        BY <1>1, <1>2, <1>4, <1>6, <1>11
      <4> QED BY <1>1, <1>2, <1>4, <4>1, <4>2
    <3> QED BY <3>1, <3>2
  <2>3. Reached(task[k].next - 1)'
    BY <1>1, <1>4, <1>9, <2>1, <2>2 DEF Reached
  <2>4. /\ \A j, l \in Tasks : Syncing(j)' /\ Syncing(l)' => j = l
        /\ \A j \in Tasks : Syncing(j)' => Reached(task[j].next - 1)'
        /\ \A j \in Tasks : task'[j].pc = "ask" => task'[j].next = height' + 1
    BY <1>8, <2>1, <2>3
  <2> QED BY <1>9, <1>10, <2>1, <2>4 DEF Undisturbed
<1>12. CASE /\ task' = [task EXCEPT ![k].pc = "sleep"]
            /\ ~(from > height + 1) /\ done = {}
  <2>1. task'[k].pc = "sleep" /\ ~Syncing(k)'
    BY <1>1, <1>12 DEF Syncing
  <2>2. \A h \in 1 .. Len(chain) : times'[h] > 0 => h <= height
    <3> SUFFICES ASSUME NEW h \in 1 .. Len(chain), times'[h] > 0 PROVE h <= height
      OBVIOUS
    <3>1. h <= from - 1
      BY <1>1, <1>3, <1>9, <1>12 DEF Reached
    <3> QED BY <1>1, <1>2, <1>12, <3>1
  <2>3. Reached(height)'
    BY <1>7, <1>9, <2>2 DEF Reached
  <2>4. \A j \in Tasks : ~Syncing(j)' /\ task'[j].pc # "ask"
    BY <1>8, <2>1
  <2> QED BY <1>9, <1>10, <2>3, <2>4 DEF Undisturbed
<1> QED BY <1>7, <1>11, <1>12

\* The height written at the end of an undisturbed sync.
LEMMA PublishOnce ==
  ASSUME FollowerInv, Undisturbed, NEW kind \in Kinds, Publish(kind)
  PROVE  Undisturbed'
<1>1. /\ Len(chain) \in Nat /\ DOMAIN times = 1 .. Len(chain)
      /\ times \in Seq(Nat) /\ Len(times) = Len(chain)
      /\ task' = task /\ height' = height
  BY DEF FollowerInv, FollowerTypes, Publish
<1>2. /\ DOMAIN times' = 1 .. Len(chain) + 1
      /\ \A h \in 1 .. Len(chain) : times'[h] = times[h]
      /\ times'[Len(chain) + 1] = 0
  BY <1>1 DEF Publish
<1>3. \A n : Reached(n) => Reached(n)'
  BY <1>1, <1>2 DEF Reached
<1>4. \A h \in DOMAIN times' : times'[h] <= 1
  BY <1>1, <1>2 DEF Undisturbed
<1>5. \A k \in Tasks : Syncing(k)' <=> Syncing(k)
  BY <1>1 DEF Syncing
<1>6. \A k \in Tasks : Syncing(k)' => Reached(task[k].next - 1)'
  <2> SUFFICES ASSUME NEW k \in Tasks, Syncing(k)' PROVE Reached(task[k].next - 1)'
    OBVIOUS
  <2>1. PICK n : n = task[k].next - 1
    OBVIOUS
  <2>2. Reached(n)
    BY <1>5, <2>1 DEF Undisturbed
  <2>3. Reached(n)'
    BY <1>3, <2>2
  <2> QED BY <1>1, <2>1, <2>3 DEF Reached
<1>7. (\A k \in Tasks : ~Syncing(k)') => Reached(height)'
  <2> SUFFICES ASSUME \A k \in Tasks : ~Syncing(k)' PROVE Reached(height)'
    OBVIOUS
  <2>1. PICK n : n = height
    OBVIOUS
  <2>2. Reached(n)
    BY <1>5, <2>1 DEF Undisturbed
  <2>3. Reached(n)'
    BY <1>3, <2>2
  <2> QED BY <1>1, <2>1, <2>3 DEF Reached
<1> QED BY <1>1, <1>4, <1>5, <1>6, <1>7 DEF Undisturbed

\* Every step keeps OnceInv.
LEMMA NextOnceInv ==
  ASSUME FollowerInv, OnceInv, [Next]_vars
  PROVE  OnceInv'
<1> SUFFICES ASSUME ~disturbed' PROVE Undisturbed'
  BY DEF OnceInv
<1>1. CASE Restart
  <2>1. /\ DOMAIN times' = DOMAIN times /\ \A h \in DOMAIN times : times'[h] = 0
        /\ \A k \in Tasks : task'[k] = Off
    BY <1>1 DEF Restart
  <2>2. \A k \in Tasks : ~Syncing(k)' /\ task'[k].pc # "ask"
    BY <2>1 DEF Syncing, Off
  <2> QED BY <2>1, <2>2 DEF Undisturbed, Reached
<1>2. ASSUME ~Restart PROVE Undisturbed'
  <2>1. ~disturbed
    BY <1>2 DEF Next, vars, Publish, Start, Loop, LoopHead, FetchLeaderHeight,
       ReplayBatch, AllReplayed, WriteHeight, NetworkError, Wake, Stop
  <2>2. Undisturbed
    BY <2>1 DEF OnceInv
  <2>3. ASSUME task' = task, times' = times, height' = height PROVE Undisturbed'
    BY <2>2, <2>3 DEF Undisturbed, Syncing, Reached
  <2>4. CASE UNCHANGED vars
    BY <2>3, <2>4 DEF vars
  <2>5. CASE Stop
    BY <2>3, <2>5 DEF Stop
  <2>6. CASE \E kind \in Kinds : Publish(kind)
    BY <2>2, <2>6, PublishOnce
  <2>7. CASE \E k \in Tasks : Start(k) \/ Loop(k) \/ NetworkError(k)
    BY <2>2, <2>7, LoopOnce, ReplayBatchOnce DEF Loop
  <2> QED BY <1>2, <2>4, <2>5, <2>6, <2>7 DEF Next
<1> QED BY <1>1, <1>2

\* While syncs neither overlap nor end half way, no payload of the leader runs
\* twice on the follower's engine.
THEOREM RunsOnce == Spec => []UndisturbedReplaysOnce
<1>1. Init => OnceInv
  BY DEF Init, OnceInv, Undisturbed, Syncing, Reached, Off
<1>2. FollowerInv /\ OnceInv /\ [Next]_vars => OnceInv'
  BY NextOnceInv
<1>3. OnceInv => UndisturbedReplaysOnce
  BY DEF OnceInv, Undisturbed, UndisturbedReplaysOnce
<1> QED BY <1>1, <1>2, <1>3, FollowerInvariant, PTL DEF Spec

=============================================================================
