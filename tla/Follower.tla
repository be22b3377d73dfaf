------------------------------ MODULE Follower ------------------------------
(***************************************************************************)
(* The read-only node (exec/src/readonly_executor.rs): it asks the leader  *)
(* for its height, fetches the missing blocks in batches and replays their *)
(* payloads on its own engine. A block carries one transaction: one that   *)
(* the leader executed ("ok"), one it refused for its nonce or signature   *)
(* although the payload would run ("refused"), or one whose payload fails  *)
(* ("fail"). The follower checks neither nonce nor signature.              *)
(*                                                                         *)
(* A sync holds the engine's lock while it replays one batch and lets go   *)
(* of it between batches; nothing keeps two syncs from running side by     *)
(* side. Nothing is committed: a restart begins with an empty engine.      *)
(***************************************************************************)
EXTENDS Integers, Sequences

CONSTANTS
  Tasks,        \* loops of SyncService::start
  BatchSize,    \* sync_batch_size
  MaxBlocks,    \* bound
  MaxFaults,    \* bound: network errors and restarts
  MaxStarts     \* bound: calls of start and stop

ASSUME FollowerAssumption ==
  BatchSize \in Nat \ {0} /\ {MaxBlocks, MaxFaults, MaxStarts} \subseteq Nat

Kinds == {"ok", "refused", "fail"}

VARIABLES
  chain,      \* the leader's blocks, as it serves them
  height,     \* ReadOnlyExecutor.block_height
  times,      \* how often the payload of each block ran on the follower's
              \* engine: not yet, once, or more often (2)
  running,    \* SyncService.running
  task,       \* where each loop stands
  faults, starts,
  disturbed   \* two syncs ran side by side, or one ended half way

vars == <<chain, height, times, running, task, faults, starts, disturbed>>

Off == [pc |-> "off", next |-> 0, target |-> 0]

Syncing(k) == task[k].pc \in {"ask", "fetch", "finish"}

Init ==
  /\ chain = <<>>
  /\ height = 0
  /\ times = <<>>
  /\ running = FALSE
  /\ task = [k \in Tasks |-> Off]
  /\ faults = 0
  /\ starts = 0
  /\ disturbed = FALSE

\* A block of the leader can be fetched from now on.
Publish(kind) ==
  /\ Len(chain) < MaxBlocks
  /\ chain' = Append(chain, kind)
  /\ times' = Append(times, 0)
  /\ UNCHANGED <<height, running, task, faults, starts, disturbed>>

Goto(k, pc) == task' = [task EXCEPT ![k].pc = pc]

Start(k) ==
  /\ starts < MaxStarts
  /\ starts' = starts + 1
  /\ task[k].pc = "off"
  /\ running' = TRUE
  /\ Goto(k, "head")
  /\ UNCHANGED <<chain, height, times, faults, disturbed>>

Stop ==
  /\ starts < MaxStarts
  /\ starts' = starts + 1
  /\ running' = FALSE
  /\ UNCHANGED <<chain, height, times, task, faults, disturbed>>

\* The head of the loop: leave it, or call sync_from_leader, which first
\* reads the own height.
LoopHead(k) ==
  /\ task[k].pc = "head"
  /\ IF running
     THEN /\ task' = [task EXCEPT ![k] = [pc |-> "ask", next |-> height + 1,
                                          target |-> 0]]
          /\ disturbed' = (disturbed \/ \E j \in Tasks \ {k} : Syncing(j))
     ELSE /\ task' = [task EXCEPT ![k] = Off]
          /\ UNCHANGED disturbed
  /\ UNCHANGED <<chain, height, times, running, faults, starts>>

\* Slip: being one block behind counts as being synced.
FetchAlmostHeight(k) ==
  /\ task[k].pc = "ask"
  /\ task' = [task EXCEPT ![k].target = Len(chain),
                          ![k].pc = IF Len(chain) <= task[k].next THEN "sleep"
                                    ELSE "fetch"]
  /\ UNCHANGED <<chain, height, times, running, faults, starts, disturbed>>

FetchLeaderHeight(k) ==
  /\ task[k].pc = "ask"
  /\ task' = [task EXCEPT ![k].target = Len(chain),
                          ![k].pc = IF Len(chain) < task[k].next THEN "sleep"
                                    ELSE "fetch"]
  /\ UNCHANGED <<chain, height, times, running, faults, starts, disturbed>>

\* The blocks of from .. to that a batch replays: up to the first error.
\* Slip: the batch goes on after an error.
ReplayableSkipping(from, to) == {h \in from .. to : chain[h] # "fail"}

Replayable(from, to) == {h \in from .. to : \A g \in from .. h : chain[g] # "fail"}

\* Where the next batch begins.
\* Slip: it begins with the last block of this one.
AfterBatchOverlap(end) == end

AfterBatch(end) == end + 1

\* One turn of the batch loop: fetch, then replay under the engine's lock.
ReplayBatch(k) ==
  LET from == task[k].next
      end  == IF from + BatchSize - 1 <= task[k].target
              THEN from + BatchSize - 1 ELSE task[k].target
      done == Replayable(from, end)
  IN
  /\ task[k].pc = "fetch"
  /\ from <= task[k].target
  /\ times' = [h \in DOMAIN times |-> IF h \in done /\ times[h] < 2
                                      THEN times[h] + 1 ELSE times[h]]
  /\ IF end \in done
     THEN /\ task' = [task EXCEPT ![k].next = AfterBatch(end)]
          /\ UNCHANGED disturbed
     ELSE /\ Goto(k, "sleep")
          /\ disturbed' = (disturbed \/ from > height + 1 \/ done # {})
  /\ UNCHANGED <<chain, height, running, faults, starts>>

AllReplayed(k) ==
  /\ task[k].pc = "fetch"
  /\ task[k].next > task[k].target
  /\ Goto(k, "finish")
  /\ UNCHANGED <<chain, height, times, running, faults, starts, disturbed>>

\* The height is written with the leader's height as it was asked at first.
WriteHeight(k) ==
  /\ task[k].pc = "finish"
  /\ height' = task[k].target
  /\ Goto(k, "sleep")
  /\ UNCHANGED <<chain, times, running, faults, starts, disturbed>>

NetworkError(k) ==
  /\ faults < MaxFaults
  /\ faults' = faults + 1
  /\ \/ task[k].pc = "ask"
     \/ task[k].pc = "fetch" /\ task[k].next <= task[k].target
  /\ Goto(k, "sleep")
  /\ disturbed' = (disturbed \/ task[k].next > height + 1)
  /\ UNCHANGED <<chain, height, times, running, starts>>

\* tokio::time::sleep between two syncs
Wake(k) ==
  /\ task[k].pc = "sleep"
  /\ Goto(k, "head")
  /\ UNCHANGED <<chain, height, times, running, faults, starts, disturbed>>

Restart ==
  /\ faults < MaxFaults
  /\ faults' = faults + 1
  /\ height' = 0
  /\ times' = [h \in DOMAIN times |-> 0]
  /\ running' = FALSE
  /\ task' = [k \in Tasks |-> Off]
  /\ disturbed' = FALSE
  /\ UNCHANGED <<chain, starts>>

Loop(k) ==
  \/ LoopHead(k) \/ FetchLeaderHeight(k) \/ ReplayBatch(k) \/ AllReplayed(k)
  \/ WriteHeight(k) \/ Wake(k)

Next ==
  \/ \E kind \in Kinds : Publish(kind)
  \/ \E k \in Tasks : Start(k) \/ Loop(k) \/ NetworkError(k)
  \/ Stop
  \/ Restart

\* The runtime goes on polling every loop that was started.
Fairness == \A k \in Tasks : WF_vars(Loop(k))

Spec == Init /\ [][Next]_vars /\ Fairness

-----------------------------------------------------------------------------

\* The height the follower reports is never a promise it has not kept: every
\* block up to it was replayed, and no block is replayed before the blocks below
\* it, whatever failed, overlapped or was retried.
SyncedMeansReplayed ==
  /\ \A h \in 1 .. height : times[h] > 0
  /\ \A h \in DOMAIN times : times[h] > 0 => \A g \in 1 .. h - 1 : times[g] > 0

\* While syncs neither overlap nor end half way, no payload runs twice.
UndisturbedReplaysOnce == ~disturbed => \A h \in DOMAIN times : times[h] <= 1

\* A follower that is left running, and meets no payload that fails, ends up
\* at the leader's height, whatever network errors came before.
CatchesUp ==
  <>[](running /\ \A h \in DOMAIN chain : chain[h] # "fail")
    => <>[](height = Len(chain))

=============================================================================
