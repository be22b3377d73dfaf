------------------------------ MODULE BlockExec -------------------------------
(***************************************************************************)
(* Transactions from submission to commit: the RPC handler puts them into  *)
(* the pool, the sequencer reads batches out of it (GetTxs) and sends each *)
(* back as a block (ExecuteTxs), and TransactionExecutor runs the block's  *)
(* transactions one by one (exec/src/tx_executor.rs, exec/src/server.rs).  *)
(*                                                                         *)
(* GetTxs leaves the transactions in the pool, so one transaction can be   *)
(* in several batches; a block whose answer is lost is sent again; a crash *)
(* loses the pool and the uncommitted block.  A commit is a series of puts *)
(* (Storage has them one by one): when a crash or an error cuts it short,  *)
(* the block is sent again and reads the puts that were made, because it   *)
(* is executed at the height they were made for.  ExecuteTxs holds the     *)
(* locks of engine, auth and pool to its end, the commit included, so      *)
(* Submit and GetTxs wait for it and nobody else sees a commit in progress.*)
(* What a payload does is another module's subject: here it succeeds,      *)
(* fails without a trace, or fails after some of its effects.              *)
(***************************************************************************)
EXTENDS Mempool

CONSTANTS
    Outcomes,      \* what a payload may do: "ok", "fail", "partial"
    MaxQueue,      \* bound: batches the sequencer holds
    MaxLog,        \* bound: effects logged when a payload may still fail
    MaxFaults      \* bound: crashes, failed puts and lost answers

Effects == [tx : Txs, whole : BOOLEAN]

ASSUME ExecAssumption ==
    /\ Outcomes \subseteq {"ok", "fail", "partial"}
    /\ MaxQueue \in Nat
    /\ MaxLog \in Nat
    /\ MaxFaults \in Nat

VARIABLES
    nonce,     \* StateManager's nonce of each account, as the block sees it
    log,       \* the payloads executed so far, in order; not whole: the state holds
               \* some of the effects, or none
    saved,     \* nonce and log as the next block finds them on disk
    torn,      \* accounts of which some commit left a nonce without its effects,
               \* or effects without their nonce
    queue,     \* the sequencer's batches, oldest first
    running,   \* ExecuteTxs is executing Head(queue)
    left,      \* what is left of that block
    faults

vars == <<txs, bySender, nonce, log, saved, torn, queue, running, left, faults>>

Init ==
    /\ MInit
    /\ nonce = [s \in Senders |-> 0]
    /\ log = <<>>
    /\ saved = [nonce |-> nonce, log |-> log]
    /\ torn = {}
    /\ queue = <<>>
    /\ running = FALSE
    /\ left = <<>>
    /\ faults = 0

Submit(t) ==
    /\ ~running
    /\ AddTx(t)
    /\ UNCHANGED <<nonce, log, saved, torn, queue, running, left, faults>>

GetTxs ==
    /\ ~running
    /\ Len(queue) < MaxQueue
    /\ \E b \in ReadyTxs : b # <<>> /\ queue' = Append(queue, b)
    /\ UNCHANGED <<mvars, nonce, log, saved, torn, running, left, faults>>

ExecuteTxs ==
    /\ ~running
    /\ queue # <<>>
    /\ running' = TRUE
    /\ left' = Head(queue)
    /\ UNCHANGED <<mvars, nonce, log, saved, torn, queue, faults>>

-------------------------------------------------------------------------------
(* TransactionExecutor::execute, for the next transaction of the block *)

\* Slip: a nonce from the future will do.
VerifyNonceAtLeast(t) == t.nonce >= nonce[t.from]

\* Slip: the stored nonce is taken for the last one used.
VerifyNonceNext(t) == t.nonce = nonce[t.from] + 1

VerifyNonce(t) == t.nonce = nonce[t.from]

Succeed(t) ==
    /\ VerifyNonce(t)
    /\ log' = Append(log, [tx |-> t, whole |-> TRUE])
    /\ nonce' = [nonce EXCEPT ![t.from] = @ + 1]
    /\ RemoveTx(t)

\* The payload returns an error after it has changed the state.
FailPartway(t) ==
    /\ VerifyNonce(t)
    /\ Len(log) < MaxLog
    /\ log' = Append(log, [tx |-> t, whole |-> FALSE])
    /\ UNCHANGED <<nonce, mvars>>

\* The nonce is not the account's, or the payload is refused outright.
Reject(t) ==
    /\ ~VerifyNonce(t) \/ ("fail" \in Outcomes /\ Len(log) < MaxLog)
    /\ UNCHANGED <<nonce, log, mvars>>

ExecuteTx ==
    /\ running
    /\ left # <<>>
    /\ LET t == Head(left)
       IN  \/ "ok" \in Outcomes /\ Succeed(t)
           \/ "partial" \in Outcomes /\ FailPartway(t)
           \/ Reject(t)
    /\ left' = Tail(left)
    /\ UNCHANGED <<saved, torn, queue, running, faults>>

\* commit() makes every put.
Commit ==
    /\ running
    /\ left = <<>>
    /\ running' = FALSE
    /\ saved' = [nonce |-> nonce, log |-> log]
    /\ UNCHANGED <<mvars, nonce, log, torn, left>>

\* The sequencer learns that its oldest block is executed, or it does not.
CommitAnswered ==
    /\ Commit
    /\ queue' = Tail(queue)
    /\ UNCHANGED faults

CommitAnswerLost ==
    /\ Commit
    /\ faults < MaxFaults
    /\ faults' = faults + 1
    /\ UNCHANGED queue

-------------------------------------------------------------------------------
(* A commit that is cut short, and crashes *)

\* The places of the log that the block added.
NewEffects == Len(saved.log) + 1 .. Len(log)

\* What can be read when the nonces of some accounts were put, and the effects at
\* some places of the log were not, or not all of them.
Readable(accounts, missing) ==
    [nonce |-> [s \in Senders |-> IF s \in accounts THEN nonce[s] ELSE saved.nonce[s]],
     log   |-> [i \in 1 .. Len(log) |->
                  [tx |-> log[i].tx, whole |-> log[i].whole /\ i \notin missing]]]

\* The accounts that this takes apart: a nonce is there and an effect it stands for
\* is not, or the other way round.
TakenApart(accounts, missing) ==
    {s \in Senders : \E i \in NewEffects :
        /\ log[i].whole /\ log[i].tx.from = s
        /\ (s \in accounts) # (i \notin missing)}

\* Only some of the puts of commit() are made.  The pending writes are gone in any
\* case, and ExecuteTxs is not answered with success.
CutCommit ==
    /\ running
    /\ left = <<>>
    /\ faults < MaxFaults
    /\ faults' = faults + 1
    /\ \E accounts \in SUBSET Senders, missing \in SUBSET NewEffects :
          /\ saved' = Readable(accounts, missing)
          /\ torn' = torn \cup TakenApart(accounts, missing)
    /\ nonce' = saved'.nonce
    /\ log' = saved'.log
    /\ running' = FALSE
    /\ UNCHANGED <<queue, left>>

\* A put fails, or what follows the puts: what the block removed from the pool stays
\* removed.
CommitFails == CutCommit /\ UNCHANGED mvars

\* The process dies in commit().
CommitCrashes == CutCommit /\ Clear

\* Slip: the state is not read back from the database.
CrashToGenesis ==
    /\ faults < MaxFaults
    /\ faults' = faults + 1
    /\ Clear
    /\ nonce' = [s \in Senders |-> 0]
    /\ log' = <<>>
    /\ running' = FALSE
    /\ left' = <<>>
    /\ UNCHANGED <<saved, torn, queue>>

\* Slip: the nonces are taken back by one instead of read back.
CrashStepsBack ==
    /\ faults < MaxFaults
    /\ faults' = faults + 1
    /\ Clear
    /\ nonce' = [s \in Senders |-> nonce[s] - 1]
    /\ log' = saved.log
    /\ running' = FALSE
    /\ left' = <<>>
    /\ UNCHANGED <<saved, torn, queue>>

\* The process dies before the first put, or between blocks.
Crash ==
    /\ faults < MaxFaults
    /\ faults' = faults + 1
    /\ Clear
    /\ nonce' = saved.nonce
    /\ log' = saved.log
    /\ running' = FALSE
    /\ left' = <<>>
    /\ UNCHANGED <<saved, torn, queue>>

Next ==
    \/ \E t \in Txs : Submit(t)
    \/ GetTxs
    \/ ExecuteTxs
    \/ ExecuteTx
    \/ CommitAnswered
    \/ CommitAnswerLost
    \/ CommitFails
    \/ CommitCrashes
    \/ Crash

Spec == Init /\ [][Next]_vars

\* The sequencer keeps polling and sending blocks, and a block that is being
\* executed is executed to its end.
LiveSpec ==
    /\ Spec
    /\ WF_vars(GetTxs)
    /\ WF_vars(ExecuteTxs)
    /\ WF_vars(ExecuteTx)
    /\ WF_vars(CommitAnswered)

-------------------------------------------------------------------------------
(* Properties *)

\* Pool, accounts, logs and batches keep the shape the code gives them, through
\* every replay and crash.
TypeOK ==
    /\ MTypeOK
    /\ nonce \in [Senders -> Nat]
    /\ log \in Seq(Effects)
    /\ saved \in [nonce : [Senders -> Nat], log : Seq(Effects)]
    /\ torn \subseteq Senders
    /\ queue \in Seq(Seq(Txs))
    /\ running \in BOOLEAN
    /\ left \in Seq(Txs)
    /\ faults \in Nat

\* A log in which each of the accounts has n[s] whole effects, with the nonces 0, 1,
\* 2, ... in that order, and nothing with the nonce of an earlier whole effect.  What
\* a payload that failed partway left behind stands before the whole effect with
\* its nonce, any number of times.
InNonceOrder(l, n, accounts) ==
    /\ \A i \in 1 .. Len(l) :
          (l[i].whole /\ l[i].tx.from \in accounts) => l[i].tx.nonce < n[l[i].tx.from]
    /\ \A i, j \in 1 .. Len(l) :
          (i < j /\ l[i].whole /\ l[i].tx.from \in accounts /\ l[i].tx.from = l[j].tx.from) =>
              l[i].tx.nonce < l[j].tx.nonce
    /\ \A s \in accounts : \A m \in 0 .. n[s] - 1 :
          \E i \in 1 .. Len(l) : l[i].whole /\ l[i].tx.from = s /\ l[i].tx.nonce = m

\* Whatever batches overlap, whichever blocks are sent twice and wherever the
\* process crashes, a payload takes its whole effect at most once, in nonce order
\* and without a gap, in the block being executed and on disk; and no remains of a
\* failed payload follow the effect that used its nonce.  This is so for every
\* account of which no cut commit put the nonce without the effects or the effects
\* without the nonce: puts that are missing for other accounts, or for all of an
\* account's keys, do no harm.  Of the others it is false: with the effects put and
\* the nonce not, the block that is sent again applies the payload again.
EffectsOnceInOrder ==
    /\ InNonceOrder(log, nonce, Senders \ torn)
    /\ InNonceOrder(saved.log, saved.nonce, Senders \ torn)

\* What is on disk only ever moves forward, in whole commits and in cut ones: no
\* crash, replay or failed put takes back a nonce or an effect of an earlier block.
CommittedGrows ==
    [][ /\ IsPrefix(saved.log, saved.log')
        /\ \A s \in Senders : saved.nonce[s] <= saved.nonce'[s] ]_vars

\* A listed transaction with the account's next nonce is executed (or another
\* one with that nonce is), unless a crash empties the pool.
NextNonceExecuted ==
    \A t \in Txs :
        (t \in Listed /\ t.nonce = nonce[t.from])
            ~> (t.nonce < nonce[t.from] \/ txs = {})
===============================================================================
