------------------------------- MODULE Mempool --------------------------------
(***************************************************************************)
(* The transaction pool (mempool/src/lib.rs) over its TransactionIndex     *)
(* (mempool/src/transaction_index.rs): a map from hashes to transactions   *)
(* and, per sender, a map from nonces to hashes.  A transaction is its     *)
(* sender, its nonce and everything else (payload, signature) as its body; *)
(* hashes are collision free, so a hash is the transaction itself.         *)
(***************************************************************************)
EXTENDS Integers, Sequences, FiniteSets, SequencesExt

CONSTANTS
    Senders,
    MaxNonce,          \* bound: highest nonce submitted
    Bodies,            \* what two transactions with one nonce can differ in
    Nobody,            \* an absent entry of a sender's nonce map
    MaxSize,           \* MempoolConfig.max_size
    MaxTxsPerSender,   \* MempoolConfig.max_txs_per_sender
    BlockLimit         \* how many transactions GetTxs hands out

Nonces == 0 .. MaxNonce

Txs == [from : Senders, nonce : Nonces, body : Bodies]

ASSUME MempoolAssumption ==
    /\ MaxNonce \in Nat
    /\ IsFiniteSet(Senders) /\ IsFiniteSet(Bodies)
    /\ MaxSize \in Nat
    /\ MaxTxsPerSender \in Nat
    /\ BlockLimit \in Nat
    /\ Nobody \notin Txs

VARIABLES
    txs,        \* TransactionIndex.txs
    bySender    \* TransactionIndex.by_sender

mvars == <<txs, bySender>>

NoEntries == [n \in Nonces |-> Nobody]

MInit ==
    /\ txs = {}
    /\ bySender = [s \in Senders |-> NoEntries]

-------------------------------------------------------------------------------
(* Queries *)

SenderNonces(s) == {n \in Nonces : bySender[s][n] # Nobody}

SenderTxCount(s) == Cardinality(SenderNonces(s))

\* What get_by_sender finds, over all senders: entries whose hash is still known.
Listed == {t \in txs : \E s \in Senders, n \in Nonces : bySender[s][n] = t}

\* Senders come in the order of a hash map, each with its nonces ascending.
ReadyOrders ==
    {q \in SetToSeqs(Listed) :
        \A i, j \in 1 .. Len(q) :
            (i < j /\ q[i].from = q[j].from) =>
                /\ q[i].nonce < q[j].nonce
                /\ \A m \in i .. j : q[m].from = q[i].from}

\* ready_txs(limit), cut again by the block's byte limit: a prefix of that order.
ReadyTxs ==
    {SubSeq(q, 1, IF Len(q) <= BlockLimit THEN Len(q) ELSE BlockLimit) :
        q \in ReadyOrders}

-------------------------------------------------------------------------------
(* Operations *)

\* Slip: a full pool takes one more.
AddTxWhenFull(t) ==
    /\ Cardinality(txs) <= MaxSize
    /\ t \notin txs
    /\ SenderTxCount(t.from) < MaxTxsPerSender
    /\ txs' = txs \cup {t}
    /\ bySender' = [bySender EXCEPT ![t.from][t.nonce] = t]

\* add(): a rejected transaction changes nothing.
AddTx(t) ==
    /\ Cardinality(txs) < MaxSize
    /\ t \notin txs
    /\ SenderTxCount(t.from) < MaxTxsPerSender
    /\ txs' = txs \cup {t}
    /\ bySender' = [bySender EXCEPT ![t.from][t.nonce] = t]

\* Slip: the nonce entry stays.
RemoveTxOnly(t) ==
    /\ txs' = txs \ {t}
    /\ UNCHANGED bySender

\* remove(hash): the nonce entry goes, whichever transaction it names.
RemoveTx(t) ==
    /\ txs' = txs \ {t}
    /\ bySender' = IF t \in txs
                   THEN [bySender EXCEPT ![t.from][t.nonce] = Nobody]
                   ELSE bySender

PruneSenderNonces(s, upTo) ==
    LET gone == {n \in SenderNonces(s) : n <= upTo}
    IN  /\ txs' = txs \ {bySender[s][n] : n \in gone}
        /\ bySender' = [bySender EXCEPT ![s] =
                            [n \in Nonces |-> IF n \in gone THEN Nobody ELSE bySender[s][n]]]

Clear ==
    /\ txs' = {}
    /\ bySender' = [s \in Senders |-> NoEntries]

MNext ==
    \/ \E t \in Txs : AddTx(t)
    \/ \E t \in Txs : RemoveTx(t)
    \/ \E s \in Senders, n \in Nonces : PruneSenderNonces(s, n)
    \/ Clear

MSpec == MInit /\ [][MNext]_mvars

-------------------------------------------------------------------------------
(* Properties *)

MTypeOK ==
    /\ txs \subseteq Txs
    /\ bySender \in [Senders -> [Nonces -> Txs \cup {Nobody}]]

\* A nonce entry always names a pooled transaction of that sender and nonce,
\* through replacements and through the removal of a replaced transaction.
IndexSound ==
    \A s \in Senders, n \in Nonces :
        bySender[s][n] # Nobody =>
            /\ bySender[s][n] \in txs
            /\ bySender[s][n].from = s
            /\ bySender[s][n].nonce = n

\* The pool never outgrows max_size, nor does it list more transactions of one
\* sender than the limit: a replaced transaction stays in the pool but is no longer
\* counted or listed.
WithinLimits ==
    /\ Cardinality(txs) <= MaxSize
    /\ \A s \in Senders : Cardinality({t \in Listed : t.from = s}) <= MaxTxsPerSender
===============================================================================
