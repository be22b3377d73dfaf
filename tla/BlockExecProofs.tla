--------------------------- MODULE BlockExecProofs ----------------------------
(***************************************************************************)
(* Proofs about the pool and transaction execution: the pool's index is    *)
(* sound and its limits hold, every payload of an account that no cut      *)
(* commit took apart takes effect once and in nonce order, and the         *)
(* committed state only grows, for any number of senders, nonces, batches, *)
(* replays, crashes and failed commits. The first part is about the pool   *)
(* alone (Mempool); the second composes it with the executor.              *)
(***************************************************************************)
EXTENDS BlockExec, FiniteSetTheorems, SequenceTheorems, TLAPS


\* What add() tests: the transactions of the pool, and the entries of a nonce map.
CountsWithin ==
    /\ Cardinality(txs) <= MaxSize
    /\ \A s \in Senders : SenderTxCount(s) <= MaxTxsPerSender

\* The inductive invariant: the counts are cardinalities, so the step needs to know
\* that the sets counted are finite.
PoolInv == MTypeOK /\ IndexSound /\ IsFiniteSet(txs) /\ CountsWithin

\* A sender's nonce map is finite, whatever it holds.
LEMMA SenderNoncesFinite ==
    ASSUME NEW s
    PROVE  IsFiniteSet(SenderNonces(s))
  <1>1. IsFiniteSet(Nonces)
    BY MempoolAssumption, FS_Interval DEF Nonces
  <1> QED
    BY <1>1, FS_Subset DEF SenderNonces

\* A smaller finite set has no more elements.
LEMMA SmallerWithin ==
    ASSUME NEW S, NEW T, NEW n \in Nat, IsFiniteSet(T), S \subseteq T,
           Cardinality(T) <= n
    PROVE  IsFiniteSet(S) /\ Cardinality(S) <= n
  <1>1. IsFiniteSet(S) /\ Cardinality(S) <= Cardinality(T)
    BY FS_Subset
  <1>2. Cardinality(S) \in Nat /\ Cardinality(T) \in Nat
    BY <1>1, FS_CardinalityType
  <1> QED
    BY <1>1, <1>2

\* One more element stays within a bound that was not reached.
LEMMA AddedWithin ==
    ASSUME NEW T, NEW x, NEW n \in Nat, IsFiniteSet(T), Cardinality(T) < n
    PROVE  IsFiniteSet(T \cup {x}) /\ Cardinality(T \cup {x}) <= n
  <1>1. IsFiniteSet(T \cup {x})
    BY FS_AddElement
  <1>2. Cardinality(T \cup {x}) = Cardinality(T) \/ Cardinality(T \cup {x}) = Cardinality(T) + 1
    BY FS_AddElement
  <1>3. Cardinality(T) \in Nat
    BY FS_CardinalityType
  <1> QED
    BY <1>1, <1>2, <1>3

\* add() keeps the pool well formed: the two limits are tested before the insertion.
LEMMA AddTxKeeps ==
    ASSUME NEW t \in Txs, PoolInv, AddTx(t)
    PROVE  PoolInv'
  <1> USE DEF PoolInv
  <1>0. t.from \in Senders /\ t.nonce \in Nonces /\ t # Nobody
    BY MempoolAssumption DEF Txs
  <1>1. MTypeOK'
    BY <1>0 DEF AddTx, MTypeOK
  <1>2. \A s \in Senders, n \in Nonces :
            bySender'[s][n] = IF s = t.from /\ n = t.nonce THEN t ELSE bySender[s][n]
    BY <1>0 DEF AddTx, MTypeOK
  <1>3. IndexSound'
    BY <1>0, <1>2 DEF AddTx, IndexSound
  <1>4. IsFiniteSet(txs') /\ Cardinality(txs') <= MaxSize
    BY AddedWithin, MempoolAssumption DEF AddTx
  <1>5. ASSUME NEW s \in Senders
        PROVE  SenderTxCount(s)' <= MaxTxsPerSender
    <2>1. CASE s = t.from
      <3>1. SenderNonces(s)' = SenderNonces(s) \cup {t.nonce}
        BY <1>0, <1>2, <2>1 DEF SenderNonces
      <3>2. Cardinality(SenderNonces(s)) < MaxTxsPerSender
        BY <2>1 DEF AddTx, SenderTxCount
      <3> QED
        BY <3>1, <3>2, SenderNoncesFinite, AddedWithin, MempoolAssumption DEF SenderTxCount
    <2>2. CASE s # t.from
      <3>1. SenderNonces(s)' = SenderNonces(s)
        BY <1>2, <2>2 DEF SenderNonces
      <3> QED
        BY <3>1 DEF SenderTxCount, CountsWithin
    <2> QED
      BY <2>1, <2>2
  <1> QED
    BY <1>1, <1>3, <1>4, <1>5 DEF CountsWithin

\* A step that only takes entries and transactions away keeps the counts within.
LEMMA ShrinkingKeepsCounts ==
    ASSUME PoolInv, txs' \subseteq txs,
           \A s \in Senders, n \in Nonces :
              bySender'[s][n] # Nobody => bySender[s][n] # Nobody
    PROVE  IsFiniteSet(txs)' /\ CountsWithin'
  <1> USE DEF PoolInv
  <1>1. IsFiniteSet(txs') /\ Cardinality(txs') <= MaxSize
    BY SmallerWithin, MempoolAssumption DEF CountsWithin
  <1>2. ASSUME NEW s \in Senders
        PROVE  SenderTxCount(s)' <= MaxTxsPerSender
    <2>1. SenderNonces(s)' \subseteq SenderNonces(s)
      BY DEF SenderNonces
    <2>2. Cardinality(SenderNonces(s)) <= MaxTxsPerSender
      BY DEF CountsWithin, SenderTxCount
    <2> QED
      BY <2>1, <2>2, SenderNoncesFinite, SmallerWithin, MempoolAssumption DEF SenderTxCount
  <1> QED
    BY <1>1, <1>2 DEF CountsWithin

\* remove(hash) clears the entry of that nonce, so no entry is left for the hash,
\* even when the entry already named the transaction that replaced it.
LEMMA RemoveTxKeeps ==
    ASSUME NEW t \in Txs, PoolInv, RemoveTx(t)
    PROVE  PoolInv'
  <1> USE DEF PoolInv
  <1>0. t.from \in Senders /\ t.nonce \in Nonces
    BY DEF Txs
  <1>1. CASE t \notin txs
    <2>1. txs' = txs /\ bySender' = bySender
      BY <1>1 DEF RemoveTx
    <2> QED
      BY <2>1 DEF MTypeOK, IndexSound, CountsWithin, SenderTxCount, SenderNonces
  <1>2. CASE t \in txs
    <2>1. \A s \in Senders, n \in Nonces :
              bySender'[s][n] = IF s = t.from /\ n = t.nonce THEN Nobody ELSE bySender[s][n]
      BY <1>0, <1>2 DEF RemoveTx, MTypeOK
    <2>2. MTypeOK'
      BY <1>0, <1>2 DEF RemoveTx, MTypeOK
    <2>3. IndexSound'
      BY <1>0, <2>1 DEF RemoveTx, IndexSound
    <2>4. txs' \subseteq txs
      BY DEF RemoveTx
    <2> QED
      BY <2>1, <2>2, <2>3, <2>4, ShrinkingKeepsCounts
  <1> QED
    BY <1>1, <1>2

\* prune_sender_nonces removes exactly the transactions whose entries it removes.
LEMMA PruneKeeps ==
    ASSUME NEW s \in Senders, NEW m \in Nonces, PoolInv, PruneSenderNonces(s, m)
    PROVE  PoolInv'
  <1> USE DEF PoolInv
  <1> DEFINE gone == {n \in SenderNonces(s) : n <= m}
  <1>1. /\ txs' = txs \ {bySender[s][n] : n \in gone}
        /\ bySender' = [bySender EXCEPT ![s] =
                          [n \in Nonces |-> IF n \in gone THEN Nobody ELSE bySender[s][n]]]
    BY DEF PruneSenderNonces
  <1>2. gone \subseteq Nonces
    BY DEF SenderNonces
  <1> HIDE DEF gone
  <1>3. \A r \in Senders, n \in Nonces :
            bySender'[r][n] = IF r = s /\ n \in gone THEN Nobody ELSE bySender[r][n]
    BY <1>1 DEF MTypeOK
  <1>4. MTypeOK'
    BY <1>1 DEF MTypeOK
  <1>5. ASSUME NEW r \in Senders, NEW n \in Nonces, bySender'[r][n] # Nobody
        PROVE  /\ bySender'[r][n] \in txs'
               /\ bySender'[r][n].from = r
               /\ bySender'[r][n].nonce = n
    <2>1. bySender'[r][n] = bySender[r][n] /\ ~(r = s /\ n \in gone)
      BY <1>3, <1>5
    <2>2. bySender[r][n] \in txs /\ bySender[r][n].from = r /\ bySender[r][n].nonce = n
      BY <1>5, <2>1 DEF IndexSound
    <2>3. ASSUME NEW g \in gone, bySender[r][n] = bySender[s][g]
          PROVE  FALSE
      <3>1. bySender[s][g] # Nobody /\ g \in Nonces
        BY <1>2 DEF gone, SenderNonces
      <3>2. bySender[s][g].from = s /\ bySender[s][g].nonce = g
        BY <3>1 DEF IndexSound
      <3> QED
        BY <2>1, <2>2, <2>3, <3>2
    <2> QED
      BY <1>1, <2>1, <2>2, <2>3
  <1>6. IndexSound'
    BY <1>5 DEF IndexSound
  <1>7. txs' \subseteq txs
    BY <1>1
  <1> QED
    BY <1>3, <1>4, <1>6, <1>7, ShrinkingKeepsCounts

\* clear() empties both maps.
LEMMA ClearKeeps ==
    ASSUME PoolInv, Clear
    PROVE  PoolInv'
  <1>1. MTypeOK' /\ IndexSound'
    BY DEF Clear, NoEntries, MTypeOK, IndexSound
  <1>2. /\ txs' \subseteq txs
        /\ \A s \in Senders, n \in Nonces :
              bySender'[s][n] # Nobody => bySender[s][n] # Nobody
    BY DEF Clear, NoEntries
  <1> QED
    BY <1>1, <1>2, ShrinkingKeepsCounts DEF PoolInv

\* A new pool is well formed.
LEMMA PoolInit ==
    ASSUME MInit
    PROVE  PoolInv
  <1>1. MTypeOK /\ IndexSound
    BY DEF MInit, NoEntries, MTypeOK, IndexSound
  <1>2. IsFiniteSet(txs) /\ Cardinality(txs) <= MaxSize
    BY FS_EmptySet, MempoolAssumption DEF MInit
  <1>3. ASSUME NEW s \in Senders
        PROVE  SenderTxCount(s) <= MaxTxsPerSender
    <2>1. SenderNonces(s) = {}
      BY DEF MInit, NoEntries, SenderNonces
    <2> QED
      BY <2>1, FS_EmptySet, MempoolAssumption DEF SenderTxCount
  <1> QED
    BY <1>1, <1>2, <1>3 DEF PoolInv, CountsWithin

\* Every listed transaction of a sender has an entry of the sender's nonce map to
\* itself, so there are no more of them than entries.
LEMMA ListedWithin ==
    ASSUME PoolInv, NEW s \in Senders
    PROVE  Cardinality({t \in Listed : t.from = s}) <= MaxTxsPerSender
  <1> DEFINE L == {t \in Listed : t.from = s}
             f == [n \in SenderNonces(s) |-> bySender[s][n]]
  <1>1. ASSUME NEW n \in SenderNonces(s)
        PROVE  bySender[s][n] \in L
    <2>1. n \in Nonces /\ bySender[s][n] # Nobody
      BY DEF SenderNonces
    <2>2. bySender[s][n] \in txs /\ bySender[s][n].from = s
      BY <2>1 DEF PoolInv, IndexSound
    <2> QED
      BY <2>1, <2>2 DEF Listed
  <1>2. ASSUME NEW t \in L
        PROVE  \E n \in SenderNonces(s) : bySender[s][n] = t
    <2>1. t \in txs /\ t.from = s
      BY DEF Listed
    <2>2. PICK r \in Senders, n \in Nonces : bySender[r][n] = t
      BY DEF Listed
    <2>3. t # Nobody
      BY <2>1, MempoolAssumption DEF PoolInv, MTypeOK
    <2>4. r = s
      BY <2>1, <2>2, <2>3 DEF PoolInv, IndexSound
    <2> QED
      BY <2>2, <2>3, <2>4 DEF SenderNonces
  <1>3. f \in [SenderNonces(s) -> L] /\ \A t \in L : \E n \in SenderNonces(s) : f[n] = t
    BY <1>1, <1>2
  <1> HIDE DEF f, L
  <1>4. f \in Surjection(SenderNonces(s), L)
    BY <1>3 DEF Surjection
  <1>5. IsFiniteSet(L) /\ Cardinality(L) <= Cardinality(SenderNonces(s))
    BY <1>4, SenderNoncesFinite, FS_Surjection
  <1>6. Cardinality(SenderNonces(s)) <= MaxTxsPerSender
    BY DEF PoolInv, CountsWithin, SenderTxCount
  <1>7. Cardinality(L) \in Nat /\ Cardinality(SenderNonces(s)) \in Nat
    BY <1>5, SenderNoncesFinite, FS_CardinalityType
  <1>8. Cardinality(L) <= MaxTxsPerSender
    BY <1>5, <1>6, <1>7, MempoolAssumption
  <1> QED
    BY <1>8 DEF L

\* The invariant holds of every pool the operations can produce.
THEOREM PoolWellFormed == MSpec => []PoolInv
  <1>1. MInit => PoolInv
    BY PoolInit
  <1>2. PoolInv /\ [MNext]_mvars => PoolInv'
    <2> SUFFICES ASSUME PoolInv, [MNext]_mvars PROVE PoolInv'
      OBVIOUS
    <2>1. CASE MNext
      BY <2>1, AddTxKeeps, RemoveTxKeeps, PruneKeeps, ClearKeeps DEF MNext
    <2>2. CASE UNCHANGED mvars
      BY <2>2 DEF mvars, PoolInv, MTypeOK, IndexSound, CountsWithin, SenderTxCount,
                  SenderNonces
    <2> QED
      BY <2>1, <2>2
  <1> QED
    BY <1>1, <1>2, PTL DEF MSpec

\* An entry of a nonce map never dangles: remove(), replacement, pruning and
\* clear() leave every entry naming a pooled transaction of that sender and nonce.
THEOREM PoolIndexSound == MSpec => []IndexSound
  <1>1. PoolInv => IndexSound
    BY DEF PoolInv
  <1> QED
    BY <1>1, PoolWellFormed, PTL

\* add()'s two checks bound the pool, and what it lists of every sender, for good.
THEOREM PoolWithinLimits == MSpec => []WithinLimits
  <1>1. PoolInv => WithinLimits
    BY ListedWithin DEF PoolInv, CountsWithin, WithinLimits
  <1> QED
    BY <1>1, PoolWellFormed, PTL

-------------------------------------------------------------------------------
(* The executor *)

\* What the block has done so far extends what is committed.
AheadOfSaved ==
    /\ IsPrefix(saved.log, log)
    /\ \A s \in Senders : saved.nonce[s] <= nonce[s]

\* The block being executed is one the sequencer waits for.
BatchInHand == running => queue # <<>>

\* The inductive invariant.
ExecInv ==
    TypeOK /\ PoolInv /\ EffectsOnceInOrder /\ AheadOfSaved /\ BatchInHand

-------------------------------------------------------------------------------
(* Sequences *)

\* Appending to a sequence gives a sequence and keeps every prefix of it.
LEMMA PrefixOfAppend ==
    ASSUME NEW S, NEW p \in Seq(S), NEW q \in Seq(S), NEW e \in S, IsPrefix(p, q)
    PROVE  Append(q, e) \in Seq(S) /\ IsPrefix(p, Append(q, e))
  <1>1. Len(p) \in Nat /\ Len(q) \in Nat /\ Len(p) <= Len(q)
    BY LenProperties DEF IsPrefix
  <1>2. /\ Append(q, e) \in Seq(S)
        /\ Len(Append(q, e)) = Len(q) + 1
        /\ \A i \in 1 .. Len(q) : Append(q, e)[i] = q[i]
    OBVIOUS
  <1> DEFINE a == SubSeq(q, 1, Len(p))
             b == SubSeq(Append(q, e), 1, Len(p))
  <1>3. a \in Seq(S) /\ Len(a) = Len(p) /\ \A i \in 1 .. Len(p) : a[i] = q[i]
    <2>1. \A i \in 1 .. Len(p) : q[i] \in S
      BY <1>1, ElementOfSeq
    <2> QED
      BY <1>1, <2>1, SubSeqProperties
  <1>4. b \in Seq(S) /\ Len(b) = Len(p) /\ \A i \in 1 .. Len(p) : b[i] = q[i]
    <2>1. \A i \in 1 .. Len(p) : Append(q, e)[i] = q[i] /\ Append(q, e)[i] \in S
      BY <1>1, <1>2, ElementOfSeq
    <2> QED
      BY <1>1, <2>1, SubSeqProperties
  <1>5. a = b
    <2> HIDE DEF a, b
    <2> QED
      BY <1>3, <1>4, SeqEqual
  <1> QED
    BY <1>1, <1>2, <1>5 DEF IsPrefix

\* A sequence is a prefix of itself.
LEMMA PrefixOfSelf ==
    ASSUME NEW S, NEW p \in Seq(S)
    PROVE  IsPrefix(p, p)
  BY LenProperties DEF IsPrefix

\* A prefix is what agrees place by place.
LEMMA PrefixPointwise ==
    ASSUME NEW S, NEW p \in Seq(S), NEW q \in Seq(S)
    PROVE  IsPrefix(p, q) <=> /\ Len(p) <= Len(q)
                              /\ \A i \in 1 .. Len(p) : p[i] = q[i]
  <1>1. Len(p) \in Nat /\ Len(q) \in Nat
    BY LenProperties
  <1>2. ASSUME Len(p) <= Len(q)
        PROVE  (SubSeq(p, 1, Len(p)) = SubSeq(q, 1, Len(p)))
                  <=> (\A i \in 1 .. Len(p) : p[i] = q[i])
    <2> DEFINE a == SubSeq(p, 1, Len(p))
               b == SubSeq(q, 1, Len(p))
    <2>1. \A i \in 1 .. Len(p) : p[i] \in S /\ q[i] \in S
      BY <1>1, <1>2, ElementOfSeq
    <2>2. a \in Seq(S) /\ Len(a) = Len(p) /\ \A i \in 1 .. Len(p) : a[i] = p[i]
      BY <1>1, <2>1, SubSeqProperties
    <2>3. b \in Seq(S) /\ Len(b) = Len(p) /\ \A i \in 1 .. Len(p) : b[i] = q[i]
      BY <1>1, <2>1, SubSeqProperties
    <2>4. (a = b) <=> (\A i \in 1 .. Len(p) : p[i] = q[i])
      <3> HIDE DEF a, b
      <3>1. (\A i \in 1 .. Len(p) : p[i] = q[i]) => a = b
        BY <2>2, <2>3, SeqEqual
      <3> QED
        BY <2>2, <2>3, <3>1
    <2> QED
      BY <2>4
  <1> QED
    BY <1>2 DEF IsPrefix

\* What GetTxs hands out is a sequence of transactions.
LEMMA ReadyTxsType ==
    ASSUME PoolInv
    PROVE  ReadyTxs \subseteq Seq(Txs)
  <1>1. Listed \subseteq txs /\ IsFiniteSet(Listed)
    BY FS_Subset DEF Listed, PoolInv
  <1>2. Cardinality(Listed) \in Nat
    BY <1>1, FS_CardinalityType
  <1>3. Listed \subseteq Txs
    BY <1>1 DEF PoolInv, MTypeOK
  <1>4. ASSUME NEW q \in ReadyOrders
        PROVE  q \in Seq(Txs)
    <2>1. q \in [1 .. Cardinality(Listed) -> Listed]
      BY DEF ReadyOrders, SetToSeqs
    <2> QED
      BY <1>2, <1>3, <2>1
  <1>5. ASSUME NEW q \in ReadyOrders
        PROVE  SubSeq(q, 1, IF Len(q) <= BlockLimit THEN Len(q) ELSE BlockLimit) \in Seq(Txs)
    <2> DEFINE n == IF Len(q) <= BlockLimit THEN Len(q) ELSE BlockLimit
    <2>1. q \in Seq(Txs) /\ Len(q) \in Nat
      BY <1>4, LenProperties
    <2>2. n \in Int /\ n <= Len(q)
      BY <2>1, MempoolAssumption
    <2> HIDE DEF n
    <2>3. \A i \in 1 .. n : q[i] \in Txs
      BY <2>1, <2>2, ElementOfSeq
    <2>4. SubSeq(q, 1, n) \in Seq(Txs)
      BY <2>2, <2>3, SubSeqProperties
    <2> QED
      BY <2>4 DEF n
  <1> QED
    BY <1>5 DEF ReadyTxs

-------------------------------------------------------------------------------
(* The order of effects *)

\* A payload whose nonce is the account's may be logged: whole, if the account's
\* nonce moves on with it, or in part, if it does not.
LEMMA LogKeepsOrder ==
    ASSUME NEW l \in Seq(Effects), NEW n \in [Senders -> Nat],
           NEW A \in SUBSET Senders, NEW t \in Txs, NEW w \in BOOLEAN,
           InNonceOrder(l, n, A), t.nonce = n[t.from]
    PROVE  InNonceOrder(Append(l, [tx |-> t, whole |-> w]),
                        [n EXCEPT ![t.from] = IF w THEN @ + 1 ELSE @], A)
  <1> DEFINE e == [tx |-> t, whole |-> w]
             k == Append(l, e)
             m == [n EXCEPT ![t.from] = IF w THEN @ + 1 ELSE @]
  <1>0. /\ t.from \in Senders /\ t.nonce \in Nat
        /\ Len(l) \in Nat
        /\ e \in Effects
    BY MempoolAssumption, LenProperties DEF Txs, Nonces, Effects
  <1>1. /\ Len(k) = Len(l) + 1
        /\ \A i \in 1 .. Len(l) : k[i] = l[i]
        /\ k[Len(l) + 1] = e
    BY <1>0
  <1>2. /\ m \in [Senders -> Nat]
        /\ \A s \in Senders : n[s] <= m[s]
        /\ m[t.from] = IF w THEN n[t.from] + 1 ELSE n[t.from]
        /\ \A s \in Senders : s # t.from => m[s] = n[s]
    BY <1>0
  <1>3. \A i \in 1 .. Len(l) : /\ l[i].tx.from \in Senders
                               /\ l[i].tx.nonce \in Nat
                               /\ l[i].whole \in BOOLEAN
    <2> TAKE i \in 1 .. Len(l)
    <2>1. l[i] \in Effects
      BY ElementOfSeq
    <2>2. l[i].tx \in Txs /\ l[i].whole \in BOOLEAN
      BY <2>1 DEF Effects
    <2> QED
      BY <2>2, MempoolAssumption DEF Txs, Nonces
  <1>e. e.tx = t /\ e.whole = w
    OBVIOUS
  <1> HIDE DEF e, k, m
  <1>4. \A i \in 1 .. Len(k) : i \in 1 .. Len(l) \/ i = Len(l) + 1
    BY <1>0, <1>1
  <1>5. ASSUME NEW i \in 1 .. Len(k), k[i].whole, k[i].tx.from \in A
        PROVE  k[i].tx.nonce < m[k[i].tx.from]
    <2>1. CASE i \in 1 .. Len(l)
      <3>1. l[i].tx.nonce < n[l[i].tx.from]
        BY <1>1, <1>5, <2>1 DEF InNonceOrder
      <3>2. /\ n[l[i].tx.from] <= m[l[i].tx.from]
            /\ n[l[i].tx.from] \in Nat /\ m[l[i].tx.from] \in Nat
        BY <1>2, <1>3, <2>1
      <3> QED
        BY <1>1, <1>3, <2>1, <3>1, <3>2
    <2>2. CASE i = Len(l) + 1
      <3>1. n[t.from] \in Nat
        BY <1>0
      <3> QED
        BY <1>0, <1>1, <1>2, <1>5, <1>e, <2>2, <3>1
    <2> QED
      BY <1>4, <2>1, <2>2
  <1>6. ASSUME NEW i \in 1 .. Len(k), NEW j \in 1 .. Len(k), i < j, k[i].whole,
               k[i].tx.from \in A, k[i].tx.from = k[j].tx.from
        PROVE  k[i].tx.nonce < k[j].tx.nonce
    <2>1. i \in 1 .. Len(l)
      BY <1>0, <1>1, <1>6
    <2>2. CASE j \in 1 .. Len(l)
      BY <1>1, <1>6, <2>1, <2>2 DEF InNonceOrder
    <2>3. CASE j = Len(l) + 1
      <3>1. l[i].tx.nonce < n[l[i].tx.from]
        BY <1>1, <1>6, <2>1 DEF InNonceOrder
      <3>2. l[i].tx.from = t.from /\ k[j].tx.nonce = n[t.from]
        BY <1>1, <1>6, <1>e, <2>1, <2>3
      <3> QED
        BY <1>1, <2>1, <3>1, <3>2
    <2> QED
      BY <1>4, <2>2, <2>3
  <1>7. \A s \in A : \A v \in 0 .. m[s] - 1 :
            \E i \in 1 .. Len(k) : k[i].whole /\ k[i].tx.from = s /\ k[i].tx.nonce = v
    <2> SUFFICES ASSUME NEW s \in A, NEW v \in 0 .. m[s] - 1
                 PROVE  \E i \in 1 .. Len(k) :
                            k[i].whole /\ k[i].tx.from = s /\ k[i].tx.nonce = v
      OBVIOUS
    <2>1. n[s] \in Nat /\ m[s] \in Nat
      BY <1>2
    <2>2. CASE v \in 0 .. n[s] - 1
      <3>1. PICK i \in 1 .. Len(l) : l[i].whole /\ l[i].tx.from = s /\ l[i].tx.nonce = v
        BY <2>2 DEF InNonceOrder
      <3>2. i \in 1 .. Len(k)
        BY <1>0, <1>1
      <3> QED
        BY <1>1, <3>1, <3>2
    <2>3. CASE v \notin 0 .. n[s] - 1
      <3>1. s = t.from /\ w /\ v = n[s]
        BY <1>2, <2>1, <2>3
      <3>2. Len(l) + 1 \in 1 .. Len(k)
        BY <1>0, <1>1
      <3> QED
        BY <1>1, <1>e, <3>1, <3>2
    <2> QED
      BY <2>2, <2>3
  <1>8. InNonceOrder(k, m, A)
    BY <1>5, <1>6, <1>7 DEF InNonceOrder
  <1> QED
    BY <1>8 DEF e, k, m

-------------------------------------------------------------------------------
(* The steps *)

\* A step that leaves the pool alone keeps it well formed.
LEMMA SamePool ==
    ASSUME PoolInv, UNCHANGED <<txs, bySender>>
    PROVE  PoolInv'
  BY DEF PoolInv, MTypeOK, IndexSound, CountsWithin, SenderTxCount, SenderNonces

\* A step that leaves the account state alone keeps the order of its effects.
LEMMA SameState ==
    ASSUME EffectsOnceInOrder, AheadOfSaved, UNCHANGED <<nonce, log, saved, torn>>
    PROVE  EffectsOnceInOrder' /\ AheadOfSaved'
  BY DEF EffectsOnceInOrder, InNonceOrder, AheadOfSaved

\* Submit changes the pool only, by add().
LEMMA SubmitKeeps ==
    ASSUME NEW t \in Txs, ExecInv, Submit(t)
    PROVE  ExecInv'
  <1>1. PoolInv'
    BY AddTxKeeps DEF ExecInv, Submit
  <1>2. UNCHANGED <<nonce, log, saved, torn, queue, running, left, faults>>
    BY DEF Submit
  <1>3. TypeOK' /\ BatchInHand'
    BY <1>1, <1>2 DEF ExecInv, PoolInv, TypeOK, BatchInHand
  <1> QED
    BY <1>1, <1>2, <1>3, SameState DEF ExecInv

\* GetTxs reads the pool and leaves it as it is.
LEMMA GetTxsKeeps ==
    ASSUME ExecInv, GetTxs
    PROVE  ExecInv'
  <1>1. PICK b \in ReadyTxs : queue' = Append(queue, b)
    BY DEF GetTxs
  <1>2. b \in Seq(Txs)
    BY ReadyTxsType DEF ExecInv
  <1>3. queue' \in Seq(Seq(Txs))
    BY <1>1, <1>2 DEF ExecInv, TypeOK
  <1>4. UNCHANGED <<txs, bySender, nonce, log, saved, torn, running, left, faults>> /\ ~running
    BY DEF GetTxs, mvars
  <1>5. PoolInv'
    BY <1>4, SamePool DEF ExecInv
  <1>6. TypeOK' /\ BatchInHand'
    BY <1>3, <1>4, <1>5 DEF ExecInv, PoolInv, TypeOK, BatchInHand
  <1> QED
    BY <1>4, <1>5, <1>6, SameState DEF ExecInv

\* ExecuteTxs only takes the oldest batch in hand.
LEMMA ExecuteTxsKeeps ==
    ASSUME ExecInv, ExecuteTxs
    PROVE  ExecInv'
  <1>1. queue \in Seq(Seq(Txs)) /\ queue # <<>> /\ left' = Head(queue)
    BY DEF ExecuteTxs, ExecInv, TypeOK
  <1>2. left' \in Seq(Txs)
    BY <1>1, HeadTailProperties
  <1>3. UNCHANGED <<txs, bySender, nonce, log, saved, torn, queue, faults>> /\ running' = TRUE
    BY DEF ExecuteTxs, mvars
  <1>4. PoolInv'
    BY <1>3, SamePool DEF ExecInv
  <1>5. TypeOK' /\ BatchInHand'
    BY <1>1, <1>2, <1>3, <1>4 DEF ExecInv, PoolInv, TypeOK, BatchInHand
  <1> QED
    BY <1>3, <1>4, <1>5, SameState DEF ExecInv

\* One transaction of the block, whatever its payload does: verify_nonce is the
\* guard that keeps the order.
LEMMA ExecuteTxKeeps ==
    ASSUME ExecInv, ExecuteTx
    PROVE  ExecInv'
  <1> DEFINE t == Head(left)
  <1>0. left \in Seq(Txs) /\ left # <<>> /\ left' = Tail(left)
    BY DEF ExecuteTx, ExecInv, TypeOK
  <1>1. t \in Txs /\ left' \in Seq(Txs)
    BY <1>0, HeadTailProperties
  <1>2. UNCHANGED <<saved, torn, queue, running, faults>>
    BY DEF ExecuteTx
  <1>3. Succeed(t) \/ FailPartway(t) \/ Reject(t)
    BY DEF ExecuteTx
  <1>4. /\ MTypeOK
        /\ log \in Seq(Effects)
        /\ nonce \in [Senders -> Nat]
        /\ saved \in [nonce : [Senders -> Nat], log : Seq(Effects)]
        /\ torn \subseteq Senders
        /\ queue \in Seq(Seq(Txs))
        /\ running \in BOOLEAN
        /\ faults \in Nat
    BY DEF ExecInv, TypeOK
  <1> HIDE DEF t
  <1>5. t.from \in Senders
    BY <1>1 DEF Txs
  <1>6. \A w \in BOOLEAN : [tx |-> t, whole |-> w] \in Effects
    BY <1>1 DEF Effects
  <1>7. InNonceOrder(saved.log, saved.nonce, Senders \ torn)'
    BY <1>2 DEF ExecInv, EffectsOnceInOrder, InNonceOrder
  <1>8. CASE Succeed(t)
    <2>1. PoolInv'
      BY <1>1, <1>8, RemoveTxKeeps DEF Succeed, ExecInv
    <2>2. InNonceOrder(log', nonce', Senders \ torn)
      <3>1. InNonceOrder(log, nonce, Senders \ torn) /\ t.nonce = nonce[t.from]
        BY <1>8 DEF Succeed, VerifyNonce, ExecInv, EffectsOnceInOrder
      <3>2. InNonceOrder(Append(log, [tx |-> t, whole |-> TRUE]),
                         [nonce EXCEPT ![t.from] = IF TRUE THEN @ + 1 ELSE @], Senders \ torn)
        BY <1>1, <1>4, <3>1, LogKeepsOrder
      <3> QED
        BY <1>8, <3>2 DEF Succeed
    <2>3. nonce' \in [Senders -> Nat]
      BY <1>4, <1>5, <1>8 DEF Succeed
    <2>4. log' \in Seq(Effects) /\ IsPrefix(saved.log, log')
      BY <1>4, <1>6, <1>8, PrefixOfAppend DEF Succeed, ExecInv, AheadOfSaved
    <2>5. \A s \in Senders : saved.nonce[s] <= nonce'[s]
      BY <1>4, <1>5, <1>8 DEF Succeed, ExecInv, AheadOfSaved
    <2> QED
      BY <1>1, <1>2, <1>4, <1>7, <2>1, <2>2, <2>3, <2>4, <2>5
         DEF ExecInv, PoolInv, TypeOK, EffectsOnceInOrder, InNonceOrder, AheadOfSaved,
             BatchInHand
  <1>9. CASE FailPartway(t)
    <2>0. UNCHANGED <<nonce, txs, bySender>>
      BY <1>9 DEF FailPartway, mvars
    <2>1. PoolInv'
      BY <2>0, SamePool DEF ExecInv
    <2>2. InNonceOrder(log', nonce', Senders \ torn)
      <3>1. InNonceOrder(log, nonce, Senders \ torn) /\ t.nonce = nonce[t.from]
        BY <1>9 DEF FailPartway, VerifyNonce, ExecInv, EffectsOnceInOrder
      <3>2. InNonceOrder(Append(log, [tx |-> t, whole |-> FALSE]),
                         [nonce EXCEPT ![t.from] = IF FALSE THEN @ + 1 ELSE @], Senders \ torn)
        BY <1>1, <1>4, <3>1, LogKeepsOrder
      <3>3. [nonce EXCEPT ![t.from] = IF FALSE THEN @ + 1 ELSE @] = nonce
        BY <1>4
      <3> QED
        BY <1>9, <2>0, <3>2, <3>3 DEF FailPartway
    <2>3. log' \in Seq(Effects) /\ IsPrefix(saved.log, log')
      BY <1>4, <1>6, <1>9, PrefixOfAppend DEF FailPartway, ExecInv, AheadOfSaved
    <2> QED
      BY <1>1, <1>2, <1>4, <1>7, <2>0, <2>1, <2>2, <2>3
         DEF ExecInv, PoolInv, TypeOK, EffectsOnceInOrder, InNonceOrder, AheadOfSaved,
             BatchInHand
  <1>10. CASE Reject(t)
    <2>0. UNCHANGED <<nonce, log, txs, bySender>>
      BY <1>10 DEF Reject, mvars
    <2>1. PoolInv'
      BY <2>0, SamePool DEF ExecInv
    <2>2. TypeOK' /\ BatchInHand'
      BY <1>1, <1>2, <1>4, <2>0, <2>1 DEF ExecInv, PoolInv, TypeOK, BatchInHand
    <2> QED
      BY <1>2, <2>0, <2>1, <2>2, SameState DEF ExecInv
  <1> QED
    BY <1>3, <1>8, <1>9, <1>10

\* A commit makes the block's state the committed one, answered or not.
LEMMA CommitKeeps ==
    ASSUME ExecInv, CommitAnswered \/ CommitAnswerLost
    PROVE  ExecInv'
  <1>1. /\ saved' = [nonce |-> nonce, log |-> log]
        /\ running' = FALSE
        /\ UNCHANGED <<txs, bySender, nonce, log, torn, left>>
    BY DEF CommitAnswered, CommitAnswerLost, Commit, mvars
  <1>2. queue' \in Seq(Seq(Txs)) /\ faults' \in Nat
    <2>1. queue \in Seq(Seq(Txs)) /\ faults \in Nat /\ queue # <<>>
      BY DEF ExecInv, TypeOK, BatchInHand, CommitAnswered, CommitAnswerLost, Commit
    <2>2. CASE CommitAnswered
      BY <2>1, <2>2, HeadTailProperties DEF CommitAnswered
    <2>3. CASE CommitAnswerLost
      BY <2>1, <2>3 DEF CommitAnswerLost
    <2> QED
      BY <2>2, <2>3
  <1>3. log \in Seq(Effects) /\ nonce \in [Senders -> Nat]
    BY DEF ExecInv, TypeOK
  <1>4. IsPrefix(saved.log, log)'
    BY <1>1, <1>3, PrefixOfSelf
  <1>5. (\A s \in Senders : saved.nonce[s] <= nonce[s])'
    BY <1>1, <1>3
  <1>6. PoolInv'
    BY <1>1, SamePool DEF ExecInv
  <1>7. EffectsOnceInOrder'
    <2>1. saved'.log = log /\ saved'.nonce = nonce /\ log' = log /\ nonce' = nonce /\ torn' = torn
      BY <1>1
    <2> QED
      BY <2>1 DEF ExecInv, EffectsOnceInOrder, InNonceOrder
  <1> QED
    BY <1>1, <1>2, <1>3, <1>4, <1>5, <1>6, <1>7
       DEF ExecInv, PoolInv, TypeOK, AheadOfSaved, BatchInHand

\* What a cut commit leaves to be read: the effects and nonces of earlier blocks
\* are all there, and those of the block are there or not.
LEMMA CutLeaves ==
    ASSUME ExecInv, NEW accounts \in SUBSET Senders, NEW missing \in SUBSET NewEffects
    PROVE  LET r == Readable(accounts, missing)
           IN  /\ r \in [nonce : [Senders -> Nat], log : Seq(Effects)]
               /\ IsPrefix(saved.log, r.log)
               /\ \A s \in Senders : saved.nonce[s] <= r.nonce[s]
  <1> DEFINE r == Readable(accounts, missing)
  <1>0. /\ log \in Seq(Effects) /\ nonce \in [Senders -> Nat]
        /\ saved.log \in Seq(Effects) /\ saved.nonce \in [Senders -> Nat]
        /\ Len(log) \in Nat /\ Len(saved.log) \in Nat
    BY LenProperties DEF ExecInv, TypeOK
  <1>1. /\ r.nonce = [s \in Senders |-> IF s \in accounts THEN nonce[s] ELSE saved.nonce[s]]
        /\ r.log = [i \in 1 .. Len(log) |->
                       [tx |-> log[i].tx, whole |-> log[i].whole /\ i \notin missing]]
        /\ r = [nonce |-> r.nonce, log |-> r.log]
    BY DEF Readable
  <1> HIDE DEF r
  <1>2. \A i \in 1 .. Len(log) : log[i] \in Effects
    BY <1>0, ElementOfSeq
  <1>3. \A i \in 1 .. Len(log) : r.log[i] \in Effects
    <2> TAKE i \in 1 .. Len(log)
    <2>1. log[i].tx \in Txs
      BY <1>2 DEF Effects
    <2>2. (log[i].whole /\ i \notin missing) \in BOOLEAN
      OBVIOUS
    <2> QED
      BY <1>1, <2>1, <2>2 DEF Effects
  <1>4. r.log \in Seq(Effects) /\ Len(r.log) = Len(log)
    <2>1. r.log = [i \in 1 .. Len(log) |-> r.log[i]]
      BY <1>1, Zenon
    <2> QED
      BY <1>0, <1>3, <2>1, IsASeq, LenProperties
  <1>5. r.nonce \in [Senders -> Nat]
    BY <1>0, <1>1
  <1>6. \A s \in Senders : saved.nonce[s] <= r.nonce[s]
    BY <1>0, <1>1 DEF ExecInv, AheadOfSaved
  <1>7. IsPrefix(saved.log, r.log)
    <2>1. Len(saved.log) <= Len(log) /\ \A i \in 1 .. Len(saved.log) : saved.log[i] = log[i]
      BY <1>0, PrefixPointwise DEF ExecInv, AheadOfSaved
    <2>2. ASSUME NEW i \in 1 .. Len(saved.log)
          PROVE  saved.log[i] = r.log[i]
      <3>1. i \in 1 .. Len(log) /\ i \notin missing
        BY <1>0, <2>1 DEF NewEffects
      <3>2. log[i] = [tx |-> log[i].tx, whole |-> log[i].whole] /\ log[i].whole \in BOOLEAN
        BY <1>2, <3>1 DEF Effects
      <3>3. (log[i].whole /\ i \notin missing) = log[i].whole
        BY <3>1, <3>2
      <3>4. r.log[i] = [tx |-> log[i].tx, whole |-> log[i].whole /\ i \notin missing]
        BY <1>1, <3>1
      <3> QED
        BY <2>1, <3>2, <3>3, <3>4
    <2> QED
      BY <1>0, <1>4, <2>1, <2>2, PrefixPointwise
  <1> QED
    BY <1>1, <1>4, <1>5, <1>6, <1>7 DEF r

\* An account that the cut does not take apart has all of the block's effects and
\* the nonce that goes with them, or none of both: its order is kept.
LEMMA CutKeepsOrder ==
    ASSUME ExecInv, NEW accounts \in SUBSET Senders, NEW missing \in SUBSET NewEffects
    PROVE  LET r == Readable(accounts, missing)
           IN  InNonceOrder(r.log, r.nonce, Senders \ (torn \cup TakenApart(accounts, missing)))
  <1> DEFINE r == Readable(accounts, missing)
             A == Senders \ (torn \cup TakenApart(accounts, missing))
  <1>0. /\ log \in Seq(Effects) /\ nonce \in [Senders -> Nat]
        /\ saved.log \in Seq(Effects) /\ saved.nonce \in [Senders -> Nat]
        /\ Len(log) \in Nat /\ Len(saved.log) \in Nat
    BY LenProperties DEF ExecInv, TypeOK
  <1>1. /\ \A s \in Senders : r.nonce[s] = IF s \in accounts THEN nonce[s] ELSE saved.nonce[s]
        /\ \A i \in 1 .. Len(log) :
              /\ r.log[i].tx = log[i].tx
              /\ r.log[i].whole <=> (log[i].whole /\ i \notin missing)
    BY DEF Readable
  <1>2. Len(r.log) = Len(log)
    <2>1. r.log = [i \in 1 .. Len(log) |->
                     [tx |-> log[i].tx, whole |-> log[i].whole /\ i \notin missing]]
      BY DEF Readable
    <2>2. r.log \in Seq(Effects)
      BY CutLeaves
    <2> HIDE DEF r
    <2>3. DOMAIN r.log = 1 .. Len(log) /\ DOMAIN r.log = 1 .. Len(r.log) /\ Len(r.log) \in Nat
      BY <2>1, <2>2, LenProperties
    <2> QED
      BY <1>0, <2>3
  <1>3. /\ InNonceOrder(log, nonce, Senders \ torn)
        /\ InNonceOrder(saved.log, saved.nonce, Senders \ torn)
        /\ \A s \in Senders : saved.nonce[s] <= nonce[s]
    BY DEF ExecInv, EffectsOnceInOrder, AheadOfSaved
  <1>4. Len(saved.log) <= Len(log) /\ \A i \in 1 .. Len(saved.log) : saved.log[i] = log[i]
    BY <1>0, PrefixPointwise DEF ExecInv, AheadOfSaved
  <1>5. A \subseteq Senders \ torn
    OBVIOUS
  <1>6. \A s \in A : \A i \in NewEffects :
            (log[i].whole /\ log[i].tx.from = s) => ((s \in accounts) <=> (i \notin missing))
    BY DEF TakenApart
  <1>7. /\ \A i \in 1 .. Len(log) : i \in 1 .. Len(saved.log) \/ i \in NewEffects
        /\ \A i \in 1 .. Len(saved.log) : i \in 1 .. Len(log) /\ i \notin missing
    BY <1>0, <1>4 DEF NewEffects
  <1>8. \A i \in 1 .. Len(log) : log[i].tx.from \in Senders /\ log[i].tx.nonce \in Nat
    <2> TAKE i \in 1 .. Len(log)
    <2>1. log[i] \in Effects
      BY <1>0, ElementOfSeq
    <2>2. log[i].tx \in Txs
      BY <2>1 DEF Effects
    <2> QED
      BY <2>2, MempoolAssumption DEF Txs, Nonces
  <1> HIDE DEF r, A
  <1>9. ASSUME NEW i \in 1 .. Len(log), r.log[i].whole, r.log[i].tx.from \in A
        PROVE  r.log[i].tx.nonce < r.nonce[r.log[i].tx.from]
    <2> DEFINE s == log[i].tx.from
    <2>1. log[i].whole /\ i \notin missing /\ r.log[i].tx = log[i].tx /\ s \in A
      BY <1>1, <1>9
    <2>2. s \in Senders /\ s \in Senders \ torn
      BY <1>5, <2>1
    <2>3. log[i].tx.nonce \in Nat /\ nonce[s] \in Nat /\ saved.nonce[s] \in Nat
      BY <1>0, <1>8, <2>2
    <2>4. CASE i \in 1 .. Len(saved.log)
      <3>1. log[i].tx.nonce < saved.nonce[s]
        BY <1>3, <1>4, <2>1, <2>2, <2>4 DEF InNonceOrder
      <3>2. saved.nonce[s] <= nonce[s]
        BY <1>3, <2>2
      <3>3. r.nonce[s] = nonce[s] \/ r.nonce[s] = saved.nonce[s]
        BY <1>1, <2>2
      <3> HIDE DEF s
      <3>4. log[i].tx.nonce < r.nonce[s]
        BY <2>3, <3>1, <3>2, <3>3
      <3> QED
        BY <2>1, <3>4 DEF s
    <2>5. CASE i \in NewEffects
      <3>1. s \in accounts
        BY <1>6, <2>1, <2>5
      <3>2. log[i].tx.nonce < nonce[s]
        BY <1>3, <2>1, <2>2 DEF InNonceOrder
      <3> QED
        BY <1>1, <2>1, <2>2, <3>1, <3>2
    <2> QED
      BY <1>7, <2>4, <2>5
  <1>10. ASSUME NEW i \in 1 .. Len(log), NEW j \in 1 .. Len(log), i < j, r.log[i].whole,
                r.log[i].tx.from \in A, r.log[i].tx.from = r.log[j].tx.from
         PROVE  r.log[i].tx.nonce < r.log[j].tx.nonce
    <2>1. /\ log[i].whole /\ log[i].tx.from \in Senders \ torn
          /\ log[i].tx.from = log[j].tx.from
          /\ r.log[i].tx = log[i].tx /\ r.log[j].tx = log[j].tx
      BY <1>1, <1>5, <1>10
    <2> QED
      BY <1>3, <1>10, <2>1 DEF InNonceOrder
  <1>11. ASSUME NEW s \in A, NEW m \in 0 .. r.nonce[s] - 1
         PROVE  \E i \in 1 .. Len(log) :
                    r.log[i].whole /\ r.log[i].tx.from = s /\ r.log[i].tx.nonce = m
    <2>0. s \in Senders /\ s \in Senders \ torn
      BY <1>5
    <2>1. CASE s \in accounts
      <3>1. m \in 0 .. nonce[s] - 1
        BY <1>1, <2>0, <2>1
      <3>2. PICK i \in 1 .. Len(log) : log[i].whole /\ log[i].tx.from = s /\ log[i].tx.nonce = m
        BY <1>3, <2>0, <3>1 DEF InNonceOrder
      <3>3. i \notin missing
        BY <1>6, <1>7, <2>1, <3>2
      <3> QED
        BY <1>1, <3>2, <3>3
    <2>2. CASE s \notin accounts
      <3>1. m \in 0 .. saved.nonce[s] - 1
        BY <1>1, <2>0, <2>2
      <3>2. PICK i \in 1 .. Len(saved.log) :
                saved.log[i].whole /\ saved.log[i].tx.from = s /\ saved.log[i].tx.nonce = m
        BY <1>3, <2>0, <3>1 DEF InNonceOrder
      <3>3. i \in 1 .. Len(log) /\ i \notin missing /\ log[i] = saved.log[i]
        BY <1>4, <1>7
      <3> QED
        BY <1>1, <3>2, <3>3
    <2> QED
      BY <2>1, <2>2
  <1>12. InNonceOrder(r.log, r.nonce, A)
    BY <1>2, <1>9, <1>10, <1>11 DEF InNonceOrder
  <1> QED
    BY <1>12 DEF r, A

\* A commit that is cut short, by an error or by a crash.
LEMMA CutCommitKeeps ==
    ASSUME ExecInv, CommitFails \/ CommitCrashes
    PROVE  ExecInv'
  <1>0. CutCommit /\ (UNCHANGED mvars \/ Clear)
    BY DEF CommitFails, CommitCrashes
  <1>1. PICK accounts \in SUBSET Senders, missing \in SUBSET NewEffects :
            /\ saved' = Readable(accounts, missing)
            /\ torn' = torn \cup TakenApart(accounts, missing)
    BY <1>0 DEF CutCommit
  <1>2. /\ nonce' = saved'.nonce /\ log' = saved'.log /\ running' = FALSE
        /\ queue' = queue /\ left' = left /\ faults' \in Nat
    BY <1>0 DEF CutCommit, ExecInv, TypeOK
  <1>3. saved' \in [nonce : [Senders -> Nat], log : Seq(Effects)]
    BY <1>1, CutLeaves
  <1>4. InNonceOrder(saved'.log, saved'.nonce, Senders \ torn')
    BY <1>1, CutKeepsOrder
  <1>5. PoolInv'
    BY <1>0, SamePool, ClearKeeps DEF ExecInv, mvars
  <1>6. torn' \subseteq Senders
    BY <1>1 DEF TakenApart, ExecInv, TypeOK
  <1>7. TypeOK' /\ BatchInHand'
    BY <1>2, <1>3, <1>5, <1>6 DEF ExecInv, PoolInv, TypeOK, BatchInHand
  <1>8. EffectsOnceInOrder'
    BY <1>2, <1>4 DEF EffectsOnceInOrder, InNonceOrder
  <1>9. AheadOfSaved'
    <2>1. log' = saved'.log /\ nonce' = saved'.nonce
      BY <1>2
    <2> QED
      BY <1>3, <2>1, PrefixOfSelf DEF AheadOfSaved
  <1> QED
    BY <1>5, <1>7, <1>8, <1>9 DEF ExecInv

\* A crash empties the pool and goes back to the committed state.
LEMMA CrashKeeps ==
    ASSUME ExecInv, Crash
    PROVE  ExecInv'
  <1>1. PoolInv'
    BY ClearKeeps DEF ExecInv, Crash
  <1>2. /\ nonce' = saved.nonce /\ log' = saved.log /\ saved' = saved /\ torn' = torn
        /\ queue' = queue /\ running' = FALSE /\ left' = <<>>
        /\ faults' \in Nat
    BY DEF Crash, ExecInv, TypeOK
  <1>3. saved.log \in Seq(Effects) /\ saved.nonce \in [Senders -> Nat]
    BY DEF ExecInv, TypeOK
  <1>4. TypeOK'
    BY <1>1, <1>2, <1>3, EmptySeq DEF ExecInv, PoolInv, TypeOK
  <1>5. EffectsOnceInOrder'
    BY <1>2 DEF ExecInv, EffectsOnceInOrder, InNonceOrder
  <1>6. AheadOfSaved'
    BY <1>2, <1>3, PrefixOfSelf DEF AheadOfSaved
  <1> QED
    BY <1>1, <1>2, <1>4, <1>5, <1>6 DEF ExecInv, BatchInHand

\* The executor starts with nothing executed and nothing committed.
LEMMA ExecInit ==
    ASSUME Init
    PROVE  ExecInv
  <1>1. PoolInv
    BY PoolInit DEF Init
  <1>2. /\ nonce = [s \in Senders |-> 0] /\ log = <<>>
        /\ saved = [nonce |-> nonce, log |-> log] /\ torn = {}
        /\ queue = <<>> /\ running = FALSE /\ left = <<>> /\ faults = 0
    BY DEF Init
  <1>3. TypeOK
    BY <1>1, <1>2, EmptySeq DEF PoolInv, TypeOK
  <1>4. InNonceOrder(log, nonce, Senders \ torn)
    BY <1>2 DEF InNonceOrder
  <1>5. EffectsOnceInOrder
    <2>1. saved.log = log /\ saved.nonce = nonce
      BY <1>2
    <2> QED
      BY <1>4, <2>1 DEF EffectsOnceInOrder
  <1>6. AheadOfSaved
    <2>1. saved.log = log /\ saved.nonce = nonce
      BY <1>2
    <2> QED
      BY <1>3, <2>1, PrefixOfSelf DEF AheadOfSaved, TypeOK
  <1> QED
    BY <1>1, <1>2, <1>3, <1>5, <1>6 DEF ExecInv, BatchInHand

-------------------------------------------------------------------------------
(* The theorems *)

\* The inductive invariant holds of every state the executor can reach.
THEOREM ExecInvariant == Spec => []ExecInv
  <1>1. Init => ExecInv
    BY ExecInit
  <1>2. ExecInv /\ [Next]_vars => ExecInv'
    <2> SUFFICES ASSUME ExecInv, [Next]_vars PROVE ExecInv'
      OBVIOUS
    <2>1. CASE Next
      BY <2>1, SubmitKeeps, GetTxsKeeps, ExecuteTxsKeeps, ExecuteTxKeeps, CommitKeeps,
         CutCommitKeeps, CrashKeeps DEF Next
    <2>2. CASE UNCHANGED vars
      <3>1. UNCHANGED <<txs, bySender, nonce, log, saved, torn, queue, running, left, faults>>
        BY <2>2 DEF vars
      <3>2. PoolInv'
        BY <3>1, SamePool DEF ExecInv
      <3>3. TypeOK' /\ BatchInHand'
        BY <3>1, <3>2 DEF ExecInv, PoolInv, TypeOK, BatchInHand
      <3> QED
        BY <3>1, <3>2, <3>3, SameState DEF ExecInv
    <2> QED
      BY <2>1, <2>2
  <1> QED
    BY <1>1, <1>2, PTL DEF Spec

\* Every variable of the executor keeps its type.
THEOREM ExecTypeCorrect == Spec => []TypeOK
  <1>1. ExecInv => TypeOK
    BY DEF ExecInv
  <1> QED
    BY <1>1, ExecInvariant, PTL

\* verify_nonce and increment_nonce make execution exactly-once and gap-free for
\* every account of which no cut commit put the nonce without the effects, or the
\* effects without the nonce: no overlap of batches, replay of a block or crash, and
\* no commit that was cut elsewhere, executes its payloads a second time or before
\* their predecessors.
THEOREM ExecOnceInOrder == Spec => []EffectsOnceInOrder
  <1>1. ExecInv => EffectsOnceInOrder
    BY DEF ExecInv
  <1> QED
    BY <1>1, ExecInvariant, PTL

\* What commit() made durable is never taken back, neither by a crash, nor by a commit
\* that is cut short, nor by the execution of a block that was sent again.
THEOREM ExecCommittedGrows == Spec => CommittedGrows
  <1> DEFINE Grows == /\ IsPrefix(saved.log, saved.log')
                      /\ \A s \in Senders : saved.nonce[s] <= saved.nonce'[s]
  <1>1. ExecInv /\ [Next]_vars => [Grows]_vars
    <2> SUFFICES ASSUME ExecInv, [Next]_vars PROVE Grows
      OBVIOUS
    <2>1. saved.log \in Seq(Effects) /\ saved.nonce \in [Senders -> Nat]
      BY DEF ExecInv, TypeOK
    <2>2. CASE saved' = saved
      BY <2>1, <2>2, PrefixOfSelf
    <2>3. CASE saved' = [nonce |-> nonce, log |-> log]
      BY <2>3 DEF ExecInv, AheadOfSaved
    <2>4. CASE CutCommit
      <3>1. PICK accounts \in SUBSET Senders, missing \in SUBSET NewEffects :
                saved' = Readable(accounts, missing)
        BY <2>4 DEF CutCommit
      <3> QED
        BY <3>1, CutLeaves
    <2>5. saved' = saved \/ saved' = [nonce |-> nonce, log |-> log] \/ CutCommit
      BY DEF Next, vars, Submit, GetTxs, ExecuteTxs, ExecuteTx, CommitAnswered,
             CommitAnswerLost, Commit, CommitFails, CommitCrashes, Crash
    <2> QED
      BY <2>2, <2>3, <2>4, <2>5
  <1> QED
    BY <1>1, ExecInvariant, PTL DEF Spec, CommittedGrows
===============================================================================
