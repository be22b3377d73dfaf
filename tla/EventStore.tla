------------------------------ MODULE EventStore -------------------------------
(***************************************************************************)
(* The event log of engine/src/event_store.rs: RocksDbEventStore with its  *)
(* write buffer, its three kinds of keys (event_store_key.rs) and its      *)
(* counter, and beside it InMemoryEventStore, the other implementation of  *)
(* the same trait, which is the reference for what a query returns.        *)
(*                                                                         *)
(* The engine numbers the events of a transaction (begin_tx, take_events)  *)
(* and append() buffers them.  A transaction that is executed again, in    *)
(* the same block or in another one, appends its events again.  flush()    *)
(* drains the buffer before the batch is written, so a failed write loses  *)
(* it; so does a crash.  A key is compared as the bytes of its borsh       *)
(* encoding: the low byte of the block height comes first.                 *)
(***************************************************************************)
EXTENDS Integers, FiniteSets, Sequences, Functions

CONSTANTS
    Heights,       \* block heights that are executed
    Hashes,        \* transaction hashes, numbers in the order of their bytes
    Addresses,
    BufferLimit,   \* buffer_limit: append flushes from this length on
    QueryLimits,   \* the limits given to get_by_address
    MaxPerTx,      \* bound: events of one transaction
    MaxEvents,     \* bound: events appended
    MaxFaults      \* bound: failed writes and crashes

\* A u64 height in a key: eight bytes, the low one first.
LittleEndian(h) ==
    LET h1 == h \div 256
        h2 == h1 \div 256
        h3 == h2 \div 256
        h4 == h3 \div 256
        h5 == h4 \div 256
        h6 == h5 \div 256
        h7 == h6 \div 256
    IN <<h % 256, h1 % 256, h2 % 256, h3 % 256, h4 % 256, h5 % 256, h6 % 256, h7 % 256>>

\* Heights are what eight bytes can tell apart.
ASSUME EventAssumption ==
    /\ Heights \subseteq Nat
    /\ \A g, h \in Heights : LittleEndian(g) = LittleEndian(h) => g = h
    /\ Hashes \subseteq Nat
    /\ QueryLimits \subseteq Nat
    /\ {BufferLimit, MaxPerTx, MaxEvents, MaxFaults} \subseteq Nat

VARIABLES
    buffer,       \* write_buffer
    stored,       \* the Event keys on disk, with their values
    blockIndex,   \* the BlockIndex keys on disk
    txIndex,      \* the TxIndex keys on disk
    count,        \* MetaCount
    mem,          \* InMemoryEventStore.events, given the same appends
    lost,         \* how many events a failed write or a crash took away
    faults

eventVars == <<buffer, stored, blockIndex, txIndex, count, mem, lost, faults>>

\* A DomainEvent, reduced to its place and the addresses in it.
Events == [block : Heights, tx : Hashes, index : Nat, parties : SUBSET Addresses]

\* event_involves_address
Involves(e, a) == a \in e.parties

\* EventStoreKey::Event and BlockIndex.
Key(e) == <<e.block, e.tx, e.index>>

\* Keys are compared byte by byte.
BytesBefore(g, h) ==
    LET p == LittleEndian(g)
        q == LittleEndian(h)
    IN \E i \in 1 .. 8 : p[i] < q[i] /\ \A j \in 1 .. i - 1 : p[j] = q[j]

\* The order of the transaction hash and the index behind the height in a key.
SuffixBefore(d, e) == d.tx < e.tx \/ (d.tx = e.tx /\ d.index < e.index)

EventInit ==
    /\ buffer = <<>>
    /\ stored = <<>>
    /\ blockIndex = {}
    /\ txIndex = {}
    /\ count = 0
    /\ mem = <<>>
    /\ lost = 0
    /\ faults = 0

\* Engine::begin_tx, the events a payload emits, and take_events.
TakeEvents(h, t, emitted) ==
    [i \in 1 .. Len(emitted) |->
        [block |-> h, tx |-> t, index |-> i - 1, parties |-> emitted[i]]]

-----------------------------------------------------------------------------
(* Writing. *)

\* The value that the batch puts last under key k.
LastPut(batch, k) ==
    batch[CHOOSE i \in DOMAIN batch :
            Key(batch[i]) = k /\ \A j \in i + 1 .. Len(batch) : Key(batch[j]) # k]

\* A slip: the counter grows by the length of the buffer after it was drained.
WriteBatchUncounted(batch) ==
    LET keys == {Key(e) : e \in Range(batch)}
    IN /\ stored' = [k \in DOMAIN stored \cup keys |->
                        IF k \in keys THEN LastPut(batch, k) ELSE stored[k]]
       /\ blockIndex' = blockIndex \cup keys
       /\ txIndex' = txIndex \cup {<<e.tx, e.index>> : e \in Range(batch)}
       /\ count' = count + Len(buffer')
       /\ UNCHANGED <<lost, faults>>

\* db.write(batch): values, both indexes and the counter, all or nothing.
WriteBatch(batch) ==
    LET keys == {Key(e) : e \in Range(batch)}
    IN /\ stored' = [k \in DOMAIN stored \cup keys |->
                        IF k \in keys THEN LastPut(batch, k) ELSE stored[k]]
       /\ blockIndex' = blockIndex \cup keys
       /\ txIndex' = txIndex \cup {<<e.tx, e.index>> : e \in Range(batch)}
       /\ count' = count + Len(batch)
       /\ UNCHANGED <<lost, faults>>

\* The write fails when the buffer is already drained.
WriteFails(batch) ==
    /\ faults < MaxFaults
    /\ faults' = faults + 1
    /\ lost' = lost + Len(batch)
    /\ UNCHANGED <<stored, blockIndex, txIndex, count>>

\* flush() of a buffer that holds batch.
FlushBatch(batch) ==
    /\ batch # <<>>
    /\ buffer' = <<>>
    /\ WriteBatch(batch) \/ WriteFails(batch)

\* InMemoryEventStore::append; its two indexes are positions in this list.
MemAppend(events) == mem' = mem \o events

\* append() of the events of one transaction, to both implementations.
AppendEvents(h, t, emitted) ==
    LET events == TakeEvents(h, t, emitted)
        full == buffer \o events
    IN /\ Len(mem) + Len(events) <= MaxEvents
       /\ MemAppend(events)
       /\ \/ /\ Len(full) >= BufferLimit
             /\ FlushBatch(full)
          \/ /\ Len(full) < BufferLimit
             /\ buffer' = full
             /\ UNCHANGED <<stored, blockIndex, txIndex, count, lost, faults>>

\* flush() called from outside, and by drop() when the process ends: nothing
\* else of the store is in memory, so a clean restart is a flush.
Flush ==
    /\ FlushBatch(buffer)
    /\ UNCHANGED mem

\* The process dies without drop(): what is buffered is gone.
LoseBuffer ==
    /\ buffer # <<>>
    /\ faults < MaxFaults
    /\ faults' = faults + 1
    /\ lost' = lost + Len(buffer)
    /\ buffer' = <<>>
    /\ UNCHANGED <<stored, blockIndex, txIndex, count, mem>>

EventNext ==
    \/ \E h \in Heights, t \in Hashes, n \in 1 .. MaxPerTx :
          \E emitted \in [1 .. n -> SUBSET Addresses] : AppendEvents(h, t, emitted)
    \/ Flush
    \/ LoseBuffer

EventSpec == EventInit /\ [][EventNext]_eventVars

-----------------------------------------------------------------------------
(* Reading. *)

\* The elements of a finite set in an order, which is a set of pairs: each has as
\* many before it as come earlier.
Sorted(S, before) ==
    [i \in 1 .. Cardinality(S) |->
        CHOOSE e \in S : Cardinality({d \in S : <<d, e>> \in before}) = i - 1]

\* The order of a scan of one height after the other.
OldestFirst(S) ==
    {p \in S \X S : \/ p[1].block < p[2].block
                    \/ p[1].block = p[2].block /\ SuffixBefore(p[1], p[2])}

\* The order that a stable sort by height, newest first, leaves of the scan.
NewestFirst(S) ==
    {p \in S \X S : \/ p[1].block > p[2].block
                    \/ p[1].block = p[2].block /\ SuffixBefore(p[1], p[2])}

ByNumber(S) == {p \in S \X S : p[1].index < p[2].index}

\* RocksDbEventStore::get_by_block_range: one scan of the BlockIndex for each
\* height, each key followed to its event.
GetByBlockRange(from, to) ==
    LET found == {stored[k] : k \in {i \in blockIndex : i[1] \in from .. to}}
    IN Sorted(found, OldestFirst(found))

\* The first Event key, in byte order, of event i of transaction t.
FirstEvent(t, i) ==
    LET keys == {k \in DOMAIN stored : k[2] = t /\ k[3] = i}
    IN stored[CHOOSE k \in keys : \A l \in keys \ {k} : BytesBefore(k[1], l[1])]

\* RocksDbEventStore::get_by_tx: the index does not know the block.
GetByTx(t) ==
    LET found == {FirstEvent(t, x[2]) : x \in {y \in txIndex : y[1] = t}}
    IN Sorted(found, ByNumber(found))

Truncate(s, limit) == SubSeq(s, 1, IF limit < Len(s) THEN limit ELSE Len(s))

\* A slip: the scan stops at the limit and only what it found is sorted.
GetByAddressCutFirst(a, limit) ==
    LET all == {e \in Range(stored) : Involves(e, a)}
        scan == {p \in all \X all :
                    \/ BytesBefore(p[1].block, p[2].block)
                    \/ p[1].block = p[2].block /\ SuffixBefore(p[1], p[2])}
        cut == Range(Truncate(Sorted(all, scan), limit))
    IN Sorted(cut, NewestFirst(cut))

\* RocksDbEventStore::get_by_address: a full scan, a stable sort by height,
\* newest first, and the cut.
GetByAddress(a, limit) ==
    LET found == {e \in Range(stored) : Involves(e, a)}
    IN Truncate(Sorted(found, NewestFirst(found)), limit)

\* InMemoryEventStore answers with the events at some places of its list: those in
\* by_block or by_tx, which grow upwards, or those of a scan from the end.
Upward(P) == {p \in P \X P : p[1] < p[2]}

Downward(P) == {p \in P \X P : p[1] > p[2]}

EventsAt(places) == [n \in DOMAIN places |-> mem[places[n]]]

MemByBlock(h) ==
    LET places == {i \in DOMAIN mem : mem[i].block = h}
    IN EventsAt(Sorted(places, Upward(places)))

MemByTx(t) ==
    LET places == {i \in DOMAIN mem : mem[i].tx = t}
    IN EventsAt(Sorted(places, Upward(places)))

MemByAddress(a, limit) ==
    LET places == {i \in DOMAIN mem : Involves(mem[i], a)}
    IN Truncate(EventsAt(Sorted(places, Downward(places))), limit)

-----------------------------------------------------------------------------
(* Properties. *)

\* Everything appended has reached the disk.
AllFlushed == lost = 0 /\ buffer = <<>>

\* No event was appended twice under the same key.
NoRepeat == \A i, j \in DOMAIN mem : Key(mem[i]) = Key(mem[j]) => i = j

\* The blocks of the appended events only ever went up.
BlocksAscend == \A i, j \in DOMAIN mem : i < j => mem[i].block <= mem[j].block

\* Appended events are counted on disk, still buffered, or were taken by a failed
\* write or a crash; the buffer stays below its limit; the counter is never less
\* than the number of stored events, and both indexes lead to exactly those.
EventsAccounted ==
    /\ count + Len(buffer) + lost = Len(mem)
    /\ Len(buffer) < BufferLimit \/ buffer = <<>>
    /\ Cardinality(DOMAIN stored) <= count
    /\ blockIndex = DOMAIN stored
    /\ txIndex = {<<k[2], k[3]>> : k \in DOMAIN stored}
    /\ Range(stored) \subseteq Range(mem)

\* Of the events listed under one key, the last.
LastVersions(events) ==
    {events[i] : i \in {j \in DOMAIN events :
                           \A l \in j + 1 .. Len(events) : Key(events[l]) # Key(events[j])}}

\* For every range of blocks the persistent store returns, once everything is
\* flushed, block after block, the last version of exactly the events that the
\* in-memory store returns of the block.  The in-memory store returns the earlier
\* versions, too, and within a block it keeps the order of the appends, the
\* persistent one that of the keys.
BlockQueriesAgree ==
    AllFlushed =>
        \A from, to \in Heights :
            LET found == GetByBlockRange(from, to)
            IN /\ \A e \in Range(found) : e.block \in from .. to
               /\ \A h \in Heights \cap from .. to :
                      {e \in Range(found) : e.block = h} = LastVersions(MemByBlock(h))
               /\ \A i, j \in DOMAIN found : i < j => found[i].block <= found[j].block
               /\ NoRepeat =>
                      Len(found) = Cardinality({i \in DOMAIN mem : mem[i].block \in from .. to})

\* A transaction that ran in one block has the same events in both stores, in the
\* same order; one that ran in several blocks, whose entries in the TxIndex fall
\* together, still has each of its event numbers, once.
TxQueriesAgree ==
    AllFlushed =>
        \A t \in Hashes :
            LET found == GetByTx(t)
            IN /\ {e.index : e \in Range(found)} = {e.index : e \in Range(MemByTx(t))}
               /\ \A i \in DOMAIN found : found[i].index = i - 1
               /\ (NoRepeat /\ \A d, e \in Range(MemByTx(t)) : d.block = e.block)
                      => found = MemByTx(t)

\* The places of the events of an address in block h and later ones.
Since(a, h) == {i \in DOMAIN mem : Involves(mem[i], a) /\ mem[i].block >= h}

\* When blocks came in order and nothing was repeated, both stores answer for an
\* address with equally many events, the same number of each block, newest block
\* first, and with every event of the blocks that the limit leaves whole.  Which
\* events they return of a block that the limit cuts, and in what order those of
\* one block come, differs: the one takes the lowest keys, the other the events
\* appended last.
AddressQueriesAgree ==
    AllFlushed /\ NoRepeat /\ BlocksAscend =>
        \A a \in Addresses, limit \in QueryLimits :
            LET found == GetByAddress(a, limit)
                expected == MemByAddress(a, limit)
            IN /\ Len(found) = Len(expected)
               /\ \A i \in DOMAIN found : found[i].block = expected[i].block
               /\ \A h \in Heights : Cardinality(Since(a, h)) <= limit =>
                      \A answer \in {found, expected} :
                          {e \in Range(answer) : e.block >= h} = {mem[i] : i \in Since(a, h)}

\* The answers of the two stores, as far as they are the same: which events, up to
\* those that repeated appends overwrite and, by address, those of a block that the
\* limit cuts; the order only from block to block, and within one transaction.
QueriesAgree == BlockQueriesAgree /\ TxQueriesAgree /\ AddressQueriesAgree
===============================================================================
