------------------------------ MODULE OrderBook -------------------------------
(***************************************************************************)
(* One market of the trading engine: the in-memory OrderbookManager        *)
(* (engine/src/orderbook.rs), the order records, active list and positions *)
(* that StateManager keeps, and the handlers that move both: placing,      *)
(* matching, cancelling, closing a position, block commit, crash, and the  *)
(* rebuild of the book from the committed state.                           *)
(*                                                                         *)
(* Placing an order is one handler that holds the engine's lock.  Its      *)
(* matching loop is unrolled into one step per maker it looks at; while    *)
(* taker is not Idle nothing but that loop, or a crash, can happen.  The   *)
(* code applies a fill to the positions after the loop; since the loop     *)
(* reads no position, each fill is settled here in the step that makes it. *)
(* The book's own copies of the orders are written and never read for a    *)
(* decision, and are left out, as is the reduce_only flag of a record.     *)
(* Positions are signed sizes; margins and entry prices are left out, and  *)
(* with them the margin half of check_order_allowed: any order may fail it *)
(* (nothing happens) or pass it.                                           *)
(***************************************************************************)
EXTENDS Integers, Sequences, FiniteSets, FiniteSetsExt

CONSTANTS
    Traders,
    MaxPrice,      \* bound: prices are 0 (market order) .. MaxPrice, in ticks
    Sizes,         \* order sizes within min_order_size .. max_order_size
    Kinds,         \* time in force with the post_only and reduce_only flags
    MaxOrders,     \* bound: order ids handed out
    MaxCrashes,    \* bound
    NoOrder,       \* an id without an order record
    Idle           \* no order is being placed

OrderKinds == [tif : {"GTC", "IOC", "FOK", "PostOnly"},
               postOnly : BOOLEAN, reduceOnly : BOOLEAN]

ASSUME BookAssumption ==
    /\ IsFiniteSet(Traders)
    /\ MaxPrice \in Nat
    /\ Sizes \subseteq Nat \ {0}
    /\ Kinds \subseteq OrderKinds
    /\ MaxOrders \in Nat
    /\ MaxCrashes \in Nat

Ids == 0 .. MaxOrders - 1
Prices == 0 .. MaxPrice
Sides == BOOLEAN   \* TRUE: buy, the bids

Orders == [owner : Traders, buy : Sides, price : Prices, size : Nat, left : Nat,
           status : {"Active", "Filled", "Cancelled"}]

Takers == [id : Ids, owner : Traders, buy : Sides, price : Prices, size : Nat,
           left : Nat, kind : OrderKinds, visited : SUBSET Ids]

ASSUME SentinelAssumption == NoOrder \notin Orders /\ Idle \notin Takers

VARIABLES
    \* in StateManager
    orders,      \* Order{id}
    active,      \* ActiveOrderList
    nextId,      \* NextOrderId
    pos,         \* Position{trader}: + long, - short, 0 none
    saved,       \* the same four as of the last commit
    \* in OrderbookManager
    queue,       \* per side and price, the FIFO of ids; empty: no such level
    total,       \* per side and price, PriceLevel.total_size
    \* control
    boot,        \* how the book relates to the state since the last start
    todo,        \* what the rebuild has yet to look at
    taker,       \* the order being placed
    crashes,
    resurrected  \* a closed position came back from the committed state

state == <<orders, active, nextId, pos>>
book == <<queue, total>>
vars == <<orders, active, nextId, pos, saved, queue, total, boot, todo,
          taker, crashes, resurrected>>

Saved == [orders |-> orders, active |-> active, nextId |-> nextId, pos |-> pos]

EmptyQueues == [b \in Sides |-> [p \in Prices |-> <<>>]]
EmptyTotals == [b \in Sides |-> [p \in Prices |-> 0]]

Init ==
    /\ orders = [i \in Ids |-> NoOrder]
    /\ active = <<>>
    /\ nextId = 0
    /\ pos = [t \in Traders |-> 0]
    /\ saved = Saved
    /\ queue = EmptyQueues
    /\ total = EmptyTotals
    /\ boot = "ok"
    /\ todo = <<>>
    /\ taker = Idle
    /\ crashes = 0
    /\ resurrected = FALSE

-------------------------------------------------------------------------------
(* Helpers *)

Lesser(a, b) == IF a <= b THEN a ELSE b
Abs(n) == IF n < 0 THEN -n ELSE n

InSeq(s, x) == \E i \in 1 .. Len(s) : s[i] = x

\* The sequence without its first x, if it has one.
Drop(s, x) ==
    IF ~InSeq(s, x) THEN s
    ELSE LET i == CHOOSE i \in 1 .. Len(s) : s[i] = x /\ \A j \in 1 .. i - 1 : s[j] # x
         IN  [j \in 1 .. Len(s) - 1 |-> IF j < i THEN s[j] ELSE s[j + 1]]

\* get_depth of one side, all its levels.
GetDepth(b) == [p \in {q \in Prices : queue[b][q] # <<>>} |-> total[b][p]]

IsLive(i) == orders[i] # NoOrder /\ orders[i].status = "Active"

\* Slip: a level keeps the size of the orders that leave it.
RemoveFromLevelOnly(b, p, id, size) ==
    /\ queue' = [queue EXCEPT ![b][p] = Drop(@, id)]
    /\ UNCHANGED total

\* PriceLevel::remove_order; a level that becomes empty is removed with its total.
RemoveFromLevel(b, p, id, size) ==
    LET q == Drop(queue[b][p], id)
    IN  /\ queue' = [queue EXCEPT ![b][p] = q]
        /\ total' = [total EXCEPT ![b][p] =
                        IF ~InSeq(queue[b][p], id) THEN @
                        ELSE IF q = <<>> \/ @ < size THEN 0 ELSE @ - size]

\* Slip: the level's total is left behind.
AddUncounted(id, b, p, size) ==
    /\ queue' = [queue EXCEPT ![b][p] = Append(@, id)]
    /\ UNCHANGED total

\* OrderbookManager::add_order
AddToBook(id, b, p, size) ==
    /\ queue' = [queue EXCEPT ![b][p] = Append(@, id)]
    /\ total' = [total EXCEPT ![b][p] = @ + size]

Closes(t, delta) == pos[t] # 0 /\ pos[t] + delta = 0

\* Slip: a position is an unsigned size.
SettleUnsigned(t, delta) == IF pos[t] + delta < 0 THEN 0 ELSE pos[t] + delta

\* update_position: the position a trader is left with.  delete_position only
\* drops the block's own write: what was committed earlier is what the next read
\* finds.
Settle(t, delta) == IF Closes(t, delta) THEN saved.pos[t] ELSE pos[t] + delta

ComesBack(t, delta) == Closes(t, delta) /\ saved.pos[t] # 0

\* Slip: the taker's own price is not good enough.
AcceptsBetter(buy, limit, price) ==
    limit > 0 => IF buy THEN price < limit ELSE price > limit

\* The maker prices a taker accepts; 0 is a market order and accepts any.
Accepts(buy, limit, price) ==
    limit > 0 => IF buy THEN price <= limit ELSE price >= limit

\* Price-time order of the makers on one side, as a taker on the other side
\* goes through them.
Position(b, p, id) == CHOOSE i \in 1 .. Len(queue[b][p]) : queue[b][p][i] = id

Ahead(buy, p, i, q, j) ==
    \/ IF buy THEN p < q ELSE p > q
    \/ p = q /\ Position(~buy, p, i) < Position(~buy, q, j)

\* The resting orders the matching loop has still to look at.
Waiting ==
    {w \in Prices \X Ids :
        /\ Accepts(taker.buy, taker.price, w[1])
        /\ InSeq(queue[~taker.buy][w[1]], w[2])
        /\ w[2] \notin taker.visited}

WouldMatch(buy, limit) ==
    \E p \in Prices : queue[~buy][p] # <<>> /\ Accepts(buy, limit, p)

-------------------------------------------------------------------------------
(* Handlers *)

Ready == taker = Idle /\ boot # "rebuilding"

\* Serving a request on a book that was not rebuilt leaves it unrebuilt.
Serve == boot' = IF boot = "fresh" THEN "cold" ELSE boot

\* check_order_allowed, the reduce-only part
ReduceOnlyAllowed(t, buy, size) ==
    /\ pos[t] # 0
    /\ buy = (pos[t] < 0)
    /\ size <= Abs(pos[t])

\* next_order_id
NextOrderId == nextId' = nextId + 1

\* add_active_order
AddActive(id) == active' = IF InSeq(active, id) THEN active ELSE Append(active, id)

\* place_order up to the matching loop.  A post-only order that would match is
\* refused after its id was taken.
Place(t, buy, price, size, kind) ==
    /\ Ready
    /\ nextId < MaxOrders
    /\ size \in Sizes
    /\ kind.reduceOnly => ReduceOnlyAllowed(t, buy, size)
    /\ NextOrderId
    /\ taker' = IF kind.postOnly /\ WouldMatch(buy, price) THEN Idle
                ELSE [id |-> nextId, owner |-> t, buy |-> buy, price |-> price,
                      size |-> size, left |-> size, kind |-> kind, visited |-> {}]
    /\ Serve
    /\ UNCHANGED <<orders, active, pos, saved, book, todo, crashes, resurrected>>

\* close_position: an IOC market order against the position, of at most its
\* size; 0 asks for all of it.
ClosePosition(t, size) ==
    /\ pos[t] # 0
    /\ Place(t, pos[t] < 0, 0,
             IF size = 0 THEN Abs(pos[t]) ELSE Lesser(size, Abs(pos[t])),
             [tif |-> "IOC", postOnly |-> FALSE, reduceOnly |-> TRUE])

\* The loop passes over an order without a record, and over the taker's own.
SkipMaker(m) ==
    /\ orders[m] = NoOrder \/ orders[m].owner = taker.owner
    /\ taker' = [taker EXCEPT !.visited = @ \cup {m}]
    /\ UNCHANGED <<state, book, resurrected>>

FillMaker(p, m) ==
    /\ orders[m] # NoOrder /\ orders[m].owner # taker.owner
    /\ LET f == Lesser(taker.left, orders[m].left)
           maker == orders[m].owner
           delta == IF taker.buy THEN f ELSE -f
           done == f = orders[m].left
       IN  /\ taker' = [taker EXCEPT !.left = @ - f, !.visited = @ \cup {m}]
           /\ orders' = [orders EXCEPT ![m].left = @ - f,
                                       ![m].status = IF done THEN "Filled" ELSE @]
           /\ IF done
              THEN /\ active' = Drop(active, m)
                   /\ RemoveFromLevel(~taker.buy, p, m, f)
              ELSE /\ total' = [total EXCEPT ![~taker.buy][p] = @ - f]
                   /\ UNCHANGED <<active, queue>>
           /\ pos' = [pos EXCEPT ![taker.owner] = Settle(taker.owner, delta),
                                 ![maker] = Settle(maker, -delta)]
           /\ resurrected' = (resurrected \/ ComesBack(taker.owner, delta)
                                          \/ ComesBack(maker, -delta))
    /\ UNCHANGED nextId

MatchMaker ==
    /\ taker # Idle
    /\ taker.left > 0
    /\ \E w \in Waiting :
          /\ \A v \in Waiting : v = w \/ Ahead(taker.buy, w[1], w[2], v[1], v[2])
          /\ SkipMaker(w[2]) \/ FillMaker(w[1], w[2])
    /\ UNCHANGED <<saved, boot, todo, crashes>>

\* The loop is over: the order is filled, rests, is cancelled, or fails.
FinishOrder ==
    /\ taker # Idle
    /\ taker.left = 0 \/ Waiting = {}
    /\ LET rests == taker.left > 0 /\ taker.kind.tif \in {"GTC", "PostOnly"}
           record(s) == [owner |-> taker.owner, buy |-> taker.buy,
                         price |-> taker.price, size |-> taker.size,
                         left |-> taker.left, status |-> s]
       IN  /\ orders' = IF taker.left > 0 /\ taker.kind.tif = "FOK" THEN orders
                        ELSE [orders EXCEPT ![taker.id] =
                                 record(IF taker.left = 0 THEN "Filled"
                                        ELSE IF rests THEN "Active" ELSE "Cancelled")]
           /\ IF rests
              THEN /\ AddActive(taker.id)
                   /\ AddToBook(taker.id, taker.buy, taker.price, taker.left)
              ELSE UNCHANGED <<active, book>>
    /\ taker' = Idle
    /\ UNCHANGED <<nextId, pos, saved, boot, todo, crashes, resurrected>>

\* Slip: the order stays in the active list.
CancelKeepsActive(t, id) ==
    /\ Ready
    /\ IsLive(id)
    /\ orders[id].owner = t
    /\ RemoveFromLevel(orders[id].buy, orders[id].price, id, orders[id].left)
    /\ orders' = [orders EXCEPT ![id].status = "Cancelled"]
    /\ Serve
    /\ UNCHANGED <<active, nextId, pos, saved, todo, taker, crashes, resurrected>>

CancelOrder(t, id) ==
    /\ Ready
    /\ IsLive(id)
    /\ orders[id].owner = t
    /\ RemoveFromLevel(orders[id].buy, orders[id].price, id, orders[id].left)
    /\ orders' = [orders EXCEPT ![id].status = "Cancelled"]
    /\ active' = Drop(active, id)
    /\ Serve
    /\ UNCHANGED <<nextId, pos, saved, todo, taker, crashes, resurrected>>

-------------------------------------------------------------------------------
(* Blocks, crashes and recovery *)

Commit ==
    /\ Ready
    /\ saved' = Saved
    /\ UNCHANGED <<state, book, boot, todo, taker, crashes, resurrected>>

Crash ==
    /\ crashes < MaxCrashes
    /\ crashes' = crashes + 1
    /\ orders' = saved.orders
    /\ active' = saved.active
    /\ nextId' = saved.nextId
    /\ pos' = saved.pos
    /\ queue' = EmptyQueues
    /\ total' = EmptyTotals
    /\ boot' = "fresh"
    /\ todo' = <<>>
    /\ taker' = Idle
    /\ UNCHANGED <<saved, resurrected>>

\* Slip: the newest order is put back first.
RebuildBackwards ==
    /\ boot = "fresh"
    /\ boot' = "rebuilding"
    /\ todo' = [i \in 1 .. Len(active) |-> active[Len(active) + 1 - i]]
    /\ UNCHANGED <<state, saved, book, taker, crashes, resurrected>>

\* rebuild_orderbook_from_state, one entry of the active list per step.
RebuildStart ==
    /\ boot = "fresh"
    /\ boot' = "rebuilding"
    /\ todo' = active
    /\ UNCHANGED <<state, saved, book, taker, crashes, resurrected>>

RebuildOrder ==
    /\ boot = "rebuilding"
    /\ todo # <<>>
    /\ LET id == Head(todo)
       IN  IF IsLive(id) /\ orders[id].left > 0
           THEN /\ AddToBook(id, orders[id].buy, orders[id].price, orders[id].left)
                /\ UNCHANGED active
           ELSE /\ active' = IF orders[id] = NoOrder THEN active ELSE Drop(active, id)
                /\ UNCHANGED book
    /\ todo' = Tail(todo)
    /\ UNCHANGED <<orders, nextId, pos, saved, boot, taker, crashes, resurrected>>

\* Slip: the rebuild stops before the end of the list.
RebuildDoneEarly ==
    /\ boot = "rebuilding"
    /\ boot' = "ok"
    /\ todo' = <<>>
    /\ UNCHANGED <<state, saved, book, taker, crashes, resurrected>>

RebuildDone ==
    /\ boot = "rebuilding"
    /\ todo = <<>>
    /\ boot' = "ok"
    /\ UNCHANGED <<state, saved, book, todo, taker, crashes, resurrected>>

Next ==
    \/ \E t \in Traders, b \in Sides, p \in Prices, z \in Sizes, k \in Kinds :
          Place(t, b, p, z, k)
    \/ \E t \in Traders, z \in Sizes \cup {0} : ClosePosition(t, z)
    \/ MatchMaker
    \/ FinishOrder
    \/ \E t \in Traders, id \in Ids : CancelOrder(t, id)
    \/ Commit
    \/ Crash
    \/ RebuildStart
    \/ RebuildOrder
    \/ RebuildDone

Spec == Init /\ [][Next]_vars

-------------------------------------------------------------------------------
(* Properties *)

\* Every variable keeps the shape the code gives it.
TypeOK ==
    /\ orders \in [Ids -> Orders \cup {NoOrder}]
    /\ active \in Seq(Ids)
    /\ nextId \in 0 .. MaxOrders
    /\ pos \in [Traders -> Int]
    /\ saved \in [orders : [Ids -> Orders \cup {NoOrder}], active : Seq(Ids),
                  nextId : 0 .. MaxOrders, pos : [Traders -> Int]]
    /\ queue \in [Sides -> [Prices -> Seq(Ids)]]
    /\ total \in [Sides -> [Prices -> Nat]]
    /\ boot \in {"ok", "fresh", "rebuilding", "cold"}
    /\ todo \in Seq(Ids)
    /\ taker \in Takers \cup {Idle}
    /\ crashes \in Nat
    /\ resurrected \in BOOLEAN

Ascending(s) == \A i, j \in 1 .. Len(s) : i < j => s[i] < s[j]

\* Ids grow with time, so the FIFO of a level is in time priority exactly when it
\* is ascending: through partial fills, cancellations and a rebuild from the
\* active list, which therefore has to be ascending itself.
TimePriority ==
    /\ Ascending(active)
    /\ \A b \in Sides, p \in Prices : Ascending(queue[b][p])

\* The book holds exactly the active orders of the state, each on its own side
\* and at its own price, and the active list names exactly these.
BookMirrorsState ==
    boot = "ok" =>
        \A i \in Ids :
            /\ IsLive(i) <=> InSeq(active, i)
            /\ \A b \in Sides, p \in Prices :
                  InSeq(queue[b][p], i) <=>
                      IsLive(i) /\ orders[i].buy = b /\ orders[i].price = p

\* What is left of each order, and what of it was bought, by the order records.
Left == [i \in Ids |-> IF orders[i] = NoOrder THEN 0 ELSE orders[i].left]

Bought ==
    [i \in Ids |-> IF orders[i] = NoOrder THEN 0
                  ELSE IF orders[i].buy THEN orders[i].size - orders[i].left
                  ELSE orders[i].left - orders[i].size]

\* The depth that get_depth reports from the levels' own totals is what the
\* records of the resting orders say: the same prices, and at each price what is
\* left of the orders there.
LevelTotals ==
    \A b \in Sides :
        LET resting == {i \in Ids : \E p \in Prices : InSeq(queue[b][p], i)}
        IN  GetDepth(b) =
                [p \in {orders[i].price : i \in resting} |->
                    MapThenSumSet(LAMBDA i : Left[i],
                                  {i \in resting : orders[i].price = p})]

\* No bid and ask of two different traders are left that could have traded.
Uncrossed ==
    boot = "ok" =>
        \A p, q \in Prices : \A i, j \in Ids :
            (InSeq(queue[TRUE][p], i) /\ InSeq(queue[FALSE][q], j)
               /\ orders[i].owner # orders[j].owner) => p < q

\* Longs and shorts cancel out, as long as no closed position came back.
OpenInterestBalanced ==
    ~resurrected => MapThenSumSet(LAMBDA t : pos[t], Traders) = 0

\* A trader's position is what the trader's order records say was filled.
PositionsExplained ==
    (taker = Idle /\ ~resurrected) =>
        \A t \in Traders :
            pos[t] = MapThenSumSet(
                LAMBDA i : Bought[i],
                {i \in Ids : orders[i] # NoOrder /\ orders[i].owner = t})
===============================================================================
