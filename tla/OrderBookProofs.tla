----------------------------- MODULE OrderBookProofs ----------------------------
(***************************************************************************)
(* The order book and the order records, for any number of traders,        *)
(* orders, prices and crashes.                                             *)
(*                                                                         *)
(* The records, the active list and the next id are a state that is        *)
(* consistent in itself (Consistent), in memory and as committed. The book *)
(* holds nothing but its live orders (BookSound); all of them once it was  *)
(* rebuilt, and while it is being rebuilt all but the ones to come         *)
(* (BookComplete). Neither half of BookMirrorsState is inductive without   *)
(* the other two, and TimePriority needs them to know that a new id, or    *)
(* the next one to be rebuilt, is above all that rest.                     *)
(***************************************************************************)
EXTENDS OrderBook, Sums

States == [orders : [Ids -> Orders \cup {NoOrder}], active : Seq(Ids),
           nextId : 0 .. MaxOrders, pos : [Traders -> Int]]

LiveIn(s, i) == s.orders[i] # NoOrder /\ s.orders[i].status = "Active"

\* The active list names the live orders in the order of their ids, every order
\* has an id that was handed out, and a live one has something left.
Consistent(s) ==
    /\ Ascending(s.active)
    /\ \A i \in Ids : InSeq(s.active, i) <=> LiveIn(s, i)
    /\ \A i \in Ids : s.orders[i] # NoOrder =>
          /\ i < s.nextId
          /\ s.orders[i].left <= s.orders[i].size
          /\ s.orders[i].status = "Active" => s.orders[i].left > 0

\* What rests is live and in its place, in time order.
BookSound ==
    \A b \in Sides, p \in Prices :
        /\ Ascending(queue[b][p])
        /\ \A i \in Ids : InSeq(queue[b][p], i) =>
              IsLive(i) /\ orders[i].buy = b /\ orders[i].price = p

Resting(i) == InSeq(queue[orders[i].buy][orders[i].price], i)

\* What is missing in the book, in each phase since the last start.
BookComplete ==
    /\ boot = "ok" => \A i \in Ids : IsLive(i) => Resting(i)
    /\ boot = "fresh" => \A b \in Sides, p \in Prices : queue[b][p] = <<>>
    /\ boot \in {"fresh", "rebuilding"} => taker = Idle
    /\ boot = "rebuilding" =>
          /\ Ascending(todo)
          /\ \A i \in Ids : InSeq(todo, i) =>
                /\ IsLive(i)
                /\ \A b \in Sides, p \in Prices, j \in Ids :
                      InSeq(queue[b][p], j) => j < i
          /\ \A i \in Ids : IsLive(i) => Resting(i) \/ InSeq(todo, i)

\* The order being placed has the newest id, and no record yet.
TakerNew ==
    taker # Idle =>
        /\ taker.id = nextId - 1
        /\ orders[taker.id] = NoOrder
        /\ taker.left <= taker.size

BookInv == Consistent(Saved) /\ Consistent(saved) /\ BookSound /\ BookComplete /\ TakerNew

Level(b, p) == {i \in Ids : InSeq(queue[b][p], i)}

\* Each level's running total is what is left of the orders in its queue.
Totals == \A b \in Sides, p \in Prices : total[b][p] = SumOver(Left, Level(b, p))

\* The type invariant, but for a total's not being negative, which only Totals can
\* tell.
Shape ==
    /\ orders \in [Ids -> Orders \cup {NoOrder}]
    /\ active \in Seq(Ids)
    /\ nextId \in 0 .. MaxOrders
    /\ pos \in [Traders -> Int]
    /\ saved \in States
    /\ queue \in [Sides -> [Prices -> Seq(Ids)]]
    /\ total \in [Sides -> [Prices -> Int]]
    /\ boot \in {"ok", "fresh", "rebuilding", "cold"}
    /\ todo \in Seq(Ids)
    /\ taker \in Takers \cup {Idle}
    /\ crashes \in Nat
    /\ resurrected \in BOOLEAN

Inv == Shape /\ BookInv /\ Totals

-------------------------------------------------------------------------------
(* Sequences of ids *)

\* Ids are numbers.
LEMMA IdsAreNat == \A i \in Ids : i \in Nat /\ i \in Int
BY BookAssumption DEF Ids

\* Drop takes x out of an ascending sequence and nothing else.
LEMMA DropProps ==
  ASSUME NEW s \in Seq(Ids), Ascending(s), NEW x \in Ids
  PROVE  /\ Drop(s, x) \in Seq(Ids)
         /\ Ascending(Drop(s, x))
         /\ \A y \in Ids : InSeq(Drop(s, x), y) <=> InSeq(s, y) /\ y # x
<1>1. CASE ~InSeq(s, x)
  BY <1>1 DEF Drop, InSeq
<1>2. CASE InSeq(s, x)
  <2> DEFINE i == CHOOSE i \in 1 .. Len(s) : s[i] = x /\ \A j \in 1 .. i - 1 : s[j] # x
             d == [j \in 1 .. Len(s) - 1 |-> IF j < i THEN s[j] ELSE s[j + 1]]
  <2>1. \A a, b \in 1 .. Len(s) : a < b => s[a] < s[b]
    BY DEF Ascending
  <2>2. /\ Len(s) \in Nat /\ \A j \in 1 .. Len(s) : s[j] \in Ids /\ s[j] \in Int
    <3>1. Len(s) \in Nat /\ \A j \in 1 .. Len(s) : s[j] \in Ids
      OBVIOUS
    <3> QED BY <3>1, IdsAreNat
  <2>3. PICK k \in 1 .. Len(s) : s[k] = x
    BY <1>2 DEF InSeq
  <2>4. \A j \in 1 .. k - 1 : s[j] # x
    BY <2>1, <2>2, <2>3
  <2>5. i \in 1 .. Len(s) /\ s[i] = x
    <3>1. \E a \in 1 .. Len(s) : s[a] = x /\ \A j \in 1 .. a - 1 : s[j] # x
      BY <2>3, <2>4
    <3> QED BY <3>1
  <2> HIDE DEF i
  <2>6. Drop(s, x) = d
    BY <1>2, Zenon DEF Drop, i
  <2>7. d \in Seq(Ids) /\ Len(d) = Len(s) - 1
    BY <2>2, <2>5
  <2>8. \A j \in 1 .. Len(s) - 1 : d[j] = IF j < i THEN s[j] ELSE s[j + 1]
    OBVIOUS
  <2> HIDE DEF d
  <2>9. Ascending(d)
    <3> SUFFICES ASSUME NEW a \in 1 .. Len(d), NEW b \in 1 .. Len(d), a < b
                 PROVE  d[a] < d[b]
      BY DEF Ascending
    <3>1. a \in 1 .. Len(s) - 1 /\ b \in 1 .. Len(s) - 1 /\ i \in Int /\ Len(s) \in Nat
      BY <2>2, <2>5, <2>7
    <3>2. /\ a \in 1 .. Len(s) /\ b \in 1 .. Len(s)
          /\ a + 1 \in 1 .. Len(s) /\ b + 1 \in 1 .. Len(s)
      BY <3>1
    <3>3. CASE a < i /\ b < i
      BY <2>1, <2>8, <3>1, <3>2, <3>3
    <3>4. CASE a < i /\ ~(b < i)
      BY <2>1, <2>8, <3>1, <3>2, <3>4
    <3>5. CASE ~(a < i)
      <4>1. ~(b < i) /\ a + 1 < b + 1
        BY <3>1, <3>5
      <4> QED BY <2>1, <2>8, <3>1, <3>2, <3>5, <4>1
    <3> QED BY <3>3, <3>4, <3>5
  <2>10. ASSUME NEW y \in Ids PROVE InSeq(d, y) <=> InSeq(s, y) /\ y # x
    <3>1. ASSUME InSeq(d, y) PROVE InSeq(s, y) /\ y # x
      <4>1. PICK a \in 1 .. Len(d) : d[a] = y
        BY <3>1 DEF InSeq
      <4>2. CASE a < i
        <5>1. y = s[a] /\ a \in 1 .. Len(s) /\ s[a] < s[i]
          BY <2>1, <2>2, <2>5, <2>7, <2>8, <4>1, <4>2
        <5> QED BY <5>1, <2>2, <2>5 DEF InSeq
      <4>3. CASE ~(a < i)
        <5>1. y = s[a + 1] /\ a + 1 \in 1 .. Len(s) /\ s[i] < s[a + 1]
          BY <2>1, <2>2, <2>5, <2>7, <2>8, <4>1, <4>3
        <5> QED BY <5>1, <2>2, <2>5 DEF InSeq
      <4> QED BY <4>2, <4>3
    <3>2. ASSUME InSeq(s, y), y # x PROVE InSeq(d, y)
      <4>1. PICK a \in 1 .. Len(s) : s[a] = y
        BY <3>2 DEF InSeq
      <4>2. CASE a < i
        <5>1. a \in 1 .. Len(d) /\ d[a] = y
          BY <2>2, <2>5, <2>7, <2>8, <4>1, <4>2
        <5> QED BY <5>1 DEF InSeq
      <4>3. CASE a > i
        <5>1. a - 1 \in 1 .. Len(d) /\ d[a - 1] = y
          BY <2>2, <2>5, <2>7, <2>8, <4>1, <4>3
        <5> QED BY <5>1 DEF InSeq
      <4> QED BY <2>5, <3>2, <4>1, <4>2, <4>3
    <3> QED BY <3>1, <3>2
  <2> QED BY <2>6, <2>7, <2>9, <2>10
<1> QED BY <1>1, <1>2

\* Appending a new greatest id.
LEMMA AppendProps ==
  ASSUME NEW s \in Seq(Ids), Ascending(s), NEW x \in Ids,
         \A y \in Ids : InSeq(s, y) => y < x
  PROVE  /\ Append(s, x) \in Seq(Ids)
         /\ Ascending(Append(s, x))
         /\ \A y \in Ids : InSeq(Append(s, x), y) <=> InSeq(s, y) \/ y = x
<1> DEFINE d == Append(s, x)
<1>1. /\ d \in Seq(Ids) /\ Len(d) = Len(s) + 1 /\ Len(s) \in Nat
      /\ d[Len(s) + 1] = x /\ \A i \in 1 .. Len(s) : d[i] = s[i] /\ s[i] \in Ids
  OBVIOUS
<1> HIDE DEF d
<1>2. \A i \in 1 .. Len(s) : s[i] < x
  BY <1>1 DEF InSeq
<1>3. Ascending(d)
  BY <1>1, <1>2 DEF Ascending
<1>4. \A y \in Ids : InSeq(d, y) <=> InSeq(s, y) \/ y = x
  BY <1>1 DEF InSeq
<1> QED BY <1>1, <1>3, <1>4 DEF d

\* The first of an ascending sequence and the rest.
LEMMA TailProps ==
  ASSUME NEW s \in Seq(Ids), Ascending(s), s # <<>>
  PROVE  /\ Head(s) \in Ids
         /\ Tail(s) \in Seq(Ids)
         /\ Ascending(Tail(s))
         /\ \A y \in Ids : InSeq(s, y) <=> y = Head(s) \/ InSeq(Tail(s), y)
         /\ \A y \in Ids : InSeq(Tail(s), y) => Head(s) < y
<1> DEFINE d == Tail(s)
<1>1. /\ d \in Seq(Ids) /\ Len(d) = Len(s) - 1 /\ Len(s) \in Nat \ {0}
      /\ Head(s) = s[1] /\ s[1] \in Ids
      /\ \A i \in 1 .. Len(s) - 1 : d[i] = s[i + 1]
  OBVIOUS
<1> HIDE DEF d
<1>2. Ascending(d) /\ \A y \in Ids : InSeq(d, y) => Head(s) < y
  BY <1>1 DEF Ascending, InSeq
<1>3. ASSUME NEW y \in Ids PROVE InSeq(s, y) <=> y = Head(s) \/ InSeq(d, y)
  <2>1. ASSUME NEW i \in 1 .. Len(s), s[i] = y PROVE y = Head(s) \/ InSeq(d, y)
    <3>1. CASE i = 1
      BY <1>1, <2>1, <3>1
    <3>2. CASE i # 1
      <4>1. i - 1 \in 1 .. Len(d) /\ d[i - 1] = y
        BY <1>1, <2>1, <3>2
      <4> QED BY <4>1 DEF InSeq
    <3> QED BY <3>1, <3>2
  <2>2. ASSUME NEW i \in 1 .. Len(d), d[i] = y PROVE InSeq(s, y)
    <3>1. i + 1 \in 1 .. Len(s) /\ s[i + 1] = y
      BY <1>1, <2>2
    <3> QED BY <3>1 DEF InSeq
  <2>3. y = Head(s) => InSeq(s, y)
    BY <1>1 DEF InSeq
  <2> QED BY <2>1, <2>2, <2>3 DEF InSeq
<1> QED BY <1>1, <1>2, <1>3 DEF d

\* No id is in the empty sequence.
LEMMA EmptyProps ==
  /\ <<>> \in Seq(Ids) /\ Ascending(<<>>)
  /\ \A y : ~InSeq(<<>>, y)
BY DEF Ascending, InSeq

-------------------------------------------------------------------------------
(* What a step does to the queues and the records *)

\* Ids are finitely many.
LEMMA IdsFinite == IsFiniteSet(Ids)
BY BookAssumption, FS_Interval DEF Ids

\* What is left of an order is a natural.
LEMMA LeftType ==
  /\ orders \in [Ids -> Orders \cup {NoOrder}] => Left \in [Ids -> Nat]
  /\ (orders \in [Ids -> Orders \cup {NoOrder}])' => (Left \in [Ids -> Nat])'
<1>1. ASSUME NEW o \in [Ids -> Orders \cup {NoOrder}], NEW i \in Ids
      PROVE  (IF o[i] = NoOrder THEN 0 ELSE o[i].left) \in Nat
  BY DEF Orders
<1> QED BY <1>1 DEF Left

\* One queue is replaced.
LEMMA QueueSet ==
  ASSUME queue \in [Sides -> [Prices -> Seq(Ids)]],
         NEW b \in Sides, NEW p \in Prices, NEW s \in Seq(Ids),
         queue' = [queue EXCEPT ![b][p] = s]
  PROVE  /\ queue' \in [Sides -> [Prices -> Seq(Ids)]]
         /\ \A c \in Sides, q \in Prices :
               queue'[c][q] = IF c = b /\ q = p THEN s ELSE queue[c][q]
OBVIOUS

\* OrderbookManager::add_order with a newest id.
LEMMA QueueAdd ==
  ASSUME queue \in [Sides -> [Prices -> Seq(Ids)]],
         \A c \in Sides, q \in Prices : Ascending(queue[c][q]),
         NEW id \in Ids, NEW b \in Sides, NEW p \in Prices,
         \A i \in Ids : InSeq(queue[b][p], i) => i < id,
         NEW size, AddToBook(id, b, p, size)
  PROVE  /\ queue' \in [Sides -> [Prices -> Seq(Ids)]]
         /\ \A c \in Sides, q \in Prices : Ascending(queue'[c][q])
         /\ \A c \in Sides, q \in Prices, i \in Ids :
               InSeq(queue'[c][q], i) <=> InSeq(queue[c][q], i) \/ (c = b /\ q = p /\ i = id)
<1> DEFINE s == Append(queue[b][p], id)
<1>1. /\ s \in Seq(Ids) /\ Ascending(s)
      /\ \A i \in Ids : InSeq(s, i) <=> InSeq(queue[b][p], i) \/ i = id
  BY AppendProps
<1>2. queue' = [queue EXCEPT ![b][p] = s]
  BY DEF AddToBook
<1> HIDE DEF s
<1>3. /\ queue' \in [Sides -> [Prices -> Seq(Ids)]]
      /\ \A c \in Sides, q \in Prices :
            queue'[c][q] = IF c = b /\ q = p THEN s ELSE queue[c][q]
  BY <1>1, <1>2, QueueSet
<1> QED BY <1>1, <1>3

\* PriceLevel::remove_order
LEMMA QueueDrop ==
  ASSUME queue \in [Sides -> [Prices -> Seq(Ids)]],
         \A c \in Sides, q \in Prices : Ascending(queue[c][q]),
         NEW id \in Ids, NEW b \in Sides, NEW p \in Prices,
         NEW size, RemoveFromLevel(b, p, id, size)
  PROVE  /\ queue' \in [Sides -> [Prices -> Seq(Ids)]]
         /\ \A c \in Sides, q \in Prices : Ascending(queue'[c][q])
         /\ \A c \in Sides, q \in Prices, i \in Ids :
               InSeq(queue'[c][q], i) <=> InSeq(queue[c][q], i) /\ ~(c = b /\ q = p /\ i = id)
         /\ queue'[b][p] = Drop(queue[b][p], id)
<1> DEFINE s == Drop(queue[b][p], id)
<1>1. /\ s \in Seq(Ids) /\ Ascending(s)
      /\ \A i \in Ids : InSeq(s, i) <=> InSeq(queue[b][p], i) /\ i # id
  BY DropProps
<1>2. queue' = [queue EXCEPT ![b][p] = s]
  BY DEF RemoveFromLevel
<1> HIDE DEF s
<1>3. /\ queue' \in [Sides -> [Prices -> Seq(Ids)]]
      /\ \A c \in Sides, q \in Prices :
            queue'[c][q] = IF c = b /\ q = p THEN s ELSE queue[c][q]
  BY <1>1, <1>2, QueueSet
<1>4. queue'[b][p] = s
  BY <1>3
<1> QED BY <1>1, <1>3, <1>4 DEF s

\* One order record is written, and the active list follows.
LEMMA RecordKeeps ==
  ASSUME Shape, Consistent(Saved), NEW m \in Ids, NEW r \in Orders,
         orders' = [orders EXCEPT ![m] = r],
         nextId' \in 0 .. MaxOrders, nextId <= nextId', m < nextId',
         r.left <= r.size, r.status = "Active" => r.left > 0,
         active' \in Seq(Ids), Ascending(active'),
         \A i \in Ids : InSeq(active', i) <=>
                         IF i = m THEN r.status = "Active" ELSE InSeq(active, i)
  PROVE  Consistent(Saved)' /\ orders' \in [Ids -> Orders \cup {NoOrder}]
<1>1. /\ orders' \in [Ids -> Orders \cup {NoOrder}]
      /\ \A i \in Ids : orders'[i] = IF i = m THEN r ELSE orders[i]
  BY DEF Shape
<1>2. r # NoOrder
  BY SentinelAssumption
<1>3. \A i \in Ids : InSeq(active', i) <=> orders'[i] # NoOrder /\ orders'[i].status = "Active"
  BY <1>1, <1>2 DEF Consistent, Saved, LiveIn
<1>4. ASSUME NEW i \in Ids, orders'[i] # NoOrder
      PROVE  /\ i < nextId'
             /\ orders'[i].left <= orders'[i].size
             /\ orders'[i].status = "Active" => orders'[i].left > 0
  <2>1. CASE i = m
    BY <1>1, <2>1
  <2>2. CASE i # m
    <3>1. orders'[i] = orders[i] /\ i < nextId /\ i \in Int /\ nextId \in Int
      BY <1>1, <1>4, <2>2, IdsAreNat DEF Consistent, Saved, Shape
    <3> QED BY <1>4, <3>1 DEF Consistent, Saved
  <2> QED BY <2>1, <2>2
<1> QED BY <1>1, <1>3, <1>4 DEF Consistent, Saved, LiveIn

\* One order record is written, and its place in the book follows.
LEMMA BookKeeps ==
  ASSUME Shape, BookSound, BookComplete, NEW m \in Ids, NEW r \in Orders,
         orders' = [orders EXCEPT ![m] = r],
         \A c \in Sides, q \in Prices : Ascending(queue'[c][q]),
         \A c \in Sides, q \in Prices, i \in Ids \ {m} :
            InSeq(queue'[c][q], i) <=> InSeq(queue[c][q], i),
         \A c \in Sides, q \in Prices : InSeq(queue'[c][q], m) =>
            r.status = "Active" /\ r.buy = c /\ r.price = q,
         boot' \in {"ok", "cold"},
         boot' = "ok" => /\ boot = "ok"
                         /\ r.status = "Active" => InSeq(queue'[r.buy][r.price], m)
  PROVE  BookSound' /\ BookComplete'
<1>1. \A i \in Ids : orders'[i] = IF i = m THEN r ELSE orders[i]
  BY DEF Shape
<1>2. r # NoOrder
  BY SentinelAssumption
<1>3. BookSound'
  <2> SUFFICES ASSUME NEW b \in Sides, NEW p \in Prices
               PROVE  /\ Ascending(queue'[b][p])
                      /\ \A i \in Ids : InSeq(queue'[b][p], i) =>
                            (IsLive(i) /\ orders[i].buy = b /\ orders[i].price = p)'
    BY DEF BookSound
  <2> QED BY <1>1, <1>2 DEF BookSound, IsLive
<1>4. ASSUME boot' = "ok", NEW i \in Ids, IsLive(i)'
      PROVE  Resting(i)'
  <2>1. CASE i = m
    BY <1>1, <1>4, <2>1 DEF IsLive, Resting
  <2>2. CASE i # m
    <3>1. orders'[i] = orders[i] /\ IsLive(i)
      BY <1>1, <1>4, <2>2 DEF IsLive
    <3>2. Resting(i) /\ orders[i].buy \in Sides /\ orders[i].price \in Prices
      BY <1>4, <3>1 DEF BookComplete, IsLive, Shape, Orders
    <3> QED BY <2>2, <3>1, <3>2 DEF Resting
  <2> QED BY <2>1, <2>2
<1> QED BY <1>3, <1>4 DEF BookComplete

\* The level totals follow the queues: an order is added, removed or shrinks.
LEMMA TotalsAdd ==
  ASSUME Shape, Totals, NEW id \in Ids, NEW b \in Sides, NEW p \in Prices, NEW size \in Nat,
         \A c \in Sides, q \in Prices : ~InSeq(queue[c][q], id),
         \A c \in Sides, q \in Prices, i \in Ids :
            InSeq(queue'[c][q], i) <=> InSeq(queue[c][q], i) \/ (c = b /\ q = p /\ i = id),
         AddToBook(id, b, p, size),
         orders' \in [Ids -> Orders \cup {NoOrder}],
         Left'[id] = size, \A i \in Ids \ {id} : Left'[i] = Left[i]
  PROVE  Totals' /\ total' \in [Sides -> [Prices -> Int]]
<1>1. /\ total' \in [Sides -> [Prices -> Int]]
      /\ \A c \in Sides, q \in Prices :
            total'[c][q] = IF c = b /\ q = p THEN total[b][p] + size ELSE total[c][q]
  BY DEF Shape, AddToBook
<1>2. Left \in [Ids -> Nat] /\ Left' \in [Ids -> Nat]
  BY LeftType DEF Shape
<1>3. ASSUME NEW c \in Sides, NEW q \in Prices
      PROVE  total'[c][q] = SumOver(Left', Level(c, q)')
  <2>1. IsFiniteSet(Level(c, q)) /\ Level(c, q) \subseteq Ids /\ id \notin Level(c, q)
    BY IdsFinite, FS_Subset DEF Level
  <2>2. SumOver(Left, Level(c, q)) = SumOver(Left', Level(c, q))
    BY <1>2, <2>1, SumSame
  <2>3. total[c][q] = SumOver(Left', Level(c, q)) /\ total[c][q] \in Int
    BY <2>2 DEF Totals, Shape
  <2>4. CASE c = b /\ q = p
    <3>1. Level(c, q)' = Level(c, q) \cup {id}
      BY <2>4 DEF Level
    <3>2. SumOver(Left', Level(c, q) \cup {id}) = SumOver(Left', Level(c, q)) + Left'[id]
      BY <1>2, <2>1, SumAdd
    <3> QED BY <1>1, <2>3, <2>4, <3>1, <3>2
  <2>5. CASE ~(c = b /\ q = p)
    <3>1. Level(c, q)' = Level(c, q)
      BY <2>5 DEF Level
    <3> QED BY <1>1, <2>3, <2>5, <3>1
  <2> QED BY <2>4, <2>5
<1> QED BY <1>1, <1>3 DEF Totals

\* Taking an order out of its level takes what is left of it out of the total.
LEMMA TotalsRemove ==
  ASSUME Shape, Totals, NEW id \in Ids, NEW b \in Sides, NEW p \in Prices,
         \A c \in Sides, q \in Prices : InSeq(queue[c][q], id) => c = b /\ q = p,
         \A c \in Sides, q \in Prices, i \in Ids :
            InSeq(queue'[c][q], i) <=> InSeq(queue[c][q], i) /\ ~(c = b /\ q = p /\ i = id),
         NEW size \in Nat, size = Left[id],
         queue'[b][p] = Drop(queue[b][p], id), RemoveFromLevel(b, p, id, size),
         orders' \in [Ids -> Orders \cup {NoOrder}],
         \A i \in Ids \ {id} : Left'[i] = Left[i]
  PROVE  Totals' /\ total' \in [Sides -> [Prices -> Int]]
<1> DEFINE new == IF ~InSeq(queue[b][p], id) THEN total[b][p]
                  ELSE IF Drop(queue[b][p], id) = <<>> \/ total[b][p] < size THEN 0
                  ELSE total[b][p] - size
<1>1. /\ total' = [total EXCEPT ![b][p] = new] /\ new \in Int
  BY DEF Shape, RemoveFromLevel
<1>2. /\ total' \in [Sides -> [Prices -> Int]]
      /\ \A c \in Sides, q \in Prices :
            total'[c][q] = IF c = b /\ q = p THEN new ELSE total[c][q]
  <2> HIDE DEF new
  <2> QED BY <1>1 DEF Shape
<1>3. Left \in [Ids -> Nat] /\ Left' \in [Ids -> Nat]
  BY LeftType DEF Shape
<1>4. ASSUME NEW c \in Sides, NEW q \in Prices
      PROVE  total'[c][q] = SumOver(Left', Level(c, q)')
  <2>1. IsFiniteSet(Level(c, q)) /\ Level(c, q) \subseteq Ids
        /\ IsFiniteSet(Level(c, q)') /\ Level(c, q)' \subseteq Ids /\ id \notin Level(c, q)'
    <3>1. Level(c, q) \subseteq Ids /\ Level(c, q)' \subseteq Ids /\ id \notin Level(c, q)'
      BY DEF Level
    <3> QED BY <3>1, IdsFinite, FS_Subset
  <2>2. SumOver(Left, Level(c, q)') = SumOver(Left', Level(c, q)')
        /\ SumOver(Left', Level(c, q)') \in Nat
    BY <1>3, <2>1, SumSame, SumNat
  <2>3. total[c][q] = SumOver(Left, Level(c, q)) /\ total[c][q] \in Int
    BY DEF Totals, Shape
  <2>4. CASE c = b /\ q = p /\ InSeq(queue[b][p], id)
    <3>1. Level(c, q)' = Level(c, q) \ {id} /\ id \in Level(c, q)
      BY <2>4 DEF Level
    <3>2. SumOver(Left, Level(c, q)) = Left[id] + SumOver(Left, Level(c, q) \ {id})
      BY <1>3, <2>1, <3>1, SumRemove
    <3>3. total[b][p] = size + SumOver(Left', Level(c, q)')
      BY <2>2, <2>3, <2>4, <3>1, <3>2
    <3>4. CASE Drop(queue[b][p], id) = <<>>
      <4>1. Level(c, q)' = {}
        BY <2>4, <3>4, EmptyProps DEF Level
      <4>2. SumOver(Left', Level(c, q)') = 0
        BY <4>1, SumEmpty
      <4> QED BY <1>2, <2>4, <3>4, <4>2
    <3>5. CASE Drop(queue[b][p], id) # <<>>
      BY <1>2, <2>2, <2>4, <3>3, <3>5
    <3> QED BY <3>4, <3>5
  <2>5. CASE ~(c = b /\ q = p /\ InSeq(queue[b][p], id))
    <3>1. Level(c, q)' = Level(c, q)
      BY <2>5 DEF Level
    <3>2. total'[c][q] = total[c][q]
      BY <1>2, <2>5
    <3> QED BY <2>2, <2>3, <3>1, <3>2
  <2> QED BY <2>4, <2>5
<1> QED BY <1>2, <1>4 DEF Totals

\* A partial fill takes the same from the order and from the total.
LEMMA TotalsShrink ==
  ASSUME Shape, Totals, NEW id \in Ids, NEW b \in Sides, NEW p \in Prices,
         \A c \in Sides, q \in Prices : InSeq(queue[c][q], id) <=> c = b /\ q = p,
         NEW f \in Nat, Left'[id] = Left[id] - f,
         queue' = queue, total' = [total EXCEPT ![b][p] = @ - f],
         orders' \in [Ids -> Orders \cup {NoOrder}],
         \A i \in Ids \ {id} : Left'[i] = Left[i]
  PROVE  Totals' /\ total' \in [Sides -> [Prices -> Int]]
<1>1. /\ total' \in [Sides -> [Prices -> Int]]
      /\ \A c \in Sides, q \in Prices :
            total'[c][q] = IF c = b /\ q = p THEN total[b][p] - f ELSE total[c][q]
  BY DEF Shape
<1>2. Left \in [Ids -> Nat] /\ Left' \in [Ids -> Nat]
  BY LeftType DEF Shape
<1>3. ASSUME NEW c \in Sides, NEW q \in Prices
      PROVE  total'[c][q] = SumOver(Left', Level(c, q)')
  <2>1. Level(c, q)' = Level(c, q)
    BY DEF Level
  <2>2. IsFiniteSet(Level(c, q)) /\ Level(c, q) \subseteq Ids
    BY IdsFinite, FS_Subset DEF Level
  <2>3. total[c][q] = SumOver(Left, Level(c, q)) /\ total[c][q] \in Int
    BY DEF Totals, Shape
  <2>4. CASE c = b /\ q = p
    <3>1. id \in Level(c, q)
      BY <2>4 DEF Level
    <3>2. SumOver(Left', Level(c, q)) = SumOver(Left, Level(c, q)) + Left'[id] - Left[id]
      BY <1>2, <2>2, <3>1, SumChange
    <3> QED BY <1>1, <1>2, <2>1, <2>3, <2>4, <3>2
  <2>5. CASE ~(c = b /\ q = p)
    <3>1. id \notin Level(c, q)
      BY <2>5 DEF Level
    <3>2. SumOver(Left', Level(c, q)) = SumOver(Left, Level(c, q))
      BY <1>2, <2>2, <3>1, SumSame
    <3> QED BY <1>1, <2>1, <2>3, <2>5, <3>2
  <2> QED BY <2>4, <2>5
<1> QED BY <1>1, <1>3 DEF Totals

\* A record changes that no level counts.
LEMMA TotalsSame ==
  ASSUME Shape, Totals, queue' = queue, total' = total,
         orders' \in [Ids -> Orders \cup {NoOrder}],
         \A c \in Sides, q \in Prices, i \in Ids : InSeq(queue[c][q], i) => Left'[i] = Left[i]
  PROVE  Totals'
<1>1. Left \in [Ids -> Nat] /\ Left' \in [Ids -> Nat]
  BY LeftType DEF Shape
<1>2. ASSUME NEW c \in Sides, NEW q \in Prices
      PROVE  total'[c][q] = SumOver(Left', Level(c, q)')
  <2>1. Level(c, q)' = Level(c, q)
    BY DEF Level
  <2>2. IsFiniteSet(Level(c, q)) /\ \A i \in Level(c, q) : Left[i] \in Int /\ Left[i] = Left'[i]
    BY <1>1, IdsFinite, FS_Subset DEF Level
  <2>3. SumOver(Left, Level(c, q)) = SumOver(Left', Level(c, q))
    BY <2>2, SumSame
  <2> QED BY <2>1, <2>3 DEF Totals
<1> QED BY <1>2 DEF Totals

-------------------------------------------------------------------------------
(* The actions *)

\* The first step of a start: an empty state and an empty book.
LEMMA InitInv == Init => Inv
<1> SUFFICES ASSUME Init PROVE Inv
  OBVIOUS
<1>1. \A b \in Sides, p \in Prices : queue[b][p] = <<>> /\ total[b][p] = 0
  BY DEF Init, EmptyQueues, EmptyTotals
<1>2. Shape
  <2>1. /\ orders \in [Ids -> Orders \cup {NoOrder}] /\ pos \in [Traders -> Int]
        /\ active \in Seq(Ids) /\ nextId \in 0 .. MaxOrders
    BY EmptyProps, BookAssumption DEF Init
  <2>2. saved \in States
    BY <2>1 DEF Init, Saved, States
  <2>3. queue \in [Sides -> [Prices -> Seq(Ids)]] /\ total \in [Sides -> [Prices -> Int]]
    BY EmptyProps DEF Init, EmptyQueues, EmptyTotals
  <2> QED BY <2>1, <2>2, <2>3, EmptyProps DEF Init, Shape
<1>3. Consistent(Saved) /\ Consistent(saved)
  BY EmptyProps DEF Init, Saved, Consistent, LiveIn
<1>4. BookSound
  BY <1>1, EmptyProps DEF BookSound
<1>5. BookComplete
  BY <1>1 DEF Init, BookComplete, IsLive
<1>6. TakerNew
  BY DEF Init, TakerNew
<1>7. Totals
  <2> SUFFICES ASSUME NEW b \in Sides, NEW p \in Prices
               PROVE  total[b][p] = SumOver(Left, Level(b, p))
    BY DEF Totals
  <2>1. Level(b, p) = {}
    BY <1>1, EmptyProps DEF Level
  <2> QED BY <1>1, <2>1, SumEmpty
<1> QED BY <1>2, <1>3, <1>4, <1>5, <1>6, <1>7 DEF Inv, BookInv

\* A step that leaves records, active list, book and rebuild alone.
LEMMA QuietKeeps ==
  ASSUME Inv, orders' = orders, active' = active, queue' = queue, total' = total,
         todo' = todo, boot' = boot \/ (boot = "fresh" /\ boot' = "cold"),
         boot \in {"fresh", "rebuilding"} /\ boot' = boot => taker' = Idle,
         nextId' \in 0 .. MaxOrders, nextId <= nextId',
         saved' = saved \/ saved' = Saved,
         pos' \in [Traders -> Int], taker' \in Takers \cup {Idle}, TakerNew',
         crashes' \in Nat, resurrected' \in BOOLEAN
  PROVE  Inv'
<1> USE DEF Inv, BookInv
<1>1. Shape'
  BY DEF Shape, Saved, States
<1>2. Consistent(Saved)'
  <2>1. \A i \in Ids : i < nextId => i < nextId'
    BY IdsAreNat DEF Shape
  <2> QED BY <2>1 DEF Consistent, Saved, LiveIn
<1>3. Consistent(saved)'
  BY DEF Consistent, LiveIn
<1>4. BookSound'
  BY DEF BookSound, IsLive
<1>5. BookComplete'
  BY DEF BookComplete, IsLive, Resting
<1>6. Totals'
  BY DEF Totals, Left, Level
<1> QED BY <1>1, <1>2, <1>3, <1>4, <1>5, <1>6

\* place_order up to its loop.
LEMMA PlaceKeeps ==
  ASSUME Inv, NEW t \in Traders, NEW b \in Sides, NEW p \in Prices, NEW z \in Nat,
         NEW k \in OrderKinds, Place(t, b, p, z, k)
  PROVE  Inv'
<1> DEFINE r == [id |-> nextId, owner |-> t, buy |-> b, price |-> p, size |-> z,
                 left |-> z, kind |-> k, visited |-> {}]
<1>1. /\ Ready /\ nextId < MaxOrders /\ nextId' = nextId + 1
      /\ taker' = r \/ taker' = Idle
      /\ boot' = IF boot = "fresh" THEN "cold" ELSE boot
      /\ UNCHANGED <<orders, active, pos, saved, queue, total, todo, crashes, resurrected>>
  BY DEF Place, NextOrderId, Serve, book
<1>2. nextId \in Ids /\ nextId' \in 0 .. MaxOrders /\ nextId <= nextId' /\ nextId' - 1 = nextId
  BY <1>1, BookAssumption DEF Inv, Shape, Ids
<1>3. r \in Takers /\ r.id = nextId /\ r.left = z /\ r.size = z
  BY <1>2 DEF Takers
<1> HIDE DEF r
<1>4. orders[nextId] = NoOrder
  <2>1. ~(nextId < nextId)
    BY <1>2, IdsAreNat
  <2> QED BY <1>2, <2>1 DEF Inv, BookInv, Consistent, Saved
<1>5. TakerNew'
  BY <1>1, <1>2, <1>3, <1>4 DEF TakerNew
<1>6. taker' \in Takers \cup {Idle}
  BY <1>1, <1>3
<1>7. boot' = boot => boot \notin {"fresh", "rebuilding"}
  BY <1>1 DEF Ready
<1>8. boot' = boot \/ (boot = "fresh" /\ boot' = "cold")
  BY <1>1
<1>9. pos' \in [Traders -> Int] /\ crashes' \in Nat /\ resurrected' \in BOOLEAN
  BY <1>1 DEF Inv, Shape
<1> QED BY <1>1, <1>2, <1>5, <1>6, <1>7, <1>8, <1>9, QuietKeeps

\* close_position places an order the other way.
LEMMA ClosePositionKeeps ==
  ASSUME Inv, NEW t \in Traders, NEW z \in Nat, ClosePosition(t, z)
  PROVE  Inv'
<1> DEFINE size == IF z = 0 THEN Abs(pos[t]) ELSE Lesser(z, Abs(pos[t]))
           kind == [tif |-> "IOC", postOnly |-> FALSE, reduceOnly |-> TRUE]
<1>1. pos[t] \in Int /\ 0 \in Prices /\ kind \in OrderKinds
  BY BookAssumption DEF Inv, Shape, Prices, OrderKinds
<1>2. size \in Nat
  BY <1>1 DEF Abs, Lesser
<1>3. (pos[t] < 0) \in Sides
  BY <1>1 DEF Sides
<1>4. Place(t, pos[t] < 0, 0, size, kind)
  BY DEF ClosePosition
<1> HIDE DEF size, kind
<1> QED BY <1>1, <1>2, <1>3, <1>4, PlaceKeeps

\* The loop looks at a resting order of the other side.
LEMMA MatchKeeps ==
  ASSUME Inv, taker # Idle, NEW p \in Prices, NEW m \in Ids,
         InSeq(queue[~taker.buy][p], m), SkipMaker(m) \/ FillMaker(p, m),
         UNCHANGED <<saved, boot, todo, crashes>>
  PROVE  Inv'
<1> DEFINE b == ~taker.buy
<1>1. /\ taker \in Takers /\ b \in Sides /\ taker.buy \in Sides /\ taker.id \in Ids
      /\ taker.owner \in Traders /\ taker.left \in Nat /\ taker.size \in Nat
      /\ taker.visited \subseteq Ids
  BY DEF Inv, Shape, Takers, Sides
<1> HIDE DEF b
<1>2. /\ IsLive(m) /\ orders[m] \in Orders /\ orders[m].buy = b /\ orders[m].price = p
      /\ InSeq(queue[b][p], m)
  BY <1>1 DEF Inv, BookInv, BookSound, IsLive, Shape, b
<1>3. /\ orders[m].owner \in Traders /\ orders[m].left \in Nat /\ orders[m].left > 0
      /\ orders[m].size \in Nat /\ orders[m].left <= orders[m].size
      /\ orders[m].status = "Active" /\ m < nextId
  BY <1>2 DEF Inv, BookInv, Consistent, Saved, IsLive, Orders
<1>4. boot \in {"ok", "cold"} /\ boot' = boot
  BY DEF Inv, BookInv, BookComplete, Shape
<1>5. CASE SkipMaker(m)
  <2>1. /\ taker' = [taker EXCEPT !.visited = @ \cup {m}]
        /\ UNCHANGED <<orders, active, nextId, pos, queue, total, resurrected>>
    BY <1>5 DEF SkipMaker, state, book
  <2>2. taker' \in Takers /\ taker' # Idle
    BY <1>1, <2>1, SentinelAssumption DEF Takers
  <2>3. TakerNew'
    BY <1>1, <2>1, <2>2 DEF Inv, BookInv, TakerNew, Takers
  <2>4. /\ nextId' \in 0 .. MaxOrders /\ nextId <= nextId' /\ pos' \in [Traders -> Int]
        /\ crashes' \in Nat /\ resurrected' \in BOOLEAN
    BY <2>1 DEF Inv, Shape
  <2> QED BY <1>4, <2>1, <2>2, <2>3, <2>4, QuietKeeps
<1>6. CASE FillMaker(p, m)
  <2> DEFINE f == Lesser(taker.left, orders[m].left)
             delta == IF taker.buy THEN f ELSE -f
             done == f = orders[m].left
             r == [orders[m] EXCEPT !.left = @ - f, !.status = IF done THEN "Filled" ELSE @]
  <2>1. f \in Nat /\ f <= taker.left /\ f <= orders[m].left
    BY <1>1, <1>3 DEF Lesser
  <2>2. delta \in Int /\ -delta \in Int
    <3> HIDE DEF f
    <3> QED BY <1>1, <2>1
  <2>3. taker' = [taker EXCEPT !.left = @ - f, !.visited = @ \cup {m}]
    BY <1>6 DEF FillMaker
  <2>4. orders' = [orders EXCEPT ![m].left = @ - f,
                                 ![m].status = IF done THEN "Filled" ELSE @]
    BY <1>6 DEF FillMaker
  <2>5. IF done THEN active' = Drop(active, m) /\ RemoveFromLevel(~taker.buy, p, m, f)
        ELSE /\ total' = [total EXCEPT ![~taker.buy][p] = @ - f]
             /\ UNCHANGED <<active, queue>>
    BY <1>6 DEF FillMaker
  <2>6. /\ pos' = [pos EXCEPT ![taker.owner] = Settle(taker.owner, delta),
                              ![orders[m].owner] = Settle(orders[m].owner, -delta)]
        /\ resurrected' \in BOOLEAN /\ nextId' = nextId
    BY <1>6 DEF FillMaker, Inv, Shape
  <2> HIDE DEF f
  <2>7. /\ r \in Orders /\ r.left = orders[m].left - f /\ r.left <= r.size
        /\ r.buy = b /\ r.price = p
        /\ done => r.status = "Filled"
        /\ ~done => r.status = "Active" /\ r.left > 0
    <3>1. PICK l \in Nat : l = orders[m].left - f /\ l <= orders[m].size /\ (~done => l > 0)
      BY <1>3, <2>1
    <3>2. PICK z \in {"Active", "Filled"} : z = IF done THEN "Filled" ELSE orders[m].status
      BY <1>3
    <3>3. r = [orders[m] EXCEPT !.left = l, !.status = z]
      BY <1>2, <3>1, <3>2 DEF Orders
    <3> HIDE DEF r
    <3> QED BY <1>2, <1>3, <3>1, <3>2, <3>3 DEF Orders
  <2>8. orders' = [orders EXCEPT ![m] = r]
    BY <2>4 DEF Inv, Shape
  <2> HIDE DEF done, r, delta
  <2>9. /\ active' \in Seq(Ids) /\ Ascending(active')
        /\ \A i \in Ids : InSeq(active', i) <=>
                           IF i = m THEN r.status = "Active" ELSE InSeq(active, i)
    <3>1. active \in Seq(Ids) /\ Ascending(active) /\ InSeq(active, m)
      BY <1>2 DEF Inv, Shape, BookInv, Consistent, Saved, LiveIn, IsLive
    <3>2. CASE done
      BY <2>5, <2>7, <3>1, <3>2, DropProps
    <3>3. CASE ~done
      BY <2>5, <2>7, <3>1, <3>3
    <3> QED BY <3>2, <3>3
  <2>10. nextId \in 0 .. MaxOrders /\ nextId' \in 0 .. MaxOrders /\ nextId <= nextId' /\ m < nextId'
    BY <1>3, <2>6 DEF Inv, Shape
  <2>11. Consistent(Saved)' /\ orders' \in [Ids -> Orders \cup {NoOrder}]
    BY <2>7, <2>8, <2>9, <2>10, RecordKeeps DEF Inv, BookInv
  <2>12. /\ queue' \in [Sides -> [Prices -> Seq(Ids)]]
         /\ \A c \in Sides, q \in Prices : Ascending(queue'[c][q])
         /\ \A c \in Sides, q \in Prices, i \in Ids :
               InSeq(queue'[c][q], i) <=>
                  InSeq(queue[c][q], i) /\ ~(done /\ c = b /\ q = p /\ i = m)
    <3>1. CASE done
      <4>1. RemoveFromLevel(b, p, m, f)
        BY <2>5, <3>1 DEF b
      <4>2. queue \in [Sides -> [Prices -> Seq(Ids)]]
            /\ \A c \in Sides, q \in Prices : Ascending(queue[c][q])
        BY DEF Inv, Shape, BookInv, BookSound
      <4>3. /\ queue' \in [Sides -> [Prices -> Seq(Ids)]]
            /\ \A c \in Sides, q \in Prices : Ascending(queue'[c][q])
            /\ \A c \in Sides, q \in Prices, i \in Ids :
                  InSeq(queue'[c][q], i) <=>
                     InSeq(queue[c][q], i) /\ ~(c = b /\ q = p /\ i = m)
        BY <1>1, <4>1, <4>2, QueueDrop
      <4> QED BY <3>1, <4>3
    <3>2. CASE ~done
      BY <2>5, <3>2 DEF Inv, Shape, BookInv, BookSound
    <3> QED BY <3>1, <3>2
  <2>13. \A c \in Sides, q \in Prices : InSeq(queue[c][q], m) <=> c = b /\ q = p
    BY <1>1, <1>2 DEF Inv, BookInv, BookSound
  <2>14. BookSound' /\ BookComplete'
    <3>1. Shape /\ BookSound /\ BookComplete
      BY DEF Inv, BookInv
    <3>2. \A c \in Sides, q \in Prices, i \in Ids \ {m} :
             InSeq(queue'[c][q], i) <=> InSeq(queue[c][q], i)
      BY <2>12
    <3>3. \A c \in Sides, q \in Prices : InSeq(queue'[c][q], m) =>
             r.status = "Active" /\ r.buy = c /\ r.price = q
      BY <2>7, <2>12, <2>13
    <3>4. boot' \in {"ok", "cold"} /\ (boot' = "ok" => boot = "ok")
      BY <1>4
    <3>5. r.status = "Active" => InSeq(queue'[r.buy][r.price], m)
      BY <1>1, <1>2, <2>7, <2>12
    <3> QED BY <2>7, <2>8, <2>12, <3>1, <3>2, <3>3, <3>4, <3>5, BookKeeps
  <2>15. \A i \in Ids : Left'[i] = IF i = m THEN orders[m].left - f ELSE Left[i]
    BY <2>7, <2>8, <2>11, SentinelAssumption DEF Left, Inv, Shape
  <2>16. Left[m] = orders[m].left
    BY <1>2 DEF Left, IsLive
  <2>17. Totals' /\ total' \in [Sides -> [Prices -> Int]]
    <3>1. CASE done
      <4>1. f = Left[m]
        BY <2>16, <3>1 DEF done
      <4>2. RemoveFromLevel(b, p, m, f)
        BY <2>5, <3>1 DEF b
      <4>3. queue'[b][p] = Drop(queue[b][p], m)
        BY <1>1, <4>2 DEF Inv, Shape, RemoveFromLevel
      <4>4. \A c \in Sides, q \in Prices : InSeq(queue[c][q], m) => c = b /\ q = p
        BY <2>13
      <4>5. \A c \in Sides, q \in Prices, i \in Ids :
               InSeq(queue'[c][q], i) <=>
                  InSeq(queue[c][q], i) /\ ~(c = b /\ q = p /\ i = m)
        BY <2>12, <3>1
      <4>6. \A i \in Ids \ {m} : Left'[i] = Left[i]
        BY <2>15
      <4>7. Shape /\ Totals
        BY DEF Inv
      <4> QED BY <1>1, <2>1, <2>11, <4>1, <4>2, <4>3, <4>4, <4>5, <4>6, <4>7, TotalsRemove
    <3>2. CASE ~done
      <4>1. total' = [total EXCEPT ![b][p] = @ - f] /\ queue' = queue
        BY <2>5, <3>2 DEF b
      <4>2. Left'[m] = Left[m] - f /\ \A i \in Ids \ {m} : Left'[i] = Left[i]
        BY <2>15, <2>16
      <4> QED BY <1>1, <2>1, <2>11, <2>13, <4>1, <4>2, TotalsShrink DEF Inv
    <3> QED BY <3>1, <3>2
  <2>18. taker' \in Takers /\ taker'.id = taker.id /\ taker'.size = taker.size
         /\ taker'.left = taker.left - f
    <3>1. PICK l \in Nat : l = taker.left - f
      BY <1>1, <2>1
    <3>2. PICK v \in SUBSET Ids : v = taker.visited \cup {m}
      BY <1>1
    <3>3. taker' = [taker EXCEPT !.left = l, !.visited = v]
      BY <1>1, <2>3, <3>1, <3>2 DEF Takers
    <3> QED BY <1>1, <3>1, <3>3 DEF Takers
  <2>19. TakerNew'
    <3>1. m # taker.id
      BY <1>2 DEF Inv, BookInv, TakerNew, IsLive
    <3>2. taker.id = nextId - 1 /\ orders[taker.id] = NoOrder /\ taker.left <= taker.size
      BY DEF Inv, BookInv, TakerNew
    <3>3. orders'[taker.id] = NoOrder
      BY <1>1, <2>8, <3>1, <3>2 DEF Inv, Shape
    <3> QED BY <1>1, <2>1, <2>6, <2>18, <3>2, <3>3 DEF TakerNew
  <2>20. pos' \in [Traders -> Int]
    <3>1. \A t \in Traders, d \in Int : Settle(t, d) \in Int
      BY DEF Settle, Closes, Inv, Shape, States
    <3> QED BY <1>1, <1>3, <2>2, <2>6, <3>1 DEF Inv, Shape
  <2>21. Shape'
    BY <2>6, <2>9, <2>10, <2>11, <2>12, <2>17, <2>18, <2>20 DEF Inv, Shape
  <2>22. Consistent(saved)'
    BY DEF Inv, BookInv, Consistent, LiveIn
  <2> QED BY <2>11, <2>14, <2>17, <2>19, <2>21, <2>22 DEF Inv, BookInv
<1> QED BY <1>5, <1>6

\* The loop is over: the order is recorded, and rests in the book if it may.
LEMMA FinishKeeps ==
  ASSUME Inv, FinishOrder
  PROVE  Inv'
<1> DEFINE id == taker.id
           rests == taker.left > 0 /\ taker.kind.tif \in {"GTC", "PostOnly"}
           z == IF taker.left = 0 THEN "Filled" ELSE IF rests THEN "Active" ELSE "Cancelled"
           r == [owner |-> taker.owner, buy |-> taker.buy, price |-> taker.price,
                 size |-> taker.size, left |-> taker.left, status |-> z]
<1>1. /\ taker \in Takers /\ id \in Ids /\ taker.owner \in Traders /\ taker.buy \in Sides
      /\ taker.price \in Prices /\ taker.size \in Nat /\ taker.left \in Nat
  BY DEF FinishOrder, Inv, Shape, Takers
<1>2. /\ taker # Idle /\ taker' = Idle
      /\ UNCHANGED <<nextId, pos, saved, boot, todo, crashes, resurrected>>
      /\ orders' = IF taker.left > 0 /\ taker.kind.tif = "FOK" THEN orders
                   ELSE [orders EXCEPT ![id] = r]
      /\ IF rests THEN AddActive(id) /\ AddToBook(id, taker.buy, taker.price, taker.left)
         ELSE UNCHANGED <<active, queue, total>>
  BY DEF FinishOrder, book
<1>3. /\ r \in Orders /\ r.left <= r.size /\ r.left = taker.left /\ r.status = z
      /\ r.buy = taker.buy /\ r.price = taker.price
      /\ z \in {"Filled", "Active", "Cancelled"}
      /\ z = "Active" <=> rests
  <2>1. z \in {"Filled", "Active", "Cancelled"} /\ (z = "Active" <=> rests)
    BY <1>1
  <2>2. taker.left <= taker.size
    BY <1>2 DEF Inv, BookInv, TakerNew
  <2> HIDE DEF z
  <2> QED BY <1>1, <2>1, <2>2 DEF Orders
<1>4. /\ orders[id] = NoOrder /\ id = nextId - 1 /\ nextId \in 0 .. MaxOrders
      /\ ~InSeq(active, id)
      /\ \A c \in Sides, q \in Prices : ~InSeq(queue[c][q], id)
  BY <1>1, <1>2 DEF Inv, Shape, BookInv, TakerNew, Consistent, Saved, LiveIn, BookSound, IsLive
<1> DEFINE failed == taker.left > 0 /\ taker.kind.tif = "FOK"
<1>5. failed => ~rests
  OBVIOUS
<1>6. rests => taker.left > 0
  OBVIOUS
<1> HIDE DEF id, z, r, rests, failed
<1>7. /\ nextId' \in 0 .. MaxOrders /\ nextId <= nextId' /\ pos' \in [Traders -> Int]
      /\ crashes' \in Nat /\ resurrected' \in BOOLEAN /\ TakerNew'
      /\ taker' \in Takers \cup {Idle}
  BY <1>2 DEF Inv, Shape, TakerNew
<1>8. boot \in {"ok", "cold"} /\ boot' = boot
  BY <1>2 DEF Inv, Shape, BookInv, BookComplete
<1>9. CASE failed
  <2>1. UNCHANGED <<orders, active, queue, total, todo, saved>>
    BY <1>2, <1>5, <1>9 DEF failed
  <2> QED BY <1>2, <1>7, <1>8, <2>1, QuietKeeps
<1>10. CASE ~failed
  <2>1. orders' = [orders EXCEPT ![id] = r] /\ orders' \in [Ids -> Orders \cup {NoOrder}]
    BY <1>1, <1>2, <1>3, <1>10 DEF failed, Inv, Shape
  <2>2. \A i \in Ids : orders[i] # NoOrder => i < id
    BY <1>1, <1>4, IdsAreNat DEF Inv, BookInv, Consistent, Saved
  <2>3. active \in Seq(Ids) /\ Ascending(active)
        /\ \A i \in Ids : InSeq(active, i) => i < id
    BY <2>2 DEF Inv, Shape, BookInv, Consistent, Saved, LiveIn
  <2>4. /\ active' \in Seq(Ids) /\ Ascending(active')
        /\ \A i \in Ids : InSeq(active', i) <=>
                           IF i = id THEN r.status = "Active" ELSE InSeq(active, i)
    <3>1. CASE rests
      <4>1. active' = Append(active, id)
        BY <1>2, <1>4, <3>1 DEF AddActive
      <4>2. /\ active' \in Seq(Ids) /\ Ascending(active')
            /\ \A i \in Ids : InSeq(active', i) <=> InSeq(active, i) \/ i = id
        BY <1>1, <2>3, <4>1, AppendProps
      <4> QED BY <1>3, <3>1, <4>2
    <3>2. CASE ~rests
      BY <1>2, <1>3, <1>4, <2>3, <3>2
    <3> QED BY <3>1, <3>2
  <2>5. Consistent(Saved)'
    <3>1. id < nextId' /\ (r.status = "Active" => r.left > 0) /\ Shape /\ Consistent(Saved)
      BY <1>1, <1>2, <1>3, <1>4, <1>6, IdsAreNat DEF Inv, BookInv
    <3> QED BY <1>1, <1>3, <1>7, <2>1, <2>4, <3>1, RecordKeeps
  <2>6. queue \in [Sides -> [Prices -> Seq(Ids)]]
        /\ \A c \in Sides, q \in Prices : Ascending(queue[c][q])
    BY DEF Inv, Shape, BookInv, BookSound
  <2>7. \A c \in Sides, q \in Prices, i \in Ids : InSeq(queue[c][q], i) => i < id
    BY <2>2 DEF Inv, BookInv, BookSound, IsLive
  <2>8. /\ queue' \in [Sides -> [Prices -> Seq(Ids)]]
        /\ \A c \in Sides, q \in Prices : Ascending(queue'[c][q])
        /\ \A c \in Sides, q \in Prices, i \in Ids :
              InSeq(queue'[c][q], i) <=>
                 \/ InSeq(queue[c][q], i)
                 \/ rests /\ c = taker.buy /\ q = taker.price /\ i = id
    <3>1. CASE rests
      <4>1. AddToBook(id, taker.buy, taker.price, taker.left)
        BY <1>2, <3>1
      <4>2. /\ queue' \in [Sides -> [Prices -> Seq(Ids)]]
            /\ \A c \in Sides, q \in Prices : Ascending(queue'[c][q])
            /\ \A c \in Sides, q \in Prices, i \in Ids :
                  InSeq(queue'[c][q], i) <=>
                     InSeq(queue[c][q], i) \/ (c = taker.buy /\ q = taker.price /\ i = id)
        BY <1>1, <2>6, <2>7, <4>1, QueueAdd
      <4> QED BY <3>1, <4>2
    <3>2. CASE ~rests
      BY <1>2, <2>6, <3>2
    <3> QED BY <3>1, <3>2
  <2>9. BookSound' /\ BookComplete'
    <3>1. Shape /\ BookSound /\ BookComplete
      BY DEF Inv, BookInv
    <3>2. \A c \in Sides, q \in Prices, i \in Ids \ {id} :
             InSeq(queue'[c][q], i) <=> InSeq(queue[c][q], i)
      BY <2>8
    <3>3. \A c \in Sides, q \in Prices : InSeq(queue'[c][q], id) =>
             r.status = "Active" /\ r.buy = c /\ r.price = q
      BY <1>1, <1>3, <1>4, <2>8
    <3>4. boot' \in {"ok", "cold"} /\ (boot' = "ok" => boot = "ok")
      BY <1>8
    <3>5. r.status = "Active" => InSeq(queue'[r.buy][r.price], id)
      BY <1>1, <1>3, <2>8
    <3> QED BY <1>1, <1>3, <2>1, <2>8, <3>1, <3>2, <3>3, <3>4, <3>5, BookKeeps
  <2>10. Left'[id] = taker.left /\ \A i \in Ids \ {id} : Left'[i] = Left[i]
    BY <1>1, <1>3, <2>1, SentinelAssumption DEF Left, Inv, Shape
  <2>11. Totals' /\ total' \in [Sides -> [Prices -> Int]]
    <3>1. Shape /\ Totals
      BY DEF Inv
    <3>2. CASE rests
      <4>1. AddToBook(id, taker.buy, taker.price, taker.left)
        BY <1>2, <3>2
      <4>2. \A c \in Sides, q \in Prices, i \in Ids :
               InSeq(queue'[c][q], i) <=>
                  InSeq(queue[c][q], i) \/ (c = taker.buy /\ q = taker.price /\ i = id)
        BY <2>8, <3>2
      <4> QED BY <1>1, <1>4, <2>1, <2>10, <3>1, <4>1, <4>2, TotalsAdd
    <3>3. CASE ~rests
      <4>1. queue' = queue /\ total' = total
        BY <1>2, <3>3
      <4>2. \A c \in Sides, q \in Prices, i \in Ids : InSeq(queue[c][q], i) => Left'[i] = Left[i]
        BY <1>4, <2>10
      <4> QED BY <2>1, <3>1, <4>1, <4>2, TotalsSame DEF Shape
    <3> QED BY <3>2, <3>3
  <2>12. Shape'
    BY <1>2, <1>7, <1>8, <2>1, <2>4, <2>8, <2>11 DEF Inv, Shape
  <2>13. Consistent(saved)'
    BY <1>2 DEF Inv, BookInv, Consistent, LiveIn
  <2> QED BY <1>7, <2>5, <2>9, <2>11, <2>12, <2>13 DEF Inv, BookInv
<1> QED BY <1>9, <1>10

\* A cancelled order leaves the active list, and the book if it is there: after
\* serving without a rebuild it need not be.
LEMMA CancelKeeps ==
  ASSUME Inv, NEW t \in Traders, NEW id \in Ids, CancelOrder(t, id)
  PROVE  Inv'
<1> DEFINE b == orders[id].buy
           p == orders[id].price
           f == orders[id].left
           r == [orders[id] EXCEPT !.status = "Cancelled"]
<1>1. /\ Ready /\ IsLive(id) /\ orders[id] \in Orders /\ RemoveFromLevel(b, p, id, f)
      /\ orders' = [orders EXCEPT ![id] = r] /\ active' = Drop(active, id)
      /\ boot' = IF boot = "fresh" THEN "cold" ELSE boot
      /\ UNCHANGED <<nextId, pos, saved, todo, taker, crashes, resurrected>>
  BY DEF CancelOrder, Serve, Inv, Shape, IsLive
<1>2. /\ b \in Sides /\ p \in Prices /\ f \in Nat /\ r \in Orders
      /\ r.left = f /\ r.size = orders[id].size /\ r.status = "Cancelled"
      /\ r.left <= r.size /\ id < nextId /\ Left[id] = f
  BY <1>1 DEF Orders, Inv, BookInv, Consistent, Saved, IsLive, Left
<1> HIDE DEF b, p, f, r
<1>3. /\ nextId' \in 0 .. MaxOrders /\ nextId <= nextId' /\ id < nextId'
      /\ pos' \in [Traders -> Int] /\ crashes' \in Nat /\ resurrected' \in BOOLEAN
      /\ taker' = Idle /\ boot' \in {"ok", "cold"} /\ (boot' = "ok" => boot = "ok")
  BY <1>1, <1>2 DEF Inv, Shape, Ready
<1>4. /\ active' \in Seq(Ids) /\ Ascending(active')
      /\ \A i \in Ids : InSeq(active', i) <=>
                         IF i = id THEN r.status = "Active" ELSE InSeq(active, i)
  <2>1. active \in Seq(Ids) /\ Ascending(active)
    BY DEF Inv, Shape, BookInv, Consistent, Saved
  <2> QED BY <1>1, <1>2, <2>1, DropProps
<1>5. Shape /\ Consistent(Saved) /\ BookSound /\ BookComplete /\ Totals
  BY DEF Inv, BookInv
<1>6. Consistent(Saved)' /\ orders' \in [Ids -> Orders \cup {NoOrder}]
  BY <1>1, <1>2, <1>3, <1>4, <1>5, RecordKeeps
<1>7. /\ queue' \in [Sides -> [Prices -> Seq(Ids)]]
      /\ \A c \in Sides, q \in Prices : Ascending(queue'[c][q])
      /\ \A c \in Sides, q \in Prices, i \in Ids :
            InSeq(queue'[c][q], i) <=> InSeq(queue[c][q], i) /\ ~(c = b /\ q = p /\ i = id)
      /\ queue'[b][p] = Drop(queue[b][p], id)
  <2>1. queue \in [Sides -> [Prices -> Seq(Ids)]]
        /\ \A c \in Sides, q \in Prices : Ascending(queue[c][q])
    BY DEF Inv, Shape, BookInv, BookSound
  <2> QED BY <1>1, <1>2, <2>1, QueueDrop
<1>8. \A c \in Sides, q \in Prices : InSeq(queue[c][q], id) => c = b /\ q = p
  BY <1>5 DEF BookSound, b, p
<1>9. BookSound' /\ BookComplete'
  <2>1. \A c \in Sides, q \in Prices, i \in Ids \ {id} :
           InSeq(queue'[c][q], i) <=> InSeq(queue[c][q], i)
    BY <1>7
  <2>2. \A c \in Sides, q \in Prices : ~InSeq(queue'[c][q], id)
    BY <1>7, <1>8
  <2> QED BY <1>1, <1>2, <1>3, <1>5, <1>7, <2>1, <2>2, BookKeeps
<1>10. \A i \in Ids : Left'[i] = Left[i]
  BY <1>1, <1>2, SentinelAssumption DEF Left, Inv, Shape
<1>11. Totals' /\ total' \in [Sides -> [Prices -> Int]]
  <2>1. \A i \in Ids \ {id} : Left'[i] = Left[i]
    BY <1>10
  <2> QED BY <1>1, <1>2, <1>5, <1>6, <1>7, <1>8, <2>1, TotalsRemove
<1>12. Shape'
  BY <1>1, <1>3, <1>4, <1>6, <1>7, <1>11 DEF Inv, Shape
<1>13. Consistent(saved)' /\ TakerNew'
  BY <1>1, <1>3 DEF Inv, BookInv, Consistent, LiveIn, TakerNew
<1> QED BY <1>6, <1>9, <1>11, <1>12, <1>13 DEF Inv, BookInv

\* A commit copies the state.
LEMMA CommitKeeps ==
  ASSUME Inv, Commit
  PROVE  Inv'
<1>1. /\ saved' = Saved /\ Ready
      /\ UNCHANGED <<orders, active, nextId, pos, queue, total, boot, todo, taker, crashes,
                     resurrected>>
  BY DEF Commit, state, book
<1>2. /\ nextId' \in 0 .. MaxOrders /\ nextId <= nextId' /\ pos' \in [Traders -> Int]
      /\ crashes' \in Nat /\ resurrected' \in BOOLEAN /\ TakerNew'
      /\ taker' \in Takers \cup {Idle} /\ taker' = Idle
  BY <1>1 DEF Inv, Shape, TakerNew, Ready
<1> QED BY <1>1, <1>2, QuietKeeps

\* A crash leaves the committed state and no book.
LEMMA CrashKeeps ==
  ASSUME Inv, Crash
  PROVE  Inv'
<1>1. /\ orders' = saved.orders /\ active' = saved.active /\ nextId' = saved.nextId
      /\ pos' = saved.pos /\ queue' = EmptyQueues /\ total' = EmptyTotals
      /\ boot' = "fresh" /\ todo' = <<>> /\ taker' = Idle /\ crashes' = crashes + 1
      /\ saved' = saved /\ resurrected' = resurrected
  BY DEF Crash
<1>2. \A b \in Sides, p \in Prices : queue'[b][p] = <<>> /\ total'[b][p] = 0
  BY <1>1 DEF EmptyQueues, EmptyTotals
<1>3. /\ queue' \in [Sides -> [Prices -> Seq(Ids)]] /\ total' \in [Sides -> [Prices -> Int]]
  BY <1>1, EmptyProps DEF EmptyQueues, EmptyTotals
<1>4. Shape'
  BY <1>1, <1>3, EmptyProps DEF Inv, Shape, States
<1>5. Consistent(Saved)' /\ Consistent(saved)'
  BY <1>1 DEF Inv, BookInv, Consistent, Saved, LiveIn
<1>6. BookSound'
  BY <1>2, EmptyProps DEF BookSound
<1>7. BookComplete' /\ TakerNew'
  BY <1>1, <1>2 DEF BookComplete, TakerNew
<1>8. Totals'
  <2> SUFFICES ASSUME NEW b \in Sides, NEW p \in Prices
               PROVE  total'[b][p] = SumOver(Left', Level(b, p)')
    BY DEF Totals
  <2>1. Level(b, p)' = {}
    BY <1>2, EmptyProps DEF Level
  <2> QED BY <1>2, <2>1, SumEmpty
<1> QED BY <1>4, <1>5, <1>6, <1>7, <1>8 DEF Inv, BookInv

\* A step of the rebuild that leaves state and book alone.
LEMMA RebuildQuiet ==
  ASSUME Inv, UNCHANGED <<state, saved, book, taker, crashes, resurrected>>,
         boot' \in {"ok", "rebuilding"}, todo' \in Seq(Ids), BookComplete'
  PROVE  Inv'
<1>1. UNCHANGED <<orders, active, nextId, pos, saved, queue, total, taker, crashes, resurrected>>
  BY DEF state, book
<1>2. Shape'
  BY <1>1 DEF Inv, Shape
<1>3. Consistent(Saved)' /\ Consistent(saved)' /\ TakerNew'
  BY <1>1 DEF Inv, BookInv, Consistent, Saved, LiveIn, TakerNew
<1>4. BookSound'
  BY <1>1 DEF Inv, BookInv, BookSound, IsLive
<1>5. Totals'
  BY <1>1 DEF Inv, Totals, Left, Level
<1> QED BY <1>2, <1>3, <1>4, <1>5 DEF Inv, BookInv

\* The rebuild begins with the active list.
LEMMA RebuildStartKeeps ==
  ASSUME Inv, RebuildStart
  PROVE  Inv'
<1>1. /\ boot = "fresh" /\ boot' = "rebuilding" /\ todo' = active
      /\ UNCHANGED <<state, saved, book, taker, crashes, resurrected>>
  BY DEF RebuildStart
<1>2. UNCHANGED <<orders, active, queue, taker>>
  BY <1>1 DEF state, book
<1>3. \A b \in Sides, p \in Prices, j \in Ids : ~InSeq(queue[b][p], j)
  BY <1>1, EmptyProps DEF Inv, BookInv, BookComplete
<1>4. /\ Ascending(active) /\ active \in Seq(Ids)
      /\ \A i \in Ids : InSeq(active, i) <=> IsLive(i)
  BY DEF Inv, Shape, BookInv, Consistent, Saved, LiveIn, IsLive
<1>5. taker' = Idle
  BY <1>1, <1>2 DEF Inv, BookInv, BookComplete
<1>6. \A i \in Ids : IsLive(i)' <=> IsLive(i)
  BY <1>2 DEF IsLive
<1>7. BookComplete'
  BY <1>1, <1>2, <1>3, <1>4, <1>5, <1>6 DEF BookComplete
<1> QED BY <1>1, <1>4, <1>7, RebuildQuiet

\* The rebuild ends with nothing left to look at.
LEMMA RebuildDoneKeeps ==
  ASSUME Inv, RebuildDone
  PROVE  Inv'
<1>1. /\ boot = "rebuilding" /\ todo = <<>> /\ boot' = "ok" /\ todo' = todo
      /\ UNCHANGED <<state, saved, book, taker, crashes, resurrected>>
  BY DEF RebuildDone
<1>2. UNCHANGED <<orders, queue>>
  BY <1>1 DEF state, book
<1>3. \A i \in Ids : IsLive(i) => Resting(i)
  BY <1>1, EmptyProps DEF Inv, BookInv, BookComplete
<1>4. BookComplete'
  BY <1>1, <1>2, <1>3 DEF BookComplete, IsLive, Resting
<1> QED BY <1>1, <1>4, EmptyProps, RebuildQuiet

\* The next live order of the active list is the newest in the book.
LEMMA RebuildOrderKeeps ==
  ASSUME Inv, RebuildOrder
  PROVE  Inv'
<1> DEFINE id == Head(todo)
           b == orders[id].buy
           p == orders[id].price
           f == orders[id].left
<1>1. boot = "rebuilding" /\ todo # <<>> /\ todo \in Seq(Ids) /\ Ascending(todo) /\ taker = Idle
  BY DEF RebuildOrder, Inv, Shape, BookInv, BookComplete
<1>2. /\ id \in Ids /\ Tail(todo) \in Seq(Ids) /\ Ascending(Tail(todo))
      /\ \A y \in Ids : InSeq(todo, y) <=> y = id \/ InSeq(Tail(todo), y)
      /\ \A y \in Ids : InSeq(Tail(todo), y) => id < y
  BY <1>1, TailProps
<1> HIDE DEF id
<1>3. /\ IsLive(id) /\ f > 0 /\ orders[id] \in Orders
      /\ b \in Sides /\ p \in Prices /\ f \in Nat /\ Left[id] = f
      /\ \A c \in Sides, q \in Prices, j \in Ids : InSeq(queue[c][q], j) => j < id
  <2>1. /\ IsLive(id)
        /\ \A c \in Sides, q \in Prices, j \in Ids : InSeq(queue[c][q], j) => j < id
    BY <1>1, <1>2 DEF Inv, BookInv, BookComplete
  <2>2. orders[id] \in Orders /\ f > 0
    BY <1>2, <2>1 DEF Inv, Shape, BookInv, Consistent, Saved, IsLive
  <2> QED BY <1>2, <2>1, <2>2 DEF Orders, IsLive, Left
<1>4. /\ AddToBook(id, b, p, f) /\ todo' = Tail(todo)
      /\ UNCHANGED <<orders, active, nextId, pos, saved, boot, taker, crashes, resurrected>>
  BY <1>3 DEF RebuildOrder, id
<1> HIDE DEF f
<1>5. /\ queue' \in [Sides -> [Prices -> Seq(Ids)]]
      /\ \A c \in Sides, q \in Prices : Ascending(queue'[c][q])
      /\ \A c \in Sides, q \in Prices, i \in Ids :
            InSeq(queue'[c][q], i) <=> InSeq(queue[c][q], i) \/ (c = b /\ q = p /\ i = id)
  <2>1. queue \in [Sides -> [Prices -> Seq(Ids)]]
        /\ \A c \in Sides, q \in Prices : Ascending(queue[c][q])
    BY DEF Inv, Shape, BookInv, BookSound
  <2> HIDE DEF b, p
  <2> QED BY <1>2, <1>3, <1>4, <2>1, QueueAdd
<1>6. \A c \in Sides, q \in Prices : ~InSeq(queue[c][q], id)
  BY <1>2, <1>3, IdsAreNat
<1>7. BookSound'
  BY <1>3, <1>4, <1>5 DEF Inv, BookInv, BookSound, IsLive
<1>8. BookComplete'
  <2>1. ASSUME NEW i \in Ids, IsLive(i)' PROVE Resting(i)' \/ InSeq(todo', i)
    <3>1. IsLive(i) /\ orders[i].buy \in Sides /\ orders[i].price \in Prices
      BY <1>4, <2>1 DEF IsLive, Inv, Shape, Orders
    <3>2. CASE i = id
      BY <1>3, <1>4, <1>5, <3>2 DEF Resting
    <3>3. CASE i # id
      <4>1. Resting(i) \/ InSeq(Tail(todo), i)
        BY <1>1, <1>2, <3>1, <3>3 DEF Inv, BookInv, BookComplete
      <4> QED BY <1>4, <1>5, <3>1, <4>1 DEF Resting
    <3> QED BY <3>2, <3>3
  <2>2. ASSUME NEW i \in Ids, InSeq(todo', i)
        PROVE  /\ IsLive(i)'
               /\ \A c \in Sides, q \in Prices, j \in Ids : InSeq(queue'[c][q], j) => j < i
    <3>1. InSeq(todo, i) /\ id < i
      BY <1>2, <1>4, <2>2
    <3>2. IsLive(i) /\ \A c \in Sides, q \in Prices, j \in Ids : InSeq(queue[c][q], j) => j < i
      BY <1>1, <3>1 DEF Inv, BookInv, BookComplete
    <3> QED BY <1>4, <1>5, <3>1, <3>2 DEF IsLive
  <2>3. boot' = "rebuilding" /\ taker' = Idle /\ Ascending(todo')
    BY <1>1, <1>2, <1>4
  <2> QED BY <2>1, <2>2, <2>3 DEF BookComplete
<1>9. Left' = Left /\ orders' \in [Ids -> Orders \cup {NoOrder}]
  BY <1>4 DEF Left, Inv, Shape
<1>10. Totals' /\ total' \in [Sides -> [Prices -> Int]]
  <2> HIDE DEF b, p
  <2>1. Shape /\ Totals /\ AddToBook(id, b, p, f) /\ b \in Sides /\ p \in Prices /\ f \in Nat
    BY <1>3, <1>4 DEF Inv
  <2>2. PICK n \in Ids, c \in Sides, q \in Prices, z \in Nat : n = id /\ c = b /\ q = p /\ z = f
    BY <1>2, <2>1
  <2>3. Left'[n] = z /\ \A i \in Ids \ {n} : Left'[i] = Left[i]
    BY <1>2, <1>3, <1>9, <2>2
  <2>4. \A d \in Sides, y \in Prices : ~InSeq(queue[d][y], n)
    BY <1>6, <2>2
  <2>5. \A d \in Sides, y \in Prices, i \in Ids :
           InSeq(queue'[d][y], i) <=> InSeq(queue[d][y], i) \/ (d = c /\ y = q /\ i = n)
    BY <1>5, <2>2
  <2>6. AddToBook(n, c, q, z) /\ Shape /\ Totals /\ orders' \in [Ids -> Orders \cup {NoOrder}]
    BY <1>9, <2>1, <2>2
  <2> QED BY ONLY <2>3, <2>4, <2>5, <2>6, TotalsAdd, n \in Ids, c \in Sides, q \in Prices, z \in Nat
<1>11. Shape'
  BY <1>2, <1>4, <1>5, <1>10 DEF Inv, Shape
<1>12. Consistent(Saved)' /\ Consistent(saved)' /\ TakerNew'
  BY <1>1, <1>4 DEF Inv, BookInv, Consistent, Saved, LiveIn, TakerNew
<1> QED BY <1>7, <1>8, <1>10, <1>11, <1>12 DEF Inv, BookInv

\* Every step keeps the invariant.
LEMMA NextInv == Inv /\ [Next]_vars => Inv'
<1> SUFFICES ASSUME Inv, [Next]_vars PROVE Inv'
  OBVIOUS
<1>1. ASSUME NEW t \in Traders, NEW b \in Sides, NEW p \in Prices, NEW z \in Sizes,
             NEW k \in Kinds, Place(t, b, p, z, k)
      PROVE  Inv'
  BY <1>1, PlaceKeeps, BookAssumption
<1>2. ASSUME NEW t \in Traders, NEW z \in Sizes \cup {0}, ClosePosition(t, z)
      PROVE  Inv'
  <2>1. z \in Nat
    BY BookAssumption
  <2> QED BY <1>2, <2>1, ClosePositionKeeps
<1>3. CASE MatchMaker
  <2>1. PICK w \in Waiting : SkipMaker(w[2]) \/ FillMaker(w[1], w[2])
    BY <1>3 DEF MatchMaker
  <2>2. w[1] \in Prices /\ w[2] \in Ids /\ InSeq(queue[~taker.buy][w[1]], w[2])
    BY DEF Waiting
  <2>3. taker # Idle /\ UNCHANGED <<saved, boot, todo, crashes>>
    BY <1>3 DEF MatchMaker
  <2> QED BY <2>1, <2>2, <2>3, MatchKeeps
<1>4. CASE FinishOrder
  BY <1>4, FinishKeeps
<1>5. ASSUME NEW t \in Traders, NEW id \in Ids, CancelOrder(t, id) PROVE Inv'
  BY <1>5, CancelKeeps
<1>6. CASE Commit
  BY <1>6, CommitKeeps
<1>7. CASE Crash
  BY <1>7, CrashKeeps
<1>8. CASE RebuildStart
  BY <1>8, RebuildStartKeeps
<1>9. CASE RebuildOrder
  BY <1>9, RebuildOrderKeeps
<1>10. CASE RebuildDone
  BY <1>10, RebuildDoneKeeps
<1>11. CASE UNCHANGED vars
  <2>1. UNCHANGED <<orders, active, nextId, pos, saved, queue, total, boot, todo, taker,
                    crashes, resurrected>>
    BY <1>11 DEF vars
  <2>2. /\ nextId' \in 0 .. MaxOrders /\ nextId <= nextId' /\ pos' \in [Traders -> Int]
        /\ crashes' \in Nat /\ resurrected' \in BOOLEAN /\ TakerNew'
        /\ taker' \in Takers \cup {Idle}
        /\ boot \in {"fresh", "rebuilding"} => taker' = Idle
    BY <2>1 DEF Inv, Shape, BookInv, BookComplete, TakerNew
  <2> QED BY <2>1, <2>2, QuietKeeps
<1> QED BY <1>1, <1>2, <1>3, <1>4, <1>5, <1>6, <1>7, <1>8, <1>9, <1>10, <1>11 DEF Next

-------------------------------------------------------------------------------
(* What the book promises *)

\* The inductive invariant holds in every state.
THEOREM BookInvariant == Spec => []Inv
<1>1. Init => Inv
  BY InitInv
<1>2. Inv /\ [Next]_vars => Inv'
  BY NextInv
<1> QED BY <1>1, <1>2, PTL DEF Spec

\* Every variable keeps its shape; above all no level's running total, from which
\* the code subtracts fill by fill, ever goes below zero.
THEOREM TypeCorrect == Spec => []TypeOK
<1>1. Inv => TypeOK
  <2> SUFFICES ASSUME Inv PROVE TypeOK
    OBVIOUS
  <2>1. ASSUME NEW b \in Sides, NEW p \in Prices PROVE total[b][p] \in Nat
    <3>1. IsFiniteSet(Level(b, p)) /\ \A i \in Level(b, p) : Left[i] \in Nat
      BY IdsFinite, FS_Subset, LeftType DEF Level, Inv, Shape
    <3>2. SumOver(Left, Level(b, p)) \in Nat
      BY <3>1, SumNat
    <3> QED BY <3>2 DEF Inv, Totals
  <2>2. total \in [Sides -> [Prices -> Nat]]
    BY <2>1 DEF Inv, Shape
  <2> QED BY <2>2 DEF Inv, Shape, TypeOK, States
<1> QED BY <1>1, BookInvariant, PTL

\* The active list and every level are in time order, whatever fills, cancellations,
\* crashes and rebuilds came before.
THEOREM InTimeOrder == Spec => []TimePriority
<1>1. Inv => TimePriority
  BY DEF Inv, BookInv, Consistent, Saved, BookSound, TimePriority
<1> QED BY <1>1, BookInvariant, PTL

\* A book that was kept since an empty start, or rebuilt after a crash, holds the
\* live orders of the state and no others, each on its side and at its price.
THEOREM BookMirrors == Spec => []BookMirrorsState
<1>1. Inv => BookMirrorsState
  <2> SUFFICES ASSUME Inv, boot = "ok", NEW i \in Ids
               PROVE  /\ IsLive(i) <=> InSeq(active, i)
                      /\ \A b \in Sides, p \in Prices :
                            InSeq(queue[b][p], i) <=>
                               IsLive(i) /\ orders[i].buy = b /\ orders[i].price = p
    BY DEF BookMirrorsState
  <2>1. IsLive(i) <=> InSeq(active, i)
    BY DEF Inv, BookInv, Consistent, Saved, LiveIn, IsLive
  <2>2. IsLive(i) => InSeq(queue[orders[i].buy][orders[i].price], i)
    BY DEF Inv, BookInv, BookComplete, Resting
  <2> QED BY <2>1, <2>2 DEF Inv, BookInv, BookSound
<1> QED BY <1>1, BookInvariant, PTL

\* What get_depth reports is, price by price, what the records of the resting
\* orders add up to.
THEOREM DepthIsExact == Spec => []LevelTotals
<1>1. Inv => LevelTotals
  <2> SUFFICES ASSUME Inv, NEW b \in Sides
               PROVE  LET resting == {i \in Ids : \E p \in Prices : InSeq(queue[b][p], i)}
                      IN  GetDepth(b) =
                            [p \in {orders[i].price : i \in resting} |->
                                SumOver(Left, {i \in resting : orders[i].price = p})]
    BY Zenon DEF LevelTotals, SumOver
  <2> DEFINE resting == {i \in Ids : \E p \in Prices : InSeq(queue[b][p], i)}
             P == {q \in Prices : queue[b][q] # <<>>}
             R == {orders[i].price : i \in resting}
  <2>1. \A i \in Ids, p \in Prices : InSeq(queue[b][p], i) => orders[i].price = p
    BY DEF Inv, BookInv, BookSound
  <2>2. P = R
    <3>1. ASSUME NEW q \in P PROVE q \in R
      <4>1. q \in Prices /\ queue[b][q] # <<>> /\ queue[b][q] \in Seq(Ids)
        BY DEF Inv, Shape
      <4>2. queue[b][q][1] \in Ids /\ InSeq(queue[b][q], queue[b][q][1])
        BY <4>1 DEF InSeq
      <4> QED BY <2>1, <4>1, <4>2
    <3>2. ASSUME NEW i \in resting PROVE orders[i].price \in P
      <4>1. PICK p \in Prices : InSeq(queue[b][p], i)
        OBVIOUS
      <4> QED BY <2>1, <4>1, EmptyProps
    <3> QED BY <3>1, <3>2
  <2>3. ASSUME NEW p \in P
        PROVE  total[b][p] = SumOver(Left, {i \in resting : orders[i].price = p})
    <3>1. {i \in resting : orders[i].price = p} = Level(b, p)
      BY <2>1 DEF Level
    <3> QED BY <3>1 DEF Inv, Totals
  <2> HIDE DEF P, R
  <2>4. GetDepth(b) = [p \in P |-> total[b][p]]
    BY DEF GetDepth, P
  <2> HIDE DEF resting
  <2>5. [p \in P |-> total[b][p]] =
           [p \in R |-> SumOver(Left, {i \in resting : orders[i].price = p})]
    BY <2>2, <2>3
  <2> QED BY <2>4, <2>5, Zenon DEF R, resting
<1> QED BY <1>1, BookInvariant, PTL

-------------------------------------------------------------------------------
(* Fills *)

\* What a fill of f does to the records and, unless a closed position comes back,
\* to the positions: the maker's order gives what the taker's takes.
Fill(m, f) ==
    /\ m \in Ids /\ IsLive(m) /\ orders[m] \in Orders
    /\ orders[m].buy = ~taker.buy /\ orders[m].owner # taker.owner
    /\ f \in Nat /\ (f = taker.left \/ f = orders[m].left)
    /\ taker \in Takers /\ taker # Idle /\ taker' \in Takers /\ taker' # Idle
    /\ taker'.id = taker.id /\ taker'.owner = taker.owner /\ taker'.buy = taker.buy
    /\ taker'.price = taker.price /\ taker'.size = taker.size /\ taker'.kind = taker.kind
    /\ taker'.left = taker.left - f /\ taker'.visited = taker.visited \cup {m}
    /\ \A i \in Ids \ {m} : orders'[i] = orders[i]
    /\ orders'[m] \in Orders
    /\ orders'[m].owner = orders[m].owner /\ orders'[m].buy = orders[m].buy
    /\ orders'[m].price = orders[m].price /\ orders'[m].size = orders[m].size
    /\ orders'[m].left = orders[m].left - f
    /\ orders'[m].status = "Active" => f # orders[m].left
    /\ ~resurrected' =>
          /\ ~resurrected
          /\ \A t \in Traders :
                pos'[t] = IF t = taker.owner THEN pos[t] + (IF taker.buy THEN f ELSE -f)
                          ELSE IF t = orders[m].owner THEN pos[t] - (IF taker.buy THEN f ELSE -f)
                          ELSE pos[t]

\* What one fill changes.
LEMMA FillFacts ==
  ASSUME Inv, taker # Idle, NEW p \in Prices, NEW m \in Ids,
         InSeq(queue[~taker.buy][p], m), FillMaker(p, m)
  PROVE  \E f \in Nat : Fill(m, f)
<1> DEFINE f == Lesser(taker.left, orders[m].left)
           delta == IF taker.buy THEN f ELSE -f
           done == f = orders[m].left
           maker == orders[m].owner
<1>1. /\ taker \in Takers /\ taker.buy \in Sides /\ (~taker.buy) \in Sides
      /\ taker.owner \in Traders /\ taker.left \in Nat /\ taker.visited \subseteq Ids
  BY DEF Inv, Shape, Takers, Sides
<1>2. IsLive(m) /\ orders[m] \in Orders /\ orders[m].buy = ~taker.buy
  BY <1>1 DEF Inv, BookInv, BookSound, IsLive, Shape
<1>3. maker \in Traders /\ orders[m].left \in Nat
  BY <1>2 DEF Orders
<1>4. f \in Nat /\ f <= taker.left /\ f <= orders[m].left /\ (f = taker.left \/ f = orders[m].left)
  BY <1>1, <1>3 DEF Lesser
<1>5. /\ maker # taker.owner
      /\ taker' = [taker EXCEPT !.left = @ - f, !.visited = @ \cup {m}]
      /\ orders' = [orders EXCEPT ![m].left = @ - f,
                                  ![m].status = IF done THEN "Filled" ELSE @]
      /\ pos' = [pos EXCEPT ![taker.owner] = Settle(taker.owner, delta),
                            ![maker] = Settle(maker, -delta)]
      /\ resurrected' = (resurrected \/ ComesBack(taker.owner, delta)
                                     \/ ComesBack(maker, -delta))
  BY DEF FillMaker
<1> HIDE DEF f, maker
<1>6. PICK l \in Nat : l = taker.left - f
  BY <1>1, <1>4
<1>7. PICK n \in Nat : n = orders[m].left - f
  BY <1>3, <1>4
<1>8. /\ taker' \in Takers /\ taker' # Idle
      /\ taker'.id = taker.id /\ taker'.owner = taker.owner /\ taker'.buy = taker.buy
      /\ taker'.price = taker.price /\ taker'.size = taker.size /\ taker'.kind = taker.kind
      /\ taker'.left = taker.left - f /\ taker'.visited = taker.visited \cup {m}
  <2>1. PICK v \in SUBSET Ids : v = taker.visited \cup {m}
    BY <1>1
  <2>2. taker' = [taker EXCEPT !.left = l, !.visited = v]
    BY <1>1, <1>5, <1>6, <2>1 DEF Takers
  <2>3. taker' \in Takers
    BY <1>1, <2>2 DEF Takers
  <2> QED BY <1>1, <1>6, <2>1, <2>2, <2>3, SentinelAssumption DEF Takers
<1>9. PICK z \in {"Active", "Filled", "Cancelled"} :
        z = (IF done THEN "Filled" ELSE orders[m].status)
  BY <1>2 DEF Orders
<1>10. orders' = [orders EXCEPT ![m] = [orders[m] EXCEPT !.left = n, !.status = z]]
  BY <1>2, <1>5, <1>7, <1>9 DEF Inv, Shape
<1>11. /\ \A i \in Ids \ {m} : orders'[i] = orders[i]
       /\ orders'[m] = [orders[m] EXCEPT !.left = n, !.status = z]
  BY <1>10 DEF Inv, Shape
<1>12. /\ orders'[m] \in Orders
       /\ orders'[m].owner = orders[m].owner /\ orders'[m].buy = orders[m].buy
       /\ orders'[m].price = orders[m].price /\ orders'[m].size = orders[m].size
       /\ orders'[m].left = orders[m].left - f
       /\ orders'[m].status = "Active" => f # orders[m].left
  BY <1>2, <1>7, <1>9, <1>11 DEF Orders
<1>13. ASSUME ~resurrected'
       PROVE  /\ ~resurrected
              /\ \A t \in Traders : pos'[t] = IF t = taker.owner THEN pos[t] + delta
                                             ELSE IF t = maker THEN pos[t] - delta ELSE pos[t]
  <2>1. ~resurrected /\ ~ComesBack(taker.owner, delta) /\ ~ComesBack(maker, -delta)
    BY <1>5, <1>13
  <2>2. delta \in Int /\ -delta \in Int /\ pos \in [Traders -> Int]
    BY <1>1, <1>4 DEF Inv, Shape
  <2> HIDE DEF delta
  <2>3. \A t \in Traders, d \in Int : ~ComesBack(t, d) => Settle(t, d) = pos[t] + d
    BY <2>2 DEF ComesBack, Settle, Closes
  <2>4. Settle(taker.owner, delta) = pos[taker.owner] + delta
        /\ Settle(maker, -delta) = pos[maker] - delta
    BY <1>1, <1>3, <2>1, <2>2, <2>3
  <2>5. \A t \in Traders : pos'[t] = IF t = maker THEN Settle(maker, -delta)
                                     ELSE IF t = taker.owner THEN Settle(taker.owner, delta)
                                     ELSE pos[t]
    BY <1>1, <1>3, <1>5, <2>2
  <2> QED BY <1>5, <2>1, <2>4, <2>5
<1> QED BY <1>1, <1>2, <1>4, <1>5, <1>8, <1>11, <1>12, <1>13 DEF Fill, maker

\* A step of the matching loop is a fill, or leaves all but taker.visited alone.
LEMMA MatchFacts ==
  ASSUME Inv, MatchMaker
  PROVE  /\ taker # Idle /\ taker.left > 0 /\ UNCHANGED <<saved, boot, todo, crashes>>
         /\ \/ \E m \in Ids, f \in Nat : Fill(m, f)
            \/ \E m \in Ids :
                  /\ IsLive(m) => orders[m].owner = taker.owner
                  /\ taker' = [taker EXCEPT !.visited = @ \cup {m}]
                  /\ UNCHANGED <<orders, active, nextId, pos, queue, total, resurrected>>
<1>1. PICK w \in Waiting : SkipMaker(w[2]) \/ FillMaker(w[1], w[2])
  BY DEF MatchMaker
<1>2. w[1] \in Prices /\ w[2] \in Ids /\ InSeq(queue[~taker.buy][w[1]], w[2])
  BY DEF Waiting
<1>3. taker # Idle /\ taker.left > 0 /\ UNCHANGED <<saved, boot, todo, crashes>>
  BY DEF MatchMaker
<1>4. CASE SkipMaker(w[2])
  BY <1>2, <1>3, <1>4 DEF SkipMaker, state, book, IsLive
<1>5. CASE FillMaker(w[1], w[2])
  BY <1>2, <1>3, <1>5, FillFacts
<1> QED BY <1>1, <1>3, <1>4, <1>5

\* Longs and shorts cancel out, in memory and as committed.
Balanced ==
    ~resurrected => SumOver(pos, Traders) = 0 /\ SumOver(saved.pos, Traders) = 0

\* Every step keeps longs equal to shorts.
LEMMA BalancedNext ==
  ASSUME Inv, Balanced, [Next]_vars
  PROVE  Balanced'
<1>1. CASE UNCHANGED <<pos, saved, resurrected>>
  BY <1>1 DEF Balanced
<1>2. ASSUME NEW m \in Ids, NEW f \in Nat, Fill(m, f), UNCHANGED saved
      PROVE  Balanced'
  <2> SUFFICES ASSUME ~resurrected'
               PROVE  SumOver(pos', Traders) = 0 /\ SumOver(saved.pos, Traders) = 0
    BY <1>2 DEF Balanced
  <2> DEFINE d == IF taker.buy THEN f ELSE -f
             a == taker.owner
             c == orders[m].owner
             g == [pos EXCEPT ![a] = @ + d]
  <2>1. /\ a \in Traders /\ c \in Traders /\ a # c /\ ~resurrected
        /\ \A t \in Traders : pos'[t] = IF t = a THEN pos[t] + d
                                      ELSE IF t = c THEN pos[t] - d ELSE pos[t]
    <3>1. a \in Traders /\ c \in Traders
      BY <1>2 DEF Fill, Takers, Orders
    <3> QED BY <1>2, <3>1 DEF Fill
  <2>2. d \in Int /\ pos \in [Traders -> Int] /\ IsFiniteSet(Traders)
    BY BookAssumption DEF Inv, Shape
  <2> HIDE DEF d, a, c
  <2>3. /\ \A t \in Traders : g[t] = IF t = a THEN pos[t] + d ELSE pos[t]
        /\ \A t \in Traders : g[t] \in Int /\ pos[t] \in Int /\ pos'[t] \in Int
    BY <2>1, <2>2
  <2> HIDE DEF g
  <2>4. SumOver(g, Traders) = SumOver(pos, Traders) + g[a] - pos[a]
    <3>1. \A t \in Traders \ {a} : pos[t] = g[t]
      BY <2>3
    <3> QED BY <2>1, <2>2, <2>3, <3>1, SumChange
  <2>5. SumOver(pos', Traders) = SumOver(g, Traders) + pos'[c] - g[c]
    <3>1. \A t \in Traders \ {c} : g[t] = pos'[t]
      BY <2>1, <2>3
    <3> QED BY <2>1, <2>2, <2>3, <3>1, SumChange
  <2>6. SumOver(pos, Traders) = 0 /\ SumOver(saved.pos, Traders) = 0
    BY <2>1 DEF Balanced
  <2>7. g[a] = pos[a] + d /\ g[c] = pos[c] /\ pos'[c] = pos[c] - d
        /\ pos[a] \in Int /\ pos[c] \in Int
    BY <2>1, <2>2, <2>3
  <2> QED BY <2>2, <2>4, <2>5, <2>6, <2>7
<1>3. CASE MatchMaker
  BY <1>1, <1>2, <1>3, MatchFacts
<1>4. CASE Commit
  BY <1>4 DEF Commit, Saved, Balanced, state
<1>5. CASE Crash
  BY <1>5 DEF Crash, Balanced
<1>6. CASE \/ \E t \in Traders, b \in Sides, p \in Prices, z \in Sizes, k \in Kinds :
                 Place(t, b, p, z, k)
           \/ \E t \in Traders, z \in Sizes \cup {0} : ClosePosition(t, z)
  BY <1>1, <1>6 DEF ClosePosition, Place
<1>7. CASE FinishOrder
  BY <1>1, <1>7 DEF FinishOrder
<1>8. CASE \E t \in Traders, id \in Ids : CancelOrder(t, id)
  BY <1>1, <1>8 DEF CancelOrder
<1>9. CASE RebuildStart \/ RebuildOrder \/ RebuildDone
  BY <1>1, <1>9 DEF RebuildStart, RebuildOrder, RebuildDone, state
<1>10. CASE UNCHANGED vars
  BY <1>1, <1>10 DEF vars
<1> QED BY <1>3, <1>4, <1>5, <1>6, <1>7, <1>8, <1>9, <1>10 DEF Next

\* Longs and shorts cancel out over all traders, through partial fills, flips,
\* crashes and commits, as long as no closed position came back.
THEOREM LongsAreShorts == Spec => []OpenInterestBalanced
<1>1. Init => Balanced
  <2> SUFFICES ASSUME Init PROVE Balanced
    OBVIOUS
  <2>1. pos = [t \in Traders |-> 0] /\ saved.pos = pos
    BY DEF Init, Saved
  <2>2. SumOver(pos, Traders) = 0
    BY <2>1, BookAssumption, SumZero
  <2> QED BY <2>1, <2>2 DEF Balanced
<1>2. Inv /\ Balanced /\ [Next]_vars => Balanced'
  BY BalancedNext
<1>3. Balanced => OpenInterestBalanced
  BY DEF Balanced, OpenInterestBalanced, SumOver
<1> QED BY <1>1, <1>2, <1>3, BookInvariant, PTL DEF Spec

-------------------------------------------------------------------------------
(* No crossed book *)

Live(o, i) == o[i] # NoOrder /\ o[i].status = "Active"

\* No two live orders of different traders could trade with each other.
NoCross(o) ==
    \A i, j \in Ids :
        (Live(o, i) /\ Live(o, j) /\ o[i].buy = TRUE /\ o[j].buy = FALSE
           /\ o[i].owner # o[j].owner) => o[i].price < o[j].price

\* While the taker has something left, it has filled every maker it looked at,
\* except its owner's own.
TakerCleared ==
    (taker # Idle /\ taker.left > 0) =>
        \A m \in taker.visited : IsLive(m) => orders[m].owner = taker.owner

Cleared == NoCross(orders) /\ NoCross(saved.orders) /\ TakerCleared

\* A step after which there are only live orders that there were before.
LEMMA NoCrossShrinks ==
  ASSUME NEW o, NEW n, NoCross(o),
         \A i \in Ids : Live(n, i) =>
            /\ Live(o, i)
            /\ n[i].owner = o[i].owner /\ n[i].buy = o[i].buy /\ n[i].price = o[i].price
  PROVE  NoCross(n)
BY DEF NoCross

\* Every step keeps the book free of crossing orders.
LEMMA ClearedNext ==
  ASSUME Inv, Cleared, boot # "cold", [Next]_vars
  PROVE  Cleared'
<1>1. CASE UNCHANGED <<orders, saved>> /\ (taker' = taker \/ taker' = Idle)
  BY <1>1 DEF Cleared, TakerCleared, IsLive
<1>2. ASSUME NEW t \in Traders, NEW b \in Sides, NEW p \in Prices, NEW z, NEW k,
             Place(t, b, p, z, k)
      PROVE  Cleared'
  <2>1. UNCHANGED <<orders, saved>> /\ (taker' # Idle => taker'.visited = {})
    BY <1>2 DEF Place
  <2> QED BY <2>1 DEF Cleared, TakerCleared
<1>3. ASSUME NEW t \in Traders, NEW z \in Sizes \cup {0}, ClosePosition(t, z)
      PROVE  Cleared'
  <2>1. 0 \in Prices /\ (pos[t] < 0) \in Sides
    BY BookAssumption DEF Prices, Sides, Inv, Shape
  <2> QED BY <1>2, <1>3, <2>1 DEF ClosePosition
<1>4. CASE MatchMaker
  <2>1. taker # Idle /\ taker.left > 0 /\ saved' = saved
    BY <1>4, MatchFacts
  <2>2. \A m \in taker.visited : IsLive(m) => orders[m].owner = taker.owner
    BY <2>1 DEF Cleared, TakerCleared
  <2>3. taker.visited \subseteq Ids
    BY <2>1 DEF Inv, Shape, Takers
  <2>4. ASSUME NEW m \in Ids, NEW f \in Nat, Fill(m, f) PROVE Cleared'
    <3>1. \A i \in Ids : Live(orders', i) =>
             /\ Live(orders, i)
             /\ orders'[i].owner = orders[i].owner /\ orders'[i].buy = orders[i].buy
             /\ orders'[i].price = orders[i].price
      BY <2>4 DEF Fill, Live, IsLive
    <3>2. NoCross(orders')
      BY <3>1, NoCrossShrinks DEF Cleared
    <3>3. TakerCleared'
      <4> SUFFICES ASSUME taker'.left > 0, NEW i \in taker'.visited, IsLive(i)'
                   PROVE  orders'[i].owner = taker'.owner
        BY DEF TakerCleared
      <4>1. f = orders[m].left
        BY <2>1, <2>4 DEF Fill, Takers
      <4>2. i # m
        BY <2>4, <4>1 DEF Fill, IsLive
      <4>3. i \in taker.visited /\ i \in Ids /\ orders'[i] = orders[i]
        BY <2>3, <2>4, <4>2 DEF Fill
      <4> QED BY <2>2, <2>4, <4>3 DEF Fill, IsLive
    <3> QED BY <2>1, <3>2, <3>3 DEF Cleared
  <2>5. ASSUME NEW m \in Ids, IsLive(m) => orders[m].owner = taker.owner,
               taker' = [taker EXCEPT !.visited = @ \cup {m}], orders' = orders
        PROVE  Cleared'
    <3>1. taker'.visited = taker.visited \cup {m} /\ taker'.owner = taker.owner
      BY <2>1, <2>5 DEF Inv, Shape, Takers
    <3> QED BY <2>1, <2>2, <2>5, <3>1 DEF Cleared, TakerCleared, IsLive
  <2> QED BY <1>4, <2>4, <2>5, MatchFacts
<1>5. CASE FinishOrder
  <2> DEFINE id == taker.id
             rests == taker.left > 0 /\ taker.kind.tif \in {"GTC", "PostOnly"}
             z == IF taker.left = 0 THEN "Filled" ELSE IF rests THEN "Active" ELSE "Cancelled"
             r == [owner |-> taker.owner, buy |-> taker.buy, price |-> taker.price,
                   size |-> taker.size, left |-> taker.left, status |-> z]
  <2>1. /\ taker # Idle /\ taker' = Idle /\ saved' = saved /\ (taker.left = 0 \/ Waiting = {})
        /\ orders' = orders \/ orders' = [orders EXCEPT ![id] = r]
    BY <1>5 DEF FinishOrder
  <2>2. /\ id \in Ids /\ taker.buy \in Sides /\ taker.price \in Prices /\ taker.left \in Nat
        /\ taker.owner \in Traders
    BY <2>1 DEF Inv, Shape, Takers
  <2>3. /\ r.owner = taker.owner /\ r.buy = taker.buy /\ r.price = taker.price
        /\ r.status = "Active" => taker.left > 0
    BY <2>2
  <2> HIDE DEF id, r
  <2>4. TakerCleared' /\ NoCross(saved.orders)'
    BY <2>1 DEF Cleared, TakerCleared
  <2>5. CASE orders' = orders
    BY <2>4, <2>5 DEF Cleared
  <2>6. CASE orders' = [orders EXCEPT ![id] = r] /\ r.status # "Active"
    <3>1. \A i \in Ids : orders'[i] = IF i = id THEN r ELSE orders[i]
      BY <2>6 DEF Inv, Shape
    <3>2. \A i \in Ids : Live(orders', i) => Live(orders, i) /\ orders'[i] = orders[i]
      BY <2>6, <3>1 DEF Live
    <3>3. NoCross(orders')
      BY <3>2, NoCrossShrinks DEF Cleared
    <3> QED BY <2>4, <3>3 DEF Cleared
  <2>7. CASE orders' = [orders EXCEPT ![id] = r] /\ r.status = "Active"
    <3>1. \A i \in Ids : orders'[i] = IF i = id THEN r ELSE orders[i]
      BY <2>7 DEF Inv, Shape
    <3>2. boot = "ok" /\ Waiting = {}
      BY <2>1, <2>2, <2>3, <2>7 DEF Inv, Shape, BookInv, BookComplete
    <3>3. ASSUME NEW j \in Ids, Live(orders, j), orders[j].buy = ~taker.buy,
                 orders[j].owner # taker.owner
          PROVE  ~Accepts(taker.buy, taker.price, orders[j].price)
      <4>1. InSeq(queue[~taker.buy][orders[j].price], j) /\ orders[j].price \in Prices
        BY <3>2, <3>3 DEF Inv, BookInv, BookComplete, Resting, Live, IsLive, Shape, Orders
      <4>2. j \notin taker.visited
        BY <2>1, <2>3, <2>7, <3>3 DEF Cleared, TakerCleared, Live, IsLive
      <4>3. <<orders[j].price, j>> \notin Waiting
        BY <3>2
      <4> QED BY <4>1, <4>2, <4>3 DEF Waiting
    <3>4. \A j \in Ids : orders[j] # NoOrder => orders[j].price \in Nat
      BY BookAssumption DEF Inv, Shape, Orders, Prices
    <3>5. ASSUME NEW i \in Ids, NEW j \in Ids, Live(orders', i), Live(orders', j),
                 orders'[i].buy = TRUE, orders'[j].buy = FALSE,
                 orders'[i].owner # orders'[j].owner
          PROVE  orders'[i].price < orders'[j].price
      <4>1. taker.price \in Nat
        BY <2>2, BookAssumption DEF Prices
      <4>2. CASE i = id /\ j # id
        <5>1. Live(orders, j) /\ orders[j].buy = ~taker.buy /\ orders[j].owner # taker.owner
              /\ taker.buy = TRUE
          BY <2>2, <2>3, <3>1, <3>5, <4>2 DEF Live
        <5>2. ~Accepts(TRUE, taker.price, orders[j].price) /\ orders[j].price \in Nat
          BY <3>3, <3>4, <5>1 DEF Live
        <5>3. taker.price < orders[j].price
          BY <4>1, <5>2 DEF Accepts
        <5> QED BY <2>2, <2>3, <3>1, <4>2, <5>3
      <4>3. CASE i # id /\ j = id
        <5>1. Live(orders, i) /\ orders[i].buy = ~taker.buy /\ orders[i].owner # taker.owner
              /\ taker.buy = FALSE
          BY <2>2, <2>3, <3>1, <3>5, <4>3 DEF Live
        <5>2. ~Accepts(FALSE, taker.price, orders[i].price) /\ orders[i].price \in Nat
          BY <3>3, <3>4, <5>1 DEF Live
        <5>3. orders[i].price < taker.price
          BY <4>1, <5>2 DEF Accepts
        <5> QED BY <2>2, <2>3, <3>1, <4>3, <5>3
      <4>4. CASE i # id /\ j # id
        <5>1. orders'[i] = orders[i] /\ orders'[j] = orders[j]
          BY <3>1, <4>4
        <5> QED BY <3>5, <5>1 DEF Cleared, NoCross, Live
      <4>5. CASE i = id /\ j = id
        BY <3>5, <4>5
      <4> QED BY <4>2, <4>3, <4>4, <4>5
    <3>6. NoCross(orders')
      BY <3>5 DEF NoCross
    <3> QED BY <2>4, <3>6 DEF Cleared
  <2> QED BY <2>1, <2>5, <2>6, <2>7
<1>6. ASSUME NEW t \in Traders, NEW id \in Ids, CancelOrder(t, id) PROVE Cleared'
  <2>1. /\ orders' = [orders EXCEPT ![id].status = "Cancelled"] /\ saved' = saved
        /\ taker' = taker /\ taker = Idle /\ IsLive(id)
    BY <1>6 DEF CancelOrder, Ready
  <2>2. orders[id] \in Orders /\ orders \in [Ids -> Orders \cup {NoOrder}]
    BY <2>1 DEF Inv, Shape, IsLive
  <2>3. /\ \A i \in Ids \ {id} : orders'[i] = orders[i]
        /\ orders'[id] = [orders[id] EXCEPT !.status = "Cancelled"]
    BY <2>1, <2>2
  <2>4. orders'[id].status = "Cancelled"
    BY <2>2, <2>3 DEF Orders
  <2>5. \A i \in Ids : Live(orders', i) => Live(orders, i) /\ orders'[i] = orders[i]
    BY <2>3, <2>4 DEF Live
  <2>6. NoCross(orders')
    BY <2>5, NoCrossShrinks DEF Cleared
  <2> QED BY <2>1, <2>6 DEF Cleared, TakerCleared
<1>7. CASE Commit
  BY <1>7 DEF Commit, Saved, state, Cleared, TakerCleared, IsLive
<1>8. CASE Crash
  BY <1>8 DEF Crash, Cleared, TakerCleared
<1>9. CASE RebuildStart \/ RebuildOrder \/ RebuildDone
  BY <1>1, <1>9 DEF RebuildStart, RebuildOrder, RebuildDone, state
<1>10. CASE UNCHANGED vars
  BY <1>1, <1>10 DEF vars
<1>11. ASSUME NEW t \in Traders, NEW b \in Sides, NEW p \in Prices, NEW z \in Sizes,
              NEW k \in Kinds, Place(t, b, p, z, k)
       PROVE  Cleared'
  BY <1>2, <1>11
<1> QED BY <1>3, <1>4, <1>5, <1>6, <1>7, <1>8, <1>9, <1>10, <1>11 DEF Next

\* The book is never left crossed between two traders, if after every crash it is
\* rebuilt before the next request is served. Without that it can be: a request
\* served on the empty book adds an order that the rebuild after the next crash puts
\* beside the older ones it was never matched with.
THEOREM NeverCrossed == Spec /\ [](boot # "cold") => []Uncrossed
<1>1. Init => Cleared
  BY DEF Init, Saved, Cleared, NoCross, Live, TakerCleared
<1>2. Inv /\ Cleared /\ boot # "cold" /\ [Next]_vars => Cleared'
  BY ClearedNext
<1>3. Inv /\ Cleared => Uncrossed
  <2> SUFFICES ASSUME Inv, Cleared, NEW p \in Prices, NEW q \in Prices, NEW i \in Ids,
                      NEW j \in Ids, InSeq(queue[TRUE][p], i), InSeq(queue[FALSE][q], j),
                      orders[i].owner # orders[j].owner
               PROVE  p < q
    BY DEF Uncrossed
  <2>1. TRUE \in Sides /\ FALSE \in Sides
    BY DEF Sides
  <2>2. \A b \in Sides, x \in Prices, n \in Ids :
           InSeq(queue[b][x], n) => IsLive(n) /\ orders[n].buy = b /\ orders[n].price = x
    BY DEF Inv, BookInv, BookSound
  <2>3. IsLive(i) /\ orders[i].buy = TRUE /\ orders[i].price = p
    <3>1. PICK b \in Sides : b = TRUE
      BY <2>1
    <3>2. InSeq(queue[b][p], i)
      BY <3>1
    <3> QED BY <2>2, <3>1, <3>2
  <2>4. IsLive(j) /\ orders[j].buy = FALSE /\ orders[j].price = q
    BY <2>1, <2>2, Zenon
  <2> QED BY <2>3, <2>4 DEF Cleared, NoCross, Live, IsLive
<1> QED BY <1>1, <1>2, <1>3, BookInvariant, PTL DEF Spec

-------------------------------------------------------------------------------
(* Positions and order records *)

BoughtIn(o) ==
    [i \in Ids |-> IF o[i] = NoOrder THEN 0
                  ELSE IF o[i].buy THEN o[i].size - o[i].left ELSE o[i].left - o[i].size]

OwnedIn(o, t) == {i \in Ids : o[i] # NoOrder /\ o[i].owner = t}

\* What the records say a trader bought.
FilledIn(o, t) == SumOver(BoughtIn(o), OwnedIn(o, t))

\* What the order being placed, which has no record yet, has bought so far.
Placing(t) ==
    IF taker # Idle /\ taker.owner = t
    THEN IF taker.buy THEN taker.size - taker.left ELSE taker.left - taker.size
    ELSE 0

\* Positions are what records and the order being placed say, in memory and as
\* committed.
Explained ==
    ~resurrected => \A t \in Traders : /\ pos[t] = FilledIn(orders, t) + Placing(t)
                                       /\ saved.pos[t] = FilledIn(saved.orders, t)

\* No order is fill-or-kill: one that fails has traded and leaves no record.
NoFok == taker # Idle => taker.kind.tif # "FOK"

\* What order records say was filled is an integer.
LEMMA FilledType ==
  ASSUME NEW o \in [Ids -> Orders \cup {NoOrder}]
  PROVE  /\ \A i \in Ids : BoughtIn(o)[i] \in Int
         /\ \A t : OwnedIn(o, t) \subseteq Ids /\ IsFiniteSet(OwnedIn(o, t))
         /\ \A t : FilledIn(o, t) \in Int
<1>1. ASSUME NEW i \in Ids PROVE BoughtIn(o)[i] \in Int
  <2>1. CASE o[i] = NoOrder
    BY <2>1 DEF BoughtIn
  <2>2. CASE o[i] # NoOrder
    <3>1. o[i].size \in Nat /\ o[i].left \in Nat
      BY <2>2 DEF Orders
    <3> QED BY <2>2, <3>1 DEF BoughtIn
  <2> QED BY <2>1, <2>2
<1>2. \A t : OwnedIn(o, t) \subseteq Ids /\ IsFiniteSet(OwnedIn(o, t))
  BY IdsFinite, FS_Subset DEF OwnedIn
<1>3. \A t : \A i \in OwnedIn(o, t) : BoughtIn(o)[i] \in Int
  BY <1>1, <1>2
<1>4. \A t : FilledIn(o, t) \in Int
  BY <1>2, <1>3, SumRemove DEF FilledIn
<1> QED BY <1>1, <1>2, <1>4

\* Records whose owner, side and fills are the same say the same.
LEMMA FilledSame ==
  ASSUME NEW o \in [Ids -> Orders \cup {NoOrder}], NEW n \in [Ids -> Orders \cup {NoOrder}],
         \A i \in Ids : (o[i] = NoOrder <=> n[i] = NoOrder) /\
            (n[i] # NoOrder => /\ n[i].owner = o[i].owner /\ n[i].buy = o[i].buy
                               /\ n[i].size = o[i].size /\ n[i].left = o[i].left)
  PROVE  \A t : FilledIn(n, t) = FilledIn(o, t)
<1>1. BoughtIn(n) = BoughtIn(o)
  BY DEF BoughtIn
<1>2. \A t : OwnedIn(n, t) = OwnedIn(o, t)
  BY DEF OwnedIn
<1> QED BY <1>1, <1>2 DEF FilledIn

\* Every step keeps positions equal to the filled amounts.
LEMMA ExplainedNext ==
  ASSUME Inv, Explained, NoFok, [Next]_vars
  PROVE  Explained'
<1> DEFINE Records == [Ids -> Orders \cup {NoOrder}]
<1>1. /\ orders \in Records /\ saved.orders \in Records /\ orders' \in Records
      /\ pos \in [Traders -> Int]
  BY NextInv DEF Inv, Shape, States
<1>2. CASE UNCHANGED <<orders, pos, saved, taker, resurrected>>
  BY <1>2 DEF Explained, Placing
<1>3. ASSUME NEW t \in Traders, NEW b \in Sides, NEW p \in Prices, NEW z \in Nat, NEW k,
             Place(t, b, p, z, k)
      PROVE  Explained'
  <2>1. /\ UNCHANGED <<orders, pos, saved, resurrected>> /\ taker = Idle
        /\ taker' # Idle => taker'.size = z /\ taker'.left = z
    BY <1>3 DEF Place, Ready
  <2>2. \A u \in Traders : Placing(u) = 0 /\ Placing(u)' = 0
    BY <2>1 DEF Placing
  <2> QED BY <2>1, <2>2 DEF Explained
<1>4. CASE MatchMaker
  <2>1. taker # Idle /\ saved' = saved
    BY <1>4, MatchFacts
  <2>2. ASSUME NEW m \in Ids, NEW f \in Nat, Fill(m, f), ~resurrected', NEW t \in Traders
        PROVE  pos'[t] = FilledIn(orders', t) + Placing(t)'
    <3> DEFINE d == IF taker.buy THEN f ELSE -f
               B == BoughtIn(orders)
               C == BoughtIn(orders')
               O == OwnedIn(orders, t)
    <3>1. pos[t] = FilledIn(orders, t) + Placing(t) /\ pos[t] \in Int
          /\ FilledIn(orders, t) \in Int /\ FilledIn(orders', t) \in Int
      BY <1>1, <2>2, FilledType DEF Explained, Fill
    <3>2. OwnedIn(orders', t) = O
      BY <2>2, SentinelAssumption DEF Fill, OwnedIn, IsLive
    <3>3. taker.size \in Nat /\ taker.left \in Nat /\ taker.buy \in Sides /\ d \in Int
      BY <2>2 DEF Fill, Takers
    <3>4. \A i \in Ids \ {m} : B[i] = C[i]
      BY <2>2 DEF Fill, BoughtIn
    <3>5. C[m] - B[m] = -d
      <4>1. /\ orders[m] # NoOrder /\ orders'[m] # NoOrder
            /\ orders[m].size \in Nat /\ orders[m].left \in Nat /\ orders[m].buy = ~taker.buy
            /\ orders'[m].size = orders[m].size /\ orders'[m].left = orders[m].left - f
            /\ orders'[m].buy = orders[m].buy
        BY <2>2, SentinelAssumption DEF Fill, Orders, IsLive
      <4>2. B[m] = (IF orders[m].buy THEN orders[m].size - orders[m].left
                    ELSE orders[m].left - orders[m].size)
        BY <4>1 DEF BoughtIn
      <4>3. C[m] = (IF orders'[m].buy THEN orders'[m].size - orders'[m].left
                    ELSE orders'[m].left - orders'[m].size)
        BY <4>1 DEF BoughtIn
      <4> HIDE DEF B, C
      <4>4. CASE taker.buy
        <5>1. B[m] = orders[m].left - orders[m].size /\ C[m] = orders[m].left - f - orders[m].size
          BY <4>1, <4>2, <4>3, <4>4
        <5> QED BY <4>1, <4>4, <5>1
      <4>5. CASE ~taker.buy
        <5>1. B[m] = orders[m].size - orders[m].left /\ C[m] = orders[m].size - (orders[m].left - f)
          BY <4>1, <4>2, <4>3, <4>5
        <5> QED BY <4>1, <4>5, <5>1
      <4> QED BY <4>4, <4>5
    <3>6. Placing(t)' - Placing(t) = IF t = taker.owner THEN d ELSE 0
      <4>1. /\ taker' # Idle /\ taker'.owner = taker.owner /\ taker'.buy = taker.buy
            /\ taker'.size = taker.size /\ taker'.left = taker.left - f
        BY <2>2 DEF Fill
      <4> QED BY <2>1, <3>3, <4>1 DEF Placing
    <3>7. pos'[t] = IF t = taker.owner THEN pos[t] + d
                    ELSE IF t = orders[m].owner THEN pos[t] - d ELSE pos[t]
      BY <2>2 DEF Fill
    <3>8. FilledIn(orders', t) = FilledIn(orders, t) + (IF t = orders[m].owner THEN -d ELSE 0)
      <4>1. /\ IsFiniteSet(O) /\ O \subseteq Ids
            /\ \A i \in Ids : B[i] \in Int /\ C[i] \in Int
        BY <1>1, FilledType
      <4>2. m \in O <=> t = orders[m].owner
        BY <2>2 DEF Fill, OwnedIn, IsLive
      <4> HIDE DEF B, C, O, d
      <4>3. CASE m \in O
        <5>1. SumOver(C, O) = SumOver(B, O) + C[m] - B[m]
          <6>1. \A y \in O : B[y] \in Int /\ C[y] \in Int
            BY <4>1
          <6>2. \A y \in O \ {m} : B[y] = C[y]
            BY <3>4, <4>1
          <6> QED BY <4>1, <4>3, <6>1, <6>2, SumChange
        <5>2. SumOver(B, O) \in Int
          BY <3>1 DEF FilledIn, B, O
        <5>3. FilledIn(orders', t) = SumOver(C, O) /\ FilledIn(orders, t) = SumOver(B, O)
          BY <3>2 DEF FilledIn, B, C, O
        <5> QED BY <3>3, <3>5, <4>1, <4>2, <4>3, <5>1, <5>2, <5>3
      <4>4. CASE m \notin O
        <5>1. SumOver(B, O) = SumOver(C, O)
          <6>1. \A y \in O : B[y] \in Int /\ B[y] = C[y]
            BY <3>4, <4>1, <4>4
          <6> QED BY <4>1, <6>1, SumSame
        <5>2. FilledIn(orders', t) = SumOver(C, O) /\ FilledIn(orders, t) = SumOver(B, O)
          BY <3>2 DEF FilledIn, B, C, O
        <5> QED BY <3>1, <4>2, <4>4, <5>1, <5>2
      <4> QED BY <4>3, <4>4
    <3>9. Placing(t) \in Int /\ Placing(t)' \in Int
      <4>1. taker'.size \in Nat /\ taker'.left \in Nat
        BY <2>2 DEF Fill, Takers
      <4> QED BY <3>3, <4>1 DEF Placing
    <3>10. orders[m].owner # taker.owner
      BY <2>2 DEF Fill
    <3> HIDE DEF d
    <3> QED BY <3>1, <3>3, <3>6, <3>7, <3>8, <3>9, <3>10
  <2>3. ASSUME NEW m \in Ids, NEW f \in Nat, Fill(m, f) PROVE Explained'
    <3>1. ~resurrected' => ~resurrected
      BY <2>3 DEF Fill
    <3> QED BY <2>1, <2>2, <2>3, <3>1 DEF Explained
  <2>4. ASSUME NEW m \in Ids, taker' = [taker EXCEPT !.visited = @ \cup {m}],
               UNCHANGED <<orders, pos, resurrected>>
        PROVE  Explained'
    <3>1. /\ taker' # Idle /\ taker'.owner = taker.owner /\ taker'.buy = taker.buy
          /\ taker'.size = taker.size /\ taker'.left = taker.left
      <4>1. taker \in Takers
        BY <2>1 DEF Inv, Shape
      <4>2. taker' \in Takers
        BY <2>4, <4>1 DEF Takers
      <4> QED BY <2>4, <4>1, <4>2, SentinelAssumption DEF Takers
    <3>2. \A u \in Traders : Placing(u)' = Placing(u)
      BY <2>1, <3>1 DEF Placing
    <3> QED BY <2>1, <2>4, <3>2 DEF Explained
  <2> QED BY <1>4, <2>3, <2>4, MatchFacts
<1>5. CASE FinishOrder
  <2> DEFINE id == taker.id
             rests == taker.left > 0 /\ taker.kind.tif \in {"GTC", "PostOnly"}
             z == IF taker.left = 0 THEN "Filled" ELSE IF rests THEN "Active" ELSE "Cancelled"
             r == [owner |-> taker.owner, buy |-> taker.buy, price |-> taker.price,
                   size |-> taker.size, left |-> taker.left, status |-> z]
             w == IF taker.buy THEN taker.size - taker.left ELSE taker.left - taker.size
  <2>1. /\ taker # Idle /\ taker' = Idle /\ UNCHANGED <<saved, pos, resurrected>>
        /\ orders' = [orders EXCEPT ![id] = r]
    BY <1>5 DEF FinishOrder, NoFok
  <2>2. /\ id \in Ids /\ taker.buy \in Sides /\ taker.left \in Nat /\ taker.size \in Nat
        /\ taker.owner \in Traders
    BY <2>1 DEF Inv, Shape, Takers
  <2>3. orders[id] = NoOrder
    BY <2>1 DEF Inv, BookInv, TakerNew
  <2>4. /\ r.owner = taker.owner /\ r.buy = taker.buy /\ r.size = taker.size
        /\ r.left = taker.left
    OBVIOUS
  <2> HIDE DEF id, r
  <2>5. \A i \in Ids : orders'[i] = IF i = id THEN r ELSE orders[i]
    BY <1>1, <2>1
  <2>6. r # NoOrder
    <3>1. orders'[id] \in Orders \cup {NoOrder} /\ orders'[id] = r
      BY <1>1, <2>2, <2>5
    <3>2. z \in {"Active", "Filled", "Cancelled"}
      OBVIOUS
    <3>3. taker \in Takers
      BY <2>1 DEF Inv, Shape
    <3>4. r \in Orders
      <4> HIDE DEF z
      <4> QED BY <3>2, <3>3 DEF r, Orders, Takers
    <3> QED BY <3>4, SentinelAssumption
  <2>7. w \in Int
    BY <2>2
  <2>8. ASSUME NEW t \in Traders
        PROVE  FilledIn(orders', t) = FilledIn(orders, t) + Placing(t)
    <3> DEFINE B == BoughtIn(orders)
               C == BoughtIn(orders')
               O == OwnedIn(orders, t)
    <3>1. /\ IsFiniteSet(O) /\ O \subseteq Ids /\ FilledIn(orders, t) \in Int
          /\ \A i \in Ids : B[i] \in Int /\ C[i] \in Int
      BY <1>1, FilledType
    <3>2. id \notin O
      BY <2>3 DEF OwnedIn
    <3>3. C[id] = w /\ \A i \in Ids \ {id} : B[i] = C[i]
      BY <2>2, <2>4, <2>5, <2>6 DEF BoughtIn
    <3>4. OwnedIn(orders', t) = IF t = taker.owner THEN O \cup {id} ELSE O
      BY <2>2, <2>3, <2>4, <2>5, <2>6 DEF OwnedIn
    <3>5. Placing(t) = IF t = taker.owner THEN w ELSE 0
      BY <2>1 DEF Placing
    <3> HIDE DEF B, C, O, w
    <3>6. SumOver(B, O) = SumOver(C, O)
      <4>1. \A i \in O : B[i] \in Int /\ B[i] = C[i]
        BY <3>1, <3>2, <3>3
      <4> QED BY <3>1, <4>1, SumSame
    <3>7. SumOver(C, O \cup {id}) = SumOver(C, O) + C[id]
      <4>1. C[id] \in Int /\ \A i \in O : C[i] \in Int
        BY <2>2, <3>1
      <4> QED BY <3>1, <3>2, <4>1, SumAdd
    <3>8. FilledIn(orders, t) = SumOver(B, O)
      BY DEF FilledIn, B, O
    <3>9. FilledIn(orders', t) = IF t = taker.owner THEN SumOver(C, O \cup {id}) ELSE SumOver(C, O)
      BY <3>4 DEF FilledIn, C
    <3> QED BY <2>7, <3>1, <3>3, <3>5, <3>6, <3>7, <3>8, <3>9
  <2>9. \A t \in Traders : Placing(t)' = 0 /\ FilledIn(orders', t) \in Int
    BY <1>1, <2>1, FilledType DEF Placing
  <2> SUFFICES ASSUME ~resurrected', NEW t \in Traders
               PROVE  /\ pos'[t] = FilledIn(orders', t) + Placing(t)'
                      /\ saved'.pos[t] = FilledIn(saved'.orders, t)
    BY DEF Explained
  <2>10. pos[t] = FilledIn(orders, t) + Placing(t) /\ saved.pos[t] = FilledIn(saved.orders, t)
    BY <2>1 DEF Explained
  <2>11. Placing(t)' = 0 /\ FilledIn(orders', t) \in Int
    BY <2>9
  <2>12. pos'[t] = FilledIn(orders', t) + Placing(t)'
    <3>1. pos'[t] = pos[t]
      BY <2>1
    <3> QED BY <2>8, <2>10, <2>11, <3>1
  <2> QED BY <2>1, <2>10, <2>12
<1>6. ASSUME NEW t \in Traders, NEW id \in Ids, CancelOrder(t, id) PROVE Explained'
  <2>1. /\ orders' = [orders EXCEPT ![id].status = "Cancelled"] /\ IsLive(id)
        /\ UNCHANGED <<pos, saved, taker, resurrected>>
    BY <1>6 DEF CancelOrder
  <2>2. orders[id] \in Orders
    BY <1>1, <2>1 DEF IsLive
  <2>3. /\ \A i \in Ids \ {id} : orders'[i] = orders[i]
        /\ orders'[id] = [orders[id] EXCEPT !.status = "Cancelled"]
    BY <1>1, <2>1
  <2>4. /\ orders'[id] # NoOrder /\ orders[id] # NoOrder
        /\ orders'[id].owner = orders[id].owner /\ orders'[id].buy = orders[id].buy
        /\ orders'[id].size = orders[id].size /\ orders'[id].left = orders[id].left
    BY <2>2, <2>3, SentinelAssumption DEF Orders
  <2>5. \A u : FilledIn(orders', u) = FilledIn(orders, u)
    <3>1. \A i \in Ids : (orders[i] = NoOrder <=> orders'[i] = NoOrder) /\
             (orders'[i] # NoOrder =>
                /\ orders'[i].owner = orders[i].owner /\ orders'[i].buy = orders[i].buy
                /\ orders'[i].size = orders[i].size /\ orders'[i].left = orders[i].left)
      BY <2>3, <2>4
    <3> HIDE DEF Records
    <3>2. \A o \in Records, n \in Records :
             (\A i \in Ids : (o[i] = NoOrder <=> n[i] = NoOrder) /\
                 (n[i] # NoOrder =>
                    /\ n[i].owner = o[i].owner /\ n[i].buy = o[i].buy
                    /\ n[i].size = o[i].size /\ n[i].left = o[i].left))
             => \A u : FilledIn(n, u) = FilledIn(o, u)
      BY FilledSame, Zenon DEF Records
    <3> QED BY <1>1, <3>1, <3>2, Zenon
  <2>6. \A u \in Traders : Placing(u)' = Placing(u)
    BY <2>1 DEF Placing
  <2> QED BY <2>1, <2>5, <2>6 DEF Explained
<1>7. CASE Commit
  <2>1. /\ saved'.orders = orders /\ saved'.pos = pos /\ taker = Idle
        /\ UNCHANGED <<orders, pos, taker, resurrected>>
    BY <1>7 DEF Commit, Saved, state, Ready
  <2>2. \A u \in Traders : Placing(u) = 0 /\ Placing(u)' = 0 /\ FilledIn(orders, u) \in Int
    BY <1>1, <2>1, FilledType DEF Placing
  <2> QED BY <2>1, <2>2 DEF Explained
<1>8. CASE Crash
  <2>1. /\ orders' = saved.orders /\ pos' = saved.pos /\ taker' = Idle
        /\ UNCHANGED <<saved, resurrected>>
    BY <1>8 DEF Crash
  <2>2. \A u \in Traders : Placing(u)' = 0 /\ FilledIn(saved.orders, u) \in Int
    BY <1>1, <2>1, FilledType DEF Placing
  <2> QED BY <2>1, <2>2 DEF Explained
<1>9. CASE RebuildStart \/ RebuildOrder \/ RebuildDone
  BY <1>2, <1>9 DEF RebuildStart, RebuildOrder, RebuildDone, state
<1>10. CASE UNCHANGED vars
  BY <1>2, <1>10 DEF vars
<1>11. ASSUME NEW t \in Traders, NEW z \in Sizes \cup {0}, ClosePosition(t, z)
       PROVE  Explained'
  <2>1. 0 \in Prices /\ (pos[t] < 0) \in Sides /\ pos[t] \in Int /\ z \in Nat
    BY <1>1, BookAssumption DEF Prices, Sides
  <2>2. (IF z = 0 THEN Abs(pos[t]) ELSE Lesser(z, Abs(pos[t]))) \in Nat
    BY <2>1 DEF Abs, Lesser
  <2> QED BY <1>3, <1>11, <2>1, <2>2 DEF ClosePosition
<1>12. ASSUME NEW t \in Traders, NEW b \in Sides, NEW p \in Prices, NEW z \in Sizes,
              NEW k \in Kinds, Place(t, b, p, z, k)
       PROVE  Explained'
  BY <1>3, <1>12, BookAssumption
<1> QED BY <1>4, <1>5, <1>6, <1>7, <1>8, <1>9, <1>10, <1>11, <1>12 DEF Next

\* Without fill-or-kill orders, a trader's position is what the trader's order
\* records say was filled, as long as no closed position came back. With them it
\* need not be: place_order fails such an order after its fills were applied.
THEOREM RecordsExplainPositions ==
  (\A k \in Kinds : k.tif # "FOK") => (Spec => []PositionsExplained)
<1> SUFFICES ASSUME \A k \in Kinds : k.tif # "FOK" PROVE Spec => []PositionsExplained
  OBVIOUS
<1>1. Init => Explained /\ NoFok
  <2> SUFFICES ASSUME Init PROVE Explained
    BY DEF Init, NoFok
  <2>1. /\ taker = Idle /\ saved.orders = orders /\ saved.pos = pos
        /\ \A t \in Traders : pos[t] = 0
        /\ \A i \in Ids : orders[i] = NoOrder
    BY DEF Init, Saved
  <2>2. \A t \in Traders : Placing(t) = 0
    BY <2>1 DEF Placing
  <2>3. \A t \in Traders : OwnedIn(orders, t) = {}
    BY <2>1 DEF OwnedIn
  <2>4. \A t \in Traders : FilledIn(orders, t) = 0
    BY <2>3, SumEmpty DEF FilledIn
  <2> QED BY <2>1, <2>2, <2>4 DEF Explained
<1>2. Inv /\ Explained /\ NoFok /\ [Next]_vars => Explained'
  BY ExplainedNext
<1>3. Inv /\ NoFok /\ [Next]_vars => NoFok'
  <2> SUFFICES ASSUME Inv, NoFok, [Next]_vars PROVE NoFok'
    OBVIOUS
  <2>1. ASSUME NEW t, NEW b, NEW p, NEW z, NEW k, k.tif # "FOK", Place(t, b, p, z, k)
        PROVE  NoFok'
    BY <2>1 DEF Place, NoFok
  <2>2. ASSUME NEW t \in Traders, NEW z \in Sizes \cup {0}, ClosePosition(t, z) PROVE NoFok'
    <3>1. [tif |-> "IOC", postOnly |-> FALSE, reduceOnly |-> TRUE].tif # "FOK"
      OBVIOUS
    <3> QED BY <2>1, <2>2, <3>1 DEF ClosePosition
  <2>3. CASE MatchMaker
    <3>1. taker # Idle /\ taker.kind.tif # "FOK" /\ taker \in Takers
      BY <2>3, MatchFacts DEF NoFok, Inv, Shape
    <3>2. taker'.kind = taker.kind
      BY <2>3, <3>1, MatchFacts DEF Fill, Takers
    <3> QED BY <3>1, <3>2 DEF NoFok
  <2>4. CASE FinishOrder \/ Crash
    BY <2>4 DEF FinishOrder, Crash, NoFok
  <2>5. ASSUME NEW t \in Traders, NEW id \in Ids, CancelOrder(t, id) PROVE NoFok'
    BY <2>5 DEF CancelOrder, NoFok
  <2>6. CASE Commit \/ RebuildStart \/ RebuildOrder \/ RebuildDone \/ UNCHANGED vars
    BY <2>6 DEF Commit, RebuildStart, RebuildOrder, RebuildDone, NoFok, vars
  <2> QED BY <2>1, <2>2, <2>3, <2>4, <2>5, <2>6 DEF Next
<1>4. Inv /\ Explained => PositionsExplained
  <2> SUFFICES ASSUME Inv, Explained, taker = Idle, ~resurrected, NEW t \in Traders
               PROVE  pos[t] = SumOver(Bought, OwnedIn(orders, t))
    BY Zenon DEF PositionsExplained, SumOver, OwnedIn
  <2>1. pos[t] = FilledIn(orders, t) + 0 /\ FilledIn(orders, t) \in Int
    BY FilledType DEF Explained, Placing, Inv, Shape
  <2>2. Bought = BoughtIn(orders)
    BY DEF Bought, BoughtIn
  <2> QED BY <2>1, <2>2 DEF FilledIn
<1> QED BY <1>1, <1>2, <1>3, <1>4, BookInvariant, PTL DEF Spec
===============================================================================
