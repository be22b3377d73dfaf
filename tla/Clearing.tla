------------------------------ MODULE Clearing ------------------------------
(***************************************************************************)
(* Positions with their margin, and everything that closes them: fills,    *)
(* liquidation (one, or a batch from the risk index), the insurance fund   *)
(* and auto-deleveraging, over the state they share: balances, positions   *)
(* and the two copies of the position index that StateManager keeps.       *)
(*                                                                         *)
(* Each handler holds the engine's lock. The batch and ADL loops are       *)
(* unrolled: while job is not Idle nothing else but a crash happens.       *)
(* The book is reduced to a set of resting orders; the order of matching   *)
(* is the subject of OrderBook. A storage delete takes back this block's   *)
(* own write only: a deleted position reads as it was committed.           *)
(***************************************************************************)
EXTENDS Margin, FiniteSets, FiniteSetsExt

CONSTANTS
  Traders,
  Liquidators,      \* accounts that call for liquidations
  InitialBalance,
  Sizes, Prices,    \* of orders; price 0 is a market order
  Marks,            \* mark prices callers pass in, on or off the tick
  Requests,         \* amounts asked of auto_deleverage
  MaxBatch,         \* max_liquidations of a batch
  \* bounds
  MaxOrders, MaxLiquidations, MaxEntries, MaxAdl, MaxCommits, MaxCrashes,
  Idle, NoResult

Accounts == Traders \cup Liquidators

ASSUME ClearingAssumption ==
  /\ Sizes \cup Prices \cup Marks \cup Requests \subseteq Nat
  /\ {InitialBalance, MaxOrders, MaxLiquidations, MaxAdl,
      MaxCommits, MaxCrashes} \subseteq Nat
  /\ {MaxBatch, MaxEntries} \subseteq Nat \ {0}
  /\ IsFiniteSet(Traders) /\ IsFiniteSet(Liquidators)

VARIABLES
  ledger,    \* what the state holds: balances, positions, stored index
  saved,     \* the same as of the last commit
  index,     \* StateManager.position_index of this market, {} when absent
  resting,   \* orders in the book
  risk,      \* per trader, entries of the risk index below maintenance
  fund,      \* InsuranceFund
  job,       \* the batch or ADL loop that is running
  result,    \* what the last liquidation returned
  used,      \* bounds used up
  unseen     \* traders whose position StateManager neither wrote nor took back
             \* into its index since it opened: left from before, or back
             \* after a delete

vars == <<ledger, saved, index, resting, risk, fund, job, result, used, unseen>>

NoFund == [balance |-> 0, contributions |-> 0, payouts |-> 0]

Orders == [owner : Traders, buy : BOOLEAN, size : Nat, price : Nat, id : Nat]

Init ==
  /\ ledger = [bal    |-> [a \in Accounts |-> InitialBalance],
               pos    |-> [t \in Traders |-> NoPosition],
               stored |-> {}]
  /\ saved = ledger
  /\ index = {}
  /\ resting = {}
  /\ risk = [t \in Traders |-> 0]
  /\ fund = NoFund
  /\ job = Idle
  /\ result = NoResult
  /\ used = [orders |-> 0, liquidations |-> 0, adl |-> 0, commits |-> 0,
             crashes |-> 0]
  /\ unseen = {}

(***************************************************************************)
(* set_position and delete_position on a book of positions: the ledger,    *)
(* the index in memory and the unseen traders.                             *)
(***************************************************************************)
Books == [ledger |-> ledger, index |-> index, unseen |-> unseen]

\* Slip: the index is written but the trader was not added to it.
SetPositionUnlisted(b, t, p) ==
  [b EXCEPT !.ledger.pos[t] = p, !.ledger.stored = b.index,
            !.unseen = b.unseen \ {t}]

SetPosition(b, t, p) ==
  [ledger |-> [b.ledger EXCEPT !.pos[t] = p, !.stored = b.index \cup {t}],
   index  |-> b.index \cup {t},
   unseen |-> b.unseen \ {t}]

DeletePosition(b, t) ==
  LET left == b.index \ {t}
  IN  [ledger |-> [b.ledger EXCEPT
                     !.pos[t] = saved.pos[t],
                     !.stored = IF left = {} THEN saved.stored ELSE left],
       index  |-> left,
       unseen |-> IF saved.pos[t] = NoPosition THEN b.unseen \ {t}
                  ELSE b.unseen \cup {t}]

StorePosition(b, t, p) ==
  IF p = NoPosition THEN DeletePosition(b, t) ELSE SetPosition(b, t, p)

Keep(b) == /\ ledger' = b.ledger
           /\ index' = b.index
           /\ unseen' = b.unseen

\* get_position_addresses and get_all_positions_in_market
Listed == IF index # {} THEN index ELSE ledger.stored

AllPositions == {t \in Listed : ledger.pos[t].size > 0}

(***************************************************************************)
(* Orders and fills.                                                       *)
(***************************************************************************)
Crosses(m, t, buy, price) ==
  /\ m.owner # t
  /\ m.buy # buy
  /\ price = 0 \/ IF buy THEN m.price <= price ELSE m.price >= price

ProcessFill(b, taker, maker, size, price, takerBuys) ==
  LET b1 == StorePosition(b, taker,
              UpdatePosition(b.ledger.pos[taker], size, price, takerBuys))
  IN  StorePosition(b1, maker,
        UpdatePosition(b1.ledger.pos[maker], size, price, ~takerBuys))

Reduce(m, size) ==
  (resting \ {m}) \cup
    (IF size < m.size THEN {[m EXCEPT !.size = @ - size]} ELSE {})

\* place_order: rest when nothing crosses, otherwise trade at once with the
\* best order that does. What is left of a taker is cancelled (IOC).
PlaceOrder(t, buy, size, price, reduceOnly) ==
  LET makers == {m \in resting : Crosses(m, t, buy, price)}
      best   == {m \in makers : \A n \in makers :
                   IF buy THEN m.price <= n.price ELSE m.price >= n.price}
  IN
  /\ job = Idle
  /\ used.orders < MaxOrders
  /\ ValidatePrice(price)
  /\ ValidateSize(size)
  /\ CheckOrderAllowed(ledger.pos[t], ledger.bal[t], buy, size, price, reduceOnly)
  /\ \/ /\ makers = {}
        /\ price > 0
        /\ resting' = resting \cup {[owner |-> t, buy |-> buy, size |-> size,
                                     price |-> price, id |-> used.orders]}
        /\ UNCHANGED <<ledger, index, unseen>>
     \/ \E m \in best :
        /\ size <= m.size \/ makers = {m}
        /\ resting' = Reduce(m, size)
        /\ Keep(ProcessFill(Books, t, m.owner, Lesser(size, m.size), m.price, buy))
  /\ used' = [used EXCEPT !.orders = @ + 1]
  /\ result' = NoResult
  /\ UNCHANGED <<saved, risk, fund, job>>

(***************************************************************************)
(* Liquidation.                                                            *)
(***************************************************************************)
\* Slip: the payout of a depleted fund is not counted.
FundAfterUncounted(s) ==
  [balance       |-> fund.balance - s.usage + s.contribution,
   contributions |-> fund.contributions + s.contribution,
   payouts       |-> IF s.usage = fund.balance THEN fund.payouts
                     ELSE fund.payouts + s.usage]

FundAfter(s) ==
  [balance       |-> fund.balance - s.usage + s.contribution,
   contributions |-> fund.contributions + s.contribution,
   payouts       |-> fund.payouts + s.usage]

Credit(b, a, amount) == [b EXCEPT !.ledger.bal[a] = @ + amount]

CancelTraderOrders(t) == resting' = {m \in resting : m.owner # t}

LiquidationResult(t, price, s) ==
  [trader |-> t, price |-> price, size |-> s.size, fee |-> s.fee,
   reward |-> s.reward, contribution |-> s.contribution, usage |-> s.usage,
   remaining |-> s.remaining]

\* What liquidate_with_incentive does to a trader it finds liquidatable.
Settle(t, price, liquidator) ==
  LET p == ledger.pos[t]
      s == Settlement(p, price, fund.balance)
      b == StorePosition(Books, t,
             IF s.size >= p.size THEN NoPosition ELSE ShrinkPosition(p, s.size))
  IN
  /\ Keep(Credit(Credit(b, liquidator, s.reward), t, s.remaining))
  /\ CancelTraderOrders(t)
  /\ fund' = FundAfter(s)
  /\ result' = LiquidationResult(t, price, s)
  /\ used' = [used EXCEPT !.liquidations = @ + 1]

Refuse == /\ result' = NoResult
          /\ UNCHANGED <<ledger, index, unseen, resting, fund, used>>

\* Slip: a listed trader is liquidated without looking at the position again.
LiquidateUnchecked(t, mark, liquidator) ==
  LET price == NormalizePrice(mark)
  IN  IF mark > 0 /\ ledger.pos[t].size > 0 /\ price > 0
      THEN Settle(t, price, liquidator) ELSE Refuse

LiquidateWithIncentive(t, mark, liquidator) ==
  LET price == NormalizePrice(mark)
  IN  IF mark > 0 /\ ShouldLiquidate(ledger.pos[t], price)
      THEN Settle(t, price, liquidator) ELSE Refuse

Liquidate(t, mark, liquidator) ==
  /\ job = Idle
  /\ used.liquidations < MaxLiquidations
  /\ LiquidateWithIncentive(t, mark, liquidator)
  /\ UNCHANGED <<saved, risk, job>>

\* update_risk_index pushes an entry; entries at or above maintenance are
\* never asked for and are not counted here.
UpdateRiskIndex(t, mark) ==
  /\ job = Idle
  /\ ShouldLiquidate(ledger.pos[t], mark)
  /\ MapThenSumSet(LAMBDA u : risk[u], Traders) < MaxEntries
  /\ risk' = [risk EXCEPT ![t] = @ + 1]
  /\ result' = NoResult
  /\ UNCHANGED <<ledger, saved, index, resting, fund, job, used, unseen>>

RebuildRiskIndex(mark) ==
  /\ job = Idle
  /\ risk' = [t \in Traders |->
                IF t \in AllPositions /\ ShouldLiquidate(ledger.pos[t], mark)
                THEN 1 ELSE 0]
  /\ result' = NoResult
  /\ UNCHANGED <<ledger, saved, index, resting, fund, job, used, unseen>>

\* process_liquidation_batch: the entries are copied out of the heap, in the
\* heap's order, and the first max_liquidations of them are tried.
BatchStart(mark, liquidator) ==
  /\ job = Idle
  /\ \E t \in Traders : risk[t] > 0
  /\ used.liquidations + MaxBatch <= MaxLiquidations
  /\ job' = [kind |-> "batch", todo |-> risk, left |-> MaxBatch,
             mark |-> mark, liquidator |-> liquidator]
  /\ result' = NoResult
  /\ UNCHANGED <<ledger, saved, index, resting, risk, fund, used, unseen>>

\* A zero mark price is an error and ends the batch.
BatchStep ==
  /\ job # Idle
  /\ job.kind = "batch"
  /\ \E t \in Traders :
     /\ job.todo[t] > 0
     /\ LiquidateWithIncentive(t, job.mark, job.liquidator)
     /\ LET todo == [job.todo EXCEPT ![t] = @ - 1]
        IN  job' = IF \/ job.mark = 0
                      \/ job.left = 1
                      \/ \A u \in Traders : todo[u] = 0
                   THEN Idle
                   ELSE [job EXCEPT !.todo = todo, !.left = @ - 1]
  /\ UNCHANGED <<saved, risk>>

(***************************************************************************)
(* Auto-deleveraging.                                                      *)
(***************************************************************************)
AdlStart(required, mark) ==
  LET candidates == {t \in AllPositions : AdlCandidate(ledger.pos[t], mark)}
  IN
  /\ job = Idle
  /\ used.adl < MaxAdl
  /\ candidates # {}
  /\ job' = [kind |-> "adl", todo |-> candidates, collected |-> 0,
             required |-> required, mark |-> mark]
  /\ used' = [used EXCEPT !.adl = @ + 1]
  /\ result' = NoResult
  /\ UNCHANGED <<ledger, saved, index, resting, risk, fund, unseen>>

\* execute_adl
ExecuteAdl(t, size) ==
  LET p == ledger.pos[t]
  IN  StorePosition(Books, t, IF size >= p.size THEN NoPosition ELSE ShrinkPosition(p, size))

\* One turn of auto_deleverage's loop, for the candidate with the highest profit score.
AdlStep ==
  /\ job # Idle
  /\ job.kind = "adl"
  /\ job.collected < job.required
  /\ \E t \in job.todo :
     LET p    == ledger.pos[t]
         size == DeleverageSize(p.size, job.mark, job.collected, job.required)
     IN
     /\ \A u \in job.todo : ProfitScore(p, job.mark)
                              >= ProfitScore(ledger.pos[u], job.mark)
     /\ Keep(ExecuteAdl(t, size))
     /\ job' = [job EXCEPT !.todo = @ \ {t}, !.collected = @ + size * job.mark]
  /\ UNCHANGED <<saved, resting, risk, fund, result, used>>

\* Enough is collected, or there is no candidate left.
AdlDone ==
  /\ job # Idle
  /\ job.kind = "adl"
  /\ job.collected >= job.required \/ job.todo = {}
  /\ job' = Idle
  /\ UNCHANGED <<ledger, saved, index, resting, risk, fund, result, used, unseen>>

(***************************************************************************)
(* Blocks and restarts. The fund, the risk index and the position index    *)
(* live in memory only; a start does not have to rebuild the last of them. *)
(***************************************************************************)
\* rebuild_position_index takes the stored index back into memory.
RebuildPositionIndex ==
  /\ job = Idle
  /\ index # ledger.stored
  /\ index' = ledger.stored
  /\ unseen' = unseen \ ledger.stored
  /\ result' = NoResult
  /\ UNCHANGED <<ledger, saved, resting, risk, fund, job, used>>

Commit ==
  /\ job = Idle
  /\ ledger # saved
  /\ used.commits < MaxCommits
  /\ used' = [used EXCEPT !.commits = @ + 1]
  /\ saved' = ledger
  /\ result' = NoResult
  /\ UNCHANGED <<ledger, index, resting, risk, fund, job, unseen>>

Crash ==
  /\ used.crashes < MaxCrashes
  /\ used' = [used EXCEPT !.crashes = @ + 1]
  /\ ledger' = saved
  /\ unseen' = {t \in Traders : saved.pos[t] # NoPosition}
  /\ index' = {}
  /\ resting' = {}
  /\ risk' = [t \in Traders |-> 0]
  /\ fund' = NoFund
  /\ job' = Idle
  /\ result' = NoResult
  /\ UNCHANGED saved

Next ==
  \/ \E t \in Traders, buy \in BOOLEAN, size \in Sizes, price \in Prices,
        reduceOnly \in BOOLEAN : PlaceOrder(t, buy, size, price, reduceOnly)
  \/ \E t \in Traders, mark \in Marks, l \in Liquidators : Liquidate(t, mark, l)
  \/ \E t \in Traders, mark \in Marks : UpdateRiskIndex(t, mark)
  \/ \E mark \in Marks : RebuildRiskIndex(mark)
  \/ \E mark \in Marks, l \in Liquidators : BatchStart(mark, l)
  \/ BatchStep
  \/ \E required \in Requests, mark \in Marks : AdlStart(required, mark)
  \/ AdlStep
  \/ AdlDone
  \/ RebuildPositionIndex
  \/ Commit
  \/ Crash

Spec == Init /\ [][Next]_vars

-----------------------------------------------------------------------------

\* Balances, margins and the fund never go below 0 in any liquidation or ADL, and
\* a position of size 0 is never kept (u128 amounts, delete_position).
TypeOK ==
  /\ ledger.bal \in [Accounts -> Nat]
  /\ ledger.pos \in [Traders -> Positions]
  /\ \A t \in Traders : ledger.pos[t].size = 0 => ledger.pos[t] = NoPosition
  /\ {ledger.stored, index, unseen} \subseteq SUBSET Traders
  /\ resting \subseteq Orders
  /\ risk \in [Traders -> 0 .. MaxEntries]
  /\ fund \in [balance : Nat, contributions : Nat, payouts : Nat]

\* The fund holds what liquidations paid in less what it paid out, also when
\* a shortfall empties it (liquidate_with_incentive, both branches).
FundAccounted == fund.balance = fund.contributions - fund.payouts

\* However stale or duplicated the risk index is, and however the mark price
\* is rounded, a liquidation hits a position whose equity is below the
\* maintenance share of its value, leaves the other positions alone, and
\* leaves that trader no order in the book.
OnlyUnderwater ==
  [][result' # NoResult =>
       LET t == result'.trader
           p == ledger.pos[t]
       IN  /\ (p.margin + Pnl(p, result'.price)) * BASIS_POINTS
                < MaintenanceMarginBps * p.size * result'.price
           /\ \A u \in Traders \ {t} : ledger'.pos[u] = ledger.pos[u]
           /\ \A m \in resting' : m.owner # t]_vars

\* All the money in the books: balances and fund.
Held(l, f) == f.balance + MapThenSumSet(LAMBDA a : l.bal[a], Accounts)

\* One liquidation brings no more money into balances and fund than the equity of
\* the position it hits, or than its fee where that is larger: the separate
\* roundings of fee, reward and contribution never add to it.  It is the equity of
\* the whole position, because a partial liquidation pays that out as well and
\* leaves part of the margin in the position; only where the position is closed is
\* it also the equity that was closed.
PayoutBounded ==
  [][result' # NoResult =>
       LET p == ledger.pos[result'.trader]
       IN  Held(ledger', fund') - Held(ledger, fund)
             <= Greater(Equity(p, result'.price), result'.fee)]_vars

\* The risk engine and the liquidation engine decide alike, up to the unit
\* that rounding the requirement down can lose: what the first reports is
\* liquidated, and what is liquidated does not exceed the requirement.
RiskEnginesAgree ==
  \A t \in Traders, mark \in Marks :
    LET p == ledger.pos[t]
    IN  /\ CheckLiquidation(p, mark) => ShouldLiquidate(p, mark)
        /\ ShouldLiquidate(p, mark) =>
             Equity(p, mark) <= OfBps(Value(p, mark), MaintenanceMarginBps)

\* Every position that StateManager wrote, or took back with the stored index,
\* since it opened is found by the scan that rebuild_risk_index and
\* auto_deleverage rely on.
PositionsListed ==
  \A t \in Traders \ unseen : ledger.pos[t].size > 0 => t \in AllPositions

\* ADL stops in time: the value it has closed, counted after every candidate and
\* the last one too, never exceeds what was asked for.
AdlWithinRequest ==
  job # Idle => (job.kind = "adl" => job.collected <= job.required)

=============================================================================
