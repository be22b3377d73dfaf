------------------------------- MODULE Margin -------------------------------
(***************************************************************************)
(* The arithmetic of positions, margin, risk and liquidation for one       *)
(* market: position.rs, risk.rs and the calculations of liquidation.rs.    *)
(* Amounts are whole numbers and every division rounds down, as in the     *)
(* code. The results stay far below u64 and u128, so the overflow errors   *)
(* of checked arithmetic do not occur here.                                *)
(***************************************************************************)
EXTENDS Integers

CONSTANTS
  InitialMarginBps, MaintenanceMarginBps, LiquidationFeeBps,
  LiquidatorBps,        \* the liquidator's part of the fee
  MaxLeverage, TickSize, MinOrderSize, MaxOrderSize

BASIS_POINTS == 10000

\* u32::MAX, the ratio of a position without value: no risk at all. Every ratio
\* a market can ask for is a u32, so it is at most this.
Infinite == 1073741824

\* A market without a minimum order size would let an order of size 0 leave a
\* position of size 0; every market set up in the repository has one.
ASSUME MarketAssumption ==
  /\ {InitialMarginBps, MaintenanceMarginBps, LiquidationFeeBps, MaxLeverage,
      TickSize, MaxOrderSize} \subseteq Nat
  /\ MinOrderSize \in Nat \ {0}
  /\ MaintenanceMarginBps <= Infinite
  /\ LiquidatorBps \in 0 .. BASIS_POINTS

\* set_fee_split accepts only two parts that add up to the whole.
InsuranceBps == BASIS_POINTS - LiquidatorBps

MarginBufferBps == 200
MinLiquidationPct == 10

\* "No position" is a position of size 0; the code treats both alike.
NoPosition == [size |-> 0, entry |-> 0, long |-> FALSE, margin |-> 0]

Positions == [size : Nat, entry : Nat, long : BOOLEAN, margin : Nat]

Lesser(a, b) == IF a <= b THEN a ELSE b
Greater(a, b) == IF a <= b THEN b ELSE a
SatSub(a, b) == Greater(a - b, 0)
OfBps(amount, bps) == (amount * bps) \div BASIS_POINTS

ValidatePrice(price) == TickSize = 0 \/ price % TickSize = 0

ValidateSize(size) == MinOrderSize <= size /\ size <= MaxOrderSize

NormalizePrice(price) ==
  IF TickSize = 0 THEN price
  ELSE ((price + TickSize \div 2) \div TickSize) * TickSize

InitialMargin(size, price) == OfBps(size * price, InitialMarginBps)

IncreasePosition(p, size, price) ==
  [p EXCEPT !.entry  = (p.size * p.entry + size * price) \div (p.size + size),
            !.size   = p.size + size,
            !.margin = p.margin + InitialMargin(size, price)]

\* A reduction first rounds the reduced share to basis points.
ReducePosition(p, size) ==
  LET ratio == (size * BASIS_POINTS) \div p.size
  IN  [p EXCEPT !.size = p.size - size,
                !.margin = SatSub(p.margin, OfBps(p.margin, ratio))]

OpenPosition(size, price, buy) ==
  [size |-> size, entry |-> price, long |-> buy,
   margin |-> InitialMargin(size, price)]

\* update_position: the position after a fill, NoPosition when it is closed.
UpdatePosition(p, size, price, buy) ==
  CASE p = NoPosition                     -> OpenPosition(size, price, buy)
    [] p # NoPosition /\ p.long = buy     -> IncreasePosition(p, size, price)
    [] p # NoPosition /\ p.long # buy /\ size < p.size
                                          -> ReducePosition(p, size)
    [] p # NoPosition /\ p.long # buy /\ size = p.size
                                          -> NoPosition
    [] p # NoPosition /\ p.long # buy /\ size > p.size
                                          -> OpenPosition(size - p.size, price, buy)

\* Liquidation and ADL shrink a position without the rounding to basis points.
ShrinkPosition(p, size) ==
  [p EXCEPT !.size = p.size - size,
            !.margin = SatSub(p.margin, (p.margin * size) \div p.size)]

Value(p, mark) == p.size * mark

\* calculate_pnl with its sign
Pnl(p, mark) == IF p.long THEN p.size * (mark - p.entry)
                ELSE p.size * (p.entry - mark)

Equity(p, mark) == SatSub(p.margin + Pnl(p, mark), 0)

\* Slip: the ratio leaves the profit or loss out.
MarginRatioWithoutPnl(p, mark) ==
  IF p.size = 0 \/ Value(p, mark) = 0 THEN Infinite
  ELSE (p.margin * BASIS_POINTS) \div Value(p, mark)

MarginRatio(p, mark) ==
  IF p.size = 0 \/ Value(p, mark) = 0 THEN Infinite
  ELSE (Equity(p, mark) * BASIS_POINTS) \div Value(p, mark)

\* LiquidationEngine::should_liquidate compares ratios ...
ShouldLiquidate(p, mark) ==
  p.size > 0 /\ MarginRatio(p, mark) < MaintenanceMarginBps

\* ... and RiskEngine::check_liquidation compares amounts.
CheckLiquidation(p, mark) ==
  p.size > 0 /\ Equity(p, mark) < OfBps(Value(p, mark), MaintenanceMarginBps)

(***************************************************************************)
(* check_order_allowed: margin, leverage and reduce-only.                  *)
(***************************************************************************)
LockedMargin(p, buy, size) ==
  IF p.size = 0 \/ buy = p.long THEN p.margin
  ELSE LET ratio == (Lesser(size, p.size) * BASIS_POINTS) \div p.size
       IN  SatSub(p.margin, OfBps(p.margin, ratio))

LeverageAllowed(size, price, reduceOnly) ==
  \/ reduceOnly \/ price = 0
  \/ /\ InitialMargin(size, price) > 0
     /\ (size * price) \div InitialMargin(size, price) <= MaxLeverage

CheckOrderAllowed(p, balance, buy, size, price, reduceOnly) ==
  /\ SatSub(balance, LockedMargin(p, buy, size)) >= InitialMargin(size, price)
  /\ LeverageAllowed(size, price, reduceOnly)
  /\ reduceOnly => /\ p.size > 0
                   /\ buy # p.long
                   /\ size <= p.size

(***************************************************************************)
(* calculate_partial_liquidation_size, for a mark price above 0.           *)
(***************************************************************************)
PartialLiquidationSize(p, mark) ==
  LET required == OfBps(Value(p, mark), MaintenanceMarginBps + MarginBufferBps)
      raw      == ((required - Equity(p, mark)) * BASIS_POINTS)
                    \div (mark * (BASIS_POINTS + LiquidationFeeBps))
      least    == Greater(p.size \div MinLiquidationPct, MinOrderSize)
      size     == Lesser(Greater(raw, least), p.size)
  IN  CASE Equity(p, mark) >= required -> 0
        [] /\ Equity(p, mark) < required
           /\ 0 < p.size - size
           /\ p.size - size < MinOrderSize -> p.size
        [] OTHER -> size

\* The amounts a liquidation moves, against what the insurance fund holds.
\* Slip: the fund is charged the shortfall even when it holds less.
SettlementOverdrawn(p, mark, fundBalance) ==
  LET size == PartialLiquidationSize(p, mark)
      fee  == OfBps(size * mark, LiquidationFeeBps)
  IN  [size         |-> size,
       fee          |-> fee,
       reward       |-> OfBps(fee, LiquidatorBps),
       contribution |-> OfBps(fee, InsuranceBps),
       usage        |-> SatSub(fee, Equity(p, mark)),
       remaining    |-> SatSub(Equity(p, mark), fee)]

\* Slip: the trader is paid the equity before the fee.
SettlementFeeKept(p, mark, fundBalance) ==
  [SettlementOverdrawn(p, mark, fundBalance) EXCEPT
     !.usage = Lesser(@, fundBalance), !.remaining = Equity(p, mark)]

Settlement(p, mark, fundBalance) ==
  LET size == PartialLiquidationSize(p, mark)
      fee  == OfBps(size * mark, LiquidationFeeBps)
  IN  [size         |-> size,
       fee          |-> fee,
       reward       |-> OfBps(fee, LiquidatorBps),
       contribution |-> OfBps(fee, InsuranceBps),
       usage        |-> Lesser(SatSub(fee, Equity(p, mark)), fundBalance),
       remaining    |-> SatSub(Equity(p, mark), fee)]

(***************************************************************************)
(* Auto-deleveraging: who is a candidate, and in which order.              *)
(***************************************************************************)
AdlCandidate(p, mark) == p.size > 0 /\ Pnl(p, mark) >= 0

\* With no equity the leverage u128::MAX turns into -1 when it is cast.
ProfitScore(p, mark) ==
  LET leverage == IF Equity(p, mark) > 0
                  THEN (Value(p, mark) * BASIS_POINTS) \div Equity(p, mark)
                  ELSE -1
  IN  Pnl(p, mark) * leverage

\* Slip: a position worth more than is still needed is taken whole.
DeleverageSizeWhole(size, mark, collected, required) == size

DeleverageSize(size, mark, collected, required) ==
  IF collected + size * mark > required
  THEN ((required - collected) * size) \div (size * mark)
  ELSE size

=============================================================================
