--------------------------- MODULE ClearingProofs ---------------------------
(***************************************************************************)
(* Proofs about Clearing, and about the arithmetic of Margin it is built   *)
(* on: for any number of traders, any orders and mark prices, and any      *)
(* parameters of the market.                                               *)
(***************************************************************************)
EXTENDS Clearing, Sums

-----------------------------------------------------------------------------
(***************************************************************************)
(* Arithmetic.                                                             *)
(***************************************************************************)

\* Products of naturals are naturals; stated apart because the provers see it alone.
LEMMA ProductNat ==
  ASSUME NEW a \in Nat, NEW b \in Nat
  PROVE  a * b \in Nat
OBVIOUS

\* Division of a natural rounds down to a natural.
LEMMA DivNat ==
  ASSUME NEW a \in Nat, NEW b \in Nat \ {0}
  PROVE  a \div b \in Nat
OBVIOUS

\* A quotient rounded down is below c exactly when the dividend is below c times the divisor.
LEMMA DivBelow ==
  ASSUME NEW a \in Nat, NEW b \in Nat \ {0}, NEW c \in Int
  PROVE  (a \div b < c) <=> a < c * b
OBVIOUS

\* A positive factor can be cancelled.
LEMMA CancelFactor ==
  ASSUME NEW a \in Nat, NEW b \in Nat, NEW c \in Nat \ {0}, a * c <= b * c
  PROVE  a <= b
OBVIOUS

\* Rounding down loses, never gains.
LEMMA DivTimes ==
  ASSUME NEW a \in Nat, NEW b \in Nat \ {0}
  PROVE  (a \div b) * b <= a
OBVIOUS

\* saturating_sub stops at 0.
LEMMA SatSubNat ==
  ASSUME NEW a \in Int, NEW b \in Int
  PROVE  SatSub(a, b) \in Nat /\ SatSub(a, b) >= a - b
BY DEF SatSub, Greater

\* A share in basis points of an amount is a natural.
LEMMA OfBpsNat ==
  ASSUME NEW a \in Nat, NEW b \in Nat
  PROVE  OfBps(a, b) \in Nat
BY ProductNat, DivNat DEF OfBps, BASIS_POINTS

\* Two roundings down of the two parts of an amount do not exceed it.
LEMMA SplitBounded ==
  ASSUME NEW fee \in Nat
  PROVE  /\ OfBps(fee, LiquidatorBps) \in Nat
         /\ OfBps(fee, InsuranceBps) \in Nat
         /\ OfBps(fee, LiquidatorBps) + OfBps(fee, InsuranceBps) <= fee
<1>1. LiquidatorBps \in Nat /\ InsuranceBps \in Nat
      /\ LiquidatorBps + InsuranceBps = 10000
  BY MarketAssumption DEF InsuranceBps, BASIS_POINTS
<1> DEFINE a == fee * LiquidatorBps
           b == fee * InsuranceBps
<1>2. a \in Nat /\ b \in Nat
  BY <1>1, ProductNat
<1>3. a + b = 10000 * fee
  <2>1. \A x, y \in Nat : x + y = 10000 => fee * x + fee * y = 10000 * fee
    OBVIOUS
  <2> QED BY <1>1, <2>1
<1>4. OfBps(fee, LiquidatorBps) = a \div 10000
      /\ OfBps(fee, InsuranceBps) = b \div 10000
  BY DEF OfBps, BASIS_POINTS
<1> HIDE DEF a, b
<1> QED BY <1>2, <1>3, <1>4

\* Equity is the margin with profit or loss, stopped at 0.
LEMMA EquityNat ==
  ASSUME NEW p \in Positions, NEW mark \in Nat
  PROVE  /\ Pnl(p, mark) \in Int
         /\ Equity(p, mark) \in Nat
         /\ p.margin + Pnl(p, mark) <= Equity(p, mark)
         /\ Value(p, mark) \in Nat
<1>1. p.size \in Nat /\ p.entry \in Nat /\ p.margin \in Nat /\ p.long \in BOOLEAN
  BY DEF Positions
<1>2. Pnl(p, mark) \in Int
  BY <1>1 DEF Pnl
<1> QED BY <1>1, <1>2, ProductNat DEF Equity, SatSub, Greater, Value

\* should_liquidate asks for equity below the maintenance share of a value above 0.
LEMMA LiquidatableMeans ==
  ASSUME NEW p \in Positions, NEW mark \in Nat, ShouldLiquidate(p, mark)
  PROVE  /\ p.size > 0 /\ mark > 0
         /\ Value(p, mark) > 0
         /\ Equity(p, mark) * BASIS_POINTS < MaintenanceMarginBps * Value(p, mark)
<1>1. Equity(p, mark) \in Nat /\ Value(p, mark) \in Nat /\ p.size \in Nat
  BY EquityNat DEF Positions
<1>2. p.size > 0 /\ MarginRatio(p, mark) < MaintenanceMarginBps
  BY DEF ShouldLiquidate
<1>3. MaintenanceMarginBps \in Nat /\ MaintenanceMarginBps <= Infinite
  BY MarketAssumption
<1>4. Value(p, mark) # 0 /\ p.size # 0
  BY <1>1, <1>2, <1>3 DEF MarginRatio, Infinite
<1>5. mark > 0
  BY <1>4, <1>1 DEF Value
<1>6. MarginRatio(p, mark) = (Equity(p, mark) * BASIS_POINTS) \div Value(p, mark)
  BY <1>4 DEF MarginRatio
<1>7. Equity(p, mark) * BASIS_POINTS \in Nat
  BY <1>1 DEF BASIS_POINTS
<1>8. Equity(p, mark) * BASIS_POINTS < MaintenanceMarginBps * Value(p, mark)
  <2> DEFINE e == Equity(p, mark) * BASIS_POINTS
             v == Value(p, mark)
  <2>1. e \in Nat /\ v \in Nat \ {0} /\ MaintenanceMarginBps \in Int
        /\ e \div v < MaintenanceMarginBps
    BY <1>1, <1>2, <1>3, <1>4, <1>6, <1>7
  <2> HIDE DEF e, v
  <2>2. e < MaintenanceMarginBps * v
    BY <2>1, DivBelow
  <2> QED BY <2>2 DEF e, v
<1> QED BY <1>1, <1>2, <1>4, <1>5, <1>8

\* The two engines on one position.
LEMMA EnginesAgree ==
  ASSUME NEW p \in Positions, NEW mark \in Nat
  PROVE  /\ CheckLiquidation(p, mark) => ShouldLiquidate(p, mark)
         /\ ShouldLiquidate(p, mark) =>
              Equity(p, mark) <= OfBps(Value(p, mark), MaintenanceMarginBps)
<1> DEFINE e == Equity(p, mark)
           v == Value(p, mark)
           m == MaintenanceMarginBps
<1>1. e \in Nat /\ v \in Nat /\ p.size \in Nat /\ m \in Nat
  BY EquityNat, MarketAssumption DEF Positions
<1>2. v * m \in Nat /\ v * m = m * v /\ e * 10000 \in Nat
  <2> HIDE DEF e, v, m
  <2> QED BY <1>1, ProductNat
<1>3. OfBps(v, m) = (v * m) \div 10000
  BY DEF OfBps, BASIS_POINTS
<1>4. ASSUME CheckLiquidation(p, mark) PROVE ShouldLiquidate(p, mark)
  <2>1. p.size > 0 /\ e < (v * m) \div 10000
    BY <1>3, <1>4 DEF CheckLiquidation
  <2>2. e * 10000 < m * v /\ v # 0
    <3> DEFINE w == v * m
    <3>1. v = 0 => w = 0
      <4> HIDE DEF v, m
      <4> QED BY <1>1
    <3>2. w \in Nat /\ w = m * v
      BY <1>2
    <3> HIDE DEF w, e, v, m
    <3> QED BY <1>1, <2>1, <3>1, <3>2 DEF w
  <2>3. (e * 10000) \div v < m
    <3> HIDE DEF e, v, m
    <3>1. e * 10000 \in Nat /\ v \in Nat \ {0} /\ m \in Int
      BY <1>1, <1>2, <2>2
    <3> QED BY <2>2, <3>1, DivBelow
  <2> QED BY <2>1, <2>2, <2>3 DEF ShouldLiquidate, MarginRatio, BASIS_POINTS
<1>5. ASSUME ShouldLiquidate(p, mark) PROVE e <= OfBps(v, m)
  <2>1. e * 10000 < m * v
    BY <1>5, LiquidatableMeans DEF BASIS_POINTS
  <2> DEFINE w == v * m
  <2>2. w \in Nat /\ e * 10000 < w
    BY <1>2, <2>1
  <2>3. OfBps(v, m) = w \div 10000
    BY <1>3
  <2> HIDE DEF w, e, v, m
  <2> QED BY <1>1, <2>2, <2>3
<1> QED BY <1>4, <1>5

\* A fill leaves a well-formed position.
LEMMA UpdateKeepsType ==
  ASSUME NEW p \in Positions, p.size = 0 => p = NoPosition,
         NEW size \in Nat \ {0}, NEW price \in Nat, NEW buy \in BOOLEAN
  PROVE  /\ UpdatePosition(p, size, price, buy) \in Positions
         /\ UpdatePosition(p, size, price, buy).size = 0 =>
              UpdatePosition(p, size, price, buy) = NoPosition
<1>1. /\ p.size \in Nat /\ p.entry \in Nat /\ p.margin \in Nat
      /\ p.long \in BOOLEAN
      /\ p = [size |-> p.size, entry |-> p.entry, long |-> p.long,
              margin |-> p.margin]
  BY DEF Positions
<1>2. \A n \in Nat : InitialMargin(n, price) \in Nat
  BY MarketAssumption, OfBpsNat, ProductNat DEF InitialMargin
<1>3. CASE p = NoPosition
  <2>1. UpdatePosition(p, size, price, buy) = OpenPosition(size, price, buy)
    BY <1>3 DEF UpdatePosition
  <2> QED BY <1>2, <2>1 DEF OpenPosition, Positions
<1>4. CASE p # NoPosition /\ p.long = buy
  <2>1. UpdatePosition(p, size, price, buy) = IncreasePosition(p, size, price)
    BY <1>4 DEF UpdatePosition
  <2>2. (p.size * p.entry + size * price) \div (p.size + size) \in Nat
    <3>1. p.size * p.entry \in Nat /\ size * price \in Nat
      BY <1>1, ProductNat
    <3>2. p.size * p.entry + size * price \in Nat /\ p.size + size \in Nat \ {0}
      BY <1>1, <3>1
    <3> QED BY <3>2, DivNat
  <2> DEFINE e == (p.size * p.entry + size * price) \div (p.size + size)
             m == p.margin + InitialMargin(size, price)
             z == p.size + size
             r == [p EXCEPT !.entry = e, !.size = z, !.margin = m]
  <2>3. IncreasePosition(p, size, price) = r
    BY DEF IncreasePosition
  <2>4. e \in Nat /\ z \in Nat \ {0} /\ m \in Nat
    BY <1>1, <1>2, <2>2
  <2> HIDE DEF e, z, m
  <2>5. r \in Positions /\ r.size # 0
    BY <2>4 DEF Positions
  <2> HIDE DEF r
  <2> QED BY <2>1, <2>3, <2>5
<1>5. CASE p # NoPosition /\ p.long # buy /\ size < p.size
  <2>1. UpdatePosition(p, size, price, buy) = ReducePosition(p, size)
    BY <1>1, <1>5 DEF UpdatePosition
  <2> DEFINE ratio == (size * BASIS_POINTS) \div p.size
             m == SatSub(p.margin, OfBps(p.margin, ratio))
  <2>2. ratio \in Nat
    <3>1. size * BASIS_POINTS \in Nat /\ p.size \in Nat \ {0}
      BY <1>1, <1>5 DEF BASIS_POINTS
    <3> QED BY <3>1, DivNat
  <2>3. m \in Nat
    <3> HIDE DEF ratio
    <3>1. OfBps(p.margin, ratio) \in Nat
      BY <1>1, <2>2, OfBpsNat
    <3> QED BY <1>1, <3>1, SatSubNat
  <2> DEFINE z == p.size - size
             r == [p EXCEPT !.size = z, !.margin = m]
  <2>4. ReducePosition(p, size) = r
    BY DEF ReducePosition
  <2>5. z \in Nat \ {0}
    BY <1>1, <1>5
  <2> HIDE DEF m, z
  <2>6. r \in Positions /\ r.size # 0
    BY <2>3, <2>5 DEF Positions
  <2> HIDE DEF r
  <2> QED BY <2>1, <2>4, <2>6
<1>6. CASE p # NoPosition /\ p.long # buy /\ size = p.size
  <2>1. UpdatePosition(p, size, price, buy) = NoPosition
    BY <1>1, <1>6 DEF UpdatePosition
  <2> QED BY <2>1 DEF NoPosition, Positions
<1>7. CASE p # NoPosition /\ p.long # buy /\ size > p.size
  <2>1. UpdatePosition(p, size, price, buy) = OpenPosition(size - p.size, price, buy)
    BY <1>1, <1>7 DEF UpdatePosition
  <2>2. size - p.size \in Nat \ {0}
    BY <1>1, <1>7
  <2> QED BY <1>2, <2>1, <2>2 DEF OpenPosition, Positions
<1> QED BY <1>1, <1>3, <1>4, <1>5, <1>6, <1>7

\* A partial liquidation leaves a well-formed position with something left of it.
LEMMA ShrinkKeepsType ==
  ASSUME NEW p \in Positions, NEW size \in Nat, size < p.size
  PROVE  ShrinkPosition(p, size) \in Positions /\ ShrinkPosition(p, size).size > 0
<1>1. /\ p.size \in Nat \ {0} /\ p.entry \in Nat /\ p.margin \in Nat
      /\ p.long \in BOOLEAN
  BY DEF Positions
<1> DEFINE m == SatSub(p.margin, (p.margin * size) \div p.size)
<1>2. m \in Nat
  <2>1. p.margin * size \in Nat
    BY <1>1, ProductNat
  <2> DEFINE x == (p.margin * size) \div p.size
  <2>2. x \in Nat
    BY <1>1, <2>1, DivNat
  <2> HIDE DEF x
  <2>3. SatSub(p.margin, x) \in Nat
    BY <1>1, <2>2 DEF SatSub, Greater
  <2> QED BY <2>3 DEF x
<1> DEFINE z == p.size - size
           r == [p EXCEPT !.size = z, !.margin = m]
<1>3. ShrinkPosition(p, size) = r
  BY DEF ShrinkPosition
<1>4. z \in Nat \ {0}
  BY <1>1
<1> HIDE DEF m, z
<1>5. r \in Positions /\ r.size # 0
  BY <1>1, <1>2, <1>4 DEF Positions
<1> HIDE DEF r
<1>6. r.size \in Nat
  BY <1>5 DEF Positions
<1> QED BY <1>3, <1>5, <1>6

\* A price rounded to the tick is a natural.
LEMMA NormalizeNat ==
  ASSUME NEW mark \in Nat
  PROVE  NormalizePrice(mark) \in Nat
<1>1. TickSize \in Nat
  BY MarketAssumption
<1>2. CASE TickSize # 0
  <2>1. mark + TickSize \div 2 \in Nat /\ TickSize \in Nat \ {0}
    BY <1>1, <1>2
  <2>2. (mark + TickSize \div 2) \div TickSize \in Nat
    BY <2>1, DivNat
  <2> QED BY <1>2, <2>1, <2>2, ProductNat DEF NormalizePrice
<1> QED BY <1>2 DEF NormalizePrice

\* A liquidation closes at most the position, and what it pays out.
LEMMA PartialSize ==
  ASSUME NEW p \in Positions, NEW mark \in Nat \ {0}
  PROVE  PartialLiquidationSize(p, mark) \in 0 .. p.size
<1> DEFINE bps      == MaintenanceMarginBps + MarginBufferBps
           required == OfBps(Value(p, mark), bps)
           gap      == (required - Equity(p, mark)) * BASIS_POINTS
           unit     == mark * (BASIS_POINTS + LiquidationFeeBps)
           least    == Greater(p.size \div MinLiquidationPct, MinOrderSize)
           size     == Lesser(Greater(gap \div unit, least), p.size)
<1>1. /\ p.size \in Nat /\ Equity(p, mark) \in Nat /\ Value(p, mark) \in Nat
      /\ MinOrderSize \in Nat /\ LiquidationFeeBps \in Nat
      /\ MaintenanceMarginBps \in Nat
  BY EquityNat, MarketAssumption DEF Positions
<1>2. required \in Nat
  <2>1. bps \in Nat
    BY <1>1 DEF MarginBufferBps
  <2> QED BY <1>1, <2>1, OfBpsNat
<1>3. unit \in Nat \ {0}
  <2>1. BASIS_POINTS + LiquidationFeeBps \in Nat \ {0}
    BY <1>1 DEF BASIS_POINTS
  <2> HIDE DEF BASIS_POINTS
  <2>2. \A x, y \in Nat \ {0} : x * y \in Nat \ {0}
    OBVIOUS
  <2> QED BY <2>1, <2>2
<1>4. least \in Nat
  BY <1>1 DEF Greater, MinLiquidationPct
<1>5. ASSUME Equity(p, mark) < required PROVE size \in 0 .. p.size
  <2> HIDE DEF required, unit, least
  <2>1. gap \in Nat
    BY <1>1, <1>2, <1>5 DEF BASIS_POINTS
  <2> HIDE DEF gap
  <2>2. gap \div unit \in Nat
    BY <1>3, <2>1, DivNat
  <2> QED BY <1>1, <1>4, <2>2 DEF Greater, Lesser
<1>6. PartialLiquidationSize(p, mark) =
        CASE Equity(p, mark) >= required -> 0
          [] /\ Equity(p, mark) < required
             /\ 0 < p.size - size
             /\ p.size - size < MinOrderSize -> p.size
          [] OTHER -> size
  BY DEF PartialLiquidationSize
<1> HIDE DEF required, size
<1> QED BY <1>1, <1>2, <1>5, <1>6

\* The amounts of a settlement: what each party gets, and from where.
LEMMA SettlementAmounts ==
  ASSUME NEW p \in Positions, NEW mark \in Nat \ {0}, NEW held \in Nat,
         NEW s, s = Settlement(p, mark, held)
  PROVE  /\ s.size \in 0 .. p.size
         /\ {s.fee, s.reward, s.contribution, s.usage, s.remaining} \subseteq Nat
         /\ s.usage <= held
         /\ s.reward + s.contribution <= s.fee
         /\ s.remaining = SatSub(Equity(p, mark), s.fee)
<1> DEFINE size == PartialLiquidationSize(p, mark)
           fee  == OfBps(size * mark, LiquidationFeeBps)
<1>1. size \in 0 .. p.size /\ p.size \in Nat
  BY PartialSize DEF Positions
<1>2. fee \in Nat
  <2>1. size * mark \in Nat /\ LiquidationFeeBps \in Nat
    BY <1>1, ProductNat, MarketAssumption
  <2> QED BY <2>1, OfBpsNat
<1>3. Equity(p, mark) \in Nat
  BY EquityNat
<1>4. /\ s.size = size /\ s.fee = fee /\ s.reward = OfBps(fee, LiquidatorBps)
      /\ s.contribution = OfBps(fee, InsuranceBps)
      /\ s.usage = Lesser(SatSub(fee, Equity(p, mark)), held)
      /\ s.remaining = SatSub(Equity(p, mark), fee)
  BY DEF Settlement
<1> HIDE DEF size, fee
<1>5. /\ SatSub(fee, Equity(p, mark)) \in Nat
      /\ SatSub(Equity(p, mark), fee) \in Nat
  <2> DEFINE e == Equity(p, mark)
  <2> HIDE DEF e
  <2>1. e \in Nat
    BY <1>3 DEF e
  <2>2. SatSub(fee, e) \in Nat /\ SatSub(e, fee) \in Nat
    BY <1>2, <2>1 DEF SatSub, Greater
  <2> QED BY <2>2 DEF e
<1>6. s.usage \in Nat /\ s.usage <= held
  BY <1>4, <1>5 DEF Lesser
<1> QED BY <1>1, <1>2, <1>4, <1>5, <1>6, SplitBounded

\* What ADL takes from a position is worth no more than is still needed.
LEMMA DeleverageBounded ==
  ASSUME NEW size \in Nat, NEW mark \in Nat, NEW collected \in Nat,
         NEW required \in Nat, collected <= required
  PROVE  /\ DeleverageSize(size, mark, collected, required) \in Nat
         /\ collected + DeleverageSize(size, mark, collected, required) * mark
              <= required
<1> DEFINE d == DeleverageSize(size, mark, collected, required)
           value == size * mark
           need == required - collected
<1>1. value \in Nat /\ need \in Nat
  BY ProductNat
<1>2. CASE collected + value > required
  <2>1. d = (need * size) \div value
    BY <1>2 DEF DeleverageSize
  <2>2. value \in Nat \ {0} /\ size \in Nat \ {0}
    <3>1. value > 0
      <4> HIDE DEF value
      <4> QED BY <1>1, <1>2
    <3> QED BY <3>1
  <2>3. need * size \in Nat
    BY <1>1, ProductNat
  <2>4. d \in Nat /\ d * value <= need * size
    <3> HIDE DEF d, value, need
    <3> DEFINE n == need * size
    <3>1. n \in Nat /\ value \in Nat \ {0} /\ d = n \div value
      BY <2>1, <2>2, <2>3
    <3> HIDE DEF n
    <3>2. d \in Nat /\ d * value <= n
      BY <3>1, DivNat, DivTimes
    <3> QED BY <3>2 DEF n
  <2>5. d * value = (d * mark) * size
    <3>1. \A x, y, z \in Nat : x * (y * z) = (x * z) * y
      OBVIOUS
    <3> HIDE DEF d
    <3> QED BY <2>4, <3>1
  <2>6. d * mark \in Nat
    BY <2>4, ProductNat
  <2>7. d * mark <= need
    <3> DEFINE x == d * mark
    <3>1. x \in Nat /\ need \in Nat /\ size \in Nat \ {0} /\ x * size <= need * size
      BY <1>1, <2>2, <2>4, <2>5, <2>6
    <3> HIDE DEF x, need
    <3>2. x <= need
      BY <3>1, CancelFactor
    <3> QED BY <3>2 DEF x
  <2>8. d \in Nat /\ collected + d * mark <= required
    <3> HIDE DEF d
    <3> QED BY <2>4, <2>6, <2>7
  <2> QED BY <2>8
<1>3. CASE ~(collected + value > required)
  <2>1. d = size
    BY <1>3 DEF DeleverageSize
  <2>2. size \in Nat /\ collected + size * mark <= required
    BY <1>1, <1>3
  <2> QED BY <2>1, <2>2
<1> QED BY <1>2, <1>3

-----------------------------------------------------------------------------
(***************************************************************************)
(* The inductive invariant. A position that was deleted comes back as it   *)
(* was committed and a crash goes back to the committed state, so that     *)
(* state has the type too. The scan finds a position through the index in  *)
(* memory or the stored one: the two are equal unless the first is empty.  *)
(* While ADL runs no liquidation has just happened.                        *)
(***************************************************************************)

LedgerOK(l) ==
  /\ l \in [bal : [Accounts -> Nat], pos : [Traders -> Positions],
            stored : SUBSET Traders]
  /\ \A t \in Traders : l.pos[t].size = 0 => l.pos[t] = NoPosition

BooksOK(b) ==
  /\ b = [ledger |-> b.ledger, index |-> b.index, unseen |-> b.unseen]
  /\ LedgerOK(b.ledger)
  /\ b.index \in SUBSET Traders
  /\ b.unseen \in SUBSET Traders
  /\ \A t \in Traders \ b.unseen : b.ledger.pos[t].size > 0 => t \in b.index
  /\ b.index # {} => b.ledger.stored = b.index

BatchJobs == [kind : {"batch"}, todo : [Traders -> Nat], left : Nat \ {0},
              mark : Nat, liquidator : Liquidators]

AdlJobs == [kind : {"adl"}, todo : SUBSET Traders, collected : Nat,
            required : Nat, mark : Nat]

JobOK ==
  \/ job = Idle
  \/ job \in BatchJobs
  \/ job \in AdlJobs /\ job.collected <= job.required /\ result = NoResult

RestingOK == resting \subseteq {m \in Orders : m.size > 0}

UsedOK == used \in [orders : Nat, liquidations : Nat, adl : Nat, commits : Nat,
                    crashes : Nat]

FundOK == /\ fund \in [balance : Nat, contributions : Nat, payouts : Nat]
          /\ FundAccounted

RiskOK == risk \in [Traders -> 0 .. MaxEntries]

Inv ==
  /\ BooksOK(Books)
  /\ LedgerOK(saved)
  /\ RestingOK
  /\ RiskOK
  /\ FundOK
  /\ JobOK
  /\ UsedOK

\* Writing one position and the stored index of a ledger.
Written(l, t, p, ix) == [l EXCEPT !.pos[t] = p, !.stored = ix]

\* Writing one position keeps a ledger well formed and the others as they are.
LEMMA WriteLedger ==
  ASSUME NEW l, LedgerOK(l), NEW t \in Traders, NEW p \in Positions,
         p.size = 0 => p = NoPosition, NEW ix \in SUBSET Traders,
         NEW n, n = Written(l, t, p, ix)
  PROVE  /\ LedgerOK(n)
         /\ n.bal = l.bal
         /\ n.stored = ix
         /\ n.pos[t] = p
         /\ \A u \in Traders \ {t} : n.pos[u] = l.pos[u]
<1>1. l \in [bal : [Accounts -> Nat], pos : [Traders -> Positions],
             stored : SUBSET Traders]
  BY DEF LedgerOK
<1>2. n.bal = l.bal /\ n.stored = ix /\ n.pos = [l.pos EXCEPT ![t] = p]
  BY <1>1 DEF Written
<1>3. n.pos \in [Traders -> Positions]
  BY <1>1, <1>2
<1>4. n \in [bal : [Accounts -> Nat], pos : [Traders -> Positions],
             stored : SUBSET Traders]
  BY <1>1 DEF Written
<1>5. n.pos[t] = p /\ \A u \in Traders \ {t} : n.pos[u] = l.pos[u]
  BY <1>1, <1>2
<1>6. \A u \in Traders : n.pos[u].size = 0 => n.pos[u] = NoPosition
  BY <1>5 DEF LedgerOK
<1> QED BY <1>2, <1>4, <1>5, <1>6 DEF LedgerOK

\* set_position and delete_position keep the index right, and touch only the
\* position they are about.
LEMMA StoreKeepsBooks ==
  ASSUME NEW b, BooksOK(b), LedgerOK(saved), NEW t \in Traders,
         NEW p \in Positions, p.size = 0 => p = NoPosition
  PROVE  /\ BooksOK(StorePosition(b, t, p))
         /\ StorePosition(b, t, p).ledger.bal = b.ledger.bal
         /\ \A u \in Traders \ {t} :
              StorePosition(b, t, p).ledger.pos[u] = b.ledger.pos[u]
<1> DEFINE n == StorePosition(b, t, p)
<1>1. /\ LedgerOK(b.ledger) /\ b.index \in SUBSET Traders
      /\ b.unseen \in SUBSET Traders
      /\ \A u \in Traders \ b.unseen : b.ledger.pos[u].size > 0 => u \in b.index
  BY DEF BooksOK
<1>2. CASE p # NoPosition
  <2>1. n = SetPosition(b, t, p)
    BY <1>2 DEF StorePosition
  <2> HIDE DEF n
  <2>2. /\ n.index = b.index \cup {t} /\ n.unseen = b.unseen \ {t}
        /\ n = [ledger |-> n.ledger, index |-> n.index, unseen |-> n.unseen]
    BY <2>1 DEF SetPosition
  <2>3. n.ledger = Written(b.ledger, t, p, b.index \cup {t})
    BY <2>1 DEF SetPosition, Written
  <2>4. b.index \cup {t} \in SUBSET Traders
    BY <1>1
  <2>5. /\ LedgerOK(n.ledger) /\ n.ledger.bal = b.ledger.bal
        /\ n.ledger.stored = b.index \cup {t}
        /\ \A u \in Traders \ {t} : n.ledger.pos[u] = b.ledger.pos[u]
    BY ONLY <1>1, <2>3, <2>4, WriteLedger, t \in Traders, p \in Positions,
            p.size = 0 => p = NoPosition
  <2>6. \A u \in Traders \ n.unseen : n.ledger.pos[u].size > 0 => u \in n.index
    BY ONLY <1>1, <2>2, <2>5
  <2>7. BooksOK(n)
    BY <1>1, <2>2, <2>4, <2>5, <2>6 DEF BooksOK
  <2> QED BY <2>5, <2>7 DEF n
<1>3. CASE p = NoPosition
  <2> DEFINE left == b.index \ {t}
             ix   == IF left = {} THEN saved.stored ELSE left
             old  == saved.pos[t]
  <2>1. n = DeletePosition(b, t)
    BY <1>3 DEF StorePosition
  <2>2. /\ old \in Positions /\ (old.size = 0 => old = NoPosition)
        /\ ix \in SUBSET Traders
    BY <1>1 DEF LedgerOK
  <2> HIDE DEF n
  <2>3. /\ n.index = left
        /\ n.unseen = IF old = NoPosition THEN b.unseen \ {t}
                      ELSE b.unseen \cup {t}
        /\ n = [ledger |-> n.ledger, index |-> n.index, unseen |-> n.unseen]
    BY <2>1 DEF DeletePosition
  <2>4. n.ledger = Written(b.ledger, t, old, ix)
    BY <2>1 DEF DeletePosition, Written
  <2> HIDE DEF ix, old
  <2>5. /\ LedgerOK(n.ledger) /\ n.ledger.bal = b.ledger.bal
        /\ n.ledger.stored = ix
        /\ n.ledger.pos[t] = old
        /\ \A u \in Traders \ {t} : n.ledger.pos[u] = b.ledger.pos[u]
    BY ONLY <1>1, <2>2, <2>4, WriteLedger, t \in Traders
  <2>6. n.index # {} => n.ledger.stored = n.index
    BY <2>3, <2>5 DEF ix
  <2>7. \A u \in Traders \ n.unseen : n.ledger.pos[u].size > 0 => u \in n.index
    <3> SUFFICES ASSUME NEW u \in Traders \ n.unseen, n.ledger.pos[u].size > 0
                 PROVE  u \in n.index
      OBVIOUS
    <3>1. CASE u = t
      <4>1. old = NoPosition
        BY <2>3, <3>1
      <4>2. n.ledger.pos[u].size = 0
        BY <2>5, <3>1, <4>1 DEF NoPosition
      <4> QED BY <4>2
    <3>2. CASE u # t
      BY <1>1, <2>3, <2>5, <3>2
    <3> QED BY <3>1, <3>2
  <2>8. n.index \in SUBSET Traders /\ n.unseen \in SUBSET Traders
    BY <1>1, <2>3
  <2>9. BooksOK(n)
    BY ONLY <2>3, <2>5, <2>6, <2>7, <2>8 DEF BooksOK
  <2> QED BY <2>5, <2>9 DEF n
<1> QED BY <1>2, <1>3

\* A credit changes one balance.
LEMMA CreditKeepsBooks ==
  ASSUME NEW b, BooksOK(b), NEW a \in Accounts, NEW amount \in Nat
  PROVE  /\ BooksOK(Credit(b, a, amount))
         /\ Credit(b, a, amount).ledger.pos = b.ledger.pos
         /\ Credit(b, a, amount).ledger.bal[a] = b.ledger.bal[a] + amount
         /\ \A c \in Accounts \ {a} :
              Credit(b, a, amount).ledger.bal[c] = b.ledger.bal[c]
<1> DEFINE n == Credit(b, a, amount)
           l == b.ledger
<1>1. /\ b = [ledger |-> b.ledger, index |-> b.index, unseen |-> b.unseen]
      /\ LedgerOK(l)
  BY DEF BooksOK
<1>2. l \in [bal : [Accounts -> Nat], pos : [Traders -> Positions],
             stored : SUBSET Traders]
  BY <1>1 DEF LedgerOK
<1>3. n = [b EXCEPT !.ledger.bal[a] = @ + amount]
  BY DEF Credit
<1> HIDE DEF n
<1>4. /\ n = [ledger |-> n.ledger, index |-> n.index, unseen |-> n.unseen]
      /\ n.index = b.index /\ n.unseen = b.unseen
      /\ n.ledger = [l EXCEPT !.bal[a] = @ + amount]
  <2> HIDE DEF l
  <2>1. b = [ledger |-> l, index |-> b.index, unseen |-> b.unseen]
    BY <1>1 DEF l
  <2> QED BY <1>3, <2>1
<1> HIDE DEF l
<1>5. /\ n.ledger.pos = l.pos /\ n.ledger.stored = l.stored
      /\ n.ledger.bal = [l.bal EXCEPT ![a] = @ + amount]
      /\ l.bal \in [Accounts -> Nat]
  BY <1>2, <1>4
<1>6. n.ledger.bal \in [Accounts -> Nat]
  BY <1>5
<1>7. LedgerOK(n.ledger)
  <2>1. n.ledger \in [bal : [Accounts -> Nat], pos : [Traders -> Positions],
                      stored : SUBSET Traders]
    BY <1>2, <1>4
  <2>2. \A t \in Traders : n.ledger.pos[t].size = 0 => n.ledger.pos[t] = NoPosition
    BY <1>1, <1>5 DEF LedgerOK
  <2> QED BY <2>1, <2>2 DEF LedgerOK
<1>8. BooksOK(n)
  <2>1. /\ b.index \in SUBSET Traders /\ b.unseen \in SUBSET Traders
        /\ \A t \in Traders \ b.unseen : l.pos[t].size > 0 => t \in b.index
        /\ b.index # {} => l.stored = b.index
    BY DEF BooksOK, l
  <2>2. /\ \A t \in Traders \ n.unseen : n.ledger.pos[t].size > 0 => t \in n.index
        /\ n.index # {} => n.ledger.stored = n.index
        /\ n.index \in SUBSET Traders /\ n.unseen \in SUBSET Traders
    BY ONLY <1>4, <1>5, <2>1
  <2> QED BY ONLY <1>4, <1>7, <2>2 DEF BooksOK
<1>9. /\ n.ledger.bal[a] = l.bal[a] + amount
      /\ \A c \in Accounts \ {a} : n.ledger.bal[c] = l.bal[c]
  BY <1>5
<1> QED BY <1>5, <1>8, <1>9 DEF n, l

\* What a step keeps, is what the state then holds.
LEMMA KeptBooks ==
  ASSUME NEW b, BooksOK(b), Keep(b)
  PROVE  Books' = b /\ BooksOK(Books)'
<1>1. b = [ledger |-> b.ledger, index |-> b.index, unseen |-> b.unseen]
  BY DEF BooksOK
<1>2. Books' = b
  BY <1>1 DEF Keep, Books
<1> QED BY <1>2 DEF BooksOK

\* A fill, with its margin taken from the balance or returned to it.
LEMMA FillKeepsBooks ==
  ASSUME NEW b, BooksOK(b), LedgerOK(saved), NEW taker \in Traders,
         NEW maker \in Traders, NEW size \in Nat \ {0}, NEW price \in Nat,
         NEW takerBuys \in BOOLEAN
  PROVE  BooksOK(ProcessFill(b, taker, maker, size, price, takerBuys))
<1> DEFINE p1 == UpdatePosition(b.ledger.pos[taker], size, price, takerBuys)
           b1 == StorePosition(b, taker, p1)
           p2 == UpdatePosition(b1.ledger.pos[maker], size, price, ~takerBuys)
<1>1. \A c : BooksOK(c) => \A u \in Traders :
        c.ledger.pos[u] \in Positions
        /\ (c.ledger.pos[u].size = 0 => c.ledger.pos[u] = NoPosition)
  BY DEF BooksOK, LedgerOK
<1>2. p1 \in Positions /\ (p1.size = 0 => p1 = NoPosition)
  BY <1>1, UpdateKeepsType
<1> HIDE DEF p1
<1>3. BooksOK(b1)
  BY <1>2, StoreKeepsBooks
<1> HIDE DEF b1
<1>4. (~takerBuys) \in BOOLEAN
  OBVIOUS
<1>5. p2 \in Positions /\ (p2.size = 0 => p2 = NoPosition)
  BY <1>1, <1>3, <1>4, UpdateKeepsType
<1> HIDE DEF p2
<1>6. BooksOK(StorePosition(b1, maker, p2))
  BY <1>3, <1>5, StoreKeepsBooks
<1> QED BY <1>6 DEF ProcessFill, p1, b1, p2

-----------------------------------------------------------------------------
(***************************************************************************)
(* What one liquidation does.                                              *)
(***************************************************************************)

\* What accounts hold, as a sum the lemmas of Sums speak about.
LEMMA HeldIsSum ==
  ASSUME NEW l, NEW f
  PROVE  Held(l, f) = f.balance + SumOver(l.bal, Accounts)
BY DEF Held, SumOver

\* The accounts that hold money are finitely many.
LEMMA AccountsFinite == IsFiniteSet(Accounts)
BY ClearingAssumption, FS_Union DEF Accounts

\* Two credits add what they pay to the sum of the balances.
LEMMA CreditsAdd ==
  ASSUME NEW b, BooksOK(b), NEW l \in Accounts, NEW t \in Accounts,
         NEW x \in Nat, NEW y \in Nat,
         NEW n, n = Credit(Credit(b, l, x), t, y)
  PROVE  /\ BooksOK(n) /\ n.ledger.pos = b.ledger.pos
         /\ SumOver(n.ledger.bal, Accounts) =
              SumOver(b.ledger.bal, Accounts) + x + y
         /\ SumOver(b.ledger.bal, Accounts) \in Int
<1> DEFINE c == Credit(b, l, x)
<1>1. /\ BooksOK(c) /\ c.ledger.pos = b.ledger.pos
      /\ c.ledger.bal[l] = b.ledger.bal[l] + x
      /\ \A a \in Accounts \ {l} : c.ledger.bal[a] = b.ledger.bal[a]
  BY CreditKeepsBooks
<1> HIDE DEF c
<1>2. n = Credit(c, t, y)
  BY DEF c
<1>3. /\ BooksOK(n) /\ n.ledger.pos = c.ledger.pos
      /\ n.ledger.bal[t] = c.ledger.bal[t] + y
      /\ \A a \in Accounts \ {t} : n.ledger.bal[a] = c.ledger.bal[a]
  BY ONLY <1>1, <1>2, CreditKeepsBooks, t \in Accounts, y \in Nat
<1>4. \A a \in Accounts : /\ b.ledger.bal[a] \in Int /\ c.ledger.bal[a] \in Int
                          /\ n.ledger.bal[a] \in Int
  BY <1>1, <1>3 DEF BooksOK, LedgerOK
<1> DEFINE f == b.ledger.bal
           g == c.ledger.bal
           h == n.ledger.bal
<1>5. SumOver(g, Accounts) = SumOver(f, Accounts) + g[l] - f[l]
  <2>1. /\ \A a \in Accounts : f[a] \in Int /\ g[a] \in Int
        /\ \A a \in Accounts \ {l} : f[a] = g[a]
    BY <1>1, <1>4
  <2> HIDE DEF f, g
  <2> QED BY ONLY <2>1, AccountsFinite, SumChange, l \in Accounts
<1>6. SumOver(h, Accounts) = SumOver(g, Accounts) + h[t] - g[t]
  <2>1. /\ \A a \in Accounts : g[a] \in Int /\ h[a] \in Int
        /\ \A a \in Accounts \ {t} : g[a] = h[a]
    BY <1>3, <1>4
  <2> HIDE DEF g, h
  <2> QED BY ONLY <2>1, AccountsFinite, SumChange, t \in Accounts
<1>7. SumOver(b.ledger.bal, Accounts) \in Int
      /\ SumOver(c.ledger.bal, Accounts) \in Int
  BY <1>4, AccountsFinite, SumRemove
<1>8. b.ledger.bal[l] \in Int /\ c.ledger.bal[t] \in Int
  BY <1>4
<1> QED BY <1>1, <1>3, <1>5, <1>6, <1>7, <1>8

\* What a settlement does to balances, fund and counters.
LEMMA SettleEffect ==
  ASSUME Inv, NEW t \in Traders, NEW price \in Nat, NEW liquidator \in Liquidators,
         ShouldLiquidate(ledger.pos[t], price), Settle(t, price, liquidator)
  PROVE  /\ BooksOK(Books)' /\ RestingOK' /\ FundOK' /\ UsedOK'
         /\ result'.trader = t /\ result'.price = price
         /\ \A u \in Traders \ {t} : ledger'.pos[u] = ledger.pos[u]
         /\ \A m \in resting' : m.owner # t
         /\ Held(ledger', fund') - Held(ledger, fund) <= Greater(Equity(ledger.pos[t], price), result'.fee)
<1> DEFINE p == ledger.pos[t]
           s == Settlement(p, price, fund.balance)
           q == IF s.size >= p.size THEN NoPosition ELSE ShrinkPosition(p, s.size)
           b == StorePosition(Books, t, q)
           n == Credit(Credit(b, liquidator, s.reward), t, s.remaining)
<1>1. /\ BooksOK(Books) /\ LedgerOK(saved) /\ RestingOK /\ FundOK /\ UsedOK
  BY DEF Inv
<1>2. /\ p \in Positions /\ p.size \in Nat
      /\ Books.ledger = ledger
  BY <1>1 DEF Books, BooksOK, LedgerOK, Positions
<1>3. price \in Nat \ {0}
  BY <1>2, LiquidatableMeans
<1>4. /\ Keep(n) /\ fund' = FundAfter(s)
      /\ result' = LiquidationResult(t, price, s)
      /\ used' = [used EXCEPT !.liquidations = @ + 1]
      /\ resting' = {m \in resting : m.owner # t}
  BY DEF Settle, CancelTraderOrders
<1>5. result'.trader = t /\ result'.price = price /\ result'.fee = s.fee
  BY <1>4 DEF LiquidationResult
<1>6. fund.balance \in Nat /\ fund.contributions \in Nat /\ fund.payouts \in Nat
      /\ fund.balance = fund.contributions - fund.payouts
  BY <1>1 DEF FundOK, FundAccounted
<1> HIDE DEF p
<1>7. /\ s.size \in 0 .. p.size
      /\ {s.fee, s.reward, s.contribution, s.usage, s.remaining} \subseteq Nat
      /\ s.usage <= fund.balance
      /\ s.reward + s.contribution <= s.fee
      /\ s.remaining = SatSub(Equity(p, price), s.fee)
  BY <1>2, <1>3, <1>6, SettlementAmounts
<1> HIDE DEF s
<1>8. q \in Positions /\ (q.size = 0 => q = NoPosition)
  <2>1. CASE s.size >= p.size
    BY <2>1 DEF NoPosition, Positions
  <2>2. CASE ~(s.size >= p.size)
    <3>1. s.size \in Nat /\ s.size < p.size
      BY <1>2, <1>7, <2>2
    <3>2. ShrinkPosition(p, s.size) \in Positions /\ ShrinkPosition(p, s.size).size > 0
      BY <1>2, <3>1, ShrinkKeepsType
    <3>3. q = ShrinkPosition(p, s.size)
      BY <2>2
    <3> HIDE DEF q
    <3> QED BY <3>2, <3>3
  <2> QED BY <2>1, <2>2
<1> HIDE DEF q
<1>9. /\ BooksOK(b) /\ b.ledger.bal = ledger.bal
      /\ \A u \in Traders \ {t} : b.ledger.pos[u] = ledger.pos[u]
  <2>1. /\ BooksOK(b) /\ b.ledger.bal = Books.ledger.bal
        /\ \A u \in Traders \ {t} : b.ledger.pos[u] = Books.ledger.pos[u]
    BY ONLY <1>1, <1>8, StoreKeepsBooks, t \in Traders
  <2> QED BY <1>2, <2>1
<1> HIDE DEF b
<1>10. s.reward \in Nat /\ s.remaining \in Nat /\ liquidator \in Accounts
       /\ t \in Accounts
  BY <1>7 DEF Accounts
<1>11. /\ BooksOK(n) /\ n.ledger.pos = b.ledger.pos
       /\ SumOver(n.ledger.bal, Accounts) =
            SumOver(ledger.bal, Accounts) + s.reward + s.remaining
       /\ SumOver(ledger.bal, Accounts) \in Int
  <2>1. /\ BooksOK(n) /\ n.ledger.pos = b.ledger.pos
        /\ SumOver(n.ledger.bal, Accounts) =
             SumOver(b.ledger.bal, Accounts) + s.reward + s.remaining
        /\ SumOver(b.ledger.bal, Accounts) \in Int
    BY ONLY <1>9, <1>10, CreditsAdd
  <2> QED BY ONLY <1>9, <2>1
<1> HIDE DEF n
<1>12. BooksOK(Books)' /\ ledger' = n.ledger
  BY <1>4, <1>11, KeptBooks DEF Keep
<1>13. RestingOK'
  BY <1>1, <1>4 DEF RestingOK
<1>14. /\ fund'.balance = fund.balance - s.usage + s.contribution
       /\ fund' \in [balance : Nat, contributions : Nat, payouts : Nat]
       /\ fund'.balance = fund'.contributions - fund'.payouts
  BY <1>4, <1>6, <1>7 DEF FundAfter
<1>15. UsedOK'
  BY <1>1, <1>4 DEF UsedOK
<1>16. Held(ledger', fund') - Held(ledger, fund) <= Greater(Equity(p, price), s.fee)
  <2>1. /\ Held(ledger', fund') = fund'.balance + SumOver(n.ledger.bal, Accounts)
        /\ Held(ledger, fund) = fund.balance + SumOver(ledger.bal, Accounts)
    BY <1>12, HeldIsSum
  <2>2. Held(ledger', fund') - Held(ledger, fund) = s.contribution - s.usage + s.reward + s.remaining
    BY <1>6, <1>7, <1>11, <1>14, <2>1
  <2>3. Equity(p, price) \in Nat
    BY <1>2, EquityNat
  <2> QED BY <1>7, <2>2, <2>3 DEF SatSub, Greater
<1> QED BY <1>4, <1>5, <1>9, <1>11, <1>12, <1>13, <1>14, <1>15, <1>16
        DEF FundOK, FundAccounted, p

\* A liquidation that goes through keeps positions, index and fund in order.
LEMMA LiquidateKeeps ==
  ASSUME Inv, NEW t \in Traders, NEW mark \in Nat, NEW liquidator \in Liquidators,
         LiquidateWithIncentive(t, mark, liquidator)
  PROVE  BooksOK(Books)' /\ RestingOK' /\ FundOK' /\ UsedOK'
<1> DEFINE price == NormalizePrice(mark)
<1>1. price \in Nat
  BY NormalizeNat
<1>2. CASE mark > 0 /\ ShouldLiquidate(ledger.pos[t], price)
  <2>1. Settle(t, price, liquidator)
    BY <1>2 DEF LiquidateWithIncentive
  <2> HIDE DEF price
  <2> QED BY <1>1, <1>2, <2>1, SettleEffect
<1>3. CASE ~(mark > 0 /\ ShouldLiquidate(ledger.pos[t], price))
  <2>1. Refuse
    BY <1>3 DEF LiquidateWithIncentive
  <2> QED BY <2>1 DEF Refuse, Inv, Books, RestingOK, FundOK, FundAccounted, UsedOK,
             BooksOK
<1> QED BY <1>2, <1>3

-----------------------------------------------------------------------------
(***************************************************************************)
(* Every action keeps the invariant.                                       *)
(***************************************************************************)

\* What callers pass in.
LEMMA InputsNat ==
  /\ \A x \in Sizes \cup Prices \cup Marks \cup Requests : x \in Nat
  /\ MinOrderSize \in Nat \ {0}
BY ClearingAssumption, MarketAssumption

\* The invariant holds when the process starts on an empty database.
LEMMA InitKeeps == Init => Inv
<1> SUFFICES ASSUME Init PROVE Inv
  OBVIOUS
<1>1. NoPosition \in Positions
  BY DEF NoPosition, Positions
<1>2. InitialBalance \in Nat /\ MaxEntries \in Nat \ {0}
  BY ClearingAssumption
<1>3. LedgerOK(ledger) /\ ledger.stored = {}
      /\ \A t \in Traders : ledger.pos[t].size = 0
  BY <1>1, <1>2 DEF Init, LedgerOK, NoPosition
<1>4. BooksOK(Books)
  <2>1. index = {} /\ unseen = {}
    BY DEF Init
  <2>2. /\ Books.ledger = ledger /\ Books.index = {} /\ Books.unseen = {}
        /\ Books = [ledger |-> Books.ledger, index |-> Books.index,
                    unseen |-> Books.unseen]
    BY <2>1 DEF Books
  <2> QED BY <1>3, <2>2 DEF BooksOK
<1>5. LedgerOK(saved)
  BY <1>3 DEF Init
<1>6. RestingOK /\ RiskOK /\ FundOK /\ JobOK /\ UsedOK
  BY <1>2 DEF Init, RestingOK, RiskOK, FundOK, FundAccounted, NoFund, JobOK, UsedOK
<1> QED BY <1>4, <1>5, <1>6 DEF Inv

\* A step that leaves the books alone keeps them right.
LEMMA BooksUnchanged ==
  ASSUME BooksOK(Books), UNCHANGED <<ledger, index, unseen>>
  PROVE  BooksOK(Books)'
BY DEF Books, BooksOK

\* place_order, refused, filled or resting.
LEMMA PlaceOrderKeeps ==
  ASSUME Inv, NEW t \in Traders, NEW buy \in BOOLEAN, NEW size \in Sizes,
         NEW price \in Prices, NEW reduceOnly \in BOOLEAN,
         PlaceOrder(t, buy, size, price, reduceOnly)
  PROVE  Inv'
<1> DEFINE makers == {m \in resting : Crosses(m, t, buy, price)}
           best   == {m \in makers : \A n \in makers :
                        IF buy THEN m.price <= n.price ELSE m.price >= n.price}
           order  == [owner |-> t, buy |-> buy, size |-> size, price |-> price,
                      id |-> used.orders]
<1>1. /\ BooksOK(Books) /\ LedgerOK(saved) /\ RestingOK /\ RiskOK /\ FundOK
      /\ JobOK /\ UsedOK
  BY DEF Inv
<1>2. /\ ValidateSize(size) /\ job = Idle
      /\ UNCHANGED <<saved, risk, fund, job>>
      /\ used' = [used EXCEPT !.orders = @ + 1]
  BY DEF PlaceOrder
<1>3. size \in Nat \ {0} /\ price \in Nat
  BY <1>2, InputsNat DEF ValidateSize
<1>4. /\ LedgerOK(saved)' /\ RiskOK' /\ FundOK' /\ JobOK' /\ UsedOK'
  <2>1. UsedOK'
    BY <1>1, <1>2 DEF UsedOK
  <2>2. JobOK'
    BY <1>2 DEF JobOK
  <2> QED BY <1>1, <1>2, <2>1, <2>2 DEF RiskOK, FundOK, FundAccounted, LedgerOK
<1>5. CASE /\ resting' = resting \cup {order}
           /\ UNCHANGED <<ledger, index, unseen>>
  <2>1. order \in Orders /\ order.size > 0
    BY <1>1, <1>3 DEF Orders, UsedOK
  <2>2. RestingOK'
    <3> HIDE DEF order
    <3> QED BY <1>1, <1>5, <2>1 DEF RestingOK
  <2>3. BooksOK(Books)'
    BY <1>1, <1>5, BooksUnchanged
  <2> QED BY <1>4, <2>2, <2>3 DEF Inv
<1>6. CASE \E m \in best :
             /\ resting' = Reduce(m, size)
             /\ Keep(ProcessFill(Books, t, m.owner, Lesser(size, m.size),
                                 m.price, buy))
  <2>1. PICK m \in resting :
          /\ resting' = Reduce(m, size)
          /\ Keep(ProcessFill(Books, t, m.owner, Lesser(size, m.size), m.price, buy))
    BY <1>6
  <2>2. /\ m \in Orders /\ m.size \in Nat \ {0} /\ m.owner \in Traders
        /\ m.price \in Nat
    BY <1>1 DEF RestingOK, Orders
  <2>3. Lesser(size, m.size) \in Nat \ {0}
    BY <1>3, <2>2 DEF Lesser
  <2>4. BooksOK(ProcessFill(Books, t, m.owner, Lesser(size, m.size), m.price, buy))
    BY ONLY <1>1, <2>2, <2>3, FillKeepsBooks, t \in Traders, buy \in BOOLEAN
  <2>5. BooksOK(Books)'
    BY ONLY <2>1, <2>4, KeptBooks
  <2>6. RestingOK'
    <3> DEFINE r == [m EXCEPT !.size = @ - size]
    <3>1. size < m.size => r \in Orders /\ r.size > 0
      BY <1>3, <2>2 DEF Orders
    <3> HIDE DEF r
    <3>2. resting' \subseteq resting \cup (IF size < m.size THEN {r} ELSE {})
      BY <2>1 DEF Reduce, r
    <3> QED BY <1>1, <3>1, <3>2 DEF RestingOK
  <2> QED BY <1>4, <2>5, <2>6 DEF Inv
<1>7. \/ /\ resting' = resting \cup {order}
         /\ UNCHANGED <<ledger, index, unseen>>
      \/ \E m \in best :
            /\ resting' = Reduce(m, size)
            /\ Keep(ProcessFill(Books, t, m.owner, Lesser(size, m.size),
                                m.price, buy))
  BY DEF PlaceOrder
<1> QED BY <1>5, <1>6, <1>7

\* liquidate_with_incentive as a step of its own.
LEMMA LiquidateKeepsInv ==
  ASSUME Inv, NEW t \in Traders, NEW mark \in Marks, NEW l \in Liquidators,
         Liquidate(t, mark, l)
  PROVE  Inv'
<1>1. mark \in Nat
  BY InputsNat
<1>2. LiquidateWithIncentive(t, mark, l) /\ job = Idle
      /\ UNCHANGED <<saved, risk, job>>
  BY DEF Liquidate
<1>3. BooksOK(Books)' /\ RestingOK' /\ FundOK' /\ UsedOK'
  BY <1>1, <1>2, LiquidateKeeps
<1>4. LedgerOK(saved)' /\ RiskOK' /\ JobOK'
  BY <1>2 DEF Inv, LedgerOK, RiskOK, JobOK
<1> QED BY <1>3, <1>4 DEF Inv

\* Updates and rebuilds of the risk index.
LEMMA RiskIndexKeeps ==
  ASSUME Inv,
         \/ \E t \in Traders, mark \in Marks : UpdateRiskIndex(t, mark)
         \/ \E mark \in Marks : RebuildRiskIndex(mark)
  PROVE  Inv'
<1>1. /\ UNCHANGED <<ledger, saved, index, resting, fund, job, used, unseen>>
      /\ job = Idle
  BY DEF UpdateRiskIndex, RebuildRiskIndex
<1>2. BooksOK(Books)'
  BY <1>1, BooksUnchanged DEF Inv
<1>3. LedgerOK(saved)' /\ RestingOK' /\ FundOK' /\ UsedOK' /\ JobOK'
  BY <1>1 DEF Inv, LedgerOK, RestingOK, FundOK, FundAccounted, UsedOK, JobOK
<1>4. RiskOK'
  <2>1. risk \in [Traders -> 0 .. MaxEntries] /\ MaxEntries \in Nat \ {0}
        /\ IsFiniteSet(Traders)
    BY ClearingAssumption DEF Inv, RiskOK
  <2>2. ASSUME NEW t \in Traders, NEW mark \in Marks, UpdateRiskIndex(t, mark)
        PROVE  RiskOK'
    <3>1. SumOver(risk, Traders) < MaxEntries
      BY <2>2 DEF UpdateRiskIndex, SumOver
    <3>2. SumOver(risk, Traders) \in Nat /\ risk[t] <= SumOver(risk, Traders)
      BY <2>1, SumNat
    <3>3. risk[t] + 1 \in 0 .. MaxEntries
      BY <2>1, <3>1, <3>2
    <3>4. risk' = [risk EXCEPT ![t] = @ + 1]
      BY <2>2 DEF UpdateRiskIndex
    <3> QED BY ONLY <2>1, <3>3, <3>4, t \in Traders DEF RiskOK
  <2>3. ASSUME NEW mark \in Marks, RebuildRiskIndex(mark) PROVE RiskOK'
    <3> QED BY <2>1, <2>3 DEF RebuildRiskIndex, RiskOK
  <2> QED BY <2>2, <2>3
<1> QED BY <1>2, <1>3, <1>4 DEF Inv

\* A batch takes at most MaxBatch entries.
LEMMA BatchStartKeeps ==
  ASSUME Inv, NEW mark \in Marks, NEW l \in Liquidators, BatchStart(mark, l)
  PROVE  Inv'
<1>1. UNCHANGED <<ledger, saved, index, resting, risk, fund, used, unseen>>
  BY DEF BatchStart
<1>2. BooksOK(Books)'
  BY <1>1, BooksUnchanged DEF Inv
<1>3. LedgerOK(saved)' /\ RestingOK' /\ FundOK' /\ UsedOK' /\ RiskOK'
  BY <1>1 DEF Inv, LedgerOK, RestingOK, FundOK, FundAccounted, UsedOK, RiskOK
<1>4. JobOK'
  <2>1. risk \in [Traders -> Nat] /\ MaxBatch \in Nat \ {0} /\ mark \in Nat
    BY ClearingAssumption, InputsNat DEF Inv, RiskOK
  <2>2. job' = [kind |-> "batch", todo |-> risk, left |-> MaxBatch,
                mark |-> mark, liquidator |-> l]
    BY DEF BatchStart
  <2>3. job' \in BatchJobs
    BY <2>1, <2>2 DEF BatchJobs
  <2> QED BY <2>3 DEF JobOK, BatchJobs
<1> QED BY <1>2, <1>3, <1>4 DEF Inv

\* One entry of a batch, however stale.
LEMMA BatchStepKeeps ==
  ASSUME Inv, BatchStep
  PROVE  Inv'
<1>1. job \in BatchJobs
  BY DEF BatchStep, Inv, JobOK, AdlJobs
<1>2. /\ job.mark \in Nat /\ job.liquidator \in Liquidators
      /\ job.todo \in [Traders -> Nat] /\ job.left \in Nat \ {0}
  BY <1>1 DEF BatchJobs
<1>3. PICK t \in Traders :
        /\ job.todo[t] > 0
        /\ LiquidateWithIncentive(t, job.mark, job.liquidator)
        /\ LET todo == [job.todo EXCEPT ![t] = @ - 1]
           IN  job' = IF \/ job.mark = 0
                         \/ job.left = 1
                         \/ \A u \in Traders : todo[u] = 0
                      THEN Idle
                      ELSE [job EXCEPT !.todo = todo, !.left = @ - 1]
  BY DEF BatchStep
<1>4. BooksOK(Books)' /\ RestingOK' /\ FundOK' /\ UsedOK'
  <2>1. LiquidateWithIncentive(t, job.mark, job.liquidator)
    BY <1>3
  <2>2. PICK m \in Nat, l \in Liquidators : m = job.mark /\ l = job.liquidator
    BY <1>2
  <2>3. LiquidateWithIncentive(t, m, l)
    BY ONLY <2>1, <2>2
  <2> QED BY ONLY <2>3, LiquidateKeeps, Inv, t \in Traders, m \in Nat, l \in Liquidators
<1>5. JobOK'
  <2> DEFINE todo == [job.todo EXCEPT ![t] = @ - 1]
  <2>1. todo \in [Traders -> Nat]
    BY <1>2, <1>3
  <2>2. job' = Idle \/ (job.left # 1 /\ job' = [job EXCEPT !.todo = todo, !.left = @ - 1])
    BY <1>3
  <2> HIDE DEF todo
  <2>3. ASSUME job.left # 1
        PROVE  [job EXCEPT !.todo = todo, !.left = @ - 1] \in BatchJobs
    <3> DEFINE j == [job EXCEPT !.todo = todo, !.left = @ - 1]
    <3>1. job.left - 1 \in Nat \ {0}
      BY <1>2, <2>3
    <3>2. PICK n \in Nat \ {0} : n = job.left - 1
      BY <3>1
    <3>3. j = [job EXCEPT !.todo = todo, !.left = n]
      BY ONLY <1>1, <3>2 DEF BatchJobs
    <3> HIDE DEF j
    <3>4. j \in BatchJobs
      BY ONLY <1>1, <2>1, <3>3, n \in Nat \ {0} DEF BatchJobs
    <3> QED BY <3>4 DEF j
  <2>4. job' = Idle \/ job' \in BatchJobs
    BY <2>2, <2>3
  <2> QED BY <2>4 DEF JobOK, BatchJobs
<1>6. LedgerOK(saved)' /\ RiskOK'
  BY DEF Inv, BatchStep, LedgerOK, RiskOK
<1> QED BY <1>4, <1>5, <1>6 DEF Inv

\* auto_deleverage begins with the candidates it finds.
LEMMA AdlStartKeeps ==
  ASSUME Inv, NEW required \in Requests, NEW mark \in Marks, AdlStart(required, mark)
  PROVE  Inv'
<1> DEFINE candidates == {t \in AllPositions : AdlCandidate(ledger.pos[t], mark)}
<1>1. /\ UNCHANGED <<ledger, saved, index, resting, risk, fund, unseen>>
      /\ used' = [used EXCEPT !.adl = @ + 1]
      /\ result' = NoResult
      /\ job' = [kind |-> "adl", todo |-> candidates, collected |-> 0,
                 required |-> required, mark |-> mark]
  BY DEF AdlStart
<1>2. BooksOK(Books)'
  BY <1>1, BooksUnchanged DEF Inv
<1>3. LedgerOK(saved)' /\ RestingOK' /\ FundOK' /\ RiskOK'
  BY <1>1 DEF Inv, LedgerOK, RestingOK, FundOK, FundAccounted, RiskOK
<1>4. UsedOK'
  BY <1>1 DEF Inv, UsedOK
<1>5. JobOK'
  <2>1. candidates \subseteq Traders
    BY DEF Inv, AllPositions, Listed, BooksOK, Books, LedgerOK
  <2>2. required \in Nat /\ mark \in Nat
    BY InputsNat
  <2> HIDE DEF candidates
  <2>3. job' \in AdlJobs /\ job'.collected <= job'.required
    BY <1>1, <2>1, <2>2 DEF AdlJobs
  <2> QED BY <1>1, <2>3 DEF JobOK, AdlJobs
<1> QED BY <1>2, <1>3, <1>4, <1>5 DEF Inv

\* One candidate reduced, by no more than what is left to cover.
LEMMA AdlStepKeeps ==
  ASSUME Inv, AdlStep
  PROVE  Inv'
<1>1. /\ job \in AdlJobs /\ job.collected <= job.required /\ result = NoResult
      /\ UNCHANGED <<saved, resting, risk, fund, result, used>>
  BY DEF AdlStep, Inv, JobOK, BatchJobs
<1>2. /\ job.todo \in SUBSET Traders /\ job.collected \in Nat
      /\ job.required \in Nat /\ job.mark \in Nat
  BY <1>1 DEF AdlJobs
<1> DEFINE Size(t) == DeleverageSize(ledger.pos[t].size, job.mark, job.collected,
                                     job.required)
           After(t) == IF Size(t) >= ledger.pos[t].size THEN NoPosition
                       ELSE ShrinkPosition(ledger.pos[t], Size(t))
<1>3. PICK t \in job.todo :
        /\ Keep(StorePosition(Books, t, After(t)))
        /\ job' = [job EXCEPT !.todo = @ \ {t}, !.collected = @ + Size(t) * job.mark]
  BY DEF AdlStep, ExecuteAdl
<1>4. t \in Traders
  BY <1>2
<1>5. /\ BooksOK(Books) /\ LedgerOK(saved)
      /\ ledger.pos[t] \in Positions /\ ledger.pos[t].size \in Nat
  BY <1>4 DEF Inv, BooksOK, Books, LedgerOK, Positions
<1>6. Size(t) \in Nat /\ job.collected + Size(t) * job.mark <= job.required
  BY <1>1, <1>2, <1>5, DeleverageBounded
<1> HIDE DEF Size
<1>7. After(t) \in Positions /\ (After(t).size = 0 => After(t) = NoPosition)
  <2>1. CASE Size(t) >= ledger.pos[t].size
    BY <2>1 DEF NoPosition, Positions
  <2>2. CASE ~(Size(t) >= ledger.pos[t].size)
    <3> DEFINE p == ledger.pos[t]
               z == Size(t)
    <3>1. p \in Positions /\ z \in Nat /\ z < p.size
      BY <1>5, <1>6, <2>2
    <3>2. After(t) = ShrinkPosition(p, z)
      BY <2>2
    <3> HIDE DEF p, z, After
    <3>3. ShrinkPosition(p, z) \in Positions /\ ShrinkPosition(p, z).size > 0
      BY <3>1, ShrinkKeepsType
    <3> QED BY <3>2, <3>3
  <2> QED BY <2>1, <2>2
<1> HIDE DEF After
<1>8. BooksOK(Books)'
  <2>1. BooksOK(StorePosition(Books, t, After(t)))
    BY ONLY <1>4, <1>5, <1>7, StoreKeepsBooks
  <2> QED BY ONLY <1>3, <2>1, KeptBooks
<1>9. JobOK'
  <2> DEFINE c == job.collected + Size(t) * job.mark
             j == [job EXCEPT !.todo = @ \ {t}, !.collected = @ + Size(t) * job.mark]
  <2>1. c \in Nat /\ c <= job.required
    BY <1>2, <1>6, ProductNat
  <2>2. j = [job EXCEPT !.todo = job.todo \ {t}, !.collected = c]
    BY <1>1 DEF AdlJobs
  <2>3. job' = j
    BY <1>3
  <2> HIDE DEF c, j
  <2>4. j \in AdlJobs /\ j.collected <= j.required
    BY <1>1, <1>2, <2>1, <2>2 DEF AdlJobs
  <2>5. job' \in AdlJobs /\ job'.collected <= job'.required
    BY <2>3, <2>4
  <2> QED BY <1>1, <2>5 DEF JobOK, AdlJobs
<1>10. LedgerOK(saved)' /\ RestingOK' /\ FundOK' /\ UsedOK' /\ RiskOK'
  BY <1>1 DEF Inv, LedgerOK, RestingOK, FundOK, FundAccounted, UsedOK, RiskOK
<1> QED BY <1>8, <1>9, <1>10 DEF Inv

\* The position index rebuilt from the state.
LEMMA RebuildKeeps ==
  ASSUME Inv, RebuildPositionIndex
  PROVE  Inv'
<1>1. /\ UNCHANGED <<ledger, saved, resting, risk, fund, job, used>>
      /\ job = Idle /\ index' = ledger.stored /\ unseen' = unseen \ ledger.stored
  BY DEF RebuildPositionIndex
<1>2. LedgerOK(saved)' /\ RestingOK' /\ FundOK' /\ UsedOK' /\ RiskOK' /\ JobOK'
  BY <1>1 DEF Inv, LedgerOK, RestingOK, FundOK, FundAccounted, UsedOK, RiskOK, JobOK
<1>3. /\ LedgerOK(ledger) /\ index \in SUBSET Traders /\ unseen \in SUBSET Traders
      /\ \A t \in Traders \ unseen : ledger.pos[t].size > 0 => t \in index
      /\ index # {} => ledger.stored = index
  BY DEF Inv, BooksOK, Books
<1>4. ledger.stored \in SUBSET Traders
  BY <1>3 DEF LedgerOK
<1>5. LedgerOK(ledger')
  BY <1>1, <1>3
<1>6. BooksOK(Books)'
  BY <1>1, <1>3, <1>4, <1>5 DEF BooksOK, Books
<1> QED BY <1>2, <1>6 DEF Inv

\* A commit copies the ledger.
LEMMA CommitKeeps ==
  ASSUME Inv, Commit
  PROVE  Inv'
<1>1. /\ UNCHANGED <<ledger, index, resting, risk, fund, job, unseen>>
      /\ saved' = ledger /\ job = Idle
      /\ used' = [used EXCEPT !.commits = @ + 1]
  BY DEF Commit
<1>2. RestingOK' /\ FundOK' /\ RiskOK' /\ JobOK'
  BY <1>1 DEF Inv, RestingOK, FundOK, FundAccounted, RiskOK, JobOK
<1>3. BooksOK(Books)'
  BY <1>1, BooksUnchanged DEF Inv
<1>4. LedgerOK(ledger)
  BY DEF Inv, BooksOK, Books
<1>5. LedgerOK(saved')
  BY <1>1, <1>4
<1>6. UsedOK'
  BY <1>1 DEF Inv, UsedOK
<1> QED BY <1>2, <1>3, <1>5, <1>6 DEF Inv, LedgerOK

\* A crash returns to the committed ledger and forgets the caches.
LEMMA CrashKeeps ==
  ASSUME Inv, Crash
  PROVE  Inv'
<1>1. /\ used' = [used EXCEPT !.crashes = @ + 1]
      /\ ledger' = saved /\ index' = {} /\ resting' = {} /\ saved' = saved
      /\ unseen' = {t \in Traders : saved.pos[t] # NoPosition}
      /\ risk' = [t \in Traders |-> 0]
      /\ fund' = NoFund /\ job' = Idle
  BY DEF Crash
<1>2. LedgerOK(saved)
  BY DEF Inv
<1>3. LedgerOK(saved') /\ LedgerOK(ledger')
  BY <1>1, <1>2
<1>4. BooksOK(Books)'
  <2>1. \A t \in Traders \ unseen' : ledger'.pos[t].size = 0
    BY <1>1 DEF NoPosition
  <2>2. /\ Books' = [ledger |-> ledger', index |-> {}, unseen |-> unseen']
        /\ unseen' \in SUBSET Traders
    BY <1>1 DEF Books
  <2> QED BY <1>3, <2>1, <2>2 DEF BooksOK
<1>5. MaxEntries \in Nat
  BY ClearingAssumption
<1>6. RestingOK' /\ FundOK' /\ RiskOK' /\ JobOK'
  BY <1>1, <1>5 DEF RestingOK, FundOK, FundAccounted, NoFund, RiskOK, JobOK
<1>7. UsedOK'
  BY <1>1 DEF Inv, UsedOK
<1> QED BY <1>3, <1>4, <1>6, <1>7 DEF Inv, LedgerOK

\* Every step keeps the invariant.
LEMMA StepKeeps == Inv /\ [Next]_vars => Inv'
<1> SUFFICES ASSUME Inv, [Next]_vars PROVE Inv'
  OBVIOUS
<1>1. CASE UNCHANGED vars
  BY <1>1 DEF vars, Inv, Books, BooksOK, LedgerOK, RestingOK, RiskOK, FundOK,
              FundAccounted, JobOK, UsedOK
<1>2. ASSUME AdlDone PROVE Inv'
  <2>1. /\ UNCHANGED <<ledger, saved, index, resting, risk, fund, result, used, unseen>>
        /\ job' = Idle
    BY <1>2 DEF AdlDone
  <2>2. BooksOK(Books)'
    BY <2>1, BooksUnchanged DEF Inv
  <2> QED BY <2>1, <2>2 DEF Inv, LedgerOK, RestingOK, RiskOK, FundOK, FundAccounted,
                            JobOK, UsedOK
<1>3. CASE Next
  BY <1>2, <1>3, PlaceOrderKeeps, LiquidateKeepsInv, RiskIndexKeeps,
     BatchStartKeeps, BatchStepKeeps, AdlStartKeeps, AdlStepKeeps, RebuildKeeps,
     CommitKeeps, CrashKeeps DEF Next
<1> QED BY <1>1, <1>3

-----------------------------------------------------------------------------

\* The state of Clearing stays in the inductive invariant, whatever callers do.
THEOREM ClearingInvariant == Spec => []Inv
<1>1. Inv /\ [Next]_vars => Inv'
  BY StepKeeps
<1> QED BY <1>1, InitKeeps, PTL DEF Spec

\* Balances, margins and the fund never go below 0 in any liquidation or ADL,
\* and a position of size 0 is never kept.
THEOREM TypeCorrect == Spec => []TypeOK
<1>1. Inv => TypeOK
  <2> SUFFICES ASSUME Inv PROVE TypeOK
    OBVIOUS
  <2>1. LedgerOK(ledger) /\ index \in SUBSET Traders /\ unseen \in SUBSET Traders
    BY DEF Inv, BooksOK, Books
  <2>2. /\ ledger.bal \in [Accounts -> Nat]
        /\ ledger.pos \in [Traders -> Positions]
        /\ ledger.stored \in SUBSET Traders
        /\ \A t \in Traders : ledger.pos[t].size = 0 => ledger.pos[t] = NoPosition
    BY <2>1 DEF LedgerOK
  <2>3. resting \subseteq Orders
    BY DEF Inv, RestingOK
  <2> QED BY <2>1, <2>2, <2>3 DEF Inv, RiskOK, FundOK, TypeOK
<1> QED BY <1>1, ClearingInvariant, PTL

\* The fund holds what liquidations paid in less what it paid out, also when a
\* shortfall empties it.
THEOREM FundIsAccounted == Spec => []FundAccounted
<1>1. Inv => FundAccounted
  BY DEF Inv, FundOK
<1> QED BY <1>1, ClearingInvariant, PTL

\* Risk engine and liquidation engine agree on every position the system can
\* hold, at every mark price.
THEOREM EnginesDecideAlike == Spec => []RiskEnginesAgree
<1>1. Inv => RiskEnginesAgree
  <2> SUFFICES ASSUME Inv, NEW t \in Traders, NEW mark \in Marks
               PROVE  /\ CheckLiquidation(ledger.pos[t], mark) =>
                           ShouldLiquidate(ledger.pos[t], mark)
                      /\ ShouldLiquidate(ledger.pos[t], mark) =>
                           Equity(ledger.pos[t], mark)
                             <= OfBps(Value(ledger.pos[t], mark),
                                      MaintenanceMarginBps)
    BY DEF RiskEnginesAgree
  <2>1. mark \in Nat /\ ledger.pos[t] \in Positions
    BY InputsNat DEF Inv, BooksOK, Books, LedgerOK
  <2> QED BY <2>1, EnginesAgree
<1> QED BY <1>1, ClearingInvariant, PTL

\* Every position that StateManager wrote or took back since it opened is found
\* by the scan of rebuild_risk_index and auto_deleverage.
THEOREM ScanFindsPositions == Spec => []PositionsListed
<1>1. Inv => PositionsListed
  <2> SUFFICES ASSUME Inv, NEW t \in Traders \ unseen, ledger.pos[t].size > 0
               PROVE  t \in AllPositions
    BY DEF PositionsListed
  <2>1. t \in index
    BY DEF Inv, BooksOK, Books
  <2> QED BY <2>1 DEF AllPositions, Listed
<1> QED BY <1>1, ClearingInvariant, PTL

\* ADL never closes more value than was asked for, its last candidate included.
THEOREM AdlStopsInTime == Spec => []AdlWithinRequest
<1>1. Inv => AdlWithinRequest
  BY DEF Inv, JobOK, BatchJobs, AdlWithinRequest
<1> QED BY <1>1, ClearingInvariant, PTL

\* The only steps that report a liquidation are those that settle one.
LEMMA ResultMeansSettled ==
  ASSUME Inv, Next, result' # NoResult
  PROVE  \E t \in Traders, price \in Nat, l \in Liquidators :
           ShouldLiquidate(ledger.pos[t], price) /\ Settle(t, price, l)
<1> DEFINE Settled == \E t \in Traders, price \in Nat, l \in Liquidators :
                        ShouldLiquidate(ledger.pos[t], price) /\ Settle(t, price, l)
<1>1. ASSUME NEW t \in Traders, NEW mark \in Nat, NEW l \in Liquidators,
             LiquidateWithIncentive(t, mark, l)
      PROVE  Settled
  <2>1. NormalizePrice(mark) \in Nat
    BY NormalizeNat
  <2>2. ~Refuse
    BY DEF Refuse
  <2>3. ShouldLiquidate(ledger.pos[t], NormalizePrice(mark))
        /\ Settle(t, NormalizePrice(mark), l)
    BY <1>1, <2>2 DEF LiquidateWithIncentive
  <2> QED BY <2>1, <2>3
<1>2. ASSUME NEW t \in Traders, NEW mark \in Marks, NEW l \in Liquidators,
             Liquidate(t, mark, l)
      PROVE  Settled
  BY <1>1, <1>2, InputsNat DEF Liquidate
<1>3. ASSUME BatchStep PROVE Settled
  <2>1. job \in BatchJobs
    BY <1>3 DEF BatchStep, Inv, JobOK, AdlJobs
  <2>2. job.mark \in Nat /\ job.liquidator \in Liquidators
    BY <2>1 DEF BatchJobs
  <2>3. PICK t \in Traders : LiquidateWithIncentive(t, job.mark, job.liquidator)
    BY <1>3 DEF BatchStep
  <2>4. PICK m \in Nat, l \in Liquidators : m = job.mark /\ l = job.liquidator
    BY <2>2
  <2>5. LiquidateWithIncentive(t, m, l)
    BY ONLY <2>3, <2>4
  <2> QED BY <1>1, <2>5
<1>4. ASSUME AdlStep \/ AdlDone PROVE FALSE
  <2>1. result = NoResult
    BY <1>4 DEF AdlStep, AdlDone, Inv, JobOK, BatchJobs
  <2> QED BY <1>4, <2>1 DEF AdlStep, AdlDone
<1> HIDE DEF Settled
<1>5. ASSUME NEW t \in Traders, NEW buy \in BOOLEAN, NEW size \in Sizes,
             NEW price \in Prices, NEW reduceOnly \in BOOLEAN,
             PlaceOrder(t, buy, size, price, reduceOnly)
      PROVE  FALSE
  <2>1. result' = NoResult
    BY <1>5 DEF PlaceOrder
  <2> QED BY <2>1
<1>6. /\ \A t \in Traders, mark \in Marks : ~UpdateRiskIndex(t, mark)
      /\ \A mark \in Marks : ~RebuildRiskIndex(mark)
  BY DEF UpdateRiskIndex, RebuildRiskIndex
<1>7. /\ \A mark \in Marks, l \in Liquidators : ~BatchStart(mark, l)
      /\ \A required \in Requests, mark \in Marks : ~AdlStart(required, mark)
      /\ ~RebuildPositionIndex /\ ~Commit /\ ~Crash
  BY DEF BatchStart, AdlStart, RebuildPositionIndex, Commit, Crash
<1>8. Settled
  BY <1>2, <1>3, <1>4, <1>5, <1>6, <1>7 DEF Next
<1> QED BY <1>8 DEF Settled

\* However stale the risk index, a liquidation hits a position below the
\* maintenance share, leaves the other positions alone and cancels the orders.
THEOREM LiquidatesOnlyUnderwater == Spec => OnlyUnderwater
<1>1. ASSUME Inv, [Next]_vars, ~UNCHANGED vars, result' # NoResult
      PROVE  LET t == result'.trader
                 p == ledger.pos[t]
             IN  /\ (p.margin + Pnl(p, result'.price)) * BASIS_POINTS
                      < MaintenanceMarginBps * p.size * result'.price
                 /\ \A u \in Traders \ {t} : ledger'.pos[u] = ledger.pos[u]
                 /\ \A m \in resting' : m.owner # t
  <2>1. PICK t \in Traders, price \in Nat, l \in Liquidators :
          ShouldLiquidate(ledger.pos[t], price) /\ Settle(t, price, l)
    BY <1>1, ResultMeansSettled
  <2>2. /\ result'.trader = t /\ result'.price = price
        /\ \A u \in Traders \ {t} : ledger'.pos[u] = ledger.pos[u]
        /\ \A m \in resting' : m.owner # t
    BY ONLY <2>1, <1>1, SettleEffect
  <2>3. ledger.pos[t] \in Positions
    BY <1>1 DEF Inv, BooksOK, Books, LedgerOK
  <2> DEFINE p == ledger.pos[t]
  <2>4. (p.margin + Pnl(p, price)) * BASIS_POINTS
          < MaintenanceMarginBps * p.size * price
    <3>1. /\ Equity(p, price) * BASIS_POINTS < MaintenanceMarginBps * (p.size * price)
          /\ Pnl(p, price) \in Int /\ Equity(p, price) \in Nat
          /\ p.margin + Pnl(p, price) <= Equity(p, price)
          /\ p.margin \in Nat /\ p.size \in Nat /\ MaintenanceMarginBps \in Nat
      BY <2>1, <2>3, LiquidatableMeans, EquityNat, MarketAssumption
         DEF Value, Positions
    <3>2. MaintenanceMarginBps * (p.size * price) = MaintenanceMarginBps * p.size * price
      BY <3>1
    <3>3. MaintenanceMarginBps * (p.size * price) \in Nat
      BY <3>1, ProductNat
    <3> DEFINE r == MaintenanceMarginBps * (p.size * price)
               x == p.margin + Pnl(p, price)
    <3>4. x \in Int /\ x <= Equity(p, price) /\ Equity(p, price) * 10000 < r
          /\ r \in Nat
      BY <3>1, <3>3 DEF BASIS_POINTS
    <3> HIDE DEF r, x
    <3>5. x * 10000 < r
      BY <3>1, <3>4
    <3> QED BY <3>2, <3>5 DEF r, x, BASIS_POINTS
  <2> HIDE DEF p
  <2>5. p = ledger.pos[result'.trader]
    BY <2>2 DEF p
  <2> QED BY <2>2, <2>4, <2>5
<1> QED BY <1>1, ClearingInvariant, PTL DEF OnlyUnderwater, Spec

\* One liquidation adds no more to balances and fund than the equity of the whole
\* position it hits, which the code pays out also when it closes only part of it, or
\* than its fee where that is larger.
THEOREM PayoutIsBounded == Spec => PayoutBounded
<1>1. ASSUME Inv, [Next]_vars, ~UNCHANGED vars, result' # NoResult
      PROVE  LET p == ledger.pos[result'.trader]
             IN  Held(ledger', fund') - Held(ledger, fund)
                   <= Greater(Equity(p, result'.price), result'.fee)
  <2>1. PICK t \in Traders, price \in Nat, l \in Liquidators :
          ShouldLiquidate(ledger.pos[t], price) /\ Settle(t, price, l)
    BY <1>1, ResultMeansSettled
  <2>2. /\ result'.trader = t /\ result'.price = price
        /\ Held(ledger', fund') - Held(ledger, fund) <= Greater(Equity(ledger.pos[t], price), result'.fee)
    BY ONLY <2>1, <1>1, SettleEffect
  <2>3. Held(ledger', fund') - Held(ledger, fund)
          <= Greater(Equity(ledger.pos[result'.trader], result'.price), result'.fee)
    BY ONLY <2>2
  <2> QED BY <2>3
<1> QED BY <1>1, ClearingInvariant, PTL DEF PayoutBounded, Spec

=============================================================================
