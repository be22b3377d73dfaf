------------------------------- MODULE Funding -------------------------------
(***************************************************************************)
(* The funding rate of one market (engine/src/funding.rs): a caller        *)
(* reports mark price, oracle price and time, the rate is added to a       *)
(* cumulative index, and what a position owes is read off the distance     *)
(* between two values of that index. The record is part of the state: an   *)
(* update that is not committed is gone after a crash. Times come from     *)
(* the caller and may repeat or go back.                                   *)
(***************************************************************************)
EXTENDS Integers, Sequences, FiniteSetsExt

CONSTANTS
  MaxFundingRateBps,   \* max_funding_rate_bps of the calculator
  FundingInterval,     \* funding_interval of the market, 0: do not scale
  Marks, Oracles,      \* prices callers report; an oracle price may be 0
  Timestamps,          \* block times, all above 0
  PositionSizes,       \* sizes of positions that funding is computed for
  MaxUpdates,          \* bound
  MaxCrashes           \* bound

ASSUME FundingAssumption ==
  /\ Marks \cup Oracles \cup PositionSizes \subseteq Nat
  /\ Timestamps \subseteq Nat \ {0}
  /\ {MaxFundingRateBps, FundingInterval, MaxUpdates, MaxCrashes} \subseteq Nat

VARIABLES
  funding,        \* FundingRate of the market, less the two prices, which are not read
  savedFunding,   \* the same as of the last commit
  past,           \* for the properties: every record the market had, the oldest first
  crashes

fundingVars == <<funding, savedFunding, past, crashes>>

NoFunding == [rate |-> 0, last |-> 0, index |-> 0]

FundingInit ==
  /\ funding = NoFunding
  /\ savedFunding = [funding |-> NoFunding, past |-> <<NoFunding>>]
  /\ past = <<NoFunding>>
  /\ crashes = 0

Within(n, limit) == IF n <= limit THEN n ELSE limit
Distance(a, b) == IF a <= b THEN b - a ELSE a - b

BASIS_POINTS == 10000

\* Slip: the premium is scaled by time first and never clamped.
CalculateFundingRateUnclamped(mark, oracle, elapsed) ==
  LET premium == (Distance(mark, oracle) * BASIS_POINTS) \div oracle
      scaled  == IF FundingInterval = 0 THEN premium
                 ELSE (premium * elapsed) \div FundingInterval
  IN  IF oracle = 0 THEN 0 ELSE IF mark >= oracle THEN scaled ELSE -scaled

\* calculate_funding_rate: the premium is clamped, and then scaled by the time
\* since the last update, which may be longer than one interval.
CalculateFundingRate(mark, oracle, elapsed) ==
  LET premium == (Distance(mark, oracle) * BASIS_POINTS) \div oracle
      clamped == Within(premium, MaxFundingRateBps)
      scaled  == IF FundingInterval = 0 THEN clamped
                 ELSE (clamped * elapsed) \div FundingInterval
  IN  IF oracle = 0 THEN 0 ELSE IF mark >= oracle THEN scaled ELSE -scaled

\* Time that went back counts for nothing; so does the time before the first
\* update.
TimeElapsed(last, timestamp) ==
  IF last > 0 /\ timestamp > last THEN timestamp - last ELSE 0

UpdateFundingRate(mark, oracle, timestamp) ==
  LET rate == CalculateFundingRate(mark, oracle, TimeElapsed(funding.last, timestamp))
  IN
  /\ Len(past) <= MaxUpdates
  /\ funding' = [rate |-> rate, last |-> timestamp, index |-> funding.index + rate]
  /\ past' = Append(past, funding')
  /\ UNCHANGED <<savedFunding, crashes>>

CommitFunding ==
  /\ savedFunding' = [funding |-> funding, past |-> past]
  /\ savedFunding' # savedFunding
  /\ UNCHANGED <<funding, past, crashes>>

CrashFunding ==
  /\ crashes < MaxCrashes
  /\ crashes' = crashes + 1
  /\ funding' = savedFunding.funding
  /\ past' = savedFunding.past
  /\ UNCHANGED savedFunding

FundingNext ==
  \/ \E mark \in Marks, oracle \in Oracles, timestamp \in Timestamps :
       UpdateFundingRate(mark, oracle, timestamp)
  \/ CommitFunding
  \/ CrashFunding

FundingSpec == FundingInit /\ [][FundingNext]_fundingVars

(***************************************************************************)
(* What a position owes.                                                   *)
(***************************************************************************)
\* checked_div of signed numbers rounds towards 0.
TowardsZero(n) == IF n >= 0 THEN n \div BASIS_POINTS ELSE -((-n) \div BASIS_POINTS)

\* Slip: who pays is read off the index alone.
PaymentSideIgnored(size, long, entry, current) ==
  [amount |-> Distance(0, TowardsZero(size * (current - entry))),
   pays   |-> current >= entry]

CalculateFundingPayment(size, long, entry, current) ==
  LET payment == TowardsZero(size * (current - entry))
  IN  CASE current = entry -> [amount |-> 0, pays |-> TRUE]
        [] current # entry /\ payment > 0 -> [amount |-> payment, pays |-> long]
        [] current # entry /\ payment <= 0 -> [amount |-> -payment, pays |-> ~long]

-----------------------------------------------------------------------------

\* The time that passed forward between an update and the next.
Elapsed ==
  [k \in 1 .. Len(past) - 1 |-> TimeElapsed(past[k].last, past[k + 1].last)]

\* Between any two updates the index moved by no more than the highest rate allows
\* for the time that passed forward in between, however late, repeated or out of
\* order the updates came and whatever a crash took back.
IndexWithinRate ==
  \A i, j \in DOMAIN past :
    LET passed == MapThenSumSet(LAMBDA k : Elapsed[k], i .. j - 1)
    IN  (i < j /\ FundingInterval > 0) =>
          Distance(past[i].index, past[j].index) * FundingInterval
            <= MaxFundingRateBps * passed

\* What a position pays over a stretch of the index, less what it receives.
Net(size, long, i, j) ==
  LET p == CalculateFundingPayment(size, long, past[i].index, past[j].index)
  IN  IF p.pays THEN p.amount ELSE -p.amount

\* Funding moves money between the two sides and makes none: over any stretch of
\* the index two longs and the short that matches them settle up to the one unit
\* that rounding each payment can take, and so do two shorts and a long; and
\* settling a stretch in two parts gains or loses a position at most one unit.
PaymentsBalance ==
  \A i, j \in DOMAIN past : \A m, n \in PositionSizes, long \in BOOLEAN :
    i <= j =>
      /\ Distance(Net(m, long, i, j) + Net(n, long, i, j), -Net(m + n, ~long, i, j)) <= 1
      /\ \A k \in i .. j :
           Distance(Net(m, long, i, k) + Net(m, long, k, j), Net(m, long, i, j)) <= 1

=============================================================================
