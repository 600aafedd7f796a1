------------------------------- MODULE Market -------------------------------
(***************************************************************************)
(* One token between its mint and a signal: traders move its curve, the    *)
(* tracker samples it, now and then without a field, and the signal loop   *)
(* computes the features as of a snapshot that newer ones may have         *)
(* followed, and judges them by hades.signals.early_momentum.  Paper fills *)
(* are simulated on the same snapshots and leave the curve as it is.       *)
(***************************************************************************)
EXTENDS Features

CONSTANTS
  Curves,        \* the reserves <<sol, tokens>> trades can reach, in base units
  RealSol(_),    \* real sol reserves, of virtual ones
  Supply,
  PoolBase, PoolQuote,  \* base units of one token and of one sol in this pool
  Gaps,          \* the sets of fields the provider leaves out together
  Lookback,      \* series_lookback_seconds
  WindowSeconds, \* the strategy's window
  MinAge, MaxAge, MinVelocity, MaxSinceTrade, MinLiquidity,  \* EarlyMomentumConfig
  Stakes,        \* sol committed to a paper buy, in base units
  FeeRate,       \* a fraction below one
  MaxTime,       \* bound: the clock stops here
  MaxGaps        \* bound: snapshots with a missing field per behaviour

VARIABLES
  time,      \* seconds since the mint
  curve,
  traded,    \* time of the last trade
  rows,      \* market_snapshots of the token, in the order of observed_at
  observed,  \* the newest of its feature_observations
  fired      \* signals.created_at

vars == <<time, curve, traded, rows, observed, fired>>

Fields == {"sol", "tokens", "real", "supply", "base", "quote"}

MarketAssumption ==
  /\ Curves \subseteq (Nat \ {0}) \X (Nat \ {0}) /\ Curves # {}
  /\ \A c \in Curves : RealSol(c[1]) \in Nat
  /\ {Lookback, WindowSeconds, MinAge, MaxAge, MinVelocity, MaxSinceTrade, MinLiquidity,
      MaxTime, MaxGaps, Supply} \subseteq Nat
  /\ Stakes \cup {PoolBase, PoolQuote, DefaultBase, DefaultQuote} \subseteq Nat \ {0}
  /\ Gaps \subseteq SUBSET Fields
  /\ FeeRate \in [num : Nat, den : Nat] /\ FeeRate.num < FeeRate.den

Raw(c, gap) ==
  LET got(field, value) == IF field \in gap THEN Unknown ELSE Whole(value)
  IN  [sol |-> got("sol", c[1]), tokens |-> got("tokens", c[2]),
       real |-> got("real", RealSol(c[1])), supply |-> got("supply", Supply),
       base |-> got("base", PoolBase), quote |-> got("quote", PoolQuote)]

Init ==
  /\ time = 0 /\ curve \in Curves /\ traded = 0
  /\ rows = <<>> /\ observed = -1 /\ fired = {}

Tick == /\ time < MaxTime /\ time' = time + 1
        /\ UNCHANGED <<curve, traded, rows, observed, fired>>

(* Bound: the trades of a second after its first are not distinguished.    *)
Trade == /\ traded < time /\ traded' = time
         /\ curve' \in Curves \ {curve}
         /\ UNCHANGED <<time, rows, observed, fired>>

(* record_snapshot: the raw fields as they came and the values derived     *)
(* from them, at a moment after the last.                                  *)
Snapshot(gap) ==
  LET raw == Raw(curve, gap)
      market == Market(raw)
  IN  [at |-> time, age |-> Whole(time), traded |-> Whole(traded),
       sol |-> raw.sol, tokens |-> raw.tokens, base |-> raw.base, quote |-> raw.quote,
       price |-> market.price, cap |-> market.cap, liquidity |-> market.liquidity]

Incomplete == {i \in DOMAIN rows : \E field \in {"cap", "liquidity", "base", "quote"} :
                                     ~Known(rows[i][field])}

Observe ==
  /\ rows # <<>> => Last(rows).at < time
  /\ \E gap \in Gaps :
       /\ gap # {} => Cardinality(Incomplete) < MaxGaps
       /\ rows' = Append(rows, Snapshot(gap))
  /\ UNCHANGED <<time, curve, traded, observed, fired>>

-----------------------------------------------------------------------------
(* EarlyMomentumStrategy.check: all or nothing, and unknown is not         *)
(* permission.                                                             *)

AtLeast(value, threshold) == Known(value) /\ Atmost(threshold, value)
NotOver(value, threshold) == Known(value) /\ Atmost(value, threshold)

Momentum(features) ==
  /\ AtLeast(features.age, Whole(MinAge)) /\ NotOver(features.age, Whole(MaxAge))
  /\ AtLeast(features.capVelocity, Whole(MinVelocity))
  /\ AtLeast(features.capAcceleration, Whole(0))
  /\ AtLeast(features.liquidityVelocity, Whole(0))
  /\ AtLeast(features.movement, [num |-> 1, den |-> 2])
  /\ NotOver(features.sinceTrade, Whole(MaxSinceTrade))
  /\ AtLeast(features.liquidity, Whole(MinLiquidity))
  /\ AtLeast(features.count, Whole(3))
  /\ NotOver(features.freshness, Whole(WindowSeconds))

(* What _load_series reads now for a candidate of then.                    *)
Loaded(moment) == After(rows, moment - Lookback - 1)

(* A moment that has been observed keeps its vector and gives no signal.   *)
Evaluate(i) ==
  LET moment == rows[i].at
      features == Vector(Loaded(moment), moment, WindowSeconds)
  IN  /\ moment >= observed /\ observed' = moment
      /\ fired' = IF moment > observed /\ Momentum(features)
                  THEN fired \cup {moment} ELSE fired
      /\ UNCHANGED <<time, curve, traded, rows>>

Next == Tick \/ Trade \/ Observe \/ \E i \in DOMAIN rows : Evaluate(i)

Spec == Init /\ [][Next]_vars

-----------------------------------------------------------------------------
Percent(v) == Known(v) => Atmost(Whole(0), v) /\ Atmost(v, Whole(1))

(* Time moves forward in the table; shares are shares, a drawdown among    *)
(* them, and no gap is shorter than the mean or longer than the span.      *)
TypeOK ==
  /\ time \in 0..MaxTime /\ curve \in Curves /\ traded \in 0..time
  /\ \A i, j \in DOMAIN rows : i < j => rows[i].at < rows[j].at
  /\ observed \in {-1} \cup {rows[i].at : i \in DOMAIN rows}
  /\ fired \subseteq 0..observed
  /\ LET vector == Vector(rows, time, WindowSeconds)
     IN  /\ Percent(vector.drawdown) /\ Percent(vector.movement)
         /\ Known(vector.span) => Atmost(vector.mean, vector.gap) /\ Atmost(vector.gap, vector.span)

(* What a row says of the market when its decimals are those of the pool.  *)
TrueCap(row) == MarketCap(Over(row.sol, Whole(PoolQuote)), Over(row.tokens, Whole(PoolBase)),
                          Over(Whole(Supply), Whole(PoolBase)))

(* The provider left out the decimals of sol, and the default is not what  *)
(* this pool has: the cap of the row is off by a constant factor.  That of *)
(* the token's decimals cancels in a cap.                                  *)
Misread(row) == ~Known(row.quote) /\ PoolQuote # DefaultQuote

(* A signal is about a token that is climbing when it fires, as far as was *)
(* known then: in the window there are three snapshots up to it, and from  *)
(* one after the first to the last the market cap rose at least as fast as *)
(* the strategy asks for.  No later snapshot and no missing reserve or     *)
(* supply stands in for the rise; default decimals do, if the pool has     *)
(* others and one of the two snapshots came without its own.               *)
ClimbingWhenSignalled ==
  \A t \in fired : \E h, i, j \in DOMAIN rows :
    /\ t - WindowSeconds < rows[h].at /\ h < i /\ i < j /\ rows[j].at = t
    /\ \/ Misread(rows[i]) \/ Misread(rows[j])
       \/ AtLeast(Minus(TrueCap(rows[j]), TrueCap(rows[i])),
                  Whole(MinVelocity * (rows[j].at - rows[i].at)))

(* "A round trip pays it twice": bought on one snapshot and sold on a      *)
(* later one, a position returns at most what is left of its stake after   *)
(* two fees, times the movement of the price, and slippage never pays.     *)
RoundTripPaysTwice ==
  \A i, j \in DOMAIN rows : \A s \in Stakes :
    LET buy == SimulateBuy(Whole(s), rows[i].sol, rows[i].tokens, FeeRate)
        sell == SimulateSell(buy.out, rows[j].sol, rows[j].tokens, FeeRate)
    IN  i < j /\ Known(sell.out) =>
          /\ Atmost(buy.spot, buy.effective) /\ Atmost(sell.effective, sell.spot)
          /\ Atmost(Times(sell.out, buy.spot),
                    Times(Keep(Keep(Whole(s), FeeRate), FeeRate), sell.spot))
=============================================================================
