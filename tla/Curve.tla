-------------------------------- MODULE Curve --------------------------------
(***************************************************************************)
(* Arithmetic on the bonding curve: hades.tracking.derive and              *)
(* hades.paper.curve.  The program computes with floats; here a number is  *)
(* a fraction, exact, and one without a denominator is None, the answer    *)
(* whenever a reserve or the supply is missing.  Missing decimals are not  *)
(* answered by None: defaults stand in for them.                           *)
(***************************************************************************)
EXTENDS Integers

CONSTANTS DefaultBase, DefaultQuote   \* base units of a token, and of sol, by the default decimals

(* Gcd[b][a], by Euclid.                                                   *)
Gcd[b \in Nat] == [a \in Nat |-> IF b = 0 THEN a ELSE Gcd[a % b][b]]
Size(n) == IF n < 0 THEN -n ELSE n

Unknown == [num |-> 0, den |-> 0]
(* In lowest terms, so that equal numbers are equal.                       *)
Fraction(n, d) ==
  LET g == Gcd[d][Size(n)]
  IN  IF d = 0 THEN Unknown ELSE [num |-> n \div g, den |-> d \div g]
Whole(n) == [num |-> n, den |-> 1]
Known(v) == v # Unknown

Atmost(v, w) == v.num * w.den <= w.num * v.den
Positive(v) == Known(v) /\ v.num > 0
Plus(v, w) == Fraction(v.num * w.den + w.num * v.den, v.den * w.den)
Minus(v, w) == Fraction(v.num * w.den - w.num * v.den, v.den * w.den)
Times(v, w) == Fraction(v.num * w.num, v.den * w.den)
(* No divisor here is ever negative; by zero nothing is known.             *)
Over(v, w) == IF Positive(w) THEN Fraction(v.num * w.den, v.den * w.num) ELSE Unknown

-----------------------------------------------------------------------------
(* derive_market: the raw fields are in base units, and how many of them   *)
(* make a whole one is 10 ** decimals, as the provider reports it.         *)

Units(reported, default) == IF Known(reported) THEN reported ELSE Whole(default)
SpotPrice(sol, tokens) == Over(sol, tokens)
MarketCap(sol, tokens, supply) == Times(SpotPrice(sol, tokens), supply)

Market(raw) ==
  LET base == Units(raw.base, DefaultBase)
      quote == Units(raw.quote, DefaultQuote)
      sol == Over(raw.sol, quote)
      tokens == Over(raw.tokens, base)
  IN  [price |-> SpotPrice(sol, tokens),
       cap |-> MarketCap(sol, tokens, Over(raw.supply, base)),
       liquidity |-> Over(raw.real, quote)]

-----------------------------------------------------------------------------
(* simulate_buy and simulate_sell against reserves of sol and tokens, with *)
(* a fee that is a fraction below one.  Paper trading divides the stored   *)
(* reserves by a fixed 1e9 and 1e6 whatever their decimals: one unit for   *)
(* every row, so that fills compare in base units as well.                 *)

Fillable(amount, sol, tokens) == Positive(amount) /\ Positive(sol) /\ Positive(tokens)
Refused == [out |-> Unknown, spot |-> Unknown, effective |-> Unknown]
Keep(amount, fee) == Minus(amount, Times(amount, fee))

\* mutant: the buy-side fee is never captured
BuyFeeUncaptured(stake, sol, tokens, fee) ==
  LET out == Minus(tokens, Over(Times(sol, tokens), Plus(sol, stake)))
  IN  IF ~Fillable(stake, sol, tokens) \/ ~Positive(out) THEN Refused
      ELSE [out |-> out, spot |-> SpotPrice(sol, tokens), effective |-> Over(stake, out)]
(* The fee is taken before the curve: only the remainder buys tokens.      *)
SimulateBuy(stake, sol, tokens, fee) ==
  LET net == Keep(stake, fee)
      out == Minus(tokens, Over(Times(sol, tokens), Plus(sol, net)))
  IN  IF ~Fillable(stake, sol, tokens) \/ ~Positive(net) \/ ~Positive(out) THEN Refused
      ELSE [out |-> out, spot |-> SpotPrice(sol, tokens), effective |-> Over(net, out)]

(* The fee is taken after the curve: sol comes out, then the protocol's.   *)
SimulateSell(held, sol, tokens, fee) ==
  LET gross == Minus(sol, Over(Times(sol, tokens), Plus(tokens, held)))
      net == Keep(gross, fee)
  IN  IF ~Fillable(held, sol, tokens) \/ ~Positive(net) THEN Refused
      ELSE [out |-> net, spot |-> SpotPrice(sol, tokens), effective |-> Over(net, held)]
=============================================================================
