------------------------------- MODULE Labels -------------------------------
(***************************************************************************)
(* compute_outcome of hades.outcomes.labels: what happened after one       *)
(* observation, under one barrier configuration.  A series is a set of     *)
(* snapshots [at, price] of one token with one snapshot per instant, and   *)
(* fractions are percentages.                                              *)
(***************************************************************************)
EXTENDS Integers, FiniteSets, FiniteSetsExt

NoPrice == 0      \* the reserves give no price
Missing == -1     \* NULL

Priced(series) == {q \in series : q.price # NoPrice}

(* The last price known at the moment; no interpolation.                   *)
PriceAt(series, moment) ==
  LET known == {q \in Priced(series) : q.at <= moment}
  IN  IF known = {} THEN Missing
      ELSE (CHOOSE q \in known : \A r \in known : r.at <= q.at).price

Forward(series, at) == {q \in Priced(series) : q.at > at}

(* What the walk over the forward series sees before it breaks.            *)
InWindow(series, at, config) == {q \in Forward(series, at) : q.at - at <= config.barrier}

Below(anchor, config, q) == 100 * (q.price - anchor) <= -(config.lower * anchor)
Above(anchor, config, q) == 100 * (q.price - anchor) >= config.upper * anchor

\* mutant: where the price is now, not where it has been
TouchesNow(series, at, config) ==
  {q \in InWindow(series, at, config) :
     /\ \A r \in InWindow(series, at, config) : r.at <= q.at
     /\ Below(PriceAt(series, at), config, q) \/ Above(PriceAt(series, at), config, q)}
Touches(series, at, config) ==
  {q \in InWindow(series, at, config) : \/ Below(PriceAt(series, at), config, q)
                                        \/ Above(PriceAt(series, at), config, q)}

(* The first touch decides, the lower barrier before the upper one; without*)
(* one the label is TIMEOUT once the window has really elapsed.            *)
Label(series, at, config, now) ==
  LET touches == Touches(series, at, config)
      first   == CHOOSE q \in touches : \A r \in touches : q.at <= r.at
  IN  IF touches # {}
      THEN IF Below(PriceAt(series, at), config, first) THEN "LOWER" ELSE "UPPER"
      ELSE IF now - at >= config.barrier THEN "TIMEOUT" ELSE "UNRESOLVED"

(* The return at a horizon, as the price there.                            *)
ReturnAt(series, at, horizon, now) ==
  IF now - at < horizon THEN Missing ELSE PriceAt(Forward(series, at), at + horizon)

(* The row compute_outcome gives; best and worst stand for mfe and mae.    *)
Outcome(series, at, config, horizon, now) ==
  LET seen == {q.price : q \in InWindow(series, at, config)}
      label == Label(series, at, config, now)
  IN  [label |-> label,
       return |-> ReturnAt(series, at, horizon, now),
       best   |-> IF seen = {} THEN Missing ELSE Max(seen),
       worst  |-> IF seen = {} THEN Missing ELSE Min(seen),
       final  |-> label # "UNRESOLVED"]
=============================================================================
