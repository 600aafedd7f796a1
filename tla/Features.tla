------------------------------ MODULE Features ------------------------------
(***************************************************************************)
(* hades.features: the series of a token's observations and the features   *)
(* computed from it.  An observation carries the fields of its snapshot as *)
(* numbers of Curve; a feature is one as well, Unknown when its inputs are *)
(* missing.  A field of the observation is passed by its name, so that the *)
(* velocity and acceleration of market cap and liquidity are one           *)
(* definition each.  The features that nothing decides on are left out:    *)
(* returns, curve consumption, the reply count and the graduation flag.    *)
(***************************************************************************)
EXTENDS Curve, Sequences, FiniteSets, FiniteSetsExt

Cut(series, moment) == Cardinality({i \in DOMAIN series : series[i].at <= moment})

\* mutant: the series is not cut at as_of
Untruncated(series, moment) == series
(* SnapshotSeries.up_to and .window.  A series is in the order of time, so *)
(* what bisect_right finds is how many observations are not later.         *)
UpTo(series, moment) == SubSeq(series, 1, Cut(series, moment))
After(series, moment) == SubSeq(series, Cut(series, moment) + 1, Len(series))
Within(series, moment, seconds) == After(UpTo(series, moment), moment - seconds)

First(series) == Head(series)
Last(series) == series[Len(series)]
Latest(series, field) == IF series = <<>> THEN Unknown ELSE Last(series)[field]

Span(series) == IF Len(series) < 2 THEN Unknown ELSE Whole(Last(series).at - First(series).at)

-----------------------------------------------------------------------------
(* Rates, over the time that was really observed.                          *)

Change(series, field) ==
  IF Len(series) < 2 THEN Unknown ELSE Minus(Last(series)[field], First(series)[field])

Velocity(series, field) == Over(Change(series, field), Span(series))

(* The halves share the middle observation, and the velocity of each is    *)
(* over its own time.                                                      *)
Acceleration(series, field) ==
  LET middle == Len(series) \div 2 + 1
      early == SubSeq(series, 1, middle)
      late == SubSeq(series, middle, Len(series))
  IN  IF Len(series) < 3 THEN Unknown
      ELSE Over(Minus(Velocity(late, field), Velocity(early, field)),
                Whole(First(late).at - First(early).at))

-----------------------------------------------------------------------------
(* The path.                                                               *)

Caps(series) == {v \in {series[i].cap : i \in DOMAIN series} : Known(v)}
Peak(series) ==
  IF Caps(series) = {} THEN Unknown
  ELSE CHOOSE v \in Caps(series) : \A w \in Caps(series) : Atmost(w, v)

Drawdown(series) == Over(Minus(Peak(series), Latest(series, "cap")), Peak(series))

(* The share of intervals in which the price moved, of those whose ends    *)
(* are known.                                                              *)
MovementRatio(series) ==
  LET ends(i) == <<series[i].price, series[i + 1].price>>
      intervals == {i \in 1 .. Len(series) - 1 : Known(ends(i)[1]) /\ Known(ends(i)[2])}
      moved == {i \in intervals : ends(i)[1] # ends(i)[2]}
  IN  Over(Whole(Cardinality(moved)), Whole(Cardinality(intervals)))

-----------------------------------------------------------------------------
(* How much the others can be trusted.                                     *)

Observations(series) == Whole(Len(series))
MeanInterval(series) == Over(Span(series), Whole(Len(series) - 1))
MaxGap(series) ==
  IF Len(series) < 2 THEN Unknown
  ELSE Whole(Max({series[i + 1].at - series[i].at : i \in 1 .. Len(series) - 1}))

Since(moment, time) == Minus(Whole(moment), time)
SinceLastTrade(series) ==
  IF series = <<>> THEN Unknown ELSE Since(Last(series).at, Last(series).traded)
Freshness(series, moment) ==
  IF series = <<>> THEN Unknown ELSE Since(moment, Whole(Last(series).at))

-----------------------------------------------------------------------------
(* compute_features: the lifetime features over everything visible, the    *)
(* others over the window.  Nothing after as_of is visible.                *)
Vector(series, moment, seconds) ==
  LET visible == UpTo(series, moment)
      recent == Within(visible, moment, seconds)
  IN  [age |-> Latest(visible, "age"),
       liquidity |-> Latest(visible, "liquidity"),
       sinceTrade |-> SinceLastTrade(visible),
       drawdown |-> Drawdown(visible),
       span |-> Span(visible), mean |-> MeanInterval(visible), gap |-> MaxGap(visible),
       freshness |-> Freshness(visible, moment),
       capVelocity |-> Velocity(recent, "cap"),
       liquidityVelocity |-> Velocity(recent, "liquidity"),
       capAcceleration |-> Acceleration(recent, "cap"),
       movement |-> MovementRatio(recent),
       count |-> Observations(recent)]
=============================================================================
