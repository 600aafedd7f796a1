------------------------------ MODULE Signalling -----------------------------
(***************************************************************************)
(* The signal loop (Signals) beside what a signal is made of (Market):     *)
(* Signals knows which snapshots a vector may see and Market what is in    *)
(* them.  They share nothing that one of them changes, so a behaviour is   *)
(* one of `part` while the other rests.                                    *)
(***************************************************************************)
EXTENDS Signals

CONSTANTS
  Parts,     \* the machines of a run, of "signals" and "market"
  Curves, RealSol(_), Supply, PoolBase, PoolQuote, DefaultBase, DefaultQuote, \* Market
  Gaps, MarketLookback, WindowSeconds,
  MinAge, MaxAge, MinVelocity, MaxSinceTrade, MinLiquidity, Stakes, FeeRate,
  MarketTime, MaxGaps

VARIABLES
  part,                                          \* the machine of this behaviour
  time, curve, traded, rows, observed, fired     \* Market

market == <<time, curve, traded, rows, observed, fired>>

Market == INSTANCE Market WITH Lookback <- MarketLookback, MaxTime <- MarketTime

ASSUME SignallingAssumption == Parts \subseteq {"signals", "market"} /\ Market!MarketAssumption

PartsInit == part \in Parts /\ Init /\ Market!Init

SignalsMoves == part = "signals" /\ Next /\ UNCHANGED <<part, market>>
MarketMoves == part = "market" /\ Market!Next /\ UNCHANGED <<part, vars>>

allVars == <<part, vars, market>>

PartsSpec == /\ PartsInit /\ [][SignalsMoves \/ MarketMoves]_allVars
             /\ WF_vars(part = "signals" /\ Loop)

-----------------------------------------------------------------------------
(* The type invariants of the two.                                         *)
Typed == TypeOK /\ Market!TypeOK

(* A signal is about a token that is climbing as far as was known then:    *)
(* see Market.                                                             *)
ClimbingWhenSignalled == Market!ClimbingWhenSignalled

(* Both directions of a paper trade cost the fee: see Market.              *)
RoundTripPaysTwice == Market!RoundTripPaysTwice
=============================================================================
