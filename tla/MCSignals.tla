----------------------------- MODULE MCSignals ------------------------------
(***************************************************************************)
(* Instances of Signalling for TLC.  In Signals the strategy wants two     *)
(* snapshots in its window, which is enough for its verdict to depend on   *)
(* what it may see.  In Market a whole unit is two base units, of which    *)
(* the default decimals make eight for the token and four for sol; the     *)
(* curve has the product 1200 in whole units, with caps of 4, 9 and 16.    *)
(***************************************************************************)
EXTENDS Signalling

MCFires(seen) == Cardinality(seen) >= 2

MCCurves == {<<40, 120>>, <<60, 80>>, <<80, 60>>}
MCRealSol(sol) == sol - 20
MCGaps == {{}, {"tokens"}, {"real"}, {"base", "quote"}}
MCFeeRate == [num |-> 1, den |-> 10]
=============================================================================
