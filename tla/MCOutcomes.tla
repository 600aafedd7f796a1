----------------------------- MODULE MCOutcomes -----------------------------
(***************************************************************************)
(* Instances of Outcomes for TLC, for the prices 2 and 3.  A fall touches  *)
(* the first configuration and not the second, which is wider and longer;  *)
(* a rise touches both, the second exactly.                                *)
(***************************************************************************)
EXTENDS Outcomes, TLC

Narrow == [upper |-> 30, lower |-> 20, barrier |-> 1]
Wide == [upper |-> 50, lower |-> 50, barrier |-> 2]
MCBarriers == {Narrow, Wide}
MCOrder == <<Narrow, Wide>>
=============================================================================
