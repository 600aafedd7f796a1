--------------------------- MODULE MCPaperTrading ---------------------------
(***************************************************************************)
(* Instances of PaperTrading for TLC.  One unit of time is the spacing of  *)
(* two events worth telling apart, one unit of money a tenth of a small    *)
(* account; a position is 4 units.                                         *)
(***************************************************************************)
EXTENDS PaperTrading, TLC

\* two signals on token "a", the rest on token "b"
MCTokenOf == [s \in Signals |-> IF s <= 2 THEN "a" ELSE "b"]
MCCreatedAt == [t \in Tokens |-> 0]

\* every signal on a token of its own
OwnToken == [s \in Signals |-> s]

\* what a position of Size returns: the price ratio less one unit of friction
MCProceeds(p, q) == Max({0, (Size * q) \div p - 1})

\* Bounds on the world: few snapshots of a token, and signals of one token
\* raised in the order of their ids.
MaxSnapshots == 2
FewSnapshots == \A t \in Tokens : Cardinality(snaps[t]) <= MaxSnapshots
RaisedInOrder ==
  \A s, u \in Signals : TokenOf[s] = TokenOf[u] /\ s < u /\ raisedAt[u] # 0
                          => raisedAt[s] # 0
Small == FewSnapshots /\ RaisedInOrder
=============================================================================
