------------------------ MODULE PaperTrading_proofs ------------------------
(***************************************************************************)
(* The safety of the paper-trading loop for every number of signals and    *)
(* tokens, every batch size, every curve and any number of crashes: type   *)
(* correctness, the exposure limits, verdict and order as one commit, no   *)
(* look-ahead, the life of a trade, and the two money properties, which    *)
(* rest on the sums of DataLemmas.                                         *)
(***************************************************************************)
EXTENDS PaperTrading, DataLemmas

\* What the proofs use of the assumption on the constants.
LEMMA ConstantTypes ==
  /\ Prices \subseteq Nat
  /\ TokenOf \in [Signals -> Tokens]
  /\ Size \in Nat /\ Latency \in Nat /\ MaxOpen \in Nat /\ MaxPerToken \in Nat
  /\ StartBalance \in Nat /\ Day \in Nat /\ MaxDailyLoss \in Nat
  /\ IsFiniteSet(Signals)
  /\ \A p, q \in Prices : Proceeds(p, q) \in Nat
  BY PaperAssumption

LEMMA LevelIsNat == ASSUME NEW p \in Prices \cup {0} PROVE p \in Nat
  BY ConstantTypes

\* A snapshot's columns.
LEMMA SnapshotFields ==
  ASSUME NEW q \in Snapshot
  PROVE  /\ q.at \in Nat
         /\ q.price \in Nat
         /\ q.price # NoPrice => q.price \in Prices
<1>1. q.at \in Nat /\ q.price \in Prices \cup {0}
  BY DEF Snapshot, NoPrice
<1>2. q.price \in Nat
  BY <1>1, LevelIsNat
<1>3. QED  BY <1>1, <1>2 DEF NoPrice

\* The larger of two natural numbers is one of them.
LEMMA MaxOfTwo ==
  ASSUME NEW a \in Nat, NEW b \in Nat
  PROVE  /\ Max({a, b}) \in Nat
         /\ Max({a, b}) >= a
         /\ Max({a, b}) >= b
<1> DEFINE P(x) == x \in {a, b} /\ \A y \in {a, b} : x >= y
<1>1. \E x \in {a, b} : \A y \in {a, b} : x >= y
  <2>1. CASE a >= b  BY <2>1
  <2>2. CASE b >= a  BY <2>2
  <2>3. QED  BY <2>1, <2>2
<1>2. /\ Max({a, b}) \in {a, b}
      /\ \A y \in {a, b} : Max({a, b}) >= y
  BY <1>1 DEF Max
<1>3. QED  BY <1>2

\* The row no signal has yet.
LEMMA EmptyRow == NoTrade \in Trade /\ NoTrade.state = "NONE"
  BY DEF NoTrade, Trade

\* A filled order is a row of paper_trades, and an open one has a real price.
LEMMA FillRowType ==
  ASSUME NEW r \in Trade, NEW q \in Snapshot
  PROVE  /\ FillRow(r, q) \in Trade
         /\ FillRow(r, q).state = "CANCELLED" \/ FillRow(r, q).entryPrice \in Prices
  BY SnapshotFields DEF FillRow, Trade

\* decide_exit answers with a reason or with "NONE".
LEMMA ExitReasonType ==
  ASSUME NEW r, NEW q
  PROVE  ExitReason(r, q) \in Reasons \cup {"NONE"}
  BY DEF ExitReason, PriceRule, Reasons

\* manage_open leaves a row of paper_trades.
LEMMA ManageRowType ==
  ASSUME NEW r \in Trade, r.entryPrice \in Prices, NEW q \in Snapshot
  PROVE  /\ ManageRow(r, q) \in Trade
         /\ ManageRow(r, q).entryPrice = r.entryPrice
<1>1. CASE ExitReason(r, q) = "NONE"
  <2>1. r.peak \in Nat /\ q.price \in Nat
    BY SnapshotFields DEF Trade
  <2>2. Max({r.peak, q.price}) \in Nat
    BY <2>1, MaxOfTwo
  <2>3. QED
    BY <1>1, <2>2 DEF ManageRow, Trade
<1>2. CASE ExitReason(r, q) # "NONE"
  <2>1. CASE q.price = NoPrice
    BY <1>2, <2>1 DEF ManageRow, CloseRow
  <2>2. CASE q.price # NoPrice
    <3>1. q.price \in Prices /\ q.at \in Nat
      BY <2>2, SnapshotFields
    <3>2. Proceeds(r.entryPrice, q.price) \in Nat
      BY <3>1, ConstantTypes
    <3>3. Proceeds(r.entryPrice, q.price) - Size \in Int
      BY <3>2, ConstantTypes
    <3>4. QED
      BY <1>2, <2>2, <3>1, <3>3, ExitReasonType DEF ManageRow, CloseRow, Trade
  <2>3. QED  BY <2>1, <2>2
<1>3. QED  BY <1>1, <1>2

-----------------------------------------------------------------------------
LEMMA TypeInit == Init => TypeOK
<1>2. riskExit = FALSE => riskExit \in BOOLEAN
  BY Zenon
<1>3. QED  BY EmptyRow, <1>2 DEF Init, TypeOK

LEMMA TypeNext == TypeOK /\ WorkIsCurrent /\ [Next]_vars => TypeOK'
<1> SUFFICES ASSUME TypeOK, WorkIsCurrent, [Next]_vars PROVE TypeOK'
  OBVIOUS
<1> USE ConstantTypes DEF TypeOK, tables, world
<1>1. CASE Tick
  BY <1>1 DEF Tick
<1>2. ASSUME NEW t \in Tokens, NEW at \in 1..now, NEW p \in Prices \cup {NoPrice},
             RecordSnapshot(t, at, p)
      PROVE  TypeOK'
  <2>1. [at |-> at, price |-> p] \in Snapshot
    BY DEF Snapshot
  <2>2. QED
    BY <1>2, <2>1 DEF RecordSnapshot
<1>3. ASSUME NEW s \in Signals, NEW q \in snaps[TokenOf[s]], RaiseSignal(s, q)
      PROVE  TypeOK'
  <2>1. q.at \in Nat
    BY DEF Snapshot
  <2>2. QED
    BY <1>3, <2>1 DEF RaiseSignal
<1>4. CASE BeginPass
  BY <1>4 DEF BeginPass, Undecided
<1>5. ASSUME NEW s \in Signals, Decide(s)
      PROVE  TypeOK'
  <2>1. [NoTrade EXCEPT !.state = "PENDING", !.submitAt = now + Latency] \in Trade
    <3>1. now + Latency \in Nat
      OBVIOUS
    <3>2. QED  BY <3>1, EmptyRow DEF Trade
  <2>2. CASE \E q \in snaps[TokenOf[s]] : q.at <= now
    <3>1. decidedAt' \in [Signals -> Nat]
      BY <1>5, <2>2 DEF Decide
    <3>2. Approve(s) \/ Reject(s)
      BY <1>5, <2>2, Zenon DEF Decide
    <3>3. /\ verdict' \in [Signals -> {"none", "approved", "rejected"}]
          /\ trade' \in [Signals -> Trade]
      BY <2>1, <3>2 DEF Approve, Reject
    <3>4. \A u \in Signals : trade'[u].state \in {"OPEN", "CLOSED"}
                               => trade'[u].entryPrice \in Prices
      <4>1. CASE Reject(s)
        BY <4>1 DEF Reject
      <4>2. CASE Approve(s)
        <5>1. trade'[s].state = "PENDING"
          BY <4>2 DEF Approve, NoTrade
        <5>2. ASSUME NEW u \in Signals, u # s PROVE trade'[u] = trade[u]
          BY <4>2, <5>2 DEF Approve
        <5>3. QED  BY <5>1, <5>2
      <4>3. QED  BY <3>2, <4>1, <4>2
    <3>5. QED
      BY <1>5, <3>1, <3>3, <3>4 DEF Decide
  <2>3. CASE ~ \E q \in snaps[TokenOf[s]] : q.at <= now
    BY <1>5, <2>3 DEF Decide
  <2>4. QED  BY <2>2, <2>3
<1>6. CASE StartFill
  BY <1>6 DEF StartFill, Due, InState
<1>7. ASSUME NEW s \in Signals, Fill(s)
      PROVE  TypeOK'
  <2>1. CASE UNCHANGED trade
    BY <1>7, <2>1 DEF Fill
  <2>2. ASSUME NEW q \in snaps[TokenOf[s]],
               trade' = [trade EXCEPT ![s] = FillRow(trade[s], q)]
        PROVE  TypeOK'
    <3>1. q \in Snapshot /\ trade[s] \in Trade
      OBVIOUS
    <3>2. QED
      BY <1>7, <2>2, <3>1, FillRowType DEF Fill
  <2>3. QED  BY <1>7, <2>1, <2>2 DEF Fill
<1>8. CASE StartManage
  BY <1>8 DEF StartManage, InState
<1>9. ASSUME NEW s \in Signals, Manage(s)
      PROVE  TypeOK'
  <2>0. trade[s].state = "OPEN"
    BY <1>9 DEF Manage, WorkIsCurrent
  <2>1. PICK q \in snaps[TokenOf[s]] : trade' = [trade EXCEPT ![s] = ManageRow(trade[s], q)]
    BY <1>9 DEF Manage
  <2>2. q \in Snapshot /\ trade[s] \in Trade /\ trade[s].entryPrice \in Prices
    BY <2>0
  <2>3. QED
    BY <1>9, <2>1, <2>2, ManageRowType DEF Manage
<1>10. CASE EndPass
  BY <1>10 DEF EndPass
<1>11. CASE Crash
  <2>1. riskExit' \in BOOLEAN
    BY <1>11, Zenon DEF Crash
  <2>2. QED  BY <1>11, <2>1 DEF Crash
<1>12. CASE UNCHANGED vars
  BY <1>12 DEF vars
<1>13. QED
  BY <1>1, <1>2, <1>3, <1>4, <1>5, <1>6, <1>7, <1>8, <1>9, <1>10, <1>11, <1>12
     DEF Next, World, Loop
-----------------------------------------------------------------------------
(* What each step does to the state of a trade.                            *)

\* Approve opens an order for a signal that had none and writes its verdict.
LEMMA ApproveEffect ==
  ASSUME TypeOK, NEW s \in Signals, Approve(s)
  PROVE  /\ trade'[s].state = "PENDING"
         /\ verdict'[s] = "approved"
         /\ \A u \in Signals \ {s} : trade'[u] = trade[u] /\ verdict'[u] = verdict[u]
  BY EmptyRow DEF TypeOK, Approve, Trade

\* Fill takes an order of its list to OPEN or CANCELLED, or leaves it.
LEMMA FillEffect ==
  ASSUME TypeOK, WorkIsCurrent, NEW s \in Signals, Fill(s)
  PROVE  /\ trade[s].state = "PENDING"
         /\ trade'[s].state \in {"PENDING", "OPEN", "CANCELLED"}
         /\ \A u \in Signals \ {s} : trade'[u] = trade[u]
<1>1. trade[s].state = "PENDING" /\ trade[s] \in Trade
  BY DEF Fill, WorkIsCurrent, TypeOK
<1>2. CASE UNCHANGED trade
  BY <1>1, <1>2
<1>3. ASSUME NEW q \in snaps[TokenOf[s]],
             trade' = [trade EXCEPT ![s] = FillRow(trade[s], q)]
      PROVE  /\ trade'[s].state \in {"OPEN", "CANCELLED"}
             /\ \A u \in Signals \ {s} : trade'[u] = trade[u]
  BY <1>1, <1>3 DEF TypeOK, FillRow, Trade
<1>4. QED
  BY <1>1, <1>2, <1>3 DEF Fill

\* Manage takes a position of its list to CLOSED, or leaves it OPEN.
LEMMA ManageEffect ==
  ASSUME TypeOK, WorkIsCurrent, NEW s \in Signals, Manage(s)
  PROVE  /\ trade[s].state = "OPEN"
         /\ trade'[s].state \in {"OPEN", "CLOSED"}
         /\ \A u \in Signals \ {s} : trade'[u] = trade[u]
<1>1. trade[s].state = "OPEN" /\ trade[s] \in Trade
  BY DEF Manage, WorkIsCurrent, TypeOK
<1>2. PICK q \in snaps[TokenOf[s]] : trade' = [trade EXCEPT ![s] = ManageRow(trade[s], q)]
  BY DEF Manage
<1>3. ManageRow(trade[s], q).state \in {"OPEN", "CLOSED"}
  BY <1>1 DEF ManageRow, CloseRow, Trade
<1>4. QED
  BY <1>1, <1>2, <1>3 DEF TypeOK

-----------------------------------------------------------------------------
LEMMA WorkInit == Init => WorkIsCurrent
  BY DEF Init, WorkIsCurrent

LEMMA WorkNext == TypeOK /\ WorkIsCurrent /\ [Next]_vars => WorkIsCurrent'
<1> SUFFICES ASSUME TypeOK, WorkIsCurrent, [Next]_vars PROVE WorkIsCurrent'
  OBVIOUS
<1> USE DEF WorkIsCurrent, tables, world
<1>1. CASE Tick
  BY <1>1 DEF Tick
<1>2. ASSUME NEW t \in Tokens, NEW at \in 1..now, NEW p \in Prices \cup {NoPrice},
             RecordSnapshot(t, at, p)
      PROVE  WorkIsCurrent'
  BY <1>2 DEF RecordSnapshot
<1>3. ASSUME NEW s \in Signals, NEW q \in snaps[TokenOf[s]], RaiseSignal(s, q)
      PROVE  WorkIsCurrent'
  BY <1>3 DEF RaiseSignal
<1>4. CASE BeginPass
  BY <1>4 DEF BeginPass, Undecided
<1>5. ASSUME NEW s \in Signals, Decide(s)
      PROVE  WorkIsCurrent'
  <2>1. pc = "decide" /\ pc' = pc /\ todo' = todo \ {s}
    BY <1>5 DEF Decide
  <2>2. \A u \in Signals \ {s} : verdict'[u] = verdict[u]
    <3>1. CASE Approve(s)
      BY <3>1, ApproveEffect
    <3>2. CASE Reject(s)
      BY <3>2 DEF Reject, TypeOK
    <3>3. CASE UNCHANGED tables
      BY <3>3
    <3>4. QED
      BY <1>5, <3>1, <3>2, <3>3, Zenon DEF Decide
  <2>3. QED  BY <2>1, <2>2 DEF TypeOK
<1>6. CASE StartFill
  BY <1>6 DEF StartFill, Due, InState
<1>7. ASSUME NEW s \in Signals, Fill(s)
      PROVE  WorkIsCurrent'
  BY <1>7, FillEffect DEF Fill, TypeOK
<1>8. CASE StartManage
  BY <1>8 DEF StartManage, InState
<1>9. ASSUME NEW s \in Signals, Manage(s)
      PROVE  WorkIsCurrent'
  BY <1>9, ManageEffect DEF Manage, TypeOK
<1>10. CASE EndPass
  BY <1>10 DEF EndPass
<1>11. CASE Crash
  BY <1>11 DEF Crash
<1>12. CASE UNCHANGED vars
  BY <1>12 DEF vars
<1>13. QED
  BY <1>1, <1>2, <1>3, <1>4, <1>5, <1>6, <1>7, <1>8, <1>9, <1>10, <1>11, <1>12
     DEF Next, World, Loop

\* Every state of the loop is well typed.
THEOREM TypeCorrect == Spec => []TypeOK
<1>1. Init => TypeOK /\ WorkIsCurrent
  BY TypeInit, WorkInit
<1>2. TypeOK /\ WorkIsCurrent /\ [Next]_vars => TypeOK' /\ WorkIsCurrent'
  BY TypeNext, WorkNext
<1>3. QED  BY <1>1, <1>2, PTL DEF Spec

\* No step ever writes a row whose state changed since the step selected it.
THEOREM WorkStaysCurrent == Spec => []WorkIsCurrent
<1>1. Init => TypeOK /\ WorkIsCurrent
  BY TypeInit, WorkInit
<1>2. TypeOK /\ WorkIsCurrent /\ [Next]_vars => TypeOK' /\ WorkIsCurrent'
  BY TypeNext, WorkNext
<1>3. QED  BY <1>1, <1>2, PTL DEF Spec

-----------------------------------------------------------------------------
\* A step that lets no order in: exposure shrinks, and at most a rejection is
\* written for a signal that had no verdict.
Shrinks ==
  \A u \in Signals :
    /\ trade'[u].state \in {"PENDING", "OPEN"} => trade[u].state \in {"PENDING", "OPEN"}
    /\ trade'[u].state = "NONE" <=> trade[u].state = "NONE"
    /\ \/ verdict'[u] = verdict[u]
       \/ verdict[u] = "none" /\ verdict'[u] = "rejected"

\* A step that lets the order of signal s in.
Admits(s) ==
  /\ verdict[s] = "none"
  /\ Approve(s)
  /\ Cardinality(Held) <= MaxOpen - 1
  /\ Cardinality(HeldFor(TokenOf[s])) <= MaxPerToken - 1

\* A step that touches one held order at most, or none, and rejects at most.
LEMMA ShrinksIntro ==
  ASSUME NEW s \in Signals,
         \A u \in Signals \ {s} : trade'[u] = trade[u],
         \/ trade'[s] = trade[s]
         \/ trade[s].state \in {"PENDING", "OPEN"} /\ trade'[s].state # "NONE",
         \A u \in Signals : \/ verdict'[u] = verdict[u]
                            \/ verdict[u] = "none" /\ verdict'[u] = "rejected"
  PROVE  Shrinks
  BY DEF Shrinks

LEMMA QuietShrinks == UNCHANGED <<verdict, trade>> => Shrinks
  BY DEF Shrinks

\* Every step is one or the other.
LEMMA StepShape ==
  ASSUME TypeOK, WorkIsCurrent, [Next]_vars
  PROVE  Shrinks \/ \E s \in Signals : Admits(s)
<1>1. ASSUME UNCHANGED <<verdict, trade>>
      PROVE  Shrinks
  BY <1>1, QuietShrinks
<1>2. ASSUME NEW s \in Signals, Reject(s), verdict[s] = "none"
      PROVE  Shrinks
  <2>1. \A u \in Signals : \/ verdict'[u] = verdict[u]
                           \/ verdict[u] = "none" /\ verdict'[u] = "rejected"
    BY <1>2 DEF Reject, TypeOK
  <2>2. trade' = trade
    BY <1>2 DEF Reject
  <2>3. QED  BY <2>1, <2>2, ShrinksIntro
<1>3. ASSUME NEW s \in Signals, Decide(s)
      PROVE  Shrinks \/ Admits(s)
  <2>1. verdict[s] = "none"
    BY <1>3 DEF Decide, WorkIsCurrent
  <2>2. \/ UNCHANGED <<verdict, trade>>
        \/ Reject(s)
        \/ \E q \in snaps[TokenOf[s]] : Approves(s, q) /\ Approve(s)
    BY <1>3, Zenon DEF Decide, tables
  <2>3. ASSUME NEW q, Approves(s, q), Approve(s)
        PROVE  Admits(s)
    BY <2>1, <2>3 DEF Approves, Admits
  <2>4. QED  BY <1>1, <1>2, <2>1, <2>2, <2>3
<1>4. ASSUME NEW s \in Signals, Fill(s) \/ Manage(s)
      PROVE  Shrinks
  <2>1. /\ trade[s].state \in {"PENDING", "OPEN"}
        /\ trade'[s].state # "NONE"
        /\ \A u \in Signals \ {s} : trade'[u] = trade[u]
    BY <1>4, FillEffect, ManageEffect
  <2>2. UNCHANGED verdict
    BY <1>4 DEF Fill, Manage
  <2>3. QED  BY <2>1, <2>2, ShrinksIntro
<1>5. ASSUME World \/ BeginPass \/ StartFill \/ StartManage \/ EndPass \/ Crash \/ UNCHANGED vars
      PROVE  Shrinks
  <2>1. UNCHANGED <<verdict, trade>>
    BY <1>5 DEF World, Tick, RecordSnapshot, RaiseSignal, BeginPass, StartFill,
                StartManage, EndPass, Crash, vars, tables, world
  <2>2. QED  BY <1>1, <2>1
<1>6. QED
  BY <1>3, <1>4, <1>5 DEF Next, Loop

\* The decision row and the order it authorises are written together.
THEOREM VerdictAndOrderTogether == Spec => []TradeIffApproved
<1>1. Init => TradeIffApproved
  BY EmptyRow DEF Init, TradeIffApproved
<1>2. ASSUME TypeOK, WorkIsCurrent, TradeIffApproved, [Next]_vars
      PROVE  TradeIffApproved'
  <2>1. ASSUME NEW s \in Signals, Approve(s)
        PROVE  TradeIffApproved'
    BY <1>2, <2>1, ApproveEffect DEF TradeIffApproved
  <2>2. CASE Shrinks
    BY <1>2, <2>2 DEF TradeIffApproved, Shrinks
  <2>3. QED  BY <1>2, <2>1, <2>2, StepShape DEF Admits
<1>3. QED  BY <1>1, <1>2, TypeCorrect, WorkStaysCurrent, PTL DEF Spec

-----------------------------------------------------------------------------
\* One more element raises a cardinality by at most one.
LEMMA GrowByOne ==
  ASSUME NEW S, NEW T, NEW x, IsFiniteSet(S), T \subseteq S \cup {x}
  PROVE  /\ IsFiniteSet(T)
         /\ Cardinality(T) \in Nat /\ Cardinality(S) \in Nat
         /\ Cardinality(T) <= Cardinality(S) + 1
<1>1. /\ IsFiniteSet(S \cup {x})
      /\ Cardinality(S \cup {x}) = IF x \in S THEN Cardinality(S) ELSE Cardinality(S) + 1
  BY FS_AddElement
<1>2. IsFiniteSet(T) /\ Cardinality(T) <= Cardinality(S \cup {x})
  BY <1>1, FS_Subset
<1>3. /\ Cardinality(S) \in Nat /\ Cardinality(T) \in Nat
      /\ Cardinality(S \cup {x}) \in Nat
  BY <1>1, <1>2, FS_CardinalityType
<1>4. QED  BY <1>1, <1>2, <1>3

\* The sets the gates count are the ones the caps are about, and finite.
LEMMA ExposureSets ==
  /\ AllExposed = Held
  /\ \A t \in Tokens : Exposed(t) = HeldFor(t)
  /\ IsFiniteSet(Held)
  /\ \A t \in Tokens : IsFiniteSet(HeldFor(t))
<1>1. AllExposed = Held
  BY ConstantTypes DEF AllExposed, Exposed, Held, InState
<1>2. \A t \in Tokens : Exposed(t) = HeldFor(t)
  BY DEF Exposed, HeldFor, Held, InState
<1>3. Held \subseteq Signals /\ \A t \in Tokens : HeldFor(t) \subseteq Signals
  BY DEF Held, HeldFor, InState
<1>4. QED  BY <1>1, <1>2, <1>3, ConstantTypes, FS_Subset

\* max_open_positions and max_open_per_token hold in every state.
THEOREM ExposureCapped == Spec => []PositionCaps
<1>1. Init => PositionCaps
  <2>1. SUFFICES ASSUME Init PROVE PositionCaps
    OBVIOUS
  <2>2. AllExposed = {} /\ \A t \in Tokens : Exposed(t) = {}
    BY <2>1, EmptyRow DEF Init, AllExposed, Exposed
  <2>3. QED  BY <2>2, FS_EmptySet, ConstantTypes DEF PositionCaps
<1>2. ASSUME TypeOK, WorkIsCurrent, PositionCaps, [Next]_vars
      PROVE  PositionCaps'
  <2>1. /\ AllExposed' = Held'
        /\ \A t \in Tokens : Exposed(t)' = HeldFor(t)'
    BY ConstantTypes DEF AllExposed, Exposed, Held, HeldFor, InState
  <2>2. /\ Cardinality(Held) <= MaxOpen
        /\ \A t \in Tokens : Cardinality(HeldFor(t)) <= MaxPerToken
    BY <1>2, ExposureSets DEF PositionCaps
  <2>3. CASE Shrinks
    <3>1. Held' \subseteq Held /\ \A t \in Tokens : HeldFor(t)' \subseteq HeldFor(t)
      BY <2>3 DEF Held, HeldFor, InState, Shrinks
    <3>2. /\ Cardinality(Held') <= MaxOpen
      BY <2>2, <3>1, ExposureSets, FS_Subset, FS_CardinalityType, ConstantTypes
    <3>3. ASSUME NEW t \in Tokens
          PROVE  Cardinality(HeldFor(t)') <= MaxPerToken
      BY <2>2, <3>1, ExposureSets, FS_Subset, FS_CardinalityType, ConstantTypes
    <3>4. QED  BY <2>1, <3>2, <3>3 DEF PositionCaps
  <2>4. ASSUME NEW s \in Signals, Admits(s)
        PROVE  PositionCaps'
    <3>1. /\ Held' \subseteq Held \cup {s}
          /\ \A t \in Tokens : HeldFor(t)' \subseteq HeldFor(t) \cup {s}
          /\ \A t \in Tokens : t # TokenOf[s] => HeldFor(t)' \subseteq HeldFor(t)
      BY <1>2, <2>4, ApproveEffect DEF Held, HeldFor, InState, Admits
    <3>2. Cardinality(Held') <= MaxOpen
      <4>1. /\ Cardinality(Held') \in Nat /\ Cardinality(Held) \in Nat
            /\ Cardinality(Held') <= Cardinality(Held) + 1
        BY <3>1, ExposureSets, GrowByOne
      <4>2. QED
        BY <2>4, <4>1, ConstantTypes DEF Admits
    <3>3. Cardinality(HeldFor(TokenOf[s])') <= MaxPerToken
      <4>1. TokenOf[s] \in Tokens
        BY ConstantTypes
      <4>2. /\ HeldFor(TokenOf[s])' \subseteq HeldFor(TokenOf[s]) \cup {s}
            /\ IsFiniteSet(HeldFor(TokenOf[s]))
        BY <3>1, <4>1, ExposureSets
      <4>3. /\ Cardinality(HeldFor(TokenOf[s])') \in Nat
            /\ Cardinality(HeldFor(TokenOf[s])) \in Nat
            /\ Cardinality(HeldFor(TokenOf[s])') <= Cardinality(HeldFor(TokenOf[s])) + 1
        BY <4>2, GrowByOne
      <4>4. QED
        BY <2>4, <4>3, ConstantTypes DEF Admits
    <3>4. ASSUME NEW t \in Tokens, t # TokenOf[s]
          PROVE  Cardinality(HeldFor(t)') <= MaxPerToken
      BY <2>2, <3>1, <3>4, ExposureSets, FS_Subset, FS_CardinalityType, ConstantTypes
    <3>5. QED  BY <2>1, <3>2, <3>3, <3>4 DEF PositionCaps
  <2>5. QED  BY <1>2, <2>3, <2>4, StepShape
<1>3. QED  BY <1>1, <1>2, TypeCorrect, WorkStaysCurrent, PTL DEF Spec

-----------------------------------------------------------------------------
(* What a step does to the trade of one signal.                            *)

\* The trade is as it was, and so is the moment it was decided.
Kept(s) == /\ trade'[s] = trade[s]
           /\ trade[s].state # "NONE" => decidedAt'[s] = decidedAt[s]

SameEntry(s) == /\ decidedAt'[s] = decidedAt[s]
                /\ trade'[s].submitAt = trade[s].submitAt
                /\ trade'[s].entryTime = trade[s].entryTime
                /\ trade'[s].entryPrice = trade[s].entryPrice

\* The gates let its order in.
Ordered(s) == /\ trade[s].state = "NONE" /\ trade'[s].state = "PENDING"
              /\ trade'[s].submitAt = decidedAt'[s] + Latency
              /\ \E q : Approves(s, q)

Filled(s) == /\ trade[s].state = "PENDING" /\ trade'[s].state = "OPEN"
             /\ decidedAt'[s] = decidedAt[s]
             /\ trade'[s].submitAt = trade[s].submitAt
             /\ \E q \in snaps[TokenOf[s]] :
                  /\ FirstAtOrAfter(q, TokenOf[s], trade[s].submitAt)
                  /\ trade'[s].entryTime = q.at /\ trade'[s].entryPrice = q.price

Cancelled(s) == /\ trade[s].state = "PENDING" /\ trade'[s].state = "CANCELLED"
                /\ SameEntry(s)

Marked(s) == /\ trade[s].state = "OPEN" /\ trade'[s].state = "OPEN"
             /\ SameEntry(s) /\ trade'[s].peak >= trade[s].peak

Exited(s) == /\ trade[s].state = "OPEN" /\ trade'[s].state = "CLOSED"
             /\ SameEntry(s) /\ trade'[s].peak = trade[s].peak
             /\ trade'[s].net \in Int /\ trade'[s].net >= -Size
             /\ \E q : Latest(q, TokenOf[s]) /\ trade'[s].exitTime = q.at

Moved(s) == Ordered(s) \/ Filled(s) \/ Cancelled(s) \/ Marked(s) \/ Exited(s)

LEMMA DecideMoves ==
  ASSUME TypeOK, WorkIsCurrent, TradeIffApproved, NEW s \in Signals, Decide(s)
  PROVE  /\ Kept(s) \/ Ordered(s)
         /\ \A u \in Signals \ {s} : Kept(u)
<1>1. verdict[s] = "none" /\ trade[s].state = "NONE"
  BY DEF Decide, WorkIsCurrent, TradeIffApproved
<1>2. CASE UNCHANGED tables
  BY <1>2 DEF tables, Kept
<1>3. CASE decidedAt' = [decidedAt EXCEPT ![s] = now]
  <2>1. /\ decidedAt'[s] = now
        /\ \A u \in Signals \ {s} : decidedAt'[u] = decidedAt[u]
    BY <1>3 DEF TypeOK
  <2>2. CASE Reject(s)
    <3>1. trade' = trade
      BY <2>2 DEF Reject
    <3> QED BY <1>1, <2>1, <3>1 DEF Kept
  <2>3. ASSUME NEW q, Approves(s, q), Approve(s)
        PROVE  Ordered(s) /\ \A u \in Signals \ {s} : Kept(u)
    <3>1. trade'[s] = [NoTrade EXCEPT !.state = "PENDING", !.submitAt = now + Latency]
      BY <2>3 DEF Approve, TypeOK
    <3>2. trade'[s].state = "PENDING" /\ trade'[s].submitAt = now + Latency
      BY <3>1 DEF NoTrade
    <3>3. \A u \in Signals \ {s} : trade'[u] = trade[u]
      BY <2>3, ApproveEffect
    <3> QED BY <1>1, <2>1, <2>3, <3>2, <3>3 DEF Ordered, Kept
  <2>4. \/ Reject(s) \/ UNCHANGED tables
        \/ \E q : Approves(s, q) /\ Approve(s)
    BY Zenon DEF Decide
  <2> QED BY <1>2, <2>2, <2>3, <2>4
<1> QED BY <1>2, <1>3, Zenon DEF Decide

LEMMA FillMoves ==
  ASSUME TypeOK, WorkIsCurrent, NEW s \in Signals, Fill(s)
  PROVE  /\ Kept(s) \/ Filled(s) \/ Cancelled(s)
         /\ \A u \in Signals \ {s} : Kept(u)
<1>1. /\ trade[s] \in Trade /\ trade[s].state = "PENDING"
      /\ decidedAt' = decidedAt
      /\ \A u \in Signals \ {s} : trade'[u] = trade[u]
  BY FillEffect DEF TypeOK, Fill, tables
<1>2. CASE UNCHANGED trade
  BY <1>1, <1>2 DEF Kept
<1>3. ASSUME NEW q \in snaps[TokenOf[s]],
             FirstAtOrAfter(q, TokenOf[s], trade[s].submitAt),
             trade' = [trade EXCEPT ![s] = FillRow(trade[s], q)]
      PROVE  Filled(s) \/ Cancelled(s)
  <2>1. trade'[s] = FillRow(trade[s], q)
    BY <1>3 DEF TypeOK
  <2>2. CASE q.price = NoPrice
    <3>1. trade'[s] = [trade[s] EXCEPT !.state = "CANCELLED"]
      BY <2>1, <2>2 DEF FillRow
    <3> QED BY <1>1, <3>1 DEF Cancelled, SameEntry, Trade
  <2>3. CASE q.price # NoPrice
    <3>1. trade'[s] = [trade[s] EXCEPT !.state = "OPEN", !.entryTime = q.at,
                                       !.entryPrice = q.price, !.peak = q.price]
      BY <2>1, <2>3 DEF FillRow
    <3>2. /\ trade'[s].state = "OPEN" /\ trade'[s].submitAt = trade[s].submitAt
          /\ trade'[s].entryTime = q.at /\ trade'[s].entryPrice = q.price
      BY <1>1, <3>1 DEF Trade
    <3> QED BY <1>1, <1>3, <3>2 DEF Filled
  <2> QED BY <2>2, <2>3
<1> QED BY <1>1, <1>2, <1>3 DEF Fill, Kept

LEMMA ManageMoves ==
  ASSUME TypeOK, WorkIsCurrent, NEW s \in Signals, Manage(s)
  PROVE  /\ Kept(s) \/ Marked(s) \/ Exited(s)
         /\ \A u \in Signals \ {s} : Kept(u)
<1>1. /\ trade[s] \in Trade /\ trade[s].state = "OPEN" /\ trade[s].entryPrice \in Prices
      /\ decidedAt' = decidedAt
      /\ \A u \in Signals \ {s} : trade'[u] = trade[u]
  BY ManageEffect DEF TypeOK, Manage, tables
<1>2. PICK q \in snaps[TokenOf[s]] :
        /\ Latest(q, TokenOf[s])
        /\ trade' = [trade EXCEPT ![s] = ManageRow(trade[s], q)]
  BY DEF Manage
<1>3. q \in Snapshot /\ trade'[s] = ManageRow(trade[s], q)
  BY <1>2, ConstantTypes DEF TypeOK
<1>4. q.at \in Nat /\ q.price \in Nat /\ (q.price # NoPrice => q.price \in Prices)
  BY <1>3, SnapshotFields
<1>5. CASE ExitReason(trade[s], q) = "NONE"
  <2> DEFINE mark == Max({trade[s].peak, q.price})
  <2>1. trade[s].peak \in Nat
    BY <1>1 DEF Trade
  <2>2. mark \in Nat /\ mark >= trade[s].peak
    BY <1>4, <2>1, MaxOfTwo
  <2>3. trade'[s] = [trade[s] EXCEPT !.peak = mark]
    BY <1>3, <1>5 DEF ManageRow
  <2>4. /\ trade'[s].state = trade[s].state /\ trade'[s].peak = mark
        /\ trade'[s].submitAt = trade[s].submitAt
        /\ trade'[s].entryTime = trade[s].entryTime
        /\ trade'[s].entryPrice = trade[s].entryPrice
    <3> DEFINE r == trade[s]
    <3>1. r \in Trade /\ trade'[s] = [r EXCEPT !.peak = mark]
      BY <1>1, <2>3
    <3> HIDE DEF r, mark
    <3>2. /\ trade'[s].state = r.state /\ trade'[s].peak = mark
          /\ trade'[s].submitAt = r.submitAt /\ trade'[s].entryTime = r.entryTime
          /\ trade'[s].entryPrice = r.entryPrice
      BY <3>1 DEF Trade
    <3> QED BY <3>2 DEF r
  <2> HIDE DEF mark
  <2> QED BY <1>1, <2>2, <2>4 DEF Marked, SameEntry, Kept
<1>6. CASE ExitReason(trade[s], q) # "NONE"
  <2>1. trade'[s] = CloseRow(trade[s], q, ExitReason(trade[s], q))
    BY <1>3, <1>6 DEF ManageRow
  <2>2. CASE q.price = NoPrice
    BY <1>1, <2>1, <2>2 DEF CloseRow, Kept
  <2>3. CASE q.price # NoPrice
    <3> DEFINE net == Proceeds(trade[s].entryPrice, q.price) - Size
               why == ExitReason(trade[s], q)
    <3>1. net \in Int /\ net >= -Size
      <4>1. Proceeds(trade[s].entryPrice, q.price) \in Nat
        BY <1>1, <1>4, <2>3, ConstantTypes
      <4> QED BY <4>1, ConstantTypes
    <3>2. trade'[s] = [trade[s] EXCEPT !.state = "CLOSED", !.exitTime = q.at,
                                       !.reason = why, !.net = net]
      BY <2>1, <2>3 DEF CloseRow
    <3> HIDE DEF net, why
    <3>3. /\ trade'[s].state = "CLOSED" /\ trade'[s].exitTime = q.at /\ trade'[s].net = net
          /\ trade'[s].submitAt = trade[s].submitAt
          /\ trade'[s].entryTime = trade[s].entryTime
          /\ trade'[s].entryPrice = trade[s].entryPrice
          /\ trade'[s].peak = trade[s].peak
      <4> DEFINE r == trade[s]
      <4>1. /\ r \in Trade
            /\ trade'[s] = [r EXCEPT !.state = "CLOSED", !.exitTime = q.at,
                                     !.reason = why, !.net = net]
        BY <1>1, <3>2
      <4> HIDE DEF r
      <4>2. /\ trade'[s].state = "CLOSED" /\ trade'[s].exitTime = q.at /\ trade'[s].net = net
            /\ trade'[s].submitAt = r.submitAt /\ trade'[s].entryTime = r.entryTime
            /\ trade'[s].entryPrice = r.entryPrice /\ trade'[s].peak = r.peak
        BY <4>1 DEF Trade
      <4> QED BY <4>2 DEF r
    <3> QED BY <1>1, <1>2, <3>1, <3>3 DEF Exited, SameEntry, Kept
  <2> QED BY <2>2, <2>3
<1> QED BY <1>1, <1>5, <1>6 DEF Kept

\* The snapshots a step commits are later than those of their token.
Appends ==
  \A t \in Tokens : /\ snaps[t] \subseteq snaps'[t]
                    /\ \A n \in snaps'[t] \ snaps[t], r \in snaps[t] : r.at < n.at

\* A step moves one trade at most, and then nothing else in the world moves.
LEMMA BookStep ==
  ASSUME TypeOK, WorkIsCurrent, TradeIffApproved, [Next]_vars
  PROVE  /\ now' >= now /\ Appends
         /\ \/ \A u \in Signals : Kept(u)
            \/ \E s \in Signals : /\ Moved(s) /\ \A u \in Signals \ {s} : Kept(u)
                                  /\ snaps' = snaps /\ now' = now
<1>0. now \in Nat /\ snaps \in [Tokens -> SUBSET Snapshot]
  BY DEF TypeOK
<1>1. CASE Tick \/ (\E s \in Signals : \E q \in snaps[TokenOf[s]] : RaiseSignal(s, q))
           \/ BeginPass \/ StartFill \/ StartManage \/ EndPass \/ Crash \/ UNCHANGED vars
  <2>1. UNCHANGED <<trade, decidedAt, snaps>> /\ now' >= now
    BY <1>0, <1>1 DEF Tick, RaiseSignal, BeginPass, StartFill,
                StartManage, EndPass, Crash, vars, tables, world
  <2> QED BY <2>1 DEF Kept, Appends
<1>2. ASSUME NEW t \in Tokens, NEW at \in 1..now, NEW p \in Prices \cup {NoPrice},
             RecordSnapshot(t, at, p)
      PROVE  now' >= now /\ Appends /\ \A u \in Signals : Kept(u)
  <2>1. UNCHANGED <<trade, decidedAt>> /\ now' = now
    BY <1>2 DEF RecordSnapshot, tables
  <2>2. /\ snaps' = [snaps EXCEPT ![t] = @ \cup {[at |-> at, price |-> p]}]
        /\ \A r \in snaps[t] : r.at < at
    BY <1>2 DEF RecordSnapshot
  <2>3. Appends
    BY <1>0, <2>2 DEF Appends
  <2> QED BY <1>0, <2>1, <2>3 DEF Kept
<1>3. ASSUME NEW s \in Signals, Decide(s) \/ Fill(s) \/ Manage(s)
      PROVE  /\ Kept(s) \/ Moved(s)
             /\ \A u \in Signals \ {s} : Kept(u)
             /\ snaps' = snaps /\ now' = now
  <2>1. snaps' = snaps /\ now' = now
    BY <1>3 DEF Decide, Fill, Manage, world
  <2> QED BY <1>3, <2>1, DecideMoves, FillMoves, ManageMoves DEF Moved
<1>4. ASSUME snaps' = snaps, now' = now PROVE now' >= now /\ Appends
  BY <1>0, <1>4 DEF Appends
<1> QED BY <1>1, <1>2, <1>3, <1>4 DEF Next, World, Loop

-----------------------------------------------------------------------------
\* An order may be filled Latency after it was decided.
OrdersDated ==
  \A s \in Signals :
    trade[s].state # "NONE" => trade[s].submitAt = decidedAt[s] + Latency

Dates == OrdersDated /\ EntryIsFirstFill /\ ExitNotBeforeEntry

LEMMA StepDates ==
  ASSUME TypeOK, WorkIsCurrent, TradeIffApproved, Dates, [Next]_vars
  PROVE  Dates'
<1>0. OrdersDated /\ EntryIsFirstFill /\ ExitNotBeforeEntry
  BY DEF Dates
<1>1. /\ Appends
      /\ \/ \A u \in Signals : Kept(u)
         \/ \E s \in Signals : /\ Moved(s) /\ \A u \in Signals \ {s} : Kept(u)
                               /\ snaps' = snaps
  BY BookStep
<1> DEFINE Dated(s) ==
             trade[s].state # "NONE" => trade[s].submitAt = decidedAt[s] + Latency
           AtFirst(s) ==
             trade[s].state \in {"OPEN", "CLOSED"} =>
               /\ trade[s].entryTime >= decidedAt[s] + Latency
               /\ [at |-> trade[s].entryTime, price |-> trade[s].entryPrice]
                    \in snaps[TokenOf[s]]
               /\ \A q \in snaps[TokenOf[s]] :
                    q.at < decidedAt[s] + Latency \/ q.at >= trade[s].entryTime
           After(s) ==
             trade[s].state = "CLOSED" => trade[s].exitTime >= trade[s].entryTime
<1>2. \A s \in Signals : Dated(s) /\ AtFirst(s) /\ After(s)
  BY <1>0 DEF OrdersDated, EntryIsFirstFill, ExitNotBeforeEntry
<1>3. SUFFICES ASSUME NEW s \in Signals PROVE Dated(s)' /\ AtFirst(s)' /\ After(s)'
  BY DEF Dates, OrdersDated, EntryIsFirstFill, ExitNotBeforeEntry
<1> DEFINE mine == snaps[TokenOf[s]]
<1>4. /\ TokenOf[s] \in Tokens /\ mine \subseteq Snapshot /\ mine' \subseteq Snapshot
      /\ mine \subseteq mine' /\ \A n \in mine' \ mine, r \in mine : r.at < n.at
  <2>1. TokenOf[s] \in Tokens
    BY ConstantTypes
  <2>2. TypeOK'
    BY TypeNext
  <2> QED BY <1>1, <2>1, <2>2 DEF Appends, TypeOK
<1>5. \A q \in mine' : q.at \in Nat
  BY <1>4, SnapshotFields
<1>6. /\ trade[s] \in Trade /\ decidedAt[s] \in Nat /\ Latency \in Nat
      /\ trade[s].entryTime \in Nat /\ trade[s].submitAt \in Nat
  <2>1. trade[s] \in Trade /\ decidedAt[s] \in Nat
    BY DEF TypeOK
  <2> QED BY <2>1, ConstantTypes DEF Trade
<1>7. ASSUME decidedAt'[s] = decidedAt[s], trade'[s].entryTime = trade[s].entryTime,
             trade'[s].entryPrice = trade[s].entryPrice,
             trade[s].state \in {"OPEN", "CLOSED"}
      PROVE  AtFirst(s)'
  <2> DEFINE entry == [at |-> trade[s].entryTime, price |-> trade[s].entryPrice]
  <2>1. /\ trade[s].entryTime >= decidedAt[s] + Latency
        /\ entry \in mine
        /\ \A q \in mine : q.at < decidedAt[s] + Latency \/ q.at >= trade[s].entryTime
    BY <1>2, <1>7
  <2>2. \A n \in mine' \ mine : n.at >= trade[s].entryTime
    <3> TAKE n \in mine' \ mine
    <3>1. entry.at < n.at
      BY <1>4, <2>1
    <3> QED BY <1>5, <1>6, <3>1
  <2> QED BY <1>4, <1>7, <2>1, <2>2
<1>8. CASE Kept(s)
  <2>1. CASE trade[s].state \in {"OPEN", "CLOSED"}
    BY <1>2, <1>7, <1>8, <2>1 DEF Kept
  <2>2. CASE trade[s].state \notin {"OPEN", "CLOSED"}
    BY <1>2, <1>8, <2>2 DEF Kept
  <2> QED BY <2>1, <2>2
<1>9. CASE Ordered(s)
  BY <1>9 DEF Ordered
<1>10. CASE Cancelled(s)
  BY <1>2, <1>10 DEF Cancelled, SameEntry
<1>11. CASE Marked(s)
  BY <1>2, <1>7, <1>11 DEF Marked, SameEntry
<1>12. CASE Filled(s) /\ snaps' = snaps
  <2>1. PICK q \in mine : /\ FirstAtOrAfter(q, TokenOf[s], trade[s].submitAt)
                          /\ trade'[s].entryTime = q.at /\ trade'[s].entryPrice = q.price
    BY <1>12 DEF Filled
  <2>2. trade[s].submitAt = decidedAt[s] + Latency
    BY <1>2, <1>12 DEF Filled
  <2>3. q = [at |-> q.at, price |-> q.price]
    BY <1>4 DEF Snapshot
  <2>4. AtFirst(s)'
    BY <1>4, <1>5, <1>6, <1>12, <2>1, <2>2, <2>3 DEF Filled, FirstAtOrAfter
  <2> QED BY <1>12, <2>2, <2>4 DEF Filled
<1>13. CASE Exited(s)
  <2>1. AtFirst(s)' /\ Dated(s)'
    BY <1>2, <1>7, <1>13 DEF Exited, SameEntry
  <2>2. PICK q : Latest(q, TokenOf[s]) /\ trade'[s].exitTime = q.at
    BY <1>13 DEF Exited
  <2>3. [at |-> trade[s].entryTime, price |-> trade[s].entryPrice] \in mine
    BY <1>2, <1>13 DEF Exited
  <2>4. q \in mine /\ trade[s].entryTime <= q.at
    BY <2>2, <2>3 DEF Latest
  <2>5. After(s)'
    BY <1>4, <1>5, <1>6, <1>13, <2>2, <2>4 DEF Exited, SameEntry
  <2> QED BY <2>1, <2>5
<1> QED BY <1>1, <1>8, <1>9, <1>10, <1>11, <1>12, <1>13 DEF Moved

LEMMA AlwaysBooked == Spec => [](TypeOK /\ WorkIsCurrent /\ TradeIffApproved)
BY TypeCorrect, WorkStaysCurrent, VerdictAndOrderTogether, PTL

\* No look-ahead, whatever is committed late, batched or retried after a crash:
\* an entry is the first snapshot at or after the decision plus the latency, for
\* good, and no exit is priced before it.
THEOREM EntriesNeverLookAhead == Spec => []NoLookAhead
<1>1. Init => Dates
  BY EmptyRow DEF Init, Dates, OrdersDated, EntryIsFirstFill, ExitNotBeforeEntry
<1>2. TypeOK /\ WorkIsCurrent /\ TradeIffApproved /\ Dates /\ [Next]_vars => Dates'
  BY StepDates
<1>3. Dates => NoLookAhead
  BY DEF Dates, NoLookAhead
<1> QED BY <1>1, <1>2, <1>3, AlwaysBooked, PTL DEF Spec

-----------------------------------------------------------------------------
\* A verdict that is written is never written again.
LEMMA VerdictStays ==
  ASSUME TypeOK, WorkIsCurrent, [Next]_vars, NEW s \in Signals, verdict[s] # "none"
  PROVE  verdict'[s] = verdict[s]
<1>1. CASE Shrinks
  BY <1>1 DEF Shrinks
<1>2. ASSUME NEW u \in Signals, Admits(u) PROVE verdict'[s] = verdict[s]
  BY <1>2, ApproveEffect DEF Admits
<1> QED BY <1>1, <1>2, StepShape

\* Whatever the order of the passes and the crashes: no settled trade and no
\* verdict is rewritten, no fill repriced, and no trailing mark lowered.
THEOREM BookOnlyMovesForward == Spec => BookMovesForward
<1> DEFINE Forward(s) ==
             /\ MayFollow(trade[s].state, trade'[s].state)
             /\ trade[s].state \in {"CLOSED", "CANCELLED"} => trade'[s] = trade[s]
             /\ trade[s].state = "OPEN" =>
                  <<trade[s].entryTime, trade[s].entryPrice>>
                    = <<trade'[s].entryTime, trade'[s].entryPrice>>
             /\ trade[s].state = "OPEN" => trade'[s].peak >= trade[s].peak
             /\ verdict[s] # "none" => verdict'[s] = verdict[s]
<1>1. ASSUME TypeOK, WorkIsCurrent, TradeIffApproved, [Next]_vars, NEW s \in Signals
      PROVE  Forward(s)
  <2>1. verdict[s] # "none" => verdict'[s] = verdict[s]
    BY <1>1, VerdictStays
  <2>2. Kept(s) \/ Moved(s)
    BY <1>1, BookStep
  <2>3. trade[s].peak \in Nat
    BY <1>1 DEF TypeOK, Trade
  <2>4. CASE Kept(s)
    BY <2>1, <2>3, <2>4 DEF Kept, MayFollow
  <2>5. CASE Ordered(s) \/ Filled(s) \/ Cancelled(s)
    BY <2>1, <2>5 DEF Ordered, Filled, Cancelled, MayFollow
  <2>6. CASE Marked(s) \/ Exited(s)
    BY <2>1, <2>3, <2>6 DEF Marked, Exited, SameEntry, MayFollow
  <2> QED BY <2>2, <2>4, <2>5, <2>6 DEF Moved
<1>2. TypeOK /\ WorkIsCurrent /\ TradeIffApproved /\ [Next]_vars
        => [\A s \in Signals : Forward(s)]_vars
  BY <1>1
<1> QED BY <1>2, AlwaysBooked, PTL DEF Spec, BookMovesForward

-----------------------------------------------------------------------------
(* The books: what is realised and what is at stake.                       *)

Nets == [s \in Signals |-> trade[s].net]

LEMMA BookTypes ==
  ASSUME TypeOK
  PROVE  /\ IsFiniteSet(Closed) /\ Closed \subseteq Signals
         /\ \A S : NetOf(S) = SumOver(Nets, S)
         /\ NetOf(Closed) \in Int
         /\ IsFiniteSet(Held) /\ Cardinality(Held) \in Nat
<1>1. Closed \subseteq Signals /\ IsFiniteSet(Closed)
  BY ConstantTypes, FS_Subset DEF Closed, InState
<1>2. \A S : NetOf(S) = SumOver(Nets, S)
  BY DEF NetOf, SumOver, Nets
<1>3. \A s \in Closed : Nets[s] \in Int
  BY <1>1 DEF Nets, TypeOK, Trade
<1> QED BY <1>1, <1>2, <1>3, SumOfIntegers, ExposureSets, FS_CardinalityType

\* While no position is closed the realised result stays what it is.
LEMMA NothingRealised ==
  ASSUME TypeOK, TypeOK', Closed' = Closed,
         \A s \in Closed : trade'[s] = trade[s]
  PROVE  NetOf(Closed)' = NetOf(Closed)
<1>1. \A s \in Closed : Nets'[s] = Nets[s]
  BY BookTypes DEF Nets
<1>2. SumOver(Nets, Closed) = SumOver(Nets', Closed)
  BY <1>1, BookTypes, SumReadsSet
<1>3. NetOf(Closed)' = SumOver(Nets, Closed)'
  BY DEF NetOf, SumOver, Nets
<1> QED BY <1>2, <1>3, BookTypes

\* A close realises its own result and nothing else.
LEMMA OneRealised ==
  ASSUME TypeOK, TypeOK', NEW s \in Signals \ Closed, Closed' = Closed \cup {s},
         \A u \in Closed : trade'[u] = trade[u]
  PROVE  NetOf(Closed)' = NetOf(Closed) + trade'[s].net
<1>1. \A u \in Closed : Nets'[u] = Nets[u]
  BY BookTypes DEF Nets
<1>2. SumOver(Nets, Closed) = SumOver(Nets', Closed)
  BY <1>1, BookTypes, SumReadsSet
<1>3. NetOf(Closed)' = SumOver(Nets, Closed)'
  BY DEF NetOf, SumOver, Nets
<1>4. \A u \in Closed \cup {s} : Nets'[u] \in Int
  BY BookTypes DEF Nets, TypeOK, Trade
<1>5. SumOver(Nets', Closed \cup {s}) = SumOver(Nets', Closed) + Nets'[s]
  BY <1>4, BookTypes, SumWithOneMore
<1> QED BY <1>2, <1>3, <1>5, BookTypes DEF Nets

\* A step opens one order the gates approved, or leaves what is realised and
\* at stake alone or lower at stake, or gives up one stake for its result.
LEMMA BooksStep ==
  ASSUME TypeOK, WorkIsCurrent, TradeIffApproved, [Next]_vars
  PROVE  \/ /\ Closed' = Closed /\ NetOf(Closed)' = NetOf(Closed)
            /\ Held' \subseteq Held
         \/ \E s \in Signals :
              /\ Closed' = Closed /\ NetOf(Closed)' = NetOf(Closed)
              /\ Held' = Held \cup {s} /\ \E q : Approves(s, q)
         \/ \E s \in Held :
              /\ Closed' = Closed \cup {s} /\ Held' = Held \ {s}
              /\ trade'[s].net \in Int /\ trade'[s].net >= -Size
              /\ NetOf(Closed)' = NetOf(Closed) + trade'[s].net
<1>0. TypeOK'
  BY TypeNext
<1>1. \/ \A u \in Signals : Kept(u)
      \/ \E s \in Signals : Moved(s) /\ \A u \in Signals \ {s} : Kept(u)
  BY BookStep
<1>2. \A u \in Signals : Kept(u) => trade'[u] = trade[u]
  BY DEF Kept
<1>3. CASE \A u \in Signals : Kept(u)
  <2>1. Closed' = Closed /\ Held' = Held /\ \A u \in Closed : trade'[u] = trade[u]
    BY <1>2, <1>3 DEF Closed, Held, InState
  <2> QED BY <1>0, <2>1, NothingRealised
<1>4. ASSUME NEW s \in Signals, Filled(s) \/ Cancelled(s) \/ Marked(s),
             \A u \in Signals \ {s} : Kept(u)
      PROVE  /\ Closed' = Closed /\ NetOf(Closed)' = NetOf(Closed)
             /\ Held' \subseteq Held
  <2>1. /\ trade[s].state \in {"PENDING", "OPEN"} /\ trade'[s].state # "CLOSED"
    BY <1>4 DEF Filled, Cancelled, Marked
  <2>2. Closed' = Closed /\ Held' \subseteq Held /\ \A u \in Closed : trade'[u] = trade[u]
    BY <1>2, <1>4, <2>1 DEF Closed, Held, InState
  <2> QED BY <1>0, <2>2, NothingRealised
<1>5. ASSUME NEW s \in Signals, Ordered(s), \A u \in Signals \ {s} : Kept(u)
      PROVE  /\ Closed' = Closed /\ NetOf(Closed)' = NetOf(Closed)
             /\ Held' = Held \cup {s} /\ \E q : Approves(s, q)
  <2>1. trade[s].state = "NONE" /\ trade'[s].state = "PENDING" /\ \E q : Approves(s, q)
    BY <1>5 DEF Ordered
  <2>2. /\ Closed' = Closed /\ Held' = Held \cup {s}
        /\ \A u \in Closed : trade'[u] = trade[u]
    BY <1>2, <1>5, <2>1 DEF Closed, Held, InState
  <2> QED BY <1>0, <2>1, <2>2, NothingRealised
<1>6. ASSUME NEW s \in Signals, Exited(s), \A u \in Signals \ {s} : Kept(u)
      PROVE  /\ s \in Held
             /\ Closed' = Closed \cup {s} /\ Held' = Held \ {s}
             /\ trade'[s].net \in Int /\ trade'[s].net >= -Size
             /\ NetOf(Closed)' = NetOf(Closed) + trade'[s].net
  <2>1. /\ trade[s].state = "OPEN" /\ trade'[s].state = "CLOSED"
        /\ trade'[s].net \in Int /\ trade'[s].net >= -Size
    BY <1>6 DEF Exited
  <2>2. /\ Closed' = Closed \cup {s} /\ Held' = Held \ {s} /\ s \in Held \ Closed
        /\ \A u \in Closed : trade'[u] = trade[u]
    BY <1>2, <1>6, <2>1 DEF Closed, Held, InState
  <2> QED BY <1>0, <2>1, <2>2, OneRealised
<1>7. ASSUME NEW s \in Signals, Moved(s), \A u \in Signals \ {s} : Kept(u)
      PROVE  \/ /\ Closed' = Closed /\ NetOf(Closed)' = NetOf(Closed)
                /\ Held' \subseteq Held
             \/ /\ Closed' = Closed /\ NetOf(Closed)' = NetOf(Closed)
                /\ Held' = Held \cup {s} /\ \E q : Approves(s, q)
             \/ /\ s \in Held
                /\ Closed' = Closed \cup {s} /\ Held' = Held \ {s}
                /\ trade'[s].net \in Int /\ trade'[s].net >= -Size
                /\ NetOf(Closed)' = NetOf(Closed) + trade'[s].net
  BY <1>4, <1>5, <1>6, <1>7 DEF Moved
<1> QED BY <1>1, <1>3, <1>7

-----------------------------------------------------------------------------
(* What is at stake: the size of every order and position.                 *)

Stake == Size * Cardinality(Held)

LEMMA SizesAddUp ==
  ASSUME NEW a \in Nat, NEW b \in Nat
  PROVE  /\ Size * a \in Nat
         /\ a <= b => Size * a <= Size * b
         /\ Size * (a + 1) = Size * a + Size
<1>1. Size \in Nat
  BY ConstantTypes
<1>2. Size * a \in Nat
  BY <1>1
<1>3. Size * (a + 1) = Size * a + Size
  BY <1>1
<1>4. ASSUME a <= b PROVE Size * a <= Size * b
  BY <1>1, <1>4
<1> QED BY <1>2, <1>3, <1>4

\* How a step of the books moves the stake.
LEMMA StakeStep ==
  ASSUME TypeOK, TypeOK'
  PROVE  /\ Stake \in Nat /\ Stake' \in Nat
         /\ Held' \subseteq Held => Stake' <= Stake
         /\ \A s : Held' = Held \cup {s} => Stake' <= Stake + Size
         /\ \A s \in Held : Held' = Held \ {s} => Stake = Stake' + Size
<1> DEFINE h == Cardinality(Held)
<1>1. IsFiniteSet(Held) /\ h \in Nat /\ IsFiniteSet(Held') /\ h' \in Nat
  <2>1. IsFiniteSet(Held) /\ h \in Nat
    BY BookTypes
  <2>2. Held' \subseteq Signals
    BY DEF Held, InState
  <2>3. IsFiniteSet(Held') /\ Cardinality(Held') \in Nat
    BY <2>2, ConstantTypes, FS_Subset, FS_CardinalityType
  <2> QED BY <2>1, <2>3
<1>2. Stake = Size * h /\ Stake' = Size * h'
  BY DEF Stake
<1>3. Held' \subseteq Held => h' <= h
  BY <1>1, FS_Subset
<1>4. \A s : Held' = Held \cup {s} => h' <= h + 1
  BY <1>1, FS_AddElement
<1>5. \A s \in Held : Held' = Held \ {s} => h' + 1 = h
  BY <1>1, FS_RemoveElement
<1> HIDE DEF h
<1>6. Stake \in Nat /\ Stake' \in Nat /\ Size \in Nat
  BY <1>1, <1>2, SizesAddUp, ConstantTypes
<1>7. h' <= h => Stake' <= Stake
  BY <1>1, <1>2, SizesAddUp
<1>8. h' <= h + 1 => Stake' <= Stake + Size
  <2>1. h' <= h + 1 => Size * h' <= Size * (h + 1)
    BY <1>1, SizesAddUp
  <2>2. Size * (h + 1) = Size * h + Size
    BY <1>1, SizesAddUp
  <2> QED BY <1>2, <2>1, <2>2
<1>9. h' + 1 = h => Stake = Stake' + Size
  <2>1. Size * (h' + 1) = Size * h' + Size
    BY <1>1, SizesAddUp
  <2> QED BY <1>2, <2>1
<1>10. Held' \subseteq Held => Stake' <= Stake
  BY <1>3, <1>7
<1>11. \A s : Held' = Held \cup {s} => Stake' <= Stake + Size
  BY <1>4, <1>8
<1>12. \A s \in Held : Held' = Held \ {s} => Stake = Stake' + Size
  BY <1>5, <1>9
<1> QED BY <1>6, <1>10, <1>11, <1>12

\* What is realised, as the two kinds of step change it, and the stake it covers.
LEMMA Spending ==
  ASSUME NEW b \in Int, NEW k \in Nat, NEW left \in Nat,
         b - k >= Size, left <= k + Size
  PROVE  b >= left
BY ConstantTypes

LEMMA Realising ==
  ASSUME NEW b \in Nat, NEW n \in Int, NEW m \in Int, NEW k \in Nat, NEW left \in Nat,
         b + n >= k, m >= -Size, k = left + Size
  PROVE  b + (n + m) >= left
BY ConstantTypes

Covered == StartBalance + NetOf(Closed) >= Stake

\* The simulated account never spends SOL it does not have: every order is
\* approved against the balance the orders and positions before it have left.
THEOREM AccountAlwaysSolvent == Spec => []Solvent
<1>1. Init => Covered
  <2>1. Init => Closed = {} /\ Held = {}
    BY EmptyRow DEF Init, Closed, Held, InState
  <2>2. Closed = {} => NetOf(Closed) = 0
    BY SumOfNothing DEF NetOf, SumOver
  <2>3. Held = {} => Stake = 0
    BY FS_EmptySet, ConstantTypes DEF Stake
  <2> QED BY <2>1, <2>2, <2>3, ConstantTypes DEF Covered
<1>2. TypeOK /\ WorkIsCurrent /\ TradeIffApproved /\ Covered /\ [Next]_vars => Covered'
  <2> SUFFICES ASSUME TypeOK, WorkIsCurrent, TradeIffApproved, Covered, [Next]_vars
               PROVE  Covered'
    OBVIOUS
  <2> DEFINE n == NetOf(Closed)
  <2>1. TypeOK' /\ n \in Int /\ StartBalance \in Nat /\ Size \in Nat
    BY TypeNext, BookTypes, ConstantTypes
  <2>2. Stake \in Nat /\ Stake' \in Nat
    BY <2>1, StakeStep
  <2>3. StartBalance + n >= Stake
    BY DEF Covered
  <2>4. CASE n' = n /\ Held' \subseteq Held
    <3>1. Stake' <= Stake
      BY <2>1, <2>4, StakeStep
    <3>2. StartBalance + n' >= Stake'
      BY <2>1, <2>2, <2>3, <2>4, <3>1
    <3> QED BY <3>2 DEF Covered
  <2>5. ASSUME NEW s, n' = n, Held' = Held \cup {s}, \E q : Approves(s, q)
        PROVE  Covered'
    <3>1. Stake' <= Stake + Size
      BY <2>1, <2>5, StakeStep
    <3>2. Equity - Stake >= Size
      BY <2>5 DEF Approves, Balance, Stake
    <3>3. Equity = StartBalance + n /\ Equity \in Int
      BY <2>1 DEF Equity
    <3>4. Equity >= Stake'
      BY <2>2, <3>1, <3>2, <3>3, Spending
    <3> QED BY <2>5, <3>3, <3>4 DEF Covered
  <2>6. ASSUME NEW s \in Held, Held' = Held \ {s}, trade'[s].net \in Int,
               trade'[s].net >= -Size, n' = n + trade'[s].net
        PROVE  Covered'
    <3>1. Stake = Stake' + Size
      BY <2>1, <2>6, StakeStep
    <3> HIDE DEF n
    <3>2. StartBalance + (n + trade'[s].net) >= Stake'
      BY <2>1, <2>2, <2>3, <2>6, <3>1, Realising
    <3> QED BY <2>6, <3>2 DEF Covered, n
  <2> QED BY <2>4, <2>5, <2>6, BooksStep
<1>3. Covered => Solvent
  BY ExposureSets DEF Covered, Solvent, Stake, Closed, InState
<1> QED BY <1>1, <1>2, <1>3, AlwaysBooked, PTL DEF Spec

-----------------------------------------------------------------------------
(* The loss of one day.                                                    *)

Room == MaxDailyLoss + Size * MaxOpen
WithinDay == \A s \in Closed : trade[s].exitTime > now - Day

\* What the gate leaves to be lost: while all closes fall into one day, the limit
\* and a full book of stakes cover what is realised and what is still at stake.
StakeCovered == WithinDay => Room + NetOf(Closed) >= Stake

LEMMA RoomIsNat == Room \in Nat /\ Size * MaxOpen \in Nat
<1>1. Size * MaxOpen \in Nat
  BY ConstantTypes, SizesAddUp
<1> QED BY <1>1, ConstantTypes DEF Room

\* A day that holds every close also held those made before the last step.
LEMMA WindowSlides ==
  ASSUME TypeOK, WorkIsCurrent, TradeIffApproved, [Next]_vars, WithinDay'
  PROVE  WithinDay
<1>1. SUFFICES ASSUME NEW s \in Closed PROVE trade[s].exitTime > now - Day
  BY DEF WithinDay
<1>2. s \in Signals /\ trade[s].state = "CLOSED"
  BY DEF Closed, InState
<1>3. now' >= now /\ (Kept(s) \/ Moved(s))
  BY <1>2, BookStep
<1>4. trade'[s] = trade[s]
  BY <1>2, <1>3 DEF Kept, Moved, Ordered, Filled, Cancelled, Marked, Exited
<1>5. s \in Closed'
  BY <1>2, <1>4 DEF Closed, InState
<1>6. trade[s].exitTime > now' - Day
  BY <1>4, <1>5 DEF WithinDay
<1>7. now \in Nat /\ now' \in Nat /\ trade[s].exitTime \in Nat /\ Day \in Nat
  <2>1. TypeOK'
    BY TypeNext
  <2>2. trade[s] \in Trade
    BY <1>2 DEF TypeOK
  <2> QED BY <2>1, <2>2, ConstantTypes DEF TypeOK, Trade
<1>8. ASSUME NEW a \in Nat, NEW b \in Nat, NEW d \in Nat, NEW e \in Nat,
             a <= b, e > b - d
      PROVE  e > a - d
  BY <1>8
<1> QED BY <1>3, <1>6, <1>7, <1>8

\* What the gates of one order say of the day.
LEMMA GateOfTheDay ==
  ASSUME TypeOK, WithinDay, NEW s, NEW q, Approves(s, q)
  PROVE  NetOf(Closed) >= -MaxDailyLoss /\ Stake + Size <= Size * MaxOpen
<1>1. Today(now) = NetOf(Closed)
  <2>1. {u \in Closed : trade[u].exitTime > now - Day} = Closed
    BY DEF WithinDay
  <2> QED BY <2>1, Zenon DEF Today
<1>2. Today(now) >= -MaxDailyLoss /\ Cardinality(Held) <= MaxOpen - 1
  BY DEF Approves
<1>3. Cardinality(Held) \in Nat /\ Cardinality(Held) + 1 <= MaxOpen /\ MaxOpen \in Nat
  BY <1>2, BookTypes, ConstantTypes
<1>4. Size * (Cardinality(Held) + 1) <= Size * MaxOpen
  BY <1>3, SizesAddUp
<1>5. Size * (Cardinality(Held) + 1) = Stake + Size
  BY <1>3, SizesAddUp DEF Stake
<1> QED BY <1>1, <1>2, <1>4, <1>5

\* The gate refuses once max_daily_loss_sol is lost, and the positions it let in
\* before that can lose no more than what they cost.
THEOREM DailyLossAlwaysBounded == Spec => []DailyLossBounded
<1>1. Init => StakeCovered
  <2>1. Init => Closed = {} /\ Held = {}
    BY EmptyRow DEF Init, Closed, Held, InState
  <2>2. Closed = {} => NetOf(Closed) = 0
    BY SumOfNothing DEF NetOf, SumOver
  <2>3. Held = {} => Stake = 0
    BY FS_EmptySet, ConstantTypes DEF Stake
  <2> QED BY <2>1, <2>2, <2>3, RoomIsNat DEF StakeCovered
<1>2. TypeOK /\ WorkIsCurrent /\ TradeIffApproved /\ StakeCovered /\ [Next]_vars
        => StakeCovered'
  <2> SUFFICES ASSUME TypeOK, WorkIsCurrent, TradeIffApproved, StakeCovered, [Next]_vars,
                      WithinDay'
               PROVE  (Room + NetOf(Closed) >= Stake)'
    BY DEF StakeCovered
  <2> DEFINE n == NetOf(Closed)
  <2>1. TypeOK' /\ n \in Int /\ Room \in Nat /\ Size \in Nat /\ WithinDay
    BY TypeNext, BookTypes, ConstantTypes, RoomIsNat, WindowSlides
  <2>2. Stake \in Nat /\ Stake' \in Nat
    BY <2>1, StakeStep
  <2>3. Room + n >= Stake
    BY <2>1 DEF StakeCovered
  <2> SUFFICES Room + n' >= Stake'
    BY DEF Room
  <2>4. CASE n' = n /\ Held' \subseteq Held
    <3>1. Stake' <= Stake
      BY <2>1, <2>4, StakeStep
    <3> HIDE DEF n
    <3> QED BY <2>1, <2>2, <2>3, <2>4, <3>1
  <2>5. ASSUME NEW s, n' = n, Held' = Held \cup {s}, \E q : Approves(s, q)
        PROVE  Room + n' >= Stake'
    <3>1. Stake' <= Stake + Size
      BY <2>1, <2>5, StakeStep
    <3>2. n >= -MaxDailyLoss /\ Stake + Size <= Size * MaxOpen
      BY <2>1, <2>5, GateOfTheDay
    <3>3. ASSUME NEW a \in Nat, NEW b \in Nat, NEW c \in Int, NEW k \in Nat, NEW left \in Nat,
                 c >= -a, k + Size <= b, left <= k + Size
          PROVE  (a + b) + c >= left
      BY <2>1, <3>3
    <3>4. MaxDailyLoss \in Nat /\ Size * MaxOpen \in Nat
      BY ConstantTypes, RoomIsNat
    <3>5. (MaxDailyLoss + Size * MaxOpen) + n >= Stake'
      BY <2>1, <2>2, <3>1, <3>2, <3>3, <3>4
    <3> QED BY <2>5, <3>5 DEF Room
  <2>6. ASSUME NEW s \in Held, Held' = Held \ {s}, trade'[s].net \in Int,
               trade'[s].net >= -Size, n' = n + trade'[s].net
        PROVE  Room + n' >= Stake'
    <3>1. Stake = Stake' + Size
      BY <2>1, <2>6, StakeStep
    <3> HIDE DEF n
    <3>2. Room + (n + trade'[s].net) >= Stake'
      BY <2>1, <2>2, <2>3, <2>6, <3>1, Realising
    <3> QED BY <2>6, <3>2
  <2> QED BY <2>4, <2>5, <2>6, BooksStep
<1>3. TypeOK /\ StakeCovered => DailyLossBounded
  <2> SUFFICES ASSUME TypeOK, StakeCovered, WithinDay
               PROVE  NetOf(Closed) >= -Room
    BY DEF DailyLossBounded, WithinDay, Closed, InState, Room
  <2>1. NetOf(Closed) \in Int /\ Room \in Nat /\ Room + NetOf(Closed) >= Stake
    BY BookTypes, RoomIsNat DEF StakeCovered
  <2>2. Stake \in Nat
    BY BookTypes, SizesAddUp DEF Stake
  <2> QED BY <2>1, <2>2
<1> QED BY <1>1, <1>2, <1>3, AlwaysBooked, PTL DEF Spec
=============================================================================
