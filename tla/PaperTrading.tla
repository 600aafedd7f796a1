---------------------------- MODULE PaperTrading ----------------------------
(***************************************************************************)
(* The paper-trading loop of hades.paper.service with the risk gates of    *)
(* hades.risk.engine and the exit rules of hades.paper.exits.              *)
(*                                                                         *)
(* The rows of the tables risk_decisions and paper_trades are functions on *)
(* the signals, since both tables are unique on signal_id.  The tracking   *)
(* loop (snapshots), the signal loop (signals) and the clock run between   *)
(* any two steps of the pass; a crash or a supervised restart may hit      *)
(* between any two commits and keeps the tables only.                      *)
(*                                                                         *)
(* Each step that commits is one action: this loop is the only writer of   *)
(* both tables and the snapshot it reads is fixed by decision_at, so what  *)
(* another loop does between the read and the commit is not visible to it. *)
(***************************************************************************)
EXTENDS Integers, FiniteSets, FiniteSetsExt

CONSTANTS
  Signals,          \* signal ids; their order stands for the order of trade ids
  Tokens,
  TokenOf,          \* the token each signal is about
  CreatedAt,        \* tokens.created_at
  Prices,           \* positions of a bonding curve: one number per set of reserves
  Proceeds(_, _),   \* SOL a position entered at one price returns at another
  MinLiquidPrice,   \* below it the curve fails the liquidity or slippage gate
  Size,             \* PaperConfig.position_size_sol
  StartBalance,     \* PaperConfig.starting_balance_sol
  Latency,          \* PaperConfig.latency_seconds
  BatchSize,        \* PaperConfig.batch_size
  MaxTokenAge, MaxPosition, MaxOpen, MaxPerToken,
  MaxDailyLoss, MaxDrawdownPct, MaxDataAge,              \* RiskLimits
  TakeProfitPct, StopLossPct, TrailPct, ArmPct, MaxHold, \* ExitRules
  Day,              \* the window of the daily loss limit
  CommitLag,        \* bound: delay between stamping a snapshot and committing it
  MaxTime,          \* bound: the clock stops here
  MaxCrashes        \* bound: restarts per behaviour

ASSUME PaperAssumption ==
  /\ Signals \subseteq Nat /\ IsFiniteSet(Signals)
  /\ TokenOf \in [Signals -> Tokens]
  /\ CreatedAt \in [Tokens -> Nat]
  /\ Prices \subseteq Nat \ {0}
  /\ \A p, q \in Prices : Proceeds(p, q) \in Nat
  /\ {MinLiquidPrice, Latency, MaxTokenAge, MaxPosition, MaxDailyLoss,
      MaxDataAge, MaxHold, CommitLag, MaxCrashes} \subseteq Nat
  /\ {Size, StartBalance, BatchSize, MaxOpen, MaxPerToken, Day, MaxTime,
      MaxDrawdownPct, TakeProfitPct, StopLossPct, TrailPct, ArmPct}
       \subseteq Nat \ {0}

VARIABLES
  now,        \* the wall clock
  snaps,      \* market_snapshots, per token
  raisedAt,   \* signals.created_at, 0 while the signal does not exist
  verdict,    \* risk_decisions.approved per signal, "none" without a row
  decidedAt,  \* risk_decisions.decision_at
  trade,      \* paper_trades, per signal
  pc,         \* the step of run_once in progress, "idle" between passes
  todo,       \* rows the step has read and not processed yet
  riskExit,   \* manage_open's risk_exit, read once per pass
  crashes

tables == <<verdict, decidedAt, trade>>
world == <<now, snaps, raisedAt, crashes>>
vars == <<now, snaps, raisedAt, verdict, decidedAt, trade, pc, todo, riskExit, crashes>>

NoPrice == 0    \* reserves missing from the snapshot: nothing can be priced

Snapshot == [at : Nat, price : Prices \cup {NoPrice}]

Reasons == {"STOP_LOSS", "TAKE_PROFIT", "TRAILING_STOP", "TIMEOUT", "RISK_EXIT"}

\* Columns a state has not written yet hold 0 or "NONE".
Trade == [state : {"NONE", "PENDING", "OPEN", "CLOSED", "CANCELLED"},
          submitAt : Nat, entryTime : Nat, entryPrice : Nat, peak : Nat,
          exitTime : Nat, reason : Reasons \cup {"NONE"}, net : Int]

NoTrade == [state |-> "NONE", submitAt |-> 0, entryTime |-> 0, entryPrice |-> 0,
            peak |-> 0, exitTime |-> 0, reason |-> "NONE", net |-> 0]

-----------------------------------------------------------------------------
(* The portfolio, recomputed from the rows on every read.                  *)

InState(states) == {s \in Signals : trade[s].state \in states}
\* mutant: a pending order holds no slot and commits no balance
HeldOnceFilled == InState({"OPEN"})
Held == InState({"PENDING", "OPEN"})
HeldFor(t) == {s \in Held : TokenOf[s] = t}
Closed == InState({"CLOSED"})

NetOf(S) == FoldFunctionOnSet(+, 0, [s \in Signals |-> trade[s].net], S)

Equity == StartBalance + NetOf(Closed)
\* mutant: what trades have gained or lost is left out
BalanceUnrealised == StartBalance - Size * Cardinality(Held)
Balance == Equity - Size * Cardinality(Held)
\* mutant: the window keeps the days before instead of the last one
TodayInverted(moment) == NetOf({s \in Closed : trade[s].exitTime <= moment - Day})
Today(moment) == NetOf({s \in Closed : trade[s].exitTime > moment - Day})

ExitOrder(s, u) == \/ trade[s].exitTime < trade[u].exitTime
                   \/ trade[s].exitTime = trade[u].exitTime /\ s <= u

PeakEquity == Max({StartBalance} \cup
                  {StartBalance + NetOf({u \in Closed : ExitOrder(u, s)}) : s \in Closed})

\* manage_open's risk_exit
Breach(moment) ==
  \/ Today(moment) <= -MaxDailyLoss
  \/ 100 * (PeakEquity - Equity) >= MaxDrawdownPct * PeakEquity

(* RiskEngine._checks for signal s, gated on snapshot q.                   *)
Approves(s, q) ==
  /\ now - raisedAt[s] <= MaxDataAge
  /\ q.at - CreatedAt[TokenOf[s]] <= MaxTokenAge
  /\ q.price >= MinLiquidPrice /\ q.price # NoPrice
  /\ Size <= MaxPosition
  /\ Cardinality(Held) <= MaxOpen - 1
  /\ Cardinality(HeldFor(TokenOf[s])) <= MaxPerToken - 1
  /\ Today(now) >= -MaxDailyLoss
  /\ 100 * (PeakEquity - Equity) <= MaxDrawdownPct * PeakEquity
  /\ Balance >= Size

-----------------------------------------------------------------------------
(* Snapshot queries: the row each returns, as a predicate on snapshots.    *)

AtOrBefore(q, t, moment) ==
  /\ q \in snaps[t] /\ q.at <= moment
  /\ \A r \in snaps[t] : r.at <= moment => r.at <= q.at

\* mutant: newest first
LastAtOrAfter(q, t, moment) ==
  /\ q \in snaps[t] /\ q.at >= moment
  /\ \A r \in snaps[t] : q.at >= r.at
FirstAtOrAfter(q, t, moment) ==
  /\ q \in snaps[t] /\ q.at >= moment
  /\ \A r \in snaps[t] : r.at >= moment => q.at <= r.at

Latest(q, t) == q \in snaps[t] /\ \A r \in snaps[t] : r.at <= q.at

HeldOut(r, q) == q.at - r.entryTime >= MaxHold

(* decide_exit: the reason trade r closes on snapshot q, "NONE" to hold.   *)
(* The order of the rules is the order of the code.                        *)
PriceRule(r, q) ==
  LET rise == 100 * (q.price - r.entryPrice)
      top  == Max({r.peak, q.price, r.entryPrice})
  IN  IF rise <= -(StopLossPct * r.entryPrice) THEN "STOP_LOSS"
      ELSE IF rise >= TakeProfitPct * r.entryPrice THEN "TAKE_PROFIT"
      ELSE IF /\ 100 * (top - r.entryPrice) >= ArmPct * r.entryPrice
              /\ 100 * (top - q.price) >= TrailPct * top
           THEN "TRAILING_STOP"
      ELSE IF HeldOut(r, q) THEN "TIMEOUT"
      ELSE "NONE"

\* mutant: the rules of the position override the breach of the account
ExitReasonByPrice(r, q) == IF q.price = NoPrice THEN "NONE" ELSE PriceRule(r, q)
ExitReason(r, q) ==
  IF riskExit THEN "RISK_EXIT"
  ELSE IF q.price = NoPrice THEN "NONE"
  ELSE PriceRule(r, q)

-----------------------------------------------------------------------------
(* The clock and the two loops that feed this one.                         *)

Tick == now < MaxTime /\ now' = now + 1
        /\ UNCHANGED <<snaps, raisedAt, tables, pc, todo, riskExit, crashes>>

\* tracking: one loop, so a token's snapshots commit in the order of their stamps
RecordSnapshot(t, at, price) ==
  /\ now - at <= CommitLag
  /\ \A r \in snaps[t] : r.at < at
  /\ snaps' = [snaps EXCEPT ![t] = @ \cup {[at |-> at, price |-> price]}]
  /\ UNCHANGED <<now, raisedAt, tables, pc, todo, riskExit, crashes>>

\* signals: stamped with the observation it was computed from, one per snapshot
RaiseSignal(s, q) ==
  /\ raisedAt[s] = 0
  /\ q \in snaps[TokenOf[s]]
  /\ \A u \in Signals : TokenOf[u] = TokenOf[s] => raisedAt[u] < q.at
  /\ raisedAt' = [raisedAt EXCEPT ![s] = q.at]
  /\ UNCHANGED <<now, snaps, tables, pc, todo, riskExit, crashes>>

-----------------------------------------------------------------------------
(* run_once                                                                *)

\* mutant: decided signals are not filtered out of the batch
UndecidedUnfiltered == {s \in Signals : raisedAt[s] # 0}
Undecided == {s \in Signals : raisedAt[s] # 0 /\ verdict[s] = "none"}

\* the BatchSize oldest undecided signals
IsBatch(B) ==
  /\ Cardinality(B) = Min({BatchSize, Cardinality(Undecided)})
  /\ \A s \in B, u \in Undecided \ B : raisedAt[s] <= raisedAt[u]

BeginPass ==
  /\ pc = "idle"
  /\ pc' = "decide"
  /\ \E B \in SUBSET Undecided : IsBatch(B) /\ todo' = B
  /\ UNCHANGED <<world, tables, riskExit>>

\* mutant: the order is written in a second commit that may not come
ApproveInTwoCommits(s) ==
  /\ verdict' = [verdict EXCEPT ![s] = "approved"]
  /\ \/ UNCHANGED trade
     \/ trade' = [trade EXCEPT ![s] = [NoTrade EXCEPT !.state = "PENDING",
                                                      !.submitAt = now + Latency]]
Approve(s) ==
  /\ verdict' = [verdict EXCEPT ![s] = "approved"]
  /\ trade' = [trade EXCEPT ![s] = [NoTrade EXCEPT !.state = "PENDING",
                                                   !.submitAt = now + Latency]]

Reject(s) == verdict' = [verdict EXCEPT ![s] = "rejected"] /\ UNCHANGED trade

\* oldest first; a signal without a usable snapshot is left for the next pass
Decide(s) ==
  /\ pc = "decide" /\ s \in todo
  /\ \A u \in todo : raisedAt[s] <= raisedAt[u]
  /\ todo' = todo \ {s}
  /\ IF \E q \in snaps[TokenOf[s]] : q.at <= now
     THEN /\ decidedAt' = [decidedAt EXCEPT ![s] = now]
          /\ \E q \in snaps[TokenOf[s]] :
               /\ AtOrBefore(q, TokenOf[s], now)
               /\ IF Approves(s, q) THEN Approve(s) ELSE Reject(s)
     ELSE UNCHANGED tables
  /\ UNCHANGED <<world, pc, riskExit>>

\* mutant: only what fell due this instant
DueThisInstant == {s \in InState({"PENDING"}) : trade[s].submitAt = now}
Due == {s \in InState({"PENDING"}) : trade[s].submitAt <= now}

StartFill ==
  /\ pc = "decide" /\ todo = {}
  /\ pc' = "fill" /\ todo' = Due
  /\ UNCHANGED <<world, tables, riskExit>>

\* an order that cannot be priced is cancelled, one without a snapshot waits
FillRow(r, q) ==
  IF q.price = NoPrice
  THEN [r EXCEPT !.state = "CANCELLED"]
  ELSE [r EXCEPT !.state = "OPEN", !.entryTime = q.at,
                 !.entryPrice = q.price, !.peak = q.price]

Fill(s) ==
  /\ pc = "fill" /\ s \in todo
  /\ todo' = todo \ {s}
  /\ IF \E q \in snaps[TokenOf[s]] : q.at >= trade[s].submitAt
     THEN \E q \in snaps[TokenOf[s]] :
            /\ FirstAtOrAfter(q, TokenOf[s], trade[s].submitAt)
            /\ trade' = [trade EXCEPT ![s] = FillRow(@, q)]
     ELSE UNCHANGED trade
  /\ UNCHANGED <<world, verdict, decidedAt, pc, riskExit>>

\* manage_open returns before reading the portfolio when nothing is open
StartManage ==
  /\ pc = "fill" /\ todo = {}
  /\ todo' = InState({"OPEN"})
  /\ IF todo' = {} THEN pc' = "idle" /\ UNCHANGED riskExit
                   ELSE /\ pc' = "manage"
                        /\ riskExit' \in BOOLEAN
                        /\ riskExit' <=> Breach(now)
  /\ UNCHANGED <<world, tables>>

\* _close: an exit that cannot be priced leaves the row as it was
CloseRow(r, q, why) ==
  IF q.price = NoPrice
  THEN r
  ELSE [r EXCEPT !.state = "CLOSED", !.exitTime = q.at, !.reason = why,
                 !.net = Proceeds(r.entryPrice, q.price) - Size]

\* mutant: the mark follows the last price
ManageRowLastPrice(r, q) ==
  LET why == ExitReason(r, q)
  IN  IF why = "NONE" THEN [r EXCEPT !.peak = q.price] ELSE CloseRow(r, q, why)
ManageRow(r, q) ==
  LET why == ExitReason(r, q)
  IN  IF why = "NONE" THEN [r EXCEPT !.peak = Max({r.peak, q.price})]
                      ELSE CloseRow(r, q, why)

Manage(s) ==
  /\ pc = "manage" /\ s \in todo
  /\ todo' = todo \ {s}
  /\ \E q \in snaps[TokenOf[s]] :
       /\ Latest(q, TokenOf[s])
       /\ trade' = [trade EXCEPT ![s] = ManageRow(@, q)]
  /\ UNCHANGED <<world, verdict, decidedAt, pc, riskExit>>

EndPass ==
  /\ pc = "manage" /\ todo = {}
  /\ pc' = "idle" /\ riskExit' = FALSE
  /\ UNCHANGED <<world, tables, todo>>

\* The task dies or is cancelled between two commits and is started again.
Crash ==
  /\ pc # "idle" /\ crashes < MaxCrashes
  /\ crashes' = crashes + 1
  /\ pc' = "idle" /\ todo' = {} /\ riskExit' = FALSE
  /\ UNCHANGED <<now, snaps, raisedAt, tables>>

-----------------------------------------------------------------------------
Init ==
  /\ now = 1
  /\ snaps = [t \in Tokens |-> {}]
  /\ raisedAt = [s \in Signals |-> 0]
  /\ verdict = [s \in Signals |-> "none"]
  /\ decidedAt = [s \in Signals |-> 0]
  /\ trade = [s \in Signals |-> NoTrade]
  /\ pc = "idle" /\ todo = {} /\ riskExit = FALSE
  /\ crashes = 0

World ==
  \/ Tick
  \/ \E t \in Tokens, at \in 1..now, p \in Prices \cup {NoPrice} : RecordSnapshot(t, at, p)
  \/ \E s \in Signals : \E q \in snaps[TokenOf[s]] : RaiseSignal(s, q)

Loop ==
  \/ BeginPass \/ StartFill \/ StartManage \/ EndPass
  \/ \E s \in Signals : Decide(s) \/ Fill(s) \/ Manage(s)

Next == World \/ Loop \/ Crash

Spec == Init /\ [][Next]_vars

\* The supervised task keeps running; crashes are bounded, so it keeps finishing.
FairSpec == Spec /\ WF_vars(Loop)

-----------------------------------------------------------------------------
(* Properties                                                              *)

\* Every row is a row of its table and the loop's memory holds rows that exist.
TypeOK ==
  /\ now \in Nat /\ crashes \in Nat
  /\ snaps \in [Tokens -> SUBSET Snapshot]
  /\ raisedAt \in [Signals -> Nat]
  /\ verdict \in [Signals -> {"none", "approved", "rejected"}]
  /\ decidedAt \in [Signals -> Nat]
  /\ trade \in [Signals -> Trade]
  /\ \A s \in Signals : trade[s].state \in {"OPEN", "CLOSED"} => trade[s].entryPrice \in Prices
  /\ pc \in {"idle", "decide", "fill", "manage"}
  /\ todo \subseteq Signals
  /\ riskExit \in BOOLEAN

\* The rows a step has read are still in the state it selected them for when it
\* comes to write them, although each commit is a transaction of its own.
WorkIsCurrent ==
  \A s \in todo : /\ pc = "decide" => verdict[s] = "none"
                  /\ pc = "fill" => trade[s].state = "PENDING"
                  /\ pc = "manage" => trade[s].state = "OPEN"

Exposed(t) == {s \in Signals : TokenOf[s] = t /\ trade[s].state \in {"PENDING", "OPEN"}}
AllExposed == UNION {Exposed(t) : t \in Tokens}

\* Orders and positions together never exceed max_open_positions, nor those of
\* one token max_open_per_token, whatever pass, crash or batch produced them.
PositionCaps ==
  /\ Cardinality(AllExposed) <= MaxOpen
  /\ \A t \in Tokens : Cardinality(Exposed(t)) <= MaxPerToken

\* The simulated account never spends SOL it does not have: what is realised
\* covers every order and position, so portfolio().balance_sol stays >= 0.
Solvent ==
  StartBalance + NetOf({s \in Signals : trade[s].state = "CLOSED"})
    >= Size * Cardinality(AllExposed)

\* A position entered at the first snapshot stamped at or after the decision
\* plus the modelled latency, and no snapshot committed later changes that.
EntryIsFirstFill ==
  \A s \in Signals : trade[s].state \in {"OPEN", "CLOSED"} =>
    /\ trade[s].entryTime >= decidedAt[s] + Latency
    /\ [at |-> trade[s].entryTime, price |-> trade[s].entryPrice] \in snaps[TokenOf[s]]
    /\ \A q \in snaps[TokenOf[s]] :
         q.at < decidedAt[s] + Latency \/ q.at >= trade[s].entryTime

\* An exit is never priced on a snapshot older than the entry.
ExitNotBeforeEntry ==
  \A s \in Signals : trade[s].state = "CLOSED" => trade[s].exitTime >= trade[s].entryTime

\* No look-ahead: an entry is the price the account would have been given, and
\* an exit belongs to the time the position was held.
NoLookAhead == EntryIsFirstFill /\ ExitNotBeforeEntry

\* A verdict and the order it authorises are one commit: after any crash, the
\* trades are exactly those of the approved signals.
TradeIffApproved ==
  \A s \in Signals : trade[s].state # "NONE" <=> verdict[s] = "approved"

\* While all closes fall into one day, losses overshoot max_daily_loss_sol by no
\* more than what was at stake when the gate last let an order through.
DailyLossBounded ==
  LET closed == {s \in Signals : trade[s].state = "CLOSED"}
  IN  (\A s \in closed : trade[s].exitTime > now - Day)
        => NetOf(closed) >= -(MaxDailyLoss + Size * MaxOpen)

MayFollow(a, b) ==
  \/ a = b
  \/ <<a, b>> \in {<<"NONE", "PENDING">>, <<"PENDING", "OPEN">>,
                    <<"PENDING", "CANCELLED">>, <<"OPEN", "CLOSED">>}

\* Trades only move forward, a settled trade and a verdict are never rewritten,
\* a fill is never repriced, and the mark of the trailing stop never falls.
BookMovesForward ==
  [][\A s \in Signals :
       /\ MayFollow(trade[s].state, trade'[s].state)
       /\ trade[s].state \in {"CLOSED", "CANCELLED"} => trade'[s] = trade[s]
       /\ trade[s].state = "OPEN" =>
            <<trade[s].entryTime, trade[s].entryPrice>>
              = <<trade'[s].entryTime, trade'[s].entryPrice>>
       /\ trade[s].state = "OPEN" => trade'[s].peak >= trade[s].peak
       /\ verdict[s] # "none" => verdict'[s] = verdict[s]]_vars

\* The high-water mark portfolio() reports never falls ("the highest equity the
\* account actually reached").
PeakNeverFalls == [][PeakEquity' >= PeakEquity]_vars

\* A signal with a snapshot behind it gets a verdict, however small the batch.
EverySignalDecided ==
  \A s \in Signals : raisedAt[s] # 0 ~> verdict[s] # "none"

\* An order a snapshot can fill leaves PENDING.
FillableOrderSettles ==
  \A s \in Signals :
    (/\ trade[s].state = "PENDING"
     /\ \E q \in snaps[TokenOf[s]] : q.at >= trade[s].submitAt)
      ~> trade[s].state # "PENDING"

Priced(s) == \E q \in snaps[TokenOf[s]] : Latest(q, TokenOf[s]) /\ q.price # NoPrice

\* A position held past max_hold_seconds at its latest snapshot is closed, unless
\* its token stops being priceable first.
ExpiredPositionCloses ==
  \A s \in Signals :
    (/\ trade[s].state = "OPEN"
     /\ \E q \in snaps[TokenOf[s]] : q.at - trade[s].entryTime >= MaxHold)
      ~> trade[s].state = "CLOSED" \/ ~Priced(s)

\* A trade does not keep its slot: what a snapshot can fill or expire is settled.
\* The one that stays is the trade whose token gets no more snapshots: nothing
\* but a snapshot ends it, also when its token has left tracking.
TradesSettle == FillableOrderSettles /\ ExpiredPositionCloses

\* A breach of the loss or drawdown limit that lasts empties the book of every
\* position that can still be priced.
LastingBreachLiquidates ==
  <>[]Breach(now)
    => <>[](\A s \in Signals : trade[s].state = "OPEN" => ~Priced(s))
=============================================================================
