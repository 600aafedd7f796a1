------------------------------ MODULE Outcomes ------------------------------
(***************************************************************************)
(* The labelling loop: hades.outcomes.service over compute_outcome.  A     *)
(* pass fixes its moment, reads the oldest observations that lack a final  *)
(* label, and for each loads the series of its token and upserts one row   *)
(* per barrier configuration, in a commit each.  Tracking appends          *)
(* snapshots, and the signal loop observations, between any two steps.     *)
(*                                                                         *)
(* A snapshot is stamped when the provider answers and committed up to     *)
(* CommitLag later; the snapshots of one token are committed in order.     *)
(***************************************************************************)
EXTENDS Labels, Sequences, SequencesExt

CONSTANTS
  Tokens,
  Prices,           \* prices of a snapshot, with or without NoPrice
  Barriers,         \* barrier configurations [upper, lower, barrier]
  BarrierOrder,     \* the sequence they are applied in
  Horizon,          \* one of RETURN_HORIZONS
  BatchSize,
  CommitLag,        \* bound: delay between stamping a snapshot and its commit
  MaxTime,          \* bound: the clock stops here
  MaxObservations,  \* bound: observations per behaviour
  MaxCrashes        \* bound: restarts per behaviour

ASSUME OutcomesAssumption ==
  /\ IsFiniteSet(Tokens)
  /\ Prices \subseteq Nat
  /\ Barriers \subseteq [upper : Nat, lower : Nat, barrier : Nat]
  /\ BarrierOrder \in Seq(Barriers) /\ Range(BarrierOrder) = Barriers
  /\ Len(BarrierOrder) = Cardinality(Barriers) /\ BarrierOrder # <<>>
  /\ {Horizon, CommitLag, MaxTime, MaxObservations, MaxCrashes} \subseteq Nat
  /\ BatchSize \in Nat \ {0}

VARIABLES
  now,
  snaps,     \* market_snapshots, per token
  obs,       \* feature_observations: [token, at]
  rows,      \* observation_outcomes: [obs, config, label, return, best, worst, final]
  pc,        \* "idle", "load" an observation, or "label" it
  moment,    \* the now of the pass
  todo,      \* observations the pass has not finished
  series,    \* the loaded series
  left,      \* configurations not applied yet to the head of todo
  late,      \* ghost: stamps older than the last pass when they were committed
  crashes

tables == <<snaps, obs, rows>>
vars == <<now, snaps, obs, rows, pc, moment, todo, series, left, late, crashes>>

Observation == [token : Tokens, at : 0..MaxTime]
Labelled == [obs : Observation, config : Barriers,
             label : {"UPPER", "LOWER", "TIMEOUT", "UNRESOLVED"},
             return : Nat \cup {Missing}, best : Nat \cup {Missing},
             worst : Nat \cup {Missing}, final : BOOLEAN]

(* One row per observation and configuration, final exactly when resolved. *)
TypeOK ==
  /\ now \in 0..MaxTime /\ moment \in Missing..now
  /\ \A t \in Tokens : snaps[t] \subseteq [at : 0..now, price : Prices]
  /\ obs \subseteq Observation
  /\ rows \subseteq Labelled
  /\ \A r, s \in rows : r.obs = s.obs /\ r.config = s.config => r = s
  /\ pc \in {"idle", "load", "label"} /\ (pc = "idle" <=> todo = <<>>)
  /\ todo \in Seq(obs)
  /\ left \in Seq(Barriers) /\ (pc = "label" <=> left # <<>>)
  /\ late \in [Tokens -> SUBSET (0..MaxTime)]
  /\ crashes \in 0..MaxCrashes

-----------------------------------------------------------------------------
(* The rest of the process.                                                *)

Tick == /\ now < MaxTime /\ now' = now + 1
        /\ UNCHANGED <<tables, pc, moment, todo, series, left, late, crashes>>

(* Two readings of the clock differ: a stamp is not the moment of a pass.  *)
RecordSnapshot(t) ==
  /\ \E q \in [at : Max({0, now - CommitLag})..now, price : Prices] :
       /\ q.at # moment
       /\ \A r \in snaps[t] : r.at < q.at
       /\ snaps' = [snaps EXCEPT ![t] = @ \cup {q}]
       /\ late' = [late EXCEPT ![t] = IF q.at < moment THEN @ \cup {q.at} ELSE @]
  /\ UNCHANGED <<now, obs, rows, pc, moment, todo, series, left, crashes>>

(* The signal loop observes snapshots only, the newest of a token first.   *)
RecordObservation(t) ==
  /\ Cardinality(obs) < MaxObservations
  /\ snaps[t] # {}
  /\ LET newest == [token |-> t, at |-> Max({q.at : q \in snaps[t]})]
     IN  newest \notin obs /\ obs' = obs \cup {newest}
  /\ UNCHANGED <<now, snaps, rows, pc, moment, todo, series, left, late, crashes>>

-----------------------------------------------------------------------------
FinalFor(o) == Cardinality({r \in rows : r.obs = o /\ r.final}) >= Cardinality(Barriers)
\* mutant: observations past their longest barrier are not read again
PendingRecent == {o \in obs : /\ ~FinalFor(o)
                              /\ now - o.at < Max({c.barrier : c \in Barriers})}
Pending == {o \in obs : ~FinalFor(o)}

BeginPass ==
  /\ pc = "idle"
  /\ moment' = now
  /\ \E order \in SetToAllKPermutations(Pending) :
       /\ Len(order) = Min({BatchSize, Cardinality(Pending)})
       /\ \A i, j \in DOMAIN order : i < j => order[i].at <= order[j].at
       /\ \A i \in DOMAIN order, o \in Pending \ Range(order) : order[i].at <= o.at
       /\ todo' = order
  /\ pc' = IF todo' = <<>> THEN "idle" ELSE "load"
  /\ UNCHANGED <<now, tables, series, left, late, crashes>>

ToNext == /\ todo' = Tail(todo)
          /\ pc' = IF Len(todo) = 1 THEN "idle" ELSE "load"
          /\ series' = {} /\ left' = <<>>

(* _series_for; without a price at the observation every configuration is  *)
(* skipped.                                                                *)
Load ==
  /\ pc = "load"
  /\ LET o == Head(todo)
     IN  IF PriceAt(snaps[o.token], o.at) = Missing
         THEN ToNext
         ELSE /\ series' = snaps[o.token] /\ left' = BarrierOrder
              /\ pc' = "label" /\ UNCHANGED todo
  /\ UNCHANGED <<now, tables, moment, late, crashes>>

Row(o, config, outcome) ==
  [obs |-> o, config |-> config, label |-> outcome.label, return |-> outcome.return,
   best |-> outcome.best, worst |-> outcome.worst, final |-> outcome.final]

\* mutant: the row is inserted beside the one that is there
InsertRow(o, config, outcome) == rows \cup {Row(o, config, outcome)}
UpsertRow(o, config, outcome) ==
  {r \in rows : r.obs # o \/ r.config # config} \cup {Row(o, config, outcome)}

(* compute_outcome and _upsert for the next configuration.                 *)
LabelNext ==
  /\ pc = "label"
  /\ LET o == Head(todo)
         config == Head(left)
     IN  rows' = UpsertRow(o, config, Outcome(series, o.at, config, Horizon, moment))
  /\ IF Len(left) = 1 THEN ToNext
     ELSE left' = Tail(left) /\ UNCHANGED <<todo, pc, series>>
  /\ UNCHANGED <<now, snaps, obs, moment, late, crashes>>

Crash ==
  /\ crashes < MaxCrashes /\ crashes' = crashes + 1
  /\ pc' = "idle" /\ todo' = <<>> /\ series' = {} /\ left' = <<>>
  /\ UNCHANGED <<now, tables, moment, late>>

Init ==
  /\ now = 0 /\ moment = Missing
  /\ snaps = [t \in Tokens |-> {}]
  /\ obs = {} /\ rows = {}
  /\ pc = "idle" /\ todo = <<>> /\ series = {} /\ left = <<>>
  /\ late = [t \in Tokens |-> {}]
  /\ crashes = 0

Loop == BeginPass \/ Load \/ LabelNext

Next == Tick \/ Loop \/ Crash
        \/ \E t \in Tokens : RecordSnapshot(t) \/ RecordObservation(t)

Spec == Init /\ [][Next]_vars

(* The supervised loop never ends and time passes.                         *)
FairSpec == Spec /\ WF_vars(Loop) /\ WF_vars(Tick)

-----------------------------------------------------------------------------
Today(r) == Outcome(snaps[r.obs.token], r.obs.at, r.config, Horizon, now)

(* A snapshot of the span after the observation was committed after a pass *)
(* that began later than it was stamped.                                   *)
Overtaken(o, span) == \E a \in late[o.token] : a \in (o.at + 1)..(o.at + span)

(* A return that is recorded is the return at its horizon: neither an      *)
(* earlier one wearing the horizon's name nor one the series contradicts,  *)
(* unless a pass overtook a snapshot before the horizon.                   *)
ReturnIsRight ==
  \A r \in rows : r.return # Missing
    => /\ now - r.obs.at >= Horizon
       /\ r.return = Today(r).return \/ Overtaken(r.obs, Horizon)

(* is_final says that the label can no longer change: a touch is what the  *)
(* series gives from then on, whatever is committed later, and so is a     *)
(* TIMEOUT unless a pass overtook a snapshot of its window.                *)
FinalIsRight ==
  \A r \in rows : r.final =>
    \/ r.label = Today(r).label
    \/ r.label = "TIMEOUT" /\ Overtaken(r.obs, r.config.barrier)

(* What is recorded and can no longer change is right, label and return.   *)
RowsRight == ReturnIsRight /\ FinalIsRight

(* Observations early enough for a span after them to elapse in a behaviour.*)
Within(span) == {o \in Observation : o.at + span <= MaxTime}

HasPrice(o) == PriceAt(snaps[o.token], o.at) # Missing

(* Every observation that has a price gets a final label under every       *)
(* configuration, however many are waiting before it.                      *)
EveryObservationLabelled ==
  \A o \in Within(Max({c.barrier : c \in Barriers})) :
    (o \in obs /\ HasPrice(o)) ~> FinalFor(o)

(* The same, as long as no observation without a price fills the batch.    *)
LabelledUnlessBlocked ==
  \A o \in Within(Max({c.barrier : c \in Barriers})) :
    (o \in obs /\ HasPrice(o)) ~> (FinalFor(o) \/ \E p \in obs : ~HasPrice(p))

(* A return is recorded once its horizon has elapsed, if there is a price, *)
(* unless a barrier was touched before: the observation may be finished    *)
(* by then and never read again.                                           *)
ReturnsFilled ==
  \A o \in Within(Horizon) :
    (/\ o \in obs /\ now >= o.at + Horizon
     /\ HasPrice(o)
     /\ PriceAt(Forward(snaps[o.token], o.at), o.at + Horizon) # Missing)
      ~> \/ \E r \in rows : r.obs = o /\ r.return # Missing
         \/ \E r \in rows : r.obs = o /\ r.label \in {"UPPER", "LOWER"}
         \/ Overtaken(o, Horizon) \/ \E p \in obs : ~HasPrice(p)

(* Labelling comes to an end for every observation that has a price: with  *)
(* a final label per configuration, and with its return.                   *)
LabellingSettles == LabelledUnlessBlocked /\ ReturnsFilled
=============================================================================
