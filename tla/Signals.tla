------------------------------- MODULE Signals -------------------------------
(***************************************************************************)
(* The signal loop: hades.signals.service over the queries of              *)
(* hades.signals.repository.  A pass reads which tracked tokens have a     *)
(* snapshot newer than their newest observation, stores one immutable      *)
(* feature vector for each and then, in a second commit, the signal if the *)
(* strategy fires.  Tracking appends snapshots and releases tokens between *)
(* any two steps.                                                          *)
(*                                                                         *)
(* A feature vector is a function of the snapshots it is computed from, so *)
(* it is modelled by the set of their times.                               *)
(***************************************************************************)
EXTENDS Integers, FiniteSets, FiniteSetsExt, Sequences, SequencesExt

CONSTANTS
  Tokens,
  Fires(_),      \* the strategy: whether a vector makes a signal
  BatchSize,
  MinInterval,   \* observation_min_interval_seconds
  Lookback,      \* series_lookback_seconds
  MaxTime,       \* bound: the clock stops here
  MaxErrors,     \* bound: failed evaluations per behaviour
  MaxCrashes     \* bound: restarts per behaviour

ASSUME SignalsAssumption ==
  /\ IsFiniteSet(Tokens)
  /\ {MinInterval, Lookback, MaxTime, MaxErrors, MaxCrashes} \subseteq Nat
  /\ BatchSize \in Nat \ {0}
  /\ \A seen \in SUBSET (0..MaxTime) : Fires(seen) \in BOOLEAN

VARIABLES
  now,
  tracked,   \* the tokens in state TRACKING
  last,      \* tokens.last_snapshot_at
  snaps,     \* market_snapshots.observed_at, per token
  obs,       \* feature_observations, per token
  signals,   \* signals.created_at, per token
  pc,        \* "idle" between passes, "observe" or "emit" within one
  todo,      \* the candidates the pass has not finished
  failed,    \* ghost: moments whose evaluation raised, per token
  judged,    \* ghost: moments whose evaluation ran to its end, per token
  errors, crashes

world == <<now, tracked, last, snaps>>
vars == <<now, tracked, last, snaps, obs, signals, pc, todo, failed, judged, errors, crashes>>

Never == -1   \* NULL, for a time

Candidate == [id : Tokens, at : Nat]
Observation == [at : Nat, seen : SUBSET (0..MaxTime)]

(* The tables hold moments that have been, and the loop is idle exactly    *)
(* when its list of candidates is used up.                                 *)
TypeOK ==
  /\ now \in 0..MaxTime
  /\ tracked \subseteq Tokens
  /\ last \in [Tokens -> -1..MaxTime]
  /\ snaps \in [Tokens -> SUBSET (0..MaxTime)]
  /\ obs \in [Tokens -> SUBSET Observation]
  /\ signals \in [Tokens -> SUBSET (0..MaxTime)]
  /\ pc \in {"idle", "observe", "emit"} /\ (pc = "idle" <=> todo = <<>>)
  /\ todo \in Seq(Candidate)
  /\ {failed, judged} \subseteq [Tokens -> SUBSET (0..MaxTime)]
  /\ errors \in 0..MaxErrors /\ crashes \in 0..MaxCrashes

-----------------------------------------------------------------------------
(* The rest of the process.                                                *)

Tick == /\ now < MaxTime /\ now' = now + 1
        /\ UNCHANGED <<tracked, last, snaps, obs, signals, pc, todo, failed, judged, errors, crashes>>

(* Tracking commits a snapshot and the token row together; the snapshot    *)
(* that shows a graduation or the end of the horizon also ends tracking.   *)
RecordSnapshot(t) ==
  /\ t \in tracked /\ last[t] < now
  /\ snaps' = [snaps EXCEPT ![t] = @ \cup {now}]
  /\ last' = [last EXCEPT ![t] = now]
  /\ tracked' \in {tracked, tracked \ {t}}
  /\ UNCHANGED <<now, obs, signals, pc, todo, failed, judged, errors, crashes>>

Retire(t) ==
  /\ t \in tracked /\ tracked' = tracked \ {t}
  /\ UNCHANGED <<now, last, snaps, obs, signals, pc, todo, failed, judged, errors, crashes>>

-----------------------------------------------------------------------------
(* SignalRepository.candidates.                                            *)

Newest(t) == Max({Never} \cup {o.at : o \in obs[t]})

\* mutant: joined to the observations by an inner join
FreshInnerJoin == {t \in tracked : Newest(t) # Never /\ last[t] > Newest(t)}
Fresh == {t \in tracked : last[t] # Never /\ (Newest(t) = Never \/ last[t] > Newest(t))}

Copy(t) == [id |-> t, at |-> last[t]]

(* The interval is applied to the rows the limit has let through.          *)
Spaced(c) == MinInterval > 0 /\ Newest(c.id) # Never => c.at - Newest(c.id) >= MinInterval

(* The BatchSize fresh tokens with the newest snapshots.                   *)
IsBatch(B) ==
  /\ Cardinality(B) = Min({BatchSize, Cardinality(Fresh)})
  /\ \A t \in B, u \in Fresh \ B : last[t] >= last[u]

BeginPass ==
  /\ pc = "idle"
  /\ \E B \in SUBSET Fresh, order \in SetToAllKPermutations(Fresh) :
       /\ IsBatch(B)
       /\ Range(order) = {t \in B : Spaced(Copy(t))}
       /\ \A i, j \in DOMAIN order : i < j => last[order[i]] >= last[order[j]]
       /\ todo' = [i \in DOMAIN order |-> Copy(order[i])]
  /\ pc' = IF todo' = <<>> THEN "idle" ELSE "observe"
  /\ UNCHANGED <<world, obs, signals, failed, judged, errors, crashes>>

-----------------------------------------------------------------------------
(* evaluate, for the head of todo.                                         *)

\* mutant: every snapshot the query loaded, also those after as_of
WindowUntruncated(t, at) == {s \in snaps[t] : s >= at - Lookback}
(* What compute_features reads: the loaded series, truncated to as_of.     *)
Window(t, at) == {s \in snaps[t] : s >= at - Lookback /\ s <= at}

\* mutant: the pass does not notice the end of its list
ToNextAlways == /\ todo' = Tail(todo)
                /\ pc' = "observe"
ToNext == /\ todo' = Tail(todo)
          /\ pc' = IF Len(todo) = 1 THEN "idle" ELSE "observe"

\* mutant: the conflict target is the token and not the moment
ObserveUpsert ==
  /\ pc = "observe"
  /\ LET t == Head(todo).id
         vector == [at |-> Head(todo).at, seen |-> Window(t, Head(todo).at)]
     IN  /\ obs' = [obs EXCEPT ![t] = {vector}]
         /\ pc' = "emit" /\ UNCHANGED todo
  /\ UNCHANGED <<world, signals, failed, judged, errors, crashes>>
(* record_observation: a moment that has a vector keeps it, and is not     *)
(* evaluated again.                                                        *)
Observe ==
  /\ pc = "observe"
  /\ LET t == Head(todo).id
         vector == [at |-> Head(todo).at, seen |-> Window(t, Head(todo).at)]
     IN  IF \E o \in obs[t] : o.at = vector.at
         THEN UNCHANGED obs /\ ToNext
         ELSE /\ obs' = [obs EXCEPT ![t] = @ \cup {vector}]
              /\ pc' = "emit" /\ UNCHANGED todo
  /\ UNCHANGED <<world, signals, failed, judged, errors, crashes>>

(* The strategy judges the stored vector; record_signal commits.           *)
Emit ==
  /\ pc = "emit"
  /\ LET t == Head(todo).id
         at == Head(todo).at
         vector == CHOOSE o \in obs[t] : o.at = at
     IN  /\ signals' = IF Fires(vector.seen)
                       THEN [signals EXCEPT ![t] = @ \cup {at}] ELSE signals
         /\ judged' = [judged EXCEPT ![t] = @ \cup {at}]
  /\ ToNext
  /\ UNCHANGED <<world, obs, failed, errors, crashes>>

(* Either step raises before its commit: logged, and on to the next one.   *)
Fail ==
  /\ pc \in {"observe", "emit"}
  /\ errors < MaxErrors /\ errors' = errors + 1
  /\ failed' = [failed EXCEPT ![Head(todo).id] = @ \cup {Head(todo).at}]
  /\ ToNext
  /\ UNCHANGED <<world, obs, signals, judged, crashes>>

Crash ==
  /\ crashes < MaxCrashes /\ crashes' = crashes + 1
  /\ pc' = "idle" /\ todo' = <<>>
  /\ UNCHANGED <<world, obs, signals, failed, judged, errors>>

Init ==
  /\ now = 0
  /\ tracked = Tokens
  /\ last = [t \in Tokens |-> Never]
  /\ snaps = [t \in Tokens |-> {}]
  /\ obs = [t \in Tokens |-> {}]
  /\ signals = [t \in Tokens |-> {}]
  /\ pc = "idle" /\ todo = <<>>
  /\ failed = [t \in Tokens |-> {}] /\ judged = [t \in Tokens |-> {}]
  /\ errors = 0 /\ crashes = 0

Loop == BeginPass \/ Observe \/ Emit

Next == Tick \/ Loop \/ Fail \/ Crash \/ \E t \in Tokens : RecordSnapshot(t) \/ Retire(t)

Spec == Init /\ [][Next]_vars

(* The supervised loop never ends; errors and crashes are bounded.         *)
FairSpec == Spec /\ WF_vars(Loop)

-----------------------------------------------------------------------------
(* A replay agrees with the live run: every stored vector is dated by a    *)
(* snapshot, and it and every verdict on it are what the tables give for   *)
(* that moment today, however many were committed since it was read.       *)
ReplayAgrees ==
  \A t \in Tokens : \A o \in obs[t] :
    /\ o.at \in snaps[t] /\ o.seen = Window(t, o.at)
    /\ o.at \in judged[t] => (o.at \in signals[t] <=> Fires(Window(t, o.at)))

(* History is appended: a vector is immutable, a moment is never observed  *)
(* twice, and a new vector of a token is later than those it has by at     *)
(* least the interval the observations are thinned to.                     *)
HistoryAppended ==
  [][\A t \in Tokens : /\ obs[t] \subseteq obs'[t] /\ signals[t] \subseteq signals'[t]
                       /\ \A n \in obs'[t] \ obs[t], o \in obs[t] :
                            n.at > o.at /\ n.at - o.at >= MinInterval]_vars

(* The limit is applied before the interval: a token observed too recently *)
(* takes a place in the batch and gives nothing.                           *)
PlaceWasted == \E t \in Fresh : ~Spaced(Copy(t))

(* A fresh snapshot of a token that stays in tracking is observed, or a    *)
(* later one is, in spite of failures, crashes and a limited batch, unless *)
(* the places of the batch are wasted.                                     *)
FreshIsObserved ==
  \A t \in Tokens : \A a \in 0..MaxTime :
    (t \in tracked /\ last[t] = a) ~> (t \notin tracked \/ Newest(t) >= a \/ PlaceWasted)

(* The next pass retries an evaluation that failed.                        *)
FailureRetried ==
  \A t \in Tokens : \A a \in 0..MaxTime : a \in failed[t] ~> a \in judged[t]

=============================================================================
