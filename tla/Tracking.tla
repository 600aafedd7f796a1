------------------------------ MODULE Tracking ------------------------------
(***************************************************************************)
(* The tracking loop: hades.tracking.service over the schedule of          *)
(* hades.tracking.schedule and the queries of hades.tracking.repository.   *)
(*                                                                         *)
(* Discovery inserts tokens and fills in their creation time; the clock    *)
(* runs between any two steps; the process may restart between any two     *)
(* commits.  Every commit of the pass is an action.  The rows of a batch   *)
(* are copies taken when the batch was read, failure count included.       *)
(***************************************************************************)
EXTENDS Integers, FiniteSets, FiniteSetsExt, Sequences, SequencesExt

CONSTANTS
  Tokens,
  MaxConcurrent, BatchSize,              \* TrackingService
  MaxFailures, RetryAfter,
  EarlyUntil, EarlyEvery,                \* TrackingSchedule
  MediumUntil, MediumEvery,
  NormalUntil, NormalEvery, LongEvery,
  RetireAfter,
  LastCreation,                          \* bound: no token is created later
  MaxTime,                               \* bound: the clock stops here
  MaxCrashes                             \* bound: restarts per behaviour

ASSUME TrackingAssumption ==
  /\ IsFiniteSet(Tokens)
  /\ {LastCreation, MaxTime, MaxCrashes, RetryAfter, RetireAfter} \subseteq Nat
  /\ {MaxConcurrent, BatchSize, MaxFailures, EarlyEvery, MediumEvery,
      NormalEvery, LongEvery, EarlyUntil, MediumUntil, NormalUntil}
       \subseteq Nat \ {0}
  /\ EarlyUntil < MediumUntil /\ MediumUntil < NormalUntil

VARIABLES
  now,
  row,      \* the tracking columns of tokens
  series,   \* market_snapshots.observed_at, per token
  pc,       \* the step of run_once in progress, "idle" between passes
  batch,    \* what due() returned and snapshot_due has not reached
  streak,   \* ghost: failed requests since the last snapshot
  crashes

vars == <<now, row, series, pc, batch, streak, crashes>>

Unknown == -1  \* NULL, for a time

States == {"ABSENT", "DISCOVERED", "TRACKING", "MIGRATED", "INACTIVE", "DEAD"}
Token == [state : States, created : Nat \cup {Unknown}, next : Nat \cup {Unknown},
          last : Nat \cup {Unknown}, count : Nat, failures : Nat]
DueToken == [id : Tokens, created : Nat, failures : Nat]

NoToken == [state |-> "ABSENT", created |-> Unknown, next |-> Unknown,
            last |-> Unknown, count |-> 0, failures |-> 0]

(* The columns hold what the schema allows, and the memory of the pass is  *)
(* a sequence of copied rows.                                              *)
TypeOK ==
  /\ now \in 0..MaxTime
  /\ row \in [Tokens -> Token]
  /\ series \in [Tokens -> SUBSET (0..MaxTime)]
  /\ pc \in {"idle", "admit", "due", "fetch"}
  /\ batch \in Seq(DueToken)
  /\ streak \in [Tokens -> Nat]
  /\ crashes \in 0..MaxCrashes

InTracking == {t \in Tokens : row[t].state = "TRACKING"}
Horizon == now - RetireAfter

-----------------------------------------------------------------------------
(* TrackingSchedule.                                                       *)

TierFor(age) ==
  CASE age >= RetireAfter -> "RETIRED"
    [] age < RetireAfter /\ age < EarlyUntil -> "EARLY"
    [] age < RetireAfter /\ age \in EarlyUntil..(MediumUntil - 1) -> "MEDIUM"
    [] age < RetireAfter /\ age \in MediumUntil..(NormalUntil - 1) -> "NORMAL"
    [] age < RetireAfter /\ age >= NormalUntil -> "LONG"

IntervalFor(age) ==
  [EARLY |-> EarlyEvery, MEDIUM |-> MediumEvery, NORMAL |-> NormalEvery,
   LONG |-> LongEvery, RETIRED |-> Unknown][TierFor(age)]

-----------------------------------------------------------------------------
(* The rest of the process.                                                *)

Tick == /\ now < MaxTime /\ now' = now + 1
        /\ UNCHANGED <<row, series, pc, batch, streak, crashes>>

Creations == {c \in 0..now : c <= LastCreation}

(* A first sighting: the push stream carries no creation time.             *)
Discover(t) ==
  /\ row[t].state = "ABSENT"
  /\ \E c \in Creations \cup {Unknown} :
       row' = [row EXCEPT ![t].state = "DISCOVERED", ![t].created = c]
  /\ UNCHANGED <<now, series, pc, batch, streak, crashes>>

(* A later sighting fills in a missing creation time, whatever the state.  *)
Backfill(t) ==
  /\ row[t].state # "ABSENT" /\ row[t].created = Unknown
  /\ \E c \in Creations : row' = [row EXCEPT ![t].created = c]
  /\ UNCHANGED <<now, series, pc, batch, streak, crashes>>

-----------------------------------------------------------------------------
(* retire_and_admit.                                                       *)

\* mutant: an aged-out token is left to its own snapshot to retire
NobodyOverdue == {}
Overdue == {t \in InTracking : row[t].created # Unknown /\ row[t].created <= Horizon}

RetireOverdue ==
  /\ pc = "idle" /\ pc' = "admit"
  /\ row' = [t \in Tokens |-> IF t \in Overdue
                              THEN [row[t] EXCEPT !.state = "INACTIVE", !.next = Unknown]
                              ELSE row[t]]
  /\ UNCHANGED <<now, series, batch, streak, crashes>>

\* mutant: a slot for every place, whoever holds one
AllSlots == MaxConcurrent
Slots == Max({0, MaxConcurrent - Cardinality(InTracking)})

\* mutant: any token that is young enough, also one that left its slot
EligibleAgain == {t \in Tokens : /\ row[t].state \notin {"ABSENT", "TRACKING"}
                                 /\ row[t].created # Unknown /\ row[t].created > Horizon}
Eligible == {t \in Tokens : /\ row[t].state = "DISCOVERED"
                            /\ row[t].created # Unknown /\ row[t].created > Horizon}

(* The newest S of the eligible, ties in any order.                        *)
NewestFirst(S) == \A t \in S, u \in Eligible \ S : row[t].created >= row[u].created

AdmitRow(t) == [row[t] EXCEPT !.state = "TRACKING", !.next = now]

Admit ==
  /\ pc = "admit" /\ pc' = "due"
  /\ \E S \in SUBSET Eligible :
       /\ Cardinality(S) = Min({Slots, Cardinality(Eligible)})
       /\ NewestFirst(S)
       /\ row' = [t \in Tokens |-> IF t \in S THEN AdmitRow(t) ELSE row[t]]
  /\ UNCHANGED <<now, series, batch, streak, crashes>>

-----------------------------------------------------------------------------
(* snapshot_due.                                                           *)

DueNow == {t \in InTracking : /\ row[t].next # Unknown /\ row[t].next <= now
                              /\ row[t].created # Unknown}

\* mutant: youngest token first instead of most overdue first
YoungestFirst(t, u) == row[t].created >= row[u].created
Before(t, u) == row[t].next <= row[u].next

Copy(t) == [id |-> t, created |-> row[t].created, failures |-> row[t].failures]

ReadDue ==
  /\ pc = "due"
  /\ \E order \in SetToAllKPermutations(DueNow) :
       /\ Len(order) = Min({BatchSize, Cardinality(DueNow)})
       /\ \A i, j \in DOMAIN order : i < j => Before(order[i], order[j])
       /\ \A i \in DOMAIN order, u \in DueNow \ Range(order) : Before(order[i], u)
       /\ batch' = [i \in DOMAIN order |-> Copy(order[i])]
       /\ pc' = IF order = <<>> THEN "idle" ELSE "fetch"
  /\ UNCHANGED <<now, row, series, streak, crashes>>

Advance == /\ batch' = Tail(batch)
           /\ pc' = IF Len(batch) = 1 THEN "idle" ELSE "fetch"
           /\ UNCHANGED <<now, crashes>>

\* mutant: the next one is due an interval after this one was due
SnapshotFromPlan(d, complete) ==
  LET r == row[d.id]
      interval == IntervalFor(now - d.created)
  IN  [r EXCEPT !.last = now, !.count = r.count + 1, !.failures = 0,
                !.state = IF complete THEN "MIGRATED"
                          ELSE IF interval = Unknown THEN "INACTIVE" ELSE r.state,
                !.next = IF complete \/ interval = Unknown THEN Unknown
                         ELSE r.next + interval]
\* mutant: a success leaves the failure count alone
SnapshotKeepsFailures(d, complete) ==
  LET r == row[d.id]
      interval == IntervalFor(now - d.created)
  IN  [r EXCEPT !.last = now, !.count = r.count + 1,
                !.state = IF complete THEN "MIGRATED"
                          ELSE IF interval = Unknown THEN "INACTIVE" ELSE r.state,
                !.next = IF complete \/ interval = Unknown THEN Unknown
                         ELSE now + interval]
(* The row after a snapshot taken now for the copy d.                      *)
SnapshotRow(d, complete) ==
  LET r == row[d.id]
      interval == IntervalFor(now - d.created)
  IN  [r EXCEPT !.last = now, !.count = r.count + 1, !.failures = 0,
                !.state = IF complete THEN "MIGRATED"
                          ELSE IF interval = Unknown THEN "INACTIVE" ELSE r.state,
                !.next = IF complete \/ interval = Unknown THEN Unknown
                         ELSE now + interval]

RecordSnapshot ==
  /\ pc = "fetch"
  /\ \E complete \in BOOLEAN :
       row' = [row EXCEPT ![Head(batch).id] = SnapshotRow(Head(batch), complete)]
  /\ series' = [series EXCEPT ![Head(batch).id] = @ \cup {now}]
  /\ streak' = [streak EXCEPT ![Head(batch).id] = 0]
  /\ Advance

(* The row after a failed request for the copy d.                          *)
FailureRow(d) ==
  LET failures == d.failures + 1
  IN  IF failures >= MaxFailures
      THEN [row[d.id] EXCEPT !.failures = failures, !.state = "DEAD", !.next = Unknown]
      ELSE [row[d.id] EXCEPT !.failures = failures, !.next = now + RetryAfter]

RecordFailure ==
  /\ pc = "fetch"
  /\ row' = [row EXCEPT ![Head(batch).id] = FailureRow(Head(batch))]
  /\ streak' = [streak EXCEPT ![Head(batch).id] = @ + 1]
  /\ Advance
  /\ UNCHANGED series

(* The provider asks us to wait: the pass sleeps and drops its batch.      *)
RateLimited ==
  /\ pc = "fetch"
  /\ pc' = "idle" /\ batch' = <<>>
  /\ UNCHANGED <<now, row, series, streak, crashes>>

-----------------------------------------------------------------------------
(* An exception the pass does not catch, or a restart of the process.      *)
Crash ==
  /\ crashes < MaxCrashes /\ crashes' = crashes + 1
  /\ pc' = "idle" /\ batch' = <<>>
  /\ UNCHANGED <<now, row, series, streak>>

Init ==
  /\ now = 0
  /\ row = [t \in Tokens |-> NoToken]
  /\ series = [t \in Tokens |-> {}]
  /\ pc = "idle" /\ batch = <<>>
  /\ streak = [t \in Tokens |-> 0]
  /\ crashes = 0

Loop == RetireOverdue \/ Admit \/ ReadDue \/ RecordSnapshot \/ RecordFailure \/ RateLimited

Next == \/ Tick \/ Loop \/ Crash
        \/ \E t \in Tokens : Discover(t) \/ Backfill(t)

Spec == Init /\ [][Next]_vars

(* The supervised loop never ends and time passes; what the provider       *)
(* answers, and whether anything is discovered, is not assumed.            *)
FairSpec == Spec /\ WF_vars(Loop) /\ WF_vars(Tick)

-----------------------------------------------------------------------------
(* The budget: never more tokens in tracking than max_concurrent, so the   *)
(* request rate computed from it is not exceeded.                          *)
CapacityHeld == Cardinality(InTracking) <= MaxConcurrent

(* A slot is held exactly by the tokens that have a next snapshot: none    *)
(* occupies one without being polled, none is polled without one.          *)
SlotIffScheduled ==
  \A t \in Tokens : row[t].state = "TRACKING" <=> row[t].next # Unknown

(* Slots are accounted for: each is held by a token that is polled, and    *)
(* there are never more of them than the request budget was computed for.  *)
SlotsAccounted == CapacityHeld /\ SlotIffScheduled

(* Two snapshots of a token in a row are at least the interval of its tier *)
(* apart, whatever was batched, retried or restarted in between.           *)
SpacingHeld ==
  \A t \in Tokens : \A a, b \in series[t] :
    a < b => b - a >= IntervalFor(a - row[t].created)

(* Most overdue first: while a token is due, no other token is observed    *)
(* twice, so a full batch starves nobody.                                  *)
NobodyStarves ==
  \A t, u \in Tokens : u # t /\ row[u].state = "TRACKING"
    => Cardinality({s \in series[t] : s > row[u].next}) <= 1

(* A token is given up for dead only after MaxFailures failed requests in  *)
(* a row, and keeps its slot through any shorter streak.                   *)
DeadAfterStreak ==
  \A t \in Tokens : /\ row[t].state = "DEAD" => streak[t] >= MaxFailures
                    /\ row[t].state = "TRACKING" => streak[t] < MaxFailures

(* Refinement: the rows live the life of TokenLifecycle.                   *)
Life == INSTANCE TokenLifecycle WITH life <- [t \in Tokens |-> row[t].state]
Lifecycle == Life!LifeSpec

(* No token holds a slot forever, whatever the provider answers: a token   *)
(* whose provider was down through its whole horizon is released too.      *)
SlotsReleased == \A t \in Tokens : row[t].state = "TRACKING" ~> row[t].state # "TRACKING"

=============================================================================
