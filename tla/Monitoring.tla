----------------------------- MODULE Monitoring -----------------------------
(***************************************************************************)
(* What the process says about itself: the stats loop, which reads its     *)
(* aggregates in several sessions while the other loops commit, throttles  *)
(* itself by how long that took and keeps the last snapshot for /status    *)
(* and /metrics, and the heartbeat, which announces once that there is     *)
(* enough evidence.  Of the aggregates, two stand for all: the signals,    *)
(* read in the first session, and the signalled observations with a final  *)
(* outcome, read in a later one.                                           *)
(***************************************************************************)
EXTENDS Integers, FiniteSetsExt

CONSTANTS
  Interval,      \* stats_refresh_interval_seconds
  RestartDelay,  \* the supervisor's backoff after a failed refresh
  Threshold,     \* research_ready_threshold
  MaxTime,       \* bound: the clock stops here
  MaxRows,       \* bound: signals per behaviour
  MaxFailures    \* bound: failed refreshes and posts per behaviour

VARIABLES
  now,
  signals,    \* rows of signals
  finals,     \* signalled_final_count
  stage,      \* the stats loop: "asleep", "tokens", "outcomes", "portfolio"
  began,      \* when the refresh began
  draft,      \* its local variables so far, each with the time it was read
  snapshot,   \* StatsService.snapshot
  wake,       \* when the sleep is over
  beat,       \* the heartbeat: "idle", or "posting" the announcement
  announced,
  delivered,  \* ghost: an announcement has arrived
  busy, idle, \* ghosts: time spent in and between refreshes since one failed
  failures

tables == <<signals, finals>>
stats == <<stage, began, draft, snapshot, wake>>
heart == <<beat, announced, delivered>>
duty == <<busy, idle>>
vars == <<now, tables, stats, heart, duty, failures>>

MonitoringAssumption ==
  /\ {Interval, RestartDelay} \subseteq Nat /\ Threshold \in Nat \ {0}
  /\ {MaxTime, MaxRows, MaxFailures} \subseteq Nat

Time == 0..MaxTime
Rows == 0..MaxRows
Read == [value : Rows, at : Time]          \* a count, and when it was read
None == [computed |-> -1]
Snapshot == [computed : Time, duration : Time, signals : Read, finals : Read]

(* A refresh is not from the future, and no final outcome is of a signal   *)
(* that is not there.                                                      *)
TypeOK ==
  /\ now \in Time
  /\ signals \in Rows /\ finals \in 0..signals
  /\ stage \in {"asleep", "tokens", "outcomes", "portfolio"} /\ began \in 0..now
  /\ draft \in [signals : Read, finals : Read]
  /\ snapshot \in Snapshot \cup {None}
  /\ wake \in Nat
  /\ beat \in {"idle", "posting"} /\ announced \in BOOLEAN /\ delivered \in BOOLEAN
  /\ busy \in Time /\ idle \in Time
  /\ failures \in 0..MaxFailures

NoDraft == [signals |-> [value |-> 0, at |-> 0], finals |-> [value |-> 0, at |-> 0]]

Init ==
  /\ now = 0 /\ signals = 0 /\ finals = 0
  /\ stage = "asleep" /\ began = 0 /\ draft = NoDraft /\ snapshot = None /\ wake = 0
  /\ beat = "idle" /\ announced = FALSE /\ delivered = FALSE
  /\ busy = 0 /\ idle = 0 /\ failures = 0

-----------------------------------------------------------------------------
(* The other loops commit a signal, or the final outcome of one.           *)
Commit ==
  /\ \/ signals < MaxRows /\ signals' = signals + 1 /\ UNCHANGED finals
     \/ finals < signals /\ finals' = finals + 1 /\ UNCHANGED signals
  /\ UNCHANGED <<now, stats, heart, duty, failures>>

Tick ==
  /\ now < MaxTime /\ now' = now + 1
  /\ IF stage = "asleep" THEN idle' = idle + 1 /\ UNCHANGED busy
                      ELSE busy' = busy + 1 /\ UNCHANGED idle
  /\ UNCHANGED <<tables, stats, heart, failures>>

-----------------------------------------------------------------------------
(* StatsService.refresh, a session at a time.                              *)

Begin ==
  /\ stage = "asleep" /\ now >= wake
  /\ stage' = "tokens" /\ began' = now
  /\ UNCHANGED <<now, tables, draft, snapshot, wake, heart, duty, failures>>

ReadTokens ==
  /\ stage = "tokens" /\ stage' = "outcomes"
  /\ draft' = [draft EXCEPT !.signals = [value |-> signals, at |-> now]]
  /\ UNCHANGED <<now, tables, began, snapshot, wake, heart, duty, failures>>

ReadOutcomes ==
  /\ stage = "outcomes" /\ stage' = "portfolio"
  /\ draft' = [draft EXCEPT !.finals = [value |-> finals, at |-> now]]
  /\ UNCHANGED <<now, tables, began, snapshot, wake, heart, duty, failures>>

\* mutant: the fixed interval
Unthrottled(duration) == Interval
(* MAX_DUTY_CYCLE is a quarter: three times the refresh, at least.         *)
Delay(duration) == Max({Interval, 3 * duration})

\* mutant: the duration of the last query, not of the refresh
LastQuery == now - draft.finals.at
Duration == now - began

Publish ==
  /\ stage = "portfolio" /\ stage' = "asleep"
  /\ snapshot' = [computed |-> now, duration |-> Duration,
                  signals |-> draft.signals, finals |-> draft.finals]
  /\ wake' = now + Delay(Duration)
  /\ began' = 0 /\ draft' = NoDraft
  /\ UNCHANGED <<now, tables, heart, duty, failures>>

(* A query raises: the supervisor starts the loop again, and it refreshes  *)
(* at once.                                                                *)
RefreshFails ==
  /\ stage # "asleep" /\ failures < MaxFailures /\ failures' = failures + 1
  /\ stage' = "asleep" /\ wake' = now + RestartDelay
  /\ began' = 0 /\ draft' = NoDraft
  /\ busy' = 0 /\ idle' = 0
  /\ UNCHANGED <<now, tables, snapshot, heart>>

-----------------------------------------------------------------------------
(* What /metrics shows now, and /status without the duration: no aggregate *)
(* until there is one, and the age of those there are.                     *)
Page ==
  IF snapshot = None THEN None
  ELSE [age |-> now - snapshot.computed, duration |-> snapshot.duration,
        signals |-> snapshot.signals, finals |-> snapshot.finals]

(* HeartbeatService._report_once: enough final outcomes, for the first     *)
(* time in the life of this process.                                       *)
Count ==
  /\ beat = "idle" /\ ~announced /\ finals >= Threshold
  /\ beat' = "posting"
  /\ UNCHANGED <<now, tables, stats, announced, delivered, duty, failures>>

(* _post logs a failure and returns as after a success.                    *)
Post ==
  /\ beat = "posting" /\ beat' = "idle" /\ announced' = TRUE
  /\ \/ delivered' = TRUE /\ UNCHANGED failures
     \/ failures < MaxFailures /\ failures' = failures + 1 /\ UNCHANGED delivered
  /\ UNCHANGED <<now, tables, stats, duty>>

(* The process starts again, at any time, with nothing but the tables.     *)
Restart ==
  /\ stage' = "asleep" /\ began' = 0 /\ draft' = NoDraft
  /\ snapshot' = None /\ wake' = now
  /\ beat' = "idle" /\ announced' = FALSE
  /\ busy' = 0 /\ idle' = 0
  /\ UNCHANGED <<now, tables, delivered, failures>>

Refresh == Begin \/ ReadTokens \/ ReadOutcomes \/ Publish
Heartbeat == Count \/ Post

Next == Commit \/ Tick \/ Refresh \/ RefreshFails \/ Heartbeat \/ Restart

Spec == Init /\ [][Next]_vars

(* The heartbeat is supervised and comes round again and again, failures   *)
(* are bounded, and not every post is cut off by a restart.                *)
FairSpec == Spec /\ WF_vars(Count) /\ SF_vars(Post)

-----------------------------------------------------------------------------
(* At most a quarter of the time goes into the aggregates, however long    *)
(* each refresh took, as long as none fails: a failed one is followed by   *)
(* the next as soon as the supervisor allows.                              *)
DutyHeld == [][stage = "asleep" /\ stage' # "asleep" => 3 * busy <= idle]_vars

(* A stale number can be dated: each aggregate a reader is shown was the   *)
(* table's at a moment no further back than the age and the duration shown *)
(* with it.  Neither the age alone nor one moment for all is promised.     *)
NumbersDated ==
  Page # None => \A read \in {Page.signals, Page.finals} :
                   now - read.at \in 0 .. Page.age + Page.duration

(* "missing the alert entirely is worse than one duplicate ping": enough   *)
(* evidence is announced, although a post may fail.                        *)
AlertDelivered == finals >= Threshold ~> delivered
=============================================================================
