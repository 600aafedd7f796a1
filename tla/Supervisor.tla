----------------------------- MODULE Supervisor -----------------------------
(***************************************************************************)
(* hades.supervision.LoopSupervisor: one task that runs a never-ending     *)
(* loop body, restarts it with a growing delay when it dies, and is        *)
(* cancelled by stop().                                                    *)
(*                                                                         *)
(* pc is where the task is: "none" without a task, "ready" created and not *)
(* yet run, "body" awaiting the loop, "backoff" awaiting the sleep and     *)
(* "ended" once the coroutine is over and nobody has joined it.            *)
(***************************************************************************)
EXTENDS Integers, FiniteSetsExt, Doubling

CONSTANTS
  BaseDelay, MaxDelay,  \* base_delay_seconds, max_delay_seconds
  HealthyAfter,         \* healthy_after_seconds
  MaxStreak             \* bound: the ghost streak is not counted further

ASSUME SupervisorAssumption ==
  /\ {BaseDelay, HealthyAfter} \subseteq Nat
  /\ {MaxDelay, MaxStreak} \subseteq Nat \ {0}
  /\ BaseDelay <= MaxDelay

VARIABLES
  pc,
  state,      \* what the health endpoints read
  delay,      \* the local of _supervise: how long the next backoff lasts
  uptime,     \* of the current body, not counted beyond HealthyAfter
  wait,       \* what is left of the sleep
  stopping,   \* stop() awaits the task
  cancelled,  \* the task has been cancelled and has not noticed yet
  streak,     \* ghost: deaths since a body last lived for HealthyAfter
  ignored     \* ghost: a body answered the cancellation of stop() with an error

vars == <<pc, state, delay, uptime, wait, stopping, cancelled, streak, ignored>>

\* mutant: the doubled delay is not capped
LesserOfNone(a, b) == a
Lesser(a, b) == IF a <= b THEN a ELSE b

(* The delays stay between the base and the cap, the sleep never exceeds   *)
(* the cap and the task is in one of its five places.                      *)
TypeOK ==
  /\ pc \in {"none", "ready", "body", "backoff", "ended"}
  /\ state \in {"stopped", "running", "restarting"}
  /\ delay \in BaseDelay..MaxDelay
  /\ uptime \in 0..HealthyAfter
  /\ wait \in 0..MaxDelay
  /\ stopping \in BOOLEAN /\ cancelled \in BOOLEAN
  /\ streak \in 0..MaxStreak
  /\ ignored \in BOOLEAN

Init ==
  /\ pc = "none" /\ state = "stopped"
  /\ delay = BaseDelay /\ uptime = 0 /\ wait = 0
  /\ stopping = FALSE /\ cancelled = FALSE
  /\ streak = 0 /\ ignored = FALSE

(* start(): a second call finds the task and does nothing.                 *)
Start ==
  /\ pc = "none"
  /\ pc' = "ready"
  /\ UNCHANGED <<state, delay, uptime, wait, stopping, cancelled, streak, ignored>>

(* The first step of _supervise.                                           *)
Enter ==
  /\ pc = "ready" /\ ~cancelled
  /\ pc' = "body" /\ state' = "running"
  /\ delay' = BaseDelay /\ uptime' = 0 /\ streak' = 0
  /\ UNCHANGED <<wait, stopping, cancelled, ignored>>

(* A unit of time passes for the body or for the sleep.                    *)
Tick ==
  /\ ~cancelled
  /\ \/ /\ pc = "body" /\ uptime' = Lesser(uptime + 1, HealthyAfter)
        /\ UNCHANGED wait
     \/ /\ pc = "backoff" /\ wait > 0 /\ wait' = wait - 1
        /\ UNCHANGED uptime
  /\ UNCHANGED <<pc, state, delay, stopping, cancelled, streak, ignored>>

\* mutant: any life, however short, counts as a recovery
DelayAlwaysReset == BaseDelay
DelayAfterDeath == IF uptime >= HealthyAfter THEN BaseDelay ELSE delay

(* From the end of the body to the sleep: there is no await in between.    *)
Backoff ==
  /\ delay' = DelayAfterDeath
  /\ wait' = DelayAfterDeath
  /\ pc' = "backoff" /\ state' = "restarting"
  /\ streak' = IF uptime >= HealthyAfter THEN 1 ELSE Lesser(streak + 1, MaxStreak)
  /\ UNCHANGED <<uptime, stopping>>

\* mutant: record the error and return, as the runtimes before it did
DieAndReturn ==
  /\ pc = "body" /\ ~cancelled
  /\ pc' = "ended"
  /\ UNCHANGED <<state, delay, uptime, wait, stopping, cancelled, streak, ignored>>
(* The body raises, or returns, which is treated as the same failure.      *)
Die ==
  /\ pc = "body" /\ ~cancelled
  /\ Backoff
  /\ UNCHANGED <<cancelled, ignored>>

\* mutant: the entry of the loop does not touch the reported state
WakeQuietly ==
  /\ pc = "backoff" /\ wait = 0 /\ ~cancelled
  /\ delay' = Lesser(2 * delay, MaxDelay)
  /\ pc' = "body" /\ uptime' = 0
  /\ UNCHANGED <<state, wait, stopping, cancelled, streak, ignored>>
(* The sleep is over; the next one will be twice as long, up to the cap.   *)
Wake ==
  /\ pc = "backoff" /\ wait = 0 /\ ~cancelled
  /\ delay' = Lesser(2 * delay, MaxDelay)
  /\ pc' = "body" /\ state' = "running" /\ uptime' = 0
  /\ UNCHANGED <<wait, stopping, cancelled, streak, ignored>>

(* stop(), up to its await.                                                *)
Stop ==
  /\ pc # "none" /\ ~stopping
  /\ stopping' = TRUE
  /\ cancelled' = (pc # "ended")
  /\ UNCHANGED <<pc, state, delay, uptime, wait, streak, ignored>>

\* mutant: every exception is a crash, cancellation included
CancelIsACrash ==
  /\ pc = "body" /\ cancelled
  /\ Backoff
  /\ cancelled' = FALSE
  /\ UNCHANGED ignored
(* The cancellation reaches the body.  A body whose cleanup ends with      *)
(* another exception uses the cancellation up, and is restarted.           *)
CancelBody ==
  /\ pc = "body" /\ cancelled
  /\ cancelled' = FALSE
  /\ \/ /\ pc' = "ended" /\ state' = "stopped"
        /\ UNCHANGED <<delay, uptime, wait, stopping, streak, ignored>>
     \/ /\ Backoff
        /\ ignored' = TRUE

(* It reaches the sleep, or a task that never ran: nothing catches it.     *)
CancelElsewhere ==
  /\ pc \in {"ready", "backoff"} /\ cancelled
  /\ cancelled' = FALSE
  /\ pc' = "ended"
  /\ UNCHANGED <<state, delay, uptime, wait, stopping, streak, ignored>>

(* The await of stop() returns.                                            *)
Join ==
  /\ pc = "ended" /\ stopping
  /\ stopping' = FALSE
  /\ pc' = "none" /\ state' = "stopped"
  /\ UNCHANGED <<delay, uptime, wait, cancelled, streak, ignored>>

Supervise == Enter \/ Wake \/ CancelBody \/ CancelElsewhere \/ Join

Next == Start \/ Tick \/ Die \/ Stop \/ Supervise

Spec == Init /\ [][Next]_vars

(* The event loop runs every task that is ready and time passes; whether   *)
(* the body dies, and whether anyone calls stop, is up to the environment. *)
FairSpec == Spec /\ WF_vars(Supervise) /\ WF_vars(Tick)

-----------------------------------------------------------------------------
(* The health endpoints never call a loop running while it sits in backoff *)
(* or is gone, and never call it dead while its body runs: the reported    *)
(* state follows the task through every restart, cancel and join.          *)
StateHonest ==
  /\ state = "running" <=> pc = "body"
  /\ pc = "backoff" => state = "restarting"
  /\ pc = "none" => state = "stopped"

(* The n-th death in a row waits Base * 2^(n-1) up to the cap, and only a  *)
(* body that lived for HealthyAfter starts the row again.                  *)
BackoffSchedule ==
  pc = "backoff" /\ streak < MaxStreak
    => delay = Lesser(BaseDelay * Power2[streak - 1], MaxDelay)

(* A supervised loop that nobody stops always comes back to its body,      *)
(* whatever killed it: the seven-hour outage must not repeat.              *)
ComesBack == (pc # "none" /\ ~stopping) ~> (pc = "body" \/ stopping)

(* stop() returns, wherever its cancellation lands: the shutdown of the    *)
(* application waits for each of them.  The one exception is a body that   *)
(* answers the cancellation with another error.                            *)
StopReturns == stopping ~> (~stopping \/ ignored)
=============================================================================
