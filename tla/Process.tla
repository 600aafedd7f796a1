------------------------------- MODULE Process -------------------------------
(***************************************************************************)
(* The process around the loops: one supervised task (Supervisor), the     *)
(* start and the shutdown of all of them (Lifespan) and what the process   *)
(* says about itself (Monitoring).  Lifespan takes over the places of a    *)
(* task from Supervisor and not its clock; a behaviour is one of `part`    *)
(* while the others rest.                                                  *)
(***************************************************************************)
EXTENDS Supervisor

CONSTANTS
  Enabled, MaxOutages, MaxDeaths,                                             \* Lifespan
  Interval, RestartDelay, Threshold, MaxTime, MaxRows, MaxFailures            \* Monitoring

VARIABLES
  part,      \* the machine of this behaviour
  phase, database, task, cancelling, open, todo, step, defied, outages, deaths,  \* Lifespan
  now, signals, finals, stage, began, draft, snapshot, wake, beat, announced,
  delivered, busy, idle, failures                                             \* Monitoring

lifespan == <<phase, database, task, cancelling, open, todo, step, defied, outages, deaths>>
monitoring == <<now, signals, finals, stage, began, draft, snapshot, wake, beat, announced,
                delivered, busy, idle, failures>>

Life == INSTANCE Lifespan
Monitor == INSTANCE Monitoring

ASSUME ProcessAssumption == Life!LifespanAssumption /\ Monitor!MonitoringAssumption

PartsInit ==
  /\ part \in {"supervisor", "lifespan", "monitoring"}
  /\ Init /\ Life!Init /\ Monitor!Init

SupervisorMoves == part = "supervisor" /\ Next /\ UNCHANGED <<part, lifespan, monitoring>>
LifespanMoves == part = "lifespan" /\ Life!Next /\ UNCHANGED <<part, vars, monitoring>>
MonitoringMoves == part = "monitoring" /\ Monitor!Next /\ UNCHANGED <<part, vars, lifespan>>

allVars == <<part, vars, lifespan, monitoring>>

(* Every task that is ready gets its turn, and so does the task that runs  *)
(* the lifespan; time passes for a body and for a sleep.                   *)
PartsSpec ==
  /\ PartsInit /\ [][SupervisorMoves \/ LifespanMoves \/ MonitoringMoves]_allVars
  /\ WF_vars(part = "supervisor" /\ Supervise)
  /\ WF_vars(part = "supervisor" /\ Tick)
  /\ WF_lifespan(part = "lifespan" /\ Life!Main)
  /\ WF_lifespan(part = "lifespan" /\ Life!Supervised)

-----------------------------------------------------------------------------
(* The type invariants of the three.                                       *)
Typed == TypeOK /\ Life!TypeOK /\ Monitor!TypeOK

(* No body runs on a client or an engine that the shutdown has closed: see *)
(* Lifespan.                                                               *)
BodiesUseOpenResources == Life!BodiesUseOpenResources

(* The shutdown ends with everything closed and stopped, unless a body     *)
(* answers its cancellation with an error: see Lifespan.                   *)
ShutdownCompletes == Life!ShutdownCompletes

(* The aggregates take a quarter of the time at most: see Monitoring.      *)
DutyHeld == Monitor!DutyHeld

(* Each aggregate that is shown was true within the age and the duration   *)
(* shown with it: see Monitoring.                                          *)
NumbersDated == Monitor!NumbersDated
=============================================================================
