------------------------------ MODULE Lifespan ------------------------------
(***************************************************************************)
(* The life of the process: the lifespan of hades.api.app over the         *)
(* runtimes of the seven loops.  One health check decides what is built,   *)
(* the supervisors keep the loops alive while the process serves, and the  *)
(* shutdown stops them one after the other, each with the client it owns,  *)
(* and then the database.  A supervised task has the places it has in      *)
(* Supervisor; the length of its backoff is left out.                      *)
(***************************************************************************)
EXTENDS Integers, Sequences, SequencesExt

CONSTANTS
  Enabled,     \* the loops the settings ask for
  MaxOutages,  \* bound: how often the database goes away
  MaxDeaths    \* bound: how often a body dies of anything but its cancellation

VARIABLES
  phase,      \* "boot", "connected", "unreachable", "serving", "stopping", "closed"
  database,   \* the server answers
  task,       \* per loop: "none", "ready", "body", "backoff", "ended"
  cancelling,  \* the tasks that have been cancelled and have not noticed yet
  open,       \* the clients and the engine that are not closed yet
  todo,       \* the loops the shutdown has not finished with
  step,       \* of the head of todo: "stop", "join", "aclose"
  defied,    \* ghost: the loops whose body answered its cancellation with an error
  outages, deaths

bounds == <<outages, deaths>>
vars == <<phase, database, task, cancelling, open, todo, step, defied, bounds>>

StartOrder == <<"discovery", "tracking", "signals", "paper", "outcomes", "stats", "heartbeat">>
Loops == Range(StartOrder)
StopOrder == Reverse(StartOrder)

(* The loops whose service owns an HTTP client or a notifier.              *)
Owners == {"discovery", "tracking", "signals", "paper", "heartbeat"}
Uses(l) == {"engine"} \cup ({l} \cap Owners)

(* The stats loop is not a setting: it is built whenever the database is.  *)
Built(answered) == IF answered THEN (Enabled \cap Loops) \cup {"stats"} ELSE {}

LifespanAssumption == Enabled \subseteq Loops /\ {MaxOutages, MaxDeaths} \subseteq Nat

(* What is left to stop is the end of the stop order, and a cancellation   *)
(* that is still to be noticed belongs to the loop being stopped.          *)
TypeOK ==
  /\ phase \in {"boot", "connected", "unreachable", "serving", "stopping", "closed"}
  /\ database \in BOOLEAN
  /\ task \in [Loops -> {"none", "ready", "body", "backoff", "ended"}]
  /\ IsSuffix(todo, StopOrder)
  /\ cancelling \subseteq IF todo = <<>> THEN {} ELSE {Head(todo)}
  /\ open \subseteq {"engine"} \cup Owners /\ defied \subseteq Loops
  /\ step \in {"stop", "join", "aclose"}
  /\ outages \in 0..MaxOutages /\ deaths \in 0..MaxDeaths

Init ==
  /\ phase = "boot" /\ database \in BOOLEAN
  /\ task = [l \in Loops |-> "none"]
  /\ cancelling = {} /\ open = {"engine"}
  /\ todo = <<>> /\ step = "stop" /\ defied = {}
  /\ outages = 0 /\ deaths = 0

-----------------------------------------------------------------------------
(* The database goes away and comes back at any time.                      *)
Outage ==
  /\ database /\ outages < MaxOutages /\ outages' = outages + 1
  /\ database' = FALSE
  /\ UNCHANGED <<phase, task, cancelling, open, todo, step, defied, deaths>>

Recover ==
  /\ ~database /\ database' = TRUE
  /\ UNCHANGED <<phase, task, cancelling, open, todo, step, defied, bounds>>

CheckHealth ==
  /\ phase = "boot"
  /\ phase' = IF database THEN "connected" ELSE "unreachable"
  /\ UNCHANGED <<database, task, cancelling, open, todo, step, defied, bounds>>

(* Everything between the answer of the health check and the yield: no     *)
(* await in it suspends, and no task has run before it ends.               *)
Startup ==
  /\ phase \in {"connected", "unreachable"} /\ phase' = "serving"
  /\ LET built == Built(phase = "connected")
     IN  /\ task' = [l \in Loops |-> IF l \in built THEN "ready" ELSE "none"]
         /\ open' = open \cup (built \cap Owners)
  /\ UNCHANGED <<database, cancelling, todo, step, defied, bounds>>

-----------------------------------------------------------------------------
(* The supervised tasks, as in Supervisor.                                 *)

Enter(l) ==
  /\ task[l] = "ready" /\ l \notin cancelling
  /\ task' = [task EXCEPT ![l] = "body"]
  /\ UNCHANGED <<phase, database, cancelling, open, todo, step, defied, bounds>>

(* A body dies of an outage, of a closed client, of anything.              *)
Die(l) ==
  /\ task[l] = "body" /\ l \notin cancelling
  /\ deaths < MaxDeaths /\ deaths' = deaths + 1
  /\ task' = [task EXCEPT ![l] = "backoff"]
  /\ UNCHANGED <<phase, database, cancelling, open, todo, step, defied, outages>>

Wake(l) ==
  /\ task[l] = "backoff" /\ l \notin cancelling
  /\ task' = [task EXCEPT ![l] = "body"]
  /\ UNCHANGED <<phase, database, cancelling, open, todo, step, defied, bounds>>

(* The cancellation arrives.  A body whose cleanup raises uses it up.      *)
Notice(l) ==
  /\ l \in cancelling /\ cancelling' = cancelling \ {l}
  /\ \/ task' = [task EXCEPT ![l] = "ended"] /\ UNCHANGED <<defied, deaths>>
     \/ /\ task[l] = "body" /\ deaths < MaxDeaths /\ deaths' = deaths + 1
        /\ task' = [task EXCEPT ![l] = "backoff"]
        /\ defied' = defied \cup {l}
  /\ UNCHANGED <<phase, database, open, todo, step, outages>>

-----------------------------------------------------------------------------
Shutdown ==
  /\ phase = "serving" /\ phase' = "stopping"
  /\ todo' = StopOrder /\ step' = "stop"
  /\ UNCHANGED <<database, task, cancelling, open, defied, bounds>>

\* mutant: the task is cancelled and not awaited
StopWithoutJoin ==
  /\ phase = "stopping" /\ todo # <<>> /\ step = "stop"
  /\ cancelling' = IF task[Head(todo)] = "none" THEN cancelling ELSE {Head(todo)}
  /\ step' = "aclose"
  /\ UNCHANGED <<phase, database, task, open, todo, defied, bounds>>
(* runtime.stop(): a loop that was never built has nothing to cancel.      *)
Stop ==
  /\ phase = "stopping" /\ todo # <<>> /\ step = "stop"
  /\ LET l == Head(todo)
     IN  IF task[l] = "none"
         THEN step' = "aclose" /\ UNCHANGED cancelling
         ELSE /\ cancelling' = IF task[l] = "ended" THEN cancelling ELSE {l}
              /\ step' = "join"
  /\ UNCHANGED <<phase, database, task, open, todo, defied, bounds>>

Join ==
  /\ phase = "stopping" /\ step = "join" /\ task[Head(todo)] = "ended"
  /\ task' = [task EXCEPT ![Head(todo)] = "none"]
  /\ step' = "aclose"
  /\ UNCHANGED <<phase, database, cancelling, open, todo, defied, bounds>>

\* mutant: the client outlives its loop
CloseNothing ==
  /\ phase = "stopping" /\ todo # <<>> /\ step = "aclose"
  /\ todo' = Tail(todo) /\ step' = "stop"
  /\ UNCHANGED <<phase, database, task, cancelling, open, defied, bounds>>
(* The client of the loop is closed, and the next runtime is stopped.      *)
Aclose ==
  /\ phase = "stopping" /\ todo # <<>> /\ step = "aclose"
  /\ open' = open \ ({Head(todo)} \cap Owners)
  /\ todo' = Tail(todo) /\ step' = "stop"
  /\ UNCHANGED <<phase, database, task, cancelling, defied, bounds>>

CloseDatabase ==
  /\ phase = "stopping" /\ todo = <<>>
  /\ phase' = "closed" /\ open' = open \ {"engine"}
  /\ UNCHANGED <<database, task, cancelling, todo, step, defied, bounds>>

(* The process is killed and started again.                                *)
Kill ==
  /\ phase # "boot" /\ phase' = "boot"
  /\ task' = [l \in Loops |-> "none"] /\ open' = {"engine"}
  /\ cancelling' = {} /\ todo' = <<>> /\ step' = "stop" /\ defied' = {}
  /\ UNCHANGED <<database, bounds>>

Supervised == \E l \in Loops : Enter(l) \/ Wake(l) \/ Notice(l)
Main == CheckHealth \/ Startup \/ Stop \/ Join \/ Aclose \/ CloseDatabase

Next == Outage \/ Recover \/ Supervised \/ Main \/ Shutdown \/ Kill \/ \E l \in Loops : Die(l)

Spec == Init /\ [][Next]_vars

-----------------------------------------------------------------------------
(* No body of a loop runs, and none comes back from its backoff, after the *)
(* client it owns or the engine under it has been closed, in whichever     *)
(* order deaths, restarts and the steps of the shutdown fall.              *)
BodiesUseOpenResources == \A l \in Loops : task[l] = "body" => Uses(l) \subseteq open

(* The shutdown ends, with every client closed and no task left, also when *)
(* the database is away, loops are in backoff or were never built.  The    *)
(* one exception is a body that answers its cancellation with an error:    *)
(* the loops after it keep running and the engine stays open until the     *)
(* process is killed.                                                      *)
ShutdownCompletes ==
  (phase = "stopping")
    ~> \/ phase = "closed" /\ open = {} /\ \A l \in Loops : task[l] = "none"
       \/ defied # {} \/ phase = "boot"
=============================================================================
