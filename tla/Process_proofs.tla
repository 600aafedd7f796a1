--------------------------- MODULE Process_proofs ---------------------------
(***************************************************************************)
(* What holds of the process for every value of the constants: of the task *)
(* around each loop (Supervisor), that its delays double up to the cap and *)
(* that the state the health endpoints read is the place it is in; of the  *)
(* start and the shutdown (Lifespan), that no body runs on a client or an  *)
(* engine that has been closed; and of what the process says about itself  *)
(* (Monitoring), that the aggregates keep to their share of the time and   *)
(* that each number shown is as old as it says at most.                    *)
(***************************************************************************)
EXTENDS Process, DataLemmas

-----------------------------------------------------------------------------
(* One supervised task.                                                    *)

(* What the assumption gives, one fact at a time.                          *)
LEMMA DelayTypes ==
  /\ BaseDelay \in Nat /\ HealthyAfter \in Nat
  /\ MaxDelay \in Nat \ {0} /\ MaxStreak \in Nat \ {0}
  /\ BaseDelay <= MaxDelay
BY SupervisorAssumption

(* The smaller of two naturals is one of them and below both.              *)
LEMMA LesserBounds ==
  ASSUME NEW a \in Nat, NEW b \in Nat
  PROVE  Lesser(a, b) \in {a, b} /\ Lesser(a, b) <= a /\ Lesser(a, b) <= b
BY DEF Lesser

(* Entering the backoff keeps the delays, the sleep and the ghost in range. *)
LEMMA BackoffTyped ==
  ASSUME TypeOK, Backoff
  PROVE  /\ pc' = "backoff" /\ state' = "restarting"
         /\ delay' \in BaseDelay..MaxDelay
         /\ wait' \in 0..MaxDelay
         /\ streak' \in 0..MaxStreak
         /\ uptime' = uptime /\ stopping' = stopping
<1>1. DelayAfterDeath \in BaseDelay..MaxDelay
  BY DelayTypes DEF TypeOK, DelayAfterDeath
<1>2. streak' \in 0..MaxStreak
  <2>1. CASE uptime >= HealthyAfter
    BY <2>1, DelayTypes DEF Backoff
  <2>2. CASE ~(uptime >= HealthyAfter)
    <3>1. streak + 1 \in Nat /\ MaxStreak \in Nat
      BY DelayTypes DEF TypeOK
    <3>2. Lesser(streak + 1, MaxStreak) \in 0..MaxStreak
      BY <3>1, LesserBounds
    <3> QED BY <2>2, <3>2 DEF Backoff
  <2> QED BY <2>1, <2>2
<1> QED BY <1>1, <1>2, DelayTypes DEF Backoff

LEMMA InitTyped == Init => TypeOK
<1> SUFFICES ASSUME Init PROVE TypeOK
  OBVIOUS
<1>1. /\ delay \in BaseDelay..MaxDelay /\ uptime \in 0..HealthyAfter
      /\ wait \in 0..MaxDelay /\ streak \in 0..MaxStreak
  BY DelayTypes DEF Init
<1>2. stopping \in BOOLEAN /\ cancelled \in BOOLEAN /\ ignored \in BOOLEAN
  BY DEF Init
<1> QED BY <1>1, <1>2 DEF Init, TypeOK

(* Every step of the task, of time and of stop() is well typed.            *)
LEMMA StepTyped == TypeOK /\ [Next]_vars => TypeOK'
<1> SUFFICES ASSUME TypeOK, [Next]_vars PROVE TypeOK'
  OBVIOUS
<1>1. CASE Start
  BY <1>1 DEF Start, TypeOK
<1>2. CASE Tick
  <2>1. CASE pc = "body" /\ uptime' = Lesser(uptime + 1, HealthyAfter) /\ UNCHANGED wait
    <3>1. uptime + 1 \in Nat /\ HealthyAfter \in Nat
      BY DelayTypes DEF TypeOK
    <3>2. uptime' \in 0..HealthyAfter
      BY <2>1, <3>1, LesserBounds
    <3> QED BY <1>2, <2>1, <3>2 DEF Tick, TypeOK
  <2>2. CASE pc = "backoff" /\ wait > 0 /\ wait' = wait - 1 /\ UNCHANGED uptime
    BY <1>2, <2>2, DelayTypes DEF Tick, TypeOK
  <2> QED BY <1>2, <2>1, <2>2 DEF Tick
<1>3. CASE Die
  <2>1. Backoff /\ UNCHANGED <<cancelled, ignored>>
    BY <1>3 DEF Die
  <2> QED BY <2>1, BackoffTyped DEF TypeOK
<1>4. CASE Stop
  BY <1>4 DEF Stop, TypeOK
<1>5. CASE Enter
  BY <1>5, DelayTypes DEF Enter, TypeOK
<1>6. CASE Wake
  <2>1. 2 * delay \in Nat /\ MaxDelay \in Nat /\ BaseDelay <= 2 * delay
    BY DelayTypes DEF TypeOK
  <2>2. Lesser(2 * delay, MaxDelay) \in BaseDelay..MaxDelay
    BY <2>1, LesserBounds, DelayTypes
  <2> QED BY <1>6, <2>2, DelayTypes DEF Wake, TypeOK
<1>7. CASE CancelBody
  <2>1. CASE Backoff /\ ignored' = TRUE
    BY <1>7, <2>1, BackoffTyped DEF CancelBody, TypeOK
  <2>2. CASE ~(Backoff /\ ignored' = TRUE)
    BY <1>7, <2>2 DEF CancelBody, TypeOK
  <2> QED BY <2>1, <2>2
<1>8. CASE CancelElsewhere
  BY <1>8 DEF CancelElsewhere, TypeOK
<1>9. CASE Join
  BY <1>9 DEF Join, TypeOK
<1>10. CASE UNCHANGED vars
  BY <1>10 DEF vars, TypeOK
<1> QED
  BY <1>1, <1>2, <1>3, <1>4, <1>5, <1>6, <1>7, <1>8, <1>9, <1>10 DEF Next, Supervise

(* Type correctness, for all delays and however often the task dies, is    *)
(* stopped and is started again.                                           *)
THEOREM TypeCorrect == Spec => []TypeOK
BY InitTyped, StepTyped, PTL DEF Spec

-----------------------------------------------------------------------------
(* No step of the task leaves the reported state behind.                   *)
LEMMA StepHonest == StateHonest /\ [Next]_vars => StateHonest'
<1> SUFFICES ASSUME StateHonest, [Next]_vars PROVE StateHonest'
  OBVIOUS
<1>1. CASE Start
  BY <1>1 DEF Start, StateHonest
<1>2. CASE Tick
  BY <1>2 DEF Tick, StateHonest
<1>3. CASE Die
  BY <1>3 DEF Die, Backoff, StateHonest
<1>4. CASE Stop
  BY <1>4 DEF Stop, StateHonest
<1>5. CASE Enter
  BY <1>5 DEF Enter, StateHonest
<1>6. CASE Wake
  BY <1>6 DEF Wake, StateHonest
<1>7. CASE CancelBody
  BY <1>7 DEF CancelBody, Backoff, StateHonest
<1>8. CASE CancelElsewhere
  BY <1>8 DEF CancelElsewhere, StateHonest
<1>9. CASE Join
  BY <1>9 DEF Join, StateHonest
<1>10. CASE UNCHANGED vars
  BY <1>10 DEF vars, StateHonest
<1> QED
  BY <1>1, <1>2, <1>3, <1>4, <1>5, <1>6, <1>7, <1>8, <1>9, <1>10 DEF Next, Supervise

(* The reported state follows the task through every death, sleep,         *)
(* cancellation and join, for all delays.                                  *)
THEOREM StateAlwaysHonest == Spec => []StateHonest
<1>1. Init => StateHonest
  BY DEF Init, StateHonest
<1> QED BY <1>1, StepHonest, PTL DEF Spec

-----------------------------------------------------------------------------
(* The delay of the n-th death in a row, counting from zero.               *)
NthDelay(n) == Lesser(BaseDelay * Power2[n], MaxDelay)

LEMMA NthDelayRecurs ==
  /\ NthDelay(0) = BaseDelay
  /\ \A n \in Nat \ {0} : NthDelay(n) = Lesser(2 * NthDelay(n - 1), MaxDelay)
<1>1. NthDelay(0) = BaseDelay
  <2>1. Power2[0] = 1
    BY Power2Unfolds
  <2> QED BY <2>1, DelayTypes DEF NthDelay, Lesser
<1>2. ASSUME NEW n \in Nat \ {0}
      PROVE  NthDelay(n) = Lesser(2 * NthDelay(n - 1), MaxDelay)
  <2> DEFINE x == BaseDelay * Power2[n - 1]
  <2>1. n \in Nat /\ n # 0 /\ n - 1 \in Nat
    OBVIOUS
  <2>2. Power2[n] = 2 * Power2[n - 1] /\ Power2[n - 1] \in Nat
    BY <2>1, Power2Unfolds, Power2Type
  <2>3. x \in Nat /\ BaseDelay * Power2[n] = 2 * x
    <3>1. ASSUME NEW b \in Nat, NEW p \in Nat PROVE b * p \in Nat /\ b * (2 * p) = 2 * (b * p)
      OBVIOUS
    <3> QED BY <2>2, <3>1, DelayTypes
  <2> HIDE DEF x
  <2>4. Lesser(2 * Lesser(x, MaxDelay), MaxDelay) = Lesser(2 * x, MaxDelay)
    BY <2>3, DelayTypes DEF Lesser
  <2> QED BY <2>3, <2>4 DEF NthDelay, x
<1> QED BY <1>1, <1>2

(* A body will wait the delay of the next death, a sleep waits that of the *)
(* last one; the ghost streak counts as far as MaxStreak.                  *)
InSchedule ==
  /\ pc = "body" /\ streak < MaxStreak => delay = NthDelay(streak)
  /\ pc = "backoff" /\ streak < MaxStreak =>
       streak # 0 /\ delay = NthDelay(streak - 1)

LEMMA BackoffInSchedule ==
  ASSUME TypeOK, InSchedule, pc = "body", Backoff
  PROVE  InSchedule'
<1>1. pc' = "backoff" /\ streak \in Nat /\ MaxStreak \in Nat
  BY DelayTypes DEF Backoff, TypeOK
<1>2. CASE uptime >= HealthyAfter
  <2>1. delay' = BaseDelay /\ streak' = 1
    BY <1>2 DEF Backoff, DelayAfterDeath
  <2>2. streak' - 1 = 0
    BY <2>1
  <2> QED BY <1>1, <2>1, <2>2, NthDelayRecurs DEF InSchedule, NthDelay
<1>3. CASE ~(uptime >= HealthyAfter)
  <2>1. delay' = delay /\ streak' = Lesser(streak + 1, MaxStreak)
    BY <1>3 DEF Backoff, DelayAfterDeath
  <2>2. streak' < MaxStreak => streak' = streak + 1 /\ streak < MaxStreak
    BY <1>1, <2>1 DEF Lesser
  <2>3. streak' = streak + 1 => streak' # 0 /\ streak' - 1 = streak
    BY <1>1
  <2> QED BY <1>1, <2>1, <2>2, <2>3 DEF InSchedule, NthDelay
<1> QED BY <1>2, <1>3

LEMMA StepInSchedule == TypeOK /\ InSchedule /\ [Next]_vars => InSchedule'
<1> SUFFICES ASSUME TypeOK, InSchedule, [Next]_vars PROVE InSchedule'
  OBVIOUS
<1>1. CASE UNCHANGED <<pc, delay, streak>>
  BY <1>1 DEF InSchedule, NthDelay
<1>2. CASE Start \/ Tick \/ Stop \/ UNCHANGED vars
  <2>1. CASE Start
    BY <2>1 DEF Start, InSchedule
  <2> QED BY <1>1, <1>2, <2>1 DEF Tick, Stop, vars
<1>3. CASE Die
  BY <1>3, BackoffInSchedule DEF Die
<1>4. CASE Enter
  BY <1>4, NthDelayRecurs DEF Enter, InSchedule, NthDelay
<1>5. CASE Wake
  <2>1. pc = "backoff" /\ pc' = "body" /\ streak' = streak /\ delay' = Lesser(2 * delay, MaxDelay)
    BY <1>5 DEF Wake
  <2>2. streak \in Nat
    BY DEF TypeOK
  <2>3. ASSUME streak < MaxStreak PROVE delay' = NthDelay(streak)
    <3>1. streak \in Nat \ {0} /\ delay = NthDelay(streak - 1)
      BY <2>1, <2>2, <2>3 DEF InSchedule
    <3> QED BY <2>1, <3>1, NthDelayRecurs
  <2> QED BY <2>1, <2>3 DEF InSchedule, NthDelay
<1>6. CASE CancelBody
  <2>1. CASE pc' = "ended"
    BY <2>1 DEF InSchedule
  <2> QED BY <1>6, <2>1, BackoffInSchedule DEF CancelBody
<1>7. CASE CancelElsewhere \/ Join
  BY <1>7 DEF CancelElsewhere, Join, InSchedule
<1> QED
  BY <1>2, <1>3, <1>4, <1>5, <1>6, <1>7 DEF Next, Supervise

(* The n-th death in a row waits base * 2^(n-1) up to the cap, for all     *)
(* delays, and however bodies, sleeps and cancellations interleave.        *)
THEOREM BackoffAlwaysInSchedule == Spec => []BackoffSchedule
<1>1. Init => InSchedule
  BY DEF Init, InSchedule
<1>2. InSchedule => BackoffSchedule
  BY DEF InSchedule, BackoffSchedule, NthDelay
<1> QED BY <1>1, <1>2, StepInSchedule, TypeCorrect, PTL DEF Spec

-----------------------------------------------------------------------------
(* The start and the shutdown.                                             *)

(* A task only exists while everything its body uses is open.              *)
TasksHaveResources == \A l \in Life!Loops : task[l] # "none" => Life!Uses(l) \subseteq open

(* There are tasks between the startup and the end of the shutdown only,   *)
(* something left to stop only while stopping, and an engine to the end.   *)
PhaseOfTasks ==
  /\ phase \notin {"serving", "stopping"} => \A l \in Life!Loops : task[l] = "none"
  /\ phase # "stopping" => todo = <<>>
  /\ phase # "closed" => "engine" \in open

(* The shutdown works through its list: what has left the list is gone,    *)
(* and so is the head when its client is about to be closed.               *)
ShutdownOrder ==
  phase = "stopping" =>
    /\ \A l \in Life!Loops : (\A i \in 1..Len(todo) : todo[i] # l) => task[l] = "none"
    /\ todo # <<>> /\ step = "aclose" => task[Head(todo)] = "none"
    /\ step = "join" => todo # <<>>

(* A cancellation is on its way only to a task that is being joined and    *)
(* is not over.                                                            *)
CancellationPending ==
  \A l \in cancelling : /\ task[l] \in {"ready", "body", "backoff"}
                        /\ phase = "stopping" /\ step = "join" /\ todo # <<>> /\ l = Head(todo)

LifespanInv ==
  /\ Life!TypeOK /\ todo \in Seq(Life!Loops)
  /\ TasksHaveResources /\ PhaseOfTasks /\ ShutdownOrder /\ CancellationPending

(* The seven loops, as a set and in the order they are stopped.            *)
LEMMA SevenLoops ==
  /\ Life!Loops = {"discovery", "tracking", "signals", "paper", "outcomes", "stats", "heartbeat"}
  /\ Life!StopOrder \in Seq(Life!Loops) /\ Len(Life!StopOrder) = 7
  /\ \A l \in Life!Loops : \E i \in 1..Len(Life!StopOrder) : Life!StopOrder[i] = l
<1>1. DOMAIN Life!StartOrder = 1..7 /\ Len(Life!StartOrder) = 7
  BY DEF Life!StartOrder
<1>2. Life!Loops = {Life!StartOrder[i] : i \in 1..7}
  BY <1>1 DEF Life!Loops, Life!Range
<1>3. 1..7 = {1, 2, 3, 4, 5, 6, 7}
  OBVIOUS
<1>4. Life!Loops = {"discovery", "tracking", "signals", "paper", "outcomes", "stats", "heartbeat"}
  BY <1>2, <1>3 DEF Life!StartOrder
<1>5. Life!StopOrder = [i \in 1..7 |-> Life!StartOrder[(7 - i) + 1]]
  BY <1>1 DEF Life!StopOrder, Life!Reverse
<1>6. \A i \in 1..7 : (7 - i) + 1 \in 1..7 /\ (7 - ((7 - i) + 1)) + 1 = i
  OBVIOUS
<1>7. \A i \in 1..7 : Life!StartOrder[(7 - i) + 1] \in Life!Loops
  BY <1>2, <1>6
<1>8. Life!StopOrder \in Seq(Life!Loops) /\ Len(Life!StopOrder) = 7
  BY <1>5, <1>7, IsASeq, LenProperties
<1>9. ASSUME NEW l \in Life!Loops PROVE \E i \in 1..Len(Life!StopOrder) : Life!StopOrder[i] = l
  <2>1. PICK j \in 1..7 : Life!StartOrder[j] = l
    BY <1>2
  <2>2. (7 - j) + 1 \in 1..7 /\ Life!StopOrder[(7 - j) + 1] = l
    BY <1>5, <1>6, <2>1
  <2> QED BY <1>8, <2>2
<1> QED BY <1>4, <1>8, <1>9

(* The suffixes of Lifespan are those of the lemmas.                       *)
LEMMA SameSuffix == \A s, t : Life!IsSuffix(s, t) <=> IsSuffix(s, t)
BY DEF Life!IsSuffix, IsSuffix, Life!IsPrefix, IsPrefix, Life!Reverse, Reverse

LEMMA NothingIsSuffix ==
  ASSUME NEW S, NEW t \in Seq(S)
  PROVE  Life!IsSuffix(<<>>, t)
<1>1. <<>> \in Seq(S) /\ Len(<<>>) = 0 /\ Len(t) \in Nat
  BY EmptySeq, LenProperties
<1>2. \A i \in 1..0 : <<>>[i] = t[Len(t) - 0 + i]
  OBVIOUS
<1> HIDE DEF IsSuffix
<1>3. IsSuffix(<<>>, t) <=> /\ Len(<<>>) <= Len(t)
                           /\ \A i \in 1..Len(<<>>) : <<>>[i] = t[Len(t) - Len(<<>>) + i]
  BY <1>1, SuffixByIndex, Zenon
<1>4. IsSuffix(<<>>, t)
  BY <1>1, <1>2, <1>3
<1> QED BY <1>4, SameSuffix, Zenon

LEMMA LifespanInit == Life!LifespanAssumption /\ Life!Init => LifespanInv
<1> SUFFICES ASSUME Life!LifespanAssumption, Life!Init PROVE LifespanInv
  OBVIOUS
<1>1. todo = <<>> /\ todo \in Seq(Life!Loops) /\ Len(todo) = 0
  BY EmptySeq DEF Life!Init
<1>2. Life!IsSuffix(todo, Life!StopOrder)
  BY <1>1, NothingIsSuffix, SevenLoops
<1>3. Life!TypeOK
  BY <1>1, <1>2 DEF Life!Init, Life!TypeOK, Life!LifespanAssumption, Life!bounds
<1> QED
  BY <1>1, <1>3 DEF Life!Init, LifespanInv, TasksHaveResources, PhaseOfTasks, ShutdownOrder,
     CancellationPending

(* What is left to stop changes in three ways.                             *)
LEMMA TodoStep ==
  ASSUME Life!TypeOK, todo \in Seq(Life!Loops), Life!Next
  PROVE  todo' \in Seq(Life!Loops) /\ Life!IsSuffix(todo, Life!StopOrder)'
<1> USE DEF Life!TypeOK
<1>1. CASE UNCHANGED todo
  BY <1>1 DEF Life!StopOrder, Life!StartOrder
<1>2. CASE Life!Shutdown
  <2>1. \A i \in 1..7 : Life!StopOrder[i] = Life!StopOrder[7 - 7 + i]
    OBVIOUS
  <2>2. Life!IsSuffix(Life!StopOrder, Life!StopOrder)
    <3> HIDE DEF IsSuffix
    <3>1. IsSuffix(Life!StopOrder, Life!StopOrder)
      BY <2>1, SevenLoops, SuffixByIndex
    <3> QED BY <3>1, SameSuffix
  <2> QED BY <1>2, <2>2, SevenLoops DEF Life!Shutdown, Life!StopOrder, Life!StartOrder
<1>3. CASE Life!Aclose
  <2>1. Tail(todo) \in Seq(Life!Loops)
    BY <1>3, TailElements DEF Life!Aclose
  <2>2. Life!IsSuffix(Tail(todo), Life!StopOrder)
    BY <1>3, SevenLoops, SuffixTail, SameSuffix DEF Life!Aclose
  <2> QED BY <1>3, <2>1, <2>2 DEF Life!Aclose, Life!StopOrder, Life!StartOrder
<1>4. CASE Life!Kill
  BY <1>4, SevenLoops, NothingIsSuffix, EmptySeq DEF Life!Kill, Life!StopOrder, Life!StartOrder
<1> QED
  BY <1>1, <1>2, <1>3, <1>4
     DEF Life!Next, Life!Outage, Life!Recover, Life!Supervised, Life!Enter, Life!Wake,
         Life!Notice, Life!Main, Life!CheckHealth, Life!Startup, Life!Stop, Life!Join,
         Life!CloseDatabase, Life!Die, Life!bounds

(* The head of what is left is a loop, and all but the head is the rest.   *)
LEMMA HeadOfTodo ==
  ASSUME NEW s \in Seq(Life!Loops), s # <<>>
  PROVE  /\ Head(s) \in Life!Loops
         /\ \A l \in Life!Loops : (\A i \in 1..Len(Tail(s)) : Tail(s)[i] # l)
                             => l = Head(s) \/ \A i \in 1..Len(s) : s[i] # l
<1>1. /\ Len(s) \in Nat \ {0} /\ Head(s) = s[1] /\ s[1] \in Life!Loops
      /\ Len(Tail(s)) = Len(s) - 1
      /\ \A i \in 1..Len(Tail(s)) : Tail(s)[i] = s[i + 1]
  BY TailElements
<1>2. ASSUME NEW l \in Life!Loops, \A i \in 1..Len(Tail(s)) : Tail(s)[i] # l, l # Head(s),
             NEW i \in 1..Len(s)
      PROVE  s[i] # l
  <2>1. CASE i = 1
    BY <1>1, <1>2, <2>1
  <2>2. CASE i # 1
    <3>1. i - 1 \in 1..Len(Tail(s)) /\ (i - 1) + 1 = i
      BY <1>1, <2>2
    <3>2. Tail(s)[i - 1] = s[(i - 1) + 1]
      BY <1>1, <3>1
    <3> QED BY <1>2, <3>1, <3>2
  <2> QED BY <2>1, <2>2
<1> QED BY <1>1, <1>2

LEMMA LifespanStep == ASSUME Life!LifespanAssumption, LifespanInv, Life!Next PROVE LifespanInv'
<1> USE DEF LifespanInv, Life!TypeOK, Life!bounds
<1>a. MaxOutages \in Nat /\ MaxDeaths \in Nat
  BY DEF Life!LifespanAssumption
<1>b. ASSUME NEW l \in Life!Loops PROVE Life!Uses(l) \subseteq {"engine"} \cup Life!Owners
  BY DEF Life!Uses
<1>0. todo' \in Seq(Life!Loops) /\ Life!IsSuffix(todo, Life!StopOrder)'
  BY TodoStep
<1>1. CASE Life!Outage
  <2>1. Life!TypeOK'
    <3>1. outages' \in 0..MaxOutages /\ database' = FALSE
      <4>1. /\ outages \in 0..MaxOutages /\ outages < MaxOutages /\ outages' = outages + 1
            /\ database' = FALSE
        BY <1>1 DEF Life!Outage
      <4> HIDE DEF LifespanInv, Life!TypeOK
      <4> QED BY <1>a, <4>1
    <3> QED BY <1>0, <1>1, <3>1 DEF Life!Outage
  <2> QED
    BY <1>0, <1>1, <2>1
       DEF Life!Outage, TasksHaveResources, PhaseOfTasks, ShutdownOrder, CancellationPending
<1>2. CASE Life!Recover
  BY <1>0, <1>2
     DEF Life!Recover, TasksHaveResources, PhaseOfTasks, ShutdownOrder, CancellationPending
<1>3. CASE Life!CheckHealth
  BY <1>0, <1>3
     DEF Life!CheckHealth, TasksHaveResources, PhaseOfTasks, ShutdownOrder, CancellationPending
<1>4. CASE Life!Startup
  <2>1. Life!TypeOK'
    BY <1>0, <1>4, SevenLoops DEF Life!Startup, Life!Built, Life!Owners, PhaseOfTasks
  <2>2. cancelling = {} /\ phase' = "serving"
    BY <1>4 DEF Life!Startup, CancellationPending
  <2>3. PhaseOfTasks' /\ ShutdownOrder' /\ CancellationPending'
    BY <1>4, <2>2 DEF Life!Startup, PhaseOfTasks, ShutdownOrder, CancellationPending
  <2>4. ASSUME NEW l \in Life!Loops, task'[l] # "none" PROVE Life!Uses(l) \subseteq open'
    <3> DEFINE built == Life!Built(phase = "connected")
    <3>1. /\ task' = [k \in Life!Loops |-> IF k \in built THEN "ready" ELSE "none"]
          /\ open' = open \cup (built \cap Life!Owners)
      BY <1>4 DEF Life!Startup
    <3> HIDE DEF built
    <3>2. l \in built
      BY <2>4, <3>1
    <3>3. "engine" \in open
      BY <1>4 DEF Life!Startup, PhaseOfTasks
    <3> QED BY <3>1, <3>2, <3>3 DEF Life!Uses
  <2> QED BY <1>0, <2>1, <2>3, <2>4 DEF TasksHaveResources
<1>5. ASSUME NEW l \in Life!Loops, Life!Enter(l) PROVE LifespanInv'
  BY <1>0, <1>5 DEF Life!Enter, TasksHaveResources, PhaseOfTasks, ShutdownOrder, CancellationPending
<1>6. ASSUME NEW l \in Life!Loops, Life!Wake(l) PROVE LifespanInv'
  BY <1>0, <1>6 DEF Life!Wake, TasksHaveResources, PhaseOfTasks, ShutdownOrder, CancellationPending
<1>7. ASSUME NEW l \in Life!Loops, Life!Die(l) PROVE LifespanInv'
  <2>1. Life!TypeOK'
    BY <1>a, <1>0, <1>7 DEF Life!Die
  <2> QED
    BY <1>0, <1>7, <2>1
       DEF Life!Die, TasksHaveResources, PhaseOfTasks, ShutdownOrder, CancellationPending
<1>8. ASSUME NEW l \in Life!Loops, Life!Notice(l) PROVE LifespanInv'
  <2>1. /\ task[l] \in {"ready", "body", "backoff"} /\ phase = "stopping" /\ step = "join"
        /\ todo # <<>> /\ l = Head(todo) /\ cancelling' = {}
    BY <1>8 DEF Life!Notice, CancellationPending
  <2>2. PICK place \in {"ended", "backoff"} : task' = [task EXCEPT ![l] = place]
    BY <1>8 DEF Life!Notice
  <2>3. Life!TypeOK'
    <3>1. defied' \subseteq Life!Loops /\ deaths' \in 0..MaxDeaths
      BY <1>a, <1>8 DEF Life!Notice
    <3> QED BY <1>0, <1>8, <2>1, <2>2, <3>1 DEF Life!Notice
  <2>4. UNCHANGED <<phase, open, todo, step>>
    BY <1>8 DEF Life!Notice
  <2>5. ShutdownOrder'
    <3>1. ASSUME NEW k \in Life!Loops, \A i \in 1..Len(todo) : todo[i] # k PROVE task'[k] = "none"
      <4>1. k # l
        BY <2>1, <3>1, TailElements
      <4> QED BY <2>1, <2>2, <3>1, <4>1 DEF ShutdownOrder
    <3> QED BY <2>1, <2>4, <3>1 DEF ShutdownOrder
  <2> QED
    BY <1>0, <2>1, <2>2, <2>3, <2>4, <2>5 DEF TasksHaveResources, PhaseOfTasks, CancellationPending
<1>9. CASE Life!Shutdown
  <2>1. cancelling = {}
    BY <1>9 DEF Life!Shutdown, CancellationPending
  <2>2. Life!TypeOK'
    BY <1>0, <1>9, <2>1 DEF Life!Shutdown
  <2>3. ShutdownOrder'
    <3>1. todo' = Life!StopOrder /\ step' = "stop"
      BY <1>9 DEF Life!Shutdown
    <3>2. \A l \in Life!Loops : \E i \in 1..Len(todo') : todo'[i] = l
      BY <3>1, SevenLoops
    <3> QED BY <3>1, <3>2 DEF ShutdownOrder
  <2> QED
    BY <1>0, <1>9, <2>1, <2>2, <2>3
       DEF Life!Shutdown, TasksHaveResources, PhaseOfTasks, CancellationPending
<1>10. CASE Life!Stop
  BY <1>0, <1>10 DEF Life!Stop, TasksHaveResources, PhaseOfTasks, ShutdownOrder, CancellationPending
<1>11. CASE Life!Join
  BY <1>0, <1>11 DEF Life!Join, TasksHaveResources, PhaseOfTasks, ShutdownOrder, CancellationPending
<1>12. CASE Life!Aclose
  <2>1. /\ phase = "stopping" /\ phase' = phase /\ todo # <<>> /\ step = "aclose"
        /\ task' = task /\ todo' = Tail(todo) /\ step' = "stop"
        /\ open' = open \ ({Head(todo)} \cap Life!Owners)
    BY <1>12 DEF Life!Aclose
  <2>2. cancelling = {} /\ cancelling' = {}
    BY <1>12 DEF Life!Aclose, CancellationPending
  <2>3. Life!TypeOK'
    BY <1>0, <1>12, <2>1, <2>2 DEF Life!Aclose
  <2>4. task[Head(todo)] = "none"
    BY <2>1 DEF ShutdownOrder
  <2>5. ShutdownOrder'
    <3>1. ASSUME NEW k \in Life!Loops, \A i \in 1..Len(Tail(todo)) : Tail(todo)[i] # k
          PROVE  task[k] = "none"
      BY <2>1, <2>4, <3>1, HeadOfTodo DEF ShutdownOrder
    <3> QED BY <2>1, <3>1 DEF ShutdownOrder
  <2>6. ASSUME NEW k \in Life!Loops, task[k] # "none" PROVE Life!Uses(k) \subseteq open'
    <3>1. k # Head(todo) /\ Life!Uses(k) \subseteq open
      BY <2>4, <2>6 DEF TasksHaveResources
    <3>2. Life!Uses(k) = {"engine"} \cup ({k} \cap Life!Owners) /\ "engine" \notin Life!Owners
      BY DEF Life!Uses, Life!Owners
    <3> QED BY <2>1, <3>1, <3>2
  <2>7. PhaseOfTasks'
    BY <2>1 DEF PhaseOfTasks, Life!Owners
  <2> QED
    BY <1>0, <2>1, <2>2, <2>3, <2>5, <2>6, <2>7 DEF TasksHaveResources, CancellationPending
<1>13. CASE Life!CloseDatabase
  BY <1>0, <1>13
     DEF Life!CloseDatabase, TasksHaveResources, PhaseOfTasks, ShutdownOrder, CancellationPending
<1>14. CASE Life!Kill
  BY <1>0, <1>14 DEF Life!Kill, TasksHaveResources, PhaseOfTasks, ShutdownOrder, CancellationPending
<1> QED
  BY <1>1, <1>2, <1>3, <1>4, <1>5, <1>6, <1>7, <1>8, <1>9, <1>10, <1>11, <1>12, <1>13, <1>14
     DEF Life!Next, Life!Supervised, Life!Main

LEMMA LifespanStutter == ASSUME LifespanInv, UNCHANGED Life!vars PROVE LifespanInv'
BY DEF Life!vars, Life!bounds, LifespanInv, Life!TypeOK, TasksHaveResources, PhaseOfTasks,
   ShutdownOrder, CancellationPending, Life!IsSuffix, Life!IsPrefix, Life!Reverse,
   Life!StopOrder, Life!StartOrder, Life!Loops

LEMMA LifespanAlways == Life!Spec => []LifespanInv
<1>1. Life!Init => LifespanInv
  BY LifespanInit, ProcessAssumption
<1>2. LifespanInv /\ [Life!Next]_(Life!vars) => LifespanInv'
  BY LifespanStep, LifespanStutter, ProcessAssumption
<1> QED BY <1>1, <1>2, PTL DEF Life!Spec

(* The types of Lifespan, with the order of the shutdown in them: what is  *)
(* left to stop is the end of the stop order, and a cancellation that is   *)
(* still to be noticed belongs to the loop being stopped.                  *)
THEOREM LifespanTyped == Life!Spec => []Life!TypeOK
<1>1. LifespanInv => Life!TypeOK
  BY DEF LifespanInv
<1> QED BY <1>1, LifespanAlways, PTL

(* No body of a loop runs after the client it owns or the engine under it  *)
(* has been closed, whichever loops are enabled and however often they     *)
(* die: the shutdown closes nothing before the task that uses it is over.  *)
THEOREM BodiesAlwaysUseOpenResources == Life!Spec => []BodiesUseOpenResources
<1>1. LifespanInv => BodiesUseOpenResources
  BY DEF LifespanInv, TasksHaveResources, Life!BodiesUseOpenResources, BodiesUseOpenResources
<1> QED BY <1>1, LifespanAlways, PTL

-----------------------------------------------------------------------------
(* What the process says about itself.                                     *)

(* No clock has counted more time than there was.                          *)
TimeSpent == busy + idle <= now

(* Sleeping, the aggregates have had their share of the time, or will have *)
(* had it once the sleep is over; refreshing, they had it when it began.   *)
ShareHeld ==
  IF stage = "asleep" THEN 3 * busy <= idle \/ 3 * busy <= idle + (wake - now)
  ELSE 3 * (busy - (now - began)) <= idle

(* What a refresh has read so far it has read since it began.              *)
DraftDated ==
  /\ stage \in {"outcomes", "portfolio"} => draft.signals.at \in began..now
  /\ stage = "portfolio" => draft.finals.at \in began..now

(* What is published was read while it was computed.                       *)
SnapshotDated ==
  snapshot # Monitor!None =>
    /\ snapshot.computed <= now
    /\ snapshot.signals.at \in (snapshot.computed - snapshot.duration)..snapshot.computed
    /\ snapshot.finals.at \in (snapshot.computed - snapshot.duration)..snapshot.computed

MonitoringInv == Monitor!TypeOK /\ TimeSpent /\ ShareHeld /\ DraftDated /\ SnapshotDated

(* The delay is three times the refresh at least.                          *)
LEMMA DelayThrottles ==
  ASSUME NEW duration \in Nat, Interval \in Nat
  PROVE  Monitor!Delay(duration) \in Nat /\ Monitor!Delay(duration) >= 3 * duration
<1> DEFINE S == {Interval, 3 * duration}
<1>1. S \subseteq Int /\ S # {} /\ 3 * duration \in S
  OBVIOUS
<1>2. IsFiniteSet(S)
  <2>1. S = {Interval} \cup {3 * duration} /\ IsFiniteSet({Interval})
    BY FS_Singleton
  <2> QED BY <2>1, FS_AddElement
<1>3. Max(S) \in S /\ \A y \in S : y <= Max(S)
  BY <1>1, <1>2, MaxOfSet, Zenon
<1>4. Monitor!Delay(duration) = Max(S)
  BY DEF Monitor!Delay, Monitor!Max, Max
<1> HIDE DEF S
<1>5. S \subseteq Nat
  BY DEF S
<1> QED BY <1>1, <1>3, <1>4, <1>5

LEMMA NoDraftTyped ==
  ASSUME Monitor!MonitoringAssumption
  PROVE  Monitor!NoDraft \in [signals : Monitor!Read, finals : Monitor!Read]
<1>1. MaxTime \in Nat /\ MaxRows \in Nat
  BY DEF Monitor!MonitoringAssumption
<1>2. 0 \in Monitor!Time /\ 0 \in Monitor!Rows
  BY <1>1 DEF Monitor!Time, Monitor!Rows
<1> QED BY <1>2 DEF Monitor!NoDraft, Monitor!Read

(* What a snapshot is, when there is one.                                  *)
LEMMA SnapshotFields ==
  ASSUME Monitor!TypeOK, snapshot # Monitor!None, MaxTime \in Nat
  PROVE  /\ snapshot.computed \in Nat /\ snapshot.duration \in Nat
         /\ snapshot.signals.at \in Nat /\ snapshot.finals.at \in Nat
BY DEF Monitor!TypeOK, Monitor!Snapshot, Monitor!Read, Monitor!Time

LEMMA MonitoringInit == Monitor!MonitoringAssumption /\ Monitor!Init => MonitoringInv
<1> SUFFICES ASSUME Monitor!MonitoringAssumption, Monitor!Init PROVE MonitoringInv
  OBVIOUS
<1>1. MaxTime \in Nat /\ MaxRows \in Nat /\ MaxFailures \in Nat
  BY DEF Monitor!MonitoringAssumption
<1>2. Monitor!NoDraft \in [signals : Monitor!Read, finals : Monitor!Read]
  BY NoDraftTyped
<1>3. snapshot \in Monitor!Snapshot \cup {Monitor!None} /\ draft = Monitor!NoDraft
  BY DEF Monitor!Init
<1>4. 0 \in 0..MaxTime /\ 0 \in 0..MaxRows /\ 0 \in 0..MaxFailures /\ 0 \in 0..0
  BY <1>1
<1>5. Monitor!TypeOK
  BY <1>2, <1>3, <1>4 DEF Monitor!Init, Monitor!TypeOK, Monitor!Time, Monitor!Rows
<1> QED
  BY <1>5 DEF Monitor!Init, MonitoringInv, TimeSpent, ShareHeld, DraftDated, SnapshotDated

LEMMA MonitoringStep ==
  ASSUME Monitor!MonitoringAssumption, MonitoringInv, Monitor!Next
  PROVE  MonitoringInv'
<1> USE DEF MonitoringInv, Monitor!TypeOK, Monitor!Time, Monitor!Rows, Monitor!tables,
        Monitor!stats, Monitor!heart, Monitor!duty
<1>0. /\ Interval \in Nat /\ RestartDelay \in Nat /\ MaxTime \in Nat /\ MaxRows \in Nat
      /\ MaxFailures \in Nat
  BY DEF Monitor!MonitoringAssumption
<1>1. CASE Monitor!Commit
  BY <1>0, <1>1 DEF Monitor!Commit, TimeSpent, ShareHeld, DraftDated, SnapshotDated
<1>2. CASE Monitor!Tick
  <2>1. Monitor!TypeOK'
    <3>1. /\ now' \in 0..MaxTime /\ began \in 0..now' /\ busy' \in 0..MaxTime
          /\ idle' \in 0..MaxTime
      BY <1>0, <1>2 DEF Monitor!Tick, TimeSpent
    <3> QED BY <1>2, <3>1 DEF Monitor!Tick
  <2>2. TimeSpent'
    BY <1>0, <1>2 DEF Monitor!Tick, TimeSpent
  <2>3. ShareHeld'
    BY <1>0, <1>2 DEF Monitor!Tick, ShareHeld
  <2>4. DraftDated'
    BY <1>0, <1>2 DEF Monitor!Tick, DraftDated
  <2>5. SnapshotDated'
    <3>1. UNCHANGED snapshot /\ now' = now + 1 /\ now \in Nat
      BY <1>0, <1>2 DEF Monitor!Tick
    <3>2. Monitor!TypeOK
      OBVIOUS
    <3> HIDE DEF MonitoringInv, Monitor!TypeOK
    <3> QED BY <1>0, <3>1, <3>2, SnapshotFields DEF SnapshotDated, MonitoringInv, Monitor!None
  <2> QED BY <2>1, <2>2, <2>3, <2>4, <2>5
<1>3. CASE Monitor!Begin
  BY <1>0, <1>3 DEF Monitor!Begin, TimeSpent, ShareHeld, DraftDated, SnapshotDated
<1>4. CASE Monitor!ReadTokens
  <2>1. Monitor!TypeOK'
    BY <1>0, <1>4 DEF Monitor!ReadTokens, Monitor!Read
  <2>2. TimeSpent'
    BY <1>0, <1>4 DEF Monitor!ReadTokens, TimeSpent
  <2>3. ShareHeld'
    BY <1>0, <1>4 DEF Monitor!ReadTokens, ShareHeld
  <2>4. DraftDated'
    BY <1>0, <1>4 DEF Monitor!ReadTokens, DraftDated
  <2>5. SnapshotDated'
    BY <1>0, <1>4 DEF Monitor!ReadTokens, SnapshotDated
  <2> QED BY <2>1, <2>2, <2>3, <2>4, <2>5
<1>5. CASE Monitor!ReadOutcomes
  <2>1. Monitor!TypeOK'
    BY <1>0, <1>5 DEF Monitor!ReadOutcomes, Monitor!Read
  <2>2. TimeSpent'
    BY <1>0, <1>5 DEF Monitor!ReadOutcomes, TimeSpent
  <2>3. ShareHeld'
    BY <1>0, <1>5 DEF Monitor!ReadOutcomes, ShareHeld
  <2>4. DraftDated'
    BY <1>0, <1>5 DEF Monitor!ReadOutcomes, DraftDated
  <2>5. SnapshotDated'
    BY <1>0, <1>5 DEF Monitor!ReadOutcomes, SnapshotDated
  <2> QED BY <2>1, <2>2, <2>3, <2>4, <2>5
<1>6. CASE Monitor!Publish
  <2> DEFINE took == Monitor!Duration
  <2>0. /\ took = now - began /\ took \in Nat /\ took \in 0..MaxTime
        /\ now \in Nat /\ began \in Nat /\ began <= now
        /\ Monitor!Delay(took) \in Nat /\ Monitor!Delay(took) >= 3 * took
    <3>1. took = now - began /\ took \in Nat /\ took \in 0..MaxTime
          /\ now \in Nat /\ began \in Nat /\ began <= now
      BY <1>0 DEF Monitor!Duration
    <3> HIDE DEF took
    <3> QED BY <1>0, <3>1, DelayThrottles
  <2>1. Monitor!TypeOK'
    <3>1. snapshot' \in Monitor!Snapshot
      BY <1>0, <1>6, <2>0 DEF Monitor!Publish, Monitor!Snapshot
    <3>2. wake' \in Nat /\ began' = 0
      BY <1>6, <2>0 DEF Monitor!Publish
    <3> QED BY <1>6, <3>1, <3>2, NoDraftTyped DEF Monitor!Publish
  <2>2. TimeSpent'
    BY <1>0, <1>6 DEF Monitor!Publish, TimeSpent
  <2>3. ShareHeld'
    <3>1. /\ stage # "asleep" /\ stage' = "asleep" /\ wake' = now + Monitor!Delay(took)
          /\ UNCHANGED <<now, busy, idle>> /\ busy \in Nat /\ idle \in Nat
      BY <1>0, <1>6 DEF Monitor!Publish
    <3>2. 3 * (busy - took) <= idle
      BY <2>0, <3>1 DEF ShareHeld
    <3> HIDE DEF took
    <3> DEFINE pause == Monitor!Delay(took)
    <3>3. wake' - now' = pause
      BY <2>0, <3>1
    <3> HIDE DEF pause
    <3>4. 3 * busy <= idle + pause
      BY <2>0, <3>1, <3>2 DEF pause
    <3> QED BY <3>1, <3>3, <3>4 DEF ShareHeld
  <2>4. DraftDated'
    BY <1>0, <1>6 DEF Monitor!Publish, DraftDated
  <2>5. SnapshotDated'
    <3>1. /\ snapshot' = [computed |-> now, duration |-> took,
                           signals |-> draft.signals, finals |-> draft.finals]
          /\ now' = now /\ draft.signals.at \in began..now /\ draft.finals.at \in began..now
      BY <1>6 DEF Monitor!Publish, DraftDated
    <3>2. now - took = began
      BY <2>0
    <3> HIDE DEF took
    <3> QED BY <2>0, <3>1, <3>2 DEF SnapshotDated
  <2> QED BY <2>1, <2>2, <2>3, <2>4, <2>5
<1>7. CASE Monitor!RefreshFails
  <2>1. Monitor!TypeOK'
    BY <1>0, <1>7 DEF Monitor!RefreshFails, Monitor!NoDraft, Monitor!Read
  <2>2. TimeSpent'
    BY <1>0, <1>7 DEF Monitor!RefreshFails, TimeSpent
  <2>3. ShareHeld'
    BY <1>0, <1>7 DEF Monitor!RefreshFails, ShareHeld
  <2>4. DraftDated'
    BY <1>0, <1>7 DEF Monitor!RefreshFails, DraftDated
  <2>5. SnapshotDated'
    BY <1>0, <1>7 DEF Monitor!RefreshFails, SnapshotDated
  <2> QED BY <2>1, <2>2, <2>3, <2>4, <2>5
<1>8. CASE Monitor!Count
  BY <1>0, <1>8 DEF Monitor!Count, TimeSpent, ShareHeld, DraftDated, SnapshotDated
<1>9. CASE Monitor!Post
  <2>1. Monitor!TypeOK'
    <3>1. failures' \in 0..MaxFailures
      <4>1. failures \in 0..MaxFailures
        OBVIOUS
      <4> HIDE DEF MonitoringInv, Monitor!TypeOK
      <4>2. failures' = failures \/ (failures < MaxFailures /\ failures' = failures + 1)
        BY <1>9 DEF Monitor!Post
      <4> QED BY <1>0, <4>1, <4>2
    <3> QED BY <1>9, <3>1 DEF Monitor!Post
  <2>2. TimeSpent'
    BY <1>0, <1>9 DEF Monitor!Post, TimeSpent
  <2>3. ShareHeld'
    BY <1>0, <1>9 DEF Monitor!Post, ShareHeld
  <2>4. DraftDated'
    BY <1>0, <1>9 DEF Monitor!Post, DraftDated
  <2>5. SnapshotDated'
    BY <1>0, <1>9 DEF Monitor!Post, SnapshotDated
  <2> QED BY <2>1, <2>2, <2>3, <2>4, <2>5
<1>10. CASE Monitor!Restart
  <2>1. Monitor!TypeOK'
    <3>1. now \in Nat /\ 0 \in 0..now /\ 0 \in 0..MaxTime
      BY <1>0
    <3> QED BY <1>10, <3>1, NoDraftTyped DEF Monitor!Restart
  <2>2. TimeSpent'
    BY <1>0, <1>10 DEF Monitor!Restart, TimeSpent
  <2>3. ShareHeld'
    BY <1>0, <1>10 DEF Monitor!Restart, ShareHeld
  <2>4. DraftDated'
    BY <1>0, <1>10 DEF Monitor!Restart, DraftDated
  <2>5. SnapshotDated'
    BY <1>0, <1>10 DEF Monitor!Restart, SnapshotDated
  <2> QED BY <2>1, <2>2, <2>3, <2>4, <2>5
<1> QED
  BY <1>1, <1>2, <1>3, <1>4, <1>5, <1>6, <1>7, <1>8, <1>9, <1>10
     DEF Monitor!Next, Monitor!Refresh, Monitor!Heartbeat

LEMMA MonitoringAlways == Monitor!Spec => []MonitoringInv
<1>1. Monitor!Init => MonitoringInv
  BY MonitoringInit, ProcessAssumption
<1>2. MonitoringInv /\ [Monitor!Next]_(Monitor!vars) => MonitoringInv'
  <2> SUFFICES ASSUME MonitoringInv, [Monitor!Next]_(Monitor!vars) PROVE MonitoringInv'
    OBVIOUS
  <2>1. CASE Monitor!Next
    BY <2>1, MonitoringStep, ProcessAssumption
  <2>2. CASE UNCHANGED Monitor!vars
    BY <2>2 DEF Monitor!vars, Monitor!tables, Monitor!stats, Monitor!heart, Monitor!duty,
       MonitoringInv, Monitor!TypeOK, TimeSpent, ShareHeld, DraftDated, SnapshotDated
  <2> QED BY <2>1, <2>2
<1> QED BY <1>1, <1>2, PTL DEF Monitor!Spec

(* The types of Monitoring: no refresh is from the future, and no final    *)
(* outcome is of a signal that is not there.                               *)
THEOREM MonitoringTyped == Monitor!Spec => []Monitor!TypeOK
<1>1. MonitoringInv => Monitor!TypeOK
  BY DEF MonitoringInv
<1> QED BY <1>1, MonitoringAlways, PTL

(* Each aggregate a reader of /metrics is shown was the table's at a       *)
(* moment no further back than the age and the duration shown with it,     *)
(* whatever the interval, however long a refresh takes and whoever commits *)
(* between its sessions.                                                   *)
THEOREM NumbersAlwaysDated == Monitor!Spec => []NumbersDated
<1>1. MonitoringInv => NumbersDated
  <2> SUFFICES ASSUME MonitoringInv, Monitor!Page # Monitor!None,
                      NEW read \in {Monitor!Page.signals, Monitor!Page.finals}
               PROVE  now - read.at \in 0 .. Monitor!Page.age + Monitor!Page.duration
    BY DEF NumbersDated, Monitor!NumbersDated
  <2>1. snapshot # Monitor!None
    BY DEF Monitor!Page
  <2>2. /\ Monitor!Page.age = now - snapshot.computed
        /\ Monitor!Page.duration = snapshot.duration
        /\ Monitor!Page.signals = snapshot.signals /\ Monitor!Page.finals = snapshot.finals
    BY <2>1 DEF Monitor!Page
  <2>3. Monitor!TypeOK /\ SnapshotDated
    BY DEF MonitoringInv
  <2>4. MaxTime \in Nat /\ now \in Nat
    BY <2>3, ProcessAssumption DEF Monitor!TypeOK, Monitor!Time, Monitor!MonitoringAssumption
  <2>5. /\ snapshot.computed \in Nat /\ snapshot.duration \in Nat
        /\ snapshot.signals.at \in Nat /\ snapshot.finals.at \in Nat
    BY <2>1, <2>3, <2>4, SnapshotFields
  <2>6. /\ snapshot.computed <= now
        /\ read.at \in (snapshot.computed - snapshot.duration)..snapshot.computed
    BY <2>1, <2>2, <2>3 DEF SnapshotDated
  <2> QED BY <2>2, <2>4, <2>5, <2>6
<1> QED BY <1>1, MonitoringAlways, PTL

(* A refresh only begins when those since the last failure have had a      *)
(* quarter of the time at most, for every interval and every length of     *)
(* the single refreshes.                                                   *)
THEOREM DutyAlwaysHeld == Monitor!Spec => DutyHeld
<1>1. ASSUME MonitoringInv, Monitor!Next, stage = "asleep", stage' # "asleep"
      PROVE  3 * busy <= idle
  <2>1. Monitor!Begin
    BY <1>1 DEF Monitor!Next, Monitor!Refresh, Monitor!Heartbeat, Monitor!Commit, Monitor!Tick,
       Monitor!ReadTokens, Monitor!ReadOutcomes, Monitor!Publish, Monitor!RefreshFails,
       Monitor!Count, Monitor!Post, Monitor!Restart, Monitor!stats
  <2>2. now >= wake /\ now \in Int /\ wake \in Int /\ busy \in Int /\ idle \in Int
    BY <1>1, <2>1, ProcessAssumption DEF Monitor!Begin, MonitoringInv, Monitor!TypeOK, Monitor!Time,
       Monitor!MonitoringAssumption
  <2>3. 3 * busy <= idle \/ 3 * busy <= idle + (wake - now)
    BY <1>1 DEF MonitoringInv, ShareHeld
  <2> QED BY <2>2, <2>3
<1>2. MonitoringInv /\ [Monitor!Next]_(Monitor!vars)
        => [stage = "asleep" /\ stage' # "asleep" => 3 * busy <= idle]_(Monitor!vars)
  BY <1>1
<1> QED BY <1>2, MonitoringAlways, PTL DEF Monitor!Spec, Monitor!DutyHeld, DutyHeld

-----------------------------------------------------------------------------
(* The three side by side: each of them rests while another one moves, so  *)
(* what is proved of it alone holds of the whole.                          *)

LEMMA PartsAreParts == PartsSpec => Spec /\ Life!Spec /\ Monitor!Spec
<1>1. PartsInit => Init /\ Life!Init /\ Monitor!Init
  BY DEF PartsInit
<1>2. [SupervisorMoves \/ LifespanMoves \/ MonitoringMoves]_allVars
        => [Next]_vars /\ [Life!Next]_(Life!vars) /\ [Monitor!Next]_(Monitor!vars)
  <2>1. /\ UNCHANGED allVars => UNCHANGED <<vars, lifespan, monitoring>>
        /\ UNCHANGED lifespan => UNCHANGED Life!vars
        /\ UNCHANGED monitoring => UNCHANGED Monitor!vars
    BY DEF allVars, lifespan, monitoring, Life!vars, Life!bounds,
       Monitor!vars, Monitor!tables, Monitor!stats, Monitor!heart, Monitor!duty
  <2>2. SupervisorMoves => Next /\ UNCHANGED <<lifespan, monitoring>>
    BY DEF SupervisorMoves
  <2>3. LifespanMoves => Life!Next /\ UNCHANGED <<vars, monitoring>>
    BY DEF LifespanMoves
  <2>4. MonitoringMoves => Monitor!Next /\ UNCHANGED <<vars, lifespan>>
    BY DEF MonitoringMoves
  <2> QED BY <2>1, <2>2, <2>3, <2>4
<1> QED BY <1>1, <1>2, PTL DEF PartsSpec, Spec, Life!Spec, Monitor!Spec

(* The types of a supervised task, of the lifespan and of the monitoring,  *)
(* whichever of them moves.                                                *)
THEOREM ProcessTyped == PartsSpec => []Typed
<1>1. TypeOK /\ Life!TypeOK /\ Monitor!TypeOK <=> Typed
  BY DEF Typed
<1> QED BY <1>1, PartsAreParts, TypeCorrect, LifespanTyped, MonitoringTyped, PTL

(* Everything the runs check of the process, liveness aside, of the three  *)
(* together.                                                               *)
THEOREM ProcessAlwaysSafe ==
  PartsSpec => /\ [](Typed /\ StateHonest /\ BackoffSchedule)
               /\ [](BodiesUseOpenResources /\ NumbersDated)
               /\ DutyHeld
BY PartsAreParts, ProcessTyped, StateAlwaysHonest, BackoffAlwaysInSchedule,
   BodiesAlwaysUseOpenResources, NumbersAlwaysDated, DutyAlwaysHeld, PTL
=============================================================================
