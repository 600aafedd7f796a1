---------------------------- MODULE Signals_proofs ----------------------------
(***************************************************************************)
(* Theorems about Signals, for any tokens, strategy, interval, lookback    *)
(* and batch size, and any number of failures and crashes: type            *)
(* correctness, the agreement of a replay with the live run, and the       *)
(* append-only history of a token's vectors.                               *)
(***************************************************************************)
EXTENDS Signals, DataLemmas

(* A token row dates the newest snapshot of its series.                    *)
LastIsNewest ==
  \A t \in Tokens : /\ IF last[t] = Never THEN snaps[t] = {} ELSE last[t] \in snaps[t]
                    /\ \A a \in snaps[t] : a <= last[t]
                    /\ last[t] <= now

(* What the candidates of a pass are until their turn comes: a moment that *)
(* has its snapshot, each token once.                                      *)
TodoDated ==
  /\ \A i \in 1..Len(todo) : todo[i].at \in snaps[todo[i].id]
  /\ \A i, j \in 1..Len(todo) : i # j => todo[i].id # todo[j].id

(* c is later than every vector of its token, by the interval.             *)
Ahead(c) == \A o \in obs[c.id] : c.at > o.at /\ c.at - o.at >= MinInterval

(* Nobody else observes: whoever waits is still ahead, and the head has    *)
(* its vector when the strategy gets it.                                   *)
TodoAhead ==
  /\ \A i \in 1..Len(todo) : (pc = "emit" => i # 1) => Ahead(todo[i])
  /\ pc = "emit" => \E o \in obs[todo[1].id] : o.at = todo[1].at

(* A stored vector is what its moment gave.                                *)
VectorsRight ==
  \A t \in Tokens : \A o \in obs[t] : o.at \in snaps[t] /\ o.seen = Window(t, o.at)

(* A signal is a judgement, a judgement is of a vector, and it is what the *)
(* strategy says of the moment.                                            *)
VerdictsRight ==
  \A t \in Tokens :
    /\ signals[t] \subseteq judged[t]
    /\ judged[t] \subseteq {o.at : o \in obs[t]}
    /\ \A a \in judged[t] : a \in signals[t] <=> Fires(Window(t, a))

Pass == LastIsNewest /\ TodoDated /\ TodoAhead
History == VectorsRight /\ VerdictsRight

-----------------------------------------------------------------------------
(* What the assumption gives, one fact at a time.                          *)
LEMMA ConstantTypes ==
  /\ IsFiniteSet(Tokens)
  /\ MinInterval \in Nat /\ Lookback \in Nat /\ MaxTime \in Nat
  /\ MaxErrors \in Nat /\ MaxCrashes \in Nat
BY SignalsAssumption

(* A moment of a series is one of the clock.                               *)
LEMMA Moments ==
  ASSUME TypeOK, NEW t \in Tokens
  PROVE  /\ snaps[t] \subseteq 0..MaxTime /\ last[t] \in Int
         /\ \A o \in obs[t] : o.at \in Nat /\ o.seen \subseteq 0..MaxTime
<1>1. snaps[t] \subseteq 0..MaxTime /\ last[t] \in -1..MaxTime /\ obs[t] \subseteq Observation
  BY DEF TypeOK
<1> QED BY <1>1, ConstantTypes DEF Observation

(* The candidate a pass is at.                                             *)
LEMMA HeadOfTodo ==
  ASSUME TypeOK, TodoDated, pc # "idle"
  PROVE  /\ todo # <<>> /\ Head(todo) = todo[1] /\ 1 \in 1..Len(todo)
         /\ todo[1].id \in Tokens /\ todo[1].at \in 0..MaxTime
         /\ todo[1].at \in snaps[todo[1].id]
<1>1. todo # <<>> /\ todo \in Seq(Candidate)
  BY DEF TypeOK
<1>2. Head(todo) = todo[1] /\ todo[1] \in Candidate /\ 1 \in 1..Len(todo)
  BY <1>1, TailElements
<1>3. todo[1].id \in Tokens /\ todo[1].at \in snaps[todo[1].id]
  BY <1>2 DEF Candidate, TodoDated
<1> QED BY <1>1, <1>2, <1>3, Moments

(* The pass goes on to the next one.                                       *)
LEMMA RestOfTodo ==
  ASSUME TypeOK, pc # "idle", ToNext
  PROVE  /\ todo' \in Seq(Candidate) /\ pc' \in {"idle", "observe"}
         /\ pc' = "idle" <=> todo' = <<>>
         /\ \A i \in 1..Len(todo') : todo'[i] = todo[i + 1] /\ i + 1 \in 1..Len(todo)
         /\ \A i \in 1..Len(todo') : i \in Nat \ {0}
<1>1. todo # <<>> /\ todo \in Seq(Candidate)
  BY DEF TypeOK
<1>2. todo' = Tail(todo) /\ pc' = IF Len(todo) = 1 THEN "idle" ELSE "observe"
  BY DEF ToNext
<1>3. Len(todo') \in Nat
  BY <1>1, <1>2, TailElements, LenProperties
<1> QED BY <1>1, <1>2, <1>3, TailElements

(* NULL is no moment: a token without a newest vector has none.            *)
LEMMA NewestIsMax ==
  ASSUME TypeOK, VectorsRight, NEW t \in Tokens
  PROVE  /\ Newest(t) \in Int
         /\ \A o \in obs[t] : o.at \in Nat /\ o.at <= Newest(t)
         /\ obs[t] # {} => Newest(t) # Never
<1> DEFINE M == {o.at : o \in obs[t]}
           S == {Never} \cup M
<1>1. M \subseteq 0..MaxTime
  BY Moments DEF VectorsRight
<1>2. S \subseteq Int /\ IsFiniteSet(S) /\ S # {}
  <2>1. IsFiniteSet(M)
    <3>1. IsFiniteSet(0..MaxTime)
      BY ConstantTypes, FS_Interval
    <3> HIDE DEF M
    <3> QED BY <1>1, <3>1, FS_Subset
  <2>2. IsFiniteSet(S)
    BY <2>1, FS_Singleton, FS_Union
  <2> QED BY <1>1, <2>2, ConstantTypes DEF Never
<1>3. Newest(t) = Max(S)
  BY DEF Newest
<1>4. Newest(t) \in S /\ \A y \in S : y <= Newest(t)
  <2> HIDE DEF S
  <2> QED BY <1>2, <1>3, MaxOfSet
<1>5. \A o \in obs[t] : o.at \in M
  OBVIOUS
<1> HIDE DEF M
<1>6. \A o \in obs[t] : o.at \in S /\ o.at \in Nat
  <2>1. \A o \in obs[t] : o.at \in Nat
    BY Moments
  <2> QED BY <1>5, <2>1
<1>7. \A o \in obs[t] : o.at <= Newest(t)
  BY <1>4, <1>6
<1>8. Newest(t) \in Int
  BY <1>2, <1>4
<1>9. ASSUME NEW o \in obs[t] PROVE Newest(t) # Never
  BY <1>6, <1>7, <1>8 DEF Never
<1> QED BY <1>6, <1>7, <1>8, <1>9

(* What the query lets through is ahead of all that is stored.             *)
LEMMA FreshIsAhead ==
  ASSUME TypeOK, VectorsRight, NEW t \in Fresh, Spaced(Copy(t))
  PROVE  Ahead(Copy(t))
<1>1. t \in Tokens /\ (Newest(t) = Never \/ last[t] > Newest(t))
  BY DEF Fresh, TypeOK
<1>2. Copy(t).id = t /\ Copy(t).at = last[t]
  BY DEF Copy
<1>3. SUFFICES ASSUME NEW o \in obs[t] PROVE last[t] > o.at /\ last[t] - o.at >= MinInterval
  BY <1>2 DEF Ahead
<1>4. /\ o.at \in Nat /\ o.at <= Newest(t) /\ Newest(t) # Never
      /\ last[t] \in Int /\ Newest(t) \in Int /\ last[t] > Newest(t)
  BY <1>1, NewestIsMax, Moments
<1>5. MinInterval > 0 => last[t] - Newest(t) >= MinInterval
  BY <1>2, <1>4 DEF Spaced
<1> QED BY <1>4, <1>5, ConstantTypes

(* The candidates of a pass: copies of fresh rows, each token once.        *)
LEMMA BatchRead ==
  ASSUME TypeOK, BeginPass
  PROVE  /\ todo' \in Seq(Candidate) /\ pc' \in {"idle", "observe"}
         /\ pc' = "idle" <=> todo' = <<>>
         /\ \A i \in 1..Len(todo') :
              \E t \in Fresh : todo'[i] = Copy(t) /\ Spaced(Copy(t))
         /\ \A i, j \in 1..Len(todo') : i # j => todo'[i].id # todo'[j].id
<1>1. PICK B \in SUBSET Fresh, order \in SetToAllKPermutations(Fresh) :
        /\ Range(order) = {t \in B : Spaced(Copy(t))}
        /\ todo' = [i \in DOMAIN order |-> Copy(order[i])]
  BY DEF BeginPass
<1>2. Fresh \subseteq Tokens /\ IsFiniteSet(Fresh)
  BY ConstantTypes, FS_Subset DEF Fresh, TypeOK
<1>3. /\ order \in Seq(Fresh)
      /\ \A i, j \in 1..Len(order) : i # j => order[i] # order[j]
  BY <1>2, PermutationIsSequence
<1>4. DOMAIN order = 1..Len(order) /\ Len(order) \in Nat
  BY <1>3, LenProperties
<1>5. \A t \in Fresh : Copy(t) \in Candidate /\ Copy(t).id = t
  BY <1>2, ConstantTypes DEF Copy, Candidate, Fresh, TypeOK, Never
<1>6. \A i \in 1..Len(order) : order[i] \in Fresh /\ Spaced(Copy(order[i]))
  <2> TAKE i \in 1..Len(order)
  <2>1. order[i] \in Range(order)
    BY <1>4 DEF Range
  <2> QED BY <1>1, <2>1
<1>7. todo' \in [1..Len(order) -> Candidate]
  BY <1>1, <1>4, <1>5, <1>6
<1>8. todo' \in Seq(Candidate) /\ Len(todo') = Len(order)
  BY <1>4, <1>7, SeqDef, LenProperties
<1>9. \A i \in 1..Len(todo') : todo'[i] = Copy(order[i])
  BY <1>1, <1>4, <1>8
<1>10. \A i, j \in 1..Len(todo') : i # j => todo'[i].id # todo'[j].id
  BY <1>3, <1>5, <1>6, <1>8, <1>9
<1>11. \A i \in 1..Len(todo') : \E t \in Fresh : todo'[i] = Copy(t) /\ Spaced(Copy(t))
  BY <1>6, <1>8, <1>9
<1>12. pc' \in {"idle", "observe"} /\ (pc' = "idle" <=> todo' = <<>>)
  BY DEF BeginPass
<1> QED BY <1>8, <1>10, <1>11, <1>12

-----------------------------------------------------------------------------
LEMMA StepTyped == TypeOK /\ TodoDated /\ [Next]_vars => TypeOK'
<1> SUFFICES ASSUME TypeOK, TodoDated, [Next]_vars PROVE TypeOK'
  OBVIOUS
<1> USE ConstantTypes
<1>1. CASE Tick
  BY <1>1 DEF Tick, TypeOK
<1>2. ASSUME NEW t \in Tokens, RecordSnapshot(t) PROVE TypeOK'
  <2>1. now \in 0..MaxTime
    BY DEF TypeOK
  <2> QED BY <1>2, <2>1 DEF RecordSnapshot, TypeOK
<1>3. ASSUME NEW t \in Tokens, Retire(t) PROVE TypeOK'
  BY <1>3 DEF Retire, TypeOK
<1>4. CASE BeginPass
  <2>1. /\ todo' \in Seq(Candidate) /\ pc' \in {"idle", "observe", "emit"}
        /\ pc' = "idle" <=> todo' = <<>>
    BY <1>4, BatchRead
  <2> QED BY <1>4, <2>1 DEF BeginPass, TypeOK, world
<1>5. ASSUME ToNext, pc # "idle"
      PROVE  /\ todo' \in Seq(Candidate) /\ pc' \in {"idle", "observe", "emit"}
             /\ pc' = "idle" <=> todo' = <<>>
  BY <1>5, RestOfTodo
<1>6. CASE Observe
  <2> DEFINE t == todo[1].id
             vector == [at |-> todo[1].at, seen |-> Window(t, todo[1].at)]
  <2>1. pc # "idle" /\ t \in Tokens /\ Head(todo) = todo[1] /\ todo[1].at \in 0..MaxTime
    BY <1>6, HeadOfTodo DEF Observe
  <2>2. vector \in Observation
    <3>1. Window(t, todo[1].at) \subseteq 0..MaxTime
      BY <2>1, Moments DEF Window
    <3> QED BY <2>1, <3>1 DEF Observation
  <2>3. CASE UNCHANGED obs /\ ToNext
    BY <1>5, <1>6, <2>1, <2>3 DEF Observe, TypeOK, world
  <2>4. CASE /\ obs' = [obs EXCEPT ![t] = @ \cup {vector}]
             /\ pc' = "emit" /\ UNCHANGED todo
    <3>1. obs' \in [Tokens -> SUBSET Observation]
      <4> HIDE DEF vector, t
      <4> QED BY <2>1, <2>2, <2>4 DEF TypeOK
    <3> QED BY <1>6, <2>1, <2>4, <3>1 DEF Observe, TypeOK, world
  <2> QED BY <1>6, <2>1, <2>3, <2>4 DEF Observe
<1>7. CASE Emit
  <2> DEFINE t == todo[1].id
             at == todo[1].at
  <2>1. pc # "idle" /\ t \in Tokens /\ Head(todo) = todo[1] /\ at \in 0..MaxTime
    BY <1>7, HeadOfTodo DEF Emit
  <2>2. /\ \/ signals' = [signals EXCEPT ![t] = @ \cup {at}] \/ signals' = signals
        /\ judged' = [judged EXCEPT ![t] = @ \cup {at}] /\ ToNext
    BY <1>7, <2>1 DEF Emit
  <2> HIDE DEF t, at
  <2>3. signals' \in [Tokens -> SUBSET (0..MaxTime)] /\ judged' \in [Tokens -> SUBSET (0..MaxTime)]
    BY <2>1, <2>2 DEF TypeOK
  <2> QED BY <1>5, <1>7, <2>1, <2>2, <2>3 DEF Emit, TypeOK, world
<1>8. CASE Fail
  <2> DEFINE t == todo[1].id
             at == todo[1].at
  <2>1. pc # "idle" /\ t \in Tokens /\ Head(todo) = todo[1] /\ at \in 0..MaxTime
    BY <1>8, HeadOfTodo DEF Fail
  <2>2. failed' = [failed EXCEPT ![t] = @ \cup {at}] /\ ToNext
    BY <1>8, <2>1 DEF Fail
  <2> HIDE DEF t, at
  <2>3. failed' \in [Tokens -> SUBSET (0..MaxTime)]
    BY <2>1, <2>2 DEF TypeOK
  <2> QED BY <1>5, <1>8, <2>1, <2>2, <2>3 DEF Fail, TypeOK, world
<1>9. CASE Crash
  <2>1. <<>> \in Seq(Candidate)
    BY EmptySeq
  <2> QED BY <1>9, <2>1 DEF Crash, TypeOK, world
<1>10. CASE UNCHANGED vars
  BY <1>10 DEF vars, world, TypeOK
<1> QED
  BY <1>1, <1>2, <1>3, <1>4, <1>6, <1>7, <1>8, <1>9, <1>10 DEF Next, Loop

-----------------------------------------------------------------------------
(* The steps of the pass, and what each leaves alone.                      *)

HeadVector == [at |-> todo[1].at, seen |-> Window(todo[1].id, todo[1].at)]

(* The head is skipped, or its vector is stored.                           *)
Skipped == ToNext /\ UNCHANGED <<obs, signals, judged>>
Stored ==
  /\ pc = "observe" /\ pc' = "emit" /\ todo' = todo
  /\ obs' = [obs EXCEPT ![todo[1].id] = @ \cup {HeadVector}]
  /\ UNCHANGED <<signals, judged>>
(* The strategy has judged the vector of the head.                         *)
Judged ==
  /\ pc = "emit" /\ ToNext /\ UNCHANGED obs
  /\ judged' = [judged EXCEPT ![todo[1].id] = @ \cup {todo[1].at}]
  /\ \E o : /\ o \in obs[todo[1].id] /\ o.at = todo[1].at
            /\ IF Fires(o.seen)
               THEN signals' = [signals EXCEPT ![todo[1].id] = @ \cup {todo[1].at}]
               ELSE signals' = signals
(* The list is read, or lost.                                              *)
Relisted ==
  /\ \/ BeginPass
     \/ pc' = "idle" /\ todo' = <<>>
  /\ UNCHANGED <<obs, signals, judged>>
Untouched == UNCHANGED <<pc, todo, obs, signals, judged>>

LEMMA StepShape ==
  ASSUME TypeOK, TodoDated, TodoAhead, [Next]_vars
  PROVE  \/ Untouched
         \/ /\ UNCHANGED <<now, last, snaps>>
            /\ \/ Relisted
               \/ pc # "idle" /\ (Skipped \/ Stored \/ Judged)
<1>1. CASE Tick \/ UNCHANGED vars
  BY <1>1 DEF Tick, vars, Untouched
<1>2. ASSUME NEW t \in Tokens, RecordSnapshot(t) \/ Retire(t) PROVE Untouched
  BY <1>2 DEF RecordSnapshot, Retire, Untouched
<1>3. CASE BeginPass \/ Crash
  BY <1>3 DEF BeginPass, Crash, Relisted, world
<1>4. CASE Observe
  <2>1. pc = "observe" /\ Head(todo) = todo[1] /\ UNCHANGED <<now, last, snaps, signals, judged>>
    BY <1>4, HeadOfTodo DEF Observe, world
  <2>2. \/ UNCHANGED obs /\ ToNext
        \/ /\ obs' = [obs EXCEPT ![todo[1].id] = @ \cup {HeadVector}]
           /\ pc' = "emit" /\ UNCHANGED todo
    BY <1>4, <2>1, Zenon DEF Observe, HeadVector
  <2> QED BY <2>1, <2>2 DEF Skipped, Stored
<1>5. CASE Emit
  <2> DEFINE t == todo[1].id
             at == todo[1].at
             vector == CHOOSE o \in obs[t] : o.at = at
  <2>1. pc = "emit" /\ Head(todo) = todo[1] /\ UNCHANGED <<now, last, snaps, obs>>
    BY <1>5, HeadOfTodo DEF Emit, world
  <2>2. /\ signals' = IF Fires(vector.seen)
                      THEN [signals EXCEPT ![t] = @ \cup {at}] ELSE signals
        /\ judged' = [judged EXCEPT ![t] = @ \cup {at}]
        /\ ToNext
    BY <1>5, <2>1 DEF Emit
  <2>3. vector \in obs[t] /\ vector.at = at
    BY <2>1 DEF TodoAhead
  <2> HIDE DEF vector
  <2>4. Judged
    BY <2>1, <2>2, <2>3 DEF Judged
  <2> QED BY <2>1, <2>4
<1>6. CASE Fail
  BY <1>6 DEF Fail, Skipped, world
<1> QED BY <1>1, <1>2, <1>3, <1>4, <1>5, <1>6 DEF Next, Loop

-----------------------------------------------------------------------------
(* A series grows at its end, and the token row follows it.                *)
Grows ==
  \A t \in Tokens : /\ snaps[t] \subseteq snaps'[t]
                    /\ \A n \in snaps'[t] \ snaps[t], a \in snaps[t] : a < n

LEMMA SeriesGrow ==
  ASSUME TypeOK, LastIsNewest, [Next]_vars
  PROVE  LastIsNewest' /\ Grows
<1>0. now \in Nat /\ \A t \in Tokens : snaps[t] \subseteq Nat /\ last[t] \in Int
  <2>1. now \in 0..MaxTime /\ \A t \in Tokens : snaps[t] \subseteq 0..MaxTime /\ last[t] \in Int
    BY Moments DEF TypeOK
  <2> QED BY <2>1, ConstantTypes
<1>1. CASE UNCHANGED <<last, snaps>> /\ now' \in {now, now + 1}
  BY <1>0, <1>1 DEF LastIsNewest, Grows
<1>2. ASSUME NEW t \in Tokens, RecordSnapshot(t) PROVE LastIsNewest' /\ Grows
  <2>1. /\ last[t] < now /\ now' = now
        /\ snaps' = [snaps EXCEPT ![t] = @ \cup {now}]
        /\ last' = [last EXCEPT ![t] = now]
    BY <1>2 DEF RecordSnapshot
  <2>2. /\ snaps'[t] = snaps[t] \cup {now} /\ last'[t] = now
        /\ \A u \in Tokens \ {t} : snaps'[u] = snaps[u] /\ last'[u] = last[u]
    BY <2>1 DEF TypeOK
  <2>3. \A a \in snaps[t] : a <= last[t]
    BY DEF LastIsNewest
  <2>4. \A a \in snaps[t] : a < now
    BY <1>0, <2>1, <2>3
  <2>5. Grows
    BY <2>2, <2>4 DEF Grows
  <2>6. last'[t] # Never
    BY <1>0, <2>2 DEF Never
  <2>7. \A a \in snaps'[t] : a <= last'[t]
    BY <1>0, <2>2, <2>4
  <2>8. LastIsNewest'
    BY <1>0, <2>1, <2>2, <2>6, <2>7 DEF LastIsNewest
  <2> QED BY <2>5, <2>8
<1>3. CASE Tick \/ Loop \/ Fail \/ Crash \/ (\E t \in Tokens : Retire(t)) \/ UNCHANGED vars
  BY <1>1, <1>3
     DEF Tick, Loop, BeginPass, Observe, Emit, Fail, Crash, Retire, vars, world
<1> QED BY <1>2, <1>3 DEF Next

(* What was visible at a moment of the series stays what it was.           *)
LEMMA WindowStays ==
  ASSUME TypeOK, Grows, NEW t \in Tokens, NEW at \in snaps[t], snaps'[t] \subseteq Nat
  PROVE  Window(t, at)' = Window(t, at)
<1>1. snaps[t] \subseteq snaps'[t] /\ at \in Nat /\ \A n \in snaps'[t] \ snaps[t] : at < n
  BY DEF Grows
<1>2. \A s \in snaps'[t] : s <= at => s \in snaps[t]
  BY <1>1
<1> QED BY <1>1, <1>2 DEF Window

-----------------------------------------------------------------------------
LEMMA StepDated ==
  ASSUME TypeOK, Pass, [Next]_vars
  PROVE  TodoDated'
<1>0. TodoDated /\ TodoAhead /\ LastIsNewest
  BY DEF Pass
<1>1. Grows
  BY <1>0, SeriesGrow
<1>2. \A i \in 1..Len(todo) : todo[i] \in Candidate
  BY ElementOfSeq DEF TypeOK
<1>3. CASE todo' = todo
  BY <1>0, <1>1, <1>2, <1>3 DEF TodoDated, Grows, Candidate
<1>4. CASE ToNext /\ pc # "idle" /\ UNCHANGED snaps
  <2>1. /\ \A i \in 1..Len(todo') : todo'[i] = todo[i + 1] /\ i + 1 \in 1..Len(todo)
        /\ \A i \in 1..Len(todo') : i \in Nat \ {0}
    BY <1>4, RestOfTodo
  <2>2. \A i \in 1..Len(todo') : todo'[i].at \in snaps[todo'[i].id]
    BY <1>0, <2>1 DEF TodoDated
  <2>3. ASSUME NEW i \in 1..Len(todo'), NEW j \in 1..Len(todo'), i # j
        PROVE  todo'[i].id # todo'[j].id
    <3>1. i + 1 # j + 1
      BY <2>1, <2>3
    <3> QED BY <1>0, <2>1, <3>1 DEF TodoDated
  <2> QED BY <1>4, <2>2, <2>3 DEF TodoDated
<1>5. CASE BeginPass /\ UNCHANGED snaps
  <2>1. /\ \A i \in 1..Len(todo') : \E t \in Fresh : todo'[i] = Copy(t)
        /\ \A i, j \in 1..Len(todo') : i # j => todo'[i].id # todo'[j].id
    BY <1>5, BatchRead
  <2>2. \A t \in Fresh : Copy(t).at \in snaps[Copy(t).id]
    BY <1>0 DEF Fresh, Copy, LastIsNewest, TypeOK
  <2> QED BY <1>5, <2>1, <2>2 DEF TodoDated
<1>6. CASE todo' = <<>>
  <2>1. Len(todo') = 0
    BY <1>6, EmptySeq
  <2> QED BY <2>1 DEF TodoDated
<1> QED BY <1>0, <1>3, <1>4, <1>5, <1>6, StepShape
       DEF Untouched, Relisted, Skipped, Stored, Judged

LEMMA StepAhead ==
  ASSUME TypeOK, Pass, VectorsRight, [Next]_vars
  PROVE  TodoAhead'
<1>0. TodoDated /\ TodoAhead
  BY DEF Pass
<1>1. CASE UNCHANGED <<pc, todo, obs>>
  BY <1>0, <1>1 DEF TodoAhead, Ahead
<1>2. CASE ToNext /\ pc # "idle" /\ UNCHANGED obs
  <2>1. /\ \A i \in 1..Len(todo') : todo'[i] = todo[i + 1] /\ i + 1 \in 1..Len(todo)
        /\ \A i \in 1..Len(todo') : i \in Nat \ {0}
        /\ pc' # "emit"
    BY <1>2, RestOfTodo
  <2>2. \A i \in 1..Len(todo') : i + 1 # 1
    BY <2>1
  <2>3. \A i \in 1..Len(todo') : Ahead(todo[i + 1])
    BY <1>0, <2>1, <2>2 DEF TodoAhead
  <2> QED BY <1>2, <2>1, <2>3 DEF TodoAhead, Ahead
<1>3. CASE Stored /\ pc # "idle"
  <2> DEFINE h == todo[1].id
  <2>1. /\ pc = "observe" /\ pc' = "emit" /\ todo' = todo
        /\ obs' = [obs EXCEPT ![h] = @ \cup {HeadVector}]
    BY <1>3 DEF Stored
  <2>2. h \in Tokens /\ 1 \in 1..Len(todo)
    BY <1>0, <1>3, HeadOfTodo
  <2>3. \A i \in 1..Len(todo) : i # 1 => todo[i].id # h /\ todo[i].id \in Tokens
    <3>1. \A i \in 1..Len(todo) : todo[i] \in Candidate
      BY ElementOfSeq DEF TypeOK
    <3> QED BY <1>0, <2>2, <3>1 DEF TodoDated, Candidate
  <2>4. /\ obs'[h] = obs[h] \cup {HeadVector}
        /\ \A t \in Tokens \ {h} : obs'[t] = obs[t]
    <3> HIDE DEF h
    <3> QED BY <2>1, <2>2 DEF TypeOK
  <2>5. \A i \in 1..Len(todo) : Ahead(todo[i])
    BY <1>0, <2>1 DEF TodoAhead
  <2>6. \A i \in 1..Len(todo) : i # 1 => obs'[todo[i].id] = obs[todo[i].id]
    BY <2>3, <2>4
  <2>7. \A i \in 1..Len(todo') : i # 1 => Ahead(todo[i])'
    BY <2>1, <2>5, <2>6 DEF Ahead
  <2>8. HeadVector \in obs'[h] /\ HeadVector.at = todo[1].at
    BY <2>4 DEF HeadVector
  <2> HIDE DEF h
  <2> QED BY <2>1, <2>7, <2>8 DEF TodoAhead, h
<1>4. CASE BeginPass /\ UNCHANGED obs
  <2>1. /\ \A i \in 1..Len(todo') : \E t \in Fresh : todo'[i] = Copy(t) /\ Spaced(Copy(t))
        /\ pc' # "emit"
    BY <1>4, BatchRead
  <2>2. \A i \in 1..Len(todo') : Ahead(todo'[i])
    BY <2>1, FreshIsAhead
  <2> QED BY <1>4, <2>1, <2>2 DEF TodoAhead, Ahead
<1>5. CASE todo' = <<>> /\ pc' = "idle"
  <2>1. Len(todo') = 0
    BY <1>5, EmptySeq
  <2> QED BY <1>5, <2>1 DEF TodoAhead
<1> QED BY <1>0, <1>1, <1>2, <1>3, <1>4, <1>5, StepShape
       DEF Untouched, Relisted, Skipped, Judged

-----------------------------------------------------------------------------
LEMMA StepVectors ==
  ASSUME TypeOK, Pass, VectorsRight, [Next]_vars
  PROVE  VectorsRight'
<1>0. TodoDated /\ TodoAhead /\ Grows /\ TypeOK'
  BY SeriesGrow, StepTyped DEF Pass
<1>1. \A t \in Tokens : snaps'[t] \subseteq Nat /\ snaps[t] \subseteq snaps'[t]
  <2>1. \A t \in Tokens : snaps'[t] \subseteq 0..MaxTime
    BY <1>0 DEF TypeOK
  <2> QED BY <1>0, <2>1, ConstantTypes DEF Grows
<1>2. ASSUME NEW t \in Tokens, NEW o \in obs[t]
      PROVE  o.at \in snaps'[t] /\ o.seen = Window(t, o.at)'
  <2>1. o.at \in snaps[t] /\ o.seen = Window(t, o.at)
    BY <1>2 DEF VectorsRight
  <2> QED BY <1>0, <1>1, <2>1, WindowStays
<1>3. CASE UNCHANGED obs
  BY <1>2, <1>3 DEF VectorsRight
<1>4. CASE Stored /\ pc # "idle" /\ UNCHANGED snaps
  <2>1. PICK h \in Tokens, a \in 0..MaxTime :
         h = todo[1].id /\ a = todo[1].at /\ a \in snaps[h]
    BY <1>0, <1>4, HeadOfTodo
  <2>2. PICK v : /\ v = [at |-> a, seen |-> Window(h, a)]
                 /\ obs' = [obs EXCEPT ![h] = @ \cup {v}]
    BY <1>4, <2>1 DEF Stored, HeadVector
  <2>3. v.at \in snaps'[h] /\ v.seen = Window(h, v.at)'
    BY <1>4, <2>1, <2>2 DEF Window
  <2>4. /\ obs'[h] = obs[h] \cup {v}
        /\ \A t \in Tokens \ {h} : obs'[t] = obs[t]
    BY <2>1, <2>2 DEF TypeOK
  <2>5. ASSUME NEW t \in Tokens, NEW o \in obs'[t]
        PROVE  o.at \in snaps'[t] /\ o.seen = Window(t, o.at)'
    <3>1. o \in obs[t] \/ (t = h /\ o = v)
      BY <2>4, <2>5
    <3> QED BY <1>2, <2>3, <3>1
  <2> QED BY <2>5 DEF VectorsRight
<1> QED BY <1>0, <1>3, <1>4, StepShape DEF Untouched, Relisted, Skipped, Judged

LEMMA StepVerdicts ==
  ASSUME TypeOK, Pass, History, [Next]_vars
  PROVE  VerdictsRight'
<1>0. TodoDated /\ TodoAhead /\ Grows /\ TypeOK' /\ VectorsRight /\ VerdictsRight
  BY SeriesGrow, StepTyped DEF Pass, History
<1>1. \A t \in Tokens : snaps'[t] \subseteq Nat
  <2>1. \A t \in Tokens : snaps'[t] \subseteq 0..MaxTime
    BY <1>0 DEF TypeOK
  <2> QED BY <2>1, ConstantTypes
<1> DEFINE Right(t, sig, jud, vec) ==
             /\ sig \subseteq jud
             /\ jud \subseteq {o.at : o \in vec}
             /\ \A a \in jud : a \in sig <=> Fires(Window(t, a))'
<1>2. ASSUME NEW t \in Tokens PROVE Right(t, signals[t], judged[t], obs[t])
  <2>1. /\ signals[t] \subseteq judged[t] /\ judged[t] \subseteq {o.at : o \in obs[t]}
        /\ \A a \in judged[t] : a \in signals[t] <=> Fires(Window(t, a))
    BY <1>0 DEF VerdictsRight
  <2>2. ASSUME NEW a \in judged[t] PROVE Fires(Window(t, a))' <=> Fires(Window(t, a))
    <3>1. a \in snaps[t]
      BY <1>0, <2>1 DEF VectorsRight
    <3>2. Window(t, a)' = Window(t, a)
      BY <1>0, <1>1, <3>1, WindowStays
    <3> QED BY <3>2
  <2> QED BY <2>1, <2>2
<1>3. SUFFICES \A t \in Tokens : Right(t, signals'[t], judged'[t], obs'[t])
  BY DEF VerdictsRight
<1>4. CASE UNCHANGED <<signals, judged, obs>>
  BY <1>2, <1>4
<1>5. CASE Stored /\ pc # "idle"
  <2> DEFINE h == todo[1].id
  <2>1. h \in Tokens /\ UNCHANGED <<signals, judged>>
        /\ obs' = [obs EXCEPT ![h] = @ \cup {HeadVector}]
    BY <1>0, <1>5, HeadOfTodo DEF Stored
  <2> HIDE DEF h
  <2>2. \A t \in Tokens : obs[t] \subseteq obs'[t]
    BY <2>1 DEF TypeOK
  <2> QED BY <1>2, <2>1, <2>2
<1>6. CASE Judged /\ pc # "idle" /\ UNCHANGED snaps
  <2>1. PICK h \in Tokens, at \in 0..MaxTime :
         h = todo[1].id /\ at = todo[1].at /\ at \in snaps[h]
    BY <1>0, <1>6, HeadOfTodo
  <2>2. PICK o \in obs[h] :
          /\ o.at = at
          /\ IF Fires(o.seen) THEN signals' = [signals EXCEPT ![h] = @ \cup {at}]
                              ELSE signals' = signals
    BY <1>6, <2>1 DEF Judged
  <2>3. judged' = [judged EXCEPT ![h] = @ \cup {at}] /\ obs' = obs
    BY <1>6, <2>1 DEF Judged
  <2>4. o.seen = Window(h, at)
    BY <1>0, <2>1, <2>2 DEF VectorsRight
  <2>5. Window(h, at)' = Window(h, at)
    BY <1>6 DEF Window
  <2>6. /\ judged'[h] = judged[h] \cup {at}
        /\ \A t \in Tokens \ {h} : judged'[t] = judged[t]
    BY <2>1, <2>3 DEF TypeOK
  <2>7. /\ IF Fires(Window(h, at)) THEN signals'[h] = signals[h] \cup {at}
                                   ELSE signals'[h] = signals[h]
        /\ \A t \in Tokens \ {h} : signals'[t] = signals[t]
    BY <2>1, <2>2, <2>4 DEF TypeOK
  <2>8. ASSUME NEW t \in Tokens \ {h} PROVE Right(t, signals'[t], judged'[t], obs'[t])
    BY <1>2, <2>3, <2>6, <2>7
  <2>9. Right(h, signals'[h], judged'[h], obs'[h])
    <3>1. Right(h, signals[h], judged[h], obs[h])
      BY <1>2, <2>1
    <3>2. at \in signals'[h] <=> Fires(Window(h, at))'
      BY <2>5, <2>7, <3>1
    <3>3. \A a \in judged[h] : a # at => (a \in signals'[h] <=> Fires(Window(h, a))')
      BY <2>7, <3>1
    <3>4. signals'[h] \subseteq judged'[h]
      BY <2>6, <2>7, <3>1
    <3>5. judged'[h] \subseteq {p.at : p \in obs'[h]}
      BY <2>2, <2>3, <2>6, <3>1
    <3> QED BY <2>6, <3>2, <3>3, <3>4, <3>5
  <2> QED BY <2>8, <2>9
<1> QED BY <1>0, <1>4, <1>5, <1>6, StepShape DEF Untouched, Relisted, Skipped

-----------------------------------------------------------------------------
LEMMA InitRight == Init => TypeOK /\ Pass /\ History
<1> SUFFICES ASSUME Init PROVE TypeOK /\ Pass /\ History
  OBVIOUS
<1>1. TypeOK
  <2>1. <<>> \in Seq(Candidate)
    BY EmptySeq
  <2>2. \A t \in Tokens : last[t] \in -1..MaxTime
    BY ConstantTypes DEF Init, Never
  <2> QED BY <2>1, <2>2, ConstantTypes DEF Init, TypeOK
<1>2. Pass
  <2>1. Len(<<>>) = 0
    BY EmptySeq
  <2> QED BY <2>1 DEF Init, Pass, LastIsNewest, TodoDated, TodoAhead, Never
<1>3. History
  BY DEF Init, History, VectorsRight, VerdictsRight
<1> QED BY <1>1, <1>2, <1>3

LEMMA StepRight == TypeOK /\ Pass /\ History /\ [Next]_vars => (TypeOK /\ Pass /\ History)'
<1> SUFFICES ASSUME TypeOK, Pass, History, [Next]_vars PROVE (TypeOK /\ Pass /\ History)'
  OBVIOUS
<1>1. TodoDated /\ LastIsNewest /\ VectorsRight
  BY DEF Pass, History
<1>2. TypeOK' /\ LastIsNewest' /\ TodoDated' /\ TodoAhead' /\ VectorsRight' /\ VerdictsRight'
  BY <1>1, StepTyped, SeriesGrow, StepDated, StepAhead, StepVectors, StepVerdicts
<1> QED BY <1>2 DEF Pass, History

LEMMA AlwaysRight == Spec => [](TypeOK /\ Pass /\ History)
BY InitRight, StepRight, PTL DEF Spec

(* Type correctness, for any tokens, any clock and any failures.           *)
THEOREM TypeCorrect == Spec => []TypeOK
BY AlwaysRight, PTL

(* A replay of any stored moment sees what the live run saw and comes to   *)
(* the verdict it came to, however many snapshots have arrived since.      *)
THEOREM ReplayAlwaysAgrees == Spec => []ReplayAgrees
<1>1. History => ReplayAgrees
  BY DEF History, VectorsRight, VerdictsRight, ReplayAgrees
<1> QED BY <1>1, AlwaysRight, PTL

(* Whatever fails, crashes or is retried: no vector and no signal is taken *)
(* back, and a new vector of a token is later than all it has, by the      *)
(* interval at least.                                                      *)
THEOREM HistoryOnlyAppended == Spec => HistoryAppended
<1> DEFINE Appended(t) ==
             /\ obs[t] \subseteq obs'[t] /\ signals[t] \subseteq signals'[t]
             /\ \A n \in obs'[t] \ obs[t], o \in obs[t] :
                  n.at > o.at /\ n.at - o.at >= MinInterval
<1>1. ASSUME TypeOK, Pass, [Next]_vars, NEW t \in Tokens
      PROVE  Appended(t)
  <2>0. TodoDated /\ TodoAhead
    BY <1>1 DEF Pass
  <2>1. CASE UNCHANGED obs /\ (UNCHANGED signals \/ Judged)
    <3>1. signals[t] \subseteq signals'[t]
      <4>1. CASE UNCHANGED signals
        BY <4>1
      <4>2. CASE Judged
        BY <1>1, <4>2 DEF Judged, TypeOK
      <4> QED BY <2>1, <4>1, <4>2
    <3> QED BY <2>1, <3>1
  <2>2. CASE Stored /\ pc # "idle"
    <3> DEFINE h == todo[1].id
    <3>1. /\ h \in Tokens /\ 1 \in 1..Len(todo) /\ UNCHANGED signals
          /\ obs' = [obs EXCEPT ![h] = @ \cup {HeadVector}] /\ pc = "observe"
      BY <1>1, <2>0, <2>2, HeadOfTodo DEF Stored
    <3>2. \A o \in obs[h] : HeadVector.at > o.at /\ HeadVector.at - o.at >= MinInterval
      BY <2>0, <3>1 DEF TodoAhead, Ahead, HeadVector
    <3> HIDE DEF h
    <3>3. /\ obs'[h] = obs[h] \cup {HeadVector}
          /\ t # h => obs'[t] = obs[t]
      BY <1>1, <3>1 DEF TypeOK
    <3>4. CASE t = h
      BY <3>1, <3>2, <3>3, <3>4
    <3>5. CASE t # h
      BY <3>1, <3>3, <3>5
    <3> QED BY <3>4, <3>5
  <2> QED BY <1>1, <2>0, <2>1, <2>2, StepShape DEF Untouched, Relisted, Skipped, Judged
<1>2. TypeOK /\ Pass /\ [Next]_vars => [\A t \in Tokens : Appended(t)]_vars
  BY <1>1
<1> QED BY <1>2, AlwaysRight, PTL DEF Spec, HistoryAppended
=============================================================================
