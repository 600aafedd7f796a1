--------------------------- MODULE Tracking_proofs ---------------------------
(***************************************************************************)
(* Theorems about Tracking, for any tokens, slots, tiers, batch size and   *)
(* number of crashes: the rows stay typed, a slot is held exactly by the   *)
(* scheduled, the slots are never exceeded, the rows live the life of      *)
(* TokenLifecycle, a token is given up after a row of failures only, its   *)
(* snapshots keep their distance, and a full batch starves nobody.         *)
(***************************************************************************)
EXTENDS Tracking, DataLemmas

(* What a pass may count on between two of its commits: it is fetching     *)
(* exactly while its batch lasts, every token of the batch is still in     *)
(* tracking when its turn comes, and none comes twice.                     *)
BatchCurrent ==
  /\ pc = "fetch" <=> batch # <<>>
  /\ \A i \in 1..Len(batch) : row[batch[i].id].state = "TRACKING"
  /\ \A i, j \in 1..Len(batch) : i # j => batch[i].id # batch[j].id

Inv == TypeOK /\ BatchCurrent

(* What the assumption gives, one fact at a time.                          *)
LEMMA ConstantTypes ==
  /\ IsFiniteSet(Tokens)
  /\ LastCreation \in Nat /\ MaxTime \in Nat /\ MaxCrashes \in Nat
  /\ RetryAfter \in Nat /\ RetireAfter \in Nat
  /\ MaxConcurrent \in Nat \ {0} /\ BatchSize \in Nat \ {0}
  /\ MaxFailures \in Nat \ {0}
  /\ EarlyEvery \in Nat \ {0} /\ MediumEvery \in Nat \ {0}
  /\ NormalEvery \in Nat \ {0} /\ LongEvery \in Nat \ {0}
  /\ EarlyUntil \in Nat /\ MediumUntil \in Nat /\ NormalUntil \in Nat
  /\ EarlyUntil < MediumUntil /\ MediumUntil < NormalUntil
BY TrackingAssumption

(* Every age has a tier: the tiers leave no gap.                           *)
LEMMA TierTyped ==
  ASSUME NEW age \in Int
  PROVE  TierFor(age) \in {"EARLY", "MEDIUM", "NORMAL", "LONG", "RETIRED"}
BY ConstantTypes DEF TierFor

(* An interval is a natural number or unknown.                             *)
LEMMA IntervalTyped ==
  ASSUME NEW age \in Int
  PROVE  IntervalFor(age) \in Nat \cup {Unknown}
<1> DEFINE every == [EARLY |-> EarlyEvery, MEDIUM |-> MediumEvery,
                     NORMAL |-> NormalEvery, LONG |-> LongEvery, RETIRED |-> Unknown]
<1>1. \A tier \in {"EARLY", "MEDIUM", "NORMAL", "LONG", "RETIRED"} :
        every[tier] \in Nat \cup {Unknown}
  BY ConstantTypes DEF Unknown
<1> QED BY <1>1, TierTyped DEF IntervalFor

(* The row after a snapshot is typed, is scheduled exactly if it keeps its *)
(* slot, and loses it for an end of its life.                              *)
LEMMA SnapshotRowTyped ==
  ASSUME TypeOK, NEW d \in DueToken, NEW complete \in BOOLEAN
  PROVE  /\ SnapshotRow(d, complete) \in Token
         /\ row[d.id].state = "TRACKING" =>
              /\ SnapshotRow(d, complete).state \in {"TRACKING", "MIGRATED", "INACTIVE"}
              /\ SnapshotRow(d, complete).state = "TRACKING"
                   <=> SnapshotRow(d, complete).next # Unknown
<1> DEFINE interval == IntervalFor(now - d.created)
<1>1. row[d.id] \in Token /\ now \in Nat
  BY ConstantTypes DEF TypeOK, DueToken
<1>2. interval \in Nat \cup {Unknown}
  <2>1. now - d.created \in Int
    BY <1>1 DEF DueToken
  <2> QED BY <2>1, IntervalTyped
<1> DEFINE end == IF complete THEN "MIGRATED"
                  ELSE IF interval = Unknown THEN "INACTIVE" ELSE row[d.id].state
           due == IF complete \/ interval = Unknown THEN Unknown ELSE now + interval
<1>3. end \in States
  BY <1>1 DEF Token, States
<1>4. interval # Unknown => now + interval \in Nat
  BY <1>1, <1>2 DEF Unknown
<1>5. due \in Nat \cup {Unknown}
  BY <1>4
<1>6. /\ row[d.id].state = "TRACKING" =>
           end \in {"TRACKING", "MIGRATED", "INACTIVE"} /\ (end = "TRACKING" <=> due # Unknown)
  BY <1>4 DEF Unknown
<1>7. SnapshotRow(d, complete) =
        [row[d.id] EXCEPT !.last = now, !.count = row[d.id].count + 1, !.failures = 0,
                          !.state = end, !.next = due]
  BY DEF SnapshotRow
<1> HIDE DEF interval, end, due
<1>8. /\ SnapshotRow(d, complete) \in Token
      /\ SnapshotRow(d, complete).state = end /\ SnapshotRow(d, complete).next = due
  <2> DEFINE r == row[d.id]
             count == r.count + 1
  <2>1. r \in Token /\ count \in Nat /\ now \in Nat
    BY <1>1 DEF Token
  <2>2. SnapshotRow(d, complete) =
          [r EXCEPT !.last = now, !.count = count, !.failures = 0,
                    !.state = end, !.next = due]
    BY <1>7
  <2> HIDE DEF r, count
  <2> DEFINE s == [r EXCEPT !.last = now, !.count = count, !.failures = 0,
                            !.state = end, !.next = due]
  <2>3. s \in Token
    BY <1>3, <1>5, <2>1 DEF Token
  <2>4. s.state = end
    BY <2>1 DEF Token
  <2>5. s.next = due
    BY <2>1 DEF Token
  <2> QED BY <2>2, <2>3, <2>4, <2>5
<1> QED BY <1>6, <1>8

(* So is the row after a failed request.                                   *)
LEMMA FailureRowTyped ==
  ASSUME TypeOK, NEW d \in DueToken
  PROVE  /\ FailureRow(d) \in Token
         /\ row[d.id].state = "TRACKING" =>
              /\ FailureRow(d).state \in {"TRACKING", "DEAD"}
              /\ FailureRow(d).state = "TRACKING" <=> FailureRow(d).next # Unknown
<1>1. row[d.id] \in Token /\ now \in Nat /\ d.failures \in Nat
  BY ConstantTypes DEF TypeOK, DueToken
<1>2. now + RetryAfter \in Nat /\ d.failures + 1 \in Nat
  BY <1>1, ConstantTypes
<1>3. CASE d.failures + 1 >= MaxFailures
  <2>1. FailureRow(d) = [row[d.id] EXCEPT !.failures = d.failures + 1,
                                          !.state = "DEAD", !.next = Unknown]
    BY <1>3 DEF FailureRow
  <2> QED BY <1>1, <1>2, <2>1 DEF Token, States, Unknown
<1>4. CASE ~(d.failures + 1 >= MaxFailures)
  <2>1. FailureRow(d) = [row[d.id] EXCEPT !.failures = d.failures + 1,
                                          !.next = now + RetryAfter]
    BY <1>4 DEF FailureRow
  <2>2. FailureRow(d) \in Token
    BY <1>1, <1>2, <2>1 DEF Token
  <2>3. FailureRow(d).state = row[d.id].state /\ FailureRow(d).next = now + RetryAfter
    BY <1>1, <2>1 DEF Token
  <2> QED BY <1>2, <2>2, <2>3 DEF Unknown
<1> QED BY <1>3, <1>4

-----------------------------------------------------------------------------
(* Sequences.                                                              *)


(* A batch is of tokens.                                                   *)
LEMMA IdsOfBatch ==
  ASSUME TypeOK, NEW i \in 1..Len(batch)
  PROVE  batch[i].id \in Tokens
<1>1. batch[i] \in DueToken
  BY ElementOfSeq DEF TypeOK
<1> QED BY <1>1 DEF DueToken

(* A batch that is empty when no fetch is under way is current.            *)
LEMMA NoBatch ==
  ASSUME batch' = <<>>, pc' # "fetch"
  PROVE  BatchCurrent'
<1>1. Len(batch') = 0
  BY EmptySeq
<1> QED BY <1>1 DEF BatchCurrent

(* What is left of a batch when its head is done.                          *)
LEMMA RestOfBatch ==
  ASSUME TypeOK, batch # <<>>
  PROVE  /\ Head(batch) \in DueToken /\ Head(batch) = batch[1]
         /\ 1 \in 1..Len(batch)
         /\ Tail(batch) \in Seq(DueToken)
         /\ Len(Tail(batch)) = Len(batch) - 1
         /\ \A i \in 1..Len(Tail(batch)) :
              i + 1 \in 1..Len(batch) /\ Tail(batch)[i] = batch[i + 1]
         /\ Tail(batch) = <<>> <=> Len(batch) = 1
<1>1. batch \in Seq(DueToken)
  BY DEF TypeOK
<1>2. Len(batch) \in Nat \ {0}
  BY <1>1, EmptySeq, LenProperties
<1>3. /\ Head(batch) \in DueToken /\ Head(batch) = batch[1]
      /\ Tail(batch) \in Seq(DueToken)
      /\ Len(Tail(batch)) = Len(batch) - 1
  BY <1>1, HeadTailProperties
<1>4. \A i \in 1..Len(Tail(batch)) : Tail(batch)[i] = batch[i + 1]
  BY <1>1, <1>3, HeadTailProperties
<1>5. Tail(batch) = <<>> <=> Len(Tail(batch)) = 0
  BY <1>3, EmptySeq
<1> QED BY <1>2, <1>3, <1>4, <1>5

(* One row of the batch is written and the pass goes on to the next: the   *)
(* rest of the batch is untouched, because no token is in it twice.        *)
LEMMA RowWritten ==
  ASSUME Inv, pc = "fetch", Advance, NEW written \in Token,
         row' = [row EXCEPT ![Head(batch).id] = written]
  PROVE  /\ row' \in [Tokens -> Token]
         /\ batch' \in Seq(DueToken) /\ pc' \in {"idle", "fetch"}
         /\ BatchCurrent'
<1>1. batch # <<>> /\ batch' = Tail(batch)
  BY DEF Inv, BatchCurrent, Advance
<1>2. Head(batch).id \in Tokens
  BY <1>1, RestOfBatch DEF Inv, DueToken
<1>3. row' \in [Tokens -> Token]
  BY <1>2 DEF Inv, TypeOK
<1>4. \A i \in 1..Len(batch') : /\ i + 1 \in 1..Len(batch)
                                /\ batch'[i] = batch[i + 1]
                                /\ batch'[i].id # Head(batch).id
  <2> TAKE i \in 1..Len(batch')
  <2>1. i + 1 \in 1..Len(batch) /\ batch'[i] = batch[i + 1]
    BY <1>1, RestOfBatch DEF Inv
  <2>2. 1 \in 1..Len(batch) /\ Head(batch) = batch[1]
    BY <1>1, RestOfBatch DEF Inv
  <2>3. Len(batch') \in Nat
    BY <1>1, RestOfBatch, LenProperties DEF Inv
  <2>4. i + 1 # 1
    BY <2>3
  <2> QED BY <2>1, <2>2, <2>4 DEF Inv, BatchCurrent
<1>5. \A i \in 1..Len(batch') : row'[batch'[i].id].state = "TRACKING"
  <2> TAKE i \in 1..Len(batch')
  <2>1. batch'[i] \in DueToken
    BY <1>1, RestOfBatch, ElementOfSeq DEF Inv
  <2>2. row'[batch'[i].id] = row[batch'[i].id]
    BY <1>2, <1>4, <2>1 DEF Inv, TypeOK, DueToken
  <2> QED BY <1>4, <2>2 DEF Inv, BatchCurrent
<1>6. \A i, j \in 1..Len(batch') : i # j => batch'[i].id # batch'[j].id
  <2> TAKE i, j \in 1..Len(batch')
  <2>1. Len(batch') \in Nat
    BY <1>1, RestOfBatch, LenProperties DEF Inv
  <2>2. i # j => i + 1 # j + 1
    BY <2>1
  <2> QED BY <1>4, <2>2 DEF Inv, BatchCurrent
<1>7. pc' = "fetch" <=> batch' # <<>>
  BY <1>1, RestOfBatch DEF Inv, Advance
<1>8. batch' \in Seq(DueToken) /\ pc' \in {"idle", "fetch"}
  BY <1>1, RestOfBatch DEF Inv, Advance
<1> QED BY <1>3, <1>5, <1>6, <1>7, <1>8 DEF BatchCurrent

(* The batch that due() returns copies rows in tracking, each once.        *)
LEMMA BatchRead ==
  ASSUME TypeOK, ReadDue
  PROVE  /\ batch' \in Seq(DueToken) /\ pc' \in {"idle", "fetch"}
         /\ BatchCurrent'
<1>1. PICK order \in SetToAllKPermutations(DueNow) :
        /\ batch' = [i \in DOMAIN order |-> Copy(order[i])]
        /\ pc' = IF order = <<>> THEN "idle" ELSE "fetch"
  BY DEF ReadDue
<1>2. DueNow \subseteq Tokens /\ IsFiniteSet(DueNow)
  BY ConstantTypes, FS_Subset DEF DueNow, InTracking
<1>3. /\ order \in Seq(DueNow)
      /\ \A i, j \in 1..Len(order) : i # j => order[i] # order[j]
  BY <1>1, <1>2, PermutationIsSequence
<1>4. DOMAIN order = 1..Len(order) /\ Len(order) \in Nat
  BY <1>3, LenProperties
<1>5. \A t \in DueNow : Copy(t) \in DueToken /\ Copy(t).id = t /\ row[t].state = "TRACKING"
  <2> TAKE t \in DueNow
  <2>1. /\ t \in Tokens /\ row[t] \in Token
        /\ row[t].created # Unknown /\ row[t].state = "TRACKING"
    BY <1>2 DEF DueNow, InTracking, TypeOK
  <2> QED BY <2>1 DEF Copy, DueToken, Token
<1>6. \A i \in 1..Len(order) : order[i] \in DueNow
  BY <1>3, ElementOfSeq
<1>7. batch' \in Seq(DueToken) /\ Len(batch') = Len(order)
  <2>1. batch' \in [1..Len(order) -> DueToken]
    BY <1>1, <1>4, <1>5, <1>6
  <2> QED BY <1>4, <2>1, SeqDef, LenProperties
<1>8. \A i \in 1..Len(batch') : batch'[i].id = order[i]
  BY <1>1, <1>4, <1>5, <1>6, <1>7
<1>9. \A i \in 1..Len(batch') : row'[batch'[i].id].state = "TRACKING"
  BY <1>5, <1>6, <1>7, <1>8 DEF ReadDue
<1>10. \A i, j \in 1..Len(batch') : i # j => batch'[i].id # batch'[j].id
  BY <1>3, <1>7, <1>8
<1>11. pc' = "fetch" <=> batch' # <<>>
  <2>1. order = <<>> <=> Len(order) = 0
    BY <1>3, EmptySeq
  <2>2. batch' = <<>> <=> Len(batch') = 0
    BY <1>7, EmptySeq
  <2> QED BY <1>1, <1>7, <2>1, <2>2
<1> QED BY <1>1, <1>7, <1>9, <1>10, <1>11 DEF BatchCurrent

-----------------------------------------------------------------------------
(* Type correctness.                                                       *)

LEMMA InitInv == Init => Inv
<1> SUFFICES ASSUME Init PROVE Inv
  OBVIOUS
<1>1. NoToken \in Token
  BY DEF NoToken, Token, States, Unknown
<1>2. now \in 0..MaxTime /\ crashes \in 0..MaxCrashes
  BY ConstantTypes DEF Init
<1>3. batch \in Seq(DueToken) /\ Len(batch) = 0 /\ batch = <<>>
  BY EmptySeq DEF Init
<1>4. BatchCurrent
  BY <1>3 DEF Init, BatchCurrent
<1> QED BY <1>1, <1>2, <1>3, <1>4 DEF Init, Inv, TypeOK

(* Every commit of the pass, and every step around it, keeps the columns   *)
(* typed and the batch current.                                            *)
LEMMA StepInv == Inv /\ [Next]_vars => Inv'
<1> SUFFICES ASSUME Inv, [Next]_vars PROVE Inv'
  OBVIOUS
<1>0. TypeOK /\ BatchCurrent
  BY DEF Inv
<1>1. CASE Tick
  BY <1>0, <1>1, ConstantTypes DEF Tick, Inv, TypeOK, BatchCurrent
<1>2. ASSUME NEW t \in Tokens, Discover(t) PROVE Inv'
  <2>1. PICK c \in Creations \cup {Unknown} :
          row' = [row EXCEPT ![t].state = "DISCOVERED", ![t].created = c]
    BY <1>2 DEF Discover
  <2>2. c \in Nat \cup {Unknown} /\ row[t] \in Token
    BY <1>0, <2>1, ConstantTypes DEF Creations, TypeOK
  <2>3. row' \in [Tokens -> Token]
    BY <1>0, <2>1, <2>2 DEF TypeOK, Token, States
  <2>4. \A i \in 1..Len(batch) : row'[batch[i].id].state = "TRACKING"
    <3> TAKE i \in 1..Len(batch)
    <3>1. batch[i].id \in Tokens /\ batch[i].id # t
      BY <1>0, <1>2, IdsOfBatch DEF BatchCurrent, Discover
    <3>2. row'[batch[i].id] = row[batch[i].id]
      BY <1>0, <2>1, <3>1 DEF TypeOK
    <3> QED BY <1>0, <3>2 DEF BatchCurrent
  <2> QED BY <1>0, <1>2, <2>3, <2>4 DEF Discover, Inv, TypeOK, BatchCurrent
<1>3. ASSUME NEW t \in Tokens, Backfill(t) PROVE Inv'
  <2>1. PICK c \in Creations : row' = [row EXCEPT ![t].created = c]
    BY <1>3 DEF Backfill
  <2>2. c \in Nat /\ row[t] \in Token
    BY <1>0, <2>1, ConstantTypes DEF Creations, TypeOK
  <2>3. row' \in [Tokens -> Token] /\ \A u \in Tokens : row'[u].state = row[u].state
    BY <1>0, <2>1, <2>2 DEF TypeOK, Token
  <2>4. \A i \in 1..Len(batch) : batch[i].id \in Tokens
    BY <1>0, IdsOfBatch
  <2>5. BatchCurrent'
    BY <1>0, <1>3, <2>3, <2>4 DEF Backfill, BatchCurrent
  <2> QED BY <1>0, <1>3, <2>3, <2>5 DEF Backfill, Inv, TypeOK
<1>4. CASE RetireOverdue
  <2>1. \A t \in Tokens : row'[t] \in Token
    BY <1>0, <1>4 DEF RetireOverdue, TypeOK, Token, States
  <2>2. row' \in [Tokens -> Token]
    BY <1>4, <2>1 DEF RetireOverdue
  <2>3. batch = <<>>
    BY <1>0, <1>4 DEF RetireOverdue, BatchCurrent
  <2>4. BatchCurrent'
    BY <1>4, <2>3, NoBatch DEF RetireOverdue
  <2>5. pc' = "admit" /\ UNCHANGED <<now, series, batch, streak, crashes>>
    BY <1>4 DEF RetireOverdue
  <2> QED BY <1>0, <2>2, <2>4, <2>5 DEF Inv, TypeOK
<1>5. CASE Admit
  <2>1. PICK S \in SUBSET Eligible :
          row' = [t \in Tokens |-> IF t \in S THEN AdmitRow(t) ELSE row[t]]
    BY <1>5 DEF Admit
  <2>2. now \in Nat
    BY <1>0, ConstantTypes DEF TypeOK
  <2>3. \A t \in Tokens : row'[t] \in Token
    BY <1>0, <2>1, <2>2 DEF AdmitRow, TypeOK, Token, States
  <2>4. row' \in [Tokens -> Token]
    BY <2>1, <2>3
  <2>5. batch = <<>>
    BY <1>0, <1>5 DEF Admit, BatchCurrent
  <2>6. BatchCurrent'
    BY <1>5, <2>5, NoBatch DEF Admit
  <2> QED BY <1>0, <1>5, <2>4, <2>6 DEF Admit, Inv, TypeOK
<1>6. CASE ReadDue
  BY <1>0, <1>6, BatchRead DEF ReadDue, Inv, TypeOK
<1>7. CASE RecordSnapshot
  <2>1. PICK complete \in BOOLEAN :
          row' = [row EXCEPT ![Head(batch).id] = SnapshotRow(Head(batch), complete)]
    BY <1>7 DEF RecordSnapshot
  <2>2. pc = "fetch" /\ Advance /\ Head(batch) \in DueToken
    BY <1>0, <1>7, RestOfBatch DEF RecordSnapshot, BatchCurrent
  <2>3. /\ row' \in [Tokens -> Token] /\ BatchCurrent'
        /\ batch' \in Seq(DueToken) /\ pc' \in {"idle", "fetch"}
    BY <1>0, <2>1, <2>2, SnapshotRowTyped, RowWritten
  <2>4. series' \in [Tokens -> SUBSET (0..MaxTime)] /\ streak' \in [Tokens -> Nat]
    BY <1>0, <1>7, <2>2 DEF RecordSnapshot, TypeOK, DueToken
  <2> QED BY <1>0, <2>2, <2>3, <2>4 DEF Advance, Inv, TypeOK
<1>8. CASE RecordFailure
  <2>1. pc = "fetch" /\ Advance /\ Head(batch) \in DueToken
    BY <1>0, <1>8, RestOfBatch DEF RecordFailure, BatchCurrent
  <2>2. /\ row' \in [Tokens -> Token] /\ BatchCurrent'
        /\ batch' \in Seq(DueToken) /\ pc' \in {"idle", "fetch"}
    BY <1>0, <1>8, <2>1, FailureRowTyped, RowWritten DEF RecordFailure
  <2>3. streak' \in [Tokens -> Nat]
    BY <1>0, <1>8, <2>1 DEF RecordFailure, TypeOK, DueToken
  <2> QED BY <1>0, <1>8, <2>1, <2>2, <2>3 DEF RecordFailure, Advance, Inv, TypeOK
<1>9. CASE RateLimited \/ Crash
  <2>1. batch' \in Seq(DueToken)
    BY <1>9, EmptySeq DEF RateLimited, Crash
  <2>2. BatchCurrent'
    BY <1>9, NoBatch DEF RateLimited, Crash
  <2>3. crashes' \in 0..MaxCrashes
    BY <1>0, <1>9, ConstantTypes DEF RateLimited, Crash, TypeOK
  <2> QED BY <1>0, <1>9, <2>1, <2>2, <2>3 DEF RateLimited, Crash, Inv, TypeOK
<1>10. CASE UNCHANGED vars
  BY <1>0, <1>10 DEF vars, Inv, TypeOK, BatchCurrent
<1> QED
  BY <1>1, <1>2, <1>3, <1>4, <1>5, <1>6, <1>7, <1>8, <1>9, <1>10 DEF Next, Loop

LEMMA AlwaysInv == Spec => []Inv
BY InitInv, StepInv, PTL DEF Spec

(* Type correctness, for any tokens, tiers, batch size and crashes.        *)
THEOREM TypeCorrect == Spec => []TypeOK
<1>1. Inv => TypeOK
  BY DEF Inv
<1> QED BY <1>1, AlwaysInv, PTL

(* A row that was copied into a batch is still in tracking, unchanged in   *)
(* its membership, when its turn comes.                                    *)
THEOREM BatchStaysCurrent == Spec => []BatchCurrent
<1>1. Inv => BatchCurrent
  BY DEF Inv
<1> QED BY <1>1, AlwaysInv, PTL

-----------------------------------------------------------------------------
(* A slot is held exactly by the scheduled.                                *)

LEMMA StepSlot ==
  ASSUME Inv, SlotIffScheduled, [Next]_vars
  PROVE  SlotIffScheduled'
<1>0. TypeOK /\ BatchCurrent
  BY DEF Inv
<1>1. CASE Tick \/ ReadDue \/ RateLimited \/ Crash \/ UNCHANGED vars
  BY <1>1 DEF Tick, ReadDue, RateLimited, Crash, vars, SlotIffScheduled
<1>2. ASSUME NEW t \in Tokens, Discover(t) PROVE SlotIffScheduled'
  <2>1. PICK c \in Creations \cup {Unknown} :
          row' = [row EXCEPT ![t].state = "DISCOVERED", ![t].created = c]
    BY <1>2 DEF Discover
  <2>2. row[t] \in Token /\ row[t].state # "TRACKING"
    BY <1>0, <1>2 DEF TypeOK, Discover
  <2>3. row'[t].state = "DISCOVERED" /\ row'[t].next = row[t].next
    BY <1>0, <2>1, <2>2 DEF TypeOK, Token
  <2>4. \A u \in Tokens \ {t} : row'[u] = row[u]
    BY <1>0, <2>1 DEF TypeOK
  <2> QED BY <2>2, <2>3, <2>4 DEF SlotIffScheduled
<1>3. ASSUME NEW t \in Tokens, Backfill(t) PROVE SlotIffScheduled'
  <2>1. PICK c \in Creations : row' = [row EXCEPT ![t].created = c]
    BY <1>3 DEF Backfill
  <2>2. \A u \in Tokens : row'[u].state = row[u].state /\ row'[u].next = row[u].next
    BY <1>0, <2>1 DEF TypeOK, Token
  <2> QED BY <2>2 DEF SlotIffScheduled
<1>4. CASE RetireOverdue
  <2>1. \A t \in Overdue : row[t] \in Token
    BY <1>0 DEF Overdue, InTracking, TypeOK
  <2>2. \A t \in Overdue : row'[t].state = "INACTIVE" /\ row'[t].next = Unknown
    BY <1>4, <2>1 DEF RetireOverdue, Overdue, InTracking, Token
  <2>3. \A t \in Tokens \ Overdue : row'[t] = row[t]
    BY <1>4 DEF RetireOverdue
  <2> QED BY <2>2, <2>3 DEF SlotIffScheduled
<1>5. CASE Admit
  <2>1. PICK S \in SUBSET Eligible :
          row' = [t \in Tokens |-> IF t \in S THEN AdmitRow(t) ELSE row[t]]
    BY <1>5 DEF Admit
  <2>2. \A t \in S : t \in Tokens /\ row[t] \in Token
    BY <1>0 DEF Eligible, TypeOK
  <2>3. \A t \in S : row'[t].state = "TRACKING" /\ row'[t].next = now
    BY <2>1, <2>2 DEF AdmitRow, Token
  <2>4. now # Unknown
    BY <1>0, ConstantTypes DEF TypeOK, Unknown
  <2>5. \A t \in Tokens \ S : row'[t] = row[t]
    BY <2>1
  <2> QED BY <2>3, <2>4, <2>5 DEF SlotIffScheduled
<1>6. CASE RecordSnapshot \/ RecordFailure
  <2>1. batch # <<>> /\ Head(batch) \in DueToken /\ Head(batch).id \in Tokens
    BY <1>0, <1>6, RestOfBatch DEF RecordSnapshot, RecordFailure, BatchCurrent, DueToken
  <2>2. row[Head(batch).id].state = "TRACKING"
    BY <1>0, <2>1, RestOfBatch DEF BatchCurrent
  <2>3. PICK r : /\ row' = [row EXCEPT ![Head(batch).id] = r]
                 /\ r.state = "TRACKING" <=> r.next # Unknown
    BY <1>0, <1>6, <2>1, <2>2, SnapshotRowTyped, FailureRowTyped
       DEF RecordSnapshot, RecordFailure
  <2>4. /\ row'[Head(batch).id] = r
        /\ \A u \in Tokens \ {Head(batch).id} : row'[u] = row[u]
    BY <1>0, <2>1, <2>3 DEF TypeOK
  <2> QED BY <2>3, <2>4 DEF SlotIffScheduled
<1> QED BY <1>1, <1>2, <1>3, <1>4, <1>5, <1>6 DEF Next, Loop

(* However a token enters and leaves its slot, it has a next snapshot      *)
(* exactly as long as it holds one.                                        *)
THEOREM SlotMeansScheduled == Spec => []SlotIffScheduled
<1>1. Init => SlotIffScheduled
  BY DEF Init, NoToken, SlotIffScheduled
<1>2. Inv /\ SlotIffScheduled /\ [Next]_vars => SlotIffScheduled'
  BY StepSlot
<1> QED BY <1>1, <1>2, AlwaysInv, PTL DEF Spec

-----------------------------------------------------------------------------
(* The rows live the life of TokenLifecycle.                               *)

(* The two modules count alike.                                            *)
LEMMA SameCount == \A S : Life!Cardinality(S) = Cardinality(S)
BY DEF Life!Cardinality, Cardinality

LifeOfRows == [t \in Tokens |-> row[t].state]

(* The set an Admit step takes fits beside what is in tracking already:    *)
(* there are that many slots left, or it is empty.                         *)
LEMMA AdmittedFit ==
  ASSUME TypeOK, NEW S \in SUBSET Eligible, S # {},
         Cardinality(S) = Min({Slots, Cardinality(Eligible)})
  PROVE  Cardinality(InTracking \cup S) <= MaxConcurrent
<1>1. /\ IsFiniteSet(InTracking) /\ IsFiniteSet(Eligible) /\ IsFiniteSet(S)
      /\ IsFiniteSet(InTracking \cap S)
  BY ConstantTypes, FS_Subset DEF InTracking, Eligible
<1>2. /\ Cardinality(InTracking) \in Nat /\ Cardinality(Eligible) \in Nat
      /\ Cardinality(S) \in Nat /\ Cardinality(InTracking \cap S) \in Nat
  BY <1>1, FS_CardinalityType
<1>3. Cardinality(S) # 0
  BY <1>1, FS_EmptySet
<1>4. /\ Slots \in {0, MaxConcurrent - Cardinality(InTracking)}
      /\ Slots \in Int
  <2> DEFINE left == MaxConcurrent - Cardinality(InTracking)
  <2>1. left \in Int
    BY <1>2, ConstantTypes
  <2> HIDE DEF left
  <2>2. \E x \in {0, left} : \A y \in {0, left} : x >= y
    BY <2>1
  <2>3. Max({0, left}) \in {0, left}
    BY <2>2 DEF Max
  <2> QED BY <2>1, <2>3 DEF Slots, left
<1>5. Cardinality(S) <= Slots
  <2> DEFINE n == Cardinality(Eligible)
  <2>1. Slots \in Int /\ n \in Int
    BY <1>2, <1>4
  <2> HIDE DEF n
  <2>2. \E x \in {Slots, n} : \A y \in {Slots, n} : x =< y
    BY <2>1
  <2>3. \A y \in {Slots, n} : Min({Slots, n}) =< y
    BY <2>2 DEF Min
  <2> QED BY <2>3 DEF n
<1>6. Slots = MaxConcurrent - Cardinality(InTracking)
  BY <1>2, <1>3, <1>4, <1>5
<1>7. Cardinality(InTracking \cup S)
        = Cardinality(InTracking) + Cardinality(S) - Cardinality(InTracking \cap S)
  BY <1>1, FS_Union
<1> QED BY <1>2, <1>5, <1>6, <1>7, ConstantTypes

(* A row written for one token in tracking keeps it there or ends its life. *)
LEMMA WrittenRowLives ==
  ASSUME TypeOK, NEW t \in Tokens, row[t].state = "TRACKING",
         NEW r, row' = [row EXCEPT ![t] = r],
         r.state \in {"TRACKING", "MIGRATED", "INACTIVE", "DEAD"}
  PROVE  [Life!LifeNext]_LifeOfRows
<1>1. /\ row'[t] = r
      /\ \A u \in Tokens \ {t} : row'[u] = row[u]
  BY DEF TypeOK
<1>2. CASE r.state = "TRACKING"
  BY <1>1, <1>2 DEF LifeOfRows
<1>3. CASE r.state # "TRACKING"
  <2>1. LifeOfRows' = [u \in Tokens |-> IF u \in {t} THEN r.state ELSE LifeOfRows[u]]
    BY <1>1 DEF LifeOfRows
  <2>2. {t} # {} /\ {t} \subseteq Life!InSlot
    BY DEF Life!InSlot
  <2>3. Life!Released({t})
    BY <1>3, <2>1, <2>2 DEF Life!Released, LifeOfRows
  <2> QED BY <2>3 DEF Life!LifeNext
<1> QED BY <1>2, <1>3

(* Every step of Tracking is a step of a life, or changes no state.        *)
LEMMA StepLife ==
  ASSUME Inv, [Next]_vars
  PROVE  [Life!LifeNext]_LifeOfRows
<1>0. TypeOK /\ BatchCurrent
  BY DEF Inv
<1>1. CASE Tick \/ ReadDue \/ RateLimited \/ Crash \/ UNCHANGED vars
  BY <1>1 DEF Tick, ReadDue, RateLimited, Crash, vars, LifeOfRows
<1>2. ASSUME NEW t \in Tokens, Discover(t) PROVE [Life!LifeNext]_LifeOfRows
  <2>1. PICK c \in Creations \cup {Unknown} :
          row' = [row EXCEPT ![t].state = "DISCOVERED", ![t].created = c]
    BY <1>2 DEF Discover
  <2>2. row[t] \in Token /\ row[t].state = "ABSENT"
    BY <1>0, <1>2 DEF TypeOK, Discover
  <2>3. /\ row'[t].state = "DISCOVERED"
        /\ \A u \in Tokens \ {t} : row'[u] = row[u]
    BY <1>0, <2>1, <2>2 DEF TypeOK, Token
  <2>4. LifeOfRows' = [LifeOfRows EXCEPT ![t] = "DISCOVERED"]
    BY <2>3 DEF LifeOfRows
  <2>5. Life!Sighted(t)
    BY <2>2, <2>4 DEF Life!Sighted, LifeOfRows
  <2> QED BY <2>5 DEF Life!LifeNext
<1>3. ASSUME NEW t \in Tokens, Backfill(t) PROVE [Life!LifeNext]_LifeOfRows
  <2>1. PICK c \in Creations : row' = [row EXCEPT ![t].created = c]
    BY <1>3 DEF Backfill
  <2>2. \A u \in Tokens : row'[u].state = row[u].state
    BY <1>0, <2>1 DEF TypeOK, Token
  <2> QED BY <2>2 DEF LifeOfRows
<1>4. CASE RetireOverdue
  <2>1. \A t \in Overdue : row[t] \in Token /\ row[t].state = "TRACKING" /\ t \in Tokens
    BY <1>0 DEF Overdue, InTracking, TypeOK
  <2>2. \A t \in Tokens : row'[t].state = IF t \in Overdue THEN "INACTIVE" ELSE row[t].state
    BY <1>4, <2>1 DEF RetireOverdue, Token
  <2>3. LifeOfRows' = [t \in Tokens |-> IF t \in Overdue THEN "INACTIVE" ELSE LifeOfRows[t]]
    BY <2>2 DEF LifeOfRows
  <2>4. CASE Overdue = {}
    BY <2>2, <2>4 DEF LifeOfRows
  <2>5. CASE Overdue # {}
    <3>1. PICK S \in SUBSET Tokens : S = Overdue
      BY <2>1
    <3>2. S \subseteq Life!InSlot
      BY <2>1, <3>1 DEF Life!InSlot
    <3>3. Life!Released(S)
      BY <2>3, <2>5, <3>1, <3>2 DEF Life!Released, LifeOfRows
    <3> QED BY <3>3 DEF Life!LifeNext
  <2> QED BY <2>4, <2>5
<1>5. CASE Admit
  <2>1. PICK S \in SUBSET Eligible :
          /\ Cardinality(S) = Min({Slots, Cardinality(Eligible)})
          /\ row' = [t \in Tokens |-> IF t \in S THEN AdmitRow(t) ELSE row[t]]
    BY <1>5 DEF Admit
  <2>2. \A t \in S : t \in Tokens /\ row[t] \in Token /\ row[t].state = "DISCOVERED"
    BY <1>0 DEF Eligible, TypeOK
  <2>3. \A t \in Tokens : row'[t].state = IF t \in S THEN "TRACKING" ELSE row[t].state
    BY <2>1, <2>2 DEF AdmitRow, Token
  <2>4. LifeOfRows' = [t \in Tokens |-> IF t \in S THEN "TRACKING" ELSE LifeOfRows[t]]
    BY <2>3 DEF LifeOfRows
  <2>5. CASE S = {}
    BY <2>3, <2>5 DEF LifeOfRows
  <2>6. CASE S # {}
    <3>1. Life!InSlot = InTracking
      BY DEF Life!InSlot, InTracking
    <3>2. Life!Cardinality(Life!InSlot \cup S) <= MaxConcurrent
      BY <1>0, <2>1, <2>6, <3>1, AdmittedFit, SameCount
    <3>3. Life!Admitted(S)
      <4>1. \A t \in S : LifeOfRows[t] = "DISCOVERED"
        BY <2>2 DEF LifeOfRows
      <4> QED BY <2>4, <2>6, <3>2, <4>1, Zenon DEF Life!Admitted, LifeOfRows
    <3>4. S \in SUBSET Tokens
      BY <2>2
    <3> QED BY <3>3, <3>4 DEF Life!LifeNext
  <2> QED BY <2>5, <2>6
<1>6. CASE RecordSnapshot \/ RecordFailure
  <2>1. batch # <<>> /\ Head(batch) \in DueToken /\ Head(batch).id \in Tokens
    BY <1>0, <1>6, RestOfBatch DEF RecordSnapshot, RecordFailure, BatchCurrent, DueToken
  <2>2. row[Head(batch).id].state = "TRACKING"
    BY <1>0, <2>1, RestOfBatch DEF BatchCurrent
  <2>3. PICK r : /\ row' = [row EXCEPT ![Head(batch).id] = r]
                 /\ r.state \in {"TRACKING", "MIGRATED", "INACTIVE", "DEAD"}
    BY <1>0, <1>6, <2>1, <2>2, SnapshotRowTyped, FailureRowTyped
       DEF RecordSnapshot, RecordFailure
  <2> QED BY <1>0, <2>1, <2>2, <2>3, WrittenRowLives
<1> QED BY <1>1, <1>2, <1>3, <1>4, <1>5, <1>6 DEF Next, Loop

(* Refinement: whatever is batched, retried, restarted or discovered in    *)
(* between, the rows live the life that TokenLifecycle promises.           *)
THEOREM RowsLiveOneLife == Spec => Lifecycle
<1>1. Init => Life!LifeInit
  BY DEF Init, NoToken, Life!LifeInit
<1>2. Inv /\ [Next]_vars => [Life!LifeNext]_LifeOfRows
  BY StepLife
<1> QED BY <1>1, <1>2, AlwaysInv, PTL DEF Spec, Lifecycle, Life!LifeSpec, LifeOfRows

-----------------------------------------------------------------------------
(* The budget, which the lives of all tokens keep together.                *)

(* No step of a life takes more slots than there are.                      *)
LEMMA LifeKeepsCapacity ==
  ASSUME CapacityHeld, [Life!LifeNext]_LifeOfRows
  PROVE  CapacityHeld'
<1>1. InTracking = Life!InSlot /\ InTracking' = Life!InSlot'
  BY DEF InTracking, Life!InSlot
<1>2. IsFiniteSet(InTracking)
  BY ConstantTypes, FS_Subset DEF InTracking
<1>3. InTracking' \subseteq InTracking => CapacityHeld'
  <2>1. ASSUME InTracking' \subseteq InTracking
        PROVE  Cardinality(InTracking') <= Cardinality(InTracking)
    BY <1>2, <2>1, FS_Subset
  <2>2. /\ Cardinality(InTracking) \in Nat
        /\ InTracking' \subseteq InTracking => Cardinality(InTracking') \in Nat
    BY <1>2, FS_Subset, FS_CardinalityType
  <2> QED BY <2>1, <2>2, ConstantTypes DEF CapacityHeld
<1>4. CASE UNCHANGED LifeOfRows
  <2>1. \A t \in Tokens : row'[t].state = row[t].state
    BY <1>4 DEF LifeOfRows
  <2> QED BY <1>3, <2>1 DEF InTracking
<1>5. ASSUME NEW t \in Tokens, Life!Sighted(t) PROVE CapacityHeld'
  <2>1. \A u \in Tokens : row'[u].state = IF u = t THEN "DISCOVERED" ELSE row[u].state
    BY <1>5 DEF Life!Sighted
  <2> QED BY <1>3, <2>1 DEF InTracking
<1>6. ASSUME NEW S \in SUBSET Tokens, Life!Admitted(S) PROVE CapacityHeld'
  <2>1. \A t \in Tokens : row'[t].state = IF t \in S THEN "TRACKING" ELSE row[t].state
    BY <1>6 DEF Life!Admitted
  <2>2. InTracking' = InTracking \cup S
    BY <2>1 DEF InTracking
  <2>3. Cardinality(Life!InSlot \cup S) <= MaxConcurrent
    BY <1>6, SameCount DEF Life!Admitted
  <2>4. Cardinality(InTracking') <= MaxConcurrent
    BY <1>1, <2>2, <2>3
  <2> QED BY <2>4 DEF CapacityHeld
<1>7. ASSUME NEW S \in SUBSET Tokens, Life!Released(S) PROVE CapacityHeld'
  <2>1. PICK end \in {"MIGRATED", "INACTIVE", "DEAD"} :
          \A t \in Tokens : row'[t].state = IF t \in S THEN end ELSE row[t].state
    BY <1>7 DEF Life!Released
  <2> QED BY <1>3, <2>1 DEF InTracking
<1> QED BY <1>4, <1>5, <1>6, <1>7 DEF Life!LifeNext

(* Never more tokens in tracking than max_concurrent, for any tokens.      *)
THEOREM CapacityAlwaysHeld == Spec => []CapacityHeld
<1>1. Init => CapacityHeld
  <2> SUFFICES ASSUME Init PROVE CapacityHeld
    OBVIOUS
  <2>1. InTracking = {}
    BY DEF Init, NoToken, InTracking
  <2> QED BY <2>1, FS_EmptySet, ConstantTypes DEF CapacityHeld
<1>2. Inv /\ CapacityHeld /\ [Next]_vars => CapacityHeld'
  BY StepLife, LifeKeepsCapacity
<1> QED BY <1>1, <1>2, AlwaysInv, PTL DEF Spec

(* Whatever the batches, failures and restarts: a slot is held exactly by  *)
(* a scheduled token, and never more than max_concurrent of them.          *)
THEOREM SlotsAlwaysAccounted == Spec => []SlotsAccounted
BY CapacityAlwaysHeld, SlotMeansScheduled, PTL DEF SlotsAccounted

-----------------------------------------------------------------------------
(* What a step does to the history of one token.                           *)

(* The copies in a batch are still true of their rows, and still due.      *)
CopiesCurrent ==
  \A i \in 1..Len(batch) :
    /\ batch[i].created = row[batch[i].id].created
    /\ batch[i].failures = row[batch[i].id].failures
    /\ row[batch[i].id].next <= now

(* A series is in the past, and only of tokens that were admitted, whose   *)
(* creation time is known from then on.                                    *)
SeriesPast ==
  \A t \in Tokens :
    /\ \A s \in series[t] : s <= now
    /\ row[t].state \in {"ABSENT", "DISCOVERED"} => series[t] = {}
    /\ series[t] # {} \/ row[t].state = "TRACKING" => row[t].created # Unknown

SameHistory(t) == series'[t] = series[t] /\ streak'[t] = streak[t]

Untouched(t) == row'[t] = row[t] /\ SameHistory(t)

(* Discovered, or its creation time filled in.                             *)
LearntOf(t) ==
  /\ SameHistory(t)
  /\ row[t].state = "ABSENT" \/ row[t].created = Unknown
  /\ \/ row'[t].state = row[t].state
     \/ row[t].state = "ABSENT" /\ row'[t].state = "DISCOVERED"
  /\ row'[t].failures = row[t].failures /\ row'[t].next = row[t].next

(* Retired for its age.                                                    *)
AgedOut(t) ==
  /\ SameHistory(t)
  /\ row'[t].state = "INACTIVE" /\ row'[t].created = row[t].created

(* Admitted, and due at once.                                              *)
Entered(t) ==
  /\ SameHistory(t)
  /\ row[t].state = "DISCOVERED" /\ row'[t].state = "TRACKING"
  /\ row'[t].next = now
  /\ row[t].created # Unknown /\ row'[t].created = row[t].created
  /\ row'[t].failures = row[t].failures

(* A snapshot of it was recorded.                                          *)
Observed(t) ==
  /\ batch # <<>> /\ batch' = Tail(batch)
  /\ t = Head(batch).id /\ row[t].state = "TRACKING"
  /\ series'[t] = series[t] \cup {now} /\ streak'[t] = 0
  /\ row'[t].created = row[t].created /\ row'[t].failures = 0
  /\ row'[t].state \in {"TRACKING", "MIGRATED", "INACTIVE"}
  /\ row'[t].state = "TRACKING" =>
       /\ IntervalFor(now - row[t].created) \in Nat \ {0}
       /\ row'[t].next = now + IntervalFor(now - row[t].created)

(* A request for it failed.                                                *)
Missed(t) ==
  /\ batch # <<>> /\ batch' = Tail(batch)
  /\ t = Head(batch).id /\ row[t].state = "TRACKING"
  /\ series'[t] = series[t] /\ streak'[t] = streak[t] + 1
  /\ row'[t].created = row[t].created
  /\ row'[t].failures = row[t].failures + 1
  /\ \/ row'[t].state = "DEAD" /\ row'[t].failures >= MaxFailures
     \/ /\ row'[t].state = "TRACKING" /\ row'[t].failures < MaxFailures
        /\ row'[t].next = now + RetryAfter

Served(t) == Observed(t) \/ Missed(t)

(* An interval that is known is a positive number.                         *)
LEMMA IntervalPositive ==
  ASSUME NEW age \in Int
  PROVE  IntervalFor(age) \in Nat \ {0} \/ IntervalFor(age) = Unknown
<1> DEFINE every == [EARLY |-> EarlyEvery, MEDIUM |-> MediumEvery,
                     NORMAL |-> NormalEvery, LONG |-> LongEvery, RETIRED |-> Unknown]
<1>1. \A tier \in {"EARLY", "MEDIUM", "NORMAL", "LONG", "RETIRED"} :
        every[tier] \in Nat \ {0} \/ every[tier] = Unknown
  BY ConstantTypes DEF Unknown
<1> QED BY <1>1, TierTyped DEF IntervalFor

(* The head of the batch: a token in tracking, and its copy is current.    *)
LEMMA HeadOfBatch ==
  ASSUME Inv, CopiesCurrent, pc = "fetch"
  PROVE  /\ batch # <<>> /\ Head(batch) \in DueToken
         /\ Head(batch).id \in Tokens
         /\ row[Head(batch).id].state = "TRACKING"
         /\ row[Head(batch).id].created = Head(batch).created
         /\ row[Head(batch).id].failures = Head(batch).failures
         /\ row[Head(batch).id].next <= now
<1>1. TypeOK /\ batch # <<>>
  BY DEF Inv, BatchCurrent
<1>2. Head(batch) \in DueToken /\ Head(batch) = batch[1] /\ 1 \in 1..Len(batch)
  BY <1>1, RestOfBatch
<1>3. Head(batch).id \in Tokens
  BY <1>2 DEF DueToken
<1> QED BY <1>1, <1>2, <1>3 DEF Inv, BatchCurrent, CopiesCurrent

(* Recording a snapshot observes the head of the batch.                    *)
LEMMA SnapshotObserves ==
  ASSUME Inv, CopiesCurrent, RecordSnapshot
  PROVE  /\ Observed(Head(batch).id)
         /\ \A u \in Tokens \ {Head(batch).id} : Untouched(u)
<1> DEFINE d == Head(batch)
           r == row[d.id]
           interval == IntervalFor(now - d.created)
<1>1. pc = "fetch" /\ batch' = Tail(batch) /\ TypeOK
  BY DEF RecordSnapshot, Advance, Inv
<1>2. /\ batch # <<>> /\ d \in DueToken /\ d.id \in Tokens
      /\ r.state = "TRACKING" /\ r.created = d.created
  BY <1>1, HeadOfBatch
<1>3. PICK complete \in BOOLEAN : row' = [row EXCEPT ![d.id] = SnapshotRow(d, complete)]
  BY DEF RecordSnapshot
<1>4. r \in Token /\ now \in Nat /\ d.created \in Nat
  BY <1>1, <1>2, ConstantTypes DEF TypeOK, DueToken
<1>5. interval \in Nat \ {0} \/ interval = Unknown
  <2>1. now - d.created \in Int
    BY <1>4
  <2> QED BY <2>1, IntervalPositive
<1> DEFINE end == IF complete THEN "MIGRATED"
                  ELSE IF interval = Unknown THEN "INACTIVE" ELSE r.state
           due == IF complete \/ interval = Unknown THEN Unknown ELSE now + interval
<1>6. row'[d.id] = [r EXCEPT !.last = now, !.count = r.count + 1, !.failures = 0,
                             !.state = end, !.next = due]
  BY <1>1, <1>2, <1>3 DEF TypeOK, SnapshotRow
<1>7. /\ row'[d.id].state = end /\ row'[d.id].next = due
      /\ row'[d.id].created = r.created /\ row'[d.id].failures = 0
  <2> HIDE DEF end, due, r
  <2> QED BY <1>4, <1>6 DEF Token
<1>8. end \in {"TRACKING", "MIGRATED", "INACTIVE"}
  BY <1>2
<1>9. end = "TRACKING" => interval \in Nat \ {0} /\ due = now + interval
  BY <1>5 DEF Unknown
<1>10. series'[d.id] = series[d.id] \cup {now} /\ streak'[d.id] = 0
  BY <1>1, <1>2 DEF RecordSnapshot, TypeOK
<1>11. \A u \in Tokens \ {d.id} : Untouched(u)
  BY <1>1, <1>2, <1>3 DEF RecordSnapshot, TypeOK, Untouched, SameHistory
<1>12. Observed(d.id)
  <2> HIDE DEF end, due, interval
  <2>1. row'[d.id].state = "TRACKING" =>
          interval \in Nat \ {0} /\ row'[d.id].next = now + interval
    BY <1>7, <1>9
  <2>2. interval = IntervalFor(now - r.created)
    BY <1>2 DEF interval
  <2> QED BY <1>1, <1>2, <1>7, <1>8, <1>10, <2>1, <2>2 DEF Observed
<1> QED BY <1>11, <1>12

(* Recording a failure misses the head of the batch.                       *)
LEMMA FailureMisses ==
  ASSUME Inv, CopiesCurrent, RecordFailure
  PROVE  /\ Missed(Head(batch).id)
         /\ \A u \in Tokens \ {Head(batch).id} : Untouched(u)
<1> DEFINE d == Head(batch)
           r == row[d.id]
<1>1. pc = "fetch" /\ batch' = Tail(batch) /\ TypeOK
  BY DEF RecordFailure, Advance, Inv
<1>2. /\ batch # <<>> /\ d \in DueToken /\ d.id \in Tokens
      /\ r.state = "TRACKING" /\ r.failures = d.failures
  BY <1>1, HeadOfBatch
<1>3. r \in Token /\ now \in Nat /\ r.failures \in Nat
  BY <1>1, <1>2, ConstantTypes DEF TypeOK, Token
<1>4. row'[d.id] = FailureRow(d)
  BY <1>1, <1>2 DEF RecordFailure, TypeOK
<1>5. /\ row'[d.id].created = r.created
      /\ row'[d.id].failures = r.failures + 1
      /\ \/ row'[d.id].state = "DEAD" /\ r.failures + 1 >= MaxFailures
         \/ /\ row'[d.id].state = "TRACKING" /\ r.failures + 1 < MaxFailures
            /\ row'[d.id].next = now + RetryAfter
  <2>1. CASE r.failures + 1 >= MaxFailures
    <3>1. FailureRow(d) = [r EXCEPT !.failures = r.failures + 1,
                                    !.state = "DEAD", !.next = Unknown]
      BY <1>2, <2>1 DEF FailureRow
    <3> HIDE DEF r, d
    <3> QED BY <1>3, <1>4, <2>1, <3>1 DEF Token
  <2>2. CASE r.failures + 1 < MaxFailures
    <3>1. FailureRow(d) = [r EXCEPT !.failures = r.failures + 1, !.next = now + RetryAfter]
      BY <1>2, <1>3, <2>2, ConstantTypes DEF FailureRow
    <3> HIDE DEF r, d
    <3> QED BY <1>2, <1>3, <1>4, <2>2, <3>1 DEF Token
  <2> QED BY <1>3, <2>1, <2>2, ConstantTypes
<1>6. series'[d.id] = series[d.id] /\ streak'[d.id] = streak[d.id] + 1
  BY <1>1, <1>2 DEF RecordFailure, TypeOK
<1>7. \A u \in Tokens \ {d.id} : Untouched(u)
  BY <1>1, <1>2 DEF RecordFailure, TypeOK, Untouched, SameHistory
<1>8. Missed(d.id)
  BY <1>1, <1>2, <1>5, <1>6 DEF Missed
<1> QED BY <1>7, <1>8

(* The four kinds of step.                                                 *)
Learning ==
  /\ now' >= now
  /\ \A t \in Tokens : Untouched(t) \/ LearntOf(t)
  /\ batch' = batch \/ batch' = <<>>

Rearranging ==
  /\ now' = now /\ batch' = <<>>
  /\ \A t \in Tokens : Untouched(t) \/ AgedOut(t) \/ Entered(t)

Reading == ReadDue /\ now' = now /\ \A t \in Tokens : Untouched(t)

Serving(h) ==
  /\ now' = now
  /\ Served(h)
  /\ \A t \in Tokens \ {h} : Untouched(t)

LEMMA StepShape ==
  ASSUME Inv, CopiesCurrent, [Next]_vars
  PROVE  Learning \/ Rearranging \/ Reading \/ \E h \in Tokens : Serving(h)
<1>0. TypeOK /\ BatchCurrent /\ now \in Nat
  BY ConstantTypes DEF Inv, TypeOK
<1>1. CASE Tick \/ RateLimited \/ Crash \/ UNCHANGED vars
  BY <1>0, <1>1 DEF Tick, RateLimited, Crash, vars, Learning, Untouched, SameHistory
<1>2. ASSUME NEW t \in Tokens, Discover(t) PROVE Learning
  <2>1. PICK c \in Creations \cup {Unknown} :
          row' = [row EXCEPT ![t].state = "DISCOVERED", ![t].created = c]
    BY <1>2 DEF Discover
  <2>2. row[t] \in Token /\ row[t].state = "ABSENT"
    BY <1>0, <1>2 DEF TypeOK, Discover
  <2>3. /\ row'[t].state = "DISCOVERED"
        /\ row'[t].failures = row[t].failures /\ row'[t].next = row[t].next
    BY <1>0, <2>1, <2>2 DEF TypeOK, Token
  <2>4. \A u \in Tokens \ {t} : row'[u] = row[u]
    BY <1>0, <2>1 DEF TypeOK
  <2>5. now' = now /\ batch' = batch /\ \A u \in Tokens : SameHistory(u)
    BY <1>2 DEF Discover, SameHistory
  <2>6. LearntOf(t)
    BY <2>2, <2>3, <2>5 DEF LearntOf
  <2>7. \A u \in Tokens \ {t} : Untouched(u)
    BY <2>4, <2>5 DEF Untouched
  <2> QED BY <1>0, <2>5, <2>6, <2>7 DEF Learning
<1>3. ASSUME NEW t \in Tokens, Backfill(t) PROVE Learning
  <2>1. PICK c \in Creations : row' = [row EXCEPT ![t].created = c]
    BY <1>3 DEF Backfill
  <2>2. row[t] \in Token /\ row[t].created = Unknown
    BY <1>0, <1>3 DEF TypeOK, Backfill
  <2>3. /\ row'[t].state = row[t].state
        /\ row'[t].failures = row[t].failures /\ row'[t].next = row[t].next
    BY <1>0, <2>1, <2>2 DEF TypeOK, Token
  <2>4. \A u \in Tokens \ {t} : row'[u] = row[u]
    BY <1>0, <2>1 DEF TypeOK
  <2>5. now' = now /\ batch' = batch /\ \A u \in Tokens : SameHistory(u)
    BY <1>3 DEF Backfill, SameHistory
  <2>6. LearntOf(t)
    BY <2>2, <2>3, <2>5 DEF LearntOf
  <2>7. \A u \in Tokens \ {t} : Untouched(u)
    BY <2>4, <2>5 DEF Untouched
  <2> QED BY <1>0, <2>5, <2>6, <2>7 DEF Learning
<1>4. CASE RetireOverdue
  <2>1. batch' = <<>> /\ now' = now /\ \A t \in Tokens : SameHistory(t)
    BY <1>0, <1>4 DEF RetireOverdue, BatchCurrent, SameHistory
  <2>2. \A t \in Overdue : row[t] \in Token
    BY <1>0 DEF Overdue, InTracking, TypeOK
  <2>3. \A t \in Overdue : row'[t].state = "INACTIVE" /\ row'[t].created = row[t].created
    BY <1>4, <2>2 DEF RetireOverdue, Overdue, InTracking, Token
  <2>4. \A t \in Tokens \ Overdue : row'[t] = row[t]
    BY <1>4 DEF RetireOverdue
  <2> QED BY <2>1, <2>3, <2>4 DEF Rearranging, AgedOut, Untouched
<1>5. CASE Admit
  <2>1. PICK S \in SUBSET Eligible :
          row' = [t \in Tokens |-> IF t \in S THEN AdmitRow(t) ELSE row[t]]
    BY <1>5 DEF Admit
  <2>2. batch' = <<>> /\ now' = now /\ \A t \in Tokens : SameHistory(t)
    BY <1>0, <1>5 DEF Admit, BatchCurrent, SameHistory
  <2>3. \A t \in S : /\ t \in Tokens /\ row[t] \in Token
                     /\ row[t].state = "DISCOVERED" /\ row[t].created # Unknown
    BY <1>0 DEF Eligible, TypeOK
  <2>4. \A t \in S : /\ row'[t].state = "TRACKING" /\ row'[t].next = now
                     /\ row'[t].created = row[t].created
                     /\ row'[t].failures = row[t].failures
    BY <2>1, <2>3 DEF AdmitRow, Token
  <2>5. \A t \in Tokens \ S : row'[t] = row[t]
    BY <2>1
  <2> QED BY <2>2, <2>3, <2>4, <2>5 DEF Rearranging, Entered, Untouched
<1>6. CASE ReadDue
  BY <1>6 DEF ReadDue, Reading, Untouched, SameHistory
<1>7. CASE RecordSnapshot
  <2>1. now' = now /\ Head(batch).id \in Tokens
    BY <1>7, HeadOfBatch DEF RecordSnapshot, Advance
  <2> QED BY <1>7, <2>1, SnapshotObserves DEF Serving, Served
<1>8. CASE RecordFailure
  <2>1. now' = now /\ Head(batch).id \in Tokens
    BY <1>8, HeadOfBatch DEF RecordFailure, Advance
  <2> QED BY <1>8, <2>1, FailureMisses DEF Serving, Served
<1> QED BY <1>1, <1>2, <1>3, <1>4, <1>5, <1>6, <1>7, <1>8 DEF Next, Loop

-----------------------------------------------------------------------------
(* The copies of the batch stay true of the table.                         *)

(* The due rows are read in the order of their next snapshot.              *)
BatchOrdered ==
  \A i \in 1..Len(batch), u \in Tokens :
    row[u].state = "TRACKING" /\ row[u].next < row[batch[i].id].next
      => \E j \in 1..(i - 1) : batch[j].id = u

Work == SlotIffScheduled /\ CopiesCurrent /\ SeriesPast /\ BatchOrdered

(* What is read is current, and nothing that is due comes later than       *)
(* something that was left out or that comes after it.                     *)
LEMMA DueRead ==
  ASSUME Inv, SlotIffScheduled, SeriesPast, ReadDue
  PROVE  CopiesCurrent' /\ BatchOrdered'
<1>0. TypeOK /\ row' = row /\ now' = now /\ now \in Nat
  BY ConstantTypes DEF Inv, ReadDue, TypeOK
<1>1. PICK order \in SetToAllKPermutations(DueNow) :
        /\ \A i, j \in DOMAIN order : i < j => Before(order[i], order[j])
        /\ \A i \in DOMAIN order, u \in DueNow \ Range(order) : Before(order[i], u)
        /\ batch' = [i \in DOMAIN order |-> Copy(order[i])]
  BY DEF ReadDue
<1>2. DueNow \subseteq Tokens /\ IsFiniteSet(DueNow)
  BY ConstantTypes, FS_Subset DEF DueNow, InTracking
<1>3. order \in Seq(DueNow)
  BY <1>1, <1>2, PermutationIsSequence
<1>4. DOMAIN order = 1..Len(order) /\ Len(order) \in Nat
  BY <1>3, LenProperties
<1>5. \A i \in 1..Len(order) : order[i] \in DueNow
  BY <1>3, ElementOfSeq
<1>6. DOMAIN batch' = 1..Len(order) /\ Len(batch') = Len(order)
  <2>1. batch' \in Seq(DueToken)
    BY <1>0, BatchRead
  <2>2. DOMAIN batch' = 1..Len(order)
    BY <1>1, <1>4
  <2>3. DOMAIN batch' = 1..Len(batch') /\ Len(batch') \in Nat
    BY <2>1, LenProperties
  <2> QED BY <1>4, <2>2, <2>3
<1>7. \A i \in 1..Len(order) : batch'[i] = Copy(order[i])
  BY <1>1, <1>4
<1>8. CopiesCurrent'
  BY <1>0, <1>5, <1>6, <1>7 DEF CopiesCurrent, Copy, DueNow
<1>9. \A t \in Tokens : row[t].next \in Int
  BY <1>0 DEF TypeOK, Token, Unknown
<1>10. ASSUME NEW i \in 1..Len(order), NEW u \in Tokens,
              row[u].state = "TRACKING", row[u].next < row[order[i]].next
       PROVE  \E j \in 1..(i - 1) : order[j] = u
  <2>1. order[i] \in Tokens /\ row[order[i]].next <= now
    BY <1>2, <1>5 DEF DueNow
  <2>2. u \in DueNow
    BY <1>0, <1>9, <1>10, <2>1 DEF DueNow, InTracking, SlotIffScheduled, SeriesPast
  <2>3. ~ Before(order[i], u)
    BY <1>9, <1>10, <2>1 DEF Before
  <2>4. u \in Range(order)
    BY <1>1, <1>4, <2>2, <2>3
  <2>5. PICK j \in 1..Len(order) : order[j] = u
    BY <1>4, <2>4 DEF Range
  <2>6. ~ (i < j)
    BY <1>1, <1>4, <2>3, <2>5
  <2>7. i # j
    BY <1>9, <1>10, <2>1, <2>5
  <2>8. j \in 1..(i - 1)
    BY <1>4, <2>6, <2>7
  <2> QED BY <2>5, <2>8
<1>11. BatchOrdered'
  <2> SUFFICES ASSUME NEW i \in 1..Len(batch'), NEW u \in Tokens,
                      row'[u].state = "TRACKING", row'[u].next < row'[batch'[i].id].next
               PROVE  \E j \in 1..(i - 1) : batch'[j].id = u
    BY DEF BatchOrdered
  <2>1. i \in 1..Len(order) /\ batch'[i].id = order[i]
    BY <1>6, <1>7 DEF Copy
  <2>2. PICK j \in 1..(i - 1) : order[j] = u
    BY <1>0, <1>10, <2>1
  <2>3. j \in 1..Len(order)
    BY <1>4, <2>1
  <2>4. batch'[j] = Copy(u)
    BY <1>7, <2>2, <2>3
  <2>5. batch'[j].id = u
    BY <2>4 DEF Copy
  <2> QED BY <2>5
<1> QED BY <1>8, <1>11

(* Types of what the steps compare.                                        *)
LEMMA RowTypes ==
  ASSUME TypeOK
  PROVE  /\ now \in Nat
         /\ \A t \in Tokens : /\ row[t].next \in Int /\ row[t].created \in Int
                              /\ row[t].failures \in Nat /\ streak[t] \in Nat
                              /\ \A s \in series[t] : s \in Nat
BY ConstantTypes DEF TypeOK, Token, Unknown

(* What is left of a batch when its head h is served: the tokens that      *)
(* followed, untouched, and not h.                                         *)
LEMMA RestUntouched ==
  ASSUME Inv, NEW h \in Tokens, Serving(h)
  PROVE  /\ batch # <<>> /\ h = batch[1].id
         /\ \A i \in 1..Len(batch') : /\ i + 1 \in 1..Len(batch)
                                      /\ batch'[i] = batch[i + 1]
                                      /\ batch'[i].id \in Tokens \ {h}
                                      /\ row'[batch'[i].id] = row[batch'[i].id]
<1>1. TypeOK /\ BatchCurrent /\ batch # <<>> /\ batch' = Tail(batch) /\ h = Head(batch).id
  BY DEF Inv, Serving, Served, Observed, Missed
<1>2. h = batch[1].id /\ 1 \in 1..Len(batch) /\ Len(batch') \in Nat
  BY <1>1, RestOfBatch, LenProperties
<1>3. SUFFICES ASSUME NEW i \in 1..Len(batch')
               PROVE  /\ i + 1 \in 1..Len(batch)
                      /\ batch'[i] = batch[i + 1]
                      /\ batch'[i].id \in Tokens \ {h}
                      /\ row'[batch'[i].id] = row[batch'[i].id]
  BY <1>1, <1>2
<1>4. i + 1 \in 1..Len(batch) /\ batch'[i] = batch[i + 1] /\ i + 1 # 1
  BY <1>1, <1>2, RestOfBatch
<1>5. batch'[i].id \in Tokens /\ batch'[i].id # h
  BY <1>1, <1>2, <1>4, IdsOfBatch DEF BatchCurrent
<1> QED BY <1>4, <1>5 DEF Serving, Untouched

(* While nothing is served, the tokens of a batch keep their rows.         *)
LEMMA BatchUntouched ==
  ASSUME Inv, SeriesPast, Learning, batch' = batch
  PROVE  \A i \in 1..Len(batch) : /\ batch[i].id \in Tokens
                                  /\ row'[batch[i].id] = row[batch[i].id]
<1> TAKE i \in 1..Len(batch)
<1>1. batch[i].id \in Tokens /\ row[batch[i].id].state = "TRACKING"
  BY IdsOfBatch DEF Inv, BatchCurrent
<1>2. ~ LearntOf(batch[i].id)
  BY <1>1 DEF SeriesPast, LearntOf
<1> QED BY <1>1, <1>2 DEF Learning, Untouched

(* An empty batch is current and in order.                                 *)
LEMMA EmptyBatch ==
  ASSUME batch' = <<>>
  PROVE  CopiesCurrent' /\ BatchOrdered'
<1>1. Len(batch') = 0
  BY EmptySeq
<1> QED BY <1>1 DEF CopiesCurrent, BatchOrdered

LEMMA StepCopies ==
  ASSUME Inv, Work, [Next]_vars
  PROVE  CopiesCurrent'
<1>0. TypeOK /\ now \in Nat /\ now' \in Nat /\ CopiesCurrent
  BY RowTypes, StepInv DEF Inv, Work, TypeOK
<1>1. CASE batch' = <<>>
  BY <1>1, EmptyBatch
<1>2. CASE Learning /\ batch' = batch
  <2>1. \A i \in 1..Len(batch) : /\ batch[i].id \in Tokens
                                 /\ row'[batch[i].id] = row[batch[i].id]
    BY <1>2, BatchUntouched DEF Work
  <2>2. \A i \in 1..Len(batch) : row[batch[i].id].next \in Int
    BY <1>0, <2>1, RowTypes
  <2>3. now' >= now
    BY <1>2 DEF Learning
  <2> QED BY <1>0, <1>2, <2>1, <2>2, <2>3 DEF CopiesCurrent
<1>3. CASE Reading
  BY <1>3, DueRead DEF Reading, Work
<1>4. ASSUME NEW h \in Tokens, Serving(h) PROVE CopiesCurrent'
  BY <1>0, <1>4, RestUntouched DEF CopiesCurrent, Serving
<1> QED BY <1>0, <1>1, <1>2, <1>3, <1>4, StepShape DEF Learning, Rearranging

LEMMA StepSeries ==
  ASSUME Inv, Work, [Next]_vars
  PROVE  SeriesPast'
<1>0. /\ TypeOK /\ SeriesPast /\ CopiesCurrent
      /\ now \in Nat /\ now' \in Nat /\ \A t \in Tokens : \A s \in series[t] : s \in Nat
  BY RowTypes, StepInv DEF Inv, Work, TypeOK
<1>1. SUFFICES ASSUME NEW t \in Tokens
               PROVE  /\ \A s \in series'[t] : s <= now'
                      /\ row'[t].state \in {"ABSENT", "DISCOVERED"} => series'[t] = {}
                      /\ series'[t] # {} \/ row'[t].state = "TRACKING"
                           => row'[t].created # Unknown
  BY DEF SeriesPast
<1>2. now' >= now
  BY <1>0, StepShape DEF Learning, Rearranging, Reading, Serving
<1>3. \/ Untouched(t) \/ LearntOf(t) \/ AgedOut(t) \/ Entered(t)
      \/ Served(t) /\ now' = now
  BY <1>0, StepShape DEF Learning, Rearranging, Reading, Serving
<1>4. CASE Untouched(t)
  BY <1>0, <1>2, <1>4 DEF Untouched, SameHistory, SeriesPast
<1>5. CASE LearntOf(t)
  BY <1>0, <1>2, <1>5 DEF LearntOf, SameHistory, SeriesPast
<1>6. CASE AgedOut(t)
  BY <1>0, <1>2, <1>6 DEF AgedOut, SameHistory, SeriesPast
<1>7. CASE Entered(t)
  BY <1>0, <1>2, <1>7 DEF Entered, SameHistory, SeriesPast
<1>8. CASE Served(t) /\ now' = now
  <2>1. /\ series'[t] \subseteq series[t] \cup {now}
        /\ row'[t].state \notin {"ABSENT", "DISCOVERED"}
        /\ row'[t].created = row[t].created /\ row[t].state = "TRACKING"
    BY <1>8 DEF Served, Observed, Missed
  <2> QED BY <1>0, <1>8, <2>1 DEF SeriesPast
<1> QED BY <1>3, <1>4, <1>5, <1>6, <1>7, <1>8

(* After it is served, or admitted, a token is not due before now.         *)
LEMMA ServedLater ==
  ASSUME Inv, NEW t \in Tokens, Served(t) \/ Entered(t), row'[t].state = "TRACKING"
  PROVE  row'[t].next \in Int /\ row'[t].next >= now
         /\ (Observed(t) => row'[t].next > now)
BY RowTypes, ConstantTypes DEF Inv, Served, Observed, Missed, Entered

LEMMA StepOrdered ==
  ASSUME Inv, Work, [Next]_vars
  PROVE  BatchOrdered'
<1>0. TypeOK /\ CopiesCurrent /\ BatchOrdered /\ SeriesPast
  BY DEF Inv, Work
<1>1. CASE batch' = <<>>
  BY <1>1, EmptyBatch
<1>2. CASE Learning /\ batch' = batch
  <2>1. \A i \in 1..Len(batch) : row'[batch[i].id] = row[batch[i].id]
    BY <1>2, BatchUntouched DEF Work
  <2>2. \A u \in Tokens : row'[u].state = "TRACKING"
          => row[u].state = "TRACKING" /\ row'[u].next = row[u].next
    BY <1>2 DEF Learning, Untouched, LearntOf
  <2> QED BY <1>0, <1>2, <2>1, <2>2 DEF BatchOrdered
<1>3. CASE Reading
  BY <1>3, DueRead DEF Reading, Work
<1>4. ASSUME NEW h \in Tokens, Serving(h) PROVE BatchOrdered'
  <2>1. SUFFICES ASSUME NEW i \in 1..Len(batch'), NEW u \in Tokens,
                        row'[u].state = "TRACKING", row'[u].next < row'[batch'[i].id].next
                 PROVE  \E j \in 1..(i - 1) : batch'[j].id = u
    BY DEF BatchOrdered
  <2>2. /\ i + 1 \in 1..Len(batch) /\ batch'[i] = batch[i + 1]
        /\ batch'[i].id \in Tokens /\ row'[batch'[i].id] = row[batch'[i].id]
        /\ h = batch[1].id
    BY <1>4, RestUntouched
  <2>3. row'[batch'[i].id].next <= now /\ row'[batch'[i].id].next \in Int
    BY <1>0, <2>2, RowTypes DEF CopiesCurrent
  <2>4. u # h
    BY <1>0, <1>4, <2>1, <2>3, RowTypes, ServedLater DEF Serving
  <2>5. row'[u] = row[u]
    BY <1>4, <2>4 DEF Serving, Untouched
  <2>6. PICK j \in 1..i : batch[j].id = u
    <3>1. row[u].next < row[batch[i + 1].id].next /\ row[u].state = "TRACKING"
      BY <2>1, <2>2, <2>5
    <3>2. \E j \in 1..((i + 1) - 1) : batch[j].id = u
      BY <1>0, <2>2, <3>1 DEF BatchOrdered
    <3> QED BY <3>2
  <2>7. j # 1
    BY <2>2, <2>4, <2>6
  <2>8. Len(batch') \in Nat
    <3>1. batch' \in Seq(DueToken)
      BY StepInv DEF Inv, TypeOK
    <3> QED BY <3>1, LenProperties
  <2>9. j - 1 \in 1..(i - 1) /\ j - 1 \in 1..Len(batch')
    BY <2>6, <2>7, <2>8
  <2>10. batch'[j - 1] = batch[(j - 1) + 1]
    BY <1>4, <2>9, RestUntouched
  <2>11. batch'[j - 1].id = u
    BY <2>6, <2>9, <2>10
  <2> QED BY <2>9, <2>11
<1> QED BY <1>0, <1>1, <1>2, <1>3, <1>4, StepShape DEF Learning, Rearranging

LEMMA InitWork == Init => Work
<1> SUFFICES ASSUME Init PROVE Work
  OBVIOUS
<1>1. Len(batch) = 0
  BY EmptySeq DEF Init
<1>2. SlotIffScheduled /\ SeriesPast
  BY DEF Init, NoToken, SlotIffScheduled, SeriesPast
<1> QED BY <1>1, <1>2 DEF Work, CopiesCurrent, BatchOrdered

LEMMA AlwaysWork == Spec => [](Inv /\ Work)
<1>1. Inv /\ Work /\ [Next]_vars => Work'
  BY StepSlot, StepCopies, StepSeries, StepOrdered DEF Work
<1> QED BY <1>1, InitInv, InitWork, StepInv, PTL DEF Spec

-----------------------------------------------------------------------------
(* The failures of a token.                                                *)

(* While a token can still be polled, its column counts the failures since *)
(* its last snapshot, and there are fewer than MaxFailures.                *)
FailuresCounted ==
  \A t \in Tokens :
    /\ row[t].state \in {"ABSENT", "DISCOVERED", "TRACKING"} =>
         row[t].failures = streak[t] /\ streak[t] < MaxFailures
    /\ row[t].state = "DEAD" => streak[t] >= MaxFailures

LEMMA StepFailures ==
  ASSUME Inv, Work, FailuresCounted, [Next]_vars
  PROVE  FailuresCounted'
<1> SUFFICES ASSUME NEW t \in Tokens
             PROVE  /\ row'[t].state \in {"ABSENT", "DISCOVERED", "TRACKING"} =>
                         row'[t].failures = streak'[t] /\ streak'[t] < MaxFailures
                    /\ row'[t].state = "DEAD" => streak'[t] >= MaxFailures
  BY DEF FailuresCounted
<1>1. \/ Untouched(t) \/ LearntOf(t) \/ AgedOut(t) \/ Entered(t) \/ Observed(t) \/ Missed(t)
  BY StepShape DEF Work, Learning, Rearranging, Reading, Serving, Served
<1>2. CASE Untouched(t) \/ LearntOf(t) \/ AgedOut(t) \/ Entered(t)
  BY <1>2 DEF Untouched, LearntOf, AgedOut, Entered, SameHistory, FailuresCounted
<1>3. CASE Observed(t)
  BY <1>3, ConstantTypes DEF Observed
<1>4. CASE Missed(t)
  BY <1>4 DEF Missed, FailuresCounted
<1> QED BY <1>1, <1>2, <1>3, <1>4

(* A token is given up for dead only after MaxFailures failures in a row,  *)
(* counted over batches, retries and restarts, and keeps its slot before.  *)
THEOREM DeadOnlyAfterStreak == Spec => []DeadAfterStreak
<1>1. Init => FailuresCounted
  BY ConstantTypes DEF Init, NoToken, FailuresCounted
<1>2. Inv /\ Work /\ FailuresCounted /\ [Next]_vars => FailuresCounted'
  BY StepFailures
<1>3. FailuresCounted => DeadAfterStreak
  BY DEF FailuresCounted, DeadAfterStreak
<1> QED BY <1>1, <1>2, <1>3, AlwaysWork, PTL DEF Spec

-----------------------------------------------------------------------------
(* The spacing of the snapshots.                                           *)

(* The next snapshot is planned an interval after every earlier one.       *)
NextSpaced ==
  \A t \in Tokens : row[t].state = "TRACKING" =>
    \A a \in series[t] : row[t].next >= a + IntervalFor(a - row[t].created)

Spacing == NextSpaced /\ SpacingHeld

LEMMA StepSpacing ==
  ASSUME Inv, Work, Spacing, [Next]_vars
  PROVE  Spacing'
<1>0. TypeOK /\ CopiesCurrent /\ SeriesPast
  BY DEF Inv, Work
<1>1. SUFFICES ASSUME NEW t \in Tokens
               PROVE  /\ row'[t].state = "TRACKING" =>
                           \A a \in series'[t] :
                             row'[t].next >= a + IntervalFor(a - row'[t].created)
                      /\ \A a, b \in series'[t] :
                           a < b => b - a >= IntervalFor(a - row'[t].created)
  BY DEF Spacing, NextSpaced, SpacingHeld
<1>2. /\ now \in Nat /\ row[t].next \in Int /\ row[t].created \in Int
      /\ \A s \in series[t] : s \in Nat /\ s <= now
  BY <1>0, RowTypes DEF SeriesPast
<1>3. \A s \in series[t] : IntervalFor(s - row[t].created) \in Int
  <2> TAKE s \in series[t]
  <2>1. s - row[t].created \in Int
    BY <1>2
  <2> QED BY <2>1, IntervalTyped DEF Unknown
<1>4. /\ row[t].state = "TRACKING" =>
           \A a \in series[t] : row[t].next >= a + IntervalFor(a - row[t].created)
      /\ \A a, b \in series[t] : a < b => b - a >= IntervalFor(a - row[t].created)
  BY DEF Spacing, NextSpaced, SpacingHeld
<1>5. \/ Untouched(t) \/ LearntOf(t) \/ AgedOut(t) \/ Entered(t) \/ Observed(t) \/ Missed(t)
  BY StepShape DEF Work, Learning, Rearranging, Reading, Serving, Served
<1>6. CASE Untouched(t)
  BY <1>4, <1>6 DEF Untouched, SameHistory
<1>7. CASE LearntOf(t) \/ Entered(t)
  BY <1>0, <1>7 DEF LearntOf, Entered, SameHistory, SeriesPast
<1>8. CASE AgedOut(t)
  BY <1>4, <1>8 DEF AgedOut, SameHistory
<1>9. ASSUME Served(t) PROVE row[t].next <= now
  BY <1>0, <1>9, HeadOfBatch DEF Work, Served, Observed, Missed, Inv, BatchCurrent
<1>10. ASSUME Served(t), NEW a \in series[t]
       PROVE  now >= a + IntervalFor(a - row[t].created)
  <2>1. row[t].next >= a + IntervalFor(a - row[t].created)
    BY <1>4, <1>10 DEF Served, Observed, Missed
  <2> QED BY <1>2, <1>3, <1>9, <1>10, <2>1
<1>11. CASE Missed(t)
  <2>1. row'[t].state = "TRACKING" => row'[t].next \in Int /\ row'[t].next >= now
    BY <1>2, <1>11, ConstantTypes DEF Missed
  <2>2. series'[t] = series[t] /\ row'[t].created = row[t].created
    BY <1>11 DEF Missed
  <2> QED BY <1>2, <1>3, <1>4, <1>10, <1>11, <2>1, <2>2 DEF Served
<1>12. CASE Observed(t)
  <2>1. series'[t] = series[t] \cup {now} /\ row'[t].created = row[t].created
    BY <1>12 DEF Observed
  <2>2. row'[t].state = "TRACKING" =>
          /\ row'[t].next = now + IntervalFor(now - row[t].created)
          /\ row'[t].next \in Int /\ row'[t].next >= now
    BY <1>2, <1>12 DEF Observed
  <2>3. \A a \in series[t] : now >= a + IntervalFor(a - row[t].created)
    BY <1>10, <1>12 DEF Served
  <2>4. row'[t].state = "TRACKING" =>
          \A a \in series'[t] : row'[t].next >= a + IntervalFor(a - row'[t].created)
    BY <1>2, <1>3, <2>1, <2>2, <2>3
  <2>5. \A a, b \in series'[t] : a < b => b - a >= IntervalFor(a - row'[t].created)
    BY <1>2, <1>3, <1>4, <2>1, <2>3
  <2> QED BY <2>4, <2>5
<1> QED BY <1>5, <1>6, <1>7, <1>8, <1>11, <1>12

(* Two snapshots of a token are at least its interval apart, whatever was  *)
(* batched, retried or restarted in between: the request rate holds.       *)
THEOREM SpacingAlwaysHeld == Spec => []SpacingHeld
<1>1. Init => Spacing
  BY DEF Init, NoToken, Spacing, NextSpaced, SpacingHeld
<1>2. Inv /\ Work /\ Spacing /\ [Next]_vars => Spacing'
  BY StepSpacing
<1>3. Spacing => SpacingHeld
  BY DEF Spacing
<1> QED BY <1>1, <1>2, <1>3, AlwaysWork, PTL DEF Spec

-----------------------------------------------------------------------------
(* The turns the tokens take.                                              *)

(* While u waits, another token is observed once at most, and then it is   *)
(* planned after u.                                                        *)
TakesTurn(t, u) ==
  \A s \in series[t] : s > row[u].next =>
    /\ row[t].state = "TRACKING" => row[t].next > row[u].next
    /\ \A r \in series[t] : r > row[u].next => r = s

TurnsTaken ==
  \A t, u \in Tokens : u # t /\ row[u].state = "TRACKING" => TakesTurn(t, u)

(* The head of a batch is a token that has waited longest.                 *)
LEMMA HeadMostOverdue ==
  ASSUME Inv, Work, NEW h \in Tokens, Serving(h),
         NEW u \in Tokens, row[u].state = "TRACKING"
  PROVE  row[h].next <= row[u].next
<1>1. batch # <<>> /\ h = batch[1].id /\ TypeOK /\ BatchOrdered
  BY RestUntouched DEF Inv, Work
<1>2. 1 \in 1..Len(batch)
  BY <1>1, RestOfBatch
<1>3. ~ (row[u].next < row[h].next)
  BY <1>1, <1>2 DEF BatchOrdered
<1> QED BY <1>1, <1>3, RowTypes

LEMMA StepTurns ==
  ASSUME Inv, Work, TurnsTaken, [Next]_vars
  PROVE  TurnsTaken'
<1>0. TypeOK /\ CopiesCurrent /\ SeriesPast
  BY DEF Inv, Work
<1>1. SUFFICES ASSUME NEW t \in Tokens, NEW u \in Tokens, u # t,
                      row'[u].state = "TRACKING"
               PROVE  TakesTurn(t, u)'
  BY DEF TurnsTaken
<1>2. /\ now \in Nat /\ row[t].next \in Int /\ row[u].next \in Int
      /\ \A s \in series[t] : s \in Nat /\ s <= now
  BY <1>0, RowTypes DEF SeriesPast
<1>3. row[u].state = "TRACKING" => TakesTurn(t, u)
  BY <1>1 DEF TurnsTaken
<1>4. CASE Learning \/ Reading
  <2>1. Untouched(t) \/ LearntOf(t)
    BY <1>4 DEF Learning, Reading
  <2>2. row'[u].next = row[u].next /\ row[u].state = "TRACKING"
    BY <1>1, <1>4 DEF Learning, Reading, Untouched, LearntOf
  <2>3. series'[t] = series[t] /\ row'[t].next = row[t].next
        /\ (row'[t].state = "TRACKING" => row[t].state = "TRACKING")
    BY <2>1 DEF Untouched, LearntOf, SameHistory
  <2> QED BY <1>3, <2>2, <2>3 DEF TakesTurn
<1>5. CASE Rearranging
  <2>1. Untouched(t) \/ AgedOut(t) \/ Entered(t)
    BY <1>5 DEF Rearranging
  <2>2. CASE Entered(u)
    <3>1. series'[t] = series[t] /\ row'[u].next = now
      BY <2>1, <2>2 DEF Untouched, AgedOut, Entered, SameHistory
    <3> QED BY <1>2, <3>1 DEF TakesTurn
  <2>3. CASE ~ Entered(u)
    <3>1. row'[u] = row[u]
      BY <1>1, <1>5, <2>3 DEF Rearranging, Untouched, AgedOut
    <3>2. CASE Entered(t)
      BY <1>0, <3>2 DEF Entered, SameHistory, SeriesPast, TakesTurn
    <3>3. CASE Untouched(t) \/ AgedOut(t)
      BY <1>1, <1>3, <3>1, <3>3 DEF Untouched, AgedOut, SameHistory, TakesTurn
    <3> QED BY <2>1, <3>2, <3>3
  <2> QED BY <2>2, <2>3
<1>6. ASSUME NEW h \in Tokens, Serving(h) PROVE TakesTurn(t, u)'
  <2>1. CASE h = u
    <3>1. row'[u].next \in Int /\ row'[u].next >= now
      BY <1>1, <1>6, <2>1, ServedLater DEF Serving
    <3>2. series'[t] = series[t]
      BY <1>1, <1>6, <2>1 DEF Serving, Untouched, SameHistory
    <3> QED BY <1>2, <3>1, <3>2 DEF TakesTurn
  <2>2. CASE h # u
    <3>1. row'[u] = row[u] /\ row[u].state = "TRACKING"
      BY <1>1, <1>6, <2>2 DEF Serving, Untouched
    <3>2. TakesTurn(t, u)
      BY <1>3, <3>1
    <3>3. CASE h # t
      BY <1>6, <3>1, <3>2, <3>3 DEF Serving, Untouched, SameHistory, TakesTurn
    <3>4. CASE h = t
      <4>1. row[t].next <= row[u].next /\ row[t].state = "TRACKING"
        BY <1>6, <3>1, <3>4, HeadMostOverdue DEF Serving, Served, Observed, Missed
      <4>2. \A s \in series[t] : ~ (s > row[u].next)
        BY <1>2, <3>2, <4>1 DEF TakesTurn
      <4>3. CASE Missed(t)
        BY <3>1, <4>2, <4>3 DEF Missed, TakesTurn
      <4>4. CASE Observed(t)
        <5>1. series'[t] = series[t] \cup {now}
          BY <4>4 DEF Observed
        <5>2. row'[t].state = "TRACKING" => row'[t].next \in Int /\ row'[t].next > now
          BY <4>4, ServedLater DEF Served
        <5> QED BY <1>2, <3>1, <4>2, <5>1, <5>2 DEF TakesTurn
      <4> QED BY <1>6, <3>4, <4>3, <4>4 DEF Serving, Served
    <3> QED BY <3>3, <3>4
  <2> QED BY <2>1, <2>2
<1> QED BY <1>4, <1>5, <1>6, StepShape DEF Work

(* Most overdue first: however full the batches, no token is observed      *)
(* twice while another one is due.                                         *)
THEOREM NobodyEverStarves == Spec => []NobodyStarves
<1>1. Init => TurnsTaken
  BY DEF Init, NoToken, TurnsTaken
<1>2. Inv /\ Work /\ TurnsTaken /\ [Next]_vars => TurnsTaken'
  BY StepTurns
<1>3. TurnsTaken => NobodyStarves
  <2> SUFFICES ASSUME TurnsTaken, NEW t \in Tokens, NEW u \in Tokens,
                      u # t, row[u].state = "TRACKING"
               PROVE  Cardinality({s \in series[t] : s > row[u].next}) <= 1
    BY DEF NobodyStarves
  <2> DEFINE L == {s \in series[t] : s > row[u].next}
  <2>1. \A r, s \in L : r = s
    BY DEF TurnsTaken, TakesTurn
  <2>2. L = {} \/ \E s : L = {s}
    BY <2>1
  <2>3. CASE L = {}
    <3>1. Cardinality(L) = 0
      BY <2>3, FS_EmptySet
    <3> QED BY <3>1
  <2>4. CASE \E s : L = {s}
    <3>1. PICK s : L = {s}
      BY <2>4
    <3>2. Cardinality(L) = 1
      BY <3>1, FS_Singleton
    <3> QED BY <3>2
  <2> QED BY <2>2, <2>3, <2>4
<1> QED BY <1>1, <1>2, <1>3, AlwaysWork, PTL DEF Spec
=============================================================================
