-------------------------- MODULE Providers_proofs --------------------------
(***************************************************************************)
(* What holds between a provider and the database for every value of the   *)
(* constants: that no order of the two discovery loops' commits takes back *)
(* what is known of a token (Discovery), that one answer decides a request *)
(* and its retries do not make a record look younger than it was           *)
(* (HttpRequest), and that the push stream's backoff is the doubling it    *)
(* computes (PushStream).                                                  *)
(***************************************************************************)
EXTENDS Providers, DataLemmas

-----------------------------------------------------------------------------
(* Discovery.                                                              *)

(* The poller has something to store or to ask for while it is at it.      *)
WorkAtHand ==
  /\ pc = "poll" => listing # <<>>
  /\ pc = "backfill" => backlog # <<>>

(* Nobody else spends attempts: whoever is in the backlog is stored, comes *)
(* once, and still has an attempt to spend.                                *)
BacklogWorth ==
  /\ \A i \in 1..Len(backlog) : /\ row[backlog[i]].discovered # Never
                                /\ row[backlog[i]].attempts < MaxAttempts
  /\ \A i, j \in 1..Len(backlog) : i # j => backlog[i] # backlog[j]

BudgetKept == \A t \in Tokens : row[t].attempts <= MaxAttempts

DiscoveryInv == TypeOK /\ WorkAtHand /\ BacklogWorth /\ BudgetKept

LEMMA DiscoveryInit == Init => DiscoveryInv
<1> SUFFICES ASSUME Init PROVE DiscoveryInv
  OBVIOUS
<1>1. MaxTime \in Nat /\ MaxErrors \in Nat /\ MaxAttempts \in Nat \ {0}
  BY DiscoveryAssumption
<1>2. NoToken \in Token /\ NoToken.attempts = 0
  BY DEF NoToken, Token
<1>3. row \in [Tokens -> Token] /\ \A t \in Tokens : row[t].attempts = 0
  BY <1>2 DEF Init
<1>4. frame \subseteq Sighting /\ Cardinality(frame) <= 1
  BY FS_EmptySet DEF Init
<1>5. listing \in Seq(Sighting) /\ backlog \in Seq(Tokens) /\ Len(backlog) = 0
  BY EmptySeq DEF Init
<1>6. TypeOK
  BY <1>1, <1>3, <1>4, <1>5 DEF TypeOK, Init
<1> QED BY <1>1, <1>3, <1>5, <1>6 DEF Init, DiscoveryInv, WorkAtHand, BacklogWorth, BudgetKept

(* An upsert keeps the row a row, and all of it but the creation time once *)
(* the token is known.                                                     *)
LEMMA UpsertKeeps ==
  ASSUME row \in [Tokens -> Token], NEW s \in Sighting
  PROVE  /\ Upsert(s) \in [Tokens -> Token]
         /\ \A t \in Tokens :
              /\ row[t].discovered # Never =>
                   /\ Upsert(s)[t].discovered = row[t].discovered
                   /\ Upsert(s)[t].source = row[t].source
                   /\ Upsert(s)[t].attempts = row[t].attempts
                   /\ row[t].dated => Upsert(s)[t].dated
              /\ Upsert(s)[t].attempts \in {row[t].attempts, 0}
<1> DEFINE new == [discovered |-> s.at, source |-> s.source, dated |-> s.dated, attempts |-> 0]
           dated == [row[s.id] EXCEPT !.dated = @ \/ s.dated]
<1>1. s.id \in Tokens /\ s.at \in Nat /\ s.source \in Sources /\ s.dated \in BOOLEAN
  BY DEF Sighting
<1>2. row[s.id] \in Token
  BY <1>1
<1>3. new \in Token
  BY <1>1 DEF Token
<1>4. /\ dated \in Token /\ dated.discovered = row[s.id].discovered
      /\ dated.source = row[s.id].source /\ dated.attempts = row[s.id].attempts
      /\ row[s.id].dated => dated.dated
  BY <1>1, <1>2, Zenon DEF Token
<1>5. CASE row[s.id].discovered = Never
  <2>1. Upsert(s) = [row EXCEPT ![s.id] = new]
    BY <1>5 DEF Upsert
  <2> HIDE DEF new
  <2>2. Upsert(s)[s.id] = new /\ \A t \in Tokens : t # s.id => Upsert(s)[t] = row[t]
    BY <1>1, <2>1
  <2>3. new.attempts = 0
    BY DEF new
  <2> QED BY <1>1, <1>3, <1>5, <2>1, <2>2, <2>3
<1>6. CASE row[s.id].discovered # Never
  <2>1. Upsert(s) = [row EXCEPT ![s.id] = dated]
    BY <1>6 DEF Upsert
  <2> HIDE DEF dated
  <2>2. Upsert(s)[s.id] = dated /\ \A t \in Tokens : t # s.id => Upsert(s)[t] = row[t]
    BY <1>1, <2>1
  <2> QED BY <1>1, <1>4, <1>6, <2>1, <2>2
<1> QED BY <1>5, <1>6
(* The backlog keeps its worth under every step that leaves it alone or    *)
(* consumes it, and what is stored keeps its attempts or is new.           *)
LEMMA BacklogUnderUpsert ==
  ASSUME DiscoveryInv, NEW s \in Sighting
  PROVE  /\ \A t \in Tokens : Upsert(s)[t].attempts <= MaxAttempts
         /\ \A i \in 1..Len(backlog) : /\ Upsert(s)[backlog[i]].discovered # Never
                                       /\ Upsert(s)[backlog[i]].attempts < MaxAttempts
<1>1. row \in [Tokens -> Token] /\ backlog \in Seq(Tokens) /\ MaxAttempts \in Nat
  BY DiscoveryAssumption DEF DiscoveryInv, TypeOK
<1>2. \A i \in 1..Len(backlog) : backlog[i] \in Tokens
  BY <1>1, ElementOfSeq
<1>3. \A t \in Tokens : Upsert(s)[t].attempts <= MaxAttempts
  BY <1>1, UpsertKeeps DEF DiscoveryInv, BudgetKept
<1>4. ASSUME NEW i \in 1..Len(backlog)
      PROVE  /\ Upsert(s)[backlog[i]].discovered # Never
             /\ Upsert(s)[backlog[i]].attempts < MaxAttempts
  <2>1. row[backlog[i]].discovered # Never /\ row[backlog[i]].attempts < MaxAttempts
    BY DEF DiscoveryInv, BacklogWorth
  <2> QED BY <1>1, <1>2, <2>1, UpsertKeeps
<1> QED BY <1>3, <1>4

(* The head of the backlog is a token with an attempt left, and the rest   *)
(* is a backlog without it.                                                *)
LEMMA BacklogConsumed ==
  ASSUME DiscoveryInv, pc = "backfill", NextAddress
  PROVE  /\ Head(backlog) \in Tokens /\ row[Head(backlog)].discovered # Never
         /\ row[Head(backlog)].attempts < MaxAttempts
         /\ backlog' \in Seq(Tokens) /\ pc' \in {"idle", "backfill"}
         /\ pc' = "backfill" => backlog' # <<>>
         /\ \A i \in 1..Len(backlog') : /\ backlog'[i] \in Tokens /\ backlog'[i] # Head(backlog)
                                        /\ row[backlog'[i]].discovered # Never
                                        /\ row[backlog'[i]].attempts < MaxAttempts
         /\ \A i, j \in 1..Len(backlog') : i # j => backlog'[i] # backlog'[j]
<1>1. backlog \in Seq(Tokens) /\ backlog # <<>> /\ backlog' = Tail(backlog)
      /\ pc' = IF Len(backlog) = 1 THEN "idle" ELSE "backfill"
  BY DEF DiscoveryInv, TypeOK, WorkAtHand, NextAddress
<1>2. /\ Len(backlog) \in Nat \ {0} /\ Head(backlog) = backlog[1] /\ backlog[1] \in Tokens
      /\ backlog' \in Seq(Tokens) /\ Len(backlog') = Len(backlog) - 1
      /\ \A i \in 1..Len(backlog') : backlog'[i] = backlog[i + 1] /\ i + 1 \in 1..Len(backlog)
      /\ Len(backlog) = 1 <=> backlog' = <<>>
  BY <1>1, TailElements
<1>3. \A i \in 1..Len(backlog) : /\ row[backlog[i]].discovered # Never
                                 /\ row[backlog[i]].attempts < MaxAttempts
  BY DEF DiscoveryInv, BacklogWorth
<1>4. \A i, j \in 1..Len(backlog) : i # j => backlog[i] # backlog[j]
  BY DEF DiscoveryInv, BacklogWorth
<1>5. 1 \in 1..Len(backlog)
  BY <1>2
<1>6. ASSUME NEW i \in 1..Len(backlog')
      PROVE  /\ backlog'[i] \in Tokens /\ backlog'[i] # Head(backlog)
             /\ row[backlog'[i]].discovered # Never /\ row[backlog'[i]].attempts < MaxAttempts
  <2>1. i + 1 \in 1..Len(backlog) /\ i + 1 # 1 /\ backlog'[i] = backlog[i + 1]
    BY <1>2
  <2>2. backlog[i + 1] \in Tokens
    BY <1>1, <2>1, ElementOfSeq
  <2> QED BY <1>2, <1>3, <1>4, <1>5, <2>1, <2>2
<1>7. ASSUME NEW i \in 1..Len(backlog'), NEW j \in 1..Len(backlog'), i # j
      PROVE  backlog'[i] # backlog'[j]
  <2>1. i + 1 \in 1..Len(backlog) /\ j + 1 \in 1..Len(backlog) /\ i + 1 # j + 1
        /\ backlog'[i] = backlog[i + 1] /\ backlog'[j] = backlog[j + 1]
    BY <1>2, <1>7
  <2> QED BY <1>4, <2>1
<1> QED BY <1>1, <1>2, <1>3, <1>5, <1>6, <1>7

LEMMA DiscoveryStep == ASSUME DiscoveryInv, Next PROVE DiscoveryInv'
<1>0. /\ MaxTime \in Nat /\ MaxErrors \in Nat /\ MaxAttempts \in Nat \ {0}
      /\ IsFiniteSet(Tokens)
  BY DiscoveryAssumption
<1>t. /\ now \in 0..MaxTime /\ row \in [Tokens -> Token]
      /\ frame \subseteq Sighting /\ Cardinality(frame) <= 1
      /\ listing \in Seq(Sighting) /\ backlog \in Seq(Tokens)
      /\ pc \in {"idle", "poll", "read", "backfill"} /\ errors \in 0..MaxErrors
  BY DEF DiscoveryInv, TypeOK
<1>e. {} \subseteq Sighting /\ Cardinality({}) <= 1 /\ <<>> \in Seq(Sighting)
      /\ <<>> \in Seq(Tokens) /\ Len(<<>>) = 0
  BY FS_EmptySet, EmptySeq
<1>1. CASE Tick
  <2>1. now' \in 0..MaxTime /\ UNCHANGED <<row, frame, listing, backlog, pc, errors>>
    BY <1>0, <1>t, <1>1 DEF Tick
  <2> QED BY <2>1 DEF DiscoveryInv, TypeOK, WorkAtHand, BacklogWorth, BudgetKept
<1>2. ASSUME NEW t \in Tokens, ReceiveFrame(t) PROVE DiscoveryInv'
  <2> DEFINE s == [id |-> t, at |-> now, source |-> "pumpportal", dated |-> FALSE]
  <2>1. s \in Sighting
    BY <1>0, <1>t DEF Sighting, Sources
  <2>2. frame' = {s} /\ UNCHANGED <<now, row, listing, backlog, pc, errors>>
    BY <1>2 DEF ReceiveFrame
  <2> HIDE DEF s
  <2>3. frame' \subseteq Sighting /\ Cardinality(frame') <= 1
    BY <2>1, <2>2, FS_Singleton
  <2> QED BY <2>2, <2>3 DEF DiscoveryInv, TypeOK, WorkAtHand, BacklogWorth, BudgetKept
<1>3. CASE HandleFrame
  <2>1. PICK s \in frame : row' = Upsert(s)
    BY <1>3 DEF HandleFrame
  <2>2. frame' = {} /\ UNCHANGED <<now, listing, backlog, pc, errors>> /\ s \in Sighting
    BY <1>t, <1>3 DEF HandleFrame
  <2>3. row' \in [Tokens -> Token]
    BY <1>t, <2>1, <2>2, UpsertKeeps
  <2>4. TypeOK'
    BY <1>t, <1>e, <2>2, <2>3 DEF TypeOK
  <2>5. BacklogWorth' /\ BudgetKept'
    BY <2>1, <2>2, BacklogUnderUpsert DEF DiscoveryInv, BacklogWorth, BudgetKept
  <2> QED BY <2>2, <2>4, <2>5 DEF DiscoveryInv, WorkAtHand
<1>4. CASE PollList
  <2>1. PICK order \in SetToAllKPermutations(Tokens), undated \in SUBSET Tokens :
          /\ listing' = [i \in DOMAIN order |->
                           [id |-> order[i], at |-> now, source |-> "pumpfun",
                            dated |-> order[i] \notin undated]]
          /\ pc' = IF order = <<>> THEN "read" ELSE "poll"
    BY <1>4 DEF PollList
  <2>2. order \in Seq(Tokens)
    BY <1>0, PermutationIsSequence
  <2>3. DOMAIN order = 1..Len(order) /\ Len(order) \in Nat
    BY <2>2, LenProperties
  <2>4. ASSUME NEW i \in 1..Len(order)
        PROVE  [id |-> order[i], at |-> now, source |-> "pumpfun",
                dated |-> order[i] \notin undated] \in Sighting
    <3>1. order[i] \in Tokens
      BY <2>2, ElementOfSeq
    <3> QED BY <1>0, <1>t, <3>1 DEF Sighting, Sources
  <2>5. listing' \in Seq(Sighting) /\ Len(listing') = Len(order)
    BY <2>1, <2>3, <2>4, IsASeq, LenProperties
  <2>6. order # <<>> => listing' # <<>>
    BY <1>e, <2>2, <2>5, EmptySeq
  <2>7. UNCHANGED <<now, row, frame, backlog, errors>>
    BY <1>4 DEF PollList
  <2>8. TypeOK'
    BY <1>t, <2>1, <2>5, <2>7 DEF TypeOK
  <2>9. WorkAtHand'
    BY <2>1, <2>6 DEF WorkAtHand
  <2> QED BY <2>7, <2>8, <2>9 DEF DiscoveryInv, BacklogWorth, BudgetKept
<1>5. CASE StoreItem
  <2>1. /\ pc = "poll" /\ row' = Upsert(Head(listing)) /\ listing' = Tail(listing)
        /\ pc' = (IF Len(listing) = 1 THEN "read" ELSE "poll")
        /\ UNCHANGED <<now, frame, backlog, errors>> /\ listing # <<>>
    BY <1>5 DEF StoreItem, DiscoveryInv, WorkAtHand
  <2>2. Head(listing) \in Sighting /\ listing' \in Seq(Sighting)
        /\ (Len(listing) = 1 <=> listing' = <<>>)
    BY <1>t, <2>1, TailElements
  <2>3. row' \in [Tokens -> Token]
    BY <1>t, <2>1, <2>2, UpsertKeeps
  <2>4. TypeOK'
    BY <1>t, <2>1, <2>2, <2>3 DEF TypeOK
  <2>5. BacklogWorth' /\ BudgetKept'
    BY <2>1, <2>2, BacklogUnderUpsert DEF DiscoveryInv, BacklogWorth, BudgetKept
  <2> QED BY <2>1, <2>2, <2>4, <2>5 DEF DiscoveryInv, WorkAtHand
<1>6. CASE ReadMissing
  <2>1. PICK order \in SetToAllKPermutations(Missing) :
          backlog' = order /\ pc' = IF order = <<>> THEN "idle" ELSE "backfill"
    BY <1>6 DEF ReadMissing
  <2>2. Missing \subseteq Tokens /\ IsFiniteSet(Missing)
    BY <1>0, FS_Subset DEF Missing
  <2>3. order \in Seq(Missing) /\ \A i, j \in 1..Len(order) : i # j => order[i] # order[j]
    BY <2>2, PermutationIsSequence
  <2>4. order \in Seq(Tokens) /\ \A i \in 1..Len(order) : order[i] \in Missing
    BY <2>2, <2>3, ElementOfSeq, SeqMonotonic
  <2>5. UNCHANGED <<now, row, frame, listing, errors>> /\ pc = "read"
    BY <1>6 DEF ReadMissing
  <2>6. TypeOK'
    BY <1>t, <2>1, <2>4, <2>5 DEF TypeOK
  <2>7. BacklogWorth'
    BY <2>1, <2>3, <2>4, <2>5 DEF BacklogWorth, Missing
  <2> QED BY <2>1, <2>5, <2>6, <2>7 DEF DiscoveryInv, WorkAtHand, BudgetKept
<1>7. CASE Fill
  <2> DEFINE s == [id |-> Head(backlog), at |-> now, source |-> "pumpfun", dated |-> TRUE]
  <2>1. pc = "backfill" /\ row' = Upsert(s) /\ NextAddress
    BY <1>7 DEF Fill
  <2>2. /\ Head(backlog) \in Tokens
        /\ backlog' \in Seq(Tokens) /\ pc' \in {"idle", "backfill"}
        /\ pc' = "backfill" => backlog' # <<>>
        /\ \A i \in 1..Len(backlog') : /\ backlog'[i] \in Tokens
                                       /\ row[backlog'[i]].discovered # Never
                                       /\ row[backlog'[i]].attempts < MaxAttempts
        /\ \A i, j \in 1..Len(backlog') : i # j => backlog'[i] # backlog'[j]
    BY <2>1, BacklogConsumed
  <2>3. s \in Sighting
    BY <1>0, <1>t, <2>2 DEF Sighting, Sources
  <2> HIDE DEF s
  <2>4. row' \in [Tokens -> Token]
    BY <1>t, <2>1, <2>3, UpsertKeeps
  <2>5. UNCHANGED <<now, frame, listing, errors>>
    BY <2>1 DEF NextAddress
  <2>6. TypeOK'
    BY <1>t, <2>2, <2>4, <2>5 DEF TypeOK
  <2>7. \A t \in Tokens : row[t].discovered # Never =>
          row'[t].discovered # Never /\ row'[t].attempts = row[t].attempts
    BY <1>t, <2>1, <2>3, UpsertKeeps
  <2>8. BacklogWorth'
    BY <2>2, <2>7 DEF BacklogWorth
  <2>9. BudgetKept'
    BY <2>1, <2>3, BacklogUnderUpsert DEF BudgetKept
  <2> QED BY <2>2, <2>6, <2>8, <2>9 DEF DiscoveryInv, WorkAtHand
<1>8. CASE SpendAttempt
  <2> DEFINE h == Head(backlog)
             spent == [row[h] EXCEPT !.attempts = @ + 1]
  <2>1. pc = "backfill" /\ NextAddress /\ row' = [row EXCEPT ![h] = spent]
    BY <1>8 DEF SpendAttempt
  <2>2. /\ h \in Tokens /\ row[h].discovered # Never /\ row[h].attempts < MaxAttempts
        /\ backlog' \in Seq(Tokens) /\ pc' \in {"idle", "backfill"}
        /\ pc' = "backfill" => backlog' # <<>>
        /\ \A i \in 1..Len(backlog') : /\ backlog'[i] \in Tokens /\ backlog'[i] # h
                                       /\ row[backlog'[i]].discovered # Never
                                       /\ row[backlog'[i]].attempts < MaxAttempts
        /\ \A i, j \in 1..Len(backlog') : i # j => backlog'[i] # backlog'[j]
    BY <2>1, BacklogConsumed
  <2>3. row[h] \in Token /\ row[h].attempts \in Nat
    BY <1>t, <2>2 DEF Token
  <2>4. spent \in Token /\ spent.attempts = row[h].attempts + 1
    BY <2>3 DEF Token
  <2> HIDE DEF h, spent
  <2>5. row' \in [Tokens -> Token] /\ row'[h] = spent
        /\ \A t \in Tokens : t # h => row'[t] = row[t]
    BY <1>t, <2>1, <2>2, <2>4
  <2>6. UNCHANGED <<now, frame, listing, errors>>
    BY <2>1 DEF NextAddress
  <2>7. TypeOK'
    BY <1>t, <2>2, <2>5, <2>6 DEF TypeOK
  <2>8. BacklogWorth'
    BY <2>2, <2>5 DEF BacklogWorth
  <2>9. spent.attempts <= MaxAttempts
    BY <1>0, <2>2, <2>3, <2>4
  <2>10. BudgetKept'
    BY <2>5, <2>9 DEF DiscoveryInv, BudgetKept
  <2> QED BY <2>2, <2>7, <2>8, <2>10 DEF DiscoveryInv, WorkAtHand
<1>9. CASE RateLimited
  <2>1. errors' \in 0..MaxErrors
    <3>1. errors < MaxErrors /\ errors' = errors + 1
      BY <1>9 DEF RateLimited
    <3> QED BY <1>0, <1>t, <3>1
  <2>2. backlog' = <<>> /\ pc' \in {"read", "idle"} /\ UNCHANGED <<now, row, frame, listing>>
    BY <1>9 DEF RateLimited
  <2>3. TypeOK'
    BY <1>t, <1>e, <2>1, <2>2 DEF TypeOK
  <2>4. WorkAtHand' /\ BudgetKept'
    BY <2>2 DEF WorkAtHand, DiscoveryInv, BudgetKept
  <2>5. BacklogWorth'
    BY <1>e, <2>2 DEF BacklogWorth
  <2> QED BY <2>3, <2>4, <2>5 DEF DiscoveryInv
<1>10. CASE Crash
  <2>1. errors' \in 0..MaxErrors
    <3>1. errors < MaxErrors /\ errors' = errors + 1
      BY <1>10 DEF Crash
    <3> QED BY <1>0, <1>t, <3>1
  <2>2. /\ backlog' = <<>> /\ frame' = {} /\ listing' = <<>> /\ pc' = "idle"
        /\ UNCHANGED <<now, row>>
    BY <1>10 DEF Crash
  <2>3. TypeOK'
    BY <1>t, <1>e, <2>1, <2>2 DEF TypeOK
  <2>4. WorkAtHand' /\ BudgetKept'
    BY <2>2 DEF WorkAtHand, DiscoveryInv, BudgetKept
  <2>5. BacklogWorth'
    BY <1>e, <2>2 DEF BacklogWorth
  <2> QED BY <2>3, <2>4, <2>5 DEF DiscoveryInv
<1> QED
  BY <1>1, <1>2, <1>3, <1>4, <1>5, <1>6, <1>7, <1>8, <1>9, <1>10 DEF Next, Poller

LEMMA DiscoveryAlways == Spec => []DiscoveryInv
<1>1. DiscoveryInv /\ [Next]_vars => DiscoveryInv'
  <2> SUFFICES ASSUME DiscoveryInv, [Next]_vars PROVE DiscoveryInv'
    OBVIOUS
  <2>1. CASE Next
    BY <2>1, DiscoveryStep
  <2>2. CASE UNCHANGED vars
    BY <2>2 DEF vars, DiscoveryInv, TypeOK, WorkAtHand, BacklogWorth, BudgetKept
  <2> QED BY <2>1, <2>2
<1> QED BY <1>1, DiscoveryInit, PTL DEF Spec

(* Rows, frames, listings and backlogs are typed, for any tokens and       *)
(* limits.                                                                 *)
THEOREM DiscoveryTyped == Spec => []TypeOK
<1>1. DiscoveryInv => TypeOK
  BY DEF DiscoveryInv
<1> QED BY <1>1, DiscoveryAlways, PTL

(* Whatever order two loops and their restarts commit in, a stored token   *)
(* keeps its discovery and its creation time, gets no attempt back and     *)
(* costs MaxAttempts requests at most: for any tokens, limits and errors.  *)
THEOREM HistoryAlwaysKept == Spec => HistoryKept
<1>1. ASSUME DiscoveryInv, Next, NEW t \in Tokens, row[t].discovered # Never
      PROVE  /\ row'[t].discovered = row[t].discovered /\ row'[t].source = row[t].source
             /\ row[t].dated => row'[t].dated
             /\ row'[t].attempts \in row[t].attempts .. MaxAttempts
  <2>1. /\ row \in [Tokens -> Token] /\ row[t] \in Token /\ MaxAttempts \in Nat
        /\ row[t].attempts \in Nat /\ row[t].attempts <= MaxAttempts
    BY <1>1, DiscoveryAssumption DEF DiscoveryInv, TypeOK, BudgetKept, Token
  <2>2. CASE UNCHANGED row
    BY <2>1, <2>2
  <2>3. ASSUME NEW s \in Sighting, row' = Upsert(s)
        PROVE  /\ row'[t].discovered = row[t].discovered /\ row'[t].source = row[t].source
               /\ row[t].dated => row'[t].dated
               /\ row'[t].attempts \in row[t].attempts .. MaxAttempts
    BY <1>1, <2>1, <2>3, UpsertKeeps
  <2>4. CASE HandleFrame
    BY <1>1, <2>3, <2>4 DEF HandleFrame, DiscoveryInv, TypeOK
  <2>5. CASE StoreItem
    <3>1. Head(listing) \in Sighting
      BY <1>1, <2>5, TailElements DEF StoreItem, DiscoveryInv, TypeOK, WorkAtHand
    <3> QED BY <2>3, <2>5, <3>1 DEF StoreItem
  <2>6. CASE Fill
    <3>1. Head(backlog) \in Tokens /\ now \in Nat
      BY <1>1, <2>6, BacklogConsumed, DiscoveryAssumption DEF Fill, DiscoveryInv, TypeOK
    <3>2. [id |-> Head(backlog), at |-> now, source |-> "pumpfun", dated |-> TRUE] \in Sighting
      BY <3>1 DEF Sighting, Sources
    <3> QED BY <2>3, <2>6, <3>2 DEF Fill
  <2>7. CASE SpendAttempt
    <3> DEFINE h == Head(backlog)
    <3>1. h \in Tokens /\ row[h].attempts < MaxAttempts
      BY <1>1, <2>7, BacklogConsumed DEF SpendAttempt
    <3>2. row' = [row EXCEPT ![h].attempts = @ + 1]
      BY <2>7 DEF SpendAttempt
    <3> HIDE DEF h
    <3>3. CASE t = h
      <4>1. row'[t] = [row[t] EXCEPT !.attempts = @ + 1]
        BY <2>1, <3>1, <3>2, <3>3
      <4>2. /\ row'[t].discovered = row[t].discovered /\ row'[t].source = row[t].source
            /\ row'[t].dated = row[t].dated /\ row'[t].attempts = row[t].attempts + 1
        BY <2>1, <4>1 DEF Token
      <4> QED BY <2>1, <3>1, <3>3, <4>2
    <3>4. CASE t # h
      BY <2>1, <3>2, <3>4
    <3> QED BY <3>3, <3>4
  <2> QED
    BY <1>1, <2>2, <2>4, <2>5, <2>6, <2>7 DEF Next, Poller, Tick, ReceiveFrame, PollList,
       ReadMissing, RateLimited, Crash
<1>2. DiscoveryInv /\ [Next]_vars
        => [\A t \in Tokens : row[t].discovered # Never =>
              /\ row'[t].discovered = row[t].discovered /\ row'[t].source = row[t].source
              /\ row[t].dated => row'[t].dated
              /\ row'[t].attempts \in row[t].attempts .. MaxAttempts]_vars
  BY <1>1
<1> QED BY <1>2, DiscoveryAlways, PTL DEF Spec, HistoryKept
-----------------------------------------------------------------------------
(* One request of the primary.                                             *)

(* Each delay is twice the one before, and the bound has room for all      *)
(* those that may still come.                                              *)
RoomLeft(since, n) == since + BackoffBase * (Power2[HttpAttempts - 1] - Power2[n]) <= HttpTime

Progress ==
  /\ Len(sent) <= HttpAttempts
  /\ step # "idle" => sent # <<>> /\ received \in Http!Time
  /\ step = "asking" => sent[Len(sent)] <= clock /\ RoomLeft(clock, Len(sent) - 1)
  /\ step = "backoff" =>
       /\ Len(sent) < HttpAttempts /\ wake \in Http!Time /\ clock <= wake
       /\ wake >= sent[Len(sent)] + BackoffBase * Power2[Len(sent) - 1]
       /\ RoomLeft(wake, Len(sent))

Spaced ==
  \A i \in 1 .. Len(sent) - 1 : sent[i + 1] - sent[i] >= BackoffBase * Power2[i - 1]

(* Every answer was worth a retry, except the one that ended the call.     *)
AnswersRetried ==
  \A i \in 1..Len(answers) :
    answers[i] \in Http!Retried \/ (step = "done" /\ i = Len(answers))

(* What ends the call is its result.                                       *)
LastDecides ==
  step = "done" =>
    /\ result.outcome = Http!Outcome(answers[Len(answers)])
    /\ answers[Len(answers)] \in Http!Retried => Len(answers) = HttpAttempts

HttpInv == Http!TypeOK /\ Progress /\ Spaced /\ AnswersRetried /\ LastDecides

LEMMA SamePowers == Http!Power2 = Power2
BY DEF Http!Power2, Power2

(* A delay is not longer than what the bound leaves for it and those that  *)
(* may follow.                                                             *)
LEMMA RoomForDelay ==
  ASSUME NEW b \in Nat, NEW most \in Nat, NEW p \in Nat, NEW c \in Nat, NEW t \in Nat,
         c + b * (most - p) <= t, 2 * p <= most
  PROVE  c + b * p <= t /\ (c + b * p) + b * (most - 2 * p) <= t
<1>1. b * (most - p) = b * p + b * (most - 2 * p)
  <2>1. ASSUME NEW x \in Int, NEW y \in Int, NEW z \in Int, x = y + z PROVE b * x = b * y + b * z
    BY <2>1
  <2> QED BY <2>1
<1>2. b * (most - 2 * p) >= 0
  <2>1. ASSUME NEW x \in Nat PROVE b * x >= 0
    OBVIOUS
  <2>2. most - 2 * p \in Nat
    OBVIOUS
  <2> QED BY <2>1, <2>2
<1>3. b * (most - p) \in Int /\ b * p \in Int /\ b * (most - 2 * p) \in Int
  OBVIOUS
<1> DEFINE x == b * (most - p)
           y == b * p
           z == b * (most - 2 * p)
<1> HIDE DEF x, y, z
<1>4. x \in Int /\ y \in Int /\ z \in Int /\ x = y + z /\ z >= 0 /\ c + x <= t
  BY <1>1, <1>2, <1>3 DEF x, y, z
<1>5. c + y <= t /\ (c + y) + z <= t
  BY <1>4
<1> QED BY <1>5 DEF y, z

LEMMA HttpTypes ==
  ASSUME Http!HttpAssumption
  PROVE  /\ HttpAttempts \in Nat \ {0} /\ BackoffBase \in Nat \ {0}
         /\ HttpTime \in Nat /\ RoomLeft(0, 0)
<1>1. Power2[0] = 1
  BY Power2Unfolds
<1>2. /\ HttpAttempts \in Nat \ {0} /\ BackoffBase \in Nat \ {0}
      /\ HttpTime \in Nat
      /\ BackoffBase * (Power2[HttpAttempts - 1] - 1) <= HttpTime
  BY SamePowers DEF Http!HttpAssumption
<1>3. HttpAttempts - 1 \in Nat
  BY <1>2
<1>4. Power2[HttpAttempts - 1] \in Nat
  BY <1>3, Power2Type
<1> DEFINE x == BackoffBase * (Power2[HttpAttempts - 1] - 1)
<1>5. x \in Int /\ x <= HttpTime
  BY <1>2, <1>4
<1> HIDE DEF x
<1>6. 0 + x <= HttpTime
  BY <1>2, <1>5
<1> QED BY <1>1, <1>2, <1>6 DEF RoomLeft, x

LEMMA HttpInit == ASSUME Http!HttpAssumption, Http!Init PROVE HttpInv
<1>1. sent = <<>> /\ answers = <<>> /\ Len(<<>>) = 0 /\ step = "idle"
  BY EmptySeq DEF Http!Init
<1>2. <<>> \in Seq(Http!Time) /\ <<>> \in Seq(Http!Answers)
  BY EmptySeq
<1>3. clock \in Http!Time
  BY HttpTypes DEF Http!Init, Http!Time
<1>4. Http!TypeOK
  BY <1>1, <1>2, <1>3 DEF Http!Init, Http!TypeOK
<1> QED
  BY <1>1, <1>4, HttpTypes
     DEF Http!Init, HttpInv, Progress, Spaced, AnswersRetried, LastDecides
(* The delays of a call never leave its bound.                             *)
LEMMA RoomForNext ==
  ASSUME Http!HttpAssumption, NEW c \in Nat, NEW n \in Nat \ {0}, n < HttpAttempts,
         RoomLeft(c, n - 1)
  PROVE  /\ BackoffBase * Power2[n - 1] \in Nat
         /\ c + BackoffBase * Power2[n - 1] <= HttpTime
         /\ RoomLeft(c + BackoffBase * Power2[n - 1], n)
<1>1. HttpAttempts \in Nat \ {0} /\ BackoffBase \in Nat /\ HttpTime \in Nat
  BY HttpTypes
<1>2. n - 1 \in Nat /\ n \in Nat /\ HttpAttempts - 1 \in Nat /\ n <= HttpAttempts - 1 /\ n # 0
  BY <1>1
<1>3. /\ Power2[n - 1] \in Nat /\ Power2[HttpAttempts - 1] \in Nat
      /\ Power2[n] = 2 * Power2[n - 1]
  BY <1>2, Power2Type, Power2Unfolds
<1>4. Power2[n] <= Power2[HttpAttempts - 1]
  BY <1>2, Power2Grows
<1> DEFINE p == Power2[n - 1]
           most == Power2[HttpAttempts - 1]
<1>5. p \in Nat /\ most \in Nat /\ 2 * p <= most /\ Power2[n] = 2 * p
  BY <1>3, <1>4
<1>6. c + BackoffBase * (most - p) <= HttpTime
  BY DEF RoomLeft
<1> HIDE DEF p, most
<1>7. /\ c + BackoffBase * p <= HttpTime
      /\ (c + BackoffBase * p) + BackoffBase * (most - 2 * p) <= HttpTime
  BY <1>1, <1>5, <1>6, RoomForDelay
<1>8. BackoffBase * p \in Nat
  BY <1>1, <1>5
<1> QED BY <1>5, <1>7, <1>8 DEF RoomLeft, p, most

LEMMA HttpStep == ASSUME Http!HttpAssumption, HttpInv, Http!Next PROVE HttpInv'
<1>0. /\ HttpAttempts \in Nat \ {0} /\ BackoffBase \in Nat \ {0}
      /\ HttpTime \in Nat /\ RoomLeft(0, 0)
  BY HttpTypes
<1>t. /\ clock \in Http!Time /\ clock \in Nat /\ step \in {"idle", "asking", "backoff", "done"}
      /\ sent \in Seq(Http!Time) /\ answers \in Seq(Http!Answers)
      /\ Len(sent) = Len(answers) + IF step = "asking" THEN 1 ELSE 0
      /\ wake \in Http!Time \cup {Http!Never} /\ received \in Http!Time \cup {Http!Never}
      /\ result \in Http!Snapshot \cup Http!Failure \cup {Http!NoResult}
      /\ Len(sent) \in Nat /\ Len(answers) \in Nat
      /\ \A i \in 1..Len(sent) : sent[i] \in Http!Time /\ sent[i] \in Nat
  <2>1. Http!TypeOK /\ Http!Time \subseteq Nat
    BY <1>0 DEF HttpInv, Http!Time
  <2>2. sent \in Seq(Http!Time) /\ answers \in Seq(Http!Answers)
    BY <2>1 DEF Http!TypeOK
  <2>3. Len(sent) \in Nat /\ Len(answers) \in Nat /\ \A i \in 1..Len(sent) : sent[i] \in Http!Time
    BY <2>2, LenProperties, ElementOfSeq
  <2> QED BY <2>1, <2>2, <2>3 DEF Http!TypeOK
<1>p. Progress /\ Spaced /\ AnswersRetried /\ LastDecides
  BY DEF HttpInv
<1>w. step # "idle" => Len(sent) \in Nat \ {0}
  BY <1>t, <1>p, EmptySeq DEF Progress
<1>1. CASE Http!FetchSnapshot
  <2>1. /\ step' = "asking" /\ clock' = 0 /\ sent' = <<0>> /\ answers' = <<>>
        /\ received' = 0 /\ result' = Http!NoResult /\ wake' = Http!Never
    BY <1>1 DEF Http!FetchSnapshot
  <2>2. 0 \in Http!Time /\ <<>> \in Seq(Http!Answers) /\ Len(<<>>) = 0
    BY <1>0, EmptySeq DEF Http!Time
  <2>3. sent' \in Seq(Http!Time) /\ Len(sent') = 1 /\ sent'[1] = 0 /\ sent' # <<>>
    BY <2>1, <2>2
  <2>4. Http!TypeOK'
    BY <2>1, <2>2, <2>3 DEF Http!TypeOK
  <2>5. Progress'
    <3>1. RoomLeft(clock', 1 - 1)
      BY <1>0, <2>1
    <3> QED BY <1>0, <2>1, <2>2, <2>3, <3>1 DEF Progress, RoomLeft, Http!Time
  <2>6. Spaced' /\ AnswersRetried' /\ LastDecides'
    BY <2>1, <2>2, <2>3 DEF Spaced, AnswersRetried, LastDecides
  <2> QED BY <2>4, <2>5, <2>6 DEF HttpInv
<1>2. CASE Http!Tick
  <2>1. clock' = clock + 1 /\ UNCHANGED <<step, sent, answers, wake, received, result>>
    BY <1>2 DEF Http!Tick
  <2>2. CASE step = "asking"
    <3> DEFINE n == Len(sent)
               x == BackoffBase * (Power2[HttpAttempts - 1] - Power2[n - 1])
    <3>1. clock + x < HttpTime
      BY <1>2, <2>2, SamePowers DEF Http!Tick, Http!attempt
    <3>2. x \in Nat
      <4>1. n - 1 \in Nat /\ HttpAttempts - 1 \in Nat /\ n - 1 <= HttpAttempts - 1
        BY <1>0, <1>p, <1>w, <2>2 DEF Progress
      <4>2. Power2[n - 1] \in Nat /\ Power2[HttpAttempts - 1] \in Nat
            /\ Power2[n - 1] <= Power2[HttpAttempts - 1]
        BY <4>1, Power2Type, Power2Grows
      <4>3. Power2[HttpAttempts - 1] - Power2[n - 1] \in Nat
        BY <4>2
      <4> HIDE DEF n
      <4> QED BY <1>0, <4>3
    <3> HIDE DEF x
    <3>3. clock' \in Http!Time /\ (clock + 1) + x <= HttpTime
      BY <1>0, <1>t, <2>1, <3>1, <3>2 DEF Http!Time
    <3>4. Http!TypeOK'
      BY <1>t, <2>1, <3>3 DEF Http!TypeOK
    <3>5. sent[Len(sent)] <= clock'
      BY <1>t, <1>p, <1>w, <2>1, <2>2 DEF Progress
    <3>6. RoomLeft(clock', Len(sent) - 1)
      BY <2>1, <3>3 DEF RoomLeft, x
    <3>7. Progress'
      BY <1>p, <2>1, <2>2, <3>5, <3>6 DEF Progress, RoomLeft, Http!Time
    <3> QED BY <1>p, <2>1, <3>4, <3>7 DEF HttpInv, Spaced, AnswersRetried, LastDecides
  <2>3. CASE step = "backoff"
    <3>1. clock < wake /\ wake \in Http!Time
      BY <1>2, <1>p, <2>3 DEF Http!Tick, Progress
    <3>2. clock' \in Http!Time /\ clock' <= wake
      BY <1>0, <1>t, <2>1, <3>1 DEF Http!Time
    <3>3. Http!TypeOK'
      BY <1>t, <2>1, <3>2 DEF Http!TypeOK
    <3>4. Progress'
      BY <1>p, <2>1, <2>3, <3>2 DEF Progress, RoomLeft, Http!Time
    <3> QED BY <1>p, <2>1, <3>3, <3>4 DEF HttpInv, Spaced, AnswersRetried, LastDecides
  <2> QED BY <1>2, <2>2, <2>3 DEF Http!Tick
<1>3. ASSUME NEW a \in Http!Answers, Http!Retry(a) PROVE HttpInv'
  <2> DEFINE n == Len(sent)
             pause == BackoffBase * Power2[n - 1]
  <2>1. /\ step = "asking" /\ a \in Http!Retried /\ n < HttpAttempts
        /\ answers' = Append(answers, a) /\ step' = "backoff" /\ wake' = clock + pause
        /\ UNCHANGED <<clock, sent, received, result>>
    BY <1>3, SamePowers DEF Http!Retry, Http!Retryable, Http!attempt, Http!BackoffDelay
  <2>2. n \in Nat \ {0} /\ sent[n] <= clock /\ RoomLeft(clock, n - 1)
    BY <1>p, <1>w, <2>1 DEF Progress
  <2>3. pause \in Nat /\ clock + pause <= HttpTime /\ RoomLeft(clock + pause, n)
    BY <1>t, <2>1, <2>2, RoomForNext
  <2> HIDE DEF pause
  <2>4. wake' \in Http!Time /\ clock <= wake'
    BY <1>0, <1>t, <2>1, <2>3 DEF Http!Time
  <2>5. wake' >= sent[n] + pause
    BY <1>t, <2>1, <2>2, <2>3
  <2>6. /\ answers' \in Seq(Http!Answers) /\ Len(answers') = Len(answers) + 1
        /\ \A i \in 1..Len(answers) : answers'[i] = answers[i]
        /\ answers'[Len(answers) + 1] = a
    BY <1>t, <2>1, AppendProperties
  <2>7. Http!TypeOK'
    BY <1>t, <2>1, <2>4, <2>6 DEF Http!TypeOK
  <2>8. Progress'
    <3>1. RoomLeft(wake', n)
      BY <2>1, <2>3
    <3> QED BY <1>p, <2>1, <2>4, <2>5, <3>1 DEF Progress, RoomLeft, Http!Time, pause
  <2>9. AnswersRetried'
    <3>1. ASSUME NEW i \in 1..Len(answers') PROVE answers'[i] \in Http!Retried
      <4>1. i \in 1..Len(answers) \/ i = Len(answers) + 1
        BY <1>t, <2>6
      <4> QED BY <1>p, <2>1, <2>6, <4>1 DEF AnswersRetried
    <3> QED BY <3>1 DEF AnswersRetried, Http!Retried
  <2> QED BY <1>p, <2>1, <2>7, <2>8, <2>9 DEF HttpInv, Spaced, LastDecides
<1>4. CASE Http!Resend
  <2> DEFINE n == Len(sent)
  <2>1. /\ step = "backoff" /\ clock >= wake
        /\ step' = "asking" /\ sent' = Append(sent, clock)
        /\ UNCHANGED <<clock, answers, wake, received, result>>
    BY <1>4 DEF Http!Resend
  <2>2. /\ n \in Nat \ {0} /\ n < HttpAttempts /\ wake \in Http!Time /\ clock <= wake
        /\ wake >= sent[n] + BackoffBase * Power2[n - 1] /\ RoomLeft(wake, n)
    BY <1>p, <1>w, <2>1 DEF Progress
  <2>3. clock = wake
    BY <1>0, <1>t, <2>1, <2>2 DEF Http!Time
  <2>4. /\ sent' \in Seq(Http!Time) /\ Len(sent') = n + 1
        /\ \A i \in 1..n : sent'[i] = sent[i]
        /\ sent'[n + 1] = clock
    BY <1>t, <2>1, AppendProperties
  <2>5. Http!TypeOK'
    BY <1>t, <2>1, <2>4 DEF Http!TypeOK
  <2>6. Progress'
    <3>1. Len(sent') <= HttpAttempts /\ Len(sent') # 0 /\ Len(sent') - 1 = n
      BY <1>0, <2>2, <2>4
    <3>2. sent' # <<>>
      BY <2>4, <3>1, EmptySeq
    <3>3. RoomLeft(clock, Len(sent') - 1)
      BY <2>2, <2>3, <3>1
    <3>4. sent'[Len(sent')] <= clock
      BY <1>t, <2>4
    <3> QED BY <1>p, <2>1, <3>1, <3>2, <3>3, <3>4 DEF Progress, RoomLeft, Http!Time
  <2>7. Spaced'
    <3>1. ASSUME NEW i \in 1..(Len(sent') - 1)
          PROVE  sent'[i + 1] - sent'[i] >= BackoffBase * Power2[i - 1]
      <4>1. i \in 1..n /\ (i = n \/ i \in 1..(n - 1))
        BY <1>t, <2>4
      <4>2. CASE i = n
        <5>1. sent[n] \in Nat /\ BackoffBase * Power2[n - 1] \in Nat
          <6>1. n - 1 \in Nat
            BY <2>2
          <6>2. Power2[n - 1] \in Nat
            BY <6>1, Power2Type
          <6> HIDE DEF n
          <6>3. BackoffBase * Power2[n - 1] \in Nat
            BY <1>0, <6>2
          <6> QED BY <1>t, <2>2, <6>3 DEF n
        <5> DEFINE y == BackoffBase * Power2[n - 1]
        <5> HIDE DEF y
        <5>2. y \in Nat /\ wake >= sent[n] + y /\ wake = clock /\ sent[n] \in Nat /\ clock \in Nat
          BY <1>t, <2>2, <2>3, <5>1 DEF y
        <5>3. clock - sent[n] >= y
          BY <5>2
        <5> QED BY <2>4, <4>1, <4>2, <5>3 DEF y
      <4>3. CASE i \in 1..(n - 1)
        <5>1. i + 1 \in 1..n
          BY <1>t, <4>3
        <5> QED BY <1>p, <2>4, <4>1, <4>3, <5>1 DEF Spaced
      <4> QED BY <4>1, <4>2, <4>3
    <3> QED BY <3>1 DEF Spaced
  <2>8. AnswersRetried' /\ LastDecides'
    BY <1>p, <2>1 DEF AnswersRetried, LastDecides, Http!Retried, Http!NoResult
  <2> QED BY <2>5, <2>6, <2>7, <2>8 DEF HttpInv
<1>5. ASSUME NEW a \in Http!Answers, Http!Finish(a) PROVE HttpInv'
  <2>1. result' = Http!Result(a)
    BY <1>5 DEF Http!Finish
  <2>2. /\ step = "asking" /\ (a \in Http!Retried => Len(sent) >= HttpAttempts)
        /\ answers' = Append(answers, a) /\ step' = "done"
        /\ UNCHANGED <<clock, sent, wake, received>>
    BY <1>0, <1>t, <1>5 DEF Http!Finish, Http!Retryable, Http!attempt
  <2>3. /\ answers' \in Seq(Http!Answers) /\ Len(answers') = Len(answers) + 1
        /\ \A i \in 1..Len(answers) : answers'[i] = answers[i]
        /\ answers'[Len(answers) + 1] = a
    BY <1>t, <2>2, AppendProperties
  <2>4. Len(answers') = Len(sent)
    BY <1>t, <2>2, <2>3
  <2>5. received \in Http!Time /\ Len(sent) <= HttpAttempts
    BY <1>p, <2>2 DEF Progress
  <2>6. result' \in Http!Snapshot \cup Http!Failure /\ result'.outcome = Http!Outcome(a)
    <3>1. Http!Outcome(a) \in {"snapshot"} \cup Http!Failures
      BY DEF Http!Outcome, Http!Failures
    <3>2. CASE Http!Outcome(a) = "snapshot"
      BY <1>t, <2>1, <2>5, <3>2 DEF Http!Result, Http!Snapshot
    <3>3. CASE Http!Outcome(a) # "snapshot"
      BY <2>1, <3>1, <3>3 DEF Http!Result, Http!Failure
    <3> QED BY <3>2, <3>3
  <2>7. Http!TypeOK'
    BY <1>t, <2>2, <2>3, <2>4, <2>6 DEF Http!TypeOK
  <2>8. Progress'
    BY <1>p, <2>2 DEF Progress, Http!Time
  <2>9. Spaced'
    BY <1>p, <2>2 DEF Spaced
  <2>10. AnswersRetried'
    <3>1. ASSUME NEW i \in 1..Len(answers')
          PROVE  answers'[i] \in Http!Retried \/ i = Len(answers')
      <4>1. i \in 1..Len(answers) \/ i = Len(answers')
        BY <1>t, <2>3
      <4> QED BY <1>p, <2>2, <2>3, <4>1 DEF AnswersRetried
    <3> QED BY <2>2, <3>1 DEF AnswersRetried, Http!Retried
  <2>11. LastDecides'
    <3>1. answers'[Len(answers')] = a
      BY <2>3
    <3>2. a \in Http!Retried => Len(answers') = HttpAttempts
      BY <1>0, <1>t, <2>2, <2>4, <2>5
    <3> QED BY <2>2, <2>6, <3>1, <3>2 DEF LastDecides, Http!Outcome, Http!Retried
  <2> QED BY <2>7, <2>8, <2>9, <2>10, <2>11 DEF HttpInv
<1> QED BY <1>1, <1>2, <1>3, <1>4, <1>5 DEF Http!Next, Http!Respond
LEMMA HttpAlways == ASSUME Http!HttpAssumption PROVE Http!Spec => []HttpInv
<1>1. Http!Init => HttpInv
  BY HttpInit
<1>2. HttpInv /\ [Http!Next]_(Http!vars) => HttpInv'
  <2> SUFFICES ASSUME HttpInv, [Http!Next]_(Http!vars) PROVE HttpInv'
    OBVIOUS
  <2>1. CASE Http!Next
    BY <2>1, HttpStep
  <2>2. CASE UNCHANGED Http!vars
    BY <2>2 DEF Http!vars, HttpInv, Http!TypeOK, Progress, Spaced, AnswersRetried, LastDecides,
       RoomLeft, Http!Time, Http!Retried, Http!NoResult, Http!Outcome
  <2> QED BY <2>1, <2>2
<1> QED BY <1>1, <1>2, PTL DEF Http!Spec

(* The types of HttpRequest: a call has sent as many requests as it got    *)
(* answers, and one more while it waits; its delays stay in its bound.     *)
THEOREM HttpTyped == Http!Spec => []Http!TypeOK
<1>1. HttpInv => Http!TypeOK
  BY DEF HttpInv
<1> QED BY <1>1, HttpAlways, ProvidersAssumption, PTL

(* For any number of attempts and any base delay: the last answer decides  *)
(* the call, each answer before it was worth a retry, and each retry came  *)
(* after twice the wait of the one before.                                 *)
THEOREM RequestDecidedOnce == Http!Spec => []OneDecision
<1>1. ASSUME HttpInv, step = "done" PROVE Http!OneDecision
  <2>1. answers \in Seq(Http!Answers) /\ Len(answers) = Len(sent) /\ Len(answers) \in Nat
    BY <1>1, LenProperties DEF HttpInv, Http!TypeOK
  <2>2. Len(sent) # 0
    BY <1>1, EmptySeq DEF HttpInv, Progress, Http!TypeOK
  <2>3. answers[Len(answers)] \in Http!Answers
    BY <2>1, <2>2, ElementOfSeq
  <2>4. Http!Last(answers) = answers[Len(answers)]
    BY DEF Http!Last
  <2>5. \A i \in 1 .. Len(sent) - 1 : sent[i + 1] - sent[i] >= BackoffBase * Http!Power2[i - 1]
    BY <1>1, SamePowers DEF HttpInv, Spaced
  <2>6. \A i \in 1 .. Len(answers) - 1 : answers[i] \in Http!Retried
    BY <1>1, <2>1 DEF HttpInv, AnswersRetried
  <2>7. result.outcome = Http!Outcome(answers[Len(answers)])
        /\ (answers[Len(answers)] \in Http!Retried => Len(answers) = HttpAttempts)
    BY <1>1 DEF HttpInv, LastDecides
  <2>8. /\ result.outcome = "snapshot" <=> answers[Len(answers)] = "coin"
        /\ result.outcome = "rate_limited" <=> answers[Len(answers)] = "limited"
    BY <2>3, <2>7 DEF Http!Outcome, Http!Answers
  <2> QED BY <2>4, <2>5, <2>6, <2>7, <2>8 DEF Http!OneDecision
<1>2. HttpInv => Http!OneDecision
  BY <1>1 DEF Http!OneDecision
<1> QED BY <1>2, HttpAlways, ProvidersAssumption, PTL DEF OneDecision

-----------------------------------------------------------------------------
(* The push stream.                                                        *)

(* The counter of the provider counts the failures in a row; each of them  *)
(* is a failure of the behaviour, and one that is still to be counted      *)
(* hides in a connection whose frames are read to the end.                 *)
CountHonest ==
  /\ attempt = failed /\ failed <= failures
  /\ link = "open" => failed = 0
  /\ link = "closing" => failed = 0 /\ failures >= 1

(* A backoff is over when the delay of its failure has passed.             *)
BackoffElapses ==
  link = "backoff" =>
    /\ failed >= 1
    /\ elapsed + wait = Stream!Lesser(BaseDelay * Stream!Power2[failed - 1], MaxDelay)
StreamInv == Stream!TypeOK /\ CountHonest /\ BackoffElapses

LEMMA StreamTypes ==
  ASSUME Stream!StreamAssumption
  PROVE  /\ PollLimit \in Nat \ {0} /\ BaseDelay \in Nat /\ MaxDelay \in Nat
         /\ MaxCreated \in Nat /\ MaxFailures \in Nat /\ MaxCrashes \in Nat
BY DEF Stream!StreamAssumption

(* A delay is never longer than the cap.                                   *)
LEMMA DelayCapped ==
  ASSUME Stream!StreamAssumption, NEW n \in Nat \ {0}
  PROVE  /\ Stream!Delay(n) \in 0..MaxDelay
         /\ Stream!Delay(n) = Stream!Lesser(BaseDelay * Stream!Power2[n - 1], MaxDelay)
<1>1. Stream!Power2 = Power2
  BY DEF Stream!Power2, Power2
<1>2. n - 1 \in Nat
  OBVIOUS
<1>3. Stream!Power2[n - 1] \in Nat
  BY <1>1, <1>2, Power2Type
<1> DEFINE x == BaseDelay * Stream!Power2[n - 1]
<1>4. x \in Nat /\ MaxDelay \in Nat
  BY <1>3, StreamTypes
<1>5. Stream!Delay(n) = Stream!Lesser(x, MaxDelay)
  BY DEF Stream!Delay
<1> HIDE DEF x
<1>6. Stream!Lesser(x, MaxDelay) \in 0..MaxDelay
  BY <1>4 DEF Stream!Lesser
<1> QED BY <1>5, <1>6 DEF x

LEMMA SameCardinality == \A S : Stream!Cardinality(S) = Cardinality(S)
BY DEF Stream!Cardinality, Cardinality

(* The list shows tokens there are.                                        *)
LEMMA ListShowsMints ==
  ASSUME Stream!StreamAssumption, Stream!TypeOK, Stream!PollList
  PROVE  page' \in Seq(Stream!Mints) /\ unseen' \subseteq indexed
<1>1. created \in Nat /\ indexed \subseteq 1..created /\ unseen \subseteq indexed
  BY StreamTypes DEF Stream!TypeOK, Stream!Mints
<1>2. IsFiniteSet(indexed) /\ indexed \subseteq Int
  <2>1. IsFiniteSet(1..created) /\ 1..created \subseteq Int
    BY <1>1, FS_Interval
  <2> QED BY <1>1, <2>1, FS_Subset
<1>3. Cardinality(indexed) \in Nat
  BY <1>2, FS_CardinalityType
<1> DEFINE k == Stream!Lesser(PollLimit, Stream!Cardinality(indexed))
           shown == Stream!Newest(PollLimit)
<1>4. k \in Nat /\ k <= Cardinality(indexed)
  BY <1>3, StreamTypes, SameCardinality DEF Stream!Lesser
<1>5. \E s \in Stream!kSubset(k, indexed) : \A t \in s, u \in indexed \ s : t > u
  <2> HIDE DEF k
  <2>1. \E s \in SUBSET indexed : Cardinality(s) = k /\ \A t \in s, u \in indexed \ s : t > u
    BY <1>2, <1>4, NewestPart
  <2> QED BY <2>1, SameCardinality DEF Stream!kSubset
<1>6. shown \subseteq indexed
  <2>1. shown \in Stream!kSubset(k, indexed)
    <3>1. shown = CHOOSE s \in Stream!kSubset(k, indexed) : \A t \in s, u \in indexed \ s : t > u
      BY DEF Stream!Newest
    <3> HIDE DEF shown, k
    <3> QED BY <1>5, <3>1
  <2> HIDE DEF shown, k
  <2> QED BY <2>1 DEF Stream!kSubset
<1> DEFINE Ranked(S) == [i \in 1 .. Stream!Cardinality(S) |->
                           CHOOSE t \in S : Stream!Cardinality({u \in S : u > t}) = i - 1]
<1>p. PICK unreadable \in SUBSET shown :
        page' = Ranked(shown \ unreadable)
        /\ unseen' = unseen \cup unreadable \cup Stream!TooOld
  BY DEF Stream!PollList
<1> HIDE DEF shown
<1>7. PICK s \in SUBSET shown : page' = Ranked(s)
  <2>1. shown \ unreadable \in SUBSET shown
    OBVIOUS
  <2> HIDE DEF Ranked
  <2> QED BY <1>p, <2>1
<1> HIDE DEF shown
<1>8. s \subseteq shown /\ IsFiniteSet(s) /\ s \subseteq Int /\ Stream!Cardinality(s) \in Nat
      /\ s \subseteq 1..created
  <2>1. s \subseteq shown /\ s \subseteq indexed
    BY <1>6
  <2>2. IsFiniteSet(s)
    BY <1>2, <2>1, FS_Subset
  <2> QED BY <1>1, <1>2, <2>1, <2>2, SameCardinality, FS_CardinalityType
<1>9. ASSUME NEW i \in 1 .. Stream!Cardinality(s)
      PROVE  (CHOOSE t \in s : Stream!Cardinality({u \in s : u > t}) = i - 1) \in 1..created
  <2>1. i - 1 \in Nat /\ i - 1 < Stream!Cardinality(s)
    BY <1>8
  <2>2. \E t \in s : Stream!Cardinality({u \in s : u > t}) = i - 1
    <3>1. i - 1 < Cardinality(s)
      BY <2>1, SameCardinality
    <3>2. \E t \in s : Cardinality({u \in s : u > t}) = i - 1
      <4>1. PICK n \in Nat : n = i - 1 /\ n < Cardinality(s)
        BY <2>1, <3>1
      <4>2. IsFiniteSet(s) /\ s \subseteq Int
        BY <1>8
      <4>3. \E t \in s : Cardinality({u \in s : u > t}) = n
        BY <4>1, <4>2, RankExists
      <4> QED BY <4>1, <4>3
    <3> QED BY <3>2, SameCardinality
  <2> QED BY <1>8, <2>2
<1>10. page' \in Seq(1..created)
  <2> DEFINE n == Stream!Cardinality(s)
             Place(i) == CHOOSE t \in s : Stream!Cardinality({u \in s : u > t}) = i - 1
  <2>1. page' = [i \in 1..n |-> Place(i)] /\ n \in Nat /\ \A i \in 1..n : Place(i) \in 1..created
    BY <1>7, <1>8, <1>9
  <2> HIDE DEF n, Place
  <2> QED BY <2>1, IsASeq
<1> QED BY <1>1, <1>6, <1>p, <1>10 DEF Stream!Mints, Stream!TooOld

LEMMA StreamInit == ASSUME Stream!StreamAssumption, Stream!Init PROVE StreamInv
<1>1. <<>> \in Seq(Stream!Mints)
  BY EmptySeq
<1>2. 0 \in 0..MaxCreated /\ 0 \in 0..MaxFailures /\ 0 \in 0..MaxDelay /\ 0 \in 0..MaxCrashes
  BY StreamTypes
<1>3. Stream!TypeOK
  BY <1>1, <1>2 DEF Stream!Init, Stream!TypeOK
<1> QED BY <1>3 DEF Stream!Init, StreamInv, CountHonest, BackoffElapses

(* A failure is counted, and its delay begins.                             *)
LEMMA ReconnectingKeeps ==
  ASSUME Stream!StreamAssumption, Stream!TypeOK, CountHonest, Stream!Reconnecting,
         failures' \in Nat, failed < failures'
  PROVE  /\ attempt' = failed' /\ failed' \in 1..failures' /\ wait' \in 0..MaxDelay
         /\ elapsed' = 0 /\ elapsed' \in 0..MaxDelay /\ link' = "backoff"
         /\ BackoffElapses'
<1>1. failed \in Nat /\ attempt = failed /\ MaxDelay \in Nat
  BY StreamTypes DEF Stream!TypeOK, CountHonest
<1>2. /\ attempt' = attempt + 1 /\ wait' = Stream!Delay(attempt + 1)
      /\ link' = "backoff" /\ failed' = failed + 1 /\ elapsed' = 0
  BY DEF Stream!Reconnecting
<1>3. failed + 1 \in Nat \ {0}
  BY <1>1
<1>4. wait' \in 0..MaxDelay
      /\ wait' = Stream!Lesser(BaseDelay * Stream!Power2[(failed + 1) - 1], MaxDelay)
  BY <1>1, <1>2, <1>3, DelayCapped
<1>5. wait' \in Nat /\ elapsed' + wait' = wait'
  BY <1>1, <1>2, <1>4
<1>6. BackoffElapses'
  <2>1. elapsed' + wait' = Stream!Lesser(BaseDelay * Stream!Power2[failed' - 1], MaxDelay)
    BY <1>2, <1>4, <1>5
  <2>2. failed' >= 1
    BY <1>1, <1>2
  <2> QED BY <2>1, <2>2 DEF BackoffElapses
<1> QED BY <1>1, <1>2, <1>4, <1>6

LEMMA StreamStep == ASSUME Stream!StreamAssumption, StreamInv, Stream!Next PROVE StreamInv'
<1>0. /\ PollLimit \in Nat \ {0} /\ BaseDelay \in Nat /\ MaxDelay \in Nat
      /\ MaxCreated \in Nat /\ MaxFailures \in Nat /\ MaxCrashes \in Nat
  BY StreamTypes
<1>t. /\ created \in 0..MaxCreated
      /\ indexed \subseteq 1..created /\ unseen \subseteq indexed
      /\ link \in {"connecting", "open", "closing", "backoff"} /\ clean \in BOOLEAN
      /\ attempt \in 0..MaxFailures /\ wait \in 0..MaxDelay
      /\ inbox \in Seq(1..created) /\ page \in Seq(1..created) /\ stored \subseteq 1..created
      /\ failed \in 0..MaxFailures /\ elapsed \in 0..MaxDelay
      /\ failures \in 0..MaxFailures /\ crashes \in 0..MaxCrashes
  BY DEF StreamInv, Stream!TypeOK, Stream!Mints
<1>c. CountHonest /\ BackoffElapses /\ Stream!TypeOK
  BY DEF StreamInv
<1>e. <<>> \in Seq(1..created)
  BY EmptySeq
<1> USE DEF Stream!Mints, Stream!socket, Stream!ghosts, Stream!bounds
<1> DEFINE Quiet == UNCHANGED <<link, attempt, wait, failed, elapsed, failures>>
<1>q. Quiet => CountHonest' /\ BackoffElapses'
  BY <1>c DEF CountHonest, BackoffElapses, Stream!Lesser, Stream!Power2
<1>1. CASE Stream!Create
  <2>1. /\ created' \in 0..MaxCreated /\ created' = created + 1
        /\ inbox' = (IF link = "open" THEN Append(inbox, created') ELSE inbox)
        /\ UNCHANGED <<indexed, clean, page, stored, unseen, crashes>> /\ Quiet
    BY <1>0, <1>t, <1>1 DEF Stream!Create
  <2>2. 1..created \subseteq 1..created' /\ created' \in 1..created'
    BY <1>0, <1>t, <2>1
  <2>3. inbox \in Seq(1..created') /\ page \in Seq(1..created')
    BY <1>t, <2>2, SeqMonotonic
  <2>4. Append(inbox, created') \in Seq(1..created')
    BY <2>2, <2>3, AppendProperties
  <2>5. Stream!TypeOK'
    <3>1. inbox' \in Seq(1..created')
      BY <2>1, <2>3, <2>4
    <3> QED BY <1>t, <2>1, <2>2, <2>3, <3>1 DEF Stream!TypeOK
  <2> QED BY <1>q, <2>1, <2>5 DEF StreamInv
<1>2. ASSUME NEW t \in Stream!Mints, Stream!Index(t) PROVE StreamInv'
  <2>1. indexed' = indexed \cup {t} /\ Quiet
        /\ UNCHANGED <<created, clean, inbox, page, stored, unseen, crashes>>
    BY <1>2 DEF Stream!Index
  <2>2. Stream!TypeOK'
    BY <1>t, <2>1 DEF Stream!TypeOK
  <2> QED BY <1>q, <2>1, <2>2 DEF StreamInv
<1>3. CASE Stream!PollList
  <2>1. page' \in Seq(1..created) /\ unseen' \subseteq indexed
    BY <1>c, <1>3, ListShowsMints
  <2>2. Quiet /\ UNCHANGED <<created, indexed, clean, inbox, stored, crashes>>
    BY <1>3 DEF Stream!PollList
  <2>3. Stream!TypeOK'
    BY <1>t, <2>1, <2>2 DEF Stream!TypeOK
  <2> QED BY <1>q, <2>2, <2>3 DEF StreamInv
<1>4. CASE Stream!StoreItem
  <2>1. /\ page # <<>> /\ stored' = stored \cup {Head(page)} /\ page' = Tail(page) /\ Quiet
        /\ UNCHANGED <<created, indexed, clean, inbox, unseen, crashes>>
    BY <1>4 DEF Stream!StoreItem
  <2>2. Head(page) \in 1..created /\ page' \in Seq(1..created)
    BY <1>t, <2>1, TailElements
  <2>3. Stream!TypeOK'
    BY <1>t, <2>1, <2>2 DEF Stream!TypeOK
  <2> QED BY <1>q, <2>1, <2>3 DEF StreamInv
<1>5. CASE Stream!HandleFrame
  <2>1. /\ inbox # <<>> /\ stored' \in {stored, stored \cup {Head(inbox)}}
        /\ inbox' = Tail(inbox) /\ Quiet
        /\ UNCHANGED <<created, indexed, clean, page, unseen, crashes>>
    BY <1>5 DEF Stream!HandleFrame
  <2>2. Head(inbox) \in 1..created /\ inbox' \in Seq(1..created)
    BY <1>t, <2>1, TailElements
  <2>3. Stream!TypeOK'
    BY <1>t, <2>1, <2>2 DEF Stream!TypeOK
  <2> QED BY <1>q, <2>1, <2>3 DEF StreamInv
<1>6. CASE Stream!Subscribe
  <2>1. /\ link' = "open" /\ attempt' = 0 /\ failed' = 0 /\ elapsed' = 0
        /\ UNCHANGED <<created, indexed, clean, wait, inbox, page, stored, unseen,
                       failures, crashes>>
    BY <1>6 DEF Stream!Subscribe
  <2>2. Stream!TypeOK'
    BY <1>0, <1>t, <2>1 DEF Stream!TypeOK
  <2> QED BY <1>t, <2>1, <2>2 DEF StreamInv, CountHonest, BackoffElapses
<1>7. CASE Stream!ConnectFails
  <2>1. /\ failures < MaxFailures /\ failures' = failures + 1 /\ Stream!Reconnecting
        /\ UNCHANGED <<created, indexed, clean, inbox, page, stored, unseen, crashes>>
    BY <1>7 DEF Stream!ConnectFails
  <2>2. failed < failures' /\ failures' \in 0..MaxFailures
    BY <1>0, <1>t, <1>c, <2>1 DEF CountHonest
  <2>3. /\ attempt' = failed' /\ failed' \in 1..failures' /\ wait' \in 0..MaxDelay
        /\ elapsed' \in 0..MaxDelay /\ link' = "backoff" /\ BackoffElapses'
    BY <1>0, <1>c, <2>1, <2>2, ReconnectingKeeps
  <2>4. failed' \in 0..MaxFailures /\ failed' <= failures'
    BY <1>0, <2>2, <2>3
  <2>5. Stream!TypeOK'
    BY <1>t, <2>1, <2>2, <2>3, <2>4 DEF Stream!TypeOK
  <2> QED BY <2>3, <2>4, <2>5 DEF StreamInv, CountHonest
<1>8. CASE Stream!Disconnect
  <2>1. /\ link = "open" /\ failures < MaxFailures /\ failures' = failures + 1
        /\ link' = "closing" /\ clean' \in BOOLEAN
        /\ UNCHANGED <<created, indexed, attempt, wait, inbox, page, stored, unseen, failed,
                       elapsed, crashes>>
    BY <1>8 DEF Stream!Disconnect
  <2>2. failures' \in 0..MaxFailures /\ failures' >= 1
    BY <1>0, <1>t, <2>1
  <2>3. Stream!TypeOK'
    BY <1>t, <2>1, <2>2 DEF Stream!TypeOK
  <2>4. CountHonest'
    BY <1>c, <2>1, <2>2 DEF CountHonest
  <2> QED BY <2>1, <2>3, <2>4 DEF StreamInv, BackoffElapses
<1>9. CASE Stream!Drained
  <2>1. link = "closing" /\ inbox = <<>> /\ clean' = FALSE
        /\ UNCHANGED <<created, indexed, inbox, page, stored, unseen, failures, crashes>>
    BY <1>9 DEF Stream!Drained
  <2>2. CASE clean
    <3>1. link' = "connecting" /\ UNCHANGED <<attempt, wait, failed, elapsed>>
      BY <1>9, <2>2 DEF Stream!Drained
    <3>2. Stream!TypeOK'
      BY <1>t, <2>1, <3>1 DEF Stream!TypeOK
    <3> QED BY <1>c, <2>1, <3>1, <3>2 DEF StreamInv, CountHonest, BackoffElapses
  <2>3. CASE ~clean
    <3>1. Stream!Reconnecting
      BY <1>9, <2>3 DEF Stream!Drained
    <3>2. failed < failures' /\ failures' \in Nat
      BY <1>t, <1>c, <2>1 DEF CountHonest
    <3>3. /\ attempt' = failed' /\ failed' \in 1..failures' /\ wait' \in 0..MaxDelay
          /\ elapsed' \in 0..MaxDelay /\ link' = "backoff" /\ BackoffElapses'
      BY <1>c, <3>1, <3>2, ReconnectingKeeps
    <3>4. failed' \in 0..MaxFailures /\ failed' <= failures'
      BY <1>0, <1>t, <2>1, <3>3
    <3>5. Stream!TypeOK'
      BY <1>t, <2>1, <3>3, <3>4 DEF Stream!TypeOK
    <3> QED BY <3>3, <3>4, <3>5 DEF StreamInv, CountHonest
  <2> QED BY <2>2, <2>3
<1>10. CASE Stream!Tick
  <2>1. /\ link = "backoff" /\ wait > 0 /\ wait' = wait - 1 /\ elapsed' = elapsed + 1
        /\ UNCHANGED <<created, indexed, link, clean, attempt, inbox, page, stored, unseen,
                       failed, failures, crashes>>
    BY <1>10 DEF Stream!Tick
  <2> DEFINE whole == Stream!Lesser(BaseDelay * Stream!Power2[failed - 1], MaxDelay)
  <2>2. elapsed + wait = whole /\ failed >= 1
    BY <1>c, <2>1 DEF BackoffElapses
  <2>3. whole \in 0..MaxDelay
    <3>1. failed \in Nat \ {0}
      BY <1>t, <2>2
    <3> QED BY <3>1, DelayCapped
  <2>4. PICK w \in 0..MaxDelay : w = whole /\ elapsed + wait = w
    BY <2>2, <2>3
  <2>5. wait' \in 0..MaxDelay /\ elapsed' \in 0..MaxDelay /\ elapsed' + wait' = w
    <3> HIDE DEF whole
    <3> QED BY <1>0, <1>t, <2>1, <2>4
  <2>6. Stream!TypeOK'
    BY <1>t, <2>1, <2>5 DEF Stream!TypeOK
  <2>7. BackoffElapses'
    BY <2>1, <2>2, <2>4, <2>5 DEF BackoffElapses, Stream!Lesser
  <2> QED BY <1>c, <2>1, <2>6, <2>7 DEF StreamInv, CountHonest
<1>11. CASE Stream!Retry
  <2>1. /\ link' = "connecting"
        /\ UNCHANGED <<created, indexed, clean, attempt, wait, inbox, page, stored, unseen,
                       failed, elapsed, failures, crashes>>
    BY <1>11 DEF Stream!Retry
  <2>2. Stream!TypeOK'
    BY <1>t, <2>1 DEF Stream!TypeOK
  <2> QED BY <1>c, <2>1, <2>2 DEF StreamInv, CountHonest, BackoffElapses
<1>12. CASE Stream!Crash
  <2>1. /\ crashes' \in 0..MaxCrashes
        /\ link' = "connecting" /\ clean' = FALSE /\ attempt' = 0 /\ wait' = 0
        /\ inbox' = <<>> /\ page' = <<>> /\ failed' = 0 /\ elapsed' = 0
        /\ UNCHANGED <<created, indexed, stored, unseen, failures>>
    <3>1. crashes < MaxCrashes /\ crashes' = crashes + 1
      BY <1>12 DEF Stream!Crash
    <3>2. crashes' \in 0..MaxCrashes
      BY <1>0, <1>t, <3>1
    <3> QED BY <1>12, <3>2 DEF Stream!Crash
  <2>2. /\ 0 \in 0..MaxFailures /\ 0 \in 0..MaxDelay
        /\ inbox' \in Seq(1..created') /\ page' \in Seq(1..created')
    BY <1>0, <1>e, <2>1
  <2>3. Stream!TypeOK'
    BY <1>t, <2>1, <2>2 DEF Stream!TypeOK
  <2> QED BY <1>t, <2>1, <2>3 DEF StreamInv, CountHonest, BackoffElapses
<1>13. CASE Stream!PollFails
  <2>1. /\ failures' = failures + 1 /\ failures' \in 0..MaxFailures
        /\ UNCHANGED <<created, indexed, link, clean, attempt, wait, inbox, page, stored, unseen,
                       failed, elapsed, crashes>>
    BY <1>0, <1>t, <1>13 DEF Stream!PollFails
  <2>2. Stream!TypeOK'
    BY <1>t, <2>1 DEF Stream!TypeOK
  <2>3. CountHonest'
    BY <1>t, <1>c, <2>1 DEF CountHonest
  <2> QED BY <1>c, <2>1, <2>2, <2>3 DEF StreamInv, BackoffElapses
<1> QED
  BY <1>1, <1>2, <1>3, <1>4, <1>5, <1>6, <1>7, <1>8, <1>9, <1>10, <1>11, <1>12, <1>13
     DEF Stream!Next, Stream!Poller, Stream!Socket

LEMMA StreamAlways == ASSUME Stream!StreamAssumption PROVE Stream!Spec => []StreamInv
<1>1. Stream!Init => StreamInv
  BY StreamInit
<1>2. StreamInv /\ [Stream!Next]_(Stream!vars) => StreamInv'
  <2> SUFFICES ASSUME StreamInv, [Stream!Next]_(Stream!vars) PROVE StreamInv'
    OBVIOUS
  <2>1. CASE Stream!Next
    BY <2>1, StreamStep
  <2>2. CASE UNCHANGED Stream!vars
    BY <2>2 DEF Stream!vars, Stream!socket, Stream!ghosts, Stream!bounds, Stream!Mints,
       StreamInv, Stream!TypeOK, CountHonest, BackoffElapses, Stream!Lesser, Stream!Power2
  <2> QED BY <2>1, <2>2
<1> QED BY <1>1, <1>2, PTL DEF Stream!Spec

(* The types of PushStream: whatever waits to be stored has been created,  *)
(* the page that a limit cuts from the newest-first list included, and no  *)
(* backoff is longer than the cap.                                         *)
THEOREM StreamTyped == Stream!Spec => []Stream!TypeOK
<1>1. StreamInv => Stream!TypeOK
  BY DEF StreamInv
<1> QED BY <1>1, StreamAlways, ProvidersAssumption, PTL

(* The n-th failure in a row waits base * 2^(n-1) up to the cap, and only  *)
(* a subscription ends the row: for any delays and any number of failures. *)
THEOREM ReconnectAlwaysPaced == Stream!Spec => ReconnectPaced
<1>1. ASSUME StreamInv, Stream!Next,
             link = "backoff", link' = "connecting", crashes' = crashes
      PROVE  elapsed = Stream!Lesser(BaseDelay * Stream!Power2[failed - 1], MaxDelay)
  <2>1. crashes \in Nat /\ elapsed \in Nat /\ wait \in Nat
    BY <1>1, StreamTypes DEF StreamInv, Stream!TypeOK
  <2>2. ~Stream!Crash
    <3>1. Stream!Crash => crashes' = crashes + 1
      BY DEF Stream!Crash
    <3> QED BY <1>1, <2>1, <3>1
  <2>3. Stream!Retry
    BY <1>1, <2>2 DEF Stream!Next, Stream!Poller, Stream!Socket, Stream!Create, Stream!Index,
       Stream!PollList, Stream!StoreItem, Stream!Subscribe, Stream!Drained, Stream!HandleFrame,
       Stream!Tick, Stream!ConnectFails, Stream!Disconnect, Stream!PollFails, Stream!socket
  <2>4. wait = 0
    BY <2>3 DEF Stream!Retry
  <2>5. elapsed + wait = Stream!Lesser(BaseDelay * Stream!Power2[failed - 1], MaxDelay)
    BY <1>1 DEF StreamInv, BackoffElapses
  <2>6. elapsed + wait = elapsed
    BY <2>1, <2>4
  <2> QED BY <2>5, <2>6
<1>2. StreamInv /\ [Stream!Next]_(Stream!vars)
        => [link = "backoff" /\ link' = "connecting" /\ crashes' = crashes
              => elapsed = Stream!Lesser(BaseDelay * Stream!Power2[failed - 1], MaxDelay)
           ]_(Stream!vars)
  BY <1>1
<1> QED BY <1>2, StreamAlways, ProvidersAssumption, PTL
   DEF Stream!Spec, Stream!ReconnectPaced, ReconnectPaced

-----------------------------------------------------------------------------
(* The three side by side: each of them rests while another one moves, so  *)
(* what is proved of it alone holds of the whole.                          *)

LEMMA PartsAreParts == PartsSpec => Spec /\ Http!Spec /\ Stream!Spec
<1>1. PartsInit => Init /\ Http!Init /\ Stream!Init
  BY DEF PartsInit
<1>2. [DiscoveryMoves \/ HttpMoves \/ StreamMoves]_allVars
        => [Next]_vars /\ [Http!Next]_(Http!vars) /\ [Stream!Next]_(Stream!vars)
  <2>1. /\ UNCHANGED allVars => UNCHANGED <<vars, http, stream>>
        /\ UNCHANGED http => UNCHANGED Http!vars
        /\ UNCHANGED stream => UNCHANGED Stream!vars
    BY DEF allVars, http, stream, Http!vars,
       Stream!vars, Stream!socket, Stream!ghosts, Stream!bounds
  <2>2. DiscoveryMoves => Next /\ UNCHANGED <<http, stream>>
    BY DEF DiscoveryMoves
  <2>3. HttpMoves => Http!Next /\ UNCHANGED <<vars, stream>>
    BY DEF HttpMoves
  <2>4. StreamMoves => Stream!Next /\ UNCHANGED <<vars, http>>
    BY DEF StreamMoves
  <2> QED BY <2>1, <2>2, <2>3, <2>4
<1> QED BY <1>1, <1>2, PTL DEF PartsSpec, Spec, Http!Spec, Stream!Spec

(* The types of discovery, of a request and of the stream, whichever of    *)
(* them moves.                                                             *)
THEOREM ProvidersTyped == PartsSpec => []Typed
<1>1. TypeOK /\ Http!TypeOK /\ Stream!TypeOK <=> Typed
  BY DEF Typed
<1> QED BY <1>1, PartsAreParts, DiscoveryTyped, HttpTyped, StreamTyped, PTL

(* Everything the runs check of the sources, liveness aside, of the three  *)
(* together.                                                               *)
THEOREM ProvidersAlwaysSafe ==
  PartsSpec => /\ [](Typed /\ OneDecision)
               /\ HistoryKept /\ ReconnectPaced
BY PartsAreParts, ProvidersTyped, RequestDecidedOnce,
   HistoryAlwaysKept, ReconnectAlwaysPaced, PTL
=============================================================================
