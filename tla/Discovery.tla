------------------------------ MODULE Discovery ------------------------------
(***************************************************************************)
(* Discovery: the push stream and the poller of hades.discovery.service,   *)
(* two loops of one task group that upsert sightings into tokens, and the  *)
(* backfill of missing creation times that follows each poll.  A sighting  *)
(* is stamped when its frame or list is parsed and committed later; the    *)
(* other loop may commit in between.                                       *)
(***************************************************************************)
EXTENDS Integers, FiniteSets, FiniteSetsExt, Sequences, SequencesExt

CONSTANTS
  Tokens,
  PollLimit, BackfillLimit, MaxAttempts,
  MaxTime,      \* bound: the clock stops here
  MaxErrors     \* bound: crashes and rate limits per behaviour

ASSUME DiscoveryAssumption ==
  /\ IsFiniteSet(Tokens)
  /\ {PollLimit, BackfillLimit, MaxAttempts} \subseteq Nat \ {0}
  /\ {MaxTime, MaxErrors} \subseteq Nat

VARIABLES
  now,
  row,       \* tokens, per address
  frame,     \* the sightings the stream has parsed and not stored, at most one
  listing,   \* the items of a poll that are not stored yet
  backlog,   \* the addresses a backfill pass has not asked for yet
  pc,        \* the poller: "idle", "poll", "read", "backfill"
  errors

vars == <<now, row, frame, listing, backlog, pc, errors>>

Never == -1     \* NULL or absent, for a time
Sources == {"pumpportal", "pumpfun"}

Sighting == [id : Tokens, at : Nat, source : Sources, dated : BOOLEAN]
Token == [discovered : Nat \cup {Never}, source : Sources \cup {"none"},
          dated : BOOLEAN, attempts : Nat]
NoToken == [discovered |-> Never, source |-> "none", dated |-> FALSE, attempts |-> 0]

(* The stream holds at most one frame at a time, and the poller parsed     *)
(* sightings and addresses.                                                *)
TypeOK ==
  /\ now \in 0..MaxTime
  /\ row \in [Tokens -> Token]
  /\ frame \subseteq Sighting /\ Cardinality(frame) <= 1
  /\ listing \in Seq(Sighting) /\ backlog \in Seq(Tokens)
  /\ pc \in {"idle", "poll", "read", "backfill"}
  /\ errors \in 0..MaxErrors

Tick == /\ now < MaxTime /\ now' = now + 1
        /\ UNCHANGED <<row, frame, listing, backlog, pc, errors>>

-----------------------------------------------------------------------------
\* mutant: what the sighting carries replaces what is known, NULL included
Replace(s) ==
  IF row[s.id].discovered = Never
  THEN [row EXCEPT ![s.id] = [discovered |-> s.at, source |-> s.source,
                              dated |-> s.dated, attempts |-> 0]]
  ELSE [row EXCEPT ![s.id].dated = s.dated]
(* TokenRepository.upsert: insert, or fill in a missing creation time;     *)
(* when and by whom the token was discovered is never touched again.       *)
Upsert(s) ==
  IF row[s.id].discovered = Never
  THEN [row EXCEPT ![s.id] = [discovered |-> s.at, source |-> s.source,
                              dated |-> s.dated, attempts |-> 0]]
  ELSE [row EXCEPT ![s.id].dated = @ \/ s.dated]

\* mutant: a task of its own for every frame
ReceiveConcurrently(t) ==
  /\ frame' = frame \cup
       {[id |-> t, at |-> now, source |-> "pumpportal", dated |-> FALSE]}
  /\ UNCHANGED <<now, row, listing, backlog, pc, errors>>
(* The push stream: one frame at a time, without a creation time.          *)
ReceiveFrame(t) ==
  /\ frame = {}
  /\ frame' = {[id |-> t, at |-> now, source |-> "pumpportal", dated |-> FALSE]}
  /\ UNCHANGED <<now, row, listing, backlog, pc, errors>>

HandleFrame ==
  /\ \E s \in frame : row' = Upsert(s)
  /\ frame' = {}
  /\ UNCHANGED <<now, listing, backlog, pc, errors>>

-----------------------------------------------------------------------------
(* poll_once: the whole list is parsed at once and stored item by item; an *)
(* item may lack its creation time.                                        *)
PollList ==
  /\ pc = "idle"
  /\ \E order \in SetToAllKPermutations(Tokens), undated \in SUBSET Tokens :
       /\ Len(order) <= PollLimit
       /\ listing' = [i \in DOMAIN order |->
                        [id |-> order[i], at |-> now, source |-> "pumpfun",
                         dated |-> order[i] \notin undated]]
       /\ pc' = IF order = <<>> THEN "read" ELSE "poll"
  /\ UNCHANGED <<now, row, frame, backlog, errors>>

StoreItem ==
  /\ pc = "poll"
  /\ row' = Upsert(Head(listing))
  /\ listing' = Tail(listing)
  /\ pc' = IF Len(listing) = 1 THEN "read" ELSE "poll"
  /\ UNCHANGED <<now, frame, backlog, errors>>

-----------------------------------------------------------------------------
(* backfill_created_at.                                                    *)

Missing == {t \in Tokens : /\ row[t].discovered # Never /\ ~row[t].dated
                           /\ row[t].attempts < MaxAttempts}

ReadMissing ==
  /\ pc = "read"
  /\ \E order \in SetToAllKPermutations(Missing) :
       /\ Len(order) = Min({BackfillLimit, Cardinality(Missing)})
       /\ \A i, j \in DOMAIN order :
            i < j => row[order[i]].discovered <= row[order[j]].discovered
       /\ \A i \in DOMAIN order, u \in Missing \ Range(order) :
            row[order[i]].discovered <= row[u].discovered
       /\ backlog' = order
       /\ pc' = IF order = <<>> THEN "idle" ELSE "backfill"
  /\ UNCHANGED <<now, row, frame, listing, errors>>

NextAddress == /\ backlog' = Tail(backlog)
               /\ pc' = IF Len(backlog) = 1 THEN "idle" ELSE "backfill"
               /\ UNCHANGED <<now, frame, listing, errors>>

(* The primary answers, with a creation time.                              *)
Fill ==
  /\ pc = "backfill"
  /\ row' = Upsert([id |-> Head(backlog), at |-> now, source |-> "pumpfun", dated |-> TRUE])
  /\ NextAddress

\* mutant: an answer without a creation time spends nothing
SpendNothing ==
  /\ pc = "backfill"
  /\ NextAddress
  /\ UNCHANGED row
(* It fails, or answers without one: an attempt is spent.                  *)
SpendAttempt ==
  /\ pc = "backfill"
  /\ row' = [row EXCEPT ![Head(backlog)].attempts = @ + 1]
  /\ NextAddress

(* It asks us to wait: the pass ends, and the token keeps its budget.      *)
RateLimited ==
  /\ pc \in {"idle", "backfill"} /\ errors < MaxErrors /\ errors' = errors + 1
  /\ pc' = IF pc = "idle" THEN "read" ELSE "idle"
  /\ backlog' = <<>>
  /\ UNCHANGED <<now, row, frame, listing>>

(* One loop fails: the task group cancels the other, and both restart.     *)
Crash ==
  /\ errors < MaxErrors /\ errors' = errors + 1
  /\ frame' = {} /\ listing' = <<>> /\ backlog' = <<>> /\ pc' = "idle"
  /\ UNCHANGED <<now, row>>

Init ==
  /\ now = 0
  /\ row = [t \in Tokens |-> NoToken]
  /\ frame = {} /\ listing = <<>> /\ backlog = <<>> /\ pc = "idle"
  /\ errors = 0

Poller == PollList \/ StoreItem \/ ReadMissing \/ Fill \/ SpendAttempt

Next == \/ Tick \/ HandleFrame \/ Poller \/ RateLimited \/ Crash
        \/ \E t \in Tokens : ReceiveFrame(t)

Spec == Init /\ [][Next]_vars

(* Both loops run for ever under supervision; crashes and rate limits are  *)
(* bounded, and nothing is assumed of what the primary lists or answers.   *)
FairSpec == Spec /\ WF_vars(Poller) /\ WF_vars(HandleFrame)

-----------------------------------------------------------------------------
(* Whatever order two loops and their restarts commit in: a token, once    *)
(* stored, keeps its discovery time and source and never loses its         *)
(* creation time; its attempts are not given back, and a mint that is      *)
(* never indexed costs MaxAttempts requests and no more, restarts included,*)
(* even when the other loop dates it between the read and the try.         *)
HistoryKept ==
  [][\A t \in Tokens : row[t].discovered # Never =>
       /\ row'[t].discovered = row[t].discovered /\ row'[t].source = row[t].source
       /\ row[t].dated => row'[t].dated
       /\ row'[t].attempts \in row[t].attempts .. MaxAttempts]_vars

(* Every stored token is dated or given up in the end: a hopeless one at   *)
(* the head of the queue does not keep the others from being asked for.    *)
BackfillSettles ==
  \A t \in Tokens : row[t].discovered # Never
                      ~> row[t].dated \/ row[t].attempts = MaxAttempts

=============================================================================
