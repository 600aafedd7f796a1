--------------------------- MODULE Outcomes_proofs ---------------------------
(***************************************************************************)
(* Theorems about Outcomes, for any tokens, prices, barrier configurations,*)
(* horizon, batch size and commit lag, and any number of observations and  *)
(* crashes: type correctness, and that what is recorded as final, or as a  *)
(* return, is what the series says from then on.                           *)
(***************************************************************************)
EXTENDS Outcomes, DataLemmas

-----------------------------------------------------------------------------
(* A series and what was loaded of it.                                     *)

IsSeries(S) ==
  /\ S \subseteq [at : Nat, price : Nat] /\ IsFiniteSet(S)
  /\ \A q, r \in S : q.at = r.at => q = r

(* V is what was there of S at some time: whatever came since is later.    *)
IsStart(V, S) == V \subseteq S /\ \A p \in V, q \in S \ V : p.at < q.at

LEMMA ImageIsFinite ==
  ASSUME NEW T, IsFiniteSet(T), NEW f, DOMAIN f = T
  PROVE  IsFiniteSet({f[q] : q \in T})
<1> DEFINE A == {f[q] : q \in T}
           g == [q \in T |-> f[q]]
<1>1. g \in [T -> A] /\ \A a \in A : \E q \in T : g[q] = a
  OBVIOUS
<1>2. g \in Surjection(T, A)
  <2> HIDE DEF A, g
  <2> QED BY <1>1 DEF Surjection
<1> HIDE DEF A, g
<1>3. IsFiniteSet(A)
  BY <1>2, FS_Surjection
<1> QED BY <1>3 DEF A

(* Snapshots have a first and a last one, and their prices a largest and a *)
(* smallest.                                                               *)
LEMMA SnapshotsOrdered ==
  ASSUME NEW T \in SUBSET [at : Nat, price : Nat], IsFiniteSet(T), T # {}
  PROVE  /\ \E q \in T : \A r \in T : q.at <= r.at
         /\ \E q \in T : \A r \in T : r.at <= q.at
         /\ Max({q.at : q \in T}) \in {q.at : q \in T}
         /\ \A r \in T : r.at <= Max({q.at : q \in T})
<1> DEFINE A == {q.at : q \in T}
           f == [q \in T |-> q.at]
<1>1. A = {f[q] : q \in T} /\ DOMAIN f = T
  OBVIOUS
<1>2. A \subseteq Int /\ A # {}
  OBVIOUS
<1>3. IsFiniteSet(A)
  <2> HIDE DEF A, f
  <2> QED BY <1>1, ImageIsFinite
<1>4. Min(A) \in A /\ \A y \in A : Min(A) <= y
  <2> HIDE DEF A
  <2> QED BY <1>2, <1>3, MinOfSet
<1>5. Max(A) \in A /\ \A y \in A : y <= Max(A)
  <2> HIDE DEF A
  <2> QED BY <1>2, <1>3, MaxOfSet
<1>6. PICK lo \in T : lo.at = Min(A)
  BY <1>4
<1>7. PICK hi \in T : hi.at = Max(A)
  BY <1>5
<1>8. \A r \in T : r.at \in A
  OBVIOUS
<1> HIDE DEF A, f
<1>9. \A r \in T : lo.at <= r.at /\ r.at <= hi.at /\ r.at <= Max(A)
  BY <1>4, <1>5, <1>6, <1>7, <1>8
<1> QED BY <1>5, <1>9 DEF A

LEMMA PricesOrdered ==
  ASSUME NEW T \in SUBSET [at : Nat, price : Nat], IsFiniteSet(T), T # {}
  PROVE  Max({q.price : q \in T}) \in Nat /\ Min({q.price : q \in T}) \in Nat
<1> DEFINE A == {q.price : q \in T}
           f == [q \in T |-> q.price]
<1>1. A = {f[q] : q \in T} /\ DOMAIN f = T
  OBVIOUS
<1>2. A \subseteq Nat /\ A # {}
  OBVIOUS
<1> HIDE DEF A, f
<1>3. IsFiniteSet(A)
  BY <1>1, ImageIsFinite
<1>4. A \subseteq Int
  BY <1>2
<1>5. Min(A) \in A
  BY <1>2, <1>3, <1>4, MinOfSet
<1>6. Max(A) \in A
  BY <1>2, <1>3, <1>4, MaxOfSet
<1> QED BY <1>2, <1>5, <1>6 DEF A

(* A price is a number or missing.                                         *)
LEMMA PriceAtTyped ==
  ASSUME NEW T \in SUBSET [at : Nat, price : Nat], IsFiniteSet(T), NEW at
  PROVE  PriceAt(T, at) \in Nat \cup {Missing}
<1> DEFINE known == {q \in Priced(T) : q.at <= at}
<1>1. known \in SUBSET T /\ known \in SUBSET [at : Nat, price : Nat]
  BY DEF Priced
<1>2. PriceAt(T, at) = IF known = {} THEN Missing
                       ELSE (CHOOSE q \in known : \A r \in known : r.at <= q.at).price
  BY DEF PriceAt
<1> HIDE DEF known
<1>3. CASE known = {}
  BY <1>2, <1>3
<1>4. CASE known # {}
  <2>1. IsFiniteSet(known)
    BY <1>1, FS_Subset
  <2>2. \E q \in known : \A r \in known : r.at <= q.at
    BY <1>1, <1>4, <2>1, SnapshotsOrdered
  <2>3. PICK q \in known : q = CHOOSE p \in known : \A r \in known : r.at <= p.at
    BY <2>2
  <2> QED BY <1>1, <1>2, <1>4, <2>3
<1> QED BY <1>3, <1>4

(* A price depends on what is known of the series, and on nothing else.    *)
LEMMA SameKnown ==
  ASSUME NEW A, NEW B, NEW a, NEW b,
         {q \in Priced(A) : q.at <= a} = {q \in Priced(B) : q.at <= b}
  PROVE  PriceAt(A, a) = PriceAt(B, b)
<1> DEFINE Latest(K) == IF K = {} THEN Missing
                        ELSE (CHOOSE q \in K : \A r \in K : r.at <= q.at).price
<1>1. PriceAt(A, a) = Latest({q \in Priced(A) : q.at <= a})
  BY DEF PriceAt
<1>2. PriceAt(B, b) = Latest({q \in Priced(B) : q.at <= b})
  BY DEF PriceAt
<1> HIDE DEF Latest
<1> QED BY <1>1, <1>2

(* The price at an observation does not change with what comes after it.   *)
LEMMA AnchorKept ==
  ASSUME NEW S, IsSeries(S), NEW V, IsStart(V, S), NEW p \in V
  PROVE  PriceAt(V, p.at) = PriceAt(S, p.at)
<1>1. ASSUME NEW q \in S \ V PROVE ~(q.at <= p.at)
  <2>1. p.at \in Nat /\ q.at \in Nat /\ p.at < q.at
    BY DEF IsStart, IsSeries
  <2> QED BY <2>1
<1>2. \A q : (q \in Priced(V) /\ q.at <= p.at) <=> (q \in Priced(S) /\ q.at <= p.at)
  BY <1>1 DEF IsStart, Priced
<1>3. {q \in Priced(V) : q.at <= p.at} = {q \in Priced(S) : q.at <= p.at}
  BY <1>2
<1> QED BY <1>3, SameKnown

(* What a start sees of the window after one of its snapshots is what the  *)
(* whole series shows there, and so is what touches a barrier.             *)
LEMMA TouchesKept ==
  ASSUME NEW S, IsSeries(S), NEW V, IsStart(V, S), NEW p \in V, NEW config
  PROVE  Touches(V, p.at, config) = {q \in Touches(S, p.at, config) : q \in V}
<1>1. V \subseteq S /\ PriceAt(V, p.at) = PriceAt(S, p.at)
  BY AnchorKept DEF IsStart
<1> DEFINE a == PriceAt(S, p.at)
<1>2. InWindow(V, p.at, config) = {q \in InWindow(S, p.at, config) : q \in V}
  BY <1>1 DEF InWindow, Forward, Priced
<1> HIDE DEF a
<1>3. ASSUME NEW T
      PROVE  \A q : q \in Touches(T, p.at, config)
                     <=> /\ q \in InWindow(T, p.at, config)
                         /\ Below(PriceAt(T, p.at), config, q) \/ Above(PriceAt(T, p.at), config, q)
  BY DEF Touches
<1>4. \A q : q \in Touches(V, p.at, config) <=> q \in Touches(S, p.at, config) /\ q \in V
  BY <1>1, <1>2, <1>3
<1> QED BY <1>4

-----------------------------------------------------------------------------
(* What is final stays.                                                    *)

FirstTouch(T) == CHOOSE q \in T : \A r \in T : q.at <= r.at

LEMMA FirstTouchIsFirst ==
  ASSUME NEW T \in SUBSET [at : Nat, price : Nat], IsFiniteSet(T), T # {}
  PROVE  FirstTouch(T) \in T /\ \A r \in T : FirstTouch(T).at <= r.at
<1>1. \E q \in T : \A r \in T : q.at <= r.at
  BY SnapshotsOrdered
<1> QED BY <1>1 DEF FirstTouch

LEMMA LabelByTouches ==
  ASSUME NEW T, NEW at, NEW config, NEW m
  PROVE  Label(T, at, config, m) =
           IF Touches(T, at, config) # {}
           THEN IF Below(PriceAt(T, at), config, FirstTouch(Touches(T, at, config)))
                THEN "LOWER" ELSE "UPPER"
           ELSE IF m - at >= config.barrier THEN "TIMEOUT" ELSE "UNRESOLVED"
BY DEF Label, FirstTouch

LEMMA TouchesOf ==
  ASSUME NEW S, IsSeries(S), NEW at, NEW config
  PROVE  /\ Touches(S, at, config) \in SUBSET S
         /\ Touches(S, at, config) \in SUBSET [at : Nat, price : Nat]
         /\ IsFiniteSet(Touches(S, at, config))
         /\ \A q \in Touches(S, at, config) : q.at > at /\ q.at - at <= config.barrier
<1>1. Touches(S, at, config) \subseteq InWindow(S, at, config)
  BY DEF Touches
<1>2. InWindow(S, at, config) \subseteq S
  BY DEF InWindow, Forward, Priced
<1>3. \A q \in InWindow(S, at, config) : q.at > at /\ q.at - at <= config.barrier
  BY DEF InWindow, Forward
<1>4. IsFiniteSet(Touches(S, at, config))
  BY <1>1, <1>2, FS_Subset DEF IsSeries
<1> QED BY <1>1, <1>2, <1>3, <1>4 DEF IsSeries

(* A touch that was seen is still the first one.                           *)
LEMMA TouchKept ==
  ASSUME NEW S, IsSeries(S), NEW V, IsStart(V, S), NEW p \in V, NEW config,
         Touches(V, p.at, config) # {}
  PROVE  /\ Touches(S, p.at, config) # {}
         /\ FirstTouch(Touches(V, p.at, config)) = FirstTouch(Touches(S, p.at, config))
<1> DEFINE tv == Touches(V, p.at, config)
           ts == Touches(S, p.at, config)
<1>1. tv = {q \in ts : q \in V}
  BY TouchesKept
<1>2. ts \in SUBSET S /\ ts \in SUBSET [at : Nat, price : Nat] /\ IsFiniteSet(ts)
  BY TouchesOf
<1> HIDE DEF tv, ts
<1>3. tv \in SUBSET [at : Nat, price : Nat] /\ IsFiniteSet(tv) /\ tv # {} /\ ts # {}
  <2>1. tv # {}
    BY DEF tv
  <2>2. tv \subseteq ts
    BY <1>1
  <2> QED BY <1>2, <2>1, <2>2, FS_Subset
<1>4. FirstTouch(tv) \in tv /\ \A r \in tv : FirstTouch(tv).at <= r.at
  BY <1>3, FirstTouchIsFirst
<1>5. FirstTouch(ts) \in ts /\ \A r \in ts : FirstTouch(ts).at <= r.at
  BY <1>2, <1>3, FirstTouchIsFirst
<1>6. PICK v \in ts : v = FirstTouch(tv) /\ v \in V
  BY <1>1, <1>4
<1>7. PICK s \in ts : s = FirstTouch(ts)
  BY <1>5
<1>8. v.at \in Nat /\ s.at \in Nat /\ s.at <= v.at /\ v \in S /\ s \in S
  BY <1>2, <1>5, <1>6, <1>7
<1>9. s \in V
  <2>1. SUFFICES ASSUME s \notin V PROVE FALSE
    OBVIOUS
  <2>2. v.at < s.at
    BY <1>6, <1>8, <2>1 DEF IsStart
  <2> QED BY <1>8, <2>2
<1>10. v.at <= s.at
  BY <1>1, <1>4, <1>6, <1>7, <1>9
<1>11. v = s
  BY <1>8, <1>10 DEF IsSeries
<1> QED BY <1>3, <1>6, <1>7, <1>11 DEF tv, ts

(* A final label is what the whole series gives at any later moment, unless*)
(* a snapshot of the window came after the moment it was given at.         *)
LEMMA LabelKept ==
  ASSUME NEW S, IsSeries(S), NEW V, IsStart(V, S), NEW p \in V,
         NEW config \in [upper : Nat, lower : Nat, barrier : Nat],
         NEW m \in Int, NEW later \in Int, m <= later,
         NEW L, \A q \in S \ V : q.at <= m => q.at \in L,
         Label(V, p.at, config, m) # "UNRESOLVED"
  PROVE  \/ Label(V, p.at, config, m) = Label(S, p.at, config, later)
         \/ /\ Label(V, p.at, config, m) = "TIMEOUT"
            /\ \E a \in L : a \in (p.at + 1)..(p.at + config.barrier)
<1> DEFINE tv == Touches(V, p.at, config)
           ts == Touches(S, p.at, config)
<1>1. p.at \in Nat /\ config.barrier \in Nat
  BY DEF IsStart, IsSeries
<1>2. CASE tv # {}
  <2>1. PriceAt(V, p.at) = PriceAt(S, p.at)
    BY AnchorKept
  <2>2. ts # {} /\ FirstTouch(tv) = FirstTouch(ts)
    BY <1>2, TouchKept
  <2>3. Label(V, p.at, config, m) =
          IF Below(PriceAt(V, p.at), config, FirstTouch(tv)) THEN "LOWER" ELSE "UPPER"
    BY <1>2, LabelByTouches
  <2>4. Label(S, p.at, config, later) =
          IF Below(PriceAt(S, p.at), config, FirstTouch(ts)) THEN "LOWER" ELSE "UPPER"
    BY <2>2, LabelByTouches
  <2> HIDE DEF tv, ts
  <2> QED BY <2>1, <2>2, <2>3, <2>4, Zenon
<1>3. CASE tv = {}
  <2>1. Label(V, p.at, config, m) =
          IF m - p.at >= config.barrier THEN "TIMEOUT" ELSE "UNRESOLVED"
    BY <1>3, LabelByTouches
  <2>2. m - p.at >= config.barrier /\ Label(V, p.at, config, m) = "TIMEOUT"
    BY <2>1
  <2>3. CASE ts = {}
    <3>1. Label(S, p.at, config, later) =
            IF later - p.at >= config.barrier THEN "TIMEOUT" ELSE "UNRESOLVED"
      BY <2>3, LabelByTouches
    <3>2. later - p.at >= config.barrier
      BY <1>1, <2>2
    <3> QED BY <2>2, <3>1, <3>2
  <2>4. CASE ts # {}
    <3>1. PICK q \in ts : TRUE
      BY <2>4
    <3>2. q \in S \ V
      <4>1. tv = {r \in ts : r \in V}
        BY TouchesKept
      <4>2. ts \in SUBSET S
        BY TouchesOf
      <4> HIDE DEF tv, ts
      <4> QED BY <1>3, <3>1, <4>1, <4>2
    <3>3. q.at \in Nat /\ q.at > p.at /\ q.at - p.at <= config.barrier
      <4>1. q.at \in Nat
        BY <3>2 DEF IsSeries
      <4> QED BY <3>1, <4>1, TouchesOf
    <3>4. q.at <= m
      BY <1>1, <2>2, <3>3
    <3>5. q.at \in L /\ q.at \in (p.at + 1)..(p.at + config.barrier)
      BY <1>1, <3>2, <3>3, <3>4
    <3> QED BY <2>2, <3>5
  <2> QED BY <2>3, <2>4
<1> QED BY <1>2, <1>3

(* The same for the price at a horizon that had elapsed.                   *)
LEMMA ReturnKept ==
  ASSUME NEW S, IsSeries(S), NEW V, IsStart(V, S), NEW p \in V, NEW span \in Nat,
         NEW m \in Int, NEW later \in Int, m <= later,
         NEW L, \A q \in S \ V : q.at <= m => q.at \in L,
         ReturnAt(V, p.at, span, m) # Missing
  PROVE  /\ later - p.at >= span
         /\ \/ ReturnAt(V, p.at, span, m) = ReturnAt(S, p.at, span, later)
            \/ \E a \in L : a \in (p.at + 1)..(p.at + span)
<1>1. p.at \in Nat
  BY DEF IsStart, IsSeries
<1>2. m - p.at >= span
  <2>1. ~(m - p.at < span)
    BY DEF ReturnAt
  <2> QED BY <1>1, <2>1
<1>3. later - p.at >= span
  BY <1>1, <1>2
<1>4. ReturnAt(V, p.at, span, m) = PriceAt(Forward(V, p.at), p.at + span)
  BY <1>1, <1>2 DEF ReturnAt
<1>5. ReturnAt(S, p.at, span, later) = PriceAt(Forward(S, p.at), p.at + span)
  BY <1>1, <1>3 DEF ReturnAt
<1>6. CASE \E q \in S \ V : q.at > p.at /\ q.at <= p.at + span
  <2>1. PICK q \in S \ V : q.at > p.at /\ q.at <= p.at + span
    BY <1>6
  <2>2. q.at \in Nat
    BY DEF IsSeries
  <2>3. q.at <= m
    BY <1>1, <1>2, <2>1, <2>2
  <2>4. q.at \in (p.at + 1)..(p.at + span)
    BY <1>1, <2>1, <2>2
  <2> QED BY <1>3, <2>3, <2>4
<1>7. CASE \A q \in S \ V : ~(q.at > p.at /\ q.at <= p.at + span)
  <2>1. \A q : (q \in Priced(Forward(V, p.at)) /\ q.at <= p.at + span)
               <=> (q \in Priced(Forward(S, p.at)) /\ q.at <= p.at + span)
    BY <1>7 DEF IsStart, Priced, Forward
  <2>2. {q \in Priced(Forward(V, p.at)) : q.at <= p.at + span}
          = {q \in Priced(Forward(S, p.at)) : q.at <= p.at + span}
    BY <2>1
  <2> QED BY <1>3, <1>4, <1>5, <2>2, SameKnown
<1> QED BY <1>6, <1>7

-----------------------------------------------------------------------------
(* The rows.                                                               *)

(* What compute_outcome gives for a series has the types of a row.         *)
LEMMA OutcomeTyped ==
  ASSUME NEW S, IsSeries(S), NEW at \in Nat, NEW c, NEW span \in Nat, NEW m \in Int
  PROVE  /\ Outcome(S, at, c, span, m) \in
              [label : {"UPPER", "LOWER", "TIMEOUT", "UNRESOLVED"}, return : Nat \cup {Missing},
               best : Nat \cup {Missing}, worst : Nat \cup {Missing}, final : BOOLEAN]
         /\ Outcome(S, at, c, span, m).label = Label(S, at, c, m)
         /\ Outcome(S, at, c, span, m).return = ReturnAt(S, at, span, m)
         /\ Outcome(S, at, c, span, m).final = (Label(S, at, c, m) # "UNRESOLVED")
<1>1. Label(S, at, c, m) \in {"UPPER", "LOWER", "TIMEOUT", "UNRESOLVED"}
  BY LabelByTouches
<1>2. Forward(S, at) \in SUBSET S
  BY DEF Forward, Priced
<1>3. Forward(S, at) \in SUBSET [at : Nat, price : Nat] /\ IsFiniteSet(Forward(S, at))
  BY <1>2, FS_Subset DEF IsSeries
<1>4. ReturnAt(S, at, span, m) \in Nat \cup {Missing}
  <2>1. PriceAt(Forward(S, at), at + span) \in Nat \cup {Missing}
    BY <1>3, PriceAtTyped
  <2> QED BY <2>1 DEF ReturnAt
<1> DEFINE window == InWindow(S, at, c)
           seen == {q.price : q \in window}
           best == IF seen = {} THEN Missing ELSE Max(seen)
           worst == IF seen = {} THEN Missing ELSE Min(seen)
<1>5. best \in Nat \cup {Missing} /\ worst \in Nat \cup {Missing}
  <2>1. window \in SUBSET Forward(S, at)
    BY DEF InWindow
  <2>2. window \in SUBSET [at : Nat, price : Nat] /\ IsFiniteSet(window)
    <3> HIDE DEF window
    <3> QED BY <1>3, <2>1, FS_Subset
  <2>3. CASE window = {}
    <3>1. seen = {}
      BY <2>3
    <3> QED BY <3>1
  <2>4. CASE window # {}
    <3> HIDE DEF window
    <3>1. Max(seen) \in Nat /\ Min(seen) \in Nat
      BY <2>2, <2>4, PricesOrdered
    <3> HIDE DEF seen
    <3> QED BY <3>1
  <2> QED BY <2>3, <2>4
<1>6. Outcome(S, at, c, span, m) =
        [label |-> Label(S, at, c, m), return |-> ReturnAt(S, at, span, m),
         best |-> best, worst |-> worst, final |-> Label(S, at, c, m) # "UNRESOLVED"]
  BY Zenon DEF Outcome
<1> HIDE DEF best, worst
<1> QED BY <1>1, <1>4, <1>5, <1>6

-----------------------------------------------------------------------------
(* The inductive invariant.  A pass works on what was there of the series  *)
(* when it was loaded; a snapshot of up to its moment that came later is   *)
(* recorded as late.  Every row was written from such a start.             *)

Snapshot == [at : 0..MaxTime, price : Prices]

SeriesOrdered == /\ snaps \in [Tokens -> SUBSET Snapshot]
                 /\ \A t \in Tokens : IsSeries(snaps[t])

ObservedSnaps == /\ IsFiniteSet(obs)
                 /\ \A o \in obs : \E q \in snaps[o.token] : q.at = o.at

(* V was there of S at some time, and what came since of up to m is in L.  *)
SeenOf(S, L, V, m) == IsStart(V, S) /\ \A q \in S \ V : q.at <= m => q.at \in L

Seen(t, V, m) == SeenOf(snaps[t], late[t], V, m)

SeriesSeen ==
  pc = "label" => /\ Seen(Head(todo).token, series, moment)
                  /\ \E q \in series : q.at = Head(todo).at

WrittenFrom(r, V, m) ==
  /\ Seen(r.obs.token, V, m)
  /\ \E q \in V : q.at = r.obs.at
  /\ r.label = Label(V, r.obs.at, r.config, m)
  /\ r.return = ReturnAt(V, r.obs.at, Horizon, m)
  /\ r.final = (r.label # "UNRESOLVED")

RowsSeen == \A r \in rows : \E m \in Missing..moment, V \in SUBSET snaps[r.obs.token] :
                              WrittenFrom(r, V, m)

IInv == TypeOK /\ SeriesOrdered /\ ObservedSnaps /\ SeriesSeen /\ RowsSeen

LEMMA IInvInit == Init => IInv
<1> SUFFICES ASSUME Init PROVE IInv
  OBVIOUS
<1>1. 0 \in 0..MaxTime /\ Missing \in Missing..0 /\ 0 \in 0..MaxCrashes
  BY OutcomesAssumption DEF Missing
<1>2. TypeOK
  BY <1>1 DEF Init, TypeOK
<1>3. SeriesOrdered
  <2>1. IsSeries({})
    BY FS_EmptySet DEF IsSeries
  <2> QED BY <2>1 DEF Init, SeriesOrdered
<1> QED BY <1>2, <1>3, FS_EmptySet DEF Init, IInv, ObservedSnaps, SeriesSeen, RowsSeen

(* A step that adds no snapshot and does not turn the moment back keeps    *)
(* what every row was written from.                                        *)
LEMMA RowStays ==
  ASSUME RowsSeen, UNCHANGED <<snaps, late>>, moment \in Int, moment' \in Int, moment <= moment',
         NEW r \in rows
  PROVE  \E m \in Missing..moment', V \in SUBSET snaps'[r.obs.token] : WrittenFrom(r, V, m)'
<1>1. PICK m \in Missing..moment, V \in SUBSET snaps[r.obs.token] : WrittenFrom(r, V, m)
  BY DEF RowsSeen
<1>2. m \in Missing..moment'
  BY <1>1 DEF Missing
<1>3. WrittenFrom(r, V, m)'
  BY <1>1 DEF WrittenFrom, Seen
<1> QED BY <1>2, <1>3

-----------------------------------------------------------------------------
(* Type correctness is preserved, given the invariant.                     *)

LEMMA ToNextTyped ==
  ASSUME TypeOK, todo # <<>>, ToNext
  PROVE  /\ todo' \in Seq(obs) /\ (pc' = "idle" <=> todo' = <<>>)
         /\ pc' \in {"idle", "load"}
         /\ left' \in Seq(Barriers) /\ left' = <<>>
<1>1. todo \in Seq(obs) /\ todo' = Tail(todo) /\ left' = <<>>
  BY DEF ToNext, TypeOK
<1>2. todo' \in Seq(obs) /\ (Tail(todo) = <<>> <=> Len(todo) = 1)
  BY <1>1, TailElements
<1>3. pc' = IF Len(todo) = 1 THEN "idle" ELSE "load"
  BY DEF ToNext
<1> QED BY <1>1, <1>2, <1>3

(* The row written is the only one of its observation and configuration.   *)
LEMMA UpsertTyped ==
  ASSUME TypeOK, NEW o \in obs, NEW c \in Barriers, NEW S, IsSeries(S), moment \in Int,
         rows' = UpsertRow(o, c, Outcome(S, o.at, c, Horizon, moment))
  PROVE  /\ rows' \subseteq Labelled
         /\ \A r, s \in rows' : r.obs = s.obs /\ r.config = s.config => r = s
<1> DEFINE out == Outcome(S, o.at, c, Horizon, moment)
           row == Row(o, c, out)
<1>1. o \in Observation /\ o.at \in Nat
  BY OutcomesAssumption DEF TypeOK, Observation
<1>2. Horizon \in Nat
  BY OutcomesAssumption
<1>3. row \in Labelled /\ row.obs = o /\ row.config = c
  <2>1. out \in [label : {"UPPER", "LOWER", "TIMEOUT", "UNRESOLVED"}, return : Nat \cup {Missing},
                 best : Nat \cup {Missing}, worst : Nat \cup {Missing}, final : BOOLEAN]
    BY <1>1, <1>2, OutcomeTyped
  <2> HIDE DEF out
  <2> QED BY <1>1, <2>1 DEF Row, Labelled
<1>4. rows' = {r \in rows : r.obs # o \/ r.config # c} \cup {row}
  BY DEF UpsertRow
<1> HIDE DEF row
<1> QED BY <1>3, <1>4 DEF TypeOK

(* What recording a snapshot does to the series and to the late stamps.    *)
Recorded(t, q) ==
  /\ \A r \in snaps[t] : r.at < q.at
  /\ snaps'[t] = snaps[t] \cup {q}
  /\ \A u \in Tokens \ {t} : snaps'[u] = snaps[u] /\ late'[u] = late[u]
  /\ late[t] \subseteq late'[t]
  /\ q.at <= moment => q.at \in late'[t]
  /\ snaps' \in [Tokens -> SUBSET Snapshot]
  /\ late' \in [Tokens -> SUBSET (0..MaxTime)]

LEMMA SnapshotFacts ==
  ASSUME TypeOK, SeriesOrdered, NEW t \in Tokens, RecordSnapshot(t)
  PROVE  \E q \in [at : 0..now, price : Prices] : Recorded(t, q)
<1>1. MaxTime \in Nat /\ CommitLag \in Nat
  BY OutcomesAssumption
<1>2. now \in 0..MaxTime /\ now \in Int /\ moment \in Int
  BY <1>1 DEF TypeOK, Missing
<1>3. snaps \in [Tokens -> SUBSET Snapshot] /\ late \in [Tokens -> SUBSET (0..MaxTime)]
  BY DEF SeriesOrdered, TypeOK
<1>4. PICK q \in [at : Max({0, now - CommitLag})..now, price : Prices] :
        /\ q.at # moment
        /\ \A r \in snaps[t] : r.at < q.at
        /\ snaps' = [snaps EXCEPT ![t] = @ \cup {q}]
        /\ late' = [late EXCEPT ![t] = IF q.at < moment THEN @ \cup {q.at} ELSE @]
  BY DEF RecordSnapshot
<1>5. q \in [at : 0..now, price : Prices]
  <2>1. {0, now - CommitLag} \subseteq Int /\ IsFiniteSet({0, now - CommitLag})
    <3>1. IsFiniteSet({0}) /\ {0} \cup {now - CommitLag} = {0, now - CommitLag}
      BY FS_Singleton
    <3>2. IsFiniteSet({0} \cup {now - CommitLag})
      BY <3>1, FS_AddElement
    <3>3. now - CommitLag \in Int
      BY <1>1, <1>2
    <3> QED BY <3>1, <3>2, <3>3
  <2> DEFINE earliest == Max({0, now - CommitLag})
  <2>2. earliest \in Int /\ 0 <= earliest
    BY <2>1, MaxOfSet
  <2>3. q \in [at : earliest..now, price : Prices]
    BY <1>4
  <2> HIDE DEF earliest
  <2>4. earliest..now \subseteq 0..now
    BY <1>2, <2>2
  <2> QED BY <2>3, <2>4
<1>6. q.at \in Int /\ q.at \in 0..MaxTime /\ q \in Snapshot
  <2>1. 0..now \subseteq 0..MaxTime /\ 0..now \subseteq Int
    BY <1>1, <1>2
  <2> QED BY <1>5, <2>1 DEF Snapshot
<1> DEFINE stamps == IF q.at < moment THEN late[t] \cup {q.at} ELSE late[t]
<1>7. stamps \in SUBSET (0..MaxTime) /\ late[t] \subseteq stamps
  BY <1>3, <1>6
<1>8. q.at <= moment => q.at \in stamps
  BY <1>2, <1>4, <1>6
<1>9. late' = [late EXCEPT ![t] = stamps]
  BY <1>4
<1> HIDE DEF stamps
<1>10. /\ late' \in [Tokens -> SUBSET (0..MaxTime)]
       /\ late[t] \subseteq late'[t]
       /\ q.at <= moment => q.at \in late'[t]
       /\ \A u \in Tokens \ {t} : late'[u] = late[u]
  BY <1>3, <1>7, <1>8, <1>9
<1>11. /\ snaps' \in [Tokens -> SUBSET Snapshot]
       /\ snaps'[t] = snaps[t] \cup {q}
       /\ \A u \in Tokens \ {t} : snaps'[u] = snaps[u]
  BY <1>3, <1>4, <1>6
<1>12. Recorded(t, q)
  BY <1>4, <1>10, <1>11 DEF Recorded
<1> QED BY <1>5, <1>12

LEMMA TypeNext ==
  ASSUME IInv, [Next]_vars
  PROVE  TypeOK'
<1> USE OutcomesAssumption
<1>1. TypeOK /\ SeriesOrdered /\ SeriesSeen
  BY DEF IInv
<1>2. now \in 0..MaxTime /\ moment \in Missing..now /\ now \in Int /\ moment \in Int
  BY <1>1 DEF TypeOK, Missing
<1>b. MaxTime \in Nat /\ CommitLag \in Nat
  OBVIOUS
<1>3. CASE UNCHANGED vars
  BY <1>1, <1>3 DEF vars, tables, TypeOK
<1>4. CASE Tick
  <2>1. now' \in 0..MaxTime /\ moment' \in Missing..now'
    BY <1>2, <1>4 DEF Tick, Missing
  <2>2. ASSUME NEW t \in Tokens PROVE snaps'[t] \subseteq [at : 0..now', price : Prices]
    <3>1. snaps' = snaps /\ now' = now + 1 /\ snaps[t] \subseteq [at : 0..now, price : Prices]
      BY <1>1, <1>4 DEF Tick, TypeOK, tables
    <3>2. 0..now \subseteq 0..now'
      BY <1>2, <3>1
    <3> QED BY <3>1, <3>2
  <2> QED BY <1>1, <1>4, <2>1, <2>2 DEF Tick, TypeOK, tables
<1>5. CASE Crash
  <2>1. /\ crashes' = crashes + 1 /\ crashes < MaxCrashes
        /\ pc' = "idle" /\ todo' = <<>> /\ left' = <<>>
        /\ UNCHANGED <<now, snaps, obs, rows, moment, late>>
    BY <1>5 DEF Crash, tables
  <2>2. crashes' \in 0..MaxCrashes
    BY <1>1, <2>1 DEF TypeOK
  <2>3. todo' \in Seq(obs) /\ left' \in Seq(Barriers)
    BY <2>1
  <2> QED BY <1>1, <2>1, <2>2, <2>3 DEF TypeOK
<1>6. ASSUME NEW t \in Tokens, RecordSnapshot(t) PROVE TypeOK'
  <2>1. PICK q \in [at : 0..now, price : Prices] : Recorded(t, q)
    BY <1>1, <1>6, SnapshotFacts
  <2>3. ASSUME NEW u \in Tokens PROVE snaps'[u] \subseteq [at : 0..now, price : Prices]
    <3>1. snaps[u] \subseteq [at : 0..now, price : Prices]
      BY <1>1 DEF TypeOK
    <3>2. snaps'[u] = snaps[u] \/ snaps'[u] = snaps[u] \cup {q}
      BY <2>1 DEF Recorded
    <3> QED BY <3>1, <3>2
  <2>4. late' \in [Tokens -> SUBSET (0..MaxTime)]
    BY <2>1 DEF Recorded
  <2>5. UNCHANGED <<now, obs, rows, pc, moment, todo, series, left, crashes>>
    BY <1>6 DEF RecordSnapshot
  <2> QED BY <1>1, <2>3, <2>4, <2>5 DEF TypeOK
<1>7. ASSUME NEW t \in Tokens, RecordObservation(t) PROVE TypeOK'
  <2> DEFINE stamps == {q.at : q \in snaps[t]}
             newest == [token |-> t, at |-> Max(stamps)]
  <2>1. obs' = obs \cup {newest} /\ snaps[t] # {}
    BY <1>7 DEF RecordObservation
  <2>2. Max(stamps) \in 0..MaxTime
    <3>1. snaps[t] \in SUBSET [at : Nat, price : Nat] /\ IsFiniteSet(snaps[t])
      BY <1>1 DEF SeriesOrdered, IsSeries
    <3>2. Max(stamps) \in stamps
      BY <2>1, <3>1, SnapshotsOrdered
    <3>3. stamps \subseteq 0..MaxTime
      BY <1>1 DEF SeriesOrdered, Snapshot
    <3> QED BY <3>2, <3>3
  <2>3. newest \in Observation
    <3> HIDE DEF stamps
    <3> QED BY <2>2 DEF Observation
  <2>4. obs' \subseteq Observation /\ obs \subseteq obs'
    <3> HIDE DEF newest
    <3> QED BY <1>1, <2>1, <2>3 DEF TypeOK
  <2>5. todo' \in Seq(obs')
    <3>1. todo' = todo /\ todo \in Seq(obs)
      BY <1>1, <1>7 DEF TypeOK, RecordObservation
    <3> QED BY <2>4, <3>1, SeqDef
  <2>6. UNCHANGED <<now, snaps, rows, pc, moment, todo, series, left, late, crashes>>
    BY <1>7 DEF RecordObservation
  <2> QED BY <1>1, <2>4, <2>5, <2>6 DEF TypeOK
<1>8. CASE BeginPass
  <2>1. PICK order \in SetToAllKPermutations(Pending) : todo' = order
    BY <1>8 DEF BeginPass
  <2>2. todo' \in Seq(obs)
    <3>1. Pending \subseteq obs /\ IsFiniteSet(Pending)
      BY FS_Subset DEF Pending, IInv, ObservedSnaps
    <3>2. order \in Seq(Pending)
      BY <3>1, PermutationIsSequence
    <3> HIDE DEF Pending
    <3> QED BY <2>1, <3>1, <3>2, SeqDef
  <2>3. /\ pc = "idle" /\ pc' = IF todo' = <<>> THEN "idle" ELSE "load"
        /\ moment' = now /\ UNCHANGED <<now, tables, series, left, late, crashes>>
    BY <1>8 DEF BeginPass
  <2>4. moment' \in Missing..now'
    BY <1>2, <2>3 DEF Missing
  <2> QED BY <1>1, <2>2, <2>3, <2>4 DEF TypeOK, tables
<1>9. CASE Load
  <2>1. todo # <<>> /\ UNCHANGED <<now, tables, moment, late, crashes>>
    BY <1>1, <1>9 DEF Load, TypeOK
  <2>2. CASE ToNext
    BY <1>1, <2>1, <2>2, ToNextTyped DEF TypeOK, tables
  <2>3. CASE left' = BarrierOrder /\ pc' = "label" /\ UNCHANGED todo
    BY <1>1, <2>1, <2>3 DEF TypeOK, tables
  <2> QED BY <1>9, <2>2, <2>3 DEF Load
<1>10. CASE LabelNext
  <2> DEFINE o == Head(todo)
             c == Head(left)
  <2>1. pc = "label" /\ todo # <<>> /\ left # <<>> /\ o \in obs /\ c \in Barriers
    <3>1. pc = "label" /\ todo # <<>> /\ left # <<>> /\ todo \in Seq(obs) /\ left \in Seq(Barriers)
      BY <1>1, <1>10 DEF LabelNext, TypeOK
    <3> QED BY <3>1, TailElements
  <2>2. /\ rows' = UpsertRow(o, c, Outcome(series, o.at, c, Horizon, moment))
        /\ UNCHANGED <<now, snaps, obs, moment, late, crashes>>
    BY <1>10 DEF LabelNext
  <2>3. IsSeries(series)
    <3>1. IsStart(series, snaps[o.token]) /\ o.token \in Tokens
      BY <1>1, <2>1 DEF SeriesSeen, Seen, SeenOf, TypeOK, Observation
    <3> HIDE DEF o
    <3> QED BY <1>1, <3>1, FS_Subset DEF SeriesOrdered, IsSeries, IsStart
  <2>4. /\ rows' \subseteq Labelled
        /\ \A r, s \in rows' : r.obs = s.obs /\ r.config = s.config => r = s
    <3> HIDE DEF o, c
    <3> QED BY <1>1, <1>2, <2>1, <2>2, <2>3, UpsertTyped
  <2>5. CASE ToNext
    BY <1>1, <2>1, <2>2, <2>4, <2>5, ToNextTyped DEF TypeOK
  <2>6. CASE Len(left) # 1 /\ left' = Tail(left) /\ UNCHANGED <<todo, pc, series>>
    <3>1. left' \in Seq(Barriers) /\ left' # <<>>
      <4>1. left \in Seq(Barriers) /\ left # <<>> /\ left' = Tail(left) /\ Len(left) # 1
        BY <1>1, <2>1, <2>6 DEF TypeOK
      <4> QED BY <4>1, TailElements
    <3> QED BY <1>1, <2>1, <2>2, <2>4, <2>6, <3>1 DEF TypeOK
  <2> QED BY <1>10, <2>5, <2>6 DEF LabelNext
<1> QED BY <1>3, <1>4, <1>5, <1>6, <1>7, <1>8, <1>9, <1>10 DEF Next, Loop

-----------------------------------------------------------------------------
(* The other parts are preserved.                                          *)

(* A snapshot newer than all others keeps a series one, and a start a      *)
(* start.                                                                  *)
LEMMA SeriesGrows ==
  ASSUME NEW S, IsSeries(S), NEW q \in [at : Nat, price : Nat], \A r \in S : r.at < q.at
  PROVE  IsSeries(S \cup {q})
<1>1. IsFiniteSet(S \cup {q}) /\ S \cup {q} \subseteq [at : Nat, price : Nat]
  BY FS_AddElement DEF IsSeries
<1>2. \A r \in S : r.at \in Nat /\ r.at # q.at
  BY DEF IsSeries
<1>3. \A r, s \in S \cup {q} : r.at = s.at => r = s
  BY <1>2 DEF IsSeries
<1> QED BY <1>1, <1>3 DEF IsSeries

LEMMA SeenGrows ==
  ASSUME NEW S, NEW L, NEW V, NEW m, SeenOf(S, L, V, m),
         NEW q, \A r \in S : r.at < q.at,
         NEW M, L \subseteq M, q.at <= m => q.at \in M
  PROVE  SeenOf(S \cup {q}, M, V, m)
BY DEF SeenOf, IsStart

(* The same for the series of any token when one gets a snapshot.          *)
LEMMA SeenStays ==
  ASSUME NEW t \in Tokens, NEW q, Recorded(t, q), q.at \in Int, moment \in Int,
         NEW u \in Tokens, NEW V, NEW m \in Int, m <= moment, SeenOf(snaps[u], late[u], V, m)
  PROVE  SeenOf(snaps'[u], late'[u], V, m)
<1>1. CASE u = t
  <2>1. q.at <= m => q.at \in late'[t]
    <3>1. q.at <= m => q.at <= moment
      OBVIOUS
    <3> QED BY <3>1 DEF Recorded
  <2>2. SeenOf(snaps[t] \cup {q}, late'[t], V, m)
    BY <1>1, <2>1, SeenGrows DEF Recorded
  <2> QED BY <1>1, <2>2 DEF Recorded
<1>2. CASE u # t
  BY <1>2 DEF Recorded
<1> QED BY <1>1, <1>2

LEMMA SeriesNext ==
  ASSUME IInv, [Next]_vars
  PROVE  SeriesOrdered'
<1>1. TypeOK /\ SeriesOrdered
  BY DEF IInv
<1>2. CASE UNCHANGED snaps
  BY <1>1, <1>2 DEF SeriesOrdered
<1>3. ASSUME NEW t \in Tokens, RecordSnapshot(t) PROVE SeriesOrdered'
  <2>1. PICK q \in [at : 0..now, price : Prices] : Recorded(t, q)
    BY <1>1, <1>3, SnapshotFacts
  <2>2. q \in [at : Nat, price : Nat]
    <3>1. 0..now \subseteq Nat
      BY <1>1 DEF TypeOK
    <3>2. Prices \subseteq Nat
      BY OutcomesAssumption
    <3> QED BY <3>1, <3>2
  <2>3. IsSeries(snaps'[t])
    BY <1>1, <2>1, <2>2, SeriesGrows DEF Recorded, SeriesOrdered
  <2>4. \A u \in Tokens \ {t} : IsSeries(snaps'[u])
    BY <1>1, <2>1 DEF Recorded, SeriesOrdered
  <2> QED BY <2>1, <2>3, <2>4 DEF Recorded, SeriesOrdered
<1>4. UNCHANGED snaps \/ \E t \in Tokens : RecordSnapshot(t)
  BY DEF Next, Loop, Tick, BeginPass, Load, LabelNext, Crash, RecordObservation, tables, vars
<1> QED BY <1>2, <1>3, <1>4

LEMMA ObservedNext ==
  ASSUME IInv, [Next]_vars
  PROVE  ObservedSnaps'
<1>1. TypeOK /\ SeriesOrdered /\ ObservedSnaps
  BY DEF IInv
<1>2. CASE UNCHANGED <<snaps, obs>>
  BY <1>1, <1>2 DEF ObservedSnaps
<1>3. ASSUME NEW t \in Tokens, RecordSnapshot(t) PROVE ObservedSnaps'
  <2>1. PICK q \in [at : 0..now, price : Prices] : Recorded(t, q)
    BY <1>1, <1>3, SnapshotFacts
  <2>2. obs' = obs
    BY <1>3 DEF RecordSnapshot
  <2>3. ASSUME NEW o \in obs PROVE \E r \in snaps'[o.token] : r.at = o.at
    <3>1. o.token \in Tokens
      BY <1>1 DEF TypeOK, Observation
    <3>2. snaps[o.token] \subseteq snaps'[o.token]
      BY <2>1, <3>1 DEF Recorded
    <3> QED BY <1>1, <3>2 DEF ObservedSnaps
  <2> QED BY <1>1, <2>2, <2>3 DEF ObservedSnaps
<1>4. ASSUME NEW t \in Tokens, RecordObservation(t) PROVE ObservedSnaps'
  <2> DEFINE stamps == {q.at : q \in snaps[t]}
             newest == [token |-> t, at |-> Max(stamps)]
  <2>1. obs' = obs \cup {newest} /\ snaps[t] # {} /\ snaps' = snaps
    BY <1>4 DEF RecordObservation
  <2>2. Max(stamps) \in stamps
    <3>1. snaps[t] \in SUBSET [at : Nat, price : Nat] /\ IsFiniteSet(snaps[t])
      BY <1>1 DEF SeriesOrdered, IsSeries
    <3> QED BY <2>1, <3>1, SnapshotsOrdered
  <2>3. \E q \in snaps[newest.token] : q.at = newest.at
    BY <2>2
  <2> HIDE DEF newest
  <2>4. IsFiniteSet(obs')
    BY <1>1, <2>1, FS_AddElement DEF ObservedSnaps
  <2>5. \A o \in obs' : \E q \in snaps[o.token] : q.at = o.at
    BY <1>1, <2>1, <2>3 DEF ObservedSnaps
  <2> QED BY <2>1, <2>4, <2>5 DEF ObservedSnaps
<1>5. \/ UNCHANGED <<snaps, obs>>
      \/ \E t \in Tokens : RecordSnapshot(t)
      \/ \E t \in Tokens : RecordObservation(t)
  BY DEF Next, Loop, Tick, BeginPass, Load, LabelNext, Crash, tables, vars
<1> QED BY <1>2, <1>3, <1>4, <1>5

LEMMA SeriesSeenNext ==
  ASSUME IInv, [Next]_vars
  PROVE  SeriesSeen'
<1>1. TypeOK /\ SeriesOrdered /\ ObservedSnaps /\ SeriesSeen
  BY DEF IInv
<1>2. CASE UNCHANGED <<snaps, late, pc, moment, todo, series>>
  BY <1>1, <1>2 DEF SeriesSeen, Seen
<1>3. CASE pc' # "label"
  BY <1>3 DEF SeriesSeen
<1>4. ASSUME NEW t \in Tokens, RecordSnapshot(t) PROVE SeriesSeen'
  <2>1. SUFFICES ASSUME pc' = "label" PROVE SeriesSeen'
    BY <1>3
  <2>2. UNCHANGED <<pc, moment, todo, series>>
    BY <1>4 DEF RecordSnapshot
  <2>3. PICK q \in [at : 0..now, price : Prices] : Recorded(t, q)
    BY <1>1, <1>4, SnapshotFacts
  <2>4. q.at \in Int /\ moment \in Int /\ moment <= moment
    BY <1>1 DEF TypeOK, Missing
  <2> DEFINE u == Head(todo).token
  <2>5. u \in Tokens
    <3>1. todo \in Seq(obs) /\ todo # <<>>
      BY <1>1, <2>1, <2>2 DEF TypeOK
    <3>2. Head(todo) \in obs
      BY <3>1, TailElements
    <3> QED BY <1>1, <3>2 DEF TypeOK, Observation
  <2>6. SeenOf(snaps[u], late[u], series, moment) /\ \E p \in series : p.at = Head(todo).at
    BY <1>1, <2>1, <2>2 DEF SeriesSeen, Seen
  <2>7. SeenOf(snaps'[u], late'[u], series, moment)
    <3> HIDE DEF u
    <3> QED BY <2>3, <2>4, <2>5, <2>6, SeenStays
  <2> QED BY <2>2, <2>6, <2>7 DEF SeriesSeen, Seen
<1>5. CASE Load
  <2>1. SUFFICES ASSUME pc' = "label" PROVE SeriesSeen'
    BY <1>3
  <2>2. /\ series' = snaps[Head(todo).token] /\ todo' = todo
        /\ UNCHANGED <<snaps, moment, late>>
    BY <1>5, <2>1 DEF Load, ToNext, tables
  <2>3. todo \in Seq(obs) /\ todo # <<>>
    BY <1>1, <1>5 DEF TypeOK, Load
  <2>4. Head(todo) \in obs
    BY <2>3, TailElements
  <2>5. \E q \in series' : q.at = Head(todo).at
    BY <1>1, <2>2, <2>4 DEF ObservedSnaps
  <2>6. SeenOf(snaps[Head(todo).token], late[Head(todo).token], series', moment)
    BY <2>2 DEF SeenOf, IsStart
  <2> QED BY <2>2, <2>5, <2>6 DEF SeriesSeen, Seen
<1>6. CASE LabelNext
  <2>1. CASE ToNext
    BY <1>3, <2>1 DEF ToNext
  <2>2. CASE UNCHANGED <<todo, pc, series>>
    BY <1>2, <1>6, <2>2 DEF LabelNext
  <2> QED BY <1>6, <2>1, <2>2 DEF LabelNext
<1>7. \/ UNCHANGED <<snaps, late, pc, moment, todo, series>>
      \/ pc' # "label" \/ Load \/ LabelNext
      \/ \E t \in Tokens : RecordSnapshot(t)
  BY DEF Next, Loop, Tick, BeginPass, Crash, RecordObservation, tables, vars
<1> QED BY <1>2, <1>3, <1>4, <1>5, <1>6, <1>7

LEMMA RowsSeenNext ==
  ASSUME IInv, [Next]_vars
  PROVE  RowsSeen'
<1>1. TypeOK /\ SeriesOrdered /\ SeriesSeen /\ RowsSeen
  BY DEF IInv
<1>2. now \in Int /\ moment \in Missing..now /\ moment \in Int /\ moment <= now
  BY <1>1 DEF TypeOK, Missing
<1>3. CASE UNCHANGED <<snaps, late, rows>> /\ moment' \in {moment, now}
  <2>1. moment' \in Int /\ moment <= moment'
    BY <1>2, <1>3
  <2>2. ASSUME NEW r \in rows
        PROVE  \E m \in Missing..moment', V \in SUBSET snaps'[r.obs.token] : WrittenFrom(r, V, m)'
    BY <1>1, <1>2, <1>3, <2>1, RowStays
  <2> QED BY <1>3, <2>2 DEF RowsSeen
<1>4. ASSUME NEW t \in Tokens, RecordSnapshot(t) PROVE RowsSeen'
  <2>1. UNCHANGED <<rows, moment>>
    BY <1>4 DEF RecordSnapshot
  <2>2. PICK q \in [at : 0..now, price : Prices] : Recorded(t, q)
    BY <1>1, <1>4, SnapshotFacts
  <2>3. q.at \in Int
    BY <1>2
  <2>4. ASSUME NEW r \in rows
        PROVE  \E m \in Missing..moment', V \in SUBSET snaps'[r.obs.token] : WrittenFrom(r, V, m)'
    <3>1. PICK m \in Missing..moment, V \in SUBSET snaps[r.obs.token] : WrittenFrom(r, V, m)
      BY <1>1 DEF RowsSeen
    <3> DEFINE u == r.obs.token
    <3>2. u \in Tokens
      BY <1>1 DEF TypeOK, Labelled, Observation
    <3>3. m \in Int /\ m <= moment
      BY <1>2, <3>1 DEF Missing
    <3>4. SeenOf(snaps[u], late[u], V, m)
      BY <3>1 DEF WrittenFrom, Seen
    <3>5. SeenOf(snaps'[u], late'[u], V, m)
      <4> HIDE DEF u
      <4> QED BY <1>2, <2>2, <2>3, <3>2, <3>3, <3>4, SeenStays
    <3>6. WrittenFrom(r, V, m)'
      BY <3>1, <3>5 DEF WrittenFrom, Seen
    <3>7. V \in SUBSET snaps'[u] /\ m \in Missing..moment'
      BY <2>1, <3>1, <3>5 DEF SeenOf, IsStart
    <3> QED BY <3>6, <3>7
  <2> QED BY <2>1, <2>4 DEF RowsSeen
<1>5. CASE LabelNext
  <2> DEFINE o == Head(todo)
             c == Head(left)
             out == Outcome(series, o.at, c, Horizon, moment)
  <2>1. PICK row :
          /\ row = Row(o, c, out)
          /\ rows' = {r \in rows : r.obs # o \/ r.config # c} \cup {row}
          /\ UNCHANGED <<now, snaps, obs, moment, late, crashes>> /\ pc = "label"
    BY <1>5 DEF LabelNext, UpsertRow
  <2>2. o \in obs /\ o.token \in Tokens /\ o.at \in Nat
    <3>1. todo # <<>> /\ todo \in Seq(obs)
      BY <1>1, <2>1 DEF TypeOK
    <3>2. o \in obs
      BY <3>1, TailElements
    <3>3. obs \subseteq Observation /\ 0..MaxTime \subseteq Nat
      <4>1. obs \subseteq Observation /\ MaxTime \in Nat
        BY <1>1, OutcomesAssumption DEF TypeOK
      <4> QED BY <4>1
    <3> HIDE DEF o
    <3> QED BY <3>2, <3>3 DEF Observation
  <2>3. Seen(o.token, series, moment) /\ \E q \in series : q.at = o.at
    BY <1>1, <2>1 DEF SeriesSeen
  <2>4. series \in SUBSET snaps[o.token] /\ IsSeries(series)
    <3> HIDE DEF o
    <3>1. series \subseteq snaps[o.token] /\ IsSeries(snaps[o.token])
      BY <1>1, <2>2, <2>3 DEF Seen, SeenOf, IsStart, SeriesOrdered
    <3> QED BY <3>1, FS_Subset DEF IsSeries
  <2>5. /\ row.obs = o /\ row.config = c
        /\ row.label = Label(series, o.at, c, moment)
        /\ row.return = ReturnAt(series, o.at, Horizon, moment)
        /\ row.final = (row.label # "UNRESOLVED")
    <3>1. Horizon \in Nat
      BY OutcomesAssumption
    <3>2. /\ out.label = Label(series, o.at, c, moment)
          /\ out.return = ReturnAt(series, o.at, Horizon, moment)
          /\ out.final = (Label(series, o.at, c, moment) # "UNRESOLVED")
      BY <1>2, <2>2, <2>4, <3>1, OutcomeTyped
    <3>3. /\ row.obs = o /\ row.config = c /\ row.label = out.label
          /\ row.return = out.return /\ row.final = out.final
      <4> HIDE DEF out, o, c
      <4> QED BY <2>1 DEF Row
    <3> HIDE DEF out
    <3> QED BY <3>2, <3>3
  <2> HIDE DEF out, o, c
  <2>6. WrittenFrom(row, series, moment)
    BY <2>3, <2>5 DEF WrittenFrom
  <2>7. \E m \in Missing..moment', V \in SUBSET snaps'[row.obs.token] : WrittenFrom(row, V, m)'
    <3>1. PICK V, m : V = series /\ m = moment
      OBVIOUS
    <3>2. WrittenFrom(row, V, m)'
      BY <2>1, <2>6, <3>1 DEF WrittenFrom, Seen
    <3>3. m \in Missing..moment' /\ V \in SUBSET snaps'[row.obs.token]
      BY <1>2, <2>1, <2>4, <2>5, <3>1 DEF Missing
    <3> QED BY <3>2, <3>3
  <2>8. ASSUME NEW r \in rows
        PROVE  \E m \in Missing..moment', V \in SUBSET snaps'[r.obs.token] : WrittenFrom(r, V, m)'
    <3>1. UNCHANGED <<snaps, late>> /\ moment' \in Int /\ moment <= moment'
      BY <1>2, <2>1
    <3> QED BY <1>1, <1>2, <3>1, RowStays
  <2> QED BY <2>1, <2>7, <2>8 DEF RowsSeen
<1>6. \/ UNCHANGED <<snaps, late, rows>> /\ moment' \in {moment, now}
      \/ LabelNext \/ \E t \in Tokens : RecordSnapshot(t)
  BY DEF Next, Loop, Tick, BeginPass, Load, Crash, RecordObservation, tables, vars
<1> QED BY <1>3, <1>4, <1>5, <1>6

-----------------------------------------------------------------------------
(* The theorems.                                                           *)

LEMMA Inductive == Spec => []IInv
<1>1. IInv /\ [Next]_vars => IInv'
  BY TypeNext, SeriesNext, ObservedNext, SeriesSeenNext, RowsSeenNext DEF IInv
<1> QED BY <1>1, IInvInit, PTL DEF Spec

(* Types; one row per observation and configuration, however often it is   *)
(* labelled again and wherever the pass crashed.                           *)
THEOREM OutcomesTyped == Spec => []TypeOK
<1>1. IInv => TypeOK
  BY DEF IInv
<1> QED BY <1>1, Inductive, PTL

LEMMA RowRight ==
  ASSUME IInv, NEW r \in rows
  PROVE  /\ r.return # Missing
              => /\ now - r.obs.at >= Horizon
                 /\ r.return = Today(r).return \/ Overtaken(r.obs, Horizon)
         /\ r.final => \/ r.label = Today(r).label
                       \/ r.label = "TIMEOUT" /\ Overtaken(r.obs, r.config.barrier)
<1> DEFINE t == r.obs.token
           at == r.obs.at
           S == snaps[t]
           L == late[t]
<1>1. r.obs \in Observation /\ r.config \in Barriers /\ t \in Tokens
  BY DEF IInv, TypeOK, Labelled, Observation
<1>2. r.config \in [upper : Nat, lower : Nat, barrier : Nat] /\ Horizon \in Nat
  BY <1>1, OutcomesAssumption
<1>3. now \in Int /\ moment \in Missing..now
  BY DEF IInv, TypeOK
<1>4. IsSeries(S)
  BY <1>1 DEF IInv, SeriesOrdered
<1>5. PICK m \in Missing..moment, V \in SUBSET snaps[r.obs.token] : WrittenFrom(r, V, m)
  BY DEF IInv, RowsSeen
<1>6. m \in Int /\ m <= now
  BY <1>3, <1>5 DEF Missing
<1>7. IsStart(V, S) /\ \A q \in S \ V : q.at <= m => q.at \in L
  BY <1>5 DEF WrittenFrom, Seen, SeenOf
<1>8. PICK p \in V : p.at = at
  BY <1>5 DEF WrittenFrom
<1>9. /\ r.label = Label(V, p.at, r.config, m)
      /\ r.return = ReturnAt(V, p.at, Horizon, m)
      /\ r.final = (r.label # "UNRESOLVED")
  BY <1>5, <1>8 DEF WrittenFrom
<1>10. at \in Nat
  BY <1>1, OutcomesAssumption DEF Observation
<1>11. /\ Today(r).label = Label(S, p.at, r.config, now)
       /\ Today(r).return = ReturnAt(S, p.at, Horizon, now)
  <2>1. Today(r) = Outcome(S, at, r.config, Horizon, now)
    BY DEF Today
  <2> HIDE DEF S, at
  <2> QED BY <1>2, <1>3, <1>4, <1>8, <1>10, <2>1, OutcomeTyped
<1>12. \A span : Overtaken(r.obs, span) <=> \E a \in L : a \in (p.at + 1)..(p.at + span)
  BY <1>8 DEF Overtaken
<1> HIDE DEF S, L, at, t
<1>13. r.return # Missing
         => /\ now - p.at >= Horizon
            /\ r.return = Today(r).return \/ Overtaken(r.obs, Horizon)
  BY <1>2, <1>3, <1>4, <1>6, <1>7, <1>9, <1>11, <1>12, ReturnKept
<1>14. r.final => \/ r.label = Today(r).label
                  \/ r.label = "TIMEOUT" /\ Overtaken(r.obs, r.config.barrier)
  <2>1. PICK config \in [upper : Nat, lower : Nat, barrier : Nat] : config = r.config
    BY <1>2
  <2>2. SUFFICES ASSUME Label(V, p.at, config, m) # "UNRESOLVED"
        PROVE  \/ r.label = Today(r).label
               \/ r.label = "TIMEOUT" /\ Overtaken(r.obs, config.barrier)
    BY <1>9, <2>1
  <2>3. \/ Label(V, p.at, config, m) = Label(S, p.at, config, now)
        \/ /\ Label(V, p.at, config, m) = "TIMEOUT"
           /\ \E a \in L : a \in (p.at + 1)..(p.at + config.barrier)
    BY <1>3, <1>4, <1>6, <1>7, <2>2, LabelKept
  <2> QED BY <1>9, <1>11, <1>12, <2>1, <2>3
<1> QED BY <1>8, <1>13, <1>14 DEF at

(* A recorded return is the return at its horizon, and a final label what  *)
(* the series says from then on, unless a pass overtook a snapshot.        *)
THEOREM RowsAlwaysRight == Spec => []RowsRight
<1>1. IInv => RowsRight
  BY RowRight DEF RowsRight, ReturnIsRight, FinalIsRight
<1> QED BY <1>1, Inductive, PTL
=============================================================================
