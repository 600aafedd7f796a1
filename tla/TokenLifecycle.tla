--------------------------- MODULE TokenLifecycle ---------------------------
(***************************************************************************)
(* What the life of a token promises, whoever writes the row: it is        *)
(* discovered once, admitted once into one of MaxConcurrent slots, and     *)
(* leaves its slot for one terminal state.                                 *)
(***************************************************************************)
EXTENDS Integers, FiniteSets

CONSTANTS Tokens, MaxConcurrent

VARIABLE life

InSlot == {t \in Tokens : life[t] = "TRACKING"}

LifeInit == life = [t \in Tokens |-> "ABSENT"]

Sighted(t) ==
  /\ life[t] = "ABSENT"
  /\ life' = [life EXCEPT ![t] = "DISCOVERED"]

Admitted(S) ==
  /\ S # {} /\ \A t \in S : life[t] = "DISCOVERED"
  /\ Cardinality(InSlot \cup S) <= MaxConcurrent
  /\ life' = [t \in Tokens |-> IF t \in S THEN "TRACKING" ELSE life[t]]

Released(S) ==
  /\ S # {} /\ S \subseteq InSlot
  /\ \E end \in {"MIGRATED", "INACTIVE", "DEAD"} :
       life' = [t \in Tokens |-> IF t \in S THEN end ELSE life[t]]

LifeNext == \/ \E t \in Tokens : Sighted(t)
            \/ \E S \in SUBSET Tokens : Admitted(S) \/ Released(S)

LifeSpec == LifeInit /\ [][LifeNext]_life
=============================================================================
