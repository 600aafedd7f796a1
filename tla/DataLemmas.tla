----------------------------- MODULE DataLemmas -----------------------------
(***************************************************************************)
(* What the proofs of several components need of sets and sequences.       *)
(* Induction over finite sets and over the natural numbers, with the       *)
(* property to prove given as the set of what has it; the sum of a         *)
(* function over a finite set, which FoldFunctionOnSet computes by         *)
(* recursion; the largest and the smallest member of a set, and how many   *)
(* are newer than one; the sequences that a query with a limit returns and *)
(* a loop consumes from the head; and the powers of two.                   *)
(***************************************************************************)
EXTENDS FiniteSetTheorems, SequenceTheorems, SequencesExt, Doubling, TLAPS

(* A non-empty collection of subsets of a finite set has a minimal member. *)
LEMMA MinimalMember ==
  ASSUME NEW S, IsFiniteSet(S), NEW B, B \subseteq SUBSET S, B # {}
  PROVE  \E T \in B : \A U \in B : ~ (U \subseteq T /\ U # T)
<1>1. SUBSET S = FiniteSubsetsOf(S)
  BY FS_FiniteSubsetsOfFinite
<1>2. IsWellFoundedOn(StrictSubsetOrdering(S), SUBSET S)
  BY <1>1, FS_StrictSubsetOrderingWellFounded
<1>3. PICK T \in B : \A U \in B : ~ (<<U, T>> \in StrictSubsetOrdering(S))
  BY <1>2, WFMin
<1>4. ASSUME NEW U \in B, U \subseteq T, U # T PROVE FALSE
  <2>1. <<U, T>> \in (SUBSET S) \X (SUBSET S)
    OBVIOUS
  <2>2. <<U, T>> \in StrictSubsetOrdering(S)
    BY <1>4, <2>1 DEF StrictSubsetOrdering
  <2> QED BY <1>3, <2>2
<1> QED BY <1>4

(* What holds of the empty set, and of a subset of S whenever it holds of  *)
(* all its proper subsets, holds of every subset of S.                     *)
LEMMA SubsetInduction ==
  ASSUME NEW S, IsFiniteSet(S), NEW C,
         \A T \in SUBSET S : (\A U \in SUBSET T : U # T => U \in C) => T \in C
  PROVE  \A T \in SUBSET S : T \in C
<1> DEFINE B == {T \in SUBSET S : T \notin C}
<1>1. SUFFICES ASSUME B # {} PROVE FALSE
  OBVIOUS
<1>2. PICK T \in B : \A U \in B : ~ (U \subseteq T /\ U # T)
  <2>1. B \subseteq SUBSET S
    OBVIOUS
  <2> HIDE DEF B
  <2> QED BY <1>1, <2>1, MinimalMember
<1>3. T \in SUBSET S /\ T \notin C
  OBVIOUS
<1>4. \A U \in SUBSET T : U # T => U \in C
  BY <1>2, <1>3
<1> QED BY <1>3, <1>4

(* The same for the natural numbers.                                       *)
LEMMA NaturalInduction ==
  ASSUME NEW C, 0 \in C, \A n \in Nat : n \in C => n + 1 \in C
  PROVE  \A n \in Nat : n \in C
<1>1. SUFFICES ASSUME NEW n \in Nat PROVE n \in C
  OBVIOUS
<1> DEFINE B == {0..k : k \in {m \in 0..n : m \notin C}}
<1>2. SUFFICES ASSUME n \notin C PROVE FALSE
  OBVIOUS
<1>3. IsFiniteSet(0..n)
  BY FS_Interval
<1>4. B \subseteq SUBSET (0..n) /\ B # {}
  <2>1. 0..n \in B
    BY <1>2
  <2> QED BY <2>1
<1>5. PICK T \in B : \A U \in B : ~ (U \subseteq T /\ U # T)
  <2> DEFINE R == 0..n
  <2>1. IsFiniteSet(R) /\ B \subseteq SUBSET R /\ B # {}
    BY <1>3, <1>4
  <2> HIDE DEF B, R
  <2> QED BY <2>1, MinimalMember
<1>6. PICK k \in 0..n : k \notin C /\ T = 0..k
  OBVIOUS
<1>7. k # 0 /\ k - 1 \in Nat /\ k - 1 \in 0..n
  BY <1>6
<1>8. k - 1 \notin C
  <2>1. (k - 1) + 1 = k
    BY <1>7
  <2> QED BY <1>6, <1>7, <2>1
<1>9. 0..(k - 1) \in B
  BY <1>7, <1>8
<1>10. 0..(k - 1) \subseteq T /\ 0..(k - 1) # T
  <2>1. k \in 0..k /\ k \notin 0..(k - 1)
    BY <1>7
  <2> QED BY <1>6, <1>7, <2>1
<1> QED BY <1>5, <1>9, <1>10

-----------------------------------------------------------------------------
(* The sum of f over the finite set S, and the recursion that computes it. *)

SumOver(f, S) == FoldFunctionOnSet(+, 0, f, S)

First(T) == CHOOSE x \in T : TRUE

(* g is what the recursion makes of f on the subsets of S.                 *)
Adds(g, f, S) ==
  g = [T \in SUBSET S |-> IF T = {} THEN 0 ELSE f[First(T)] + g[T \ {First(T)}]]

LEMMA FirstIsMember ==
  ASSUME NEW T, T # {}
  PROVE  First(T) \in T
BY DEF First

(* Any two such functions agree where both are defined.                    *)
LEMMA AddsUnique ==
  ASSUME NEW S, IsFiniteSet(S), NEW R, S \subseteq R, NEW f, NEW e,
         \A x \in S : f[x] = e[x],
         NEW g, Adds(g, f, S), NEW h, Adds(h, e, R)
  PROVE  \A T \in SUBSET S : g[T] = h[T]
<1> DEFINE C == {T \in SUBSET S : g[T] = h[T]}
<1>1. ASSUME NEW T \in SUBSET S, \A U \in SUBSET T : U # T => U \in C
      PROVE  T \in C
  <2>1. CASE T = {}
    BY <2>1 DEF Adds
  <2>2. CASE T # {}
    <3> DEFINE x == First(T)
    <3>1. x \in T
      BY <2>2, FirstIsMember
    <3>2. T \ {x} \in C
      BY <1>1, <3>1
    <3>3. g[T] = f[x] + g[T \ {x}]
      BY <2>2 DEF Adds
    <3>4. h[T] = e[x] + h[T \ {x}]
      BY <2>2 DEF Adds
    <3>5. f[x] = e[x]
      BY <3>1
    <3> QED BY <3>2, <3>3, <3>4, <3>5
  <2> QED BY <2>1, <2>2
<1>2. \A T \in SUBSET S : T \in C
  <2> HIDE DEF C
  <2> QED BY <1>1, SubsetInduction
<1> QED BY <1>2

(* There is one, for every finite set.                                     *)
LEMMA AddsExists ==
  ASSUME NEW S, IsFiniteSet(S), NEW f
  PROVE  \E g : Adds(g, f, S)
<1> DEFINE Small(n) == {T \in SUBSET S : Cardinality(T) <= n}
           AddsSmall(g, n) ==
             g = [T \in Small(n) |-> IF T = {} THEN 0 ELSE f[First(T)] + g[T \ {First(T)}]]
           C == {n \in Nat : \E g : AddsSmall(g, n)}
<1>0. \A T \in SUBSET S : IsFiniteSet(T) /\ Cardinality(T) \in Nat
  BY FS_Subset, FS_CardinalityType
<1>1. 0 \in C
  <2> DEFINE g == [T \in Small(0) |-> 0]
  <2>1. \A T \in Small(0) : T = {}
    BY <1>0, FS_EmptySet
  <2>2. AddsSmall(g, 0)
    BY <2>1
  <2> QED BY <2>2
<1>2. ASSUME NEW n \in Nat, n \in C PROVE n + 1 \in C
  <2>1. PICK g : AddsSmall(g, n)
    BY <1>2
  <2> DEFINE h == [T \in Small(n + 1) |->
                     IF T = {} THEN 0 ELSE f[First(T)] + g[T \ {First(T)}]]
  <2>2. ASSUME NEW T \in Small(n + 1), T # {}
        PROVE  h[T \ {First(T)}] = g[T \ {First(T)}]
    <3> DEFINE U == T \ {First(T)}
    <3>1. U \in SUBSET S /\ Cardinality(U) = Cardinality(T) - 1
      BY <1>0, <2>2, FirstIsMember, FS_RemoveElement
    <3>2. U \in Small(n) /\ U \in Small(n + 1)
      BY <1>0, <3>1
    <3>3. h[U] = IF U = {} THEN 0 ELSE f[First(U)] + g[U \ {First(U)}]
      BY <3>2
    <3>4. g[U] = IF U = {} THEN 0 ELSE f[First(U)] + g[U \ {First(U)}]
      BY <2>1, <3>2
    <3> QED BY <3>3, <3>4
  <2>3. AddsSmall(h, n + 1)
    BY <2>2
  <2> HIDE DEF AddsSmall, h
  <2> QED BY <2>3
<1>3. Cardinality(S) \in C
  <2>1. Cardinality(S) \in Nat
    BY FS_CardinalityType
  <2> HIDE DEF C
  <2> QED BY <1>1, <1>2, <2>1, NaturalInduction
<1>4. PICK g : AddsSmall(g, Cardinality(S))
  BY <1>3
<1>5. Small(Cardinality(S)) = SUBSET S
  BY FS_Subset
<1> QED BY <1>4, <1>5 DEF Adds

(* The fold is that recursion.                                             *)
LEMMA SumAdds ==
  ASSUME NEW S, IsFiniteSet(S), NEW f
  PROVE  \E g : Adds(g, f, S) /\ SumOver(f, S) = g[S]
<1> DEFINE g == CHOOSE g : Adds(g, f, S)
<1>1. Adds(g, f, S)
  BY AddsExists
<1>2. SumOver(f, S) = g[S]
  BY DEF SumOver, FoldFunctionOnSet, MapThenFoldSet, Adds, First
<1> QED BY <1>1, <1>2

(* The sum of nothing is zero.                                             *)
LEMMA SumOfNothing ==
  ASSUME NEW f
  PROVE  SumOver(f, {}) = 0
<1>1. PICK g : Adds(g, f, {}) /\ SumOver(f, {}) = g[{}]
  BY FS_EmptySet, SumAdds
<1> QED BY <1>1 DEF Adds

(* The sum over a set reads its own elements only.                         *)
LEMMA SumReadsSet ==
  ASSUME NEW S, IsFiniteSet(S), NEW f, NEW e, \A x \in S : f[x] = e[x]
  PROVE  SumOver(f, S) = SumOver(e, S)
<1>1. PICK g : Adds(g, f, S) /\ SumOver(f, S) = g[S]
  BY SumAdds
<1>2. PICK h : Adds(h, e, S) /\ SumOver(e, S) = h[S]
  BY SumAdds
<1>3. \A T \in SUBSET S : g[T] = h[T]
  BY <1>1, <1>2, AddsUnique
<1> QED BY <1>1, <1>2, <1>3

(* On a subset, the recursion on the whole gives the sum.                  *)
LEMMA SumOfPart ==
  ASSUME NEW R, IsFiniteSet(R), NEW S \in SUBSET R, NEW f, NEW g, Adds(g, f, R)
  PROVE  SumOver(f, S) = g[S]
<1>1. IsFiniteSet(S)
  BY FS_Subset
<1>2. PICK h : Adds(h, f, S) /\ SumOver(f, S) = h[S]
  BY <1>1, SumAdds
<1>3. \A T \in SUBSET S : h[T] = g[T]
  BY <1>1, <1>2, AddsUnique
<1> QED BY <1>2, <1>3

(* Whichever element is taken first, the recursion gives the same.         *)
LEMMA AddsAnyFirst ==
  ASSUME NEW S, IsFiniteSet(S), NEW f, \A x \in S : f[x] \in Int,
         NEW g, Adds(g, f, S)
  PROVE  \A T \in SUBSET S : /\ g[T] \in Int
                             /\ \A x \in T : g[T] = f[x] + g[T \ {x}]
<1> DEFINE C == {T \in SUBSET S : /\ g[T] \in Int
                                  /\ \A x \in T : g[T] = f[x] + g[T \ {x}]}
<1>1. ASSUME NEW T \in SUBSET S, \A U \in SUBSET T : U # T => U \in C
      PROVE  T \in C
  <2>1. CASE T = {}
    BY <2>1 DEF Adds
  <2>2. CASE T # {}
    <3> DEFINE y == First(T)
    <3>1. y \in T /\ f[y] \in Int
      BY <2>2, FirstIsMember
    <3>2. g[T] = f[y] + g[T \ {y}]
      BY <2>2 DEF Adds
    <3>3. T \ {y} \in C
      BY <1>1, <3>1
    <3>4. ASSUME NEW x \in T, x # y PROVE g[T] = f[x] + g[T \ {x}]
      <4>1. T \ {x} \in C
        BY <1>1
      <4>2. g[T \ {y}] = f[x] + g[(T \ {y}) \ {x}]
        BY <3>3, <3>4
      <4>3. g[T \ {x}] = f[y] + g[(T \ {x}) \ {y}]
        BY <3>1, <3>4, <4>1
      <4>4. (T \ {y}) \ {x} = (T \ {x}) \ {y} /\ (T \ {y}) \ {x} \in C
        BY <1>1, <3>1
      <4>5. g[(T \ {x}) \ {y}] \in Int /\ f[x] \in Int
        BY <4>4
      <4>6. PICK k \in Int : g[T \ {y}] = f[x] + k /\ g[T \ {x}] = f[y] + k
        BY <4>2, <4>3, <4>4, <4>5
      <4>7. f[y] + (f[x] + k) = f[x] + (f[y] + k)
        BY <3>1, <4>5, <4>6
      <4> QED BY <3>2, <4>6, <4>7
    <3>5. g[T \ {y}] \in Int
      BY <3>3
    <3>6. g[T] \in Int
      BY <3>1, <3>2, <3>5
    <3> QED BY <3>2, <3>4, <3>6
  <2> QED BY <2>1, <2>2
<1>2. \A T \in SUBSET S : T \in C
  <2> HIDE DEF C
  <2> QED BY <1>1, SubsetInduction
<1> QED BY <1>2

(* A sum of integers is one, and grows by the value of what is added.      *)
LEMMA SumOfIntegers ==
  ASSUME NEW S, IsFiniteSet(S), NEW f, \A x \in S : f[x] \in Int
  PROVE  SumOver(f, S) \in Int
<1>1. PICK g : Adds(g, f, S) /\ SumOver(f, S) = g[S]
  BY SumAdds
<1> QED BY <1>1, AddsAnyFirst

LEMMA SumWithOneMore ==
  ASSUME NEW S, IsFiniteSet(S), NEW y, y \notin S,
         NEW f, \A x \in S \cup {y} : f[x] \in Int
  PROVE  SumOver(f, S \cup {y}) = SumOver(f, S) + f[y]
<1> DEFINE R == S \cup {y}
<1>1. IsFiniteSet(R) /\ S \in SUBSET R
  BY FS_AddElement
<1>2. PICK g : Adds(g, f, R) /\ SumOver(f, R) = g[R]
  BY <1>1, SumAdds
<1>3. SumOver(f, S) = g[S]
  BY <1>1, <1>2, SumOfPart
<1>4. g[R] = f[y] + g[R \ {y}] /\ g[S] \in Int /\ f[y] \in Int
  BY <1>1, <1>2, AddsAnyFirst
<1>5. R \ {y} = S
  OBVIOUS
<1>6. f[y] + g[S] = g[S] + f[y]
  BY <1>4
<1> QED BY <1>2, <1>3, <1>4, <1>5, <1>6

-----------------------------------------------------------------------------
(* A finite set of numbers has a largest member.                           *)
LEMMA MaxOfSet ==
  ASSUME NEW S, S \subseteq Int, IsFiniteSet(S), S # {}
  PROVE  Max(S) \in S /\ \A y \in S : y <= Max(S)
<1> DEFINE C == {T \in SUBSET S : T # {} => \E m \in T : \A y \in T : y <= m}
<1>1. ASSUME NEW T \in SUBSET S, \A U \in SUBSET T : U # T => U \in C
      PROVE  T \in C
  <2>1. SUFFICES ASSUME NEW x \in T PROVE \E m \in T : \A y \in T : y <= m
    OBVIOUS
  <2>2. T \ {x} \in C
    BY <1>1
  <2>3. CASE T \ {x} = {}
    BY <2>3
  <2>4. CASE T \ {x} # {}
    <3>1. PICK m \in T \ {x} : \A y \in T \ {x} : y <= m
      BY <2>2, <2>4
    <3>2. CASE x <= m
      BY <3>1, <3>2
    <3>3. CASE ~(x <= m)
      BY <3>1, <3>3
    <3> QED BY <3>2, <3>3
  <2> QED BY <2>3, <2>4
<1>2. \A T \in SUBSET S : T \in C
  <2> HIDE DEF C
  <2> QED BY <1>1, SubsetInduction
<1>3. \E m \in S : \A y \in S : m >= y
  BY <1>2
<1> QED BY <1>3 DEF Max

(* ... and a smallest one.                                                 *)
LEMMA MinOfSet ==
  ASSUME NEW S, S \subseteq Int, IsFiniteSet(S), S # {}
  PROVE  Min(S) \in S /\ \A y \in S : Min(S) <= y
<1> DEFINE C == {T \in SUBSET S : T # {} => \E m \in T : \A y \in T : m <= y}
<1>1. ASSUME NEW T \in SUBSET S, \A U \in SUBSET T : U # T => U \in C
      PROVE  T \in C
  <2>1. SUFFICES ASSUME NEW x \in T PROVE \E m \in T : \A y \in T : m <= y
    OBVIOUS
  <2>2. T \ {x} \in C
    BY <1>1
  <2>3. CASE T \ {x} = {}
    BY <2>3
  <2>4. CASE T \ {x} # {}
    <3>1. PICK m \in T \ {x} : \A y \in T \ {x} : m <= y
      BY <2>2, <2>4
    <3>2. CASE m <= x
      BY <3>1, <3>2
    <3>3. CASE ~(m <= x)
      BY <3>1, <3>3
    <3> QED BY <3>2, <3>3
  <2> QED BY <2>3, <2>4
<1>2. \A T \in SUBSET S : T \in C
  <2> HIDE DEF C
  <2> QED BY <1>1, SubsetInduction
<1>3. \E m \in S : \A y \in S : m <= y
  BY <1>2
<1> QED BY <1>3 DEF Min

-----------------------------------------------------------------------------
(* A permutation of a subset of S is a sequence over S without repetition. *)
LEMMA PermutationIsSequence ==
  ASSUME NEW S, IsFiniteSet(S), NEW order \in SetToAllKPermutations(S)
  PROVE  /\ order \in Seq(S)
         /\ \A i, j \in 1..Len(order) : i # j => order[i] # order[j]
<1>1. PICK s \in SUBSET S : order \in SetToSeqs(s)
  BY DEF SetToAllKPermutations
<1>2. Cardinality(s) \in Nat
  BY <1>1, FS_Subset, FS_CardinalityType
<1>3. order \in [1..Cardinality(s) -> s]
  BY <1>1 DEF SetToSeqs
<1>4. order \in Seq(s) /\ Len(order) = Cardinality(s)
  BY <1>2, <1>3, SeqDef, LenProperties
<1>5. order \in Seq(S)
  BY <1>1, <1>4, SeqDef
<1>6. \A i, j \in 1..Cardinality(s) : i # j => order[i] # order[j]
  BY <1>1 DEF SetToSeqs
<1> QED BY <1>4, <1>5, <1>6

(* What a loop that consumes its list from the head finds in it.           *)
LEMMA TailElements ==
  ASSUME NEW S, NEW s \in Seq(S), s # <<>>
  PROVE  /\ Len(s) \in Nat \ {0} /\ Head(s) = s[1] /\ s[1] \in S
         /\ Tail(s) \in Seq(S) /\ Len(Tail(s)) = Len(s) - 1
         /\ \A i \in 1..Len(Tail(s)) : Tail(s)[i] = s[i + 1] /\ i + 1 \in 1..Len(s)
         /\ Len(s) = 1 <=> Tail(s) = <<>>
<1>1. Len(s) \in Nat \ {0} /\ DOMAIN s = 1..Len(s)
  BY EmptySeq, LenProperties
<1>2. Tail(s) \in Seq(S) /\ Len(Tail(s)) = Len(s) - 1
      /\ \A i \in 1..Len(Tail(s)) : Tail(s)[i] = s[i + 1]
  BY HeadTailProperties
<1>3. Head(s) = s[1] /\ s[1] \in S
  BY <1>1, ElementOfSeq
<1>4. \A i \in 1..Len(Tail(s)) : i + 1 \in 1..Len(s)
  BY <1>1, <1>2
<1>5. Len(s) = 1 <=> Tail(s) = <<>>
  <2>1. Len(<<>>) = 0 /\ (Tail(s) # <<>> => Len(Tail(s)) \in Nat \ {0})
    BY <1>2, EmptySeq
  <2>2. Len(Tail(s)) = 0 <=> Tail(s) = <<>>
    BY <2>1
  <2>3. ASSUME NEW n \in Nat, NEW k, k = n - 1 PROVE n = 1 <=> k = 0
    BY <2>3
  <2> QED BY <1>1, <1>2, <2>2, <2>3
<1> QED BY <1>1, <1>2, <1>3, <1>4, <1>5

(* A suffix is a sequence that agrees with the end of the other.           *)
LEMMA SuffixByIndex ==
  ASSUME NEW S, NEW s \in Seq(S), NEW t \in Seq(S)
  PROVE  IsSuffix(s, t) <=> /\ Len(s) <= Len(t)
                            /\ \A i \in 1..Len(s) : s[i] = t[Len(t) - Len(s) + i]
<1> DEFINE rs == [i \in 1..Len(s) |-> s[(Len(s) - i) + 1]]
           rt == [i \in 1..Len(t) |-> t[(Len(t) - i) + 1]]
<1>1. Len(s) \in Nat /\ Len(t) \in Nat
  BY LenProperties
<1>2. \A i \in 1..Len(s) : s[(Len(s) - i) + 1] \in S
  BY <1>1, ElementOfSeq
<1>3. \A i \in 1..Len(t) : t[(Len(t) - i) + 1] \in S
  BY <1>1, ElementOfSeq
<1>4. rs \in Seq(S) /\ Len(rs) = Len(s) /\ rt \in Seq(S) /\ Len(rt) = Len(t)
  BY <1>1, <1>2, <1>3, IsASeq, LenProperties
<1>5. IsSuffix(s, t) <=> Len(s) <= Len(t) /\ SubSeq(rs, 1, Len(s)) = SubSeq(rt, 1, Len(s))
  BY <1>4 DEF IsSuffix, IsPrefix, Reverse
<1>6. SUFFICES ASSUME Len(s) <= Len(t)
               PROVE  SubSeq(rs, 1, Len(s)) = SubSeq(rt, 1, Len(s))
                        <=> \A i \in 1..Len(s) : s[i] = t[Len(t) - Len(s) + i]
  BY <1>5
<1>7. /\ SubSeq(rs, 1, Len(s)) = [i \in 1..Len(s) |-> rs[i]]
      /\ SubSeq(rt, 1, Len(s)) = [i \in 1..Len(s) |-> rt[i]]
  <2> HIDE DEF rs, rt
  <2>1. ASSUME NEW r \in Seq(S), Len(r) \in Nat, Len(s) <= Len(r)
        PROVE  SubSeq(r, 1, Len(s)) = [i \in 1..Len(s) |-> r[i]]
    <3>1. SubSeq(r, 1, Len(s)) = [i \in 1..((1 + Len(s)) - 1) |-> r[(i + 1) - 1]]
      OBVIOUS
    <3>2. (1 + Len(s)) - 1 = Len(s) /\ \A i \in 1..Len(s) : (i + 1) - 1 = i
      BY <1>1
    <3> QED BY <3>1, <3>2
  <2> QED BY <1>1, <1>4, <1>6, <2>1
<1>8. SubSeq(rs, 1, Len(s)) = SubSeq(rt, 1, Len(s)) <=> \A i \in 1..Len(s) : rs[i] = rt[i]
  <2> HIDE DEF rs, rt
  <2> QED BY <1>7
<1>9. (\A i \in 1..Len(s) : rs[i] = rt[i])
        <=> \A i \in 1..Len(s) : s[(Len(s) - i) + 1] = t[(Len(t) - i) + 1]
  <2>1. \A i \in 1..Len(s) : rs[i] = s[(Len(s) - i) + 1] /\ rt[i] = t[(Len(t) - i) + 1]
    <3>1. 1..Len(s) \subseteq 1..Len(t)
      BY <1>1, <1>6
    <3> QED BY <3>1
  <2> HIDE DEF rs, rt
  <2> QED BY <2>1
<1>10. \A i \in 1..Len(s) :
         /\ (Len(s) - i) + 1 \in 1..Len(s)
         /\ Len(s) - ((Len(s) - i) + 1) + 1 = i
         /\ (Len(t) - i) + 1 = Len(t) - Len(s) + ((Len(s) - i) + 1)
         /\ (Len(t) - ((Len(s) - i) + 1)) + 1 = Len(t) - Len(s) + i
  BY <1>1
<1>11. (\A i \in 1..Len(s) : s[(Len(s) - i) + 1] = t[(Len(t) - i) + 1])
         <=> \A i \in 1..Len(s) : s[i] = t[Len(t) - Len(s) + i]
  <2>1. ASSUME \A i \in 1..Len(s) : s[(Len(s) - i) + 1] = t[(Len(t) - i) + 1], NEW j \in 1..Len(s)
        PROVE  s[j] = t[Len(t) - Len(s) + j]
    <3>1. s[(Len(s) - ((Len(s) - j) + 1)) + 1] = t[(Len(t) - ((Len(s) - j) + 1)) + 1]
      BY <1>10, <2>1
    <3> QED BY <1>10, <3>1
  <2>2. ASSUME \A i \in 1..Len(s) : s[i] = t[Len(t) - Len(s) + i], NEW j \in 1..Len(s)
        PROVE  s[(Len(s) - j) + 1] = t[(Len(t) - j) + 1]
    BY <1>10, <2>2
  <2> QED BY <2>1, <2>2
<1> QED BY <1>8, <1>9, <1>11

(* Taking the head off a suffix leaves a suffix.                           *)
LEMMA SuffixTail ==
  ASSUME NEW S, NEW s \in Seq(S), NEW t \in Seq(S), s # <<>>, IsSuffix(s, t)
  PROVE  IsSuffix(Tail(s), t)
<1>1. /\ Len(s) \in Nat \ {0} /\ Tail(s) \in Seq(S) /\ Len(Tail(s)) = Len(s) - 1
      /\ \A i \in 1..Len(Tail(s)) : Tail(s)[i] = s[i + 1] /\ i + 1 \in 1..Len(s)
  BY TailElements
<1>2. Len(t) \in Nat
  BY LenProperties
<1>3. Len(s) <= Len(t) /\ \A i \in 1..Len(s) : s[i] = t[Len(t) - Len(s) + i]
  BY SuffixByIndex
<1>4. Len(Tail(s)) <= Len(t)
  BY <1>1, <1>2, <1>3
<1>5. \A i \in 1..Len(Tail(s)) : Tail(s)[i] = t[Len(t) - Len(Tail(s)) + i]
  <2>1. TAKE i \in 1..Len(Tail(s))
  <2>2. Tail(s)[i] = t[Len(t) - Len(s) + (i + 1)]
    BY <1>1, <1>3
  <2>3. Len(t) - Len(s) + (i + 1) = Len(t) - Len(Tail(s)) + i
    BY <1>1, <1>2
  <2> QED BY <2>2, <2>3
<1> QED BY <1>1, <1>4, <1>5, SuffixByIndex

-----------------------------------------------------------------------------
(* The powers of two, which Power2 defines by recursion.                   *)

Doubles(g, n) == g = [k \in 0..n |-> IF k = 0 THEN 1 ELSE 2 * g[k - 1]]

LEMMA DoublesExist == \A n \in Nat : \E g : Doubles(g, n)
<1> DEFINE C == {n \in Nat : \E g : Doubles(g, n)}
<1>1. 0 \in C
  <2> DEFINE g == [k \in 0..0 |-> 1]
  <2>1. Doubles(g, 0)
    BY DEF Doubles
  <2> QED BY <2>1
<1>2. ASSUME NEW n \in Nat, n \in C PROVE n + 1 \in C
  <2>1. PICK g : Doubles(g, n)
    BY <1>2
  <2> DEFINE h == [k \in 0..(n + 1) |-> IF k = 0 THEN 1 ELSE 2 * g[k - 1]]
  <2>2. ASSUME NEW k \in 0..(n + 1), k # 0 PROVE h[k - 1] = g[k - 1]
    <3>1. k - 1 \in 0..n /\ k - 1 \in 0..(n + 1)
      BY <2>2
    <3>2. h[k - 1] = IF k - 1 = 0 THEN 1 ELSE 2 * g[(k - 1) - 1]
      BY <3>1
    <3>3. g[k - 1] = IF k - 1 = 0 THEN 1 ELSE 2 * g[(k - 1) - 1]
      BY <2>1, <3>1 DEF Doubles
    <3> QED BY <3>2, <3>3
  <2>3. Doubles(h, n + 1)
    BY <2>2 DEF Doubles
  <2> HIDE DEF h
  <2> QED BY <2>3
<1>3. \A n \in Nat : n \in C
  <2> HIDE DEF C
  <2> QED BY <1>1, <1>2, NaturalInduction
<1> QED BY <1>3

(* Two of them agree as far as both go.                                    *)
LEMMA DoublesUnique ==
  ASSUME NEW m \in Nat, NEW n \in Nat, NEW g, NEW h, Doubles(g, m), Doubles(h, n)
  PROVE  \A k \in Nat : k <= m /\ k <= n => g[k] = h[k]
<1> DEFINE C == {k \in Nat : k <= m /\ k <= n => g[k] = h[k]}
<1>1. 0 \in C
  <2>1. 0 \in 0..m /\ 0 \in 0..n
    OBVIOUS
  <2>2. g[0] = 1 /\ h[0] = 1
    BY <2>1 DEF Doubles
  <2> QED BY <2>2
<1>2. ASSUME NEW k \in Nat, k \in C PROVE k + 1 \in C
  <2>1. SUFFICES ASSUME k + 1 <= m, k + 1 <= n PROVE g[k + 1] = h[k + 1]
    OBVIOUS
  <2>2. k + 1 \in 0..m /\ k + 1 \in 0..n /\ k + 1 # 0 /\ (k + 1) - 1 = k
    BY <2>1
  <2>3. g[k + 1] = 2 * g[(k + 1) - 1] /\ h[k + 1] = 2 * h[(k + 1) - 1]
    BY <2>2 DEF Doubles
  <2>4. g[k] = h[k]
    BY <1>2, <2>1
  <2> QED BY <2>2, <2>3, <2>4
<1>3. \A k \in Nat : k \in C
  <2> HIDE DEF C
  <2> QED BY <1>1, <1>2, NaturalInduction
<1> QED BY <1>3

LEMMA Power2Unfolds ==
  ASSUME NEW n \in Nat
  PROVE  Power2[n] = IF n = 0 THEN 1 ELSE 2 * Power2[n - 1]
<1> DEFINE Upto(k) == CHOOSE g : Doubles(g, k)
           P == [k \in Nat |-> Upto(k)[k]]
<1>1. \A k \in Nat : Doubles(Upto(k), k)
  BY DoublesExist
<1>2. ASSUME NEW k \in Nat
      PROVE  P[k] = IF k = 0 THEN 1 ELSE 2 * P[k - 1]
  <2>1. k \in 0..k
    OBVIOUS
  <2>2. Upto(k)[k] = IF k = 0 THEN 1 ELSE 2 * Upto(k)[k - 1]
    BY <1>1, <2>1 DEF Doubles
  <2>3. ASSUME k # 0 PROVE Upto(k)[k - 1] = P[k - 1]
    <3>1. k - 1 \in Nat /\ k - 1 <= k /\ k - 1 <= k - 1
      BY <2>3
    <3>2. Doubles(Upto(k), k) /\ Doubles(Upto(k - 1), k - 1)
      BY <1>1, <3>1
    <3> HIDE DEF Upto
    <3>3. Upto(k)[k - 1] = Upto(k - 1)[k - 1]
      BY <3>1, <3>2, DoublesUnique
    <3> QED BY <3>1, <3>3
  <2> HIDE DEF Upto
  <2> QED BY <2>2, <2>3
<1>3. P = [k \in Nat |-> IF k = 0 THEN 1 ELSE 2 * P[k - 1]]
  <2>1. P = [k \in Nat |-> P[k]]
    OBVIOUS
  <2>2. \A k \in Nat : P[k] = IF k = 0 THEN 1 ELSE 2 * P[k - 1]
    BY <1>2
  <2> HIDE DEF P
  <2> QED BY <2>1, <2>2
<1> HIDE DEF P
<1>4. Power2 = [k \in Nat |-> IF k = 0 THEN 1 ELSE 2 * Power2[k - 1]]
  BY <1>3 DEF Power2
<1> QED BY <1>4

LEMMA Power2Type == \A n \in Nat : Power2[n] \in Nat
<1> DEFINE C == {n \in Nat : Power2[n] \in Nat}
<1>1. 0 \in C
  BY Power2Unfolds
<1>2. ASSUME NEW n \in Nat, n \in C PROVE n + 1 \in C
  <2>1. Power2[n + 1] = 2 * Power2[n]
    <3>1. n + 1 \in Nat /\ n + 1 # 0 /\ (n + 1) - 1 = n
      OBVIOUS
    <3> QED BY <3>1, Power2Unfolds
  <2> QED BY <1>2, <2>1
<1>3. \A n \in Nat : n \in C
  <2> HIDE DEF C
  <2> QED BY <1>1, <1>2, NaturalInduction
<1> QED BY <1>3

(* They grow.                                                              *)
LEMMA Power2Grows ==
  ASSUME NEW m \in Nat
  PROVE  \A n \in Nat : m <= n => 1 <= Power2[m] /\ Power2[m] <= Power2[n]
<1>1. \A n \in Nat : Power2[n] \in Nat /\ 1 <= Power2[n] /\ Power2[n + 1] = 2 * Power2[n]
  <2> DEFINE C == {n \in Nat : 1 <= Power2[n]}
  <2>1. \A n \in Nat : Power2[n] \in Nat /\ Power2[n + 1] = 2 * Power2[n]
    <3>1. \A n \in Nat : n + 1 \in Nat /\ n + 1 # 0 /\ (n + 1) - 1 = n
      OBVIOUS
    <3> QED BY <3>1, Power2Type, Power2Unfolds
  <2>2. 0 \in C
    BY Power2Unfolds
  <2>3. ASSUME NEW n \in Nat, n \in C PROVE n + 1 \in C
    BY <2>1, <2>3
  <2>4. \A n \in Nat : n \in C
    <3> HIDE DEF C
    <3> QED BY <2>2, <2>3, NaturalInduction
  <2> QED BY <2>1, <2>4
<1> DEFINE C == {n \in Nat : m <= n => Power2[m] <= Power2[n]}
<1>2. 0 \in C
  <2>1. m <= 0 => m = 0
    OBVIOUS
  <2> QED BY <1>1, <2>1
<1>3. ASSUME NEW n \in Nat, n \in C PROVE n + 1 \in C
  <2>1. CASE m <= n
    <3>1. Power2[m] <= Power2[n]
      BY <1>3, <2>1
    <3> QED BY <1>1, <3>1
  <2>2. CASE m = n + 1
    BY <1>1, <2>2
  <2> QED BY <2>1, <2>2
<1>4. \A n \in Nat : n \in C
  <2> HIDE DEF C
  <2> QED BY <1>2, <1>3, NaturalInduction
<1> QED BY <1>1, <1>4
-----------------------------------------------------------------------------
(* A finite set of numbers has a newest part of every size...              *)
LEMMA NewestPart ==
  ASSUME NEW S, S \subseteq Int, IsFiniteSet(S)
  PROVE  \A n \in Nat : n <= Cardinality(S) =>
           \E s \in SUBSET S : Cardinality(s) = n /\ \A t \in s, u \in S \ s : t > u
<1> DEFINE Part(n) == \E s \in SUBSET S : Cardinality(s) = n /\ \A t \in s, u \in S \ s : t > u
           C == {n \in Nat : n <= Cardinality(S) => Part(n)}
<1>1. 0 \in C
  BY FS_EmptySet
<1>2. ASSUME NEW n \in Nat, n \in C PROVE n + 1 \in C
  <2>1. SUFFICES ASSUME n + 1 <= Cardinality(S) PROVE Part(n + 1)
    OBVIOUS
  <2>2. Cardinality(S) \in Nat
    BY FS_CardinalityType
  <2>3. PICK s \in SUBSET S : Cardinality(s) = n /\ \A t \in s, u \in S \ s : t > u
    BY <1>2, <2>1, <2>2
  <2>4. IsFiniteSet(s) /\ IsFiniteSet(S \ s)
    BY FS_Subset
  <2>5. S \ s # {}
    <3>1. S \ s = {} => s = S
      OBVIOUS
    <3> QED BY <2>1, <2>2, <2>3, <3>1
  <2>6. PICK m \in S \ s : \A y \in S \ s : y <= m
    BY <2>4, <2>5, MaxOfSet
  <2>7. Cardinality(s \cup {m}) = n + 1
    BY <2>3, <2>4, <2>6, FS_AddElement
  <2>8. ASSUME NEW t \in s \cup {m}, NEW u \in S \ (s \cup {m}) PROVE t > u
    <3>1. u \in S \ s /\ u # m /\ u \in Int /\ m \in Int
      BY <2>6
    <3>2. CASE t \in s
      BY <2>3, <3>1, <3>2
    <3>3. CASE t = m
      BY <2>6, <3>1, <3>3
    <3> QED BY <3>2, <3>3
  <2> QED BY <2>7, <2>8
<1>3. \A n \in Nat : n \in C
  <2> HIDE DEF C
  <2> QED BY <1>1, <1>2, NaturalInduction
<1> QED BY <1>3

(* ... and a member with as many newer ones as there is room for.          *)
LEMMA RankExists ==
  ASSUME NEW S, S \subseteq Int, IsFiniteSet(S), NEW n \in Nat, n < Cardinality(S)
  PROVE  \E t \in S : Cardinality({u \in S : u > t}) = n
<1>1. Cardinality(S) \in Nat
  BY FS_CardinalityType
<1>2. PICK s \in SUBSET S : Cardinality(s) = n /\ \A t \in s, u \in S \ s : t > u
  <2>1. n <= Cardinality(S)
    BY <1>1
  <2> QED BY <2>1, NewestPart
<1>3. S \ s # {} /\ IsFiniteSet(S \ s)
  <2>1. S \ s = {} => s = S
    OBVIOUS
  <2> QED BY <1>1, <1>2, <2>1, FS_Subset
<1>4. PICK m \in S \ s : \A y \in S \ s : y <= m
  BY <1>3, MaxOfSet
<1>5. {u \in S : u > m} = s
  <2>1. \A u \in s : u > m
    BY <1>2
  <2>2. \A u \in S \ s : ~(u > m)
    BY <1>4
  <2> QED BY <2>1, <2>2
<1> QED BY <1>2, <1>4, <1>5
=============================================================================
