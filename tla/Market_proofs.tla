---------------------------- MODULE Market_proofs ----------------------------
(***************************************************************************)
(* Theorems about what a signal is made of (Market with Features and       *)
(* Curve), for any curve, fee, windows and thresholds: a signal is about a *)
(* token that climbs, a round trip on paper pays its fee twice, and the    *)
(* types, with what they say of the features.                              *)
(*                                                                         *)
(* The first part is the arithmetic of Curve: a number in lowest terms is  *)
(* the fraction it was made of, so that a claim about fractions becomes    *)
(* one about integers.                                                     *)
(***************************************************************************)
EXTENDS Signalling, Signals_proofs

-----------------------------------------------------------------------------
(* Euclid's recursion as far as n.                                         *)
Euclid(g, n) == g = [b \in 0..n |-> [a \in Nat |-> IF b = 0 THEN a ELSE g[a % b][b]]]

LEMMA Remainder ==
  ASSUME NEW a \in Nat, NEW b \in Nat, b # 0
  PROVE  a % b \in Nat /\ a % b \in 0..(b - 1)
<1>1. a % b \in Nat /\ a % b < b
  OBVIOUS
<1> HIDE DEF %
<1> QED BY <1>1

LEMMA EuclidExists == \A n \in Nat : \E g : Euclid(g, n)
<1> DEFINE C == {n \in Nat : \E g : Euclid(g, n)}
<1>1. 0 \in C
  <2> DEFINE g == [b \in 0..0 |-> [a \in Nat |-> a]]
  <2>1. Euclid(g, 0)
    BY DEF Euclid
  <2> QED BY <2>1
<1>2. ASSUME NEW n \in Nat, n \in C PROVE n + 1 \in C
  <2>1. PICK g : Euclid(g, n)
    BY <1>2
  <2> DEFINE h == [b \in 0..(n + 1) |-> [a \in Nat |-> IF b = 0 THEN a ELSE g[a % b][b]]]
  <2>2. ASSUME NEW b \in 0..(n + 1), b # 0, NEW a \in Nat PROVE h[a % b] = g[a % b]
    <3> DEFINE r == a % b
    <3>1. r \in 0..n /\ r \in 0..(n + 1)
      BY <2>2, Remainder
    <3> HIDE DEF r
    <3>2. h[r] = [c \in Nat |-> IF r = 0 THEN c ELSE g[c % r][r]]
      BY <3>1
    <3>3. g[r] = [c \in Nat |-> IF r = 0 THEN c ELSE g[c % r][r]]
      BY <2>1, <3>1 DEF Euclid
    <3> QED BY <3>2, <3>3 DEF r
  <2>3. h = [b \in 0..(n + 1) |-> [a \in Nat |-> IF b = 0 THEN a ELSE h[a % b][b]]]
    <3>1. ASSUME NEW b \in 0..(n + 1), NEW a \in Nat
          PROVE  (IF b = 0 THEN a ELSE g[a % b][b]) = (IF b = 0 THEN a ELSE h[a % b][b])
      <4> HIDE DEF h
      <4> QED BY <2>2, <3>1
    <3> DEFINE k == [b \in 0..(n + 1) |-> [a \in Nat |-> IF b = 0 THEN a ELSE h[a % b][b]]]
    <3>2. ASSUME NEW b \in 0..(n + 1) PROVE h[b] = k[b]
      <4>1. h[b] = [a \in Nat |-> IF b = 0 THEN a ELSE g[a % b][b]]
        OBVIOUS
      <4> HIDE DEF h
      <4>2. k[b] = [a \in Nat |-> IF b = 0 THEN a ELSE h[a % b][b]]
        OBVIOUS
      <4> QED BY <3>1, <4>1, <4>2
    <3> QED BY <3>2
  <2>4. Euclid(h, n + 1)
    BY <2>3 DEF Euclid
  <2> HIDE DEF h
  <2> QED BY <2>4
<1>3. \A n \in Nat : n \in C
  <2> HIDE DEF C
  <2> QED BY <1>1, <1>2, NaturalInduction
<1> QED BY <1>3

(* Two of them agree as far as both go.                                    *)
LEMMA EuclidUnique ==
  ASSUME NEW m \in Nat, NEW n \in Nat, NEW g, NEW h, Euclid(g, m), Euclid(h, n)
  PROVE  \A b \in Nat : b <= m /\ b <= n => g[b] = h[b]
<1> DEFINE C == {k \in Nat : \A b \in 0..k : b <= m /\ b <= n => g[b] = h[b]}
<1>0. ASSUME NEW b \in Nat, b <= m, b <= n
      PROVE  /\ g[b] = [a \in Nat |-> IF b = 0 THEN a ELSE g[a % b][b]]
             /\ h[b] = [a \in Nat |-> IF b = 0 THEN a ELSE h[a % b][b]]
  <2>1. b \in 0..m /\ b \in 0..n
    BY <1>0
  <2> QED BY <2>1 DEF Euclid
<1>1. 0 \in C
  <2>1. \A b \in 0..0 : b = 0
    OBVIOUS
  <2>2. g[0] = [a \in Nat |-> a] /\ h[0] = [a \in Nat |-> a]
    BY <1>0
  <2> QED BY <2>1, <2>2
<1>2. ASSUME NEW k \in Nat, k \in C PROVE k + 1 \in C
  <2>1. SUFFICES ASSUME k + 1 <= m, k + 1 <= n PROVE g[k + 1] = h[k + 1]
    <3>1. \A b \in 0..(k + 1) : b \in 0..k \/ b = k + 1
      OBVIOUS
    <3> QED BY <1>2, <2>1, <3>1
  <2>2. ASSUME NEW a \in Nat PROVE g[a % (k + 1)] = h[a % (k + 1)]
    <3> DEFINE r == a % (k + 1)
    <3>1. r \in 0..((k + 1) - 1)
      <4>1. k + 1 \in Nat /\ k + 1 # 0
        OBVIOUS
      <4> QED BY <4>1, Remainder
    <3> HIDE DEF r
    <3>2. r \in 0..k /\ r <= m /\ r <= n
      BY <2>1, <3>1
    <3>3. g[r] = h[r]
      BY <1>2, <3>2
    <3> QED BY <3>3 DEF r
  <2>3. /\ g[k + 1] = [a \in Nat |-> IF k + 1 = 0 THEN a ELSE g[a % (k + 1)][k + 1]]
        /\ h[k + 1] = [a \in Nat |-> IF k + 1 = 0 THEN a ELSE h[a % (k + 1)][k + 1]]
    <3>1. k + 1 \in Nat
      OBVIOUS
    <3> QED BY <1>0, <2>1, <3>1
  <2> QED BY <2>2, <2>3
<1>3. \A k \in Nat : k \in C
  <2> HIDE DEF C
  <2> QED BY <1>1, <1>2, NaturalInduction
<1>4. ASSUME NEW b \in Nat, b <= m, b <= n PROVE g[b] = h[b]
  <2>1. b \in C /\ b \in 0..b
    BY <1>3
  <2> QED BY <1>4, <2>1
<1> QED BY <1>4

LEMMA GcdUnfolds ==
  ASSUME NEW b \in Nat, NEW a \in Nat
  PROVE  Market!Gcd[b][a] = IF b = 0 THEN a ELSE Market!Gcd[a % b][b]
<1> DEFINE Upto(k) == CHOOSE g : Euclid(g, k)
           G == [k \in Nat |-> Upto(k)[k]]
<1>1. \A k \in Nat : Euclid(Upto(k), k)
  BY EuclidExists
<1>2. ASSUME NEW k \in Nat
      PROVE  G[k] = [c \in Nat |-> IF k = 0 THEN c ELSE G[c % k][k]]
  <2>1. k \in 0..k
    OBVIOUS
  <2>2. Upto(k)[k] = [c \in Nat |-> IF k = 0 THEN c ELSE Upto(k)[c % k][k]]
    <3>1. Euclid(Upto(k), k)
      BY <1>1
    <3> HIDE DEF Upto
    <3> QED BY <2>1, <3>1 DEF Euclid
  <2>3. ASSUME k # 0, NEW c \in Nat PROVE Upto(k)[c % k] = G[c % k]
    <3> DEFINE r == c % k
    <3>1. r \in 0..(k - 1)
      BY <2>3, Remainder
    <3> HIDE DEF r
    <3>2. r \in Nat /\ r <= k /\ r <= r
      BY <3>1
    <3>3. Euclid(Upto(k), k) /\ Euclid(Upto(r), r)
      BY <1>1, <3>2
    <3> HIDE DEF Upto
    <3>4. Upto(k)[r] = Upto(r)[r]
      BY <3>2, <3>3, EuclidUnique
    <3>5. Upto(k)[r] = G[r]
      BY <3>2, <3>4
    <3> QED BY <3>5 DEF r
  <2>4. G[k] = Upto(k)[k]
    OBVIOUS
  <2> HIDE DEF Upto, G
  <2> QED BY <2>2, <2>3, <2>4
<1>3. G = [k \in Nat |-> [c \in Nat |-> IF k = 0 THEN c ELSE G[c % k][k]]]
  <2>1. G = [k \in Nat |-> G[k]]
    OBVIOUS
  <2> HIDE DEF G
  <2> QED BY <1>2, <2>1
<1> HIDE DEF G
<1>4. Market!Gcd = [k \in Nat |-> [c \in Nat |-> IF k = 0 THEN c ELSE Market!Gcd[c % k][k]]]
  BY <1>3 DEF Market!Gcd
<1>5. Market!Gcd[b] = [c \in Nat |-> IF b = 0 THEN c ELSE Market!Gcd[c % b][b]]
  BY <1>4
<1> QED BY <1>5

(* The greatest common divisor divides both, if they are not both nothing. *)
Divides(g, a) == \E k \in Int : a = g * k

LEMMA GcdDivides ==
  ASSUME NEW b \in Nat, NEW a \in Nat, a + b > 0
  PROVE  LET g == Market!Gcd[b][a] IN g \in Nat /\ g > 0 /\ Divides(g, a) /\ Divides(g, b)
<1> DEFINE Good(d, c) == LET g == Market!Gcd[d][c]
                         IN  g \in Nat /\ g > 0 /\ Divides(g, c) /\ Divides(g, d)
           C == {n \in Nat : \A d \in 0..n, c \in Nat : c + d > 0 => Good(d, c)}
<1>1. ASSUME NEW c \in Nat, c > 0 PROVE Good(0, c)
  <2>1. Market!Gcd[0][c] = c
    BY GcdUnfolds
  <2>2. c = c * 1 /\ 0 = c * 0
    OBVIOUS
  <2> QED BY <1>1, <2>1, <2>2 DEF Divides
<1>2. ASSUME NEW d \in Nat, NEW c \in Nat, d # 0, Good(c % d, d) PROVE Good(d, c)
  <2> DEFINE g == Market!Gcd[d][c]
             r == c % d
             q == c \div d
  <2>1. g = Market!Gcd[r][d]
    BY <1>2, GcdUnfolds
  <2>2. c - d * q = r /\ q \in Int /\ r \in Int
    BY <1>2
  <2> HIDE DEF r, q
  <2>3. g \in Nat /\ g > 0 /\ Divides(g, d) /\ Divides(g, r)
    BY <1>2, <2>1 DEF r
  <2> HIDE DEF g
  <2>4. PICK j \in Int, k \in Int : d = g * j /\ r = g * k
    BY <2>3 DEF Divides
  <2>5. c = g * (j * q + k) /\ j * q + k \in Int
    <3>1. c = r + d * q
      BY <2>2
    <3>2. d * q = g * (j * q)
      BY <2>2, <2>3, <2>4
    <3> QED BY <2>2, <2>3, <2>4, <3>1, <3>2
  <2> QED BY <2>3, <2>5 DEF Divides, g
<1> HIDE DEF Good
<1>3. 0 \in C
  BY <1>1
<1>4. ASSUME NEW n \in Nat, n \in C PROVE n + 1 \in C
  <2>1. ASSUME NEW c \in Nat PROVE Good(n + 1, c)
    <3>1. n + 1 \in Nat /\ n + 1 # 0
      OBVIOUS
    <3> DEFINE r == c % (n + 1)
    <3>2. r \in 0..n
      BY <3>1, Remainder
    <3> HIDE DEF r
    <3>3. Good(r, n + 1)
      <4>1. (n + 1) + r > 0
        BY <3>2
      <4> QED BY <1>4, <3>1, <3>2, <4>1
    <3> QED BY <1>2, <3>1, <3>3 DEF r
  <2>2. \A d \in 0..(n + 1) : d \in 0..n \/ d = n + 1
    OBVIOUS
  <2> QED BY <1>4, <2>1, <2>2
<1>5. \A n \in Nat : n \in C
  <2> HIDE DEF C
  <2> QED BY <1>3, <1>4, NaturalInduction
<1>6. b \in 0..b /\ b \in C
  BY <1>5
<1> QED BY <1>6 DEF Good

-----------------------------------------------------------------------------
(* A number of Curve: in lowest terms or not, and Unknown if it has no     *)
(* denominator.                                                            *)
Numbers == {v \in [num : Int, den : Nat] : v.den = 0 => v = Market!Unknown}

(* v is n over d.                                                          *)
Is(v, n, d) == v \in Numbers /\ v.den > 0 /\ v.num * d = n * v.den

LEMMA FractionIs ==
  ASSUME NEW n \in Int, NEW d \in Nat
  PROVE  /\ d = 0 => Market!Fraction(n, d) = Market!Unknown
         /\ d > 0 => Is(Market!Fraction(n, d), n, d)
<1>1. SUFFICES ASSUME d > 0 PROVE Is(Market!Fraction(n, d), n, d)
  BY DEF Market!Fraction
<1> DEFINE size == Market!Size(n)
           g == Market!Gcd[d][size]
           v == Market!Fraction(n, d)
<1>2. size \in Nat /\ (n = size \/ n = -size)
  BY DEF Market!Size
<1>3. v = [num |-> n \div g, den |-> d \div g]
  BY <1>1 DEF Market!Fraction
<1> HIDE DEF size
<1>4. g \in Nat /\ g > 0 /\ Divides(g, size) /\ Divides(g, d)
  BY <1>1, <1>2, GcdDivides
<1> HIDE DEF g, v
<1>5. PICK j \in Int, k \in Int : size = g * j /\ d = g * k
  BY <1>4 DEF Divides
<1>6. PICK i \in Int : n = g * i
  <2>1. size = g * j /\ -size = g * (-j)
    BY <1>2, <1>4, <1>5
  <2> QED BY <1>2, <2>1
<1>7. n \div g = i /\ d \div g = k
  BY <1>4, <1>5, <1>6
<1>8. k > 0
  BY <1>1, <1>4, <1>5
<1>9. i * (g * k) = (g * i) * k
  BY <1>4
<1>10. v.num = i /\ v.den = k /\ v \in [num : Int, den : Nat]
  BY <1>3, <1>7, <1>8
<1> QED BY <1>5, <1>6, <1>8, <1>9, <1>10 DEF Is, Numbers, v

LEMMA Comparable ==
  ASSUME NEW v, NEW w, NEW n \in Int, NEW m \in Int, NEW d \in Int, NEW e \in Int,
         d > 0, e > 0, Is(v, n, d), Is(w, m, e)
  PROVE  Market!Atmost(v, w) <=> n * e <= m * d
<1> DEFINE p == v.num
           q == v.den
           r == w.num
           s == w.den
<1>1. /\ p \in Int /\ q \in Int /\ r \in Int /\ s \in Int /\ q > 0 /\ s > 0
      /\ p * d = n * q /\ r * e = m * s
  BY DEF Is, Numbers
<1>2. Market!Atmost(v, w) <=> p * s <= r * q
  BY DEF Market!Atmost
<1> HIDE DEF p, q, r, s
<1>3. (p * s) * (d * e) = (n * e) * (q * s)
  <2>1. (p * s) * (d * e) = (p * d) * (s * e)
    BY <1>1
  <2>2. (n * q) * (s * e) = (n * e) * (q * s)
    BY <1>1
  <2> QED BY <1>1, <2>1, <2>2
<1>4. (r * q) * (d * e) = (m * d) * (q * s)
  <2>1. (r * q) * (d * e) = (r * e) * (q * d)
    BY <1>1
  <2>2. (m * s) * (q * d) = (m * d) * (q * s)
    BY <1>1
  <2> QED BY <1>1, <2>1, <2>2
<1> DEFINE x == p * s
           y == r * q
           z == d * e
           a == n * e
           b == m * d
           c == q * s
<1>5. x \in Int /\ y \in Int /\ z \in Int /\ a \in Int /\ b \in Int /\ c \in Int /\ z > 0 /\ c > 0
  BY <1>1
<1>6. x * z = a * c /\ y * z = b * c
  BY <1>3, <1>4
<1> HIDE DEF x, y, z, a, b, c
<1>7. (x <= y <=> x * z <= y * z) /\ (a <= b <=> a * c <= b * c)
  BY <1>5
<1>8. x <= y <=> a <= b
  BY <1>6, <1>7
<1> QED BY <1>2, <1>8 DEF x, y, a, b

(* The value does not depend on how it is written.                         *)
LEMMA Reduced ==
  ASSUME NEW v, NEW n \in Int, NEW m \in Int, NEW d \in Int, NEW e \in Int,
         d > 0, e > 0, Is(v, n, d), n * e = m * d
  PROVE  Is(v, m, e)
<1> DEFINE p == v.num
           q == v.den
<1>1. p \in Int /\ q \in Int /\ q > 0 /\ p * d = n * q
  BY DEF Is, Numbers
<1> HIDE DEF p, q
<1>2. (p * e) * d = (m * q) * d
  <2>1. (p * e) * d = (p * d) * e
    BY <1>1
  <2>2. (n * q) * e = (n * e) * q
    BY <1>1
  <2>3. (m * d) * q = (m * q) * d
    BY <1>1
  <2> QED BY <1>1, <2>1, <2>2, <2>3
<1>3. p * e = m * q
  <2> DEFINE x == p * e
             y == m * q
  <2>1. x \in Int /\ y \in Int /\ x * d = y * d
    BY <1>1, <1>2
  <2> HIDE DEF x, y
  <2>2. x = y
    BY <2>1
  <2> QED BY <2>2 DEF x, y
<1> QED BY <1>1, <1>3 DEF Is, p, q

LEMMA Positivity ==
  ASSUME NEW v, NEW n \in Int, NEW d \in Int, d > 0, Is(v, n, d)
  PROVE  Market!Known(v) /\ (Market!Positive(v) <=> n > 0)
<1> DEFINE p == v.num
           q == v.den
<1>1. p \in Int /\ q \in Int /\ q > 0 /\ p * d = n * q
  BY DEF Is, Numbers
<1>2. Market!Known(v)
  BY <1>1 DEF Market!Known, Market!Unknown
<1>3. Market!Positive(v) <=> p > 0
  BY <1>2 DEF Market!Positive
<1> HIDE DEF p, q
<1>4. p > 0 <=> p * d > 0
  BY <1>1
<1>5. n > 0 <=> n * q > 0
  BY <1>1
<1> QED BY <1>1, <1>2, <1>3, <1>4, <1>5

LEMMA WholeIs ==
  ASSUME NEW n \in Int
  PROVE  Is(Market!Whole(n), n, 1)
BY DEF Is, Numbers, Market!Whole

(* What is known of the result of an operation, and that nothing is known  *)
(* if one of the operands is not.                                          *)
LEMMA SumIs ==
  ASSUME NEW v, NEW w, NEW n \in Int, NEW m \in Int, NEW d \in Int, NEW e \in Int,
         d > 0, e > 0, Is(v, n, d), Is(w, m, e)
  PROVE  /\ Is(Market!Plus(v, w), n * e + m * d, d * e)
         /\ Is(Market!Minus(v, w), n * e - m * d, d * e)
<1> DEFINE p == v.num
           q == v.den
           r == w.num
           s == w.den
<1>1. /\ p \in Int /\ q \in Nat /\ r \in Int /\ s \in Nat /\ q > 0 /\ s > 0
      /\ p * d = n * q /\ r * e = m * s
  BY DEF Is, Numbers
<1>2. /\ Market!Plus(v, w) = Market!Fraction(p * s + r * q, q * s)
      /\ Market!Minus(v, w) = Market!Fraction(p * s - r * q, q * s)
  BY DEF Market!Plus, Market!Minus
<1> HIDE DEF p, q, r, s
<1>3. q * s \in Nat /\ q * s > 0 /\ d * e > 0
  BY <1>1
<1>4. (p * s) * (d * e) = (n * e) * (q * s)
  <2>1. (p * s) * (d * e) = (p * d) * (s * e)
    BY <1>1
  <2>2. (n * q) * (s * e) = (n * e) * (q * s)
    BY <1>1
  <2> QED BY <1>1, <2>1, <2>2
<1>5. (r * q) * (d * e) = (m * d) * (q * s)
  <2>1. (r * q) * (d * e) = (r * e) * (q * d)
    BY <1>1
  <2>2. (m * s) * (q * d) = (m * d) * (q * s)
    BY <1>1
  <2> QED BY <1>1, <2>1, <2>2
<1> DEFINE x == p * s
           y == r * q
           z == d * e
           a == n * e
           b == m * d
           c == q * s
<1>6. /\ x \in Int /\ y \in Int /\ z \in Int /\ a \in Int /\ b \in Int /\ c \in Nat
      /\ z > 0 /\ c > 0 /\ x * z = a * c /\ y * z = b * c
  BY <1>1, <1>3, <1>4, <1>5
<1> HIDE DEF x, y, z, a, b, c
<1>7. /\ (x + y) * z = (a + b) * c /\ (x - y) * z = (a - b) * c
      /\ x + y \in Int /\ x - y \in Int /\ a + b \in Int /\ a - b \in Int
  BY <1>6
<1>8. /\ Is(Market!Fraction(x + y, c), x + y, c)
      /\ Is(Market!Fraction(x - y, c), x - y, c)
  BY <1>6, <1>7, FractionIs
<1>9. Is(Market!Fraction(x + y, c), a + b, z) /\ Is(Market!Fraction(x - y, c), a - b, z)
  BY <1>6, <1>7, <1>8, Reduced
<1> QED BY <1>2, <1>9 DEF x, y, z, a, b, c

LEMMA ProductIs ==
  ASSUME NEW v, NEW w, NEW n \in Int, NEW m \in Int, NEW d \in Int, NEW e \in Int,
         d > 0, e > 0, Is(v, n, d), Is(w, m, e)
  PROVE  /\ Is(Market!Times(v, w), n * m, d * e)
         /\ m > 0 => Is(Market!Over(v, w), n * e, d * m)
         /\ m <= 0 => Market!Over(v, w) = Market!Unknown
<1> DEFINE p == v.num
           q == v.den
           r == w.num
           s == w.den
<1>1. /\ p \in Int /\ q \in Nat /\ r \in Int /\ s \in Nat /\ q > 0 /\ s > 0
      /\ p * d = n * q /\ r * e = m * s
  BY DEF Is, Numbers
<1>2. /\ Market!Times(v, w) = Market!Fraction(p * r, q * s)
      /\ Market!Positive(w) => Market!Over(v, w) = Market!Fraction(p * s, q * r)
      /\ ~Market!Positive(w) => Market!Over(v, w) = Market!Unknown
  BY DEF Market!Times, Market!Over
<1>3. (Market!Positive(w) <=> m > 0) /\ (Market!Positive(w) => r > 0)
  BY Positivity DEF Market!Positive
<1> HIDE DEF p, q, r, s
<1>4. Is(Market!Times(v, w), n * m, d * e)
  <2>1. q * s \in Nat /\ q * s > 0 /\ d * e > 0 /\ p * r \in Int /\ n * m \in Int
        /\ d * e \in Int /\ q * s \in Int
    BY <1>1
  <2>2. (p * r) * (d * e) = (n * m) * (q * s)
    <3>1. (p * r) * (d * e) = (p * d) * (r * e)
      BY <1>1
    <3>2. (n * q) * (m * s) = (n * m) * (q * s)
      BY <1>1
    <3> QED BY <1>1, <3>1, <3>2
  <2>3. Is(Market!Fraction(p * r, q * s), p * r, q * s)
    BY <2>1, FractionIs
  <2>4. Is(Market!Fraction(p * r, q * s), n * m, d * e)
    BY <2>1, <2>2, <2>3, Reduced
  <2> QED BY <1>2, <2>4
<1>5. ASSUME m > 0 PROVE Is(Market!Over(v, w), n * e, d * m)
  <2>1. q * r \in Nat /\ q * r > 0 /\ d * m > 0 /\ p * s \in Int /\ n * e \in Int
        /\ d * m \in Int /\ q * r \in Int
    BY <1>1, <1>3, <1>5
  <2>2. (p * s) * (d * m) = (n * e) * (q * r)
    <3>1. (p * s) * (d * m) = (p * d) * (m * s)
      BY <1>1
    <3>2. (n * q) * (r * e) = (n * e) * (q * r)
      BY <1>1
    <3> QED BY <1>1, <3>1, <3>2
  <2>3. Is(Market!Fraction(p * s, q * r), p * s, q * r)
    BY <2>1, FractionIs
  <2>4. Is(Market!Fraction(p * s, q * r), n * e, d * m)
    BY <2>1, <2>2, <2>3, Reduced
  <2> QED BY <1>2, <1>3, <1>5, <2>4
<1>6. ASSUME m <= 0 PROVE Market!Over(v, w) = Market!Unknown
  BY <1>2, <1>3, <1>6
<1> QED BY <1>4, <1>5, <1>6

-----------------------------------------------------------------------------
(* The fills of paper trading, with a fee of f.num out of f.den.           *)

Rate(f) == f \in [num : Nat, den : Nat] /\ f.num < f.den

LEMMA KeepIs ==
  ASSUME NEW v, NEW n \in Int, NEW d \in Int, d > 0, Is(v, n, d), NEW f, Rate(f)
  PROVE  Is(Market!Keep(v, f), n * (f.den - f.num), d * f.den)
<1> DEFINE i == f.num
           k == f.den
<1>1. i \in Int /\ k \in Int /\ k > 0 /\ Is(f, i, k)
  BY DEF Rate, Is, Numbers
<1> HIDE DEF i, k
<1>2. Is(Market!Times(v, f), n * i, d * k)
  BY <1>1, ProductIs
<1>3. n * i \in Int /\ d * k \in Int /\ d * k > 0
  BY <1>1
<1>4. Is(Market!Keep(v, f), n * (d * k) - (n * i) * d, d * (d * k))
  BY <1>2, <1>3, SumIs DEF Market!Keep
<1>5. (n * (d * k) - (n * i) * d) * (d * k) = (n * (k - i)) * (d * (d * k))
  BY <1>1
<1>6. /\ n * (d * k) - (n * i) * d \in Int /\ d * (d * k) \in Int /\ d * (d * k) > 0
      /\ n * (k - i) \in Int
  BY <1>1
<1>7. Is(Market!Keep(v, f), n * (k - i), d * k)
  BY <1>3, <1>4, <1>5, <1>6, Reduced
<1> QED BY <1>7 DEF i, k

LEMMA BuyIs ==
  ASSUME NEW s \in Nat, NEW a \in Nat, NEW b \in Nat, s > 0, a > 0, b > 0, NEW f, Rate(f)
  PROVE  LET buy == Market!SimulateBuy(Market!Whole(s), Market!Whole(a), Market!Whole(b), f)
             net == s * (f.den - f.num)
         IN  /\ Is(buy.out, b * net, a * f.den + net)
             /\ Is(buy.spot, a, b)
             /\ Is(buy.effective, a * f.den + net, b * f.den)
<1> DEFINE k == f.den
           n == s * (f.den - f.num)
           p == a * k + n
           stake == Market!Whole(s)
           sol == Market!Whole(a)
           tokens == Market!Whole(b)
           net == Market!Keep(stake, f)
           moved == Market!Over(Market!Times(sol, tokens), Market!Plus(sol, net))
           out == Market!Minus(tokens, moved)
<1>1. /\ k \in Int /\ k > 0 /\ n \in Int /\ n > 0
      /\ Is(stake, s, 1) /\ Is(sol, a, 1) /\ Is(tokens, b, 1)
  <2>1. f.den \in Int /\ f.num \in Int /\ f.den > 0 /\ f.den - f.num > 0
    BY DEF Rate
  <2> QED BY <2>1, WholeIs
<1>2. Is(net, n, k)
  <2>1. Is(net, n, 1 * k)
    BY <1>1, KeepIs
  <2> QED BY <1>1, <2>1
<1> HIDE DEF k, n, stake, sol, tokens, net
<1>3. p \in Int /\ p > 0 /\ a * b \in Int /\ a * k \in Int
  BY <1>1
<1>4. Is(Market!Plus(sol, net), p, k)
  <2>1. Is(Market!Plus(sol, net), a * k + n * 1, 1 * k)
    BY <1>1, <1>2, SumIs
  <2> QED BY <1>1, <2>1
<1>5. Is(Market!Times(sol, tokens), a * b, 1)
  <2>1. Is(Market!Times(sol, tokens), a * b, 1 * 1)
    BY <1>1, ProductIs
  <2> QED BY <2>1
<1>6. Is(moved, (a * b) * k, p)
  <2>1. Is(moved, (a * b) * k, 1 * p)
    BY <1>1, <1>3, <1>4, <1>5, ProductIs
  <2> QED BY <1>3, <2>1
<1> HIDE DEF p, moved
<1>7. Is(out, b * n, p)
  <2>1. Is(out, b * p - ((a * b) * k) * 1, 1 * p)
    <3>1. (a * b) * k \in Int
      BY <1>1
    <3> QED BY <1>1, <1>3, <1>6, <3>1, SumIs
  <2>2. b * p - ((a * b) * k) * 1 = b * n /\ 1 * p = p
    BY <1>1, <1>3 DEF p
  <2> QED BY <2>1, <2>2
<1> HIDE DEF out
<1>8. b * n \in Int /\ b * n > 0
  BY <1>1
<1>9. /\ Market!Positive(stake) /\ Market!Positive(sol) /\ Market!Positive(tokens)
      /\ Market!Positive(net) /\ Market!Positive(out)
  BY <1>1, <1>2, <1>3, <1>7, <1>8, Positivity
<1>10. Market!SimulateBuy(stake, sol, tokens, f)
        = [out |-> out, spot |-> Market!SpotPrice(sol, tokens), effective |-> Market!Over(net, out)]
  BY <1>9 DEF Market!SimulateBuy, Market!Fillable, out, moved, net
<1>11. Is(Market!SpotPrice(sol, tokens), a, b)
  <2>1. Is(Market!Over(sol, tokens), a * 1, 1 * b)
    BY <1>1, ProductIs
  <2> QED BY <2>1 DEF Market!SpotPrice
<1>12. Is(Market!Over(net, out), p, b * k)
  <2>1. Is(Market!Over(net, out), n * p, k * (b * n))
    BY <1>1, <1>2, <1>3, <1>7, <1>8, ProductIs
  <2>2. (n * p) * (b * k) = p * (k * (b * n))
    BY <1>1, <1>3
  <2>3. /\ n * p \in Int /\ k * (b * n) \in Int /\ k * (b * n) > 0
        /\ b * k \in Int /\ b * k > 0
    BY <1>1, <1>3
  <2> QED BY <1>3, <2>1, <2>2, <2>3, Reduced
<1> QED BY <1>7, <1>10, <1>11, <1>12 DEF k, n, p, stake, sol, tokens

LEMMA SellIs ==
  ASSUME NEW held, NEW h \in Int, NEW p \in Int, h > 0, p > 0, Is(held, h, p),
         NEW c \in Nat, NEW d \in Nat, c > 0, d > 0, NEW f, Rate(f)
  PROVE  LET sell == Market!SimulateSell(held, Market!Whole(c), Market!Whole(d), f)
             g == f.den - f.num
         IN  /\ Is(sell.out, (c * h) * g, (d * p + h) * f.den)
             /\ Is(sell.spot, c, d)
             /\ Is(sell.effective, (c * g) * p, (d * p + h) * f.den)
<1> DEFINE k == f.den
           g == f.den - f.num
           q == d * p + h
           sol == Market!Whole(c)
           tokens == Market!Whole(d)
           moved == Market!Over(Market!Times(sol, tokens), Market!Plus(tokens, held))
           gross == Market!Minus(sol, moved)
           net == Market!Keep(gross, f)
<1>1. /\ k \in Int /\ k > 0 /\ g \in Int /\ g > 0
      /\ Is(sol, c, 1) /\ Is(tokens, d, 1)
  BY WholeIs DEF Rate
<1> HIDE DEF k, g, sol, tokens
<1>2. q \in Int /\ q > 0 /\ c * d \in Int /\ d * p \in Int
  BY <1>1
<1>3. Is(Market!Plus(tokens, held), q, p)
  <2>1. Is(Market!Plus(tokens, held), d * p + h * 1, 1 * p)
    BY <1>1, SumIs
  <2> QED BY <2>1
<1>4. Is(Market!Times(sol, tokens), c * d, 1)
  <2>1. Is(Market!Times(sol, tokens), c * d, 1 * 1)
    BY <1>1, ProductIs
  <2> QED BY <2>1
<1>5. Is(moved, (c * d) * p, q)
  <2>1. Is(moved, (c * d) * p, 1 * q)
    BY <1>1, <1>2, <1>3, <1>4, ProductIs
  <2> QED BY <1>2, <2>1
<1> HIDE DEF q, moved
<1>6. Is(gross, c * h, q)
  <2>1. Is(gross, c * q - ((c * d) * p) * 1, 1 * q)
    <3>1. (c * d) * p \in Int
      BY <1>2
    <3> QED BY <1>1, <1>2, <1>5, <3>1, SumIs
  <2>2. c * q - ((c * d) * p) * 1 = c * h /\ 1 * q = q
    BY <1>2 DEF q
  <2> QED BY <2>1, <2>2
<1>7. c * h \in Int /\ c * h > 0 /\ (c * h) * g \in Int /\ (c * h) * g > 0 /\ q * k \in Int /\ q * k > 0
  BY <1>1, <1>2
<1> HIDE DEF gross
<1>8. Is(net, (c * h) * g, q * k)
  BY <1>2, <1>6, <1>7, KeepIs DEF k, g
<1> HIDE DEF net
<1>9. /\ Market!Positive(held) /\ Market!Positive(sol) /\ Market!Positive(tokens)
      /\ Market!Positive(net)
  BY <1>1, <1>7, <1>8, Positivity
<1>10. Market!SimulateSell(held, sol, tokens, f)
        = [out |-> net, spot |-> Market!SpotPrice(sol, tokens), effective |-> Market!Over(net, held)]
  BY <1>9 DEF Market!SimulateSell, Market!Fillable, net, gross, moved
<1>11. Is(Market!SpotPrice(sol, tokens), c, d)
  <2>1. Is(Market!Over(sol, tokens), c * 1, 1 * d)
    BY <1>1, ProductIs
  <2> QED BY <2>1 DEF Market!SpotPrice
<1>12. Is(Market!Over(net, held), (c * g) * p, q * k)
  <2>1. Is(Market!Over(net, held), ((c * h) * g) * p, (q * k) * h)
    BY <1>7, <1>8, ProductIs
  <2>2. (((c * h) * g) * p) * (q * k) = ((c * g) * p) * ((q * k) * h)
    <3>1. \A x, y \in Int : (((c * h) * g) * p) * x = ((c * g) * p) * (x * h)
      BY <1>1
    <3> QED BY <1>7, <3>1
  <2>3. /\ ((c * h) * g) * p \in Int /\ (q * k) * h \in Int /\ (q * k) * h > 0
        /\ (c * g) * p \in Int
    BY <1>1, <1>7
  <2> QED BY <1>7, <2>1, <2>2, <2>3, Reduced
<1> QED BY <1>8, <1>10, <1>11, <1>12 DEF k, g, q, sol, tokens

(* "A round trip pays it twice", for any fills on any two snapshots.       *)
LEMMA FeePaidTwice ==
  ASSUME NEW s \in Nat, NEW a \in Nat, NEW b \in Nat, NEW c \in Nat, NEW d \in Nat,
         s > 0, a > 0, b > 0, c > 0, d > 0, NEW f, Rate(f)
  PROVE  LET buy == Market!SimulateBuy(Market!Whole(s), Market!Whole(a), Market!Whole(b), f)
             sell == Market!SimulateSell(buy.out, Market!Whole(c), Market!Whole(d), f)
         IN  /\ Market!Atmost(buy.spot, buy.effective)
             /\ Market!Atmost(sell.effective, sell.spot)
             /\ Market!Atmost(Market!Times(sell.out, buy.spot),
                              Market!Times(Market!Keep(Market!Keep(Market!Whole(s), f), f),
                                           sell.spot))
<1> DEFINE k == f.den
           g == f.den - f.num
           n == s * g
           p == a * k + n
           h == b * n
           q == d * p + h
           buy == Market!SimulateBuy(Market!Whole(s), Market!Whole(a), Market!Whole(b), f)
           sell == Market!SimulateSell(buy.out, Market!Whole(c), Market!Whole(d), f)
           kept == Market!Keep(Market!Keep(Market!Whole(s), f), f)
<1>1. k \in Int /\ k > 0 /\ g \in Int /\ g > 0 /\ g <= k
  BY DEF Rate
<1>2. Is(buy.out, h, p) /\ Is(buy.spot, a, b) /\ Is(buy.effective, p, b * k)
  BY BuyIs
<1>3. Is(kept, n * g, k * k)
  <2>1. Is(Market!Keep(Market!Whole(s), f), s * g, 1 * k)
    BY WholeIs, KeepIs
  <2>2. s * g \in Int /\ 1 * k \in Int /\ 1 * k > 0 /\ 1 * k = k
    BY <1>1
  <2> HIDE DEF k, g
  <2> QED BY <2>1, <2>2, KeepIs DEF k, g
<1> HIDE DEF buy, kept, k, g
<1>4. n \in Int /\ n > 0 /\ p \in Int /\ p > 0 /\ h \in Int /\ h > 0 /\ q \in Int /\ q > 0
  <2>1. n \in Int /\ n > 0
    BY <1>1
  <2> HIDE DEF n
  <2>2. p \in Int /\ p > 0 /\ h \in Int /\ h > 0
    BY <1>1, <2>1
  <2> HIDE DEF p, h
  <2> QED BY <2>1, <2>2
<1> HIDE DEF n, p, h
<1>5. /\ Is(sell.out, (c * h) * g, q * k) /\ Is(sell.spot, c, d)
      /\ Is(sell.effective, (c * g) * p, q * k)
  BY <1>2, <1>4, SellIs DEF g, k
<1> HIDE DEF sell, q
<1>6. /\ b * k \in Int /\ b * k > 0 /\ q * k \in Int /\ q * k > 0 /\ k * k \in Int /\ k * k > 0
      /\ (c * g) * p \in Int /\ (c * h) * g \in Int /\ n * g \in Int
  BY <1>1, <1>4
<1>7. Market!Atmost(buy.spot, buy.effective)
  <2>1. a * (b * k) <= p * b
    <3>1. p * b = a * (b * k) + n * b /\ n * b \in Int /\ n * b > 0 /\ a * (b * k) \in Int
      BY <1>1, <1>4 DEF p
    <3> QED BY <3>1
  <2> QED BY <1>2, <1>4, <1>6, <2>1, Comparable
<1>8. Market!Atmost(sell.effective, sell.spot)
  <2>1. ((c * g) * p) * d <= c * (q * k)
    <3>1. c * (q * k) = (c * k) * (d * p) + (c * k) * h
      BY <1>1, <1>4 DEF q
    <3>2. ((c * g) * p) * d = (c * (d * p)) * g /\ (c * k) * (d * p) = (c * (d * p)) * k
      BY <1>1, <1>4
    <3>3. /\ c * (d * p) \in Int /\ c * (d * p) > 0 /\ (c * k) * h \in Int /\ (c * k) * h > 0
          /\ (c * k) * (d * p) \in Int /\ ((c * g) * p) * d \in Int
      BY <1>1, <1>4
    <3>4. (c * (d * p)) * g <= (c * (d * p)) * k
      BY <1>1, <3>3
    <3> QED BY <3>1, <3>2, <3>3, <3>4
  <2> QED BY <1>5, <1>6, <2>1, Comparable
<1>9. Market!Atmost(Market!Times(sell.out, buy.spot), Market!Times(kept, sell.spot))
  <2>1. Is(Market!Times(sell.out, buy.spot), ((c * h) * g) * a, (q * k) * b)
    BY <1>2, <1>5, <1>6, ProductIs
  <2>2. Is(Market!Times(kept, sell.spot), (n * g) * c, (k * k) * d)
    BY <1>3, <1>5, <1>6, ProductIs
  <2>3. (((c * h) * g) * a) * ((k * k) * d) <= ((n * g) * c) * ((q * k) * b)
    <3> DEFINE z == (((c * b) * n) * g) * k
    <3>1. z \in Int /\ z > 0
      BY <1>1, <1>4
    <3>2. (((c * h) * g) * a) * ((k * k) * d) = z * ((a * k) * d)
      BY <1>1, <1>4 DEF h
    <3>3. ((n * g) * c) * ((q * k) * b) = z * q
      BY <1>1, <1>4
    <3> HIDE DEF z
    <3>4. q = (a * k) * d + (d * n + h) /\ d * n \in Int /\ d * n > 0 /\ (a * k) * d \in Int
      BY <1>1, <1>4 DEF q, p
    <3>5. (a * k) * d <= q
      BY <1>4, <3>4
    <3>6. z * ((a * k) * d) <= z * q
      BY <1>4, <3>1, <3>4, <3>5
    <3> QED BY <3>2, <3>3, <3>6
  <2>4. /\ ((c * h) * g) * a \in Int /\ (q * k) * b \in Int /\ (q * k) * b > 0
        /\ (n * g) * c \in Int /\ (k * k) * d \in Int /\ (k * k) * d > 0
    BY <1>6
  <2> QED BY <2>1, <2>2, <2>3, <2>4, Comparable
<1> QED BY <1>7, <1>8, <1>9 DEF buy, sell, kept

(* Nothing is filled on reserves, or of an amount, that is not known.      *)
LEMMA UnknownRefused ==
  ASSUME NEW v, NEW sol, NEW tokens, NEW f,
         Market!Unknown \in {v, sol, tokens}
  PROVE  /\ Market!SimulateBuy(v, sol, tokens, f).out = Market!Unknown
         /\ Market!SimulateSell(v, sol, tokens, f).out = Market!Unknown
<1>1. ~Market!Positive(Market!Unknown)
  BY DEF Market!Positive, Market!Known
<1>2. ~Market!Fillable(v, sol, tokens)
  BY <1>1 DEF Market!Fillable
<1> QED BY <1>2 DEF Market!SimulateBuy, Market!SimulateSell, Market!Refused

-----------------------------------------------------------------------------
(* What the tracker records, and series of it.                             *)

Entry(c, gap, at, trade) ==
  LET raw == Market!Raw(c, gap)
      derived == Market!Market(raw)
  IN  [at |-> at, age |-> Market!Whole(at), traded |-> Market!Whole(trade),
       sol |-> raw.sol, tokens |-> raw.tokens, base |-> raw.base, quote |-> raw.quote,
       price |-> derived.price, cap |-> derived.cap, liquidity |-> derived.liquidity]

Entries == {Entry(c, gap, at, trade) :
              c \in Curves, gap \in Gaps, at \in 0..MarketTime, trade \in 0..MarketTime}

(* A series is in the order of time.                                       *)
InOrder(s) == \A i, j \in 1..Len(s) : i < j => s[i].at < s[j].at
IsSeries(s) == s \in Seq(Entries) /\ InOrder(s)

LEMMA MarketTypes ==
  /\ Curves \subseteq (Nat \ {0}) \X (Nat \ {0})
  /\ \A c \in Curves : RealSol(c[1]) \in Nat
  /\ Supply \in Nat /\ MarketLookback \in Nat /\ WindowSeconds \in Nat /\ MinVelocity \in Nat
  /\ MarketTime \in Nat /\ MaxGaps \in Nat
  /\ Stakes \subseteq Nat \ {0} /\ Rate(FeeRate)
  /\ {PoolBase, PoolQuote, DefaultBase, DefaultQuote} \subseteq Nat \ {0}
BY SignallingAssumption DEF Market!MarketAssumption, Rate

(* An operation on numbers gives a number, and a known one only of two.    *)
LEMMA NumbersClosed ==
  ASSUME NEW v \in Numbers, NEW w \in Numbers
  PROVE  /\ Market!Minus(v, w) \in Numbers /\ Market!Times(v, w) \in Numbers
         /\ Market!Over(v, w) \in Numbers
         /\ Market!Known(Market!Minus(v, w)) => v.den > 0 /\ w.den > 0
         /\ Market!Known(Market!Times(v, w)) => v.den > 0 /\ w.den > 0
         /\ Market!Known(Market!Over(v, w)) => v.den > 0 /\ w.den > 0 /\ w.num > 0
<1> DEFINE p == v.num
           q == v.den
           r == w.num
           t == w.den
<1>1. p \in Int /\ q \in Nat /\ r \in Int /\ t \in Nat
  BY DEF Numbers
<1>2. /\ Market!Minus(v, w) = Market!Fraction(p * t - r * q, q * t)
      /\ Market!Times(v, w) = Market!Fraction(p * r, q * t)
      /\ Market!Over(v, w) = IF Market!Positive(w) THEN Market!Fraction(p * t, q * r)
                             ELSE Market!Unknown
  BY DEF Market!Minus, Market!Times, Market!Over
<1>3. Market!Positive(w) => r > 0 /\ t > 0
  BY DEF Market!Positive, Market!Known, Numbers
<1>4. Market!Unknown \in Numbers /\ ~Market!Known(Market!Unknown)
  BY DEF Numbers, Market!Unknown, Market!Known
<1> HIDE DEF p, q, r, t
<1>5. ASSUME NEW n \in Int, NEW d \in Nat
      PROVE  /\ Market!Fraction(n, d) \in Numbers
             /\ Market!Known(Market!Fraction(n, d)) => d > 0
  BY <1>4, FractionIs DEF Is
<1>6. q * t \in Nat /\ (q * t > 0 => q > 0 /\ t > 0) /\ p * t - r * q \in Int /\ p * r \in Int
      /\ p * t \in Int
  BY <1>1
<1>7. r > 0 => q * r \in Nat /\ (q * r > 0 => q > 0)
  BY <1>1
<1>8. /\ Market!Minus(v, w) \in Numbers /\ Market!Times(v, w) \in Numbers
      /\ Market!Known(Market!Minus(v, w)) => q > 0 /\ t > 0
      /\ Market!Known(Market!Times(v, w)) => q > 0 /\ t > 0
  BY <1>2, <1>5, <1>6
<1>9. /\ Market!Over(v, w) \in Numbers
      /\ Market!Known(Market!Over(v, w)) => q > 0 /\ t > 0 /\ r > 0
  BY <1>2, <1>3, <1>4, <1>5, <1>6, <1>7
<1> QED BY <1>8, <1>9 DEF p, q, r, t

LEMMA KnownNumber ==
  ASSUME NEW v \in Numbers
  PROVE  /\ Market!Known(v) <=> v.den > 0
         /\ v.num \in Int /\ v.den \in Nat
         /\ Market!Known(v) => Is(v, v.num, v.den)
BY DEF Numbers, Market!Known, Market!Unknown, Is

LEMMA WholeNumber ==
  ASSUME NEW n \in Int
  PROVE  Market!Whole(n) \in Numbers /\ Market!Known(Market!Whole(n))
         /\ Market!Whole(n).num = n /\ Market!Whole(n).den = 1
BY DEF Numbers, Market!Whole, Market!Known, Market!Unknown

(* The decimals of the token cancel in a market cap.                       *)
LEMMA CapIs ==
  ASSUME NEW x \in Nat \ {0}, NEW y \in Nat \ {0}, NEW p \in Nat,
         NEW b \in Nat \ {0}, NEW q \in Nat \ {0}
  PROVE  Is(Market!MarketCap(Market!Over(Market!Whole(x), Market!Whole(q)),
                             Market!Over(Market!Whole(y), Market!Whole(b)),
                             Market!Over(Market!Whole(p), Market!Whole(b))), x * p, q * y)
<1> DEFINE sol == Market!Over(Market!Whole(x), Market!Whole(q))
           tokens == Market!Over(Market!Whole(y), Market!Whole(b))
           supply == Market!Over(Market!Whole(p), Market!Whole(b))
<1>1. ASSUME NEW n \in Nat, NEW d \in Nat \ {0}
      PROVE  Is(Market!Over(Market!Whole(n), Market!Whole(d)), n, d)
  <2>1. Is(Market!Over(Market!Whole(n), Market!Whole(d)), n * 1, 1 * d)
    BY WholeIs, ProductIs
  <2> QED BY <2>1
<1>2. Is(sol, x, q) /\ Is(tokens, y, b) /\ Is(supply, p, b)
  BY <1>1
<1> HIDE DEF sol, tokens, supply
<1>3. Is(Market!Over(sol, tokens), x * b, q * y)
  BY <1>2, ProductIs
<1>4. /\ x * b \in Int /\ q * y \in Int /\ q * y > 0 /\ x * p \in Int
      /\ (x * b) * p \in Int /\ (q * y) * b \in Int /\ (q * y) * b > 0
      /\ ((x * b) * p) * (q * y) = (x * p) * ((q * y) * b)
  OBVIOUS
<1>5. Is(Market!Times(Market!Over(sol, tokens), supply), (x * b) * p, (q * y) * b)
  BY <1>2, <1>3, <1>4, ProductIs
<1>6. Is(Market!Times(Market!Over(sol, tokens), supply), x * p, q * y)
  BY <1>4, <1>5, Reduced
<1> QED BY <1>6 DEF Market!MarketCap, Market!SpotPrice, sol, tokens, supply

(* What an entry is made of: each field came or not, and the units are     *)
(* those of the pool unless decimals were missing.                         *)
LEMMA EntryFields ==
  ASSUME NEW o \in Entries
  PROVE  /\ o.at \in Nat /\ o.at <= MarketTime
         /\ \E x \in Nat \ {0}, y \in Nat \ {0}, b \in Nat \ {0}, q \in Nat \ {0} :
            \E supply \in {Market!Unknown, Market!Whole(Supply)} :
              /\ o.sol \in {Market!Unknown, Market!Whole(x)}
              /\ o.tokens \in {Market!Unknown, Market!Whole(y)}
              /\ Market!Misread(o) \/ q = PoolQuote
              /\ o.cap = Market!MarketCap(Market!Over(o.sol, Market!Whole(q)),
                                          Market!Over(o.tokens, Market!Whole(b)),
                                          Market!Over(supply, Market!Whole(b)))
<1>1. PICK c \in Curves, gap \in Gaps, at \in 0..MarketTime, trade \in 0..MarketTime :
        o = Entry(c, gap, at, trade)
  BY DEF Entries
<1> DEFINE raw == Market!Raw(c, gap)
           b == IF Market!Known(raw.base) THEN PoolBase ELSE DefaultBase
           q == IF Market!Known(raw.quote) THEN PoolQuote ELSE DefaultQuote
<1>2. /\ c[1] \in Nat \ {0} /\ c[2] \in Nat \ {0} /\ MarketTime \in Nat
      /\ b \in Nat \ {0} /\ q \in Nat \ {0}
  BY MarketTypes
<1>3. /\ raw.sol \in {Market!Unknown, Market!Whole(c[1])}
      /\ raw.tokens \in {Market!Unknown, Market!Whole(c[2])}
      /\ raw.supply \in {Market!Unknown, Market!Whole(Supply)}
      /\ raw.base \in {Market!Unknown, Market!Whole(PoolBase)}
      /\ raw.quote \in {Market!Unknown, Market!Whole(PoolQuote)}
  BY DEF Market!Raw
<1>4. /\ o.at = at /\ o.sol = raw.sol /\ o.tokens = raw.tokens /\ o.quote = raw.quote
      /\ o.cap = Market!Market(raw).cap
  BY <1>1 DEF Entry
<1> HIDE DEF raw
<1>5. /\ Market!Units(raw.base, DefaultBase) = Market!Whole(b)
      /\ Market!Units(raw.quote, DefaultQuote) = Market!Whole(q)
  BY <1>3 DEF Market!Units, Market!Known
<1>6. o.cap = Market!MarketCap(Market!Over(raw.sol, Market!Whole(q)),
                               Market!Over(raw.tokens, Market!Whole(b)),
                               Market!Over(raw.supply, Market!Whole(b)))
  BY <1>4, <1>5 DEF Market!Market
<1>7. Market!Misread(o) \/ q = PoolQuote
  BY <1>4 DEF Market!Misread
<1> HIDE DEF b, q
<1> QED BY <1>2, <1>3, <1>4, <1>6, <1>7

(* The reserves of an entry are those of a curve, or unknown; its cap is   *)
(* never negative, and known only as what the reserves are worth, in the   *)
(* units of the pool unless the entry is misread.                          *)
LEMMA EntryFacts ==
  ASSUME NEW o \in Entries
  PROVE  /\ o.at \in Nat /\ o.at <= MarketTime
         /\ o.sol = Market!Unknown \/ \E n \in Nat : n > 0 /\ o.sol = Market!Whole(n)
         /\ o.tokens = Market!Unknown \/ \E n \in Nat : n > 0 /\ o.tokens = Market!Whole(n)
         /\ o.cap \in Numbers
         /\ Market!Known(o.cap) =>
              /\ o.cap.num >= 0
              /\ \E n \in Int, d \in Int :
                   /\ d > 0 /\ Is(o.cap, n, d)
                   /\ Market!Misread(o) \/ Is(Market!TrueCap(o), n, d)
<1>1. /\ o.at \in Nat /\ o.at <= MarketTime
  BY EntryFields
<1>2. PICK x \in Nat \ {0}, y \in Nat \ {0}, b \in Nat \ {0}, q \in Nat \ {0} :
      \E supply \in {Market!Unknown, Market!Whole(Supply)} :
        /\ o.sol \in {Market!Unknown, Market!Whole(x)}
        /\ o.tokens \in {Market!Unknown, Market!Whole(y)}
        /\ Market!Misread(o) \/ q = PoolQuote
        /\ o.cap = Market!MarketCap(Market!Over(o.sol, Market!Whole(q)),
                                    Market!Over(o.tokens, Market!Whole(b)),
                                    Market!Over(supply, Market!Whole(b)))
  BY EntryFields
<1>3. PICK supply \in {Market!Unknown, Market!Whole(Supply)} :
        /\ o.sol \in {Market!Unknown, Market!Whole(x)}
        /\ o.tokens \in {Market!Unknown, Market!Whole(y)}
        /\ Market!Misread(o) \/ q = PoolQuote
        /\ o.cap = Market!MarketCap(Market!Over(o.sol, Market!Whole(q)),
                                    Market!Over(o.tokens, Market!Whole(b)),
                                    Market!Over(supply, Market!Whole(b)))
  BY <1>2
<1>4. /\ Supply \in Nat /\ PoolBase \in Nat \ {0} /\ PoolQuote \in Nat \ {0}
      /\ x > 0 /\ y > 0
  BY MarketTypes
<1>5. /\ o.sol = Market!Unknown \/ \E n \in Nat : n > 0 /\ o.sol = Market!Whole(n)
      /\ o.tokens = Market!Unknown \/ \E n \in Nat : n > 0 /\ o.tokens = Market!Whole(n)
  BY <1>3, <1>4
<1> DEFINE sol == Market!Over(o.sol, Market!Whole(q))
           tokens == Market!Over(o.tokens, Market!Whole(b))
           amount == Market!Over(supply, Market!Whole(b))
<1>6. /\ o.sol \in Numbers /\ o.tokens \in Numbers /\ supply \in Numbers
      /\ Market!Whole(q) \in Numbers /\ Market!Whole(b) \in Numbers
  BY <1>3, <1>4, WholeNumber DEF Numbers, Market!Unknown
<1>7. sol \in Numbers /\ tokens \in Numbers /\ amount \in Numbers
  BY <1>6, NumbersClosed
<1>8. o.cap = Market!Times(Market!Over(sol, tokens), amount)
  BY <1>3 DEF Market!MarketCap, Market!SpotPrice
<1>9. Market!Over(sol, tokens) \in Numbers /\ o.cap \in Numbers
  <2> HIDE DEF sol, tokens, amount
  <2> QED BY <1>7, <1>8, NumbersClosed
<1>10. ASSUME Market!Known(o.cap)
       PROVE  /\ o.cap.num >= 0
              /\ \E n \in Int, d \in Int :
                   /\ d > 0 /\ Is(o.cap, n, d)
                   /\ Market!Misread(o) \/ Is(Market!TrueCap(o), n, d)
  <2>1. Market!Known(sol) /\ Market!Known(tokens) /\ Market!Known(amount)
    <3> HIDE DEF sol, tokens, amount
    <3>1. Market!Known(Market!Over(sol, tokens)) /\ Market!Known(amount)
      BY <1>7, <1>8, <1>9, <1>10, NumbersClosed, KnownNumber
    <3> QED BY <1>7, <3>1, NumbersClosed, KnownNumber
  <2>2. o.sol.den > 0 /\ o.tokens.den > 0 /\ supply.den > 0
    BY <1>6, <2>1, NumbersClosed
  <2>3. o.sol = Market!Whole(x) /\ o.tokens = Market!Whole(y) /\ supply = Market!Whole(Supply)
    BY <1>3, <2>2 DEF Market!Unknown
  <2> DEFINE n == x * Supply
             d == q * y
  <2>4. Is(o.cap, n, d)
    BY <1>3, <1>4, <2>3, CapIs
  <2>5. n \in Int /\ n >= 0 /\ d \in Int /\ d > 0
    BY <1>4
  <2>6. q = PoolQuote => Is(Market!TrueCap(o), n, d)
    BY <1>4, <2>3, CapIs DEF Market!TrueCap
  <2> HIDE DEF n, d
  <2>7. o.cap.num >= 0
    <3> DEFINE p == o.cap.num
               r == o.cap.den
    <3>1. p \in Int /\ r \in Int /\ r > 0 /\ p * d = n * r
      BY <2>4 DEF Is, Numbers
    <3> HIDE DEF p, r
    <3>2. n * r >= 0
      BY <2>5, <3>1
    <3>3. ~(p < 0)
      BY <2>5, <3>1, <3>2
    <3> QED BY <3>1, <3>3 DEF p
  <2> QED BY <1>3, <2>4, <2>5, <2>6, <2>7
<1> QED BY <1>1, <1>5, <1>9, <1>10

-----------------------------------------------------------------------------
(* The table is a series up to now, and a signal is of a moment that has   *)
(* been observed.                                                          *)

Sampled ==
  /\ time \in 0..MarketTime /\ curve \in Curves /\ traded \in 0..time
  /\ IsSeries(rows) /\ \A i \in 1..Len(rows) : rows[i].at <= time

Observed ==
  /\ observed \in {-1} \cup {rows[i].at : i \in 1..Len(rows)}
  /\ fired \subseteq 0..observed

LEMMA SeriesRows ==
  ASSUME NEW s, IsSeries(s)
  PROVE  /\ Len(s) \in Nat /\ DOMAIN s = 1..Len(s)
         /\ \A i \in 1..Len(s) : s[i] \in Entries /\ s[i].at \in Nat
<1>1. s \in Seq(Entries)
  BY DEF IsSeries
<1>2. Len(s) \in Nat /\ DOMAIN s = 1..Len(s) /\ \A i \in 1..Len(s) : s[i] \in Entries
  BY <1>1, LenProperties, ElementOfSeq
<1> QED BY <1>2, EntryFacts

LEMMA MarketInit == Market!Init => Sampled /\ Observed
<1> SUFFICES ASSUME Market!Init PROVE Sampled /\ Observed
  OBVIOUS
<1>1. rows = <<>> /\ rows \in Seq(Entries) /\ Len(rows) = 0
  BY EmptySeq DEF Market!Init
<1>2. 0 \in 0..MarketTime /\ 0 \in 0..0 /\ 1..0 = {}
  BY MarketTypes
<1> QED BY <1>1, <1>2 DEF Market!Init, Sampled, Observed, IsSeries, InOrder

(* The only step that writes the table adds a row at its end.              *)
LEMMA Sampling ==
  ASSUME Sampled, Market!Observe
  PROVE  /\ IsSeries(rows') /\ Len(rows') = Len(rows) + 1
         /\ \A i \in 1..Len(rows) : rows'[i] = rows[i]
         /\ \A i \in 1..Len(rows') : rows'[i].at <= time
<1>1. PICK gap \in Gaps : rows' = Append(rows, Market!Snapshot(gap))
  BY DEF Market!Observe
<1> DEFINE o == Market!Snapshot(gap)
<1>2. /\ time \in 0..MarketTime /\ traded \in 0..time /\ curve \in Curves /\ IsSeries(rows)
      /\ MarketTime \in Nat /\ \A i \in 1..Len(rows) : rows[i].at <= time
  BY MarketTypes DEF Sampled
<1>3. o = Entry(curve, gap, time, traded) /\ o.at = time
  BY DEF Market!Snapshot, Entry
<1>4. o \in Entries
  <2>1. traded \in 0..MarketTime
    BY <1>2
  <2> QED BY <1>2, <1>3, <2>1 DEF Entries
<1> HIDE DEF o
<1>5. rows \in Seq(Entries) /\ InOrder(rows) /\ Len(rows) \in Nat
      /\ \A i \in 1..Len(rows) : rows[i].at \in Nat
  BY <1>2, SeriesRows DEF IsSeries
<1>6. /\ rows' \in Seq(Entries) /\ Len(rows') = Len(rows) + 1
      /\ \A i \in 1..Len(rows) : rows'[i] = rows[i]
      /\ rows'[Len(rows) + 1] = o
  BY <1>1, <1>4, <1>5, AppendProperties DEF o
<1>7. ASSUME NEW i \in 1..Len(rows) PROVE rows[i].at < time
  <2>1. rows # <<>> /\ Len(rows) \in 1..Len(rows)
    BY <1>5, <1>7, EmptySeq
  <2>2. Market!Last(rows).at < time
    BY <2>1 DEF Market!Observe
  <2>3. rows[Len(rows)].at < time
    BY <2>2 DEF Market!Last
  <2>4. CASE i = Len(rows)
    BY <2>3, <2>4
  <2>5. CASE i < Len(rows)
    <3>1. rows[i].at < rows[Len(rows)].at /\ rows[i].at \in Nat /\ rows[Len(rows)].at \in Nat
      BY <1>5, <1>7, <2>1, <2>5 DEF InOrder
    <3> QED BY <1>2, <2>3, <3>1
  <2> QED BY <1>5, <1>7, <2>4, <2>5
<1>8. ASSUME NEW i \in 1..Len(rows'), NEW j \in 1..Len(rows'), i < j
      PROVE  rows'[i].at < rows'[j].at
  <2>1. i \in 1..Len(rows) /\ (j \in 1..Len(rows) \/ j = Len(rows) + 1)
    BY <1>5, <1>6, <1>8
  <2>2. CASE j \in 1..Len(rows)
    BY <1>5, <1>6, <1>8, <2>1, <2>2 DEF InOrder
  <2>3. CASE j = Len(rows) + 1
    BY <1>3, <1>6, <1>7, <2>1, <2>3
  <2> QED BY <2>1, <2>2, <2>3
<1>9. ASSUME NEW i \in 1..Len(rows') PROVE rows'[i].at <= time
  <2>1. i \in 1..Len(rows) \/ i = Len(rows) + 1
    BY <1>5, <1>6, <1>9
  <2> QED BY <1>2, <1>3, <1>6, <2>1
<1> QED BY <1>6, <1>8, <1>9 DEF IsSeries, InOrder

LEMMA MarketStep ==
  Sampled /\ Observed /\ [Market!Next]_(Market!vars) => Sampled' /\ Observed'
<1> SUFFICES ASSUME Sampled, Observed, [Market!Next]_(Market!vars) PROVE Sampled' /\ Observed'
  OBVIOUS
<1>0. /\ time \in 0..MarketTime /\ curve \in Curves /\ traded \in 0..time /\ MarketTime \in Nat
      /\ IsSeries(rows) /\ \A i \in 1..Len(rows) : rows[i].at <= time
      /\ Len(rows) \in Nat /\ \A i \in 1..Len(rows) : rows[i].at \in Nat
  BY MarketTypes, SeriesRows DEF Sampled
<1>1. CASE Market!Tick
  <2>1. time' = time + 1 /\ time < MarketTime /\ UNCHANGED <<curve, traded, rows, observed, fired>>
    BY <1>1 DEF Market!Tick
  <2>2. time' \in 0..MarketTime /\ traded' \in 0..time' /\ time <= time'
    BY <1>0, <2>1
  <2>3. \A i \in 1..Len(rows) : rows[i].at <= time'
    BY <1>0, <2>1, <2>2
  <2> QED BY <1>0, <2>1, <2>2, <2>3 DEF Sampled, Observed, IsSeries, InOrder
<1>2. CASE Market!Trade
  <2>1. /\ traded' = time /\ curve' \in Curves /\ UNCHANGED <<time, rows, observed, fired>>
    BY <1>2 DEF Market!Trade
  <2>2. time \in 0..time
    BY <1>0
  <2> QED BY <1>0, <2>1, <2>2 DEF Sampled, Observed, IsSeries, InOrder
<1>3. CASE Market!Observe
  <2>1. UNCHANGED <<time, curve, traded, observed, fired>>
    BY <1>3 DEF Market!Observe
  <2>2. /\ IsSeries(rows') /\ Len(rows') = Len(rows) + 1
        /\ \A i \in 1..Len(rows) : rows'[i] = rows[i]
        /\ \A i \in 1..Len(rows') : rows'[i].at <= time
    BY <1>3, Sampling
  <2>3. \A i \in 1..Len(rows) : i \in 1..Len(rows')
    BY <1>0, <2>2
  <2>4. {rows[i].at : i \in 1..Len(rows)} \subseteq {rows'[i].at : i \in 1..Len(rows')}
    BY <2>2, <2>3
  <2> QED BY <1>0, <2>1, <2>2, <2>4 DEF Sampled, Observed, IsSeries, InOrder
<1>4. ASSUME NEW i \in DOMAIN rows, Market!Evaluate(i) PROVE Sampled' /\ Observed'
  <2>1. /\ rows[i].at >= observed /\ observed' = rows[i].at
        /\ UNCHANGED <<time, curve, traded, rows>>
        /\ fired' \subseteq fired \cup {rows[i].at}
    BY <1>4 DEF Market!Evaluate
  <2>2. i \in 1..Len(rows) /\ rows[i].at \in Nat
    BY <1>0, <1>4, SeriesRows
  <2>3. observed \in Int
    BY <1>0 DEF Observed
  <2>4. fired' \subseteq 0..observed'
    <3>1. 0..observed \subseteq 0..observed' /\ rows[i].at \in 0..observed'
      BY <2>1, <2>2, <2>3
    <3> QED BY <2>1, <3>1 DEF Observed
  <2> QED BY <1>0, <2>1, <2>2, <2>4 DEF Sampled, Observed, IsSeries, InOrder
<1>5. CASE UNCHANGED Market!vars
  BY <1>0, <1>5 DEF Market!vars, Sampled, Observed, IsSeries, InOrder
<1> QED BY <1>1, <1>2, <1>3, <1>4, <1>5 DEF Market!Next

LEMMA MarketAlways == Market!Spec => [](Sampled /\ Observed)
BY MarketInit, MarketStep, PTL DEF Market!Spec

(* "A round trip pays it twice", on any two snapshots of any curve, for    *)
(* any fee and any stake, whatever the provider leaves out of them: what   *)
(* comes back is at most the stake after two fees, moved by the price, and *)
(* the slippage of neither fill is in the trader's favour.                 *)
THEOREM RoundTripAlwaysPaysTwice == Market!Spec => []RoundTripPaysTwice
<1>1. ASSUME Sampled PROVE RoundTripPaysTwice
  <2> DEFINE buy(s, i) == Market!SimulateBuy(Market!Whole(s), rows[i].sol, rows[i].tokens, FeeRate)
             sell(s, i, j) == Market!SimulateSell(buy(s, i).out, rows[j].sol, rows[j].tokens,
                                                  FeeRate)
             kept(s) == Market!Keep(Market!Keep(Market!Whole(s), FeeRate), FeeRate)
  <2>1. SUFFICES ASSUME NEW i \in DOMAIN rows, NEW j \in DOMAIN rows, NEW s \in Stakes,
                        Market!Known(sell(s, i, j).out)
                 PROVE  /\ Market!Atmost(buy(s, i).spot, buy(s, i).effective)
                        /\ Market!Atmost(sell(s, i, j).effective, sell(s, i, j).spot)
                        /\ Market!Atmost(Market!Times(sell(s, i, j).out, buy(s, i).spot),
                                         Market!Times(kept(s), sell(s, i, j).spot))
    BY DEF RoundTripPaysTwice, Market!RoundTripPaysTwice
  <2>2. rows[i] \in Entries /\ rows[j] \in Entries
    BY <1>1, SeriesRows DEF Sampled
  <2>3. /\ rows[j].sol # Market!Unknown /\ rows[j].tokens # Market!Unknown
        /\ buy(s, i).out # Market!Unknown
    BY <2>1, UnknownRefused DEF Market!Known
  <2>4. rows[i].sol # Market!Unknown /\ rows[i].tokens # Market!Unknown
    BY <2>3, UnknownRefused
  <2>5. PICK a \in Nat, b \in Nat : /\ a > 0 /\ rows[i].sol = Market!Whole(a)
                                    /\ b > 0 /\ rows[i].tokens = Market!Whole(b)
    BY <2>2, <2>4, EntryFacts
  <2>6. PICK c \in Nat, d \in Nat : /\ c > 0 /\ rows[j].sol = Market!Whole(c)
                                    /\ d > 0 /\ rows[j].tokens = Market!Whole(d)
    BY <2>2, <2>3, EntryFacts
  <2>7. s \in Nat /\ s > 0 /\ Rate(FeeRate)
    BY MarketTypes
  <2> QED BY <2>5, <2>6, <2>7, FeePaidTwice
<1> QED BY <1>1, MarketAlways, PTL

-----------------------------------------------------------------------------
(* The stretches of a series that a feature is computed from.              *)

(* p is the stretch of s after its first `from` rows.                      *)
Stretch(p, s, from) ==
  /\ IsSeries(p) /\ from \in Nat /\ from + Len(p) <= Len(s)
  /\ \A i \in 1..Len(p) : p[i] = s[from + i]

LEMMA SubSeqIsStretch ==
  ASSUME NEW s, IsSeries(s), NEW lo \in Nat, NEW hi \in Nat, lo > 0, hi <= Len(s), lo <= hi + 1
  PROVE  /\ Stretch(SubSeq(s, lo, hi), s, lo - 1)
         /\ Len(SubSeq(s, lo, hi)) = (hi - lo) + 1
<1> DEFINE p == SubSeq(s, lo, hi)
<1>1. s \in Seq(Entries) /\ Len(s) \in Nat /\ \A i \in 1..Len(s) : s[i] \in Entries
  BY SeriesRows DEF IsSeries
<1>2. \A i \in lo..hi : i \in 1..Len(s)
  BY <1>1
<1>3. /\ p \in Seq(Entries) /\ Len(p) = IF lo <= hi THEN hi - lo + 1 ELSE 0
      /\ \A i \in 1 .. hi - lo + 1 : p[i] = s[lo + i - 1]
  BY <1>1, <1>2, SubSeqProperties
<1> HIDE DEF p
<1>4. Len(p) = (hi - lo) + 1 /\ Len(p) \in Nat
  BY <1>3
<1>5. \A i \in 1..Len(p) : p[i] = s[(lo - 1) + i] /\ (lo - 1) + i \in 1..Len(s)
  <2>1. TAKE i \in 1..Len(p)
  <2>2. i \in 1 .. hi - lo + 1 /\ lo + i - 1 = (lo - 1) + i /\ (lo - 1) + i \in 1..Len(s)
    BY <1>1, <1>4
  <2> QED BY <1>3, <2>2
<1>6. InOrder(p)
  <2>1. SUFFICES ASSUME NEW i \in 1..Len(p), NEW j \in 1..Len(p), i < j PROVE p[i].at < p[j].at
    BY DEF InOrder
  <2>2. (lo - 1) + i < (lo - 1) + j
    BY <2>1, <1>4
  <2> QED BY <1>5, <2>1, <2>2 DEF IsSeries, InOrder
<1>7. lo - 1 \in Nat /\ (lo - 1) + Len(p) <= Len(s)
  BY <1>1, <1>4
<1> QED BY <1>3, <1>4, <1>5, <1>6, <1>7 DEF Stretch, IsSeries, p

LEMMA StretchOfStretch ==
  ASSUME NEW p, NEW q, NEW s, NEW m, NEW n, Stretch(p, q, m), Stretch(q, s, n), IsSeries(s)
  PROVE  Stretch(p, s, n + m)
<1>1. /\ IsSeries(p) /\ m \in Nat /\ n \in Nat /\ m + Len(p) <= Len(q) /\ n + Len(q) <= Len(s)
      /\ Len(p) \in Nat /\ Len(q) \in Nat /\ Len(s) \in Nat
  BY SeriesRows DEF Stretch
<1>2. n + m \in Nat /\ (n + m) + Len(p) <= Len(s)
  BY <1>1
<1>3. ASSUME NEW i \in 1..Len(p) PROVE p[i] = s[(n + m) + i]
  <2>1. m + i \in 1..Len(q) /\ n + (m + i) = (n + m) + i
    BY <1>1
  <2>2. p[i] = q[m + i] /\ q[m + i] = s[n + (m + i)]
    BY <2>1 DEF Stretch
  <2> QED BY <2>1, <2>2
<1> QED BY <1>1, <1>2, <1>3 DEF Stretch

(* bisect_right: as many observations as are not later, from the start.    *)
LEMMA CutSplits ==
  ASSUME NEW s, IsSeries(s), NEW moment \in Int
  PROVE  LET k == Market!Cut(s, moment)
         IN  k \in 0..Len(s) /\ \A i \in 1..Len(s) : s[i].at <= moment <=> i <= k
<1> DEFINE n == Len(s)
           S == {i \in 1..n : s[i].at <= moment}
           k == Market!Cut(s, moment)
<1>1. n \in Nat /\ DOMAIN s = 1..n /\ \A i \in 1..n : s[i].at \in Nat
  BY SeriesRows
<1>2. \A i, j \in 1..n : i < j => s[i].at < s[j].at
  BY DEF IsSeries, InOrder
<1>3. k = Cardinality(S)
  <2>1. k = Cardinality({i \in DOMAIN s : s[i].at <= moment})
    BY Zenon DEF Market!Cut, Market!Cardinality, Cardinality
  <2> HIDE DEF k, n
  <2>2. S = {i \in DOMAIN s : s[i].at <= moment}
    BY <1>1, Zenon
  <2> QED BY <2>1, <2>2
<1> HIDE DEF k, n
<1>4. CASE S = {}
  <2>1. k = 0
    BY <1>3, <1>4, FS_EmptySet
  <2>2. \A i \in 1..n : ~(s[i].at <= moment) /\ ~(i <= 0)
    BY <1>4
  <2> QED BY <1>1, <2>1, <2>2 DEF k, n
<1>5. CASE S # {}
  <2>1. IsFiniteSet(1..n) /\ S \subseteq 1..n /\ S \subseteq Int
    BY <1>1, FS_Interval
  <2>2. IsFiniteSet(S)
    BY <2>1, FS_Subset
  <2> HIDE DEF S
  <2>3. PICK m : m \in S /\ \A i \in S : i <= m
    BY <1>5, <2>1, <2>2, MaxOfSet, Zenon
  <2>4. S = 1..m /\ m \in 1..n
    <3>1. m \in 1..n /\ s[m].at <= moment
      BY <2>3 DEF S
    <3>2. ASSUME NEW i \in 1..m PROVE i \in S
      <4>1. i \in 1..n /\ (i < m \/ i = m)
        BY <1>1, <3>1
      <4>2. s[i].at <= moment
        <5>1. s[i].at \in Int /\ s[m].at \in Int
          BY <1>1, <3>1, <4>1
        <5> QED BY <1>2, <3>1, <4>1, <5>1
      <4> QED BY <4>1, <4>2 DEF S
    <3>3. ASSUME NEW i \in S PROVE i \in 1..m
      <4>1. i \in 1..n /\ i <= m
        BY <2>3, <3>3 DEF S
      <4> QED BY <4>1, <3>1, <1>1
    <3> QED BY <3>1, <3>2, <3>3
  <2>5. Cardinality(1..m) = m
    <3>1. m \in Int /\ 1 <= m /\ m - 1 + 1 = m
      BY <1>1, <2>4
    <3> QED BY <3>1, FS_Interval
  <2>6. k = m
    BY <1>3, <2>4, <2>5
  <2>7. ASSUME NEW i \in 1..n PROVE s[i].at <= moment <=> i <= m
    <3>1. s[i].at <= moment <=> i \in S
      BY DEF S
    <3>2. i \in S <=> i <= m
      BY <1>1, <2>4
    <3> QED BY <3>1, <3>2
  <2> QED BY <1>1, <2>4, <2>6, <2>7 DEF k, n
<1> QED BY <1>4, <1>5

(* Nothing later than the moment is visible, and all that is not.          *)
LEMMA UpToStretch ==
  ASSUME NEW s, IsSeries(s), NEW moment \in Int
  PROVE  LET p == Market!UpTo(s, moment)
         IN  /\ Stretch(p, s, 0)
             /\ \A i \in 1..Len(p) : p[i].at <= moment
             /\ \A i \in 1..Len(s) : s[i].at <= moment => i \in 1..Len(p)
<1> DEFINE k == Market!Cut(s, moment)
           p == Market!UpTo(s, moment)
<1>1. k \in 0..Len(s) /\ (\A i \in 1..Len(s) : s[i].at <= moment <=> i <= k) /\ Len(s) \in Nat
  BY CutSplits, SeriesRows
<1>2. p = SubSeq(s, 1, k)
  BY DEF Market!UpTo
<1> HIDE DEF k, p
<1>3. k \in Nat /\ k <= Len(s) /\ 1 <= k + 1 /\ 1 - 1 = 0 /\ (k - 1) + 1 = k
  BY <1>1
<1>4. Stretch(p, s, 0) /\ Len(p) = k
  BY <1>2, <1>3, SubSeqIsStretch
<1>5. \A i \in 1..Len(p) : i \in 1..Len(s) /\ i <= k /\ p[i] = s[i]
  BY <1>1, <1>4 DEF Stretch
<1>6. \A i \in 1..Len(s) : i <= k => i \in 1..Len(p)
  BY <1>1, <1>4
<1> QED BY <1>1, <1>4, <1>5, <1>6 DEF p

LEMMA AfterStretch ==
  ASSUME NEW s, IsSeries(s), NEW moment \in Int
  PROVE  LET p == Market!After(s, moment)
         IN  \E from \in Nat :
               /\ Stretch(p, s, from)
               /\ \A i \in 1..Len(p) : p[i].at > moment
               /\ \A i \in 1..Len(s) : s[i].at > moment => i - from \in 1..Len(p)
<1> DEFINE k == Market!Cut(s, moment)
           p == Market!After(s, moment)
<1>1. /\ k \in 0..Len(s) /\ (\A i \in 1..Len(s) : s[i].at <= moment <=> i <= k) /\ Len(s) \in Nat
      /\ \A i \in 1..Len(s) : s[i].at \in Nat
  BY CutSplits, SeriesRows
<1>2. p = SubSeq(s, k + 1, Len(s))
  BY DEF Market!After
<1> HIDE DEF k, p
<1>3. /\ k \in Nat /\ k + 1 \in Nat /\ k + 1 > 0 /\ Len(s) <= Len(s) /\ k + 1 <= Len(s) + 1
      /\ (k + 1) - 1 = k /\ (Len(s) - (k + 1)) + 1 = Len(s) - k
  BY <1>1
<1>4. Stretch(p, s, k) /\ Len(p) = Len(s) - k
  BY <1>1, <1>2, <1>3, SubSeqIsStretch
<1>5. ASSUME NEW i \in 1..Len(p) PROVE p[i].at > moment
  <2>1. k + i \in 1..Len(s) /\ ~(k + i <= k) /\ p[i] = s[k + i]
    BY <1>1, <1>4 DEF Stretch
  <2>2. ~(s[k + i].at <= moment) /\ s[k + i].at \in Nat
    BY <1>1, <2>1
  <2> QED BY <2>1, <2>2
<1>6. ASSUME NEW i \in 1..Len(s), s[i].at > moment PROVE i - k \in 1..Len(p)
  <2>1. ~(i <= k)
    <3>1. s[i].at \in Nat
      BY <1>1
    <3> QED BY <1>1, <1>6, <3>1
  <2> QED BY <1>1, <1>4, <2>1
<1> QED BY <1>3, <1>4, <1>5, <1>6 DEF p

-----------------------------------------------------------------------------
(* The signal.                                                             *)

LEMMA CommonDenominator ==
  ASSUME NEW u \in Numbers, NEW v \in Numbers, NEW w \in Numbers,
         u.den > 0, v.den > 0, w.den > 0
  PROVE  \E d \in Int, x \in Int, y \in Int, z \in Int :
           d > 0 /\ Is(u, x, d) /\ Is(v, y, d) /\ Is(w, z, d)
<1> DEFINE a == u.num
           b == v.num
           c == w.num
           p == u.den
           q == v.den
           r == w.den
           d == (p * q) * r
<1>1. /\ a \in Int /\ b \in Int /\ c \in Int /\ p \in Int /\ q \in Int /\ r \in Int
      /\ p > 0 /\ q > 0 /\ r > 0
  BY DEF Numbers
<1>2. Is(u, a, p) /\ Is(v, b, q) /\ Is(w, c, r)
  BY KnownNumber DEF Is
<1> HIDE DEF a, b, c, p, q, r
<1>3. /\ d \in Int /\ d > 0
      /\ a * d = ((a * q) * r) * p /\ b * d = ((b * p) * r) * q /\ c * d = ((c * p) * q) * r
      /\ (a * q) * r \in Int /\ (b * p) * r \in Int /\ (c * p) * q \in Int
  BY <1>1
<1> HIDE DEF d
<1>4. Is(u, (a * q) * r, d) /\ Is(v, (b * p) * r, d) /\ Is(w, (c * p) * q, d)
  BY <1>1, <1>2, <1>3, Reduced
<1> QED BY <1>3, <1>4

LEMMA DifferenceIs ==
  ASSUME NEW v, NEW w, NEW x \in Int, NEW y \in Int, NEW d \in Int, d > 0, Is(v, x, d), Is(w, y, d)
  PROVE  Is(Market!Minus(v, w), x - y, d)
<1>1. Is(Market!Minus(v, w), x * d - y * d, d * d)
  BY SumIs
<1>2. /\ (x * d - y * d) * d = (x - y) * (d * d) /\ x * d - y * d \in Int /\ x - y \in Int
      /\ d * d \in Int /\ d * d > 0
  OBVIOUS
<1> QED BY <1>1, <1>2, Reduced

(* A rise that does not slow down and has been at least `rate` on the      *)
(* whole has been at least `rate` since any moment in between: x over a    *)
(* first, then y over b.                                                   *)
LEMMA LaterHalfRises ==
  ASSUME NEW x \in Int, NEW y \in Int, NEW a \in Int, NEW b \in Int, NEW d \in Int,
         NEW rate \in Int, a > 0, b > 0,
         x * b <= y * a, rate * (d * (a + b)) <= x + y
  PROVE  rate * (d * b) <= y
<1>1. (x + y) * b <= y * (a + b)
  BY (x + y) * b = x * b + y * b, y * (a + b) = y * a + y * b
<1>2. (rate * (d * (a + b))) * b <= (x + y) * b
  <2> DEFINE l == rate * (d * (a + b))
             r == x + y
  <2>1. l \in Int /\ r \in Int /\ l <= r
    OBVIOUS
  <2> HIDE DEF l, r
  <2> QED BY <2>1 DEF l, r
<1>3. (rate * (d * (a + b))) * b = (rate * (d * b)) * (a + b)
  OBVIOUS
<1> DEFINE l == rate * (d * b)
           t == a + b
<1>4. l \in Int /\ t \in Int /\ t > 0 /\ (x + y) * b \in Int /\ y * t \in Int /\ l * t \in Int
  OBVIOUS
<1>5. l * t <= y * t
  BY <1>1, <1>2, <1>3, <1>4
<1> HIDE DEF l, t
<1>6. l <= y
  BY <1>4, <1>5
<1> QED BY <1>6 DEF l

(* What momentum says of the caps in the window, without its fractions.    *)
LEMMA MomentumClimbs ==
  ASSUME NEW r, IsSeries(r), Len(r) >= 3,
         Market!AtLeast(Market!Velocity(r, "cap"), Market!Whole(MinVelocity)),
         Market!AtLeast(Market!Acceleration(r, "cap"), Market!Whole(0))
  PROVE  LET n == Len(r)
             m == n \div 2 + 1
         IN  /\ 1 < m /\ m < n /\ m \in Nat
             /\ Market!Known(r[m].cap) /\ Market!Known(r[n].cap)
             /\ Market!AtLeast(Market!Minus(r[n].cap, r[m].cap),
                               Market!Whole(MinVelocity * (r[n].at - r[m].at)))
<1> DEFINE n == Len(r)
           h == n \div 2
           m == h + 1
           first == r[1].cap
           mid == r[m].cap
           final == r[n].cap
           a == r[m].at - r[1].at
           b == r[n].at - r[m].at
           early == SubSeq(r, 1, m)
           late == SubSeq(r, m, n)
<1>1. n \in Nat /\ n >= 3 /\ MinVelocity \in Nat
  BY MarketTypes, SeriesRows
<1> HIDE DEF n
<1>2. h \in Nat /\ 1 < m /\ m < n /\ m \in Nat
  <2>1. h \in Int /\ n - 2 * h = n % 2 /\ n % 2 \in Int /\ 0 <= n % 2 /\ n % 2 < 2
    BY <1>1
  <2> HIDE DEF h
  <2> QED BY <1>1, <2>1
<1> HIDE DEF h
<1>3. 1 \in 1..n /\ m \in 1..n /\ n \in 1..n
  BY <1>1, <1>2
<1> HIDE DEF m
<1>4. /\ r[1].at \in Nat /\ r[m].at \in Nat /\ r[n].at \in Nat
      /\ r[1].at < r[m].at /\ r[m].at < r[n].at
  BY <1>2, <1>3, SeriesRows DEF n, IsSeries, InOrder
<1>5. a \in Int /\ b \in Int /\ a > 0 /\ b > 0 /\ r[n].at - r[1].at = a + b /\ a + b > 0
  BY <1>4
<1>6. first \in Numbers /\ mid \in Numbers /\ final \in Numbers
  BY <1>3, SeriesRows, EntryFacts DEF n
<1>7. /\ Len(early) = m /\ early[1] = r[1] /\ early[m] = r[m] /\ IsSeries(early)
      /\ Len(late) = (n - m) + 1 /\ late[1] = r[m] /\ late[(n - m) + 1] = r[n] /\ IsSeries(late)
  <2>1. Stretch(early, r, 1 - 1) /\ Len(early) = (m - 1) + 1
    <3>1. 1 \in Nat /\ 1 > 0 /\ m \in Nat /\ m <= Len(r) /\ 1 <= m + 1
      BY <1>1, <1>2 DEF n
    <3> QED BY <3>1, SubSeqIsStretch
  <2>2. Stretch(late, r, m - 1) /\ Len(late) = (n - m) + 1
    <3>1. m > 0 /\ n \in Nat /\ n <= Len(r) /\ m <= n + 1
      BY <1>1, <1>2 DEF n
    <3> QED BY <1>2, <3>1, SubSeqIsStretch
  <2> HIDE DEF early, late
  <2>3. (m - 1) + 1 = m /\ 1 \in 1..m /\ m \in 1..m /\ (1 - 1) + 1 = 1 /\ (1 - 1) + m = m
    BY <1>2
  <2>4. early[1] = r[1] /\ early[m] = r[m]
    BY <2>1, <2>3 DEF Stretch
  <2>5. /\ 1 \in 1..((n - m) + 1) /\ (n - m) + 1 \in 1..((n - m) + 1)
        /\ (m - 1) + ((n - m) + 1) = n
    BY <1>1, <1>2
  <2>6. late[1] = r[m] /\ late[(n - m) + 1] = r[n]
    BY <2>2, <2>3, <2>5 DEF Stretch
  <2> QED BY <2>1, <2>2, <2>3, <2>4, <2>6 DEF Stretch
<1> HIDE DEF early, late
<1> DEFINE rise(v, w, t) == Market!Over(Market!Minus(w, v), Market!Whole(t))
<1>8. ASSUME NEW s, IsSeries(s), Len(s) >= 2
      PROVE  Market!Velocity(s, "cap")
               = rise(s[1].cap, s[Len(s)].cap, s[Len(s)].at - s[1].at)
  <2>1. Len(s) \in Nat /\ s # <<>>
    BY <1>8, SeriesRows, EmptySeq
  <2>2. ~(Len(s) < 2) /\ Market!First(s) = s[1] /\ Market!Last(s) = s[Len(s)]
    BY <1>8, <2>1 DEF Market!First, Market!Last
  <2> QED BY <2>2 DEF Market!Velocity, Market!Change, Market!Span
<1>9. Market!Velocity(r, "cap") = rise(first, final, a + b)
  BY <1>1, <1>5, <1>8 DEF n
<1>10. Market!Velocity(early, "cap") = rise(first, mid, a)
  <2>1. Len(early) >= 2 /\ early[Len(early)] = r[m]
    BY <1>2, <1>7
  <2> QED BY <1>7, <1>8, <2>1
<1>11. Market!Velocity(late, "cap") = rise(mid, final, b)
  <2>1. Len(late) >= 2
    BY <1>1, <1>2, <1>7
  <2> QED BY <1>7, <1>8, <2>1
<1>12. Market!Acceleration(r, "cap")
         = Market!Over(Market!Minus(rise(mid, final, b), rise(first, mid, a)), Market!Whole(a))
  <2>1. ~(n < 3) /\ early # <<>> /\ late # <<>>
    BY <1>1, <1>2, <1>7, EmptySeq
  <2>2. Market!First(late).at - Market!First(early).at = a
    BY <1>7, <2>1 DEF Market!First
  <2> QED BY <1>10, <1>11, <2>1, <2>2 DEF Market!Acceleration, early, late, m, h, n
<1> HIDE DEF a, b, first, mid, final
<1>13. first.den > 0 /\ mid.den > 0 /\ final.den > 0
  <2>1. /\ Market!Minus(mid, first) \in Numbers /\ Market!Minus(final, mid) \in Numbers
        /\ Market!Whole(a) \in Numbers /\ Market!Whole(b) \in Numbers
    BY <1>5, <1>6, NumbersClosed, WholeNumber
  <2>2. rise(first, mid, a) \in Numbers /\ rise(mid, final, b) \in Numbers
    BY <2>1, NumbersClosed
  <2>3. Market!Minus(rise(mid, final, b), rise(first, mid, a)) \in Numbers
    BY <2>2, NumbersClosed
  <2>4. Market!Known(Market!Acceleration(r, "cap"))
    BY DEF Market!AtLeast
  <2>5. Market!Minus(rise(mid, final, b), rise(first, mid, a)).den > 0
    BY <1>12, <2>1, <2>3, <2>4, NumbersClosed
  <2>6. rise(first, mid, a).den > 0 /\ rise(mid, final, b).den > 0
    BY <2>2, <2>3, <2>5, NumbersClosed, KnownNumber
  <2>7. Market!Minus(mid, first).den > 0 /\ Market!Minus(final, mid).den > 0
    BY <2>1, <2>2, <2>6, NumbersClosed, KnownNumber
  <2> QED BY <1>6, <2>1, <2>7, NumbersClosed, KnownNumber
<1>14. PICK d \in Int, x \in Int, y \in Int, z \in Int :
         d > 0 /\ Is(first, x, d) /\ Is(mid, y, d) /\ Is(final, z, d)
  BY <1>6, <1>13, CommonDenominator
<1>15. ASSUME NEW v, NEW w, NEW i \in Int, NEW j \in Int, Is(v, i, d), Is(w, j, d),
              NEW t \in Int, t > 0
       PROVE  Is(rise(v, w, t), j - i, d * t)
  <2>1. Is(Market!Minus(w, v), j - i, d) /\ Is(Market!Whole(t), t, 1) /\ j - i \in Int
    BY <1>14, <1>15, DifferenceIs, WholeIs
  <2>2. Is(rise(v, w, t), (j - i) * 1, d * t)
    BY <1>14, <1>15, <2>1, ProductIs
  <2>3. (j - i) * 1 = j - i
    BY <2>1
  <2> QED BY <2>2, <2>3
<1>16. MinVelocity * (d * (a + b)) <= z - x
  <2>1. Is(rise(first, final, a + b), z - x, d * (a + b))
    BY <1>5, <1>14, <1>15
  <2>2. Market!Atmost(Market!Whole(MinVelocity), rise(first, final, a + b))
    BY <1>9 DEF Market!AtLeast
  <2>3. /\ Is(Market!Whole(MinVelocity), MinVelocity, 1) /\ MinVelocity \in Int
        /\ d * (a + b) \in Int /\ d * (a + b) > 0 /\ z - x \in Int
    BY <1>1, <1>5, <1>14, WholeIs
  <2>4. MinVelocity * (d * (a + b)) <= (z - x) * 1
    BY <2>1, <2>2, <2>3, Comparable
  <2> QED BY <2>3, <2>4
<1>17. (y - x) * b <= (z - y) * a
  <2> DEFINE e == y - x
             l == z - y
             p == d * a
             q == d * b
  <2>1. Is(rise(mid, final, b), l, q) /\ Is(rise(first, mid, a), e, p)
    BY <1>5, <1>14, <1>15
  <2>2. e \in Int /\ l \in Int /\ p \in Int /\ q \in Int /\ p > 0 /\ q > 0
    BY <1>5, <1>14
  <2> HIDE DEF e, l, p, q, rise
  <2>3. Is(Market!Minus(rise(mid, final, b), rise(first, mid, a)), l * p - e * q, q * p)
    BY <2>1, <2>2, SumIs
  <2>4. l * p - e * q \in Int /\ q * p \in Int /\ q * p > 0 /\ (q * p) * a \in Int /\ (q * p) * a > 0
        /\ (l * p - e * q) * 1 = l * p - e * q
    BY <1>5, <2>2
  <2> DEFINE u == l * p - e * q
  <2> HIDE DEF u
  <2>5. Is(Market!Acceleration(r, "cap"), u, (q * p) * a)
    <3>1. Is(Market!Whole(a), a, 1)
      BY <1>5, WholeIs
    <3>2. Is(Market!Acceleration(r, "cap"), u * 1, (q * p) * a)
      BY <1>5, <1>12, <2>3, <2>4, <3>1, ProductIs DEF u
    <3> QED BY <2>4, <3>2 DEF u
  <2>6. 0 * ((q * p) * a) <= u * 1
    <3>1. Is(Market!Whole(0), 0, 1) /\ u \in Int
      BY <2>4, WholeIs DEF u
    <3>2. Market!Atmost(Market!Whole(0), Market!Acceleration(r, "cap"))
      BY DEF Market!AtLeast
    <3> QED BY <2>4, <2>5, <3>1, <3>2, Comparable
  <2>7. 0 <= u
    BY <2>4, <2>6 DEF u
  <2>8. u = d * (l * a - e * b)
    BY <1>5, <1>14, <2>2 DEF u, p, q
  <2>9. 0 <= l * a - e * b
    <3> DEFINE k == l * a - e * b
    <3>1. k \in Int /\ 0 <= d * k
      BY <1>5, <2>2, <2>7, <2>8
    <3> HIDE DEF k
    <3>2. 0 <= k
      BY <1>14, <3>1
    <3> QED BY <3>2 DEF k
  <2>10. l * a \in Int /\ e * b \in Int
    BY <1>5, <2>2
  <2>11. e * b <= l * a
    BY <2>9, <2>10
  <2> QED BY <2>11 DEF e, l
<1>18. MinVelocity * (d * b) <= z - y
  <2> DEFINE e == y - x
             l == z - y
  <2>1. e \in Int /\ l \in Int /\ e + l = z - x /\ MinVelocity \in Int
    BY <1>1
  <2>2. e * b <= l * a /\ MinVelocity * (d * (a + b)) <= e + l
    BY <1>16, <1>17, <2>1
  <2> HIDE DEF e, l
  <2>3. MinVelocity * (d * b) <= l
    BY <1>5, <1>14, <2>1, <2>2, LaterHalfRises
  <2> QED BY <2>3 DEF l
<1>19. Market!AtLeast(Market!Minus(final, mid), Market!Whole(MinVelocity * b))
  <2>1. Is(Market!Minus(final, mid), z - y, d) /\ z - y \in Int
    BY <1>14, DifferenceIs
  <2>2. MinVelocity * b \in Int /\ Is(Market!Whole(MinVelocity * b), MinVelocity * b, 1)
    BY <1>1, <1>5, WholeIs
  <2>3. (MinVelocity * b) * d <= (z - y) * 1
    <3>1. (MinVelocity * b) * d = MinVelocity * (d * b)
      BY <1>1, <1>5, <1>14
    <3> QED BY <1>18, <2>1, <3>1
  <2>4. Market!Atmost(Market!Whole(MinVelocity * b), Market!Minus(final, mid))
    BY <1>14, <2>1, <2>2, <2>3, Comparable
  <2>5. Market!Known(Market!Minus(final, mid))
    BY <1>14, <2>1, Positivity
  <2> QED BY <2>4, <2>5 DEF Market!AtLeast
<1>20. Market!Known(mid) /\ Market!Known(final)
  BY <1>14, Positivity
<1> QED BY <1>2, <1>19, <1>20 DEF m, h, n, b, mid, final

(* A rise of the recorded caps is one of the market, unless decimals were  *)
(* missing from one of the two rows.                                       *)
LEMMA TrueRise ==
  ASSUME NEW o \in Entries, NEW e \in Entries, NEW k \in Int,
         Market!Known(o.cap), Market!Known(e.cap),
         Market!AtLeast(Market!Minus(e.cap, o.cap), Market!Whole(k))
  PROVE  \/ Market!Misread(o) \/ Market!Misread(e)
         \/ Market!AtLeast(Market!Minus(Market!TrueCap(e), Market!TrueCap(o)), Market!Whole(k))
<1> DEFINE v == Market!TrueCap(e)
           w == Market!TrueCap(o)
<1>1. SUFFICES ASSUME ~Market!Misread(o), ~Market!Misread(e)
               PROVE  Market!AtLeast(Market!Minus(v, w), Market!Whole(k))
  OBVIOUS
<1> HIDE DEF v, w
<1>2. PICK n \in Int, d \in Int : d > 0 /\ Is(e.cap, n, d) /\ Is(v, n, d)
  BY <1>1, EntryFacts DEF v
<1>3. PICK i \in Int, j \in Int : j > 0 /\ Is(o.cap, i, j) /\ Is(w, i, j)
  BY <1>1, EntryFacts DEF w
<1> DEFINE x == n * j - i * d
           y == d * j
<1>4. Is(Market!Minus(e.cap, o.cap), x, y) /\ Is(Market!Minus(v, w), x, y)
  BY <1>2, <1>3, SumIs
<1>5. x \in Int /\ y \in Int /\ y > 0 /\ Is(Market!Whole(k), k, 1)
  BY <1>2, <1>3, WholeIs
<1> HIDE DEF x, y
<1>6. Market!Atmost(Market!Whole(k), Market!Minus(e.cap, o.cap))
  BY DEF Market!AtLeast
<1>7. k * y <= x * 1
  BY <1>4, <1>5, <1>6, Comparable
<1>8. Market!Atmost(Market!Whole(k), Market!Minus(v, w))
  BY <1>4, <1>5, <1>7, Comparable
<1>9. Market!Known(Market!Minus(v, w))
  BY <1>4, <1>5, Positivity
<1> QED BY <1>8, <1>9 DEF Market!AtLeast

(* What is asked of the signal of t, on a table s.                         *)
Climbs(s, t) ==
  \E h, i, j \in DOMAIN s :
    /\ t - WindowSeconds < s[h].at /\ h < i /\ i < j /\ s[j].at = t
    /\ \/ Market!Misread(s[i]) \/ Market!Misread(s[j])
       \/ Market!AtLeast(Market!Minus(Market!TrueCap(s[j]), Market!TrueCap(s[i])),
                         Market!Whole(MinVelocity * (s[j].at - s[i].at)))

Climbing == \A t \in fired : Climbs(rows, t)

(* Rows that are added later change nothing about it.                      *)
LEMMA StillClimbs ==
  ASSUME NEW s, NEW q, NEW t, IsSeries(s), IsSeries(q), Len(s) <= Len(q),
         \A i \in 1..Len(s) : q[i] = s[i], Climbs(s, t)
  PROVE  Climbs(q, t)
<1>1. PICK h \in DOMAIN s, i \in DOMAIN s, j \in DOMAIN s :
        /\ t - WindowSeconds < s[h].at /\ h < i /\ i < j /\ s[j].at = t
        /\ \/ Market!Misread(s[i]) \/ Market!Misread(s[j])
           \/ Market!AtLeast(Market!Minus(Market!TrueCap(s[j]), Market!TrueCap(s[i])),
                             Market!Whole(MinVelocity * (s[j].at - s[i].at)))
  BY DEF Climbs
<1>2. /\ DOMAIN s = 1..Len(s) /\ DOMAIN q = 1..Len(q) /\ Len(s) \in Nat /\ Len(q) \in Nat
  BY SeriesRows
<1>3. \A k \in DOMAIN s : k \in DOMAIN q /\ q[k] = s[k]
  BY <1>2
<1>4. /\ h \in DOMAIN q /\ i \in DOMAIN q /\ j \in DOMAIN q
      /\ q[h] = s[h] /\ q[i] = s[i] /\ q[j] = s[j]
  BY <1>3
<1> QED BY <1>1, <1>4 DEF Climbs

(* The window a signal was computed from is a stretch of the table that    *)
(* ends with the row that is judged.                                       *)
LEMMA SignalClimbs ==
  ASSUME Sampled, NEW i \in 1..Len(rows),
         Market!Momentum(Market!Vector(Market!Loaded(rows[i].at), rows[i].at, WindowSeconds))
  PROVE  Climbs(rows, rows[i].at)
<1> DEFINE t == rows[i].at
           loaded == Market!Loaded(t)
           visible == Market!UpTo(loaded, t)
           again == Market!UpTo(visible, t)
           recent == Market!Within(visible, t, WindowSeconds)
           n == Len(recent)
           m == n \div 2 + 1
<1>1. /\ IsSeries(rows) /\ t \in Nat /\ WindowSeconds \in Nat /\ MarketLookback \in Nat
      /\ MinVelocity \in Nat /\ Len(rows) \in Nat /\ DOMAIN rows = 1..Len(rows)
  BY MarketTypes, SeriesRows DEF Sampled
<1>2. /\ Market!AtLeast(Market!Velocity(recent, "cap"), Market!Whole(MinVelocity))
      /\ Market!AtLeast(Market!Acceleration(recent, "cap"), Market!Whole(0))
      /\ Market!AtLeast(Market!Whole(Len(recent)), Market!Whole(3))
  BY DEF Market!Momentum, Market!Vector, Market!Observations
<1>3. loaded = Market!After(rows, t - MarketLookback - 1)
  BY DEF Market!Loaded
<1>4. recent = Market!After(again, t - WindowSeconds)
  BY DEF Market!Within
<1> HIDE DEF t, loaded, visible, again, recent
<1>5. /\ t - MarketLookback - 1 \in Int /\ t - WindowSeconds \in Int /\ t \in Int
      /\ t > t - MarketLookback - 1
  BY <1>1
<1>6. PICK k \in Nat : /\ Stretch(loaded, rows, k)
                       /\ i - k \in 1..Len(loaded)
  BY <1>1, <1>3, <1>5, AfterStretch DEF t
<1>7. /\ IsSeries(loaded) /\ loaded[i - k].at = t
  <2>1. loaded[i - k] = rows[k + (i - k)] /\ k + (i - k) = i
    BY <1>1, <1>6 DEF Stretch
  <2> QED BY <1>6, <2>1 DEF Stretch, t
<1>8. /\ Stretch(visible, loaded, 0) /\ i - k \in 1..Len(visible) /\ IsSeries(visible)
      /\ visible[i - k].at = t
  <2>1. Stretch(visible, loaded, 0) /\ i - k \in 1..Len(visible)
    BY <1>5, <1>6, <1>7, UpToStretch DEF visible
  <2>2. visible[i - k] = loaded[0 + (i - k)] /\ 0 + (i - k) = i - k
    BY <1>1, <1>6, <2>1 DEF Stretch
  <2> QED BY <1>7, <2>1, <2>2 DEF Stretch
<1>9. /\ Stretch(again, visible, 0) /\ i - k \in 1..Len(again) /\ IsSeries(again)
      /\ again[i - k].at = t /\ \A e \in 1..Len(again) : again[e].at <= t
  <2>1. /\ Stretch(again, visible, 0) /\ i - k \in 1..Len(again)
        /\ \A e \in 1..Len(again) : again[e].at <= t
    BY <1>5, <1>8, UpToStretch DEF again
  <2>2. again[i - k] = visible[0 + (i - k)] /\ 0 + (i - k) = i - k
    BY <1>1, <1>6, <2>1 DEF Stretch
  <2> QED BY <1>8, <2>1, <2>2 DEF Stretch
<1>10. PICK l \in Nat :
         /\ Stretch(recent, again, l)
         /\ \A e \in 1..Len(recent) : recent[e].at > t - WindowSeconds
         /\ \A e \in 1..Len(again) : again[e].at > t - WindowSeconds => e - l \in 1..Len(recent)
  BY <1>4, <1>5, <1>9, AfterStretch
<1>11. IsSeries(recent) /\ n \in Nat /\ n >= 3
  <2>1. IsSeries(recent) /\ Len(recent) \in Nat
    BY <1>10, SeriesRows DEF Stretch
  <2>2. 3 * 1 <= Len(recent) * 1
    BY <1>2 DEF Market!AtLeast, Market!Atmost, Market!Whole
  <2> QED BY <2>1, <2>2
<1>12. ASSUME NEW e \in 1..n PROVE recent[e] = again[l + e] /\ l + e \in 1..Len(again)
  <2>1. Len(again) \in Nat
    BY <1>9, SeriesRows
  <2> QED BY <1>10, <1>11, <2>1 DEF Stretch
<1>13. ASSUME NEW e \in 1..n PROVE recent[e].at <= t /\ recent[e].at > t - WindowSeconds
                                   /\ recent[e].at \in Nat
  BY <1>9, <1>10, <1>11, <1>12, SeriesRows
<1>14. recent[n].at = t
  <2>1. t > t - WindowSeconds
    <3>1. 1 \in 1..n
      BY <1>11
    <3>2. recent[1].at <= t /\ recent[1].at > t - WindowSeconds /\ recent[1].at \in Nat
      BY <1>13, <3>1
    <3> QED BY <1>5, <3>2
  <2> DEFINE e == (i - k) - l
  <2>2. e \in 1..n /\ l + e = i - k
    <3>1. again[i - k].at > t - WindowSeconds
      BY <1>9, <2>1
    <3>2. e \in 1..Len(recent)
      BY <1>9, <1>10, <3>1
    <3> QED BY <1>1, <1>6, <1>10, <3>2
  <2> HIDE DEF e
  <2>3. recent[e].at = t
    BY <1>9, <1>12, <2>2
  <2>4. n \in 1..n
    BY <1>11
  <2>5. e = n \/ recent[e].at < recent[n].at
    BY <1>11, <2>2, <2>4 DEF IsSeries, InOrder
  <2> QED BY <1>1, <1>13, <2>3, <2>4, <2>5
<1> DEFINE f == ((k + 0) + 0) + l
<1>15. Stretch(recent, rows, f)
  <2>1. Stretch(visible, rows, k + 0)
    BY <1>1, <1>6, <1>8, StretchOfStretch
  <2>2. Stretch(again, rows, (k + 0) + 0)
    BY <1>1, <1>9, <2>1, StretchOfStretch
  <2> QED BY <1>1, <1>10, <2>2, StretchOfStretch
<1>16. f \in Nat /\ f + n <= Len(rows)
  BY <1>15 DEF Stretch
<1> HIDE DEF f
<1>17. /\ 1 < m /\ m < n /\ m \in Nat
       /\ Market!Known(recent[m].cap) /\ Market!Known(recent[n].cap)
       /\ Market!AtLeast(Market!Minus(recent[n].cap, recent[m].cap),
                         Market!Whole(MinVelocity * (recent[n].at - recent[m].at)))
  BY <1>2, <1>11, MomentumClimbs
<1> HIDE DEF n, m
<1>18. 1 \in 1..n /\ m \in 1..n /\ n \in 1..n
  BY <1>11, <1>17
<1>19. /\ recent[1] = rows[f + 1] /\ recent[m] = rows[f + m] /\ recent[n] = rows[f + n]
       /\ f + 1 \in DOMAIN rows /\ f + m \in DOMAIN rows /\ f + n \in DOMAIN rows
  BY <1>1, <1>11, <1>15, <1>16, <1>17, <1>18 DEF Stretch, n
<1>20. \/ Market!Misread(recent[m]) \/ Market!Misread(recent[n])
       \/ Market!AtLeast(Market!Minus(Market!TrueCap(recent[n]), Market!TrueCap(recent[m])),
                         Market!Whole(MinVelocity * (recent[n].at - recent[m].at)))
  <2>1. recent[m] \in Entries /\ recent[n] \in Entries
    BY <1>11, <1>18, SeriesRows DEF n
  <2>2. recent[m].at \in Nat /\ recent[n].at \in Nat
    BY <2>1, EntryFacts
  <2>3. MinVelocity * (recent[n].at - recent[m].at) \in Int
    BY <1>1, <2>2
  <2> QED BY <1>17, <2>1, <2>3, TrueRise
<1>21. f + 1 < f + m /\ f + m < f + n
  BY <1>11, <1>16, <1>17
<1>22. t - WindowSeconds < rows[f + 1].at
  <2>1. recent[1].at > t - WindowSeconds /\ recent[1].at \in Nat
    BY <1>13, <1>18
  <2> QED BY <1>5, <1>19, <2>1
<1>23. rows[f + n].at = t
  BY <1>14, <1>19
<1> DEFINE p == f + m
           q == f + n
<1>24. \/ Market!Misread(rows[p]) \/ Market!Misread(rows[q])
       \/ Market!AtLeast(Market!Minus(Market!TrueCap(rows[q]), Market!TrueCap(rows[p])),
                         Market!Whole(MinVelocity * (rows[q].at - rows[p].at)))
  BY <1>19, <1>20
<1>25. Climbs(rows, t)
  BY <1>19, <1>21, <1>22, <1>23, <1>24 DEF Climbs
<1> QED BY <1>25 DEF t

(* A signal is about a token that is climbing as far as was known then.    *)
(* Momentum itself speaks of a velocity over the whole window and of the   *)
(* change between its halves; that a rise of the asked speed between two   *)
(* given snapshots follows, for every threshold, window and supply, is the *)
(* argument of LaterHalfRises.  Whatever is missing from a snapshot, the   *)
(* two it is about have their reserves and supply, and the rise between    *)
(* their recorded caps is one of the market unless the decimals of sol     *)
(* were missing too and are not the default ones (TrueRise).               *)
THEOREM ClimbsAlwaysWhenSignalled == Market!Spec => []ClimbingWhenSignalled
<1>1. Market!Init => Climbing
  BY DEF Market!Init, Climbing
<1>2. ASSUME Sampled, Sampled', Climbing, [Market!Next]_(Market!vars) PROVE Climbing'
  <2>1. CASE UNCHANGED <<rows, fired>>
    BY <1>2, <2>1 DEF Climbing, Climbs
  <2>2. CASE Market!Observe
    <3>1. fired' = fired
      BY <2>2 DEF Market!Observe
    <3>2. /\ IsSeries(rows) /\ IsSeries(rows') /\ Len(rows') = Len(rows) + 1 /\ Len(rows) \in Nat
          /\ \A i \in 1..Len(rows) : rows'[i] = rows[i]
      BY <1>2, <2>2, Sampling, SeriesRows DEF Sampled
    <3>3. ASSUME NEW t \in fired PROVE Climbs(rows', t)
      <4>1. Climbs(rows, t) /\ Len(rows) <= Len(rows')
        BY <1>2, <3>2, <3>3 DEF Climbing
      <4> QED BY <3>2, <4>1, StillClimbs
    <3>4. \A t \in fired' : Climbs(rows', t)
      BY <3>1, <3>3
    <3>5. \A t : Climbs(rows', t) => Climbs(rows, t)'
      BY DEF Climbs
    <3> QED BY <3>4, <3>5 DEF Climbing
  <2>3. ASSUME NEW i \in DOMAIN rows, Market!Evaluate(i) PROVE Climbing'
    <3> DEFINE moment == rows[i].at
               features == Market!Vector(Market!Loaded(moment), moment, WindowSeconds)
    <3>1. /\ rows' = rows
          /\ \/ fired' = fired
             \/ fired' = fired \cup {moment} /\ Market!Momentum(features)
      BY <2>3 DEF Market!Evaluate
    <3>2. i \in 1..Len(rows)
      BY <1>2, SeriesRows DEF Sampled
    <3>3. Market!Momentum(features) => Climbs(rows, moment)
      BY <1>2, <3>2, SignalClimbs
    <3>4. \A t \in fired' : Climbs(rows, t)
      BY <1>2, <3>1, <3>3 DEF Climbing
    <3> QED BY <3>1, <3>4 DEF Climbing, Climbs
  <2>4. Market!Tick \/ Market!Trade => UNCHANGED <<rows, fired>>
    BY DEF Market!Tick, Market!Trade
  <2>5. UNCHANGED Market!vars => UNCHANGED <<rows, fired>>
    BY DEF Market!vars
  <2> QED BY <1>2, <2>1, <2>2, <2>3, <2>4, <2>5 DEF Market!Next
<1>3. Climbing => ClimbingWhenSignalled
  BY DEF Climbing, Climbs, ClimbingWhenSignalled, Market!ClimbingWhenSignalled
<1> QED BY <1>1, <1>2, <1>3, MarketAlways, PTL DEF Market!Spec

-----------------------------------------------------------------------------
(* The types.                                                              *)

(* Of finitely many numbers one is the greatest.                           *)
LEMMA GreatestNumber ==
  ASSUME NEW S, IsFiniteSet(S), S # {}, \A v \in S : v \in Numbers /\ v.den > 0
  PROVE  \E v \in S : \A w \in S : Market!Atmost(w, v)
<1>1. ASSUME NEW v \in S, NEW w \in S PROVE Market!Atmost(v, w) \/ Market!Atmost(w, v)
  <2> DEFINE a == v.num * w.den
             b == w.num * v.den
  <2>1. a \in Int /\ b \in Int
    BY DEF Numbers
  <2> HIDE DEF a, b
  <2>2. a <= b \/ b <= a
    BY <2>1
  <2> QED BY <2>2 DEF Market!Atmost, a, b
<1>2. ASSUME NEW u \in S, NEW v \in S, NEW w \in S, Market!Atmost(u, v), Market!Atmost(v, w)
      PROVE  Market!Atmost(u, w)
  <2> DEFINE a == u.num
             b == v.num
             c == w.num
             p == u.den
             q == v.den
             r == w.den
  <2>1. /\ a \in Int /\ b \in Int /\ c \in Int /\ p \in Int /\ q \in Int /\ r \in Int
        /\ p > 0 /\ q > 0 /\ r > 0
    BY DEF Numbers
  <2>2. a * q <= b * p /\ b * r <= c * q
    BY <1>2 DEF Market!Atmost
  <2> HIDE DEF a, b, c, p, q, r
  <2>3. (a * q) * r <= (b * p) * r
    BY <2>1, <2>2
  <2>4. (b * r) * p <= (c * q) * p
    BY <2>1, <2>2
  <2>5. (a * q) * r = (a * r) * q /\ (b * p) * r = (b * r) * p /\ (c * q) * p = (c * p) * q
    BY <2>1
  <2> DEFINE x == a * r
             y == c * p
             z == (b * r) * p
  <2>6. x * q <= z /\ z <= y * q /\ x \in Int /\ y \in Int /\ z \in Int
    BY <2>1, <2>3, <2>4, <2>5
  <2> HIDE DEF x, y, z
  <2>7. x * q <= y * q
    BY <2>1, <2>6
  <2>8. x <= y
    BY <2>1, <2>6, <2>7
  <2> QED BY <2>8 DEF Market!Atmost, a, c, p, r, x, y
<1> DEFINE C == {T \in SUBSET S : T # {} => \E v \in T : \A w \in T : Market!Atmost(w, v)}
<1>3. ASSUME NEW T \in SUBSET S, \A U \in SUBSET T : U # T => U \in C
      PROVE  T \in C
  <2>1. SUFFICES ASSUME T # {} PROVE \E v \in T : \A w \in T : Market!Atmost(w, v)
    OBVIOUS
  <2>2. PICK x : x \in T
    BY <2>1
  <2> DEFINE U == T \ {x}
  <2>3. CASE U = {}
    <3>1. \A w \in T : w = x
      BY <2>3
    <3> QED BY <1>1, <2>2, <3>1
  <2>4. CASE U # {}
    <3>1. U \in C
      BY <1>3, <2>2
    <3>2. PICK y \in U : \A w \in U : Market!Atmost(w, y)
      BY <2>4, <3>1
    <3>3. x \in S /\ y \in S /\ y \in T /\ \A w \in T : w \in S /\ (w = x \/ w \in U)
      BY <2>2
    <3> HIDE DEF U
    <3>4. CASE Market!Atmost(x, y)
      BY <3>2, <3>3, <3>4
    <3>5. CASE Market!Atmost(y, x)
      <4>1. \A w \in T : Market!Atmost(w, x)
        BY <1>1, <1>2, <3>2, <3>3, <3>5
      <4> QED BY <2>2, <4>1
    <3> QED BY <1>1, <3>3, <3>4, <3>5
  <2> QED BY <2>3, <2>4
<1>4. \A T \in SUBSET S : T \in C
  <2> HIDE DEF C
  <2> QED BY <1>3, SubsetInduction
<1>5. S \in C
  BY <1>4
<1> QED BY <1>5

(* The drawdown is how far below its peak the cap is, which is no less     *)
(* than nothing and, as no cap is negative, no more than all of it.        *)
LEMMA DrawdownIsShare ==
  ASSUME NEW s, IsSeries(s)
  PROVE  Market!Percent(Market!Drawdown(s))
<1> DEFINE caps == Market!Caps(s)
           peak == Market!Peak(s)
           latest == Market!Latest(s, "cap")
           fallen == Market!Minus(peak, latest)
           drawdown == Market!Drawdown(s)
<1>1. SUFFICES ASSUME Market!Known(drawdown)
               PROVE  /\ Market!Atmost(Market!Whole(0), drawdown)
                      /\ Market!Atmost(drawdown, Market!Whole(1))
  BY DEF Market!Percent
<1>2. drawdown = Market!Over(fallen, peak)
  BY DEF Market!Drawdown
<1>3. Len(s) \in Nat /\ DOMAIN s = 1..Len(s) /\ \A i \in 1..Len(s) : s[i] \in Entries
  BY SeriesRows
<1>4. \A v \in caps : v \in Numbers /\ v.den > 0 /\ v.num >= 0
  <2>1. ASSUME NEW i \in 1..Len(s), Market!Known(s[i].cap)
        PROVE  s[i].cap \in Numbers /\ s[i].cap.den > 0 /\ s[i].cap.num >= 0
    BY <1>3, <2>1, EntryFacts, KnownNumber
  <2> QED BY <1>3, <2>1 DEF Market!Caps
<1>5. IsFiniteSet(caps)
  <2> DEFINE all == {s[i].cap : i \in 1..Len(s)}
  <2>1. IsFiniteSet(1..Len(s))
    BY <1>3, FS_Interval
  <2>2. IsFiniteSet(all)
    <3>1. [i \in 1..Len(s) |-> s[i].cap] \in Surjection(1..Len(s), all)
      BY DEF Surjection
    <3> QED BY <2>1, <3>1, FS_Surjection
  <2>3. caps \subseteq all
    BY <1>3 DEF Market!Caps
  <2> HIDE DEF all, caps
  <2> QED BY <2>2, <2>3, FS_Subset
<1> HIDE DEF drawdown
<1>6. Market!Known(peak)
  <2>1. Market!Positive(peak)
    BY <1>1, <1>2 DEF Market!Over, Market!Known
  <2> QED BY <2>1 DEF Market!Positive
<1>7. caps # {}
  BY <1>6 DEF Market!Peak, Market!Known
<1>8. peak \in caps /\ \A w \in caps : Market!Atmost(w, peak)
  <2>1. \E v \in caps : \A w \in caps : Market!Atmost(w, v)
    <3> HIDE DEF caps
    <3> QED BY <1>4, <1>5, <1>7, GreatestNumber
  <2>2. peak = CHOOSE v \in caps : \A w \in caps : Market!Atmost(w, v)
    BY <1>7 DEF Market!Peak
  <2> QED BY <2>1, <2>2
<1> HIDE DEF peak
<1>9. latest = Market!Unknown \/ (s # <<>> /\ latest = s[Len(s)].cap)
  BY DEF Market!Latest, Market!Last
<1>10. latest \in Numbers
  <2>1. s # <<>> => Len(s) \in 1..Len(s)
    BY <1>3, EmptySeq
  <2>2. Market!Unknown \in Numbers
    BY DEF Market!Unknown, Numbers
  <2> QED BY <1>3, <1>9, <2>1, <2>2, EntryFacts
<1>11. Market!Known(latest)
  <2>1. fallen \in Numbers /\ peak \in Numbers
    BY <1>4, <1>8, <1>10, NumbersClosed
  <2>2. Market!Known(fallen)
    BY <1>1, <1>2, <2>1, NumbersClosed, KnownNumber
  <2> QED BY <1>10, <2>1, <2>2, NumbersClosed, KnownNumber
<1>12. latest \in caps
  <2>1. s # <<>> /\ latest = s[Len(s)].cap
    BY <1>9, <1>11 DEF Market!Known
  <2>2. Len(s) \in DOMAIN s
    BY <1>3, <2>1, EmptySeq
  <2> HIDE DEF latest
  <2> QED BY <1>11, <2>1, <2>2 DEF Market!Caps
<1> HIDE DEF latest, caps
<1> DEFINE a == peak.num
           b == latest.num
           p == peak.den
           q == latest.den
<1>13. /\ a \in Int /\ b \in Int /\ p \in Int /\ q \in Int
       /\ p > 0 /\ q > 0 /\ a >= 0 /\ b >= 0
       /\ Is(peak, a, p) /\ Is(latest, b, q)
  BY <1>4, <1>8, <1>12, KnownNumber
<1>14. b * p <= a * q
  BY <1>8, <1>12 DEF Market!Atmost
<1>15. a > 0
  BY <1>1, <1>2 DEF Market!Over, Market!Positive, Market!Known
<1> HIDE DEF a, b, p, q
<1>16. Is(fallen, a * q - b * p, p * q)
  BY <1>13, SumIs
<1> DEFINE n == a * q - b * p
           d == p * q
<1>17. n \in Int /\ d \in Int /\ d > 0 /\ 0 <= n /\ n <= a * q
  <2> DEFINE x == a * q
             y == b * p
  <2>1. x \in Int /\ y \in Int /\ 0 <= y /\ y <= x
    BY <1>13, <1>14
  <2> HIDE DEF x, y
  <2>2. 0 <= x - y /\ x - y <= x /\ x - y \in Int
    BY <2>1
  <2> QED BY <1>13, <2>2 DEF x, y
<1>18. Is(fallen, n, d)
  BY <1>16
<1> HIDE DEF n, fallen
<1>19. Is(drawdown, n * p, d * a) /\ n * p \in Int /\ d * a \in Int /\ d * a > 0
  <2>1. Is(Market!Over(fallen, peak), n * p, d * a)
    BY <1>13, <1>15, <1>17, <1>18, ProductIs
  <2> HIDE DEF d
  <2> QED BY <1>2, <1>13, <1>15, <1>17, <2>1
<1>20. 0 * (d * a) <= (n * p) * 1 /\ (n * p) * 1 <= 1 * (d * a)
  <2>1. 0 <= n * p
    BY <1>13, <1>17
  <2>2. n * p <= (a * q) * p
    <3> DEFINE y == a * q
    <3>1. y \in Int /\ n <= y
      BY <1>13, <1>17
    <3> HIDE DEF y
    <3>2. n * p <= y * p
      BY <1>13, <1>17, <3>1
    <3> QED BY <3>2 DEF y
  <2>3. (a * q) * p = d * a
    BY <1>13
  <2> HIDE DEF d
  <2> QED BY <1>19, <2>1, <2>2, <2>3
<1> HIDE DEF d
<1> QED BY <1>19, <1>20, Comparable, WholeIs

(* The intervals in which the price moved are among those that are known.  *)
LEMMA MovementIsShare ==
  ASSUME NEW s, IsSeries(s)
  PROVE  Market!Percent(Market!MovementRatio(s))
<1> DEFINE known(i) == Market!Known(s[i].price) /\ Market!Known(s[i + 1].price)
           intervals == {i \in 1 .. Len(s) - 1 : known(i)}
           moved == {i \in intervals : s[i].price # s[i + 1].price}
           a == Cardinality(moved)
           b == Cardinality(intervals)
           v == Market!MovementRatio(s)
<1>1. v = Market!Over(Market!Whole(a), Market!Whole(b))
  BY DEF Market!MovementRatio, Market!Cardinality, Cardinality
<1>2. a \in Nat /\ b \in Nat /\ a <= b
  <2>1. Len(s) - 1 \in Int
    BY SeriesRows
  <2>2. IsFiniteSet(1 .. Len(s) - 1) /\ intervals \subseteq 1 .. Len(s) - 1
    BY <2>1, FS_Interval
  <2>3. IsFiniteSet(intervals) /\ moved \subseteq intervals
    <3> HIDE DEF known
    <3> QED BY <2>2, FS_Subset
  <2> HIDE DEF intervals, moved
  <2> QED BY <2>3, FS_Subset, FS_CardinalityType
<1> HIDE DEF v, a, b
<1>3. SUFFICES ASSUME Market!Known(v)
               PROVE  Market!Atmost(Market!Whole(0), v) /\ Market!Atmost(v, Market!Whole(1))
  BY DEF Market!Percent, v
<1>4. b > 0
  BY <1>1, <1>2, <1>3 DEF Market!Over, Market!Positive, Market!Known, Market!Whole
<1>5. Is(v, a * 1, 1 * b)
  BY <1>1, <1>2, <1>4, WholeIs, ProductIs
<1>6. a * 1 \in Int /\ 1 * b \in Int /\ 1 * b > 0
      /\ 0 * (1 * b) <= (a * 1) * 1 /\ (a * 1) * 1 <= 1 * (1 * b)
  BY <1>2, <1>4
<1> QED BY <1>5, <1>6, WholeIs, Comparable

(* The longest of some gaps is no shorter than their mean and no longer    *)
(* than all of them together.                                              *)
LEMMA GapsInSpan ==
  ASSUME NEW s, IsSeries(s), Market!Known(Market!Span(s))
  PROVE  /\ Market!Atmost(Market!MeanInterval(s), Market!MaxGap(s))
         /\ Market!Atmost(Market!MaxGap(s), Market!Span(s))
<1> DEFINE n == Len(s)
           at(i) == s[i].at
           gaps == {s[i + 1].at - s[i].at : i \in 1 .. n - 1}
           gap == Market!Max(gaps)
           span == at(n) - at(1)
<1>1. n \in Nat /\ n >= 2
  BY SeriesRows DEF Market!Span, Market!Known
<1>2. /\ \A i \in 1..n : at(i) \in Nat
      /\ \A i, j \in 1..n : i < j => at(i) < at(j)
  BY SeriesRows DEF IsSeries, InOrder
<1>3. Market!Span(s) = Market!Whole(span)
  <2>1. s # <<>>
    BY <1>1, EmptySeq
  <2> QED BY <1>1, <2>1 DEF Market!Span, Market!First, Market!Last
<1>4. Market!MaxGap(s) = Market!Whole(gap)
  BY <1>1 DEF Market!MaxGap
<1>5. Market!MeanInterval(s) = Market!Over(Market!Whole(span), Market!Whole(n - 1))
  BY <1>3 DEF Market!MeanInterval
<1> HIDE DEF n, at
<1>6. \A i \in 1 .. n - 1 : i \in 1..n /\ i + 1 \in 1..n /\ s[i + 1].at - s[i].at \in Int
  BY <1>1, <1>2 DEF at
<1>7. gaps \subseteq Int /\ gaps # {} /\ IsFiniteSet(gaps)
  <2>1. gaps \subseteq Int
    BY <1>6
  <2>2. 1 \in 1 .. n - 1
    BY <1>1
  <2>3. IsFiniteSet(1 .. n - 1)
    BY <1>1, FS_Interval
  <2>4. IsFiniteSet(gaps)
    <3>1. [i \in 1 .. n - 1 |-> s[i + 1].at - s[i].at] \in Surjection(1 .. n - 1, gaps)
      BY DEF Surjection
    <3> QED BY <2>3, <3>1, FS_Surjection
  <2> QED BY <2>1, <2>2, <2>4
<1>8. gap \in gaps /\ \A g \in gaps : g <= gap
  <2> HIDE DEF gaps
  <2>1. PICK m : m \in gaps /\ \A g \in gaps : g <= m
    BY <1>7, MaxOfSet, Zenon
  <2>2. \A g \in gaps : m >= g
    BY <1>7, <2>1
  <2> QED BY <1>7, <2>1, <2>2 DEF Market!Max
<1> HIDE DEF gap
<1>9. gap \in Int /\ \A i \in 1 .. n - 1 : at(i + 1) - at(i) <= gap
  BY <1>7, <1>8 DEF at
<1>10. span \in Int /\ gap <= span
  <2>1. PICK i \in 1 .. n - 1 : gap = at(i + 1) - at(i)
    BY <1>8 DEF at
  <2>2. 1 \in 1..n /\ n \in 1..n /\ i \in 1..n /\ i + 1 \in 1..n
        /\ (i = 1 \/ 1 < i) /\ (i + 1 = n \/ i + 1 < n)
    BY <1>1
  <2>3. /\ at(1) \in Nat /\ at(i) \in Nat /\ at(i + 1) \in Nat /\ at(n) \in Nat
        /\ at(1) <= at(i) /\ at(i + 1) <= at(n)
    BY <1>2, <2>2
  <2> QED BY <2>1, <2>3
<1>11. span <= gap * (n - 1)
  <2> DEFINE C == {k \in Nat : k <= n - 1 => at(k + 1) - at(1) <= gap * k}
  <2>1. 0 \in C
    <3>1. 1 \in 1..n /\ at(1) \in Nat
      BY <1>1, <1>2
    <3> QED BY <1>9, <3>1
  <2>2. ASSUME NEW k \in Nat, k \in C PROVE k + 1 \in C
    <3>1. SUFFICES ASSUME k + 1 <= n - 1 PROVE at((k + 1) + 1) - at(1) <= gap * (k + 1)
      OBVIOUS
    <3>2. k <= n - 1 /\ k + 1 \in 1 .. n - 1
      BY <1>1, <3>1
    <3>3. at(k + 1) - at(1) <= gap * k
      BY <2>2, <3>2
    <3>4. at((k + 1) + 1) - at(k + 1) <= gap
      BY <1>9, <3>2
    <3>5. at(1) \in Nat /\ at(k + 1) \in Nat /\ at((k + 1) + 1) \in Nat
      <4>1. 1 \in 1..n /\ k + 1 \in 1..n /\ (k + 1) + 1 \in 1..n
        BY <1>1, <3>2
      <4> QED BY <1>2, <4>1
    <3>6. gap * (k + 1) = gap * k + gap /\ gap * k \in Int
      BY <1>9
    <3> QED BY <1>9, <3>3, <3>4, <3>5, <3>6
  <2>3. \A k \in Nat : k \in C
    <3> HIDE DEF C
    <3> QED BY <2>1, <2>2, NaturalInduction
  <2>4. n - 1 \in C /\ (n - 1) + 1 = n
    BY <1>1, <2>3
  <2> QED BY <2>4
<1> HIDE DEF span
<1> DEFINE m == n - 1
<1>12. m \in Int /\ m > 0 /\ gap * m \in Int /\ span <= gap * m
  BY <1>1, <1>9, <1>11
<1>13. Market!MeanInterval(s) = Market!Over(Market!Whole(span), Market!Whole(m))
  BY <1>5
<1> HIDE DEF m
<1>14. Is(Market!MeanInterval(s), span * 1, 1 * m)
  BY <1>10, <1>12, <1>13, WholeIs, ProductIs
<1>15. /\ span * 1 \in Int /\ 1 * m \in Int /\ 1 * m > 0 /\ (span * 1) * 1 <= gap * (1 * m)
       /\ gap * 1 <= span * 1
  BY <1>9, <1>10, <1>12
<1>16. Market!Atmost(Market!MeanInterval(s), Market!Whole(gap))
  BY <1>9, <1>14, <1>15, WholeIs, Comparable
<1>17. Market!Atmost(Market!Whole(gap), Market!Whole(span))
  BY <1>9, <1>10, <1>15, WholeIs, Comparable
<1> QED BY <1>3, <1>4, <1>16, <1>17

LEMMA MarketTyped == Market!Spec => []Market!TypeOK
<1>1. ASSUME Sampled, Observed PROVE Market!TypeOK
  <2> DEFINE visible == Market!UpTo(rows, time)
             recent == Market!Within(visible, time, WindowSeconds)
             vector == Market!Vector(rows, time, WindowSeconds)
  <2>1. /\ vector.drawdown = Market!Drawdown(visible)
        /\ vector.movement = Market!MovementRatio(recent)
        /\ vector.span = Market!Span(visible) /\ vector.mean = Market!MeanInterval(visible)
        /\ vector.gap = Market!MaxGap(visible)
    BY DEF Market!Vector
  <2>2. time \in Nat /\ time \in Int /\ time - WindowSeconds \in Int /\ IsSeries(rows)
    BY <1>1, MarketTypes DEF Sampled
  <2> HIDE DEF visible, recent, vector
  <2>3. IsSeries(visible)
    BY <2>2, UpToStretch DEF visible, Stretch
  <2>4. IsSeries(recent)
    <3>1. IsSeries(Market!UpTo(visible, time))
      BY <2>2, <2>3, UpToStretch DEF Stretch
    <3>2. IsSeries(Market!After(Market!UpTo(visible, time), time - WindowSeconds))
      BY <2>2, <3>1, AfterStretch DEF Stretch
    <3> QED BY <3>2 DEF recent, Market!Within
  <2>5. /\ Market!Percent(vector.drawdown) /\ Market!Percent(vector.movement)
        /\ Market!Known(vector.span) => /\ Market!Atmost(vector.mean, vector.gap)
                                        /\ Market!Atmost(vector.gap, vector.span)
    BY <2>1, <2>3, <2>4, DrawdownIsShare, MovementIsShare, GapsInSpan
  <2>6. DOMAIN rows = 1..Len(rows)
    BY <2>2, SeriesRows
  <2>7. /\ time \in 0..MarketTime /\ curve \in Curves /\ traded \in 0..time
        /\ \A i, j \in DOMAIN rows : i < j => rows[i].at < rows[j].at
        /\ observed \in {-1} \cup {rows[i].at : i \in DOMAIN rows}
        /\ fired \subseteq 0..observed
    BY <1>1, <2>6 DEF Sampled, Observed, IsSeries, InOrder
  <2> QED BY <2>5, <2>7 DEF Market!TypeOK, vector
<1> QED BY <1>1, MarketAlways, PTL

-----------------------------------------------------------------------------
(* The loop beside its market: each rests while the other moves, so what   *)
(* is proved of one of them alone holds of the whole.                      *)

LEMMA PartsAreParts == PartsSpec => Spec /\ Market!Spec
<1>1. PartsInit => Init /\ Market!Init
  BY DEF PartsInit
<1>2. [SignalsMoves \/ MarketMoves]_allVars => [Next]_vars /\ [Market!Next]_(Market!vars)
  <2>1. /\ UNCHANGED allVars => UNCHANGED <<vars, market>>
        /\ UNCHANGED market => UNCHANGED Market!vars
    BY DEF allVars, market, Market!vars
  <2>2. SignalsMoves => Next /\ UNCHANGED market
    BY DEF SignalsMoves
  <2>3. MarketMoves => Market!Next /\ UNCHANGED vars
    BY DEF MarketMoves
  <2> QED BY <2>1, <2>2, <2>3
<1> QED BY <1>1, <1>2, PTL DEF PartsSpec, Spec, Market!Spec

(* The types of the loop and of the market, whichever of them moves: among *)
(* them that a drawdown and a share of moving intervals are shares, and    *)
(* that no gap is shorter than the mean or longer than the span, for every *)
(* table that can come to be.                                              *)
THEOREM SignallingTyped == PartsSpec => []Typed
<1>1. TypeOK /\ Market!TypeOK <=> Typed
  BY DEF Typed
<1> QED BY <1>1, PartsAreParts, TypeCorrect, MarketTyped, PTL

(* Everything the runs check of the loop and its market, liveness aside,   *)
(* of the two together.                                                    *)
THEOREM SignallingAlwaysSafe ==
  PartsSpec => /\ [](Typed /\ ReplayAgrees /\ ClimbingWhenSignalled /\ RoundTripPaysTwice)
               /\ HistoryAppended
BY PartsAreParts, SignallingTyped, ReplayAlwaysAgrees, ClimbsAlwaysWhenSignalled,
   RoundTripAlwaysPaysTwice, HistoryOnlyAppended, PTL
=============================================================================
