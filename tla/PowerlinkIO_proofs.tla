------------------------- MODULE PowerlinkIO_proofs -------------------------
(***************************************************************************)
(* Proofs about PowerlinkIO, for every document, layout, byte width and    *)
(* set of threads that satisfy its assumptions.                            *)
(*                                                                         *)
(* First the library the invariant needs: recursions over the naturals     *)
(* have solutions (from the well-foundedness of <), division, powers of    *)
(* two, bits, the codec, and the channel tables. Then the inductive        *)
(* invariant IOInv, one lemma for every action, and the theorems.          *)
(***************************************************************************)
EXTENDS PowerlinkIO, SequenceTheorems, WellFoundedInduction, TLAPS

\* Every non-empty set of naturals has a least member, from the well-
\* foundedness of <.
LEMMA Least ==
  ASSUME NEW T \in SUBSET Nat, T # {}
  PROVE  \E x \in T : \A y \in T : ~(y < x)
<1> DEFINE R == OpToRel(<, Nat)
<1>1. IsWellFoundedOn(R, Nat)
  BY NatLessThanWellFounded
<1> HIDE DEF R
<1>2. \E x \in T : \A y \in T : ~(<<y, x>> \in R)
  BY <1>1, WFMin
<1> QED
  BY <1>2 DEF R, OpToRel

\* Induction on a set instead of a predicate: a set of naturals with 0 and
\* every successor is Nat.
LEMMA Induction ==
  ASSUME NEW T \in SUBSET Nat, 0 \in T, \A n \in T : n + 1 \in T
  PROVE  T = Nat
<1> SUFFICES ASSUME Nat \ T # {} PROVE FALSE
  OBVIOUS
<1>1. PICK x \in Nat \ T : \A y \in Nat \ T : ~(y < x)
  BY Least
<1>2. x - 1 \in Nat /\ x - 1 < x
  BY <1>1
<1>3. x - 1 \in T /\ (x - 1) + 1 = x
  BY <1>1, <1>2
<1> QED
  BY <1>3, <1>1

\* What a recursion has after n steps.
Follows(f, S, c, step, n) ==
  /\ f \in [0 .. n -> S]
  /\ f[0] = c
  /\ \A k \in 1 .. n : f[k] = step[<<k, f[k - 1]>>]

\* A function that follows a recursion up to n extends by one step.
LEMMA OneMoreStep ==
  ASSUME NEW S, NEW c \in S, NEW step \in [Nat \X S -> S], NEW n \in Nat, NEW f,
         Follows(f, S, c, step, n)
  PROVE  \E g : Follows(g, S, c, step, n + 1)
<1> DEFINE last == step[<<n + 1, f[n]>>]
           g == [k \in 0 .. n + 1 |-> IF k = n + 1 THEN last ELSE f[k]]
<1>1. last \in S
  <2>1. n \in 0 .. n /\ n + 1 \in Nat
    OBVIOUS
  <2>2. f[n] \in S
    BY <2>1 DEF Follows
  <2>3. <<n + 1, f[n]>> \in Nat \X S
    BY <2>1, <2>2
  <2> QED
    BY <2>3
<1> HIDE DEF last
<1>2. \A k \in 0 .. n : g[k] = f[k] /\ f[k] \in S
  BY DEF Follows
<1>3. g[n + 1] = last
  OBVIOUS
<1>4. g \in [0 .. n + 1 -> S]
  <2>1. \A k \in 0 .. n + 1 : k = n + 1 \/ k \in 0 .. n
    OBVIOUS
  <2> QED
    BY <1>1, <1>2, <1>3, <2>1
<1> HIDE DEF g
<1>5. g[0] = c
  BY <1>2 DEF Follows
<1>6. ASSUME NEW k \in 1 .. n + 1 PROVE g[k] = step[<<k, g[k - 1]>>]
  <2>1. CASE k = n + 1
    <3>1. g[n] = f[n] /\ k - 1 = n
      BY <1>2, <2>1
    <3> QED
      BY <1>3, <2>1, <3>1 DEF last
  <2>2. CASE k \in 1 .. n
    <3>1. k \in 0 .. n /\ k - 1 \in 0 .. n
      BY <2>2
    <3>2. g[k] = f[k] /\ g[k - 1] = f[k - 1]
      BY <1>2, <3>1
    <3> QED
      BY <2>2, <3>2 DEF Follows
  <2> QED
    BY <2>1, <2>2
<1> QED
  BY <1>4, <1>5, <1>6 DEF Follows

\* For every n some function follows the recursion up to n.
LEMMA RecursionUpTo ==
  ASSUME NEW S, NEW c \in S, NEW step \in [Nat \X S -> S], NEW n \in Nat
  PROVE  \E f : Follows(f, S, c, step, n)
<1> DEFINE T == {m \in Nat : \E f : Follows(f, S, c, step, m)}
<1>1. 0 \in T
  <2>1. Follows([k \in 0 .. 0 |-> c], S, c, step, 0)
    BY DEF Follows
  <2> QED
    BY <2>1
<1>2. \A m \in T : m + 1 \in T
  BY OneMoreStep
<1> HIDE DEF T
<1>3. T = Nat
  <2>1. T \in SUBSET Nat
    BY DEF T
  <2> QED
    BY <1>1, <1>2, <2>1, Induction
<1> QED
  BY <1>3 DEF T

\* Two functions that follow the same recursion agree where both do.
LEMMA PrefixesAgree ==
  ASSUME NEW S, NEW c, NEW step, NEW n \in Nat, NEW m \in Nat, NEW f, NEW g,
         Follows(f, S, c, step, n), Follows(g, S, c, step, m)
  PROVE  \A k \in Nat : k <= n /\ k <= m => f[k] = g[k]
<1> DEFINE T == {i \in Nat : i <= n /\ i <= m => f[i] = g[i]}
<1>1. 0 \in T
  BY DEF Follows
<1>2. ASSUME NEW i \in T PROVE i + 1 \in T
  <2> SUFFICES ASSUME i + 1 <= n, i + 1 <= m PROVE f[i + 1] = g[i + 1]
    OBVIOUS
  <2>1. f[i] = g[i]
    OBVIOUS
  <2>2. i + 1 \in 1 .. n /\ i + 1 \in 1 .. m /\ (i + 1) - 1 = i
    OBVIOUS
  <2> QED
    BY <2>1, <2>2 DEF Follows
<1> HIDE DEF T
<1>3. T = Nat
  <2>1. T \in SUBSET Nat
    BY DEF T
  <2> QED
    BY <1>1, <1>2, <2>1, Induction
<1> QED
  BY <1>3 DEF T

Recurs(f, S, c, step) ==
  /\ f \in [Nat -> S]
  /\ f[0] = c
  /\ \A k \in Nat \ {0} : f[k] = step[<<k, f[k - 1]>>]

\* A recursion over the naturals has a solution, so a recursive definition
\* is not a choice from nothing.
LEMMA Recursion ==
  ASSUME NEW S, NEW c \in S, NEW step \in [Nat \X S -> S]
  PROVE  \E f : Recurs(f, S, c, step)
<1> DEFINE g == [n \in Nat |-> CHOOSE f : Follows(f, S, c, step, n)]
           f == [n \in Nat |-> g[n][n]]
<1>1. ASSUME NEW n \in Nat PROVE Follows(g[n], S, c, step, n)
  BY RecursionUpTo, Zenon
<1> HIDE DEF g
<1>2. \A n \in Nat : f[n] = g[n][n] /\ n \in 0 .. n
  OBVIOUS
<1>3. f \in [Nat -> S]
  BY <1>1, <1>2 DEF Follows
<1> HIDE DEF f
<1>4. f[0] = c
  BY <1>1, <1>2 DEF Follows
<1>5. ASSUME NEW k \in Nat \ {0} PROVE f[k] = step[<<k, f[k - 1]>>]
  <2>1. k - 1 \in Nat /\ k - 1 <= k /\ k - 1 <= k - 1 /\ k \in 1 .. k /\ k \in Nat
    OBVIOUS
  <2>2. g[k][k - 1] = g[k - 1][k - 1]
    <3>1. PICK j, a, b : j = k - 1 /\ a = g[k] /\ b = g[j]
      OBVIOUS
    <3>2. j \in Nat /\ j <= k /\ j <= j
      BY <2>1, <3>1
    <3>3. Follows(a, S, c, step, k) /\ Follows(b, S, c, step, j)
      BY <1>1, <3>1, <3>2
    <3>4. \A i \in Nat : i <= k /\ i <= j => a[i] = b[i]
      BY <2>1, <3>2, <3>3, PrefixesAgree
    <3> QED
      BY <3>1, <3>2, <3>4
  <2>3. g[k][k] = step[<<k, g[k][k - 1]>>]
    BY <1>1, <2>1 DEF Follows
  <2> QED
    BY <1>2, <2>1, <2>2, <2>3
<1> QED
  BY <1>3, <1>4, <1>5 DEF Recurs


\* Multiplication by a positive number keeps the distance of integers.
LEMMA Times ==
  ASSUME NEW a \in Nat \ {0}, NEW p \in Int, NEW q \in Int, p < q
  PROVE  a * p + a <= a * q
<1>1. PICK d \in Nat \ {0} : q = p + d
  <2>1. q - p \in Nat \ {0} /\ q = p + (q - p)
    OBVIOUS
  <2> QED
    BY <2>1
<1>2. a * (p + d) = a * p + a * d /\ a * d \in Int /\ a * p \in Int
  BY <1>1
<1>3. a * d >= a
  BY <1>1
<1> QED
  BY <1>1, <1>2, <1>3

\* Euclidean division: quotient, remainder, and how they make up the
\* dividend.
LEMMA Division ==
  ASSUME NEW v \in Int, NEW a \in Nat \ {0}
  PROVE  /\ v \div a \in Int /\ v % a \in 0 .. a - 1
         /\ v = a * (v \div a) + (v % a)
OBVIOUS

\* Quotient and remainder are determined by that equation.
LEMMA DivisionUnique ==
  ASSUME NEW v \in Int, NEW a \in Nat \ {0}, NEW q \in Int, NEW r \in 0 .. a - 1,
         v = a * q + r
  PROVE  v \div a = q /\ v % a = r
<1> DEFINE p == v \div a
           s == v % a
<1>1. p \in Int /\ s \in 0 .. a - 1 /\ v = a * p + s
  BY Division
<1> HIDE DEF p, s
<1>0. a * p \in Int /\ a * q \in Int
  BY <1>1
<1>2. ~(p < q)
  BY <1>0, <1>1, Times
<1>3. ~(q < p)
  BY <1>0, <1>1, Times
<1>4. p = q
  BY <1>1, <1>2, <1>3
<1>5. r = s
  BY <1>0, <1>1, <1>4
<1> QED
  BY <1>4, <1>5 DEF p, s

\* v div a div b
LEMMA DivisionTwice ==
  ASSUME NEW v \in Int, NEW a \in Nat \ {0}, NEW b \in Nat \ {0}
  PROVE  /\ a * b \in Nat \ {0}
         /\ v \div (a * b) = (v \div a) \div b
         /\ v % (a * b) = (v % a) + a * ((v \div a) % b)
<1> DEFINE q == v \div a
           r == v % a
           p == q \div b
           s == q % b
<1>1. q \in Int /\ r \in 0 .. a - 1 /\ v = a * q + r
  BY Division
<1> HIDE DEF q, r
<1>2. p \in Int /\ s \in 0 .. b - 1 /\ q = b * p + s
  BY <1>1, Division
<1> HIDE DEF p, s
<1>3. a * b \in Nat \ {0}
  OBVIOUS
<1>4. v = (a * b) * p + (r + a * s)
  <2>1. a * (b * p + s) = a * (b * p) + a * s
    BY <1>2
  <2>2. a * (b * p) = (a * b) * p
    BY <1>2
  <2> QED
    BY <1>1, <1>2, <2>1, <2>2
<1>5. r + a * s \in 0 .. (a * b) - 1
  <2>1. a * s + a <= a * b
    BY <1>2, Times
  <2>2. a * s \in Nat
    BY <1>2
  <2> QED
    BY <1>1, <1>3, <2>1, <2>2
<1>6. v \div (a * b) = p /\ v % (a * b) = r + a * s
  BY <1>2, <1>3, <1>4, <1>5, DivisionUnique
<1> QED
  BY <1>3, <1>6 DEF p, q, r, s

\* Dividing by a product is dividing twice.
LEMMA QuotientTwice ==
  ASSUME NEW v \in Int, NEW a \in Nat \ {0}, NEW b \in Nat \ {0}
  PROVE  v \div (a * b) = (v \div a) \div b
<1>1. /\ a * b \in Nat \ {0}
      /\ v \div (a * b) = (v \div a) \div b
      /\ v % (a * b) = (v % a) + a * ((v \div a) % b)
  BY DivisionTwice, Zenon
<1> QED
  BY <1>1, Zenon

\* Integers that agree above a bit agree in every higher bit.
LEMMA HigherQuotient ==
  ASSUME NEW v \in Int, NEW w \in Int, NEW a \in Nat \ {0}, NEW b \in Nat \ {0},
         (w \div a) \div 2 = (v \div a) \div 2
  PROVE  w \div (a * (2 * b)) = v \div (a * (2 * b))
<1>1. PICK d \in Nat \ {0} : d = 2 * b
  OBVIOUS
<1>2. PICK p \in Int, q \in Int : p = w \div a /\ q = v \div a
  BY Division
<1>3. w \div (a * d) = (w \div a) \div d /\ v \div (a * d) = (v \div a) \div d
  BY QuotientTwice, Zenon
<1>4. p \div (2 * b) = (p \div 2) \div b /\ q \div (2 * b) = (q \div 2) \div b
  <2>1. 2 \in Nat \ {0}
    OBVIOUS
  <2> QED
    BY <2>1, QuotientTwice, Zenon
<1> QED
  BY <1>1, <1>2, <1>3, <1>4

\* Adding a multiple of the divisor moves the quotient and keeps the
\* remainder.
LEMMA DivisionShift ==
  ASSUME NEW v \in Int, NEW a \in Nat \ {0}, NEW c \in Int
  PROVE  /\ a * c \in Int
         /\ (v + a * c) \div a = v \div a + c
         /\ (v + a * c) % a = v % a
<1> DEFINE q == v \div a
           r == v % a
<1>1. q \in Int /\ r \in 0 .. a - 1 /\ v = a * q + r
  BY Division
<1> HIDE DEF q, r
<1>2. a * c \in Int /\ a * q \in Int /\ a * (q + c) = a * q + a * c
  BY <1>1
<1>3. v + a * c \in Int /\ v + a * c = a * (q + c) + r /\ q + c \in Int
  BY <1>1, <1>2
<1>4. (v + a * c) \div a = q + c /\ (v + a * c) % a = r
  BY <1>1, <1>3, DivisionUnique
<1> QED
  BY <1>2, <1>4 DEF q, r
\* TwoTo is the power of two that its recursive definition describes.
LEMMA PowersOfTwo ==
  /\ TwoTo \in [Nat -> Nat]
  /\ TwoTo[0] = 1
  /\ \A n \in Nat \ {0} : TwoTo[n] = 2 * TwoTo[n - 1]
<1> DEFINE step == [kv \in Nat \X Nat |-> 2 * kv[2]]
<1>1. step \in [Nat \X Nat -> Nat]
  OBVIOUS
<1>2. \A k \in Nat, v \in Nat : step[<<k, v>>] = 2 * v
  OBVIOUS
<1> HIDE DEF step
<1>3. PICK p : Recurs(p, Nat, 1, step)
  BY <1>1, Recursion
<1>4. p = [n \in Nat |-> IF n = 0 THEN 1 ELSE 2 * p[n - 1]]
  <2>1. \A k \in Nat \ {0} : k \in Nat /\ p[k - 1] \in Nat
    BY <1>3 DEF Recurs
  <2>2. \A k \in Nat \ {0} : p[k] = 2 * p[k - 1]
    BY <1>2, <1>3, <2>1 DEF Recurs
  <2> QED
    BY <1>3, <2>2 DEF Recurs
<1>5. TwoTo = [n \in Nat |-> IF n = 0 THEN 1 ELSE 2 * TwoTo[n - 1]]
  BY <1>4, Zenon DEF TwoTo
<1>6. ASSUME NEW n \in Nat PROVE TwoTo[n] = IF n = 0 THEN 1 ELSE 2 * TwoTo[n - 1]
  BY <1>5, Zenon
<1> DEFINE T == {n \in Nat : TwoTo[n] \in Nat}
<1>7. T = Nat
  <2>1. 0 \in T
    BY <1>6
  <2>2. ASSUME NEW n \in T PROVE n + 1 \in T
    <3>1. n + 1 \in Nat /\ n + 1 # 0 /\ (n + 1) - 1 = n
      OBVIOUS
    <3> QED
      BY <1>6, <3>1
  <2>3. T \in SUBSET Nat
    OBVIOUS
  <2> HIDE DEF T
  <2> QED
    BY <2>1, <2>2, <2>3, Induction
<1>8. \A n \in Nat : TwoTo[n] \in Nat
  BY <1>7
<1>9. TwoTo \in [Nat -> Nat]
  BY <1>5, <1>8, Zenon
<1> QED
  BY <1>6, <1>9

\* A power of two is a positive integer.
LEMMA PowersArePositive ==
  \A n \in Nat : TwoTo[n] \in Nat \ {0}
<1> DEFINE T == {n \in Nat : TwoTo[n] # 0}
<1>1. 0 \in T
  BY PowersOfTwo
<1>2. ASSUME NEW n \in T PROVE n + 1 \in T
  <2>1. n + 1 \in Nat \ {0} /\ (n + 1) - 1 = n
    OBVIOUS
  <2>2. TwoTo[n + 1] = 2 * TwoTo[n] /\ TwoTo[n] \in Nat /\ TwoTo[n] # 0
    BY <2>1, PowersOfTwo
  <2> QED
    BY <2>1, <2>2
<1>3. T \in SUBSET Nat
  OBVIOUS
<1> HIDE DEF T
<1>4. T = Nat
  BY <1>1, <1>2, <1>3, Induction
<1> QED
  BY <1>4, PowersOfTwo DEF T

\* The law of exponents.
LEMMA PowersMultiply ==
  ASSUME NEW m \in Nat, NEW n \in Nat
  PROVE  TwoTo[m + n] = TwoTo[m] * TwoTo[n]
<1> DEFINE T == {k \in Nat : TwoTo[m + k] = TwoTo[m] * TwoTo[k]}
<1>1. 0 \in T
  <2>1. TwoTo[m] \in Nat /\ TwoTo[0] = 1 /\ m + 0 = m
    BY PowersOfTwo
  <2> QED
    BY <2>1
<1>2. ASSUME NEW k \in T PROVE k + 1 \in T
  <2>1. /\ k + 1 \in Nat \ {0} /\ (k + 1) - 1 = k
        /\ m + (k + 1) \in Nat \ {0} /\ (m + (k + 1)) - 1 = m + k
    OBVIOUS
  <2>2. /\ TwoTo[k + 1] = 2 * TwoTo[k] /\ TwoTo[m + (k + 1)] = 2 * TwoTo[m + k]
        /\ TwoTo[m] \in Nat /\ TwoTo[k] \in Nat
    BY <2>1, PowersOfTwo
  <2>3. TwoTo[m + k] = TwoTo[m] * TwoTo[k]
    OBVIOUS
  <2>4. TwoTo[m + (k + 1)] = TwoTo[m] * TwoTo[k + 1]
    <3> DEFINE a == TwoTo[m]
               b == TwoTo[k]
    <3>1. a \in Nat /\ b \in Nat
      BY <2>2
    <3> HIDE DEF a, b
    <3>2. 2 * (a * b) = a * (2 * b)
      BY <3>1
    <3> QED
      BY <2>2, <2>3, <3>2 DEF a, b
  <2> QED
    BY <2>1, <2>4
<1>3. T \in SUBSET Nat
  OBVIOUS
<1> HIDE DEF T
<1>4. T = Nat
  BY <1>1, <1>2, <1>3, Induction
<1> QED
  BY <1>4 DEF T

\* A byte and a channel of n bytes have finitely many values; no bytes have
\* one.
LEMMA BaseIsPositive ==
  /\ Base \in Nat \ {0}
  /\ \A n \in Nat : Values(n) \in Nat \ {0}
  /\ Values(0) = 1
  /\ Values(1) = Base
<1>1. ByteBits \in Nat /\ \A n \in Nat : ByteBits * n \in Nat
  BY ByteBitsAssumption
<1>2. ByteBits * 0 = 0 /\ ByteBits * 1 = ByteBits
  BY ByteBitsAssumption
<1> QED
  BY <1>1, <1>2, PowersArePositive, PowersOfTwo DEF Base, Values

\* The values of m + n bytes are pairs of those of m and of n.
LEMMA ValuesMultiply ==
  ASSUME NEW m \in Nat, NEW n \in Nat
  PROVE  Values(m + n) = Values(m) * Values(n)
<1>1. ByteBits * m \in Nat /\ ByteBits * n \in Nat /\ ByteBits * (m + n) = ByteBits * m + ByteBits * n
  BY ByteBitsAssumption
<1> QED
  BY <1>1, PowersMultiply DEF Values

\* A bit is 0 or 1 (read_di and read_do, api.py:92-97, 129-134).
LEMMA BitType ==
  ASSUME NEW v \in Int, NEW b \in Nat
  PROVE  BitOf(v, b) \in {0, 1}
<1>1. v \div TwoTo[b] \in Int
  BY PowersArePositive, Division
<1> QED
  BY <1>1 DEF BitOf

\* Adding a multiple of 2^n leaves the bits below n alone.
LEMMA HigherBitsApart ==
  ASSUME NEW v \in Int, NEW c \in Int, NEW b \in Nat, NEW n \in Nat, b < n
  PROVE  BitOf(v + TwoTo[n] * c, b) = BitOf(v, b)
<1> DEFINE d == n - b - 1
           w == TwoTo[d] * c
<1>1. d \in Nat /\ b + 1 \in Nat /\ n = (b + 1) + d /\ (b + 1) - 1 = b
  OBVIOUS
<1>2. TwoTo[d] \in Nat /\ TwoTo[b] \in Nat \ {0}
  BY <1>1, PowersArePositive
<1>3. TwoTo[b + 1] = 2 * TwoTo[b]
  BY <1>1, PowersOfTwo
<1>4. TwoTo[n] = (2 * TwoTo[b]) * TwoTo[d]
  BY <1>1, <1>3, PowersMultiply
<1>5. w \in Int
  BY <1>2
<1>6. TwoTo[n] * c = TwoTo[b] * (2 * w)
  <2> DEFINE x == TwoTo[b]
             y == TwoTo[d]
  <2>1. x \in Int /\ y \in Int
    BY <1>2
  <2> HIDE DEF x, y
  <2>2. ((2 * x) * y) * c = x * (2 * (y * c))
    BY <2>1
  <2> QED
    BY <1>4, <2>2 DEF x, y
<1> HIDE DEF d, w
<1>7. (v + TwoTo[b] * (2 * w)) \div TwoTo[b] = (v \div TwoTo[b]) + 2 * w
  <2>1. PICK x \in Nat \ {0}, y \in Int : x = TwoTo[b] /\ y = 2 * w
    BY <1>2, <1>5
  <2>2. (v + x * y) \div x = (v \div x) + y
    BY DivisionShift
  <2> QED
    BY <2>1, <2>2
<1>8. ((v \div TwoTo[b]) + 2 * w) % 2 = (v \div TwoTo[b]) % 2
  <2>1. v \div TwoTo[b] \in Int
    BY <1>2, Division
  <2> QED
    BY <1>5, <2>1
<1> QED
  BY <1>6, <1>7, <1>8 DEF BitOf

\* Adding 2^b, or taking it away, without a carry changes bit b only.
LEMMA ChangedBit ==
  ASSUME NEW v \in Int, NEW b \in Nat, NEW d \in Int,
         ((v \div TwoTo[b]) + d) \div 2 = (v \div TwoTo[b]) \div 2
  PROVE  /\ v + TwoTo[b] * d \in Int
         /\ BitOf(v + TwoTo[b] * d, b) = ((v \div TwoTo[b]) + d) % 2
         /\ \A c \in Nat \ {b} : BitOf(v + TwoTo[b] * d, c) = BitOf(v, c)
<1> DEFINE q == v \div TwoTo[b]
           w == v + TwoTo[b] * d
<1>1. TwoTo[b] \in Nat \ {0}
  BY PowersArePositive
<1>2. q \in Int /\ w \in Int
  <2>1. PICK x \in Nat \ {0} : x = TwoTo[b]
    BY <1>1
  <2>2. v \div x \in Int /\ v + x * d \in Int
    BY Division
  <2> QED
    BY <2>1, <2>2
<1>3. w \div TwoTo[b] = q + d
  BY <1>1, DivisionShift
<1>4. ASSUME NEW c \in Nat, b < c PROVE BitOf(w, c) = BitOf(v, c)
  <2> DEFINE e == c - b - 1
  <2>1. e \in Nat /\ c = b + (e + 1) /\ e + 1 \in Nat \ {0} /\ (e + 1) - 1 = e
    BY <1>4
  <2>2. TwoTo[e + 1] = 2 * TwoTo[e] /\ TwoTo[e] \in Nat \ {0} /\ TwoTo[e + 1] \in Nat \ {0}
    BY <2>1, PowersOfTwo, PowersArePositive
  <2>3. TwoTo[c] = TwoTo[b] * TwoTo[e + 1]
    BY <2>1, PowersMultiply
  <2>4. PICK x \in Nat \ {0}, y \in Nat \ {0} : x = TwoTo[b] /\ y = TwoTo[e]
    BY <1>1, <2>2
  <2>5. TwoTo[c] = x * (2 * y)
    BY <2>2, <2>3, <2>4
  <2>6. PICK u \in Int : u = w
    BY <1>2
  <2>7. (u \div x) \div 2 = (v \div x) \div 2
    BY <1>3, <2>4, <2>6
  <2>8. w \div TwoTo[c] = v \div TwoTo[c]
    <3>1. u \div (x * (2 * y)) = v \div (x * (2 * y))
      BY <2>7, HigherQuotient
    <3> QED
      BY <2>5, <2>6, <3>1
  <2> QED
    BY <2>8 DEF BitOf
<1>5. ASSUME NEW c \in Nat, c < b PROVE BitOf(w, c) = BitOf(v, c)
  BY <1>5, HigherBitsApart
<1> HIDE DEF w
<1>6. \A c \in Nat \ {b} : BitOf(w, c) = BitOf(v, c)
  BY <1>4, <1>5
<1>7. BitOf(w, b) = (q + d) % 2
  BY <1>3 DEF BitOf
<1> QED
  BY <1>2, <1>6, <1>7 DEF w

WithBit(v, b, value) == IF value = 1 THEN SetBit(v, b) ELSE ClearBit(v, b)

\* What write_do makes of a byte: the bit, and nothing but the bit, also of a
\* negative one (api.py:111-114).
THEOREM WrittenBit ==
  ASSUME NEW v \in Int, NEW b \in Nat, NEW value \in {0, 1}
  PROVE  /\ WithBit(v, b, value) \in Int
         /\ BitOf(WithBit(v, b, value), b) = value
         /\ \A c \in Nat \ {b} : BitOf(WithBit(v, b, value), c) = BitOf(v, c)
<1>0. PICK w : w = WithBit(v, b, value)
  OBVIOUS
<1> DEFINE q == v \div TwoTo[b]
           d == value - (q % 2)
<1>1. TwoTo[b] \in Nat \ {0}
  BY PowersArePositive
<1>2. q \in Int
  BY <1>1, Division
<1>3. w = v + TwoTo[b] * d
  <2>1. q % 2 \in {0, 1}
    BY <1>2
  <2>2. SetBit(v, b) = v + (1 - (q % 2)) * TwoTo[b] /\ ClearBit(v, b) = v - (q % 2) * TwoTo[b]
    BY DEF SetBit, ClearBit, BitOf
  <2> HIDE DEF q
  <2>3. CASE value = 1
    BY <1>0, <1>1, <2>1, <2>2, <2>3 DEF WithBit
  <2>4. CASE value = 0
    BY <1>0, <1>1, <2>1, <2>2, <2>4 DEF WithBit
  <2> QED
    BY <2>3, <2>4
<1>4. d \in Int /\ (q + d) \div 2 = q \div 2 /\ (q + d) % 2 = value
  <2> HIDE DEF q
  <2> QED
    BY <1>2
<1> HIDE DEF d
<1> QED
  BY <1>0, <1>3, <1>4, ChangedBit

\* Cutting an integer to a byte (& 0xFF in write_do) keeps the bits of the
\* byte.
LEMMA ByteKeepsBits ==
  ASSUME NEW v \in Int
  PROVE  /\ LowByte(v) \in 0 .. Base - 1
         /\ \A b \in 0 .. ByteBits - 1 : BitOf(LowByte(v), b) = BitOf(v, b)
<1> DEFINE c == -(v \div Base)
<1>1. Base \in Nat \ {0} /\ Base = TwoTo[ByteBits] /\ ByteBits \in Nat
  BY BaseIsPositive, ByteBitsAssumption DEF Base
<1>2. LowByte(v) \in 0 .. Base - 1 /\ v = Base * (v \div Base) + LowByte(v) /\ v \div Base \in Int
  BY <1>1, Division DEF LowByte
<1>3. LowByte(v) = v + Base * c /\ c \in Int
  BY <1>1, <1>2
<1> HIDE DEF c
<1>4. \A b \in 0 .. ByteBits - 1 : b \in Nat /\ b < ByteBits
  BY <1>1
<1>5. ASSUME NEW b \in 0 .. ByteBits - 1 PROVE BitOf(v + TwoTo[ByteBits] * c, b) = BitOf(v, b)
  BY <1>1, <1>3, <1>4, HigherBitsApart
<1> QED
  BY <1>1, <1>2, <1>3, <1>5

-----------------------------------------------------------------------------
(* The codec. *)

Sums(sum, raw) ==
  sum = [k \in 0 .. Len(raw) |-> IF k = 0 THEN 0 ELSE sum[k - 1] + raw[k] * Values(k - 1)]

\* int.from_bytes adds up the bytes by their weights (stack.py:234-238).
LEMMA MagnitudeSums ==
  ASSUME NEW raw \in Seq(Nat)
  PROVE  \E sum \in [0 .. Len(raw) -> Nat] :
           /\ sum[0] = 0
           /\ \A k \in 1 .. Len(raw) : sum[k] = sum[k - 1] + raw[k] * Values(k - 1)
           /\ Magnitude(raw) = sum[Len(raw)]
<1> DEFINE n == Len(raw)
           term(k) == raw[k] * Values(k - 1)
           step == [kv \in Nat \X Nat |->
                      IF kv[1] \in 1 .. n THEN kv[2] + term(kv[1]) ELSE 0]
<1>1. n \in Nat /\ \A k \in 1 .. n : term(k) \in Nat
  <2>1. n \in Nat /\ \A k \in 1 .. n : raw[k] \in Nat /\ k - 1 \in Nat
    OBVIOUS
  <2> HIDE DEF n, step
  <2>2. ASSUME NEW k \in 1 .. n PROVE term(k) \in Nat
    <3>1. PICK x \in Nat, y \in Nat : x = raw[k] /\ y = Values(k - 1)
      BY <2>1, BaseIsPositive
    <3>2. x * y \in Nat
      OBVIOUS
    <3> QED
      BY <3>1, <3>2
  <2> QED
    BY <2>1, <2>2
<1> HIDE DEF term
<1>2. step \in [Nat \X Nat -> Nat]
  BY <1>1
<1>3. \A k \in 1 .. n, v \in Nat : step[<<k, v>>] = v + term(k)
  BY <1>1
<1> HIDE DEF step
<1>4. PICK f : Recurs(f, Nat, 0, step)
  BY <1>2, Recursion
<1> DEFINE g == [k \in 0 .. n |-> f[k]]
<1>5. /\ g \in [0 .. n -> Nat]
      /\ g[0] = 0
      /\ \A k \in 1 .. n : g[k] = g[k - 1] + term(k)
  <2>1. g \in [0 .. n -> Nat] /\ g[0] = 0
    BY <1>1, <1>4 DEF Recurs
  <2>2. ASSUME NEW k \in 1 .. n PROVE g[k] = g[k - 1] + term(k)
    <3>1. k \in Nat \ {0} /\ k - 1 \in Nat /\ k - 1 \in 0 .. n /\ k \in 0 .. n
      BY <1>1
    <3>2. f[k] = step[<<k, f[k - 1]>>] /\ f[k - 1] \in Nat
      BY <1>4, <3>1 DEF Recurs
    <3>3. f[k] = f[k - 1] + term(k)
      BY <1>3, <3>2
    <3> QED
      BY <3>1, <3>3
  <2> QED
    BY <2>1, <2>2
<1> HIDE DEF g
<1>6. Sums(g, raw)
  <2>1. g = [k \in 0 .. n |-> IF k = 0 THEN 0 ELSE g[k - 1] + term(k)]
    <3>1. \A k \in 0 .. n : g[k] = IF k = 0 THEN 0 ELSE g[k - 1] + term(k)
      BY <1>1, <1>5
    <3> QED
      BY <1>5, <3>1
  <2> QED
    BY <2>1 DEF Sums, term
<1>7. PICK sum : Sums(sum, raw) /\ Magnitude(raw) = sum[n]
  <2>1. Sums(CHOOSE s : Sums(s, raw), raw)
    BY <1>6, Zenon
  <2>2. Magnitude(raw) = (CHOOSE s : Sums(s, raw))[n]
    BY Zenon DEF Magnitude, Sums
  <2> QED
    BY <2>1, <2>2
<1>8. /\ sum[0] = 0
      /\ \A k \in 1 .. n : sum[k] = sum[k - 1] + term(k)
  <2>1. sum = [k \in 0 .. n |-> IF k = 0 THEN 0 ELSE sum[k - 1] + term(k)]
    BY <1>7 DEF Sums, term
  <2>2. \A k \in 0 .. n : sum[k] = IF k = 0 THEN 0 ELSE sum[k - 1] + term(k)
    BY <2>1
  <2> QED
    BY <1>1, <2>2
<1> DEFINE T == {k \in Nat : k <= n => sum[k] \in Nat}
<1>9. 0 \in T
  BY <1>8
<1>10. ASSUME NEW k \in T PROVE k + 1 \in T
  <2> SUFFICES ASSUME k + 1 <= n PROVE sum[k + 1] \in Nat
    OBVIOUS
  <2>1. k + 1 \in 1 .. n /\ (k + 1) - 1 = k /\ sum[k] \in Nat
    BY <1>1
  <2>2. sum[k + 1] = sum[k] + term(k + 1) /\ term(k + 1) \in Nat
    BY <1>1, <1>8, <2>1
  <2> QED
    BY <2>1, <2>2
<1>11. T \in SUBSET Nat
  OBVIOUS
<1>12. T = Nat
  <2> HIDE DEF T
  <2> QED
    BY <1>9, <1>10, <1>11, Induction
<1>13. sum \in [0 .. n -> Nat]
  <2>1. \A k \in 0 .. n : k \in Nat /\ k <= n
    BY <1>1
  <2>2. \A k \in 0 .. n : sum[k] \in Nat
    BY <1>12, <2>1
  <2>3. sum = [k \in 0 .. n |-> sum[k]]
    BY <1>7 DEF Sums
  <2> QED
    BY <2>2, <2>3
<1> QED
  BY <1>7, <1>8, <1>13 DEF term

\* EncodeInt yields the asked number of bytes (stack.py:240-243).
LEMMA EncodedBytes ==
  ASSUME NEW v \in Int, NEW n \in Nat
  PROVE  /\ EncodeInt(v, n) \in Seq(0 .. Base - 1)
         /\ Len(EncodeInt(v, n)) = n
         /\ \A k \in 1 .. n : /\ EncodeInt(v, n)[k] = (v \div Values(k - 1)) % Base
                              /\ EncodeInt(v, n)[k] \in 0 .. Base - 1
<1>1. ASSUME NEW k \in 1 .. n PROVE (v \div Values(k - 1)) % Base \in 0 .. Base - 1
  <2>1. k - 1 \in Nat
    OBVIOUS
  <2>2. PICK a \in Nat \ {0}, b \in Nat \ {0} : a = Values(k - 1) /\ b = Base
    BY <2>1, BaseIsPositive
  <2>3. PICK q \in Int : q = v \div a
    BY Division
  <2>4. q % b \in 0 .. b - 1
    BY Division
  <2> QED
    BY <2>2, <2>3, <2>4
<1> DEFINE byte(k) == (v \div Values(k - 1)) % Base
<1>2. \A k \in 1 .. n : byte(k) \in 0 .. Base - 1
  BY <1>1
<1> HIDE DEF byte
<1>3. EncodeInt(v, n) = [k \in 1 .. n |-> byte(k)]
  BY DEF EncodeInt, byte
<1>4. EncodeInt(v, n) \in Seq(0 .. Base - 1) /\ Len(EncodeInt(v, n)) = n
  BY <1>2, <1>3
<1>5. \A k \in 1 .. n : EncodeInt(v, n)[k] = byte(k)
  BY <1>3
<1> QED
  BY <1>2, <1>4, <1>5 DEF byte

\* The bytes of v make up v modulo the number of their values.
LEMMA EncodedMagnitude ==
  ASSUME NEW v \in Int, NEW n \in Nat
  PROVE  Magnitude(EncodeInt(v, n)) = v % Values(n)
<1> DEFINE raw == EncodeInt(v, n)
<1>1. raw \in Seq(Nat) /\ Len(raw) = n
  <2>1. 0 .. Base - 1 \subseteq Nat
    OBVIOUS
  <2> QED
    BY <2>1, EncodedBytes, SeqMonotonic
<1>2. \A k \in 1 .. n : raw[k] = (v \div Values(k - 1)) % Base
  BY EncodedBytes
<1> HIDE DEF raw
<1>3. PICK sum \in [0 .. n -> Nat] :
        /\ sum[0] = 0
        /\ \A k \in 1 .. n : sum[k] = sum[k - 1] + raw[k] * Values(k - 1)
        /\ Magnitude(raw) = sum[n]
  BY <1>1, MagnitudeSums
<1> DEFINE T == {k \in Nat : k <= n => sum[k] = v % Values(k)}
<1>4. 0 \in T
  <2>1. Values(0) = 1 /\ v % 1 = 0
    BY BaseIsPositive
  <2> QED
    BY <1>3, <2>1
<1>5. ASSUME NEW k \in T PROVE k + 1 \in T
  <2> SUFFICES ASSUME k + 1 <= n PROVE sum[k + 1] = v % Values(k + 1)
    OBVIOUS
  <2>1. k \in Nat /\ k + 1 \in 1 .. n /\ (k + 1) - 1 = k /\ 1 \in Nat /\ sum[k] = v % Values(k)
    OBVIOUS
  <2>2. PICK a \in Nat \ {0}, b \in Nat \ {0} : a = Values(k) /\ b = Base
    BY <2>1, BaseIsPositive
  <2>3. Values(k + 1) = a * b
    BY <2>1, <2>2, ValuesMultiply, BaseIsPositive
  <2>4. v % (a * b) = (v % a) + a * ((v \div a) % b)
    BY DivisionTwice
  <2>5. PICK d \in Nat : d = (v \div a) % b
    <3>1. PICK q \in Int : q = v \div a
      BY Division
    <3>2. q % b \in Nat
      BY Division
    <3> QED
      BY <3>1, <3>2
  <2>6. raw[k + 1] = d
    BY <1>2, <2>1, <2>2, <2>5
  <2>7. sum[k + 1] = (v % a) + d * a
    BY <1>3, <2>1, <2>2, <2>6
  <2>8. d * a = a * d
    OBVIOUS
  <2> QED
    BY <2>3, <2>4, <2>5, <2>7, <2>8
<1>6. T \in SUBSET Nat
  OBVIOUS
<1>7. T = Nat
  <2> HIDE DEF T
  <2> QED
    BY <1>4, <1>5, <1>6, Induction
<1>8. sum[n] = v % Values(n)
  BY <1>7
<1> QED
  BY <1>3, <1>8 DEF raw

\* What comes back of an encoded integer, unsigned or in two's complement.
LEMMA DecodedEncoded ==
  ASSUME NEW v \in Int, NEW n \in Nat \ {0}, NEW signed \in BOOLEAN
  PROVE  LET low == v % Values(n)
         IN  /\ low \in 0 .. Values(n) - 1
             /\ DecodeInt(EncodeInt(v, n), signed) =
                  IF signed /\ low >= Values(n) \div 2 THEN low - Values(n) ELSE low
<1>1. Len(EncodeInt(v, n)) = n /\ EncodeInt(v, n) # <<>>
  <2>1. Len(EncodeInt(v, n)) = n /\ EncodeInt(v, n) \in Seq(0 .. Base - 1)
    BY EncodedBytes
  <2> QED
    BY <2>1
<1>2. v % Values(n) \in 0 .. Values(n) - 1
  <2>1. PICK a \in Nat \ {0} : a = Values(n)
    BY BaseIsPositive
  <2> QED
    BY <2>1, Division
<1> QED
  BY <1>1, <1>2, EncodedMagnitude DEF DecodeInt

\* Decoding what was encoded gives the value back, but for multiples of the
\* range of the bytes.
LEMMA DecodedIsCongruent ==
  ASSUME NEW v \in Int, NEW n \in Nat \ {0}, NEW signed \in BOOLEAN
  PROVE  \E c \in Int : DecodeInt(EncodeInt(v, n), signed) = v + Values(n) * c
<1>1. PICK a \in Nat \ {0} : a = Values(n)
  BY BaseIsPositive
<1>2. PICK q \in Int, low \in 0 .. a - 1 : q = v \div a /\ low = v % a /\ v = a * q + low
  BY Division
<1>3. DecodeInt(EncodeInt(v, n), signed) \in {low, low - a}
  BY <1>1, <1>2, DecodedEncoded
<1>4. a * q \in Int /\ a * (-q) = -(a * q) /\ a * (-q - 1) = -(a * q) - a
  OBVIOUS
<1>5. low = v + a * (-q) /\ low - a = v + a * (-q - 1)
  BY <1>2, <1>4
<1> QED
  BY <1>1, <1>3, <1>5

\* Integers that differ by a multiple of the values encode alike.
LEMMA EncodeCongruent ==
  ASSUME NEW v \in Int, NEW n \in Nat, NEW c \in Int
  PROVE  EncodeInt(v + Values(n) * c, n) = EncodeInt(v, n)
<1> SUFFICES ASSUME NEW k \in 1 .. n
             PROVE  ((v + Values(n) * c) \div Values(k - 1)) % Base = (v \div Values(k - 1)) % Base
  BY DEF EncodeInt
<1>1. k - 1 \in Nat /\ n - k \in Nat /\ 1 \in Nat /\ (n - k) + 1 \in Nat /\ n = (k - 1) + ((n - k) + 1)
  OBVIOUS
<1>2. PICK a \in Nat \ {0}, b \in Nat \ {0}, d \in Nat \ {0} :
        a = Values(k - 1) /\ b = Base /\ d = Values(n - k)
  BY <1>1, BaseIsPositive
<1>3. Values(n) = a * (d * b)
  BY <1>1, <1>2, ValuesMultiply, BaseIsPositive
<1>4. PICK e \in Int, f \in Int : e = d * c /\ f = b * e
  OBVIOUS
<1>5. (a * (d * b)) * c = a * f
  BY <1>4
<1>6. (v + a * f) \div a = (v \div a) + f
  BY DivisionShift
<1>7. PICK q \in Int : q = v \div a
  BY Division
<1>8. (q + b * e) % b = q % b
  BY DivisionShift
<1> QED
  BY <1>2, <1>3, <1>4, <1>5, <1>6, <1>7, <1>8

\* Encoding what came back yields the same bytes: reading and writing back
\* changes nothing.
THEOREM EncodedAgain ==
  ASSUME NEW v \in Int, NEW n \in Nat \ {0}, NEW signed \in BOOLEAN
  PROVE  /\ DecodeInt(EncodeInt(v, n), signed) \in Int
         /\ EncodeInt(DecodeInt(EncodeInt(v, n), signed), n) = EncodeInt(v, n)
<1>1. PICK c \in Int : DecodeInt(EncodeInt(v, n), signed) = v + Values(n) * c
  BY DecodedIsCongruent
<1>2. Values(n) \in Int
  BY BaseIsPositive
<1> QED
  BY <1>1, <1>2, EncodeCongruent

\* A channel covers at least one byte, and its span begins at its offset.
LEMMA Sizes ==
  ASSUME NEW ch \in ChannelType
  PROVE  /\ ByteSize(ch) \in Nat \ {0}
         /\ ch.bits <= ByteBits => ByteSize(ch) = 1
         /\ ch.off \in Nat /\ ch.bits \in Nat \ {0} /\ ch.signed \in BOOLEAN
         /\ Span(ch) \subseteq Nat /\ ch.off \in Span(ch)
<1>1. ch.off \in Nat /\ ch.bits \in Nat \ {0} /\ ch.signed \in BOOLEAN
  BY DEF ChannelType
<1>2. PICK bits \in Nat \ {0}, b \in Nat \ {0} : bits = ch.bits /\ b = ByteBits
  BY <1>1, ByteBitsAssumption
<1>3. PICK q \in Int, r \in 0 .. b - 1 :
        q = (bits + b - 1) \div b /\ bits + b - 1 = b * q + r
  BY Division
<1>4. b * 0 = 0 /\ b * 1 = b
  OBVIOUS
<1>5. q >= 1
  <2> SUFFICES ASSUME q < 1 PROVE FALSE
    OBVIOUS
  <2>1. b * q + b <= b * 1
    BY Times
  <2>2. b * q \in Int
    OBVIOUS
  <2> QED
    BY <1>3, <1>4, <2>1, <2>2
<1>6. ASSUME bits <= b PROVE q = 1
  <2> SUFFICES ASSUME 1 < q PROVE FALSE
    BY <1>5
  <2>1. b * 1 + b <= b * q
    BY Times
  <2>2. b * q \in Int
    OBVIOUS
  <2> QED
    BY <1>3, <1>4, <1>6, <2>1, <2>2
<1>7. ByteSize(ch) = q
  BY <1>2, <1>3 DEF ByteSize
<1>8. Span(ch) \subseteq Nat /\ ch.off \in Span(ch)
  BY <1>1, <1>5, <1>7 DEF Span
<1> QED
  BY <1>1, <1>2, <1>5, <1>6, <1>7, <1>8

\* A value in the range of the channel's type comes back as itself, for every
\* width and sign (_encode_int and _decode_int, stack.py:234-243).
THEOREM DecodedRepresentable ==
  ASSUME NEW ch \in ChannelType, NEW raw \in Int, Representable(ch, raw)
  PROVE  DecodeInt(EncodeInt(raw, ByteSize(ch)), ch.signed) = raw
<1> DEFINE n == ByteSize(ch)
<1>1. n \in Nat \ {0} /\ ch.signed \in BOOLEAN
  BY Sizes
<1>2. PICK a \in Nat \ {0} : a = Values(n)
  BY <1>1, BaseIsPositive
<1>3. IF ch.signed THEN -(a \div 2) <= raw /\ raw < a \div 2 ELSE 0 <= raw /\ raw < a
  BY <1>2 DEF Representable
<1>4. DecodeInt(EncodeInt(raw, n), ch.signed) =
        IF ch.signed /\ raw % a >= a \div 2 THEN (raw % a) - a ELSE raw % a
  BY <1>1, <1>2, DecodedEncoded
<1>5. a * 0 = 0 /\ a * (-1) = -a
  OBVIOUS
<1>6. ASSUME raw \in 0 .. a - 1 PROVE raw % a = raw
  BY <1>5, <1>6, DivisionUnique
<1>7. ASSUME raw + a \in 0 .. a - 1 PROVE raw % a = raw + a
  <2>1. raw = a * (-1) + (raw + a)
    BY <1>5
  <2> QED
    BY <1>7, <2>1, DivisionUnique
<1>8. CASE ~ch.signed
  BY <1>3, <1>4, <1>6, <1>8
<1>9. CASE ch.signed /\ 0 <= raw
  <2>1. raw \in 0 .. a - 1
    BY <1>3, <1>9
  <2> QED
    BY <1>3, <1>4, <1>6, <1>9, <2>1
<1>10. CASE ch.signed /\ raw < 0
  <2>1. raw + a \in 0 .. a - 1 /\ raw + a >= a \div 2
    BY <1>3, <1>10
  <2> QED
    BY <1>4, <1>7, <1>10, <2>1
<1> QED
  BY <1>8, <1>9, <1>10

\* volts_to_raw returns an integer for every voltage (scaling.py).
LEMMA VoltsAreCounts ==
  ASSUME NEW num \in Int, NEW den \in Nat \ {0}
  PROVE  VoltsToRaw(num, den) \in Int
<1>1. PICK a \in Nat \ {0} : a = Values(2)
  BY BaseIsPositive
<1>2. Int16Max \in Int /\ Int16Min \in Int
  BY <1>1 DEF Int16Max, Int16Min
<1>3. PICK x \in Int : x = num * Int16Max
  BY <1>2
<1>4. PICK q \in Int, r \in Int : q = x \div den /\ r = x % den
  BY Division
<1>5. Round(x, den) \in {q, q + 1}
  BY <1>4 DEF Round
<1>6. Clamp(Round(x, den)) \in Int
  BY <1>2, <1>5 DEF Clamp
<1> QED
  BY <1>3, <1>6 DEF VoltsToRaw

-----------------------------------------------------------------------------
(* The channel tables. *)

\* FlattenSeq up to each of its arguments.
Flattens(part, seqs) ==
  part = [i \in 1 .. Len(seqs) |-> IF i = 1 THEN seqs[i] ELSE part[i - 1] \o seqs[i]]

\* FlattenSeq concatenates its sequences one after the other.
LEMMA FlattenSteps ==
  ASSUME NEW X, NEW seqs \in Seq(Seq(X)), Len(seqs) # 0
  PROVE  \E part : Flattens(part, seqs) /\ FlattenSeq(seqs) = part[Len(seqs)]
<1> DEFINE n == Len(seqs)
           S == Seq(X)
           step == [kv \in Nat \X S |-> IF kv[1] + 1 \in 1 .. n THEN kv[2] \o seqs[kv[1] + 1] ELSE <<>>]
<1>1. n \in Nat \ {0} /\ \A i \in 1 .. n : seqs[i] \in S
  OBVIOUS
<1>2. step \in [Nat \X S -> S]
  <2>1. ASSUME NEW kv \in Nat \X S PROVE step[kv] \in S
    <3>1. kv[1] \in Nat /\ kv[2] \in S /\ <<>> \in S
      OBVIOUS
    <3>2. ASSUME kv[1] + 1 \in 1 .. n PROVE kv[2] \o seqs[kv[1] + 1] \in S
      BY <1>1, <3>1, <3>2, ConcatProperties
    <3> QED
      BY <3>1, <3>2
  <2> QED
    BY <2>1
<1>3. \A k \in Nat, v \in S : k + 1 \in 1 .. n => step[<<k, v>>] = v \o seqs[k + 1]
  OBVIOUS
<1> HIDE DEF step
<1>4. PICK f : Recurs(f, S, seqs[1], step)
  <2>1. 1 \in 1 .. n
    BY <1>1
  <2>2. seqs[1] \in S
    BY <1>1, <2>1
  <2>3. PICK c : c = seqs[1]
    OBVIOUS
  <2> HIDE DEF S
  <2>4. \E f : Recurs(f, S, c, step)
    BY <1>2, <2>2, <2>3, Recursion
  <2> QED
    BY <2>3, <2>4
<1> DEFINE g == [i \in 1 .. n |-> f[i - 1]]
<1>5. ASSUME NEW i \in 1 .. n PROVE g[i] = IF i = 1 THEN seqs[i] ELSE g[i - 1] \o seqs[i]
  <2>1. CASE i = 1
    BY <1>4, <2>1 DEF Recurs
  <2>2. CASE i # 1
    <3>1. i - 1 \in Nat \ {0} /\ i - 1 \in 1 .. n /\ (i - 1) - 1 \in Nat /\ (i - 1) + 1 = i
      BY <1>1, <2>2
    <3>2. g[i] = f[i - 1] /\ g[i - 1] = f[(i - 1) - 1]
      BY <3>1
    <3>3. f[i - 1] = step[<<i - 1, f[(i - 1) - 1]>>] /\ f[(i - 1) - 1] \in S
      BY <1>4, <3>1 DEF Recurs
    <3>4. step[<<i - 1, f[(i - 1) - 1]>>] = f[(i - 1) - 1] \o seqs[i]
      BY <1>3, <3>1, <3>3
    <3> QED
      BY <2>2, <3>2, <3>3, <3>4
  <2> QED
    BY <2>1, <2>2
<1>6. DOMAIN g = 1 .. n
  OBVIOUS
<1>7. g = [i \in 1 .. n |-> g[i]]
  OBVIOUS
<1> HIDE DEF g
<1>8. Flattens(g, seqs)
  BY <1>5, <1>7 DEF Flattens
<1>9. Flattens(CHOOSE s : Flattens(s, seqs), seqs)
  BY <1>8, Zenon
<1>10. FlattenSeq(seqs) = (CHOOSE s : Flattens(s, seqs))[n]
  <2>1. FlattenSeq(seqs) = IF n = 0 THEN seqs ELSE (CHOOSE s : Flattens(s, seqs))[n]
    BY Zenon DEF FlattenSeq, Flattens
  <2> QED
    BY <1>1, <2>1
<1> QED
  BY <1>9, <1>10

NoRepeat(s) == \A k, l \in DOMAIN s : s[k] = s[l] => k = l

\* No element occurs twice, in one sequence or in two.
AllDifferent(seqs) ==
  \A i, j \in DOMAIN seqs : \A k \in DOMAIN seqs[i], l \in DOMAIN seqs[j] :
    seqs[i][k] = seqs[j][l] => i = j /\ k = l

\* The sequence p comes from the first m of these.
ComesFrom(p, m, seqs) ==
  \A k \in DOMAIN p : \E i \in 1 .. m : \E j \in DOMAIN seqs[i] : p[k] = seqs[i][j]

\* One more sequence appended keeps what FlattenKeeps says of the part
\* before.
LEMMA FlattenOneMore ==
  ASSUME NEW X, NEW seqs \in Seq(Seq(X)),
         NEW m \in Nat, m + 1 \in 1 .. Len(seqs),
         NEW p \in Seq(X), AllDifferent(seqs) => NoRepeat(p), ComesFrom(p, m, seqs)
  PROVE  /\ p \o seqs[m + 1] \in Seq(X)
         /\ AllDifferent(seqs) => NoRepeat(p \o seqs[m + 1])
         /\ ComesFrom(p \o seqs[m + 1], m + 1, seqs)
<1>1. PICK s \in Seq(X) : s = seqs[m + 1]
  OBVIOUS
<1>2. PICK q : q = p \o s
  OBVIOUS
<1>3. /\ q \in Seq(X) /\ Len(q) = Len(p) + Len(s)
      /\ \A i \in 1 .. Len(p) + Len(s) : q[i] = IF i <= Len(p) THEN p[i] ELSE s[i - Len(p)]
  BY <1>2, ConcatProperties
<1>4. /\ Len(p) \in Nat /\ Len(s) \in Nat
      /\ DOMAIN p = 1 .. Len(p) /\ DOMAIN s = 1 .. Len(s) /\ DOMAIN q = 1 .. Len(q)
  BY <1>3
<1>5. \A k \in DOMAIN q : \/ k \in DOMAIN p /\ q[k] = p[k]
                          \/ k > Len(p) /\ k - Len(p) \in DOMAIN s /\ q[k] = s[k - Len(p)]
  BY <1>3, <1>4
<1>6. DOMAIN seqs = 1 .. Len(seqs) /\ 1 .. m \subseteq DOMAIN seqs /\ m + 1 \in DOMAIN seqs
  OBVIOUS
<1>7. ASSUME AllDifferent(seqs), NEW k \in DOMAIN p, NEW l \in DOMAIN s PROVE p[k] # s[l]
  <2>1. PICK i \in 1 .. m : \E j \in DOMAIN seqs[i] : p[k] = seqs[i][j]
    BY DEF ComesFrom
  <2>2. i \in DOMAIN seqs /\ i # m + 1
    BY <1>6
  <2> QED
    BY <1>1, <1>6, <1>7, <2>1, <2>2 DEF AllDifferent
<1>8. ASSUME AllDifferent(seqs) PROVE NoRepeat(q)
  <2> SUFFICES ASSUME NEW k \in DOMAIN q, NEW l \in DOMAIN q, q[k] = q[l] PROVE k = l
    BY DEF NoRepeat
  <2>1. CASE k \in DOMAIN p /\ q[k] = p[k] /\ l \in DOMAIN p /\ q[l] = p[l]
    BY <1>8, <2>1 DEF NoRepeat
  <2>2. CASE /\ k - Len(p) \in DOMAIN s /\ q[k] = s[k - Len(p)]
             /\ l - Len(p) \in DOMAIN s /\ q[l] = s[l - Len(p)]
    <3>1. \A a, b \in DOMAIN s : s[a] = s[b] => a = b
      BY <1>1, <1>6, <1>8 DEF AllDifferent
    <3>2. k - Len(p) = l - Len(p)
      BY <2>2, <3>1
    <3> QED
      BY <1>4, <3>2
  <2> QED
    BY <1>5, <1>7, <1>8, <2>1, <2>2
<1>9. ComesFrom(q, m + 1, seqs)
  <2> SUFFICES ASSUME NEW k \in DOMAIN q
               PROVE  \E i \in 1 .. m + 1 : \E j \in DOMAIN seqs[i] : q[k] = seqs[i][j]
    BY DEF ComesFrom
  <2>1. CASE k \in DOMAIN p /\ q[k] = p[k]
    <3>1. PICK i \in 1 .. m : \E j \in DOMAIN seqs[i] : p[k] = seqs[i][j]
      BY <2>1 DEF ComesFrom
    <3> QED
      BY <2>1, <3>1
  <2>2. CASE k - Len(p) \in DOMAIN s /\ q[k] = s[k - Len(p)]
    <3>1. m + 1 \in 1 .. m + 1
      OBVIOUS
    <3> QED
      BY <1>1, <2>2, <3>1
  <2> QED
    BY <1>5, <2>1, <2>2
<1> QED
  BY <1>1, <1>2, <1>3, <1>8, <1>9

\* FlattenSeq yields elements of its sequences, and each once if they are
\* all different.
LEMMA FlattenKeeps ==
  ASSUME NEW X, NEW seqs \in Seq(Seq(X))
  PROVE  /\ FlattenSeq(seqs) \in Seq(X)
         /\ AllDifferent(seqs) => NoRepeat(FlattenSeq(seqs))
         /\ ComesFrom(FlattenSeq(seqs), Len(seqs), seqs)
<1>1. CASE Len(seqs) = 0
  <2>1. FlattenSeq(seqs) = seqs
    BY <1>1 DEF FlattenSeq
  <2>2. seqs = <<>>
    BY <1>1
  <2> QED
    BY <2>1, <2>2 DEF NoRepeat, ComesFrom
<1>2. CASE Len(seqs) # 0
  <2>1. PICK part : Flattens(part, seqs) /\ FlattenSeq(seqs) = part[Len(seqs)]
    BY <1>2, FlattenSteps
  <2> DEFINE n == Len(seqs)
             Good(p, m) == /\ p \in Seq(X)
                           /\ AllDifferent(seqs) => NoRepeat(p)
                           /\ ComesFrom(p, m, seqs)
             T == {m \in Nat : m + 1 <= n => Good(part[m + 1], m + 1)}
  <2>2. n \in Nat \ {0} /\ DOMAIN seqs = 1 .. n
    BY <1>2
  <2>3. 0 \in T
    <3>1. 1 \in 1 .. n /\ 1 \in 1 .. 1
      BY <2>2
    <3>2. part[1] = seqs[1]
      BY <2>1, <3>1 DEF Flattens
    <3>3. seqs[1] \in Seq(X)
      BY <3>1
    <3>4. AllDifferent(seqs) => NoRepeat(seqs[1])
      BY <2>2, <3>1 DEF AllDifferent, NoRepeat
    <3>5. ComesFrom(seqs[1], 1, seqs)
      BY <3>1 DEF ComesFrom
    <3> QED
      BY <3>2, <3>3, <3>4, <3>5
  <2>4. ASSUME NEW m \in T PROVE m + 1 \in T
    <3> SUFFICES ASSUME (m + 1) + 1 <= n PROVE Good(part[(m + 1) + 1], (m + 1) + 1)
      OBVIOUS
    <3>1. /\ m + 1 \in Nat /\ m + 1 <= n /\ (m + 1) + 1 \in 1 .. n /\ (m + 1) + 1 # 1
          /\ ((m + 1) + 1) - 1 = m + 1
      BY <2>2
    <3>2. Good(part[m + 1], m + 1)
      BY <3>1
    <3>3. part[(m + 1) + 1] = part[m + 1] \o seqs[(m + 1) + 1]
      BY <2>1, <3>1 DEF Flattens
    <3>4. PICK p, k : p = part[m + 1] /\ k = m + 1
      OBVIOUS
    <3>5. /\ p \o seqs[k + 1] \in Seq(X)
          /\ AllDifferent(seqs) => NoRepeat(p \o seqs[k + 1])
          /\ ComesFrom(p \o seqs[k + 1], k + 1, seqs)
      BY <3>1, <3>2, <3>4, FlattenOneMore
    <3> QED
      BY <3>3, <3>4, <3>5
  <2>5. T \in SUBSET Nat
    OBVIOUS
  <2>6. T = Nat
    <3> HIDE DEF T
    <3> QED
      BY <2>3, <2>4, <2>5, Induction
  <2>7. n - 1 \in Nat /\ (n - 1) + 1 = n /\ n <= n
    BY <2>2
  <2>8. Good(part[n], n)
    <3>1. n - 1 \in T
      BY <2>6, <2>7
    <3> QED
      BY <2>7, <3>1
  <2> QED
    BY <2>1, <2>8
<1> QED
  BY <1>1, <1>2

Bit == [ch : ChannelType, bit : Nat]

\* OfKind selects channels of the kind, each once (xap.py:52-66).
LEMMA KindsKept ==
  ASSUME NEW channels \in Seq(ChannelType), NEW kind
  PROVE  /\ OfKind(channels, kind) \in Seq(ChannelType)
         /\ \A k \in DOMAIN OfKind(channels, kind) :
              /\ OfKind(channels, kind)[k].kind = kind
              /\ \E c \in DOMAIN channels : OfKind(channels, kind)[k] = channels[c]
         /\ NoRepeat(channels) => NoRepeat(OfKind(channels, kind))
<1> DEFINE one(c) == IF channels[c].kind = kind THEN <<channels[c]>> ELSE <<>>
<1>1. DOMAIN channels = 1 .. Len(channels) /\ Len(channels) \in Nat
  OBVIOUS
<1>2. PICK seqs : seqs = [c \in DOMAIN channels |-> one(c)]
  OBVIOUS
<1>3. \A c \in DOMAIN channels : channels[c] \in ChannelType /\ one(c) \in Seq(ChannelType)
  OBVIOUS
<1>4. \A c \in DOMAIN channels : \A k \in DOMAIN one(c) :
        k = 1 /\ one(c)[k] = channels[c] /\ channels[c].kind = kind
  OBVIOUS
<1>5. OfKind(channels, kind) = FlattenSeq(seqs)
  BY <1>2 DEF OfKind
<1> HIDE DEF one
<1>6. seqs \in Seq(Seq(ChannelType)) /\ Len(seqs) = Len(channels) /\ DOMAIN seqs = DOMAIN channels
  BY <1>1, <1>2, <1>3
<1>7. \A c \in DOMAIN channels : seqs[c] = one(c)
  BY <1>2
<1>8. ASSUME NoRepeat(channels) PROVE AllDifferent(seqs)
  BY <1>4, <1>6, <1>7, <1>8 DEF AllDifferent, NoRepeat
<1>9. PICK f : f = FlattenSeq(seqs)
  OBVIOUS
<1>10. f \in Seq(ChannelType) /\ ComesFrom(f, Len(seqs), seqs) /\ (AllDifferent(seqs) => NoRepeat(f))
  BY <1>6, <1>9, FlattenKeeps
<1>11. ASSUME NEW k \in DOMAIN f
       PROVE  f[k].kind = kind /\ \E c \in DOMAIN channels : f[k] = channels[c]
  <2>1. PICK c \in 1 .. Len(seqs) : \E j \in DOMAIN seqs[c] : f[k] = seqs[c][j]
    BY <1>10 DEF ComesFrom
  <2>2. c \in DOMAIN channels
    BY <1>1, <1>6
  <2> QED
    BY <1>4, <1>7, <2>1, <2>2
<1> QED
  BY <1>5, <1>8, <1>9, <1>10, <1>11

\* Flatten lists the bits of the channels, each once (api.py:65-72).
LEMMA BitsKept ==
  ASSUME NEW channels \in Seq(ChannelType)
  PROVE  /\ Flatten(channels) \in Seq(Bit)
         /\ \A k \in DOMAIN Flatten(channels) :
              /\ Flatten(channels)[k].bit \in 0 .. Flatten(channels)[k].ch.bits - 1
              /\ \E c \in DOMAIN channels : Flatten(channels)[k].ch = channels[c]
         /\ NoRepeat(channels) => NoRepeat(Flatten(channels))
<1> DEFINE all(c) == [b \in 1 .. channels[c].bits |-> [ch |-> channels[c], bit |-> b - 1]]
<1>1. DOMAIN channels = 1 .. Len(channels) /\ Len(channels) \in Nat
  OBVIOUS
<1>2. PICK seqs : seqs = [c \in DOMAIN channels |-> all(c)]
  OBVIOUS
<1>3. \A c \in DOMAIN channels : channels[c] \in ChannelType /\ channels[c].bits \in Nat
  <2>1. \A c \in DOMAIN channels : channels[c] \in ChannelType
    OBVIOUS
  <2> HIDE DEF all
  <2> QED
    BY <2>1, Sizes
<1>4. ASSUME NEW c \in DOMAIN channels
      PROVE  /\ all(c) \in Seq(Bit)
             /\ DOMAIN all(c) = 1 .. channels[c].bits
             /\ \A b \in DOMAIN all(c) : /\ all(c)[b] = [ch |-> channels[c], bit |-> b - 1]
                                         /\ b \in Int /\ b - 1 \in 0 .. channels[c].bits - 1
  <2>1. \A b \in 1 .. channels[c].bits : [ch |-> channels[c], bit |-> b - 1] \in Bit
    BY <1>3 DEF Bit
  <2> QED
    BY <1>3, <2>1
<1>5. Flatten(channels) = FlattenSeq(seqs)
  BY <1>2 DEF Flatten
<1> HIDE DEF all
<1>6. seqs \in Seq(Seq(Bit)) /\ Len(seqs) = Len(channels) /\ DOMAIN seqs = DOMAIN channels
  BY <1>1, <1>2, <1>4
<1>7. \A c \in DOMAIN channels : seqs[c] = all(c)
  BY <1>2
<1>8. ASSUME NoRepeat(channels) PROVE AllDifferent(seqs)
  <2> SUFFICES ASSUME NEW c \in DOMAIN channels, NEW d \in DOMAIN channels,
                      NEW a \in DOMAIN all(c), NEW b \in DOMAIN all(d), all(c)[a] = all(d)[b]
               PROVE  c = d /\ a = b
    BY <1>6, <1>7 DEF AllDifferent
  <2>1. channels[c] = channels[d] /\ a - 1 = b - 1 /\ a \in Int /\ b \in Int
    BY <1>4
  <2> QED
    BY <1>8, <2>1 DEF NoRepeat
<1>9. PICK f : f = FlattenSeq(seqs)
  OBVIOUS
<1>10. f \in Seq(Bit) /\ ComesFrom(f, Len(seqs), seqs) /\ (AllDifferent(seqs) => NoRepeat(f))
  BY <1>6, <1>9, FlattenKeeps
<1>11. ASSUME NEW k \in DOMAIN f
       PROVE  f[k].bit \in 0 .. f[k].ch.bits - 1 /\ \E c \in DOMAIN channels : f[k].ch = channels[c]
  <2>1. PICK c \in 1 .. Len(seqs) : \E j \in DOMAIN seqs[c] : f[k] = seqs[c][j]
    BY <1>10 DEF ComesFrom
  <2>2. c \in DOMAIN channels
    BY <1>1, <1>6
  <2> QED
    BY <1>4, <1>7, <2>1, <2>2
<1> QED
  BY <1>5, <1>8, <1>9, <1>10, <1>11

Outputs == {Layout.outputs[c] : c \in DOMAIN Layout.outputs}

\* No two outputs of the layout share a byte, so no two are equal.
LEMMA OutputsApart ==
  /\ Outputs \subseteq ChannelType
  /\ NoRepeat(Layout.outputs)
  /\ \A ch, d \in Outputs : ch # d => Span(ch) \cap Span(d) = {}
<1>1. Layout.outputs \in Seq(ChannelType)
  BY LayoutAssumption
<1>2. \A c \in DOMAIN Layout.outputs : Layout.outputs[c] \in ChannelType
  BY <1>1
<1>3. \A c, d \in DOMAIN Layout.outputs :
        c # d => Span(Layout.outputs[c]) \cap Span(Layout.outputs[d]) = {}
  BY LayoutAssumption
<1>4. \A c, d \in DOMAIN Layout.outputs : Layout.outputs[c] = Layout.outputs[d] => c = d
  <2> SUFFICES ASSUME NEW c \in DOMAIN Layout.outputs, NEW d \in DOMAIN Layout.outputs,
                      Layout.outputs[c] = Layout.outputs[d], c # d
               PROVE  FALSE
    OBVIOUS
  <2>1. Layout.outputs[c].off \in Span(Layout.outputs[c])
    BY <1>2, Sizes
  <2> QED
    BY <1>3, <2>1
<1> QED
  BY <1>2, <1>3, <1>4 DEF Outputs, NoRepeat

\* The table of digital outputs: every entry is a different bit of a one-
\* byte output.
LEMMA DoTable ==
  /\ DoBits \in Seq(Bit)
  /\ NoRepeat(DoBits)
  /\ \A k \in DOMAIN DoBits :
       /\ DoBits[k].ch \in Outputs /\ DoBits[k].ch \in ChannelType
       /\ DoBits[k].ch.kind = "digital"
       /\ ByteSize(DoBits[k].ch) = 1
       /\ DoBits[k].bit \in Nat /\ DoBits[k].bit \in 0 .. ByteBits - 1
<1> DEFINE digital == OfKind(Layout.outputs, "digital")
<1>1. /\ digital \in Seq(ChannelType) /\ NoRepeat(digital)
      /\ \A c \in DOMAIN digital : digital[c].kind = "digital" /\ digital[c] \in Outputs
  BY LayoutAssumption, OutputsApart, KindsKept DEF Outputs
<1>2. DoBits = Flatten(digital)
  BY DEF DoBits
<1> HIDE DEF digital
<1>3. /\ DoBits \in Seq(Bit) /\ NoRepeat(DoBits)
      /\ \A k \in DOMAIN DoBits : /\ DoBits[k].bit \in 0 .. DoBits[k].ch.bits - 1
                                  /\ \E c \in DOMAIN digital : DoBits[k].ch = digital[c]
  BY <1>1, <1>2, BitsKept
<1>4. ASSUME NEW k \in DOMAIN DoBits
      PROVE  /\ DoBits[k].ch \in Outputs /\ DoBits[k].ch \in ChannelType
             /\ DoBits[k].ch.kind = "digital"
             /\ ByteSize(DoBits[k].ch) = 1
             /\ DoBits[k].bit \in Nat /\ DoBits[k].bit \in 0 .. ByteBits - 1
  <2>1. DoBits[k].ch \in Outputs /\ DoBits[k].ch.kind = "digital"
    BY <1>1, <1>3
  <2>2. DoBits[k].ch \in ChannelType
    BY <2>1, OutputsApart
  <2>3. DoBits[k].ch.bits <= ByteBits
    BY LayoutAssumption
  <2>4. ByteSize(DoBits[k].ch) = 1 /\ DoBits[k].ch.bits \in Nat
    BY <2>2, <2>3, Sizes
  <2> QED
    BY <1>3, <2>1, <2>2, <2>3, <2>4, ByteBitsAssumption
<1> QED
  BY <1>3, <1>4

\* The table of analog outputs: every entry is a different output.
LEMMA AoTable ==
  /\ Ao \in Seq(ChannelType)
  /\ NoRepeat(Ao)
  /\ \A k \in DOMAIN Ao : Ao[k] \in Outputs /\ Ao[k] \in ChannelType /\ Ao[k].kind = "analog"
BY LayoutAssumption, OutputsApart, KindsKept DEF Outputs, Ao

\* The tables of the inputs hold channels and bits of the layout's types.
LEMMA InputTables ==
  /\ DiBits \in Seq(Bit) /\ Ai \in Seq(ChannelType)
  /\ \A k \in DOMAIN DiBits : DiBits[k].ch \in ChannelType /\ DiBits[k].bit \in Nat
  /\ \A k \in DOMAIN Ai : Ai[k] \in ChannelType
<1>1. DiBits \in Seq(Bit) /\ Ai \in Seq(ChannelType)
  BY LayoutAssumption, KindsKept, BitsKept DEF DiBits, Ai
<1>2. \A k \in DOMAIN DiBits : DiBits[k] \in Bit
  BY <1>1
<1>3. \A k \in DOMAIN Ai : Ai[k] \in ChannelType
  BY <1>1
<1> QED
  BY <1>1, <1>2, <1>3 DEF Bit

\* A digital and an analog output share no byte, nor do two of a kind.
LEMMA TablesApart ==
  /\ \A k \in DOMAIN DoBits, l \in DOMAIN Ao : Span(DoBits[k].ch) \cap Span(Ao[l]) = {}
  /\ \A k, l \in DOMAIN DoBits :
       DoBits[k].ch # DoBits[l].ch => Span(DoBits[k].ch) \cap Span(DoBits[l].ch) = {}
  /\ \A k, l \in DOMAIN Ao : k # l => Span(Ao[k]) \cap Span(Ao[l]) = {}
<1>1. \A k \in DOMAIN DoBits : DoBits[k].ch \in Outputs /\ DoBits[k].ch.kind = "digital"
  BY DoTable
<1>2. \A k \in DOMAIN Ao : Ao[k] \in Outputs /\ Ao[k].kind = "analog"
  BY AoTable
<1>3. \A k, l \in DOMAIN Ao : k # l => Ao[k] # Ao[l]
  BY AoTable DEF NoRepeat
<1> QED
  BY <1>1, <1>2, <1>3, OutputsApart

-----------------------------------------------------------------------------
(* The inductive invariant. *)

\* A write_do in progress: its thread owns the bytes, and the output exists.
Driven ==
  \A t \in Threads :
    /\ \A j \in DOMAIN todo[t] : InRange(todo[t][j].k) => Owns(t, DoBits[todo[t][j].k + 1].ch)
    /\ pc[t] = "modify" => InRange(Head(todo[t]).k)

\* What a session remembers is forgotten while the image is gone.
Session ==
  ~attached => asked = Nothing /\ \A t \in Threads : ~steady[t]

Target(t) == DoBits[Head(todo[t]).k + 1].ch

\* The byte a write_do has read back still shows what was asked of its bits,
\* and in one session it is the byte of the image.
ReadBackHolds ==
  \A t \in Threads :
    pc[t] = "modify" =>
      /\ \A k \in DOMAIN DoBits :
           DoBits[k].ch = Target(t) =>
             \A v \in asked.do[k] : BitOf(current[t], DoBits[k].bit) = v
      /\ steady[t] => current[t] = ChannelInt("in", Target(t))

\* The image has what was asked, as the codec gives it back.
Holds ==
  /\ \A k \in DOMAIN DoBits : \A v \in asked.do[k] : OutputBit(k) = v
  /\ \A k \in DOMAIN Ao : \A raw \in asked.ao[k] :
       ChannelInt("in", Ao[k]) = DecodeInt(EncodeInt(raw, ByteSize(Ao[k])), Ao[k].signed)

ReadSoFar ==
  \A t \in Threads : pc[t] \in Reads => Len(result[t]) <= Len(Table[pc[t]])

IOInv ==
  /\ TypeOK
  /\ Driven
  /\ Session
  /\ ReadBackHolds
  /\ Holds
  /\ ReadSoFar
  /\ OwnOutputsReadBack

-----------------------------------------------------------------------------
(* What the calls of the shim read and write. *)

Images == {"in", "out"}

ImageType == DOMAIN img = Images /\ \A i \in Images : img[i] \in Contents(i)

\* The sizes that start() allocates are naturals.
LEMMA SizesOfImages ==
  Size["in"] \in Nat /\ Size["out"] \in Nat
BY LayoutAssumption DEF Size

\* Whatever the bytes are, they decode to an integer.
LEMMA DecodedIsInt ==
  ASSUME NEW raw \in Seq(0 .. Base - 1), NEW signed \in BOOLEAN
  PROVE  DecodeInt(raw, signed) \in Int
<1>1. raw \in Seq(Nat)
  <2>1. 0 .. Base - 1 \subseteq Nat
    OBVIOUS
  <2> QED
    BY <2>1, SeqMonotonic
<1>2. Len(raw) \in Nat /\ Values(Len(raw)) \in Nat
  BY <1>1, BaseIsPositive
<1>3. Magnitude(raw) \in Nat
  BY <1>1, <1>2, MagnitudeSums
<1> QED
  BY <1>2, <1>3 DEF DecodeInt

\* An accepted read returns bytes.
LEMMA WindowType ==
  ASSUME ImageType, NEW i \in Images, NEW ch \in ChannelType, Accessible(i, ch)
  PROVE  [k \in 1 .. ByteSize(ch) |-> img[i][ch.off + k - 1]] \in Seq(0 .. Base - 1)
<1>1. ByteSize(ch) \in Nat /\ ch.off \in Nat
  BY Sizes
<1>2. Size[i] \in Nat
  BY SizesOfImages DEF Images
<1>3. \A k \in 1 .. ByteSize(ch) : ch.off + k - 1 \in 0 .. Size[i] - 1
  BY <1>1, <1>2 DEF Accessible
<1> DEFINE byte(k) == img[i][ch.off + k - 1]
<1>4. \A k \in 1 .. ByteSize(ch) : byte(k) \in 0 .. Base - 1
  BY <1>3 DEF ImageType, Contents
<1>5. PICK window : window = [k \in 1 .. ByteSize(ch) |-> byte(k)]
  OBVIOUS
<1>6. PICK n \in Nat : n = ByteSize(ch)
  BY <1>1
<1>7. DOMAIN window = 1 .. n /\ window = [k \in 1 .. n |-> window[k]]
  BY <1>5, <1>6
<1> HIDE DEF byte
<1>8. \A k \in 1 .. n : window[k] \in 0 .. Base - 1
  BY <1>4, <1>5, <1>6
<1>9. window \in Seq(0 .. Base - 1)
  <2>1. window \in [1 .. n -> 0 .. Base - 1]
    BY <1>7, <1>8
  <2> QED
    BY <2>1, SeqDef
<1> QED
  BY <1>5, <1>9 DEF byte

\* read_channel_int returns an integer, also when the shim refuses.
LEMMA ReadsInt ==
  ASSUME ImageType, NEW i \in Images, NEW ch \in ChannelType
  PROVE  ChannelInt(i, ch) \in Int
<1>1. ch.signed \in BOOLEAN
  BY Sizes
<1>2. CASE Accessible(i, ch)
  <2>1. ChannelInt(i, ch) = DecodeInt([k \in 1 .. ByteSize(ch) |-> img[i][ch.off + k - 1]], ch.signed)
    BY <1>2 DEF ChannelInt
  <2> QED
    BY <1>1, <1>2, <2>1, WindowType, DecodedIsInt
<1>3. CASE ~Accessible(i, ch)
  <2>1. ChannelInt(i, ch) = 0
    BY <1>3 DEF ChannelInt, DecodeInt
  <2> QED
    BY <2>1
<1> QED
  BY <1>2, <1>3

\* A channel keeps its value as long as its bytes do.
LEMMA SameBytesSameValue ==
  ASSUME NEW ch \in ChannelType, attached' = attached,
         \A b \in Span(ch) : img'["in"][b] = img["in"][b]
  PROVE  ChannelInt("in", ch)' = ChannelInt("in", ch)
<1>1. ByteSize(ch) \in Nat /\ ch.off \in Nat
  BY Sizes
<1>2. \A k \in 1 .. ByteSize(ch) : ch.off + k - 1 \in Span(ch)
  BY <1>1 DEF Span
<1>3. [k \in 1 .. ByteSize(ch) |-> img'["in"][ch.off + k - 1]] =
      [k \in 1 .. ByteSize(ch) |-> img["in"][ch.off + k - 1]]
  BY <1>2
<1>4. Accessible("in", ch)' <=> Accessible("in", ch)
  BY DEF Accessible
<1> QED
  BY <1>3, <1>4 DEF ChannelInt

\* write_channel_int changes the channel to what the codec makes of the
\* value, and no channel elsewhere.
LEMMA Written ==
  ASSUME ImageType, NEW ch \in ChannelType, NEW value \in Int,
         WriteChannelInt(ch, value), attached' = attached
  PROVE  /\ ImageType'
         /\ ~Accessible("in", ch) => img' = img
         /\ Accessible("in", ch) =>
              ChannelInt("in", ch)' = DecodeInt(EncodeInt(value, ByteSize(ch)), ch.signed)
         /\ \A d \in ChannelType :
              Span(d) \cap Span(ch) = {} => ChannelInt("in", d)' = ChannelInt("in", d)
<1> DEFINE raw == EncodeInt(value, ByteSize(ch))
           new == [b \in DOMAIN img["in"] |-> IF b \in Span(ch) THEN raw[b - ch.off + 1] ELSE img["in"][b]]
<1>1. ByteSize(ch) \in Nat \ {0} /\ ch.off \in Nat /\ Size["in"] \in Nat
  BY Sizes, SizesOfImages
<1>2. /\ raw \in Seq(0 .. Base - 1) /\ Len(raw) = ByteSize(ch)
      /\ \A k \in 1 .. ByteSize(ch) : raw[k] \in 0 .. Base - 1
  BY <1>1, EncodedBytes
<1>3. raw = [k \in 1 .. ByteSize(ch) |-> raw[k]]
  BY DEF EncodeInt
<1>4. img["in"] \in [0 .. Size["in"] - 1 -> 0 .. Base - 1] /\ "in" \in DOMAIN img
  BY DEF ImageType, Images, Contents
<1>5. img' = IF Accessible("in", ch) THEN [img EXCEPT !["in"] = new] ELSE img
  BY DEF WriteChannelInt
<1> HIDE DEF raw
<1>6. \A b \in Span(ch) : b - ch.off + 1 \in 1 .. ByteSize(ch)
  BY <1>1 DEF Span
<1>7. new \in [0 .. Size["in"] - 1 -> 0 .. Base - 1]
  BY <1>2, <1>4, <1>6
<1>8. CASE ~Accessible("in", ch)
  <2>1. img' = img
    BY <1>5, <1>8
  <2> QED
    BY <1>8, <2>1, SameBytesSameValue DEF ImageType
<1>9. CASE Accessible("in", ch)
  <2>1. img' = [img EXCEPT !["in"] = new]
    BY <1>5, <1>9
  <2>2. /\ DOMAIN img' = DOMAIN img /\ img'["in"] = new
        /\ \A i \in DOMAIN img : i # "in" => img'[i] = img[i]
    BY <1>4, <2>1
  <2>3. ImageType'
    BY <1>7, <2>2 DEF ImageType, Images, Contents
  <2>4. \A k \in 1 .. ByteSize(ch) : /\ ch.off + k - 1 \in Span(ch)
                                     /\ ch.off + k - 1 \in 0 .. Size["in"] - 1
                                     /\ (ch.off + k - 1) - ch.off + 1 = k
    BY <1>1, <1>9 DEF Span, Accessible
  <2>5. \A k \in 1 .. ByteSize(ch) : img'["in"][ch.off + k - 1] = raw[k]
    BY <1>4, <2>2, <2>4
  <2>6. [k \in 1 .. ByteSize(ch) |-> img'["in"][ch.off + k - 1]] = raw
    BY <1>3, <2>5
  <2>7. ChannelInt("in", ch)' = DecodeInt(raw, ch.signed)
    <3>1. Accessible("in", ch)'
      BY <1>9 DEF Accessible
    <3> QED
      BY <2>6, <3>1 DEF ChannelInt
  <2>8. ASSUME NEW d \in ChannelType, Span(d) \cap Span(ch) = {}
        PROVE  ChannelInt("in", d)' = ChannelInt("in", d)
    <3>1. CASE Accessible("in", d)
      <4>1. ByteSize(d) \in Nat /\ d.off \in Nat
        BY Sizes
      <4>2. \A b \in Span(d) : b \in 0 .. Size["in"] - 1 /\ b \notin Span(ch)
        BY <1>1, <2>8, <3>1, <4>1 DEF Span, Accessible
      <4>3. \A b \in Span(d) : img'["in"][b] = img["in"][b]
        BY <1>4, <2>2, <4>2
      <4> QED
        BY <4>3, SameBytesSameValue
    <3>2. CASE ~Accessible("in", d)
      <4>1. ~Accessible("in", d)'
        BY <3>2 DEF Accessible
      <4> QED
        BY <3>2, <4>1 DEF ChannelInt
    <3> QED
      BY <3>1, <3>2
  <2> QED
    BY <1>9, <2>3, <2>7, <2>8 DEF raw
<1> QED
  BY <1>8, <1>9

-----------------------------------------------------------------------------
(* Steps that leave the image alone. *)

LEMMA TableRows ==
  /\ Reads = {"read_di", "read_do", "read_ai", "read_ao"}
  /\ Table["read_do"] = DoBits /\ Table["read_ao"] = Ao
  /\ \A r \in Reads : Len(Table[r]) \in Nat
<1>1. Reads = {"read_di", "read_do", "read_ai", "read_ao"}
  BY DEF Reads, Table
<1>2. /\ Table["read_di"] = DiBits /\ Table["read_do"] = DoBits
      /\ Table["read_ai"] = Ai /\ Table["read_ao"] = Ao
  BY DEF Table
<1>3. Len(DiBits) \in Nat /\ Len(DoBits) \in Nat /\ Len(Ai) \in Nat /\ Len(Ao) \in Nat
  BY DoTable, AoTable, InputTables
<1> QED
  BY <1>1, <1>2, <1>3

\* The history of a new session is empty for every output.
LEMMA NothingAsked ==
  /\ Nothing \in [do : [DOMAIN DoBits -> SUBSET {0, 1}], ao : [DOMAIN Ao -> SUBSET Int]]
  /\ \A k \in DOMAIN DoBits : Nothing.do[k] = {}
  /\ \A k \in DOMAIN Ao : Nothing.ao[k] = {}
BY DEF Nothing

\* Without a change of the image no channel changes.
LEMMA SameImage ==
  ASSUME UNCHANGED <<attached, img>>
  PROVE  \A i, ch : ChannelInt(i, ch)' = ChannelInt(i, ch)
BY DEF ChannelInt, Accessible

\* What holds of the outputs stays while image and history do.
LEMMA SameOutputs ==
  ASSUME Holds, UNCHANGED <<attached, img, asked>>
  PROVE  Holds'
<1>1. \A i, ch : ChannelInt(i, ch)' = ChannelInt(i, ch)
  BY SameImage
<1>2. \A k : OutputBit(k)' = OutputBit(k)
  BY <1>1 DEF OutputBit
<1> QED
  BY <1>1, <1>2 DEF Holds

\* A step of a thread that has read nothing disturbs no read.
LEMMA SameReads ==
  ASSUME ReadSoFar, OwnOutputsReadBack, NEW t \in Threads, UNCHANGED <<owner, asked>>,
         \A u \in Threads \ {t} : pc'[u] = pc[u] /\ result'[u] = result[u],
         pc'[t] \notin Reads \/ (pc'[t] \in Reads /\ result'[t] = <<>>)
  PROVE  ReadSoFar' /\ OwnOutputsReadBack'
<1>1. \A u, ch : Owns(u, ch)' <=> Owns(u, ch)
  BY DEF Owns
<1>2. \A r \in Reads : Len(Table[r]) \in Nat
  BY TableRows
<1>3. pc'[t] \in Reads => Len(result'[t]) <= Len(Table[pc'[t]])
  <2> SUFFICES ASSUME pc'[t] \in Reads PROVE Len(result'[t]) <= Len(Table[pc'[t]])
    OBVIOUS
  <2>1. Len(result'[t]) = 0
    OBVIOUS
  <2> QED
    BY <1>2, <2>1
<1>4. ReadSoFar'
  BY <1>3 DEF ReadSoFar
<1>5. pc'[t] = "read_do" \/ pc'[t] = "read_ao" => DOMAIN result'[t] = {}
  BY TableRows
<1>6. OwnOutputsReadBack'
  <2>1. ASSUME NEW u \in Threads, NEW k \in DOMAIN result'[u]
        PROVE  /\ pc'[u] = "read_do" /\ Owns(u, DoBits[k].ch) =>
                    \A v \in asked.do[k] : result'[u][k] = v
               /\ pc'[u] = "read_ao" /\ Owns(u, Ao[k]) =>
                    \A raw \in asked.ao[k] : Representable(Ao[k], raw) => result'[u][k] = raw
    <3>1. CASE u = t
      BY <1>5, <2>1, <3>1
    <3>2. CASE u # t
      BY <2>1, <3>2 DEF OwnOutputsReadBack
    <3> QED
      BY <3>1, <3>2
  <2>2. \A u \in Threads : \A k \in DOMAIN result'[u] :
          /\ pc'[u] = "read_do" /\ Owns(u, DoBits[k].ch)' =>
               \A v \in asked'.do[k] : result'[u][k] = v
          /\ pc'[u] = "read_ao" /\ Owns(u, Ao[k])' =>
               \A raw \in asked'.ao[k] : Representable(Ao[k], raw) => result'[u][k] = raw
    BY <1>1, <2>1
  <2> QED
    BY <2>2 DEF OwnOutputsReadBack
<1> QED
  BY <1>4, <1>6

Item == [k : Int, v : {0, 1}]

\* write_do and write_do_all start with at least one item.
LEMMA ItemsType ==
  ASSUME NEW items \in OneOutput \cup AllOutputs
  PROVE  items \in Seq(Item) /\ items # <<>>
<1>1. CASE items \in OneOutput
  <2>1. PICK k \in -1 .. Len(DoBits), v \in {0, 1} : items = <<[k |-> k, v |-> v]>>
    BY <1>1 DEF OneOutput
  <2>2. Len(DoBits) \in Nat
    BY DoTable
  <2>3. [k |-> k, v |-> v] \in Item
    BY <2>2 DEF Item
  <2> QED
    BY <2>1, <2>3
<1>2. CASE items \in AllOutputs
  <2>1. PICK vs \in Vectors : items = [j \in DOMAIN vs |-> [k |-> j - 1, v |-> vs[j]]]
    BY <1>2 DEF AllOutputs
  <2>2. vs \in Seq({0, 1}) /\ vs # <<>>
    BY ValuesAssumption
  <2>3. PICK n \in Nat : n = Len(vs) /\ DOMAIN vs = 1 .. n /\ n # 0
    BY <2>2
  <2>4. DOMAIN items = 1 .. n /\ items = [j \in 1 .. n |-> items[j]]
    BY <2>1, <2>3
  <2>5. \A j \in 1 .. n : items[j] \in Item
    BY <2>1, <2>2, <2>3 DEF Item
  <2>6. items \in [1 .. n -> Item]
    BY <2>4, <2>5
  <2>7. items \in Seq(Item)
    BY <2>6, SeqDef
  <2> QED
    BY <2>3, <2>4, <2>7
<1> QED
  BY <1>1, <1>2

\* The initial states satisfy the invariant.
LEMMA StartsWell ==
  Init => IOInv
<1> SUFFICES ASSUME Init PROVE IOInv
  OBVIOUS
<1>1. \A i \in {"in", "out"} : img[i] \in Contents(i)
  BY ImageAssumption DEF Init, Contents
<1>2. TypeOK
  <2>1. DOMAIN img = {"in", "out"} /\ attached \in BOOLEAN /\ owner \in Owners
    BY DEF Init
  <2>2. /\ pc \in [Threads -> {"idle", "bit", "modify"} \cup Reads]
        /\ todo \in [Threads -> Seq([k : Int, v : {0, 1}])]
        /\ current \in [Threads -> Int]
        /\ result \in [Threads -> Seq(Int)]
        /\ steady \in [Threads -> BOOLEAN]
    BY DEF Init
  <2>3. \A t \in Threads : pc[t] = "idle" /\ todo[t] = <<>> /\ result[t] = <<>>
    BY DEF Init
  <2>4. asked \in [do : [DOMAIN DoBits -> SUBSET {0, 1}], ao : [DOMAIN Ao -> SUBSET Int]]
    BY NothingAsked DEF Init
  <2> QED
    BY <1>1, <2>1, <2>2, <2>3, <2>4 DEF TypeOK
<1>3. Driven /\ ReadBackHolds
  BY DEF Init, Driven, ReadBackHolds
<1>4. Session
  BY DEF Init, Session
<1>5. Holds
  BY NothingAsked DEF Init, Holds
<1>6. ReadSoFar /\ OwnOutputsReadBack
  BY TableRows DEF Init, ReadSoFar, OwnOutputsReadBack
<1> QED
  BY <1>2, <1>3, <1>4, <1>5, <1>6 DEF IOInv

\* Calling write_do or write_do_all keeps the invariant.
LEMMA CallWriteDoKeeps ==
  ASSUME IOInv, NEW t \in Threads, NEW items \in OneOutput \cup AllOutputs,
         CallWriteDo(t, items)
  PROVE  IOInv'
<1> USE DEF IOInv
<1>1. items \in Seq(Item) /\ items # <<>>
  BY ItemsType
<1>2. TypeOK'
  BY <1>1, TableRows DEF TypeOK, CallWriteDo, Item, Contents, Size
<1>3. Driven'
  BY DEF Driven, CallWriteDo, TypeOK, Owns
<1>4. Session'
  BY DEF Session, CallWriteDo, TypeOK
<1>5. ReadBackHolds'
  BY SameImage DEF ReadBackHolds, CallWriteDo, TypeOK, Target
<1>6. Holds'
  BY SameOutputs DEF CallWriteDo
<1>7. ReadSoFar' /\ OwnOutputsReadBack'
  BY TableRows, SameReads DEF CallWriteDo, TypeOK
<1> QED
  BY <1>2, <1>3, <1>4, <1>5, <1>6, <1>7

\* An IndexError in the middle of write_do_all keeps it.
LEMMA RaiseIndexErrorKeeps ==
  ASSUME IOInv, NEW t \in Threads, RaiseIndexError(t)
  PROVE  IOInv'
<1> USE DEF IOInv
<1>1. TypeOK'
  BY TableRows DEF TypeOK, RaiseIndexError, Contents, Size
<1>2. Driven'
  BY DEF Driven, RaiseIndexError, TypeOK, Owns
<1>3. Session'
  BY DEF Session, RaiseIndexError, TypeOK
<1>4. ReadBackHolds'
  BY SameImage DEF ReadBackHolds, RaiseIndexError, TypeOK, Target
<1>5. Holds'
  BY SameOutputs DEF RaiseIndexError
<1>6. ReadSoFar' /\ OwnOutputsReadBack'
  BY TableRows, SameReads DEF RaiseIndexError, TypeOK
<1> QED
  BY <1>1, <1>2, <1>3, <1>4, <1>5, <1>6

\* Calling one of the four reads keeps it.
LEMMA CallReadKeeps ==
  ASSUME IOInv, NEW t \in Threads, NEW r \in Reads, CallRead(t, r)
  PROVE  IOInv'
<1> USE DEF IOInv
<1>1. result[t] = <<>>
  BY TableRows DEF CallRead, TypeOK
<1>2. TypeOK'
  BY TableRows DEF TypeOK, CallRead, Contents, Size
<1>3. Driven'
  BY TableRows DEF Driven, CallRead, TypeOK, Owns
<1>4. Session'
  BY DEF Session, CallRead
<1>5. ReadBackHolds'
  BY SameImage, TableRows DEF ReadBackHolds, CallRead, TypeOK, Target
<1>6. Holds'
  BY SameOutputs DEF CallRead
<1>7. ReadSoFar' /\ OwnOutputsReadBack'
  BY <1>1, TableRows, SameReads DEF CallRead, TypeOK
<1> QED
  BY <1>2, <1>3, <1>4, <1>5, <1>6, <1>7

\* Returning from a read keeps it.
LEMMA ReturnReadKeeps ==
  ASSUME IOInv, NEW t \in Threads, ReturnRead(t)
  PROVE  IOInv'
<1> USE DEF IOInv
<1>1. TypeOK'
  BY TableRows DEF TypeOK, ReturnRead, Contents, Size
<1>2. Driven'
  BY TableRows DEF Driven, ReturnRead, TypeOK, Owns
<1>3. Session'
  BY DEF Session, ReturnRead
<1>4. ReadBackHolds'
  BY SameImage, TableRows DEF ReadBackHolds, ReturnRead, TypeOK, Target
<1>5. Holds'
  BY SameOutputs DEF ReturnRead
<1>6. ReadSoFar' /\ OwnOutputsReadBack'
  BY TableRows, SameReads DEF ReturnRead, TypeOK
<1> QED
  BY <1>1, <1>2, <1>3, <1>4, <1>5, <1>6

\* A write_do between its read and its write: its output exists, and its thread
\* owns the byte.
LEMMA TargetIsOutput ==
  ASSUME TypeOK, Driven, NEW t \in Threads, pc[t] \in {"bit", "modify"},
         InRange(Head(todo[t]).k)
  PROVE  /\ todo[t] \in Seq(Item) /\ todo[t] # <<>> /\ Head(todo[t]) \in Item
         /\ Head(todo[t]).k + 1 \in DOMAIN DoBits
         /\ Target(t) \in ChannelType
         /\ Owns(t, Target(t))
<1>1. todo[t] \in Seq(Item) /\ todo[t] # <<>>
  BY DEF TypeOK, Item
<1>2. 1 \in DOMAIN todo[t] /\ Head(todo[t]) = todo[t][1] /\ Head(todo[t]) \in Item
  BY <1>1
<1>3. Head(todo[t]).k \in Int /\ Len(DoBits) \in Nat /\ DOMAIN DoBits = 1 .. Len(DoBits)
  BY <1>2, DoTable DEF Item
<1>4. Head(todo[t]).k + 1 \in DOMAIN DoBits
  BY <1>3 DEF InRange
<1>5. Target(t) \in ChannelType
  BY <1>4, DoTable DEF Target
<1>6. Owns(t, Target(t))
  BY <1>2 DEF Driven, Target
<1> QED
  BY <1>1, <1>2, <1>4, <1>5, <1>6

\* write_do's read keeps it: the byte read back shows what was asked.
LEMMA ReadBackKeeps ==
  ASSUME IOInv, NEW t \in Threads, ReadBack(t)
  PROVE  IOInv'
<1> USE DEF IOInv
<1>1. PICK n : n = Head(todo[t]).k + 1
  OBVIOUS
<1>2. PICK ch : ch = DoBits[n].ch
  OBVIOUS
<1>3. pc[t] \in {"bit", "modify"} /\ InRange(Head(todo[t]).k)
  BY DEF ReadBack
<1>4. n \in DOMAIN DoBits /\ ch \in ChannelType /\ ch = Target(t)
  BY <1>1, <1>2, <1>3, TargetIsOutput DEF Target
<1>5. PICK v : v = ChannelInt("in", ch)
  OBVIOUS
<1>6. v \in Int
  BY <1>4, <1>5, ReadsInt DEF TypeOK, ImageType, Images
<1>7. /\ pc' = [pc EXCEPT ![t] = "modify"] /\ current' = [current EXCEPT ![t] = v]
      /\ UNCHANGED <<attached, img, owner, todo, result, asked, steady>>
  BY <1>1, <1>2, <1>5 DEF ReadBack
<1>8. TypeOK'
  BY <1>3, <1>6, <1>7, TableRows DEF TypeOK, Contents, Size
<1>9. Driven'
  BY <1>3, <1>7 DEF Driven, TypeOK, Owns
<1>10. Session'
  BY <1>7 DEF Session
<1>11. ReadBackHolds'
  <2>1. \A u \in Threads : Target(u)' = Target(u)
    BY <1>7 DEF Target
  <2>2. \A c : ChannelInt("in", c)' = ChannelInt("in", c)
    BY <1>7, SameImage
  <2>3. \A k \in DOMAIN DoBits : DoBits[k].ch = ch =>
          \A w \in asked.do[k] : BitOf(v, DoBits[k].bit) = w
    BY <1>5 DEF Holds, OutputBit
  <2>4. current'[t] = v /\ \A u \in Threads \ {t} : current'[u] = current[u] /\ pc'[u] = pc[u]
    BY <1>7 DEF TypeOK
  <2> QED
    BY <1>4, <1>5, <1>7, <2>1, <2>2, <2>3, <2>4 DEF ReadBackHolds
<1>12. Holds'
  BY <1>7, SameOutputs
<1>13. ReadSoFar' /\ OwnOutputsReadBack'
  BY <1>7, TableRows, SameReads DEF TypeOK
<1> QED
  BY <1>8, <1>9, <1>10, <1>11, <1>12, <1>13

\* Every element of a read is an integer.
LEMMA ElementIsInt ==
  ASSUME TypeOK, NEW r \in Reads, NEW k \in 1 .. Len(Table[r])
  PROVE  Element(r, k) \in Int
<1>1. ImageType
  BY DEF TypeOK, ImageType, Images
<1>2. \A i \in Images, ch \in ChannelType : ChannelInt(i, ch) \in Int
  BY <1>1, ReadsInt
<1>3. \A i \in Images, ch \in ChannelType, b \in Nat : BitOf(ChannelInt(i, ch), b) \in Int
  <2> SUFFICES ASSUME NEW i \in Images, NEW ch \in ChannelType, NEW b \in Nat
               PROVE  BitOf(ChannelInt(i, ch), b) \in Int
    OBVIOUS
  <2>1. PICK v \in Int : v = ChannelInt(i, ch)
    BY <1>2
  <2>2. BitOf(v, b) \in {0, 1}
    BY BitType
  <2> QED
    BY <2>1, <2>2
<1>4. CASE r = "read_di"
  <2>1. k \in DOMAIN DiBits
    BY <1>4, InputTables DEF Table
  <2> QED
    BY <1>3, <1>4, <2>1, InputTables DEF Element, Images
<1>5. CASE r = "read_do"
  <2>1. k \in DOMAIN DoBits
    BY <1>5, DoTable DEF Table
  <2> QED
    BY <1>3, <1>5, <2>1, DoTable DEF Element, Images
<1>6. CASE r = "read_ai"
  <2>1. k \in DOMAIN Ai
    BY <1>6, InputTables DEF Table
  <2> QED
    BY <1>2, <1>6, <2>1, InputTables DEF Element, Images
<1>7. CASE r = "read_ao"
  <2>1. k \in DOMAIN Ao
    BY <1>7, AoTable DEF Table
  <2> QED
    BY <1>2, <1>7, <2>1, AoTable DEF Element, Images
<1> QED
  BY <1>4, <1>5, <1>6, <1>7, TableRows

\* Reading one element keeps it: an output of its own holds what the thread
\* asked.
LEMMA ReadElementKeeps ==
  ASSUME IOInv, NEW t \in Threads, ReadElement(t)
  PROVE  IOInv'
<1> USE DEF IOInv
<1>1. PICK r \in Reads : r = pc[t]
  BY DEF ReadElement
<1>2. PICK read \in Seq(Int) : read = result[t]
  BY DEF TypeOK
<1>3. PICK k \in 1 .. Len(Table[r]) : k = Len(read) + 1 /\ Len(read) < Len(Table[r])
  BY <1>1, <1>2, TableRows DEF ReadElement
<1>4. PICK e \in Int : e = Element(r, k)
  BY ElementIsInt
<1>5. /\ result' = [result EXCEPT ![t] = Append(read, e)]
      /\ UNCHANGED <<attached, img, owner, pc, todo, current, asked, steady>>
  BY <1>1, <1>2, <1>3, <1>4 DEF ReadElement
<1>6. /\ result'[t] = Append(read, e)
      /\ \A u \in Threads \ {t} : result'[u] = result[u]
  BY <1>5 DEF TypeOK
<1>7. TypeOK'
  <2>1. result' \in [Threads -> Seq(Int)]
    BY <1>5 DEF TypeOK
  <2> QED
    BY <1>1, <1>5, <1>6, <2>1 DEF TypeOK, Contents, Size
<1>8. Driven'
  BY <1>5 DEF Driven, Owns
<1>9. Session'
  BY <1>5 DEF Session
<1>10. ReadBackHolds'
  BY <1>5, SameImage DEF ReadBackHolds, Target
<1>11. Holds'
  BY <1>5, SameOutputs
<1>12. ReadSoFar'
  <2>1. Len(Append(read, e)) = k
    BY <1>3
  <2>2. k <= Len(Table[r])
    BY <1>3
  <2> QED
    BY <1>1, <1>5, <1>6, <2>1, <2>2 DEF ReadSoFar
<1>13. \A u, ch : Owns(u, ch)' <=> Owns(u, ch)
  BY <1>5 DEF Owns
<1>14. \A u \in Threads \ {t} : \A j \in DOMAIN result'[u] :
         /\ pc[u] = "read_do" /\ Owns(u, DoBits[j].ch) =>
              \A v \in asked.do[j] : result'[u][j] = v
         /\ pc[u] = "read_ao" /\ Owns(u, Ao[j]) =>
              \A raw \in asked.ao[j] : Representable(Ao[j], raw) => result'[u][j] = raw
  BY <1>6 DEF OwnOutputsReadBack
<1>15. ASSUME NEW j \in DOMAIN Append(read, e)
       PROVE  /\ pc[t] = "read_do" /\ Owns(t, DoBits[j].ch) =>
                   \A v \in asked.do[j] : Append(read, e)[j] = v
              /\ pc[t] = "read_ao" /\ Owns(t, Ao[j]) =>
                   \A raw \in asked.ao[j] : Representable(Ao[j], raw) => Append(read, e)[j] = raw
  <2>1. CASE j \in DOMAIN read
    <3>1. Append(read, e)[j] = read[j]
      BY <2>1
    <3> QED
      BY <1>2, <2>1, <3>1 DEF OwnOutputsReadBack
  <2>2. CASE j = k
    <3>1. Append(read, e)[j] = e
      BY <1>3, <2>2
    <3>2. ASSUME r = "read_do", NEW v \in asked.do[k] PROVE e = v
      <4>1. k \in DOMAIN DoBits
        BY <3>2, DoTable DEF Table
      <4>2. e = OutputBit(k)
        BY <1>4, <3>2 DEF Element, OutputBit
      <4> QED
        BY <3>2, <4>1, <4>2 DEF Holds
    <3>3. ASSUME r = "read_ao", NEW raw \in asked.ao[k], Representable(Ao[k], raw) PROVE e = raw
      <4>1. k \in DOMAIN Ao
        BY <3>3, AoTable DEF Table
      <4>2. PICK ch \in ChannelType : ch = Ao[k]
        BY <4>1, AoTable
      <4>3. raw \in Int
        BY <3>3, <4>1 DEF TypeOK
      <4>4. e = ChannelInt("in", ch)
        BY <1>4, <3>3, <4>2 DEF Element
      <4>5. ChannelInt("in", ch) = DecodeInt(EncodeInt(raw, ByteSize(ch)), ch.signed)
        BY <3>3, <4>1, <4>2 DEF Holds
      <4>6. Representable(ch, raw)
        BY <3>3, <4>2
      <4>7. DecodeInt(EncodeInt(raw, ByteSize(ch)), ch.signed) = raw
        BY <4>3, <4>6, DecodedRepresentable
      <4> QED
        BY <4>4, <4>5, <4>7
    <3> QED
      BY <1>1, <2>2, <3>1, <3>2, <3>3
  <2>3. j \in DOMAIN read \/ j = k
    BY <1>3
  <2> QED
    BY <2>1, <2>2, <2>3
<1>16. OwnOutputsReadBack'
  BY <1>5, <1>6, <1>13, <1>14, <1>15 DEF OwnOutputsReadBack
<1> QED
  BY <1>7, <1>8, <1>9, <1>10, <1>11, <1>12, <1>16

-----------------------------------------------------------------------------
(* The stack below. *)

LEMMA ExchangeKeeps ==
  ASSUME IOInv, Exchange
  PROVE  IOInv'
<1> USE DEF IOInv
<1>1. PICK frame \in Contents("out") : img' = [img EXCEPT !["out"] = frame]
  BY ImageAssumption DEF Exchange
<1>2. UNCHANGED <<attached, owner, pc, todo, current, result, asked, steady>>
  BY DEF Exchange
<1>3. /\ DOMAIN img' = {"in", "out"} /\ img'["in"] = img["in"]
      /\ \A i \in {"in", "out"} : img'[i] \in Contents(i)
  BY <1>1 DEF TypeOK
<1>4. TypeOK'
  BY <1>2, <1>3 DEF TypeOK, Contents, Size
<1>5. Driven'
  BY <1>2 DEF Driven, Owns
<1>6. Session'
  BY <1>2 DEF Session
<1>7. \A ch : ChannelInt("in", ch)' = ChannelInt("in", ch)
  BY <1>2, <1>3 DEF ChannelInt, Accessible
<1>8. ReadBackHolds'
  BY <1>2, <1>7 DEF ReadBackHolds, Target
<1>9. Holds'
  BY <1>2, <1>7 DEF Holds, OutputBit
<1>10. ReadSoFar' /\ OwnOutputsReadBack'
  BY <1>2 DEF ReadSoFar, OwnOutputsReadBack, Owns
<1> QED
  BY <1>4, <1>5, <1>6, <1>8, <1>9, <1>10

\* A new image keeps it: nothing is remembered of the one before.
LEMMA AttachKeeps ==
  ASSUME IOInv, Attach
  PROVE  IOInv'
<1> USE DEF IOInv
<1>1. /\ attached' = TRUE
      /\ UNCHANGED <<owner, pc, todo, current, result, asked, steady>>
      /\ asked = Nothing /\ \A t \in Threads : ~steady[t]
  BY DEF Attach, Session
<1>2. DOMAIN img' = {"in", "out"} /\ \A i \in {"in", "out"} : img'[i] \in Contents(i)
  BY ImageAssumption DEF Attach, Contents
<1>3. TypeOK'
  BY <1>1, <1>2 DEF TypeOK, Contents, Size
<1>4. Driven'
  BY <1>1 DEF Driven, Owns
<1>5. Session'
  BY <1>1 DEF Session
<1>6. ReadBackHolds'
  BY <1>1, NothingAsked DEF ReadBackHolds
<1>7. Holds'
  BY <1>1, NothingAsked DEF Holds
<1>8. ReadSoFar' /\ OwnOutputsReadBack'
  BY <1>1 DEF ReadSoFar, OwnOutputsReadBack, Owns
<1> QED
  BY <1>3, <1>4, <1>5, <1>6, <1>7, <1>8

\* Shutdown keeps it: it forgets what was asked.
LEMMA DetachKeeps ==
  ASSUME IOInv, Detach
  PROVE  IOInv'
<1> USE DEF IOInv
<1>1. /\ attached' = FALSE /\ asked' = Nothing /\ steady' = [t \in Threads |-> FALSE]
      /\ UNCHANGED <<img, owner, pc, todo, current, result>>
  BY DEF Detach
<1>2. TypeOK'
  BY <1>1, NothingAsked DEF TypeOK, Contents, Size
<1>3. Driven'
  BY <1>1 DEF Driven, Owns
<1>4. Session'
  BY <1>1 DEF Session
<1>5. ReadBackHolds'
  BY <1>1, NothingAsked DEF ReadBackHolds
<1>6. Holds'
  BY <1>1, NothingAsked DEF Holds
<1>7. ReadSoFar'
  BY <1>1 DEF ReadSoFar
<1>8. OwnOutputsReadBack'
  <2>1. ASSUME NEW t \in Threads, NEW k \in DOMAIN result[t]
        PROVE  /\ pc[t] = "read_do" => asked'.do[k] = {}
               /\ pc[t] = "read_ao" => asked'.ao[k] = {}
    <3>1. PICK read \in Seq(Int) : read = result[t]
      BY DEF TypeOK
    <3>2. k \in 1 .. Len(read) /\ Len(read) \in Nat
      BY <2>1, <3>1
    <3>3. pc[t] \in Reads => Len(read) <= Len(Table[pc[t]])
      BY <3>1 DEF ReadSoFar
    <3>4. pc[t] = "read_do" => k \in DOMAIN DoBits
      BY <3>2, <3>3, TableRows, DoTable
    <3>5. pc[t] = "read_ao" => k \in DOMAIN Ao
      BY <3>2, <3>3, TableRows, AoTable
    <3> QED
      BY <1>1, <3>4, <3>5, NothingAsked
  <2> QED
    BY <1>1, <2>1 DEF OwnOutputsReadBack
<1> QED
  BY <1>2, <1>3, <1>4, <1>5, <1>6, <1>7, <1>8

-----------------------------------------------------------------------------
(* Writing an analog output. *)

\* Only one thread owns an output.
LEMMA OneOwner ==
  ASSUME NEW ch \in ChannelType, NEW t, NEW u, Owns(t, ch), Owns(u, ch)
  PROVE  t = u
BY Sizes DEF Owns

\* write_ao keeps it: nobody else is writing or reading back these bytes as
\* their owner.
LEMMA WriteAoKeeps ==
  ASSUME IOInv, NEW t \in Threads, NEW k \in DOMAIN Ao, NEW raw \in Int, WriteAo(t, k, raw)
  PROVE  IOInv'
<1> USE DEF IOInv
<1>1. PICK ch \in ChannelType : ch = Ao[k]
  BY AoTable
<1>2. /\ pc[t] = "idle" /\ Owns(t, ch)
      /\ WriteChannelInt(ch, raw)
      /\ asked' = IF Accessible("in", ch) THEN [asked EXCEPT !.ao[k] = {raw}] ELSE asked
      /\ UNCHANGED <<attached, owner, pc, todo, current, result, steady>>
  BY <1>1 DEF WriteAo
<1>3. ImageType
  BY DEF TypeOK, ImageType, Images
<1>4. /\ ImageType'
      /\ ~Accessible("in", ch) => img' = img
      /\ Accessible("in", ch) =>
           ChannelInt("in", ch)' = DecodeInt(EncodeInt(raw, ByteSize(ch)), ch.signed)
      /\ \A d \in ChannelType : Span(d) \cap Span(ch) = {} => ChannelInt("in", d)' = ChannelInt("in", d)
  BY <1>2, <1>3, Written
<1>5. /\ \A j \in DOMAIN DoBits : ChannelInt("in", DoBits[j].ch)' = ChannelInt("in", DoBits[j].ch)
      /\ \A j \in DOMAIN Ao : j # k => ChannelInt("in", Ao[j])' = ChannelInt("in", Ao[j])
  BY <1>1, <1>4, TablesApart, DoTable, AoTable
<1>6. /\ asked' \in [do : [DOMAIN DoBits -> SUBSET {0, 1}], ao : [DOMAIN Ao -> SUBSET Int]]
      /\ asked'.do = asked.do
      /\ \A j \in DOMAIN Ao : j # k => asked'.ao[j] = asked.ao[j]
      /\ Accessible("in", ch) => asked'.ao[k] = {raw}
      /\ ~Accessible("in", ch) => asked' = asked
  BY <1>2 DEF TypeOK
<1>7. TypeOK'
  BY <1>2, <1>4, <1>6 DEF TypeOK, ImageType, Images, Contents, Size
<1>8. Driven'
  BY <1>2 DEF Driven, Owns
<1>9. Session'
  BY <1>2, <1>6 DEF Session, Accessible
<1>10. ReadBackHolds'
  <2>1. ASSUME NEW u \in Threads, pc[u] = "modify"
        PROVE  ChannelInt("in", Target(u))' = ChannelInt("in", Target(u))
    <3>1. Head(todo[u]).k + 1 \in DOMAIN DoBits
      BY <2>1, TargetIsOutput DEF Driven
    <3>2. PICK n \in DOMAIN DoBits : n = Head(todo[u]).k + 1 /\ n = Head(todo'[u]).k + 1
      BY <1>2, <3>1
    <3> QED
      BY <1>5, <3>2 DEF Target
  <2>2. \A u \in Threads : Target(u)' = Target(u)
    BY <1>2 DEF Target
  <2> QED
    BY <1>2, <1>6, <2>1, <2>2 DEF ReadBackHolds
<1>11. Holds'
  <2>1. \A j \in DOMAIN DoBits : \A v \in asked'.do[j] : OutputBit(j)' = v
    BY <1>5, <1>6 DEF Holds, OutputBit
  <2>2. ASSUME NEW j \in DOMAIN Ao, NEW w \in asked'.ao[j]
        PROVE  ChannelInt("in", Ao[j])' = DecodeInt(EncodeInt(w, ByteSize(Ao[j])), Ao[j].signed)
    <3>1. CASE j # k
      BY <1>5, <1>6, <2>2, <3>1 DEF Holds
    <3>2. CASE j = k /\ Accessible("in", ch)
      BY <1>1, <1>4, <1>6, <2>2, <3>2
    <3>3. CASE j = k /\ ~Accessible("in", ch)
      <4>1. ChannelInt("in", Ao[j])' = ChannelInt("in", Ao[j])
        BY <1>2, <1>4, <3>3, SameImage
      <4> QED
        BY <1>6, <2>2, <3>3, <4>1 DEF Holds
    <3> QED
      BY <3>1, <3>2, <3>3
  <2> QED
    BY <2>1, <2>2 DEF Holds
<1>12. ReadSoFar'
  BY <1>2 DEF ReadSoFar
<1>13. OwnOutputsReadBack'
  <2>1. \A u, c : Owns(u, c)' <=> Owns(u, c)
    BY <1>2 DEF Owns
  <2>2. ASSUME NEW u \in Threads, NEW j \in DOMAIN result[u], pc[u] = "read_ao", Owns(u, Ao[j])
        PROVE  asked'.ao[j] = asked.ao[j]
    <3>1. j # k
      BY <1>1, <1>2, <2>2, OneOwner
    <3>2. PICK read \in Seq(Int) : read = result[u]
      BY DEF TypeOK
    <3>3. j \in 1 .. Len(read) /\ Len(read) \in Nat
      BY <2>2, <3>2
    <3>4. Len(read) <= Len(Ao)
      BY <2>2, <3>2, TableRows DEF ReadSoFar
    <3>5. j \in DOMAIN Ao
      BY <3>3, <3>4, AoTable
    <3> QED
      BY <1>6, <3>1, <3>5
  <2> QED
    BY <1>2, <1>6, <2>1, <2>2 DEF OwnOutputsReadBack
<1> QED
  BY <1>7, <1>8, <1>9, <1>10, <1>11, <1>12, <1>13

-----------------------------------------------------------------------------
(* Writing a digital output. *)

\* The byte that write_do writes differs from the one it read in that bit only.
LEMMA ModifiedByte ==
  ASSUME TypeOK, Driven, NEW t \in Threads, pc[t] = "modify",
         NEW n, n = Head(todo[t]).k + 1
  PROVE  /\ Modified(t) \in Int
         /\ BitOf(Modified(t), DoBits[n].bit) = Head(todo[t]).v
         /\ \A b \in 0 .. ByteBits - 1 :
              b # DoBits[n].bit => BitOf(Modified(t), b) = BitOf(current[t], b)
<1>1. n \in DOMAIN DoBits /\ Head(todo[t]).v \in {0, 1}
  BY TargetIsOutput DEF Driven, Item
<1>2. PICK v \in Int : v = current[t]
  BY DEF TypeOK
<1>3. PICK b \in Nat : b = DoBits[n].bit /\ b \in 0 .. ByteBits - 1
  BY <1>1, DoTable
<1>4. PICK value \in {0, 1} : value = Head(todo[t]).v
  BY <1>1
<1>5. PICK w : w = WithBit(v, b, value)
  OBVIOUS
<1>6. Modified(t) = LowByte(w)
  BY <1>2, <1>3, <1>4, <1>5 DEF Modified, WithBit
<1>7. w \in Int /\ BitOf(w, b) = value /\ \A c \in Nat \ {b} : BitOf(w, c) = BitOf(v, c)
  <2>1. v \in Int /\ b \in Nat /\ value \in {0, 1}
    OBVIOUS
  <2>2. /\ WithBit(v, b, value) \in Int
        /\ BitOf(WithBit(v, b, value), b) = value
        /\ \A c \in Nat \ {b} : BitOf(WithBit(v, b, value), c) = BitOf(v, c)
    BY <2>1, WrittenBit, Zenon
  <2> QED
    BY <1>5, <2>2, Zenon
<1>8. /\ LowByte(w) \in 0 .. Base - 1
      /\ \A c \in 0 .. ByteBits - 1 : BitOf(LowByte(w), c) = BitOf(w, c)
  BY <1>7, ByteKeepsBits
<1>9. Base \in Nat
  BY BaseIsPositive
<1>10. LowByte(w) \in Int
  BY <1>8, <1>9
<1>11. \A c \in 0 .. ByteBits - 1 : c \in Nat
  OBVIOUS
<1> QED
  BY <1>2, <1>3, <1>4, <1>6, <1>7, <1>8, <1>10, <1>11

\* What comes back of a byte that was written has its bits, whatever the sign.
LEMMA BitsComeBack ==
  ASSUME NEW v \in Int, NEW signed \in BOOLEAN, NEW b \in 0 .. ByteBits - 1
  PROVE  BitOf(DecodeInt(EncodeInt(v, 1), signed), b) = BitOf(v, b)
<1>1. PICK c \in Int : DecodeInt(EncodeInt(v, 1), signed) = v + Values(1) * c
  <2>1. 1 \in Nat \ {0}
    OBVIOUS
  <2> QED
    BY <2>1, DecodedIsCongruent
<1>2. Values(1) = TwoTo[ByteBits]
  BY BaseIsPositive DEF Base
<1>3. b \in Nat /\ b < ByteBits /\ ByteBits \in Nat
  BY ByteBitsAssumption
<1>4. PICK n \in Nat : n = ByteBits
  BY <1>3
<1>5. BitOf(v + TwoTo[n] * c, b) = BitOf(v, b)
  BY <1>3, <1>4, HigherBitsApart
<1> QED
  BY <1>1, <1>2, <1>4, <1>5

\* The effect of WriteBit(t): the bit is written, the other bits of the byte
\* are those of the byte that was read back, every other output keeps its value.
LEMMA BitWritten ==
  ASSUME TypeOK, Driven, NEW t \in Threads, WriteBit(t),
         NEW n, n = Head(todo[t]).k + 1
  PROVE  /\ n \in DOMAIN DoBits /\ Head(todo[t]).v \in {0, 1}
         /\ ImageType'
         /\ ~Accessible("in", Target(t)) => img' = img
         /\ Accessible("in", Target(t)) =>
              /\ OutputBit(n)' = Head(todo[t]).v
              /\ \A k \in DOMAIN DoBits : k # n /\ DoBits[k].ch = Target(t) =>
                   OutputBit(k)' = BitOf(current[t], DoBits[k].bit)
              /\ \A b \in 0 .. ByteBits - 1 : b # DoBits[n].bit =>
                   BitOf(ChannelInt("in", DoBits[n].ch)', b) = BitOf(current[t], b)
         /\ \A d \in ChannelType :
              Span(d) \cap Span(Target(t)) = {} => ChannelInt("in", d)' = ChannelInt("in", d)
<1>1. pc[t] = "modify" /\ InRange(Head(todo[t]).k)
  BY DEF WriteBit, Driven
<1>2. n \in DOMAIN DoBits /\ Head(todo[t]).v \in {0, 1}
  BY <1>1, TargetIsOutput DEF Item
<1>3. PICK ch \in ChannelType : ch = DoBits[n].ch
  BY <1>2, DoTable
<1>4. Target(t) = ch
  BY <1>3 DEF Target
<1>5. PICK v : v = Modified(t)
  OBVIOUS
<1>6. /\ v \in Int /\ BitOf(v, DoBits[n].bit) = Head(todo[t]).v
      /\ \A b \in 0 .. ByteBits - 1 : b # DoBits[n].bit => BitOf(v, b) = BitOf(current[t], b)
  BY <1>1, <1>5, ModifiedByte
<1>7. WriteChannelInt(ch, v) /\ attached' = attached
  BY <1>3, <1>5 DEF WriteBit
<1>8. ImageType
  BY DEF TypeOK, ImageType, Images
<1>9. /\ ImageType'
      /\ ~Accessible("in", ch) => img' = img
      /\ Accessible("in", ch) =>
           ChannelInt("in", ch)' = DecodeInt(EncodeInt(v, ByteSize(ch)), ch.signed)
      /\ \A d \in ChannelType :
           Span(d) \cap Span(ch) = {} => ChannelInt("in", d)' = ChannelInt("in", d)
  BY <1>6, <1>7, <1>8, Written
<1>10. ASSUME Accessible("in", ch)
       PROVE  \A b \in 0 .. ByteBits - 1 : BitOf(ChannelInt("in", ch)', b) = BitOf(v, b)
  <2>1. ByteSize(ch) = 1 /\ ch.signed \in BOOLEAN
    BY <1>2, <1>3, DoTable, Sizes
  <2>2. ChannelInt("in", ch)' = DecodeInt(EncodeInt(v, 1), ch.signed)
    BY <1>9, <1>10, <2>1
  <2>3. PICK s \in BOOLEAN : s = ch.signed
    BY <2>1
  <2>4. \A b \in 0 .. ByteBits - 1 : BitOf(DecodeInt(EncodeInt(v, 1), s), b) = BitOf(v, b)
    BY <1>6, BitsComeBack
  <2> QED
    BY <2>2, <2>3, <2>4
<1>11. \A k \in DOMAIN DoBits : DoBits[k].ch = ch => OutputBit(k)' = BitOf(ChannelInt("in", ch)', DoBits[k].bit)
  BY DEF OutputBit
<1>12. \A k \in DOMAIN DoBits : DoBits[k].bit \in 0 .. ByteBits - 1
  BY DoTable
<1>13. ASSUME NEW k \in DOMAIN DoBits, k # n, DoBits[k].ch = ch
       PROVE  DoBits[k].bit # DoBits[n].bit
  <2>1. DoBits[k] \in Bit /\ DoBits[n] \in Bit
    BY <1>2, DoTable
  <2>2. DoBits[k] # DoBits[n]
    BY <1>2, <1>13, DoTable DEF NoRepeat
  <2> QED
    BY <1>3, <1>13, <2>1, <2>2 DEF Bit
<1>14. ASSUME Accessible("in", ch)
       PROVE  /\ OutputBit(n)' = Head(todo[t]).v
              /\ \A k \in DOMAIN DoBits : k # n /\ DoBits[k].ch = ch =>
                   OutputBit(k)' = BitOf(current[t], DoBits[k].bit)
              /\ \A b \in 0 .. ByteBits - 1 : b # DoBits[n].bit =>
                   BitOf(ChannelInt("in", ch)', b) = BitOf(current[t], b)
  <2>1. OutputBit(n)' = BitOf(ChannelInt("in", ch)', DoBits[n].bit)
    BY <1>2, <1>3, <1>11
  <2>2. OutputBit(n)' = Head(todo[t]).v
    BY <1>2, <1>6, <1>10, <1>12, <1>14, <2>1
  <2>3. \A b \in 0 .. ByteBits - 1 : b # DoBits[n].bit =>
          BitOf(ChannelInt("in", ch)', b) = BitOf(current[t], b)
    BY <1>6, <1>10, <1>14
  <2>4. \A k \in DOMAIN DoBits : k # n /\ DoBits[k].ch = ch =>
          OutputBit(k)' = BitOf(current[t], DoBits[k].bit)
    BY <1>11, <1>12, <1>13, <2>3
  <2> QED
    BY <2>2, <2>3, <2>4
<1> QED
  BY <1>2, <1>3, <1>4, <1>9, <1>14

\* write_do's write keeps it: the other bits of the byte are those asked
\* for, and no other writer is in the middle of this byte.
LEMMA WriteBitKeeps ==
  ASSUME IOInv, NEW t \in Threads, WriteBit(t)
  PROVE  IOInv'
<1> USE DEF IOInv
<1>1. PICK n : n = Head(todo[t]).k + 1
  OBVIOUS
<1>2. PICK v : v = Head(todo[t]).v
  OBVIOUS
<1>3. pc[t] = "modify" /\ InRange(Head(todo[t]).k)
  BY DEF WriteBit, Driven
<1>4. PICK ch \in ChannelType : ch = DoBits[n].ch /\ ch = Target(t) /\ n \in DOMAIN DoBits /\ Owns(t, ch)
  BY <1>1, <1>3, TargetIsOutput, DoTable DEF Target
<1>5. /\ v \in {0, 1}
      /\ ImageType'
      /\ ~Accessible("in", ch) => img' = img
      /\ Accessible("in", ch) =>
           /\ OutputBit(n)' = v
           /\ \A k \in DOMAIN DoBits : k # n /\ DoBits[k].ch = ch =>
                OutputBit(k)' = BitOf(current[t], DoBits[k].bit)
      /\ \A d \in ChannelType :
           Span(d) \cap Span(ch) = {} => ChannelInt("in", d)' = ChannelInt("in", d)
  BY <1>1, <1>2, <1>4, BitWritten
<1>6. PICK left \in Seq(Item) : left = todo[t] /\ left # <<>>
  BY <1>3, TargetIsOutput
<1>7. /\ asked' = IF Accessible("in", ch) THEN [asked EXCEPT !.do[n] = {v}] ELSE asked
      /\ todo' = [todo EXCEPT ![t] = Tail(left)]
      /\ pc' = [pc EXCEPT ![t] = IF Len(left) = 1 THEN "idle" ELSE "bit"]
      /\ current' = [current EXCEPT ![t] = 0]
      /\ steady' = [steady EXCEPT ![t] = @ /\ Len(left) > 1]
      /\ UNCHANGED <<attached, owner, result>>
  BY <1>1, <1>2, <1>4, <1>6 DEF WriteBit, TypeOK
<1>8. /\ asked' \in [do : [DOMAIN DoBits -> SUBSET {0, 1}], ao : [DOMAIN Ao -> SUBSET Int]]
      /\ asked'.ao = asked.ao
      /\ \A k \in DOMAIN DoBits : k # n => asked'.do[k] = asked.do[k]
      /\ Accessible("in", ch) => asked'.do[n] = {v}
      /\ ~Accessible("in", ch) => asked' = asked
  BY <1>4, <1>5, <1>7 DEF TypeOK
<1>9. /\ pc'[t] = IF Len(left) = 1 THEN "idle" ELSE "bit"
      /\ todo'[t] = Tail(left)
      /\ \A u \in Threads \ {t} : /\ pc'[u] = pc[u] /\ todo'[u] = todo[u]
                                  /\ current'[u] = current[u] /\ steady'[u] = steady[u]
  BY <1>7 DEF TypeOK
<1>10. /\ Tail(left) \in Seq(Item) /\ (Tail(left) # <<>> <=> Len(left) # 1)
       /\ \A j \in DOMAIN Tail(left) : j + 1 \in DOMAIN left /\ Tail(left)[j] = left[j + 1]
  <2>1. PICK m \in Nat : m = Len(left) /\ m # 0
    BY <1>6
  <2>2. Tail(left) \in Seq(Item) /\ Len(Tail(left)) = m - 1
    BY <1>6, <2>1
  <2>3. \A j \in 1 .. m - 1 : Tail(left)[j] = left[j + 1]
    BY <1>6, <2>1
  <2>4. DOMAIN Tail(left) = 1 .. m - 1 /\ DOMAIN left = 1 .. m
    BY <1>6, <2>1, <2>2
  <2>5. Tail(left) # <<>> <=> m # 1
    <3>1. PICK s \in Seq(Item) : s = Tail(left)
      BY <2>2
    <3>2. Len(s) = m - 1
      BY <2>2, <3>1
    <3>3. s # <<>> <=> Len(s) # 0
      OBVIOUS
    <3> QED
      BY <2>1, <3>1, <3>2, <3>3
  <2> QED
    BY <2>1, <2>2, <2>3, <2>4, <2>5
<1>11. TypeOK'
  <2>1. /\ pc' \in [Threads -> {"idle", "bit", "modify"} \cup Reads]
        /\ current' \in [Threads -> Int]
        /\ steady' \in [Threads -> BOOLEAN]
    BY <1>7 DEF TypeOK
  <2>2. todo' \in [Threads -> Seq([k : Int, v : {0, 1}])]
    BY <1>7, <1>10 DEF TypeOK, Item
  <2>3. \A u \in Threads : /\ todo'[u] # <<>> <=> pc'[u] \in {"bit", "modify"}
                           /\ result'[u] # <<>> => pc'[u] \in Reads
    <3>1. result[t] = <<>>
      BY <1>3, TableRows DEF TypeOK
    <3> QED
      BY <1>7, <1>9, <1>10, <3>1 DEF TypeOK
  <2>4. attached' \in BOOLEAN /\ owner' \in Owners /\ result' \in [Threads -> Seq(Int)]
    BY <1>7 DEF TypeOK
  <2>5. DOMAIN img' = {"in", "out"} /\ \A i \in {"in", "out"} : img'[i] \in Contents(i)
    BY <1>5 DEF ImageType, Images, Contents, Size
  <2> QED
    BY <1>8, <2>1, <2>2, <2>3, <2>4, <2>5 DEF TypeOK, Contents, Size
<1>12. Driven'
  <2>1. \A u, c : Owns(u, c)' <=> Owns(u, c)
    BY <1>7 DEF Owns
  <2>2. \A j \in DOMAIN Tail(left) :
          InRange(Tail(left)[j].k) => Owns(t, DoBits[Tail(left)[j].k + 1].ch)
    BY <1>6, <1>10 DEF Driven
  <2> QED
    <3>1. ASSUME NEW u \in Threads
          PROVE  /\ \A j \in DOMAIN todo'[u] :
                      InRange(todo'[u][j].k) => Owns(u, DoBits[todo'[u][j].k + 1].ch)
                 /\ pc'[u] = "modify" => InRange(Head(todo'[u]).k)
      <4>1. CASE u = t
        BY <1>9, <2>2, <4>1
      <4>2. CASE u # t
        BY <1>9, <4>2 DEF Driven
      <4> QED
        BY <4>1, <4>2
    <3> QED
      BY <2>1, <3>1 DEF Driven
<1>13. Session'
  BY <1>7, <1>8 DEF Session, Accessible, TypeOK
<1>14. \A k \in DOMAIN DoBits : DoBits[k].ch # ch =>
         ChannelInt("in", DoBits[k].ch)' = ChannelInt("in", DoBits[k].ch)
  BY <1>4, <1>5, TablesApart, DoTable
<1>15. ReadBackHolds'
  <2>1. ASSUME NEW u \in Threads, u # t, pc[u] = "modify"
        PROVE  /\ Target(u) # ch
               /\ ChannelInt("in", Target(u))' = ChannelInt("in", Target(u))
    <3>1. InRange(Head(todo[u]).k)
      BY <2>1 DEF Driven
    <3>2. Head(todo[u]).k + 1 \in DOMAIN DoBits /\ Owns(u, Target(u))
      BY <2>1, <3>1, TargetIsOutput
    <3>3. PICK m \in DOMAIN DoBits : m = Head(todo[u]).k + 1 /\ m = Head(todo'[u]).k + 1
      BY <1>9, <2>1, <3>2
    <3>4. Target(u) # ch
      BY <1>4, <2>1, <3>2, OneOwner
    <3> QED
      BY <1>14, <3>3, <3>4 DEF Target
  <2>2. \A u \in Threads : u # t => Target(u)' = Target(u)
    BY <1>9 DEF Target
  <2>3. pc'[t] # "modify"
    BY <1>9
  <2>4. \A k \in DOMAIN DoBits : DoBits[k].ch # ch => asked'.do[k] = asked.do[k]
    BY <1>4, <1>8
  <2> QED
    BY <1>9, <2>1, <2>2, <2>3, <2>4 DEF ReadBackHolds
<1>16. Holds'
  <2>1. CASE ~Accessible("in", ch)
    BY <1>5, <1>7, <1>8, <2>1, SameOutputs
  <2>2. CASE Accessible("in", ch)
    <3>1. ASSUME NEW k \in DOMAIN DoBits, NEW w \in asked'.do[k] PROVE OutputBit(k)' = w
      <4>1. CASE k = n
        BY <1>5, <1>8, <2>2, <3>1, <4>1
      <4>2. CASE k # n /\ DoBits[k].ch = ch
        <5>1. w \in asked.do[k]
          BY <1>8, <3>1, <4>2
        <5>2. BitOf(current[t], DoBits[k].bit) = w
          BY <1>3, <1>4, <4>2, <5>1 DEF ReadBackHolds
        <5> QED
          BY <1>5, <2>2, <4>2, <5>2
      <4>3. CASE DoBits[k].ch # ch
        <5>1. w \in asked.do[k]
          BY <1>4, <1>8, <3>1, <4>3
        <5>2. OutputBit(k) = w
          BY <5>1 DEF Holds
        <5> QED
          BY <1>14, <4>3, <5>2 DEF OutputBit
      <4> QED
        BY <4>1, <4>2, <4>3
    <3>2. \A k \in DOMAIN Ao : ChannelInt("in", Ao[k])' = ChannelInt("in", Ao[k])
      BY <1>4, <1>5, TablesApart, AoTable
    <3> QED
      BY <1>8, <3>1, <3>2 DEF Holds
  <2> QED
    BY <2>1, <2>2
<1>17. ReadSoFar'
  BY <1>3, <1>7, <1>9, TableRows DEF ReadSoFar
<1>18. OwnOutputsReadBack'
  <2>1. \A u, c : Owns(u, c)' <=> Owns(u, c)
    BY <1>7 DEF Owns
  <2>2. ASSUME NEW u \in Threads, u # t, NEW j \in DOMAIN result[u],
               pc[u] = "read_do", Owns(u, DoBits[j].ch)
        PROVE  asked'.do[j] = asked.do[j]
    <3>1. j # n
      BY <1>4, <2>2, OneOwner
    <3>2. PICK read \in Seq(Int) : read = result[u]
      BY DEF TypeOK
    <3>3. j \in 1 .. Len(read) /\ Len(read) \in Nat
      BY <2>2, <3>2
    <3>4. Len(read) <= Len(DoBits)
      BY <2>2, <3>2, TableRows DEF ReadSoFar
    <3>5. j \in DOMAIN DoBits
      BY <3>3, <3>4, DoTable
    <3> QED
      BY <1>8, <3>1, <3>5
  <2>3. pc'[t] \notin {"read_do", "read_ao"}
    BY <1>9
  <2> QED
    <3>1. ASSUME NEW u \in Threads, NEW j \in DOMAIN result[u]
          PROVE  /\ pc'[u] = "read_do" /\ Owns(u, DoBits[j].ch) =>
                      \A w \in asked'.do[j] : result[u][j] = w
                 /\ pc'[u] = "read_ao" /\ Owns(u, Ao[j]) =>
                      \A raw \in asked'.ao[j] : Representable(Ao[j], raw) => result[u][j] = raw
      <4>1. CASE u = t
        BY <2>3, <4>1
      <4>2. CASE u # t
        BY <1>8, <1>9, <2>2, <3>1, <4>2 DEF OwnOutputsReadBack
      <4> QED
        BY <4>1, <4>2
    <3>2. result' = result
      BY <1>7
    <3>3. \A u \in Threads : \A j \in DOMAIN result'[u] :
            /\ pc'[u] = "read_do" /\ Owns(u, DoBits[j].ch)' =>
                 \A w \in asked'.do[j] : result'[u][j] = w
            /\ pc'[u] = "read_ao" /\ Owns(u, Ao[j])' =>
                 \A raw \in asked'.ao[j] : Representable(Ao[j], raw) => result'[u][j] = raw
      BY <2>1, <3>1, <3>2
    <3> QED
      BY <3>3 DEF OwnOutputsReadBack
<1> QED
  BY <1>11, <1>12, <1>13, <1>15, <1>16, <1>17, <1>18

-----------------------------------------------------------------------------
(* The theorems. *)

LEMMA StutteringKeeps ==
  ASSUME IOInv, UNCHANGED vars
  PROVE  IOInv'
<1> USE DEF IOInv
<1>1. UNCHANGED <<attached, img, owner, pc, todo, current, result, asked, steady>>
  BY DEF vars
<1>2. TypeOK'
  BY <1>1 DEF TypeOK, Contents, Size
<1>3. Driven' /\ Session'
  BY <1>1 DEF Driven, Session, Owns
<1>4. ReadBackHolds'
  BY <1>1, SameImage DEF ReadBackHolds, Target
<1>5. Holds'
  BY <1>1, SameOutputs
<1>6. ReadSoFar' /\ OwnOutputsReadBack'
  BY <1>1 DEF ReadSoFar, OwnOutputsReadBack, Owns
<1> QED
  BY <1>2, <1>3, <1>4, <1>5, <1>6

\* Every step keeps the invariant.
LEMMA EveryStepKeeps ==
  IOInv /\ [Next]_vars => IOInv'
<1> SUFFICES ASSUME IOInv, [Next]_vars PROVE IOInv'
  OBVIOUS
<1>1. CASE UNCHANGED vars
  BY <1>1, StutteringKeeps
<1>2. ASSUME NEW t \in Threads, Thread(t) PROVE IOInv'
  <2>1. ASSUME NEW items \in OneOutput \cup AllOutputs, CallWriteDo(t, items) PROVE IOInv'
    BY <2>1, CallWriteDoKeeps
  <2>2. CASE RaiseIndexError(t)
    BY <2>2, RaiseIndexErrorKeeps
  <2>3. CASE ReadBack(t)
    BY <2>3, ReadBackKeeps
  <2>4. CASE WriteBit(t)
    BY <2>4, WriteBitKeeps
  <2>5. ASSUME NEW k \in DOMAIN Ao, NEW raw \in Raws, WriteAo(t, k, raw) PROVE IOInv'
    BY <2>5, WriteAoKeeps, ValuesAssumption
  <2>6. ASSUME NEW k \in DOMAIN Ao, NEW v \in Volts, WriteAoVolts(t, k, v) PROVE IOInv'
    <3>1. v[1] \in Int /\ v[2] \in Nat \ {0}
      BY ValuesAssumption
    <3>2. PICK raw \in Int : raw = VoltsToRaw(v[1], v[2])
      BY <3>1, VoltsAreCounts
    <3>3. WriteAo(t, k, raw)
      BY <2>6, <3>2 DEF WriteAoVolts
    <3> QED
      BY <3>3, WriteAoKeeps
  <2>7. ASSUME NEW r \in Reads, CallRead(t, r) PROVE IOInv'
    BY <2>7, CallReadKeeps
  <2>8. CASE ReadElement(t)
    BY <2>8, ReadElementKeeps
  <2>9. CASE ReturnRead(t)
    BY <2>9, ReturnReadKeeps
  <2> QED
    BY <1>2, <2>1, <2>2, <2>3, <2>4, <2>5, <2>6, <2>7, <2>8, <2>9 DEF Thread
<1>3. CASE Exchange
  BY <1>3, ExchangeKeeps
<1>4. CASE Attach
  BY <1>4, AttachKeeps
<1>5. CASE Detach
  BY <1>5, DetachKeeps
<1> QED
  BY <1>1, <1>2, <1>3, <1>4, <1>5 DEF Next

\* The invariant holds in every reachable state.
LEMMA Invariant ==
  Spec => []IOInv
BY StartsWell, EveryStepKeeps, PTL DEF Spec

\* The state of PowerlinkIO stays well formed, and every byte of the image in
\* its range, whatever write_do and write_ao compute (api.py:106-124).
THEOREM IoTypeCorrect ==
  Spec => []TypeOK
<1>1. IOInv => TypeOK
  BY DEF IOInv
<1> QED
  BY <1>1, Invariant, PTL

\* While every output byte has one writer, the image holds in every output what
\* was last written to it: write_do's read, modify and write (api.py:106-115)
\* undo no other write, at any interleaving of threads, cycles and restarts.
THEOREM OutputsAreKept ==
  Spec => []OutputsKept
<1>1. IOInv => OutputsKept
  <2> SUFFICES ASSUME IOInv PROVE OutputsKept
    OBVIOUS
  <2>1. \A k \in DOMAIN DoBits : \A v \in asked.do[k] : OutputBit(k) = v
    BY DEF IOInv, Holds
  <2>2. ASSUME NEW k \in DOMAIN Ao, NEW raw \in asked.ao[k]
        PROVE  EncodeInt(ChannelInt("in", Ao[k]), ByteSize(Ao[k])) = EncodeInt(raw, ByteSize(Ao[k]))
    <3>1. PICK ch \in ChannelType : ch = Ao[k]
      BY AoTable
    <3>2. PICK n \in Nat \ {0}, s \in BOOLEAN : n = ByteSize(ch) /\ s = ch.signed
      BY <3>1, Sizes
    <3>3. raw \in Int
      BY <2>2 DEF IOInv, TypeOK
    <3>4. ChannelInt("in", ch) = DecodeInt(EncodeInt(raw, n), s)
      BY <2>2, <3>1, <3>2 DEF IOInv, Holds
    <3>5. EncodeInt(DecodeInt(EncodeInt(raw, n), s), n) = EncodeInt(raw, n)
      BY <3>2, <3>3, EncodedAgain
    <3> QED
      BY <3>1, <3>2, <3>4, <3>5
  <2> QED
    BY <2>1, <2>2 DEF OutputsKept
<1> QED
  BY <1>1, Invariant, PTL

\* A thread that reads back its own outputs (api.py:129-137) gets what it
\* wrote, in the order of the channel table.
THEOREM OwnOutputsAreReadBack ==
  Spec => []OwnOutputsReadBack
<1>1. IOInv => OwnOutputsReadBack
  BY DEF IOInv
<1> QED
  BY <1>1, Invariant, PTL

\* What one write_do does to the image, in a session.
LEMMA WriteBitSparesTheRest ==
  ASSUME IOInv, NEW t \in Threads, WriteBit(t), steady[t],
         NEW ch \in Outputs, NEW b \in 0 .. ch.bits - 1,
         [ch |-> ch, bit |-> b] # DoBits[Head(todo[t]).k + 1]
  PROVE  BitOf(ChannelInt("in", ch)', b) = BitOf(ChannelInt("in", ch), b)
<1>1. PICK n : n = Head(todo[t]).k + 1
  OBVIOUS
<1>2. TypeOK /\ Driven /\ pc[t] = "modify"
  BY DEF IOInv, WriteBit
<1>3. n \in DOMAIN DoBits
  BY <1>1, <1>2, BitWritten
<1>4. PICK target \in ChannelType : target = DoBits[n].ch /\ target = Target(t) /\ target \in Outputs
  BY <1>1, <1>3, DoTable DEF Target
<1>5. /\ ~Accessible("in", target) => img' = img
      /\ Accessible("in", target) =>
           \A c \in 0 .. ByteBits - 1 : c # DoBits[n].bit =>
             BitOf(ChannelInt("in", target)', c) = BitOf(current[t], c)
      /\ \A d \in ChannelType :
           Span(d) \cap Span(target) = {} => ChannelInt("in", d)' = ChannelInt("in", d)
  <2>1. /\ ~Accessible("in", Target(t)) => img' = img
        /\ Accessible("in", Target(t)) =>
             \A c \in 0 .. ByteBits - 1 : c # DoBits[n].bit =>
               BitOf(ChannelInt("in", DoBits[n].ch)', c) = BitOf(current[t], c)
        /\ \A d \in ChannelType :
             Span(d) \cap Span(Target(t)) = {} => ChannelInt("in", d)' = ChannelInt("in", d)
    BY <1>1, <1>2, BitWritten
  <2> QED
    BY <1>4, <2>1
<1>6. ch \in ChannelType
  BY OutputsApart
<1>7. CASE ch # target
  BY <1>4, <1>5, <1>6, <1>7, OutputsApart
<1>8. CASE ~Accessible("in", target)
  <2>1. UNCHANGED <<attached, img>>
    BY <1>5, <1>8 DEF WriteBit
  <2> QED
    BY <2>1, SameImage
<1>9. CASE ch = target /\ Accessible("in", target)
  <2>1. target.bits \in Nat /\ target.bits <= ByteBits
    BY <1>3, <1>4, LayoutAssumption, Sizes
  <2>2. b \in 0 .. ByteBits - 1
    BY <1>9, <2>1, ByteBitsAssumption
  <2>3. DoBits[n] \in Bit
    BY <1>3, DoTable
  <2>4. b # DoBits[n].bit
    BY <1>1, <1>4, <1>9, <2>3 DEF Bit
  <2>5. current[t] = ChannelInt("in", target)
    BY <1>2, <1>4 DEF IOInv, ReadBackHolds
  <2> QED
    BY <1>5, <1>9, <2>2, <2>4, <2>5
<1> QED
  BY <1>7, <1>8, <1>9

\* In one session, writing a digital output changes that bit and no other output
\* of the image, whichever thread wrote it and whether or not anybody did
\* (test_write_digital_output_sets_only_that_bit).
THEOREM OnlyThatBitChanges ==
  Spec => OnlyThatBit
<1> DEFINE Spared ==
      \A t \in Threads :
        pc[t] = "modify" /\ todo'[t] # todo[t] /\ steady[t] =>
          \A ch \in {Layout.outputs[c] : c \in DOMAIN Layout.outputs} :
            \A b \in 0 .. ch.bits - 1 :
              [ch |-> ch, bit |-> b] # DoBits[Head(todo[t]).k + 1] =>
                BitOf(ChannelInt("in", ch), b)' = BitOf(ChannelInt("in", ch), b)
<1>1. IOInv /\ [Next]_vars => [Spared]_vars
  <2> SUFFICES ASSUME IOInv, Next, NEW t \in Threads,
                      pc[t] = "modify", todo'[t] # todo[t], steady[t],
                      NEW ch \in Outputs, NEW b \in 0 .. ch.bits - 1,
                      [ch |-> ch, bit |-> b] # DoBits[Head(todo[t]).k + 1]
               PROVE  BitOf(ChannelInt("in", ch)', b) = BitOf(ChannelInt("in", ch), b)
    BY DEF Outputs
  <2>1. todo \in [Threads -> Seq([k : Int, v : {0, 1}])]
    BY DEF IOInv, TypeOK
  <2>2. WriteBit(t)
    <3>1. ASSUME NEW u \in Threads, Thread(u) PROVE WriteBit(t)
      BY <2>1, <3>1, TableRows DEF Thread, CallWriteDo, RaiseIndexError, ReadBack, WriteBit,
        WriteAo, WriteAoVolts, CallRead, ReadElement, ReturnRead
    <3> QED
      BY <3>1 DEF Next, Exchange, Attach, Detach
  <2> QED
    BY <2>2, WriteBitSparesTheRest
<1> QED
  BY <1>1, Invariant, PTL DEF Spec, OnlyThatBit
=============================================================================
