----------------------------- MODULE DataLemmas -----------------------------
(***************************************************************************)
(* Facts about data that the proofs share: products and quotients,         *)
(* induction, recursive functions over intervals, sequences without        *)
(* repetitions.                                                            *)
(*                                                                         *)
(* The induction of the library takes an operator; this one takes a set,   *)
(* and rests on the least element of a set of naturals.                    *)
(***************************************************************************)
EXTENDS Integers, Sequences, SequenceTheorems, WellFoundedInduction, TLAPS

(* Products and quotients. *)

\* A quotient is known by the multiples around the dividend.
LEMMA Quotient ==
  ASSUME NEW n \in Nat, NEW d \in Nat \ {0}, NEW q \in Nat, d * q <= n, n < d * q + d
  PROVE  n \div d = q
  OBVIOUS

\* The multiples around the dividend.
LEMMA QuotientBounds ==
  ASSUME NEW n \in Nat, NEW d \in Nat \ {0}
  PROVE  /\ n \div d \in Nat
         /\ d * (n \div d) <= n /\ n < d * (n \div d) + d
  OBVIOUS

\* A product of naturals is one.
LEMMA ProductInNat ==
  ASSUME NEW a \in Nat, NEW b \in Nat
  PROVE  a * b \in Nat
  OBVIOUS

\* A larger factor makes a larger product.
LEMMA ProductMonotone ==
  ASSUME NEW a \in Nat, NEW b \in Nat, NEW c \in Nat, a <= b
  PROVE  a * c <= b * c
  OBVIOUS

\* Factors may be exchanged.
LEMMA Swap ==
  ASSUME NEW a \in Nat, NEW b \in Nat, NEW c \in Nat
  PROVE  a * (b * c) = b * (a * c)
  OBVIOUS

\* A number of whole rows and a rest: its quotient and its remainder.
LEMMA RowAndColumn ==
  ASSUME NEW w \in Nat \ {0}, NEW r \in Nat, NEW c \in 0..(w - 1)
  PROVE  (r * w + c) \div w = r /\ (r * w + c) % w = c
<1> DEFINE n == r * w + c
           q == n \div w
<1>1. r * w \in Nat /\ n \in Nat /\ w * r = r * w /\ n = r * w + c
  OBVIOUS
<1> HIDE DEF n
<1>2. q \in Nat /\ w * q <= n /\ n < w * q + w
  BY <1>1, QuotientBounds
<1>3. n % w = n - w * q
  BY <1>1, Z3
<1> HIDE DEF q
<1>4. w * q \in Nat
  BY <1>2, ProductInNat
<1>5. q = r
  <2>1. ASSUME r + 1 <= q PROVE FALSE
    <3>1. w * (r + 1) <= w * q /\ w * (r + 1) = w * r + w
      <4>1. (r + 1) * w <= q * w
        BY <2>1, <1>2, ProductMonotone
      <4>2. QED BY <4>1, <1>2
    <3>2. QED BY <3>1, <1>1, <1>2, <1>4
  <2>2. ASSUME q + 1 <= r PROVE FALSE
    <3>1. w * (q + 1) <= w * r /\ w * (q + 1) = w * q + w
      <4>1. (q + 1) * w <= r * w
        BY <2>2, <1>2, ProductMonotone
      <4>2. QED BY <4>1, <1>2
    <3>2. QED BY <3>1, <1>1, <1>2, <1>4
  <2>3. QED BY <2>1, <2>2, <1>2
<1>6. n % w = c
  BY <1>1, <1>3, <1>5
<1>7. QED BY <1>5, <1>6 DEF q, n

\* From one tile to the next in raster order.
LEMMA NextTile ==
  ASSUME NEW c \in Nat \ {0}, NEW j \in Nat
  PROVE  /\ j % c \in 0..(c - 1) /\ j \div c \in Nat
         /\ (j % c) + 1 >= c => (j + 1) % c = 0 /\ (j + 1) \div c = j \div c + 1
         /\ (j % c) + 1 < c => (j + 1) % c = (j % c) + 1 /\ (j + 1) \div c = j \div c
<1> DEFINE q == j \div c
           r == j % c
<1>1. q \in Nat /\ r \in 0..(c - 1) /\ j = c * q + r
  BY Z3
<1>2. j = q * c + r
  BY <1>1
<1> HIDE DEF q, r
<1>3. CASE r + 1 >= c
  <2>1. r + 1 = c
    BY <1>1, <1>3
  <2>2. j + 1 = (q + 1) * c + 0
    BY <1>1, <1>2, <2>1
  <2>3. 0 \in 0..(c - 1) /\ q + 1 \in Nat
    BY <1>1
  <2> DEFINE z == 0
  <2>4. z \in 0..(c - 1) /\ q + 1 \in Nat /\ j + 1 = (q + 1) * c + z
    BY <2>2, <2>3
  <2> HIDE DEF z
  <2>5. (j + 1) \div c = q + 1 /\ (j + 1) % c = z
    BY <2>4, RowAndColumn
  <2>6. QED BY <1>1, <1>3, <2>5 DEF q, r, z
<1>4. CASE r + 1 < c
  <2>1. j + 1 = q * c + (r + 1) /\ r + 1 \in 0..(c - 1)
    BY <1>1, <1>2, <1>4
  <2>2. (j + 1) \div c = q /\ (j + 1) % c = r + 1
    BY <2>1, <1>1, RowAndColumn
  <2>3. QED BY <1>1, <1>4, <2>2 DEF q, r
<1>5. QED BY <1>1, <1>3, <1>4
-----------------------------------------------------------------------------
(* Induction and recursion. *)

\* A set of naturals that is not empty has a least element.
LEMMA LeastNatural ==
  ASSUME NEW T, T \subseteq Nat, T # {}
  PROVE  \E x \in T : \A y \in T : x <= y
<1> DEFINE R == OpToRel(<, Nat)
<1>1. IsWellFoundedOn(R, Nat)
  BY NatLessThanWellFounded
<1> HIDE DEF R
<1>2. PICK x \in T : \A y \in T : ~ (<<y, x>> \in R)
  BY <1>1, WFMin
<1>3. \A y \in T : <<y, x>> \in Nat \X Nat /\ ~(<<y, x>> \in R)
  BY <1>2
<1>4. \A y \in T : ~(y < x)
  BY <1>3 DEF R, OpToRel
<1>5. QED BY <1>2, <1>4

\* Induction, with a set for the statement.
LEMMA Induction ==
  ASSUME NEW S, 0 \in S, \A n \in Nat : n \in S => n + 1 \in S
  PROVE  Nat \subseteq S
<1> DEFINE T == Nat \ S
<1>1. SUFFICES ASSUME T # {} PROVE FALSE
  OBVIOUS
<1> HIDE DEF T
<1>2. PICK x \in T : \A y \in T : x <= y
  BY <1>1, LeastNatural DEF T
<1>3. x \in Nat /\ x # 0 /\ x \notin S
  BY <1>2 DEF T
<1>4. x - 1 \in Nat /\ x - 1 \notin T
  BY <1>2, <1>3
<1>5. x - 1 \in S
  BY <1>4 DEF T
<1>6. QED BY <1>3, <1>4, <1>5

\* g starts with a and goes on by the steps.
Unfolds(g, a, step, n) == g[0] = a /\ \A i \in 1..n : g[i] = step[i][g[i - 1]]

\* A function defined by recursion over an interval exists.
LEMMA RecursionExists ==
  ASSUME NEW V, NEW a \in V, NEW n \in Nat, NEW step \in [1..n -> [V -> V]]
  PROVE  \E g \in [0..n -> V] : Unfolds(g, a, step, n)
<1> DEFINE Good(k, g) == g[0] = a /\ \A i \in 1..k : g[i] = step[i][g[i - 1]]
           S == {k \in Nat : k <= n => \E g \in [0..k -> V] : Good(k, g)}
<1>1. 0 \in S
  <2>1. [i \in 0..0 |-> a] \in [0..0 -> V] /\ Good(0, [i \in 0..0 |-> a])
    OBVIOUS
  <2>2. QED BY <2>1
<1>2. ASSUME NEW k \in Nat, k \in S PROVE k + 1 \in S
  <2> SUFFICES ASSUME k + 1 <= n PROVE \E g \in [0..(k + 1) -> V] : Good(k + 1, g)
    OBVIOUS
  <2>1. PICK g \in [0..k -> V] : Good(k, g)
    BY <1>2
  <2> DEFINE v == step[k + 1][g[k]]
             h == [i \in 0..(k + 1) |-> IF i = k + 1 THEN v ELSE g[i]]
  <2>2. v \in V
    OBVIOUS
  <2> HIDE DEF v
  <2>3. h \in [0..(k + 1) -> V]
    BY <2>2
  <2>4. h[0] = a /\ h[k + 1] = v /\ h[k] = g[k] /\ \A i \in 0..k : h[i] = g[i]
    BY <2>1
  <2> HIDE DEF h
  <2>5. ASSUME NEW i \in 1..(k + 1) PROVE h[i] = step[i][h[i - 1]]
    <3>1. CASE i = k + 1
      BY <3>1, <2>4 DEF v
    <3>2. CASE i # k + 1
      <4>1. i \in 1..k /\ i \in 0..k /\ i - 1 \in 0..k
        BY <3>2
      <4>2. h[i] = g[i] /\ h[i - 1] = g[i - 1]
        BY <4>1, <2>4
      <4>3. QED BY <4>1, <4>2, <2>1
    <3>3. QED BY <3>1, <3>2
  <2>6. QED BY <2>3, <2>4, <2>5
<1> HIDE DEF S
<1>3. n \in S
  BY <1>1, <1>2, Induction
<1>4. QED BY <1>3 DEF S, Unfolds

\* The equation of the recursive functions over a list of lengths.
SumEquation(f, a, n) == f = [i \in 0..n |-> IF i = 0 THEN 0 ELSE f[i - 1] + a[i]]

\* What solves it: the sums of ever more lengths.
RunningSums(f, a, n) == f \in [0..n -> Nat] /\ f[0] = 0 /\ \A i \in 1..n : f[i] = f[i - 1] + a[i]

\* Running sums exist.
LEMMA RunningSumExists ==
  ASSUME NEW n \in Nat, NEW a \in [1..n -> Nat]
  PROVE  \E h : SumEquation(h, a, n)
<1> DEFINE step == [i \in 1..n |-> [v \in Nat |-> v + a[i]]]
<1>1. step \in [1..n -> [Nat -> Nat]] /\ 0 \in Nat
  OBVIOUS
<1>2. \A i \in 1..n, v \in Nat : step[i][v] = v + a[i]
  OBVIOUS
<1> HIDE DEF step
<1>3. PICK h \in [0..n -> Nat] : Unfolds(h, 0, step, n)
  BY <1>1, RecursionExists
<1>4. ASSUME NEW i \in 1..n PROVE h[i] = h[i - 1] + a[i]
  <2>1. i - 1 \in 0..n /\ h[i - 1] \in Nat
    OBVIOUS
  <2>2. step[i][h[i - 1]] = h[i - 1] + a[i]
    BY <2>1, <1>2
  <2>3. QED BY <2>2, <1>3 DEF Unfolds
<1>5. h[0] = 0
  BY <1>3 DEF Unfolds
<1>6. h = [i \in 0..n |-> IF i = 0 THEN 0 ELSE h[i - 1] + a[i]]
  BY <1>4, <1>5
<1>7. QED BY <1>6 DEF SumEquation

\* What solves their equation is one.
LEMMA RunningSumIs ==
  ASSUME NEW n \in Nat, NEW a \in [1..n -> Nat], NEW f, SumEquation(f, a, n)
  PROVE  RunningSums(f, a, n)
<1> DEFINE body(i) == IF i = 0 THEN 0 ELSE f[i - 1] + a[i]
<1>1. DOMAIN f = 0..n /\ \A i \in 0..n : f[i] = body(i)
  <2> HIDE DEF body
  <2>1. f = [i \in 0..n |-> body(i)]
    BY DEF body, SumEquation
  <2>2. QED BY <2>1
<1>2. 0 \in 0..n /\ \A i \in 1..n : i \in 0..n /\ i # 0
  OBVIOUS
<1>3. f[0] = 0 /\ \A i \in 1..n : f[i] = f[i - 1] + a[i]
  BY <1>1, <1>2
<1>4. f = [i \in 0..n |-> f[i]]
  <2>1. f = [i \in DOMAIN f |-> f[i]]
    BY DEF SumEquation
  <2>2. QED BY <1>1, <2>1
<1> DEFINE S == {k \in Nat : k <= n => f[k] \in Nat}
<1>5. 0 \in S
  BY <1>3
<1>6. ASSUME NEW k \in Nat, k \in S PROVE k + 1 \in S
  <2> SUFFICES ASSUME k + 1 <= n PROVE f[k + 1] \in Nat
    OBVIOUS
  <2>1. f[k] \in Nat
    BY <1>6
  <2>2. k + 1 \in 1..n /\ (k + 1) - 1 = k /\ a[k + 1] \in Nat
    OBVIOUS
  <2>3. f[k + 1] = f[k] + a[k + 1]
    BY <2>2, <1>3
  <2>4. QED BY <2>1, <2>2, <2>3
<1> HIDE DEF S
<1>7. Nat \subseteq S
  BY <1>5, <1>6, Induction
<1>8. \A k \in 0..n : f[k] \in Nat
  <2> SUFFICES ASSUME NEW k \in 0..n PROVE f[k] \in Nat
    OBVIOUS
  <2>1. k \in Nat /\ k <= n
    OBVIOUS
  <2>2. k \in S
    BY <1>7, <2>1
  <2>3. QED BY <2>1, <2>2 DEF S
<1>9. f \in [0..n -> Nat]
  BY <1>4, <1>8
<1>10. QED BY <1>3, <1>9 DEF RunningSums

\* What a recursive function over a list of lengths computes.
LEMMA RunningSum ==
  ASSUME NEW n \in Nat, NEW a \in [1..n -> Nat],
         NEW f, f = CHOOSE g : SumEquation(g, a, n)
  PROVE  RunningSums(f, a, n)
<1>1. SumEquation(f, a, n)
  BY RunningSumExists
<1>2. QED BY <1>1, RunningSumIs

\* The sum of a list of 16 numbers.
SumOf16(t) == t[1] + t[2] + t[3] + t[4] + t[5] + t[6] + t[7] + t[8]
              + t[9] + t[10] + t[11] + t[12] + t[13] + t[14] + t[15] + t[16]

\* The running sums of 16 numbers end with their sum.
LEMMA RunningSum16 ==
  ASSUME NEW t \in [1..16 -> Nat], NEW f, RunningSums(f, t, 16)
  PROVE  f[16] = SumOf16(t)
<1>1. f[0] = 0 /\ \A i \in 1..16 : f[i] = f[i - 1] + t[i]
  BY DEF RunningSums
<1>2. /\ t[1] \in Nat /\ t[2] \in Nat /\ t[3] \in Nat /\ t[4] \in Nat
      /\ t[5] \in Nat /\ t[6] \in Nat /\ t[7] \in Nat /\ t[8] \in Nat
      /\ t[9] \in Nat /\ t[10] \in Nat /\ t[11] \in Nat /\ t[12] \in Nat
      /\ t[13] \in Nat /\ t[14] \in Nat /\ t[15] \in Nat /\ t[16] \in Nat
  OBVIOUS
<1>3. f[4] = t[1] + t[2] + t[3] + t[4]
  BY <1>1, <1>2
<1>4. f[8] = t[1] + t[2] + t[3] + t[4] + t[5] + t[6] + t[7] + t[8]
  BY <1>1, <1>2, <1>3
<1>5. f[12] = t[1] + t[2] + t[3] + t[4] + t[5] + t[6] + t[7] + t[8] + t[9] + t[10] + t[11] + t[12]
  BY <1>1, <1>2, <1>4
<1>6. f[16] = t[1] + t[2] + t[3] + t[4] + t[5] + t[6] + t[7] + t[8]
              + t[9] + t[10] + t[11] + t[12] + t[13] + t[14] + t[15] + t[16]
  BY <1>1, <1>2, <1>5
<1>7. QED BY <1>6 DEF SumOf16
-----------------------------------------------------------------------------
(* Sequences without repetitions: the ready lists and the job queue. *)

Members(s)  == {s[i] : i \in 1..Len(s)}
Distinct(s) == \A i, j \in 1..Len(s) : s[i] = s[j] => i = j

\* Appending adds one member at the end.
LEMMA AppendMembers ==
  ASSUME NEW S, NEW s \in Seq(S), NEW x \in S
  PROVE  /\ Members(Append(s, x)) = Members(s) \cup {x}
         /\ Distinct(s) /\ x \notin Members(s) => Distinct(Append(s, x))
         /\ Append(s, x) # <<>>
         /\ s # <<>> => Head(Append(s, x)) = Head(s)
<1>1. /\ Append(s, x) \in Seq(S) /\ Append(s, x) # <<>>
      /\ Len(s) \in Nat /\ Len(Append(s, x)) = Len(s) + 1
      /\ \A i \in 1..Len(s) : Append(s, x)[i] = s[i]
      /\ Append(s, x)[Len(s) + 1] = x
  BY AppendProperties, LenProperties
<1>2. Members(Append(s, x)) = Members(s) \cup {x}
  BY <1>1 DEF Members
<1>3. Distinct(s) /\ x \notin Members(s) => Distinct(Append(s, x))
  BY <1>1 DEF Members, Distinct
<1>4. s # <<>> => Head(Append(s, x)) = Head(s)
  BY <1>1
<1>5. QED BY <1>1, <1>2, <1>3, <1>4

\* Taking the head away takes one member away.
LEMMA TailMembers ==
  ASSUME NEW S, NEW s \in Seq(S), s # <<>>
  PROVE  /\ Head(s) \in Members(s) /\ Head(s) \in S
         /\ Members(Tail(s)) \subseteq Members(s) /\ Tail(s) \in Seq(S)
         /\ Distinct(s) => Distinct(Tail(s)) /\ Head(s) \notin Members(Tail(s))
<1>1. /\ Len(s) \in Nat /\ Len(s) > 0 /\ Head(s) = s[1] /\ Head(s) \in S
      /\ Tail(s) \in Seq(S) /\ Len(Tail(s)) = Len(s) - 1
      /\ \A i \in 1..Len(Tail(s)) : Tail(s)[i] = s[i + 1]
  BY HeadTailProperties, LenProperties, EmptySeq
<1>2. Head(s) \in Members(s) /\ Members(Tail(s)) \subseteq Members(s)
  BY <1>1 DEF Members
<1>3. Distinct(s) => Distinct(Tail(s)) /\ Head(s) \notin Members(Tail(s))
  BY <1>1 DEF Members, Distinct
<1>4. QED BY <1>1, <1>2, <1>3

\* Every member is the head or behind it.
LEMMA HeadOrTail ==
  ASSUME NEW S, NEW s \in Seq(S), s # <<>>
  PROVE  \A x \in Members(s) : x = Head(s) \/ x \in Members(Tail(s))
<1>1. /\ Len(s) \in Nat /\ Head(s) = s[1] /\ Len(Tail(s)) = Len(s) - 1
      /\ \A i \in 1..Len(Tail(s)) : Tail(s)[i] = s[i + 1]
  BY HeadTailProperties, LenProperties, EmptySeq
<1>2. ASSUME NEW i \in 1..Len(s), i # 1 PROVE s[i] \in Members(Tail(s))
  <2>1. i - 1 \in 1..Len(Tail(s)) /\ Tail(s)[i - 1] = s[i]
    BY <1>1, <1>2
  <2>2. QED BY <2>1 DEF Members
<1>3. QED BY <1>1, <1>2 DEF Members
=============================================================================
