----------------------------- MODULE DecoderProofs -----------------------------
(***************************************************************************)
(* The decoders.  VP9, first the arithmetic of the probabilities, for all  *)
(* probabilities, symbol counts and the real one of the reciprocals: the   *)
(* division by multiplication is exact, adaptation stays a probability,    *)
(* and the update of the compressed header is a permutation.  Its trees    *)
(* and its layout follow.  Then each decoder from frame to frame, for any  *)
(* headers, buffers and length of the stream: what it keeps of earlier     *)
(* frames is theirs, and means what the client means; and after it what    *)
(* the decoder computes from a header alone.                               *)
(***************************************************************************)
EXTENDS Vp9Probs, Vp9Layout, CedrusVp9, CedrusH264, CedrusH265, CedrusVp8, DataLemmas,
        FiniteSetTheorems

\* Multiplying with the reciprocal rounded up divides exactly, for every dividend
\* that is small against the one: with 2^32, for all below 2^24.
THEOREM FastDivExact ==
  ASSUME NEW a \in Nat, NEW d \in 2..256, a * d < VpOne
  PROVE  fastdiv(a, d) = a \div d
<1> DEFINE inv == DivInv(d)
           q   == a \div d
           e   == d * inv - VpOne
           r   == a - d * q
<1>1. VpOne \in Nat /\ VpOne > 0
  BY VpOneAssumption
<1>2. inv \in Nat /\ d * inv >= VpOne /\ d * inv < VpOne + d
  <2>1. VpOne + d - 1 \in Nat
    BY <1>1
  <2>2. d * inv <= VpOne + d - 1 /\ VpOne + d - 1 < d * inv + d /\ inv \in Nat
    BY <2>1, QuotientBounds DEF DivInv
  <2>3. QED BY <1>1, <2>2
<1>3. q \in Nat /\ d * q <= a /\ a < d * q + d
  BY QuotientBounds
<1>4. e \in Nat /\ e < d /\ r \in Nat /\ r < d
  BY <1>1, <1>2, <1>3
<1>5. d * inv = VpOne + e /\ a = d * q + r
  BY <1>1, <1>2, <1>3
<1> HIDE DEF inv, q, e, r
<1>6. a * e < VpOne
  <2>1. e * a <= d * a
    BY <1>4, ProductMonotone
  <2>2. QED BY <1>1, <1>4, <2>1
<1>7. d * (a * inv) = a * VpOne + a * e
  <2>1. d * (a * inv) = a * (d * inv)
    BY <1>2, Swap
  <2>2. QED BY <1>1, <1>4, <1>5, <2>1
<1>8. d * (VpOne * q) = a * VpOne - r * VpOne
  BY <1>1, <1>3, <1>4, <1>5
<1>9. VpOne * q <= a * inv
  <2>1. r * VpOne \in Nat /\ a * e \in Nat /\ a * inv \in Nat /\ VpOne * q \in Nat
    BY <1>1, <1>2, <1>3, <1>4, ProductInNat
  <2>2. d * (VpOne * q) <= d * (a * inv)
    BY <1>1, <1>7, <1>8, <2>1
  <2>3. QED BY <2>1, <2>2
<1>10. a * inv < VpOne * q + VpOne
  <2>1. r * VpOne \in Nat /\ a * e \in Nat /\ a * inv \in Nat /\ VpOne * q \in Nat
    BY <1>1, <1>2, <1>3, <1>4, ProductInNat
  <2>2. d * VpOne - r * VpOne >= VpOne
    <3>1. (r + 1) * VpOne <= d * VpOne
      BY <1>1, <1>4, ProductMonotone
    <3>2. QED BY <1>1, <1>4, <3>1
  <2>3. d * (VpOne * q + VpOne) = a * VpOne - r * VpOne + d * VpOne
    BY <1>1, <1>8, <2>1
  <2>4. d * (a * inv) < d * (VpOne * q + VpOne)
    BY <1>1, <1>6, <1>7, <2>1, <2>2, <2>3
  <2>5. QED BY <1>1, <2>1, <2>4
<1>11. (a * inv) \div VpOne = q
  BY <1>1, <1>2, <1>3, <1>9, <1>10, Quotient, ProductInNat
<1>12. QED BY <1>11 DEF fastdiv, inv, q

\* The weight of the counts never exceeds that of half a new probability.
LEMMA FactorBound ==
  ASSUME NEW f \in {112, 128}, NEW count \in 0..24
  PROVE  fastdiv(f * count, COEF_SAT) \in 0..128
<1>1. f * count \in Nat /\ f * count <= 128 * 24
  BY SMT
<1>2. (f * count) * 24 < VpOne
  BY <1>1, VpOneAssumption
<1>3. fastdiv(f * count, 24) = (f * count) \div 24
  BY <1>1, <1>2, FastDivExact
<1>4. QED BY <1>1, <1>3 DEF COEF_SAT

\* A step of weight k / 256, at most a half, from p towards q.
Moved(p, q, k) == p + ((q - p) * k + 128) \div 256

\* A step of a weighted mean does not pass its ends.
LEMMA StepTowards ==
  ASSUME NEW p \in 1..255, NEW q \in 1..255, NEW k \in 0..128
  PROVE  /\ Moved(p, q, k) \in 1..255
         /\ q >= p => Moved(p, q, k) >= p
         /\ q <= p => Moved(p, q, k) <= p
<1>1. CASE q >= p
  <2>1. (q - p) * k >= 0 /\ (q - p) * k <= (q - p) * 128
    BY <1>1
  <2>2. ((q - p) * k + 128) \div 256 >= 0 /\ ((q - p) * k + 128) \div 256 <= q - p
    BY <1>1, <2>1
  <2>3. ((q - p) * k + 128) \div 256 \in Int
    OBVIOUS
  <2>4. q = p => ((q - p) * k + 128) \div 256 = 0
    BY <2>2, <2>3
  <2>5. QED BY <1>1, <2>2, <2>3, <2>4 DEF Moved
<1>2. CASE q < p
  <2>1. (q - p) * k <= 0 /\ (q - p) * k >= (q - p) * 128
    BY <1>2
  <2>2. ((q - p) * k + 128) \div 256 <= 0 /\ ((q - p) * k + 128) \div 256 >= q - p
    BY <1>2, <2>1
  <2>3. ((q - p) * k + 128) \div 256 \in Int
    OBVIOUS
  <2>4. QED BY <1>2, <2>2, <2>3 DEF Moved
<1>3. QED BY <1>1, <1>2

\* The share of the first symbol, in 256ths.
ShareOf(c0, c1) == Clamp((c0 * 256 + (c0 + c1) \div 2) \div (c0 + c1), 1, 255)

\* The share of one outcome in the counts, as a probability.
LEMMA Share ==
  ASSUME NEW c0 \in Nat, NEW c1 \in Nat, c0 + c1 # 0
  PROVE  /\ ShareOf(c0, c1) \in 1..255
         /\ c1 = 0 => ShareOf(c0, c1) = 255
         /\ c0 = 0 => ShareOf(c0, c1) = 1
<1> DEFINE den == c0 + c1
           x   == (c0 * 256 + den \div 2) \div den
<1>1. x \in Nat
  BY QuotientBounds
<1>2. c1 = 0 => x = 256
  <2> SUFFICES ASSUME c1 = 0 PROVE x = 256
    OBVIOUS
  <2>1. den * 256 <= c0 * 256 + den \div 2 /\ c0 * 256 + den \div 2 < den * 256 + den
    OBVIOUS
  <2>2. c0 * 256 + den \div 2 \in Nat /\ den \in Nat \ {0}
    OBVIOUS
  <2>3. QED BY <2>1, <2>2, Quotient
<1>3. c0 = 0 => x = 0
  <2> SUFFICES ASSUME c0 = 0 PROVE x = 0
    OBVIOUS
  <2>1. den * 0 <= den \div 2 /\ den \div 2 < den * 0 + den
    OBVIOUS
  <2>2. den \div 2 \in Nat /\ den \in Nat \ {0} /\ c0 * 256 + den \div 2 = den \div 2
    OBVIOUS
  <2>3. QED BY <2>1, <2>2, Quotient
<1> HIDE DEF x
<1>4. ShareOf(c0, c1) = Clamp(x, 1, 255)
  BY DEF x, ShareOf
<1>5. QED BY <1>1, <1>2, <1>3, <1>4 DEF Clamp

\* Adaptation of any probability to any counts stays a probability and never
\* moves away from the symbol that was counted.
THEOREM MergeSafe == MergeStaysProbability
<1> SUFFICES ASSUME NEW p \in VpProbs, NEW c0 \in VpCounts, NEW c1 \in VpCounts,
                    NEW f \in {112, 128}
             PROVE  LET n == merge_prob(p, c0, c1, COEF_SAT, f)
                    IN  n \in 1..255 /\ (c1 = 0 => n >= p) /\ (c0 = 0 => n <= p)
  BY DEF MergeStaysProbability
<1>1. p \in 1..255 /\ c0 \in Nat /\ c1 \in Nat
  BY VpProbsAssumption
<1>2. CASE c0 + c1 = 0
  BY <1>1, <1>2 DEF merge_prob
<1>3. CASE c0 + c1 # 0
  <2> DEFINE count  == IF c0 + c1 < COEF_SAT THEN c0 + c1 ELSE COEF_SAT
             factor == fastdiv(f * count, COEF_SAT)
             q      == ShareOf(c0, c1)
             n      == Moved(p, q, factor)
  <2>1. merge_prob(p, c0, c1, COEF_SAT, f) = n
    BY <1>3 DEF merge_prob, Moved, ShareOf
  <2>2. count \in 0..24
    BY <1>1 DEF COEF_SAT
  <2> HIDE DEF count
  <2>3. factor \in 0..128
    BY <2>2, FactorBound
  <2> HIDE DEF factor
  <2>4. q \in 1..255 /\ (c1 = 0 => q = 255) /\ (c0 = 0 => q = 1)
    BY <1>1, <1>3, Share
  <2> HIDE DEF q
  <2>5. /\ Moved(p, q, factor) \in 1..255
        /\ q >= p => Moved(p, q, factor) >= p
        /\ q <= p => Moved(p, q, factor) <= p
    <3>1. p \in 1..255 /\ q \in 1..255
      BY <1>1, <2>4
    <3>2. QED BY <2>3, <3>1, StepTowards
  <2> HIDE DEF n
  <2>6. (c1 = 0 => n >= p) /\ (c0 = 0 => n <= p)
    BY <1>1, <2>4, <2>5 DEF n
  <2>7. QED BY <2>1, <2>5, <2>6 DEF n
<1>4. QED BY <1>2, <1>3

\* The difference that leads from probability p to x.
Difference(p, x) ==
  LET m == IF p <= 128 THEN p - 1 ELSE 255 - p
      y == IF p <= 128 THEN x - 1 ELSE 255 - x
  IN  IF y > 2 * m THEN y ELSE IF y < m THEN 2 * (m - y) - 1 ELSE 2 * (y - m)

\* A coded difference leads to another probability.
LEMMA UpdateInRange ==
  ASSUME NEW p \in 1..255, NEW d \in 1..254
  PROVE  update_prob(d, p) \in (1..255) \ {p}
  BY DEF update_prob, inv_recenter_nonneg

\* Each probability is reached from exactly one difference.
LEMMA UpdateReaches ==
  ASSUME NEW p \in 1..255, NEW x \in (1..255) \ {p}
  PROVE  Difference(p, x) \in 1..254 /\ update_prob(Difference(p, x), p) = x
  BY DEF Difference, update_prob, inv_recenter_nonneg

\* Every other probability is one difference away, and none is out of range.
THEOREM UpdateReversible == UpdateIsPermutation
<1> SUFFICES ASSUME NEW p \in VpProbs
             PROVE  {update_prob(d, p) : d \in 1..254} = (1..255) \ {p}
  BY DEF UpdateIsPermutation
<1>1. p \in 1..255
  BY VpProbsAssumption
<1> DEFINE V == (1..255) \ {p}
<1>2. \A d \in 1..254 : update_prob(d, p) \in V
  BY <1>1, UpdateInRange, ZenonT(60)
<1>3. \A x \in V : \E d \in 1..254 : update_prob(d, p) = x
  BY <1>1, UpdateReaches
<1> HIDE DEF V
<1>4. {update_prob(d, p) : d \in 1..254} = V
  BY <1>2, <1>3
<1>5. QED BY <1>4 DEF V

\* What the compressed header of any frame changes is adapted or carried over
\* when the saved context is loaded again.
THEOREM DeltasKept == NoDeltaLost
<1> SUFFICES ASSUME NEW f \in VpHeaders
             PROVE  fw_update_probs(f) \subseteq Adapted(f) \cup KeptAcrossReload(f)
  BY DEF NoDeltaLost
<1>1. UpdatedCoef(f) \subseteq adapt_coef_probs
  BY DEF UpdatedCoef, adapt_coef_probs
<1>2. CASE f.intra
  BY <1>1, <1>2 DEF fw_update_probs, Adapted, KeptAcrossReload, UpdatedTx
<1>3. CASE ~f.intra
  BY <1>1, <1>3 DEF fw_update_probs, Adapted, KeptAcrossReload, UpdatedTx, UpdatedFilter,
                    UpdatedReferences, UpdatedMv, adapt_noncoef_probs
<1>4. QED BY <1>2, <1>3

-----------------------------------------------------------------------------
(* Merged counts follow the trees of the format. *)

\* What the recursion over a tree of n entries says of entry i.
NodeOf(f, t, i) == IF t[i + 1] <= 0 THEN {0 - t[i + 1]} ELSE f[t[i + 1]] \cup f[t[i + 1] + 1]

\* The recursion over all of a tree.
BelowEquation(f, t, n) ==
  f = [i \in 0..(n - 1) |-> IF t[i + 1] <= 0 THEN {0 - t[i + 1]} ELSE f[t[i + 1]] \cup f[t[i + 1] + 1]]

\* A tree: an entry leads to a later pair of entries, or is a symbol.
TreeOf(t, n) ==
  /\ n \in Nat /\ t \in [1..n -> Int] /\ Len(t) = n
  /\ \A i \in 1..n : t[i] > 0 => i <= t[i] /\ t[i] + 2 <= n

\* The symbols below the entries of a tree are defined, from the last entry
\* to the first, and are what the recursion says.
LEMMA SymbolsOfTree ==
  ASSUME NEW t, NEW n, TreeOf(t, n)
  PROVE  \A i \in 0..(n - 1) : SymbolsBelow(t)[i] = NodeOf(SymbolsBelow(t), t, i)
<1> DEFINE Good(k, g) == \A i \in 0..(n - 1) : n - k <= i => g[i] = NodeOf(g, t, i)
           Solved(k) == \E g : Good(k, g)
           S == {k \in Nat : k <= n => Solved(k)}
<1>1. n \in Nat /\ Len(t) = n /\ \A i \in 0..(n - 1) : t[i + 1] \in Int
  BY DEF TreeOf
<1>2. \A i \in 0..(n - 1) : t[i + 1] > 0 => /\ i < t[i + 1] /\ t[i + 1] \in 0..(n - 1)
                                            /\ i < t[i + 1] + 1 /\ t[i + 1] + 1 \in 0..(n - 1)
  BY <1>1, SMTT(30) DEF TreeOf
<1>3. 0 \in S
  <2>1. \A g : Good(0, g)
    BY <1>1
  <2>2. QED BY <2>1
<1>4. ASSUME NEW k \in Nat, k \in S PROVE k + 1 \in S
  <2> HIDE DEF Solved
  <2> SUFFICES ASSUME k + 1 <= n PROVE Solved(k + 1)
    OBVIOUS
  <2>0. Solved(k)
    BY <1>1, <1>4
  <2>1. PICK g : Good(k, g)
    BY <2>0 DEF Solved
  <2> DEFINE m == n - (k + 1)
             v == NodeOf(g, t, m)
             h == [i \in 0..(n - 1) |-> IF i = m THEN v ELSE g[i]]
  <2>2. m \in 0..(n - 1)
    BY <1>1
  <2> HIDE DEF v
  <2>3. h[m] = v /\ \A i \in 0..(n - 1) : i # m => h[i] = g[i]
    BY <2>2
  <2> HIDE DEF h
  <2>4. ASSUME NEW i \in 0..(n - 1), m <= i PROVE NodeOf(h, t, i) = NodeOf(g, t, i)
    <3>1. CASE t[i + 1] <= 0
      BY <3>1 DEF NodeOf
    <3>2. CASE t[i + 1] > 0
      <4> DEFINE a == t[i + 1]
      <4>0. a \in 0..(n - 1) /\ a + 1 \in 0..(n - 1) /\ i < a /\ i < a + 1
        BY <1>2, <3>2
      <4> HIDE DEF a, m
      <4>1. a \in 0..(n - 1) /\ a + 1 \in 0..(n - 1) /\ a # m /\ a + 1 # m
        BY <1>1, <2>2, <2>4, <4>0
      <4>2. h[a] = g[a] /\ h[a + 1] = g[a + 1]
        BY <4>1, <2>3
      <4>3. QED BY <4>2 DEF NodeOf, a
    <3>3. QED BY <3>1, <3>2, <1>1
  <2>5. ASSUME NEW i \in 0..(n - 1), m <= i PROVE h[i] = NodeOf(h, t, i)
    <3>1. CASE i = m
      BY <2>2, <2>3, <2>4, <3>1 DEF v
    <3>2. CASE i # m
      <4>1. n - k <= i
        BY <1>1, <2>5, <3>2
      <4>2. h[i] = g[i] /\ g[i] = NodeOf(g, t, i)
        BY <2>1, <2>3, <3>2, <4>1
      <4>3. QED BY <2>4, <2>5, <4>2
    <3>3. QED BY <3>1, <3>2
  <2>6. Good(k + 1, h)
    BY <2>5
  <2>7. QED BY <2>6 DEF Solved
<1> HIDE DEF S
<1>5. n \in S
  BY <1>1, <1>3, <1>4, Induction
<1>6. PICK g : Good(n, g)
  BY <1>1, <1>5 DEF S
<1> DEFINE f == [i \in 0..(n - 1) |-> g[i]]
<1>7. \A i \in 0..(n - 1) : f[i] = g[i] /\ g[i] = NodeOf(g, t, i)
  BY <1>1, <1>6, SMTT(30)
<1>8. BelowEquation(f, t, n)
  <2>1. ASSUME NEW i \in 0..(n - 1) PROVE g[i] = NodeOf(f, t, i)
    <3>1. CASE t[i + 1] <= 0
      BY <1>7, <3>1 DEF NodeOf
    <3>2. CASE t[i + 1] > 0
      <4> DEFINE a == t[i + 1]
      <4>1. a \in 0..(n - 1) /\ a + 1 \in 0..(n - 1)
        BY <1>2, <3>2
      <4>2. f[a] = g[a] /\ f[a + 1] = g[a + 1]
        BY <4>1
      <4> HIDE DEF f
      <4>3. QED BY <1>7, <4>2 DEF NodeOf
    <3>3. QED BY <3>1, <3>2, <1>1
  <2>2. f = [i \in 0..(n - 1) |-> NodeOf(f, t, i)]
    BY <2>1
  <2> HIDE DEF f
  <2>3. QED BY <2>2 DEF BelowEquation, NodeOf
<1> DEFINE b == CHOOSE e : BelowEquation(e, t, n)
<1>9. SymbolsBelow(t) = b
  BY <1>1 DEF SymbolsBelow, BelowEquation
<1>10. BelowEquation(b, t, n)
  <2> HIDE DEF f
  <2>1. QED BY <1>8
<1> HIDE DEF b
<1>11. \A i \in 0..(n - 1) : b[i] = NodeOf(b, t, i)
  <2>1. b = [i \in 0..(n - 1) |-> NodeOf(b, t, i)]
    BY <1>10 DEF BelowEquation, NodeOf
  <2> DEFINE body(i) == NodeOf(b, t, i)
  <2> HIDE DEF body
  <2>2. b = [i \in 0..(n - 1) |-> body(i)]
    BY <2>1 DEF body
  <2>3. \A i \in 0..(n - 1) : b[i] = body(i)
    BY <2>2
  <2>4. QED BY <2>3 DEF body
<1>12. QED BY <1>9, <1>11

\* The counts when symbol s was counted once.
OneCounted(s) == [i \in 1..11 |-> IF i = s + 1 THEN 1 ELSE 0]

\* Its entries, one by one.
LEMMA CountsOfOne ==
  ASSUME NEW s \in 0..10
  PROVE  LET one == OneCounted(s)
         IN  /\ one[1] = (IF s = 0 THEN 1 ELSE 0) /\ one[2] = (IF s = 1 THEN 1 ELSE 0)
             /\ one[3] = (IF s = 2 THEN 1 ELSE 0) /\ one[4] = (IF s = 3 THEN 1 ELSE 0)
             /\ one[5] = (IF s = 4 THEN 1 ELSE 0) /\ one[6] = (IF s = 5 THEN 1 ELSE 0)
             /\ one[7] = (IF s = 6 THEN 1 ELSE 0) /\ one[8] = (IF s = 7 THEN 1 ELSE 0)
             /\ one[9] = (IF s = 8 THEN 1 ELSE 0) /\ one[10] = (IF s = 9 THEN 1 ELSE 0)
             /\ one[11] = (IF s = 10 THEN 1 ELSE 0)
  BY DEF OneCounted

\* A tree is merged as its nodes say: what MergeFollowsTrees says of one tree.
TreeMerged(t, pairs, s) ==
  LET below == SymbolsBelow(t)
      count(i) == IF s \in below[i] THEN 1 ELSE 0
  IN  \A n \in 1..(Len(t) \div 2) : pairs[n] = <<count(2 * n - 2), count(2 * n - 1)>>

\* The tree of small tokens.
LEMMA SmallTokenMerged ==
  ASSUME NEW s \in 0..10
  PROVE  TreeMerged(VpTrees.small_token, Variants(OneCounted(s)).small_token, s)
<1> DEFINE t == VpTrees.small_token
           one == OneCounted(s)
           b == SymbolsBelow(t)
           pairs == Variants(one).small_token
<1>1. t = <<0, 2, -1, -2>> /\ Len(t) = 4
  BY DEF VpTrees
<1>2. pairs = Tail(VariantA(one))
  BY DEF Variants
<1> HIDE DEF t, pairs
<1>3. TreeOf(t, 4)
  BY <1>1 DEF TreeOf
<1>4. \A i \in 0..3 : b[i] = NodeOf(b, t, i)
  <2>1. 4 - 1 = 3
    OBVIOUS
  <2>2. QED BY <1>3, <2>1, SymbolsOfTree
<1> HIDE DEF b
<1>5. /\ b[0] = {0} /\ b[2] = {1} /\ b[3] = {2}
  BY <1>1, <1>4 DEF NodeOf
<1>6. b[1] = {1, 2}
  <2>1. b[1] = b[2] \cup b[3]
    BY <1>1, <1>4 DEF NodeOf
  <2>2. QED BY <2>1, <1>5
<1>7. /\ one[1] = (IF s = 0 THEN 1 ELSE 0) /\ one[2] = (IF s = 1 THEN 1 ELSE 0)
      /\ one[3] = (IF s = 2 THEN 1 ELSE 0) /\ one[4] = (IF s = 3 THEN 1 ELSE 0)
      /\ one[5] = (IF s = 4 THEN 1 ELSE 0) /\ one[6] = (IF s = 5 THEN 1 ELSE 0)
      /\ one[7] = (IF s = 6 THEN 1 ELSE 0) /\ one[8] = (IF s = 7 THEN 1 ELSE 0)
      /\ one[9] = (IF s = 8 THEN 1 ELSE 0) /\ one[10] = (IF s = 9 THEN 1 ELSE 0)
      /\ one[11] = (IF s = 10 THEN 1 ELSE 0)
  BY CountsOfOne
<1> HIDE DEF one
<1>8. pairs[1] = <<IF s \in b[0] THEN 1 ELSE 0, IF s \in b[1] THEN 1 ELSE 0>>
  BY <1>2, <1>7, <1>5, <1>6 DEF VariantA, NoPair
<1>9. pairs[2] = <<IF s \in b[2] THEN 1 ELSE 0, IF s \in b[3] THEN 1 ELSE 0>>
  BY <1>2, <1>7, <1>5 DEF VariantA, NoPair
<1> DEFINE count(i) == IF s \in b[i] THEN 1 ELSE 0
<1>10. \A n \in 1..2 : pairs[n] = <<count(2 * n - 2), count(2 * n - 1)>>
  BY <1>8, <1>9
<1>11. 4 \div 2 = 2
  OBVIOUS
<1>12. QED BY <1>1, <1>10, <1>11 DEF TreeMerged, b, t, pairs, one

\* The tree of flags.
LEMMA BinaryMerged ==
  ASSUME NEW s \in 0..10
  PROVE  TreeMerged(VpTrees.binary, Variants(OneCounted(s)).binary, s)
<1> DEFINE t == VpTrees.binary
           one == OneCounted(s)
           b == SymbolsBelow(t)
           pairs == Variants(one).binary
<1>1. t = <<0, -1>> /\ Len(t) = 2
  BY DEF VpTrees
<1>2. pairs = VariantB(one)
  BY DEF Variants
<1> HIDE DEF t, pairs
<1>3. TreeOf(t, 2)
  BY <1>1 DEF TreeOf
<1>4. \A i \in 0..1 : b[i] = NodeOf(b, t, i)
  <2>1. 2 - 1 = 1
    OBVIOUS
  <2>2. QED BY <1>3, <2>1, SymbolsOfTree
<1> HIDE DEF b
<1>5. /\ b[0] = {0} /\ b[1] = {1}
  BY <1>1, <1>4 DEF NodeOf
<1>6. /\ one[1] = (IF s = 0 THEN 1 ELSE 0) /\ one[2] = (IF s = 1 THEN 1 ELSE 0)
      /\ one[3] = (IF s = 2 THEN 1 ELSE 0) /\ one[4] = (IF s = 3 THEN 1 ELSE 0)
      /\ one[5] = (IF s = 4 THEN 1 ELSE 0) /\ one[6] = (IF s = 5 THEN 1 ELSE 0)
      /\ one[7] = (IF s = 6 THEN 1 ELSE 0) /\ one[8] = (IF s = 7 THEN 1 ELSE 0)
      /\ one[9] = (IF s = 8 THEN 1 ELSE 0) /\ one[10] = (IF s = 9 THEN 1 ELSE 0)
      /\ one[11] = (IF s = 10 THEN 1 ELSE 0)
  BY CountsOfOne
<1> HIDE DEF one
<1>7. pairs[1] = <<IF s \in b[0] THEN 1 ELSE 0, IF s \in b[1] THEN 1 ELSE 0>>
  BY <1>2, <1>6, <1>5 DEF VariantB
<1> DEFINE count(i) == IF s \in b[i] THEN 1 ELSE 0
<1>8. \A n \in 1..1 : pairs[n] = <<count(2 * n - 2), count(2 * n - 1)>>
  BY <1>7
<1>9. 2 \div 2 = 1
  OBVIOUS
<1>10. QED BY <1>1, <1>8, <1>9 DEF TreeMerged, b, t, pairs, one

\* The tree of inter prediction modes.
LEMMA InterModeMerged ==
  ASSUME NEW s \in 0..10
  PROVE  TreeMerged(VpTrees.inter_mode, Variants(OneCounted(s)).inter_mode, s)
<1> DEFINE t == VpTrees.inter_mode
           one == OneCounted(s)
           b == SymbolsBelow(t)
           pairs == Variants(one).inter_mode
<1>1. t = <<-2, 2, 0, 4, -1, -3>> /\ Len(t) = 6
  BY DEF VpTrees
<1>2. pairs = VariantC(one)
  BY DEF Variants
<1> HIDE DEF t, pairs
<1>3. TreeOf(t, 6)
  BY <1>1 DEF TreeOf
<1>4. \A i \in 0..5 : b[i] = NodeOf(b, t, i)
  <2>1. 6 - 1 = 5
    OBVIOUS
  <2>2. QED BY <1>3, <2>1, SymbolsOfTree
<1> HIDE DEF b
<1>5. /\ b[0] = {2} /\ b[2] = {0} /\ b[4] = {1} /\ b[5] = {3}
  BY <1>1, <1>4 DEF NodeOf
<1>6. b[3] = {1, 3}
  <2>1. b[3] = b[4] \cup b[5]
    BY <1>1, <1>4 DEF NodeOf
  <2>2. QED BY <2>1, <1>5
<1>7. b[1] = {0, 1, 3}
  <2>1. b[1] = b[2] \cup b[3]
    BY <1>1, <1>4 DEF NodeOf
  <2>2. QED BY <2>1, <1>5, <1>6
<1>8. /\ one[1] = (IF s = 0 THEN 1 ELSE 0) /\ one[2] = (IF s = 1 THEN 1 ELSE 0)
      /\ one[3] = (IF s = 2 THEN 1 ELSE 0) /\ one[4] = (IF s = 3 THEN 1 ELSE 0)
      /\ one[5] = (IF s = 4 THEN 1 ELSE 0) /\ one[6] = (IF s = 5 THEN 1 ELSE 0)
      /\ one[7] = (IF s = 6 THEN 1 ELSE 0) /\ one[8] = (IF s = 7 THEN 1 ELSE 0)
      /\ one[9] = (IF s = 8 THEN 1 ELSE 0) /\ one[10] = (IF s = 9 THEN 1 ELSE 0)
      /\ one[11] = (IF s = 10 THEN 1 ELSE 0)
  BY CountsOfOne
<1> HIDE DEF one
<1>9. pairs[1] = <<IF s \in b[0] THEN 1 ELSE 0, IF s \in b[1] THEN 1 ELSE 0>>
  BY <1>2, <1>8, <1>5, <1>7 DEF VariantC
<1>10. pairs[2] = <<IF s \in b[2] THEN 1 ELSE 0, IF s \in b[3] THEN 1 ELSE 0>>
  BY <1>2, <1>8, <1>5, <1>6 DEF VariantC
<1>11. pairs[3] = <<IF s \in b[4] THEN 1 ELSE 0, IF s \in b[5] THEN 1 ELSE 0>>
  BY <1>2, <1>8, <1>5 DEF VariantC
<1> DEFINE count(i) == IF s \in b[i] THEN 1 ELSE 0
<1>12. \A n \in 1..3 : pairs[n] = <<count(2 * n - 2), count(2 * n - 1)>>
  BY <1>9, <1>10, <1>11
<1>13. 6 \div 2 = 3
  OBVIOUS
<1>14. QED BY <1>1, <1>12, <1>13 DEF TreeMerged, b, t, pairs, one

\* The tree of four symbols.
LEMMA FourMerged ==
  ASSUME NEW s \in 0..10
  PROVE  TreeMerged(VpTrees.four, Variants(OneCounted(s)).four, s)
<1> DEFINE t == VpTrees.four
           one == OneCounted(s)
           b == SymbolsBelow(t)
           pairs == Variants(one).four
<1>1. t = <<0, 2, -1, 4, -2, -3>> /\ Len(t) = 6
  BY DEF VpTrees
<1>2. pairs = VariantE(one)
  BY DEF Variants
<1> HIDE DEF t, pairs
<1>3. TreeOf(t, 6)
  BY <1>1 DEF TreeOf
<1>4. \A i \in 0..5 : b[i] = NodeOf(b, t, i)
  <2>1. 6 - 1 = 5
    OBVIOUS
  <2>2. QED BY <1>3, <2>1, SymbolsOfTree
<1> HIDE DEF b
<1>5. /\ b[0] = {0} /\ b[2] = {1} /\ b[4] = {2} /\ b[5] = {3}
  BY <1>1, <1>4 DEF NodeOf
<1>6. b[3] = {2, 3}
  <2>1. b[3] = b[4] \cup b[5]
    BY <1>1, <1>4 DEF NodeOf
  <2>2. QED BY <2>1, <1>5
<1>7. b[1] = {1, 2, 3}
  <2>1. b[1] = b[2] \cup b[3]
    BY <1>1, <1>4 DEF NodeOf
  <2>2. QED BY <2>1, <1>5, <1>6
<1>8. /\ one[1] = (IF s = 0 THEN 1 ELSE 0) /\ one[2] = (IF s = 1 THEN 1 ELSE 0)
      /\ one[3] = (IF s = 2 THEN 1 ELSE 0) /\ one[4] = (IF s = 3 THEN 1 ELSE 0)
      /\ one[5] = (IF s = 4 THEN 1 ELSE 0) /\ one[6] = (IF s = 5 THEN 1 ELSE 0)
      /\ one[7] = (IF s = 6 THEN 1 ELSE 0) /\ one[8] = (IF s = 7 THEN 1 ELSE 0)
      /\ one[9] = (IF s = 8 THEN 1 ELSE 0) /\ one[10] = (IF s = 9 THEN 1 ELSE 0)
      /\ one[11] = (IF s = 10 THEN 1 ELSE 0)
  BY CountsOfOne
<1> HIDE DEF one
<1>9. pairs[1] = <<IF s \in b[0] THEN 1 ELSE 0, IF s \in b[1] THEN 1 ELSE 0>>
  BY <1>2, <1>8, <1>5, <1>7 DEF VariantE
<1>10. pairs[2] = <<IF s \in b[2] THEN 1 ELSE 0, IF s \in b[3] THEN 1 ELSE 0>>
  BY <1>2, <1>8, <1>5, <1>6 DEF VariantE
<1>11. pairs[3] = <<IF s \in b[4] THEN 1 ELSE 0, IF s \in b[5] THEN 1 ELSE 0>>
  BY <1>2, <1>8, <1>5 DEF VariantE
<1> DEFINE count(i) == IF s \in b[i] THEN 1 ELSE 0
<1>12. \A n \in 1..3 : pairs[n] = <<count(2 * n - 2), count(2 * n - 1)>>
  BY <1>9, <1>10, <1>11
<1>13. 6 \div 2 = 3
  OBVIOUS
<1>14. QED BY <1>1, <1>12, <1>13 DEF TreeMerged, b, t, pairs, one

\* The tree of three symbols.
LEMMA ThreeMerged ==
  ASSUME NEW s \in 0..10
  PROVE  TreeMerged(VpTrees.three, Variants(OneCounted(s)).three, s)
<1> DEFINE t == VpTrees.three
           one == OneCounted(s)
           b == SymbolsBelow(t)
           pairs == Variants(one).three
<1>1. t = <<0, 2, -1, -2>> /\ Len(t) = 4
  BY DEF VpTrees
<1>2. pairs = VariantF(one)
  BY DEF Variants
<1> HIDE DEF t, pairs
<1>3. TreeOf(t, 4)
  BY <1>1 DEF TreeOf
<1>4. \A i \in 0..3 : b[i] = NodeOf(b, t, i)
  <2>1. 4 - 1 = 3
    OBVIOUS
  <2>2. QED BY <1>3, <2>1, SymbolsOfTree
<1> HIDE DEF b
<1>5. /\ b[0] = {0} /\ b[2] = {1} /\ b[3] = {2}
  BY <1>1, <1>4 DEF NodeOf
<1>6. b[1] = {1, 2}
  <2>1. b[1] = b[2] \cup b[3]
    BY <1>1, <1>4 DEF NodeOf
  <2>2. QED BY <2>1, <1>5
<1>7. /\ one[1] = (IF s = 0 THEN 1 ELSE 0) /\ one[2] = (IF s = 1 THEN 1 ELSE 0)
      /\ one[3] = (IF s = 2 THEN 1 ELSE 0) /\ one[4] = (IF s = 3 THEN 1 ELSE 0)
      /\ one[5] = (IF s = 4 THEN 1 ELSE 0) /\ one[6] = (IF s = 5 THEN 1 ELSE 0)
      /\ one[7] = (IF s = 6 THEN 1 ELSE 0) /\ one[8] = (IF s = 7 THEN 1 ELSE 0)
      /\ one[9] = (IF s = 8 THEN 1 ELSE 0) /\ one[10] = (IF s = 9 THEN 1 ELSE 0)
      /\ one[11] = (IF s = 10 THEN 1 ELSE 0)
  BY CountsOfOne
<1> HIDE DEF one
<1>8. pairs[1] = <<IF s \in b[0] THEN 1 ELSE 0, IF s \in b[1] THEN 1 ELSE 0>>
  BY <1>2, <1>7, <1>5, <1>6 DEF VariantF
<1>9. pairs[2] = <<IF s \in b[2] THEN 1 ELSE 0, IF s \in b[3] THEN 1 ELSE 0>>
  BY <1>2, <1>7, <1>5 DEF VariantF
<1> DEFINE count(i) == IF s \in b[i] THEN 1 ELSE 0
<1>10. \A n \in 1..2 : pairs[n] = <<count(2 * n - 2), count(2 * n - 1)>>
  BY <1>8, <1>9
<1>11. 4 \div 2 = 2
  OBVIOUS
<1>12. QED BY <1>1, <1>10, <1>11 DEF TreeMerged, b, t, pairs, one

\* The tree of intra prediction modes.
LEMMA IntraModeMerged ==
  ASSUME NEW s \in 0..10
  PROVE  TreeMerged(VpTrees.intra_mode, Variants(OneCounted(s)).intra_mode, s)
<1> DEFINE t == VpTrees.intra_mode
           one == OneCounted(s)
           b == SymbolsBelow(t)
           pairs == Variants(one).intra_mode
<1>1. t = <<0, 2, -9, 4, -1, 6, 8, 12, -2, 10, -4, -5, -3, 14, -8, 16, -6, -7>> /\ Len(t) = 18
  BY DEF VpTrees
<1>2. pairs = VariantD(one)
  BY DEF Variants
<1> HIDE DEF t, pairs
<1>3. TreeOf(t, 18)
  BY <1>1 DEF TreeOf
<1>4. \A i \in 0..17 : b[i] = NodeOf(b, t, i)
  <2>1. 18 - 1 = 17
    OBVIOUS
  <2>2. QED BY <1>3, <2>1, SymbolsOfTree
<1> HIDE DEF b
<1>5. /\ b[0] = {0} /\ b[2] = {9} /\ b[4] = {1} /\ b[8] = {2}
      /\ b[10] = {4} /\ b[11] = {5} /\ b[12] = {3} /\ b[14] = {8}
      /\ b[16] = {6} /\ b[17] = {7}
  BY <1>1, <1>4 DEF NodeOf
<1>6. b[15] = {6, 7}
  <2>1. b[15] = b[16] \cup b[17]
    BY <1>1, <1>4 DEF NodeOf
  <2>2. QED BY <2>1, <1>5
<1>7. b[13] = {6, 7, 8}
  <2>1. b[13] = b[14] \cup b[15]
    BY <1>1, <1>4 DEF NodeOf
  <2>2. QED BY <2>1, <1>5, <1>6
<1>8. b[9] = {4, 5}
  <2>1. b[9] = b[10] \cup b[11]
    BY <1>1, <1>4 DEF NodeOf
  <2>2. QED BY <2>1, <1>5
<1>9. b[7] = {3, 6, 7, 8}
  <2>1. b[7] = b[12] \cup b[13]
    BY <1>1, <1>4 DEF NodeOf
  <2>2. QED BY <2>1, <1>5, <1>7
<1>10. b[6] = {2, 4, 5}
  <2>1. b[6] = b[8] \cup b[9]
    BY <1>1, <1>4 DEF NodeOf
  <2>2. QED BY <2>1, <1>5, <1>8
<1>11. b[5] = {2, 3, 4, 5, 6, 7, 8}
  <2>1. b[5] = b[6] \cup b[7]
    BY <1>1, <1>4 DEF NodeOf
  <2>2. QED BY <2>1, <1>9, <1>10
<1>12. b[3] = {1, 2, 3, 4, 5, 6, 7, 8}
  <2>1. b[3] = b[4] \cup b[5]
    BY <1>1, <1>4 DEF NodeOf
  <2>2. QED BY <2>1, <1>5, <1>11
<1>13. b[1] = {1, 2, 3, 4, 5, 6, 7, 8, 9}
  <2>1. b[1] = b[2] \cup b[3]
    BY <1>1, <1>4 DEF NodeOf
  <2>2. QED BY <2>1, <1>5, <1>12
<1>14. /\ one[1] = (IF s = 0 THEN 1 ELSE 0) /\ one[2] = (IF s = 1 THEN 1 ELSE 0)
      /\ one[3] = (IF s = 2 THEN 1 ELSE 0) /\ one[4] = (IF s = 3 THEN 1 ELSE 0)
      /\ one[5] = (IF s = 4 THEN 1 ELSE 0) /\ one[6] = (IF s = 5 THEN 1 ELSE 0)
      /\ one[7] = (IF s = 6 THEN 1 ELSE 0) /\ one[8] = (IF s = 7 THEN 1 ELSE 0)
      /\ one[9] = (IF s = 8 THEN 1 ELSE 0) /\ one[10] = (IF s = 9 THEN 1 ELSE 0)
      /\ one[11] = (IF s = 10 THEN 1 ELSE 0)
  BY CountsOfOne
<1> HIDE DEF one
<1>15. pairs[1] = <<IF s \in b[0] THEN 1 ELSE 0, IF s \in b[1] THEN 1 ELSE 0>>
  BY <1>2, <1>14, <1>5, <1>13 DEF VariantD
<1>16. pairs[2] = <<IF s \in b[2] THEN 1 ELSE 0, IF s \in b[3] THEN 1 ELSE 0>>
  BY <1>2, <1>14, <1>5, <1>12 DEF VariantD
<1>17. pairs[3] = <<IF s \in b[4] THEN 1 ELSE 0, IF s \in b[5] THEN 1 ELSE 0>>
  BY <1>2, <1>14, <1>5, <1>11 DEF VariantD
<1>18. pairs[4] = <<IF s \in b[6] THEN 1 ELSE 0, IF s \in b[7] THEN 1 ELSE 0>>
  BY <1>2, <1>14, <1>9, <1>10 DEF VariantD
<1>19. pairs[5] = <<IF s \in b[8] THEN 1 ELSE 0, IF s \in b[9] THEN 1 ELSE 0>>
  BY <1>2, <1>14, <1>5, <1>8 DEF VariantD
<1>20. pairs[6] = <<IF s \in b[10] THEN 1 ELSE 0, IF s \in b[11] THEN 1 ELSE 0>>
  BY <1>2, <1>14, <1>5 DEF VariantD
<1>21. pairs[7] = <<IF s \in b[12] THEN 1 ELSE 0, IF s \in b[13] THEN 1 ELSE 0>>
  BY <1>2, <1>14, <1>5, <1>7 DEF VariantD
<1>22. pairs[8] = <<IF s \in b[14] THEN 1 ELSE 0, IF s \in b[15] THEN 1 ELSE 0>>
  BY <1>2, <1>14, <1>5, <1>6 DEF VariantD
<1>23. pairs[9] = <<IF s \in b[16] THEN 1 ELSE 0, IF s \in b[17] THEN 1 ELSE 0>>
  BY <1>2, <1>14, <1>5 DEF VariantD
<1> DEFINE count(i) == IF s \in b[i] THEN 1 ELSE 0
<1>24. \A n \in 1..9 : pairs[n] = <<count(2 * n - 2), count(2 * n - 1)>>
  BY <1>15, <1>16, <1>17, <1>18, <1>19, <1>20, <1>21, <1>22, <1>23
<1>25. 18 \div 2 = 9
  OBVIOUS
<1>26. QED BY <1>1, <1>24, <1>25 DEF TreeMerged, b, t, pairs, one

\* The tree of classes of motion vectors.
LEMMA MvClassMerged ==
  ASSUME NEW s \in 0..10
  PROVE  TreeMerged(VpTrees.mv_class, Variants(OneCounted(s)).mv_class, s)
<1> DEFINE t == VpTrees.mv_class
           one == OneCounted(s)
           b == SymbolsBelow(t)
           pairs == Variants(one).mv_class
<1>1. t = <<0, 2, -1, 4, 6, 8, -2, -3, 10, 12, -4, -5, -6, 14, 16, 18, -7, -8, -9, -10>> /\ Len(t) = 20
  BY DEF VpTrees
<1>2. pairs = VariantG(one)
  BY DEF Variants
<1> HIDE DEF t, pairs
<1>3. TreeOf(t, 20)
  BY <1>1 DEF TreeOf
<1>4. \A i \in 0..19 : b[i] = NodeOf(b, t, i)
  <2>1. 20 - 1 = 19
    OBVIOUS
  <2>2. QED BY <1>3, <2>1, SymbolsOfTree
<1> HIDE DEF b
<1>5. /\ b[0] = {0} /\ b[2] = {1} /\ b[6] = {2} /\ b[7] = {3}
      /\ b[10] = {4} /\ b[11] = {5} /\ b[12] = {6} /\ b[16] = {7}
      /\ b[17] = {8} /\ b[18] = {9} /\ b[19] = {10}
  BY <1>1, <1>4 DEF NodeOf
<1>6. b[15] = {9, 10}
  <2>1. b[15] = b[18] \cup b[19]
    BY <1>1, <1>4 DEF NodeOf
  <2>2. QED BY <2>1, <1>5
<1>7. b[14] = {7, 8}
  <2>1. b[14] = b[16] \cup b[17]
    BY <1>1, <1>4 DEF NodeOf
  <2>2. QED BY <2>1, <1>5
<1>8. b[13] = {7, 8, 9, 10}
  <2>1. b[13] = b[14] \cup b[15]
    BY <1>1, <1>4 DEF NodeOf
  <2>2. QED BY <2>1, <1>6, <1>7
<1>9. b[9] = {6, 7, 8, 9, 10}
  <2>1. b[9] = b[12] \cup b[13]
    BY <1>1, <1>4 DEF NodeOf
  <2>2. QED BY <2>1, <1>5, <1>8
<1>10. b[8] = {4, 5}
  <2>1. b[8] = b[10] \cup b[11]
    BY <1>1, <1>4 DEF NodeOf
  <2>2. QED BY <2>1, <1>5
<1>11. b[5] = {4, 5, 6, 7, 8, 9, 10}
  <2>1. b[5] = b[8] \cup b[9]
    BY <1>1, <1>4 DEF NodeOf
  <2>2. QED BY <2>1, <1>9, <1>10
<1>12. b[4] = {2, 3}
  <2>1. b[4] = b[6] \cup b[7]
    BY <1>1, <1>4 DEF NodeOf
  <2>2. QED BY <2>1, <1>5
<1>13. b[3] = {2, 3, 4, 5, 6, 7, 8, 9, 10}
  <2>1. b[3] = b[4] \cup b[5]
    BY <1>1, <1>4 DEF NodeOf
  <2>2. QED BY <2>1, <1>11, <1>12
<1>14. b[1] = {1, 2, 3, 4, 5, 6, 7, 8, 9, 10}
  <2>1. b[1] = b[2] \cup b[3]
    BY <1>1, <1>4 DEF NodeOf
  <2>2. QED BY <2>1, <1>5, <1>13
<1>15. /\ one[1] = (IF s = 0 THEN 1 ELSE 0) /\ one[2] = (IF s = 1 THEN 1 ELSE 0)
      /\ one[3] = (IF s = 2 THEN 1 ELSE 0) /\ one[4] = (IF s = 3 THEN 1 ELSE 0)
      /\ one[5] = (IF s = 4 THEN 1 ELSE 0) /\ one[6] = (IF s = 5 THEN 1 ELSE 0)
      /\ one[7] = (IF s = 6 THEN 1 ELSE 0) /\ one[8] = (IF s = 7 THEN 1 ELSE 0)
      /\ one[9] = (IF s = 8 THEN 1 ELSE 0) /\ one[10] = (IF s = 9 THEN 1 ELSE 0)
      /\ one[11] = (IF s = 10 THEN 1 ELSE 0)
  BY CountsOfOne
<1> HIDE DEF one
<1>16. pairs[1] = <<IF s \in b[0] THEN 1 ELSE 0, IF s \in b[1] THEN 1 ELSE 0>>
  BY <1>2, <1>15, <1>5, <1>14 DEF VariantG
<1>17. pairs[2] = <<IF s \in b[2] THEN 1 ELSE 0, IF s \in b[3] THEN 1 ELSE 0>>
  BY <1>2, <1>15, <1>5, <1>13 DEF VariantG
<1>18. pairs[3] = <<IF s \in b[4] THEN 1 ELSE 0, IF s \in b[5] THEN 1 ELSE 0>>
  BY <1>2, <1>15, <1>11, <1>12 DEF VariantG
<1>19. pairs[4] = <<IF s \in b[6] THEN 1 ELSE 0, IF s \in b[7] THEN 1 ELSE 0>>
  BY <1>2, <1>15, <1>5 DEF VariantG
<1>20. pairs[5] = <<IF s \in b[8] THEN 1 ELSE 0, IF s \in b[9] THEN 1 ELSE 0>>
  BY <1>2, <1>15, <1>9, <1>10 DEF VariantG
<1>21. pairs[6] = <<IF s \in b[10] THEN 1 ELSE 0, IF s \in b[11] THEN 1 ELSE 0>>
  BY <1>2, <1>15, <1>5 DEF VariantG
<1>22. pairs[7] = <<IF s \in b[12] THEN 1 ELSE 0, IF s \in b[13] THEN 1 ELSE 0>>
  BY <1>2, <1>15, <1>5, <1>8 DEF VariantG
<1>23. pairs[8] = <<IF s \in b[14] THEN 1 ELSE 0, IF s \in b[15] THEN 1 ELSE 0>>
  BY <1>2, <1>15, <1>6, <1>7 DEF VariantG
<1>24. pairs[9] = <<IF s \in b[16] THEN 1 ELSE 0, IF s \in b[17] THEN 1 ELSE 0>>
  BY <1>2, <1>15, <1>5 DEF VariantG
<1>25. pairs[10] = <<IF s \in b[18] THEN 1 ELSE 0, IF s \in b[19] THEN 1 ELSE 0>>
  BY <1>2, <1>15, <1>5 DEF VariantG
<1> DEFINE count(i) == IF s \in b[i] THEN 1 ELSE 0
<1>26. \A n \in 1..10 : pairs[n] = <<count(2 * n - 2), count(2 * n - 1)>>
  BY <1>16, <1>17, <1>18, <1>19, <1>20, <1>21, <1>22, <1>23, <1>24, <1>25
<1>27. 20 \div 2 = 10
  OBVIOUS
<1>28. QED BY <1>1, <1>26, <1>27 DEF TreeMerged, b, t, pairs, one

\* The merges of the driver are those of the trees of the format.
THEOREM TreesMerged == MergeFollowsTrees
<1>1. ASSUME NEW s \in 0..10, NEW name \in DOMAIN VpTrees
      PROVE  TreeMerged(VpTrees[name], Variants(OneCounted(s))[name], s)
  <2>1. name \in {"small_token", "binary", "inter_mode", "four", "three", "intra_mode", "mv_class"}
    BY DEF VpTrees
  <2>2. QED BY <2>1, SmallTokenMerged, BinaryMerged, InterModeMerged, FourMerged, ThreeMerged,
               IntraModeMerged, MvClassMerged
<1>2. QED BY <1>1 DEF MergeFollowsTrees, TreeMerged, OneCounted
-----------------------------------------------------------------------------
(* The layout of VP9: tiles, scales, surfaces, the image of the probabilities. *)

\* The powers of two that are numbers of tiles.
LEMMA TilePowers == \A log \in 0..6 : Pow2(log) \in {1, 2, 4, 8, 16, 32, 64}
  BY DEF Pow2

\* With a picture of n superblocks, a tile starts n of n or less after another.
LEMMA TileBounds ==
  ASSUME NEW p \in Nat \ {0}, NEW sb \in Nat, p <= sb, NEW i \in Nat, i < p
  PROVE  /\ (i * sb) \div p \in Nat /\ ((i + 1) * sb) \div p \in Nat
         /\ (i * sb) \div p < ((i + 1) * sb) \div p
         /\ ((i + 1) * sb) \div p <= sb
<1> DEFINE a == i * sb
           b == (i + 1) * sb
           q == a \div p
           r == b \div p
<1>1. a \in Nat /\ b \in Nat /\ b = a + sb
  OBVIOUS
<1>2. p * sb \in Nat /\ b <= p * sb
  <2>1. i + 1 \in Nat /\ i + 1 <= p
    OBVIOUS
  <2>2. QED BY <2>1, ProductMonotone, ProductInNat
<1> HIDE DEF a, b
<1>3. q \in Nat /\ p * q <= a /\ a < p * q + p
  BY <1>1, QuotientBounds
<1>4. r \in Nat /\ p * r <= b /\ b < p * r + p
  BY <1>1, QuotientBounds
<1> HIDE DEF q, r
<1>5. q < r
  <2>1. SUFFICES ASSUME r <= q PROVE FALSE
    BY <1>3, <1>4
  <2>2. p * r <= p * q
    BY <2>1, <1>3, <1>4, ProductMonotone
  <2>3. p * r \in Nat /\ p * q \in Nat
    BY <1>3, <1>4, ProductInNat
  <2>4. QED BY <2>2, <2>3, <1>1, <1>3, <1>4
<1>6. r <= sb
  <2>1. SUFFICES ASSUME sb + 1 <= r PROVE FALSE
    BY <1>4
  <2>2. p * (sb + 1) <= p * r /\ p * (sb + 1) = p * sb + p
    <3>1. (sb + 1) * p <= r * p
      BY <2>1, <1>4, ProductMonotone
    <3>2. QED BY <3>1, <1>4
  <2>3. p * r \in Nat /\ p * sb \in Nat
    BY <1>4, ProductInNat
  <2>4. QED BY <2>2, <2>3, <1>1, <1>2, <1>4
<1>7. QED BY <1>3, <1>4, <1>5, <1>6 DEF q, r, a, b

\* The sizes a VP9 stream may have.
LEMMA VpSizeRange == \A s \in VpSizes : s \in Nat /\ s > 0 /\ s <= 4096
  BY VpSizesAssumption

\* A picture is at most 64 superblocks wide or high.
LEMMA SuperblockRange == \A sb \in Superblocks : sb \in Nat /\ sb > 0 /\ sb < 65
<1> SUFFICES ASSUME NEW s \in Nat, s > 0, s <= 4096
             PROVE  (s + 64 - 1) \div 64 \in Nat /\ (s + 64 - 1) \div 64 > 0 /\ (s + 64 - 1) \div 64 < 65
  BY VpSizeRange DEF Superblocks, DIV_ROUND_UP
<1> QED OBVIOUS

\* The tiles of any picture cover its superblocks.
THEOREM TilesCoverAll == TilesCover
<1> SUFFICES ASSUME NEW sb \in Superblocks, NEW log \in 0..6, Pow2(log) <= sb
             PROVE  /\ TileStart(0, sb, log) = 0 /\ TileStart(Pow2(log), sb, log) = sb
                    /\ FirstTileEnd(sb, log) = TileEnd(0, sb, log)
                    /\ \A i \in 0..(Pow2(log) - 1) :
                         /\ TileStart(i, sb, log) <= TileEnd(i, sb, log)
                         /\ TileEnd(i, sb, log) + 1 = TileStart(i + 1, sb, log)
  BY DEF TilesCover
<1> DEFINE p == Pow2(log)
<1>1. p \in Nat \ {0}
  BY TilePowers
<1>2. sb \in Nat /\ sb > 0 /\ sb < 65
  BY SuperblockRange
<1> HIDE DEF p
<1>3. 0 \div p = 0
  BY <1>1, Quotient
<1>4. (p * sb) \div p = sb
  <2>1. p * sb \in Nat
    BY <1>1, <1>2, ProductInNat
  <2>2. QED BY <1>1, <1>2, <2>1, Quotient
<1>5. \A i \in 0..(p - 1) :
        /\ (i * sb) \div p \in Nat /\ ((i + 1) * sb) \div p \in Nat
        /\ (i * sb) \div p < ((i + 1) * sb) \div p
        /\ ((i + 1) * sb) \div p <= sb
  <2>1. \A i \in 0..(p - 1) : i \in Nat /\ i < p
    BY <1>1
  <2>2. p <= sb
    BY DEF p
  <2>3. QED BY <2>1, <2>2, <1>1, <1>2, TileBounds
<1>6. \A i \in 0..(p - 1) : Field16(((i + 1) * sb) \div p - 1) = ((i + 1) * sb) \div p - 1
  <2> SUFFICES ASSUME NEW v \in Nat, v > 0, v < 65 PROVE Field16(v - 1) = v - 1
    BY <1>2, <1>5
  <2> QED BY DEF Field16
<1>7. TileStart(0, sb, log) = 0 /\ TileStart(p, sb, log) = sb
  <2>1. 0 * sb = 0
    BY <1>2
  <2>2. QED BY <2>1, <1>3, <1>4 DEF TileStart, p
<1>8. FirstTileEnd(sb, log) = TileEnd(0, sb, log)
  <2>1. (0 + 1) * sb = sb
    BY <1>2
  <2>2. QED BY <2>1 DEF FirstTileEnd, TileEnd, TileStart
<1>9. ASSUME NEW i \in 0..(p - 1)
      PROVE  /\ TileStart(i, sb, log) <= TileEnd(i, sb, log)
             /\ TileEnd(i, sb, log) + 1 = TileStart(i + 1, sb, log)
  <2> DEFINE a == (i * sb) \div p
             b == ((i + 1) * sb) \div p
  <2>1. TileStart(i, sb, log) = a /\ TileStart(i + 1, sb, log) = b
    BY DEF TileStart, p
  <2>2. TileEnd(i, sb, log) = b - 1
    BY <2>1, <1>6 DEF TileEnd
  <2>3. a \in Nat /\ b \in Nat /\ a < b
    BY <1>5
  <2> HIDE DEF a, b
  <2>4. QED BY <2>1, <2>2, <2>3
<1>10. QED BY <1>7, <1>8, <1>9 DEF p

\* Scale factors of any accepted reference fit their fields.
THEOREM ScalesFit == ScaleFits
<1> SUFFICES ASSUME NEW ref \in VpSizes, NEW cur \in VpSizes, ref <= 2 * cur, cur <= 16 * ref
             PROVE  ScaleFactor(ref, cur) < 65536 /\ ScaleStep(ref, cur) \in 1..32
  BY DEF ScaleFits, ValidReferenceSize
<1> DEFINE f == (ref * 16384) \div cur
<1>1. ref \in Nat /\ cur \in Nat \ {0} /\ ref * 16384 \in Nat
  BY VpSizeRange
<1>2. f \in Nat /\ cur * f <= ref * 16384 /\ ref * 16384 < cur * f + cur
  BY <1>1, QuotientBounds
<1> HIDE DEF f
<1>3. cur * f \in Nat
  BY <1>1, <1>2, ProductInNat
<1>4. f <= 32768
  <2>1. SUFFICES ASSUME 32769 <= f PROVE FALSE
    BY <1>2
  <2>2. 32769 * cur <= f * cur
    BY <2>1, <1>1, <1>2, ProductMonotone
  <2>3. f * cur = cur * f
    BY <1>1, <1>2
  <2>4. QED BY <2>2, <2>3, <1>1, <1>2, <1>3
<1>5. f >= 1024
  <2>1. SUFFICES ASSUME f + 1 <= 1024 PROVE FALSE
    BY <1>2
  <2>2. (f + 1) * cur <= 1024 * cur
    BY <2>1, <1>1, <1>2, ProductMonotone
  <2>3. (f + 1) * cur = cur * f + cur
    BY <1>1, <1>2
  <2>4. QED BY <2>2, <2>3, <1>1, <1>2, <1>3
<1>6. f \div 1024 \in 1..32
  BY <1>2, <1>4, <1>5
<1>7. QED BY <1>2, <1>4, <1>6 DEF ScaleFactor, ScaleStep, f

\* Rounding up, for the alignments that occur.
LEMMA AlignSixteen ==
  ASSUME NEW n \in Nat
  PROVE  /\ DIV_ROUND_UP(n, 16) \in Nat /\ ALIGN(n, 16) = 16 * DIV_ROUND_UP(n, 16)
         /\ n <= ALIGN(n, 16) /\ ALIGN(n, 16) < n + 16
  BY DEF ALIGN, DIV_ROUND_UP

\* Rounding up to any multiple does not lose anything.
LEMMA AlignUp ==
  ASSUME NEW n \in Nat, NEW a \in Nat \ {0}
  PROVE  ALIGN(n, a) \in Nat /\ n <= ALIGN(n, a)
<1> DEFINE m == n + a - 1
           q == m \div a
<1>1. m \in Nat
  OBVIOUS
<1> HIDE DEF m
<1>2. q \in Nat /\ a * q <= m /\ m < a * q + a
  BY <1>1, QuotientBounds
<1> HIDE DEF q
<1>3. q * a = a * q /\ a * q \in Nat
  BY <1>2, ProductInNat
<1>4. ALIGN(n, a) = q * a
  BY DEF ALIGN, DIV_ROUND_UP, q, m
<1>5. QED BY <1>1, <1>2, <1>3, <1>4 DEF m

\* The chroma of 10 bit pictures of every size moves inside its surface.
THEOREM SurfacesFit == ReconFits
<1> SUFFICES ASSUME NEW w \in VpSizes, NEW h \in VpSizes
             PROVE  /\ LowChromaWritten(w, h) <= LowChromaRead(w, h)
                    /\ LowChromaRead(w, h) + LowChromaLen(w, h) <= ReconSize(w, h)
  BY DEF ReconFits
<1> DEFINE m    == DIV_ROUND_UP(h, 16)
           low  == LowStride(w)
           high == ReconHigh(w, h)
<1>1. w \in Nat /\ h \in Nat
  BY VpSizeRange
<1>2. m \in Nat /\ ALIGN(h, 16) = 16 * m
  BY <1>1, AlignSixteen
<1>3. ALIGN(h, 8) \in Nat /\ ALIGN(h, 8) <= ALIGN(h, 16)
  BY <1>1 DEF ALIGN, DIV_ROUND_UP
<1>4. DIV_ROUND_UP(h, 2) \in Nat /\ DIV_ROUND_UP(h, 2) <= 8 * m
  BY <1>1 DEF DIV_ROUND_UP
<1>5. low \in Nat
  <2>1. ALIGN(w, 4) \div 4 \in Nat
    BY <1>1 DEF ALIGN, DIV_ROUND_UP
  <2>2. QED BY <2>1, AlignUp DEF LowStride
<1>6. high \in Nat
  <2>1. ReconLuma(w, h) \in Nat
    BY <1>1, AlignUp, ProductInNat DEF ReconLuma
  <2>2. QED BY <2>1 DEF ReconHigh
<1>7. LowChromaWritten(w, h) = high + low * ALIGN(h, 8)
      /\ LowChromaRead(w, h) = high + low * (16 * m)
      /\ LowChromaLen(w, h) = low * DIV_ROUND_UP(h, 2)
      /\ ReconSize(w, h) = ALIGN(high + (low * (16 * m) * 3) \div 2, 4096)
  BY <1>2 DEF LowChromaWritten, LowChromaRead, LowChromaLen, ReconSize, PAGE
<1>8. low * ALIGN(h, 8) <= low * (16 * m)
  <2>1. ALIGN(h, 8) * low <= (16 * m) * low
    BY <1>2, <1>3, <1>5, ProductMonotone
  <2>2. QED BY <2>1, <1>2, <1>3, <1>5
<1>9. low * DIV_ROUND_UP(h, 2) <= 8 * (low * m)
  <2>1. DIV_ROUND_UP(h, 2) * low <= (8 * m) * low
    BY <1>2, <1>4, <1>5, ProductMonotone
  <2>2. QED BY <2>1, <1>2, <1>4, <1>5
<1>10. low * m \in Nat /\ low * (16 * m) = 16 * (low * m)
  BY <1>2, <1>5, ProductInNat, Swap
<1>11. (low * (16 * m) * 3) \div 2 = 24 * (low * m)
  BY <1>10
<1>12. low * ALIGN(h, 8) \in Nat /\ low * DIV_ROUND_UP(h, 2) \in Nat
  BY <1>3, <1>4, <1>5, ProductInNat
<1> DEFINE size == ReconSize(w, h)
<1>13. size \in Nat /\ high + 24 * (low * m) <= size
  <2> DEFINE total == high + 24 * (low * m)
  <2>1. total \in Nat
    BY <1>6, <1>10
  <2>2. size = ALIGN(total, 4096)
    BY <1>7, <1>11
  <2> HIDE DEF total, size
  <2>3. size \in Nat /\ total <= size
    BY <2>1, <2>2, AlignUp
  <2>4. QED BY <2>3 DEF total
<1> HIDE DEF m, low, high, size
<1>14. LowChromaWritten(w, h) <= LowChromaRead(w, h)
  BY <1>6, <1>7, <1>8, <1>10, <1>12
<1>15. high + 16 * (low * m) + low * DIV_ROUND_UP(h, 2) <= size
  BY <1>6, <1>9, <1>10, <1>12, <1>13
<1>16. QED BY <1>7, <1>10, <1>14, <1>15 DEF size

\* How many bytes each group of the probability image takes.
PackedLengths == <<4, 8, 8, 2304, 4, 28, 16, 4, 8, 8, 24, 64, 160, 64, 4>>

\* Where each group ends.
PackedEnds == <<4, 12, 20, 2324, 2328, 2356, 2372, 2376, 2384, 2392, 2416, 2480, 2640, 2704, 2708>>

\* The running ends of the code, evaluated.
LEMMA PackedEndValues ==
  /\ Len(PackedWords) = 15
  /\ \A i \in 1..15 : 4 * PackedWords[i][2] = PackedLengths[i]
  /\ PackedEnd[0] = 0 /\ \A i \in 1..15 : PackedEnd[i] = PackedEnds[i]
<1> DEFINE e == PackedEnd
           a == [i \in 1..15 |-> PackedLengths[i]]
<1>1. Len(PackedWords) = 15
  BY DEF PackedWords
<1>2. \A i \in 1..15 : 4 * PackedWords[i][2] = PackedLengths[i]
  BY DEF PackedWords, PackedLengths
<1>3. a \in [1..15 -> Nat]
  BY DEF PackedLengths
<1>4. e = CHOOSE g : SumEquation(g, a, 15)
  <2>1. e = CHOOSE g : g = [i \in 0..15 |-> IF i = 0 THEN 0 ELSE g[i - 1] + 4 * PackedWords[i][2]]
    BY <1>1 DEF PackedEnd
  <2>2. ASSUME NEW g
        PROVE  [i \in 0..15 |-> IF i = 0 THEN 0 ELSE g[i - 1] + 4 * PackedWords[i][2]]
                 = [i \in 0..15 |-> IF i = 0 THEN 0 ELSE g[i - 1] + a[i]]
    BY <1>2
  <2>3. QED BY <2>1, <2>2 DEF SumEquation
<1> HIDE DEF e
<1>5. RunningSums(e, a, 15)
  BY <1>3, <1>4, RunningSum
<1>6. e[0] = 0 /\ \A i \in 1..15 : e[i] = e[i - 1] + PackedLengths[i]
  BY <1>5 DEF RunningSums
<1>7. /\ e[1] = 4 /\ e[2] = 12 /\ e[3] = 20 /\ e[4] = 2324 /\ e[5] = 2328
  BY <1>6 DEF PackedLengths
<1>8. /\ e[6] = 2356 /\ e[7] = 2372 /\ e[8] = 2376 /\ e[9] = 2384 /\ e[10] = 2392
  BY <1>6, <1>7 DEF PackedLengths
<1>9. /\ e[11] = 2416 /\ e[12] = 2480 /\ e[13] = 2640 /\ e[14] = 2704 /\ e[15] = 2708
  BY <1>6, <1>8 DEF PackedLengths
<1>10. \A i \in 1..15 : e[i] = PackedEnds[i]
  BY <1>7, <1>8, <1>9 DEF PackedEnds
<1>11. QED BY <1>1, <1>2, <1>6, <1>10 DEF e

\* Fields x and y do not overlap.
FieldApart(x, y) == x[1] + x[2] <= y[1] \/ y[1] + y[2] <= x[1]

\* The words of the image, one after the other.
PackedGroups == {<<PackedEnd[i - 1], 4 * PackedWords[i][2]>> : i \in 1..(Len(PackedWords) - 1)}
                  \cup {<<PackedEnd[Len(PackedWords) - 1], 3>>}

\* The words of the image do not overlap, and end where the motion vectors start.
LEMMA GroupsApart ==
  /\ \A x, y \in PackedGroups : x # y => FieldApart(x, y)
  /\ \A x \in PackedGroups : x[1] \in Nat /\ x[2] \in Nat /\ x[1] + x[2] <= 2708
<1> DEFINE start(i) == PackedEnd[i - 1]
           length(i) == IF i = 15 THEN 3 ELSE PackedLengths[i]
<1>1. \A i \in 1..15 : /\ start(i) \in Nat /\ length(i) \in Nat
                       /\ start(i) + length(i) <= PackedEnds[i] /\ PackedEnds[i] <= 2708
  BY PackedEndValues DEF PackedEnds, PackedLengths
<1>2. \A i, j \in 1..15 : i < j => PackedEnds[i] <= PackedEnds[j - 1]
  BY DEF PackedEnds
<1>3. \A i, j \in 1..15 : i < j => start(i) + length(i) <= start(j)
  <2> SUFFICES ASSUME NEW i \in 1..15, NEW j \in 1..15, i < j
               PROVE  start(i) + length(i) <= start(j)
    OBVIOUS
  <2>1. j - 1 \in 1..15 /\ start(j) = PackedEnds[j - 1]
    BY PackedEndValues
  <2>2. start(i) \in Nat /\ length(i) \in Nat /\ start(i) + length(i) <= PackedEnds[i]
    BY <1>1
  <2>3. PackedEnds[i] <= PackedEnds[j - 1] /\ PackedEnds[i] \in Nat /\ PackedEnds[j - 1] \in Nat
    BY <1>2, <2>1 DEF PackedEnds
  <2> HIDE DEF start, length
  <2>4. QED BY <2>1, <2>2, <2>3
<1>4. PackedGroups = {<<start(i), length(i)>> : i \in 1..15}
  <2>1. \A i \in 1..14 : i \in 1..15 /\ length(i) = 4 * PackedWords[i][2]
    BY PackedEndValues
  <2>2. length(15) = 3 /\ start(15) = PackedEnd[14]
    OBVIOUS
  <2>3. PackedGroups = {<<PackedEnd[i - 1], 4 * PackedWords[i][2]>> : i \in 1..14} \cup {<<PackedEnd[14], 3>>}
    BY PackedEndValues DEF PackedGroups
  <2>4. \A i \in 1..15 : i \in 1..14 \/ i = 15
    OBVIOUS
  <2> HIDE DEF length
  <2>5. QED BY <2>1, <2>2, <2>3, <2>4
<1> HIDE DEF start, length
<1>5. ASSUME NEW i \in 1..15, NEW j \in 1..15, <<start(i), length(i)>> # <<start(j), length(j)>>
      PROVE  FieldApart(<<start(i), length(i)>>, <<start(j), length(j)>>)
  <2>1. i < j \/ j < i
    BY <1>5
  <2>2. start(i) + length(i) <= start(j) \/ start(j) + length(j) <= start(i)
    BY <2>1, <1>3
  <2>3. QED BY <2>2 DEF FieldApart
<1>6. ASSUME NEW i \in 1..15
      PROVE  start(i) \in Nat /\ length(i) \in Nat /\ start(i) + length(i) <= 2708
  <2>1. PackedEnds[i] \in Nat
    BY DEF PackedEnds
  <2>2. QED BY <2>1, <1>1
<1>7. QED BY <1>4, <1>5, <1>6

\* The fields of a motion vector component, wherever they start.
LEMMA MvApart ==
  ASSUME NEW k \in {0, 1}
  PROVE  /\ \A x, y \in MvFields(k) : x # y => FieldApart(x, y)
         /\ \A x \in MvFields(k) : /\ x[1] \in Nat /\ x[2] \in Nat
                                   /\ 2708 + (1 - k) * 48 <= x[1] /\ x[1] + x[2] <= 2751 + (1 - k) * 48
<1> DEFINE mv == 2708 + (1 - k) * 48
           F == {<<mv, 1>>, <<mv + 1, 1>>, <<mv + 2, 1>>, <<mv + 3, 1>>, <<mv + 4, 3>>,
                 <<mv + 8, 3>>, <<mv + 12, 10>>, <<mv + 28, 10>>, <<mv + 40, 3>>}
<1>1. MvFields(k) = F
  BY DEF MvFields, MV_IMAGE
<1>2. mv \in Nat
  OBVIOUS
<1>3. 2751 + (1 - k) * 48 = mv + 43
  OBVIOUS
<1> HIDE DEF mv
<1>4. \A x \in F : x[1] \in Nat /\ x[2] \in Nat /\ mv <= x[1] /\ x[1] + x[2] <= mv + 43
  BY <1>2
<1>5. \A x, y \in F : x # y => FieldApart(x, y)
  BY <1>2 DEF FieldApart
<1>6. QED BY <1>1, <1>3, <1>4, <1>5 DEF mv

\* The image of the probabilities has no two fields in one place.
THEOREM ImageDisjoint == PackedDisjoint
<1> DEFINE G == PackedGroups
           M == MvFields(1)
           N == MvFields(0)
           T == TreeFields
<1>1. PackedFields = G \cup N \cup M \cup T
  BY DEF PackedFields, PackedGroups
<1>2. /\ \A x, y \in G : x # y => FieldApart(x, y)
      /\ \A x \in G : x[1] \in Nat /\ x[2] \in Nat /\ x[1] + x[2] <= 2708
  BY GroupsApart
<1>3. /\ \A x, y \in M : x # y => FieldApart(x, y)
      /\ \A x \in M : x[1] \in Nat /\ x[2] \in Nat /\ 2708 <= x[1] /\ x[1] + x[2] <= 2751
  <2>1. 1 \in {0, 1} /\ (1 - 1) * 48 = 0
    OBVIOUS
  <2>2. QED BY <2>1, MvApart
<1>4. /\ \A x, y \in N : x # y => FieldApart(x, y)
      /\ \A x \in N : x[1] \in Nat /\ x[2] \in Nat /\ 2756 <= x[1] /\ x[1] + x[2] <= 2799
  <2>1. 0 \in {0, 1} /\ 2708 + (1 - 0) * 48 = 2756 /\ 2751 + (1 - 0) * 48 = 2799
    OBVIOUS
  <2>2. QED BY <2>1, MvApart
<1>5. /\ \A x, y \in T : x # y => FieldApart(x, y)
      /\ \A x \in T : x[1] \in Nat /\ x[2] \in Nat /\ 2800 <= x[1] /\ x[1] + x[2] <= 2812
  BY DEF TreeFields, FieldApart
<1> HIDE DEF G, M, N, T
<1>6. /\ \A x \in G, y \in M : FieldApart(x, y) /\ FieldApart(y, x)
      /\ \A x \in G, y \in N : FieldApart(x, y) /\ FieldApart(y, x)
      /\ \A x \in G, y \in T : FieldApart(x, y) /\ FieldApart(y, x)
  BY <1>2, <1>3, <1>4, <1>5 DEF FieldApart
<1>7. /\ \A x \in M, y \in N : FieldApart(x, y) /\ FieldApart(y, x)
      /\ \A x \in M, y \in T : FieldApart(x, y) /\ FieldApart(y, x)
      /\ \A x \in N, y \in T : FieldApart(x, y) /\ FieldApart(y, x)
  BY <1>3, <1>4, <1>5 DEF FieldApart
<1>8. \A x, y \in PackedFields : x # y => FieldApart(x, y)
  BY <1>1, <1>2, <1>3, <1>4, <1>5, <1>6, <1>7
<1>9. \A x \in PackedFields : x[1] + x[2] <= PROBS_SIZE
  BY <1>1, <1>2, <1>3, <1>4, <1>5 DEF PROBS_SIZE
<1>10. PackedEnd[Len(PackedWords)] = MV_IMAGE
  BY PackedEndValues DEF PackedEnds, MV_IMAGE
<1>11. QED BY <1>8, <1>9, <1>10 DEF PackedDisjoint, FieldApart

\* The pieces of the shared allocation follow each other, for every coded size.
THEOREM AreasApart == WorkAreasApart
<1>1. Pow2(6) = 64 /\ Pow2(2) = 4
  BY DEF Pow2
<1>2. TileRecord(Pow2(6) * Pow2(2) - 1, 64, 36, 6, 2).offset = 4064
  BY <1>1 DEF TileRecord
<1>3. COUNTS_OFFSET + 4 * CountWords <= SEGMENT_MAP_OFFSET
  BY DEF COUNTS_OFFSET, CountWords, SEGMENT_MAP_OFFSET
<1>4. ASSUME NEW w \in VpSizes, NEW h \in VpSizes
      PROVE  SEGMENT_MAP_OFFSET + SegmentMapSize(w, h) <= PROB_COUNT_SIZE
  <2> DEFINE m == DIV_ROUND_UP(w, 64)
             n == DIV_ROUND_UP(h, 64)
  <2>1. m \in Nat /\ m <= 64 /\ n \in Nat /\ n <= 64
    BY SuperblockRange DEF Superblocks
  <2>2. SegmentMapSize(w, h) = m * n * 32
    BY DEF SegmentMapSize
  <2> HIDE DEF m, n
  <2>3. m * n <= 64 * n /\ m * n \in Nat
    BY <2>1, ProductMonotone, ProductInNat
  <2>4. m * n * 32 \in Nat /\ m * n * 32 <= 131072
    BY <2>1, <2>3
  <2> DEFINE size == SegmentMapSize(w, h)
  <2>5. size \in Nat /\ size <= 131072
    BY <2>2, <2>4
  <2> HIDE DEF size
  <2>6. 32768 + size <= 557056
    BY <2>5
  <2>7. QED BY <2>6 DEF SEGMENT_MAP_OFFSET, PROB_COUNT_SIZE, size
<1>5. QED BY <1>2, <1>3, <1>4 DEF WorkAreasApart, PROBS_OFFSET, PROBS_SIZE, COUNTS_OFFSET

(***************************************************************************)
(* The decoder from frame to frame.                                        *)
(***************************************************************************)

\* Frame c, when it reached the hardware, did not start afresh after g.
AfterResets(log, g) ==
  \A c \in 1..Len(log) :
    log[c].end # "rejected" /\ VpResetsAll(log[c].h) => c <= g
AfterIntra(log, g) ==
  \A c \in 1..Len(log) :
    log[c].end # "rejected" /\ VpIntra(log[c].h) => c <= g

\* The running job is the last frame sent, and writes the motion vectors.
RunInv ==
  VpBusy => /\ vpUp
            /\ vpJob.f = Len(vpLog) /\ vpMv = vpJob.f
            /\ vpLog[vpJob.f] = [h |-> vpJob.h, end |-> "running"]

\* Between jobs the record of the previous frame is about the frame whose motion
\* vectors are in the buffer, and that is the last decoded one.
PrevInv ==
  ~VpBusy /\ ~vpSpoiled /\ vpPrev.valid =>
    /\ vpMv \in VpDone /\ \A g \in VpDone : g <= vpMv
    /\ vpPrev.show = vpLog[vpMv].h.show
    /\ vpPrev.intra = VpIntra(vpLog[vpMv].h)
    /\ vpPrev.size = vpLog[vpMv].h.size

\* What is kept, and what the running job was given, comes from decoded frames
\* from after the last fresh start.
KeptInv ==
  /\ \A i \in 0..3 : \A g \in vpCtx[i] : g \in VpDone /\ AfterResets(vpLog, g)
  /\ \A g \in vpMap[vpActive] : g \in VpDone /\ AfterIntra(vpLog, g)
  /\ VpBusy =>
       /\ \A g \in vpJob.tables : g \in VpDone \cup {vpJob.f} /\ AfterResets(vpLog, g)
       /\ \A g \in vpJob.window : g \in VpDone /\ AfterIntra(vpLog, g)

\* The buffers: what is recorded of a picture, and the surfaces of the job.
PicInv ==
  /\ VpPictureDescribed
  /\ \A b \in VpBuf : vpPic[b].holds <= Len(vpLog)
  /\ VpBusy =>
       /\ vpJob.h.depth = 10 => /\ vpPic[vpJob.buf].recon >= vpJob.h.size
                                /\ vpPic[vpJob.buf].chroma = vpJob.h.size
                                /\ \A b \in vpJob.refs : vpPic[b].recon # 0

VpInv ==
  /\ VpTypeOK /\ RunInv /\ PrevInv /\ KeptInv /\ PicInv /\ VpMvsOfPrevious

\* A frame is sent: the log grows by an entry that is not yet decoded.
LEMMA LogGrows ==
  ASSUME VpTypeOK, NEW h \in VpFrame, NEW e \in {"rejected", "running"},
         vpLog' = Append(vpLog, [h |-> h, end |-> e])
  PROVE  /\ vpLog' \in Seq([h : VpFrame, end : {"rejected", "running", "decoded", "failed"}])
         /\ Len(vpLog) \in Nat /\ Len(vpLog') = Len(vpLog) + 1 /\ VpNow = Len(vpLog) + 1
         /\ \A i \in 1..Len(vpLog) : vpLog'[i] = vpLog[i]
         /\ vpLog'[VpNow] = [h |-> h, end |-> e]
         /\ VpDone' = VpDone
<1>1. [h |-> h, end |-> e] \in [h : VpFrame, end : {"rejected", "running", "decoded", "failed"}]
  OBVIOUS
<1>2. /\ Len(vpLog) \in Nat /\ Len(vpLog') = Len(vpLog) + 1
      /\ \A i \in 1..Len(vpLog) : vpLog'[i] = vpLog[i]
      /\ vpLog'[Len(vpLog) + 1] = [h |-> h, end |-> e]
      /\ vpLog' \in Seq([h : VpFrame, end : {"rejected", "running", "decoded", "failed"}])
  BY <1>1, AppendProperties, LenProperties DEF VpTypeOK
<1>3. VpDone' = VpDone
  BY <1>2 DEF VpDone
<1>4. QED BY <1>2, <1>3 DEF VpNow

\* A frame ends: its entry changes.
LEMMA LogEnds ==
  ASSUME VpTypeOK, NEW f \in 1..Len(vpLog), NEW e \in {"decoded", "failed"},
         vpLog' = [vpLog EXCEPT ![f].end = e]
  PROVE  /\ vpLog' \in Seq([h : VpFrame, end : {"rejected", "running", "decoded", "failed"}])
         /\ Len(vpLog) \in Nat /\ Len(vpLog') = Len(vpLog)
         /\ \A i \in 1..Len(vpLog) : /\ vpLog'[i].h = vpLog[i].h
                                     /\ vpLog'[i].end = IF i = f THEN e ELSE vpLog[i].end
<1>1. /\ Len(vpLog) \in Nat
      /\ vpLog[f] \in [h : VpFrame, end : {"rejected", "running", "decoded", "failed"}]
      /\ \A i \in 1..Len(vpLog) :
           vpLog[i] \in [h : VpFrame, end : {"rejected", "running", "decoded", "failed"}]
  BY LenProperties, ElementOfSeq DEF VpTypeOK
<1>2. vpLog' = [vpLog EXCEPT ![f] = [vpLog[f] EXCEPT !.end = e]]
  OBVIOUS
<1>3. [vpLog[f] EXCEPT !.end = e]
        \in [h : VpFrame, end : {"rejected", "running", "decoded", "failed"}]
  BY <1>1
<1>4. /\ vpLog' \in Seq([h : VpFrame, end : {"rejected", "running", "decoded", "failed"}])
      /\ Len(vpLog') = Len(vpLog)
      /\ \A i \in 1..Len(vpLog) :
           vpLog'[i] = IF i = f THEN [vpLog[f] EXCEPT !.end = e] ELSE vpLog[i]
  BY <1>2, <1>3, ExceptSeq DEF VpTypeOK
<1>5. QED BY <1>1, <1>4

\* Nothing of what is kept is lost when a frame is sent that starts nothing.
LEMMA StayAfter ==
  ASSUME VpTypeOK, NEW h \in VpFrame, NEW e \in {"rejected", "running"},
         vpLog' = Append(vpLog, [h |-> h, end |-> e]), NEW g
  PROVE  /\ AfterResets(vpLog, g) /\ (e = "rejected" \/ ~VpResetsAll(h)) => AfterResets(vpLog', g)
         /\ AfterIntra(vpLog, g) /\ (e = "rejected" \/ ~VpIntra(h)) => AfterIntra(vpLog', g)
<1>1. /\ Len(vpLog) \in Nat /\ Len(vpLog') = Len(vpLog) + 1 /\ VpNow = Len(vpLog) + 1
      /\ \A i \in 1..Len(vpLog) : vpLog'[i] = vpLog[i]
      /\ vpLog'[VpNow] = [h |-> h, end |-> e]
  BY LogGrows
<1>2. \A c \in 1..Len(vpLog') :
        \/ c \in 1..Len(vpLog) /\ vpLog'[c] = vpLog[c]
        \/ vpLog'[c].h = h /\ vpLog'[c].end = e
  BY <1>1
<1>3. AfterResets(vpLog, g) /\ (e = "rejected" \/ ~VpResetsAll(h)) => AfterResets(vpLog', g)
  BY <1>2 DEF AfterResets
<1>4. AfterIntra(vpLog, g) /\ (e = "rejected" \/ ~VpIntra(h)) => AfterIntra(vpLog', g)
  BY <1>2 DEF AfterIntra
<1>5. QED BY <1>3, <1>4

\* The newest frame is after everything.
LEMMA NewestAfter ==
  ASSUME VpTypeOK, NEW h \in VpFrame, NEW e \in {"rejected", "running"},
         vpLog' = Append(vpLog, [h |-> h, end |-> e])
  PROVE  AfterResets(vpLog', VpNow)
<1>1. /\ Len(vpLog) \in Nat /\ Len(vpLog') = Len(vpLog) + 1 /\ VpNow = Len(vpLog) + 1
  BY LogGrows
<1>2. QED BY <1>1 DEF AfterResets, VpNow

\* The end of a frame changes neither what was sent nor what its headers cut.
LEMMA StayAfterEnd ==
  ASSUME VpTypeOK, NEW f \in 1..Len(vpLog), NEW e \in {"decoded", "failed"},
         vpLog[f].end = "running", vpLog' = [vpLog EXCEPT ![f].end = e], NEW g
  PROVE  /\ AfterResets(vpLog', g) <=> AfterResets(vpLog, g)
         /\ AfterIntra(vpLog', g) <=> AfterIntra(vpLog, g)
         /\ VpDone' = IF e = "decoded" THEN VpDone \cup {f} ELSE VpDone
<1>1. /\ Len(vpLog) \in Nat /\ Len(vpLog') = Len(vpLog)
      /\ \A i \in 1..Len(vpLog) : /\ vpLog'[i].h = vpLog[i].h
                                  /\ vpLog'[i].end = IF i = f THEN e ELSE vpLog[i].end
  BY LogEnds
<1>2. \A c \in 1..Len(vpLog) : vpLog'[c].end = "rejected" <=> vpLog[c].end = "rejected"
  BY <1>1
<1>3. \A c \in 1..Len(vpLog) : /\ VpResetsAll(vpLog'[c].h) <=> VpResetsAll(vpLog[c].h)
                               /\ VpIntra(vpLog'[c].h) <=> VpIntra(vpLog[c].h)
  BY <1>1
<1>4. AfterResets(vpLog', g) <=> AfterResets(vpLog, g)
  BY <1>1, <1>2, <1>3 DEF AfterResets
<1>5. AfterIntra(vpLog', g) <=> AfterIntra(vpLog, g)
  BY <1>1, <1>2, <1>3 DEF AfterIntra
<1>6. VpDone' = IF e = "decoded" THEN VpDone \cup {f} ELSE VpDone
  BY <1>1 DEF VpDone
<1>7. QED BY <1>4, <1>5, <1>6

\* A context that was just opened.
LEMMA VpInitInv == ASSUME VpInit PROVE VpInv
<1>1. VpTypeOK
  <2>1. vpPic \in [VpBuf -> VpPicture]
    BY DEF VpInit, VpFresh, VpPicture
  <2>2. vpLog \in Seq([h : VpFrame, end : {"rejected", "running", "decoded", "failed"}])
    BY EmptySeq DEF VpInit
  <2>3. vpPrev \in [valid : BOOLEAN, show : BOOLEAN, intra : BOOLEAN, size : Nat]
    BY DEF VpInit, VpNoPrev
  <2>4. /\ vpUp \in BOOLEAN /\ vpMem \in BOOLEAN /\ vpSpoiled \in BOOLEAN
        /\ vpCtx \in [0..3 -> SUBSET Nat] /\ vpMap \in [0..1 -> SUBSET Nat]
        /\ vpActive \in 0..1 /\ vpMv \in Nat
    BY DEF VpInit
  <2>5. vpJob \in VpRunning \cup {VpIdle, VpOops}
    BY DEF VpInit
  <2>6. QED BY <2>1, <2>2, <2>3, <2>4, <2>5 DEF VpTypeOK
<1>2. ~VpBusy /\ Len(vpLog) = 0
  BY DEF VpInit, VpBusy
<1>3. QED
  BY <1>1, <1>2 DEF VpInit, VpInv, RunInv, PrevInv, KeptInv, PicInv, VpMvsOfPrevious,
                    VpPictureDescribed, VpNoPrev, VpFresh

\* Between jobs, when nothing was sent and what is kept stays or is forgotten.
LEMMA BetweenKeeps ==
  ASSUME VpInv, ~VpBusy, ~VpBusy', UNCHANGED vpLog, VpTypeOK',
         \A i \in 0..3 : vpCtx'[i] \in {vpCtx[i], {}},
         vpMap'[vpActive'] \in {vpMap[vpActive], {}},
         UNCHANGED <<vpMv, vpPrev, vpSpoiled>> \/ ~vpPrev'.valid,
         UNCHANGED vpPic \/ vpPic' = [b \in VpBuf |-> VpFresh]
  PROVE  VpInv'
<1>0. /\ VpTypeOK /\ RunInv /\ PrevInv /\ KeptInv /\ PicInv /\ VpMvsOfPrevious
      /\ Len(vpLog) \in Nat
  BY LenProperties DEF VpInv, VpTypeOK
<1>1. VpDone' = VpDone /\ \A g : (AfterResets(vpLog', g) <=> AfterResets(vpLog, g))
                                 /\ (AfterIntra(vpLog', g) <=> AfterIntra(vpLog, g))
  BY DEF VpDone, AfterResets, AfterIntra
<1>2. RunInv' /\ VpMvsOfPrevious'
  BY DEF RunInv, VpMvsOfPrevious
<1>3. PrevInv'
  BY <1>0, <1>1 DEF PrevInv
<1>4. KeptInv'
  BY <1>0, <1>1 DEF KeptInv
<1>5. PicInv'
  <2>1. CASE UNCHANGED vpPic
    BY <1>0, <2>1 DEF PicInv, VpPictureDescribed
  <2>2. CASE vpPic' = [b \in VpBuf |-> VpFresh]
    BY <1>0, <2>2 DEF PicInv, VpPictureDescribed, VpFresh
  <2>3. QED BY <2>1, <2>2
<1>6. QED BY <1>2, <1>3, <1>4, <1>5 DEF VpInv

\* Steps between jobs.
LEMMA BetweenSteps ==
  ASSUME VpInv, VpSetup \/ VpCleanup \/ VpBuffersFreed \/ UNCHANGED vpVars
  PROVE  VpInv'
<1>0. VpTypeOK /\ RunInv
  BY DEF VpInv
<1>1. CASE VpSetup
  <2>1. ~VpBusy /\ ~VpBusy'
    BY <1>0, <1>1 DEF RunInv, VpSetup, VpBusy
  <2>2. VpTypeOK'
    <3>1. vpPrev' \in [valid : BOOLEAN, show : BOOLEAN, intra : BOOLEAN, size : Nat]
      BY <1>1 DEF VpSetup, VpNoPrev
    <3>2. vpUp' \in BOOLEAN /\ vpMem' \in BOOLEAN /\ vpSpoiled' \in BOOLEAN
      BY <1>1, Zenon DEF VpSetup
    <3>3. UNCHANGED <<vpPic, vpJob, vpLog>>
      BY <1>1 DEF VpSetup
    <3>4. /\ vpCtx' \in [0..3 -> SUBSET Nat] /\ vpMap' \in [0..1 -> SUBSET Nat]
          /\ vpActive' \in 0..1 /\ vpMv' \in Nat
      <4>1. /\ vpCtx' = [i \in 0..3 |-> {}] /\ vpMap' = [i \in 0..1 |-> {}]
            /\ vpActive' = 0 /\ vpMv' = 0
        BY <1>1, Zenon DEF VpSetup
      <4>2. QED BY <4>1
    <3>5. /\ vpPic' \in [VpBuf -> VpPicture]
          /\ vpJob' \in VpRunning \cup {VpIdle, VpOops}
          /\ vpLog' \in Seq([h : VpFrame, end : {"rejected", "running", "decoded", "failed"}])
      BY <1>0, <3>3 DEF VpTypeOK
    <3>6. QED BY <3>1, <3>2, <3>4, <3>5, Zenon DEF VpTypeOK
  <2>3. QED BY <1>1, <2>1, <2>2, BetweenKeeps DEF VpSetup, VpNoPrev
<1>2. CASE VpCleanup
  <2>1. ~VpBusy /\ ~VpBusy'
    BY <1>2 DEF VpCleanup, VpBusy
  <2>2. VpTypeOK'
    BY <1>0, <1>2 DEF VpCleanup, VpTypeOK
  <2>3. QED BY <1>2, <2>1, <2>2, BetweenKeeps DEF VpCleanup
<1>3. CASE VpBuffersFreed
  <2>1. ~VpBusy /\ ~VpBusy'
    BY <1>3 DEF VpBuffersFreed, VpBusy
  <2>2. VpTypeOK'
    BY <1>0, <1>3 DEF VpBuffersFreed, VpTypeOK, VpFresh, VpPicture
  <2>3. QED BY <1>3, <2>1, <2>2, BetweenKeeps DEF VpBuffersFreed
<1>4. CASE UNCHANGED vpVars
  BY <1>4 DEF vpVars, VpInv, VpTypeOK, RunInv, PrevInv, KeptInv, PicInv, VpMvsOfPrevious,
              VpPictureDescribed, VpBusy, VpDone, AfterResets, AfterIntra
<1>5. QED BY <1>1, <1>2, <1>3, <1>4

\* A frame that does not reach the hardware: only its target was touched, and
\* has a new timestamp.
LEMMA RejectedKeeps ==
  ASSUME VpInv, ~VpBusy, NEW b \in VpBuf, NEW h \in VpFrame, NEW pic, VpRejected(pic, h),
         pic \in [VpBuf -> VpPicture], pic[b].stamp = VpNow,
         pic[b].holds = vpPic[b].holds, \A c \in VpBuf : c # b => pic[c] = vpPic[c]
  PROVE  VpInv'
<1>0. /\ VpTypeOK /\ PrevInv /\ KeptInv /\ PicInv
      /\ vpPic' = pic /\ vpLog' = Append(vpLog, [h |-> h, end |-> "rejected"])
      /\ UNCHANGED <<vpUp, vpMem, vpCtx, vpMap, vpActive, vpMv, vpPrev, vpJob, vpSpoiled>>
  BY DEF VpInv, VpRejected
<1>1. /\ vpLog' \in Seq([h : VpFrame, end : {"rejected", "running", "decoded", "failed"}])
      /\ Len(vpLog) \in Nat /\ Len(vpLog') = Len(vpLog) + 1 /\ VpNow = Len(vpLog) + 1
      /\ \A i \in 1..Len(vpLog) : vpLog'[i] = vpLog[i]
      /\ VpDone' = VpDone
  BY <1>0, LogGrows
<1>2. ~VpBusy'
  BY <1>0 DEF VpBusy
<1>3. VpTypeOK'
  BY <1>0, <1>1 DEF VpTypeOK
<1>4. \A g : (AfterResets(vpLog, g) => AfterResets(vpLog', g)) /\ (AfterIntra(vpLog, g) => AfterIntra(vpLog', g))
  BY <1>0, StayAfter
<1>5. RunInv' /\ VpMvsOfPrevious'
  BY <1>2 DEF RunInv, VpMvsOfPrevious
<1>6. PrevInv'
  <2>1. \A f \in VpDone : vpLog'[f] = vpLog[f]
    BY <1>1 DEF VpDone
  <2>2. QED BY <1>0, <1>1, <1>2, <2>1 DEF PrevInv
<1>7. KeptInv'
  BY <1>0, <1>1, <1>2, <1>4 DEF KeptInv
<1>8. PicInv'
  <2>1. \A c \in VpBuf : vpPic[c].holds \in Nat /\ vpPic[c].holds <= Len(vpLog)
    BY <1>0 DEF PicInv, VpTypeOK, VpPicture
  <2>2. \A c \in VpBuf : vpPic'[c].holds = vpPic[c].holds
    BY <1>0
  <2>3. \A c \in VpBuf : vpPic[c].holds # 0 => vpLog'[vpPic[c].holds] = vpLog[vpPic[c].holds]
    BY <1>1, <2>1
  <2>4. VpPictureDescribed'
    <3>1. ASSUME NEW c \in VpBuf, vpPic'[c].holds # 0, vpPic'[c].stamp = vpPic'[c].holds
          PROVE  c # b /\ vpPic'[c] = vpPic[c]
      BY <1>0, <1>1, <2>1, <2>2, <3>1
    <3>2. ASSUME NEW c \in VpBuf, vpPic'[c].holds # 0, vpPic'[c].stamp = vpPic'[c].holds
          PROVE  LET p == vpPic'[c] IN /\ p.valid
                                       /\ p.size = vpLog'[p.holds].h.size
                                       /\ p.depth = vpLog'[p.holds].h.depth
                                       /\ p.depth = 10 => p.chroma = p.size /\ p.recon >= p.size
      <4>1. vpPic'[c] = vpPic[c] /\ vpLog'[vpPic[c].holds] = vpLog[vpPic[c].holds]
        BY <2>3, <3>1, <3>2
      <4>2. VpPictureDescribed
        BY <1>0 DEF PicInv
      <4>3. QED BY <3>2, <4>1, <4>2 DEF VpPictureDescribed
    <3>3. QED BY <3>2 DEF VpPictureDescribed
  <2>5. QED BY <1>1, <1>2, <2>1, <2>2, <2>4 DEF PicInv
<1>9. QED BY <1>3, <1>5, <1>6, <1>7, <1>8 DEF VpInv

\* The target of a frame: its timestamp, and its surface when it needs one.
LEMMA SurfaceOf ==
  ASSUME VpTypeOK, NEW b \in VpBuf, NEW h \in VpFrame
  PROVE  LET pic == VpSurface(VpStamped(b), b, h)
         IN  /\ pic \in [VpBuf -> VpPicture] /\ VpStamped(b) \in [VpBuf -> VpPicture]
             /\ pic[b].stamp = VpNow /\ VpStamped(b)[b].stamp = VpNow
             /\ pic[b].holds = vpPic[b].holds /\ VpStamped(b)[b].holds = vpPic[b].holds
             /\ \A c \in VpBuf : c # b => pic[c] = vpPic[c] /\ VpStamped(b)[c] = vpPic[c]
             /\ h.depth = 10 => pic[b].recon >= h.size /\ pic[b].chroma = h.size
<1> DEFINE s == VpStamped(b)
           pic == VpSurface(s, b, h)
<1>1. h \in VpHeader /\ h.size \in Nat /\ vpPic \in [VpBuf -> VpPicture] /\ VpNow \in Nat
  BY VpAssumption, LenProperties DEF VpHeader, VpTypeOK, VpNow
<1>2. /\ s = [vpPic EXCEPT ![b] = [vpPic[b] EXCEPT !.stamp = VpNow]]
  BY DEF VpStamped
<1>3. /\ s \in [VpBuf -> VpPicture] /\ s[b].stamp = VpNow /\ s[b].holds = vpPic[b].holds
      /\ \A c \in VpBuf : c # b => s[c] = vpPic[c]
  BY <1>1, <1>2 DEF VpPicture
<1> HIDE DEF s
<1>4. CASE h.depth # 10
  BY <1>3, <1>4 DEF VpSurface, s
<1>5. CASE h.depth = 10
  <2> DEFINE r == IF VpReconFits(s[b], h.size) THEN s[b].recon ELSE h.size
  <2>1. pic = [s EXCEPT ![b] = [s[b] EXCEPT !.recon = r, !.chroma = h.size]]
    BY <1>3, <1>5 DEF VpSurface, VpEnsured
  <2>2. r \in Nat /\ r >= h.size
    BY <1>1, <1>3 DEF VpReconFits, VpPicture
  <2> HIDE DEF r
  <2>3. /\ pic \in [VpBuf -> VpPicture] /\ pic[b].stamp = VpNow /\ pic[b].holds = vpPic[b].holds
        /\ pic[b].recon = r /\ pic[b].chroma = h.size
        /\ \A c \in VpBuf : c # b => pic[c] = vpPic[c]
    <3>1. /\ pic[b] = [s[b] EXCEPT !.recon = r, !.chroma = h.size]
          /\ \A c \in VpBuf : c # b => pic[c] = s[c]
          /\ DOMAIN pic = VpBuf /\ pic = [c \in VpBuf |-> pic[c]]
      BY <1>3, <2>1
    <3>2. /\ s[b] \in VpPicture /\ s[b].stamp = VpNow /\ s[b].holds = vpPic[b].holds
      BY <1>3
    <3> HIDE DEF pic
    <3>3. /\ pic[b] \in VpPicture /\ pic[b].stamp = VpNow /\ pic[b].holds = vpPic[b].holds
          /\ pic[b].recon = r /\ pic[b].chroma = h.size
      BY <1>1, <2>2, <3>1, <3>2 DEF VpPicture
    <3>4. \A c \in VpBuf : pic[c] \in VpPicture
      BY <1>1, <1>3, <3>1, <3>3
    <3>5. QED BY <1>3, <3>1, <3>3, <3>4
  <2> HIDE DEF pic
  <2>4. QED BY <1>3, <2>2, <2>3 DEF pic, s
<1>6. QED BY <1>4, <1>5

\* The ways a frame ends before it reaches the hardware.
LEMMA UnsentKeeps ==
  ASSUME VpInv, vpJob = VpIdle, NEW b \in VpBuf, NEW h \in VpFrame,
         VpJobRejected(b, h) \/ VpJobNoMemory(b, h) \/ VpJobRefused(b, h)
  PROVE  VpInv'
<1>0. VpTypeOK /\ ~VpBusy
  BY DEF VpInv, VpBusy
<1>1. CASE VpJobRejected(b, h)
  BY <1>0, <1>1, SurfaceOf, RejectedKeeps DEF VpJobRejected
<1>2. CASE VpJobRefused(b, h)
  BY <1>0, <1>2, SurfaceOf, RejectedKeeps DEF VpJobRefused
<1>3. CASE VpJobNoMemory(b, h)
  <2> DEFINE s == VpStamped(b)
             pic == [s EXCEPT ![b].recon = 0, ![b].chroma = 0]
  <2>1. /\ s \in [VpBuf -> VpPicture] /\ s[b].stamp = VpNow /\ s[b].holds = vpPic[b].holds
        /\ \A c \in VpBuf : c # b => s[c] = vpPic[c]
    BY <1>0, SurfaceOf
  <2>2. VpRejected(pic, h)
    BY <1>3 DEF VpJobNoMemory
  <2> HIDE DEF s
  <2>3. pic = [s EXCEPT ![b] = [s[b] EXCEPT !.recon = 0, !.chroma = 0]]
    BY <2>1
  <2>4. /\ pic \in [VpBuf -> VpPicture] /\ pic[b].stamp = VpNow /\ pic[b].holds = vpPic[b].holds
        /\ \A c \in VpBuf : c # b => pic[c] = vpPic[c]
    BY <2>1, <2>3 DEF VpPicture
  <2> HIDE DEF pic
  <2>5. QED BY <1>0, <2>2, <2>4, RejectedKeeps
<1>4. QED BY <1>1, <1>2, <1>3

\* A timestamp names at most one buffer.
LEMMA FoundOnce ==
  ASSUME NEW pic, NEW t, NEW b \in VpFound(pic, t), NEW c \in VpFound(pic, t)
  PROVE  b = c /\ b \in VpBuf
<1>1. b \in Nat /\ c \in Nat /\ b \in VpBuf /\ c \in VpBuf
  BY VpAssumption DEF VpFound
<1>2. b <= c /\ c <= b
  BY DEF VpFound
<1>3. QED BY <1>1, <1>2

\* The contexts a frame starts from, and the segment map it reads.
LEMMA ResetKeeps ==
  ASSUME VpTypeOK, NEW h \in VpFrame
  PROVE  /\ VpReset(h) \in [0..3 -> SUBSET Nat] /\ VpCtxIdx(h) \in 0..3
         /\ \A i \in 0..3 : VpReset(h)[i] \subseteq vpCtx[i]
         /\ VpResetsAll(h) => \A i \in 0..3 : VpReset(h)[i] = {}
         /\ VpWindow(h) \subseteq vpMap[vpActive] /\ VpWindow(h) \in SUBSET Nat
         /\ VpIntra(h) => VpWindow(h) = {}
<1>1. h \in VpHeader /\ h.ctx \in 0..3
  BY VpAssumption DEF VpHeader
<1>2. vpCtx \in [0..3 -> SUBSET Nat] /\ vpMap[vpActive] \in SUBSET Nat
  BY DEF VpTypeOK
<1>3. /\ VpReset(h) \in [0..3 -> SUBSET Nat]
      /\ \A i \in 0..3 : VpReset(h)[i] \subseteq vpCtx[i]
      /\ VpResetsAll(h) => \A i \in 0..3 : VpReset(h)[i] = {}
  <2>1. CASE VpResetsAll(h)
    BY <2>1 DEF VpReset
  <2>2. CASE ~VpResetsAll(h)
    BY <1>1, <1>2, <2>2 DEF VpReset
  <2>3. QED BY <2>1, <2>2
<1>4. VpCtxIdx(h) \in 0..3
  BY <1>1 DEF VpCtxIdx
<1>5. /\ VpWindow(h) \subseteq vpMap[vpActive] /\ VpWindow(h) \in SUBSET Nat
      /\ VpIntra(h) => VpWindow(h) = {}
  BY <1>2 DEF VpWindow
<1>6. QED BY <1>3, <1>4, <1>5

\* A frame is sent and its job starts.
LEMMA StartKeeps ==
  ASSUME VpInv, vpUp, vpJob = VpIdle, NEW b \in VpBuf, NEW h \in VpFrame, NEW refs,
         VpJobStart(b, h, refs)
  PROVE  VpInv'
<1> DEFINE pic == VpSurface(VpStamped(b), b, h)
           found == UNION {VpFound(pic, t) : t \in refs}
           idx == VpCtxIdx(h)
<1>0. VpTypeOK /\ PrevInv /\ KeptInv /\ PicInv /\ ~VpBusy
  BY DEF VpInv, VpBusy
<1>1. /\ vpCtx' = VpReset(h)
      /\ vpMap' = IF VpClearsMaps(h) THEN [i \in 0..1 |-> {}] ELSE vpMap
      /\ vpActive' = IF VpClearsMaps(h) THEN 0 ELSE vpActive
      /\ vpMv' = VpNow
      /\ vpLog' = Append(vpLog, [h |-> h, end |-> "running"])
      /\ UNCHANGED <<vpUp, vpMem, vpPrev, vpSpoiled>>
  BY DEF VpJobStart
<1>2. vpJob' = [f |-> VpNow, h |-> h, buf |-> b, idx |-> idx,
                tables |-> VpReset(h)[idx] \cup {VpNow}, window |-> VpWindow(h),
                mvs |-> IF VpUsesPrevMvs(h) THEN {vpMv} ELSE {}, refs |-> found]
  BY <1>1 DEF VpJobStart
<1>3. /\ vpPic' = [pic EXCEPT ![b].holds = 0]
      /\ VpReferencesValid(pic, h, refs)
  BY DEF VpJobStart
<1>4. /\ pic \in [VpBuf -> VpPicture] /\ pic[b].stamp = VpNow
      /\ \A c \in VpBuf : c # b => pic[c] = vpPic[c]
      /\ h.depth = 10 => pic[b].recon >= h.size /\ pic[b].chroma = h.size
  BY <1>0, SurfaceOf
<1>5. \A c \in found : c \in VpBuf /\ (h.depth = 10 => pic[c].recon # 0)
  <2> SUFFICES ASSUME NEW t \in refs, NEW c \in VpFound(pic, t)
               PROVE  c \in VpBuf /\ (h.depth = 10 => pic[c].recon # 0)
    OBVIOUS
  <2> HIDE DEF pic
  <2>1. PICK d \in VpFound(pic, t) : VpUsable(pic[d]) /\ pic[d].depth = h.depth
    BY <1>3 DEF VpReferencesValid
  <2>2. c = d /\ c \in VpBuf
    BY <2>1, FoundOnce
  <2>3. QED BY <2>1, <2>2 DEF VpUsable
<1> HIDE DEF pic, found
<1>6. /\ vpPic' \in [VpBuf -> VpPicture] /\ vpPic'[b].holds = 0
      /\ \A c \in VpBuf : c # b => vpPic'[c] = vpPic[c]
      /\ \A c \in VpBuf : vpPic'[c].recon = pic[c].recon /\ vpPic'[c].chroma = pic[c].chroma
  <2>1. vpPic' = [pic EXCEPT ![b] = [pic[b] EXCEPT !.holds = 0]]
    BY <1>3
  <2>2. pic[b] \in VpPicture
    BY <1>4
  <2>3. /\ [pic[b] EXCEPT !.holds = 0] \in VpPicture
        /\ [pic[b] EXCEPT !.holds = 0].holds = 0
        /\ [pic[b] EXCEPT !.holds = 0].recon = pic[b].recon
        /\ [pic[b] EXCEPT !.holds = 0].chroma = pic[b].chroma
    BY <2>2 DEF VpPicture
  <2>4. QED BY <1>4, <2>1, <2>3
<1>7. /\ vpLog' \in Seq([h : VpFrame, end : {"rejected", "running", "decoded", "failed"}])
      /\ Len(vpLog) \in Nat /\ Len(vpLog') = Len(vpLog) + 1 /\ VpNow = Len(vpLog) + 1
      /\ \A i \in 1..Len(vpLog) : vpLog'[i] = vpLog[i]
      /\ vpLog'[VpNow] = [h |-> h, end |-> "running"]
      /\ VpDone' = VpDone
  BY <1>0, <1>1, LogGrows
<1>8. /\ VpReset(h) \in [0..3 -> SUBSET Nat] /\ idx \in 0..3
      /\ \A i \in 0..3 : VpReset(h)[i] \subseteq vpCtx[i]
      /\ VpResetsAll(h) => \A i \in 0..3 : VpReset(h)[i] = {}
      /\ VpWindow(h) \subseteq vpMap[vpActive] /\ VpWindow(h) \in SUBSET Nat
      /\ VpIntra(h) => VpWindow(h) = {}
  BY <1>0, ResetKeeps
<1> HIDE DEF idx
<1>9. /\ vpJob'.f = VpNow /\ vpJob'.h = h /\ vpJob'.buf = b
      /\ vpJob'.tables = VpReset(h)[idx] \cup {VpNow} /\ vpJob'.window = VpWindow(h)
      /\ vpJob'.mvs = IF VpUsesPrevMvs(h) THEN {vpMv} ELSE {}
      /\ vpJob'.refs = found
  BY <1>2
<1>10. VpBusy'
  BY <1>7, <1>9 DEF VpBusy, VpIdle, VpOops
<1>11. VpTypeOK'
  <2>1. vpJob' \in VpRunning
    <3>1. VpReset(h)[idx] \cup {VpNow} \in SUBSET Nat /\ VpNow \in Nat \ {0}
      BY <1>7, <1>8
    <3>2. (IF VpUsesPrevMvs(h) THEN {vpMv} ELSE {}) \in SUBSET Nat
      BY <1>0 DEF VpTypeOK
    <3>3. found \in SUBSET VpBuf
      BY <1>5
    <3>4. QED BY <1>2, <1>8, <3>1, <3>2, <3>3 DEF VpRunning
  <2>2. vpMap' \in [0..1 -> SUBSET Nat] /\ vpActive' \in 0..1
    BY <1>0, <1>1 DEF VpTypeOK
  <2>3. vpCtx' \in [0..3 -> SUBSET Nat] /\ vpMv' \in Nat
    BY <1>1, <1>7, <1>8
  <2>4. QED BY <1>0, <1>1, <1>6, <1>7, <2>1, <2>2, <2>3 DEF VpTypeOK
<1>12. RunInv'
  BY <1>1, <1>7, <1>9 DEF RunInv
<1>13. PrevInv'
  BY <1>10 DEF PrevInv
<1>14. VpMvsOfPrevious'
  <2> SUFFICES ASSUME vpJob'.mvs # {}, ~vpSpoiled
               PROVE  \E f \in VpDone' :
                        /\ vpJob'.mvs = {f} /\ \A g \in VpDone' : g <= f
                        /\ vpLog'[f].h.show /\ ~VpIntra(vpLog'[f].h)
                        /\ vpLog'[f].h.size = vpJob'.h.size
    BY <1>1 DEF VpMvsOfPrevious
  <2>1. VpUsesPrevMvs(h) /\ vpJob'.mvs = {vpMv}
    BY <1>9
  <2>2. /\ vpMv \in VpDone /\ \A g \in VpDone : g <= vpMv
        /\ vpLog[vpMv].h.show /\ ~VpIntra(vpLog[vpMv].h) /\ vpLog[vpMv].h.size = h.size
    BY <1>0, <2>1 DEF VpUsesPrevMvs, PrevInv
  <2>3. vpLog'[vpMv] = vpLog[vpMv]
    BY <1>7, <2>2 DEF VpDone
  <2>4. QED BY <1>7, <1>9, <2>1, <2>2, <2>3
<1>15. KeptInv'
  <2>1. \A g : /\ AfterResets(vpLog, g) /\ ~VpResetsAll(h) => AfterResets(vpLog', g)
               /\ AfterIntra(vpLog, g) /\ ~VpIntra(h) => AfterIntra(vpLog', g)
    BY <1>0, <1>1, StayAfter
  <2>2. AfterResets(vpLog', VpNow)
    BY <1>0, <1>1, NewestAfter
  <2>3. \A i \in 0..3 : \A g \in VpReset(h)[i] : g \in VpDone' /\ AfterResets(vpLog', g)
    BY <1>0, <1>7, <1>8, <2>1 DEF KeptInv
  <2>4. \A g \in VpWindow(h) : g \in VpDone' /\ AfterIntra(vpLog', g)
    BY <1>0, <1>7, <1>8, <2>1 DEF KeptInv
  <2>5. \A g \in vpMap'[vpActive'] : g \in VpDone' /\ AfterIntra(vpLog', g)
    <3>1. CASE VpClearsMaps(h)
      BY <1>1, <3>1
    <3>2. CASE ~VpClearsMaps(h)
      BY <1>0, <1>1, <1>7, <2>1, <3>2 DEF KeptInv, VpClearsMaps
    <3>3. QED BY <3>1, <3>2
  <2>6. AfterResets(vpLog', vpJob'.f)
    BY <1>9, <2>2
  <2>7. \A g \in vpJob'.tables : g \in VpDone' \cup {vpJob'.f} /\ AfterResets(vpLog', g)
    BY <1>8, <1>9, <2>3, <2>6
  <2>8. QED BY <1>1, <1>9, <2>3, <2>4, <2>5, <2>7 DEF KeptInv
<1>16. PicInv'
  <2>1. \A c \in VpBuf : vpPic[c].holds \in Nat /\ vpPic[c].holds <= Len(vpLog)
    BY <1>0 DEF PicInv, VpTypeOK, VpPicture
  <2>2. \A c \in VpBuf : vpPic'[c].holds <= Len(vpLog')
    BY <1>6, <1>7, <2>1
  <2>3. ASSUME NEW c \in VpBuf, vpPic'[c].holds # 0, vpPic'[c].stamp = vpPic'[c].holds
        PROVE  LET p == vpPic'[c] IN /\ p.valid
                                     /\ p.size = vpLog'[p.holds].h.size
                                     /\ p.depth = vpLog'[p.holds].h.depth
                                     /\ p.depth = 10 => p.chroma = p.size /\ p.recon >= p.size
    <3>1. vpPic'[c] = vpPic[c]
      BY <1>6, <2>3
    <3>2. vpLog'[vpPic[c].holds] = vpLog[vpPic[c].holds]
      BY <1>7, <2>1, <2>3, <3>1
    <3>3. VpPictureDescribed
      BY <1>0 DEF PicInv
    <3>4. QED BY <2>3, <3>1, <3>2, <3>3 DEF VpPictureDescribed
  <2>4. VpPictureDescribed'
    BY <2>3 DEF VpPictureDescribed
  <2>5. h.depth = 10 => /\ vpPic'[b].recon >= h.size /\ vpPic'[b].chroma = h.size
                        /\ \A c \in found : vpPic'[c].recon # 0
    BY <1>4, <1>5, <1>6
  <2>6. QED BY <1>9, <2>2, <2>4, <2>5 DEF PicInv
<1>17. QED BY <1>11, <1>12, <1>13, <1>14, <1>15, <1>16 DEF VpInv

\* A job that oopses without memory: nothing of the context is written.
LEMMA OopsKeeps ==
  ASSUME VpInv, vpJob = VpIdle, vpJob' = VpOops,
         UNCHANGED <<vpUp, vpMem, vpMv, vpPic, vpLog, vpSpoiled, VpKept>>
  PROVE  VpInv'
<1>1. ~VpBusy /\ ~VpBusy'
  BY DEF VpBusy
<1>2. VpTypeOK'
  BY DEF VpInv, VpTypeOK, VpKept
<1>3. QED BY <1>1, <1>2, BetweenKeeps DEF VpKept

\* The running job and its entry in the log.
LEMMA Running ==
  ASSUME VpInv, VpBusy
  PROVE  /\ vpJob \in VpRunning /\ vpJob.f = Len(vpLog) /\ Len(vpLog) \in Nat \ {0}
         /\ vpJob.f \in 1..Len(vpLog) /\ vpMv = vpJob.f
         /\ vpLog[vpJob.f].h = vpJob.h /\ vpLog[vpJob.f].end = "running"
<1>1. vpJob \in VpRunning /\ Len(vpLog) \in Nat
  BY LenProperties DEF VpInv, VpTypeOK, VpBusy
<1>2. vpJob.f \in Nat \ {0}
  BY <1>1 DEF VpRunning
<1>3. QED BY <1>1, <1>2 DEF VpInv, RunInv

\* What is recorded of the pictures stays true when a frame ends.
LEMMA DescribedAfterEnd ==
  ASSUME VpInv, VpBusy, NEW c \in VpBuf,
         \A i \in 1..Len(vpLog) : vpLog'[i].h = vpLog[i].h, vpPic'[c] = vpPic[c],
         vpPic'[c].holds # 0, vpPic'[c].stamp = vpPic'[c].holds
  PROVE  LET p == vpPic'[c] IN /\ p.valid
                               /\ p.size = vpLog'[p.holds].h.size
                               /\ p.depth = vpLog'[p.holds].h.depth
                               /\ p.depth = 10 => p.chroma = p.size /\ p.recon >= p.size
<1>1. vpPic[c].holds \in Nat /\ vpPic[c].holds <= Len(vpLog) /\ Len(vpLog) \in Nat
  BY LenProperties DEF VpInv, PicInv, VpTypeOK, VpPicture
<1>2. vpLog'[vpPic[c].holds].h = vpLog[vpPic[c].holds].h
  BY <1>1
<1>3. VpPictureDescribed
  BY DEF VpInv, PicInv
<1>4. QED BY <1>2, <1>3 DEF VpPictureDescribed

\* The job fails, or times out.
LEMMA FailedKeeps == ASSUME VpInv, VpJobFailed PROVE VpInv'
<1>0. /\ VpTypeOK /\ KeptInv /\ PicInv /\ VpBusy
      /\ vpJob' = VpIdle /\ vpLog' = [vpLog EXCEPT ![vpJob.f].end = "failed"]
      /\ vpSpoiled' = TRUE
      /\ UNCHANGED <<vpUp, vpMem, vpMv, vpPic, vpCtx, vpMap, vpActive, vpPrev>>
  BY DEF VpInv, VpJobFailed, VpKept
<1>1. vpJob.f \in 1..Len(vpLog) /\ vpLog[vpJob.f].end = "running"
  BY <1>0, Running
<1>2. /\ vpLog' \in Seq([h : VpFrame, end : {"rejected", "running", "decoded", "failed"}])
      /\ Len(vpLog') = Len(vpLog)
      /\ \A i \in 1..Len(vpLog) : vpLog'[i].h = vpLog[i].h
  BY <1>0, <1>1, LogEnds
<1>3. /\ VpDone' = VpDone
      /\ \A g : /\ AfterResets(vpLog', g) <=> AfterResets(vpLog, g)
                /\ AfterIntra(vpLog', g) <=> AfterIntra(vpLog, g)
  BY <1>0, <1>1, StayAfterEnd
<1>4. ~VpBusy'
  BY <1>0 DEF VpBusy
<1>5. VpTypeOK'
  <2>1. vpJob' \in VpRunning \cup {VpIdle, VpOops} /\ vpSpoiled' \in BOOLEAN
    BY <1>0
  <2>2. QED BY <1>0, <1>2, <2>1 DEF VpTypeOK
<1>6. RunInv' /\ PrevInv' /\ VpMvsOfPrevious'
  BY <1>0, <1>4 DEF RunInv, PrevInv, VpMvsOfPrevious
<1>7. KeptInv'
  BY <1>0, <1>3, <1>4 DEF KeptInv
<1>8. VpPictureDescribed'
  BY <1>0, <1>2, DescribedAfterEnd DEF VpPictureDescribed
<1>9. PicInv'
  BY <1>0, <1>2, <1>4, <1>8 DEF PicInv
<1>10. QED BY <1>5, <1>6, <1>7, <1>9 DEF VpInv

\* The job is done: motion vectors, map and contexts are those of the frame.
LEMMA DoneKeeps == ASSUME VpInv, VpJobDone PROVE VpInv'
<1> DEFINE j == vpJob
<1>0. /\ VpTypeOK /\ KeptInv /\ PicInv /\ VpBusy
      /\ vpMap' = IF VpFlipsMap(j) THEN [vpMap EXCEPT ![1 - vpActive] = VpMapOut(j)] ELSE vpMap
      /\ vpActive' = IF VpFlipsMap(j) THEN 1 - vpActive ELSE vpActive
      /\ vpCtx' = IF j.h.save # "none" THEN [vpCtx EXCEPT ![j.idx] = VpSavedContext(j)] ELSE vpCtx
      /\ vpPrev' = [valid |-> TRUE, show |-> j.h.show, intra |-> VpIntra(j.h), size |-> j.h.size]
      /\ vpLog' = [vpLog EXCEPT ![j.f].end = "decoded"]
      /\ vpJob' = VpIdle /\ vpSpoiled' = FALSE
      /\ UNCHANGED <<vpUp, vpMem, vpMv>>
  BY DEF VpInv, VpJobDone
<1>1. vpPic' = [vpPic EXCEPT ![j.buf] =
                  [vpPic[j.buf] EXCEPT !.valid = TRUE, !.size = j.h.size, !.depth = j.h.depth,
                                       !.holds = j.f]]
  BY DEF VpJobDone
<1>2. /\ j \in VpRunning /\ j.f = Len(vpLog) /\ Len(vpLog) \in Nat \ {0}
      /\ j.f \in 1..Len(vpLog) /\ vpMv = j.f
      /\ vpLog[j.f].h = j.h /\ vpLog[j.f].end = "running"
  BY <1>0, Running
<1>3. /\ j.f \in Nat \ {0} /\ j.buf \in VpBuf /\ j.idx \in 0..3 /\ j.tables \in SUBSET Nat
      /\ j.window \in SUBSET Nat /\ j.h \in VpHeader
  BY <1>2, VpAssumption DEF VpRunning
<1>4. j.h.size \in Nat /\ j.h.depth \in {8, 10} /\ j.h.show \in BOOLEAN
  BY <1>3 DEF VpHeader
<1>5. /\ vpLog' \in Seq([h : VpFrame, end : {"rejected", "running", "decoded", "failed"}])
      /\ Len(vpLog') = Len(vpLog)
      /\ \A i \in 1..Len(vpLog) : vpLog'[i].h = vpLog[i].h
  BY <1>0, <1>2, LogEnds
<1>6. /\ VpDone' = VpDone \cup {j.f}
      /\ \A g : /\ AfterResets(vpLog', g) <=> AfterResets(vpLog, g)
                /\ AfterIntra(vpLog', g) <=> AfterIntra(vpLog, g)
  BY <1>0, <1>2, StayAfterEnd
<1>7. ~VpBusy'
  BY <1>0 DEF VpBusy
<1>8. /\ vpPic'[j.buf].valid = TRUE /\ vpPic'[j.buf].size = j.h.size
      /\ vpPic'[j.buf].depth = j.h.depth /\ vpPic'[j.buf].holds = j.f
      /\ vpPic'[j.buf].recon = vpPic[j.buf].recon /\ vpPic'[j.buf].chroma = vpPic[j.buf].chroma
      /\ vpPic' \in [VpBuf -> VpPicture]
      /\ \A c \in VpBuf : c # j.buf => vpPic'[c] = vpPic[c]
  <2> DEFINE p == [vpPic[j.buf] EXCEPT !.valid = TRUE, !.size = j.h.size, !.depth = j.h.depth,
                                       !.holds = j.f]
  <2>1. vpPic[j.buf] \in VpPicture /\ vpPic \in [VpBuf -> VpPicture]
    BY <1>0, <1>3 DEF VpTypeOK
  <2>2. /\ p \in VpPicture /\ p.valid = TRUE /\ p.size = j.h.size /\ p.depth = j.h.depth
        /\ p.holds = j.f /\ p.recon = vpPic[j.buf].recon /\ p.chroma = vpPic[j.buf].chroma
    BY <1>3, <1>4, <2>1 DEF VpPicture
  <2>3. vpPic' = [vpPic EXCEPT ![j.buf] = p]
    BY <1>1
  <2> HIDE DEF p
  <2>4. QED BY <1>3, <2>1, <2>2, <2>3
<1>9. VpSavedContext(j) \in SUBSET Nat /\ VpMapOut(j) \in SUBSET Nat
  BY <1>0, <1>3 DEF VpSavedContext, VpMapOut, VpTypeOK
<1>10. \A g \in VpSavedContext(j) : g \in VpDone' /\ AfterResets(vpLog', g)
  <2>1. AfterResets(vpLog, j.f)
    BY <1>2 DEF AfterResets
  <2>2. QED BY <1>0, <1>3, <1>6, <2>1 DEF VpSavedContext, KeptInv
<1>11. \A g \in VpMapOut(j) : g \in VpDone' /\ AfterIntra(vpLog', g)
  <2>1. AfterIntra(vpLog, j.f)
    BY <1>2 DEF AfterIntra
  <2>2. QED BY <1>0, <1>6, <2>1 DEF VpMapOut, KeptInv
<1>12. VpTypeOK'
  <2>1. vpCtx' \in [0..3 -> SUBSET Nat]
    BY <1>0, <1>3, <1>9 DEF VpTypeOK
  <2>2. vpMap' \in [0..1 -> SUBSET Nat] /\ vpActive' \in 0..1
    BY <1>0, <1>9 DEF VpTypeOK
  <2>3. vpPrev' \in [valid : BOOLEAN, show : BOOLEAN, intra : BOOLEAN, size : Nat]
    <3>1. VpIntra(j.h) \in BOOLEAN
      BY DEF VpIntra
    <3>2. QED BY <1>0, <1>4, <3>1
  <2>4. vpJob' \in VpRunning \cup {VpIdle, VpOops} /\ vpSpoiled' \in BOOLEAN
    BY <1>0
  <2>5. QED BY <1>0, <1>5, <1>8, <2>1, <2>2, <2>3, <2>4 DEF VpTypeOK
<1>13. RunInv' /\ VpMvsOfPrevious'
  BY <1>7 DEF RunInv, VpMvsOfPrevious
<1>14. PrevInv'
  <2>1. vpMv' = j.f /\ vpMv' \in VpDone'
    BY <1>0, <1>2, <1>6
  <2>2. \A g \in VpDone' : g <= vpMv'
    BY <1>2, <1>6, <2>1 DEF VpDone
  <2>3. vpLog'[vpMv'].h = j.h
    BY <1>2, <1>5, <2>1
  <2>4. /\ vpPrev'.show = j.h.show /\ vpPrev'.intra = VpIntra(j.h) /\ vpPrev'.size = j.h.size
    BY <1>0
  <2>5. QED BY <2>1, <2>2, <2>3, <2>4 DEF PrevInv
<1>15. KeptInv'
  <2>1. \A i \in 0..3 : \A g \in vpCtx'[i] : g \in VpDone' /\ AfterResets(vpLog', g)
    <3>1. \A i \in 0..3 : vpCtx'[i] \in {vpCtx[i], VpSavedContext(j)}
      BY <1>0, <1>3 DEF VpTypeOK
    <3>2. \A i \in 0..3 : \A g \in vpCtx[i] : g \in VpDone' /\ AfterResets(vpLog', g)
      BY <1>0, <1>6 DEF KeptInv
    <3>3. QED BY <1>10, <3>1, <3>2
  <2>2. \A g \in vpMap'[vpActive'] : g \in VpDone' /\ AfterIntra(vpLog', g)
    <3>1. vpMap'[vpActive'] \in {vpMap[vpActive], VpMapOut(j)}
      BY <1>0 DEF VpTypeOK
    <3>2. \A g \in vpMap[vpActive] : g \in VpDone' /\ AfterIntra(vpLog', g)
      BY <1>0, <1>6 DEF KeptInv
    <3>3. QED BY <1>11, <3>1, <3>2
  <2>3. QED BY <1>7, <2>1, <2>2 DEF KeptInv
<1>16. PicInv'
  <2>1. VpPictureDescribed'
    <3>1. ASSUME NEW c \in VpBuf, vpPic'[c].holds # 0, vpPic'[c].stamp = vpPic'[c].holds
          PROVE  LET p == vpPic'[c] IN /\ p.valid
                                       /\ p.size = vpLog'[p.holds].h.size
                                       /\ p.depth = vpLog'[p.holds].h.depth
                                       /\ p.depth = 10 => p.chroma = p.size /\ p.recon >= p.size
      <4>1. CASE c # j.buf
        BY <1>0, <1>5, <1>8, <3>1, <4>1, DescribedAfterEnd
      <4>2. CASE c = j.buf
        <5>1. vpLog'[vpPic'[c].holds].h = j.h
          BY <1>2, <1>5, <1>8, <4>2
        <5>2. j.h.depth = 10 => vpPic[c].recon >= j.h.size /\ vpPic[c].chroma = j.h.size
          BY <1>0, <4>2 DEF PicInv
        <5>3. QED BY <1>8, <4>2, <5>1, <5>2
      <4>3. QED BY <4>1, <4>2
    <3>2. QED BY <3>1 DEF VpPictureDescribed
  <2>2. \A c \in VpBuf : vpPic'[c].holds <= Len(vpLog')
    BY <1>0, <1>2, <1>5, <1>8 DEF PicInv
  <2>3. QED BY <1>7, <2>1, <2>2 DEF PicInv
<1>17. QED BY <1>12, <1>13, <1>14, <1>15, <1>16 DEF VpInv

\* Every step of the decoder keeps the invariant.
LEMMA VpNextInv == ASSUME VpInv, [VpNext]_vpVars PROVE VpInv'
<1>1. CASE VpJobRun
  <2>1. vpUp /\ vpJob = VpIdle
    BY <1>1 DEF VpJobRun
  <2>2. PICK b \in VpBuf, h \in VpFrame :
          \/ VpJobRejected(b, h) \/ VpJobNoMemory(b, h) \/ VpJobRefused(b, h)
          \/ \E refs \in VpRefSets(h) : VpJobStart(b, h, refs) \/ VpJobOops(b, h, refs)
    BY <1>1 DEF VpJobRun
  <2>3. ASSUME NEW refs, VpJobOops(b, h, refs) PROVE VpInv'
    BY <2>1, <2>3, OopsKeeps DEF VpJobOops
  <2>4. QED BY <2>1, <2>2, <2>3, UnsentKeeps, StartKeeps
<1>2. QED BY <1>1, BetweenSteps, DoneKeeps, FailedKeeps DEF VpNext

\* The invariant of the decoder, for streams of any length.
THEOREM Vp9Inductive == VpSpec => []VpInv
<1>1. VpInit => VpInv
  BY VpInitInv
<1>2. VpInv /\ [VpNext]_vpVars => VpInv'
  BY VpNextInv
<1>3. QED BY <1>1, <1>2, PTL DEF VpSpec

\* Previous motion vectors are used only when they are those of the last decoded
\* frame, unless a job failed on the hardware since.
THEOREM MvsOfPrevious == VpSpec => []VpMvsOfPrevious
<1>1. VpInv => VpMvsOfPrevious
  BY DEF VpInv
<1>2. QED BY <1>1, Vp9Inductive, PTL

\* Surfaces the hardware works on exist, and a picture is recorded as what it is.
THEOREM PicturesSound == VpSpec => []VpPicturesSound
<1>1. VpInv => VpPicturesSound
  BY DEF VpInv, PicInv, VpPicturesSound, VpSurfacesAlive
<1>2. QED BY <1>1, Vp9Inductive, PTL

\* Nothing of a frame that failed, and nothing from before a fresh start, reaches
\* the tables and the segment map of a later frame.
THEOREM HistoryCut == VpSpec => []VpHistoryCut
<1>1. VpInv => VpHistoryCut
  <2> SUFFICES ASSUME VpInv PROVE VpHistoryCut
    OBVIOUS
  <2>1. VpNothingOfFailed
    BY DEF VpInv, KeptInv, VpNothingOfFailed
  <2>2. VpProbabilitiesCut
    <3>1. VpBusy => /\ vpJob.f = Len(vpLog) /\ Len(vpLog) \in Nat
                    /\ \A g \in vpJob.tables : AfterResets(vpLog, g)
      BY Running DEF VpInv, KeptInv
    <3>2. QED BY <3>1 DEF VpProbabilitiesCut, VpCuts, AfterResets
  <2>3. VpSegmentMapCut
    <3>1. VpBusy => /\ vpJob.f = Len(vpLog) /\ Len(vpLog) \in Nat
                    /\ \A g \in vpJob.window : AfterIntra(vpLog, g)
      BY Running DEF VpInv, KeptInv
    <3>2. QED BY <3>1 DEF VpSegmentMapCut, AfterIntra
  <2>4. QED BY <2>1, <2>2, <2>3 DEF VpHistoryCut
<1>2. QED BY <1>1, Vp9Inductive, PTL

\* The segment map is replaced only by a frame that decoded and updated it, or
\* cleared by one that starts afresh.
LEMMA MapStep ==
  ASSUME VpInv, [VpNext]_vpVars, vpUp, vpMap'[vpActive'] # vpMap[vpActive]
  PROVE  VpMapUpdated \/ VpMapCleared
<1>1. ASSUME NEW b \in VpBuf, NEW h \in VpFrame, NEW refs, VpJobStart(b, h, refs)
      PROVE  VpMapCleared
  <2>1. VpClearsMaps(h) /\ vpMap' = [i \in 0..1 |-> {}] /\ vpActive' = 0
    BY <1>1 DEF VpJobStart
  <2>2. vpJob'.f = VpNow /\ vpJob'.h = h /\ VpNow \in Nat \ {0}
    BY <1>1, LenProperties DEF VpJobStart, VpInv, VpTypeOK, VpNow
  <2>3. h.kind # "inter"
    BY <2>1 DEF VpClearsMaps, VpIntra
  <2>4. QED BY <2>1, <2>2, <2>3 DEF VpMapCleared, VpIdle, VpOops
<1>2. CASE VpJobDone
  <2>1. vpJob.h.seg \in {"update", "temporal"}
    BY <1>2 DEF VpJobDone, VpFlipsMap
  <2>2. VpBusy /\ vpJob' = VpIdle /\ vpLog' = [vpLog EXCEPT ![vpJob.f].end = "decoded"]
    BY <1>2 DEF VpJobDone
  <2>3. vpJob.f \in 1..Len(vpLog) /\ VpTypeOK
    BY <2>2, Running DEF VpInv
  <2>4. vpLog'[vpJob.f].end = "decoded"
    BY <2>2, <2>3, LogEnds
  <2>5. QED BY <2>1, <2>2, <2>4 DEF VpMapUpdated
<1>3. ~ (VpSetup \/ VpCleanup \/ VpBuffersFreed \/ VpJobFailed \/ UNCHANGED vpVars)
  BY DEF VpSetup, VpCleanup, VpBuffersFreed, VpJobFailed, VpKept, vpVars
<1>4. \A b \in VpBuf, h \in VpFrame :
        /\ ~ (VpJobRejected(b, h) \/ VpJobNoMemory(b, h) \/ VpJobRefused(b, h))
        /\ \A refs : ~VpJobOops(b, h, refs)
  BY DEF VpJobRejected, VpJobNoMemory, VpJobRefused, VpRejected, VpJobOops, VpKept
<1>5. QED BY <1>1, <1>2, <1>3, <1>4 DEF VpNext, VpJobRun

\* The segment map of the next frame changes only when a frame is decoded that updates
\* it, or when one starts that clears it.
THEOREM MapReplaced == VpSpec => VpMapReplaced
<1> SUFFICES VpSpec => [][vpUp /\ vpMap'[vpActive'] # vpMap[vpActive]
                            => VpMapUpdated \/ VpMapCleared]_vpVars
  BY DEF VpMapReplaced
<1>1. VpInv /\ [VpNext]_vpVars => [vpUp /\ vpMap'[vpActive'] # vpMap[vpActive]
                                     => VpMapUpdated \/ VpMapCleared]_vpVars
  BY MapStep
<1>2. QED BY <1>1, Vp9Inductive, PTL DEF VpSpec
-----------------------------------------------------------------------------
(* H.264.                                                                  *)

\* What the decoder keeps of pictures.
H4Stamps == 0..H4MaxFrames
H4Slices == 0..2
H4Pics   == [stamp : Nat, position : H4Positions, type : H4PicType, mv : Nat]
H4Shown  == [buf : H4Buf \cup {0}, type : H4PicType, mv : Nat]

\* Timestamps tell pictures apart, and the pictures of dpb have positions of their own.
H4Unique(pic) ==
  \A b, c \in H4Buf : pic[b].stamp = pic[c].stamp /\ pic[b].stamp # 0 => b = c
H4Apart(pic, dpb) ==
  \A b, c \in H4Buf :
    pic[b].stamp \in dpb /\ pic[c].stamp \in dpb /\ pic[b].position = pic[c].position => b = c

\* vb2_find_buffer finds one buffer, with the timestamp.
LEMMA H4FoundOnce ==
  ASSUME NEW pic, NEW t, NEW b \in H4Found(pic, t)
  PROVE  b \in H4Buf /\ pic[b].stamp = t /\ \A c \in H4Found(pic, t) : c = b
<1>1. H4Buf \subseteq Nat
  BY H4Assumption DEF H4Assumption
<1> QED BY <1>1 DEF H4Found

\* With unique timestamps it finds that buffer.
LEMMA H4FoundIs ==
  ASSUME NEW pic, H4Unique(pic), NEW b \in H4Buf, pic[b].stamp # 0
  PROVE  H4Found(pic, pic[b].stamp) = {b}
<1>1. H4Buf \subseteq Nat
  BY H4Assumption DEF H4Assumption
<1>2. \A c \in H4Buf : pic[c].stamp = pic[b].stamp => c = b
  BY DEF H4Unique
<1>3. b <= b
  BY <1>1
<1> QED BY <1>2, <1>3 DEF H4Found

\* The first free position is free, if there is one.
LEMMA H4Least ==
  ASSUME NEW S \in SUBSET H4Positions, S # {}
  PROVE  \E p \in S : \A q \in S : p <= q
<1> SUFFICES ASSUME \A p \in S : \E q \in S : q < p PROVE FALSE
  BY DEF H4Positions, CEDRUS_DEC_H264_FRAME_NUM
<1>1. \A p \in S : p \in 0..17 /\ \E q \in S : q < p
  BY DEF H4Positions, CEDRUS_DEC_H264_FRAME_NUM
<1>2. 0 \notin S /\ 1 \notin S /\ 2 \notin S /\ 3 \notin S
  BY <1>1
<1>3. 4 \notin S /\ 5 \notin S /\ 6 \notin S /\ 7 \notin S
  BY <1>1, <1>2
<1>4. 8 \notin S /\ 9 \notin S /\ 10 \notin S /\ 11 \notin S
  BY <1>1, <1>2, <1>3
<1>5. 12 \notin S /\ 13 \notin S /\ 14 \notin S /\ 15 \notin S
  BY <1>1, <1>2, <1>3, <1>4
<1>6. 16 \notin S /\ 17 \notin S
  BY <1>1, <1>2, <1>3, <1>4, <1>5
<1> QED BY <1>1, <1>2, <1>3, <1>4, <1>5, <1>6

\* The SRAM has 18 positions.
LEMMA H4PositionCount == IsFiniteSet(H4Positions) /\ Cardinality(H4Positions) = 18
<1>1. H4Positions = 0..17
  BY DEF H4Positions, CEDRUS_DEC_H264_FRAME_NUM
<1>2. IsFiniteSet(0..17) /\ Cardinality(0..17) = 17 - 0 + 1
  <2>1. 0 \in Int /\ 17 \in Int /\ ~(0 > 17)
    OBVIOUS
  <2> QED BY <2>1, FS_Interval
<1> QED BY <1>1, <1>2

\* With at most 16 pictures there is a position for one more.
LEMMA H4FreeExists ==
  ASSUME NEW pic, NEW dpb, IsFiniteSet(dpb), Cardinality(dpb) <= 16
  PROVE  H4FirstFree(H4Used(pic, dpb)) \in H4Positions \ H4Used(pic, dpb)
<1> DEFINE used == H4Used(pic, dpb)
<1>1. ~(H4Positions \subseteq used)
  <2> SUFFICES ASSUME H4Positions \subseteq used PROVE FALSE
    OBVIOUS
  <2>1. \A p \in H4Positions : \E t \in dpb : \E b \in H4Found(pic, t) : p = pic[b].position
    BY DEF H4Used
  <2> DEFINE f == [p \in H4Positions |-> CHOOSE t \in dpb : \E b \in H4Found(pic, t) : p = pic[b].position]
  <2>2. \A p \in H4Positions : f[p] \in dpb /\ \E b \in H4Found(pic, f[p]) : p = pic[b].position
    BY <2>1
  <2>3. f \in [H4Positions -> dpb]
    BY <2>2
  <2>4. Cardinality(dpb) \in Nat
    BY FS_CardinalityType
  <2>5. Cardinality(dpb) < Cardinality(H4Positions)
    BY <2>4, H4PositionCount
  <2> HIDE DEF f
  <2>6. PICK p \in H4Positions, q \in H4Positions : p # q /\ f[p] = f[q]
    BY <2>3, <2>5, H4PositionCount, FS_PigeonHole
  <2>7. PICK b \in H4Found(pic, f[p]) : p = pic[b].position
    BY <2>2
  <2>8. PICK c \in H4Found(pic, f[q]) : q = pic[c].position
    BY <2>2
  <2>9. b = c
    BY <2>6, <2>7, <2>8, H4FoundOnce
  <2> QED BY <2>6, <2>7, <2>8, <2>9
<1> HIDE DEF used
<1>2. PICK p \in H4Positions \ used : \A q \in H4Positions \ used : p <= q
  <2>1. H4Positions \ used # {} /\ H4Positions \ used \in SUBSET H4Positions
    BY <1>1
  <2> QED BY <2>1, H4Least
<1> QED BY <1>1, <1>2 DEF H4FirstFree, used

\* Positions in use depend on the pictures of the DPB alone.
LEMMA H4UsedSame ==
  ASSUME NEW pic, NEW other, NEW dpb,
         \A b \in H4Buf : other[b].stamp = pic[b].stamp,
         \A b \in H4Buf : pic[b].stamp \in dpb => other[b].position = pic[b].position
  PROVE  H4Used(other, dpb) = H4Used(pic, dpb)
<1>1. \A t : H4Found(other, t) = H4Found(pic, t)
  BY DEF H4Found
<1>2. \A t \in dpb : \A b \in H4Found(pic, t) : other[b].position = pic[b].position
  BY DEF H4Found
<1>3. \A t \in dpb : {other[b].position : b \in H4Found(other, t)} = {pic[b].position : b \in H4Found(pic, t)}
  BY <1>1, <1>2
<1> QED BY <1>3 DEF H4Used

\* The list of the job: the target at its position, a listed picture at its own.
H4ListSound(pic, b, t, dpb, active) ==
  /\ H4List(pic, b, t, active) \in [H4Positions -> H4Shown]
  /\ H4List(pic, b, t, active)[pic[b].position] = H4Entry(pic, b)
  /\ \A u \in dpb : H4RefIndex(pic, active, u) \in H4Positions
  /\ \A u \in active : \A c \in H4Found(pic, u) :
       H4List(pic, b, t, active)[H4RefIndex(pic, active, u)] = H4Entry(pic, c)

\* Every listed picture that is found is at its position in the list, and no other.
LEMMA H4Listed ==
  ASSUME NEW pic \in [H4Buf -> H4Pics], NEW b \in H4Buf, NEW t, pic[b].stamp = t, t # 0,
         NEW dpb, 0 \notin dpb, NEW active \in SUBSET dpb, H4Unique(pic), H4Apart(pic, dpb \cup {t})
  PROVE  H4ListSound(pic, b, t, dpb, active)
<1> DEFINE list == H4List(pic, b, t, active)
           here(p) == UNION {{c \in H4Found(pic, u) : pic[c].position = p} : u \in active \ {t}}
<1>0. \A c \in H4Buf : H4Entry(pic, c) \in H4Shown /\ pic[c].position \in H4Positions
  BY DEF H4Entry, H4Shown, H4Pics
<1>00. H4Empty \in H4Shown
  BY DEF H4Empty, H4Shown, H4PicType
<1>1. \A p \in H4Positions :
        list[p] = IF p = pic[b].position THEN H4Entry(pic, b)
                  ELSE IF here(p) # {} THEN H4Entry(pic, CHOOSE c \in here(p) : \A d \in here(p) : d <= c)
                  ELSE H4Empty
  BY DEF H4List
<1>2. \A p : \A c \in here(p) : c \in H4Buf /\ c \in Nat /\ pic[c].position = p /\ pic[c].stamp \in active
  <2>1. H4Buf \subseteq Nat
    BY H4Assumption DEF H4Assumption
  <2> QED BY <2>1 DEF H4Found
<1>3. \A p : \A c, d \in here(p) : c = d
  BY <1>2 DEF H4Apart
<1>4. \A p : \A c \in here(p) : (CHOOSE d \in here(p) : \A e \in here(p) : e <= d) = c
  <2> SUFFICES ASSUME NEW p, NEW c \in here(p)
               PROVE  (CHOOSE d \in here(p) : \A e \in here(p) : e <= d) = c
    OBVIOUS
  <2> DEFINE S == here(p)
  <2>1. \A d \in S : d = c
    BY <1>3
  <2>2. c <= c
    BY <1>2
  <2> HIDE DEF S
  <2>3. (CHOOSE d \in S : \A e \in S : e <= d) = c
    <3>1. c \in S
      BY DEF S
    <3> QED BY <2>1, <2>2, <3>1
  <2> QED BY <2>3 DEF S
<1>5. \A u \in active \ {t} : \A c \in H4Found(pic, u) : c \in here(pic[c].position)
  OBVIOUS
<1> HIDE DEF here
<1>6. list[pic[b].position] = H4Entry(pic, b)
  BY <1>0, <1>1
<1>7. \A p \in H4Positions : list[p] \in H4Shown
  <2> SUFFICES ASSUME NEW p \in H4Positions PROVE list[p] \in H4Shown
    OBVIOUS
  <2>1. CASE p = pic[b].position
    BY <1>0, <1>1, <2>1
  <2>2. CASE p # pic[b].position /\ here(p) # {}
    <3>1. PICK c : c \in here(p)
      BY <2>2
    <3>2. c \in H4Buf /\ list[p] = H4Entry(pic, c)
      BY <1>1, <1>2, <1>4, <2>2, <3>1
    <3> QED BY <1>0, <3>2
  <2>3. CASE p # pic[b].position /\ here(p) = {}
    BY <1>00, <1>1, <2>3
  <2> QED BY <2>1, <2>2, <2>3
<1>8. list \in [H4Positions -> H4Shown]
  <2>1. list = [p \in H4Positions |-> list[p]]
    BY DEF H4List
  <2> QED BY <1>7, <2>1
<1> HIDE DEF list
<1>9. \A u : \A c \in H4Found(pic, u) : u \in active => H4RefIndex(pic, active, u) = pic[c].position
  <2> SUFFICES ASSUME NEW u \in active, NEW c \in H4Found(pic, u)
               PROVE  H4RefIndex(pic, active, u) = pic[c].position
    OBVIOUS
  <2>1. (CHOOSE d \in H4Found(pic, u) : TRUE) = c
    BY H4FoundOnce
  <2> QED BY <2>1 DEF H4RefIndex
<1>10. ASSUME NEW u \in dpb PROVE H4RefIndex(pic, active, u) \in H4Positions
  <2>1. CASE u \in active /\ H4Found(pic, u) # {}
    <3>1. PICK c : c \in H4Found(pic, u)
      BY <2>1
    <3>2. c \in H4Buf
      BY <3>1 DEF H4Found
    <3> QED BY <1>0, <1>9, <2>1, <3>1, <3>2
  <2>2. CASE ~(u \in active /\ H4Found(pic, u) # {})
    BY <2>2 DEF H4RefIndex, H4Positions, CEDRUS_DEC_H264_FRAME_NUM
  <2> QED BY <2>1, <2>2
<1>11. ASSUME NEW u \in active, NEW c \in H4Found(pic, u)
       PROVE  list[H4RefIndex(pic, active, u)] = H4Entry(pic, c)
  <2>1. c \in H4Buf /\ pic[c].stamp = u /\ H4RefIndex(pic, active, u) = pic[c].position
    BY <1>9, H4FoundOnce
  <2>2. CASE c = b
    BY <1>6, <2>1, <2>2
  <2>3. CASE c # b
    <3>1. u # t
      BY <2>1, <2>3 DEF H4Unique
    <3>2. pic[c].position # pic[b].position
      BY <2>1, <2>3 DEF H4Apart
    <3>3. c \in here(pic[c].position)
      BY <1>5, <3>1
    <3> QED BY <1>0, <1>1, <1>4, <2>1, <3>2, <3>3
  <2> QED BY <2>2, <2>3
<1> QED BY <1>6, <1>8, <1>10, <1>11 DEF list, H4ListSound
-----------------------------------------------------------------------------
\* The frame being sent, whose DPB are timestamps of frames sent before.
H4Frames == [stamp : H4Stamps, buf : H4Buf \cup {0}, dpb : SUBSET Nat, sps : H4Sps \cup {{}},
             slices : H4Slices, out : H4Positions]

\* The shape of the state.
H4Shape ==
  /\ h4Pic \in [H4Buf -> H4Pics]
  /\ h4Frame \in H4Frames
  /\ h4Mixed \in BOOLEAN

\* A frame refers to earlier frames, and has a buffer while its slices run.
H4Sent ==
  /\ h4Frame.dpb \subseteq 1..(h4Frame.stamp - 1)
  /\ h4Frame.slices = 1 => h4Frame.buf \in H4Buf /\ h4Frame.stamp >= 1 /\ h4Frame.sps \in H4Sps

\* The frames whose positions the decoder still needs.
H4Live == (h4Frame.dpb \cup {h4Frame.stamp}) \ {0}

\* Those have positions of their own; the target of a frame whose fields or slices are
\* not all sent has the position a new search would find again.
H4Kept ==
  /\ \A b \in H4Buf : h4Pic[b].stamp <= h4Frame.stamp
  /\ H4Unique(h4Pic)
  /\ H4Apart(h4Pic, H4Live)
  /\ h4Frame.slices = 1 /\ h4Pic[h4Frame.buf].stamp = h4Frame.stamp =>
       /\ h4Frame.out = h4Pic[h4Frame.buf].position
       /\ h4Frame.out = H4FirstFree(H4Used(h4Pic, h4Frame.dpb))

\* As long as the parameters did not change, motion vectors have the size of now.
H4Uniform ==
  ~h4Mixed => \A b \in H4Buf : h4Pic[b].mv \in {0, H4MvSize(h4Frame.sps)}

\* The job is for the frame of now.
H4Working ==
  h4Job # H4Idle => h4Job \in H4Running /\ h4Job.sps = h4Frame.sps /\ h4Pic[h4Job.buf].mv # 0

\* The inductive invariant of the decoder.
H4Inv ==
  /\ H4Shape /\ H4Sent /\ H4Kept /\ H4Uniform /\ H4Working
  /\ H4ReferencesResolved /\ H4PositionStable
-----------------------------------------------------------------------------

\* Motion vectors need memory.
LEMMA H4SizeNat ==
  ASSUME NEW sps \in H4Sps
  PROVE  H4MvSize(sps) \in Nat /\ H4MvSize(sps) # 0
  BY DEF H4MvSize

\* What a job finds of the pictures, with p the position of the target.
H4Ready(b, t, dpb, p) ==
  /\ h4Pic \in [H4Buf -> H4Pics] /\ H4Unique(h4Pic) /\ H4Apart(h4Pic, dpb \ {t})
  /\ p = H4Position([h4Pic EXCEPT ![b].stamp = t], b, t, dpb)
  /\ \A c \in H4Buf \ {b} : h4Pic[c].stamp # t /\ (h4Pic[c].stamp \in dpb => h4Pic[c].position # p)

\* What it makes of them.
H4Done(b, t, dpb, sps, p) ==
  /\ h4Pic' \in [H4Buf -> H4Pics] /\ h4Pic'[b].stamp = t /\ h4Pic'[b].position = p
  /\ \A c \in H4Buf \ {b} : h4Pic'[c] = h4Pic[c]
  /\ h4Pic'[b].mv = h4Pic[b].mv \/ (h4Pic[b].mv = 0 /\ h4Pic'[b].mv = H4MvSize(sps))
  /\ H4Unique(h4Pic') /\ H4Apart(h4Pic', dpb \cup {t})
  /\ h4Job' # H4Idle =>
       /\ h4Job' \in H4Running /\ h4Job'.sps = sps /\ h4Job'.out = p
       /\ h4Pic'[h4Job'.buf].mv # 0
  /\ H4ReferencesResolved'

\* cedrus_h264_setup for one slice: memory for the motion vectors, the position of the
\* target, the list of frames and the reference lists of the slice.
LEMMA H4RunKeeps ==
  ASSUME NEW b \in H4Buf, NEW t \in H4Stamps \ {0}, NEW dpb \in SUBSET (1..H4MaxFrames),
         NEW active \in SUBSET dpb, NEW sps \in H4Sps, NEW type \in H4PicType, NEW first \in BOOLEAN,
         NEW p \in H4Positions, H4Ready(b, t, dpb, p), H4Run(b, t, dpb, active, sps, type, first)
  PROVE  H4Done(b, t, dpb, sps, p)
<1>0. /\ h4Pic \in [H4Buf -> H4Pics] /\ H4Unique(h4Pic) /\ H4Apart(h4Pic, dpb \ {t})
      /\ p = H4Position([h4Pic EXCEPT ![b].stamp = t], b, t, dpb)
      /\ \A c \in H4Buf \ {b} : h4Pic[c].stamp # t /\ (h4Pic[c].stamp \in dpb => h4Pic[c].position # p)
  BY DEF H4Ready
<1> DEFINE placed == H4Placed(b, t, dpb)
<1>1. /\ placed \in [H4Buf -> H4Pics] /\ placed[b].stamp = t /\ placed[b].position = p
      /\ placed[b].mv = h4Pic[b].mv
      /\ \A c \in H4Buf \ {b} : placed[c] = h4Pic[c]
  <2> DEFINE stamped == [h4Pic EXCEPT ![b].stamp = t]
  <2>1. placed = [stamped EXCEPT ![b].position = p]
    BY <1>0 DEF H4Placed
  <2>2. /\ stamped \in [H4Buf -> H4Pics] /\ stamped[b].stamp = t /\ stamped[b].mv = h4Pic[b].mv
        /\ \A c \in H4Buf \ {b} : stamped[c] = h4Pic[c]
    <3>1. t \in Nat
      BY DEF H4Stamps
    <3> QED BY <1>0, <3>1 DEF H4Pics
  <2> HIDE DEF stamped, placed
  <2> QED BY <1>0, <2>1, <2>2, ZenonT(60) DEF H4Pics
<1> HIDE DEF placed
<1>2. ASSUME NEW pic \in [H4Buf -> H4Pics], pic[b].stamp = t, pic[b].position = p,
             \A c \in H4Buf \ {b} : pic[c] = h4Pic[c]
      PROVE  H4Unique(pic) /\ H4Apart(pic, dpb \cup {t})
  <2>1. H4Unique(pic)
    BY <1>0, <1>2 DEF H4Unique
  <2>2. H4Apart(pic, dpb \cup {t})
    <3> SUFFICES ASSUME NEW c \in H4Buf, NEW d \in H4Buf, pic[c].stamp \in dpb \cup {t},
                        pic[d].stamp \in dpb \cup {t}, pic[c].position = pic[d].position
                 PROVE  c = d
      BY DEF H4Apart
    <3>1. \A e \in H4Buf \ {b} : pic[e].stamp \in dpb \cup {t} =>
            h4Pic[e].stamp \in dpb \ {t} /\ pic[e].position # p
      BY <1>0, <1>2
    <3>2. CASE c = b \/ d = b
      BY <1>2, <3>1, <3>2
    <3>3. CASE c # b /\ d # b
      BY <1>0, <1>2, <3>1, <3>3 DEF H4Apart
    <3> QED BY <3>2, <3>3
  <2> QED BY <2>1, <2>2
<1>3. CASE H4NoMemory(b, t, dpb)
  <2>1. h4Pic' = placed /\ h4Job' = H4Idle
    BY <1>3 DEF H4NoMemory, placed
  <2> QED BY <1>0, <1>1, <1>2, <2>1 DEF H4ReferencesResolved, H4Done
<1>4. CASE H4Start(b, t, dpb, active, sps, type, first)
  <2> DEFINE r == [placed[b] EXCEPT !.mv = IF h4Pic[b].mv = 0 THEN H4MvSize(sps) ELSE @, !.type = type]
  <2>1. h4Pic' = [placed EXCEPT ![b] = r]
    BY <1>1, <1>4 DEF H4Start, placed
  <2>2. /\ r \in H4Pics /\ r.stamp = t /\ r.position = p
        /\ r.mv = (IF h4Pic[b].mv = 0 THEN H4MvSize(sps) ELSE h4Pic[b].mv)
    <3>1. placed[b] \in H4Pics
      BY <1>1
    <3> QED BY <1>1, <3>1, H4SizeNat DEF H4Pics
  <2>3. h4Job' = [out |-> h4Pic'[b].position, buf |-> b, sps |-> sps, active |-> active,
                  list |-> H4List(h4Pic', b, t, active),
                  refs |-> [u \in dpb |-> H4RefIndex(h4Pic', active, u)],
                  first |-> first]
    BY <1>4 DEF H4Start
  <2> HIDE DEF r
  <2>4. /\ h4Pic' \in [H4Buf -> H4Pics] /\ h4Pic'[b].stamp = t /\ h4Pic'[b].position = p
        /\ \A c \in H4Buf \ {b} : h4Pic'[c] = h4Pic[c]
        /\ h4Pic'[b].mv = (IF h4Pic[b].mv = 0 THEN H4MvSize(sps) ELSE h4Pic[b].mv)
    BY <1>1, <2>1, <2>2
  <2>5. H4Unique(h4Pic') /\ H4Apart(h4Pic', dpb \cup {t})
    BY <1>2, <2>4
  <2>6. t # 0 /\ 0 \notin dpb
    OBVIOUS
  <2>7. /\ H4List(h4Pic', b, t, active) \in [H4Positions -> H4Shown]
        /\ H4List(h4Pic', b, t, active)[p] = H4Entry(h4Pic', b)
        /\ \A u \in dpb : H4RefIndex(h4Pic', active, u) \in H4Positions
        /\ \A u \in active : \A c \in H4Found(h4Pic', u) :
             H4List(h4Pic', b, t, active)[H4RefIndex(h4Pic', active, u)] = H4Entry(h4Pic', c)
    <3>1. h4Pic'[b].stamp = t
      BY <2>4
    <3>2. H4ListSound(h4Pic', b, t, dpb, active)
      BY <2>4, <2>5, <2>6, <3>1, H4Listed
    <3> QED BY <2>4, <3>2 DEF H4ListSound
  <2> DEFINE list == H4List(h4Pic', b, t, active)
             refs == [u \in dpb |-> H4RefIndex(h4Pic', active, u)]
  <2>8. /\ refs \in UNION {[s -> H4Positions] : s \in SUBSET (1..H4MaxFrames)}
        /\ \A u \in active : refs[u] = H4RefIndex(h4Pic', active, u)
    <3>1. refs \in [dpb -> H4Positions]
      BY <2>7
    <3>2. \A u \in active : refs[u] = H4RefIndex(h4Pic', active, u)
      OBVIOUS
    <3> HIDE DEF refs
    <3> QED BY <3>1, <3>2
  <2>9. /\ list \in [H4Positions -> H4Shown] /\ list[p] = H4Entry(h4Pic', b)
        /\ \A u \in active : \A c \in H4Found(h4Pic', u) : list[refs[u]] = H4Entry(h4Pic', c)
    BY <2>7, <2>8
  <2>10. /\ h4Job'.out = p /\ h4Job'.buf = b /\ h4Job'.sps = sps /\ h4Job'.active = active
         /\ h4Job'.list = list /\ h4Job'.refs = refs
    BY <2>3, <2>4
  <2>11. h4Job' = [out |-> p, buf |-> b, sps |-> sps, active |-> active, list |-> list, refs |-> refs,
                   first |-> first]
    BY <2>3, <2>4
  <2> HIDE DEF list, refs
  <2>12. h4Job' \in H4Running
    <3>1. active \in SUBSET Nat
      OBVIOUS
    <3> QED BY <2>8, <2>9, <2>11, <3>1 DEF H4Running, H4Shown
  <2>13. H4Entry(h4Pic', b).buf = b
    BY DEF H4Entry
  <2>14. H4ReferencesResolved'
    BY <2>9, <2>10, <2>13 DEF H4ReferencesResolved
  <2>15. h4Pic'[h4Job'.buf].mv # 0
    BY <2>4, <2>10, H4SizeNat
  <2> QED BY <2>4, <2>5, <2>10, <2>12, <2>14, <2>15 DEF H4Done
<1> QED BY <1>3, <1>4 DEF H4Run

\* A context that was just opened.
LEMMA H4InitOK == H4Init => H4Inv
<1> SUFFICES ASSUME H4Init PROVE H4Inv
  OBVIOUS
<1>1. /\ h4Pic = [b \in H4Buf |-> H4Fresh] /\ h4Frame = H4NoFrame /\ h4Job = H4Idle /\ h4Mixed = FALSE
  BY DEF H4Init
<1>2. H4Fresh \in H4Pics /\ H4Fresh.stamp = 0 /\ H4Fresh.mv = 0
  BY DEF H4Fresh, H4Pics, H4Positions, H4PicType, CEDRUS_DEC_H264_FRAME_NUM
<1>3. /\ H4NoFrame \in H4Frames /\ H4NoFrame.stamp = 0 /\ H4NoFrame.dpb = {} /\ H4NoFrame.slices = 0
  <2>1. 0 \in H4Stamps /\ 0 \in H4Slices /\ 0 \in H4Positions
    BY H4Assumption DEF H4Assumption, H4Stamps, H4Slices, H4Positions, CEDRUS_DEC_H264_FRAME_NUM
  <2> QED BY <2>1 DEF H4NoFrame, H4Frames
<1>4. H4Shape
  BY <1>1, <1>2, <1>3 DEF H4Shape
<1>5. H4Sent
  BY <1>1, <1>3 DEF H4Sent
<1>6. H4Kept
  BY <1>1, <1>2, <1>3 DEF H4Kept, H4Unique, H4Apart, H4Live
<1> QED BY <1>1, <1>2, <1>4, <1>5, <1>6 DEF H4Inv, H4Uniform, H4Working, H4ReferencesResolved, H4PositionStable

\* Frames are counted.
LEMMA H4Counted ==
  ASSUME H4Inv
  PROVE  h4Frame.stamp \in Nat /\ h4Frame.stamp <= H4MaxFrames /\ H4MaxFrames \in Nat
<1>1. h4Frame.stamp \in H4Stamps
  BY DEF H4Inv, H4Shape, H4Frames
<1> QED BY <1>1, H4Assumption DEF H4Stamps, H4Assumption

\* The first slice of a frame, into any buffer.
LEMMA H4FrameStartKeeps == H4Inv /\ H4FrameStart => H4Inv'
<1> SUFFICES ASSUME H4Inv, H4FrameStart PROVE H4Inv'
  OBVIOUS
<1> DEFINE old == h4Frame.stamp
           t == old + 1
<1>1. PICK dpb \in SUBSET (h4Frame.dpb \cup ({h4Frame.stamp} \ {0})), sps \in H4Sps :
      \E active \in SUBSET dpb, b \in H4Buf, type \in H4Types(sps) :
        /\ Cardinality(dpb) <= H4MaxDpb
        /\ h4Pic[b].stamp \notin dpb
        /\ H4Run(b, t, dpb, active, sps, type, TRUE)
        /\ h4Frame' = [stamp |-> t, buf |-> b, dpb |-> dpb, sps |-> sps, slices |-> 1,
                       out |-> h4Pic'[b].position]
        /\ h4Mixed' = (h4Mixed \/ ((\E c \in H4Buf : h4Pic[c].mv # 0) /\ sps # h4Frame.sps))
  BY DEF H4FrameStart
<1>2. PICK active \in SUBSET dpb, b \in H4Buf, type \in H4Types(sps) :
        /\ Cardinality(dpb) <= H4MaxDpb
        /\ h4Pic[b].stamp \notin dpb
        /\ H4Run(b, t, dpb, active, sps, type, TRUE)
        /\ h4Frame' = [stamp |-> t, buf |-> b, dpb |-> dpb, sps |-> sps, slices |-> 1,
                       out |-> h4Pic'[b].position]
        /\ h4Mixed' = (h4Mixed \/ ((\E c \in H4Buf : h4Pic[c].mv # 0) /\ sps # h4Frame.sps))
  BY <1>1
<1>3. h4Job = H4Idle /\ old < H4MaxFrames
  BY DEF H4FrameStart
<1>4. old \in Nat /\ old <= H4MaxFrames /\ H4MaxFrames \in Nat
  BY H4Counted
<1> HIDE DEF old
<1>5. t \in H4Stamps \ {0} /\ t \in Nat /\ t >= 1 /\ t - 1 = old
  BY <1>3, <1>4 DEF H4Stamps
<1>6. /\ dpb \subseteq 1..old /\ dpb \subseteq 1..(t - 1) /\ dpb \in SUBSET (1..H4MaxFrames)
      /\ t \notin dpb /\ dpb \subseteq H4Live /\ dpb \in SUBSET Nat
  <2>1. h4Frame.dpb \subseteq 1..(old - 1)
    BY DEF H4Inv, H4Sent, old
  <2>2. dpb \subseteq H4Live /\ 0 \notin dpb
    BY <1>4, <2>1 DEF H4Live, old
  <2>3. dpb \subseteq 1..old
    BY <1>4, <2>1 DEF old
  <2> QED BY <1>4, <1>5, <2>2, <2>3
<1>7. h4Pic \in [H4Buf -> H4Pics] /\ H4Unique(h4Pic) /\ H4Apart(h4Pic, H4Live)
  BY DEF H4Inv, H4Shape, H4Kept
<1>8. \A c \in H4Buf : h4Pic[c].stamp \in Nat /\ h4Pic[c].stamp <= old
  BY <1>7 DEF H4Inv, H4Kept, H4Pics, old
<1>9. \A c \in H4Buf : h4Pic[c].stamp # t
  BY <1>4, <1>8
<1>10. type \in H4PicType
  BY DEF H4Types, H4PicType
<1>11. IsFiniteSet(dpb) /\ Cardinality(dpb) <= 16
  <2>1. IsFiniteSet(1..old)
    BY <1>4, FS_Interval
  <2>2. IsFiniteSet(dpb)
    BY <1>6, <2>1, FS_Subset
  <2>3. Cardinality(dpb) \in Nat
    BY <2>2, FS_CardinalityType
  <2>4. H4MaxDpb \in 0..16 /\ Cardinality(dpb) <= H4MaxDpb
    BY <1>2, H4Assumption DEF H4Assumption
  <2> QED BY <2>2, <2>3, <2>4
<1> DEFINE stamped == [h4Pic EXCEPT ![b].stamp = t]
           p == H4FirstFree(H4Used(stamped, dpb))
<1>12. p \in H4Positions /\ p \notin H4Used(stamped, dpb)
  BY <1>11, H4FreeExists
<1>13. p = H4Position(stamped, b, t, dpb)
  BY <1>6 DEF H4Position
<1>14. \A c \in H4Buf \ {b} : h4Pic[c].stamp # t /\ (h4Pic[c].stamp \in dpb => h4Pic[c].position # p)
  <2> SUFFICES ASSUME NEW c \in H4Buf \ {b}, h4Pic[c].stamp \in dpb PROVE h4Pic[c].position # p
    BY <1>9
  <2>1. stamped[c] = h4Pic[c]
    BY <1>7
  <2>2. H4Unique(stamped)
    BY <1>7, <1>9 DEF H4Unique, H4Pics
  <2>3. stamped[c].stamp # 0 /\ stamped[c].stamp \in dpb
    BY <1>6, <2>1
  <2> HIDE DEF stamped, p
  <2>4. H4Found(stamped, stamped[c].stamp) = {c}
    BY <2>2, <2>3, H4FoundIs
  <2>5. stamped[c].position \in H4Used(stamped, dpb)
    BY <2>3, <2>4 DEF H4Used
  <2> QED BY <1>12, <2>1, <2>5
<1> HIDE DEF stamped, p, t
<1>15. H4Apart(h4Pic, dpb \ {t})
  BY <1>6, <1>7 DEF H4Apart
<1>16. /\ h4Pic' \in [H4Buf -> H4Pics] /\ h4Pic'[b].stamp = t /\ h4Pic'[b].position = p
       /\ \A c \in H4Buf \ {b} : h4Pic'[c] = h4Pic[c]
       /\ h4Pic'[b].mv = h4Pic[b].mv \/ (h4Pic[b].mv = 0 /\ h4Pic'[b].mv = H4MvSize(sps))
       /\ H4Unique(h4Pic') /\ H4Apart(h4Pic', dpb \cup {t})
       /\ h4Job' # H4Idle =>
            /\ h4Job' \in H4Running /\ h4Job'.sps = sps /\ h4Job'.out = p
            /\ h4Pic'[h4Job'.buf].mv # 0
       /\ H4ReferencesResolved'
  <2>1. H4Ready(b, t, dpb, p)
    BY <1>7, <1>13, <1>14, <1>15 DEF H4Ready, stamped
  <2>2. TRUE \in BOOLEAN /\ H4Run(b, t, dpb, active, sps, type, TRUE)
    BY <1>2
  <2>3. H4Done(b, t, dpb, sps, p)
    BY <1>5, <1>6, <1>10, <1>12, <2>1, <2>2, H4RunKeeps
  <2> QED BY <2>3 DEF H4Done
<1>17. /\ h4Frame'.stamp = t /\ h4Frame'.buf = b /\ h4Frame'.dpb = dpb /\ h4Frame'.sps = sps
       /\ h4Frame'.slices = 1 /\ h4Frame'.out = p
  BY <1>2, <1>16
<1>18. h4Frame' \in H4Frames
  <2>1. 1 \in H4Slices
    BY DEF H4Slices
  <2>2. h4Frame' = [stamp |-> t, buf |-> b, dpb |-> dpb, sps |-> sps, slices |-> 1, out |-> p]
    BY <1>2, <1>16
  <2> QED BY <1>5, <1>6, <1>12, <2>1, <2>2 DEF H4Frames
<1>19. H4Shape'
  <2>1. h4Mixed' \in BOOLEAN
    BY <1>2
  <2> QED BY <1>16, <1>18, <2>1 DEF H4Shape
<1>20. H4Sent'
  BY <1>5, <1>6, <1>17 DEF H4Sent
<1>21. H4Kept'
  <2>1. \A c \in H4Buf : h4Pic'[c].stamp <= h4Frame'.stamp
    BY <1>4, <1>5, <1>8, <1>16, <1>17
  <2>2. H4Live' = dpb \cup {t}
    BY <1>5, <1>6, <1>17 DEF H4Live
  <2>3. H4Used(h4Pic', dpb) = H4Used(stamped, dpb)
    <3>1. /\ stamped[b].stamp = t
          /\ \A c \in H4Buf \ {b} : stamped[c] = h4Pic[c]
      BY <1>7 DEF stamped, H4Pics
    <3>2. \A c \in H4Buf : h4Pic'[c].stamp = stamped[c].stamp
      BY <1>16, <3>1
    <3>3. \A c \in H4Buf : stamped[c].stamp \in dpb => h4Pic'[c].position = stamped[c].position
      BY <1>6, <1>16, <3>1
    <3> QED BY <3>2, <3>3, H4UsedSame
  <2>4. h4Frame'.out = h4Pic'[h4Frame'.buf].position /\ h4Frame'.out = H4FirstFree(H4Used(h4Pic', h4Frame'.dpb))
    BY <1>16, <1>17, <2>3 DEF p
  <2> QED BY <1>16, <2>1, <2>2, <2>4 DEF H4Kept
<1>22. H4Uniform'
  <2> SUFFICES ASSUME ~h4Mixed', NEW c \in H4Buf PROVE h4Pic'[c].mv \in {0, H4MvSize(sps)}
    BY <1>17 DEF H4Uniform
  <2>1. ~h4Mixed /\ (h4Pic[c].mv # 0 => sps = h4Frame.sps)
    BY <1>2
  <2>2. h4Pic[c].mv \in {0, H4MvSize(h4Frame.sps)}
    BY <2>1 DEF H4Inv, H4Uniform
  <2> QED BY <1>16, <2>1, <2>2
<1>23. H4Working' /\ H4PositionStable'
  BY <1>16, <1>17 DEF H4Working, H4PositionStable
<1> QED BY <1>16, <1>19, <1>20, <1>21, <1>22, <1>23 DEF H4Inv

\* A further slice or the other field of the frame, into the same buffer.
LEMMA H4NextSliceKeeps == H4Inv /\ H4NextSlice => H4Inv'
<1> SUFFICES ASSUME H4Inv, H4NextSlice PROVE H4Inv'
  OBVIOUS
<1> DEFINE b == h4Frame.buf
           t == h4Frame.stamp
           sps == h4Frame.sps
<1>1. PICK own \in {{}, {t}}, gone \in SUBSET h4Frame.dpb :
      \E active \in SUBSET ((h4Frame.dpb \ gone) \cup own), type \in H4Types(sps) :
        LET dpb == (h4Frame.dpb \ gone) \cup own
        IN  /\ own = {} => gone = {}
            /\ h4Pic[b].stamp = t
            /\ H4Run(b, t, dpb, active, sps, type, FALSE)
            /\ h4Frame' = [h4Frame EXCEPT !.dpb = dpb \ own, !.slices = 2]
  BY DEF H4NextSlice
<1> DEFINE dpb == (h4Frame.dpb \ gone) \cup own
<1>2. PICK active \in SUBSET dpb, type \in H4Types(sps) :
        /\ own = {} => gone = {}
        /\ h4Pic[b].stamp = t
        /\ H4Run(b, t, dpb, active, sps, type, FALSE)
        /\ h4Frame' = [h4Frame EXCEPT !.dpb = dpb \ own, !.slices = 2]
  BY <1>1
<1>3. h4Job = H4Idle /\ h4Frame.slices = 1 /\ h4Mixed' = h4Mixed
  BY DEF H4NextSlice
<1>4. t \in Nat /\ t <= H4MaxFrames /\ H4MaxFrames \in Nat
  BY H4Counted
<1>5. b \in H4Buf /\ t >= 1 /\ sps \in H4Sps /\ h4Frame.dpb \subseteq 1..(t - 1)
  BY <1>3 DEF H4Inv, H4Sent
<1>6. h4Frame \in H4Frames /\ h4Pic \in [H4Buf -> H4Pics] /\ H4Unique(h4Pic) /\ H4Apart(h4Pic, H4Live)
  BY DEF H4Inv, H4Shape, H4Kept
<1>7. h4Frame.out = h4Pic[b].position /\ h4Frame.out = H4FirstFree(H4Used(h4Pic, h4Frame.dpb))
  BY <1>2, <1>3 DEF H4Inv, H4Kept
<1> DEFINE p == h4Frame.out
<1>8. /\ dpb \in SUBSET (1..H4MaxFrames) /\ dpb \cup {t} \subseteq H4Live
      /\ dpb \ {t} \subseteq h4Frame.dpb /\ dpb \ own \subseteq h4Frame.dpb
  BY <1>4, <1>5 DEF H4Live
<1>9. p \in H4Positions /\ t \in H4Stamps \ {0} /\ type \in H4PicType
  <2>1. p \in H4Positions
    BY <1>6 DEF H4Frames
  <2>2. type \in H4PicType
    BY DEF H4Types, H4PicType
  <2>3. t \in H4Stamps \ {0}
    BY <1>4, <1>5 DEF H4Stamps
  <2> QED BY <2>1, <2>2, <2>3
<1>10. [h4Pic EXCEPT ![b].stamp = t] = h4Pic
  <2>1. h4Pic[b] \in H4Pics
    BY <1>5, <1>6
  <2>2. [h4Pic[b] EXCEPT !.stamp = t] = h4Pic[b]
    BY <1>2, <2>1 DEF H4Pics
  <2> QED BY <1>6, <2>2
<1> HIDE DEF b, t, sps
<1>11. p = H4Position(h4Pic, b, t, dpb)
  <2>1. CASE own = {}
    <3>1. dpb = h4Frame.dpb
      BY <1>2, <2>1
    <3>2. t \notin dpb
      BY <1>4, <1>5, <3>1
    <3> QED BY <1>7, <3>1, <3>2 DEF H4Position
  <2>2. CASE own = {t}
    <3>1. H4Found(h4Pic, t) = {b}
      BY <1>2, <1>5, <1>6, <1>9, H4FoundIs
    <3> QED BY <1>7, <2>2, <3>1 DEF H4Position
  <2> QED BY <2>1, <2>2
<1>12. \A c \in H4Buf \ {b} : h4Pic[c].stamp # t /\ (h4Pic[c].stamp \in dpb => h4Pic[c].position # p)
  <2> SUFFICES ASSUME NEW c \in H4Buf \ {b}
               PROVE  h4Pic[c].stamp # t /\ (h4Pic[c].stamp \in dpb => h4Pic[c].position # p)
    OBVIOUS
  <2>1. h4Pic[c].stamp # t
    BY <1>2, <1>5, <1>6, <1>9 DEF H4Unique
  <2>2. t \in H4Live
    BY <1>8
  <2>3. h4Pic[c].stamp \in dpb => h4Pic[c].stamp \in H4Live
    BY <1>8
  <2> QED BY <1>2, <1>5, <1>6, <1>7, <2>1, <2>2, <2>3 DEF H4Apart
<1>13. H4Apart(h4Pic, dpb \ {t})
  BY <1>6, <1>8 DEF H4Apart
<1> HIDE DEF dpb, p
<1>14. /\ h4Pic' \in [H4Buf -> H4Pics] /\ h4Pic'[b].stamp = t /\ h4Pic'[b].position = p
       /\ \A c \in H4Buf \ {b} : h4Pic'[c] = h4Pic[c]
       /\ h4Pic'[b].mv = h4Pic[b].mv \/ (h4Pic[b].mv = 0 /\ h4Pic'[b].mv = H4MvSize(sps))
       /\ H4Unique(h4Pic') /\ H4Apart(h4Pic', dpb \cup {t})
       /\ h4Job' # H4Idle =>
            /\ h4Job' \in H4Running /\ h4Job'.sps = sps /\ h4Job'.out = p
            /\ h4Pic'[h4Job'.buf].mv # 0
       /\ H4ReferencesResolved'
  <2>1. H4Ready(b, t, dpb, p)
    BY <1>6, <1>10, <1>11, <1>12, <1>13 DEF H4Ready
  <2>2. FALSE \in BOOLEAN /\ H4Run(b, t, dpb, active, sps, type, FALSE)
    BY <1>2
  <2>3. H4Done(b, t, dpb, sps, p)
    BY <1>5, <1>8, <1>9, <2>1, <2>2, H4RunKeeps
  <2> QED BY <2>3 DEF H4Done
<1>15. /\ h4Frame' \in H4Frames /\ h4Frame'.stamp = t /\ h4Frame'.buf = b /\ h4Frame'.sps = sps
       /\ h4Frame'.dpb = dpb \ own /\ h4Frame'.slices = 2 /\ h4Frame'.out = p
  <2>1. 2 \in H4Slices
    BY DEF H4Slices
  <2>2. dpb \ own \in SUBSET Nat
    BY <1>8, <1>5
  <2> QED BY <1>2, <1>6, <2>1, <2>2 DEF H4Frames, b, t, sps, p
<1>16. H4Shape'
  BY <1>3, <1>14, <1>15 DEF H4Inv, H4Shape
<1>17. H4Sent'
  BY <1>5, <1>8, <1>15 DEF H4Sent
<1>18. H4Kept'
  <2>1. \A c \in H4Buf : h4Pic'[c].stamp <= h4Frame'.stamp
    <3>1. \A c \in H4Buf : h4Pic'[c].stamp = h4Pic[c].stamp
      BY <1>2, <1>14
    <3> QED BY <1>15, <3>1 DEF H4Inv, H4Kept, t
  <2>2. H4Live' \subseteq dpb \cup {t}
    BY <1>15 DEF H4Live
  <2>3. H4Apart(h4Pic', H4Live')
    BY <1>14, <2>2 DEF H4Apart
  <2> QED BY <1>14, <1>15, <2>1, <2>3 DEF H4Kept
<1>19. H4Uniform'
  <2> SUFFICES ASSUME ~h4Mixed', NEW c \in H4Buf PROVE h4Pic'[c].mv \in {0, H4MvSize(sps)}
    BY <1>15 DEF H4Uniform
  <2>1. h4Pic[c].mv \in {0, H4MvSize(sps)}
    BY <1>3 DEF H4Inv, H4Uniform, sps
  <2> QED BY <1>14, <2>1
<1>20. H4Working' /\ H4PositionStable'
  BY <1>14, <1>15 DEF H4Working, H4PositionStable
<1> QED BY <1>14, <1>16, <1>17, <1>18, <1>19, <1>20 DEF H4Inv

\* Capture buffers are freed: positions and motion vectors are gone.
LEMMA H4FreedKeeps == H4Inv /\ H4BuffersFreed => H4Inv'
<1> SUFFICES ASSUME H4Inv, H4BuffersFreed PROVE H4Inv'
  OBVIOUS
<1>1. /\ h4Job' = H4Idle /\ h4Frame' = h4Frame
      /\ h4Pic' = [b \in H4Buf |-> H4Fresh] /\ h4Mixed' = FALSE
  BY DEF H4BuffersFreed
<1>2. H4Fresh \in H4Pics /\ H4Fresh.stamp = 0 /\ H4Fresh.mv = 0
  BY DEF H4Fresh, H4Pics, H4Positions, H4PicType, CEDRUS_DEC_H264_FRAME_NUM
<1>3. /\ h4Pic' \in [H4Buf -> H4Pics]
      /\ \A b \in H4Buf : h4Pic'[b].stamp = 0 /\ h4Pic'[b].mv = 0
  BY <1>1, <1>2
<1>4. H4Shape' /\ H4Sent'
  BY <1>1, <1>3 DEF H4Inv, H4Shape, H4Sent
<1>5. H4Kept'
  <2>1. h4Frame.stamp \in Nat
    BY H4Counted
  <2>2. h4Frame.slices = 1 => h4Frame.buf \in H4Buf /\ h4Frame.stamp >= 1
    BY DEF H4Inv, H4Sent
  <2>3. H4Unique(h4Pic') /\ H4Apart(h4Pic', H4Live')
    BY <1>3 DEF H4Unique, H4Apart, H4Live
  <2> QED BY <1>1, <1>3, <2>1, <2>2, <2>3 DEF H4Kept
<1>6. H4Uniform'
  BY <1>3 DEF H4Uniform
<1> QED BY <1>1, <1>4, <1>5, <1>6 DEF H4Inv, H4Working, H4ReferencesResolved, H4PositionStable

\* Every step of the decoder keeps the invariant.
LEMMA H4StepKeeps == H4Inv /\ [H4Next]_h4Vars => H4Inv'
<1> SUFFICES ASSUME H4Inv, [H4Next]_h4Vars PROVE H4Inv'
  OBVIOUS
<1>1. CASE UNCHANGED h4Vars
  BY <1>1 DEF H4Inv, H4Shape, H4Sent, H4Kept, H4Live, H4Uniform, H4Working, H4ReferencesResolved,
              H4PositionStable, h4Vars
<1>2. CASE H4JobEnd
  BY <1>2 DEF H4JobEnd, H4Inv, H4Shape, H4Sent, H4Kept, H4Live, H4Uniform, H4Working,
              H4ReferencesResolved, H4PositionStable
<1> QED BY <1>1, <1>2, H4FrameStartKeeps, H4NextSliceKeeps, H4FreedKeeps DEF H4Next

\* The inductive invariant of the H.264 decoder, for any buffers, DPBs of at most 16
\* frames and length of the stream: frames that are still needed have positions of their
\* own, the target keeps its position from slice to slice, and every reference index
\* leads to the picture the client listed.
THEOREM H264Inductive == H4Spec => []H4Inv
  BY H4InitOK, H4StepKeeps, PTL DEF H4Spec

\* The invariant implies the types.
LEMMA H4InvTyped == H4Inv => H4TypeOK
<1> SUFFICES ASSUME H4Inv PROVE H4TypeOK
  OBVIOUS
<1>1. h4Frame.stamp \in Nat /\ h4Frame.stamp <= H4MaxFrames /\ H4MaxFrames \in Nat
  BY H4Counted
<1>2. h4Frame.slices \in H4Slices
  BY DEF H4Inv, H4Shape, H4Frames
<1>3. h4Frame.dpb \subseteq 1..H4MaxFrames
  <2>1. h4Frame.dpb \subseteq 1..(h4Frame.stamp - 1)
    BY DEF H4Inv, H4Sent
  <2> QED BY <1>1, <2>1
<1>4. h4Pic \in [H4Buf -> [stamp : Nat, position : H4Positions, type : H4PicType, mv : Nat]]
  BY DEF H4Inv, H4Shape, H4Pics
<1>5. (h4Job = H4Idle \/ h4Job \in H4Running) /\ h4Mixed \in BOOLEAN
  BY DEF H4Inv, H4Shape, H4Working
<1> QED BY <1>1, <1>2, <1>3, <1>4, <1>5 DEF H4TypeOK, H4Slices

\* The invariant implies that motion vectors fit, unless the parameters changed.
LEMMA H4InvFits == H4Inv => H4MotionVectorsFit
<1> SUFFICES ASSUME H4Inv, h4Job # H4Idle, ~h4Mixed
             PROVE  h4Pic[h4Job.buf].mv >= H4MvSize(h4Job.sps)
  BY DEF H4MotionVectorsFit
<1>1. h4Job \in H4Running /\ h4Job.sps = h4Frame.sps /\ h4Pic[h4Job.buf].mv # 0
  BY DEF H4Inv, H4Working
<1>2. h4Job.buf \in H4Buf /\ h4Job.sps \in H4Sps
  BY <1>1 DEF H4Running
<1>3. h4Pic[h4Job.buf].mv \in {0, H4MvSize(h4Frame.sps)}
  BY <1>2 DEF H4Inv, H4Uniform
<1> QED BY <1>1, <1>2, <1>3, H4SizeNat
-----------------------------------------------------------------------------
(* The slices of H.264 and its areas of the SRAM. *)

\* The two bytes of a slice position determine the first macroblock.
LEMMA SliceAddressed ==
  ASSUME NEW width \in 1..240, NEW row \in 0..239, NEW col \in 0..(width - 1)
  PROVE  LET mb == row * width + col
         IN  /\ H4SliceX(mb, width) = col /\ H4SliceY(mb, width, FALSE) = row
             /\ row < 120 => H4SliceY(mb, width, TRUE) = 2 * row
<1> DEFINE mb == row * width + col
<1>1. mb \div width = row /\ mb % width = col
  BY RowAndColumn
<1> HIDE DEF mb
<1>2. H4SliceX(mb, width) = col
  BY <1>1 DEF H4SliceX
<1>3. H4SliceY(mb, width, FALSE) = row
  BY <1>1 DEF H4SliceY
<1>4. row < 120 => H4SliceY(mb, width, TRUE) = 2 * row
  BY <1>1 DEF H4SliceY
<1>5. QED BY <1>2, <1>3, <1>4 DEF mb

\* The position of a slice in the stream is that the syntax means.
THEOREM SlicesAddressed == H4SliceAddressed
<1>1. SUFFICES ASSUME NEW width \in {1, 120, 239, 240}, NEW row \in 0..239, NEW col \in {0, width - 1}
               PROVE  LET mb == row * width + col
                      IN  /\ H4SliceX(mb, width) = col /\ H4SliceY(mb, width, FALSE) = row
                          /\ row < 120 => H4SliceY(mb, width, TRUE) = 2 * row
  BY DEF H4SliceAddressed
<1>2. width \in 1..240 /\ col \in 0..(width - 1)
  OBVIOUS
<1>3. QED BY <1>2, SliceAddressed

\* The areas of the SRAM of H.264 do not overlap, and end inside it.
LEMMA SramApart == H4SramApart
  BY DEF H4SramApart, H4SramAreas, CEDRUS_DEC_H264_FRAME_NUM
-----------------------------------------------------------------------------
(* H.265.                                                                  *)

\* What the decoder keeps of pictures, entries of the SRAM and the frame being sent.
H5Stamps  == 0..H5MaxFrames
H5Sizes   == {0} \cup {H5MvSize(c) : c \in H5Ctb}
H5Pics    == [stamp : H5Stamps, mv : H5Sizes]
H5Slices  == 0..2
H5Entries == [buf : H5Buf \cup {0}, gen : Nat, mv : Nat, field : BOOLEAN]
H5Frames  == [stamp : H5Stamps, buf : H5Buf \cup {0}, dpb : Seq(Nat), ctb : H5Ctb \cup {16},
              slices : H5Slices, mixed : BOOLEAN]

H5Shape ==
  /\ h5Pic \in [H5Buf -> H5Pics]
  /\ h5Gen \in 0..H5MaxFreed
  /\ h5Sram \in [H5Index -> H5Entries]
  /\ h5Frame \in H5Frames
  /\ h5Ran \subseteq 1..h5Frame.stamp

\* A frame refers to frames sent, and has a buffer while its slices run.
H5Sent ==
  /\ Len(h5Frame.dpb) <= V4L2_HEVC_DPB_ENTRIES_NUM_MAX
  /\ \A i \in DOMAIN h5Frame.dpb : h5Frame.dpb[i] \in 1..h5Frame.stamp
  /\ h5Frame.slices = 1 => h5Frame.buf \in H5Buf /\ h5Frame.stamp >= 1 /\ h5Frame.ctb \in H5Ctb

\* The buffer of the frame is the only one with its timestamp, and a buffer decoded into
\* has memory for motion vectors.
H5Placed ==
  /\ \A b \in H5Buf : h5Pic[b].stamp <= h5Frame.stamp
  /\ h5Frame.stamp # 0 => \A b \in H5Buf : h5Pic[b].stamp = h5Frame.stamp => b = h5Frame.buf
  /\ \A b \in H5Buf : h5Pic[b].stamp \in h5Ran => h5Pic[b].mv > 0

\* As long as the block size did not change, that memory has the size of now.
H5Uniform ==
  ~h5Frame.mixed => \A b \in H5Buf : h5Pic[b].mv \in {0, H5MvSize(h5Frame.ctb)}

\* The job is for the frame of now, with lists of its DPB.
H5Working ==
  h5Job # H5Idle =>
    /\ h5Job.buf \in H5Buf /\ h5Job.ctb = h5Frame.ctb /\ h5Job.lists \subseteq 0..(Len(h5Job.dpb) - 1)
    /\ h5Pic[h5Job.buf].mv > 0

\* The inductive invariant of the decoder.
H5Inv == H5Shape /\ H5Sent /\ H5Placed /\ H5Uniform /\ H5Working /\ H5EntriesAlive
-----------------------------------------------------------------------------

\* A size of motion vectors is positive.
LEMMA H5Product ==
  ASSUME NEW a \in Nat, NEW b \in Nat
  PROVE  a * b * 160 + 1024 \in Nat \ {0}
<1>1. a * b \in Nat
  OBVIOUS
<1> DEFINE c == a * b
<1> HIDE DEF c
<1>2. c \in Nat
  BY <1>1 DEF c
<1>3. c * 160 + 1024 \in Nat \ {0}
  BY <1>2
<1> QED BY <1>3 DEF c

\* Motion vectors of every block size need memory.
LEMMA H5SizePositive ==
  ASSUME NEW ctb \in H5Ctb
  PROVE  H5MvSize(ctb) \in Nat \ {0}
<1>1. H5Width \in Nat /\ H5Height \in Nat /\ ctb \in {16, 32, 64}
  BY H5Assumption DEF H5Assumption
<1>2. DIV_ROUND_UP(H5Width, ctb) \in Nat /\ DIV_ROUND_UP(H5Height, ctb) \in Nat
  BY <1>1 DEF DIV_ROUND_UP
<1> HIDE DEF DIV_ROUND_UP
<1> QED BY <1>2, H5Product DEF H5MvSize

\* Sizes of motion vectors are numbers.
LEMMA H5SizesNat == H5Sizes \subseteq Nat
  BY H5SizePositive DEF H5Sizes

\* vb2_find_buffer finds one buffer, with the timestamp.
LEMMA H5FoundOnce ==
  ASSUME NEW pic, NEW t, NEW b \in H5Found(pic, t), NEW c \in H5Found(pic, t)
  PROVE  b = c /\ b \in H5Buf /\ pic[b].stamp = t
<1>1. b \in Nat /\ c \in Nat
  BY H5Assumption DEF H5Assumption, H5Found
<1> QED BY <1>1 DEF H5Found

\* cedrus_h265_setup for one slice: memory for the motion vectors, the entries of the
\* reference pictures and of the target, and the lists of the slice.
LEMMA H5RunKeeps ==
  ASSUME H5Inv, h5Job = H5Idle, h5Gen' = h5Gen,
         NEW b \in H5Buf, NEW t \in H5Stamps \ {0}, NEW dpb \in Seq(Nat), NEW ctb \in H5Ctb,
         H5Run(b, t, dpb, ctb),
         Len(dpb) <= V4L2_HEVC_DPB_ENTRIES_NUM_MAX,
         t \in h5Ran => h5Pic[b].mv > 0,
         \A c \in H5Buf \ {b} : h5Pic[c].stamp # t
  PROVE  /\ h5Pic' \in [H5Buf -> H5Pics] /\ h5Pic'[b].stamp = t
         /\ h5Pic'[b].mv = h5Pic[b].mv \/ (h5Pic[b].mv = 0 /\ h5Pic'[b].mv = H5MvSize(ctb))
         /\ \A c \in H5Buf \ {b} : h5Pic'[c] = h5Pic[c]
         /\ h5Ran' \subseteq h5Ran \cup {t}
         /\ \A c \in H5Buf : h5Pic'[c].stamp \in h5Ran' => h5Pic'[c].mv > 0
         /\ h5Sram' \in [H5Index -> H5Entries]
         /\ h5Job' # H5Idle =>
              /\ h5Job'.buf = b /\ h5Job'.ctb = ctb /\ h5Job'.lists \subseteq 0..(Len(h5Job'.dpb) - 1)
              /\ h5Pic'[b].mv > 0
         /\ H5EntriesAlive'
<1> DEFINE stamped == H5Stamped(b, t)
           full == H5Allocated(stamped, b, ctb)
<1>0. /\ h5Pic \in [H5Buf -> H5Pics] /\ h5Sram \in [H5Index -> H5Entries]
      /\ h5Gen \in Nat
  <2>1. h5Pic \in [H5Buf -> H5Pics] /\ h5Sram \in [H5Index -> H5Entries]
    BY DEF H5Inv, H5Shape
  <2>2. h5Gen \in Nat
    BY H5Assumption DEF H5Assumption, H5Inv, H5Shape
  <2> QED BY <2>1, <2>2
<1>1. /\ stamped \in [H5Buf -> H5Pics] /\ stamped[b].stamp = t /\ stamped[b].mv = h5Pic[b].mv
      /\ \A c \in H5Buf \ {b} : stamped[c] = h5Pic[c]
  BY <1>0 DEF H5Stamped, H5Pics
<1> HIDE DEF stamped
<1>2. H5MvSize(ctb) \in H5Sizes /\ H5MvSize(ctb) > 0 /\ H5MvSize(ctb) # 0
  BY H5SizePositive DEF H5Sizes
<1>3. /\ full \in [H5Buf -> H5Pics] /\ full[b].stamp = t
      /\ full[b].mv = (IF h5Pic[b].mv = 0 THEN H5MvSize(ctb) ELSE h5Pic[b].mv)
      /\ \A c \in H5Buf \ {b} : full[c] = h5Pic[c]
  <2> DEFINE r == [stamped[b] EXCEPT !.mv = IF @ = 0 THEN H5MvSize(ctb) ELSE @]
  <2>1. full = [stamped EXCEPT ![b] = r]
    BY DEF H5Allocated
  <2>2. stamped[b] \in H5Pics
    BY <1>1
  <2>3. /\ r \in H5Pics /\ r.stamp = t
        /\ r.mv = (IF h5Pic[b].mv = 0 THEN H5MvSize(ctb) ELSE h5Pic[b].mv)
    BY <1>1, <1>2, <2>2 DEF H5Pics
  <2> HIDE DEF full, r
  <2> QED BY <1>1, <2>1, <2>3
<1>4. full[b].mv > 0
  <2>1. h5Pic[b].mv \in Nat
    BY <1>0, H5SizesNat DEF H5Pics
  <2> QED BY <1>2, <1>3, <2>1
<1> HIDE DEF full
<1>5. \A c \in H5Buf : h5Pic[c].stamp \in h5Ran => h5Pic[c].mv > 0
  BY DEF H5Inv, H5Placed
<1>6. CASE H5Refused(b, t)
  <2>1. h5Pic' = stamped /\ h5Job' = H5Idle /\ h5Ran' = h5Ran /\ h5Sram' = h5Sram
    BY <1>6 DEF H5Refused, stamped
  <2>2. \A c \in H5Buf : h5Pic'[c].stamp \in h5Ran' => h5Pic'[c].mv > 0
    BY <1>1, <1>5, <2>1
  <2> QED BY <1>0, <1>1, <2>1, <2>2 DEF H5EntriesAlive
<1>7. CASE H5BadHeader(b, t, ctb)
  <2>1. h5Pic' = full /\ h5Job' = H5Idle /\ h5Ran' = h5Ran /\ h5Sram' = h5Sram
    BY <1>7 DEF H5BadHeader, stamped, full
  <2>2. \A c \in H5Buf : h5Pic'[c].stamp \in h5Ran' => h5Pic'[c].mv > 0
    BY <1>3, <1>4, <1>5, <2>1
  <2> QED BY <1>0, <1>3, <2>1, <2>2 DEF H5EntriesAlive
<1>8. ASSUME NEW lists \in SUBSET (0..(Len(dpb) - 1)), NEW field \in BOOLEAN,
             H5Start(b, t, dpb, lists, ctb, field)
      PROVE  /\ h5Pic' = full /\ h5Ran' = h5Ran \cup {t}
             /\ \A c \in H5Buf : h5Pic'[c].stamp \in h5Ran' => h5Pic'[c].mv > 0
             /\ h5Sram' \in [H5Index -> H5Entries]
             /\ h5Job'.buf = b /\ h5Job'.ctb = ctb /\ h5Job'.lists \subseteq 0..(Len(h5Job'.dpb) - 1)
             /\ H5EntriesAlive'
  <2>1. /\ h5Pic' = full /\ h5Ran' = h5Ran \cup {t}
        /\ h5Sram' = H5Written(full, b, dpb, field)
        /\ h5Job' = [buf |-> b, dpb |-> dpb, lists |-> lists, ctb |-> ctb]
    BY <1>8 DEF H5Start, stamped, full
  <2>2. \A c \in H5Buf : h5Pic'[c].stamp \in h5Ran' => h5Pic'[c].mv > 0
    BY <1>3, <1>4, <1>5, <2>1
  <2>3. \A c \in H5Buf : /\ H5Entry(full, c, field) \in H5Entries
                         /\ H5Entry(full, c, field).buf = c /\ H5Entry(full, c, field).gen = h5Gen
                         /\ H5Entry(full, c, field).mv = full[c].mv
    <3> SUFFICES ASSUME NEW c \in H5Buf
                 PROVE  /\ H5Entry(full, c, field) \in H5Entries
                        /\ H5Entry(full, c, field).buf = c /\ H5Entry(full, c, field).gen = h5Gen
                        /\ H5Entry(full, c, field).mv = full[c].mv
      OBVIOUS
    <3>1. full[c].mv \in Nat
      BY <1>3, H5SizesNat DEF H5Pics
    <3> QED BY <1>0, <3>1 DEF H5Entry, H5Entries
  <2>4. \A i \in H5Index :
          h5Sram'[i] = IF i = V4L2_HEVC_DPB_ENTRIES_NUM_MAX THEN H5Entry(full, b, field)
                       ELSE IF i < Len(dpb) /\ H5Found(full, dpb[i + 1]) # {}
                       THEN H5Entry(full, CHOOSE c \in H5Found(full, dpb[i + 1]) : TRUE, field)
                       ELSE h5Sram[i]
    BY <2>1 DEF H5Written
  <2>5. h5Sram' \in [H5Index -> H5Entries]
    <3>1. ASSUME NEW i \in H5Index PROVE h5Sram'[i] \in H5Entries
      <4>1. H5Found(full, dpb[i + 1]) # {} =>
              (CHOOSE c \in H5Found(full, dpb[i + 1]) : TRUE) \in H5Buf
        BY DEF H5Found
      <4> QED BY <1>0, <2>3, <2>4, <4>1
    <3>2. DOMAIN h5Sram' = H5Index /\ h5Sram' = [i \in H5Index |-> h5Sram'[i]]
      BY <2>1 DEF H5Written
    <3> QED BY <3>1, <3>2
  <2>6. /\ h5Job'.buf = b /\ h5Job'.ctb = ctb /\ h5Job'.dpb = dpb /\ h5Job'.lists = lists
    BY <2>1
  <2>7. V4L2_HEVC_DPB_ENTRIES_NUM_MAX \in H5Index
    BY DEF H5Index, V4L2_HEVC_DPB_ENTRIES_NUM_MAX
  <2>8. /\ h5Sram'[V4L2_HEVC_DPB_ENTRIES_NUM_MAX].buf = h5Job'.buf
        /\ h5Sram'[V4L2_HEVC_DPB_ENTRIES_NUM_MAX].mv > 0
    BY <1>4, <2>3, <2>4, <2>6, <2>7, ZenonT(60)
  <2>9. ASSUME NEW i \in lists, NEW c \in H5Found(full, dpb[i + 1])
        PROVE  /\ h5Sram'[i].buf = c /\ h5Sram'[i].gen = h5Gen
               /\ full[c].stamp \in h5Ran' => h5Sram'[i].mv > 0
    <3>1. i < Len(dpb) /\ i \in H5Index /\ i # V4L2_HEVC_DPB_ENTRIES_NUM_MAX
      <4> DEFINE n == Len(dpb)
      <4>1. n \in Nat /\ n <= 16
        BY DEF V4L2_HEVC_DPB_ENTRIES_NUM_MAX
      <4>2. i \in 0..(n - 1)
        OBVIOUS
      <4> HIDE DEF n
      <4>3. i < n /\ i \in 0..16 /\ i # 16
        BY <4>1, <4>2
      <4> QED BY <4>3 DEF H5Index, V4L2_HEVC_DPB_ENTRIES_NUM_MAX, n
    <3>2. c = CHOOSE d \in H5Found(full, dpb[i + 1]) : TRUE
      BY H5FoundOnce
    <3>3. c \in H5Buf
      BY DEF H5Found
    <3>4. h5Sram'[i] = H5Entry(full, c, field)
      BY <2>4, <3>1, <3>2
    <3> QED BY <2>1, <2>2, <2>3, <3>3, <3>4
  <2>10. H5EntriesAlive'
    BY <2>1, <2>6, <2>8, <2>9, ZenonT(60) DEF H5EntriesAlive
  <2> QED BY <2>1, <2>2, <2>5, <2>6, <2>10
<1>9. CASE \E lists \in SUBSET (0..(Len(dpb) - 1)), field \in BOOLEAN :
             H5Start(b, t, dpb, lists, ctb, field)
  <2>1. /\ h5Pic' = full /\ h5Ran' = h5Ran \cup {t}
        /\ \A c \in H5Buf : h5Pic'[c].stamp \in h5Ran' => h5Pic'[c].mv > 0
        /\ h5Sram' \in [H5Index -> H5Entries]
        /\ h5Job'.buf = b /\ h5Job'.ctb = ctb /\ h5Job'.lists \subseteq 0..(Len(h5Job'.dpb) - 1)
        /\ H5EntriesAlive'
    BY <1>8, <1>9
  <2> QED BY <1>3, <1>4, <2>1
<1> QED BY <1>6, <1>7, <1>9 DEF H5Run

\* A context that was just opened.
LEMMA H5InitOK == H5Init => H5Inv
<1> SUFFICES ASSUME H5Init PROVE H5Inv
  OBVIOUS
<1>0. H5MaxFrames \in Nat /\ H5MaxFreed \in Nat
  BY H5Assumption DEF H5Assumption
<1>1. /\ h5Pic = [b \in H5Buf |-> H5Fresh] /\ h5Gen = 0 /\ h5Sram = [i \in H5Index |-> H5Blank]
      /\ h5Frame = H5NoFrame /\ h5Job = H5Idle /\ h5Ran = {}
  BY DEF H5Init
<1>2. H5Fresh \in H5Pics /\ H5Fresh.stamp = 0 /\ H5Fresh.mv = 0
  BY <1>0 DEF H5Fresh, H5Pics, H5Stamps, H5Sizes
<1>3. H5Blank \in H5Entries
  BY DEF H5Blank, H5Entries
<1>4. /\ H5NoFrame \in H5Frames /\ H5NoFrame.stamp = 0 /\ H5NoFrame.dpb = <<>> /\ H5NoFrame.slices = 0
  <2>1. 0 \in H5Stamps /\ 0 \in H5Slices /\ <<>> \in Seq(Nat)
    BY <1>0 DEF H5Stamps, H5Slices
  <2> QED BY <2>1 DEF H5NoFrame, H5Frames
<1>5. h5Gen \in 0..H5MaxFreed
  BY <1>0, <1>1
<1>6. H5Shape
  BY <1>1, <1>2, <1>3, <1>4, <1>5 DEF H5Shape
<1>7. Len(h5Frame.dpb) = 0 /\ DOMAIN h5Frame.dpb = {}
  BY <1>1, <1>4
<1>8. H5Sent
  BY <1>1, <1>4, <1>7 DEF H5Sent, V4L2_HEVC_DPB_ENTRIES_NUM_MAX
<1>9. H5Placed /\ H5Uniform
  BY <1>1, <1>2, <1>4 DEF H5Placed, H5Uniform
<1> QED BY <1>1, <1>6, <1>8, <1>9 DEF H5Inv, H5Working, H5EntriesAlive

\* The first slice of a frame, into any buffer.
LEMMA H5FrameStartKeeps == H5Inv /\ H5FrameStart => H5Inv'
<1> SUFFICES ASSUME H5Inv, H5FrameStart PROVE H5Inv'
  OBVIOUS
<1> DEFINE t == h5Frame.stamp + 1
<1>1. PICK s \in {d \in SUBSET H5Known : Cardinality(d) <= H5MaxDpb}, b \in H5Buf, ctb \in H5Ctb :
      \E dpb \in H5Orders(s) :
        /\ h5Pic[b].stamp \notin s
        /\ H5Run(b, t, dpb, ctb)
        /\ h5Frame' = [stamp |-> t, buf |-> b, dpb |-> dpb, ctb |-> ctb, slices |-> 1,
                       mixed |-> (h5Frame.mixed \/ ((\E c \in H5Buf : h5Pic[c].mv # 0)
                                                    /\ ctb # h5Frame.ctb))]
  BY DEF H5FrameStart
<1>2. PICK dpb \in H5Orders(s) :
        /\ H5Run(b, t, dpb, ctb)
        /\ h5Frame' = [stamp |-> t, buf |-> b, dpb |-> dpb, ctb |-> ctb, slices |-> 1,
                       mixed |-> (h5Frame.mixed \/ ((\E c \in H5Buf : h5Pic[c].mv # 0)
                                                    /\ ctb # h5Frame.ctb))]
  BY <1>1
<1>3. h5Job = H5Idle /\ h5Gen' = h5Gen /\ h5Frame.stamp < H5MaxFrames
  BY DEF H5FrameStart
<1>4. h5Frame.stamp \in Nat /\ t \in H5Stamps \ {0} /\ h5Frame.stamp \in H5Stamps
  <2>1. h5Frame.stamp \in H5Stamps
    BY DEF H5Inv, H5Shape, H5Frames
  <2>2. h5Frame.stamp \in Nat /\ H5MaxFrames \in Nat
    BY <2>1, H5Assumption DEF H5Stamps, H5Assumption
  <2>3. t \in H5Stamps \ {0}
    BY <1>3, <2>2 DEF H5Stamps
  <2> QED BY <2>1, <2>2, <2>3
<1>5. H5Known \subseteq 1..h5Frame.stamp
  BY <1>4 DEF H5Inv, H5Sent, H5Known
<1>6. /\ dpb \in Seq(Nat) /\ Len(dpb) <= V4L2_HEVC_DPB_ENTRIES_NUM_MAX
      /\ \A i \in DOMAIN dpb : dpb[i] \in 1..h5Frame.stamp
  <2>1. IsFiniteSet(s)
    <3>1. s \subseteq 1..h5Frame.stamp
      BY <1>5
    <3>2. IsFiniteSet(1..h5Frame.stamp)
      BY <1>4, FS_Interval
    <3> QED BY <3>1, <3>2, FS_Subset
  <2>2. Cardinality(s) \in Nat /\ Cardinality(s) <= H5MaxDpb
    BY <2>1, FS_CardinalityType
  <2>3. dpb \in [1..Cardinality(s) -> s] /\ s \subseteq 1..h5Frame.stamp
    BY <1>5 DEF H5Orders
  <2>4. dpb \in [1..Cardinality(s) -> Nat]
    <3>1. s \subseteq Nat
      BY <1>4, <2>3
    <3> QED BY <2>3, <3>1
  <2>5. dpb \in Seq(Nat) /\ Len(dpb) = Cardinality(s)
    <3>1. \A k \in Nat : dpb \in [1..k -> Nat] => dpb \in Seq(Nat) /\ Len(dpb) = k
      OBVIOUS
    <3> QED BY <2>2, <2>4, <3>1
  <2>6. H5MaxDpb \in 0..16
    BY H5Assumption DEF H5Assumption
  <2>7. Len(dpb) <= V4L2_HEVC_DPB_ENTRIES_NUM_MAX
    BY <2>2, <2>5, <2>6 DEF V4L2_HEVC_DPB_ENTRIES_NUM_MAX
  <2> QED BY <2>3, <2>5, <2>7
<1>7. \A c \in H5Buf : h5Pic[c].stamp \in Nat /\ h5Pic[c].stamp <= h5Frame.stamp
  BY DEF H5Inv, H5Shape, H5Placed, H5Pics, H5Stamps
<1>8. t \notin h5Ran
  <2>1. h5Ran \subseteq 1..h5Frame.stamp
    BY DEF H5Inv, H5Shape
  <2> QED BY <1>4, <2>1
<1>9. \A c \in H5Buf : h5Pic[c].stamp # t
  BY <1>4, <1>7
<1> HIDE DEF t
<1>10. /\ h5Pic' \in [H5Buf -> H5Pics] /\ h5Pic'[b].stamp = t
       /\ h5Pic'[b].mv = h5Pic[b].mv \/ (h5Pic[b].mv = 0 /\ h5Pic'[b].mv = H5MvSize(ctb))
       /\ \A c \in H5Buf \ {b} : h5Pic'[c] = h5Pic[c]
       /\ h5Ran' \subseteq h5Ran \cup {t}
       /\ \A c \in H5Buf : h5Pic'[c].stamp \in h5Ran' => h5Pic'[c].mv > 0
       /\ h5Sram' \in [H5Index -> H5Entries]
       /\ h5Job' # H5Idle =>
            /\ h5Job'.buf = b /\ h5Job'.ctb = ctb /\ h5Job'.lists \subseteq 0..(Len(h5Job'.dpb) - 1)
            /\ h5Pic'[b].mv > 0
       /\ H5EntriesAlive'
  BY <1>2, <1>3, <1>4, <1>6, <1>8, <1>9, H5RunKeeps
<1>11. /\ h5Frame'.stamp = t /\ h5Frame'.buf = b /\ h5Frame'.dpb = dpb /\ h5Frame'.ctb = ctb
       /\ h5Frame'.slices = 1
       /\ h5Frame'.mixed = (h5Frame.mixed \/ ((\E c \in H5Buf : h5Pic[c].mv # 0) /\ ctb # h5Frame.ctb))
  BY <1>2
<1>12. h5Frame' \in H5Frames
  <2>1. 1 \in H5Slices
    BY DEF H5Slices
  <2> QED BY <1>2, <1>4, <1>6, <2>1 DEF H5Frames
<1>13. 1..h5Frame.stamp \subseteq 1..t /\ t \in 1..t /\ t \in Nat /\ t >= 1
  BY <1>4 DEF t
<1>14. H5Shape'
  <2>1. h5Ran' \subseteq 1..h5Frame'.stamp
    <3>1. h5Ran \subseteq 1..h5Frame.stamp
      BY DEF H5Inv, H5Shape
    <3> QED BY <1>10, <1>11, <1>13, <3>1
  <2>2. h5Gen' \in 0..H5MaxFreed
    BY <1>3 DEF H5Inv, H5Shape
  <2> QED BY <1>10, <1>12, <2>1, <2>2 DEF H5Shape
<1>15. H5Sent'
  BY <1>6, <1>11, <1>13 DEF H5Sent
<1>16. H5Placed'
  <2>1. \A c \in H5Buf \ {b} : h5Pic'[c].stamp < t
    BY <1>4, <1>7, <1>10 DEF t
  <2>2. \A c \in H5Buf : h5Pic'[c].stamp <= h5Frame'.stamp
    BY <1>7, <1>10, <1>11, <1>13, <2>1
  <2>3. \A c \in H5Buf : h5Pic'[c].stamp = t => c = b
    BY <1>13, <2>1
  <2> QED BY <1>10, <1>11, <2>2, <2>3 DEF H5Placed
<1>17. H5Uniform'
  <2> SUFFICES ASSUME ~h5Frame'.mixed, NEW c \in H5Buf
               PROVE  h5Pic'[c].mv \in {0, H5MvSize(ctb)}
    BY <1>11 DEF H5Uniform
  <2>1. h5Pic[c].mv \in {0, H5MvSize(h5Frame.ctb)}
    BY <1>11 DEF H5Inv, H5Uniform
  <2>2. h5Pic[c].mv # 0 => ctb = h5Frame.ctb
    BY <1>11
  <2> QED BY <1>10, <2>1, <2>2
<1>18. H5Working'
  BY <1>10, <1>11 DEF H5Working
<1> QED BY <1>10, <1>14, <1>15, <1>16, <1>17, <1>18 DEF H5Inv

\* A further slice of the frame, into the same buffer.
LEMMA H5NextSliceKeeps == H5Inv /\ H5NextSlice => H5Inv'
<1> SUFFICES ASSUME H5Inv, H5NextSlice PROVE H5Inv'
  OBVIOUS
<1> DEFINE b == h5Frame.buf
           t == h5Frame.stamp
           dpb == h5Frame.dpb
           ctb == h5Frame.ctb
<1>1. /\ h5Job = H5Idle /\ h5Frame.slices = 1 /\ h5Gen' = h5Gen
      /\ h5Pic[b].stamp = t /\ H5Run(b, t, dpb, ctb)
      /\ h5Frame' = [h5Frame EXCEPT !.slices = 2]
  BY DEF H5NextSlice
<1>2. h5Frame \in H5Frames
  BY DEF H5Inv, H5Shape
<1>3. b \in H5Buf /\ t \in H5Stamps \ {0} /\ ctb \in H5Ctb /\ t >= 1
  <2>1. t \in H5Stamps
    BY <1>2 DEF H5Frames
  <2>2. b \in H5Buf /\ t >= 1 /\ ctb \in H5Ctb
    BY <1>1 DEF H5Inv, H5Sent
  <2> QED BY <2>1, <2>2 DEF H5Stamps
<1>4. dpb \in Seq(Nat) /\ Len(dpb) <= V4L2_HEVC_DPB_ENTRIES_NUM_MAX
  BY <1>2 DEF H5Inv, H5Sent, H5Frames
<1>5. \A c \in H5Buf \ {b} : h5Pic[c].stamp # t
  BY <1>3 DEF H5Inv, H5Placed
<1>6. t \in h5Ran => h5Pic[b].mv > 0
  BY <1>1, <1>3 DEF H5Inv, H5Placed
<1> HIDE DEF b, t, dpb, ctb
<1>7. /\ h5Pic' \in [H5Buf -> H5Pics] /\ h5Pic'[b].stamp = t
      /\ h5Pic'[b].mv = h5Pic[b].mv \/ (h5Pic[b].mv = 0 /\ h5Pic'[b].mv = H5MvSize(ctb))
      /\ \A c \in H5Buf \ {b} : h5Pic'[c] = h5Pic[c]
      /\ h5Ran' \subseteq h5Ran \cup {t}
      /\ \A c \in H5Buf : h5Pic'[c].stamp \in h5Ran' => h5Pic'[c].mv > 0
      /\ h5Sram' \in [H5Index -> H5Entries]
      /\ h5Job' # H5Idle =>
           /\ h5Job'.buf = b /\ h5Job'.ctb = ctb /\ h5Job'.lists \subseteq 0..(Len(h5Job'.dpb) - 1)
           /\ h5Pic'[b].mv > 0
      /\ H5EntriesAlive'
  BY <1>1, <1>3, <1>4, <1>5, <1>6, H5RunKeeps
<1>8. /\ h5Frame' \in H5Frames /\ h5Frame'.stamp = t /\ h5Frame'.buf = b /\ h5Frame'.dpb = dpb
      /\ h5Frame'.ctb = ctb /\ h5Frame'.slices = 2 /\ h5Frame'.mixed = h5Frame.mixed
  <2>1. 2 \in H5Slices
    BY DEF H5Slices
  <2> QED BY <1>1, <1>2, <2>1 DEF H5Frames, b, t, dpb, ctb
<1>9. H5Shape'
  <2>1. h5Ran' \subseteq 1..h5Frame'.stamp
    <3>1. h5Ran \subseteq 1..t
      BY DEF H5Inv, H5Shape, t
    <3>2. t \in 1..t
      BY <1>3 DEF H5Stamps
    <3> QED BY <1>7, <1>8, <3>1, <3>2
  <2>2. h5Gen' \in 0..H5MaxFreed
    BY <1>1 DEF H5Inv, H5Shape
  <2> QED BY <1>7, <1>8, <2>1, <2>2 DEF H5Shape
<1>10. H5Sent'
  BY <1>8 DEF H5Inv, H5Sent, dpb, t
<1>11. H5Placed'
  <2>1. \A c \in H5Buf : h5Pic'[c].stamp = h5Pic[c].stamp
    BY <1>1, <1>7
  <2> QED BY <1>5, <1>7, <1>8, <2>1 DEF H5Inv, H5Placed, t
<1>12. H5Uniform'
  <2> SUFFICES ASSUME ~h5Frame'.mixed, NEW c \in H5Buf
               PROVE  h5Pic'[c].mv \in {0, H5MvSize(ctb)}
    BY <1>8 DEF H5Uniform
  <2>1. h5Pic[c].mv \in {0, H5MvSize(ctb)}
    BY <1>8 DEF H5Inv, H5Uniform, ctb
  <2> QED BY <1>7, <2>1
<1>13. H5Working'
  BY <1>3, <1>7, <1>8 DEF H5Working
<1> QED BY <1>7, <1>9, <1>10, <1>11, <1>12, <1>13 DEF H5Inv

\* Capture buffers are freed, with the memory of their motion vectors.
LEMMA H5FreedKeeps == H5Inv /\ H5BuffersFreed => H5Inv'
<1> SUFFICES ASSUME H5Inv, H5BuffersFreed PROVE H5Inv'
  OBVIOUS
<1>1. /\ h5Job = H5Idle /\ h5Job' = h5Job /\ h5Gen < H5MaxFreed /\ h5Gen' = h5Gen + 1
      /\ h5Pic' = [b \in H5Buf |-> H5Fresh]
      /\ h5Frame' = [h5Frame EXCEPT !.mixed = FALSE]
      /\ h5Sram' = h5Sram /\ h5Ran' = h5Ran
  BY DEF H5BuffersFreed
<1>2. H5Fresh \in H5Pics /\ H5Fresh.stamp = 0 /\ H5Fresh.mv = 0
  <2>1. 0 \in H5Stamps
    BY H5Assumption DEF H5Assumption, H5Stamps
  <2> QED BY <2>1 DEF H5Fresh, H5Pics, H5Sizes
<1>3. h5Frame \in H5Frames /\ h5Ran \subseteq 1..h5Frame.stamp
  BY DEF H5Inv, H5Shape
<1>4. /\ h5Frame' \in H5Frames /\ h5Frame'.stamp = h5Frame.stamp /\ h5Frame'.buf = h5Frame.buf
      /\ h5Frame'.dpb = h5Frame.dpb /\ h5Frame'.ctb = h5Frame.ctb
      /\ h5Frame'.slices = h5Frame.slices
  BY <1>1, <1>3 DEF H5Frames
<1>5. \A b \in H5Buf : h5Pic'[b].stamp = 0 /\ h5Pic'[b].mv = 0
  BY <1>1, <1>2
<1>6. H5Shape'
  <2>1. h5Gen' \in 0..H5MaxFreed
    BY <1>1, H5Assumption DEF H5Assumption, H5Inv, H5Shape
  <2>2. h5Pic' \in [H5Buf -> H5Pics]
    BY <1>1, <1>2
  <2>3. h5Sram' \in [H5Index -> H5Entries]
    BY <1>1 DEF H5Inv, H5Shape
  <2>4. h5Ran' \subseteq 1..h5Frame'.stamp
    BY <1>1, <1>3, <1>4
  <2> QED BY <1>4, <2>1, <2>2, <2>3, <2>4 DEF H5Shape
<1>7. H5Sent'
  BY <1>4 DEF H5Inv, H5Sent
<1>8. H5Placed' /\ H5Uniform'
  <2>1. h5Frame.stamp \in Nat /\ 0 \notin h5Ran
    <3>1. h5Frame.stamp \in H5Stamps
      BY <1>3 DEF H5Frames
    <3> QED BY <1>3, <3>1 DEF H5Stamps
  <2>2. H5Uniform'
    BY <1>5 DEF H5Uniform
  <2>3. H5Placed'
    BY <1>1, <1>4, <1>5, <2>1 DEF H5Placed
  <2> QED BY <2>2, <2>3
<1> QED BY <1>1, <1>6, <1>7, <1>8 DEF H5Inv, H5Working, H5EntriesAlive

\* Every step of the decoder keeps the invariant.
LEMMA H5StepKeeps == H5Inv /\ [H5Next]_h5Vars => H5Inv'
<1> SUFFICES ASSUME H5Inv, [H5Next]_h5Vars PROVE H5Inv'
  OBVIOUS
<1>1. CASE UNCHANGED h5Vars
  BY <1>1 DEF H5Inv, H5Shape, H5Sent, H5Placed, H5Uniform, H5Working, H5EntriesAlive, h5Vars
<1>2. CASE H5JobEnd
  BY <1>2 DEF H5JobEnd, H5Inv, H5Shape, H5Sent, H5Placed, H5Uniform, H5Working, H5EntriesAlive
<1> QED BY <1>1, <1>2, H5FrameStartKeeps, H5NextSliceKeeps, H5FreedKeeps DEF H5Next

\* The inductive invariant of the H.265 decoder, for any buffers, DPBs, picture sizes and
\* length of the stream: memory of motion vectors is there and large enough, and every
\* entry a list of the slice refers to is of a picture whose memory is still allocated.
THEOREM H265Inductive == H5Spec => []H5Inv
  BY H5InitOK, H5StepKeeps, PTL DEF H5Spec

\* The invariant implies the types.
LEMMA H5InvTyped == H5Inv => H5TypeOK
<1> SUFFICES ASSUME H5Inv PROVE H5TypeOK
  OBVIOUS
<1>1. h5Frame \in H5Frames /\ h5Ran \subseteq 1..h5Frame.stamp
  BY DEF H5Inv, H5Shape
<1>2. h5Frame.stamp \in 0..H5MaxFrames /\ h5Frame.slices \in 0..2 /\ h5Frame.ctb \in H5Ctb \cup {16}
  BY <1>1 DEF H5Frames, H5Stamps, H5Slices
<1>3. h5Ran \subseteq 1..H5MaxFrames
  <2>1. 1..h5Frame.stamp \subseteq 1..H5MaxFrames
    BY <1>2, H5Assumption DEF H5Assumption
  <2> QED BY <1>1, <2>1
<1>4. h5Pic \in [H5Buf -> [stamp : 0..H5MaxFrames, mv : {0} \cup {H5MvSize(c) : c \in H5Ctb}]]
  BY DEF H5Inv, H5Shape, H5Pics, H5Stamps, H5Sizes
<1>5. h5Gen \in 0..H5MaxFreed
  BY DEF H5Inv, H5Shape
<1>6. h5Sram \in [H5Index -> [buf : H5Buf \cup {0}, gen : Nat, mv : Nat, field : BOOLEAN]]
  BY DEF H5Inv, H5Shape, H5Entries
<1>7. h5Job = H5Idle \/ (h5Job.buf \in H5Buf /\ h5Job.lists \subseteq 0..(Len(h5Job.dpb) - 1))
  BY DEF H5Inv, H5Working
<1> QED BY <1>2, <1>3, <1>4, <1>5, <1>6, <1>7 DEF H5TypeOK

\* The invariant implies that motion vectors fit, unless the block size changed.
LEMMA H5InvFits == H5Inv => H5MotionVectorsFit
<1> SUFFICES ASSUME H5Inv, h5Job # H5Idle, ~h5Frame.mixed
             PROVE  h5Pic[h5Job.buf].mv >= H5MvSize(h5Job.ctb)
  BY DEF H5MotionVectorsFit
<1>1. h5Job.buf \in H5Buf /\ h5Job.ctb = h5Frame.ctb /\ h5Pic[h5Job.buf].mv > 0
  BY DEF H5Inv, H5Working
<1>2. h5Pic[h5Job.buf].mv \in {0, H5MvSize(h5Frame.ctb)}
  BY <1>1 DEF H5Inv, H5Uniform
<1>3. h5Pic[h5Job.buf].mv \in Nat
  BY <1>1, H5SizesNat DEF H5Inv, H5Shape, H5Pics
<1> QED BY <1>1, <1>2, <1>3
-----------------------------------------------------------------------------
(* The tiles and slice headers of H.265, and its areas of the SRAM. *)

\* A list of sizes of tiles, at least one, none of them empty.
Sizing(sizes, n) == n \in Nat \ {0} /\ sizes \in [1..n -> Nat \ {0}] /\ Len(sizes) = n

\* Where the tiles of a list of sizes start: the running sums of the sizes.
LEMMA TileStarts ==
  ASSUME NEW sizes, NEW n, Sizing(sizes, n)
  PROVE  /\ H5TileStart(sizes, 0) = 0
         /\ \A i \in 0..n : H5TileStart(sizes, i) \in Nat
         /\ \A i \in 1..n : H5TileStart(sizes, i) = H5TileStart(sizes, i - 1) + sizes[i]
<1>1. n \in Nat /\ sizes \in [1..n -> Nat] /\ Len(sizes) = n
  BY DEF Sizing
<1> DEFINE f == CHOOSE g : g = [i \in 0..n |-> IF i = 0 THEN 0 ELSE g[i - 1] + sizes[i]]
<1>2. \A k : H5TileStart(sizes, k) = f[k]
  BY <1>1 DEF H5TileStart
<1>3. f = CHOOSE g : SumEquation(g, sizes, n)
  BY DEF SumEquation
<1> HIDE DEF f
<1>4. RunningSums(f, sizes, n)
  BY <1>1, <1>3, RunningSum
<1>5. f \in [0..n -> Nat] /\ f[0] = 0 /\ \A i \in 1..n : f[i] = f[i - 1] + sizes[i]
  BY <1>4 DEF RunningSums
<1>6. QED BY <1>2, <1>5

\* A later tile starts later.
LEMMA TileStartsGrow ==
  ASSUME NEW sizes, NEW n, Sizing(sizes, n), NEW i \in 0..n, NEW j \in 0..n, i < j
  PROVE  H5TileStart(sizes, i) < H5TileStart(sizes, j)
<1> DEFINE s(k) == H5TileStart(sizes, k)
           S == {d \in Nat : i + 1 + d <= n => s(i) < s(i + 1 + d)}
<1>1. n \in Nat /\ \A k \in 1..n : sizes[k] \in Nat \ {0}
  BY DEF Sizing
<1>2. /\ \A k \in 0..n : s(k) \in Nat
      /\ \A k \in 1..n : s(k) = s(k - 1) + sizes[k]
  BY TileStarts
<1> HIDE DEF s
<1>3. \A k \in 1..n : s(k - 1) < s(k)
  <2> SUFFICES ASSUME NEW k \in 1..n PROVE s(k - 1) < s(k)
    OBVIOUS
  <2>1. k - 1 \in 0..n
    BY <1>1
  <2>2. s(k - 1) \in Nat /\ sizes[k] \in Nat \ {0} /\ s(k) = s(k - 1) + sizes[k]
    BY <1>1, <1>2, <2>1
  <2>3. QED BY <2>2
<1>4. 0 \in S
  <2> SUFFICES ASSUME i + 1 + 0 <= n PROVE s(i) < s(i + 1 + 0)
    OBVIOUS
  <2>1. i + 1 \in 1..n /\ (i + 1) - 1 = i /\ i + 1 + 0 = i + 1
    BY <1>1
  <2>2. QED BY <2>1, <1>3
<1>5. ASSUME NEW d \in Nat, d \in S PROVE d + 1 \in S
  <2> SUFFICES ASSUME i + 1 + (d + 1) <= n PROVE s(i) < s(i + 1 + (d + 1))
    OBVIOUS
  <2> DEFINE k == i + 1 + (d + 1)
  <2>1. k \in 1..n /\ k - 1 = i + 1 + d /\ i + 1 + d <= n /\ k \in 0..n /\ i + 1 + d \in 0..n
    BY <1>1
  <2>2. s(i) < s(i + 1 + d)
    BY <1>5, <2>1
  <2>3. s(k - 1) < s(k)
    BY <1>3, <2>1
  <2>4. s(i) \in Nat /\ s(k) \in Nat /\ s(i + 1 + d) \in Nat
    BY <1>2, <2>1
  <2> HIDE DEF k
  <2>5. s(i) < s(k)
    BY <2>1, <2>2, <2>3, <2>4
  <2>6. QED BY <2>5 DEF k
<1> HIDE DEF S
<1>6. Nat \subseteq S
  BY <1>4, <1>5, Induction
<1>7. j - i - 1 \in Nat /\ i + 1 + (j - i - 1) = j /\ j <= n
  BY <1>1
<1>8. j - i - 1 \in S
  BY <1>6, <1>7
<1>9. s(i) < s(j)
  BY <1>7, <1>8 DEF S
<1>10. QED BY <1>9 DEF s

\* The tile of a coding tree block is the one whose range it is in.
LEMMA TileFound ==
  ASSUME NEW sizes, NEW n, Sizing(sizes, n), NEW k \in 0..(n - 1), NEW ctb \in Nat,
         H5TileStart(sizes, k) <= ctb, ctb < H5TileStart(sizes, k + 1)
  PROVE  H5TileOf(sizes, ctb) = k
<1> DEFINE s(i) == H5TileStart(sizes, i)
           Is(i) == s(i + 1) > ctb /\ \A j \in 0..(i - 1) : s(j + 1) <= ctb
<1>1. n \in Nat \ {0} /\ Len(sizes) = n
  BY DEF Sizing
<1>2. H5TileOf(sizes, ctb) = CHOOSE i \in 0..(n - 1) : Is(i)
  BY <1>1 DEF H5TileOf
<1>3. /\ \A i \in 0..n : s(i) \in Nat
      /\ \A i, j \in 0..n : i < j => s(i) < s(j)
  BY TileStarts, TileStartsGrow
<1>4. s(k) <= ctb /\ ctb < s(k + 1)
  OBVIOUS
<1> HIDE DEF s
<1>5. Is(k)
  <2>1. ASSUME NEW j \in 0..(k - 1) PROVE s(j + 1) <= ctb
    <3>1. j + 1 \in 0..n /\ k \in 0..n /\ (j + 1 = k \/ j + 1 < k)
      BY <1>1
    <3>2. s(j + 1) <= s(k)
      BY <3>1, <1>3
    <3>3. QED BY <3>1, <3>2, <1>3, <1>4
  <2>2. k + 1 \in 0..n
    BY <1>1
  <2>3. QED BY <2>1, <2>2, <1>3, <1>4
<1>6. ASSUME NEW i \in 0..(n - 1), Is(i) PROVE i = k
  <2>1. ASSUME i < k PROVE FALSE
    <3>1. i + 1 \in 0..n /\ k \in 0..n /\ (i + 1 = k \/ i + 1 < k)
      BY <1>1, <2>1
    <3>2. s(i + 1) <= s(k)
      BY <3>1, <1>3
    <3>3. QED BY <3>1, <3>2, <1>3, <1>4, <1>6
  <2>2. ASSUME k < i PROVE FALSE
    <3>1. k \in 0..(i - 1) /\ k + 1 \in 0..n
      BY <1>1, <2>2
    <3>2. QED BY <3>1, <1>3, <1>4, <1>6
  <2>3. QED BY <1>1, <2>1, <2>2
<1> HIDE DEF Is
<1>7. QED BY <1>2, <1>5, <1>6

\* One step of the walk, as the code takes it.
WalkStep(cols, rows, p) ==
  IF p.tx + 1 >= Len(cols)
  THEN [tx |-> 0, ty |-> p.ty + 1, x |-> 0, y |-> p.y + rows[p.ty + 1]]
  ELSE [p EXCEPT !.tx = p.tx + 1, !.x = p.x + cols[p.tx + 1]]

\* The equation of the recursive walk of n steps.
WalkEquation(w, cols, rows, first, n) ==
  w = [i \in 0..n |-> IF i = 0 THEN first ELSE WalkStep(cols, rows, w[i - 1])]

\* Tile j of a picture, in raster order, and where it starts.
TileAt(cols, rows, c, j) ==
  [tx |-> j % c, ty |-> j \div c,
   x |-> H5TileStart(cols, j % c), y |-> H5TileStart(rows, j \div c)]

\* A step of the walk goes from a tile to the next one.
LEMMA WalkStepNext ==
  ASSUME NEW cols, NEW rows, NEW c, NEW r, Sizing(cols, c), Sizing(rows, r),
         NEW j \in Nat, (j + 1) \div c < r
  PROVE  WalkStep(cols, rows, TileAt(cols, rows, c, j)) = TileAt(cols, rows, c, j + 1)
<1> DEFINE p == TileAt(cols, rows, c, j)
           t == j % c
           u == j \div c
<1>1. /\ c \in Nat \ {0} /\ r \in Nat \ {0} /\ Len(cols) = c
      /\ t \in 0..(c - 1) /\ u \in Nat
      /\ t + 1 >= c => (j + 1) % c = 0 /\ (j + 1) \div c = u + 1
      /\ t + 1 < c => (j + 1) % c = t + 1 /\ (j + 1) \div c = u
  BY NextTile DEF Sizing
<1>2. p = [tx |-> t, ty |-> u, x |-> H5TileStart(cols, t), y |-> H5TileStart(rows, u)]
  BY DEF TileAt
<1>3. TileAt(cols, rows, c, j + 1)
        = [tx |-> (j + 1) % c, ty |-> (j + 1) \div c,
           x |-> H5TileStart(cols, (j + 1) % c), y |-> H5TileStart(rows, (j + 1) \div c)]
  BY DEF TileAt
<1> HIDE DEF p, t, u
<1>4. CASE t + 1 >= c
  <2>1. u + 1 \in 1..r /\ (u + 1) - 1 = u
    BY <1>1, <1>4
  <2>2. H5TileStart(rows, u + 1) = H5TileStart(rows, u) + rows[u + 1]
    BY <2>1, TileStarts
  <2>3. H5TileStart(cols, 0) = 0
    BY TileStarts
  <2>4. WalkStep(cols, rows, p)
          = [tx |-> 0, ty |-> u + 1, x |-> 0, y |-> H5TileStart(rows, u) + rows[u + 1]]
    BY <1>1, <1>2, <1>4 DEF WalkStep
  <2>5. QED BY <1>1, <1>3, <1>4, <2>2, <2>3, <2>4 DEF p
<1>5. CASE ~(t + 1 >= c)
  <2>1. t + 1 \in 1..c /\ (t + 1) - 1 = t /\ t + 1 < c
    BY <1>1, <1>5
  <2>2. H5TileStart(cols, t + 1) = H5TileStart(cols, t) + cols[t + 1]
    BY <2>1, TileStarts
  <2>3. WalkStep(cols, rows, p)
          = [tx |-> t + 1, ty |-> u, x |-> H5TileStart(cols, t) + cols[t + 1],
             y |-> H5TileStart(rows, u)]
    BY <1>1, <1>2, <1>5 DEF WalkStep
  <2>4. QED BY <1>1, <1>3, <2>1, <2>2, <2>3 DEF p
<1>6. QED BY <1>4, <1>5

\* The walk over n tiles that follow tile k.
IsWalk(w, cols, rows, c, k, n) ==
  w = CHOOSE v : WalkEquation(v, cols, rows, TileAt(cols, rows, c, k), n)

\* The walk visits the tiles in order.
LEMMA WalkVisits ==
  ASSUME NEW cols, NEW rows, NEW c, NEW r, Sizing(cols, c), Sizing(rows, r),
         NEW k \in Nat, NEW n \in Nat, (k + n) \div c < r,
         NEW w, IsWalk(w, cols, rows, c, k, n)
  PROVE  \A i \in 0..n : w[i] = TileAt(cols, rows, c, k + i)
<1> DEFINE at(j) == TileAt(cols, rows, c, j)
           v == [i \in 0..n |-> at(k + i)]
<1>1. c \in Nat \ {0} /\ r \in Nat \ {0}
  BY DEF Sizing
<1>2. ASSUME NEW j \in Nat, j < k + n PROVE WalkStep(cols, rows, at(j)) = at(j + 1)
  <2> DEFINE a == (j + 1) \div c
             b == (k + n) \div c
  <2>1. j + 1 \in Nat /\ k + n \in Nat /\ j + 1 <= k + n
    BY <1>2
  <2>2. a \in Nat /\ b \in Nat /\ c * a <= j + 1 /\ k + n < c * b + c
    BY <2>1, <1>1, QuotientBounds
  <2>3. b < r
    OBVIOUS
  <2> HIDE DEF a, b
  <2>4. a < r
    <3>1. SUFFICES ASSUME r <= a PROVE FALSE
      BY <1>1, <2>2
    <3>2. b + 1 <= a
      BY <1>1, <2>2, <2>3, <3>1
    <3>3. (b + 1) * c <= a * c /\ (b + 1) * c = c * b + c /\ a * c = c * a
      BY <3>2, <2>2, <1>1, ProductMonotone
    <3>4. c * a \in Nat /\ c * b \in Nat
      BY <2>2, <1>1, ProductInNat
    <3> DEFINE ca == c * a
               cb == c * b
    <3>5. cb + c <= ca
      BY <3>3
    <3>6. ca \in Nat /\ cb \in Nat /\ ca <= j + 1 /\ k + n < cb + c
      BY <2>2, <3>4
    <3> HIDE DEF ca, cb
    <3>7. QED BY <1>1, <2>1, <3>5, <3>6
  <2>5. QED BY <2>4, WalkStepNext DEF a
<1> HIDE DEF at
<1>3. WalkEquation(v, cols, rows, at(k), n)
  <2>1. ASSUME NEW i \in 1..n PROVE at(k + i) = WalkStep(cols, rows, v[i - 1])
    <3>1. k + (i - 1) \in Nat /\ k + (i - 1) < k + n /\ (k + (i - 1)) + 1 = k + i /\ i - 1 \in 0..n
      OBVIOUS
    <3>2. v[i - 1] = at(k + (i - 1))
      BY <3>1
    <3>3. WalkStep(cols, rows, at(k + (i - 1))) = at((k + (i - 1)) + 1)
      BY <3>1, <1>2
    <3>4. QED BY <3>1, <3>2, <3>3
  <2>2. k + 0 = k
    OBVIOUS
  <2> DEFINE step(i) == WalkStep(cols, rows, v[i - 1])
  <2>3. \A i \in 0..n : at(k + i) = IF i = 0 THEN at(k) ELSE step(i)
    <3>1. \A i \in 1..n : at(k + i) = step(i)
      BY <2>1
    <3> HIDE DEF step
    <3>2. \A i \in 0..n : i = 0 \/ i \in 1..n
      OBVIOUS
    <3>3. QED BY <2>2, <3>1, <3>2
  <2>4. v = [i \in 0..n |-> IF i = 0 THEN at(k) ELSE WalkStep(cols, rows, v[i - 1])]
    BY <2>3
  <2> HIDE DEF v
  <2>5. QED BY <2>4 DEF WalkEquation
<1> HIDE DEF v
<1>4. WalkEquation(w, cols, rows, at(k), n)
  BY <1>3 DEF at, IsWalk
<1>5. /\ w[0] = at(k)
      /\ \A i \in 1..n : w[i] = WalkStep(cols, rows, w[i - 1])
  <2> DEFINE body(i) == IF i = 0 THEN at(k) ELSE WalkStep(cols, rows, w[i - 1])
  <2>1. \A i \in 0..n : w[i] = body(i)
    <3> HIDE DEF body
    <3>1. w = [i \in 0..n |-> body(i)]
      BY <1>4 DEF body, WalkEquation
    <3>2. QED BY <3>1
  <2>2. 0 \in 0..n /\ \A i \in 1..n : i \in 0..n /\ i # 0
    OBVIOUS
  <2>3. QED BY <2>1, <2>2
<1> DEFINE S == {i \in Nat : i <= n => w[i] = at(k + i)}
<1>6. 0 \in S
  BY <1>5
<1>7. ASSUME NEW i \in Nat, i \in S PROVE i + 1 \in S
  <2> SUFFICES ASSUME i + 1 <= n PROVE w[i + 1] = at(k + (i + 1))
    OBVIOUS
  <2>1. w[i] = at(k + i) /\ i + 1 \in 1..n /\ (i + 1) - 1 = i
    BY <1>7
  <2>2. w[i + 1] = WalkStep(cols, rows, at(k + i))
    BY <2>1, <1>5
  <2>3. k + i \in Nat /\ k + i < k + n /\ (k + i) + 1 = k + (i + 1)
    OBVIOUS
  <2>4. WalkStep(cols, rows, at(k + i)) = at((k + i) + 1)
    BY <2>3, <1>2
  <2>5. QED BY <2>2, <2>3, <2>4
<1> HIDE DEF S
<1>8. Nat \subseteq S
  BY <1>6, <1>7, Induction
<1>9. ASSUME NEW i \in 0..n PROVE w[i] = at(k + i)
  <2>1. i \in Nat /\ i <= n
    OBVIOUS
  <2>2. i \in S
    BY <1>8, <2>1
  <2>3. QED BY <2>1, <2>2 DEF S
<1>10. QED BY <1>9 DEF at

\* What H5TilesWalked says of one tiling and one first tile.
TilingWalked(cols, rows, k) ==
  LET tile(j) == <<j % Len(cols), j \div Len(cols)>>
      last == Len(cols) * Len(rows) - 1 - k
      walk == H5Walk(cols, rows, H5TileStart(cols, tile(k)[1] + 1) - 1,
                     H5TileStart(rows, tile(k)[2]), last)
  IN  \A i \in 0..last :
        walk[i] = [start |-> <<H5TileStart(cols, tile(k + i)[1]), H5TileStart(rows, tile(k + i)[2])>>,
                   end |-> <<H5TileStart(cols, tile(k + i)[1] + 1) - 1,
                             H5TileStart(rows, tile(k + i)[2] + 1) - 1>>]

\* A tile of the picture is in one of its rows.
LEMMA TileInRow ==
  ASSUME NEW c \in Nat \ {0}, NEW r \in Nat \ {0}, NEW j \in Nat, j <= c * r - 1
  PROVE  j \div c < r
<1> DEFINE q == j \div c
           p == c * r
<1>1. q \in Nat /\ c * q <= j
  BY QuotientBounds
<1> HIDE DEF q
<1>2. SUFFICES ASSUME r <= q PROVE FALSE
  BY <1>1 DEF q
<1>3. c * r <= c * q
  <2>1. r * c <= q * c
    BY <1>1, <1>2, ProductMonotone
  <2>2. QED BY <1>1, <2>1
<1>4. p \in Nat /\ j <= p - 1
  BY ProductInNat
<1> DEFINE s == c * q
<1>5. s \in Nat /\ p <= s /\ s <= j
  BY <1>1, <1>3, ProductInNat
<1> HIDE DEF p, s
<1>6. QED BY <1>4, <1>5

\* Whatever the tiling of the picture and the first tile of the slice, the
\* entry points walk the tiles after it in raster order.
LEMMA AnyTilingWalked ==
  ASSUME NEW cols, NEW rows, NEW c, NEW r, Sizing(cols, c), Sizing(rows, r),
         NEW k \in 0..(c * r - 1)
  PROVE  TilingWalked(cols, rows, k)
<1> DEFINE n == c * r - 1 - k
           at(j) == TileAt(cols, rows, c, j)
           x0 == H5TileStart(cols, (k % c) + 1) - 1
           y0 == H5TileStart(rows, k \div c)
           tx0 == H5TileOf(cols, x0)
           ty0 == H5TileOf(rows, y0)
           first == [tx |-> tx0, ty |-> ty0, x |-> H5TileStart(cols, tx0), y |-> H5TileStart(rows, ty0)]
           w == CHOOSE v : WalkEquation(v, cols, rows, first, n)
<1>1. c \in Nat \ {0} /\ r \in Nat \ {0} /\ Len(cols) = c /\ Len(rows) = r /\ c * r \in Nat
  BY ProductInNat DEF Sizing
<1>2. k \in Nat /\ k <= c * r - 1 /\ n \in Nat /\ k + n = c * r - 1
  BY <1>1
<1> HIDE DEF n
<1>3. ASSUME NEW j \in Nat, j <= k + n
      PROVE  j % c \in 0..(c - 1) /\ j \div c \in 0..(r - 1)
  <2>1. j \div c < r
    BY <1>1, <1>2, <1>3, TileInRow
  <2>2. j % c \in 0..(c - 1) /\ j \div c \in Nat
    BY <1>1, NextTile
  <2>3. QED BY <1>1, <2>1, <2>2
<1>4. k % c \in 0..(c - 1) /\ k \div c \in 0..(r - 1)
  BY <1>2, <1>3
<1>5. tx0 = k % c
  <2> DEFINE t == k % c
  <2>1. t \in 0..(c - 1) /\ t \in 0..c /\ t + 1 \in 0..c /\ t < t + 1
    BY <1>1, <1>4
  <2> HIDE DEF t
  <2>2. H5TileStart(cols, t) \in Nat /\ H5TileStart(cols, t + 1) \in Nat
        /\ H5TileStart(cols, t) < H5TileStart(cols, t + 1)
    BY <2>1, TileStarts, TileStartsGrow
  <2> DEFINE b == H5TileStart(cols, t + 1) - 1
  <2>3. b \in Nat /\ H5TileStart(cols, t) <= b /\ b < H5TileStart(cols, t + 1)
    BY <2>2
  <2> HIDE DEF b
  <2>4. H5TileOf(cols, b) = t
    BY <2>1, <2>3, TileFound
  <2>5. QED BY <2>4 DEF b, t
<1>6. ty0 = k \div c
  <2> DEFINE t == k \div c
  <2>1. t \in 0..(r - 1) /\ t \in 0..r /\ t + 1 \in 0..r /\ t < t + 1
    BY <1>1, <1>4
  <2> HIDE DEF t
  <2>2. H5TileStart(rows, t) \in Nat /\ H5TileStart(rows, t) < H5TileStart(rows, t + 1)
    BY <2>1, TileStarts, TileStartsGrow
  <2>3. H5TileOf(rows, H5TileStart(rows, t)) = t
    BY <2>1, <2>2, TileFound
  <2>4. QED BY <2>3 DEF t
<1>7. first = at(k)
  BY <1>5, <1>6 DEF TileAt
<1> HIDE DEF tx0, ty0
<1>8. H5Walk(cols, rows, x0, y0, n)
        = [i \in 0..n |->
             [start |-> <<w[i].x, w[i].y>>,
              end |-> <<w[i].x + cols[w[i].tx + 1] - 1, w[i].y + rows[w[i].ty + 1] - 1>>]]
  BY DEF H5Walk, WalkEquation, WalkStep, tx0, ty0
<1> HIDE DEF first, x0, y0
<1>9. \A i \in 0..n : w[i] = at(k + i)
  <2>1. IsWalk(w, cols, rows, c, k, n)
    BY <1>7 DEF IsWalk
  <2>2. k + n \in Nat /\ k + n <= k + n
    BY <1>2
  <2>3. (k + n) \div c < r
    BY <1>1, <1>2, <2>2, TileInRow
  <2> HIDE DEF w, at
  <2>4. QED BY <1>2, <2>1, <2>3, WalkVisits DEF at
<1> HIDE DEF w
<1>10. ASSUME NEW i \in 0..n
       PROVE  H5Walk(cols, rows, x0, y0, n)[i]
                = [start |-> <<H5TileStart(cols, (k + i) % c), H5TileStart(rows, (k + i) \div c)>>,
                   end |-> <<H5TileStart(cols, ((k + i) % c) + 1) - 1,
                             H5TileStart(rows, (k + i) \div c + 1) - 1>>]
  <2> DEFINE t == (k + i) % c
             u == (k + i) \div c
  <2>1. k + i \in Nat /\ k + i <= k + n
    BY <1>2
  <2>2. t \in 0..(c - 1) /\ u \in 0..(r - 1)
    BY <2>1, <1>3
  <2>3. w[i] = [tx |-> t, ty |-> u, x |-> H5TileStart(cols, t), y |-> H5TileStart(rows, u)]
    BY <1>9 DEF TileAt
  <2> HIDE DEF t, u
  <2>4. H5Walk(cols, rows, x0, y0, n)[i]
          = [start |-> <<H5TileStart(cols, t), H5TileStart(rows, u)>>,
             end |-> <<H5TileStart(cols, t) + cols[t + 1] - 1, H5TileStart(rows, u) + rows[u + 1] - 1>>]
    BY <1>8, <2>3
  <2>5. H5TileStart(cols, t) + cols[t + 1] - 1 = H5TileStart(cols, t + 1) - 1
    <3>1. t + 1 \in 1..c /\ (t + 1) - 1 = t /\ t \in 0..c
      BY <1>1, <2>2
    <3>2. H5TileStart(cols, t + 1) = H5TileStart(cols, t) + cols[t + 1]
      BY <3>1, TileStarts
    <3>3. H5TileStart(cols, t) \in Nat /\ cols[t + 1] \in Nat
      BY <3>1, TileStarts DEF Sizing
    <3>4. QED BY <3>2, <3>3
  <2>6. H5TileStart(rows, u) + rows[u + 1] - 1 = H5TileStart(rows, u + 1) - 1
    <3>1. u + 1 \in 1..r /\ (u + 1) - 1 = u /\ u \in 0..r
      BY <1>1, <2>2
    <3>2. H5TileStart(rows, u + 1) = H5TileStart(rows, u) + rows[u + 1]
      BY <3>1, TileStarts
    <3>3. H5TileStart(rows, u) \in Nat /\ rows[u + 1] \in Nat
      BY <3>1, TileStarts DEF Sizing
    <3>4. QED BY <3>2, <3>3
  <2>7. H5Walk(cols, rows, x0, y0, n)[i]
          = [start |-> <<H5TileStart(cols, t), H5TileStart(rows, u)>>,
             end |-> <<H5TileStart(cols, t + 1) - 1, H5TileStart(rows, u + 1) - 1>>]
    BY <2>4, <2>5, <2>6
  <2>8. QED BY <2>7 DEF t, u
<1>11. TilingWalked(cols, rows, k)
         <=> \A i \in 0..n : H5Walk(cols, rows, x0, y0, n)[i]
                = [start |-> <<H5TileStart(cols, (k + i) % c), H5TileStart(rows, (k + i) \div c)>>,
                   end |-> <<H5TileStart(cols, ((k + i) % c) + 1) - 1,
                             H5TileStart(rows, (k + i) \div c + 1) - 1>>]
  BY <1>1 DEF TilingWalked, n, x0, y0
<1>12. QED BY <1>10, <1>11

\* Entry points walk the tiles.
THEOREM TilesAreWalked == H5TilesWalked
<1> DEFINE Sizes == UNION {[1..n -> 1..3] : n \in 1..3}
<1>1. ASSUME NEW s \in Sizes PROVE Sizing(s, Len(s))
  <2>1. PICK n \in 1..3 : s \in [1..n -> 1..3]
    OBVIOUS
  <2>2. n \in Nat \ {0} /\ s \in [1..n -> Nat \ {0}]
    BY <2>1
  <2>3. Len(s) = n
    BY <2>1
  <2>4. QED BY <2>2, <2>3 DEF Sizing
<1>2. ASSUME NEW cols \in Sizes, NEW rows \in Sizes, NEW k \in 0..(Len(cols) * Len(rows) - 1)
      PROVE  TilingWalked(cols, rows, k)
  <2>1. Sizing(cols, Len(cols)) /\ Sizing(rows, Len(rows))
    BY <1>1
  <2> HIDE DEF Sizes
  <2>2. QED BY <2>1, AnyTilingWalked
<1>3. QED BY <1>2 DEF H5TilesWalked, TilingWalked

\* The powers of two of CedrusArith.
LEMMA TwoPowers ==
  /\ Pow2(0) = 1 /\ Pow2(1) = 2 /\ Pow2(2) = 4 /\ Pow2(3) = 8 /\ Pow2(4) = 16 /\ Pow2(5) = 32
  /\ Pow2(6) = 64 /\ Pow2(7) = 128 /\ Pow2(8) = 256 /\ Pow2(9) = 512 /\ Pow2(10) = 1024
  /\ Pow2(11) = 2048 /\ Pow2(12) = 4096 /\ Pow2(13) = 8192 /\ Pow2(14) = 16384
  /\ Pow2(15) = 32768 /\ Pow2(16) = 65536
  BY DEF Pow2

\* The equation of the loop that skips bits, at most 32 at a time.
SkipEquation(f, count) ==
  f = [left \in 0..count |->
         IF left = 0 THEN 0
         ELSE LET skip_count == IF left < 32 THEN left ELSE 32
              IN  skip_count + f[left - skip_count]]

\* What is skipped in steps of at most 32 bits is what was asked for.
LEMMA SkippedAll ==
  ASSUME NEW count \in Nat
  PROVE  H5Skipped(count) = count
<1> DEFINE Step(left) == IF left < 32 THEN left ELSE 32
           id == [left \in 0..count |-> left]
           f == CHOOSE g : SkipEquation(g, count)
<1>1. \A left \in 0..count : left # 0 => /\ Step(left) \in Nat /\ left - Step(left) \in 0..count
                                         /\ left - Step(left) < left
                                         /\ Step(left) + (left - Step(left)) = left
  OBVIOUS
<1>2. SkipEquation(id, count)
  <2>1. ASSUME NEW left \in 0..count, left # 0
        PROVE  Step(left) + id[left - Step(left)] = left
    BY <1>1, <2>1
  <2>2. ASSUME NEW left \in 0..count
        PROVE  left = IF left = 0 THEN 0 ELSE Step(left) + id[left - Step(left)]
    <3> HIDE DEF Step, id
    <3>1. QED BY <2>1
  <2>3. id = [left \in 0..count |-> IF left = 0 THEN 0 ELSE Step(left) + id[left - Step(left)]]
    <3> DEFINE body(left) == IF left = 0 THEN 0 ELSE Step(left) + id[left - Step(left)]
    <3>1. \A left \in 0..count : body(left) = left
      BY <2>2
    <3> HIDE DEF body
    <3>2. id = [left \in 0..count |-> body(left)]
      BY <3>1
    <3>3. QED BY <3>2 DEF body
  <2> HIDE DEF id
  <2>4. QED BY <2>3 DEF SkipEquation
<1>3. SkipEquation(f, count)
  <2> HIDE DEF id
  <2>1. QED BY <1>2
<1>4. H5Skipped(count) = f[count]
  BY DEF H5Skipped, SkipEquation
<1> HIDE DEF f
<1>5. \A left \in 0..count :
        f[left] = IF left = 0 THEN 0 ELSE Step(left) + f[left - Step(left)]
  <2> DEFINE body(left) == IF left = 0 THEN 0 ELSE Step(left) + f[left - Step(left)]
  <2>1. f = [left \in 0..count |-> body(left)]
    BY <1>3 DEF SkipEquation
  <2> HIDE DEF body
  <2>2. \A left \in 0..count : f[left] = body(left)
    BY <2>1
  <2>3. QED BY <2>2 DEF body
<1> DEFINE Wrong == {left \in 0..count : f[left] # left}
<1>6. Wrong = {}
  <2>1. SUFFICES ASSUME Wrong # {} PROVE FALSE
    OBVIOUS
  <2>2. Wrong \subseteq Nat
    OBVIOUS
  <2> HIDE DEF Wrong
  <2>3. PICK x \in Wrong : \A y \in Wrong : x <= y
    BY <2>1, <2>2, LeastNatural
  <2>4. x \in 0..count /\ f[x] # x
    BY <2>3 DEF Wrong
  <2>5. x # 0
    BY <1>5, <2>4
  <2> DEFINE y == x - Step(x)
  <2>6. y \in 0..count /\ y < x /\ Step(x) + y = x
    BY <1>1, <2>4, <2>5
  <2>7. f[x] = Step(x) + f[y]
    BY <1>5, <2>4, <2>5
  <2> HIDE DEF Step, y
  <2>8. y \notin Wrong
    BY <2>3, <2>4, <2>6
  <2>9. f[y] = y
    BY <2>6, <2>8 DEF Wrong
  <2>10. QED BY <2>4, <2>6, <2>7, <2>9
<1> HIDE DEF Step
<1>7. f[count] = count
  <2>1. count \in 0..count
    OBVIOUS
  <2>2. QED BY <1>6, <2>1
<1>8. QED BY <1>4, <1>7

\* Bit c of a byte, counted from 1.
ByteBit(byte, c) == (byte \div Pow2(c - 1)) % 2

\* A byte that is not zero has a lowest bit, which the driver counts to.
LEMMA LowestBit ==
  ASSUME NEW byte \in 1..255
  PROVE  /\ H5Count(byte) \in 1..8 /\ ByteBit(byte, H5Count(byte)) = 1
         /\ \A d \in 1..(H5Count(byte) - 1) : ByteBit(byte, d) = 0
<1> DEFINE bit(c) == ByteBit(byte, c)
           T == {c \in 1..8 : bit(c) = 1}
           Is(c) == bit(c) = 1 /\ \A d \in 1..(c - 1) : bit(d) = 0
<1>1. /\ bit(1) = byte % 2 /\ bit(2) = (byte \div 2) % 2
      /\ bit(3) = (byte \div 4) % 2 /\ bit(4) = (byte \div 8) % 2
      /\ bit(5) = (byte \div 16) % 2 /\ bit(6) = (byte \div 32) % 2
      /\ bit(7) = (byte \div 64) % 2 /\ bit(8) = (byte \div 128) % 2
  BY DEF ByteBit, Pow2
<1>2. \A c \in 1..8 : bit(c) \in 0..1
  BY DEF ByteBit, Pow2
<1>3. \E c \in 1..8 : bit(c) = 1
  <2> HIDE DEF bit
  <2>1. SUFFICES ASSUME \A c \in 1..8 : bit(c) # 1 PROVE FALSE
    OBVIOUS
  <2>2. /\ bit(1) = 0 /\ bit(2) = 0 /\ bit(3) = 0 /\ bit(4) = 0
        /\ bit(5) = 0 /\ bit(6) = 0 /\ bit(7) = 0 /\ bit(8) = 0
    BY <2>1, <1>2
  <2>3. QED BY <1>1, <2>2, SMTT(30)
<1> HIDE DEF bit
<1>4. PICK x \in T : \A y \in T : x <= y
  BY <1>3, LeastNatural
<1>5. x \in 1..8 /\ Is(x)
  <2>1. ASSUME NEW d \in 1..(x - 1) PROVE bit(d) = 0
    <3>1. d \in 1..8 /\ d < x
      BY <1>4
    <3>2. bit(d) # 1
      BY <1>4, <3>1
    <3>3. QED BY <1>2, <3>1, <3>2
  <2>2. QED BY <1>4, <2>1
<1> DEFINE k == CHOOSE c \in 1..8 : Is(c)
<1>6. H5Count(byte) = k
  BY DEF H5Count, bit, ByteBit
<1>7. k \in 1..8 /\ Is(k)
  <2> HIDE DEF Is
  <2>1. QED BY <1>5
<1> HIDE DEF k
<1>8. QED BY <1>6, <1>7 DEF bit

\* The reader ends at the alignment bit, wherever the slice data starts.
LEMMA AtAlignment ==
  ASSUME NEW padding \in 1..255, NEW offset \in Nat \ {0}
  PROVE  LET p == H5BitPosition(offset, padding) - (offset - 1) * 8
             bit(i) == (padding \div Pow2(7 - i)) % 2
         IN  bit(p) = 1 /\ \A i \in (p + 1)..7 : bit(i) = 0
<1> DEFINE c == H5Count(padding)
           p == H5BitPosition(offset, padding) - (offset - 1) * 8
           bit(i) == (padding \div Pow2(7 - i)) % 2
<1>1. c \in 1..8 /\ ByteBit(padding, c) = 1 /\ \A d \in 1..(c - 1) : ByteBit(padding, d) = 0
  BY LowestBit
<1> HIDE DEF c
<1>2. p = 8 - c
  <2> DEFINE a == (offset - 1) * 8
             b == 8 - c
  <2>1. a \in Nat /\ b \in Nat
    BY <1>1
  <2>2. H5BitPosition(offset, padding) = H5Skipped(a) + H5Skipped(b)
    BY DEF H5BitPosition, c
  <2> HIDE DEF a, b
  <2>3. H5BitPosition(offset, padding) = a + b
    BY <2>1, <2>2, SkippedAll
  <2>4. p = b
    BY <2>1, <2>3 DEF a
  <2>5. QED BY <2>4 DEF b
<1> HIDE DEF p
<1>3. \A i \in 0..7 : bit(i) = ByteBit(padding, 8 - i)
  <2>1. \A i \in 0..7 : 7 - i = (8 - i) - 1
    OBVIOUS
  <2>2. QED BY <2>1 DEF ByteBit
<1> HIDE DEF bit
<1>4. p \in 0..7 /\ 8 - p = c
  BY <1>1, <1>2
<1>5. bit(p) = 1
  BY <1>1, <1>3, <1>4
<1>6. ASSUME NEW i \in (p + 1)..7 PROVE bit(i) = 0
  <2>1. i \in 0..7 /\ 8 - i \in 1..(c - 1)
    BY <1>1, <1>4
  <2>2. QED BY <1>1, <1>3, <2>1
<1>7. QED BY <1>5, <1>6 DEF bit, p

\* The reader of an H.265 slice header ends at the data.
LEMMA SlicesAligned == H5AtAlignment
<1>1. ASSUME NEW padding \in 1..255, NEW offset \in {1, 5, 7}
      PROVE  LET p == H5BitPosition(offset, padding) - (offset - 1) * 8
                 bit(i) == (padding \div Pow2(7 - i)) % 2
             IN  bit(p) = 1 /\ \A i \in (p + 1)..7 : bit(i) = 0
  <2>1. offset \in Nat \ {0}
    OBVIOUS
  <2>2. QED BY <2>1, AtAlignment
<1>2. QED BY <1>1 DEF H5AtAlignment

\* The areas of the SRAM of H.265 do not overlap, and end inside it.
LEMMA H5SramApart == H5AreasApart
  BY SMTT(60) DEF H5AreasApart, H5SramAreas, H5Weights, H5Index, H5EntryBytes,
         V4L2_HEVC_DPB_ENTRIES_NUM_MAX, DIV_ROUND_UP, CEDRUS_DEC_H265_ENTRY_POINTS_BUF_SIZE
-----------------------------------------------------------------------------
(* VP8.                                                                    *)

\* What the decoder keeps of pictures and of headers.
V8Sharp  == 0..1
V8Lasts  == [simple : BOOLEAN, p : BOOLEAN, sharpness : V8Sharp]
V8Stamps == 0..V8MaxFrames
V8Pics   == [stamp : V8Stamps, holds : V8Stamps]
V8Entries == [h : V8Frame, end : {"running", "decoded", "failed"}]

V8Shape ==
  /\ v8Up \in {"", "vp8", "mpeg2"}
  /\ v8Last \in V8Lasts
  /\ v8Pic \in [V8Buf -> V8Pics]
  /\ v8Log \in Seq(V8Entries) /\ Len(v8Log) <= V8MaxFrames
  /\ v8Kept \subseteq 1..Len(v8Log) /\ v8Lost \subseteq 1..Len(v8Log)
  /\ v8Up = "" => v8Log = <<>> /\ v8Job = V8Idle

\* A buffer stands for the frame decoded into it last, no two for the same, and a frame
\* that a header may refer to has a buffer unless that was freed.
V8Placed ==
  /\ \A b \in V8Buf : v8Pic[b].stamp <= Len(v8Log)
  /\ \A b, c \in V8Buf : v8Pic[b].stamp = v8Pic[c].stamp /\ v8Pic[b].stamp # 0 => b = c
  /\ \A t \in v8Kept \ v8Lost : \E b \in V8Buf : v8Pic[b].stamp = t
  /\ \A b \in V8Buf :
       v8Pic[b].stamp # 0 /\ v8Log[v8Pic[b].stamp].end = "decoded" => v8Pic[b].holds = v8Pic[b].stamp

\* The job is the last frame sent, and each reference is a buffer of an earlier frame.
V8Working ==
  v8Job # V8Idle =>
    /\ v8Job.f = Len(v8Log) /\ v8Job.f \in 1..V8MaxFrames
    /\ v8Job.buf \in V8Buf /\ v8Pic[v8Job.buf].stamp = v8Job.f
    /\ \A t \in DOMAIN v8Job.refs :
         /\ t \in 1..(v8Job.f - 1)
         /\ v8Job.refs[t] = 0 => t \in v8Lost
         /\ v8Job.refs[t] # 0 => /\ v8Job.refs[t] \in V8Buf \ {v8Job.buf}
                                 /\ v8Pic[v8Job.refs[t]].stamp = t

\* What the registers keep of the loop filter of a header.
V8Of(h) == [simple |-> h.simple, p |-> ~h.key, sharpness |-> h.sharpness]

\* last is the loop filter of the last of the first n frames that had one.
V8LastAmong(log, n, last) ==
  \/ last = V8NoLast /\ \A f \in 1..n : log[f].h.level = 0
  \/ \E f \in 1..n :
       /\ log[f].h.level # 0 /\ \A g \in (f + 1)..n : log[g].h.level = 0
       /\ last = V8Of(log[f].h)

\* The decoder keeps the loop filter of the last frame that had one, and the job has
\* that of the frames before it.
V8Filtered ==
  v8Up = "vp8" =>
    /\ V8LastAmong(v8Log, Len(v8Log), v8Last)
    /\ v8Job # V8Idle => V8LastAmong(v8Log, v8Job.f - 1, v8Job.last)

\* The inductive invariant of the decoder.
V8Inv == V8Shape /\ V8Placed /\ V8Working /\ V8Filtered
-----------------------------------------------------------------------------

\* vb2_find_buffer finds the buffer with the timestamp.
LEMMA V8FoundStamped ==
  ASSUME NEW pic \in [V8Buf -> V8Pics], NEW t \in Nat \ {0},
         \A b, c \in V8Buf : pic[b].stamp = pic[c].stamp /\ pic[b].stamp # 0 => b = c
  PROVE  V8Found(pic, t) = {b \in V8Buf : pic[b].stamp = t}
<1>1. \A b \in V8Buf : b <= b
  BY V8Assumption DEF V8Assumption
<1>2. \A b, c \in V8Buf : pic[b].stamp = t /\ pic[c].stamp = t => b = c
  OBVIOUS
<1> QED BY <1>1, <1>2 DEF V8Found

\* The last loop filter depends on the headers alone.
LEMMA V8LastSame ==
  ASSUME NEW log, NEW other, NEW n, NEW last,
         \A f \in 1..n : other[f].h = log[f].h,
         V8LastAmong(log, n, last), n \in Nat
  PROVE  V8LastAmong(other, n, last)
<1>1. CASE last = V8NoLast /\ \A f \in 1..n : log[f].h.level = 0
  BY <1>1 DEF V8LastAmong
<1>2. CASE \E f \in 1..n :
             /\ log[f].h.level # 0 /\ \A g \in (f + 1)..n : log[g].h.level = 0
             /\ last = V8Of(log[f].h)
  <2>1. PICK f \in 1..n :
             /\ log[f].h.level # 0 /\ \A g \in (f + 1)..n : log[g].h.level = 0
             /\ last = V8Of(log[f].h)
    BY <1>2
  <2>2. \A g \in (f + 1)..n : g \in 1..n
    OBVIOUS
  <2>3. other[f].h.level # 0 /\ last = V8Of(other[f].h)
    BY <2>1
  <2>4. \A g \in (f + 1)..n : other[g].h.level = 0
    BY <2>1, <2>2
  <2> QED BY <2>3, <2>4 DEF V8LastAmong
<1> QED BY <1>1, <1>2 DEF V8LastAmong

\* A frame more in the log.
LEMMA V8Extended ==
  ASSUME NEW log \in Seq(V8Entries), NEW e \in V8Entries
  PROVE  /\ Append(log, e) \in Seq(V8Entries) /\ Len(Append(log, e)) = Len(log) + 1
         /\ \A f \in 1..Len(log) : Append(log, e)[f] = log[f]
         /\ Append(log, e)[Len(log) + 1] = e
  OBVIOUS

\* Before the first frame.
LEMMA V8Nothing ==
  /\ <<>> \in Seq(V8Entries) /\ Len(<<>>) = 0 /\ Len(<<>>) <= V8MaxFrames
  /\ {} \subseteq 1..Len(<<>>)
  /\ V8NoLast \in V8Lasts
  /\ V8Fresh \in V8Pics /\ V8Fresh.stamp = 0
<1>0. V8MaxFrames \in Nat
  BY V8Assumption DEF V8Assumption
<1>1. <<>> \in Seq(V8Entries) /\ Len(<<>>) = 0 /\ {} \subseteq 1..Len(<<>>)
  OBVIOUS
<1>2. Len(<<>>) <= V8MaxFrames
  BY <1>0, <1>1
<1>3. V8Fresh \in V8Pics /\ V8Fresh.stamp = 0
  BY <1>0 DEF V8Fresh, V8Pics, V8Stamps
<1>4. V8NoLast \in V8Lasts
  BY DEF V8NoLast, V8Lasts, V8Sharp
<1> QED BY <1>1, <1>2, <1>3, <1>4

\* Buffers that were just allocated.
LEMMA V8Cleared ==
  ASSUME NEW pic, pic = [b \in V8Buf |-> V8Fresh]
  PROVE  pic \in [V8Buf -> V8Pics] /\ \A b \in V8Buf : pic[b].stamp = 0
  BY V8Nothing

\* The log is a finite sequence.
LEMMA V8Counted ==
  ASSUME V8Shape
  PROVE  v8Log \in Seq(V8Entries) /\ Len(v8Log) \in Nat
<1>1. v8Log \in Seq(V8Entries)
  BY DEF V8Shape
<1> QED BY <1>1

\* The outcome of a frame, entered in the log.
LEMMA V8Replaced ==
  ASSUME NEW log \in Seq(V8Entries), NEW n \in 1..Len(log), NEW e \in V8Entries,
         NEW other, other = [log EXCEPT ![n] = e]
  PROVE  /\ other \in Seq(V8Entries) /\ Len(other) = Len(log) /\ other[n] = e
         /\ \A f \in 1..Len(log) : f # n => other[f] = log[f]
  OBVIOUS

\* The invariant implies the types.
LEMMA V8InvTyped == V8Inv => V8TypeOK
<1> SUFFICES ASSUME V8Inv PROVE V8TypeOK
  OBVIOUS
<1>1. /\ v8Up \in {"", "vp8", "mpeg2"}
      /\ v8Kept \subseteq 1..Len(v8Log) /\ v8Lost \subseteq 1..Len(v8Log)
  BY DEF V8Inv, V8Shape
<1>2. v8Last \in [simple : BOOLEAN, p : BOOLEAN, sharpness : 0..1]
  BY DEF V8Inv, V8Shape, V8Lasts, V8Sharp
<1>3. v8Pic \in [V8Buf -> [stamp : 0..V8MaxFrames, holds : 0..V8MaxFrames]]
  BY DEF V8Inv, V8Shape, V8Pics, V8Stamps
<1>4. v8Job = V8Idle \/ (v8Job.f = Len(v8Log) /\ v8Job.buf \in V8Buf)
  BY DEF V8Inv, V8Working
<1> QED BY <1>1, <1>2, <1>3, <1>4 DEF V8TypeOK

\* The invariant implies that references are the frames the header means.
LEMMA V8InvRefs == V8Inv => V8ReferencesMeant
<1> SUFFICES ASSUME V8Inv, v8Job # V8Idle, NEW t \in DOMAIN v8Job.refs
             PROVE  /\ v8Job.refs[t] = 0 => t \in v8Lost
                    /\ v8Job.refs[t] # 0 =>
                         /\ v8Job.refs[t] # v8Job.buf
                         /\ v8Log[t].end = "decoded" => v8Pic[v8Job.refs[t]].holds = t
  BY DEF V8ReferencesMeant
<1>1. /\ t \in 1..(v8Job.f - 1)
      /\ v8Job.refs[t] = 0 => t \in v8Lost
      /\ v8Job.refs[t] # 0 => /\ v8Job.refs[t] \in V8Buf \ {v8Job.buf}
                              /\ v8Pic[v8Job.refs[t]].stamp = t
  BY DEF V8Inv, V8Working
<1>2. t # 0
  BY <1>1
<1> QED BY <1>1, <1>2 DEF V8Inv, V8Placed

\* The invariant implies that the loop filter before is the one of the stream.
LEMMA V8InvLast == V8Inv => V8LastIsPrevious
<1> SUFFICES ASSUME V8Inv, v8Job # V8Idle, v8Up = "vp8" PROVE V8LastIsPrevious
  BY DEF V8LastIsPrevious
<1> DEFINE n == v8Job.f - 1
           filtered == {f \in 1..n : v8Log[f].h.level # 0}
<1>1. n \in Nat
  BY DEF V8Inv, V8Working
<1>2. V8LastAmong(v8Log, n, v8Job.last)
  BY DEF V8Inv, V8Filtered
<1> SUFFICES v8Job.last = IF filtered = {} THEN V8NoLast
                          ELSE V8Of(v8Log[CHOOSE f \in filtered : \A g \in filtered : g <= f].h)
  BY DEF V8LastIsPrevious, V8Of
<1> HIDE DEF n
<1>3. CASE v8Job.last = V8NoLast /\ \A f \in 1..n : v8Log[f].h.level = 0
  BY <1>3
<1>4. ASSUME NEW f \in 1..n, v8Log[f].h.level # 0,
             \A g \in (f + 1)..n : v8Log[g].h.level = 0,
             v8Job.last = V8Of(v8Log[f].h)
      PROVE  filtered # {} /\ (CHOOSE h \in filtered : \A g \in filtered : g <= h) = f
  <2>1. f \in filtered
    BY <1>4
  <2>2. \A g \in filtered : g \in 1..n /\ g \notin (f + 1)..n
    BY <1>4
  <2>3. \A g \in filtered : g <= f
    BY <2>2, <1>1
  <2>4. \A h \in filtered : (\A g \in filtered : g <= h) => h = f
    BY <2>1, <2>3, <2>2, <1>1
  <2> HIDE DEF filtered
  <2> QED BY <2>1, <2>3, <2>4
<1> HIDE DEF filtered
<1>5. ASSUME NEW f \in 1..n, v8Log[f].h.level # 0,
             \A g \in (f + 1)..n : v8Log[g].h.level = 0,
             v8Job.last = V8Of(v8Log[f].h)
      PROVE  v8Job.last = IF filtered = {} THEN V8NoLast
                          ELSE V8Of(v8Log[CHOOSE h \in filtered : \A g \in filtered : g <= h].h)
  BY <1>4, <1>5
<1> QED BY <1>2, <1>3, <1>5 DEF V8LastAmong
-----------------------------------------------------------------------------

\* A context that was just opened.
LEMMA V8InitOK == V8Init => V8Inv
<1> SUFFICES ASSUME V8Init PROVE V8Inv
  OBVIOUS
<1>1. /\ v8Up = "" /\ v8Last = V8NoLast /\ v8Pic = [b \in V8Buf |-> V8Fresh] /\ v8Job = V8Idle
      /\ v8Kept = {} /\ v8Log = <<>> /\ v8Lost = {}
  BY DEF V8Init
<1>2. v8Pic \in [V8Buf -> V8Pics] /\ \A b \in V8Buf : v8Pic[b].stamp = 0
  BY <1>1, V8Cleared
<1>3. Len(v8Log) = 0
  BY <1>1
<1>4. V8Shape
  BY <1>1, <1>2, V8Nothing DEF V8Shape
<1>5. V8Placed
  <2>1. v8Kept \ v8Lost = {}
    BY <1>1
  <2> QED BY <1>2, <1>3, <2>1 DEF V8Placed
<1> QED BY <1>1, <1>4, <1>5 DEF V8Inv, V8Working, V8Filtered

\* The decoder is started, as the one of VP8 or that of MPEG-2.
LEMMA V8SetupKeeps == V8Inv /\ V8Setup => V8Inv'
<1> SUFFICES ASSUME V8Inv, V8Setup PROVE V8Inv'
  OBVIOUS
<1>1. /\ v8Up = "" /\ v8Log = <<>> /\ v8Up' \in {"vp8", "mpeg2"} /\ v8Last' = V8NoLast
      /\ UNCHANGED <<v8Pic, v8Job, v8Kept, v8Log, v8Lost>>
  BY DEF V8Setup
<1>2. v8Job = V8Idle
  BY <1>1 DEF V8Inv, V8Shape
<1>3. V8NoLast \in V8Lasts
  BY DEF V8NoLast, V8Lasts, V8Sharp
<1>4. V8Shape'
  BY <1>1, <1>2, <1>3 DEF V8Inv, V8Shape
<1>5. V8Placed' /\ V8Working'
  BY <1>1, ZenonT(60) DEF V8Inv, V8Placed, V8Working
<1>6. V8Filtered'
  <2>1. Len(v8Log') = 0
    BY <1>1
  <2>2. V8LastAmong(v8Log', 0, V8NoLast)
    BY DEF V8LastAmong
  <2> QED BY <1>1, <1>2, <2>1, <2>2 DEF V8Filtered
<1> QED BY <1>4, <1>5, <1>6 DEF V8Inv

\* stop_streaming, between jobs.
LEMMA V8CleanupKeeps == V8Inv /\ V8Cleanup => V8Inv'
<1> SUFFICES ASSUME V8Inv, V8Cleanup PROVE V8Inv'
  OBVIOUS
<1>1. /\ v8Job = V8Idle /\ v8Up' = "" /\ v8Kept' = {} /\ v8Log' = <<>> /\ v8Lost' = {}
      /\ v8Pic' = [b \in V8Buf |-> V8Fresh] /\ v8Last' = v8Last /\ v8Job' = v8Job
  BY DEF V8Cleanup
<1>2. v8Pic' \in [V8Buf -> V8Pics] /\ \A b \in V8Buf : v8Pic'[b].stamp = 0
  BY <1>1, V8Cleared
<1>3. Len(v8Log') = 0 /\ v8Last \in V8Lasts
  BY <1>1 DEF V8Inv, V8Shape
<1>4. V8Shape'
  BY <1>1, <1>2, <1>3, V8Nothing DEF V8Shape
<1>5. V8Placed'
  <2>1. v8Kept' \ v8Lost' = {}
    BY <1>1
  <2> QED BY <1>2, <1>3, <2>1 DEF V8Placed
<1> QED BY <1>1, <1>4, <1>5 DEF V8Inv, V8Working, V8Filtered

\* Capture buffers are freed: frames that may still be meant are lost.
LEMMA V8FreedKeeps == V8Inv /\ V8BuffersFreed => V8Inv'
<1> SUFFICES ASSUME V8Inv, V8BuffersFreed PROVE V8Inv'
  OBVIOUS
<1>1. /\ v8Job = V8Idle /\ v8Pic' = [b \in V8Buf |-> V8Fresh] /\ v8Lost' = 1..Len(v8Log)
      /\ UNCHANGED <<v8Up, v8Last, v8Job, v8Kept, v8Log>>
  BY DEF V8BuffersFreed
<1>2. v8Pic' \in [V8Buf -> V8Pics] /\ \A b \in V8Buf : v8Pic'[b].stamp = 0
  BY <1>1, V8Cleared
<1>3. V8Shape'
  BY <1>1, <1>2 DEF V8Inv, V8Shape
<1>4. V8Placed'
  <2>1. v8Kept \subseteq 1..Len(v8Log)
    BY DEF V8Inv, V8Shape
  <2>2. v8Kept' \ v8Lost' = {}
    BY <1>1, <2>1
  <2>3. Len(v8Log') \in Nat
    BY <1>1, V8Counted DEF V8Inv
  <2> QED BY <1>2, <2>2, <2>3 DEF V8Placed
<1>5. V8Working' /\ V8Filtered'
  BY <1>1 DEF V8Inv, V8Working, V8Filtered
<1> QED BY <1>3, <1>4, <1>5 DEF V8Inv

\* cedrus_vp8_setup: the buffer, the references of the header and the last loop filter.
LEMMA V8JobRunKeeps == V8Inv /\ V8JobRun => V8Inv'
<1> SUFFICES ASSUME V8Inv, V8JobRun PROVE V8Inv'
  OBVIOUS
<1> DEFINE n == Len(v8Log)
<1>0. V8MaxFrames \in Nat /\ V8Frame \subseteq V8Header /\ V8Buf \subseteq Nat \ {0}
  BY V8Assumption DEF V8Assumption
<1>1. PICK b \in V8Buf, h \in V8Frame, keep \in SUBSET (v8Kept \cup {V8Now}) :
        LET pic  == [v8Pic EXCEPT ![b] = [stamp |-> V8Now, holds |-> 0]]
            refs == IF h.key THEN {} ELSE v8Kept
        IN  /\ v8Pic[b].stamp \notin v8Kept
            /\ v8Pic' = pic
            /\ v8Kept' = keep
            /\ v8Job' = [f |-> V8Now, buf |-> b, last |-> v8Last, refs |-> V8Addresses(pic, refs)]
            /\ v8Last' = IF v8Up = "vp8" THEN V8LastAfter(h) ELSE v8Last
            /\ v8Log' = Append(v8Log, [h |-> h, end |-> "running"])
  BY DEF V8JobRun
<1> DEFINE e == [h |-> h, end |-> "running"]
           refs == IF h.key THEN {} ELSE v8Kept
<1>2. v8Up # "" /\ v8Job = V8Idle /\ n < V8MaxFrames /\ UNCHANGED <<v8Up, v8Lost>>
  BY DEF V8JobRun
<1>3. /\ v8Log \in Seq(V8Entries) /\ n \in Nat
      /\ v8Kept \subseteq 1..n /\ v8Lost \subseteq 1..n /\ v8Pic \in [V8Buf -> V8Pics]
      /\ v8Last \in V8Lasts
  BY V8Counted DEF V8Inv, V8Shape
<1>15. n \in Nat /\ n < V8MaxFrames /\ V8MaxFrames \in Nat
  <2>1. n \in Nat
    BY V8Counted DEF V8Inv
  <2>2. n < V8MaxFrames
    BY DEF V8JobRun
  <2>3. V8MaxFrames \in Nat
    BY V8Assumption DEF V8Assumption
  <2> QED BY <2>1, <2>2, <2>3
<1>4. /\ v8Log' \in Seq(V8Entries) /\ Len(v8Log') = n + 1 /\ V8Now = n + 1
      /\ \A f \in 1..n : v8Log'[f] = v8Log[f]
      /\ v8Log'[n + 1] = e
  <2>1. e \in V8Entries
    BY DEF V8Entries
  <2>2. v8Log' = Append(v8Log, e)
    BY <1>1
  <2> HIDE DEF e
  <2> QED BY <1>3, <2>1, <2>2, V8Extended DEF V8Now
<1>5. /\ v8Pic' = [v8Pic EXCEPT ![b] = [stamp |-> n + 1, holds |-> 0]]
      /\ v8Pic[b].stamp \notin v8Kept
      /\ v8Kept' \subseteq v8Kept \cup {n + 1}
      /\ v8Job' = [f |-> n + 1, buf |-> b, last |-> v8Last, refs |-> V8Addresses(v8Pic', refs)]
      /\ v8Last' = IF v8Up = "vp8" THEN V8LastAfter(h) ELSE v8Last
  BY <1>1, <1>4
<1> HIDE DEF n, refs
<1>6. v8Pic' \in [V8Buf -> V8Pics]
  <2>1. n + 1 \in V8Stamps /\ 0 \in V8Stamps
    BY <1>15 DEF V8Stamps
  <2>2. [stamp |-> n + 1, holds |-> 0] \in V8Pics
    BY <2>1 DEF V8Pics
  <2> QED BY <1>3, <1>5, <2>2
<1>7. v8Last' \in V8Lasts
  <2>1. h.simple \in BOOLEAN /\ h.key \in BOOLEAN /\ h.sharpness \in V8Sharp
    BY <1>0 DEF V8Header, V8Sharp
  <2>2. V8Of(h) \in V8Lasts
    BY <2>1 DEF V8Of, V8Lasts
  <2> QED BY <1>3, <1>5, <2>2 DEF V8LastAfter, V8Of
<1>8. V8Shape'
  <2>1. 1..n \subseteq 1..(n + 1) /\ n + 1 \in 1..(n + 1) /\ n + 1 <= V8MaxFrames
    BY <1>15
  <2>2. Len(v8Log') <= V8MaxFrames /\ v8Kept' \subseteq 1..Len(v8Log') /\ v8Lost' \subseteq 1..Len(v8Log')
    BY <1>2, <1>3, <1>4, <1>5, <2>1
  <2> QED BY <1>2, <1>4, <1>6, <1>7, <2>2 DEF V8Inv, V8Shape
<1>9. /\ v8Pic'[b].stamp = n + 1 /\ v8Pic'[b].holds = 0
      /\ \A c \in V8Buf \ {b} : v8Pic'[c] = v8Pic[c]
  BY <1>3, <1>5
<1>10. \A c \in V8Buf : v8Pic[c].stamp \in 0..n
  BY <1>3 DEF V8Inv, V8Placed, V8Pics, V8Stamps, n
<1>11. \A c, d \in V8Buf : v8Pic'[c].stamp = v8Pic'[d].stamp /\ v8Pic'[c].stamp # 0 => c = d
  BY <1>3, <1>9, <1>10 DEF V8Inv, V8Placed
<1>12. V8Placed'
  <2>1. \A c \in V8Buf : v8Pic'[c].stamp <= n + 1
    BY <1>3, <1>9, <1>10
  <2>2. \A t \in v8Kept' \ v8Lost' : \E c \in V8Buf : v8Pic'[c].stamp = t
    <3> SUFFICES ASSUME NEW t \in v8Kept' \ v8Lost' PROVE \E c \in V8Buf : v8Pic'[c].stamp = t
      OBVIOUS
    <3>1. CASE t = n + 1
      BY <1>9, <3>1
    <3>2. CASE t # n + 1
      <4>1. t \in v8Kept \ v8Lost
        BY <1>2, <1>5, <3>2
      <4>2. PICK c \in V8Buf : v8Pic[c].stamp = t
        BY <4>1 DEF V8Inv, V8Placed
      <4> QED BY <1>5, <1>9, <4>1, <4>2
    <3> QED BY <3>1, <3>2
  <2>3. \A c \in V8Buf :
          v8Pic'[c].stamp # 0 /\ v8Log'[v8Pic'[c].stamp].end = "decoded"
            => v8Pic'[c].holds = v8Pic'[c].stamp
    <3> SUFFICES ASSUME NEW c \in V8Buf, v8Pic'[c].stamp # 0,
                        v8Log'[v8Pic'[c].stamp].end = "decoded"
                 PROVE  v8Pic'[c].holds = v8Pic'[c].stamp
      OBVIOUS
    <3>1. c # b
      BY <1>4, <1>9
    <3>2. v8Pic[c].stamp \in 1..n /\ v8Pic'[c] = v8Pic[c]
      BY <1>9, <1>10, <3>1, <1>3
    <3>3. v8Log[v8Pic[c].stamp].end = "decoded"
      BY <1>4, <3>2
    <3> QED BY <3>2, <3>3 DEF V8Inv, V8Placed
  <2> QED BY <1>4, <1>11, <2>1, <2>2, <2>3 DEF V8Placed
<1>13. V8Working'
  <2>1. /\ v8Job'.f = n + 1 /\ v8Job'.buf = b /\ v8Job'.last = v8Last
        /\ v8Job'.refs = V8Addresses(v8Pic', refs)
    BY <1>5
  <2>2. n + 1 \in 1..V8MaxFrames
    BY <1>15
  <2>3. ASSUME NEW t \in DOMAIN v8Job'.refs
        PROVE  /\ t \in 1..n
               /\ v8Job'.refs[t] = 0 => t \in v8Lost'
               /\ v8Job'.refs[t] # 0 => /\ v8Job'.refs[t] \in V8Buf \ {b}
                                        /\ v8Pic'[v8Job'.refs[t]].stamp = t
    <3>1. t \in v8Kept
      BY <2>1, <2>3 DEF V8Addresses, refs
    <3>2. t \in 1..n
      BY <1>3, <3>1
    <3>7. t \in Nat \ {0}
      BY <1>3, <3>2
    <3>3. V8Found(v8Pic', t) = {c \in V8Buf : v8Pic'[c].stamp = t}
      BY <1>6, <1>11, <3>7, V8FoundStamped
    <3>4. v8Job'.refs[t] = IF V8Found(v8Pic', t) = {} THEN 0 ELSE CHOOSE c \in V8Found(v8Pic', t) : TRUE
      BY <2>1, <2>3 DEF V8Addresses
    <3>5. CASE V8Found(v8Pic', t) = {}
      <4>1. v8Job'.refs[t] = 0
        BY <3>4, <3>5
      <4>2. ASSUME t \notin v8Lost PROVE FALSE
        <5>1. PICK c \in V8Buf : v8Pic[c].stamp = t
          BY <3>1, <4>2 DEF V8Inv, V8Placed
        <5>2. c # b
          BY <1>5, <3>1, <5>1
        <5> QED BY <1>9, <3>3, <3>5, <5>1, <5>2
      <4> QED BY <1>2, <3>2, <4>1, <4>2
    <3>6. CASE V8Found(v8Pic', t) # {}
      <4>1. v8Job'.refs[t] \in V8Buf /\ v8Pic'[v8Job'.refs[t]].stamp = t
        BY <3>3, <3>4, <3>6
      <4>2. v8Job'.refs[t] # b
        BY <1>3, <1>9, <3>2, <4>1
      <4>3. v8Job'.refs[t] # 0
        BY <1>0, <4>1
      <4> QED BY <3>2, <4>1, <4>2, <4>3
    <3> QED BY <3>5, <3>6
  <2>4. v8Job'.f - 1 = n /\ v8Job'.f = Len(v8Log') /\ v8Job'.f \in 1..V8MaxFrames
    BY <1>4, <1>15, <2>1, <2>2
  <2>5. v8Job'.buf \in V8Buf /\ v8Pic'[v8Job'.buf].stamp = v8Job'.f
    BY <1>9, <2>1
  <2> HIDE DEF V8Inv, n
  <2>6. \A t \in DOMAIN v8Job'.refs :
          /\ t \in 1..(v8Job'.f - 1)
          /\ v8Job'.refs[t] = 0 => t \in v8Lost'
          /\ v8Job'.refs[t] # 0 => /\ v8Job'.refs[t] \in V8Buf \ {v8Job'.buf}
                                   /\ v8Pic'[v8Job'.refs[t]].stamp = t
    BY <2>1, <2>3, <2>4
  <2> QED BY <2>4, <2>5, <2>6 DEF V8Working
<1>14. V8Filtered'
  <2> SUFFICES ASSUME v8Up' = "vp8" PROVE V8Filtered'
    BY DEF V8Filtered
  <2>1. V8LastAmong(v8Log, n, v8Last)
    BY <1>2 DEF V8Inv, V8Filtered, n
  <2>2. V8LastAmong(v8Log', n, v8Last)
    BY <1>3, <1>4, <2>1, V8LastSame
  <2>3. V8LastAmong(v8Log', n + 1, v8Last')
    <3>1. CASE h.level = 0
      <4>1. v8Last' = v8Last /\ v8Log'[n + 1].h.level = 0
        BY <1>4, <1>5, <3>1 DEF V8LastAfter
      <4>2. CASE v8Last = V8NoLast /\ \A f \in 1..n : v8Log'[f].h.level = 0
        <5>1. \A f \in 1..(n + 1) : v8Log'[f].h.level = 0
          BY <1>3, <4>1, <4>2
        <5> QED BY <4>1, <4>2, <5>1 DEF V8LastAmong
      <4>3. ASSUME NEW f \in 1..n, v8Log'[f].h.level # 0,
                   \A g \in (f + 1)..n : v8Log'[g].h.level = 0,
                   v8Last = V8Of(v8Log'[f].h)
            PROVE  V8LastAmong(v8Log', n + 1, v8Last')
        <5>1. \A g \in (f + 1)..(n + 1) : v8Log'[g].h.level = 0
          BY <1>3, <4>1, <4>3
        <5>2. f \in 1..(n + 1)
          BY <1>3
        <5> QED BY <4>1, <4>3, <5>1, <5>2 DEF V8LastAmong
      <4> QED BY <2>2, <4>2, <4>3 DEF V8LastAmong
    <3>2. CASE h.level # 0
      <4>1. v8Last' = V8Of(h) /\ v8Log'[n + 1].h = h
        <5>1. v8Up = "vp8"
          BY <1>2
        <5>2. v8Last' = V8LastAfter(h)
          BY <1>5, <5>1
        <5> QED BY <1>4, <3>2, <5>2 DEF V8LastAfter, V8Of
      <4>2. n + 1 \in 1..(n + 1) /\ (n + 1 + 1)..(n + 1) = {}
        BY <1>3
      <4> QED BY <3>2, <4>1, <4>2 DEF V8LastAmong
    <3> QED BY <3>1, <3>2
  <2>4. v8Job'.f - 1 = n /\ v8Job'.last = v8Last
    BY <1>3, <1>5
  <2> QED BY <1>4, <2>2, <2>3, <2>4 DEF V8Filtered
<1> QED BY <1>8, <1>12, <1>13, <1>14 DEF V8Inv

\* A job is done, or fails.
LEMMA V8JobEndKeeps == V8Inv /\ V8JobEnd => V8Inv'
<1> SUFFICES ASSUME V8Inv, V8JobEnd PROVE V8Inv'
  OBVIOUS
<1> DEFINE n == Len(v8Log)
           b == v8Job.buf
<1>0. V8MaxFrames \in Nat
  BY V8Assumption DEF V8Assumption
<1>1. PICK done \in BOOLEAN :
        /\ v8Pic' = [v8Pic EXCEPT ![v8Job.buf].holds = IF done THEN v8Job.f ELSE 0]
        /\ v8Log' = [v8Log EXCEPT ![v8Job.f].end = IF done THEN "decoded" ELSE "failed"]
  BY DEF V8JobEnd
<1>2. v8Job' = V8Idle /\ v8Job # V8Idle /\ UNCHANGED <<v8Up, v8Last, v8Kept, v8Lost>>
  BY DEF V8JobEnd
<1>3. v8Job.f = n /\ n \in 1..V8MaxFrames /\ b \in V8Buf /\ v8Pic[b].stamp = n
  BY <1>2 DEF V8Inv, V8Working
<1>4. /\ v8Log \in Seq(V8Entries) /\ v8Pic \in [V8Buf -> V8Pics] /\ v8Up # ""
      /\ v8Kept \subseteq 1..n /\ v8Lost \subseteq 1..n
  BY <1>2 DEF V8Inv, V8Shape
<1> HIDE DEF b, n
<1>5. /\ v8Pic' \in [V8Buf -> V8Pics]
      /\ v8Pic'[b].holds = (IF done THEN n ELSE 0)
      /\ \A c \in V8Buf : v8Pic'[c].stamp = v8Pic[c].stamp
      /\ \A c \in V8Buf \ {b} : v8Pic'[c] = v8Pic[c]
  <2> DEFINE r == [v8Pic[b] EXCEPT !.holds = IF done THEN n ELSE 0]
  <2>1. v8Pic' = [v8Pic EXCEPT ![b] = r]
    BY <1>1, <1>3 DEF b
  <2>2. (IF done THEN n ELSE 0) \in V8Stamps
    BY <1>0, <1>3 DEF V8Stamps
  <2>3. v8Pic[b] \in V8Pics
    BY <1>3, <1>4
  <2>4. r \in V8Pics /\ r.stamp = v8Pic[b].stamp /\ r.holds = (IF done THEN n ELSE 0)
    BY <2>2, <2>3 DEF V8Pics
  <2> HIDE DEF r
  <2> QED BY <1>3, <1>4, <2>1, <2>4
<1>6. /\ v8Log' \in Seq(V8Entries) /\ Len(v8Log') = n
      /\ v8Log'[n].end = (IF done THEN "decoded" ELSE "failed")
      /\ \A f \in 1..n : v8Log'[f].h = v8Log[f].h
      /\ \A f \in 1..n : f # n => v8Log'[f] = v8Log[f]
  <2> DEFINE r == [v8Log[n] EXCEPT !.end = IF done THEN "decoded" ELSE "failed"]
  <2>1. v8Log' = [v8Log EXCEPT ![n] = r]
    BY <1>1, <1>3
  <2>2. n \in 1..Len(v8Log) /\ v8Log[n] \in V8Entries
    <3>1. n \in 1..Len(v8Log)
      BY <1>0, <1>3 DEF n
    <3>2. v8Log \in Seq(V8Entries)
      BY <1>4
    <3> QED BY <3>1, <3>2
  <2>3. /\ r \in V8Entries /\ r.h = v8Log[n].h
        /\ r.end = (IF done THEN "decoded" ELSE "failed")
    BY <2>2 DEF V8Entries
  <2> HIDE DEF r
  <2>4. v8Log' \in Seq(V8Entries) /\ Len(v8Log') = Len(v8Log) /\ v8Log'[n] = r
        /\ \A f \in 1..Len(v8Log) : f # n => v8Log'[f] = v8Log[f]
    <3>1. v8Log \in Seq(V8Entries) /\ n \in 1..Len(v8Log) /\ r \in V8Entries
      BY <1>4, <2>2, <2>3
    <3> QED BY <3>1, <2>1, V8Replaced
  <2>5. v8Log'[n].h = v8Log[n].h
    BY <2>3, <2>4
  <2>6. Len(v8Log) = n
    BY DEF n
  <2> QED BY <2>3, <2>4, <2>5, <2>6
<1>7. V8Shape'
  BY <1>2, <1>4, <1>5, <1>6 DEF V8Inv, V8Shape, n
<1>8. V8Placed'
  <2>1. \A c \in V8Buf : v8Pic[c].stamp \in 0..n
    <3>1. \A c \in V8Buf : v8Pic[c].stamp \in V8Stamps
      BY <1>4 DEF V8Pics
    <3>2. \A c \in V8Buf : v8Pic[c].stamp <= n
      BY DEF V8Inv, V8Placed, n
    <3> QED BY <1>3, <3>1, <3>2 DEF V8Stamps
  <2>2. ASSUME NEW c \in V8Buf, v8Pic'[c].stamp # 0, v8Log'[v8Pic'[c].stamp].end = "decoded"
        PROVE  v8Pic'[c].holds = v8Pic'[c].stamp
    <3>1. CASE c = b
      BY <1>3, <1>5, <1>6, <2>2, <3>1
    <3>2. CASE c # b
      <4>1. v8Pic[c].stamp \in 1..n /\ v8Pic[c].stamp # n
        <5>1. v8Pic[c].stamp # 0 /\ v8Pic[c].stamp # n
          BY <1>3, <1>5, <2>2, <3>2 DEF V8Inv, V8Placed
        <5> QED BY <1>3, <2>1, <5>1
      <4>2. v8Log[v8Pic[c].stamp].end = "decoded" /\ v8Pic'[c] = v8Pic[c]
        BY <1>5, <1>6, <2>2, <3>2, <4>1
      <4> QED BY <1>3, <4>1, <4>2 DEF V8Inv, V8Placed
    <3> QED BY <3>1, <3>2
  <2>3. /\ \A c \in V8Buf : v8Pic'[c].stamp <= Len(v8Log')
        /\ \A c, d \in V8Buf : v8Pic'[c].stamp = v8Pic'[d].stamp /\ v8Pic'[c].stamp # 0 => c = d
        /\ \A t \in v8Kept' \ v8Lost' : \E c \in V8Buf : v8Pic'[c].stamp = t
    BY <1>2, <1>5, <1>6 DEF V8Inv, V8Placed, n
  <2> QED BY <2>2, <2>3 DEF V8Placed
<1>9. V8Filtered'
  <2> SUFFICES ASSUME v8Up' = "vp8" PROVE V8LastAmong(v8Log', Len(v8Log'), v8Last')
    BY <1>2 DEF V8Filtered
  <2>1. V8LastAmong(v8Log, n, v8Last)
    BY <1>2 DEF V8Inv, V8Filtered, n
  <2>2. n \in Nat
    BY <1>3
  <2> QED BY <1>2, <1>6, <2>1, <2>2, V8LastSame
<1> QED BY <1>2, <1>7, <1>8, <1>9 DEF V8Inv, V8Working

\* Every step of the decoder keeps the invariant.
LEMMA V8StepKeeps == V8Inv /\ [V8Next]_v8Vars => V8Inv'
<1> SUFFICES ASSUME V8Inv, [V8Next]_v8Vars PROVE V8Inv'
  OBVIOUS
<1>1. CASE UNCHANGED v8Vars
  BY <1>1 DEF V8Inv, V8Shape, V8Placed, V8Working, V8Filtered, v8Vars
<1> QED BY <1>1, V8SetupKeeps, V8CleanupKeeps, V8FreedKeeps, V8JobRunKeeps, V8JobEndKeeps DEF V8Next

\* The inductive invariant of the VP8 decoder, for any buffers, headers and length of the
\* stream: which frame each buffer holds, what the references of the job mean, and which
\* loop filter the registers still have.
THEOREM Vp8Inductive == V8Spec => []V8Inv
  BY V8InitOK, V8StepKeeps, PTL DEF V8Spec
-----------------------------------------------------------------------------
(* The headers of VP8, and the image of its probabilities. *)

\* What a VP8 header is known by.
V8HeaderShape(h) ==
  /\ h.key \in BOOLEAN /\ h.segments \in BOOLEAN /\ h.map \in BOOLEAN /\ h.features \in BOOLEAN
  /\ h.adjust \in BOOLEAN /\ h.update \in BOOLEAN /\ h.golden \in BOOLEAN /\ h.alt \in BOOLEAN
  /\ h.skip \in BOOLEAN /\ h.ymode \in BOOLEAN /\ h.uvmode \in BOOLEAN
  /\ h.quants \in Nat /\ h.levels \in Nat /\ h.probs \in Nat /\ h.refs \in Nat
  /\ h.modes \in Nat /\ h.deltas \in Nat /\ h.mvs \in Nat

\* The bits of the syntax elements of a header.
V8Widths(h) == [i \in 1..29 |-> V8Elements(h)[i][1] * V8Elements(h)[i][2]]

\* The bits of each element, in terms of the header.
LEMMA V8WidthValues ==
  ASSUME NEW h, V8HeaderShape(h)
  PROVE  /\ Len(V8Elements(h)) = 29
         /\ V8Widths(h)[1] = (IF h.key THEN 2 ELSE 0)
         /\ V8Widths(h)[2] = 1
         /\ V8Widths(h)[3] = (IF h.segments THEN 2 ELSE 0)
         /\ V8Widths(h)[4] = (IF h.segments /\ h.features THEN 9 ELSE 0)
         /\ V8Widths(h)[5] = (IF h.segments /\ h.features THEN 8 * h.quants ELSE 0)
         /\ V8Widths(h)[6] = (IF h.segments /\ h.features THEN 7 * h.levels ELSE 0)
         /\ V8Widths(h)[7] = (IF h.segments /\ h.map THEN 3 ELSE 0)
         /\ V8Widths(h)[8] = (IF h.segments /\ h.map THEN 8 * h.probs ELSE 0)
         /\ V8Widths(h)[9] = 10
         /\ V8Widths(h)[10] = 1
         /\ V8Widths(h)[11] = (IF h.adjust THEN 1 ELSE 0)
         /\ V8Widths(h)[12] = (IF h.adjust /\ h.update THEN 8 ELSE 0)
         /\ V8Widths(h)[13] = (IF h.adjust /\ h.update THEN 7 * (h.refs + h.modes) ELSE 0)
         /\ V8Widths(h)[14] = 2
         /\ V8Widths(h)[15] = 7
         /\ V8Widths(h)[16] = 5
         /\ V8Widths(h)[17] = 5 * h.deltas
         /\ V8Widths(h)[18] = (IF ~h.key THEN 5 ELSE 0)
         /\ V8Widths(h)[19] = (IF ~h.key /\ ~h.golden THEN 2 ELSE 0)
         /\ V8Widths(h)[20] = (IF ~h.key /\ ~h.alt THEN 2 ELSE 0)
         /\ V8Widths(h)[21] = 1
         /\ V8Widths(h)[22] = 1
         /\ V8Widths(h)[23] = (IF h.skip THEN 8 ELSE 0)
         /\ V8Widths(h)[24] = (IF ~h.key THEN 24 ELSE 0)
         /\ V8Widths(h)[25] = (IF ~h.key THEN 2 ELSE 0)
         /\ V8Widths(h)[26] = (IF ~h.key /\ h.ymode THEN 32 ELSE 0)
         /\ V8Widths(h)[27] = (IF ~h.key /\ h.uvmode THEN 24 ELSE 0)
         /\ V8Widths(h)[28] = (IF ~h.key THEN 38 ELSE 0)
         /\ V8Widths(h)[29] = (IF ~h.key THEN 7 * h.mvs ELSE 0)
<1> DEFINE e == V8Elements(h)
<1>1. Len(e) = 29
  BY DEF V8Elements
<1>2. e[1] = <<1, (IF h.key THEN 2 ELSE 0)>>
  BY DEF V8Elements
<1>3. e[2] = <<1, 1>>
  BY DEF V8Elements
<1>4. e[3] = <<1, (IF h.segments THEN 2 ELSE 0)>>
  BY DEF V8Elements
<1>5. e[4] = <<1, (IF h.segments /\ h.features THEN 9 ELSE 0)>>
  BY DEF V8Elements
<1>6. e[5] = <<8, (IF h.segments /\ h.features THEN h.quants ELSE 0)>>
  BY DEF V8Elements
<1>7. e[6] = <<7, (IF h.segments /\ h.features THEN h.levels ELSE 0)>>
  BY DEF V8Elements
<1>8. e[7] = <<1, (IF h.segments /\ h.map THEN 3 ELSE 0)>>
  BY DEF V8Elements
<1>9. e[8] = <<8, (IF h.segments /\ h.map THEN h.probs ELSE 0)>>
  BY DEF V8Elements
<1>10. e[9] = <<10, 1>>
  BY DEF V8Elements
<1>11. e[10] = <<1, 1>>
  BY DEF V8Elements
<1>12. e[11] = <<1, (IF h.adjust THEN 1 ELSE 0)>>
  BY DEF V8Elements
<1>13. e[12] = <<1, (IF h.adjust /\ h.update THEN 8 ELSE 0)>>
  BY DEF V8Elements
<1>14. e[13] = <<7, (IF h.adjust /\ h.update THEN h.refs + h.modes ELSE 0)>>
  BY DEF V8Elements
<1>15. e[14] = <<2, 1>>
  BY DEF V8Elements
<1>16. e[15] = <<7, 1>>
  BY DEF V8Elements
<1>17. e[16] = <<1, 5>>
  BY DEF V8Elements
<1>18. e[17] = <<5, h.deltas>>
  BY DEF V8Elements
<1>19. e[18] = <<1, (IF ~h.key THEN 5 ELSE 0)>>
  BY DEF V8Elements
<1>20. e[19] = <<2, (IF ~h.key /\ ~h.golden THEN 1 ELSE 0)>>
  BY DEF V8Elements
<1>21. e[20] = <<2, (IF ~h.key /\ ~h.alt THEN 1 ELSE 0)>>
  BY DEF V8Elements
<1>22. e[21] = <<1, 1>>
  BY DEF V8Elements
<1>23. e[22] = <<1, 1>>
  BY DEF V8Elements
<1>24. e[23] = <<8, (IF h.skip THEN 1 ELSE 0)>>
  BY DEF V8Elements
<1>25. e[24] = <<8, (IF ~h.key THEN 3 ELSE 0)>>
  BY DEF V8Elements
<1>26. e[25] = <<1, (IF ~h.key THEN 2 ELSE 0)>>
  BY DEF V8Elements
<1>27. e[26] = <<8, (IF ~h.key /\ h.ymode THEN 4 ELSE 0)>>
  BY DEF V8Elements
<1>28. e[27] = <<8, (IF ~h.key /\ h.uvmode THEN 3 ELSE 0)>>
  BY DEF V8Elements
<1>29. e[28] = <<1, (IF ~h.key THEN 38 ELSE 0)>>
  BY DEF V8Elements
<1>30. e[29] = <<7, (IF ~h.key THEN h.mvs ELSE 0)>>
  BY DEF V8Elements
<1> HIDE DEF e
<1>31. V8Widths(h)[1] = (IF h.key THEN 2 ELSE 0)
  <2>1. V8Widths(h)[1] = e[1][1] * e[1][2]
    BY DEF V8Widths, e
  <2>2. QED BY <1>2, <2>1 DEF V8HeaderShape
<1>32. V8Widths(h)[2] = 1
  <2>1. V8Widths(h)[2] = e[2][1] * e[2][2]
    BY DEF V8Widths, e
  <2>2. QED BY <1>3, <2>1 DEF V8HeaderShape
<1>33. V8Widths(h)[3] = (IF h.segments THEN 2 ELSE 0)
  <2>1. V8Widths(h)[3] = e[3][1] * e[3][2]
    BY DEF V8Widths, e
  <2>2. QED BY <1>4, <2>1 DEF V8HeaderShape
<1>34. V8Widths(h)[4] = (IF h.segments /\ h.features THEN 9 ELSE 0)
  <2>1. V8Widths(h)[4] = e[4][1] * e[4][2]
    BY DEF V8Widths, e
  <2>2. QED BY <1>5, <2>1 DEF V8HeaderShape
<1>35. V8Widths(h)[5] = (IF h.segments /\ h.features THEN 8 * h.quants ELSE 0)
  <2>1. V8Widths(h)[5] = e[5][1] * e[5][2]
    BY DEF V8Widths, e
  <2>2. QED BY <1>6, <2>1 DEF V8HeaderShape
<1>36. V8Widths(h)[6] = (IF h.segments /\ h.features THEN 7 * h.levels ELSE 0)
  <2>1. V8Widths(h)[6] = e[6][1] * e[6][2]
    BY DEF V8Widths, e
  <2>2. QED BY <1>7, <2>1 DEF V8HeaderShape
<1>37. V8Widths(h)[7] = (IF h.segments /\ h.map THEN 3 ELSE 0)
  <2>1. V8Widths(h)[7] = e[7][1] * e[7][2]
    BY DEF V8Widths, e
  <2>2. QED BY <1>8, <2>1 DEF V8HeaderShape
<1>38. V8Widths(h)[8] = (IF h.segments /\ h.map THEN 8 * h.probs ELSE 0)
  <2>1. V8Widths(h)[8] = e[8][1] * e[8][2]
    BY DEF V8Widths, e
  <2>2. QED BY <1>9, <2>1 DEF V8HeaderShape
<1>39. V8Widths(h)[9] = 10
  <2>1. V8Widths(h)[9] = e[9][1] * e[9][2]
    BY DEF V8Widths, e
  <2>2. QED BY <1>10, <2>1 DEF V8HeaderShape
<1>40. V8Widths(h)[10] = 1
  <2>1. V8Widths(h)[10] = e[10][1] * e[10][2]
    BY DEF V8Widths, e
  <2>2. QED BY <1>11, <2>1 DEF V8HeaderShape
<1>41. V8Widths(h)[11] = (IF h.adjust THEN 1 ELSE 0)
  <2>1. V8Widths(h)[11] = e[11][1] * e[11][2]
    BY DEF V8Widths, e
  <2>2. QED BY <1>12, <2>1 DEF V8HeaderShape
<1>42. V8Widths(h)[12] = (IF h.adjust /\ h.update THEN 8 ELSE 0)
  <2>1. V8Widths(h)[12] = e[12][1] * e[12][2]
    BY DEF V8Widths, e
  <2>2. QED BY <1>13, <2>1 DEF V8HeaderShape
<1>43. V8Widths(h)[13] = (IF h.adjust /\ h.update THEN 7 * (h.refs + h.modes) ELSE 0)
  <2>1. V8Widths(h)[13] = e[13][1] * e[13][2]
    BY DEF V8Widths, e
  <2>2. QED BY <1>14, <2>1 DEF V8HeaderShape
<1>44. V8Widths(h)[14] = 2
  <2>1. V8Widths(h)[14] = e[14][1] * e[14][2]
    BY DEF V8Widths, e
  <2>2. QED BY <1>15, <2>1 DEF V8HeaderShape
<1>45. V8Widths(h)[15] = 7
  <2>1. V8Widths(h)[15] = e[15][1] * e[15][2]
    BY DEF V8Widths, e
  <2>2. QED BY <1>16, <2>1 DEF V8HeaderShape
<1>46. V8Widths(h)[16] = 5
  <2>1. V8Widths(h)[16] = e[16][1] * e[16][2]
    BY DEF V8Widths, e
  <2>2. QED BY <1>17, <2>1 DEF V8HeaderShape
<1>47. V8Widths(h)[17] = 5 * h.deltas
  <2>1. V8Widths(h)[17] = e[17][1] * e[17][2]
    BY DEF V8Widths, e
  <2>2. QED BY <1>18, <2>1 DEF V8HeaderShape
<1>48. V8Widths(h)[18] = (IF ~h.key THEN 5 ELSE 0)
  <2>1. V8Widths(h)[18] = e[18][1] * e[18][2]
    BY DEF V8Widths, e
  <2>2. QED BY <1>19, <2>1 DEF V8HeaderShape
<1>49. V8Widths(h)[19] = (IF ~h.key /\ ~h.golden THEN 2 ELSE 0)
  <2>1. V8Widths(h)[19] = e[19][1] * e[19][2]
    BY DEF V8Widths, e
  <2>2. QED BY <1>20, <2>1 DEF V8HeaderShape
<1>50. V8Widths(h)[20] = (IF ~h.key /\ ~h.alt THEN 2 ELSE 0)
  <2>1. V8Widths(h)[20] = e[20][1] * e[20][2]
    BY DEF V8Widths, e
  <2>2. QED BY <1>21, <2>1 DEF V8HeaderShape
<1>51. V8Widths(h)[21] = 1
  <2>1. V8Widths(h)[21] = e[21][1] * e[21][2]
    BY DEF V8Widths, e
  <2>2. QED BY <1>22, <2>1 DEF V8HeaderShape
<1>52. V8Widths(h)[22] = 1
  <2>1. V8Widths(h)[22] = e[22][1] * e[22][2]
    BY DEF V8Widths, e
  <2>2. QED BY <1>23, <2>1 DEF V8HeaderShape
<1>53. V8Widths(h)[23] = (IF h.skip THEN 8 ELSE 0)
  <2>1. V8Widths(h)[23] = e[23][1] * e[23][2]
    BY DEF V8Widths, e
  <2>2. QED BY <1>24, <2>1 DEF V8HeaderShape
<1>54. V8Widths(h)[24] = (IF ~h.key THEN 24 ELSE 0)
  <2>1. V8Widths(h)[24] = e[24][1] * e[24][2]
    BY DEF V8Widths, e
  <2>2. QED BY <1>25, <2>1 DEF V8HeaderShape
<1>55. V8Widths(h)[25] = (IF ~h.key THEN 2 ELSE 0)
  <2>1. V8Widths(h)[25] = e[25][1] * e[25][2]
    BY DEF V8Widths, e
  <2>2. QED BY <1>26, <2>1 DEF V8HeaderShape
<1>56. V8Widths(h)[26] = (IF ~h.key /\ h.ymode THEN 32 ELSE 0)
  <2>1. V8Widths(h)[26] = e[26][1] * e[26][2]
    BY DEF V8Widths, e
  <2>2. QED BY <1>27, <2>1 DEF V8HeaderShape
<1>57. V8Widths(h)[27] = (IF ~h.key /\ h.uvmode THEN 24 ELSE 0)
  <2>1. V8Widths(h)[27] = e[27][1] * e[27][2]
    BY DEF V8Widths, e
  <2>2. QED BY <1>28, <2>1 DEF V8HeaderShape
<1>58. V8Widths(h)[28] = (IF ~h.key THEN 38 ELSE 0)
  <2>1. V8Widths(h)[28] = e[28][1] * e[28][2]
    BY DEF V8Widths, e
  <2>2. QED BY <1>29, <2>1 DEF V8HeaderShape
<1>59. V8Widths(h)[29] = (IF ~h.key THEN 7 * h.mvs ELSE 0)
  <2>1. V8Widths(h)[29] = e[29][1] * e[29][2]
    BY DEF V8Widths, e
  <2>2. QED BY <1>30, <2>1 DEF V8HeaderShape
<1>60. QED BY <1>1, <1>31, <1>32, <1>33, <1>34, <1>35, <1>36, <1>37, <1>38, <1>39, <1>40, <1>41, <1>42, <1>43, <1>44, <1>45, <1>46, <1>47, <1>48, <1>49, <1>50, <1>51, <1>52, <1>53, <1>54, <1>55, <1>56, <1>57, <1>58, <1>59 DEF e

\* Whatever the header, the driver reads it to its end, bit for bit.
LEMMA HeaderReadToItsEnd ==
  ASSUME NEW h, V8HeaderShape(h)
  PROVE  V8BeforeCoefs(h) + V8AfterCoefs(h) = V8Syntax(h)
<1> DEFINE a == V8Widths(h)
           f == CHOOSE g : g = [i \in 0..29 |-> IF i = 0 THEN 0
                                  ELSE g[i - 1] + V8Elements(h)[i][1] * V8Elements(h)[i][2]]
<1>1. /\ a[1] = (IF h.key THEN 2 ELSE 0)
      /\ a[2] = 1
      /\ a[3] = (IF h.segments THEN 2 ELSE 0)
      /\ a[4] = (IF h.segments /\ h.features THEN 9 ELSE 0)
      /\ a[5] = (IF h.segments /\ h.features THEN 8 * h.quants ELSE 0)
      /\ a[6] = (IF h.segments /\ h.features THEN 7 * h.levels ELSE 0)
      /\ a[7] = (IF h.segments /\ h.map THEN 3 ELSE 0)
      /\ a[8] = (IF h.segments /\ h.map THEN 8 * h.probs ELSE 0)
      /\ a[9] = 10
      /\ a[10] = 1
      /\ a[11] = (IF h.adjust THEN 1 ELSE 0)
      /\ a[12] = (IF h.adjust /\ h.update THEN 8 ELSE 0)
      /\ a[13] = (IF h.adjust /\ h.update THEN 7 * (h.refs + h.modes) ELSE 0)
      /\ a[14] = 2
      /\ a[15] = 7
      /\ a[16] = 5
      /\ a[17] = 5 * h.deltas
      /\ a[18] = (IF ~h.key THEN 5 ELSE 0)
      /\ a[19] = (IF ~h.key /\ ~h.golden THEN 2 ELSE 0)
      /\ a[20] = (IF ~h.key /\ ~h.alt THEN 2 ELSE 0)
      /\ a[21] = 1
      /\ a[22] = 1
      /\ a[23] = (IF h.skip THEN 8 ELSE 0)
      /\ a[24] = (IF ~h.key THEN 24 ELSE 0)
      /\ a[25] = (IF ~h.key THEN 2 ELSE 0)
      /\ a[26] = (IF ~h.key /\ h.ymode THEN 32 ELSE 0)
      /\ a[27] = (IF ~h.key /\ h.uvmode THEN 24 ELSE 0)
      /\ a[28] = (IF ~h.key THEN 38 ELSE 0)
      /\ a[29] = (IF ~h.key THEN 7 * h.mvs ELSE 0)
  BY V8WidthValues
<1>2. Len(V8Elements(h)) = 29
  BY V8WidthValues
<1>3. V8Syntax(h) = f[29]
  BY <1>2 DEF V8Syntax
<1>4. f = CHOOSE g : SumEquation(g, a, 29)
  <2>1. ASSUME NEW g
        PROVE  [i \in 0..29 |-> IF i = 0 THEN 0
                                ELSE g[i - 1] + V8Elements(h)[i][1] * V8Elements(h)[i][2]]
                 = [i \in 0..29 |-> IF i = 0 THEN 0 ELSE g[i - 1] + a[i]]
    BY DEF V8Widths
  <2> HIDE DEF a
  <2>2. QED BY <2>1 DEF SumEquation
<1> HIDE DEF a, f
<1>5. /\ a[1] \in Nat /\ a[2] \in Nat /\ a[3] \in Nat /\ a[4] \in Nat /\ a[5] \in Nat
      /\ a[6] \in Nat /\ a[7] \in Nat /\ a[8] \in Nat /\ a[9] \in Nat /\ a[10] \in Nat
      /\ a[11] \in Nat /\ a[12] \in Nat /\ a[13] \in Nat /\ a[14] \in Nat /\ a[15] \in Nat
      /\ a[16] \in Nat /\ a[17] \in Nat /\ a[18] \in Nat /\ a[19] \in Nat /\ a[20] \in Nat
      /\ a[21] \in Nat /\ a[22] \in Nat /\ a[23] \in Nat /\ a[24] \in Nat /\ a[25] \in Nat
      /\ a[26] \in Nat /\ a[27] \in Nat /\ a[28] \in Nat /\ a[29] \in Nat
  BY <1>1 DEF V8HeaderShape
<1>6. a \in [1..29 -> Nat]
  <2>1. \A i \in 1..29 : a[i] \in Nat
    BY <1>5
  <2>2. a = [i \in 1..29 |-> a[i]]
    BY DEF a, V8Widths
  <2>3. QED BY <2>1, <2>2
<1>7. f[0] = 0 /\ (\A i \in 1..29 : f[i] = f[i - 1] + a[i]) /\ f[21] \in Nat
  <2>1. RunningSums(f, a, 29)
    BY <1>4, <1>6, RunningSum
  <2>2. QED BY <2>1 DEF RunningSums
<1>8. f[5] = a[1] + a[2] + a[3] + a[4] + a[5]
  BY <1>5, <1>7
<1>9. f[10] = a[1] + a[2] + a[3] + a[4] + a[5] + a[6] + a[7] + a[8] + a[9] + a[10]
  BY <1>5, <1>7, <1>8
<1>10. f[15] = a[1] + a[2] + a[3] + a[4] + a[5] + a[6] + a[7] + a[8] + a[9] + a[10]
              + a[11] + a[12] + a[13] + a[14] + a[15]
  BY <1>5, <1>7, <1>9
<1>11. f[21] = a[1] + a[2] + a[3] + a[4] + a[5] + a[6] + a[7] + a[8] + a[9] + a[10]
              + a[11] + a[12] + a[13] + a[14] + a[15] + a[16] + a[17] + a[18] + a[19] + a[20]
              + a[21]
  BY <1>5, <1>7, <1>10
<1>12. f[29] = f[21] + (a[22] + a[23] + a[24] + a[25] + a[26] + a[27] + a[28] + a[29]) /\ f[21] \in Nat
  <2>1. f[21] \in Nat
    BY <1>7
  <2>2. f[25] = f[21] + (a[22] + a[23] + a[24] + a[25])
    BY <1>5, <1>7, <2>1
  <2>3. f[29] = f[21] + (a[22] + a[23] + a[24] + a[25] + a[26] + a[27] + a[28] + a[29])
    BY <1>5, <1>7, <2>1, <2>2
  <2>4. QED BY <2>1, <2>3
<1>13. /\ h.key \in BOOLEAN /\ h.segments \in BOOLEAN /\ h.map \in BOOLEAN /\ h.features \in BOOLEAN
      /\ h.adjust \in BOOLEAN /\ h.update \in BOOLEAN /\ h.golden \in BOOLEAN /\ h.alt \in BOOLEAN
      /\ h.skip \in BOOLEAN /\ h.ymode \in BOOLEAN /\ h.uvmode \in BOOLEAN
      /\ h.quants \in Nat /\ h.levels \in Nat /\ h.probs \in Nat /\ h.refs \in Nat
      /\ h.modes \in Nat /\ h.deltas \in Nat /\ h.mvs \in Nat
  BY DEF V8HeaderShape
<1>14. V8BeforeCoefs(h) = a[1] + a[2] + a[3] + a[4] + a[5] + a[6] + a[7] + a[8] + a[9] + a[10]
              + a[11] + a[12] + a[13] + a[14] + a[15] + a[16] + a[17] + a[18] + a[19] + a[20]
              + a[21]
  <2>1. V8If(h.key, 1 + 1) = a[1]
    BY <1>1 DEF V8If
  <2>2. V8If(h.segments, process_segmentation_info(h)) = a[3] + a[4] + a[5] + a[6] + a[7] + a[8]
    <3> DEFINE q == 1 + V8Flags(4, h.quants, 7 + 1) + V8Flags(4, h.levels, 6 + 1)
               p == V8Flags(3, h.probs, 8)
    <3>1. q = 9 + 8 * h.quants + 7 * h.levels /\ p = 3 + 8 * h.probs
      BY <1>13 DEF V8Flags
    <3>2. process_segmentation_info(h) = 1 + 1 + V8If(h.features, q) + V8If(h.map, p)
      BY DEF process_segmentation_info
    <3> HIDE DEF q, p
    <3>3. CASE h.segments
      <4>1. V8If(h.features, q) = a[4] + a[5] + a[6]
        BY <1>1, <1>13, <3>1, <3>3 DEF V8If
      <4>2. V8If(h.map, p) = a[7] + a[8]
        BY <1>1, <1>13, <3>1, <3>3 DEF V8If
      <4>3. V8If(h.segments, process_segmentation_info(h)) = process_segmentation_info(h) /\ a[3] = 2
        BY <1>1, <3>3 DEF V8If
      <4> QED BY <1>5, <3>2, <4>1, <4>2, <4>3
    <3>4. CASE ~h.segments
      BY <1>1, <3>4 DEF V8If
    <3> QED BY <3>3, <3>4
  <2>3. V8If(h.adjust, process_ref_lf_delta_info(h)) = a[11] + a[12] + a[13]
    <3> DEFINE r == V8Flags(4, h.refs, 6 + 1) + V8Flags(4, h.modes, 6 + 1)
    <3>1. r = 8 + 7 * (h.refs + h.modes)
      BY <1>13 DEF V8Flags
    <3>2. process_ref_lf_delta_info(h) = 1 + V8If(h.update, r)
      BY DEF process_ref_lf_delta_info
    <3> HIDE DEF r
    <3>3. CASE h.adjust
      <4>1. V8If(h.update, r) = a[12] + a[13]
        BY <1>1, <1>13, <3>1, <3>3 DEF V8If
      <4>2. V8If(h.adjust, process_ref_lf_delta_info(h)) = process_ref_lf_delta_info(h) /\ a[11] = 1
        BY <1>1, <3>3 DEF V8If
      <4> QED BY <1>5, <3>2, <4>1, <4>2
    <3>4. CASE ~h.adjust
      BY <1>1, <3>4 DEF V8If
    <3> QED BY <3>3, <3>4
  <2>4. get_delta_q(h) = a[16] + a[17]
    BY <1>1, <1>13 DEF get_delta_q, V8Flags
  <2>5. /\ V8If(~h.key, process_ref_frame_info(h)) + 1 + V8If(~h.key, 1) = a[18] + a[19] + a[20] + a[21]
        /\ V8If(~h.key, process_ref_frame_info(h)) \in Nat /\ V8If(~h.key, 1) \in Nat
    BY <1>1, <1>13 DEF V8If, process_ref_frame_info
  <2>6. a[2] = 1 /\ a[9] = 10 /\ a[10] = 1 /\ a[14] = 2 /\ a[15] = 7
    BY <1>1
  <2> QED BY <1>5, <2>1, <2>2, <2>3, <2>4, <2>5, <2>6 DEF V8BeforeCoefs
<1>15. V8AfterCoefs(h) = a[22] + a[23] + a[24] + a[25] + a[26] + a[27] + a[28] + a[29]
  BY <1>1, <1>13, SMTT(60) DEF V8AfterCoefs, V8If, V8Flags
<1>16. V8BeforeCoefs(h) = f[21]
  BY <1>11, <1>14
<1>17. QED BY <1>3, <1>12, <1>15, <1>16

\* The VP8 header and the driver stay in step.
LEMMA HeadersRead == V8HeaderInStep
<1>1. ASSUME NEW h \in V8Headers PROVE V8HeaderShape(h)
  <2>1. PICK f \in SUBSET (1..11), q \in {<<0, 0, 0>>, <<1, 3, 2>>, <<4, 4, 3>>} :
          h = [key |-> 1 \in f, segments |-> 2 \in f, map |-> 3 \in f, features |-> 4 \in f,
               adjust |-> 5 \in f, update |-> 6 \in f, golden |-> 7 \in f, alt |-> 8 \in f,
               skip |-> 9 \in f, ymode |-> 10 \in f, uvmode |-> 11 \in f,
               quants |-> q[1], levels |-> q[2], probs |-> q[3], refs |-> q[1], modes |-> q[2],
               deltas |-> q[2] + q[3] \div 3, mvs |-> q[1] * q[3] * 3]
    BY DEF V8Headers
  <2>2. /\ h.key \in BOOLEAN /\ h.segments \in BOOLEAN /\ h.map \in BOOLEAN /\ h.features \in BOOLEAN
        /\ h.adjust \in BOOLEAN /\ h.update \in BOOLEAN /\ h.golden \in BOOLEAN /\ h.alt \in BOOLEAN
        /\ h.skip \in BOOLEAN /\ h.ymode \in BOOLEAN /\ h.uvmode \in BOOLEAN
    BY <2>1
  <2>3. q[1] \in 0..4 /\ q[2] \in 0..4 /\ q[3] \in 0..3
    BY <2>1
  <2>4. q[2] + q[3] \div 3 \in Nat /\ q[1] * q[3] * 3 \in Nat
    BY <2>3
  <2>5. /\ h.quants = q[1] /\ h.levels = q[2] /\ h.probs = q[3] /\ h.refs = q[1]
        /\ h.modes = q[2] /\ h.deltas = q[2] + q[3] \div 3 /\ h.mvs = q[1] * q[3] * 3
    BY <2>1
  <2>6. QED BY <2>2, <2>3, <2>4, <2>5 DEF V8HeaderShape
<1>2. QED BY <1>1, HeaderReadToItsEnd DEF V8HeaderInStep

\* The entropy image of VP8: no two areas overlap, and its trees are well formed.
LEMMA Vp8ImageSound == V8ImageSound
<1> DEFINE Bands == {<<i * 512 + j * 64 + k * 16, 11>> : i \in 0..3, j \in 0..7, k \in 0..2}
           Others == {<<4104, 4>>, <<4112, 3>>, <<4120, 3>>, <<4124, 1>>, <<4125, 1>>, <<4126, 1>>,
                      <<4127, 1>>, <<4128, 19>>, <<4160, 19>>}
           Written == Others \cup V8FixedAreas
<1>1. V8FrameAreas = Bands \cup Others
  BY DEF V8FrameAreas
<1>2. /\ \A x, y \in Written : x # y => FieldApart(x, y)
      /\ \A x \in Written : x[1] \in Nat /\ x[2] \in Nat /\ 2048 <= x[1] /\ x[1] + x[2] <= 9216
  BY DEF V8FixedAreas, FieldApart
<1>3. /\ \A x, y \in Bands : x # y => FieldApart(x, y)
      /\ \A x \in Bands : x[1] \in Nat /\ x[2] \in Nat /\ x[1] + x[2] <= 2048
  <2>1. \A x \in Bands : \E n \in Nat : n <= 126 /\ x = <<16 * n, 11>>
    <3>1. ASSUME NEW i \in 0..3, NEW j \in 0..7, NEW k \in 0..2
          PROVE  /\ 32 * i + 4 * j + k \in Nat /\ 32 * i + 4 * j + k <= 126
                 /\ i * 512 + j * 64 + k * 16 = 16 * (32 * i + 4 * j + k)
      OBVIOUS
    <3>2. ASSUME NEW x \in Bands PROVE \E n \in Nat : n <= 126 /\ x = <<16 * n, 11>>
      <4>1. PICK i \in 0..3, j \in 0..7, k \in 0..2 : x = <<i * 512 + j * 64 + k * 16, 11>>
        OBVIOUS
      <4> DEFINE n == 32 * i + 4 * j + k
      <4>2. n \in Nat /\ n <= 126 /\ x = <<16 * n, 11>>
        BY <3>1, <4>1
      <4> HIDE DEF n
      <4>3. QED BY <4>2
    <3>3. QED BY <3>2
  <2> HIDE DEF Bands
  <2>2. ASSUME NEW n \in Nat, NEW m \in Nat, n # m PROVE FieldApart(<<16 * n, 11>>, <<16 * m, 11>>)
    BY <2>2 DEF FieldApart
  <2>3. QED BY <2>1, <2>2
<1> HIDE DEF Bands, Written
<1>4. \A x \in Bands, y \in Written : FieldApart(x, y) /\ FieldApart(y, x)
  BY <1>2, <1>3 DEF FieldApart
<1>5. \A x \in V8FrameAreas, y \in V8FrameAreas \cup V8FixedAreas : x # y => FieldApart(x, y)
  BY <1>1, <1>2, <1>3, <1>4 DEF Written
<1>6. \A x \in V8FrameAreas \cup V8FixedAreas : x[1] + x[2] <= 9216
  BY <1>1, <1>2, <1>3 DEF Written
<1> DEFINE Sound(tree) ==
             /\ \A i, j \in DOMAIN tree : tree[i] = tree[j] => i = j
             /\ \A i \in DOMAIN tree : tree[i] < 128 => tree[i] % 2 = 0 /\ tree[i] \in i..(Len(tree) - 2)
             /\ {tree[i] : i \in DOMAIN tree} \cap 0..127 = {2 * k : k \in 1..(Len(tree) \div 2 - 1)}
           T == V8Trees
<1>7. DOMAIN T = {"kf_y_mode", "y_mode", "uv_mode", "small_mv", "split_mv", "b_mode", "submv_ref", "mv_ref"}
  BY DEF V8Trees
<1>8. Sound(T.kf_y_mode) BY DEF V8Trees
<1>9. Sound(T.y_mode) BY DEF V8Trees
<1>10. Sound(T.uv_mode) BY DEF V8Trees
<1>11. Sound(T.small_mv) BY DEF V8Trees
<1>12. Sound(T.split_mv) BY DEF V8Trees
<1>13. Sound(T.b_mode) BY DEF V8Trees
<1>14. Sound(T.submv_ref) BY DEF V8Trees
<1>15. Sound(T.mv_ref) BY DEF V8Trees
<1> HIDE DEF T, Sound
<1>16. \A name \in DOMAIN T : Sound(T[name])
  BY <1>7, <1>8, <1>9, <1>10, <1>11, <1>12, <1>13, <1>14, <1>15
<1>17. QED
  BY <1>5, <1>6, <1>16 DEF V8ImageSound, FieldApart, CEDRUS_DEC_VP8_ENTROPY_PROBS_SIZE, T, Sound
================================================================================
