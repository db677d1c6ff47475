------------------------------- MODULE Vp9Probs -------------------------------
(***************************************************************************)
(* The VP9 probability helper: the update of a probability by a difference *)
(* of the compressed header, its adaptation to the symbols the hardware    *)
(* counted, and which groups of probabilities a frame updates and adapts.  *)
(* A probability is an integer in 1..255.                                  *)
(***************************************************************************)
EXTENDS CedrusArith, Sequences

CONSTANTS
  VpProbs,  \* the probabilities considered
  VpCounts, \* the symbol counts considered
  VpOne     \* the one of the reciprocals of fastdiv, 2^32 in the code

ASSUME VpProbsAssumption == VpProbs \subseteq 1..255 /\ VpCounts \subseteq Nat
ASSUME VpOneAssumption == VpOne \in Nat /\ VpOne > 128 * 24 * 24

\* 6.3.6: the value at distance v from m, alternating below and above.
inv_recenter_nonneg(v, m) ==
  IF v > 2 * m THEN v
  ELSE IF v % 2 = 1 THEN m - (v + 1) \div 2
  ELSE m + v \div 2

\* 6.3.5, with the inverse map already applied by the client.
update_prob(delta, prob) ==
  IF delta = 0 THEN prob
  ELSE IF prob <= 128 THEN 1 + inv_recenter_nonneg(delta, prob - 1)
  ELSE 255 - inv_recenter_nonneg(delta, 255 - prob)

update_mv_prob(delta, prob) == IF delta = 0 THEN prob ELSE delta

\* DIV_INV, the reciprocal rounded up, and the multiplication by it.
DivInv(divisor) == (VpOne + divisor - 1) \div divisor
fastdiv(dividend, divisor) ==
  IF divisor = 0 THEN 0
  ELSE IF divisor \in 2..256 THEN (dividend * DivInv(divisor)) \div VpOne
  ELSE dividend

\* 8.4.1: pre_prob moved towards the share of ct0 among the counts.
merge_prob(pre_prob, ct0, ct1, count_sat, max_update_factor) ==
  LET den    == ct0 + ct1
      prob   == Clamp((ct0 * 256 + den \div 2) \div den, 1, 255)
      count  == IF den < count_sat THEN den ELSE count_sat
      factor == fastdiv(max_update_factor * count, count_sat)
  IN  IF den = 0 THEN pre_prob
      ELSE pre_prob + ((prob - pre_prob) * factor + 128) \div 256

\* Saturation and factor of the coefficients and of everything else.
COEF_SAT       == 24
NONCOEF_SAT    == 20
NONCOEF_FACTOR == 128
CoefFactor(intra, use_128) == IF ~intra /\ use_128 THEN 128 ELSE 112
-----------------------------------------------------------------------------
(* 8.4.2: the pairs of counts each probability of a group is merged with,  *)
(* in the order of the probabilities; c is the sequence of symbol counts,  *)
(* from 1 where the code counts from 0.  NoPair: left as it is.            *)

NoPair == <<0, 0>>

VariantA(c) == << NoPair, <<c[1], c[2] + c[3]>>, <<c[2], c[3]>> >>
VariantB(c) == << <<c[1], c[2]>> >>
VariantC(c) == << <<c[3], c[2] + c[1] + c[4]>>, <<c[1], c[2] + c[4]>>, <<c[2], c[4]>> >>
VariantD(c) ==
  LET s0 == c[2] + c[3] + c[4] + c[5] + c[6] + c[7] + c[8] + c[9] + c[10]
      s1 == s0 - c[10]
      s2 == s1 - c[2]
      t3 == c[3] + c[5] + c[6]
      s3 == s2 - t3
      t4 == t3 - c[3]
      s6 == s3 - c[4]
      s7 == s6 - c[9]
  IN  << <<c[1], s0>>, <<c[10], s1>>, <<c[2], s2>>, <<t3, s3>>, <<c[3], t4>>,
         <<c[5], c[6]>>, <<c[4], s6>>, <<c[9], s7>>, <<c[7], c[8]>> >>
VariantE(c) == << <<c[1], c[2] + c[3] + c[4]>>, <<c[2], c[3] + c[4]>>, <<c[3], c[4]>> >>
VariantF(c) == << <<c[1], c[2] + c[3]>>, <<c[2], c[3]>> >>
VariantG(c) ==
  LET s0 == c[2] + c[3] + c[4] + c[5] + c[6] + c[7] + c[8] + c[9] + c[10] + c[11]
      s1 == s0 - c[2]
      s2 == s1 - (c[3] + c[4])
      s4 == s2 - (c[5] + c[6])
      s6 == s4 - c[7]
  IN  << <<c[1], s0>>, <<c[2], s1>>, <<c[3] + c[4], s2>>, <<c[3], c[4]>>,
         <<c[5] + c[6], s4>>, <<c[5], c[6]>>, <<c[7], s6>>,
         <<c[8] + c[9], c[10] + c[11]>>, <<c[8], c[9]>>, <<c[10], c[11]>> >>

\* The end-of-block flag of the coefficients: counted blocks that went on, and
\* those that did not, by subtraction.
MoreCoefs(branch, more) == VariantB(<<more, branch - more>>)
-----------------------------------------------------------------------------
(* Groups of probabilities.  f is what the headers of the frame say:       *)
(* intra, tx_mode (number), switchable (interpolation filter), reference   *)
(* mode, and high precision motion vectors.                                *)

TX_MODE_SELECT == 4
CoefGroup(i)   == <<"coef4x4", "coef8x8", "coef16x16", "coef32x32">>[i + 1]

UpdatedTx(f)         == IF f.tx_mode = TX_MODE_SELECT THEN {"tx8", "tx16", "tx32"} ELSE {}
\* Up to the largest transform the mode allows.
UpdatedCoef(f)       == {CoefGroup(i) : i \in {i \in 0..3 : i <= f.tx_mode}}
UpdatedFilter(f)     == IF f.switchable THEN {"interp_filter"} ELSE {}
UpdatedReferences(f) ==
  (IF f.reference_mode = "select" THEN {"comp_mode"} ELSE {})
    \cup (IF f.reference_mode # "compound" THEN {"single_ref"} ELSE {})
    \cup (IF f.reference_mode # "single" THEN {"comp_ref"} ELSE {})
UpdatedMv(f)         ==
  {"joint", "sign", "classes", "class0_bit", "bits", "class0_fr", "fr"}
    \cup (IF f.high_precision THEN {"class0_hp", "hp"} ELSE {})

fw_update_probs(f) ==
  UpdatedTx(f) \cup UpdatedCoef(f) \cup {"skip"}
    \cup IF f.intra THEN {}
         ELSE {"inter_mode", "is_inter", "y_mode", "partition"} \cup UpdatedFilter(f)
                \cup UpdatedReferences(f) \cup UpdatedMv(f)

adapt_coef_probs == {CoefGroup(i) : i \in 0..3}

adapt_noncoef_probs(f) ==
  {"is_inter", "comp_mode", "comp_ref", "inter_mode", "y_mode", "uv_mode",
   "partition", "skip"}
    \cup (IF f.reference_mode # "compound" THEN {"single_ref"} ELSE {})
    \cup (IF f.switchable THEN {"interp_filter"} ELSE {})
    \cup (IF f.tx_mode = TX_MODE_SELECT THEN {"tx8", "tx16", "tx32"} ELSE {})
    \cup {"joint", "sign", "classes", "class0_bit", "bits", "class0_fr", "fr"}
    \cup (IF f.high_precision THEN {"class0_hp", "hp"} ELSE {})

\* Faulty variant of KeptAcrossReload: skip probabilities forgotten.
KeptAcrossReloadTx(f) == IF f.intra THEN {"tx8", "tx16", "tx32"} ELSE {}
\* What job_finish keeps of an updated table when it reloads the saved one.
KeptAcrossReload(f) == IF f.intra THEN {"tx8", "tx16", "tx32", "skip"} ELSE {}

Adapted(f) == adapt_coef_probs \cup IF f.intra THEN {} ELSE adapt_noncoef_probs(f)
-----------------------------------------------------------------------------
(* Properties of these definitions.                                        *)

\* A difference of the compressed header leads from a probability to every
\* other one, each from exactly one difference, and never out of 1..255.
UpdateIsPermutation ==
  \A p \in VpProbs : {update_prob(d, p) : d \in 1..254} = (1..255) \ {p}

\* Adaptation never leaves the interval between the old probability and 1 or
\* 255, moves towards the more frequent symbol, and never reaches 0, which the
\* hardware cannot decode with.
MergeStaysProbability ==
  \A p \in VpProbs, c0, c1 \in VpCounts, f \in {112, 128} :
    LET n == merge_prob(p, c0, c1, COEF_SAT, f)
    IN  /\ n \in 1..255
        /\ c1 = 0 => n >= p
        /\ c0 = 0 => n <= p

\* The trees of the format, an entry v > 0 the index of the next pair, -v the
\* symbol v; the small tokens from their second pair on.
VpTrees ==
  [small_token |-> <<0, 2, -1, -2>>,           binary   |-> <<0, -1>>,
   inter_mode  |-> <<-2, 2, 0, 4, -1, -3>>,    four     |-> <<0, 2, -1, 4, -2, -3>>,
   three       |-> <<0, 2, -1, -2>>,
   intra_mode  |-> <<0, 2, -9, 4, -1, 6, 8, 12, -2, 10, -4, -5, -3, 14, -8, 16, -6, -7>>,
   mv_class    |-> <<0, 2, -1, 4, 6, 8, -2, -3, 10, 12, -4, -5, -6, 14, 16, 18, -7, -8, -9, -10>>]

\* The symbols below entry i of a tree, i from 0.
SymbolsBelow(tree) ==
  LET below[i \in 0..(Len(tree) - 1)] ==
        IF tree[i + 1] <= 0 THEN {0 - tree[i + 1]}
        ELSE below[tree[i + 1]] \cup below[tree[i + 1] + 1]
  IN  below

\* The pairs merged when a single symbol was counted, once.
Variants(c) ==
  [small_token |-> Tail(VariantA(c)), binary |-> VariantB(c), inter_mode |-> VariantC(c),
   four |-> VariantE(c), three |-> VariantF(c), intra_mode |-> VariantD(c), mv_class |-> VariantG(c)]

\* Each probability is merged with the counts of the symbols below the two
\* branches of its node: the sums of the code, carried along by subtraction,
\* are those of the recursive process of the format.
MergeFollowsTrees ==
  \A s \in 0..10 :
    LET one == [i \in 1..11 |-> IF i = s + 1 THEN 1 ELSE 0]
    IN  \A name \in DOMAIN VpTrees :
          LET below == SymbolsBelow(VpTrees[name])
              pairs == Variants(one)[name]
              count(i) == IF s \in below[i] THEN 1 ELSE 0
          IN  \A n \in 1..(Len(VpTrees[name]) \div 2) :
                pairs[n] = <<count(2 * n - 2), count(2 * n - 1)>>

VpHeaders ==
  [intra : BOOLEAN, tx_mode : 0..4, switchable : BOOLEAN,
   reference_mode : {"single", "compound", "select"}, high_precision : BOOLEAN]

\* Every group the compressed header of a frame changes is, when the context is
\* reloaded for adaptation, either adapted or carried over.
NoDeltaLost ==
  \A f \in VpHeaders : fw_update_probs(f) \subseteq Adapted(f) \cup KeptAcrossReload(f)
=============================================================================
