------------------------------ MODULE CedrusVp8 ------------------------------
(***************************************************************************)
(* The decoders of cedrus that give the hardware the addresses of their    *)
(* references: VP8, and MPEG-2, which keeps nothing between jobs.  A frame *)
(* is known by its timestamp, a number.  The client keeps pictures as      *)
(* references, refers to those alone, and decodes into none of them.       *)
(*                                                                         *)
(* VP8 also keeps the loop filter of the last frame that had one, for the  *)
(* hardware to finish that frame with, and an image of probabilities and   *)
(* trees that the hardware reads.                                          *)
(***************************************************************************)
EXTENDS CedrusArith, Sequences, FiniteSets

CONSTANTS
  V8Buf,       \* picture buffers
  V8Frame,     \* frame headers the client may send (a set of records)
  V8MaxFrames, \* bound: frames in a behaviour
  V8MaxRefs    \* bound: pictures the client keeps (three in VP8, two in MPEG-2)

\* A frame header: key frame, and loop filter level, type and sharpness.
V8Header == [key : BOOLEAN, level : 0..1, simple : BOOLEAN, sharpness : 0..1]

ASSUME V8Assumption ==
  /\ V8Buf \subseteq Nat \ {0}
  /\ V8Frame \subseteq V8Header
  /\ V8MaxFrames \in Nat

VARIABLES
  v8Up,    \* the coded queue streams, with the engine "vp8" or "mpeg2", or ""
  v8Last,  \* last_filter_type, last_frame_p_type and last_sharpness_level
  v8Pic,   \* timestamps of the buffers; history: the frame they hold
  v8Job,   \* the job on the hardware, or V8Idle
  v8Kept,  \* the references of the client
  v8Log,   \* history: the frames sent since the stream started
  v8Lost   \* history: frames whose buffers were freed

v8Vars == <<v8Up, v8Last, v8Pic, v8Job, v8Kept, v8Log, v8Lost>>

V8NoLast == [simple |-> FALSE, p |-> FALSE, sharpness |-> 0]
V8Fresh  == [stamp |-> 0, holds |-> 0]
V8Idle   == [f |-> 0]
V8Now    == Len(v8Log) + 1

V8Init ==
  /\ v8Up = ""
  /\ v8Last = V8NoLast
  /\ v8Pic = [b \in V8Buf |-> V8Fresh]
  /\ v8Job = V8Idle
  /\ v8Kept = {}
  /\ v8Log = <<>>
  /\ v8Lost = {}
-----------------------------------------------------------------------------
V8Setup ==
  /\ v8Up = "" /\ v8Log = <<>>
  /\ v8Up' \in {"vp8", "mpeg2"}
  /\ v8Last' = V8NoLast
  /\ UNCHANGED <<v8Pic, v8Job, v8Kept, v8Log, v8Lost>>

\* stop_streaming, between jobs; the client starts counting afresh.
V8Cleanup ==
  /\ v8Up # "" /\ v8Job = V8Idle
  /\ v8Up' = ""
  /\ v8Kept' = {} /\ v8Log' = <<>> /\ v8Lost' = {}
  /\ v8Pic' = [b \in V8Buf |-> V8Fresh]
  /\ UNCHANGED <<v8Last, v8Job>>

\* The picture buffers are freed, and others take their place.
V8BuffersFreed ==
  /\ v8Job = V8Idle
  /\ v8Pic # [b \in V8Buf |-> V8Fresh]
  /\ v8Pic' = [b \in V8Buf |-> V8Fresh]
  /\ v8Lost' = 1..Len(v8Log)
  /\ UNCHANGED <<v8Up, v8Last, v8Job, v8Kept, v8Log>>

\* The first buffer with a timestamp, or address 0.
V8Found(pic, t) == {b \in V8Buf : pic[b].stamp = t /\ \A c \in V8Buf : pic[c].stamp = t => b <= c}
V8Addresses(pic, refs) == [t \in refs |-> IF V8Found(pic, t) = {} THEN 0
                                         ELSE CHOOSE b \in V8Found(pic, t) : TRUE]

\* Faulty variant of V8LastAfter: an unfiltered frame is remembered too.
V8LastAfterAlways(h) == [simple |-> h.simple, p |-> ~h.key, sharpness |-> h.sharpness]
\* What the frame tells the hardware about the last one, and what it leaves
\* for the next: nothing when it is not filtered.
V8LastAfter(h) ==
  IF h.level = 0 THEN v8Last
  ELSE [simple |-> h.simple, p |-> ~h.key, sharpness |-> h.sharpness]

V8JobRun ==
  /\ v8Up # "" /\ v8Job = V8Idle /\ Len(v8Log) < V8MaxFrames
  /\ \E b \in V8Buf, h \in V8Frame, keep \in SUBSET (v8Kept \cup {V8Now}) :
     LET pic  == [v8Pic EXCEPT ![b] = [stamp |-> V8Now, holds |-> 0]]
         refs == IF h.key THEN {} ELSE v8Kept
     IN  /\ v8Pic[b].stamp \notin v8Kept
         /\ h.key \/ v8Kept # {}
         /\ Cardinality(keep) <= V8MaxRefs
         /\ v8Pic' = pic
         /\ v8Kept' = keep
         /\ v8Job' = [f |-> V8Now, buf |-> b, last |-> v8Last, refs |-> V8Addresses(pic, refs)]
         /\ v8Last' = IF v8Up = "vp8" THEN V8LastAfter(h) ELSE v8Last
         /\ v8Log' = Append(v8Log, [h |-> h, end |-> "running"])
  /\ UNCHANGED <<v8Up, v8Lost>>

\* The job ends, decoded or not; the engine keeps nothing of it.
V8JobEnd ==
  /\ v8Job # V8Idle
  /\ \E done \in BOOLEAN :
       /\ v8Pic' = [v8Pic EXCEPT ![v8Job.buf].holds = IF done THEN v8Job.f ELSE 0]
       /\ v8Log' = [v8Log EXCEPT ![v8Job.f].end = IF done THEN "decoded" ELSE "failed"]
  /\ v8Job' = V8Idle
  /\ UNCHANGED <<v8Up, v8Last, v8Kept, v8Lost>>

V8Next == V8Setup \/ V8Cleanup \/ V8BuffersFreed \/ V8JobRun \/ V8JobEnd

V8Spec == V8Init /\ [][V8Next]_v8Vars
-----------------------------------------------------------------------------
(* The bits the driver makes the hardware read from the frame header.  The *)
(* header is known by the optional parts it has: flags, and how many of a  *)
(* row of optional values are there.                                       *)

\* n flags, of which some are followed by more bits.
V8Flags(n, present, bits) == n + present * bits
V8If(condition, bits) == IF condition THEN bits ELSE 0

\* Faulty variant of get_delta_q: no sign bit.
get_delta_qUnsigned(h) == V8Flags(5, h.deltas, 4)
get_delta_q(h) == V8Flags(5, h.deltas, 4 + 1)
process_segmentation_info(h) ==
  1 + 1 + V8If(h.features, 1 + V8Flags(4, h.quants, 7 + 1) + V8Flags(4, h.levels, 6 + 1))
  + V8If(h.map, V8Flags(3, h.probs, 8))
process_ref_lf_delta_info(h) ==
  1 + V8If(h.update, V8Flags(4, h.refs, 6 + 1) + V8Flags(4, h.modes, 6 + 1))
process_ref_frame_info(h) == 1 + 1 + V8If(~h.golden, 2) + V8If(~h.alt, 2) + 1 + 1

\* Up to the token probabilities, which the hardware reads, and after them.
V8BeforeCoefs(h) ==
  V8If(h.key, 1 + 1) + 1 + V8If(h.segments, process_segmentation_info(h))
  + 1 + 6 + 3 + 1 + V8If(h.adjust, process_ref_lf_delta_info(h))
  + 2 + 7 + get_delta_q(h) + V8If(~h.key, process_ref_frame_info(h)) + 1 + V8If(~h.key, 1)
V8AfterCoefs(h) ==
  1 + V8If(h.skip, 8)
  + V8If(~h.key, 8 + 8 + 8 + 1 + V8If(h.ymode, 4 * 8) + 1 + V8If(h.uvmode, 3 * 8)
                 + V8Flags(2 * 19, h.mvs, 7))

(* The probability image: areas <<first, length>> written for every frame, *)
(* those written once, and the trees in it: an even number is the index of *)
(* the next pair, 128 + v the value v.                                     *)

CEDRUS_DEC_VP8_ENTROPY_PROBS_SIZE == 9216
V8FrameAreas ==
  {<<i * 512 + j * 64 + k * 16, 11>> : i \in 0..3, j \in 0..7, k \in 0..2}
  \cup {<<4104, 4>>, <<4112, 3>>, <<4120, 3>>, <<4124, 1>>, <<4125, 1>>, <<4126, 1>>, <<4127, 1>>,
        <<4128, 19>>, <<4160, 19>>}
V8FixedAreas == {<<2048, 2048>>, <<4096, 4>>, <<4192, 336>>}

V8Trees ==
  [kf_y_mode   |-> <<132, 2, 4, 6, 128, 129, 130, 131>>,
   y_mode      |-> <<128, 2, 4, 6, 129, 130, 131, 132>>,
   uv_mode     |-> <<128, 2, 129, 4, 130, 131>>,
   small_mv    |-> <<2, 8, 4, 6, 128, 129, 130, 131, 10, 12, 132, 133, 134, 135>>,
   split_mv    |-> <<131, 2, 130, 4, 128, 129>>,
   b_mode      |-> <<128, 2, 129, 4, 130, 6, 8, 12, 131, 10, 133, 134, 132, 14, 135, 16, 136, 137>>,
   submv_ref   |-> <<138, 2, 139, 4, 140, 141>>,
   mv_ref      |-> <<135, 2, 133, 4, 134, 6, 136, 137>>]
-----------------------------------------------------------------------------
(* Properties.                                                             *)

\* Types of the variables.
V8TypeOK ==
  /\ v8Up \in {"", "vp8", "mpeg2"}
  /\ v8Last \in [simple : BOOLEAN, p : BOOLEAN, sharpness : 0..1]
  /\ v8Pic \in [V8Buf -> [stamp : 0..V8MaxFrames, holds : 0..V8MaxFrames]]
  /\ v8Job = V8Idle \/ (v8Job.f = Len(v8Log) /\ v8Job.buf \in V8Buf)
  /\ v8Kept \subseteq 1..Len(v8Log) /\ v8Lost \subseteq 1..Len(v8Log)

\* The addresses of the references of a frame are those of the buffers that
\* hold them: the client's frame, not a later one decoded into the same buffer
\* nor the target.  A null address only for a frame whose buffer was freed.
V8ReferencesMeant ==
  v8Job # V8Idle =>
    \A t \in DOMAIN v8Job.refs :
      LET b == v8Job.refs[t]
      IN  /\ b = 0 => t \in v8Lost
          /\ b # 0 => b # v8Job.buf /\ (v8Log[t].end = "decoded" => v8Pic[b].holds = t)

\* The hardware is told of the loop filter of the last frame before this one
\* that was filtered, in this stream, whether or not it decoded.
V8LastIsPrevious ==
  v8Job # V8Idle /\ v8Up = "vp8" =>
    LET filtered == {f \in 1..(v8Job.f - 1) : v8Log[f].h.level # 0}
    IN  v8Job.last =
          IF filtered = {} THEN V8NoLast
          ELSE LET h == v8Log[CHOOSE f \in filtered : \A g \in filtered : g <= f].h
               IN  [simple |-> h.simple, p |-> ~h.key, sharpness |-> h.sharpness]

\* The header of a frame: the widths of the syntax elements of the format
\* (RFC 6386, 19.2), and how often they occur.
V8Elements(h) ==
  LET inter == ~h.key
      seg   == h.segments
      n(condition, count) == IF condition THEN count ELSE 0
  IN  <<<<1, n(h.key, 2)>>, <<1, 1>>,                       \* colour, clamping, segmentation
        <<1, n(seg, 2)>>, <<1, n(seg /\ h.features, 9)>>,   \* update flags, mode, presence
        <<8, n(seg /\ h.features, h.quants)>>, <<7, n(seg /\ h.features, h.levels)>>,
        <<1, n(seg /\ h.map, 3)>>, <<8, n(seg /\ h.map, h.probs)>>,
        <<10, 1>>, <<1, 1>>, <<1, n(h.adjust, 1)>>,         \* filter, adjustments
        <<1, n(h.adjust /\ h.update, 8)>>, <<7, n(h.adjust /\ h.update, h.refs + h.modes)>>,
        <<2, 1>>, <<7, 1>>, <<1, 5>>, <<5, h.deltas>>,      \* partitions, quantizers
        <<1, n(inter, 5)>>, <<2, n(inter /\ ~h.golden, 1)>>, <<2, n(inter /\ ~h.alt, 1)>>,
        <<1, 1>>,                                           \* refresh of the entropy
        <<1, 1>>, <<8, n(h.skip, 1)>>,                      \* skipping
        <<8, n(inter, 3)>>, <<1, n(inter, 2)>>,             \* intra, last, golden; flags
        <<8, n(inter /\ h.ymode, 4)>>, <<8, n(inter /\ h.uvmode, 3)>>,
        <<1, n(inter, 38)>>, <<7, n(inter, h.mvs)>>>>
V8Syntax(h) ==
  LET elements == V8Elements(h)
      bits(e) == e[1] * e[2]
      sum[i \in 0..Len(elements)] == IF i = 0 THEN 0 ELSE sum[i - 1] + bits(elements[i])
  IN  sum[Len(elements)]

V8Headers ==
  LET H(f, q) ==
        [key |-> 1 \in f, segments |-> 2 \in f, map |-> 3 \in f, features |-> 4 \in f,
         adjust |-> 5 \in f, update |-> 6 \in f, golden |-> 7 \in f, alt |-> 8 \in f,
         skip |-> 9 \in f, ymode |-> 10 \in f, uvmode |-> 11 \in f,
         quants |-> q[1], levels |-> q[2], probs |-> q[3], refs |-> q[1], modes |-> q[2],
         deltas |-> q[2] + q[3] \div 3, mvs |-> q[1] * q[3] * 3]
  IN  {H(f, q) : f \in SUBSET (1..11), q \in {<<0, 0, 0>>, <<1, 3, 2>>, <<4, 4, 3>>}}

\* The driver reads the header to its end, bit for bit.
V8HeaderInStep == \A h \in V8Headers : V8BeforeCoefs(h) + V8AfterCoefs(h) = V8Syntax(h)

\* What a frame writes to the image stays inside it, clear of its other parts
\* and of the constants; every tree reaches all of its pairs, and every value
\* by one path.
V8ImageSound ==
  /\ \A x \in V8FrameAreas, y \in V8FrameAreas \cup V8FixedAreas :
       x # y => x[1] + x[2] <= y[1] \/ y[1] + y[2] <= x[1]
  /\ \A x \in V8FrameAreas \cup V8FixedAreas : x[1] + x[2] <= CEDRUS_DEC_VP8_ENTROPY_PROBS_SIZE
  /\ \A name \in DOMAIN V8Trees :
       LET tree == V8Trees[name]
       IN  /\ \A i, j \in DOMAIN tree : tree[i] = tree[j] => i = j
           /\ \A i \in DOMAIN tree : tree[i] < 128 => tree[i] % 2 = 0 /\ tree[i] \in i..(Len(tree) - 2)
           /\ {tree[i] : i \in DOMAIN tree} \cap 0..127 = {2 * k : k \in 1..(Len(tree) \div 2 - 1)}
=============================================================================
