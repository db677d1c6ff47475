------------------------------ MODULE Vp9Layout ------------------------------
(***************************************************************************)
(* The sizes, offsets and register fields the VP9 decoder computes: tile   *)
(* geometry, reference scale factors, the probability image, the working   *)
(* buffers, the split reconstruction surface of 10 bit pictures and the    *)
(* per segment quantizer and loop filter levels.  Pure arithmetic: no      *)
(* state.  Sizes are in bytes, tiles in 64x64 superblocks.                 *)
(***************************************************************************)
EXTENDS CedrusArith, Sequences

CONSTANT VpSizes   \* the widths and heights considered

ASSUME VpSizesAssumption == VpSizes \subseteq 1..4096
-----------------------------------------------------------------------------
(* Tiles: Pow2(log) columns (rows) over sb superblock columns (rows).       *)

TileStart(i, sb, log) == (i * sb) \div Pow2(log)
TileEnd(i, sb, log)   == Field16(TileStart(i + 1, sb, log) - 1)

\* Faulty variant of FirstTileEnd: the width of a tile rounded up.
FirstTileEndUp(sb, log) == Field16(DIV_ROUND_UP(sb, Pow2(log)) - 1)
\* TILE_END, the register of the first tile.
FirstTileEnd(sb, log) == Field16((sb \div Pow2(log)) - 1)

\* The record of tile number 1.. in the row-major list, and its offset.
TileRecord(tile, cols, rows, clog, rlog) ==
  LET row == tile \div Pow2(clog)
      col == tile % Pow2(clog)
  IN  [offset |-> (tile - 1) * 16,
       x |-> TileStart(col, cols, clog), endX |-> TileEnd(col, cols, clog),
       y |-> TileStart(row, rows, rlog), endY |-> TileEnd(row, rows, rlog)]
-----------------------------------------------------------------------------
(* Scaled references.                                                      *)

ValidReferenceSize(rw, rh, w, h) ==
  rw <= 2 * w /\ rh <= 2 * h /\ w <= 16 * rw /\ h <= 16 * rh

\* The Q14 factor and the Q4 step minus one that every scale register holds.
ScaleFactor(ref, cur)   == (ref * 16384) \div cur
ScaleStep(ref, cur)     == ScaleFactor(ref, cur) \div 1024
Scale(ref, cur, id)     == [id |-> id, factor |-> ScaleFactor(ref, cur),
                            at |-> 5, step |-> (ScaleStep(ref, cur) - 1) % 32]
GoldenScale1(ref, cur)  == [id |-> 0, factor |-> ScaleFactor(ref, cur),
                            at |-> 16, step |-> (ScaleStep(ref, cur) - 1) % 32]
-----------------------------------------------------------------------------
(* The probability image: words written one after the other, then the two  *)
(* motion vector components at fixed places and the segment trees.         *)

PROBS_OFFSET       == 16384       \* 0x4000
PROBS_SIZE         == 2812        \* 0xafc
COUNTS_OFFSET      == 19200       \* 0x4b00
SEGMENT_MAP_OFFSET == 32768       \* 0x8000
PROB_COUNT_SIZE    == 557056      \* 0x88000
MV_IMAGE           == 2708        \* 0xa94

\* Words of each group, in the order cedrus_vp9_pack_probs writes them.
PackedWords ==
  << <<"tx8", 1>>, <<"tx16", 2>>, <<"tx32", 2>>, <<"coef", 4 * 2 * 2 * 6 * 6>>,
     <<"skip", 1>>, <<"inter_mode", 7>>, <<"interp_filter", 4>>,
     <<"is_inter", 1>>, <<"comp_mode", 2>>, <<"comp_ref", 2>>,
     <<"single_ref", 5 + 1>>, <<"y_mode", 4 * 4>>, <<"uv_mode", 10 * 4>>,
     <<"partition", 16>>, <<"mv.joint", 1>> >>

PackedEnd[i \in 0..Len(PackedWords)] ==
  IF i = 0 THEN 0 ELSE PackedEnd[i - 1] + 4 * PackedWords[i][2]

\* Faulty variant of MvFields: components 40 bytes apart.
MvFieldsClose(i) ==
  LET mv == MV_IMAGE + (1 - i) * 40
  IN  {<<mv, 1>>, <<mv + 1, 1>>, <<mv + 2, 1>>, <<mv + 3, 1>>, <<mv + 4, 3>>,
       <<mv + 8, 3>>, <<mv + 12, 10>>, <<mv + 28, 10>>, <<mv + 40, 3>>}
\* Fields written at a fixed place: offset and length.
MvFields(i) ==
  LET mv == MV_IMAGE + (1 - i) * 48
  IN  {<<mv, 1>>, <<mv + 1, 1>>, <<mv + 2, 1>>, <<mv + 3, 1>>, <<mv + 4, 3>>,
       <<mv + 8, 3>>, <<mv + 12, 10>>, <<mv + 28, 10>>, <<mv + 40, 3>>}
TreeFields == {<<2800, 7>>, <<2808, 3>>}

PackedFields ==
  {<<PackedEnd[i - 1], 4 * PackedWords[i][2]>> : i \in 1..(Len(PackedWords) - 1)}
    \cup {<<PackedEnd[Len(PackedWords) - 1], 3>>}
    \cup MvFields(0) \cup MvFields(1) \cup TreeFields

\* The counters the hardware leaves after the image, in 32 bit words:
\* transform sizes, coefficients, modes, and the two motion vector components.
CountWords ==
  (4 + 6 + 8) + (576 + 576 * 4) + (6 + 28 + 12 + 8 + 10 + 10 + 20)
    + (40 + 100 + 64 + 4) + 2 * (2 + 2 + 2 + 2 + 11 + 20 + 8 + 4)
-----------------------------------------------------------------------------
(* Working buffers, from the coded format.                                 *)

PAGE == 4096
MvColSize(w, h) ==
  LET rows == (15 + DIV_ROUND_UP(h, 8)) \div 8
      cols == (15 + DIV_ROUND_UP(w, 8)) \div 8
  IN  ALIGN(16384 + rows * cols * 5 * 128, PAGE)
SegmentMapSize(w, h) == DIV_ROUND_UP(w, 64) * DIV_ROUND_UP(h, 64) * 32

\* The 10 bit reconstruction: the eight high bits of luma and chroma, then the
\* two low bits of both, packed.
ReconLuma(w, h) == ALIGN(w, 16) * ALIGN(h, 16)
ReconHigh(w, h) == ReconLuma(w, h) + ReconLuma(w, h) \div 2
LowStride(w)    == ALIGN(ALIGN(w, 4) \div 4, 32)
ReconSize(w, h) ==
  ALIGN(ReconHigh(w, h) + (LowStride(w) * ALIGN(h, 16) * 3) \div 2, PAGE)

\* When the picture is decoded, the packed chroma moves from the line after
\* the 8-aligned luma, where the hardware wrote it, to the line after the
\* 16-aligned luma, where it reads references.
LowChromaWritten(w, h) == ReconHigh(w, h) + LowStride(w) * ALIGN(h, 8)
LowChromaRead(w, h)    == ReconHigh(w, h) + LowStride(w) * ALIGN(h, 16)
LowChromaLen(w, h)     == LowStride(w) * DIV_ROUND_UP(h, 2)
ChromaMoves(w, h, recon) ==
  /\ LowChromaWritten(w, h) # LowChromaRead(w, h)
  /\ LowChromaRead(w, h) + LowChromaLen(w, h) <= recon
-----------------------------------------------------------------------------
(* Segment features: a frame level value, replaced or shifted in a segment. *)

SegmentValue(enabled, absolute, data, base) ==
  IF ~enabled THEN base ELSE IF absolute THEN data ELSE data + base

\* Index into the quantizer tables, from the value of ALT_Q and the delta.
QuantIndex(q, delta) == Clamp(q + delta, 0, 255)

FilterLevel(level) == Clamp(level, 0, 63)
\* Level of one reference frame and mode, with the deltas of the frame.
FilterDelta(alt, ref, mode) ==
  LET level == FilterLevel(alt)
      scale == Pow2(level \div 32)
  IN  FilterLevel(level + ref * scale + mode * scale)
-----------------------------------------------------------------------------
(* Properties of these definitions.                                        *)

Superblocks == {DIV_ROUND_UP(s, 64) : s \in VpSizes}

\* Tile geometry: whenever there are at least as many superblocks as tiles, the
\* tiles of the list and the first one of the registers cover all superblocks
\* without gap or overlap, and none is empty.  (With fewer superblocks a tile
\* is empty and its end underflows; the code checks the logarithms only.)
TilesCover ==
  \A sb \in Superblocks, log \in 0..6 :
    Pow2(log) <= sb =>
      /\ TileStart(0, sb, log) = 0 /\ TileStart(Pow2(log), sb, log) = sb
      /\ FirstTileEnd(sb, log) = TileEnd(0, sb, log)
      /\ \A i \in 0..(Pow2(log) - 1) :
           /\ TileStart(i, sb, log) <= TileEnd(i, sb, log)
           /\ TileEnd(i, sb, log) + 1 = TileStart(i + 1, sb, log)

\* Reference scaling: the sizes job_configure accepts give a factor that fits
\* the 16 bits of its field and a step whose minus one does not underflow.
ScaleFits ==
  \A ref, cur \in VpSizes :
    ValidReferenceSize(ref, ref, cur, cur) =>
      ScaleFactor(ref, cur) < 65536 /\ ScaleStep(ref, cur) \in 1..32

\* 10 bit surfaces: the chroma bytes the hardware wrote and the place they move
\* to lie inside the surface allocated for the frame, so the move that
\* job_finish guards is never skipped.
ReconFits ==
  \A w, h \in VpSizes :
    /\ LowChromaWritten(w, h) <= LowChromaRead(w, h)
    /\ LowChromaRead(w, h) + LowChromaLen(w, h) <= ReconSize(w, h)

\* The probability image: the words end where the motion vectors start (the
\* WARN_ON of pack_probs) and no two fields overlap.
PackedDisjoint ==
  /\ PackedEnd[Len(PackedWords)] = MV_IMAGE
  /\ \A x, y \in PackedFields : x # y => x[1] + x[2] <= y[1] \/ y[1] + y[2] <= x[1]
  /\ \A x \in PackedFields : x[1] + x[2] <= PROBS_SIZE

\* The shared allocation: tile list, probabilities, counters and segment map
\* follow each other, for every coded size an engine can leave behind.
WorkAreasApart ==
  /\ TileRecord(Pow2(6) * Pow2(2) - 1, 64, 36, 6, 2).offset + 16 <= PROBS_OFFSET
  /\ PROBS_OFFSET + PROBS_SIZE <= COUNTS_OFFSET
  /\ COUNTS_OFFSET + 4 * CountWords <= SEGMENT_MAP_OFFSET
  /\ \A w, h \in VpSizes : SEGMENT_MAP_OFFSET + SegmentMapSize(w, h) <= PROB_COUNT_SIZE
=============================================================================
