------------------------------ MODULE CedrusH265 ------------------------------
(***************************************************************************)
(* The H.265 decoder of cedrus.  The hardware knows a reference by its     *)
(* index in the decoded picture buffer of the client; the driver writes an *)
(* entry per index to the SRAM for every slice, and the picture it decodes *)
(* into at an index of its own.  Entries stay in the SRAM until written    *)
(* again, across slices, frames and streams.                               *)
(*                                                                         *)
(* The client sends what a decoder may: the decoded picture buffer of a    *)
(* frame holds pictures of the one before and the frame before, a picture  *)
(* in it is not decoded into, and the slices of a frame follow each other. *)
(***************************************************************************)
EXTENDS CedrusArith, Sequences, FiniteSets

CONSTANTS
  H5Buf,        \* picture buffers
  H5Ctb,        \* sizes of coding tree blocks (16, 32, 64)
  H5Width, H5Height, \* the coded format
  H5MaxFrames,  \* bound: frames in a behaviour
  H5MaxDpb,     \* bound: pictures in the decoded picture buffer
  H5MaxFreed    \* bound: times the buffers are freed

ASSUME H5Assumption ==
  /\ H5Buf \subseteq Nat \ {0}
  /\ H5Ctb \subseteq {16, 32, 64}
  /\ H5Width \in Nat /\ H5Height \in Nat
  /\ H5MaxFrames \in Nat /\ H5MaxFreed \in Nat /\ H5MaxDpb \in 0..16

VARIABLES
  h5Pic,    \* struct cedrus_dec_h265_buffer, and the timestamp of the buffer
  h5Gen,    \* how often the picture buffers were freed (with what they own)
  h5Sram,   \* the frame entries of the SRAM
  h5Frame,  \* the frame the client is sending
  h5Job,    \* the slice on the hardware, or H5Idle
  h5Ran     \* history: timestamps of the frames with a slice that ran

h5Vars == <<h5Pic, h5Gen, h5Sram, h5Frame, h5Job, h5Ran>>

V4L2_HEVC_DPB_ENTRIES_NUM_MAX == 16
H5Index == 0..V4L2_HEVC_DPB_ENTRIES_NUM_MAX

H5Idle    == [buf |-> 0]
H5Fresh   == [stamp |-> 0, mv |-> 0]
H5Blank   == [buf |-> 0, gen |-> 0, mv |-> 0, field |-> FALSE]
H5NoFrame == [stamp |-> 0, buf |-> 0, dpb |-> <<>>, ctb |-> 16, slices |-> 0, mixed |-> FALSE]

H5Init ==
  /\ h5Pic = [b \in H5Buf |-> H5Fresh]
  /\ h5Gen = 0
  /\ h5Sram = [i \in H5Index |-> H5Blank]
  /\ h5Frame = H5NoFrame
  /\ h5Job = H5Idle
  /\ h5Ran = {}
-----------------------------------------------------------------------------
(* A slice job.                                                            *)

\* Motion vector bytes of a picture, from the coded format and the size of the
\* coding tree blocks; allocated once for a buffer.
H5MvSize(ctb) == DIV_ROUND_UP(H5Width, ctb) * DIV_ROUND_UP(H5Height, ctb) * 160 + 1024
\* Faulty variant of H5Allocated: sized for the largest blocks.
H5AllocatedLeast(pic, b, ctb) == [pic EXCEPT ![b].mv = IF @ = 0 THEN H5MvSize(64) ELSE @]
H5Allocated(pic, b, ctb) == [pic EXCEPT ![b].mv = IF @ = 0 THEN H5MvSize(ctb) ELSE @]

\* The first buffer with a timestamp (vb2_find_buffer).
H5Found(pic, t) == {b \in H5Buf : pic[b].stamp = t /\ \A c \in H5Buf : pic[c].stamp = t => b <= c}

H5Entry(pic, b, field) == [buf |-> b, gen |-> h5Gen, mv |-> pic[b].mv, field |-> field]

\* An entry for every reference that is found; the entry of any other keeps
\* what it had.  Then the entry of the target.
H5Written(pic, b, dpb, field) ==
  [i \in H5Index |->
     IF i = V4L2_HEVC_DPB_ENTRIES_NUM_MAX THEN H5Entry(pic, b, field)
     ELSE IF i < Len(dpb) /\ H5Found(pic, dpb[i + 1]) # {}
     THEN H5Entry(pic, CHOOSE c \in H5Found(pic, dpb[i + 1]) : TRUE, field)
     ELSE h5Sram[i]]

\* cedrus_context_job_run copies the timestamp before anything may fail.
H5Stamped(b, t) == [h5Pic EXCEPT ![b].stamp = t]

\* The entry point counts disagree, or no memory for the motion vectors.
H5Refused(b, t) ==
  /\ h5Pic' = H5Stamped(b, t)
  /\ UNCHANGED <<h5Sram, h5Job, h5Ran>>

\* The slice data has no offset, or a zero byte before it: the bit reader and
\* the tiles are set up by then, the rest is not.
H5BadHeader(b, t, ctb) ==
  /\ h5Pic' = H5Allocated(H5Stamped(b, t), b, ctb)
  /\ UNCHANGED <<h5Sram, h5Job, h5Ran>>

\* lists: the indices in the reference lists of the slice.
H5Start(b, t, dpb, lists, ctb, field) ==
  /\ h5Pic' = H5Allocated(H5Stamped(b, t), b, ctb)
  /\ h5Sram' = H5Written(h5Pic', b, dpb, field)
  /\ h5Job' = [buf |-> b, dpb |-> dpb, lists |-> lists, ctb |-> ctb]
  /\ h5Ran' = h5Ran \cup {t}

H5Run(b, t, dpb, ctb) ==
  \/ H5Refused(b, t)
  \/ H5BadHeader(b, t, ctb)
  \/ \E lists \in SUBSET (0..(Len(dpb) - 1)), field \in BOOLEAN : H5Start(b, t, dpb, lists, ctb, field)

\* Orders in which the client may list pictures.
H5Orders(s) == {q \in [1..Cardinality(s) -> s] : \A i, j \in DOMAIN q : i # j => q[i] # q[j]}
H5Known == {h5Frame.dpb[i] : i \in DOMAIN h5Frame.dpb} \cup ({h5Frame.stamp} \ {0})

H5FrameStart ==
  /\ h5Job = H5Idle /\ h5Frame.stamp < H5MaxFrames
  /\ \E s \in {d \in SUBSET H5Known : Cardinality(d) <= H5MaxDpb}, b \in H5Buf, ctb \in H5Ctb :
     \E dpb \in H5Orders(s) :
       LET t == h5Frame.stamp + 1
       IN  /\ h5Pic[b].stamp \notin s
           /\ H5Run(b, t, dpb, ctb)
           /\ h5Frame' = [stamp |-> t, buf |-> b, dpb |-> dpb, ctb |-> ctb, slices |-> 1,
                          mixed |-> (h5Frame.mixed \/ ((\E c \in H5Buf : h5Pic[c].mv # 0)
                                                       /\ ctb # h5Frame.ctb))]
  /\ UNCHANGED h5Gen

H5NextSlice ==
  /\ h5Job = H5Idle /\ h5Frame.slices = 1
  /\ h5Pic[h5Frame.buf].stamp = h5Frame.stamp
  /\ H5Run(h5Frame.buf, h5Frame.stamp, h5Frame.dpb, h5Frame.ctb)
  /\ h5Frame' = [h5Frame EXCEPT !.slices = 2]
  /\ UNCHANGED h5Gen

H5JobEnd ==
  /\ h5Job # H5Idle
  /\ h5Job' = H5Idle
  /\ UNCHANGED <<h5Pic, h5Gen, h5Sram, h5Frame, h5Ran>>

\* The picture buffers are freed with their motion vectors, and others take
\* their place.
H5BuffersFreed ==
  /\ h5Job = H5Idle /\ h5Gen < H5MaxFreed
  /\ h5Pic # [b \in H5Buf |-> H5Fresh]
  /\ h5Pic' = [b \in H5Buf |-> H5Fresh]
  /\ h5Gen' = h5Gen + 1
  /\ h5Frame' = [h5Frame EXCEPT !.mixed = FALSE]
  /\ UNCHANGED <<h5Sram, h5Job, h5Ran>>

H5Next == H5FrameStart \/ H5NextSlice \/ H5JobEnd \/ H5BuffersFreed

H5Spec == H5Init /\ [][H5Next]_h5Vars
-----------------------------------------------------------------------------
(* Bits, tiles and SRAM of a slice.                                        *)

\* cedrus_dec_h265_bits_skip: flushes of at most 32 bits, count in all.
H5Skipped(count) ==
  LET skipped[left \in 0..count] ==
        IF left = 0 THEN 0
        ELSE LET skip_count == IF left < 32 THEN left ELSE 32 IN skip_count + skipped[left - skip_count]
  IN  skipped[count]

\* Where the bit reader stands after skipping the header, in bits, given the
\* byte before the slice data: count is the place of its lowest set bit.
H5Count(padding) == CHOOSE c \in 1..8 :
  (padding \div Pow2(c - 1)) % 2 = 1 /\ \A d \in 1..(c - 1) : (padding \div Pow2(d - 1)) % 2 = 0
H5BitPosition(offset, padding) ==
  H5Skipped((offset - 1) * 8) + H5Skipped(8 - H5Count(padding))

\* Tiles: sizes is column_width or row_height, in coding tree blocks.
H5TileStart(sizes, k) ==
  LET s[i \in 0..Len(sizes)] == IF i = 0 THEN 0 ELSE s[i - 1] + sizes[i] IN s[k]
H5TileOf(sizes, ctb) ==
  CHOOSE k \in 0..(Len(sizes) - 1) :
    H5TileStart(sizes, k + 1) > ctb /\ \A j \in 0..(k - 1) : H5TileStart(sizes, j + 1) <= ctb

\* The tile of the slice and, for every entry point, the next tile: x and y
\* are carried along, not looked up.
H5Walk(cols, rows, ctb_x, ctb_y, n) ==
  LET tx0 == H5TileOf(cols, ctb_x)
      ty0 == H5TileOf(rows, ctb_y)
      w[i \in 0..n] ==
        IF i = 0
        THEN [tx |-> tx0, ty |-> ty0, x |-> H5TileStart(cols, tx0), y |-> H5TileStart(rows, ty0)]
        ELSE LET p == w[i - 1]
             IN  IF p.tx + 1 >= Len(cols)
                 THEN [tx |-> 0, ty |-> p.ty + 1, x |-> 0, y |-> p.y + rows[p.ty + 1]]
                 ELSE [p EXCEPT !.tx = p.tx + 1, !.x = p.x + cols[p.tx + 1]]
  IN  [i \in 0..n |->
         [start |-> <<w[i].x, w[i].y>>,
          end |-> <<w[i].x + cols[w[i].tx + 1] - 1, w[i].y + rows[w[i].ty + 1] - 1>>]]

\* Bytes written from an SRAM offset, with the longest lists: luma weights in
\* pairs, chroma weights, frame entries of 6 words, scaling lists, reference
\* lists of a byte per index.
H5Weights(n) == <<4 * DIV_ROUND_UP(n, 2), 4 * n>>
H5SramAreas ==
  {<<0, H5Weights(16)[1]>>, <<32, H5Weights(16)[2]>>,
   <<96, H5Weights(16)[1]>>, <<128, H5Weights(16)[2]>>,
   <<2048, 4 * (6 * 16 + 2 * 16 + 6 * 16 + 6 * 4)>>,
   <<3072, 16>>, <<3088, 16>>}
  \cup {<<1024 + 32 * i, 24>> : i \in H5Index}

\* Bytes of the entry points of a slice: an offset, or an offset and a tile.
CEDRUS_DEC_H265_ENTRY_POINTS_BUF_SIZE == 4096
H5EntryBytes(sync, num_entry_point_offsets) == (IF sync THEN 4 ELSE 16) * num_entry_point_offsets
-----------------------------------------------------------------------------
(* Properties.                                                             *)

\* Types of the variables.
H5TypeOK ==
  /\ h5Pic \in [H5Buf -> [stamp : 0..H5MaxFrames, mv : {0} \cup {H5MvSize(c) : c \in H5Ctb}]]
  /\ h5Gen \in 0..H5MaxFreed
  /\ h5Sram \in [H5Index -> [buf : H5Buf \cup {0}, gen : Nat, mv : Nat, field : BOOLEAN]]
  /\ h5Frame.stamp \in 0..H5MaxFrames /\ h5Frame.slices \in 0..2 /\ h5Frame.ctb \in H5Ctb \cup {16}
  /\ h5Job = H5Idle \/ (h5Job.buf \in H5Buf /\ h5Job.lists \subseteq 0..(Len(h5Job.dpb) - 1))
  /\ h5Ran \subseteq 1..H5MaxFrames

\* The entry of every reference in the lists whose picture is still there is
\* about that buffer and memory that is allocated, and it has motion vectors
\* when a slice of the picture ran.  (The entry of a picture that is gone is
\* whatever an earlier slice left, the freed buffers of an earlier stream
\* included.)  So is the entry of the target.
H5EntriesAlive ==
  h5Job # H5Idle =>
    /\ h5Sram[V4L2_HEVC_DPB_ENTRIES_NUM_MAX].buf = h5Job.buf
    /\ h5Sram[V4L2_HEVC_DPB_ENTRIES_NUM_MAX].mv > 0
    /\ \A i \in h5Job.lists : \A b \in H5Found(h5Pic, h5Job.dpb[i + 1]) :
         /\ h5Sram[i].buf = b /\ h5Sram[i].gen = h5Gen
         /\ h5Pic[b].stamp \in h5Ran => h5Sram[i].mv > 0

\* The motion vectors of the target fit its buffer, as long as the size of the
\* coding tree blocks has not changed since the buffers were allocated: the
\* first picture of a buffer sets it for all.
H5MotionVectorsFit ==
  h5Job # H5Idle /\ ~h5Frame.mixed => h5Pic[h5Job.buf].mv >= H5MvSize(h5Job.ctb)

\* Entry point i is that of the i-th tile after the one of the slice, in
\* raster order, for every tiling with up to three rows and columns.
H5TilesWalked ==
  LET Sizes == UNION {[1..n -> 1..3] : n \in 1..3}
  IN  \A cols, rows \in Sizes : \A k \in 0..(Len(cols) * Len(rows) - 1) :
        LET tile(j) == <<j % Len(cols), j \div Len(cols)>>
            last == Len(cols) * Len(rows) - 1 - k
            walk == H5Walk(cols, rows, H5TileStart(cols, tile(k)[1] + 1) - 1,
                           H5TileStart(rows, tile(k)[2]), last)
        IN  \A i \in 0..last :
              walk[i] = [start |-> <<H5TileStart(cols, tile(k + i)[1]), H5TileStart(rows, tile(k + i)[2])>>,
                         end |-> <<H5TileStart(cols, tile(k + i)[1] + 1) - 1,
                                   H5TileStart(rows, tile(k + i)[2] + 1) - 1>>]

\* The reader ends at the last 1 bit before the slice data: the alignment bit,
\* followed by zeros only.
H5AtAlignment ==
  \A padding \in 1..255, offset \in {1, 5, 7} :
    LET p == H5BitPosition(offset, padding) - (offset - 1) * 8
        bit(i) == (padding \div Pow2(7 - i)) % 2
    IN  bit(p) = 1 /\ \A i \in (p + 1)..7 : bit(i) = 0

\* No write to the SRAM reaches into another area, and the entry points of the
\* longest slice fit their buffer.
H5AreasApart ==
  /\ \A x, y \in H5SramAreas : x # y => x[1] + x[2] <= y[1] \/ y[1] + y[2] <= x[1]
  /\ \A sync \in BOOLEAN : H5EntryBytes(sync, 256) <= CEDRUS_DEC_H265_ENTRY_POINTS_BUF_SIZE
=============================================================================
