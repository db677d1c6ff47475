------------------------------ MODULE CedrusH264 ------------------------------
(***************************************************************************)
(* The H.264 decoder of cedrus.  The hardware knows a picture by its       *)
(* position in a list of 18 in its SRAM, which the driver rewrites for     *)
(* every slice: it gives the target a position no picture of the decoded   *)
(* picture buffer has, and a motion vector buffer the first time.  A frame *)
(* is known by its timestamp, a number; a job decodes one slice or field.  *)
(*                                                                         *)
(* The client sends what a decoder may: the decoded picture buffer of a    *)
(* frame holds pictures of the one before and the frame before, a picture  *)
(* in it is not decoded into, and the slices and fields of a frame follow  *)
(* each other into one buffer.                                             *)
(***************************************************************************)
EXTENDS CedrusArith, Sequences, FiniteSets

CONSTANTS
  H4Buf,       \* picture buffers
  H4Sps,       \* sequence parameters (a set of records)
  H4MaxFrames, \* bound: frames in a behaviour
  H4MaxDpb     \* bound: pictures in the decoded picture buffer (16 in H.264)

ASSUME H4Assumption ==
  /\ H4Buf \subseteq Nat
  /\ H4Sps \subseteq [inference : BOOLEAN, mbs_only : BOOLEAN]
  /\ H4MaxFrames \in Nat
  /\ H4MaxDpb \in 0..16

VARIABLES
  h4Pic,     \* struct cedrus_dec_h264_buffer, and the timestamp of the buffer
  h4Frame,   \* the frame the client is sending
  h4Job,     \* the slice on the hardware, or H4Idle
  h4Mixed    \* history: the buffers have seen more than one sequence

h4Vars == <<h4Pic, h4Frame, h4Job, h4Mixed>>

CEDRUS_DEC_H264_FRAME_NUM == 18
H4Positions == 0..(CEDRUS_DEC_H264_FRAME_NUM - 1)
H4PicType   == {"frame", "field", "mbaff"}

H4Idle  == [out |-> CEDRUS_DEC_H264_FRAME_NUM]
H4Fresh == [stamp |-> 0, position |-> 0, type |-> "frame", mv |-> 0]
H4NoFrame == [stamp |-> 0, buf |-> 0, dpb |-> {}, out |-> 0, sps |-> {}, slices |-> 0]

H4Init ==
  /\ h4Pic = [b \in H4Buf |-> H4Fresh]
  /\ h4Frame = H4NoFrame
  /\ h4Job = H4Idle
  /\ h4Mixed = FALSE
-----------------------------------------------------------------------------
(* What a slice job writes.                                                *)

\* Motion vector bytes of a picture, in units of 16 per macroblock.
H4MvSize(sps) ==
  2 * (IF sps.inference THEN 1 ELSE 2) * (IF sps.mbs_only THEN 1 ELSE 2)

\* The first buffer with a timestamp (vb2_find_buffer).
H4Found(pic, t) == {b \in H4Buf : pic[b].stamp = t /\ \A c \in H4Buf : pic[c].stamp = t => b <= c}

H4Used(pic, dpb) == UNION {{pic[b].position : b \in H4Found(pic, t)} : t \in dpb}

\* The position of the target: its own if the client lists it (second field),
\* else the first free one.
H4FirstFree(used) ==
  IF H4Positions \subseteq used THEN CEDRUS_DEC_H264_FRAME_NUM
  ELSE CHOOSE p \in H4Positions \ used : \A q \in H4Positions \ used : p <= q
\* Faulty variant of H4Position: a second field takes a new position.
H4PositionFree(pic, b, t, dpb) == H4FirstFree(H4Used(pic, dpb))
H4Position(pic, b, t, dpb) ==
  IF t \in dpb /\ b \in H4Found(pic, t) THEN pic[b].position
  ELSE H4FirstFree(H4Used(pic, dpb))

\* cedrus_fill_ref_pic: the addresses of the picture and of its motion vectors.
H4Entry(pic, b) == [buf |-> b, type |-> pic[b].type, mv |-> pic[b].mv]
H4Empty == [buf |-> 0, type |-> "frame", mv |-> 0]

\* The list: the active pictures at their positions, then the target.
H4List(pic, b, t, active) ==
  [p \in H4Positions |->
     LET here == UNION {{c \in H4Found(pic, u) : pic[c].position = p} : u \in active \ {t}}
     IN  IF p = pic[b].position THEN H4Entry(pic, b)
         ELSE IF here # {} THEN H4Entry(pic, CHOOSE c \in here : \A d \in here : d <= c)
         ELSE H4Empty]

\* The reference lists: position of every active picture; 0 for any other.
H4RefIndex(pic, active, u) ==
  IF u \in active /\ H4Found(pic, u) # {}
  THEN pic[CHOOSE b \in H4Found(pic, u) : TRUE].position ELSE 0
-----------------------------------------------------------------------------
(* Jobs.                                                                   *)

\* What a job finds after cedrus_context_job_run copied the timestamp and
\* cedrus_write_frame_list chose the position.
H4Placed(b, t, dpb) ==
  LET pic == [h4Pic EXCEPT ![b].stamp = t]
  IN  [pic EXCEPT ![b].position = H4Position(pic, b, t, dpb)]

\* The motion vector buffer cannot be allocated: the job fails.
H4NoMemory(b, t, dpb) ==
  /\ h4Pic[b].mv = 0
  /\ h4Pic' = H4Placed(b, t, dpb)
  /\ h4Job' = H4Idle

\* Motion vectors allocated once for a buffer, the type of the picture, lists.
H4Start(b, t, dpb, active, sps, type, first) ==
  LET pic == [H4Placed(b, t, dpb) EXCEPT
                ![b].mv = IF h4Pic[b].mv = 0 THEN H4MvSize(sps) ELSE @,
                ![b].type = type]
  IN  /\ h4Pic' = pic
      /\ h4Job' = [out |-> pic[b].position, buf |-> b, sps |-> sps, active |-> active,
                   list |-> H4List(pic, b, t, active),
                   refs |-> [u \in dpb |-> H4RefIndex(pic, active, u)],
                   first |-> first]

H4Run(b, t, dpb, active, sps, type, first) ==
  H4NoMemory(b, t, dpb) \/ H4Start(b, t, dpb, active, sps, type, first)

H4Types(sps) == IF sps.mbs_only THEN {"frame"} ELSE H4PicType

\* First slice of a frame, into a buffer the decoded pictures do not need.
\* v4l2 calls it a new frame.
H4FrameStart ==
  /\ h4Job = H4Idle /\ h4Frame.stamp < H4MaxFrames
  /\ \E dpb \in SUBSET (h4Frame.dpb \cup ({h4Frame.stamp} \ {0})), sps \in H4Sps :
     \E active \in SUBSET dpb, b \in H4Buf, type \in H4Types(sps) :
       LET t == h4Frame.stamp + 1
       IN  /\ Cardinality(dpb) <= H4MaxDpb
           /\ h4Pic[b].stamp \notin dpb
           /\ H4Run(b, t, dpb, active, sps, type, TRUE)
           /\ h4Frame' = [stamp |-> t, buf |-> b, dpb |-> dpb, sps |-> sps, slices |-> 1,
                          out |-> h4Pic'[b].position]
           /\ h4Mixed' = (h4Mixed \/ ((\E c \in H4Buf : h4Pic[c].mv # 0) /\ sps # h4Frame.sps))

\* Another slice of the frame with the same pictures, or its second field,
\* whose pictures include the frame itself when its first field is a reference.
H4NextSlice ==
  /\ h4Job = H4Idle /\ h4Frame.slices = 1
  /\ \E own \in {{}, {h4Frame.stamp}}, gone \in SUBSET h4Frame.dpb :
     \E active \in SUBSET ((h4Frame.dpb \ gone) \cup own), type \in H4Types(h4Frame.sps) :
       LET dpb == (h4Frame.dpb \ gone) \cup own
       IN  /\ own = {} => gone = {}
           /\ h4Pic[h4Frame.buf].stamp = h4Frame.stamp
           /\ H4Run(h4Frame.buf, h4Frame.stamp, dpb, active, h4Frame.sps, type, FALSE)
           /\ h4Frame' = [h4Frame EXCEPT !.dpb = dpb \ own, !.slices = 2]
  /\ UNCHANGED h4Mixed

\* The slice ended, decoded or not: no engine state depends on it.
H4JobEnd ==
  /\ h4Job # H4Idle
  /\ h4Job' = H4Idle
  /\ UNCHANGED <<h4Pic, h4Frame, h4Mixed>>

\* The picture buffers are freed with their motion vectors, and others take
\* their place; pictures of the client's list are lost.
H4BuffersFreed ==
  /\ h4Job = H4Idle
  /\ h4Pic # [b \in H4Buf |-> H4Fresh]
  /\ h4Pic' = [b \in H4Buf |-> H4Fresh]
  /\ h4Mixed' = FALSE
  /\ UNCHANGED <<h4Frame, h4Job>>

H4Next == H4FrameStart \/ H4NextSlice \/ H4JobEnd \/ H4BuffersFreed

H4Spec == H4Init /\ [][H4Next]_h4Vars
-----------------------------------------------------------------------------
(* The SRAM and the words of a slice.                                      *)

\* Words written from an offset: prediction weights (two lists of 32 luma and
\* 32 pairs of chroma factors), pictures (8 words), reference lists (a byte
\* per reference), scaling lists.
H4SramAreas ==
  {<<0, 2 * (32 + 32 * 2)>>, <<256, CEDRUS_DEC_H264_FRAME_NUM * 8>>,
   <<400, 32 \div 4>>, <<409, 32 \div 4>>,
   <<512, 64 \div 4>>, <<528, 64 \div 4>>, <<544, (6 * 16) \div 4>>}

\* Position of the first macroblock, counted in pairs in an adaptive frame.
H4SliceX(first_mb, width)        == (first_mb % width) % 256
H4SliceY(first_mb, width, mbaff) == ((first_mb \div width) * (IF mbaff THEN 2 ELSE 1)) % 256
-----------------------------------------------------------------------------
(* Properties.                                                             *)

H4Running == [out : H4Positions, buf : H4Buf, sps : H4Sps, active : SUBSET Nat,
              list : [H4Positions -> [buf : H4Buf \cup {0}, type : H4PicType, mv : Nat]],
              refs : UNION {[s -> H4Positions] : s \in SUBSET (1..H4MaxFrames)},
              first : BOOLEAN]

\* Types of the variables; a position always fits the list.
H4TypeOK ==
  /\ h4Pic \in [H4Buf -> [stamp : Nat, position : H4Positions, type : H4PicType, mv : Nat]]
  /\ h4Frame.stamp \in 0..H4MaxFrames /\ h4Frame.slices \in 0..2
  /\ h4Frame.dpb \subseteq 1..H4MaxFrames
  /\ h4Job = H4Idle \/ h4Job \in H4Running
  /\ h4Mixed \in BOOLEAN

\* Every active picture the driver finds is reached by its index: the list
\* holds its own addresses there, not those of another picture or the target.
H4ReferencesResolved ==
  h4Job # H4Idle =>
    /\ h4Job.list[h4Job.out].buf = h4Job.buf
    /\ \A t \in h4Job.active :
         \A b \in H4Found(h4Pic, t) : h4Job.list[h4Job.refs[t]] = H4Entry(h4Pic, b)

\* All slices and fields of a frame decode into the same position.
H4PositionStable == h4Job # H4Idle => h4Job.out = h4Frame.out

\* The motion vectors of the target fit its buffer, as long as all the
\* pictures decoded into these buffers belong to one sequence: the size is set
\* by the first one.
H4MotionVectorsFit ==
  h4Job # H4Idle /\ ~h4Mixed => h4Pic[h4Job.buf].mv >= H4MvSize(h4Job.sps)

\* No write to the SRAM reaches into another area.
H4SramApart ==
  \A x, y \in H4SramAreas : x # y => x[1] + x[2] <= y[1] \/ y[1] + y[2] <= x[1]

\* The two bytes of the slice position determine the first macroblock for all
\* sizes the decoder accepts (240 macroblocks each way).
H4SliceAddressed ==
  \A width \in {1, 120, 239, 240}, row \in 0..239 : \A col \in {0, width - 1} :
    LET mb == row * width + col
    IN  /\ H4SliceX(mb, width) = col /\ H4SliceY(mb, width, FALSE) = row
        /\ row < 120 => H4SliceY(mb, width, TRUE) = 2 * row
=============================================================================
