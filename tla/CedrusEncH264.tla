----------------------------- MODULE CedrusEncH264 -----------------------------
(***************************************************************************)
(* The H.264 encoder of cedrus: the controls and when they reach the       *)
(* engine, the group of pictures, the parameter sets and when they are     *)
(* sent again, the reference of a predicted frame.                         *)
(*                                                                         *)
(* The other side of the stream is here too: a decoder that takes what is  *)
(* delivered, in order (enDec, history).  The encoder is right when the    *)
(* decoder derives for each slice what the hardware was told.              *)
(***************************************************************************)
EXTENDS CedrusArith, Sequences, FiniteSets

CONSTANTS
  EnBuf,       \* picture buffers, each with a reconstruction
  EnControl,   \* values of the controls when the stream starts (a set of records)
  EnChange,    \* changes of a control while it streams: <<control, value>>
  EnNumLog,    \* log2_max_frame_num, 8 in the code
  EnMaxFrames, \* bound: frames in a behaviour
  EnMaxChanges \* bound: changes of controls in a behaviour

\* profile 0 has no CABAC (Baseline), 1 has it (Main); the flags are 0 or 1.
EnFlag     == 0..1
EnOffset   == 0..7
EnMaxLength == 65535
EnLength   == 1..EnMaxLength
EnQp       == 0..51
EnControls == [profile : EnFlag, cabac : EnFlag, offset : EnOffset, closed : EnFlag, prepend : EnFlag,
               gop : EnLength, period : EnLength, qp_i : EnQp, qp_p : EnQp, qp_min : EnQp,
               qp_max : EnQp]

ASSUME EnAssumption ==
  /\ EnControl \subseteq EnControls
  /\ EnChange \subseteq ({"profile", "cabac", "prepend", "force"} \X EnFlag) \cup ({"offset"} \X EnOffset)
  /\ EnNumLog \in 1..16 /\ EnMaxFrames \in Nat /\ EnMaxChanges \in Nat

VARIABLES
  enUp,    \* the coded queue streams
  enCur,   \* the values the control handler has
  enCtx,   \* the values h264_ctx has, and force_key_frame
  enState, \* h264_ctx->state: step, gop_index, frame_num, qp_init
  enLast,  \* rec_last_dma: the reconstruction of the last frame, a picture buffer, or 0
  enRec,   \* history: the frame the reconstruction of a picture buffer holds
  enJob,   \* the job: idle, prepared, or encoding
  enDec,   \* history: the decoder: parameter sets, frame_num and reference
  enSeen,  \* history: the last frame delivered, as encoded and as decoded
  enOdd,   \* history: what happened that the encoder does not make good
  enCount  \* frames and changes so far

enVars == <<enUp, enCur, enCtx, enState, enLast, enRec, enJob, enDec, enSeen, enOdd, enCount>>

\* state->step
EN_START == 0  EN_SPS == 1  EN_PPS == 2  EN_SLICE == 3

EnIdle    == [phase |-> "idle"]
EnNothing == [odd |-> {}]
EnNoState == [step |-> EN_START, gop_index |-> 0, frame_num |-> 0, qp_init |-> 0]
EnNoDec   == [profile |-> 2, cabac |-> 2, offset |-> 0, init |-> 0, num |-> 0, ref |-> 0]
EnOff(c)  == [control \in DOMAIN c \cup {"force"} |-> IF control = "force" THEN 0 ELSE c[control]]

cedrus_enc_h264_profile_cabac_check(profile) == profile # 0

EnInit ==
  /\ enUp = FALSE
  /\ enCur \in EnControl
  /\ enCtx = EnOff(enCur)
  /\ enState = EnNoState
  /\ enLast = 0
  /\ enRec = [b \in EnBuf |-> 0]
  /\ enJob = EnIdle
  /\ enDec = EnNoDec
  /\ enSeen = EnNothing
  /\ enOdd = {}
  /\ enCount = [frames |-> 0, changes |-> 0]
-----------------------------------------------------------------------------
(* Streaming and controls.                                                 *)

\* v4l2_ctrl_handler_setup applies the profile before the entropy mode: one
\* that CABAC does not suit switches the other to CAVLC first.
EnSetup ==
  /\ ~enUp
  /\ LET cur == IF cedrus_enc_h264_profile_cabac_check(enCur.profile) THEN enCur
                ELSE [enCur EXCEPT !.cabac = 0]
     IN  enCur' = cur /\ enCtx' = EnOff(cur)
  /\ enUp' = TRUE
  /\ enState' = EnNoState
  /\ enLast' = 0
  /\ enDec' = EnNoDec /\ enSeen' = EnNothing /\ enOdd' = {}
  /\ UNCHANGED <<enRec, enJob, enCount>>

EnCleanup ==
  /\ enUp /\ enJob = EnIdle
  /\ enUp' = FALSE
  /\ enSeen' = EnNothing
  /\ UNCHANGED <<enCur, enCtx, enState, enLast, enRec, enJob, enDec, enOdd, enCount>>

\* ctrl_validate
EnAllowed(id, value) ==
  id = "cabac" /\ value = 1 => cedrus_enc_h264_profile_cabac_check(enCur.profile)

\* What a race on a parameter set is known by, for the sets from a step on.
EnRaced(step) == (IF step <= EN_SPS THEN {"raced_sps"} ELSE {})
                 \cup (IF step <= EN_PPS THEN {"raced_pps"} ELSE {})

\* ctrl_prepare: the engine copies cur.val, which still is the value before
\* the change; a profile without CABAC sets the entropy mode in turn; the step
\* goes back to the parameter set that carries the control.  Between
\* job_prepare and job_configure, the job sends the set with the old value.
EnSetControl ==
  /\ enUp /\ enCount.changes < EnMaxChanges
  /\ \E change \in EnChange :
     LET id     == change[1]
         value  == change[2]
         first  == [enCtx EXCEPT ![id] = IF id = "force" THEN 1 ELSE enCur[id]]
         nested == /\ id = "profile"
                   /\ ~cedrus_enc_h264_profile_cabac_check(first.profile)
                   /\ enCur.cabac = 1
         after  == IF nested THEN [first EXCEPT !.cabac = enCur.cabac] ELSE first
         floor  == IF id = "profile" THEN EN_SPS ELSE IF id = "cabac" THEN EN_PPS ELSE EN_SLICE
     IN  /\ id # "force" => value # enCur[id] /\ EnAllowed(id, value)
         /\ enCtx' = after
         /\ enCur' = IF id = "force" THEN enCur
                     ELSE LET cur == [enCur EXCEPT ![id] = value]
                          IN  IF nested THEN [cur EXCEPT !.cabac = 0] ELSE cur
         /\ enState' = [enState EXCEPT !.step = IF @ > floor THEN floor ELSE @]
         /\ enOdd' = enOdd
              \cup (IF after.offset # enCtx.offset THEN {"offset"} ELSE {})
              \cup (IF enJob.phase = "prepared" THEN EnRaced(floor) ELSE {})
  /\ enCount' = [enCount EXCEPT !.changes = @ + 1]
  /\ UNCHANGED <<enUp, enLast, enRec, enJob, enDec, enSeen>>

\* The picture buffers are freed while the coded queue streams, and others
\* allocated: the last reconstruction is gone, its address stays.
EnBuffersFreed ==
  /\ enUp /\ enJob = EnIdle
  /\ enRec # [b \in EnBuf |-> 0]
  /\ enRec' = [b \in EnBuf |-> 0]
  /\ enOdd' = enOdd \cup {"freed"}
  /\ UNCHANGED <<enUp, enCur, enCtx, enState, enLast, enJob, enDec, enSeen, enCount>>
-----------------------------------------------------------------------------
(* A job.                                                                  *)

\* frame_num of the frame after one numbered num.
EnNextNum(num) == (num + 1) % Pow2(EnNumLog)

EnFrameType ==
  IF enCtx.force = 1 \/ enState.gop_index = 0 THEN "IDR"
  ELSE IF enCtx.closed = 0 /\ enState.gop_index % enCtx.period = 0 THEN "I"
  ELSE "P"

EnClamp(qp) ==
  IF qp > enCtx.qp_max THEN enCtx.qp_max ELSE IF qp < enCtx.qp_min THEN enCtx.qp_min ELSE qp

\* job_prepare, under the lock of the controls.  The client sends any picture
\* buffer, the one of the last frame too.
EnPrepare ==
  /\ enUp /\ enJob = EnIdle /\ enCount.frames < EnMaxFrames
  /\ \E b \in EnBuf :
     LET type == EnFrameType
         num  == IF type = "IDR" THEN 0 ELSE enState.frame_num
         step == IF type = "IDR" /\ enCtx.prepend = 1 THEN EN_SPS ELSE enState.step
         qp   == EnClamp(IF type = "P" THEN enCtx.qp_p ELSE enCtx.qp_i)
         next == enState.gop_index + 1
     IN  /\ enJob' = [phase |-> "prepared", f |-> enCount.frames + 1, buf |-> b, type |-> type,
                      num |-> num, profile |-> enCtx.profile, cabac |-> enCtx.cabac,
                      offset |-> enCtx.offset, qp |-> qp]
         /\ enState' = [step |-> step,
                        gop_index |-> IF enCtx.closed = 1 THEN next % enCtx.gop ELSE next,
                        frame_num |-> EnNextNum(num),
                        qp_init |-> IF step < EN_SLICE THEN qp ELSE enState.qp_init]
         /\ enOdd' = enOdd \ (EnRaced(step) \cup (IF step < EN_SLICE THEN {"offset"} ELSE {}))
  /\ enCtx' = [enCtx EXCEPT !.force = 0]
  /\ enCount' = [enCount EXCEPT !.frames = @ + 1]
  /\ UNCHANGED <<enUp, enCur, enLast, enRec, enDec, enSeen>>

\* Faulty variant of EnHeaders: one parameter set at a time.
EnHeadersOne(step) ==
  IF step <= EN_SPS THEN {"sps"} ELSE IF step <= EN_PPS THEN {"pps"} ELSE {}
\* The parameter sets that job_configure writes before the slice header.
EnHeaders(step) == (IF step <= EN_SPS THEN {"sps"} ELSE {}) \cup (IF step <= EN_PPS THEN {"pps"} ELSE {})

\* The picture buffer of the last frame comes again: the frame is written over the
\* reconstruction that it is predicted from.
EnOverwrites == enJob.type = "P" /\ enJob.buf = enLast

\* job_configure and job_trigger.  A reference that is written while it is read
\* holds no frame a decoder could have.
EnConfigure ==
  /\ enJob.phase = "prepared"
  /\ enJob' = [phase |-> "encoding", f |-> enJob.f, buf |-> enJob.buf, type |-> enJob.type,
               num |-> enJob.num, profile |-> enJob.profile, cabac |-> enJob.cabac,
               offset |-> enJob.offset, qp |-> enJob.qp,
               headers |-> EnHeaders(enState.step),
               init |-> enState.qp_init, delta |-> enJob.qp - enState.qp_init,
               ref |-> IF enJob.type = "P" THEN enLast ELSE enJob.buf,
               holds |-> IF EnOverwrites THEN 0
                         ELSE IF enJob.type = "P" THEN enRec[enLast] ELSE enJob.f]
  /\ enState' = [enState EXCEPT !.step = EN_SLICE]
  /\ enLast' = enJob.buf
  /\ enOdd' = enOdd \cup (IF EnOverwrites THEN {"reused"} ELSE {})
  /\ UNCHANGED <<enUp, enCur, enCtx, enRec, enDec, enSeen, enCount>>

\* The parameter sets the decoder has once it has read the headers of a job.
EnDecoded(dec, job) ==
  LET sps == IF "sps" \in job.headers THEN [dec EXCEPT !.profile = job.profile] ELSE dec
  IN  IF "pps" \in job.headers
      THEN [sps EXCEPT !.cabac = job.cabac, !.offset = job.offset, !.init = job.init] ELSE sps

\* job_finish with a length that fits: the frame is delivered.
EnDelivered ==
  /\ enJob.phase = "encoding"
  /\ LET dec == EnDecoded(enDec, enJob)
         odd == enOdd \ (enJob.headers
                         \cup (IF enJob.type = "P" THEN {} ELSE {"freed", "reused"})
                         \cup (IF enJob.type = "IDR" THEN {"lost"} ELSE {}))
     IN  /\ enSeen' =
              [hw  |-> [type |-> enJob.type, profile |-> enJob.profile, cabac |-> enJob.cabac,
                        offset |-> enJob.offset, qp |-> enJob.qp, holds |-> enJob.holds,
                        num |-> enJob.num],
               dec |-> [profile |-> dec.profile, cabac |-> dec.cabac, offset |-> dec.offset,
                        qp |-> dec.init + enJob.delta,
                        holds |-> IF enJob.type = "P" THEN dec.ref ELSE enJob.f,
                        num |-> IF enJob.type = "IDR" THEN 0 ELSE (dec.num + 1) % Pow2(EnNumLog)],
               odd |-> odd]
         /\ enDec' = [dec EXCEPT !.num = enJob.num, !.ref = enJob.f]
         /\ enOdd' = odd
  /\ enRec' = [enRec EXCEPT ![enJob.buf] = enJob.f]
  /\ enJob' = EnIdle
  /\ UNCHANGED <<enUp, enCur, enCtx, enState, enLast, enCount>>

\* job_finish after an error, or with a length beyond the coded buffer: the
\* payload is 0, and the decoder never sees the frame.  No state is put back.
EnLost ==
  /\ enJob.phase = "encoding"
  /\ \E encoded \in BOOLEAN :
       enRec' = [enRec EXCEPT ![enJob.buf] = IF encoded THEN enJob.f ELSE 0]
  /\ enOdd' = enOdd \cup {"lost"} \cup enJob.headers
  /\ enSeen' = EnNothing
  /\ enJob' = EnIdle
  /\ UNCHANGED <<enUp, enCur, enCtx, enState, enLast, enDec, enCount>>

EnNext ==
  \/ EnSetup \/ EnCleanup \/ EnSetControl \/ EnBuffersFreed
  \/ EnPrepare \/ EnConfigure \/ EnDelivered \/ EnLost

EnSpec == EnInit /\ [][EnNext]_enVars
-----------------------------------------------------------------------------
(* The bits of the headers, and the sizes of the buffers.                  *)

\* The position of the highest bit, __fls.
EnFls(v) == CHOOSE k \in 0..15 : Pow2(k) <= v /\ v < 2 * Pow2(k)

\* A value in a number of bits, written by the hardware.
EnCode(value, count) == [value |-> value, count |-> count]
cedrus_enc_h264_coded_ue(v) == EnCode(v + 1, 2 * EnFls(v + 1) + 1)
cedrus_enc_h264_coded_se(v) == cedrus_enc_h264_coded_ue(IF v > 0 THEN 2 * v - 1 ELSE 2 * (0 - v))

\* The bytes of a 32-bit value, the first one the highest.
cedrus_enc_h264_coded_bytes(v) ==
  [i \in 1..4 |-> EnCode(IF i = 4 THEN v % 256 ELSE (v \div (256 * Pow2(8 * (3 - i)))) % 256, 8)]

\* Padding to a byte.
cedrus_enc_h264_coded_align(length) == IF length % 8 = 0 THEN 0 ELSE 8 - (length % 8)

\* The profiles: profile_idc, the constraint flags, and whether CABAC is allowed.
EnProfiles ==
  [baseline            |-> <<66, {0}, FALSE>>,  constrained_baseline |-> <<66, {0, 1}, FALSE>>,
   main                |-> <<77, {1}, TRUE>>,   extended             |-> <<88, {}, FALSE>>,
   high                |-> <<100, {}, TRUE>>,   constrained_high     |-> <<100, {4, 5}, TRUE>>,
   high_10             |-> <<110, {}, TRUE>>,   high_10_intra        |-> <<110, {3}, TRUE>>,
   high_422            |-> <<122, {}, TRUE>>,   high_422_intra       |-> <<122, {3}, TRUE>>,
   high_444_predictive |-> <<244, {}, TRUE>>,   high_444_intra       |-> <<244, {3}, TRUE>>,
   cavlc_444_intra     |-> <<44, {3}, FALSE>>,  scalable_baseline    |-> <<83, {}, TRUE>>,
   scalable_high       |-> <<86, {}, TRUE>>,    scalable_high_intra  |-> <<86, {3}, TRUE>>,
   stereo_high         |-> <<128, {}, TRUE>>,   multiview_high       |-> <<118, {}, TRUE>>]

\* The profiles whose sequence parameter set names the chroma format.
EnHighSyntax == {100, 110, 122, 244, 44, 83, 86, 118, 128, 138, 139, 134, 135}

\* level_idc, from 1.0 and 1b to 6.2.
EnLevels == <<10, 9, 11, 12, 13, 20, 21, 22, 30, 31, 32, 40, 41, 42, 50, 51, 52, 60, 61, 62>>

\* The cropping of a selection [left, top, width, height] in a coded size.
EnCrop(sel, mbs_wide, mbs_high) ==
  [left |-> sel.left \div 2, right |-> (mbs_wide * 16 - sel.width - sel.left) \div 2,
   top |-> sel.top \div 2, bottom |-> (mbs_high * 16 - sel.height - sel.top) \div 2]

\* The reconstruction of a picture: luma, then chroma.
EnRecLuma(width, height) ==
  ALIGN(DIV_ROUND_UP(width, 16), 2) * 16 * ALIGN(DIV_ROUND_UP(height, 16) + 1, 4) * 16
EnRecChroma(width, height) ==
  ALIGN(DIV_ROUND_UP(width, 16), 2) * 16 * ALIGN(DIV_ROUND_UP(DIV_ROUND_UP(height, 16), 2), 4) * 16
EnRecSize(width, height) == ALIGN(EnRecLuma(width, height) + EnRecChroma(width, height), 4096)

\* The sub-pixel buffer of a picture, and the macroblock rows of the context.
EnSubpixSize(width, height) ==
  (((((DIV_ROUND_UP(width, 16) + 47) * 2) \div 3) \div 32) * 32 + ALIGN(DIV_ROUND_UP(width, 16), 32) * 2)
  * ((DIV_ROUND_UP(height, 16) * 16 + 72) \div 8)
EnMbInfoSize(width) == DIV_ROUND_UP(DIV_ROUND_UP(width, 16), 32) * 4096
-----------------------------------------------------------------------------
(* Properties.                                                             *)

\* Types of the variables.
EnTypeOK ==
  /\ enUp \in BOOLEAN
  /\ enCur \in EnControls
  /\ enState \in [step : EN_START..EN_SLICE, gop_index : 0..enCount.frames,
                  frame_num : 0..(Pow2(EnNumLog) - 1), qp_init : EnQp]
  /\ enLast \in {0} \cup EnBuf
  /\ enRec \in [EnBuf -> 0..enCount.frames]
  /\ enJob.phase \in {"idle", "prepared", "encoding"}
  /\ enOdd \subseteq {"lost", "sps", "pps", "freed", "reused", "raced_sps", "raced_pps", "offset"}
  /\ enCount \in [frames : 0..EnMaxFrames, changes : 0..EnMaxChanges]

\* What a decoder derives for a frame from the parameter sets that reached it
\* is what the hardware encoded the frame with: the profile, the entropy
\* coding, the chroma offset and the quantizer.  Not so after a lost frame
\* that carried parameter sets, a control changed between job_prepare and
\* job_configure, or a chroma offset changed without a new parameter set: each
\* until the parameter set it is about is sent again.
EnParametersAgree ==
  enSeen # EnNothing /\ enSeen.odd \cap {"sps", "pps", "raced_sps", "raced_pps", "offset"} = {} =>
    /\ enSeen.hw.profile = enSeen.dec.profile
    /\ enSeen.hw.cabac = enSeen.dec.cabac
    /\ enSeen.hw.offset = enSeen.dec.offset
    /\ enSeen.hw.qp = enSeen.dec.qp

\* A predicted frame was encoded from the frame that the decoder has last, and
\* its number follows: a decoder finds no gap.  Not so from a lost frame to
\* the next IDR frame.  Nor do the pictures agree, until the next frame that is
\* not predicted, once the buffers were freed or the client has sent the buffer
\* of the last frame again for a predicted one, which the driver neither refuses
\* nor, by the minimum of one buffer it advertises, lets the client know of.
EnReferenceMeant ==
  enSeen # EnNothing /\ "lost" \notin enSeen.odd =>
    /\ enSeen.hw.num = enSeen.dec.num
    /\ enSeen.odd \cap {"freed", "reused"} = {} => enSeen.hw.holds = enSeen.dec.holds

\* No frame is encoded with CABAC under a profile that does not have it.
EnCabacAllowed ==
  enJob.phase = "encoding" /\ enJob.cabac = 1 =>
    cedrus_enc_h264_profile_cabac_check(enJob.profile)

\* A reader of Exp-Golomb codes gets back every value the headers carry, and
\* a 32-bit value from its bytes; after padding the length is whole bytes.
EnRead(code) ==
  LET bits == EnFls(code.value) + 1
  IN  IF code.count = 2 * bits - 1 THEN code.value - 1 ELSE -1   \* bits - 1 zeros lead
EnReadSigned(code) ==
  LET v == EnRead(code) IN IF v % 2 = 1 THEN (v + 1) \div 2 ELSE 0 - (v \div 2)
EnBitsExact ==
  /\ \A v \in 0..300 : EnRead(cedrus_enc_h264_coded_ue(v)) = v
  /\ \A v \in (0 - 80)..80 : EnReadSigned(cedrus_enc_h264_coded_se(v)) = v
  /\ \A v \in {0, 1, 255, 256, 65535, 65536, 131070, 16777216, 2147483647} :
       LET b == cedrus_enc_h264_coded_bytes(v)
       IN  ((b[1].value * 256 + b[2].value) * 256 + b[3].value) * 256 + b[4].value = v
  /\ \A n \in 0..40 : (n + cedrus_enc_h264_coded_align(n)) % 8 = 0
  /\ \A p, q \in DOMAIN EnProfiles : EnProfiles[p] = EnProfiles[q] => p = q
  /\ \A p \in DOMAIN EnProfiles : EnProfiles[p][1] \in EnHighSyntax <=> EnProfiles[p][1] \notin {66, 77, 88}
  /\ \A i, j \in DOMAIN EnLevels : EnLevels[i] = EnLevels[j] => i = j

\* A decoder's cropping rectangle is the selection, for the selections the
\* driver hands out (even, inside); the hardware's picture fits the buffers.
EnCropExact(sizes) ==
  \A w \in sizes, h \in sizes :
    LET mw == DIV_ROUND_UP(w, 16)
        mh == DIV_ROUND_UP(h, 16)
        picture == mw * 16 * mh * 16
    IN  /\ EnRecLuma(w, h) >= picture /\ EnRecChroma(w, h) >= picture \div 2
        /\ EnRecSize(w, h) >= EnRecLuma(w, h) + EnRecChroma(w, h)
        /\ EnSubpixSize(w, h) > 0 /\ EnMbInfoSize(w) >= mw * 128
        /\ \A left \in {0, 2, w - 2} : \A width \in {2, w - left} :
             LET sel == [left |-> left, top |-> 0, width |-> width, height |-> h]
                 c == EnCrop(sel, mw, mh)
             IN  left + width <= w =>
                   /\ 2 * c.left = left /\ mw * 16 - 2 * c.left - 2 * c.right = width
                   /\ 2 * c.top = 0 /\ mh * 16 - 2 * c.top - 2 * c.bottom = h
=============================================================================
