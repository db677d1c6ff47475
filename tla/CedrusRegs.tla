------------------------------- MODULE CedrusRegs -------------------------------
(***************************************************************************)
(* The registers of the engines: where each field of a register word is,   *)
(* which values the driver writes into it, and what the driver makes of    *)
(* the interrupt status.  Most fields hold the low bits of what is written *)
(* (SHIFT_AND_MASK_BITS), and a value that needs more is cut silently; some *)
(* words are put together by shifts alone, and there a value that is       *)
(* negative or too large also sets the bits above its field.               *)
(***************************************************************************)
EXTENDS CedrusArith, Sequences

\* A register: its fields, each <<high bit, low bit>>, and its single bits, in
\* the order of the source.
Register(fields, flags) == [fields |-> fields, flags |-> flags]

F_CODE_SHIFT(x, y) == 24 - 4 * y - 8 * x
F_CODE(x, y) == <<F_CODE_SHIFT(x, y) + 3, F_CODE_SHIFT(x, y)>>

\* An address of 32 bits in a word with three flags: the low bits are those of
\* the alignment, so the high ones go there.
VldAddress == Register([base |-> <<27, 4>>, high |-> <<3, 0>>], <<30, 29, 28>>)

MpegRegisters ==
  [MP12HDR |-> Register([slice_type |-> <<30, 28>>, f00 |-> F_CODE(0, 0), f01 |-> F_CODE(0, 1),
                         f10 |-> F_CODE(1, 0), f11 |-> F_CODE(1, 1),
                         intra_dc_precision |-> <<11, 10>>, picture_structure |-> <<9, 8>>],
                        <<7, 6, 5, 4, 3, 2, 1, 0>>),
   PICCODEDSIZE |-> Register([width_mbs |-> <<15, 8>>, height_mbs |-> <<7, 0>>], <<>>),
   PICBOUNDSIZE |-> Register([width |-> <<27, 16>>, height |-> <<11, 0>>], <<>>),
   MBADDR |-> Register([x |-> <<15, 8>>, y |-> <<7, 0>>], <<>>),
   VLD_ADDR |-> VldAddress,
   IQMINPUT |-> Register([index |-> <<13, 8>>, weight |-> <<7, 0>>], <<14>>)]

H265Registers ==
  [NAL_HDR |-> Register([temporal_id |-> <<8, 6>>, type |-> <<5, 0>>], <<>>),
   SPS_HDR |-> Register([depth_intra |-> <<22, 20>>, depth_inter |-> <<19, 17>>,
                         diff_transform |-> <<16, 15>>, min_transform |-> <<14, 13>>,
                         diff_coding |-> <<12, 11>>, min_coding |-> <<10, 9>>,
                         bit_depth_chroma |-> <<8, 6>>, bit_depth_luma |-> <<5, 3>>,
                         chroma_format |-> <<1, 0>>], <<26, 25, 24, 23, 2>>),
   PIC_SIZE |-> Register([width |-> <<13, 0>>, height |-> <<29, 16>>], <<>>),
   PCM_CTRL |-> Register([diff_coding |-> <<11, 10>>, min_coding |-> <<9, 8>>,
                          depth_chroma |-> <<7, 4>>, depth_luma |-> <<3, 0>>], <<15, 14>>),
   PPS_CTRL0 |-> Register([cr_offset |-> <<29, 24>>, cb_offset |-> <<21, 16>>,
                           init_qp |-> <<14, 8>>, delta_depth |-> <<5, 4>>], <<3, 2, 1, 0>>),
   PPS_CTRL1 |-> Register([merge_level |-> <<10, 8>>], <<6, 5, 4, 3, 2, 1, 0>>),
   INFO0 |-> Register([picture_type |-> <<29, 28>>, merge_cand |-> <<26, 24>>,
                       num_l1 |-> <<23, 20>>, num_l0 |-> <<19, 16>>, collocated |-> <<15, 12>>,
                       colour_plane |-> <<5, 4>>, slice_type |-> <<3, 2>>],
                      <<11, 10, 9, 8, 7, 6, 1, 0>>),
   INFO1 |-> Register([tc |-> <<31, 28>>, beta |-> <<27, 24>>, cr_offset |-> <<20, 16>>,
                       cb_offset |-> <<12, 8>>, qp_delta |-> <<6, 0>>], <<23, 22, 21>>),
   INFO2 |-> Register([entry_points |-> <<21, 8>>, chroma_denom |-> <<6, 4>>,
                       luma_denom |-> <<2, 0>>], <<>>),
   CTB_ADDR |-> Register([y |-> <<25, 16>>, x |-> <<9, 0>>], <<>>)]

H264Registers ==
  [SPS |-> Register([chroma_format |-> <<21, 19>>, width |-> <<15, 8>>, height |-> <<7, 0>>],
                    <<18, 17, 16>>),
   PPS |-> Register([num_l0 |-> <<14, 10>>, num_l1 |-> <<9, 5>>, bipred |-> <<3, 2>>],
                    <<15, 4, 1, 0>>),
   SHS |-> Register([x |-> <<31, 24>>, y |-> <<23, 16>>, slice_type |-> <<11, 8>>,
                     cabac_init |-> <<1, 0>>], <<12, 5, 4, 3, 2>>),
   SHS2 |-> Register([num_l0 |-> <<28, 24>>, num_l1 |-> <<20, 16>>, deblocking |-> <<9, 8>>,
                      alpha |-> <<7, 4>>, beta |-> <<3, 0>>], <<12>>),
   SHS_QP |-> Register([second_offset |-> <<21, 16>>, offset |-> <<13, 8>>, qp |-> <<5, 0>>],
                       <<24>>),
   TRIGGER |-> Register([probability |-> <<31, 24>>, bin_lens |-> <<18, 16>>, bits |-> <<13, 8>>,
                         type |-> <<3, 0>>], <<>>),
   H264_VLD_ADDR |-> VldAddress]

Vp8Segments == Register([s3 |-> <<31, 24>>, s2 |-> <<23, 16>>, s1 |-> <<15, 8>>, s0 |-> <<7, 0>>], <<>>)
Vp8Deltas   == Register([d3 |-> <<30, 24>>, d2 |-> <<22, 16>>, d1 |-> <<14, 8>>, d0 |-> <<6, 0>>], <<>>)

Vp8Registers ==
  [VP8_PPS |-> Register([last_sharpness |-> <<30, 28>>, partition |-> <<21, 20>>,
                         level |-> <<17, 12>>, sharpness |-> <<10, 8>>],
                        <<31, 27, 26, 25, 24, 23, 22, 19, 18, 11, 7, 6, 5, 4, 3, 2, 1, 0>>),
   QP_INDEX |-> Register([uvac |-> <<31, 27>>, uvdc |-> <<26, 22>>, y2ac |-> <<21, 17>>,
                          y2dc |-> <<16, 12>>, y1dc |-> <<11, 7>>, base |-> <<6, 0>>], <<>>),
   FSIZE |-> Register([width_mbs |-> <<15, 8>>, height_mbs |-> <<7, 0>>], <<>>),
   PICSIZE |-> Register([width |-> <<27, 16>>, height |-> <<11, 0>>], <<>>),
   SEGMENT_LV0 |-> Vp8Segments, SEGMENT_LV1 |-> Vp8Segments,
   REF_LF_DELTA |-> Vp8Deltas, MODE_LF_DELTA |-> Vp8Deltas]

\* Not in the header of registers: the words the VP9 engine puts together, by
\* shifts alone but for the bit depth, SEGMENT_FEATURE and TENBIT.
Vp9Registers ==
  [HDR_SYNC |-> Register([bit_depth |-> <<4, 2>>, filter |-> <<11, 9>>, tx_mode |-> <<22, 20>>],
                         <<31, 26, 12, 1, 8, 25, 27, 17, 18, 19, 0>>),
   PIC_SIZES |-> Register([height |-> <<31, 16>>, width |-> <<15, 0>>], <<>>),
   TILE |-> Register([y |-> <<31, 16>>, x |-> <<15, 0>>], <<>>),
   SCALES |-> Register([id |-> <<30, 28>>, factor |-> <<20, 5>>, step |-> <<4, 0>>], <<>>),
   GOLDEN_SCALE |-> Register([factor |-> <<31, 16>>, step |-> <<4, 0>>], <<>>),
   SEGMENT_FEATURE |-> Register([refs |-> <<31, 16>>, skips |-> <<15, 8>>, uses |-> <<7, 0>>], <<>>),
   TENBIT |-> Register([stride |-> <<11, 0>>], <<>>)]

TopRegisters ==
  [MODE |-> Register([dec |-> <<2, 0>>, bandwidth |-> <<17, 16>>], <<31, 22, 21, 20, 7, 6>>),
   LINE_STRIDE |-> Register([chroma |-> <<31, 16>>, luma |-> <<15, 0>>], <<>>)]

IspRegisters ==
  [PIC_INFO |-> Register([width |-> <<31, 16>>, height |-> <<15, 0>>], <<>>),
   STRIDE0 |-> Register([input |-> <<26, 16>>, thumb |-> <<9, 0>>], <<>>),
   SCALER |-> Register([height |-> <<26, 16>>, width |-> <<10, 0>>], <<>>)]

AvcEncRegisters ==
  [PARA0 |-> Register([frame_num |-> <<27, 24>>, beta |-> <<23, 20>>, alpha |-> <<19, 16>>,
                       deblock |-> <<13, 12>>, fix_mode |-> <<11, 10>>, slice_type |-> <<5, 4>>,
                       ref_type |-> <<3, 2>>, pic_type |-> <<1, 0>>], <<31, 30, 29, 28, 15, 9, 8>>),
   PARA1 |-> Register([optimize |-> <<30, 28>>, clip |-> <<25, 24>>, chroma_offset |-> <<18, 16>>,
                       stride_48 |-> <<13, 10>>, rc_mode |-> <<7, 6>>, qp |-> <<5, 0>>],
                      <<31, 27, 26, 19, 9, 8>>),
   INT_EN |-> Register([fifth |-> <<31, 24>>, mbs |-> <<23, 16>>], <<3, 2, 1, 0>>),
   JPEG_INT_EN |-> Register([mbs |-> <<24, 16>>], <<25, 3, 2, 1, 0>>),
   STARTTRIG |-> Register([num_bits |-> <<13, 8>>, mode |-> <<17, 16>>, type |-> <<3, 0>>], <<>>)]
-----------------------------------------------------------------------------
(* The values each engine writes, the least and the greatest: those a      *)
(* syntax element may have, of the control, or of the sizes the engine     *)
(* takes.  The driver passes on what the client sends.                     *)

DecSize  == <<16, 3840>>
DecMbs   == <<1, 240>>

MpegWritten ==
  [MP12HDR |-> [slice_type |-> <<1, 3>>, f00 |-> <<1, 15>>, f01 |-> <<1, 15>>, f10 |-> <<1, 15>>,
                f11 |-> <<1, 15>>, intra_dc_precision |-> <<0, 3>>, picture_structure |-> <<1, 3>>],
   PICCODEDSIZE |-> [width_mbs |-> DecMbs, height_mbs |-> DecMbs],
   PICBOUNDSIZE |-> [width |-> DecSize, height |-> DecSize],
   MBADDR |-> [x |-> <<0, 0>>, y |-> <<0, 0>>],
   IQMINPUT |-> [index |-> <<0, 63>>, weight |-> <<1, 255>>]]

\* picture_type: pic_struct, of which fields, repetitions and pairings are 0 to
\* 12.
H265Written ==
  [NAL_HDR |-> [temporal_id |-> <<1, 7>>, type |-> <<0, 63>>],
   SPS_HDR |-> [depth_intra |-> <<0, 4>>, depth_inter |-> <<0, 4>>, diff_transform |-> <<0, 3>>,
                min_transform |-> <<0, 3>>, diff_coding |-> <<0, 3>>, min_coding |-> <<0, 3>>,
                bit_depth_chroma |-> <<0, 2>>, bit_depth_luma |-> <<0, 2>>, chroma_format |-> <<0, 3>>],
   PIC_SIZE |-> [width |-> DecSize, height |-> DecSize],
   PCM_CTRL |-> [diff_coding |-> <<0, 2>>, min_coding |-> <<0, 2>>, depth_chroma |-> <<0, 15>>,
                 depth_luma |-> <<0, 15>>],
   PPS_CTRL0 |-> [cr_offset |-> <<-12, 12>>, cb_offset |-> <<-12, 12>>, init_qp |-> <<-38, 25>>,
                  delta_depth |-> <<0, 3>>],
   PPS_CTRL1 |-> [merge_level |-> <<0, 4>>],
   INFO0 |-> [picture_type |-> <<0, 12>>, merge_cand |-> <<0, 4>>, num_l1 |-> <<0, 15>>,
              num_l0 |-> <<0, 15>>, collocated |-> <<0, 15>>, colour_plane |-> <<0, 2>>,
              slice_type |-> <<0, 2>>],
   INFO1 |-> [tc |-> <<-6, 6>>, beta |-> <<-6, 6>>, cr_offset |-> <<-12, 12>>,
              cb_offset |-> <<-12, 12>>, qp_delta |-> <<-63, 63>>],
   INFO2 |-> [entry_points |-> <<0, 256>>, chroma_denom |-> <<0, 7>>, luma_denom |-> <<0, 7>>],
   CTB_ADDR |-> [y |-> <<0, 239>>, x |-> <<0, 239>>]]

H264Written ==
  [SPS |-> [chroma_format |-> <<0, 3>>, width |-> <<0, 239>>, height |-> <<0, 239>>],
   PPS |-> [num_l0 |-> <<0, 31>>, num_l1 |-> <<0, 31>>, bipred |-> <<0, 2>>],
   SHS |-> [x |-> <<0, 239>>, y |-> <<0, 239>>, slice_type |-> <<0, 9>>, cabac_init |-> <<0, 2>>],
   SHS2 |-> [num_l0 |-> <<0, 31>>, num_l1 |-> <<0, 31>>, deblocking |-> <<0, 2>>,
             alpha |-> <<-6, 6>>, beta |-> <<-6, 6>>],
   SHS_QP |-> [second_offset |-> <<-12, 12>>, offset |-> <<-12, 12>>, qp |-> <<0, 51>>]]

\* bin_lens: reads of 1 to 8 bits, less one.
Vp8Written ==
  [TRIGGER |-> [probability |-> <<0, 255>>, bin_lens |-> <<0, 7>>, type |-> <<7, 15>>],
   VP8_PPS |-> [last_sharpness |-> <<0, 7>>, partition |-> <<0, 3>>, level |-> <<0, 63>>,
                sharpness |-> <<0, 7>>],
   QP_INDEX |-> [uvac |-> <<-15, 15>>, uvdc |-> <<-15, 15>>, y2ac |-> <<-15, 15>>,
                 y2dc |-> <<-15, 15>>, y1dc |-> <<-15, 15>>, base |-> <<0, 127>>],
   FSIZE |-> [width_mbs |-> DecMbs, height_mbs |-> DecMbs],
   PICSIZE |-> [width |-> DecSize, height |-> DecSize],
   SEGMENT_LV0 |-> [s \in {"s0", "s1", "s2", "s3"} |-> <<-127, 127>>],
   SEGMENT_LV1 |-> [s \in {"s0", "s1", "s2", "s3"} |-> <<-63, 63>>],
   REF_LF_DELTA |-> [d \in {"d0", "d1", "d2", "d3"} |-> <<-63, 63>>],
   MODE_LF_DELTA |-> [d \in {"d0", "d1", "d2", "d3"} |-> <<-63, 63>>]]

\* Sizes are those of the frame, within a coded size of at most 4096 by 2304;
\* a reference is at most twice as large and no larger than that either.  The
\* end of the first tile is its superblocks less one: a picture of fewer
\* superblocks than tiles has none in its first tile.
Vp9Written ==
  [HDR_SYNC |-> [bit_depth |-> <<0, 2>>, filter |-> <<0, 4>>, tx_mode |-> <<0, 4>>],
   PIC_SIZES |-> [height |-> <<1, 2304>>, width |-> <<1, 4096>>],
   TILE |-> [y |-> <<-1, 35>>, x |-> <<-1, 63>>],
   SCALES |-> [id |-> <<0, 1>>, factor |-> <<1024, 32768>>, step |-> <<0, 31>>],
   GOLDEN_SCALE |-> [factor |-> <<1024, 32768>>, step |-> <<0, 31>>],
   TENBIT |-> [stride |-> <<32, 1024>>]]

TopWritten ==
  [MODE |-> [dec |-> <<0, 7>>, bandwidth |-> <<3, 3>>],
   LINE_STRIDE |-> [chroma |-> <<8, 2048>>, luma |-> <<16, 4096>>]]

\* The picture format of the encoders: sizes in blocks of 8, by shifts alone on
\* the H618, and strides in macroblocks.
IspSize ==
  [PIC_INFO |-> [width |-> <<1, 480>>, height |-> <<1, 270>>],
   SCALER |-> [height |-> <<1, 270>>, width |-> <<1, 480>>]]
IspStride(bytesperline) == [STRIDE0 |-> [input |-> <<1, bytesperline \div 16>>]]

\* The largest stride the format takes, at the largest width.
EncStrideMax == 32 * 3840

AvcEncWritten(bytesperline) ==
  [PARA0 |-> [frame_num |-> <<0, 0>>, beta |-> <<-6, 6>>, alpha |-> <<-6, 6>>, fix_mode |-> <<0, 2>>,
              slice_type |-> <<0, 1>>, ref_type |-> <<0, 0>>, pic_type |-> <<0, 0>>],
   PARA1 |-> [chroma_offset |-> <<0, 7>>, stride_48 |-> <<1, DIV_ROUND_UP(bytesperline \div 16, 48)>>,
              rc_mode |-> <<0, 0>>, qp |-> <<0, 51>>],
   INT_EN |-> [fifth |-> <<1, 48>>, mbs |-> <<1, 240>>],
   STARTTRIG |-> [num_bits |-> <<1, 32>>, mode |-> <<0, 1>>, type |-> <<1, 8>>]]
JpegEncWritten == [JPEG_INT_EN |-> [mbs |-> <<1, 68>>]]
-----------------------------------------------------------------------------
(* Interrupts.  Events are numbered by their bit in the status register.   *)

\* What a job enables, what the status is masked with, cleared to and disabled
\* in the end; the event that means done, and those that mean an error.
IrqEngine(enabled, mask, finish, errors) ==
  [enabled |-> enabled, mask |-> mask, finish |-> finish, errors |-> errors]

IrqMpeg2    == IrqEngine({5 - 3, 4 - 3, 3 - 3}, {2, 1, 0}, 0, {2, 1})
IrqH265     == IrqEngine({2, 1, 0}, {2, 1, 0}, 0, {2, 1})
IrqH264     == IrqEngine({2, 1, 0}, {2, 1, 0}, 0, {2, 1})
\* Faulty variant of IrqVp8: only the finish bit is looked at.
IrqVp8Done  == IrqEngine({1, 0}, {0}, 0, {})
IrqVp8      == IrqEngine({1, 0}, {2, 1, 0}, 0, {2, 1})
IrqVp9      == IrqEngine({2, 1, 0}, {2, 1, 0}, 0, {2, 1})
\* The encoders take a finished picture whatever else happened.
IrqEncH264  == IrqEngine({2, 1, 0}, {3, 2, 1, 0}, 0, {})
IrqEncJpeg  == IrqEngine({3, 2, 1, 0}, {3, 2, 1, 0}, 0, {})
IrqEngines  == {IrqMpeg2, IrqH265, IrqH264, IrqVp8, IrqVp9, IrqEncH264, IrqEncJpeg}

irq_status(engine, events) ==
  LET status == events \cap engine.mask
  IN  IF status = {} THEN "none"
      ELSE IF engine.finish \notin status \/ status \cap engine.errors # {} THEN "error"
      ELSE "success"
-----------------------------------------------------------------------------
(* Properties.                                                             *)

\* Fields, and single bits as fields of one bit.
Places(register) ==
  {register.fields[f] : f \in DOMAIN register.fields}
    \cup {<<register.flags[i], register.flags[i]>> : i \in DOMAIN register.flags}

Apart(x, y) == x[1] < y[2] \/ y[1] < x[2]

RegistersApart(registers) ==
  \A name \in DOMAIN registers :
    LET r == registers[name]
    IN  /\ \A x, y \in Places(r) : x # y => Apart(x, y)
        /\ \A f, g \in DOMAIN r.fields : f # g => r.fields[f] # r.fields[g]
        /\ \A i, j \in DOMAIN r.flags : i # j => r.flags[i] # r.flags[j]
        /\ \A x \in Places(r) : 0 <= x[2] /\ x[2] <= x[1] /\ x[1] <= 31

\* A range fits a field that is masked: as it is, or in two's complement.
Fits(range, place) ==
  LET width == place[1] - place[2] + 1
  IN  IF range[1] >= 0 THEN range[2] < Pow2(width)
      ELSE -(Pow2(width - 1)) <= range[1] /\ range[2] < Pow2(width - 1)

\* Masked fields: the values of exactly those in cut do not all fit.
WrittenFits(registers, written, cut) ==
  \A name \in DOMAIN written : \A f \in DOMAIN written[name] :
    <<name, f>> \in cut <=> ~Fits(written[name][f], registers[name].fields[f])

\* A range fits a field that is only shifted.
FitsShifted(range, place) == 0 <= range[1] /\ range[2] < Pow2(place[1] - place[2] + 1)

\* Shifted fields: the values of exactly those in wide do not all fit, and
\* exactly those in spilt then set bits above their field.
WrittenShifted(registers, written, wide, spilt) ==
  \A name \in DOMAIN written : \A f \in DOMAIN written[name] :
    LET place == registers[name].fields[f]
    IN  /\ <<name, f>> \in wide <=> ~FitsShifted(written[name][f], place)
        /\ <<name, f>> \in spilt <=> <<name, f>> \in wide /\ place[1] < 31

\* No two parts of a register word share a bit.
FieldsApart ==
  \A registers \in {MpegRegisters, H265Registers, H264Registers, Vp8Registers, Vp9Registers,
                    TopRegisters, IspRegisters, AvcEncRegisters} : RegistersApart(registers)

\* The strides up to which the registers of the encoders hold them.
EncStrideFits == 15 * 48 * 16

\* Which fields the driver's values do not fit, for syntax elements and controls
\* in their ranges and sizes the engines take: pic_struct of H.265 is cut, the
\* end of a VP9 tile without superblocks is -1, that of a column fills the word
\* and that of a row only its own field, and the stride of an encoded picture is
\* cut beyond EncStrideFits.  Every other value arrives as the driver meant it.
ValuesFit ==
  /\ WrittenFits(MpegRegisters, MpegWritten, {})
  /\ WrittenFits(H265Registers, H265Written, {<<"INFO0", "picture_type">>})
  /\ WrittenFits(H264Registers, H264Written, {})
  /\ WrittenFits([r \in DOMAIN Vp8Registers \cup {"TRIGGER"} |->
                    IF r = "TRIGGER" THEN H264Registers.TRIGGER ELSE Vp8Registers[r]],
                 Vp8Written, {})
  /\ WrittenShifted(Vp9Registers, Vp9Written, {<<"TILE", "x">>, <<"TILE", "y">>},
                    {<<"TILE", "x">>})
  /\ WrittenFits(TopRegisters, TopWritten, {})
  /\ WrittenShifted(IspRegisters, IspSize, {}, {})
  /\ WrittenFits(IspRegisters, IspStride(EncStrideFits), {})
  /\ WrittenFits(IspRegisters, IspStride(EncStrideMax), {<<"STRIDE0", "input">>})
  /\ WrittenFits(AvcEncRegisters, AvcEncWritten(EncStrideFits), {})
  /\ WrittenFits(AvcEncRegisters, AvcEncWritten(EncStrideMax), {<<"PARA1", "stride_48">>})
  /\ WrittenShifted(AvcEncRegisters, JpegEncWritten, {}, {})

\* Every interrupt a job enabled is answered, a job succeeds only when the
\* hardware finished, and on the decoders only without an error; what the
\* status is masked with covers what was enabled, so clearing it leaves
\* nothing that would raise the line again.
IrqAnswered ==
  \A engine \in IrqEngines :
    /\ engine.enabled \subseteq engine.mask
    /\ \A events \in SUBSET engine.mask :
         /\ events \cap engine.enabled # {} => irq_status(engine, events) # "none"
         /\ irq_status(engine, events) = "success" => engine.finish \in events
         /\ irq_status(engine, events) = "success" => events \cap engine.errors = {}
         /\ irq_status(engine, events \ engine.mask) = "none"
=============================================================================
