------------------------------- MODULE MCCodecs -------------------------------
(***************************************************************************)
(* The engines of cedrus, checked together.  A context has one engine and  *)
(* engines share no state, so a behaviour is one of one engine, which the  *)
(* first step chooses.  The pure modules (layouts, probabilities,          *)
(* registers, setup paths) are evaluated before it.  The turns clients     *)
(* take on the legacy device stand beside the engines in the same way.     *)
(***************************************************************************)
EXTENDS CedrusVp9, CedrusH264, CedrusH265, CedrusVp8, CedrusEncH264, CedrusEncJpeg,
        CedrusSetup, CedrusRegs, Vp9Layout, Vp9Probs, CedarSync

VARIABLE engine

Engines == {"vp9", "h264", "h265", "vp8", "enc_h264", "enc_jpeg", "legacy"}
-----------------------------------------------------------------------------
(* Values of the constants.                                                *)

VpHead(k, sh, sz, d, sg, c, r, sv) ==
  [kind |-> k, show |-> sh, size |-> sz, depth |-> d, seg |-> sg, ctx |-> c, reset |-> r, save |-> sv]
MCVpFrame ==
  {VpHead("key", TRUE, 1, 8, "off", 0, "none", "adapt"),
   VpHead("key", TRUE, 1, 10, "off", 0, "none", "none"),
   VpHead("key", TRUE, 2, 10, "update", 0, "none", "none"),
   VpHead("intra", FALSE, 1, 8, "update", 1, "spec", "forward"),
   VpHead("inter", TRUE, 1, 8, "temporal", 1, "none", "adapt"),
   VpHead("inter", TRUE, 2, 10, "keep", 0, "none", "forward"),
   VpHead("inter", TRUE, 1, 10, "off", 0, "none", "none"),
   VpHead("inter", FALSE, 1, 8, "off", 1, "none", "none"),
   VpHead("resilient", TRUE, 1, 8, "keep", 0, "none", "none")}

MCH4Sps == {[inference |-> TRUE, mbs_only |-> TRUE], [inference |-> FALSE, mbs_only |-> FALSE]}

V8Head(key, level, simple, sharpness) ==
  [key |-> key, level |-> level, simple |-> simple, sharpness |-> sharpness]
MCV8Frame == {V8Head(TRUE, 1, TRUE, 1), V8Head(FALSE, 0, TRUE, 0), V8Head(FALSE, 1, FALSE, 0)}

EnHead(profile, cabac, closed, prepend, gop, period, qp_min, qp_max) ==
  [profile |-> profile, cabac |-> cabac, offset |-> 0, closed |-> closed, prepend |-> prepend,
   gop |-> gop, period |-> period, qp_i |-> 1, qp_p |-> 3, qp_min |-> qp_min, qp_max |-> qp_max]
MCEnControl ==
  {EnHead(1, 1, 1, 0, 3, 1, 0, 51), EnHead(1, 0, 0, 0, 3, 2, 2, 51), EnHead(0, 0, 1, 1, 2, 1, 0, 2)}
MCSyFileOf == [t \in {"t1", "t2", "t3"} |-> IF t = "t3" THEN "f2" ELSE "f1"]
MCEnChange == {<<"profile", 0>>, <<"profile", 1>>, <<"cabac", 0>>, <<"cabac", 1>>, <<"offset", 1>>,
               <<"force", 1>>}
-----------------------------------------------------------------------------
(* One engine at a time.  The encoders start with various controls and     *)
(* buffers; with another engine they stay in one state.                    *)

CodecsInit ==
  /\ engine = "none"
  /\ VpInit /\ H4Init /\ H5Init /\ V8Init /\ EnInit /\ JpInit /\ SyInit

ChooseEngine ==
  /\ engine = "none"
  /\ engine' \in Engines
  /\ engine' # "enc_h264" => enCur = EnHead(0, 0, 1, 1, 2, 1, 0, 2)
  /\ engine' # "enc_jpeg" => jpSet.cur = 50 /\ \A b \in JpBuf : jpBuf[b].plane = 1647
  /\ UNCHANGED <<vpVars, h4Vars, h5Vars, v8Vars, enVars, jpVars, syVars>>

Vp9Step == engine = "vp9" /\ VpNext /\ UNCHANGED <<engine, h4Vars, h5Vars, v8Vars, enVars, jpVars, syVars>>
H264Step == engine = "h264" /\ H4Next /\ UNCHANGED <<engine, vpVars, h5Vars, v8Vars, enVars, jpVars, syVars>>
H265Step == engine = "h265" /\ H5Next /\ UNCHANGED <<engine, vpVars, h4Vars, v8Vars, enVars, jpVars, syVars>>
Vp8Step == engine = "vp8" /\ V8Next /\ UNCHANGED <<engine, vpVars, h4Vars, h5Vars, enVars, jpVars, syVars>>
EncH264Step == engine = "enc_h264" /\ EnNext /\ UNCHANGED <<engine, vpVars, h4Vars, h5Vars, v8Vars, jpVars, syVars>>
EncJpegStep == engine = "enc_jpeg" /\ JpNext /\ UNCHANGED <<engine, vpVars, h4Vars, h5Vars, v8Vars, enVars, syVars>>

LegacyStep == engine = "legacy" /\ SyNext /\ UNCHANGED <<engine, vpVars, h4Vars, h5Vars, v8Vars, enVars, jpVars>>

CodecsNext ==
  \/ ChooseEngine
  \/ Vp9Step \/ H264Step \/ H265Step \/ Vp8Step \/ EncH264Step \/ EncJpegStep
  \/ LegacyStep

CodecsVars == <<engine, vpVars, h4Vars, h5Vars, v8Vars, enVars, jpVars, syVars>>

CodecsSpec == CodecsInit /\ [][CodecsNext]_CodecsVars
-----------------------------------------------------------------------------
(* Properties of several modules under one name.                           *)

\* Types of the variables of all engines.
CodecsTypeOK == VpTypeOK /\ H4TypeOK /\ H5TypeOK /\ V8TypeOK /\ EnTypeOK /\ JpTypeOK
                /\ SyTypeOK

\* Whatever the driver lays out in one piece of memory does not overlap: the
\* working buffers and probability image of VP9, the SRAM of H.264 and H.265,
\* the image of VP8, the fields of the registers.
LayoutsDisjoint ==
  engine = "none" =>
    PackedDisjoint /\ WorkAreasApart /\ H4SramApart /\ H5AreasApart /\ V8ImageSound /\ FieldsApart

\* Geometry is exact: tiles cover the picture, scale factors fit, 10 bit
\* chroma moves inside its surface, slices start where the syntax says,
\* entry points walk the tiles, cropping is the selection.
GeometryExact ==
  engine = "none" =>
    /\ TilesCover /\ ScaleFits /\ ReconFits
    /\ H4SliceAddressed /\ H5TilesWalked
    /\ EnCropExact({16, 18, 30, 64, 1080, 1920, 3840})

\* The driver reads and writes bit streams exactly: the header of a VP8 frame
\* to its end, an H.265 slice to its data, the codes of the H.264 encoder, the
\* tables of the JPEG encoder.
HeadersInStep ==
  engine = "none" => V8HeaderInStep /\ H5AtAlignment /\ EnBitsExact /\ JpTablesSound

\* VP9 probabilities: an update is a permutation, an adaptation stays a
\* probability and merges the counts of the tree, no update is dropped.
ProbabilitiesSound ==
  engine = "none" =>
    UpdateIsPermutation /\ MergeStaysProbability /\ MergeFollowsTrees /\ NoDeltaLost

\* Every setup function of the driver releases what it acquired when it fails.
SetupsUnwind == engine = "none" => SetupAllOrNothing

\* An index means the picture the client named: in the H.264 lists of every
\* slice and the position of the target, and in the H.265 entries of the SRAM.
IndicesMeant == H4ReferencesResolved /\ H4PositionStable /\ H5EntriesAlive

\* The motion vectors of H.264 and H.265 fit the memory of the picture.
MotionVectorsFit == H4MotionVectorsFit /\ H5MotionVectorsFit

\* What the decoders without a list in SRAM are told of earlier frames is what
\* the client means: the addresses of references, and the last loop filter.
V8PastMeant == V8ReferencesMeant /\ V8LastIsPrevious

\* A decoder of the encoded stream derives what the hardware was told.
EnDecodes == EnParametersAgree /\ EnReferenceMeant

\* Every value but those known to be cut or to spill fits its register field.
\* Every interrupt is answered.
RegistersSound == engine = "none" => ValuesFit /\ IrqAnswered
=============================================================================
