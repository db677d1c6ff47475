------------------------------ MODULE CedrusVp9 ------------------------------
(***************************************************************************)
(* The VP9 decoder of cedrus from frame to frame: what                     *)
(* cedrus_dec_vp9_job_configure takes from earlier frames, what the        *)
(* hardware writes, and what cedrus_dec_vp9_job_finish keeps.  A frame is  *)
(* known by its timestamp, a number; the content of a probability context, *)
(* a segment map or a motion vector buffer is the set of frames it was     *)
(* computed from.                                                          *)
(*                                                                         *)
(* Jobs come one at a time (CedrusJob): a job starts, the hardware runs,   *)
(* and it ends decoded or failed (error interrupt, watchdog).              *)
(***************************************************************************)
EXTENDS Naturals, Sequences, FiniteSets

CONSTANTS
  VpBuf,       \* picture buffers
  VpFrame,     \* frame headers the client may send (a set of records)
  VpMaxFrames, \* bound: frames in a behaviour
  VpMaxRefs    \* bound: distinct references of a frame (three in VP9)

VpKind == {"key", "intra", "inter", "resilient"}
VpSeg  == {"off", "keep", "update", "temporal"}

\* size: a width and height, as one number; ctx: frame_context_idx; reset:
\* reset_frame_context; save: whether the context is refreshed, from the
\* forward update or by adaptation.
VpHeader ==
  [kind : VpKind, show : BOOLEAN, size : Nat \ {0}, depth : {8, 10}, seg : VpSeg,
   ctx : 0..3, reset : {"none", "spec", "all"}, save : {"none", "forward", "adapt"}]

ASSUME VpAssumption ==
  /\ VpFrame \subseteq VpHeader
  /\ VpBuf \subseteq Nat
  /\ VpMaxFrames \in Nat

VARIABLES
  vpUp,      \* the engine context exists (the coded queue streams)
  vpMem,     \* prob_count, entry_info, segment_map and mv_col are allocated
  vpCtx,     \* frame_context[0..3]
  vpMap,     \* segment_map[0..1]
  vpActive,  \* active_segment_map
  vpMv,      \* mv_col: the frame that last wrote it, 0 when cleared
  vpPrev,    \* previous_valid, _show_frame, _intra_only, _width and _height
  vpPic,     \* struct cedrus_dec_vp9_buffer, and the timestamp of the buffer
  vpJob,     \* the job on the hardware, or VpIdle
  vpLog,     \* history: the frames sent so far, with how each ended
  vpSpoiled  \* history: a job has failed on the hardware since the last
             \* decoded frame

vpVars == <<vpUp, vpMem, vpCtx, vpMap, vpActive, vpMv, vpPrev, vpPic, vpJob, vpLog, vpSpoiled>>

VpIdle  == [f |-> 0]
VpOops  == [f |-> 0, oops |-> TRUE]
VpBusy  == vpJob \notin {VpIdle, VpOops}
VpIntra(h) == h.kind \in {"key", "intra"}
VpNow   == Len(vpLog) + 1
VpKept  == <<vpCtx, vpMap, vpActive, vpPrev>>

VpNoPrev == [valid |-> FALSE, show |-> FALSE, intra |-> FALSE, size |-> 0]

\* recon: size of the frame the surface was allocated for, 0 when there is
\* none; chroma: size of the frame its chroma offset is for; holds: history,
\* the frame whose pixels are in the buffer, 0 for none or a broken one.
VpFresh == [stamp |-> 0, valid |-> FALSE, size |-> 0, depth |-> 8, recon |-> 0,
            chroma |-> 0, holds |-> 0]

VpInit ==
  /\ vpUp = FALSE
  /\ vpMem = FALSE
  /\ vpCtx = [i \in 0..3 |-> {}]
  /\ vpMap = [i \in 0..1 |-> {}]
  /\ vpActive = 0
  /\ vpMv = 0
  /\ vpPrev = VpNoPrev
  /\ vpPic = [b \in VpBuf |-> VpFresh]
  /\ vpJob = VpIdle
  /\ vpLog = <<>>
  /\ vpSpoiled = FALSE
-----------------------------------------------------------------------------
\* start_streaming: a zeroed context, default probabilities, cleared maps and
\* motion vectors.  When the motion vectors cannot be allocated it fails and
\* nothing has changed; when a later allocation fails the earlier ones are
\* freed, but ret holds the 0 of cedrus_dec_vp9_mv_col_size by then: streaming
\* starts without memory.
VpSetup ==
  /\ ~vpUp
  /\ vpUp' = TRUE
  /\ vpMem' \in BOOLEAN
  /\ vpCtx' = [i \in 0..3 |-> {}]
  /\ vpMap' = [i \in 0..1 |-> {}]
  /\ vpActive' = 0
  /\ vpMv' = 0
  /\ vpPrev' = VpNoPrev
  /\ vpSpoiled' = FALSE
  /\ UNCHANGED <<vpPic, vpJob, vpLog>>

\* stop_streaming, once no job runs.
VpCleanup ==
  /\ vpUp /\ vpJob = VpIdle
  /\ vpUp' = FALSE
  /\ vpMem' = FALSE
  /\ UNCHANGED <<vpCtx, vpMap, vpActive, vpMv, vpPrev, vpPic, vpJob, vpLog, vpSpoiled>>

\* The picture buffers are freed, and others allocated, between jobs.
VpBuffersFreed ==
  /\ vpJob = VpIdle
  /\ vpPic # [b \in VpBuf |-> VpFresh]
  /\ vpPic' = [b \in VpBuf |-> VpFresh]
  /\ UNCHANGED <<vpUp, vpMem, vpCtx, vpMap, vpActive, vpMv, vpPrev, vpJob, vpLog, vpSpoiled>>
-----------------------------------------------------------------------------
(* Starting a job: cedrus_context_job_run copies the timestamp to the      *)
(* picture buffer, then job_configure runs.                                *)

VpStamped(b) == [vpPic EXCEPT ![b].stamp = VpNow]

\* The 10 bit surface of the target: kept when large enough, else freed and
\* allocated again.
VpReconFits(p, size) == p.recon # 0 /\ p.recon >= size
VpEnsured(pic, b, size) ==
  [pic EXCEPT ![b].recon = IF VpReconFits(pic[b], size) THEN @ ELSE size,
              ![b].chroma = size]
VpSurface(pic, b, h) == IF h.depth = 10 THEN VpEnsured(pic, b, h.size) ELSE pic

\* The first buffer with a timestamp (vb2_find_buffer).
VpFound(pic, t) == {b \in VpBuf : pic[b].stamp = t /\ \A c \in VpBuf : pic[c].stamp = t => b <= c}

\* Faulty variant of VpUsable: the surface of a 10 bit reference is not checked.
VpUsableValid(p) == p.valid
VpUsable(p) == p.valid /\ (p.depth = 10 => p.recon # 0)
VpScalable(ref, size) == ref <= 2 * size /\ size <= 16 * ref

\* A reference is found, decoded, of a size that scales and of the same depth.
VpReferencesValid(pic, h, refs) ==
  \A t \in refs : \E b \in VpFound(pic, t) :
    VpUsable(pic[b]) /\ VpScalable(pic[b].size, h.size) /\ pic[b].depth = h.depth

VpRefSets(h) ==
  IF h.kind = "key" THEN {{}}
  ELSE {s \in SUBSET (1..VpNow) : s # {} /\ Cardinality(s) <= VpMaxRefs}

\* The end of a job that never reached the hardware.
VpRejected(pic, h) ==
  /\ vpPic' = pic
  /\ vpLog' = Append(vpLog, [h |-> h, end |-> "rejected"])
  /\ UNCHANGED <<vpUp, vpMem, vpCtx, vpMap, vpActive, vpMv, vpPrev, vpJob, vpSpoiled>>

\* Reset line, profile, size, addresses: nothing but the timestamp changed.
VpJobRejected(b, h) == VpRejected(VpStamped(b), h)

\* The surface cannot be allocated: the old one is gone.
VpJobNoMemory(b, h) ==
  /\ h.depth = 10 /\ ~VpReconFits(vpPic[b], h.size)
  /\ VpRejected([VpStamped(b) EXCEPT ![b].recon = 0, ![b].chroma = 0], h)

\* The surface of the target is ready, and then the coded size, an address or a
\* reference is refused.
VpJobRefused(b, h) == VpRejected(VpSurface(VpStamped(b), b, h), h)

\* reset_frame_context: the contexts after the reset, and the index used.
VpResetsAll(h) == h.kind \in {"key", "resilient"} \/ (h.kind = "intra" /\ h.reset = "all")
\* Faulty variant of VpReset: an error resilient frame resets nothing.
VpResetIntra(h) ==
  IF VpIntra(h) /\ VpResetsAll(h) THEN [i \in 0..3 |-> {}]
  ELSE IF h.kind = "intra" /\ h.reset = "spec" THEN [vpCtx EXCEPT ![h.ctx] = {}]
  ELSE vpCtx
VpReset(h) ==
  IF VpResetsAll(h) THEN [i \in 0..3 |-> {}]
  ELSE IF h.kind = "intra" /\ h.reset = "spec" THEN [vpCtx EXCEPT ![h.ctx] = {}]
  ELSE vpCtx
VpCtxIdx(h) == IF h.kind = "inter" THEN h.ctx ELSE 0

\* The segment map window of the hardware: the active map, before it is
\* cleared below; zeros for an intra frame.
VpWindow(h) == IF h.seg # "off" /\ ~VpIntra(h) THEN vpMap[vpActive] ELSE {}
VpClearsMaps(h) == VpIntra(h) \/ h.kind = "resilient"

\* Faulty variant of VpUsesPrevMvs: the size is not compared.
VpUsesPrevMvsAnySize(h) == h.kind = "inter" /\ vpPrev.valid /\ vpPrev.show /\ ~vpPrev.intra
VpUsesPrevMvs(h) ==
  /\ h.kind = "inter"
  /\ vpPrev.valid /\ vpPrev.show /\ ~vpPrev.intra
  /\ vpPrev.size = h.size

\* Everything is accepted: the job goes to the hardware, which writes motion
\* vectors and pixels from then on.
VpJobStart(b, h, refs) ==
  LET pic == VpSurface(VpStamped(b), b, h)
  IN  /\ VpReferencesValid(pic, h, refs) /\ vpMem
      /\ vpCtx' = VpReset(h)
      /\ vpMap' = IF VpClearsMaps(h) THEN [i \in 0..1 |-> {}] ELSE vpMap
      /\ vpActive' = IF VpClearsMaps(h) THEN 0 ELSE vpActive
      /\ vpJob' = [f |-> VpNow, h |-> h, buf |-> b, idx |-> VpCtxIdx(h),
                   tables |-> vpCtx'[VpCtxIdx(h)] \cup {VpNow},
                   window |-> VpWindow(h),
                   mvs |-> IF VpUsesPrevMvs(h) THEN {vpMv} ELSE {},
                   refs |-> UNION {VpFound(pic, t) : t \in refs}]
      /\ vpMv' = VpNow
      /\ vpPic' = [pic EXCEPT ![b].holds = 0]
      /\ vpLog' = Append(vpLog, [h |-> h, end |-> "running"])
      /\ UNCHANGED <<vpUp, vpMem, vpPrev, vpSpoiled>>

\* Without memory the kernel clears a null pointer there: nothing follows.
VpJobOops(b, h, refs) ==
  /\ VpReferencesValid(VpSurface(VpStamped(b), b, h), h, refs) /\ ~vpMem
  /\ vpJob' = VpOops
  /\ UNCHANGED <<vpUp, vpMem, vpMv, vpPic, vpLog, vpSpoiled, VpKept>>

VpJobRun ==
  /\ vpUp /\ vpJob = VpIdle /\ Len(vpLog) < VpMaxFrames
  /\ \E b \in VpBuf, h \in VpFrame :
       \/ VpJobRejected(b, h)
       \/ VpJobNoMemory(b, h)
       \/ VpJobRefused(b, h)
       \/ \E refs \in VpRefSets(h) : VpJobStart(b, h, refs) \/ VpJobOops(b, h, refs)
-----------------------------------------------------------------------------
(* The end of a job: cedrus_dec_vp9_job_finish.                            *)

\* The new segment map goes to the other buffer, which becomes the active one.
VpMapOut(j) == {j.f} \cup (IF j.h.seg = "temporal" THEN j.window ELSE {})
\* Faulty variant of VpFlipsMap: any enabled segmentation replaces the map.
VpFlipsMapEnabled(j) == j.h.seg # "off"
VpFlipsMap(j) == j.h.seg \in {"update", "temporal"}

\* The saved context: the tables the frame was decoded with, or the saved ones
\* adapted to the counts of the frame.
VpSavedContext(j) == IF j.h.save = "adapt" THEN vpCtx[j.idx] \cup {j.f} ELSE j.tables

VpJobDone ==
  /\ VpBusy
  /\ LET j == vpJob
     IN  /\ vpMap' = IF VpFlipsMap(j) THEN [vpMap EXCEPT ![1 - vpActive] = VpMapOut(j)] ELSE vpMap
         /\ vpActive' = IF VpFlipsMap(j) THEN 1 - vpActive ELSE vpActive
         /\ vpCtx' = IF j.h.save # "none" THEN [vpCtx EXCEPT ![j.idx] = VpSavedContext(j)] ELSE vpCtx
         /\ vpPic' = [vpPic EXCEPT ![j.buf] =
              [@ EXCEPT !.valid = TRUE, !.size = j.h.size, !.depth = j.h.depth, !.holds = j.f]]
         /\ vpPrev' = [valid |-> TRUE, show |-> j.h.show, intra |-> VpIntra(j.h), size |-> j.h.size]
         /\ vpLog' = [vpLog EXCEPT ![j.f].end = "decoded"]
  /\ vpJob' = VpIdle
  /\ vpSpoiled' = FALSE
  /\ UNCHANGED <<vpUp, vpMem, vpMv>>

\* Any other state returns at once.
VpJobFailed ==
  /\ VpBusy
  /\ vpJob' = VpIdle
  /\ vpLog' = [vpLog EXCEPT ![vpJob.f].end = "failed"]
  /\ vpSpoiled' = TRUE
  /\ UNCHANGED <<vpUp, vpMem, vpMv, vpPic, VpKept>>

VpNext == VpSetup \/ VpCleanup \/ VpBuffersFreed \/ VpJobRun \/ VpJobDone \/ VpJobFailed

VpSpec == VpInit /\ [][VpNext]_vpVars
-----------------------------------------------------------------------------
(* Properties.                                                             *)

VpDone == {f \in 1..Len(vpLog) : vpLog[f].end = "decoded"}
VpSent == 1..Len(vpLog)

VpPicture == [stamp : Nat, valid : BOOLEAN, size : Nat, depth : {8, 10}, recon : Nat,
              chroma : Nat, holds : Nat]
VpRunning == [f : Nat \ {0}, h : VpFrame, buf : VpBuf, idx : 0..3, tables : SUBSET Nat,
              window : SUBSET Nat, mvs : SUBSET Nat, refs : SUBSET VpBuf]

\* Types of the variables.
VpTypeOK ==
  /\ vpUp \in BOOLEAN /\ vpMem \in BOOLEAN
  /\ vpCtx \in [0..3 -> SUBSET Nat]
  /\ vpMap \in [0..1 -> SUBSET Nat]
  /\ vpActive \in 0..1
  /\ vpMv \in Nat
  /\ vpPrev \in [valid : BOOLEAN, show : BOOLEAN, intra : BOOLEAN, size : Nat]
  /\ vpPic \in [VpBuf -> VpPicture]
  /\ vpJob \in VpRunning \cup {VpIdle, VpOops}
  /\ vpLog \in Seq([h : VpFrame, end : {"rejected", "running", "decoded", "failed"}])
  /\ vpSpoiled \in BOOLEAN

\* Every 10 bit surface the hardware works on is allocated: that of the target
\* and those of the references (a surface is freed when it is too small and
\* the next allocation may fail, while the buffer stays valid).
VpSurfacesAlive ==
  VpBusy /\ vpJob.h.depth = 10 =>
    /\ vpPic[vpJob.buf].recon >= vpJob.h.size
    /\ \A b \in vpJob.refs : vpPic[b].recon # 0

\* Size, depth and surface layout recorded for a decoded picture are those of
\* the frame its pixels come from, until another job takes the buffer (the
\* flag valid is never cleared, and the surface is shared by all the frames of
\* a buffer).
VpPictureDescribed ==
  \A b \in VpBuf :
    LET p == vpPic[b]
    IN  p.holds # 0 /\ p.stamp = p.holds =>
          /\ p.valid
          /\ p.size = vpLog[p.holds].h.size
          /\ p.depth = vpLog[p.holds].h.depth
          /\ p.depth = 10 => p.chroma = p.size /\ p.recon >= p.size

\* Previous motion vectors are used only when the buffer holds those of the
\* last decoded frame, and that was a shown inter frame of the same size.  A
\* job that failed on the hardware has overwritten the buffer, and the code
\* does not notice.
VpMvsOfPrevious ==
  VpBusy /\ vpJob.mvs # {} /\ ~vpSpoiled =>
    \E f \in VpDone :
      /\ vpJob.mvs = {f}
      /\ \A g \in VpDone : g <= f
      /\ vpLog[f].h.show /\ ~VpIntra(vpLog[f].h)
      /\ vpLog[f].h.size = vpJob.h.size

\* Nothing of a frame that failed survives in the probability contexts or in
\* the segment map of the next frame.
VpNothingOfFailed ==
  /\ \A i \in 0..3 : vpCtx[i] \subseteq VpDone
  /\ vpMap[vpActive] \subseteq VpDone

\* Frames whose start resets all the probability contexts.
VpCuts(f, g) == {c \in 1..f : c <= g /\ vpLog[c].end # "rejected" /\ VpResetsAll(vpLog[c].h)}

\* A frame is decoded with probabilities that depend on no frame from before
\* the last one that reset the contexts, whether or not that one decoded.
VpProbabilitiesCut ==
  VpBusy =>
    \A c \in VpCuts(Len(vpLog), vpJob.f) : \A g \in vpJob.tables : c <= g

\* An inter frame reads a segment map that depends on no frame from before the
\* last intra frame, and no intra frame reads one.  (An error resilient frame
\* still reads the map from before it: the copy comes before the clearing.)
VpSegmentMapCut ==
  VpBusy =>
    \A c \in 1..vpJob.f :
      vpLog[c].end # "rejected" /\ VpIntra(vpLog[c].h) => \A g \in vpJob.window : c <= g

\* Steps that end a decoded frame with a new map; steps that start a frame
\* which clears the maps.
VpMapUpdated ==
  /\ VpBusy /\ vpJob' = VpIdle
  /\ vpLog'[vpJob.f].end = "decoded"
  /\ vpJob.h.seg \in {"update", "temporal"}
VpMapCleared ==
  /\ vpJob' \notin {VpIdle, VpOops} /\ vpJob'.h.kind # "inter"
  /\ vpMap'[vpActive'] = {}

\* The segment map is kept across frames and replaced only by a frame that
\* decoded and updated it, or cleared by one that starts afresh.
VpMapReplaced ==
  [][vpUp /\ vpMap'[vpActive'] # vpMap[vpActive] => VpMapUpdated \/ VpMapCleared]_vpVars

\* The reference sets of a picture are sound: the surfaces exist and what is
\* recorded of a decoded picture is true of its pixels.
VpPicturesSound == VpSurfacesAlive /\ VpPictureDescribed

\* What a VP9 frame is decoded with comes from no frame that failed, and from
\* none before the last that started afresh.
VpHistoryCut == VpNothingOfFailed /\ VpProbabilitiesCut /\ VpSegmentMapCut
=============================================================================
