------------------------- MODULE CedrusFormatProofs -------------------------
(* Theorems about CedrusFormat, for any number of buffers and any requests. *)
EXTENDS CedrusFormat, TLAPS

\* The sizes that v4l2_apply_frmsize_constraints returns are accepted as they are.
LEMMA ConstrainFits ==
  ASSUME NEW e \in Engine, NEW w \in Nat
  PROVE  /\ Constrain(w, FrmSize[e]) \in Nat
         /\ Align(Constrain(w, FrmSize[e]), FrmSize[e].step) = Constrain(w, FrmSize[e])
         /\ Constrain(w, FrmSize[e]) >= 16
         /\ Constrain(w, FrmSize[e]) <= FrmSize[e].max
<1>1. CASE e = "vp9"
  <2>1. FrmSize[e] = [min |-> 64, max |-> 4096, step |-> 1]
    BY <1>1 DEF FrmSize
  <2> QED BY <2>1 DEF Constrain, Align, Smaller, Larger
<1>2. CASE e \in {"mpeg2", "h264"}
  <2>1. FrmSize[e] = [min |-> 16, max |-> 3840, step |-> 16]
    BY <1>2 DEF FrmSize, Engines
  <2> QED BY <2>1 DEF Constrain, Align, Smaller, Larger
<1>3. CASE e = "h264enc"
  <2>1. FrmSize[e] = [min |-> 16, max |-> 3840, step |-> 2]
    BY <1>3 DEF FrmSize, Engines
  <2> QED BY <2>1 DEF Constrain, Align, Smaller, Larger
<1>4. CASE e = "jpeg"
  <2>1. FrmSize[e] = [min |-> 16, max |-> 1920, step |-> 2]
    BY <1>4 DEF FrmSize, Engines
  <2> QED BY <2>1 DEF Constrain, Align, Smaller, Larger
<1> QED BY <1>1, <1>2, <1>3, <1>4 DEF Engine, Engines

\* Aligning to 32 keeps what the decoders' engines accept.
LEMMA TiledFits ==
  ASSUME NEW e \in Engines("dec"), NEW w \in Nat, w <= FrmSize[e].max
  PROVE  /\ Align(Align(w, 32), FrmSize[e].step) = Align(w, 32)
         /\ Align(w, 32) \in Nat
         /\ Align(w, 32) <= FrmSize[e].max
<1>1. CASE e = "vp9"
  <2>1. FrmSize[e] = [min |-> 64, max |-> 4096, step |-> 1]
    BY <1>1 DEF FrmSize, Engine, Engines
  <2> QED BY <2>1 DEF Align
<1>2. CASE e \in {"mpeg2", "h264"}
  <2>1. FrmSize[e] = [min |-> 16, max |-> 3840, step |-> 16]
    BY <1>2 DEF FrmSize, Engine, Engines
  <2> QED BY <2>1 DEF Align
<1> QED BY <1>1, <1>2 DEF Engines

\* The size of a picture is a natural number.
LEMMA ProductNat ==
  ASSUME NEW x \in Nat, NEW y \in Nat
  PROVE  x * y \in Nat /\ x * y + (x * y) \div 2 \in Nat
<1>1. x * y \in Nat OBVIOUS
<1>2. \A z \in Nat : z + z \div 2 \in Nat OBVIOUS
<1> QED BY <1>1, <1>2

\* Picture sizes are natural numbers.
LEMMA SizeOfNat ==
  ASSUME NEW pix, NEW w \in Nat
  PROVE  SizeOf(pix, w) \in Nat
<1>1. Align(w, 16) \in Nat /\ Align(w, 32) \in Nat /\ Align(w, 64) \in Nat
  BY DEF Align
<1>2. Align(w, 16) * w + (Align(w, 16) * w) \div 2 \in Nat
  BY <1>1, ProductNat
<1>3. Align(w, 32) * Align(w, 32) \in Nat /\ Align(w, 32) * Align(w, 64) \in Nat
  BY <1>1, ProductNat
<1>4. \A x, y \in Nat : x + y \div 2 \in Nat OBVIOUS
<1>5. Align(w, 32) * Align(w, 32) + (Align(w, 32) * Align(w, 64)) \div 2 \in Nat
  BY <1>3, <1>4
<1> QED BY <1>2, <1>5 DEF SizeOf

\* What the format ioctls store has the type of a format.
LEMMA CodedPrepareType ==
  ASSUME TypeOK, NEW f, f.width \in Nat, f.size \in Nat,
         NEW pic, pic.width \in Nat
  PROVE  /\ CodedPrepare(f, pic) \in [pix : Engines(role), width : Nat, size : Nat]
         /\ role = "dec" =>
              /\ Align(CodedPrepare(f, pic).width, FrmSize[engine].step)
                   = CodedPrepare(f, pic).width
              /\ CodedPrepare(f, pic).width <= FrmSize[engine].max
         /\ role = "enc" => CodedPrepare(f, pic).width = pic.width
<1>1. engine \in Engine
  BY DEF TypeOK, Engine, Engines
<1>2. First(role) \in Engines(role)
  BY DEF First, Engines
<1>3. Larger(1, f.size) \in Nat
  BY DEF Larger
<1> QED BY <1>1, <1>2, <1>3, ConstrainFits DEF CodedPrepare, TypeOK

\* A prepared picture format has its type, and on the encoder an aligned width.
LEMMA PicturePrepareType ==
  ASSUME TypeOK, NEW f, f.width \in Nat, NEW cod, cod.width \in Nat
  PROVE  /\ PicturePrepare(f, cod) \in [pix : Pixels(role), width : Nat, size : Nat]
         /\ role = "enc" =>
              /\ Align(PicturePrepare(f, cod).width, FrmSize[engine].step)
                   = PicturePrepare(f, cod).width
              /\ PicturePrepare(f, cod).width <= FrmSize[engine].max
              /\ PicturePrepare(f, cod).width >= 16
<1>1. engine \in Engine
  BY DEF TypeOK, Engine, Engines
<1>2. "nv12" \in Pixels(role)
  BY DEF Pixels
<1>3. Align(cod.width, 32) \in Nat
  BY DEF Align
<1> QED BY <1>1, <1>2, <1>3, ConstrainFits, SizeOfNat DEF PicturePrepare, TypeOK

\* The types of what clients ask for.
LEMMA RequestTypes ==
  /\ \A f \in CodedRequests : f.width \in Nat /\ f.size \in Nat
  /\ \A f \in PictureRequests : f.width \in Nat
<1>1. \A w \in Widths : w \in Nat
  BY FormatAssumption
<1>2. \A f \in CodedRequests : f.width \in Widths /\ f.size \in {0, 2}
  BY DEF CodedRequests
<1>3. \A f \in PictureRequests : f.width \in Widths
  BY DEF PictureRequests
<1>4. \A f \in CodedRequests : f.width \in Nat
  BY <1>1, <1>2
<1>5. \A f \in CodedRequests : f.size \in Nat
  BY <1>2
<1> QED BY <1>1, <1>3, <1>4, <1>5

-----------------------------------------------------------------------------
(* The formats and the engine, whatever clients do. *)

\* The invariant holds at the start.
LEMMA FormatInit == Init => FormatInv
<1> SUFFICES ASSUME Init PROVE FormatInv
  OBVIOUS
<1>1. engine \in Engines(role) /\ engine \in Engine
  BY DEF Init, Engine, Engines, First
<1>2. FrmSize["mpeg2"] = [min |-> 16, max |-> 3840, step |-> 16]
  BY DEF FrmSize, Engine, Engines
<1>3. Constrain(1280, FrmSize["mpeg2"]) = 1280
  BY <1>2 DEF Constrain, Align, Smaller, Larger
<1>4. coded = [pix |-> First(role), size |-> 1, width |-> 1280]
  BY <1>3 DEF Init, First
<1>5. SizeOf("nv12", 1280) \in Nat
  BY SizeOfNat
<1>6. TypeOK
  BY <1>1, <1>4, <1>5 DEF Init, TypeOK, Pixels, NoBuf
<1>7. Allocated
  BY DEF Init, Allocated
<1>8. EngineOwnsMemory
  BY <1>4 DEF Init, EngineOwnsMemory
<1>9. FormatsAgree
  BY <1>4 DEF Init, FormatsAgree, PicturePrepare, Pixels
<1> QED BY <1>6, <1>7, <1>8, <1>9 DEF FormatInv

\* A queue that streams has buffers, so its S_FMT fails.
LEMMA SFmtCodedStopped ==
  ASSUME FormatInv, NEW f, SFmtCoded(f)
  PROVE  "coded" \notin streaming /\ job = None
BY DEF FormatInv, Allocated, SFmtCoded, Dynamic, Queue

\* A picture format changes only without buffers, streaming or a job.
LEMMA SFmtPictureFree ==
  ASSUME FormatInv, NEW f, SFmtPicture(f)
  PROVE  ~Busy("picture") /\ "picture" \notin streaming /\ job = None
BY DEF FormatInv, Allocated, SFmtPicture, Dynamic, Queue

\* VIDIOC_S_FMT on the coded queue.
LEMMA StepSFmtCoded ==
  ASSUME FormatInv, NEW f \in CodedRequests, SFmtCoded(f)
  PROVE  FormatInv'
<1> USE DEF FormatInv
<1>1. coded' = CodedPrepare(f, picture) /\ engine' = coded'.pix
  BY DEF SFmtCoded
<1>2. coded' \in [pix : Engines(role), width : Nat, size : Nat]
  BY <1>1, RequestTypes, CodedPrepareType DEF TypeOK
<1>3. picture' \in [pix : Pixels(role), width : Nat, size : Nat]
  BY <1>2, PicturePrepareType DEF SFmtCoded, TypeOK
<1>4. TypeOK'
  BY <1>1, <1>2, <1>3 DEF SFmtCoded, TypeOK, buffers, running
<1>5. Allocated'
  BY DEF Allocated, Busy, SFmtCoded, buffers, running
<1>6. EngineOwnsMemory'
  BY <1>1, SFmtCodedStopped DEF EngineOwnsMemory, SFmtCoded, running
<1>7. FormatsAgree'
  <2>1. CASE role = "dec"
    <3>1. picture' = PicturePrepare(picture, coded') /\ role' = role
      BY <2>1 DEF SFmtCoded
    <3>2. picture.pix \in Pixels(role)
      BY DEF TypeOK
    <3> QED BY <2>1, <3>1, <3>2 DEF FormatsAgree, PicturePrepare
  <2>2. CASE role = "enc"
    BY <2>2, <1>1, RequestTypes, CodedPrepareType DEF TypeOK, FormatsAgree, SFmtCoded
  <2> QED BY <2>1, <2>2 DEF TypeOK
<1> QED BY <1>4, <1>5, <1>6, <1>7

\* VIDIOC_S_FMT on the picture queue.
LEMMA StepSFmtPicture ==
  ASSUME FormatInv, NEW f \in PictureRequests, SFmtPicture(f)
  PROVE  FormatInv'
<1> USE DEF FormatInv
<1>1. picture' = PicturePrepare(f, coded)
  BY DEF SFmtPicture
<1>2. picture' \in [pix : Pixels(role), width : Nat, size : Nat]
  BY <1>1, RequestTypes, PicturePrepareType DEF TypeOK
<1>3. role = "enc" => coded' = CodedPrepare(coded, picture')
  BY DEF SFmtPicture
<1>4. role = "enc" => coded' \in [pix : Engines(role), width : Nat, size : Nat]
                      /\ coded'.width = picture'.width
  BY <1>2, <1>3, CodedPrepareType DEF TypeOK
<1>5. coded'.pix = coded.pix
  BY <1>3 DEF TypeOK, CodedPrepare, SFmtPicture
<1>6. TypeOK'
  BY <1>2, <1>4 DEF SFmtPicture, TypeOK, buffers, running
<1>7. Allocated'
  BY DEF Allocated, Busy, SFmtPicture, buffers, running
<1>8. EngineOwnsMemory'
  BY <1>5 DEF EngineOwnsMemory, SFmtPicture, running
<1>9. FormatsAgree'
  <2>1. CASE role = "dec"
    <3>1. coded' = coded /\ role' = role
      BY <2>1 DEF SFmtPicture
    <3>2. picture'.pix \in Pixels(role)
      BY <1>2
    <3> QED BY <2>1, <1>1, <3>1, <3>2 DEF FormatsAgree, PicturePrepare
  <2>2. CASE role = "enc"
    BY <2>2, <1>4 DEF FormatsAgree, SFmtPicture
  <2> QED BY <2>1, <2>2 DEF TypeOK
<1> QED BY <1>6, <1>7, <1>8, <1>9

\* VIDIOC_S_SELECTION.
LEMMA StepSSelection ==
  ASSUME FormatInv, NEW l \in Lefts, NEW w \in Widths, SSelection(l, w)
  PROVE  FormatInv'
<1> USE DEF FormatInv
<1>1. l \in Nat /\ w \in Nat /\ Word \in Nat /\ Word > 0
  BY FormatAssumption
<1>2. Align(l, 2) \in Nat
  BY <1>1 DEF Align
<1>3. (picture.width - Align(l, 2)) % Word \in Nat
  <2>1. picture.width - Align(l, 2) \in Int
    BY <1>2 DEF TypeOK
  <2> QED BY <1>1, <2>1
<1>4. selection' \in [left : Nat, width : Nat]
  BY <1>1, <1>2, <1>3 DEF SSelection, Smaller, Larger
<1>5. TypeOK'
  BY <1>4 DEF SSelection, TypeOK, buffers, running
<1>6. Allocated'
  BY DEF Allocated, Busy, SSelection, buffers, running
<1>7. EngineOwnsMemory' /\ FormatsAgree'
  BY DEF EngineOwnsMemory, FormatsAgree, PicturePrepare, SSelection, running
<1> QED BY <1>5, <1>6, <1>7

\* The other steps leave the formats alone.
LEMMA FormatsKept ==
  ASSUME FormatInv, UNCHANGED formats
  PROVE  FormatsAgree' /\ engine' = coded'.pix
BY DEF FormatInv, FormatsAgree, EngineOwnsMemory, PicturePrepare, formats

\* The private data of a buffer is an engine, or none.
LEMMA DataOfType ==
  ASSUME TypeOK, NEW q \in Queue
  PROVE  DataOf(engine, q) \in Engines(role) \cup {None}
BY DEF TypeOK, DataOf

\* VIDIOC_REQBUFS that adds a buffer.
LEMMA StepAlloc ==
  ASSUME FormatInv, NEW q \in Queue, NEW b \in Bufs, Alloc(q, b)
  PROVE  FormatInv'
<1> USE DEF FormatInv
<1>1. TypeOK'
  <2>1. buf' \in [Queue -> [Bufs -> [size : Nat, data : Engines(role) \cup {None}]]]
    BY DataOfType DEF Alloc, TypeOK
  <2>2. side' \subseteq [by : Engines(role), buf : Bufs, width : Nat]
    BY DEF Alloc, TypeOK
  <2> QED BY <2>1, <2>2 DEF Alloc, TypeOK, formats, running
<1>2. \A r \in Queue, c \in Bufs : buf[r][c] # NoBuf => buf'[r][c] = buf[r][c]
  BY DEF Alloc, TypeOK
<1>3. Allocated'
  BY <1>2 DEF Alloc, Allocated, Busy, TypeOK, running
<1>4. EngineOwnsMemory' /\ FormatsAgree'
  BY FormatsKept DEF Alloc, EngineOwnsMemory, formats, running
<1> QED BY <1>1, <1>3, <1>4

\* VIDIOC_REQBUFS with a count of 0.
LEMMA StepFree ==
  ASSUME FormatInv, NEW q \in Queue, Free(q)
  PROVE  FormatInv'
<1> USE DEF FormatInv
<1>1. TypeOK'
  <2>1. buf' \in [Queue -> [Bufs -> [size : Nat, data : Engines(role) \cup {None}]]]
    BY DEF Free, TypeOK, NoBuf
  <2>2. side' \subseteq [by : Engines(role), buf : Bufs, width : Nat]
    BY DEF Free, TypeOK
  <2>3. queued' \in [Queue -> SUBSET Bufs]
    BY DEF Free, TypeOK
  <2> QED BY <2>1, <2>2, <2>3 DEF Free, TypeOK, formats, running
<1>2. q \notin streaming /\ job = None
  BY DEF Free, Allocated
<1>3. \A r \in Queue : r # q => buf'[r] = buf[r] /\ queued'[r] = queued[r]
  BY DEF Free, TypeOK
<1>4. queued'[q] = {}
  BY DEF Free, TypeOK
<1>5. Allocated'
  BY <1>2, <1>3, <1>4 DEF Free, Allocated, Busy, TypeOK, running
<1>6. EngineOwnsMemory' /\ FormatsAgree'
  BY FormatsKept DEF Free, EngineOwnsMemory, formats, running
<1> QED BY <1>1, <1>5, <1>6

\* VIDIOC_QBUF.
LEMMA StepQBuf ==
  ASSUME FormatInv, NEW q \in Queue, NEW b \in Bufs, QBuf(q, b)
  PROVE  FormatInv'
<1> USE DEF FormatInv
<1>1. TypeOK'
  BY DEF QBuf, TypeOK, formats, buffers, running
<1>2. Allocated'
  BY DEF QBuf, Allocated, Busy, TypeOK, buffers, running
<1>3. EngineOwnsMemory' /\ FormatsAgree'
  BY FormatsKept DEF QBuf, EngineOwnsMemory, formats, running
<1> QED BY <1>1, <1>2, <1>3

\* VIDIOC_STREAMON and VIDIOC_STREAMOFF.
LEMMA StepStream ==
  ASSUME FormatInv, NEW q \in Queue, StreamOn(q) \/ StreamOff(q)
  PROVE  FormatInv'
<1> USE DEF FormatInv
<1>1. TypeOK'
  BY DEF StreamOn, StreamOff, TypeOK, formats, buffers
<1>2. Allocated'
  <2>1. CASE StreamOn(q)
    <3>1. job' = job /\ queued' = queued /\ buf' = buf /\ streaming' = streaming \cup {q}
      BY <2>1 DEF StreamOn, buffers
    <3>2. Busy(q)
      BY <2>1 DEF StreamOn
    <3>3. job # None => streaming' = Queue
      BY <3>1 DEF Allocated
    <3> QED BY <3>1, <3>2, <3>3 DEF Allocated, Busy
  <2>2. CASE StreamOff(q)
    BY <2>2 DEF StreamOff, Allocated, Busy, TypeOK, buffers
  <2> QED BY <2>1, <2>2
<1>3. EngineOwnsMemory'
  <2>1. UNCHANGED <<coded, engine>>
    BY DEF StreamOn, StreamOff, formats
  <2> QED BY <2>1 DEF StreamOn, StreamOff, EngineOwnsMemory, TypeOK, Queue
<1>4. FormatsAgree'
  BY FormatsKept DEF StreamOn, StreamOff
<1> QED BY <1>1, <1>2, <1>3, <1>4

\* What a job attaches to a picture buffer has its type.
LEMMA AttachType ==
  ASSUME TypeOK, NEW b \in Bufs
  PROVE  Attach(b) \subseteq [by : Engines(role), buf : Bufs, width : Nat]
BY DEF TypeOK, Attach

\* The start of a job.
LEMMA StepJobStart ==
  ASSUME FormatInv, NEW c \in Bufs, NEW p \in Bufs, JobStart(c, p)
  PROVE  FormatInv'
<1> USE DEF FormatInv
<1>1. TypeOK'
  <2>1. job' \in [Queue -> Bufs]
    BY DEF JobStart
  <2>2. side' \subseteq [by : Engines(role), buf : Bufs, width : Nat]
    BY AttachType DEF JobStart, TypeOK
  <2> QED BY <2>1, <2>2 DEF JobStart, TypeOK, formats
<1>2. Allocated'
  BY DEF JobStart, Allocated, Busy, Queue
<1>3. EngineOwnsMemory' /\ FormatsAgree'
  BY FormatsKept DEF JobStart, EngineOwnsMemory, formats
<1> QED BY <1>1, <1>2, <1>3

\* The end of a job.
LEMMA StepJobEnd ==
  ASSUME FormatInv, JobEnd
  PROVE  FormatInv'
<1> USE DEF FormatInv
<1>1. TypeOK'
  BY DEF JobEnd, TypeOK, formats, buffers
<1>2. Allocated'
  BY DEF JobEnd, Allocated, Busy, TypeOK, buffers
<1>3. EngineOwnsMemory' /\ FormatsAgree'
  BY FormatsKept DEF JobEnd, EngineOwnsMemory, formats
<1> QED BY <1>1, <1>2, <1>3

\* Every step keeps the invariant.
LEMMA FormatNext == FormatInv /\ [Next]_vars => FormatInv'
<1> SUFFICES ASSUME FormatInv, [Next]_vars PROVE FormatInv'
  OBVIOUS
<1>1. CASE UNCHANGED vars
  BY <1>1 DEF vars, FormatInv, TypeOK, Allocated, Busy, EngineOwnsMemory,
              FormatsAgree, PicturePrepare
<1>2. CASE Next
  BY <1>2, StepSFmtCoded, StepSFmtPicture, StepSSelection, StepAlloc, StepFree,
     StepQBuf, StepStream, StepJobStart, StepJobEnd
     DEF Next, FormatStep, QueueStep, JobStep
<1> QED BY <1>1, <1>2

\* The inductive invariant holds in every reachable state, for any client.
THEOREM FormatInductive == Spec => []FormatInv
BY FormatInit, FormatNext, PTL DEF Spec

\* Every variable keeps its type.
THEOREM TypeCorrect == Spec => []TypeOK
<1>1. FormatInv => TypeOK
  BY DEF FormatInv
<1> QED BY <1>1, FormatInductive, PTL

\* engine_ctx and engine_job are set up and cleaned up by the same engine, that of
\* the coded format.
THEOREM EngineOwned == Spec => []EngineOwnsMemory
<1>1. FormatInv => EngineOwnsMemory
  BY DEF FormatInv
<1> QED BY <1>1, FormatInductive, PTL

\* The coded and the picture format describe the same frame.
THEOREM Agreement == Spec => []FormatsAgree
<1>1. FormatInv => FormatsAgree
  BY DEF FormatInv
<1> QED BY <1>1, FormatInductive, PTL

\* No ioctl changes what a running job reads without the lock.
THEOREM FixedUnderJob == Spec => FormatsFixedUnderJob
<1>1. FormatInv /\ [Next]_vars
       => [job # None => UNCHANGED <<coded, picture, engine>>]_vars
  <2> SUFFICES ASSUME FormatInv, Next, job # None
               PROVE  UNCHANGED <<coded, picture, engine>>
    BY DEF vars
  <2>1. ASSUME NEW f, SFmtCoded(f) \/ SFmtPicture(f) PROVE FALSE
    BY <2>1, SFmtCodedStopped, SFmtPictureFree
  <2>2. ASSUME NEW l, NEW w, SSelection(l, w)
        PROVE  UNCHANGED <<coded, picture, engine>>
    BY <2>2 DEF SSelection
  <2>3. ASSUME JobStep \/ \E q \in Queue : QueueStep(q)
        PROVE  UNCHANGED <<coded, picture, engine>>
    BY <2>3 DEF JobStep, JobEnd, JobStart, QueueStep, Alloc, QBuf, Free, StreamOn,
                StreamOff, formats
  <2> QED BY <2>1, <2>2, <2>3 DEF Next, FormatStep
<1> QED BY <1>1, FormatInductive, PTL DEF Spec, FormatsFixedUnderJob

-----------------------------------------------------------------------------
(***************************************************************************)
(* What holds of clients that set the coded format only without picture     *)
(* buffers (Peer) and repeat S_FMT until it changes nothing (Resets).        *)
(***************************************************************************)

\* With no picture buffer there is nothing attached to one.
LEMMA NothingAttached ==
  ASSUME TypeOK, MadeForFormats, ~Busy("picture")
  PROVE  side = {} /\ \A b \in Bufs : buf["picture"][b] = NoBuf
BY DEF TypeOK, MadeForFormats, Busy

\* Only a change of the coded format changes the engine, and then no buffer holds
\* its private structure.
LEMMA CodedKeepsEngine ==
  ASSUME FormatInv, NEW f, SFmtCoded(f), Busy("coded")
  PROVE  engine' = engine
<1>1. f.pix = coded.pix
  BY DEF SFmtCoded, Dynamic
<1>2. coded'.pix = f.pix
  BY <1>1 DEF SFmtCoded, CodedPrepare, FormatInv, TypeOK
<1> QED BY <1>1, <1>2 DEF SFmtCoded, FormatInv, EngineOwnsMemory

\* Without buffers there is nothing to be made for.
LEMMA MadeInit == Init => MadeForFormats
<1> SUFFICES ASSUME Init PROVE MadeForFormats
  OBVIOUS
<1>1. picture.size = SizeOf(picture.pix, picture.width)
  BY DEF Init
<1>2. side = {} /\ \A q \in Queue, b \in Bufs : buf[q][b] = NoBuf
  BY DEF Init
<1> QED BY <1>1, <1>2 DEF MadeForFormats, Queue

\* A coded format changes only without picture buffers, by Peer, and without coded ones.
LEMMA MadeSFmtCoded ==
  ASSUME Peer, FormatInv, MadeForFormats, NEW f, SFmtCoded(f)
  PROVE  MadeForFormats'
<1>1. side' = {} /\ buf' = buf /\ \A b \in Bufs : buf["picture"][b] = NoBuf
  BY NothingAttached DEF SFmtCoded, FormatInv, buffers
<1>2. picture'.size = SizeOf(picture'.pix, picture'.width)
  BY DEF SFmtCoded, PicturePrepare, MadeForFormats
<1>3. \A b \in Bufs :
        buf["coded"][b] # NoBuf => buf["coded"][b].data = DataOf(engine', "coded")
  BY CodedKeepsEngine DEF Busy, MadeForFormats, Queue
<1> QED BY <1>1, <1>2, <1>3 DEF MadeForFormats, Queue

\* A picture format changes only without picture buffers.
LEMMA MadeSFmtPicture ==
  ASSUME FormatInv, MadeForFormats, NEW f, SFmtPicture(f)
  PROVE  MadeForFormats'
<1>1. side' = {} /\ buf' = buf /\ \A b \in Bufs : buf["picture"][b] = NoBuf
  BY SFmtPictureFree, NothingAttached DEF SFmtPicture, FormatInv, buffers
<1>2. picture'.size = SizeOf(picture'.pix, picture'.width) /\ engine' = engine
  BY DEF SFmtPicture, PicturePrepare
<1> QED BY <1>1, <1>2 DEF MadeForFormats, Queue

\* A new buffer is made for the formats of now.
LEMMA MadeAlloc ==
  ASSUME FormatInv, MadeForFormats, NEW q \in Queue, NEW b \in Bufs, Alloc(q, b)
  PROVE  MadeForFormats'
<1>1. UNCHANGED <<picture, engine>>
  BY DEF Alloc, formats
<1>2. /\ buf'[q][b].data = DataOf(engine, q)
      /\ q = "picture" => buf'[q][b].size = picture.size
      /\ \A r \in Queue, c \in Bufs : r # q \/ c # b => buf'[r][c] = buf[r][c]
  BY DEF Alloc, FormatInv, TypeOK
<1>3. \A s \in side' : /\ s.by = engine /\ s.width = picture.width
                       /\ DataOf(engine, "picture") = engine
                       /\ buf'["picture"][s.buf] # NoBuf
  <2> SUFFICES ASSUME NEW s \in side'
               PROVE  /\ s.by = engine /\ s.width = picture.width
                      /\ DataOf(engine, "picture") = engine
                      /\ buf'["picture"][s.buf] # NoBuf
    OBVIOUS
  <2>1. CASE s \in side
    <3>1. s.buf \in Bufs
      BY <2>1 DEF FormatInv, TypeOK
    <3>2. q # "picture" \/ s.buf # b
      BY <2>1 DEF Alloc, MadeForFormats
    <3> QED BY <2>1, <3>1, <3>2, <1>2 DEF MadeForFormats, Queue
  <2>2. CASE s \notin side
    <3>1. /\ q = "picture" /\ engine = "h264enc"
          /\ s = [by |-> engine, buf |-> b, width |-> picture.width]
      BY <2>2 DEF Alloc
    <3>2. DataOf(engine, "picture") = engine
      BY <3>1 DEF DataOf
    <3>3. engine # None
      BY FormatAssumption DEF FormatInv, TypeOK, Engine, Engines
    <3> QED BY <3>1, <3>2, <3>3, <1>2 DEF NoBuf
  <2> QED BY <2>1, <2>2
<1> QED BY <1>1, <1>2, <1>3 DEF MadeForFormats, Queue

\* buffer_cleanup frees what is attached, because it is that of the right engine.
LEMMA MadeFree ==
  ASSUME FormatInv, MadeForFormats, NEW q \in Queue, Free(q)
  PROVE  MadeForFormats'
<1>1. UNCHANGED <<picture, engine>>
  BY DEF Free, formats
<1>2. /\ \A c \in Bufs : buf'[q][c] = NoBuf
      /\ \A r \in Queue : r # q => buf'[r] = buf[r]
  BY DEF Free, FormatInv, TypeOK
<1>3. engine # None
  BY FormatAssumption DEF FormatInv, TypeOK, Engine, Engines
<1>4. \A s \in side : s.by = engine /\ buf["picture"][s.buf].data = engine
  BY DEF MadeForFormats, FormatInv, TypeOK, Queue
<1>5. q = "picture" => side' = {}
  BY <1>3, <1>4 DEF Free
<1>6. q # "picture" => side' = side
  BY DEF Free
<1> QED BY <1>1, <1>2, <1>5, <1>6 DEF MadeForFormats, Queue

\* What a job attaches is made for the formats of now.
LEMMA MadeJobStart ==
  ASSUME FormatInv, MadeForFormats, NEW c \in Bufs, NEW p \in Bufs, JobStart(c, p)
  PROVE  MadeForFormats'
<1>1. UNCHANGED <<picture, engine, buf>>
  BY DEF JobStart, formats
<1>2. buf["picture"][p] # NoBuf
  BY DEF JobStart, FormatInv, Allocated, Queue
<1>3. ASSUME NEW s \in side', s \notin side
      PROVE  /\ s = [by |-> engine, buf |-> p, width |-> picture.width]
             /\ engine \in {"h264", "vp9"}
  BY <1>3 DEF JobStart, Attach
<1>4. engine \in {"h264", "vp9"} => DataOf(engine, "picture") = engine
  BY DEF DataOf
<1> QED BY <1>1, <1>2, <1>3, <1>4 DEF MadeForFormats

\* Every step keeps it.
LEMMA MadeNext ==
  ASSUME Peer, FormatInv, MadeForFormats, [Next]_vars
  PROVE  MadeForFormats'
<1>1. CASE UNCHANGED <<picture, engine, buf, side>>
  BY <1>1 DEF MadeForFormats
<1>2. CASE \/ UNCHANGED vars \/ JobEnd
           \/ \E l \in Lefts, w \in Widths : SSelection(l, w)
           \/ \E q \in Queue : StreamOn(q) \/ StreamOff(q) \/ \E b \in Bufs : QBuf(q, b)
  BY <1>1, <1>2 DEF vars, JobEnd, SSelection, StreamOn, StreamOff, QBuf, formats, buffers
<1> QED
  BY <1>2, MadeSFmtCoded, MadeSFmtPicture, MadeAlloc, MadeFree, MadeJobStart
     DEF Next, FormatStep, JobStep, QueueStep

\* Clients that clear the picture queue first keep buffers that fit the formats.
THEOREM MadeInductive == Peer /\ Spec => [](FormatInv /\ MadeForFormats)
<1> DEFINE Inv == Peer /\ FormatInv /\ MadeForFormats
<1>1. Peer /\ Init => Inv
  BY MadeInit, FormatInit
<1>2. Inv /\ [Next]_vars => Inv'
  BY MadeNext, FormatNext
<1>3. Inv => FormatInv /\ MadeForFormats
  OBVIOUS
<1> HIDE DEF Inv
<1> QED BY <1>1, <1>2, <1>3, PTL DEF Spec

\* The engine casts the private structures of a job's buffers to its own type.
THEOREM FindsBufferData == Peer /\ Spec => []JobFindsBufferData
<1>1. FormatInv /\ MadeForFormats => JobFindsBufferData
  BY DEF FormatInv, Allocated, MadeForFormats, JobFindsBufferData, TypeOK
<1> QED BY <1>1, MadeInductive, PTL

\* buffer_cleanup always is that of the engine that attached the memory.
THEOREM CleanupMatches == Peer /\ Spec => []CleanupMatchesInit
<1>1. FormatInv /\ MadeForFormats => CleanupMatchesInit
  BY DEF FormatInv, TypeOK, MadeForFormats, CleanupMatchesInit, Queue
<1> QED BY <1>1, MadeInductive, PTL

\* The width that is not copied but constrained, and the step that constrains it.
LEMMA LeadFits ==
  ASSUME TypeOK, Settled
  PROVE  /\ Align(LeadWidth, FrmSize[engine].step) = LeadWidth
         /\ LeadWidth <= FrmSize[engine].max
<1>1. CASE role = "dec"
  <2>1. coded.width = CodedPrepare(coded, picture).width
    BY <1>1 DEF Settled
  <2> QED BY <1>1, <2>1, CodedPrepareType DEF LeadWidth, TypeOK
<1>2. CASE role = "enc"
  <2>1. picture.width = PicturePrepare(picture, coded).width
    BY <1>2 DEF Settled
  <2> QED BY <1>2, <2>1, PicturePrepareType DEF LeadWidth, TypeOK
<1> QED BY <1>1, <1>2 DEF TypeOK

\* The picture format that the driver accepts leaves a coded size that it accepts.
LEMMA AcceptedSFmtPicture ==
  ASSUME FormatInv, SizeAccepted, NEW f \in PictureRequests, SFmtPicture(f)
  PROVE  SizeAccepted'
<1>1. UNCHANGED <<role, engine, streaming>> /\ picture' = PicturePrepare(f, coded)
  BY DEF SFmtPicture, running
<1>2. CASE role = "dec"
  <2>1. coded' = coded
    BY <1>2 DEF SFmtPicture
  <2> QED BY <1>1, <1>2, <2>1 DEF SizeAccepted, LeadWidth
<1>3. CASE role = "enc"
  <2>1. /\ Align(picture'.width, FrmSize[engine].step) = picture'.width
        /\ picture'.width <= FrmSize[engine].max
    BY <1>1, <1>3, RequestTypes, PicturePrepareType DEF FormatInv, TypeOK
  <2> QED BY <1>1, <1>3, <2>1 DEF SizeAccepted, LeadWidth
<1> QED BY <1>2, <1>3 DEF FormatInv, TypeOK

\* Every step keeps the size accepted.
LEMMA AcceptedNext ==
  ASSUME Peer, Resets, FormatInv, SizeAccepted, [Next]_vars
  PROVE  SizeAccepted'
<1>1. CASE UNCHANGED <<role, coded, picture, engine, streaming>>
  BY <1>1 DEF SizeAccepted, LeadWidth
<1>2. CASE \/ UNCHANGED vars \/ JobStep
           \/ \E l \in Lefts, w \in Widths : SSelection(l, w)
           \/ \E q \in Queue : Free(q) \/ \E b \in Bufs : Alloc(q, b) \/ QBuf(q, b)
  BY <1>1, <1>2 DEF vars, JobStep, JobStart, JobEnd, SSelection, Free, Alloc, QBuf,
                    formats, buffers, running
<1>3. ASSUME NEW f, SFmtCoded(f) PROVE SizeAccepted'
  <2>1. streaming = {}
    BY <1>3, SFmtCodedStopped DEF SFmtCoded, FormatInv, Allocated, TypeOK, Queue
  <2> QED BY <1>3, <2>1 DEF SFmtCoded, SizeAccepted, running
<1>4. ASSUME NEW q \in Queue, StreamOn(q) PROVE SizeAccepted'
  <2>1. /\ Align(LeadWidth, FrmSize[engine].step) = LeadWidth
        /\ LeadWidth <= FrmSize[engine].max
    BY <1>4, LeadFits DEF StreamOn, FormatInv
  <2> QED BY <1>4, <2>1 DEF StreamOn, SizeAccepted, LeadWidth, formats
<1>5. ASSUME NEW q \in Queue, StreamOff(q) PROVE SizeAccepted'
  <2>1. streaming' # {} => streaming # {}
    BY <1>5 DEF StreamOff
  <2> QED BY <1>5, <2>1 DEF StreamOff, SizeAccepted, LeadWidth, formats
<1> QED
  BY <1>2, <1>3, <1>4, <1>5, AcceptedSFmtPicture DEF Next, FormatStep, QueueStep

\* The three invariants together, for clients that keep to Peer and Resets.
THEOREM SizeInductive ==
  Peer /\ Resets /\ Spec => [](FormatInv /\ MadeForFormats /\ SizeAccepted)
<1> DEFINE Inv == Peer /\ Resets /\ FormatInv /\ MadeForFormats /\ SizeAccepted
<1>1. Peer /\ Resets /\ Init => Inv
  BY MadeInit, FormatInit DEF Init, SizeAccepted
<1>2. Inv /\ [Next]_vars => Inv'
  BY MadeNext, FormatNext, AcceptedNext
<1>3. Inv => FormatInv /\ MadeForFormats /\ SizeAccepted
  OBVIOUS
<1> HIDE DEF Inv
<1> QED BY <1>1, <1>2, <1>3, PTL DEF Spec

\* The engine writes whole blocks: the picture is made of them.
LEMMA WholeBlocks ==
  ASSUME FormatInv, SizeAccepted, streaming # {}
  PROVE  /\ Align(picture.width, FrmSize[engine].step) = picture.width
         /\ picture.width <= FrmSize[engine].max
<1>1. /\ Align(LeadWidth, FrmSize[engine].step) = LeadWidth
      /\ LeadWidth <= FrmSize[engine].max
  BY DEF SizeAccepted
<1>2. CASE role = "enc"
  BY <1>1, <1>2 DEF LeadWidth
<1>3. CASE role = "dec"
  <2>1. picture.width = IF picture.pix = "tiled" THEN Align(coded.width, 32)
                        ELSE coded.width
    BY <1>3 DEF FormatInv, FormatsAgree, PicturePrepare, TypeOK
  <2>2. engine \in Engines("dec") /\ coded.width \in Nat
    BY <1>3 DEF FormatInv, TypeOK
  <2> QED BY <1>1, <1>3, <2>1, <2>2, TiledFits DEF LeadWidth
<1> QED BY <1>2, <1>3 DEF FormatInv, TypeOK

\* A job never writes outside its picture buffer or the memory attached to it.
THEOREM PictureFits == Peer /\ Resets /\ Spec => []JobPictureFits
<1>1. FormatInv /\ MadeForFormats /\ SizeAccepted => JobPictureFits
  <2> SUFFICES ASSUME FormatInv, MadeForFormats, SizeAccepted, job # None
               PROVE  LET p == job["picture"]
                      IN  /\ buf["picture"][p].size
                               >= SizeOf(picture.pix, Align(picture.width, FrmSize[engine].step))
                          /\ picture.width <= FrmSize[engine].max
                          /\ \A s \in side : s.buf = p /\ s.by = engine
                                               => s.width >= picture.width
    BY DEF JobPictureFits
  <2>1. streaming # {} /\ job["picture"] \in Bufs /\ buf["picture"][job["picture"]] # NoBuf
    BY DEF FormatInv, Allocated, TypeOK, Queue
  <2>2. buf["picture"][job["picture"]].size = SizeOf(picture.pix, picture.width)
    BY <2>1 DEF MadeForFormats
  <2>3. SizeOf(picture.pix, picture.width) \in Nat /\ picture.width \in Nat
    BY SizeOfNat DEF FormatInv, TypeOK
  <2>4. \A s \in side : s.width = picture.width
    BY DEF MadeForFormats
  <2> QED BY <2>1, <2>2, <2>3, <2>4, WholeBlocks
<1> QED BY <1>1, SizeInductive, PTL

-----------------------------------------------------------------------------
(* The encoder's selection, of clients that select inside the picture. *)

SelectionInv ==
  /\ SelectionInside
  /\ role = "enc" => picture.width <= 3840

\* No encoder takes more than 3840.
LEMMA EncoderWidth ==
  ASSUME TypeOK, role = "enc"
  PROVE  FrmSize[engine].max \in Nat /\ FrmSize[engine].max <= 3840
<1>1. engine \in {"h264enc", "jpeg"}
  BY DEF TypeOK, Engines
<1> QED BY <1>1 DEF FrmSize, Engine, Engines

\* A number smaller than a word is itself.
LEMMA ModuloSmall ==
  ASSUME NEW a \in Nat, a < Word
  PROVE  a % Word = a
BY FormatAssumption

\* The unsigned difference that bounds the width does not wrap inside the picture.
LEMMA SelectionSSelection ==
  ASSUME InBounds, TypeOK, SelectionInv, NEW l \in Lefts, NEW w \in Widths,
         SSelection(l, w)
  PROVE  SelectionInv'
<1> DEFINE left == Align(l, 2)
           room == picture.width - left
<1>1. UNCHANGED <<role, picture>>
  BY DEF SSelection
<1> SUFFICES ASSUME role = "enc" PROVE SelectionInside'
  BY <1>1 DEF SelectionInv, SelectionInside
<1>2. l \in Nat /\ w \in Nat
  BY FormatAssumption
<1>3. left \in Nat /\ left + 2 <= picture.width /\ picture.width \in Nat
  BY <1>2 DEF SSelection, TypeOK, Align
<1>4. room \in Nat /\ room >= 2 /\ room < Word
  <2> HIDE DEF left
  <2> QED BY <1>3, FormatAssumption DEF SelectionInv
<1>5. room % Word = room
  <2> HIDE DEF room
  <2> QED BY <1>4, ModuloSmall
<1>6. selection' = [left |-> left, width |-> Smaller(Larger(w, 2), room)]
  BY <1>5 DEF SSelection
<1> HIDE DEF left
<1> QED BY <1>1, <1>2, <1>3, <1>4, <1>6 DEF SelectionInside, Smaller, Larger

\* Every step keeps the selection inside the picture.
LEMMA SelectionNext ==
  ASSUME InBounds, FormatInv, SelectionInv, [Next]_vars
  PROVE  SelectionInv'
<1>1. CASE UNCHANGED <<role, picture, selection>>
  BY <1>1 DEF SelectionInv, SelectionInside
<1>2. ASSUME NEW f \in PictureRequests, SFmtPicture(f) PROVE SelectionInv'
  <2>1. role' = role
    BY <1>2 DEF SFmtPicture
  <2> SUFFICES ASSUME role = "enc" PROVE SelectionInv'
    BY <2>1 DEF SelectionInv, SelectionInside
  <2>2. /\ picture' = PicturePrepare(f, coded)
        /\ selection' = [left |-> 0, width |-> picture'.width]
    BY <1>2 DEF SFmtPicture
  <2>3. picture'.width \in Nat /\ picture'.width >= 16 /\ picture'.width <= 3840
    <3>1. /\ picture'.width \in Nat /\ picture'.width >= 16
          /\ picture'.width <= FrmSize[engine].max
      BY <2>2, RequestTypes, PicturePrepareType DEF FormatInv, TypeOK
    <3>2. FrmSize[engine].max \in Nat /\ FrmSize[engine].max <= 3840
      BY EncoderWidth DEF FormatInv
    <3> QED BY <3>1, <3>2
  <2> QED BY <2>1, <2>2, <2>3 DEF SelectionInv, SelectionInside
<1>3. ASSUME NEW f, SFmtCoded(f) PROVE SelectionInv'
  <2>1. role' = role /\ selection' = selection /\ (role = "enc" => picture' = picture)
    BY <1>3 DEF SFmtCoded
  <2> QED BY <2>1 DEF SelectionInv, SelectionInside
<1>4. CASE \/ UNCHANGED vars \/ JobStep
           \/ \E q \in Queue : QueueStep(q)
  BY <1>1, <1>4 DEF vars, JobStep, JobStart, JobEnd, QueueStep, Free, Alloc, QBuf,
                    StreamOn, StreamOff, formats
<1> QED
  BY <1>2, <1>3, <1>4, SelectionSSelection DEF Next, FormatStep, FormatInv

\* The encoder's selection lies in the picture, also after the picture shrank.
THEOREM SelectionStaysInside == InBounds /\ Spec => []SelectionInside
<1> DEFINE Inv == InBounds /\ FormatInv /\ SelectionInv
<1>1. InBounds /\ Init => Inv
  BY FormatInit DEF Init, SelectionInv, SelectionInside
<1>2. Inv /\ [Next]_vars => Inv'
  BY FormatNext, SelectionNext
<1>3. Inv => SelectionInside
  BY DEF SelectionInv
<1> HIDE DEF Inv
<1> QED BY <1>1, <1>2, <1>3, PTL DEF Spec
=============================================================================
