---------------------------- MODULE CedrusFormat ----------------------------
(***************************************************************************)
(* The formats of one cedrus context: the coded and the picture format, the *)
(* engine the coded format selects, and the buffers, engine data of buffers *)
(* and engine memory that were made for an earlier choice of them.           *)
(*                                                                         *)
(* ioctls run under the node's lock, jobs in device_run.  A coded format is *)
(* named by its engine.  Frames are square, with the stride the driver      *)
(* chooses; sizes are bytes of a picture and KiB of a coded buffer.          *)
(***************************************************************************)
EXTENDS Integers

CONSTANTS
  Bufs,        \* indices of the buffers of a queue
  Widths,      \* frame widths that clients ask for
  Lefts,       \* left edges that clients ask for in a selection
  None,
  Word,        \* numbers of a C unsigned int: arithmetic is modulo Word
  Peer,        \* clients set a coded format only without picture buffers
  Resets,      \* clients set the size again after they changed the codec
  InBounds     \* clients select at least a 2x2 rectangle inside the picture

VARIABLES
  role,       \* the node that was opened: "dec" or "enc"
  coded,      \* format_coded
  picture,    \* format_picture
  selection,  \* selection_picture
  engine,     \* ctx->engine
  buf,        \* the allocated buffers of each queue
  queued,     \* those that the client has queued
  streaming,  \* queues that stream
  memory,     \* the engine that engine_ctx and engine_job were set up for
  side,       \* DMA memory engines attached to picture buffers
  job         \* the buffers of the running job

vars == <<role, coded, picture, selection, engine, buf, queued, streaming,
          memory, side, job>>

formats == <<role, coded, picture, selection, engine>>
buffers == <<buf, side>>
running == <<streaming, memory, job>>

Queue   == {"coded", "picture"}

Engines(r) == IF r = "dec" THEN {"mpeg2", "h264", "vp9"} ELSE {"h264enc", "jpeg"}
First(r)   == IF r = "dec" THEN "mpeg2" ELSE "h264enc"
Pixels(r)  == IF r = "dec" THEN {"nv12", "tiled"} ELSE {"nv12"}
Engine     == Engines("dec") \cup Engines("enc")

ASSUME FormatAssumption ==
  /\ Widths \subseteq Nat \ {0} /\ Lefts \subseteq Nat
  /\ None \notin Bufs \cup Engine
  /\ Word \in Nat /\ Word > 8192
  /\ Peer \in BOOLEAN /\ Resets \in BOOLEAN /\ InBounds \in BOOLEAN

\* Frame sizes of each engine.
FrmSize ==
  [e \in Engine |->
     IF e = "vp9" THEN [min |-> 64, max |-> 4096, step |-> 1]
     ELSE [min |-> 16, max |-> IF e = "jpeg" THEN 1920 ELSE 3840,
           step |-> IF e \in Engines("dec") THEN 16 ELSE 2]]

\* engine->buffer_size and engine->coded_buffer_size: whose private structure a
\* new buffer of a queue carries.
DataOf(e, q) ==
  IF (q = "picture" /\ e \in {"h264", "vp9", "h264enc"}) \/ (q = "coded" /\ e = "jpeg")
  THEN e ELSE None

NoBuf     == [size |-> 0, data |-> None]
Larger(x, y)  == IF x >= y THEN x ELSE y
Smaller(x, y) == IF x <= y THEN x ELSE y
Align(x, n)   == ((x + n - 1) \div n) * n

\* v4l2_apply_frmsize_constraints
Constrain(w, fs) == Align(Smaller(Larger(w, fs.min), fs.max), fs.step)

\* Bytes of a picture.
SizeOf(pix, w) ==
  IF pix = "nv12" THEN Align(w, 16) * w + (Align(w, 16) * w) \div 2
  ELSE Align(w, 32) * Align(w, 32) + (Align(w, 32) * Align(w, 64)) \div 2

\* cedrus_proc_format_coded_prepare: an unknown format becomes the first one;
\* decoders constrain the size by the engine selected now, encoders copy it.
CodedPrepare(f, pic) ==
  [pix   |-> IF f.pix \in Engines(role) THEN f.pix ELSE First(role),
   width |-> IF role = "dec" THEN Constrain(f.width, FrmSize[engine]) ELSE pic.width,
   size  |-> Larger(1, f.size)]

\* cedrus_proc_format_picture_prepare: here decoders copy and encoders constrain.
PicturePrepare(f, cod) ==
  LET p == IF f.pix \in Pixels(role) THEN f.pix ELSE "nv12"
      w == IF role = "enc" THEN Constrain(f.width, FrmSize[engine])
           ELSE IF p = "tiled" THEN Align(cod.width, 32) ELSE cod.width
  IN  [pix |-> p, width |-> w, size |-> SizeOf(p, w)]

Busy(q) == \E b \in Bufs : buf[q][b] # NoBuf
Output  == IF role = "dec" THEN "coded" ELSE "picture"

\* format_dynamic_check: the decoder may change the size of the stopped coded
\* queue under its buffers.  (For the encoder the conditions exclude each other.)
Dynamic(q, pix) ==
  /\ q = Output /\ Busy(q)
  /\ q \notin streaming
  /\ ~Busy("picture")
  /\ pix = coded.pix

-----------------------------------------------------------------------------
\* Faulty variant of SFmtCoded: the picture format is not updated.
SFmtCodedAlone(f) ==
  /\ Dynamic("coded", f.pix) \/ ~Busy("coded")
  /\ Peer => ~Busy("picture")
  /\ coded' = CodedPrepare(f, picture)
  /\ engine' = coded'.pix
  /\ UNCHANGED <<role, picture, selection, queued, buffers, running>>

\* VIDIOC_S_FMT of the coded queue: prepare, store, propagate, select the engine.
SFmtCoded(f) ==
  /\ Dynamic("coded", f.pix) \/ ~Busy("coded")
  /\ Peer => ~Busy("picture")
  /\ coded' = CodedPrepare(f, picture)
  /\ picture' = IF role = "dec" THEN PicturePrepare(picture, coded') ELSE picture
  /\ engine' = coded'.pix
  /\ UNCHANGED <<role, selection, queued, buffers, running>>

\* Faulty variant of SFmtPicture: the selection is that of the old picture.
SFmtPictureKeepsSelection(f) ==
  /\ Dynamic("picture", f.pix) \/ ~Busy("picture")
  /\ picture' = PicturePrepare(f, coded)
  /\ coded' = IF role = "enc" THEN CodedPrepare(coded, picture') ELSE coded
  /\ UNCHANGED <<role, engine, selection, queued, buffers, running>>

\* Faulty variant of SFmtPicture: buffers do not matter.
SFmtPictureWhileBusy(f) ==
  /\ picture' = PicturePrepare(f, coded)
  /\ IF role = "enc"
     THEN /\ selection' = [left |-> 0, width |-> picture'.width]
          /\ coded' = CodedPrepare(coded, picture')
     ELSE UNCHANGED <<selection, coded>>
  /\ UNCHANGED <<role, engine, queued, buffers, running>>

\* VIDIOC_S_FMT of the picture queue.
SFmtPicture(f) ==
  /\ Dynamic("picture", f.pix) \/ ~Busy("picture")
  /\ picture' = PicturePrepare(f, coded)
  /\ IF role = "enc"
     THEN /\ selection' = [left |-> 0, width |-> picture'.width]
          /\ coded' = CodedPrepare(coded, picture')
     ELSE UNCHANGED <<selection, coded>>
  /\ UNCHANGED <<role, engine, queued, buffers, running>>

\* VIDIOC_S_SELECTION: the kernel's clamp() lets the upper bound win.
SSelection(l, w) ==
  LET left     == Align(l, 2)
      widthMax == (picture.width - left) % Word
  IN  /\ InBounds => left + 2 <= picture.width
      /\ selection' = [left  |-> left, width |-> Smaller(Larger(w, 2), widthMax)]
      /\ UNCHANGED <<role, coded, picture, engine, queued, buffers, running>>

\* Faulty variant of Alloc: the private structure is that of the first engine.
AllocFirstEngine(q, b) ==
  /\ buf[q][b] = NoBuf
  /\ buf' = [buf EXCEPT ![q][b] =
               [size |-> IF q = "coded" THEN coded.size ELSE picture.size,
                data |-> DataOf(First(role), q)]]
  /\ UNCHANGED <<formats, queued, side, running>>

\* VIDIOC_REQBUFS and VIDIOC_CREATE_BUFS with memory of the driver: queue_setup
\* and buffer_init.  The H.264 encoder attaches its reconstruction here.
Alloc(q, b) ==
  /\ buf[q][b] = NoBuf
  /\ buf' = [buf EXCEPT ![q][b] =
               [size |-> IF q = "coded" THEN coded.size ELSE picture.size,
                data |-> DataOf(engine, q)]]
  /\ side' = IF q = "picture" /\ engine = "h264enc"
             THEN side \cup {[by |-> engine, buf |-> b, width |-> picture.width]}
             ELSE side
  /\ UNCHANGED <<formats, queued, running>>

\* Faulty variant of Free: the engine's cleanup is not called.
FreeWithoutCleanup(q) ==
  /\ Busy(q) /\ q \notin streaming
  /\ buf' = [buf EXCEPT ![q] = [b \in Bufs |-> NoBuf]]
  /\ queued' = [queued EXCEPT ![q] = {}]
  /\ UNCHANGED <<formats, side, running>>

\* VIDIOC_REQBUFS(0): buffer_cleanup has the engine selected now free what is
\* attached to buffers with private data.
Free(q) ==
  /\ Busy(q) /\ q \notin streaming
  /\ buf' = [buf EXCEPT ![q] = [b \in Bufs |-> NoBuf]]
  /\ queued' = [queued EXCEPT ![q] = {}]
  /\ side' = IF q = "picture"
             THEN {s \in side : s.by # engine \/ buf[q][s.buf].data = None}
             ELSE side
  /\ UNCHANGED <<formats, running>>

\* VIDIOC_QBUF: buffer_prepare refuses a buffer that is too small.
QBuf(q, b) ==
  /\ buf[q][b] # NoBuf /\ b \notin queued[q]
  /\ buf[q][b].size >= (IF q = "coded" THEN coded.size ELSE picture.size)
  /\ queued' = [queued EXCEPT ![q] = @ \cup {b}]
  /\ UNCHANGED <<formats, buffers, running>>

\* What clients do with Resets: they repeat S_FMT until it changes nothing.
Settled ==
  IF role = "dec" THEN coded = CodedPrepare(coded, picture)
  ELSE picture = PicturePrepare(picture, coded)

\* VIDIOC_STREAMON: start_streaming of the coded queue sets the engine up.
StreamOn(q) ==
  /\ q \notin streaming /\ Busy(q)
  /\ Resets => Settled
  /\ streaming' = streaming \cup {q}
  /\ memory' = IF q = "coded" THEN engine ELSE memory
  /\ UNCHANGED <<formats, queued, buffers, job>>

\* VIDIOC_STREAMOFF waits for the job; stop_streaming of the coded queue cleans up.
StreamOff(q) ==
  /\ job = None
  /\ streaming' = streaming \ {q}
  /\ memory' = IF q = "coded" THEN None ELSE memory
  /\ queued' = [queued EXCEPT ![q] = {}]
  /\ UNCHANGED <<formats, buffers, job>>

\* Memory that a job attaches to its picture buffer: the motion vectors of H.264
\* once, the 10-bit reconstruction of VP9 whenever it is too small.
Attach(b) ==
  LET has(w) == \E s \in side : s.buf = b /\ s.by = engine /\ s.width >= w
      new    == [by |-> engine, buf |-> b, width |-> picture.width]
  IN  IF engine = "h264" /\ ~has(0) THEN side \cup {new}
      ELSE IF engine = "vp9" /\ ~has(picture.width)
      THEN {s \in side : s.buf # b \/ s.by # engine} \cup {new}
      ELSE side

\* device_run, with the frame's bit depth as the choice whether memory is attached.
JobStart(c, p) ==
  /\ job = None /\ streaming = Queue
  /\ c \in queued["coded"] /\ p \in queued["picture"]
  /\ job' = [q \in Queue |-> IF q = "coded" THEN c ELSE p]
  /\ side' = Attach(p) \/ (engine = "vp9" /\ side' = side)
  /\ UNCHANGED <<formats, buf, queued, streaming, memory>>

\* The job ends and the client dequeues its buffers.
JobEnd ==
  /\ job # None
  /\ queued' = [q \in Queue |-> queued[q] \ {job[q]}]
  /\ job' = None
  /\ UNCHANGED <<formats, buffers, streaming, memory>>

-----------------------------------------------------------------------------
\* cedrus_context_setup: the first engine, and the formats its node sets up.
Init ==
  /\ role \in {"dec", "enc"}
  /\ engine = First(role)
  /\ coded = [pix |-> First(role), size |-> 1,
              width |-> IF role = "dec" THEN Constrain(1280, FrmSize[engine]) ELSE 1280]
  /\ picture = [pix |-> "nv12", width |-> 1280, size |-> SizeOf("nv12", 1280)]
  /\ selection = [left |-> 0, width |-> IF role = "enc" THEN 1280 ELSE 0]
  /\ buf = [q \in Queue |-> [b \in Bufs |-> NoBuf]]
  /\ queued = [q \in Queue |-> {}]
  /\ streaming = {} /\ memory = None /\ side = {} /\ job = None

CodedRequests ==
  [pix : Engines(role) \cup {"other"}, width : Widths, size : {0, 2}]
PictureRequests == [pix : Pixels(role) \cup {"other"}, width : Widths]

FormatStep ==
  \/ \E f \in CodedRequests : SFmtCoded(f)
  \/ \E f \in PictureRequests : SFmtPicture(f)
  \/ \E l \in Lefts, w \in Widths : SSelection(l, w)

QueueStep(q) ==
  \/ \E b \in Bufs : Alloc(q, b) \/ QBuf(q, b)
  \/ Free(q) \/ StreamOn(q) \/ StreamOff(q)

JobStep == JobEnd \/ \E c, p \in Bufs : JobStart(c, p)

Next == FormatStep \/ JobStep \/ \E q \in Queue : QueueStep(q)

Spec == Init /\ [][Next]_vars

-----------------------------------------------------------------------------
(* Type invariant and properties. *)

\* Every variable keeps the shape its C counterpart has.
TypeOK ==
  /\ role \in {"dec", "enc"}
  /\ engine \in Engines(role)
  /\ coded \in [pix : Engines(role), width : Nat, size : Nat]
  /\ picture \in [pix : Pixels(role), width : Nat, size : Nat]
  /\ selection \in [left : Nat, width : Nat]
  /\ buf \in [Queue -> [Bufs -> [size : Nat, data : Engines(role) \cup {None}]]]
  /\ queued \in [Queue -> SUBSET Bufs]
  /\ streaming \in SUBSET Queue
  /\ memory \in Engines(role) \cup {None}
  /\ side \subseteq [by : Engines(role), buf : Bufs, width : Nat]
  /\ job \in [Queue -> Bufs] \cup {None}

\* The engine works on whole blocks: a running job stays inside its picture buffer
\* and inside the memory engines attached to it, whichever formats were set since
\* these were made.
JobPictureFits ==
  job # None =>
    LET p == job["picture"]
    IN  /\ buf["picture"][p].size >= SizeOf(picture.pix, Align(picture.width, FrmSize[engine].step))
        /\ picture.width <= FrmSize[engine].max
        /\ \A s \in side : s.buf = p /\ s.by = engine => s.width >= picture.width

\* The engine casts the private structures of the job's buffers to its own type.
JobFindsBufferData ==
  job # None => \A q \in Queue : buf[q][job[q]].data = DataOf(engine, q)

\* What an engine attached to a buffer goes when the buffer goes: buffer_cleanup
\* is that of the engine that was selected when the memory was attached.
CleanupMatchesInit ==
  \A s \in side : buf["picture"][s.buf].data = s.by

\* cleanup of engine_ctx and engine_job runs exactly while the coded queue streams,
\* and by the engine that set them up, which is the one of the coded format.
EngineOwnsMemory ==
  /\ engine = coded.pix
  /\ memory = IF "coded" \in streaming THEN engine ELSE None

\* Whatever order the two formats are set in, they describe the same frame.
FormatsAgree ==
  IF role = "dec" THEN picture = PicturePrepare(picture, coded)
  ELSE coded.width = picture.width

\* The encoder's selection lies in the picture, also after the picture shrank.
SelectionInside ==
  role = "enc" => /\ selection.width >= 2
                  /\ selection.left + selection.width <= picture.width

\* No ioctl changes the formats or the engine under a running job, which reads
\* them without the node's lock.
FormatsFixedUnderJob ==
  [][job # None => UNCHANGED <<coded, picture, engine>>]_vars

(***************************************************************************)
(* The inductive invariant behind them.                                     *)
(***************************************************************************)

\* Buffers stream, are queued and are worked on only while they are allocated.
Allocated ==
  /\ \A q \in streaming : Busy(q)
  /\ \A q \in Queue : \A b \in queued[q] : buf[q][b] # NoBuf
  /\ job # None => streaming = Queue /\ \A q \in Queue : job[q] \in queued[q]

FormatInv == TypeOK /\ Allocated /\ EngineOwnsMemory /\ FormatsAgree

\* Buffers, and what engines attached to them, were made for the formats set now.
MadeForFormats ==
  /\ picture.size = SizeOf(picture.pix, picture.width)
  /\ \A q \in Queue, b \in Bufs : buf[q][b] # NoBuf => buf[q][b].data = DataOf(engine, q)
  /\ \A b \in Bufs :
       buf["picture"][b] # NoBuf => buf["picture"][b].size = picture.size
  /\ \A s \in side : /\ s.by = engine /\ s.width = picture.width
                     /\ DataOf(engine, "picture") = engine
                     /\ buf["picture"][s.buf] # NoBuf

\* A queue streams only with a size that the engine accepts.
LeadWidth == IF role = "dec" THEN coded.width ELSE picture.width

SizeAccepted ==
  streaming # {} => /\ Align(LeadWidth, FrmSize[engine].step) = LeadWidth
                    /\ LeadWidth <= FrmSize[engine].max
=============================================================================
