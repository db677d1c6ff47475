------------------------------ MODULE CedrusJob ------------------------------
(***************************************************************************)
(* The job path of the cedrus V4L2 driver: contexts (open files) queue     *)
(* buffers on the decoder and the encoder video node, the V4L2 mem2mem     *)
(* framework runs one job at a time on the single Video Engine,            *)
(* cedrus_context_job_run starts it, and it is finished either by the      *)
(* interrupt handler or by the two second watchdog.                        *)
(*                                                                         *)
(* Threads: one user thread per context (its ioctls and its close hold the *)
(* lock of the video node), the mem2mem work item, the watchdog work item, *)
(* the interrupt handler, and the hardware.  Each of their steps below is  *)
(* a stretch of code that no other thread can observe half done.           *)
(***************************************************************************)
EXTENDS Naturals, Sequences

CONSTANTS
  Ctx,          \* struct cedrus_context, one per open file
  Bufs,         \* buffer indices of each vb2 queue
  Engines,      \* the codec engines, each with its own status register
  NodeOf,       \* the video node ("dec" or "enc") a context is opened on
  EngineOf,     \* the engine selected by the coded format of a context
  None,         \* the null pointer
  PromptIrq     \* TRUE: an interrupt handler that was entered returns before
                \* any thread other than an executing watchdog makes a step

Node  == {"dec", "enc"}
Queue == {"src", "dst"}

ASSUME JobAssumption ==
  /\ NodeOf \in [Ctx -> Node]
  /\ EngineOf \in [Ctx -> Engines]
  /\ None \notin Ctx \cup Bufs \cup Engines
  /\ PromptIrq \in BOOLEAN

VARIABLES
  opened,    \* contexts between kzalloc in open and kfree in release
  ctrls,     \* contexts whose control handler has not been freed
  streaming, \* streaming[c]: the queues of c that are streaming
  vb,        \* vb[c][q][b]: vb2 state of buffer b, "active" when the driver has it
  rdy,       \* rdy[c][q]: the mem2mem ready list, oldest first
  flags,     \* flags[c]: m2m_ctx->job_flags
  jobq,      \* m2m_dev->job_queue; the running context stays at its head
  curr,      \* m2m_dev->curr_ctx
  work,      \* m2m_dev->job_work is pending
  user,      \* user[c]: where the ioctl or close in progress on c stands
  run,       \* device_run in progress: step, context, thread, job buffers
  wd,        \* the watchdog: timer pending, step and context of the work item
  irq,       \* the interrupt handler: step, context it read, state it reports
  hw,        \* the job the hardware is executing
  status,    \* status[e]: masked status register of engine e
  ctxActive, \* proc->ctx_active of each node
  decoded    \* history: decoded[c] are the dst buffers completed by the hardware

vars == <<opened, ctrls, streaming, vb, rdy, flags, jobq, curr, work, user,
          run, wd, irq, hw, status, ctxActive, decoded>>

m2mVars  == <<vb, rdy, flags, jobq, curr, work>>
fileVars == <<opened, ctrls, streaming, ctxActive>>
hwVars   == <<hw, status, decoded>>

IdleRun == [pc |-> "idle", ctx |-> None, by |-> None, src |-> None, dst |-> None]
IdleIrq == [pc |-> "idle", ctx |-> None, st |-> "none"]
IdleHw  == [ctx |-> None, src |-> None, dst |-> None]
NoStatus == [e \in Engines |-> "none"]

\* cedrus_proc_format_type: the coded queue feeds the decoder and drains the encoder.
CodedQueue(c) == IF NodeOf[c] = "dec" THEN "src" ELSE "dst"

\* The engine context and job memory live from start to stop of the coded queue.
EngineMemory(c) == CodedQueue(c) \in streaming[c]

\* Runtime PM keeps the device powered while some coded queue streams.
Powered == \E c \in Ctx : EngineMemory(c)

\* Every ioctl, open and release of a node runs under proc->v4l2.lock.
NodeFree(c) == \A d \in Ctx : NodeOf[d] = NodeOf[c] => user[d] = "idle"

\* Threads that may be held off by a prompt interrupt handler.
Schedulable == PromptIrq => irq.pc = "idle"

(***************************************************************************)
(* The mem2mem framework, as the driver uses it.                           *)
(***************************************************************************)

Without(s, c) ==
  IF \E i \in 1..Len(s) : s[i] = c
  THEN LET k == CHOOSE i \in 1..Len(s) : s[i] = c
       IN  SubSeq(s, 1, k - 1) \o SubSeq(s, k + 1, Len(s))
  ELSE s

\* Faulty variant of Queueable: the capture list is not looked at.
QueueableWithoutDst(c, on, lists, fl) ==
  on = Queue /\ lists["src"] # <<>> /\ "ABORT" \notin fl /\ "QUEUED" \notin fl

\* __v4l2_m2m_try_queue: c gets a job when both queues stream and hold a buffer.
Queueable(c, on, lists, fl) ==
  /\ on = Queue
  /\ lists["src"] # <<>> /\ lists["dst"] # <<>>
  /\ "ABORT" \notin fl /\ "QUEUED" \notin fl

TryQueue(c, on, lists) ==
  IF Queueable(c, on, lists, flags[c])
  THEN /\ flags' = [flags EXCEPT ![c] = @ \cup {"QUEUED"}]
       /\ jobq' = Append(jobq, c)
  ELSE UNCHANGED <<flags, jobq>>

\* v4l2_m2m_try_run, then cedrus_m2m_device_run -> cedrus_context_job_run up to
\* the job pointers: the head of the job queue becomes the current context.
\* Without a buffer on both lists the job pointers are null and the thread dies.
TryRun(by) ==
  IF curr # None \/ jobq = <<>>
  THEN /\ user' = IF by \in Ctx THEN [user EXCEPT ![by] = "idle"] ELSE user
       /\ UNCHANGED <<curr, flags, run>>
  ELSE LET c == Head(jobq)
           ready == rdy[c]["src"] # <<>> /\ rdy[c]["dst"] # <<>>
       IN  /\ curr' = c
           /\ flags' = [flags EXCEPT ![c] = @ \cup {"RUNNING"}]
           /\ run' = [pc  |-> IF ready THEN "configure" ELSE "oops",
                      ctx |-> c, by |-> by,
                      src |-> IF ready THEN Head(rdy[c]["src"]) ELSE None,
                      dst |-> IF ready THEN Head(rdy[c]["dst"]) ELSE None]
           /\ user' = IF by \in Ctx THEN [user EXCEPT ![by] = "running"] ELSE user

\* Faulty variant of EndJob: nobody looks for the next job.
EndJobWithoutWork(c, rest) ==
  IF curr = c
  THEN /\ flags' = [flags EXCEPT ![c] = @ \ {"QUEUED", "RUNNING"}]
       /\ jobq' = Without(jobq, c)
       /\ curr' = None
       /\ UNCHANGED work
  ELSE UNCHANGED <<flags, jobq, curr, work>>

\* _v4l2_m2m_job_finish and v4l2_m2m_schedule_next_job: only the current context
\* ends its job; it may be queued again, and job_work looks for the next job.
EndJob(c, rest) ==
  LET left  == flags[c] \ {"QUEUED", "RUNNING"}
      again == Queueable(c, streaming[c], rest, left)
  IN  IF curr = c
      THEN /\ flags' = [flags EXCEPT ![c] = IF again THEN left \cup {"QUEUED"}
                                                     ELSE left]
           /\ jobq' = IF again THEN Append(Without(jobq, c), c)
                               ELSE Without(jobq, c)
           /\ curr' = None
           /\ work' = TRUE
      ELSE UNCHANGED <<flags, jobq, curr, work>>

\* cedrus_context_job_finish -> v4l2_m2m_buf_done_and_job_finish: return the
\* first buffer of each list in state st, then end the job of c.  With a list
\* empty (a WARN_ON of the framework) the source buffer is taken off and lost.
JobFinish(c, st) ==
  LET s == rdy[c]["src"]
      d == rdy[c]["dst"]
      rest == [q \in Queue |-> Tail(rdy[c][q])]
  IN  IF s = <<>> \/ d = <<>>
      THEN /\ rdy' = [rdy EXCEPT ![c]["src"] = IF s = <<>> THEN s ELSE Tail(s)]
           /\ UNCHANGED <<vb, flags, jobq, curr, work>>
      ELSE /\ rdy' = [rdy EXCEPT ![c] = rest]
           /\ vb' = [vb EXCEPT ![c]["src"][Head(s)] = st,
                               ![c]["dst"][Head(d)] = st]
           /\ EndJob(c, rest)

\* v4l2_m2m_cancel_job up to its wait: no new job, and a waiting one is dropped.
CancelJob(c) ==
  IF "RUNNING" \in flags[c]
  THEN /\ flags' = [flags EXCEPT ![c] = @ \cup {"ABORT"}]
       /\ UNCHANGED jobq
  ELSE /\ flags' = [flags EXCEPT ![c] = (@ \cup {"ABORT"}) \ {"QUEUED"}]
       /\ jobq' = Without(jobq, c)

(***************************************************************************)
(* File operations and ioctls of a context.                                *)
(***************************************************************************)

\* cedrus_proc_open
Open(c) ==
  /\ Schedulable /\ NodeFree(c)
  /\ c \notin opened
  /\ opened' = opened \cup {c}
  /\ ctrls' = ctrls \cup {c}
  /\ UNCHANGED <<streaming, ctxActive, m2mVars, user, run, wd, irq, hwVars>>

\* Faulty variant of QBuf: the newest buffer goes first.
QBufInFront(c, q, b) ==
  LET lists == [rdy[c] EXCEPT ![q] = <<b>> \o @] IN
  /\ Schedulable /\ NodeFree(c)
  /\ c \in opened
  /\ vb[c][q][b] # "active"
  /\ vb' = [vb EXCEPT ![c][q][b] = "active"]
  /\ rdy' = [rdy EXCEPT ![c] = lists]
  /\ TryQueue(c, streaming[c], lists)
  /\ user' = [user EXCEPT ![c] = "try_run"]
  /\ decoded' = [decoded EXCEPT ![c] = IF q = "dst" THEN @ \ {b} ELSE @]
  /\ UNCHANGED <<fileVars, curr, work, run, wd, irq, hw, status>>

\* VIDIOC_QBUF or a queued media request: the buffer becomes active, then
\* v4l2_m2m_try_schedule.
QBuf(c, q, b) ==
  LET lists == [rdy[c] EXCEPT ![q] = Append(@, b)] IN
  /\ Schedulable /\ NodeFree(c)
  /\ c \in opened
  /\ vb[c][q][b] # "active"
  /\ vb' = [vb EXCEPT ![c][q][b] = "active"]
  /\ rdy' = [rdy EXCEPT ![c] = lists]
  /\ TryQueue(c, streaming[c], lists)
  /\ user' = [user EXCEPT ![c] = "try_run"]
  /\ decoded' = [decoded EXCEPT ![c] = IF q = "dst" THEN @ \ {b} ELSE @]
  /\ UNCHANGED <<fileVars, curr, work, run, wd, irq, hw, status>>

\* VIDIOC_STREAMON: cedrus_context_start_streaming succeeds, then try_schedule.
\* (Its failures return the buffers to vb2 as queued, which changes nothing.)
StreamOn(c, q) ==
  /\ Schedulable /\ NodeFree(c)
  /\ c \in opened
  /\ q \notin streaming[c]
  /\ streaming' = [streaming EXCEPT ![c] = @ \cup {q}]
  /\ TryQueue(c, streaming[c] \cup {q}, rdy[c])
  /\ user' = [user EXCEPT ![c] = "try_run"]
  /\ UNCHANGED <<opened, ctrls, ctxActive, vb, rdy, curr, work, run, wd, irq,
                 hwVars>>

\* The second half of v4l2_m2m_try_schedule, in the ioctl's own thread.
IoctlTryRun(c) ==
  /\ Schedulable
  /\ user[c] = "try_run"
  /\ TryRun(c)
  /\ UNCHANGED <<fileVars, vb, rdy, jobq, work, wd, irq, hwVars>>

StreamOffPc(q) == IF q = "src" THEN "off_src" ELSE "off_dst"

\* VIDIOC_STREAMOFF: v4l2_m2m_cancel_job, which then waits for a running job.
StreamOffBegin(c, q) ==
  /\ Schedulable /\ NodeFree(c)
  /\ c \in opened
  /\ CancelJob(c)
  /\ user' = [user EXCEPT ![c] = StreamOffPc(q)]
  /\ UNCHANGED <<fileVars, vb, rdy, curr, work, run, wd, irq, hwVars>>

\* Faulty variant of StreamOffEnd: the queue stops while its job still runs.
StreamOffEndWithoutWait(c, q) ==
  /\ Schedulable
  /\ user[c] = StreamOffPc(q)
  /\ streaming' = [streaming EXCEPT ![c] = @ \ {q}]
  /\ vb' = [vb EXCEPT ![c][q] =
              [b \in Bufs |-> IF @[b] = "active" THEN "error" ELSE @[b]]]
  /\ rdy' = [rdy EXCEPT ![c][q] = <<>>]
  /\ flags' = [flags EXCEPT ![c] = {}]
  /\ jobq' = Without(jobq, c)
  /\ curr' = IF curr = c THEN None ELSE curr
  /\ user' = [user EXCEPT ![c] = "idle"]
  /\ UNCHANGED <<opened, ctrls, ctxActive, work, run, wd, irq, hwVars>>

\* vb2_streamoff -> cedrus_context_stop_streaming, then the rest of
\* v4l2_m2m_streamoff: the buffers come back as errors, from the driver on the
\* coded queue and from vb2 itself on the picture queue, whose stop_streaming
\* leaves them alone; the lists and flags clear.
StreamOffEnd(c, q) ==
  /\ Schedulable
  /\ user[c] = StreamOffPc(q)
  /\ "RUNNING" \notin flags[c]
  /\ streaming' = [streaming EXCEPT ![c] = @ \ {q}]
  /\ vb' = [vb EXCEPT ![c][q] =
              [b \in Bufs |-> IF @[b] = "active" THEN "error" ELSE @[b]]]
  /\ rdy' = [rdy EXCEPT ![c][q] = <<>>]
  /\ flags' = [flags EXCEPT ![c] = {}]
  /\ jobq' = Without(jobq, c)
  /\ curr' = IF curr = c THEN None ELSE curr
  /\ user' = [user EXCEPT ![c] = "idle"]
  /\ UNCHANGED <<opened, ctrls, ctxActive, work, run, wd, irq, hwVars>>

\* cedrus_proc_release -> cedrus_context_cleanup, step by step: forget the
\* active context,
CloseActiveClear(c) ==
  /\ Schedulable /\ NodeFree(c)
  /\ c \in opened
  /\ ctxActive' = [ctxActive EXCEPT ![NodeOf[c]] = IF @ = c THEN None ELSE @]
  /\ user' = [user EXCEPT ![c] = "close_ctrls"]
  /\ UNCHANGED <<opened, ctrls, streaming, m2mVars, run, wd, irq, hwVars>>

\* free the control handler,
CloseCtrls(c) ==
  /\ Schedulable
  /\ user[c] = "close_ctrls"
  /\ ctrls' = ctrls \ {c}
  /\ user' = [user EXCEPT ![c] = "close_cancel"]
  /\ UNCHANGED <<opened, streaming, ctxActive, m2mVars, run, wd, irq, hwVars>>

\* release the mem2mem context: cancel its job and wait for a running one,
CloseCancel(c) ==
  /\ Schedulable
  /\ user[c] = "close_cancel"
  /\ CancelJob(c)
  /\ user' = [user EXCEPT ![c] = "close_wait"]
  /\ UNCHANGED <<fileVars, vb, rdy, curr, work, run, wd, irq, hwVars>>

\* Faulty variant of CloseFree: the context is freed under its running job.
CloseFreeWithoutWait(c) ==
  /\ Schedulable
  /\ user[c] = "close_wait"
  /\ opened' = opened \ {c}
  /\ streaming' = [streaming EXCEPT ![c] = {}]
  /\ vb' = [vb EXCEPT ![c] = [q \in Queue |-> [b \in Bufs |-> "user"]]]
  /\ rdy' = [rdy EXCEPT ![c] = [q \in Queue |-> <<>>]]
  /\ flags' = [flags EXCEPT ![c] = {}]
  /\ user' = [user EXCEPT ![c] = "idle"]
  /\ decoded' = [decoded EXCEPT ![c] = {}]
  /\ UNCHANGED <<ctrls, ctxActive, jobq, curr, work, run, wd, irq, hw, status>>

\* then stop both queues and free the context.
CloseFree(c) ==
  /\ Schedulable
  /\ user[c] = "close_wait"
  /\ "RUNNING" \notin flags[c]
  /\ opened' = opened \ {c}
  /\ streaming' = [streaming EXCEPT ![c] = {}]
  /\ vb' = [vb EXCEPT ![c] = [q \in Queue |-> [b \in Bufs |-> "user"]]]
  /\ rdy' = [rdy EXCEPT ![c] = [q \in Queue |-> <<>>]]
  /\ flags' = [flags EXCEPT ![c] = {}]
  /\ user' = [user EXCEPT ![c] = "idle"]
  /\ decoded' = [decoded EXCEPT ![c] = {}]
  /\ UNCHANGED <<ctrls, ctxActive, jobq, curr, work, run, wd, irq, hw, status>>

(***************************************************************************)
(* Running a job.                                                          *)
(***************************************************************************)

\* v4l2_m2m_device_run_work
WorkTryRun ==
  /\ Schedulable
  /\ work /\ run.by # "work"
  /\ work' = FALSE
  /\ TryRun("work")
  /\ UNCHANGED <<fileVars, vb, rdy, jobq, wd, irq, hwVars>>

RunReturns ==
  /\ run' = IdleRun
  /\ user' = IF run.by \in Ctx THEN [user EXCEPT ![run.by] = "idle"] ELSE user

\* The request controls, engine job, formats and registers are set up.
RunConfigure ==
  /\ Schedulable
  /\ run.pc = "configure"
  /\ run' = [run EXCEPT !.pc = "arm"]
  /\ UNCHANGED <<fileVars, m2mVars, user, wd, irq, hwVars>>

\* Faulty variant of RunFail: the job that could not be set up is not finished.
RunFailLeavesJob ==
  /\ Schedulable
  /\ run.pc = "configure"
  /\ RunReturns
  /\ UNCHANGED <<fileVars, m2mVars, wd, irq, hwVars>>

\* error_ctrl: one of these calls failed.
RunFail ==
  /\ Schedulable
  /\ run.pc = "configure"
  /\ JobFinish(run.ctx, "error")
  /\ RunReturns
  /\ UNCHANGED <<fileVars, wd, irq, hwVars>>

\* Faulty variant of RunArm: the job starts without its watchdog.
RunArmUnwatched ==
  /\ Schedulable
  /\ run.pc = "arm"
  /\ ctxActive' = [ctxActive EXCEPT ![NodeOf[run.ctx]] = run.ctx]
  /\ run' = [run EXCEPT !.pc = "trigger"]
  /\ UNCHANGED <<opened, ctrls, streaming, m2mVars, user, wd, irq, hwVars>>

\* cedrus_proc_context_active_update and schedule_delayed_work.
RunArm ==
  /\ Schedulable
  /\ run.pc = "arm"
  /\ ctxActive' = [ctxActive EXCEPT ![NodeOf[run.ctx]] = run.ctx]
  /\ wd' = [wd EXCEPT !.pending = TRUE]
  /\ run' = [run EXCEPT !.pc = "trigger"]
  /\ UNCHANGED <<opened, ctrls, streaming, m2mVars, user, irq, hwVars>>

\* cedrus_engine_job_trigger
RunTrigger ==
  /\ Schedulable
  /\ run.pc = "trigger"
  /\ hw' = [ctx |-> run.ctx, src |-> run.src, dst |-> run.dst]
  /\ RunReturns
  /\ UNCHANGED <<fileVars, m2mVars, wd, irq, status, decoded>>

\* The hardware completes the frame, or fails it, and raises its interrupt.
HwComplete(st) ==
  /\ hw # IdleHw
  /\ status' = [status EXCEPT ![EngineOf[hw.ctx]] = st]
  /\ hw' = IdleHw
  /\ decoded' = IF st = "ok"
                THEN [decoded EXCEPT ![hw.ctx] = @ \cup {hw.dst}] ELSE decoded
  /\ UNCHANGED <<fileVars, m2mVars, user, run, wd, irq>>

(***************************************************************************)
(* cedrus_watchdog                                                         *)
(***************************************************************************)

\* The two seconds are over and a worker picks the work item up.  They do not
\* pass between schedule_delayed_work and the trigger two statements later.
WdExpire ==
  /\ wd.pending /\ wd.pc = "idle"
  /\ run.pc # "trigger"
  /\ wd' = [pending |-> FALSE, pc |-> "read", ctx |-> None]
  /\ UNCHANGED <<fileVars, m2mVars, user, run, irq, hwVars>>

\* v4l2_m2m_get_curr_priv
WdRead ==
  /\ wd.pc = "read"
  /\ wd' = [wd EXCEPT !.pc = IF curr = None THEN "idle" ELSE "reset",
                      !.ctx = curr]
  /\ UNCHANGED <<fileVars, m2mVars, user, run, irq, hwVars>>

\* reset_control_reset
WdReset ==
  /\ wd.pc = "reset"
  /\ hw' = IdleHw
  /\ status' = NoStatus
  /\ wd' = [wd EXCEPT !.pc = "finish"]
  /\ UNCHANGED <<fileVars, m2mVars, user, run, irq, decoded>>

WdFinish ==
  /\ wd.pc = "finish"
  /\ JobFinish(wd.ctx, "error")
  /\ wd' = [wd EXCEPT !.pc = "idle", !.ctx = None]
  /\ UNCHANGED <<fileVars, user, run, irq, hwVars>>

(***************************************************************************)
(* cedrus_irq                                                              *)
(***************************************************************************)

IrqEnter ==
  /\ irq.pc = "idle"
  /\ \E e \in Engines : status[e] # "none"
  /\ irq' = [irq EXCEPT !.pc = "read"]
  /\ UNCHANGED <<fileVars, m2mVars, user, run, wd, hwVars>>

\* Faulty variant of IrqRead: the context of the handler is the active one of the
\* decoder or else of the encoder, as the spurious path finds them.
IrqReadActive ==
  /\ irq.pc = "read"
  /\ irq' = [irq EXCEPT !.pc = "cancel",
                        !.ctx = IF ctxActive["dec"] # None THEN ctxActive["dec"]
                                ELSE ctxActive["enc"]]
  /\ UNCHANGED <<fileVars, m2mVars, user, run, wd, hwVars>>

\* v4l2_m2m_get_curr_priv
IrqRead ==
  /\ irq.pc = "read"
  /\ irq' = [irq EXCEPT !.pc = "cancel", !.ctx = curr]
  /\ UNCHANGED <<fileVars, m2mVars, user, run, wd, hwVars>>

\* Faulty variant of IrqCancel: the watchdog is asked about but not cancelled.
IrqCancelLeavesTimer ==
  /\ irq.pc = "cancel"
  /\ irq' = [irq EXCEPT !.pc = IF ~wd.pending THEN "spurious"
                               ELSE IF irq.ctx = None THEN "unexpected"
                               ELSE "status"]
  /\ UNCHANGED <<fileVars, m2mVars, user, run, wd, hwVars>>

\* cancel_delayed_work, and the test of the context read before it.
IrqCancel ==
  /\ irq.pc = "cancel"
  /\ irq' = [irq EXCEPT !.pc = IF ~wd.pending THEN "spurious"
                               ELSE IF irq.ctx = None THEN "unexpected"
                               ELSE "status"]
  /\ wd' = [wd EXCEPT !.pending = FALSE]
  /\ UNCHANGED <<fileVars, m2mVars, user, run, hwVars>>

\* cedrus_irq_spurious: quiet the engine of the active context of each node.
IrqSpurious ==
  /\ irq.pc \in {"spurious", "unexpected"}
  /\ status' = [e \in Engines |->
                  IF \E n \in Node : /\ ctxActive[n] # None
                                     /\ EngineOf[ctxActive[n]] = e
                  THEN "none" ELSE status[e]]
  /\ irq' = IdleIrq
  /\ UNCHANGED <<fileVars, m2mVars, user, run, wd, hw, decoded>>

\* Faulty variant of IrqStatus: the engine's error is taken for success.
IrqStatusErrorIsDone ==
  /\ irq.pc = "status"
  /\ irq' = IF status[EngineOf[irq.ctx]] = "none" THEN IdleIrq
            ELSE [irq EXCEPT !.pc = "finish", !.st = "done"]
  /\ status' = [status EXCEPT ![EngineOf[irq.ctx]] = "none"]
  /\ UNCHANGED <<fileVars, m2mVars, user, run, wd, hw, decoded>>

\* cedrus_engine_irq_status, then cedrus_irq_disable_clear unless it is none.
IrqStatus ==
  /\ irq.pc = "status"
  /\ LET st == status[EngineOf[irq.ctx]] IN
       irq' = IF st = "none" THEN IdleIrq
              ELSE [irq EXCEPT !.pc = "finish",
                               !.st = IF st = "err" THEN "error" ELSE "done"]
  /\ status' = [status EXCEPT ![EngineOf[irq.ctx]] = "none"]
  /\ UNCHANGED <<fileVars, m2mVars, user, run, wd, hw, decoded>>

IrqFinish ==
  /\ irq.pc = "finish"
  /\ JobFinish(irq.ctx, irq.st)
  /\ irq' = IdleIrq
  /\ UNCHANGED <<fileVars, user, run, wd, hwVars>>

-----------------------------------------------------------------------------

Init ==
  /\ opened = {} /\ ctrls = {}
  /\ streaming = [c \in Ctx |-> {}]
  /\ vb = [c \in Ctx |-> [q \in Queue |-> [b \in Bufs |-> "user"]]]
  /\ rdy = [c \in Ctx |-> [q \in Queue |-> <<>>]]
  /\ flags = [c \in Ctx |-> {}]
  /\ jobq = <<>> /\ curr = None /\ work = FALSE
  /\ user = [c \in Ctx |-> "idle"]
  /\ run = IdleRun
  /\ wd = [pending |-> FALSE, pc |-> "idle", ctx |-> None]
  /\ irq = IdleIrq
  /\ hw = IdleHw /\ status = NoStatus
  /\ ctxActive = [n \in Node |-> None]
  /\ decoded = [c \in Ctx |-> {}]

UserCall(c) ==
  \/ Open(c)
  \/ \E q \in Queue : \/ \E b \in Bufs : QBuf(c, q, b)
                      \/ StreamOn(c, q)
                      \/ StreamOffBegin(c, q)
  \/ CloseActiveClear(c)

UserStep(c) ==
  \/ IoctlTryRun(c)
  \/ \E q \in Queue : StreamOffEnd(c, q)
  \/ CloseCtrls(c)
  \/ CloseCancel(c)
  \/ CloseFree(c)

RunStep == RunConfigure \/ RunFail \/ RunArm \/ RunTrigger
WdStep  == WdRead \/ WdReset \/ WdFinish
IrqStep == IrqRead \/ IrqCancel \/ IrqSpurious \/ IrqStatus \/ IrqFinish

Next ==
  \/ \E c \in Ctx : UserCall(c) \/ UserStep(c)
  \/ WorkTryRun
  \/ RunStep
  \/ \E st \in {"ok", "err"} : HwComplete(st)
  \/ WdExpire \/ WdStep
  \/ IrqEnter \/ IrqStep

\* Threads that are running or runnable go on and the timer expires; users make
\* no promise to call, and the hardware none to complete.
Fairness ==
  /\ \A c \in Ctx : WF_vars(UserStep(c))
  /\ WF_vars(WorkTryRun) /\ WF_vars(RunStep)
  /\ WF_vars(WdExpire) /\ WF_vars(WdStep)
  /\ WF_vars(IrqEnter) /\ WF_vars(IrqStep)

Spec == Init /\ [][Next]_vars
FairSpec == Spec /\ Fairness

-----------------------------------------------------------------------------
(* Type invariant and properties. *)

BufState == {"user", "active", "done", "error"}
Flag     == {"QUEUED", "RUNNING", "ABORT"}
UserPc   == {"idle", "try_run", "running", "off_src", "off_dst",
             "close_ctrls", "close_cancel", "close_wait"}

\* Every variable keeps the shape its C counterpart has.
TypeOK ==
  /\ opened \subseteq Ctx /\ ctrls \subseteq Ctx
  /\ streaming \in [Ctx -> SUBSET Queue]
  /\ vb \in [Ctx -> [Queue -> [Bufs -> BufState]]]
  /\ rdy \in [Ctx -> [Queue -> Seq(Bufs)]]
  /\ flags \in [Ctx -> SUBSET Flag]
  /\ jobq \in Seq(Ctx) /\ curr \in Ctx \cup {None} /\ work \in BOOLEAN
  /\ user \in [Ctx -> UserPc]
  /\ run \in [pc : {"idle", "configure", "arm", "trigger", "oops"},
              ctx : Ctx \cup {None}, by : Ctx \cup {None, "work"},
              src : Bufs \cup {None}, dst : Bufs \cup {None}]
  /\ wd \in [pending : BOOLEAN, pc : {"idle", "read", "reset", "finish"},
             ctx : Ctx \cup {None}]
  /\ irq \in [pc : {"idle", "read", "cancel", "spurious", "unexpected",
                    "status", "finish"},
              ctx : Ctx \cup {None}, st : {"none", "done", "error"}]
  /\ hw \in [ctx : Ctx \cup {None}, src : Bufs \cup {None},
             dst : Bufs \cup {None}]
  /\ status \in [Engines -> {"none", "ok", "err"}]
  /\ ctxActive \in [Node -> Ctx \cup {None}]
  /\ decoded \in [Ctx -> SUBSET Bufs]

\* While the hardware executes a job, the buffers it reads and writes are the
\* ones at the head of the job's ready lists: neither a late interrupt, nor the
\* watchdog, nor a streamoff or close of any context gives them back first.
DmaOnOwnedBuffers ==
  hw # IdleHw =>
    /\ curr = hw.ctx
    /\ rdy[hw.ctx]["src"] # <<>> /\ Head(rdy[hw.ctx]["src"]) = hw.src
    /\ rdy[hw.ctx]["dst"] # <<>> /\ Head(rdy[hw.ctx]["dst"]) = hw.dst

\* A context has TRANS_RUNNING exactly while it is the current context, so a
\* streamoff or a close that waits for the flag waits for the job.
RunningIsCurrent == \A c \in Ctx : "RUNNING" \in flags[c] <=> curr = c

\* A capture buffer handed back as done was completed by the hardware since it
\* was queued: no job is reported done on the strength of another's interrupt.
DoneIsDecoded ==
  \A c \in Ctx, b \in Bufs : vb[c]["dst"][b] = "done" => b \in decoded[c]

\* A job waits in the queue only while someone will look at it: a job runs,
\* job_work is pending, or an ioctl is about to call try_run.
NoLostWakeup ==
  curr = None /\ jobq # <<>> => work \/ \E c \in Ctx : user[c] = "try_run"

\* From device_run to the end of the job its context stays allocated, with its
\* engine memory and the device powered, and so does the context an interrupt
\* handler read, until it has used it.
ContextAlive ==
  /\ curr # None => curr \in opened /\ EngineMemory(curr) /\ Powered
  /\ irq.pc \in {"status", "finish"} => irq.ctx \in opened /\ EngineMemory(irq.ctx)

\* device_run never finds an empty ready list (it would follow a null pointer).
NoOops == run.pc # "oops"

\* cancel_delayed_work fails only for an interrupt that lost to the watchdog: the
\* job is finished already, or the work item is executing and will finish it.
SpuriousMeansWatchdog ==
  [][irq.pc = "cancel" /\ irq'.pc = "spurious" => curr = None \/ wd.pc # "idle"]_vars

\* cedrus_irq_spurious dereferences the active context of each node.
SpuriousContextAlive ==
  irq.pc \in {"spurious", "unexpected"} =>
    \A n \in Node : ctxActive[n] # None => ctxActive[n] \in opened

\* WARN_ON(!ctrl): a job that is being configured finds its controls.
JobFindsControls == run.pc = "configure" => run.ctx \in ctrls

\* Every job that runs is finished, even if the hardware never answers.
JobFinishes == \A c \in Ctx : curr = c ~> curr # c

\* A queued job gets its turn, however busy the other contexts are.
JobGetsTurn ==
  \A c \in Ctx : "QUEUED" \in flags[c] ~> (curr = c \/ "QUEUED" \notin flags[c])

\* Every ioctl and every close returns.
CallsReturn == \A c \in Ctx : user[c] # "idle" ~> user[c] = "idle"

\* The device as the program sees it: the queues, their buffers, the context
\* that runs, and what the hardware decoded.
Device == INSTANCE CedrusDevice
            WITH on <- streaming, state <- vb, list <- rdy, job <- curr

\* The threads, the timer and the interrupt together are that device: buffers
\* leave a ready list in the order they were queued, source and capture buffer
\* together and for the running context only, or all at once when the context's
\* own thread stops the queue after its job; none is lost between vb2 and the
\* lists, and done means decoded.
ImplementsDevice == Device!Spec

(***************************************************************************)
(* The inductive invariant behind DmaOnOwnedBuffers.  It makes no use of    *)
(* PromptIrq: the hardware never loses its buffers even when interrupts    *)
(* are handled arbitrarily late.                                           *)
(***************************************************************************)

\* Four places can hold the right to end the current job: device_run before it
\* armed the watchdog, the pending timer, the executing watchdog, and a handler
\* that won cancel_delayed_work.
RunHolds   == run.pc \in {"configure", "arm", "oops"}
TimerHolds == wd.pending
WdHolds    == wd.pc # "idle"
IrqHolds   == irq.pc \in {"unexpected", "status", "finish"}

\* At most one of them holds it, and only while there is a current job.
OneFinisher ==
  /\ RunHolds \/ TimerHolds \/ WdHolds \/ IrqHolds => curr # None
  /\ RunHolds => ~TimerHolds /\ ~WdHolds /\ ~IrqHolds
  /\ TimerHolds => ~WdHolds /\ ~IrqHolds
  /\ WdHolds => ~IrqHolds

\* The contexts the three threads carry along are real ones.
CarriedContexts ==
  /\ wd.pc \in {"reset", "finish"} => wd.ctx \in Ctx
  /\ irq.pc \in {"status", "finish"} => irq.ctx \in Ctx
  /\ irq.pc = "finish" => irq.st # "none"

Quiet == hw = IdleHw /\ status = NoStatus

\* The buffers src and dst lead the ready lists of c.
Leads(c, src, dst) ==
  /\ rdy[c]["src"] # <<>> /\ Head(rdy[c]["src"]) = src
  /\ rdy[c]["dst"] # <<>> /\ Head(rdy[c]["dst"]) = dst

\* device_run works on the current context with a quiet engine.
RunInv ==
  run.pc # "idle" =>
    /\ run.ctx \in Ctx /\ curr = run.ctx
    /\ Quiet
    /\ wd.pc = "idle" /\ irq.pc # "finish"
    /\ run.pc # "oops" => Leads(run.ctx, run.src, run.dst)

\* The engine works, or reports a status, only for the current context; it is
\* quiet when somebody is about to end the job.
HwInv ==
  /\ hw # IdleHw => /\ hw.ctx \in Ctx /\ curr = hw.ctx
                    /\ Leads(hw.ctx, hw.src, hw.dst)
                    /\ status = NoStatus
  /\ \A e \in Engines : status[e] # "none" => curr # None /\ e = EngineOf[curr]
  /\ wd.pc = "finish" \/ irq.pc = "finish" => Quiet

\* The whole of it.
IInv ==
  /\ TypeOK /\ RunningIsCurrent
  /\ OneFinisher /\ CarriedContexts /\ RunInv /\ HwInv
=============================================================================
