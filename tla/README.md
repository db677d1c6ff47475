# Verification of the H618 Video Engine port

TLA+ models of the two kernel drivers in this repository that program the
Allwinner Video Engine (VE): `cedrus-v4l2`, a stateless V4L2 mem2mem driver, and
`legacy-driver`, the vendor's character device with its reset, DMA and reference
counting fixes. TLC checks the models on small instances; TLAPS proves selected
properties for all values of the constants.

## 1. Inventory

| Component | State it keeps | Operations | Interacts through |
|---|---|---|---|
| **cedrus job path** (`cedrus.c`, `cedrus_context.c`, `cedrus_engine.c`, `cedrus_proc.c`) | open contexts, their controls, vb2 queues, mem2mem ready lists and job flags, `m2m_dev->job_queue` and `curr_ctx`, one global watchdog, `ctx_active` of each node, engine status registers | open, QBUF, STREAMON, STREAMOFF, release; `device_run`; watchdog; interrupt | node mutex, mem2mem spinlocks, `v4l2_m2m_job_finish` callback, delayed work, interrupt |
| **cedrus formats** (`cedrus_proc.c`, `cedrus_dec.c`, `cedrus_enc.c`) | coded and picture format, selection, time per frame, selected engine | S_FMT, TRY_FMT, G/S_SELECTION, G/S_PARM, enumeration | writes `ctx->engine`, whose operations the job path calls |
| **cedrus probe/remove/PM** (`cedrus.c`, the setup functions of every file) | clocks, reset, SRAM, registered nodes | probe, remove, runtime suspend and resume | start and stop streaming take and put the runtime PM reference |
| **VP9 decoder** (`cedrus_dec_vp9.c`, `cedrus_vp9_helper.c`) | four probability contexts, two segment maps, motion vectors, the previous frame; per buffer: size, depth, 10 bit surface | setup, cleanup, job configure and finish, interrupt status | called by the job path through `cedrus_engine_ops` |
| **VP8, MPEG-2 decoders** (`cedrus_dec_vp8.c`, `cedrus_dec_mpeg2.c`) | VP8: loop filter of the last frame, probability image; MPEG-2: none | the same | the same |
| **H.264, H.265 decoders** (`cedrus_dec_h264.c`, `cedrus_dec_h265.c`) | per buffer: motion vectors, H.264 also position and type; the SRAM | the same | the same; SRAM contents outlive jobs |
| **H.264, JPEG encoders** (`cedrus_enc_h264.c`, `cedrus_enc_jpeg.c`) | copies of controls, GOP counters, reference pair, step; JPEG: header saved with the buffer | the same and `ctrl_prepare`, `buffer_finish` | control framework, the client who takes the coded buffer |
| **registers** (`cedrus_regs.h`) | none | field macros | every engine |
| **legacy cedar device** (`cedar_ve.c`) | engine reference count and per-file share of it, clocks, reset line, coherent buffers per file, global list of dma-buf mappings, codec and process-information locks, interrupt flags | open, release, mmap of the registers, some thirty ioctls, interrupt, suspend and resume | several client processes share one engine |
| **android bridge, native bridge** | allocation table of the memory adapter, file descriptors | memory adapter calls of the vendor libraries | ioctls of the legacy device, on a file of its own |
| **request client tools** (`tools/`) | free requests, capture buffers | queue, dequeue, recycle | V4L2 request API of cedrus |
| **session scripts** (`scripts/`) | loaded modules, bound driver | start and end of a session | module loading |
| kernel configuration, artifacts, workflows, docs | none | | |

Which behaviours are hard, per component, and what makes it correct:

- **job path**: five kinds of thread meet on one job (user threads of each
  context, the mem2mem work item, the watchdog, the interrupt, the hardware).
  Correct means that the hardware never works on memory that was given back; a
  buffer is reported decoded only if it was; every job ends once, whatever the
  hardware does; no wake-up is lost; contexts outlive their jobs and interrupts;
  buffers come back in order.
- **formats**: two queues and one engine selection; a format may only change
  while nobody relies on it.
- **probe/remove/PM**: partial failure and its unwinding.
- **codec engines**: what persists from frame to frame must match the buffers
  the client names, also after resolution changes, refused jobs, failed jobs and
  freed buffers; what is computed (offsets, header lengths, probabilities,
  register fields) must fit where it goes.
- **legacy device**: memory must not be freed or unmapped under DMA, the engine
  is powered and out of reset while references are held, mappings do not leak,
  whatever the order of ioctls and closes of several files; interrupt flags that
  arrive after a wait timed out; locks taken in one ioctl and dropped in another.

`PROJECT.json` lists every hazard at its line, with the properties that cover it
or the reason why none does.

## 2. Modules

| Module | Content | Extends |
|---|---|---|
| `CedrusDevice` | abstract: what the device promises a program, one job of one context at a time | |
| `CedrusJob` | the job path, thread by thread | instantiates `CedrusDevice` |
| `CedrusFormat` | formats, buffers and engine selection of a context | |
| `CedarDma` | legacy engine references, reset, allocations, mappings, release, suspend | `CedarEngine`, which it implements |
| `CedarEngine` | abstract: what the legacy device promises its clients | |
| `CedarDisciplined` | `CedarDma` with a record of how clients behave | `CedarDma` |
| `CedarSync` | legacy lock ioctls and interrupt wait | |
| `CedrusVp9`, `Vp9Layout`, `Vp9Probs` | VP9 from frame to frame; its memory and tiles; its probabilities | |
| `CedrusVp8` | VP8, and MPEG-2 as the engine that keeps nothing | `CedrusArith` |
| `CedrusH264`, `CedrusH265` | decoders that name pictures by a number in SRAM | `CedrusArith` |
| `CedrusEncH264`, `CedrusEncJpeg` | the encoders, with the decoder or the client who takes what they deliver | `CedrusArith` |
| `CedrusRegs`, `CedrusSetup` | register fields and interrupt status words; setup functions and their unwinding | |
| `CedrusArith` | the integer macros of the C code | |
| `MCCedrusJob`, `MCCedrusFormat`, `MCCedarDma`, `MCCodecs` | instances for TLC; `MCCodecs` composes the engines and `CedarSync` | the modules above |
| `CedrusJobProofs`, `CedrusRefinement`, `CedrusDeviceProofs`, `CedrusFormatProofs`, `CedarDmaProofs`, `DecoderProofs`, `CodecProofs` | theorems | the modules they are about |
| `DataLemmas` | lemmas the proofs share: products and quotients, induction, recursive functions, sequences without repetition | |

The most important behaviour came first: memory under DMA on both drivers, then what jobs
find in that memory, then the engines' own state from frame to frame, then the
abstract device and its refinement. What could follow is under
[Left for later](#9-left-for-later).

## 3. CedrusJob

### State and its counterpart in the code

| Variable | Code |
|---|---|
| `opened`, `ctrls` | life of `struct cedrus_context` (kzalloc in `cedrus_proc_open`, kfree in `cedrus_proc_release`) and of its `v4l2_ctrl_handler` |
| `streaming`, `vb` | `vb2_queue.streaming`, state of each `vb2_buffer` as far as the driver tells them apart |
| `rdy`, `flags`, `jobq`, `curr`, `work` | `m2m_ctx->{out,cap}_q_ctx.rdy_queue`, `job_flags`, `m2m_dev->job_queue`, `curr_ctx`, `job_work` |
| `user` | where the ioctl or close in progress of a context's thread stands |
| `run` | `cedrus_context_job_run` in progress, its thread and `ctx->job` |
| `wd` | `cedrus_dev->watchdog_work`: timer pending, step of the executing work item |
| `irq` | `cedrus_irq`: step, context it read, state it will report |
| `hw`, `status` | the Video Engine: the job it executes, the status register of each engine |
| `ctxActive` | `proc->ctx_active` |
| `decoded` | history variable: capture buffers the hardware completed since they were queued |

Each action is a stretch of code that no other thread can observe half done:
what runs under `m2m_dev->job_spinlock`, or between two accesses to shared state.
`cedrus_irq` is cut at its read of the current context, `cancel_delayed_work`,
the status read and the job finish; `cedrus_watchdog` at its entry, the read of
the current context, the reset and the job finish; `cedrus_context_cleanup` at
the active context, the controls, the cancel, and the wait; `device_run` at
configuration, watchdog and trigger. `PROJECT.json` gives the lines of each.
The mem2mem framework (`TryQueue`, `TryRun`, `EndJob`, `CancelJob`) is not part of the
repository: it is modelled from the calls the driver makes and marked external.

### Assumptions

- **`PromptIrq`.** With TRUE, a handler that was entered returns before any
  thread other than an already executing watchdog makes a step. That is what a hard interrupt
  on the CPU that would run those threads looks like. With FALSE the
  handler can be delayed arbitrarily: `devm_request_irq` is called with flags 0
  (`cedrus.c:373`), so the handler may be force-threaded, and another CPU may
  run meanwhile. The runs `job_late` and
  `job_watchdog_lost` and the theorems of `CedrusJobProofs` make no use of promptness; those of
  `CedrusRefinement` that do have it as a hypothesis.
- **Two seconds are long.** The watchdog does not expire between
  `schedule_delayed_work` and the trigger two statements later (`WdExpire`).
- The hardware raises an interrupt only for the job it executes, completes it
  at most once, and may never answer.

### Runs

Two contexts with one buffer per queue are the smallest instance in which a
context can be overtaken, stopped or closed under another's job. Two buffers per queue are
the smallest in which order can be broken and a job can be queued again while it
ends; `job_nodes` has both, with `SecondBufferAlone`: a second buffer is in play only
while the other context is closed, or else the product of the two would not finish.
`BoundedSpec` puts that bound into the next-state relation. Two engines matter only when the
contexts use different ones. The model has no counters, so apart from `BoundedSpec`
the instances are complete.

| Run | Instance | Shows |
|---|---|---|
| `job_prompt` | two decoders, prompt interrupts, with fairness | `DoneIsDecoded`, `NoOops`, `SpuriousMeansWatchdog`; `JobFinishes`, `JobGetsTurn`, `CallsReturn` |
| `job_late` | two decoders, late interrupts | `IInv` (which includes `TypeOK` and `RunningIsCurrent`), `DmaOnOwnedBuffers`, `NoLostWakeup` |
| `job_nodes` | a decoder and an encoder on different engines and node locks, two buffers | `ContextAlive`; `ImplementsDevice`, the refinement of `CedrusDevice` |
| `job_watchdog_lost` | late interrupts | violates the comment at `cedrus.c:211` |
| `job_active_freed` | decoder and encoder | `ctx_active` refers to a freed context |
| `job_controls_freed` | two decoders | a job is configured without its controls |

Deadlock is checked where the interrupt is prompt. In the runs with late
interrupts it is not: a job whose watchdog was cancelled by another
job's interrupt is finished by nobody, and once every context waits for it the
system stops. That is the finding of `job_watchdog_lost`, and it is the reason why
the refinement and the liveness properties need the prompt instance. The `WARN_ON(!ctx)` at
`cedrus.c:219`-223 has the same root: a late handler may find the next job's
watchdog pending and no current context, which its comment rules out.

Fairness (`Fairness`) is weak fairness of each thread that is running or runnable
(the kernel schedules it), of the timer (it expires) and of a pending interrupt
(it is delivered). There is none for users, who need not call, and none for the
hardware, which need not answer: liveness comes from the watchdog.

### The abstract device and the refinement

`CedrusDevice` has no threads: programs hand buffers over, the engine takes up the
oldest pair of one context, decodes or does not, and gives both back together, as done
only when it decoded into the capture buffer; queues stop and contexts close only when the
engine does not work for them. `Device` in `CedrusJob` maps `streaming`, `vb`, `rdy`,
`curr` and `decoded` to its variables. Every step of a thread is then a step of the device or a stutter;
`ImplementsDevice` says so, for TLC in `job_nodes` and for TLAPS in `Refinement`.

### Proofs

For any sets of contexts, buffers and engines and both values of `PromptIrq`, from
`JobAssumption` alone (`CedrusJobProofs`, and `Wakeup` in `CedrusRefinement`):

- `Inductive`: `Spec => []IInv`,
- `TypeCorrect`: `Spec => []TypeOK`,
- `RunningCurrent`: `Spec => []RunningIsCurrent`,
- `DmaSafe`: `Spec => []DmaOnOwnedBuffers`,
- `Wakeup`: `Spec => []NoLostWakeup`.

`DmaOnOwnedBuffers` is not inductive: whether a finishing thread may take the head
buffers of the current job depends on whether the hardware is still working,
which depends on who won `cancel_delayed_work`. `IInv` says that the
right to end the current job is held by at most one of device_run (before it
armed the watchdog), the pending timer, the executing watchdog and a handler that
cancelled the timer (`OneFinisher`); that device_run works on the current
context with a quiet engine while neither watchdog nor handler is about to finish a job
(`RunInv`, which is also why `cedrus_context_job_finish` clearing `ctx->job`
cannot race with `device_run` filling it); and that the engine is quiet whenever
somebody is about to finish (`HwInv`). The induction step has one lemma for each
action. A handler that finishes a stale context does not disturb
it: `HwInv` says the engine reported a status only for the current context, so a
handler that still finds one read the current context or shares its engine.

With `PromptIrq` as a hypothesis (`CedrusRefinement`):

- `PromptInductive`: `Spec => []RInv`,
- `Refinement`: `Spec => ImplementsDevice`,
- `Decoded`, `BuffersFound`, `Alive`, `SpuriousIsWatchdog`: `DoneIsDecoded`, `NoOops`,
  `ContextAlive`, `SpuriousMeansWatchdog`,
- `NoBufferLost`: what vb2 counts as active is what the ready lists hold, each buffer once.

`RInv` adds two parts to `IInv`. `Book` is the bookkeeping: the job queue has each
context once, marked and able to run, the ready lists hold active buffers, each once, nothing is
taken from the running context, a call that waits for a job keeps new ones off.
`Prompt` is what a handler that cannot be overtaken may rely on: past its
cancel it is about the current job, the status it was entered for is still there, the current job has
somebody who will end it, and a good status speaks of the head of the capture list.
Neither holds without the other: a late handler ends a job it was not entered for
and takes that job's buffers along. `NoBufferLost` is proved of `CedrusDevice`
(`DeviceInductive`, `NoneLost` in `CedrusDeviceProofs`) and carried over: the step
lemma of the refinement turns a step of a thread into one of the device, whose
induction applies. `DataLemmas` has the lemmas on sequences without repetition.

Only model-checked: the liveness properties, which are out of the prover's reach.

### Not modelled

Media requests and their validation; the hold-capture flag for slice decoding; DQBUF, which is merged with the next
QBUF of the buffer; PREPARE_BUF and REQBUFS; V4L2 events. A failure inside
`start_streaming` is a path of `CedrusSetup`: it returns the buffers and leaves the state as it was.

## 4. CedarDma

The legacy device leaves the programming of the engine to its clients, who map the
registers. The driver can only stop the engine, by its reset line, before it
gives memory back. The model asks whether it does so whenever it must, and only
for as long as it must.

### State and its counterpart in the code (`cedar_ve.c`)

| Variable | Code |
|---|---|
| `opened`, `refs`, `coh` | life of `struct ve_info`, its `engine_refs` and `coherent_buffers` |
| `refCount`, `sem` | `cedar_devp->ref_count`, the file whose call holds `cedar_devp->sem` |
| `clk`, `reset` | `clk_status` with the clocks it stands for; the reset line |
| `mapped`, `list` | attachments that exist, and those linked in `cedar_devp->list` |
| `lock` | the codec lock and the file that holds it |
| `call`, `freeing` | where a call in progress stands, and the buffer it frees |
| `job` | the memory the engine works on, for each file |
| `pm` | system suspend; `"lost"` after a resume whose clocks failed |

`job` belongs to no structure of the driver: it is the hardware. `Submit` stands for
a client that writes registers through its mapping; the mapping holds
the file, so nothing is submitted after release began. Calls are cut where they take or drop
`sem`, and between stopping the engine and giving memory back. ENGINE_REQ enables
the engine as two steps (reset line and clocks), ENGINE_REL disables it as three,
release is three (stop, give back, references). A clock may fail in enable and
in resume. Suspend happens only with all tasks frozen outside the driver.

### Assumptions about clients

A process makes one call at a time (`MayCall`). The rest are parameters, because the
driver cannot enforce them and its users differ:

- `EngineFiles`, `MemoryFiles`: on which files a process requests the engine and
  allocates. The vendor library uses one file for both, the memory adapter
  bridge opens one of its own for memory.
- `Waits`: a client lets its job end before it unmaps the memory of the job or drops
  its last reference. UNMAP_DMA_BUF never stops the engine, so that without it
  `DmaOnMapped` has no meaning. Clients may still abort at any time (`ReleaseBegin`).
`MaxRefs` bounds the references of one file. Two are enough for a last
and a not last reference of the same file, of another file, and of both.

### Runs

| Run | Instance | Shows |
|---|---|---|
| `dma_safe` | three clients of one file each, `Waits`, suspends | `DmaOnCoherent`, `DmaOnMapped`, `EnginePowered`, `DisciplinedReset`, `DisciplinedMappings`; `ImplementsEngine`, the refinement of `CedarEngine` |
| `dma_bridge` | one process with an engine file and a memory file | violates the comment at `cedar_ve.c:2160` |

Three clients are one that frees or closes, one that enables or
disables meanwhile and one whose engine must keep going. They are alike, and `Clients` exchanges
them, each with its process, as a symmetry; the run has only invariants and
an action property, for which that is sound.

Two properties do not hold of all clients: that nobody's free or close leaves the engine of another
in reset, and that no mapping outlives its process. A mapping made before the engine is
enabled is forgotten, since the enable re-initialises the list
(`cedar_ve.c:717`), and so does a resume with references (`cedar_ve.c:2388`, by way of 717). And the release of a file that holds only buffers or
the codec lock asserts the reset (`cedar_ve.c:2228`) but deasserts it only with references
(`cedar_ve.c:2272`). `CedarDisciplined` therefore adds a history variable, `disciplined`: so far no client
held memory, a mapping or the lock without engine references, and the system was not suspended.
`DisciplinedReset` and `DisciplinedMappings` hold as long as it is true, however
clients abort; the other properties of the run hold whether it is or not.

A known limit is left out by `OneFileEach`: closing a file without
references unmaps everything its process mapped, under the jobs of
another file of the process.

Both are safety runs, and no fairness is assumed: the driver's calls do not
wait for the engine in this part.

### The engine that clients see (`CedarEngine`)

`CedarEngine` has no count, no semaphore and no call in progress: each client has references
of its own, the first of them starts the engine, it comes to rest only when nobody holds one,
whoever resets it ends the jobs of all, memory goes only when no job of its client works on it, and a
client that goes leaves the others what they use. `Promise` says what that is good for: a job has a
running engine, a reference and memory of its client; whoever holds a reference finds the engine
running unless the system sleeps; private memory has one owner.

`ImplementsEngine` maps `refs`, `clk` and `job` to `held`, `on` and `job`, `coh` with the mappings of
the process to `memory`, and any `pm` but `"on"` to `asleep`. A call takes effect where it changes one
of these: an enable when the clocks run and the reference is noted (`EnableDone`), ENGINE_REL
when it drops the reference, with the rest of the engine as a step of its own (`Disable`), a
release as the end of all jobs, the return of memory, and `Leave`. The other steps are stutters.
Like `DmaOnCoherent` it needs clients with one file each that wait for their
jobs: with two files in a process, memory goes while a job of the process runs on it.

### Proofs (`CedarDmaProofs`)

From `DmaAssumption`, for any sets of files, processes and memory:

- `TypeCorrect`: `Spec => []TypeOK`. The hard conjunct is `refCount \in Nat`: a
  failed enable subtracts one, which needs the count to be one.
- `PowerFollowsReferences`: `Spec => []EnginePowered`, from `PowerInv`: a call that is
  between two sections of the engine switch holds the semaphore and has decided the count.
- `DmaSafe`: `OneFilePerProcess /\ Waits /\ Spec => []DmaOnCoherent`, from
  `DmaInv`: whoever runs a job holds references, on a powered engine, and is in no
  call that gives memory back; FREE_COHERENT on the same file then
  finds the reference and stops the engine. It is inductive only with
  both hypotheses, which is what `dma_bridge` shows from the other side.
- `MappedSafe`: the same with `DmaOnMapped` alone.
- `CountCorrect`: `Spec => []CountInv`: `refCount` is the number of references the files hold, and one
  more while an enable is in progress. The sum is a cardinality, that of the set `Held` of numbered
  references, so that every step adds or removes elements of a finite set.

- `EngineRefined`: `OneFilePerProcess /\ Waits => (Spec => ImplementsEngine)`. `EngineInv` puts
  together the invariants above. `CountMeansUsers` turns the code's test `ref_count == 0`
  into what the abstract engine asks, that nobody holds a reference: by `CountCorrect` true of every
  state without an enable in progress, and by `PowerInv` there is none when a call makes
  the test, since the semaphore is free or its own. The jobs that a step must not disturb are those
  that `DmaInv` excludes of a call that gives memory back. There is a lemma for each group of
  actions: engine calls, memory calls, jobs, release, suspend.
- `EnginePromises`: `OneFilePerProcess /\ Waits => (Spec => []Engine!Promise)`. `Promise` is inductive
  in `CedarEngine` as it stands (`PromiseKept`), and the refinement carries it over.

And of the disciplined device, for any sets, also when clients share files or do not wait:

- `ResetInductive`, `ResetSafe`: `WatchedSpec => []DisciplinedReset`, from `ResetInv`: an engine in use
  is in reset only for a call that stopped it and holds the references with which it will let it go on.
- `LinkedInductive`, `MappingsSafe`: `WatchedSpec => []DisciplinedMappings`, from `LinkedInv`: what is mapped is
  linked, for a process with an open file that holds references. An enable empties the list
  only when the count was 0, and by `CountCorrect` nobody held references then, hence nobody had mapped anything.

### Not modelled

SET_REFCOUNT (stores any number in the count; with it no statement about the count
holds), ENABLE_VE and DISABLE_VE, frequency settings, register snapshots, the debug table, probe and remove.

## 5. CedarSync

The locks of the legacy device are taken by one ioctl and given back by another, and by
the release of the file when the client died in between. The wait for the decoder's interrupt shares
two words with the handler, which takes no lock.

| Variable | Code |
|---|---|
| `syOpened`, `syFlags` | open files; `info->lock_flags` |
| `syHolder` | the mutexes `lock_vdec` and `lock_proc`, with the thread they are held for |
| `syPc` | where the call of a thread stands: between mutex and flag, or in WAIT_VE_DE |
| `syEngine`, `syIsr` | the decoder; the next store of `VideoEngineInterupt` |
| `syValue`, `syFlag` | `de_irq_value`, `de_irq_flag` |
| `syJob` | the thread whose job is not over as far as it knows |
| `syHandled` | history: the handler stored its value since the last trigger |
| `syOdd` | history: the job was started with something left behind (`"stale"`), or its wait missed the interrupt (`"missed"`) |

Clients keep the order of the codec library: they take the codec lock with an engine reference,
wait once for each job, reset the engine when the wait returned 0, and give back only what they took. All they
know of a job is what its wait returned; neither the lock nor the trigger looks at the engine. The locks of the
encoder, of the JPEG decoder and of the two register banks are like the decoder's.

The handler stores the value (`cedar_ve.c:656`) and the flag (657); the wait clears the value (1512),
looks at the flag (1542), sleeps and clears the flag (1546). The model has each of these as a step, and two orders of them go wrong:

- The value is stored, the wait clears it and finds no flag, then the flag comes and wakes it. The wait
  returns 0 at once for a job that is decoded: the interrupt is lost (`"missed"`).
- The flag comes when no wait is left to clear it: the handler was late, or the close of the last reference
  set it (2290). The next wait finds the flag, returns 1 at once, and the client gives
  back the codec lock with the engine at work (`"stale"`), which may leave the next job such a start in turn.

Both are the code's behaviour and reachable in the model; the properties say that nothing else goes wrong.

Two properties are checked in the run `codecs` with three threads on two files and proved in
`CodecProofs`, from `SyAssumption`, for any threads and any way they share files (`TurnsInductive`):

- `TurnsKept` (`TurnsSafe`): a held lock is recorded by an open file and a recorded one is held, so that
  the release of a dead client gives back all it left and nothing else; the engine works only under the
  codec lock, unless its job had a stale start.
- `WaitsTruthful` (`WaitsTold`): a wait for a job with a clean start returns 1 if and only if the interrupt of the job
  was handled, but for the one order above, in which it always returns 0.

The invariant adds where a thread stands between mutex and flag (`LockInv`), that
whoever has a job holds the codec lock, so that nobody else starts one or forgets the value (`TurnInv`), and
how value, flag, handler and engine go together at each point of a job with a clean start (`WaitInv`), and that
an engine at work has a job or is left from a stale start (`EngineInv`).

## 6. CedrusFormat

A context has a coded and a picture format, each of which is derived from the other in one
direction: the decoder copies the coded size to the picture, the encoder the
picture size to the coded format. The coded format selects the engine, and
buffers, their private data, what engines attach to them and the memory of the
engine were made for a choice of these. The model asks whether any order of
ioctls leaves something behind that no longer fits.

### State and its counterpart in the code

| Variable | Code |
|---|---|
| `role` | the node the context was opened on |
| `coded`, `picture`, `selection` | `format_coded`, `format_picture`, `selection_picture` |
| `engine` | `ctx->engine` |
| `buf` | vb2 buffers of a queue: their size, and the engine whose private structure they carry |
| `queued`, `streaming` | the state of a buffer and of a queue |
| `memory` | the engine that `setup` was called of, for `engine_ctx` and `engine_job` |
| `side` | DMA memory attached to picture buffers: H.264 motion vectors, VP9 10-bit reconstruction, the H.264 encoder's reconstruction |
| `job` | the buffers of the running job, which reads formats without the node's lock |

Actions are ioctls, which the node's mutex makes atomic, and the start and end of a
job. Frames are square, a width standing for both dimensions; strides are the
smallest the driver accepts; buffers are the driver's own (MMAP). An engine has
one coded format: `mpeg2`, `h264` and `vp9` are three different kinds of engine by
frame sizes, buffer data and attached memory, and H.265 repeats h264, VP8 mpeg2.
A job's end is merged with DQBUF. `Word` stands for 2^32: TLC's own integers
have 32 bits, and the unsigned subtraction of S_SELECTION wraps alike
at any word that is larger than the frames.

### Assumptions about clients

- `Peer`: S_FMT on the coded queue only while the picture queue has no buffers. The
  driver checks this in one of the two cases in which it must hold
  (`cedrus_dec.c:272`); `fmt_picture_buffers` shows the other.
- `Resets`: a client repeats S_FMT until it changes nothing before it streams. The
  driver constrains a size by the engine of the format that was set before
  (`cedrus_proc.c:94`), and selects the new engine only afterwards (408), so the
  first S_FMT to a new codec may be accepted with a size the codec does not have.
- `InBounds`: a selection starts at least two pixels left of the picture's right edge.
  Beyond, `width_max` wraps or is smaller than the minimum, which `clamp()` ignores.

### Runs

| Run | Instance | Shows |
|---|---|---|
| `fmt_safe` | either role, two buffers per queue, all three assumptions | `JobPictureFits`, `JobFindsBufferData`, `CleanupMatchesInit`, `FormatsAgree`, `SelectionInside`, `FormatsFixedUnderJob` |
| `fmt_picture_buffers` | one buffer per queue, without `Peer` | violates the comment at `cedrus_dec.c:272` |

Two widths are enough for a format that shrinks and one that grows; 100 is a multiple
of no engine's step but VP9's and the encoders', 3840 is beyond the limit of the JPEG engine. Two buffers
let a job run on one while another is added. The model is finite without a
constraint. No fairness: nothing in this part waits but STREAMOFF for a job, whose end is a
matter of the job path (`CallsReturn`).

### Proofs (`CedrusFormatProofs`)

Every property of `fmt_safe`, and who owns the memory of an engine (`EngineOwned`), from `FormatAssumption`, for any number of buffers
and any requests:

- without an assumption about clients: `TypeCorrect`, `EngineOwned`, `Agreement`,
  `FixedUnderJob`, from `FormatInv`, whose core is `Allocated` (what streams has
  buffers, so `cedrus_context_queue_busy_check` also protects a running job);
- with `Peer`: `FindsBufferData` and `CleanupMatches`, from `MadeForFormats`: S_FMT
  on a queue that keeps its buffers keeps its format, so all buffers were made for
  what is set now;
- with `Peer` and `Resets`: `PictureFits`, from `SizeAccepted`, `ConstrainFits` (what
  `v4l2_apply_frmsize_constraints` returns is accepted as it is) and `TiledFits`
  (so is that size rounded up to the tiles of 32);
- with `InBounds`: `SelectionStaysInside`, since inside the picture the difference
  is smaller than a word.

### Not modelled

Frame intervals, enumeration and TRY_FMT, which change nothing else; CREATE_BUFS with a
size larger than the format's; failures of start_streaming; imported buffers and
strides chosen by clients.

## 7. The codec engines

A context has one engine and engines share no state, so `MCCodecs` composes them as
alternatives: the first step chooses the engine, the rest of a behaviour is
that engine's (or that of the clients of `CedarSync`). The pure modules are evaluated in the states
before the choice. The job path is not repeated: `CedrusJob` shows that jobs come one at a time
and that each ends once, and these modules start from there. A job may be refused
before it reaches the hardware, run and end decoded, or run and fail (error
interrupt, watchdog). Buffers may be freed between jobs and streams restarted.

| Module | State and its counterpart | Actions |
|---|---|---|
| `CedrusVp9` | `frame_context[4]`, `segment_map[2]`, `mv_col`, `previous_*` of the context, `struct cedrus_dec_vp9_buffer`. Tables, maps and vectors are represented by the set of frames they were computed from | setup, cleanup, buffers freed, job configure with each of its early returns, finish decoded, failed |
| `CedrusVp8` | the loop filter remembered from the last frame; the addresses given to the hardware | the same, for VP8 and MPEG-2 |
| `CedrusH264` | position, type and motion vectors of a buffer; the frame the client is sending | first slice, further slices, second field, end, buffers freed |
| `CedrusH265` | motion vectors of a buffer; the 17 entries of the SRAM, which outlive jobs and streams | frame, further slices, refused slices, end, buffers freed |
| `CedrusEncH264` | controls and their copies, the step (SPS, PPS, slice), GOP counters, the reference pair; the decoder of the stream | set control, prepare, configure, finish, lost frame, restart |
| `CedrusEncJpeg` | quality and its copy, the header saved with a buffer, payload | set quality, set format, job, finish, take the image |

A history variable says what the client meant, and the properties compare it with what
the hardware was told:

- `VpPicturesSound`, `VpMvsOfPrevious`, `VpHistoryCut`, `VpMapReplaced` (VP9): surfaces exist and are described
  truly; motion vectors are those of the previous frame; probabilities
  and segment maps come from no failed frame and from none before the last fresh
  start; a map is replaced only by a frame that decoded and updated it. A job that
  fails on the hardware has overwritten the motion vectors, which the code does not notice:
  `VpMvsOfPrevious` is claimed until such a job (`vpSpoiled`).
- `IndicesMeant` (H.264, H.265): every index in a reference list leads to the buffer
  of the picture the client named, and all slices and fields of a frame decode into
  one position. `MotionVectorsFit`: as long as the buffers have seen one sequence; a
  buffer's motion vectors are allocated once, for the first one.
- `V8PastMeant` (VP8, MPEG-2): references, and the filter of the last filtered frame.
- `EnDecodes` (H.264 encoder): a decoder of the stream derives what the hardware was
  told. Parameters are not claimed after a lost frame that carried parameter sets nor where a control
  changes between prepare and configure, each until the set is sent again. The client sends any picture buffer,
  the one of the last frame too: then a predicted frame is written over the reconstruction it is predicted from
  (`EnOverwrites`). Numbers still agree, the picture is claimed again from the next frame that is not predicted;
  likewise after the buffers were freed.
- `JpImageWhole` (JPEG encoder): header and payload are of one picture and fit the buffer.
- `LayoutsDisjoint`, `GeometryExact`, `HeadersInStep`, `ProbabilitiesSound`, `RegistersSound`, `SetupsUnwind`:
  the pure functions over bounded inputs; each is a conjunction of the properties of its modules.
  `HeadersInStep` has the reference definitions of the formats beside the code's, `MergeFollowsTrees`
  the recursive process over the probability trees beside the unrolled sums.
- `RegistersSound` states for each engine which of the values it writes do not fit their field: those that are
  cut, and those whose excess spills into the neighbour because the macro shifts without a mask
  (`WrittenFits`, `WrittenShifted`). The sets are exact. They are empty but for the H.265 `picture_type` (cut),
  the end of a VP9 tile (spilt) and the strides of the encoders beyond 11520 bytes (cut); see section 8.

| Run | Instance | Shows |
|---|---|---|
| `codecs` | each engine, with the bounds below | all of the above, `TurnsKept`, `WaitsTruthful` |
| `enc_cabac` | the H.264 encoder | violates the comment at `cedrus_enc_h264.c:342`: a frame encoded with CABAC under a profile that excludes it |

Bounds (in the guards, named `...MaxFrames`, `...MaxRefs` and so on): three frames or jobs of an engine, enough for
a frame, one that fails or is refused, and one that depends on what they left;
two or three picture buffers, so that one is used again while another is a reference; two
references; nine VP9 headers and three of the other formats, chosen so that every kind of
frame, depth, segmentation mode and reset occurs, in several combinations; H.265 pictures of 64 by 64 with two block
sizes; three changes of control. Inputs of the pure functions are the sizes and values
around their limits (`VpSizes`, `VpProbs`, `VpCounts`). The frame bounds stop every behaviour, so
deadlock is not checked; no fairness is assumed and nothing in
these modules waits.

### Proofs (`DecoderProofs`, `CodecProofs`)

Every property of the run `codecs` is a theorem of `CodecsSpec` or of the specification of its engine,
for any buffers, headers, controls and lengths of streams that the assumption of each module admits
(`VpAssumption`, `H4Assumption` and so on: what the code or the
format bounds, such as 16 frames in a DPB or tree block sizes of 16, 32 and 64).

**Engines from frame to frame.** Each has an inductive invariant; a lemma for each action shows that
the action keeps it, and `CodecsInductive` composes them: a step of `MCCodecs` is a step of one
engine's specification and a stutter of the others (`CodecsStep`).

| Theorem | Invariant: what is added to the properties, and why |
|---|---|
| `Vp9Inductive` | `VpInv`: the running job is the last of the log and has written the motion vectors (`RunInv`); between jobs the record of the previous frame is about the frame whose motion vectors are in the buffer (`PrevInv`); what is kept and what the job was given comes from decoded frames after the last fresh start (`KeptInv`); what is recorded of a picture is true, with the surfaces of the job allocated (`PicInv`) |
| `H264Inductive` | `H4Inv`: the frames of the DPB that have a buffer have positions of their own (`H4Kept`), or else two references of a list could share one. That the target finds a free one (`H4FreeExists`) is the pigeonhole principle: at most 16 frames in 18 positions. The target of a frame whose slices or fields are not all sent has the position that a new search finds again (`H4Kept`); a running job is for the frame of now (`H4Working`) |
| `H265Inductive` | `H5Inv`: the current frame's buffer is the only one with its timestamp, and whoever was decoded into has motion vectors (`H5Placed`); the lists of a running job are over its own DPB (`H5Working`). The entries of the SRAM outlive jobs; with these parts, each that a list reaches was written for a picture that is still there, or its picture is gone |
| `Vp8Inductive` | `V8Inv`: a buffer stands for one frame, and a frame that may be referred to has one unless it was freed (`V8Placed`); the remembered loop filter is the one of the last frame that had one, and the job was given that of the frames before it (`V8Filtered`) |
| `EncoderInductive` | `EnInv`: the parameter sets of the decoder, of the job and of the context differ only where one is still due, was lost or raced, with a clause for each phase (`EnSets`); likewise frame numbers and the reference, from a lost frame to the next IDR frame, and pictures once a buffer was freed or reused (`EnRefs`) |
| `JpegInductive` | `JpInv`: a buffer is active exactly while it is the job's (`JpActive`), and what was recorded of a finished one is true of its image until the client takes it (`JpWaiting`) |
| `TurnsInductive` | `SyInv`, see section 5 |

From these follow `IndicesKept`, `MotionVectorsKept`, `V8PastKept`, `EncoderDecodes` and `ImagesWhole`
(`IndicesMeant`, `MotionVectorsFit`, `V8PastMeant`, `EnDecodes`, `JpImageWhole`), and of `VpSpec`
`MvsOfPrevious`, `PicturesSound`, `HistoryCut` and `MapReplaced`. `CodecsTyped`, the types of all
variables, is proved only.

The proof for the encoder changed the model, which had one mark for a control that changed between
`job_prepare` and `job_configure`, ended by the next parameter set. The invariant was not inductive: a race on
the profile leaves the sequence parameter set stale, and a later change of the entropy mode sends the picture
parameter set alone, which ended the mark with the profile still wrong. There is now a mark for each
set (`raced_sps`, `raced_pps`), and the run allows the third change of a control that this needs.

**Functions of the driver.** These theorems are about definitions without state; each rests on lemmas that say
more than the conjunct the run evaluates.

| Theorem | Property | Holds, by its lemmas, for |
|---|---|---|
| `LayoutsApart` | `LayoutsDisjoint` | working areas: any sizes up to 4096; the images, the SRAM and all registers have no parameter |
| `GeometriesExact` | `GeometryExact` | VP9 tiles, scale factors, surfaces: any sizes up to 4096; H.264 slices: any position in a picture of up to 240 macroblocks; H.265 entry points: any tiling and first tile (`AnyTilingWalked`); cropping and the encoder's buffers: any even size (`CropExact`) |
| `HeadersExact` | `HeadersInStep` | any VP8 header (`HeaderReadToItsEnd`); any byte before slice data, at any offset (`AtAlignment`), skipped in any number of steps (`SkippedAll`); any value whose Exp-Golomb code starts within 16 bits (`CodeRead`, `SignedCodeRead`); any quality, base and divisor of the JPEG tables |
| `ProbabilitiesKept` | `ProbabilitiesSound` | any probabilities and counts, with 2^32 for the one of the reciprocals, where TLC uses a smaller number (`FastDivExact`); any tree whose entries lead forward (`SymbolsOfTree`), of which the format's are instances |
| `SetupsKept` | `SetupsUnwind` | a path of any length whose labels mirror its steps (`MirroredUnwinds`); each setup function is an instance |
| `RegistersKept` | `RegistersSound` | the sizes and strides the engines accept, every set of interrupt status bits; the exceptions are proved to be just those named |

Recursion over data needs induction. The library states induction with an operator as a parameter,
which the provers cannot instantiate; `DataLemmas` states it with a set (`Induction`), and rests it on
the least element of a set of naturals (`LeastNatural`), which the library's theorem on well-founded
relations gives. From it come `RecursionExists` (a function defined by recursion over an
interval exists) and `RunningSum` (what a running sum computes), which the walk over tiles, the sums of
Huffman tables, the probability image and the syntax of a header use.

Only model-checked: nothing of this run. What TLC adds is that the bounded instances are not
empty: every action fires, and every property fails under the mutation that `PROJECT.json` lists for it.

### Not modelled

Default tables, quantizer and scaling list values, weighted prediction, rate control
statistics, VUI contents, and register words without arithmetic: the code copies them.

## 8. Observations

The six violation runs are listed as findings in `PROJECT.json`, each with the line it contradicts. Seen while
modelling, and described by the models rather than by a run:

- `cedrus_proc_open` leaves the context of a failed setup behind (`cedrus_proc.c:691`); open is
  therefore not among the paths of `SetupAllOrNothing`.
- `cedrus_dec_vp9_setup` returns 0 when an allocation after the size of the motion vectors fails
  (`cedrus_dec_vp9.c:465`); the model has such a context (`vpMem`), and a job that reaches its null pointer
  ends in `VpOops`. No property excludes it.
- WAIT_VE_DE may return 0 for a job that is decoded, and 1 for one that is not (section 5).
- A predicted frame encoded into the coded buffer from the picture buffer of the last frame overwrites its own reference
  (`cedrus_enc_h264.c:1147`). The driver advertises one picture buffer as enough (1404), and
  `tools/v4l2-encode-bench.c:150` encodes every frame from one.
- `cedrus_dec_vp9.c:700` checks only the logarithms of the tile counts: with more tiles than superblocks,
  898 writes 0 - 1 as the end of a tile, beyond its field and into the next.
- `cedrus_dec_h265.c:773` writes the `pic_struct` of the client, up to 12, into two bits.
- The encoders write strides in units of 16 and 48 bytes into fields that hold those up to 11520; the driver accepts
  strides of up to 32 bytes a pixel (`cedrus_enc.c:112`), 122880 for a width of 3840.
- `cedrus_dec_h264.c:335` and `cedrus_dec_h265.c` size motion vectors once for a buffer.

## 9. Left for later

- Media requests and hold-capture in the job path, with `tools/vp9-request-sequence.c` as its client.
- Composition of `CedrusFormat` with the engines: buffers freed by a change of
  format are an action of each engine module, not a step of `CedrusFormat`.

Not modelled and not planned: the android smoke programs and probes, the native bridge and the
request tools (test programs, sequential, without state that outlives a run; what they
do to the drivers is among the inputs of the models), the GStreamer headers (type declarations of
another project), session scripts (load, run, unload), kernel configuration,
artifacts, workflows and docs (data and prose; the docs supply statements the
violation runs check). Two hazards have no property: a delay of more than two seconds between arming the
watchdog and the trigger, which only its length excludes, and an interrupt left by
firmware before probe is complete, since what firmware leaves is not in the repository.
