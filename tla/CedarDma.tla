------------------------------- MODULE CedarDma -------------------------------
(***************************************************************************)
(* The legacy character device /dev/cedar_dev: engine references, clocks    *)
(* and the reset line of the Video Engine against the memory its DMA works *)
(* on, which clients allocate (coherent buffers) or map (dma-bufs), and     *)
(* against release, suspend and resume.                                     *)
(*                                                                         *)
(* Clients program the hardware themselves through a mapping of its        *)
(* registers, so a job is something a client starts and the driver can     *)
(* only stop by asserting the reset.  A process makes one call at a time.   *)
(***************************************************************************)
EXTENDS Integers, FiniteSets

CONSTANTS
  Files,        \* open files of /dev/cedar_dev (struct ve_info)
  Procs,        \* client processes (tgid)
  ProcOf,       \* the process of a file
  Bufs,         \* coherent allocations
  Dbufs,        \* dma-bufs
  None,
  MaxRefs,      \* bound: engine references a client takes on one file
  EngineFiles,  \* files on which clients request the engine and start jobs
  MemoryFiles,  \* files on which clients allocate coherent buffers
  Waits,        \* clients let their job end before they unmap its memory or
                \* give back their last engine reference
  Suspends      \* the system may suspend

ASSUME DmaAssumption ==
  /\ ProcOf \in [Files -> Procs]
  /\ None \notin Files \cup Procs \cup Bufs \cup Dbufs
  /\ Bufs \cap Dbufs = {}
  /\ MaxRefs \in Nat \ {0}
  /\ EngineFiles \subseteq Files /\ MemoryFiles \subseteq Files
  /\ Waits \in BOOLEAN /\ Suspends \in BOOLEAN

VARIABLES
  opened,    \* files between open and the end of release
  refs,      \* info->engine_refs of each file
  refCount,  \* cedar_devp->ref_count
  sem,       \* the file whose call holds cedar_devp->sem
  call,      \* where the call in progress on a file stands
  freeing,   \* the buffer of a FREE_COHERENT in progress
  clk,       \* clk_status, with the clocks themselves
  reset,     \* the reset line is asserted
  coh,       \* info->coherent_buffers of each file
  mapped,    \* attachments that exist: pairs of a dma-buf and a process
  list,      \* those that are linked in cedar_devp->list
  lock,      \* the file that holds the codec lock (lock_vdec and its like)
  job,       \* the memory the engine works on for each file
  pm         \* "on", "suspended", or "lost" after a resume that failed

vars == <<opened, refs, refCount, sem, call, freeing, clk, reset, coh, mapped,
          list, lock, job, pm>>

refVars == <<opened, refs, refCount, sem>>
memVars == <<coh, mapped, list, lock, freeing>>
hwVars  == <<clk, reset, job>>

NoJobs == [f \in Files |-> None]

Awake == pm # "suspended"

\* The files of a process, and whether it is between two calls.
FilesOf(p)   == {f \in Files : ProcOf[f] = p}
MayCall(f)   == /\ Awake /\ f \in opened
                /\ \A g \in FilesOf(ProcOf[f]) : call[g] = "idle"
MappedBy(p)  == {d \in Dbufs : <<d, p>> \in mapped}

\* Memory a process has the address of and may hand to the engine.
MemoryOf(p) == MappedBy(p) \cup UNION {coh[g] : g \in FilesOf(p)}

OwnJob(f, m) == \E g \in FilesOf(ProcOf[f]) : job[g] = m

\* cedar_quiesce_dma: the reset stops all DMA masters.
Quiesce == reset' = TRUE /\ job' = NoJobs

\* unmap_dma_buf_addr(1, 0, 0): only what is linked, and of the calling process.
LinkedBy(p) == {e \in list : e[2] = p}
UnmapAll(p) == mapped' = mapped \ LinkedBy(p) /\ list' = list \ LinkedBy(p)

-----------------------------------------------------------------------------
\* cedardev_open
Open(f) ==
  /\ Awake /\ f \notin opened /\ sem = None
  /\ \A g \in FilesOf(ProcOf[f]) : call[g] = "idle"
  /\ opened' = opened \cup {f}
  /\ UNCHANGED <<refs, refCount, sem, call, pm, memVars, hwVars>>

\* IOCTL_ENGINE_REQ: the first reference enables the engine under the semaphore,
\* which begins with the reset line;
EngineReq(f) ==
  /\ MayCall(f) /\ f \in EngineFiles
  /\ sem = None /\ refs[f] < MaxRefs
  /\ refCount' = refCount + 1
  /\ IF refCount = 0 /\ ~clk
     THEN /\ sem' = f
          /\ call' = [call EXCEPT ![f] = "enable"]
          /\ reset' = FALSE
          /\ UNCHANGED refs
     ELSE /\ refs' = [refs EXCEPT ![f] = @ + 1]
          /\ UNCHANGED <<sem, call, reset>>
  /\ UNCHANGED <<opened, pm, memVars, clk, job>>

\* then the clocks, and the list of mappings starts empty.
EnableDone(f) ==
  /\ Awake /\ call[f] = "enable"
  /\ clk' = TRUE
  /\ list' = {}
  /\ refs' = [refs EXCEPT ![f] = @ + 1]
  /\ sem' = None
  /\ call' = [call EXCEPT ![f] = "idle"]
  /\ pm' = "on"
  /\ UNCHANGED <<opened, refCount, coh, mapped, lock, freeing, reset, job>>

\* A clock that fails puts the engine back into reset and drops the reference.
EnableFail(f) ==
  /\ Awake /\ call[f] = "enable"
  /\ Quiesce
  /\ refCount' = refCount - 1
  /\ sem' = None
  /\ call' = [call EXCEPT ![f] = "idle"]
  /\ UNCHANGED <<opened, refs, pm, memVars, clk>>

\* Faulty variant of EngineRel: the last reference of a file disables the engine.
EngineRelLastOfFile(f) ==
  /\ MayCall(f) /\ f \in EngineFiles
  /\ sem = None /\ refs[f] > 0 /\ refCount > 0
  /\ refs[f] = 1 /\ Waits => job[f] = None
  /\ refs' = [refs EXCEPT ![f] = @ - 1]
  /\ refCount' = refCount - 1
  /\ IF refs[f] = 1
     THEN sem' = f /\ call' = [call EXCEPT ![f] = "disable"]
     ELSE UNCHANGED <<sem, call>>
  /\ UNCHANGED <<opened, pm, memVars, hwVars>>

\* IOCTL_ENGINE_REL: the last reference disables the engine.
EngineRel(f) ==
  /\ MayCall(f) /\ f \in EngineFiles
  /\ sem = None /\ refs[f] > 0 /\ refCount > 0
  /\ refs[f] = 1 /\ Waits => job[f] = None
  /\ refs' = [refs EXCEPT ![f] = @ - 1]
  /\ refCount' = refCount - 1
  /\ IF refCount = 1
     THEN sem' = f /\ call' = [call EXCEPT ![f] = "disable"]
     ELSE UNCHANGED <<sem, call>>
  /\ UNCHANGED <<opened, pm, memVars, hwVars>>

\* disable_cedar_hw_clk, once clk_status is found set: stop DMA, then the clocks,
Disable(f) ==
  /\ Awake /\ call[f] = "disable"
  /\ IF clk
     THEN /\ clk' = FALSE /\ Quiesce
          /\ call' = [call EXCEPT ![f] = "unmap"]
          /\ UNCHANGED sem
     ELSE /\ call' = [call EXCEPT ![f] = "idle"] /\ sem' = None
          /\ UNCHANGED hwVars
  /\ UNCHANGED <<opened, refs, refCount, pm, memVars>>

\* then unmap what the calling process has mapped.
DisableUnmap(f) ==
  /\ Awake /\ call[f] = "unmap"
  /\ UnmapAll(ProcOf[f])
  /\ call' = [call EXCEPT ![f] = "idle"] /\ sem' = None
  /\ UNCHANGED <<opened, refs, refCount, pm, coh, lock, freeing, hwVars>>

\* IOCTL_ALLOC_COHERENT
Alloc(f, b) ==
  /\ MayCall(f) /\ f \in MemoryFiles
  /\ \A g \in Files : b \notin coh[g]
  /\ coh' = [coh EXCEPT ![f] = @ \cup {b}]
  /\ UNCHANGED <<refVars, call, pm, mapped, list, lock, freeing, hwVars>>

\* Faulty variant of FreeBegin: the memory is freed under the engine.
FreeBeginRunning(f, b) ==
  /\ MayCall(f) /\ b \in coh[f]
  /\ call' = [call EXCEPT ![f] = "free"]
  /\ freeing' = [freeing EXCEPT ![f] = b]
  /\ UNCHANGED <<refVars, pm, coh, mapped, list, lock, hwVars>>

\* IOCTL_FREE_COHERENT: stop DMA if this file holds an engine reference,
FreeBegin(f, b) ==
  /\ MayCall(f) /\ b \in coh[f]
  /\ IF refs[f] > 0 THEN Quiesce ELSE UNCHANGED <<reset, job>>
  /\ call' = [call EXCEPT ![f] = "free"]
  /\ freeing' = [freeing EXCEPT ![f] = b]
  /\ UNCHANGED <<refVars, pm, coh, mapped, list, lock, clk>>

\* Faulty variant of FreeEnd: the engine is left in reset.
FreeEndInReset(f) ==
  /\ Awake /\ call[f] = "free"
  /\ coh' = [coh EXCEPT ![f] = @ \ {freeing[f]}]
  /\ freeing' = [freeing EXCEPT ![f] = None]
  /\ call' = [call EXCEPT ![f] = "idle"]
  /\ UNCHANGED <<refVars, pm, mapped, list, lock, hwVars>>

\* free the memory, and let the engine go on under the same condition.
FreeEnd(f) ==
  /\ Awake /\ call[f] = "free"
  /\ coh' = [coh EXCEPT ![f] = @ \ {freeing[f]}]
  /\ freeing' = [freeing EXCEPT ![f] = None]
  /\ reset' = IF refs[f] > 0 THEN FALSE ELSE reset
  /\ call' = [call EXCEPT ![f] = "idle"]
  /\ UNCHANGED <<refVars, pm, mapped, list, lock, clk, job>>

\* IOCTL_MAP_DMA_BUF and IOCTL_GET_IOMMU_ADDR: map_dma_buf_addr
Map(f, d) ==
  /\ MayCall(f)
  /\ <<d, ProcOf[f]>> \notin mapped
  /\ mapped' = mapped \cup {<<d, ProcOf[f]>>}
  /\ list' = list \cup {<<d, ProcOf[f]>>}
  /\ UNCHANGED <<refVars, call, pm, coh, lock, freeing, hwVars>>

\* IOCTL_UNMAP_DMA_BUF and IOCTL_FREE_IOMMU_ADDR: unmap_dma_buf_addr(0, fd, addr)
Unmap(f, d) ==
  /\ MayCall(f) /\ <<d, ProcOf[f]>> \in list
  /\ Waits => ~OwnJob(f, d)
  /\ mapped' = mapped \ {<<d, ProcOf[f]>>}
  /\ list' = list \ {<<d, ProcOf[f]>>}
  /\ UNCHANGED <<refVars, call, pm, coh, lock, freeing, hwVars>>

\* IOCTL_GET_LOCK and IOCTL_RELEASE_LOCK
GetLock(f) ==
  /\ MayCall(f)
  /\ lock = None
  /\ lock' = f
  /\ UNCHANGED <<refVars, call, pm, coh, mapped, list, freeing, hwVars>>

ReleaseLock(f) ==
  /\ MayCall(f) /\ lock = f
  /\ lock' = None
  /\ UNCHANGED <<refVars, call, pm, coh, mapped, list, freeing, hwVars>>

\* IOCTL_RESET_VE, which a client with references uses after a timeout.
ResetVe(f) ==
  /\ MayCall(f) /\ refs[f] > 0
  /\ reset' = FALSE /\ job' = NoJobs
  /\ UNCHANGED <<refVars, call, pm, memVars, clk>>

\* A client starts the engine through its mapping of the registers.
Submit(f, m) ==
  /\ MayCall(f) /\ f \in EngineFiles
  /\ refs[f] > 0 /\ clk /\ ~reset
  /\ job[f] = None /\ m \in MemoryOf(ProcOf[f])
  /\ job' = [job EXCEPT ![f] = m]
  /\ UNCHANGED <<refVars, call, pm, memVars, clk, reset>>

JobDone(f) ==
  /\ job[f] # None
  /\ job' = [job EXCEPT ![f] = None]
  /\ UNCHANGED <<refVars, call, pm, memVars, clk, reset>>

\* Faulty variant of ReleaseBegin: only a lost lock stops the engine.
ReleaseBeginLockOnly(f) ==
  /\ MayCall(f)
  /\ IF lock = f THEN Quiesce ELSE UNCHANGED <<reset, job>>
  /\ call' = [call EXCEPT ![f] = "give_back"]
  /\ UNCHANGED <<refVars, pm, memVars, clk>>

\* cedardev_release: stop DMA that may be live,
ReleaseBegin(f) ==
  /\ MayCall(f)
  /\ IF refs[f] > 0 \/ lock = f \/ coh[f] # {}
     THEN Quiesce ELSE UNCHANGED <<reset, job>>
  /\ call' = [call EXCEPT ![f] = "give_back"]
  /\ UNCHANGED <<refVars, pm, memVars, clk>>

\* Faulty variant of ReleaseGiveBack: the mappings stay.
ReleaseGiveBackKeepsMappings(f) ==
  /\ Awake /\ call[f] = "give_back"
  /\ lock' = IF lock = f THEN None ELSE lock
  /\ coh' = [coh EXCEPT ![f] = {}]
  /\ call' = [call EXCEPT ![f] = "drop_refs"]
  /\ UNCHANGED <<refVars, pm, mapped, list, freeing, hwVars>>

\* unmap, unlock and free what the client left,
ReleaseGiveBack(f) ==
  /\ Awake /\ call[f] = "give_back"
  /\ UnmapAll(ProcOf[f])
  /\ lock' = IF lock = f THEN None ELSE lock
  /\ coh' = [coh EXCEPT ![f] = {}]
  /\ call' = [call EXCEPT ![f] = "drop_refs"]
  /\ UNCHANGED <<refVars, pm, freeing, hwVars>>

\* Faulty variant of ReleaseRefs: the engine stays enabled.
ReleaseRefsKeepsEngine(f) ==
  /\ Awake /\ call[f] = "drop_refs" /\ sem = None
  /\ opened' = opened \ {f}
  /\ refs' = [refs EXCEPT ![f] = 0]
  /\ refCount' = IF refs[f] > refCount THEN 0 ELSE refCount - refs[f]
  /\ call' = [call EXCEPT ![f] = "idle"]
  /\ reset' = IF refs[f] > 0 THEN FALSE ELSE reset
  /\ UNCHANGED <<sem, pm, memVars, clk, job>>

\* and drop its engine references under the semaphore: the last ones disable the
\* engine, others take it out of reset again.
ReleaseRefs(f) ==
  /\ Awake /\ call[f] = "drop_refs" /\ sem = None
  /\ opened' = opened \ {f}
  /\ refs' = [refs EXCEPT ![f] = 0]
  /\ refCount' = IF refs[f] > refCount THEN 0 ELSE refCount - refs[f]
  /\ call' = [call EXCEPT ![f] = "idle"]
  /\ \/ /\ refs[f] > 0 /\ refCount' = 0 /\ clk
        /\ clk' = FALSE /\ Quiesce
        /\ UnmapAll(ProcOf[f])
     \/ /\ refs[f] > 0 /\ refCount' > 0
        /\ reset' = FALSE
        /\ UNCHANGED <<clk, job, mapped, list>>
     \/ /\ refs[f] = 0 \/ (refCount' = 0 /\ ~clk)
        /\ UNCHANGED <<hwVars, mapped, list>>
  /\ UNCHANGED <<sem, pm, coh, lock, freeing>>

\* sunxi_cedar_suspend, when all tasks are frozen outside the driver: the task
\* that suspends has mapped nothing.
Suspend ==
  /\ Suspends /\ Awake
  /\ \A f \in Files : call[f] = "idle"
  /\ pm' = "suspended"
  /\ IF clk THEN clk' = FALSE /\ Quiesce ELSE UNCHANGED hwVars
  /\ UNCHANGED <<refVars, call, memVars>>

\* sunxi_cedar_resume: with references the engine is enabled again.
Resume ==
  /\ pm = "suspended"
  /\ pm' = "on"
  /\ IF refCount = 0
     THEN UNCHANGED <<clk, reset, list>>
     ELSE clk' = TRUE /\ reset' = FALSE /\ list' = {}
  /\ UNCHANGED <<refVars, call, coh, mapped, lock, freeing, job>>

\* The same when a clock fails: nobody tries again before the next enable.
ResumeFail ==
  /\ pm = "suspended" /\ refCount > 0
  /\ pm' = "lost"
  /\ UNCHANGED <<refVars, call, memVars, hwVars>>

-----------------------------------------------------------------------------
Init ==
  /\ opened = {} /\ refs = [f \in Files |-> 0] /\ refCount = 0 /\ sem = None
  /\ call = [f \in Files |-> "idle"] /\ freeing = [f \in Files |-> None]
  /\ clk = FALSE /\ reset \in BOOLEAN
  /\ coh = [f \in Files |-> {}] /\ mapped = {} /\ list = {}
  /\ lock = None /\ job = NoJobs /\ pm = "on"

EngineStep(f) ==
  \/ EngineReq(f) \/ EnableDone(f) \/ EnableFail(f)
  \/ EngineRel(f) \/ Disable(f) \/ DisableUnmap(f) \/ ResetVe(f)

MemoryStep(f) ==
  \/ \E b \in Bufs : Alloc(f, b) \/ FreeBegin(f, b)
  \/ FreeEnd(f)
  \/ \E d \in Dbufs : Map(f, d) \/ Unmap(f, d)

ReleaseStep(f) == ReleaseBegin(f) \/ ReleaseGiveBack(f) \/ ReleaseRefs(f)

JobStep(f) == JobDone(f) \/ \E m \in Bufs \cup Dbufs : Submit(f, m)

Next ==
  \/ \E f \in Files : \/ Open(f) \/ EngineStep(f) \/ MemoryStep(f)
                      \/ GetLock(f) \/ ReleaseLock(f)
                      \/ JobStep(f) \/ ReleaseStep(f)
  \/ Suspend \/ Resume \/ ResumeFail

Spec == Init /\ [][Next]_vars

-----------------------------------------------------------------------------
(* Type invariant and properties. *)

CallPc == {"idle", "enable", "disable", "unmap", "free", "give_back",
           "drop_refs"}

\* Every variable keeps the shape its C counterpart has.
TypeOK ==
  /\ opened \subseteq Files
  /\ refs \in [Files -> Nat] /\ refCount \in Nat /\ sem \in Files \cup {None}
  /\ call \in [Files -> CallPc]
  /\ freeing \in [Files -> Bufs \cup {None}]
  /\ clk \in BOOLEAN /\ reset \in BOOLEAN
  /\ coh \in [Files -> SUBSET Bufs]
  /\ mapped \subseteq Dbufs \X Procs /\ list \subseteq mapped
  /\ lock \in Files \cup {None}
  /\ job \in [Files -> Bufs \cup Dbufs \cup {None}]
  /\ pm \in {"on", "suspended", "lost"}

\* The engine never works on a coherent buffer that went back to the page
\* allocator, whether by FREE_COHERENT or by the release of a dying client.
DmaOnCoherent ==
  \A f \in Files : job[f] \in Bufs =>
    \E g \in FilesOf(ProcOf[f]) : job[f] \in coh[g]

\* Nor on a dma-buf whose mapping for the client was taken down.
DmaOnMapped ==
  \A f \in Files : job[f] \in Dbufs => <<job[f], ProcOf[f]>> \in mapped

\* The clocks run exactly while references are held, unless a resume failed.
EnginePowered == sem = None /\ pm = "on" => (clk <=> refCount > 0)

\* Freeing memory and closing files stop the engine only for a while: with
\* references held and no call in progress it is out of reset.
ResetReleased ==
  refCount > 0 /\ pm = "on" /\ (\A f \in Files : call[f] = "idle") => ~reset

\* What a process mapped is unmapped at the latest when its last file closes.
MappingsReleased ==
  \A e \in mapped : \E f \in FilesOf(e[2]) : f \in opened

(***************************************************************************)
(* The inductive invariant behind the first two, for clients that wait for *)
(* their jobs and use one file per process.                                *)
(***************************************************************************)

\* A running job belongs to an open file that holds references and is in no call
\* that gives memory back, on a powered engine, and works on memory of that file.
RunningJob(f) ==
  job[f] # None =>
    /\ f \in opened /\ refs[f] > 0 /\ clk
    /\ call[f] \in {"idle", "disable"}
    /\ job[f] \in Bufs => job[f] \in coh[f]
    /\ job[f] \in Dbufs => <<job[f], ProcOf[f]>> \in mapped

DmaInv == \A f \in Files : RunningJob(f)

(***************************************************************************)
(* The inductive invariant behind EnginePowered.                           *)
(***************************************************************************)

\* A call between two sections under the semaphore holds it.
SemHeld ==
  /\ sem # None => call[sem] \in {"enable", "disable", "unmap"}
  /\ \A f \in Files : call[f] \in {"enable", "disable", "unmap"} => sem = f

\* While the engine changes hands the count has already been decided.
Switching(f) ==
  /\ call[f] = "enable" => refCount = 1 /\ ~clk
  /\ call[f] = "disable" => refCount = 0 /\ (pm = "on" => clk)
  /\ call[f] = "unmap" => refCount = 0 /\ ~clk

PowerInv ==
  /\ SemHeld /\ EnginePowered
  /\ \A f \in Files : Switching(f)
  /\ pm = "suspended" => \A f \in Files : call[f] = "idle"
  /\ pm # "on" => ~clk

(***************************************************************************)
(* The engine as its clients see it.  The counter, the semaphore and the   *)
(* positions of the calls have no counterpart there.                       *)
(***************************************************************************)

\* What a client may hand to the engine.
ClientMemory == [f \in Files |-> coh[f] \cup MappedBy(ProcOf[f])]

Engine == INSTANCE CedarEngine
          WITH Private <- Bufs, Shared <- Dbufs, held <- refs, on <- clk,
               asleep <- (pm # "on"), memory <- ClientMemory

\* Every step of an ioctl, of release, suspend or resume is a step of CedarEngine
\* or no step at all: however the calls of clients interleave, one count for all
\* of them does what references of their own would do.
ImplementsEngine == Engine!Spec
=============================================================================
