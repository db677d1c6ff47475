--------------------------- MODULE CedarDmaProofs ---------------------------
(***************************************************************************)
(* Proofs about CedarDma, for any files, processes, buffers and bounds.    *)
(***************************************************************************)
EXTENDS CedarDisciplined, FiniteSetTheorems, TLAPS

\* Each process uses one file, for the engine and for its memory.
OneFilePerProcess == \A f, g \in Files : ProcOf[f] = ProcOf[g] => f = g

\* A call's new position is one of the positions it can have.
LEMMA CallMoves ==
  ASSUME NEW c \in [Files -> CallPc], NEW f \in Files
  PROVE  /\ [c EXCEPT ![f] = "idle"] \in [Files -> CallPc]
         /\ [c EXCEPT ![f] = "enable"] \in [Files -> CallPc]
         /\ [c EXCEPT ![f] = "disable"] \in [Files -> CallPc]
         /\ [c EXCEPT ![f] = "unmap"] \in [Files -> CallPc]
         /\ [c EXCEPT ![f] = "free"] \in [Files -> CallPc]
         /\ [c EXCEPT ![f] = "give_back"] \in [Files -> CallPc]
         /\ [c EXCEPT ![f] = "drop_refs"] \in [Files -> CallPc]
<1>1. {"idle", "enable", "disable", "unmap", "free", "give_back", "drop_refs"}
        \subseteq CallPc
  BY DEF CallPc
<1>2. QED BY <1>1

(***************************************************************************)
(* The semaphore and the engine's power.  Every action is looked at once.  *)
(***************************************************************************)

\* Typing and power go together: the count is only decremented while it is
\* positive, which the positions of the calls say.
PInv == TypeOK /\ PowerInv

\* The invariant holds at the start.
LEMMA PowerInit ==
  ASSUME DmaAssumption, Init
  PROVE  PInv
<1>1. "idle" \in CallPc
  BY DEF CallPc
<1>2. TypeOK
  BY <1>1 DEF DmaAssumption, Init, TypeOK, NoJobs
<1>3. PowerInv
  BY DEF Init, PowerInv, SemHeld, EnginePowered, Switching
<1>4. QED BY <1>2, <1>3 DEF PInv

\* Actions that leave the semaphore, the count, the clocks and the sleep state
\* alone, and move a call between positions outside the semaphore.
LEMMA PowerUntouched ==
  ASSUME PowerInv, UNCHANGED <<sem, refCount, clk, pm>>,
         Awake \/ call' = call,
         \A g \in Files :
           \/ call'[g] = call[g]
           \/ /\ call[g] \notin {"enable", "disable", "unmap"}
              /\ call'[g] \notin {"enable", "disable", "unmap"},
         sem \in Files \cup {None}
  PROVE  PowerInv'
<1> USE DEF PowerInv
<1>1. pm' = "suspended" => \A g \in Files : call'[g] = "idle"
  BY DEF Awake
<1>2. SemHeld'
  BY DEF SemHeld
<1>3. EnginePowered'
  BY DEF EnginePowered
<1>4. \A g \in Files : Switching(g)'
  BY DEF Switching
<1>5. QED BY <1>1, <1>2, <1>3, <1>4

\* IOCTL_ENGINE_REQ takes a reference, or starts to enable the engine.
LEMMA PowerReq ==
  ASSUME DmaAssumption, PInv, NEW f \in Files, EngineReq(f)
  PROVE  PInv'
<1> USE DEF PInv
<1>1. CASE refCount = 0 /\ ~clk
  <2>1. /\ sem = None /\ Awake
        /\ sem' = f /\ call' = [call EXCEPT ![f] = "enable"] /\ reset' = FALSE
        /\ refs' = refs /\ refCount' = 1
        /\ UNCHANGED <<opened, pm, memVars, clk, job>>
    BY <1>1 DEF EngineReq, MayCall
  <2>2. call' \in [Files -> CallPc]
    BY <2>1, CallMoves DEF TypeOK
  <2>3. TypeOK'
    BY <2>1, <2>2 DEF TypeOK, memVars
  <2>4. \A g \in Files : call'[g] = IF g = f THEN "enable" ELSE call[g]
    BY <2>1 DEF TypeOK
  <2>5. PowerInv'
    <3>1. SemHeld'
      BY <2>1, <2>4 DEF PowerInv, SemHeld, DmaAssumption
    <3>2. EnginePowered'
      BY <2>1 DEF DmaAssumption, EnginePowered
    <3>3. ASSUME NEW g \in Files PROVE Switching(g)'
      <4>1. call[g] \notin {"disable", "unmap", "enable"}
        BY <2>1 DEF DmaAssumption, PowerInv, SemHeld
      <4>2. QED BY <1>1, <2>1, <2>4, <4>1 DEF Switching
    <3>4. QED BY <1>1, <2>1, <3>1, <3>2, <3>3 DEF PowerInv, Awake
  <2>6. QED BY <2>3, <2>5
<1>2. CASE ~(refCount = 0 /\ ~clk)
  <2>1. /\ sem = None /\ Awake
        /\ UNCHANGED <<sem, call, reset>>
        /\ refs' = [refs EXCEPT ![f] = @ + 1] /\ refCount' = refCount + 1
        /\ UNCHANGED <<opened, pm, memVars, clk, job>>
    BY <1>2 DEF EngineReq, MayCall
  <2>2. refs' \in [Files -> Nat] /\ refCount' \in Nat
    BY <2>1 DEF TypeOK
  <2>3. TypeOK'
    BY <2>1, <2>2 DEF TypeOK, memVars
  <2>4. \A g \in Files : call[g] \notin {"enable", "disable", "unmap"}
    BY <2>1 DEF DmaAssumption, PowerInv, SemHeld
  <2>5. EnginePowered'
    <3>1. refCount \in Nat
      BY DEF TypeOK
    <3>2. ASSUME pm = "on" PROVE clk /\ refCount # 0
      BY <1>2, <2>1, <3>2 , <3>1 DEF PowerInv, EnginePowered
    <3>3. QED BY <2>1, <3>1, <3>2 DEF EnginePowered
  <2>6. PowerInv'
    BY <2>1, <2>4, <2>5 DEF PowerInv, SemHeld, Switching
  <2>7. QED BY <2>3, <2>6
<1>3. QED BY <1>1, <1>2

\* What holding the semaphore means for the others.
LEMMA OnlyHolder ==
  ASSUME DmaAssumption, PInv, NEW f \in Files,
         call[f] \in {"enable", "disable", "unmap"}
  PROVE  /\ sem = f
         /\ \A g \in Files \ {f} : call[g] \notin {"enable", "disable", "unmap"}
  BY DEF PInv, PowerInv, SemHeld

\* A call that ends gives the semaphore back, and the engine is as the count says.
LEMMA PowerSettled ==
  ASSUME DmaAssumption, PInv, NEW f \in Files,
         call[f] \in {"enable", "disable", "unmap"}, Awake, Awake',
         call' = [call EXCEPT ![f] = "idle"], sem' = None,
         EnginePowered', pm' # "on" => ~clk'
  PROVE  PowerInv'
<1>1. \A g \in Files : call'[g] \notin {"enable", "disable", "unmap"}
  BY OnlyHolder DEF PInv, TypeOK
<1>2. QED BY <1>1 DEF PowerInv, SemHeld, Switching, Awake, DmaAssumption

\* The first reference: the clock runs and the reset line is released.
LEMMA PowerEnableDone ==
  ASSUME DmaAssumption, PInv, NEW f \in Files, EnableDone(f)
  PROVE  PInv'
<1> USE DEF PInv
<1>1. /\ Awake /\ call[f] = "enable" /\ clk' = TRUE /\ list' = {}
      /\ refs' = [refs EXCEPT ![f] = @ + 1] /\ sem' = None
      /\ call' = [call EXCEPT ![f] = "idle"] /\ pm' = "on"
      /\ UNCHANGED <<opened, refCount, coh, mapped, lock, freeing, reset, job>>
  BY DEF EnableDone
<1>2. refs' \in [Files -> Nat]
  BY <1>1 DEF TypeOK
<1>3. call' \in [Files -> CallPc]
  BY <1>1, CallMoves DEF TypeOK
<1>4. TypeOK'
  BY <1>1, <1>2, <1>3 DEF TypeOK
<1>5. refCount' = 1
  BY <1>1 DEF PowerInv, Switching
<1>6. EnginePowered' /\ Awake'
  BY <1>1, <1>5 DEF EnginePowered, Awake
<1>7. PowerInv'
  BY <1>1, <1>6, PowerSettled
<1>8. QED BY <1>4, <1>7

\* An enable that fails gives its reference back.
LEMMA PowerEnableFail ==
  ASSUME DmaAssumption, PInv, NEW f \in Files, EnableFail(f)
  PROVE  PInv'
<1> USE DEF PInv
<1>1. /\ Awake /\ call[f] = "enable" /\ reset' = TRUE /\ job' = NoJobs
      /\ refCount' = refCount - 1 /\ sem' = None
      /\ call' = [call EXCEPT ![f] = "idle"]
      /\ UNCHANGED <<opened, refs, pm, memVars, clk>>
  BY DEF EnableFail, Quiesce
<1>2. refCount' = 0 /\ ~clk
  BY <1>1 DEF PowerInv, Switching
<1>3. call' \in [Files -> CallPc]
  BY <1>1, CallMoves DEF TypeOK
<1>4. TypeOK'
  BY <1>1, <1>2, <1>3 DEF TypeOK, memVars, NoJobs
<1>5. EnginePowered' /\ Awake'
  BY <1>1, <1>2 DEF EnginePowered, Awake
<1>6. PowerInv'
  BY <1>1, <1>2, <1>5, PowerSettled
<1>7. QED BY <1>4, <1>6

\* IOCTL_ENGINE_REL drops a reference, or starts to disable the engine.
LEMMA PowerRel ==
  ASSUME DmaAssumption, PInv, NEW f \in Files, EngineRel(f)
  PROVE  PInv'
<1> USE DEF PInv
<1>1. /\ Awake /\ sem = None /\ refs[f] > 0 /\ refCount > 0
      /\ refs' = [refs EXCEPT ![f] = @ - 1] /\ refCount' = refCount - 1
      /\ UNCHANGED <<opened, pm, memVars, hwVars>>
  BY DEF EngineRel, MayCall
<1>2. refs' \in [Files -> Nat] /\ refCount \in Nat /\ refCount' \in Nat
  BY <1>1 DEF TypeOK
<1>3. \A g \in Files : call[g] \notin {"enable", "disable", "unmap"}
  BY <1>1 DEF DmaAssumption, PowerInv, SemHeld
<1>4. CASE refCount = 1
  <2>1. sem' = f /\ call' = [call EXCEPT ![f] = "disable"]
    BY <1>4 DEF EngineRel
  <2>2. call' \in [Files -> CallPc]
    BY <2>1, CallMoves DEF TypeOK
  <2>3. TypeOK'
    BY <1>1, <1>2, <2>1, <2>2 DEF TypeOK, memVars, hwVars
  <2>4. \A g \in Files : call'[g] = IF g = f THEN "disable" ELSE call[g]
    BY <2>1 DEF TypeOK
  <2>5. SemHeld'
    BY <1>3, <2>1, <2>4 DEF SemHeld
  <2>6. EnginePowered'
    BY <2>1 DEF EnginePowered, DmaAssumption
  <2>7. \A g \in Files : Switching(g)'
    BY <1>1, <1>3, <1>4, <2>4 DEF Switching, hwVars, PowerInv, EnginePowered
  <2>8. PowerInv'
    BY <1>1, <2>5, <2>6, <2>7 DEF PowerInv, hwVars, Awake
  <2>9. QED BY <2>3, <2>8
<1>5. CASE refCount # 1
  <2>1. UNCHANGED <<sem, call>>
    BY <1>5 DEF EngineRel
  <2>2. TypeOK'
    BY <1>1, <1>2, <2>1 DEF TypeOK, memVars, hwVars
  <2>3. EnginePowered'
    BY <1>1, <1>2, <1>5, <2>1 DEF EnginePowered, PowerInv, hwVars
  <2>4. PowerInv'
    BY <1>1, <1>3, <2>1, <2>3 DEF PowerInv, SemHeld, Switching, hwVars
  <2>5. QED BY <2>2, <2>4
<1>6. QED BY <1>4, <1>5

\* The last reference: the engine stops.
LEMMA PowerDisable ==
  ASSUME DmaAssumption, PInv, NEW f \in Files, Disable(f)
  PROVE  PInv'
<1> USE DEF PInv
<1>1. /\ Awake /\ call[f] = "disable"
      /\ UNCHANGED <<opened, refs, refCount, pm, memVars>>
  BY DEF Disable
<1>2. refCount = 0 /\ sem = f
  BY <1>1, OnlyHolder DEF PowerInv, Switching
<1>3. CASE clk
  <2>1. /\ clk' = FALSE /\ reset' = TRUE /\ job' = NoJobs
        /\ call' = [call EXCEPT ![f] = "unmap"] /\ sem' = sem
    BY <1>3 DEF Disable, Quiesce
  <2>2. call' \in [Files -> CallPc]
    BY <2>1, CallMoves DEF TypeOK
  <2>3. TypeOK'
    BY <1>1, <2>1, <2>2 DEF TypeOK, memVars, NoJobs
  <2>4. \A g \in Files : /\ call'[g] = IF g = f THEN "unmap" ELSE call[g]
                         /\ g # f => call[g] \notin {"enable", "disable", "unmap"}
    BY <1>1, <2>1, OnlyHolder DEF TypeOK
  <2>5. SemHeld'
    BY <1>2, <2>1, <2>4 DEF SemHeld
  <2>6. EnginePowered'
    BY <1>2, <2>1 DEF EnginePowered, DmaAssumption
  <2>7. \A g \in Files : Switching(g)'
    BY <1>1, <1>2, <2>1, <2>4 DEF Switching
  <2>8. PowerInv'
    BY <1>1, <2>1, <2>5, <2>6, <2>7 DEF PowerInv, Awake
  <2>9. QED BY <2>3, <2>8
<1>4. CASE ~clk
  <2>1. /\ call' = [call EXCEPT ![f] = "idle"] /\ sem' = None
        /\ UNCHANGED hwVars
    BY <1>4 DEF Disable
  <2>2. call' \in [Files -> CallPc]
    BY <2>1, CallMoves DEF TypeOK
  <2>3. TypeOK'
    BY <1>1, <2>1, <2>2 DEF TypeOK, memVars, hwVars
  <2>4. EnginePowered' /\ Awake'
    BY <1>1, <1>2, <1>4, <2>1 DEF EnginePowered, hwVars, Awake
  <2>5. PowerInv'
    BY <1>1, <1>4, <2>1, <2>4, PowerSettled DEF hwVars
  <2>6. QED BY <2>3, <2>5
<1>5. QED BY <1>3, <1>4

\* Unmapping takes away attachments and never adds any.
LEMMA UnmapAllTyped ==
  ASSUME TypeOK, NEW p, UnmapAll(p)
  PROVE  mapped' \subseteq Dbufs \X Procs /\ list' \subseteq mapped'
  BY DEF TypeOK, UnmapAll

\* What is left mapped is unmapped after that.
LEMMA PowerDisableUnmap ==
  ASSUME DmaAssumption, PInv, NEW f \in Files, DisableUnmap(f)
  PROVE  PInv'
<1> USE DEF PInv
<1>1. /\ Awake /\ call[f] = "unmap" /\ UnmapAll(ProcOf[f])
      /\ call' = [call EXCEPT ![f] = "idle"] /\ sem' = None
      /\ UNCHANGED <<opened, refs, refCount, pm, coh, lock, freeing, hwVars>>
  BY DEF DisableUnmap
<1>2. refCount = 0 /\ ~clk
  BY <1>1 DEF PowerInv, Switching
<1>3. call' \in [Files -> CallPc]
  BY <1>1, CallMoves DEF TypeOK
<1>4. TypeOK'
  BY <1>1, <1>3, UnmapAllTyped DEF TypeOK, hwVars
<1>5. EnginePowered' /\ Awake'
  BY <1>1, <1>2 DEF EnginePowered, hwVars, Awake
<1>6. PowerInv'
  BY <1>1, <1>2, <1>5, PowerSettled DEF hwVars
<1>7. QED BY <1>4, <1>6

\* A call that begins or goes on outside the semaphore.
LEMMA PowerCallMoves ==
  ASSUME PInv, NEW f \in Files, NEW x \in {"idle", "free", "give_back", "drop_refs"},
         UNCHANGED <<sem, refCount, clk, pm>>, Awake,
         call[f] \notin {"enable", "disable", "unmap"},
         call' = [call EXCEPT ![f] = x]
  PROVE  PowerInv' /\ call' \in [Files -> CallPc]
<1>1. call' \in [Files -> CallPc]
  BY CallMoves DEF PInv, TypeOK
<1>2. \A g \in Files : \/ call'[g] = call[g]
                       \/ /\ call[g] \notin {"enable", "disable", "unmap"}
                          /\ call'[g] \notin {"enable", "disable", "unmap"}
  BY DEF PInv, TypeOK
<1>3. PowerInv /\ sem \in Files \cup {None}
  BY DEF PInv, TypeOK
<1>4. QED BY <1>1, <1>2, <1>3, PowerUntouched

\* A step that leaves references, clock and calls alone keeps the power.
LEMMA PowerNoMove ==
  ASSUME PInv, UNCHANGED <<sem, refCount, clk, pm, call>>
  PROVE  PowerInv'
  BY PowerUntouched DEF PInv, TypeOK

\* Allocating, mapping and locking leave the power alone.
LEMMA PowerMemory ==
  ASSUME DmaAssumption, PInv, NEW f \in Files,
         MemoryStep(f) \/ GetLock(f) \/ ReleaseLock(f)
  PROVE  PInv'
<1> USE DEF PInv
<1>1. ASSUME NEW b \in Bufs, Alloc(f, b) PROVE PInv'
  <2>1. /\ coh' = [coh EXCEPT ![f] = @ \cup {b}]
        /\ UNCHANGED <<refVars, call, pm, mapped, list, lock, freeing, hwVars>>
    BY <1>1 DEF Alloc
  <2>2. coh' \in [Files -> SUBSET Bufs]
    BY <2>1 DEF TypeOK
  <2>3. TypeOK'
    BY <2>1, <2>2 DEF TypeOK, refVars, hwVars
  <2>4. PowerInv'
    BY <2>1, PowerNoMove DEF refVars, hwVars
  <2>5. QED BY <2>3, <2>4
<1>2. ASSUME NEW b \in Bufs, FreeBegin(f, b) PROVE PInv'
  <2>1. /\ MayCall(f) /\ ((reset' = TRUE /\ job' = NoJobs) \/ UNCHANGED <<reset, job>>)
        /\ call' = [call EXCEPT ![f] = "free"]
        /\ freeing' = [freeing EXCEPT ![f] = b]
        /\ UNCHANGED <<refVars, pm, coh, mapped, list, lock, clk>>
    BY <1>2 DEF FreeBegin, Quiesce
  <2>2. Awake /\ call[f] = "idle"
    BY <2>1 DEF MayCall, FilesOf
  <2>3. PowerInv' /\ call' \in [Files -> CallPc]
    BY <2>1, <2>2, PowerCallMoves DEF refVars
  <2>4. /\ freeing' \in [Files -> Bufs \cup {None}]
        /\ reset' \in BOOLEAN /\ job' \in [Files -> Bufs \cup Dbufs \cup {None}]
    BY <2>1 DEF TypeOK, NoJobs
  <2>5. TypeOK'
    BY <2>1, <2>3, <2>4 DEF TypeOK, refVars
  <2>6. QED BY <2>3, <2>5
<1>3. CASE FreeEnd(f)
  <2>1. /\ Awake /\ call[f] = "free"
        /\ coh' = [coh EXCEPT ![f] = @ \ {freeing[f]}]
        /\ freeing' = [freeing EXCEPT ![f] = None]
        /\ reset' = FALSE \/ reset' = reset
        /\ call' = [call EXCEPT ![f] = "idle"]
        /\ UNCHANGED <<refVars, pm, mapped, list, lock, clk, job>>
    BY <1>3 DEF FreeEnd
  <2>2. PowerInv' /\ call' \in [Files -> CallPc]
    BY <2>1, PowerCallMoves DEF refVars
  <2>3. /\ coh' \in [Files -> SUBSET Bufs]
        /\ freeing' \in [Files -> Bufs \cup {None}]
    BY <2>1 DEF TypeOK
  <2>4. TypeOK'
    BY <2>1, <2>2, <2>3 DEF TypeOK, refVars
  <2>5. QED BY <2>2, <2>4
<1>4. ASSUME NEW d \in Dbufs, Map(f, d) PROVE PInv'
  <2>1. /\ mapped' = mapped \cup {<<d, ProcOf[f]>>}
        /\ list' = list \cup {<<d, ProcOf[f]>>}
        /\ UNCHANGED <<refVars, call, pm, coh, lock, freeing, hwVars>>
    BY <1>4 DEF Map
  <2>2. mapped' \subseteq Dbufs \X Procs /\ list' \subseteq mapped'
    BY <2>1 DEF TypeOK, DmaAssumption
  <2>3. TypeOK'
    BY <2>1, <2>2 DEF TypeOK, refVars, hwVars
  <2>4. PowerInv'
    BY <2>1, PowerNoMove DEF refVars, hwVars
  <2>5. QED BY <2>3, <2>4
<1>5. ASSUME NEW d \in Dbufs, Unmap(f, d) PROVE PInv'
  <2>1. /\ mapped' = mapped \ {<<d, ProcOf[f]>>}
        /\ list' = list \ {<<d, ProcOf[f]>>}
        /\ UNCHANGED <<refVars, call, pm, coh, lock, freeing, hwVars>>
    BY <1>5 DEF Unmap
  <2>2. mapped' \subseteq Dbufs \X Procs /\ list' \subseteq mapped'
    BY <2>1 DEF TypeOK
  <2>3. TypeOK'
    BY <2>1, <2>2 DEF TypeOK, refVars, hwVars
  <2>4. PowerInv'
    BY <2>1, PowerNoMove DEF refVars, hwVars
  <2>5. QED BY <2>3, <2>4
<1>6. CASE GetLock(f) \/ ReleaseLock(f)
  <2>1. /\ lock' \in {f, None}
        /\ UNCHANGED <<refVars, call, pm, coh, mapped, list, freeing, hwVars>>
    BY <1>6 DEF GetLock, ReleaseLock
  <2>2. TypeOK'
    BY <2>1 DEF TypeOK, refVars, hwVars
  <2>3. PowerInv'
    BY <2>1, PowerNoMove DEF refVars, hwVars
  <2>4. QED BY <2>2, <2>3
<1>7. QED BY <1>1, <1>2, <1>3, <1>4, <1>5, <1>6 DEF MemoryStep

\* So do jobs, a reset and open.
LEMMA PowerJob ==
  ASSUME DmaAssumption, PInv, NEW f \in Files, JobStep(f) \/ ResetVe(f) \/ Open(f)
  PROVE  PInv'
<1> USE DEF PInv
<1>1. CASE JobStep(f)
  <2>1. PICK m \in Bufs \cup Dbufs \cup {None} :
          /\ job' = [job EXCEPT ![f] = m]
          /\ UNCHANGED <<refVars, call, pm, memVars, clk, reset>>
    BY <1>1 DEF JobStep, JobDone, Submit
  <2>2. job' \in [Files -> Bufs \cup Dbufs \cup {None}]
    BY <2>1 DEF TypeOK
  <2>3. TypeOK'
    BY <2>1, <2>2 DEF TypeOK, refVars, memVars
  <2>4. PowerInv'
    BY <2>1, PowerNoMove DEF refVars
  <2>5. QED BY <2>3, <2>4
<1>2. CASE ResetVe(f)
  <2>1. /\ reset' = FALSE /\ job' = NoJobs
        /\ UNCHANGED <<refVars, call, pm, memVars, clk>>
    BY <1>2 DEF ResetVe
  <2>2. TypeOK'
    BY <2>1 DEF TypeOK, refVars, memVars, NoJobs
  <2>3. PowerInv'
    BY <2>1, PowerNoMove DEF refVars
  <2>4. QED BY <2>2, <2>3
<1>3. CASE Open(f)
  <2>1. /\ opened' = opened \cup {f}
        /\ UNCHANGED <<refs, refCount, sem, call, pm, memVars, hwVars>>
    BY <1>3 DEF Open
  <2>2. TypeOK'
    BY <2>1 DEF TypeOK, memVars, hwVars
  <2>3. PowerInv'
    BY <2>1, PowerNoMove DEF hwVars
  <2>4. QED BY <2>2, <2>3
<1>4. QED BY <1>1, <1>2, <1>3

\* The release of a file gives back what the file held.
LEMMA PowerRelease ==
  ASSUME DmaAssumption, PInv, NEW f \in Files, ReleaseStep(f)
  PROVE  PInv'
<1> USE DEF PInv
<1>1. CASE ReleaseBegin(f)
  <2>1. /\ MayCall(f) /\ ((reset' = TRUE /\ job' = NoJobs) \/ UNCHANGED <<reset, job>>)
        /\ call' = [call EXCEPT ![f] = "give_back"]
        /\ UNCHANGED <<refVars, pm, memVars, clk>>
    BY <1>1 DEF ReleaseBegin, Quiesce
  <2>2. Awake /\ call[f] = "idle"
    BY <2>1 DEF MayCall, FilesOf
  <2>3. PowerInv' /\ call' \in [Files -> CallPc]
    BY <2>1, <2>2, PowerCallMoves DEF refVars
  <2>4. reset' \in BOOLEAN /\ job' \in [Files -> Bufs \cup Dbufs \cup {None}]
    BY <2>1 DEF TypeOK, NoJobs
  <2>5. TypeOK'
    BY <2>1, <2>3, <2>4 DEF TypeOK, refVars, memVars
  <2>6. QED BY <2>3, <2>5
<1>2. CASE ReleaseGiveBack(f)
  <2>1. /\ Awake /\ call[f] = "give_back" /\ UnmapAll(ProcOf[f])
        /\ lock' \in {lock, None}
        /\ coh' = [coh EXCEPT ![f] = {}]
        /\ call' = [call EXCEPT ![f] = "drop_refs"]
        /\ UNCHANGED <<refVars, pm, freeing, hwVars>>
    BY <1>2 DEF ReleaseGiveBack
  <2>2. PowerInv' /\ call' \in [Files -> CallPc]
    BY <2>1, PowerCallMoves DEF refVars, hwVars
  <2>3. coh' \in [Files -> SUBSET Bufs]
    BY <2>1 DEF TypeOK
  <2>4. TypeOK'
    BY <2>1, <2>2, <2>3, UnmapAllTyped DEF TypeOK, refVars, hwVars
  <2>5. QED BY <2>2, <2>4
<1>3. CASE ReleaseRefs(f)
  <2>1. /\ Awake /\ call[f] = "drop_refs" /\ sem = None
        /\ opened' = opened \ {f} /\ refs' = [refs EXCEPT ![f] = 0]
        /\ refCount' = IF refs[f] > refCount THEN 0 ELSE refCount - refs[f]
        /\ call' = [call EXCEPT ![f] = "idle"]
        /\ UNCHANGED <<sem, pm, coh, lock, freeing>>
    BY <1>3 DEF ReleaseRefs
  <2>2. /\ refs[f] \in Nat /\ refCount \in Nat /\ refCount' \in Nat
        /\ refs' \in [Files -> Nat]
    BY <2>1 DEF TypeOK
  <2>3. call' \in [Files -> CallPc]
    BY <2>1, CallMoves DEF TypeOK
  <2>4. \A g \in Files : call'[g] \notin {"enable", "disable", "unmap"}
    BY <2>1 DEF DmaAssumption, PowerInv, SemHeld, TypeOK
  <2>5. /\ reset' \in BOOLEAN /\ clk' \in BOOLEAN
        /\ job' \in [Files -> Bufs \cup Dbufs \cup {None}]
        /\ mapped' \subseteq Dbufs \X Procs /\ list' \subseteq mapped'
        /\ pm = "on" => (clk' <=> refCount' > 0)
        /\ clk' => clk
    <3>1. CASE /\ refs[f] > 0 /\ refCount' = 0 /\ clk
               /\ clk' = FALSE /\ Quiesce
               /\ UnmapAll(ProcOf[f])
      <4>1. /\ clk' = FALSE /\ clk = TRUE /\ reset' = TRUE /\ job' = NoJobs
            /\ UnmapAll(ProcOf[f]) /\ ~(refCount' > 0)
        BY <3>1 DEF Quiesce, TypeOK
      <4>2. mapped' \subseteq Dbufs \X Procs /\ list' \subseteq mapped'
        BY <4>1, UnmapAllTyped
      <4>3. job' \in [Files -> Bufs \cup Dbufs \cup {None}]
        BY <4>1 DEF NoJobs
      <4>4. QED BY <4>1, <4>2, <4>3
    <3>2. CASE /\ refs[f] > 0 /\ refCount' > 0
               /\ reset' = FALSE
               /\ UNCHANGED <<clk, job, mapped, list>>
      <4>1. refCount > 0
        BY <2>1, <2>2, <3>2
      <4>2. pm = "on" => clk
        BY <2>1, <4>1 DEF PowerInv, EnginePowered
      <4>3. clk \in BOOLEAN /\ job \in [Files -> Bufs \cup Dbufs \cup {None}]
            /\ mapped \subseteq Dbufs \X Procs /\ list \subseteq mapped
        BY DEF TypeOK
      <4>4. reset' \in BOOLEAN /\ clk' = clk /\ job' = job
            /\ mapped' = mapped /\ list' = list /\ refCount' > 0
        BY <3>2
      <4>5. QED BY <4>2, <4>3, <4>4
    <3>3. CASE /\ refs[f] = 0 \/ (refCount' = 0 /\ ~clk)
               /\ UNCHANGED <<hwVars, mapped, list>>
      <4>1. pm = "on" => (clk <=> refCount' > 0)
        <5>1. pm = "on" => (clk <=> refCount > 0)
          BY <2>1 DEF PowerInv, EnginePowered
        <5>2. CASE refs[f] = 0
          BY <2>1, <2>2, <5>1, <5>2
        <5>3. CASE refCount' = 0 /\ ~clk
          BY <5>3
        <5>4. QED BY <3>3, <5>2, <5>3
      <4>2. /\ clk \in BOOLEAN /\ reset \in BOOLEAN
            /\ job \in [Files -> Bufs \cup Dbufs \cup {None}]
            /\ mapped \subseteq Dbufs \X Procs /\ list \subseteq mapped
        BY DEF TypeOK
      <4>3. QED BY <3>3, <4>1, <4>2 DEF hwVars
    <3>4. QED BY <1>3, <3>1, <3>2, <3>3 DEF ReleaseRefs
  <2>6. TypeOK'
    BY <2>1, <2>2, <2>3, <2>5 DEF TypeOK
  <2>7. PowerInv'
    BY <2>1, <2>4, <2>5 DEF PowerInv, SemHeld, EnginePowered, Switching, Awake,
       DmaAssumption
  <2>8. QED BY <2>6, <2>7
<1>4. QED BY <1>1, <1>2, <1>3 DEF ReleaseStep

\* Suspend stops an engine in use, resume starts it again.
LEMMA PowerSleep ==
  ASSUME DmaAssumption, PInv, Suspend \/ Resume \/ ResumeFail
  PROVE  PInv'
<1> USE DEF PInv
<1>1. CASE Suspend
  <2>1. /\ \A f \in Files : call[f] = "idle"
        /\ pm' = "suspended" /\ ~clk'
        /\ \/ reset' = TRUE /\ job' = NoJobs
           \/ UNCHANGED <<reset, job>>
        /\ clk' = FALSE \/ clk' = clk
        /\ UNCHANGED <<refVars, call, memVars>>
    BY <1>1 DEF Suspend, Quiesce, hwVars
  <2>2. /\ reset' \in BOOLEAN /\ job' \in [Files -> Bufs \cup Dbufs \cup {None}]
        /\ clk' \in BOOLEAN
    BY <2>1 DEF TypeOK, NoJobs
  <2>3. TypeOK'
    BY <2>1, <2>2 DEF TypeOK, refVars, memVars
  <2>4. PowerInv'
    BY <2>1 DEF PowerInv, SemHeld, EnginePowered, Switching, refVars
  <2>5. QED BY <2>3, <2>4
<1>2. CASE Resume \/ ResumeFail
  <2>1. /\ pm = "suspended" /\ pm' \in {"on", "lost"}
        /\ \/ pm' = "on" /\ refCount = 0 /\ UNCHANGED <<clk, reset, list>>
           \/ /\ pm' = "on" /\ refCount # 0
              /\ clk' = TRUE /\ reset' = FALSE /\ list' = {}
           \/ pm' = "lost" /\ UNCHANGED <<clk, reset, list>>
        /\ UNCHANGED <<refVars, call, coh, mapped, lock, freeing, job>>
    BY <1>2 DEF Resume, ResumeFail, memVars, hwVars
  <2>2. ~clk /\ \A f \in Files : call[f] = "idle"
    BY <2>1 DEF PowerInv
  <2>3. /\ clk' \in BOOLEAN /\ reset' \in BOOLEAN /\ list' \subseteq mapped'
    BY <2>1 DEF TypeOK
  <2>4. TypeOK'
    BY <2>1, <2>3 DEF TypeOK, refVars
  <2>5. refCount \in Nat /\ refCount' = refCount
    BY <2>1 DEF TypeOK, refVars
  <2>6. EnginePowered'
    BY <2>1, <2>2, <2>5 DEF EnginePowered
  <2>7. sem' = sem /\ (pm' # "on" => ~clk')
    BY <2>1, <2>2 DEF refVars
  <2>8. PowerInv'
    BY <2>1, <2>2, <2>6, <2>7 DEF PowerInv, SemHeld, Switching
  <2>9. QED BY <2>4, <2>8
<1>3. QED BY <1>1, <1>2

\* Typing, the semaphore and the engine's power in every reachable state.
THEOREM PowerInductive == Spec => []PInv
<1> USE DmaAssumption
<1>1. Init => PInv
  BY PowerInit
<1>2. ASSUME PInv, [Next]_vars PROVE PInv'
  <2>1. ASSUME NEW f \in Files, EngineStep(f) PROVE PInv'
    BY <1>2, <2>1, PowerReq, PowerEnableDone, PowerEnableFail, PowerRel,
       PowerDisable, PowerDisableUnmap, PowerJob DEF EngineStep
  <2>2. CASE UNCHANGED vars
    <3>1. TypeOK'
      BY <1>2, <2>2 DEF vars, PInv, TypeOK
    <3>2. PowerInv'
      BY <1>2, <2>2, PowerNoMove DEF vars
    <3>3. QED BY <3>1, <3>2 DEF PInv
  <2>3. QED BY <1>2, <2>1, <2>2, PowerMemory, PowerJob, PowerRelease, PowerSleep
            DEF Next
<1>3. QED BY <1>1, <1>2, PTL DEF Spec

\* Every variable keeps its type: in particular the reference count of the device
\* never becomes negative, whichever enable fails or file is closed.
THEOREM TypeCorrect == Spec => []TypeOK
<1>1. PInv => TypeOK
  BY DEF PInv
<1>2. QED BY <1>1, PowerInductive, PTL

\* The clocks run exactly while references are held, whatever calls, failures,
\* closes and suspends come together.
THEOREM PowerFollowsReferences == Spec => []EnginePowered
<1>1. PInv => EnginePowered
  BY DEF PInv, PowerInv
<1>2. QED BY <1>1, PowerInductive, PTL

(***************************************************************************)
(* DMA and memory, for clients that use one file each and wait for their   *)
(* jobs.                                                                    *)
(***************************************************************************)

\* With one file per process the calls and the memory of a process are a file's.
LEMMA OneFile ==
  ASSUME OneFilePerProcess, NEW f \in Files
  PROVE  /\ FilesOf(ProcOf[f]) = {f}
         /\ \A g \in Files : g # f => ProcOf[g] # ProcOf[f]
  BY DEF OneFilePerProcess, FilesOf

\* What a step may do to the files whose jobs go on.
Keeps(g) ==
  /\ job'[g] = job[g]
  /\ call'[g] = call[g] \/ call'[g] \in {"idle", "disable"}
  /\ refs[g] > 0 => refs'[g] > 0
  /\ g \in opened => g \in opened'
  /\ clk => clk'
  /\ coh[g] \subseteq coh'[g]
  /\ \A d \in Dbufs : <<d, ProcOf[g]>> \in mapped => <<d, ProcOf[g]>> \in mapped'

\* The invariant of DMA holds if every job ended or kept its memory.
LEMMA DmaKept ==
  ASSUME DmaInv, \A g \in Files : job'[g] = None \/ Keeps(g)
  PROVE  DmaInv'
  BY DEF DmaInv, RunningJob, Keeps

\* Without jobs there is nothing to keep.
LEMMA NoJobsLeft ==
  ASSUME job' = NoJobs
  PROVE  \A g \in Files : job'[g] = None
  BY DEF NoJobs

\* Unmapping all of a process leaves the mappings of the others.
LEMMA UnmapAllOwn ==
  ASSUME OneFilePerProcess, NEW f \in Files, UnmapAll(ProcOf[f]),
         NEW g \in Files \ {f}, NEW d \in Dbufs, <<d, ProcOf[g]>> \in mapped
  PROVE  <<d, ProcOf[g]>> \in mapped'
<1>1. ProcOf[g] # ProcOf[f]
  BY OneFile
<1>2. <<d, ProcOf[g]>> \notin LinkedBy(ProcOf[f])
  BY <1>1 DEF LinkedBy
<1>3. QED BY <1>2 DEF UnmapAll

\* References come and go only around jobs of the same process.
LEMMA DmaEngine ==
  ASSUME DmaAssumption, OneFilePerProcess, Waits, PInv, DmaInv,
         NEW f \in Files, EngineStep(f)
  PROVE  DmaInv'
<1> USE DEF PInv
<1>1. CASE EngineReq(f)
  <2>1. CASE refCount = 0 /\ ~clk
    <3>1. job' = job /\ \A g \in Files : job[g] = None
      BY <1>1, <2>1 DEF EngineReq, DmaInv, RunningJob
    <3>2. QED BY <3>1, DmaKept
  <2>2. CASE ~(refCount = 0 /\ ~clk)
    <3>1. /\ UNCHANGED <<call, opened, clk, job, coh, mapped>>
          /\ refs' = [refs EXCEPT ![f] = @ + 1]
      BY <1>1, <2>2 DEF EngineReq, memVars
    <3>2. \A g \in Files : refs[g] > 0 => refs'[g] > 0
      BY <3>1 DEF TypeOK
    <3>3. QED BY <3>1, <3>2, DmaKept DEF Keeps
  <2>3. QED BY <2>1, <2>2
<1>2. CASE EnableDone(f) \/ EnableFail(f)
  <2>1. call[f] = "enable" /\ (job' = job \/ job' = NoJobs)
    BY <1>2 DEF EnableDone, EnableFail, Quiesce
  <2>2. ~clk
    BY <2>1 DEF PowerInv, Switching
  <2>3. \A g \in Files : job'[g] = None
    BY <2>1, <2>2, NoJobsLeft DEF DmaInv, RunningJob
  <2>4. QED BY <2>3, DmaKept
<1>3. CASE EngineRel(f)
  <2>1. /\ UNCHANGED <<clk, job, opened, coh, mapped>>
        /\ refs[f] > 0 /\ refs' = [refs EXCEPT ![f] = @ - 1]
        /\ refs[f] = 1 => job[f] = None
        /\ call' = call \/ call' = [call EXCEPT ![f] = "disable"]
    BY <1>3 DEF EngineRel, memVars, hwVars
  <2>2. ASSUME NEW g \in Files PROVE job'[g] = None \/ Keeps(g)
    <3>1. call'[g] = call[g] \/ call'[g] = "disable"
      BY <2>1 DEF TypeOK
    <3>2. job[g] # None => (refs[g] > 0 => refs'[g] > 0)
      BY <2>1 DEF TypeOK
    <3>3. QED BY <2>1, <3>1, <3>2 DEF Keeps
  <2>3. QED BY <2>2, DmaKept
<1>4. CASE Disable(f)
  <2>1. CASE clk
    BY <1>4, <2>1, NoJobsLeft, DmaKept DEF Disable, Quiesce
  <2>2. CASE ~clk
    <3>1. job' = job
      BY <1>4, <2>2 DEF Disable, hwVars
    <3>2. QED BY <2>2, <3>1, DmaKept DEF DmaInv, RunningJob
  <2>3. QED BY <2>1, <2>2
<1>5. CASE DisableUnmap(f)
  <2>1. call[f] = "unmap" /\ UNCHANGED hwVars
    BY <1>5 DEF DisableUnmap
  <2>2. ~clk
    BY <2>1 DEF PowerInv, Switching
  <2>3. \A g \in Files : job'[g] = None
    BY <2>1, <2>2 DEF DmaInv, RunningJob, hwVars
  <2>4. QED BY <2>3, DmaKept
<1>6. CASE ResetVe(f)
  BY <1>6, NoJobsLeft, DmaKept DEF ResetVe
<1>7. QED BY <1>1, <1>2, <1>3, <1>4, <1>5, <1>6 DEF EngineStep

\* Memory is given back only without a job of its process.
LEMMA DmaMemory ==
  ASSUME DmaAssumption, OneFilePerProcess, Waits, PInv, DmaInv,
         NEW f \in Files, MemoryStep(f)
  PROVE  DmaInv'
<1> USE DEF PInv
<1>1. ASSUME NEW b \in Bufs, Alloc(f, b) PROVE DmaInv'
  <2>1. /\ UNCHANGED <<call, opened, refs, clk, job, mapped>>
        /\ coh' = [coh EXCEPT ![f] = @ \cup {b}]
    BY <1>1 DEF Alloc, refVars, hwVars
  <2>2. \A g \in Files : coh[g] \subseteq coh'[g]
    BY <2>1 DEF TypeOK
  <2>3. QED BY <2>1, <2>2, DmaKept DEF Keeps
<1>2. ASSUME NEW b \in Bufs, FreeBegin(f, b) PROVE DmaInv'
  <2>1. CASE refs[f] > 0
    BY <1>2, <2>1, NoJobsLeft, DmaKept DEF FreeBegin, Quiesce
  <2>2. CASE ~(refs[f] > 0)
    <3>1. /\ call' = [call EXCEPT ![f] = "free"]
          /\ UNCHANGED <<job, opened, refs, clk, coh, mapped>>
      BY <1>2, <2>2 DEF FreeBegin, refVars
    <3>2. job[f] = None
      BY <2>2 DEF DmaInv, RunningJob
    <3>3. \A g \in Files \ {f} : Keeps(g)
      BY <3>1 DEF Keeps, TypeOK
    <3>4. QED BY <3>1, <3>2, <3>3, DmaKept
  <2>3. QED BY <2>1, <2>2
<1>3. CASE FreeEnd(f)
  <2>1. /\ call[f] = "free" /\ call' = [call EXCEPT ![f] = "idle"]
        /\ coh' = [coh EXCEPT ![f] = @ \ {freeing[f]}]
        /\ UNCHANGED <<job, opened, refs, clk, mapped>>
    BY <1>3 DEF FreeEnd, refVars
  <2>2. job[f] = None
    BY <2>1 DEF DmaInv, RunningJob
  <2>3. \A g \in Files \ {f} : Keeps(g)
    BY <2>1 DEF Keeps, TypeOK
  <2>4. QED BY <2>1, <2>2, <2>3, DmaKept
<1>4. ASSUME NEW d \in Dbufs, Map(f, d) PROVE DmaInv'
  <2>1. /\ UNCHANGED <<call, opened, refs, clk, job, coh>>
        /\ mapped \subseteq mapped'
    BY <1>4 DEF Map, refVars, hwVars
  <2>2. QED BY <2>1, DmaKept DEF Keeps
<1>5. ASSUME NEW d \in Dbufs, Unmap(f, d) PROVE DmaInv'
  <2>1. /\ UNCHANGED <<call, opened, refs, clk, job, coh>>
        /\ mapped' = mapped \ {<<d, ProcOf[f]>>}
        /\ ~OwnJob(f, d)
    BY <1>5 DEF Unmap, refVars, hwVars
  <2>2. job[f] # d
    BY <2>1 DEF OwnJob, FilesOf
  <2>3. ASSUME NEW g \in Files \ {f} PROVE Keeps(g)
    <3>1. ProcOf[g] # ProcOf[f]
      BY OneFile
    <3>2. QED BY <2>1, <3>1 DEF Keeps
  <2>4. RunningJob(f)'
    BY <2>1, <2>2 DEF DmaInv, RunningJob
  <2>5. \A g \in Files \ {f} : RunningJob(g)'
    BY <2>3 DEF DmaInv, RunningJob, Keeps
  <2>6. QED BY <2>4, <2>5 DEF DmaInv
<1>6. QED BY <1>1, <1>2, <1>3, <1>4, <1>5 DEF MemoryStep

\* A release ends the jobs of its process before its memory goes.
LEMMA DmaRelease ==
  ASSUME DmaAssumption, OneFilePerProcess, Waits, PInv, DmaInv,
         NEW f \in Files, ReleaseStep(f)
  PROVE  DmaInv'
<1> USE DEF PInv
<1>1. CASE ReleaseBegin(f)
  <2>1. CASE refs[f] > 0 \/ lock = f \/ coh[f] # {}
    BY <1>1, <2>1, NoJobsLeft, DmaKept DEF ReleaseBegin, Quiesce
  <2>2. CASE ~(refs[f] > 0 \/ lock = f \/ coh[f] # {})
    <3>1. /\ call' = [call EXCEPT ![f] = "give_back"]
          /\ UNCHANGED <<job, opened, refs, clk, coh, mapped>>
      BY <1>1, <2>2 DEF ReleaseBegin, refVars, memVars
    <3>2. job[f] = None
      BY <2>2 DEF DmaInv, RunningJob
    <3>3. \A g \in Files \ {f} : Keeps(g)
      BY <3>1 DEF Keeps, TypeOK
    <3>4. QED BY <3>1, <3>2, <3>3, DmaKept
  <2>3. QED BY <2>1, <2>2
<1>2. CASE ReleaseGiveBack(f)
  <2>1. /\ call[f] = "give_back" /\ call' = [call EXCEPT ![f] = "drop_refs"]
        /\ coh' = [coh EXCEPT ![f] = {}] /\ UnmapAll(ProcOf[f])
        /\ UNCHANGED <<job, opened, refs, clk>>
    BY <1>2 DEF ReleaseGiveBack, refVars, hwVars
  <2>2. job[f] = None
    BY <2>1 DEF DmaInv, RunningJob
  <2>3. ASSUME NEW g \in Files \ {f} PROVE Keeps(g)
    BY <2>1, UnmapAllOwn DEF Keeps, TypeOK
  <2>4. QED BY <2>1, <2>2, <2>3, DmaKept
<1>3. CASE ReleaseRefs(f)
  <2>1. /\ call[f] = "drop_refs" /\ call' = [call EXCEPT ![f] = "idle"]
        /\ opened' = opened \ {f} /\ refs' = [refs EXCEPT ![f] = 0] /\ coh' = coh
        /\ job' = NoJobs \/ UNCHANGED <<job, clk, mapped>>
    BY <1>3 DEF ReleaseRefs, hwVars, Quiesce
  <2>2. job[f] = None
    BY <2>1 DEF DmaInv, RunningJob
  <2>3. ASSUME UNCHANGED <<job, clk, mapped>>, NEW g \in Files \ {f} PROVE Keeps(g)
    BY <2>1, <2>3 DEF Keeps, TypeOK
  <2>4. QED BY <2>1, <2>2, <2>3, NoJobsLeft, DmaKept
<1>4. QED BY <1>1, <1>2, <1>3 DEF ReleaseStep

\* A job starts on memory that is there.
LEMMA DmaJob ==
  ASSUME DmaAssumption, OneFilePerProcess, PInv, DmaInv, NEW f \in Files, JobStep(f)
  PROVE  DmaInv'
<1> USE DEF PInv
<1>1. UNCHANGED <<call, opened, refs, clk, coh, mapped>>
  BY DEF JobStep, JobDone, Submit, refVars, memVars
<1>2. CASE JobDone(f)
  <2>1. job' = [job EXCEPT ![f] = None]
    BY <1>2 DEF JobDone
  <2>2. \A g \in Files : job'[g] = None \/ job'[g] = job[g]
    BY <2>1 DEF TypeOK
  <2>3. QED BY <1>1, <2>2, DmaKept DEF Keeps
<1>3. ASSUME NEW m \in Bufs \cup Dbufs, Submit(f, m) PROVE DmaInv'
  <2>1. /\ MayCall(f) /\ refs[f] > 0 /\ clk /\ m \in MemoryOf(ProcOf[f])
        /\ job' = [job EXCEPT ![f] = m]
    BY <1>3 DEF Submit
  <2>2. f \in opened /\ call[f] = "idle"
    BY <2>1 DEF MayCall, FilesOf
  <2>3. m \in MappedBy(ProcOf[f]) \cup coh[f]
    BY <2>1, OneFile DEF MemoryOf
  <2>4. /\ m \in Bufs => m \in coh[f]
        /\ m \in Dbufs => <<m, ProcOf[f]>> \in mapped
    BY <2>3 DEF DmaAssumption, MappedBy, TypeOK
  <2>5. job'[f] = m /\ \A g \in Files \ {f} : job'[g] = job[g]
    BY <2>1 DEF TypeOK
  <2>6. RunningJob(f)'
    BY <1>1, <2>1, <2>2, <2>4, <2>5 DEF RunningJob
  <2>7. \A g \in Files \ {f} : RunningJob(g)'
    BY <1>1, <2>5 DEF DmaInv, RunningJob
  <2>8. QED BY <2>6, <2>7 DEF DmaInv
<1>4. QED BY <1>2, <1>3 DEF JobStep

\* The other actions touch neither jobs nor memory.
LEMMA DmaOther ==
  ASSUME PInv, DmaInv, NEW f \in Files,
         Open(f) \/ GetLock(f) \/ ReleaseLock(f) \/ Suspend \/ Resume \/ ResumeFail
  PROVE  DmaInv'
<1>1. CASE Open(f) \/ GetLock(f) \/ ReleaseLock(f) \/ Resume \/ ResumeFail
  <2>1. /\ UNCHANGED <<call, refs, job, coh, mapped>>
        /\ opened \subseteq opened' /\ (clk => clk')
    BY <1>1 DEF Open, GetLock, ReleaseLock, Resume, ResumeFail, refVars, memVars,
       hwVars
  <2>2. QED BY <2>1, DmaKept DEF Keeps
<1>2. CASE Suspend
  <2>1. \/ job' = NoJobs
        \/ UNCHANGED <<call, refs, opened, clk, job, coh, mapped>>
    BY <1>2 DEF Suspend, Quiesce, refVars, memVars, hwVars
  <2>2. CASE job' = NoJobs
    BY <2>2, NoJobsLeft, DmaKept
  <2>3. CASE UNCHANGED <<call, refs, opened, clk, job, coh, mapped>>
    BY <2>3, DmaKept DEF Keeps
  <2>4. QED BY <2>1, <2>2, <2>3
<1>3. QED BY <1>1, <1>2

\* Clients that use one file per process and wait for their jobs never have the
\* engine work on memory that was freed or unmapped.
THEOREM DmaInductive == OneFilePerProcess /\ Waits => (Spec => []DmaInv)
<1> SUFFICES ASSUME OneFilePerProcess, Waits PROVE Spec => []DmaInv
  OBVIOUS
<1> USE DmaAssumption
<1>1. Init => DmaInv
  BY DEF Init, DmaInv, RunningJob, NoJobs
<1>2. ASSUME PInv, DmaInv, [Next]_vars PROVE DmaInv'
  <2>1. CASE UNCHANGED vars
    BY <1>2, <2>1 DEF vars, DmaInv, RunningJob
  <2>2. ASSUME Suspend \/ Resume \/ ResumeFail PROVE DmaInv'
    <3>1. CASE Files = {}
      BY <3>1 DEF DmaInv
    <3>2. CASE Files # {}
      BY <1>2, <2>2, <3>2, DmaOther
    <3>3. QED BY <3>1, <3>2
  <2>3. QED BY <1>2, <2>1, <2>2, DmaEngine, DmaMemory, DmaRelease, DmaJob, DmaOther
            DEF Next
<1>3. QED BY <1>1, <1>2, PowerInductive, PTL DEF Spec

\* In particular no job works on a coherent buffer that was given back to the page
\* allocator: the reason for the reset in FREE_COHERENT and in release.
THEOREM DmaSafe ==
  OneFilePerProcess /\ Waits => (Spec => [](DmaOnCoherent /\ DmaOnMapped))
<1>1. DmaInv => DmaOnCoherent /\ DmaOnMapped
  <2>1. ASSUME DmaInv, NEW f \in Files, job[f] \in Bufs \cup Dbufs
        PROVE  /\ job[f] \in Bufs => job[f] \in coh[f]
               /\ job[f] \in Dbufs => <<job[f], ProcOf[f]>> \in mapped
    BY <2>1, DmaAssumption DEF DmaInv, RunningJob, DmaAssumption
  <2>2. QED BY <2>1 DEF DmaOnCoherent, DmaOnMapped, FilesOf
<1>2. QED BY <1>1, DmaInductive, PTL

\* Nor on a dma-buf that was unmapped: the reason for the order in release.
THEOREM MappedSafe ==
  OneFilePerProcess /\ Waits => (Spec => []DmaOnMapped)
<1>1. (DmaOnCoherent /\ DmaOnMapped) => DmaOnMapped
  OBVIOUS
<1>2. QED BY <1>1, DmaSafe, PTL

(***************************************************************************)
(* The reset line, for clients that hold memory and locks only with        *)
(* references.                                                             *)
(***************************************************************************)

\* A call that stopped the engine and will let it go on.
Stops(f) == refs[f] > 0 /\ call[f] \in {"free", "give_back", "drop_refs"}

\* Somebody may count on the engine, or soon will.
InUse == (refCount > 0 /\ pm = "on") \/ \E f \in Files : call[f] = "enable"

\* An engine in use that is in reset is so for one of those calls.
ResetInv == disciplined => Disciplined /\ (reset /\ InUse => \E f \in Files : Stops(f))

\* A step that neither asserts the reset nor puts the engine to use keeps this, if
\* no call that stopped the engine ends.
LEMMA ResetKept ==
  ASSUME reset /\ InUse => \E f \in Files : Stops(f),
         reset' => reset, InUse' => InUse,
         \A f \in Files : Stops(f) => Stops(f)'
  PROVE  reset' /\ InUse' => \E f \in Files : Stops(f)'
  OBVIOUS

\* The same of a step of one file that leaves the count alone.
LEMMA ResetQuiet ==
  ASSUME TypeOK, NEW f \in Files, NEW pc \in CallPc \ {"enable"},
         reset /\ InUse => \E g \in Files : Stops(g),
         UNCHANGED <<refs, refCount, pm>>, reset' => reset,
         call' = [call EXCEPT ![f] = pc],
         Stops(f) => pc \in {"free", "give_back", "drop_refs"}
  PROVE  reset' /\ InUse' => \E g \in Files : Stops(g)'
<1>1. call'[f] = pc /\ \A g \in Files : g # f => call'[g] = call[g]
  BY DEF TypeOK
<1>2. InUse' => InUse
  BY <1>1 DEF InUse
<1>3. \A g \in Files : Stops(g) => Stops(g)'
  BY <1>1 DEF Stops
<1>4. QED BY <1>2, <1>3, ResetKept

\* Without references, and outside the enable, nobody uses the engine.
LEMMA Unused ==
  ASSUME refCount' = 0, \A f \in Files : call'[f] # "enable"
  PROVE  ~InUse'
  BY DEF InUse

\* An engine call that leaves the engine in reset holds it stopped.
LEMMA ResetEngine ==
  ASSUME PInv, NEW f \in Files, EngineStep(f),
         reset /\ InUse => \E g \in Files : Stops(g)
  PROVE  reset' /\ InUse' => \E g \in Files : Stops(g)'
<1>0. TypeOK /\ SemHeld /\ EnginePowered /\ Switching(f) /\ (pm # "on" => ~clk)
  BY DEF PInv, PowerInv
<1>1. CASE EngineReq(f)
  <2>1. CASE refCount = 0 /\ ~clk
    BY <1>1, <2>1 DEF EngineReq
  <2>2. CASE ~(refCount = 0 /\ ~clk)
    <3>1. refCount > 0
      BY <1>0, <1>1, <2>2 DEF EngineReq, EnginePowered, TypeOK
    <3>2. /\ UNCHANGED <<call, reset, pm>>
          /\ refs' = [refs EXCEPT ![f] = @ + 1]
      BY <1>1, <2>2 DEF EngineReq
    <3>3. InUse' => InUse
      BY <3>1, <3>2 DEF InUse
    <3>4. \A g \in Files : Stops(g) => Stops(g)'
      BY <1>0, <3>2 DEF Stops, TypeOK
    <3>5. QED BY <3>2, <3>3, <3>4, ResetKept
  <2>3. QED BY <2>1, <2>2
<1>2. CASE EnableDone(f)
  <2>1. /\ call[f] = "enable" /\ call' = [call EXCEPT ![f] = "idle"]
        /\ refs' = [refs EXCEPT ![f] = @ + 1] /\ reset' = reset
    BY <1>2 DEF EnableDone
  <2>2. InUse
    BY <2>1 DEF InUse
  <2>3. \A g \in Files : Stops(g) => Stops(g)'
    BY <1>0, <2>1 DEF Stops, TypeOK
  <2>4. QED BY <2>1, <2>2, <2>3, ResetKept
<1>3. CASE EnableFail(f)
  <2>1. /\ call[f] = "enable" /\ call' = [call EXCEPT ![f] = "idle"]
        /\ refCount' = refCount - 1
    BY <1>3 DEF EnableFail
  <2>2. refCount' = 0
    BY <1>0, <2>1 DEF Switching
  <2>3. \A g \in Files : call'[g] # "enable"
    BY <1>0, <2>1 DEF SemHeld, TypeOK
  <2>4. QED BY <2>2, <2>3, Unused
<1>4. CASE EngineRel(f)
  <2>1. /\ call[f] = "idle" /\ sem = None /\ refCount > 0
        /\ refs' = [refs EXCEPT ![f] = @ - 1] /\ refCount' = refCount - 1
        /\ call' = call \/ call' = [call EXCEPT ![f] = "disable"]
        /\ UNCHANGED <<reset, pm>>
    BY <1>4 DEF EngineRel, MayCall, FilesOf, hwVars
  <2>2. InUse' => InUse
    BY <1>0, <2>1 DEF InUse, TypeOK
  <2>3. \A g \in Files : Stops(g) => Stops(g)'
    BY <1>0, <2>1 DEF Stops, TypeOK
  <2>4. QED BY <2>1, <2>2, <2>3, ResetKept
<1>5. CASE Disable(f)
  <2>1. /\ call[f] = "disable" /\ refCount' = refCount
        /\ call' = [call EXCEPT ![f] = "unmap"] \/ call' = [call EXCEPT ![f] = "idle"]
    BY <1>5 DEF Disable
  <2>2. refCount' = 0
    BY <1>0, <2>1 DEF Switching
  <2>3. \A g \in Files : call'[g] # "enable"
    BY <1>0, <2>1 DEF SemHeld, TypeOK
  <2>4. QED BY <2>2, <2>3, Unused
<1>6. CASE DisableUnmap(f)
  <2>1. /\ call[f] = "unmap" /\ call' = [call EXCEPT ![f] = "idle"]
        /\ UNCHANGED <<refs, refCount, pm, reset>>
    BY <1>6 DEF DisableUnmap, hwVars
  <2>2. "idle" \in CallPc \ {"enable"}
    BY DEF CallPc
  <2>3. QED BY <1>0, <2>1, <2>2, ResetQuiet DEF Stops
<1>7. CASE ResetVe(f)
  BY <1>7 DEF ResetVe
<1>8. QED BY <1>1, <1>2, <1>3, <1>4, <1>5, <1>6, <1>7 DEF EngineStep

\* Mapping leaves the reset line alone.
LEMMA ResetMemory ==
  ASSUME PInv, Disciplined, NEW f \in Files, MemoryStep(f),
         reset /\ InUse => \E g \in Files : Stops(g)
  PROVE  reset' /\ InUse' => \E g \in Files : Stops(g)'
<1>0. TypeOK /\ "idle" \in CallPc \ {"enable"} /\ "free" \in CallPc \ {"enable"}
  BY DEF PInv, CallPc
<1>1. ASSUME NEW b \in Bufs, FreeBegin(f, b)
      PROVE  reset' /\ InUse' => \E g \in Files : Stops(g)'
  <2>1. /\ f \in opened /\ call[f] = "idle" /\ b \in coh[f]
        /\ call' = [call EXCEPT ![f] = "free"] /\ refs' = refs
    BY <1>1 DEF FreeBegin, MayCall, FilesOf, refVars
  <2>2. refs[f] > 0
    BY <2>1 DEF Disciplined, HoldsMemory
  <2>3. Stops(f)'
    BY <1>0, <2>1, <2>2 DEF Stops, TypeOK
  <2>4. QED BY <2>3
<1>2. CASE FreeEnd(f)
  <2>1. CASE refs[f] > 0
    BY <1>2, <2>1 DEF FreeEnd
  <2>2. CASE ~(refs[f] > 0)
    <3>1. /\ call' = [call EXCEPT ![f] = "idle"]
          /\ UNCHANGED <<refs, refCount, pm, reset>>
      BY <1>2, <2>2 DEF FreeEnd, refVars
    <3>2. QED BY <1>0, <2>2, <3>1, ResetQuiet DEF Stops
  <2>3. QED BY <2>1, <2>2
<1>3. ASSUME UNCHANGED <<refs, refCount, call, pm, reset>>
      PROVE  reset' /\ InUse' => \E g \in Files : Stops(g)'
  BY <1>3 DEF InUse, Stops
<1>4. QED BY <1>1, <1>2, <1>3 DEF MemoryStep, Alloc, Map, Unmap, refVars, hwVars

\* So does a release, or the engine is no longer in use.
LEMMA ResetRelease ==
  ASSUME PInv, Disciplined, NEW f \in Files, ReleaseStep(f),
         reset /\ InUse => \E g \in Files : Stops(g)
  PROVE  reset' /\ InUse' => \E g \in Files : Stops(g)'
<1>0. /\ TypeOK /\ SemHeld
      /\ {"idle", "give_back", "drop_refs"} \subseteq CallPc \ {"enable"}
  BY DEF PInv, PowerInv, CallPc
<1>1. CASE ReleaseBegin(f)
  <2>1. /\ f \in opened /\ call[f] = "idle"
        /\ call' = [call EXCEPT ![f] = "give_back"]
        /\ UNCHANGED <<refs, refCount, pm>>
    BY <1>1 DEF ReleaseBegin, MayCall, FilesOf, refVars
  <2>2. CASE refs[f] > 0 \/ lock = f \/ coh[f] # {}
    <3>1. refs[f] > 0
      BY <2>1, <2>2 DEF Disciplined, HoldsMemory
    <3>2. Stops(f)'
      BY <1>0, <2>1, <3>1 DEF Stops, TypeOK
    <3>3. QED BY <3>2
  <2>3. CASE ~(refs[f] > 0 \/ lock = f \/ coh[f] # {})
    <3>1. reset' = reset
      BY <1>1, <2>3 DEF ReleaseBegin
    <3>2. QED BY <1>0, <2>1, <2>3, <3>1, ResetQuiet DEF Stops
  <2>4. QED BY <2>2, <2>3
<1>2. CASE ReleaseGiveBack(f)
  <2>1. /\ call' = [call EXCEPT ![f] = "drop_refs"]
        /\ UNCHANGED <<refs, refCount, pm, reset>>
    BY <1>2 DEF ReleaseGiveBack, refVars, hwVars
  <2>2. QED BY <1>0, <2>1, ResetQuiet
<1>3. CASE ReleaseRefs(f)
  <2>1. /\ sem = None /\ call[f] = "drop_refs"
        /\ call' = [call EXCEPT ![f] = "idle"] /\ refs' = [refs EXCEPT ![f] = 0]
        /\ refCount' = (IF refs[f] > refCount THEN 0 ELSE refCount - refs[f])
        /\ pm' = pm
    BY <1>3 DEF ReleaseRefs
  <2>2. CASE refCount' = 0
    <3>1. \A g \in Files : call'[g] # "enable"
      <4>1. \A g \in Files : g # None /\ call[g] # "enable"
        BY <1>0, <2>1, DmaAssumption DEF DmaAssumption, SemHeld
      <4>2. QED BY <1>0, <2>1, <4>1 DEF TypeOK
    <3>2. QED BY <2>2, <3>1, Unused
  <2>3. CASE refCount' # 0 /\ refs[f] > 0
    BY <1>3, <2>3 DEF ReleaseRefs
  <2>4. CASE refCount' # 0 /\ ~(refs[f] > 0)
    <3>1. refs[f] = 0
      BY <1>0, <2>4 DEF TypeOK
    <3>2. refs' = refs /\ refCount' = refCount
      BY <1>0, <2>1, <3>1 DEF TypeOK
    <3>3. reset' = reset
      BY <1>3, <2>4 DEF ReleaseRefs, hwVars
    <3>4. "idle" \in CallPc \ {"enable"} /\ ~Stops(f)
      BY <1>0, <3>1 DEF Stops
    <3>5. UNCHANGED <<refs, refCount, pm>> /\ call' = [call EXCEPT ![f] = "idle"]
      BY <2>1, <3>2
    <3>6. QED BY <1>0, <3>3, <3>4, <3>5, ResetQuiet
  <2>5. QED BY <2>2, <2>3, <2>4
<1>4. QED BY <1>1, <1>2, <1>3 DEF ReleaseStep

\* The other actions touch neither reset nor references.
LEMMA ResetOther ==
  ASSUME NEW f \in Files, Open(f) \/ GetLock(f) \/ ReleaseLock(f) \/ JobStep(f),
         reset /\ InUse => \E g \in Files : Stops(g)
  PROVE  reset' /\ InUse' => \E g \in Files : Stops(g)'
<1>1. UNCHANGED <<refs, refCount, call, pm, reset>>
  BY DEF Open, GetLock, ReleaseLock, JobStep, JobDone, Submit, refVars, hwVars
<1>2. QED BY <1>1 DEF InUse, Stops

\* The disciplined device is the device.
LEMMA WatchedIsSpec == WatchedSpec => Spec
<1>1. WatchedInit => Init
  BY DEF WatchedInit
<1>2. [WatchedNext]_dvars => [Next]_vars
  BY DEF WatchedNext, dvars, vars
<1>3. QED BY <1>1, <1>2, PTL DEF WatchedSpec, Spec

\* The invariant of the power holds of watched clients, too.
LEMMA WatchedInductive == WatchedSpec => []PInv
  BY WatchedIsSpec, PowerInductive, PTL

\* While clients hold memory and locks only with references, an engine in use is
\* in reset only for a call that is on its way to deassert it.
THEOREM ResetInductive == WatchedSpec => []ResetInv
<1> USE DmaAssumption
<1>1. WatchedInit => ResetInv
  BY DEF WatchedInit, Init, ResetInv, Disciplined, InUse
<1>2. ASSUME PInv, ResetInv, [WatchedNext]_dvars PROVE ResetInv'
  <2>1. CASE UNCHANGED dvars
    BY <1>2, <2>1 DEF dvars, vars, ResetInv, Disciplined, HoldsMemory, MappedBy, InUse, Stops
  <2>2. CASE WatchedNext
    <3> SUFFICES ASSUME disciplined' PROVE ResetInv'
      BY DEF ResetInv
    <3>1. /\ Disciplined' /\ Disciplined /\ Next
          /\ reset /\ InUse => \E g \in Files : Stops(g)
      BY <1>2, <2>2 DEF WatchedNext, ResetInv
    <3>2. ~Suspend /\ ~Resume /\ ~ResumeFail
      BY <3>1 DEF Disciplined, Suspend, Resume, ResumeFail
    <3>3. reset' /\ InUse' => \E g \in Files : Stops(g)'
      BY <1>2, <3>1, <3>2, ResetEngine, ResetMemory, ResetRelease, ResetOther DEF Next
    <3>4. QED BY <3>1, <3>3 DEF ResetInv
  <2>3. QED BY <1>2, <2>1, <2>2
<1>3. QED BY <1>1, <1>2, WatchedInductive, PTL DEF WatchedSpec

\* Nobody's FREE_COHERENT or close, however it falls between the calls of others,
\* leaves their engine in reset.
THEOREM ResetSafe == WatchedSpec => []DisciplinedReset
<1>1. ResetInv => DisciplinedReset
  BY DEF ResetInv, DisciplinedReset, ResetReleased, InUse, Stops
<1>2. QED BY <1>1, ResetInductive, PTL

(***************************************************************************)
(* The reference count of the device is the number of references the files *)
(* hold, and one more while an enable is in progress.                      *)
(***************************************************************************)

\* The references, numbered for each file.
Held == {x \in Files \X Nat : x[2] \in 1..refs[x[1]]}

Enabling == \E f \in Files : call[f] = "enable"

CountInv ==
  /\ IsFiniteSet(Held)
  /\ refCount = Cardinality(Held) + (IF Enabling THEN 1 ELSE 0)

\* The count stays correct where nobody takes or gives back references.
LEMMA CountKept ==
  ASSUME CountInv, UNCHANGED <<refs, refCount>>, Enabling' <=> Enabling
  PROVE  CountInv'
<1>1. Held' = Held
  BY DEF Held
<1>2. QED BY <1>1 DEF CountInv

\* The references of a file, counted.
LEMMA HeldPairs ==
  ASSUME NEW f \in Files, NEW i \in Nat
  PROVE  <<f, i>> \in Held <=> i \in 1..refs[f]
  BY DEF Held

\* A step that takes and one that gives back a reference.
LEMMA HeldUp ==
  ASSUME TypeOK, NEW f \in Files, refs' = [refs EXCEPT ![f] = @ + 1], IsFiniteSet(Held)
  PROVE  IsFiniteSet(Held') /\ Cardinality(Held') = Cardinality(Held) + 1
<1> DEFINE x == <<f, refs[f] + 1>>
<1>1. x \notin Held
  BY HeldPairs DEF TypeOK
<1>2. Held' = Held \cup {x}
  <2>1. \A g \in Files, i \in Nat : i \in 1..refs'[g] <=> i \in 1..refs[g] \/ <<g, i>> = x
    BY DEF TypeOK
  <2>2. x \in Files \X Nat
    BY DEF TypeOK
  <2>3. QED BY <2>1, <2>2 DEF Held
<1> HIDE DEF x
<1>3. QED BY <1>1, <1>2, FS_AddElement

\* Giving back one reference leaves one less.
LEMMA HeldDown ==
  ASSUME TypeOK, NEW f \in Files, refs[f] > 0, refs' = [refs EXCEPT ![f] = @ - 1],
         IsFiniteSet(Held)
  PROVE  IsFiniteSet(Held') /\ Cardinality(Held') = Cardinality(Held) - 1
<1> DEFINE x == <<f, refs[f]>>
<1>1. x \in Held
  BY HeldPairs DEF TypeOK
<1>2. Held' = Held \ {x}
  <2>1. \A g \in Files, i \in Nat : i \in 1..refs'[g] <=> i \in 1..refs[g] /\ <<g, i>> # x
    BY DEF TypeOK
  <2>2. QED BY <2>1 DEF Held
<1> HIDE DEF x
<1>3. QED BY <1>1, <1>2, FS_RemoveElement

\* One that gives back all of a file.
LEMMA HeldDrop ==
  ASSUME TypeOK, NEW f \in Files, refs' = [refs EXCEPT ![f] = 0], IsFiniteSet(Held)
  PROVE  /\ IsFiniteSet(Held') /\ refs[f] <= Cardinality(Held)
         /\ Cardinality(Held') = Cardinality(Held) - refs[f]
<1> DEFINE own == {f} \X (1..refs[f])
<1>0. refs[f] \in Nat
  BY DEF TypeOK
<1>1. IsFiniteSet(own) /\ Cardinality(own) = refs[f]
  <2>1. IsFiniteSet({f}) /\ Cardinality({f}) = 1
    BY FS_Singleton
  <2>2. IsFiniteSet(1..refs[f]) /\ Cardinality(1..refs[f]) = refs[f]
    BY <1>0, FS_Interval, SMTT(30)
  <2>3. IsFiniteSet(own) /\ Cardinality(own) = 1 * refs[f]
    BY <2>1, <2>2, FS_Product, ZenonT(60)
  <2>4. QED BY <1>0, <2>3
<1>2. own \subseteq Held
  BY <1>0 DEF Held
<1>3. Held' = Held \ own
  <2>1. \A g \in Files, i \in Nat : i \in 1..refs'[g] <=> i \in 1..refs[g] /\ g # f
    BY DEF TypeOK
  <2>2. \A g \in Files, i \in Nat : i \in 1..refs[g] => (<<g, i>> \in own <=> g = f)
    OBVIOUS
  <2>3. QED BY <2>1, <2>2 DEF Held
<1> HIDE DEF own
<1>4. own \cap Held = own /\ Held \cap own = own
  BY <1>2
<1>5. /\ IsFiniteSet(Held \ own)
      /\ Cardinality(Held \ own) = Cardinality(Held) - Cardinality(own)
  BY <1>4, FS_Difference
<1>6. Cardinality(own) <= Cardinality(Held)
  BY <1>2, FS_Subset
<1>7. QED BY <1>1, <1>3, <1>5, <1>6

\* Outside the sections under the semaphore nobody enables the engine.
LEMMA NotEnabling ==
  ASSUME PInv, sem = None
  PROVE  ~Enabling
  BY DmaAssumption DEF DmaAssumption, PInv, PowerInv, SemHeld, Enabling

\* The file that holds the semaphore is the only one that may.
LEMMA OneEnabling ==
  ASSUME PInv, NEW f \in Files, call[f] \in {"enable", "disable", "unmap"}
  PROVE  Enabling <=> call[f] = "enable"
  BY DEF PInv, PowerInv, SemHeld, Enabling

\* Engine calls keep the count.
LEMMA CountEngine ==
  ASSUME PInv, CountInv, NEW f \in Files, EngineStep(f)
  PROVE  CountInv'
<1>0. TypeOK /\ IsFiniteSet(Held) /\ Cardinality(Held) \in Nat
  BY FS_CardinalityType DEF PInv, CountInv
<1>1. CASE EngineReq(f)
  <2>1. ~Enabling /\ refCount = Cardinality(Held) /\ refCount' = refCount + 1
    BY <1>0, <1>1, NotEnabling DEF EngineReq, CountInv
  <2>2. CASE refCount = 0 /\ ~clk
    <3>1. call' = [call EXCEPT ![f] = "enable"] /\ refs' = refs
      BY <1>1, <2>2 DEF EngineReq
    <3>2. Enabling' /\ Held' = Held
      BY <1>0, <3>1 DEF Enabling, Held, TypeOK
    <3>3. QED BY <1>0, <2>1, <3>2 DEF CountInv
  <2>3. CASE ~(refCount = 0 /\ ~clk)
    <3>1. call' = call /\ refs' = [refs EXCEPT ![f] = @ + 1]
      BY <1>1, <2>3 DEF EngineReq
    <3>2. ~Enabling'
      BY <2>1, <3>1 DEF Enabling
    <3>3. IsFiniteSet(Held') /\ Cardinality(Held') = Cardinality(Held) + 1
      BY <1>0, <3>1, HeldUp
    <3>4. QED BY <1>0, <2>1, <3>2, <3>3 DEF CountInv
  <2>4. QED BY <2>2, <2>3
<1>2. CASE EnableDone(f)
  <2>1. /\ call[f] = "enable" /\ call' = [call EXCEPT ![f] = "idle"]
        /\ refs' = [refs EXCEPT ![f] = @ + 1] /\ refCount' = refCount
    BY <1>2 DEF EnableDone
  <2>2. Enabling /\ ~Enabling'
    BY <1>0, <2>1 DEF Enabling, TypeOK, PInv, PowerInv, SemHeld
  <2>3. IsFiniteSet(Held') /\ Cardinality(Held') = Cardinality(Held) + 1
    BY <1>0, <2>1, HeldUp
  <2>4. QED BY <1>0, <2>1, <2>2, <2>3 DEF CountInv
<1>3. CASE EnableFail(f)
  <2>1. /\ call[f] = "enable" /\ call' = [call EXCEPT ![f] = "idle"]
        /\ refs' = refs /\ refCount' = refCount - 1
    BY <1>3 DEF EnableFail
  <2>2. Enabling /\ ~Enabling' /\ Held' = Held
    BY <1>0, <2>1 DEF Enabling, TypeOK, PInv, PowerInv, SemHeld, Held
  <2>3. QED BY <1>0, <2>1, <2>2 DEF CountInv
<1>4. CASE EngineRel(f)
  <2>1. /\ sem = None /\ refs[f] > 0 /\ refCount' = refCount - 1
        /\ refs' = [refs EXCEPT ![f] = @ - 1]
        /\ call' = call \/ call' = [call EXCEPT ![f] = "disable"]
    BY <1>4 DEF EngineRel
  <2>2. ~Enabling /\ ~Enabling'
    BY <1>0, <2>1, NotEnabling DEF Enabling, TypeOK
  <2>3. IsFiniteSet(Held') /\ Cardinality(Held') = Cardinality(Held) - 1
    BY <1>0, <2>1, HeldDown
  <2>4. QED BY <1>0, <2>1, <2>2, <2>3 DEF CountInv
<1>5. CASE Disable(f) \/ DisableUnmap(f)
  <2>1. /\ call[f] \in {"disable", "unmap"} /\ UNCHANGED <<refs, refCount>>
        /\ call' = [call EXCEPT ![f] = "unmap"] \/ call' = [call EXCEPT ![f] = "idle"]
    BY <1>5 DEF Disable, DisableUnmap
  <2>2. ~Enabling /\ ~Enabling'
    BY <1>0, <2>1, OneEnabling DEF Enabling, TypeOK
  <2>3. QED BY <2>1, <2>2, CountKept
<1>6. CASE ResetVe(f)
  BY <1>6, CountKept DEF ResetVe, refVars, Enabling
<1>7. QED BY <1>1, <1>2, <1>3, <1>4, <1>5, <1>6 DEF EngineStep

\* Calls outside the semaphore that do not count.
LEMMA CountCall ==
  ASSUME PInv, CountInv, NEW f \in Files, UNCHANGED <<refs, refCount>>,
         call[f] # "enable", NEW pc \in CallPc \ {"enable"},
         call' = [call EXCEPT ![f] = pc]
  PROVE  CountInv'
<1>1. Enabling' <=> Enabling
  BY DEF Enabling, PInv, TypeOK
<1>2. QED BY <1>1, CountKept

\* The release of a file takes all its references out of the count.
LEMMA CountRelease ==
  ASSUME PInv, CountInv, NEW f \in Files, ReleaseRefs(f)
  PROVE  CountInv'
<1>0. TypeOK /\ IsFiniteSet(Held) /\ Cardinality(Held) \in Nat /\ refs[f] \in Nat
  BY FS_CardinalityType DEF PInv, CountInv, TypeOK
<1>1. /\ sem = None /\ refs' = [refs EXCEPT ![f] = 0]
      /\ refCount' = (IF refs[f] > refCount THEN 0 ELSE refCount - refs[f])
      /\ call' = [call EXCEPT ![f] = "idle"]
  BY DEF ReleaseRefs
<1>2. ~Enabling /\ ~Enabling'
  BY <1>0, <1>1, NotEnabling DEF Enabling, TypeOK
<1>3. refCount = Cardinality(Held)
  BY <1>0, <1>2 DEF CountInv
<1>4. /\ IsFiniteSet(Held') /\ refs[f] <= Cardinality(Held)
      /\ Cardinality(Held') = Cardinality(Held) - refs[f]
  BY <1>0, <1>1, HeldDrop
<1>5. QED BY <1>0, <1>1, <1>2, <1>3, <1>4 DEF CountInv

\* The count is never off, whatever enables fail and clients die: neither does the
\* engine stay on for nobody, nor is it switched off under a client.
THEOREM CountCorrect == Spec => []CountInv
<1>1. Init => CountInv
  <2> SUFFICES ASSUME Init PROVE CountInv
    OBVIOUS
  <2>1. Held = {} /\ ~Enabling /\ refCount = 0
    BY DEF Init, Held, Enabling
  <2>2. QED BY <2>1, FS_EmptySet DEF CountInv
<1>2. ASSUME PInv, CountInv, [Next]_vars PROVE CountInv'
  <2>0. {"idle", "free", "give_back", "drop_refs"} \subseteq CallPc \ {"enable"}
    BY DEF CallPc
  <2>1. ASSUME NEW f \in Files, MemoryStep(f) \/ ReleaseBegin(f) \/ ReleaseGiveBack(f)
        PROVE  CountInv'
    <3>1. CASE \/ \E b \in Bufs : FreeBegin(f, b)
               \/ FreeEnd(f) \/ ReleaseBegin(f) \/ ReleaseGiveBack(f)
      <4>1. /\ UNCHANGED <<refs, refCount>> /\ call[f] # "enable"
            /\ \E pc \in {"idle", "free", "give_back", "drop_refs"} :
                 call' = [call EXCEPT ![f] = pc]
        BY <3>1 DEF FreeBegin, FreeEnd, ReleaseBegin, ReleaseGiveBack, MayCall, FilesOf, refVars
      <4>2. QED BY <1>2, <2>0, <4>1, CountCall
    <3>2. CASE \/ \E b \in Bufs : Alloc(f, b)
               \/ \E d \in Dbufs : Map(f, d) \/ Unmap(f, d)
      BY <1>2, <3>2, CountKept DEF Alloc, Map, Unmap, refVars, Enabling
    <3>3. QED BY <2>1, <3>1, <3>2 DEF MemoryStep
  <2>2. ASSUME NEW f \in Files, Open(f) \/ GetLock(f) \/ ReleaseLock(f) \/ JobStep(f)
        PROVE  CountInv'
    BY <1>2, <2>2, CountKept DEF Open, GetLock, ReleaseLock, JobStep, JobDone, Submit,
       refVars, Enabling
  <2>3. CASE Suspend \/ Resume \/ ResumeFail \/ UNCHANGED vars
    BY <1>2, <2>3, CountKept DEF Suspend, Resume, ResumeFail, vars, refVars, Enabling
  <2>4. QED BY <1>2, <2>1, <2>2, <2>3, CountEngine, CountRelease DEF Next, ReleaseStep
<1>3. QED BY <1>1, <1>2, PowerInductive, PTL DEF Spec

\* The count is the number of references held, also with watched clients.
LEMMA WatchedCount == WatchedSpec => []CountInv
  BY WatchedIsSpec, CountCorrect, PTL

(***************************************************************************)
(* Mappings of disciplined clients.                                        *)
(***************************************************************************)

\* Everything mapped is linked, for a process with an open file that holds
\* references; a file about to drop its references has nothing mapped any more.
LinkedInv ==
  /\ mapped = list
  /\ \A e \in mapped : \E g \in FilesOf(e[2]) : g \in opened /\ refs[g] > 0
  /\ \A g \in Files : call[g] = "drop_refs" => MappedBy(ProcOf[g]) = {}

MapInv == disciplined => Disciplined /\ LinkedInv

\* A mapping is of a buffer, for a process whose files all count as having mapped it.
LEMMA MappedFiles ==
  ASSUME PInv, NEW e \in mapped
  PROVE  /\ e[1] \in Dbufs /\ e = <<e[1], e[2]>>
         /\ \A g \in FilesOf(e[2]) : e[1] \in MappedBy(ProcOf[g])
  BY DEF PInv, TypeOK, FilesOf, MappedBy

\* Steps that map nothing and after which no file has fewer references.
LEMMA MapKept ==
  ASSUME LinkedInv, mapped' \subseteq mapped, mapped' = list',
         opened \subseteq opened',
         \A g \in Files : refs[g] > 0 => refs'[g] > 0,
         \A g \in Files : call'[g] = "drop_refs" => call[g] = "drop_refs"
  PROVE  LinkedInv'
<1>1. \A e \in mapped' : \E g \in FilesOf(e[2]) : g \in opened' /\ refs'[g] > 0
  BY DEF LinkedInv, FilesOf
<1>2. \A g \in Files : call'[g] = "drop_refs" => MappedBy(ProcOf[g])' = {}
  BY DEF LinkedInv, MappedBy
<1>3. QED BY <1>1, <1>2 DEF LinkedInv, FilesOf

\* What a step of one file does to the calls.
LEMMA NoDrop ==
  ASSUME TypeOK, NEW f \in Files, NEW pc, pc # "drop_refs",
         call' = call \/ call' = [call EXCEPT ![f] = pc]
  PROVE  \A g \in Files : call'[g] = "drop_refs" => call[g] = "drop_refs"
  BY DEF TypeOK

\* UNMAP and its like take from both sets.
LEMMA UnmapKeepsLinked ==
  ASSUME mapped = list, NEW p, UnmapAll(p)
  PROVE  mapped' \subseteq mapped /\ mapped' = list'
  BY DEF UnmapAll

\* Only an enable with a count of 0 empties the list, and then nothing is mapped.
LEMMA MapEngine ==
  ASSUME PInv, CountInv, LinkedInv, Disciplined', NEW f \in Files, EngineStep(f)
  PROVE  LinkedInv'
<1>0. TypeOK /\ mapped = list
  BY DEF PInv, LinkedInv
<1>1. CASE EngineReq(f) \/ EnableFail(f) \/ Disable(f) \/ ResetVe(f)
  <2>1. /\ UNCHANGED <<opened, mapped, list>>
        /\ refs' = refs \/ refs' = [refs EXCEPT ![f] = @ + 1]
        /\ \E pc \in {"idle", "enable", "unmap"} : call' = call \/ call' = [call EXCEPT ![f] = pc]
    BY <1>1 DEF EngineReq, EnableFail, Disable, ResetVe, memVars, refVars
  <2>2. \A g \in Files : refs[g] > 0 => refs'[g] > 0
    BY <1>0, <2>1 DEF TypeOK
  <2>3. \A g \in Files : call'[g] = "drop_refs" => call[g] = "drop_refs"
    BY <1>0, <2>1, NoDrop
  <2>4. QED BY <1>0, <2>1, <2>2, <2>3, MapKept
<1>2. CASE EnableDone(f)
  <2>1. /\ call[f] = "enable" /\ call' = [call EXCEPT ![f] = "idle"]
        /\ refs' = [refs EXCEPT ![f] = @ + 1] /\ list' = {} /\ UNCHANGED <<opened, mapped>>
    BY <1>2 DEF EnableDone
  <2>2. Cardinality(Held) = 0
    <3>1. refCount = 1 /\ Enabling /\ Cardinality(Held) \in Nat
      BY <2>1, FS_CardinalityType DEF PInv, PowerInv, Switching, Enabling, CountInv
    <3>2. QED BY <3>1 DEF CountInv
  <2>3. Held = {}
    BY <2>2, FS_EmptySet DEF CountInv
  <2>4. \A g \in Files : ~(refs[g] > 0)
    BY <1>0, <2>3, HeldPairs DEF TypeOK
  <2>5. mapped = {}
    BY <2>4 DEF LinkedInv, FilesOf
  <2>6. \A g \in Files : call'[g] = "drop_refs" => call[g] = "drop_refs"
    BY <1>0, <2>1, NoDrop
  <2>7. QED BY <2>1, <2>4, <2>5, <2>6, MapKept
<1>3. CASE EngineRel(f)
  <2>1. /\ f \in opened /\ call[f] = "idle" /\ UNCHANGED <<opened, mapped, list>>
        /\ refs' = [refs EXCEPT ![f] = @ - 1]
        /\ call' = call \/ call' = [call EXCEPT ![f] = "disable"]
    BY <1>3 DEF EngineRel, MayCall, FilesOf, memVars
  <2>2. call'[f] \notin {"give_back", "drop_refs"}
    BY <1>0, <2>1 DEF TypeOK
  <2>3. ASSUME NEW e \in mapped' PROVE \E g \in FilesOf(e[2]) : g \in opened' /\ refs'[g] > 0
    <3>1. PICK g \in FilesOf(e[2]) : g \in opened /\ refs[g] > 0
      BY <2>1 DEF LinkedInv
    <3>2. CASE g = f
      <4>1. MappedBy(ProcOf[f])' # {}
        BY <2>1, <3>1, <3>2, MappedFiles DEF MappedBy
      <4>2. refs'[f] > 0
        BY <2>1, <2>2, <4>1 DEF Disciplined, HoldsMemory
      <4>3. QED BY <2>1, <3>1, <3>2, <4>2
    <3>3. CASE g # f
      BY <1>0, <2>1, <3>1, <3>3 DEF TypeOK, FilesOf
    <3>4. QED BY <3>2, <3>3
  <2>4. \A g \in Files : call'[g] = "drop_refs" => call[g] = "drop_refs"
    BY <1>0, <2>1, NoDrop
  <2>5. QED BY <1>0, <2>1, <2>3, <2>4 DEF LinkedInv, MappedBy, FilesOf
<1>4. CASE DisableUnmap(f)
  <2>1. /\ UNCHANGED <<opened, refs>> /\ UnmapAll(ProcOf[f])
        /\ call' = [call EXCEPT ![f] = "idle"]
    BY <1>4 DEF DisableUnmap
  <2>2. \A g \in Files : call'[g] = "drop_refs" => call[g] = "drop_refs"
    BY <1>0, <2>1, NoDrop
  <2>3. QED BY <1>0, <2>1, <2>2, UnmapKeepsLinked, MapKept
<1>5. QED BY <1>1, <1>2, <1>3, <1>4 DEF EngineStep

\* A map links, an unmap of a disciplined client finds what is linked.
LEMMA MapMemory ==
  ASSUME PInv, LinkedInv, Disciplined', NEW f \in Files, MemoryStep(f)
  PROVE  LinkedInv'
<1>0. TypeOK /\ mapped = list
  BY DEF PInv, LinkedInv
<1>1. CASE (\E b \in Bufs : Alloc(f, b) \/ FreeBegin(f, b)) \/ FreeEnd(f)
  <2>1. /\ UNCHANGED <<opened, refs, mapped, list>>
        /\ \E pc \in {"idle", "free"} : call' = call \/ call' = [call EXCEPT ![f] = pc]
    BY <1>1 DEF Alloc, FreeBegin, FreeEnd, refVars
  <2>2. \A g \in Files : call'[g] = "drop_refs" => call[g] = "drop_refs"
    BY <1>0, <2>1, NoDrop
  <2>3. QED BY <1>0, <2>1, <2>2, MapKept
<1>2. ASSUME NEW d \in Dbufs, Map(f, d) PROVE LinkedInv'
  <2>1. /\ MayCall(f) /\ UNCHANGED <<opened, refs, call>>
        /\ mapped' = mapped \cup {<<d, ProcOf[f]>>} /\ list' = list \cup {<<d, ProcOf[f]>>}
    BY <1>2 DEF Map, refVars
  <2>2. /\ f \in opened
        /\ \A g \in Files : ProcOf[g] = ProcOf[f] => call[g] = "idle"
    BY <2>1 DEF MayCall, FilesOf
  <2>3. refs[f] > 0
    BY <2>1, <2>2 DEF Disciplined, HoldsMemory, MappedBy
  <2>4. \A e \in mapped' : \E g \in FilesOf(e[2]) : g \in opened' /\ refs'[g] > 0
    BY <2>1, <2>2, <2>3 DEF LinkedInv, FilesOf
  <2>5. \A g \in Files : call'[g] = "drop_refs" => MappedBy(ProcOf[g])' = {}
    BY <2>1, <2>2 DEF LinkedInv, MappedBy
  <2>6. QED BY <1>0, <2>1, <2>4, <2>5 DEF LinkedInv, FilesOf
<1>3. ASSUME NEW d \in Dbufs, Unmap(f, d) PROVE LinkedInv'
  <2>1. /\ UNCHANGED <<opened, refs, call>>
        /\ mapped' = mapped \ {<<d, ProcOf[f]>>} /\ list' = list \ {<<d, ProcOf[f]>>}
    BY <1>3 DEF Unmap, refVars
  <2>2. QED BY <1>0, <2>1, MapKept
<1>4. QED BY <1>1, <1>2, <1>3 DEF MemoryStep

\* A release unlinks what its process has mapped.
LEMMA MapRelease ==
  ASSUME PInv, LinkedInv, NEW f \in Files, ReleaseStep(f)
  PROVE  LinkedInv'
<1>0. TypeOK /\ mapped = list
  BY DEF PInv, LinkedInv
<1>1. CASE ReleaseBegin(f)
  <2>1. /\ UNCHANGED <<opened, refs, mapped, list>>
        /\ call' = [call EXCEPT ![f] = "give_back"]
    BY <1>1 DEF ReleaseBegin, refVars, memVars
  <2>2. \A g \in Files : call'[g] = "drop_refs" => call[g] = "drop_refs"
    BY <1>0, <2>1, NoDrop
  <2>3. QED BY <1>0, <2>1, <2>2, MapKept
<1>2. CASE ReleaseGiveBack(f)
  <2>1. /\ UNCHANGED <<opened, refs>> /\ UnmapAll(ProcOf[f])
        /\ call' = [call EXCEPT ![f] = "drop_refs"]
    BY <1>2 DEF ReleaseGiveBack, refVars
  <2>2. mapped' \subseteq mapped /\ mapped' = list'
    BY <1>0, <2>1, UnmapKeepsLinked
  <2>3. MappedBy(ProcOf[f])' = {}
    BY <1>0, <2>1 DEF UnmapAll, LinkedBy, MappedBy
  <2>4. \A g \in Files : call'[g] = "drop_refs" => MappedBy(ProcOf[g])' = {}
    BY <1>0, <2>1, <2>2, <2>3 DEF LinkedInv, MappedBy, TypeOK
  <2>5. QED BY <2>1, <2>2, <2>4 DEF LinkedInv, FilesOf
<1>3. CASE ReleaseRefs(f)
  <2>1. /\ call[f] = "drop_refs" /\ call' = [call EXCEPT ![f] = "idle"]
        /\ opened' = opened \ {f} /\ refs' = [refs EXCEPT ![f] = 0]
    BY <1>3 DEF ReleaseRefs
  <2>2. mapped' \subseteq mapped /\ mapped' = list'
    BY <1>0, <1>3, UnmapKeepsLinked DEF ReleaseRefs
  <2>3. ASSUME NEW e \in mapped' PROVE \E g \in FilesOf(e[2]) : g \in opened' /\ refs'[g] > 0
    <3>1. PICK g \in FilesOf(e[2]) : g \in opened /\ refs[g] > 0
      BY <2>2 DEF LinkedInv
    <3>2. g # f
      BY <2>1, <2>2, <3>1, MappedFiles DEF LinkedInv
    <3>3. QED BY <1>0, <2>1, <3>1, <3>2 DEF TypeOK, FilesOf
  <2>4. \A g \in Files : call'[g] = "drop_refs" => MappedBy(ProcOf[g])' = {}
    BY <1>0, <2>1, <2>2, NoDrop DEF LinkedInv, MappedBy
  <2>5. QED BY <2>2, <2>3, <2>4 DEF LinkedInv, FilesOf
<1>4. QED BY <1>1, <1>2, <1>3 DEF ReleaseStep

\* The other actions leave mappings and the list alone.
LEMMA MapOther ==
  ASSUME LinkedInv, NEW f \in Files, Open(f) \/ GetLock(f) \/ ReleaseLock(f) \/ JobStep(f)
  PROVE  LinkedInv'
<1>1. UNCHANGED <<refs, call, mapped, list>> /\ opened \subseteq opened'
  BY DEF Open, GetLock, ReleaseLock, JobStep, JobDone, Submit, refVars, memVars
<1>2. QED BY <1>1, MapKept DEF LinkedInv

\* While clients map only with references, the list knows every mapping.
THEOREM LinkedInductive == WatchedSpec => []MapInv
<1>1. WatchedInit => MapInv
  BY DEF WatchedInit, Init, MapInv, LinkedInv, Disciplined
<1>2. ASSUME PInv, CountInv, MapInv, [WatchedNext]_dvars PROVE MapInv'
  <2>1. CASE UNCHANGED dvars
    BY <1>2, <2>1 DEF dvars, vars, MapInv, LinkedInv, Disciplined, HoldsMemory, MappedBy, FilesOf
  <2>2. CASE WatchedNext
    <3> SUFFICES ASSUME disciplined' PROVE MapInv'
      BY DEF MapInv
    <3>1. Disciplined' /\ Disciplined /\ Next /\ LinkedInv
      BY <1>2, <2>2 DEF WatchedNext, MapInv
    <3>2. ~Suspend /\ ~Resume /\ ~ResumeFail
      BY <3>1 DEF Disciplined, Suspend, Resume, ResumeFail
    <3>3. LinkedInv'
      BY <1>2, <3>1, <3>2, MapEngine, MapMemory, MapRelease, MapOther DEF Next
    <3>4. QED BY <3>1, <3>3 DEF MapInv
  <2>3. QED BY <1>2, <2>1, <2>2
<1>3. QED BY <1>1, <1>2, WatchedInductive, WatchedCount, PTL DEF WatchedSpec

\* Nothing they mapped outlives the last file of their process.
THEOREM MappingsSafe == WatchedSpec => []DisciplinedMappings
<1>1. MapInv => DisciplinedMappings
  BY DEF MapInv, LinkedInv, DisciplinedMappings, MappingsReleased
<1>2. QED BY <1>1, LinkedInductive, PTL
(***************************************************************************)
(* The refinement: what clients see is the engine of CedarEngine.          *)
(***************************************************************************)

\* A reference is counted or its owner is about to get it.
LEMMA Users ==
  ASSUME NEW r \in [Files -> Nat], NEW n,
         IsFiniteSet({x \in Files \X Nat : x[2] \in 1..r[x[1]]}),
         n = Cardinality({x \in Files \X Nat : x[2] \in 1..r[x[1]]})
  PROVE  n = 0 <=> ~ \E f \in Files : r[f] > 0
<1> DEFINE H == {x \in Files \X Nat : x[2] \in 1..r[x[1]]}
<1>1. n = 0 <=> H = {}
  BY FS_EmptySet
<1>2. ASSUME NEW f \in Files, r[f] > 0 PROVE H # {}
  <2>1. <<f, 1>> \in H
    BY <1>2
  <2> QED BY <2>1
<1>3. ASSUME NEW x \in H PROVE \E f \in Files : r[f] > 0
  <2>1. x[1] \in Files /\ x[2] \in Nat /\ x[2] \in 1..r[x[1]] /\ r[x[1]] \in Nat
    OBVIOUS
  <2>2. r[x[1]] > 0
    BY <2>1
  <2> QED BY <2>1, <2>2
<1> HIDE DEF H
<1> QED BY <1>1, <1>2, <1>3

\* Without an enable in progress the device counts exactly the references.
LEMMA CountMeansUsers ==
  ASSUME TypeOK, CountInv, \A f \in Files : call[f] # "enable"
  PROVE  refCount = 0 <=> ~Engine!InUse
<1>1. IsFiniteSet(Held) /\ refCount = Cardinality(Held)
  BY FS_CardinalityType DEF CountInv, Enabling
<1>2. refs \in [Files -> Nat]
  BY DEF TypeOK
<1> QED BY <1>1, <1>2, Users DEF Held, Engine!InUse

\* The same in the next state.
LEMMA CountMeansUsersNext ==
  ASSUME TypeOK', CountInv', \A f \in Files : call'[f] # "enable"
  PROVE  refCount' = 0 <=> ~Engine!InUse'
<1>1. IsFiniteSet(Held') /\ refCount' = Cardinality(Held')
  BY FS_CardinalityType DEF CountInv, Enabling
<1>2. refs' \in [Files -> Nat]
  BY DEF TypeOK
<1> QED BY <1>1, <1>2, Users DEF Held, Engine!InUse

\* Steps that clients do not see.
LEMMA EngineStutters ==
  ASSUME UNCHANGED <<refs, clk, coh, mapped, job>>, (pm = "on") <=> (pm' = "on")
  PROVE  UNCHANGED Engine!vars
  BY DEF Engine!vars, ClientMemory, MappedBy

\* A reset of the engine ends all jobs and nothing else that clients see.
LEMMA EngineEndsAll ==
  ASSUME UNCHANGED <<refs, clk, coh, mapped, pm>>, Quiesce
  PROVE  Engine!Next
<1>1. ClientMemory' = ClientMemory
  BY DEF ClientMemory, MappedBy
<1>2. Engine!EndAll
  BY <1>1 DEF Engine!EndAll, Engine!NoJobs, Quiesce, NoJobs
<1> QED BY <1>2 DEF Engine!Next

\* Memory of a client goes without a job on it.
LEMMA EngineGivesBack ==
  ASSUME TypeOK, TypeOK', NEW f \in Files,
         UNCHANGED <<refs, clk, job, pm>>,
         \A g \in Files \ {f} : ClientMemory'[g] = ClientMemory[g],
         ClientMemory'[f] \subseteq ClientMemory[f],
         job[f] # None => job[f] \in ClientMemory'[f]
  PROVE  Engine!Next
<1>1. ClientMemory' \in [Files -> SUBSET (Bufs \cup Dbufs)]
  BY DEF TypeOK, ClientMemory, MappedBy
<1>2. Engine!GiveBack(f)
  BY <1>1 DEF Engine!GiveBack, Engine!Memory
<1> QED BY <1>2 DEF Engine!Next

\* Unmapping all of a process takes memory of its own file only.
LEMMA OthersKeepMemory ==
  ASSUME DmaAssumption, OneFilePerProcess, TypeOK, NEW f \in Files, UnmapAll(ProcOf[f]),
         \A g \in Files \ {f} : coh'[g] = coh[g], coh'[f] \subseteq coh[f]
  PROVE  /\ \A g \in Files \ {f} : ClientMemory'[g] = ClientMemory[g]
         /\ ClientMemory'[f] \subseteq ClientMemory[f]
<1>1. mapped' \subseteq mapped
  BY DEF UnmapAll
<1>2. ASSUME NEW g \in Files \ {f} PROVE ClientMemory'[g] = ClientMemory[g]
  <2>1. \A d \in Dbufs : <<d, ProcOf[g]>> \in mapped <=> <<d, ProcOf[g]>> \in mapped'
    BY <1>1, UnmapAllOwn
  <2> QED BY <2>1 DEF ClientMemory, MappedBy
<1>3. ClientMemory'[f] \subseteq ClientMemory[f]
  BY <1>1 DEF ClientMemory, MappedBy
<1> QED BY <1>2, <1>3

\* What the proofs above say of a state.
EngineInv == PInv /\ DmaInv /\ CountInv

\* IOCTL_ENGINE_REQ and IOCTL_ENGINE_REL: a reference is taken when its enable is
\* done, and the engine comes to rest in the call that gave the last one back.
LEMMA EngineCallsRefine ==
  ASSUME DmaAssumption, OneFilePerProcess, Waits, EngineInv, EngineInv',
         NEW f \in Files, EngineStep(f)
  PROVE  Engine!Next \/ UNCHANGED Engine!vars
<1> USE DEF EngineInv, PInv
<1>0. ASSUME sem = None \/ sem = f, call[f] # "enable"
      PROVE  refCount = 0 <=> ~Engine!InUse
  <2>1. \A g \in Files : call[g] # "enable"
    BY <1>0 DEF PowerInv, SemHeld, DmaAssumption
  <2> QED BY <2>1, CountMeansUsers
<1>1. CASE EngineReq(f)
  <2>0. call[f] = "idle" /\ sem = None
    BY <1>1 DEF EngineReq, MayCall, FilesOf
  <2>1. CASE refCount = 0 /\ ~clk
    <3>1. UNCHANGED <<refs, clk, coh, mapped, job, pm>>
      BY <1>1, <2>1 DEF EngineReq, memVars
    <3> QED BY <3>1, EngineStutters
  <2>2. CASE ~(refCount = 0 /\ ~clk)
    <3>1. /\ refs' = [refs EXCEPT ![f] = @ + 1]
          /\ UNCHANGED <<clk, coh, mapped, job, pm>>
      BY <1>1, <2>2 DEF EngineReq, memVars
    <3>2. refCount # 0
      BY <2>0, <2>2 DEF PowerInv, EnginePowered
    <3>3. Engine!InUse
      BY <1>0, <2>0, <3>2
    <3>4. ClientMemory' = ClientMemory
      BY <3>1 DEF ClientMemory, MappedBy
    <3>5. Engine!Take(f)
      BY <3>1, <3>3, <3>4 DEF Engine!Take
    <3> QED BY <3>5 DEF Engine!Next
  <2> QED BY <2>1, <2>2
<1>2. CASE EnableDone(f)
  <2>1. /\ call[f] = "enable" /\ clk' = TRUE /\ pm' = "on"
        /\ refs' = [refs EXCEPT ![f] = @ + 1]
        /\ UNCHANGED <<coh, mapped, job>>
    BY <1>2 DEF EnableDone
  <2>2. refCount = 1 /\ ~clk
    BY <2>1 DEF PowerInv, Switching
  <2>3. Cardinality(Held) = 0 /\ IsFiniteSet(Held)
    <3>1. Enabling
      BY <2>1 DEF Enabling
    <3>2. IsFiniteSet(Held) /\ Cardinality(Held) \in Nat
      BY FS_CardinalityType DEF CountInv
    <3> QED BY <2>2, <3>1, <3>2 DEF CountInv
  <2>4. ~Engine!InUse
    BY <2>3, Users DEF TypeOK, Held, Engine!InUse
  <2>5. ClientMemory' = ClientMemory
    BY <2>1 DEF ClientMemory, MappedBy
  <2>6. Engine!Take(f)
    BY <2>1, <2>2, <2>4, <2>5 DEF Engine!Take
  <2> QED BY <2>6 DEF Engine!Next
<1>3. CASE EnableFail(f)
  BY <1>3, EngineEndsAll DEF EnableFail, memVars
<1>4. CASE EngineRel(f)
  <2>1. /\ refs[f] > 0 /\ (refs[f] = 1 => job[f] = None)
        /\ refs' = [refs EXCEPT ![f] = @ - 1]
        /\ UNCHANGED <<clk, coh, mapped, job, pm>>
    BY <1>4 DEF EngineRel, memVars, hwVars
  <2>2. ClientMemory' = ClientMemory
    BY <2>1 DEF ClientMemory, MappedBy
  <2>3. Engine!Give(f)
    BY <2>1, <2>2 DEF Engine!Give
  <2> QED BY <2>3 DEF Engine!Next
<1>5. CASE Disable(f)
  <2>0. call[f] = "disable" /\ UNCHANGED <<refs, coh, mapped, pm>>
    BY <1>5 DEF Disable, memVars
  <2>1. CASE clk
    <3>1. clk' = FALSE /\ job' = NoJobs
      BY <1>5, <2>1 DEF Disable, Quiesce
    <3>2. refCount = 0 /\ sem = f
      BY <2>0 DEF PowerInv, Switching, SemHeld
    <3>3. ~Engine!InUse
      BY <1>0, <2>0, <3>2
    <3>4. ClientMemory' = ClientMemory
      BY <2>0 DEF ClientMemory, MappedBy
    <3>5. Engine!Rest
      BY <2>0, <2>1, <3>1, <3>3, <3>4 DEF Engine!Rest, Engine!NoJobs, NoJobs
    <3> QED BY <3>5 DEF Engine!Next
  <2>2. CASE ~clk
    BY <1>5, <2>0, <2>2, EngineStutters DEF Disable, hwVars
  <2> QED BY <2>1, <2>2
<1>6. CASE DisableUnmap(f)
  <2>1. /\ call[f] = "unmap" /\ UnmapAll(ProcOf[f])
        /\ UNCHANGED <<refs, clk, job, coh, pm>>
    BY <1>6 DEF DisableUnmap, hwVars
  <2>2. ~clk
    BY <2>1 DEF PowerInv, Switching
  <2>3. job[f] = None
    BY <2>2 DEF DmaInv, RunningJob
  <2>4. /\ \A g \in Files \ {f} : ClientMemory'[g] = ClientMemory[g]
        /\ ClientMemory'[f] \subseteq ClientMemory[f]
    BY <2>1, OthersKeepMemory
  <2> QED BY <2>1, <2>3, <2>4, EngineGivesBack
<1>7. CASE ResetVe(f)
  <2>1. UNCHANGED <<refs, clk, coh, mapped, pm>> /\ job' = NoJobs
    BY <1>7 DEF ResetVe, refVars, memVars
  <2>2. ClientMemory' = ClientMemory
    BY <2>1 DEF ClientMemory, MappedBy
  <2>3. Engine!EndAll
    BY <2>1, <2>2 DEF Engine!EndAll, Engine!NoJobs, NoJobs
  <2> QED BY <2>3 DEF Engine!Next
<1> QED BY <1>1, <1>2, <1>3, <1>4, <1>5, <1>6, <1>7 DEF EngineStep

\* Allocating and mapping give a client memory, freeing and unmapping take it back.
LEMMA MemoryCallsRefine ==
  ASSUME DmaAssumption, OneFilePerProcess, Waits, EngineInv, EngineInv',
         NEW f \in Files, MemoryStep(f)
  PROVE  Engine!Next \/ UNCHANGED Engine!vars
<1> USE DEF EngineInv, PInv
<1>1. ASSUME NEW b \in Bufs, Alloc(f, b) PROVE Engine!Next
  <2>1. /\ \A g \in Files : b \notin coh[g]
        /\ coh' = [coh EXCEPT ![f] = @ \cup {b}]
        /\ UNCHANGED <<refs, clk, mapped, job, pm>>
    BY <1>1 DEF Alloc, refVars, hwVars
  <2>2. \A g \in Files : b \notin ClientMemory[g]
    BY <2>1 DEF ClientMemory, MappedBy, DmaAssumption
  <2>3. \A g \in Files : coh'[g] = IF g = f THEN coh[f] \cup {b} ELSE coh[g]
    BY <2>1 DEF TypeOK
  <2>4. \A g \in Files : MappedBy(ProcOf[g])' = MappedBy(ProcOf[g])
    BY <2>1 DEF MappedBy
  <2>5. ClientMemory' = [ClientMemory EXCEPT ![f] = @ \cup {b}]
    <3>1. (coh[f] \cup {b}) \cup MappedBy(ProcOf[f]) = (coh[f] \cup MappedBy(ProcOf[f])) \cup {b}
      OBVIOUS
    <3>2. \A g \in Files : ClientMemory'[g] = IF g = f THEN ClientMemory[f] \cup {b}
                                                       ELSE ClientMemory[g]
      BY <2>3, <2>4, <3>1 DEF ClientMemory
    <3>3. /\ ClientMemory = [g \in Files |-> ClientMemory[g]]
          /\ ClientMemory' = [g \in Files |-> ClientMemory'[g]]
      BY DEF ClientMemory
    <3> HIDE DEF ClientMemory
    <3> QED BY <3>2, <3>3
  <2>6. Engine!Obtain(f, b)
    BY <2>1, <2>2, <2>5 DEF Engine!Obtain
  <2> QED BY <2>6 DEF Engine!Next, Engine!Memory
<1>2. ASSUME NEW b \in Bufs, FreeBegin(f, b) PROVE Engine!Next \/ UNCHANGED Engine!vars
  <2>1. CASE refs[f] > 0
    BY <1>2, <2>1, EngineEndsAll DEF FreeBegin, refVars
  <2>2. CASE ~(refs[f] > 0)
    BY <1>2, <2>2, EngineStutters DEF FreeBegin, refVars
  <2> QED BY <2>1, <2>2
<1>3. CASE FreeEnd(f)
  <2>1. /\ call[f] = "free" /\ coh' = [coh EXCEPT ![f] = @ \ {freeing[f]}]
        /\ UNCHANGED <<refs, clk, mapped, job, pm>>
    BY <1>3 DEF FreeEnd, refVars
  <2>2. job[f] = None
    BY <2>1 DEF DmaInv, RunningJob
  <2>3. /\ \A g \in Files \ {f} : ClientMemory'[g] = ClientMemory[g]
        /\ ClientMemory'[f] \subseteq ClientMemory[f]
    BY <2>1 DEF ClientMemory, MappedBy, TypeOK
  <2> QED BY <2>1, <2>2, <2>3, EngineGivesBack
<1>4. ASSUME NEW d \in Dbufs, Map(f, d) PROVE Engine!Next
  <2>1. /\ mapped' = mapped \cup {<<d, ProcOf[f]>>}
        /\ UNCHANGED <<refs, clk, coh, job, pm>>
    BY <1>4 DEF Map, refVars, hwVars
  <2>2. \A g \in Files : MappedBy(ProcOf[g])' = IF g = f THEN MappedBy(ProcOf[f]) \cup {d}
                                                ELSE MappedBy(ProcOf[g])
    BY <2>1, OneFile DEF MappedBy
  <2>3. ClientMemory' = [ClientMemory EXCEPT ![f] = @ \cup {d}]
    BY <2>1, <2>2 DEF ClientMemory
  <2>4. d \notin Bufs
    BY DEF DmaAssumption
  <2>5. Engine!Obtain(f, d)
    BY <2>1, <2>3, <2>4 DEF Engine!Obtain
  <2> QED BY <2>5 DEF Engine!Next, Engine!Memory
<1>5. ASSUME NEW d \in Dbufs, Unmap(f, d) PROVE Engine!Next
  <2>1. /\ mapped' = mapped \ {<<d, ProcOf[f]>>} /\ ~OwnJob(f, d)
        /\ UNCHANGED <<refs, clk, coh, job, pm>>
    BY <1>5 DEF Unmap, refVars, hwVars
  <2>2. \A g \in Files : MappedBy(ProcOf[g])' = IF g = f THEN MappedBy(ProcOf[f]) \ {d}
                                                ELSE MappedBy(ProcOf[g])
    BY <2>1, OneFile DEF MappedBy
  <2>3. /\ \A g \in Files \ {f} : ClientMemory'[g] = ClientMemory[g]
        /\ ClientMemory'[f] = coh[f] \cup (MappedBy(ProcOf[f]) \ {d})
        /\ ClientMemory'[f] \subseteq ClientMemory[f]
    BY <2>1, <2>2 DEF ClientMemory
  <2>4. job[f] # d
    BY <2>1 DEF OwnJob, FilesOf
  <2>5. job[f] # None => job[f] \in coh[f] \/ job[f] \in MappedBy(ProcOf[f])
    BY DEF DmaInv, RunningJob, TypeOK, MappedBy
  <2>6. job[f] # None => job[f] \in ClientMemory'[f]
    BY <2>3, <2>4, <2>5
  <2> QED BY <2>1, <2>3, <2>6, EngineGivesBack
<1> QED BY <1>1, <1>2, <1>3, <1>4, <1>5 DEF MemoryStep

\* Jobs start and end, and a file that is released leaves.
LEMMA JobsRefine ==
  ASSUME DmaAssumption, OneFilePerProcess, EngineInv, NEW f \in Files, JobStep(f)
  PROVE  Engine!Next
<1> USE DEF EngineInv, PInv
<1>1. UNCHANGED <<refs, clk, coh, mapped, pm>>
  BY DEF JobStep, JobDone, Submit, refVars, memVars
<1>2. ClientMemory' = ClientMemory
  BY <1>1 DEF ClientMemory, MappedBy
<1>3. CASE JobDone(f)
  <2>1. Engine!End(f)
    BY <1>1, <1>2, <1>3 DEF JobDone, Engine!End
  <2> QED BY <2>1 DEF Engine!Next
<1>4. ASSUME NEW m \in Bufs \cup Dbufs, Submit(f, m) PROVE Engine!Next
  <2>1. /\ refs[f] > 0 /\ clk /\ job[f] = None /\ m \in MemoryOf(ProcOf[f])
        /\ job' = [job EXCEPT ![f] = m]
    BY <1>4 DEF Submit
  <2>2. m \in ClientMemory[f]
    BY <2>1, OneFile DEF MemoryOf, ClientMemory
  <2>3. Engine!Start(f, m)
    BY <1>1, <1>2, <2>1, <2>2 DEF Engine!Start
  <2> QED BY <2>3 DEF Engine!Next, Engine!Memory
<1> QED BY <1>3, <1>4 DEF JobStep

\* cedardev_release: first the jobs of all end, then the memory goes, then the file
\* leaves with its references.
LEMMA ReleaseRefines ==
  ASSUME DmaAssumption, OneFilePerProcess, EngineInv, EngineInv',
         NEW f \in Files, ReleaseStep(f)
  PROVE  Engine!Next \/ UNCHANGED Engine!vars
<1> USE DEF EngineInv, PInv
<1>1. CASE ReleaseBegin(f)
  <2>1. CASE refs[f] > 0 \/ lock = f \/ coh[f] # {}
    BY <1>1, <2>1, EngineEndsAll DEF ReleaseBegin, refVars, memVars
  <2>2. CASE ~(refs[f] > 0 \/ lock = f \/ coh[f] # {})
    BY <1>1, <2>2, EngineStutters DEF ReleaseBegin, refVars, memVars
  <2> QED BY <2>1, <2>2
<1>2. CASE ReleaseGiveBack(f)
  <2>1. /\ call[f] = "give_back" /\ coh' = [coh EXCEPT ![f] = {}] /\ UnmapAll(ProcOf[f])
        /\ UNCHANGED <<refs, clk, job, pm>>
    BY <1>2 DEF ReleaseGiveBack, refVars, hwVars
  <2>2. job[f] = None
    BY <2>1 DEF DmaInv, RunningJob
  <2>3. (\A g \in Files \ {f} : coh'[g] = coh[g]) /\ coh'[f] \subseteq coh[f]
    BY <2>1 DEF TypeOK
  <2>4. /\ \A g \in Files \ {f} : ClientMemory'[g] = ClientMemory[g]
        /\ ClientMemory'[f] \subseteq ClientMemory[f]
    BY <2>1, <2>3, OthersKeepMemory
  <2> QED BY <2>1, <2>2, <2>4, EngineGivesBack
<1>3. CASE ReleaseRefs(f)
  <2>1. /\ call[f] = "drop_refs" /\ sem = None /\ sem' = None
        /\ refs' = [refs EXCEPT ![f] = 0] /\ UNCHANGED <<coh, pm>>
    BY <1>3 DEF ReleaseRefs
  <2>2. job[f] = None
    BY <2>1 DEF DmaInv, RunningJob
  <2>3. refCount' = 0 <=> ~Engine!InUse'
    <3>1. \A g \in Files : call'[g] # "enable"
      BY <2>1 DEF PowerInv, SemHeld, DmaAssumption
    <3> QED BY <3>1, CountMeansUsersNext
  <2>4. ClientMemory' \in [Files -> SUBSET (Bufs \cup Dbufs)]
    BY DEF TypeOK, ClientMemory, MappedBy
  <2>5. ASSUME UNCHANGED <<mapped, clk, job>>
        PROVE  /\ \A g \in Files \ {f} : ClientMemory'[g] = ClientMemory[g]
               /\ ClientMemory'[f] \subseteq ClientMemory[f]
    <3>1. ClientMemory' = ClientMemory
      BY <2>1, <2>5 DEF ClientMemory, MappedBy
    <3> QED BY <3>1
  <2>6. CASE refs[f] > 0 /\ refCount' = 0 /\ clk
    <3>1. clk' = FALSE /\ job' = NoJobs /\ UnmapAll(ProcOf[f])
      <4>1. ~(refCount' > 0) /\ refs[f] # 0
        BY <2>6
      <4> QED BY <1>3, <2>6, <4>1, ZenonT(60) DEF ReleaseRefs, Quiesce
    <3>2. /\ \A g \in Files \ {f} : ClientMemory'[g] = ClientMemory[g]
          /\ ClientMemory'[f] \subseteq ClientMemory[f]
      <4>1. (\A g \in Files \ {f} : coh'[g] = coh[g]) /\ coh'[f] \subseteq coh[f]
        BY <2>1
      <4> QED BY <3>1, <4>1, OthersKeepMemory
    <3>3. ~Engine!InUse'
      BY <2>3, <2>6
    <3>4. Engine!Leave(f)
      BY <2>1, <2>2, <2>4, <3>1, <3>2, <3>3 DEF Engine!Leave, Engine!Memory, Engine!NoJobs, NoJobs
    <3> QED BY <3>4 DEF Engine!Next
  <2>7. CASE refs[f] > 0 /\ refCount' > 0
    <3>1. UNCHANGED <<mapped, clk, job>>
      BY <1>3, <2>7 DEF ReleaseRefs
    <3>2. Engine!InUse'
      BY <2>3, <2>7
    <3>3. Engine!Leave(f)
      BY <2>1, <2>2, <2>4, <2>5, <3>1, <3>2 DEF Engine!Leave, Engine!Memory
    <3> QED BY <3>3 DEF Engine!Next
  <2>8. CASE refs[f] > 0 /\ refCount' = 0 /\ ~clk
    <3>1. UNCHANGED <<mapped, clk, job>>
      BY <1>3, <2>8 DEF ReleaseRefs, hwVars
    <3>2. ~Engine!InUse'
      BY <2>3, <2>8
    <3>3. job' = NoJobs /\ clk' = FALSE
      <4>1. \A g \in Files : job[g] = None
        BY <2>8 DEF DmaInv, RunningJob
      <4> QED BY <2>8, <3>1, <4>1 DEF NoJobs, TypeOK
    <3>4. Engine!Leave(f)
      BY <2>1, <2>2, <2>4, <2>5, <3>1, <3>2, <3>3 DEF Engine!Leave, Engine!Memory, Engine!NoJobs, NoJobs
    <3> QED BY <3>4 DEF Engine!Next
  <2>9. CASE refs[f] = 0
    <3>1. UNCHANGED <<mapped, clk, job>>
      BY <1>3, <2>9 DEF ReleaseRefs, hwVars
    <3>2. refs' = refs
      BY <2>1, <2>9 DEF TypeOK
    <3> QED BY <2>1, <3>1, <3>2, EngineStutters
  <2>10. refs[f] \in Nat /\ refCount' \in Nat
    BY DEF TypeOK
  <2> QED BY <2>6, <2>7, <2>8, <2>9, <2>10
<1> QED BY <1>1, <1>2, <1>3 DEF ReleaseStep

\* Suspend and resume, with or without references, and when the clock fails.
LEMMA SleepRefines ==
  ASSUME DmaAssumption, EngineInv, Suspend \/ Resume \/ ResumeFail
  PROVE  Engine!Next \/ UNCHANGED Engine!vars
<1> USE DEF EngineInv, PInv
<1>0. UNCHANGED <<refs, coh, mapped>>
  BY DEF Suspend, Resume, ResumeFail, refVars, memVars
<1>1. ClientMemory' = ClientMemory
  BY <1>0 DEF ClientMemory, MappedBy
<1>2. CASE Suspend
  <2>1. pm' = "suspended" /\ clk' = FALSE /\ job' = NoJobs
    <3>1. CASE clk
      BY <1>2, <3>1 DEF Suspend, Quiesce
    <3>2. CASE ~clk
      <4>1. \A g \in Files : job[g] = None
        BY <3>2 DEF DmaInv, RunningJob
      <4> QED BY <1>2, <3>2, <4>1 DEF Suspend, hwVars, NoJobs, TypeOK
    <3> QED BY <3>1, <3>2
  <2>2. Engine!Sleep
    BY <1>0, <1>1, <2>1 DEF Engine!Sleep, Engine!NoJobs, NoJobs
  <2> QED BY <2>2 DEF Engine!Next
<1>3. CASE Resume
  <2>1. pm = "suspended" /\ pm' = "on" /\ job' = job
    BY <1>3 DEF Resume
  <2>2. ~clk /\ \A g \in Files : call[g] = "idle"
    BY <2>1 DEF PowerInv
  <2>3. refCount = 0 <=> ~Engine!InUse
    BY <2>2, CountMeansUsers
  <2>4. clk' = Engine!InUse
    <3>1. CASE refCount = 0
      BY <1>3, <2>2, <2>3, <3>1 DEF Resume, TypeOK, Engine!InUse
    <3>2. CASE refCount # 0
      BY <1>3, <2>3, <3>2 DEF Resume, Engine!InUse
    <3> QED BY <3>1, <3>2
  <2>5. Engine!Wake
    BY <1>0, <1>1, <2>1, <2>4 DEF Engine!Wake
  <2> QED BY <2>5 DEF Engine!Next
<1>4. CASE ResumeFail
  BY <1>0, <1>4, EngineStutters DEF ResumeFail, hwVars
<1> QED BY <1>2, <1>3, <1>4

\* Every step of the legacy device is a step of the engine its clients see, or none.
LEMMA StepRefines ==
  ASSUME DmaAssumption, OneFilePerProcess, Waits, EngineInv, EngineInv', [Next]_vars
  PROVE  [Engine!Next]_(Engine!vars)
<1>1. CASE UNCHANGED vars
  BY <1>1, EngineStutters DEF vars
<1>2. ASSUME NEW f \in Files, Open(f) \/ GetLock(f) \/ ReleaseLock(f)
      PROVE  UNCHANGED Engine!vars
  BY <1>2, EngineStutters DEF Open, GetLock, ReleaseLock, refVars, memVars, hwVars
<1> QED BY <1>1, <1>2, EngineCallsRefine, MemoryCallsRefine, JobsRefine, ReleaseRefines,
           SleepRefines DEF Next

\* For clients with one file each that wait for their jobs, ioctls, release, suspend
\* and resume implement CedarEngine, however their steps interleave: one count of
\* references and one semaphore do what references of every client's own would do.
THEOREM EngineRefined == OneFilePerProcess /\ Waits => (Spec => ImplementsEngine)
<1> SUFFICES ASSUME OneFilePerProcess, Waits PROVE Spec => ImplementsEngine
  OBVIOUS
<1>1. Init => Engine!Init
  <2> SUFFICES ASSUME Init PROVE Engine!Init
    OBVIOUS
  <2>1. ClientMemory = [f \in Files |-> {}]
    BY DEF Init, ClientMemory, MappedBy
  <2> QED BY <2>1 DEF Init, Engine!Init, Engine!NoJobs, NoJobs
<1>2. EngineInv /\ EngineInv' /\ [Next]_vars => [Engine!Next]_(Engine!vars)
  BY StepRefines, DmaAssumption
<1>3. Spec => []EngineInv
  BY PowerInductive, DmaInductive, CountCorrect, PTL DEF EngineInv
<1> QED BY <1>1, <1>2, <1>3, PTL DEF Spec, ImplementsEngine, Engine!Spec

\* The promise of CedarEngine is inductive: jobs have all they need, whoever holds a
\* reference finds the engine running, and nobody shares private memory.
LEMMA PromiseKept ==
  ASSUME None \notin Bufs \cup Dbufs, Engine!Promise, [Engine!Next]_(Engine!vars)
  PROVE  Engine!Promise'
<1> DEFINE mem == ClientMemory
           asleep == pm # "on"
           Typed == /\ refs' \in [Files -> Nat] /\ clk' \in BOOLEAN
                    /\ mem' \in [Files -> SUBSET (Bufs \cup Dbufs)]
                    /\ job' \in [Files -> Bufs \cup Dbufs \cup {None}]
           Supplied == \A f \in Files : job'[f] # None => clk' /\ refs'[f] > 0 /\ job'[f] \in mem'[f]
           Runs == ((\E f \in Files : refs'[f] > 0) /\ ~asleep' => clk') /\ (asleep' => ~clk')
           Owned == \A f, g \in Files : f # g => mem'[f] \cap mem'[g] \cap Bufs = {}
           Good == Typed /\ Supplied /\ Runs /\ Owned
<1> HIDE DEF mem
<1> USE DEF Engine!NoJobs, Engine!Memory, Engine!InUse
<1>0. /\ refs \in [Files -> Nat] /\ clk \in BOOLEAN
      /\ mem \in [Files -> SUBSET (Bufs \cup Dbufs)]
      /\ job \in [Files -> Bufs \cup Dbufs \cup {None}]
      /\ \A f \in Files : job[f] # None => clk /\ refs[f] > 0 /\ job[f] \in mem[f]
      /\ (\E f \in Files : refs[f] > 0) /\ ~asleep => clk
      /\ asleep => ~clk
      /\ \A f, g \in Files : f # g => mem[f] \cap mem[g] \cap Bufs = {}
  BY DEF Engine!Promise, Engine!TypeOK, Engine!JobsSupplied, Engine!RunsForHolders,
         Engine!StoppedAsleep, Engine!OneOwner, mem
<1>1. SUFFICES Good
  BY DEF Engine!Promise, Engine!TypeOK, Engine!JobsSupplied, Engine!RunsForHolders,
         Engine!StoppedAsleep, Engine!OneOwner, mem
<1>2. CASE UNCHANGED Engine!vars
  BY <1>0, <1>2 DEF Engine!vars, mem
<1>3. ASSUME NEW f \in Files, Engine!Take(f) PROVE Good
  <2>1. /\ refs' = [refs EXCEPT ![f] = @ + 1] /\ mem' = mem /\ job' = job
        /\ \/ (\E g \in Files : refs[g] > 0) /\ clk' = clk /\ asleep' = asleep
           \/ ~clk /\ clk' = TRUE /\ ~asleep'
    BY <1>3 DEF Engine!Take, mem
  <2>2. refs' \in [Files -> Nat] /\ \A g \in Files : refs[g] > 0 => refs'[g] > 0
    BY <1>0, <2>1
  <2>3. clk' \in BOOLEAN /\ (clk => clk')
    BY <1>0, <2>1
  <2>4. Supplied
    BY <1>0, <2>1, <2>2, <2>3
  <2>5. Runs
    BY <1>0, <2>1
  <2>6. Owned
    BY <1>0, <2>1
  <2> QED BY <1>0, <2>1, <2>2, <2>3, <2>4, <2>5, <2>6
<1>4. ASSUME NEW f \in Files, Engine!Give(f) PROVE Good
  <2>1. /\ refs' = [refs EXCEPT ![f] = @ - 1] /\ mem' = mem /\ job' = job
        /\ clk' = clk /\ asleep' = asleep /\ refs[f] > 0 /\ (refs[f] = 1 => job[f] = None)
    BY <1>4 DEF Engine!Give, mem
  <2>2. refs' \in [Files -> Nat] /\ \A g \in Files : refs'[g] > 0 => refs[g] > 0
    BY <1>0, <2>1
  <2>3. \A g \in Files : job[g] # None => refs'[g] > 0
    BY <1>0, <2>1
  <2> QED BY <1>0, <2>1, <2>2, <2>3
<1>5. ASSUME NEW f \in Files, mem'[f] \subseteq mem[f],
             \A g \in Files \ {f} : mem'[g] = mem[g]
      PROVE  Owned
  BY <1>0, <1>5
<1>6. ASSUME NEW f \in Files, Engine!GiveBack(f) PROVE Good
  <2>1. /\ refs' = refs /\ clk' = clk /\ asleep' = asleep /\ job' = job
        /\ mem' \in [Files -> SUBSET (Bufs \cup Dbufs)]
        /\ mem'[f] \subseteq mem[f] /\ \A g \in Files \ {f} : mem'[g] = mem[g]
        /\ job[f] # None => job[f] \in mem'[f]
    BY <1>6 DEF Engine!GiveBack, mem
  <2>2. Owned
    BY <1>5, <2>1
  <2>3. Supplied
    BY <1>0, <2>1
  <2> QED BY <1>0, <2>1, <2>2, <2>3
<1>7. ASSUME NEW f \in Files, Engine!Leave(f) PROVE Good
  <2>1. /\ refs' = [refs EXCEPT ![f] = 0] /\ asleep' = asleep /\ job[f] = None
        /\ mem' \in [Files -> SUBSET (Bufs \cup Dbufs)]
        /\ mem'[f] \subseteq mem[f] /\ \A g \in Files \ {f} : mem'[g] = mem[g]
        /\ \/ (\E g \in Files : refs'[g] > 0) /\ clk' = clk /\ job' = job
           \/ ~(\E g \in Files : refs'[g] > 0) /\ clk' = FALSE
              /\ job' = [g \in Files |-> None]
    BY <1>7 DEF Engine!Leave, mem
  <2>2. Owned
    BY <1>5, <2>1
  <2>3. refs' \in [Files -> Nat] /\ \A g \in Files : refs'[g] > 0 => refs[g] > 0
    BY <1>0, <2>1
  <2>4. \A g \in Files \ {f} : refs'[g] = refs[g]
    BY <1>0, <2>1
  <2>5. Supplied
    BY <1>0, <2>1, <2>4
  <2>6. Runs
    BY <1>0, <2>1, <2>3
  <2>7. Typed
    BY <1>0, <2>1, <2>3
  <2> QED BY <2>2, <2>5, <2>6, <2>7
<1>8. ASSUME NEW f \in Files, NEW m \in Bufs \cup Dbufs, Engine!Obtain(f, m) PROVE Good
  <2>1. /\ m \in Bufs => \A g \in Files : m \notin mem[g]
        /\ mem' = [mem EXCEPT ![f] = @ \cup {m}]
        /\ refs' = refs /\ clk' = clk /\ asleep' = asleep /\ job' = job
    BY <1>8 DEF Engine!Obtain, mem
  <2>2. mem' \in [Files -> SUBSET (Bufs \cup Dbufs)]
    BY <1>0, <2>1
  <2>3. \A g \in Files : mem'[g] = IF g = f THEN mem[f] \cup {m} ELSE mem[g]
    BY <1>0, <2>1
  <2>4. Owned
    <3> SUFFICES ASSUME NEW g \in Files, NEW h \in Files, g # h,
                        NEW b \in Bufs, b \in mem'[g], b \in mem'[h]
                 PROVE  FALSE
      BY DEF Owned
    <3>1. b \in mem[g] \/ (g = f /\ b = m)
      BY <2>3
    <3>2. b \in mem[h] \/ (h = f /\ b = m)
      BY <2>3
    <3> QED BY <1>0, <2>1, <3>1, <3>2
  <2>5. Supplied
    BY <1>0, <2>1, <2>3
  <2> QED BY <1>0, <2>1, <2>2, <2>4, <2>5
<1>9. ASSUME NEW f \in Files, NEW m \in Bufs \cup Dbufs, Engine!Start(f, m) PROVE Good
  <2>1. /\ refs[f] > 0 /\ clk /\ m \in mem[f] /\ job' = [job EXCEPT ![f] = m]
        /\ mem' = mem /\ refs' = refs /\ clk' = clk /\ asleep' = asleep
    BY <1>9 DEF Engine!Start, mem
  <2>2. Supplied
    BY <1>0, <2>1
  <2> QED BY <1>0, <2>1, <2>2
<1>10. ASSUME /\ refs' = refs /\ mem' = mem /\ job' \in [Files -> Bufs \cup Dbufs \cup {None}]
              /\ \A f \in Files : job'[f] # None => job'[f] = job[f] /\ clk'
              /\ clk' \in BOOLEAN, Runs
       PROVE  Good
  BY <1>0, <1>10
<1>11. ASSUME NEW f \in Files, Engine!End(f) PROVE Good
  <2>1. /\ refs' = refs /\ mem' = mem /\ clk' = clk /\ asleep' = asleep
        /\ job' = [job EXCEPT ![f] = None]
    BY <1>11 DEF Engine!End, mem
  <2>2. \A g \in Files : job'[g] # None => job'[g] = job[g] /\ clk'
    BY <1>0, <2>1
  <2> QED BY <1>0, <1>10, <2>1, <2>2
<1>12. CASE Engine!EndAll
  <2>1. /\ refs' = refs /\ mem' = mem /\ clk' = clk /\ asleep' = asleep
        /\ job' = [g \in Files |-> None]
    BY <1>12 DEF Engine!EndAll, mem
  <2> QED BY <1>0, <1>10, <2>1
<1>13. CASE Engine!Rest
  <2>1. /\ refs' = refs /\ mem' = mem /\ clk' = FALSE /\ asleep' = asleep
        /\ job' = [g \in Files |-> None] /\ ~(\E f \in Files : refs[f] > 0)
    BY <1>13 DEF Engine!Rest, mem
  <2> QED BY <1>0, <1>10, <2>1
<1>14. CASE Engine!Sleep
  <2>1. /\ refs' = refs /\ mem' = mem /\ clk' = FALSE /\ asleep' = TRUE
        /\ job' = [g \in Files |-> None]
    BY <1>14 DEF Engine!Sleep, mem
  <2> QED BY <1>0, <1>10, <2>1
<1>15. CASE Engine!Wake
  <2>1. /\ refs' = refs /\ mem' = mem /\ job' = job /\ asleep /\ ~asleep'
        /\ clk' = \E f \in Files : refs[f] > 0
    BY <1>15 DEF Engine!Wake, mem
  <2>2. clk' \in BOOLEAN /\ Runs /\ \A f \in Files : job[f] = None
    BY <1>0, <2>1
  <2> QED BY <1>0, <1>10, <2>1, <2>2
<1> HIDE DEF Good
<1> QED BY <1>2, <1>3, <1>4, <1>6, <1>7, <1>8, <1>9, <1>11, <1>12, <1>13, <1>14, <1>15
        DEF Engine!Next

\* Each client of the legacy device finds its jobs supplied, its references honoured
\* and its memory its own, for any number of clients, references and buffers.
THEOREM EnginePromises == OneFilePerProcess /\ Waits => (Spec => []Engine!Promise)
<1> SUFFICES ASSUME OneFilePerProcess, Waits PROVE Spec => []Engine!Promise
  OBVIOUS
<1>1. None \notin Bufs \cup Dbufs
  BY DmaAssumption DEF DmaAssumption
<1>2. Engine!Init => Engine!Promise
  <2> SUFFICES ASSUME Engine!Init PROVE Engine!Promise
    OBVIOUS
  <2>1. /\ refs = [f \in Files |-> 0] /\ clk = FALSE /\ ~(pm # "on")
        /\ job = [f \in Files |-> None] /\ ClientMemory = [f \in Files |-> {}]
    BY DEF Engine!Init, Engine!NoJobs
  <2>2. \A f \in Files : refs[f] = 0 /\ job[f] = None /\ ClientMemory[f] = {}
    BY <2>1
  <2>3. Engine!TypeOK
    BY <2>1 DEF Engine!TypeOK, Engine!Memory
  <2>4. Engine!JobsSupplied /\ Engine!OneOwner
    BY <2>2 DEF Engine!JobsSupplied, Engine!OneOwner
  <2>5. Engine!RunsForHolders /\ Engine!StoppedAsleep
    BY <2>1, <2>2 DEF Engine!RunsForHolders, Engine!StoppedAsleep, Engine!InUse
  <2> QED BY <2>3, <2>4, <2>5 DEF Engine!Promise
<1>3. Engine!Promise /\ [Engine!Next]_(Engine!vars) => Engine!Promise'
  BY <1>1, PromiseKept
<1> QED BY <1>2, <1>3, EngineRefined, PTL DEF ImplementsEngine, Engine!Spec

=============================================================================
