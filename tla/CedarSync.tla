------------------------------ MODULE CedarSync ------------------------------
(***************************************************************************)
(* How clients of the legacy character device take turns: the locks that   *)
(* one ioctl takes and another gives back, which the release of the file   *)
(* must give back for a client that died, and the wait for the decoder's   *)
(* interrupt.  Threads of a process may share a file.                      *)
(*                                                                         *)
(* Clients keep the order the codec library keeps: they take the codec     *)
(* lock holding an engine reference, wait once for each job they start,    *)
(* reset the engine when the wait returned 0, and give back the lock when  *)
(* they believe their job is over.  That belief is all they have: neither  *)
(* the lock nor the trigger looks at the engine.  The interrupt handler    *)
(* takes no lock, so its two stores fall anywhere between the steps of a   *)
(* wait, after it, or into the turn of the next client.                    *)
(***************************************************************************)
EXTENDS Naturals

CONSTANTS
  SyFile,     \* files of /dev/cedar_dev
  SyThread,   \* client threads
  SyFileOf,   \* the file a thread uses
  SyNone

SyLock == {"vdec", "proc"}    \* lock_vdec and lock_proc

ASSUME SyAssumption == SyFileOf \in [SyThread -> SyFile] /\ SyNone \notin SyThread

VARIABLES
  syOpened,  \* open files
  syHolder,  \* the thread for which each mutex is held
  syFlags,   \* info->lock_flags of each file
  syPc,      \* where the call of a thread stands: a step and the lock it is about
  syEngine,  \* the decoder: "idle", "running", or "raised" its interrupt
  syIsr,     \* the next store of VideoEngineInterupt: "none", "value", "flag"
  syValue,   \* de_irq_value
  syFlag,    \* de_irq_flag
  syJob,     \* the thread whose job is not over as far as it knows, or SyNone
  syHandled, \* history: the handler stored its value since the last trigger
  syOdd      \* history: what befell the last job that the two stores do not exclude:
             \* "none"; "stale": it was started with the engine busy, the handler
             \* running or the flag set; "missed": the wait forgot the value before
             \* it looked, and the flag came after it had looked

syLocks == <<syOpened, syHolder, syFlags>>
syIrq   == <<syIsr, syValue, syFlag, syHandled>>
syWait  == <<syEngine, syIrq, syJob, syOdd>>
syVars  == <<syLocks, syPc, syWait>>

SyOut == <<"out", SyNone>>
SyGo(t, step, l) == syPc' = [syPc EXCEPT ![t] = <<step, l>>]
SyReturn(t) == syPc' = [syPc EXCEPT ![t] = SyOut]

\* cedardev_open clears the flag when nobody holds a reference to the engine,
\* which implies that nobody holds the codec lock.
SyOpen(f) ==
  /\ f \notin syOpened
  /\ syOpened' = syOpened \cup {f}
  /\ \/ UNCHANGED syFlag
     \/ syHolder["vdec"] = SyNone /\ syFlag' = 0
  /\ UNCHANGED <<syHolder, syFlags, syPc, syEngine, syIsr, syValue, syHandled, syJob, syOdd>>

\* IOCTL_GET_LOCK and IOCTL_SET_PROC_INFO: the mutex, then the flag of the file.
SyGetLock(t, l) ==
  /\ SyFileOf[t] \in syOpened /\ syPc[t] = SyOut /\ syHolder[l] = SyNone
  /\ syHolder' = [syHolder EXCEPT ![l] = t]
  /\ SyGo(t, "record", l)
  /\ UNCHANGED <<syOpened, syFlags, syWait>>

SyRecord(t, l) ==
  /\ syPc[t] = <<"record", l>>
  /\ syFlags' = [syFlags EXCEPT ![SyFileOf[t]] = @ \cup {l}]
  /\ SyReturn(t)
  /\ UNCHANGED <<syOpened, syHolder, syWait>>

\* SET_PROC_INFO of arguments it refuses.
SySetProcInfoFails(t) ==
  /\ syPc[t] = <<"record", "proc">>
  /\ syHolder' = [syHolder EXCEPT !["proc"] = SyNone]
  /\ SyReturn(t)
  /\ UNCHANGED <<syOpened, syFlags, syWait>>

SyMayRelease(t, l) ==
  /\ syPc[t] = SyOut /\ syHolder[l] = t
  /\ l = "vdec" => syJob = SyNone

\* IOCTL_RELEASE_LOCK and IOCTL_COPY_PROC_INFO (all of its returns): the flag,
\* then the mutex.  Without the flag the lock is not released.
SyReleaseLock(t, l) ==
  /\ SyMayRelease(t, l) /\ l \in syFlags[SyFileOf[t]]
  /\ syFlags' = [syFlags EXCEPT ![SyFileOf[t]] = @ \ {l}]
  /\ SyGo(t, "unlock", l)
  /\ UNCHANGED <<syOpened, syHolder, syWait>>

SyUnlock(t, l) ==
  /\ syPc[t] = <<"unlock", l>>
  /\ syHolder' = [syHolder EXCEPT ![l] = SyNone]
  /\ SyReturn(t)
  /\ UNCHANGED <<syOpened, syFlags, syWait>>

\* Faulty variant of SyGivenBack: release does not know the newest lock.
SyGivenBackCodecOnly(f) == syFlags[f] \ {"proc"}

\* The locks cedardev_release unlocks: all the file has recorded.
SyGivenBack(f) == syFlags[f]

\* cedardev_release of a client that may have died: with a lock held, engine
\* references or coherent buffers the engine is reset, whoever uses it, and its
\* interrupt handler waited for; then the locks are unlocked.  With the last
\* reference to the engine the flag is set.
SyRelease(f) ==
  /\ f \in syOpened
  /\ \A t \in SyThread : SyFileOf[t] = f => syPc[t] = SyOut
  /\ \/ syEngine' = "idle" /\ syIsr = "none"
     \/ syFlags[f] = {} /\ UNCHANGED syEngine
  /\ syHolder' = [l \in SyLock |-> IF l \in SyGivenBack(f) THEN SyNone ELSE syHolder[l]]
  /\ syFlags' = [syFlags EXCEPT ![f] = {}]
  /\ syOpened' = syOpened \ {f}
  /\ syJob' = IF syJob \in SyThread /\ SyFileOf[syJob] = f THEN SyNone ELSE syJob
  /\ \/ UNCHANGED syFlag
     \/ syHolder'["vdec"] = SyNone /\ syFlag' = 1
  /\ UNCHANGED <<syPc, syIsr, syValue, syHandled, syOdd>>

-----------------------------------------------------------------------------
(* The decoder's interrupt.                                                *)

\* The client starts a job through its mapping of the registers.
SyTrigger(t) ==
  /\ syPc[t] = SyOut /\ syHolder["vdec"] = t /\ syJob = SyNone
  /\ syEngine' = "running" /\ syJob' = t /\ syHandled' = FALSE
  /\ syOdd' = IF syEngine = "idle" /\ syIsr = "none" /\ syFlag = 0 THEN "none" ELSE "stale"
  /\ UNCHANGED <<syLocks, syPc, syIsr, syValue, syFlag>>

SyRaise ==
  /\ syEngine = "running"
  /\ syEngine' = "raised"
  /\ UNCHANGED <<syLocks, syPc, syIrq, syJob, syOdd>>

\* VideoEngineInterupt: disable the interrupt of the engine,
SyIsrEnter ==
  /\ syEngine = "raised" /\ syIsr = "none"
  /\ syEngine' = "idle" /\ syIsr' = "value"
  /\ UNCHANGED <<syLocks, syPc, syValue, syFlag, syHandled, syJob, syOdd>>

\* set the value, then the flag, and wake the waiting thread.
SyIsrValue ==
  /\ syIsr = "value"
  /\ syValue' = 1 /\ syIsr' = "flag" /\ syHandled' = TRUE
  /\ UNCHANGED <<syLocks, syPc, syEngine, syFlag, syJob, syOdd>>

SyIsrFlag ==
  /\ syIsr = "flag"
  /\ syFlag' = 1 /\ syIsr' = "none"
  /\ UNCHANGED <<syLocks, syPc, syEngine, syValue, syHandled, syJob, syOdd>>

\* IOCTL_WAIT_VE_DE by the thread that decodes: forget the last value,
SyWaitBegin(t) ==
  /\ syPc[t] = SyOut /\ syJob = t
  /\ syValue' = 0
  /\ SyGo(t, "check", "vdec")
  /\ UNCHANGED <<syLocks, syEngine, syIsr, syFlag, syHandled, syJob, syOdd>>

\* Faulty variant of SyLooked: the wait relies on the value alone.
SyLookedAway == syValue

\* What an interrupt that came before leaves of the value.
SyLooked == IF syFlag = 1 THEN 1 ELSE syValue

\* look for an interrupt that came before,
SyWaitCheck(t) ==
  /\ syPc[t][1] = "check"
  /\ syValue' = SyLooked
  /\ syOdd' = IF syOdd = "none" /\ syIsr = "flag" /\ syValue = 0 /\ syFlag = 0
                THEN "missed" ELSE syOdd
  /\ SyGo(t, "sleep", "vdec")
  /\ UNCHANGED <<syLocks, syEngine, syIsr, syFlag, syHandled, syJob>>

\* sleep until the flag is set or the time is over, and clear the flag,
SyWaitEnd(t) ==
  /\ syPc[t][1] = "sleep"
  /\ syFlag' = 0
  /\ SyGo(t, "result", "vdec")
  /\ UNCHANGED <<syLocks, syEngine, syIsr, syValue, syHandled, syJob, syOdd>>

\* and return the value.  The job is over for the client: after a 1 it is decoded,
\* after a 0 the client resets the engine (IOCTL_RESET_VE).
SyWaitResult(t) ==
  /\ syPc[t][1] = "result"
  /\ syEngine' = IF syValue = 0 THEN "idle" ELSE syEngine
  /\ syJob' = SyNone
  /\ SyReturn(t)
  /\ UNCHANGED <<syLocks, syIrq, syOdd>>
-----------------------------------------------------------------------------

SyInit ==
  /\ syOpened = {} /\ syHolder = [l \in SyLock |-> SyNone]
  /\ syFlags = [f \in SyFile |-> {}] /\ syPc = [t \in SyThread |-> SyOut]
  /\ syEngine = "idle" /\ syIsr = "none" /\ syValue = 0 /\ syFlag = 0
  /\ syJob = SyNone /\ syHandled = FALSE /\ syOdd = "none"

SyNext ==
  \/ \E f \in SyFile : SyOpen(f) \/ SyRelease(f)
  \/ \E t \in SyThread :
       \/ \E l \in SyLock : \/ SyGetLock(t, l) \/ SyRecord(t, l)
                            \/ SyReleaseLock(t, l) \/ SyUnlock(t, l)
       \/ SySetProcInfoFails(t) \/ SyTrigger(t)
       \/ SyWaitBegin(t) \/ SyWaitCheck(t) \/ SyWaitEnd(t) \/ SyWaitResult(t)
  \/ SyRaise \/ SyIsrEnter \/ SyIsrValue \/ SyIsrFlag

SySpec == SyInit /\ [][SyNext]_syVars

\* Every variable keeps the shape its C counterpart has.
SyTypeOK ==
  /\ syOpened \subseteq SyFile /\ syHolder \in [SyLock -> SyThread \cup {SyNone}]
  /\ syFlags \in [SyFile -> SUBSET SyLock]
  /\ syPc \in [SyThread -> {"out", "record", "unlock", "check", "sleep", "result"}
                            \X (SyLock \cup {SyNone})]
  /\ syEngine \in {"idle", "running", "raised"} /\ syIsr \in {"none", "value", "flag"}
  /\ syValue \in 0..1 /\ syFlag \in 0..1
  /\ syJob \in SyThread \cup {SyNone} /\ syHandled \in BOOLEAN
  /\ syOdd \in {"none", "stale", "missed"}

\* Between the calls of its thread a held lock is recorded by an open file, and
\* what a file has recorded is held for one of its threads: the release of a dead
\* client unlocks all it left locked, and nothing else.
SyHeldIsRecorded ==
  \A l \in SyLock :
    /\ \A t \in SyThread : syHolder[l] = t /\ syPc[t] = SyOut
         => SyFileOf[t] \in syOpened /\ l \in syFlags[SyFileOf[t]]
    /\ \A f \in SyFile : l \in syFlags[f]
         => \E t \in SyThread : syHolder[l] = t /\ SyFileOf[t] = f

\* The engine works under the codec lock, though a client gives that back on the
\* word of WAIT_VE_DE, unless the job was started with something left behind: a
\* flag that came after the wait it was for (cedar_ve.c:657 after 1546) or that
\* the close of the last reference set (2290), or an engine left busy by that.
SyEngineUnderLock == syEngine # "idle" /\ syHolder["vdec"] = SyNone => syOdd = "stale"

\* Clients of the legacy device take turns: no lock is lost with a client, and no
\* job outlives the codec lock it was started under.
TurnsKept == SyHeldIsRecorded /\ SyEngineUnderLock

\* WAIT_VE_DE returns 1 for a job of a clean start if and only if its interrupt was
\* handled.  There is one exception, the interleaving the two stores leave open:
\* the handler stores the value (cedar_ve.c:656), the wait forgets it (1512) and
\* finds no flag (1542), then the flag comes (657) and wakes it.  Such a wait, and
\* only such a wait, returns 0 for a job that is decoded.
WaitsTruthful ==
  \A t \in SyThread : syPc[t][1] = "result" =>
    /\ syOdd = "none" => (syValue = 1 <=> syHandled)
    /\ syOdd = "missed" => syValue = 0 /\ syHandled
=============================================================================
