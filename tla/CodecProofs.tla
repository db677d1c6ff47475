------------------------------- MODULE CodecProofs -------------------------------
(***************************************************************************)
(* The encoders, the turns that clients of the legacy device take, the     *)
(* setup paths, the registers, and all engines together: what the run of   *)
(* MCCodecs checks of one engine at a time, for every value of the         *)
(* constants.                                                              *)
(***************************************************************************)
EXTENDS MCCodecs, DecoderProofs, TLAPS

(* Clients of the legacy device take turns, for any number of files,       *)
(* threads and ways threads share files.                                   *)
\* A thread is between a mutex and the flag that records it.
Midway(t, l) == syPc[t] = <<"record", l>> \/ syPc[t] = <<"unlock", l>>
Waiting(t)   == syPc[t][1] \in {"check", "sleep", "result"}

\* What is held is recorded or about to be, or no longer, and only for threads of
\* open files; what is recorded is held.
LockInv ==
  \A l \in SyLock :
    /\ \A t \in SyThread :
         /\ syHolder[l] = t => /\ SyFileOf[t] \in syOpened
                               /\ Midway(t, l) \/ l \in syFlags[SyFileOf[t]]
         /\ Midway(t, l) => syHolder[l] = t /\ \A f \in SyFile : l \notin syFlags[f]
    /\ \A f \in SyFile : l \in syFlags[f] =>
         \E t \in SyThread : syHolder[l] = t /\ SyFileOf[t] = f /\ ~Midway(t, l)

\* A job is its thread's, which holds the codec lock as long as it waits for it.
TurnInv ==
  /\ syJob # SyNone => syHolder["vdec"] = syJob /\ ~Midway(syJob, "vdec")
  /\ \A t \in SyThread : Waiting(t) => syJob = t

\* An engine that works has a job, or is left from a start that was not clean.
EngineInv == syEngine # "idle" => syJob # SyNone \/ syOdd = "stale"

\* What the handler has done for a job of a clean start, and what its wait can know.
CleanJob ==
  /\ syEngine # "idle" => syIsr = "none" /\ ~syHandled
  /\ syIsr = "value" => ~syHandled
  /\ syIsr = "flag" => syHandled
  /\ syFlag = 1 => syHandled /\ syIsr = "none"
  /\ ~Waiting(syJob) => syOdd = "none" /\ (syHandled => syIsr = "flag" \/ syFlag = 1)
  /\ syPc[syJob][1] = "check" =>
       /\ syOdd = "none" /\ (syValue = 1 => syHandled)
       /\ syHandled /\ syValue = 0 => syIsr = "flag" \/ syFlag = 1
  /\ syPc[syJob][1] \in {"sleep", "result"} =>
       \/ syOdd = "none" /\ (syValue = 1 <=> syHandled)
       \/ syOdd = "missed" /\ syValue = 0 /\ syHandled

WaitInv == syJob # SyNone /\ syOdd # "stale" => CleanJob

SyInv == SyTypeOK /\ LockInv /\ TurnInv /\ EngineInv /\ WaitInv

\* Before any client.
LEMMA SyInitInv == ASSUME SyInit PROVE SyInv
<1>1. SyTypeOK
  <2>1. syHandled \in BOOLEAN
    BY DEF SyInit
  <2>2. QED BY <2>1, SyAssumption DEF SyInit, SyTypeOK, SyOut, SyLock
<1>2. \A t \in SyThread : syPc[t] = <<"out", SyNone>>
  BY DEF SyInit, SyOut
<1>3. LockInv
  BY <1>2, SyAssumption DEF SyInit, LockInv, Midway, SyLock
<1>4. TurnInv /\ EngineInv /\ WaitInv
  BY <1>2, SyAssumption DEF SyInit, TurnInv, EngineInv, WaitInv, Waiting
<1>5. QED BY <1>1, <1>3, <1>4 DEF SyInv

\* Where the other threads stand when one of them goes on.
LEMMA Moves ==
  ASSUME SyTypeOK, NEW t \in SyThread, NEW step, NEW l, syPc' = [syPc EXCEPT ![t] = <<step, l>>]
  PROVE  /\ syPc'[t] = <<step, l>>
         /\ \A u \in SyThread : u # t => syPc'[u] = syPc[u]
  BY DEF SyTypeOK

\* Steps that touch neither the engine nor a wait keep what is known of the job.
LEMMA JobUntouched ==
  ASSUME SyTypeOK, EngineInv, WaitInv, UNCHANGED syWait,
         \A u \in SyThread : syPc'[u] = syPc[u] \/ (~Waiting(u) /\ ~Waiting(u)')
  PROVE  EngineInv' /\ WaitInv'
<1>1. UNCHANGED <<syEngine, syIsr, syValue, syFlag, syHandled, syJob, syOdd>>
  BY DEF syWait, syIrq
<1>2. EngineInv'
  BY <1>1 DEF EngineInv
<1>3. syJob # SyNone =>
        syPc'[syJob] = syPc[syJob] \/ (~Waiting(syJob) /\ syPc'[syJob][1] \notin {"check", "sleep", "result"})
  BY DEF SyTypeOK, Waiting
<1>4. WaitInv'
  BY <1>1, <1>3 DEF WaitInv, CleanJob, Waiting
<1>5. QED BY <1>2, <1>4

\* A file is opened, which may clear the flag that nobody waits for.
LEMMA OpenKeeps == ASSUME SyInv, NEW f \in SyFile, SyOpen(f) PROVE SyInv'
<1>1. SyTypeOK'
  BY DEF SyInv, SyTypeOK, SyOpen
<1>2. LockInv' /\ TurnInv' /\ EngineInv' /\ WaitInv'
  BY SMTT(30) DEF SyInv, SyOpen, LockInv, TurnInv, EngineInv, WaitInv, CleanJob, Midway, Waiting
<1>3. QED BY <1>1, <1>2 DEF SyInv

\* A thread takes a free mutex.
LEMMA GetLockKeeps ==
  ASSUME SyInv, NEW t \in SyThread, NEW l \in SyLock, SyGetLock(t, l)
  PROVE  SyInv'
<1>0. SyTypeOK /\ LockInv /\ TurnInv /\ EngineInv /\ WaitInv /\ SyNone \notin SyThread
  BY SyAssumption DEF SyInv
<1>1. /\ syHolder' = [syHolder EXCEPT ![l] = t] /\ syHolder[l] = SyNone
      /\ syPc' = [syPc EXCEPT ![t] = <<"record", l>>] /\ syPc[t] = <<"out", SyNone>>
      /\ SyFileOf[t] \in syOpened
      /\ UNCHANGED <<syOpened, syFlags, syWait, syJob>>
  BY DEF SyGetLock, SyGo, SyOut, syWait
<1>2. /\ syPc'[t] = <<"record", l>>
      /\ \A u \in SyThread : u # t => syPc'[u] = syPc[u]
  BY <1>0, <1>1, Moves
<1>3. SyTypeOK'
  BY <1>0, <1>1 DEF SyTypeOK, syWait, syIrq
<1>4. \A k \in SyLock : syHolder'[k] = IF k = l THEN t ELSE syHolder[k]
  BY <1>0, <1>1 DEF SyTypeOK
<1>5. \A f \in SyFile : l \notin syFlags[f]
  BY <1>0, <1>1 DEF LockInv
<1>6. \A u \in SyThread, k \in SyLock :
        Midway(u, k)' <=> Midway(u, k) \/ (u = t /\ k = l)
  BY <1>1, <1>2 DEF Midway
<1>7. LockInv'
  BY <1>0, <1>1, <1>4, <1>5, <1>6 DEF LockInv
<1>8. TurnInv'
  <2>1. \A u \in SyThread : Waiting(u)' => Waiting(u)
    BY <1>2 DEF Waiting
  <2>2. l = "vdec" => syJob = SyNone
    BY <1>0, <1>1 DEF TurnInv, SyTypeOK
  <2>3. syJob # SyNone => ~Midway(syJob, "vdec")'
    BY <1>0, <1>1, <1>6, <2>2 DEF TurnInv, SyTypeOK, SyLock
  <2>4. QED BY <1>0, <1>1, <1>4, <2>1, <2>2, <2>3 DEF TurnInv, SyLock
<1>9. EngineInv' /\ WaitInv'
  BY <1>0, <1>1, <1>2, JobUntouched DEF Waiting
<1>10. QED BY <1>3, <1>7, <1>8, <1>9 DEF SyInv

\* The flag of the file records the lock.
LEMMA RecordKeeps ==
  ASSUME SyInv, NEW t \in SyThread, NEW l \in SyLock, SyRecord(t, l)
  PROVE  SyInv'
<1>0. SyTypeOK /\ LockInv /\ TurnInv /\ EngineInv /\ WaitInv /\ SyFileOf[t] \in SyFile
  BY SyAssumption DEF SyInv
<1>1. /\ syFlags' = [syFlags EXCEPT ![SyFileOf[t]] = syFlags[SyFileOf[t]] \cup {l}]
      /\ syPc' = [syPc EXCEPT ![t] = <<"out", SyNone>>] /\ syPc[t] = <<"record", l>>
      /\ UNCHANGED <<syOpened, syHolder, syWait, syJob>>
  BY DEF SyRecord, SyReturn, SyOut, syWait
<1>2. /\ syPc'[t] = <<"out", SyNone>>
      /\ \A u \in SyThread : u # t => syPc'[u] = syPc[u]
  BY <1>0, <1>1, Moves
<1>3. SyTypeOK'
  BY <1>0, <1>1 DEF SyTypeOK, syWait, syIrq
<1>4. \A f \in SyFile, k \in SyLock :
        k \in syFlags'[f] <=> k \in syFlags[f] \/ (f = SyFileOf[t] /\ k = l)
  BY <1>0, <1>1 DEF SyTypeOK
<1>5. syHolder[l] = t
  BY <1>0, <1>1 DEF LockInv, Midway
<1>6. \A u \in SyThread, k \in SyLock : Midway(u, k)' <=> Midway(u, k) /\ u # t
  BY <1>1, <1>2 DEF Midway
<1>7. \A k \in SyLock : Midway(t, k) => k = l
  BY <1>1 DEF Midway
<1>8. LockInv'
  BY <1>0, <1>1, <1>4, <1>5, <1>6, <1>7, SyAssumption DEF LockInv
<1>9. TurnInv' /\ EngineInv' /\ WaitInv'
  <2>1. \A u \in SyThread : Waiting(u)' => Waiting(u)
    BY <1>2 DEF Waiting
  <2>2. TurnInv'
    BY <1>0, <1>1, <1>6, <2>1 DEF TurnInv, SyTypeOK, SyLock
  <2>3. QED BY <1>0, <1>1, <1>2, <2>2, JobUntouched DEF Waiting
<1>10. QED BY <1>3, <1>8, <1>9 DEF SyInv

\* Giving a mutex back, with its flag cleared or never set.
LEMMA UnlockKeeps ==
  ASSUME SyInv, NEW t \in SyThread, NEW l \in SyLock, Midway(t, l),
         syHolder' = [syHolder EXCEPT ![l] = SyNone], SyReturn(t),
         UNCHANGED <<syOpened, syFlags, syWait>>
  PROVE  SyInv'
<1>0. SyTypeOK /\ LockInv /\ TurnInv /\ EngineInv /\ WaitInv /\ SyNone \notin SyThread
  BY SyAssumption DEF SyInv
<1>1. /\ syPc' = [syPc EXCEPT ![t] = <<"out", SyNone>>]
      /\ UNCHANGED <<syOpened, syFlags, syWait, syJob>>
  BY DEF SyReturn, SyOut, syWait
<1>2. /\ syPc'[t] = <<"out", SyNone>>
      /\ \A u \in SyThread : u # t => syPc'[u] = syPc[u]
  BY <1>0, <1>1, Moves
<1>3. SyTypeOK'
  BY <1>0, <1>1 DEF SyTypeOK, syWait, syIrq
<1>4. \A k \in SyLock : syHolder'[k] = IF k = l THEN SyNone ELSE syHolder[k]
  BY <1>0 DEF SyTypeOK
<1>5. syHolder[l] = t /\ \A f \in SyFile : l \notin syFlags[f]
  BY <1>0 DEF LockInv
<1>6. \A u \in SyThread, k \in SyLock : Midway(u, k)' <=> Midway(u, k) /\ u # t
  BY <1>1, <1>2 DEF Midway
<1>7. \A k \in SyLock : Midway(t, k) => k = l
  BY DEF Midway
<1>8. \A u \in SyThread : Midway(u, l) => u = t
  BY <1>0, <1>5 DEF LockInv
<1>9. LockInv'
  BY <1>0, <1>1, <1>4, <1>5, <1>6, <1>7, <1>8 DEF LockInv
<1>10. TurnInv'
  <2>1. \A u \in SyThread : Waiting(u)' => Waiting(u)
    BY <1>2 DEF Waiting
  <2>2. l = "vdec" => syJob = SyNone
    BY <1>0, <1>5 DEF TurnInv
  <2>3. syJob # SyNone => ~Midway(syJob, "vdec")'
    BY <1>0, <1>1, <1>6 DEF TurnInv, SyTypeOK, SyLock
  <2>4. QED BY <1>0, <1>1, <1>4, <2>1, <2>2, <2>3 DEF TurnInv, SyLock
<1>11. EngineInv' /\ WaitInv'
  BY <1>0, <1>1, <1>2, JobUntouched DEF Midway, Waiting
<1>12. QED BY <1>3, <1>9, <1>10, <1>11 DEF SyInv

\* The flag is cleared, before the mutex is given back.
LEMMA ReleaseLockKeeps ==
  ASSUME SyInv, NEW t \in SyThread, NEW l \in SyLock, SyReleaseLock(t, l)
  PROVE  SyInv'
<1>0. /\ SyTypeOK /\ LockInv /\ TurnInv /\ EngineInv /\ WaitInv /\ SyFileOf[t] \in SyFile
      /\ SyNone \notin SyThread
  BY SyAssumption DEF SyInv
<1>1. /\ syFlags' = [syFlags EXCEPT ![SyFileOf[t]] = syFlags[SyFileOf[t]] \ {l}]
      /\ syPc' = [syPc EXCEPT ![t] = <<"unlock", l>>] /\ syPc[t] = <<"out", SyNone>>
      /\ syHolder[l] = t /\ (l = "vdec" => syJob = SyNone)
      /\ UNCHANGED <<syOpened, syHolder, syWait, syJob>>
  BY DEF SyReleaseLock, SyMayRelease, SyGo, SyOut, syWait
<1>2. /\ syPc'[t] = <<"unlock", l>>
      /\ \A u \in SyThread : u # t => syPc'[u] = syPc[u]
  BY <1>0, <1>1, Moves
<1>3. SyTypeOK'
  BY <1>0, <1>1 DEF SyTypeOK, syWait, syIrq
<1>4. \A f \in SyFile, k \in SyLock :
        k \in syFlags'[f] <=> k \in syFlags[f] /\ ~(f = SyFileOf[t] /\ k = l)
  BY <1>0, <1>1 DEF SyTypeOK
<1>5. \A f \in SyFile : l \in syFlags[f] => f = SyFileOf[t]
  BY <1>0, <1>1 DEF LockInv
<1>6. \A u \in SyThread, k \in SyLock :
        Midway(u, k)' <=> Midway(u, k) \/ (u = t /\ k = l)
  BY <1>1, <1>2 DEF Midway
<1>7. LockInv'
  BY <1>0, <1>1, <1>4, <1>5, <1>6, SyAssumption DEF LockInv
<1>8. TurnInv'
  <2>1. \A u \in SyThread : Waiting(u)' => Waiting(u)
    BY <1>2 DEF Waiting
  <2>2. syJob # SyNone => ~Midway(syJob, "vdec")'
    BY <1>0, <1>1, <1>6 DEF TurnInv, SyTypeOK, SyLock
  <2>3. QED BY <1>0, <1>1, <2>1, <2>2 DEF TurnInv
<1>9. EngineInv' /\ WaitInv'
  BY <1>0, <1>1, <1>2, JobUntouched DEF Waiting
<1>10. QED BY <1>3, <1>7, <1>8, <1>9 DEF SyInv

\* A file is released, with the locks its flags record.
LEMMA ReleaseKeeps == ASSUME SyInv, NEW f \in SyFile, SyRelease(f) PROVE SyInv'
<1>0. SyTypeOK /\ LockInv /\ TurnInv /\ EngineInv /\ WaitInv /\ SyNone \notin SyThread
  BY SyAssumption DEF SyInv
<1>1. /\ syHolder' = [l \in SyLock |-> IF l \in syFlags[f] THEN SyNone ELSE syHolder[l]]
      /\ syFlags' = [syFlags EXCEPT ![f] = {}] /\ syOpened' = syOpened \ {f}
      /\ (syEngine' = "idle" /\ syIsr = "none") \/ (syFlags[f] = {} /\ UNCHANGED syEngine)
      /\ syJob' = IF syJob \in SyThread /\ SyFileOf[syJob] = f THEN SyNone ELSE syJob
      /\ UNCHANGED syFlag \/ (syHolder'["vdec"] = SyNone /\ syFlag' = 1)
      /\ UNCHANGED <<syPc, syIsr, syValue, syHandled, syOdd>>
      /\ \A t \in SyThread : SyFileOf[t] = f => syPc[t] = <<"out", SyNone>>
  BY DEF SyRelease, SyGivenBack, SyOut
<1>2. SyTypeOK'
  <2>1. syHolder' \in [SyLock -> SyThread \cup {SyNone}]
    BY <1>0, <1>1 DEF SyTypeOK
  <2>2. syEngine' \in {"idle", "running", "raised"} /\ syFlag' \in 0..1
        /\ syJob' \in SyThread \cup {SyNone}
    BY <1>0, <1>1 DEF SyTypeOK
  <2>3. QED BY <1>0, <1>1, <2>1, <2>2 DEF SyTypeOK
<1>3. \A g \in SyFile : syFlags'[g] = IF g = f THEN {} ELSE syFlags[g]
  BY <1>0, <1>1 DEF SyTypeOK
<1>4. \A t \in SyThread, k \in SyLock : SyFileOf[t] = f => ~Midway(t, k)
  BY <1>1 DEF Midway
<1>5. \A t \in SyThread, k \in SyLock : Midway(t, k)' <=> Midway(t, k)
  BY <1>1 DEF Midway
<1>6. \A t \in SyThread, k \in SyLock :
        syHolder[k] = t => (k \in syFlags[f] <=> SyFileOf[t] = f)
  BY <1>0, <1>4, SyAssumption DEF LockInv
<1>7. LockInv'
  <2>1. ASSUME NEW l \in SyLock, NEW t \in SyThread, syHolder'[l] = t
        PROVE  SyFileOf[t] \in syOpened' /\ (Midway(t, l)' \/ l \in syFlags'[SyFileOf[t]])
    <3>1. syHolder[l] = t /\ SyFileOf[t] # f
      BY <1>0, <1>1, <1>6, <2>1
    <3>2. QED BY <1>0, <1>1, <1>3, <1>5, <3>1, SyAssumption DEF LockInv
  <2>2. ASSUME NEW l \in SyLock, NEW t \in SyThread, Midway(t, l)'
        PROVE  syHolder'[l] = t /\ \A g \in SyFile : l \notin syFlags'[g]
    BY <1>0, <1>1, <1>3, <1>5, <2>2 DEF LockInv
  <2>3. ASSUME NEW l \in SyLock, NEW g \in SyFile, l \in syFlags'[g]
        PROVE  \E t \in SyThread : syHolder'[l] = t /\ SyFileOf[t] = g /\ ~Midway(t, l)'
    <3>1. g # f /\ l \in syFlags[g]
      BY <1>3, <2>3
    <3>2. PICK t \in SyThread : syHolder[l] = t /\ SyFileOf[t] = g /\ ~Midway(t, l)
      BY <1>0, <3>1 DEF LockInv
    <3>3. syHolder'[l] = t
      BY <1>1, <1>6, <3>1, <3>2
    <3>4. QED BY <1>5, <3>2, <3>3
  <2>4. QED BY <2>1, <2>2, <2>3 DEF LockInv
<1>8. syJob # SyNone /\ SyFileOf[syJob] # f =>
        syJob' = syJob /\ syHolder'["vdec"] = syJob /\ syFlag' = syFlag
  <2>1. syJob # SyNone => syJob \in SyThread /\ syHolder["vdec"] = syJob
    BY <1>0 DEF TurnInv, SyTypeOK
  <2>2. syJob # SyNone /\ SyFileOf[syJob] # f => "vdec" \notin syFlags[f]
    BY <1>6, <2>1 DEF SyLock
  <2>3. QED BY <1>0, <1>1, <2>1, <2>2 DEF SyLock
<1>9. TurnInv'
  <2>1. \A t \in SyThread : Waiting(t) => syJob = t /\ SyFileOf[t] # f
    BY <1>0, <1>1 DEF Waiting, TurnInv
  <2>2. syJob' # SyNone => syJob # SyNone /\ SyFileOf[syJob] # f /\ syJob' = syJob
    BY <1>0, <1>1 DEF SyTypeOK
  <2>3. QED BY <1>0, <1>1, <1>5, <1>8, <2>1, <2>2 DEF TurnInv, Waiting, SyTypeOK, SyLock
<1>10. EngineInv'
  <2>1. CASE syEngine' = "idle"
    BY <2>1 DEF EngineInv
  <2>2. CASE syEngine' # "idle"
    <3>1. syFlags[f] = {} /\ UNCHANGED syEngine
      BY <1>1, <2>2
    <3>2. syJob # SyNone => SyFileOf[syJob] # f
      <4>1. syJob # SyNone => /\ syJob \in SyThread /\ syHolder["vdec"] = syJob
                             /\ ~Midway(syJob, "vdec")
        BY <1>0 DEF TurnInv, SyTypeOK
      <4>2. QED BY <1>0, <3>1, <4>1 DEF LockInv, SyLock
    <3>3. QED BY <1>0, <1>1, <1>8, <3>1, <3>2 DEF EngineInv
  <2>3. QED BY <2>1, <2>2
<1>11. WaitInv'
  <2>1. syJob' # SyNone => syJob # SyNone /\ syJob' = syJob /\ syFlag' = syFlag
    BY <1>0, <1>1, <1>8 DEF SyTypeOK
  <2>2. QED BY <1>0, <1>1, <2>1 DEF WaitInv, CleanJob, Waiting
<1>12. QED BY <1>2, <1>7, <1>9, <1>10, <1>11 DEF SyInv

\* Steps of a wait, which keep the locks.
LEMMA WaitKeeps ==
  ASSUME SyInv, NEW t \in SyThread,
         SyWaitBegin(t) \/ SyWaitCheck(t) \/ SyWaitEnd(t) \/ SyWaitResult(t)
  PROVE  SyInv'
<1>0. SyTypeOK /\ LockInv /\ TurnInv /\ EngineInv /\ WaitInv /\ SyNone \notin SyThread
  BY SyAssumption DEF SyInv
<1>1. PICK step, l : /\ syPc' = [syPc EXCEPT ![t] = <<step, l>>]
                     /\ step \in {"out", "check", "sleep", "result"}
                     /\ l \in SyLock \cup {SyNone}
                     /\ step = "out" => syJob' = SyNone
                     /\ step # "out" => syJob' = syJob
  BY DEF SyWaitBegin, SyWaitCheck, SyWaitEnd, SyWaitResult, SyGo, SyReturn, SyOut, SyLock
<1>2. /\ syPc'[t] = <<step, l>>
      /\ \A u \in SyThread : u # t => syPc'[u] = syPc[u]
  BY <1>0, <1>1, Moves
<1>3. /\ UNCHANGED <<syOpened, syHolder, syFlags>>
      /\ syPc[t][1] \in {"out", "check", "sleep", "result"}
      /\ syJob = t
  BY <1>0 DEF SyWaitBegin, SyWaitCheck, SyWaitEnd, SyWaitResult, SyOut, syLocks, TurnInv, Waiting
<1>4. SyTypeOK'
  <2>1. syPc' \in [SyThread -> {"out", "record", "unlock", "check", "sleep", "result"}
                               \X (SyLock \cup {SyNone})]
    BY <1>0, <1>1 DEF SyTypeOK
  <2>2. /\ syEngine' \in {"idle", "running", "raised"} /\ syIsr' = syIsr
        /\ syValue' \in 0..1 /\ syFlag' \in 0..1 /\ syHandled' = syHandled
        /\ syJob' \in SyThread \cup {SyNone} /\ syOdd' \in {"none", "stale", "missed"}
    BY <1>0 DEF SyTypeOK, SyWaitBegin, SyWaitCheck, SyWaitEnd, SyWaitResult, SyLooked, syIrq
  <2>3. QED BY <1>0, <1>3, <2>1, <2>2 DEF SyTypeOK
<1>5. \A u \in SyThread, k \in SyLock : Midway(u, k)' <=> Midway(u, k)
  BY <1>1, <1>2, <1>3 DEF Midway
<1>6. LockInv'
  BY <1>0, <1>3, <1>5 DEF LockInv
<1>7. TurnInv'
  <2>1. \A u \in SyThread : Waiting(u)' => u = t /\ step # "out"
    BY <1>0, <1>2, <1>3 DEF TurnInv, Waiting
  <2>2. syJob' # SyNone => syJob' = t
    BY <1>1, <1>3
  <2>3. QED BY <1>0, <1>1, <1>3, <1>5, <2>1, <2>2 DEF TurnInv, SyLock
<1>8. EngineInv' /\ WaitInv'
  <2>1. CASE SyWaitBegin(t)
    <3>1. syPc[t] = <<"out", SyNone>>
      BY <2>1 DEF SyWaitBegin, SyOut
    <3>2. syPc'[t] = <<"check", "vdec">>
      BY <1>0, <2>1, Moves DEF SyWaitBegin, SyGo
    <3>3. QED BY <1>0, <1>3, <2>1, <3>1, <3>2, SMTT(30) DEF SyWaitBegin, EngineInv, WaitInv, CleanJob, Waiting,
                                                     SyTypeOK
  <2>2. CASE SyWaitCheck(t)
    <3>1. syPc'[t] = <<"sleep", "vdec">> /\ syPc[t][1] = "check"
      BY <1>0, <2>2, Moves DEF SyWaitCheck, SyGo
    <3>2. QED BY <1>0, <1>3, <2>2, <3>1, SMTT(30) DEF SyWaitCheck, SyLooked, EngineInv, WaitInv, CleanJob,
                                                     Waiting, SyTypeOK
  <2>3. CASE SyWaitEnd(t)
    <3>1. syPc'[t] = <<"result", "vdec">> /\ syPc[t][1] = "sleep"
      BY <1>0, <2>3, Moves DEF SyWaitEnd, SyGo
    <3>2. QED BY <1>0, <1>3, <2>3, <3>1, SMTT(30) DEF SyWaitEnd, EngineInv, WaitInv, CleanJob, Waiting,
                                                     SyTypeOK
  <2>4. CASE SyWaitResult(t)
    <3>1. syOdd # "stale" => CleanJob
      BY <1>0, <1>3 DEF WaitInv
    <3>2. syOdd # "stale" => syEngine' = "idle"
      BY <1>0, <1>3, <2>4, <3>1 DEF SyWaitResult, CleanJob, SyTypeOK
    <3>3. QED BY <2>4, <3>2 DEF SyWaitResult, EngineInv, WaitInv
  <2>5. QED BY <2>1, <2>2, <2>3, <2>4
<1>9. QED BY <1>4, <1>6, <1>7, <1>8 DEF SyInv

\* A job is started, whatever is left of earlier ones.
LEMMA TriggerKeeps == ASSUME SyInv, NEW t \in SyThread, SyTrigger(t) PROVE SyInv'
<1>0. SyTypeOK /\ LockInv /\ TurnInv /\ SyNone \notin SyThread
  BY SyAssumption DEF SyInv
<1>1. /\ UNCHANGED <<syOpened, syHolder, syFlags, syPc, syIsr, syValue, syFlag>>
      /\ syPc[t] = <<"out", SyNone>> /\ syHolder["vdec"] = t /\ syJob = SyNone
      /\ syEngine' = "running" /\ syJob' = t /\ syHandled' = FALSE
      /\ syOdd' = IF syEngine = "idle" /\ syIsr = "none" /\ syFlag = 0 THEN "none" ELSE "stale"
  BY DEF SyTrigger, SyOut, syLocks
<1>2. SyTypeOK'
  BY <1>0, <1>1 DEF SyTypeOK
<1>3. LockInv'
  BY <1>0, <1>1 DEF LockInv, Midway
<1>4. TurnInv'
  BY <1>0, <1>1 DEF TurnInv, Midway, Waiting
<1>5. EngineInv' /\ WaitInv'
  BY <1>0, <1>1 DEF EngineInv, WaitInv, CleanJob, Waiting
<1>6. QED BY <1>2, <1>3, <1>4, <1>5 DEF SyInv

\* Steps of the engine and of its interrupt handler, which takes no lock.
LEMMA EngineKeeps ==
  ASSUME SyInv, SyRaise \/ SyIsrEnter \/ SyIsrValue \/ SyIsrFlag \/ UNCHANGED syVars
  PROVE  SyInv'
<1>0. SyTypeOK /\ LockInv /\ TurnInv /\ EngineInv /\ WaitInv
  BY DEF SyInv
<1>1. UNCHANGED <<syOpened, syHolder, syFlags, syPc, syJob, syOdd>>
  BY DEF SyRaise, SyIsrEnter, SyIsrValue, SyIsrFlag, syVars, syLocks, syWait
<1>2. SyTypeOK'
  <2>1. syHandled' \in BOOLEAN
    BY <1>0 DEF SyTypeOK, SyRaise, SyIsrEnter, SyIsrValue, SyIsrFlag, syVars, syWait, syIrq
  <2>2. /\ syEngine' \in {"idle", "running", "raised"} /\ syIsr' \in {"none", "value", "flag"}
        /\ syValue' \in 0..1 /\ syFlag' \in 0..1
    BY <1>0 DEF SyTypeOK, SyRaise, SyIsrEnter, SyIsrValue, SyIsrFlag, syVars, syWait, syIrq
  <2>3. QED BY <1>0, <1>1, <2>1, <2>2 DEF SyTypeOK
<1>3. LockInv' /\ TurnInv'
  BY <1>0, <1>1 DEF LockInv, TurnInv, Midway, Waiting
<1>4. EngineInv'
  BY <1>0, <1>1 DEF EngineInv, SyRaise, SyIsrEnter, SyIsrValue, SyIsrFlag, syVars, syWait
<1>5. WaitInv'
  <2> SUFFICES ASSUME syJob # SyNone, syOdd # "stale" PROVE CleanJob'
    BY <1>1 DEF WaitInv
  <2>1. CleanJob
    BY <1>0 DEF WaitInv
  <2>2. CASE SyRaise \/ UNCHANGED syVars
    BY <1>1, <2>1, <2>2 DEF CleanJob, Waiting, SyRaise, syVars, syWait, syIrq
  <2>3. CASE SyIsrEnter
    BY <1>1, <2>1, <2>3 DEF CleanJob, Waiting, SyIsrEnter
  <2>4. CASE SyIsrValue
    BY <1>0, <1>1, <2>1, <2>4, SMTT(30) DEF CleanJob, Waiting, SyIsrValue, SyTypeOK
  <2>5. CASE SyIsrFlag
    BY <1>1, <2>1, <2>5 DEF CleanJob, Waiting, SyIsrFlag
  <2>6. QED BY <2>2, <2>3, <2>4, <2>5
<1>6. QED BY <1>2, <1>3, <1>4, <1>5 DEF SyInv

\* Every step of a client keeps the invariant.
LEMMA SyNextInv == ASSUME SyInv, [SyNext]_syVars PROVE SyInv'
<1>1. ASSUME NEW t \in SyThread, NEW l \in SyLock, SyUnlock(t, l) PROVE SyInv'
  BY <1>1, UnlockKeeps DEF SyUnlock, Midway
<1>2. ASSUME NEW t \in SyThread, SySetProcInfoFails(t) PROVE SyInv'
  BY <1>2, UnlockKeeps DEF SySetProcInfoFails, Midway, SyLock
<1>3. QED
  BY <1>1, <1>2, OpenKeeps, GetLockKeeps, RecordKeeps, ReleaseLockKeeps, ReleaseKeeps,
     WaitKeeps, TriggerKeeps, EngineKeeps DEF SyNext

\* The bookkeeping behind the turns holds in every reachable state.
THEOREM TurnsInductive == SySpec => []SyInv
<1>1. SyInit => SyInv
  BY SyInitInv
<1>2. SyInv /\ [SyNext]_syVars => SyInv'
  BY SyNextInv
<1>3. QED BY <1>1, <1>2, PTL DEF SySpec

\* No lock is lost with a client that dies, and no job of a clean start outlives the
\* codec lock it was started under, though its client only knows what the wait said.
THEOREM TurnsSafe == SySpec => []TurnsKept
<1>1. SyInv => TurnsKept
  <2> SUFFICES ASSUME SyInv PROVE TurnsKept
    OBVIOUS
  <2>0. LockInv /\ TurnInv /\ EngineInv /\ SyNone \notin SyThread /\ SyTypeOK
    BY SyAssumption DEF SyInv
  <2>1. SyHeldIsRecorded
    BY <2>0 DEF LockInv, SyHeldIsRecorded, Midway, SyOut
  <2>2. SyEngineUnderLock
    BY <2>0 DEF TurnInv, EngineInv, SyEngineUnderLock, SyTypeOK
  <2>3. QED BY <2>1, <2>2 DEF TurnsKept
<1>2. QED BY <1>1, TurnsInductive, PTL

\* WAIT_VE_DE reports the interrupt of a job of a clean start, and only that, but for
\* the one order of the two stores and the wait in which it misses it.
THEOREM WaitsTold == SySpec => []WaitsTruthful
<1>1. SyInv => WaitsTruthful
  <2> SUFFICES ASSUME SyInv, NEW t \in SyThread, syPc[t][1] = "result"
               PROVE  /\ syOdd = "none" => (syValue = 1 <=> syHandled)
                      /\ syOdd = "missed" => syValue = 0 /\ syHandled
    BY DEF WaitsTruthful
  <2>1. syJob = t /\ t # SyNone
    BY SyAssumption DEF SyInv, TurnInv, Waiting
  <2>2. syOdd # "stale" => CleanJob
    BY <2>1 DEF SyInv, WaitInv
  <2>3. QED BY <2>1, <2>2 DEF CleanJob
<1>2. QED BY <1>1, TurnsInductive, PTL
-----------------------------------------------------------------------------
(* The JPEG encoder.                                                       *)

\* The recursive function of JpCodes is that sum.
LEMMA JpCodesSum ==
  ASSUME NEW t \in [1..16 -> Nat]
  PROVE  JpCodes(t) = SumOf16(t)
<1> DEFINE f == CHOOSE g : g = [i \in 0..16 |-> IF i = 0 THEN 0 ELSE g[i - 1] + t[i]]
<1>1. JpCodes(t) = f[16]
  BY DEF JpCodes
<1>2. f = CHOOSE g : SumEquation(g, t, 16)
  BY DEF SumEquation
<1> HIDE DEF f
<1>3. RunningSums(f, t, 16)
  BY <1>2, RunningSum
<1>4. QED BY <1>1, <1>3, RunningSum16

\* The share of the codes of 16 bits that the codes of a table use up.
JpUsed(t) == CHOOSE g : g = [i \in 0..16 |-> IF i = 0 THEN 0 ELSE g[i - 1] + t[i] * Pow2(16 - i)]

\* It is a sum, too.
LEMMA JpUsedSum ==
  ASSUME NEW t \in [1..16 -> Nat]
  PROVE  JpUsed(t)[16] = SumOf16([i \in 1..16 |-> t[i] * Pow2(16 - i)])
<1> DEFINE a == [i \in 1..16 |-> t[i] * Pow2(16 - i)]
           f == JpUsed(t)
<1>1. \A i \in 1..16 : Pow2(16 - i) \in Nat
  BY DEF Pow2
<1>2. a \in [1..16 -> Nat]
  BY <1>1
<1>3. f = CHOOSE g : SumEquation(g, a, 16)
  <2>1. ASSUME NEW g
        PROVE  [i \in 0..16 |-> IF i = 0 THEN 0 ELSE g[i - 1] + t[i] * Pow2(16 - i)]
                 = [i \in 0..16 |-> IF i = 0 THEN 0 ELSE g[i - 1] + a[i]]
    OBVIOUS
  <2> HIDE DEF a
  <2>2. QED BY <2>1 DEF JpUsed, SumEquation
<1> HIDE DEF a, f
<1>4. RunningSums(f, a, 16)
  BY <1>2, <1>3, RunningSum
<1>5. f[16] = SumOf16(a)
  BY <1>2, <1>4, RunningSum16
<1>6. QED BY <1>5 DEF f, a

\* The Huffman tables of the driver: how many codes they have, and what share
\* of the codes of 16 bits they use.
LEMMA JpHuffman ==
  /\ cedrus_jpeg_dht.luma_dc \in [1..16 -> Nat] /\ JpCodes(cedrus_jpeg_dht.luma_dc) = 12
  /\ cedrus_jpeg_dht.luma_ac \in [1..16 -> Nat] /\ JpCodes(cedrus_jpeg_dht.luma_ac) = 162
  /\ cedrus_jpeg_dht.chroma_dc \in [1..16 -> Nat] /\ JpCodes(cedrus_jpeg_dht.chroma_dc) = 12
  /\ cedrus_jpeg_dht.chroma_ac \in [1..16 -> Nat] /\ JpCodes(cedrus_jpeg_dht.chroma_ac) = 162
  /\ \A name \in DOMAIN cedrus_jpeg_dht : JpCodesLeft(cedrus_jpeg_dht[name])
<1>1. /\ cedrus_jpeg_dht.luma_dc \in [1..16 -> Nat]
      /\ JpCodes(cedrus_jpeg_dht.luma_dc) = 12 /\ JpCodesLeft(cedrus_jpeg_dht.luma_dc)
  <2> DEFINE t == cedrus_jpeg_dht.luma_dc
             a == [i \in 1..16 |-> t[i] * Pow2(16 - i)]
  <2>1. t = <<0, 1, 5, 1, 1, 1, 1, 1, 1, 0, 0, 0, 0, 0, 0, 0>>
    BY DEF cedrus_jpeg_dht
  <2> HIDE DEF t
  <2>2. t \in [1..16 -> Nat]
    BY <2>1
  <2>3. SumOf16(t) = 12
    BY <2>1 DEF SumOf16
  <2>4. /\ a[1] = 0 /\ a[2] = 16384 /\ a[3] = 40960 /\ a[4] = 4096
        /\ a[5] = 2048 /\ a[6] = 1024 /\ a[7] = 512 /\ a[8] = 256
    BY <2>1 DEF Pow2
  <2>5. /\ a[9] = 128 /\ a[10] = 0 /\ a[11] = 0 /\ a[12] = 0
        /\ a[13] = 0 /\ a[14] = 0 /\ a[15] = 0 /\ a[16] = 0
    BY <2>1 DEF Pow2
  <2> HIDE DEF a
  <2>6. SumOf16(a) = 65408
    BY <2>4, <2>5 DEF SumOf16
  <2>7. JpCodes(t) = 12
    BY <2>2, <2>3, JpCodesSum
  <2>8. JpUsed(t)[16] = 65408
    BY <2>2, <2>6, JpUsedSum DEF a
  <2>9. JpCodesLeft(t)
    BY <2>8 DEF JpCodesLeft, JpUsed
  <2>10. QED BY <2>2, <2>7, <2>9 DEF t
<1>2. /\ cedrus_jpeg_dht.luma_ac \in [1..16 -> Nat]
      /\ JpCodes(cedrus_jpeg_dht.luma_ac) = 162 /\ JpCodesLeft(cedrus_jpeg_dht.luma_ac)
  <2> DEFINE t == cedrus_jpeg_dht.luma_ac
             a == [i \in 1..16 |-> t[i] * Pow2(16 - i)]
  <2>1. t = <<0, 2, 1, 3, 3, 2, 4, 3, 5, 5, 4, 4, 0, 0, 1, 125>>
    BY DEF cedrus_jpeg_dht
  <2> HIDE DEF t
  <2>2. t \in [1..16 -> Nat]
    BY <2>1
  <2>3. SumOf16(t) = 162
    BY <2>1 DEF SumOf16
  <2>4. /\ a[1] = 0 /\ a[2] = 32768 /\ a[3] = 8192 /\ a[4] = 12288
        /\ a[5] = 6144 /\ a[6] = 2048 /\ a[7] = 2048 /\ a[8] = 768
    BY <2>1 DEF Pow2
  <2>5. /\ a[9] = 640 /\ a[10] = 320 /\ a[11] = 128 /\ a[12] = 64
        /\ a[13] = 0 /\ a[14] = 0 /\ a[15] = 2 /\ a[16] = 125
    BY <2>1 DEF Pow2
  <2> HIDE DEF a
  <2>6. SumOf16(a) = 65535
    BY <2>4, <2>5 DEF SumOf16
  <2>7. JpCodes(t) = 162
    BY <2>2, <2>3, JpCodesSum
  <2>8. JpUsed(t)[16] = 65535
    BY <2>2, <2>6, JpUsedSum DEF a
  <2>9. JpCodesLeft(t)
    BY <2>8 DEF JpCodesLeft, JpUsed
  <2>10. QED BY <2>2, <2>7, <2>9 DEF t
<1>3. /\ cedrus_jpeg_dht.chroma_dc \in [1..16 -> Nat]
      /\ JpCodes(cedrus_jpeg_dht.chroma_dc) = 12 /\ JpCodesLeft(cedrus_jpeg_dht.chroma_dc)
  <2> DEFINE t == cedrus_jpeg_dht.chroma_dc
             a == [i \in 1..16 |-> t[i] * Pow2(16 - i)]
  <2>1. t = <<0, 3, 1, 1, 1, 1, 1, 1, 1, 1, 1, 0, 0, 0, 0, 0>>
    BY DEF cedrus_jpeg_dht
  <2> HIDE DEF t
  <2>2. t \in [1..16 -> Nat]
    BY <2>1
  <2>3. SumOf16(t) = 12
    BY <2>1 DEF SumOf16
  <2>4. /\ a[1] = 0 /\ a[2] = 49152 /\ a[3] = 8192 /\ a[4] = 4096
        /\ a[5] = 2048 /\ a[6] = 1024 /\ a[7] = 512 /\ a[8] = 256
    BY <2>1 DEF Pow2
  <2>5. /\ a[9] = 128 /\ a[10] = 64 /\ a[11] = 32 /\ a[12] = 0
        /\ a[13] = 0 /\ a[14] = 0 /\ a[15] = 0 /\ a[16] = 0
    BY <2>1 DEF Pow2
  <2> HIDE DEF a
  <2>6. SumOf16(a) = 65504
    BY <2>4, <2>5 DEF SumOf16
  <2>7. JpCodes(t) = 12
    BY <2>2, <2>3, JpCodesSum
  <2>8. JpUsed(t)[16] = 65504
    BY <2>2, <2>6, JpUsedSum DEF a
  <2>9. JpCodesLeft(t)
    BY <2>8 DEF JpCodesLeft, JpUsed
  <2>10. QED BY <2>2, <2>7, <2>9 DEF t
<1>4. /\ cedrus_jpeg_dht.chroma_ac \in [1..16 -> Nat]
      /\ JpCodes(cedrus_jpeg_dht.chroma_ac) = 162 /\ JpCodesLeft(cedrus_jpeg_dht.chroma_ac)
  <2> DEFINE t == cedrus_jpeg_dht.chroma_ac
             a == [i \in 1..16 |-> t[i] * Pow2(16 - i)]
  <2>1. t = <<0, 2, 1, 2, 4, 4, 3, 4, 7, 5, 4, 4, 0, 1, 2, 119>>
    BY DEF cedrus_jpeg_dht
  <2> HIDE DEF t
  <2>2. t \in [1..16 -> Nat]
    BY <2>1
  <2>3. SumOf16(t) = 162
    BY <2>1 DEF SumOf16
  <2>4. /\ a[1] = 0 /\ a[2] = 32768 /\ a[3] = 8192 /\ a[4] = 8192
        /\ a[5] = 8192 /\ a[6] = 4096 /\ a[7] = 1536 /\ a[8] = 1024
    BY <2>1 DEF Pow2
  <2>5. /\ a[9] = 896 /\ a[10] = 320 /\ a[11] = 128 /\ a[12] = 64
        /\ a[13] = 0 /\ a[14] = 4 /\ a[15] = 4 /\ a[16] = 119
    BY <2>1 DEF Pow2
  <2> HIDE DEF a
  <2>6. SumOf16(a) = 65535
    BY <2>4, <2>5 DEF SumOf16
  <2>7. JpCodes(t) = 162
    BY <2>2, <2>3, JpCodesSum
  <2>8. JpUsed(t)[16] = 65535
    BY <2>2, <2>6, JpUsedSum DEF a
  <2>9. JpCodesLeft(t)
    BY <2>8 DEF JpCodesLeft, JpUsed
  <2>10. QED BY <2>2, <2>7, <2>9 DEF t
<1>5. DOMAIN cedrus_jpeg_dht = {"luma_dc", "luma_ac", "chroma_dc", "chroma_ac"}
  BY DEF cedrus_jpeg_dht
<1>6. QED BY <1>1, <1>2, <1>3, <1>4, <1>5

\* The header that cedrus_jpeg_put_header writes is as long as the driver says.
LEMMA JpHeaderExact == JpHeaderLength = CEDRUS_ENC_JPEG_HEADER_SIZE
  BY JpHuffman DEF JpHeaderLength, CEDRUS_ENC_JPEG_HEADER_SIZE

\* A better quality has a finer scale.
LEMMA ScaleFalls ==
  ASSUME NEW q \in 1..99
  PROVE  /\ JpScale(q) \in Nat /\ JpScale(q + 1) \in Nat
         /\ JpScale(q + 1) <= JpScale(q)
<1>1. CASE q < 49
  <2> DEFINE a == 5000 \div q
             b == 5000 \div (q + 1)
             p == q + 1
  <2>1. q \in Nat \ {0} /\ p \in Nat \ {0} /\ 5000 \in Nat
    OBVIOUS
  <2>2. a \in Nat /\ 5000 < q * a + q
    BY <2>1, QuotientBounds
  <2>3. b \in Nat /\ p * b <= 5000
    <3> HIDE DEF p
    <3>1. 5000 \div p \in Nat /\ p * (5000 \div p) <= 5000
      BY <2>1, QuotientBounds
    <3>2. QED BY <3>1 DEF p
  <2>4. JpScale(q) = a /\ JpScale(q + 1) = b
    BY <1>1 DEF JpScale
  <2> HIDE DEF a, b
  <2>5. p * b = q * b + b /\ q * b \in Nat
    BY <2>1, <2>3
  <2>6. b <= a
    <3>1. SUFFICES ASSUME a + 1 <= b PROVE FALSE
      BY <2>2, <2>3
    <3>2. (a + 1) * q <= b * q /\ (a + 1) * q = q * a + q /\ b * q = q * b
      BY <2>1, <2>2, <2>3, <3>1, ProductMonotone
    <3>3. q * a \in Nat
      BY <2>1, <2>2, ProductInNat
    <3> DEFINE x == q * a
               y == q * b
    <3>4. x \in Nat /\ y \in Nat /\ x + q <= y /\ 5000 < x + q /\ y + b <= 5000
      BY <2>2, <2>3, <2>5, <3>2, <3>3
    <3> HIDE DEF x, y
    <3>5. QED BY <3>4, <2>3
  <2>7. QED BY <2>2, <2>3, <2>4, <2>6
<1>2. CASE q = 49
  BY <1>2 DEF JpScale
<1>3. CASE q > 49
  BY <1>3 DEF JpScale
<1>4. QED BY <1>1, <1>2, <1>3

\* A quantizer is a byte other than zero, and no larger for a better quality.
LEMMA QuantizersFall ==
  ASSUME NEW base \in Nat, NEW q \in 1..100
  PROVE  JpQuantizerSound(base, q)
<1>1. ASSUME NEW s \in Nat PROVE (base * s + 50) \div 100 \in Nat /\ base * s \in Nat
  <2> DEFINE x == base * s
  <2>1. x \in Nat
    OBVIOUS
  <2> HIDE DEF x
  <2>2. (x + 50) \div 100 \in Nat
    BY <2>1
  <2>3. QED BY <2>1, <2>2 DEF x
<1>2. \A n \in Nat : Clamp(n, 1, 255) \in 1..255
  BY DEF Clamp
<1>3. JpScale(q) \in Nat
  <2>1. CASE q < 100
    BY <2>1, ScaleFalls
  <2>2. CASE q = 100
    BY <2>2 DEF JpScale
  <2>3. QED BY <2>1, <2>2
<1>4. JpQuant(base, q) \in 1..255
  BY <1>1, <1>2, <1>3 DEF JpQuant
<1>5. ASSUME q < 100 PROVE JpQuant(base, q) >= JpQuant(base, q + 1)
  <2> DEFINE s == JpScale(q)
             t == JpScale(q + 1)
             x == base * s
             y == base * t
  <2>1. s \in Nat /\ t \in Nat /\ t <= s
    BY <1>5, ScaleFalls
  <2> HIDE DEF s, t
  <2>2. x \in Nat /\ y \in Nat /\ y <= x
    <3>1. t * base <= s * base
      BY <2>1, ProductMonotone
    <3>2. QED BY <2>1, <3>1
  <2>3. JpQuant(base, q) = Clamp((x + 50) \div 100, 1, 255)
        /\ JpQuant(base, q + 1) = Clamp((y + 50) \div 100, 1, 255)
    BY DEF JpQuant, s, t
  <2> HIDE DEF x, y
  <2>4. QED BY <2>2, <2>3 DEF Clamp
<1>6. QED BY <1>4, <1>5 DEF JpQuantizerSound

\* The word the hardware divides by: a reciprocal in 16 bits, within one part.
LEMMA ReciprocalExact ==
  ASSUME NEW quant \in 1..255
  PROVE  JpReciprocalSound(quant)
<1> DEFINE r == 65536 \div quant
           w == cedrus_enc_jpeg_quant_word(quant)[2]
<1>1. r \in Nat /\ quant * r <= 65536 /\ 65536 < quant * r + quant
  BY QuotientBounds
<1>2. w = IF r < 65535 THEN r + 1 ELSE 65535
  BY DEF cedrus_enc_jpeg_quant_word
<1>3. ASSUME quant = 1 PROVE w * quant - 65536 \in (0 - 1)..quant /\ w < 65536
  <2>1. r = 65536
    BY <1>3
  <2>2. w = 65535
    BY <1>2, <2>1
  <2> HIDE DEF w
  <2>3. QED BY <1>3, <2>2
<1>4. ASSUME quant # 1 PROVE w * quant - 65536 \in (0 - 1)..quant /\ w < 65536
  <2>1. r <= 32768
    <3>1. 2 * r <= quant * r
      BY <1>1, <1>4, ProductMonotone
    <3> DEFINE x == quant * r
    <3>2. x \in Nat /\ 2 * r <= x /\ x <= 65536
      BY <1>1, <3>1
    <3> HIDE DEF x, r
    <3>3. QED BY <1>1, <3>2
  <2>2. w = r + 1
    BY <1>1, <1>2, <2>1
  <2> HIDE DEF w, r
  <2>3. w * quant = quant * r + quant
    BY <1>1, <2>2
  <2> DEFINE x == quant * r
  <2>4. x \in Nat /\ w * quant = x + quant /\ x <= 65536 /\ 65536 < x + quant
    BY <1>1, <2>3
  <2> HIDE DEF x
  <2>5. w * quant - 65536 \in (0 - 1)..quant /\ w < 65536
    BY <1>1, <2>1, <2>2, <2>4
  <2>6. QED BY <2>5 DEF w
<1> DEFINE word == cedrus_enc_jpeg_quant_word(quant)
<1>5. JpReciprocalSound(quant) <=> word[2] < 65536 /\ word[2] * quant - 65536 \in (0 - 1)..quant
  BY DEF JpReciprocalSound
<1> HIDE DEF word
<1>6. w = word[2]
  BY DEF word
<1> HIDE DEF w
<1>7. QED BY <1>3, <1>4, <1>5, <1>6

\* The zigzag order visits every place of a block once and walks its diagonals.
LEMMA ZigzagWalks ==
  /\ \A i \in 1..63 : JpZigzagStep(i)
  /\ {cedrus_jpeg_zigzag[i] : i \in 1..64} = 0..63
<1> DEFINE z == cedrus_jpeg_zigzag
           d(v) == (v \div 8) + (v % 8)
<1>1. z[1] = 0 /\ z[2] = 1 /\ z[3] = 8 /\ z[4] = 16
      /\ z[5] = 9 /\ z[6] = 2 /\ z[7] = 3 /\ z[8] = 10
  BY DEF cedrus_jpeg_zigzag
<1>2. z[9] = 17 /\ z[10] = 24 /\ z[11] = 32 /\ z[12] = 25
      /\ z[13] = 18 /\ z[14] = 11 /\ z[15] = 4 /\ z[16] = 5
  BY DEF cedrus_jpeg_zigzag
<1>3. z[17] = 12 /\ z[18] = 19 /\ z[19] = 26 /\ z[20] = 33
      /\ z[21] = 40 /\ z[22] = 48 /\ z[23] = 41 /\ z[24] = 34
  BY DEF cedrus_jpeg_zigzag
<1>4. z[25] = 27 /\ z[26] = 20 /\ z[27] = 13 /\ z[28] = 6
      /\ z[29] = 7 /\ z[30] = 14 /\ z[31] = 21 /\ z[32] = 28
  BY DEF cedrus_jpeg_zigzag
<1>5. z[33] = 35 /\ z[34] = 42 /\ z[35] = 49 /\ z[36] = 56
      /\ z[37] = 57 /\ z[38] = 50 /\ z[39] = 43 /\ z[40] = 36
  BY DEF cedrus_jpeg_zigzag
<1>6. z[41] = 29 /\ z[42] = 22 /\ z[43] = 15 /\ z[44] = 23
      /\ z[45] = 30 /\ z[46] = 37 /\ z[47] = 44 /\ z[48] = 51
  BY DEF cedrus_jpeg_zigzag
<1>7. z[49] = 58 /\ z[50] = 59 /\ z[51] = 52 /\ z[52] = 45
      /\ z[53] = 38 /\ z[54] = 31 /\ z[55] = 39 /\ z[56] = 46
  BY DEF cedrus_jpeg_zigzag
<1>8. z[57] = 53 /\ z[58] = 60 /\ z[59] = 61 /\ z[60] = 54
      /\ z[61] = 47 /\ z[62] = 55 /\ z[63] = 62 /\ z[64] = 63
  BY DEF cedrus_jpeg_zigzag
<1> HIDE DEF z
<1>9. \A i \in 1..8 : d(z[i + 1]) - d(z[i]) \in 0..1
  BY <1>1, <1>2
<1>10. \A i \in 9..16 : d(z[i + 1]) - d(z[i]) \in 0..1
  BY <1>2, <1>3
<1>11. \A i \in 17..24 : d(z[i + 1]) - d(z[i]) \in 0..1
  BY <1>3, <1>4
<1>12. \A i \in 25..32 : d(z[i + 1]) - d(z[i]) \in 0..1
  BY <1>4, <1>5
<1>13. \A i \in 33..40 : d(z[i + 1]) - d(z[i]) \in 0..1
  BY <1>5, <1>6
<1>14. \A i \in 41..48 : d(z[i + 1]) - d(z[i]) \in 0..1
  BY <1>6, <1>7
<1>15. \A i \in 49..56 : d(z[i + 1]) - d(z[i]) \in 0..1
  BY <1>7, <1>8
<1>16. \A i \in 57..63 : d(z[i + 1]) - d(z[i]) \in 0..1
  BY <1>8, SMTT(30)
<1>17. \A i \in 1..63 : d(z[i + 1]) - d(z[i]) \in 0..1
  BY <1>9, <1>10, <1>11, <1>12, <1>13, <1>14, <1>15, <1>16
<1>18. \A i \in 1..64 : z[i] \in 0..63
  BY <1>1, <1>2, <1>3, <1>4, <1>5, <1>6, <1>7, <1>8
<1>19. \A v \in 0..7 : \E i \in 1..64 : z[i] = v
  BY <1>1, <1>2, <1>4
<1>20. \A v \in 8..15 : \E i \in 1..64 : z[i] = v
  BY <1>1, <1>2, <1>3, <1>4, <1>6
<1>21. \A v \in 16..23 : \E i \in 1..64 : z[i] = v
  BY <1>1, <1>2, <1>3, <1>4, <1>6
<1>22. \A v \in 24..31 : \E i \in 1..64 : z[i] = v
  BY <1>2, <1>3, <1>4, <1>6, <1>7
<1>23. \A v \in 32..39 : \E i \in 1..64 : z[i] = v
  BY <1>2, <1>3, <1>5, <1>6, <1>7
<1>24. \A v \in 40..47 : \E i \in 1..64 : z[i] = v
  BY <1>3, <1>5, <1>6, <1>7, <1>8
<1>25. \A v \in 48..55 : \E i \in 1..64 : z[i] = v
  BY <1>3, <1>5, <1>6, <1>7, <1>8
<1>26. \A v \in 56..63 : \E i \in 1..64 : z[i] = v
  BY <1>5, <1>7, <1>8
<1> DEFINE Visited(v) == \E i \in 1..64 : z[i] = v
<1>27. \A v \in 0..63 : Visited(v)
  <2> HIDE DEF Visited
  <2>1. \A v \in 0..7 : Visited(v)
    BY <1>19 DEF Visited
  <2>2. \A v \in 8..15 : Visited(v)
    BY <1>20 DEF Visited
  <2>3. \A v \in 16..23 : Visited(v)
    BY <1>21 DEF Visited
  <2>4. \A v \in 24..31 : Visited(v)
    BY <1>22 DEF Visited
  <2>5. \A v \in 32..39 : Visited(v)
    BY <1>23 DEF Visited
  <2>6. \A v \in 40..47 : Visited(v)
    BY <1>24 DEF Visited
  <2>7. \A v \in 48..55 : Visited(v)
    BY <1>25 DEF Visited
  <2>8. \A v \in 56..63 : Visited(v)
    BY <1>26 DEF Visited
  <2>9. QED BY <2>1, <2>2, <2>3, <2>4, <2>5, <2>6, <2>7, <2>8
<1>28. {z[i] : i \in 1..64} = 0..63
  <2> HIDE DEF Visited, z
  <2>1. ASSUME NEW v \in 0..63 PROVE v \in {z[i] : i \in 1..64}
    <3>1. Visited(v)
      BY <1>27
    <3> QED BY <3>1 DEF Visited
  <2>2. ASSUME NEW v \in {z[i] : i \in 1..64} PROVE v \in 0..63
    BY <1>18
  <2> QED BY <2>1, <2>2
<1>29. \A i \in 1..63 : JpZigzagStep(i)
  BY <1>17 DEF JpZigzagStep, z
<1>30. QED BY <1>28, <1>29 DEF z

\* The tables of the JPEG encoder.
LEMMA TablesSound == JpTablesSound
<1>1. \A base \in 10..121, quality \in 1..100 : JpQuantizerSound(base, quality)
  <2>1. ASSUME NEW base \in 10..121, NEW quality \in 1..100
        PROVE  JpQuantizerSound(base, quality)
    <3>1. base \in Nat
      OBVIOUS
    <3>2. QED BY <3>1, QuantizersFall
  <2>2. QED BY <2>1
<1>2. \A quant \in 1..255 : JpReciprocalSound(quant)
  BY ReciprocalExact
<1>3. QED BY <1>1, <1>2, JpHeaderExact, ZigzagWalks, JpHuffman, ZenonT(60) DEF JpTablesSound

\* What a capture buffer is made of.
JpStates == {"client", "active", "done", "error", "flagged"}
JpHeaderSizes == {0, CEDRUS_ENC_JPEG_HEADER_SIZE}
JpHolds == (JpQuality \cup {0}) \X Nat

JpShape ==
  /\ jpSet \in [cur : JpQuality, engine : JpQuality]
  /\ jpFormat \in 1..2 /\ jpMoved \in BOOLEAN /\ jpCount \in 0..JpMaxJobs
  /\ jpBuf \in [JpBuf -> [plane : Nat, state : JpStates, payload : Nat,
                         header_size : JpHeaderSizes, quality : JpQuality \cup {0}, holds : JpHolds]]

\* The job, if there is one, is made for the format and the header of now.
JpJobShape ==
  \/ jpJob = JpIdle
  \/ jpJob \in [busy : {TRUE}, buf : JpBuf, quality : JpQuality, format : {jpFormat},
               header_size : {CEDRUS_ENC_JPEG_HEADER_SIZE}]

\* A buffer is active as long as it is the one of the job.
JpActive == \A b \in JpBuf : jpJob # JpIdle /\ jpJob.buf = b <=> jpBuf[b].state = "active"

\* What a finished buffer holds is what was told of it.
JpWaiting ==
  \A b \in JpBuf :
    jpBuf[b].state = "done" =>
      /\ jpBuf[b].quality = jpBuf[b].holds[1]
      /\ ~jpMoved => jpBuf[b].holds[2] = jpFormat

\* The inductive invariant of the encoder.
JpInv == JpShape /\ JpJobShape /\ JpActive /\ JpWaiting /\ JpImageWhole

\* The invariant implies the types.
LEMMA JpInvTyped == JpInv => JpTypeOK
  BY JpAssumption DEF JpInv, JpShape, JpActive, JpTypeOK, JpStates, JpHeaderSizes

\* A context that was just opened, with buffers of any size.
LEMMA JpInitOK == JpInit => JpInv
<1> SUFFICES ASSUME JpInit PROVE JpInv
  OBVIOUS
<1>0. JpPlane \subseteq Nat /\ JpMaxJobs \in Nat
  BY JpAssumption DEF JpAssumption
<1>1. JpShape
  <2>1. PICK plane \in JpPlane : jpBuf = [b \in JpBuf |-> JpFresh(plane)]
    BY DEF JpInit
  <2>2. plane \in Nat /\ <<0, 0>> \in JpHolds
    BY <1>0 DEF JpHolds
  <2>3. JpFresh(plane) \in [plane : Nat, state : JpStates, payload : Nat, header_size : JpHeaderSizes,
                            quality : JpQuality \cup {0}, holds : JpHolds]
    BY <2>2 DEF JpFresh, JpStates, JpHeaderSizes
  <2>4. jpSet \in [cur : JpQuality, engine : JpQuality]
    <3>1. PICK q \in JpQuality : jpSet = [cur |-> q, engine |-> q]
      BY DEF JpInit
    <3> QED BY <3>1
  <2>6. jpFormat \in 1..2 /\ jpMoved \in BOOLEAN /\ jpCount \in 0..JpMaxJobs
    <3>1. jpFormat = 1 /\ jpMoved = FALSE /\ jpCount = 0
      BY DEF JpInit
    <3>2. jpFormat \in 1..2 /\ jpCount \in 0..JpMaxJobs
      BY <1>0, <3>1
    <3>3. jpMoved \in BOOLEAN
      BY <3>1
    <3> QED BY <3>2, <3>3
  <2>5. jpBuf \in [JpBuf -> [plane : Nat, state : JpStates, payload : Nat, header_size : JpHeaderSizes,
                            quality : JpQuality \cup {0}, holds : JpHolds]]
    BY <2>1, <2>3
  <2> QED BY <2>4, <2>5, <2>6 DEF JpShape
<1>2. JpActive /\ JpWaiting
  BY DEF JpInit, JpActive, JpWaiting, JpFresh
<1>3. JpImageWhole
  BY DEF JpInit, JpImageWhole, JpNoImage
<1> QED BY <1>1, <1>2, <1>3 DEF JpInv, JpJobShape, JpInit

\* The fields of a job.
LEMMA JpBusy ==
  ASSUME JpJobShape, jpJob # JpIdle
  PROVE  /\ jpJob.buf \in JpBuf /\ jpJob.quality \in JpQuality /\ jpJob.format = jpFormat
         /\ jpJob.header_size = CEDRUS_ENC_JPEG_HEADER_SIZE
  BY DEF JpJobShape

\* The quality control changes while a job may run.
LEMMA JpSetQualityKeeps == JpInv /\ JpSetQuality => JpInv'
<1> SUFFICES ASSUME JpInv, JpSetQuality PROVE JpInv'
  OBVIOUS
<1>1. JpShape'
  BY DEF JpInv, JpShape, JpSetQuality
<1> QED BY <1>1 DEF JpInv, JpJobShape, JpActive, JpWaiting, JpImageWhole, JpSetQuality

\* The picture format changes, between jobs; finished images may wait.
LEMMA JpSetFormatKeeps == JpInv /\ JpSetFormat => JpInv'
<1> SUFFICES ASSUME JpInv, JpSetFormat PROVE JpInv'
  OBVIOUS
<1>1. JpShape' /\ JpJobShape'
  BY DEF JpInv, JpShape, JpJobShape, JpSetFormat
<1>2. JpActive' /\ JpWaiting' /\ JpImageWhole'
  BY DEF JpInv, JpActive, JpWaiting, JpImageWhole, JpSetFormat
<1> QED BY <1>1, <1>2 DEF JpInv

\* cedrus_enc_jpeg_configure and _trigger: quality and header of the job.
LEMMA JpJobRunKeeps == JpInv /\ JpJobRun => JpInv'
<1> SUFFICES ASSUME JpInv, JpJobRun PROVE JpInv'
  OBVIOUS
<1> USE JpAssumption DEF JpAssumption
<1>1. PICK b \in JpBuf :
        /\ jpBuf[b].state = "client"
        /\ \/ /\ jpBuf' = [jpBuf EXCEPT ![b].state = "active"]
              /\ jpJob' = [busy |-> TRUE, buf |-> b, quality |-> jpSet.engine, format |-> jpFormat,
                           header_size |-> CEDRUS_ENC_JPEG_HEADER_SIZE]
           \/ /\ jpBuf' = [jpBuf EXCEPT ![b].state = "error"]
              /\ jpJob' = jpJob
  BY DEF JpJobRun
<1>2. jpJob = JpIdle /\ UNCHANGED <<jpSet, jpFormat, jpTaken, jpMoved>> /\ jpCount' \in 0..JpMaxJobs
  BY DEF JpJobRun, JpInv, JpShape
<1>3. JpShape' /\ JpJobShape'
  <2>1. jpSet.engine \in JpQuality
    BY DEF JpInv, JpShape
  <2>2. JpShape'
    BY <1>1, <1>2 DEF JpInv, JpShape, JpStates
  <2>3. JpJobShape'
    <3>1. CASE jpJob' = jpJob
      BY <1>2, <3>1 DEF JpInv, JpJobShape
    <3>2. CASE jpJob' = [busy |-> TRUE, buf |-> b, quality |-> jpSet.engine, format |-> jpFormat,
                         header_size |-> CEDRUS_ENC_JPEG_HEADER_SIZE]
      BY <1>2, <2>1, <3>2 DEF JpJobShape
    <3> QED BY <1>1, <3>1, <3>2
  <2> QED BY <2>2, <2>3
<1>4. JpActive'
  BY <1>1, <1>2 DEF JpInv, JpShape, JpActive, JpIdle
<1>5. JpWaiting' /\ JpImageWhole'
  BY <1>1, <1>2 DEF JpInv, JpShape, JpWaiting, JpImageWhole
<1> QED BY <1>3, <1>4, <1>5 DEF JpInv

\* cedrus_enc_jpeg_job_done, a failed job and a timeout: what the buffer then holds.
LEMMA JpJobEndKeeps == JpInv /\ JpJobEnd => JpInv'
<1> SUFFICES ASSUME JpInv, JpJobEnd PROVE JpInv'
  OBVIOUS
<1> DEFINE b == jpJob.buf
<1> USE JpAssumption DEF JpAssumption
<1>1. /\ b \in JpBuf /\ jpJob.quality \in JpQuality /\ jpJob.format = jpFormat
      /\ jpJob.header_size = CEDRUS_ENC_JPEG_HEADER_SIZE
  BY JpBusy DEF JpInv, JpJobEnd
<1>2. jpJob # JpIdle /\ jpJob' = JpIdle /\ UNCHANGED <<jpSet, jpFormat, jpTaken, jpMoved, jpCount>>
  BY DEF JpJobEnd
<1>3. PICK r : /\ jpBuf' = [jpBuf EXCEPT ![b] = r]
               /\ r \in [plane : Nat, state : JpStates \ {"active"}, payload : Nat,
                         header_size : JpHeaderSizes, quality : JpQuality \cup {0}, holds : JpHolds]
               /\ r.state = "done" => r.quality = r.holds[1] /\ r.holds[2] = jpFormat
  <2>1. CASE jpBuf' = [jpBuf EXCEPT ![b].state = "error", ![b].payload = 0]
    <3> DEFINE r == [jpBuf[b] EXCEPT !.state = "error", !.payload = 0]
    <3>1. jpBuf' = [jpBuf EXCEPT ![b] = r]
      BY <2>1
    <3>2. jpBuf[b] \in [plane : Nat, state : JpStates, payload : Nat,
                        header_size : JpHeaderSizes, quality : JpQuality \cup {0}, holds : JpHolds]
      BY <1>1 DEF JpInv, JpShape
    <3>3. r \in [plane : Nat, state : JpStates \ {"active"}, payload : Nat,
                 header_size : JpHeaderSizes, quality : JpQuality \cup {0}, holds : JpHolds]
      BY <3>2 DEF JpStates
    <3>4. r.state # "done"
      BY <3>2
    <3> QED BY <3>1, <3>3, <3>4
  <2>2. CASE \E bits \in JpLength :
               LET fits == JpLengthFits(bits, jpBuf[b].plane, jpJob.header_size)
               IN  jpBuf' = [jpBuf EXCEPT ![b] =
                               [@ EXCEPT !.state = IF fits THEN "done" ELSE "flagged",
                                         !.payload = IF fits THEN bits \div 8 ELSE 0,
                                         !.header_size = jpJob.header_size,
                                         !.quality = jpJob.quality,
                                         !.holds = <<jpJob.quality, jpJob.format>>]]
    <3>1. PICK bits \in JpLength :
               LET fits == JpLengthFits(bits, jpBuf[b].plane, jpJob.header_size)
               IN  jpBuf' = [jpBuf EXCEPT ![b] =
                               [@ EXCEPT !.state = IF fits THEN "done" ELSE "flagged",
                                         !.payload = IF fits THEN bits \div 8 ELSE 0,
                                         !.header_size = jpJob.header_size,
                                         !.quality = jpJob.quality,
                                         !.holds = <<jpJob.quality, jpJob.format>>]]
      BY <2>2
    <3> DEFINE fits == JpLengthFits(bits, jpBuf[b].plane, jpJob.header_size)
               r == [jpBuf[b] EXCEPT !.state = IF fits THEN "done" ELSE "flagged",
                                     !.payload = IF fits THEN bits \div 8 ELSE 0,
                                     !.header_size = jpJob.header_size,
                                     !.quality = jpJob.quality,
                                     !.holds = <<jpJob.quality, jpJob.format>>]
    <3>2. jpBuf' = [jpBuf EXCEPT ![b] = r]
      BY <3>1
    <3> HIDE DEF fits
    <3>3. jpBuf[b] \in [plane : Nat, state : JpStates, payload : Nat,
                        header_size : JpHeaderSizes, quality : JpQuality \cup {0}, holds : JpHolds]
      BY <1>1 DEF JpInv, JpShape
    <3>4. bits \div 8 \in Nat
      BY JpAssumption
    <3>5. jpFormat \in Nat
      BY DEF JpInv, JpShape
    <3>6. r \in [plane : Nat, state : JpStates \ {"active"}, payload : Nat,
                 header_size : JpHeaderSizes, quality : JpQuality \cup {0}, holds : JpHolds]
      BY <1>1, <3>3, <3>4, <3>5, ZenonT(60) DEF JpStates, JpHeaderSizes, JpHolds
    <3>7. r.quality = r.holds[1] /\ r.holds[2] = jpFormat
      BY <1>1, <3>3
    <3> QED BY <3>2, <3>6, <3>7
  <2> QED BY <2>1, <2>2 DEF JpJobEnd
<1> HIDE DEF b
<1>4. JpShape' /\ JpJobShape'
  BY <1>1, <1>2, <1>3 DEF JpInv, JpShape, JpJobShape
<1>5. JpActive'
  BY <1>1, <1>2, <1>3 DEF JpInv, JpShape, JpActive, b
<1>6. JpWaiting' /\ JpImageWhole'
  BY <1>1, <1>2, <1>3 DEF JpInv, JpShape, JpWaiting, JpImageWhole
<1> QED BY <1>4, <1>5, <1>6 DEF JpInv

\* buffer_finish builds the image in a buffer that the client takes back.
LEMMA JpTakeKeeps == JpInv /\ JpTake => JpInv'
<1> SUFFICES ASSUME JpInv, JpTake PROVE JpInv'
  OBVIOUS
<1>1. PICK b \in JpBuf : JpTakeBuffer(b, jpBuf[b].quality)
  BY DEF JpTake
<1>2. /\ jpBuf[b].state \in {"done", "error", "flagged"}
      /\ jpBuf' = [jpBuf EXCEPT ![b].state = "client"]
      /\ UNCHANGED <<jpSet, jpFormat, jpJob, jpMoved, jpCount>>
  BY <1>1 DEF JpTakeBuffer
<1>3. JpShape' /\ JpJobShape'
  <2>1. jpBuf[b] \in [plane : Nat, state : JpStates, payload : Nat, header_size : JpHeaderSizes,
                      quality : JpQuality \cup {0}, holds : JpHolds]
    BY DEF JpInv, JpShape
  <2>2. [jpBuf[b] EXCEPT !.state = "client"]
          \in [plane : Nat, state : JpStates, payload : Nat, header_size : JpHeaderSizes,
               quality : JpQuality \cup {0}, holds : JpHolds]
    BY <2>1 DEF JpStates
  <2> DEFINE r == [jpBuf[b] EXCEPT !.state = "client"]
  <2>3. jpBuf' = [jpBuf EXCEPT ![b] = r]
    BY <1>2
  <2> HIDE DEF r
  <2>4. JpShape'
    BY <1>2, <2>2, <2>3 DEF JpInv, JpShape, r
  <2>5. JpJobShape'
    BY <1>2 DEF JpInv, JpJobShape
  <2> QED BY <2>4, <2>5
<1>4. JpActive'
  BY <1>2 DEF JpInv, JpShape, JpActive
<1>5. JpWaiting'
  BY <1>2 DEF JpInv, JpShape, JpWaiting
<1>6. JpImageWhole'
  <2>1. CASE jpTaken' = [good |-> FALSE]
    BY <2>1 DEF JpImageWhole
  <2>2. CASE /\ jpBuf[b].state = "done" /\ jpBuf[b].header_size = CEDRUS_ENC_JPEG_HEADER_SIZE
             /\ jpBuf[b].payload <= jpBuf[b].plane - jpBuf[b].header_size - 2
             /\ jpTaken' = [good |-> TRUE, plane |-> jpBuf[b].plane, coded |-> jpBuf[b].payload,
                            total |-> jpBuf[b].payload + jpBuf[b].header_size + 2,
                            holds |-> jpBuf[b].holds, says |-> <<jpBuf[b].quality, jpFormat>>,
                            moved |-> jpMoved]
    <3>1. jpBuf[b].plane \in Nat /\ jpBuf[b].payload \in Nat /\ jpBuf[b].holds \in JpHolds
      BY DEF JpInv, JpShape
    <3>2. /\ jpBuf[b].quality = jpBuf[b].holds[1]
          /\ ~jpMoved => jpBuf[b].holds[2] = jpFormat
      BY <2>2 DEF JpInv, JpWaiting
    <3>3. jpBuf[b].holds = <<jpBuf[b].holds[1], jpBuf[b].holds[2]>>
      BY <3>1 DEF JpHolds
    <3> QED BY <2>2, <3>1, <3>2, <3>3, JpHeaderExact DEF JpImageWhole, CEDRUS_ENC_JPEG_HEADER_SIZE
  <2> QED BY <1>1, <2>1, <2>2 DEF JpTakeBuffer
<1> QED BY <1>3, <1>4, <1>5, <1>6 DEF JpInv

\* Every step of the encoder keeps the invariant.
LEMMA JpStepKeeps == JpInv /\ [JpNext]_jpVars => JpInv'
<1> SUFFICES ASSUME JpInv, [JpNext]_jpVars PROVE JpInv'
  OBVIOUS
<1>1. CASE UNCHANGED jpVars
  BY <1>1 DEF JpInv, JpShape, JpJobShape, JpActive, JpWaiting, JpImageWhole, jpVars
<1> QED BY <1>1, JpSetQualityKeeps, JpSetFormatKeeps, JpJobRunKeeps, JpJobEndKeeps, JpTakeKeeps DEF JpNext

\* The inductive invariant of the JPEG encoder, for any buffers, sizes, lengths and
\* qualities: the buffer of the job is the active one, and a finished one holds an image
\* of its quality behind a header of CEDRUS_ENC_JPEG_HEADER_SIZE bytes.
THEOREM JpegInductive == JpSpec => []JpInv
  BY JpInitOK, JpStepKeeps, PTL DEF JpSpec

-----------------------------------------------------------------------------
(* The bit streams and the geometry of the H.264 encoder. *)

\* Every number of 16 bits has a highest bit.
LEMMA HighestBit ==
  ASSUME NEW v \in Nat, 1 <= v, v < 65536
  PROVE  EnFls(v) \in 0..15 /\ Pow2(EnFls(v)) <= v /\ v < 2 * Pow2(EnFls(v))
<1> DEFINE Is(k) == Pow2(k) <= v /\ v < 2 * Pow2(k)
           f == CHOOSE k \in 0..15 : Is(k)
<1>1. \E k \in 0..15 : Is(k)
  <2>1. /\ Pow2(0) = 1 /\ Pow2(1) = 2 /\ Pow2(2) = 4 /\ Pow2(3) = 8
        /\ Pow2(4) = 16 /\ Pow2(5) = 32 /\ Pow2(6) = 64 /\ Pow2(7) = 128
        /\ Pow2(8) = 256 /\ Pow2(9) = 512 /\ Pow2(10) = 1024 /\ Pow2(11) = 2048
        /\ Pow2(12) = 4096 /\ Pow2(13) = 8192 /\ Pow2(14) = 16384 /\ Pow2(15) = 32768
    BY DEF Pow2
  <2>2. 1 <= v /\ v < 2 => Is(0)
    BY <2>1
  <2>3. 2 <= v /\ v < 4 => Is(1)
    BY <2>1
  <2>4. 4 <= v /\ v < 8 => Is(2)
    BY <2>1
  <2>5. 8 <= v /\ v < 16 => Is(3)
    BY <2>1
  <2>6. 16 <= v /\ v < 32 => Is(4)
    BY <2>1
  <2>7. 32 <= v /\ v < 64 => Is(5)
    BY <2>1
  <2>8. 64 <= v /\ v < 128 => Is(6)
    BY <2>1
  <2>9. 128 <= v /\ v < 256 => Is(7)
    BY <2>1
  <2>10. 256 <= v /\ v < 512 => Is(8)
    BY <2>1
  <2>11. 512 <= v /\ v < 1024 => Is(9)
    BY <2>1
  <2>12. 1024 <= v /\ v < 2048 => Is(10)
    BY <2>1
  <2>13. 2048 <= v /\ v < 4096 => Is(11)
    BY <2>1
  <2>14. 4096 <= v /\ v < 8192 => Is(12)
    BY <2>1
  <2>15. 8192 <= v /\ v < 16384 => Is(13)
    BY <2>1
  <2>16. 16384 <= v /\ v < 32768 => Is(14)
    BY <2>1
  <2>17. 32768 <= v /\ v < 65536 => Is(15)
    BY <2>1
  <2> HIDE DEF Is
  <2>18. v < 256 => \E k \in 0..7 : Is(k)
    BY <2>2, <2>3, <2>4, <2>5, <2>6, <2>7, <2>8, <2>9
  <2>19. 256 <= v => \E k \in 8..15 : Is(k)
    BY <2>10, <2>11, <2>12, <2>13, <2>14, <2>15, <2>16, <2>17
  <2>20. QED BY <2>18, <2>19
<1>2. EnFls(v) = f
  BY DEF EnFls
<1>3. f \in 0..15 /\ Is(f)
  <2> HIDE DEF Is
  <2>1. QED BY <1>1
<1> HIDE DEF f
<1>4. QED BY <1>2, <1>3

\* A reader of an Exp-Golomb code gets the value back, for every value whose
\* code has its highest bit within 16.
LEMMA CodeRead ==
  ASSUME NEW v \in Nat, v < 65535
  PROVE  EnRead(cedrus_enc_h264_coded_ue(v)) = v
<1> DEFINE f == EnFls(v + 1)
<1>1. f \in 0..15
  <2>1. v + 1 \in Nat /\ 1 <= v + 1 /\ v + 1 < 65536
    OBVIOUS
  <2>2. QED BY <2>1, HighestBit
<1> HIDE DEF f
<1> DEFINE code == cedrus_enc_h264_coded_ue(v)
<1>2. code.value = v + 1 /\ code.count = 2 * f + 1
  BY DEF cedrus_enc_h264_coded_ue, EnCode, f
<1> HIDE DEF code
<1>3. EnRead(code) = IF code.count = 2 * (EnFls(code.value) + 1) - 1 THEN code.value - 1 ELSE -1
  BY DEF EnRead
<1>4. EnRead(code) = v
  <2>1. EnFls(code.value) = f
    BY <1>2 DEF f
  <2>2. QED BY <1>1, <1>2, <1>3, <2>1
<1>5. QED BY <1>4 DEF code

\* So does a reader of a signed one.
LEMMA SignedCodeRead ==
  ASSUME NEW v \in Int, -32767 <= v, v <= 32767
  PROVE  EnReadSigned(cedrus_enc_h264_coded_se(v)) = v
<1> DEFINE u == IF v > 0 THEN 2 * v - 1 ELSE 2 * (0 - v)
<1>1. u \in Nat /\ u < 65535
  OBVIOUS
<1>2. IF u % 2 = 1 THEN (u + 1) \div 2 = v ELSE 0 - (u \div 2) = v
  <2>1. CASE v > 0
    <3>1. u = 2 * (v - 1) + 1 /\ u + 1 = 2 * v
      BY <2>1
    <3>2. u % 2 = 1 /\ (u + 1) \div 2 = v
      BY <3>1
    <3>3. QED BY <3>2
  <2>2. CASE ~(v > 0)
    <3>1. u = 2 * (0 - v)
      BY <2>2
    <3>2. u % 2 = 0 /\ u \div 2 = 0 - v
      BY <2>2, <3>1
    <3>3. QED BY <3>2
  <2>3. QED BY <2>1, <2>2
<1>3. cedrus_enc_h264_coded_se(v) = cedrus_enc_h264_coded_ue(u)
  BY DEF cedrus_enc_h264_coded_se
<1> HIDE DEF u
<1>4. EnRead(cedrus_enc_h264_coded_se(v)) = u
  BY <1>1, <1>3, CodeRead
<1>5. QED BY <1>2, <1>4 DEF EnReadSigned

\* A value of 31 bits is the value of its bytes.
LEMMA BytesRead ==
  ASSUME NEW v \in Nat, v < 2147483648
  PROVE  LET b == cedrus_enc_h264_coded_bytes(v)
         IN  ((b[1].value * 256 + b[2].value) * 256 + b[3].value) * 256 + b[4].value = v
<1> DEFINE b == cedrus_enc_h264_coded_bytes(v)
<1>1. b[1].value = (v \div 16777216) % 256
  BY DEF cedrus_enc_h264_coded_bytes, EnCode, Pow2
<1>2. b[2].value = (v \div 65536) % 256
  BY DEF cedrus_enc_h264_coded_bytes, EnCode, Pow2
<1>3. b[3].value = (v \div 256) % 256
  BY DEF cedrus_enc_h264_coded_bytes, EnCode, Pow2
<1>4. b[4].value = v % 256
  BY DEF cedrus_enc_h264_coded_bytes, EnCode, Pow2
<1>5. (v \div 16777216) % 256 = v \div 16777216
  OBVIOUS
<1>6. QED BY <1>1, <1>2, <1>3, <1>4, <1>5

\* Padding ends at a byte.
LEMMA PaddedToByte ==
  ASSUME NEW n \in Nat
  PROVE  (n + cedrus_enc_h264_coded_align(n)) % 8 = 0
  BY DEF cedrus_enc_h264_coded_align

\* What a stream says of a profile is said of no other.
LEMMA ProfilesDiffer ==
  /\ \A p, q \in DOMAIN EnProfiles : EnProfiles[p] = EnProfiles[q] => p = q
  /\ \A p \in DOMAIN EnProfiles : EnProfiles[p][1] \in EnHighSyntax <=> EnProfiles[p][1] \notin {66, 77, 88}
<1> DEFINE e == EnProfiles
           idc(p) == e[p][1]
<1>1. DOMAIN e = {"baseline", "constrained_baseline", "main", "extended", "high",
                  "constrained_high", "high_10", "high_10_intra", "high_422",
                  "high_422_intra", "high_444_predictive", "high_444_intra",
                  "cavlc_444_intra", "scalable_baseline", "scalable_high",
                  "scalable_high_intra", "stereo_high", "multiview_high"}
  BY DEF EnProfiles
<1>2. /\ idc("baseline") = 66
      /\ idc("constrained_baseline") = 66
      /\ idc("main") = 77
      /\ idc("extended") = 88
      /\ idc("high") = 100
      /\ idc("constrained_high") = 100
      /\ idc("high_10") = 110
      /\ idc("high_10_intra") = 110
      /\ idc("high_422") = 122
      /\ idc("high_422_intra") = 122
      /\ idc("high_444_predictive") = 244
      /\ idc("high_444_intra") = 244
      /\ idc("cavlc_444_intra") = 44
      /\ idc("scalable_baseline") = 83
      /\ idc("scalable_high") = 86
      /\ idc("scalable_high_intra") = 86
      /\ idc("stereo_high") = 128
      /\ idc("multiview_high") = 118
  BY DEF EnProfiles
<1>3. /\ e["baseline"] # e["constrained_baseline"]
      /\ e["high"] # e["constrained_high"]
      /\ e["high_10"] # e["high_10_intra"]
      /\ e["high_422"] # e["high_422_intra"]
      /\ e["high_444_predictive"] # e["high_444_intra"]
      /\ e["scalable_high"] # e["scalable_high_intra"]
  <2>1. e["baseline"] # e["constrained_baseline"]
    <3>1. 1 \notin e["baseline"][2] /\ 1 \in e["constrained_baseline"][2]
      BY DEF EnProfiles
    <3>2. QED BY <3>1
  <2>2. e["high"] # e["constrained_high"]
    <3>1. 4 \notin e["high"][2] /\ 4 \in e["constrained_high"][2]
      BY DEF EnProfiles
    <3>2. QED BY <3>1
  <2>3. e["high_10"] # e["high_10_intra"]
    <3>1. 3 \notin e["high_10"][2] /\ 3 \in e["high_10_intra"][2]
      BY DEF EnProfiles
    <3>2. QED BY <3>1
  <2>4. e["high_422"] # e["high_422_intra"]
    <3>1. 3 \notin e["high_422"][2] /\ 3 \in e["high_422_intra"][2]
      BY DEF EnProfiles
    <3>2. QED BY <3>1
  <2>5. e["high_444_predictive"] # e["high_444_intra"]
    <3>1. 3 \notin e["high_444_predictive"][2] /\ 3 \in e["high_444_intra"][2]
      BY DEF EnProfiles
    <3>2. QED BY <3>1
  <2>6. e["scalable_high"] # e["scalable_high_intra"]
    <3>1. 3 \notin e["scalable_high"][2] /\ 3 \in e["scalable_high_intra"][2]
      BY DEF EnProfiles
    <3>2. QED BY <3>1
  <2>7. QED BY <2>1, <2>2, <2>3, <2>4, <2>5, <2>6
<1> HIDE DEF e
<1>4. ASSUME NEW p \in DOMAIN e, NEW q \in DOMAIN e, e[p] = e[q] PROVE p = q
  <2>1. ASSUME p = "baseline" PROVE p = q
    <3>1. idc(q) = 66
      BY <1>2, <1>4, <2>1
    <3> HIDE DEF idc
    <3>2. QED BY <1>1, <1>2, <1>3, <1>4, <2>1, <3>1
  <2>2. ASSUME p = "constrained_baseline" PROVE p = q
    <3>1. idc(q) = 66
      BY <1>2, <1>4, <2>2
    <3> HIDE DEF idc
    <3>2. QED BY <1>1, <1>2, <1>3, <1>4, <2>2, <3>1
  <2>3. ASSUME p = "main" PROVE p = q
    <3>1. idc(q) = 77
      BY <1>2, <1>4, <2>3
    <3> HIDE DEF idc
    <3>2. QED BY <1>1, <1>2, <1>3, <1>4, <2>3, <3>1
  <2>4. ASSUME p = "extended" PROVE p = q
    <3>1. idc(q) = 88
      BY <1>2, <1>4, <2>4
    <3> HIDE DEF idc
    <3>2. QED BY <1>1, <1>2, <1>3, <1>4, <2>4, <3>1
  <2>5. ASSUME p = "high" PROVE p = q
    <3>1. idc(q) = 100
      BY <1>2, <1>4, <2>5
    <3> HIDE DEF idc
    <3>2. QED BY <1>1, <1>2, <1>3, <1>4, <2>5, <3>1
  <2>6. ASSUME p = "constrained_high" PROVE p = q
    <3>1. idc(q) = 100
      BY <1>2, <1>4, <2>6
    <3> HIDE DEF idc
    <3>2. QED BY <1>1, <1>2, <1>3, <1>4, <2>6, <3>1
  <2>7. ASSUME p = "high_10" PROVE p = q
    <3>1. idc(q) = 110
      BY <1>2, <1>4, <2>7
    <3> HIDE DEF idc
    <3>2. QED BY <1>1, <1>2, <1>3, <1>4, <2>7, <3>1
  <2>8. ASSUME p = "high_10_intra" PROVE p = q
    <3>1. idc(q) = 110
      BY <1>2, <1>4, <2>8
    <3> HIDE DEF idc
    <3>2. QED BY <1>1, <1>2, <1>3, <1>4, <2>8, <3>1
  <2>9. ASSUME p = "high_422" PROVE p = q
    <3>1. idc(q) = 122
      BY <1>2, <1>4, <2>9
    <3> HIDE DEF idc
    <3>2. QED BY <1>1, <1>2, <1>3, <1>4, <2>9, <3>1
  <2>10. ASSUME p = "high_422_intra" PROVE p = q
    <3>1. idc(q) = 122
      BY <1>2, <1>4, <2>10
    <3> HIDE DEF idc
    <3>2. QED BY <1>1, <1>2, <1>3, <1>4, <2>10, <3>1
  <2>11. ASSUME p = "high_444_predictive" PROVE p = q
    <3>1. idc(q) = 244
      BY <1>2, <1>4, <2>11
    <3> HIDE DEF idc
    <3>2. QED BY <1>1, <1>2, <1>3, <1>4, <2>11, <3>1
  <2>12. ASSUME p = "high_444_intra" PROVE p = q
    <3>1. idc(q) = 244
      BY <1>2, <1>4, <2>12
    <3> HIDE DEF idc
    <3>2. QED BY <1>1, <1>2, <1>3, <1>4, <2>12, <3>1
  <2>13. ASSUME p = "cavlc_444_intra" PROVE p = q
    <3>1. idc(q) = 44
      BY <1>2, <1>4, <2>13
    <3> HIDE DEF idc
    <3>2. QED BY <1>1, <1>2, <1>3, <1>4, <2>13, <3>1
  <2>14. ASSUME p = "scalable_baseline" PROVE p = q
    <3>1. idc(q) = 83
      BY <1>2, <1>4, <2>14
    <3> HIDE DEF idc
    <3>2. QED BY <1>1, <1>2, <1>3, <1>4, <2>14, <3>1
  <2>15. ASSUME p = "scalable_high" PROVE p = q
    <3>1. idc(q) = 86
      BY <1>2, <1>4, <2>15
    <3> HIDE DEF idc
    <3>2. QED BY <1>1, <1>2, <1>3, <1>4, <2>15, <3>1
  <2>16. ASSUME p = "scalable_high_intra" PROVE p = q
    <3>1. idc(q) = 86
      BY <1>2, <1>4, <2>16
    <3> HIDE DEF idc
    <3>2. QED BY <1>1, <1>2, <1>3, <1>4, <2>16, <3>1
  <2>17. ASSUME p = "stereo_high" PROVE p = q
    <3>1. idc(q) = 128
      BY <1>2, <1>4, <2>17
    <3> HIDE DEF idc
    <3>2. QED BY <1>1, <1>2, <1>3, <1>4, <2>17, <3>1
  <2>18. ASSUME p = "multiview_high" PROVE p = q
    <3>1. idc(q) = 118
      BY <1>2, <1>4, <2>18
    <3> HIDE DEF idc
    <3>2. QED BY <1>1, <1>2, <1>3, <1>4, <2>18, <3>1
  <2>19. QED BY <1>1, <2>1, <2>2, <2>3, <2>4, <2>5, <2>6, <2>7, <2>8, <2>9, <2>10, <2>11, <2>12, <2>13, <2>14, <2>15, <2>16, <2>17, <2>18
<1>5. ASSUME NEW p \in DOMAIN e PROVE idc(p) \in EnHighSyntax <=> idc(p) \notin {66, 77, 88}
  BY <1>1, <1>2 DEF EnHighSyntax
<1>6. QED BY <1>4, <1>5 DEF e

\* What a stream says of a level is said of no other.
LEMMA LevelsDiffer == \A i, j \in DOMAIN EnLevels : EnLevels[i] = EnLevels[j] => i = j
<1>1. DOMAIN EnLevels = 1..20
  BY DEF EnLevels
<1>2. /\ EnLevels[1] = 10 /\ EnLevels[2] = 9 /\ EnLevels[3] = 11 /\ EnLevels[4] = 12
      /\ EnLevels[5] = 13 /\ EnLevels[6] = 20 /\ EnLevels[7] = 21 /\ EnLevels[8] = 22
      /\ EnLevels[9] = 30 /\ EnLevels[10] = 31 /\ EnLevels[11] = 32 /\ EnLevels[12] = 40
      /\ EnLevels[13] = 41 /\ EnLevels[14] = 42 /\ EnLevels[15] = 50 /\ EnLevels[16] = 51
      /\ EnLevels[17] = 52 /\ EnLevels[18] = 60 /\ EnLevels[19] = 61 /\ EnLevels[20] = 62
  BY DEF EnLevels
<1>3. QED BY <1>1, <1>2

\* The codes, the padding and the tables of the H.264 encoder.
LEMMA BitsExact == EnBitsExact
<1>1. \A v \in 0..300 : EnRead(cedrus_enc_h264_coded_ue(v)) = v
  <2>1. ASSUME NEW v \in 0..300 PROVE EnRead(cedrus_enc_h264_coded_ue(v)) = v
    <3>1. v \in Nat /\ v < 65535
      OBVIOUS
    <3>2. QED BY <3>1, CodeRead
  <2>2. QED BY <2>1
<1>2. \A v \in (0 - 80)..80 : EnReadSigned(cedrus_enc_h264_coded_se(v)) = v
  <2>1. ASSUME NEW v \in (0 - 80)..80 PROVE EnReadSigned(cedrus_enc_h264_coded_se(v)) = v
    <3>1. v \in Int /\ -32767 <= v /\ v <= 32767
      OBVIOUS
    <3>2. QED BY <3>1, SignedCodeRead
  <2>2. QED BY <2>1
<1>3. ASSUME NEW v \in {0, 1, 255, 256, 65535, 65536, 131070, 16777216, 2147483647}
      PROVE  LET b == cedrus_enc_h264_coded_bytes(v)
             IN  ((b[1].value * 256 + b[2].value) * 256 + b[3].value) * 256 + b[4].value = v
  <2>1. v \in Nat /\ v < 2147483648
    OBVIOUS
  <2>2. QED BY <2>1, BytesRead
<1>4. \A n \in 0..40 : (n + cedrus_enc_h264_coded_align(n)) % 8 = 0
  <2>1. ASSUME NEW n \in 0..40 PROVE (n + cedrus_enc_h264_coded_align(n)) % 8 = 0
    <3>1. n \in Nat
      OBVIOUS
    <3>2. QED BY <3>1, PaddedToByte
  <2>2. QED BY <2>1
<1>5. QED BY <1>1, <1>2, <1>3, <1>4, ProfilesDiffer, LevelsDiffer DEF EnBitsExact

\* A decoder's cropping rectangle is the selection, for every even size and
\* every even position inside it.
LEMMA CroppingExact ==
  ASSUME NEW w \in Nat, NEW left \in Nat, NEW width \in Nat,
         w % 2 = 0, left % 2 = 0, width % 2 = 0, left + width <= w
  PROVE  LET m == DIV_ROUND_UP(w, 16)
         IN  /\ m * 16 - width - left >= 0
             /\ 2 * (left \div 2) = left
             /\ m * 16 - 2 * (left \div 2) - 2 * ((m * 16 - width - left) \div 2) = width
<1> DEFINE m == DIV_ROUND_UP(w, 16)
<1>1. m \in Nat /\ w <= m * 16
  BY DEF DIV_ROUND_UP
<1> HIDE DEF m
<1>2. m * 16 - width - left >= 0
  BY <1>1
<1>3. PICK a \in Nat : left = 2 * a
  BY SMTT(30)
<1>4. PICK b \in Nat : width = 2 * b
  BY SMTT(30)
<1>5. left \div 2 = a
  BY <1>3
<1>6. (m * 16 - width - left) \div 2 = m * 8 - b - a
  BY <1>1, <1>3, <1>4
<1>7. QED BY <1>1, <1>2, <1>3, <1>4, <1>5, <1>6 DEF m

\* Rounding a size up to a multiple gives at least the size.
LEMMA RoundedUp ==
  ASSUME NEW n \in Nat, NEW d \in {2, 4, 16, 32, 4096}
  PROVE  /\ DIV_ROUND_UP(n, d) \in Nat /\ n <= DIV_ROUND_UP(n, d) * d
         /\ ALIGN(n, d) \in Nat /\ n <= ALIGN(n, d)
         /\ n > 0 => DIV_ROUND_UP(n, d) > 0 /\ ALIGN(n, d) > 0
<1> DEFINE k == DIV_ROUND_UP(n, d)
<1>1. k \in Nat /\ n <= k * d /\ (n > 0 => k > 0)
  BY DEF DIV_ROUND_UP
<1>2. k * d \in Nat /\ (k > 0 => k * d > 0)
  BY <1>1
<1>3. QED BY <1>1, <1>2 DEF ALIGN

\* The reconstructed picture, the sub-pixel buffer and the macroblock rows fit
\* what the encoder allocates for a picture of any size.
LEMMA EncoderBuffersFit ==
  ASSUME NEW w \in Nat \ {0}, NEW h \in Nat \ {0}
  PROVE  LET mw == DIV_ROUND_UP(w, 16)
             mh == DIV_ROUND_UP(h, 16)
             picture == mw * 16 * mh * 16
         IN  /\ EnRecLuma(w, h) >= picture /\ EnRecChroma(w, h) >= picture \div 2
             /\ EnRecSize(w, h) >= EnRecLuma(w, h) + EnRecChroma(w, h)
             /\ EnSubpixSize(w, h) > 0 /\ EnMbInfoSize(w) >= mw * 128
<1> DEFINE mw == DIV_ROUND_UP(w, 16)
           mh == DIV_ROUND_UP(h, 16)
           aw == ALIGN(mw, 2)
           al == ALIGN(mh + 1, 4)
           ac == ALIGN(DIV_ROUND_UP(mh, 2), 4)
<1>1. mw \in Nat /\ mh \in Nat /\ mw > 0 /\ mh > 0
  BY RoundedUp
<1> HIDE DEF mw, mh
<1>2. aw \in Nat /\ mw <= aw
  BY <1>1, RoundedUp
<1>3. al \in Nat /\ mh <= al
  <2>1. mh + 1 \in Nat
    BY <1>1
  <2>2. al \in Nat /\ mh + 1 <= al
    BY <2>1, RoundedUp
  <2>3. QED BY <1>1, <2>2
<1>4. ac \in Nat /\ mh <= 2 * ac
  <2> DEFINE k == DIV_ROUND_UP(mh, 2)
  <2>1. k \in Nat /\ mh <= k * 2
    BY <1>1, RoundedUp
  <2> HIDE DEF k
  <2>2. ALIGN(k, 4) \in Nat /\ k <= ALIGN(k, 4)
    BY <2>1, AlignUp
  <2>3. QED BY <1>1, <2>1, <2>2 DEF k
<1>5. /\ EnRecLuma(w, h) = aw * 16 * al * 16
      /\ EnRecChroma(w, h) = aw * 16 * ac * 16
  BY DEF EnRecLuma, EnRecChroma, mw, mh
<1> HIDE DEF aw, al, ac
<1>6. mw * mh <= aw * al /\ mw * mh \in Nat /\ aw * al \in Nat
  <2>1. mw * mh <= aw * mh
    BY <1>1, <1>2, ProductMonotone
  <2>2. mh * aw <= al * aw
    BY <1>1, <1>2, <1>3, ProductMonotone
  <2>3. QED BY <2>1, <2>2, <1>1, <1>2, <1>3
<1>7. mw * mh <= 2 * (aw * ac) /\ aw * ac \in Nat
  <2>1. mw * mh <= aw * mh
    BY <1>1, <1>2, ProductMonotone
  <2>2. mh * aw <= (2 * ac) * aw /\ (2 * ac) * aw = 2 * (aw * ac)
    BY <1>1, <1>2, <1>4, ProductMonotone
  <2>3. QED BY <2>1, <2>2, <1>1, <1>2, <1>4
<1>8. mw * 16 * mh * 16 = 256 * (mw * mh) /\ (mw * 16 * mh * 16) \div 2 = 128 * (mw * mh)
  <2>1. mw * 16 * mh * 16 = 256 * (mw * mh)
    BY <1>1
  <2> DEFINE x == mw * mh
  <2>2. x \in Nat
    BY <1>1
  <2> HIDE DEF x
  <2>3. (256 * x) \div 2 = 128 * x
    BY <2>2
  <2>4. QED BY <2>1, <2>3 DEF x
<1>9. EnRecLuma(w, h) = 256 * (aw * al) /\ EnRecChroma(w, h) = 256 * (aw * ac)
  BY <1>2, <1>3, <1>4, <1>5
<1>10. EnRecSize(w, h) >= EnRecLuma(w, h) + EnRecChroma(w, h)
  <2>1. EnRecLuma(w, h) + EnRecChroma(w, h) \in Nat
    BY <1>6, <1>7, <1>9
  <2>2. QED BY <2>1, RoundedUp DEF EnRecSize
<1>11. EnMbInfoSize(w) >= mw * 128
  <2>1. DIV_ROUND_UP(mw, 32) \in Nat /\ mw <= DIV_ROUND_UP(mw, 32) * 32
    BY <1>1, RoundedUp
  <2>2. EnMbInfoSize(w) = DIV_ROUND_UP(mw, 32) * 4096
    BY DEF EnMbInfoSize, mw
  <2>3. QED BY <2>1, <2>2, <1>1
<1>12. EnSubpixSize(w, h) > 0
  <2> DEFINE a == ((((mw + 47) * 2) \div 3) \div 32) * 32 + ALIGN(mw, 32) * 2
             b == (mh * 16 + 72) \div 8
  <2>1. EnSubpixSize(w, h) = a * b
    BY DEF EnSubpixSize, mw, mh
  <2>2. a \in Nat \ {0}
    <3>1. ALIGN(mw, 32) \in Nat /\ ALIGN(mw, 32) > 0
      BY <1>1, RoundedUp
    <3>2. (((mw + 47) * 2) \div 3) \div 32 \in Nat
      BY <1>1
    <3>3. QED BY <3>1, <3>2
  <2>3. b \in Nat \ {0}
    BY <1>1
  <2> HIDE DEF a, b
  <2>4. QED BY <2>1, <2>2, <2>3
<1>13. /\ EnRecLuma(w, h) >= mw * 16 * mh * 16
       /\ EnRecChroma(w, h) >= (mw * 16 * mh * 16) \div 2
  BY <1>6, <1>7, <1>8, <1>9
<1>14. QED BY <1>10, <1>11, <1>12, <1>13 DEF mw, mh

\* Cropping and buffers are exact for every set of even sizes.
LEMMA CropExact ==
  ASSUME NEW sizes \in SUBSET Nat, \A s \in sizes : s > 0 /\ s % 2 = 0
  PROVE  EnCropExact(sizes)
<1> SUFFICES ASSUME NEW w \in sizes, NEW h \in sizes
             PROVE  LET mw == DIV_ROUND_UP(w, 16)
                        mh == DIV_ROUND_UP(h, 16)
                        picture == mw * 16 * mh * 16
                    IN  /\ EnRecLuma(w, h) >= picture /\ EnRecChroma(w, h) >= picture \div 2
                        /\ EnRecSize(w, h) >= EnRecLuma(w, h) + EnRecChroma(w, h)
                        /\ EnSubpixSize(w, h) > 0 /\ EnMbInfoSize(w) >= mw * 128
                        /\ \A left \in {0, 2, w - 2} : \A width \in {2, w - left} :
                             LET sel == [left |-> left, top |-> 0, width |-> width, height |-> h]
                                 c == EnCrop(sel, mw, mh)
                             IN  left + width <= w =>
                                   /\ 2 * c.left = left /\ mw * 16 - 2 * c.left - 2 * c.right = width
                                   /\ 2 * c.top = 0 /\ mh * 16 - 2 * c.top - 2 * c.bottom = h
  BY DEF EnCropExact
<1> DEFINE mw == DIV_ROUND_UP(w, 16)
           mh == DIV_ROUND_UP(h, 16)
<1>1. w \in Nat \ {0} /\ h \in Nat \ {0} /\ w % 2 = 0 /\ h % 2 = 0
  OBVIOUS
<1>2. ASSUME NEW left \in {0, 2, w - 2}, NEW width \in {2, w - left}, left + width <= w
      PROVE  LET sel == [left |-> left, top |-> 0, width |-> width, height |-> h]
                 c == EnCrop(sel, mw, mh)
             IN  /\ 2 * c.left = left /\ mw * 16 - 2 * c.left - 2 * c.right = width
                 /\ 2 * c.top = 0 /\ mh * 16 - 2 * c.top - 2 * c.bottom = h
  <2>1. left \in Nat /\ left % 2 = 0
    BY <1>1
  <2>2. width \in Nat /\ width % 2 = 0
    BY <1>1, <1>2, <2>1
  <2>3. 2 * (left \div 2) = left /\ mw * 16 - 2 * (left \div 2) - 2 * ((mw * 16 - width - left) \div 2) = width
    BY <1>1, <1>2, <2>1, <2>2, CroppingExact
  <2>4. 2 * (0 \div 2) = 0 /\ mh * 16 - 2 * (0 \div 2) - 2 * ((mh * 16 - h - 0) \div 2) = h
    <3>1. 0 \in Nat /\ 0 % 2 = 0 /\ 0 + h <= h
      BY <1>1
    <3>2. QED BY <1>1, <3>1, CroppingExact
  <2> HIDE DEF mw, mh
  <2>5. QED BY <2>3, <2>4 DEF EnCrop
<1>3. QED BY <1>1, <1>2, EncoderBuffersFit
-----------------------------------------------------------------------------
(* The H.264 encoder.                                                      *)

\* Frame numbers, and what a context and a job of the encoder are made of.
EnNums     == 0..(Pow2(EnNumLog) - 1)
EnContexts == [profile : EnFlag, cabac : EnFlag, offset : EnOffset, closed : EnFlag, prepend : EnFlag,
               gop : EnLength, period : EnLength, qp_i : EnQp, qp_p : EnQp, qp_min : EnQp,
               qp_max : EnQp, force : EnFlag]
EnPrepared == [phase : {"prepared"}, f : Nat, buf : EnBuf, type : {"IDR", "I", "P"}, num : EnNums,
               profile : EnFlag, cabac : EnFlag, offset : EnOffset, qp : EnQp]
EnEncoding == [phase : {"encoding"}, f : Nat, buf : EnBuf, type : {"IDR", "I", "P"}, num : EnNums,
               profile : EnFlag, cabac : EnFlag, offset : EnOffset, qp : EnQp,
               headers : SUBSET {"sps", "pps"}, init : EnQp, delta : Int,
               ref : EnBuf, holds : Nat]

\* The shape of the state, and when there is a job.
EnShape ==
  /\ enCtx \in EnContexts
  /\ enJob = EnIdle \/ enJob \in EnPrepared \cup EnEncoding
  /\ enJob # EnIdle => enUp /\ enJob.f <= enCount.frames
  /\ enDec \in [profile : EnFlag \cup {2}, cabac : EnFlag \cup {2}, offset : EnOffset, init : EnQp, num : EnNums, ref : Nat]

\* The parameter sets the decoder has, those of the job, and those of the
\* context: they differ only when a set is due, was lost or was raced.
EnSetsIdle ==
  /\ enState.step > EN_SPS /\ "sps" \notin enOdd /\ "raced_sps" \notin enOdd =>
       enDec.profile = enCtx.profile
  /\ enState.step > EN_PPS /\ "pps" \notin enOdd /\ "raced_pps" \notin enOdd =>
       /\ enDec.cabac = enCtx.cabac /\ enDec.init = enState.qp_init
       /\ "offset" \notin enOdd => enDec.offset = enCtx.offset
EnSetsPrepared ==
  /\ "raced_sps" \notin enOdd => enJob.profile = enCtx.profile
  /\ "raced_pps" \notin enOdd => enJob.cabac = enCtx.cabac
  /\ "offset" \notin enOdd => enJob.offset = enCtx.offset
  /\ enState.step > EN_SPS /\ "sps" \notin enOdd /\ "raced_sps" \notin enOdd =>
       enDec.profile = enJob.profile
  /\ enState.step > EN_PPS /\ "pps" \notin enOdd /\ "raced_pps" \notin enOdd =>
       /\ enDec.cabac = enJob.cabac /\ enDec.init = enState.qp_init
       /\ "offset" \notin enOdd => enDec.offset = enJob.offset
EnSetsEncoding ==
  /\ enJob.delta = enJob.qp - enJob.init
  /\ "sps" \notin enOdd \ enJob.headers /\ "raced_sps" \notin enOdd =>
       EnDecoded(enDec, enJob).profile = enJob.profile
  /\ "pps" \notin enOdd \ enJob.headers /\ "raced_pps" \notin enOdd =>
       LET dec == EnDecoded(enDec, enJob)
       IN  /\ dec.cabac = enJob.cabac /\ dec.init = enJob.init
           /\ "offset" \notin enOdd => dec.offset = enJob.offset
  /\ enState.step > EN_SPS /\ "raced_sps" \notin enOdd => enJob.profile = enCtx.profile
  /\ enState.step > EN_PPS /\ "raced_pps" \notin enOdd =>
       enJob.cabac = enCtx.cabac /\ enJob.init = enState.qp_init
  /\ "offset" \notin enOdd => enJob.offset = enCtx.offset
EnSets ==
  /\ enJob.phase = "idle" => EnSetsIdle
  /\ enJob.phase = "prepared" => EnSetsPrepared
  /\ enJob.phase = "encoding" => EnSetsEncoding

\* The frame numbers and the reference, of the decoder and of the encoder: they
\* differ from a lost frame to the next IDR frame, and the reference when the
\* buffers were freed or a frame was written over its own reference.  Before the first frame of a group neither matters.
EnRefsIdle ==
  enState.gop_index # 0 =>
    /\ enLast \in EnBuf
    /\ "lost" \notin enOdd =>
         /\ enState.frame_num = EnNextNum(enDec.num)
         /\ "freed" \notin enOdd => enRec[enLast] = enDec.ref
EnRefsPrepared ==
  /\ enState.frame_num = EnNextNum(enJob.num)
  /\ enJob.type = "IDR" => enJob.num = 0
  /\ enJob.type # "IDR" /\ "lost" \notin enOdd => enJob.num = EnNextNum(enDec.num)
  /\ enJob.type = "P" =>
       /\ enLast \in EnBuf
       /\ "lost" \notin enOdd /\ "freed" \notin enOdd => enRec[enLast] = enDec.ref
EnRefsEncoding ==
  /\ enState.frame_num = EnNextNum(enJob.num) /\ enLast = enJob.buf
  /\ enJob.type = "IDR" => enJob.num = 0
  /\ enJob.type # "IDR" /\ "lost" \notin enOdd => enJob.num = EnNextNum(enDec.num)
  /\ enJob.type # "P" => enJob.holds = enJob.f
  /\ enJob.type = "P" /\ enOdd \cap {"lost", "freed", "reused"} = {} => enJob.holds = enDec.ref
EnRefs ==
  /\ enJob.phase = "idle" => EnRefsIdle
  /\ enJob.phase = "prepared" => EnRefsPrepared
  /\ enJob.phase = "encoding" => EnRefsEncoding

\* The inductive invariant of the encoder.
EnInv == EnTypeOK /\ EnShape /\ EnSets /\ EnRefs /\ EnParametersAgree /\ EnReferenceMeant

USE DEF EN_START, EN_SPS, EN_PPS, EN_SLICE

\* Frame numbers stay below their modulus.
LEMMA EnNumbers ==
  /\ Pow2(EnNumLog) \in Nat \ {0}
  /\ 0 \in EnNums
  /\ \A num \in EnNums : EnNextNum(num) = (num + 1) % Pow2(EnNumLog) /\ EnNextNum(num) \in EnNums
<1>1. EnNumLog \in 1..16
  BY EnAssumption DEF EnAssumption
<1>2. Pow2(EnNumLog) \in Nat \ {0}
  BY <1>1 DEF Pow2
<1>3. ASSUME NEW p \in Nat \ {0}, NEW num \in 0..(p - 1)
      PROVE  (num + 1) % p \in 0..(p - 1)
  BY <1>3
<1>4. QED BY <1>2, <1>3 DEF EnNums, EnNextNum

\* Values the driver itself stores into fields of a context.
LEMMA EnValues == /\ 0 \in EnFlag /\ 1 \in EnFlag /\ 2 \notin EnFlag
                  /\ 0 \in EnOffset /\ 0 \in EnQp /\ EnQp \subseteq Int
  BY DEF EnFlag, EnOffset, EnQp

\* Groups and intra periods are at least one frame long.
LEMMA EnLengths == EnLength \subseteq Nat \ {0}
<1>1. EnMaxLength \in Nat
  BY DEF EnMaxLength
<1>2. QED BY <1>1 DEF EnLength

\* A context has the values of the controls, and no key frame is forced.
LEMMA EnOffShape ==
  ASSUME NEW cur \in EnControls
  PROVE  /\ EnOff(cur) \in EnContexts /\ EnOff(cur).force = 0
<1>1. DOMAIN cur = {"profile", "cabac", "offset", "closed", "prepend", "gop", "period", "qp_i", "qp_p",
                    "qp_min", "qp_max"}
  BY DEF EnControls
<1>2. /\ DOMAIN EnOff(cur) = DOMAIN cur \cup {"force"} /\ EnOff(cur).force = 0
      /\ \A c \in DOMAIN cur : EnOff(cur)[c] = cur[c]
  BY <1>1 DEF EnOff
<1>3. EnOff(cur) = [profile |-> cur.profile, cabac |-> cur.cabac, offset |-> cur.offset,
                    closed |-> cur.closed, prepend |-> cur.prepend, gop |-> cur.gop,
                    period |-> cur.period, qp_i |-> cur.qp_i, qp_p |-> cur.qp_p,
                    qp_min |-> cur.qp_min, qp_max |-> cur.qp_max, force |-> 0]
  BY <1>1 DEF EnOff
<1>4. QED BY <1>2, <1>3, EnValues DEF EnControls, EnContexts

\* The phase of a job tells which fields it has.
LEMMA EnPhases ==
  ASSUME EnShape
  PROVE  /\ enJob = EnIdle <=> enJob.phase = "idle"
         /\ enJob \in EnPrepared <=> enJob.phase = "prepared"
         /\ enJob \in EnEncoding <=> enJob.phase = "encoding"
  BY DEF EnShape, EnIdle, EnPrepared, EnEncoding

\* A context that was just opened.
LEMMA EnInitInv == ASSUME EnInit PROVE EnInv
<1>1. enCur \in EnControls
  BY EnAssumption DEF EnInit, EnAssumption
<1>2. EnTypeOK
  <2>1. EnMaxFrames \in Nat /\ EnMaxChanges \in Nat
    BY EnAssumption DEF EnAssumption
  <2>2. /\ enState \in [step : EN_START..EN_SLICE, gop_index : 0..enCount.frames,
                        frame_num : EnNums, qp_init : EnQp]
        /\ enRec \in [EnBuf -> 0..enCount.frames] /\ enJob.phase = "idle"
    BY EnNumbers, EnValues DEF EnInit, EnNoState, EnIdle
  <2>3. enCount \in [frames : 0..EnMaxFrames, changes : 0..EnMaxChanges]
    BY <2>1 DEF EnInit
  <2>4. QED BY <1>1, <2>2, <2>3 DEF EnInit, EnTypeOK, EnNums
<1>3. EnShape
  BY <1>1, EnOffShape, EnNumbers, EnValues DEF EnInit, EnShape, EnNoDec
<1>4. EnSets /\ EnRefs
  BY DEF EnInit, EnSets, EnSetsIdle, EnRefs, EnRefsIdle, EnIdle, EnNoState
<1>5. EnParametersAgree /\ EnReferenceMeant
  BY DEF EnInit, EnParametersAgree, EnReferenceMeant
<1>6. QED BY <1>2, <1>3, <1>4, <1>5 DEF EnInv

\* cedrus_enc_h264_setup: nothing is known of any earlier stream.
LEMMA EnSetupKeeps == ASSUME EnInv, EnSetup PROVE EnInv'
<1>1. PICK cur \in EnControls : enCur' = cur /\ enCtx' = EnOff(cur)
  <2>1. enCur \in EnControls /\ [enCur EXCEPT !.cabac = 0] \in EnControls
    BY EnValues DEF EnInv, EnTypeOK, EnControls
  <2>2. QED BY <2>1 DEF EnSetup
<1>2. enJob = EnIdle /\ enJob' = EnIdle
  BY DEF EnInv, EnShape, EnSetup
<1>3. EnTypeOK'
  BY <1>1, EnNumbers, EnValues DEF EnInv, EnTypeOK, EnSetup, EnNoState, EnNums
<1>4. EnShape'
  BY <1>1, <1>2, EnOffShape, EnNumbers, EnValues DEF EnShape, EnSetup, EnNoDec
<1>5. EnSets' /\ EnRefs'
  BY <1>2 DEF EnSetup, EnSets, EnSetsIdle, EnRefs, EnRefsIdle, EnIdle, EnNoState
<1>6. EnParametersAgree' /\ EnReferenceMeant'
  BY DEF EnSetup, EnParametersAgree, EnReferenceMeant
<1>7. QED BY <1>3, <1>4, <1>5, <1>6 DEF EnInv

\* stop_streaming, between jobs.
LEMMA EnCleanupKeeps == ASSUME EnInv, EnCleanup PROVE EnInv'
<1>1. EnTypeOK' /\ EnShape'
  BY DEF EnInv, EnTypeOK, EnShape, EnCleanup, EnIdle
<1>2. EnSets' /\ EnRefs'
  BY DEF EnInv, EnCleanup, EnSets, EnSetsIdle, EnRefs, EnRefsIdle, EnIdle
<1>3. EnParametersAgree' /\ EnReferenceMeant'
  BY DEF EnCleanup, EnParametersAgree, EnReferenceMeant
<1>4. QED BY <1>1, <1>2, <1>3 DEF EnInv

\* Capture buffers are freed: their reconstructions are gone, and marked.
LEMMA EnBuffersFreedKeeps == ASSUME EnInv, EnBuffersFreed PROVE EnInv'
<1>1. EnTypeOK' /\ EnShape'
  BY DEF EnInv, EnTypeOK, EnShape, EnBuffersFreed, EnIdle
<1>2. EnSets' /\ EnRefs'
  BY DEF EnInv, EnBuffersFreed, EnSets, EnSetsIdle, EnRefs, EnRefsIdle, EnIdle
<1>3. EnParametersAgree' /\ EnReferenceMeant'
  BY DEF EnInv, EnBuffersFreed, EnParametersAgree, EnReferenceMeant
<1>4. QED BY <1>1, <1>2, <1>3 DEF EnInv
\* A control changes: what the context then differs in is due, or marked.
LEMMA EnSetControlKeeps == ASSUME EnInv, EnSetControl PROVE EnInv'
<1>1. PICK change \in EnChange :
        LET id     == change[1]
            value  == change[2]
            first  == [enCtx EXCEPT ![id] = IF id = "force" THEN 1 ELSE enCur[id]]
            nested == /\ id = "profile"
                      /\ ~cedrus_enc_h264_profile_cabac_check(first.profile)
                      /\ enCur.cabac = 1
            after  == IF nested THEN [first EXCEPT !.cabac = enCur.cabac] ELSE first
            floor  == IF id = "profile" THEN EN_SPS ELSE IF id = "cabac" THEN EN_PPS ELSE EN_SLICE
        IN  /\ enCtx' = after
            /\ enCur' = IF id = "force" THEN enCur
                        ELSE LET cur == [enCur EXCEPT ![id] = value]
                             IN  IF nested THEN [cur EXCEPT !.cabac = 0] ELSE cur
            /\ enState' = [enState EXCEPT !.step = IF @ > floor THEN floor ELSE @]
            /\ enOdd' = enOdd
                 \cup (IF after.offset # enCtx.offset THEN {"offset"} ELSE {})
                 \cup (IF enJob.phase = "prepared" THEN EnRaced(floor) ELSE {})
  BY DEF EnSetControl
<1> DEFINE id     == change[1]
           value  == change[2]
           first  == [enCtx EXCEPT ![id] = IF id = "force" THEN 1 ELSE enCur[id]]
           nested == /\ id = "profile"
                     /\ ~cedrus_enc_h264_profile_cabac_check(first.profile)
                     /\ enCur.cabac = 1
           after  == IF nested THEN [first EXCEPT !.cabac = enCur.cabac] ELSE first
           cur    == [enCur EXCEPT ![id] = value]
           floor  == IF id = "profile" THEN EN_SPS ELSE IF id = "cabac" THEN EN_PPS ELSE EN_SLICE
<1>2. /\ id \in {"profile", "cabac", "offset", "prepend", "force"}
      /\ IF id = "offset" THEN value \in EnOffset ELSE value \in EnFlag
  BY EnAssumption DEF EnAssumption
<1>3. enCtx \in EnContexts /\ enCur \in EnControls
  BY DEF EnInv, EnShape, EnTypeOK
<1>4. first \in EnContexts
  BY <1>2, <1>3, EnValues DEF EnContexts, EnControls
<1>5. after \in EnContexts
  BY <1>3, <1>4 DEF EnContexts, EnControls
<1>6. cur \in EnControls \/ id = "force"
  BY <1>2, <1>3 DEF EnControls
<1>7. enCtx' \in EnContexts /\ enCur' \in EnControls
  <2>1. id # "force" => [cur EXCEPT !.cabac = 0] \in EnControls
    BY <1>6, EnValues DEF EnControls
  <2>2. QED BY <1>1, <1>3, <1>5, <1>6, <2>1
<1>8. /\ floor \in 1..3
      /\ enCtx'.profile # enCtx.profile => floor <= EN_SPS
      /\ enCtx'.cabac # enCtx.cabac => floor <= EN_PPS
      /\ enCtx'.offset # enCtx.offset => "offset" \in enOdd'
  <2>1. first.profile # enCtx.profile => id = "profile"
    BY <1>2, <1>3 DEF EnContexts
  <2>2. first.cabac # enCtx.cabac => id = "cabac"
    BY <1>2, <1>3 DEF EnContexts
  <2>3. after.profile # enCtx.profile => id = "profile"
    BY <1>3, <1>4, <2>1 DEF EnContexts
  <2>4. after.cabac # enCtx.cabac => id \in {"profile", "cabac"}
    BY <1>3, <1>4, <2>2 DEF EnContexts
  <2>5. after.offset # enCtx.offset => "offset" \in enOdd'
    BY <1>1
  <2>6. enCtx' = after
    BY <1>1
  <2>7. /\ floor \in 1..3
        /\ id = "profile" => floor = EN_SPS
        /\ id = "cabac" => floor = EN_PPS
    OBVIOUS
  <2> HIDE DEF id, after, floor
  <2>8. QED BY <2>3, <2>4, <2>5, <2>6, <2>7
<1>9. /\ enState'.step <= enState.step /\ enState'.step <= floor
      /\ enState.step \in 0..3 /\ enState'.step \in 0..3
      /\ enState'.gop_index = enState.gop_index /\ enState'.frame_num = enState.frame_num
      /\ enState'.qp_init = enState.qp_init
      /\ enState' \in [step : EN_START..EN_SLICE, gop_index : 0..enCount.frames,
                       frame_num : EnNums, qp_init : EnQp]
  <2>1. enState \in [step : EN_START..EN_SLICE, gop_index : 0..enCount.frames,
                     frame_num : EnNums, qp_init : EnQp]
    BY DEF EnInv, EnTypeOK, EnNums
  <2>2. floor \in 1..3 /\ enState' = [enState EXCEPT !.step = IF @ > floor THEN floor ELSE @]
    BY <1>1, <1>8
  <2>3. QED BY <2>1, <2>2
<1>10. /\ enOdd \subseteq enOdd' /\ enOdd' \ enOdd \subseteq {"offset", "raced_sps", "raced_pps"}
       /\ enJob.phase = "prepared" /\ floor <= EN_SPS => "raced_sps" \in enOdd'
       /\ enJob.phase = "prepared" /\ floor <= EN_PPS => "raced_pps" \in enOdd'
  BY <1>1 DEF EnRaced
<1>11. /\ UNCHANGED <<enUp, enLast, enRec, enJob, enDec, enSeen>>
       /\ enCount' = [enCount EXCEPT !.changes = @ + 1] /\ enCount.changes < EnMaxChanges
  BY DEF EnSetControl
<1> HIDE DEF id, value, first, nested, after, cur, floor
<1>12. enCount' \in [frames : 0..EnMaxFrames, changes : 0..EnMaxChanges] /\ enCount'.frames = enCount.frames
  BY <1>11, EnAssumption DEF EnInv, EnTypeOK, EnAssumption
<1>13. EnTypeOK' /\ EnShape'
  BY <1>7, <1>9, <1>10, <1>11, <1>12 DEF EnInv, EnTypeOK, EnShape, EnNums
<1>14. EnSets'
  <2>1. CASE enJob.phase = "idle"
    BY <1>8, <1>9, <1>10, <1>11, <2>1 DEF EnInv, EnSets, EnSetsIdle
  <2>2. CASE enJob.phase = "prepared"
    BY <1>8, <1>9, <1>10, <1>11, <2>2 DEF EnInv, EnSets, EnSetsPrepared
  <2>3. CASE enJob.phase = "encoding"
    BY <1>8, <1>9, <1>10, <1>11, <2>3 DEF EnInv, EnSets, EnSetsEncoding, EnDecoded
  <2>4. QED BY <1>11, <2>1, <2>2, <2>3 DEF EnInv, EnTypeOK, EnSets
<1>15. EnRefs'
  BY <1>9, <1>10, <1>11 DEF EnInv, EnRefs, EnRefsIdle, EnRefsPrepared, EnRefsEncoding
<1>16. EnParametersAgree' /\ EnReferenceMeant'
  BY <1>11 DEF EnInv, EnParametersAgree, EnReferenceMeant
<1>17. QED BY <1>13, <1>14, <1>15, <1>16 DEF EnInv

\* cedrus_enc_h264_prepare: the type and number of the frame, and what it refers to.
LEMMA EnPrepareKeeps == ASSUME EnInv, EnPrepare PROVE EnInv'
<1> DEFINE type == EnFrameType
           num  == IF type = "IDR" THEN 0 ELSE enState.frame_num
           step == IF type = "IDR" /\ enCtx.prepend = 1 THEN EN_SPS ELSE enState.step
           qp   == EnClamp(IF type = "P" THEN enCtx.qp_p ELSE enCtx.qp_i)
           next == enState.gop_index + 1
           gop  == IF enCtx.closed = 1 THEN next % enCtx.gop ELSE next
           init == IF step < EN_SLICE THEN qp ELSE enState.qp_init
<1>1. PICK b \in EnBuf :
        /\ enJob' = [phase |-> "prepared", f |-> enCount.frames + 1, buf |-> b, type |-> type,
                     num |-> num, profile |-> enCtx.profile, cabac |-> enCtx.cabac,
                     offset |-> enCtx.offset, qp |-> qp]
        /\ enState' = [step |-> step, gop_index |-> gop, frame_num |-> EnNextNum(num), qp_init |-> init]
        /\ enOdd' = enOdd \ (EnRaced(step) \cup (IF step < EN_SLICE THEN {"offset"} ELSE {}))
  BY DEF EnPrepare
<1>2. /\ enUp /\ enJob = EnIdle /\ enCount.frames < EnMaxFrames
      /\ enCtx' = [enCtx EXCEPT !.force = 0] /\ enCount' = [enCount EXCEPT !.frames = @ + 1]
      /\ UNCHANGED <<enUp, enCur, enLast, enRec, enDec, enSeen>>
  BY DEF EnPrepare
<1>3. enCtx \in EnContexts /\ enCount \in [frames : 0..EnMaxFrames, changes : 0..EnMaxChanges]
      /\ enState \in [step : 0..3, gop_index : 0..enCount.frames, frame_num : EnNums, qp_init : EnQp]
  BY DEF EnInv, EnShape, EnTypeOK, EnNums
<1>4. /\ type \in {"IDR", "I", "P"}
      /\ type # "IDR" => enState.gop_index # 0
  BY DEF EnFrameType
<1>5. step \in 0..3 /\ (step > EN_SPS => step = enState.step)
  <2>1. enState.step \in 0..3
    BY DEF EnInv, EnTypeOK
  <2>2. QED BY <2>1
<1>6. num \in EnNums /\ EnNextNum(num) \in EnNums /\ (type = "IDR" => num = 0)
  BY <1>3, EnNumbers
<1>7. qp \in EnQp /\ init \in EnQp /\ (step = 3 => init = enState.qp_init)
  <2>1. /\ enCtx.qp_p \in EnQp /\ enCtx.qp_i \in EnQp
        /\ enCtx.qp_min \in EnQp /\ enCtx.qp_max \in EnQp
    BY <1>3 DEF EnContexts
  <2>2. enState.qp_init \in EnQp
    BY DEF EnInv, EnTypeOK
  <2> HIDE DEF type, step
  <2>3. qp \in EnQp
    BY <2>1 DEF EnClamp
  <2> HIDE DEF qp
  <2>4. QED BY <2>2, <2>3
<1>8. gop \in 0..(enCount.frames + 1)
  <2>1. enCtx.gop \in Nat \ {0}
    <3>1. enCtx.gop \in EnLength
      BY <1>3 DEF EnContexts
    <3>2. QED BY <3>1, EnLengths
  <2>2. enState.gop_index \in 0..enCount.frames /\ enCount.frames \in Nat
    <3>1. enState.gop_index \in 0..enCount.frames
      BY DEF EnInv, EnTypeOK
    <3>2. enCount.frames \in 0..EnMaxFrames
      BY DEF EnInv, EnTypeOK
    <3>3. QED BY <3>1, <3>2
  <2>3. ASSUME NEW n \in Nat, NEW g \in Nat \ {0} PROVE n % g \in 0..n
    BY <2>3
  <2>4. QED BY <2>1, <2>2, <2>3
<1>9. /\ enOdd' \subseteq enOdd
      /\ enOdd \ enOdd' \subseteq {"raced_sps", "raced_pps", "offset"}
      /\ step > EN_SPS => ("raced_sps" \in enOdd' <=> "raced_sps" \in enOdd)
      /\ step > EN_PPS => ("raced_pps" \in enOdd' <=> "raced_pps" \in enOdd)
      /\ step > EN_PPS => ("offset" \in enOdd' <=> "offset" \in enOdd)
  BY <1>1, <1>5 DEF EnRaced
<1> HIDE DEF type, num, step, qp, next, gop, init
<1>10. /\ enCtx' \in EnContexts /\ enCtx'.profile = enCtx.profile
       /\ enCtx'.cabac = enCtx.cabac /\ enCtx'.offset = enCtx.offset
  BY <1>2, <1>3, EnValues DEF EnContexts
<1>11. /\ enCount' \in [frames : 0..EnMaxFrames, changes : 0..EnMaxChanges]
       /\ enCount'.frames = enCount.frames + 1 /\ enCount.frames \in Nat
  BY <1>2, <1>3, EnAssumption DEF EnAssumption
<1>12. enJob' \in EnPrepared
  BY <1>1, <1>3, <1>4, <1>6, <1>7, <1>11 DEF EnPrepared, EnContexts
<1>13. EnTypeOK'
  <2>1. enState' \in [step : 0..3, gop_index : 0..enCount'.frames, frame_num : EnNums, qp_init : EnQp]
    BY <1>1, <1>5, <1>6, <1>7, <1>8, <1>11
  <2>2. enRec' \in [EnBuf -> 0..enCount'.frames]
    BY <1>2, <1>11 DEF EnInv, EnTypeOK
  <2>3. QED BY <1>2, <1>9, <1>11, <1>12, <2>1, <2>2 DEF EnInv, EnTypeOK, EnNums, EnPrepared
<1>14. EnShape'
  BY <1>1, <1>2, <1>10, <1>11, <1>12 DEF EnInv, EnShape
<1>15. EnSets'
  <2>1. EnSetsIdle
    BY <1>2 DEF EnInv, EnSets, EnIdle
  <2>2. enState'.step = step /\ enState'.qp_init = init
    BY <1>1
  <2>3. /\ enJob'.phase = "prepared" /\ enJob'.profile = enCtx.profile
        /\ enJob'.cabac = enCtx.cabac /\ enJob'.offset = enCtx.offset
    BY <1>1
  <2>4. EnSetsPrepared'
    BY <1>2, <1>3, <1>5, <1>7, <1>9, <1>10, <2>1, <2>2, <2>3 DEF EnSetsIdle, EnSetsPrepared
  <2>5. QED BY <2>3, <2>4 DEF EnSets
<1>16. EnRefs'
  <2>1. EnRefsIdle
    BY <1>2 DEF EnInv, EnRefs, EnIdle
  <2>2. /\ enJob'.phase = "prepared" /\ enJob'.num = num /\ enJob'.type = type
        /\ enState'.frame_num = EnNextNum(num)
    BY <1>1
  <2>3. type # "IDR" => num = enState.frame_num
    BY DEF num
  <2>4. "lost" \in enOdd' <=> "lost" \in enOdd
    BY <1>9
  <2>5. "freed" \in enOdd' <=> "freed" \in enOdd
    BY <1>9
  <2>6. UNCHANGED <<enLast, enRec, enDec>>
    BY <1>2
  <2>7. /\ type # "IDR" /\ "lost" \notin enOdd => num = EnNextNum(enDec.num)
        /\ type = "P" => /\ enLast \in EnBuf
                         /\ "lost" \notin enOdd /\ "freed" \notin enOdd => enRec[enLast] = enDec.ref
    BY <1>4, <2>1, <2>3 DEF EnRefsIdle
  <2>8. EnRefsPrepared'
    BY <1>6, <2>2, <2>4, <2>5, <2>6, <2>7 DEF EnRefsPrepared, EnNextNum
  <2>9. QED BY <2>2, <2>8 DEF EnRefs
<1>17. EnParametersAgree' /\ EnReferenceMeant'
  BY <1>2 DEF EnInv, EnParametersAgree, EnReferenceMeant
<1>18. QED BY <1>13, <1>14, <1>15, <1>16, <1>17 DEF EnInv

\* cedrus_enc_h264_configure and _headers: the headers that are due, the slice and the
\* reference, from the values of the job and those of the context of now.
LEMMA EnConfigureKeeps == ASSUME EnInv, EnConfigure PROVE EnInv'
<1> DEFINE headers == EnHeaders(enState.step)
           ref     == IF enJob.type = "P" THEN enLast ELSE enJob.buf
           holds   == IF EnOverwrites THEN 0
                      ELSE IF enJob.type = "P" THEN enRec[enLast] ELSE enJob.f
<1>1. /\ enJob' = [phase |-> "encoding", f |-> enJob.f, buf |-> enJob.buf, type |-> enJob.type,
                   num |-> enJob.num, profile |-> enJob.profile, cabac |-> enJob.cabac,
                   offset |-> enJob.offset, qp |-> enJob.qp, headers |-> headers,
                   init |-> enState.qp_init, delta |-> enJob.qp - enState.qp_init,
                   ref |-> ref, holds |-> holds]
      /\ enState' = [enState EXCEPT !.step = EN_SLICE] /\ enLast' = enJob.buf
      /\ enOdd' = enOdd \cup (IF EnOverwrites THEN {"reused"} ELSE {})
      /\ UNCHANGED <<enUp, enCur, enCtx, enRec, enDec, enSeen, enCount>>
      /\ enJob.phase = "prepared"
  BY DEF EnConfigure
<1>2. enJob \in EnPrepared /\ enUp /\ enJob.f <= enCount.frames /\ enJob.f \in Nat
  BY <1>1, EnPhases DEF EnInv, EnShape, EnPrepared, EnIdle
<1>3. /\ EnSetsPrepared /\ EnRefsPrepared
      /\ enState \in [step : 0..3, gop_index : 0..enCount.frames, frame_num : EnNums, qp_init : EnQp]
  BY <1>1 DEF EnInv, EnSets, EnRefs, EnTypeOK, EnNums
<1>4. /\ headers \in SUBSET {"sps", "pps"}
      /\ enState.step > EN_SPS => "sps" \notin headers
      /\ enState.step > EN_PPS => "pps" \notin headers
      /\ enState.step <= EN_SPS => "sps" \in headers
      /\ enState.step <= EN_PPS => "pps" \in headers
  <2>1. enState.step \in 0..3
    BY <1>3
  <2>2. QED BY <2>1 DEF EnHeaders
<1>5. ref \in EnBuf /\ holds \in Nat
  <2>1. enJob.type = "P" => enLast \in EnBuf
    BY <1>3 DEF EnRefsPrepared
  <2>2. enRec \in [EnBuf -> 0..enCount.frames]
    BY DEF EnInv, EnTypeOK
  <2>3. \A b \in EnBuf : enRec[b] \in Nat
    BY <2>2
  <2>4. enJob.buf \in EnBuf
    BY <1>2 DEF EnPrepared
  <2>5. QED BY <1>2, <2>1, <2>3, <2>4
<1>6. enState.qp_init \in EnQp /\ enJob.qp \in EnQp /\ enJob.qp - enState.qp_init \in Int
  <2>1. enState.qp_init \in EnQp
    BY DEF EnInv, EnTypeOK
  <2>2. enJob.qp \in EnQp
    BY <1>2 DEF EnPrepared
  <2>3. enState.qp_init \in Int /\ enJob.qp \in Int
    BY <2>1, <2>2, EnValues
  <2>4. QED BY <2>1, <2>2, <2>3
<1> HIDE DEF headers, ref, holds
<1>7. enJob' \in EnEncoding
  BY <1>1, <1>2, <1>4, <1>5, <1>6 DEF EnPrepared, EnEncoding
<1>8. /\ enState' \in [step : 0..3, gop_index : 0..enCount.frames, frame_num : EnNums, qp_init : EnQp]
      /\ enState'.step = 3 /\ enState'.frame_num = enState.frame_num
      /\ enState'.qp_init = enState.qp_init
  BY <1>1, <1>3
<1>9. EnTypeOK'
  BY <1>1, <1>2, <1>8 DEF EnInv, EnTypeOK, EnNums, EnPrepared
<1>10. EnShape'
  BY <1>1, <1>2, <1>7 DEF EnInv, EnShape
<1>11. /\ enJob'.phase = "encoding" /\ enJob'.profile = enJob.profile /\ enJob'.cabac = enJob.cabac
       /\ enJob'.offset = enJob.offset /\ enJob'.init = enState.qp_init /\ enJob'.headers = headers
       /\ enJob'.delta = enJob'.qp - enJob'.init /\ enJob'.num = enJob.num /\ enJob'.type = enJob.type
       /\ enJob'.buf = enJob.buf /\ enJob'.f = enJob.f /\ enJob'.holds = holds
  BY <1>1
<1>12. EnSets'
  <2>1. enDec \in [profile : EnFlag \cup {2}, cabac : EnFlag \cup {2}, offset : EnOffset, init : EnQp,
                   num : EnNums, ref : Nat]
    BY DEF EnInv, EnShape
  <2>2. EnDecoded(enDec', enJob')
          = [profile |-> IF "sps" \in headers THEN enJob.profile ELSE enDec.profile,
             cabac   |-> IF "pps" \in headers THEN enJob.cabac ELSE enDec.cabac,
             offset  |-> IF "pps" \in headers THEN enJob.offset ELSE enDec.offset,
             init    |-> IF "pps" \in headers THEN enState.qp_init ELSE enDec.init,
             num     |-> enDec.num, ref |-> enDec.ref]
    BY <1>1, <1>11, <2>1 DEF EnDecoded
  <2>3. enState.step \in 0..3
    BY <1>3
  <2>4. UNCHANGED enCtx /\ \A mark : mark # "reused" => (mark \in enOdd' <=> mark \in enOdd)
    BY <1>1
  <2>5. EnSetsEncoding'
    BY <1>3, <1>4, <1>8, <1>11, <2>2, <2>3, <2>4 DEF EnSetsPrepared, EnSetsEncoding
  <2>6. QED BY <1>11, <2>5 DEF EnSets
<1>13. EnRefs'
  <2>1. /\ enJob.type # "P" => holds = enJob.f
        /\ enJob.type = "P" /\ "reused" \notin enOdd' => holds = enRec[enLast]
    BY <1>1 DEF holds, EnOverwrites
  <2>2. enOdd \subseteq enOdd'
    BY <1>1
  <2>3. EnRefsEncoding'
    BY <1>1, <1>3, <1>8, <1>11, <2>1, <2>2 DEF EnRefsPrepared, EnRefsEncoding, EnNextNum
  <2>4. QED BY <1>11, <2>3 DEF EnRefs
<1>14. EnParametersAgree' /\ EnReferenceMeant'
  BY <1>1 DEF EnInv, EnParametersAgree, EnReferenceMeant
<1>15. QED BY <1>9, <1>10, <1>12, <1>13, <1>14 DEF EnInv
\* The hardware is done: what a decoder has then.
LEMMA EnAfterJob ==
  ASSUME EnInv, enJob.phase = "encoding"
  PROVE  /\ enJob \in EnEncoding /\ enUp /\ enJob.f <= enCount.frames /\ enJob.f \in Nat
         /\ EnSetsEncoding /\ EnRefsEncoding
         /\ EnDecoded(enDec, enJob)
              = [profile |-> IF "sps" \in enJob.headers THEN enJob.profile ELSE enDec.profile,
                 cabac   |-> IF "pps" \in enJob.headers THEN enJob.cabac ELSE enDec.cabac,
                 offset  |-> IF "pps" \in enJob.headers THEN enJob.offset ELSE enDec.offset,
                 init    |-> IF "pps" \in enJob.headers THEN enJob.init ELSE enDec.init,
                 num     |-> enDec.num, ref |-> enDec.ref]
<1>1. enJob \in EnEncoding /\ enUp /\ enJob.f <= enCount.frames /\ enJob.f \in Nat
  BY EnPhases DEF EnInv, EnShape, EnEncoding, EnIdle
<1>2. enDec \in [profile : EnFlag \cup {2}, cabac : EnFlag \cup {2}, offset : EnOffset, init : EnQp,
                 num : EnNums, ref : Nat]
  BY DEF EnInv, EnShape
<1>3. QED BY <1>1, <1>2 DEF EnInv, EnSets, EnRefs, EnDecoded

\* The frame reaches the decoder, with the headers written before it.
LEMMA EnDeliveredKeeps == ASSUME EnInv, EnDelivered PROVE EnInv'
<1> DEFINE dec == EnDecoded(enDec, enJob)
           odd == enOdd \ (enJob.headers
                           \cup (IF enJob.type = "P" THEN {} ELSE {"freed", "reused"})
                           \cup (IF enJob.type = "IDR" THEN {"lost"} ELSE {}))
<1>1. /\ enJob.phase = "encoding"
      /\ enSeen' = [hw  |-> [type |-> enJob.type, profile |-> enJob.profile, cabac |-> enJob.cabac,
                        offset |-> enJob.offset, qp |-> enJob.qp, holds |-> enJob.holds,
                        num |-> enJob.num],
               dec |-> [profile |-> dec.profile, cabac |-> dec.cabac, offset |-> dec.offset,
                        qp |-> dec.init + enJob.delta,
                        holds |-> IF enJob.type = "P" THEN dec.ref ELSE enJob.f,
                        num |-> IF enJob.type = "IDR" THEN 0 ELSE (dec.num + 1) % Pow2(EnNumLog)],
               odd |-> odd]
      /\ enDec' = [dec EXCEPT !.num = enJob.num, !.ref = enJob.f]
      /\ enOdd' = odd
      /\ enRec' = [enRec EXCEPT ![enJob.buf] = enJob.f]
      /\ enJob' = EnIdle
      /\ UNCHANGED <<enUp, enCur, enCtx, enState, enLast, enCount>>
  BY DEF EnDelivered
<1>2. /\ enJob \in EnEncoding /\ enUp /\ enJob.f <= enCount.frames /\ enJob.f \in Nat
      /\ EnSetsEncoding /\ EnRefsEncoding
      /\ dec = [profile |-> IF "sps" \in enJob.headers THEN enJob.profile ELSE enDec.profile,
                cabac   |-> IF "pps" \in enJob.headers THEN enJob.cabac ELSE enDec.cabac,
                offset  |-> IF "pps" \in enJob.headers THEN enJob.offset ELSE enDec.offset,
                init    |-> IF "pps" \in enJob.headers THEN enJob.init ELSE enDec.init,
                num     |-> enDec.num, ref |-> enDec.ref]
  BY <1>1, EnAfterJob
<1>3. /\ enDec \in [profile : EnFlag \cup {2}, cabac : EnFlag \cup {2}, offset : EnOffset, init : EnQp,
                    num : EnNums, ref : Nat]
      /\ enRec \in [EnBuf -> 0..enCount.frames] /\ enJob.buf \in EnBuf
  BY <1>2 DEF EnInv, EnShape, EnTypeOK, EnEncoding
<1>4. enDec' = [profile |-> dec.profile, cabac |-> dec.cabac, offset |-> dec.offset,
                init |-> dec.init, num |-> enJob.num, ref |-> enJob.f]
  BY <1>1, <1>2
<1>5. /\ odd \subseteq enOdd /\ odd \cap enJob.headers = {}
      /\ enOdd \ odd \subseteq enJob.headers \cup {"freed", "reused", "lost"}
      /\ \A mark \in enOdd \ enJob.headers : mark \notin {"freed", "reused", "lost"} => mark \in odd
      /\ enJob.type = "P" /\ "freed" \in enOdd => "freed" \in odd \cup enJob.headers
      /\ enJob.type = "P" /\ "reused" \in enOdd => "reused" \in odd \cup enJob.headers
      /\ enJob.type # "IDR" /\ "lost" \in enOdd => "lost" \in odd \cup enJob.headers
      /\ enJob.headers \subseteq {"sps", "pps"}
  BY <1>2 DEF EnEncoding
<1>6. /\ dec.init + enJob.delta = enJob.qp \/ dec.init # enJob.init
  <2>1. enJob.qp \in Int /\ enJob.init \in Int
    BY <1>2, EnValues DEF EnEncoding
  <2>2. enJob.delta = enJob.qp - enJob.init
    BY <1>2 DEF EnSetsEncoding
  <2> HIDE DEF dec
  <2>3. QED BY <2>1, <2>2
<1>7. dec.num = enDec.num /\ dec.ref = enDec.ref
  BY <1>2
<1>8. dec \in [profile : EnFlag \cup {2}, cabac : EnFlag \cup {2}, offset : EnOffset, init : EnQp,
               num : EnNums, ref : Nat]
  BY <1>2, <1>3 DEF EnEncoding
<1> HIDE DEF dec, odd
<1>9. EnTypeOK'
  <2>1. enRec' \in [EnBuf -> 0..enCount.frames]
    BY <1>1, <1>2, <1>3
  <2>2. enOdd' \subseteq {"lost", "sps", "pps", "freed", "reused", "raced_sps", "raced_pps", "offset"}
    BY <1>1, <1>5 DEF EnInv, EnTypeOK
  <2>3. QED BY <1>1, <2>1, <2>2 DEF EnInv, EnTypeOK, EnIdle
<1>10. EnShape'
  <2>1. enDec' \in [profile : EnFlag \cup {2}, cabac : EnFlag \cup {2}, offset : EnOffset, init : EnQp,
                    num : EnNums, ref : Nat]
    BY <1>2, <1>4, <1>8 DEF EnEncoding
  <2>2. QED BY <1>1, <2>1 DEF EnInv, EnShape
<1>11. EnSets'
  <2>1. UNCHANGED <<enState, enCtx>> /\ enJob'.phase = "idle" /\ enOdd' = odd
    BY <1>1 DEF EnIdle
  <2>2. /\ enDec'.profile = dec.profile /\ enDec'.cabac = dec.cabac
        /\ enDec'.offset = dec.offset /\ enDec'.init = dec.init
    BY <1>4
  <2>3. EnSetsIdle'
    BY <1>2, <1>5, <2>1, <2>2 DEF EnSetsEncoding, EnSetsIdle, dec
  <2>4. QED BY <2>1, <2>3 DEF EnSets
<1>12. EnRefs'
  <2>1. UNCHANGED <<enState, enLast>> /\ enJob'.phase = "idle" /\ enOdd' = odd
    BY <1>1 DEF EnIdle
  <2>2. enDec'.num = enJob.num /\ enDec'.ref = enJob.f
    BY <1>4
  <2>3. enLast = enJob.buf /\ enState.frame_num = EnNextNum(enJob.num)
    BY <1>2 DEF EnRefsEncoding
  <2>4. enRec'[enLast] = enJob.f
    BY <1>1, <1>3, <2>3
  <2>5. EnRefsIdle'
    BY <1>3, <2>1, <2>2, <2>3, <2>4 DEF EnRefsIdle, EnNextNum
  <2>6. QED BY <2>1, <2>5 DEF EnRefs
<1>13. /\ enSeen'.odd = odd
       /\ enSeen'.hw.profile = enJob.profile /\ enSeen'.hw.cabac = enJob.cabac
       /\ enSeen'.hw.offset = enJob.offset /\ enSeen'.hw.qp = enJob.qp
       /\ enSeen'.hw.holds = enJob.holds /\ enSeen'.hw.num = enJob.num
       /\ enSeen'.dec.profile = dec.profile /\ enSeen'.dec.cabac = dec.cabac
       /\ enSeen'.dec.offset = dec.offset /\ enSeen'.dec.qp = dec.init + enJob.delta
       /\ enSeen'.dec.holds = (IF enJob.type = "P" THEN enDec.ref ELSE enJob.f)
       /\ enSeen'.dec.num = (IF enJob.type = "IDR" THEN 0 ELSE EnNextNum(enDec.num))
  BY <1>1, <1>7 DEF EnNextNum
<1>14. EnParametersAgree'
  <2>1. SUFFICES ASSUME odd \cap {"sps", "pps", "raced_sps", "raced_pps", "offset"} = {}
                 PROVE  /\ enJob.profile = dec.profile /\ enJob.cabac = dec.cabac
                        /\ enJob.offset = dec.offset /\ enJob.qp = dec.init + enJob.delta
    BY <1>13 DEF EnParametersAgree
  <2>2. /\ "sps" \notin enOdd \ enJob.headers /\ "pps" \notin enOdd \ enJob.headers
        /\ "raced_sps" \notin enOdd /\ "raced_pps" \notin enOdd /\ "offset" \notin enOdd
    BY <1>5, <2>1
  <2>3. /\ dec.profile = enJob.profile /\ dec.cabac = enJob.cabac
        /\ dec.offset = enJob.offset /\ dec.init = enJob.init
    BY <1>2, <2>2 DEF EnSetsEncoding, dec
  <2>4. QED BY <1>6, <2>3
<1>15. EnReferenceMeant'
  <2>1. SUFFICES ASSUME "lost" \notin odd
                 PROVE  /\ enJob.num = (IF enJob.type = "IDR" THEN 0 ELSE EnNextNum(enDec.num))
                        /\ odd \cap {"freed", "reused"} = {} =>
                             enJob.holds = (IF enJob.type = "P" THEN enDec.ref ELSE enJob.f)
    BY <1>13 DEF EnReferenceMeant
  <2>2. enJob.type # "IDR" => "lost" \notin enOdd
    BY <1>5, <2>1
  <2>3. odd \cap {"freed", "reused"} = {} /\ enJob.type = "P" => enOdd \cap {"freed", "reused"} = {}
    BY <1>5
  <2>4. enJob.type = "P" => enJob.type # "IDR"
    OBVIOUS
  <2>5. QED BY <1>2, <2>2, <2>3, <2>4 DEF EnRefsEncoding
<1>16. QED BY <1>9, <1>10, <1>11, <1>12, <1>14, <1>15 DEF EnInv

\* The job failed or timed out: the decoder gets neither frame nor headers.
LEMMA EnLostKeeps == ASSUME EnInv, EnLost PROVE EnInv'
<1>1. PICK encoded \in BOOLEAN :
        enRec' = [enRec EXCEPT ![enJob.buf] = IF encoded THEN enJob.f ELSE 0]
  BY DEF EnLost
<1>2. /\ enJob.phase = "encoding"
      /\ enOdd' = enOdd \cup {"lost"} \cup enJob.headers
      /\ enSeen' = EnNothing /\ enJob' = EnIdle
      /\ UNCHANGED <<enUp, enCur, enCtx, enState, enLast, enDec, enCount>>
  BY DEF EnLost
<1>3. /\ enJob \in EnEncoding /\ enJob.f <= enCount.frames /\ enJob.f \in Nat
      /\ EnSetsEncoding
      /\ EnDecoded(enDec, enJob)
           = [profile |-> IF "sps" \in enJob.headers THEN enJob.profile ELSE enDec.profile,
              cabac   |-> IF "pps" \in enJob.headers THEN enJob.cabac ELSE enDec.cabac,
              offset  |-> IF "pps" \in enJob.headers THEN enJob.offset ELSE enDec.offset,
              init    |-> IF "pps" \in enJob.headers THEN enJob.init ELSE enDec.init,
              num     |-> enDec.num, ref |-> enDec.ref]
  BY <1>2, EnAfterJob
<1>4. /\ enRec \in [EnBuf -> 0..enCount.frames] /\ enJob.buf \in EnBuf
      /\ enJob.headers \subseteq {"sps", "pps"}
  BY <1>3 DEF EnInv, EnTypeOK, EnEncoding
<1>5. enRec' \in [EnBuf -> 0..enCount.frames]
  <2>1. (IF encoded THEN enJob.f ELSE 0) \in 0..enCount.frames
    <3>1. enCount.frames \in Int
      BY DEF EnInv, EnTypeOK
    <3>2. QED BY <1>3, <3>1
  <2>2. QED BY <1>1, <1>4, <2>1
<1>6. EnTypeOK'
  BY <1>2, <1>4, <1>5 DEF EnInv, EnTypeOK, EnIdle
<1>7. EnShape'
  BY <1>2 DEF EnInv, EnShape
<1>8. EnSets'
  <2>1. enJob'.phase = "idle" /\ UNCHANGED <<enState, enCtx, enDec>>
    BY <1>2 DEF EnIdle
  <2>2. EnSetsIdle'
    BY <1>2, <1>3, <2>1 DEF EnSetsEncoding, EnSetsIdle
  <2>3. QED BY <2>1, <2>2 DEF EnSets
<1>9. EnRefs'
  <2>1. UNCHANGED <<enState, enLast>> /\ enJob'.phase = "idle" /\ "lost" \in enOdd'
    BY <1>2 DEF EnIdle
  <2>2. enState.gop_index # 0 => enLast \in EnBuf
    BY <1>2, <1>4 DEF EnInv, EnRefs, EnRefsEncoding
  <2>3. QED BY <2>1, <2>2 DEF EnRefs, EnRefsIdle
<1>10. EnParametersAgree' /\ EnReferenceMeant'
  BY <1>2 DEF EnParametersAgree, EnReferenceMeant
<1>11. QED BY <1>6, <1>7, <1>8, <1>9, <1>10 DEF EnInv

\* Every step of the encoder keeps the invariant.
LEMMA EnNextInv == ASSUME EnInv, [EnNext]_enVars PROVE EnInv'
<1>1. CASE EnNext
  BY <1>1, EnSetupKeeps, EnCleanupKeeps, EnSetControlKeeps, EnBuffersFreedKeeps, EnPrepareKeeps,
     EnConfigureKeeps, EnDeliveredKeeps, EnLostKeeps DEF EnNext
<1>2. CASE UNCHANGED enVars
  BY <1>2 DEF enVars, EnInv, EnTypeOK, EnShape, EnSets, EnSetsIdle, EnSetsPrepared, EnSetsEncoding,
     EnRefs, EnRefsIdle, EnRefsPrepared, EnRefsEncoding, EnParametersAgree, EnReferenceMeant,
     EnDecoded
<1>3. QED BY <1>1, <1>2

\* The inductive invariant of the H.264 encoder, for any controls, changes of controls
\* and number of frames: between jobs, while one is prepared and while one is encoded,
\* the parameter sets of a decoder, of the job and of the context differ only if a set
\* is due, lost or raced, frame numbers after a lost frame, and references after one
\* or once a buffer was freed or sent again for the frame predicted from it.
THEOREM EncoderInductive == EnSpec => []EnInv
<1>1. EnInit => EnInv
  BY EnInitInv
<1>2. EnInv /\ [EnNext]_enVars => EnInv'
  BY EnNextInv
<1>3. QED BY <1>1, <1>2, PTL DEF EnSpec
-----------------------------------------------------------------------------
(* Setup functions, for any path whose labels mirror its steps. *)

\* One path of SetupAllOrNothing.
PathUnwinds(path) ==
  /\ \A n \in 1..Len(path.steps) :
       path.steps[n].label # NEVER => Released(path, n) = Held(path, n - 1)
  /\ path.cleanup = Held(path, Len(path.steps))

\* The labels of a path mirror its steps: at[n] is where the failure of step n
\* goes, the first step releases nothing, and each further one starts at the
\* label right above that of the step before, whose acquisition is released there.
Mirrored(path, at) ==
  /\ \A n \in 1..Len(path.steps) : path.steps[n].label # NEVER =>
       /\ at[n] <= Len(path.undo) => path.undo[at[n]].label = path.steps[n].label
       /\ \A l \in 1..Len(path.undo) : path.undo[l].label = path.steps[n].label => at[n] <= l
  /\ \A k \in 1..Len(path.undo) : at[1] <= k => path.undo[k].what = {}
  /\ \A n \in 1..(Len(path.steps) - 1) : path.steps[n + 1].label # NEVER =>
       /\ path.steps[n].label # NEVER
       /\ path.steps[n].what = CHECK => at[n + 1] = at[n]
       /\ path.steps[n].what # CHECK => /\ at[n] = at[n + 1] + 1
                                     /\ path.undo[at[n + 1]].what = {path.steps[n].what}

\* A path whose labels mirror its steps unwinds, whatever its length.
LEMMA MirroredUnwinds ==
  ASSUME NEW path, NEW at, NEW N \in Nat, NEW M \in Nat,
         Len(path.steps) = N, Len(path.undo) = M, at \in [1..N -> 1..(M + 1)],
         Mirrored(path, at), path.cleanup = Held(path, N)
  PROVE  PathUnwinds(path)
<1> DEFINE From(p) == UNION {path.undo[k].what : k \in {k \in 1..M : p <= k}}
           S == {n \in Nat : n + 1 \in 1..N /\ path.steps[n + 1].label # NEVER
                               => From(at[n + 1]) = Held(path, n)}
<1>2. 0 \in S
  <2>1. SUFFICES ASSUME 1 \in 1..N PROVE From(at[1]) = Held(path, 0)
    OBVIOUS
  <2>2. \A k \in 1..M : at[1] <= k => path.undo[k].what = {}
    BY DEF Mirrored
  <2>3. From(at[1]) = {}
    BY <2>2
  <2>4. Held(path, 0) = {}
    BY DEF Held
  <2>5. QED BY <2>3, <2>4
<1>3. ASSUME NEW n \in Nat, n \in S PROVE n + 1 \in S
  <2> DEFINE m == n + 1
  <2>1. SUFFICES ASSUME m + 1 \in 1..N, path.steps[m + 1].label # NEVER
                 PROVE  From(at[m + 1]) = Held(path, m)
    OBVIOUS
  <2>2. m \in 1..N /\ m \in 1..(N - 1)
    BY <2>1
  <2>3. /\ path.steps[m].label # NEVER
        /\ path.steps[m].what = CHECK => at[m + 1] = at[m]
        /\ path.steps[m].what # CHECK => /\ at[m] = at[m + 1] + 1
                                      /\ path.undo[at[m + 1]].what = {path.steps[m].what}
    BY <2>1, <2>2 DEF Mirrored
  <2>4. From(at[m]) = Held(path, n)
    BY <1>3, <2>2, <2>3
  <2>5. Held(path, m) = Held(path, n) \cup ({path.steps[m].what} \ {CHECK})
    <3>1. 1..m = (1..n) \cup {m}
      OBVIOUS
    <3>2. QED BY <3>1 DEF Held
  <2>6. at[m] \in 1..(M + 1) /\ at[m + 1] \in 1..(M + 1)
    BY <2>1, <2>2
  <2> HIDE DEF m
  <2>7. CASE path.steps[m].what = CHECK
    BY <2>3, <2>4, <2>5, <2>7
  <2>8. CASE path.steps[m].what # CHECK
    <3> DEFINE p == at[m + 1]
    <3>1. at[m] = p + 1 /\ path.undo[p].what = {path.steps[m].what}
      BY <2>3, <2>8
    <3>2. p \in 1..M
      <4>1. p + 1 \in 1..(M + 1) /\ p \in 1..(M + 1)
        BY <2>6, <3>1
      <4> HIDE DEF p
      <4>2. QED BY <4>1
    <3> HIDE DEF p
    <3>3. {k \in 1..M : p <= k} = {p} \cup {k \in 1..M : p + 1 <= k}
      BY <3>2
    <3>4. From(p) = path.undo[p].what \cup From(p + 1)
      BY <3>3
    <3> HIDE DEF From
    <3>5. Held(path, m) = Held(path, n) \cup {path.steps[m].what}
      BY <2>5, <2>8
    <3>6. From(p + 1) = Held(path, n)
      BY <2>4, <3>1
    <3>7. From(p) = Held(path, m)
      BY <3>1, <3>4, <3>5, <3>6
    <3>8. QED BY <3>7 DEF p
  <2>9. QED BY <2>7, <2>8
<1> HIDE DEF S
<1>4. Nat \subseteq S
  BY <1>2, <1>3, Induction
<1> SUFFICES ASSUME NEW n \in 1..N, path.steps[n].label # NEVER
             PROVE  Released(path, n) = Held(path, n - 1)
  BY DEF PathUnwinds
<1>5. From(at[n]) = Held(path, n - 1)
  <2>1. n - 1 \in Nat /\ (n - 1) + 1 = n
    OBVIOUS
  <2>2. n - 1 \in S
    BY <2>1, <1>4
  <2> HIDE DEF From
  <2>3. QED BY <2>1, <2>2 DEF S
<1>6. Released(path, n) = From(at[n])
  <2> DEFINE reached(k) == \E l \in 1..k : path.undo[l].label = path.steps[n].label
  <2>1. at[n] \in 1..(M + 1)
    OBVIOUS
  <2>2. /\ at[n] <= M => path.undo[at[n]].label = path.steps[n].label
        /\ \A l \in 1..M : path.undo[l].label = path.steps[n].label => at[n] <= l
    BY DEF Mirrored
  <2>3. \A k \in 1..M : reached(k) <=> at[n] <= k
    <3>1. ASSUME NEW k \in 1..M, at[n] <= k PROVE reached(k)
      BY <2>1, <2>2, <3>1
    <3>2. ASSUME NEW k \in 1..M, NEW l \in 1..k, path.undo[l].label = path.steps[n].label
          PROVE  at[n] <= k
      <4>1. l \in 1..M /\ l <= k
        OBVIOUS
      <4>2. at[n] <= l
        BY <2>2, <3>2, <4>1
      <4>3. QED BY <2>1, <4>1, <4>2
    <3>3. QED BY <3>1, <3>2
  <2>4. {k \in 1..M : reached(k)} = {k \in 1..M : at[n] <= k}
    BY <2>3
  <2>5. QED BY <2>4 DEF Released
<1>7. QED BY <1>5, <1>6

\* cedrus_probe.
LEMMA ProbeUnwinds == PathUnwinds(cedrus_probe)
<1> DEFINE path == cedrus_probe
           at == <<4, 3, 2, 1>>
<1>1. Len(path.steps) = 4 /\ Len(path.undo) = 3
  BY DEF cedrus_probe
<1>2. Mirrored(path, at)
  BY <1>1 DEF Mirrored, cedrus_probe, Step, At, RETURN, NEVER, CHECK
<1>3. path.cleanup = Held(path, 4)
  BY DEF Held, cedrus_probe, Step, CHECK
<1>4. at \in [1..4 -> 1..(3 + 1)]
  OBVIOUS
<1> HIDE DEF path, at
<1>5. PathUnwinds(path)
  BY <1>1, <1>2, <1>3, <1>4, MirroredUnwinds
<1>6. QED BY <1>5 DEF path

\* cedrus_resources_setup.
LEMMA ResourcesUnwinds == PathUnwinds(cedrus_resources_setup)
<1> DEFINE path == cedrus_resources_setup
           at == <<2, 2, 2, 1, 1>>
<1>1. Len(path.steps) = 5 /\ Len(path.undo) = 1
  BY DEF cedrus_resources_setup
<1>2. Mirrored(path, at)
  BY <1>1 DEF Mirrored, cedrus_resources_setup, Step, At, RETURN, NEVER, CHECK
<1>3. path.cleanup = Held(path, 5)
  BY DEF Held, cedrus_resources_setup, Step, CHECK
<1>4. at \in [1..5 -> 1..(1 + 1)]
  OBVIOUS
<1> HIDE DEF path, at
<1>5. PathUnwinds(path)
  BY <1>1, <1>2, <1>3, <1>4, MirroredUnwinds
<1>6. QED BY <1>5 DEF path

\* cedrus_v4l2_setup.
LEMMA V4l2Unwinds == PathUnwinds(cedrus_v4l2_setup)
<1> DEFINE path == cedrus_v4l2_setup
           at == <<3, 2, 1>>
<1>1. Len(path.steps) = 3 /\ Len(path.undo) = 2
  BY DEF cedrus_v4l2_setup
<1>2. Mirrored(path, at)
  BY <1>1 DEF Mirrored, cedrus_v4l2_setup, Step, At, RETURN, NEVER, CHECK
<1>3. path.cleanup = Held(path, 3)
  BY DEF Held, cedrus_v4l2_setup, Step, CHECK
<1>4. at \in [1..3 -> 1..(2 + 1)]
  OBVIOUS
<1> HIDE DEF path, at
<1>5. PathUnwinds(path)
  BY <1>1, <1>2, <1>3, <1>4, MirroredUnwinds
<1>6. QED BY <1>5 DEF path

\* cedrus_resume.
LEMMA ResumeUnwinds == PathUnwinds(cedrus_resume)
<1> DEFINE path == cedrus_resume
           at == <<4, 3, 2, 1>>
<1>1. Len(path.steps) = 4 /\ Len(path.undo) = 3
  BY DEF cedrus_resume
<1>2. Mirrored(path, at)
  BY <1>1 DEF Mirrored, cedrus_resume, Step, At, RETURN, NEVER, CHECK
<1>3. path.cleanup = Held(path, 4)
  BY DEF Held, cedrus_resume, Step, CHECK
<1>4. at \in [1..4 -> 1..(3 + 1)]
  OBVIOUS
<1> HIDE DEF path, at
<1>5. PathUnwinds(path)
  BY <1>1, <1>2, <1>3, <1>4, MirroredUnwinds
<1>6. QED BY <1>5 DEF path

\* cedrus_proc_v4l2_setup.
LEMMA NodeUnwinds == PathUnwinds(cedrus_proc_v4l2_setup)
<1> DEFINE path == cedrus_proc_v4l2_setup
           at == <<8, 7, 6, 5, 4, 3, 2, 1, 1>>
<1>1. Len(path.steps) = 9 /\ Len(path.undo) = 7
  BY DEF cedrus_proc_v4l2_setup
<1>2. Mirrored(path, at)
  BY <1>1 DEF Mirrored, cedrus_proc_v4l2_setup, Step, At, RETURN, NEVER, CHECK
<1>3. path.cleanup = Held(path, 9)
  BY DEF Held, cedrus_proc_v4l2_setup, Step, CHECK
<1>4. at \in [1..9 -> 1..(7 + 1)]
  OBVIOUS
<1> HIDE DEF path, at
<1>5. PathUnwinds(path)
  BY <1>1, <1>2, <1>3, <1>4, MirroredUnwinds
<1>6. QED BY <1>5 DEF path

\* cedrus_context_ctrls_setup.
LEMMA ControlsUnwinds == PathUnwinds(cedrus_context_ctrls_setup)
<1> DEFINE path == cedrus_context_ctrls_setup
           at == <<3, 3, 2, 1, 1>>
<1>1. Len(path.steps) = 5 /\ Len(path.undo) = 2
  BY DEF cedrus_context_ctrls_setup
<1>2. Mirrored(path, at)
  BY <1>1 DEF Mirrored, cedrus_context_ctrls_setup, Step, At, RETURN, NEVER, CHECK
<1>3. path.cleanup = Held(path, 5)
  BY DEF Held, cedrus_context_ctrls_setup, Step, CHECK
<1>4. at \in [1..5 -> 1..(2 + 1)]
  OBVIOUS
<1> HIDE DEF path, at
<1>5. PathUnwinds(path)
  BY <1>1, <1>2, <1>3, <1>4, MirroredUnwinds
<1>6. QED BY <1>5 DEF path

\* cedrus_context_setup.
LEMMA ContextUnwinds == PathUnwinds(cedrus_context_setup)
<1> DEFINE path == cedrus_context_setup
           at == <<3, 2, 1, 1>>
<1>1. Len(path.steps) = 4 /\ Len(path.undo) = 2
  BY DEF cedrus_context_setup
<1>2. Mirrored(path, at)
  BY <1>1 DEF Mirrored, cedrus_context_setup, Step, At, RETURN, NEVER, CHECK
<1>3. path.cleanup = Held(path, 4)
  BY DEF Held, cedrus_context_setup, Step, CHECK
<1>4. at \in [1..4 -> 1..(2 + 1)]
  OBVIOUS
<1> HIDE DEF path, at
<1>5. PathUnwinds(path)
  BY <1>1, <1>2, <1>3, <1>4, MirroredUnwinds
<1>6. QED BY <1>5 DEF path

\* cedrus_context_start_streaming.
LEMMA StreamingUnwinds == PathUnwinds(cedrus_context_start_streaming)
<1> DEFINE path == cedrus_context_start_streaming
           at == <<4, 3, 2, 1>>
<1>1. Len(path.steps) = 4 /\ Len(path.undo) = 4
  BY DEF cedrus_context_start_streaming
<1>2. Mirrored(path, at)
  BY <1>1 DEF Mirrored, cedrus_context_start_streaming, Step, At, RETURN, NEVER, CHECK
<1>3. path.cleanup = Held(path, 4)
  BY DEF Held, cedrus_context_start_streaming, Step, CHECK
<1>4. at \in [1..4 -> 1..(4 + 1)]
  OBVIOUS
<1> HIDE DEF path, at
<1>5. PathUnwinds(path)
  BY <1>1, <1>2, <1>3, <1>4, MirroredUnwinds
<1>6. QED BY <1>5 DEF path

\* cedrus_context_buffer_init.
LEMMA BufferUnwinds == PathUnwinds(cedrus_context_buffer_init)
<1> DEFINE path == cedrus_context_buffer_init
           at == <<2, 1>>
<1>1. Len(path.steps) = 2 /\ Len(path.undo) = 1
  BY DEF cedrus_context_buffer_init
<1>2. Mirrored(path, at)
  BY <1>1 DEF Mirrored, cedrus_context_buffer_init, Step, At, RETURN, NEVER, CHECK
<1>3. path.cleanup = Held(path, 2)
  BY DEF Held, cedrus_context_buffer_init, Step, CHECK
<1>4. at \in [1..2 -> 1..(1 + 1)]
  OBVIOUS
<1> HIDE DEF path, at
<1>5. PathUnwinds(path)
  BY <1>1, <1>2, <1>3, <1>4, MirroredUnwinds
<1>6. QED BY <1>5 DEF path

\* cedrus_dec_h264_setup, for a picture without the wide buffers.
LEMMA H264Unwinds == PathUnwinds(cedrus_dec_h264_setup(FALSE))
<1> DEFINE path == cedrus_dec_h264_setup(FALSE)
           at == <<4, 3>>
<1>1. Len(path.steps) = 2 /\ Len(path.undo) = 3
  BY DEF cedrus_dec_h264_setup
<1>2. Mirrored(path, at)
  BY <1>1 DEF Mirrored, cedrus_dec_h264_setup, Step, At, RETURN, NEVER, CHECK
<1>3. path.cleanup = Held(path, 2)
  BY DEF Held, cedrus_dec_h264_setup, Step, CHECK
<1>4. at \in [1..2 -> 1..(3 + 1)]
  OBVIOUS
<1> HIDE DEF path, at
<1>5. PathUnwinds(path)
  BY <1>1, <1>2, <1>3, <1>4, MirroredUnwinds
<1>6. QED BY <1>5 DEF path

\* cedrus_dec_h264_setup, for one with them.
LEMMA H264WideUnwinds == PathUnwinds(cedrus_dec_h264_setup(TRUE))
<1> DEFINE path == cedrus_dec_h264_setup(TRUE)
           at == <<4, 3, 2, 1>>
<1>1. Len(path.steps) = 4 /\ Len(path.undo) = 3
  BY DEF cedrus_dec_h264_setup
<1>2. Mirrored(path, at)
  BY <1>1 DEF Mirrored, cedrus_dec_h264_setup, Step, At, RETURN, NEVER, CHECK
<1>3. path.cleanup = Held(path, 4)
  BY DEF Held, cedrus_dec_h264_setup, Step, CHECK
<1>4. at \in [1..4 -> 1..(3 + 1)]
  OBVIOUS
<1> HIDE DEF path, at
<1>5. PathUnwinds(path)
  BY <1>1, <1>2, <1>3, <1>4, MirroredUnwinds
<1>6. QED BY <1>5 DEF path

\* cedrus_dec_h265_setup.
LEMMA H265Unwinds == PathUnwinds(cedrus_dec_h265_setup)
<1> DEFINE path == cedrus_dec_h265_setup
           at == <<2, 1>>
<1>1. Len(path.steps) = 2 /\ Len(path.undo) = 1
  BY DEF cedrus_dec_h265_setup
<1>2. Mirrored(path, at)
  BY <1>1 DEF Mirrored, cedrus_dec_h265_setup, Step, At, RETURN, NEVER, CHECK
<1>3. path.cleanup = Held(path, 2)
  BY DEF Held, cedrus_dec_h265_setup, Step, CHECK
<1>4. at \in [1..2 -> 1..(1 + 1)]
  OBVIOUS
<1> HIDE DEF path, at
<1>5. PathUnwinds(path)
  BY <1>1, <1>2, <1>3, <1>4, MirroredUnwinds
<1>6. QED BY <1>5 DEF path

\* cedrus_dec_vp8_setup.
LEMMA Vp8Unwinds == PathUnwinds(cedrus_dec_vp8_setup)
<1> DEFINE path == cedrus_dec_vp8_setup
<1>1. Len(path.steps) = 1 /\ Len(path.undo) = 0
  BY DEF cedrus_dec_vp8_setup
<1>2. path.cleanup = Held(path, 1)
  BY DEF Held, cedrus_dec_vp8_setup, Step, CHECK
<1> HIDE DEF path
<1>3. Released(path, 1) = {} /\ Held(path, 0) = {}
  BY <1>1 DEF Released, Held
<1>4. PathUnwinds(path)
  BY <1>1, <1>2, <1>3, SMTT(30) DEF PathUnwinds
<1>5. QED BY <1>4 DEF path

\* cedrus_enc_h264_setup.
LEMMA EncH264Unwinds == PathUnwinds(cedrus_enc_h264_setup)
<1> DEFINE path == cedrus_enc_h264_setup
           at == <<2, 1, 1>>
<1>1. Len(path.steps) = 3 /\ Len(path.undo) = 1
  BY DEF cedrus_enc_h264_setup
<1>2. Mirrored(path, at)
  BY <1>1 DEF Mirrored, cedrus_enc_h264_setup, Step, At, RETURN, NEVER, CHECK
<1>3. path.cleanup = Held(path, 3)
  BY DEF Held, cedrus_enc_h264_setup, Step, CHECK
<1>4. at \in [1..3 -> 1..(1 + 1)]
  OBVIOUS
<1> HIDE DEF path, at
<1>5. PathUnwinds(path)
  BY <1>1, <1>2, <1>3, <1>4, MirroredUnwinds
<1>6. QED BY <1>5 DEF path

\* cedrus_enc_h264_buffer_setup.
LEMMA EncBufferUnwinds == PathUnwinds(cedrus_enc_h264_buffer_setup)
<1> DEFINE path == cedrus_enc_h264_buffer_setup
           at == <<2, 1>>
<1>1. Len(path.steps) = 2 /\ Len(path.undo) = 1
  BY DEF cedrus_enc_h264_buffer_setup
<1>2. Mirrored(path, at)
  BY <1>1 DEF Mirrored, cedrus_enc_h264_buffer_setup, Step, At, RETURN, NEVER, CHECK
<1>3. path.cleanup = Held(path, 2)
  BY DEF Held, cedrus_enc_h264_buffer_setup, Step, CHECK
<1>4. at \in [1..2 -> 1..(1 + 1)]
  OBVIOUS
<1> HIDE DEF path, at
<1>5. PathUnwinds(path)
  BY <1>1, <1>2, <1>3, <1>4, MirroredUnwinds
<1>6. QED BY <1>5 DEF path

\* Every setup function of the driver releases what it acquired when it fails,
\* at whichever step.
THEOREM PathsUnwind == SetupAllOrNothing
<1>1. \A path \in SetupPaths : PathUnwinds(path)
  BY ProbeUnwinds, ResourcesUnwinds, V4l2Unwinds, ResumeUnwinds, NodeUnwinds, ControlsUnwinds,
     ContextUnwinds, StreamingUnwinds, BufferUnwinds, H264Unwinds, H264WideUnwinds, H265Unwinds,
     Vp8Unwinds, EncH264Unwinds, EncBufferUnwinds DEF SetupPaths
<1>2. QED BY <1>1 DEF SetupAllOrNothing, PathUnwinds
-----------------------------------------------------------------------------
(* Registers: the fields of each, and what is written to them. *)

\* One register of RegistersApart.
RegisterApart(r) ==
  /\ \A x, y \in Places(r) : x # y => Apart(x, y)
  /\ \A f, g \in DOMAIN r.fields : f # g => r.fields[f] # r.fields[g]
  /\ \A i, j \in DOMAIN r.flags : i # j => r.flags[i] # r.flags[j]
  /\ \A x \in Places(r) : 0 <= x[2] /\ x[2] <= x[1] /\ x[1] <= 31

\* The registers of MPEG-2: no two fields or flags of one share a bit.
LEMMA MpegRegistersApart == RegistersApart(MpegRegisters)
<1> DEFINE R == MpegRegisters
<1>1. RegisterApart(R.MP12HDR)
  BY SMTT(30) DEF RegisterApart, Places, Apart, Register, MpegRegisters, VldAddress, F_CODE, F_CODE_SHIFT
<1>2. RegisterApart(R.PICCODEDSIZE)
  BY SMTT(30) DEF RegisterApart, Places, Apart, Register, MpegRegisters, VldAddress, F_CODE, F_CODE_SHIFT
<1>3. RegisterApart(R.PICBOUNDSIZE)
  BY SMTT(30) DEF RegisterApart, Places, Apart, Register, MpegRegisters, VldAddress, F_CODE, F_CODE_SHIFT
<1>4. RegisterApart(R.MBADDR)
  BY SMTT(30) DEF RegisterApart, Places, Apart, Register, MpegRegisters, VldAddress, F_CODE, F_CODE_SHIFT
<1>5. RegisterApart(R.VLD_ADDR)
  BY SMTT(30) DEF RegisterApart, Places, Apart, Register, MpegRegisters, VldAddress, F_CODE, F_CODE_SHIFT
<1>6. RegisterApart(R.IQMINPUT)
  BY SMTT(30) DEF RegisterApart, Places, Apart, Register, MpegRegisters, VldAddress, F_CODE, F_CODE_SHIFT
<1>7. DOMAIN R = {"MP12HDR", "PICCODEDSIZE", "PICBOUNDSIZE", "MBADDR", "VLD_ADDR", "IQMINPUT"}
  BY DEF MpegRegisters
<1> HIDE DEF R
<1>8. \A name \in DOMAIN R : RegisterApart(R[name])
  BY <1>1, <1>2, <1>3, <1>4, <1>5, <1>6, <1>7, SMTT(30)
<1>9. QED BY <1>8 DEF RegistersApart, RegisterApart, R

\* Those of H.265.
LEMMA H265RegistersApart == RegistersApart(H265Registers)
<1> DEFINE R == H265Registers
<1>1. RegisterApart(R.NAL_HDR)
  BY SMTT(30) DEF RegisterApart, Places, Apart, Register, H265Registers
<1>2. RegisterApart(R.SPS_HDR)
  BY SMTT(30) DEF RegisterApart, Places, Apart, Register, H265Registers
<1>3. RegisterApart(R.PIC_SIZE)
  BY SMTT(30) DEF RegisterApart, Places, Apart, Register, H265Registers
<1>4. RegisterApart(R.PCM_CTRL)
  BY SMTT(30) DEF RegisterApart, Places, Apart, Register, H265Registers
<1>5. RegisterApart(R.PPS_CTRL0)
  BY SMTT(30) DEF RegisterApart, Places, Apart, Register, H265Registers
<1>6. RegisterApart(R.PPS_CTRL1)
  BY SMTT(30) DEF RegisterApart, Places, Apart, Register, H265Registers
<1>7. RegisterApart(R.INFO0)
  BY SMTT(30) DEF RegisterApart, Places, Apart, Register, H265Registers
<1>8. RegisterApart(R.INFO1)
  BY SMTT(30) DEF RegisterApart, Places, Apart, Register, H265Registers
<1>9. RegisterApart(R.INFO2)
  BY SMTT(30) DEF RegisterApart, Places, Apart, Register, H265Registers
<1>10. RegisterApart(R.CTB_ADDR)
  BY SMTT(30) DEF RegisterApart, Places, Apart, Register, H265Registers
<1>11. DOMAIN R = {"NAL_HDR", "SPS_HDR", "PIC_SIZE", "PCM_CTRL", "PPS_CTRL0", "PPS_CTRL1", "INFO0", "INFO1", "INFO2", "CTB_ADDR"}
  BY DEF H265Registers
<1> HIDE DEF R
<1>12. \A name \in DOMAIN R : RegisterApart(R[name])
  BY <1>1, <1>2, <1>3, <1>4, <1>5, <1>6, <1>7, <1>8, <1>9, <1>10, <1>11
<1>13. QED BY <1>12 DEF RegistersApart, RegisterApart, R

\* Those of H.264.
LEMMA H264RegistersApart == RegistersApart(H264Registers)
<1> DEFINE R == H264Registers
<1>1. RegisterApart(R.SPS)
  BY SMTT(30) DEF RegisterApart, Places, Apart, Register, H264Registers, VldAddress
<1>2. RegisterApart(R.PPS)
  BY SMTT(30) DEF RegisterApart, Places, Apart, Register, H264Registers, VldAddress
<1>3. RegisterApart(R.SHS)
  BY SMTT(30) DEF RegisterApart, Places, Apart, Register, H264Registers, VldAddress
<1>4. RegisterApart(R.SHS2)
  BY SMTT(30) DEF RegisterApart, Places, Apart, Register, H264Registers, VldAddress
<1>5. RegisterApart(R.SHS_QP)
  BY SMTT(30) DEF RegisterApart, Places, Apart, Register, H264Registers, VldAddress
<1>6. RegisterApart(R.TRIGGER)
  BY SMTT(30) DEF RegisterApart, Places, Apart, Register, H264Registers, VldAddress
<1>7. RegisterApart(R.H264_VLD_ADDR)
  BY SMTT(30) DEF RegisterApart, Places, Apart, Register, H264Registers, VldAddress
<1>8. DOMAIN R = {"SPS", "PPS", "SHS", "SHS2", "SHS_QP", "TRIGGER", "H264_VLD_ADDR"}
  BY DEF H264Registers
<1> HIDE DEF R
<1>9. \A name \in DOMAIN R : RegisterApart(R[name])
  BY <1>1, <1>2, <1>3, <1>4, <1>5, <1>6, <1>7, <1>8
<1>10. QED BY <1>9 DEF RegistersApart, RegisterApart, R

\* Those of VP8.
LEMMA Vp8RegistersApart == RegistersApart(Vp8Registers)
<1> DEFINE R == Vp8Registers
<1>1. RegisterApart(R.VP8_PPS)
  BY SMTT(30) DEF RegisterApart, Places, Apart, Register, Vp8Registers, Vp8Segments, Vp8Deltas
<1>2. RegisterApart(R.QP_INDEX)
  BY SMTT(30) DEF RegisterApart, Places, Apart, Register, Vp8Registers, Vp8Segments, Vp8Deltas
<1>3. RegisterApart(R.FSIZE)
  BY SMTT(30) DEF RegisterApart, Places, Apart, Register, Vp8Registers, Vp8Segments, Vp8Deltas
<1>4. RegisterApart(R.PICSIZE)
  BY SMTT(30) DEF RegisterApart, Places, Apart, Register, Vp8Registers, Vp8Segments, Vp8Deltas
<1>5. RegisterApart(R.SEGMENT_LV0)
  BY SMTT(30) DEF RegisterApart, Places, Apart, Register, Vp8Registers, Vp8Segments, Vp8Deltas
<1>6. RegisterApart(R.SEGMENT_LV1)
  BY SMTT(30) DEF RegisterApart, Places, Apart, Register, Vp8Registers, Vp8Segments, Vp8Deltas
<1>7. RegisterApart(R.REF_LF_DELTA)
  BY SMTT(30) DEF RegisterApart, Places, Apart, Register, Vp8Registers, Vp8Segments, Vp8Deltas
<1>8. RegisterApart(R.MODE_LF_DELTA)
  BY SMTT(30) DEF RegisterApart, Places, Apart, Register, Vp8Registers, Vp8Segments, Vp8Deltas
<1>9. DOMAIN R = {"VP8_PPS", "QP_INDEX", "FSIZE", "PICSIZE", "SEGMENT_LV0", "SEGMENT_LV1", "REF_LF_DELTA", "MODE_LF_DELTA"}
  BY DEF Vp8Registers
<1> HIDE DEF R
<1>10. \A name \in DOMAIN R : RegisterApart(R[name])
  BY <1>1, <1>2, <1>3, <1>4, <1>5, <1>6, <1>7, <1>8, <1>9
<1>11. QED BY <1>10 DEF RegistersApart, RegisterApart, R

\* Those of VP9.
LEMMA Vp9RegistersApart == RegistersApart(Vp9Registers)
<1> DEFINE R == Vp9Registers
<1>1. RegisterApart(R.HDR_SYNC)
  BY SMTT(30) DEF RegisterApart, Places, Apart, Register, Vp9Registers
<1>2. RegisterApart(R.PIC_SIZES)
  BY SMTT(30) DEF RegisterApart, Places, Apart, Register, Vp9Registers
<1>3. RegisterApart(R.TILE)
  BY SMTT(30) DEF RegisterApart, Places, Apart, Register, Vp9Registers
<1>4. RegisterApart(R.SCALES)
  BY SMTT(30) DEF RegisterApart, Places, Apart, Register, Vp9Registers
<1>5. RegisterApart(R.GOLDEN_SCALE)
  BY SMTT(30) DEF RegisterApart, Places, Apart, Register, Vp9Registers
<1>6. RegisterApart(R.SEGMENT_FEATURE)
  BY SMTT(30) DEF RegisterApart, Places, Apart, Register, Vp9Registers
<1>7. RegisterApart(R.TENBIT)
  BY SMTT(30) DEF RegisterApart, Places, Apart, Register, Vp9Registers
<1>8. DOMAIN R = {"HDR_SYNC", "PIC_SIZES", "TILE", "SCALES", "GOLDEN_SCALE", "SEGMENT_FEATURE", "TENBIT"}
  BY DEF Vp9Registers
<1> HIDE DEF R
<1>9. \A name \in DOMAIN R : RegisterApart(R[name])
  BY <1>1, <1>2, <1>3, <1>4, <1>5, <1>6, <1>7, <1>8
<1>10. QED BY <1>9 DEF RegistersApart, RegisterApart, R

\* Those of the top of the engine.
LEMMA TopRegistersApart == RegistersApart(TopRegisters)
<1> DEFINE R == TopRegisters
<1>1. RegisterApart(R.MODE)
  BY SMTT(30) DEF RegisterApart, Places, Apart, Register, TopRegisters
<1>2. RegisterApart(R.LINE_STRIDE)
  BY SMTT(30) DEF RegisterApart, Places, Apart, Register, TopRegisters
<1>3. DOMAIN R = {"MODE", "LINE_STRIDE"}
  BY DEF TopRegisters
<1> HIDE DEF R
<1>4. \A name \in DOMAIN R : RegisterApart(R[name])
  BY <1>1, <1>2, <1>3
<1>5. QED BY <1>4 DEF RegistersApart, RegisterApart, R

\* Those of the picture processor of the encoders.
LEMMA IspRegistersApart == RegistersApart(IspRegisters)
<1> DEFINE R == IspRegisters
<1>1. RegisterApart(R.PIC_INFO)
  BY SMTT(30) DEF RegisterApart, Places, Apart, Register, IspRegisters
<1>2. RegisterApart(R.STRIDE0)
  BY SMTT(30) DEF RegisterApart, Places, Apart, Register, IspRegisters
<1>3. RegisterApart(R.SCALER)
  BY SMTT(30) DEF RegisterApart, Places, Apart, Register, IspRegisters
<1>4. DOMAIN R = {"PIC_INFO", "STRIDE0", "SCALER"}
  BY DEF IspRegisters
<1> HIDE DEF R
<1>5. \A name \in DOMAIN R : RegisterApart(R[name])
  BY <1>1, <1>2, <1>3, <1>4
<1>6. QED BY <1>5 DEF RegistersApart, RegisterApart, R

\* Those of the encoders.
LEMMA AvcEncRegistersApart == RegistersApart(AvcEncRegisters)
<1> DEFINE R == AvcEncRegisters
<1>1. RegisterApart(R.PARA0)
  BY SMTT(30) DEF RegisterApart, Places, Apart, Register, AvcEncRegisters
<1>2. RegisterApart(R.PARA1)
  BY SMTT(30) DEF RegisterApart, Places, Apart, Register, AvcEncRegisters
<1>3. RegisterApart(R.INT_EN)
  BY SMTT(30) DEF RegisterApart, Places, Apart, Register, AvcEncRegisters
<1>4. RegisterApart(R.JPEG_INT_EN)
  BY SMTT(30) DEF RegisterApart, Places, Apart, Register, AvcEncRegisters
<1>5. RegisterApart(R.STARTTRIG)
  BY SMTT(30) DEF RegisterApart, Places, Apart, Register, AvcEncRegisters
<1>6. DOMAIN R = {"PARA0", "PARA1", "INT_EN", "JPEG_INT_EN", "STARTTRIG"}
  BY DEF AvcEncRegisters
<1> HIDE DEF R
<1>7. \A name \in DOMAIN R : RegisterApart(R[name])
  BY <1>1, <1>2, <1>3, <1>4, <1>5, <1>6
<1>8. QED BY <1>7 DEF RegistersApart, RegisterApart, R

\* One register whose fields hold what is written, masked or shifted.
RegisterFits(r, w) == \A f \in DOMAIN w : Fits(w[f], r.fields[f])
RegisterShifted(r, w) == \A f \in DOMAIN w : FitsShifted(w[f], r.fields[f])

\* What the MPEG-2 decoder writes fits the fields, for the largest picture it accepts.
LEMMA MpegValuesFit == WrittenFits(MpegRegisters, MpegWritten, {})
<1> DEFINE R == MpegRegisters
           W == MpegWritten
<1>1. RegisterFits(R.MP12HDR, W.MP12HDR)
  BY SMTT(90), TwoPowers
  DEF RegisterFits, Fits, Register, MpegRegisters, VldAddress, F_CODE, F_CODE_SHIFT, MpegWritten, DecSize, DecMbs
<1>2. RegisterFits(R.PICCODEDSIZE, W.PICCODEDSIZE)
  BY SMTT(90), TwoPowers
  DEF RegisterFits, Fits, Register, MpegRegisters, VldAddress, F_CODE, F_CODE_SHIFT, MpegWritten, DecSize, DecMbs
<1>3. RegisterFits(R.PICBOUNDSIZE, W.PICBOUNDSIZE)
  BY SMTT(90), TwoPowers
  DEF RegisterFits, Fits, Register, MpegRegisters, VldAddress, F_CODE, F_CODE_SHIFT, MpegWritten, DecSize, DecMbs
<1>4. RegisterFits(R.MBADDR, W.MBADDR)
  BY SMTT(90), TwoPowers
  DEF RegisterFits, Fits, Register, MpegRegisters, VldAddress, F_CODE, F_CODE_SHIFT, MpegWritten, DecSize, DecMbs
<1>5. RegisterFits(R.IQMINPUT, W.IQMINPUT)
  BY SMTT(90), TwoPowers
  DEF RegisterFits, Fits, Register, MpegRegisters, VldAddress, F_CODE, F_CODE_SHIFT, MpegWritten, DecSize, DecMbs
<1>6. DOMAIN W = {"MP12HDR", "PICCODEDSIZE", "PICBOUNDSIZE", "MBADDR", "IQMINPUT"}
  BY DEF MpegWritten
<1> HIDE DEF R, W
<1>7. \A name \in DOMAIN W : RegisterFits(R[name], W[name])
  BY <1>1, <1>2, <1>3, <1>4, <1>5, <1>6
<1>8. QED BY <1>7 DEF WrittenFits, RegisterFits, R, W

\* What the H.265 decoder writes: all but pic_struct.
LEMMA H265ValuesFit == WrittenFits(H265Registers, H265Written, {<<"INFO0", "picture_type">>})
<1> DEFINE R == H265Registers
           W == H265Written
<1>1. RegisterFits(R.NAL_HDR, W.NAL_HDR)
  BY SMTT(90), TwoPowers DEF RegisterFits, Fits, Register, H265Registers, H265Written, DecSize
<1>2. RegisterFits(R.SPS_HDR, W.SPS_HDR)
  BY SMTT(90), TwoPowers DEF RegisterFits, Fits, Register, H265Registers, H265Written, DecSize
<1>3. RegisterFits(R.PIC_SIZE, W.PIC_SIZE)
  BY SMTT(90), TwoPowers DEF RegisterFits, Fits, Register, H265Registers, H265Written, DecSize
<1>4. RegisterFits(R.PCM_CTRL, W.PCM_CTRL)
  BY SMTT(90), TwoPowers DEF RegisterFits, Fits, Register, H265Registers, H265Written, DecSize
<1>5. RegisterFits(R.PPS_CTRL0, W.PPS_CTRL0)
  BY SMTT(90), TwoPowers DEF RegisterFits, Fits, Register, H265Registers, H265Written, DecSize
<1>6. RegisterFits(R.PPS_CTRL1, W.PPS_CTRL1)
  BY SMTT(90), TwoPowers DEF RegisterFits, Fits, Register, H265Registers, H265Written, DecSize
<1>7. \A f \in DOMAIN W.INFO0 : f = "picture_type" <=> ~Fits(W.INFO0[f], R.INFO0.fields[f])
  BY SMTT(90), TwoPowers DEF RegisterFits, Fits, Register, H265Registers, H265Written, DecSize
<1>8. RegisterFits(R.INFO1, W.INFO1)
  BY SMTT(90), TwoPowers DEF RegisterFits, Fits, Register, H265Registers, H265Written, DecSize
<1>9. RegisterFits(R.INFO2, W.INFO2)
  BY SMTT(90), TwoPowers DEF RegisterFits, Fits, Register, H265Registers, H265Written, DecSize
<1>10. RegisterFits(R.CTB_ADDR, W.CTB_ADDR)
  BY SMTT(90), TwoPowers DEF RegisterFits, Fits, Register, H265Registers, H265Written, DecSize
<1>11. DOMAIN W = {"NAL_HDR", "SPS_HDR", "PIC_SIZE", "PCM_CTRL", "PPS_CTRL0", "PPS_CTRL1", "INFO0", "INFO1", "INFO2", "CTB_ADDR"}
  BY DEF H265Written
<1> HIDE DEF R, W
<1>12. \A name \in DOMAIN W \ {"INFO0"} : RegisterFits(R[name], W[name])
  BY <1>1, <1>2, <1>3, <1>4, <1>5, <1>6, <1>7, <1>8, <1>9, <1>10, <1>11
<1>13. WrittenFits(R, W, {<<"INFO0", "picture_type">>})
  BY <1>7, <1>12 DEF WrittenFits, RegisterFits
<1>14. QED BY <1>13 DEF R, W

\* What the H.264 decoder writes.
LEMMA H264ValuesFit == WrittenFits(H264Registers, H264Written, {})
<1> DEFINE R == H264Registers
           W == H264Written
<1>1. RegisterFits(R.SPS, W.SPS)
  BY SMTT(90), TwoPowers DEF RegisterFits, Fits, Register, H264Registers, VldAddress, H264Written
<1>2. RegisterFits(R.PPS, W.PPS)
  BY SMTT(90), TwoPowers DEF RegisterFits, Fits, Register, H264Registers, VldAddress, H264Written
<1>3. RegisterFits(R.SHS, W.SHS)
  BY SMTT(90), TwoPowers DEF RegisterFits, Fits, Register, H264Registers, VldAddress, H264Written
<1>4. RegisterFits(R.SHS2, W.SHS2)
  BY SMTT(90), TwoPowers DEF RegisterFits, Fits, Register, H264Registers, VldAddress, H264Written
<1>5. RegisterFits(R.SHS_QP, W.SHS_QP)
  BY SMTT(90), TwoPowers DEF RegisterFits, Fits, Register, H264Registers, VldAddress, H264Written
<1>6. DOMAIN W = {"SPS", "PPS", "SHS", "SHS2", "SHS_QP"}
  BY DEF H264Written
<1> HIDE DEF R, W
<1>7. \A name \in DOMAIN W : RegisterFits(R[name], W[name])
  BY <1>1, <1>2, <1>3, <1>4, <1>5, <1>6
<1>8. QED BY <1>7 DEF WrittenFits, RegisterFits, R, W

\* What the VP9 decoder writes: all but the ends of the first tile, of which the
\* column spills into the row.
LEMMA Vp9ValuesFit ==
  WrittenShifted(Vp9Registers, Vp9Written, {<<"TILE", "x">>, <<"TILE", "y">>}, {<<"TILE", "x">>})
<1> DEFINE R == Vp9Registers
           W == Vp9Written
<1>1. RegisterShifted(R.HDR_SYNC, W.HDR_SYNC)
  BY SMTT(90), TwoPowers DEF RegisterShifted, FitsShifted, Register, Vp9Registers, Vp9Written
<1>2. RegisterShifted(R.PIC_SIZES, W.PIC_SIZES)
  BY SMTT(90), TwoPowers DEF RegisterShifted, FitsShifted, Register, Vp9Registers, Vp9Written
<1>3. /\ DOMAIN W.TILE = {"x", "y"}
      /\ \A f \in {"x", "y"} : ~FitsShifted(W.TILE[f], R.TILE.fields[f])
      /\ R.TILE.fields.x[1] < 31 /\ ~(R.TILE.fields.y[1] < 31)
  BY SMTT(90), TwoPowers DEF RegisterShifted, FitsShifted, Register, Vp9Registers, Vp9Written
<1>4. RegisterShifted(R.SCALES, W.SCALES)
  BY SMTT(90), TwoPowers DEF RegisterShifted, FitsShifted, Register, Vp9Registers, Vp9Written
<1>5. RegisterShifted(R.GOLDEN_SCALE, W.GOLDEN_SCALE)
  BY SMTT(90), TwoPowers DEF RegisterShifted, FitsShifted, Register, Vp9Registers, Vp9Written
<1>6. RegisterShifted(R.TENBIT, W.TENBIT)
  BY SMTT(90), TwoPowers DEF RegisterShifted, FitsShifted, Register, Vp9Registers, Vp9Written
<1>7. DOMAIN W = {"HDR_SYNC", "PIC_SIZES", "TILE", "SCALES", "GOLDEN_SCALE", "TENBIT"}
  BY DEF Vp9Written
<1> HIDE DEF R, W
<1>8. \A name \in DOMAIN W \ {"TILE"} : RegisterShifted(R[name], W[name])
  BY <1>1, <1>2, <1>4, <1>5, <1>6, <1>7
<1>9. WrittenShifted(R, W, {<<"TILE", "x">>, <<"TILE", "y">>}, {<<"TILE", "x">>})
  BY <1>3, <1>8 DEF WrittenShifted, RegisterShifted
<1>10. QED BY <1>9 DEF R, W

\* What is written to the top of the engine.
LEMMA TopValuesFit == WrittenFits(TopRegisters, TopWritten, {})
<1> DEFINE R == TopRegisters
           W == TopWritten
<1>1. RegisterFits(R.MODE, W.MODE)
  BY SMTT(90), TwoPowers DEF RegisterFits, Fits, Register, TopRegisters, TopWritten
<1>2. RegisterFits(R.LINE_STRIDE, W.LINE_STRIDE)
  BY SMTT(90), TwoPowers DEF RegisterFits, Fits, Register, TopRegisters, TopWritten
<1>3. DOMAIN W = {"MODE", "LINE_STRIDE"}
  BY DEF TopWritten
<1> HIDE DEF R, W
<1>4. \A name \in DOMAIN W : RegisterFits(R[name], W[name])
  BY <1>1, <1>2, <1>3
<1>5. QED BY <1>4 DEF WrittenFits, RegisterFits, R, W

\* The sizes the encoders write to the picture processor.
LEMMA IspSizesFit == WrittenShifted(IspRegisters, IspSize, {}, {})
<1> DEFINE R == IspRegisters
           W == IspSize
<1>1. RegisterShifted(R.PIC_INFO, W.PIC_INFO) /\ RegisterShifted(R.SCALER, W.SCALER)
  BY SMTT(90), TwoPowers DEF RegisterShifted, FitsShifted, Register, IspRegisters, IspSize
<1>2. DOMAIN W = {"PIC_INFO", "SCALER"}
  BY DEF IspSize
<1> HIDE DEF R, W
<1>3. \A name \in DOMAIN W : RegisterShifted(R[name], W[name])
  BY <1>1, <1>2
<1>4. QED BY <1>3 DEF WrittenShifted, RegisterShifted, R, W

\* The stride they write there, and the largest the format takes.
LEMMA IspStridesFit ==
  /\ WrittenFits(IspRegisters, IspStride(EncStrideFits), {})
  /\ WrittenFits(IspRegisters, IspStride(EncStrideMax), {<<"STRIDE0", "input">>})
<1>1. ASSUME NEW b
      PROVE  /\ DOMAIN IspStride(b) = {"STRIDE0"} /\ DOMAIN IspStride(b).STRIDE0 = {"input"}
             /\ IspStride(b).STRIDE0.input = <<1, b \div 16>>
  BY DEF IspStride
<1>2. IspRegisters.STRIDE0.fields.input = <<26, 16>>
  BY DEF IspRegisters, Register
<1>3. Fits(<<1, EncStrideFits \div 16>>, <<26, 16>>) /\ ~Fits(<<1, EncStrideMax \div 16>>, <<26, 16>>)
  BY TwoPowers DEF Fits, EncStrideFits, EncStrideMax
<1>4. QED BY <1>1, <1>2, <1>3 DEF WrittenFits

\* What the H.264 encoder writes, but for the stride, which depends on the format.
LEMMA AvcEncValuesFit ==
  /\ WrittenFits(AvcEncRegisters, AvcEncWritten(EncStrideFits), {})
  /\ WrittenFits(AvcEncRegisters, AvcEncWritten(EncStrideMax), {<<"PARA1", "stride_48">>})
<1> DEFINE R == AvcEncRegisters
           W(b) == AvcEncWritten(b)
           others == {"chroma_offset", "rc_mode", "qp"}
<1>1. ASSUME NEW b
      PROVE  /\ RegisterFits(R.PARA0, W(b).PARA0) /\ RegisterFits(R.INT_EN, W(b).INT_EN)
             /\ RegisterFits(R.STARTTRIG, W(b).STARTTRIG)
  <2>1. RegisterFits(R.PARA0, W(b).PARA0)
    BY SMTT(90), TwoPowers DEF RegisterFits, Fits, Register, AvcEncRegisters, AvcEncWritten
  <2>2. RegisterFits(R.INT_EN, W(b).INT_EN)
    BY SMTT(90), TwoPowers DEF RegisterFits, Fits, Register, AvcEncRegisters, AvcEncWritten
  <2>3. RegisterFits(R.STARTTRIG, W(b).STARTTRIG)
    BY SMTT(90), TwoPowers DEF RegisterFits, Fits, Register, AvcEncRegisters, AvcEncWritten
  <2>4. QED BY <2>1, <2>2, <2>3
<1>2. ASSUME NEW b
      PROVE  /\ DOMAIN W(b).PARA1 = others \cup {"stride_48"}
             /\ \A f \in others : Fits(W(b).PARA1[f], R.PARA1.fields[f])
  BY SMTT(90), TwoPowers DEF Fits, Register, AvcEncRegisters, AvcEncWritten
<1>3. /\ Fits(W(EncStrideFits).PARA1.stride_48, R.PARA1.fields.stride_48)
      /\ ~Fits(W(EncStrideMax).PARA1.stride_48, R.PARA1.fields.stride_48)
  BY SMTT(90), TwoPowers
  DEF Fits, Register, AvcEncRegisters, AvcEncWritten, EncStrideFits, EncStrideMax, DIV_ROUND_UP
<1>4. ASSUME NEW b
      PROVE  DOMAIN W(b) = {"PARA0", "PARA1", "INT_EN", "STARTTRIG"}
  BY DEF AvcEncWritten
<1> HIDE DEF R, W
<1>5. ASSUME NEW b
      PROVE  \A name \in DOMAIN W(b) \ {"PARA1"} : RegisterFits(R[name], W(b)[name])
  BY <1>1, <1>4
<1>6. \A name \in DOMAIN W(EncStrideFits) : RegisterFits(R[name], W(EncStrideFits)[name])
  BY <1>2, <1>3, <1>5 DEF RegisterFits
<1>7. WrittenFits(R, W(EncStrideFits), {})
  BY <1>6 DEF WrittenFits, RegisterFits
<1>8. \A f \in DOMAIN W(EncStrideMax).PARA1 :
         f = "stride_48" <=> ~Fits(W(EncStrideMax).PARA1[f], R.PARA1.fields[f])
  BY <1>2, <1>3
<1>9. WrittenFits(R, W(EncStrideMax), {<<"PARA1", "stride_48">>})
  BY <1>5, <1>8 DEF WrittenFits, RegisterFits
<1>10. QED BY <1>7, <1>9 DEF R, W

\* What the JPEG encoder writes.
LEMMA JpegEncValuesFit == WrittenShifted(AvcEncRegisters, JpegEncWritten, {}, {})
<1>1. DOMAIN JpegEncWritten = {"JPEG_INT_EN"}
  BY DEF JpegEncWritten
<1>2. RegisterShifted(AvcEncRegisters.JPEG_INT_EN, JpegEncWritten.JPEG_INT_EN)
  BY SMTT(90), TwoPowers
  DEF RegisterShifted, FitsShifted, Register, AvcEncRegisters, JpegEncWritten
<1>3. QED BY <1>1, <1>2 DEF WrittenShifted, RegisterShifted

\* The VP8 decoder writes the trigger register of the H.264 engine, too.
LEMMA Vp8ValuesFit ==
  WrittenFits([r \in DOMAIN Vp8Registers \cup {"TRIGGER"} |->
                 IF r = "TRIGGER" THEN H264Registers.TRIGGER ELSE Vp8Registers[r]],
              Vp8Written, {})
<1> DEFINE D == DOMAIN Vp8Registers
           T == H264Registers.TRIGGER
           V == Vp8Registers
           R == [r \in D \cup {"TRIGGER"} |-> IF r = "TRIGGER" THEN T ELSE V[r]]
           W == Vp8Written
<1>1. DOMAIN V = {"VP8_PPS", "QP_INDEX", "FSIZE", "PICSIZE", "SEGMENT_LV0", "SEGMENT_LV1",
                  "REF_LF_DELTA", "MODE_LF_DELTA"}
  BY DEF Vp8Registers
<1>2. DOMAIN W = D \cup {"TRIGGER"}
  BY <1>1 DEF Vp8Written
<1>3. RegisterFits(T, W.TRIGGER)
  BY SMTT(90), TwoPowers DEF RegisterFits, Fits, Register, H264Registers, Vp8Written
<1>4. RegisterFits(V.VP8_PPS, W.VP8_PPS)
  BY SMTT(90), TwoPowers DEF RegisterFits, Fits, Register, Vp8Registers, Vp8Written
<1>5. RegisterFits(V.QP_INDEX, W.QP_INDEX)
  BY SMTT(90), TwoPowers DEF RegisterFits, Fits, Register, Vp8Registers, Vp8Written
<1>6. RegisterFits(V.FSIZE, W.FSIZE)
  BY SMTT(90), TwoPowers DEF RegisterFits, Fits, Register, Vp8Registers, Vp8Written, DecMbs
<1>7. RegisterFits(V.PICSIZE, W.PICSIZE)
  BY SMTT(90), TwoPowers DEF RegisterFits, Fits, Register, Vp8Registers, Vp8Written, DecSize
<1>8. RegisterFits(V.SEGMENT_LV0, W.SEGMENT_LV0) /\ RegisterFits(V.SEGMENT_LV1, W.SEGMENT_LV1)
  BY SMTT(90), TwoPowers DEF RegisterFits, Fits, Register, Vp8Registers, Vp8Written, Vp8Segments
<1>9. RegisterFits(V.REF_LF_DELTA, W.REF_LF_DELTA) /\ RegisterFits(V.MODE_LF_DELTA, W.MODE_LF_DELTA)
  BY SMTT(90), TwoPowers DEF RegisterFits, Fits, Register, Vp8Registers, Vp8Written, Vp8Deltas
<1> HIDE DEF T, V, W
<1>10. \A name \in D : name # "TRIGGER" /\ RegisterFits(V[name], W[name])
  BY <1>1, <1>4, <1>5, <1>6, <1>7, <1>8, <1>9 DEF V
<1>11. \A name \in D \cup {"TRIGGER"} : RegisterFits(R[name], W[name])
  BY <1>3, <1>10
<1> HIDE DEF R
<1>12. WrittenFits(R, W, {})
  BY <1>2, <1>11 DEF WrittenFits, RegisterFits
<1>13. QED BY <1>12 DEF R, D, T, V, W

\* Whatever the interrupt status, for every engine.
LEMMA EveryIrqAnswered == IrqAnswered
  BY DEF IrqAnswered, IrqEngines, IrqEngine, irq_status, IrqMpeg2, IrqH265, IrqH264, IrqVp8, IrqVp9,
         IrqEncH264, IrqEncJpeg
-----------------------------------------------------------------------------
(* All engines.                                                            *)

\* The inductive invariant of a context, whichever engine it has, and of the legacy device.
CodecsInv == VpInv /\ H4Inv /\ H5Inv /\ V8Inv /\ EnInv /\ JpInv /\ SyInv

\* A step of the engine that was chosen is a step of its own specification, and leaves
\* the variables of the others alone.
CodecsParts ==
  /\ [VpNext]_vpVars /\ [H4Next]_h4Vars /\ [H5Next]_h5Vars /\ [V8Next]_v8Vars
  /\ [EnNext]_enVars /\ [JpNext]_jpVars /\ [SyNext]_syVars

\* A step of the composition is one of each of its parts.
LEMMA CodecsStep == [CodecsNext]_CodecsVars => CodecsParts
<1> SUFFICES ASSUME [CodecsNext]_CodecsVars PROVE CodecsParts
  OBVIOUS
<1>1. CASE ChooseEngine
  BY <1>1 DEF ChooseEngine, CodecsParts
<1>2. CASE Vp9Step
  BY <1>2 DEF Vp9Step, CodecsParts
<1>3. CASE H264Step
  BY <1>3 DEF H264Step, CodecsParts
<1>4. CASE H265Step
  BY <1>4 DEF H265Step, CodecsParts
<1>5. CASE Vp8Step
  BY <1>5 DEF Vp8Step, CodecsParts
<1>6. CASE EncH264Step
  BY <1>6 DEF EncH264Step, CodecsParts
<1>7. CASE EncJpegStep
  BY <1>7 DEF EncJpegStep, CodecsParts
<1>8. CASE LegacyStep
  BY <1>8 DEF LegacyStep, CodecsParts
<1>9. CASE UNCHANGED CodecsVars
  BY <1>9 DEF CodecsVars, CodecsParts
<1> QED BY <1>1, <1>2, <1>3, <1>4, <1>5, <1>6, <1>7, <1>8, <1>9 DEF CodecsNext

\* The inductive invariant of every engine together, from the step that chooses one.
THEOREM CodecsInductive == CodecsSpec => []CodecsInv
<1>1. CodecsInit => CodecsInv
  BY VpInitInv, H4InitOK, H5InitOK, V8InitOK, EnInitInv, JpInitOK, SyInitInv
  DEF CodecsInit, CodecsInv
<1>2. CodecsInv /\ [CodecsNext]_CodecsVars => CodecsInv'
  BY CodecsStep, VpNextInv, H4StepKeeps, H5StepKeeps, V8StepKeeps, EnNextInv, JpStepKeeps,
     SyNextInv
  DEF CodecsInv, CodecsParts
<1> QED BY <1>1, <1>2, PTL DEF CodecsSpec

\* Every variable of every engine keeps its type, for any buffers, frames and bounds.
THEOREM CodecsTyped == CodecsSpec => []CodecsTypeOK
<1>1. VpInv => VpTypeOK
  BY DEF VpInv
<1>2. EnInv => EnTypeOK
  BY DEF EnInv
<1>3. SyInv => SyTypeOK
  BY DEF SyInv
<1>4. CodecsInv => CodecsTypeOK
  BY <1>1, <1>2, <1>3, H4InvTyped, H5InvTyped, V8InvTyped, JpInvTyped DEF CodecsInv, CodecsTypeOK
<1> QED BY <1>4, CodecsInductive, PTL

\* Every index the hardware gets leads to the picture the client named: the reference
\* lists and the output index of H.264 slices, the frame entries of H.265 slices.
THEOREM IndicesKept == CodecsSpec => []IndicesMeant
<1>1. H4Inv => H4ReferencesResolved /\ H4PositionStable
  BY DEF H4Inv
<1>2. H5Inv => H5EntriesAlive
  BY DEF H5Inv
<1>3. CodecsInv => IndicesMeant
  BY <1>1, <1>2 DEF CodecsInv, IndicesMeant
<1> QED BY <1>3, CodecsInductive, PTL

\* The hardware writes motion vectors of a picture inside the memory that was allocated
\* with its buffer, as long as the stream keeps its parameters.
THEOREM MotionVectorsKept == CodecsSpec => []MotionVectorsFit
<1>1. CodecsInv => MotionVectorsFit
  BY H4InvFits, H5InvFits DEF CodecsInv, MotionVectorsFit
<1> QED BY <1>1, CodecsInductive, PTL

\* A VP8 job refers to the frames its header means, and the driver compares with the loop
\* filter of the last frame that had one.
THEOREM V8PastKept == CodecsSpec => []V8PastMeant
<1>1. CodecsInv => V8PastMeant
  BY V8InvRefs, V8InvLast DEF CodecsInv, V8PastMeant
<1> QED BY <1>1, CodecsInductive, PTL

\* A decoder that has seen all the encoder wrote derives the parameters and the reference
\* the hardware was given, unless a set was lost or raced, or the reference was lost,
\* freed or overwritten by the frame predicted from it.
THEOREM EncoderDecodes == CodecsSpec => []EnDecodes
<1>1. EnInv => EnParametersAgree /\ EnReferenceMeant
  BY DEF EnInv
<1>2. CodecsInv => EnDecodes
  BY <1>1 DEF CodecsInv, EnDecodes
<1> QED BY <1>2, CodecsInductive, PTL

\* An image of the JPEG encoder that a client takes is complete, fits its plane and is
\* described by its header with the quality it was encoded with.
THEOREM ImagesWhole == CodecsSpec => []JpImageWhole
<1>1. JpInv => JpImageWhole
  BY DEF JpInv
<1>2. CodecsInv => JpImageWhole
  BY <1>1 DEF CodecsInv
<1> QED BY <1>2, CodecsInductive, PTL

\* What the driver places in one piece of memory does not overlap: for every size a VP9
\* stream may have, and every area, field and bit of the others.
THEOREM LayoutsApart == CodecsSpec => []LayoutsDisjoint
<1>1. FieldsApart
  BY MpegRegistersApart, H265RegistersApart, H264RegistersApart, Vp8RegistersApart,
     Vp9RegistersApart, TopRegistersApart, IspRegistersApart, AvcEncRegistersApart
  DEF FieldsApart
<1>2. LayoutsDisjoint
  BY <1>1, ImageDisjoint, AreasApart, SramApart, H5SramApart, Vp8ImageSound DEF LayoutsDisjoint
<1> QED BY <1>2, PTL

\* Tiles, scales, surfaces, slices, entry points and cropping are exact: for every size a
\* VP9 stream may have, every width of an H.264 picture, every tiling of an H.265 picture
\* and every even size of a picture to encode.
THEOREM GeometriesExact == CodecsSpec => []GeometryExact
<1>1. EnCropExact({16, 18, 30, 64, 1080, 1920, 3840})
  <2> DEFINE sizes == {16, 18, 30, 64, 1080, 1920, 3840}
  <2>1. sizes \in SUBSET Nat /\ \A s \in sizes : s > 0 /\ s % 2 = 0
    OBVIOUS
  <2> HIDE DEF sizes
  <2>2. EnCropExact(sizes)
    BY <2>1, CropExact
  <2>3. QED BY <2>2 DEF sizes
<1>2. GeometryExact
  BY <1>1, TilesCoverAll, ScalesFit, SurfacesFit, SlicesAddressed, TilesAreWalked DEF GeometryExact
<1> QED BY <1>2, PTL

\* Bit streams are read and written to their end: by lemmas for any VP8 header, any byte
\* before the data of an H.265 slice, any value of 16 bits the H.264 encoder codes, any
\* quality of the JPEG encoder.
THEOREM HeadersExact == CodecsSpec => []HeadersInStep
<1>1. HeadersInStep
  BY HeadersRead, SlicesAligned, BitsExact, TablesSound DEF HeadersInStep
<1> QED BY <1>1, PTL

\* What VP9 does to probabilities can be undone by the decoder of a frame header, keeps
\* them probabilities, follows the trees of the format and drops nothing.
THEOREM ProbabilitiesKept == CodecsSpec => []ProbabilitiesSound
<1>1. ProbabilitiesSound
  BY UpdateReversible, MergeSafe, TreesMerged, DeltasKept DEF ProbabilitiesSound
<1> QED BY <1>1, PTL

\* Every setup function that fails holds what it held before, and one that succeeds is
\* undone by its cleanup.
THEOREM SetupsKept == CodecsSpec => []SetupsUnwind
<1>1. SetupsUnwind
  BY PathsUnwind DEF SetupsUnwind
<1> QED BY <1>1, PTL

\* The values an engine is programmed with that do not fit their fields are exactly
\* those of the lemmas above, and every state of the interrupt status is answered and
\* acknowledged.
THEOREM RegistersKept == CodecsSpec => []RegistersSound
<1>1. ValuesFit
  BY MpegValuesFit, H265ValuesFit, H264ValuesFit, Vp8ValuesFit, Vp9ValuesFit, TopValuesFit,
     IspSizesFit, IspStridesFit, AvcEncValuesFit, JpegEncValuesFit
  DEF ValuesFit
<1>2. RegistersSound
  BY <1>1, EveryIrqAnswered DEF RegistersSound
<1> QED BY <1>2, PTL
================================================================================
