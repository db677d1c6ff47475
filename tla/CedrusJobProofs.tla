--------------------------- MODULE CedrusJobProofs ---------------------------
(***************************************************************************)
(* Proofs about CedrusJob, for any set of contexts, buffers and engines and *)
(* for both values of PromptIrq.                                           *)
(***************************************************************************)
EXTENDS CedrusJob, SequenceTheorems, TLAPS

\* The part of the inductive invariant that is about who may end the job.
Core == OneFinisher /\ CarriedContexts /\ RunInv /\ HwInv

(***************************************************************************)
(* The operators of the mem2mem framework.                                 *)
(***************************************************************************)

\* Taking a context off the job queue leaves a queue of contexts.
LEMMA WithoutType ==
  ASSUME NEW S, NEW s \in Seq(S), NEW c
  PROVE  Without(s, c) \in Seq(S)
<1>1. CASE \E i \in 1..Len(s) : s[i] = c
  <2> DEFINE k == CHOOSE i \in 1..Len(s) : s[i] = c
  <2>1. k \in 1..Len(s) /\ Len(s) \in Nat
    BY <1>1
  <2>2. Without(s, c) = SubSeq(s, 1, k - 1) \o SubSeq(s, k + 1, Len(s))
    BY <1>1 DEF Without
  <2> HIDE DEF k
  <2>3. \A i \in 1..Len(s) : s[i] \in S
    BY ElementOfSeq
  <2>4. SubSeq(s, 1, k - 1) \in Seq(S)
    <3>1. \A i \in 1..(k - 1) : s[i] \in S
      BY <2>1, <2>3
    <3>2. 1 \in Int /\ k - 1 \in Int
      BY <2>1
    <3>3. QED BY <3>1, <3>2, SubSeqProperties
  <2>5. SubSeq(s, k + 1, Len(s)) \in Seq(S)
    <3>1. \A i \in (k + 1)..Len(s) : s[i] \in S
      BY <2>1, <2>3
    <3>2. k + 1 \in Int /\ Len(s) \in Int
      BY <2>1
    <3>3. QED BY <3>1, <3>2, SubSeqProperties
  <2>6. QED BY <2>2, <2>4, <2>5, ConcatProperties
<1>2. CASE ~ \E i \in 1..Len(s) : s[i] = c
  BY <1>2 DEF Without
<1>3. QED BY <1>1, <1>2

\* What changes in an operation that sets or clears QUEUED or ABORT of c.
LEMMA FlagsChange ==
  ASSUME NEW f \in [Ctx -> SUBSET Flag], NEW c \in Ctx, NEW x \in SUBSET Flag,
         "RUNNING" \in x <=> "RUNNING" \in f[c]
  PROVE  /\ [f EXCEPT ![c] = x] \in [Ctx -> SUBSET Flag]
         /\ \A d \in Ctx : "RUNNING" \in [f EXCEPT ![c] = x][d] <=> "RUNNING" \in f[d]
  OBVIOUS

\* Queueing a job and cancelling it touch no context's TRANS_RUNNING.
LEMMA TryQueueEffect ==
  ASSUME flags \in [Ctx -> SUBSET Flag], jobq \in Seq(Ctx),
         NEW c \in Ctx, NEW on, NEW lists, TryQueue(c, on, lists)
  PROVE  /\ flags' \in [Ctx -> SUBSET Flag]
         /\ jobq' \in Seq(Ctx)
         /\ \A d \in Ctx : "RUNNING" \in flags'[d] <=> "RUNNING" \in flags[d]
<1>1. CASE Queueable(c, on, lists, flags[c])
  <2>1. /\ flags' = [flags EXCEPT ![c] = flags[c] \cup {"QUEUED"}]
        /\ jobq' = Append(jobq, c)
    BY <1>1 DEF TryQueue
  <2>2. flags[c] \cup {"QUEUED"} \in SUBSET Flag
    BY DEF Flag
  <2>3. "RUNNING" \in flags[c] \cup {"QUEUED"} <=> "RUNNING" \in flags[c]
    OBVIOUS
  <2>4. jobq' \in Seq(Ctx)
    BY <2>1, AppendProperties
  <2>5. QED BY <2>1, <2>2, <2>3, <2>4, FlagsChange
<1>2. CASE ~Queueable(c, on, lists, flags[c])
  BY <1>2 DEF TryQueue
<1>3. QED BY <1>1, <1>2

\* v4l2_m2m_cancel_job marks a context, and takes it off the queue unless it runs.
LEMMA CancelJobEffect ==
  ASSUME flags \in [Ctx -> SUBSET Flag], jobq \in Seq(Ctx),
         NEW c \in Ctx, CancelJob(c)
  PROVE  /\ flags' \in [Ctx -> SUBSET Flag]
         /\ jobq' \in Seq(Ctx)
         /\ \A d \in Ctx : "RUNNING" \in flags'[d] <=> "RUNNING" \in flags[d]
<1>1. CASE "RUNNING" \in flags[c]
  <2>1. flags' = [flags EXCEPT ![c] = flags[c] \cup {"ABORT"}] /\ jobq' = jobq
    BY <1>1 DEF CancelJob
  <2>2. /\ flags[c] \cup {"ABORT"} \in SUBSET Flag
        /\ "RUNNING" \in flags[c] \cup {"ABORT"} <=> "RUNNING" \in flags[c]
    BY DEF Flag
  <2>3. QED BY <2>1, <2>2, FlagsChange
<1>2. CASE "RUNNING" \notin flags[c]
  <2> DEFINE x == (flags[c] \cup {"ABORT"}) \ {"QUEUED"}
  <2>1. flags' = [flags EXCEPT ![c] = x] /\ jobq' = Without(jobq, c)
    BY <1>2 DEF CancelJob
  <2>2. x \in SUBSET Flag /\ ("RUNNING" \in x <=> "RUNNING" \in flags[c])
    BY DEF Flag
  <2> HIDE DEF x
  <2>3. jobq' \in Seq(Ctx)
    BY <2>1, WithoutType
  <2>4. QED BY <2>1, <2>2, <2>3, FlagsChange
<1>3. QED BY <1>1, <1>2

\* Ending the job of c takes TRANS_RUNNING from c when it is the current context,
\* and changes nothing otherwise.
LEMMA EndJobEffect ==
  ASSUME flags \in [Ctx -> SUBSET Flag], jobq \in Seq(Ctx), work \in BOOLEAN,
         curr \in Ctx \cup {None}, RunningIsCurrent, None \notin Ctx,
         NEW c \in Ctx, NEW rest, EndJob(c, rest)
  PROVE  /\ flags' \in [Ctx -> SUBSET Flag]
         /\ jobq' \in Seq(Ctx) /\ curr' \in Ctx \cup {None} /\ work' \in BOOLEAN
         /\ curr' = IF curr = c THEN None ELSE curr
         /\ RunningIsCurrent'
<1>1. CASE curr = c
  <2> DEFINE left  == flags[c] \ {"QUEUED", "RUNNING"}
             again == Queueable(c, streaming[c], rest, left)
             x == IF again THEN left \cup {"QUEUED"} ELSE left
  <2>1. /\ flags' = [flags EXCEPT ![c] = x]
        /\ jobq' = IF again THEN Append(Without(jobq, c), c) ELSE Without(jobq, c)
        /\ curr' = None /\ work' = TRUE
    BY <1>1 DEF EndJob
  <2>2. x \in SUBSET Flag /\ "RUNNING" \notin x
    BY DEF Flag
  <2> HIDE DEF x, again, left
  <2>3. jobq' \in Seq(Ctx)
    <3>1. Without(jobq, c) \in Seq(Ctx)
      BY WithoutType
    <3>2. QED BY <2>1, <3>1, AppendProperties
  <2>4. flags' \in [Ctx -> SUBSET Flag]
    BY <2>1, <2>2
  <2>5. RunningIsCurrent'
    BY <1>1, <2>1, <2>2 DEF RunningIsCurrent
  <2>6. QED BY <1>1, <2>1, <2>3, <2>4, <2>5
<1>2. CASE curr # c
  BY <1>2 DEF EndJob, RunningIsCurrent
<1>3. QED BY <1>1, <1>2

\* Finishing a job of c touches the lists of c only, and ends the current job
\* only when that is c's.
LEMMA JobFinishEffect ==
  ASSUME TypeOK, RunningIsCurrent, None \notin Ctx,
         NEW c \in Ctx, NEW st \in {"done", "error"}, JobFinish(c, st)
  PROVE  /\ vb' \in [Ctx -> [Queue -> [Bufs -> BufState]]]
         /\ rdy' \in [Ctx -> [Queue -> Seq(Bufs)]]
         /\ flags' \in [Ctx -> SUBSET Flag]
         /\ jobq' \in Seq(Ctx) /\ curr' \in Ctx \cup {None} /\ work' \in BOOLEAN
         /\ \A d \in Ctx : d # c => rdy'[d] = rdy[d]
         /\ curr' = curr \/ (curr = c /\ curr' = None)
         /\ RunningIsCurrent'
<1> DEFINE s == rdy[c]["src"]
           d == rdy[c]["dst"]
           rest == [q \in Queue |-> Tail(rdy[c][q])]
<1>0. /\ s \in Seq(Bufs) /\ d \in Seq(Bufs) /\ rdy[c] \in [Queue -> Seq(Bufs)]
      /\ rdy \in [Ctx -> [Queue -> Seq(Bufs)]]
      /\ vb \in [Ctx -> [Queue -> [Bufs -> BufState]]]
      /\ flags \in [Ctx -> SUBSET Flag] /\ jobq \in Seq(Ctx)
      /\ curr \in Ctx \cup {None} /\ work \in BOOLEAN
  BY SMTT(30) DEF TypeOK, Queue, Flag
<1>1. CASE s = <<>> \/ d = <<>>
  <2> DEFINE x == IF s = <<>> THEN s ELSE Tail(s)
  <2>1. /\ rdy' = [rdy EXCEPT ![c]["src"] = x]
        /\ UNCHANGED <<vb, flags, jobq, curr, work>>
    BY <1>1 DEF JobFinish
  <2>2. x \in Seq(Bufs)
    BY <1>0, HeadTailProperties
  <2> HIDE DEF x
  <2>3. rdy' \in [Ctx -> [Queue -> Seq(Bufs)]] /\ \A e \in Ctx : e # c => rdy'[e] = rdy[e]
    BY <1>0, <2>1, <2>2 DEF Queue
  <2>4. QED BY <1>0, <2>1, <2>3 DEF RunningIsCurrent
<1>2. CASE s # <<>> /\ d # <<>>
  <2>1. /\ rdy' = [rdy EXCEPT ![c] = rest]
        /\ vb' = [vb EXCEPT ![c]["src"][Head(s)] = st,
                            ![c]["dst"][Head(d)] = st]
        /\ EndJob(c, rest)
    BY <1>2 DEF JobFinish
  <2>2. rest \in [Queue -> Seq(Bufs)]
    BY <1>0, <1>2, HeadTailProperties DEF Queue
  <2>3. Head(s) \in Bufs /\ Head(d) \in Bufs
    BY <1>0, <1>2, HeadTailProperties
  <2> HIDE DEF rest, s, d
  <2>4. rdy' \in [Ctx -> [Queue -> Seq(Bufs)]] /\ \A e \in Ctx : e # c => rdy'[e] = rdy[e]
    BY <1>0, <2>1, <2>2
  <2>5. vb' \in [Ctx -> [Queue -> [Bufs -> BufState]]]
    <3> DEFINE v == [vb EXCEPT ![c]["src"][Head(s)] = st]
    <3>1. v \in [Ctx -> [Queue -> [Bufs -> BufState]]]
      BY <1>0, <2>3 DEF BufState, Queue
    <3>2. vb' = [v EXCEPT ![c]["dst"][Head(d)] = st]
      BY <2>1
    <3> HIDE DEF v
    <3>3. QED BY <3>1, <3>2, <2>3 DEF BufState, Queue
  <2>6. /\ flags' \in [Ctx -> SUBSET Flag]
        /\ jobq' \in Seq(Ctx) /\ curr' \in Ctx \cup {None} /\ work' \in BOOLEAN
        /\ curr' = IF curr = c THEN None ELSE curr
        /\ RunningIsCurrent'
    BY <1>0, <2>1, EndJobEffect
  <2>7. QED BY <2>4, <2>5, <2>6
<1>3. QED BY <1>1, <1>2

(***************************************************************************)
(* Steps of the users' threads.                                            *)
(***************************************************************************)

\* A step that leaves the threads, the engine and the current context alone, and
\* the buffers that lead the current context's lists, disturbs nothing of Core.
LEMMA CoreFrame ==
  ASSUME Core, UNCHANGED <<curr, run, wd, irq, hw, status>>,
         ASSUME NEW s, NEW d, Leads(curr, s, d) PROVE Leads(curr, s, d)'
  PROVE  Core'
<1>1. OneFinisher' /\ CarriedContexts'
  BY DEF Core, OneFinisher, CarriedContexts, RunHolds, TimerHolds, WdHolds, IrqHolds
<1>2. RunInv'
  BY DEF Core, RunInv, Quiet, IdleHw, NoStatus
<1>3. HwInv'
  BY DEF Core, HwInv, Quiet, IdleHw, NoStatus
<1>4. QED BY <1>1, <1>2, <1>3 DEF Core

\* An ioctl or close that starts.
LEMMA UserCallInv ==
  ASSUME JobAssumption, IInv, NEW c \in Ctx, UserCall(c)
  PROVE  IInv'
<1>0. /\ TypeOK /\ RunningIsCurrent /\ Core
      /\ flags \in [Ctx -> SUBSET Flag] /\ jobq \in Seq(Ctx)
      /\ rdy \in [Ctx -> [Queue -> Seq(Bufs)]]
      /\ None \notin Ctx
  BY DEF IInv, Core, TypeOK, Flag, JobAssumption
<1>1. CASE Open(c)
  <2>1. TypeOK'
    BY <1>0, <1>1 DEF TypeOK, Open, m2mVars, hwVars
  <2>2. RunningIsCurrent'
    BY <1>0, <1>1 DEF RunningIsCurrent, Open, m2mVars
  <2>3. Core'
    BY <1>0, <1>1, CoreFrame DEF Open, m2mVars, hwVars, Leads
  <2>4. QED BY <2>1, <2>2, <2>3 DEF IInv, Core
<1>2. ASSUME NEW q \in Queue, NEW b \in Bufs, QBuf(c, q, b)
      PROVE  IInv'
  <2> DEFINE lists == [rdy[c] EXCEPT ![q] = Append(rdy[c][q], b)]
  <2>1. /\ flags' \in [Ctx -> SUBSET Flag] /\ jobq' \in Seq(Ctx)
        /\ \A d \in Ctx : "RUNNING" \in flags'[d] <=> "RUNNING" \in flags[d]
    BY <1>0, <1>2, TryQueueEffect DEF QBuf
  <2>2. /\ rdy' = [rdy EXCEPT ![c] = lists]
        /\ UNCHANGED <<fileVars, curr, work, run, wd, irq, hw, status>>
        /\ user' = [user EXCEPT ![c] = "try_run"]
        /\ vb' = [vb EXCEPT ![c][q][b] = "active"]
        /\ decoded' = [decoded EXCEPT ![c] = IF q = "dst" THEN @ \ {b} ELSE @]
    BY <1>2 DEF QBuf
  <2>3. Append(rdy[c][q], b) \in Seq(Bufs)
    BY <1>0, AppendProperties
  <2>4. rdy' \in [Ctx -> [Queue -> Seq(Bufs)]]
    BY <1>0, <2>2, <2>3
  <2>5. vb' \in [Ctx -> [Queue -> [Bufs -> BufState]]]
    BY <1>0, <2>2 DEF TypeOK, BufState
  <2>6. user' \in [Ctx -> UserPc]
    BY <1>0, <2>2 DEF TypeOK, UserPc
  <2>7. decoded' \in [Ctx -> SUBSET Bufs]
    BY <1>0, <2>2 DEF TypeOK
  <2>8. TypeOK'
    BY <1>0, <2>1, <2>2, <2>4, <2>5, <2>6, <2>7, SMTT(30) DEF TypeOK, Flag, UserPc, fileVars
  <2>9. RunningIsCurrent'
    BY <1>0, <2>1, <2>2 DEF RunningIsCurrent
  <2>10. ASSUME NEW s, NEW d, Leads(curr, s, d) PROVE Leads(curr, s, d)'
    <3>1. CASE curr # c \/ curr \notin Ctx
      BY <1>0, <2>2, <2>10, <3>1 DEF Leads
    <3>2. CASE curr = c
      <4>1. rdy'[c] = lists /\ rdy[c] \in [Queue -> Seq(Bufs)]
        BY <1>0, <2>2
      <4>2. ASSUME NEW p \in Queue, rdy[c][p] # <<>>
            PROVE  rdy'[c][p] # <<>> /\ Head(rdy'[c][p]) = Head(rdy[c][p])
        BY <4>1, <4>2, AppendProperties
      <4>3. QED BY <2>2, <2>10, <3>2, <4>2 DEF Leads, Queue
    <3>3. QED BY <3>1, <3>2
  <2>11. Core'
    BY <1>0, <2>2, <2>10, CoreFrame
  <2>12. QED BY <2>8, <2>9, <2>11 DEF IInv, Core
<1>3. ASSUME NEW q \in Queue, StreamOn(c, q)
      PROVE  IInv'
  <2>1. /\ flags' \in [Ctx -> SUBSET Flag] /\ jobq' \in Seq(Ctx)
        /\ \A d \in Ctx : "RUNNING" \in flags'[d] <=> "RUNNING" \in flags[d]
    BY <1>0, <1>3, TryQueueEffect DEF StreamOn
  <2>2. TypeOK'
    <3>1. streaming' \in [Ctx -> SUBSET Queue]
      BY <1>0, <1>3 DEF TypeOK, StreamOn
    <3>2. user' \in [Ctx -> UserPc]
      BY <1>0, <1>3 DEF TypeOK, StreamOn, UserPc
    <3>3. QED BY <1>0, <1>3, <2>1, <3>1, <3>2 DEF TypeOK, StreamOn, Flag, UserPc, hwVars
  <2>3. RunningIsCurrent'
    BY <1>0, <1>3, <2>1 DEF RunningIsCurrent, StreamOn
  <2>4. Core'
    BY <1>0, <1>3, CoreFrame DEF StreamOn, hwVars, Leads
  <2>5. QED BY <2>2, <2>3, <2>4 DEF IInv, Core
<1>4. ASSUME NEW q \in Queue, StreamOffBegin(c, q)
      PROVE  IInv'
  <2>1. /\ flags' \in [Ctx -> SUBSET Flag] /\ jobq' \in Seq(Ctx)
        /\ \A d \in Ctx : "RUNNING" \in flags'[d] <=> "RUNNING" \in flags[d]
    BY <1>0, <1>4, CancelJobEffect DEF StreamOffBegin
  <2>2. TypeOK'
    <3>1. user' \in [Ctx -> UserPc]
      BY <1>0, <1>4 DEF TypeOK, StreamOffBegin, StreamOffPc, UserPc
    <3>2. QED BY <1>0, <1>4, <2>1, <3>1 
              DEF TypeOK, StreamOffBegin, Flag, UserPc, fileVars, hwVars
  <2>3. RunningIsCurrent'
    BY <1>0, <1>4, <2>1 DEF RunningIsCurrent, StreamOffBegin
  <2>4. Core'
    BY <1>0, <1>4, CoreFrame DEF StreamOffBegin, hwVars, Leads
  <2>5. QED BY <2>2, <2>3, <2>4 DEF IInv, Core
<1>5. CASE CloseActiveClear(c)
  <2>1. TypeOK'
    <3>1. user' \in [Ctx -> UserPc]
      BY <1>0, <1>5 DEF TypeOK, CloseActiveClear, UserPc
    <3>2. QED BY <1>0, <1>5, <3>1 DEF TypeOK, CloseActiveClear, m2mVars, hwVars
  <2>2. RunningIsCurrent'
    BY <1>0, <1>5 DEF RunningIsCurrent, CloseActiveClear, m2mVars
  <2>3. Core'
    BY <1>0, <1>5, CoreFrame DEF CloseActiveClear, m2mVars, hwVars, Leads
  <2>4. QED BY <2>1, <2>2, <2>3 DEF IInv, Core
<1>6. QED BY <1>1, <1>2, <1>3, <1>4, <1>5 DEF UserCall

\* With no current context nobody may end a job and the engine is quiet.
LEMMA NobodyHolds ==
  ASSUME TypeOK, Core, None \notin Ctx, curr = None
  PROVE  /\ run.pc = "idle" /\ ~wd.pending /\ wd.pc = "idle" /\ ~IrqHolds
         /\ Quiet
<1>1. ~RunHolds /\ ~TimerHolds /\ ~WdHolds /\ ~IrqHolds
  BY DEF Core, OneFinisher
<1>2. run.pc = "idle"
  BY DEF Core, RunInv
<1>3. hw = IdleHw
  BY DEF Core, HwInv
<1>4. \A e \in Engines : status[e] = "none"
  BY DEF Core, HwInv
<1>5. status = NoStatus
  BY <1>4 DEF NoStatus, TypeOK
<1>6. QED BY <1>1, <1>2, <1>3, <1>5 DEF TimerHolds, WdHolds, Quiet

\* Making the head of the job queue the current context, in whichever thread.
LEMMA TryRunInv ==
  ASSUME JobAssumption, IInv, NEW by \in Ctx \cup {"work"}, TryRun(by),
         UNCHANGED <<fileVars, vb, rdy, jobq, wd, irq, hwVars>>, work' \in BOOLEAN
  PROVE  IInv'
<1>0. /\ TypeOK /\ RunningIsCurrent /\ Core
      /\ flags \in [Ctx -> SUBSET Flag] /\ jobq \in Seq(Ctx)
      /\ rdy \in [Ctx -> [Queue -> Seq(Bufs)]]
      /\ user \in [Ctx -> UserPc]
      /\ None \notin Ctx
  BY DEF IInv, Core, TypeOK, Flag, UserPc, JobAssumption
<1>1. CASE curr # None \/ jobq = <<>>
  <2>1. /\ user' = IF by \in Ctx THEN [user EXCEPT ![by] = "idle"] ELSE user
        /\ UNCHANGED <<curr, flags, run>>
    BY <1>1 DEF TryRun
  <2>2. user' \in [Ctx -> UserPc]
    BY <1>0, <2>1 DEF UserPc
  <2>3. TypeOK'
    BY <1>0, <2>1, <2>2 DEF TypeOK, UserPc, fileVars, hwVars
  <2>4. RunningIsCurrent'
    BY <1>0, <2>1 DEF RunningIsCurrent
  <2>5. Core'
    BY <1>0, <2>1, CoreFrame DEF hwVars, Leads
  <2>6. QED BY <2>3, <2>4, <2>5 DEF IInv, Core
<1>2. CASE curr = None /\ jobq # <<>>
  <2> DEFINE c == Head(jobq)
             ready == rdy[c]["src"] # <<>> /\ rdy[c]["dst"] # <<>>
             newRun == [pc  |-> IF ready THEN "configure" ELSE "oops",
                        ctx |-> c, by |-> by,
                        src |-> IF ready THEN Head(rdy[c]["src"]) ELSE None,
                        dst |-> IF ready THEN Head(rdy[c]["dst"]) ELSE None]
  <2>1. /\ curr' = c
        /\ flags' = [flags EXCEPT ![c] = flags[c] \cup {"RUNNING"}]
        /\ run' = newRun
        /\ user' = IF by \in Ctx THEN [user EXCEPT ![by] = "running"] ELSE user
    BY <1>2 DEF TryRun
  <2>2. c \in Ctx
    BY <1>0, <1>2, HeadTailProperties
  <2>3. newRun.pc = "oops" \/ Leads(c, newRun.src, newRun.dst)
    BY DEF Leads
  <2>4. /\ newRun.pc \in {"configure", "oops"} /\ newRun.ctx = c
        /\ newRun \in [pc : {"idle", "configure", "arm", "trigger", "oops"},
                       ctx : Ctx \cup {None}, by : Ctx \cup {None, "work"},
                       src : Bufs \cup {None}, dst : Bufs \cup {None}]
    <3>1. ready => Head(rdy[c]["src"]) \in Bufs /\ Head(rdy[c]["dst"]) \in Bufs
      <4>1. rdy[c]["src"] \in Seq(Bufs) /\ rdy[c]["dst"] \in Seq(Bufs)
        BY <1>0, <2>2 DEF Queue
      <4>2. QED BY <4>1, HeadTailProperties
    <3>2. QED BY <2>2, <3>1
  <2> HIDE DEF newRun, c
  <2>5. user' \in [Ctx -> UserPc]
    BY <1>0, <2>1 DEF UserPc
  <2>6. flags' \in [Ctx -> SUBSET Flag]
    BY <1>0, <2>1, <2>2 DEF Flag
  <2>7. TypeOK'
    BY <1>0, <2>1, <2>2, <2>4, <2>5, <2>6 DEF TypeOK, UserPc, Flag, fileVars, hwVars
  <2>8. RunningIsCurrent'
    BY <1>0, <1>2, <2>1, <2>2 DEF RunningIsCurrent
  <2>9. /\ ~wd.pending /\ wd.pc = "idle" /\ ~IrqHolds /\ Quiet
    BY <1>0, <1>2, NobodyHolds
  <2>10. UNCHANGED <<wd, irq, hw, status, rdy>> /\ curr' # None
    BY <1>0, <2>1, <2>2 DEF hwVars
  <2>11. OneFinisher' /\ CarriedContexts'
    BY <1>0, <2>9, <2>10
    DEF Core, OneFinisher, CarriedContexts, RunHolds, TimerHolds, WdHolds, IrqHolds
  <2>12. RunInv'
    BY <2>1, <2>2, <2>3, <2>4, <2>9, <2>10
    DEF RunInv, Leads, Quiet, IdleHw, NoStatus, IrqHolds
  <2>13. HwInv'
    BY <2>9, <2>10 DEF HwInv, Quiet, IdleHw, NoStatus
  <2>14. QED BY <2>7, <2>8, <2>11, <2>12, <2>13 DEF IInv
<1>3. QED BY <1>1, <1>2

\* An ioctl or close that goes on.
LEMMA UserStepInv ==
  ASSUME JobAssumption, IInv, NEW c \in Ctx, UserStep(c)
  PROVE  IInv'
<1>0. /\ TypeOK /\ RunningIsCurrent /\ Core
      /\ flags \in [Ctx -> SUBSET Flag] /\ jobq \in Seq(Ctx)
      /\ rdy \in [Ctx -> [Queue -> Seq(Bufs)]]
      /\ vb \in [Ctx -> [Queue -> [Bufs -> BufState]]]
      /\ streaming \in [Ctx -> SUBSET Queue]
      /\ user \in [Ctx -> UserPc]
      /\ curr \in Ctx \cup {None} /\ None \notin Ctx
  BY DEF IInv, Core, TypeOK, Flag, UserPc, BufState, JobAssumption
<1>1. CASE IoctlTryRun(c)
  <2>1. work' \in BOOLEAN
    BY <1>0, <1>1 DEF IoctlTryRun, TypeOK
  <2>2. QED BY <1>1, <2>1, TryRunInv DEF IoctlTryRun
<1>2. ASSUME NEW q \in Queue, StreamOffEnd(c, q)
      PROVE  IInv'
  <2>1. curr # c
    BY <1>0, <1>2 DEF StreamOffEnd, RunningIsCurrent
  <2>2. /\ streaming' = [streaming EXCEPT ![c] = @ \ {q}]
        /\ vb' = [vb EXCEPT ![c][q] =
                    [b \in Bufs |-> IF @[b] = "active" THEN "error" ELSE @[b]]]
        /\ rdy' = [rdy EXCEPT ![c][q] = <<>>]
        /\ flags' = [flags EXCEPT ![c] = {}]
        /\ jobq' = Without(jobq, c)
        /\ curr' = curr
        /\ user' = [user EXCEPT ![c] = "idle"]
        /\ UNCHANGED <<opened, ctrls, ctxActive, work, run, wd, irq, hwVars>>
    BY <1>2, <2>1 DEF StreamOffEnd
  <2>3. streaming' \in [Ctx -> SUBSET Queue] /\ flags' \in [Ctx -> SUBSET Flag]
    BY <1>0, <2>2
  <2>4. vb' \in [Ctx -> [Queue -> [Bufs -> BufState]]]
    <3> DEFINE w == [b \in Bufs |-> IF vb[c][q][b] = "active" THEN "error"
                                                              ELSE vb[c][q][b]]
    <3>1. vb[c][q] \in [Bufs -> BufState]
      BY <1>0
    <3>2. w \in [Bufs -> BufState]
      BY <3>1 DEF BufState
    <3>3. vb' = [vb EXCEPT ![c][q] = w]
      BY <2>2
    <3> HIDE DEF w
    <3>4. QED BY <1>0, <3>2, <3>3
  <2>5. rdy' \in [Ctx -> [Queue -> Seq(Bufs)]]
    BY <1>0, <2>2
  <2>6. jobq' \in Seq(Ctx)
    BY <1>0, <2>2, WithoutType
  <2>7. user' \in [Ctx -> UserPc]
    BY <1>0, <2>2 DEF UserPc
  <2>8. TypeOK'
    BY <1>0, <2>2, <2>3, <2>4, <2>5, <2>6, <2>7
    DEF TypeOK, UserPc, Flag, BufState, hwVars
  <2>9. RunningIsCurrent'
    BY <1>0, <2>1, <2>2 DEF RunningIsCurrent
  <2>10. \A p \in Queue : rdy'[curr][p] = rdy[curr][p]
    BY <1>0, <2>1, <2>2
  <2>11. Core'
    BY <1>0, <2>2, <2>10, CoreFrame DEF Leads, Queue, hwVars
  <2>12. QED BY <2>8, <2>9, <2>11 DEF IInv, Core
<1>3. CASE CloseCtrls(c)
  <2>1. user' \in [Ctx -> UserPc]
    BY <1>0, <1>3 DEF CloseCtrls, UserPc
  <2>2. TypeOK'
    BY <1>0, <1>3, <2>1 DEF TypeOK, CloseCtrls, UserPc, m2mVars, hwVars
  <2>3. RunningIsCurrent'
    BY <1>0, <1>3 DEF RunningIsCurrent, CloseCtrls, m2mVars
  <2>4. Core'
    BY <1>0, <1>3, CoreFrame DEF CloseCtrls, m2mVars, hwVars, Leads
  <2>5. QED BY <2>2, <2>3, <2>4 DEF IInv, Core
<1>4. CASE CloseCancel(c)
  <2>1. /\ flags' \in [Ctx -> SUBSET Flag] /\ jobq' \in Seq(Ctx)
        /\ \A d \in Ctx : "RUNNING" \in flags'[d] <=> "RUNNING" \in flags[d]
    BY <1>0, <1>4, CancelJobEffect DEF CloseCancel
  <2>2. user' \in [Ctx -> UserPc]
    BY <1>0, <1>4 DEF CloseCancel, UserPc
  <2>3. TypeOK'
    BY <1>0, <1>4, <2>1, <2>2 DEF TypeOK, CloseCancel, UserPc, Flag, fileVars, hwVars
  <2>4. RunningIsCurrent'
    BY <1>0, <1>4, <2>1 DEF RunningIsCurrent, CloseCancel
  <2>5. Core'
    BY <1>0, <1>4, CoreFrame DEF CloseCancel, hwVars, Leads
  <2>6. QED BY <2>3, <2>4, <2>5 DEF IInv, Core
<1>5. CASE CloseFree(c)
  <2>1. curr # c
    BY <1>0, <1>5 DEF CloseFree, RunningIsCurrent
  <2>2. /\ opened' = opened \ {c}
        /\ streaming' = [streaming EXCEPT ![c] = {}]
        /\ vb' = [vb EXCEPT ![c] = [q \in Queue |-> [b \in Bufs |-> "user"]]]
        /\ rdy' = [rdy EXCEPT ![c] = [q \in Queue |-> <<>>]]
        /\ flags' = [flags EXCEPT ![c] = {}]
        /\ user' = [user EXCEPT ![c] = "idle"]
        /\ decoded' = [decoded EXCEPT ![c] = {}]
        /\ UNCHANGED <<ctrls, ctxActive, jobq, curr, work, run, wd, irq, hw, status>>
    BY <1>5 DEF CloseFree
  <2>3. streaming' \in [Ctx -> SUBSET Queue] /\ flags' \in [Ctx -> SUBSET Flag]
    BY <1>0, <2>2
  <2>4. vb' \in [Ctx -> [Queue -> [Bufs -> BufState]]]
    BY <1>0, <2>2 DEF BufState
  <2>5. rdy' \in [Ctx -> [Queue -> Seq(Bufs)]]
    BY <1>0, <2>2
  <2>6. user' \in [Ctx -> UserPc] /\ decoded' \in [Ctx -> SUBSET Bufs]
    BY <1>0, <2>2 DEF UserPc, TypeOK
  <2>7. TypeOK'
    BY <1>0, <2>2, <2>3, <2>4, <2>5, <2>6 DEF TypeOK, UserPc, Flag, BufState
  <2>8. RunningIsCurrent'
    BY <1>0, <2>1, <2>2 DEF RunningIsCurrent
  <2>9. \A p \in Queue : rdy'[curr][p] = rdy[curr][p]
    BY <1>0, <2>1, <2>2
  <2>10. Core'
    BY <1>0, <2>2, <2>9, CoreFrame DEF Leads, Queue
  <2>11. QED BY <2>7, <2>8, <2>10 DEF IInv, Core
<1>6. QED BY <1>1, <1>2, <1>3, <1>4, <1>5 DEF UserStep

(***************************************************************************)
(* Steps of device_run, of the hardware, of the watchdog and of the        *)
(* interrupt handler.                                                      *)
(***************************************************************************)

\* Whoever ends the job of c, the engine being quiet, leaves nobody behind who
\* could end it again.
LEMMA FinishCore ==
  ASSUME None \notin Ctx, TypeOK, Core, Quiet, NEW c \in Ctx,
         curr' = curr \/ (curr = c /\ curr' = None),
         UNCHANGED <<hw, status>>,
         run'.pc = "idle", ~TimerHolds', ~WdHolds', ~IrqHolds'
  PROVE  Core'
<1>1. OneFinisher' /\ CarriedContexts'
  BY DEF OneFinisher, CarriedContexts, RunHolds, WdHolds, IrqHolds
<1>2. RunInv'
  BY DEF RunInv
<1>3. HwInv'
  BY DEF HwInv, Quiet, IdleHw, NoStatus
<1>4. QED BY <1>1, <1>2, <1>3 DEF Core

\* The work item that runs a job, from configuration to trigger.
LEMMA RunStepInv ==
  ASSUME JobAssumption, IInv, RunStep
  PROVE  IInv'
<1>0. /\ TypeOK /\ RunningIsCurrent /\ Core
      /\ rdy \in [Ctx -> [Queue -> Seq(Bufs)]]
      /\ user \in [Ctx -> UserPc]
      /\ curr \in Ctx \cup {None} /\ None \notin Ctx
      /\ NodeOf \in [Ctx -> Node]
      /\ run \in [pc : {"idle", "configure", "arm", "trigger", "oops"},
                  ctx : Ctx \cup {None}, by : Ctx \cup {None, "work"},
                  src : Bufs \cup {None}, dst : Bufs \cup {None}]
  BY DEF IInv, Core, TypeOK, UserPc, JobAssumption
<1>1. CASE RunConfigure
  <2>1. /\ run.pc = "configure" /\ run' = [run EXCEPT !.pc = "arm"]
        /\ UNCHANGED <<fileVars, m2mVars, user, wd, irq, hwVars>>
    BY <1>1 DEF RunConfigure
  <2>2. TypeOK'
    <3>1. run' \in [pc : {"idle", "configure", "arm", "trigger", "oops"},
                    ctx : Ctx \cup {None}, by : Ctx \cup {None, "work"},
                    src : Bufs \cup {None}, dst : Bufs \cup {None}]
      BY <1>0, <2>1
    <3>2. QED BY <1>0, <2>1, <3>1 DEF TypeOK, fileVars, m2mVars, hwVars
  <2>3. RunningIsCurrent'
    BY <1>0, <2>1 DEF RunningIsCurrent, m2mVars
  <2>4. OneFinisher' /\ CarriedContexts'
    BY <1>0, <2>1 DEF Core, OneFinisher, CarriedContexts, RunHolds, TimerHolds,
                      WdHolds, IrqHolds, m2mVars
  <2>5. RunInv'
    BY <1>0, <2>1 DEF Core, RunInv, Quiet, IdleHw, NoStatus, Leads, m2mVars, hwVars
  <2>6. HwInv'
    BY <1>0, <2>1 DEF Core, HwInv, Quiet, IdleHw, NoStatus, Leads, m2mVars, hwVars
  <2>7. QED BY <2>2, <2>3, <2>4, <2>5, <2>6 DEF IInv
<1>2. CASE RunFail
  <2>1. /\ run.pc = "configure" /\ JobFinish(run.ctx, "error") /\ RunReturns
        /\ UNCHANGED <<fileVars, wd, irq, hwVars>>
    BY <1>2 DEF RunFail
  <2>2. /\ run.ctx \in Ctx /\ Quiet /\ wd.pc = "idle" /\ curr = run.ctx
        /\ ~TimerHolds /\ ~WdHolds /\ ~IrqHolds
    BY <1>0, <2>1 DEF Core, RunInv, OneFinisher, RunHolds
  <2>3. /\ vb' \in [Ctx -> [Queue -> [Bufs -> BufState]]]
        /\ rdy' \in [Ctx -> [Queue -> Seq(Bufs)]]
        /\ flags' \in [Ctx -> SUBSET Flag]
        /\ jobq' \in Seq(Ctx) /\ curr' \in Ctx \cup {None} /\ work' \in BOOLEAN
        /\ curr' = curr \/ (curr = run.ctx /\ curr' = None)
        /\ RunningIsCurrent'
    BY <1>0, <2>1, <2>2, JobFinishEffect
  <2>4. run' = IdleRun /\ user' \in [Ctx -> UserPc]
    BY <1>0, <2>1 DEF RunReturns, UserPc
  <2>5. TypeOK'
    BY <1>0, <2>1, <2>3, <2>4
    DEF TypeOK, Flag, BufState, UserPc, IdleRun, fileVars, hwVars
  <2>6. Core'
    BY <1>0, <2>1, <2>2, <2>3, <2>4, FinishCore
    DEF TimerHolds, WdHolds, IrqHolds, IdleRun, hwVars
  <2>7. QED BY <2>3, <2>5, <2>6 DEF IInv, Core
<1>3. CASE RunArm
  <2>1. /\ run.pc = "arm"
        /\ ctxActive' = [ctxActive EXCEPT ![NodeOf[run.ctx]] = run.ctx]
        /\ wd' = [wd EXCEPT !.pending = TRUE]
        /\ run' = [run EXCEPT !.pc = "trigger"]
        /\ UNCHANGED <<opened, ctrls, streaming, m2mVars, user, irq, hwVars>>
    BY <1>3 DEF RunArm
  <2>2. /\ run.ctx \in Ctx /\ Quiet /\ curr = run.ctx
        /\ ~TimerHolds /\ ~WdHolds /\ ~IrqHolds
    BY <1>0, <2>1 DEF Core, RunInv, OneFinisher, RunHolds
  <2>3. wd' \in [pending : BOOLEAN, pc : {"idle", "read", "reset", "finish"},
                 ctx : Ctx \cup {None}]
        /\ wd'.pc = wd.pc /\ wd'.ctx = wd.ctx
    BY <1>0, <2>1 DEF TypeOK
  <2>4. ctxActive' \in [Node -> Ctx \cup {None}]
    BY <1>0, <2>1, <2>2 DEF TypeOK
  <2>5. run' \in [pc : {"idle", "configure", "arm", "trigger", "oops"},
                  ctx : Ctx \cup {None}, by : Ctx \cup {None, "work"},
                  src : Bufs \cup {None}, dst : Bufs \cup {None}]
        /\ run'.pc = "trigger" /\ run'.ctx = run.ctx
        /\ run'.src = run.src /\ run'.dst = run.dst
    BY <1>0, <2>1
  <2>6. TypeOK'
    BY <1>0, <2>1, <2>3, <2>4, <2>5 DEF TypeOK, m2mVars, hwVars
  <2>7. RunningIsCurrent'
    BY <1>0, <2>1 DEF RunningIsCurrent, m2mVars
  <2>8. OneFinisher' /\ CarriedContexts'
    BY <1>0, <2>1, <2>2, <2>3, <2>5
    DEF Core, OneFinisher, CarriedContexts, RunHolds, TimerHolds, WdHolds,
        IrqHolds, m2mVars
  <2>9. RunInv'
    BY <1>0, <2>1, <2>2, <2>3, <2>5
    DEF Core, RunInv, Quiet, IdleHw, NoStatus, Leads, m2mVars, hwVars
  <2>10. HwInv'
    BY <1>0, <2>1, <2>2, <2>3
    DEF Core, HwInv, Quiet, IdleHw, NoStatus, Leads, m2mVars, hwVars
  <2>11. QED BY <2>6, <2>7, <2>8, <2>9, <2>10 DEF IInv
<1>4. CASE RunTrigger
  <2>1. /\ run.pc = "trigger"
        /\ hw' = [ctx |-> run.ctx, src |-> run.src, dst |-> run.dst]
        /\ RunReturns
        /\ UNCHANGED <<fileVars, m2mVars, wd, irq, status, decoded>>
    BY <1>4 DEF RunTrigger
  <2>2. /\ run.ctx \in Ctx /\ Quiet /\ curr = run.ctx
        /\ wd.pc = "idle" /\ irq.pc # "finish"
        /\ Leads(run.ctx, run.src, run.dst)
    BY <1>0, <2>1 DEF Core, RunInv
  <2>3. run' = IdleRun /\ user' \in [Ctx -> UserPc]
    BY <1>0, <2>1 DEF RunReturns, UserPc
  <2>4. TypeOK'
    BY <1>0, <2>1, <2>3 DEF TypeOK, UserPc, IdleRun, fileVars, m2mVars
  <2>5. RunningIsCurrent'
    BY <1>0, <2>1 DEF RunningIsCurrent, m2mVars
  <2>6. OneFinisher' /\ CarriedContexts'
    BY <1>0, <2>1, <2>3
    DEF Core, OneFinisher, CarriedContexts, RunHolds, TimerHolds, WdHolds,
        IrqHolds, IdleRun, m2mVars
  <2>7. RunInv'
    BY <2>3 DEF RunInv, IdleRun
  <2>8. HwInv'
    BY <1>0, <2>1, <2>2 DEF HwInv, Quiet, NoStatus, Leads, m2mVars
  <2>9. QED BY <2>4, <2>5, <2>6, <2>7, <2>8 DEF IInv
<1>5. QED BY <1>1, <1>2, <1>3, <1>4 DEF RunStep

\* The hardware answers.
LEMMA HwCompleteInv ==
  ASSUME JobAssumption, IInv, NEW st \in {"ok", "err"}, HwComplete(st)
  PROVE  IInv'
<1>0. /\ TypeOK /\ RunningIsCurrent /\ Core
      /\ curr \in Ctx \cup {None} /\ None \notin Ctx
      /\ rdy \in [Ctx -> [Queue -> Seq(Bufs)]]
      /\ EngineOf \in [Ctx -> Engines]
  BY DEF IInv, Core, TypeOK, JobAssumption
<1>1. /\ hw # IdleHw /\ hw' = IdleHw
      /\ status' = [status EXCEPT ![EngineOf[hw.ctx]] = st]
      /\ decoded' = IF st = "ok"
                    THEN [decoded EXCEPT ![hw.ctx] = @ \cup {hw.dst}] ELSE decoded
      /\ UNCHANGED <<fileVars, m2mVars, user, run, wd, irq>>
  BY DEF HwComplete
<1>2. /\ hw.ctx \in Ctx /\ curr = hw.ctx /\ Leads(hw.ctx, hw.src, hw.dst)
      /\ status = NoStatus
  BY <1>0, <1>1 DEF Core, HwInv
<1>3. run.pc = "idle" /\ wd.pc # "finish" /\ irq.pc # "finish"
  BY <1>0, <1>1 DEF Core, RunInv, HwInv, Quiet
<1>4. hw.dst \in Bufs
  <2>1. rdy[hw.ctx]["dst"] \in Seq(Bufs) /\ rdy[hw.ctx]["dst"] # <<>>
    BY <1>0, <1>2 DEF Queue, Leads
  <2>2. QED BY <1>2, <2>1, HeadTailProperties DEF Leads
<1>5. decoded' \in [Ctx -> SUBSET Bufs]
  BY <1>0, <1>1, <1>2, <1>4 DEF TypeOK
<1>6. status' \in [Engines -> {"none", "ok", "err"}]
  BY <1>0, <1>1 DEF TypeOK
<1>7. TypeOK'
  BY <1>0, <1>1, <1>5, <1>6 DEF TypeOK, IdleHw, fileVars, m2mVars
<1>8. RunningIsCurrent'
  BY <1>0, <1>1 DEF RunningIsCurrent, m2mVars
<1>9. OneFinisher' /\ CarriedContexts'
  BY <1>0, <1>1 DEF Core, OneFinisher, CarriedContexts, RunHolds, TimerHolds,
                    WdHolds, IrqHolds, m2mVars
<1>10. RunInv'
  BY <1>1, <1>3 DEF RunInv
<1>11. \A e \in Engines : status'[e] # "none" => curr' # None /\ e = EngineOf[curr']
  BY <1>0, <1>1, <1>2 DEF NoStatus, m2mVars
<1>12. HwInv'
  BY <1>1, <1>3, <1>11 DEF HwInv, IdleHw
<1>13. QED BY <1>7, <1>8, <1>9, <1>10, <1>12 DEF IInv

\* The watchdog expires, and executes.
LEMMA WatchdogInv ==
  ASSUME JobAssumption, IInv, WdExpire \/ WdStep
  PROVE  IInv'
<1> DEFINE WdType == [pending : BOOLEAN, pc : {"idle", "read", "reset", "finish"},
                      ctx : Ctx \cup {None}]
<1>0. /\ TypeOK /\ RunningIsCurrent /\ Core
      /\ wd \in WdType
      /\ curr \in Ctx \cup {None} /\ None \notin Ctx
  BY DEF IInv, Core, TypeOK, JobAssumption
<1>1. CASE WdExpire
  <2>1. /\ wd.pending /\ wd.pc = "idle" /\ run.pc # "trigger"
        /\ wd' = [pending |-> FALSE, pc |-> "read", ctx |-> None]
        /\ UNCHANGED <<fileVars, m2mVars, user, run, irq, hwVars>>
    BY <1>1 DEF WdExpire
  <2>2. curr # None /\ run.pc = "idle"
    BY <1>0, <2>1 DEF Core, OneFinisher, RunInv, RunHolds, TimerHolds, TypeOK
  <2>3. TypeOK'
    BY <1>0, <2>1 DEF TypeOK, fileVars, m2mVars, hwVars
  <2>4. RunningIsCurrent'
    BY <1>0, <2>1 DEF RunningIsCurrent, m2mVars
  <2>5. OneFinisher' /\ CarriedContexts'
    BY <1>0, <2>1, <2>2 DEF Core, OneFinisher, CarriedContexts, RunHolds,
                            TimerHolds, WdHolds, IrqHolds, m2mVars
  <2>6. RunInv'
    BY <2>1, <2>2 DEF RunInv
  <2>7. HwInv'
    BY <1>0, <2>1 DEF Core, HwInv, Quiet, IdleHw, NoStatus, Leads, m2mVars, hwVars
  <2>8. QED BY <2>3, <2>4, <2>5, <2>6, <2>7 DEF IInv
<1>2. CASE WdRead
  <2>1. /\ wd.pc = "read"
        /\ wd' = [wd EXCEPT !.pc = IF curr = None THEN "idle" ELSE "reset",
                            !.ctx = curr]
        /\ UNCHANGED <<fileVars, m2mVars, user, run, irq, hwVars>>
    BY <1>2 DEF WdRead
  <2>2. curr # None /\ run.pc = "idle" /\ ~TimerHolds /\ ~IrqHolds
    BY <1>0, <2>1 DEF Core, OneFinisher, RunInv, WdHolds
  <2>3. wd' \in WdType /\ wd'.pc = "reset" /\ wd'.ctx = curr /\ wd'.pending = wd.pending
    BY <1>0, <2>1, <2>2
  <2>4. TypeOK'
    BY <1>0, <2>1, <2>3 DEF TypeOK, fileVars, m2mVars, hwVars
  <2>5. RunningIsCurrent'
    BY <1>0, <2>1 DEF RunningIsCurrent, m2mVars
  <2>6. OneFinisher' /\ CarriedContexts'
    BY <1>0, <2>1, <2>2, <2>3 DEF Core, OneFinisher, CarriedContexts, RunHolds,
                                  TimerHolds, WdHolds, IrqHolds, m2mVars
  <2>7. RunInv'
    BY <2>1, <2>2 DEF RunInv
  <2>8. HwInv'
    BY <1>0, <2>1, <2>3
    DEF Core, HwInv, Quiet, IdleHw, NoStatus, Leads, m2mVars, hwVars
  <2>9. QED BY <2>4, <2>5, <2>6, <2>7, <2>8 DEF IInv
<1>3. CASE WdReset
  <2>1. /\ wd.pc = "reset" /\ hw' = IdleHw /\ status' = NoStatus
        /\ wd' = [wd EXCEPT !.pc = "finish"]
        /\ UNCHANGED <<fileVars, m2mVars, user, run, irq, decoded>>
    BY <1>3 DEF WdReset
  <2>2. curr # None /\ run.pc = "idle" /\ ~TimerHolds /\ ~IrqHolds /\ wd.ctx \in Ctx
    BY <1>0, <2>1 DEF Core, OneFinisher, CarriedContexts, RunInv, WdHolds
  <2>3. wd' \in WdType /\ wd'.pc = "finish" /\ wd'.ctx = wd.ctx /\ wd'.pending = wd.pending
    BY <1>0, <2>1
  <2>4. TypeOK'
    BY <1>0, <2>1, <2>3 DEF TypeOK, IdleHw, NoStatus, fileVars, m2mVars
  <2>5. RunningIsCurrent'
    BY <1>0, <2>1 DEF RunningIsCurrent, m2mVars
  <2>6. OneFinisher' /\ CarriedContexts'
    BY <1>0, <2>1, <2>2, <2>3 DEF Core, OneFinisher, CarriedContexts, RunHolds,
                                  TimerHolds, WdHolds, IrqHolds, m2mVars
  <2>7. RunInv'
    BY <2>1, <2>2 DEF RunInv
  <2>8. HwInv'
    BY <2>1 DEF HwInv, Quiet, IdleHw, NoStatus
  <2>9. QED BY <2>4, <2>5, <2>6, <2>7, <2>8 DEF IInv
<1>4. CASE WdFinish
  <2>1. /\ wd.pc = "finish" /\ JobFinish(wd.ctx, "error")
        /\ wd' = [wd EXCEPT !.pc = "idle", !.ctx = None]
        /\ UNCHANGED <<fileVars, user, run, irq, hwVars>>
    BY <1>4 DEF WdFinish
  <2>2. /\ wd.ctx \in Ctx /\ Quiet /\ run.pc = "idle" /\ ~TimerHolds /\ ~IrqHolds
    BY <1>0, <2>1 DEF Core, OneFinisher, CarriedContexts, RunInv, HwInv, WdHolds
  <2>3. /\ vb' \in [Ctx -> [Queue -> [Bufs -> BufState]]]
        /\ rdy' \in [Ctx -> [Queue -> Seq(Bufs)]]
        /\ flags' \in [Ctx -> SUBSET Flag]
        /\ jobq' \in Seq(Ctx) /\ curr' \in Ctx \cup {None} /\ work' \in BOOLEAN
        /\ curr' = curr \/ (curr = wd.ctx /\ curr' = None)
        /\ RunningIsCurrent'
    BY <1>0, <2>1, <2>2, JobFinishEffect
  <2>4. wd' \in WdType /\ wd'.pc = "idle" /\ wd'.pending = wd.pending
    BY <1>0, <2>1
  <2>5. TypeOK'
    BY <1>0, <2>1, <2>3, <2>4 DEF TypeOK, Flag, BufState, fileVars, hwVars
  <2>6. Core'
    BY <1>0, <2>1, <2>2, <2>3, <2>4, FinishCore
    DEF TimerHolds, WdHolds, IrqHolds, hwVars
  <2>7. QED BY <2>3, <2>5, <2>6 DEF IInv, Core
<1>5. QED BY <1>1, <1>2, <1>3, <1>4 DEF WdStep

\* The interrupt handler, from its entry to the end of the job.
LEMMA IrqInv ==
  ASSUME JobAssumption, IInv, IrqEnter \/ IrqStep
  PROVE  IInv'
<1> DEFINE IrqType == [pc : {"idle", "read", "cancel", "spurious", "unexpected",
                             "status", "finish"},
                       ctx : Ctx \cup {None}, st : {"none", "done", "error"}]
<1>0. /\ TypeOK /\ RunningIsCurrent /\ Core
      /\ irq \in IrqType
      /\ curr \in Ctx \cup {None} /\ None \notin Ctx
      /\ EngineOf \in [Ctx -> Engines]
      /\ status \in [Engines -> {"none", "ok", "err"}]
  BY DEF IInv, Core, TypeOK, JobAssumption
<1>1. ASSUME NEW pc \in {"read", "cancel"}, irq'.pc = pc, irq' \in IrqType, ~IrqHolds,
             UNCHANGED <<fileVars, m2mVars, user, run, wd, hwVars>>
      PROVE  IInv'
  <2>1. TypeOK'
    BY <1>0, <1>1 DEF TypeOK, fileVars, m2mVars, hwVars
  <2>2. RunningIsCurrent'
    BY <1>0, <1>1 DEF RunningIsCurrent, m2mVars
  <2>3. OneFinisher' /\ CarriedContexts'
    BY <1>0, <1>1 DEF Core, OneFinisher, CarriedContexts, RunHolds, TimerHolds,
                      WdHolds, IrqHolds, m2mVars
  <2>4. RunInv'
    BY <1>0, <1>1 DEF Core, RunInv, Quiet, IdleHw, NoStatus, Leads, m2mVars, hwVars
  <2>5. HwInv'
    BY <1>0, <1>1 DEF Core, HwInv, Quiet, IdleHw, NoStatus, Leads, m2mVars, hwVars
  <2>6. QED BY <2>1, <2>2, <2>3, <2>4, <2>5 DEF IInv
<1>2. CASE IrqEnter
  <2>1. irq'.pc = "read" /\ irq' \in IrqType /\ ~IrqHolds
    BY <1>0, <1>2 DEF IrqEnter, IrqHolds
  <2>2. QED BY <1>1, <1>2, <2>1 DEF IrqEnter
<1>3. CASE IrqRead
  <2>1. irq'.pc = "cancel" /\ irq' \in IrqType /\ ~IrqHolds
    BY <1>0, <1>3 DEF IrqRead, IrqHolds
  <2>2. QED BY <1>1, <1>3, <2>1 DEF IrqRead
<1>4. CASE IrqCancel
  <2>1. /\ irq.pc = "cancel"
        /\ irq' = [irq EXCEPT !.pc = IF ~wd.pending THEN "spurious"
                                     ELSE IF irq.ctx = None THEN "unexpected"
                                     ELSE "status"]
        /\ wd' = [wd EXCEPT !.pending = FALSE]
        /\ UNCHANGED <<fileVars, m2mVars, user, run, hwVars>>
    BY <1>4 DEF IrqCancel
  <2>2. /\ wd' \in [pending : BOOLEAN, pc : {"idle", "read", "reset", "finish"},
                    ctx : Ctx \cup {None}]
        /\ wd'.pc = wd.pc /\ wd'.ctx = wd.ctx /\ wd'.pending = FALSE
    BY <1>0, <2>1 DEF TypeOK
  <2>3. irq' \in IrqType /\ irq'.ctx = irq.ctx
    BY <1>0, <2>1
  <2>4. irq'.pc = IF ~wd.pending THEN "spurious"
                  ELSE IF irq.ctx = None THEN "unexpected" ELSE "status"
    BY <1>0, <2>1
  <2>5. TypeOK'
    BY <1>0, <2>1, <2>2, <2>3 DEF TypeOK, fileVars, m2mVars, hwVars
  <2>6. RunningIsCurrent'
    BY <1>0, <2>1 DEF RunningIsCurrent, m2mVars
  <2>7. OneFinisher'
    BY <1>0, <2>1, <2>2, <2>4 DEF Core, OneFinisher, RunHolds, TimerHolds,
                                  WdHolds, IrqHolds, m2mVars
  <2>8. CarriedContexts'
    BY <1>0, <2>1, <2>2, <2>3, <2>4 DEF Core, CarriedContexts
  <2>9. RunInv'
    BY <1>0, <2>1, <2>2, <2>4
    DEF Core, RunInv, Quiet, IdleHw, NoStatus, Leads, m2mVars, hwVars
  <2>10. HwInv'
    BY <1>0, <2>1, <2>2, <2>4
    DEF Core, HwInv, Quiet, IdleHw, NoStatus, Leads, m2mVars, hwVars
  <2>11. QED BY <2>5, <2>6, <2>7, <2>8, <2>9, <2>10 DEF IInv
<1>5. ASSUME irq' = IdleIrq, status' \in [Engines -> {"none", "ok", "err"}],
             \A e \in Engines : status'[e] = status[e] \/ status'[e] = "none",
             UNCHANGED <<fileVars, m2mVars, user, run, wd, hw, decoded>>
      PROVE  IInv'
  <2>1. TypeOK'
    BY <1>0, <1>5 DEF TypeOK, IdleIrq, fileVars, m2mVars
  <2>2. RunningIsCurrent'
    BY <1>0, <1>5 DEF RunningIsCurrent, m2mVars
  <2>3. OneFinisher' /\ CarriedContexts'
    BY <1>0, <1>5 DEF Core, OneFinisher, CarriedContexts, RunHolds, TimerHolds,
                      WdHolds, IrqHolds, IdleIrq, m2mVars
  <2>4. status = NoStatus => status' = NoStatus
    BY <1>0, <1>5 DEF NoStatus
  <2>5. RunInv'
    BY <1>0, <1>5, <2>4 DEF Core, RunInv, Quiet, IdleHw, IdleIrq, NoStatus, Leads, m2mVars
  <2>6. HwInv'
    BY <1>0, <1>5, <2>4 DEF Core, HwInv, Quiet, IdleHw, IdleIrq, NoStatus, Leads, m2mVars
  <2>7. QED BY <2>1, <2>2, <2>3, <2>5, <2>6 DEF IInv
<1>6. CASE IrqSpurious
  <2>1. status' \in [Engines -> {"none", "ok", "err"}]
        /\ \A e \in Engines : status'[e] = status[e] \/ status'[e] = "none"
    BY <1>0, <1>6 DEF IrqSpurious
  <2>2. QED BY <1>5, <1>6, <2>1 DEF IrqSpurious
<1>7. CASE IrqStatus
  <2> DEFINE e0 == EngineOf[irq.ctx]
             st == status[e0]
  <2>1. /\ irq.pc = "status"
        /\ irq' = IF st = "none" THEN IdleIrq
                  ELSE [irq EXCEPT !.pc = "finish",
                                   !.st = IF st = "err" THEN "error" ELSE "done"]
        /\ status' = [status EXCEPT ![e0] = "none"]
        /\ UNCHANGED <<fileVars, m2mVars, user, run, wd, hw, decoded>>
    BY <1>7 DEF IrqStatus
  <2>2. /\ irq.ctx \in Ctx /\ e0 \in Engines
        /\ curr # None /\ ~RunHolds /\ ~TimerHolds /\ ~WdHolds
    BY <1>0, <2>1 DEF Core, OneFinisher, CarriedContexts, IrqHolds
  <2>3. status' \in [Engines -> {"none", "ok", "err"}]
        /\ \A e \in Engines : status'[e] = status[e] \/ status'[e] = "none"
    BY <1>0, <2>1
  <2>4. CASE st = "none"
    BY <1>5, <2>1, <2>3, <2>4
  <2>5. CASE st # "none"
    <3>1. irq' \in IrqType /\ irq'.pc = "finish" /\ irq'.ctx = irq.ctx
          /\ irq'.st \in {"done", "error"}
      BY <1>0, <2>1, <2>5
    <3>2. hw = IdleHw /\ e0 = EngineOf[curr]
      BY <1>0, <2>2, <2>5 DEF Core, HwInv, NoStatus
    <3>3. status' = NoStatus
      <4>1. \A e \in Engines : status'[e] = "none"
        BY <1>0, <2>1, <3>2 DEF Core, HwInv
      <4>2. QED BY <2>3, <4>1 DEF NoStatus
    <3>4. run.pc = "idle"
      BY <1>0, <2>2, <2>5 DEF Core, RunInv, Quiet, NoStatus
    <3>5. TypeOK'
      BY <1>0, <2>1, <2>3, <3>1 DEF TypeOK, fileVars, m2mVars
    <3>6. RunningIsCurrent'
      BY <1>0, <2>1 DEF RunningIsCurrent, m2mVars
    <3>7. OneFinisher' /\ CarriedContexts'
      BY <1>0, <2>1, <2>2, <3>1
      DEF Core, OneFinisher, CarriedContexts, RunHolds, TimerHolds, WdHolds,
          IrqHolds, m2mVars
    <3>8. RunInv'
      BY <2>1, <3>4 DEF RunInv
    <3>9. HwInv'
      BY <2>1, <3>2, <3>3 DEF HwInv, Quiet, IdleHw, NoStatus
    <3>10. QED BY <3>5, <3>6, <3>7, <3>8, <3>9 DEF IInv
  <2>6. QED BY <2>4, <2>5
<1>8. CASE IrqFinish
  <2>1. /\ irq.pc = "finish" /\ JobFinish(irq.ctx, irq.st) /\ irq' = IdleIrq
        /\ UNCHANGED <<fileVars, user, run, wd, hwVars>>
    BY <1>8 DEF IrqFinish
  <2>2. /\ irq.ctx \in Ctx /\ irq.st \in {"done", "error"} /\ Quiet
        /\ run.pc = "idle" /\ ~TimerHolds /\ ~WdHolds
    BY <1>0, <2>1 DEF Core, OneFinisher, CarriedContexts, RunInv, HwInv, IrqHolds
  <2>3. /\ vb' \in [Ctx -> [Queue -> [Bufs -> BufState]]]
        /\ rdy' \in [Ctx -> [Queue -> Seq(Bufs)]]
        /\ flags' \in [Ctx -> SUBSET Flag]
        /\ jobq' \in Seq(Ctx) /\ curr' \in Ctx \cup {None} /\ work' \in BOOLEAN
        /\ curr' = curr \/ (curr = irq.ctx /\ curr' = None)
        /\ RunningIsCurrent'
    BY <1>0, <2>1, <2>2, JobFinishEffect
  <2>4. TypeOK'
    BY <1>0, <2>1, <2>3 DEF TypeOK, Flag, BufState, IdleIrq, fileVars, hwVars
  <2>5. Core'
    BY <1>0, <2>1, <2>2, <2>3, FinishCore
    DEF TimerHolds, WdHolds, IrqHolds, IdleIrq, hwVars
  <2>6. QED BY <2>3, <2>4, <2>5 DEF IInv, Core
<1>9. QED BY <1>2, <1>3, <1>4, <1>6, <1>7, <1>8 DEF IrqStep

(***************************************************************************)
(* The theorems.                                                           *)
(***************************************************************************)

\* The invariant holds at the start.
LEMMA InitInv == ASSUME JobAssumption, Init PROVE IInv
<1>1. TypeOK
  <2>1. /\ opened \subseteq Ctx /\ ctrls \subseteq Ctx
        /\ streaming \in [Ctx -> SUBSET Queue]
        /\ decoded \in [Ctx -> SUBSET Bufs]
        /\ ctxActive \in [Node -> Ctx \cup {None}]
        /\ status \in [Engines -> {"none", "ok", "err"}]
    BY DEF Init, NoStatus
  <2>2. vb \in [Ctx -> [Queue -> [Bufs -> BufState]]]
    BY DEF Init, BufState
  <2>3. /\ rdy \in [Ctx -> [Queue -> Seq(Bufs)]]
        /\ jobq \in Seq(Ctx) /\ curr \in Ctx \cup {None} /\ work \in BOOLEAN
    <3>1. <<>> \in Seq(Bufs) /\ <<>> \in Seq(Ctx)
      OBVIOUS
    <3>2. [q \in Queue |-> <<>>] \in [Queue -> Seq(Bufs)]
      BY <3>1
    <3>3. QED BY <3>1, <3>2 DEF Init
  <2>4. /\ flags \in [Ctx -> SUBSET Flag]
        /\ user \in [Ctx -> UserPc]
    BY DEF Init, UserPc
  <2>5. /\ run = IdleRun /\ irq = IdleIrq /\ hw = IdleHw
        /\ wd = [pending |-> FALSE, pc |-> "idle", ctx |-> None]
    BY DEF Init
  <2>6. QED
    BY <2>1, <2>2, <2>3, <2>4, <2>5
    DEF TypeOK, BufState, Flag, UserPc, IdleRun, IdleIrq, IdleHw
<1>2. RunningIsCurrent /\ OneFinisher /\ CarriedContexts /\ RunInv /\ HwInv
  BY DEF Init, JobAssumption, RunningIsCurrent, OneFinisher, CarriedContexts,
         RunInv, HwInv, RunHolds, TimerHolds, WdHolds, IrqHolds, Quiet,
         IdleRun, IdleIrq, IdleHw, NoStatus
<1>3. QED BY <1>1, <1>2 DEF IInv

\* Every step keeps the invariant.
LEMMA NextInv == ASSUME JobAssumption, IInv, [Next]_vars PROVE IInv'
<1>1. CASE Next
  <2>1. ASSUME NEW c \in Ctx, UserCall(c) \/ UserStep(c) PROVE IInv'
    BY <2>1, UserCallInv, UserStepInv
  <2>2. CASE WorkTryRun
    <3>1. TryRun("work") /\ work' \in BOOLEAN
          /\ UNCHANGED <<fileVars, vb, rdy, jobq, wd, irq, hwVars>>
      BY <2>2 DEF WorkTryRun
    <3>2. QED BY <3>1, TryRunInv
  <2>3. QED BY <1>1, <2>1, <2>2, RunStepInv, HwCompleteInv, WatchdogInv, IrqInv DEF Next
<1>2. CASE UNCHANGED vars
  BY <1>2 DEF vars, IInv, TypeOK, RunningIsCurrent, OneFinisher, CarriedContexts,
              RunInv, HwInv, RunHolds, TimerHolds, WdHolds, IrqHolds, Quiet,
              Leads, IdleHw, NoStatus
<1>3. QED BY <1>1, <1>2

\* The inductive invariant holds in every reachable state.
THEOREM Inductive == Spec => []IInv
<1>1. Init => IInv
  BY InitInv, JobAssumption
<1>2. IInv /\ [Next]_vars => IInv'
  BY NextInv, JobAssumption
<1>3. QED BY <1>1, <1>2, PTL DEF Spec

\* Every variable of the job path keeps its type, whatever the interleaving of
\* ioctls, job_work, watchdog and interrupt.
THEOREM TypeCorrect == Spec => []TypeOK
<1>1. IInv => TypeOK
  BY DEF IInv
<1>2. QED BY <1>1, Inductive, PTL

\* v4l2_m2m_cancel_job waits for TRANS_RUNNING of its context; that flag is set
\* exactly while the context is m2m_dev->curr_ctx, so the wait ends neither
\* before the job does nor after.
THEOREM RunningCurrent == Spec => []RunningIsCurrent
<1>1. IInv => RunningIsCurrent
  BY DEF IInv
<1>2. QED BY <1>1, Inductive, PTL

\* The Video Engine never works on buffers that were given back, on whatever
\* schedule cedrus_irq and cedrus_watchdog race for the end of the job.
THEOREM DmaSafe == Spec => []DmaOnOwnedBuffers
<1>1. IInv => DmaOnOwnedBuffers
  BY DEF IInv, HwInv, Leads, DmaOnOwnedBuffers
<1>2. QED BY <1>1, Inductive, PTL
=============================================================================
