-------------------------- MODULE CedrusRefinement --------------------------
(***************************************************************************)
(* CedrusJob implements CedrusDevice, for any set of contexts, buffers and *)
(* engines, when interrupt handlers are prompt; and the safety properties  *)
(* of the job path that follow from the same invariants.                   *)
(*                                                                         *)
(* On top of IInv of CedrusJob: Book, the bookkeeping of queues and lists; *)
(* and Prompt, what an interrupt handler that cannot be overtaken may rely *)
(* on.  A handler that is late ends a job it was not entered for, and takes *)
(* its buffers with it, so neither holds without the other.                *)
(***************************************************************************)
EXTENDS CedrusJobProofs, DataLemmas

\* The context can run a job.
Ready(c) == streaming[c] = Queue /\ rdy[c]["src"] # <<>> /\ rdy[c]["dst"] # <<>>

\* A context is in the job queue at most once, marked, and able to run; one that
\* is being cancelled is there only while it runs.
QueueInv ==
  /\ Distinct(jobq)
  /\ \A c \in Members(jobq) :
       /\ "QUEUED" \in flags[c] /\ Ready(c)
       /\ "ABORT" \in flags[c] => "RUNNING" \in flags[c]

\* Nothing is taken from the running context.
JobInv == curr # None => Ready(curr)

\* The ready lists hold active buffers, each once.
ListInv ==
  \A c \in Ctx, q \in Queue :
    /\ Distinct(rdy[c][q])
    /\ \A b \in Members(rdy[c][q]) : vb[c][q][b] = "active"

\* A call that waits for a job keeps new ones off; only open files stream.
CallInv ==
  \A c \in Ctx : /\ user[c] = "close_wait" => "ABORT" \in flags[c]
                 /\ streaming[c] # {} => c \in opened

\* The watchdog finishes the context it read, which cannot have ended its job.
WdInv == wd.pc \in {"reset", "finish"} => wd.ctx = curr

Book == QueueInv /\ JobInv /\ ListInv /\ CallInv /\ WdInv

\* The handler was entered for a status of the running job, which stays until
\* the handler or the watchdog clears it; nothing but the watchdog moves.
HandlerInv ==
  /\ irq.pc # "idle" => run.pc = "idle"
  /\ irq.pc # "unexpected"
  /\ irq.pc = "cancel" /\ wd.pending => irq.ctx = curr
  /\ irq.pc \in {"status", "finish"} => irq.ctx = curr
  /\ irq.pc \in {"read", "cancel"} /\ wd.pending => status[EngineOf[curr]] # "none"
  /\ irq.pc = "status" => status[EngineOf[curr]] # "none"

\* Somebody will end the current job.
WatchedInv == curr # None => RunHolds \/ TimerHolds \/ WdHolds \/ IrqHolds

\* A good status, and a handler that read one, speak of the buffer that leads.
DoneInv ==
  /\ DoneIsDecoded
  /\ curr # None /\ status[EngineOf[curr]] = "ok" =>
       Head(rdy[curr]["dst"]) \in decoded[curr]
  /\ irq.pc = "finish" /\ irq.st = "done" => Head(rdy[curr]["dst"]) \in decoded[curr]

Prompt == HandlerInv /\ WatchedInv /\ DoneInv

-----------------------------------------------------------------------------
(* Sequences without repetitions.                                          *)

\* Taking a context off the job queue takes it off altogether.
LEMMA WithoutMembers ==
  ASSUME NEW S, NEW s \in Seq(S), NEW c, Distinct(s)
  PROVE  /\ Members(Without(s, c)) = Members(s) \ {c}
         /\ Distinct(Without(s, c))
<1>1. CASE \E i \in 1..Len(s) : s[i] = c
  <2> DEFINE k == CHOOSE i \in 1..Len(s) : s[i] = c
             t == SubSeq(s, 1, k - 1)
             u == SubSeq(s, k + 1, Len(s))
  <2>1. k \in 1..Len(s) /\ s[k] = c /\ Len(s) \in Nat
    BY <1>1
  <2>2. Without(s, c) = t \o u
    BY <1>1 DEF Without
  <2> HIDE DEF k
  <2>3. \A i \in 1..Len(s) : s[i] \in S
    BY ElementOfSeq
  <2>4. /\ t \in Seq(S) /\ Len(t) = k - 1
        /\ \A i \in 1..(k - 1) : t[i] = s[i]
    <3>1. \A i \in 1..(k - 1) : s[i] \in S
      BY <2>1, <2>3
    <3>2. 1 \in Int /\ k - 1 \in Int
      BY <2>1
    <3>3. QED BY <2>1, <3>1, <3>2, SubSeqProperties
  <2>5. /\ u \in Seq(S) /\ Len(u) = Len(s) - k
        /\ \A i \in 1..(Len(s) - k) : u[i] = s[k + i]
    <3>1. \A i \in (k + 1)..Len(s) : s[i] \in S
      BY <2>1, <2>3
    <3>2. k + 1 \in Int /\ Len(s) \in Int
      BY <2>1
    <3>3. /\ u \in Seq(S)
          /\ Len(u) = IF k + 1 <= Len(s) THEN Len(s) - (k + 1) + 1 ELSE 0
          /\ \A i \in 1..(Len(s) - (k + 1) + 1) : u[i] = s[(k + 1) + i - 1]
      BY <3>1, <3>2, SubSeqProperties
    <3>4. QED BY <2>1, <3>3
  <2> HIDE DEF t, u
  <2>6. /\ Len(t \o u) = Len(s) - 1
        /\ \A i \in 1..(Len(s) - 1) :
             (t \o u)[i] = IF i < k THEN s[i] ELSE s[i + 1]
    <3>1. /\ t \o u \in Seq(S) /\ Len(t \o u) = Len(t) + Len(u)
          /\ \A i \in 1..(Len(t) + Len(u)) :
               (t \o u)[i] = IF i <= Len(t) THEN t[i] ELSE u[i - Len(t)]
      BY <2>4, <2>5, ConcatProperties
    <3>2. QED BY <2>1, <2>4, <2>5, <3>1
  <2> DEFINE r == t \o u
  <2>7. /\ Len(r) = Len(s) - 1
        /\ \A i \in 1..(Len(s) - 1) : r[i] = IF i < k THEN s[i] ELSE s[i + 1]
    BY <2>6
  <2> HIDE DEF r
  <2>8. Distinct(r)
    BY <2>1, <2>7 DEF Distinct
  <2>9. ASSUME NEW x \in Members(r) PROVE x \in Members(s) \ {c}
    <3>1. PICK i \in 1..(Len(s) - 1) : x = r[i]
      BY <2>7, <2>9 DEF Members
    <3>2. QED BY <2>1, <2>7, <3>1 DEF Members, Distinct
  <2>10. ASSUME NEW x \in Members(s), x # c PROVE x \in Members(r)
    <3>1. PICK i \in 1..Len(s) : x = s[i]
      BY <2>10 DEF Members
    <3>2. i # k
      BY <2>1, <2>10, <3>1
    <3>3. CASE i < k
      <4>1. i \in 1..(Len(s) - 1) /\ r[i] = x
        BY <2>1, <2>7, <3>1, <3>3
      <4>2. QED BY <2>7, <4>1 DEF Members
    <3>4. CASE i > k
      <4>1. i - 1 \in 1..(Len(s) - 1) /\ r[i - 1] = x
        BY <2>1, <2>7, <3>1, <3>4
      <4>2. QED BY <2>7, <4>1 DEF Members
    <3>5. QED BY <2>1, <3>1, <3>2, <3>3, <3>4
  <2>11. QED BY <2>2, <2>8, <2>9, <2>10 DEF r
<1>2. CASE ~ \E i \in 1..Len(s) : s[i] = c
  BY <1>2 DEF Without, Members
<1>3. QED BY <1>1, <1>2

-----------------------------------------------------------------------------
(* The operators of the mem2mem framework.                                 *)

\* The part of the types these proofs need at hand.
LEMMA Types ==
  ASSUME TypeOK
  PROVE  /\ flags \in [Ctx -> SUBSET Flag] /\ jobq \in Seq(Ctx)
         /\ rdy \in [Ctx -> [Queue -> Seq(Bufs)]]
         /\ vb \in [Ctx -> [Queue -> [Bufs -> BufState]]]
         /\ streaming \in [Ctx -> SUBSET Queue] /\ curr \in Ctx \cup {None}
         /\ user \in [Ctx -> UserPc] /\ decoded \in [Ctx -> SUBSET Bufs]
         /\ status \in [Engines -> {"none", "ok", "err"}]
         /\ Members(jobq) \subseteq Ctx
<1>1. jobq \in Seq(Ctx)
  BY DEF TypeOK
<1>2. \A i \in 1..Len(jobq) : jobq[i] \in Ctx
  BY <1>1, ElementOfSeq
<1>3. QED BY <1>1, <1>2 DEF TypeOK, Flag, Members

\* Queueing a job of a context that is able to run.
LEMMA TryQueueKeeps ==
  ASSUME TypeOK, QueueInv, NEW c \in Ctx, NEW on, NEW lists, TryQueue(c, on, lists),
         \A d \in Ctx : Ready(d) => Ready(d)',
         Queueable(c, on, lists, flags[c]) => Ready(c)'
  PROVE  /\ QueueInv'
         /\ \A d \in Ctx : "ABORT" \in flags'[d] <=> "ABORT" \in flags[d]
<1>1. CASE Queueable(c, on, lists, flags[c])
  <2>1. /\ flags' = [flags EXCEPT ![c] = flags[c] \cup {"QUEUED"}]
        /\ jobq' = Append(jobq, c) /\ Ready(c)'
        /\ "QUEUED" \notin flags[c] /\ "ABORT" \notin flags[c]
    BY <1>1 DEF TryQueue, Queueable
  <2>2. c \notin Members(jobq)
    BY <2>1 DEF QueueInv
  <2>3. Members(jobq') = Members(jobq) \cup {c} /\ Distinct(jobq')
    BY <2>1, <2>2, Types, AppendMembers DEF QueueInv
  <2>4. \A d \in Ctx : flags'[d] = IF d = c THEN flags[c] \cup {"QUEUED"} ELSE flags[d]
    BY <2>1, Types
  <2>5. ASSUME NEW d \in Members(jobq')
        PROVE  /\ "QUEUED" \in flags'[d] /\ Ready(d)'
               /\ "ABORT" \in flags'[d] => "RUNNING" \in flags'[d]
    BY <2>1, <2>3, <2>4, <2>5, Types DEF QueueInv
  <2>6. QED BY <2>3, <2>4, <2>5 DEF QueueInv, Members, Distinct
<1>2. CASE ~Queueable(c, on, lists, flags[c])
  <2>1. UNCHANGED <<flags, jobq>>
    BY <1>2 DEF TryQueue
  <2>2. QED BY <2>1, Types DEF QueueInv, Members, Distinct
<1>3. QED BY <1>1, <1>2

\* Cancelling marks the context, and leaves it in the queue only if it runs.
LEMMA CancelKeeps ==
  ASSUME TypeOK, QueueInv, NEW c \in Ctx, CancelJob(c), UNCHANGED <<streaming, rdy>>
  PROVE  /\ QueueInv' /\ "ABORT" \in flags'[c]
         /\ \A d \in Ctx : "ABORT" \in flags[d] => "ABORT" \in flags'[d]
<1>1. \A d : Ready(d)' <=> Ready(d)
  BY DEF Ready
<1>2. CASE "RUNNING" \in flags[c]
  <2>1. flags' = [flags EXCEPT ![c] = flags[c] \cup {"ABORT"}] /\ jobq' = jobq
    BY <1>2 DEF CancelJob
  <2>2. \A d \in Ctx : flags'[d] = IF d = c THEN flags[c] \cup {"ABORT"} ELSE flags[d]
    BY <2>1, Types
  <2>3. QED BY <1>1, <1>2, <2>1, <2>2, Types DEF QueueInv, Members, Distinct
<1>3. CASE "RUNNING" \notin flags[c]
  <2>1. /\ flags' = [flags EXCEPT ![c] = (flags[c] \cup {"ABORT"}) \ {"QUEUED"}]
        /\ jobq' = Without(jobq, c)
    BY <1>3 DEF CancelJob
  <2>2. Members(jobq') = Members(jobq) \ {c} /\ Distinct(jobq')
    BY <2>1, Types, WithoutMembers DEF QueueInv
  <2>3. \A d \in Ctx : flags'[d] = IF d = c THEN (flags[c] \cup {"ABORT"}) \ {"QUEUED"}
                                             ELSE flags[d]
    BY <2>1, Types
  <2>4. \A d \in Members(jobq') : /\ "QUEUED" \in flags'[d] /\ Ready(d)'
                                  /\ "ABORT" \in flags'[d] => "RUNNING" \in flags'[d]
    BY <1>1, <2>2, <2>3, Types DEF QueueInv
  <2>5. QED BY <2>2, <2>3, <2>4 DEF QueueInv, Members, Distinct
<1>4. QED BY <1>2, <1>3

\* Making the head of the job queue current.
LEMMA TryRunKeeps ==
  ASSUME TypeOK, QueueInv, JobInv, None \notin Ctx, NEW by, TryRun(by),
         UNCHANGED <<streaming, rdy, jobq>>
  PROVE  /\ QueueInv' /\ JobInv'
         /\ \A d \in Ctx : "ABORT" \in flags'[d] <=> "ABORT" \in flags[d]
         /\ \A d \in Ctx : user'[d] = user[d] \/ user'[d] \in {"idle", "running"}
         /\ UNCHANGED <<curr, run>>
            \/ /\ curr = None /\ curr' \in Ctx /\ Ready(curr') /\ run'.pc = "configure"
<1>0. \A d : Ready(d)' <=> Ready(d)
  BY DEF Ready
<1>1. \A d \in Ctx : user'[d] = user[d] \/ user'[d] \in {"idle", "running"}
  <2>1. user' \in {user} \cup {[user EXCEPT ![by] = "idle"], [user EXCEPT ![by] = "running"]}
    BY DEF TryRun
  <2>2. QED BY <2>1, Types
<1>2. CASE curr # None \/ jobq = <<>>
  <2>1. UNCHANGED <<curr, flags, run>>
    BY <1>2 DEF TryRun
  <2>2. QED BY <1>0, <1>1, <2>1 DEF QueueInv, JobInv, Members, Distinct
<1>3. CASE curr = None /\ jobq # <<>>
  <2> DEFINE c == Head(jobq)
  <2>1. c \in Members(jobq) /\ c \in Ctx
    BY <1>3, Types, TailMembers
  <2>2. Ready(c)
    BY <2>1 DEF QueueInv
  <2>3. /\ curr' = c /\ flags' = [flags EXCEPT ![c] = flags[c] \cup {"RUNNING"}]
        /\ run'.pc = "configure"
    BY <1>3, <2>2 DEF TryRun, Ready
  <2> HIDE DEF c
  <2>4. \A d \in Ctx : flags'[d] = IF d = c THEN flags[c] \cup {"RUNNING"} ELSE flags[d]
    BY <2>1, <2>3, Types
  <2>5. QueueInv'
    <3>1. Members(jobq)' = Members(jobq) /\ (Distinct(jobq)' <=> Distinct(jobq))
      BY DEF Members, Distinct
    <3>2. ASSUME NEW d \in Members(jobq)
          PROVE  /\ "QUEUED" \in flags'[d] /\ Ready(d)'
                 /\ "ABORT" \in flags'[d] => "RUNNING" \in flags'[d]
      BY <1>0, <2>4, <3>2, Types DEF QueueInv
    <3>3. QED BY <3>1, <3>2 DEF QueueInv
  <2>6. JobInv'
    BY <2>2, <2>3, <1>0 DEF JobInv
  <2>7. \A d \in Ctx : "ABORT" \in flags'[d] <=> "ABORT" \in flags[d]
    BY <2>4
  <2>8. curr = None /\ curr' \in Ctx /\ Ready(curr') /\ run'.pc = "configure"
    BY <1>3, <2>1, <2>2, <2>3
  <2>9. QED BY <1>1, <2>5, <2>6, <2>7, <2>8
<1>4. QED BY <1>2, <1>3
\* Ending the current job gives back one buffer of each list, and leaves the
\* context in the queue only if it can run again.
LEMMA FinishKeeps ==
  ASSUME TypeOK, None \notin Ctx, QueueInv, JobInv, ListInv, curr \in Ctx,
         NEW st \in {"done", "error"}, JobFinish(curr, st), UNCHANGED streaming
  PROVE  /\ vb' = [vb EXCEPT ![curr]["src"][Head(rdy[curr]["src"])] = st,
                             ![curr]["dst"][Head(rdy[curr]["dst"])] = st]
         /\ rdy' = [rdy EXCEPT ![curr] = [q \in Queue |-> Tail(rdy[curr][q])]]
         /\ \A d \in Ctx, q \in Queue, b \in Bufs :
              vb'[d][q][b] = IF d = curr /\ b = Head(rdy[curr][q]) THEN st ELSE vb[d][q][b]
         /\ curr' = None /\ work' = TRUE
         /\ QueueInv' /\ ListInv'
         /\ \A d \in Ctx : "ABORT" \in flags'[d] <=> "ABORT" \in flags[d]
<1> DEFINE c == curr
           rest == [q \in Queue |-> Tail(rdy[c][q])]
           left == flags[c] \ {"QUEUED", "RUNNING"}
           again == Queueable(c, streaming[c], rest, left)
           x == IF again THEN left \cup {"QUEUED"} ELSE left
<1>1. Ready(c) /\ c \in Ctx /\ c = curr
  BY DEF JobInv
<1>2. /\ rdy' = [rdy EXCEPT ![c] = rest]
      /\ vb' = [vb EXCEPT ![c]["src"][Head(rdy[c]["src"])] = st,
                          ![c]["dst"][Head(rdy[c]["dst"])] = st]
      /\ flags' = [flags EXCEPT ![c] = x]
      /\ jobq' = IF again THEN Append(Without(jobq, c), c) ELSE Without(jobq, c)
      /\ curr' = None /\ work' = TRUE
  BY <1>1 DEF JobFinish, EndJob, Ready
<1>3. /\ "ABORT" \in x <=> "ABORT" \in flags[c]
      /\ again => "QUEUED" \in x /\ "ABORT" \notin x /\ streaming[c] = Queue
                  /\ rest["src"] # <<>> /\ rest["dst"] # <<>>
  BY DEF Queueable
<1> HIDE DEF x, again, left
<1>4. \A q \in Queue : /\ rdy[c][q] # <<>> /\ rdy[c][q] \in Seq(Bufs)
                       /\ Head(rdy[c][q]) \in Bufs /\ rest[q] = Tail(rdy[c][q])
  <2>1. ASSUME NEW q \in Queue PROVE rdy[c][q] # <<>> /\ rdy[c][q] \in Seq(Bufs)
    BY <1>1, <2>1, Types DEF Ready, Queue
  <2>2. QED BY <2>1, TailMembers
<1>5. \A d \in Ctx, q \in Queue : rdy'[d][q] = IF d = c THEN Tail(rdy[c][q]) ELSE rdy[d][q]
  BY <1>1, <1>2, <1>4, Types
<1>6. \A d \in Ctx, q \in Queue, b \in Bufs :
        vb'[d][q][b] = IF d = c /\ b = Head(rdy[c][q]) THEN st ELSE vb[d][q][b]
  <2> DEFINE s == Head(rdy[c]["src"])
             t == Head(rdy[c]["dst"])
             v == [vb EXCEPT ![c]["src"][s] = st]
  <2>1. s \in Bufs /\ t \in Bufs
    BY <1>4 DEF Queue
  <2>2. vb' = [v EXCEPT ![c]["dst"][t] = st]
    BY <1>2
  <2>3. v \in [Ctx -> [Queue -> [Bufs -> BufState]]]
    BY <1>1, <2>1, Types DEF BufState, Queue
  <2>4. \A d \in Ctx, q \in Queue, b \in Bufs :
          v[d][q][b] = IF d = c /\ q = "src" /\ b = s THEN st ELSE vb[d][q][b]
    BY <1>1, <2>1, Types DEF Queue
  <2> HIDE DEF v, s, t
  <2>5. \A d \in Ctx, q \in Queue, b \in Bufs :
          vb'[d][q][b] = IF d = c /\ q = "dst" /\ b = t THEN st ELSE v[d][q][b]
    BY <1>1, <2>1, <2>2, <2>3 DEF Queue
  <2>6. QED BY <2>4, <2>5 DEF s, t, Queue
<1> HIDE DEF c, rest
<1>7. ListInv'
  <2>1. ASSUME NEW d \in Ctx, NEW q \in Queue
        PROVE  /\ Distinct(rdy'[d][q])
               /\ \A b \in Members(rdy'[d][q]) : vb'[d][q][b] = "active"
    <3>0. rdy[d][q] \in Seq(Bufs) /\ rdy[c][q] \in Seq(Bufs)
      BY <1>1, Types
    <3>1. CASE d = c
      <4>1. rdy'[d][q] = Tail(rdy[c][q])
        BY <1>5, <3>1
      <4>2. /\ Distinct(Tail(rdy[c][q]))
            /\ Head(rdy[c][q]) \notin Members(Tail(rdy[c][q]))
            /\ Members(Tail(rdy[c][q])) \subseteq Members(rdy[c][q])
        BY <1>1, <1>4, TailMembers DEF ListInv
      <4>3. Members(rdy[c][q]) \subseteq Bufs
        BY <3>0, ElementOfSeq DEF Members
      <4>4. QED BY <1>1, <1>6, <3>1, <4>1, <4>2, <4>3 DEF ListInv
    <3>2. CASE d # c
      <4>1. rdy'[d][q] = rdy[d][q]
        BY <1>5, <3>2
      <4>2. Members(rdy[d][q]) \subseteq Bufs
        BY <3>0, ElementOfSeq DEF Members
      <4>3. QED BY <1>6, <3>2, <4>1, <4>2 DEF ListInv
    <3>3. QED BY <3>1, <3>2
  <2>2. QED BY <2>1 DEF ListInv, Members, Distinct
<1>8. QueueInv'
  <2>1. /\ Members(Without(jobq, c)) = Members(jobq) \ {c}
        /\ Distinct(Without(jobq, c)) /\ Without(jobq, c) \in Seq(Ctx)
    BY Types, WithoutMembers, WithoutType DEF QueueInv
  <2>2. Distinct(jobq') /\ Members(jobq') \subseteq Members(jobq) \cup {c}
        /\ (c \in Members(jobq') => again)
    <3>1. CASE again
      BY <1>1, <1>2, <2>1, <3>1, AppendMembers
    <3>2. CASE ~again
      BY <1>2, <2>1, <3>2
    <3>3. QED BY <3>1, <3>2
  <2>3. \A d \in Ctx : flags'[d] = IF d = c THEN x ELSE flags[d]
    BY <1>1, <1>2, Types
  <2>4. ASSUME NEW d \in Members(jobq')
        PROVE  /\ "QUEUED" \in flags'[d] /\ Ready(d)'
               /\ "ABORT" \in flags'[d] => "RUNNING" \in flags'[d]
    <3>1. CASE d = c
      <4>1. rdy'[c]["src"] = rest["src"] /\ rdy'[c]["dst"] = rest["dst"]
        BY <1>1, <1>4, <1>5 DEF Queue
      <4>2. QED BY <1>1, <1>3, <2>2, <2>3, <2>4, <3>1, <4>1 DEF Ready
    <3>2. CASE d # c
      <4>1. d \in Members(jobq) /\ d \in Ctx
        BY <2>2, <2>4, <3>2, Types
      <4>2. rdy'[d]["src"] = rdy[d]["src"] /\ rdy'[d]["dst"] = rdy[d]["dst"]
        BY <1>5, <3>2, <4>1 DEF Queue
      <4>3. Ready(d)'
        BY <4>1, <4>2 DEF Ready, QueueInv
      <4>4. QED BY <2>3, <3>2, <4>1, <4>3 DEF QueueInv
    <3>3. QED BY <3>1, <3>2
  <2>5. QED BY <2>2, <2>4 DEF QueueInv, Members, Distinct
<1>9. \A d \in Ctx : "ABORT" \in flags'[d] <=> "ABORT" \in flags[d]
  BY <1>1, <1>2, <1>3, Types
<1>10. QED BY <1>2, <1>6, <1>7, <1>8, <1>9 DEF c, rest
-----------------------------------------------------------------------------
(* The calls of the users' threads.                                        *)

RInv == IInv /\ Book /\ Prompt

\* A step of another thread than the watchdog's: no handler is in progress.
LEMMA NoHandler ==
  ASSUME PromptIrq, Schedulable, irq' = irq, WatchedInv', DoneInv'
  PROVE  Prompt'
<1>1. irq.pc = "idle"
  BY DEF Schedulable
<1>2. QED BY <1>1 DEF Prompt, HandlerInv

\* Done buffers and the leading buffer of the current context are left alone.
LEMMA DoneFrame ==
  ASSUME TypeOK, DoneInv, irq.pc # "finish", irq' = irq, status' = status, curr' = curr,
         \A c \in Ctx, b \in Bufs :
           vb'[c]["dst"][b] = "done" => /\ vb[c]["dst"][b] = "done"
                                        /\ b \in decoded[c] => b \in decoded'[c],
         curr \in Ctx =>
           /\ Head(rdy'[curr]["dst"]) = Head(rdy[curr]["dst"])
           /\ Head(rdy[curr]["dst"]) \in decoded[curr] =>
                Head(rdy[curr]["dst"]) \in decoded'[curr]
  PROVE  DoneInv'
<1>1. DoneIsDecoded'
  BY DEF DoneInv, DoneIsDecoded
<1>2. curr # None => curr \in Ctx
  BY Types
<1>3. QED BY <1>1, <1>2 DEF DoneInv

\* Steps that leave the framework's state alone.
LEMMA BookFrame ==
  ASSUME Book, UNCHANGED <<streaming, vb, rdy, flags, jobq, curr>>,
         opened \subseteq opened',
         \A c \in Ctx : user'[c] = "close_wait" => user[c] = "close_wait",
         WdInv'
  PROVE  Book'
<1>1. QueueInv' /\ JobInv' /\ ListInv'
  BY DEF Book, QueueInv, JobInv, ListInv, Members, Distinct, Ready
<1>2. CallInv'
  BY DEF Book, CallInv
<1>3. QED BY <1>1, <1>2 DEF Book

\* VIDIOC_QBUF lists a buffer that was not listed.
LEMMA QBufKeeps ==
  ASSUME JobAssumption, PromptIrq, RInv, NEW c \in Ctx, NEW q \in Queue, NEW b \in Bufs,
         QBuf(c, q, b)
  PROVE  Book' /\ Prompt'
<1> DEFINE lists == [rdy[c] EXCEPT ![q] = Append(rdy[c][q], b)]
<1>0. TypeOK /\ Book /\ Prompt /\ Schedulable /\ irq.pc = "idle" /\ irq' = irq
  BY DEF RInv, IInv, QBuf, Schedulable
<1>1. /\ rdy' = [rdy EXCEPT ![c] = lists] /\ vb[c][q][b] # "active"
      /\ vb' = [vb EXCEPT ![c][q][b] = "active"]
      /\ TryQueue(c, streaming[c], lists)
      /\ user' = [user EXCEPT ![c] = "try_run"]
      /\ decoded' = [decoded EXCEPT ![c] = IF q = "dst" THEN @ \ {b} ELSE @]
      /\ UNCHANGED <<opened, streaming, curr, run, wd, irq, status>>
  BY DEF QBuf, fileVars
<1>2. rdy[c][q] \in Seq(Bufs) /\ rdy[c] \in [Queue -> Seq(Bufs)]
  BY <1>0, Types
<1>3. \A d \in Ctx, p \in Queue :
        rdy'[d][p] = IF d = c /\ p = q THEN Append(rdy[c][q], b) ELSE rdy[d][p]
  BY <1>0, <1>1, <1>2, Types
<1>4. rdy'[c] = lists
  BY <1>0, <1>1, Types
<1> HIDE DEF lists
<1>5. /\ Members(Append(rdy[c][q], b)) = Members(rdy[c][q]) \cup {b}
      /\ Append(rdy[c][q], b) # <<>>
      /\ rdy[c][q] # <<>> => Head(Append(rdy[c][q], b)) = Head(rdy[c][q])
      /\ Distinct(Append(rdy[c][q], b))
  <2>1. Distinct(rdy[c][q]) /\ b \notin Members(rdy[c][q])
    BY <1>0, <1>1 DEF Book, ListInv
  <2>2. QED BY <1>2, <2>1, AppendMembers
<1>6. \A d \in Ctx : Ready(d) => Ready(d)'
  BY <1>1, <1>3, <1>5 DEF Ready, Queue
<1>7. QueueInv' /\ \A d \in Ctx : "ABORT" \in flags'[d] <=> "ABORT" \in flags[d]
  <2>1. Queueable(c, streaming[c], lists, flags[c]) => Ready(c)'
    BY <1>1, <1>4 DEF Queueable, Ready
  <2>2. QED BY <1>0, <1>1, <1>6, <2>1, TryQueueKeeps DEF Book
<1>8. JobInv'
  BY <1>0, <1>1, <1>6, Types DEF Book, JobInv
<1>9. \A d \in Ctx, p \in Queue, x \in Bufs :
        vb'[d][p][x] = IF d = c /\ p = q /\ x = b THEN "active" ELSE vb[d][p][x]
  BY <1>0, <1>1, Types
<1>10. ListInv'
  <2>1. ASSUME NEW d \in Ctx, NEW p \in Queue
        PROVE  /\ Distinct(rdy'[d][p])
               /\ \A x \in Members(rdy'[d][p]) : vb'[d][p][x] = "active"
    <3>1. Members(rdy[d][p]) \subseteq Bufs
      BY <1>0, Types, ElementOfSeq DEF Members
    <3>2. QED BY <1>0, <1>3, <1>5, <1>9, <3>1 DEF Book, ListInv
  <2>2. QED BY <2>1 DEF ListInv, Members, Distinct
<1>11. CallInv' /\ WdInv'
  BY <1>0, <1>1, <1>7, Types DEF Book, CallInv, WdInv
<1>12. DoneInv'
  <2>1. \A d \in Ctx, x \in Bufs :
          vb'[d]["dst"][x] = "done" => /\ vb[d]["dst"][x] = "done"
                                       /\ x \in decoded[d] => x \in decoded'[d]
    BY <1>0, <1>1, <1>9, Types DEF Queue
  <2>2. ASSUME curr \in Ctx
        PROVE  /\ Head(rdy'[curr]["dst"]) = Head(rdy[curr]["dst"])
               /\ Head(rdy[curr]["dst"]) \in decoded[curr] =>
                    Head(rdy[curr]["dst"]) \in decoded'[curr]
    <3>1. rdy[curr]["dst"] # <<>> /\ rdy[curr]["dst"] \in Seq(Bufs)
      BY <1>0, <2>2, Types DEF Book, JobInv, Ready, Queue, JobAssumption
    <3>2. Head(rdy[curr]["dst"]) \in Members(rdy[curr]["dst"])
      BY <3>1, TailMembers
    <3>3. vb[curr]["dst"][Head(rdy[curr]["dst"])] = "active"
      BY <1>0, <2>2, <3>2 DEF Book, ListInv, Queue
    <3>4. QED BY <1>0, <1>1, <1>3, <1>5, <2>2, <3>1, <3>3, Types DEF Queue
  <2>3. QED BY <1>0, <1>1, <2>1, <2>2, DoneFrame DEF Prompt
<1>13. WatchedInv'
  BY <1>0, <1>1 DEF Prompt, WatchedInv, RunHolds, TimerHolds, WdHolds, IrqHolds
<1>14. QED BY <1>0, <1>7, <1>8, <1>10, <1>11, <1>12, <1>13, NoHandler DEF Book
\* VIDIOC_STREAMON may queue a job.
LEMMA StreamOnKeeps ==
  ASSUME JobAssumption, PromptIrq, RInv, NEW c \in Ctx, NEW q \in Queue, StreamOn(c, q)
  PROVE  Book' /\ Prompt'
<1>0. TypeOK /\ Book /\ Prompt /\ Schedulable /\ irq.pc = "idle" /\ irq' = irq
  BY DEF RInv, IInv, StreamOn, Schedulable
<1>1. /\ streaming' = [streaming EXCEPT ![c] = streaming[c] \cup {q}] /\ c \in opened
      /\ TryQueue(c, streaming[c] \cup {q}, rdy[c])
      /\ user' = [user EXCEPT ![c] = "try_run"]
      /\ UNCHANGED <<opened, vb, rdy, curr, run, wd, irq, status, decoded>>
  BY DEF StreamOn, hwVars
<1>2. \A d \in Ctx : streaming'[d] = IF d = c THEN streaming[c] \cup {q} ELSE streaming[d]
  BY <1>0, <1>1, Types
<1>3. \A d \in Ctx : Ready(d) => Ready(d)'
  BY <1>1, <1>2 DEF Ready, Queue
<1>4. QueueInv' /\ \A d \in Ctx : "ABORT" \in flags'[d] <=> "ABORT" \in flags[d]
  <2>1. Queueable(c, streaming[c] \cup {q}, rdy[c], flags[c]) => Ready(c)'
    BY <1>1, <1>2 DEF Queueable, Ready
  <2>2. QED BY <1>0, <1>1, <1>3, <2>1, TryQueueKeeps DEF Book
<1>5. JobInv' /\ ListInv'
  BY <1>0, <1>1, <1>3, Types DEF Book, JobInv, ListInv, Members, Distinct
<1>6. CallInv' /\ WdInv'
  BY <1>0, <1>1, <1>2, <1>4, Types DEF Book, CallInv, WdInv
<1>7. DoneInv'
  BY <1>0, <1>1, DoneFrame DEF Prompt
<1>8. WatchedInv'
  BY <1>0, <1>1 DEF Prompt, WatchedInv, RunHolds, TimerHolds, WdHolds, IrqHolds
<1>9. QED BY <1>0, <1>4, <1>5, <1>6, <1>7, <1>8, NoHandler DEF Book

\* A call that cancels the job of its context before it waits.
LEMMA CancelStepKeeps ==
  ASSUME JobAssumption, PromptIrq, RInv, NEW c \in Ctx, CancelJob(c), Schedulable,
         NEW pc, user' = [user EXCEPT ![c] = pc],
         UNCHANGED <<fileVars, vb, rdy, curr, work, run, wd, irq, hwVars>>
  PROVE  Book' /\ Prompt'
<1>0. TypeOK /\ Book /\ Prompt /\ irq.pc = "idle" /\ irq' = irq
  BY DEF RInv, IInv, Schedulable
<1>1. UNCHANGED <<opened, streaming, vb, rdy, curr, run, wd, irq, status, decoded>>
  BY DEF fileVars, hwVars
<1>2. /\ QueueInv' /\ "ABORT" \in flags'[c]
      /\ \A d \in Ctx : "ABORT" \in flags[d] => "ABORT" \in flags'[d]
  BY <1>0, <1>1, CancelKeeps DEF Book
<1>3. JobInv' /\ ListInv'
  BY <1>0, <1>1 DEF Book, JobInv, ListInv, Members, Distinct, Ready
<1>4. CallInv' /\ WdInv'
  BY <1>0, <1>1, <1>2, Types DEF Book, CallInv, WdInv
<1>5. DoneInv'
  BY <1>0, <1>1, DoneFrame DEF Prompt
<1>6. WatchedInv'
  BY <1>0, <1>1 DEF Prompt, WatchedInv, RunHolds, TimerHolds, WdHolds, IrqHolds
<1>7. QED BY <1>0, <1>2, <1>3, <1>4, <1>5, <1>6, NoHandler DEF Book

\* Looking for the next job, in an ioctl or in job_work.
LEMMA TryRunStepKeeps ==
  ASSUME JobAssumption, PromptIrq, RInv, NEW by, TryRun(by), Schedulable,
         UNCHANGED <<fileVars, vb, rdy, jobq, wd, irq, hwVars>>
  PROVE  Book' /\ Prompt'
<1>0. TypeOK /\ Book /\ Prompt /\ irq.pc = "idle" /\ irq' = irq /\ None \notin Ctx
  BY DEF RInv, IInv, Schedulable, JobAssumption
<1>1. UNCHANGED <<opened, streaming, vb, rdy, wd, irq, status, decoded>>
  BY DEF fileVars, hwVars
<1>2. /\ QueueInv' /\ JobInv'
      /\ \A d \in Ctx : "ABORT" \in flags'[d] <=> "ABORT" \in flags[d]
      /\ \A d \in Ctx : user'[d] = user[d] \/ user'[d] \in {"idle", "running"}
      /\ UNCHANGED <<curr, run>>
         \/ /\ curr = None /\ curr' \in Ctx /\ Ready(curr') /\ run'.pc = "configure"
  BY <1>0, <1>1, TryRunKeeps DEF Book
<1>3. ListInv'
  BY <1>0, <1>1 DEF Book, ListInv, Members, Distinct
<1>4. CallInv'
  <2>1. ASSUME NEW d \in Ctx, user'[d] = "close_wait" PROVE "ABORT" \in flags'[d]
    <3>1. user[d] = "close_wait"
      BY <1>2, <2>1
    <3>2. QED BY <1>0, <1>2, <3>1 DEF Book, CallInv
  <2>2. QED BY <1>0, <1>1, <2>1 DEF Book, CallInv
<1>5. curr = None => wd.pc = "idle" /\ status = NoStatus
  BY <1>0, NobodyHolds DEF RInv, IInv, Core, Quiet
<1>6. WdInv'
  BY <1>0, <1>1, <1>2, <1>5 DEF Book, WdInv
<1>7. DoneInv'
  <2>1. CASE UNCHANGED <<curr, run>>
    BY <1>0, <1>1, <2>1, DoneFrame DEF Prompt
  <2>2. CASE curr = None /\ curr' \in Ctx
    <3>1. \A e \in Engines : status'[e] # "ok"
      BY <1>1, <1>5, <2>2 DEF NoStatus
    <3>2. EngineOf[curr'] \in Engines
      BY <2>2 DEF JobAssumption
    <3>3. QED BY <1>0, <1>1, <3>1, <3>2 DEF Prompt, DoneInv, DoneIsDecoded
  <2>3. QED BY <1>2, <2>1, <2>2
<1>8. WatchedInv'
  BY <1>0, <1>1, <1>2 DEF Prompt, WatchedInv, RunHolds, TimerHolds, WdHolds, IrqHolds
<1>9. QED BY <1>0, <1>2, <1>3, <1>4, <1>6, <1>7, <1>8, NoHandler DEF Book

\* A queue stops only after the job of its context.
LEMMA StreamOffEndKeeps ==
  ASSUME JobAssumption, PromptIrq, RInv, NEW c \in Ctx, NEW q \in Queue,
         StreamOffEnd(c, q)
  PROVE  Book' /\ Prompt' /\ curr # c /\ curr' = curr
<1>0. /\ TypeOK /\ RunningIsCurrent /\ Book /\ Prompt /\ Schedulable
      /\ irq.pc = "idle" /\ irq' = irq
  BY DEF RInv, IInv, StreamOffEnd, Schedulable
<1>1. curr # c
  BY <1>0 DEF StreamOffEnd, RunningIsCurrent
<1>2. /\ streaming' = [streaming EXCEPT ![c] = streaming[c] \ {q}]
      /\ vb' = [vb EXCEPT ![c][q] =
                  [b \in Bufs |-> IF vb[c][q][b] = "active" THEN "error" ELSE vb[c][q][b]]]
      /\ rdy' = [rdy EXCEPT ![c][q] = <<>>]
      /\ flags' = [flags EXCEPT ![c] = {}]
      /\ jobq' = Without(jobq, c)
      /\ curr' = curr
      /\ user' = [user EXCEPT ![c] = "idle"]
      /\ UNCHANGED <<opened, run, wd, irq, status, decoded>>
  BY <1>1 DEF StreamOffEnd, hwVars
<1>3. \A d \in Ctx : d # c => /\ rdy'[d] = rdy[d] /\ vb'[d] = vb[d] /\ flags'[d] = flags[d]
                              /\ streaming'[d] = streaming[d] /\ user'[d] = user[d]
  BY <1>0, <1>2, Types
<1>4. \A p \in Queue : /\ rdy'[c][p] = IF p = q THEN <<>> ELSE rdy[c][p]
                       /\ p # q => vb'[c][p] = vb[c][p]
  BY <1>0, <1>2, Types
<1>5. \A b \in Bufs : vb'[c][q][b] = IF vb[c][q][b] = "active" THEN "error" ELSE vb[c][q][b]
  BY <1>0, <1>2, Types
<1>6. streaming'[c] \subseteq streaming[c] /\ user'[c] = "idle"
  BY <1>0, <1>2, Types
<1>7. QueueInv'
  <2>1. Members(jobq') = Members(jobq) \ {c} /\ Distinct(jobq')
    BY <1>0, <1>2, Types, WithoutMembers DEF Book, QueueInv
  <2>2. \A d \in Members(jobq') : /\ "QUEUED" \in flags'[d] /\ Ready(d)'
                                  /\ "ABORT" \in flags'[d] => "RUNNING" \in flags'[d]
    BY <1>0, <1>3, <2>1, Types DEF Book, QueueInv, Ready
  <2>3. QED BY <2>1, <2>2 DEF QueueInv, Members, Distinct
<1>8. JobInv'
  BY <1>0, <1>1, <1>2, <1>3, Types DEF Book, JobInv, Ready
<1>9. ListInv'
  <2>1. ASSUME NEW d \in Ctx, NEW p \in Queue
        PROVE  /\ Distinct(rdy'[d][p])
               /\ \A b \in Members(rdy'[d][p]) : vb'[d][p][b] = "active"
    <3>1. CASE d = c /\ p = q
      BY <1>4, <3>1 DEF Distinct, Members
    <3>2. CASE ~(d = c /\ p = q)
      <4>1. rdy'[d][p] = rdy[d][p] /\ vb'[d][p] = vb[d][p]
        BY <1>3, <1>4, <3>2
      <4>2. QED BY <1>0, <4>1 DEF Book, ListInv
    <3>3. QED BY <3>1, <3>2
  <2>2. QED BY <2>1 DEF ListInv, Members, Distinct
<1>10. CallInv' /\ WdInv'
  BY <1>0, <1>2, <1>3, <1>6 DEF Book, CallInv, WdInv
<1>11. DoneInv'
  <2>1. ASSUME NEW d \in Ctx, NEW b \in Bufs, vb'[d]["dst"][b] = "done"
        PROVE  vb[d]["dst"][b] = "done" /\ (b \in decoded[d] => b \in decoded'[d])
    BY <1>2, <1>3, <1>4, <1>5, <2>1 DEF Queue
  <2>2. QED BY <1>0, <1>1, <1>2, <1>3, <2>1, DoneFrame DEF Prompt
<1>12. WatchedInv'
  BY <1>0, <1>2 DEF Prompt, WatchedInv, RunHolds, TimerHolds, WdHolds, IrqHolds
<1>13. QED BY <1>0, <1>1, <1>2, <1>7, <1>8, <1>9, <1>10, <1>11, <1>12, NoHandler DEF Book

\* A context is freed only after its job.
LEMMA CloseFreeKeeps ==
  ASSUME JobAssumption, PromptIrq, RInv, NEW c \in Ctx, CloseFree(c)
  PROVE  Book' /\ Prompt' /\ curr # c
<1>0. /\ TypeOK /\ RunningIsCurrent /\ Book /\ Prompt /\ Schedulable
      /\ irq.pc = "idle" /\ irq' = irq
  BY DEF RInv, IInv, CloseFree, Schedulable
<1>1. curr # c /\ c \notin Members(jobq)
  BY <1>0 DEF CloseFree, RunningIsCurrent, Book, CallInv, QueueInv
<1>2. /\ opened' = opened \ {c}
      /\ streaming' = [streaming EXCEPT ![c] = {}]
      /\ vb' = [vb EXCEPT ![c] = [q \in Queue |-> [b \in Bufs |-> "user"]]]
      /\ rdy' = [rdy EXCEPT ![c] = [q \in Queue |-> <<>>]]
      /\ flags' = [flags EXCEPT ![c] = {}]
      /\ user' = [user EXCEPT ![c] = "idle"]
      /\ decoded' = [decoded EXCEPT ![c] = {}]
      /\ UNCHANGED <<jobq, curr, run, wd, irq, status>>
  BY DEF CloseFree
<1>3. \A d \in Ctx : d # c => /\ rdy'[d] = rdy[d] /\ vb'[d] = vb[d] /\ flags'[d] = flags[d]
                              /\ streaming'[d] = streaming[d] /\ user'[d] = user[d]
                              /\ decoded'[d] = decoded[d]
  BY <1>0, <1>2, Types
<1>4. /\ \A p \in Queue : rdy'[c][p] = <<>> /\ \A b \in Bufs : vb'[c][p][b] = "user"
      /\ streaming'[c] = {} /\ user'[c] = "idle"
  BY <1>0, <1>2, Types
<1>5. QueueInv'
  <2>1. \A d \in Members(jobq) : /\ "QUEUED" \in flags'[d] /\ Ready(d)'
                                 /\ "ABORT" \in flags'[d] => "RUNNING" \in flags'[d]
    BY <1>0, <1>1, <1>3, Types DEF Book, QueueInv, Ready
  <2>2. QED BY <1>0, <1>2, <2>1 DEF Book, QueueInv, Members, Distinct
<1>6. JobInv'
  BY <1>0, <1>1, <1>2, <1>3, Types DEF Book, JobInv, Ready
<1>7. ListInv'
  <2>1. ASSUME NEW d \in Ctx, NEW p \in Queue
        PROVE  /\ Distinct(rdy'[d][p])
               /\ \A b \in Members(rdy'[d][p]) : vb'[d][p][b] = "active"
    <3>1. CASE d = c
      BY <1>4, <3>1 DEF Distinct, Members
    <3>2. CASE d # c
      BY <1>0, <1>3, <3>2 DEF Book, ListInv
    <3>3. QED BY <3>1, <3>2
  <2>2. QED BY <2>1 DEF ListInv, Members, Distinct
<1>8. CallInv' /\ WdInv'
  BY <1>0, <1>2, <1>3, <1>4 DEF Book, CallInv, WdInv
<1>9. DoneInv'
  <2>1. ASSUME NEW d \in Ctx, NEW b \in Bufs, vb'[d]["dst"][b] = "done"
        PROVE  vb[d]["dst"][b] = "done" /\ (b \in decoded[d] => b \in decoded'[d])
    BY <1>3, <1>4, <2>1 DEF Queue
  <2>2. QED BY <1>0, <1>1, <1>2, <1>3, <2>1, DoneFrame DEF Prompt
<1>10. WatchedInv'
  BY <1>0, <1>2 DEF Prompt, WatchedInv, RunHolds, TimerHolds, WdHolds, IrqHolds
<1>11. QED BY <1>0, <1>1, <1>5, <1>6, <1>7, <1>8, <1>9, <1>10, NoHandler DEF Book
-----------------------------------------------------------------------------
(* Running, watching and finishing a job.                                  *)

\* Handing the job's buffers back, whoever does.
LEMMA FinishStepKeeps ==
  ASSUME JobAssumption, RInv, curr \in Ctx, NEW st \in {"done", "error"},
         JobFinish(curr, st), UNCHANGED <<streaming, opened, decoded>>,
         st = "done" => Head(rdy[curr]["dst"]) \in decoded[curr],
         \A d \in Ctx : user'[d] = "close_wait" => user[d] = "close_wait",
         wd'.pc \notin {"reset", "finish"}, irq'.pc # "finish"
  PROVE  Book' /\ WatchedInv' /\ DoneInv' /\ curr' = None
<1>0. TypeOK /\ Book /\ Prompt /\ None \notin Ctx
  BY DEF RInv, IInv, JobAssumption
<1>1. /\ \A d \in Ctx, q \in Queue, b \in Bufs :
           vb'[d][q][b] = IF d = curr /\ b = Head(rdy[curr][q]) THEN st ELSE vb[d][q][b]
      /\ curr' = None /\ work' = TRUE
      /\ QueueInv' /\ ListInv'
      /\ \A d \in Ctx : "ABORT" \in flags'[d] <=> "ABORT" \in flags[d]
  BY <1>0, FinishKeeps DEF Book
<1>2. JobInv' /\ WatchedInv' /\ WdInv'
  BY <1>1 DEF JobInv, WatchedInv, WdInv
<1>3. CallInv'
  BY <1>0, <1>1 DEF Book, CallInv
<1>4. DoneIsDecoded'
  BY <1>0, <1>1 DEF Prompt, DoneInv, DoneIsDecoded, Queue
<1>5. DoneInv'
  BY <1>1, <1>4 DEF DoneInv
<1>6. QED BY <1>1, <1>2, <1>3, <1>5 DEF Book

\* device_run works on the head of the lists.
LEMMA RunStepKeeps ==
  ASSUME JobAssumption, PromptIrq, RInv, RunStep
  PROVE  Book' /\ Prompt'
<1>0. /\ TypeOK /\ OneFinisher /\ RunInv /\ Book /\ Prompt /\ Schedulable
      /\ irq.pc = "idle" /\ None \notin Ctx
  BY DEF RInv, IInv, RunStep, RunConfigure, RunFail, RunArm, RunTrigger, Schedulable,
         JobAssumption
<1>1. run.pc # "idle" => run.ctx \in Ctx /\ curr = run.ctx
  BY <1>0 DEF RunInv
<1>2. RunReturns => \A d \in Ctx : user'[d] = user[d] \/ user'[d] = "idle"
  <2>1. RunReturns => user' = [user EXCEPT ![run.by] = "idle"] \/ user' = user
    BY DEF RunReturns
  <2>2. QED BY <1>0, <2>1, Types
<1>3. CASE RunFail
  <2>1. JobFinish(curr, "error") /\ curr \in Ctx
    BY <1>1, <1>3 DEF RunFail
  <2>2. /\ UNCHANGED <<streaming, opened, decoded, wd, irq>>
        /\ \A d \in Ctx : user'[d] = "close_wait" => user[d] = "close_wait"
    BY <1>2, <1>3 DEF RunFail, fileVars, hwVars
  <2>3. wd.pc = "idle"
    BY <1>0, <1>3 DEF RunFail, OneFinisher, RunHolds, WdHolds
  <2>4. QED BY <1>0, <2>1, <2>2, <2>3, FinishStepKeeps, NoHandler
<1>4. CASE RunConfigure \/ RunArm \/ RunTrigger
  <2>1. /\ UNCHANGED <<streaming, opened, decoded, vb, rdy, flags, jobq, curr, irq, status>>
        /\ wd'.pc = wd.pc /\ wd'.ctx = wd.ctx
        /\ \A d \in Ctx : user'[d] = "close_wait" => user[d] = "close_wait"
    BY <1>0, <1>2, <1>4 DEF RunConfigure, RunArm, RunTrigger, fileVars, m2mVars, hwVars, TypeOK
  <2>2. WdInv'
    BY <1>0, <2>1 DEF Book, WdInv
  <2>3. Book'
    BY <1>0, <2>1, <2>2, BookFrame
  <2>4. DoneInv'
    BY <1>0, <2>1, DoneFrame DEF Prompt
  <2>5. WatchedInv'
    <3>1. CASE RunConfigure
      BY <1>0, <2>1, <3>1 DEF RunConfigure, Prompt, WatchedInv, RunHolds, TimerHolds,
                              WdHolds, IrqHolds, TypeOK
    <3>2. CASE RunArm
      BY <1>0, <3>2 DEF RunArm, TypeOK, WatchedInv, TimerHolds
    <3>3. CASE RunTrigger
      BY <1>0, <2>1, <3>3 DEF RunTrigger, Prompt, WatchedInv, RunHolds, TimerHolds,
                              WdHolds, IrqHolds
    <3>4. QED BY <1>4, <3>1, <3>2, <3>3
  <2>6. QED BY <1>0, <2>1, <2>3, <2>4, <2>5, NoHandler
<1>5. QED BY <1>3, <1>4 DEF RunStep

\* The hardware answers for the job it executes.
LEMMA HwCompleteKeeps ==
  ASSUME JobAssumption, RInv, NEW st \in {"ok", "err"}, HwComplete(st)
  PROVE  Book' /\ Prompt'
<1>0. TypeOK /\ HwInv /\ Book /\ Prompt
  BY DEF RInv, IInv
<1>1. /\ hw.ctx \in Ctx /\ curr = hw.ctx /\ Leads(hw.ctx, hw.src, hw.dst)
      /\ status = NoStatus /\ irq.pc # "finish"
  BY <1>0 DEF HwInv, HwComplete, Quiet
<1>2. /\ status' = [status EXCEPT ![EngineOf[curr]] = st]
      /\ decoded' = IF st = "ok"
                    THEN [decoded EXCEPT ![curr] = decoded[curr] \cup {hw.dst}] ELSE decoded
      /\ UNCHANGED <<streaming, opened, vb, rdy, flags, jobq, curr, user, run, wd, irq>>
  BY <1>1 DEF HwComplete, fileVars, m2mVars
<1>3. status'[EngineOf[curr]] = st
  BY <1>0, <1>1, <1>2, Types DEF JobAssumption
<1>4. Book'
  BY <1>0, <1>2, BookFrame DEF Book, WdInv
<1>5. HandlerInv'
  BY <1>0, <1>2, <1>3 DEF Prompt, HandlerInv
<1>6. WatchedInv'
  BY <1>0, <1>2 DEF Prompt, WatchedInv, RunHolds, TimerHolds, WdHolds, IrqHolds
<1>7. DoneInv'
  <2>1. \A d \in Ctx : decoded[d] \subseteq decoded'[d]
    BY <1>0, <1>1, <1>2, Types
  <2>2. st = "ok" => Head(rdy[curr]["dst"]) \in decoded'[curr]
    BY <1>0, <1>1, <1>2, Types DEF Leads
  <2>3. QED BY <1>0, <1>1, <1>2, <1>3, <2>1, <2>2 DEF Prompt, DoneInv, DoneIsDecoded
<1>8. QED BY <1>4, <1>5, <1>6, <1>7 DEF Prompt

\* The watchdog ends the current job.
LEMMA WatchdogKeeps ==
  ASSUME JobAssumption, RInv, WdExpire \/ WdStep
  PROVE  Book' /\ Prompt'
<1>0. TypeOK /\ OneFinisher /\ CarriedContexts /\ Book /\ Prompt /\ None \notin Ctx
  BY DEF RInv, IInv, JobAssumption
<1>1. CASE WdExpire \/ WdRead
  <2>1. /\ UNCHANGED <<streaming, opened, decoded, vb, rdy, flags, jobq, curr, user, run,
                       irq, status>>
        /\ wd.pc # "idle" \/ wd.pending
    BY <1>1 DEF WdExpire, WdRead, fileVars, m2mVars, hwVars
  <2>2. /\ curr # None /\ ~IrqHolds /\ ~wd'.pending /\ wd'.pc # "idle"
        /\ wd'.pc \in {"reset", "finish"} => wd'.ctx = curr
    <3>1. curr # None /\ ~IrqHolds
      BY <1>0, <2>1 DEF OneFinisher, TimerHolds, WdHolds
    <3>2. CASE WdExpire
      BY <3>1, <3>2 DEF WdExpire
    <3>3. CASE WdRead
      <4>1. ~wd.pending
        BY <1>0, <3>3 DEF WdRead, OneFinisher, TimerHolds, WdHolds
      <4>2. wd' = [wd EXCEPT !.pc = "reset", !.ctx = curr]
        BY <3>1, <3>3 DEF WdRead
      <4>3. QED BY <1>0, <3>1, <4>1, <4>2 DEF TypeOK
    <3>4. QED BY <1>1, <3>2, <3>3
  <2>3. Book'
    BY <1>0, <2>1, <2>2, BookFrame DEF WdInv
  <2>4. HandlerInv' /\ WatchedInv'
    BY <1>0, <2>1, <2>2 DEF Prompt, HandlerInv, WatchedInv, IrqHolds, WdHolds
  <2>5. DoneInv'
    BY <1>0, <2>1, <2>2, DoneFrame DEF Prompt, IrqHolds
  <2>6. QED BY <2>3, <2>4, <2>5 DEF Prompt
<1>2. CASE WdReset
  <2>1. /\ UNCHANGED <<streaming, opened, decoded, vb, rdy, flags, jobq, curr, user, run, irq>>
        /\ status' = NoStatus /\ wd.pc = "reset"
        /\ wd'.pc = "finish" /\ wd'.ctx = wd.ctx /\ wd'.pending = wd.pending
    BY <1>0, <1>2 DEF WdReset, fileVars, m2mVars, TypeOK
  <2>2. curr # None /\ ~IrqHolds /\ ~wd.pending
    BY <1>0, <2>1 DEF OneFinisher, TimerHolds, WdHolds
  <2>3. Book'
    BY <1>0, <2>1, BookFrame DEF Book, WdInv
  <2>4. HandlerInv' /\ WatchedInv'
    BY <1>0, <2>1, <2>2 DEF Prompt, HandlerInv, WatchedInv, IrqHolds, WdHolds
  <2>5. curr \in Ctx => status'[EngineOf[curr]] = "none"
    BY <2>1 DEF NoStatus, JobAssumption
  <2>6. curr \in Ctx
    BY <1>0, <2>2, Types
  <2>7. DoneInv'
    BY <1>0, <2>1, <2>2, <2>5, <2>6 DEF Prompt, DoneInv, DoneIsDecoded, IrqHolds
  <2>8. QED BY <2>3, <2>4, <2>7 DEF Prompt
<1>3. CASE WdFinish
  <2>1. /\ wd.pc = "finish" /\ wd.ctx = curr /\ curr \in Ctx
        /\ JobFinish(curr, "error")
        /\ wd'.pc = "idle" /\ wd'.pending = wd.pending
        /\ UNCHANGED <<streaming, opened, decoded, user, run, irq, status>>
    BY <1>0, <1>3 DEF WdFinish, fileVars, hwVars, Book, WdInv, CarriedContexts, TypeOK
  <2>2. ~IrqHolds /\ ~wd.pending
    BY <1>0, <2>1 DEF OneFinisher, TimerHolds, WdHolds
  <2>3. Book' /\ WatchedInv' /\ DoneInv'
    BY <2>1, <2>2, FinishStepKeeps DEF IrqHolds
  <2>4. HandlerInv'
    BY <1>0, <2>1, <2>2 DEF Prompt, HandlerInv, IrqHolds
  <2>5. QED BY <2>3, <2>4 DEF Prompt
<1>4. QED BY <1>1, <1>2, <1>3 DEF WdStep
\* The handler ends the job it was entered for.
LEMMA IrqKeeps ==
  ASSUME JobAssumption, RInv, IrqEnter \/ IrqStep
  PROVE  Book' /\ Prompt'
<1>0. /\ TypeOK /\ OneFinisher /\ CarriedContexts /\ RunInv /\ HwInv
      /\ Book /\ Prompt /\ None \notin Ctx
  BY DEF RInv, IInv, JobAssumption
<1> DEFINE Rest == UNCHANGED <<streaming, opened, vb, rdy, flags, jobq, curr, user, run, decoded>>
<1>1. ASSUME Rest, wd'.pc = wd.pc, wd'.ctx = wd.ctx PROVE Book'
  BY <1>0, <1>1, BookFrame DEF Book, WdInv
<1>2. CASE IrqEnter
  <2>1. /\ Rest /\ UNCHANGED <<wd, status>> /\ irq.pc = "idle" /\ irq'.pc = "read"
    BY <1>0, <1>2 DEF IrqEnter, fileVars, m2mVars, hwVars, TypeOK
  <2>2. curr # None /\ status[EngineOf[curr]] # "none" /\ run.pc = "idle"
    BY <1>0, <1>2 DEF IrqEnter, HwInv, RunInv, Quiet, NoStatus
  <2>3. Book'
    BY <1>1, <2>1
  <2>4. HandlerInv'
    BY <2>1, <2>2 DEF HandlerInv
  <2>5. WatchedInv' /\ DoneInv'
    BY <1>0, <2>1 DEF Prompt, WatchedInv, DoneInv, DoneIsDecoded, RunHolds, TimerHolds,
                      WdHolds, IrqHolds
  <2>6. QED BY <2>3, <2>4, <2>5 DEF Prompt
<1>3. CASE IrqRead
  <2>1. /\ Rest /\ UNCHANGED <<wd, status>> /\ irq.pc = "read"
        /\ irq'.pc = "cancel" /\ irq'.ctx = curr
    BY <1>0, <1>3 DEF IrqRead, fileVars, m2mVars, hwVars, TypeOK
  <2>2. Book'
    BY <1>1, <2>1
  <2>3. HandlerInv'
    BY <1>0, <2>1 DEF Prompt, HandlerInv
  <2>4. WatchedInv' /\ DoneInv'
    BY <1>0, <2>1 DEF Prompt, WatchedInv, DoneInv, DoneIsDecoded, RunHolds, TimerHolds,
                      WdHolds, IrqHolds
  <2>5. QED BY <2>2, <2>3, <2>4 DEF Prompt
<1>4. CASE IrqCancel
  <2>1. /\ Rest /\ status' = status /\ irq.pc = "cancel"
        /\ wd'.pc = wd.pc /\ wd'.ctx = wd.ctx /\ ~wd'.pending
        /\ irq'.ctx = irq.ctx
        /\ irq'.pc = IF ~wd.pending THEN "spurious"
                     ELSE IF irq.ctx = None THEN "unexpected" ELSE "status"
    BY <1>0, <1>4 DEF IrqCancel, fileVars, m2mVars, hwVars, TypeOK
  <2>2. Book'
    BY <1>1, <2>1
  <2>3. CASE wd.pending
    <3>1. curr # None /\ irq.ctx = curr /\ status[EngineOf[curr]] # "none"
          /\ run.pc = "idle"
      BY <1>0, <2>1, <2>3 DEF OneFinisher, TimerHolds, Prompt, HandlerInv
    <3>2. HandlerInv' /\ WatchedInv'
      BY <2>1, <2>3, <3>1 DEF HandlerInv, WatchedInv, IrqHolds
    <3>3. DoneInv'
      BY <1>0, <2>1, <2>3, <3>1 DEF Prompt, DoneInv, DoneIsDecoded
    <3>4. QED BY <2>2, <3>2, <3>3 DEF Prompt
  <2>4. CASE ~wd.pending
    <3>1. HandlerInv' /\ WatchedInv'
      BY <1>0, <2>1, <2>4 DEF Prompt, HandlerInv, WatchedInv, RunHolds, TimerHolds,
                              WdHolds, IrqHolds
    <3>2. DoneInv'
      BY <1>0, <2>1, <2>4 DEF Prompt, DoneInv, DoneIsDecoded
    <3>3. QED BY <2>2, <3>1, <3>2 DEF Prompt
  <2>5. QED BY <2>3, <2>4
<1>5. CASE IrqSpurious
  <2>1. /\ Rest /\ wd' = wd /\ irq.pc = "spurious" /\ irq'.pc = "idle"
        /\ \A e \in Engines : status'[e] = status[e] \/ status'[e] = "none"
    BY <1>0, <1>5 DEF IrqSpurious, fileVars, m2mVars, IdleIrq, Prompt, HandlerInv
  <2>2. Book'
    BY <1>1, <2>1
  <2>3. HandlerInv' /\ WatchedInv'
    BY <1>0, <2>1 DEF Prompt, HandlerInv, WatchedInv, RunHolds, TimerHolds, WdHolds, IrqHolds
  <2>4. curr # None => EngineOf[curr] \in Engines
    BY <1>0, Types DEF JobAssumption
  <2>5. DoneInv'
    BY <1>0, <2>1, <2>4 DEF Prompt, DoneInv, DoneIsDecoded
  <2>6. QED BY <2>2, <2>3, <2>5 DEF Prompt
<1>6. CASE IrqStatus
  <2> DEFINE st == status[EngineOf[irq.ctx]]
  <2>1. irq.pc = "status" /\ irq.ctx = curr /\ curr \in Ctx /\ st # "none"
    BY <1>0, <1>6, Types DEF IrqStatus, Prompt, HandlerInv, OneFinisher, IrqHolds
  <2>2. /\ Rest /\ wd' = wd /\ irq'.pc = "finish" /\ irq'.ctx = curr
        /\ irq'.st = IF st = "err" THEN "error" ELSE "done"
        /\ status' = [status EXCEPT ![EngineOf[curr]] = "none"]
    BY <1>0, <1>6, <2>1 DEF IrqStatus, fileVars, m2mVars, TypeOK
  <2>3. status'[EngineOf[curr]] = "none" /\ st \in {"ok", "err"} /\ run.pc = "idle"
    BY <1>0, <2>1, <2>2, Types DEF JobAssumption, Prompt, HandlerInv
  <2>4. Book'
    BY <1>1, <2>2
  <2>5. HandlerInv' /\ WatchedInv'
    BY <2>2, <2>3 DEF HandlerInv, WatchedInv, IrqHolds
  <2>6. DoneInv'
    BY <1>0, <2>1, <2>2, <2>3 DEF Prompt, DoneInv, DoneIsDecoded
  <2>7. QED BY <2>4, <2>5, <2>6 DEF Prompt
<1>7. CASE IrqFinish
  <2>1. /\ irq.pc = "finish" /\ irq.ctx = curr /\ curr \in Ctx
        /\ irq.st \in {"done", "error"} /\ JobFinish(curr, irq.st)
        /\ irq'.pc = "idle"
        /\ UNCHANGED <<streaming, opened, decoded, user, run, wd>>
    BY <1>0, <1>7, Types DEF IrqFinish, fileVars, hwVars, IdleIrq, Prompt, HandlerInv,
                             OneFinisher, IrqHolds, CarriedContexts, TypeOK
  <2>2. wd.pc = "idle"
    BY <1>0, <2>1 DEF OneFinisher, WdHolds, IrqHolds
  <2>3. irq.st = "done" => Head(rdy[curr]["dst"]) \in decoded[curr]
    BY <1>0, <2>1 DEF Prompt, DoneInv
  <2>4. Book' /\ WatchedInv' /\ DoneInv'
    BY <2>1, <2>2, <2>3, FinishStepKeeps
  <2>5. HandlerInv'
    BY <2>1 DEF HandlerInv
  <2>6. QED BY <2>4, <2>5 DEF Prompt
<1>8. QED BY <1>2, <1>3, <1>4, <1>5, <1>6, <1>7 DEF IrqStep

(***************************************************************************)
(* The invariant.                                                          *)
(***************************************************************************)

\* Calls of users.
LEMMA UserKeeps ==
  ASSUME JobAssumption, PromptIrq, RInv, NEW c \in Ctx, UserCall(c) \/ UserStep(c)
  PROVE  Book' /\ Prompt'
<1>0. TypeOK /\ Book /\ Prompt
  BY DEF RInv, IInv
<1>1. CASE Open(c) \/ CloseActiveClear(c) \/ CloseCtrls(c)
  <2>1. /\ UNCHANGED <<streaming, vb, rdy, flags, jobq, curr, run, wd, irq, status, decoded>>
        /\ opened \subseteq opened' /\ Schedulable
    BY <1>1 DEF Open, CloseActiveClear, CloseCtrls, m2mVars, hwVars
  <2>2. \A d \in Ctx : user'[d] = "close_wait" => user[d] = "close_wait"
    <3>1. user' = user \/ user' = [user EXCEPT ![c] = "close_ctrls"]
          \/ user' = [user EXCEPT ![c] = "close_cancel"]
      BY <1>1 DEF Open, CloseActiveClear, CloseCtrls
    <3>2. QED BY <1>0, <3>1, Types
  <2>3. Book'
    BY <1>0, <2>1, <2>2, BookFrame DEF Book, WdInv
  <2>4. WatchedInv'
    BY <1>0, <2>1 DEF Prompt, WatchedInv, RunHolds, TimerHolds, WdHolds, IrqHolds
  <2>5. DoneInv'
    BY <1>0, <2>1 DEF Prompt, DoneInv, DoneIsDecoded
  <2>6. QED BY <2>1, <2>3, <2>4, <2>5, NoHandler
<1>2. ASSUME NEW q \in Queue, NEW b \in Bufs, QBuf(c, q, b) PROVE Book' /\ Prompt'
  BY <1>2, QBufKeeps
<1>3. ASSUME NEW q \in Queue, StreamOn(c, q) PROVE Book' /\ Prompt'
  BY <1>3, StreamOnKeeps
<1>4. ASSUME NEW q \in Queue, StreamOffBegin(c, q) PROVE Book' /\ Prompt'
  BY <1>4, CancelStepKeeps DEF StreamOffBegin
<1>5. CASE IoctlTryRun(c)
  BY <1>5, TryRunStepKeeps DEF IoctlTryRun
<1>6. ASSUME NEW q \in Queue, StreamOffEnd(c, q) PROVE Book' /\ Prompt'
  BY <1>6, StreamOffEndKeeps
<1>7. CASE CloseCancel(c)
  BY <1>7, CancelStepKeeps DEF CloseCancel
<1>8. CASE CloseFree(c)
  BY <1>8, CloseFreeKeeps
<1>9. QED BY <1>1, <1>2, <1>3, <1>4, <1>5, <1>6, <1>7, <1>8 DEF UserCall, UserStep

\* The invariant holds at the start.
LEMMA RInvInit == ASSUME JobAssumption, Init PROVE RInv
<1>1. IInv
  BY InitInv
<1>2. Book
  BY DEF Init, JobAssumption, Book, QueueInv, JobInv, ListInv, CallInv, WdInv, Members, Distinct
<1>3. Prompt
  <2>1. HandlerInv /\ WatchedInv
    BY DEF Init, HandlerInv, WatchedInv, IdleIrq
  <2>2. DoneIsDecoded
    BY DEF Init, DoneIsDecoded, Queue
  <2>3. curr = None /\ irq.pc = "idle"
    BY DEF Init, IdleIrq
  <2>4. QED BY <2>1, <2>2, <2>3 DEF Prompt, DoneInv
<1>4. QED BY <1>1, <1>2, <1>3 DEF RInv

\* Every step keeps the invariant.
LEMMA RInvNext == ASSUME JobAssumption, PromptIrq, RInv, [Next]_vars PROVE RInv'
<1>1. IInv'
  BY NextInv DEF RInv
<1>2. CASE Next
  <2>1. ASSUME NEW c \in Ctx, UserCall(c) \/ UserStep(c) PROVE Book' /\ Prompt'
    BY <2>1, UserKeeps
  <2>2. ASSUME WorkTryRun PROVE Book' /\ Prompt'
    <3>1. /\ TryRun("work") /\ Schedulable
          /\ UNCHANGED <<fileVars, vb, rdy, jobq, wd, irq, hwVars>>
      BY <2>2 DEF WorkTryRun
    <3>2. QED BY <3>1, TryRunStepKeeps
  <2>3. Book' /\ Prompt'
    BY <1>2, <2>1, <2>2, RunStepKeeps, HwCompleteKeeps, WatchdogKeeps, IrqKeeps DEF Next
  <2>4. QED BY <1>1, <2>3 DEF RInv
<1>3. CASE UNCHANGED vars
  <2>1. Book'
    BY <1>3, BookFrame DEF RInv, Book, WdInv, vars
  <2>2. Prompt'
    BY <1>3 DEF RInv, Prompt, HandlerInv, WatchedInv, DoneInv, DoneIsDecoded, vars,
                RunHolds, TimerHolds, WdHolds, IrqHolds
  <2>3. QED BY <1>1, <2>1, <2>2 DEF RInv
<1>4. QED BY <1>2, <1>3
-----------------------------------------------------------------------------
(* The refinement.                                                         *)

\* Giving back the buffers of the current job is the device's Finish.
LEMMA FinishIsFinish ==
  ASSUME TypeOK, Book, None \notin Ctx, curr \in Ctx, NEW st \in {"done", "error"},
         JobFinish(curr, st), UNCHANGED <<streaming, decoded>>,
         st = "done" => Head(rdy[curr]["dst"]) \in decoded[curr]
  PROVE  Device!Finish(st)
<1>1. /\ vb' = [vb EXCEPT ![curr]["src"][Head(rdy[curr]["src"])] = st,
                          ![curr]["dst"][Head(rdy[curr]["dst"])] = st]
      /\ rdy' = [rdy EXCEPT ![curr] = [q \in Queue |-> Tail(rdy[curr][q])]]
      /\ curr' = None
  BY FinishKeeps DEF Book
<1>2. curr # None
  OBVIOUS
<1>3. QED BY <1>1, <1>2 DEF Device!Finish, Device!Queue, Queue

\* Every step of the job path is one of the device, or none.
LEMMA DeviceStep ==
  ASSUME JobAssumption, PromptIrq, RInv, [Next]_vars
  PROVE  [Device!Next]_(Device!vars)
<1> DEFINE Stutter == UNCHANGED <<streaming, vb, rdy, curr, decoded>>
<1>0. /\ TypeOK /\ OneFinisher /\ CarriedContexts /\ RunInv /\ HwInv
      /\ Book /\ Prompt /\ None \notin Ctx
  BY DEF RInv, IInv, JobAssumption
<1>1. ASSUME Stutter PROVE [Device!Next]_(Device!vars)
  BY <1>1 DEF Device!vars
<1>2. ASSUME NEW st \in {"done", "error"}, Device!Finish(st)
      PROVE  [Device!Next]_(Device!vars)
  BY <1>2 DEF Device!Next
<1>3. ASSUME NEW by, TryRun(by), UNCHANGED <<streaming, vb, rdy, jobq, decoded>>
      PROVE  [Device!Next]_(Device!vars)
  <2>1. \/ curr' = curr
        \/ curr = None /\ curr' \in Ctx /\ Ready(curr')
    BY <1>0, <1>3, TryRunKeeps DEF Book
  <2>2. CASE curr' = curr
    BY <1>1, <1>3, <2>2
  <2>3. CASE curr = None /\ curr' \in Ctx /\ Ready(curr')
    <3>1. Device!Start(curr')
      BY <1>3, <2>3 DEF Device!Start, Device!Queue, Queue, Ready
    <3>2. QED BY <2>3, <3>1 DEF Device!Next
  <2>4. QED BY <2>1, <2>2, <2>3
<1>4. ASSUME NEW c \in Ctx, UserCall(c) \/ UserStep(c)
      PROVE  [Device!Next]_(Device!vars)
  <2>1. CASE Open(c) \/ CloseActiveClear(c) \/ CloseCtrls(c) \/ CloseCancel(c)
    BY <1>1, <2>1 DEF Open, CloseActiveClear, CloseCtrls, CloseCancel, m2mVars, hwVars,
                      fileVars
  <2>2. ASSUME NEW q \in Queue, NEW b \in Bufs, QBuf(c, q, b)
        PROVE  [Device!Next]_(Device!vars)
    <3>1. rdy' = [rdy EXCEPT ![c][q] = Append(@, b)]
      BY <1>0, <2>2, Types DEF QBuf
    <3>2. Device!QueueBuffer(c, q, b)
      BY <2>2, <3>1 DEF QBuf, fileVars, Device!QueueBuffer
    <3>3. q \in Device!Queue
      BY DEF Queue, Device!Queue
    <3>4. QED BY <3>2, <3>3 DEF Device!Next
  <2>3. ASSUME NEW q \in Queue, StreamOn(c, q)
        PROVE  [Device!Next]_(Device!vars)
    <3>1. Device!StreamOn(c, q) /\ q \in Device!Queue
      BY <2>3 DEF StreamOn, hwVars, Device!StreamOn, Queue, Device!Queue
    <3>2. QED BY <3>1 DEF Device!Next
  <2>4. ASSUME NEW q \in Queue, StreamOffBegin(c, q)
        PROVE  [Device!Next]_(Device!vars)
    BY <1>1, <2>4 DEF StreamOffBegin, fileVars, hwVars
  <2>5. CASE IoctlTryRun(c)
    BY <1>3, <2>5 DEF IoctlTryRun, fileVars, hwVars
  <2>6. ASSUME NEW q \in Queue, StreamOffEnd(c, q)
        PROVE  [Device!Next]_(Device!vars)
    <3>1. curr # c /\ curr' = curr
      BY <2>6, StreamOffEndKeeps
    <3>2. Device!StreamOff(c, q) /\ q \in Device!Queue
      BY <2>6, <3>1 DEF StreamOffEnd, hwVars, Device!StreamOff, Queue, Device!Queue
    <3>3. QED BY <3>2 DEF Device!Next
  <2>7. CASE CloseFree(c)
    <3>1. curr # c
      BY <2>7, CloseFreeKeeps
    <3>2. Device!Close(c)
      BY <2>7, <3>1 DEF CloseFree, Device!Close, Device!AllUser, Device!NoLists, Queue,
                        Device!Queue
    <3>3. QED BY <3>2 DEF Device!Next
  <2>8. QED BY <1>4, <2>1, <2>2, <2>3, <2>4, <2>5, <2>6, <2>7 DEF UserCall, UserStep
<1>5. CASE WorkTryRun
  <2>1. TryRun("work") /\ UNCHANGED <<streaming, vb, rdy, jobq, decoded>>
    BY <1>5 DEF WorkTryRun, fileVars, hwVars
  <2>2. QED BY <1>3, <2>1
<1>6. CASE RunStep
  <2>1. CASE RunConfigure \/ RunArm \/ RunTrigger
    BY <1>1, <2>1 DEF RunConfigure, RunArm, RunTrigger, fileVars, m2mVars, hwVars
  <2>2. CASE RunFail
    <3>1. /\ curr \in Ctx /\ JobFinish(curr, "error")
          /\ UNCHANGED <<streaming, decoded>>
      BY <1>0, <2>2 DEF RunFail, RunInv, fileVars, hwVars
    <3>2. QED BY <1>0, <1>2, <3>1, FinishIsFinish
  <2>3. QED BY <1>6, <2>1, <2>2 DEF RunStep
<1>7. ASSUME NEW st \in {"ok", "err"}, HwComplete(st)
      PROVE  [Device!Next]_(Device!vars)
  <2>1. /\ curr \in Ctx /\ curr = hw.ctx /\ hw.dst = Head(rdy[curr]["dst"])
        /\ UNCHANGED <<streaming, vb, rdy, curr>>
    BY <1>0, <1>7 DEF HwComplete, HwInv, Leads, fileVars, m2mVars
  <2>2. CASE st = "ok"
    <3>1. Device!Decode
      BY <1>0, <1>7, <2>1, <2>2 DEF HwComplete, Device!Decode
    <3>2. QED BY <3>1 DEF Device!Next
  <2>3. CASE st # "ok"
    BY <1>1, <1>7, <2>1, <2>3 DEF HwComplete
  <2>4. QED BY <2>2, <2>3
<1>8. CASE WdExpire \/ WdStep
  <2>1. CASE WdExpire \/ WdRead \/ WdReset
    BY <1>1, <2>1 DEF WdExpire, WdRead, WdReset, fileVars, m2mVars, hwVars
  <2>2. CASE WdFinish
    <3>1. /\ curr \in Ctx /\ JobFinish(curr, "error")
          /\ UNCHANGED <<streaming, decoded>>
      BY <1>0, <2>2 DEF WdFinish, CarriedContexts, Book, WdInv, fileVars, hwVars
    <3>2. QED BY <1>0, <1>2, <3>1, FinishIsFinish
  <2>3. QED BY <1>8, <2>1, <2>2 DEF WdStep
<1>9. CASE IrqEnter \/ IrqStep
  <2>1. CASE IrqEnter \/ IrqRead \/ IrqCancel \/ IrqSpurious \/ IrqStatus
    BY <1>1, <2>1 DEF IrqEnter, IrqRead, IrqCancel, IrqSpurious, IrqStatus, fileVars,
                      m2mVars, hwVars
  <2>2. CASE IrqFinish
    <3>1. /\ irq.pc = "finish" /\ irq.ctx = curr /\ curr \in Ctx
          /\ irq.st \in {"done", "error"} /\ JobFinish(curr, irq.st)
          /\ UNCHANGED <<streaming, decoded>>
      BY <1>0, <2>2 DEF IrqFinish, Prompt, HandlerInv, CarriedContexts, TypeOK, fileVars,
                        hwVars
    <3>2. irq.st = "done" => Head(rdy[curr]["dst"]) \in decoded[curr]
      BY <1>0, <3>1 DEF Prompt, DoneInv
    <3>3. QED BY <1>0, <1>2, <3>1, <3>2, FinishIsFinish
  <2>3. QED BY <1>9, <2>1, <2>2 DEF IrqStep
<1>10. CASE UNCHANGED vars
  BY <1>1, <1>10 DEF vars
<1>11. QED BY <1>4, <1>5, <1>6, <1>7, <1>8, <1>9, <1>10 DEF Next
\* cancel_delayed_work fails only after the watchdog took over.
LEMMA SpuriousStep ==
  ASSUME RInv, irq.pc = "cancel", irq'.pc = "spurious", [Next]_vars
  PROVE  curr = None \/ wd.pc # "idle"
<1>1. TypeOK /\ Prompt
  BY DEF RInv, IInv
<1>2. IrqCancel
  <2>1. ASSUME NEW c \in Ctx, UserCall(c) \/ UserStep(c) PROVE irq' = irq
    BY <2>1 DEF UserCall, UserStep, Open, QBuf, StreamOn, StreamOffBegin, CloseActiveClear,
                IoctlTryRun, StreamOffEnd, CloseCtrls, CloseCancel, CloseFree
  <2>2. WorkTryRun \/ WdExpire \/ WdStep \/ RunStep => irq' = irq
    BY DEF WorkTryRun, WdExpire, WdStep, WdRead, WdReset, WdFinish, RunStep, RunConfigure,
           RunFail, RunArm, RunTrigger
  <2>3. ASSUME NEW st \in {"ok", "err"}, HwComplete(st) PROVE irq' = irq
    BY <2>3 DEF HwComplete
  <2>4. IrqEnter \/ IrqStep
    BY <2>1, <2>2, <2>3 DEF Next, vars
  <2>5. QED
    BY <2>4 DEF IrqEnter, IrqStep, IrqRead, IrqSpurious, IrqStatus, IrqFinish
<1>3. ~wd.pending
  BY <1>1, <1>2 DEF IrqCancel, TypeOK
<1>4. run.pc = "idle"
  BY <1>1 DEF Prompt, HandlerInv
<1>5. QED BY <1>1, <1>3, <1>4 DEF Prompt, WatchedInv, RunHolds, TimerHolds, WdHolds, IrqHolds

\* device_run finds its buffers.
LEMMA NoOopsStep ==
  ASSUME JobAssumption, RInv, NoOops, [Next]_vars
  PROVE  NoOops'
<1>0. TypeOK /\ QueueInv /\ JobInv /\ None \notin Ctx
  BY DEF RInv, IInv, Book, JobAssumption
<1>1. ASSUME NEW by, TryRun(by), UNCHANGED <<streaming, rdy, jobq>> PROVE NoOops'
  <2>1. run' = run \/ run'.pc = "configure"
    BY <1>0, <1>1, TryRunKeeps
  <2>2. QED BY <2>1 DEF NoOops
<1>2. ASSUME NEW c \in Ctx, IoctlTryRun(c) PROVE NoOops'
  BY <1>1, <1>2 DEF IoctlTryRun, fileVars
<1>3. CASE WorkTryRun
  <2>1. TryRun("work") /\ UNCHANGED <<streaming, rdy, jobq>>
    BY <1>3 DEF WorkTryRun, fileVars
  <2>2. QED BY <1>1, <2>1
<1>4. CASE RunStep
  <2>1. CASE RunConfigure
    BY <1>0, <2>1 DEF RunConfigure, NoOops, TypeOK
  <2>2. CASE RunArm
    BY <1>0, <2>2 DEF RunArm, NoOops, TypeOK
  <2>3. CASE RunFail \/ RunTrigger
    <3>1. run' = IdleRun
      BY <2>3 DEF RunFail, RunTrigger, RunReturns
    <3>2. QED BY <3>1 DEF NoOops, IdleRun
  <2>4. QED BY <1>4, <2>1, <2>2, <2>3 DEF RunStep
<1>5. CASE UNCHANGED run
  BY <1>5 DEF NoOops
<1>6. ASSUME NEW c \in Ctx, UserCall(c) \/ UserStep(c) PROVE IoctlTryRun(c) \/ UNCHANGED run
  BY <1>6 DEF UserCall, UserStep, Open, QBuf, StreamOn, StreamOffBegin, CloseActiveClear,
              StreamOffEnd, CloseCtrls, CloseCancel, CloseFree
<1>7. ASSUME NEW st \in {"ok", "err"}, HwComplete(st) PROVE UNCHANGED run
  BY <1>7 DEF HwComplete
<1>8. WdExpire \/ WdStep => UNCHANGED run
  BY DEF WdExpire, WdStep, WdRead, WdReset, WdFinish
<1>9. IrqEnter \/ IrqStep => UNCHANGED run
  BY DEF IrqEnter, IrqStep, IrqRead, IrqCancel, IrqSpurious, IrqStatus, IrqFinish
<1>10. QED
  BY <1>2, <1>3, <1>4, <1>5, <1>6, <1>7, <1>8, <1>9 DEF Next, vars

(***************************************************************************)
(* No job is forgotten; this one makes no use of prompt handlers.          *)
(***************************************************************************)

\* Nothing is taken from an empty queue.
LEMMA WithoutEmpty == ASSUME NEW c PROVE Without(<<>>, c) = <<>>
  BY DEF Without

\* A finished job leaves job_work pending.
LEMMA FinishWakes ==
  ASSUME TypeOK, NEW c \in Ctx, NEW st, JobFinish(c, st)
  PROVE  work' \/ UNCHANGED <<jobq, curr, work>>
<1>1. CASE rdy[c]["src"] = <<>> \/ rdy[c]["dst"] = <<>>
  BY <1>1 DEF JobFinish
<1>2. CASE ~(rdy[c]["src"] = <<>> \/ rdy[c]["dst"] = <<>>)
  <2>1. EndJob(c, [q \in Queue |-> Tail(rdy[c][q])])
    BY <1>2 DEF JobFinish
  <2>2. QED BY <2>1 DEF EndJob
<1>3. QED BY <1>1, <1>2

\* A call that waits for a job finds one that is still to end.
LEMMA WakeupUser ==
  ASSUME JobAssumption, IInv, NoLostWakeup, NEW c \in Ctx, UserCall(c) \/ UserStep(c)
  PROVE  NoLostWakeup'
<1>0. /\ TypeOK /\ RunningIsCurrent /\ None \notin Ctx
      /\ user \in [Ctx -> UserPc]
  BY DEF IInv, TypeOK, JobAssumption
<1>1. ASSUME UNCHANGED <<curr, work>>, jobq = <<>> => jobq' = <<>>,
             user[c] # "try_run", NEW x, user' = [user EXCEPT ![c] = x]
      PROVE  NoLostWakeup'
  BY <1>0, <1>1 DEF NoLostWakeup
<1>2. CASE Open(c)
  BY <1>2 DEF Open, NoLostWakeup, m2mVars
<1>3. ASSUME NEW q \in Queue, NEW b \in Bufs, QBuf(c, q, b) PROVE NoLostWakeup'
  BY <1>0, <1>3 DEF QBuf, NoLostWakeup
<1>4. ASSUME NEW q \in Queue, StreamOn(c, q) PROVE NoLostWakeup'
  BY <1>0, <1>4 DEF StreamOn, NoLostWakeup
<1>5. ASSUME CancelJob(c) PROVE jobq = <<>> => jobq' = <<>>
  BY <1>5, WithoutEmpty DEF CancelJob
<1>6. ASSUME NEW q \in Queue, StreamOffBegin(c, q) PROVE NoLostWakeup'
  BY <1>1, <1>5, <1>6 DEF StreamOffBegin, NodeFree
<1>7. CASE CloseActiveClear(c)
  BY <1>1, <1>7 DEF CloseActiveClear, NodeFree, m2mVars
<1>8. CASE IoctlTryRun(c)
  <2>1. CASE curr # None \/ jobq = <<>>
    BY <1>8, <2>1 DEF IoctlTryRun, TryRun, NoLostWakeup
  <2>2. CASE curr = None /\ jobq # <<>>
    <3>1. Head(jobq) \in Ctx
      BY <1>0, <2>2 DEF TypeOK
    <3>2. curr' = Head(jobq)
      BY <1>8, <2>2 DEF IoctlTryRun, TryRun
    <3>3. QED BY <1>0, <3>1, <3>2 DEF NoLostWakeup
  <2>3. QED BY <2>1, <2>2
<1>9. ASSUME NEW q \in Queue, StreamOffEnd(c, q) PROVE NoLostWakeup'
  <2>1. curr # c
    BY <1>0, <1>9 DEF StreamOffEnd, RunningIsCurrent
  <2>2. UNCHANGED <<curr, work>> /\ jobq' = Without(jobq, c)
    BY <1>9, <2>1 DEF StreamOffEnd
  <2>3. user[c] # "try_run"
    BY <1>9 DEF StreamOffEnd, StreamOffPc
  <2>4. QED BY <1>1, <1>9, <2>2, <2>3, WithoutEmpty DEF StreamOffEnd
<1>10. CASE CloseCtrls(c)
  BY <1>1, <1>10 DEF CloseCtrls, m2mVars
<1>11. CASE CloseCancel(c)
  BY <1>1, <1>5, <1>11 DEF CloseCancel
<1>12. CASE CloseFree(c)
  BY <1>1, <1>12 DEF CloseFree
<1>13. QED
  BY <1>2, <1>3, <1>4, <1>6, <1>7, <1>8, <1>9, <1>10, <1>11, <1>12 DEF UserCall, UserStep

\* Every step keeps whoever waits waiting for something.
LEMMA WakeupStep ==
  ASSUME JobAssumption, IInv, NoLostWakeup, [Next]_vars
  PROVE  NoLostWakeup'
<1>0. /\ TypeOK /\ RunInv /\ CarriedContexts /\ None \notin Ctx
  BY DEF IInv, JobAssumption
<1>1. CASE UNCHANGED <<jobq, curr, work, user>>
  BY <1>1 DEF NoLostWakeup
<1>2. CASE WorkTryRun
  <2>1. CASE curr # None \/ jobq = <<>>
    BY <1>2, <2>1 DEF WorkTryRun, TryRun, NoLostWakeup
  <2>2. CASE curr = None /\ jobq # <<>>
    <3>1. Head(jobq) \in Ctx
      BY <1>0, <2>2 DEF TypeOK
    <3>2. curr' = Head(jobq)
      BY <1>2, <2>2 DEF WorkTryRun, TryRun
    <3>3. QED BY <1>0, <3>1, <3>2 DEF NoLostWakeup
  <2>3. QED BY <2>1, <2>2
<1>3. CASE RunStep
  <2>1. run.ctx \in Ctx /\ curr = run.ctx /\ curr # None
    BY <1>0, <1>3 DEF RunInv, RunStep, RunConfigure, RunFail, RunArm, RunTrigger
  <2>2. CASE RunFail
    <3>1. work' \/ curr' = curr
      BY <1>0, <2>1, <2>2, FinishWakes DEF RunFail
    <3>2. QED BY <2>1, <3>1 DEF NoLostWakeup
  <2>3. CASE RunConfigure \/ RunArm \/ RunTrigger
    <3>1. curr' = curr
      BY <2>3 DEF RunConfigure, RunArm, RunTrigger, m2mVars
    <3>2. QED BY <2>1, <3>1 DEF NoLostWakeup
  <2>4. QED BY <1>3, <2>2, <2>3 DEF RunStep
<1>4. CASE WdFinish
  BY <1>0, <1>4, FinishWakes DEF WdFinish, CarriedContexts, NoLostWakeup
<1>5. CASE IrqFinish
  BY <1>0, <1>5, FinishWakes DEF IrqFinish, CarriedContexts, NoLostWakeup
<1>6. ASSUME NEW st \in {"ok", "err"}, HwComplete(st) PROVE NoLostWakeup'
  BY <1>1, <1>6 DEF HwComplete, m2mVars
<1>7. CASE WdExpire \/ WdRead \/ WdReset
  BY <1>1, <1>7 DEF WdExpire, WdRead, WdReset, m2mVars
<1>8. CASE IrqEnter \/ IrqRead \/ IrqCancel \/ IrqSpurious \/ IrqStatus
  BY <1>1, <1>8 DEF IrqEnter, IrqRead, IrqCancel, IrqSpurious, IrqStatus, m2mVars
<1>9. CASE UNCHANGED vars
  BY <1>1, <1>9 DEF vars
<1>10. QED
  BY <1>2, <1>3, <1>4, <1>5, <1>6, <1>7, <1>8, <1>9, WakeupUser DEF Next, WdStep, IrqStep

(***************************************************************************)
(* The theorems.                                                           *)
(***************************************************************************)

\* The whole invariant, when interrupt handlers are prompt.
THEOREM PromptInductive == PromptIrq => (Spec => []RInv)
<1> SUFFICES ASSUME PromptIrq PROVE Spec => []RInv
  OBVIOUS
<1>1. Init => RInv
  BY RInvInit, JobAssumption
<1>2. RInv /\ [Next]_vars => RInv'
  BY RInvNext, JobAssumption
<1>3. QED BY <1>1, <1>2, PTL DEF Spec

\* The threads, the watchdog and the interrupt handler together behave like the
\* device of CedrusDevice, whose buffers come back in order, in pairs, and as
\* done only when decoded.
THEOREM Refinement == PromptIrq => (Spec => ImplementsDevice)
<1> SUFFICES ASSUME PromptIrq PROVE Spec => Device!Spec
  BY DEF ImplementsDevice
<1>1. Init => Device!Init
  BY DEF Init, Device!Init, Device!AllUser, Device!NoLists, Device!Queue, Queue
<1>2. RInv /\ [Next]_vars => [Device!Next]_(Device!vars)
  BY DeviceStep, JobAssumption
<1>3. Spec => []RInv
  BY PromptInductive
<1>4. QED BY <1>1, <1>2, <1>3, PTL DEF Spec, Device!Spec

\* A capture buffer comes back as done only if the hardware completed it since
\* it was queued.
THEOREM Decoded == PromptIrq => (Spec => []DoneIsDecoded)
<1> SUFFICES ASSUME PromptIrq PROVE Spec => []DoneIsDecoded
  OBVIOUS
<1>1. RInv => DoneIsDecoded
  BY DEF RInv, Prompt, DoneInv
<1>2. Spec => []RInv
  BY PromptInductive
<1>3. QED BY <1>1, <1>2, PTL

\* device_run never follows a null buffer.
THEOREM BuffersFound == PromptIrq => (Spec => []NoOops)
<1> SUFFICES ASSUME PromptIrq PROVE Spec => []NoOops
  OBVIOUS
<1>1. Init => NoOops
  BY DEF Init, IdleRun, NoOops
<1>2. RInv /\ NoOops /\ [Next]_vars => NoOops'
  BY NoOopsStep, JobAssumption
<1>3. Spec => []RInv
  BY PromptInductive
<1>4. QED BY <1>1, <1>2, <1>3, PTL DEF Spec

\* The job's context, its engine memory and the power of the device outlive the
\* job and the handler.
THEOREM Alive == PromptIrq => (Spec => []ContextAlive)
<1> SUFFICES ASSUME PromptIrq PROVE Spec => []ContextAlive
  OBVIOUS
<1>1. RInv => ContextAlive
  <2> SUFFICES ASSUME RInv PROVE ContextAlive
    OBVIOUS
  <2>0. TypeOK /\ OneFinisher /\ Book /\ Prompt
    BY DEF RInv, IInv
  <2>1. irq.pc \in {"status", "finish"} => irq.ctx = curr /\ curr # None
    BY <2>0 DEF Prompt, HandlerInv, OneFinisher, IrqHolds
  <2>2. ASSUME curr # None PROVE curr \in opened /\ EngineMemory(curr) /\ Powered
    <3>1. curr \in Ctx /\ streaming[curr] = Queue
      BY <2>0, <2>2, Types DEF Book, JobInv, Ready
    <3>2. curr \in opened
      BY <2>0, <3>1 DEF Book, CallInv, Queue
    <3>3. EngineMemory(curr)
      BY <3>1 DEF EngineMemory, CodedQueue, Queue
    <3>4. QED BY <3>1, <3>2, <3>3 DEF Powered
  <2>3. QED BY <2>1, <2>2 DEF ContextAlive
<1>2. Spec => []RInv
  BY PromptInductive
<1>3. QED BY <1>1, <1>2, PTL

\* A handler that finds the watchdog gone has nothing to finish: the job has
\* ended or the watchdog is ending it.
THEOREM SpuriousIsWatchdog == PromptIrq => (Spec => SpuriousMeansWatchdog)
<1> SUFFICES ASSUME PromptIrq
             PROVE  Spec => [][irq.pc = "cancel" /\ irq'.pc = "spurious" =>
                                 curr = None \/ wd.pc # "idle"]_vars
  BY DEF SpuriousMeansWatchdog
<1>1. RInv /\ [Next]_vars => [irq.pc = "cancel" /\ irq'.pc = "spurious" =>
                                curr = None \/ wd.pc # "idle"]_vars
  BY SpuriousStep
<1>2. Spec => []RInv
  BY PromptInductive
<1>3. QED BY <1>1, <1>2, PTL DEF Spec
\* A queued job is always somebody's to start: finishing a job leaves job_work
\* pending, and an ioctl that queued one goes on to try_run.
THEOREM Wakeup == Spec => []NoLostWakeup
<1>1. Init => NoLostWakeup
  BY DEF Init, NoLostWakeup
<1>2. IInv /\ NoLostWakeup /\ [Next]_vars => NoLostWakeup'
  BY WakeupStep, JobAssumption
<1>3. Spec => []IInv
  BY Inductive
<1>4. QED BY <1>1, <1>2, <1>3, PTL DEF Spec
(***************************************************************************)
(* What the device promises therefore holds of the driver.                 *)
(***************************************************************************)

Promise == INSTANCE CedrusDeviceProofs
             WITH on <- streaming, state <- vb, list <- rdy, job <- curr

\* What the device keeps, step by step.
LEMMA PromiseStep ==
  ASSUME [Device!Next]_(Device!vars)
  PROVE  [Promise!Next]_(Promise!vars)
  BY DEF Device!Next, Device!vars, Device!QueueBuffer, Device!StreamOn, Device!StreamOff,
         Device!Start, Device!Close, Device!Decode, Device!Finish, Device!Queue,
         Device!AllUser, Device!NoLists,
         Promise!Next, Promise!vars, Promise!QueueBuffer, Promise!StreamOn,
         Promise!StreamOff, Promise!Start, Promise!Close, Promise!Decode, Promise!Finish,
         Promise!Queue, Promise!AllUser, Promise!NoLists

\* No buffer the program queued is lost by the driver or listed twice, whatever
\* the threads, the watchdog and the interrupt do.
THEOREM NoBufferLost == PromptIrq => (Spec => []Device!ActiveIsListed)
<1> SUFFICES ASSUME PromptIrq PROVE Spec => []Device!ActiveIsListed
  OBVIOUS
<1>1. Init => Promise!DeviceInv
  <2>1. Init => Promise!Init
    BY DEF Init, Promise!Init, Promise!AllUser, Promise!NoLists, Promise!Queue, Queue
  <2>2. QED BY <2>1, Promise!DeviceInit
<1>2. RInv /\ Promise!DeviceInv /\ [Next]_vars => Promise!DeviceInv'
  BY DeviceStep, PromiseStep, Promise!DeviceNext, JobAssumption
<1>3. Promise!DeviceInv => Device!ActiveIsListed
  BY DEF Promise!DeviceInv, Promise!ActiveIsListed, Device!ActiveIsListed,
         Promise!Queue, Device!Queue
<1>4. Spec => []RInv
  BY PromptInductive
<1>5. QED BY <1>1, <1>2, <1>3, <1>4, PTL DEF Spec
=============================================================================
