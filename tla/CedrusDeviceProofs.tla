-------------------------- MODULE CedrusDeviceProofs --------------------------
(***************************************************************************)
(* What a program may conclude from the device of CedrusDevice, for any    *)
(* number of contexts and buffers: no buffer is lost or listed twice, jobs *)
(* have their buffers, and done means decoded.  By the refinement of       *)
(* CedrusRefinement all of it holds of the driver.                         *)
(***************************************************************************)
EXTENDS CedrusDevice, DataLemmas

DeviceInv == TypeOK /\ ActiveIsListed /\ JobHasBuffers /\ DoneWasDecoded

\* The part of ActiveIsListed about one list.
Listed(st, l) ==
  /\ Distinct(l)
  /\ \A b \in Bufs : st[b] = "active" <=> b \in Members(l)

\* The property, queue by queue.
LEMMA AllListed ==
  ActiveIsListed <=> \A c \in Ctx, q \in Queue : Listed(state[c][q], list[c][q])
  BY DEF ActiveIsListed, Listed, Distinct, Members

\* The same in the next state.
LEMMA AllListedNext ==
  ActiveIsListed' <=> \A c \in Ctx, q \in Queue : Listed(state'[c][q], list'[c][q])
  BY DEF ActiveIsListed, Listed, Distinct, Members

\* A queue without active buffers has an empty list.
LEMMA EmptyListed ==
  ASSUME NEW st, \A b \in Bufs : st[b] # "active"
  PROVE  Listed(st, <<>>)
  BY DEF Listed, Distinct, Members

\* No buffer is active at the start.
LEMMA DeviceInit == ASSUME Init PROVE DeviceInv
<1>1. TypeOK
  BY DEF Init, TypeOK, AllUser, NoLists, Queue
<1>2. ActiveIsListed
  <2>1. \A c \in Ctx, q \in Queue : /\ list[c][q] = <<>>
                                    /\ \A b \in Bufs : state[c][q][b] # "active"
    BY DEF Init, AllUser, NoLists, Queue
  <2>2. QED BY <2>1, EmptyListed, AllListed
<1>3. JobHasBuffers /\ DoneWasDecoded
  BY DEF Init, JobHasBuffers, DoneWasDecoded, AllUser, Queue
<1>4. QED BY <1>1, <1>2, <1>3 DEF DeviceInv

\* A buffer handed over is listed, once.
LEMMA QueueBufferKeeps ==
  ASSUME DeviceInv, NEW c \in Ctx, NEW q \in Queue, NEW b \in Bufs, QueueBuffer(c, q, b)
  PROVE  DeviceInv'
<1> DEFINE s == state[c][q]
           l == list[c][q]
<1>0. TypeOK /\ ActiveIsListed /\ JobHasBuffers /\ DoneWasDecoded
  BY DEF DeviceInv
<1>1. /\ l \in Seq(Bufs) /\ Append(l, b) \in Seq(Bufs)
      /\ Members(Append(l, b)) = Members(l) \cup {b}
      /\ Distinct(l) /\ b \notin Members(l) => Distinct(Append(l, b))
      /\ Append(l, b) # <<>>
  <2>1. l \in Seq(Bufs)
    BY <1>0 DEF TypeOK
  <2> HIDE DEF l
  <2>2. Append(l, b) \in Seq(Bufs)
    BY <2>1, AppendProperties
  <2>3. QED BY <2>1, <2>2, AppendMembers
<1>2. /\ state' = [state EXCEPT ![c][q][b] = "active"]
      /\ list' = [list EXCEPT ![c][q] = Append(l, b)]
      /\ UNCHANGED <<on, job>>
      /\ decoded' = [decoded EXCEPT ![c] = IF q = "dst" THEN @ \ {b} ELSE @]
  BY DEF QueueBuffer
<1>3. \A d \in Ctx, p \in Queue :
        IF d = c /\ p = q
        THEN state'[d][p] = [s EXCEPT ![b] = "active"] /\ list'[d][p] = Append(l, b)
        ELSE state'[d][p] = state[d][p] /\ list'[d][p] = list[d][p]
  BY <1>0, <1>2 DEF TypeOK
<1>4. TypeOK'
  <2>1. state' \in [Ctx -> [Queue -> [Bufs -> {"user", "active", "done", "error"}]]]
    BY <1>0, <1>2 DEF TypeOK
  <2>2. list' \in [Ctx -> [Queue -> Seq(Bufs)]]
    BY <1>0, <1>1, <1>2 DEF TypeOK
  <2>3. decoded' \in [Ctx -> SUBSET Bufs]
    BY <1>0, <1>2 DEF TypeOK
  <2>4. QED BY <1>0, <1>2, <2>1, <2>2, <2>3 DEF TypeOK
<1>5. ActiveIsListed'
  <2>1. Listed(s, l) /\ s[b] # "active"
    BY <1>0, AllListed DEF QueueBuffer
  <2>2. Listed([s EXCEPT ![b] = "active"], Append(l, b))
    <3>1. s \in [Bufs -> {"user", "active", "done", "error"}]
      BY <1>0 DEF TypeOK
    <3>2. QED BY <1>1, <2>1, <3>1, ZenonT(60) DEF Listed
  <2>3. QED BY <1>0, <1>3, <2>2, AllListed, AllListedNext
<1>6. JobHasBuffers'
  <2>1. job # None => job \in Ctx
    BY <1>0 DEF TypeOK
  <2>2. "src" \in Queue /\ "dst" \in Queue
    BY DEF Queue
  <2>3. QED BY <1>0, <1>1, <1>2, <1>3, <2>1, <2>2 DEF JobHasBuffers
<1>7. DoneWasDecoded'
  <2>1. \A d \in Ctx, x \in Bufs : state'[d]["dst"][x] = "done" =>
          state[d]["dst"][x] = "done" /\ ~(d = c /\ q = "dst" /\ x = b)
    BY <1>0, <1>2 DEF TypeOK, Queue
  <2>2. QED BY <1>0, <1>2, <2>1 DEF DoneWasDecoded, TypeOK
<1>8. QED BY <1>4, <1>5, <1>6, <1>7 DEF DeviceInv

\* Steps that touch no buffer.
LEMMA QuietKeeps ==
  ASSUME DeviceInv, UNCHANGED <<state, list>>, \/ \E c \in Ctx, q \in Queue : StreamOn(c, q)
                                               \/ \E c \in Ctx : Start(c)
                                               \/ Decode
                                               \/ UNCHANGED vars
  PROVE  DeviceInv'
<1>0. TypeOK /\ ActiveIsListed /\ JobHasBuffers /\ DoneWasDecoded
  BY DEF DeviceInv
<1>1. ActiveIsListed'
  BY <1>0 DEF ActiveIsListed
<1>2. ASSUME NEW c \in Ctx, NEW q \in Queue, StreamOn(c, q) PROVE DeviceInv'
  <2>1. on' = [on EXCEPT ![c] = on[c] \cup {q}] /\ UNCHANGED <<job, decoded>>
    BY <1>2 DEF StreamOn
  <2>2. TypeOK'
    BY <1>0, <2>1 DEF TypeOK
  <2>3. JobHasBuffers'
    BY <1>0, <2>1 DEF JobHasBuffers, TypeOK, Queue
  <2>4. DoneWasDecoded'
    BY <1>0, <2>1 DEF DoneWasDecoded
  <2>5. QED BY <1>1, <2>2, <2>3, <2>4 DEF DeviceInv
<1>3. ASSUME NEW c \in Ctx, Start(c) PROVE DeviceInv'
  BY <1>0, <1>1, <1>3 DEF Start, DeviceInv, TypeOK, JobHasBuffers, DoneWasDecoded
<1>4. CASE Decode
  <2>1. /\ job \in Ctx /\ UNCHANGED <<on, job>>
        /\ decoded' = [decoded EXCEPT ![job] = decoded[job] \cup {Head(list[job]["dst"])}]
    BY <1>0, <1>4 DEF Decode, TypeOK
  <2>2. Head(list[job]["dst"]) \in Bufs
    <3>1. list[job]["dst"] \in Seq(Bufs) /\ list[job]["dst"] # <<>>
      BY <1>0, <1>4, <2>1 DEF JobHasBuffers, TypeOK, Queue, Decode
    <3>2. QED BY <3>1, TailMembers
  <2>3. TypeOK'
    BY <1>0, <2>1, <2>2 DEF TypeOK
  <2>4. JobHasBuffers'
    BY <1>0, <2>1 DEF JobHasBuffers
  <2>5. DoneWasDecoded'
    BY <1>0, <2>1 DEF DoneWasDecoded, TypeOK
  <2>6. QED BY <1>1, <2>3, <2>4, <2>5 DEF DeviceInv
<1>5. CASE UNCHANGED vars
  BY <1>0, <1>5 DEF vars, DeviceInv, TypeOK, ActiveIsListed, JobHasBuffers, DoneWasDecoded
<1>6. QED BY <1>2, <1>3, <1>4, <1>5

\* The first buffer of a list comes back.
LEMMA HeadListed ==
  ASSUME NEW s \in [Bufs -> {"user", "active", "done", "error"}], NEW l \in Seq(Bufs),
         l # <<>>, Listed(s, l), NEW st \in {"done", "error"}
  PROVE  Listed([s EXCEPT ![Head(l)] = st], Tail(l))
<1>1. /\ Head(l) \in Bufs /\ Distinct(Tail(l)) /\ Head(l) \notin Members(Tail(l))
      /\ Members(Tail(l)) \subseteq Members(l)
  BY TailMembers DEF Listed
<1>2. \A b \in Members(l) : b = Head(l) \/ b \in Members(Tail(l))
  BY HeadOrTail
<1>3. QED BY <1>1, <1>2 DEF Listed

\* The pair given back leaves both lists.
LEMMA FinishKeeps ==
  ASSUME DeviceInv, None \notin Ctx, NEW st \in {"done", "error"}, Finish(st)
  PROVE  DeviceInv'
<1> DEFINE S == list[job]["src"]
           D == list[job]["dst"]
           rest == [q \in Queue |-> Tail(list[job][q])]
<1>0. TypeOK /\ ActiveIsListed /\ JobHasBuffers /\ DoneWasDecoded /\ job \in Ctx
  BY DEF DeviceInv, Finish, TypeOK
<1>1. \A q \in Queue : list[job][q] \in Seq(Bufs) /\ list[job][q] # <<>>
  BY <1>0 DEF JobHasBuffers, TypeOK, Queue, Finish
<1>2. \A q \in Queue : Head(list[job][q]) \in Bufs /\ Tail(list[job][q]) \in Seq(Bufs)
  BY <1>1, TailMembers
<1>3. /\ state' = [state EXCEPT ![job]["src"][Head(S)] = st, ![job]["dst"][Head(D)] = st]
      /\ list' = [list EXCEPT ![job] = rest]
      /\ job' = None /\ UNCHANGED <<on, decoded>>
  BY DEF Finish
<1>4. \A d \in Ctx, p \in Queue :
        IF d = job
        THEN /\ state'[d][p] = [state[d][p] EXCEPT ![Head(list[d][p])] = st]
             /\ list'[d][p] = Tail(list[d][p])
        ELSE state'[d][p] = state[d][p] /\ list'[d][p] = list[d][p]
  BY <1>0, <1>3 DEF TypeOK, Queue
<1>5. TypeOK'
  <2>1. state' \in [Ctx -> [Queue -> [Bufs -> {"user", "active", "done", "error"}]]]
    BY <1>0, <1>2, <1>3, ZenonT(60) DEF TypeOK, Queue
  <2>2. list' \in [Ctx -> [Queue -> Seq(Bufs)]]
    BY <1>0, <1>2, <1>3 DEF TypeOK
  <2>3. QED BY <1>0, <1>3, <2>1, <2>2 DEF TypeOK
<1>6. ActiveIsListed'
  <2>1. ASSUME NEW p \in Queue PROVE Listed(state'[job][p], list'[job][p])
    <3>1. /\ state[job][p] \in [Bufs -> {"user", "active", "done", "error"}]
          /\ Listed(state[job][p], list[job][p])
      BY <1>0, AllListed DEF TypeOK
    <3>2. Listed([state[job][p] EXCEPT ![Head(list[job][p])] = st], Tail(list[job][p]))
      BY <1>1, <3>1, HeadListed
    <3>3. QED BY <1>0, <1>4, <3>2
  <2>2. QED BY <1>0, <1>4, <2>1, AllListed, AllListedNext
<1>7. JobHasBuffers'
  BY <1>3 DEF JobHasBuffers
<1>8. DoneWasDecoded'
  <2>1. st = "done" => Head(D) \in decoded[job]
    BY DEF Finish
  <2>2. \A d \in Ctx, b \in Bufs : state'[d]["dst"][b] = "done" =>
          state[d]["dst"][b] = "done" \/ (d = job /\ b = Head(D) /\ st = "done")
    <3>1. ASSUME NEW b \in Bufs, state'[job]["dst"][b] = "done", b # Head(D)
          PROVE  state[job]["dst"][b] = "done"
      <4>1. state'[job]["dst"] = [state[job]["dst"] EXCEPT ![Head(D)] = st]
        BY <1>0, <1>4 DEF Queue
      <4>2. state[job]["dst"] \in [Bufs -> {"user", "active", "done", "error"}]
        BY <1>0 DEF TypeOK, Queue
      <4>3. QED BY <3>1, <4>1, <4>2
    <3>2. state'[job]["dst"][Head(D)] = st
      <4>1. state'[job]["dst"] = [state[job]["dst"] EXCEPT ![Head(D)] = st]
        BY <1>0, <1>4 DEF Queue
      <4>2. state[job]["dst"] \in [Bufs -> {"user", "active", "done", "error"}]
        BY <1>0 DEF TypeOK, Queue
      <4>3. Head(D) \in Bufs
        BY <1>2 DEF Queue
      <4>4. QED BY <4>1, <4>2, <4>3
    <3>3. \A d \in Ctx : d # job => state'[d]["dst"] = state[d]["dst"]
      BY <1>4 DEF Queue
    <3>4. QED BY <3>1, <3>2, <3>3
  <2>3. QED BY <1>0, <1>3, <2>1, <2>2 DEF DoneWasDecoded
<1>9. QED BY <1>5, <1>6, <1>7, <1>8 DEF DeviceInv

\* A queue that stops gives back all its buffers.
LEMMA StreamOffKeeps ==
  ASSUME DeviceInv, NEW c \in Ctx, NEW q \in Queue, StreamOff(c, q)
  PROVE  DeviceInv'
<1> DEFINE back == [b \in Bufs |-> IF state[c][q][b] = "active" THEN "error"
                                   ELSE state[c][q][b]]
<1>0. TypeOK /\ ActiveIsListed /\ JobHasBuffers /\ DoneWasDecoded
  BY DEF DeviceInv
<1>1. /\ job # c /\ on' = [on EXCEPT ![c] = on[c] \ {q}]
      /\ state' = [state EXCEPT ![c][q] = back]
      /\ list' = [list EXCEPT ![c][q] = <<>>] /\ UNCHANGED <<job, decoded>>
  BY <1>0 DEF StreamOff, TypeOK
<1>2. back \in [Bufs -> {"user", "active", "done", "error"}] /\ \A b \in Bufs : back[b] # "active"
  BY <1>0 DEF TypeOK
<1>3. \A b \in Bufs : back[b] = "done" => state[c][q][b] = "done"
  OBVIOUS
<1> HIDE DEF back
<1>4. \A d \in Ctx, p \in Queue :
        IF d = c /\ p = q THEN state'[d][p] = back /\ list'[d][p] = <<>>
        ELSE state'[d][p] = state[d][p] /\ list'[d][p] = list[d][p]
  BY <1>0, <1>1 DEF TypeOK
<1>5. TypeOK'
  <2>1. state' \in [Ctx -> [Queue -> [Bufs -> {"user", "active", "done", "error"}]]]
    BY <1>0, <1>1, <1>2 DEF TypeOK
  <2>2. list' \in [Ctx -> [Queue -> Seq(Bufs)]]
    BY <1>0, <1>1 DEF TypeOK
  <2>3. on' \in [Ctx -> SUBSET Queue]
    BY <1>0, <1>1 DEF TypeOK
  <2>4. QED BY <1>0, <1>1, <2>1, <2>2, <2>3 DEF TypeOK
<1>6. ActiveIsListed'
  BY <1>0, <1>2, <1>4, EmptyListed, AllListed, AllListedNext
<1>7. JobHasBuffers'
  BY <1>0, <1>1, <1>4 DEF JobHasBuffers, TypeOK, Queue
<1>8. DoneWasDecoded'
  BY <1>0, <1>1, <1>3, <1>4 DEF DoneWasDecoded, Queue
<1>9. QED BY <1>5, <1>6, <1>7, <1>8 DEF DeviceInv

\* So does a context that closes.
LEMMA CloseKeeps ==
  ASSUME DeviceInv, NEW c \in Ctx, Close(c)
  PROVE  DeviceInv'
<1>0. TypeOK /\ ActiveIsListed /\ JobHasBuffers /\ DoneWasDecoded
  BY DEF DeviceInv
<1>1. /\ job # c /\ UNCHANGED job
      /\ on' = [on EXCEPT ![c] = {}] /\ state' = [state EXCEPT ![c] = AllUser]
      /\ list' = [list EXCEPT ![c] = NoLists] /\ decoded' = [decoded EXCEPT ![c] = {}]
  BY DEF Close
<1>2. \A d \in Ctx :
        IF d = c THEN state'[d] = AllUser /\ list'[d] = NoLists
        ELSE /\ state'[d] = state[d] /\ list'[d] = list[d]
             /\ decoded'[d] = decoded[d] /\ on'[d] = on[d]
  BY <1>0, <1>1 DEF TypeOK
<1>3. /\ AllUser \in [Queue -> [Bufs -> {"user", "active", "done", "error"}]]
      /\ NoLists \in [Queue -> Seq(Bufs)]
      /\ \A q \in Queue : Listed(AllUser[q], NoLists[q])
      /\ \A b \in Bufs : AllUser["dst"][b] # "done"
  <2>1. \A q \in Queue : NoLists[q] = <<>> /\ \A b \in Bufs : AllUser[q][b] # "active"
    BY DEF AllUser, NoLists
  <2>2. QED BY <2>1, EmptyListed DEF AllUser, NoLists, Queue
<1>4. TypeOK'
  BY <1>0, <1>1, <1>3 DEF TypeOK
<1>5. ActiveIsListed'
  BY <1>0, <1>2, <1>3, AllListed, AllListedNext
<1>6. JobHasBuffers'
  BY <1>0, <1>1, <1>2 DEF JobHasBuffers, TypeOK
<1>7. DoneWasDecoded'
  BY <1>0, <1>2, <1>3 DEF DoneWasDecoded
<1>8. QED BY <1>4, <1>5, <1>6, <1>7 DEF DeviceInv

\* Every step keeps the invariant.
LEMMA DeviceNext == ASSUME DeviceInv, None \notin Ctx, [Next]_vars PROVE DeviceInv'
<1>1. \/ \E c \in Ctx, q \in Queue : StreamOn(c, q)
      \/ \E c \in Ctx : Start(c)
      \/ Decode
      \/ UNCHANGED vars
      => UNCHANGED <<state, list>>
  BY DEF StreamOn, Start, Decode, vars
<1>2. QED
  BY <1>1, QueueBufferKeeps, QuietKeeps, FinishKeeps, StreamOffKeeps, CloseKeeps DEF Next

\* The device keeps its promises: every buffer it was given is on a list, once,
\* until it comes back; the engine works only with a buffer of each queue; and a
\* capture buffer that came back as done was decoded since it was queued.
THEOREM DeviceInductive == None \notin Ctx => (Spec => []DeviceInv)
<1> SUFFICES ASSUME None \notin Ctx PROVE Spec => []DeviceInv
  OBVIOUS
<1>1. Init => DeviceInv
  BY DeviceInit
<1>2. DeviceInv /\ [Next]_vars => DeviceInv'
  BY DeviceNext
<1>3. QED BY <1>1, <1>2, PTL DEF Spec

\* No buffer is lost between vb2 and the ready lists, and none is listed twice.
THEOREM NoneLost == None \notin Ctx => (Spec => []ActiveIsListed)
<1>1. DeviceInv => ActiveIsListed
  BY DEF DeviceInv
<1>2. QED BY <1>1, DeviceInductive, PTL
=============================================================================
