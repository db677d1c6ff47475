---------------------------- MODULE CedrusDevice ----------------------------
(***************************************************************************)
(* What the cedrus device promises to the program that uses it, whatever   *)
(* threads, timers and interrupts do behind it: each open context owns two *)
(* queues of buffers, the one engine works for one context at a time, on   *)
(* the oldest buffer of each of its queues, and gives both back together,  *)
(* as done only when it decoded into the capture buffer.                   *)
(*                                                                         *)
(* CedrusJob implements it; its steps that are not steps here (arming the  *)
(* watchdog, entering an interrupt, waiting for a job) are stutters.       *)
(***************************************************************************)
EXTENDS Naturals, Sequences

CONSTANTS Ctx, Bufs, None

Queue == {"src", "dst"}

VARIABLES
  on,       \* on[c]: the queues of c that stream
  state,    \* state[c][q][b]: "active" while the device has the buffer
  list,     \* list[c][q]: the buffers the device has, oldest first
  job,      \* the context the engine works for
  decoded   \* decoded[c]: capture buffers decoded since they were queued

vars == <<on, state, list, job, decoded>>

AllUser == [q \in Queue |-> [b \in Bufs |-> "user"]]
NoLists == [q \in Queue |-> <<>>]

Init ==
  /\ on = [c \in Ctx |-> {}]
  /\ state = [c \in Ctx |-> AllUser]
  /\ list = [c \in Ctx |-> NoLists]
  /\ job = None
  /\ decoded = [c \in Ctx |-> {}]

\* The program hands a buffer over.
QueueBuffer(c, q, b) ==
  /\ state[c][q][b] # "active"
  /\ state' = [state EXCEPT ![c][q][b] = "active"]
  /\ list' = [list EXCEPT ![c][q] = Append(@, b)]
  /\ decoded' = [decoded EXCEPT ![c] = IF q = "dst" THEN @ \ {b} ELSE @]
  /\ UNCHANGED <<on, job>>

StreamOn(c, q) ==
  /\ on' = [on EXCEPT ![c] = @ \cup {q}]
  /\ UNCHANGED <<state, list, job, decoded>>

\* The engine takes up the oldest pair of buffers of c.
Start(c) ==
  /\ job = None
  /\ on[c] = Queue
  /\ list[c]["src"] # <<>> /\ list[c]["dst"] # <<>>
  /\ job' = c
  /\ UNCHANGED <<on, state, list, decoded>>

Decode ==
  /\ job # None
  /\ decoded' = [decoded EXCEPT ![job] = @ \cup {Head(list[job]["dst"])}]
  /\ UNCHANGED <<on, state, list, job>>

\* Both buffers of the job go back together.
Finish(st) ==
  /\ job # None
  /\ st = "done" => Head(list[job]["dst"]) \in decoded[job]
  /\ state' = [state EXCEPT ![job]["src"][Head(list[job]["src"])] = st,
                            ![job]["dst"][Head(list[job]["dst"])] = st]
  /\ list' = [list EXCEPT ![job] = [q \in Queue |-> Tail(@[q])]]
  /\ job' = None
  /\ UNCHANGED <<on, decoded>>

\* A queue stops only when the engine does not work for its context, and every
\* buffer of the queue the device still has comes back as an error.
StreamOff(c, q) ==
  /\ job # c
  /\ on' = [on EXCEPT ![c] = @ \ {q}]
  /\ state' = [state EXCEPT ![c][q] =
                 [b \in Bufs |-> IF @[b] = "active" THEN "error" ELSE @[b]]]
  /\ list' = [list EXCEPT ![c][q] = <<>>]
  /\ UNCHANGED <<job, decoded>>

\* The same holds of a context that is closed.
Close(c) ==
  /\ job # c
  /\ on' = [on EXCEPT ![c] = {}]
  /\ state' = [state EXCEPT ![c] = AllUser]
  /\ list' = [list EXCEPT ![c] = NoLists]
  /\ decoded' = [decoded EXCEPT ![c] = {}]
  /\ UNCHANGED job

Next ==
  \/ \E c \in Ctx :
       \/ \E q \in Queue : \/ \E b \in Bufs : QueueBuffer(c, q, b)
                           \/ StreamOn(c, q) \/ StreamOff(c, q)
       \/ Start(c) \/ Close(c)
  \/ Decode
  \/ \E st \in {"done", "error"} : Finish(st)

Spec == Init /\ [][Next]_vars

-----------------------------------------------------------------------------

TypeOK ==
  /\ on \in [Ctx -> SUBSET Queue]
  /\ state \in [Ctx -> [Queue -> [Bufs -> {"user", "active", "done", "error"}]]]
  /\ list \in [Ctx -> [Queue -> Seq(Bufs)]]
  /\ job \in Ctx \cup {None}
  /\ decoded \in [Ctx -> SUBSET Bufs]

\* The device never loses a buffer, and has none twice: what vb2 counts as active
\* is what the ready lists hold, each once.
ActiveIsListed ==
  \A c \in Ctx, q \in Queue :
    /\ \A b \in Bufs : state[c][q][b] = "active"
                         <=> \E i \in 1..Len(list[c][q]) : list[c][q][i] = b
    /\ \A i, j \in 1..Len(list[c][q]) : list[c][q][i] = list[c][q][j] => i = j

\* The engine works only for a context that streams on both queues and has a
\* buffer on each.
JobHasBuffers ==
  job # None => /\ on[job] = Queue
                /\ list[job]["src"] # <<>> /\ list[job]["dst"] # <<>>

\* A capture buffer that came back as done was decoded since it was queued.
DoneWasDecoded ==
  \A c \in Ctx, b \in Bufs : state[c]["dst"][b] = "done" => b \in decoded[c]
=============================================================================
