----------------------------- MODULE CedarEngine -----------------------------
(***************************************************************************)
(* What the legacy device promises to the clients that share its engine:   *)
(* the engine runs from the first reference taken to the last one given    *)
(* back, a client's jobs work on memory of the client while it holds       *)
(* references, and memory is given back only when no job works on it.      *)
(*                                                                         *)
(* CedarDma implements it for clients with one file each that wait for     *)
(* their jobs.  There is no counter, no semaphore and no call in progress  *)
(* here: an ioctl takes effect at one of its steps, and the others are     *)
(* stutters.                                                               *)
(***************************************************************************)
EXTENDS Naturals

CONSTANTS
  Files,    \* clients, each with one file
  Private,  \* memory that one client allocates
  Shared,   \* memory that several clients may map
  None

Memory == Private \cup Shared

VARIABLES
  held,     \* held[f]: the references f holds
  on,       \* the engine runs
  asleep,   \* the system has suspended it, or a resume did not bring it back
  memory,   \* memory[f]: what f may hand to the engine
  job       \* job[f]: what the engine works on for f

vars == <<held, on, asleep, memory, job>>

NoJobs == [f \in Files |-> None]
InUse == \E f \in Files : held[f] > 0

Init ==
  /\ held = [f \in Files |-> 0] /\ on = FALSE /\ asleep = FALSE
  /\ memory = [f \in Files |-> {}] /\ job = NoJobs

\* The first reference starts an engine that has come to rest.  Others leave it
\* as it is.
Take(f) ==
  /\ held' = [held EXCEPT ![f] = @ + 1]
  /\ IF InUse THEN UNCHANGED <<on, asleep>>
              ELSE ~on /\ on' = TRUE /\ asleep' = FALSE
  /\ UNCHANGED <<memory, job>>

\* A client gives its last reference back when its job is done.
Give(f) ==
  /\ held[f] > 0
  /\ held[f] = 1 => job[f] = None
  /\ held' = [held EXCEPT ![f] = @ - 1]
  /\ UNCHANGED <<on, asleep, memory, job>>

\* The engine comes to rest only when nobody holds a reference.
Rest ==
  /\ on /\ ~InUse
  /\ on' = FALSE
  /\ job' = NoJobs
  /\ UNCHANGED <<held, asleep, memory>>

\* Private memory has one owner.
Obtain(f, m) ==
  /\ UNCHANGED <<held, on, asleep, job>>
  /\ m \in Private => \A g \in Files : m \notin memory[g]
  /\ memory' = [memory EXCEPT ![f] = @ \cup {m}]

\* What a client gives back, or has taken away, no job of it works on.
GiveBack(f) ==
  /\ UNCHANGED <<held, on, asleep, job>>
  /\ memory' \in [Files -> SUBSET Memory]
  /\ memory'[f] \subseteq memory[f]
  /\ \A g \in Files \ {f} : memory'[g] = memory[g]
  /\ job[f] # None => job[f] \in memory'[f]

\* A client works with a reference, on a running engine, on its own memory.
Start(f, m) ==
  /\ held[f] > 0 /\ on
  /\ job[f] = None /\ m \in memory[f]
  /\ job' = [job EXCEPT ![f] = m]
  /\ UNCHANGED <<held, on, asleep, memory>>

End(f) ==
  /\ job' = [job EXCEPT ![f] = None]
  /\ UNCHANGED <<held, on, asleep, memory>>

\* Whoever resets the engine ends the jobs of all.
EndAll ==
  /\ job' = NoJobs
  /\ UNCHANGED <<held, on, asleep, memory>>

\* A client that goes, whatever it held, leaves the others the engine they use.
Leave(f) ==
  /\ job[f] = None
  /\ held' = [held EXCEPT ![f] = 0]
  /\ memory' \in [Files -> SUBSET Memory]
  /\ memory'[f] \subseteq memory[f]
  /\ \A g \in Files \ {f} : memory'[g] = memory[g]
  /\ IF InUse' THEN UNCHANGED <<on, job>> ELSE on' = FALSE /\ job' = NoJobs
  /\ UNCHANGED asleep

Sleep ==
  /\ asleep' = TRUE /\ on' = FALSE
  /\ job' = NoJobs
  /\ UNCHANGED <<held, memory>>

\* The engine wakes up for those who still hold references.
Wake ==
  /\ asleep
  /\ asleep' = FALSE /\ on' = InUse
  /\ UNCHANGED <<held, memory, job>>

Next ==
  \/ \E f \in Files :
       \/ Take(f) \/ Give(f) \/ GiveBack(f) \/ End(f) \/ Leave(f)
       \/ \E m \in Memory : Obtain(f, m) \/ Start(f, m)
  \/ Rest \/ EndAll \/ Sleep \/ Wake

Spec == Init /\ [][Next]_vars

-----------------------------------------------------------------------------

TypeOK ==
  /\ held \in [Files -> Nat] /\ on \in BOOLEAN /\ asleep \in BOOLEAN
  /\ memory \in [Files -> SUBSET Memory]
  /\ job \in [Files -> Memory \cup {None}]

\* A job has everything it needs for as long as it runs.
JobsSupplied ==
  \A f \in Files : job[f] # None => on /\ held[f] > 0 /\ job[f] \in memory[f]

\* Whoever holds a reference finds the engine running, unless the system sleeps.
RunsForHolders == InUse /\ ~asleep => on

\* Nothing runs while the system sleeps.
StoppedAsleep == asleep => ~on

\* No two clients own the same private memory.
OneOwner ==
  \A f, g \in Files : f # g => memory[f] \cap memory[g] \cap Private = {}

Promise == TypeOK /\ JobsSupplied /\ RunsForHolders /\ StoppedAsleep /\ OneOwner
=============================================================================
