--------------------------- MODULE CedarDisciplined ---------------------------
(***************************************************************************)
(* CedarDma with a record of how its clients have behaved.  Two promises   *)
(* of the legacy device hold only for disciplined clients, but then also   *)
(* when these die at any moment.                                           *)
(***************************************************************************)
EXTENDS CedarDma

\* History: so far no client held memory, a mapping or the lock on an open file
\* without engine references, and the system was not suspended.  (A file in
\* release is past the client's doing.)
VARIABLE disciplined
dvars == <<vars, disciplined>>

HoldsMemory(f) == coh[f] # {} \/ MappedBy(ProcOf[f]) # {} \/ lock = f

Disciplined ==
  /\ pm # "suspended"
  /\ \A f \in opened :
       HoldsMemory(f) /\ call[f] \notin {"give_back", "drop_refs"} => refs[f] > 0

WatchedInit == Init /\ disciplined = TRUE
WatchedNext == Next /\ disciplined' = (disciplined /\ Disciplined')
WatchedSpec == WatchedInit /\ [][WatchedNext]_dvars

\* Clients that allocate, map and lock only while they hold engine references
\* never leave the engine of another client in reset when they free or close.
DisciplinedReset == disciplined => ResetReleased

\* And nothing they mapped outlives the last file of their process.
DisciplinedMappings == disciplined => MappingsReleased
===============================================================================
