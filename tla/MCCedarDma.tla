----------------------------- MODULE MCCedarDma -----------------------------
(* Instances of CedarDma for TLC. *)
EXTENDS CedarDisciplined, TLC

CONSTANTS f1, f2, f3, p, q, r

\* Three processes with one file each.
OneFileEach ==
  [f \in {f1, f2, f3} |-> IF f = f1 THEN p ELSE IF f = f2 THEN q ELSE r]

\* Clients are alike: exchanging two of them, each with its process, changes nothing.
Exchanged(pi) == [x \in {p, q, r} |-> OneFileEach[pi[CHOOSE f \in {f1, f2, f3} : OneFileEach[f] = x]]]
Clients == {pi @@ Exchanged(pi) : pi \in Permutations({f1, f2, f3})}

\* The codec library and the memory adapter of one process use a file each.
Bridge == [f \in {f1, f2} |-> p]
=============================================================================
