---------------------------- MODULE MCCedrusJob ----------------------------
(* Instances of CedrusJob for TLC. *)
EXTENDS CedrusJob, TLC

CONSTANTS a, b, h264, vp9

\* Two decoder contexts that use the same engine.
TwoDecoders == [c \in {a, b} |-> "dec"]
SameEngine  == [c \in {a, b} |-> h264]

\* A decoder context and an encoder context, each with its own engine.
BothNodes   == [c \in {a, b} |-> IF c = a THEN "dec" ELSE "enc"]
OwnEngines  == [c \in {a, b} |-> IF c = a THEN vp9 ELSE h264]

\* Two buffers on each queue, the second only while the other context is closed:
\* the order of the buffers of one context and the interplay of two, without
\* the product of both.
SecondBufferAlone ==
  b \notin opened \/ \A c \in Ctx, q \in Queue : vb[c][q][2] = "user"
BoundedSpec == Init /\ [][Next /\ SecondBufferAlone']_vars
=============================================================================
