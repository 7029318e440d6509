--------------------------- MODULE MCSessionControl ---------------------------
(* Values of the constants of SessionControl for TLC. *)
EXTENDS SessionControl, TLC

CONSTANTS s1, r1, r2

\* The session belongs to the first shard.
FirstShard == s1 :> r1

NoEvents == [k \in EventKind |-> 0]

\* Every kind of event happens, crashes and stop calls twice.
TwoCrashes == [[k \in EventKind |-> 1] EXCEPT !["stop"] = 2, !["crash"] = 2]

\* A halt and a crash.
HaltAndCrash == [NoEvents EXCEPT !["halt"] = 1, !["crash"] = 1]

=============================================================================
