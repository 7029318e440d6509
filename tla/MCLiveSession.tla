---------------------------- MODULE MCLiveSession ----------------------------
(* Values of the constants of LiveSession for TLC. *)
EXTENDS LiveSession, TLC

\* Every order expires one bar after it was placed.
MCLifetime == [s \in Slots |-> 1]

\* Orders on every bar, or on the first one only.
EveryBar == 0 .. MaxBars - 1
FirstBar == {0}

NoFaults == [k \in FaultKind |-> 0]

\* At most one failure of each kind.
OneOfEach == [k \in FaultKind |-> 1]

\* Two crashes or a duplicated update.
CrashOrDup == [NoFaults EXCEPT !["crash"] = 2, !["dup"] = 1]

\* Two kinds of these: two crashes, a trade-update stream that loses every update of the run's
\* order, a repeated update, a failing call of the broker.
CrashOrDeaf ==
  [NoFaults EXCEPT !["crash"] = 2, !["lost"] = 3, !["dup"] = 1, !["call"] = 1]

CrashOnly == [NoFaults EXCEPT !["crash"] = 1]
LossOnly  == [NoFaults EXCEPT !["lost"] = 1]
DbOnly    == [NoFaults EXCEPT !["db"] = 1]

=============================================================================
