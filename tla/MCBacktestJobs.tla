--------------------------- MODULE MCBacktestJobs ---------------------------
(* Values of the constants of BacktestJobs for TLC. *)
EXTENDS BacktestJobs, TLC

Header(b, tr, te, n) == [bars |-> b, train |-> tr, test |-> te, num |-> n]

\* Two windows, with bars to spare at the old end; too short a history; and a
\* request the API refuses.
MCHeaders == {Header(8, 3, 2, 5), Header(4, 3, 2, 1), Header(8, 2, 3, 1)}

=============================================================================
