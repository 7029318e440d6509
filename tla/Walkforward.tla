----------------------------- MODULE Walkforward -----------------------------
(***************************************************************************)
(* The arithmetic of a walk-forward run (packages/backtest/walkforward.py):*)
(* where its windows lie on the bars.                                      *)
(*                                                                         *)
(* A header is a record [bars, train, test, num]: the length of the        *)
(* shortest symbol's history and the three integers of the request.  A     *)
(* window is a record of bar indices, half open as Python's slices are.    *)
(***************************************************************************)
EXTENDS Integers, Sequences, FiniteSets

Windows == [trainStart : Int, trainEnd : Int, testStart : Int, testEnd : Int]

\* effective_n: the windows asked for, or as many as the history holds.
Fitting(h) ==
  LET fit == (h.bars - h.train) \div h.test
  IN IF h.num < fit THEN h.num ELSE fit

\* Mutant of WindowAt: the last training bar is the first test bar.
WindowAtLeaky(h, n, i) ==
  LET testEnd   == h.bars - (n - i) * h.test
      testStart == testEnd - h.test
  IN [trainStart |-> testStart - h.train + 1, trainEnd |-> testStart + 1,
      testStart |-> testStart, testEnd |-> testEnd]

\* Window i of n, oldest first; the last one ends at the last bar.
WindowAt(h, n, i) ==
  LET testEnd   == h.bars - (n - i) * h.test
      testStart == testEnd - h.test
  IN [trainStart |-> testStart - h.train, trainEnd |-> testStart,
      testStart |-> testStart, testEnd |-> testEnd]

\* A window that would start before the data is skipped; later windows start later,
\* so those skipped are the first ones.
TooEarly(h) == {i \in 1 .. Fitting(h) : WindowAt(h, Fitting(h), i).trainStart < 0}

ComputeWindows(h) ==
  IF h.train <= 0 \/ h.test <= 0 \/ h.num <= 0 THEN << >>
  ELSE SubSeq([i \in 1 .. Fitting(h) |-> WindowAt(h, Fitting(h), i)],
              Cardinality(TooEarly(h)) + 1, Fitting(h))

(***************************************************************************)
(* What the module's docstring promises of the windows.                    *)
(***************************************************************************)
\* The test segment directly follows the training segment it was selected on.
HeldOut(w) == w.trainEnd = w.testStart /\ w.trainStart < w.trainEnd /\ w.testStart < w.testEnd

\* Within the data, and the newest test segment ends at the last bar.
Anchored(ws, h) ==
  /\ \A i \in DOMAIN ws : ws[i].trainStart >= 0 /\ ws[i].testEnd <= h.bars
  /\ ws # << >> => ws[Len(ws)].testEnd = h.bars

\* Rolling forward: no bar is in the test segment of two windows.
TestsDisjoint(ws) ==
  \A i, j \in DOMAIN ws : i < j => ws[i].testEnd <= ws[j].testStart

=============================================================================
