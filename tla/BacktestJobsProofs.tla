------------------------- MODULE BacktestJobsProofs -------------------------
(***************************************************************************)
(* Theorems about the backtest and walk-forward jobs, for any history and  *)
(* any number of jobs, workers, requests, crashes and failed calls.  The   *)
(* inductive invariant of the queue follows an id on its way: committed and *)
(* to be pushed, then on its list, then held by a worker, then nowhere.    *)
(***************************************************************************)
EXTENDS BacktestJobs, FiniteSetTheorems, TLAPS

(***************************************************************************)
(* The windows of a walk-forward run: the facts are about the windows the  *)
(* loop builds; that the filter after it removes none of them is           *)
(* NoWindowStartsBeforeTheData.                                            *)
(***************************************************************************)
\* A request the API lets through, on a history of any length.
Requests == [bars : Nat, train : Nat \ {0}, test : Nat \ {0}, num : Nat \ {0}]

\* The loop asks for no more windows than lie between the first training segment
\* and the end of the history.
LEMMA FittingBound ==
  ASSUME NEW h \in Requests
  PROVE  /\ Fitting(h) \in Int
         /\ Fitting(h) * h.test <= h.bars - h.train
PROOF
<1> DEFINE fit == (h.bars - h.train) \div h.test
<1>1. h.bars \in Nat /\ h.train \in Nat /\ h.test \in Nat /\ h.test > 0 /\ h.num \in Nat
  BY DEF Requests
<1>2. fit \in Int /\ fit * h.test <= h.bars - h.train
  BY <1>1, SMT
<1>3. Fitting(h) \in Int /\ Fitting(h) <= fit
  BY <1>1, <1>2 DEF Fitting
<1> HIDE DEF fit
<1>4. Fitting(h) * h.test <= fit * h.test
  BY <1>1, <1>2, <1>3, SMT
<1> QED BY <1>1, <1>2, <1>3, <1>4, SMT

\* Every window's test segment directly follows the segment its parameters were
\* selected on, and both have the length of the request.
LEMMA WindowsHeldOut ==
  ASSUME NEW h \in Requests, NEW i \in 1 .. Fitting(h)
  PROVE  LET w == WindowAt(h, Fitting(h), i) IN
         /\ HeldOut(w)
         /\ w.trainEnd - w.trainStart = h.train
         /\ w.testEnd - w.testStart = h.test
PROOF
<1>1. h.bars \in Nat /\ h.train \in Nat /\ h.test \in Nat /\ h.test > 0 /\ h.train > 0
  BY DEF Requests
<1>2. Fitting(h) \in Int
  BY FittingBound
<1> DEFINE back == (Fitting(h) - i) * h.test
<1>3. back \in Int
  BY <1>1, <1>2
<1> HIDE DEF back
<1>4. WindowAt(h, Fitting(h), i) =
        [trainStart |-> h.bars - back - h.test - h.train, trainEnd |-> h.bars - back - h.test,
         testStart |-> h.bars - back - h.test, testEnd |-> h.bars - back]
  BY DEF WindowAt, back
<1> QED BY <1>1, <1>3, <1>4 DEF HeldOut

\* No window starts before the data or ends after it: the filter that follows the
\* loop drops nothing, and no slice is silently cut short.
LEMMA NoWindowStartsBeforeTheData ==
  ASSUME NEW h \in Requests, NEW i \in 1 .. Fitting(h)
  PROVE  /\ WindowAt(h, Fitting(h), i).trainStart >= 0
         /\ WindowAt(h, Fitting(h), i).testEnd <= h.bars
PROOF
<1>1. h.bars \in Nat /\ h.train \in Nat /\ h.test \in Nat /\ h.test > 0
  BY DEF Requests
<1>2. Fitting(h) \in Int /\ Fitting(h) * h.test <= h.bars - h.train
  BY FittingBound
<1> DEFINE n == Fitting(h)
           back == (n - i) * h.test
<1>3. n \in Int /\ n * h.test <= h.bars - h.train
  BY <1>2
<1> HIDE DEF n
<1>4. i \in Int /\ 1 <= i /\ i <= n
  BY <1>3 DEF n
<1>5. back \in Int /\ back >= 0 /\ back + h.test <= n * h.test
  <2>1. (n - i) * h.test >= 0
    BY <1>1, <1>3, <1>4, SMT
  <2>2. (n - i) * h.test + h.test = (n - i + 1) * h.test
    BY <1>1, <1>3, <1>4, SMT
  <2>3. (n - i + 1) * h.test <= n * h.test
    BY <1>1, <1>3, <1>4, SMT
  <2> QED BY <1>1, <1>3, <1>4, <2>1, <2>2, <2>3
<1> HIDE DEF back
<1>6. /\ WindowAt(h, n, i).trainStart = h.bars - back - h.test - h.train
      /\ WindowAt(h, n, i).testEnd = h.bars - back
  BY DEF WindowAt, back
<1>7. n * h.test \in Int
  BY <1>1, <1>3
<1> QED BY <1>1, <1>3, <1>5, <1>6, <1>7 DEF n

\* The newest test segment ends at the last bar.
LEMMA NewestEndsAtTheLastBar ==
  ASSUME NEW h \in Requests
  PROVE  WindowAt(h, Fitting(h), Fitting(h)).testEnd = h.bars
PROOF
<1>1. h.bars \in Nat /\ h.test \in Nat
  BY DEF Requests
<1>2. Fitting(h) \in Int
  BY FittingBound
<1>3. (Fitting(h) - Fitting(h)) * h.test = 0
  BY <1>1, <1>2
<1> QED BY <1>1, <1>3 DEF WindowAt

\* Rolling forward: no bar is in the test segment of two windows.
LEMMA TestsRollForward ==
  ASSUME NEW h \in Requests, NEW i \in 1 .. Fitting(h), NEW j \in 1 .. Fitting(h), i < j
  PROVE  WindowAt(h, Fitting(h), i).testEnd <= WindowAt(h, Fitting(h), j).testStart
PROOF
<1>1. h.bars \in Nat /\ h.test \in Nat /\ h.test > 0
  BY DEF Requests
<1>2. Fitting(h) \in Int
  BY FittingBound
<1> DEFINE n == Fitting(h)
           a == (n - i) * h.test
           b == (n - j) * h.test
<1>3. n \in Int
  BY <1>2
<1>4. i \in Int /\ j \in Int
  OBVIOUS
<1> HIDE DEF n
<1>5. a \in Int /\ b \in Int /\ b + h.test <= a
  <2>1. b + h.test = (n - j + 1) * h.test
    BY <1>1, <1>3, <1>4, SMT
  <2>2. (n - j + 1) * h.test <= (n - i) * h.test
    BY <1>1, <1>3, <1>4, SMT
  <2> QED BY <1>1, <1>3, <1>4, <2>1, <2>2
<1> HIDE DEF a, b
<1>6. /\ WindowAt(h, n, i).testEnd = h.bars - a
      /\ WindowAt(h, n, j).testStart = h.bars - b - h.test
  BY DEF WindowAt, a, b
<1> QED BY <1>1, <1>3, <1>5, <1>6 DEF n

\* The windows of a run are exactly those the loop builds.
LEMMA ComputedWindows ==
  ASSUME NEW h \in Requests
  PROVE  /\ ComputeWindows(h) = [i \in 1 .. Fitting(h) |-> WindowAt(h, Fitting(h), i)]
         /\ ComputeWindows(h) \in Seq(Windows)
         /\ Fitting(h) \in Int
         /\ Fitting(h) > 0 => Len(ComputeWindows(h)) = Fitting(h)
PROOF
<1>1. h.bars \in Nat /\ h.train \in Nat /\ h.test \in Nat /\ h.num \in Nat
        /\ h.train > 0 /\ h.test > 0 /\ h.num > 0
  BY DEF Requests
<1>2. Fitting(h) \in Int
  BY FittingBound
<1>3. TooEarly(h) = {}
  BY NoWindowStartsBeforeTheData, <1>1, <1>2 DEF TooEarly, WindowAt
<1>4. Cardinality(TooEarly(h)) = 0
  BY <1>3, FS_EmptySet
<1>5. ComputeWindows(h) = [i \in 1 .. Fitting(h) |-> WindowAt(h, Fitting(h), i)]
  BY <1>1, <1>2, <1>4 DEF ComputeWindows
<1>6. ASSUME NEW i \in 1 .. Fitting(h)
      PROVE  WindowAt(h, Fitting(h), i) \in Windows
  <2>1. (Fitting(h) - i) * h.test \in Int
    BY <1>1, <1>2
  <2> QED BY <1>1, <2>1 DEF WindowAt, Windows
<1>7. CASE Fitting(h) > 0
  <2>1. Fitting(h) \in Nat
    BY <1>2, <1>7
  <2> QED BY <1>2, <1>5, <1>6, <1>7, <2>1
<1>8. CASE ~(Fitting(h) > 0)
  <2>1. 1 .. Fitting(h) = 1 .. 0
    BY <1>2, <1>8
  <2>2. [i \in 1 .. 0 |-> WindowAt(h, Fitting(h), i)] \in Seq(Windows)
    BY <1>6, <2>1
  <2> QED BY <1>2, <1>5, <1>8, <2>1, <2>2
<1> QED BY <1>7, <1>8

\* What the module's docstring promises, of every request on every history: the
\* test bars of a window were never seen by the sweep that chose its parameters, no
\* bar is tested twice, and everything lies in the data (compute_windows).
THEOREM ComputedWindowsHonest ==
  ASSUME NEW h \in Requests
  PROVE  LET ws == ComputeWindows(h) IN
         /\ \A i \in DOMAIN ws : HeldOut(ws[i])
         /\ Anchored(ws, h)
         /\ TestsDisjoint(ws)
PROOF
<1> DEFINE ws == ComputeWindows(h)
           n == Fitting(h)
<1>1. /\ DOMAIN ws = 1 .. n
      /\ \A i \in 1 .. n : ws[i] = WindowAt(h, n, i)
      /\ n \in Int
  BY ComputedWindows
<1>2. ws \in Seq(Windows) /\ (n > 0 => Len(ws) = n)
  BY ComputedWindows
<1> HIDE DEF ws
<1>3. \A i \in DOMAIN ws : HeldOut(ws[i])
  BY <1>1, WindowsHeldOut
<1>4. \A i \in DOMAIN ws : ws[i].trainStart >= 0 /\ ws[i].testEnd <= h.bars
  BY <1>1, NoWindowStartsBeforeTheData
<1>5. ws # << >> => ws[Len(ws)].testEnd = h.bars
  <2>1. SUFFICES ASSUME ws # << >>
                 PROVE  ws[Len(ws)].testEnd = h.bars
    OBVIOUS
  <2>2. Len(ws) \in DOMAIN ws
    BY <1>2, <2>1
  <2>3. n > 0 /\ Len(ws) = n
    BY <1>1, <1>2, <2>2
  <2> QED BY <1>1, <2>3, NewestEndsAtTheLastBar
<1>6. \A i, j \in DOMAIN ws : i < j => ws[i].testEnd <= ws[j].testStart
  BY <1>1, TestsRollForward
<1> QED BY <1>3, <1>4, <1>5, <1>6 DEF Anchored, TestsDisjoint, ws

(***************************************************************************)
(* The way of an id.                                                       *)
(***************************************************************************)
Listed(j) == \E i \in DOMAIN list[Kind(j)] : list[Kind(j)][i] = j
Held(j)   == \E w \in Workers : held[w] = j
Once(j)   == \A a, b \in DOMAIN list[Kind(j)] :
               list[Kind(j)][a] = j /\ list[Kind(j)][b] = j => a = b

\* A list holds ids of its own kind only.
ListsApart == \A k \in Kinds : \A i \in DOMAIN list[k] : list[k][i] \in Jobs /\ Kind(list[k][i]) = k

\* Before its push an id is in nobody's hands and no worker has written its row.
Unpushed ==
  \A j \in Jobs :
    /\ row[j] = "none" \/ j \in request => pushes[j] = 0
    /\ j \in request => row[j] # "none"
    /\ pushes[j] = 0 => ~Listed(j) /\ ~Held(j) /\ row[j] \in {"none", "pending", "deleted"}

\* An id pushed once is in one place at most: a position of its list, or a worker.
OnePlace ==
  \A j \in Jobs : pushes[j] = 1 =>
    /\ Once(j)
    /\ Listed(j) => ~Held(j)
    /\ \A v, w \in Workers : held[v] = j /\ held[w] = j => v = w

\* Once such a job is completed it is in no place at all.
CompletedLeft ==
  \A j \in Jobs : pushes[j] <= 1 /\ row[j] = "completed" => ~Listed(j) /\ ~Held(j)

\* A worker holds a job exactly while it is working on one.
HoldsWhileBusy == \A w \in Workers : pc[w] \in {"down", "idle"} <=> held[w] = NoJob

\* A status written by a worker means that the job was run.
RanBefore ==
  /\ \A j \in Jobs : row[j] \in {"running", "completed", "failed"} => runs[j] > 0
  /\ \A w \in Workers : pc[w] \in {"computing", "saving", "failing"} => runs[held[w]] > 0

Journey == TypeOK /\ ListsApart /\ Unpushed /\ OnePlace /\ CompletedLeft /\ HoldsWhileBusy /\ RanBefore

(***************************************************************************)
(* Types.                                                                  *)
(***************************************************************************)
USE DEF db, api, proc, hist

LEMMA KindOf == \A j \in Jobs : Kind(j) \in Kinds
BY DEF Kind, Kinds

LEMMA HeaderIsRequest == \A h \in Headers : h \in Requests
BY JobsAssumption DEF Requests

LEMMA PoppedType ==
  ASSUME list \in [Kinds -> Seq(Jobs)], NEW k \in Kinds, list[k] # << >>
  PROVE  /\ Popped(k) \in [Kinds -> Seq(Jobs)]
         /\ Head(list[k]) \in Jobs
BY DEF Popped

\* Every request has windows, and the header of no request has none.
LEMMA WindowsOfHeader ==
  ASSUME NEW h \in Headers \cup {NoHeader}
  PROVE  ComputeWindows(h) \in Seq(Windows)
PROOF
<1>1. CASE h \in Headers
  BY <1>1, HeaderIsRequest, ComputedWindows
<1>2. CASE h = NoHeader
  BY <1>2 DEF ComputeWindows, NoHeader
<1> QED BY <1>1, <1>2

ProcTypes ==
  /\ pc \in [Workers -> Stages] /\ held \in [Workers -> Jobs \cup {NoJob}]
  /\ walked \in [Workers -> Seq(Windows)]

\* Whatever a worker does with its job, its own variables keep their types.
LEMMA MoveTypes ==
  ASSUME ProcTypes, NEW w \in Workers
  PROVE  /\ ToIdle(w) => ProcTypes'
         /\ \A s \in Stages : To(w, s) => ProcTypes'
         /\ Raise(w) => ProcTypes'
         /\ Saved(w) => ProcTypes'
PROOF
<1>1. ToIdle(w) => ProcTypes'
  BY DEF ProcTypes, ToIdle, Leave, Stages
<1>2. \A s \in Stages : To(w, s) => ProcTypes'
  BY DEF ProcTypes, To
<1>3. "failing" \in Stages
  BY DEF Stages
<1> QED BY <1>1, <1>2, <1>3 DEF Raise, Saved

LEMMA FaultTypes ==
  ASSUME faults \in 0 .. MaxFaults
  PROVE  /\ Fault => faults' \in 0 .. MaxFaults
         /\ UNCHANGED faults => faults' \in 0 .. MaxFaults
BY JobsAssumption DEF Fault

LEMMA InitTypes == Init => TypeOK
BY JobsAssumption DEF Init, TypeOK, Statuses, Stages, Exists, Jobs

LEMMA TypesStep == TypeOK /\ [Next]_vars => TypeOK'
PROOF
<1> SUFFICES ASSUME TypeOK, [Next]_vars PROVE TypeOK'
  OBVIOUS
<1> USE JobsAssumption DEF TypeOK, Statuses, Stages, Jobs
<1>1. ASSUME NEW j \in Jobs, CreateBacktest(j) PROVE TypeOK'
  BY <1>1 DEF CreateBacktest
<1>2. ASSUME NEW j \in Jobs, CreateWalkforward(j) PROVE TypeOK'
  BY <1>2 DEF CreateWalkforward
<1>3. ASSUME NEW j \in Jobs, Enqueue(j) PROVE TypeOK'
  <2>1. PICK copies \in {1, 2} :
          /\ pushes' = [pushes EXCEPT ![j] = copies]
          /\ list' = [list EXCEPT ![Kind(j)] = @ \o [i \in 1 .. copies |-> j]]
    BY <1>3 DEF Enqueue
  <2>2. [i \in 1 .. copies |-> j] \in Seq(Jobs)
    OBVIOUS
  <2>3. list' \in [Kinds -> Seq(Jobs)]
    BY <2>1, <2>2, KindOf
  <2>4. answer' \in [Polled -> Statuses \cup {"polling"}]
    BY <1>3 DEF Enqueue, Answered
  <2>5. pushes' \in [Jobs -> 0 .. 2] /\ request' \subseteq Jobs
    BY <1>3, <2>1 DEF Enqueue
  <2> QED BY <1>3, <2>3, <2>4, <2>5 DEF Enqueue
<1>4. ASSUME NEW j \in Jobs, EnqueueFails(j) PROVE TypeOK'
  BY <1>4 DEF EnqueueFails, Answered, Fault
<1>5. ASSUME NEW j \in Jobs, PollAnswers(j) PROVE TypeOK'
  BY <1>5 DEF PollAnswers, Terminal
<1>6. ASSUME NEW j \in Jobs, PollTimesOut(j) PROVE TypeOK'
  BY <1>6 DEF PollTimesOut, Terminal, Exists
<1>7. ASSUME NEW j \in Jobs, Delete(j) PROVE TypeOK'
  BY <1>7 DEF Delete
<1>8. ASSUME NEW j \in Jobs, Age(j) PROVE TypeOK'
  BY <1>8 DEF Age
<1>9. ASSUME NEW w \in Workers, Boot(w) PROVE TypeOK'
  BY <1>9 DEF Boot, ToIdle, Leave, Fault
<1>10. ASSUME NEW w \in Workers, Pop(w) PROVE TypeOK'
  BY <1>10, PoppedType DEF Pop, NextKind, Kinds
<1>11. ASSUME NEW w \in Workers, PopReplyLost(w) PROVE TypeOK'
  BY <1>11, PoppedType DEF PopReplyLost, NextKind, Kinds, Fault
<1>12. ASSUME NEW w \in Workers, Load(w) PROVE TypeOK'
  <2>1. ProcTypes' /\ faults' \in 0 .. MaxFaults
    BY <1>12, MoveTypes, FaultTypes DEF Load, ProcTypes
  <2> QED BY <1>12, <2>1 DEF Load, ProcTypes
<1>13. ASSUME NEW w \in Workers, MarkRunning(w) PROVE TypeOK'
  <2>1. ProcTypes' /\ faults' \in 0 .. MaxFaults
    BY <1>13, MoveTypes, FaultTypes DEF MarkRunning, ProcTypes
  <2>2. held[w] \in Jobs \/ held[w] = NoJob
    OBVIOUS
  <2>3. runs' \in [Jobs -> Nat]
    BY <1>13, <2>2 DEF MarkRunning
  <2>4. row' \in [Jobs -> Statuses]
    BY <1>13, <2>2 DEF MarkRunning
  <2>5. aged' \subseteq Jobs
    BY <1>13, <2>2 DEF MarkRunning
  <2> QED BY <1>13, <2>1, <2>3, <2>4, <2>5 DEF MarkRunning, ProcTypes
<1>14. ASSUME NEW w \in Workers, RunBacktest(w) PROVE TypeOK'
  BY <1>14 DEF RunBacktest, To, Raise
<1>15. ASSUME NEW w \in Workers, RunWindow(w) PROVE TypeOK'
  <2>1. ProcTypes'
    <3>1. header[held[w]] \in Headers \cup {NoHeader}
      BY <1>15 DEF RunWindow
    <3>2. ComputeWindows(header[held[w]]) \in Seq(Windows)
      BY <3>1, WindowsOfHeader
    <3>3. \A i \in DOMAIN ComputeWindows(header[held[w]]) :
            ComputeWindows(header[held[w]])[i] \in Windows
      BY <3>2
    <3> HIDE DEF TypeOK, Stages
    <3>4. ProcTypes /\ "saving" \in Stages
      BY DEF TypeOK, ProcTypes, Stages
    <3>5. CASE To(w, "saving") \/ Raise(w)
      BY <3>4, <3>5, MoveTypes
    <3>6. CASE ~(To(w, "saving") \/ Raise(w))
      <4>1. PICK i \in DOMAIN ComputeWindows(header[held[w]]) :
              /\ walked' = [walked EXCEPT ![w] = Append(@, ComputeWindows(header[held[w]])[i])]
              /\ UNCHANGED <<pc, held>>
        BY <1>15, <3>6 DEF RunWindow
      <4> QED BY <3>3, <3>4, <4>1 DEF ProcTypes
    <3> QED BY <3>5, <3>6
  <2> QED BY <1>15, <2>1 DEF RunWindow, ProcTypes
<1>16. ASSUME NEW w \in Workers, SaveBacktest(w) PROVE TypeOK'
  <2>1. ProcTypes' /\ faults' \in 0 .. MaxFaults
    BY <1>16, MoveTypes, FaultTypes DEF SaveBacktest, ProcTypes
  <2>2. row' \in [Jobs -> Statuses]
    BY <1>16 DEF SaveBacktest
  <2>3. aged' \subseteq Jobs
    BY <1>16 DEF SaveBacktest
  <2>4. curves' \in [BackJobs -> Nat]
    BY <1>16 DEF SaveBacktest
  <2> QED BY <1>16, <2>1, <2>2, <2>3, <2>4 DEF SaveBacktest, ProcTypes
<1>17. ASSUME NEW w \in Workers, SaveWalkforward(w) PROVE TypeOK'
  <2>1. ProcTypes' /\ faults' \in 0 .. MaxFaults
    BY <1>17, MoveTypes, FaultTypes DEF SaveWalkforward, ProcTypes
  <2>2. row' \in [Jobs -> Statuses]
    BY <1>17 DEF SaveWalkforward
  <2>3. aged' \subseteq Jobs
    BY <1>17 DEF SaveWalkforward
  <2>4. windows' \in [WalkJobs -> Seq(Windows)]
    BY <1>17 DEF SaveWalkforward
  <2> QED BY <1>17, <2>1, <2>2, <2>3, <2>4 DEF SaveWalkforward, ProcTypes
<1>18. ASSUME NEW w \in Workers, MarkFailed(w) PROVE TypeOK'
  BY <1>18 DEF MarkFailed, ToIdle, Leave, Fault
<1>19. ASSUME NEW w \in Workers, Crash(w) PROVE TypeOK'
  BY <1>19 DEF Crash, Leave, Fault
<1>20. CASE UNCHANGED vars
  BY <1>20 DEF vars
<1> QED
  BY <1>1, <1>2, <1>3, <1>4, <1>5, <1>6, <1>7, <1>8, <1>9, <1>10, <1>11, <1>12, <1>13,
     <1>14, <1>15, <1>16, <1>17, <1>18, <1>19, <1>20
     DEF Next, WorkerStep, EnqueueStep, PollStep

\* Types are kept for any number of jobs, workers and faults.
THEOREM Types == Spec => []TypeOK
PROOF
<1>1. Init => TypeOK
  BY InitTypes
<1>2. TypeOK /\ [Next]_vars => TypeOK'
  BY TypesStep
<1> QED BY <1>1, <1>2, PTL DEF Spec

(***************************************************************************)
(* The journey of an id.                                                   *)
(***************************************************************************)
LEMMA SameLists ==
  ASSUME list' = list
  PROVE  \A j : (Listed(j)' <=> Listed(j)) /\ (Once(j)' <=> Once(j))
BY DEF Listed, Once

\* No list and no push count changes and no worker takes a job.
Frame ==
  /\ list' = list /\ pushes' = pushes
  /\ \A w \in Workers : held'[w] = held[w] \/ held'[w] = NoJob

\* Then every id stays where it is, or is let go.
LEMMA FramePlaces ==
  ASSUME Frame, ListsApart, OnePlace
  PROVE  /\ ListsApart' /\ OnePlace'
         /\ \A j \in Jobs : (Listed(j)' <=> Listed(j)) /\ (Held(j)' => Held(j))
PROOF
<1>1. \A j : (Listed(j)' <=> Listed(j)) /\ (Once(j)' <=> Once(j))
  BY SameLists DEF Frame
<1>2. \A j \in Jobs, w \in Workers : held'[w] = j => held[w] = j
  BY JobsAssumption DEF Frame
<1>3. \A j \in Jobs : Held(j)' => Held(j)
  BY <1>2 DEF Held
<1>4. ListsApart'
  BY DEF Frame, ListsApart
<1>5. OnePlace'
  BY <1>1, <1>2, <1>3 DEF Frame, OnePlace
<1> QED BY <1>1, <1>3, <1>4, <1>5

\* What leaving a job, and going on with it, do to a worker.
LEMMA Moves ==
  ASSUME TypeOK, NEW w \in Workers
  PROVE  /\ \A s : Leave(w, s) =>
              /\ \A v \in Workers : v # w => pc'[v] = pc[v] /\ held'[v] = held[v]
              /\ pc'[w] = s /\ held'[w] = NoJob /\ walked'[w] = << >>
         /\ \A s : To(w, s) =>
              /\ \A v \in Workers : v # w => pc'[v] = pc[v]
              /\ pc'[w] = s /\ held' = held
BY DEF TypeOK, Leave, To

Busy == {"computing", "saving", "failing"}

\* What a worker does to the rows: of pushed jobs only, and it completes a job as
\* it lets go of it.
RowsBy(w) ==
  /\ request' = request
  /\ \A j \in Jobs : \/ row'[j] = row[j]
                     \/ pushes[j] > 0 /\ row'[j] \in {"running", "failed"}
                     \/ row'[j] = "completed" /\ held[w] = j /\ held'[w] = NoJob

\* It marks the job running before it does anything else for it.
RunsBy(w) ==
  /\ \A j \in Jobs : /\ runs'[j] >= runs[j]
                     /\ row'[j] = row[j] \/ row[j] = "running" \/ runs'[j] > 0
  /\ \A v \in Workers : pc'[v] \in Busy =>
       held'[v] = held[v] /\ (pc[v] \in Busy \/ runs'[held[v]] > 0)

\* So a step of a worker that takes no new job keeps the invariant.
LEMMA WorkerKeeps ==
  ASSUME TypeOK, TypeOK', ListsApart, Unpushed, OnePlace, CompletedLeft, HoldsWhileBusy, RanBefore,
         NEW w \in Workers, Frame, RowsBy(w), RunsBy(w)
  PROVE  ListsApart' /\ Unpushed' /\ OnePlace' /\ CompletedLeft' /\ RanBefore'
PROOF
<1>1. /\ ListsApart' /\ OnePlace'
      /\ \A j \in Jobs : (Listed(j)' <=> Listed(j)) /\ (Held(j)' => Held(j))
  BY FramePlaces
<1>2. \A j \in Jobs : /\ pushes[j] \in 0 .. 2 /\ pushes'[j] = pushes[j] /\ j # NoJob
                     /\ runs[j] \in Nat /\ runs'[j] \in Nat
  BY JobsAssumption DEF TypeOK, Frame
<1>3. \A j \in Jobs : held[w] = j => Held(j)
  BY DEF Held
<1>4. Unpushed'
  BY <1>1, <1>2, <1>3 DEF Unpushed, RowsBy
<1>5. ASSUME NEW j \in Jobs, pushes[j] <= 1, row'[j] = "completed"
      PROVE  ~Listed(j)' /\ ~Held(j)'
  <2>1. CASE row[j] = "completed"
    BY <1>1, <1>5, <2>1 DEF CompletedLeft
  <2>2. CASE held[w] = j /\ held'[w] = NoJob
    <3>1. pushes[j] = 1
      BY <1>2, <1>3, <1>5, <2>2 DEF Unpushed
    <3>2. ~Listed(j)
      BY <1>3, <2>2, <3>1 DEF OnePlace
    <3>3. \A v \in Workers : held[v] = j => v = w
      BY <2>2, <3>1 DEF OnePlace
    <3>4. \A v \in Workers : held'[v] # j
      BY <1>2, <2>2, <3>3 DEF Frame
    <3> QED BY <1>1, <3>2, <3>4 DEF Held
  <2> QED BY <1>5, <2>1, <2>2 DEF RowsBy
<1>6. CompletedLeft'
  BY <1>2, <1>5 DEF CompletedLeft
<1>7. \A v \in Workers : pc[v] \in Busy => held[v] \in Jobs
  BY DEF Busy, HoldsWhileBusy, TypeOK
<1>8. \A j \in Jobs : row'[j] \in {"running", "completed", "failed"} => runs'[j] > 0
  <2>1. \A j \in Jobs : runs[j] > 0 => runs'[j] > 0
    BY <1>2 DEF RunsBy
  <2> QED BY <2>1 DEF RunsBy, RanBefore
<1>9. \A v \in Workers : pc'[v] \in Busy => runs'[held'[v]] > 0
  <2>1. SUFFICES ASSUME NEW v \in Workers, pc'[v] \in Busy, pc[v] \in Busy
                 PROVE  runs'[held[v]] > 0
    BY DEF RunsBy
  <2>2. held[v] \in Jobs /\ runs[held[v]] > 0
    BY <1>7, <2>1 DEF RanBefore, Busy
  <2>3. runs[held[v]] \in Nat /\ runs'[held[v]] \in Nat /\ runs'[held[v]] >= runs[held[v]]
    BY <1>2, <2>2 DEF RunsBy
  <2> QED BY <2>2, <2>3
<1>10. RanBefore'
  BY <1>8, <1>9 DEF RanBefore, Busy
<1> QED BY <1>1, <1>4, <1>6, <1>10

\* A pop takes the head off its list and leaves every other id where it is.
LEMMA PopLists ==
  ASSUME TypeOK, ListsApart, NEW k \in Kinds, list[k] # << >>, list' = Popped(k),
         NEW h, h = Head(list[k])
  PROVE  /\ h \in Jobs /\ Listed(h)
         /\ ListsApart'
         /\ \A j \in Jobs : (Listed(j)' => Listed(j)) /\ (Once(j) => Once(j)')
         /\ Once(h) => ~Listed(h)'
PROOF
<1>1. list \in [Kinds -> Seq(Jobs)]
  BY DEF TypeOK
<1>2. /\ list' = [list EXCEPT ![k] = Tail(@)]
      /\ list[k] \in Seq(Jobs) /\ Len(list[k]) > 0
  BY <1>1 DEF Popped
<1>3. /\ DOMAIN list'[k] = 1 .. Len(list[k]) - 1
      /\ \A i \in DOMAIN list'[k] : i + 1 \in DOMAIN list[k] /\ list'[k][i] = list[k][i + 1]
      /\ \A m \in Kinds : m # k => list'[m] = list[m]
  BY <1>1, <1>2
<1>4. 1 \in DOMAIN list[k] /\ list[k][1] = h /\ h \in Jobs /\ Kind(h) = k
  BY <1>1, <1>2 DEF ListsApart
<1>5. Listed(h)
  BY <1>4 DEF Listed
<1>6. ListsApart'
  BY <1>3 DEF ListsApart
<1>7. \A j \in Jobs : Listed(j)' => Listed(j)
  BY <1>3, KindOf DEF Listed
<1>8. \A j \in Jobs : Once(j) => Once(j)'
  <2>1. SUFFICES ASSUME NEW j \in Jobs, Once(j),
                        NEW a \in DOMAIN list'[Kind(j)], NEW b \in DOMAIN list'[Kind(j)],
                        list'[Kind(j)][a] = j, list'[Kind(j)][b] = j
                 PROVE  a = b
    BY DEF Once
  <2>2. CASE Kind(j) = k
    <3>1. a + 1 = b + 1
      BY <1>3, <2>1, <2>2 DEF Once
    <3>2. a \in Int /\ b \in Int
      BY <1>2, <1>3, <2>2
    <3> QED BY <3>1, <3>2
  <2>3. CASE Kind(j) # k
    BY <1>3, <2>1, <2>3, KindOf DEF Once
  <2> QED BY <2>2, <2>3
<1>9. Once(h) => ~Listed(h)'
  <2>1. SUFFICES ASSUME Once(h), NEW i \in DOMAIN list'[k], list'[k][i] = h
                 PROVE  FALSE
    BY <1>4 DEF Listed
  <2>2. i + 1 \in DOMAIN list[k] /\ list[k][i + 1] = h /\ i \in 1 .. Len(list[k]) - 1
    BY <1>3, <2>1
  <2>3. i + 1 = 1
    BY <1>4, <2>1, <2>2 DEF Once
  <2> QED BY <1>2, <2>2, <2>3
<1> QED BY <1>4, <1>5, <1>6, <1>7, <1>8, <1>9

\* A push adds copies of one id at the end.
LEMMA EnqueueLists ==
  ASSUME TypeOK, ListsApart, NEW j \in Jobs, NEW copies \in {1, 2},
         list' = [list EXCEPT ![Kind(j)] = @ \o [i \in 1 .. copies |-> j]]
  PROVE  /\ ListsApart'
         /\ \A i \in Jobs : i # j => (Listed(i)' => Listed(i)) /\ (Once(i) => Once(i)')
         /\ copies = 1 /\ ~Listed(j) => Once(j)'
PROOF
<1> DEFINE k == Kind(j)
           add == [i \in 1 .. copies |-> j]
<1>1. list \in [Kinds -> Seq(Jobs)] /\ k \in Kinds
  BY KindOf DEF TypeOK
<1>2. add \in Seq(Jobs) /\ Len(add) = copies /\ \A i \in 1 .. copies : add[i] = j
  OBVIOUS
<1> HIDE DEF add
<1>3. list'[k] = list[k] \o add /\ \A m \in Kinds : m # k => list'[m] = list[m]
  BY <1>1 DEF add
<1>4. \A i \in DOMAIN list'[k] :
        \/ i \in DOMAIN list[k] /\ list'[k][i] = list[k][i]
        \/ i \in (Len(list[k]) + 1) .. (Len(list[k]) + copies) /\ list'[k][i] = j
  BY <1>1, <1>2, <1>3
<1>5. ListsApart'
  BY <1>1, <1>3, <1>4 DEF ListsApart
<1>6. ASSUME NEW i \in Jobs, i # j
      PROVE  (Listed(i)' => Listed(i)) /\ (Once(i) => Once(i)')
  BY <1>1, <1>3, <1>4, <1>6, KindOf, SMTT(30) DEF Listed, Once
<1>7. copies = 1 /\ ~Listed(j) => Once(j)'
  <2>1. SUFFICES ASSUME copies = 1, ~Listed(j),
                        NEW a \in DOMAIN list'[k], NEW b \in DOMAIN list'[k],
                        list'[k][a] = j, list'[k][b] = j
                 PROVE  a = b
    BY DEF Once
  <2>2. a \in (Len(list[k]) + 1) .. (Len(list[k]) + 1)
    BY <1>4, <2>1 DEF Listed
  <2>3. b \in (Len(list[k]) + 1) .. (Len(list[k]) + 1)
    BY <1>4, <2>1 DEF Listed
  <2>4. Len(list[k]) \in Nat
    BY <1>1
  <2> QED BY <2>2, <2>3, <2>4
<1> QED BY <1>5, <1>6, <1>7

LEMMA JourneyInit == Init => Journey
PROOF
<1> SUFFICES ASSUME Init PROVE Journey
  OBVIOUS
<1>1. TypeOK
  BY InitTypes
<1>2. \A j \in Jobs : ~Listed(j)
  BY KindOf DEF Init, Listed
<1> QED BY <1>1, <1>2, JobsAssumption
     DEF Init, Journey, ListsApart, Unpushed, OnePlace, CompletedLeft, HoldsWhileBusy, RanBefore, Held

LEMMA JourneyStep == Journey /\ [Next]_vars => Journey'
PROOF
<1> SUFFICES ASSUME Journey, [Next]_vars PROVE Journey'
  OBVIOUS
<1> DEFINE Rest == ListsApart /\ Unpushed /\ OnePlace /\ CompletedLeft /\ HoldsWhileBusy /\ RanBefore
<1>t. TypeOK /\ TypeOK' /\ Rest
  BY TypesStep DEF Journey
<1>j. \A j \in Jobs : pushes[j] \in 0 .. 2 /\ runs[j] \in Nat /\ row[j] \in Statuses /\ j # NoJob
  BY <1>t, JobsAssumption DEF TypeOK
<1>w. \A w \in Workers : pc[w] \in Stages /\ held[w] \in Jobs \cup {NoJob}
  BY <1>t DEF TypeOK
<1>u. \A j \in Jobs : row[j] = "running" \/ Held(j) => pushes[j] > 0
  BY <1>t, <1>j DEF Unpushed
<1>h. \A w \in Workers : pc[w] \notin {"down", "idle"} => held[w] \in Jobs /\ pushes[held[w]] > 0
  BY <1>t, <1>w, <1>u DEF HoldsWhileBusy, Held
<1>1. ASSUME NEW j \in Jobs, CreateBacktest(j) PROVE Rest'
  <2>1. Frame
    BY <1>1 DEF Frame, CreateBacktest
  <2>2. ListsApart' /\ OnePlace' /\ \A i \in Jobs : (Listed(i)' <=> Listed(i)) /\ (Held(i)' => Held(i))
    BY <1>t, <2>1, FramePlaces
  <2>3. Unpushed' /\ CompletedLeft' /\ HoldsWhileBusy' /\ RanBefore'
    BY <1>t, <1>j, <1>w, <1>1, <2>2
       DEF CreateBacktest, Unpushed, CompletedLeft, HoldsWhileBusy, RanBefore, TypeOK
  <2> QED BY <2>2, <2>3
<1>2. ASSUME NEW j \in Jobs, CreateWalkforward(j) PROVE Rest'
  <2>1. Frame
    BY <1>2 DEF Frame, CreateWalkforward
  <2>2. ListsApart' /\ OnePlace' /\ \A i \in Jobs : (Listed(i)' <=> Listed(i)) /\ (Held(i)' => Held(i))
    BY <1>t, <2>1, FramePlaces
  <2>3. Unpushed' /\ CompletedLeft' /\ HoldsWhileBusy' /\ RanBefore'
    BY <1>t, <1>j, <1>w, <1>2, <2>2
       DEF CreateWalkforward, Unpushed, CompletedLeft, HoldsWhileBusy, RanBefore, TypeOK
  <2> QED BY <2>2, <2>3
<1>3. ASSUME NEW j \in Jobs, Enqueue(j) PROVE Rest'
  <2>1. PICK copies \in {1, 2} :
          /\ pushes' = [pushes EXCEPT ![j] = copies]
          /\ list' = [list EXCEPT ![Kind(j)] = @ \o [i \in 1 .. copies |-> j]]
    BY <1>3 DEF Enqueue
  <2>2. /\ ListsApart'
        /\ \A i \in Jobs : i # j => (Listed(i)' => Listed(i)) /\ (Once(i) => Once(i)')
        /\ copies = 1 /\ ~Listed(j) => Once(j)'
    BY <1>t, <2>1, EnqueueLists
  <2>3. /\ pushes[j] = 0 /\ row[j] \in {"pending", "deleted"} /\ ~Listed(j) /\ ~Held(j)
        /\ pushes' = [pushes EXCEPT ![j] = copies] /\ pushes'[j] # 0
    BY <1>t, <1>3, <2>1 DEF Unpushed, Enqueue, TypeOK
  <2>4. /\ \A i \in Jobs : i # j => pushes'[i] = pushes[i]
        /\ \A i \in Jobs : Held(i)' <=> Held(i)
        /\ row' = row /\ held' = held /\ pc' = pc /\ runs' = runs /\ request' = request \ {j}
    BY <1>t, <1>3, <2>1 DEF Enqueue, Held, TypeOK
  <2>5. Unpushed'
    BY <1>t, <2>2, <2>3, <2>4 DEF Unpushed
  <2>6. OnePlace'
    <3>1. SUFFICES ASSUME NEW i \in Jobs, pushes'[i] = 1
                   PROVE  /\ Once(i)' /\ (Listed(i)' => ~Held(i)')
                          /\ \A v, w \in Workers : held'[v] = i /\ held'[w] = i => v = w
      BY DEF OnePlace
    <3>2. CASE i = j
      BY <2>1, <2>2, <2>3, <2>4, <3>1, <3>2 DEF Held, TypeOK
    <3>3. CASE i # j
      BY <1>t, <2>2, <2>4, <3>1, <3>3 DEF OnePlace
    <3> QED BY <3>2, <3>3
  <2>7. CompletedLeft'
    BY <1>t, <2>2, <2>3, <2>4 DEF CompletedLeft
  <2>8. HoldsWhileBusy' /\ RanBefore'
    BY <1>t, <2>4 DEF HoldsWhileBusy, RanBefore
  <2> QED BY <2>2, <2>5, <2>6, <2>7, <2>8
<1>4. ASSUME NEW j \in Jobs, EnqueueFails(j) PROVE Rest'
  <2>1. Frame
    BY <1>4 DEF Frame, EnqueueFails
  <2>2. ListsApart' /\ OnePlace' /\ \A i \in Jobs : (Listed(i)' <=> Listed(i)) /\ (Held(i)' => Held(i))
    BY <1>t, <2>1, FramePlaces
  <2>3. Unpushed' /\ CompletedLeft' /\ HoldsWhileBusy' /\ RanBefore'
    BY <1>t, <1>j, <1>w, <1>4, <2>2
       DEF EnqueueFails, Unpushed, CompletedLeft, HoldsWhileBusy, RanBefore, TypeOK
  <2> QED BY <2>2, <2>3
<1>5. ASSUME NEW j \in Jobs, PollAnswers(j) PROVE Rest'
  <2>1. Frame
    BY <1>5 DEF Frame, PollAnswers
  <2>2. ListsApart' /\ OnePlace' /\ \A i \in Jobs : (Listed(i)' <=> Listed(i)) /\ (Held(i)' => Held(i))
    BY <1>t, <2>1, FramePlaces
  <2>3. Unpushed' /\ CompletedLeft' /\ HoldsWhileBusy' /\ RanBefore'
    BY <1>t, <1>j, <1>w, <1>5, <2>2
       DEF PollAnswers, Unpushed, CompletedLeft, HoldsWhileBusy, RanBefore, TypeOK
  <2> QED BY <2>2, <2>3
<1>6. ASSUME NEW j \in Jobs, PollTimesOut(j) PROVE Rest'
  <2>1. Frame
    BY <1>6 DEF Frame, PollTimesOut
  <2>2. ListsApart' /\ OnePlace' /\ \A i \in Jobs : (Listed(i)' <=> Listed(i)) /\ (Held(i)' => Held(i))
    BY <1>t, <2>1, FramePlaces
  <2>3. Unpushed' /\ CompletedLeft' /\ HoldsWhileBusy' /\ RanBefore'
    BY <1>t, <1>j, <1>w, <1>6, <2>2
       DEF PollTimesOut, Unpushed, CompletedLeft, HoldsWhileBusy, RanBefore, TypeOK
  <2> QED BY <2>2, <2>3
<1>7. ASSUME NEW j \in Jobs, Delete(j) PROVE Rest'
  <2>1. Frame
    BY <1>7 DEF Frame, Delete
  <2>2. ListsApart' /\ OnePlace' /\ \A i \in Jobs : (Listed(i)' <=> Listed(i)) /\ (Held(i)' => Held(i))
    BY <1>t, <2>1, FramePlaces
  <2>3. Unpushed' /\ CompletedLeft' /\ HoldsWhileBusy' /\ RanBefore'
    BY <1>t, <1>j, <1>w, <1>7, <2>2
       DEF Delete, Exists, Unpushed, CompletedLeft, HoldsWhileBusy, RanBefore, TypeOK
  <2> QED BY <2>2, <2>3
<1>8. ASSUME NEW j \in Jobs, Age(j) PROVE Rest'
  <2>1. Frame
    BY <1>8 DEF Frame, Age
  <2>2. ListsApart' /\ OnePlace' /\ \A i \in Jobs : (Listed(i)' <=> Listed(i)) /\ (Held(i)' => Held(i))
    BY <1>t, <2>1, FramePlaces
  <2>3. Unpushed' /\ CompletedLeft' /\ HoldsWhileBusy' /\ RanBefore'
    BY <1>t, <1>j, <1>w, <1>8, <2>2
       DEF Age, Unpushed, CompletedLeft, HoldsWhileBusy, RanBefore, TypeOK
  <2> QED BY <2>2, <2>3
<1>9. ASSUME NEW w \in Workers, Boot(w) PROVE Rest'
  <2>1. Frame
    BY <1>t, <1>9, Moves DEF Frame, Boot, ToIdle, Reclaimed
  <2>2. RowsBy(w)
    BY <1>t, <1>j, <1>u, <1>h, <1>9, Moves
       DEF RowsBy, Boot, ToIdle, Reclaimed, Unpushed, HoldsWhileBusy, Held, TypeOK
  <2>3. RunsBy(w)
    BY <1>t, <1>j, <1>w, <1>9, Moves DEF RunsBy, Busy, Boot, ToIdle, Reclaimed, RanBefore, HoldsWhileBusy, TypeOK
  <2>4. HoldsWhileBusy'
    BY <1>t, <1>j, <1>w, <1>9, Moves DEF Boot, ToIdle, Reclaimed, HoldsWhileBusy
  <2> QED BY <1>t, <2>1, <2>2, <2>3, <2>4, WorkerKeeps
<1>10. ASSUME NEW w \in Workers, Pop(w) PROVE Rest'
  <2>1. NextKind \in Kinds
    BY DEF NextKind, Kinds
  <2>h. PICK h : h = Head(list[NextKind])
    OBVIOUS
  <2>2. /\ h \in Jobs /\ Listed(h) /\ ListsApart'
        /\ \A j \in Jobs : (Listed(j)' => Listed(j)) /\ (Once(j) => Once(j)')
        /\ Once(h) => ~Listed(h)'
    BY <1>t, <1>10, <2>1, <2>h, PopLists DEF Pop
  <2>3. /\ \A v \in Workers : v # w => held'[v] = held[v] /\ pc'[v] = pc[v]
        /\ held'[w] = h /\ pc'[w] = "popped" /\ held[w] = NoJob
        /\ row' = row /\ request' = request /\ pushes' = pushes /\ runs' = runs
    BY <1>t, <1>10, <2>h DEF Pop, TypeOK, HoldsWhileBusy
  <2>4. \A j \in Jobs : Held(j)' => Held(j) \/ j = h
    BY <2>3 DEF Held
  <2>5. pushes[h] \in 1 .. 2
    BY <1>t, <1>j, <2>2 DEF Unpushed
  <2>6. Unpushed'
    BY <1>t, <2>2, <2>3, <2>4, <2>5 DEF Unpushed
  <2>7. OnePlace'
    <3>1. SUFFICES ASSUME NEW j \in Jobs, pushes[j] = 1
                   PROVE  /\ Once(j)' /\ (Listed(j)' => ~Held(j)')
                          /\ \A u, v \in Workers : held'[u] = j /\ held'[v] = j => u = v
      BY <2>3 DEF OnePlace
    <3>2. CASE j = h
      <4>1. Once(h) /\ ~Held(h)
        BY <1>t, <2>2, <3>1, <3>2 DEF OnePlace
      <4>2. \A v \in Workers : held'[v] = h => v = w
        BY <2>3, <4>1 DEF Held
      <4> QED BY <2>2, <3>2, <4>1, <4>2
    <3>3. CASE j # h
      <4>1. Once(j)' /\ (Listed(j)' => ~Held(j)')
        BY <1>t, <2>2, <2>4, <3>1, <3>3 DEF OnePlace
      <4>2. \A v \in Workers : held'[v] = j => held[v] = j
        BY <2>3, <3>3
      <4> QED BY <1>t, <3>1, <4>1, <4>2 DEF OnePlace
    <3> QED BY <3>2, <3>3
  <2>8. CompletedLeft'
    BY <1>t, <2>2, <2>3, <2>4 DEF CompletedLeft
  <2>9. HoldsWhileBusy'
    BY <1>t, <1>j, <2>2, <2>3 DEF HoldsWhileBusy
  <2>10. RanBefore'
    BY <1>t, <2>3 DEF RanBefore
  <2> QED BY <2>2, <2>6, <2>7, <2>8, <2>9, <2>10
<1>11. ASSUME NEW w \in Workers, PopReplyLost(w) PROVE Rest'
  <2>1. NextKind \in Kinds
    BY DEF NextKind, Kinds
  <2>2. /\ ListsApart'
        /\ \A j \in Jobs : (Listed(j)' => Listed(j)) /\ (Once(j) => Once(j)')
    BY <1>t, <1>11, <2>1, PopLists DEF PopReplyLost
  <2>3. UNCHANGED <<db, api, proc, hist>> /\ \A j \in Jobs : Held(j)' <=> Held(j)
    BY <1>11 DEF PopReplyLost, Held
  <2> QED
    BY <1>t, <2>2, <2>3 DEF Unpushed, OnePlace, CompletedLeft, HoldsWhileBusy, RanBefore
<1>12. ASSUME NEW w \in Workers, Load(w) PROVE Rest'
  <2>1. Frame
    BY <1>t, <1>12, Moves DEF Frame, Load, ToIdle
  <2>2. RowsBy(w)
    BY <1>t, <1>j, <1>w, <1>12, Moves DEF RowsBy, Load, ToIdle, Unpushed, HoldsWhileBusy, Held, TypeOK
  <2>3. RunsBy(w)
    BY <1>t, <1>j, <1>w, <1>12, Moves DEF RunsBy, Busy, Load, ToIdle, RanBefore, HoldsWhileBusy, TypeOK
  <2>4. HoldsWhileBusy'
    BY <1>t, <1>j, <1>w, <1>12, Moves DEF Load, ToIdle, HoldsWhileBusy
  <2> QED BY <1>t, <2>1, <2>2, <2>3, <2>4, WorkerKeeps
<1>13. ASSUME NEW w \in Workers, MarkRunning(w) PROVE Rest'
  <2>1. Frame
    BY <1>t, <1>13, Moves DEF Frame, MarkRunning, ToIdle, Exists
  <2>2. RowsBy(w)
    BY <1>t, <1>j, <1>u, <1>h, <1>13, Moves
       DEF RowsBy, MarkRunning, ToIdle, Exists, Unpushed, HoldsWhileBusy, Held, TypeOK
  <2>3. RunsBy(w)
    BY <1>t, <1>j, <1>w, <1>13, Moves DEF RunsBy, Busy, MarkRunning, ToIdle, Exists, RanBefore, HoldsWhileBusy, TypeOK
  <2>4. HoldsWhileBusy'
    BY <1>t, <1>j, <1>w, <1>13, Moves DEF MarkRunning, ToIdle, Exists, HoldsWhileBusy
  <2> QED BY <1>t, <2>1, <2>2, <2>3, <2>4, WorkerKeeps
<1>14. ASSUME NEW w \in Workers, RunBacktest(w) PROVE Rest'
  <2>1. Frame
    BY <1>t, <1>14, Moves DEF Frame, RunBacktest, Raise
  <2>2. RowsBy(w)
    BY <1>t, <1>j, <1>w, <1>14, Moves DEF RowsBy, RunBacktest, Raise, Unpushed, HoldsWhileBusy, Held, TypeOK
  <2>3. RunsBy(w)
    BY <1>t, <1>j, <1>w, <1>14, Moves DEF RunsBy, Busy, RunBacktest, Raise, RanBefore, HoldsWhileBusy, TypeOK
  <2>4. HoldsWhileBusy'
    BY <1>t, <1>j, <1>w, <1>14, Moves DEF RunBacktest, Raise, HoldsWhileBusy
  <2> QED BY <1>t, <2>1, <2>2, <2>3, <2>4, WorkerKeeps
<1>15. ASSUME NEW w \in Workers, RunWindow(w) PROVE Rest'
  <2>1. Frame
    BY <1>t, <1>15, Moves DEF Frame, RunWindow, Raise
  <2>2. RowsBy(w)
    BY <1>t, <1>j, <1>w, <1>15, Moves DEF RowsBy, RunWindow, Raise, Unpushed, HoldsWhileBusy, Held, TypeOK
  <2>3. RunsBy(w)
    BY <1>t, <1>j, <1>w, <1>15, Moves DEF RunsBy, Busy, RunWindow, Raise, RanBefore, HoldsWhileBusy, TypeOK
  <2>4. HoldsWhileBusy'
    BY <1>t, <1>j, <1>w, <1>15, Moves DEF RunWindow, Raise, HoldsWhileBusy
  <2> QED BY <1>t, <2>1, <2>2, <2>3, <2>4, WorkerKeeps
<1>16. ASSUME NEW w \in Workers, SaveBacktest(w) PROVE Rest'
  <2>1. Frame
    BY <1>t, <1>16, Moves DEF Frame, SaveBacktest, Saved, ToIdle, Raise
  <2>2. RowsBy(w)
    BY <1>t, <1>j, <1>u, <1>h, <1>16, Moves
       DEF RowsBy, SaveBacktest, Saved, ToIdle, Raise, Unpushed, HoldsWhileBusy, Held, TypeOK
  <2>3. RunsBy(w)
    BY <1>t, <1>j, <1>w, <1>16, Moves, SMTT(30) DEF RunsBy, Busy, SaveBacktest, Saved, ToIdle, Raise, RanBefore, HoldsWhileBusy, TypeOK
  <2>4. HoldsWhileBusy'
    BY <1>t, <1>j, <1>w, <1>16, Moves DEF SaveBacktest, Saved, ToIdle, Raise, HoldsWhileBusy
  <2> QED BY <1>t, <2>1, <2>2, <2>3, <2>4, WorkerKeeps
<1>17. ASSUME NEW w \in Workers, SaveWalkforward(w) PROVE Rest'
  <2>1. Frame
    BY <1>t, <1>17, Moves DEF Frame, SaveWalkforward, Saved, ToIdle, Raise
  <2>2. RowsBy(w)
    BY <1>t, <1>j, <1>u, <1>h, <1>17, Moves
       DEF RowsBy, SaveWalkforward, Saved, ToIdle, Raise, Unpushed, HoldsWhileBusy, Held, TypeOK
  <2>3. RunsBy(w)
    BY <1>t, <1>j, <1>w, <1>17, Moves, SMTT(30) DEF RunsBy, Busy, SaveWalkforward, Saved, ToIdle, Raise, RanBefore, HoldsWhileBusy, TypeOK
  <2>4. HoldsWhileBusy'
    BY <1>t, <1>j, <1>w, <1>17, Moves DEF SaveWalkforward, Saved, ToIdle, Raise, HoldsWhileBusy
  <2> QED BY <1>t, <2>1, <2>2, <2>3, <2>4, WorkerKeeps
<1>18. ASSUME NEW w \in Workers, MarkFailed(w) PROVE Rest'
  <2>1. Frame
    BY <1>t, <1>18, Moves DEF Frame, MarkFailed, ToIdle
  <2>2. RowsBy(w)
    BY <1>t, <1>j, <1>u, <1>h, <1>18, Moves
       DEF RowsBy, MarkFailed, ToIdle, Unpushed, HoldsWhileBusy, Held, TypeOK
  <2>3. RunsBy(w)
    BY <1>t, <1>j, <1>w, <1>18, Moves DEF RunsBy, Busy, MarkFailed, ToIdle, RanBefore, HoldsWhileBusy, TypeOK
  <2>4. HoldsWhileBusy'
    BY <1>t, <1>j, <1>w, <1>18, Moves DEF MarkFailed, ToIdle, HoldsWhileBusy
  <2> QED BY <1>t, <2>1, <2>2, <2>3, <2>4, WorkerKeeps
<1>19. ASSUME NEW w \in Workers, Crash(w) PROVE Rest'
  <2>1. Frame
    BY <1>t, <1>19, Moves DEF Frame, Crash
  <2>2. RowsBy(w)
    BY <1>t, <1>j, <1>w, <1>19, Moves DEF RowsBy, Crash, Unpushed, HoldsWhileBusy, Held, TypeOK
  <2>3. RunsBy(w)
    BY <1>t, <1>j, <1>w, <1>19, Moves DEF RunsBy, Busy, Crash, RanBefore, HoldsWhileBusy, TypeOK
  <2>4. HoldsWhileBusy'
    BY <1>t, <1>j, <1>w, <1>19, Moves DEF Crash, HoldsWhileBusy
  <2> QED BY <1>t, <2>1, <2>2, <2>3, <2>4, WorkerKeeps
<1>20. CASE UNCHANGED vars
  <2>1. UNCHANGED <<db, list, api, proc, hist>> /\ Frame
    BY <1>20 DEF vars, Frame
  <2>2. ListsApart' /\ OnePlace' /\ \A j \in Jobs : (Listed(j)' <=> Listed(j)) /\ (Held(j)' => Held(j))
    BY <1>t, <2>1, FramePlaces
  <2>3. Unpushed' /\ CompletedLeft'
    BY <1>t, <2>1, <2>2 DEF Unpushed, CompletedLeft
  <2>4. HoldsWhileBusy' /\ RanBefore'
    BY <1>t, <2>1 DEF HoldsWhileBusy, RanBefore
  <2> QED BY <1>t, <2>2, <2>3, <2>4 DEF Journey
<1> QED
  BY <1>t, <1>1, <1>2, <1>3, <1>4, <1>5, <1>6, <1>7, <1>8, <1>9, <1>10, <1>11, <1>12, <1>13, <1>14, <1>15, <1>16, <1>17, <1>18, <1>19, <1>20
     DEF Journey, Next, WorkerStep, EnqueueStep, PollStep

(***************************************************************************)
(* What no step takes back.                                                *)
(***************************************************************************)
\* A deletion is final, a run is remembered, and 'completed' is only followed by a
\* deletion when the id was pushed once.
Kept(j) ==
  /\ pushes'[j] <= 1 => pushes[j] <= 1
  /\ runs[j] > 0 => runs'[j] > 0
  /\ row[j] = "deleted" => row'[j] = "deleted"
  /\ pushes[j] <= 1 /\ row[j] = "completed" => row'[j] \in {"completed", "deleted"}

LEMMA StepKeeps ==
  ASSUME Journey, [Next]_vars, NEW i \in Jobs
  PROVE  Kept(i)
PROOF
<1>t. TypeOK /\ Unpushed /\ CompletedLeft
  BY DEF Journey
<1>j. \A j \in Jobs : pushes[j] \in 0 .. 2 /\ runs[j] \in Nat /\ row[j] \in Statuses /\ j # NoJob
  BY <1>t, JobsAssumption DEF TypeOK
<1>h. \A w \in Workers : held[w] = i => ~(pushes[i] <= 1 /\ row[i] = "completed")
  BY <1>t DEF CompletedLeft, Held
<1>1. ASSUME NEW j \in Jobs, CreateBacktest(j) PROVE Kept(i)
  BY <1>t, <1>j, <1>1 DEF Kept, CreateBacktest, TypeOK
<1>2. ASSUME NEW j \in Jobs, CreateWalkforward(j) PROVE Kept(i)
  BY <1>t, <1>j, <1>2 DEF Kept, CreateWalkforward, TypeOK
<1>3. ASSUME NEW j \in Jobs, Enqueue(j) PROVE Kept(i)
  BY <1>t, <1>j, <1>3 DEF Kept, Enqueue, Unpushed, TypeOK
<1>4. ASSUME NEW j \in Jobs, EnqueueFails(j) PROVE Kept(i)
  BY <1>t, <1>j, <1>4 DEF Kept, EnqueueFails, TypeOK
<1>5. ASSUME NEW j \in Jobs, PollAnswers(j) PROVE Kept(i)
  BY <1>t, <1>j, <1>5 DEF Kept, PollAnswers, TypeOK
<1>6. ASSUME NEW j \in Jobs, PollTimesOut(j) PROVE Kept(i)
  BY <1>t, <1>j, <1>6 DEF Kept, PollTimesOut, TypeOK
<1>7. ASSUME NEW j \in Jobs, Delete(j) PROVE Kept(i)
  BY <1>t, <1>j, <1>7 DEF Kept, Delete, Exists, TypeOK
<1>8. ASSUME NEW j \in Jobs, Age(j) PROVE Kept(i)
  BY <1>t, <1>j, <1>8 DEF Kept, Age, TypeOK
<1>9. ASSUME NEW w \in Workers, Boot(w) PROVE Kept(i)
  BY <1>t, <1>j, <1>h, <1>9 DEF Kept, Boot, Reclaimed, TypeOK
<1>10. ASSUME NEW w \in Workers, Pop(w) PROVE Kept(i)
  BY <1>t, <1>j, <1>h, <1>10 DEF Kept, Pop, TypeOK
<1>11. ASSUME NEW w \in Workers, PopReplyLost(w) PROVE Kept(i)
  BY <1>t, <1>j, <1>h, <1>11 DEF Kept, PopReplyLost, TypeOK
<1>12. ASSUME NEW w \in Workers, Load(w) PROVE Kept(i)
  BY <1>t, <1>j, <1>h, <1>12 DEF Kept, Load, TypeOK
<1>13. ASSUME NEW w \in Workers, MarkRunning(w) PROVE Kept(i)
  BY <1>t, <1>j, <1>h, <1>13 DEF Kept, MarkRunning, Exists, TypeOK
<1>14. ASSUME NEW w \in Workers, RunBacktest(w) PROVE Kept(i)
  BY <1>t, <1>j, <1>h, <1>14 DEF Kept, RunBacktest, TypeOK
<1>15. ASSUME NEW w \in Workers, RunWindow(w) PROVE Kept(i)
  BY <1>t, <1>j, <1>h, <1>15 DEF Kept, RunWindow, TypeOK
<1>16. ASSUME NEW w \in Workers, SaveBacktest(w) PROVE Kept(i)
  BY <1>t, <1>j, <1>h, <1>16 DEF Kept, SaveBacktest, Storable, Exists, TypeOK
<1>17. ASSUME NEW w \in Workers, SaveWalkforward(w) PROVE Kept(i)
  BY <1>t, <1>j, <1>h, <1>17 DEF Kept, SaveWalkforward, Exists, TypeOK
<1>18. ASSUME NEW w \in Workers, MarkFailed(w) PROVE Kept(i)
  BY <1>t, <1>j, <1>h, <1>18 DEF Kept, MarkFailed, Exists, TypeOK
<1>19. ASSUME NEW w \in Workers, Crash(w) PROVE Kept(i)
  BY <1>t, <1>j, <1>h, <1>19 DEF Kept, Crash, TypeOK
<1>20. CASE UNCHANGED vars
  BY <1>20 DEF Kept, vars
<1> QED
  BY <1>1, <1>2, <1>3, <1>4, <1>5, <1>6, <1>7, <1>8, <1>9, <1>10, <1>11, <1>12, <1>13, <1>14, <1>15, <1>16, <1>17, <1>18, <1>19, <1>20
     DEF Next, WorkerStep, EnqueueStep, PollStep

\* 'completed' is the last word on a job that was pushed once: no sweep, restart,
\* retry or late failure of any worker takes it back (backtest_worker, persistence).
THEOREM CompletedFinal == Spec => CompletedIsFinal
PROOF
<1>1. Journey /\ [Next]_vars =>
        [\A j \in Jobs : pushes[j] <= 1 /\ row[j] = "completed"
                           => row'[j] \in {"completed", "deleted"}]_vars
  BY StepKeeps DEF Kept
<1>2. Init => Journey
  BY JourneyInit
<1>3. Journey /\ [Next]_vars => Journey'
  BY JourneyStep
<1> QED BY <1>1, <1>2, <1>3, PTL DEF Spec, CompletedIsFinal

\* What the copilot told of a job stays true (tools._poll_until_terminal).
THEOREM AnswersHold == Spec => []AnswerHolds
PROOF
<1> DEFINE Inv == Journey /\ AnswerHolds
<1>1. Init => Inv
  <2>1. Init => AnswerHolds
    BY DEF Init, AnswerHolds
  <2> QED BY <2>1, JourneyInit
<1>2. Inv /\ [Next]_vars => Inv'
  <2> SUFFICES ASSUME Journey, AnswerHolds, [Next]_vars PROVE AnswerHolds'
    BY JourneyStep
  <2>1. \A i \in Polled : i \in Jobs /\ Kept(i)
    BY StepKeeps, JobsAssumption
  <2>2. /\ \A j \in Jobs : pushes[j] \in 0 .. 2 /\ runs[j] \in Nat
        /\ answer \in [Polled -> Statuses \cup {"polling"}]
    BY DEF Journey, TypeOK
  <2>3. CASE UNCHANGED answer
    BY <2>1, <2>2, <2>3 DEF AnswerHolds, Kept
  <2>4. ASSUME NEW j \in Jobs, Enqueue(j) \/ EnqueueFails(j) \/ PollAnswers(j) \/ PollTimesOut(j)
        PROVE  AnswerHolds'
    <3>1. \A i \in Polled : i # j => answer'[i] = answer[i]
      BY <2>2, <2>4 DEF Enqueue, EnqueueFails, PollAnswers, PollTimesOut, Answered
    <3>2. ASSUME j \in Polled, answer'[j] = "completed" \/ answer'[j] = "failed"
          PROVE  \/ answer'[j] = answer[j]
                 \/ row' = row /\ runs' = runs /\ answer'[j] = row[j]
      BY <2>2, <2>4, <3>2
         DEF Enqueue, EnqueueFails, PollAnswers, PollTimesOut, Answered, Exists, Terminal
    <3>3. ASSUME j \in Polled, answer'[j] = "failed", row' = row, runs' = runs, answer'[j] = row[j]
          PROVE  runs'[j] > 0
      BY <3>3 DEF Journey, RanBefore
    <3> QED BY <2>1, <2>2, <3>1, <3>2, <3>3 DEF AnswerHolds, Kept
  <2>5. UNCHANGED answer
        \/ \E j \in Jobs : Enqueue(j) \/ EnqueueFails(j) \/ PollAnswers(j) \/ PollTimesOut(j)
    BY DEF Next, WorkerStep, EnqueueStep, PollStep, vars, CreateBacktest, CreateWalkforward,
           Delete, Age, Boot, Pop, PopReplyLost, Load, MarkRunning, RunBacktest, RunWindow,
           SaveBacktest, SaveWalkforward, MarkFailed, Crash
  <2> QED BY <2>3, <2>4, <2>5
<1>3. Inv => AnswerHolds
  OBVIOUS
<1> QED BY <1>1, <1>2, <1>3, PTL DEF Spec

(***************************************************************************)
(* What is stored.                                                         *)
(***************************************************************************)
\* A row has the header of some request from its insert on.
Headed == \A j \in WalkJobs : row[j] # "none" => header[j] \in Headers

\* The windows a worker has finished are the first ones of its job, in order, and
\* all of them when it goes to save them.
WalkedAt(w) ==
  LET ws == ComputeWindows(header[held[w]]) IN
  /\ pc[w] \in {"down", "idle", "popped", "loaded"} => walked[w] = << >>
  /\ held[w] \in WalkJobs /\ pc[w] = "computing" =>
       Len(walked[w]) <= Len(ws) /\ \A k \in 1 .. Len(walked[w]) : walked[w][k] = ws[k]
  /\ held[w] \in WalkJobs /\ pc[w] = "saving" => walked[w] = ws

Walked == \A w \in Workers : WalkedAt(w)

Curves ==
  \A j \in BackJobs :
    /\ curves[j] <= 1
    /\ row[j] = "completed" => curves[j] = 1
    /\ ~Exists(j) => curves[j] = 0

StoredWindows ==
  \A j \in WalkJobs : row[j] = "completed" => windows[j] = ComputeWindows(header[j])

Stored == Journey /\ Headed /\ Walked /\ Curves /\ StoredWindows

LEMMA StoredInit == Init => Stored
BY JourneyInit DEF Init, Stored, Headed, Walked, WalkedAt, Curves, StoredWindows, Exists, Jobs

\* Only a creation makes a row, and it is the only one that writes a header.
LEMMA OnlyCreationHeads ==
  ASSUME TypeOK, [Next]_vars
  PROVE  \/ \E j \in Jobs : CreateWalkforward(j)
         \/ header' = header /\ \A i \in WalkJobs : row'[i] # "none" => row[i] # "none"
PROOF
<1> DEFINE Goal == header' = header /\ \A i \in WalkJobs : row'[i] # "none" => row[i] # "none"
<1>w. row \in [Jobs -> Statuses] /\ \A i \in WalkJobs : i \in Jobs /\ i \notin BackJobs
  BY JobsAssumption DEF Jobs, TypeOK
<1>1. ASSUME NEW j \in Jobs, CreateBacktest(j) PROVE Goal
  BY <1>w, <1>1 DEF CreateBacktest
<1>2. ASSUME NEW j \in Jobs, Enqueue(j) PROVE Goal
  BY <1>w, <1>2 DEF Enqueue
<1>3. ASSUME NEW j \in Jobs, EnqueueFails(j) PROVE Goal
  BY <1>w, <1>3 DEF EnqueueFails
<1>4. ASSUME NEW j \in Jobs, PollAnswers(j) PROVE Goal
  BY <1>w, <1>4 DEF PollAnswers
<1>5. ASSUME NEW j \in Jobs, PollTimesOut(j) PROVE Goal
  BY <1>w, <1>5 DEF PollTimesOut
<1>6. ASSUME NEW j \in Jobs, Delete(j) PROVE Goal
  BY <1>w, <1>6 DEF Delete, Exists
<1>7. ASSUME NEW j \in Jobs, Age(j) PROVE Goal
  BY <1>w, <1>7 DEF Age
<1>8. ASSUME NEW w \in Workers, Boot(w) PROVE Goal
  BY <1>w, <1>8 DEF Boot, Reclaimed
<1>9. ASSUME NEW w \in Workers, Pop(w) PROVE Goal
  BY <1>w, <1>9 DEF Pop
<1>10. ASSUME NEW w \in Workers, PopReplyLost(w) PROVE Goal
  BY <1>w, <1>10 DEF PopReplyLost
<1>11. ASSUME NEW w \in Workers, Load(w) PROVE Goal
  BY <1>w, <1>11 DEF Load
<1>12. ASSUME NEW w \in Workers, MarkRunning(w) PROVE Goal
  BY <1>w, <1>12 DEF MarkRunning, Exists
<1>13. ASSUME NEW w \in Workers, RunBacktest(w) PROVE Goal
  BY <1>w, <1>13 DEF RunBacktest
<1>14. ASSUME NEW w \in Workers, RunWindow(w) PROVE Goal
  BY <1>w, <1>14 DEF RunWindow
<1>15. ASSUME NEW w \in Workers, SaveBacktest(w) PROVE Goal
  BY <1>w, <1>15 DEF SaveBacktest, Storable, Exists
<1>16. ASSUME NEW w \in Workers, SaveWalkforward(w) PROVE Goal
  BY <1>w, <1>16 DEF SaveWalkforward, Exists
<1>17. ASSUME NEW w \in Workers, MarkFailed(w) PROVE Goal
  BY <1>w, <1>17 DEF MarkFailed, Exists
<1>18. ASSUME NEW w \in Workers, Crash(w) PROVE Goal
  BY <1>w, <1>18 DEF Crash
<1>19. CASE UNCHANGED vars
  BY <1>19 DEF vars
<1> QED
  BY <1>1, <1>2, <1>3, <1>4, <1>5, <1>6, <1>7, <1>8, <1>9, <1>10, <1>11, <1>12, <1>13, <1>14, <1>15, <1>16, <1>17, <1>18, <1>19
     DEF Next, WorkerStep, EnqueueStep, PollStep

LEMMA HeadedStep ==
  ASSUME Stored, [Next]_vars
  PROVE  Headed' /\ \A j \in WalkJobs : row[j] # "none" => header'[j] = header[j]
PROOF
<1>t. TypeOK /\ Headed /\ \A j \in WalkJobs : j \in Jobs
  BY DEF Stored, Journey, Jobs
<1>1. ASSUME NEW j \in Jobs, CreateWalkforward(j)
      PROVE  Headed' /\ \A i \in WalkJobs : row[i] # "none" => header'[i] = header[i]
  BY <1>t, <1>1 DEF CreateWalkforward, Headed, TypeOK
<1>2. ASSUME header' = header, \A i \in WalkJobs : row'[i] # "none" => row[i] # "none"
      PROVE  Headed' /\ \A i \in WalkJobs : row[i] # "none" => header'[i] = header[i]
  BY <1>t, <1>2 DEF Headed
<1> QED BY <1>t, <1>1, <1>2, OnlyCreationHeads

\* The windows of a job a worker holds do not change under it.
LEMMA SameWindows ==
  ASSUME Stored, [Next]_vars, NEW w \in Workers, held[w] \in WalkJobs
  PROVE  header'[held[w]] = header[held[w]] /\ ComputeWindows(header[held[w]]) \in Seq(Windows)
PROOF
<1>1. held[w] \in Jobs /\ row[held[w]] # "none"
  BY DEF Stored, Journey, Unpushed, Held, Jobs
<1>2. header[held[w]] \in Headers
  BY <1>1 DEF Stored, Headed
<1> QED BY <1>1, <1>2, HeadedStep, WindowsOfHeader

\* A worker without a window loop in progress has no windows; one that has not
\* moved keeps its own.
LEMMA WalkedKept ==
  ASSUME Stored, [Next]_vars, NEW w \in Workers,
         \/ pc'[w] \in {"down", "idle", "popped", "loaded"} /\ walked'[w] = << >>
         \/ pc'[w] = pc[w] /\ held'[w] = held[w] /\ walked'[w] = walked[w]
         \/ pc'[w] = "failing"
  PROVE  WalkedAt(w)'
PROOF
<1>1. WalkedAt(w)
  BY DEF Stored, Walked
<1>2. held[w] \in WalkJobs => header'[held[w]] = header[held[w]]
  BY SameWindows
<1> QED BY <1>1, <1>2 DEF WalkedAt

\* One more window makes the next one of the sequence.
LEMMA WindowWalked ==
  ASSUME Stored, [Next]_vars, NEW w \in Workers, RunWindow(w)
  PROVE  WalkedAt(w)'
PROOF
<1> DEFINE j == held[w]
<1>1. PICK ws : ws = ComputeWindows(header[j])
  OBVIOUS
<1>2. /\ j \in WalkJobs /\ pc[w] = "computing" /\ header'[j] = header[j] /\ ws \in Seq(Windows)
      /\ Len(walked[w]) <= Len(ws) /\ \A k \in 1 .. Len(walked[w]) : walked[w][k] = ws[k]
      /\ walked[w] \in Seq(Windows)
  BY <1>1, SameWindows DEF RunWindow, Stored, Walked, WalkedAt, Journey, TypeOK
<1>3. CASE pc'[w] = "failing"
  BY <1>3, WalkedKept
<1>4. CASE /\ walked' = [walked EXCEPT ![w] = Append(@, ws[Len(walked[w]) + 1])]
           /\ UNCHANGED <<pc, held>> /\ Len(walked[w]) + 1 \in DOMAIN ws
  <2>1. walked'[w] = Append(walked[w], ws[Len(walked[w]) + 1])
    BY <1>4 DEF Stored, Journey, TypeOK
  <2>2. Len(walked'[w]) <= Len(ws) /\ \A k \in 1 .. Len(walked'[w]) : walked'[w][k] = ws[k]
    BY <1>2, <1>4, <2>1
  <2>3. ComputeWindows(header'[held'[w]]) = ws /\ pc'[w] = "computing"
    BY <1>1, <1>2, <1>4
  <2> QED BY <2>2, <2>3 DEF WalkedAt
<1>5. CASE pc'[w] = "saving" /\ UNCHANGED <<held, walked>> /\ Len(walked[w]) + 1 > Len(ws)
  <2>1. Len(walked[w]) = Len(ws)
    BY <1>2, <1>5
  <2>2. walked[w] = ws
    BY <1>2, <2>1
  <2>3. ComputeWindows(header'[held'[w]]) = ws
    BY <1>1, <1>2, <1>5
  <2> QED BY <1>5, <2>2, <2>3 DEF WalkedAt
<1>6. pc[w] \in Stages /\ pc \in [Workers -> Stages]
  BY DEF Stored, Journey, TypeOK
<1> QED BY <1>1, <1>3, <1>4, <1>5, <1>6 DEF RunWindow, To, Raise

LEMMA WalkedStep == Stored /\ [Next]_vars => Walked'
PROOF
<1> SUFFICES ASSUME Stored, [Next]_vars, NEW v \in Workers PROVE WalkedAt(v)'
  BY DEF Walked
<1>t. TypeOK /\ WalkedAt(v)
  BY DEF Stored, Journey, Walked
<1>1. CASE UNCHANGED proc
  BY <1>1, WalkedKept
<1>2. ASSUME NEW w \in Workers, v # w, WorkerStep(w) \/ Crash(w) PROVE WalkedAt(v)'
  <2>1. pc'[v] = pc[v] /\ held'[v] = held[v] /\ walked'[v] = walked[v]
    BY <1>t, <1>2
       DEF WorkerStep, Boot, Pop, PopReplyLost, Load, MarkRunning, RunBacktest, RunWindow,
           SaveBacktest, SaveWalkforward, MarkFailed, Crash, To, ToIdle, Leave, Raise, Saved, TypeOK
  <2> QED BY <2>1, WalkedKept
<1>3. CASE Boot(v) \/ MarkFailed(v) \/ Crash(v)
  BY <1>t, <1>3, Moves, WalkedKept DEF Boot, MarkFailed, Crash, ToIdle
<1>4. CASE Pop(v) \/ PopReplyLost(v)
  BY <1>t, <1>4, WalkedKept DEF Pop, PopReplyLost, WalkedAt, TypeOK
<1>5. CASE Load(v)
  BY <1>t, <1>5, Moves, WalkedKept DEF Load, ToIdle, To, WalkedAt
<1>6. CASE MarkRunning(v)
  <2>1. CASE ToIdle(v)
    BY <1>t, <2>1, Moves, WalkedKept DEF ToIdle
  <2>2. CASE To(v, "computing")
    <3>1. pc'[v] = "computing" /\ held' = held /\ walked'[v] = << >>
      BY <1>t, <1>6, <2>2, Moves DEF MarkRunning, To, WalkedAt
    <3>2. held[v] \in WalkJobs => ComputeWindows(header'[held[v]]) \in Seq(Windows)
      BY SameWindows
    <3> QED BY <3>1, <3>2 DEF WalkedAt
  <2> QED BY <1>6, <2>1, <2>2 DEF MarkRunning
<1>7. CASE RunBacktest(v)
  <2>1. held'[v] \notin WalkJobs /\ pc'[v] \in {"saving", "failing"}
    BY <1>t, <1>7, Moves, JobsAssumption DEF RunBacktest, Raise
  <2> QED BY <2>1 DEF WalkedAt
<1>8. CASE RunWindow(v)
  BY <1>8, WindowWalked
<1>9. CASE SaveBacktest(v) \/ SaveWalkforward(v)
  BY <1>t, <1>9, Moves, WalkedKept DEF SaveBacktest, SaveWalkforward, Saved, ToIdle, Raise
<1>10. \/ UNCHANGED proc
       \/ \E w \in Workers : WorkerStep(w) \/ Crash(w)
  BY DEF Next, vars, CreateBacktest, CreateWalkforward, EnqueueStep, Enqueue, EnqueueFails,
         PollStep, PollAnswers, PollTimesOut, Delete, Age
<1> QED
  BY <1>1, <1>2, <1>3, <1>4, <1>5, <1>6, <1>7, <1>8, <1>9, <1>10 DEF WorkerStep

\* The row of a job that was pushed once and is completed is only deleted, which
\* clears what is stored; every other step that writes a result completes the row.
LEMMA CurvesStep ==
  ASSUME Stored, [Next]_vars
  PROVE  Curves' /\ StoredWindows'
PROOF
<1>t. TypeOK /\ Unpushed /\ Curves /\ StoredWindows
  BY DEF Stored, Journey
<1>j. \A j \in Jobs : pushes[j] \in 0 .. 2 /\ row[j] \in Statuses /\ j # NoJob /\ Kept(j)
  BY <1>t, StepKeeps, JobsAssumption DEF Stored, TypeOK
<1>k. BackJobs \subseteq Jobs /\ WalkJobs \subseteq Jobs /\ BackJobs \cap WalkJobs = {}
  BY JobsAssumption DEF Jobs
<1>s. \A j \in WalkJobs : row[j] # "none" => header'[j] = header[j]
  BY HeadedStep
<1>w. /\ \A w \in Workers : WalkedAt(w)
      /\ \A w \in Workers : held[w] \in Jobs => row[held[w]] # "none"
      /\ \A w \in Workers : held[w] \in Jobs => pc[w] \notin {"down", "idle"}
  <2>1. Walked /\ Unpushed /\ HoldsWhileBusy
    BY DEF Stored, Journey
  <2>2. \A w \in Workers : held[w] \in Jobs => row[held[w]] # "none"
    BY <2>1 DEF Unpushed, Held
  <2> QED BY <1>j, <2>1, <2>2 DEF Walked, HoldsWhileBusy
<1>1. ASSUME NEW j \in Jobs, CreateBacktest(j) PROVE Curves' /\ StoredWindows'
  <2>1. Curves'
    BY <1>t, <1>j, <1>k, <1>1 DEF Curves, Kept, CreateBacktest, Exists, TypeOK
  <2>2. StoredWindows'
    BY <1>t, <1>j, <1>k, <1>s, <1>1 DEF StoredWindows, Kept, CreateBacktest, Exists, TypeOK
  <2> QED BY <2>1, <2>2
<1>2. ASSUME NEW j \in Jobs, CreateWalkforward(j) PROVE Curves' /\ StoredWindows'
  <2>1. Curves'
    BY <1>t, <1>j, <1>k, <1>2 DEF Curves, Kept, CreateWalkforward, Exists, TypeOK
  <2>2. StoredWindows'
    BY <1>t, <1>j, <1>k, <1>s, <1>2 DEF StoredWindows, Kept, CreateWalkforward, Exists, TypeOK
  <2> QED BY <2>1, <2>2
<1>3. ASSUME NEW j \in Jobs, Enqueue(j) PROVE Curves' /\ StoredWindows'
  <2>1. Curves'
    BY <1>t, <1>j, <1>k, <1>3 DEF Curves, Kept, Enqueue, Exists, Unpushed, TypeOK
  <2>2. StoredWindows'
    BY <1>t, <1>j, <1>k, <1>s, <1>3 DEF StoredWindows, Kept, Enqueue, Exists, Unpushed, TypeOK
  <2> QED BY <2>1, <2>2
<1>4. ASSUME NEW j \in Jobs, EnqueueFails(j) PROVE Curves' /\ StoredWindows'
  <2>1. Curves'
    BY <1>t, <1>j, <1>k, <1>4 DEF Curves, Kept, EnqueueFails, Exists, TypeOK
  <2>2. StoredWindows'
    BY <1>t, <1>j, <1>k, <1>s, <1>4 DEF StoredWindows, Kept, EnqueueFails, Exists, TypeOK
  <2> QED BY <2>1, <2>2
<1>5. ASSUME NEW j \in Jobs, PollAnswers(j) PROVE Curves' /\ StoredWindows'
  <2>1. Curves'
    BY <1>t, <1>j, <1>k, <1>5 DEF Curves, Kept, PollAnswers, Exists, TypeOK
  <2>2. StoredWindows'
    BY <1>t, <1>j, <1>k, <1>s, <1>5 DEF StoredWindows, Kept, PollAnswers, Exists, TypeOK
  <2> QED BY <2>1, <2>2
<1>6. ASSUME NEW j \in Jobs, PollTimesOut(j) PROVE Curves' /\ StoredWindows'
  <2>1. Curves'
    BY <1>t, <1>j, <1>k, <1>6 DEF Curves, Kept, PollTimesOut, Exists, TypeOK
  <2>2. StoredWindows'
    BY <1>t, <1>j, <1>k, <1>s, <1>6 DEF StoredWindows, Kept, PollTimesOut, Exists, TypeOK
  <2> QED BY <2>1, <2>2
<1>7. ASSUME NEW j \in Jobs, Delete(j) PROVE Curves' /\ StoredWindows'
  <2>1. Curves'
    BY <1>t, <1>j, <1>k, <1>7 DEF Curves, Kept, Delete, Exists, TypeOK
  <2>2. StoredWindows'
    BY <1>t, <1>j, <1>k, <1>s, <1>7 DEF StoredWindows, Kept, Delete, Exists, TypeOK
  <2> QED BY <2>1, <2>2
<1>8. ASSUME NEW j \in Jobs, Age(j) PROVE Curves' /\ StoredWindows'
  <2>1. Curves'
    BY <1>t, <1>j, <1>k, <1>8 DEF Curves, Kept, Age, Exists, TypeOK
  <2>2. StoredWindows'
    BY <1>t, <1>j, <1>k, <1>s, <1>8 DEF StoredWindows, Kept, Age, Exists, TypeOK
  <2> QED BY <2>1, <2>2
<1>9. ASSUME NEW w \in Workers, Boot(w) PROVE Curves' /\ StoredWindows'
  <2>1. Curves'
    BY <1>t, <1>j, <1>k, <1>9 DEF Curves, Kept, Boot, Reclaimed, Exists, TypeOK
  <2>2. StoredWindows'
    BY <1>t, <1>j, <1>k, <1>s, <1>w, <1>9 DEF StoredWindows, Kept, Boot, Reclaimed, Exists, TypeOK
  <2> QED BY <2>1, <2>2
<1>10. ASSUME NEW w \in Workers, Pop(w) PROVE Curves' /\ StoredWindows'
  <2>1. Curves'
    BY <1>t, <1>j, <1>k, <1>10 DEF Curves, Kept, Pop, Exists, TypeOK
  <2>2. StoredWindows'
    BY <1>t, <1>j, <1>k, <1>s, <1>w, <1>10 DEF StoredWindows, Kept, Pop, Exists, TypeOK
  <2> QED BY <2>1, <2>2
<1>11. ASSUME NEW w \in Workers, PopReplyLost(w) PROVE Curves' /\ StoredWindows'
  <2>1. Curves'
    BY <1>t, <1>j, <1>k, <1>11 DEF Curves, Kept, PopReplyLost, Exists, TypeOK
  <2>2. StoredWindows'
    BY <1>t, <1>j, <1>k, <1>s, <1>w, <1>11 DEF StoredWindows, Kept, PopReplyLost, Exists, TypeOK
  <2> QED BY <2>1, <2>2
<1>12. ASSUME NEW w \in Workers, Load(w) PROVE Curves' /\ StoredWindows'
  <2>1. Curves'
    BY <1>t, <1>j, <1>k, <1>12 DEF Curves, Kept, Load, Exists, TypeOK
  <2>2. StoredWindows'
    BY <1>t, <1>j, <1>k, <1>s, <1>w, <1>12 DEF StoredWindows, Kept, Load, Exists, TypeOK
  <2> QED BY <2>1, <2>2
<1>13. ASSUME NEW w \in Workers, MarkRunning(w) PROVE Curves' /\ StoredWindows'
  <2>1. Curves'
    BY <1>t, <1>j, <1>k, <1>13 DEF Curves, Kept, MarkRunning, Exists, TypeOK
  <2>2. StoredWindows'
    BY <1>t, <1>j, <1>k, <1>s, <1>w, <1>13 DEF StoredWindows, Kept, MarkRunning, Exists, TypeOK
  <2> QED BY <2>1, <2>2
<1>14. ASSUME NEW w \in Workers, RunBacktest(w) PROVE Curves' /\ StoredWindows'
  <2>1. Curves'
    BY <1>t, <1>j, <1>k, <1>14 DEF Curves, Kept, RunBacktest, Exists, TypeOK
  <2>2. StoredWindows'
    BY <1>t, <1>j, <1>k, <1>s, <1>w, <1>14 DEF StoredWindows, Kept, RunBacktest, Exists, TypeOK
  <2> QED BY <2>1, <2>2
<1>15. ASSUME NEW w \in Workers, RunWindow(w) PROVE Curves' /\ StoredWindows'
  <2>1. Curves'
    BY <1>t, <1>j, <1>k, <1>15 DEF Curves, Kept, RunWindow, Exists, TypeOK
  <2>2. StoredWindows'
    BY <1>t, <1>j, <1>k, <1>s, <1>w, <1>15 DEF StoredWindows, Kept, RunWindow, Exists, TypeOK
  <2> QED BY <2>1, <2>2
<1>16. ASSUME NEW w \in Workers, SaveBacktest(w) PROVE Curves' /\ StoredWindows'
  <2>1. Curves'
    BY <1>t, <1>j, <1>k, <1>16 DEF Curves, Kept, SaveBacktest, Storable, Exists, TypeOK
  <2>2. StoredWindows'
    BY <1>t, <1>j, <1>k, <1>s, <1>w, <1>16 DEF StoredWindows, Kept, SaveBacktest, Storable, Exists, TypeOK
  <2> QED BY <2>1, <2>2
<1>17. ASSUME NEW w \in Workers, SaveWalkforward(w) PROVE Curves' /\ StoredWindows'
  <2>1. Curves'
    BY <1>t, <1>j, <1>k, <1>17 DEF Curves, Kept, SaveWalkforward, Exists, TypeOK
  <2>2. StoredWindows'
    BY <1>t, <1>j, <1>k, <1>s, <1>w, <1>17 DEF StoredWindows, Kept, SaveWalkforward, Exists, WalkedAt, TypeOK
  <2> QED BY <2>1, <2>2
<1>18. ASSUME NEW w \in Workers, MarkFailed(w) PROVE Curves' /\ StoredWindows'
  <2>1. Curves'
    BY <1>t, <1>j, <1>k, <1>18 DEF Curves, Kept, MarkFailed, Exists, TypeOK
  <2>2. StoredWindows'
    BY <1>t, <1>j, <1>k, <1>s, <1>w, <1>18 DEF StoredWindows, Kept, MarkFailed, Exists, TypeOK
  <2> QED BY <2>1, <2>2
<1>19. ASSUME NEW w \in Workers, Crash(w) PROVE Curves' /\ StoredWindows'
  <2>1. Curves'
    BY <1>t, <1>j, <1>k, <1>19 DEF Curves, Kept, Crash, Exists, TypeOK
  <2>2. StoredWindows'
    BY <1>t, <1>j, <1>k, <1>s, <1>w, <1>19 DEF StoredWindows, Kept, Crash, Exists, TypeOK
  <2> QED BY <2>1, <2>2
<1>20. CASE UNCHANGED vars
  BY <1>t, <1>20 DEF Curves, StoredWindows, Exists, vars
<1> QED
  BY <1>1, <1>2, <1>3, <1>4, <1>5, <1>6, <1>7, <1>8, <1>9, <1>10, <1>11, <1>12, <1>13, <1>14, <1>15, <1>16, <1>17, <1>18, <1>19, <1>20
     DEF Next, WorkerStep, EnqueueStep, PollStep

LEMMA StoredStep == Stored /\ [Next]_vars => Stored'
PROOF
<1> SUFFICES ASSUME Stored, [Next]_vars PROVE Stored'
  OBVIOUS
<1>1. Journey'
  BY JourneyStep DEF Stored
<1> QED BY <1>1, HeadedStep, WalkedStep, CurvesStep DEF Stored

LEMMA StoredAlways == Spec => []Stored
BY StoredInit, StoredStep, PTL DEF Spec

\* Every walk-forward stored as completed is honest about time, for every request
\* the API lets through and every length of history.
THEOREM StoredWindowsHonest == Spec => []WindowsHonest
PROOF
<1>1. Stored => WindowsHonest
  <2> SUFFICES ASSUME Stored, NEW j \in WalkJobs, row[j] = "completed"
               PROVE  LET ws == windows[j] IN
                      /\ \A i \in DOMAIN ws : HeldOut(ws[i])
                      /\ Anchored(ws, header[j]) /\ TestsDisjoint(ws)
    BY DEF WindowsHonest
  <2>1. header[j] \in Requests /\ windows[j] = ComputeWindows(header[j])
    BY HeaderIsRequest DEF Stored, Headed, StoredWindows
  <2> QED BY <2>1, ComputedWindowsHonest
<1> QED BY <1>1, StoredAlways, PTL

(***************************************************************************)
(* Without a crash or a failed call no job is left behind, and with any    *)
(* number of them no job runs more often than its id was pushed.           *)
(***************************************************************************)
\* A waiting row is to be pushed, on its list, or held by a worker that has not
\* marked it; a running one is held by a worker that will save or fail it.
Waits(j) == j \in request \/ Listed(j) \/ \E w \in Workers : held[w] = j /\ pc[w] \in {"popped", "loaded"}
Works(j) == \E w \in Workers : held[w] = j /\ pc[w] \in Busy
Cared(j) == (row[j] = "pending" => Waits(j)) /\ (row[j] = "running" => Works(j))

Faultless == faults = 0 => \A j \in Jobs : Cared(j)

\* A pop takes one id off its list; the others stay listed.
LEMMA PopKeeps ==
  ASSUME TypeOK, ListsApart, NEW k \in Kinds, list[k] # << >>, list' = Popped(k),
         NEW j \in Jobs, Listed(j), j # Head(list[k])
  PROVE  Listed(j)'
PROOF
<1>1. list \in [Kinds -> Seq(Jobs)] /\ Kind(j) \in Kinds
  BY KindOf DEF TypeOK
<1>2. PICK i \in DOMAIN list[Kind(j)] : list[Kind(j)][i] = j
  BY DEF Listed
<1>3. CASE Kind(j) # k
  BY <1>1, <1>2, <1>3 DEF Popped, Listed
<1>4. CASE Kind(j) = k
  <2>1. i # 1 /\ i \in 1 .. Len(list[k])
    BY <1>1, <1>2, <1>4
  <2>2. list'[k] = Tail(list[k]) /\ list[k] \in Seq(Jobs)
    BY <1>1 DEF Popped
  <2>3. i - 1 \in DOMAIN list'[k] /\ list'[k][i - 1] = j
    BY <1>2, <1>4, <2>1, <2>2
  <2> QED BY <1>4, <2>3 DEF Listed
<1> QED BY <1>3, <1>4

\* A push lists its id and keeps the others listed.
LEMMA EnqueueKeeps ==
  ASSUME TypeOK, NEW j \in Jobs, NEW copies \in {1, 2},
         list' = [list EXCEPT ![Kind(j)] = @ \o [i \in 1 .. copies |-> j]]
  PROVE  Listed(j)' /\ \A i \in Jobs : Listed(i) => Listed(i)'
PROOF
<1> DEFINE k == Kind(j)
           add == [i \in 1 .. copies |-> j]
<1>1. list \in [Kinds -> Seq(Jobs)] /\ k \in Kinds
  BY KindOf DEF TypeOK
<1>2. add \in Seq(Jobs) /\ Len(add) = copies /\ \A i \in 1 .. copies : add[i] = j
  OBVIOUS
<1> HIDE DEF add
<1>3. list'[k] = list[k] \o add /\ \A m \in Kinds : m # k => list'[m] = list[m]
  BY <1>1 DEF add
<1>4. /\ \A i \in DOMAIN list[k] : i \in DOMAIN list'[k] /\ list'[k][i] = list[k][i]
      /\ Len(list[k]) + 1 \in DOMAIN list'[k] /\ list'[k][Len(list[k]) + 1] = j
  BY <1>1, <1>2, <1>3
<1>5. Listed(j)'
  BY <1>4 DEF Listed
<1>6. ASSUME NEW i \in Jobs, Listed(i) PROVE Listed(i)'
  <2>1. PICK n \in DOMAIN list[Kind(i)] : list[Kind(i)][n] = i
    BY <1>6 DEF Listed
  <2> QED BY <1>3, <1>4, <2>1, KindOf DEF Listed
<1> QED BY <1>5, <1>6

USE DEF db, api, proc, hist

LEMMA FaultlessInit == Init => Faultless
BY DEF Init, Faultless, Cared

LEMMA FaultlessStep == TypeOK /\ ListsApart /\ HoldsWhileBusy /\ Faultless /\ [Next]_vars => Faultless'
PROOF
<1> SUFFICES ASSUME TypeOK, ListsApart, HoldsWhileBusy, Faultless, [Next]_vars, faults' = 0,
                    NEW i \in Jobs
             PROVE  Cared(i)'
  BY DEF Faultless
<1>t. /\ faults \in Nat /\ row \in [Jobs -> Statuses] /\ NoJob \notin Jobs
      /\ pc \in [Workers -> Stages] /\ held \in [Workers -> Jobs \cup {NoJob}]
  BY JobsAssumption DEF TypeOK
<1>f. ~Fault
  BY <1>t DEF Fault
<1>l. list' = list => (Listed(i)' <=> Listed(i))
  BY SameLists
<1>c. faults = 0 => Cared(i)
  BY DEF Faultless
<1>1. ASSUME NEW j \in Jobs, CreateBacktest(j) PROVE Cared(i)'
  BY <1>t, <1>l, <1>c, <1>1 DEF CreateBacktest, Cared, Waits, Works
<1>2. ASSUME NEW j \in Jobs, CreateWalkforward(j) PROVE Cared(i)'
  BY <1>t, <1>l, <1>c, <1>2 DEF CreateWalkforward, Cared, Waits, Works
<1>3. ASSUME NEW j \in Jobs, Enqueue(j) PROVE Cared(i)'
  <2>1. Listed(j)' /\ (Listed(i) => Listed(i)')
    BY <1>3, EnqueueKeeps DEF Enqueue
  <2> QED BY <1>c, <1>3, <2>1 DEF Enqueue, Cared, Waits, Works
<1>4. ASSUME NEW j \in Jobs, EnqueueFails(j) PROVE Cared(i)'
  BY <1>f, <1>4 DEF EnqueueFails
<1>5. ASSUME NEW j \in Jobs, PollAnswers(j) \/ PollTimesOut(j) PROVE Cared(i)'
  BY <1>l, <1>c, <1>5 DEF PollAnswers, PollTimesOut, Cared, Waits, Works
<1>6. ASSUME NEW j \in Jobs, Delete(j) PROVE Cared(i)'
  BY <1>t, <1>l, <1>c, <1>6 DEF Delete, Cared, Waits, Works
<1>7. ASSUME NEW j \in Jobs, Age(j) PROVE Cared(i)'
  BY <1>l, <1>c, <1>7 DEF Age, Cared, Waits, Works
<1>8. ASSUME NEW w \in Workers, Boot(w) PROVE Cared(i)'
  <2>1. held[w] = NoJob
    BY <1>8 DEF Boot, HoldsWhileBusy
  <2>2. \A v \in Workers : held[v] = i => v # w
    BY <1>t, <2>1
  <2>3. /\ list' = list /\ request' = request /\ faults = 0
        /\ row'[i] \in {row[i], "failed"}
        /\ \A v \in Workers : v # w => pc'[v] = pc[v] /\ held'[v] = held[v]
    BY <1>t, <1>f, <1>8 DEF Boot, ToIdle, Leave
  <2> QED BY <1>l, <1>c, <2>2, <2>3 DEF Cared, Waits, Works
<1>9. ASSUME NEW w \in Workers, Pop(w) PROVE Cared(i)'
  <2> DEFINE h == Head(list[NextKind])
  <2>1. /\ NextKind \in Kinds /\ list[NextKind] # << >> /\ list' = Popped(NextKind)
        /\ held' = [held EXCEPT ![w] = h] /\ pc' = [pc EXCEPT ![w] = "popped"]
        /\ row' = row /\ request' = request /\ faults' = faults
    BY <1>9 DEF Pop, NextKind, Kinds
  <2>2. Listed(i) => Listed(i)' \/ i = h
    BY <2>1, PopKeeps
  <2>3. held[w] = NoJob
    BY <1>9 DEF Pop, HoldsWhileBusy
  <2>4. /\ held'[w] = h /\ pc'[w] = "popped"
        /\ \A v \in Workers : held[v] = i => pc'[v] = pc[v] /\ held'[v] = held[v]
    BY <1>t, <2>1, <2>3
  <2> HIDE DEF h
  <2> QED BY <1>c, <2>1, <2>2, <2>4 DEF Cared, Waits, Works
<1>10. ASSUME NEW w \in Workers, PopReplyLost(w) PROVE Cared(i)'
  BY <1>f, <1>10 DEF PopReplyLost
<1>11. ASSUME NEW w \in Workers, Load(w) PROVE Cared(i)'
  BY <1>t, <1>f, <1>l, <1>c, <1>11 DEF Load, To, ToIdle, Leave, Cared, Waits, Works, Busy
<1>12. ASSUME NEW w \in Workers, MarkRunning(w) PROVE Cared(i)'
  <2>1. /\ list' = list /\ request' = request /\ faults = 0 /\ held' = held
        /\ pc[w] = "loaded" /\ pc'[w] = "computing"
        /\ \A v \in Workers : v # w => pc'[v] = pc[v]
        /\ held[w] # i => row'[i] = row[i]
        /\ held[w] = i => row'[i] \in {"running", "none", "deleted"}
    BY <1>t, <1>f, <1>12 DEF MarkRunning, To, Exists
  <2> QED BY <1>l, <1>c, <2>1 DEF Cared, Waits, Works, Busy
<1>13. ASSUME NEW w \in Workers, RunBacktest(w) PROVE Cared(i)'
  BY <1>t, <1>l, <1>c, <1>13 DEF RunBacktest, Raise, To, Cared, Waits, Works, Busy
<1>14. ASSUME NEW w \in Workers, RunWindow(w) PROVE Cared(i)'
  <2>1. /\ list' = list /\ request' = request /\ faults' = faults /\ held' = held /\ row' = row
        /\ pc[w] \in Busy /\ pc'[w] \in Busy
        /\ \A v \in Workers : v # w => pc'[v] = pc[v]
    BY <1>t, <1>14 DEF RunWindow, Raise, To, Busy
  <2> QED BY <1>l, <1>c, <2>1 DEF Cared, Waits, Works, Busy
<1>15. ASSUME NEW w \in Workers, SaveBacktest(w) PROVE Cared(i)'
  <2>1. /\ list' = list /\ request' = request /\ faults = 0 /\ pc[w] = "saving"
        /\ \A v \in Workers : v # w => pc'[v] = pc[v] /\ held'[v] = held[v]
        /\ held[w] # i => row'[i] = row[i]
        /\ \/ held[w] = i => row'[i] = "completed"
           \/ row' = row /\ held' = held /\ pc'[w] = "failing"
    BY <1>t, <1>f, <1>15 DEF SaveBacktest, Raise, Saved, ToIdle, Leave, To
  <2> QED BY <1>l, <1>c, <2>1 DEF Cared, Waits, Works, Busy
<1>16. ASSUME NEW w \in Workers, SaveWalkforward(w) PROVE Cared(i)'
  <2>1. /\ list' = list /\ request' = request /\ faults = 0 /\ pc[w] = "saving"
        /\ \A v \in Workers : v # w => pc'[v] = pc[v] /\ held'[v] = held[v]
        /\ held[w] # i => row'[i] = row[i]
        /\ held[w] = i => row'[i] \in {"completed", "none", "deleted"}
    BY <1>t, <1>f, <1>16 DEF SaveWalkforward, Raise, Saved, ToIdle, Leave, To, Exists
  <2> QED BY <1>l, <1>c, <2>1 DEF Cared, Waits, Works, Busy
<1>17. ASSUME NEW w \in Workers, MarkFailed(w) PROVE Cared(i)'
  <2>1. /\ list' = list /\ request' = request /\ faults = 0 /\ pc[w] = "failing"
        /\ \A v \in Workers : v # w => pc'[v] = pc[v] /\ held'[v] = held[v]
        /\ held[w] # i => row'[i] = row[i]
        /\ held[w] = i => row'[i] \in {"failed", "none", "deleted"}
    BY <1>t, <1>f, <1>17 DEF MarkFailed, ToIdle, Leave, Exists
  <2> QED BY <1>l, <1>c, <2>1 DEF Cared, Waits, Works, Busy
<1>18. ASSUME NEW w \in Workers, Crash(w) PROVE Cared(i)'
  BY <1>f, <1>18 DEF Crash
<1>19. CASE UNCHANGED vars
  BY <1>l, <1>c, <1>19 DEF vars, Cared, Waits, Works
<1> QED
  BY <1>1, <1>2, <1>3, <1>4, <1>5, <1>6, <1>7, <1>8, <1>9, <1>10, <1>11, <1>12, <1>13, <1>14,
     <1>15, <1>16, <1>17, <1>18, <1>19 DEF Next, WorkerStep, EnqueueStep, PollStep

\* The counts of Stranded are zero only if there is nothing to count.
LEMMA NoCopies ==
  ASSUME TypeOK, NEW j \in Jobs, Copies(j) = 0
  PROVE  ~Listed(j)
PROOF
<1> DEFINE at == {i \in DOMAIN list[Kind(j)] : list[Kind(j)][i] = j}
<1>1. list[Kind(j)] \in Seq(Jobs)
  BY KindOf DEF TypeOK
<1>2. IsFiniteSet(1 .. Len(list[Kind(j)]))
  BY <1>1, FS_Interval
<1>3. IsFiniteSet(at)
  BY <1>1, <1>2, FS_Subset
<1>4. at = {}
  BY <1>3, FS_EmptySet DEF Copies
<1> QED BY <1>4 DEF Listed

\* No order of creations, deletions, sweeps, restarts and polls leaves a job behind:
\* only a crash or a failed call does (backtest_worker.main, the API's enqueue).
THEOREM OnlyFaultsStrand == Spec => []StrandedOnlyByFault
PROOF
<1> DEFINE Inv == Journey /\ Faultless
<1>1. Init => Inv
  BY JourneyInit, FaultlessInit
<1>2. Inv /\ [Next]_vars => Inv'
  BY JourneyStep, FaultlessStep DEF Journey
<1>3. Inv => StrandedOnlyByFault
  <2> SUFFICES ASSUME TypeOK, Faultless, faults = 0, NEW j \in Jobs, Stranded(j) PROVE FALSE
    BY DEF Journey, StrandedOnlyByFault
  <2>1. ~Listed(j)
    BY NoCopies DEF Stranded
  <2> QED BY <2>1 DEF Faultless, Cared, Waits, Works, Stranded, Holders
<1> QED BY <1>1, <1>2, <1>3, PTL DEF Spec

(***************************************************************************)
(* Counting: an id is listed, held and run no more often than pushed.      *)
(***************************************************************************)
Places(j) == {i \in DOMAIN list[Kind(j)] : list[Kind(j)][i] = j}
Fresh(j)  == {w \in Holders(j) : pc[w] \in {"popped", "loaded"}}

Counted(j) ==
  /\ IsFiniteSet(Holders(j))
  /\ Copies(j) + Cardinality(Holders(j)) <= pushes[j]
  /\ runs[j] + Copies(j) + Cardinality(Fresh(j)) <= pushes[j]

AllCounted == \A j \in Jobs : Counted(j)

LEMMA PlacesCounted ==
  ASSUME TypeOK, NEW j \in Jobs
  PROVE  IsFiniteSet(Places(j)) /\ Copies(j) = Cardinality(Places(j)) /\ Copies(j) \in Nat
PROOF
<1>1. list[Kind(j)] \in Seq(Jobs)
  BY KindOf DEF TypeOK
<1>2. IsFiniteSet(1 .. Len(list[Kind(j)]))
  BY <1>1, FS_Interval
<1>3. IsFiniteSet(Places(j))
  BY <1>1, <1>2, FS_Subset DEF Places
<1> QED BY <1>3, FS_CardinalityType DEF Copies, Places

LEMMA HoldersCounted ==
  ASSUME NEW j, IsFiniteSet(Holders(j))
  PROVE  /\ IsFiniteSet(Fresh(j)) /\ Fresh(j) \subseteq Holders(j)
         /\ Cardinality(Fresh(j)) \in Nat /\ Cardinality(Holders(j)) \in Nat
         /\ Cardinality(Fresh(j)) <= Cardinality(Holders(j))
PROOF
<1>1. Fresh(j) \subseteq Holders(j)
  BY DEF Fresh
<1> QED BY <1>1, FS_Subset, FS_CardinalityType

\* A step that moves no id: holders may let go, and one that marks the job running
\* is no longer fresh.
Stays(j) ==
  /\ Copies(j)' = Copies(j) /\ pushes'[j] = pushes[j]
  /\ Holders(j)' \subseteq Holders(j)
  /\ \/ runs'[j] = runs[j] /\ Fresh(j)' \subseteq Fresh(j)
     \/ runs'[j] = runs[j] + 1 /\ \E w \in Fresh(j) : Fresh(j)' \subseteq Fresh(j) \ {w}

LEMMA StaysCounted ==
  ASSUME TypeOK, NEW j \in Jobs, Counted(j), Stays(j)
  PROVE  Counted(j)'
PROOF
<1>1. /\ IsFiniteSet(Holders(j)) /\ IsFiniteSet(Fresh(j))
      /\ Cardinality(Fresh(j)) \in Nat /\ Cardinality(Holders(j)) \in Nat
  BY HoldersCounted DEF Counted
<1>2. Copies(j) \in Nat /\ pushes[j] \in Nat /\ runs[j] \in Nat
  <2>1. Copies(j) \in Nat
    BY PlacesCounted
  <2> QED BY <2>1 DEF TypeOK
<1>3. /\ IsFiniteSet(Holders(j)') /\ Cardinality(Holders(j)') <= Cardinality(Holders(j))
      /\ Cardinality(Holders(j)') \in Nat
  BY <1>1, FS_Subset, FS_CardinalityType DEF Stays
<1>4. CASE runs'[j] = runs[j] /\ Fresh(j)' \subseteq Fresh(j)
  <2>1. Cardinality(Fresh(j)') <= Cardinality(Fresh(j)) /\ Cardinality(Fresh(j)') \in Nat
    BY <1>1, <1>4, FS_Subset, FS_CardinalityType
  <2> QED BY <1>1, <1>2, <1>3, <1>4, <2>1 DEF Counted, Stays
<1>5. ASSUME runs'[j] = runs[j] + 1, NEW w \in Fresh(j), Fresh(j)' \subseteq Fresh(j) \ {w}
      PROVE  Counted(j)'
  <2>1. IsFiniteSet(Fresh(j) \ {w}) /\ Cardinality(Fresh(j) \ {w}) = Cardinality(Fresh(j)) - 1
    BY <1>1, <1>5, FS_RemoveElement
  <2>2. /\ Cardinality(Fresh(j)') <= Cardinality(Fresh(j) \ {w})
        /\ Cardinality(Fresh(j)') \in Nat
    BY <1>5, <2>1, FS_Subset, FS_CardinalityType
  <2> QED BY <1>1, <1>2, <1>3, <1>5, <2>1, <2>2 DEF Counted, Stays
<1> QED BY <1>4, <1>5 DEF Stays

\* A pop takes one place of the id popped, and none of another.
LEMMA PopCounted ==
  ASSUME TypeOK, TypeOK', ListsApart, NEW k \in Kinds, list[k] # << >>, list' = Popped(k), NEW j \in Jobs
  PROVE  Copies(j)' <= IF j = Head(list[k]) THEN Copies(j) - 1 ELSE Copies(j)
PROOF
<1> DEFINE m == Kind(j)
<1>1. /\ list \in [Kinds -> Seq(Jobs)] /\ m \in Kinds
      /\ IsFiniteSet(Places(j)) /\ Copies(j) = Cardinality(Places(j)) /\ Copies(j) \in Nat
  BY KindOf, PlacesCounted DEF TypeOK
<1>2. /\ IsFiniteSet(Places(j)') /\ Copies(j)' = Cardinality(Places(j)') /\ Copies(j)' \in Nat
  <2>1. list'[Kind(j)] \in Seq(Jobs)
    BY KindOf DEF TypeOK
  <2>2. IsFiniteSet(1 .. Len(list'[Kind(j)]))
    BY <2>1, FS_Interval
  <2>3. IsFiniteSet(Places(j)')
    BY <2>1, <2>2, FS_Subset DEF Places
  <2> QED BY <2>3, FS_CardinalityType DEF Copies, Places
<1>3. CASE m # k
  <2>1. list'[m] = list[m]
    BY <1>1, <1>3 DEF Popped
  <2>2. Kind(Head(list[k])) = k
    BY <1>1 DEF ListsApart
  <2> QED BY <1>1, <1>2, <1>3, <2>1, <2>2 DEF Places
<1>4. CASE m = k
  <2> DEFINE Rest == IF j = Head(list[k]) THEN Places(j) \ {1} ELSE Places(j)
             shift == [i \in Places(j)' |-> i + 1]
  <2>1. /\ list'[m] = Tail(list[m]) /\ list[m] \in Seq(Jobs) /\ Len(list[m]) > 0
    BY <1>1, <1>4 DEF Popped
  <2>2. \A i \in Places(j)' : i \in Nat \ {0} /\ i + 1 \in Rest
    BY <2>1 DEF Places
  <2>3. shift \in Injection(Places(j)', Rest)
    BY <2>2 DEF Injection, IsInjective
  <2>4. IsFiniteSet(Rest) /\ Cardinality(Rest) = IF j = Head(list[k]) THEN Copies(j) - 1 ELSE Copies(j)
    <3>1. j = Head(list[k]) => 1 \in Places(j)
      BY <1>4, <2>1 DEF Places
    <3> QED BY <1>1, <3>1, FS_RemoveElement
  <2> HIDE DEF Rest, shift
  <2>5. Cardinality(Places(j)') <= Cardinality(Rest)
    BY <2>3, <2>4, FS_Injection
  <2> QED BY <1>2, <2>4, <2>5
<1> QED BY <1>3, <1>4

\* The count of the next state is a number, too.
LEMMA CopiesNextNat ==
  ASSUME TypeOK', NEW j \in Jobs
  PROVE  Copies(j)' \in Nat
PROOF
<1>1. list'[Kind(j)] \in Seq(Jobs)
  BY KindOf DEF TypeOK
<1>2. IsFiniteSet(1 .. Len(list'[Kind(j)]))
  BY <1>1, FS_Interval
<1>3. IsFiniteSet(Places(j)')
  BY <1>1, <1>2, FS_Subset DEF Places
<1> QED BY <1>3, FS_CardinalityType DEF Copies, Places

\* A push gives an id that was nowhere as many places as it has copies.
LEMMA EnqueueCounted ==
  ASSUME TypeOK, TypeOK', NEW j \in Jobs, NEW copies \in {1, 2}, NEW i \in Jobs,
         list' = [list EXCEPT ![Kind(j)] = @ \o [n \in 1 .. copies |-> j]]
  PROVE  /\ i # j => Copies(i)' = Copies(i)
         /\ ~Listed(j) => Copies(j)' <= copies
PROOF
<1> DEFINE add == [n \in 1 .. copies |-> j]
<1>1. list \in [Kinds -> Seq(Jobs)] /\ Kind(j) \in Kinds /\ Kind(i) \in Kinds
  BY KindOf DEF TypeOK
<1>2. add \in Seq(Jobs) /\ Len(add) = copies /\ \A n \in 1 .. copies : add[n] = j
  OBVIOUS
<1> HIDE DEF add
<1>3. list'[Kind(j)] = list[Kind(j)] \o add /\ \A m \in Kinds : m # Kind(j) => list'[m] = list[m]
  BY <1>1 DEF add
<1>4. ASSUME i # j PROVE Copies(i)' = Copies(i)
  <2>1. Places(i)' = Places(i)
    BY <1>1, <1>2, <1>3, <1>4 DEF Places
  <2> QED BY <2>1 DEF Copies, Places
<1>5. ASSUME ~Listed(j) PROVE Copies(j)' <= copies
  <2> DEFINE new == (Len(list[Kind(j)]) + 1) .. (Len(list[Kind(j)]) + copies)
  <2>1. Places(j)' \subseteq new
    BY <1>1, <1>2, <1>3, <1>5 DEF Places, Listed
  <2>2. IsFiniteSet(new) /\ Cardinality(new) = copies
    BY <1>1, FS_Interval
  <2>3. Cardinality(Places(j)') <= copies
    BY <2>1, <2>2, FS_Subset
  <2> QED BY <2>3 DEF Copies, Places
<1> QED BY <1>4, <1>5

\* An unpushed id is nowhere, so the counts of a push start at nothing.
LEMMA CountedInit == Init => AllCounted
PROOF
<1> SUFFICES ASSUME Init, NEW j \in Jobs PROVE Counted(j)
  BY DEF AllCounted
<1>1. Places(j) = {} /\ Holders(j) = {} /\ Fresh(j) = {}
  BY KindOf, JobsAssumption DEF Init, Places, Holders, Fresh
<1>2. IsFiniteSet({}) /\ Cardinality({}) = 0
  BY FS_EmptySet
<1>3. Copies(j) = Cardinality(Places(j))
  BY DEF Copies, Places
<1>4. pushes[j] = 0 /\ runs[j] = 0
  BY DEF Init
<1> QED BY <1>1, <1>2, <1>3, <1>4 DEF Counted

\* A worker that goes on with its job, or leaves it, moves no id.
LEMMA MovesStay ==
  ASSUME TypeOK, HoldsWhileBusy, NEW w \in Workers, NEW j \in Jobs,
         list' = list, pushes' = pushes, runs'[j] = runs[j],
         \/ UNCHANGED <<pc, held>>
         \/ \E s : Leave(w, s)
         \/ \E s \in {"loaded"} \cup Busy : To(w, s) /\ (s = "loaded" => pc[w] = "popped")
  PROVE  Stays(j)
PROOF
<1>1. pc \in [Workers -> Stages] /\ held \in [Workers -> Jobs \cup {NoJob}] /\ j # NoJob
  BY JobsAssumption DEF TypeOK
<1>2. \A v \in Workers : /\ held'[v] = j => held[v] = j
                         /\ held'[v] = j /\ pc'[v] \in {"popped", "loaded"} => pc[v] \in {"popped", "loaded"}
  BY <1>1 DEF Leave, To, Busy
<1>3. Holders(j)' \subseteq Holders(j) /\ Fresh(j)' \subseteq Fresh(j)
  BY <1>2 DEF Holders, Fresh
<1>4. Copies(j)' = Copies(j)
  BY DEF Copies
<1> QED BY <1>3, <1>4 DEF Stays

LEMMA CountedStep == Journey /\ AllCounted /\ [Next]_vars => AllCounted'
PROOF
<1> SUFFICES ASSUME Journey, AllCounted, [Next]_vars, NEW i \in Jobs PROVE Counted(i)'
  BY DEF AllCounted
<1>t. /\ TypeOK /\ TypeOK' /\ ListsApart /\ HoldsWhileBusy
      /\ pc \in [Workers -> Stages] /\ held \in [Workers -> Jobs \cup {NoJob}] /\ i # NoJob
      /\ runs \in [Jobs -> Nat] /\ pushes \in [Jobs -> 0 .. 2]
  BY TypesStep, JobsAssumption DEF Journey, TypeOK
<1>c. Counted(i) /\ (Stays(i) => Counted(i)')
  BY <1>t, StaysCounted DEF AllCounted
<1>n. /\ IsFiniteSet(Holders(i)) /\ IsFiniteSet(Fresh(i)) /\ Copies(i) \in Nat
      /\ Cardinality(Fresh(i)) \in Nat /\ Cardinality(Holders(i)) \in Nat
  <2>1. Copies(i) \in Nat
    BY <1>t, PlacesCounted
  <2> QED BY <1>c, <2>1, HoldersCounted DEF Counted
<1>s. ASSUME list' = list, UNCHANGED <<pushes, runs, pc, held>> PROVE Stays(i)
  BY <1>s DEF Stays, Copies, Holders, Fresh
<1>1. ASSUME NEW j \in Jobs, Enqueue(j) PROVE Counted(i)'
  <2>1. PICK copies \in {1, 2} :
          /\ pushes' = [pushes EXCEPT ![j] = copies]
          /\ list' = [list EXCEPT ![Kind(j)] = @ \o [n \in 1 .. copies |-> j]]
    BY <1>1 DEF Enqueue
  <2>2. /\ i # j => Copies(i)' = Copies(i)
        /\ ~Listed(j) => Copies(j)' <= copies
    BY <1>t, <2>1, EnqueueCounted
  <2>3. UNCHANGED <<runs, pc, held>> /\ Holders(i)' = Holders(i) /\ Fresh(i)' = Fresh(i)
    BY <1>1 DEF Enqueue, Holders, Fresh
  <2>4. CASE i # j
    BY <1>t, <1>c, <2>1, <2>2, <2>3, <2>4 DEF Stays
  <2>5. CASE i = j
    <3>1. pushes[j] = 0 /\ ~Listed(j) /\ ~Held(j) /\ pushes'[j] = copies
      BY <1>t, <1>1, <2>1 DEF Journey, Unpushed, Enqueue
    <3>2. Holders(j) = {} /\ Fresh(j) = {}
      BY <3>1 DEF Holders, Fresh, Held
    <3>3. Cardinality({}) = 0 /\ runs[j] = 0
      BY <1>t, <1>c, <1>n, <2>5, <3>1, <3>2, FS_EmptySet DEF Counted
    <3>4. Copies(i)' \in Nat /\ Copies(i)' <= copies /\ runs'[i] = 0 /\ pushes'[i] = copies
      BY <1>t, <2>2, <2>3, <2>5, <3>1, <3>3, CopiesNextNat
    <3>5. Holders(i)' = {} /\ Fresh(i)' = {} /\ IsFiniteSet({})
      BY <2>3, <2>5, <3>2, FS_EmptySet
    <3> QED BY <3>3, <3>4, <3>5 DEF Counted
  <2> QED BY <2>4, <2>5
<1>2. ASSUME NEW w \in Workers, Pop(w) PROVE Counted(i)'
  <2> DEFINE h == Head(list[NextKind])
  <2>1. /\ NextKind \in Kinds /\ list[NextKind] # << >> /\ list' = Popped(NextKind)
        /\ held' = [held EXCEPT ![w] = h] /\ pc' = [pc EXCEPT ![w] = "popped"]
        /\ runs' = runs /\ pushes' = pushes
    BY <1>2 DEF Pop, NextKind, Kinds
  <2>2. Copies(i)' <= IF i = h THEN Copies(i) - 1 ELSE Copies(i)
    BY <1>t, <2>1, PopCounted
  <2>3. Copies(i)' \in Nat
    BY <1>t, <2>1, CopiesNextNat
  <2>4. held[w] = NoJob
    BY <1>t, <1>2 DEF Pop, HoldsWhileBusy
  <2> HIDE DEF h
  <2>5. CASE i = h
    <3>1. Holders(i)' = Holders(i) \cup {w} /\ Fresh(i)' = Fresh(i) \cup {w} /\ w \notin Holders(i)
      BY <1>t, <2>1, <2>4, <2>5 DEF Holders, Fresh
    <3>2. w \notin Fresh(i)
      BY <3>1 DEF Fresh
    <3>3. /\ IsFiniteSet(Holders(i)')
          /\ Cardinality(Holders(i)') = Cardinality(Holders(i)) + 1
          /\ Cardinality(Fresh(i)') = Cardinality(Fresh(i)) + 1
      <4>1. IsFiniteSet(Holders(i) \cup {w}) /\ Cardinality(Holders(i) \cup {w}) = Cardinality(Holders(i)) + 1
        BY <1>n, <3>1, FS_AddElement
      <4>2. Cardinality(Fresh(i) \cup {w}) = Cardinality(Fresh(i)) + 1
        BY <1>n, <3>2, FS_AddElement
      <4> QED BY <3>1, <4>1, <4>2
    <3>4. /\ Copies(i) + Cardinality(Holders(i)) <= pushes[i]
          /\ runs[i] + Copies(i) + Cardinality(Fresh(i)) <= pushes[i]
          /\ pushes'[i] = pushes[i] /\ runs'[i] = runs[i] /\ runs[i] \in Nat /\ pushes[i] \in Nat
          /\ Copies(i)' <= Copies(i) - 1
      BY <1>t, <1>c, <2>1, <2>2, <2>5 DEF Counted
    <3> QED BY <1>n, <2>3, <3>3, <3>4 DEF Counted
  <2>6. CASE i # h
    <3>1. Holders(i)' = Holders(i) /\ Fresh(i)' = Fresh(i)
      BY <1>t, <2>1, <2>4, <2>6 DEF Holders, Fresh
    <3> QED BY <1>t, <1>c, <1>n, <2>1, <2>2, <2>3, <2>6, <3>1, SMTT(30) DEF Counted
  <2> QED BY <2>5, <2>6
<1>3. ASSUME NEW w \in Workers, PopReplyLost(w) PROVE Counted(i)'
  <2>1. /\ NextKind \in Kinds /\ list[NextKind] # << >> /\ list' = Popped(NextKind)
        /\ UNCHANGED <<pc, held, runs, pushes>>
    BY <1>3 DEF PopReplyLost, NextKind, Kinds
  <2>2. Copies(i)' <= Copies(i) /\ Copies(i)' \in Nat
    BY <1>t, <1>n, <2>1, PopCounted, CopiesNextNat
  <2>3. Holders(i)' = Holders(i) /\ Fresh(i)' = Fresh(i)
    BY <2>1 DEF Holders, Fresh
  <2> QED BY <1>t, <1>c, <1>n, <2>1, <2>2, <2>3 DEF Counted
<1>4. ASSUME NEW w \in Workers, MarkRunning(w) PROVE Stays(i)
  <2>1. CASE runs' = runs
    <3>1. list' = list /\ pushes' = pushes /\ ((\E s : Leave(w, s)) \/ To(w, "computing"))
      BY <1>4 DEF MarkRunning, ToIdle
    <3> QED BY <1>t, <2>1, <3>1, MovesStay DEF Busy
  <2>2. CASE runs' = [runs EXCEPT ![held[w]] = @ + 1] /\ To(w, "computing")
    <3>1. list' = list /\ pushes' = pushes /\ pc[w] = "loaded" /\ held[w] \in Jobs
      BY <1>t, <1>4 DEF MarkRunning, HoldsWhileBusy
    <3>2. /\ held' = held /\ pc' = [pc EXCEPT ![w] = "computing"]
          /\ Copies(i)' = Copies(i) /\ Holders(i)' = Holders(i)
      BY <2>2, <3>1 DEF To, Copies, Holders
    <3>3. Fresh(i)' \subseteq Fresh(i) /\ w \notin Fresh(i)'
      BY <1>t, <3>2 DEF Fresh, Holders
    <3>4. held[w] = i => w \in Fresh(i) /\ runs'[i] = runs[i] + 1
      BY <1>t, <2>2, <3>1 DEF Fresh, Holders
    <3>5. held[w] # i => runs'[i] = runs[i]
      BY <1>t, <2>2
    <3> QED BY <1>t, <3>1, <3>2, <3>3, <3>4, <3>5 DEF Stays
  <2> QED BY <1>4, <2>1, <2>2 DEF MarkRunning
<1>5. ASSUME NEW w \in Workers,
             \/ Boot(w) \/ Load(w) \/ RunBacktest(w) \/ RunWindow(w) \/ SaveBacktest(w)
             \/ SaveWalkforward(w) \/ MarkFailed(w) \/ Crash(w)
      PROVE  Stays(i)
  <2>1. /\ list' = list /\ pushes' = pushes /\ runs' = runs
        /\ \/ UNCHANGED <<pc, held>>
           \/ \E s : Leave(w, s)
           \/ \E s \in {"loaded"} \cup Busy : To(w, s) /\ (s = "loaded" => pc[w] = "popped")
    BY <1>5 DEF Boot, Load, RunBacktest, RunWindow, SaveBacktest, SaveWalkforward, MarkFailed, Crash,
                ToIdle, Raise, Saved, Busy
  <2> QED BY <1>t, <2>1, MovesStay
<1>6. ASSUME NEW j \in Jobs,
             \/ CreateBacktest(j) \/ CreateWalkforward(j) \/ EnqueueFails(j) \/ PollAnswers(j)
             \/ PollTimesOut(j) \/ Delete(j) \/ Age(j)
      PROVE  Stays(i)
  BY <1>s, <1>6 DEF CreateBacktest, CreateWalkforward, EnqueueFails, PollAnswers, PollTimesOut,
                    Delete, Age
<1>7. CASE UNCHANGED vars
  BY <1>c, <1>s, <1>7 DEF vars
<1> QED
  BY <1>c, <1>1, <1>2, <1>3, <1>4, <1>5, <1>6, <1>7 DEF Next, WorkerStep, EnqueueStep, PollStep

\* A job runs at most as often as its id was pushed, and what is queued or held never
\* exceeds that, across crashes, sweeps and deletions (main.py: "each job goes to
\* exactly one worker").
THEOREM RunsBounded == Spec => []RunsWithinPushes
PROOF
<1> DEFINE Inv == Journey /\ AllCounted
<1>1. Init => Inv
  BY JourneyInit, CountedInit
<1>2. Inv /\ [Next]_vars => Inv'
  BY JourneyStep, CountedStep
<1>3. Inv => RunsWithinPushes
  <2> SUFFICES ASSUME TypeOK, AllCounted, NEW j \in Jobs
               PROVE  runs[j] <= pushes[j] /\ Copies(j) + Cardinality(Holders(j)) <= pushes[j]
    BY DEF Journey, RunsWithinPushes
  <2>1. Copies(j) \in Nat
    BY PlacesCounted
  <2>2. Counted(j) /\ Cardinality(Fresh(j)) \in Nat
    BY HoldersCounted DEF AllCounted, Counted
  <2>3. runs[j] \in Nat /\ pushes[j] \in Nat
    <3>1. runs \in [Jobs -> Nat] /\ pushes \in [Jobs -> 0 .. 2]
      BY DEF TypeOK
    <3> QED BY <3>1
  <2>4. /\ Copies(j) + Cardinality(Holders(j)) <= pushes[j]
        /\ runs[j] + Copies(j) + Cardinality(Fresh(j)) <= pushes[j]
    BY <2>2 DEF Counted
  <2> QED BY <2>1, <2>2, <2>3, <2>4
<1> QED BY <1>1, <1>2, <1>3, PTL DEF Spec

(***************************************************************************)
(* A result under a row that does not say completed takes two runs.        *)
(***************************************************************************)
\* The workers that have marked the job running and are not done with it.
Working(j) == {w \in Workers : held[w] = j /\ pc[w] \in Busy}

\* A worker at it, and a result, each stand for a run of the job; the result and a worker,
\* or two workers, for two.
RunsTell(j) ==
  /\ Working(j) # {} \/ HasResult(j) => runs[j] >= 1
  /\ Working(j) # {} /\ HasResult(j) => runs[j] >= 2
  /\ \A v, w \in Working(j) : v # w => runs[j] >= 2
  /\ HasResult(j) /\ row[j] # "completed" => row[j] \in {"running", "failed"} /\ runs[j] >= 2

\* What one step does to one job.
Quiet(j) ==
  /\ HasResult(j)' => HasResult(j)
  /\ runs'[j] = runs[j]
  /\ Working(j)' \subseteq Working(j)
  /\ \/ row'[j] = row[j] \/ row[j] = "none" \/ ~HasResult(j)'
     \/ row'[j] = "failed" /\ (row[j] = "running" \/ Working(j) # {})

Begins(j) ==
  /\ HasResult(j)' <=> HasResult(j)
  /\ runs'[j] = runs[j] + 1
  /\ \E w \in Workers : Working(j)' \subseteq Working(j) \cup {w}
  /\ row'[j] = row[j] \/ row'[j] = "running"

Completes(j) ==
  /\ runs'[j] = runs[j] /\ row'[j] = "completed"
  /\ \E w \in Working(j) : Working(j)' \subseteq Working(j) \ {w}

LEMMA QuietUnless ==
  ASSUME TypeOK, HoldsWhileBusy, [Next]_vars, NEW i \in Jobs
  PROVE  Quiet(i) \/ Begins(i) \/ Completes(i)
PROOF
<1>t. /\ i # NoJob /\ row \in [Jobs -> Statuses] /\ runs \in [Jobs -> Nat]
      /\ curves \in [BackJobs -> Nat] /\ windows \in [WalkJobs -> Seq(Windows)]
      /\ held \in [Workers -> Jobs \cup {NoJob}] /\ pc \in [Workers -> Stages]
  BY JobsAssumption DEF TypeOK
<1>k. Jobs = BackJobs \cup WalkJobs /\ BackJobs \cap WalkJobs = {}
  BY JobsAssumption DEF Jobs
<1>m. ASSUME NEW w \in Workers
      PROVE  /\ \A s : Leave(w, s) => /\ \A v \in Workers : v # w => pc'[v] = pc[v] /\ held'[v] = held[v]
                                      /\ held'[w] = NoJob
             /\ \A s : To(w, s) => /\ \A v \in Workers : v # w => pc'[v] = pc[v]
                                   /\ pc'[w] = s /\ held' = held
  BY Moves
<1>r. UNCHANGED <<curves, windows>> => (HasResult(i)' <=> HasResult(i))
  BY DEF HasResult
<1>1. ASSUME NEW j \in Jobs, CreateBacktest(j) PROVE Quiet(i)
  BY <1>t, <1>k, <1>r, <1>1 DEF Quiet, HasResult, Working, Exists, CreateBacktest
<1>2. ASSUME NEW j \in Jobs, CreateWalkforward(j) PROVE Quiet(i)
  BY <1>t, <1>k, <1>r, <1>2 DEF Quiet, HasResult, Working, Exists, CreateWalkforward
<1>3. ASSUME NEW j \in Jobs, EnqueueStep(j) PROVE Quiet(i)
  BY <1>t, <1>k, <1>r, <1>3 DEF Quiet, HasResult, Working, Exists, EnqueueStep, Enqueue, EnqueueFails
<1>4. ASSUME NEW j \in Jobs, PollStep(j) PROVE Quiet(i)
  BY <1>t, <1>k, <1>r, <1>4 DEF Quiet, HasResult, Working, Exists, PollStep, PollAnswers, PollTimesOut
<1>5. ASSUME NEW j \in Jobs, Delete(j) PROVE Quiet(i)
  BY <1>t, <1>k, <1>r, <1>5 DEF Quiet, HasResult, Working, Exists, Delete
<1>6. ASSUME NEW j \in Jobs, Age(j) PROVE Quiet(i)
  BY <1>t, <1>k, <1>r, <1>6 DEF Quiet, HasResult, Working, Exists, Age
<1>7. ASSUME NEW w \in Workers, Boot(w) PROVE Quiet(i)
  BY <1>t, <1>m, <1>r, <1>7 DEF Quiet, Working, Busy, Exists, ToIdle, Boot, Reclaimed
<1>8. ASSUME NEW w \in Workers, Pop(w) PROVE Quiet(i)
  BY <1>t, <1>m, <1>r, <1>8 DEF Quiet, Working, Busy, Exists, ToIdle, Pop
<1>9. ASSUME NEW w \in Workers, PopReplyLost(w) PROVE Quiet(i)
  BY <1>t, <1>m, <1>r, <1>9 DEF Quiet, Working, Busy, Exists, ToIdle, PopReplyLost
<1>10. ASSUME NEW w \in Workers, Load(w) PROVE Quiet(i)
  BY <1>t, <1>m, <1>r, <1>10 DEF Quiet, Working, Busy, Exists, ToIdle, Load
<1>11. ASSUME NEW w \in Workers, RunBacktest(w) PROVE Quiet(i)
  BY <1>t, <1>m, <1>r, <1>11 DEF Quiet, Working, Busy, Exists, ToIdle, RunBacktest, Raise
<1>12. ASSUME NEW w \in Workers, RunWindow(w) PROVE Quiet(i)
  BY <1>t, <1>m, <1>r, <1>12 DEF Quiet, Working, Busy, Exists, ToIdle, RunWindow, Raise
<1>13. ASSUME NEW w \in Workers, MarkFailed(w) PROVE Quiet(i)
  BY <1>t, <1>m, <1>r, <1>13 DEF Quiet, Working, Busy, Exists, ToIdle, MarkFailed
<1>14. ASSUME NEW w \in Workers, Crash(w) PROVE Quiet(i)
  BY <1>t, <1>m, <1>r, <1>14 DEF Quiet, Working, Busy, Exists, ToIdle, Crash
<1>15. ASSUME NEW w \in Workers, MarkRunning(w) PROVE Quiet(i) \/ Begins(i)
  <2>1. held[w] \in Jobs /\ pc[w] = "loaded" /\ (HasResult(i)' <=> HasResult(i))
    BY <1>t, <1>r, <1>15 DEF HoldsWhileBusy, MarkRunning
  <2>2. CASE ToIdle(w) /\ UNCHANGED <<row, runs>>
    BY <1>t, <1>m, <2>1, <2>2 DEF Quiet, Working, Busy, ToIdle
  <2>3. CASE To(w, "computing") /\ runs' = [runs EXCEPT ![held[w]] = @ + 1]
             /\ row' = IF Exists(held[w]) THEN [row EXCEPT ![held[w]] = "running"] ELSE row
    <3>1. Working(i)' \subseteq Working(i) \cup {w} /\ (held[w] # i => Working(i)' \subseteq Working(i))
      BY <1>m, <2>3 DEF Working, Busy
    <3>2. CASE held[w] = i
      BY <1>t, <2>1, <2>3, <3>1, <3>2 DEF Begins
    <3>3. CASE held[w] # i
      BY <1>t, <2>1, <2>3, <3>1, <3>3 DEF Quiet
    <3> QED BY <3>2, <3>3
  <2> QED BY <1>15, <2>2, <2>3 DEF MarkRunning
<1>16. ASSUME NEW w \in Workers, SaveBacktest(w) PROVE Quiet(i) \/ Completes(i)
  <2>1. held[w] \in BackJobs /\ held[w] \in Jobs /\ pc[w] = "saving"
    BY <1>k, <1>16 DEF SaveBacktest
  <2>2. CASE UNCHANGED <<row, runs, curves, windows>> /\ (ToIdle(w) \/ Raise(w))
    <3>1. Working(i)' \subseteq Working(i)
      <4>1. CASE ToIdle(w)
        BY <1>t, <1>m, <4>1 DEF Working, ToIdle
      <4>2. CASE Raise(w)
        BY <1>m, <2>1, <4>2 DEF Working, Busy, Raise
      <4> QED BY <2>2, <4>1, <4>2
    <3> QED BY <1>r, <2>2, <3>1 DEF Quiet
  <2>3. CASE /\ row' = [row EXCEPT ![held[w]] = "completed"] /\ runs' = runs /\ ToIdle(w)
             /\ Storable(held[w]) /\ curves' = [curves EXCEPT ![held[w]] = @ + 1] /\ UNCHANGED windows
    <3>1. Working(i)' \subseteq Working(i) \ {w}
      BY <1>t, <1>m, <2>3 DEF Working, ToIdle
    <3>2. CASE held[w] = i
      <4>1. w \in Working(i)
        BY <2>1, <3>2 DEF Working, Busy
      <4> QED BY <1>t, <2>3, <3>1, <3>2, <4>1 DEF Completes
    <3>3. CASE held[w] # i
      <4>1. HasResult(i)' => HasResult(i)
        BY <1>t, <1>k, <2>1, <2>3, <3>3 DEF HasResult
      <4> QED BY <1>t, <2>3, <3>1, <3>3, <4>1 DEF Quiet
    <3> QED BY <3>2, <3>3
  <2> QED BY <1>16, <2>2, <2>3 DEF SaveBacktest, Saved
<1>17. ASSUME NEW w \in Workers, SaveWalkforward(w) PROVE Quiet(i) \/ Completes(i)
  <2>1. held[w] \in WalkJobs /\ held[w] \in Jobs /\ pc[w] = "saving"
    BY <1>k, <1>17 DEF SaveWalkforward
  <2>2. CASE UNCHANGED <<row, runs, curves, windows>> /\ (ToIdle(w) \/ Raise(w))
    <3>1. Working(i)' \subseteq Working(i)
      <4>1. CASE ToIdle(w)
        BY <1>t, <1>m, <4>1 DEF Working, ToIdle
      <4>2. CASE Raise(w)
        BY <1>m, <2>1, <4>2 DEF Working, Busy, Raise
      <4> QED BY <2>2, <4>1, <4>2
    <3> QED BY <1>r, <2>2, <3>1 DEF Quiet
  <2>3. CASE /\ row' = [row EXCEPT ![held[w]] = "completed"] /\ runs' = runs /\ ToIdle(w)
             /\ windows' = [windows EXCEPT ![held[w]] = walked[w]] /\ UNCHANGED curves
    <3>1. Working(i)' \subseteq Working(i) \ {w}
      BY <1>t, <1>m, <2>3 DEF Working, ToIdle
    <3>2. CASE held[w] = i
      <4>1. w \in Working(i)
        BY <2>1, <3>2 DEF Working, Busy
      <4> QED BY <1>t, <2>3, <3>1, <3>2, <4>1 DEF Completes
    <3>3. CASE held[w] # i
      <4>1. HasResult(i)' => HasResult(i)
        BY <1>t, <1>k, <2>1, <2>3, <3>3 DEF HasResult
      <4> QED BY <1>t, <2>3, <3>1, <3>3, <4>1 DEF Quiet
    <3> QED BY <3>2, <3>3
  <2> QED BY <1>17, <2>2, <2>3 DEF SaveWalkforward, Saved
<1>18. CASE UNCHANGED vars
  BY <1>t, <1>r, <1>18 DEF Quiet, Working, vars
<1> QED
  BY <1>1, <1>2, <1>3, <1>4, <1>5, <1>6, <1>7, <1>8, <1>9, <1>10, <1>11, <1>12, <1>13, <1>14, <1>15, <1>16, <1>17, <1>18
     DEF Next, WorkerStep

LEMMA RunsTellStep ==
  ASSUME TypeOK, HoldsWhileBusy, [Next]_vars, NEW j \in Jobs, RunsTell(j)
  PROVE  RunsTell(j)'
PROOF
<1>t. runs[j] \in Nat
  BY DEF TypeOK
<1>1. CASE Quiet(j)
  BY <1>t, <1>1 DEF RunsTell, Quiet
<1>2. CASE Begins(j)
  BY <1>t, <1>2 DEF RunsTell, Begins
<1>3. CASE Completes(j)
  BY <1>t, <1>3 DEF RunsTell, Completes
<1> QED BY <1>1, <1>2, <1>3, QuietUnless

\* What a row claims and what is stored agree, whatever crashes, sweeps, second
\* pushes and deletions happen in between: a result under a row that runs or failed
\* takes two runs of one job (persistence.save_backtest_results,
\* walkforward_persistence.save_walkforward_results).
THEOREM ResultsMatch == Spec => []ResultMatchesStatus
PROOF
<1> DEFINE Inv == Stored /\ \A j \in Jobs : RunsTell(j)
<1>1. Init => Inv
  BY StoredInit, JobsAssumption DEF Init, RunsTell, HasResult, Working, Busy, Jobs
<1>2. Inv /\ [Next]_vars => Inv'
  <2> SUFFICES ASSUME Stored, \A j \in Jobs : RunsTell(j), [Next]_vars PROVE Inv'
    OBVIOUS
  <2>1. TypeOK /\ HoldsWhileBusy
    BY DEF Stored, Journey
  <2>2. \A j \in Jobs : RunsTell(j)'
    BY <2>1, RunsTellStep
  <2> QED BY <2>2, StoredStep
<1>3. Inv /\ RunsWithinPushes => ResultMatchesStatus
  <2> SUFFICES ASSUME Inv, RunsWithinPushes PROVE ResultMatchesStatus
    OBVIOUS
  <2>1. \A j \in Jobs : pushes[j] \in 0 .. 2 /\ runs[j] \in Nat /\ runs[j] <= pushes[j]
    BY DEF Stored, Journey, TypeOK, RunsWithinPushes
  <2>2. \A j \in Jobs : HasResult(j) /\ row[j] # "completed" =>
          row[j] \in {"running", "failed"} /\ runs[j] = 2
    BY <2>1 DEF RunsTell
  <2> QED BY <2>2 DEF Stored, Curves, StoredWindows, ResultMatchesStatus
<1> QED BY <1>1, <1>2, <1>3, RunsBounded, PTL DEF Spec

=============================================================================
