---------------------------- MODULE BacktestJobs ----------------------------
(***************************************************************************)
(* The backtest and walk-forward jobs: the API and the copilot tools that  *)
(* create and enqueue them, the two Redis lists, the worker processes of   *)
(* services/backtest_worker, the rows they keep in Postgres, and the       *)
(* deletion endpoints.                                                     *)
(*                                                                         *)
(* A job is its row's id.  The result of a backtest is its equity curve,   *)
(* kept as the number of copies stored; the result of a walk-forward is    *)
(* its sequence of windows.  Of a row's started_at only "older than        *)
(* STALE_RUNNING_SECONDS" is kept.  One step of a worker is what it does   *)
(* between two awaits on Redis or Postgres.  A transaction that raises is  *)
(* taken to be rolled back: a COMMIT that lands while its reply is lost is *)
(* left out.                                                               *)
(***************************************************************************)
EXTENDS Walkforward

CONSTANTS
  BackJobs, WalkJobs,   \* the ids of the two tables
  Polled,               \* the jobs the copilot creates and then polls
  Workers,              \* the worker containers
  Headers,              \* the walk-forward requests a client may send
  MaxFaults,            \* how many crashes and failed calls in all: bounds the runs
  MaxDups,              \* how many ids reach a list twice: bounds the runs
  NoJob

Jobs  == BackJobs \cup WalkJobs
Kinds == {"walk", "back"}
Kind(j) == IF j \in WalkJobs THEN "walk" ELSE "back"

ASSUME JobsAssumption ==
  /\ BackJobs \cap WalkJobs = {} /\ NoJob \notin Jobs /\ Polled \subseteq Jobs
  /\ Headers \subseteq [bars : Nat, train : Nat \ {0}, test : Nat \ {0}, num : Nat \ {0}]
  /\ MaxFaults \in Nat /\ MaxDups \in Nat

VARIABLES
  (* Postgres *)
  row,       \* status of each row; "none" before the insert, "deleted" after the delete
  aged,      \* the rows whose started_at is older than the staleness gate
  header,    \* the request stored in a walkforwards row
  curves,    \* how many copies of its equity curve a backtest has stored
  windows,   \* windows_result of a walkforwards row
  (* Redis *)
  list,      \* the two job lists; LPUSH appends, BRPOP takes the head
  (* the API processes *)
  request,   \* the rows committed whose id is still to be pushed
  born,      \* the strategy's backtests in the order of created_at
  answer,    \* what the copilot tool said of the job: "none", "polling", or a status
  (* the workers *)
  pc,        \* where each worker stands
  held,      \* the job it popped
  walked,    \* the windows its walk-forward has finished
  (* history and bounds *)
  pushes,    \* how often each id reached its list
  runs,      \* how often each job was marked running
  faults     \* the crashes of workers and the failed calls to Redis or Postgres so far

db    == <<row, aged, header, curves, windows>>
api   == <<request, born, answer>>
proc  == <<pc, held, walked>>
hist  == <<pushes, runs>>
vars  == <<db, list, api, proc, hist, faults>>

Statuses == {"none", "pending", "running", "completed", "failed", "deleted"}
Stages   == {"down", "idle", "popped", "loaded", "computing", "saving", "failing"}
NoHeader == [bars |-> 0, train |-> 0, test |-> 0, num |-> 0]
Exists(j) == row[j] \notin {"none", "deleted"}
Terminal  == {"completed", "failed"}

Init ==
  /\ row = [j \in Jobs |-> "none"] /\ aged = {}
  /\ header = [j \in WalkJobs |-> NoHeader]
  /\ curves = [j \in BackJobs |-> 0] /\ windows = [j \in WalkJobs |-> << >>]
  /\ list = [k \in Kinds |-> << >>]
  /\ request = {} /\ born = << >> /\ answer = [j \in Polled |-> "none"]
  /\ pc = [w \in Workers |-> "down"] /\ held = [w \in Workers |-> NoJob]
  /\ walked = [w \in Workers |-> << >>]
  /\ pushes = [j \in Jobs |-> 0] /\ runs = [j \in Jobs |-> 0]
  /\ faults = 0

\* One more crash or failed call.
Fault == faults < MaxFaults /\ faults' = faults + 1

(***************************************************************************)
(* The API: create, enqueue, delete, and the copilot's polling.            *)
(***************************************************************************)
CreateBacktest(j) ==
  /\ j \in BackJobs /\ row[j] = "none"
  /\ row' = [row EXCEPT ![j] = "pending"]
  /\ request' = request \cup {j} /\ born' = Append(born, j)
  /\ UNCHANGED <<aged, header, curves, windows, list, answer, proc, hist, faults>>

\* _latest_backtest_meta: the newest backtest that still exists is completed.
LatestCompleted ==
  \E i \in DOMAIN born :
    /\ row[born[i]] = "completed"
    /\ \A k \in DOMAIN born : k > i => row[born[k]] = "deleted"

\* Refused when the test segment is longer than the training segment; the
\* copilot's out-of-sample tool also wants the newest backtest completed.
CreateWalkforward(j) ==
  /\ j \in WalkJobs /\ row[j] = "none"
  /\ j \in Polled => LatestCompleted
  /\ \E h \in Headers :
       /\ h.test <= h.train
       /\ header' = [header EXCEPT ![j] = h]
  /\ row' = [row EXCEPT ![j] = "pending"]
  /\ request' = request \cup {j}
  /\ UNCHANGED <<aged, curves, windows, list, born, answer, proc, hist, faults>>

\* Mutant of Answered: a status the table does not have.
AnsweredQueued(j, pushed) ==
  IF j \notin Polled THEN answer ELSE [answer EXCEPT ![j] = "queued"]

\* What the client gets to know once the push has been tried.
Answered(j, pushed) ==
  IF j \notin Polled THEN answer
  ELSE [answer EXCEPT ![j] = IF pushed \/ j \in WalkJobs THEN "polling" ELSE "pending"]

\* LPUSH after the commit; the id may arrive twice when the client library
\* repeats a push whose reply was lost, or by the manual LPUSH.
Enqueue(j) ==
  /\ j \in request /\ request' = request \ {j}
  /\ \E copies \in {1, 2} :
       /\ copies = 2 => \E d \in 0 .. MaxDups - 1 :
                            d = Cardinality({i \in Jobs : pushes[i] = 2})
       /\ pushes' = [pushes EXCEPT ![j] = copies]
       /\ list' = [list EXCEPT ![Kind(j)] = @ \o [i \in 1 .. copies |-> j]]
  /\ answer' = Answered(j, TRUE)
  /\ UNCHANGED <<db, born, proc, runs, faults>>

\* The push raises (or the API dies before it): the row stays without an entry.
EnqueueFails(j) ==
  /\ j \in request /\ request' = request \ {j}
  /\ Fault /\ answer' = Answered(j, FALSE)
  /\ UNCHANGED <<db, list, born, proc, hist>>

\* The owner deletes the row, in whatever state it is; the foreign keys cascade.
Delete(j) ==
  /\ Exists(j)
  /\ row' = [row EXCEPT ![j] = "deleted"]
  /\ aged' = aged \ {j}
  /\ curves' = IF j \in BackJobs THEN [curves EXCEPT ![j] = 0] ELSE curves
  /\ windows' = IF j \in WalkJobs THEN [windows EXCEPT ![j] = << >>] ELSE windows
  /\ UNCHANGED <<header, list, api, proc, hist, faults>>

\* The tool sees a terminal status and returns it.
PollAnswers(j) ==
  /\ j \in Polled /\ answer[j] = "polling" /\ row[j] \in Terminal
  /\ answer' = [answer EXCEPT ![j] = row[j]]
  /\ UNCHANGED <<db, list, request, born, proc, hist, faults>>

\* POLL_TIMEOUT_SECONDS have passed: the status last seen is returned, an older
\* one when the row is gone.
PollTimesOut(j) ==
  /\ j \in Polled /\ answer[j] = "polling" /\ row[j] \notin Terminal
  /\ \E seen \in IF Exists(j) THEN {row[j]} ELSE {"pending", "running"} :
       answer' = [answer EXCEPT ![j] = seen]
  /\ UNCHANGED <<db, list, request, born, proc, hist, faults>>

(***************************************************************************)
(* The worker process.                                                     *)
(***************************************************************************)
\* The job's local variables go when the worker leaves it.
Leave(w, stage) ==
  /\ pc' = [pc EXCEPT ![w] = stage] /\ held' = [held EXCEPT ![w] = NoJob]
  /\ walked' = [walked EXCEPT ![w] = << >>]

ToIdle(w)    == Leave(w, "idle")
To(w, stage) == pc' = [pc EXCEPT ![w] = stage] /\ UNCHANGED <<held, walked>>

\* An exception inside the job's try block.
\* Mutant of Raise: only the loop's own handler sees it.
RaiseToLoop(w) == ToIdle(w)
Raise(w) == To(w, "failing")

\* The results are committed and the job is over.
\* Mutant of Saved: what follows the commit may still raise.
SavedThenRaise(w) == ToIdle(w) \/ Raise(w)
Saved(w) == ToIdle(w)

\* COALESCE(started_at, created_at) passes the gate of BACKTEST_STALE_RUNNING_SECONDS.
Age(j) ==
  /\ row[j] \in {"pending", "running"} /\ j \notin aged
  /\ aged' = aged \cup {j}
  /\ UNCHANGED <<row, header, curves, windows, list, api, proc, hist, faults>>

\* reclaim_stale_backtests and reclaim_stale_walkforwards, in one transaction.
\* Mutant of Reclaimed: jobs that wait are swept too.
ReclaimedAlsoPending == aged
Reclaimed == {j \in aged : row[j] = "running"}

\* A start: the sweep of orphans, whose failure is only logged, and the loop.
Boot(w) ==
  /\ pc[w] = "down"
  /\ ToIdle(w)
  /\ \/ /\ row' = [j \in Jobs |-> IF j \in Reclaimed THEN "failed" ELSE row[j]]
        /\ aged' = aged \ Reclaimed /\ UNCHANGED faults
     \/ Fault /\ UNCHANGED <<row, aged>>
  /\ UNCHANGED <<header, curves, windows, list, api, hist>>

\* BRPOP names the walk-forward list first.
\* Mutant of NextKind: only one list is named.
OnlyWalkforwards == "walk"
NextKind == IF list["walk"] # << >> THEN "walk" ELSE "back"

\* Mutant of Popped: the element is read and left on the list.
Peeked(k) == list
Popped(k) == [list EXCEPT ![k] = Tail(@)]

Pop(w) ==
  /\ pc[w] = "idle" /\ list[NextKind] # << >>
  /\ list' = Popped(NextKind)
  /\ held' = [held EXCEPT ![w] = Head(list[NextKind])]
  /\ pc' = [pc EXCEPT ![w] = "popped"]
  /\ UNCHANGED <<db, api, walked, hist, faults>>

\* The element has left the list but the reply never arrives: brpop raises.
PopReplyLost(w) ==
  /\ pc[w] = "idle" /\ list[NextKind] # << >>
  /\ list' = Popped(NextKind)
  /\ Fault
  /\ UNCHANGED <<db, api, proc, hist>>

\* The header is read; a missing row or one that is not pending ends the job.
\* An error here, or in MarkRunning, is outside the job's own try block.
Load(w) ==
  /\ pc[w] = "popped"
  /\ \/ row[held[w]] = "pending" /\ To(w, "loaded") /\ UNCHANGED faults
     \/ row[held[w]] # "pending" /\ ToIdle(w) /\ UNCHANGED faults
     \/ Fault /\ ToIdle(w)
  /\ UNCHANGED <<db, list, api, hist>>

\* UPDATE .. SET status = 'running' WHERE id = .., whatever the status is by now.
MarkRunning(w) ==
  LET j == held[w] IN
  /\ pc[w] = "loaded"
  /\ \/ /\ To(w, "computing")
        /\ row' = IF Exists(j) THEN [row EXCEPT ![j] = "running"] ELSE row
        /\ aged' = aged \ {j}
        /\ runs' = [runs EXCEPT ![j] = @ + 1]
        /\ UNCHANGED faults
     \/ Fault /\ ToIdle(w) /\ UNCHANGED <<row, aged, runs>>
  /\ UNCHANGED <<header, curves, windows, list, api, pushes>>

\* Resolve, validate, load bars, run, analyse: a backtest is computed or raises.
RunBacktest(w) ==
  /\ pc[w] = "computing" /\ held[w] \in BackJobs
  /\ To(w, "saving") \/ Raise(w)
  /\ UNCHANGED <<db, list, api, hist, faults>>

\* One window: a sweep over the combinations, then the best of them on the test
\* bars.  No window at all, a sweep without a winner, or a failed test run raises.
RunWindow(w) ==
  LET ws == ComputeWindows(header[held[w]])
      i  == Len(walked[w]) + 1
  IN
  /\ pc[w] = "computing" /\ held[w] \in WalkJobs
  /\ \/ /\ i \in DOMAIN ws
        /\ \/ walked' = [walked EXCEPT ![w] = Append(@, ws[i])] /\ UNCHANGED <<pc, held>>
           \/ Raise(w)
     \/ ws = << >> /\ Raise(w)
     \/ ws # << >> /\ i > Len(ws) /\ To(w, "saving")
  /\ UNCHANGED <<db, list, api, hist, faults>>

\* The keys of backtest_equity_points: a header to refer to, no point twice.
\* Mutant of Storable: the points have no primary key.
Referable(j) == Exists(j)
Storable(j) == Exists(j) /\ curves[j] = 0

\* save_backtest_results and save_training_samples in one transaction: the
\* equity points violate a key when the row is gone or a curve is there already,
\* and the transaction rolls back.
SaveBacktest(w) ==
  LET j == held[w] IN
  /\ pc[w] = "saving" /\ j \in BackJobs
  /\ \/ /\ Storable(j)
        /\ row' = [row EXCEPT ![j] = "completed"] /\ aged' = aged \ {j}
        /\ curves' = [curves EXCEPT ![j] = @ + 1]
        /\ Saved(w) /\ UNCHANGED faults
     \/ /\ ~Storable(j)
        /\ Raise(w) /\ UNCHANGED <<row, aged, curves, faults>>
     \/ Fault /\ Raise(w) /\ UNCHANGED <<row, aged, curves>>
  /\ UNCHANGED <<header, windows, list, api, hist>>

\* One UPDATE; it finds no row when the job was deleted.
SaveWalkforward(w) ==
  LET j == held[w] IN
  /\ pc[w] = "saving" /\ j \in WalkJobs
  /\ \/ /\ Exists(j)
        /\ row' = [row EXCEPT ![j] = "completed"] /\ aged' = aged \ {j}
        /\ windows' = [windows EXCEPT ![j] = walked[w]]
        /\ Saved(w) /\ UNCHANGED faults
     \/ ~Exists(j) /\ ToIdle(w) /\ UNCHANGED <<row, aged, windows, faults>>
     \/ Fault /\ Raise(w) /\ UNCHANGED <<row, aged, windows>>
  /\ UNCHANGED <<header, curves, list, api, hist>>

\* The failure handler; when its own UPDATE fails that is only logged.
MarkFailed(w) ==
  LET j == held[w] IN
  /\ pc[w] = "failing" /\ ToIdle(w)
  /\ \/ /\ row' = IF Exists(j) THEN [row EXCEPT ![j] = "failed"] ELSE row
        /\ aged' = aged \ {j} /\ UNCHANGED faults
     \/ Fault /\ UNCHANGED <<row, aged>>
  /\ UNCHANGED <<header, curves, windows, list, api, hist>>

\* OOM, SIGKILL or a container restart, at any point of a job.
Crash(w) ==
  /\ pc[w] # "down" /\ Fault
  /\ Leave(w, "down")
  /\ UNCHANGED <<db, list, api, hist>>

(***************************************************************************)
(* The specification.                                                      *)
(***************************************************************************)
WorkerStep(w) ==
  \/ Boot(w) \/ Pop(w) \/ PopReplyLost(w) \/ Load(w) \/ MarkRunning(w)
  \/ RunBacktest(w) \/ RunWindow(w) \/ SaveBacktest(w) \/ SaveWalkforward(w)
  \/ MarkFailed(w)

EnqueueStep(j) == Enqueue(j) \/ EnqueueFails(j)
PollStep(j)    == PollAnswers(j) \/ PollTimesOut(j)

Next ==
  \/ \E j \in Jobs : \/ CreateBacktest(j) \/ CreateWalkforward(j) \/ EnqueueStep(j)
                     \/ PollStep(j) \/ Delete(j) \/ Age(j)
  \/ \E w \in Workers : WorkerStep(w) \/ Crash(w)

Spec == Init /\ [][Next]_vars

\* A worker container is restarted when it dies and loops until it is told to
\* stop, and an API request that has committed goes on to the push.  Users,
\* crashes and time passing the gate are not fair.
Fairness ==
  /\ \A w \in Workers : WF_vars(WorkerStep(w))
  /\ \A j \in Jobs : WF_vars(EnqueueStep(j))

FairSpec == Spec /\ Fairness

(***************************************************************************)
(* Properties.                                                             *)
(***************************************************************************)
TypeOK ==
  /\ row \in [Jobs -> Statuses] /\ aged \subseteq Jobs
  /\ header \in [WalkJobs -> Headers \cup {NoHeader}]
  /\ curves \in [BackJobs -> Nat] /\ windows \in [WalkJobs -> Seq(Windows)]
  /\ list \in [Kinds -> Seq(Jobs)] /\ request \subseteq Jobs /\ born \in Seq(BackJobs)
  /\ answer \in [Polled -> Statuses \cup {"polling"}]
  /\ pc \in [Workers -> Stages] /\ held \in [Workers -> Jobs \cup {NoJob}]
  /\ walked \in [Workers -> Seq(Windows)]
  /\ pushes \in [Jobs -> 0 .. 2] /\ runs \in [Jobs -> Nat]
  /\ faults \in 0 .. MaxFaults

Copies(j) == Cardinality({i \in DOMAIN list[Kind(j)] : list[Kind(j)][i] = j})
Holders(j) == {w \in Workers : held[w] = j}

\* "BRPOP is atomic; each job goes to exactly one worker": a job runs at most as
\* often as its id was pushed, and what is queued, held or was run never exceeds
\* that, across crashes, sweeps and deletions.
RunsWithinPushes ==
  \A j \in Jobs :
    /\ runs[j] <= pushes[j]
    /\ Copies(j) + Cardinality(Holders(j)) <= pushes[j]

HasResult(j) == IF j \in BackJobs THEN curves[j] > 0 ELSE windows[j] # << >>

\* What a row claims and what is stored agree.  A backtest never has its equity curve twice
\* and a completed job has its whole result; a row that waits or is gone has none.  A row that
\* runs or failed has one only if two workers ran the job, which takes an id pushed twice: the
\* loser of the insert, or a second run that raises, writes 'failed' over the winner's
\* 'completed' and the result stays.  No sweep, crash or late save does that to a single run
\* (save_backtest_results, save_walkforward_results).
ResultMatchesStatus ==
  /\ \A j \in BackJobs : curves[j] <= 1 /\ (row[j] = "completed" => curves[j] = 1)
  /\ \A j \in WalkJobs :
       row[j] = "completed" => Len(windows[j]) = Len(ComputeWindows(header[j]))
  /\ \A j \in Jobs : HasResult(j) /\ row[j] # "completed" =>
       row[j] \in {"running", "failed"} /\ runs[j] = 2

\* Every walk-forward stored is honest about time: each test segment follows the
\* bars its parameters were selected on, lies inside the history, no bar is
\* tested twice and the newest test ends at the last bar.  (Windows are counted in
\* bars of one history: how they lie in time where the histories of several symbols
\* differ is not part of it.)
WindowsHonest ==
  \A j \in WalkJobs :
    LET ws == windows[j] IN
    row[j] = "completed" =>
      /\ \A i \in DOMAIN ws : HeldOut(ws[i])
      /\ Anchored(ws, header[j]) /\ TestsDisjoint(ws)

\* Nothing will ever move the row again but a sweep or its owner.
Stranded(j) ==
  /\ row[j] \in {"pending", "running"}
  /\ j \notin request /\ Copies(j) = 0 /\ Holders(j) = {}

\* A row is left behind only by a crash or a failed call: no order of creations,
\* deletions, sweeps, restarts and polls strands a job by itself.
StrandedOnlyByFault ==
  faults = 0 => \A j \in Jobs : ~Stranded(j)

\* 'completed' is the last word on a job that was pushed once, and so the
\* copilot's report of it stays true; a sweep that took a long run for an orphan
\* is overtaken by the run's own result, never the other way round.
CompletedIsFinal ==
  [][\A j \in Jobs : pushes[j] <= 1 /\ row[j] = "completed"
                       => row'[j] \in {"completed", "deleted"}]_vars

AnswerHolds ==
  \A j \in Polled :
    /\ pushes[j] <= 1 /\ answer[j] = "completed" => row[j] \in {"completed", "deleted"}
    /\ answer[j] = "failed" => runs[j] > 0

\* Every job that is waiting or running settles, however many walk-forwards are
\* ahead of it, unless a fault stranded it.
JobsSettle ==
  \A j \in Jobs :
    row[j] \in {"pending", "running"} ~> row[j] \in {"completed", "failed", "deleted"} \/ Stranded(j)

=============================================================================
