---------------------------- MODULE SessionControl ----------------------------
(***************************************************************************)
(* The life of paper and live sessions across processes: the API endpoints *)
(* that create, stop and delete them, the Redis control list, and the      *)
(* runner processes (PaperTrader of packages/livetrade/runner.py) that     *)
(* load, resume, stop and halt the sessions of their shard.                *)
(*                                                                         *)
(* A session that is loaded is one LiveSession; here only whether a        *)
(* runner's registry holds it matters.  A runner handles one control       *)
(* message at a time; halts run beside it in tasks of their own.           *)
(***************************************************************************)
EXTENDS Integers, Sequences, FiniteSets

CONSTANTS
  Sessions,
  Runners,   \* the shards, one process each
  Owner,     \* the shard of a session: its id modulo SHARD_COUNT
  Budget     \* how many events of each kind may happen: bounds the runs

EventKind == {"crash", "push", "load", "db", "halt", "stop"}

ASSUME SessionControlAssumption ==
  /\ Owner \in [Sessions -> Runners]
  /\ Budget \in [EventKind -> Nat]

VARIABLES
  row,      \* paper_sessions.status; "none" before the insert, "deleted" after the delete
  calls,    \* API calls between their commit (or status check) and their last step
  queue,    \* the Redis list of control messages, oldest first
  life,     \* "down", "resume" (inside start()), "up"
  resume,   \* the active rows start() read and has not loaded yet
  busy,     \* what the runner's start() or control loop is in the middle of: at most one job
  reg,      \* SessionRegistry
  tripped,  \* the registered sessions whose _halted flag is set
  dropping, \* halt tasks that have not removed their session yet
  marking,  \* halt tasks that have not marked their row yet
  halted,   \* history: sessions whose daily-loss check ever fired
  count     \* bounded events so far, by kind

memory == <<life, resume, busy, reg, tripped, dropping, marking>>
vars   == <<row, calls, queue, memory, halted, count>>

Active == {"starting", "running", "stopping"}
Status == Active \cup {"none", "stopped", "error", "deleted"}
Message == [action : {"start", "stop"}, s : Sessions]
Call    == [action : {"start", "stop", "delete"}, s : Sessions]
\* load: inside _load_session up to the end of warm_start; run: registered, the row not yet
\* 'running'; fail: the resume failed, the row not yet 'error'; cancel: inside _stop_session
\* before registry.remove; stop: after it, the row not yet 'stopped'.
Job     == [step : {"load", "run", "fail", "cancel", "stop"}, s : Sessions, resumed : BOOLEAN]

Happens(k) == count[k] < Budget[k] /\ count' = [count EXCEPT ![k] = @ + 1]

Present(s) == row[s] \notin {"none", "deleted"}

\* mark_session_running, _stopped and _error update the row by its id, whatever its status.
Mark(s, status) == row' = IF Present(s) THEN [row EXCEPT ![s] = status] ELSE row

-----------------------------------------------------------------------------
Init ==
  /\ row = [s \in Sessions |-> "none"]
  /\ calls = {} /\ queue = <<>>
  /\ life = [r \in Runners |-> "down"] /\ resume = [r \in Runners |-> {}]
  /\ busy = [r \in Runners |-> {}] /\ reg = [r \in Runners |-> {}]
  /\ tripped = [r \in Runners |-> {}]
  /\ dropping = [r \in Runners |-> {}] /\ marking = [r \in Runners |-> {}]
  /\ halted = {} /\ count = [k \in EventKind |-> 0]

-----------------------------------------------------------------------------
(* The API *)

\* create_paper_session commits the row; the start message follows.
Create(s) ==
  /\ row[s] = "none"
  /\ row' = [row EXCEPT ![s] = "starting"]
  /\ calls' = calls \cup {[action |-> "start", s |-> s]}
  /\ UNCHANGED <<queue, memory, halted, count>>

\* stop_paper_session: a session that is not starting or running keeps its status, and the
\* message is sent all the same.
Stop(s) ==
  /\ Present(s) /\ Happens("stop")
  /\ row' = IF row[s] \in {"starting", "running"} THEN [row EXCEPT ![s] = "stopping"] ELSE row
  /\ calls' = calls \cup {[action |-> "stop", s |-> s]}
  /\ UNCHANGED <<queue, memory, halted>>

\* _push_control; an error of Redis is logged and swallowed.
Push(m) ==
  /\ m \in calls /\ m.action # "delete"
  /\ calls' = calls \ {m}
  /\ \/ queue' = Append(queue, m) /\ UNCHANGED count
     \/ Happens("push") /\ UNCHANGED queue
  /\ UNCHANGED <<row, memory, halted>>

\* delete_paper_session_endpoint reads the status ...
Delete(s) ==
  /\ Present(s) /\ row[s] \notin Active
  /\ calls' = calls \cup {[action |-> "delete", s |-> s]}
  /\ UNCHANGED <<row, queue, memory, halted, count>>

\* ... and then deletes the row by its id.
DeleteRow(m) ==
  /\ m \in calls /\ m.action = "delete"
  /\ calls' = calls \ {m}
  /\ Mark(m.s, "deleted")
  /\ UNCHANGED <<queue, memory, halted, count>>

-----------------------------------------------------------------------------
(* Starting a runner *)

\* Mutant of Owns: the shard is not looked at.
OwnsAll(r, s) == TRUE

Owns(r, s) == Owner[s] = r

\* Mutant of Resumed: rows already running are taken to be in good hands.
OnlyUnfinished(s) == row[s] \in {"starting", "stopping"}

\* load_active_paper_sessions
Resumed(s) == row[s] \in Active

\* The process starts and reads the active rows of its shard once.
Boot(r) ==
  /\ life[r] = "down"
  /\ life' = [life EXCEPT ![r] = "resume"]
  /\ resume' = [resume EXCEPT ![r] = {s \in Sessions : Resumed(s) /\ Owns(r, s)}]
  /\ UNCHANGED <<row, calls, queue, busy, reg, tripped, dropping, marking, halted, count>>

\* Mutant of Free: a message is taken up while another is being handled.
NeverBusy(r) == TRUE

\* Control messages and resumed rows are handled one after the other.
Free(r) == busy[r] = {}

Begin(r, step, s, resumed) ==
  busy' = [busy EXCEPT ![r] = @ \cup {[step |-> step, s |-> s, resumed |-> resumed]}]

ResumeRow(r, s) ==
  /\ life[r] = "resume" /\ Free(r) /\ s \in resume[r]
  /\ resume' = [resume EXCEPT ![r] = @ \ {s}]
  /\ Begin(r, "load", s, TRUE)
  /\ UNCHANGED <<row, calls, queue, life, reg, tripped, dropping, marking, halted, count>>

\* start() is over: the control loop and the bar router begin.
Ready(r) ==
  /\ life[r] = "resume" /\ Free(r) /\ resume[r] = {}
  /\ life' = [life EXCEPT ![r] = "up"]
  /\ UNCHANGED <<row, calls, queue, resume, busy, reg, tripped, dropping, marking,
                 halted, count>>

-----------------------------------------------------------------------------
(* _load_session *)

\* Mutant of Register: the registry is left as it is.
NotRegistered(r, s) == UNCHANGED reg

Register(r, s) == reg' = [reg EXCEPT ![r] = @ \cup {s}]

\* The job j is replaced by its next step.
Step(r, j, step) == busy' = [busy EXCEPT ![r] = (@ \ {j}) \cup {[j EXCEPT !.step = step]}]
Done(r, j) == busy' = [busy EXCEPT ![r] = @ \ {j}]

\* warm_start returns and registry.add follows; the new LiveSession is not halted.
Loaded(r, j) ==
  /\ j.step = "load"
  /\ Register(r, j.s)
  /\ tripped' = [tripped EXCEPT ![r] = @ \ {j.s}]
  /\ Step(r, j, "run")
  /\ UNCHANGED <<row, calls, queue, life, resume, dropping, marking, halted, count>>

MarkRunning(r, j) ==
  /\ j.step = "run"
  /\ Mark(j.s, "running")
  /\ Done(r, j)
  /\ UNCHANGED <<calls, queue, life, resume, reg, tripped, dropping, marking, halted, count>>

\* The strategy, the broker or the database raises: start() marks a resumed row, the control
\* loop only logs.
LoadFails(r, j) ==
  /\ \/ j.step = "load" /\ Happens("load")
     \/ j.step = "run" /\ Happens("db")
  /\ IF j.resumed THEN Step(r, j, "fail") ELSE Done(r, j)
  /\ UNCHANGED <<row, calls, queue, life, resume, reg, tripped, dropping, marking, halted>>

MarkFailed(r, j) ==
  /\ j.step = "fail"
  /\ Mark(j.s, "error")
  /\ Done(r, j)
  /\ UNCHANGED <<calls, queue, life, resume, reg, tripped, dropping, marking, halted, count>>

-----------------------------------------------------------------------------
(* The control loop *)

\* A start is dropped if the session is registered, its row is gone or another shard owns it;
\* the status of the row is not looked at.
Wanted(r, m) == m.s \notin reg[r] /\ Present(m.s) /\ Owns(r, m.s)

\* brpop takes the oldest message, whichever runner it is for.
Pop(r) ==
  /\ life[r] = "up" /\ Free(r) /\ queue # <<>>
  /\ queue' = Tail(queue)
  /\ LET m == Head(queue) IN
       \/ m.action = "start" /\ Wanted(r, m) /\ Begin(r, "load", m.s, FALSE)
       \/ m.action = "start" /\ ~Wanted(r, m) /\ UNCHANGED busy
       \/ m.action = "stop" /\ Begin(r, "cancel", m.s, FALSE)
  /\ UNCHANGED <<row, calls, life, resume, reg, tripped, dropping, marking, halted, count>>

Unregister(r, s) ==
  /\ reg' = [reg EXCEPT ![r] = @ \ {s}]
  /\ tripped' = [tripped EXCEPT ![r] = @ \ {s}]

\* _stop_session, its open orders asked to be cancelled.
StopDrops(r, j) ==
  /\ j.step = "cancel"
  /\ Unregister(r, j.s)
  /\ Step(r, j, "stop")
  /\ UNCHANGED <<row, calls, queue, life, resume, dropping, marking, halted, count>>

\* mark_session_stopped, or its failure, which the control loop logs.
MarkStopped(r, j) ==
  /\ j.step = "stop"
  /\ \/ Mark(j.s, "stopped") /\ UNCHANGED count
     \/ Happens("db") /\ UNCHANGED row
  /\ Done(r, j)
  /\ UNCHANGED <<calls, queue, life, resume, reg, tripped, dropping, marking, halted>>

-----------------------------------------------------------------------------
(* Halts, ghosts and crashes *)

\* _check_daily_loss of a registered session: the flag is set and the halt task scheduled.
Trip(r, s) ==
  /\ s \in reg[r] \ tripped[r] /\ Happens("halt")
  /\ tripped' = [tripped EXCEPT ![r] = @ \cup {s}]
  /\ dropping' = [dropping EXCEPT ![r] = @ \cup {s}]
  /\ halted' = halted \cup {s}
  /\ UNCHANGED <<row, calls, queue, life, resume, busy, reg, marking>>

\* _halt_session after its cancels: registry.remove ...
HaltDrops(r, s) ==
  /\ s \in dropping[r]
  /\ dropping' = [dropping EXCEPT ![r] = @ \ {s}]
  /\ marking' = [marking EXCEPT ![r] = @ \cup {s}]
  /\ Unregister(r, s)
  /\ UNCHANGED <<row, calls, queue, life, resume, busy, halted, count>>

\* ... and mark_session_error, which may fail.
HaltMarks(r, s) ==
  /\ s \in marking[r]
  /\ marking' = [marking EXCEPT ![r] = @ \ {s}]
  /\ \/ Mark(s, "error") /\ UNCHANGED count
     \/ Happens("db") /\ UNCHANGED row
  /\ UNCHANGED <<calls, queue, life, resume, busy, reg, tripped, dropping, halted>>

\* A write for a session whose row is gone fails on its foreign key: _evict_ghost.
Evict(r, s) ==
  /\ s \in reg[r] /\ row[s] = "deleted"
  /\ Unregister(r, s)
  /\ UNCHANGED <<row, calls, queue, life, resume, busy, dropping, marking, halted, count>>

\* The process dies; the message it was handling is gone with it.
Crash(r) ==
  /\ life[r] # "down" /\ Happens("crash")
  /\ life' = [life EXCEPT ![r] = "down"]
  /\ resume' = [resume EXCEPT ![r] = {}] /\ busy' = [busy EXCEPT ![r] = {}]
  /\ reg' = [reg EXCEPT ![r] = {}] /\ tripped' = [tripped EXCEPT ![r] = {}]
  /\ dropping' = [dropping EXCEPT ![r] = {}] /\ marking' = [marking EXCEPT ![r] = {}]
  /\ UNCHANGED <<row, calls, queue, halted>>

-----------------------------------------------------------------------------
Api ==
  \/ \E s \in Sessions : Create(s) \/ Stop(s) \/ Delete(s)
  \/ \E m \in calls : Push(m) \/ DeleteRow(m)

Starting(r) == Boot(r) \/ Ready(r) \/ \E s \in Sessions : ResumeRow(r, s)

Working(r) ==
  \E j \in busy[r] : Loaded(r, j) \/ MarkRunning(r, j) \/ LoadFails(r, j) \/ MarkFailed(r, j)
                       \/ StopDrops(r, j) \/ MarkStopped(r, j)

Halting(r) == \E s \in Sessions : HaltDrops(r, s) \/ HaltMarks(r, s)

Next ==
  \/ Api
  \/ \E r \in Runners :
       \/ Starting(r) \/ Working(r) \/ Pop(r) \/ Halting(r) \/ Crash(r)
       \/ \E s \in Sessions : Trip(r, s) \/ Evict(r, s)

Spec == Init /\ [][Next]_vars

\* A runner that went down is started again (restart: unless-stopped), and its coroutines go
\* on.  Nothing is assumed of the API's callers.
LiveSpec ==
  Spec /\ \A r \in Runners : WF_vars(Starting(r)) /\ WF_vars(Working(r)) /\ WF_vars(Halting(r))

-----------------------------------------------------------------------------
(* Properties *)

TypeOK ==
  /\ row \in [Sessions -> Status] /\ calls \subseteq Call /\ queue \in Seq(Message)
  /\ life \in [Runners -> {"down", "resume", "up"}]
  /\ resume \in [Runners -> SUBSET Sessions] /\ reg \in [Runners -> SUBSET Sessions]
  /\ busy \in [Runners -> SUBSET Job] /\ \A r \in Runners : \A i, j \in busy[r] : i = j
  /\ tripped \in [Runners -> SUBSET Sessions]
  /\ dropping \in [Runners -> SUBSET Sessions] /\ marking \in [Runners -> SUBSET Sessions]
  /\ halted \subseteq Sessions /\ count \in [EventKind -> Nat]

\* A session is never traded by two processes, although any runner may take any control
\* message and a runner reloads its rows after a crash: two of them would send every order
\* twice (_owns, load_active_paper_sessions).
OneTrader == \A r, q \in Runners : r # q => reg[r] \cap reg[q] = {}

\* Between control messages the runner of a shard trades every session whose row says running,
\* whatever was started, stopped, deleted or resumed before by whichever runner; halts and
\* failed writes of the status apart.
RunningIsTraded ==
  \A s \in Sessions :
    row[s] = "running" /\ life[Owner[s]] = "up" /\ Free(Owner[s]) =>
      s \in reg[Owner[s]] \cup halted \/ count["db"] > 0

\* A session that was running when its runner crashed is eventually traded again, or no longer
\* called running, unless it was halted or a status write was lost.
RunningResumed ==
  \A s \in Sessions :
    row[s] = "running" ~>
      s \in reg[Owner[s]] \cup halted \/ row[s] # "running" \/ count["db"] > 0

\* A session that tripped the daily-loss guardrail is never loaded again ("Permanently halt a
\* live session that tripped a risk guardrail ... Restarting requires a new session",
\* _halt_session).
HaltIsFinal == [][\A r \in Runners : reg'[r] \cap halted \subseteq reg[r]]_vars

=============================================================================
