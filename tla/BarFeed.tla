------------------------------- MODULE BarFeed -------------------------------
(***************************************************************************)
(* From a closed bar on bars:closed to on_bar: the bar builder of Streams  *)
(* feeds the stream, BarRouter (packages/livetrade/router.py) reads it in  *)
(* the one group paper-trader, and every subscribed session folds the bar  *)
(* into its history and runs the strategy if the bar is newer than its     *)
(* watermark (warm_start and on_closed_bar of packages/livetrade/          *)
(* session.py).                                                            *)
(*                                                                         *)
(* What on_bar does with the bar is LiveSession's, which takes any bar at  *)
(* any time; this module says which ones come.  A session's history at the *)
(* load is read from the real-time aggregates over the trades table, which *)
(* hold some of the trades published by then and the bucket in progress.   *)
(***************************************************************************)
EXTENDS Streams

CONSTANTS
  Sessions,
  Follows, At,   \* the symbols and the resolution of each session
  NoGroup

ASSUME BarFeedAssumption ==
  /\ Follows \in [Sessions -> SUBSET Symbols] /\ At \in [Sessions -> Res]
  /\ NoGroup \notin [last : Nat, pel : SUBSET Nat]

VARIABLES
  runner,     \* "down", "up", or "deaf": the process is up, its bar-router task has died
  routed,     \* the group paper-trader
  unrouted,   \* what the router has not dispatched of its last read
  ackbars,    \* its ack_ids
  current,    \* the bar being dispatched, 0 before the first
  receivers,  \* the sessions it still has to go to
  row,        \* the status of each session: "new", "active" or "over"
  registry,   \* SessionRegistry
  saved,      \* last_processed_bar_ts of each session's row
  watermark,  \* last_processed_bar_ts of the session in memory
  latest,     \* the newest bar time in the session's history
  ran,        \* history: the bars on_bar ran for since the load, with latest at that moment
  base,       \* history: at the load, the next bar to be dispatched and the time to act after
  missed      \* history: the bars lost in a read or whose on_closed_bar raised since the load

router == <<runner, routed, unrouted, ackbars, current, receivers>>
session == <<row, registry, saved, watermark, latest, ran, base, missed>>
feedVars == <<vars, router, session>>

Time(k) == closed[k].bar.bucket * Width[closed[k].res]
Wants(s, k) == closed[k].sym \in Follows[s] /\ closed[k].res = At[s]
BarStream == [log |-> closed, first |-> 1]
NoTime == -1   \* before any bar
Later(a, b) == IF a > b THEN a ELSE b

NoBase == [next |-> 0, after |-> NoTime]

FeedInit ==
  /\ Init
  /\ runner = "down" /\ routed = NoGroup /\ unrouted = << >> /\ ackbars = {}
  /\ current = 0 /\ receivers = {}
  /\ row = [s \in Sessions |-> "new"] /\ registry = {}
  /\ saved = [s \in Sessions |-> NoTime] /\ watermark = saved /\ latest = [s \in Sessions |-> NoTime]
  /\ ran = [s \in Sessions |-> << >>] /\ missed = [s \in Sessions |-> {}]
  /\ base = [s \in Sessions |-> NoBase]

(***************************************************************************)
(* Loading a session.                                                      *)
(***************************************************************************)
\* The newest bucket of the session's bars when the first n trades are stored.
NewestStored(s, n) ==
  LET times == {Bucket(i, At[s]) * Width[At[s]] : i \in {j \in 1 .. n : SymbolAt(j) \in Follows[s]}}
  IN Max(times \cup {NoTime})

\* Mutant of Anchored: a resumed session takes the newest stored bar, too.
AnchoredAlways(s, newest) == Later(newest, saved[s])

\* A session without a watermark takes the newest stored bar for it.
Anchored(s, newest) == IF saved[s] = NoTime THEN newest ELSE saved[s]

\* _load_session with warm_start, for all sessions of S; k is the next bar they may get.
Loaded(S, k) ==
  \E n \in 0 .. Len(raw.log) :
    LET With(f, g) == [s \in Sessions |-> IF s \in S THEN g[s] ELSE f[s]]
        stored == [s \in S |-> NewestStored(s, n)]
    IN /\ registry' = registry \cup S
       /\ latest' = With(latest, stored) /\ UNCHANGED saved
       /\ watermark' = With(watermark, [s \in S |-> Anchored(s, stored[s])])
       /\ ran' = With(ran, [s \in S |-> << >>]) /\ missed' = With(missed, [s \in S |-> {}])
       /\ base' = With(base, [s \in S |->
            [next |-> k, after |-> IF saved[s] = NoTime THEN stored[s] ELSE saved[s]]])

\* PaperTrader.run: the active sessions are resumed, then the router makes sure of its
\* group, which begins at the end of the stream.  If that raises, its task is dead.
RunnerStarts ==
  /\ runner = "down"
  /\ LET from == IF routed = NoGroup THEN GroupFromNow(BarStream) ELSE routed IN
     /\ Loaded({s \in Sessions : row[s] = "active"}, from.last + 1)
     /\ \/ runner' = "up" /\ routed' = from /\ UNCHANGED faults
        \/ runner' = "deaf" /\ Fault /\ UNCHANGED routed
  /\ UNCHANGED <<raw, listed, worker, builder, unrouted, ackbars, current, receivers, row>>

\* The control loop starts a session that was created.
StartSession(s) ==
  /\ runner # "down" /\ row[s] = "new"
  /\ row' = [row EXCEPT ![s] = "active"]
  /\ Loaded({s}, IF unrouted # << >> THEN Head(unrouted)
                 ELSE IF routed = NoGroup THEN Len(closed) + 1 ELSE routed.last + 1)
  /\ UNCHANGED <<raw, listed, worker, builder, faults, router>>

\* _stop_session: a bar being dispatched may still reach it.
StopSession(s) ==
  /\ s \in registry /\ registry' = registry \ {s}
  /\ row' = [row EXCEPT ![s] = "over"]
  /\ UNCHANGED <<raw, listed, worker, builder, faults, router, saved, watermark, latest, ran, base, missed>>

(***************************************************************************)
(* The router.                                                             *)
(***************************************************************************)
\* The acknowledgement of the batch before, outside any try block: if it raises, the
\* task is dead.  Then the next read; if its reply is lost the group has advanced.
RouterReads ==
  /\ runner = "up" /\ unrouted = << >> /\ receivers = {}
  /\ LET ids == Ready(BarStream, routed, ReadSize) IN
     /\ ids # << >>
     /\ \/ /\ routed' = Delivered(Acked(routed, ackbars), ids)
           /\ unrouted' = ids /\ ackbars' = ToSet(ids)
           /\ UNCHANGED <<faults, runner, missed>>
        \/ /\ routed' = Delivered(Acked(routed, ackbars), ids)
           /\ ackbars' = {} /\ Fault
           /\ missed' = [s \in Sessions |-> missed[s] \cup ToSet(ids)]
           /\ UNCHANGED <<unrouted, runner>>
        \/ /\ ackbars # {} /\ Fault /\ runner' = "deaf"
           /\ UNCHANGED <<routed, unrouted, ackbars, missed>>
  /\ UNCHANGED <<raw, listed, worker, builder, current, receivers,
                 row, registry, saved, watermark, latest, ran, base>>

\* _dispatch: the subscribers are taken from the registry once per bar.
Subscribers(k) == {s \in registry : Wants(s, k)}
RouteBar ==
  /\ runner = "up" /\ unrouted # << >> /\ receivers = {}
  /\ current' = Head(unrouted) /\ unrouted' = Tail(unrouted)
  /\ receivers' = Subscribers(current')
  /\ UNCHANGED <<raw, listed, worker, builder, faults, runner, routed, ackbars, session>>

\* on_closed_bar: a bar older than the watermark is dropped, one as old is folded into
\* the history, a newer one is folded in and runs on_bar.
OnClosedBar(s) ==
  /\ runner = "up" /\ s \in receivers /\ receivers' = receivers \ {s}
  /\ latest' = IF Time(current) < watermark[s] THEN latest
               ELSE [latest EXCEPT ![s] = Later(@, Time(current))]
  /\ IF Time(current) > watermark[s]
     THEN /\ ran' = [ran EXCEPT ![s] = Append(@, [bar |-> current, latest |-> latest'[s]])]
          /\ watermark' = [watermark EXCEPT ![s] = Time(current)]
          /\ saved' = [saved EXCEPT ![s] = Time(current)]
     ELSE UNCHANGED <<ran, watermark, saved>>
  /\ UNCHANGED <<raw, listed, worker, builder, faults, runner, routed, unrouted, ackbars, current,
                 row, registry, base, missed>>

\* It raises: the transaction is rolled back, the bar stays in the history, and a
\* session whose row is gone is evicted.
OnClosedBarFails(s) ==
  /\ runner = "up" /\ s \in receivers /\ receivers' = receivers \ {s}
  /\ Fault /\ Time(current) > watermark[s]
  /\ latest' = [latest EXCEPT ![s] = Later(@, Time(current))]
  /\ missed' = [missed EXCEPT ![s] = @ \cup {current}]
  /\ \/ UNCHANGED <<registry, row>>
     \/ registry' = registry \ {s} /\ row' = [row EXCEPT ![s] = "over"]
  /\ UNCHANGED <<raw, listed, worker, builder, runner, routed, unrouted, ackbars, current,
                 saved, watermark, ran, base>>

\* The process dies or is deployed anew; what it had read is not read again.
RunnerDies ==
  /\ runner # "down" /\ Fault
  /\ runner' = "down" /\ unrouted' = << >> /\ ackbars' = {} /\ receivers' = {}
  /\ current' = 0 /\ registry' = {}
  /\ watermark' = [s \in Sessions |-> NoTime]
  /\ latest' = [s \in Sessions |-> NoTime] /\ base' = [s \in Sessions |-> NoBase]
  /\ ran' = [s \in Sessions |-> << >>] /\ missed' = [s \in Sessions |-> {}]
  /\ UNCHANGED <<raw, listed, worker, builder, routed, row, saved>>

FeedStep ==
  \/ RunnerStarts \/ RouterReads \/ RouteBar \/ RunnerDies
  \/ \E s \in Sessions :
       StartSession(s) \/ StopSession(s) \/ OnClosedBar(s) \/ OnClosedBarFails(s)

FeedNext ==
  \/ Next /\ UNCHANGED <<router, session>>
  \/ "runner" \in deployed /\ FeedStep /\ UNCHANGED deployed

FeedSpec == FeedInit /\ [][FeedNext]_feedVars
FeedFairSpec == FeedSpec /\ Fairness

(***************************************************************************)
(* Properties.                                                             *)
(***************************************************************************)
\* The bars dispatched while session s was loaded.
Dispatched(s) == {k \in base[s].next .. current : Wants(s, k) /\ ~(k = current /\ s \in receivers)}

\* A session acts on every closed bar of its symbols and resolution that is dispatched
\* while it is registered, once per bar time and in the order of time: it is passed
\* over only by a bar that was not newer than the load's watermark or than a bar
\* dispatched before, or because its own handling raised or the reply that brought it was lost.
EveryBarDrives ==
  \A s \in registry :
    LET done == {ran[s][k].bar : k \in DOMAIN ran[s]} IN
    /\ done \subseteq Dispatched(s)
    /\ \A j, k \in DOMAIN ran[s] : j < k => Time(ran[s][j].bar) < Time(ran[s][k].bar)
    /\ \A k \in Dispatched(s) \ (done \cup missed[s]) :
         \/ Time(k) <= base[s].after
         \/ \E j \in done : j < k /\ Time(j) >= Time(k)

\* "Full history of bars .. up to and including the current bar" (context.py, bars):
\* on_bar never sees a bar later than the one it runs for.
NoFutureBars ==
  \A s \in Sessions : \A k \in DOMAIN ran[s] : ran[s][k].latest <= Time(ran[s][k].bar)

=============================================================================
