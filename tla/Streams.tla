------------------------------- MODULE Streams -------------------------------
(***************************************************************************)
(* From a trade on trades:raw to its row in the database and to the closed *)
(* bars on bars:closed: the persistence worker                             *)
(* (services/persistence_worker/main.py) and the bar builder               *)
(* (services/bar_builder/main.py), each a consumer group of the stream     *)
(* that ingestion fills.                                                   *)
(*                                                                         *)
(* The trades may come late, or twice after a reconnect.  Every call to    *)
(* Redis or to the database may fail, and either service may die and be    *)
(* started again at once; faults bounds how often.  A call to the database *)
(* and an XACK that raise are taken not to have been done: one that is     *)
(* done while its reply is lost is left out.  A bar is the sequence        *)
(* of the entries it was built from: open, high, low, close, volume and    *)
(* VWAP are functions of that sequence.                                    *)
(***************************************************************************)
EXTENDS MessageBus, Lists

CONSTANTS
  Trades,       \* what ingestion may publish
  Symbol, Second,  \* of each trade
  Known, New,   \* the instruments always listed, and those that come and go
  Resolutions,  \* the resolutions in the builder's order
  Width,        \* seconds of a bar of each resolution
  Cap,          \* MAXLEN of the stream
  FlushSize, ReadSize,  \* batch sizes of the worker and of the builder
  MaxRaw,       \* entries published: bounds the runs
  MaxFaults,    \* failures and crashes: bounds the runs
  Deployments,  \* the sets of services that may be running
  Feed,         \* the trades that may come in each of them
  NoBar

ASSUME StreamsAssumption ==
  /\ Symbol \in [Trades -> Known \cup New] /\ Second \in [Trades -> Nat]
  /\ Resolutions \in Seq(DOMAIN Width) /\ \A r \in DOMAIN Width : Width[r] \in Nat \ {0}
  /\ \A j, k \in DOMAIN Resolutions : Resolutions[j] = Resolutions[k] => j = k
  /\ NoBar \notin [bucket : Nat, trades : Seq(Nat)]
  /\ Cap \in Nat \ {0} /\ FlushSize \in Nat \ {0} /\ ReadSize \in Nat \ {0}
  /\ MaxRaw \in Nat /\ MaxFaults \in Nat /\ Feed \in [Deployments -> SUBSET Trades]

VARIABLES
  deployed,  \* the services that run: "worker", "builder"
  raw,       \* trades:raw
  listed,    \* the active instruments of the table
  store,     \* the persistence worker's group on raw
  buffer,    \* its buffer
  turn,      \* "consume" or "flush": where its loop is
  cache,     \* its instrument cache
  table,     \* the trades table
  skipped,   \* history: entries flushed while their instrument was not in the cache
  build,     \* the bar builder's group on raw
  batch,     \* what it has not processed of its last read
  ackable,   \* ack_ids
  bars,      \* _bars: the bar in progress of each symbol and resolution
  closed,    \* bars:closed
  faults,    \* failed calls and crashes so far
  losses     \* history: how often the worker lost what it had been handed

worker == <<store, buffer, turn, cache, table, skipped, losses>>
builder == <<build, batch, ackable, bars, closed>>
vars == <<deployed, raw, listed, worker, builder, faults>>

Symbols == Known \cup New
Entries == DOMAIN raw.log
Res == ToSet(Resolutions)
SymbolAt(i) == Symbol[raw.log[i]]

Init ==
  /\ deployed \in Deployments
  /\ raw = NoEntries /\ listed = Known
  /\ store = GroupFromStart /\ buffer = << >> /\ turn = "consume" /\ cache = Known
  /\ table = {} /\ skipped = {} /\ losses = 0
  /\ build = GroupFromStart /\ batch = << >> /\ ackable = {}
  /\ bars = [s \in Symbols |-> [r \in Res |-> NoBar]] /\ closed = << >>
  /\ faults = 0

Fault == faults < MaxFaults /\ faults' = faults + 1

(***************************************************************************)
(* Ingestion and the instrument universe.                                  *)
(***************************************************************************)
\* _publish_trade: a failed publish is only logged, which is a trade never seen.
\* Ingestion read its symbols when it started, whatever is listed by now.
Publish ==
  /\ Len(raw.log) < MaxRaw
  /\ \E t \in Feed[deployed] : raw' \in Published(raw, t, Cap)
  /\ UNCHANGED <<listed, worker, builder, faults>>

\* discover_binanceus_universe: an instrument becomes active, or is no more.
Discover ==
  /\ \E s \in New : listed' = IF s \in listed THEN listed \ {s} ELSE listed \cup {s}
  /\ UNCHANGED <<raw, worker, builder, faults>>

(***************************************************************************)
(* The persistence worker (_consume_loop, _flush_trades).                  *)
(***************************************************************************)
\* A read that returns nothing matters only when something is buffered.  Then the
\* loop flushes if the size is reached or, perhaps, the time.
Consume ==
  /\ turn = "consume"
  /\ LET ids == Ready(raw, store, FlushSize) IN
     /\ ids # << >> \/ buffer # << >>
     /\ buffer' = buffer \o ids
     /\ store' = IF ids = << >> THEN store ELSE Delivered(store, ids)
  /\ turn' \in (IF Len(buffer') < FlushSize THEN {"consume", "flush"} ELSE {"flush"})
  /\ UNCHANGED <<raw, listed, cache, table, skipped, losses, builder, faults>>

\* The entries are handed out but the reply never arrives: consume raises.
ConsumeFails ==
  /\ turn = "consume" /\ Fault /\ losses' = losses + 1
  /\ LET ids == Ready(raw, store, FlushSize) IN ids # << >> /\ store' = Delivered(store, ids)
  /\ UNCHANGED <<raw, listed, buffer, turn, cache, table, skipped, builder>>

Rows == {raw.log[i] : i \in {j \in ToSet(buffer) : SymbolAt(j) \in cache}}
Skipped == {i \in ToSet(buffer) : SymbolAt(i) \notin cache}

\* Mutant of Inserted: no ON CONFLICT clause.
InsertedAll(rows) == rows

\* ON CONFLICT DO NOTHING: only the rows the table does not have are inserted.
Inserted(rows) == rows \ table

\* The insert commits; a row the table has already would raise in the database.
Committed ==
  /\ Inserted(Rows) \cap table = {}
  /\ table' = table \cup Rows
  /\ skipped' = skipped \cup Skipped

\* Mutant of Flush: the buffer is not cleared.
FlushKeeping ==
  /\ turn = "flush" /\ buffer # << >>
  /\ Committed
  /\ store' = Acked(store, ToSet(buffer)) /\ turn' = "consume"
  /\ UNCHANGED <<raw, listed, buffer, cache, losses, builder, faults>>

\* The rows are in, then the entries are acknowledged and the buffer cleared.
Flush ==
  /\ turn = "flush" /\ buffer # << >>
  /\ Committed
  /\ store' = Acked(store, ToSet(buffer)) /\ buffer' = << >> /\ turn' = "consume"
  /\ UNCHANGED <<raw, listed, cache, losses, builder, faults>>

\* Mutant of FlushFails: the buffer is dropped, counting on a redelivery.
FlushFailsDropping ==
  /\ turn = "flush" /\ buffer # << >> /\ Fault
  /\ turn' = "consume" /\ buffer' = << >>
  /\ UNCHANGED <<raw, listed, store, cache, table, skipped, losses, builder>>

\* The database fails: the buffer is kept and grows with the next read.
FlushFails ==
  /\ turn = "flush" /\ buffer # << >> /\ Fault
  /\ turn' = "consume"
  /\ UNCHANGED <<raw, listed, store, buffer, cache, table, skipped, losses, builder>>

\* The rows are in, the acknowledgement fails: the same rows are flushed again.
AckFails ==
  /\ turn = "flush" /\ buffer # << >> /\ Fault
  /\ Committed
  /\ turn' = "consume"
  /\ UNCHANGED <<raw, listed, store, buffer, cache, losses, builder>>

\* The buffer dies with the process; the cache is loaded at the start.
WorkerCrash ==
  /\ Fault /\ losses' = losses + 1
  /\ buffer' = << >> /\ turn' = "consume" /\ cache' = listed
  /\ UNCHANGED <<raw, listed, store, table, skipped, builder>>

\* _instrument_refresh_loop.
Refresh ==
  /\ cache # listed /\ cache' = listed
  /\ UNCHANGED <<raw, listed, store, buffer, turn, table, skipped, losses, builder, faults>>

(***************************************************************************)
(* The bar builder (main_loop, process_trade).                             *)
(***************************************************************************)
Bucket(i, r) == Second[raw.log[i]] \div Width[r]

\* The acknowledgement of the batch before, which may fail, and the next read.
Read ==
  /\ batch = << >>
  /\ LET ids == Ready(raw, build, ReadSize) IN
     /\ ids # << >>
     /\ batch' = ids /\ ackable' = ToSet(ids)
     /\ \/ build' = Delivered(Acked(build, ackable), ids) /\ UNCHANGED faults
        \/ ackable # {} /\ Fault /\ build' = Delivered(build, ids)
  /\ UNCHANGED <<raw, listed, worker, bars, closed>>

\* The reply of the read never arrives.
ReadFails ==
  /\ batch = << >> /\ ackable' = {} /\ Fault
  /\ LET ids == Ready(raw, build, ReadSize) IN
       ids # << >> /\ build' = Delivered(Acked(build, ackable), ids)
  /\ UNCHANGED <<raw, listed, worker, batch, bars, closed>>

\* Mutant of Forward: any change of bucket closes the bar.
ForwardOrBack(bar, bucket) == bar # NoBar /\ bar.bucket # bucket

\* The bar is closed only when the trade belongs to a later bucket.
Forward(bar, bucket) == bar # NoBar /\ bar.bucket < bucket

\* Mutant of Updated: a new bar keeps the trades of the one before.
UpdatedKeeping(bar, bucket, i) ==
  [bucket |-> bucket, trades |-> IF bar = NoBar THEN <<i>> ELSE Append(bar.trades, i)]

\* A trade of another bucket, later or earlier, starts a bar of its own.
Updated(bar, bucket, i) ==
  IF bar # NoBar /\ bar.bucket = bucket THEN [bar EXCEPT !.trades = Append(@, i)]
  ELSE [bucket |-> bucket, trades |-> <<i>>]

\* The closed bars published for entry i by the resolutions from the first to the n-th.
Closings(i, n) ==
  LET s == SymbolAt(i)
      over == {k \in 1 .. n : Forward(bars[s][Resolutions[k]], Bucket(i, Resolutions[k]))}
      rs == Picked(Resolutions, over)
  IN [k \in DOMAIN rs |-> [sym |-> s, res |-> rs[k], bar |-> bars[s][rs[k]]]]

\* Those resolutions have the trade.
Through(i, n) ==
  LET done == ToSet(SubSeq(Resolutions, 1, n)) IN
  [bars EXCEPT ![SymbolAt(i)] =
     [r \in Res |-> IF r \in done THEN Updated(@[r], Bucket(i, r), i) ELSE @[r]]]

Process ==
  /\ batch # << >>
  /\ LET i == Head(batch) IN
     /\ closed' = closed \o Closings(i, Len(Resolutions))
     /\ bars' = Through(i, Len(Resolutions))
  /\ batch' = Tail(batch)
  /\ UNCHANGED <<raw, listed, worker, build, ackable, faults>>

\* A publish raises: the resolutions after it never see the trade, and it is
\* acknowledged all the same.  Between the n-th and the next one, that is a live
\* snapshot of the n-th or a closed bar of the next one, which may have been
\* published although the call raised.
ProcessFails ==
  /\ batch # << >> /\ Fault
  /\ LET i == Head(batch) IN
     \E n \in 0 .. Len(Resolutions) - 1 :
       LET r == Resolutions[n + 1]
           closing == Forward(bars[SymbolAt(i)][r], Bucket(i, r))
       IN /\ n > 0 \/ closing
          /\ bars' = Through(i, n)
          /\ closed' \in {closed \o Closings(i, n)}
                 \cup (IF closing THEN {closed \o Closings(i, n + 1)} ELSE {})
  /\ batch' = Tail(batch)
  /\ UNCHANGED <<raw, listed, worker, build, ackable>>

\* The bars in progress die with the process.
BuilderCrash ==
  /\ Fault
  /\ batch' = << >> /\ ackable' = {}
  /\ bars' = [s \in Symbols |-> [r \in Res |-> NoBar]]
  /\ UNCHANGED <<raw, listed, worker, build, closed>>

WorkerStep == Consume \/ ConsumeFails \/ Flush \/ FlushFails \/ AckFails \/ WorkerCrash \/ Refresh
BuilderStep == Read \/ ReadFails \/ Process \/ ProcessFails \/ BuilderCrash
\* Only the worker reads the instruments: without it they need not change.
Next ==
  /\ \/ Publish
     \/ "worker" \in deployed /\ (Discover \/ WorkerStep)
     \/ "builder" \in deployed /\ BuilderStep
  /\ UNCHANGED deployed

Spec == Init /\ [][Next]_vars

\* The worker's loop never waits for ever: a read returns within its block time, and
\* a buffer is flushed once the batch time has passed.  Failures are finitely many.
Fairness ==
  /\ WF_vars("worker" \in deployed /\ Consume /\ UNCHANGED deployed)
  /\ SF_vars("worker" \in deployed /\ Flush /\ UNCHANGED deployed)

(***************************************************************************)
(* Properties.                                                             *)
(***************************************************************************)
\* Types, and what is buffered or being processed is unacknowledged.
TypeOK ==
  /\ deployed \in Deployments /\ raw.first \in 1 .. Len(raw.log) + 1
  /\ listed \subseteq Symbols /\ cache \subseteq Symbols
  /\ turn \in {"consume", "flush"} /\ faults \in 0 .. MaxFaults
  /\ table \subseteq Trades /\ skipped \subseteq Entries
  /\ ToSet(buffer) \subseteq store.pel /\ store.pel \subseteq 1 .. store.last
  /\ ToSet(batch) \subseteq ackable /\ ackable \subseteq build.pel
  /\ \A k \in DOMAIN closed : closed[k].bar # NoBar

\* Entries the group has handed out; an entry evicted before that never is.
HandedOut(group) == {i \in Entries : i <= group.last}

\* While the worker does not die and no reply is lost, an entry it was handed is in
\* its buffer, in the table, or was flushed before its instrument was in the cache:
\* no failed flush or failed acknowledgement, in any order, loses a trade.  And acknowledged always
\* means stored or skipped, crash or not.
NothingDropped ==
  \A i \in HandedOut(store) :
    i >= raw.first \/ i \in store.pel =>
      /\ i \notin store.pel => raw.log[i] \in table \/ i \in skipped
      /\ losses = 0 /\ i \in store.pel => i \in ToSet(buffer)

\* Processed by the builder, or lost by it.
Processed == {i \in HandedOut(build) : i \notin ToSet(batch)}

\* The trades of symbol s came in the order of their time and none was evicted.
InOrder(s) ==
  /\ raw.first = 1
  /\ \A i, j \in Entries : i < j /\ SymbolAt(i) = s /\ SymbolAt(j) = s =>
       Second[raw.log[i]] <= Second[raw.log[j]]

TradesIn(s, r, bucket) == {i \in Processed : SymbolAt(i) = s /\ Bucket(i, r) = bucket}

\* Undisturbed, the closed bars of a symbol are exactly the aggregation of its
\* trades: one bar per bucket that has trades and is over, with all its trades.  (A
\* trade published twice is two entries, and the aggregation has both.)
BarsAreTheAggregation ==
  faults = 0 =>
    \A s \in {u \in Symbols : InOrder(u)}, r \in Res :
      LET mine == {k \in DOMAIN closed : closed[k].sym = s /\ closed[k].res = r}
          last == IF bars[s][r] = NoBar THEN -1 ELSE bars[s][r].bucket
      IN /\ \A k \in mine : ToSet(closed[k].bar.trades) = TradesIn(s, r, closed[k].bar.bucket)
         /\ \A j, k \in mine : j < k => closed[j].bar.bucket < closed[k].bar.bucket
         /\ \A i \in Processed : SymbolAt(i) = s /\ Bucket(i, r) < last =>
              \E k \in mine : closed[k].bar.bucket = Bucket(i, r)

\* The first trade of the bar came when its bucket had been overtaken by a later one.
StartsLate(bar, res) ==
  LET i == bar.trades[1] IN
  \E e \in 1 .. i : SymbolAt(e) = SymbolAt(i) /\ Bucket(e, res) > Bucket(i, res)

\* The builder keeps no trade ids, so a trade that ingestion publishes twice counts
\* twice, unlike in the table.  But an entry is never counted in two closed bars,
\* whatever fails, dies or comes late (only a publish that raised after it was done
\* sends a bar again), and a repeated trade gets into a second closed bar only when
\* that bar began after its bucket had been overtaken: repeated in time, it is
\* counted in the bar of the first.
CountedOncePerEntry ==
  \A j, k \in DOMAIN closed :
    j < k /\ closed[j].sym = closed[k].sym /\ closed[j].res = closed[k].res =>
      LET old == closed[j].bar
          new == closed[k].bar
          same == ToSet(old.trades) \cap ToSet(new.trades)
          repeated == \E x \in ToSet(old.trades), y \in ToSet(new.trades) : raw.log[x] = raw.log[y]
      IN \/ ~repeated
         \/ same = {} /\ StartsLate(new, closed[k].res)
         \/ faults > 0 /\ old.bucket = new.bucket /\ IsPrefix(old.trades, new.trades)

\* A bucket is announced closed a second time only for a trade that came after one
\* of a later bucket, or for a publish that raised: not for the trades that follow it.
ReclosedOnlyLate ==
  \A j, k \in DOMAIN closed :
    j < k /\ closed[j].sym = closed[k].sym /\ closed[j].res = closed[k].res
          /\ closed[j].bar.bucket = closed[k].bar.bucket =>
      \/ IsPrefix(closed[j].bar.trades, closed[k].bar.trades)
      \/ StartsLate(closed[k].bar, closed[k].res)

\* Entry i needs nothing more from the worker: stored, skipped, evicted before it
\* was read, or handed to a worker that died or lost the reply.
Settled(i) ==
  /\ i \in Entries
  /\ \/ raw.log[i] \in table
     \/ i \in skipped
     \/ i < raw.first /\ i \notin store.pel
     \/ i \in store.pel /\ i \notin ToSet(buffer)

\* Every trade published reaches the table or one of the ends Settled names, none of
\* which it leaves again.
TradesSettle ==
  "worker" \in deployed => <>[](\A i \in Entries : Settled(i))

=============================================================================
