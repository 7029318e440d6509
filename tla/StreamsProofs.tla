---------------------------- MODULE StreamsProofs ----------------------------
(***************************************************************************)
(* For any trades, stream length, batch sizes and number of failures, with *)
(* all services side by side: what the persistence worker may lose, what   *)
(* the bar builder makes of the trades, and which closed bars a session    *)
(* acts on.                                                                *)
(***************************************************************************)
EXTENDS BarFeed, ListLemmas

USE DEF worker, builder, router, session

(***************************************************************************)
(* The stream and the group.                                               *)
(***************************************************************************)
RawType   == raw \in [log : Seq(Trades), first : Nat \ {0}]
StoreType == store \in [last : Nat, pel : SUBSET Nat] /\ store.last <= Len(raw.log)

\* A publish keeps what was published, and never brings an evicted entry back.
LEMMA PublishGrows ==
  ASSUME RawType, NEW t \in Trades, raw' \in Published(raw, t, Cap)
  PROVE  /\ RawType'
         /\ Len(raw'.log) = Len(raw.log) + 1 /\ raw'.first >= raw.first
         /\ \A i \in DOMAIN raw.log : i \in DOMAIN raw'.log /\ raw'.log[i] = raw.log[i]
PROOF
<1>1. Cap \in Nat \ {0}
  BY StreamsAssumption
<1>2. PICK f \in {raw.first} \cup (raw.first .. (Len(raw.log) + 2 - Cap)) :
        raw' = [log |-> Append(raw.log, t), first |-> f]
  BY DEF Published
<1>3. raw.log \in Seq(Trades) /\ raw.first \in Nat \ {0}
  BY DEF RawType
<1>4. f \in Nat \ {0} /\ f >= raw.first
  BY <1>1, <1>2, <1>3
<1> QED BY <1>2, <1>3, <1>4 DEF RawType

\* A read hands out every entry up to the new last one that still exists, in order.
LEMMA ReadyRange ==
  ASSUME NEW stream, Len(stream.log) \in Nat, stream.first \in Nat \ {0},
         NEW group, group.last \in Nat, group.last <= Len(stream.log), NEW n \in Nat \ {0}
  PROVE  LET ids == Ready(stream, group, n) IN
         /\ ids \in Seq(Nat)
         /\ ids # << >> => \E from \in Nat \ {0} :
              /\ from > group.last /\ (from = group.last + 1 \/ from = stream.first)
              /\ from >= stream.first /\ from + Len(ids) - 1 <= Len(stream.log) /\ Len(ids) \in Nat \ {0}
              /\ \A k \in 1 .. Len(ids) : ids[k] = from + k - 1
PROOF
<1> DEFINE from == IF group.last + 1 < stream.first THEN stream.first ELSE group.last + 1
           to == IF from + n - 1 > Len(stream.log) THEN Len(stream.log) ELSE from + n - 1
           len == IF to < from THEN 0 ELSE to - from + 1
           ids == [k \in 1 .. len |-> from + k - 1]
<1>f. /\ from \in Nat \ {0} /\ from > group.last /\ from >= stream.first
      /\ from = group.last + 1 \/ from = stream.first
  OBVIOUS
<1> HIDE DEF from
<1>o. to \in Int /\ to <= Len(stream.log)
  BY <1>f
<1> HIDE DEF to
<1>2. len \in Nat /\ (len # 0 => len = to - from + 1)
  BY <1>f, <1>o
<1> HIDE DEF len
<1>4. ids \in Seq(Nat) /\ Len(ids) = len /\ \A k \in 1 .. len : ids[k] = from + k - 1
  <2>1. \A k \in 1 .. len : from + k - 1 \in Nat
    BY <1>f, <1>2
  <2> QED BY <1>2, <2>1
<1>5. ids # << >> => len # 0
  BY <1>4
<1>6. len # 0 => from + len - 1 <= Len(stream.log)
  BY <1>f, <1>o, <1>2
<1>7. Ready(stream, group, n) = ids
  BY DEF Ready, from, to, len
<1> HIDE DEF ids
<1> QED BY <1>f, <1>2, <1>4, <1>5, <1>6, <1>7

\* What the worker needs of that.
LEMMA ReadyIds ==
  ASSUME RawType, StoreType, NEW n \in Nat \ {0}
  PROVE  LET ids == Ready(raw, store, n) IN
         /\ ids \in Seq(Nat)
         /\ ids # << >> =>
              /\ ids[Len(ids)] \in Nat /\ store.last < ids[Len(ids)] /\ ids[Len(ids)] <= Len(raw.log)
              /\ \A k \in DOMAIN ids : ids[k] \in 1 .. ids[Len(ids)]
              /\ \A i \in (store.last + 1) .. ids[Len(ids)] :
                   i >= raw.first => \E k \in DOMAIN ids : ids[k] = i
PROOF
<1>1. store.last \in Nat /\ store.last <= Len(raw.log) /\ raw.first \in Nat \ {0} /\ Len(raw.log) \in Nat
  BY DEF RawType, StoreType
<1>2. PICK ids : ids = Ready(raw, store, n)
  OBVIOUS
<1>3. ids \in Seq(Nat)
  BY <1>1, <1>2, ReadyRange
<1>4. ASSUME ids # << >>
      PROVE  /\ ids[Len(ids)] \in Nat /\ store.last < ids[Len(ids)] /\ ids[Len(ids)] <= Len(raw.log)
             /\ \A k \in DOMAIN ids : ids[k] \in 1 .. ids[Len(ids)]
             /\ \A i \in (store.last + 1) .. ids[Len(ids)] :
                  i >= raw.first => \E k \in DOMAIN ids : ids[k] = i
  <2>1. PICK from \in Nat \ {0} :
          /\ from > store.last /\ (from = store.last + 1 \/ from = raw.first)
          /\ from + Len(ids) - 1 <= Len(raw.log) /\ Len(ids) \in Nat \ {0}
          /\ \A k \in 1 .. Len(ids) : ids[k] = from + k - 1
    <3>1. Ready(raw, store, n) # << >> => \E from \in Nat \ {0} :
            /\ from > store.last /\ (from = store.last + 1 \/ from = raw.first)
            /\ from >= raw.first /\ from + Len(Ready(raw, store, n)) - 1 <= Len(raw.log)
            /\ Len(Ready(raw, store, n)) \in Nat \ {0}
            /\ \A k \in 1 .. Len(Ready(raw, store, n)) : Ready(raw, store, n)[k] = from + k - 1
      BY <1>1, ReadyRange
    <3> QED BY <1>2, <1>4, <3>1
  <2>2. ids[Len(ids)] = from + Len(ids) - 1 /\ DOMAIN ids = 1 .. Len(ids)
    BY <1>3, <2>1
  <2>3. \A k \in 1 .. Len(ids) : ids[k] \in 1 .. (from + Len(ids) - 1)
    BY <2>1
  <2>4. ASSUME NEW i \in (store.last + 1) .. (from + Len(ids) - 1), i >= raw.first
        PROVE  \E k \in DOMAIN ids : ids[k] = i
    <3>1. i >= from
      BY <1>1, <2>1, <2>4
    <3>2. i - from + 1 \in 1 .. Len(ids) /\ from + (i - from + 1) - 1 = i
      BY <1>1, <2>1, <2>4, <3>1
    <3> QED BY <2>1, <2>2, <3>2
  <2> QED BY <1>1, <2>1, <2>2, <2>3, <2>4
<1> QED BY <1>2, <1>3, <1>4

LEMMA ToSetConcat ==
  ASSUME NEW a \in Seq(Nat), NEW b \in Seq(Nat)
  PROVE  a \o b \in Seq(Nat) /\ ToSet(a \o b) = ToSet(a) \cup ToSet(b)
PROOF
<1>1. /\ a \o b \in Seq(Nat) /\ DOMAIN (a \o b) = 1 .. Len(a) + Len(b)
      /\ \A i \in 1 .. Len(a) : (a \o b)[i] = a[i]
      /\ \A i \in 1 .. Len(b) : (a \o b)[Len(a) + i] = b[i]
      /\ DOMAIN a = 1 .. Len(a) /\ DOMAIN b = 1 .. Len(b)
  OBVIOUS
<1>2. ToSet(a \o b) \subseteq ToSet(a) \cup ToSet(b)
  <2>1. SUFFICES ASSUME NEW i \in 1 .. Len(a) + Len(b)
                 PROVE  (a \o b)[i] \in ToSet(a) \cup ToSet(b)
    BY <1>1 DEF ToSet
  <2>2. CASE i \in 1 .. Len(a)
    BY <1>1, <2>2 DEF ToSet
  <2>3. CASE i \notin 1 .. Len(a)
    <3>1. i - Len(a) \in 1 .. Len(b) /\ Len(a) + (i - Len(a)) = i
      BY <2>1, <2>3
    <3>2. (a \o b)[i] = b[i - Len(a)]
      BY <1>1, <3>1
    <3> QED BY <1>1, <3>1, <3>2 DEF ToSet
  <2> QED BY <2>2, <2>3
<1>3. ToSet(a) \cup ToSet(b) \subseteq ToSet(a \o b)
  <2>1. \A i \in 1 .. Len(a) : i \in DOMAIN (a \o b)
    BY <1>1
  <2>2. \A i \in 1 .. Len(b) : Len(a) + i \in DOMAIN (a \o b)
    BY <1>1
  <2> QED BY <1>1, <2>1, <2>2 DEF ToSet
<1> QED BY <1>1, <1>2, <1>3

(***************************************************************************)
(* The worker.                                                             *)
(***************************************************************************)
\* What is buffered was handed out and is unacknowledged.
WorkerInv ==
  /\ deployed \in Deployments /\ RawType /\ StoreType
  /\ buffer \in Seq(Nat) /\ ToSet(buffer) \subseteq store.pel /\ store.pel \subseteq 1 .. store.last
  /\ losses \in Nat

Inv == WorkerInv /\ NothingDropped

LEMMA InvInit == FeedInit => Inv
BY StreamsAssumption
   DEF FeedInit, Init, Inv, WorkerInv, RawType, StoreType, NoEntries, GroupFromStart, NothingDropped,
       HandedOut, Entries, ToSet

\* NothingDropped with its definitions unfolded.
LEMMA Kept ==
  NothingDropped <=>
    \A i \in DOMAIN raw.log : i <= store.last =>
      /\ i >= raw.first /\ i \notin store.pel => raw.log[i] \in table \/ i \in skipped
      /\ losses = 0 /\ i \in store.pel => i \in ToSet(buffer)
BY DEF NothingDropped, HandedOut, Entries


\* A step that changes neither the stream nor what the worker has.
LEMMA WorkerIdle ==
  ASSUME Inv, UNCHANGED <<deployed, raw, store, buffer, table, skipped, losses>>
  PROVE  Inv'
BY Kept DEF Inv, WorkerInv, RawType, StoreType, NothingDropped, HandedOut, Entries, ToSet

LEMMA PublishKeeps == ASSUME Inv, Publish, UNCHANGED deployed PROVE Inv'
PROOF
<1>1. PICK t \in Feed[deployed] : raw' \in Published(raw, t, Cap)
  BY DEF Publish
<1>2. t \in Trades
  BY <1>1, StreamsAssumption DEF Inv, WorkerInv
<1>3. /\ RawType' /\ Len(raw'.log) = Len(raw.log) + 1 /\ raw'.first >= raw.first
      /\ \A i \in DOMAIN raw.log : i \in DOMAIN raw'.log /\ raw'.log[i] = raw.log[i]
  BY <1>1, <1>2, PublishGrows DEF Inv, WorkerInv
<1>4. UNCHANGED <<store, buffer, table, skipped, losses>>
  BY DEF Publish
<1>5. /\ raw.log \in Seq(Trades) /\ raw.first \in Nat /\ raw'.log \in Seq(Trades) /\ raw'.first \in Nat
      /\ store.last \in Nat /\ store.last <= Len(raw.log)
  BY <1>3 DEF Inv, WorkerInv, RawType, StoreType
<1>6. WorkerInv'
  BY <1>3, <1>4, <1>5 DEF Inv, WorkerInv, StoreType, ToSet
<1>7. NothingDropped'
  <2>1. SUFFICES ASSUME NEW i \in DOMAIN raw'.log, i <= store'.last
                 PROVE  /\ i >= raw'.first /\ i \notin store'.pel => raw'.log[i] \in table' \/ i \in skipped'
                        /\ losses' = 0 /\ i \in store'.pel => i \in ToSet(buffer')
    BY DEF NothingDropped, HandedOut, Entries
  <2>2. i \in DOMAIN raw.log /\ raw'.log[i] = raw.log[i] /\ i <= store.last /\ i \in Nat
    BY <1>3, <1>4, <1>5, <2>1
  <2> QED BY <1>3, <1>4, <1>5, <2>1, <2>2, Kept DEF Inv
<1> QED BY <1>6, <1>7 DEF Inv

\* What a read hands out is unacknowledged, and buffered unless the reply was lost.
LEMMA DeliveryKeeps ==
  ASSUME Inv, UNCHANGED <<deployed, raw, table, skipped>>,
         NEW ids, ids = Ready(raw, store, FlushSize), ids # << >>, store' = Delivered(store, ids),
         \/ buffer' = buffer \o ids /\ losses' = losses
         \/ buffer' = buffer /\ losses' = losses + 1
  PROVE  Inv'
PROOF
<1>1. /\ RawType /\ StoreType /\ buffer \in Seq(Nat) /\ ToSet(buffer) \subseteq store.pel
      /\ store.pel \subseteq 1 .. store.last /\ losses \in Nat /\ FlushSize \in Nat \ {0}
      /\ deployed \in Deployments
  BY StreamsAssumption DEF Inv, WorkerInv
<1>2. /\ ids \in Seq(Nat)
      /\ ids[Len(ids)] \in Nat /\ store.last < ids[Len(ids)] /\ ids[Len(ids)] <= Len(raw.log)
      /\ \A k \in DOMAIN ids : ids[k] \in 1 .. ids[Len(ids)]
      /\ \A i \in (store.last + 1) .. ids[Len(ids)] :
           i >= raw.first => \E k \in DOMAIN ids : ids[k] = i
  BY <1>1, ReadyIds
<1>3. store'.last = ids[Len(ids)] /\ store'.pel = store.pel \cup ToSet(ids)
  BY DEF Delivered, ToSet
<1>4. store \in [last : Nat, pel : SUBSET Nat] /\ store.last \in Nat /\ raw.first \in Nat /\ raw.log \in Seq(Trades)
  BY <1>1 DEF RawType, StoreType
<1>5. ToSet(ids) \subseteq 1 .. store'.last
  BY <1>2, <1>3 DEF ToSet
<1>6. store' \in [last : Nat, pel : SUBSET Nat] /\ store'.last <= Len(raw'.log)
  BY <1>2, <1>3, <1>4, <1>5 DEF Delivered, ToSet
<1>7. /\ buffer' \in Seq(Nat) /\ ToSet(buffer') \subseteq ToSet(buffer) \cup ToSet(ids)
      /\ ToSet(buffer) \subseteq ToSet(buffer')
      /\ losses' = 0 => losses = 0 /\ ToSet(ids) \subseteq ToSet(buffer')
  <2>1. CASE buffer' = buffer \o ids /\ losses' = losses
    BY <1>1, <1>2, <2>1, ToSetConcat
  <2>2. CASE buffer' = buffer /\ losses' = losses + 1
    BY <1>1, <2>2 DEF ToSet
  <2> QED BY <2>1, <2>2
<1>8. store'.pel \subseteq 1 .. store'.last /\ losses' \in Nat
  BY <1>1, <1>2, <1>3, <1>4, <1>5
<1>9. WorkerInv'
  BY <1>1, <1>3, <1>6, <1>7, <1>8 DEF WorkerInv, RawType, StoreType
<1>10. NothingDropped'
  <2>1. SUFFICES ASSUME NEW i \in DOMAIN raw.log, i <= store'.last
                 PROVE  /\ i >= raw.first /\ i \notin store'.pel => raw.log[i] \in table \/ i \in skipped
                        /\ losses' = 0 /\ i \in store'.pel => i \in ToSet(buffer')
    BY DEF NothingDropped, HandedOut, Entries
  <2>2. CASE i <= store.last
    BY <1>3, <1>7, <2>2, Kept DEF Inv
  <2>3. CASE ~(i <= store.last)
    <3>1. i \in (store.last + 1) .. ids[Len(ids)] /\ i \notin store.pel
      BY <1>1, <1>2, <1>3, <1>4, <2>1, <2>3
    <3>2. i >= raw.first => i \in ToSet(ids)
      BY <1>2, <3>1 DEF ToSet
    <3> QED BY <1>3, <1>7, <3>1, <3>2
  <2> QED BY <2>2, <2>3
<1> QED BY <1>9, <1>10 DEF Inv

\* Rows that are committed, and perhaps acknowledged and taken out of the buffer.
LEMMA CommitKeeps ==
  ASSUME Inv, Committed, UNCHANGED <<deployed, raw, losses>>,
         \/ store' = Acked(store, ToSet(buffer)) /\ buffer' = << >>
         \/ store' = store /\ buffer' = buffer
  PROVE  Inv'
PROOF
<1>1. /\ RawType /\ StoreType /\ buffer \in Seq(Nat) /\ ToSet(buffer) \subseteq store.pel
      /\ store.pel \subseteq 1 .. store.last /\ losses \in Nat /\ deployed \in Deployments
  BY DEF Inv, WorkerInv
<1>2. /\ store'.last = store.last
      /\ \/ store'.pel = store.pel \ ToSet(buffer) /\ buffer' = << >>
         \/ store' = store /\ buffer' = buffer
      /\ store' \in [last : Nat, pel : SUBSET Nat]
  BY <1>1 DEF StoreType, Acked
<1>3. \A i \in ToSet(buffer) : raw.log[i] \in table' \/ i \in skipped'
  BY DEF Committed, Rows, Skipped
<1>4. table \subseteq table' /\ skipped \subseteq skipped'
  BY DEF Committed
<1>5. WorkerInv'
  <2>1. RawType' /\ StoreType'
    BY <1>1, <1>2 DEF RawType, StoreType
  <2>2. /\ buffer' \in Seq(Nat) /\ ToSet(buffer') \subseteq store'.pel
        /\ store'.pel \subseteq 1 .. store'.last
    <3>1. CASE buffer' = << >> /\ store'.pel = store.pel \ ToSet(buffer)
      <4>1. ToSet(buffer') = {}
        BY <3>1 DEF ToSet
      <4> QED BY <1>1, <1>2, <3>1, <4>1
    <3>2. CASE store' = store /\ buffer' = buffer
      BY <1>1, <3>2
    <3> QED BY <1>2, <3>1, <3>2
  <2> QED BY <1>1, <2>1, <2>2 DEF WorkerInv
<1>6. NothingDropped'
  <2>1. SUFFICES ASSUME NEW i \in DOMAIN raw.log, i <= store.last
                 PROVE  /\ i >= raw.first /\ i \notin store'.pel => raw.log[i] \in table' \/ i \in skipped'
                        /\ losses = 0 /\ i \in store'.pel => i \in ToSet(buffer')
    BY <1>2 DEF NothingDropped, HandedOut, Entries
  <2>2. /\ i >= raw.first /\ i \notin store.pel => raw.log[i] \in table \/ i \in skipped
        /\ losses = 0 /\ i \in store.pel => i \in ToSet(buffer)
    BY <2>1, Kept DEF Inv
  <2> QED BY <1>2, <1>3, <1>4, <2>2
<1> QED BY <1>5, <1>6 DEF Inv

LEMMA CrashKeeps == ASSUME Inv, WorkerCrash, UNCHANGED deployed PROVE Inv'
BY Kept DEF Inv, WorkerInv, WorkerCrash, RawType, StoreType, NothingDropped, HandedOut, Entries, ToSet

LEMMA InvStep == Inv /\ [FeedNext]_feedVars => Inv'
PROOF
<1> SUFFICES ASSUME Inv, [FeedNext]_feedVars PROVE Inv'
  OBVIOUS
<1>1. ASSUME Publish, UNCHANGED deployed PROVE Inv'
  BY <1>1, PublishKeeps
<1>2. ASSUME Discover, UNCHANGED deployed PROVE Inv'
  BY <1>2, WorkerIdle DEF Discover
<1>3. ASSUME Consume, UNCHANGED deployed PROVE Inv'
  <2> DEFINE ids == Ready(raw, store, FlushSize)
  <2>1. UNCHANGED <<raw, table, skipped, losses>> /\ buffer' = buffer \o ids
        /\ store' = IF ids = << >> THEN store ELSE Delivered(store, ids)
    BY <1>3 DEF Consume
  <2> HIDE DEF ids
  <2>2. CASE ids = << >>
    <3>1. buffer \o << >> = buffer
      BY DEF Inv, WorkerInv
    <3> QED BY <1>3, <2>1, <2>2, <3>1, WorkerIdle
  <2>3. CASE ids # << >>
    BY <1>3, <2>1, <2>3, DeliveryKeeps DEF ids
  <2> QED BY <2>2, <2>3
<1>4. ASSUME ConsumeFails, UNCHANGED deployed PROVE Inv'
  BY <1>4, DeliveryKeeps DEF ConsumeFails
<1>5. ASSUME Flush, UNCHANGED deployed PROVE Inv'
  BY <1>5, CommitKeeps DEF Flush
<1>6. ASSUME FlushFails, UNCHANGED deployed PROVE Inv'
  BY <1>6, WorkerIdle DEF FlushFails
<1>7. ASSUME AckFails, UNCHANGED deployed PROVE Inv'
  BY <1>7, CommitKeeps DEF AckFails
<1>8. ASSUME WorkerCrash, UNCHANGED deployed PROVE Inv'
  BY <1>8, CrashKeeps
<1>9. ASSUME Refresh, UNCHANGED deployed PROVE Inv'
  BY <1>9, WorkerIdle DEF Refresh
<1>10. ASSUME BuilderStep, UNCHANGED deployed PROVE Inv'
  BY <1>10, WorkerIdle DEF BuilderStep, Read, ReadFails, Process, ProcessFails, BuilderCrash
<1>11. ASSUME FeedStep, UNCHANGED deployed PROVE Inv'
  BY <1>11, WorkerIdle DEF FeedStep, RunnerStarts, StartSession, StopSession, RouterReads, RouteBar,
                           OnClosedBar, OnClosedBarFails, RunnerDies
<1>12. CASE UNCHANGED feedVars
  BY <1>12, WorkerIdle DEF feedVars, vars
<1> QED
  BY <1>1, <1>2, <1>3, <1>4, <1>5, <1>6, <1>7, <1>8, <1>9, <1>10, <1>11, <1>12
     DEF FeedNext, Next, WorkerStep

\* Whatever is published late or twice, evicted, refused by the database or not
\* acknowledged, and in whatever order: an entry the worker was handed is stored,
\* skipped or unacknowledged, and while no worker dies and no reply is lost it is in
\* the buffer until it is stored or skipped (_consume_loop, _flush_trades).
THEOREM NoTradeDropped == FeedSpec => []NothingDropped
PROOF
<1>1. FeedInit => Inv
  BY InvInit
<1>2. Inv /\ [FeedNext]_feedVars => Inv'
  BY InvStep
<1>3. Inv => NothingDropped
  BY DEF Inv
<1> QED BY <1>1, <1>2, <1>3, PTL DEF FeedSpec

(***************************************************************************)
(* The bar builder: a bar is a run of the stream's trades.                 *)
(***************************************************************************)
BarTypes == [bucket : Nat, trades : Seq(Nat)]
ClosedTypes == [sym : Symbols, res : Res, bar : BarTypes]

\* The symbol and the bucket of an entry of a log.
Whose(log, i) == Symbol[log[i]]
Slot(log, i, r) == Second[log[i]] \div Width[r]

LEMMA SlotIs == ASSUME NEW i, NEW r PROVE SymbolAt(i) = Whose(raw.log, i) /\ Bucket(i, r) = Slot(raw.log, i, r)
BY DEF SymbolAt, Bucket, Whose, Slot

LEMMA ResWidth == ASSUME NEW r \in Res PROVE Width[r] \in Nat \ {0}
PROOF
<1>1. r \in DOMAIN Width
  BY StreamsAssumption DEF Res, ToSet
<1> QED BY <1>1, StreamsAssumption

LEMMA SlotType ==
  ASSUME NEW log \in Seq(Trades), NEW i \in 1 .. Len(log), NEW r \in Res
  PROVE  Slot(log, i, r) \in Nat /\ Whose(log, i) \in Symbols
PROOF
<1>1. log[i] \in Trades
  OBVIOUS
<1>2. Second[log[i]] \in Nat /\ Symbol[log[i]] \in Symbols
  BY <1>1, StreamsAssumption DEF Symbols
<1>3. PICK x, w : x = Second[log[i]] /\ w = Width[r]
  OBVIOUS
<1>4. x \in Nat /\ w \in Nat \ {0}
  BY <1>2, <1>3, ResWidth
<1>5. x \div w \in Nat
  BY <1>4
<1> QED BY <1>2, <1>3, <1>5 DEF Slot, Whose

\* An earlier second is in no later bucket.
LEMMA SlotMonotonic ==
  ASSUME NEW log \in Seq(Trades), NEW i \in 1 .. Len(log), NEW j \in 1 .. Len(log), NEW r \in Res,
         Second[log[i]] <= Second[log[j]]
  PROVE  Slot(log, i, r) <= Slot(log, j, r)
PROOF
<1>1. PICK x, y, w : x = Second[log[i]] /\ y = Second[log[j]] /\ w = Width[r]
  OBVIOUS
<1>2. x \in Nat /\ y \in Nat /\ w \in Nat \ {0} /\ x <= y
  BY <1>1, ResWidth, StreamsAssumption
<1>3. x \div w <= y \div w
  BY <1>2
<1> QED BY <1>1, <1>3 DEF Slot

\* The bar of symbol s and resolution r holds some of the first n entries, in order.
GoodBar(log, n, s, r, bar) ==
  /\ bar \in BarTypes /\ bar.trades # << >>
  /\ \A k \in 1 .. Len(bar.trades) :
       LET i == bar.trades[k] IN i \in 1 .. n /\ Whose(log, i) = s /\ Slot(log, i, r) = bar.bucket
  /\ \A j, k \in 1 .. Len(bar.trades) : j < k => bar.trades[j] < bar.trades[k]

\* One of the first n entries is of a later bucket.
Overtaken(log, n, s, r, bar) == \E e \in 1 .. n : Whose(log, e) = s /\ Slot(log, e, r) > bar.bucket

\* How two bars of one symbol and resolution, one begun after the other was closed, may
\* be related: a publish that raised sends a bar again, with what came since; otherwise
\* the new one has later entries only and began after one of a later bucket.
Followed(log, bad, s, r, old, new) ==
  \/ bad /\ old.bucket = new.bucket /\ IsPrefix(old.trades, new.trades)
  \/ /\ \A j \in 1 .. Len(old.trades), k \in 1 .. Len(new.trades) : old.trades[j] < new.trades[k]
     /\ Overtaken(log, new.trades[1], s, r, old)

\* The log goes on.
Extends(log, more) ==
  /\ log \in Seq(Trades) /\ more \in Seq(Trades) /\ Len(log) <= Len(more)
  /\ \A i \in 1 .. Len(log) : more[i] = log[i]

LEMMA SameSlots ==
  ASSUME NEW log, NEW more, Extends(log, more), NEW i \in 1 .. Len(log), NEW r
  PROVE  Whose(more, i) = Whose(log, i) /\ Slot(more, i, r) = Slot(log, i, r)
BY DEF Extends, Whose, Slot

LEMMA GoodGrows ==
  ASSUME NEW log, NEW more, Extends(log, more), NEW n \in Nat, NEW m \in Nat, n <= m, n <= Len(log),
         NEW s, NEW r, NEW bar, GoodBar(log, n, s, r, bar)
  PROVE  GoodBar(more, m, s, r, bar)
PROOF
<1>1. Len(log) \in Nat
  BY DEF Extends
<1>2. ASSUME NEW k \in 1 .. Len(bar.trades)
      PROVE  LET i == bar.trades[k] IN i \in 1 .. m /\ Whose(more, i) = s /\ Slot(more, i, r) = bar.bucket
  <2>1. PICK i : i = bar.trades[k]
    OBVIOUS
  <2>2. i \in 1 .. n /\ Whose(log, i) = s /\ Slot(log, i, r) = bar.bucket
    BY <2>1 DEF GoodBar
  <2>3. i \in 1 .. Len(log) /\ i \in 1 .. m
    BY <1>1, <2>2
  <2> QED BY <2>1, <2>2, <2>3, SameSlots
<1> QED BY <1>2 DEF GoodBar

LEMMA OvertakenGrows ==
  ASSUME NEW log, NEW more, Extends(log, more), NEW n \in Nat, NEW m \in Nat, n <= m, n <= Len(log),
         NEW s, NEW r, NEW bar, Overtaken(log, n, s, r, bar)
  PROVE  Overtaken(more, m, s, r, bar)
PROOF
<1>1. PICK e \in 1 .. n : Whose(log, e) = s /\ Slot(log, e, r) > bar.bucket
  BY DEF Overtaken
<1>2. e \in 1 .. Len(log) /\ e \in 1 .. m
  BY DEF Extends
<1> QED BY <1>1, <1>2, SameSlots DEF Overtaken

LEMMA FirstTrade ==
  ASSUME NEW log, NEW n, NEW s, NEW r, NEW bar, GoodBar(log, n, s, r, bar)
  PROVE  /\ Len(bar.trades) \in Nat \ {0} /\ 1 \in 1 .. Len(bar.trades)
         /\ bar.trades[1] \in 1 .. n /\ bar.trades \in Seq(Nat) /\ bar.bucket \in Nat
PROOF
<1>1. bar.trades \in Seq(Nat) /\ bar.trades # << >> /\ bar.bucket \in Nat
  BY DEF GoodBar, BarTypes
<1>2. Len(bar.trades) \in Nat \ {0}
  BY <1>1
<1>3. 1 \in 1 .. Len(bar.trades)
  BY <1>2
<1> QED BY <1>1, <1>2, <1>3 DEF GoodBar

LEMMA FollowedGrows ==
  ASSUME NEW log, NEW more, Extends(log, more), NEW n \in Nat, n <= Len(log),
         NEW bad \in BOOLEAN, NEW worse \in BOOLEAN, bad => worse,
         NEW s, NEW r, NEW old, NEW new, GoodBar(log, n, s, r, new), Followed(log, bad, s, r, old, new)
  PROVE  Followed(more, worse, s, r, old, new)
PROOF
<1>1. new.trades[1] \in Nat /\ new.trades[1] <= Len(log)
  <2>1. new.trades[1] \in 1 .. n /\ Len(log) \in Nat
    BY FirstTrade DEF Extends
  <2> QED BY <2>1
<1>2. Overtaken(log, new.trades[1], s, r, old) => Overtaken(more, new.trades[1], s, r, old)
  BY <1>1, OvertakenGrows
<1> QED BY <1>2 DEF Followed

(***************************************************************************)
(* One trade.                                                              *)
(***************************************************************************)
LEMMA NoBarIsNone == NoBar \notin BarTypes
BY StreamsAssumption DEF BarTypes

\* A trade goes on with the bar of its bucket or begins one.
LEMMA UpdatedIs ==
  ASSUME NEW bar \in BarTypes \cup {NoBar}, NEW bucket \in Nat, NEW i \in Nat
  PROVE  /\ Updated(bar, bucket, i) \in BarTypes /\ Updated(bar, bucket, i).bucket = bucket
         /\ IF bar # NoBar /\ bar.bucket = bucket
            THEN Updated(bar, bucket, i).trades = Append(bar.trades, i)
            ELSE Updated(bar, bucket, i).trades = <<i>>
PROOF
<1>1. CASE bar # NoBar /\ bar.bucket = bucket
  <2>1. bar \in BarTypes /\ bar.trades \in Seq(Nat)
    BY <1>1 DEF BarTypes
  <2>2. Append(bar.trades, i) \in Seq(Nat)
    BY <2>1
  <2>3. Updated(bar, bucket, i) = [bar EXCEPT !.trades = Append(bar.trades, i)]
    BY <1>1 DEF Updated
  <2> QED BY <1>1, <2>1, <2>2, <2>3 DEF BarTypes
<1>2. CASE ~(bar # NoBar /\ bar.bucket = bucket)
  <2>1. Updated(bar, bucket, i) = [bucket |-> bucket, trades |-> <<i>>]
    BY <1>2 DEF Updated
  <2>2. <<i>> \in Seq(Nat)
    OBVIOUS
  <2> QED BY <1>2, <2>1, <2>2 DEF BarTypes
<1> QED BY <1>1, <1>2

LEMMA UpdatedGood ==
  ASSUME NEW log \in Seq(Trades), NEW n \in Nat, n + 1 <= Len(log), NEW s, NEW r \in Res,
         NEW bar \in BarTypes \cup {NoBar}, bar # NoBar => GoodBar(log, n, s, r, bar),
         Whose(log, n + 1) = s
  PROVE  GoodBar(log, n + 1, s, r, Updated(bar, Slot(log, n + 1, r), n + 1))
PROOF
<1>1. PICK b : b = Slot(log, n + 1, r)
  OBVIOUS
<1>2. n + 1 \in 1 .. Len(log) /\ Len(log) \in Nat /\ n + 1 \in Nat
  OBVIOUS
<1>3. b \in Nat
  BY <1>1, <1>2, SlotType
<1>4. PICK u : u = Updated(bar, b, n + 1)
  OBVIOUS
<1>5. /\ u \in BarTypes /\ u.bucket = b
      /\ IF bar # NoBar /\ bar.bucket = b THEN u.trades = Append(bar.trades, n + 1) ELSE u.trades = <<n + 1>>
  <2>1. PICK i : i = n + 1
    OBVIOUS
  <2>2. i \in Nat /\ u = Updated(bar, b, i)
    BY <1>2, <1>4, <2>1
  <2>3. /\ Updated(bar, b, i) \in BarTypes /\ Updated(bar, b, i).bucket = b
        /\ IF bar # NoBar /\ bar.bucket = b THEN Updated(bar, b, i).trades = Append(bar.trades, i)
           ELSE Updated(bar, b, i).trades = <<i>>
    BY <1>3, <2>2, UpdatedIs
  <2> QED BY <2>1, <2>2, <2>3
<1>6. CASE bar # NoBar /\ bar.bucket = b
  <2>1. PICK t : t = bar.trades
    OBVIOUS
  <2>2. /\ t \in Seq(Nat) /\ Len(t) \in Nat /\ u.trades = Append(t, n + 1)
        /\ \A k \in 1 .. Len(t) : t[k] \in 1 .. n /\ Whose(log, t[k]) = s /\ Slot(log, t[k], r) = b
        /\ \A j, k \in 1 .. Len(t) : j < k => t[j] < t[k]
    BY <1>5, <1>6, <2>1 DEF GoodBar, BarTypes
  <2>3. PICK w : w = Append(t, n + 1)
    OBVIOUS
  <2>4. /\ Len(w) = Len(t) + 1 /\ w[Len(t) + 1] = n + 1 /\ (\A k \in 1 .. Len(t) : w[k] = t[k])
        /\ w # << >> /\ u.trades = w
    BY <2>2, <2>3
  <2>5. ASSUME NEW k \in 1 .. Len(w)
        PROVE  w[k] \in 1 .. n + 1 /\ Whose(log, w[k]) = s /\ Slot(log, w[k], r) = b
    <3>1. CASE k \in 1 .. Len(t)
      BY <2>2, <2>4, <3>1
    <3>2. CASE k = Len(t) + 1
      BY <1>1, <2>4, <3>2
    <3> QED BY <2>2, <2>4, <3>1, <3>2
  <2>6. ASSUME NEW j \in 1 .. Len(w), NEW k \in 1 .. Len(w), j < k PROVE w[j] < w[k]
    <3>1. j \in 1 .. Len(t)
      BY <2>2, <2>4, <2>6
    <3>2. CASE k \in 1 .. Len(t)
      BY <2>2, <2>4, <2>6, <3>1, <3>2
    <3>3. CASE k = Len(t) + 1
      <4>1. w[j] \in 1 .. n /\ w[k] = n + 1
        BY <2>2, <2>4, <3>1, <3>3
      <4> QED BY <4>1
    <3> QED BY <2>2, <2>4, <3>2, <3>3
  <2> QED BY <1>1, <1>4, <1>5, <2>4, <2>5, <2>6 DEF GoodBar
<1>7. CASE ~(bar # NoBar /\ bar.bucket = b)
  <2>1. u.trades = <<n + 1>> /\ u.bucket = b /\ u \in BarTypes
    BY <1>5, <1>7
  <2>2. PICK t : t = <<n + 1>>
    OBVIOUS
  <2>3. Len(t) = 1 /\ t # << >> /\ \A k \in 1 .. Len(t) : t[k] = n + 1
    BY <2>2
  <2>4. n + 1 \in 1 .. n + 1
    OBVIOUS
  <2>5. \A j, k \in 1 .. Len(t) : ~(j < k)
    BY <2>3
  <2> QED BY <1>1, <1>4, <2>1, <2>2, <2>3, <2>4, <2>5 DEF GoodBar
<1> QED BY <1>1, <1>6, <1>7

\* A bar goes on being related to the ones closed before it.
LEMMA UpdatedFollowed ==
  ASSUME NEW log \in Seq(Trades), NEW n \in Nat, n + 1 <= Len(log), NEW s, NEW r \in Res,
         NEW bar \in BarTypes \cup {NoBar}, bar # NoBar => GoodBar(log, n, s, r, bar),
         NEW old, GoodBar(log, n, s, r, old), Overtaken(log, n, s, r, old), NEW bad \in BOOLEAN,
         bar # NoBar => Followed(log, bad, s, r, old, bar)
  PROVE  Followed(log, bad, s, r, old, Updated(bar, Slot(log, n + 1, r), n + 1))
PROOF
<1>1. PICK b : b = Slot(log, n + 1, r)
  OBVIOUS
<1>2. n + 1 \in 1 .. Len(log) /\ Len(log) \in Nat /\ n + 1 \in Nat
  OBVIOUS
<1>3. b \in Nat
  BY <1>1, <1>2, SlotType
<1>4. PICK u : u = Updated(bar, b, n + 1)
  OBVIOUS
<1>5. /\ u \in BarTypes /\ u.bucket = b
      /\ IF bar # NoBar /\ bar.bucket = b THEN u.trades = Append(bar.trades, n + 1) ELSE u.trades = <<n + 1>>
  <2>1. PICK i : i = n + 1
    OBVIOUS
  <2>2. i \in Nat /\ u = Updated(bar, b, i)
    BY <1>2, <1>4, <2>1
  <2>3. /\ Updated(bar, b, i) \in BarTypes /\ Updated(bar, b, i).bucket = b
        /\ IF bar # NoBar /\ bar.bucket = b THEN Updated(bar, b, i).trades = Append(bar.trades, i)
           ELSE Updated(bar, b, i).trades = <<i>>
    BY <1>3, <2>2, UpdatedIs
  <2> QED BY <2>1, <2>2, <2>3
<1>6. \A j \in 1 .. Len(old.trades) : old.trades[j] \in 1 .. n
  BY DEF GoodBar
<1>7. CASE bar # NoBar /\ bar.bucket = b
  <2>1. PICK t : t = bar.trades
    OBVIOUS
  <2>2. t \in Seq(Nat) /\ Len(t) \in Nat \ {0} /\ u.trades = Append(t, n + 1)
    BY <1>5, <1>7, <2>1, FirstTrade
  <2>3. PICK w : w = Append(t, n + 1)
    OBVIOUS
  <2>4. /\ Len(w) = Len(t) + 1 /\ w[Len(t) + 1] = n + 1 /\ (\A k \in 1 .. Len(t) : w[k] = t[k])
        /\ u.trades = w /\ w \in Seq(Nat) /\ w[1] = t[1]
    BY <2>2, <2>3
  <2>5. CASE bad /\ old.bucket = bar.bucket /\ IsPrefix(old.trades, t)
    <3>1. PICK o : o = old.trades
      OBVIOUS
    <3>2. o \in Seq(Nat)
      BY <3>1, FirstTrade
    <3>3. Len(o) <= Len(t) /\ o = SubSeq(t, 1, Len(o)) /\ Len(o) \in Nat
      BY <2>5, <3>1, <3>2 DEF IsPrefix
    <3>4. Len(o) <= Len(w) /\ SubSeq(w, 1, Len(o)) = SubSeq(t, 1, Len(o))
      BY <2>2, <2>3, <2>4, <3>3
    <3>5. IsPrefix(o, w)
      BY <3>3, <3>4 DEF IsPrefix
    <3> QED BY <1>1, <1>4, <1>5, <1>7, <2>4, <2>5, <3>1, <3>5 DEF Followed
  <2>6. CASE /\ \A j \in 1 .. Len(old.trades), k \in 1 .. Len(t) : old.trades[j] < t[k]
             /\ Overtaken(log, t[1], s, r, old)
    <3>1. ASSUME NEW j \in 1 .. Len(old.trades), NEW k \in 1 .. Len(w) PROVE old.trades[j] < w[k]
      <4>1. CASE k \in 1 .. Len(t)
        BY <2>4, <2>6, <4>1
      <4>2. CASE k = Len(t) + 1
        BY <1>6, <2>4, <4>2
      <4> QED BY <2>2, <2>4, <4>1, <4>2
    <3> QED BY <1>1, <1>4, <2>4, <2>6, <3>1 DEF Followed
  <2> QED BY <1>7, <2>1, <2>5, <2>6 DEF Followed
<1>8. CASE ~(bar # NoBar /\ bar.bucket = b)
  <2>1. u.trades = <<n + 1>>
    BY <1>5, <1>8
  <2>2. Len(<<n + 1>>) = 1 /\ <<n + 1>>[1] = n + 1
    OBVIOUS
  <2>3. \A j \in 1 .. Len(old.trades), k \in 1 .. Len(u.trades) : old.trades[j] < u.trades[k]
    <3>1. \A k \in 1 .. Len(u.trades) : u.trades[k] = n + 1
      BY <2>1, <2>2
    <3> QED BY <1>6, <3>1
  <2>4. Extends(log, log)
    BY DEF Extends
  <2>5. Overtaken(log, u.trades[1], s, r, old)
    <3>1. n + 1 \in Nat /\ n <= n + 1 /\ n <= Len(log) /\ u.trades[1] = n + 1
      BY <1>2, <2>1, <2>2
    <3> QED BY <2>4, <3>1, OvertakenGrows
  <2> QED BY <1>1, <1>4, <2>3, <2>5 DEF Followed
<1> QED BY <1>1, <1>7, <1>8

(***************************************************************************)
(* One entry, over the resolutions.                                        *)
(***************************************************************************)
BarsType == bars \in [Symbols -> [Res -> BarTypes \cup {NoBar}]]

\* The first n resolutions.
FirstRes(n) == {Resolutions[k] : k \in 1 .. n}

LEMMA ResolutionsAre ==
  /\ Resolutions \in Seq(Res) /\ Len(Resolutions) \in Nat /\ DOMAIN Resolutions = 1 .. Len(Resolutions)
  /\ FirstRes(Len(Resolutions)) = Res
  /\ \A n \in 0 .. Len(Resolutions) : FirstRes(n) \subseteq Res /\ ToSet(SubSeq(Resolutions, 1, n)) = FirstRes(n)
PROOF
<1>1. Resolutions \in Seq(DOMAIN Width)
  BY StreamsAssumption
<1>2. /\ Len(Resolutions) \in Nat /\ DOMAIN Resolutions = 1 .. Len(Resolutions)
      /\ \A k \in 1 .. Len(Resolutions) : Resolutions[k] \in Res
  BY <1>1 DEF Res, ToSet
<1>3. Resolutions \in Seq(Res)
  BY <1>1, <1>2
<1>4. FirstRes(Len(Resolutions)) = Res
  BY <1>2 DEF FirstRes, Res, ToSet
<1>5. ASSUME NEW n \in 0 .. Len(Resolutions)
      PROVE  FirstRes(n) \subseteq Res /\ ToSet(SubSeq(Resolutions, 1, n)) = FirstRes(n)
  <2>1. PICK h : h = SubSeq(Resolutions, 1, n)
    OBVIOUS
  <2>2. DOMAIN h = 1 .. n /\ \A k \in 1 .. n : h[k] = Resolutions[k]
    BY <1>2, <1>3, <1>5, <2>1
  <2>3. 1 .. n \subseteq 1 .. Len(Resolutions)
    BY <1>2, <1>5
  <2> QED BY <1>2, <2>1, <2>2, <2>3 DEF FirstRes, ToSet
<1> QED BY <1>2, <1>3, <1>4, <1>5

\* What is published for one entry: the bars in progress that it ends, each once.
LEMMA ClosingsAre ==
  ASSUME BarsType, NEW i, SymbolAt(i) \in Symbols, NEW n \in 0 .. Len(Resolutions)
  PROVE  LET c == Closings(i, n)
             s == SymbolAt(i)
         IN /\ c \in Seq(ClosedTypes)
            /\ \A k \in 1 .. Len(c) :
                 /\ c[k].sym = s /\ c[k].res \in FirstRes(n) /\ c[k].bar = bars[s][c[k].res]
                 /\ Forward(c[k].bar, Bucket(i, c[k].res))
            /\ \A j, k \in 1 .. Len(c) : c[j].res = c[k].res => j = k
            /\ \A r \in FirstRes(n) :
                 Forward(bars[s][r], Bucket(i, r)) => \E k \in 1 .. Len(c) : c[k].res = r
PROOF
<1>1. PICK s, over : /\ s = SymbolAt(i)
                     /\ over = {k \in 1 .. n : Forward(bars[s][Resolutions[k]], Bucket(i, Resolutions[k]))}
  OBVIOUS
<1>2. PICK rs : rs = Picked(Resolutions, over)
  OBVIOUS
<1>3. PICK at \in Seq(Nat) : rs \in Seq(Res) /\ PickedAt(Resolutions, over, rs, at)
  BY <1>2, ResolutionsAre, PickedPlaces
<1>4. PICK c : c = Closings(i, n)
  OBVIOUS
<1>5. c = [k \in DOMAIN rs |-> [sym |-> s, res |-> rs[k], bar |-> bars[s][rs[k]]]]
  BY <1>1, <1>2, <1>4 DEF Closings
<1>6. DOMAIN rs = 1 .. Len(rs) /\ Len(rs) \in Nat /\ \A k \in 1 .. Len(rs) : rs[k] \in Res
  BY <1>3
<1>7. /\ Len(rs) = Len(at) /\ Len(at) \in Nat
      /\ \A k \in 1 .. Len(at) : at[k] \in over /\ at[k] \in 1 .. Len(Resolutions) /\ rs[k] = Resolutions[at[k]]
      /\ \A m \in 1 .. Len(Resolutions) : m \in over => \E k \in 1 .. Len(at) : at[k] = m
      /\ \A j, k \in 1 .. Len(at) : j < k => at[j] < at[k]
  <2>1. PickedAt(Resolutions, over, rs, at)
    BY <1>3
  <2>2. Len(at) \in Nat
    OBVIOUS
  <2>3. Len(rs) = Len(at)
    BY <2>1, Zenon DEF PickedAt
  <2>4. \A k \in 1 .. Len(at) : at[k] \in over /\ at[k] \in 1 .. Len(Resolutions) /\ rs[k] = Resolutions[at[k]]
    BY <2>1, Zenon DEF PickedAt
  <2>5. \A m \in 1 .. Len(Resolutions) : m \in over => \E k \in 1 .. Len(at) : at[k] = m
    BY <2>1, Zenon DEF PickedAt
  <2>6. \A j, k \in 1 .. Len(at) : j < k => at[j] < at[k]
    BY <2>1, Zenon DEF PickedAt
  <2> QED BY <2>2, <2>3, <2>4, <2>5, <2>6, Zenon
<1>8. ASSUME NEW k \in 1 .. Len(rs)
      PROVE  /\ c[k].sym = s /\ c[k].res = rs[k] /\ c[k].bar = bars[s][rs[k]]
             /\ rs[k] \in FirstRes(n) /\ Forward(bars[s][rs[k]], Bucket(i, rs[k])) /\ c[k] \in ClosedTypes
  <2>1. c[k] = [sym |-> s, res |-> rs[k], bar |-> bars[s][rs[k]]]
    BY <1>5, <1>6
  <2>2. at[k] \in over /\ rs[k] = Resolutions[at[k]] /\ at[k] \in 1 .. n
    BY <1>1, <1>7
  <2>3. rs[k] \in FirstRes(n) /\ Forward(bars[s][rs[k]], Bucket(i, rs[k]))
    BY <1>1, <2>2 DEF FirstRes
  <2>4. bars[s][rs[k]] \in BarTypes
    <3>1. rs[k] \in Res /\ s \in Symbols
      BY <1>1, <1>6
    <3>2. bars[s][rs[k]] \in BarTypes \cup {NoBar}
      BY <3>1 DEF BarsType
    <3> QED BY <2>3, <3>2 DEF Forward
  <2>5. s \in Symbols /\ rs[k] \in Res
    BY <1>1, <1>6
  <2> QED BY <2>1, <2>3, <2>4, <2>5 DEF ClosedTypes
<1>9. c \in Seq(ClosedTypes) /\ Len(c) = Len(rs)
  <2>1. DOMAIN c = 1 .. Len(rs) /\ c = [k \in 1 .. Len(rs) |-> c[k]]
    BY <1>5, <1>6
  <2> QED BY <1>6, <1>8, <2>1
<1>10. ASSUME NEW j \in 1 .. Len(rs), NEW k \in 1 .. Len(rs), rs[j] = rs[k] PROVE j = k
  <2>1. Resolutions[at[j]] = Resolutions[at[k]] /\ at[j] \in DOMAIN Resolutions /\ at[k] \in DOMAIN Resolutions
    BY <1>7, <1>10, ResolutionsAre
  <2>2. at[j] = at[k]
    BY <2>1, StreamsAssumption
  <2>3. at[j] \in Nat /\ j \in Nat /\ k \in Nat /\ (j < k => at[j] < at[k]) /\ (k < j => at[k] < at[j])
    BY <1>7
  <2> QED BY <2>2, <2>3
<1>11. ASSUME NEW r \in FirstRes(n), Forward(bars[s][r], Bucket(i, r))
       PROVE  \E k \in 1 .. Len(c) : c[k].res = r
  <2>1. PICK m \in 1 .. n : r = Resolutions[m]
    BY DEF FirstRes
  <2>2. m \in over /\ m \in 1 .. Len(Resolutions)
    BY <1>1, <1>11, <2>1, ResolutionsAre
  <2>3. PICK k \in 1 .. Len(at) : at[k] = m
    BY <1>7, <2>2
  <2>4. k \in 1 .. Len(rs) /\ rs[k] = r
    BY <1>7, <2>1, <2>3
  <2>5. c[k].res = r /\ k \in 1 .. Len(c)
    BY <1>8, <1>9, <2>4
  <2> QED BY <2>5
<1>12. \A k \in 1 .. Len(c) :
         /\ c[k].sym = s /\ c[k].res \in FirstRes(n) /\ c[k].bar = bars[s][c[k].res]
         /\ Forward(c[k].bar, Bucket(i, c[k].res))
  BY <1>8, <1>9
<1>13. \A j, k \in 1 .. Len(c) : c[j].res = c[k].res => j = k
  <2>1. \A k \in 1 .. Len(c) : c[k].res = rs[k]
    BY <1>8, <1>9
  <2> QED BY <1>9, <1>10, <2>1
<1> HIDE DEF FirstRes
<1> QED BY <1>1, <1>4, <1>9, <1>11, <1>12, <1>13

LEMMA ThroughIs ==
  ASSUME BarsType, NEW i \in Nat, SymbolAt(i) \in Symbols, \A r \in Res : Bucket(i, r) \in Nat,
         NEW n \in 0 .. Len(Resolutions)
  PROVE  /\ Through(i, n) \in [Symbols -> [Res -> BarTypes \cup {NoBar}]]
         /\ \A s \in Symbols, r \in Res :
              Through(i, n)[s][r] = IF s = SymbolAt(i) /\ r \in FirstRes(n)
                                    THEN Updated(bars[s][r], Bucket(i, r), i) ELSE bars[s][r]
PROOF
<1>1. PICK x, done, t : x = SymbolAt(i) /\ done = FirstRes(n) /\ t = Through(i, n)
  OBVIOUS
<1>2. PICK f : f = [r \in Res |-> IF r \in done THEN Updated(bars[x][r], Bucket(i, r), i) ELSE bars[x][r]]
  OBVIOUS
<1>3. t = [bars EXCEPT ![x] = f]
  BY <1>1, <1>2, ResolutionsAre DEF Through
<1>4. bars \in [Symbols -> [Res -> BarTypes \cup {NoBar}]] /\ x \in Symbols
  BY <1>1 DEF BarsType
<1>5. /\ DOMAIN t = Symbols /\ t = [s \in Symbols |-> IF s = x THEN f ELSE bars[s]]
  BY <1>3, <1>4
<1>6. \A s \in Symbols, r \in Res :
        t[s][r] = IF s = x /\ r \in done THEN Updated(bars[s][r], Bucket(i, r), i) ELSE bars[s][r]
  BY <1>2, <1>5
<1>7. \A s \in Symbols : t[s] = [r \in Res |-> t[s][r]]
  <2> SUFFICES ASSUME NEW s \in Symbols PROVE t[s] = [r \in Res |-> t[s][r]]
    OBVIOUS
  <2>1. CASE s = x
    BY <1>2, <1>5, <2>1
  <2>2. CASE s # x
    BY <1>4, <1>5, <2>2
  <2> QED BY <2>1, <2>2
<1>8. \A s \in Symbols, r \in Res : t[s][r] \in BarTypes \cup {NoBar}
  <2> SUFFICES ASSUME NEW s \in Symbols, NEW r \in Res PROVE t[s][r] \in BarTypes \cup {NoBar}
    OBVIOUS
  <2>1. PICK b, u : b = bars[s][r] /\ u = Bucket(i, r)
    OBVIOUS
  <2>2. b \in BarTypes \cup {NoBar} /\ u \in Nat
    BY <1>4, <2>1
  <2>3. Updated(b, u, i) \in BarTypes
    BY <2>2, UpdatedIs
  <2> QED BY <1>6, <2>1, <2>2, <2>3
<1>9. t \in [Symbols -> [Res -> BarTypes \cup {NoBar}]]
  <2>1. \A s \in Symbols : t[s] \in [Res -> BarTypes \cup {NoBar}]
    BY <1>7, <1>8
  <2> QED BY <1>5, <2>1
<1> QED BY <1>1, <1>6, <1>9

(***************************************************************************)
(* The bars in progress and the closed ones, after the first n entries.    *)
(***************************************************************************)
BarsGood(log, n, bad, bs, cl) ==
  /\ \A s \in Symbols, r \in Res : bs[s][r] # NoBar => GoodBar(log, n, s, r, bs[s][r])
  /\ \A k \in 1 .. Len(cl) :
       /\ GoodBar(log, n, cl[k].sym, cl[k].res, cl[k].bar)
       /\ Overtaken(log, n, cl[k].sym, cl[k].res, cl[k].bar)
  /\ \A j, k \in 1 .. Len(cl) : j < k /\ cl[j].sym = cl[k].sym /\ cl[j].res = cl[k].res =>
       Followed(log, bad, cl[k].sym, cl[k].res, cl[j].bar, cl[k].bar)
  /\ \A k \in 1 .. Len(cl) : bs[cl[k].sym][cl[k].res] # NoBar =>
       Followed(log, bad, cl[k].sym, cl[k].res, cl[k].bar, bs[cl[k].sym][cl[k].res])

\* More entries, entries passed over, failures and bars lost in a crash.
LEMMA BarsGoodLater ==
  ASSUME NEW log, NEW more, Extends(log, more), NEW n \in Nat, NEW m \in Nat, n <= m, n <= Len(log),
         NEW bad \in BOOLEAN, NEW worse \in BOOLEAN, bad => worse,
         NEW cl \in Seq(ClosedTypes), NEW bs, NEW later,
         \A s \in Symbols, r \in Res : later[s][r] \in {bs[s][r], NoBar},
         BarsGood(log, n, bad, bs, cl)
  PROVE  BarsGood(more, m, worse, later, cl)
PROOF
<1>1. \A k \in 1 .. Len(cl) : cl[k].sym \in Symbols /\ cl[k].res \in Res
  <2>1. \A k \in 1 .. Len(cl) : cl[k] \in ClosedTypes
    OBVIOUS
  <2> QED BY <2>1 DEF ClosedTypes
<1>2. ASSUME NEW s \in Symbols, NEW r \in Res, later[s][r] # NoBar
      PROVE  GoodBar(more, m, s, r, later[s][r])
  <2>1. later[s][r] = bs[s][r] /\ GoodBar(log, n, s, r, bs[s][r])
    BY <1>2 DEF BarsGood
  <2> QED BY <2>1, GoodGrows
<1>3. ASSUME NEW k \in 1 .. Len(cl)
      PROVE  /\ GoodBar(more, m, cl[k].sym, cl[k].res, cl[k].bar)
             /\ Overtaken(more, m, cl[k].sym, cl[k].res, cl[k].bar)
  <2>1. /\ GoodBar(log, n, cl[k].sym, cl[k].res, cl[k].bar)
        /\ Overtaken(log, n, cl[k].sym, cl[k].res, cl[k].bar)
    BY DEF BarsGood
  <2> QED BY <2>1, GoodGrows, OvertakenGrows
<1>4. ASSUME NEW j \in 1 .. Len(cl), NEW k \in 1 .. Len(cl), j < k, cl[j].sym = cl[k].sym, cl[j].res = cl[k].res
      PROVE  Followed(more, worse, cl[k].sym, cl[k].res, cl[j].bar, cl[k].bar)
  <2>1. /\ GoodBar(log, n, cl[k].sym, cl[k].res, cl[k].bar)
        /\ Followed(log, bad, cl[k].sym, cl[k].res, cl[j].bar, cl[k].bar)
    BY <1>4 DEF BarsGood
  <2> QED BY <2>1, FollowedGrows
<1>5. ASSUME NEW k \in 1 .. Len(cl), later[cl[k].sym][cl[k].res] # NoBar
      PROVE  Followed(more, worse, cl[k].sym, cl[k].res, cl[k].bar, later[cl[k].sym][cl[k].res])
  <2>1. PICK s, r : s = cl[k].sym /\ r = cl[k].res
    OBVIOUS
  <2>2. s \in Symbols /\ r \in Res /\ later[s][r] = bs[s][r] /\ bs[s][r] # NoBar
    BY <1>1, <1>5, <2>1
  <2>3. GoodBar(log, n, s, r, bs[s][r]) /\ Followed(log, bad, s, r, cl[k].bar, bs[s][r])
    BY <2>1, <2>2 DEF BarsGood
  <2>4. Followed(more, worse, s, r, cl[k].bar, bs[s][r])
    BY <2>3, FollowedGrows
  <2> QED BY <2>1, <2>2, <2>4
<1> QED BY <1>2, <1>3, <1>4, <1>5 DEF BarsGood

\* What handling entry i of symbol s does: c is published, the bars bs become new; unless a
\* call failed every resolution has the entry and every bar that it ends is published.
Handled(log, i, s, bad, bs, new, c) ==
  /\ c \in Seq(ClosedTypes) /\ new \in [Symbols -> [Res -> BarTypes \cup {NoBar}]]
  /\ \A k \in 1 .. Len(c) :
       /\ c[k].sym = s /\ c[k].bar = bs[s][c[k].res] /\ c[k].bar # NoBar
       /\ c[k].bar.bucket < Slot(log, i, c[k].res)
       /\ \/ new[s][c[k].res] = Updated(bs[s][c[k].res], Slot(log, i, c[k].res), i)
          \/ bad /\ new[s][c[k].res] = bs[s][c[k].res]
  /\ \A j, k \in 1 .. Len(c) : c[j].res = c[k].res => j = k
  /\ \A t \in Symbols, r \in Res :
       new[t][r] = bs[t][r] \/ (t = s /\ new[t][r] = Updated(bs[t][r], Slot(log, i, r), i))
  /\ ~bad => \A r \in Res :
       /\ new[s][r] = Updated(bs[s][r], Slot(log, i, r), i)
       /\ Forward(bs[s][r], Slot(log, i, r)) => \E k \in 1 .. Len(c) : c[k].res = r

LEMMA BarsGoodHandled ==
  ASSUME NEW log \in Seq(Trades), NEW n \in Nat, n + 1 <= Len(log), NEW s \in Symbols, Whose(log, n + 1) = s,
         NEW bad \in BOOLEAN, NEW worse \in BOOLEAN, bad => worse,
         NEW bs \in [Symbols -> [Res -> BarTypes \cup {NoBar}]], NEW cl \in Seq(ClosedTypes),
         BarsGood(log, n, bad, bs, cl), NEW new, NEW c, Handled(log, n + 1, s, worse, bs, new, c)
  PROVE  BarsGood(log, n + 1, worse, new, cl \o c)
PROOF
<1>1. Extends(log, log) /\ n + 1 \in Nat /\ n <= n + 1 /\ n <= Len(log)
  BY DEF Extends
<1>2. BarsGood(log, n, worse, bs, cl) /\ BarsGood(log, n + 1, worse, bs, cl)
  <2>1. \A t \in Symbols, r \in Res : bs[t][r] \in {bs[t][r], NoBar}
    OBVIOUS
  <2>2. n <= n
    OBVIOUS
  <2>3. BarsGood(log, n, worse, bs, cl)
    BY <1>1, <2>1, <2>2, BarsGoodLater
  <2>4. PICK m : m = n + 1
    OBVIOUS
  <2>5. BarsGood(log, m, worse, bs, cl)
    BY <1>1, <2>1, <2>4, BarsGoodLater
  <2> QED BY <2>3, <2>4, <2>5
<1>3. \A t \in Symbols, r \in Res : bs[t][r] \in BarTypes \cup {NoBar}
  OBVIOUS
<1>4. PICK all : all = cl \o c
  OBVIOUS
<1>5. /\ c \in Seq(ClosedTypes) /\ Len(c) \in Nat /\ Len(cl) \in Nat
      /\ all \in Seq(ClosedTypes) /\ Len(all) = Len(cl) + Len(c)
      /\ \A k \in 1 .. Len(cl) : all[k] = cl[k]
      /\ \A k \in 1 .. Len(c) : all[Len(cl) + k] = c[k]
  <2>1. c \in Seq(ClosedTypes)
    BY DEF Handled
  <2> QED BY <1>4, <2>1
<1>6. \A k \in 1 .. Len(all) : all[k].sym \in Symbols /\ all[k].res \in Res /\ all[k].bar \in BarTypes
  <2>1. \A k \in 1 .. Len(all) : all[k] \in ClosedTypes
    BY <1>5
  <2> QED BY <2>1 DEF ClosedTypes
\* The old ones and the new ones.
<1>7. ASSUME NEW k \in 1 .. Len(all), k > Len(cl)
      PROVE  \E h \in 1 .. Len(c) : k = Len(cl) + h /\ all[k] = c[h]
  <2>1. k - Len(cl) \in 1 .. Len(c) /\ k = Len(cl) + (k - Len(cl))
    BY <1>5, <1>7
  <2> QED BY <1>5, <2>1
<1>8. \A k \in 1 .. Len(all) : ~(k > Len(cl)) => k \in 1 .. Len(cl) /\ all[k] = cl[k]
  BY <1>5
<1>9. ASSUME NEW h \in 1 .. Len(c)
      PROVE  LET r == c[h].res  b == c[h].bar IN
             /\ r \in Res /\ b \in BarTypes /\ b = bs[s][r] /\ c[h].sym = s /\ GoodBar(log, n, s, r, b)
             /\ Overtaken(log, n + 1, s, r, b) /\ b.bucket < Slot(log, n + 1, r)
  <2>1. PICK r, b : r = c[h].res /\ b = c[h].bar
    OBVIOUS
  <2>2. r \in Res /\ b \in BarTypes
    <3>1. c[h] \in ClosedTypes
      BY <1>5
    <3> QED BY <2>1, <3>1 DEF ClosedTypes
  <2>3. b = bs[s][r] /\ b # NoBar /\ c[h].sym = s /\ b.bucket < Slot(log, n + 1, r)
    BY <2>1 DEF Handled
  <2>4. GoodBar(log, n, s, r, b)
    BY <1>2, <2>2, <2>3 DEF BarsGood
  <2>5. Slot(log, n + 1, r) > b.bucket
    <3>1. b.bucket \in Nat
      BY <2>2 DEF BarTypes
    <3>2. n + 1 \in 1 .. Len(log)
      BY <1>1
    <3>3. Slot(log, n + 1, r) \in Nat
      BY <2>2, <3>2, SlotType
    <3> QED BY <2>3, <3>1, <3>3
  <2>6. Overtaken(log, n + 1, s, r, b)
    <3>1. n + 1 \in 1 .. n + 1
      OBVIOUS
    <3> QED BY <2>5, <3>1 DEF Overtaken
  <2> QED BY <2>1, <2>2, <2>3, <2>4, <2>6
<1>10. ASSUME NEW t \in Symbols, NEW r \in Res, new[t][r] # NoBar
       PROVE  GoodBar(log, n + 1, t, r, new[t][r])
  <2>1. CASE new[t][r] = bs[t][r]
    BY <1>2, <1>10, <2>1 DEF BarsGood
  <2>2. CASE t = s /\ new[t][r] = Updated(bs[t][r], Slot(log, n + 1, r), n + 1)
    <3>1. PICK b : b = bs[s][r]
      OBVIOUS
    <3>2. b \in BarTypes \cup {NoBar} /\ (b # NoBar => GoodBar(log, n, s, r, b))
      BY <1>2, <1>3, <3>1 DEF BarsGood
    <3>3. GoodBar(log, n + 1, s, r, Updated(b, Slot(log, n + 1, r), n + 1))
      BY <3>2, UpdatedGood
    <3> QED BY <2>2, <3>1, <3>3
  <2> QED BY <2>1, <2>2 DEF Handled
<1>11. ASSUME NEW k \in 1 .. Len(all)
       PROVE  /\ GoodBar(log, n + 1, all[k].sym, all[k].res, all[k].bar)
              /\ Overtaken(log, n + 1, all[k].sym, all[k].res, all[k].bar)
  <2>1. CASE k > Len(cl)
    <3>1. PICK h \in 1 .. Len(c) : all[k] = c[h]
      BY <1>7, <2>1
    <3>2. PICK r, b : r = c[h].res /\ b = c[h].bar
      OBVIOUS
    <3>3. c[h].sym = s /\ GoodBar(log, n, s, r, b) /\ Overtaken(log, n + 1, s, r, b)
      BY <1>9, <3>2
    <3>4. GoodBar(log, n + 1, s, r, b)
      BY <1>1, <3>3, GoodGrows
    <3> QED BY <3>1, <3>2, <3>3, <3>4
  <2>2. CASE ~(k > Len(cl))
    BY <1>2, <1>8, <2>2 DEF BarsGood
  <2> QED BY <2>1, <2>2
<1>12. ASSUME NEW j \in 1 .. Len(all), NEW k \in 1 .. Len(all), j < k,
              all[j].sym = all[k].sym, all[j].res = all[k].res
       PROVE  Followed(log, worse, all[k].sym, all[k].res, all[j].bar, all[k].bar)
  <2>1. CASE k > Len(cl)
    <3>1. PICK h \in 1 .. Len(c) : k = Len(cl) + h /\ all[k] = c[h]
      BY <1>7, <2>1
    <3>2. PICK r, b : r = c[h].res /\ b = c[h].bar
      OBVIOUS
    <3>3. r \in Res /\ b = bs[s][r] /\ c[h].sym = s /\ b \in BarTypes
      BY <1>9, <3>2
    <3>4. CASE j > Len(cl)
      <4>1. PICK g \in 1 .. Len(c) : j = Len(cl) + g /\ all[j] = c[g]
        BY <1>7, <3>4
      <4>2. g = h
        BY <1>12, <3>1, <4>1 DEF Handled
      <4> QED BY <1>12, <3>1, <4>1, <4>2
    <3>5. CASE ~(j > Len(cl))
      <4>1. j \in 1 .. Len(cl) /\ all[j] = cl[j]
        BY <1>8, <3>5
      <4>2. cl[j].sym = s /\ cl[j].res = r
        BY <1>12, <3>1, <3>2, <3>3, <4>1
      <4>3. Followed(log, worse, s, r, cl[j].bar, bs[s][r])
        BY <1>2, <3>3, <4>1, <4>2, NoBarIsNone DEF BarsGood
      <4> QED BY <3>1, <3>2, <3>3, <4>1, <4>3
    <3> QED BY <3>4, <3>5
  <2>2. CASE ~(k > Len(cl))
    <3>1. j \in 1 .. Len(cl) /\ all[j] = cl[j] /\ k \in 1 .. Len(cl) /\ all[k] = cl[k]
      BY <1>5, <1>8, <1>12, <2>2
    <3> QED BY <1>2, <1>12, <3>1 DEF BarsGood
  <2> QED BY <2>1, <2>2
<1>13. ASSUME NEW k \in 1 .. Len(all), new[all[k].sym][all[k].res] # NoBar
       PROVE  Followed(log, worse, all[k].sym, all[k].res, all[k].bar, new[all[k].sym][all[k].res])
  <2>1. PICK t, r, b, o : t = all[k].sym /\ r = all[k].res /\ b = all[k].bar /\ o = bs[t][r]
    OBVIOUS
  <2>2. t \in Symbols /\ r \in Res /\ b \in BarTypes /\ o \in BarTypes \cup {NoBar}
    BY <1>3, <1>6, <2>1
  <2>3. o # NoBar => GoodBar(log, n, t, r, o)
    BY <1>2, <2>1, <2>2 DEF BarsGood
  <2>4. CASE k > Len(cl)
    <3>1. PICK h \in 1 .. Len(c) : all[k] = c[h]
      BY <1>7, <2>4
    <3>2. t = s /\ b = o /\ GoodBar(log, n, s, r, b) /\ b.bucket < Slot(log, n + 1, r)
      BY <1>9, <2>1, <3>1
    <3>3. CASE worse /\ new[s][r] = bs[s][r]
      <4>1. IsPrefix(b.trades, b.trades)
        <5>1. PICK x : x = b.trades
          OBVIOUS
        <5>2. x \in Seq(Nat)
          BY <3>2, <5>1, FirstTrade
        <5>3. Len(x) <= Len(x) /\ SubSeq(x, 1, Len(x)) = x
          BY <5>2
        <5> QED BY <5>1, <5>3 DEF IsPrefix
      <4> QED BY <2>1, <3>2, <3>3, <4>1 DEF Followed
    <3>4. CASE new[s][r] = Updated(bs[s][r], Slot(log, n + 1, r), n + 1)
      <4>1. PICK u, z, i : u = new[s][r] /\ z = Slot(log, n + 1, r) /\ i = n + 1
        OBVIOUS
      <4>2. z \in Nat /\ i \in Nat /\ b.bucket \in Nat
        <5>1. n + 1 \in 1 .. Len(log)
          BY <1>1
        <5> QED BY <2>2, <4>1, <5>1, SlotType DEF BarTypes
      <4>3. u = Updated(b, z, i) /\ b.bucket # z
        BY <2>1, <3>2, <3>4, <4>1, <4>2
      <4>4. u.trades = <<i>>
        <5>1. b \in BarTypes \cup {NoBar}
          BY <2>2
        <5>2. IF b # NoBar /\ b.bucket = z THEN Updated(b, z, i).trades = Append(b.trades, i)
              ELSE Updated(b, z, i).trades = <<i>>
          BY <4>2, <5>1, UpdatedIs
        <5> QED BY <4>3, <5>2
      <4>5. Len(<<i>>) = 1 /\ <<i>>[1] = i
        OBVIOUS
      <4>6. \A j \in 1 .. Len(b.trades), m \in 1 .. Len(u.trades) : b.trades[j] < u.trades[m]
        <5>1. \A j \in 1 .. Len(b.trades) : b.trades[j] \in 1 .. n
          BY <3>2 DEF GoodBar
        <5>2. \A m \in 1 .. Len(u.trades) : u.trades[m] = i
          BY <4>4, <4>5
        <5>3. ASSUME NEW j \in 1 .. Len(b.trades), NEW m \in 1 .. Len(u.trades) PROVE b.trades[j] < u.trades[m]
          <6>1. PICK x, y : x = b.trades[j] /\ y = u.trades[m]
            OBVIOUS
          <6>2. x \in 1 .. n /\ y = n + 1
            BY <4>1, <5>1, <5>2, <6>1
          <6>3. x < y
            BY <6>2
          <6> QED BY <6>1, <6>3
        <5> QED BY <5>3
      <4>7. Overtaken(log, u.trades[1], s, r, b)
        <5>1. u.trades[1] = n + 1
          BY <4>1, <4>4, <4>5
        <5>2. Overtaken(log, n + 1, s, r, b)
          BY <1>9, <2>1, <3>1
        <5> QED BY <5>1, <5>2
      <4> QED BY <2>1, <3>2, <4>1, <4>6, <4>7 DEF Followed
    <3>5. c[h].res = r
      BY <2>1, <3>1
    <3>6. \/ new[s][c[h].res] = Updated(bs[s][c[h].res], Slot(log, n + 1, c[h].res), n + 1)
          \/ worse /\ new[s][c[h].res] = bs[s][c[h].res]
      BY DEF Handled
    <3> QED BY <3>3, <3>4, <3>5, <3>6
  <2>5. CASE ~(k > Len(cl))
    <3>1. k \in 1 .. Len(cl) /\ all[k] = cl[k]
      BY <1>8, <2>5
    <3>2. /\ GoodBar(log, n, t, r, b) /\ Overtaken(log, n, t, r, b)
          /\ o # NoBar => Followed(log, worse, t, r, b, o)
      BY <1>2, <2>1, <3>1 DEF BarsGood
    <3>3. CASE new[t][r] = bs[t][r]
      BY <1>13, <2>1, <3>2, <3>3
    <3>4. CASE t = s /\ new[t][r] = Updated(bs[t][r], Slot(log, n + 1, r), n + 1)
      <4>1. Followed(log, worse, t, r, b, Updated(o, Slot(log, n + 1, r), n + 1))
        BY <2>2, <2>3, <3>2, UpdatedFollowed
      <4> QED BY <2>1, <3>4, <4>1
    <3> QED BY <2>2, <3>3, <3>4 DEF Handled
  <2> QED BY <2>4, <2>5
<1> QED BY <1>4, <1>10, <1>11, <1>12, <1>13 DEF BarsGood

(***************************************************************************)
(* The builder's invariant: it has handled the entries up to Done, and the *)
(* rest of its batch comes next.                                           *)
(***************************************************************************)
Done == build.last - Len(batch)
BuildType == build \in [last : Nat, pel : SUBSET Nat] /\ build.last <= Len(raw.log)
BatchType == /\ batch \in Seq(Nat) /\ Len(batch) <= build.last
             /\ \A k \in 1 .. Len(batch) : batch[k] = Done + k
BuilderInv ==
  /\ RawType /\ BuildType /\ BatchType /\ BarsType
  /\ closed \in Seq(ClosedTypes) /\ faults \in Nat
  /\ BarsGood(raw.log, Done, faults > 0, bars, closed)

LEMMA DoneType == ASSUME BuildType, BatchType PROVE Done \in Nat /\ Done <= build.last /\ Len(batch) \in Nat
BY DEF BuildType, BatchType, Done

LEMMA BuilderInit == FeedInit => BuilderInv
PROOF
<1> SUFFICES ASSUME FeedInit PROVE BuilderInv
  OBVIOUS
<1>1. RawType /\ raw.log = << >>
  BY DEF FeedInit, Init, NoEntries, RawType
<1>2. build = [last |-> 0, pel |-> {}] /\ batch = << >> /\ closed = << >> /\ faults = 0
  BY DEF FeedInit, Init, GroupFromStart
<1>3. BuildType /\ BatchType
  BY <1>1, <1>2 DEF BuildType, BatchType
<1>4. BarsType /\ \A s \in Symbols, r \in Res : bars[s][r] = NoBar
  BY DEF FeedInit, Init, BarsType
<1>5. closed \in Seq(ClosedTypes) /\ Len(closed) = 0
  BY <1>2
<1>6. BarsGood(raw.log, Done, faults > 0, bars, closed)
  BY <1>4, <1>5 DEF BarsGood
<1> QED BY <1>1, <1>2, <1>3, <1>4, <1>5, <1>6 DEF BuilderInv

\* Steps that handle no entry: more may be published, read or lost.
Passing ==
  /\ RawType' /\ BuildType' /\ BatchType' /\ Extends(raw.log, raw'.log) /\ Done' >= Done
  /\ faults' \in Nat /\ faults' >= faults /\ closed' = closed
  /\ bars' \in [Symbols -> [Res -> BarTypes \cup {NoBar}]]
  /\ \A s \in Symbols, r \in Res : bars'[s][r] \in {bars[s][r], NoBar}

LEMMA BuilderLater ==
  ASSUME BuilderInv, Passing
  PROVE  BuilderInv'
PROOF
<1>1. /\ faults \in Nat /\ (faults > 0) \in BOOLEAN /\ (faults' > 0) \in BOOLEAN
      /\ (faults > 0 => faults' > 0)
  <2>1. faults \in Nat /\ faults' \in Nat /\ faults' >= faults
    BY DEF BuilderInv, Passing
  <2> QED BY <2>1
<1>2. Done \in Nat /\ Done' \in Nat /\ Done <= Done' /\ Done <= Len(raw.log)
  <2>1. Done \in Nat /\ Done <= build.last /\ build.last <= Len(raw.log) /\ build.last \in Nat
    BY DoneType DEF BuilderInv, BuildType
  <2>2. Done' \in Nat
    BY DEF Passing, BuildType, BatchType, Done
  <2>3. Len(raw.log) \in Nat
    BY DEF BuilderInv, RawType
  <2>4. Done' >= Done
    BY DEF Passing
  <2> QED BY <2>1, <2>2, <2>3, <2>4
<1>3. PICK n \in Nat, m \in Nat : n = Done /\ m = Done'
  BY <1>2
<1>4. PICK bad \in BOOLEAN, worse \in BOOLEAN : bad = (faults > 0) /\ worse = (faults' > 0)
  BY <1>1, Zenon
<1>5. PICK cl \in Seq(ClosedTypes) : cl = closed
  BY DEF BuilderInv
<1>6. PICK bs, later, log, more : bs = bars /\ later = bars' /\ log = raw.log /\ more = raw'.log
  OBVIOUS
<1>7. BarsGood(log, n, bad, bs, cl)
  BY <1>3, <1>4, <1>5, <1>6 DEF BuilderInv
<1>8. \A s \in Symbols, r \in Res : later[s][r] \in {bs[s][r], NoBar}
  BY <1>6 DEF Passing
<1>9. Extends(log, more)
  BY <1>6 DEF Passing
<1>10. n <= m
  BY <1>2, <1>3
<1>11. n <= Len(log)
  BY <1>2, <1>3, <1>6
<1>12. bad => worse
  BY <1>1, <1>4, Zenon
<1>13. BarsGood(more, m, worse, later, cl)
  BY <1>7, <1>8, <1>9, <1>10, <1>11, <1>12, BarsGoodLater, SMTT(30)
<1>14. BarsGood(raw.log, Done, faults > 0, bars, closed)'
  BY <1>3, <1>4, <1>5, <1>6, <1>13 DEF Passing
<1> QED BY <1>5, <1>14 DEF BuilderInv, BarsType, Passing

LEMMA ExtendsItself == RawType => Extends(raw.log, raw.log)
BY DEF RawType, Extends

\* Steps that do not touch the builder and publish nothing.
LEMMA BuilderIdle ==
  ASSUME BuilderInv, UNCHANGED <<raw, build, batch, bars, closed>>, faults' \in {faults, faults + 1}
  PROVE  BuilderInv'
PROOF
<1>1. RawType' /\ BuildType' /\ BatchType' /\ Done' = Done /\ Extends(raw.log, raw'.log)
  BY ExtendsItself DEF BuilderInv, RawType, BuildType, BatchType, Done
<1>2. faults' \in Nat /\ faults' >= faults /\ Done \in Nat
  BY DoneType DEF BuilderInv
<1>3. Done' >= Done
  BY <1>1, <1>2
<1>4. bars' \in [Symbols -> [Res -> BarTypes \cup {NoBar}]]
  BY DEF BuilderInv, BarsType
<1> QED BY <1>1, <1>2, <1>3, <1>4, BuilderLater DEF Passing

LEMMA BuilderPublish ==
  ASSUME BuilderInv, NEW t \in Trades, raw' \in Published(raw, t, Cap), UNCHANGED <<build, batch, bars, closed, faults>>
  PROVE  BuilderInv'
PROOF
<1>1. RawType' /\ Len(raw'.log) = Len(raw.log) + 1 /\ \A i \in DOMAIN raw.log : raw'.log[i] = raw.log[i]
  BY PublishGrows DEF BuilderInv
<1>2. raw.log \in Seq(Trades) /\ raw'.log \in Seq(Trades)
  BY <1>1 DEF BuilderInv, RawType
<1>3. Extends(raw.log, raw'.log)
  BY <1>1, <1>2 DEF Extends
<1>4. BuildType' /\ BatchType' /\ Done' = Done /\ Done \in Nat
  <2>1. build.last \in Nat /\ build.last <= Len(raw.log) /\ Len(raw.log) \in Nat
    BY <1>2 DEF BuilderInv, BuildType
  <2>2. build'.last <= Len(raw'.log)
    BY <1>1, <2>1
  <2> QED BY <2>2, DoneType DEF BuilderInv, BuildType, BatchType, Done
<1>5. bars' \in [Symbols -> [Res -> BarTypes \cup {NoBar}]] /\ faults' \in Nat /\ faults' >= faults /\ Done' >= Done
  BY <1>4 DEF BuilderInv, BarsType
<1> QED BY <1>1, <1>3, <1>4, <1>5, BuilderLater DEF Passing

\* What the next read hands out follows what was handled.
LEMMA NextBatch ==
  ASSUME BuilderInv, batch = << >>, NEW ids, ids = Ready(raw, build, ReadSize), ids # << >>
  PROVE  /\ ids \in Seq(Nat) /\ Len(ids) \in Nat \ {0} /\ ids[Len(ids)] \in Nat
         /\ ids[Len(ids)] <= Len(raw.log) /\ ids[Len(ids)] - Len(ids) >= Done
         /\ \A k \in 1 .. Len(ids) : ids[k] = ids[Len(ids)] - Len(ids) + k
         /\ Done = build.last /\ Done \in Nat
         /\ raw.first = 1 => ids[Len(ids)] - Len(ids) = Done
PROOF
<1>1. Len(raw.log) \in Nat /\ raw.first \in Nat \ {0} /\ build.last \in Nat /\ build.last <= Len(raw.log)
  BY DEF BuilderInv, RawType, BuildType
<1>2. Done = build.last /\ Done \in Nat
  <2>1. Len(batch) = 0
    OBVIOUS
  <2> QED BY <1>1, <2>1 DEF Done
<1>3. ReadSize \in Nat \ {0}
  BY StreamsAssumption
<1>4. /\ ids \in Seq(Nat)
      /\ \E from \in Nat \ {0} :
           /\ from > build.last /\ (from = build.last + 1 \/ from = raw.first)
           /\ from >= raw.first /\ from + Len(ids) - 1 <= Len(raw.log) /\ Len(ids) \in Nat \ {0}
           /\ \A k \in 1 .. Len(ids) : ids[k] = from + k - 1
  <2>1. Ready(raw, build, ReadSize) # << >> => \E from \in Nat \ {0} :
          /\ from > build.last /\ (from = build.last + 1 \/ from = raw.first)
          /\ from >= raw.first /\ from + Len(Ready(raw, build, ReadSize)) - 1 <= Len(raw.log)
          /\ Len(Ready(raw, build, ReadSize)) \in Nat \ {0}
          /\ \A k \in 1 .. Len(Ready(raw, build, ReadSize)) : Ready(raw, build, ReadSize)[k] = from + k - 1
    <3>1. PICK stream, group, size : stream = raw /\ group = build /\ size = ReadSize
      OBVIOUS
    <3>2. Ready(stream, group, size) # << >> => \E from \in Nat \ {0} :
            /\ from > group.last /\ (from = group.last + 1 \/ from = stream.first)
            /\ from >= stream.first /\ from + Len(Ready(stream, group, size)) - 1 <= Len(stream.log)
            /\ Len(Ready(stream, group, size)) \in Nat \ {0}
            /\ \A k \in 1 .. Len(Ready(stream, group, size)) : Ready(stream, group, size)[k] = from + k - 1
      <4>1. /\ Len(stream.log) \in Nat /\ stream.first \in Nat \ {0} /\ size \in Nat \ {0}
            /\ group.last \in Nat /\ group.last <= Len(stream.log)
        BY <1>1, <1>3, <3>1
      <4> QED BY <4>1, ReadyRange
    <3> QED BY <3>1, <3>2
  <2>2. Ready(raw, build, ReadSize) \in Seq(Nat)
    BY <1>1, <1>3, ReadyRange
  <2> QED BY <2>1, <2>2
<1>5. PICK from \in Nat \ {0} :
        /\ from > build.last /\ (from = build.last + 1 \/ from = raw.first)
        /\ from >= raw.first /\ from + Len(ids) - 1 <= Len(raw.log) /\ Len(ids) \in Nat \ {0}
        /\ \A k \in 1 .. Len(ids) : ids[k] = from + k - 1
  BY <1>4
<1>6. PICK n : n = Len(ids)
  OBVIOUS
<1>7. ids[n] = from + n - 1 /\ n \in Nat \ {0}
  BY <1>5, <1>6
<1>8. \A k \in 1 .. n : ids[k] = ids[n] - n + k
  BY <1>5, <1>6, <1>7
<1>9. ids[n] \in Nat /\ ids[n] <= Len(raw.log) /\ ids[n] - n >= Done /\ (raw.first = 1 => ids[n] - n = Done)
  BY <1>1, <1>2, <1>5, <1>6, <1>7
<1> QED BY <1>2, <1>4, <1>6, <1>7, <1>8, <1>9

\* A read, whether its reply comes or not.
LEMMA BuilderReads ==
  ASSUME BuilderInv, batch = << >>, NEW ids, ids = Ready(raw, build, ReadSize), ids # << >>,
         batch' = ids \/ batch' = << >>, build' \in [last : Nat, pel : SUBSET Nat], build'.last = ids[Len(ids)],
         UNCHANGED <<raw, bars, closed>>, faults' \in {faults, faults + 1}
  PROVE  BuilderInv'
PROOF
<1>1. PICK n, l : n = Len(ids) /\ l = ids[n]
  OBVIOUS
<1>2. /\ ids \in Seq(Nat) /\ n \in Nat \ {0} /\ l \in Nat /\ l <= Len(raw.log) /\ l - n >= Done
      /\ (\A k \in 1 .. n : ids[k] = l - n + k) /\ Done \in Nat
  BY <1>1, NextBatch
<1>3. RawType' /\ BuildType' /\ Extends(raw.log, raw'.log)
  BY <1>1, <1>2, ExtendsItself DEF BuilderInv, RawType, BuildType
<1>4. BatchType' /\ Done' >= Done
  <2>1. CASE batch' = ids
    <3>1. Done' = l - n
      BY <1>1, <2>1 DEF Done
    <3>2. n <= l
      BY <1>2
    <3> QED BY <1>1, <1>2, <2>1, <3>1, <3>2 DEF BatchType
  <2>2. CASE batch' = << >>
    <3>1. Len(batch') = 0 /\ Done' = l
      BY <1>1, <1>2, <2>2 DEF Done
    <3>2. batch' \in Seq(Nat)
      BY <2>2
    <3> QED BY <1>1, <1>2, <3>1, <3>2 DEF BatchType
  <2> QED BY <2>1, <2>2
<1>5. bars' \in [Symbols -> [Res -> BarTypes \cup {NoBar}]] /\ faults' \in Nat /\ faults' >= faults
  BY DEF BuilderInv, BarsType
<1> QED BY <1>3, <1>4, <1>5, BuilderLater DEF Passing

\* The trade at the head of the batch reaches the first n resolutions, and the bars that
\* it ends of the first m are published; no fewer than all of each unless a call failed.
LEMMA BuilderHandles ==
  ASSUME BuilderInv, batch # << >>, batch' = Tail(batch), UNCHANGED <<raw, build>>,
         faults' \in {faults, faults + 1},
         NEW n \in 0 .. Len(Resolutions), NEW m \in 0 .. Len(Resolutions),
         faults' = 0 => n = Len(Resolutions) /\ m = Len(Resolutions),
         bars' = Through(Head(batch), n), closed' = closed \o Closings(Head(batch), m)
  PROVE  /\ BuilderInv' /\ Done' = Done + 1 /\ Done + 1 <= Len(raw.log)
         /\ \E s \in Symbols : \E c :
              /\ Whose(raw.log, Done + 1) = s /\ closed' = closed \o c
              /\ Handled(raw.log, Done + 1, s, faults' > 0, bars, bars', c)
PROOF
<1>1. PICK d, log, i, s : d = Done /\ log = raw.log /\ i = Head(batch) /\ s = SymbolAt(i)
  OBVIOUS
<1>2. /\ log \in Seq(Trades) /\ d \in Nat /\ i = d + 1 /\ d + 1 <= Len(log) /\ Len(log) \in Nat
      /\ Len(batch) \in Nat \ {0} /\ Len(batch') = Len(batch) - 1 /\ Done' = d + 1 /\ batch' \in Seq(Nat)
      /\ \A k \in 1 .. Len(batch') : batch'[k] = Done' + k
  <2>1. /\ batch \in Seq(Nat) /\ Len(batch) <= build.last /\ build.last \in Nat /\ build.last <= Len(log)
        /\ (\A k \in 1 .. Len(batch) : batch[k] = d + k) /\ log \in Seq(Trades) /\ d = build.last - Len(batch)
    BY <1>1 DEF BuilderInv, BuildType, BatchType, RawType, Done
  <2>2. /\ Len(batch) \in Nat \ {0} /\ Len(batch') = Len(batch) - 1 /\ i = batch[1] /\ batch' \in Seq(Nat)
        /\ \A k \in 1 .. Len(batch') : batch'[k] = batch[k + 1]
    BY <1>1, <2>1
  <2>3. i = d + 1 /\ d \in Nat /\ d + 1 <= Len(log) /\ Len(log) \in Nat
    BY <2>1, <2>2, SMTT(30)
  <2>4. Done' = d + 1
    BY <2>1, <2>2 DEF Done
  <2>5. ASSUME NEW k \in 1 .. Len(batch') PROVE batch'[k] = Done' + k
    <3>1. k + 1 \in 1 .. Len(batch)
      BY <2>2
    <3>2. batch[k + 1] = d + (k + 1)
      BY <2>1, <3>1
    <3> QED BY <2>2, <2>3, <2>4, <3>2
  <2> QED BY <2>1, <2>2, <2>3, <2>4, <2>5
<1>3. RawType' /\ BuildType' /\ BatchType'
  <2>1. Len(batch') <= build'.last
    BY <1>2 DEF BuilderInv, BuildType, BatchType
  <2> QED BY <1>2, <2>1 DEF BuilderInv, RawType, BuildType, BatchType
<1>4. i \in 1 .. Len(log) /\ i \in Nat
  BY <1>2
<1>5. s = Whose(log, i) /\ s \in Symbols /\ \A r \in Res : Bucket(i, r) = Slot(log, i, r) /\ Slot(log, i, r) \in Nat
  <2>1. s = Whose(log, i) /\ \A r : Bucket(i, r) = Slot(log, i, r)
    BY <1>1, SlotIs
  <2>2. log[i] \in Trades /\ Symbol[log[i]] \in Symbols
    BY <1>2, <1>4, StreamsAssumption DEF Symbols
  <2>3. \A r \in Res : Slot(log, i, r) \in Nat
    BY <1>2, <1>4, SlotType
  <2> QED BY <2>1, <2>2, <2>3 DEF Whose
<1>6. PICK c, t : c = Closings(i, m) /\ t = Through(i, n)
  OBVIOUS
<1>0. faults \in Nat /\ faults' \in Nat /\ (faults > 0) \in BOOLEAN /\ (faults' > 0) \in BOOLEAN
  <2>1. faults \in Nat
    BY DEF BuilderInv
  <2> QED BY <2>1
<1>b. PICK bad \in BOOLEAN, worse \in BOOLEAN : bad = (faults > 0) /\ worse = (faults' > 0)
  BY <1>0, Zenon
<1>7. (bad => worse) /\ (~worse => n = Len(Resolutions) /\ m = Len(Resolutions))
  <2>2. (faults > 0 => faults' > 0) /\ (~(faults' > 0) => faults' = 0)
    BY <1>0
  <2>4. bad => worse
    BY <1>b, <2>2, Zenon
  <2>5. ~worse => faults' = 0
    BY <1>b, <2>2, Zenon
  <2> QED BY <2>4, <2>5
<1>8. BarsType /\ bars \in [Symbols -> [Res -> BarTypes \cup {NoBar}]] /\ closed \in Seq(ClosedTypes)
  BY DEF BuilderInv, BarsType
<1>9. /\ t \in [Symbols -> [Res -> BarTypes \cup {NoBar}]]
      /\ \A x \in Symbols, r \in Res :
           t[x][r] = IF x = s /\ r \in FirstRes(n) THEN Updated(bars[x][r], Slot(log, i, r), i) ELSE bars[x][r]
  <2>1. SymbolAt(i) \in Symbols /\ \A r \in Res : Bucket(i, r) \in Nat
    BY <1>1, <1>5
  <2>2. /\ Through(i, n) \in [Symbols -> [Res -> BarTypes \cup {NoBar}]]
        /\ \A x \in Symbols, r \in Res :
             Through(i, n)[x][r] = IF x = SymbolAt(i) /\ r \in FirstRes(n)
                                   THEN Updated(bars[x][r], Bucket(i, r), i) ELSE bars[x][r]
    BY <1>4, <1>8, <2>1, ThroughIs
  <2> QED BY <1>1, <1>5, <1>6, <2>2
<1>10. /\ c \in Seq(ClosedTypes)
       /\ \A k \in 1 .. Len(c) :
            c[k].sym = s /\ c[k].bar = bars[s][c[k].res] /\ Forward(c[k].bar, Bucket(i, c[k].res))
       /\ \A j, k \in 1 .. Len(c) : c[j].res = c[k].res => j = k
       /\ \A r \in FirstRes(m) : Forward(bars[s][r], Bucket(i, r)) => \E k \in 1 .. Len(c) : c[k].res = r
  <2>1. SymbolAt(i) \in Symbols
    BY <1>1, <1>5
  <2>2. LET d2 == Closings(i, m)
            s2 == SymbolAt(i)
        IN /\ d2 \in Seq(ClosedTypes)
           /\ \A k \in 1 .. Len(d2) :
                /\ d2[k].sym = s2 /\ d2[k].res \in FirstRes(m) /\ d2[k].bar = bars[s2][d2[k].res]
                /\ Forward(d2[k].bar, Bucket(i, d2[k].res))
           /\ \A j, k \in 1 .. Len(d2) : d2[j].res = d2[k].res => j = k
           /\ \A r \in FirstRes(m) :
                Forward(bars[s2][r], Bucket(i, r)) => \E k \in 1 .. Len(d2) : d2[k].res = r
    BY <1>8, <2>1, ClosingsAre
  <2> QED BY <1>1, <1>6, <2>2
<1>11. \A k \in 1 .. Len(c) : c[k].res \in Res
  <2>1. \A k \in 1 .. Len(c) : c[k] \in ClosedTypes
    BY <1>10
  <2> QED BY <2>1 DEF ClosedTypes
<1>12. ~worse => FirstRes(n) = Res /\ FirstRes(m) = Res
  BY <1>7, ResolutionsAre
<1>13. Handled(log, i, s, worse, bars, t, c)
  <2>1. ASSUME NEW k \in 1 .. Len(c)
        PROVE  /\ c[k].sym = s /\ c[k].bar = bars[s][c[k].res] /\ c[k].bar # NoBar
               /\ c[k].bar.bucket < Slot(log, i, c[k].res)
               /\ \/ t[s][c[k].res] = Updated(bars[s][c[k].res], Slot(log, i, c[k].res), i)
                  \/ worse /\ t[s][c[k].res] = bars[s][c[k].res]
    <3>1. PICK r : r = c[k].res
      OBVIOUS
    <3>2. r \in Res /\ c[k].sym = s /\ c[k].bar = bars[s][r] /\ Forward(c[k].bar, Slot(log, i, r))
      BY <1>5, <1>10, <1>11, <3>1
    <3>3. c[k].bar # NoBar /\ c[k].bar.bucket < Slot(log, i, r)
      BY <3>2 DEF Forward
    <3>4. t[s][r] = IF r \in FirstRes(n) THEN Updated(bars[s][r], Slot(log, i, r), i) ELSE bars[s][r]
      BY <1>5, <1>9, <3>2
    <3>5. t[s][r] = Updated(bars[s][r], Slot(log, i, r), i) \/ (worse /\ t[s][r] = bars[s][r])
      <4>1. CASE r \in FirstRes(n)
        BY <3>4, <4>1
      <4>2. CASE r \notin FirstRes(n)
        BY <1>12, <3>2, <3>4, <4>2
      <4> QED BY <4>1, <4>2
    <3> QED BY <3>1, <3>2, <3>3, <3>5
  <2>2. ASSUME NEW x \in Symbols, NEW r \in Res
        PROVE  t[x][r] = bars[x][r] \/ (x = s /\ t[x][r] = Updated(bars[x][r], Slot(log, i, r), i))
    <3>1. t[x][r] = IF x = s /\ r \in FirstRes(n) THEN Updated(bars[x][r], Slot(log, i, r), i) ELSE bars[x][r]
      BY <1>9
    <3> QED BY <3>1, Zenon
  <2>3. ASSUME ~worse, NEW r \in Res
        PROVE  /\ t[s][r] = Updated(bars[s][r], Slot(log, i, r), i)
               /\ Forward(bars[s][r], Slot(log, i, r)) => \E k \in 1 .. Len(c) : c[k].res = r
    <3>1. r \in FirstRes(n) /\ r \in FirstRes(m)
      BY <1>12, <2>3
    <3>2. t[s][r] = Updated(bars[s][r], Slot(log, i, r), i)
      BY <1>5, <1>9, <3>1
    <3>3. Forward(bars[s][r], Slot(log, i, r)) => \E k \in 1 .. Len(c) : c[k].res = r
      BY <1>5, <1>10, <3>1
    <3> QED BY <3>2, <3>3
  <2> QED BY <1>9, <1>10, <2>1, <2>2, <2>3 DEF Handled
<1>14. BarsGood(log, d, bad, bars, closed)
  BY <1>1, <1>b DEF BuilderInv
<1>15. Handled(log, d + 1, s, worse, bars, t, c) /\ Whose(log, d + 1) = s
  BY <1>2, <1>5, <1>13
<1>16. BarsGood(log, d + 1, worse, t, closed \o c)
  BY <1>2, <1>5, <1>7, <1>8, <1>14, <1>15, BarsGoodHandled, SMTT(30)
<1>17. closed' = closed \o c /\ bars' = t /\ closed' \in Seq(ClosedTypes)
  BY <1>1, <1>6, <1>8, <1>10
<1>18. BarsGood(raw.log, Done, faults > 0, bars, closed)'
  BY <1>1, <1>2, <1>b, <1>16, <1>17
<1>19. BuilderInv' /\ Done' = Done + 1 /\ Done + 1 <= Len(raw.log)
  BY <1>1, <1>2, <1>3, <1>9, <1>17, <1>18 DEF BuilderInv, BarsType
<1>20. Handled(raw.log, Done + 1, s, faults' > 0, bars, bars', c) /\ Whose(raw.log, Done + 1) = s
  BY <1>1, <1>b, <1>15, <1>17
<1> QED BY <1>5, <1>17, <1>19, <1>20

LEMMA BuilderCrashes == ASSUME BuilderInv, BuilderCrash PROVE BuilderInv'
PROOF
<1>1. RawType' /\ BuildType' /\ Extends(raw.log, raw'.log)
  BY ExtendsItself DEF BuilderInv, BuilderCrash, RawType, BuildType
<1>2. batch' = << >> /\ Len(batch') = 0 /\ build' = build
  BY DEF BuilderCrash
<1>3. build.last \in Nat /\ Done \in Nat /\ Done <= build.last
  BY DoneType DEF BuilderInv, BuildType
<1>4. Done' = build.last
  BY <1>2, <1>3 DEF Done
<1>5. BatchType' /\ Done' >= Done
  BY <1>2, <1>3, <1>4 DEF BatchType
<1>6. faults' \in Nat /\ faults' >= faults
  BY DEF BuilderInv, BuilderCrash, Fault
<1>7. /\ bars' \in [Symbols -> [Res -> BarTypes \cup {NoBar}]]
      /\ \A s \in Symbols, r \in Res : bars'[s][r] \in {bars[s][r], NoBar}
  BY DEF BuilderCrash
<1>8. closed' = closed
  BY DEF BuilderCrash
<1> QED BY <1>1, <1>5, <1>6, <1>7, <1>8, BuilderLater DEF Passing

\* Whatever the call that raised was, some resolutions have the trade and some bars are out.
LEMMA ProcessHandles ==
  ASSUME BuilderInv, Process \/ ProcessFails
  PROVE  \E n, m \in 0 .. Len(Resolutions) :
           /\ batch # << >> /\ batch' = Tail(batch) /\ UNCHANGED <<raw, build, ackable>>
           /\ faults' \in {faults, faults + 1}
           /\ faults' = 0 => n = Len(Resolutions) /\ m = Len(Resolutions)
           /\ bars' = Through(Head(batch), n) /\ closed' = closed \o Closings(Head(batch), m)
PROOF
<1>1. Len(Resolutions) \in Nat /\ faults \in Nat
  BY ResolutionsAre DEF BuilderInv
<1>2. CASE Process
  <2>1. Len(Resolutions) \in 0 .. Len(Resolutions)
    BY <1>1
  <2> QED BY <1>2, <2>1 DEF Process
<1>3. CASE ProcessFails
  <2>1. /\ batch # << >> /\ batch' = Tail(batch) /\ UNCHANGED <<raw, build, ackable>> /\ faults' = faults + 1
        /\ \E n \in 0 .. Len(Resolutions) - 1 :
             /\ bars' = Through(Head(batch), n)
             /\ closed' = closed \o Closings(Head(batch), n) \/ closed' = closed \o Closings(Head(batch), n + 1)
    BY <1>3 DEF ProcessFails, Fault
  <2>2. PICK n \in 0 .. Len(Resolutions) - 1 :
             /\ bars' = Through(Head(batch), n)
             /\ closed' = closed \o Closings(Head(batch), n) \/ closed' = closed \o Closings(Head(batch), n + 1)
    BY <2>1
  <2>3. n \in 0 .. Len(Resolutions) /\ n + 1 \in 0 .. Len(Resolutions)
    BY <1>1
  <2>4. faults' # 0
    BY <1>1, <2>1
  <2>5. \E m \in 0 .. Len(Resolutions) : closed' = closed \o Closings(Head(batch), m)
    BY <2>2, <2>3
  <2> QED BY <2>1, <2>2, <2>3, <2>4, <2>5
<1> QED BY <1>2, <1>3

\* What a step may do to the builder.
LEMMA BuilderSteps ==
  ASSUME BuilderInv, [FeedNext]_feedVars, deployed \in Deployments
  PROVE  \/ UNCHANGED <<raw, build, batch, bars, closed, ackable>> /\ faults' \in {faults, faults + 1}
         \/ /\ \E t \in Trades : raw' \in Published(raw, t, Cap)
            /\ UNCHANGED <<build, batch, bars, closed, ackable, faults>>
         \/ Read \/ ReadFails \/ Process \/ ProcessFails \/ BuilderCrash
PROOF
<1>1. CASE Publish
  <2>1. Feed[deployed] \subseteq Trades
    BY StreamsAssumption
  <2> QED BY <1>1, <2>1 DEF Publish
<1>2. CASE Discover
  BY <1>2 DEF Discover
<1>3. CASE WorkerStep
  <2>1. CASE Consume
    BY <2>1 DEF Consume
  <2>2. CASE ConsumeFails
    BY <2>2 DEF ConsumeFails, Fault
  <2>3. CASE Flush
    BY <2>3 DEF Flush
  <2>4. CASE FlushFails
    BY <2>4 DEF FlushFails, Fault
  <2>5. CASE AckFails
    BY <2>5 DEF AckFails, Fault
  <2>6. CASE WorkerCrash
    BY <2>6 DEF WorkerCrash, Fault
  <2>7. CASE Refresh
    BY <2>7 DEF Refresh
  <2> QED BY <1>3, <2>1, <2>2, <2>3, <2>4, <2>5, <2>6, <2>7 DEF WorkerStep
<1>4. CASE BuilderStep
  BY <1>4 DEF BuilderStep
<1>5. CASE FeedStep
  <2>1. CASE RunnerStarts
    BY <2>1 DEF RunnerStarts, Fault
  <2>2. CASE RouterReads
    BY <2>2 DEF RouterReads, Fault
  <2>3. CASE RouteBar
    BY <2>3 DEF RouteBar
  <2>4. CASE RunnerDies
    BY <2>4 DEF RunnerDies, Fault
  <2>5. ASSUME NEW s \in Sessions, StartSession(s) \/ StopSession(s) \/ OnClosedBar(s) \/ OnClosedBarFails(s)
        PROVE  UNCHANGED <<raw, build, batch, bars, closed, ackable>> /\ faults' \in {faults, faults + 1}
    BY <2>5 DEF StartSession, StopSession, OnClosedBar, OnClosedBarFails, Fault
  <2> QED BY <1>5, <2>1, <2>2, <2>3, <2>4, <2>5 DEF FeedStep
<1>6. CASE UNCHANGED feedVars
  BY <1>6 DEF feedVars, vars
<1> QED BY <1>1, <1>2, <1>3, <1>4, <1>5, <1>6 DEF FeedNext, Next

LEMMA BuilderStepKeeps ==
  ASSUME BuilderInv, [FeedNext]_feedVars, deployed \in Deployments
  PROVE  BuilderInv'
PROOF
<1>1. CASE UNCHANGED <<raw, build, batch, bars, closed>> /\ faults' \in {faults, faults + 1}
  BY <1>1, BuilderIdle
<1>2. CASE (\E t \in Trades : raw' \in Published(raw, t, Cap)) /\ UNCHANGED <<build, batch, bars, closed, faults>>
  BY <1>2, BuilderPublish
<1>3. CASE Read \/ ReadFails
  <2>1. PICK ids : ids = Ready(raw, build, ReadSize)
    OBVIOUS
  <2>2. /\ batch = << >> /\ ids # << >> /\ UNCHANGED <<raw, bars, closed>> /\ faults' \in {faults, faults + 1}
        /\ batch' = ids \/ batch' = << >>
        /\ build' = Delivered(Acked(build, ackable), ids) \/ build' = Delivered(build, ids)
    BY <1>3, <2>1 DEF Read, ReadFails, Fault
  <2>3. ids \in Seq(Nat) /\ ids[Len(ids)] \in Nat
    BY <2>1, <2>2, NextBatch
  <2>4. build \in [last : Nat, pel : SUBSET Nat] /\ Acked(build, ackable) \in [last : Nat, pel : SUBSET Nat]
    BY DEF BuilderInv, BuildType, Acked
  <2>5. build' \in [last : Nat, pel : SUBSET Nat] /\ build'.last = ids[Len(ids)]
    BY <2>2, <2>3, <2>4 DEF Delivered
  <2> QED BY <2>1, <2>2, <2>5, BuilderReads
<1>4. CASE Process \/ ProcessFails
  <2>1. PICK n, m \in 0 .. Len(Resolutions) :
           /\ batch # << >> /\ batch' = Tail(batch) /\ UNCHANGED <<raw, build, ackable>>
           /\ faults' \in {faults, faults + 1}
           /\ faults' = 0 => n = Len(Resolutions) /\ m = Len(Resolutions)
           /\ bars' = Through(Head(batch), n) /\ closed' = closed \o Closings(Head(batch), m)
    BY <1>4, ProcessHandles
  <2> QED BY <2>1, BuilderHandles
<1>5. CASE BuilderCrash
  BY <1>5, BuilderCrashes
<1> QED BY <1>1, <1>2, <1>3, <1>4, <1>5, BuilderSteps

LEMMA CountedFromGood ==
  ASSUME BuilderInv PROVE CountedOncePerEntry /\ ReclosedOnlyLate
PROOF
<1>1. /\ Len(closed) \in Nat /\ DOMAIN closed = 1 .. Len(closed)
      /\ BarsGood(raw.log, Done, faults > 0, bars, closed)
  BY DEF BuilderInv
<1>2. ASSUME NEW j \in DOMAIN closed, NEW k \in DOMAIN closed, j < k,
             closed[j].sym = closed[k].sym, closed[j].res = closed[k].res
      PROVE  LET old == closed[j].bar
                 new == closed[k].bar
             IN /\ \/ \A x \in ToSet(old.trades), y \in ToSet(new.trades) : raw.log[x] # raw.log[y]
                   \/ ToSet(old.trades) \cap ToSet(new.trades) = {} /\ StartsLate(new, closed[k].res)
                   \/ faults > 0 /\ old.bucket = new.bucket /\ IsPrefix(old.trades, new.trades)
                /\ old.bucket = new.bucket =>
                     IsPrefix(old.trades, new.trades) \/ StartsLate(new, closed[k].res)
  <2>1. PICK s, r, old, new : s = closed[k].sym /\ r = closed[k].res /\ old = closed[j].bar /\ new = closed[k].bar
    OBVIOUS
  <2>2. /\ Followed(raw.log, faults > 0, s, r, old, new)
        /\ GoodBar(raw.log, Done, s, r, old) /\ GoodBar(raw.log, Done, s, r, new)
    <3>1. j \in 1 .. Len(closed) /\ k \in 1 .. Len(closed)
      BY <1>1
    <3> QED BY <1>1, <1>2, <2>1, <3>1 DEF BarsGood
  <2>3. CASE faults > 0 /\ old.bucket = new.bucket /\ IsPrefix(old.trades, new.trades)
    BY <2>1, <2>3
  <2>4. CASE /\ \A x \in 1 .. Len(old.trades), y \in 1 .. Len(new.trades) : old.trades[x] < new.trades[y]
             /\ Overtaken(raw.log, new.trades[1], s, r, old)
    <3>1. /\ old.trades \in Seq(Nat) /\ new.trades \in Seq(Nat) /\ 1 \in 1 .. Len(new.trades)
          /\ new.trades[1] \in Nat
      BY <2>2, FirstTrade
    <3>2. ToSet(old.trades) \cap ToSet(new.trades) = {}
      <4>1. PICK a, b : a = old.trades /\ b = new.trades
        OBVIOUS
      <4>2. /\ DOMAIN a = 1 .. Len(a) /\ DOMAIN b = 1 .. Len(b) /\ (\A x \in 1 .. Len(a) : a[x] \in Nat)
            /\ \A x \in 1 .. Len(a), y \in 1 .. Len(b) : a[x] < b[y]
        BY <2>4, <3>1, <4>1
      <4>3. \A x \in DOMAIN a, y \in DOMAIN b : a[x] # b[y]
        BY <4>2
      <4> QED BY <4>1, <4>3 DEF ToSet
    <3>3. old.bucket = new.bucket => StartsLate(new, r)
      <4> SUFFICES ASSUME old.bucket = new.bucket PROVE StartsLate(new, r)
        OBVIOUS
      <4>1. PICK e \in 1 .. new.trades[1] : Whose(raw.log, e) = s /\ Slot(raw.log, e, r) > old.bucket
        BY <2>4 DEF Overtaken
      <4>2. Whose(raw.log, new.trades[1]) = s /\ Slot(raw.log, new.trades[1], r) = new.bucket
        BY <2>2, <3>1 DEF GoodBar
      <4> QED BY <4>1, <4>2, SlotIs DEF StartsLate
    <3>4. ASSUME NEW x \in ToSet(old.trades), NEW y \in ToSet(new.trades), raw.log[x] = raw.log[y]
          PROVE  old.bucket = new.bucket
      <4>0. DOMAIN old.trades = 1 .. Len(old.trades) /\ DOMAIN new.trades = 1 .. Len(new.trades)
        BY <3>1
      <4>1. PICK a \in 1 .. Len(old.trades) : x = old.trades[a]
        BY <3>4, <4>0, Zenon DEF ToSet
      <4>2. PICK b \in 1 .. Len(new.trades) : y = new.trades[b]
        BY <3>4, <4>0, Zenon DEF ToSet
      <4>3. Slot(raw.log, x, r) = old.bucket /\ Slot(raw.log, y, r) = new.bucket
        BY <2>2, <4>1, <4>2 DEF GoodBar
      <4> QED BY <3>4, <4>3 DEF Slot
    <3> QED BY <2>1, <3>2, <3>3, <3>4
  <2> QED BY <2>2, <2>3, <2>4 DEF Followed
<1>3. CountedOncePerEntry
  BY <1>2 DEF CountedOncePerEntry
<1>4. ReclosedOnlyLate
  BY <1>2 DEF ReclosedOnlyLate
<1> QED BY <1>3, <1>4

LEMMA BuilderAlways == FeedSpec => []BuilderInv
PROOF
<1>1. FeedInit => BuilderInv /\ Inv
  BY BuilderInit, InvInit
<1>2. BuilderInv /\ Inv /\ [FeedNext]_feedVars => BuilderInv' /\ Inv'
  <2>1. Inv => deployed \in Deployments
    BY DEF Inv, WorkerInv
  <2> QED BY <2>1, BuilderStepKeeps, InvStep
<1> QED BY <1>1, <1>2, PTL DEF FeedSpec

\* Whatever fails, dies or comes late, an entry of trades:raw is in no two closed bars of
\* one symbol and resolution, except in a bar sent again because a publish raised after
\* it was done; and a trade is in two only if it was published twice and the second bar
\* began after its bucket had been overtaken (process_trade, main_loop).
THEOREM EntriesCountedOnce == FeedSpec => []CountedOncePerEntry
PROOF
<1>1. BuilderInv => CountedOncePerEntry
  BY CountedFromGood
<1> QED BY <1>1, BuilderAlways, PTL

\* A bucket is announced closed again only for a trade that came after one of a later
\* bucket, or because a publish raised: never because of the trades that follow.
THEOREM ReclosedForLateTrades == FeedSpec => []ReclosedOnlyLate
PROOF
<1>1. BuilderInv => ReclosedOnlyLate
  BY CountedFromGood
<1> QED BY <1>1, BuilderAlways, PTL

(***************************************************************************)
(* Undisturbed, the closed bars aggregate the trades.                      *)
(***************************************************************************)
Sorted(log, s) ==
  \A i, j \in 1 .. Len(log) : i < j /\ Whose(log, i) = s /\ Whose(log, j) = s => Second[log[i]] <= Second[log[j]]

Mine(cl, s, r) == {k \in 1 .. Len(cl) : cl[k].sym = s /\ cl[k].res = r}

\* bar is in progress and the bars of cl are closed: every one of the first n entries is in
\* the bar of its bucket, the bar in progress being the last.
Aggregated(log, n, s, r, bar, cl) ==
  /\ \A i \in 1 .. n : Whose(log, i) = s =>
       /\ bar # NoBar /\ Slot(log, i, r) <= bar.bucket
       /\ Slot(log, i, r) = bar.bucket => \E h \in 1 .. Len(bar.trades) : bar.trades[h] = i
       /\ Slot(log, i, r) < bar.bucket => \E k \in Mine(cl, s, r) : cl[k].bar.bucket = Slot(log, i, r)
       /\ \A k \in Mine(cl, s, r) : Slot(log, i, r) = cl[k].bar.bucket =>
            \E h \in 1 .. Len(cl[k].bar.trades) : cl[k].bar.trades[h] = i
  /\ \A k \in Mine(cl, s, r) : bar # NoBar /\ cl[k].bar.bucket < bar.bucket
  /\ \A j, k \in Mine(cl, s, r) : j < k => cl[j].bar.bucket < cl[k].bar.bucket

LEMMA AggregatedGrows ==
  ASSUME NEW log, NEW more, Extends(log, more), NEW n \in Nat, n <= Len(log), NEW s, NEW r, NEW bar, NEW cl,
         Aggregated(log, n, s, r, bar, cl)
  PROVE  Aggregated(more, n, s, r, bar, cl)
PROOF
<1>1. Len(log) \in Nat
  BY DEF Extends
<1>2. \A i \in 1 .. n : Whose(more, i) = Whose(log, i) /\ Slot(more, i, r) = Slot(log, i, r)
  <2> SUFFICES ASSUME NEW i \in 1 .. n PROVE Whose(more, i) = Whose(log, i) /\ Slot(more, i, r) = Slot(log, i, r)
    OBVIOUS
  <2>1. i \in 1 .. Len(log)
    BY <1>1
  <2> QED BY <2>1, SameSlots
<1> HIDE DEF Mine
<1> QED BY <1>2 DEF Aggregated

\* In order, the entry is of no bucket before that of the bar in progress.
LEMMA NotBefore ==
  ASSUME NEW log \in Seq(Trades), NEW n \in Nat, n + 1 <= Len(log), NEW s \in Symbols, Whose(log, n + 1) = s,
         Sorted(log, s), NEW r \in Res, NEW bar, GoodBar(log, n, s, r, bar)
  PROVE  bar.bucket <= Slot(log, n + 1, r) /\ bar.bucket \in Nat /\ Slot(log, n + 1, r) \in Nat
PROOF
<1>1. PICK i \in 1 .. n : i = bar.trades[1]
  BY FirstTrade
<1>2. Whose(log, i) = s /\ Slot(log, i, r) = bar.bucket /\ bar.bucket \in Nat
  BY <1>1, FirstTrade DEF GoodBar
<1>3. i \in 1 .. Len(log) /\ n + 1 \in 1 .. Len(log) /\ i < n + 1
  OBVIOUS
<1>4. Second[log[i]] <= Second[log[n + 1]]
  BY <1>2, <1>3 DEF Sorted
<1>5. Slot(log, i, r) <= Slot(log, n + 1, r)
  BY <1>3, <1>4, SlotMonotonic
<1>6. Slot(log, n + 1, r) \in Nat
  BY <1>3, SlotType
<1> QED BY <1>2, <1>5, <1>6

\* An entry of another symbol.
LEMMA AggregatedOther ==
  ASSUME NEW log, NEW n \in Nat, NEW s, NEW r, NEW bar, NEW cl \in Seq(ClosedTypes), NEW c \in Seq(ClosedTypes),
         Whose(log, n + 1) # s, \A k \in 1 .. Len(c) : c[k].sym # s, Aggregated(log, n, s, r, bar, cl)
  PROVE  Aggregated(log, n + 1, s, r, bar, cl \o c)
PROOF
<1>1. PICK all : all = cl \o c
  OBVIOUS
<1>2. /\ Len(cl) \in Nat /\ Len(c) \in Nat /\ Len(all) = Len(cl) + Len(c)
      /\ \A k \in 1 .. Len(cl) : all[k] = cl[k]
      /\ \A k \in 1 .. Len(c) : all[Len(cl) + k] = c[k]
  BY <1>1
<1>3. ASSUME NEW k \in 1 .. Len(all), all[k].sym = s PROVE k \in 1 .. Len(cl) /\ all[k] = cl[k]
  <2>1. CASE k > Len(cl)
    <3>1. k - Len(cl) \in 1 .. Len(c) /\ k = Len(cl) + (k - Len(cl))
      BY <1>2, <2>1
    <3>2. all[k] = c[k - Len(cl)]
      BY <1>2, <3>1
    <3> QED BY <1>3, <3>1, <3>2
  <2>2. CASE ~(k > Len(cl))
    BY <1>2, <2>2
  <2> QED BY <2>1, <2>2
<1>4. Mine(all, s, r) = Mine(cl, s, r) /\ \A k \in Mine(cl, s, r) : all[k] = cl[k]
  <2>1. ASSUME NEW k \in Mine(cl, s, r) PROVE k \in Mine(all, s, r) /\ all[k] = cl[k]
    <3>1. k \in 1 .. Len(cl) /\ cl[k].sym = s /\ cl[k].res = r
      BY DEF Mine
    <3>2. k \in 1 .. Len(all) /\ all[k] = cl[k]
      BY <1>2, <3>1
    <3> QED BY <3>1, <3>2 DEF Mine
  <2>2. ASSUME NEW k \in Mine(all, s, r) PROVE k \in Mine(cl, s, r)
    <3>1. k \in 1 .. Len(all) /\ all[k].sym = s /\ all[k].res = r
      BY DEF Mine
    <3> QED BY <1>3, <3>1 DEF Mine
  <2> QED BY <2>1, <2>2
<1>5. \A i \in 1 .. n + 1 : Whose(log, i) = s => i \in 1 .. n
  OBVIOUS
<1>6. \A k \in Mine(all, s, r) : all[k].bar = cl[k].bar
  BY <1>4
<1>7. ASSUME NEW i \in 1 .. n + 1, Whose(log, i) = s
      PROVE  /\ bar # NoBar /\ Slot(log, i, r) <= bar.bucket
             /\ Slot(log, i, r) = bar.bucket => \E h \in 1 .. Len(bar.trades) : bar.trades[h] = i
             /\ Slot(log, i, r) < bar.bucket => \E k \in Mine(all, s, r) : all[k].bar.bucket = Slot(log, i, r)
             /\ \A k \in Mine(all, s, r) : Slot(log, i, r) = all[k].bar.bucket =>
                  \E h \in 1 .. Len(all[k].bar.trades) : all[k].bar.trades[h] = i
  <2>1. i \in 1 .. n
    BY <1>5, <1>7
  <2>2. /\ bar # NoBar /\ Slot(log, i, r) <= bar.bucket
        /\ Slot(log, i, r) = bar.bucket => \E h \in 1 .. Len(bar.trades) : bar.trades[h] = i
        /\ Slot(log, i, r) < bar.bucket => \E k \in Mine(cl, s, r) : cl[k].bar.bucket = Slot(log, i, r)
        /\ \A k \in Mine(cl, s, r) : Slot(log, i, r) = cl[k].bar.bucket =>
             \E h \in 1 .. Len(cl[k].bar.trades) : cl[k].bar.trades[h] = i
    BY <1>7, <2>1 DEF Aggregated
  <2> QED BY <1>4, <1>6, <2>2, SMTT(30)
<1>8. /\ \A k \in Mine(all, s, r) : bar # NoBar /\ all[k].bar.bucket < bar.bucket
      /\ \A j, k \in Mine(all, s, r) : j < k => all[j].bar.bucket < all[k].bar.bucket
  <2>1. /\ \A k \in Mine(cl, s, r) : bar # NoBar /\ cl[k].bar.bucket < bar.bucket
        /\ \A j, k \in Mine(cl, s, r) : j < k => cl[j].bar.bucket < cl[k].bar.bucket
    BY DEF Aggregated
  <2> QED BY <1>4, <1>6, <2>1
<1>9. Aggregated(log, n + 1, s, r, bar, all)
  BY <1>7, <1>8 DEF Aggregated
<1> QED BY <1>1, <1>9

\* An entry of the symbol itself: u is the bar after it, and c holds the bar before it if
\* that one is over.
LEMMA AggregatedHandled ==
  ASSUME NEW log \in Seq(Trades), NEW n \in Nat, n + 1 <= Len(log), NEW s \in Symbols, Whose(log, n + 1) = s,
         Sorted(log, s), NEW r \in Res, NEW bar \in BarTypes \cup {NoBar}, bar # NoBar => GoodBar(log, n, s, r, bar),
         NEW cl \in Seq(ClosedTypes), NEW c \in Seq(ClosedTypes),
         \A k \in 1 .. Len(c) : c[k].sym = s,
         \A j, k \in 1 .. Len(c) : c[j].res = c[k].res => j = k,
         \A k \in 1 .. Len(c) :
           c[k].res = r => c[k].bar = bar /\ bar # NoBar /\ bar.bucket < Slot(log, n + 1, r),
         Forward(bar, Slot(log, n + 1, r)) => \E k \in 1 .. Len(c) : c[k].res = r,
         Aggregated(log, n, s, r, bar, cl)
  PROVE  Aggregated(log, n + 1, s, r, Updated(bar, Slot(log, n + 1, r), n + 1), cl \o c)
PROOF
<1>1. PICK all : all = cl \o c
  OBVIOUS
<1>2. /\ Len(cl) \in Nat /\ Len(c) \in Nat /\ Len(all) = Len(cl) + Len(c)
      /\ \A k \in 1 .. Len(cl) : all[k] = cl[k]
      /\ \A k \in 1 .. Len(c) : all[Len(cl) + k] = c[k]
  BY <1>1
<1>3. PICK i, z : i = n + 1 /\ z = Slot(log, n + 1, r)
  OBVIOUS
<1>4. i \in 1 .. Len(log) /\ i \in Nat /\ z \in Nat
  <2>1. n + 1 \in 1 .. Len(log)
    OBVIOUS
  <2> QED BY <1>3, <2>1, SlotType
<1>5. PICK u : u = Updated(bar, z, i)
  OBVIOUS
<1>6. /\ u \in BarTypes /\ u.bucket = z /\ u # NoBar
      /\ IF bar # NoBar /\ bar.bucket = z THEN u.trades = Append(bar.trades, i) ELSE u.trades = <<i>>
  <2>1. /\ Updated(bar, z, i) \in BarTypes /\ Updated(bar, z, i).bucket = z
        /\ IF bar # NoBar /\ bar.bucket = z THEN Updated(bar, z, i).trades = Append(bar.trades, i)
           ELSE Updated(bar, z, i).trades = <<i>>
    BY <1>4, UpdatedIs, ZenonT(30)
  <2>2. u \in BarTypes /\ u # NoBar
    BY <1>5, <2>1, NoBarIsNone
  <2> QED BY <1>5, <2>1, <2>2
<1>7. bar # NoBar => bar.bucket <= z /\ bar.bucket \in Nat
  BY <1>3, NotBefore
<1>8. \A q \in 1 .. n + 1 : q \in 1 .. n \/ q = i
  BY <1>3
\* The bars closed before, and the one closed now.
<1>9. ASSUME NEW k \in Mine(all, s, r)
      PROVE  \/ k \in Mine(cl, s, r) /\ all[k] = cl[k] /\ k <= Len(cl)
             \/ k > Len(cl) /\ all[k].bar = bar /\ bar # NoBar /\ bar.bucket < z
  <2>1. k \in 1 .. Len(all) /\ all[k].sym = s /\ all[k].res = r
    BY DEF Mine
  <2>2. CASE k > Len(cl)
    <3>1. k - Len(cl) \in 1 .. Len(c) /\ k = Len(cl) + (k - Len(cl))
      BY <1>2, <2>1, <2>2
    <3>2. PICK h \in 1 .. Len(c) : all[k] = c[h]
      BY <1>2, <3>1
    <3> QED BY <1>3, <2>1, <2>2, <3>2
  <2>3. CASE ~(k > Len(cl))
    <3>1. k \in 1 .. Len(cl) /\ all[k] = cl[k] /\ k <= Len(cl)
      BY <1>2, <2>1, <2>3
    <3> QED BY <2>1, <3>1 DEF Mine
  <2> QED BY <2>2, <2>3
<1>10. \A k \in Mine(cl, s, r) : k \in Mine(all, s, r) /\ all[k] = cl[k]
  <2> SUFFICES ASSUME NEW k \in Mine(cl, s, r) PROVE k \in Mine(all, s, r) /\ all[k] = cl[k]
    OBVIOUS
  <2>1. k \in 1 .. Len(cl) /\ cl[k].sym = s /\ cl[k].res = r
    BY DEF Mine
  <2>2. k \in 1 .. Len(all) /\ all[k] = cl[k]
    BY <1>2, <2>1
  <2> QED BY <2>1, <2>2 DEF Mine
<1>11. ASSUME bar # NoBar, bar.bucket < z PROVE \E k \in Mine(all, s, r) : all[k].bar = bar
  <2>1. Forward(bar, Slot(log, n + 1, r))
    BY <1>3, <1>11 DEF Forward
  <2>2. PICK h \in 1 .. Len(c) : c[h].res = r
    BY <2>1
  <2>3. c[h].sym = s /\ c[h].bar = bar
    BY <2>2
  <2>4. Len(cl) + h \in 1 .. Len(all) /\ all[Len(cl) + h] = c[h]
    BY <1>2
  <2>5. Len(cl) + h \in Mine(all, s, r)
    BY <2>2, <2>3, <2>4 DEF Mine
  <2> QED BY <2>3, <2>4, <2>5
<1>12. ASSUME NEW j \in Mine(all, s, r), NEW k \in Mine(all, s, r), j > Len(cl), k > Len(cl) PROVE j = k
  <2>1. j \in 1 .. Len(all) /\ k \in 1 .. Len(all) /\ all[j].res = all[k].res
    BY DEF Mine
  <2>2. PICK g, h : g = j - Len(cl) /\ h = k - Len(cl)
    OBVIOUS
  <2>3. g \in 1 .. Len(c) /\ h \in 1 .. Len(c) /\ j = Len(cl) + g /\ k = Len(cl) + h
    BY <1>2, <1>12, <2>1, <2>2
  <2>4. c[g].res = c[h].res
    BY <1>2, <2>1, <2>3
  <2>5. g = h
    BY <2>3, <2>4
  <2> QED BY <2>3, <2>5
\* What was so before.
<1>13. ASSUME NEW q \in 1 .. n, Whose(log, q) = s
       PROVE  /\ bar # NoBar /\ Slot(log, q, r) <= bar.bucket /\ Slot(log, q, r) \in Nat
              /\ Slot(log, q, r) = bar.bucket => \E h \in 1 .. Len(bar.trades) : bar.trades[h] = q
              /\ Slot(log, q, r) < bar.bucket => \E k \in Mine(cl, s, r) : cl[k].bar.bucket = Slot(log, q, r)
              /\ \A k \in Mine(cl, s, r) : Slot(log, q, r) = cl[k].bar.bucket =>
                   \E h \in 1 .. Len(cl[k].bar.trades) : cl[k].bar.trades[h] = q
  <2>1. q \in 1 .. Len(log)
    OBVIOUS
  <2> QED BY <1>13, <2>1, SlotType DEF Aggregated
<1>14. /\ \A k \in Mine(cl, s, r) : bar # NoBar /\ cl[k].bar.bucket < bar.bucket
       /\ \A j, k \in Mine(cl, s, r) : j < k => cl[j].bar.bucket < cl[k].bar.bucket
  BY DEF Aggregated
<1>15. \A k \in Mine(cl, s, r) : cl[k].bar.bucket \in Nat
  <2> SUFFICES ASSUME NEW k \in 1 .. Len(cl) PROVE cl[k].bar.bucket \in Nat
    BY DEF Mine
  <2>1. cl[k] \in ClosedTypes
    OBVIOUS
  <2> QED BY <2>1 DEF ClosedTypes, BarTypes
\* A bar closed before or now is of an earlier bucket.
<1>16. ASSUME NEW k \in Mine(all, s, r) PROVE all[k].bar.bucket < z /\ all[k].bar.bucket \in Nat
  <2>1. CASE k \in Mine(cl, s, r) /\ all[k] = cl[k]
    <3>1. cl[k].bar.bucket < bar.bucket /\ bar # NoBar /\ cl[k].bar.bucket \in Nat
      BY <1>14, <1>15, <2>1
    <3> QED BY <1>4, <1>7, <2>1, <3>1
  <2>2. CASE all[k].bar = bar /\ bar # NoBar /\ bar.bucket < z
    BY <1>7, <2>2
  <2> QED BY <1>9, <2>1, <2>2
<1>17. ASSUME NEW j \in Mine(all, s, r), NEW k \in Mine(all, s, r), j < k
       PROVE  all[j].bar.bucket < all[k].bar.bucket
  <2>1. j \in Nat /\ k \in Nat /\ Len(cl) \in Nat
    BY <1>2 DEF Mine
  <2>2. CASE k <= Len(cl)
    <3>1. k \in Mine(cl, s, r) /\ all[k] = cl[k] /\ j \in Mine(cl, s, r) /\ all[j] = cl[j]
      BY <1>9, <1>17, <2>1, <2>2
    <3> QED BY <1>14, <1>17, <3>1
  <2>3. CASE k > Len(cl)
    <3>1. all[k].bar = bar
      BY <1>9, <2>1, <2>3
    <3>2. j \in Mine(cl, s, r) /\ all[j] = cl[j]
      BY <1>9, <1>12, <1>17, <2>1, <2>3
    <3> QED BY <1>14, <3>1, <3>2
  <2> QED BY <2>1, <2>2, <2>3
\* The entry itself.
<1>18. \E h \in 1 .. Len(u.trades) : u.trades[h] = i
  <2>1. CASE bar # NoBar /\ bar.bucket = z
    <3>1. PICK t : t = bar.trades
      OBVIOUS
    <3>2. t \in Seq(Nat) /\ u.trades = Append(t, i)
      BY <1>6, <2>1, <3>1 DEF BarTypes
    <3>3. Len(t) + 1 \in 1 .. Len(u.trades) /\ u.trades[Len(t) + 1] = i
      BY <3>2
    <3> QED BY <3>3
  <2>2. CASE ~(bar # NoBar /\ bar.bucket = z)
    <3>1. u.trades = <<i>>
      BY <1>6, <2>2
    <3>2. 1 \in 1 .. Len(u.trades) /\ u.trades[1] = i
      BY <3>1
    <3> QED BY <3>2
  <2> QED BY <2>1, <2>2
<1>19. ASSUME NEW q \in 1 .. n + 1, Whose(log, q) = s
       PROVE  /\ u # NoBar /\ Slot(log, q, r) <= u.bucket
              /\ Slot(log, q, r) = u.bucket => \E h \in 1 .. Len(u.trades) : u.trades[h] = q
              /\ Slot(log, q, r) < u.bucket => \E k \in Mine(all, s, r) : all[k].bar.bucket = Slot(log, q, r)
              /\ \A k \in Mine(all, s, r) : Slot(log, q, r) = all[k].bar.bucket =>
                   \E h \in 1 .. Len(all[k].bar.trades) : all[k].bar.trades[h] = q
  <2>1. CASE q = i
    <3>1. Slot(log, q, r) = z
      BY <1>3, <2>1
    <3>2. \A k \in Mine(all, s, r) : Slot(log, q, r) # all[k].bar.bucket
      BY <1>4, <1>16, <3>1
    <3> QED BY <1>4, <1>6, <1>18, <2>1, <3>1, <3>2
  <2>2. CASE q \in 1 .. n
    <3>1. PICK y : y = Slot(log, q, r)
      OBVIOUS
    <3>2. /\ bar # NoBar /\ y <= bar.bucket /\ y \in Nat
          /\ y = bar.bucket => \E h \in 1 .. Len(bar.trades) : bar.trades[h] = q
          /\ y < bar.bucket => \E k \in Mine(cl, s, r) : cl[k].bar.bucket = y
          /\ \A k \in Mine(cl, s, r) : y = cl[k].bar.bucket =>
               \E h \in 1 .. Len(cl[k].bar.trades) : cl[k].bar.trades[h] = q
      BY <1>13, <1>19, <2>2, <3>1
    <3>3. bar.bucket <= z /\ bar.bucket \in Nat /\ y <= z
      BY <1>4, <1>7, <3>2
    <3>4. ASSUME y = u.bucket PROVE \E h \in 1 .. Len(u.trades) : u.trades[h] = q
      <4>1. bar.bucket = z /\ y = bar.bucket
        BY <1>4, <1>6, <3>2, <3>3, <3>4
      <4>2. PICK h \in 1 .. Len(bar.trades) : bar.trades[h] = q
        BY <3>2, <4>1
      <4>3. PICK t : t = bar.trades
        OBVIOUS
      <4>4. t \in Seq(Nat) /\ u.trades = Append(t, i) /\ h \in 1 .. Len(t) /\ t[h] = q
        BY <1>6, <3>2, <4>1, <4>2, <4>3 DEF BarTypes
      <4>5. h \in 1 .. Len(u.trades) /\ u.trades[h] = q
        BY <4>4
      <4> QED BY <4>5
    <3>5. ASSUME y < u.bucket PROVE \E k \in Mine(all, s, r) : all[k].bar.bucket = y
      <4>1. CASE y < bar.bucket
        BY <1>10, <3>2, <4>1
      <4>2. CASE y = bar.bucket
        <5>1. bar.bucket < z
          BY <1>6, <3>5, <4>2
        <5> QED BY <1>11, <3>2, <4>2, <5>1
      <4> QED BY <3>2, <3>3, <4>1, <4>2
    <3>6. ASSUME NEW k \in Mine(all, s, r), y = all[k].bar.bucket
          PROVE  \E h \in 1 .. Len(all[k].bar.trades) : all[k].bar.trades[h] = q
      <4>1. CASE k \in Mine(cl, s, r) /\ all[k] = cl[k]
        BY <3>2, <3>6, <4>1
      <4>2. CASE all[k].bar = bar
        BY <3>2, <3>6, <4>2
      <4> QED BY <1>9, <4>1, <4>2
    <3>7. u # NoBar /\ y <= u.bucket
      BY <1>6, <3>3
    <3> QED BY <3>1, <3>4, <3>5, <3>6, <3>7
  <2> QED BY <1>8, <2>1, <2>2
<1>20. \A k \in Mine(all, s, r) : u # NoBar /\ all[k].bar.bucket < u.bucket
  BY <1>6, <1>16
<1>21. Aggregated(log, n + 1, s, r, u, all)
  BY <1>17, <1>19, <1>20 DEF Aggregated
<1> QED BY <1>1, <1>3, <1>5, <1>21

AggregationInv ==
  faults = 0 /\ raw.first = 1 =>
    \A s \in Symbols, r \in Res : Sorted(raw.log, s) => Aggregated(raw.log, Done, s, r, bars[s][r], closed)

LEMMA SortedBefore ==
  ASSUME NEW log, NEW more, Extends(log, more), NEW s, Sorted(more, s)
  PROVE  Sorted(log, s)
PROOF
<1>1. Len(log) \in Nat /\ Len(more) \in Nat /\ Len(log) <= Len(more) /\ \A i \in 1 .. Len(log) : more[i] = log[i]
  BY DEF Extends
<1>2. \A i \in 1 .. Len(log) : i \in 1 .. Len(more) /\ Whose(more, i) = Whose(log, i)
  BY <1>1 DEF Whose
<1> QED BY <1>1, <1>2 DEF Sorted

LEMMA AggregationInit == FeedInit => AggregationInv
PROOF
<1> SUFFICES ASSUME FeedInit PROVE AggregationInv
  OBVIOUS
<1>1. Done = 0 /\ closed = << >>
  <2>1. build = [last |-> 0, pel |-> {}] /\ batch = << >> /\ closed = << >>
    BY DEF FeedInit, Init, GroupFromStart
  <2>2. build.last = 0 /\ Len(batch) = 0
    BY <2>1
  <2> QED BY <2>1, <2>2 DEF Done
<1>2. 1 .. Done = {} /\ \A s, r : Mine(closed, s, r) = {}
  BY <1>1 DEF Mine
<1> QED BY <1>2 DEF AggregationInv, Aggregated

\* The entry at the head of the batch.
LEMMA AggregationHandles ==
  ASSUME BuilderInv, AggregationInv, Process \/ ProcessFails
  PROVE  AggregationInv'
PROOF
<1>1. PICK n, m \in 0 .. Len(Resolutions) :
           /\ batch # << >> /\ batch' = Tail(batch) /\ UNCHANGED <<raw, build, ackable>>
           /\ faults' \in {faults, faults + 1}
           /\ faults' = 0 => n = Len(Resolutions) /\ m = Len(Resolutions)
           /\ bars' = Through(Head(batch), n) /\ closed' = closed \o Closings(Head(batch), m)
  BY ProcessHandles
<1>2. /\ Done' = Done + 1 /\ Done + 1 <= Len(raw.log)
      /\ \E s \in Symbols : \E c :
           /\ Whose(raw.log, Done + 1) = s /\ closed' = closed \o c
           /\ Handled(raw.log, Done + 1, s, faults' > 0, bars, bars', c)
  BY <1>1, BuilderHandles
<1>3. PICK s \in Symbols : \E c :
        /\ Whose(raw.log, Done + 1) = s /\ closed' = closed \o c
        /\ Handled(raw.log, Done + 1, s, faults' > 0, bars, bars', c)
  BY <1>2
<1>4. PICK c : /\ Whose(raw.log, Done + 1) = s /\ closed' = closed \o c
               /\ Handled(raw.log, Done + 1, s, faults' > 0, bars, bars', c)
  BY <1>3
<1> SUFFICES ASSUME faults' = 0, raw'.first = 1, NEW x \in Symbols, NEW r \in Res, Sorted(raw'.log, x)
             PROVE  Aggregated(raw.log, Done, x, r, bars[x][r], closed)'
  BY DEF AggregationInv
<1>5. /\ faults = 0 /\ raw.first = 1 /\ Sorted(raw.log, x) /\ raw' = raw
      /\ Aggregated(raw.log, Done, x, r, bars[x][r], closed)
  <2>1. faults = 0
    BY <1>1 DEF BuilderInv
  <2> QED BY <1>1, <2>1 DEF AggregationInv
<1>6. PICK log \in Seq(Trades), n0 \in Nat, cl \in Seq(ClosedTypes) : log = raw.log /\ n0 = Done /\ cl = closed
  BY DoneType DEF BuilderInv, RawType
<1>7. PICK bar \in BarTypes \cup {NoBar} : bar = bars[x][r]
  BY DEF BuilderInv, BarsType
<1>n. PICK new : new = bars'[x][r]
  OBVIOUS
<1>8. bar # NoBar => GoodBar(log, n0, x, r, bar)
  BY <1>6, <1>7 DEF BuilderInv, BarsGood
<1>9. n0 + 1 <= Len(log) /\ Whose(log, n0 + 1) = s /\ Sorted(log, x) /\ Aggregated(log, n0, x, r, bar, cl)
  BY <1>2, <1>4, <1>5, <1>6, <1>7
<1>10. /\ c \in Seq(ClosedTypes)
       /\ \A k \in 1 .. Len(c) :
            c[k].sym = s /\ c[k].bar = bars[s][c[k].res] /\ c[k].bar # NoBar
            /\ c[k].bar.bucket < Slot(log, n0 + 1, c[k].res)
       /\ \A j, k \in 1 .. Len(c) : c[j].res = c[k].res => j = k
       /\ x # s => new = bar
       /\ x = s => new = Updated(bar, Slot(log, n0 + 1, r), n0 + 1)
       /\ x = s /\ Forward(bar, Slot(log, n0 + 1, r)) => \E k \in 1 .. Len(c) : c[k].res = r
  <2>1. Handled(log, n0 + 1, s, faults' > 0, bars, bars', c)
    BY <1>4, <1>6
  <2>2. ~(faults' > 0)
    OBVIOUS
  <2>3. x # s => new = bar
    BY <1>7, <1>n, <2>1 DEF Handled
  <2>4. \A q \in Res :
          /\ bars'[s][q] = Updated(bars[s][q], Slot(log, n0 + 1, q), n0 + 1)
          /\ Forward(bars[s][q], Slot(log, n0 + 1, q)) => \E k \in 1 .. Len(c) : c[k].res = q
    BY <2>1, <2>2 DEF Handled
  <2>5. /\ c \in Seq(ClosedTypes)
        /\ \A k \in 1 .. Len(c) :
             c[k].sym = s /\ c[k].bar = bars[s][c[k].res] /\ c[k].bar # NoBar
             /\ c[k].bar.bucket < Slot(log, n0 + 1, c[k].res)
        /\ \A j, k \in 1 .. Len(c) : c[j].res = c[k].res => j = k
    BY <2>1 DEF Handled
  <2> QED BY <1>7, <1>n, <2>3, <2>4, <2>5
<1>11. Aggregated(log, n0 + 1, x, r, new, cl \o c)
  <2>1. CASE x = s
    <3>1. \A k \in 1 .. Len(c) : c[k].res = r => c[k].bar = bar /\ bar # NoBar /\ bar.bucket < Slot(log, n0 + 1, r)
      BY <1>7, <1>10, <2>1
    <3>2. Forward(bar, Slot(log, n0 + 1, r)) => \E k \in 1 .. Len(c) : c[k].res = r
      BY <1>10, <2>1
    <3>3. c \in Seq(ClosedTypes) /\ (\A k \in 1 .. Len(c) : c[k].sym = x)
          /\ (\A j, k \in 1 .. Len(c) : c[j].res = c[k].res => j = k)
      BY <1>10, <2>1
    <3>4. Whose(log, n0 + 1) = x /\ new = Updated(bar, Slot(log, n0 + 1, r), n0 + 1)
      BY <1>9, <1>10, <2>1
    <3> QED BY <1>8, <1>9, <3>1, <3>2, <3>3, <3>4, AggregatedHandled
  <2>2. CASE x # s
    <3>1. c \in Seq(ClosedTypes) /\ (\A k \in 1 .. Len(c) : c[k].sym # x) /\ Whose(log, n0 + 1) # x /\ new = bar
      BY <1>9, <1>10, <2>2
    <3> QED BY <1>9, <3>1, AggregatedOther
  <2> QED BY <2>1, <2>2
<1> QED BY <1>2, <1>4, <1>5, <1>6, <1>n, <1>11

\* Every other step.
LEMMA AggregationLater ==
  ASSUME BuilderInv, AggregationInv, faults' \in {faults, faults + 1}, Extends(raw.log, raw'.log),
         raw.first \in Nat \ {0}, raw'.first >= raw.first, raw'.first \in Nat,
         faults' = 0 /\ raw'.first = 1 => Done' = Done /\ UNCHANGED <<bars, closed>>
  PROVE  AggregationInv'
PROOF
<1> SUFFICES ASSUME faults' = 0, raw'.first = 1, NEW x \in Symbols, NEW r \in Res, Sorted(raw'.log, x)
             PROVE  Aggregated(raw.log, Done, x, r, bars[x][r], closed)'
  BY DEF AggregationInv
<1>1. faults = 0 /\ raw.first = 1
  BY DEF BuilderInv
<1>2. Sorted(raw.log, x)
  BY SortedBefore
<1>3. Aggregated(raw.log, Done, x, r, bars[x][r], closed)
  BY <1>1, <1>2 DEF AggregationInv
<1>4. PICK n \in Nat : n = Done
  BY DoneType DEF BuilderInv
<1>p. PICK bar, cl, log, more : bar = bars[x][r] /\ cl = closed /\ log = raw.log /\ more = raw'.log
  OBVIOUS
<1>5. n <= Len(log)
  <2>1. build.last \in Nat /\ build.last <= Len(raw.log) /\ Done <= build.last /\ Done \in Nat /\ Len(raw.log) \in Nat
    BY DoneType DEF BuilderInv, BuildType, RawType
  <2> QED BY <1>4, <1>p, <2>1
<1>6. Aggregated(more, n, x, r, bar, cl)
  <2>1. Extends(log, more) /\ Aggregated(log, n, x, r, bar, cl)
    BY <1>3, <1>4, <1>p
  <2> QED BY <1>5, <2>1, AggregatedGrows
<1> QED BY <1>4, <1>p, <1>6

LEMMA AggregationStep ==
  ASSUME BuilderInv, AggregationInv, [FeedNext]_feedVars, deployed \in Deployments
  PROVE  AggregationInv'
PROOF
<1>1. /\ raw.first \in Nat \ {0} /\ faults \in Nat /\ RawType /\ Done \in Nat
      /\ Extends(raw.log, raw.log)
  BY DoneType, ExtendsItself DEF BuilderInv, RawType
<1>2. CASE UNCHANGED <<raw, build, batch, bars, closed>> /\ faults' \in {faults, faults + 1}
  <2>1. Done' = Done
    BY <1>2 DEF Done
  <2> QED BY <1>1, <1>2, <2>1, AggregationLater
<1>3. CASE (\E t \in Trades : raw' \in Published(raw, t, Cap)) /\ UNCHANGED <<build, batch, bars, closed, faults>>
  <2>1. /\ RawType' /\ raw'.first >= raw.first /\ Len(raw'.log) = Len(raw.log) + 1
        /\ \A i \in DOMAIN raw.log : raw'.log[i] = raw.log[i]
    BY <1>1, <1>3, PublishGrows
  <2>2. Extends(raw.log, raw'.log) /\ raw'.first \in Nat
    <3>1. raw.log \in Seq(Trades) /\ raw'.log \in Seq(Trades) /\ raw'.first \in Nat
      BY <1>1, <2>1 DEF RawType
    <3> QED BY <2>1, <3>1 DEF Extends
  <2>3. Done' = Done
    BY <1>3 DEF Done
  <2> QED BY <1>1, <1>3, <2>1, <2>2, <2>3, AggregationLater
<1>4. CASE Read \/ ReadFails
  <2>1. PICK ids : ids = Ready(raw, build, ReadSize)
    OBVIOUS
  <2>2. /\ batch = << >> /\ ids # << >> /\ UNCHANGED <<raw, bars, closed>>
        /\ (faults' = faults /\ batch' = ids) \/ faults' = faults + 1
        /\ build' = Delivered(Acked(build, ackable), ids) \/ build' = Delivered(build, ids)
    BY <1>4, <2>1 DEF Read, ReadFails, Fault
  <2>3. raw.first = 1 => ids[Len(ids)] - Len(ids) = Done
    BY <2>1, <2>2, NextBatch
  <2>4. build'.last = ids[Len(ids)]
    BY <2>2 DEF Delivered
  <2>5. faults' = 0 /\ raw'.first = 1 => Done' = Done
    <3>1. faults + 1 # 0
      BY <1>1
    <3> QED BY <2>2, <2>3, <2>4, <3>1 DEF Done
  <2> QED BY <1>1, <2>2, <2>5, AggregationLater
<1>5. CASE Process \/ ProcessFails
  BY <1>5, AggregationHandles
<1>6. CASE BuilderCrash
  <2>1. faults' = faults + 1 /\ raw' = raw /\ faults' # 0
    BY <1>1, <1>6 DEF BuilderCrash, Fault
  <2> QED BY <1>1, <2>1, AggregationLater
<1> QED BY <1>2, <1>3, <1>4, <1>5, <1>6, BuilderSteps

\* The entries the builder has handled are the first ones, whether handed out, evicted
\* before it read them or lost with a reply.
LEMMA ProcessedAre == ASSUME BuilderInv PROVE Processed = 1 .. Done
PROOF
<1>1. /\ raw.log \in Seq(Trades) /\ batch \in Seq(Nat) /\ build.last \in Nat /\ build.last <= Len(raw.log)
      /\ Done = build.last - Len(batch) /\ Done \in Nat /\ Len(batch) \in Nat
      /\ \A k \in 1 .. Len(batch) : batch[k] = Done + k
  BY DoneType DEF BuilderInv, RawType, BuildType, BatchType, Done
<1>2. PICK n, l, d \in Nat : n = Len(batch) /\ l = build.last /\ d = Done
  BY <1>1
<1>3. l = d + n /\ ToSet(batch) = {d + k : k \in 1 .. n} /\ Entries = 1 .. Len(raw.log) /\ Len(raw.log) \in Nat
  <2>1. DOMAIN batch = 1 .. n /\ \A k \in 1 .. n : batch[k] = d + k
    BY <1>1, <1>2
  <2>2. ToSet(batch) = {d + k : k \in 1 .. n}
    BY <2>1 DEF ToSet
  <2>3. Entries = 1 .. Len(raw.log) /\ Len(raw.log) \in Nat
    BY <1>1 DEF Entries
  <2>4. l = d + n
    BY <1>1, <1>2
  <2> QED BY <2>2, <2>3, <2>4
<1>4. \A i \in Entries : i <= l => (i \notin ToSet(batch) <=> i <= d)
  <2> SUFFICES ASSUME NEW i \in 1 .. Len(raw.log), i <= l PROVE i \notin ToSet(batch) <=> i <= d
    BY <1>3
  <2>1. CASE i <= d
    <3>1. \A k \in 1 .. n : i # d + k
      BY <1>3, <2>1
    <3> QED BY <1>3, <2>1, <3>1
  <2>2. CASE ~(i <= d)
    <3>1. i - d \in 1 .. n /\ i = d + (i - d)
      BY <1>3, <2>2
    <3> QED BY <1>3, <2>2, <3>1
  <2> QED BY <2>1, <2>2
<1>5. l <= Len(raw.log) /\ d <= l
  BY <1>1, <1>2, <1>3
<1>6. Processed = {i \in Entries : i <= l /\ i \notin ToSet(batch)}
  BY <1>2 DEF Processed, HandedOut
<1>7. \A i : i \in Processed <=> i \in 1 .. d
  <2>1. \A i \in 1 .. d : i \in Entries /\ i <= l
    BY <1>3, <1>5
  <2>2. \A i \in Processed : i \in 1 .. Len(raw.log) /\ i <= d
    BY <1>3, <1>4, <1>6
  <2>3. Processed \subseteq 1 .. d
    BY <2>2
  <2>4. 1 .. d \subseteq Processed
    <3>1. \A i \in 1 .. d : i \notin ToSet(batch)
      BY <1>4, <2>1
    <3> QED BY <1>6, <2>1, <3>1
  <2> QED BY <2>3, <2>4
<1> QED BY <1>2, <1>7

LEMMA AggregationShown == ASSUME BuilderInv, AggregationInv PROVE BarsAreTheAggregation
PROOF
<1> SUFFICES ASSUME faults = 0, NEW s \in Symbols, InOrder(s), NEW r \in Res
             PROVE  LET mine == {k \in DOMAIN closed : closed[k].sym = s /\ closed[k].res = r}
                        last == IF bars[s][r] = NoBar THEN -1 ELSE bars[s][r].bucket
                    IN /\ \A k \in mine : ToSet(closed[k].bar.trades) = TradesIn(s, r, closed[k].bar.bucket)
                       /\ \A j, k \in mine : j < k => closed[j].bar.bucket < closed[k].bar.bucket
                       /\ \A i \in Processed : SymbolAt(i) = s /\ Bucket(i, r) < last =>
                            \E k \in mine : closed[k].bar.bucket = Bucket(i, r)
  BY DEF BarsAreTheAggregation
<1>1. /\ raw.log \in Seq(Trades) /\ closed \in Seq(ClosedTypes) /\ Done \in Nat /\ Done <= Len(raw.log)
      /\ Len(raw.log) \in Nat /\ DOMAIN closed = 1 .. Len(closed) /\ Entries = 1 .. Len(raw.log)
  <2>1. raw.log \in Seq(Trades) /\ closed \in Seq(ClosedTypes) /\ build.last \in Nat /\ build.last <= Len(raw.log)
        /\ Done \in Nat /\ Done <= build.last
    BY DoneType DEF BuilderInv, RawType, BuildType
  <2> QED BY <2>1 DEF Entries
<1>2. raw.first = 1 /\ Sorted(raw.log, s)
  BY <1>1, SlotIs DEF InOrder, Sorted
<1>3. Aggregated(raw.log, Done, s, r, bars[s][r], closed)
  BY <1>2 DEF AggregationInv
<1>4. {k \in DOMAIN closed : closed[k].sym = s /\ closed[k].res = r} = Mine(closed, s, r)
  BY <1>1 DEF Mine
<1>5. Processed = 1 .. Done
  BY ProcessedAre
<1>6. \A i : SymbolAt(i) = Whose(raw.log, i) /\ Bucket(i, r) = Slot(raw.log, i, r)
  BY SlotIs
<1>7. ASSUME NEW k \in Mine(closed, s, r)
      PROVE  ToSet(closed[k].bar.trades) = TradesIn(s, r, closed[k].bar.bucket)
  <2>1. k \in 1 .. Len(closed) /\ closed[k].sym = s /\ closed[k].res = r
    BY DEF Mine
  <2>2. GoodBar(raw.log, Done, s, r, closed[k].bar)
    BY <2>1 DEF BuilderInv, BarsGood
  <2>3. PICK bar : bar = closed[k].bar
    OBVIOUS
  <2>4. /\ bar.trades \in Seq(Nat)
        /\ \A h \in 1 .. Len(bar.trades) : /\ bar.trades[h] \in 1 .. Done /\ Whose(raw.log, bar.trades[h]) = s
                                           /\ Slot(raw.log, bar.trades[h], r) = bar.bucket
    BY <2>2, <2>3 DEF GoodBar, BarTypes
  <2>5. \A i \in 1 .. Done : Whose(raw.log, i) = s /\ Slot(raw.log, i, r) = bar.bucket =>
          \E h \in 1 .. Len(bar.trades) : bar.trades[h] = i
    BY <1>3, <2>3 DEF Aggregated
  <2>6. ToSet(bar.trades) = {bar.trades[h] : h \in 1 .. Len(bar.trades)}
    BY <2>4 DEF ToSet
  <2>7. TradesIn(s, r, bar.bucket) = {i \in 1 .. Done : Whose(raw.log, i) = s /\ Slot(raw.log, i, r) = bar.bucket}
    BY <1>5, <1>6 DEF TradesIn
  <2>8. \A i : i \in ToSet(bar.trades) <=> i \in TradesIn(s, r, bar.bucket)
    BY <2>4, <2>5, <2>6, <2>7
  <2>9. TradesIn(s, r, bar.bucket) \subseteq 1 .. Done /\ ToSet(bar.trades) \subseteq 1 .. Done
    BY <2>4, <2>6, <2>7
  <2> QED BY <2>3, <2>8
<1>8. \A j, k \in Mine(closed, s, r) : j < k => closed[j].bar.bucket < closed[k].bar.bucket
  BY <1>3 DEF Aggregated
<1>9. ASSUME NEW i \in 1 .. Done, Whose(raw.log, i) = s,
             Slot(raw.log, i, r) < (IF bars[s][r] = NoBar THEN -1 ELSE bars[s][r].bucket)
      PROVE  \E k \in Mine(closed, s, r) : closed[k].bar.bucket = Slot(raw.log, i, r)
  <2>1. bars[s][r] # NoBar
    BY <1>3, <1>9 DEF Aggregated
  <2>2. Slot(raw.log, i, r) < bars[s][r].bucket
    BY <1>9, <2>1
  <2> QED BY <1>3, <1>9, <2>2 DEF Aggregated
<1> QED BY <1>4, <1>5, <1>6, <1>7, <1>8, <1>9

\* While nothing fails, of a symbol whose trades come in the order of time the closed
\* bars are one per bucket that is over, in order, with all the trades of the bucket
\* (process_trade, the aggregation of bar_builder/main.py).
THEOREM BarsAggregate == FeedSpec => []BarsAreTheAggregation
PROOF
<1>1. FeedInit => BuilderInv /\ AggregationInv /\ Inv
  BY BuilderInit, AggregationInit, InvInit
<1>2. BuilderInv /\ AggregationInv /\ Inv /\ [FeedNext]_feedVars => BuilderInv' /\ AggregationInv' /\ Inv'
  <2>1. Inv => deployed \in Deployments
    BY DEF Inv, WorkerInv
  <2> QED BY <2>1, BuilderStepKeeps, AggregationStep, InvStep
<1>3. BuilderInv /\ AggregationInv => BarsAreTheAggregation
  BY AggregationShown
<1> QED BY <1>1, <1>2, <1>3, PTL DEF FeedSpec

(***************************************************************************)
(* Types.                                                                  *)
(***************************************************************************)
WorkerTypes ==
  /\ raw.first <= Len(raw.log) + 1 /\ listed \subseteq Symbols /\ cache \subseteq Symbols
  /\ turn \in {"consume", "flush"} /\ table \subseteq Trades /\ skipped \subseteq Entries
BuilderTypes == ToSet(batch) \subseteq ackable /\ ackable \subseteq build.pel
Types == WorkerTypes /\ BuilderTypes /\ faults \in 0 .. MaxFaults

LEMMA CommittedTypes == ASSUME Inv, WorkerTypes, Committed PROVE table' \subseteq Trades /\ skipped' \subseteq Entries
PROOF
<1>1. raw.log \in Seq(Trades) /\ ToSet(buffer) \subseteq 1 .. store.last /\ store.last \in Nat /\ store.last <= Len(raw.log)
  BY DEF Inv, WorkerInv, RawType, StoreType
<1>2. Entries = 1 .. Len(raw.log) /\ Len(raw.log) \in Nat /\ \A i \in Entries : raw.log[i] \in Trades
  BY <1>1 DEF Entries
<1>3. ToSet(buffer) \subseteq Entries
  BY <1>1, <1>2
<1>4. Rows \subseteq Trades /\ Skipped \subseteq Entries
  BY <1>2, <1>3 DEF Rows, Skipped
<1> QED BY <1>4 DEF Committed, WorkerTypes

LEMMA TypesInit == FeedInit => Types
PROOF
<1> SUFFICES ASSUME FeedInit PROVE Types
  OBVIOUS
<1>1. WorkerTypes
  <2>1. raw.first = 1 /\ Len(raw.log) = 0
    BY DEF FeedInit, Init, NoEntries
  <2> QED BY <2>1 DEF FeedInit, Init, WorkerTypes, Symbols
<1>2. BuilderTypes
  BY DEF FeedInit, Init, GroupFromStart, BuilderTypes, ToSet
<1>3. faults \in 0 .. MaxFaults
  BY StreamsAssumption DEF FeedInit, Init
<1> QED BY <1>1, <1>2, <1>3 DEF Types

LEMMA WorkerTypesStep == ASSUME Inv, WorkerTypes, [FeedNext]_feedVars PROVE WorkerTypes'
PROOF
<1>1. CASE Publish
  <2>1. /\ RawType /\ Feed[deployed] \subseteq Trades /\ Cap \in Nat \ {0} /\ Len(raw.log) \in Nat /\ raw.first \in Nat \ {0}
    BY StreamsAssumption DEF Inv, WorkerInv, RawType
  <2>2. PICK t \in Feed[deployed] : raw' \in Published(raw, t, Cap)
    BY <1>1 DEF Publish
  <2>3. RawType' /\ Len(raw'.log) = Len(raw.log) + 1 /\ \A i \in DOMAIN raw.log : i \in DOMAIN raw'.log
    BY <2>1, <2>2, PublishGrows
  <2>4. raw'.first = raw.first \/ raw'.first \in raw.first .. (Len(raw.log) + 2 - Cap)
    BY <2>2 DEF Published
  <2>5. raw'.first <= Len(raw'.log) + 1
    <3>1. raw.first <= Len(raw.log) + 1
      BY DEF WorkerTypes
    <3> QED BY <2>1, <2>3, <2>4, <3>1
  <2>6. Entries \subseteq Entries'
    BY <2>3 DEF Entries
  <2> QED BY <1>1, <2>5, <2>6 DEF Publish, WorkerTypes
<1>2. CASE Discover
  BY <1>2 DEF Discover, WorkerTypes, Symbols, Entries
<1>3. CASE Consume
  BY <1>3 DEF Consume, WorkerTypes, Entries
<1>4. CASE ConsumeFails
  BY <1>4 DEF ConsumeFails, WorkerTypes, Entries
<1>5. CASE Flush
  BY <1>5, CommittedTypes DEF Flush, WorkerTypes, Entries
<1>6. CASE FlushFails
  BY <1>6 DEF FlushFails, WorkerTypes, Entries
<1>7. CASE AckFails
  BY <1>7, CommittedTypes DEF AckFails, WorkerTypes, Entries
<1>8. CASE WorkerCrash
  BY <1>8 DEF WorkerCrash, WorkerTypes, Entries
<1>9. CASE Refresh
  BY <1>9 DEF Refresh, WorkerTypes, Entries
<1>10. CASE UNCHANGED <<raw, listed, cache, turn, table, skipped>>
  BY <1>10 DEF WorkerTypes, Entries
<1>11. CASE BuilderStep
  BY <1>10, <1>11 DEF BuilderStep, Read, ReadFails, Process, ProcessFails, BuilderCrash
<1>12. CASE FeedStep
  BY <1>10, <1>12 DEF FeedStep, RunnerStarts, StartSession, StopSession, RouterReads, RouteBar,
                      OnClosedBar, OnClosedBarFails, RunnerDies
<1>13. CASE UNCHANGED feedVars
  BY <1>10, <1>13 DEF feedVars, vars
<1> QED BY <1>1, <1>2, <1>3, <1>4, <1>5, <1>6, <1>7, <1>8, <1>9, <1>11, <1>12, <1>13
           DEF FeedNext, Next, WorkerStep

LEMMA BuilderTypesStep ==
  ASSUME BuilderInv, BuilderTypes, [FeedNext]_feedVars, deployed \in Deployments PROVE BuilderTypes'
PROOF
<1>1. CASE UNCHANGED <<build, batch, ackable>>
  BY <1>1 DEF BuilderTypes
<1>2. CASE Read
  <2>1. PICK ids : /\ ids # << >> /\ batch' = ids /\ ackable' = ToSet(ids)
                   /\ \/ build' = Delivered(Acked(build, ackable), ids)
                      \/ build' = Delivered(build, ids)
    BY <1>2 DEF Read
  <2>2. ToSet(ids) \subseteq build'.pel
    BY <2>1 DEF Delivered, ToSet
  <2> QED BY <2>1, <2>2 DEF BuilderTypes
<1>3. CASE ReadFails \/ BuilderCrash
  <2>1. batch' = << >> /\ ackable' = {}
    BY <1>3 DEF ReadFails, BuilderCrash
  <2> QED BY <2>1 DEF BuilderTypes, ToSet
<1>4. CASE Process \/ ProcessFails
  <2>1. batch # << >> /\ batch' = Tail(batch) /\ UNCHANGED <<build, ackable>> /\ batch \in Seq(Nat)
    BY <1>4 DEF Process, ProcessFails, BuilderInv, BatchType
  <2>2. ToSet(batch') \subseteq ToSet(batch)
    <3>1. /\ Len(batch') = Len(batch) - 1 /\ DOMAIN batch' = 1 .. Len(batch') /\ DOMAIN batch = 1 .. Len(batch)
          /\ \A k \in 1 .. Len(batch') : batch'[k] = batch[k + 1] /\ k + 1 \in 1 .. Len(batch)
      BY <2>1
    <3> QED BY <3>1 DEF ToSet
  <2> QED BY <2>1, <2>2 DEF BuilderTypes
<1> QED BY <1>1, <1>2, <1>3, <1>4, BuilderSteps

LEMMA FaultsStep == ASSUME faults \in 0 .. MaxFaults, [FeedNext]_feedVars PROVE faults' \in 0 .. MaxFaults
PROOF
<1>1. MaxFaults \in Nat
  BY StreamsAssumption
<1>2. Fault => faults' \in 0 .. MaxFaults
  BY <1>1 DEF Fault
<1>3. faults' = faults \/ Fault
  <2>1. CASE Publish \/ Discover
    BY <2>1 DEF Publish, Discover
  <2>2. CASE WorkerStep
    BY <2>2 DEF WorkerStep, Consume, ConsumeFails, Flush, FlushFails, AckFails, WorkerCrash, Refresh
  <2>3. CASE BuilderStep
    BY <2>3 DEF BuilderStep, Read, ReadFails, Process, ProcessFails, BuilderCrash
  <2>4. CASE FeedStep
    BY <2>4 DEF FeedStep, RunnerStarts, StartSession, StopSession, RouterReads, RouteBar,
                OnClosedBar, OnClosedBarFails, RunnerDies
  <2>5. CASE UNCHANGED feedVars
    BY <2>5 DEF feedVars, vars
  <2> QED BY <2>1, <2>2, <2>3, <2>4, <2>5 DEF FeedNext, Next
<1> QED BY <1>2, <1>3

LEMMA TypesShown == ASSUME Inv, BuilderInv, Types PROVE TypeOK
PROOF
<1>1. raw.first \in 1 .. Len(raw.log) + 1
  BY DEF Inv, WorkerInv, RawType, Types, WorkerTypes
<1>2. ToSet(buffer) \subseteq store.pel /\ store.pel \subseteq 1 .. store.last /\ deployed \in Deployments
  BY DEF Inv, WorkerInv
<1>3. \A k \in DOMAIN closed : closed[k].bar # NoBar
  <2>1. \A k \in DOMAIN closed : closed[k] \in ClosedTypes
    BY DEF BuilderInv
  <2> QED BY <2>1, NoBarIsNone DEF ClosedTypes
<1> QED BY <1>1, <1>2, <1>3 DEF TypeOK, Types, WorkerTypes, BuilderTypes

\* The types; what is buffered by the worker or still to be processed by the builder is
\* unacknowledged.
THEOREM StreamTypes == FeedSpec => []TypeOK
PROOF
<1>1. FeedInit => Inv /\ BuilderInv /\ Types
  BY InvInit, BuilderInit, TypesInit
<1>2. Inv /\ BuilderInv /\ Types /\ [FeedNext]_feedVars => Inv' /\ BuilderInv' /\ Types'
  <2>1. Inv => deployed \in Deployments
    BY DEF Inv, WorkerInv
  <2> QED BY <2>1, InvStep, BuilderStepKeeps, WorkerTypesStep, BuilderTypesStep, FaultsStep DEF Types
<1>3. Inv /\ BuilderInv /\ Types => TypeOK
  BY TypesShown
<1> QED BY <1>1, <1>2, <1>3, PTL DEF FeedSpec

(***************************************************************************)
(* The router and the sessions.                                            *)
(***************************************************************************)
\* The time of a closed bar and whether a session subscribes to it.
BarTime(cl, k) == cl[k].bar.bucket * Width[cl[k].res]
Asks(cl, s, k) == cl[k].sym \in Follows[s] /\ cl[k].res = At[s]

LEMMA TimeIs == ASSUME NEW k PROVE Time(k) = BarTime(closed, k) /\ \A s : Wants(s, k) <=> Asks(closed, s, k)
BY DEF Time, BarTime, Wants, Asks

LEMMA BarTimeType ==
  ASSUME NEW cl \in Seq(ClosedTypes), NEW k \in 1 .. Len(cl)
  PROVE  BarTime(cl, k) \in Nat
PROOF
<1>1. cl[k] \in ClosedTypes
  OBVIOUS
<1>2. cl[k].bar.bucket \in Nat /\ cl[k].res \in Res
  BY <1>1 DEF ClosedTypes, BarTypes
<1>3. PICK x \in Nat, y \in Nat : x = cl[k].bar.bucket /\ y = Width[cl[k].res]
  BY <1>2, ResWidth
<1>4. x * y \in Nat
  OBVIOUS
<1> QED BY <1>3, <1>4 DEF BarTime

\* More closed bars.
Follow(cl, more) == /\ cl \in Seq(ClosedTypes) /\ more \in Seq(ClosedTypes) /\ Len(cl) <= Len(more)
                    /\ \A k \in 1 .. Len(cl) : more[k] = cl[k]

RanTypes == [bar : Nat, latest : Int]
BaseTypes == [next : Nat, after : Int]

\* Bar k was dispatched to session s, loaded before bar next: of the bars up to cur, which
\* the sessions of rcv have still to be given.
Given(cl, s, next, cur, rcv, k) == k \in next .. cur /\ Asks(cl, s, k) /\ ~(k = cur /\ s \in rcv)

\* What session s, loaded as b says and with watermark w, has done with the bars: on_bar ran
\* for rn, and ms are lost or raised.
Driven(cl, s, b, w, rn, ms, cur, rcv) ==
  /\ \A j \in 1 .. Len(rn) : Given(cl, s, b.next, cur, rcv, rn[j].bar)
  /\ w = IF Len(rn) = 0 THEN b.after ELSE BarTime(cl, rn[Len(rn)].bar)
  /\ \A j, k \in 1 .. Len(rn) : j < k => BarTime(cl, rn[j].bar) < BarTime(cl, rn[k].bar)
  /\ \A k \in b.next .. cur : Given(cl, s, b.next, cur, rcv, k) /\ k \notin ms =>
       \/ BarTime(cl, k) <= b.after
       \/ \E j \in 1 .. Len(rn) : rn[j].bar = k
       \/ \E j \in 1 .. Len(rn) : rn[j].bar < k /\ BarTime(cl, rn[j].bar) >= BarTime(cl, k)

LEMMA DrivenLoaded ==
  ASSUME NEW cl, NEW s, NEW b \in BaseTypes, NEW rn, rn = << >>, NEW ms, NEW cur \in Nat, b.next > cur, NEW rcv
  PROVE  Driven(cl, s, b, b.after, rn, ms, cur, rcv)
PROOF
<1>1. Len(rn) = 0 /\ b.next \in Nat
  BY DEF BaseTypes
<1>2. b.next .. cur = {}
  BY <1>1
<1> QED BY <1>1, <1>2 DEF Driven

LEMMA DrivenGrows ==
  ASSUME NEW cl, NEW more, Follow(cl, more), NEW s, NEW b \in BaseTypes, b.next # 0, NEW w, NEW rn \in Seq(RanTypes),
         NEW ms, NEW wider, ms \subseteq wider, NEW cur \in Nat, cur <= Len(cl), NEW rcv,
         Driven(cl, s, b, w, rn, ms, cur, rcv)
  PROVE  Driven(more, s, b, w, rn, wider, cur, rcv)
PROOF
<1>1. b.next \in Nat \ {0} /\ Len(rn) \in Nat /\ Len(cl) \in Nat
  BY DEF BaseTypes, Follow
<1>2. ASSUME NEW k \in b.next .. cur
      PROVE  BarTime(more, k) = BarTime(cl, k) /\ (Asks(more, s, k) <=> Asks(cl, s, k))
  <2>1. k \in 1 .. Len(cl)
    BY <1>1
  <2>2. more[k] = cl[k]
    BY <2>1 DEF Follow
  <2> QED BY <2>2 DEF BarTime, Asks
<1>3. \A k : Given(more, s, b.next, cur, rcv, k) <=> Given(cl, s, b.next, cur, rcv, k)
  BY <1>2 DEF Given
<1>4. \A j \in 1 .. Len(rn) : rn[j].bar \in b.next .. cur
  BY DEF Driven, Given
<1>5. \A j \in 1 .. Len(rn) : BarTime(more, rn[j].bar) = BarTime(cl, rn[j].bar)
  BY <1>2, <1>4
<1>6. Len(rn) # 0 => Len(rn) \in 1 .. Len(rn)
  BY <1>1
<1>7. \A j \in 1 .. Len(rn) : Given(more, s, b.next, cur, rcv, rn[j].bar)
  BY <1>3 DEF Driven
<1>8. w = IF Len(rn) = 0 THEN b.after ELSE BarTime(more, rn[Len(rn)].bar)
  BY <1>5, <1>6 DEF Driven
<1>9. \A j, k \in 1 .. Len(rn) : j < k => BarTime(more, rn[j].bar) < BarTime(more, rn[k].bar)
  BY <1>5 DEF Driven
<1>10. ASSUME NEW k \in b.next .. cur, Given(more, s, b.next, cur, rcv, k), k \notin wider
       PROVE  \/ BarTime(more, k) <= b.after
              \/ \E j \in 1 .. Len(rn) : rn[j].bar = k
              \/ \E j \in 1 .. Len(rn) : rn[j].bar < k /\ BarTime(more, rn[j].bar) >= BarTime(more, k)
  <2>1. \/ BarTime(cl, k) <= b.after
        \/ \E j \in 1 .. Len(rn) : rn[j].bar = k
        \/ \E j \in 1 .. Len(rn) : rn[j].bar < k /\ BarTime(cl, rn[j].bar) >= BarTime(cl, k)
    BY <1>3, <1>10 DEF Driven
  <2> QED BY <1>2, <1>5, <2>1
<1> QED BY <1>7, <1>8, <1>9, <1>10 DEF Driven

\* The next bar is dispatched: to s too, if it asks for it; of those passed over in a lost
\* read, s has missed the ones it asks for.
LEMMA DrivenRouted ==
  ASSUME NEW cl, NEW s, NEW b \in BaseTypes, NEW w, NEW rn \in Seq(RanTypes), NEW ms, NEW cur \in Nat, NEW rcv,
         s \notin rcv, Driven(cl, s, b, w, rn, ms, cur, rcv), NEW next \in Nat, next > cur, NEW to,
         Asks(cl, s, next) => s \in to,
         \A k \in b.next .. (next - 1) : k > cur /\ Asks(cl, s, k) => k \in ms
  PROVE  Driven(cl, s, b, w, rn, ms, next, to)
PROOF
<1>1. b.next \in Nat
  BY DEF BaseTypes
<1>2. \A k \in b.next .. cur : k \in b.next .. next /\ k # next
  BY <1>1
<1>3. \A k \in b.next .. next : k \in b.next .. cur \/ k = next \/ (k \in b.next .. (next - 1) /\ k > cur)
  BY <1>1
<1>4. \A k : Given(cl, s, b.next, cur, rcv, k) => Given(cl, s, b.next, next, to, k)
  BY <1>2 DEF Given
<1>5. \A k \in b.next .. next : Given(cl, s, b.next, next, to, k) /\ k \notin ms => Given(cl, s, b.next, cur, rcv, k)
  BY <1>3 DEF Given
<1>6. \A k : Given(cl, s, b.next, cur, rcv, k) => k \in b.next .. cur
  BY DEF Given
<1> QED BY <1>4, <1>5, <1>6 DEF Driven

\* Session s is given the bar: on_bar runs, the bar is passed over, or it raises.
LEMMA DrivenGiven ==
  ASSUME NEW cl \in Seq(ClosedTypes), NEW s, NEW b \in BaseTypes, b.next # 0, NEW w, NEW rn \in Seq(RanTypes), NEW ms,
         NEW cur \in Nat, cur <= Len(cl), NEW rcv, s \in rcv, Driven(cl, s, b, w, rn, ms, cur, rcv),
         b.next <= cur, Asks(cl, s, cur), NEW to, s \notin to, NEW x \in Int
  PROVE  /\ BarTime(cl, cur) > w =>
              Driven(cl, s, b, BarTime(cl, cur), Append(rn, [bar |-> cur, latest |-> x]), ms, cur, to)
         /\ BarTime(cl, cur) <= w => Driven(cl, s, b, w, rn, ms, cur, to)
         /\ Driven(cl, s, b, w, rn, ms \cup {cur}, cur, to)
PROOF
<1>1. b.next \in Nat \ {0} /\ b.after \in Int /\ Len(rn) \in Nat /\ \A j \in 1 .. Len(rn) : rn[j].bar \in Nat
  <2>1. \A j \in 1 .. Len(rn) : rn[j] \in RanTypes
    OBVIOUS
  <2> QED BY <2>1 DEF BaseTypes, RanTypes
<1>2. cur \in b.next .. cur /\ \A k \in b.next .. cur : k \in 1 .. Len(cl)
  BY <1>1
<1>3. \A k \in b.next .. cur : BarTime(cl, k) \in Nat
  BY <1>2, BarTimeType
<1>4. \A k : Given(cl, s, b.next, cur, to, k) <=> Given(cl, s, b.next, cur, rcv, k) \/ k = cur
  BY <1>2 DEF Given
<1>5. \A j \in 1 .. Len(rn) : /\ Given(cl, s, b.next, cur, rcv, rn[j].bar) /\ rn[j].bar \in b.next .. cur
                              /\ rn[j].bar # cur /\ rn[j].bar < cur
  <2>1. \A j \in 1 .. Len(rn) : /\ Given(cl, s, b.next, cur, rcv, rn[j].bar) /\ rn[j].bar \in b.next .. cur
                                /\ rn[j].bar # cur
    BY DEF Driven, Given
  <2> QED BY <1>1, <2>1
<1>6. /\ w = IF Len(rn) = 0 THEN b.after ELSE BarTime(cl, rn[Len(rn)].bar)
      /\ \A j, k \in 1 .. Len(rn) : j < k => BarTime(cl, rn[j].bar) < BarTime(cl, rn[k].bar)
      /\ \A k \in b.next .. cur : Given(cl, s, b.next, cur, rcv, k) /\ k \notin ms =>
           \/ BarTime(cl, k) <= b.after
           \/ \E j \in 1 .. Len(rn) : rn[j].bar = k
           \/ \E j \in 1 .. Len(rn) : rn[j].bar < k /\ BarTime(cl, rn[j].bar) >= BarTime(cl, k)
  BY DEF Driven
<1>7. ASSUME NEW wider, ms \subseteq wider,
             \/ cur \in wider
             \/ BarTime(cl, cur) <= b.after
             \/ \E j \in 1 .. Len(rn) : rn[j].bar < cur /\ BarTime(cl, rn[j].bar) >= BarTime(cl, cur)
      PROVE  Driven(cl, s, b, w, rn, wider, cur, to)
  BY <1>4, <1>5, <1>6, <1>7 DEF Driven
<1>8. ASSUME BarTime(cl, cur) <= w PROVE Driven(cl, s, b, w, rn, ms, cur, to)
  <2>1. CASE Len(rn) = 0
    BY <1>6, <1>7, <1>8, <2>1
  <2>2. CASE Len(rn) # 0
    <3>1. Len(rn) \in 1 .. Len(rn)
      BY <1>1, <2>2
    <3>2. rn[Len(rn)].bar < cur /\ BarTime(cl, rn[Len(rn)].bar) = w /\ w \in Nat /\ BarTime(cl, cur) \in Nat
      BY <1>2, <1>3, <1>5, <1>6, <2>2, <3>1
    <3>3. BarTime(cl, rn[Len(rn)].bar) >= BarTime(cl, cur)
      BY <1>8, <3>2
    <3> QED BY <1>7, <3>1, <3>2, <3>3
  <2> QED BY <2>1, <2>2
<1>9. Driven(cl, s, b, w, rn, ms \cup {cur}, cur, to)
  BY <1>7
<1>10. ASSUME BarTime(cl, cur) > w
       PROVE  Driven(cl, s, b, BarTime(cl, cur), Append(rn, [bar |-> cur, latest |-> x]), ms, cur, to)
  <2>1. PICK m, new, e : m = Len(rn) /\ e = [bar |-> cur, latest |-> x] /\ new = Append(rn, e)
    OBVIOUS
  <2>2. /\ m \in Nat /\ Len(new) = m + 1 /\ new[m + 1].bar = cur
        /\ \A j \in 1 .. m : new[j] = rn[j]
    BY <2>1
  <2>3. \A j \in 1 .. m + 1 : j \in 1 .. m \/ j = m + 1
    BY <2>2
  <2>4. m + 1 \in 1 .. m + 1 /\ m + 1 # 0
    BY <2>2
  <2>5. \A j \in 1 .. m + 1 : Given(cl, s, b.next, cur, to, new[j].bar)
    BY <1>4, <1>5, <2>1, <2>2, <2>3
  <2>6. \A j \in 1 .. m : BarTime(cl, rn[j].bar) < BarTime(cl, cur)
    <3> SUFFICES ASSUME NEW j \in 1 .. m PROVE BarTime(cl, rn[j].bar) < BarTime(cl, cur)
      OBVIOUS
    <3>1. m \in 1 .. m /\ m # 0 /\ w = BarTime(cl, rn[m].bar)
      BY <1>6, <2>1, <2>2
    <3>2. j = m \/ BarTime(cl, rn[j].bar) < BarTime(cl, rn[m].bar)
      BY <1>6, <2>1, <2>2, <3>1
    <3>3. BarTime(cl, rn[j].bar) \in Nat /\ BarTime(cl, rn[m].bar) \in Nat /\ BarTime(cl, cur) \in Nat
      BY <1>2, <1>3, <1>5, <2>1, <3>1
    <3> QED BY <1>10, <3>1, <3>2, <3>3
  <2>7. \A j, k \in 1 .. m + 1 : j < k => BarTime(cl, new[j].bar) < BarTime(cl, new[k].bar)
    <3> SUFFICES ASSUME NEW j \in 1 .. m + 1, NEW k \in 1 .. m + 1, j < k
                 PROVE  BarTime(cl, new[j].bar) < BarTime(cl, new[k].bar)
      OBVIOUS
    <3>1. j \in 1 .. m
      BY <2>2
    <3>2. CASE k \in 1 .. m
      BY <1>6, <2>1, <2>2, <3>1, <3>2
    <3>3. CASE k = m + 1
      BY <2>2, <2>6, <3>1, <3>3
    <3> QED BY <2>3, <3>2, <3>3
  <2>8. ASSUME NEW k \in b.next .. cur, Given(cl, s, b.next, cur, to, k), k \notin ms
        PROVE  \/ BarTime(cl, k) <= b.after
               \/ \E j \in 1 .. m + 1 : new[j].bar = k
               \/ \E j \in 1 .. m + 1 : new[j].bar < k /\ BarTime(cl, new[j].bar) >= BarTime(cl, k)
    <3>1. CASE k = cur
      BY <2>2, <2>4, <3>1
    <3>2. CASE k # cur
      <4>1. \/ BarTime(cl, k) <= b.after
            \/ \E j \in 1 .. m : rn[j].bar = k
            \/ \E j \in 1 .. m : rn[j].bar < k /\ BarTime(cl, rn[j].bar) >= BarTime(cl, k)
        BY <1>4, <1>6, <2>1, <2>8, <3>2
      <4>2. \A j \in 1 .. m : j \in 1 .. m + 1 /\ new[j].bar = rn[j].bar
        BY <2>2
      <4> QED BY <4>1, <4>2
    <3> QED BY <3>1, <3>2
  <2>9. Driven(cl, s, b, BarTime(cl, cur), new, ms, cur, to)
    BY <2>2, <2>4, <2>5, <2>7, <2>8 DEF Driven
  <2> QED BY <2>1, <2>9
<1> QED BY <1>8, <1>9, <1>10

GroupTypes == [last : Nat, pel : SUBSET Nat]

\* The last bar of those before what is still to be dispatched.
Ahead(group, rest) == IF group = NoGroup THEN 0 ELSE group.last - Len(rest)

FeedTypes ==
  /\ runner \in {"down", "up", "deaf"} /\ routed \in GroupTypes \cup {NoGroup}
  /\ unrouted \in Seq(Nat) /\ current \in Nat /\ receivers \subseteq Sessions /\ registry \subseteq Sessions
  /\ row \in [Sessions -> {"new", "active", "over"}]
  /\ saved \in [Sessions -> Int] /\ watermark \in [Sessions -> Int] /\ latest \in [Sessions -> Int]
  /\ ran \in [Sessions -> Seq(RanTypes)] /\ base \in [Sessions -> BaseTypes] /\ missed \in [Sessions -> SUBSET Nat]

RouterInv ==
  /\ routed # NoGroup => /\ routed.last <= Len(closed) /\ Len(unrouted) <= routed.last
                         /\ \A k \in 1 .. Len(unrouted) : unrouted[k] = Ahead(routed, unrouted) + k
  /\ runner = "up" => routed # NoGroup
  /\ runner # "up" => unrouted = << >> /\ receivers = {}
  /\ runner = "down" => registry = {}
  /\ current <= Ahead(routed, unrouted)
  /\ \A s \in receivers : Asks(closed, s, current) /\ row[s] # "new" /\ base[s].next <= current /\ current # 0
  /\ \A s \in registry : row[s] # "new" /\ base[s].next # 0

\* A loaded session is given every bar it asks for from base.next on: of the ones before
\* the next to be dispatched it has had or missed them all.
SessionInv(s) ==
  /\ runner = "up" =>
       /\ base[s].next <= Ahead(routed, unrouted) + 1
       /\ \A k \in base[s].next .. Ahead(routed, unrouted) : k > current /\ Asks(closed, s, k) => k \in missed[s]
  /\ Driven(closed, s, base[s], watermark[s], ran[s], missed[s], current, receivers)

FeedInv == FeedTypes /\ RouterInv /\ \A s \in registry : SessionInv(s)

LEMMA AheadType ==
  ASSUME BuilderInv, FeedTypes, RouterInv
  PROVE  /\ Ahead(routed, unrouted) \in Nat /\ Ahead(routed, unrouted) <= Len(closed) /\ Len(closed) \in Nat
         /\ routed # NoGroup => routed \in GroupTypes /\ routed.last \in Nat /\ routed.last <= Len(closed)
                                /\ Ahead(routed, unrouted) = routed.last - Len(unrouted)
         /\ current \in Nat /\ current <= Len(closed) /\ Len(unrouted) \in Nat
PROOF
<1>1. closed \in Seq(ClosedTypes) /\ Len(closed) \in Nat /\ Len(unrouted) \in Nat /\ current \in Nat
  BY DEF BuilderInv, FeedTypes
<1>2. CASE routed = NoGroup
  <2>1. Ahead(routed, unrouted) = 0 /\ current <= Ahead(routed, unrouted)
    BY <1>2 DEF Ahead, RouterInv
  <2> QED BY <1>1, <1>2, <2>1
<1>3. CASE routed # NoGroup
  <2>1. routed \in GroupTypes /\ routed.last <= Len(closed) /\ Len(unrouted) <= routed.last
        /\ current <= Ahead(routed, unrouted)
    BY <1>3 DEF FeedTypes, RouterInv
  <2>2. routed.last \in Nat
    BY <2>1 DEF GroupTypes
  <2>3. Ahead(routed, unrouted) = routed.last - Len(unrouted)
    BY <1>3 DEF Ahead
  <2> QED BY <1>1, <2>1, <2>2, <2>3
<1> QED BY <1>2, <1>3

LEMMA FeedInit2 == FeedInit => FeedInv
PROOF
<1> SUFFICES ASSUME FeedInit PROVE FeedInv
  OBVIOUS
<1>1. FeedTypes
  BY DEF FeedInit, FeedTypes, NoTime, NoBase, BaseTypes
<1>2. RouterInv
  <2>1. Ahead(routed, unrouted) = 0
    BY DEF FeedInit, Ahead
  <2> QED BY <2>1 DEF FeedInit, RouterInv
<1>3. registry = {}
  BY DEF FeedInit
<1> QED BY <1>1, <1>2, <1>3 DEF FeedInv

(***************************************************************************)
(* The builder and the worker beside them.                                 *)
(***************************************************************************)
LEMMA ClosedFollows ==
  ASSUME BuilderInv, [FeedNext]_feedVars, deployed \in Deployments
  PROVE  Follow(closed, closed')
PROOF
<1>1. closed \in Seq(ClosedTypes) /\ Len(closed) \in Nat
  BY DEF BuilderInv
<1>2. CASE closed' = closed
  BY <1>1, <1>2 DEF Follow
<1>3. CASE Process \/ ProcessFails
  <2>1. PICK n, m \in 0 .. Len(Resolutions) :
           /\ batch # << >> /\ batch' = Tail(batch) /\ UNCHANGED <<raw, build, ackable>>
           /\ faults' \in {faults, faults + 1}
           /\ faults' = 0 => n = Len(Resolutions) /\ m = Len(Resolutions)
           /\ bars' = Through(Head(batch), n) /\ closed' = closed \o Closings(Head(batch), m)
    BY <1>3, ProcessHandles
  <2>2. \E s \in Symbols : \E c :
          /\ Whose(raw.log, Done + 1) = s /\ closed' = closed \o c
          /\ Handled(raw.log, Done + 1, s, faults' > 0, bars, bars', c)
    BY <2>1, BuilderHandles
  <2>3. PICK c : closed' = closed \o c /\ c \in Seq(ClosedTypes)
    BY <2>2 DEF Handled
  <2> QED BY <1>1, <2>3 DEF Follow
<1> QED BY <1>2, <1>3, BuilderSteps DEF Read, ReadFails, BuilderCrash

LEMMA FeedGrows ==
  ASSUME BuilderInv, FeedInv, Follow(closed, closed'), UNCHANGED <<router, session>>
  PROVE  FeedInv'
PROOF
<1>1. Len(closed) \in Nat /\ Len(closed') \in Nat /\ Len(closed) <= Len(closed') /\ current \in Nat /\ current <= Len(closed)
  BY AheadType DEF Follow, FeedInv
<1>2. FeedTypes'
  BY DEF FeedInv, FeedTypes
<1>3. \A k \in 1 .. Len(closed) : \A s : Asks(closed', s, k) <=> Asks(closed, s, k)
  BY DEF Follow, Asks
<1>4. RouterInv'
  <2>1. routed # NoGroup => routed.last \in Nat /\ routed.last <= Len(closed)
    BY AheadType DEF FeedInv
  <2>2. \A s \in receivers : Asks(closed', s, current)
    <3>1. \A s \in receivers : Asks(closed, s, current) /\ current # 0
      BY DEF FeedInv, RouterInv
    <3> QED BY <1>1, <1>3, <3>1
  <2>3. routed # NoGroup => routed.last <= Len(closed')
    BY <1>1, <2>1
  <2> QED BY <2>2, <2>3 DEF FeedInv, RouterInv
<1>5. ASSUME NEW s \in registry PROVE SessionInv(s)'
  <2>1. s \in Sessions /\ base[s] \in BaseTypes /\ base[s].next # 0 /\ ran[s] \in Seq(RanTypes)
        /\ Driven(closed, s, base[s], watermark[s], ran[s], missed[s], current, receivers)
    BY <1>5 DEF FeedInv, FeedTypes, RouterInv, SessionInv
  <2>2. missed[s] \subseteq missed[s]
    OBVIOUS
  <2>3. Driven(closed', s, base[s], watermark[s], ran[s], missed[s], current, receivers)
    BY <1>1, <2>1, <2>2, DrivenGrows
  <2>4. ASSUME runner = "up", NEW k \in base[s].next .. Ahead(routed, unrouted), k > current, Asks(closed', s, k)
        PROVE  k \in missed[s]
    <3>1. Ahead(routed, unrouted) \in Nat /\ Ahead(routed, unrouted) <= Len(closed) /\ base[s].next \in Nat
      BY <2>1, AheadType DEF FeedInv, BaseTypes
    <3>2. k \in 1 .. Len(closed)
      BY <1>1, <2>4, <3>1
    <3>3. Asks(closed, s, k)
      BY <1>3, <2>4, <3>2
    <3> QED BY <1>5, <2>4, <3>3 DEF FeedInv, SessionInv
  <2>5. runner = "up" => base[s].next <= Ahead(routed, unrouted) + 1
    BY <1>5 DEF FeedInv, SessionInv
  <2> QED BY <2>3, <2>4, <2>5 DEF SessionInv
<1> QED BY <1>2, <1>4, <1>5 DEF FeedInv

(***************************************************************************)
(* Loading.                                                                *)
(***************************************************************************)
LEMMA NewestType ==
  ASSUME BuilderInv, NEW s \in Sessions, NEW n \in 0 .. Len(raw.log) PROVE NewestStored(s, n) \in Int
PROOF
<1>1. raw.log \in Seq(Trades) /\ Len(raw.log) \in Nat /\ n \in Nat /\ At[s] \in Res
  BY BarFeedAssumption DEF BuilderInv, RawType
<1>2. ASSUME NEW i \in 1 .. n PROVE Bucket(i, At[s]) * Width[At[s]] \in Nat
  <2>1. i \in 1 .. Len(raw.log)
    BY <1>1
  <2>2. Slot(raw.log, i, At[s]) \in Nat
    BY <1>1, <2>1, SlotType
  <2>3. PICK x \in Nat, y \in Nat : x = Slot(raw.log, i, At[s]) /\ y = Width[At[s]]
    BY <1>1, <2>2, ResWidth
  <2>4. x * y \in Nat
    OBVIOUS
  <2> QED BY <2>3, <2>4, SlotIs
<1>3. PICK f : f = [i \in 1 .. n |-> IF SymbolAt(i) \in Follows[s] THEN Bucket(i, At[s]) * Width[At[s]] ELSE NoTime]
  OBVIOUS
<1>4. NoTime \in Int
  BY DEF NoTime
<1>5. \A i \in 1 .. n : f[i] \in Int
  BY <1>2, <1>3, <1>4
<1>6. PICK all : all = {Bucket(i, At[s]) * Width[At[s]] : i \in {j \in 1 .. n : SymbolAt(j) \in Follows[s]}} \cup {NoTime}
  OBVIOUS
<1>7. PICK m \in Nat, e \in Int : m = n /\ e = NoTime
  BY <1>1, <1>4
<1>8. \A i \in 1 .. m : f[i] \in Int
  BY <1>5, <1>7
<1>9. \A x : x \in all <=> x = e \/ \E i \in 1 .. m : SymbolAt(i) \in Follows[s] /\ x = Bucket(i, At[s]) * Width[At[s]]
  BY <1>6, <1>7
<1>10. \A i \in 1 .. m : f[i] = IF SymbolAt(i) \in Follows[s] THEN Bucket(i, At[s]) * Width[At[s]] ELSE e
  BY <1>3, <1>7
<1>11. \A x : x \in all <=> x = e \/ \E i \in 1 .. m : x = f[i]
  BY <1>9, <1>10
<1>12. Max(all) \in Int
  BY <1>8, <1>11, LargestValue
<1> QED BY <1>6, <1>12 DEF NewestStored

LEMMA LoadedIs ==
  ASSUME BuilderInv, FeedTypes, NEW S, S \subseteq Sessions, NEW k \in Nat, Loaded(S, k)
  PROVE  /\ registry' = registry \cup S /\ saved' = saved
         /\ watermark' \in [Sessions -> Int] /\ latest' \in [Sessions -> Int] /\ ran' \in [Sessions -> Seq(RanTypes)]
         /\ base' \in [Sessions -> BaseTypes] /\ missed' \in [Sessions -> SUBSET Nat]
         /\ \A s \in S : base'[s].next = k /\ watermark'[s] = base'[s].after /\ ran'[s] = << >>
         /\ \A s \in Sessions \ S : base'[s] = base[s] /\ watermark'[s] = watermark[s] /\ ran'[s] = ran[s]
                                    /\ missed'[s] = missed[s]
PROOF
<1>1. PICK n \in 0 .. Len(raw.log) :
        LET With(f, g) == [s \in Sessions |-> IF s \in S THEN g[s] ELSE f[s]]
            stored == [s \in S |-> NewestStored(s, n)]
        IN /\ registry' = registry \cup S
           /\ latest' = With(latest, stored) /\ UNCHANGED saved
           /\ watermark' = With(watermark, [s \in S |-> Anchored(s, stored[s])])
           /\ ran' = With(ran, [s \in S |-> << >>]) /\ missed' = With(missed, [s \in S |-> {}])
           /\ base' = With(base, [s \in S |->
                [next |-> k, after |-> IF saved[s] = NoTime THEN stored[s] ELSE saved[s]]])
  BY DEF Loaded
<1>2. PICK stored : stored = [s \in S |-> NewestStored(s, n)]
  OBVIOUS
<1>3. /\ registry' = registry \cup S /\ saved' = saved
      /\ latest' = [s \in Sessions |-> IF s \in S THEN stored[s] ELSE latest[s]]
      /\ watermark' = [s \in Sessions |-> IF s \in S THEN Anchored(s, stored[s]) ELSE watermark[s]]
      /\ ran' = [s \in Sessions |-> IF s \in S THEN << >> ELSE ran[s]]
      /\ missed' = [s \in Sessions |-> IF s \in S THEN {} ELSE missed[s]]
      /\ base' = [s \in Sessions |-> IF s \in S THEN [next |-> k, after |-> IF saved[s] = NoTime THEN stored[s] ELSE saved[s]]
                                     ELSE base[s]]
  BY <1>1, <1>2
<1>4. \A s \in S : stored[s] \in Int
  BY <1>2, NewestType
<1>5. /\ saved \in [Sessions -> Int] /\ watermark \in [Sessions -> Int] /\ latest \in [Sessions -> Int]
      /\ ran \in [Sessions -> Seq(RanTypes)] /\ base \in [Sessions -> BaseTypes] /\ missed \in [Sessions -> SUBSET Nat]
  BY DEF FeedTypes
<1>6. \A s \in S : (IF saved[s] = NoTime THEN stored[s] ELSE saved[s]) \in Int
                   /\ Anchored(s, stored[s]) = IF saved[s] = NoTime THEN stored[s] ELSE saved[s]
  BY <1>4, <1>5 DEF Anchored
<1>7. watermark' \in [Sessions -> Int] /\ latest' \in [Sessions -> Int]
  BY <1>3, <1>4, <1>5, <1>6
<1>8. ran' \in [Sessions -> Seq(RanTypes)] /\ missed' \in [Sessions -> SUBSET Nat]
  BY <1>3, <1>5
<1>9. base' \in [Sessions -> BaseTypes]
  <2>1. \A s \in S : [next |-> k, after |-> IF saved[s] = NoTime THEN stored[s] ELSE saved[s]] \in BaseTypes
    BY <1>6 DEF BaseTypes
  <2> QED BY <1>3, <1>5, <2>1
<1>10. \A s \in S : base'[s].next = k /\ watermark'[s] = base'[s].after /\ ran'[s] = << >>
  BY <1>3, <1>6
<1>11. \A s \in Sessions \ S : base'[s] = base[s] /\ watermark'[s] = watermark[s] /\ ran'[s] = ran[s]
                               /\ missed'[s] = missed[s]
  BY <1>3
<1> QED BY <1>3, <1>7, <1>8, <1>9, <1>10, <1>11

\* The sessions of S are loaded: none of them had a bar to come.
LEMMA LoadedKeeps ==
  ASSUME BuilderInv, FeedInv, NEW S, S \subseteq Sessions, S \cap registry = {}, S \cap receivers = {},
         NEW k \in Nat, k > current, Loaded(S, k), closed' = closed, current' = current, receivers' = receivers,
         \/ runner' # "up"
         \/ /\ runner' = "up" /\ Ahead(routed', unrouted') = Ahead(routed, unrouted) /\ k = Ahead(routed, unrouted) + 1
            /\ runner = "up" \/ registry = {}
  PROVE  \A s \in registry' : SessionInv(s)'
PROOF
<1>1. FeedTypes /\ RouterInv /\ current \in Nat
  BY DEF FeedInv, FeedTypes
<1>2. PICK more, wm, r, b, ms : more = registry' /\ wm = watermark' /\ r = ran' /\ b = base' /\ ms = missed'
  OBVIOUS
<1>3. /\ more = registry \cup S /\ b \in [Sessions -> BaseTypes]
      /\ \A s \in S : b[s].next = k /\ wm[s] = b[s].after /\ r[s] = << >>
      /\ \A s \in Sessions \ S : b[s] = base[s] /\ wm[s] = watermark[s] /\ r[s] = ran[s] /\ ms[s] = missed[s]
  <2>1. registry' = registry \cup S /\ base' \in [Sessions -> BaseTypes]
    BY <1>1, LoadedIs
  <2>2. \A s \in S : base'[s].next = k /\ watermark'[s] = base'[s].after /\ ran'[s] = << >>
    BY <1>1, LoadedIs
  <2>3. \A s \in Sessions \ S : base'[s] = base[s] /\ watermark'[s] = watermark[s] /\ ran'[s] = ran[s]
                                  /\ missed'[s] = missed[s]
    BY <1>1, LoadedIs
  <2> QED BY <1>2, <2>1, <2>2, <2>3
<1>4. registry \subseteq Sessions
  BY <1>1 DEF FeedTypes
<1>5. ASSUME NEW s \in S PROVE SessionInv(s)'
  <2>1. b[s] \in BaseTypes /\ b[s].next = k /\ b[s].next > current /\ wm[s] = b[s].after /\ r[s] = << >>
    BY <1>3, <1>5
  <2>2. Driven(closed, s, b[s], b[s].after, r[s], ms[s], current, receivers)
    BY <1>1, <2>1, DrivenLoaded
  <2>3. CASE runner' # "up"
    BY <1>2, <2>1, <2>2, <2>3 DEF SessionInv
  <2>4. CASE runner' = "up"
    <3>1. PICK a : a = Ahead(routed, unrouted)
      OBVIOUS
    <3>2. a \in Nat /\ k = a + 1 /\ Ahead(routed', unrouted') = a
      BY <1>1, <2>4, <3>1, AheadType
    <3>3. k .. a = {}
      BY <3>2
    <3> QED BY <1>2, <2>1, <2>2, <3>2, <3>3 DEF SessionInv
  <2> QED BY <2>3, <2>4
<1>6. ASSUME NEW s \in registry, s \notin S PROVE SessionInv(s)'
  <2>1. SessionInv(s) /\ s \in Sessions \ S
    BY <1>4, <1>6 DEF FeedInv
  <2>2. b[s] = base[s] /\ wm[s] = watermark[s] /\ r[s] = ran[s] /\ ms[s] = missed[s]
    BY <1>3, <2>1
  <2>3. Driven(closed, s, b[s], wm[s], r[s], ms[s], current, receivers)
    BY <2>1, <2>2 DEF SessionInv
  <2>4. CASE runner' # "up"
    BY <1>2, <2>3, <2>4 DEF SessionInv
  <2>5. CASE runner' = "up"
    <3>1. runner = "up" /\ Ahead(routed', unrouted') = Ahead(routed, unrouted)
      BY <1>6, <2>5
    <3> QED BY <1>2, <2>1, <2>2, <2>3, <3>1 DEF SessionInv
  <2> QED BY <2>4, <2>5
<1> QED BY <1>2, <1>3, <1>5, <1>6

LEMMA RunnerStartsKeeps ==
  ASSUME BuilderInv, FeedInv, RunnerStarts PROVE FeedInv'
PROOF
<1>1. PICK S, from : /\ S = {s \in Sessions : row[s] = "active"}
                     /\ from = IF routed = NoGroup THEN GroupFromNow(BarStream) ELSE routed
  OBVIOUS
<1>2. /\ runner = "down" /\ Loaded(S, from.last + 1)
      /\ \/ runner' = "up" /\ routed' = from
         \/ runner' = "deaf" /\ routed' = routed
      /\ UNCHANGED <<raw, closed, unrouted, current, receivers, row>>
  BY <1>1 DEF RunnerStarts, builder
<1>3. FeedTypes /\ RouterInv /\ registry = {} /\ unrouted = << >> /\ receivers = {}
  BY <1>2 DEF FeedInv, RouterInv
<1>4. Len(closed) \in Nat /\ current \in Nat
  BY <1>3, AheadType
<1>5. from \in GroupTypes /\ from.last \in Nat /\ from.last <= Len(closed) /\ current <= from.last /\ from # NoGroup
  <2>1. CASE routed = NoGroup
    <3>1. from = [last |-> Len(closed), pel |-> {}]
      BY <1>1, <2>1 DEF GroupFromNow, BarStream
    <3>2. current <= 0
      BY <1>3, <2>1 DEF RouterInv, Ahead
    <3>3. from \in GroupTypes /\ from.last = Len(closed)
      BY <1>4, <3>1 DEF GroupTypes
    <3> QED BY <1>4, <3>2, <3>3, BarFeedAssumption DEF GroupTypes
  <2>2. CASE routed # NoGroup
    <3>1. Ahead(routed, unrouted) = routed.last
      BY <1>3, <2>2, AheadType
    <3> QED BY <1>1, <1>3, <2>2, <3>1, AheadType DEF RouterInv
  <2> QED BY <2>1, <2>2
<1>6. Ahead(from, unrouted) = from.last
  BY <1>3, <1>5 DEF Ahead
<1>7. PICK k \in Nat : k = from.last + 1
  BY <1>5
<1>8. S \subseteq Sessions /\ k > current /\ Loaded(S, k) /\ k # 0
  BY <1>1, <1>2, <1>4, <1>5, <1>7
<1>9. /\ registry' = S /\ saved' = saved
      /\ watermark' \in [Sessions -> Int] /\ latest' \in [Sessions -> Int] /\ ran' \in [Sessions -> Seq(RanTypes)]
      /\ base' \in [Sessions -> BaseTypes] /\ missed' \in [Sessions -> SUBSET Nat]
      /\ \A s \in S : base'[s].next = k /\ watermark'[s] = base'[s].after /\ ran'[s] = << >>
  <2>1. registry \cup S = S
    BY <1>3
  <2> QED BY <1>3, <1>8, <2>1, LoadedIs
<1>10. FeedTypes'
  BY <1>2, <1>3, <1>5, <1>8, <1>9 DEF FeedTypes
<1>11. RouterInv'
  <2>1. \A s \in S : row[s] # "new"
    BY <1>1
  <2>2. \A s \in registry' : row'[s] # "new" /\ base'[s].next # 0
    BY <1>2, <1>8, <1>9, <2>1
  <2>3. /\ runner' = "up" => routed' # NoGroup
        /\ runner' # "down"
        /\ unrouted' = << >> /\ receivers' = {}
    BY <1>2, <1>3, <1>5
  <2>4. Len(unrouted') = 0
    BY <2>3
  <2>5. current' <= Ahead(routed', unrouted')
    <3>1. CASE routed' = from
      BY <1>2, <1>5, <1>6, <3>1
    <3>2. CASE routed' = routed
      BY <1>2, <1>3, <3>2 DEF RouterInv
    <3> QED BY <1>2, <3>1, <3>2
  <2>6. routed' # NoGroup => routed'.last <= Len(closed') /\ 0 <= routed'.last
    <3>1. CASE routed' = from
      BY <1>2, <1>5, <3>1
    <3>2. CASE routed' = routed
      BY <1>2, <1>3, <3>2, AheadType
    <3> QED BY <1>2, <3>1, <3>2
  <2> QED BY <2>2, <2>3, <2>4, <2>5, <2>6 DEF RouterInv
<1>12. \A s \in registry' : SessionInv(s)'
  <2> SUFFICES ASSUME NEW s \in registry' PROVE SessionInv(s)'
    OBVIOUS
  <2>1. PICK b, w, r, ms : b = base'[s] /\ w = watermark'[s] /\ r = ran'[s] /\ ms = missed'[s]
    OBVIOUS
  <2>2. s \in Sessions /\ s \in S
    BY <1>8, <1>9
  <2>3. b \in BaseTypes /\ b.next = k /\ w = b.after /\ r = << >>
    BY <1>9, <2>1, <2>2
  <2>4. Driven(closed, s, b, b.after, r, ms, current, receivers)
    BY <1>4, <1>8, <2>3, DrivenLoaded
  <2>5. runner' = "up" => Ahead(routed', unrouted') = from.last
    BY <1>2, <1>6
  <2>6. k .. from.last = {} /\ k = from.last + 1
    BY <1>5, <1>7
  <2> QED BY <1>2, <1>5, <2>1, <2>3, <2>4, <2>5, <2>6 DEF SessionInv
<1> QED BY <1>10, <1>11, <1>12 DEF FeedInv

LEMMA StartSessionKeeps ==
  ASSUME BuilderInv, FeedInv, NEW s \in Sessions, StartSession(s) PROVE FeedInv'
PROOF
<1>1. PICK k : k = IF unrouted # << >> THEN Head(unrouted)
                   ELSE IF routed = NoGroup THEN Len(closed) + 1 ELSE routed.last + 1
  OBVIOUS
<1>2. /\ runner # "down" /\ row[s] = "new" /\ row' = [row EXCEPT ![s] = "active"]
      /\ Loaded({s}, k)
      /\ UNCHANGED <<raw, closed, runner, routed, unrouted, current, receivers>>
  BY <1>1 DEF StartSession, builder, router
<1>3. FeedTypes /\ RouterInv
  BY DEF FeedInv
<1>4. s \notin registry /\ s \notin receivers
  BY <1>2, <1>3 DEF RouterInv
<1>5. PICK a \in Nat, n \in Nat, c \in Nat : a = Ahead(routed, unrouted) /\ n = Len(closed) /\ c = current
                                             /\ c <= a /\ a <= n
  BY <1>3, AheadType DEF RouterInv
<1>6. runner = "up" => routed # NoGroup
  BY <1>3 DEF RouterInv
<1>7. k \in Nat /\ k > current /\ (runner = "up" => k = Ahead(routed, unrouted) + 1)
  <2>1. CASE unrouted # << >>
    <3>1. runner = "up" /\ routed # NoGroup
      BY <1>3, <2>1 DEF RouterInv
    <3>2. unrouted \in Seq(Nat) /\ 1 \in 1 .. Len(unrouted) /\ Head(unrouted) = unrouted[1]
      BY <1>3, <2>1 DEF FeedTypes
    <3>3. unrouted[1] = Ahead(routed, unrouted) + 1
      BY <1>3, <3>1, <3>2 DEF RouterInv
    <3>4. k = Head(unrouted)
      BY <1>1, <2>1, Zenon
    <3>5. k = a + 1
      BY <1>5, <3>2, <3>3, <3>4
    <3> QED BY <1>5, <3>5
  <2>2. CASE unrouted = << >> /\ routed = NoGroup
    <3>1. k = Len(closed) + 1
      BY <1>1, <2>2, Zenon
    <3>2. k = n + 1
      BY <1>5, <3>1
    <3> QED BY <1>5, <1>6, <2>2, <3>2
  <2>3. CASE unrouted = << >> /\ routed # NoGroup
    <3>1. PICK l \in Nat : l = routed.last /\ Ahead(routed, unrouted) = l - Len(unrouted)
      BY <1>3, <2>3, AheadType
    <3>2. Len(unrouted) = 0
      BY <2>3
    <3>3. a = l
      BY <1>5, <3>1, <3>2
    <3>4. k = routed.last + 1
      BY <1>1, <2>3, Zenon
    <3>5. k = a + 1
      BY <3>1, <3>3, <3>4
    <3> QED BY <1>5, <3>5
  <2> QED BY <2>1, <2>2, <2>3
<1>8. {s} \subseteq Sessions /\ {s} \cap registry = {} /\ {s} \cap receivers = {}
  BY <1>4
<1>9. /\ registry' = registry \cup {s} /\ saved' = saved
      /\ watermark' \in [Sessions -> Int] /\ latest' \in [Sessions -> Int] /\ ran' \in [Sessions -> Seq(RanTypes)]
      /\ base' \in [Sessions -> BaseTypes] /\ missed' \in [Sessions -> SUBSET Nat]
      /\ base'[s].next = k
      /\ \A u \in Sessions \ {s} : base'[u] = base[u]
  <2>1. registry' = registry \cup {s}
    BY <1>2, <1>3, <1>7, <1>8, LoadedIs
  <2>2. \A u \in {s} : base'[u].next = k /\ watermark'[u] = base'[u].after /\ ran'[u] = << >>
    BY <1>2, <1>3, <1>7, <1>8, LoadedIs
  <2>4. \A u \in Sessions \ {s} : /\ base'[u] = base[u] /\ watermark'[u] = watermark[u] /\ ran'[u] = ran[u]
                                   /\ missed'[u] = missed[u]
    BY <1>2, <1>3, <1>7, <1>8, LoadedIs
  <2>3. /\ saved' = saved
        /\ watermark' \in [Sessions -> Int] /\ latest' \in [Sessions -> Int] /\ ran' \in [Sessions -> Seq(RanTypes)]
        /\ base' \in [Sessions -> BaseTypes] /\ missed' \in [Sessions -> SUBSET Nat]
    BY <1>2, <1>3, <1>7, <1>8, LoadedIs
  <2> QED BY <2>1, <2>2, <2>3, <2>4
<1>10. row' \in [Sessions -> {"new", "active", "over"}] /\ row'[s] = "active"
       /\ \A u \in Sessions \ {s} : row'[u] = row[u]
  BY <1>2, <1>3 DEF FeedTypes
<1>11. FeedTypes'
  <2>1. registry' \subseteq Sessions
    BY <1>3, <1>9 DEF FeedTypes
  <2> QED BY <1>2, <1>3, <1>9, <1>10, <2>1 DEF FeedTypes
<1>12. RouterInv'
  <2>1. registry \subseteq Sessions /\ receivers \subseteq Sessions
    BY <1>3 DEF FeedTypes
  <2>2. \A u \in registry' : row'[u] # "new" /\ base'[u].next # 0
    <3>1. PICK b, r, more : b = base' /\ r = row' /\ more = registry'
      OBVIOUS
    <3>2. r[s] = "active" /\ b[s].next # 0
      <4>1. k # 0
        BY <1>5, <1>7
      <4> QED BY <1>9, <1>10, <3>1, <4>1
    <3>3. \A u \in registry : u \in Sessions \ {s} /\ row[u] # "new" /\ base[u].next # 0
      BY <1>3, <1>4, <2>1 DEF RouterInv
    <3>4. \A u \in registry : r[u] # "new" /\ b[u].next # 0
      BY <1>9, <1>10, <3>1, <3>3
    <3> QED BY <1>9, <3>1, <3>2, <3>4
  <2>3. \A u \in receivers : Asks(closed, u, current) /\ row'[u] # "new" /\ base'[u].next <= current /\ current # 0
    <3>1. \A u \in receivers : u \in Sessions \ {s} /\ Asks(closed, u, current) /\ row[u] # "new"
                               /\ base[u].next <= current /\ current # 0
      BY <1>3, <1>4, <2>1 DEF RouterInv
    <3> QED BY <1>9, <1>10, <3>1
  <2> QED BY <1>2, <1>3, <2>2, <2>3 DEF RouterInv
<1>13. \A u \in registry' : SessionInv(u)'
  BY <1>2, <1>5, <1>7, <1>8, LoadedKeeps
<1> QED BY <1>11, <1>12, <1>13 DEF FeedInv

LEMMA StopSessionKeeps ==
  ASSUME FeedInv, NEW s \in Sessions, StopSession(s) PROVE FeedInv'
PROOF
<1>1. /\ s \in registry /\ registry' = registry \ {s} /\ row' = [row EXCEPT ![s] = "over"]
      /\ UNCHANGED <<closed, runner, routed, unrouted, current, receivers>>
      /\ UNCHANGED <<saved, watermark, latest, ran, base, missed>>
  BY DEF StopSession, router, builder
<1>2. FeedTypes /\ RouterInv
  BY DEF FeedInv
<1>3. FeedTypes'
  BY <1>1, <1>2 DEF FeedTypes
<1>4. \A u \in Sessions : row[u] # "new" => row'[u] # "new"
  BY <1>1, <1>2 DEF FeedTypes
<1>5. registry \subseteq Sessions /\ receivers \subseteq Sessions
  BY <1>2 DEF FeedTypes
<1>6. RouterInv'
  BY <1>1, <1>2, <1>4, <1>5 DEF RouterInv
<1>7. \A u \in registry' : SessionInv(u)'
  BY <1>1 DEF FeedInv, SessionInv
<1> QED BY <1>3, <1>6, <1>7 DEF FeedInv

\* What a read hands the router: the next bars, one after the other.
LEMMA ReadyBars ==
  ASSUME BuilderInv, routed \in GroupTypes, routed.last <= Len(closed), NEW ids, ids = Ready(BarStream, routed, ReadSize),
         ids # << >>
  PROVE  /\ ids \in Seq(Nat) /\ Len(ids) \in Nat \ {0} /\ routed.last + Len(ids) <= Len(closed)
         /\ \A k \in 1 .. Len(ids) : ids[k] = routed.last + k
PROOF
<1>1. PICK n \in Nat, c \in Nat \ {0}, l \in Nat : n = Len(closed) /\ c = ReadSize /\ l = routed.last /\ l <= n
  <2>1. Len(closed) \in Nat /\ ReadSize \in Nat \ {0} /\ routed.last \in Nat
    <3>1. closed \in Seq(ClosedTypes)
      BY DEF BuilderInv
    <3>2. routed.last \in Nat
      BY DEF GroupTypes
    <3> QED BY <3>1, <3>2, StreamsAssumption
  <2> QED BY <2>1
<1>2. PICK m : m = IF l + c > n THEN n - l ELSE c
  OBVIOUS
<1>3. m \in Nat /\ l + m <= n
  BY <1>1, <1>2
<1>4. ids = [k \in 1 .. m |-> l + k]
  <2>1. ~(l + 1 < 1) /\ (l + 1) + c - 1 = l + c /\ \A k \in 1 .. m : (l + 1) + k - 1 = l + k
    BY <1>1, <1>3, SMTT(30)
  <2>2. PICK to : to = IF (l + 1) + c - 1 > n THEN n ELSE (l + 1) + c - 1
    OBVIOUS
  <2>3. m = IF to < l + 1 THEN 0 ELSE to - (l + 1) + 1
    BY <1>1, <1>2, <2>2, SMTT(30)
  <2>4. ids = [k \in 1 .. m |-> (l + 1) + k - 1]
    <3>1. BarStream.log = closed /\ BarStream.first = 1
      BY DEF BarStream
    <3>2. (IF routed.last + 1 < BarStream.first THEN BarStream.first ELSE routed.last + 1) = l + 1
      BY <1>1, <3>1
    <3>3. (IF l + 1 + ReadSize - 1 > Len(BarStream.log) THEN Len(BarStream.log) ELSE l + 1 + ReadSize - 1) = to
      BY <1>1, <2>2, <3>1
    <3> QED BY <2>3, <3>2, <3>3 DEF Ready
  <2> QED BY <2>1, <2>4
<1>5. ids \in Seq(Nat) /\ Len(ids) = m
  <2>1. \A k \in 1 .. m : l + k \in Nat
    BY <1>1, <1>3
  <2> QED BY <1>3, <1>4, <2>1
<1>6. m # 0
  BY <1>5
<1>7. \A k \in 1 .. m : ids[k] = l + k
  BY <1>4
<1> QED BY <1>1, <1>3, <1>5, <1>6, <1>7

LEMMA RouterReadsKeeps ==
  ASSUME BuilderInv, FeedInv, RouterReads PROVE FeedInv'
PROOF
<1>1. FeedTypes /\ RouterInv
  BY DEF FeedInv
<1>2. /\ runner = "up" /\ unrouted = << >> /\ receivers = {} /\ routed # NoGroup
      /\ UNCHANGED <<closed, current, receivers, row, registry, saved, watermark, latest, ran, base>>
  BY <1>1 DEF RouterReads, RouterInv, builder
<1>3. PICK ids : ids = Ready(BarStream, routed, ReadSize)
  OBVIOUS
<1>4. /\ ids # << >>
      /\ \/ /\ routed' = Delivered(Acked(routed, ackbars), ids) /\ unrouted' = ids
            /\ UNCHANGED <<runner, missed>>
         \/ /\ routed' = Delivered(Acked(routed, ackbars), ids)
            /\ missed' = [s \in Sessions |-> missed[s] \cup ToSet(ids)]
            /\ UNCHANGED <<unrouted, runner>>
         \/ runner' = "deaf" /\ UNCHANGED <<routed, unrouted, missed>>
  BY <1>3 DEF RouterReads
<1>5. routed \in GroupTypes /\ routed.last <= Len(closed) /\ Len(closed) \in Nat /\ current \in Nat
      /\ routed.last \in Nat
  BY <1>1, <1>2, AheadType
<1>6. PICK l \in Nat, n \in Nat \ {0} : /\ l = routed.last /\ n = Len(ids) /\ l + n <= Len(closed)
                                        /\ \A k \in 1 .. n : ids[k] = l + k
  BY <1>3, <1>4, <1>5, ReadyBars
<1>7. ids \in Seq(Nat) /\ n \in 1 .. n
  BY <1>3, <1>4, <1>5, <1>6, ReadyBars
<1>8. Ahead(routed, unrouted) = l /\ current <= l
  <2>1. Len(unrouted) = 0
    BY <1>2
  <2>2. Ahead(routed, unrouted) = routed.last - Len(unrouted)
    BY <1>2 DEF Ahead
  <2> QED BY <1>1, <1>6, <2>1, <2>2 DEF RouterInv
<1>9. PICK g : g = Delivered(Acked(routed, ackbars), ids)
  OBVIOUS
<1>10. g \in GroupTypes /\ g.last = l + n /\ g # NoGroup
  <2>1. g = [last |-> ids[n], pel |-> (routed.pel \ ackbars) \cup {ids[k] : k \in DOMAIN ids}]
    BY <1>5, <1>6, <1>9 DEF Delivered, Acked, GroupTypes
  <2>2. {ids[k] : k \in DOMAIN ids} \subseteq Nat /\ routed.pel \subseteq Nat
    BY <1>5, <1>7 DEF GroupTypes
  <2>3. ids[n] = l + n
    BY <1>6, <1>7
  <2> QED BY <2>1, <2>2, <2>3, BarFeedAssumption DEF GroupTypes
<1>11. \A s \in registry : SessionInv(s) /\ s \in Sessions /\ base[s] \in BaseTypes /\ base[s].next \in Nat /\ base[s].next # 0
                           /\ ran[s] \in Seq(RanTypes) /\ base[s].next <= l + 1
  BY <1>1, <1>2, <1>8 DEF FeedInv, FeedTypes, RouterInv, SessionInv, BaseTypes
<1>12. CASE routed' = g /\ unrouted' = ids /\ UNCHANGED <<runner, missed>>
  <2>1. FeedTypes'
    BY <1>1, <1>2, <1>7, <1>10, <1>12 DEF FeedTypes
  <2>2. Ahead(routed', unrouted') = l
    BY <1>6, <1>10, <1>12 DEF Ahead
  <2>3. RouterInv'
    <3>1. Len(unrouted') <= routed'.last /\ routed'.last <= Len(closed')
      BY <1>2, <1>6, <1>10, <1>12
    <3>2. \A k \in 1 .. Len(unrouted') : unrouted'[k] = Ahead(routed', unrouted') + k
      BY <1>6, <1>12, <2>2
    <3>3. runner' = "up" /\ routed' # NoGroup
      BY <1>2, <1>10, <1>12
    <3>4. current' <= Ahead(routed', unrouted')
      BY <1>2, <1>8, <2>2
    <3> QED BY <1>1, <1>2, <3>1, <3>2, <3>3, <3>4 DEF RouterInv
  <2>4. \A s \in registry' : SessionInv(s)'
    BY <1>2, <1>8, <1>11, <1>12, <2>2 DEF SessionInv
  <2> QED BY <2>1, <2>3, <2>4 DEF FeedInv
<1>13. CASE /\ routed' = g /\ missed' = [s \in Sessions |-> missed[s] \cup ToSet(ids)]
            /\ UNCHANGED <<unrouted, runner>>
  <2>1. ToSet(ids) \subseteq Nat /\ \A k \in 1 .. n : l + k \in ToSet(ids)
    <3>1. DOMAIN ids = 1 .. n /\ \A k \in 1 .. n : ids[k] \in Nat
      BY <1>6, <1>7
    <3> QED BY <1>6, <3>1 DEF ToSet
  <2>2. missed' \in [Sessions -> SUBSET Nat]
    BY <1>1, <1>13, <2>1 DEF FeedTypes
  <2>3. FeedTypes'
    BY <1>1, <1>2, <1>10, <1>13, <2>2 DEF FeedTypes
  <2>4. Len(unrouted') = 0 /\ unrouted' = << >>
    BY <1>2, <1>13
  <2>5. Ahead(routed', unrouted') = l + n
    BY <1>6, <1>10, <1>13, <2>4 DEF Ahead
  <2>6. RouterInv'
    <3>1. 0 <= routed'.last /\ routed'.last <= Len(closed')
      BY <1>2, <1>6, <1>10, <1>13
    <3>2. current' <= Ahead(routed', unrouted')
      BY <1>2, <1>5, <1>6, <1>8, <2>5
    <3>3. runner' = "up" /\ routed' # NoGroup
      BY <1>2, <1>10, <1>13
    <3> QED BY <1>1, <1>2, <2>4, <3>1, <3>2, <3>3 DEF RouterInv
  <2>7. ASSUME NEW s \in registry PROVE SessionInv(s)'
    <3>1. PICK ms, b : ms = missed'[s] /\ b = base[s] /\ b \in BaseTypes /\ b.next # 0 /\ b.next \in Nat /\ b.next <= l + 1
      BY <1>11, <2>7
    <3>2. missed[s] \subseteq ms /\ ToSet(ids) \subseteq ms
      BY <1>11, <1>13, <2>7, <3>1
    <3>3. Follow(closed, closed) /\ current <= Len(closed)
      BY <1>1, AheadType DEF Follow, BuilderInv
    <3>4. Driven(closed, s, b, watermark[s], ran[s], missed[s], current, receivers)
      BY <1>11, <2>7, <3>1 DEF SessionInv
    <3>5. Driven(closed, s, b, watermark[s], ran[s], ms, current, receivers)
      BY <1>5, <1>11, <2>7, <3>1, <3>2, <3>3, <3>4, DrivenGrows
    <3>6. ASSUME NEW k \in b.next .. l + n, k > current, Asks(closed, s, k) PROVE k \in ms
      <4>1. CASE k <= l
        <5>1. k \in b.next .. l
          BY <1>6, <3>1, <3>6, <4>1
        <5>2. k \in missed[s]
          BY <1>2, <1>8, <1>11, <2>7, <3>1, <3>6, <5>1 DEF SessionInv
        <5> QED BY <3>2, <5>2
      <4>2. CASE k > l
        <5>1. k - l \in 1 .. n /\ l + (k - l) = k
          BY <1>6, <3>1, <3>6, <4>2
        <5>2. k \in ToSet(ids)
          BY <2>1, <5>1
        <5> QED BY <3>2, <5>2
      <4> QED BY <1>6, <3>1, <3>6, <4>1, <4>2
    <3>7. b.next <= l + n + 1
      BY <1>6, <3>1
    <3> QED BY <1>2, <1>13, <2>5, <3>1, <3>5, <3>6, <3>7 DEF SessionInv
  <2> QED BY <1>2, <2>3, <2>6, <2>7 DEF FeedInv
<1>14. CASE runner' = "deaf" /\ UNCHANGED <<routed, unrouted, missed>>
  <2>1. FeedTypes' /\ RouterInv'
    BY <1>1, <1>2, <1>14 DEF FeedTypes, RouterInv
  <2>2. \A s \in registry' : SessionInv(s)'
    BY <1>2, <1>11, <1>14 DEF SessionInv
  <2> QED BY <2>1, <2>2 DEF FeedInv
<1> QED BY <1>4, <1>9, <1>12, <1>13, <1>14

LEMMA RouteBarKeeps ==
  ASSUME BuilderInv, FeedInv, RouteBar PROVE FeedInv'
PROOF
<1>1. FeedTypes /\ RouterInv
  BY DEF FeedInv
<1>2. /\ runner = "up" /\ routed # NoGroup /\ unrouted # << >> /\ receivers = {}
      /\ current' = Head(unrouted) /\ unrouted' = Tail(unrouted) /\ receivers' = Subscribers(current')
      /\ UNCHANGED <<closed, runner, routed, row, registry, saved, watermark, latest, ran, base, missed>>
  BY <1>1 DEF RouteBar, RouterInv, builder, session
<1>3. PICK l \in Nat, a \in Nat, n \in Nat, c \in Nat :
        /\ l = routed.last /\ a = Ahead(routed, unrouted) /\ n = Len(unrouted) /\ c = current
        /\ a = l - n /\ c <= a /\ l <= Len(closed)
  BY <1>1, <1>2, AheadType DEF RouterInv
<1>4. unrouted \in Seq(Nat) /\ n # 0 /\ 1 \in 1 .. n /\ Head(unrouted) = unrouted[1]
  BY <1>1, <1>2, <1>3 DEF FeedTypes
<1>5. unrouted' \in Seq(Nat) /\ Len(unrouted') = n - 1 /\ \A k \in 1 .. n - 1 : unrouted'[k] = unrouted[k + 1]
  BY <1>2, <1>3, <1>4
<1>6. \A k \in 1 .. n : unrouted[k] = a + k
  BY <1>1, <1>2, <1>3 DEF RouterInv
<1>7. current' = a + 1 /\ a + 1 \in Nat /\ a + 1 > c
  BY <1>2, <1>3, <1>4, <1>6, SMTT(30)
<1>8. Ahead(routed', unrouted') = a + 1
  BY <1>2, <1>3, <1>5 DEF Ahead
<1>9. \A s : s \in receivers' <=> s \in registry /\ Asks(closed, s, a + 1)
  BY <1>2, <1>7, TimeIs DEF Subscribers
<1>10. registry \subseteq Sessions
  BY <1>1 DEF FeedTypes
<1>11. ASSUME NEW s \in registry
       PROVE  /\ base[s] \in BaseTypes /\ ran[s] \in Seq(RanTypes) /\ base[s].next \in Nat /\ base[s].next <= a + 1
              /\ row[s] # "new" /\ base[s].next # 0
              /\ \A k \in base[s].next .. a : k > c /\ Asks(closed, s, k) => k \in missed[s]
              /\ Driven(closed, s, base[s], watermark[s], ran[s], missed[s], c, receivers)
  <2>1. SessionInv(s)
    BY <1>11 DEF FeedInv
  <2> QED BY <1>1, <1>2, <1>3, <1>10, <1>11, <2>1 DEF SessionInv, FeedTypes, BaseTypes, RouterInv
<1>12. FeedTypes'
  <2>1. receivers' \subseteq Sessions
    BY <1>9, <1>10
  <2> QED BY <1>1, <1>2, <1>5, <1>7, <2>1 DEF FeedTypes
<1>13. RouterInv'
  <2>1. Len(unrouted') <= routed'.last /\ routed'.last <= Len(closed')
    BY <1>2, <1>3, <1>5
  <2>2. \A k \in 1 .. Len(unrouted') : unrouted'[k] = Ahead(routed', unrouted') + k
    <3> SUFFICES ASSUME NEW k \in 1 .. n - 1 PROVE unrouted'[k] = (a + 1) + k
      BY <1>5, <1>8
    <3>1. k + 1 \in 1 .. n
      OBVIOUS
    <3>2. a + (k + 1) = (a + 1) + k
      OBVIOUS
    <3> QED BY <1>5, <1>6, <3>1, <3>2
  <2>3. \A s \in receivers' : /\ Asks(closed', s, current') /\ row'[s] # "new" /\ base'[s].next <= current'
                              /\ current' # 0
    BY <1>2, <1>3, <1>7, <1>9, <1>11
  <2>4. current' <= Ahead(routed', unrouted')
    BY <1>7, <1>8
  <2>5. runner' = "up" /\ routed' # NoGroup
    BY <1>2
  <2>6. \A s \in registry' : row'[s] # "new" /\ base'[s].next # 0
    BY <1>2, <1>11
  <2> QED BY <2>1, <2>2, <2>3, <2>4, <2>5, <2>6 DEF RouterInv
<1>14. ASSUME NEW s \in registry PROVE SessionInv(s)'
  <2>1. PICK b, to : b = base[s] /\ to = receivers'
    OBVIOUS
  <2>2. s \notin receivers /\ (Asks(closed, s, a + 1) => s \in to)
    BY <1>2, <1>9, <1>14, <2>1
  <2>3. \A k \in b.next .. ((a + 1) - 1) : k > c /\ Asks(closed, s, k) => k \in missed[s]
    <3>1. (a + 1) - 1 = a
      BY <1>3
    <3> QED BY <1>11, <1>14, <2>1, <3>1
  <2>4. Driven(closed, s, b, watermark[s], ran[s], missed[s], a + 1, to)
    BY <1>3, <1>7, <1>11, <1>14, <2>1, <2>2, <2>3, DrivenRouted
  <2>5. \A k \in b.next .. a + 1 : ~(k > a + 1)
    BY <1>3, <1>11, <1>14, <2>1
  <2>6. b.next <= (a + 1) + 1
    BY <1>3, <1>11, <1>14, <2>1
  <2> QED BY <1>2, <1>7, <1>8, <2>1, <2>4, <2>5, <2>6 DEF SessionInv
<1> QED BY <1>2, <1>12, <1>13, <1>14 DEF FeedInv

\* Whom else the bar has still to go to makes no difference to a session.
LEMMA DrivenOthers ==
  ASSUME NEW cl, NEW s, NEW b, NEW w, NEW rn, NEW ms, NEW cur, NEW rcv, NEW to, s \in rcv <=> s \in to,
         Driven(cl, s, b, w, rn, ms, cur, rcv)
  PROVE  Driven(cl, s, b, w, rn, ms, cur, to)
PROOF
<1>1. \A k : Given(cl, s, b.next, cur, to, k) <=> Given(cl, s, b.next, cur, rcv, k)
  BY DEF Given
<1> QED BY <1>1 DEF Driven

\* A session has been given the bar: how it stands after that is shown for the session,
\* the others are as before.
LEMMA GivenKeeps ==
  ASSUME BuilderInv, FeedInv, FeedTypes', NEW s \in Sessions, s \in receivers, receivers' = receivers \ {s},
         UNCHANGED <<closed, runner, routed, unrouted, current, base>>,
         runner = "up", registry' \subseteq registry,
         \A u \in Sessions : row[u] # "new" => row'[u] # "new",
         \A u \in Sessions \ {s} : watermark'[u] = watermark[u] /\ ran'[u] = ran[u] /\ missed'[u] = missed[u],
         missed[s] \subseteq missed'[s],
         s \in registry => Driven(closed, s, base[s], watermark'[s], ran'[s], missed'[s], current, receivers')
  PROVE  FeedInv'
PROOF
<1>1. FeedTypes /\ RouterInv
  BY DEF FeedInv
<1>2. registry \subseteq Sessions /\ receivers \subseteq Sessions
  BY <1>1 DEF FeedTypes
<1>3. RouterInv'
  BY <1>1, <1>2 DEF RouterInv
<1>4. PICK wm, r, ms, to : wm = watermark' /\ r = ran' /\ ms = missed' /\ to = receivers'
  OBVIOUS
<1>5. ASSUME NEW u \in registry' PROVE SessionInv(u)'
  <2>1. SessionInv(u) /\ u \in registry /\ u \in Sessions
    BY <1>2, <1>5 DEF FeedInv
  <2>2. missed[u] \subseteq ms[u]
    BY <1>4, <2>1
  <2>3. Driven(closed, u, base[u], wm[u], r[u], ms[u], current, to)
    <3>1. CASE u = s
      BY <1>4, <2>1, <3>1
    <3>2. CASE u # s
      <4>1. u \in receivers <=> u \in to
        BY <1>4, <3>2
      <4>2. Driven(closed, u, base[u], watermark[u], ran[u], missed[u], current, receivers)
        BY <2>1 DEF SessionInv
      <4>3. wm[u] = watermark[u] /\ r[u] = ran[u] /\ ms[u] = missed[u]
        BY <1>4, <2>1, <3>2
      <4> QED BY <4>1, <4>2, <4>3, DrivenOthers
    <3> QED BY <3>1, <3>2
  <2> QED BY <1>4, <2>1, <2>2, <2>3 DEF SessionInv
<1> QED BY <1>3, <1>5 DEF FeedInv

\* What is known of the session the bar goes to.
LEMMA ReceiverIs ==
  ASSUME BuilderInv, FeedInv, NEW s \in receivers
  PROVE  /\ s \in Sessions /\ base[s] \in BaseTypes /\ ran[s] \in Seq(RanTypes) /\ watermark[s] \in Int
         /\ latest[s] \in Int
         /\ current \in Nat /\ current \in 1 .. Len(closed) /\ BarTime(closed, current) \in Nat
         /\ base[s].next <= current /\ Asks(closed, s, current)
         /\ s \in registry => /\ base[s].next # 0
                              /\ Driven(closed, s, base[s], watermark[s], ran[s], missed[s], current, receivers)
PROOF
<1>1. FeedTypes /\ RouterInv
  BY DEF FeedInv
<1>2. s \in Sessions /\ base[s] \in BaseTypes /\ ran[s] \in Seq(RanTypes) /\ watermark[s] \in Int /\ latest[s] \in Int
  BY <1>1 DEF FeedTypes
<1>3. base[s].next <= current /\ Asks(closed, s, current) /\ current # 0
  BY <1>1 DEF RouterInv
<1>4. current \in Nat /\ current <= Len(closed) /\ Len(closed) \in Nat
  BY <1>1, AheadType
<1>5. current \in 1 .. Len(closed)
  BY <1>3, <1>4
<1>6. closed \in Seq(ClosedTypes)
  BY DEF BuilderInv
<1>7. BarTime(closed, current) \in Nat
  BY <1>5, <1>6, BarTimeType
<1>8. s \in registry => /\ base[s].next # 0
                        /\ Driven(closed, s, base[s], watermark[s], ran[s], missed[s], current, receivers)
  BY <1>1 DEF FeedInv, RouterInv, SessionInv
<1> QED BY <1>2, <1>3, <1>4, <1>5, <1>7, <1>8

LEMMA OnClosedBarKeeps ==
  ASSUME BuilderInv, FeedInv, NEW s \in Sessions, OnClosedBar(s) PROVE FeedInv'
PROOF
<1>1. PICK t : t = BarTime(closed, current)
  OBVIOUS
<1>2. Time(current) = t
  BY <1>1, TimeIs
<1>3. /\ runner = "up" /\ s \in receivers /\ receivers' = receivers \ {s}
      /\ latest' = IF t < watermark[s] THEN latest ELSE [latest EXCEPT ![s] = Later(@, t)]
      /\ IF t > watermark[s]
         THEN /\ ran' = [ran EXCEPT ![s] = Append(@, [bar |-> current, latest |-> latest'[s]])]
              /\ watermark' = [watermark EXCEPT ![s] = t] /\ saved' = [saved EXCEPT ![s] = t]
         ELSE UNCHANGED <<ran, watermark, saved>>
      /\ UNCHANGED <<closed, runner, routed, unrouted, current, row, registry, base, missed>>
  BY <1>2 DEF OnClosedBar, builder
<1>4. FeedTypes
  BY DEF FeedInv
<1>5. /\ base[s] \in BaseTypes /\ ran[s] \in Seq(RanTypes) /\ watermark[s] \in Int /\ latest[s] \in Int
      /\ current \in Nat /\ current <= Len(closed) /\ t \in Nat /\ base[s].next <= current /\ Asks(closed, s, current)
      /\ s \in registry => /\ base[s].next # 0
                           /\ Driven(closed, s, base[s], watermark[s], ran[s], missed[s], current, receivers)
  BY <1>1, <1>3, ReceiverIs
<1>6. latest' \in [Sessions -> Int]
  <2>1. Later(latest[s], t) \in Int
    BY <1>5 DEF Later
  <2> QED BY <1>3, <1>4, <2>1 DEF FeedTypes
<1>7. PICK x \in Int : x = latest'[s]
  BY <1>6
<1>8. [bar |-> current, latest |-> x] \in RanTypes
  BY <1>5 DEF RanTypes
<1>9. ran \in [Sessions -> Seq(RanTypes)] /\ watermark \in [Sessions -> Int] /\ saved \in [Sessions -> Int]
  BY <1>4 DEF FeedTypes
<1>10. PICK rn, to : rn = Append(ran[s], [bar |-> current, latest |-> x]) /\ to = receivers'
  OBVIOUS
<1>11. closed \in Seq(ClosedTypes) /\ s \notin to
  BY <1>3, <1>10 DEF BuilderInv
<1>12. s \in registry =>
         /\ t > watermark[s] => Driven(closed, s, base[s], t, rn, missed[s], current, to)
         /\ t <= watermark[s] => Driven(closed, s, base[s], watermark[s], ran[s], missed[s], current, to)
  BY <1>1, <1>3, <1>5, <1>10, <1>11, DrivenGiven
<1>13. CASE t > watermark[s]
  <2>1. /\ ran' = [ran EXCEPT ![s] = rn] /\ watermark' = [watermark EXCEPT ![s] = t] /\ saved' = [saved EXCEPT ![s] = t]
    BY <1>3, <1>7, <1>10, <1>13
  <2>2. rn \in Seq(RanTypes)
    BY <1>5, <1>8, <1>10
  <2>3. /\ ran' \in [Sessions -> Seq(RanTypes)] /\ watermark' \in [Sessions -> Int] /\ saved' \in [Sessions -> Int]
        /\ ran'[s] = rn /\ watermark'[s] = t
        /\ \A u \in Sessions \ {s} : watermark'[u] = watermark[u] /\ ran'[u] = ran[u]
    BY <1>5, <1>9, <2>1, <2>2
  <2>4. FeedTypes'
    BY <1>3, <1>4, <1>6, <2>3 DEF FeedTypes
  <2>5. s \in registry => Driven(closed, s, base[s], watermark'[s], ran'[s], missed'[s], current, receivers')
    BY <1>3, <1>10, <1>12, <1>13, <2>3
  <2> QED BY <1>3, <2>3, <2>4, <2>5, GivenKeeps
<1>14. CASE ~(t > watermark[s])
  <2>1. ran' = ran /\ watermark' = watermark /\ saved' = saved
    BY <1>3, <1>14
  <2>2. FeedTypes'
    BY <1>3, <1>4, <1>6, <2>1 DEF FeedTypes
  <2>3. t <= watermark[s]
    BY <1>5, <1>14
  <2>4. s \in registry => Driven(closed, s, base[s], watermark'[s], ran'[s], missed'[s], current, receivers')
    BY <1>3, <1>10, <1>12, <2>1, <2>3
  <2> QED BY <1>3, <2>1, <2>2, <2>4, GivenKeeps
<1> QED BY <1>13, <1>14

LEMMA OnClosedBarFailsKeeps ==
  ASSUME BuilderInv, FeedInv, NEW s \in Sessions, OnClosedBarFails(s) PROVE FeedInv'
PROOF
<1>1. PICK t : t = BarTime(closed, current)
  OBVIOUS
<1>2. Time(current) = t
  BY <1>1, TimeIs
<1>3. /\ runner = "up" /\ s \in receivers /\ receivers' = receivers \ {s}
      /\ latest' = [latest EXCEPT ![s] = Later(@, t)]
      /\ missed' = [missed EXCEPT ![s] = @ \cup {current}]
      /\ \/ UNCHANGED <<registry, row>>
         \/ registry' = registry \ {s} /\ row' = [row EXCEPT ![s] = "over"]
      /\ UNCHANGED <<closed, runner, routed, unrouted, current, saved, watermark, ran, base>>
  BY <1>2 DEF OnClosedBarFails, builder
<1>4. FeedTypes
  BY DEF FeedInv
<1>5. /\ base[s] \in BaseTypes /\ ran[s] \in Seq(RanTypes) /\ latest[s] \in Int
      /\ current \in Nat /\ current <= Len(closed) /\ t \in Nat /\ base[s].next <= current /\ Asks(closed, s, current)
      /\ s \in registry => /\ base[s].next # 0
                           /\ Driven(closed, s, base[s], watermark[s], ran[s], missed[s], current, receivers)
  BY <1>1, <1>3, ReceiverIs
<1>6. latest' \in [Sessions -> Int]
  <2>1. Later(latest[s], t) \in Int
    BY <1>5 DEF Later
  <2> QED BY <1>3, <1>4, <2>1 DEF FeedTypes
<1>7. /\ missed' \in [Sessions -> SUBSET Nat] /\ missed'[s] = missed[s] \cup {current}
      /\ \A u \in Sessions \ {s} : missed'[u] = missed[u]
  BY <1>3, <1>4, <1>5 DEF FeedTypes
<1>8. /\ row' \in [Sessions -> {"new", "active", "over"}] /\ registry' \subseteq registry
      /\ \A u \in Sessions : row[u] # "new" => row'[u] # "new"
  BY <1>3, <1>4 DEF FeedTypes
<1>9. FeedTypes'
  BY <1>3, <1>4, <1>6, <1>7, <1>8 DEF FeedTypes
<1>10. PICK to : to = receivers'
  OBVIOUS
<1>11. closed \in Seq(ClosedTypes) /\ s \notin to /\ 0 \in Int
  BY <1>3, <1>10 DEF BuilderInv
<1>12. s \in registry => Driven(closed, s, base[s], watermark[s], ran[s], missed[s] \cup {current}, current, to)
  BY <1>3, <1>5, <1>10, <1>11, DrivenGiven
<1>13. s \in registry => Driven(closed, s, base[s], watermark'[s], ran'[s], missed'[s], current, receivers')
  BY <1>3, <1>7, <1>10, <1>12
<1>14. missed[s] \subseteq missed'[s]
  BY <1>7
<1> QED BY <1>3, <1>7, <1>8, <1>9, <1>13, <1>14, GivenKeeps

LEMMA RunnerDiesKeeps ==
  ASSUME FeedInv, RunnerDies PROVE FeedInv'
PROOF
<1>1. /\ runner' = "down" /\ unrouted' = << >> /\ receivers' = {} /\ current' = 0 /\ registry' = {}
      /\ watermark' = [s \in Sessions |-> NoTime] /\ latest' = [s \in Sessions |-> NoTime]
      /\ base' = [s \in Sessions |-> NoBase]
      /\ ran' = [s \in Sessions |-> << >>] /\ missed' = [s \in Sessions |-> {}]
      /\ UNCHANGED <<closed, routed, row, saved>>
  BY DEF RunnerDies, builder
<1>2. FeedTypes /\ RouterInv
  BY DEF FeedInv
<1>3. FeedTypes'
  BY <1>1, <1>2 DEF FeedTypes, NoTime, NoBase, BaseTypes
<1>4. Len(unrouted') = 0
  BY <1>1
<1>5. routed # NoGroup => routed.last \in Nat /\ routed.last <= Len(closed)
  BY <1>2 DEF RouterInv, FeedTypes, GroupTypes
<1>6. Ahead(routed', unrouted') >= 0
  BY <1>1, <1>4, <1>5 DEF Ahead
<1>7. routed' # NoGroup => routed'.last <= Len(closed') /\ Len(unrouted') <= routed'.last
  BY <1>1, <1>4, <1>5
<1>8. RouterInv'
  BY <1>1, <1>4, <1>6, <1>7 DEF RouterInv
<1> QED BY <1>1, <1>3, <1>8 DEF FeedInv

LEMMA FeedInvStep ==
  ASSUME BuilderInv, FeedInv, deployed \in Deployments, [FeedNext]_feedVars PROVE FeedInv'
PROOF
<1>1. CASE UNCHANGED <<router, session>>
  BY <1>1, ClosedFollows, FeedGrows
<1>2. CASE FeedStep
  BY <1>2, RunnerStartsKeeps, RouterReadsKeeps, RouteBarKeeps, RunnerDiesKeeps, StartSessionKeeps, StopSessionKeeps,
     OnClosedBarKeeps, OnClosedBarFailsKeeps DEF FeedStep
<1> QED BY <1>1, <1>2 DEF FeedNext, feedVars, router, session

LEMMA DrivenShown ==
  ASSUME FeedInv PROVE EveryBarDrives
PROOF
<1> SUFFICES ASSUME NEW s \in registry
             PROVE  LET done == {ran[s][k].bar : k \in DOMAIN ran[s]} IN
                    /\ done \subseteq Dispatched(s)
                    /\ \A j, k \in DOMAIN ran[s] : j < k => Time(ran[s][j].bar) < Time(ran[s][k].bar)
                    /\ \A k \in Dispatched(s) \ (done \cup missed[s]) :
                         \/ Time(k) <= base[s].after
                         \/ \E j \in done : j < k /\ Time(j) >= Time(k)
  BY DEF EveryBarDrives
<1>1. PICK r, b, n : r = ran[s] /\ b = base[s] /\ n = Len(r)
  OBVIOUS
<1>2. /\ r \in Seq(RanTypes) /\ Driven(closed, s, b, watermark[s], r, missed[s], current, receivers)
  <2>1. s \in Sessions
    BY DEF FeedInv, FeedTypes
  <2> QED BY <1>1, <2>1 DEF FeedInv, FeedTypes, SessionInv
<1>3. DOMAIN r = 1 .. n
  BY <1>1, <1>2
<1>4. \A k : k \in Dispatched(s) <=> Given(closed, s, b.next, current, receivers, k)
  BY <1>1, TimeIs DEF Dispatched, Given
<1>5. PICK done : done = {r[k].bar : k \in 1 .. n}
  OBVIOUS
<1>6. done \subseteq Dispatched(s)
  BY <1>1, <1>2, <1>4, <1>5 DEF Driven
<1>7. \A j, k \in 1 .. n : j < k => Time(r[j].bar) < Time(r[k].bar)
  BY <1>1, <1>2, TimeIs DEF Driven
<1>8. ASSUME NEW k \in Dispatched(s), k \notin done, k \notin missed[s]
      PROVE  Time(k) <= b.after \/ \E j \in done : j < k /\ Time(j) >= Time(k)
  <2>1. Given(closed, s, b.next, current, receivers, k) /\ k \in b.next .. current
    BY <1>4, <1>8 DEF Given
  <2>2. \/ BarTime(closed, k) <= b.after
        \/ \E j \in 1 .. n : r[j].bar = k
        \/ \E j \in 1 .. n : r[j].bar < k /\ BarTime(closed, r[j].bar) >= BarTime(closed, k)
    BY <1>1, <1>2, <1>8, <2>1 DEF Driven
  <2>3. \A j \in 1 .. n : r[j].bar \in done /\ Time(r[j].bar) = BarTime(closed, r[j].bar)
    BY <1>5, TimeIs
  <2>4. Time(k) = BarTime(closed, k)
    BY TimeIs
  <2> QED BY <1>8, <2>2, <2>3, <2>4
<1>9. {ran[s][k].bar : k \in DOMAIN ran[s]} = done
  BY <1>1, <1>3, <1>5
<1> QED BY <1>1, <1>3, <1>6, <1>7, <1>8, <1>9

\* A registered session acts on every closed bar dispatched to it, once per bar time and in
\* the order of time, but for those not newer than its load or than a bar before, those
\* lost in a read, and those whose handling raised.
THEOREM EveryBarIsActedOn == FeedSpec => []EveryBarDrives
PROOF
<1>1. FeedInit => Inv /\ BuilderInv /\ FeedInv
  BY InvInit, BuilderInit, FeedInit2
<1>2. Inv /\ BuilderInv /\ FeedInv /\ [FeedNext]_feedVars => Inv' /\ BuilderInv' /\ FeedInv'
  <2>1. Inv => deployed \in Deployments
    BY DEF Inv, WorkerInv
  <2> QED BY <2>1, InvStep, BuilderStepKeeps, FeedInvStep
<1>3. FeedInv => EveryBarDrives
  BY DrivenShown
<1> QED BY <1>1, <1>2, <1>3, PTL DEF FeedSpec

=============================================================================
