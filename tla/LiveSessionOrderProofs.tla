------------------------ MODULE LiveSessionOrderProofs ------------------------
(***************************************************************************)
(* What becomes of the orders of LiveSession, for every value of the       *)
(* constants: the ledger counts every execution once, the session          *)
(* implements OrderBook, and what no failure but a lost write can do to an *)
(* order: strand it, end it twice, or close it behind the broker's back.   *)
(***************************************************************************)
EXTENDS LiveSessionProofs, FiniteSetTheorems

\* A fill that is heard of was executed.
Executed(u) == u.event = "fill" => u.n <= bro[u.c].filled

LedgerInv ==
  /\ \A i \in 1 .. Len(stream) : Executed(stream[i])
  /\ \A h \in handling : Executed(h.u)
  /\ LedgerSound

SInv == IInv /\ LedgerInv

\* The executions of an order that the ledger holds.
InLedger(c) == {n \in 1 .. Qty : <<c, n>> \in fills}

-----------------------------------------------------------------------------
(* What is heard of the broker *)

\* No order executes less than before.
Grows == \A c \in Coid : bro[c].filled <= bro'[c].filled

\* The broker may go on and report one thing more.
LEMMA HearsExecuted ==
  ASSUME SInv, Grows, bro' \in [Coid -> BrokerOrder], NEW u \in Update, Executed(u)',
         stream' = stream \/ stream' = Append(stream, u),
         UNCHANGED <<handling, fills, booked>>
  PROVE  LedgerInv'
<1>. USE LiveSessionAssumption
<1>1. /\ stream \in Seq(Update) /\ handling \subseteq Picked /\ Qty \in Nat
      /\ bro \in [Coid -> BrokerOrder]
  BY DEF SInv, IInv, TypeOK
<1>2. ASSUME NEW v \in Update, Executed(v)  PROVE Executed(v)'
  <2>1. v.c \in Coid /\ v.n \in Nat
    BY <1>1 DEF Update
  <2>2. bro[v.c].filled \in Nat /\ bro'[v.c].filled \in Nat /\ bro[v.c].filled <= bro'[v.c].filled
    BY <1>1, <2>1 DEF BrokerOrder, Grows
  <2>. QED  BY <1>2, <2>1, <2>2 DEF Executed
<1>3. \A i \in 1 .. Len(stream') : Executed(stream[i])'
  <2>1. ASSUME NEW i \in 1 .. Len(stream)  PROVE stream[i] \in Update /\ Executed(stream[i])
    BY <1>1, <2>1 DEF SInv, LedgerInv
  <2>2. CASE stream' = stream
    <3>. SUFFICES ASSUME NEW i \in 1 .. Len(stream')  PROVE Executed(stream[i])'
      OBVIOUS
    <3>1. i \in 1 .. Len(stream) /\ stream'[i] = stream[i]
      BY <2>2
    <3>2. Executed(stream[i]) /\ stream[i] \in Update
      BY <2>1, <3>1
    <3>. QED  BY <1>2, <2>2, <3>1, <3>2 DEF Executed
  <2>3. CASE stream' = Append(stream, u)
    <3>. SUFFICES ASSUME NEW i \in 1 .. Len(stream')  PROVE Executed(stream[i])'
      OBVIOUS
    <3>1. \/ i \in 1 .. Len(stream) /\ stream'[i] = stream[i]
          \/ stream'[i] = u
      BY <1>1, <2>3
    <3>2. CASE i \in 1 .. Len(stream) /\ stream'[i] = stream[i]
      <4>1. Executed(stream[i]) /\ stream[i] \in Update
        BY <2>1, <3>2
      <4>. QED  BY <1>2, <3>2, <4>1 DEF Executed
    <3>3. CASE stream'[i] = u
      BY <3>3 DEF Executed
    <3>. QED  BY <3>1, <3>2, <3>3
  <2>. QED  BY <2>2, <2>3
<1>4. \A h \in handling' : Executed(h.u)'
  <2>. SUFFICES ASSUME NEW h \in handling  PROVE Executed(h.u)'
    OBVIOUS
  <2>1. h.u \in Update /\ Executed(h.u)
    BY <1>1 DEF SInv, LedgerInv, Picked
  <2>. QED  BY <1>2, <2>1 DEF Executed
<1>5. LedgerSound'
  <2>1. ASSUME NEW c \in Coid, NEW n \in 1 .. Qty, <<c, n>> \in fills
        PROVE  n <= bro'[c].filled
    <3>1. n <= bro[c].filled
      BY <2>1 DEF SInv, LedgerInv, LedgerSound
    <3>. QED  BY <1>1, <2>1, <3>1 DEF Grows, BrokerOrder
  <2>. QED  BY <2>1 DEF SInv, LedgerInv, LedgerSound
<1>. QED  BY <1>3, <1>4, <1>5 DEF LedgerInv

\* Nothing new is heard.
Silent ==
  /\ UNCHANGED <<bro, fills, booked>>
  /\ \/ stream' = stream
     \/ stream' = <<>>
     \/ stream # <<>> /\ stream' = Tail(stream)
  /\ \A h \in handling' : h \in handling \/ (stream # <<>> /\ h.u = Head(stream))

LEMMA HearsNothing == ASSUME SInv, Silent PROVE LedgerInv'
<1>. USE DEF Silent
<1>1. stream \in Seq(Update)
  BY DEF SInv, IInv, TypeOK
<1>2. \A i \in 1 .. Len(stream') : Executed(stream'[i])
  BY <1>1 DEF SInv, LedgerInv
<1>3. \A h \in handling' : Executed(h.u)
  <2>1. stream # <<>> => Executed(Head(stream))
    BY <1>1 DEF SInv, LedgerInv
  <2>. QED  BY <2>1 DEF SInv, LedgerInv
<1>4. LedgerSound'
  BY DEF SInv, LedgerInv, LedgerSound
<1>. QED  BY <1>2, <1>3, <1>4 DEF LedgerInv, Executed

-----------------------------------------------------------------------------
(* A fill is applied *)

\* What is recorded of an order was executed, so one more execution has room for it.
LEMMA RoomForOne ==
  ASSUME SInv, NEW c \in Coid, NEW n \in 1 .. Qty, n <= bro[c].filled, <<c, n>> \notin fills
  PROVE  /\ IsFiniteSet(InLedger(c)) /\ booked[c] < bro[c].filled
         /\ Cardinality(InLedger(c) \cup {n}) = booked[c] + 1
<1>. USE LiveSessionAssumption
<1>1. bro[c].filled \in 0 .. Qty /\ Qty \in Nat
  BY DEF SInv, IInv, TypeOK, BrokerOrder
<1>2. booked[c] = Cardinality(InLedger(c)) /\ \A m \in InLedger(c) : m <= bro[c].filled
  BY DEF SInv, LedgerInv, LedgerSound, InLedger
<1>3. InLedger(c) \cup {n} \subseteq 1 .. bro[c].filled /\ n \notin InLedger(c)
  BY <1>1, <1>2 DEF InLedger
<1>4. /\ IsFiniteSet(1 .. bro[c].filled)
      /\ Cardinality(1 .. bro[c].filled) = bro[c].filled
  <2>. DEFINE b == bro[c].filled
  <2>1. 1 \in Int /\ b \in Int
    BY <1>1
  <2>. HIDE DEF b
  <2>2. /\ IsFiniteSet(1 .. b)
        /\ Cardinality(1 .. b) = IF 1 > b THEN 0 ELSE b - 1 + 1
    BY <2>1, FS_Interval
  <2>3. b \in Nat
    BY <1>1 DEF b
  <2>4. Cardinality(1 .. b) = b
    BY <2>2, <2>3
  <2>. QED  BY <2>2, <2>4 DEF b
<1>5. IsFiniteSet(InLedger(c))
  BY <1>3, <1>4, FS_Subset
<1>6. Cardinality(InLedger(c) \cup {n}) = Cardinality(InLedger(c)) + 1
  BY <1>3, <1>5, FS_AddElement
<1>7. Cardinality(InLedger(c) \cup {n}) <= bro[c].filled
  BY <1>3, <1>4, FS_Subset
<1>. QED  BY <1>1, <1>2, <1>5, <1>6, <1>7, FS_CardinalityType

\* An applied fill is an execution, and is counted unless it was recorded already.
LEMMA FillCounted ==
  ASSUME SInv, NEW h \in handling, ApplyFill(h)
  PROVE  /\ LedgerInv'
         /\ \/ booked' = booked
            \/ booked[h.u.c] < bro[h.u.c].filled
               /\ booked' = [booked EXCEPT ![h.u.c] = booked[h.u.c] + 1]
<1>. DEFINE c == h.u.c  n == h.u.n
<1>. USE LiveSessionAssumption
<1>1. /\ c \in Coid /\ n \in 1 .. Qty /\ n <= bro[c].filled
      /\ fills \subseteq Coid \X (1 .. Qty) /\ booked \in [Coid -> Nat]
  <2>1. h \in Picked /\ h.u.event = "fill"
    BY DEF SInv, IInv, TypeOK, ApplyFill
  <2>2. Genuine(h.u) /\ Executed(h.u)
    BY DEF SInv, LedgerInv, IInv, BrokerInv
  <2>. QED  BY <2>1, <2>2 DEF Picked, Update, Genuine, Executed, SInv, IInv, TypeOK
<1>2. UNCHANGED <<bro, stream>> /\ handling' = {}
  BY DEF ApplyFill, Handle, broVars
<1>3. CASE Recorded(c, n)
  <2>1. UNCHANGED <<bro, fills, booked>>
    BY <1>2, <1>3 DEF ApplyFill
  <2>2. stream' = stream /\ handling' = {}
    BY <1>2
  <2>3. LedgerInv'
    BY <2>1, <2>2, HearsNothing DEF Silent
  <2>. QED  BY <2>1, <2>3
<1>4. CASE ~Recorded(c, n)
  <2>1. fills' = fills \cup {<<c, n>>} /\ booked' = [booked EXCEPT ![c] = booked[c] + 1]
    BY <1>4 DEF ApplyFill
  <2>2. <<c, n>> \notin fills
    BY <1>4 DEF Recorded
  <2>. HIDE DEF c, n
  <2>3. booked[c] < bro[c].filled /\ Cardinality(InLedger(c) \cup {n}) = booked[c] + 1
    BY <1>1, <2>2, RoomForOne
  <2>4. LedgerSound'
    <3>. SUFFICES ASSUME NEW d \in Coid
                  PROVE  /\ \A m \in 1 .. Qty : <<d, m>> \in fills' => m <= bro[d].filled
                         /\ booked'[d] = Cardinality({m \in 1 .. Qty : <<d, m>> \in fills'})
      BY <1>2 DEF LedgerSound
    <3>1. /\ \A m \in 1 .. Qty : <<d, m>> \in fills => m <= bro[d].filled
          /\ booked[d] = Cardinality(InLedger(d))
      BY DEF SInv, LedgerInv, LedgerSound, InLedger
    <3>2. \A m \in 1 .. Qty : <<d, m>> \in fills' <=> <<d, m>> \in fills \/ (d = c /\ m = n)
      BY <2>1
    <3>3. {m \in 1 .. Qty : <<d, m>> \in fills'} = IF d = c THEN InLedger(d) \cup {n} ELSE InLedger(d)
      BY <1>1, <3>2 DEF InLedger
    <3>4. booked'[d] = IF d = c THEN booked[d] + 1 ELSE booked[d]
      BY <1>1, <2>1
    <3>. QED  BY <1>1, <2>3, <3>1, <3>2, <3>3, <3>4
  <2>5. LedgerInv'
    BY <1>2, <2>4 DEF SInv, LedgerInv, Executed
  <2>. QED  BY <2>1, <2>3, <2>5 DEF c
<1>. QED  BY <1>3, <1>4

-----------------------------------------------------------------------------
(* The steps *)

\* A submission is reported once as new.
LEMMA SendHeard == ASSUME SInv, NEW c \in Coid, SendOrder(c) PROVE LedgerInv'
<1>. DEFINE u == [c |-> c, event |-> "new", n |-> 0]
<1>. USE LiveSessionAssumption
<1>1. UNCHANGED <<handling, fills, booked>> /\ bro \in [Coid -> BrokerOrder]
  BY DEF SendOrder, recVars, dbVars, SInv, IInv, TypeOK
<1>2. CASE bro[c].status = "unknown"
  <2>1. u \in Update /\ Executed(u)'
    BY DEF Update, Executed
  <2>2. bro' = [bro EXCEPT ![c].status = "open"] /\ stream' = Append(stream, u)
    BY <1>2 DEF SendOrder
  <2>3. bro' \in [Coid -> BrokerOrder]
    BY <1>1, <2>2, BroTyped
  <2>4. \A d \in Coid : bro'[d].filled = bro[d].filled
    BY <1>1, <2>2 DEF BrokerOrder
  <2>5. Grows
    BY <1>1, <2>4 DEF Grows, BrokerOrder
  <2>. QED  BY <1>1, <2>1, <2>2, <2>3, <2>5, HearsExecuted
<1>3. CASE bro[c].status # "unknown"
  <2>1. UNCHANGED <<bro, fills, booked>> /\ stream' = stream /\ handling' = handling
    BY <1>1, <1>3 DEF SendOrder
  <2>. QED  BY <2>1, HearsNothing DEF Silent
<1>. QED  BY <1>2, <1>3

\* An execution is reported with the quantity executed so far.
LEMMA ExecuteHeard ==
  ASSUME SInv, NEW c \in Coid, Execute(c)
  PROVE  /\ LedgerInv'
         /\ \A d \in Coid : bro'[d].filled = IF d = c THEN bro[d].filled + 1 ELSE bro[d].filled
         /\ \A d \in Coid : KnownToBroker(d)' <=> KnownToBroker(d)
         /\ KnownToBroker(c) /\ bro[c].filled < Qty
<1>. USE LiveSessionAssumption
<1>a. PICK m : m = bro[c].filled + 1
  OBVIOUS
<1>b. PICK u : u = [c |-> c, event |-> "fill", n |-> m]
  OBVIOUS
<1>. DEFINE st == IF m = Qty THEN "filled" ELSE "open"
<1>1. /\ UNCHANGED <<handling, fills, booked>> /\ bro \in [Coid -> BrokerOrder]
      /\ bro[c].status = "open" /\ bro[c].filled < Qty
  BY DEF Execute, recVars, dbVars, SInv, IInv, TypeOK, BrokerInv
<1>2. m \in 1 .. Qty /\ bro[c].filled \in Nat
  BY <1>1, <1>a DEF BrokerOrder
<1>3. u \in Update
  BY <1>2, <1>b DEF Update
<1>4. bro' = [bro EXCEPT ![c] = [status |-> st, filled |-> m]]
  BY <1>a DEF Execute
<1>5. stream' = stream \/ stream' = Append(stream, u)
  BY <1>a, <1>b DEF Execute, Emit
<1>6. bro'[c] = [status |-> st, filled |-> m] /\ \A d \in Coid \ {c} : bro'[d] = bro[d]
  BY <1>1, <1>4
<1>7. \A d \in Coid : bro'[d].filled = IF d = c THEN bro[d].filled + 1 ELSE bro[d].filled
  BY <1>6, <1>a
<1>8. Grows
  BY <1>1, <1>7 DEF Grows, BrokerOrder
<1>9. bro' \in [Coid -> BrokerOrder]
  <2>1. [status |-> st, filled |-> m] \in BrokerOrder
    BY <1>2 DEF BrokerOrder
  <2>. QED  BY <1>1, <1>4, <2>1
<1>10. Executed(u)'
  <2>1. bro'[u.c].filled = m /\ u.n = m
    BY <1>6, <1>b
  <2>. QED  BY <1>2, <2>1 DEF Executed
<1>. HIDE DEF st
<1>11. LedgerInv'
  BY <1>1, <1>3, <1>5, <1>8, <1>9, <1>10, HearsExecuted
<1>12. \A d \in Coid : KnownToBroker(d)' <=> KnownToBroker(d)
  <2>1. \A d \in Coid \ {c} : bro'[d].status = bro[d].status
    BY <1>6
  <2>2. bro'[c].status # "unknown"
    BY <1>6 DEF st
  <2>. QED  BY <1>1, <2>1, <2>2 DEF KnownToBroker
<1>. QED  BY <1>1, <1>7, <1>11, <1>12 DEF KnownToBroker

\* An order that ends leaves what was executed.
LEMMA CloseHeard ==
  ASSUME SInv, NEW c \in Coid, NEW st \in ClosedStatus, Close(c, st)
  PROVE  /\ LedgerInv'
         /\ \A d \in Coid : bro'[d].filled = bro[d].filled /\ (KnownToBroker(d)' <=> KnownToBroker(d))
<1>. USE LiveSessionAssumption
<1>a. PICK u : u = [c |-> c, event |-> st, n |-> bro[c].filled]
  OBVIOUS
<1>1. /\ UNCHANGED <<handling, fills, booked>> /\ bro \in [Coid -> BrokerOrder]
      /\ bro[c].status = "open" /\ bro' = [bro EXCEPT ![c].status = st]
  BY DEF Close, recVars, dbVars, SInv, IInv, TypeOK
<1>2. u \in Update /\ Executed(u)'
  BY <1>1, <1>a DEF Update, BrokerOrder, Executed, ClosedStatus
<1>3. stream' = stream \/ stream' = Append(stream, u)
  BY <1>a DEF Close, Emit
<1>4. \A d \in Coid : bro'[d].filled = bro[d].filled
  BY <1>1 DEF BrokerOrder
<1>5. bro' \in [Coid -> BrokerOrder]
  BY <1>1, BroTyped
<1>6. Grows
  BY <1>1, <1>4 DEF Grows, BrokerOrder
<1>7. LedgerInv'
  BY <1>1, <1>2, <1>3, <1>5, <1>6, HearsExecuted
<1>8. \A d \in Coid : KnownToBroker(d)' <=> KnownToBroker(d)
  BY <1>1 DEF KnownToBroker, ClosedStatus, BrokerOrder
<1>. QED  BY <1>4, <1>7, <1>8

\* Every step keeps the ledger and what is heard of the broker within what was executed.
LEMMA LedgerStep ==
  ASSUME SInv, [Next]_vars
  PROVE  LedgerInv'
<1>. USE DEF dbVars, memVars, recVars, broVars
<1>1. ASSUME Silent  PROVE LedgerInv'
  BY <1>1, HearsNothing
<1>2. CASE Lifecycle
  BY <1>1, <1>2 DEF Silent, Lifecycle, WarmStart, Crash
<1>3. CASE BarTask \/ \E ts \in 1 .. MaxBars : TakeBar(ts)
  BY <1>1, <1>3 DEF Silent, BarTask, DecideStep, TakeBar, ExpireOrder, ApplyQueuedCancel, DropOrder, Decide,
              DecideFails, RolledBack
<1>4. ASSUME NEW c \in Coid, SendOrder(c)  PROVE LedgerInv'
  BY <1>4, SendHeard
<1>5. CASE SendTask
  BY <1>1, <1>4, <1>5
  DEF Silent, SendTask, BlockOrder, SendFails, BrokerReplies, ReplyFails, RecordOrder, RefuseOrder, SubmitDone
<1>6. CASE WriteFails
  BY <1>1, <1>6 DEF Silent, WriteFails
<1>7. CASE PickUpdate
  BY <1>1, <1>7 DEF Silent, PickUpdate
<1>8. ASSUME NEW h \in handling, ApplyFill(h)  PROVE LedgerInv'
  BY <1>8, FillCounted
<1>9. ASSUME NEW h \in handling, ApplyClosed(h) \/ ApplyNew(h) \/ UpdateFails(h)  PROVE LedgerInv'
  BY <1>1, <1>9 DEF Silent, ApplyClosed, ApplyNew, UpdateFails, Handle
<1>10. CASE LoseUpdate
  BY <1>1, <1>10 DEF Silent, LoseUpdate
<1>11. CASE Sweep
  BY <1>1, <1>11 DEF Silent, Sweep, SweepLoads, SweepReads, SweepApplies, SweepFails
<1>12. CASE Broker
  BY <1>12, ExecuteHeard, CloseHeard DEF Broker
<1>13. CASE UNCHANGED vars
  BY <1>1, <1>13 DEF Silent, vars
<1>. QED
  BY <1>2, <1>3, <1>5, <1>6, <1>7, <1>8, <1>9, <1>10, <1>11, <1>12, <1>13 DEF Next, Reconcile

LEMMA SInvInit == Init => SInv
<1>1. SUFFICES ASSUME Init  PROVE LedgerInv
  BY InitInv DEF SInv
<1>2. stream = <<>> /\ handling = {} /\ fills = {} /\ \A c \in Coid : booked[c] = 0
  BY <1>1 DEF Init
<1>3. \A c \in Coid : {n \in 1 .. Qty : <<c, n>> \in fills} = {}
  BY <1>2
<1>. QED  BY <1>2, <1>3, FS_EmptySet DEF LedgerInv, LedgerSound

LEMMA SInvStep == SInv /\ [Next]_vars => SInv'
BY LedgerStep, TypeStep, MemoryStep, OrderStep, BrokerStep DEF SInv, IInv

\* Whatever is redelivered, lost, swept or applied around a restart, the ledger counts each
\* recorded execution once and records only what the broker executed (_apply_fill).
THEOREM LedgerCountsOnce == Spec => []LedgerSound
<1>1. SInv => LedgerSound
  BY DEF SInv, LedgerInv
<1>. QED  BY <1>1, SInvInit, SInvStep, PTL DEF Spec

-----------------------------------------------------------------------------
(* The refinement of OrderBook *)

\* A step that a book does not show.
Unseen ==
  /\ UNCHANGED <<bc, wm, booked>>
  /\ \A c \in Coid : /\ Committed(c)' <=> Committed(c)
                     /\ KnownToBroker(c)' <=> KnownToBroker(c)
                     /\ bro'[c].filled = bro[c].filled

LEMMA UnseenStutters == Unseen => UNCHANGED Book!bookVars
<1>. SUFFICES ASSUME Unseen  PROVE UNCHANGED Book!bookVars
  OBVIOUS
<1>1. {c \in Coid : rows'[c].status # "none"} = {c \in Coid : rows[c].status # "none"}
  BY DEF Unseen, Committed
<1>2. {c \in Coid : bro'[c].status # "unknown"} = {c \in Coid : bro[c].status # "unknown"}
  BY DEF Unseen, KnownToBroker
<1>3. [c \in Coid |-> bro'[c].filled] = [c \in Coid |-> bro[c].filled]
  BY DEF Unseen
<1>. QED  BY <1>1, <1>2, <1>3 DEF Unseen, Book!bookVars

\* Writing a status to the row of a committed order leaves the same orders committed.
LEMMA MarkUnseen ==
  ASSUME SInv, NEW c \in Coid, Committed(c), NEW r, r.status # "none",
         rows' = rows \/ rows' = [rows EXCEPT ![c] = r],
         UNCHANGED <<bc, wm, booked, bro>>
  PROVE  Unseen
<1>1. rows \in [Coid -> Row]
  BY DEF SInv, IInv, TypeOK
<1>2. \A d \in Coid : Committed(d)' <=> Committed(d)
  BY <1>1 DEF Committed
<1>. QED  BY <1>2 DEF Unseen, KnownToBroker

\* A status the bar task writes with OwnRow.
LEMMA OwnRowUnseen ==
  ASSUME SInv, cur \in Coid, cur \in pend, NEW r, r.status # "none", rows' = OwnRow(cur, r),
         UNCHANGED <<bc, wm, booked, bro>>
  PROVE  Unseen
<1>1. CASE cur \in ghost
  BY <1>1 DEF OwnRow, Unseen, Committed, KnownToBroker
<1>2. CASE cur \notin ghost
  <2>1. Committed(cur)
    BY <1>2 DEF SInv, IInv, OrderInv
  <2>2. PICK c : c = cur
    OBVIOUS
  <2>3. rows' = [rows EXCEPT ![c] = r]
    BY <1>2, <2>2 DEF OwnRow
  <2>4. c \in Coid /\ Committed(c)
    BY <2>1, <2>2
  <2>. QED  BY <2>3, <2>4, MarkUnseen
<1>. QED  BY <1>1, <1>2

\* A bar that is decided advances the book.
LEMMA DecideAdvances ==
  ASSUME SInv, NEW new \in SUBSET NewOrders, NEW over \in SUBSET new, NEW cancels,
         Decide(new, over, cancels)
  PROVE  Book!Advance
<1>. USE LiveSessionAssumption
<1>1. /\ bc' = bc + 1 /\ wm' = barTs /\ memBc = bc /\ barTs > wm /\ barTs \in 1 .. MaxBars
      /\ UNCHANGED <<bro, booked>> /\ bc < MaxBars
  <2>1. /\ memBc = bc /\ (wm # 0 => memWm = wm) /\ barTs > memWm /\ bc <= wm
        /\ barTs \in BarNo /\ memWm \in BarNo /\ wm \in BarNo /\ bc \in BarNo
    BY DEF Decide, SInv, IInv, MemoryInv, TypeOK
  <2>. QED  BY <2>1 DEF Decide, BarNo, broVars
<1>2. new \subseteq {bc} \X Slots /\ new \subseteq Coid
  BY <1>1 DEF NewOrders, Coid, SInv, IInv, TypeOK, BarNo
<1>3. \A c \in Coid : rows'[c].status # "none" <=> rows[c].status # "none" \/ c \in new
  BY DEF Decide, NoRow
<1>4. {c \in Coid : rows'[c].status # "none"} = {c \in Coid : rows[c].status # "none"} \cup new
  BY <1>2, <1>3
<1>5. wm' \in (wm + 1) .. MaxBars
  BY <1>1 DEF SInv, IInv, TypeOK, BarNo
<1>. QED  BY <1>1, <1>2, <1>4, <1>5 DEF Book!Advance

\* A submission that the broker accepts is of a committed order.
LEMMA SendAccepts ==
  ASSUME SInv, NEW c \in Coid, SendOrder(c), bro[c].status = "unknown"
  PROVE  Book!Accept(c)
<1>1. /\ bro' = [bro EXCEPT ![c].status = "open"] /\ UNCHANGED <<rows, bc, wm, booked>>
      /\ bro \in [Coid -> BrokerOrder] /\ Committed(c)
  BY DEF SendOrder, dbVars, SInv, IInv, TypeOK, OrderInv
<1>2. \A d \in Coid : /\ bro'[d].filled = bro[d].filled
                      /\ bro'[d].status # "unknown" <=> bro[d].status # "unknown" \/ d = c
  BY <1>1 DEF BrokerOrder
<1>3. [d \in Coid |-> bro'[d].filled] = [d \in Coid |-> bro[d].filled]
  BY <1>2
<1>4. {d \in Coid : bro'[d].status # "unknown"} = {d \in Coid : bro[d].status # "unknown"} \cup {c}
  BY <1>2
<1>. QED  BY <1>1, <1>3, <1>4 DEF Book!Accept, Committed

\* An execution is of an order the broker has.
LEMMA ExecuteFills == ASSUME SInv, NEW c \in Coid, Execute(c) PROVE Book!Fill(c)
<1>. DEFINE was == [d \in Coid |-> bro[d].filled]
<1>1. /\ \A d \in Coid : bro'[d].filled = IF d = c THEN bro[d].filled + 1 ELSE bro[d].filled
      /\ \A d \in Coid : KnownToBroker(d)' <=> KnownToBroker(d)
      /\ KnownToBroker(c) /\ bro[c].filled < Qty
  BY ExecuteHeard
<1>2. UNCHANGED <<rows, bc, wm, booked>>
  BY DEF Execute, dbVars
<1>3. [d \in Coid |-> bro'[d].filled] = [was EXCEPT ![c] = was[c] + 1]
  BY <1>1
<1>4. {d \in Coid : bro'[d].status # "unknown"} = {d \in Coid : bro[d].status # "unknown"}
  BY <1>1 DEF KnownToBroker
<1>. QED  BY <1>1, <1>2, <1>3, <1>4 DEF Book!Fill, KnownToBroker

\* An applied fill posts a unit that was executed, or is known already.
LEMMA FillPosts ==
  ASSUME SInv, NEW h \in handling, ApplyFill(h)
  PROVE  Unseen \/ Book!Post(h.u.c)
<1>1. PICK c : c = h.u.c
  OBVIOUS
<1>2. /\ c \in Coid /\ Committed(c) /\ rows \in [Coid -> Row] /\ booked \in [Coid -> Nat]
      /\ UNCHANGED <<bro, bc, wm>>
  <2>1. h \in Picked /\ KnownToBroker(h.u.c)
    BY DEF SInv, IInv, TypeOK, BrokerInv, Genuine
  <2>2. c \in Coid
    BY <1>1, <2>1 DEF Picked, Update
  <2>3. Committed(c)
    BY <1>1, <2>1, <2>2 DEF SInv, IInv, BrokerInv
  <2>. QED  BY <2>2, <2>3 DEF ApplyFill, broVars, SInv, IInv, TypeOK
<1>3. \A d \in Coid : Committed(d)' <=> Committed(d)
  <2>1. CASE rows' = rows
    BY <2>1 DEF Committed
  <2>2. ASSUME NEW st \in {"filled", "partially_filled"}, NEW n,
               rows' = [rows EXCEPT ![c].status = st, ![c].filled = n]
        PROVE  \A d \in Coid : Committed(d)' <=> Committed(d)
    <3>1. \A d \in Coid : rows'[d].status = IF d = c THEN st ELSE rows[d].status
      BY <1>2, <2>2, RowMarked
    <3>. QED  BY <1>2, <2>2, <3>1 DEF Committed
  <2>. QED  BY <1>1, <2>1, <2>2 DEF ApplyFill
<1>4. \/ booked' = booked
      \/ booked[c] < bro[c].filled /\ booked' = [booked EXCEPT ![c] = booked[c] + 1]
  BY <1>1, FillCounted
<1>5. CASE booked' = booked
  BY <1>2, <1>3, <1>5 DEF Unseen, KnownToBroker
<1>6. CASE booked[c] < bro[c].filled /\ booked' = [booked EXCEPT ![c] = booked[c] + 1]
  <2>1. {d \in Coid : rows'[d].status # "none"} = {d \in Coid : rows[d].status # "none"}
    BY <1>3 DEF Committed
  <2>2. Book!Post(c)
    BY <1>2, <1>6, <2>1 DEF Book!Post, Book!BookOrder, Coid
  <2>. QED  BY <1>1, <2>2
<1>. QED  BY <1>4, <1>5, <1>6

\* Every step is one of the book's or one it does not show.
Shown == [Book!BookNext]_Book!bookVars

LEMMA BookStep == ASSUME SInv, [Next]_vars PROVE Shown
<1>. USE DEF dbVars, memVars, recVars, broVars
<1>u. ASSUME Unseen  PROVE Shown
  BY <1>u, UnseenStutters DEF Shown
<1>b. ASSUME Book!BookNext  PROVE Shown
  BY <1>b DEF Shown
<1>s. ASSUME UNCHANGED <<rows, bc, wm, booked, bro>>  PROVE Shown
  BY <1>s, <1>u DEF Unseen, Committed, KnownToBroker
<1>1. CASE Lifecycle
  BY <1>1, <1>s DEF Lifecycle, WarmStart, Crash
<1>2. ASSUME NEW ts \in 1 .. MaxBars, TakeBar(ts)  PROVE Shown
  BY <1>2, <1>s DEF TakeBar
<1>3. ASSUME NEW c \in Coid, ExpireOrder(c) \/ ApplyQueuedCancel(c)  PROVE Shown
  BY <1>3, <1>s DEF ExpireOrder, ApplyQueuedCancel
<1>4. CASE DropOrder \/ RefuseOrder \/ RecordOrder
  <2>1. /\ cur \in Coid /\ cur \in pend /\ res # "none" /\ rows \in [Coid -> Row]
        /\ UNCHANGED <<bc, wm, booked, bro>>
    BY <1>4 DEF DropOrder, RefuseOrder, RecordOrder, SInv, IInv, TypeOK, OrderInv
  <2>2. PICK r : rows' = OwnRow(cur, r) /\ r.status # "none"
    <3>1. CASE DropOrder \/ RefuseOrder
      <4>1. rows' = OwnRow(cur, [rows[cur] EXCEPT !.status = res])
        BY <3>1 DEF DropOrder, RefuseOrder
      <4>2. [rows[cur] EXCEPT !.status = res].status # "none"
        BY <2>1 DEF Row
      <4>. QED  BY <4>1, <4>2
    <3>2. CASE RecordOrder
      <4>1. rows' = OwnRow(cur, [rows[cur] EXCEPT !.status = res, !.bid = TRUE])
        BY <3>2 DEF RecordOrder
      <4>2. [rows[cur] EXCEPT !.status = res, !.bid = TRUE].status # "none"
        BY <2>1 DEF Row
      <4>. QED  BY <4>1, <4>2
    <3>. QED  BY <1>4, <3>1, <3>2
  <2>. QED  BY <2>1, <2>2, <1>u, OwnRowUnseen
<1>5. CASE DecideStep
  <2>1. PICK new \in SUBSET NewOrders : \E over \in SUBSET new, cancels \in SUBSET (pend \cup new) :
          Decide(new, over, cancels) \/ DecideFails(new, over, cancels)
    BY <1>5 DEF DecideStep
  <2>2. PICK over \in SUBSET new, cancels \in SUBSET (pend \cup new) :
          Decide(new, over, cancels) \/ DecideFails(new, over, cancels)
    BY <2>1
  <2>3. CASE Decide(new, over, cancels)
    BY <2>3, <1>b, DecideAdvances DEF Book!BookNext
  <2>4. CASE DecideFails(new, over, cancels)
    BY <2>4, <1>s DEF DecideFails, RolledBack
  <2>. QED  BY <2>2, <2>3, <2>4
<1>6. ASSUME NEW c \in Coid, SendOrder(c)  PROVE Shown
  <2>1. CASE bro[c].status = "unknown"
    BY <1>6, <2>1, <1>b, SendAccepts DEF Book!BookNext, Book!BookOrder, Coid
  <2>2. CASE bro[c].status # "unknown"
    BY <1>6, <2>2, <1>s DEF SendOrder
  <2>. QED  BY <2>1, <2>2
<1>7. ASSUME NEW c \in Coid, BlockOrder(c) \/ SendFails(c)  PROVE Shown
  BY <1>7, <1>s DEF BlockOrder, SendFails
<1>8. CASE BrokerReplies \/ ReplyFails \/ SubmitDone \/ WriteFails \/ PickUpdate \/ LoseUpdate
  BY <1>8, <1>s DEF BrokerReplies, ReplyFails, SubmitDone, WriteFails, PickUpdate, LoseUpdate
<1>9. ASSUME NEW h \in handling, ApplyFill(h)  PROVE Shown
  <2>1. h.u.c \in Coid
    BY DEF SInv, IInv, TypeOK, Picked, Update
  <2>. QED  BY <1>9, <2>1, <1>u, <1>b, FillPosts DEF Book!BookNext, Book!BookOrder, Coid
<1>10. ASSUME NEW h \in handling, ApplyClosed(h) \/ ApplyNew(h) \/ UpdateFails(h)  PROVE Shown
  <2>1. PICK c : c = h.u.c
    OBVIOUS
  <2>2. c \in Coid /\ Committed(c) /\ rows \in [Coid -> Row] /\ UNCHANGED <<bc, wm, booked, bro>>
    <3>1. h \in Picked /\ KnownToBroker(h.u.c)
      BY DEF SInv, IInv, TypeOK, BrokerInv, Genuine
    <3>2. c \in Coid
      BY <2>1, <3>1 DEF Picked, Update
    <3>3. Committed(c)
      BY <2>1, <3>1, <3>2 DEF SInv, IInv, BrokerInv
    <3>. QED  BY <1>10, <3>2, <3>3 DEF ApplyClosed, ApplyNew, UpdateFails, SInv, IInv, TypeOK
  <2>3. CASE rows' = rows
    BY <2>2, <2>3, <1>s
  <2>4. CASE rows' # rows
    <3>1. PICK r : rows' = [rows EXCEPT ![c] = r] /\ r.status # "none"
      <4>1. CASE ApplyClosed(h)
        <5>1. rows' = [rows EXCEPT ![c] = [rows[c] EXCEPT !.status = h.u.event]]
          BY <2>1, <4>1 DEF ApplyClosed
        <5>2. [rows[c] EXCEPT !.status = h.u.event].status # "none"
          BY <2>2, <4>1 DEF ApplyClosed, ClosedStatus, Row
        <5>. QED  BY <5>1, <5>2
      <4>2. CASE ApplyNew(h)
        <5>1. rows' = [rows EXCEPT ![c] = [rows[c] EXCEPT !.status = "accepted", !.bid = TRUE]]
          BY <2>1, <2>2, <2>4, <4>2 DEF ApplyNew
        <5>2. [rows[c] EXCEPT !.status = "accepted", !.bid = TRUE].status # "none"
          BY <2>2 DEF Row
        <5>. QED  BY <5>1, <5>2
      <4>3. CASE UpdateFails(h)
        BY <2>4, <4>3 DEF UpdateFails
      <4>. QED  BY <1>10, <4>1, <4>2, <4>3
    <3>. QED  BY <2>2, <3>1, <1>u, MarkUnseen
  <2>. QED  BY <2>3, <2>4
<1>11. ASSUME NEW s \in swept, SweepApplies(s)  PROVE Shown
  <2>1. PICK c : c = s.c
    OBVIOUS
  <2>2. /\ c \in Coid /\ Committed(c) /\ s.status # "none" /\ rows \in [Coid -> Row]
        /\ UNCHANGED <<bc, wm, booked, bro>>
    <3>1. c \in Coid /\ KnownToBroker(c)
      BY <2>1 DEF SInv, IInv, TypeOK, BrokerInv, Reading
    <3>. QED  BY <1>11, <3>1 DEF SweepApplies, SInv, IInv, TypeOK, BrokerInv
  <2>3. PICK r : rows' = [rows EXCEPT ![c] = r] /\ r.status # "none"
    <3>1. rows' = [rows EXCEPT ![c] = [rows[c] EXCEPT !.status = s.status, !.filled = s.filled]]
      BY <1>11, <2>1, <2>2 DEF SweepApplies
    <3>2. [rows[c] EXCEPT !.status = s.status, !.filled = s.filled].status # "none"
      BY <2>2 DEF Row
    <3>. QED  BY <3>1, <3>2
  <2>. QED  BY <2>2, <2>3, <1>u, MarkUnseen
<1>12. ASSUME NEW c \in Coid, SweepLoads(c)  PROVE Shown
  BY <1>12, <1>s DEF SweepLoads
<1>13. ASSUME NEW s \in swept, SweepReads(s) \/ SweepFails(s)  PROVE Shown
  BY <1>13, <1>s DEF SweepReads, SweepFails
<1>14. ASSUME NEW c \in Coid, Execute(c)  PROVE Shown
  BY <1>14, <1>b, ExecuteFills DEF Book!BookNext, Book!BookOrder, Coid
<1>15. ASSUME NEW c \in Coid, NEW st \in ClosedStatus, Close(c, st)  PROVE Shown
  <2>1. UNCHANGED <<rows, bc, wm, booked>>
    BY <1>15 DEF Close
  <2>. QED  BY <1>15, <2>1, <1>u, CloseHeard DEF Unseen, Committed
<1>16. CASE UNCHANGED vars
  BY <1>16, <1>s DEF vars
<1>. QED
  BY <1>1, <1>2, <1>3, <1>4, <1>5, <1>6, <1>7, <1>8, <1>9, <1>10, <1>11, <1>12, <1>13, <1>14,
     <1>15, <1>16 DEF Next, BarTask, SendTask, Reconcile, Sweep, Broker

\* The session keeps the promise of OrderBook under any number of crashes, lost and repeated
\* updates, failed transactions and failed broker calls.
THEOREM KeepsTheBook == Spec => ImplementsOrderBook
<1>1. Init => Book!BookInit
  <2>1. SUFFICES ASSUME Init  PROVE Book!BookInit
    OBVIOUS
  <2>2. {c \in Coid : rows[c].status # "none"} = {} /\ {c \in Coid : bro[c].status # "unknown"} = {}
    BY <2>1 DEF Init, NoRow
  <2>3. [c \in Coid |-> bro[c].filled] = [c \in Coid |-> 0]
    BY <2>1 DEF Init
  <2>. QED  BY <2>1, <2>2, <2>3 DEF Init, Book!BookInit, Book!BookOrder, Coid
<1>2. SInv /\ [Next]_vars => [Book!BookNext]_Book!bookVars
  BY BookStep DEF Shown
<1>. QED  BY <1>1, <1>2, SInvInit, SInvStep, PTL DEF Spec, ImplementsOrderBook, Book!BookSpec

-----------------------------------------------------------------------------
(* What is heard of the broker is true *)

\* The broker has done with an order.
Ended(c) == bro[c].status \notin {"unknown", "open"}

\* The updates under way and in hand.
Words == {stream[i] : i \in 1 .. Len(stream)} \cup {h.u : h \in handling}

\* Nothing new is heard, or one update more.
Fewer ==
  /\ \/ stream' = stream
     \/ stream' = <<>>
     \/ stream # <<>> /\ stream' = Tail(stream)
  /\ \A h \in handling' : h \in handling \/ (stream # <<>> /\ h.u = Head(stream))

LEMMA WordsFewer == ASSUME TypeOK, Fewer PROVE Words' \subseteq Words
<1>1. stream \in Seq(Update)
  BY DEF TypeOK
<1>2. ASSUME NEW i \in 1 .. Len(stream')  PROVE stream'[i] \in Words
  <2>1. CASE stream' = stream \/ stream' = <<>>
    BY <1>1, <1>2, <2>1 DEF Words
  <2>2. CASE stream # <<>> /\ stream' = Tail(stream)
    <3>1. i + 1 \in 1 .. Len(stream) /\ stream'[i] = stream[i + 1]
      BY <1>1, <1>2, <2>2
    <3>. QED  BY <3>1 DEF Words
  <2>. QED  BY <2>1, <2>2 DEF Fewer
<1>3. ASSUME NEW h \in handling'  PROVE h.u \in Words
  <2>1. stream # <<>> => 1 \in 1 .. Len(stream) /\ Head(stream) = stream[1]
    BY <1>1
  <2>. QED  BY <1>3, <2>1 DEF Fewer, Words
<1>. QED  BY <1>2, <1>3 DEF Words

LEMMA WordsMore ==
  ASSUME TypeOK, NEW u, stream' = stream \/ stream' = Append(stream, u), handling' = handling
  PROVE  Words' \subseteq Words \cup {u}
<1>1. stream \in Seq(Update)
  BY DEF TypeOK
<1>2. ASSUME NEW i \in 1 .. Len(stream')  PROVE stream'[i] \in Words \cup {u}
  <2>1. CASE stream' = stream
    BY <1>2, <2>1 DEF Words
  <2>2. CASE stream' = Append(stream, u)
    <3>1. \/ i \in 1 .. Len(stream) /\ stream'[i] = stream[i]
          \/ stream'[i] = u
      BY <1>1, <1>2, <2>2
    <3>. QED  BY <3>1 DEF Words
  <2>. QED  BY <2>1, <2>2
<1>. QED  BY <1>2 DEF Words

\* The updates in hand are updates.
LEMMA WordsTyped == TypeOK => Words \subseteq Update
BY DEF TypeOK, Words, Picked

\* What a step does to the broker's orders, and what can be heard of it.
LEMMA Hears ==
  ASSUME IInv, [Next]_vars
  PROVE  \/ bro' = bro /\ Words' \subseteq Words
         \/ \E c \in Coid : /\ SendOrder(c) /\ bro[c].status = "unknown"
                            /\ bro'[c].status = "open" /\ \A d \in Coid \ {c} : bro'[d] = bro[d]
                            /\ Words' \subseteq Words \cup {[c |-> c, event |-> "new", n |-> 0]}
         \/ \E c \in Coid : /\ Broker /\ bro[c].status = "open"
                            /\ bro'[c].status # "unknown" /\ \A d \in Coid \ {c} : bro'[d] = bro[d]
                            /\ \E u \in Update : /\ u.c = c /\ u.event # "new"
                                                /\ (u.event \in ClosedStatus => bro'[c].status = u.event)
                                                /\ Words' \subseteq Words \cup {u}
<1>. USE LiveSessionAssumption DEF dbVars, memVars, recVars, broVars
<1>t. TypeOK
  BY DEF IInv
<1>f. ASSUME bro' = bro, Fewer  PROVE bro' = bro /\ Words' \subseteq Words
  BY <1>f, <1>t, WordsFewer
<1>1. CASE Lifecycle
  BY <1>1, <1>f DEF Lifecycle, WarmStart, Crash, Fewer
<1>2. CASE BarTask \/ \E ts \in 1 .. MaxBars : TakeBar(ts)
  BY <1>2, <1>f DEF BarTask, DecideStep, TakeBar, ExpireOrder, ApplyQueuedCancel, DropOrder, Decide,
              DecideFails, Fewer
<1>3. ASSUME NEW c \in Coid, SendOrder(c), bro[c].status = "unknown"
      PROVE  /\ bro'[c].status = "open" /\ \A d \in Coid \ {c} : bro'[d] = bro[d]
             /\ Words' \subseteq Words \cup {[c |-> c, event |-> "new", n |-> 0]}
  <2>1. /\ bro' = [bro EXCEPT ![c].status = "open"] /\ bro \in [Coid -> BrokerOrder]
        /\ stream' = Append(stream, [c |-> c, event |-> "new", n |-> 0]) /\ handling' = handling
    BY <1>3, <1>t DEF SendOrder, TypeOK
  <2>2. bro'[c].status = "open" /\ \A d \in Coid \ {c} : bro'[d] = bro[d]
    BY <2>1 DEF BrokerOrder
  <2>. QED  BY <1>t, <2>1, <2>2, WordsMore
<1>4. ASSUME NEW c \in Coid, SendOrder(c), bro[c].status # "unknown"  PROVE bro' = bro /\ Fewer
  BY <1>4 DEF SendOrder, Fewer
<1>5. CASE SendTask
  BY <1>3, <1>4, <1>5, <1>f
  DEF SendTask, BlockOrder, SendFails, BrokerReplies, ReplyFails, RecordOrder, RefuseOrder, SubmitDone,
      Fewer
<1>6. CASE WriteFails \/ LoseUpdate
  BY <1>6, <1>f DEF WriteFails, LoseUpdate, Fewer
<1>7. CASE PickUpdate
  BY <1>7, <1>f DEF PickUpdate, Fewer
<1>8. ASSUME NEW h \in handling, ApplyFill(h) \/ ApplyClosed(h) \/ ApplyNew(h) \/ UpdateFails(h)
      PROVE  bro' = bro /\ Fewer
  BY <1>8 DEF ApplyFill, ApplyClosed, ApplyNew, UpdateFails, Handle, Fewer
<1>9. CASE Sweep
  BY <1>9, <1>f DEF Sweep, SweepLoads, SweepReads, SweepApplies, SweepFails, Fewer
<1>10. CASE Broker
  <2>1. PICK c \in Coid : Execute(c) \/ \E st \in ClosedStatus : Close(c, st)
    BY <1>10 DEF Broker
  <2>2. PICK u : /\ u \in Update /\ u.c = c /\ u.event # "new"
                 /\ (u.event \in ClosedStatus => bro'[c].status = u.event)
                 /\ (stream' = stream \/ stream' = Append(stream, u))
    <3>1. CASE Execute(c)
      <4>. DEFINE v == [c |-> c, event |-> "fill", n |-> bro[c].filled + 1]
      <4>1. bro[c].filled + 1 \in 0 .. Qty
        BY <3>1 DEF Execute, IInv, TypeOK, BrokerInv, BrokerOrder
      <4>2. v \in Update /\ v.c = c /\ v.event = "fill"
        BY <4>1 DEF Update
      <4>3. stream' = stream \/ stream' = Append(stream, v)
        BY <3>1 DEF Execute, Emit
      <4>. QED  BY <4>2, <4>3 DEF ClosedStatus
    <3>2. ASSUME NEW st \in ClosedStatus, Close(c, st)
          PROVE  \E u : /\ u \in Update /\ u.c = c /\ u.event # "new"
                        /\ (u.event \in ClosedStatus => bro'[c].status = u.event)
                        /\ (stream' = stream \/ stream' = Append(stream, u))
      <4>. DEFINE v == [c |-> c, event |-> st, n |-> bro[c].filled]
      <4>1. v \in Update /\ v.c = c /\ v.event = st
        BY <1>t DEF Update, TypeOK, BrokerOrder
      <4>2. stream' = stream \/ stream' = Append(stream, v)
        BY <3>2 DEF Close, Emit
      <4>3. bro'[c].status = st
        BY <3>2, <1>t DEF Close, TypeOK, BrokerOrder
      <4>. QED  BY <4>1, <4>2, <4>3 DEF ClosedStatus
    <3>. QED  BY <2>1, <3>1, <3>2
  <2>3. handling' = handling /\ bro[c].status = "open"
    BY <2>1 DEF Execute, Close
  <2>4. bro'[c].status # "unknown" /\ \A d \in Coid \ {c} : bro'[d] = bro[d]
    <3>1. bro \in [Coid -> BrokerOrder]
      BY <1>t DEF TypeOK
    <3>. QED  BY <2>1, <3>1 DEF Execute, Close, BrokerOrder, ClosedStatus
  <2>5. Words' \subseteq Words \cup {u}
    BY <1>t, <2>2, <2>3, WordsMore
  <2>. QED  BY <1>10, <2>2, <2>3, <2>4, <2>5
<1>11. CASE UNCHANGED vars
  BY <1>11, <1>f DEF vars, Fewer
<1>. QED
  BY <1>1, <1>2, <1>5, <1>6, <1>7, <1>8, <1>9, <1>10, <1>11, <1>f DEF Next, Reconcile

\* What a step writes to the rows.
Marked(c, st, b, n) == rows' = [rows EXCEPT ![c] = [status |-> st, bid |-> b, filled |-> n]]

Inserted(new, over) ==
  rows' = [c \in Coid |->
             IF c \in new /\ rows[c].status = "none"
               THEN [NoRow EXCEPT !.status = IF c \in over THEN "rejected" ELSE "pending"]
               ELSE rows[c]]

RowsMove ==
  \/ rows' = rows
  \/ pc \in {"drop", "refuse"} /\ cur \notin ghost /\ Marked(cur, res, rows[cur].bid, rows[cur].filled)
  \/ pc = "record" /\ cur \notin ghost /\ Marked(cur, res, TRUE, rows[cur].filled)
  \/ \E u \in Words :
       \/ /\ u.event = "fill"
          /\ \E st \in {"filled", "partially_filled"} : Marked(u.c, st, rows[u.c].bid, u.n)
       \/ u.event \in ClosedStatus /\ Marked(u.c, u.event, rows[u.c].bid, rows[u.c].filled)
       \/ u.event = "new" /\ Marked(u.c, "accepted", TRUE, rows[u.c].filled)
  \/ \E s \in swept : s.status # NULL /\ Marked(s.c, s.status, rows[s.c].bid, s.filled)
  \/ DecideStep /\ \E new \in SUBSET NewOrders : \E over \in SUBSET new : Inserted(new, over)

LEMMA RowFields ==
  ASSUME NEW r \in Row, NEW st, NEW n
  PROVE  /\ [r EXCEPT !.status = st] = [status |-> st, bid |-> r.bid, filled |-> r.filled]
         /\ [r EXCEPT !.status = st, !.bid = TRUE] = [status |-> st, bid |-> TRUE, filled |-> r.filled]
         /\ [r EXCEPT !.status = st, !.filled = n] = [status |-> st, bid |-> r.bid, filled |-> n]
<1>1. [r EXCEPT !.status = st] = [status |-> st, bid |-> r.bid, filled |-> r.filled]
  BY DEF Row
<1>2. [r EXCEPT !.status = st, !.bid = TRUE] = [status |-> st, bid |-> TRUE, filled |-> r.filled]
  <2>1. PICK q : q = [status |-> st, bid |-> r.bid, filled |-> r.filled]
    OBVIOUS
  <2>2. [r EXCEPT !.status = st, !.bid = TRUE] = [q EXCEPT !.bid = TRUE]
    BY <1>1, <2>1
  <2>3. ASSUME NEW b
        PROVE  [q EXCEPT !.bid = b] = [status |-> st, bid |-> b, filled |-> r.filled]
    BY <2>1
  <2>. QED  BY <2>2, <2>3
<1>3. [r EXCEPT !.status = st, !.filled = n] = [status |-> st, bid |-> r.bid, filled |-> n]
  <2>1. PICK q : q = [status |-> st, bid |-> r.bid, filled |-> r.filled]
    OBVIOUS
  <2>2. [r EXCEPT !.status = st, !.filled = n] = [q EXCEPT !.filled = n]
    BY <1>1, <2>1
  <2>3. [q EXCEPT !.filled = n] = [status |-> st, bid |-> r.bid, filled |-> n]
    BY <2>1
  <2>. QED  BY <2>2, <2>3
<1>. QED  BY <1>1, <1>2, <1>3

LEMMA RowStep == ASSUME IInv, [Next]_vars PROVE RowsMove
<1>. USE DEF dbVars, memVars, recVars, broVars
<1>t. rows \in [Coid -> Row]
  BY DEF IInv, TypeOK
<1>m. ASSUME NEW c \in Coid, NEW st, NEW n
      PROVE  /\ [rows[c] EXCEPT !.status = st]
                  = [status |-> st, bid |-> rows[c].bid, filled |-> rows[c].filled]
             /\ [rows[c] EXCEPT !.status = st, !.bid = TRUE]
                  = [status |-> st, bid |-> TRUE, filled |-> rows[c].filled]
             /\ [rows[c] EXCEPT !.status = st, !.filled = n]
                  = [status |-> st, bid |-> rows[c].bid, filled |-> n]
  BY <1>t, RowFields, ZenonT(30)
<1>s. ASSUME rows' = rows  PROVE RowsMove
  BY <1>s DEF RowsMove
<1>c. pc \in {"drop", "reply", "record", "refuse"} => cur \in Coid
  BY DEF IInv, TypeOK, OrderInv
<1>h. \A h \in handling : h.u \in Words /\ h.u.c \in Coid
  BY DEF IInv, TypeOK, Words, Picked, Update
<1>1. CASE Lifecycle
  BY <1>1, <1>s DEF Lifecycle, WarmStart, Crash
<1>2. ASSUME NEW ts \in 1 .. MaxBars, TakeBar(ts)  PROVE RowsMove
  BY <1>2, <1>s DEF TakeBar
<1>3. ASSUME NEW c \in Coid, ExpireOrder(c) \/ ApplyQueuedCancel(c)  PROVE RowsMove
  BY <1>3, <1>s DEF ExpireOrder, ApplyQueuedCancel
<1>4. CASE DropOrder \/ RefuseOrder
  <2>1. pc \in {"drop", "refuse"} /\ rows' = OwnRow(cur, [rows[cur] EXCEPT !.status = res])
    BY <1>4 DEF DropOrder, RefuseOrder
  <2>2. [rows[cur] EXCEPT !.status = res] = [status |-> res, bid |-> rows[cur].bid, filled |-> rows[cur].filled]
    BY <2>1, <1>c, <1>m
  <2>3. CASE cur \in ghost
    BY <2>1, <2>3, <1>s DEF OwnRow
  <2>4. CASE cur \notin ghost
    <3>1. Marked(cur, res, rows[cur].bid, rows[cur].filled)
      BY <2>1, <2>2, <2>4 DEF OwnRow, Marked
    <3>. QED  BY <2>1, <2>4, <3>1 DEF RowsMove
  <2>. QED  BY <2>3, <2>4
<1>6. CASE RecordOrder
  <2>1. pc = "record" /\ rows' = OwnRow(cur, [rows[cur] EXCEPT !.status = res, !.bid = TRUE])
    BY <1>6 DEF RecordOrder
  <2>2. [rows[cur] EXCEPT !.status = res, !.bid = TRUE] = [status |-> res, bid |-> TRUE, filled |-> rows[cur].filled]
    BY <2>1, <1>c, <1>m
  <2>3. CASE cur \in ghost
    BY <2>1, <2>3, <1>s DEF OwnRow
  <2>4. CASE cur \notin ghost
    <3>1. Marked(cur, res, TRUE, rows[cur].filled)
      BY <2>1, <2>2, <2>4 DEF OwnRow, Marked
    <3>. QED  BY <2>1, <2>4, <3>1 DEF RowsMove
  <2>. QED  BY <2>3, <2>4
<1>7. CASE DecideStep
  <2>1. PICK new \in SUBSET NewOrders : \E over \in SUBSET new :
          Inserted(new, over) \/ rows' = rows
    BY <1>7 DEF DecideStep, Decide, DecideFails, RolledBack, Inserted
  <2>. QED  BY <1>7, <2>1 DEF RowsMove
<1>8. ASSUME NEW c \in Coid, BlockOrder(c) \/ SendOrder(c) \/ SendFails(c)  PROVE RowsMove
  BY <1>8, <1>s DEF BlockOrder, SendOrder, SendFails
<1>9. CASE BrokerReplies \/ ReplyFails \/ SubmitDone
  BY <1>9, <1>s DEF BrokerReplies, ReplyFails, SubmitDone
<1>10. CASE WriteFails \/ PickUpdate \/ LoseUpdate \/ Broker
  BY <1>10, <1>s DEF WriteFails, PickUpdate, LoseUpdate, Broker, Execute, Close
<1>11. ASSUME NEW h \in handling, ApplyFill(h)  PROVE RowsMove
  <2>1. ASSUME NEW st \in {"filled", "partially_filled"},
               rows' = [rows EXCEPT ![h.u.c].status = st, ![h.u.c].filled = h.u.n]
        PROVE  Marked(h.u.c, st, rows[h.u.c].bid, h.u.n)
    <3>1. PICK c \in Coid : c = h.u.c
      BY <1>h
    <3>2. rows' = [rows EXCEPT ![c] = [rows[c] EXCEPT !.status = st, !.filled = h.u.n]]
      BY <2>1, <3>1, <1>t
    <3>. QED  BY <3>1, <3>2, <1>m, ZenonT(30) DEF Marked
  <2>2. h.u.event = "fill"
    BY <1>11 DEF ApplyFill
  <2>3. \/ rows' = rows
        \/ \E st \in {"filled", "partially_filled"} :
             rows' = [rows EXCEPT ![h.u.c].status = st, ![h.u.c].filled = h.u.n]
    BY <1>11 DEF ApplyFill
  <2>. QED  BY <1>h, <1>s, <2>1, <2>2, <2>3 DEF RowsMove
<1>12. ASSUME NEW h \in handling, ApplyClosed(h)  PROVE RowsMove
  <2>1. Marked(h.u.c, h.u.event, rows[h.u.c].bid, rows[h.u.c].filled) /\ h.u.event \in ClosedStatus
    <3>1. rows' = [rows EXCEPT ![h.u.c] = [rows[h.u.c] EXCEPT !.status = h.u.event]]
      BY <1>12 DEF ApplyClosed
    <3>. QED  BY <1>12, <3>1, <1>m, <1>h, ZenonT(30) DEF Marked, ApplyClosed
  <2>. QED  BY <1>h, <2>1 DEF RowsMove
<1>13. ASSUME NEW h \in handling, ApplyNew(h)  PROVE RowsMove
  <2>1. CASE h.bid
    BY <1>13, <2>1, <1>s DEF ApplyNew
  <2>2. CASE ~h.bid
    <3>1. PICK c \in Coid : c = h.u.c
      BY <1>h
    <3>2. rows' = [rows EXCEPT ![c].status = "accepted", ![c].bid = TRUE]
      BY <1>13, <2>2, <3>1 DEF ApplyNew
    <3>3. rows' = [rows EXCEPT ![c] = [rows[c] EXCEPT !.status = "accepted", !.bid = TRUE]]
      BY <3>2, <1>t
    <3>4. Marked(c, "accepted", TRUE, rows[c].filled) /\ h.u.event = "new"
      BY <1>13, <3>3, <1>m DEF Marked, ApplyNew
    <3>. QED  BY <1>h, <3>1, <3>4 DEF RowsMove
  <2>. QED  BY <2>1, <2>2
<1>14. ASSUME NEW h \in handling, UpdateFails(h)  PROVE RowsMove
  BY <1>14, <1>s DEF UpdateFails
<1>15. ASSUME NEW c \in Coid, SweepLoads(c)  PROVE RowsMove
  BY <1>15, <1>s DEF SweepLoads
<1>16. ASSUME NEW s \in swept, SweepReads(s) \/ SweepFails(s)  PROVE RowsMove
  BY <1>16, <1>s DEF SweepReads, SweepFails
<1>17. ASSUME NEW s \in swept, SweepApplies(s)  PROVE RowsMove
  <2>1. PICK c \in Coid : c = s.c
    BY DEF IInv, TypeOK, Reading
  <2>2. rows' = [rows EXCEPT ![c] = [rows[c] EXCEPT !.status = s.status, !.filled = s.filled]]
    <3>1. rows' = [rows EXCEPT ![c].status = s.status, ![c].filled = s.filled]
      BY <1>17, <2>1 DEF SweepApplies
    <3>. QED  BY <3>1, <1>t
  <2>3. s.status # NULL
    BY <1>17 DEF SweepApplies
  <2>4. Marked(s.c, s.status, rows[s.c].bid, s.filled)
    <3>1. PICK st : st = s.status
      OBVIOUS
    <3>2. PICK n : n = s.filled
      OBVIOUS
    <3>3. [rows[c] EXCEPT !.status = st, !.filled = n]
            = [status |-> st, bid |-> rows[c].bid, filled |-> n]
      BY <1>m
    <3>. QED  BY <2>1, <2>2, <3>1, <3>2, <3>3 DEF Marked
  <2>. QED  BY <2>3, <2>4 DEF RowsMove
<1>18. CASE UNCHANGED vars
  BY <1>18, <1>s DEF vars
<1>. QED
  BY <1>1, <1>2, <1>3, <1>4, <1>6, <1>7, <1>8, <1>9, <1>10, <1>11, <1>12, <1>13, <1>14,
     <1>15, <1>16, <1>17, <1>18 DEF Next, BarTask, SendTask, Reconcile, Sweep

\* What a step does to the row of one order.
RowMoves(c) ==
  \/ rows'[c] = rows[c]
  \/ /\ pc \in {"drop", "refuse"} /\ cur = c
     /\ rows'[c] = [status |-> res, bid |-> rows[c].bid, filled |-> rows[c].filled]
  \/ /\ pc = "record" /\ cur = c
     /\ rows'[c] = [status |-> res, bid |-> TRUE, filled |-> rows[c].filled]
  \/ \E u \in Words :
       /\ u.c = c
       /\ \/ /\ u.event = "fill"
             /\ \E st \in {"filled", "partially_filled"} :
                  rows'[c] = [status |-> st, bid |-> rows[c].bid, filled |-> u.n]
          \/ /\ u.event \in ClosedStatus
             /\ rows'[c] = [status |-> u.event, bid |-> rows[c].bid, filled |-> rows[c].filled]
          \/ /\ u.event = "new"
             /\ rows'[c] = [status |-> "accepted", bid |-> TRUE, filled |-> rows[c].filled]
  \/ \E s \in swept :
       /\ s.c = c /\ s.status # NULL
       /\ rows'[c] = [status |-> s.status, bid |-> rows[c].bid, filled |-> s.filled]
  \/ /\ DecideStep
     /\ rows[c].status = "none" /\ rows'[c].status \in {"pending", "rejected"}
     /\ rows'[c].bid = FALSE

LEMMA EachRow == ASSUME IInv, RowsMove, NEW c \in Coid PROVE RowMoves(c)
<1>t. rows \in [Coid -> Row]
  BY DEF IInv, TypeOK
<1>m. ASSUME NEW d, NEW r, rows' = [rows EXCEPT ![d] = r]
      PROVE  rows'[c] = rows[c] \/ (d = c /\ rows'[c] = r)
  BY <1>m, <1>t
<1>1. CASE rows' = rows
  BY <1>1 DEF RowMoves
<1>2. CASE pc \in {"drop", "refuse"} /\ cur \notin ghost /\ Marked(cur, res, rows[cur].bid, rows[cur].filled)
  BY <1>2, <1>m DEF RowMoves, Marked
<1>3. CASE pc = "record" /\ cur \notin ghost /\ Marked(cur, res, TRUE, rows[cur].filled)
  BY <1>3, <1>m DEF RowMoves, Marked
<1>4. ASSUME NEW u \in Words, u.event = "fill", NEW st \in {"filled", "partially_filled"},
             Marked(u.c, st, rows[u.c].bid, u.n)
      PROVE  RowMoves(c)
  BY <1>4, <1>m DEF RowMoves, Marked
<1>5. ASSUME NEW u \in Words, u.event \in ClosedStatus,
             Marked(u.c, u.event, rows[u.c].bid, rows[u.c].filled)
      PROVE  RowMoves(c)
  BY <1>5, <1>m DEF RowMoves, Marked
<1>6. ASSUME NEW u \in Words, u.event = "new", Marked(u.c, "accepted", TRUE, rows[u.c].filled)
      PROVE  RowMoves(c)
  BY <1>6, <1>m DEF RowMoves, Marked
<1>7. ASSUME NEW s \in swept, s.status # NULL, Marked(s.c, s.status, rows[s.c].bid, s.filled)
      PROVE  RowMoves(c)
  BY <1>7, <1>m DEF RowMoves, Marked
<1>8. ASSUME DecideStep, NEW new \in SUBSET NewOrders, NEW over \in SUBSET new, Inserted(new, over)
      PROVE  RowMoves(c)
  <2>1. CASE c \in new /\ rows[c].status = "none"
    <3>1. rows'[c] = [NoRow EXCEPT !.status = IF c \in over THEN "rejected" ELSE "pending"]
      BY <1>8, <2>1 DEF Inserted
    <3>2. rows'[c].status \in {"pending", "rejected"} /\ rows'[c].bid = FALSE
      BY <3>1 DEF NoRow
    <3>. QED  BY <1>8, <2>1, <3>2 DEF RowMoves
  <2>2. CASE ~(c \in new /\ rows[c].status = "none")
    BY <1>8, <2>2 DEF Inserted, RowMoves
  <2>. QED  BY <2>1, <2>2
<1>. QED
  BY <1>1, <1>2, <1>3, <1>4, <1>5, <1>6, <1>7, <1>8 DEF RowsMove

-----------------------------------------------------------------------------
(* What the rows, the task's next write, the updates and the readings say *)

\* A row that waits to be sent has no broker id; a row at the broker has its id or a fill.
RowsInv ==
  \A c \in Coid :
    /\ rows[c].status = "pending" => ~rows[c].bid
    /\ rows[c].status \in {"accepted", "partially_filled"} => rows[c].bid \/ rows[c].filled > 0

\* The status the task is about to write.
TaskInv ==
  /\ pc = "drop" => res \in {"expired", "canceled"}
  /\ pc = "refuse" => res \in {"rejected", "error"}
  /\ pc = "record" => cur \in knows /\ res # "pending" /\ (res \in ClosedStatus => Ended(cur))

\* What is heard to be over is over; a process that is down hears nothing.
HeardInv ==
  /\ \A u \in Words : u.event \in ClosedStatus => Ended(u.c)
  /\ \A s \in swept : /\ rows[s.c].bid
                      /\ s.status # NULL => s.status # "pending"
                      /\ s.status \in ClosedStatus \ {NULL} => Ended(s.c)
  /\ phase = "down" => Words = {} /\ swept = {} /\ \A c \in Coid : told[c] = <<>>

FInv == IInv /\ RowsInv /\ TaskInv /\ HeardInv

\* What is heard is heard of orders the broker knows.
LEMMA WordsGenuine == ASSUME IInv, NEW u \in Words PROVE u.c \in Coid /\ Genuine(u)
<1>1. u \in Update
  BY WordsTyped DEF IInv
<1>. QED  BY <1>1 DEF IInv, BrokerInv, Words, Update

\* An order keeps its broker id.
LEMMA IdKept ==
  ASSUME FInv, [Next]_vars, NEW c \in Coid, rows[c].bid = TRUE
  PROVE  rows'[c].bid = TRUE
<1>1. RowMoves(c)
  BY RowStep, EachRow DEF FInv
<1>2. rows[c].status # "none"
  BY DEF FInv, IInv, BrokerInv, Committed
<1>3. ASSUME NEW st, NEW n, rows'[c] = [status |-> st, bid |-> TRUE, filled |-> n]
      PROVE  rows'[c].bid = TRUE
  BY <1>3
<1>. QED  BY <1>1, <1>2, <1>3 DEF RowMoves

LEMMA RowsInvStep == ASSUME FInv, [Next]_vars PROVE RowsInv'
<1>. SUFFICES ASSUME NEW c \in Coid
     PROVE  /\ rows'[c].status = "pending" => ~rows'[c].bid
            /\ rows'[c].status \in {"accepted", "partially_filled"} => rows'[c].bid \/ rows'[c].filled > 0
  BY DEF RowsInv
<1>1. RowMoves(c)
  BY RowStep, EachRow DEF FInv
<1>2. /\ rows[c].status = "pending" => ~rows[c].bid
      /\ rows[c].status \in {"accepted", "partially_filled"} => rows[c].bid \/ rows[c].filled > 0
  BY DEF FInv, RowsInv
<1>3. \A u \in Words : Genuine(u) /\ u \in Update
  BY WordsGenuine, WordsTyped DEF FInv, IInv
<1>4. TaskInv /\ \A s \in swept : rows[s.c].bid /\ (s.status # NULL => s.status # "pending")
  BY DEF FInv, HeardInv
<1>5. CASE rows'[c] = rows[c]
  BY <1>2, <1>5
<1>6. CASE /\ pc \in {"drop", "refuse"} /\ cur = c
           /\ rows'[c] = [status |-> res, bid |-> rows[c].bid, filled |-> rows[c].filled]
  <2>1. rows'[c].status \in {"expired", "canceled", "rejected", "error"}
    BY <1>4, <1>6 DEF TaskInv
  <2>. QED  BY <2>1
<1>7. CASE /\ pc = "record" /\ cur = c
           /\ rows'[c] = [status |-> res, bid |-> TRUE, filled |-> rows[c].filled]
  <2>1. rows'[c].status # "pending" /\ rows'[c].bid = TRUE
    BY <1>4, <1>7 DEF TaskInv
  <2>. QED  BY <2>1
<1>8. ASSUME NEW u \in Words, u.event = "fill", NEW st \in {"filled", "partially_filled"},
             rows'[c] = [status |-> st, bid |-> rows[c].bid, filled |-> u.n]
      PROVE  /\ rows'[c].status = "pending" => ~rows'[c].bid
             /\ rows'[c].status \in {"accepted", "partially_filled"} => rows'[c].bid \/ rows'[c].filled > 0
  <2>1. rows'[c].status # "pending" /\ rows'[c].filled = u.n /\ u.n >= 1 /\ u.n \in Int
    BY <1>3, <1>8 DEF Genuine, Update
  <2>. QED  BY <2>1
<1>9. ASSUME NEW u \in Words, u.event \in ClosedStatus,
             rows'[c] = [status |-> u.event, bid |-> rows[c].bid, filled |-> rows[c].filled]
      PROVE  rows'[c].status \in ClosedStatus
  BY <1>9
<1>10. CASE rows'[c] = [status |-> "accepted", bid |-> TRUE, filled |-> rows[c].filled]
  <2>1. rows'[c].status # "pending" /\ rows'[c].bid = TRUE
    BY <1>10
  <2>. QED  BY <2>1
<1>11. ASSUME NEW s \in swept, s.c = c, s.status # NULL,
              rows'[c] = [status |-> s.status, bid |-> rows[c].bid, filled |-> s.filled]
       PROVE  rows'[c].status # "pending" /\ rows'[c].bid = rows[c].bid /\ rows[c].bid
  BY <1>4, <1>11
<1>12. CASE /\ rows[c].status = "none" /\ rows'[c].status \in {"pending", "rejected"}
            /\ rows'[c].bid = FALSE
  BY <1>12
<1>. QED
  BY <1>1, <1>5, <1>6, <1>7, <1>8, <1>9, <1>10, <1>11, <1>12 DEF RowMoves, ClosedStatus

\* What is over at the broker stays over.
LEMMA EndedStays == ASSUME IInv, [Next]_vars, NEW c \in Coid, Ended(c) PROVE Ended(c)'
BY Hears DEF Ended

\* What a step does to the reading the sweep holds.
LEMMA SweptStep ==
  ASSUME [Next]_vars
  PROVE  \/ swept' \subseteq swept
         \/ \E c \in Coid : SweepLoads(c)
         \/ \E s \in swept : SweepReads(s)
<1>. USE DEF dbVars, memVars, recVars, broVars
<1>1. CASE Lifecycle \/ LoseUpdate \/ Broker \/ WriteFails
  BY <1>1 DEF Lifecycle, WarmStart, Crash, LoseUpdate, Broker, Execute, Close, WriteFails
<1>2. CASE BarTask \/ \E ts \in 1 .. MaxBars : TakeBar(ts)
  BY <1>2 DEF BarTask, DecideStep, TakeBar, ExpireOrder, ApplyQueuedCancel, DropOrder, Decide, DecideFails
<1>3. CASE SendTask
  BY <1>3 DEF SendTask, BlockOrder, SendOrder, SendFails, BrokerReplies, ReplyFails, RecordOrder,
              RefuseOrder, SubmitDone
<1>4. CASE Reconcile
  BY <1>4 DEF Reconcile, PickUpdate, ApplyFill, ApplyClosed, ApplyNew, UpdateFails
<1>5. CASE Sweep
  BY <1>5 DEF Sweep, SweepApplies, SweepFails
<1>6. CASE UNCHANGED vars
  BY <1>6 DEF vars
<1>. QED  BY <1>1, <1>2, <1>3, <1>4, <1>5, <1>6 DEF Next

\* A process that stays down hears nothing and tells nothing.
LEMMA DownStep ==
  ASSUME FInv, [Next]_vars, phase = "down", phase' = "down"
  PROVE  Words' = {} /\ swept' = {} /\ told' = told
<1>. USE DEF dbVars, memVars, recVars, broVars
<1>1. /\ pc = "idle" /\ Words = {} /\ swept = {} /\ todo = {} /\ stream \in Seq(Update)
  BY DEF FInv, HeardInv, IInv, MemoryInv, TypeOK
<1>2. handling = {} /\ stream = <<>>
  <2>1. handling = {}
    BY <1>1 DEF Words
  <2>2. Len(stream) = 0
    BY <1>1 DEF Words
  <2>. QED  BY <1>1, <2>1, <2>2
<1>3. handling' = handling /\ stream' = stream /\ swept' = swept /\ told' = told
  <2>1. CASE Broker
    BY <2>1 DEF Broker, Execute, Close, Emit
  <2>2. CASE UNCHANGED vars
    BY <2>2 DEF vars
  <2>3. ~ (Lifecycle \/ BarTask \/ SendTask \/ WriteFails \/ Reconcile \/ LoseUpdate \/ Sweep)
    <3>1. ~ Lifecycle
      BY DEF Lifecycle, WarmStart, Crash
    <3>2. ~ (BarTask \/ WriteFails)
      BY <1>1 DEF BarTask, WriteFails, DropOrder, DecideStep, ExpireOrder, ApplyQueuedCancel, Decide, DecideFails
    <3>3. ~ SendTask
      BY <1>1 DEF SendTask, BlockOrder, SendOrder, SendFails, BrokerReplies, ReplyFails, RecordOrder,
                  RefuseOrder, SubmitDone
    <3>4. ~ (Reconcile \/ LoseUpdate \/ Sweep)
      BY <1>1, <1>2 DEF Reconcile, PickUpdate, LoseUpdate, Sweep, SweepLoads
    <3>. QED  BY <3>1, <3>2, <3>3, <3>4
  <2>4. ~ \E ts \in 1 .. MaxBars : TakeBar(ts)
    BY DEF TakeBar
  <2>. QED  BY <2>1, <2>2, <2>3, <2>4 DEF Next
<1>4. Words' = Words
  BY <1>3 DEF Words
<1>. QED  BY <1>1, <1>3, <1>4

\* A process goes down in a crash, and forgets.
LEMMA GoesDown ==
  ASSUME IInv, [Next]_vars, phase # "down", phase' = "down"
  PROVE  Crash
<1>. USE DEF dbVars, memVars, recVars, broVars
<1>1. CASE Lifecycle
  BY <1>1 DEF Lifecycle, WarmStart
<1>2. CASE BarTask \/ \E ts \in 1 .. MaxBars : TakeBar(ts)
  BY <1>2 DEF BarTask, DecideStep, TakeBar, ExpireOrder, ApplyQueuedCancel, DropOrder, Decide, DecideFails
<1>3. CASE SendTask
  BY <1>3 DEF SendTask, BlockOrder, SendOrder, SendFails, BrokerReplies, ReplyFails, RecordOrder,
              RefuseOrder, SubmitDone
<1>4. CASE WriteFails \/ Reconcile \/ LoseUpdate
  BY <1>4 DEF WriteFails, Reconcile, PickUpdate, ApplyFill, ApplyClosed, ApplyNew, UpdateFails, LoseUpdate
<1>5. CASE Sweep \/ Broker
  BY <1>5 DEF Sweep, SweepLoads, SweepReads, SweepApplies, SweepFails, Broker, Execute, Close
<1>6. CASE UNCHANGED vars
  BY <1>6 DEF vars
<1>. QED  BY <1>1, <1>2, <1>3, <1>4, <1>5, <1>6 DEF Next

LEMMA HeardInvStep == ASSUME FInv, [Next]_vars PROVE HeardInv'
<1>t. TypeOK /\ IInv
  BY DEF FInv, IInv
<1>1. ASSUME NEW u \in Words', u.event \in ClosedStatus  PROVE Ended(u.c)'
  <2>1. CASE u \in Words
    <3>1. u.c \in Coid /\ Ended(u.c)
      BY <1>1, <1>t, <2>1, WordsGenuine DEF FInv, HeardInv
    <3>. QED  BY <1>t, <3>1, EndedStays
  <2>2. CASE u \notin Words
    <3>1. \E c \in Coid, v \in Update :
             /\ v.c = c /\ bro'[c].status # "unknown"
             /\ v.event \in ClosedStatus => bro'[c].status = v.event
             /\ Words' \subseteq Words \cup {v}
      <4>1. ASSUME NEW c \in Coid  PROVE [c |-> c, event |-> "new", n |-> 0] \in Update
        BY LiveSessionAssumption DEF Update
      <4>. QED  BY <1>1, <1>t, <2>2, <4>1, Hears DEF ClosedStatus
    <3>. QED  BY <1>1, <2>2, <3>1 DEF Ended, ClosedStatus
  <2>. QED  BY <2>1, <2>2
<1>2. ASSUME NEW s \in swept'
      PROVE  /\ rows'[s.c].bid = TRUE /\ (s.status # NULL => s.status # "pending")
             /\ s.status \in ClosedStatus \ {NULL} => Ended(s.c)'
  <2>0. \A c \in Coid : rows[c].bid \in BOOLEAN
    BY <1>t DEF TypeOK, Row
  <2>1. CASE s \in swept
    <3>1. /\ s.c \in Coid /\ rows[s.c].bid = TRUE /\ (s.status # NULL => s.status # "pending")
         /\ (s.status \in ClosedStatus \ {NULL} => Ended(s.c))
      BY <1>t, <2>0, <2>1 DEF FInv, HeardInv, TypeOK, Reading
    <3>. QED  BY <1>t, <3>1, IdKept, EndedStays
  <2>2. ASSUME NEW c \in Coid, SweepLoads(c)
        PROVE  rows'[s.c].bid = TRUE /\ s.status = NULL
    <3>1. s = [c |-> c, status |-> NULL, filled |-> rows[c].filled] /\ rows[c].bid
      BY <2>2, <1>2 DEF SweepLoads
    <3>2. s.c = c /\ s.status = NULL /\ rows[c].bid = TRUE
      BY <2>0, <3>1
    <3>. QED  BY <3>2, IdKept
  <2>3. ASSUME NEW r \in swept, SweepReads(r)
        PROVE  rows'[s.c].bid = TRUE /\ s.status # "pending" /\ (s.status \in ClosedStatus => Ended(s.c)')
    <3>1. /\ s = [c |-> r.c, status |-> BrokerStatus(r.c), filled |-> bro[r.c].filled]
          /\ bro' = bro
      BY <1>2, <2>3 DEF SweepReads, broVars
    <3>2. s.c = r.c /\ s.status = BrokerStatus(r.c) /\ r.c \in Coid /\ rows[r.c].bid = TRUE
      BY <1>t, <2>0, <3>1 DEF FInv, HeardInv, TypeOK, Reading
    <3>3. s.status # "pending" /\ (s.status \in ClosedStatus => Ended(r.c))
      BY <1>t, <3>2 DEF BrokerStatus, TypeOK, BrokerOrder, ClosedStatus, Ended
    <3>. QED  BY <1>t, <3>2, <3>3, IdKept, EndedStays
  <2>. QED  BY <1>2, <2>1, <2>2, <2>3, SweptStep
<1>3. ASSUME phase' = "down"  PROVE Words' = {} /\ swept' = {} /\ \A c \in Coid : told'[c] = <<>>
  <2>1. CASE phase = "down"
    BY <1>3, <2>1, DownStep DEF FInv, HeardInv
  <2>2. CASE phase # "down"
    <3>1. Crash
      BY <1>t, <1>3, <2>2, GoesDown
    <3>. QED  BY <3>1 DEF Crash, Words
  <2>. QED  BY <2>1, <2>2
<1>. QED  BY <1>1, <1>2, <1>3 DEF HeardInv

\* While the task is about to record an answer, nothing else touches what it knows.
LEMMA TaskInvStep == ASSUME FInv, [Next]_vars PROVE TaskInv'
<1>. USE DEF TaskInv, dbVars, memVars, recVars, broVars
<1>t. IInv /\ TypeOK /\ TaskInv
  BY DEF FInv, IInv
<1>u. ASSUME pc' = pc, res' = res, cur' = cur, pc = "record" => knows' = knows
      PROVE  TaskInv'
  <2>1. ASSUME pc = "record", res \in ClosedStatus  PROVE Ended(cur)'
    <3>1. PICK c \in Coid : c = cur
      BY <1>t, <2>1 DEF IInv, TypeOK, OrderInv
    <3>2. Ended(c)'
      BY <1>t, <2>1, <3>1, EndedStays
    <3>. QED  BY <1>u, <3>1, <3>2 DEF Ended
  <2>. QED  BY <1>t, <1>u, <2>1
<1>1. CASE Lifecycle \/ \E ts \in 1 .. MaxBars : TakeBar(ts)
  BY <1>1 DEF Lifecycle, WarmStart, Crash, TakeBar
<1>2. CASE BarTask
  <2>1. ASSUME NEW c \in Coid, ExpireOrder(c)  PROVE TaskInv'
    BY <2>1 DEF ExpireOrder
  <2>2. ASSUME NEW c \in Coid, ApplyQueuedCancel(c)  PROVE TaskInv'
    BY <2>2 DEF ApplyQueuedCancel
  <2>3. CASE DropOrder \/ DecideStep
    BY <2>3 DEF DropOrder, DecideStep, Decide, DecideFails, LeaveBar
  <2>. QED  BY <1>2, <2>1, <2>2, <2>3 DEF BarTask
<1>3. CASE SendTask
  <2>1. CASE BrokerReplies
    <3>1. PICK c \in Coid : c = cur
      BY <1>t, <2>1 DEF BrokerReplies, IInv, TypeOK, OrderInv
    <3>2. cur' = c /\ pc' = "record" /\ c \in knows' /\ res' = BrokerStatus(c) /\ bro' = bro
      BY <2>1, <3>1 DEF BrokerReplies
    <3>3. BrokerStatus(c) # "pending" /\ (BrokerStatus(c) \in ClosedStatus => Ended(c))
      BY <1>t DEF BrokerStatus, TypeOK, BrokerOrder, ClosedStatus, Ended
    <3>. QED  BY <3>2, <3>3 DEF Ended
  <2>2. CASE SendTask /\ ~BrokerReplies
    BY <2>2 DEF SendTask, BlockOrder, SendOrder, SendFails, ReplyFails, RecordOrder, RefuseOrder, SubmitDone
  <2>. QED  BY <1>3, <2>1, <2>2
<1>4. CASE WriteFails
  BY <1>4 DEF WriteFails
<1>5. CASE PickUpdate \/ LoseUpdate \/ Broker
  BY <1>5, <1>u DEF PickUpdate, LoseUpdate, Broker, Execute, Close
<1>6. ASSUME NEW h \in handling, ApplyFill(h) \/ ApplyClosed(h) \/ ApplyNew(h) \/ UpdateFails(h)
      PROVE  TaskInv'
  BY <1>6, <1>u DEF ApplyFill, ApplyClosed, ApplyNew, UpdateFails, Handle, LockFree, KeepPending
<1>7. CASE Sweep
  BY <1>7, <1>u DEF Sweep, SweepLoads, SweepReads, SweepApplies, SweepFails, LockFree, KeepPending
<1>8. CASE UNCHANGED vars
  BY <1>8, <1>u DEF vars
<1>. QED  BY <1>1, <1>2, <1>3, <1>4, <1>5, <1>6, <1>7, <1>8 DEF Next, Reconcile

LEMMA FInvInit == Init => FInv
<1>. SUFFICES ASSUME Init PROVE FInv
  OBVIOUS
<1>1. IInv
  BY InitInv
<1>2. RowsInv /\ TaskInv /\ HeardInv
  BY DEF Init, NoRow, RowsInv, TaskInv, HeardInv, Words
<1>. QED  BY <1>1, <1>2 DEF FInv

LEMMA FInvStep == FInv /\ [Next]_vars => FInv'
<1>. SUFFICES ASSUME FInv, [Next]_vars PROVE FInv'
  OBVIOUS
<1>1. IInv'
  BY TypeStep, MemoryStep, OrderStep, BrokerStep DEF FInv, IInv
<1>. QED  BY <1>1, RowsInvStep, TaskInvStep, HeardInvStep DEF FInv

-----------------------------------------------------------------------------
(* What happens to an order as long as no write fails *)

\* The task has the order in its hands.
InHand(c) == c \in todo \/ (pc \in {"reply", "record", "refuse"} /\ cur = c)

CareInv ==
  faults["db"] = 0 =>
    /\ ghost = {}
    /\ \A c \in Coid : phase # "down" /\ rows[c].status = "pending" => InHand(c)
    /\ \A c \in todo : ~KnownToBroker(c) => rows[c].status = "pending"
    /\ \A c \in Coid : Len(told[c]) <= 1 /\ (c \in pend => told[c] = <<>>)

\* A step after which no fault of a kind was counted is not such a fault.
LEMMA NotFaulty ==
  ASSUME IInv, NEW k \in FaultKind, Fault(k)
  PROVE  faults'[k] # 0 /\ \A j \in FaultKind \ {k} : faults'[j] = faults[j]
BY DEF Fault, IInv, TypeOK

\* A step counts at most one fault.
LEMMA OneFault == ASSUME [Next]_vars PROVE faults' = faults \/ \E k \in FaultKind : Fault(k)
<1>. USE DEF dbVars, memVars, recVars, broVars
<1>k. "crash" \in FaultKind /\ "call" \in FaultKind /\ "db" \in FaultKind /\ "dup" \in FaultKind /\ "lost" \in FaultKind
  BY DEF FaultKind
<1>1. CASE Lifecycle \/ \E ts \in 1 .. MaxBars : TakeBar(ts)
  BY <1>1, <1>k DEF Lifecycle, WarmStart, Crash, TakeBar
<1>2. CASE BarTask
  BY <1>2, <1>k
  DEF BarTask, DecideStep, ExpireOrder, ApplyQueuedCancel, RequestCancel, DropOrder, Decide, DecideFails
<1>3. CASE SendTask
  BY <1>3, <1>k DEF SendTask, BlockOrder, SendOrder, SendFails, BrokerReplies, ReplyFails,
              RecordOrder, RefuseOrder, SubmitDone
<1>4. CASE WriteFails \/ LoseUpdate
  BY <1>4, <1>k DEF WriteFails, LoseUpdate
<1>5. CASE Reconcile
  BY <1>5, <1>k DEF Reconcile, PickUpdate, ApplyFill, ApplyClosed, ApplyNew, UpdateFails
<1>6. CASE Sweep
  BY <1>6, <1>k DEF Sweep, SweepLoads, SweepReads, SweepApplies, SweepFails
<1>7. CASE Broker
  BY <1>7 DEF Broker, Execute, Close
<1>8. CASE UNCHANGED vars
  BY <1>8 DEF vars
<1>. QED  BY <1>1, <1>2, <1>3, <1>4, <1>5, <1>6, <1>7, <1>8 DEF Next

\* Where no fault of a kind was counted, the step was none.
LEMMA NoneFailed ==
  ASSUME IInv, [Next]_vars, NEW k \in FaultKind, faults'[k] = 0
  PROVE  faults[k] = 0 /\ ~ Fault(k)
<1>1. ~ Fault(k)
  BY NotFaulty
<1>2. ASSUME NEW j \in FaultKind, Fault(j)  PROVE faults[k] = 0
  <2>1. j # k
    BY <1>1, <1>2
  <2>. QED  BY <1>2, <2>1, NotFaulty
<1>. QED  BY <1>1, <1>2, OneFault

LEMMA NoWriteFailed ==
  ASSUME IInv, [Next]_vars, faults'["db"] = 0
  PROVE  faults["db"] = 0 /\ ~ Fault("db")
BY NoneFailed DEF FaultKind

\* Nothing moves the row of an order that waits its turn and that the broker does not know.
LEMMA RowRests ==
  ASSUME FInv, [Next]_vars, NEW c \in todo, ~KnownToBroker(c)
  PROVE  rows'[c] = rows[c]
<1>1. c \in Coid /\ RowMoves(c)
  BY RowStep, EachRow DEF FInv, IInv, TypeOK
<1>2. rows[c].status # "none" /\ ~ (pc \in {"drop", "refuse", "record"} /\ cur = c)
  BY <1>1 DEF FInv, IInv, OrderInv, Committed
<1>3. \A u \in Words : u.c # c
  BY WordsGenuine DEF FInv, Genuine
<1>4. \A s \in swept : s.c # c
  BY DEF FInv, IInv, BrokerInv
<1>. QED  BY <1>1, <1>2, <1>3, <1>4 DEF RowMoves

\* A decision takes up only orders that were not committed before.
LEMMA NewAreNew ==
  ASSUME IInv, DecideStep, ghost = {}, NEW c \in NewOrders
  PROVE  c \in Coid /\ rows[c].status = "none" /\ c \notin pend
<1>. USE LiveSessionAssumption
<1>1. phase = "run" /\ memBc = bc /\ bc \in Nat /\ bc < MaxBars
  <2>1. pc = "expire"
    BY DEF DecideStep, Decide, DecideFails
  <2>2. bc <= wm /\ wm <= memWm /\ memWm < barTs /\ barTs <= MaxBars
    BY <2>1 DEF IInv, MemoryInv, TypeOK, BarNo
  <2>. QED  BY <2>1, <2>2 DEF IInv, MemoryInv, TypeOK, BarNo
<1>2. c \in Coid /\ c[1] = bc
  BY <1>1 DEF NewOrders, Coid
<1>3. rows[c].status = "none"
  BY <1>1, <1>2 DEF IInv, OrderInv, Committed
<1>. QED  BY <1>2, <1>3 DEF IInv, OrderInv, Committed

\* An order that waits to be sent is in the task's hands.
LEMMA PendingStep ==
  ASSUME FInv, CareInv, [Next]_vars, faults'["db"] = 0, NEW c \in Coid,
         phase' # "down", rows'[c].status = "pending"
  PROVE  InHand(c)'
<1>. USE DEF dbVars, memVars, recVars, broVars, InHand
<1>t. IInv /\ TypeOK /\ faults["db"] = 0 /\ ~ Fault("db") /\ ghost = {}
  BY NoWriteFailed DEF FInv, IInv, CareInv
<1>m. RowMoves(c)
  BY <1>t, RowStep, EachRow
<1>p. DecideStep \/ rows[c].status = "pending"
  <2>1. TaskInv /\ \A s \in swept : s.status # NULL => s.status # "pending"
    BY DEF FInv, HeardInv
  <2>2. ASSUME NEW st, NEW b, NEW n, rows'[c] = [status |-> st, bid |-> b, filled |-> n]
        PROVE  st = "pending"
    BY <2>2
  <2>. QED  BY <1>m, <2>1, <2>2 DEF RowMoves, TaskInv, ClosedStatus
<1>h. phase # "down" /\ rows[c].status = "pending" => InHand(c)
  BY <1>t DEF CareInv
<1>1. CASE WarmStart
  <2>1. rows' = rows /\ todo' = Unsent
    BY <1>1 DEF WarmStart
  <2>2. ~ rows[c].bid
    BY <2>1 DEF FInv, RowsInv
  <2>. QED  BY <2>1, <2>2 DEF Unsent
<1>2. CASE DecideStep
  <2>1. pc = "expire" /\ todo = {} /\ phase = "run"
    BY <1>2, <1>t DEF DecideStep, Decide, DecideFails, IInv, MemoryInv
  <2>2. rows[c].status # "pending"
    BY <1>h, <2>1
  <2>3. PICK new \in SUBSET NewOrders :
          \E over \in SUBSET new, cancels \in SUBSET (pend \cup new) : Decide(new, over, cancels)
    BY <1>2, <1>t DEF DecideStep, DecideFails
  <2>4. PICK over \in SUBSET new :
          \E cancels \in SUBSET (pend \cup new) : Decide(new, over, cancels)
    BY <2>3
  <2>5. /\ rows' = [d \in Coid |->
                     IF d \in new /\ rows[d].status = "none"
                       THEN [NoRow EXCEPT !.status = IF d \in over THEN "rejected" ELSE "pending"]
                       ELSE rows[d]]
        /\ pend' = pend \cup (new \ over) /\ todo' = new \cap pend'
    BY <2>4 DEF Decide, Sendable
  <2>6. c \in new /\ c \notin over
    <3>1. c \in over => [NoRow EXCEPT !.status = IF c \in over THEN "rejected" ELSE "pending"].status = "rejected"
      BY DEF NoRow
    <3>. QED  BY <2>2, <2>5, <3>1
  <2>. QED  BY <2>5, <2>6
<1>3. CASE InHand(c)
  <2>1. CASE SendTask
    <3>1. CASE RecordOrder \/ RefuseOrder
      <4>1. rows' = [rows EXCEPT ![cur] = [rows[cur] EXCEPT !.status = res, !.bid = TRUE]]
              \/ rows' = [rows EXCEPT ![cur] = [rows[cur] EXCEPT !.status = res]]
        BY <1>t, <3>1 DEF RecordOrder, RefuseOrder, OwnRow
      <4>2. rows[cur] \in Row /\ res # "pending" /\ cur \in Coid
        BY <1>t, <3>1 DEF RecordOrder, RefuseOrder, FInv, TaskInv, IInv, OrderInv, TypeOK
      <4>3. cur # c
        <5>1. [rows[cur] EXCEPT !.status = res, !.bid = TRUE].status = res
          BY <4>2 DEF Row
        <5>2. [rows[cur] EXCEPT !.status = res].status = res
          BY <4>2 DEF Row
        <5>. QED  BY <1>t, <4>1, <4>2, <5>1, <5>2 DEF TypeOK
      <4>. QED  BY <1>3, <3>1, <4>3 DEF RecordOrder, RefuseOrder
    <3>2. CASE SendTask /\ ~RecordOrder /\ ~RefuseOrder
      BY <1>3, <3>2 DEF SendTask, BlockOrder, SendOrder, SendFails, BrokerReplies, ReplyFails, SubmitDone
    <3>. QED  BY <2>1, <3>1, <3>2
  <2>2. CASE BarTask \/ \E ts \in 1 .. MaxBars : TakeBar(ts)
    BY <1>2, <1>3, <1>t, <2>2
    DEF BarTask, TakeBar, ExpireOrder, ApplyQueuedCancel, DropOrder, IInv, MemoryInv, LockFree
  <2>3. CASE Reconcile
    BY <1>3, <2>3 DEF Reconcile, PickUpdate, ApplyFill, ApplyClosed, ApplyNew, UpdateFails
  <2>4. CASE Sweep
    BY <1>3, <2>4 DEF Sweep, SweepLoads, SweepReads, SweepApplies, SweepFails
  <2>5. CASE Broker \/ LoseUpdate
    BY <1>3, <2>5 DEF Broker, Execute, Close, LoseUpdate
  <2>6. CASE Lifecycle
    BY <1>1, <2>6 DEF Lifecycle, Crash
  <2>7. CASE WriteFails
    BY <1>t, <2>7 DEF WriteFails
  <2>8. CASE UNCHANGED vars
    BY <1>3, <2>8 DEF vars
  <2>. QED  BY <2>1, <2>2, <2>3, <2>4, <2>5, <2>6, <2>7, <2>8 DEF Next
<1>4. CASE phase = "down"
  <2>1. WarmStart \/ UNCHANGED <<pc, phase>> \/ Crash
    BY <1>4, <1>t
    DEF Next, Lifecycle, BarTask, DecideStep, TakeBar, ExpireOrder, ApplyQueuedCancel, DropOrder, Decide,
        DecideFails, SendTask, BlockOrder, SendOrder, SendFails, BrokerReplies, ReplyFails, RecordOrder,
        RefuseOrder, SubmitDone, WriteFails, Reconcile, PickUpdate, ApplyFill, ApplyClosed, ApplyNew,
        UpdateFails, LoseUpdate, Sweep, SweepLoads, SweepReads, SweepApplies, SweepFails, Broker,
        Execute, Close, vars, IInv, MemoryInv
  <2>. QED  BY <1>1, <1>4, <2>1 DEF Crash
<1>. QED  BY <1>2, <1>3, <1>4, <1>p, <1>h

\* Every step keeps what is to be sent waiting for it.
LEMMA TodoStep ==
  ASSUME FInv, CareInv, [Next]_vars, faults'["db"] = 0, NEW c \in todo', ~KnownToBroker(c)'
  PROVE  rows'[c].status = "pending"
<1>. USE DEF dbVars, memVars, recVars, broVars
<1>t. IInv /\ TypeOK /\ faults["db"] = 0 /\ ~ Fault("db") /\ ghost = {}
  BY NoWriteFailed DEF FInv, IInv, CareInv
<1>1. CASE c \in todo
  <2>1. c \in Coid
    BY <1>1, <1>t DEF TypeOK
  <2>2. ~ KnownToBroker(c)
    BY <1>t, <2>1, Hears DEF KnownToBroker
  <2>. QED  BY <1>1, <1>t, <2>2, RowRests DEF CareInv
<1>2. CASE c \notin todo
  <2>1. WarmStart \/ DecideStep
    BY <1>2, <1>t
    DEF Next, Lifecycle, Crash, BarTask, TakeBar, ExpireOrder, ApplyQueuedCancel, DropOrder,
        SendTask, BlockOrder, SendOrder, SendFails, BrokerReplies, ReplyFails, RecordOrder,
        RefuseOrder, SubmitDone, WriteFails, Reconcile, PickUpdate, ApplyFill, ApplyClosed, ApplyNew,
        UpdateFails, LoseUpdate, Sweep, SweepLoads, SweepReads, SweepApplies, SweepFails, Broker,
        Execute, Close, vars
  <2>2. CASE WarmStart
    BY <2>2 DEF WarmStart, Unsent
  <2>3. CASE DecideStep
    <3>1. PICK new \in SUBSET NewOrders :
            \E over \in SUBSET new, cancels \in SUBSET (pend \cup new) : Decide(new, over, cancels)
      BY <1>t, <2>3 DEF DecideStep, DecideFails
    <3>2. PICK over \in SUBSET new :
            \E cancels \in SUBSET (pend \cup new) : Decide(new, over, cancels)
      BY <3>1
    <3>3. /\ rows' = [d \in Coid |->
                       IF d \in new /\ rows[d].status = "none"
                         THEN [NoRow EXCEPT !.status = IF d \in over THEN "rejected" ELSE "pending"]
                         ELSE rows[d]]
          /\ pend' = pend \cup (new \ over) /\ todo' = new \cap pend'
      BY <3>2 DEF Decide, Sendable
    <3>4. c \in new /\ c \in Coid /\ rows[c].status = "none" /\ c \notin pend
      BY <1>t, <2>3, <3>3, NewAreNew
    <3>5. c \notin over
      BY <3>3, <3>4
    <3>6. rows'[c] = [NoRow EXCEPT !.status = "pending"]
      BY <3>3, <3>4, <3>5
    <3>. QED  BY <3>6 DEF NoRow
  <2>. QED  BY <2>1, <2>2, <2>3
<1>. QED  BY <1>1, <1>2

\* The strategy is told of one order, which leaves the pending ones, or of new ones.
LEMMA ToldStep ==
  ASSUME FInv, CareInv, [Next]_vars, faults'["db"] = 0, NEW c \in Coid
  PROVE  Len(told'[c]) <= 1 /\ (c \in pend' => told'[c] = <<>>)
<1>. USE DEF dbVars, memVars, recVars, broVars
<1>t. IInv /\ TypeOK /\ faults["db"] = 0 /\ ~ Fault("db") /\ ghost = {} /\ HeardInv
  BY NoWriteFailed DEF FInv, IInv, CareInv
<1>o. Len(told[c]) <= 1 /\ (c \in pend => told[c] = <<>>)
  BY <1>t DEF CareInv
<1>s. ASSUME told' = told, pend' \subseteq pend
      PROVE  Len(told'[c]) <= 1 /\ (c \in pend' => told'[c] = <<>>)
  BY <1>o, <1>s
<1>u. ASSUME NEW d \in pend, NEW kind, Tell(d, kind), pend' = pend \ {d}
      PROVE  Len(told'[c]) <= 1 /\ (c \in pend' => told'[c] = <<>>)
  <2>1. CASE c = d
    <3>1. told'[c] = Append(<<>>, kind)
      BY <1>o, <1>t, <1>u, <2>1 DEF Tell, TypeOK
    <3>2. Len(Append(<<>>, kind)) = 1
      OBVIOUS
    <3>. QED  BY <1>u, <2>1, <3>1, <3>2
  <2>2. CASE c # d
    <3>1. told'[c] = told[c]
      BY <1>t, <1>u, <2>2 DEF Tell, TypeOK
    <3>. QED  BY <1>o, <1>u, <3>1
  <2>. QED  BY <2>1, <2>2
<1>1. CASE WarmStart
  BY <1>1, <1>t DEF WarmStart, HeardInv
<1>2. CASE Crash
  BY <1>2 DEF Crash
<1>3. CASE DecideStep
  <2>1. PICK new \in SUBSET NewOrders :
          \E over \in SUBSET new, cancels \in SUBSET (pend \cup new) : Decide(new, over, cancels)
    BY <1>t, <1>3 DEF DecideStep, DecideFails
  <2>2. PICK over \in SUBSET new :
          \E cancels \in SUBSET (pend \cup new) : Decide(new, over, cancels)
    BY <2>1
  <2>3. told' = ToldOnDecision(new, over) /\ pend' = pend \cup (new \ over)
    BY <2>2 DEF Decide
  <2>4. c \in new => c \notin pend
    BY <1>t, <1>3, NewAreNew
  <2>5. CASE c \in over
    <3>1. told'[c] = <<"rejected">>
      BY <2>3, <2>5 DEF ToldOnDecision
    <3>2. Len(<<"rejected">>) = 1
      OBVIOUS
    <3>. QED  BY <2>3, <2>4, <2>5, <3>1, <3>2
  <2>6. CASE c \in new \ over
    <3>1. told'[c] = <<>>
      BY <2>3, <2>6 DEF ToldOnDecision
    <3>. QED  BY <3>1
  <2>7. CASE c \notin new
    <3>1. told'[c] = told[c]
      BY <2>3, <2>7 DEF ToldOnDecision
    <3>. QED  BY <1>o, <2>3, <2>7, <3>1
  <2>. QED  BY <2>5, <2>6, <2>7
<1>4. CASE DropOrder
  <2>1. cur \in pend
    BY <1>4, <1>t DEF DropOrder, IInv, OrderInv
  <2>. QED  BY <1>4, <1>u, <2>1 DEF DropOrder, RemovePending
<1>5. CASE RefuseOrder
  <2>1. cur \in pend
    BY <1>5, <1>t DEF RefuseOrder, IInv, OrderInv
  <2>. QED  BY <1>5, <1>u, <2>1 DEF RefuseOrder, RemovePending
<1>6. ASSUME NEW h \in handling, ApplyClosed(h)
      PROVE  Len(told'[c]) <= 1 /\ (c \in pend' => told'[c] = <<>>)
  BY <1>6, <1>s, <1>u DEF ApplyClosed, RemovePending, KeepPending
<1>7. ASSUME NEW h \in handling, ApplyFill(h) \/ ApplyNew(h) \/ UpdateFails(h)
      PROVE  told' = told /\ pend' \subseteq pend
  BY <1>7 DEF ApplyFill, ApplyNew, UpdateFails, RemovePending, KeepPending
<1>8. CASE Sweep
  BY <1>8, <1>s DEF Sweep, SweepLoads, SweepReads, SweepApplies, SweepFails, RemovePending, KeepPending
<1>9. CASE Broker \/ LoseUpdate \/ PickUpdate \/ WriteFails
  BY <1>9, <1>s, <1>t DEF Broker, Execute, Close, LoseUpdate, PickUpdate, WriteFails
<1>10. CASE SendTask /\ ~RefuseOrder
  BY <1>10, <1>s DEF SendTask, BlockOrder, SendOrder, SendFails, BrokerReplies, ReplyFails, RecordOrder,
                     SubmitDone
<1>11. ASSUME NEW d \in Coid, ExpireOrder(d) \/ ApplyQueuedCancel(d)
       PROVE  told' = told /\ pend' \subseteq pend
  BY <1>11 DEF ExpireOrder, ApplyQueuedCancel
<1>12. CASE UNCHANGED vars \/ \E ts \in 1 .. MaxBars : TakeBar(ts)
  BY <1>12, <1>s DEF vars, TakeBar
<1>. QED
  BY <1>1, <1>2, <1>3, <1>4, <1>5, <1>6, <1>7, <1>8, <1>9, <1>10, <1>11, <1>12, <1>s
  DEF Next, Lifecycle, BarTask, SendTask, Reconcile

LEMMA CareInvInit == Init => CareInv
BY DEF Init, CareInv, KnownToBroker

LEMMA CareInvStep == FInv /\ CareInv /\ [Next]_vars => CareInv'
<1>. SUFFICES ASSUME FInv, CareInv, [Next]_vars, faults'["db"] = 0
     PROVE  /\ ghost' = {}
            /\ \A c \in Coid : phase' # "down" /\ rows'[c].status = "pending" => InHand(c)'
            /\ \A c \in todo' : ~KnownToBroker(c)' => rows'[c].status = "pending"
            /\ \A c \in Coid : Len(told'[c]) <= 1 /\ (c \in pend' => told'[c] = <<>>)
  BY DEF CareInv
<1>1. ghost = {} /\ ~ Fault("db")
  BY NoWriteFailed DEF FInv, CareInv
<1>2. ghost' = {}
  BY <1>1
  DEF Next, Lifecycle, WarmStart, Crash, BarTask, DecideStep, TakeBar, ExpireOrder, ApplyQueuedCancel,
      DropOrder, Decide, DecideFails, RemovePending, KeepPending, SendTask, BlockOrder, SendOrder,
      SendFails, BrokerReplies, ReplyFails, RecordOrder, RefuseOrder, SubmitDone, WriteFails, Reconcile,
      PickUpdate, ApplyFill, ApplyClosed, ApplyNew, UpdateFails, LoseUpdate, Sweep, SweepLoads,
      SweepReads, SweepApplies, SweepFails, Broker, Execute, Close, vars, memVars
<1>. QED  BY <1>2, PendingStep, TodoStep, ToldStep

\* A crash between the commit of an order and its sending is made good by warm_start: between
\* bars no order waits that was neither sent nor resolved, for any number of crashes, lost or
\* repeated updates and failed broker calls (on_closed_bar, warm_start).
THEOREM NothingIsStranded == Spec => []NothingStranded
<1>1. FInv /\ CareInv => NothingStranded
  <2>. SUFFICES ASSUME FInv, CareInv, faults["db"] = 0, phase = "run", pc = "idle", NEW c \in Coid
       PROVE  rows[c].status # "pending"
    BY DEF NothingStranded
  <2>. QED  BY DEF CareInv, FInv, IInv, MemoryInv, InHand
<1>. QED  BY <1>1, FInvInit, FInvStep, CareInvInit, CareInvStep, PTL DEF Spec

\* Whichever of expiry, cancellation, refusal and the broker's events come together, a
\* strategy instance is told at most once that an order of its is over (_pending.pop).
THEOREM ToldAtMostOnce == Spec => []ToldOnce
<1>1. CareInv => ToldOnce
  BY DEF CareInv, ToldOnce
<1>. QED  BY <1>1, FInvInit, FInvStep, CareInvInit, CareInvStep, PTL DEF Spec

\* If no write can fail, the broker is handed an order only while its row says pending: what
\* was refused, expired or cancelled before is never sent (_persist_advance, _submit_order).
THEOREM SendsOnlyPending == ASSUME Budget["db"] = 0 PROVE Spec => NoLateSend
<1>. DEFINE Clean == faults["db"] = 0
<1>k. "db" \in FaultKind
  BY DEF FaultKind
<1>1. Init => Clean
  BY <1>k DEF Init
<1>2. FInv /\ Clean /\ [Next]_vars => Clean'
  <2>. SUFFICES ASSUME FInv, Clean, [Next]_vars  PROVE Clean'
    OBVIOUS
  <2>1. ~ Fault("db")
    BY LiveSessionAssumption, <1>k DEF Fault
  <2>2. ASSUME NEW j \in FaultKind, Fault(j)  PROVE Clean'
    <3>1. j # "db"
      BY <2>1, <2>2
    <3>. QED  BY <1>k, <2>2, <3>1, NotFaulty DEF FInv
  <2>. QED  BY <2>2, OneFault
<1>3. FInv /\ CareInv /\ Clean /\ [Next]_vars =>
        [\A c \in Coid : bro[c].status = "unknown" /\ bro'[c].status # "unknown" =>
           rows[c].status = "pending"]_vars
  <2>. SUFFICES ASSUME FInv, CareInv, Clean, [Next]_vars, NEW c \in Coid,
                       bro[c].status = "unknown", bro'[c].status # "unknown"
       PROVE  rows[c].status = "pending"
    OBVIOUS
  <2>1. SendOrder(c)
    BY Hears DEF FInv
  <2>2. c \in todo
    BY <2>1 DEF SendOrder
  <2>. QED  BY <2>2 DEF CareInv, KnownToBroker
<1>. QED
  BY <1>1, <1>2, <1>3, FInvInit, FInvStep, CareInvInit, CareInvStep, PTL DEF Spec, NoLateSend

-----------------------------------------------------------------------------
(* No order is closed behind the broker's back *)

\* A pending order whose broker id the session does not know and will not be told.
Lost(c) == c \in pend \ knows /\ ~InHand(c) /\ KnownToBroker(c)

CancelInv ==
  faults["db"] = 0 /\ faults["call"] = 0 =>
    /\ \A c \in Coid : Lost(c) => Nameless(c) /\ \A u \in Words : u.c = c => u.event # "new"
    /\ pc = "drop" => cur \in cxl \/ cur \notin knows

NInv == FInv /\ CareInv /\ CancelInv /\ ClosedMeansCancelled

\* What the steps of this section start from: no write and no call has failed.
LEMMA Unfailed ==
  ASSUME NInv, [Next]_vars, faults'["db"] = 0, faults'["call"] = 0
  PROVE  /\ FInv /\ IInv /\ TypeOK /\ HeardInv /\ ghost = {}
         /\ faults["db"] = 0 /\ faults["call"] = 0 /\ ~ Fault("db") /\ ~ Fault("call")
         /\ \A c \in todo : ~KnownToBroker(c) => rows[c].status = "pending"
         /\ \A c \in Coid : Lost(c) => Nameless(c) /\ \A u \in Words : u.c = c => u.event # "new"
         /\ pc = "drop" => cur \in cxl \/ cur \notin knows
<1>1. FInv /\ IInv /\ TypeOK /\ HeardInv /\ CareInv /\ CancelInv
  BY DEF NInv, FInv, IInv
<1>2. faults["db"] = 0 /\ faults["call"] = 0 /\ ~ Fault("db") /\ ~ Fault("call")
  BY <1>1, NoneFailed DEF FaultKind
<1>. QED  BY <1>1, <1>2 DEF CareInv, CancelInv

\* Outside a warm start an order that is lost was lost before.
LEMMA LostBefore ==
  ASSUME NInv, [Next]_vars, faults'["db"] = 0, faults'["call"] = 0, ~WarmStart,
         NEW c \in Coid, Lost(c)'
  PROVE  Lost(c)
<1>. USE DEF dbVars, memVars, recVars, broVars
<1>t. IInv /\ TypeOK /\ TaskInv /\ ghost = {} /\ ~ Fault("db")
  BY Unfailed DEF FInv
<1>l. c \in pend' \ knows' /\ ~InHand(c)' /\ KnownToBroker(c)'
  BY DEF Lost
<1>k. KnownToBroker(c)
  <2>1. ~ SendOrder(c)
    BY <1>l DEF SendOrder, InHand
  <2>. QED  BY <1>l, <1>t, <2>1, Hears DEF KnownToBroker
<1>s. ASSUME pend' \subseteq pend, knows \cap pend' \subseteq knows', InHand(c) => InHand(c)'
      PROVE  Lost(c)
  BY <1>k, <1>l, <1>s DEF Lost
<1>i. ASSUME todo' = todo, pc' = pc, cur' = cur  PROVE InHand(c) => InHand(c)'
  BY <1>i DEF InHand
<1>1. CASE Crash
  BY <1>1, <1>l DEF Crash
<1>2. CASE DecideStep
  <2>1. c \notin NewOrders
    <3>1. rows[c].status # "none"
      BY <1>k, <1>t DEF IInv, BrokerInv, Committed
    <3>. QED  BY <1>2, <1>t, <3>1, NewAreNew
  <2>2. PICK new \in SUBSET NewOrders :
          \E over \in SUBSET new, cancels \in SUBSET (pend \cup new) : Decide(new, over, cancels)
    BY <1>t, <1>2 DEF DecideStep, DecideFails
  <2>3. PICK over \in SUBSET new :
          \E cancels \in SUBSET (pend \cup new) : Decide(new, over, cancels)
    BY <2>2
  <2>4. /\ pend' = pend \cup (new \ over) /\ knows' = knows \ (new \ over) /\ pc = "expire"
    BY <2>3 DEF Decide
  <2>5. c \in pend \ knows
    BY <1>l, <2>1, <2>4
  <2>6. todo = {}
    BY <1>t, <2>4 DEF IInv, MemoryInv
  <2>. QED  BY <1>k, <2>4, <2>5, <2>6 DEF Lost, InHand
<1>3. CASE SendTask
  <2>1. CASE RecordOrder
    <3>1. pc = "record" /\ pend' = pend /\ knows' = knows /\ todo' = todo
      BY <2>1 DEF RecordOrder
    <3>2. c # cur
      BY <1>l, <1>t, <3>1 DEF TaskInv
    <3>3. ~ InHand(c)
      BY <1>l, <3>1, <3>2 DEF InHand
    <3>. QED  BY <1>k, <1>l, <3>1, <3>3 DEF Lost
  <2>2. CASE RefuseOrder
    BY <1>s, <1>l, <2>2 DEF RefuseOrder, RemovePending, InHand
  <2>3. CASE SendTask /\ ~RecordOrder /\ ~RefuseOrder
    BY <1>s, <2>3 DEF SendTask, BlockOrder, SendOrder, SendFails, BrokerReplies, ReplyFails, SubmitDone, InHand
  <2>. QED  BY <1>3, <2>1, <2>2, <2>3
<1>4. CASE BarTask /\ ~DecideStep
  BY <1>4, <1>s, <1>t
  DEF BarTask, ExpireOrder, ApplyQueuedCancel, DropOrder, RemovePending, InHand, IInv, MemoryInv
<1>5. ASSUME NEW ts \in 1 .. MaxBars, TakeBar(ts)  PROVE Lost(c)
  BY <1>5, <1>s, <1>t DEF TakeBar, InHand, LockFree, IInv, MemoryInv
<1>6. CASE PickUpdate \/ LoseUpdate \/ Broker
  BY <1>6, <1>s, <1>i DEF PickUpdate, LoseUpdate, Broker, Execute, Close
<1>7. ASSUME NEW h \in handling, ApplyFill(h) \/ ApplyClosed(h) \/ ApplyNew(h) \/ UpdateFails(h)
      PROVE  Lost(c)
  BY <1>7, <1>s, <1>i DEF ApplyFill, ApplyClosed, ApplyNew, UpdateFails, RemovePending, KeepPending
<1>8. CASE Sweep
  BY <1>8, <1>s, <1>i
  DEF Sweep, SweepLoads, SweepReads, SweepApplies, SweepFails, RemovePending, KeepPending
<1>9. CASE WriteFails
  BY <1>9, <1>t DEF WriteFails
<1>10. CASE UNCHANGED vars
  BY <1>10, <1>s, <1>i DEF vars
<1>. QED
  BY <1>1, <1>2, <1>3, <1>4, <1>5, <1>6, <1>7, <1>8, <1>9, <1>10 DEF Next, Lifecycle, Reconcile

\* A lost order has a fill and no id, and hears of none.
LEMMA LostStep ==
  ASSUME NInv, [Next]_vars, faults'["db"] = 0, faults'["call"] = 0, NEW c \in Coid, Lost(c)'
  PROVE  Nameless(c)' /\ \A u \in Words' : u.c = c => u.event # "new"
<1>. USE DEF dbVars, memVars, recVars, broVars
<1>t. FInv /\ IInv /\ TypeOK /\ HeardInv
  BY Unfailed
<1>1. CASE WarmStart
  <2>1. /\ phase = "down" /\ rows' = rows /\ stream' = stream /\ handling' = handling
        /\ rows[c].status \in OpenStatus /\ ~rows[c].bid /\ rows[c].status # "pending"
    BY <1>1 DEF WarmStart, Lost, InHand, Unsent
  <2>2. Words' = {}
    BY <1>t, <2>1 DEF HeardInv, Words
  <2>. QED  BY <1>t, <2>1, <2>2 DEF Nameless, FInv, RowsInv, OpenStatus
<1>2. CASE ~WarmStart
  <2>1. Lost(c) /\ ~SendOrder(c)
    BY <1>2, LostBefore DEF Lost, SendOrder, InHand
  <2>2. Nameless(c) /\ \A u \in Words : u.c = c => u.event # "new"
    BY <2>1, Unfailed
  <2>3. ASSUME NEW u \in Words', u.c = c  PROVE u.event # "new"
    <3>1. CASE u \in Words
      BY <2>2, <2>3, <3>1
    <3>2. CASE u \notin Words
      BY <1>t, <2>1, <2>3, <3>2, Hears
    <3>. QED  BY <3>1, <3>2
  <2>4. RowMoves(c)
    BY <1>t, RowStep, EachRow
  <2>5. /\ rows[c].status # "none" /\ ~ (pc = "record" /\ cur = c) /\ rows[c].filled > 0
        /\ rows[c].bid = FALSE
    BY <1>t, <2>1, <2>2 DEF Lost, InHand, IInv, BrokerInv, Committed, Nameless, TypeOK, Row
  <2>6. \A s \in swept : s.c # c
    BY <1>t, <2>5 DEF HeardInv
  <2>7. \A u \in Words : u.event = "fill" => u.n >= 1 /\ u.n \in Int
    BY <1>t, WordsGenuine, WordsTyped DEF Genuine, Update
  <2>8. rows'[c].filled > 0 /\ rows'[c].bid = FALSE
    <3>1. ASSUME NEW st, NEW n, rows'[c] = [status |-> st, bid |-> rows[c].bid, filled |-> n]
          PROVE  rows'[c].filled = n /\ rows'[c].bid = FALSE
      BY <2>5, <3>1
    <3>2. CASE rows'[c] = rows[c]
      BY <2>5, <3>2
    <3>3. CASE rows'[c] = [status |-> res, bid |-> rows[c].bid, filled |-> rows[c].filled]
      BY <2>5, <3>1, <3>3
    <3>4. ASSUME NEW u \in Words, u.c = c,
                 \/ /\ u.event = "fill"
                    /\ \E st \in {"filled", "partially_filled"} :
                         rows'[c] = [status |-> st, bid |-> rows[c].bid, filled |-> u.n]
                 \/ /\ u.event \in ClosedStatus
                    /\ rows'[c] = [status |-> u.event, bid |-> rows[c].bid, filled |-> rows[c].filled]
                 \/ /\ u.event = "new"
                    /\ rows'[c] = [status |-> "accepted", bid |-> TRUE, filled |-> rows[c].filled]
          PROVE  rows'[c].filled > 0 /\ rows'[c].bid = FALSE
      <4>1. ASSUME u.event = "fill", NEW st,
                   rows'[c] = [status |-> st, bid |-> rows[c].bid, filled |-> u.n]
            PROVE  rows'[c].filled > 0 /\ rows'[c].bid = FALSE
        <5>1. PICK n : n = u.n
          OBVIOUS
        <5>2. n >= 1 /\ n \in Int
          BY <2>7, <3>4, <4>1, <5>1
        <5>3. rows'[c].filled = n /\ rows'[c].bid = FALSE
          BY <3>1, <4>1, <5>1
        <5>. QED  BY <5>2, <5>3
      <4>2. ASSUME rows'[c] = [status |-> u.event, bid |-> rows[c].bid, filled |-> rows[c].filled]
            PROVE  rows'[c].filled > 0 /\ rows'[c].bid = FALSE
        BY <2>5, <3>1, <4>2
      <4>. QED  BY <2>2, <3>4, <4>1, <4>2
    <3>. QED  BY <2>4, <2>5, <2>6, <3>2, <3>3, <3>4 DEF RowMoves
  <2>. QED  BY <2>3, <2>8 DEF Nameless
<1>. QED  BY <1>1, <1>2

\* An order is dropped after its cancellation was requested, or without an id to name it.
LEMMA DropStep ==
  ASSUME NInv, [Next]_vars, faults'["db"] = 0, faults'["call"] = 0, pc' = "drop"
  PROVE  cur' \in cxl' \/ cur' \notin knows'
<1>. USE DEF dbVars, memVars, recVars, broVars
<1>t. /\ ~ Fault("db") /\ ~ Fault("call")
      /\ pc = "drop" => cur \in cxl \/ cur \notin knows
  BY Unfailed
<1>s. ASSUME pc = "drop", cur' = cur, cxl' = cxl, knows' = knows
      PROVE  cur' \in cxl' \/ cur' \notin knows'
  BY <1>s, <1>t
<1>1. CASE Lifecycle \/ \E ts \in 1 .. MaxBars : TakeBar(ts)
  BY <1>1 DEF Lifecycle, WarmStart, Crash, TakeBar
<1>2. ASSUME NEW c \in Coid, ExpireOrder(c)  PROVE cur' \in cxl' \/ cur' \notin knows'
  BY <1>2, <1>t DEF ExpireOrder, RequestCancel
<1>3. ASSUME NEW c \in Coid, ApplyQueuedCancel(c)  PROVE cur' \in cxl' \/ cur' \notin knows'
  BY <1>3 DEF ApplyQueuedCancel
<1>4. CASE DropOrder \/ DecideStep \/ SendTask \/ WriteFails
  BY <1>4 DEF DropOrder, DecideStep, Decide, DecideFails, LeaveBar, SendTask, BlockOrder, SendOrder,
              SendFails, BrokerReplies, ReplyFails, RecordOrder, RefuseOrder, SubmitDone, WriteFails
<1>5. CASE PickUpdate \/ LoseUpdate \/ Broker
  BY <1>5, <1>s DEF PickUpdate, LoseUpdate, Broker, Execute, Close
<1>6. ASSUME NEW h \in handling, ApplyFill(h) \/ ApplyClosed(h) \/ ApplyNew(h) \/ UpdateFails(h)
      PROVE  cur' \in cxl' \/ cur' \notin knows'
  BY <1>6, <1>s DEF ApplyFill, ApplyClosed, ApplyNew, UpdateFails, Handle, LockFree, KeepPending
<1>7. CASE Sweep
  BY <1>7, <1>s DEF Sweep, SweepLoads, SweepReads, SweepApplies, SweepFails, LockFree
<1>8. CASE UNCHANGED vars
  BY <1>8, <1>s DEF vars
<1>. QED  BY <1>1, <1>2, <1>3, <1>4, <1>5, <1>6, <1>7, <1>8 DEF Next, BarTask, Reconcile

LEMMA CancelInvStep == NInv /\ [Next]_vars => CancelInv'
<1>. SUFFICES ASSUME NInv, [Next]_vars, faults'["db"] = 0, faults'["call"] = 0
     PROVE  /\ \A c \in Coid : Lost(c)' => Nameless(c)' /\ \A u \in Words' : u.c = c => u.event # "new"
            /\ pc' = "drop" => cur' \in cxl' \/ cur' \notin knows'
  BY DEF CancelInv
<1>. QED  BY LostStep, DropStep

\* A request to cancel is never forgotten.
LEMMA RequestsStay == ASSUME [Next]_vars PROVE cxl \subseteq cxl'
<1>. USE DEF dbVars, memVars, recVars, broVars
<1>1. CASE Lifecycle \/ \E ts \in 1 .. MaxBars : TakeBar(ts)
  BY <1>1 DEF Lifecycle, WarmStart, Crash, TakeBar
<1>2. CASE BarTask \/ WriteFails
  BY <1>2 DEF BarTask, DecideStep, ExpireOrder, ApplyQueuedCancel, RequestCancel, DropOrder, Decide,
              DecideFails, WriteFails
<1>3. CASE SendTask
  BY <1>3 DEF SendTask, BlockOrder, SendOrder, SendFails, BrokerReplies, ReplyFails, RecordOrder,
              RefuseOrder, SubmitDone
<1>4. CASE Reconcile \/ LoseUpdate
  BY <1>4 DEF Reconcile, PickUpdate, ApplyFill, ApplyClosed, ApplyNew, UpdateFails, LoseUpdate
<1>5. CASE Sweep \/ Broker
  BY <1>5 DEF Sweep, SweepLoads, SweepReads, SweepApplies, SweepFails, Broker, Execute, Close
<1>6. CASE UNCHANGED vars
  BY <1>6 DEF vars
<1>. QED  BY <1>1, <1>2, <1>3, <1>4, <1>5, <1>6 DEF Next

\* A row is closed for an order that is over at the broker, was asked to be cancelled there,
\* or has no name to ask for.
LEMMA ClosedStep ==
  ASSUME NInv, [Next]_vars, faults'["db"] = 0, faults'["call"] = 0, NEW c \in Coid,
         rows'[c].status \in {"expired", "canceled"}, bro'[c].status = "open"
  PROVE  c \in cxl' \/ Nameless(c)'
<1>. USE DEF dbVars, memVars, recVars, broVars
<1>t. FInv /\ IInv /\ TypeOK /\ HeardInv /\ TaskInv
  BY Unfailed DEF FInv
<1>m. RowMoves(c)
  BY <1>t, RowStep, EachRow
<1>o. ~ Ended(c)
  BY <1>t, EndedStays DEF Ended
<1>r. cxl \subseteq cxl'
  BY RequestsStay
<1>f. ASSUME NEW st, NEW b, NEW n, rows'[c] = [status |-> st, bid |-> b, filled |-> n]
      PROVE  st \in {"expired", "canceled"} /\ rows'[c].bid = b /\ rows'[c].filled = n
  BY <1>f
<1>1. CASE rows'[c] = rows[c]
  <2>1. bro[c].status = "open"
    <3>1. ~ (SendOrder(c) /\ bro[c].status = "unknown")
      <4>1. c \in todo /\ ~KnownToBroker(c) => rows[c].status = "pending"
        BY Unfailed
      <4>. QED  BY <1>1, <4>1 DEF SendOrder, KnownToBroker
    <3>. QED  BY <1>o, <1>t, <3>1, Hears DEF Ended
  <2>2. c \in cxl \/ Nameless(c)
    <3>1. faults["call"] = 0 /\ faults["db"] = 0
      BY Unfailed
    <3>. QED  BY <1>1, <2>1, <3>1 DEF NInv, ClosedMeansCancelled
  <2>. QED  BY <1>1, <1>r, <2>2 DEF Nameless
<1>2. CASE /\ pc \in {"drop", "refuse"} /\ cur = c
           /\ rows'[c] = [status |-> res, bid |-> rows[c].bid, filled |-> rows[c].filled]
  <2>1. /\ res \in {"expired", "canceled"} /\ rows'[c].bid = rows[c].bid
        /\ rows'[c].filled = rows[c].filled
    BY <1>2, <1>f
  <2>2. pc = "drop"
    BY <1>2, <1>t, <2>1 DEF TaskInv
  <2>3. c \in cxl \/ c \notin knows
    BY <1>2, <2>2, Unfailed
  <2>4. CASE c \notin knows
    <3>1. c \in pend /\ ~InHand(c)
      BY <1>2, <1>t, <2>2 DEF InHand, IInv, OrderInv, MemoryInv
    <3>2. KnownToBroker(c)
      <4>1. ~ SendOrder(c)
        BY <2>2 DEF SendOrder
      <4>. QED  BY <1>t, <4>1, Hears DEF KnownToBroker
    <3>3. Nameless(c)
      BY <2>4, <3>1, <3>2, Unfailed DEF Lost
    <3>. QED  BY <2>1, <3>3 DEF Nameless
  <2>. QED  BY <1>r, <2>3, <2>4
<1>3. CASE /\ pc = "record" /\ cur = c
           /\ rows'[c] = [status |-> res, bid |-> TRUE, filled |-> rows[c].filled]
  BY <1>3, <1>f, <1>o, <1>t DEF TaskInv, ClosedStatus
<1>4. ASSUME NEW u \in Words, u.c = c, u.event = "fill", NEW st \in {"filled", "partially_filled"},
             rows'[c] = [status |-> st, bid |-> rows[c].bid, filled |-> u.n]
      PROVE  FALSE
  BY <1>4, <1>f
<1>5. ASSUME NEW u \in Words, u.c = c, u.event \in ClosedStatus  PROVE FALSE
  BY <1>5, <1>o, <1>t DEF HeardInv
<1>6. CASE rows'[c] = [status |-> "accepted", bid |-> TRUE, filled |-> rows[c].filled]
  BY <1>6, <1>f
<1>7. ASSUME NEW s \in swept, s.c = c, s.status # NULL,
             rows'[c] = [status |-> s.status, bid |-> rows[c].bid, filled |-> s.filled]
      PROVE  FALSE
  <2>1. s.status \in {"expired", "canceled"}
    BY <1>7, <1>f
  <2>. QED  BY <1>7, <1>o, <1>t, <2>1 DEF HeardInv, ClosedStatus
<1>. QED
  BY <1>m, <1>1, <1>2, <1>3, <1>4, <1>5, <1>6, <1>7 DEF RowMoves

\* An order that is closed here while the broker still works it was asked to be cancelled
\* there, in every run in which no write and no broker call failed, unless its first fill came
\* before its broker id (_expire_orders, _apply_queued_cancels).
THEOREM NotClosedBehindTheBroker == Spec => []ClosedMeansCancelled
<1>1. Init => CancelInv /\ ClosedMeansCancelled
  BY DEF Init, NoRow, CancelInv, Lost, ClosedMeansCancelled
<1>2. NInv /\ [Next]_vars => ClosedMeansCancelled'
  <2>. SUFFICES ASSUME NInv, [Next]_vars, NEW c \in Coid,
                       rows'[c].status \in {"expired", "canceled"}, bro'[c].status = "open",
                       ~ (faults'["call"] > 0 \/ faults'["db"] > 0)
       PROVE  c \in cxl' \/ Nameless(c)'
    BY DEF ClosedMeansCancelled
  <2>1. faults' \in [FaultKind -> Nat]
    BY TypeStep DEF NInv, FInv, TypeOK
  <2>2. faults'["db"] = 0 /\ faults'["call"] = 0
    BY <2>1 DEF FaultKind
  <2>. QED  BY <2>2, ClosedStep
<1>3. NInv /\ [Next]_vars => NInv'
  BY <1>2, FInvStep, CareInvStep, CancelInvStep DEF NInv
<1>4. Init => NInv
  BY <1>1, FInvInit, CareInvInit DEF NInv
<1>5. NInv => ClosedMeansCancelled
  BY DEF NInv
<1>. QED  BY <1>3, <1>4, <1>5, PTL DEF Spec

=============================================================================
