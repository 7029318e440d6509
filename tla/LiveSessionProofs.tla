-------------------------- MODULE LiveSessionProofs --------------------------
(***************************************************************************)
(* Proofs about LiveSession for every value of its constants.  IInv is the *)
(* inductive invariant: what is in the session's memory relates to the     *)
(* database (MemoryInv), what is pending or on its way to the broker has a *)
(* committed row (OrderInv), and the broker, its updates and the readings  *)
(* made of it only speak of such orders (BrokerInv).                       *)
(***************************************************************************)
EXTENDS LiveSession, TLAPS

Committed(c) == rows[c].status # "none"

KnownToBroker(c) == bro[c].status # "unknown"

MemoryInv ==
  /\ phase = "down" => pc = "idle" /\ pend = {} /\ ghost = {}
  /\ phase # "down" => memBc = bc /\ (wm # 0 => memWm = wm)
  /\ bc <= wm
  /\ pc \in {"expire", "drop"} => phase = "run" /\ barTs > memWm
  /\ pc \in {"idle", "expire", "drop"} => todo = {}

OrderInv ==
  /\ \A c \in Coid : Committed(c) => c[1] < bc
  /\ \A c \in pend \ ghost : Committed(c)
  /\ \A c \in todo : c \in pend /\ Committed(c)
  /\ pc \in {"drop", "reply", "record", "refuse"} => cur \in pend \ todo
  /\ pc \in {"drop", "record", "refuse"} => res \in RowStatus \ {"none"}

\* What is known of a trade update.
Genuine(u) == KnownToBroker(u.c) /\ (u.event = "fill" => u.n >= 1)

BrokerInv ==
  /\ \A c \in Coid : KnownToBroker(c) => Committed(c)
  /\ \A c \in Coid : bro[c].status \in {"unknown", "open"} => bro[c].filled < Qty
  /\ \A c \in Coid : rows[c].bid => KnownToBroker(c)
  /\ \A i \in 1 .. Len(stream) : Genuine(stream[i])
  /\ \A h \in handling : Genuine(h.u)
  /\ \A s \in swept : KnownToBroker(s.c) /\ s.status \in (RowStatus \ {"none"}) \cup {NULL}
  /\ pc \in {"reply", "record"} => KnownToBroker(cur)

IInv == TypeOK /\ MemoryInv /\ OrderInv /\ BrokerInv

-----------------------------------------------------------------------------
(* Typing of the operators the actions share *)

\* A fault keeps the counters counters.
LEMMA FaultTyped ==
  ASSUME NEW k \in FaultKind, faults \in [FaultKind -> Nat], Fault(k)
  PROVE  faults' \in [FaultKind -> Nat]
BY DEF Fault

\* Telling the strategy appends a callback.
LEMMA TellTyped ==
  ASSUME NEW c \in Coid, NEW kind \in Kind, told \in [Coid -> Seq(Kind)], Tell(c, kind)
  PROVE  told' \in [Coid -> Seq(Kind)]
<1>1. Append(told[c], kind) \in Seq(Kind)  OBVIOUS
<1>. QED  BY <1>1 DEF Tell

\* The statuses the broker reports of an order it has are statuses of a row.
LEMMA ReportedStatus ==
  ASSUME NEW c \in Coid, bro \in [Coid -> BrokerOrder], KnownToBroker(c)
  PROVE  BrokerStatus(c) \in RowStatus \ {"none"}
BY DEF BrokerStatus, KnownToBroker, BrokerOrder, RowStatus, OpenStatus, ClosedStatus

\* A request to cancel keeps the requests orders and the counters counters.
LEMMA RequestTyped ==
  ASSUME NEW c \in Coid, RequestCancel(c), cxl \subseteq Coid, faults \in [FaultKind -> Nat]
  PROVE  cxl' \subseteq Coid /\ faults' \in [FaultKind -> Nat]
BY FaultTyped DEF RequestCancel, FaultKind

\* Sequences of updates stay so when one is added or the first is taken.
LEMMA StreamTyped ==
  ASSUME stream \in Seq(Update)
  PROVE  /\ \A u \in Update : Append(stream, u) \in Seq(Update)
         /\ stream # <<>> => Head(stream) \in Update /\ Tail(stream) \in Seq(Update)
OBVIOUS

\* The callbacks of a bar's decision.
LEMMA FreshTyped ==
  ASSUME told \in [Coid -> Seq(Kind)], NEW new, NEW over
  PROVE  ToldOnDecision(new, over) \in [Coid -> Seq(Kind)]
<1>1. <<"rejected">> \in Seq(Kind) /\ <<>> \in Seq(Kind)  BY DEF Kind
<1>. QED  BY <1>1 DEF ToldOnDecision

\* Rows stay rows when they are marked.
LEMMA RowTyped ==
  ASSUME rows \in [Coid -> Row], NEW c \in Coid, NEW st \in RowStatus, NEW n \in 0 .. Qty
  PROVE  /\ [rows EXCEPT ![c].status = st, ![c].filled = n] \in [Coid -> Row]
         /\ [rows EXCEPT ![c].status = st, ![c].bid = TRUE] \in [Coid -> Row]
<1>1. [rows[c] EXCEPT !.status = st] \in Row  BY DEF Row
<1>2. [[rows[c] EXCEPT !.status = st] EXCEPT !.filled = n] \in Row  BY DEF Row
<1>3. [[rows[c] EXCEPT !.status = st] EXCEPT !.bid = TRUE] \in Row  BY DEF Row
<1>. QED  BY <1>1, <1>2, <1>3

\* A row just inserted is a row.
LEMMA FreshRow ==
  ASSUME NEW st \in RowStatus, Qty \in Nat
  PROVE  [NoRow EXCEPT !.status = st] \in Row
<1>1. NoRow \in Row  BY DEF NoRow, Row, RowStatus
<1>. QED  BY <1>1 DEF Row

\* The broker's orders stay so when one gets another status.
LEMMA BroTyped ==
  ASSUME bro \in [Coid -> BrokerOrder], NEW c \in Coid,
         NEW st \in {"unknown", "open", "filled"} \cup ClosedStatus
  PROVE  [bro EXCEPT ![c].status = st] \in [Coid -> BrokerOrder]
<1>1. [bro[c] EXCEPT !.status = st] \in BrokerOrder  BY DEF BrokerOrder
<1>. QED  BY <1>1

\* When the broker knows more orders and reports on one of them, all that is heard of it
\* stays genuine.
LEMMA HearsMore ==
  ASSUME TypeOK, BrokerInv, NEW u \in Update,
         \A d \in Coid : KnownToBroker(d) => KnownToBroker(d)',
         KnownToBroker(u.c)', u.event = "fill" => u.n >= 1,
         stream' = stream \/ stream' = Append(stream, u),
         UNCHANGED <<handling, swept>>
  PROVE  /\ \A i \in 1 .. Len(stream') : Genuine(stream[i])'
         /\ \A h \in handling' : Genuine(h.u)'
         /\ \A s \in swept' : KnownToBroker(s.c)'
<1>1. ASSUME NEW i \in 1 .. Len(stream')  PROVE Genuine(stream[i])'
  <2>1. CASE i \in 1 .. Len(stream) /\ stream'[i] = stream[i]
    <3>1. stream[i] \in Update  BY <2>1 DEF TypeOK
    <3>2. stream[i].c \in Coid  BY <3>1 DEF Update
    <3>. QED  BY <2>1, <3>2 DEF Genuine, KnownToBroker, BrokerInv
  <2>2. CASE stream'[i] = u
    BY <2>2 DEF Genuine, KnownToBroker
  <2>3. CASE stream' = Append(stream, u)
    <3>1. stream \in Seq(Update)  BY DEF TypeOK
    <3>. QED  BY <2>1, <2>2, <2>3, <3>1
  <2>. QED  BY <2>1, <2>2, <2>3
<1>2. ASSUME NEW h \in handling'  PROVE Genuine(h.u)'
  <2>1. h \in handling /\ h.u.c \in Coid  BY DEF Picked, Update, TypeOK
  <2>. QED  BY <2>1 DEF Genuine, KnownToBroker, BrokerInv
<1>3. ASSUME NEW s \in swept'  PROVE KnownToBroker(s.c)'
  <2>1. s \in swept /\ s.c \in Coid  BY DEF Reading, TypeOK
  <2>. QED  BY <2>1 DEF KnownToBroker, BrokerInv
<1>. QED  BY <1>1, <1>2, <1>3

\* What a fill leaves of the rows.
LEMMA RowMarked ==
  ASSUME rows \in [Coid -> Row], NEW c \in Coid, NEW st, NEW n, NEW d \in Coid,
         rows' = [rows EXCEPT ![c].status = st, ![c].filled = n]
  PROVE  /\ rows'[d].status = IF d = c THEN st ELSE rows[d].status
         /\ rows'[d].bid = rows[d].bid
BY DEF Row

-----------------------------------------------------------------------------
(* The steps *)

\* Every step keeps the types.
LEMMA TypeStep ==
  ASSUME IInv, [Next]_vars
  PROVE  TypeOK'
<1>. USE LiveSessionAssumption DEF IInv, TypeOK, dbVars, memVars, recVars, broVars
<1>1. CASE WarmStart
  BY <1>1 DEF WarmStart, Unsent, ResumedCount, BarNo, MemoryInv
<1>2. CASE Crash
  <2>1. told' \in [Coid -> Seq(Kind)]
    BY <1>2 DEF Crash
  <2>2. stream' \in Seq(Update)
    BY <1>2 DEF Crash
  <2>3. faults' \in [FaultKind -> Nat]
    BY <1>2, FaultTyped DEF Crash, FaultKind
  <2>. QED  BY <1>2, <2>1, <2>2, <2>3 DEF Crash, BarNo
<1>3. ASSUME NEW ts \in 1 .. MaxBars, TakeBar(ts)  PROVE TypeOK'
  BY <1>3 DEF TakeBar, NewBar, LockFree, BarNo
<1>4. ASSUME NEW c \in Coid, ExpireOrder(c)  PROVE TypeOK'
  BY <1>4, RequestTyped DEF ExpireOrder, ExpiredPending, RowStatus, ClosedStatus
<1>5. ASSUME NEW c \in Coid, ApplyQueuedCancel(c)  PROVE TypeOK'
  BY <1>5, RequestTyped DEF ApplyQueuedCancel, ExpiredPending, RowStatus, ClosedStatus
<1>6. CASE DropOrder
  BY <1>6, TellTyped DEF DropOrder, RemovePending, OwnRow, Tell, Row, Kind, OrderInv
<1>7. ASSUME NEW new \in SUBSET NewOrders, NEW over \in SUBSET new,
            NEW cancels \in SUBSET (pend \cup new), Decide(new, over, cancels)
     PROVE  TypeOK'
  <2>1. memBc + 1 \in BarNo /\ new \subseteq Coid
    BY <1>7 DEF Decide, NewOrders, BarNo, Coid, MemoryInv
  <2>2. rows' \in [Coid -> Row]
    <3>1. ASSUME NEW st \in {"pending", "rejected"}
          PROVE  [NoRow EXCEPT !.status = st] \in Row
      BY FreshRow DEF RowStatus, OpenStatus, ClosedStatus
    <3>. QED  BY <1>7, <3>1 DEF Decide
  <2>3. told' \in [Coid -> Seq(Kind)]
    BY <1>7, FreshTyped DEF Decide
  <2>4. /\ pend' \subseteq Coid /\ knows' \subseteq pend' /\ ghost' \subseteq pend'
        /\ queued' \subseteq Coid /\ todo' \subseteq Coid
    BY <1>7, <2>1 DEF Decide, Sendable
  <2>5. /\ bc' \in BarNo /\ wm' \in BarNo /\ memBc' \in BarNo /\ memWm' \in BarNo
        /\ barTs' \in BarNo
    BY <1>7, <2>1 DEF Decide, BarNo
  <2>. QED  BY <1>7, <2>2, <2>3, <2>4, <2>5 DEF Decide
<1>8. ASSUME NEW new \in SUBSET NewOrders, NEW over \in SUBSET new,
            NEW cancels \in SUBSET (pend \cup new), DecideFails(new, over, cancels)
     PROVE  TypeOK'
  <2>1. new \subseteq Coid
    BY <1>8 DEF DecideFails, NewOrders, BarNo, Coid, MemoryInv
  <2>2. told' \in [Coid -> Seq(Kind)]
    BY <1>8, FreshTyped DEF DecideFails
  <2>3. /\ pend' \subseteq Coid /\ knows' \subseteq pend' /\ ghost' \subseteq pend'
        /\ queued' \subseteq Coid
    BY <1>8, <2>1 DEF DecideFails
  <2>4. faults' \in [FaultKind -> Nat]
    BY <1>8, FaultTyped DEF DecideFails, FaultKind
  <2>. QED  BY <1>8, <2>2, <2>3, <2>4 DEF DecideFails, RolledBack, LeaveBar, BarNo
<1>9. ASSUME NEW c \in Coid, BlockOrder(c)  PROVE TypeOK'
  BY <1>9 DEF BlockOrder, RowStatus, OpenStatus, ClosedStatus
<1>10. ASSUME NEW c \in Coid, SendOrder(c)  PROVE TypeOK'
  <2>1. [c |-> c, event |-> "new", n |-> 0] \in Update
    BY DEF Update
  <2>2. stream' \in Seq(Update)
    BY <1>10, <2>1, StreamTyped DEF SendOrder
  <2>3. bro' \in [Coid -> BrokerOrder]
    <3>1. [bro EXCEPT ![c].status = "open"] \in [Coid -> BrokerOrder]
      BY BroTyped
    <3>. QED  BY <1>10, <3>1 DEF SendOrder
  <2>. QED  BY <1>10, <2>2, <2>3 DEF SendOrder
<1>11. ASSUME NEW c \in Coid, SendFails(c)  PROVE TypeOK'
  BY <1>11, FaultTyped DEF SendFails, FaultKind, RowStatus
<1>12. CASE BrokerReplies
  BY <1>12, ReportedStatus DEF BrokerReplies, OrderInv, BrokerInv
<1>13. CASE ReplyFails
  BY <1>13, FaultTyped DEF ReplyFails, FaultKind, RowStatus
<1>14. CASE RecordOrder
  BY <1>14 DEF RecordOrder, OwnRow, Row, OrderInv
<1>15. CASE RefuseOrder
  BY <1>15, TellTyped DEF RefuseOrder, RemovePending, OwnRow, Tell, Row, Kind, OrderInv
<1>16. CASE SubmitDone
  BY <1>16 DEF SubmitDone
<1>17. CASE WriteFails
  <2>1. faults' \in [FaultKind -> Nat]
    BY <1>17, FaultTyped DEF WriteFails, FaultKind
  <2>2. pend' \subseteq Coid /\ knows' \subseteq pend' /\ ghost' \subseteq pend'
    BY <1>17 DEF WriteFails, RemovePending, KeepPending
  <2>. QED  BY <1>17, <2>1, <2>2 DEF WriteFails, BarNo
<1>18. CASE PickUpdate
  <2>1. Head(stream) \in Update /\ Tail(stream) \in Seq(Update)
    BY <1>18, StreamTyped DEF PickUpdate
  <2>2. rows[Head(stream).c].bid \in BOOLEAN
    BY <2>1 DEF Update, Row
  <2>3. handling' \subseteq Picked
    <3>1. [u |-> Head(stream), bid |-> rows[Head(stream).c].bid, locked |-> phase = "run"]
            \in Picked
      BY <2>1, <2>2 DEF Picked
    <3>. QED  BY <1>18, <3>1 DEF PickUpdate
  <2>4. stream' \in Seq(Update) /\ faults' \in [FaultKind -> Nat]
    BY <1>18, <2>1, FaultTyped DEF PickUpdate, FaultKind
  <2>. QED  BY <1>18, <2>3, <2>4 DEF PickUpdate
<1>19. ASSUME NEW h \in handling, ApplyFill(h)  PROVE TypeOK'
  <2>1. h.u.c \in Coid /\ h.u.n \in 1 .. Qty
    BY <1>19 DEF ApplyFill, Picked, Update, BrokerInv, Genuine
  <2>2. rows' \in [Coid -> Row]
    <3>1. CASE rows' = rows  BY <3>1
    <3>2. ASSUME NEW st \in {"filled", "partially_filled"},
                 rows' = [rows EXCEPT ![h.u.c].status = st, ![h.u.c].filled = h.u.n]
          PROVE  rows' \in [Coid -> Row]
      <4>1. st \in RowStatus /\ h.u.n \in 0 .. Qty  BY <2>1 DEF RowStatus, OpenStatus
      <4>2. [rows EXCEPT ![h.u.c].status = st, ![h.u.c].filled = h.u.n] \in [Coid -> Row]
        BY <2>1, <4>1, RowTyped
      <4>. QED  BY <3>2, <4>2
    <3>. QED  BY <1>19, <3>1, <3>2 DEF ApplyFill
  <2>3. fills' \subseteq Coid \X (1 .. Qty)
    BY <1>19, <2>1 DEF ApplyFill
  <2>4. booked' \in [Coid -> Nat]
    <3>1. CASE Recorded(h.u.c, h.u.n)
      BY <1>19, <3>1 DEF ApplyFill
    <3>2. CASE ~Recorded(h.u.c, h.u.n)
      <4>1. booked' = [booked EXCEPT ![h.u.c] = booked[h.u.c] + 1]
        BY <1>19, <3>2 DEF ApplyFill
      <4>2. booked[h.u.c] + 1 \in Nat
        BY <2>1
      <4>. QED  BY <4>1, <4>2
    <3>. QED  BY <3>1, <3>2
  <2>5. pend' \subseteq Coid /\ knows' \subseteq pend' /\ ghost' \subseteq pend'
    BY <1>19 DEF ApplyFill, RemovePending, KeepPending
  <2>. QED  BY <1>19, <2>2, <2>3, <2>4, <2>5 DEF ApplyFill, Handle
<1>20. ASSUME NEW h \in handling, ApplyClosed(h)  PROVE TypeOK'
  <2>1. h.u.c \in Coid
    BY <1>20 DEF Picked, Update
  <2>2. rows' \in [Coid -> Row]
    BY <1>20, <2>1 DEF ApplyClosed, Row, RowStatus
  <2>3. told' \in [Coid -> Seq(Kind)]
    BY <1>20, <2>1, TellTyped DEF ApplyClosed, ClosedStatus, Kind
  <2>4. pend' \subseteq Coid /\ knows' \subseteq pend' /\ ghost' \subseteq pend'
    BY <1>20 DEF ApplyClosed, RemovePending, KeepPending
  <2>. QED  BY <1>20, <2>2, <2>3, <2>4 DEF ApplyClosed, Handle
<1>21. ASSUME NEW h \in handling, ApplyNew(h)  PROVE TypeOK'
  <2>1. h.u.c \in Coid
    BY <1>21 DEF Picked, Update
  <2>2. rows' \in [Coid -> Row]
    <3>1. CASE rows' = rows  BY <3>1
    <3>2. CASE rows' = [rows EXCEPT ![h.u.c].status = "accepted", ![h.u.c].bid = TRUE]
      <4>1. "accepted" \in RowStatus /\ 0 \in 0 .. Qty  BY DEF RowStatus, OpenStatus
      <4>2. [rows EXCEPT ![h.u.c].status = "accepted", ![h.u.c].bid = TRUE] \in [Coid -> Row]
        BY <2>1, <4>1, RowTyped
      <4>. QED  BY <3>2, <4>2
    <3>. QED  BY <1>21, <3>1, <3>2 DEF ApplyNew
  <2>. QED  BY <1>21, <2>2 DEF ApplyNew, Handle
<1>22. ASSUME NEW h \in handling, UpdateFails(h)  PROVE TypeOK'
  BY <1>22, FaultTyped DEF UpdateFails, Handle, LockFree, FaultKind
<1>23. CASE LoseUpdate
  BY <1>23, FaultTyped, StreamTyped DEF LoseUpdate, FaultKind
<1>24. ASSUME NEW c \in Coid, SweepLoads(c)  PROVE TypeOK'
  BY <1>24, SMTT(30) DEF SweepLoads, Reading, Row
<1>25. ASSUME NEW s \in swept, SweepReads(s)  PROVE TypeOK'
  <2>1. BrokerStatus(s.c) \in RowStatus
    BY <1>25, ReportedStatus DEF Reading, BrokerInv
  <2>2. swept' \subseteq Reading
    BY <1>25, <2>1 DEF SweepReads, Reading, BrokerOrder
  <2>. QED  BY <1>25, <2>2 DEF SweepReads
<1>26. ASSUME NEW s \in swept, SweepApplies(s)  PROVE TypeOK'
  <2>1. rows' \in [Coid -> Row]
    BY <1>26 DEF SweepApplies, Reading, Row
  <2>2. pend' \subseteq Coid /\ knows' \subseteq pend' /\ ghost' \subseteq pend'
    BY <1>26 DEF SweepApplies, RemovePending, KeepPending
  <2>. QED  BY <1>26, <2>1, <2>2 DEF SweepApplies
<1>27. ASSUME NEW s \in swept, SweepFails(s)  PROVE TypeOK'
  BY <1>27, FaultTyped DEF SweepFails, FaultKind
<1>28. ASSUME NEW c \in Coid, Execute(c)  PROVE TypeOK'
  <2>. DEFINE n == bro[c].filled + 1
  <2>1. n \in 1 .. Qty
    BY <1>28 DEF Execute, BrokerOrder, BrokerInv
  <2>2. bro' \in [Coid -> BrokerOrder]
    BY <1>28, <2>1 DEF Execute, BrokerOrder
  <2>3. [c |-> c, event |-> "fill", n |-> n] \in Update
    BY <2>1 DEF Update
  <2>4. stream' \in Seq(Update)
    BY <1>28, <2>3, StreamTyped DEF Execute, Emit
  <2>. QED  BY <1>28, <2>2, <2>4 DEF Execute
<1>29. ASSUME NEW c \in Coid, NEW st \in ClosedStatus, Close(c, st)  PROVE TypeOK'
  <2>1. [c |-> c, event |-> st, n |-> bro[c].filled] \in Update
    BY DEF Update, BrokerOrder
  <2>2. bro' \in [Coid -> BrokerOrder] /\ stream' \in Seq(Update)
    BY <1>29, <2>1, StreamTyped DEF Close, Emit, BrokerOrder
  <2>. QED  BY <1>29, <2>2 DEF Close
<1>30. CASE UNCHANGED vars
  BY <1>30 DEF vars
<1>. QED
  BY <1>1, <1>2, <1>3, <1>4, <1>5, <1>6, <1>7, <1>8, <1>9, <1>10, <1>11, <1>12, <1>13, <1>14,
       <1>15, <1>16, <1>17, <1>18, <1>19, <1>20, <1>21, <1>22, <1>23, <1>24, <1>25, <1>26, <1>27,
       <1>28, <1>29, <1>30
  DEF Next, Lifecycle, BarTask, DecideStep, SendTask, Reconcile, Sweep, Broker

\* Every step keeps the memory in line with the database.
LEMMA MemoryStep ==
  ASSUME IInv, [Next]_vars
  PROVE  MemoryInv'
<1>. USE LiveSessionAssumption DEF IInv, TypeOK, BarNo, MemoryInv, dbVars, memVars, recVars,
       broVars
<1>1. CASE WarmStart
  BY <1>1 DEF WarmStart, Unsent, ResumedCount
<1>2. CASE Crash
  BY <1>2 DEF Crash
<1>3. ASSUME NEW ts \in 1 .. MaxBars, TakeBar(ts)  PROVE MemoryInv'
  BY <1>3 DEF TakeBar, NewBar, LockFree
<1>4. ASSUME NEW c \in Coid, ExpireOrder(c)  PROVE MemoryInv'
  BY <1>4 DEF ExpireOrder, ExpiredPending
<1>5. ASSUME NEW c \in Coid, ApplyQueuedCancel(c)  PROVE MemoryInv'
  BY <1>5 DEF ApplyQueuedCancel, ExpiredPending
<1>6. CASE DropOrder
  BY <1>6 DEF DropOrder, RemovePending, OwnRow, Tell
<1>7. ASSUME NEW new \in SUBSET NewOrders, NEW over \in SUBSET new,
            NEW cancels \in SUBSET (pend \cup new), Decide(new, over, cancels)
     PROVE  MemoryInv'
  BY <1>7 DEF Decide, Sendable, ToldOnDecision, NewOrders
<1>8. ASSUME NEW new \in SUBSET NewOrders, NEW over \in SUBSET new,
            NEW cancels \in SUBSET (pend \cup new), DecideFails(new, over, cancels)
     PROVE  MemoryInv'
  BY <1>8 DEF DecideFails, RolledBack, LeaveBar, ToldOnDecision, NewOrders
<1>9. ASSUME NEW c \in Coid, BlockOrder(c)  PROVE MemoryInv'
  BY <1>9 DEF BlockOrder
<1>10. ASSUME NEW c \in Coid, SendOrder(c)  PROVE MemoryInv'
  BY <1>10 DEF SendOrder
<1>11. ASSUME NEW c \in Coid, SendFails(c)  PROVE MemoryInv'
  BY <1>11 DEF SendFails
<1>12. CASE BrokerReplies
  BY <1>12 DEF BrokerReplies
<1>13. CASE ReplyFails
  BY <1>13 DEF ReplyFails
<1>14. CASE RecordOrder
  BY <1>14 DEF RecordOrder, OwnRow
<1>15. CASE RefuseOrder
  BY <1>15 DEF RefuseOrder, RemovePending, OwnRow, Tell
<1>16. CASE SubmitDone
  BY <1>16 DEF SubmitDone
<1>17. CASE WriteFails
  BY <1>17 DEF WriteFails, RemovePending, KeepPending
<1>18. CASE PickUpdate
  BY <1>18 DEF PickUpdate
<1>19. ASSUME NEW h \in handling, ApplyFill(h)  PROVE MemoryInv'
  BY <1>19 DEF ApplyFill, Handle, LockFree, Recorded, RemovePending, KeepPending
<1>20. ASSUME NEW h \in handling, ApplyClosed(h)  PROVE MemoryInv'
  BY <1>20 DEF ApplyClosed, Handle, LockFree, RemovePending, KeepPending, Tell
<1>21. ASSUME NEW h \in handling, ApplyNew(h)  PROVE MemoryInv'
  BY <1>21 DEF ApplyNew, Handle, LockFree
<1>22. ASSUME NEW h \in handling, UpdateFails(h)  PROVE MemoryInv'
  BY <1>22 DEF UpdateFails, Handle, LockFree
<1>23. CASE LoseUpdate
  BY <1>23 DEF LoseUpdate
<1>24. ASSUME NEW c \in Coid, SweepLoads(c)  PROVE MemoryInv'
  BY <1>24 DEF SweepLoads
<1>25. ASSUME NEW s \in swept, SweepReads(s)  PROVE MemoryInv'
  BY <1>25 DEF SweepReads, Missed
<1>26. ASSUME NEW s \in swept, SweepApplies(s)  PROVE MemoryInv'
  BY <1>26 DEF SweepApplies, LockFree, RemovePending, KeepPending
<1>27. ASSUME NEW s \in swept, SweepFails(s)  PROVE MemoryInv'
  BY <1>27 DEF SweepFails
<1>28. ASSUME NEW c \in Coid, Execute(c)  PROVE MemoryInv'
  BY <1>28 DEF Execute, Emit
<1>29. ASSUME NEW c \in Coid, NEW st \in ClosedStatus, Close(c, st)  PROVE MemoryInv'
  BY <1>29 DEF Close, Emit
<1>30. CASE UNCHANGED vars
  BY <1>30 DEF vars
<1>. QED
  BY <1>1, <1>2, <1>3, <1>4, <1>5, <1>6, <1>7, <1>8, <1>9, <1>10, <1>11, <1>12, <1>13, <1>14,
       <1>15, <1>16, <1>17, <1>18, <1>19, <1>20, <1>21, <1>22, <1>23, <1>24, <1>25, <1>26, <1>27,
       <1>28, <1>29, <1>30
  DEF Next, Lifecycle, BarTask, DecideStep, SendTask, Reconcile, Sweep, Broker

\* Every step keeps what is pending or under way committed.
LEMMA OrderStep ==
  ASSUME IInv, [Next]_vars
  PROVE  OrderInv'
<1>. USE LiveSessionAssumption DEF IInv, TypeOK, BarNo, MemoryInv, OrderInv, Committed, dbVars,
       memVars, recVars, broVars
<1>1. CASE WarmStart
  BY <1>1 DEF WarmStart, Unsent, ResumedCount, OpenStatus
<1>2. CASE Crash
  BY <1>2 DEF Crash
<1>3. ASSUME NEW ts \in 1 .. MaxBars, TakeBar(ts)  PROVE OrderInv'
  BY <1>3 DEF TakeBar, NewBar, LockFree
<1>4. ASSUME NEW c \in Coid, ExpireOrder(c)  PROVE OrderInv'
  BY <1>4 DEF ExpireOrder, ExpiredPending, RowStatus, OpenStatus, ClosedStatus
<1>5. ASSUME NEW c \in Coid, ApplyQueuedCancel(c)  PROVE OrderInv'
  BY <1>5 DEF ApplyQueuedCancel, ExpiredPending, RowStatus, OpenStatus, ClosedStatus
<1>6. CASE DropOrder
  BY <1>6 DEF DropOrder, RemovePending, OwnRow, Tell
<1>7. ASSUME NEW new \in SUBSET NewOrders, NEW over \in SUBSET new,
            NEW cancels \in SUBSET (pend \cup new), Decide(new, over, cancels)
     PROVE  OrderInv'
  <2>1. bc = memBc /\ todo = {} /\ new \subseteq Coid /\ \A c \in new : c[1] = bc
    BY <1>7 DEF Decide, NewOrders, Coid
  <2>2. \A c \in Coid : Committed(c)' <=> Committed(c) \/ c \in new
    BY <1>7, <2>1 DEF Decide, NoRow
  <2>3. bc' = bc + 1 /\ bc \in Nat
    BY <1>7, <2>1 DEF Decide
  <2>4. \A c \in Coid : Committed(c)' => c[1] < bc'
    <3>1. \A c \in Coid : c[1] \in Int  BY DEF Coid
    <3>2. SUFFICES ASSUME NEW c \in Coid, Committed(c)'  PROVE c[1] < bc'
      OBVIOUS
    <3>3. c[1] < bc \/ c[1] = bc  BY <2>1, <2>2, <3>2
    <3>. QED  BY <2>3, <3>1, <3>3
  <2>5. \A c \in pend' \ ghost' : Committed(c)'
    BY <1>7, <2>1, <2>2 DEF Decide
  <2>6. \A c \in todo' : c \in pend' /\ Committed(c)'
    BY <1>7, <2>1, <2>2 DEF Decide, Sendable
  <2>7. pc' = "submit"
    BY <1>7 DEF Decide
  <2>. QED  BY <2>4, <2>5, <2>6, <2>7 DEF Committed
<1>8. ASSUME NEW new \in SUBSET NewOrders, NEW over \in SUBSET new,
            NEW cancels \in SUBSET (pend \cup new), DecideFails(new, over, cancels)
     PROVE  OrderInv'
  BY <1>8 DEF DecideFails, RolledBack, LeaveBar, ToldOnDecision, NewOrders
<1>9. ASSUME NEW c \in Coid, BlockOrder(c)  PROVE OrderInv'
  BY <1>9 DEF BlockOrder, RowStatus, OpenStatus, ClosedStatus
<1>10. ASSUME NEW c \in Coid, SendOrder(c)  PROVE OrderInv'
  BY <1>10 DEF SendOrder
<1>11. ASSUME NEW c \in Coid, SendFails(c)  PROVE OrderInv'
  BY <1>11 DEF SendFails, RowStatus
<1>12. CASE BrokerReplies
  BY <1>12, ReportedStatus DEF BrokerReplies, BrokerInv, KnownToBroker
<1>13. CASE ReplyFails
  BY <1>13 DEF ReplyFails, RowStatus
<1>14. CASE RecordOrder
  BY <1>14 DEF RecordOrder, OwnRow
<1>15. CASE RefuseOrder
  BY <1>15 DEF RefuseOrder, RemovePending, OwnRow, Tell
<1>16. CASE SubmitDone
  BY <1>16 DEF SubmitDone
<1>17. CASE WriteFails
  BY <1>17 DEF WriteFails, RemovePending, KeepPending
<1>18. CASE PickUpdate
  BY <1>18 DEF PickUpdate
<1>19. ASSUME NEW h \in handling, ApplyFill(h)  PROVE OrderInv'
  <2>1. h.u.c \in Coid /\ Committed(h.u.c)
    BY <1>19 DEF Picked, Update, BrokerInv, Genuine, KnownToBroker
  <2>2. \A d \in Coid : Committed(d)' <=> Committed(d)
    <3>1. CASE Recorded(h.u.c, h.u.n)
      BY <1>19, <3>1 DEF ApplyFill
    <3>2. CASE ~Recorded(h.u.c, h.u.n)
      <4>1. \A d \in Coid : rows'[d].status = IF d # h.u.c THEN rows[d].status
                                  ELSE IF h.u.n = Qty THEN "filled" ELSE "partially_filled"
        BY <1>19, <3>2, <2>1, SMTT(30) DEF ApplyFill, Row
      <4>. QED  BY <4>1, <2>1
    <3>. QED  BY <3>1, <3>2
  <2>3. pend' \subseteq pend /\ ghost' \subseteq ghost /\ pend \ pend' \subseteq {h.u.c}
        /\ pend' \ ghost' \subseteq pend \ ghost
    BY <1>19 DEF ApplyFill, RemovePending, KeepPending
  <2>4. pend' = pend \/ (pc = "idle" /\ pend' \subseteq Coid)
    BY <1>19 DEF ApplyFill, RemovePending, KeepPending, LockFree, Handle
  <2>5. UNCHANGED <<bc, pc, cur, res, todo>>
    BY <1>19 DEF ApplyFill
  <2>. QED  BY <2>2, <2>3, <2>4, <2>5 DEF Committed
<1>20. ASSUME NEW h \in handling, ApplyClosed(h)  PROVE OrderInv'
  <2>1. h.u.c \in Coid /\ Committed(h.u.c)
    BY <1>20 DEF Picked, Update, BrokerInv, Genuine, KnownToBroker
  <2>2. \A d \in Coid : Committed(d)' <=> Committed(d)
    BY <1>20, <2>1 DEF ApplyClosed, ClosedStatus
  <2>3. pend' \subseteq pend /\ ghost' \subseteq ghost /\ pend \ pend' \subseteq {h.u.c}
        /\ pend' \ ghost' \subseteq pend \ ghost
    BY <1>20 DEF ApplyClosed, RemovePending, KeepPending
  <2>4. pend' = pend \/ (pc = "idle" /\ pend' \subseteq Coid)
    BY <1>20 DEF ApplyClosed, RemovePending, KeepPending, LockFree, Handle
  <2>5. UNCHANGED <<bc, pc, cur, res, todo>>
    BY <1>20 DEF ApplyClosed
  <2>. QED  BY <2>2, <2>3, <2>4, <2>5 DEF Committed
<1>21. ASSUME NEW h \in handling, ApplyNew(h)  PROVE OrderInv'
  <2>1. h.u.c \in Coid /\ Committed(h.u.c)
    BY <1>21 DEF Picked, Update, BrokerInv, Genuine, KnownToBroker
  <2>2. \A d \in Coid : Committed(d)' <=> Committed(d)
    BY <1>21, <2>1 DEF ApplyNew, Row
  <2>3. pend' \subseteq pend /\ ghost' \subseteq ghost /\ pend \ pend' \subseteq {h.u.c}
        /\ pend' \ ghost' \subseteq pend \ ghost
    BY <1>21 DEF ApplyNew, RemovePending, KeepPending
  <2>4. pend' = pend \/ (pc = "idle" /\ pend' \subseteq Coid)
    BY <1>21 DEF ApplyNew, RemovePending, KeepPending, LockFree, Handle
  <2>5. UNCHANGED <<bc, pc, cur, res, todo>>
    BY <1>21 DEF ApplyNew
  <2>. QED  BY <2>2, <2>3, <2>4, <2>5 DEF Committed
<1>22. ASSUME NEW h \in handling, UpdateFails(h)  PROVE OrderInv'
  BY <1>22 DEF UpdateFails, Handle, LockFree
<1>23. CASE LoseUpdate
  BY <1>23 DEF LoseUpdate
<1>24. ASSUME NEW c \in Coid, SweepLoads(c)  PROVE OrderInv'
  BY <1>24 DEF SweepLoads
<1>25. ASSUME NEW s \in swept, SweepReads(s)  PROVE OrderInv'
  BY <1>25 DEF SweepReads, Missed
<1>26. ASSUME NEW s \in swept, SweepApplies(s)  PROVE OrderInv'
  <2>1. s.c \in Coid /\ Committed(s.c)
    BY <1>26 DEF Reading, BrokerInv, KnownToBroker
  <2>2. \A d \in Coid : Committed(d)' <=> Committed(d)
    BY <1>26, <2>1 DEF SweepApplies, Reading, BrokerInv
  <2>3. pend' \subseteq pend /\ ghost' \subseteq ghost /\ pend \ pend' \subseteq {s.c}
        /\ pend' \ ghost' \subseteq pend \ ghost
    BY <1>26 DEF SweepApplies, RemovePending, KeepPending
  <2>4. pend' = pend \/ (pc = "idle" /\ pend' \subseteq Coid)
    BY <1>26 DEF SweepApplies, RemovePending, KeepPending, LockFree, Handle
  <2>5. UNCHANGED <<bc, pc, cur, res, todo>>
    BY <1>26 DEF SweepApplies
  <2>. QED  BY <2>2, <2>3, <2>4, <2>5 DEF Committed
<1>27. ASSUME NEW s \in swept, SweepFails(s)  PROVE OrderInv'
  BY <1>27 DEF SweepFails
<1>28. ASSUME NEW c \in Coid, Execute(c)  PROVE OrderInv'
  BY <1>28 DEF Execute, Emit
<1>29. ASSUME NEW c \in Coid, NEW st \in ClosedStatus, Close(c, st)  PROVE OrderInv'
  BY <1>29 DEF Close, Emit
<1>30. CASE UNCHANGED vars
  BY <1>30 DEF vars
<1>. QED
  BY <1>1, <1>2, <1>3, <1>4, <1>5, <1>6, <1>7, <1>8, <1>9, <1>10, <1>11, <1>12, <1>13, <1>14,
       <1>15, <1>16, <1>17, <1>18, <1>19, <1>20, <1>21, <1>22, <1>23, <1>24, <1>25, <1>26, <1>27,
       <1>28, <1>29, <1>30
  DEF Next, Lifecycle, BarTask, DecideStep, SendTask, Reconcile, Sweep, Broker

\* Every step keeps the broker and what is heard of it within the committed orders.
LEMMA BrokerStep ==
  ASSUME IInv, [Next]_vars
  PROVE  BrokerInv'
<1>. USE LiveSessionAssumption DEF IInv, TypeOK, BrokerInv, dbVars, memVars, recVars, broVars
<1>1. CASE WarmStart
  BY <1>1 DEF WarmStart, Unsent, ResumedCount, Committed, KnownToBroker, Genuine, OrderInv
<1>2. CASE Crash
  BY <1>2 DEF Crash, Committed, KnownToBroker, Genuine, OrderInv
<1>3. ASSUME NEW ts \in 1 .. MaxBars, TakeBar(ts)  PROVE BrokerInv'
  BY <1>3 DEF TakeBar, NewBar, LockFree, Committed, KnownToBroker, Genuine, OrderInv
<1>4. ASSUME NEW c \in Coid, ExpireOrder(c)  PROVE BrokerInv'
  BY <1>4 DEF ExpireOrder, ExpiredPending, Committed, KnownToBroker, Genuine, OrderInv
<1>5. ASSUME NEW c \in Coid, ApplyQueuedCancel(c)  PROVE BrokerInv'
  BY <1>5 DEF ApplyQueuedCancel, ExpiredPending, Committed, KnownToBroker, Genuine, OrderInv
<1>6. CASE DropOrder
  BY <1>6 DEF DropOrder, RemovePending, OwnRow, Tell, Committed, KnownToBroker, Genuine, OrderInv
<1>7. ASSUME NEW new \in SUBSET NewOrders, NEW over \in SUBSET new,
            NEW cancels \in SUBSET (pend \cup new), Decide(new, over, cancels)
     PROVE  BrokerInv'
  <2>1. \A c \in Coid : (Committed(c) => Committed(c)') /\ (rows'[c].bid => rows[c].bid)
    BY <1>7 DEF Decide, NoRow, Committed
  <2>2. pc' = "submit" /\ UNCHANGED <<bro, stream, handling, swept>>
    BY <1>7 DEF Decide
  <2>. QED  BY <2>1, <2>2 DEF Committed, KnownToBroker, Genuine
<1>8. ASSUME NEW new \in SUBSET NewOrders, NEW over \in SUBSET new,
            NEW cancels \in SUBSET (pend \cup new), DecideFails(new, over, cancels)
     PROVE  BrokerInv'
  BY <1>8 DEF DecideFails, RolledBack, LeaveBar, ToldOnDecision, NewOrders, Committed,
       KnownToBroker, Genuine, OrderInv
<1>9. ASSUME NEW c \in Coid, BlockOrder(c)  PROVE BrokerInv'
  BY <1>9 DEF BlockOrder, Committed, KnownToBroker, Genuine, OrderInv
<1>10. ASSUME NEW c \in Coid, SendOrder(c)  PROVE BrokerInv'
  <2>. DEFINE u == [c |-> c, event |-> "new", n |-> 0]
  <2>1. u \in Update /\ u.c = c /\ u.event # "fill"
    BY DEF Update
  <2>2. /\ \A d \in Coid : (KnownToBroker(d) => KnownToBroker(d)')
                         /\ (KnownToBroker(d)' => KnownToBroker(d) \/ d = c)
                         /\ bro'[d].filled = bro[d].filled
                         /\ (bro'[d].status = bro[d].status \/ bro[d].status = "unknown")
        /\ KnownToBroker(c)' /\ Committed(c)
    BY <1>10 DEF SendOrder, KnownToBroker, BrokerOrder, OrderInv
  <2>3. (stream' = stream \/ stream' = Append(stream, u)) /\ UNCHANGED <<rows, handling, swept>>
    BY <1>10 DEF SendOrder
  <2>4. /\ \A i \in 1 .. Len(stream') : Genuine(stream[i])'
        /\ \A h \in handling' : Genuine(h.u)'
        /\ \A s \in swept' : KnownToBroker(s.c)'
    BY <2>1, <2>2, <2>3, HearsMore
  <2>5. pc' = "reply" /\ cur' = c
    BY <1>10 DEF SendOrder
  <2>6. \A d \in Coid : bro'[d].status \in {"unknown", "open"} => bro'[d].filled < Qty
    <3>1. SUFFICES ASSUME NEW d \in Coid, bro'[d].status \in {"unknown", "open"}
                   PROVE  bro'[d].filled < Qty
      OBVIOUS
    <3>2. /\ bro'[d].filled = bro[d].filled
          /\ bro'[d].status = bro[d].status \/ bro[d].status = "unknown"
      BY <2>2
    <3>3. bro[d].filled < Qty  BY <3>1, <3>2
    <3>. QED  BY <3>2, <3>3
  <2>7. \A d \in Coid : KnownToBroker(d)' => Committed(d)'
    <3>1. SUFFICES ASSUME NEW d \in Coid, KnownToBroker(d)'  PROVE Committed(d)'
      OBVIOUS
    <3>2. KnownToBroker(d) \/ d = c  BY <2>2, <3>1
    <3>3. Committed(d)  BY <2>2, <3>2
    <3>. QED  BY <2>3, <3>3 DEF Committed
  <2>8. \A d \in Coid : rows'[d].bid => KnownToBroker(d)'
    BY <2>2, <2>3
  <2>. QED  BY <2>2, <2>3, <2>4, <2>5, <2>6, <2>7, <2>8 DEF KnownToBroker, Committed
<1>11. ASSUME NEW c \in Coid, SendFails(c)  PROVE BrokerInv'
  BY <1>11 DEF SendFails, Committed, KnownToBroker, Genuine, OrderInv
<1>12. CASE BrokerReplies
  BY <1>12 DEF BrokerReplies, Committed, KnownToBroker, Genuine, OrderInv
<1>13. CASE ReplyFails
  BY <1>13 DEF ReplyFails, Committed, KnownToBroker, Genuine, OrderInv
<1>14. CASE RecordOrder
  BY <1>14 DEF RecordOrder, OwnRow, Committed, KnownToBroker, Genuine, OrderInv
<1>15. CASE RefuseOrder
  BY <1>15 DEF RefuseOrder, RemovePending, OwnRow, Tell, Committed, KnownToBroker, Genuine,
       OrderInv
<1>16. CASE SubmitDone
  BY <1>16 DEF SubmitDone, Committed, KnownToBroker, Genuine, OrderInv
<1>17. CASE WriteFails
  BY <1>17 DEF WriteFails, RemovePending, KeepPending, Committed, KnownToBroker, Genuine, OrderInv
<1>18. CASE PickUpdate
  <2>1. /\ Genuine(Head(stream))
        /\ \A i \in 1 .. Len(Tail(stream)) : Genuine(Tail(stream)[i])
    BY <1>18 DEF PickUpdate
  <2>2. \A h \in handling' : h.u = Head(stream)
    BY <1>18 DEF PickUpdate
  <2>3. (stream' = stream \/ stream' = Tail(stream)) /\ UNCHANGED <<rows, bro, swept, pc, cur>>
    BY <1>18 DEF PickUpdate
  <2>. QED  BY <2>1, <2>2, <2>3 DEF Genuine, KnownToBroker, Committed
<1>19. ASSUME NEW h \in handling, ApplyFill(h)  PROVE BrokerInv'
  <2>1. h.u.c \in Coid /\ KnownToBroker(h.u.c)
    BY <1>19 DEF Picked, Update, Genuine
  <2>2. \A d \in Coid : (Committed(d) => Committed(d)') /\ (rows'[d].bid => rows[d].bid \/ d = h.u.c)
    <3>1. CASE Recorded(h.u.c, h.u.n)
      BY <1>19, <3>1 DEF ApplyFill, Committed
    <3>2. CASE ~Recorded(h.u.c, h.u.n)
      <4>1. PICK st \in {"filled", "partially_filled"} :
              rows' = [rows EXCEPT ![h.u.c].status = st, ![h.u.c].filled = h.u.n]
        BY <1>19, <3>2 DEF ApplyFill
      <4>2. ASSUME NEW d \in Coid
            PROVE  (Committed(d) => Committed(d)') /\ rows'[d].bid = rows[d].bid
        <5>1. /\ rows'[d].status = IF d = h.u.c THEN st ELSE rows[d].status
              /\ rows'[d].bid = rows[d].bid
          BY <2>1, <4>1, RowMarked
        <5>. QED  BY <4>1, <5>1 DEF Committed
      <4>. QED  BY <4>2
    <3>. QED  BY <3>1, <3>2
  <2>3. UNCHANGED <<bro, stream, pc, cur, swept>> /\ handling' = {}
    BY <1>19 DEF ApplyFill, Handle
  <2>. QED  BY <1>19, <2>1, <2>2, <2>3 DEF Committed, KnownToBroker, Genuine
<1>20. ASSUME NEW h \in handling, ApplyClosed(h)  PROVE BrokerInv'
  <2>1. h.u.c \in Coid /\ KnownToBroker(h.u.c)
    BY <1>20 DEF Picked, Update, Genuine
  <2>2. \A d \in Coid : (Committed(d) => Committed(d)') /\ (rows'[d].bid => rows[d].bid \/ d = h.u.c)
    BY <1>20, <2>1 DEF ApplyClosed, ClosedStatus, Committed
  <2>3. UNCHANGED <<bro, stream, pc, cur, swept>> /\ handling' = {}
    BY <1>20 DEF ApplyClosed, Handle
  <2>. QED  BY <1>20, <2>1, <2>2, <2>3 DEF Committed, KnownToBroker, Genuine
<1>21. ASSUME NEW h \in handling, ApplyNew(h)  PROVE BrokerInv'
  BY <1>21 DEF ApplyNew, Handle, LockFree, Committed, KnownToBroker, Genuine, OrderInv
<1>22. ASSUME NEW h \in handling, UpdateFails(h)  PROVE BrokerInv'
  BY <1>22 DEF UpdateFails, Handle, LockFree, Committed, KnownToBroker, Genuine, OrderInv
<1>23. CASE LoseUpdate
  BY <1>23 DEF LoseUpdate, Committed, KnownToBroker, Genuine, OrderInv
<1>24. ASSUME NEW c \in Coid, SweepLoads(c)  PROVE BrokerInv'
  BY <1>24 DEF SweepLoads, Committed, KnownToBroker, Genuine, OrderInv
<1>25. ASSUME NEW s \in swept, SweepReads(s)  PROVE BrokerInv'
  <2>1. s.c \in Coid /\ KnownToBroker(s.c) /\ BrokerStatus(s.c) \in RowStatus \ {"none"}
    BY ReportedStatus DEF Reading
  <2>2. \A r \in swept' : r.c = s.c /\ r.status = BrokerStatus(s.c)
    BY <1>25 DEF SweepReads
  <2>3. UNCHANGED <<rows, bro, stream, handling, pc, cur>>
    BY <1>25 DEF SweepReads
  <2>. QED  BY <2>1, <2>2, <2>3 DEF Genuine, KnownToBroker, Committed
<1>26. ASSUME NEW s \in swept, SweepApplies(s)  PROVE BrokerInv'
  BY <1>26 DEF SweepApplies, LockFree, RemovePending, KeepPending, Committed, KnownToBroker,
       Genuine, OrderInv
<1>27. ASSUME NEW s \in swept, SweepFails(s)  PROVE BrokerInv'
  BY <1>27 DEF SweepFails, Committed, KnownToBroker, Genuine, OrderInv
<1>28. ASSUME NEW c \in Coid, Execute(c)  PROVE BrokerInv'
  <2>. DEFINE n == bro[c].filled + 1
              u == [c |-> c, event |-> "fill", n |-> n]
  <2>1. n \in 1 .. Qty
    BY <1>28 DEF Execute, BrokerOrder
  <2>2. u \in Update /\ u.c = c /\ u.n >= 1
    BY <2>1 DEF Update
  <2>3. /\ \A d \in Coid : KnownToBroker(d) <=> KnownToBroker(d)'
        /\ KnownToBroker(c)
        /\ \A d \in Coid : bro'[d].status \in {"unknown", "open"} => bro'[d].filled < Qty
    BY <1>28, <2>1 DEF Execute, KnownToBroker, BrokerOrder
  <2>4. /\ stream' = stream \/ stream' = Append(stream, u)
        /\ UNCHANGED <<rows, handling, swept, pc, cur>>
    BY <1>28 DEF Execute, Emit
  <2>5. /\ \A i \in 1 .. Len(stream') : Genuine(stream[i])'
        /\ \A h \in handling' : Genuine(h.u)'
        /\ \A s \in swept' : KnownToBroker(s.c)'
    BY <2>2, <2>3, <2>4, HearsMore
  <2>6. /\ \A d \in Coid : KnownToBroker(d)' => Committed(d)'
        /\ \A d \in Coid : rows'[d].bid => KnownToBroker(d)'
    BY <2>3, <2>4 DEF Committed
  <2>7. pc' \in {"reply", "record"} => KnownToBroker(cur)'
    <3>1. CASE pc \notin {"reply", "record"}
      BY <2>3, <2>4, <3>1
    <3>2. CASE pc \in {"reply", "record"}
      <4>1. cur \in Coid /\ KnownToBroker(cur)  BY <3>2 DEF OrderInv
      <4>. QED  BY <2>3, <2>4, <4>1 DEF KnownToBroker
    <3>. QED  BY <3>1, <3>2
  <2>. QED  BY <2>3, <2>4, <2>5, <2>6, <2>7
<1>29. ASSUME NEW c \in Coid, NEW st \in ClosedStatus, Close(c, st)  PROVE BrokerInv'
  <2>. DEFINE u == [c |-> c, event |-> st, n |-> bro[c].filled]
  <2>1. u \in Update /\ u.c = c /\ u.event # "fill"
    BY DEF Update, BrokerOrder, ClosedStatus
  <2>2. /\ \A d \in Coid : KnownToBroker(d) <=> KnownToBroker(d)'
        /\ KnownToBroker(c)
        /\ \A d \in Coid : bro'[d].status \in {"unknown", "open"} => bro'[d].filled < Qty
    BY <1>29 DEF Close, KnownToBroker, BrokerOrder, ClosedStatus
  <2>3. /\ stream' = stream \/ stream' = Append(stream, u)
        /\ UNCHANGED <<rows, handling, swept, pc, cur>>
    BY <1>29 DEF Close, Emit
  <2>4. /\ \A i \in 1 .. Len(stream') : Genuine(stream[i])'
        /\ \A h \in handling' : Genuine(h.u)'
        /\ \A s \in swept' : KnownToBroker(s.c)'
    BY <2>1, <2>2, <2>3, HearsMore
  <2>5. /\ \A d \in Coid : KnownToBroker(d)' => Committed(d)'
        /\ \A d \in Coid : rows'[d].bid => KnownToBroker(d)'
    BY <2>2, <2>3 DEF Committed
  <2>6. pc' \in {"reply", "record"} => KnownToBroker(cur)'
    <3>1. CASE pc \notin {"reply", "record"}
      BY <2>2, <2>3, <3>1
    <3>2. CASE pc \in {"reply", "record"}
      <4>1. cur \in Coid /\ KnownToBroker(cur)  BY <3>2 DEF OrderInv
      <4>. QED  BY <2>2, <2>3, <4>1 DEF KnownToBroker
    <3>. QED  BY <3>1, <3>2
  <2>. QED  BY <2>2, <2>3, <2>4, <2>5, <2>6
<1>30. CASE UNCHANGED vars
  BY <1>30 DEF vars, Committed, KnownToBroker, Genuine, OrderInv
<1>. QED
  BY <1>1, <1>2, <1>3, <1>4, <1>5, <1>6, <1>7, <1>8, <1>9, <1>10, <1>11, <1>12, <1>13, <1>14,
       <1>15, <1>16, <1>17, <1>18, <1>19, <1>20, <1>21, <1>22, <1>23, <1>24, <1>25, <1>26, <1>27,
       <1>28, <1>29, <1>30
  DEF Next, Lifecycle, BarTask, DecideStep, SendTask, Reconcile, Sweep, Broker

-----------------------------------------------------------------------------
(* The invariant and what follows from it *)

\* The initial state satisfies the invariant.
LEMMA InitInv == Init => IInv
<1>1. SUFFICES ASSUME Init  PROVE IInv
  OBVIOUS
<1>. USE LiveSessionAssumption, <1>1 DEF Init
<1>2. TypeOK
  <2>1. rows \in [Coid -> Row]
    BY DEF NoRow, Row, RowStatus
  <2>2. bro \in [Coid -> BrokerOrder]
    BY DEF BrokerOrder
  <2>3. told \in [Coid -> Seq(Kind)] /\ stream \in Seq(Update)
    OBVIOUS
  <2>. QED  BY <2>1, <2>2, <2>3 DEF TypeOK, BarNo
<1>3. MemoryInv
  BY DEF MemoryInv
<1>4. OrderInv
  BY DEF OrderInv, Committed, NoRow
<1>5. BrokerInv
  BY DEF BrokerInv, Committed, KnownToBroker, NoRow
<1>. QED  BY <1>2, <1>3, <1>4, <1>5 DEF IInv

\* IInv is an invariant of a session under any number of crashes, lost and duplicated updates,
\* failed transactions and failed broker calls.
THEOREM Invariance == Spec => []IInv
<1>1. IInv /\ [Next]_vars => IInv'
  BY TypeStep, MemoryStep, OrderStep, BrokerStep DEF IInv
<1>. QED  BY InitInv, <1>1, PTL DEF Spec

\* The session's state is well typed.
THEOREM TypeCorrect == Spec => []TypeOK
<1>1. IInv => TypeOK
  BY DEF IInv
<1>. QED  BY <1>1, Invariance, PTL

\* No order is at the broker that the database does not know: _persist_advance commits before
\* _submit_order, and nothing removes a row.
THEOREM NoOrphanOrder == Spec => []PersistBeforeSend
<1>1. IInv => PersistBeforeSend
  BY DEF IInv, BrokerInv, KnownToBroker, Committed, PersistBeforeSend
<1>. QED  BY <1>1, Invariance, PTL

\* Orders, bar count and watermark advance together, so that the bar number of a
\* committed order is not handed out again.
THEOREM NumbersAdvanceTogether == Spec => []AdvanceTogether
<1>1. IInv => AdvanceTogether
  BY DEF IInv, MemoryInv, OrderInv, Committed, AdvanceTogether
<1>. QED  BY <1>1, Invariance, PTL

\* Every bar that is acted on is later than all the bars acted on before, and counts one.
THEOREM EachBarOnce == Spec => BarOnce
<1>. DEFINE Advanced == bc' = bc + 1 /\ wm' > wm
<1>1. IInv /\ [Next]_vars => [Advanced]_<<bc, wm>>
  <2>1. SUFFICES ASSUME IInv, [Next]_vars  PROVE [Advanced]_<<bc, wm>>
    OBVIOUS
  <2>2. ASSUME NEW new \in SUBSET NewOrders, NEW over \in SUBSET new,
               NEW cancels \in SUBSET (pend \cup new), Decide(new, over, cancels)
        PROVE  Advanced
    <3>1. barTs > memWm /\ memWm >= wm /\ memBc = bc
      BY <2>1, <2>2 DEF Decide, IInv, MemoryInv, TypeOK, BarNo
    <3>2. bc' = memBc + 1 /\ wm' = barTs
      BY <2>2 DEF Decide
    <3>. QED  BY <2>1, <3>1, <3>2 DEF IInv, TypeOK, BarNo
  <2>3. CASE UNCHANGED <<bc, wm>>
    BY <2>3
  <2>. QED
    BY <2>1, <2>2, <2>3
    DEF Next, Lifecycle, BarTask, DecideStep, SendTask, Reconcile, Sweep, Broker, vars, dbVars,
        WarmStart, Crash, TakeBar, ExpireOrder, ApplyQueuedCancel, DropOrder, DecideFails,
        RolledBack, BlockOrder, SendOrder, SendFails, BrokerReplies, ReplyFails, RecordOrder,
        RefuseOrder, SubmitDone, WriteFails, PickUpdate, ApplyFill, ApplyClosed, ApplyNew,
        UpdateFails, LoseUpdate, SweepLoads, SweepReads, SweepApplies, SweepFails, Execute, Close
<1>. QED  BY <1>1, Invariance, PTL DEF Spec, BarOnce

=============================================================================
