----------------------------- MODULE LiveSession -----------------------------
(***************************************************************************)
(* One paper or live trading session of packages/livetrade: the bar loop   *)
(* of LiveSession, the reconciler that applies the broker's trade updates  *)
(* to the ledger, the periodic sweep, crashes and warm starts, and the     *)
(* broker as the session sees it.                                          *)
(*                                                                         *)
(* An order is named by its client order id.  The code builds that id from *)
(* the session's bar count and a per-bar sequence number; here the number  *)
(* is a slot, and the slot also fixes the order's life in bars.  Bar times *)
(* are 1 .. MaxBars and 0 stands for "no watermark yet".                   *)
(*                                                                         *)
(* One step of the session's task is what runs between two awaits whose    *)
(* order others can observe.  Sizes, prices, symbols and sides are left    *)
(* out: an order is Qty units, and the broker executes one at a time.      *)
(*                                                                         *)
(* A call to the broker may fail before or after the broker acted on it.   *)
(* A transaction that raises is taken to be rolled back: a COMMIT that     *)
(* lands while its reply is lost is left out.                              *)
(***************************************************************************)
EXTENDS Integers, Sequences, FiniteSets

CONSTANTS
  Slots,     \* the orders a strategy may place on one bar
  Lifetime,  \* bars after which the order in a slot expires; more than MaxBars: never
  Qty,       \* the units of an order
  MaxBars,   \* the last bar time: bounds the bars, and with them the orders
  Placing,   \* the bar numbers on which the strategy may place orders: bounds the runs
  Guarded,   \* TRUE for mode = 'live': the kill switch or a halt may block orders
  Budget,    \* how many faults of each kind may happen: bounds the runs
  Mix,       \* how many kinds of fault may happen together: bounds the runs
  NULL

FaultKind == {"crash", "lost", "dup", "db", "call"}

ASSUME LiveSessionAssumption ==
  /\ Qty \in Nat \ {0}
  /\ MaxBars \in Nat \ {0}
  /\ Lifetime \in [Slots -> Nat \ {0}]
  /\ Guarded \in BOOLEAN
  /\ Budget \in [FaultKind -> Nat] /\ Mix \in Nat

VARIABLES
  (* the database *)
  rows,     \* paper_orders: status, whether broker_order_id is set, filled_quantity
  bc,       \* paper_sessions.last_bar_count
  wm,       \* paper_sessions.last_processed_bar_ts
  fills,    \* paper_fills: the executions recorded, keyed (order, execution id)
  booked,   \* paper_positions: the units each order contributed to the position
  (* the session's memory, lost in a crash *)
  phase,    \* "down", "warm" (inside warm_start, not registered), "run" (registered)
  pc,       \* where the task that holds the session lock stands; "idle": lock free
  barTs,    \* the bar being processed
  memBc,    \* LiveSession.bar_count
  memWm,    \* LiveSession.last_processed_bar_ts
  pend,     \* the keys of LiveSession._pending
  knows,    \* the pending orders whose PendingOrder.broker_order_id is set
  ghost,    \* the pending orders whose db_id belongs to a rolled-back insert
  queued,   \* LiveSession._queued_cancels
  todo,     \* the orders still to be sent by the current bar or warm start
  cur,      \* the order the task is working on
  res,      \* the status the task is about to write for it
  told,     \* the lifecycle callbacks this strategy instance received per order
  handling, \* the trade update between its row lookup and its application
  swept,    \* the order row the sweep has loaded, and then the broker's reading of it
  (* the broker and its account-wide stream *)
  bro,      \* the broker's orders: status and executed units
  cxl,      \* the orders whose cancellation was requested
  stream,   \* trade updates under way
  faults    \* faults so far, by kind

dbVars  == <<rows, bc, wm, fills, booked>>
memVars == <<phase, pc, barTs, memBc, memWm, pend, knows, ghost, queued, todo,
             cur, res, told>>
recVars == <<handling, swept>>
broVars == <<bro, cxl, stream>>
vars    == <<dbVars, memVars, recVars, broVars, faults>>

-----------------------------------------------------------------------------
(* Orders, rows and updates *)

BarNo == 0 .. MaxBars
Coid  == (0 .. MaxBars - 1) \X Slots

\* BarContext._compute_expiry: the bar index at which the order expires.
ExpiresAt(c) == c[1] + Lifetime[c[2]]

OpenStatus   == {"pending", "accepted", "partially_filled"}
ClosedStatus == {"canceled", "expired", "rejected"}
RowStatus    == OpenStatus \cup ClosedStatus \cup {"none", "filled", "error"}

Row   == [status : RowStatus, bid : BOOLEAN, filled : 0 .. Qty]
NoRow == [status |-> "none", bid |-> FALSE, filled |-> 0]

\* The broker's own view: "unknown" until it accepts the order.
BrokerOrder == [status : {"unknown", "open", "filled"} \cup ClosedStatus, filled : 0 .. Qty]

\* BrokerOrder.status as get_order and submit_order report it.
BrokerStatus(c) ==
  CASE bro[c].status # "open" -> bro[c].status
    [] bro[c].filled = 0      -> "accepted"
    [] OTHER                  -> "partially_filled"

\* A trade update: n is the cumulative filled quantity and, for a fill, its execution id.
Update  == [c : Coid, event : {"new", "fill"} \cup ClosedStatus, n : 0 .. Qty]
Picked  == [u : Update, bid : BOOLEAN, locked : BOOLEAN]
\* What the sweep holds of an order: its row's filled_quantity, then the broker's answer.
Reading == [c : Coid, status : RowStatus \cup {NULL}, filled : 0 .. Qty]
Kind    == {"rejected", "cancelled", "expired"}

\* One fault of kind k happens, if the bounds allow it.
Fault(k) ==
  /\ faults[k] < Budget[k]
  /\ Cardinality({j \in FaultKind \ {k} : faults[j] > 0}) < Mix
  /\ faults' = [faults EXCEPT ![k] = @ + 1]

\* P.mark_order_status / P.set_order_broker_id through PendingOrder.db_id: the UPDATE finds
\* no row when the insert that made the id was rolled back.
OwnRow(c, r) == IF c \in ghost THEN rows ELSE [rows EXCEPT ![c] = r]

Tell(c, kind) == told' = [told EXCEPT ![c] = Append(@, kind)]

LockFree == pc = "idle"

ExpiredPending == {c \in pend : ExpiresAt(c) <= memBc}

-----------------------------------------------------------------------------
Init ==
  /\ rows = [c \in Coid |-> NoRow] /\ bc = 0 /\ wm = 0
  /\ fills = {} /\ booked = [c \in Coid |-> 0]
  /\ phase = "down" /\ pc = "idle" /\ barTs = 0 /\ memBc = 0 /\ memWm = 0
  /\ pend = {} /\ knows = {} /\ ghost = {} /\ queued = {} /\ todo = {}
  /\ cur = NULL /\ res = NULL /\ told = [c \in Coid |-> <<>>]
  /\ handling = {} /\ swept = {}
  /\ bro = [c \in Coid |-> [status |-> "unknown", filled |-> 0]]
  /\ cxl = {} /\ stream = <<>>
  /\ faults = [k \in FaultKind |-> 0]

-----------------------------------------------------------------------------
(* Process life: warm start and crash *)

\* Mutant of Unsent: nothing is sent again.
NoneUnsent == {}

\* The rows committed before a crash and never given to the broker.
Unsent == {c \in Coid : rows[c].status = "pending" /\ ~rows[c].bid}

\* Mutant of ResumedCount: a restarted process counts its bars from zero.
CountFromZero == 0

\* The bar count a loaded session goes on with.
ResumedCount == bc

\* warm_start of a loaded session: a session without watermark anchors it to the newest
\* stored bar; open rows become pending again and those never given to the broker are sent.
WarmStart ==
  /\ phase = "down"
  /\ phase' = "warm" /\ pc' = "submit"
  /\ memBc' = ResumedCount
  /\ IF wm = 0 THEN memWm' \in BarNo ELSE memWm' = wm
  /\ pend'  = {c \in Coid : rows[c].status \in OpenStatus}
  /\ knows' = {c \in Coid : rows[c].status \in OpenStatus /\ rows[c].bid}
  /\ todo'  = Unsent
  /\ UNCHANGED <<barTs, ghost, queued, cur, res, told, dbVars, recVars, broVars, faults>>

\* The process dies or is shut down: memory and the updates under way
\* are gone, since the stream has no replay.
Crash ==
  /\ phase # "down"
  /\ Fault("crash")
  /\ phase' = "down" /\ pc' = "idle" /\ barTs' = 0 /\ memBc' = 0 /\ memWm' = 0
  /\ pend' = {} /\ knows' = {} /\ ghost' = {} /\ queued' = {} /\ todo' = {}
  /\ cur' = NULL /\ res' = NULL /\ told' = [c \in Coid |-> <<>>]
  /\ handling' = {} /\ swept' = {} /\ stream' = <<>>
  /\ UNCHANGED <<dbVars, bro, cxl>>

-----------------------------------------------------------------------------
(* The bar loop: on_closed_bar under the session lock *)

\* Mutant of NewBar: a redelivered bar passes the gate.
NewOrSameBar(ts) == ts >= memWm

\* The idempotency gate.
NewBar(ts) == ts > memWm

\* A closed bar newer than the watermark is taken up.  Stale, redelivered and sibling bars are
\* dropped by the gate: they only reach the price history, which is not modelled.
TakeBar(ts) ==
  /\ phase = "run" /\ LockFree
  /\ NewBar(ts)
  /\ barTs' = ts /\ pc' = "expire"
  /\ UNCHANGED <<phase, memBc, memWm, pend, knows, ghost, queued, todo, cur, res, told,
                 dbVars, recVars, broVars, faults>>

\* Mutant of RequestCancel: the order is dropped without asking the broker.
NoRequest(c) == UNCHANGED <<cxl, faults>>

\* broker.cancel_order with its errors swallowed; only an order with a broker id is asked for.
RequestCancel(c) ==
  \/ c \in knows /\ cxl' = cxl \cup {c} /\ UNCHANGED faults
  \/ c \in knows /\ Fault("call") /\ UNCHANGED cxl
  \/ c \notin knows /\ UNCHANGED <<cxl, faults>>

\* _expire_orders, up to the await of the broker's cancel.
ExpireOrder(c) ==
  /\ pc = "expire" /\ c \in ExpiredPending
  /\ RequestCancel(c)
  /\ pc' = "drop" /\ cur' = c /\ res' = "expired"
  /\ UNCHANGED <<phase, barTs, memBc, memWm, pend, knows, ghost, queued, todo, told,
                 dbVars, recVars, bro, stream>>

\* _apply_queued_cancels for one id: an order at the broker is only asked to be cancelled, an
\* order without broker id is dropped at once, an id no longer pending is skipped.
ApplyQueuedCancel(c) ==
  /\ pc = "expire" /\ ExpiredPending = {} /\ c \in queued
  /\ queued' = queued \ {c}
  /\ IF c \in pend \ knows
       THEN pc' = "drop" /\ cur' = c /\ res' = "canceled" /\ UNCHANGED <<cxl, faults>>
       ELSE RequestCancel(c) /\ UNCHANGED <<pc, cur, res>>
  /\ UNCHANGED <<phase, barTs, memBc, memWm, pend, knows, ghost, todo, told,
                 dbVars, recVars, bro, stream>>

\* Mutant of RemovePending: the broker ids outlive the pending order.
RemoveKeyOnly(c) == pend' = pend \ {c} /\ UNCHANGED <<knows, ghost>>

KeepPending == UNCHANGED <<pend, knows, ghost>>

\* Mutant of RemovePending: the order stays pending.
RemoveNothing(c) == KeepPending

\* self._pending.pop(coid, None)
RemovePending(c) == pend' = pend \ {c} /\ knows' = knows \ {c} /\ ghost' = ghost \ {c}

\* The order leaves _pending, its row is marked and the strategy is told.
DropOrder ==
  /\ pc = "drop" /\ pc' = "expire"
  /\ RemovePending(cur)
  /\ rows' = OwnRow(cur, [rows[cur] EXCEPT !.status = res])
  /\ Tell(cur, IF res = "expired" THEN "expired" ELSE "cancelled")
  /\ cur' = NULL /\ res' = NULL
  /\ UNCHANGED <<phase, barTs, memBc, memWm, queued, todo,
                 bc, wm, fills, booked, recVars, broVars, faults>>

\* A new order starts with no callback; _notional_rejection tells the strategy at once.
ToldOnDecision(new, over) ==
  [c \in Coid |-> CASE c \in over -> <<"rejected">> [] c \in new \ over -> <<>>
                    [] OTHER -> told[c]]

\* Mutant of Sendable: every drained order is sent.
AllSendable(new) == new

\* _submit_order returns at once for an order that is not in _pending.
Sendable(new) == new \cap pend'

\* Strategy.on_bar, the drain, and the transaction of _persist_advance: the new orders (those
\* over the notional limit as 'rejected'), the watermark and the bar count commit together.
\* An order is then sent if _pending holds its id.
Decide(new, over, cancels) ==
  /\ pc = "expire" /\ ExpiredPending = {} /\ queued = {}
  /\ rows' = [c \in Coid |->
                IF c \in new /\ rows[c].status = "none"
                  THEN [NoRow EXCEPT !.status = IF c \in over THEN "rejected" ELSE "pending"]
                  ELSE rows[c]]
  /\ wm' = barTs /\ bc' = memBc + 1
  /\ memWm' = barTs /\ memBc' = memBc + 1
  /\ pend' = pend \cup (new \ over)
  /\ knows' = knows \ (new \ over) /\ ghost' = ghost \ (new \ over)
  /\ queued' = cancels
  /\ todo' = Sendable(new)
  /\ told' = ToldOnDecision(new, over)
  /\ pc' = "submit" /\ barTs' = 0
  /\ UNCHANGED <<phase, cur, res, fills, booked, recVars, broVars, faults>>

\* Mutant of RolledBack: the bar is counted although its transaction failed.
CountedAnyway == memBc' = memBc + 1 /\ UNCHANGED <<memWm, dbVars>>

\* Neither the database nor the counters of the session move.
RolledBack == UNCHANGED <<memBc, memWm, dbVars>>

\* Mutant of LeaveBar: the failure is swallowed and the orders are sent.
SendAnyway == pc' = "submit" /\ barTs' = 0 /\ todo' = pend' \cap ({memBc} \X Slots)

\* The exception leaves on_closed_bar and releases the lock.
LeaveBar == pc' = "idle" /\ barTs' = 0 /\ UNCHANGED todo

\* The same with the transaction rolled back: the exception leaves on_closed_bar before the
\* bar count and the watermark move, but the orders inserted so far stay in _pending, and the
\* strategy was told of those over the limit.
DecideFails(done, over, cancels) ==
  /\ pc = "expire" /\ ExpiredPending = {} /\ queued = {}
  /\ Fault("db")
  /\ LET ours == done \ over IN
       pend' = pend \cup ours /\ ghost' = ghost \cup ours /\ knows' = knows \ ours
  /\ queued' = cancels
  /\ told' = ToldOnDecision(done, over)
  /\ RolledBack /\ LeaveBar
  /\ UNCHANGED <<phase, cur, res, recVars, broVars>>

NewOrders == IF memBc \in Placing THEN {memBc} \X Slots ELSE {}

DecideStep ==
  \E new \in SUBSET NewOrders : \E over \in SUBSET new, cancels \in SUBSET (pend \cup new) :
    Decide(new, over, cancels) \/ DecideFails(new, over, cancels)

-----------------------------------------------------------------------------
(* Sending: _submit_order for each order of the bar or of the warm start *)

\* _live_block_reason: a halted session or an engaged kill switch refuses the order.
BlockOrder(c) ==
  /\ pc = "submit" /\ c \in todo /\ Guarded
  /\ pc' = "refuse" /\ cur' = c /\ res' = "rejected" /\ todo' = todo \ {c}
  /\ UNCHANGED <<phase, barTs, memBc, memWm, pend, knows, ghost, queued, told,
                 dbVars, recVars, broVars, faults>>

\* broker.submit_order reaches the broker, which accepts an id it has not seen and otherwise
\* only looks the existing order up.
SendOrder(c) ==
  /\ pc = "submit" /\ c \in todo
  /\ pc' = "reply" /\ cur' = c /\ todo' = todo \ {c}
  /\ IF bro[c].status = "unknown"
       THEN /\ bro' = [bro EXCEPT ![c].status = "open"]
            /\ stream' = Append(stream, [c |-> c, event |-> "new", n |-> 0])
       ELSE UNCHANGED <<bro, stream>>
  /\ UNCHANGED <<phase, barTs, memBc, memWm, pend, knows, ghost, queued, res, told,
                 dbVars, recVars, cxl, faults>>

\* broker.submit_order raises before the broker has the order.
SendFails(c) ==
  /\ pc = "submit" /\ c \in todo
  /\ Fault("call")
  /\ pc' = "refuse" /\ cur' = c /\ res' = "error" /\ todo' = todo \ {c}
  /\ UNCHANGED <<phase, barTs, memBc, memWm, pend, knows, ghost, queued, told,
                 dbVars, recVars, broVars>>

\* The broker answers with the order's id and its status at that moment.
BrokerReplies ==
  /\ pc = "reply" /\ pc' = "record"
  /\ res' = BrokerStatus(cur)
  /\ knows' = knows \cup {cur}
  /\ UNCHANGED <<phase, barTs, memBc, memWm, pend, ghost, queued, todo, cur, told,
                 dbVars, recVars, broVars, faults>>

\* The answer is lost (a timeout): submit_order raises although the broker has the order.
ReplyFails ==
  /\ pc = "reply" /\ pc' = "refuse"
  /\ Fault("call")
  /\ res' = "error"
  /\ UNCHANGED <<phase, barTs, memBc, memWm, pend, knows, ghost, queued, todo, cur, told,
                 dbVars, recVars, broVars>>

\* P.set_order_broker_id writes the id and the answered status over whatever the row holds.
RecordOrder ==
  /\ pc = "record" /\ pc' = "submit"
  /\ rows' = OwnRow(cur, [rows[cur] EXCEPT !.status = res, !.bid = TRUE])
  /\ cur' = NULL /\ res' = NULL
  /\ UNCHANGED <<phase, barTs, memBc, memWm, pend, knows, ghost, queued, todo, told,
                 bc, wm, fills, booked, recVars, broVars, faults>>

\* A blocked or failed order is marked, leaves _pending and the strategy is told.
RefuseOrder ==
  /\ pc = "refuse" /\ pc' = "submit"
  /\ rows' = OwnRow(cur, [rows[cur] EXCEPT !.status = res])
  /\ RemovePending(cur)
  /\ Tell(cur, "rejected")
  /\ cur' = NULL /\ res' = NULL
  /\ UNCHANGED <<phase, barTs, memBc, memWm, queued, todo,
                 bc, wm, fills, booked, recVars, broVars, faults>>

\* The loop ends: a bar releases the lock; a warm start is done and the runner registers it.
SubmitDone ==
  /\ pc = "submit" /\ todo = {}
  /\ pc' = "idle" /\ phase' = "run"
  /\ UNCHANGED <<barTs, memBc, memWm, pend, knows, ghost, queued, todo, cur, res, told,
                 dbVars, recVars, broVars, faults>>

\* A write of the bar task raises: on_closed_bar is left, the lock released, and the orders
\* not yet sent stay pending.  _expire_orders and _apply_queued_cancels pop before they write.
WriteFails ==
  /\ phase = "run" /\ pc \in {"drop", "refuse", "record"}
  /\ Fault("db")
  /\ IF pc = "drop"
       THEN RemovePending(cur)
       ELSE KeepPending
  /\ pc' = "idle" /\ barTs' = 0 /\ todo' = {} /\ cur' = NULL /\ res' = NULL
  /\ UNCHANGED <<phase, memBc, memWm, queued, told, dbVars, recVars, broVars>>

-----------------------------------------------------------------------------
(* The reconciler: trade updates *)

\* _handle_update looks the row up and then the session, before it takes the session's lock:
\* what it remembers of the row may be old when it is used.  A session that is not registered
\* is handled without its lock.  An id without row is ignored.
PickUpdate ==
  /\ phase # "down" /\ handling = {} /\ stream # <<>>
  /\ LET u == Head(stream) IN
       handling' = IF rows[u.c].status = "none" THEN {}
                   ELSE {[u |-> u, bid |-> rows[u.c].bid, locked |-> phase = "run"]}
  /\ \/ stream' = Tail(stream) /\ UNCHANGED faults
     \/ Fault("dup") /\ UNCHANGED stream
  /\ UNCHANGED <<swept, dbVars, memVars, bro, cxl>>

Handle(h) == h \in handling /\ (h.locked => LockFree) /\ handling' = {}

\* Mutant of Recorded: fills are not deduplicated.
NeverRecorded(c, n) == FALSE

\* insert_paper_fill finds the execution recorded already.
Recorded(c, n) == <<c, n>> \in fills

\* _apply_fill in one transaction: a fill already recorded changes nothing; a new one is
\* inserted, moves the position and sets the row; a full fill ends the pending order.
ApplyFill(h) ==
  LET c == h.u.c  n == h.u.n IN
  /\ Handle(h) /\ h.u.event = "fill"
  /\ IF Recorded(c, n)
       THEN UNCHANGED <<fills, booked, rows>> /\ KeepPending
       ELSE /\ fills' = fills \cup {<<c, n>>}
            /\ booked' = [booked EXCEPT ![c] = @ + 1]
            /\ rows' = [rows EXCEPT ![c].status = IF n = Qty THEN "filled"
                                                  ELSE "partially_filled",
                                    ![c].filled = n]
            /\ IF n = Qty /\ h.locked THEN RemovePending(c) ELSE KeepPending
  /\ UNCHANGED <<phase, pc, barTs, memBc, memWm, queued, todo, cur, res, told,
                 bc, wm, swept, broVars, faults>>

\* canceled, expired, rejected: the row is marked, and the strategy is told if the order was
\* still pending in memory.
ApplyClosed(h) ==
  LET c == h.u.c IN
  /\ Handle(h) /\ h.u.event \in ClosedStatus
  /\ rows' = [rows EXCEPT ![c].status = h.u.event]
  /\ IF h.locked /\ c \in pend
       THEN /\ RemovePending(c)
            /\ Tell(c, IF h.u.event = "canceled" THEN "cancelled" ELSE h.u.event)
       ELSE KeepPending /\ UNCHANGED told
  /\ UNCHANGED <<phase, pc, barTs, memBc, memWm, queued, todo, cur, res,
                 bc, wm, fills, booked, swept, broVars, faults>>

\* new: a row that had no broker id when it was looked up gets one, and 'accepted'.
ApplyNew(h) ==
  /\ Handle(h) /\ h.u.event = "new"
  /\ rows' = IF h.bid THEN rows
             ELSE [rows EXCEPT ![h.u.c].status = "accepted", ![h.u.c].bid = TRUE]
  /\ UNCHANGED <<memVars, bc, wm, fills, booked, swept, broVars, faults>>

\* The transaction fails: _run_stream logs the error and goes on to the next update.
UpdateFails(h) ==
  /\ Handle(h)
  /\ Fault("db")
  /\ UNCHANGED <<swept, dbVars, memVars, broVars>>

\* The connection drops the next update; the stream has no replay.
LoseUpdate ==
  /\ stream # <<>>
  /\ Fault("lost")
  /\ stream' = Tail(stream)
  /\ UNCHANGED <<dbVars, memVars, recVars, bro, cxl>>

-----------------------------------------------------------------------------
(* The sweep: _sweep_once over the open rows of the registered session *)

\* load_open_orders: an open row that has a broker id, with its filled_quantity of that moment.
SweepLoads(c) ==
  /\ phase = "run" /\ swept = {}
  /\ rows[c].status \in OpenStatus /\ rows[c].bid
  /\ swept' = {[c |-> c, status |-> NULL, filled |-> rows[c].filled]}
  /\ UNCHANGED <<handling, dbVars, memVars, broVars, faults>>

\* Mutant of Missed: orders that ended without filling are overlooked.
MissedFill(s) == bro[s.c].filled > s.filled

\* What the sweep acts upon.
Missed(s) == bro[s.c].filled > s.filled \/ bro[s.c].status \in ClosedStatus

\* get_order reports more than the loaded row recorded, or an order that ended without
\* filling; otherwise the sweep goes on to the next order.
SweepReads(s) ==
  /\ s \in swept /\ s.status = NULL
  /\ swept' = IF Missed(s)
                THEN {[c |-> s.c, status |-> BrokerStatus(s.c), filled |-> bro[s.c].filled]}
                ELSE {}
  /\ UNCHANGED <<handling, dbVars, memVars, broVars, faults>>

\* Under the lock the reading, by now perhaps old, is written to the row; an order that ended
\* leaves _pending.  Neither paper_fills nor paper_positions is touched.
SweepApplies(s) ==
  /\ s \in swept /\ s.status # NULL /\ LockFree /\ swept' = {}
  /\ rows' = [rows EXCEPT ![s.c].status = s.status, ![s.c].filled = s.filled]
  /\ IF s.status \in ClosedStatus \cup {"filled"} THEN RemovePending(s.c) ELSE KeepPending
  /\ UNCHANGED <<phase, pc, barTs, memBc, memWm, queued, todo, cur, res, told,
                 bc, wm, fills, booked, handling, broVars, faults>>

\* get_order or the write raises: the sweep is given up until the next interval.
SweepFails(s) ==
  /\ s \in swept /\ swept' = {}
  /\ IF s.status = NULL THEN Fault("call") ELSE LockFree /\ Fault("db")
  /\ UNCHANGED <<handling, dbVars, memVars, broVars>>

-----------------------------------------------------------------------------
(* The broker *)

\* Updates reach a session's process only while it is up.
Emit(u) == stream' = IF phase = "down" THEN stream ELSE Append(stream, u)

\* An open order executes one more unit.
Execute(c) ==
  LET n == bro[c].filled + 1 IN
  /\ bro[c].status = "open"
  /\ bro' = [bro EXCEPT ![c] = [status |-> IF n = Qty THEN "filled" ELSE "open", filled |-> n]]
  /\ Emit([c |-> c, event |-> "fill", n |-> n])
  /\ UNCHANGED <<cxl, dbVars, memVars, recVars, faults>>

\* An open order ends: cancelled on request or by the venue, expired, or rejected unfilled.
Close(c, st) ==
  /\ bro[c].status = "open" /\ (st = "rejected" => bro[c].filled = 0)
  /\ bro' = [bro EXCEPT ![c].status = st]
  /\ Emit([c |-> c, event |-> st, n |-> bro[c].filled])
  /\ UNCHANGED <<cxl, dbVars, memVars, recVars, faults>>

-----------------------------------------------------------------------------
Lifecycle == WarmStart \/ Crash

BarTask ==
  \/ \E c \in Coid : ExpireOrder(c) \/ ApplyQueuedCancel(c)
  \/ DropOrder
  \/ DecideStep

SendTask ==
  \/ \E c \in Coid : BlockOrder(c) \/ SendOrder(c) \/ SendFails(c)
  \/ BrokerReplies \/ ReplyFails \/ RecordOrder \/ RefuseOrder \/ SubmitDone

Reconcile ==
  \/ PickUpdate
  \/ \E h \in handling : ApplyFill(h) \/ ApplyClosed(h) \/ ApplyNew(h) \/ UpdateFails(h)

Sweep ==
  \/ \E c \in Coid : SweepLoads(c)
  \/ \E s \in swept : SweepReads(s) \/ SweepApplies(s) \/ SweepFails(s)

Broker == \E c \in Coid : Execute(c) \/ \E st \in ClosedStatus : Close(c, st)

Next ==
  \/ Lifecycle
  \/ \E ts \in 1 .. MaxBars : TakeBar(ts)
  \/ BarTask \/ SendTask \/ WriteFails
  \/ Reconcile \/ LoseUpdate
  \/ Sweep
  \/ Broker

Spec == Init /\ [][Next]_vars

\* The tasks of the event loop go on while the process is up, and a process that went down is
\* started again (the compose files restart it).  Nothing is assumed of the broker, of the
\* strategy or of the bars.
Fairness ==
  /\ WF_vars(WarmStart)
  /\ WF_vars(BarTask \/ SendTask)
  /\ WF_vars(Reconcile)
  /\ \A c \in Coid : SF_vars(SweepLoads(c))
  /\ WF_vars(\E s \in swept : SweepReads(s) \/ SweepApplies(s))

LiveSpec == Spec /\ Fairness

-----------------------------------------------------------------------------
(* Properties *)

TypeOK ==
  /\ rows \in [Coid -> Row] /\ bc \in BarNo /\ wm \in BarNo
  /\ fills \subseteq Coid \X (1 .. Qty) /\ booked \in [Coid -> Nat]
  /\ phase \in {"down", "warm", "run"}
  /\ pc \in {"idle", "expire", "drop", "submit", "reply", "refuse", "record"}
  /\ barTs \in BarNo /\ memBc \in BarNo /\ memWm \in BarNo
  /\ pend \subseteq Coid /\ knows \subseteq pend /\ ghost \subseteq pend
  /\ queued \subseteq Coid /\ todo \subseteq Coid
  /\ cur \in Coid \cup {NULL} /\ res \in RowStatus \cup {NULL}
  /\ told \in [Coid -> Seq(Kind)]
  /\ handling \subseteq Picked /\ swept \subseteq Reading
  /\ bro \in [Coid -> BrokerOrder] /\ cxl \subseteq Coid /\ stream \in Seq(Update)
  /\ faults \in [FaultKind -> Nat]

\* An order is at the broker only if its row was committed before: whatever the moment of a
\* crash or of a failed transaction, no real order exists that the database does not know
\* (on_closed_bar step 7, _persist_advance before _submit_order).
PersistBeforeSend ==
  \A c \in Coid : bro[c].status # "unknown" => rows[c].status # "none"

\* Orders, watermark and bar count move together: memory never runs ahead of or behind the
\* database, and no committed order carries a bar number that could be handed out again, so the
\* id of a committed order is never given to another one, over crashes and rolled-back
\* transactions.  The ids of an attempt that was rolled back are given out again.
AdvanceTogether ==
  /\ \A c \in Coid : rows[c].status # "none" => c[1] < bc
  /\ phase # "down" => memBc = bc /\ (wm # 0 => memWm = wm)

\* A bar time is acted on once, in order, with the bar count rising by one, across redelivered
\* bars, sibling symbols and restarts (the gate and watermark of on_closed_bar).
BarOnce == [][bc' = bc + 1 /\ wm' > wm]_<<bc, wm>>

\* While no database write failed, a session that is registered and between bars has no
\* committed order that was neither sent nor resolved: a crash between the commit and the
\* send is made good by warm_start.
NothingStranded ==
  faults["db"] = 0 /\ phase = "run" /\ pc = "idle" =>
    \A c \in Coid : rows[c].status # "pending"

\* The ledger counts each recorded execution once, and records only what the broker executed,
\* with fills redelivered, lost, or applied around a restart (_apply_fill's deduplication).
LedgerSound ==
  \A c \in Coid :
    /\ \A n \in 1 .. Qty : <<c, n>> \in fills => n <= bro[c].filled
    /\ booked[c] = Cardinality({n \in 1 .. Qty : <<c, n>> \in fills})

\* While no database write failed, a strategy instance hears at most once that an order of its
\* is over, whichever of expiry, cancellation, refusal and the broker's events come together.
ToldOnce == faults["db"] = 0 => \A c \in Coid : Len(told[c]) <= 1

\* A partial fill reached the row before the order's broker id did.  If the process dies now,
\* warm_start takes the order for one that was sent, and the session never learns its id.
Nameless(c) == rows[c].filled > 0 /\ ~rows[c].bid

\* An order whose row says expired or canceled while the broker still works it was asked to be
\* cancelled there, unless a broker call failed, a write was lost, or the session never learned
\* its broker id (_expire_orders, _apply_queued_cancels).
ClosedMeansCancelled ==
  \A c \in Coid :
    rows[c].status \in {"expired", "canceled"} /\ bro[c].status = "open" =>
      c \in cxl \/ Nameless(c) \/ faults["call"] > 0 \/ faults["db"] > 0

\* The broker is handed an order only while its row still says pending: never one that was
\* refused, expired or cancelled before ("Orders that fail the notional check are written as
\* 'rejected' and excluded from broker submission", _persist_advance).
NoLateSend ==
  [][\A c \in Coid : bro[c].status = "unknown" /\ bro'[c].status # "unknown" =>
       rows[c].status = "pending"]_vars

\* The session keeps the promise of OrderBook.
Book == INSTANCE OrderBook WITH
  bars <- bc, last <- wm,
  committed <- {c \in Coid : rows[c].status # "none"},
  accepted  <- {c \in Coid : bro[c].status # "unknown"},
  executed  <- [c \in Coid |-> bro[c].filled],
  posted    <- booked
ImplementsOrderBook == Book!BookSpec

\* A committed order is eventually sent, refused or otherwise resolved, crashes included.
PendingResolved ==
  \A c \in Coid : rows[c].status = "pending" ~> rows[c].status # "pending"

Over(c) == bro[c].status \in ClosedStatus \cup {"filled"}

\* An order that is over at the broker is eventually over in the database, or at least its row
\* records the whole quantity, when updates were lost, repeated, applied late, or missed while
\* the process was down: the sweep finds it (_sweep_once), unless the row never got a broker
\* id.  Over(c) lasts, so a row that is nameless for a moment must still catch up later.
RowCatchesUp ==
  \A c \in Coid :
    Over(c) ~> rows[c].status \notin OpenStatus \/ rows[c].filled = Qty \/ Nameless(c)

\* An order that is over at the broker is eventually over in the database, as it would be if
\* every update were applied "under the owning session's lock" (reconciler.py).
RowFollowsBroker ==
  \A c \in Coid : Over(c) ~> rows[c].status \notin OpenStatus

\* Every execution eventually reaches the position ledger, also when the stream lost its
\* update: the sweep is there "to catch fills missed during a disconnect" (reconciler.py).
LedgerCatchesUp ==
  \A c \in Coid : bro[c].filled = Qty ~> booked[c] = Qty

=============================================================================
