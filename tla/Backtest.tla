------------------------------- MODULE Backtest -------------------------------
(***************************************************************************)
(* The event loop of a backtest (packages/backtest/engine.py, fills.py and *)
(* portfolio.py) with a strategy that places and cancels orders as it      *)
(* likes, over every sequence of bars drawn from a small set.              *)
(*                                                                         *)
(* One bar is three kinds of step in the engine's own order: OpenBar       *)
(* (marks, option settlement, expirations, cancellations), one FillNext    *)
(* per resting order, and OnBar (the strategy, the queueing of what it     *)
(* submitted, mark to market).  An order is named by its position in the   *)
(* list of all orders submitted.  Rates are in hundredths and prices in    *)
(* multiples of a unit that makes every product and average exact.         *)
(***************************************************************************)
EXTENDS Portfolio

CONSTANTS
  Symbols,    \* the strategy's symbols
  Options,    \* those that are option contracts
  Underlying, \* the underlying of an option
  Strike, Right, Expiry,  \* of each option; the expiry as a bar count
  Mult,       \* the contract multiplier of each symbol
  Scenarios,  \* the configurations, with the bars and orders of each; field most bounds
              \* how many orders the strategy places
  StartCash,
  Slip, Fee, OptionFee,  \* slippage and fee rate, and the fee per contract
  MaxBars,    \* the length of the timeline: bounds the runs
  NoBar, NoMark, Broken

Bars == [open : Nat, high : Nat, low : Nat, close : Nat \ {0}, vol : Nat]
Shapes == [sym : Symbols, side : {Buy, Sell}, type : {"market", "limit", "stop", "trail"},
           qty : Nat \ {0}, price : Nat, life : Nat]

ASSUME BacktestAssumption ==
  /\ IsFiniteSet(Symbols) /\ Options \subseteq Symbols /\ Underlying \in [Options -> Symbols]
  /\ Mult \in [Symbols -> Nat \ {0}] /\ Strike \in [Options -> Nat]
  /\ Right \in [Options -> {"C", "P"}] /\ Expiry \in [Options -> Nat]
  /\ StartCash \in Nat /\ Slip \in 0 .. 99 /\ Fee \in 0 .. 99 /\ OptionFee \in Nat
  /\ MaxBars \in Nat \ {0}
  /\ NoBar \notin Bars /\ NoMark \notin Nat
  /\ \A c \in Scenarios :
       /\ c.allowShort \in BOOLEAN /\ c.cap \in BOOLEAN
       /\ c.margin \in 0 .. 100 /\ c.through \in 0 .. 99 /\ c.adverse \in 0 .. 99
       /\ \A s \in Symbols : c.bars[s] \subseteq Bars
       /\ c.orders \subseteq Seq(Shapes) /\ c.most \in Nat

VARIABLES
  sc,        \* the scenario: allowShort, margin, cap, through, adverse, bars, orders, most
  phase,     \* "open" or "fill"
  bar,       \* bar_count; the bars before the first one is -1
  market,    \* the bar of each symbol at this time, or NoBar
  marks,     \* last_marks
  book,      \* every order submitted, in order
  left,      \* what is left of each order
  pending,   \* pending_orders, which is always in the order of submission
  todo,      \* the pending orders still to be tried on this bar
  cancels,   \* pending_cancellations
  expired, cancelled, rejected,   \* the ids that ended that way
  trail,     \* trail_state of each order, or NoMark
  cash, pos, \* the Portfolio
  fills,
  settled,   \* settled_options
  equity,    \* total_equity of the last equity point
  ledger,    \* position_math fed with the same fills
  asked,     \* history: the bar a cancellation was first requested at, or MaxBars
  seen       \* history: the bars each trailing stop was tried on

orders == <<book, left, pending, todo, cancels, expired, cancelled, rejected, trail>>
account == <<cash, pos, fills, ledger>>
vars == <<sc, phase, bar, market, marks, orders, account, settled, equity, asked, seen>>

Ids == DOMAIN book
\* x * rate / 100, rounded down, without forming the product.
Pct(x, rate) == (x \div 100) * rate + ((x % 100) * rate) \div 100

Init ==
  /\ sc \in Scenarios
  /\ phase = "open" /\ bar = -1
  /\ market = [s \in Symbols |-> NoBar] /\ marks = [s \in Symbols |-> NoMark]
  /\ book = << >> /\ left = << >> /\ pending = {} /\ todo = {} /\ cancels = {}
  /\ expired = {} /\ cancelled = {} /\ rejected = {} /\ trail = << >>
  /\ cash = StartCash /\ pos = [s \in Symbols |-> Flat] /\ fills = << >>
  /\ settled = {} /\ equity = StartCash
  /\ ledger = [s \in Symbols |-> Flat] /\ asked = << >> /\ seen = << >>

(***************************************************************************)
(* Filling an order against a bar (fills.py).                              *)
(***************************************************************************)
Orders == [sym : Symbols, side : {Buy, Sell}, type : {"market", "limit", "stop", "trail"},
           qty : Nat \ {0}, price : Nat, at : Nat, expires : Nat]
Positions == [qty : Int, avg : Int, realized : Int]
Holdings  == [qty : Nat, avg : Int, realized : Int]
Fills == [id : Nat, sym : Symbols, side : {Buy, Sell}, qty : Int, price : Int, fee : Int, bar : Nat]

NoFill == [qty |-> 0, price |-> 0, fee |-> 0]

\* Mutant of Fillable: the whole cap is filled, whatever is left of the order.
FillableUncapped(rest, b) == IF sc.cap THEN b.vol ELSE rest

\* _apply_volume_cap: what the bar's volume lets through; 0 blocks the fill.
Fillable(rest, b) == IF sc.cap THEN Lower(rest, b.vol) ELSE rest

FeeFor(s, price, qty) ==
  IF s \in Options THEN OptionFee * qty ELSE Pct(price * qty, Fee)

Filled(o, rest, b, price) ==
  LET qty == Fillable(rest, b)
  IN IF qty = 0 THEN NoFill ELSE [qty |-> qty, price |-> price, fee |-> FeeFor(o.sym, price, qty)]

\* Slippage works against the order.
Slipped(side, price) == IF side = Buy THEN price + Pct(price, Slip) ELSE price - Pct(price, Slip)

MarketFill(o, rest, b) == Filled(o, rest, b, Slipped(o.side, b.open))

\* The bar trades through the limit; the maker model books at the limit less the
\* adverse selection, the legacy one at the better of open and limit.
LimitFill(o, rest, b) ==
  LET maker == sc.through > 0 \/ sc.adverse > 0
      crossed == IF o.side = Buy THEN b.low <= o.price - Pct(o.price, sc.through)
                 ELSE b.high >= o.price + Pct(o.price, sc.through)
      price == IF o.side = Buy
               THEN IF maker THEN o.price + Pct(o.price, sc.adverse) ELSE Lower(b.open, o.price)
               ELSE IF maker THEN o.price - Pct(o.price, sc.adverse) ELSE Higher(b.open, o.price)
  IN IF crossed THEN Filled(o, rest, b, price) ELSE NoFill

\* The high (or low) water mark of a trailing stop, this bar included.
Water(o, prev, b) ==
  IF o.side = Sell THEN IF prev = NoMark THEN b.high ELSE Higher(prev, b.high)
  ELSE IF prev = NoMark THEN b.low ELSE Lower(prev, b.low)

Trigger(o, water) ==
  IF o.type = "stop" THEN o.price
  ELSE IF o.side = Sell THEN water - Pct(water, o.price) ELSE water + Pct(water, o.price)

\* A stop fills at the worse of open and trigger.
StopFill(o, rest, b, water) ==
  LET t == Trigger(o, water) IN
  IF o.side = Sell
  THEN IF b.low > t THEN NoFill ELSE Filled(o, rest, b, Slipped(Sell, Lower(b.open, t)))
  ELSE IF b.high < t THEN NoFill ELSE Filled(o, rest, b, Slipped(Buy, Higher(b.open, t)))

TryFill(o, rest, b, water) ==
  CASE o.type = "market" -> MarketFill(o, rest, b)
    [] o.type = "limit"  -> LimitFill(o, rest, b)
    [] OTHER             -> StopFill(o, rest, b, water)

(***************************************************************************)
(* Valuation and the checks on a fill (portfolio.py, engine.py).           *)
(***************************************************************************)
\* Sum over the symbols; a symbol without a mark counts nothing.
SumSymbols(Val(_)) == SumOver(SetToSeq(Symbols), Val)
ValueAt(s, qty) == IF qty = 0 \/ marks[s] = NoMark THEN 0 ELSE qty * marks[s] * Mult[s]

PositionsValue == LET Val(s) == ValueAt(s, pos[s].qty) IN SumSymbols(Val)

\* The projection of equity and gross exposure if s came to hold qty.
ProjectedQty(s, qty, t) == IF t = s THEN qty ELSE pos[t].qty
ProjectedEquity(s, qty, cashAfter) ==
  LET Val(t) == ValueAt(t, ProjectedQty(s, qty, t)) IN cashAfter + SumSymbols(Val)
ProjectedGross(s, qty) ==
  LET Val(t) == Abs(ValueAt(t, ProjectedQty(s, qty, t))) IN SumSymbols(Val)

\* Only a fill that increases the exposure needs buying power.  Both exposures are at
\* the mark that the bar of the fill has just set, which is positive, so that they
\* compare as the quantities do.
Covered(s, old, new, cashAfter) ==
  Abs(new) <= Abs(old)
    \/ ProjectedEquity(s, new, cashAfter) >= Pct(ProjectedGross(s, new), sc.margin)

\* Mutant of ShortAllowed: the check looks at the position before the fill.
ShortAllowedBefore(old, new) == old >= 0 \/ sc.allowShort
ShortAllowed(old, new) == new >= 0 \/ sc.allowShort

\* The same fill applied by the live ledger, which is long only: nothing is recorded
\* of a symbol from the fill on that would make it short.
Recorded(p, side, qty, price, fee) ==
  IF p = Broken \/ (side = Sell /\ qty > p.qty) THEN Broken
  ELSE IF side = Buy THEN LedgerBuy(p, qty, price) ELSE LedgerSell(p, qty, price, fee)

(***************************************************************************)
(* One bar.                                                                *)
(***************************************************************************)
\* _option_settlement_price: intrinsic value, else the last mark, else worthless.
SettlePrice(s, mk) ==
  LET u == mk[Underlying[s]]
  IN IF u # NoMark THEN Higher(0, IF Right[s] = "C" THEN u - Strike[s] ELSE Strike[s] - u)
     ELSE IF mk[s] # NoMark THEN mk[s] ELSE 0

\* _settle_expiring_options: once per option, a sale of the whole signed position.
Settle(mk, now) ==
  LET due  == {s \in Options : pos[s].qty # 0 /\ s \notin settled /\ now >= Expiry[s]}
      Gain(s) == IF s \in due THEN pos[s].qty * SettlePrice(s, mk) * Mult[s] ELSE 0
      Sale(s) == [id |-> 0, sym |-> s, side |-> Sell, qty |-> pos[s].qty,
                  price |-> SettlePrice(s, mk), fee |-> 0, bar |-> now]
      sales == SetToSeq(due)
  IN /\ cash' = cash + SumSymbols(Gain)
     /\ pos' = [s \in Symbols |-> IF s \notin due THEN pos[s]
                  ELSE ApplyFill(pos[s], -pos[s].qty, SettlePrice(s, mk), 0, Mult[s])]
     /\ ledger' = [s \in Symbols |-> IF s \notin due THEN ledger[s]
                     ELSE Recorded(ledger[s], Sell, pos[s].qty, SettlePrice(s, mk), 0)]
     /\ fills' = fills \o [k \in DOMAIN sales |-> Sale(sales[k])]
     /\ settled' = settled \cup due

\* Mutant of Due: an order lives one bar too long.
DueLate(o, now) == now > o.expires
Due(o, now) == now >= o.expires

\* Marks, settlement, expirations, then the cancellations of the previous on_bar.
OpenBar ==
  /\ phase = "open" /\ bar < MaxBars - 1
  /\ bar' = bar + 1 /\ phase' = "fill"
  /\ \E m \in [Symbols -> UNION {sc.bars[s] : s \in Symbols} \cup {NoBar}] :
       /\ \A s \in Symbols : m[s] \in sc.bars[s] \cup {NoBar}
       /\ \E s \in Symbols : m[s] # NoBar
       /\ market' = m
       /\ marks' = [s \in Symbols |-> IF m[s] = NoBar THEN marks[s] ELSE m[s].close]
  /\ Settle(marks', bar + 1)
  /\ LET over == {i \in pending : Due(book[i], bar + 1)}
         gone == (pending \ over) \cap cancels
     IN /\ expired' = expired \cup over
        /\ cancelled' = cancelled \cup gone
        /\ todo' = pending \ (over \cup gone)
  /\ pending' = {} /\ cancels' = {}
  /\ UNCHANGED <<sc, book, left, rejected, trail, equity, asked, seen>>

\* The water mark of an order once this bar has been looked at.
WaterNow(i) ==
  LET o == book[i] IN
  IF o.type = "trail" /\ market[o.sym] # NoBar THEN Water(o, trail[i], market[o.sym])
  ELSE trail[i]

FillNow(i) ==
  LET o == book[i] IN
  IF market[o.sym] = NoBar THEN NoFill ELSE TryFill(o, left[i], market[o.sym], WaterNow(i))

CashNow(o, f) == CashAfter(cash, Signed(o.side, f.qty), f.price, f.fee, Mult[o.sym])

\* The shorting policy and the buying power let the fill f of order o through.
Allowed(o, f) ==
  LET old == pos[o.sym].qty
      new == old + Signed(o.side, f.qty)
  IN ShortAllowed(old, new) /\ Covered(o.sym, old, new, CashNow(o, f))

\* No bar for the symbol, price not reached, or no volume: the order stays.
Rest(i) ==
  /\ FillNow(i).qty = 0
  /\ pending' = pending \cup {i}
  /\ trail' = [trail EXCEPT ![i] = WaterNow(i)]
  /\ UNCHANGED <<left, rejected, account>>

\* A fill that is not allowed ends the order, whatever it had filled before.
Reject(i) ==
  /\ FillNow(i).qty # 0 /\ ~Allowed(book[i], FillNow(i))
  /\ rejected' = rejected \cup {i}
  /\ trail' = [trail EXCEPT ![i] = WaterNow(i)]
  /\ UNCHANGED <<left, pending, account>>

\* Mutant of Unfinished: a remainder of nothing is queued again.
UnfinishedAlways(rest, qty) == qty <= rest
Unfinished(rest, qty) == qty < rest

\* Mutant of MarkAfter: a partial fill drops the mark too.
MarkDropped(i, open) == NoMark

\* The mark after a fill: kept by the remainder, dropped when the order is filled whole.
MarkAfter(i, open) == IF open THEN WaterNow(i) ELSE NoMark

\* The fill is booked; a remainder is queued again under the same id.
Fill(i) ==
  LET o == book[i]
      f == FillNow(i)
      open == Unfinished(left[i], f.qty)
  IN /\ f.qty # 0 /\ Allowed(o, f)
     /\ cash' = CashNow(o, f)
     /\ pos' = [pos EXCEPT ![o.sym] =
                 ApplyFill(@, Signed(o.side, f.qty), f.price, f.fee, Mult[o.sym])]
     /\ ledger' = [ledger EXCEPT ![o.sym] = Recorded(@, o.side, f.qty, f.price, f.fee)]
     /\ fills' = Append(fills, [id |-> i, sym |-> o.sym, side |-> o.side, qty |-> f.qty,
                                price |-> f.price, fee |-> f.fee, bar |-> bar])
     /\ left' = [left EXCEPT ![i] = @ - f.qty]
     /\ pending' = IF open THEN pending \cup {i} ELSE pending
     /\ trail' = [trail EXCEPT ![i] = MarkAfter(i, open)]
     /\ UNCHANGED rejected

\* The bar a trailing stop is tried on, when its symbol has one.
LookedAt(i) == IF book[i].type = "trail" THEN {market[book[i].sym]} \ {NoBar} ELSE {}

FillNext ==
  /\ phase = "fill"
  /\ \E i \in todo :
       /\ \A j \in todo : i <= j
       /\ todo' = todo \ {i}
       /\ seen' = [seen EXCEPT ![i] = @ \cup LookedAt(i)]
       /\ Rest(i) \/ Reject(i) \/ Fill(i)
  /\ UNCHANGED <<sc, phase, bar, market, marks, book, cancels, expired, cancelled,
                 settled, equity, asked>>

\* What submit_* records for an order of this shape; a life of 0 is no expiry.
Submitted(shape) ==
  [sym |-> shape.sym, side |-> shape.side, type |-> shape.type, qty |-> shape.qty,
   price |-> shape.price, at |-> bar,
   expires |-> IF shape.life = 0 THEN MaxBars ELSE bar + shape.life]

\* The strategy submits and asks for cancellations (of a resting or a new order:
\* any other request is dropped at the next bar); then the bar is marked.
OnBar ==
  /\ phase = "fill" /\ todo = {}
  /\ phase' = "open"
  /\ \E new \in {x \in sc.orders : Len(book) + Len(x) <= sc.most} :
       LET ids == (Len(book) + 1) .. (Len(book) + Len(new)) IN
       /\ book' = book \o [k \in DOMAIN new |-> Submitted(new[k])]
       /\ left' = left \o [k \in DOMAIN new |-> new[k].qty]
       /\ pending' = pending \cup ids
       /\ trail' = trail \o [k \in DOMAIN new |-> NoMark]
       /\ seen' = seen \o [k \in DOMAIN new |-> {}]
       /\ \E asks \in SUBSET pending' :
            /\ cancels' = asks
            /\ asked' = [i \in DOMAIN book' |->
                 IF i \in DOMAIN asked /\ asked[i] < MaxBars THEN asked[i]
                 ELSE IF i \in asks THEN bar ELSE MaxBars]
  /\ equity' = cash + PositionsValue
  /\ UNCHANGED <<sc, bar, market, marks, todo, expired, cancelled, rejected, account, settled>>

Next == OpenBar \/ FillNext \/ OnBar

Spec == Init /\ [][Next]_vars

\* Mutant of FillsFrom: the first bar of the window is left out.
FillsAfter(k) == Picked(fills, {i \in DOMAIN fills : fills[i].bar > k})

\* _filter_result_to_window: the fills of a test window that starts at bar k.
FillsFrom(k) == Picked(fills, {i \in DOMAIN fills : fills[i].bar >= k})

(***************************************************************************)
(* Properties.                                                             *)
(***************************************************************************)
FilledOf(i) == SumOver(fills, LAMBDA f : IF f.id = i THEN f.qty ELSE 0)

EndedAs(e) ==
  CASE e = "expired" -> expired [] e = "cancelled" -> cancelled [] OTHER -> rejected

Waiting == pending \cup todo

OrderTypes ==
  /\ sc \in Scenarios /\ phase \in {"open", "fill"} /\ bar \in -1 .. MaxBars - 1
  /\ market \in [Symbols -> Bars \cup {NoBar}] /\ marks \in [Symbols -> Nat \cup {NoMark}]
  /\ book \in Seq(Orders) /\ left \in Seq(Nat) /\ trail \in Seq(Nat \cup {NoMark})
  /\ asked \in Seq(0 .. MaxBars)
  /\ Len(left) = Len(book) /\ Len(trail) = Len(book) /\ Len(asked) = Len(book)
  /\ Waiting \subseteq Ids /\ pending \cap todo = {}
  /\ cancels \cup expired \cup cancelled \cup rejected \subseteq Ids
  /\ \A i \in Waiting : left[i] \in 1 .. book[i].qty

HistoryTypes == seen \in Seq(SUBSET Bars) /\ Len(seen) = Len(book)

AccountTypes ==
  /\ pos \in [Symbols -> Positions] /\ ledger \in [Symbols -> Holdings \cup {Broken}]
  /\ fills \in Seq(Fills) /\ settled \subseteq Options

\* Types, and every waiting order waits once, for a quantity it can still fill.
TypeOK == OrderTypes /\ HistoryTypes /\ AccountTypes /\ cash \in Int /\ equity \in Int

\* No quantity is lost or filled twice: what is left of a waiting order and what it
\* filled make up the order, an order that waits no more was filled whole or ended
\* in exactly one of the three lists (engine.run_backtest, phase 2).
OrderAccounted ==
  \A i \in Ids :
    LET ends == Cardinality({e \in {"expired", "cancelled", "rejected"} : i \in EndedAs(e)})
        filled == FilledOf(i)
    IN IF i \in Waiting THEN ends = 0 /\ filled + left[i] = book[i].qty
       ELSE \/ ends = 0 /\ filled = book[i].qty
            \/ ends = 1 /\ filled < book[i].qty

\* An order fills only on bars after the one it was submitted on, before the bar it
\* expires at, and never after the bar its cancellation was asked for on: no
\* look-ahead, and the promise of cancel_order.
NoFillOutsideLife ==
  \A k \in DOMAIN fills : fills[k].id # 0 =>
    LET o == book[fills[k].id] IN
    fills[k].bar \in (o.at + 1) .. (o.expires - 1) /\ fills[k].bar <= asked[fills[k].id]

\* The fee of the fills that opened or extended a position: no realised P&L has it.
OpeningFees(fs) ==
  LET Opens(i) == LET q == RunningQty(fs, i - 1) IN q = 0 \/ SameDirection(q, SignedFill(fs[i]))
  IN Total([i \in DOMAIN fs |-> IF Opens(i) THEN fs[i].fee ELSE 0])

\* Cash and the cost of what is held are the starting cash plus realised P&L less
\* the fees of opening: no sequence of extensions, reductions, flips through zero
\* and settlements makes or loses money (Portfolio.apply_fill).
PnlAddsUp ==
  LET Cost(s) == pos[s].qty * pos[s].avg * Mult[s]
      Earned(s) == pos[s].realized - OpeningFees(FillsOf(fills, s))
  IN cash + SumSymbols(Cost) = StartCash + SumSymbols(Earned)

\* Without shorting and without leverage the account stays long and its cash is
\* never borrowed, whatever orders rest together: the checks are on each fill, not
\* on each order.  (A sale brings in more than its fee at the prices of the run.)
LongOnlyAccount ==
  ~sc.allowShort =>
    /\ \A s \in Symbols : pos[s].qty >= 0
    /\ sc.margin = 100 => cash >= 0

\* When a symbol is flat the round trips that analytics cuts out of its fills earn
\* what the portfolio realised, less the opening fees.  The trips leave the
\* multiplier out, so this is about symbols whose multiplier is one.
TripsMatchLedger ==
  \A s \in Symbols :
    LET fs == FillsOf(fills, s) IN
    pos[s].qty = 0 /\ Mult[s] = 1 =>
      SumOver(SetToSeq(ClosedTrips(fs)), NetPnl) = pos[s].realized - OpeningFees(fs)

\* The live ledger fed with the fills of a backtest agrees with the backtest's
\* portfolio as long as the symbol is never short (position_math docstring).
LongLedgerAgrees == \A s \in Symbols : Mult[s] = 1 /\ ledger[s] # Broken => ledger[s] = pos[s]

\* w is the mark a trailing stop must have after the bars bs.
IsMark(side, bs, w) ==
  IF bs = {} THEN w = NoMark
  ELSE IF side = Sell THEN (\E b \in bs : b.high = w) /\ \A b \in bs : b.high <= w
  ELSE (\E b \in bs : b.low = w) /\ \A b \in bs : b.low >= w

Breached(o, b, w) ==
  IF o.side = Sell THEN b.low <= Trigger(o, w) ELSE b.high >= Trigger(o, w)

\* As long as a trailing stop rests, its mark is the best price of every bar it was
\* tried on, through partial fills, bars without volume and bars without a trade:
\* trail_state loses and resets nothing.  A stop that still rests after its turn was
\* not breached from that mark, or the bar had no volume for it, or it filled in part.
StopsFollowTheMarket ==
  /\ \A i \in Waiting : book[i].type = "trail" => IsMark(book[i].side, seen[i], trail[i])
  /\ \A i \in pending :
       LET o == book[i]
           b == market[o.sym]
       IN o.type \in {"stop", "trail"} /\ o.at < bar /\ b # NoBar =>
            \/ ~Breached(o, b, trail[i])
            \/ sc.cap /\ b.vol = 0
            \/ \E k \in DOMAIN fills : fills[k].id = i /\ fills[k].bar = bar

\* A test window that starts with a flat position closes only round trips of the
\* whole run.  One that starts inside a trade need not: the entry was filtered away,
\* so the exit opens a trip of its own and a later entry closes it
\* (_filter_result_to_window, whose docstring says such trades count as open).
WindowTripsHonest ==
  \A k \in 0 .. bar, s \in Symbols :
    LET fs == FillsOf(fills, s)
        before == Cardinality({i \in DOMAIN fs : fs[i].bar < k})
    IN RunningQty(fs, before) = 0 =>
         ClosedTrips(FillsOf(FillsFrom(k), s)) \subseteq ClosedTrips(fs)

=============================================================================
