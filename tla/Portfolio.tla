------------------------------ MODULE Portfolio ------------------------------
(***************************************************************************)
(* How a fill changes a position, three times in this repository: the      *)
(* backtest's Portfolio (packages/backtest/portfolio.py, long and short),  *)
(* the live ledger's position_math (long only), and the round trips that   *)
(* analytics cuts out of the list of fills.                                *)
(*                                                                         *)
(* Amounts are integers; the modules that use this one choose a unit fine  *)
(* enough for every average to be exact.  A fill is a record               *)
(* [id, sym, side, qty, price, fee, bar], the id 0 for an expiry.          *)
(***************************************************************************)
EXTENDS Lists

Buy  == "buy"
Sell == "sell"

Abs(x) == IF x < 0 THEN -x ELSE x
Lower(a, b)  == IF a < b THEN a ELSE b
Higher(a, b) == IF a < b THEN b ELSE a

Signed(side, qty) == IF side = Buy THEN qty ELSE -qty

Flat == [qty |-> 0, avg |-> 0, realized |-> 0]

\* The two quantities are on the same side of zero.
SameDirection(a, b) == (a > 0 /\ b > 0) \/ (a < 0 /\ b < 0)

\* What closing part of position p at a price earns per unit of multiplier.
GrossPnl(p, signed, price) ==
  LET closed == Lower(Abs(signed), Abs(p.qty))
  IN IF p.qty > 0 THEN (price - p.avg) * closed ELSE (p.avg - price) * closed

\* Mutant of AvgAfter: a flip through zero keeps the average of the side it left.
AvgAfterKept(p, signed, price) ==
  IF p.qty = 0 THEN price
  ELSE IF SameDirection(p.qty, signed)
    THEN (Abs(p.qty) * p.avg + Abs(signed) * price) \div (Abs(p.qty) + Abs(signed))
  ELSE IF p.qty + signed = 0 THEN 0 ELSE p.avg

\* The average cost after a fill: weighted when extending, the fill's own price
\* when opening or flipping through zero, unchanged by a partial reduction.
AvgAfter(p, signed, price) ==
  IF p.qty = 0 THEN price
  ELSE IF SameDirection(p.qty, signed)
    THEN (Abs(p.qty) * p.avg + Abs(signed) * price) \div (Abs(p.qty) + Abs(signed))
  ELSE IF Abs(signed) > Abs(p.qty) THEN price
  ELSE IF p.qty + signed = 0 THEN 0 ELSE p.avg

\* Portfolio.apply_fill on the position; the fee counts when the fill realises.
ApplyFill(p, signed, price, fee, mult) ==
  [qty |-> p.qty + signed,
   avg |-> AvgAfter(p, signed, price),
   realized |-> IF p.qty = 0 \/ SameDirection(p.qty, signed) THEN p.realized
                ELSE p.realized + GrossPnl(p, signed, price) * mult - fee]

\* And on cash: buying spends it, selling receives it, the fee is paid.
CashAfter(cash, signed, price, fee, mult) == cash - signed * price * mult - fee

\* Mutant of LedgerBuy: the two prices are averaged without their quantities.
LedgerBuyUnweighted(p, qty, price) ==
  [p EXCEPT !.qty = @ + qty, !.avg = IF p.qty = 0 THEN price ELSE (p.avg + price) \div 2]

\* position_math.apply_buy: the fee stays out of the basis.
LedgerBuy(p, qty, price) ==
  [p EXCEPT !.qty = @ + qty,
            !.avg = IF p.qty = 0 THEN price
                    ELSE (p.qty * p.avg + qty * price) \div (p.qty + qty)]

\* position_math.apply_sell.
LedgerSell(p, qty, price, fee) ==
  [qty |-> p.qty - qty,
   avg |-> IF p.qty - qty # 0 THEN p.avg ELSE 0,
   realized |-> p.realized + (price - p.avg) * qty - fee]

(***************************************************************************)
(* Analytics: the closed round trips of a list of fills.                   *)
(***************************************************************************)
FillsOf(fs, s) == Picked(fs, {i \in DOMAIN fs : fs[i].sym = s})

SignedFill(f) == Signed(f.side, f.qty)

SumOver(fs, Op(_)) == Total([i \in DOMAIN fs |-> Op(fs[i])])

\* The running position after the first i fills, starting flat.
RunningQty(fs, i) == SumOver(SubSeq(fs, 1, i), SignedFill)

\* A trip closes where the running position returns to zero.
Closings(fs) == {i \in DOMAIN fs : RunningQty(fs, i) = 0}

\* Mutant of TripEndingAt: the fills collected so far are not dropped at a close.
TripKeepingAll(fs, i) == SubSeq(fs, 1, i)

\* The fills since the close before.
TripEndingAt(fs, i) ==
  LET earlier == {e \in Closings(fs) : e < i}
      before  == IF earlier = {} THEN 0 ELSE CHOOSE e \in earlier : \A d \in earlier : d <= e
  IN SubSeq(fs, before + 1, i)

\* _extract_round_trips for one symbol.
ClosedTrips(fs) == {TripEndingAt(fs, i) : i \in Closings(fs)}

\* _round_trip_from_fills: sells minus buys, minus all fees.
SaleValue(f) == -SignedFill(f) * f.price
FeeOf(f) == f.fee
NetPnl(trip) == SumOver(trip, SaleValue) - SumOver(trip, FeeOf)

=============================================================================
