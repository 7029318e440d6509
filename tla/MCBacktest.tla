------------------------------ MODULE MCBacktest ------------------------------
(***************************************************************************)
(* Small backtests of one stock and one call on it.  The unit of price     *)
(* makes every slippage, fee, trail and average of these orders exact.     *)
(***************************************************************************)
EXTENDS Backtest

CONSTANTS X, C

U == 1200000

BarOf(o, h, l, c, v) == [open |-> o * U, high |-> h * U, low |-> l * U, close |-> c * U, vol |-> v]
Shape(s, side, type, qty, price, life) ==
  [sym |-> s, side |-> side, type |-> type, qty |-> qty, price |-> price, life |-> life]

MCSymbols == {X, C}
MCOptions == {C}
MCUnderlying == [s \in {C} |-> X]
MCStrike == [s \in {C} |-> 3 * U]
MCRight == [s \in {C} |-> "C"]
MCExpiry == [s \in {C} |-> 2]
MCMult == [s \in MCSymbols |-> IF s = C THEN 2 ELSE 1]
MCCash == 20 * U
MCOptionFee == U \div 100

Rise == BarOf(4, 6, 3, 5, 1)
Fall == BarOf(5, 5, 2, 3, 2)

Calm == BarOf(5, 5, 4, 4, 2)
OfStock(choices) == [s \in MCSymbols |-> IF s = X THEN choices ELSE {}]

\* Long only, fully paid, with a volume cap: partial fills, expiry, buying power.
CashAccount ==
  [allowShort |-> FALSE, margin |-> 100, cap |-> TRUE, through |-> 0, adverse |-> 0,
   bars |-> OfStock({Rise, Fall}), most |-> 3,
   orders |-> {<< >>, <<Shape(X, Buy, "market", 2, 0, 0)>>,
               <<Shape(X, Buy, "limit", 3, 4 * U, 2)>>,
               <<Shape(X, Sell, "market", 2, 0, 0), Shape(X, Sell, "stop", 1, 4 * U, 1)>>}]

\* Shorting on half margin, the maker model and trailing stops.
MarginAccount ==
  [allowShort |-> TRUE, margin |-> 50, cap |-> FALSE, through |-> 10, adverse |-> 1,
   bars |-> OfStock({Rise, Fall, Calm}), most |-> 3,
   orders |-> {<< >>, <<Shape(X, Sell, "market", 2, 0, 0)>>,
               <<Shape(X, Buy, "limit", 3, 4 * U, 0)>>,
               <<Shape(X, Sell, "trail", 1, 60, 0), Shape(X, Buy, "trail", 2, 60, 2)>>}]

\* In and out of a position again and again.
Churn ==
  [allowShort |-> TRUE, margin |-> 100, cap |-> FALSE, through |-> 0, adverse |-> 0,
   bars |-> OfStock({Rise, Fall}), most |-> 4,
   orders |-> {<< >>, <<Shape(X, Buy, "market", 1, 0, 0)>>, <<Shape(X, Sell, "market", 1, 0, 0)>>}]

\* The call beside its underlying; neither needs to trade on every bar.
OptionAccount ==
  [allowShort |-> TRUE, margin |-> 50, cap |-> FALSE, through |-> 0, adverse |-> 0,
   bars |-> [s \in MCSymbols |-> IF s = X THEN {Rise} ELSE {BarOf(1, 2, 1, 1, 1)}],
   most |-> 3,
   orders |-> {<< >>, <<Shape(C, Buy, "market", 1, 0, 0)>>, <<Shape(C, Sell, "limit", 2, U, 0)>>}]

\* Trailing stops on a thin market: a volume cap, bars without volume, and bars of
\* the call alone, on which the stock does not trade.
Still == BarOf(5, 7, 5, 6, 0)
ThinMarket ==
  [allowShort |-> TRUE, margin |-> 50, cap |-> TRUE, through |-> 0, adverse |-> 0,
   bars |-> [s \in MCSymbols |-> IF s = X THEN {Rise, Fall, Still} ELSE {BarOf(1, 2, 1, 1, 1)}],
   most |-> 2,
   orders |-> {<< >>, <<Shape(X, Sell, "trail", 3, 60, 0), Shape(X, Buy, "trail", 2, 80, 0)>>}]

MCScenarios == {CashAccount, MarginAccount, Churn, OptionAccount, ThinMarket}

=============================================================================
