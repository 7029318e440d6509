---------------------------- MODULE BacktestProofs ----------------------------
(***************************************************************************)
(* Theorems about Backtest, for any symbols, prices, volumes, scenarios,   *)
(* rates and length of the timeline: fills within the life of their order, *)
(* the live ledger beside the portfolio, the marks of resting stops.       *)
(***************************************************************************)
EXTENDS Backtest, FiniteSetTheorems, TLAPS

(***************************************************************************)
(* The position arithmetic (Portfolio).                                    *)
(***************************************************************************)
LEMMA ApplyFillType ==
  ASSUME NEW p \in Positions, NEW signed \in Int, NEW price \in Int, NEW fee \in Int,
         NEW mult \in Nat, signed # 0
  PROVE  ApplyFill(p, signed, price, fee, mult) \in Positions
PROOF
<1>1. p.qty \in Int /\ p.avg \in Int /\ p.realized \in Int
  BY DEF Positions
<1>2. GrossPnl(p, signed, price) \in Int
  <2>1. Lower(Abs(signed), Abs(p.qty)) \in Int
    BY <1>1 DEF Lower, Abs
  <2>2. \A x \in Int, y \in Int : x * y \in Int
    OBVIOUS
  <2>3. (price - p.avg) \in Int /\ (p.avg - price) \in Int
    BY <1>1
  <2> QED BY <2>1, <2>2, <2>3 DEF GrossPnl
<1>3. AvgAfter(p, signed, price) \in Int
  <2>1. CASE SameDirection(p.qty, signed)
    <3>1. Abs(p.qty) \in Int /\ Abs(signed) \in Int /\ Abs(p.qty) + Abs(signed) > 0
      BY <1>1 DEF Abs
    <3>2. Abs(p.qty) * p.avg + Abs(signed) * price \in Int
      BY <1>1, <3>1
    <3>3. (Abs(p.qty) * p.avg + Abs(signed) * price) \div (Abs(p.qty) + Abs(signed)) \in Int
      BY <3>1, <3>2
    <3> QED BY <1>1, <3>3 DEF AvgAfter
  <2>2. CASE ~SameDirection(p.qty, signed)
    BY <1>1, <2>2 DEF AvgAfter
  <2> QED BY <2>1, <2>2
<1>4. GrossPnl(p, signed, price) * mult - fee \in Int
  BY <1>2
<1> HIDE DEF GrossPnl
<1> QED BY <1>1, <1>3, <1>4 DEF ApplyFill, Positions

\* A purchase of what is not short is the same in the live ledger (apply_buy).
LEMMA LedgerBuyIsApplyFill ==
  ASSUME NEW p \in Positions, p.qty >= 0, NEW qty \in Nat \ {0}, NEW price \in Int, NEW fee \in Int
  PROVE  LedgerBuy(p, qty, price) = ApplyFill(p, qty, price, fee, 1)
PROOF
<1>1. p.qty \in Nat /\ p.avg \in Int /\ p = [qty |-> p.qty, avg |-> p.avg, realized |-> p.realized]
  BY DEF Positions
<1>2. Abs(p.qty) = p.qty /\ Abs(qty) = qty
  BY <1>1 DEF Abs
<1> DEFINE avg == IF p.qty = 0 THEN price ELSE (p.qty * p.avg + qty * price) \div (p.qty + qty)
<1>3. avg = AvgAfter(p, qty, price)
  <2>1. CASE p.qty = 0
    BY <1>1, <2>1 DEF AvgAfter
  <2>2. CASE p.qty # 0
    <3>1. SameDirection(p.qty, qty)
      BY <1>1, <2>2 DEF SameDirection
    <3> QED BY <1>1, <1>2, <2>2, <3>1 DEF AvgAfter
  <2> QED BY <2>1, <2>2
<1>4. p.qty = 0 \/ SameDirection(p.qty, qty)
  BY <1>1 DEF SameDirection
<1>5. LedgerBuy(p, qty, price) = [p EXCEPT !.qty = p.qty + qty, !.avg = avg]
  BY DEF LedgerBuy
<1> HIDE DEF avg
<1>6. LedgerBuy(p, qty, price) = [qty |-> p.qty + qty, avg |-> avg, realized |-> p.realized]
  BY <1>5 DEF Positions
<1> QED BY <1>3, <1>4, <1>6 DEF ApplyFill

\* And so is the sale of no more than is held (apply_sell).
LEMMA LedgerSellIsApplyFill ==
  ASSUME NEW p \in Positions, NEW qty \in Nat \ {0}, qty <= p.qty, NEW price \in Int, NEW fee \in Int
  PROVE  LedgerSell(p, qty, price, fee) = ApplyFill(p, -qty, price, fee, 1)
PROOF
<1>1. p.qty \in Nat /\ p.qty > 0 /\ p.avg \in Int /\ p.realized \in Int
  BY DEF Positions
<1>2. ~SameDirection(p.qty, -qty) /\ Abs(-qty) = qty /\ Abs(p.qty) = p.qty
  BY <1>1 DEF SameDirection, Abs
<1>3. GrossPnl(p, -qty, price) = (price - p.avg) * qty
  <2>1. Lower(qty, p.qty) = qty
    BY <1>1 DEF Lower
  <2> QED BY <1>1, <1>2, <2>1 DEF GrossPnl
<1>4. AvgAfter(p, -qty, price) = IF p.qty - qty # 0 THEN p.avg ELSE 0
  BY <1>1, <1>2 DEF AvgAfter
<1>5. (price - p.avg) * qty * 1 = (price - p.avg) * qty
  BY <1>1
<1>6. p.qty + (-qty) = p.qty - qty
  BY <1>1
<1> QED BY <1>1, <1>2, <1>3, <1>4, <1>5, <1>6 DEF LedgerSell, ApplyFill

(***************************************************************************)
(* Filling one order.                                                      *)
(***************************************************************************)
FillTypes == [qty : Nat, price : Int, fee : Int]

LEMMA Rates ==
  /\ Slip \in Int /\ Fee \in Int /\ OptionFee \in Int
  /\ sc \in Scenarios => sc.through \in Int /\ sc.adverse \in Int
PROOF
<1>1. Slip \in 0 .. 99 /\ Fee \in 0 .. 99 /\ OptionFee \in Nat
  BY BacktestAssumption
<1>2. \A c \in Scenarios : c.through \in 0 .. 99 /\ c.adverse \in 0 .. 99
  BY BacktestAssumption
<1> QED BY <1>1, <1>2

LEMMA PctType == \A x \in Int, r \in Int : Pct(x, r) \in Int
PROOF
<1>1. \A x \in Int : x \div 100 \in Int /\ x % 100 \in Int
  OBVIOUS
<1>2. \A x \in Int, y \in Int : x * y \in Int
  OBVIOUS
<1>3. \A x \in Int, r \in Int : (x \div 100) * r \in Int /\ ((x % 100) * r) \div 100 \in Int
  BY <1>1, <1>2
<1> QED BY <1>3 DEF Pct

LEMMA SlippedType ==
  ASSUME NEW side, NEW price \in Int
  PROVE  Slipped(side, price) \in Int
BY PctType, Rates DEF Slipped

LEMMA FilledType ==
  ASSUME sc \in Scenarios, NEW o \in Orders, NEW rest \in Nat, NEW b \in Bars, NEW price \in Int
  PROVE  /\ Filled(o, rest, b, price) \in FillTypes
         /\ Filled(o, rest, b, price).qty <= rest
PROOF
<1>1. Fillable(rest, b) \in Nat /\ Fillable(rest, b) <= rest
  BY DEF Fillable, Lower, Bars
<1>2. FeeFor(o.sym, price, Fillable(rest, b)) \in Int
  <2>1. \A x \in Int, y \in Int : x * y \in Int
    OBVIOUS
  <2>2. price * Fillable(rest, b) \in Int /\ OptionFee * Fillable(rest, b) \in Int
    BY <1>1, <2>1, Rates
  <2> QED BY <2>2, PctType, Rates DEF FeeFor
<1> QED BY <1>1, <1>2 DEF Filled, FillTypes, NoFill

LEMMA TryFillType ==
  ASSUME sc \in Scenarios, NEW o \in Orders, NEW rest \in Nat, NEW b \in Bars,
         NEW water \in Nat \cup {NoMark}, o.type = "trail" => water \in Nat
  PROVE  /\ TryFill(o, rest, b, water) \in FillTypes
         /\ TryFill(o, rest, b, water).qty <= rest
PROOF
<1>1. /\ b.open \in Int /\ b.high \in Int /\ b.low \in Int /\ o.price \in Int
      /\ sc.adverse \in Int /\ sc.through \in Int
  BY Rates DEF Bars, Orders
<1>2. NoFill \in FillTypes /\ NoFill.qty <= rest
  BY DEF NoFill, FillTypes
<1>3. MarketFill(o, rest, b) \in FillTypes /\ MarketFill(o, rest, b).qty <= rest
  BY <1>1, SlippedType, FilledType DEF MarketFill
<1>4. LimitFill(o, rest, b) \in FillTypes /\ LimitFill(o, rest, b).qty <= rest
  <2>1. /\ o.price + Pct(o.price, sc.adverse) \in Int /\ o.price - Pct(o.price, sc.adverse) \in Int
        /\ Lower(b.open, o.price) \in Int /\ Higher(b.open, o.price) \in Int
    <3>1. Pct(o.price, sc.adverse) \in Int
      BY <1>1, PctType
    <3> QED BY <1>1, <3>1 DEF Lower, Higher
  <2> QED BY <1>2, <2>1, FilledType DEF LimitFill
<1>5. ASSUME o.type \in {"stop", "trail"}
      PROVE  StopFill(o, rest, b, water) \in FillTypes /\ StopFill(o, rest, b, water).qty <= rest
  <2>1. PICK t : t = Trigger(o, water)
    OBVIOUS
  <2>2. t \in Int
    <3>1. CASE o.type = "stop"
      BY <1>1, <2>1, <3>1 DEF Trigger
    <3>2. CASE o.type = "trail"
      <4>0. water \in Int
        BY <3>2
      <4>1. Pct(water, o.price) \in Int
        BY <1>1, <4>0, PctType
      <4> QED BY <2>1, <3>2, <4>0, <4>1 DEF Trigger
    <3> QED BY <1>5, <3>1, <3>2
  <2>3. Lower(b.open, t) \in Int /\ Higher(b.open, t) \in Int
    BY <1>1, <2>2 DEF Lower, Higher
  <2>4. Slipped(Sell, Lower(b.open, t)) \in Int /\ Slipped(Buy, Higher(b.open, t)) \in Int
    BY <2>3, SlippedType
  <2> QED BY <1>2, <2>1, <2>4, FilledType DEF StopFill
<1>6. o.type \in {"market", "limit", "stop", "trail"}
  BY DEF Orders
<1> QED BY <1>3, <1>4, <1>5, <1>6 DEF TryFill

LEMMA WaterType ==
  ASSUME OrderTypes, NEW i \in Ids
  PROVE  /\ WaterNow(i) \in Nat \cup {NoMark}
         /\ book[i].type = "trail" /\ market[book[i].sym] # NoBar => WaterNow(i) \in Nat
PROOF
<1>0. /\ book \in Seq(Orders) /\ trail \in Seq(Nat \cup {NoMark}) /\ Len(trail) = Len(book)
      /\ market \in [Symbols -> Bars \cup {NoBar}]
  BY DEF OrderTypes
<1>1. book[i] \in Orders /\ trail[i] \in Nat \cup {NoMark}
  BY <1>0 DEF Ids
<1>2. book[i].sym \in Symbols /\ market[book[i].sym] \in Bars \cup {NoBar}
  BY <1>0, <1>1 DEF Orders
<1>3. ASSUME NEW b \in Bars, NEW prev \in Nat \cup {NoMark}, NEW o
      PROVE  Water(o, prev, b) \in Nat
  BY DEF Water, Higher, Lower, Bars
<1> QED BY <1>1, <1>2, <1>3 DEF WaterNow

LEMMA FillNowType ==
  ASSUME OrderTypes, NEW i \in Waiting
  PROVE  FillNow(i) \in FillTypes /\ FillNow(i).qty <= left[i]
PROOF
<1>1. /\ i \in Ids /\ book[i] \in Orders /\ left[i] \in Nat /\ sc \in Scenarios
      /\ market[book[i].sym] \in Bars \cup {NoBar}
  <2>1. /\ book \in Seq(Orders) /\ left \in Seq(Nat) /\ Len(left) = Len(book) /\ Waiting \subseteq Ids
        /\ sc \in Scenarios /\ market \in [Symbols -> Bars \cup {NoBar}]
    BY DEF OrderTypes
  <2>2. i \in Ids /\ book[i] \in Orders /\ left[i] \in Nat
    BY <2>1 DEF Ids
  <2> QED BY <2>1, <2>2 DEF Orders
<1>2. CASE market[book[i].sym] = NoBar
  BY <1>1, <1>2 DEF FillNow, NoFill, FillTypes
<1>3. CASE market[book[i].sym] # NoBar
  BY <1>1, <1>3, WaterType, TryFillType DEF FillNow
<1> QED BY <1>2, <1>3

\* The live ledger never holds less than nothing.
LEMMA RecordedType ==
  ASSUME NEW p \in Holdings \cup {Broken}, NEW side \in {Buy, Sell}, NEW qty \in Int,
         NEW price \in Int, NEW fee \in Int, side = Buy => qty > 0
  PROVE  Recorded(p, side, qty, price, fee) \in Holdings \cup {Broken}
PROOF
<1>1. CASE p = Broken \/ (side = Sell /\ qty > p.qty)
  BY <1>1 DEF Recorded
<1>2. ASSUME p # Broken, ~(side = Sell /\ qty > p.qty), side = Buy
      PROVE  LedgerBuy(p, qty, price) \in Holdings
  <2>1. p \in Holdings /\ p.qty \in Nat /\ p.avg \in Int /\ qty > 0
    BY <1>2 DEF Holdings
  <2> DEFINE avg == IF p.qty = 0 THEN price ELSE (p.qty * p.avg + qty * price) \div (p.qty + qty)
  <2>2. \A x \in Int, y \in Int : x * y \in Int
    OBVIOUS
  <2>3. p.qty * p.avg + qty * price \in Int /\ p.qty + qty \in Nat /\ p.qty + qty > 0
    BY <2>1, <2>2
  <2>4. avg \in Int
    BY <2>1, <2>3
  <2>5. LedgerBuy(p, qty, price) = [p EXCEPT !.qty = p.qty + qty, !.avg = avg]
    BY DEF LedgerBuy
  <2> HIDE DEF avg
  <2> QED BY <2>1, <2>3, <2>4, <2>5 DEF Holdings
<1>3. ASSUME p # Broken, ~(side = Sell /\ qty > p.qty), side # Buy, side = Sell
      PROVE  LedgerSell(p, qty, price, fee) \in Holdings
  <2>1. p.qty \in Nat /\ p.avg \in Int /\ p.realized \in Int /\ qty <= p.qty
    BY <1>3 DEF Holdings
  <2>2. (price - p.avg) * qty \in Int
    BY <2>1
  <2> QED BY <2>1, <2>2 DEF LedgerSell, Holdings
<1>4. p # Broken => p \in Holdings
  OBVIOUS
<1> QED BY <1>1, <1>2, <1>3, <1>4 DEF Recorded

(***************************************************************************)
(* Settlement.                                                             *)
(***************************************************************************)
\* SetToSeq lists the elements of a finite set.
LEMMA Listing ==
  ASSUME NEW S, IsFiniteSet(S)
  PROVE  SetToSeq(S) \in Seq(S)
PROOF
<1>1. Cardinality(S) \in Nat /\ ExistsBijection(1 .. Cardinality(S), S)
  BY FS_CardinalityType
<1>2. \E f \in [1 .. Cardinality(S) -> S] : IsInjective(f)
  BY <1>1 DEF ExistsBijection, Bijection, Injection, IsInjective
<1>3. SetToSeq(S) \in [1 .. Cardinality(S) -> S]
  BY <1>2 DEF SetToSeq
<1> QED BY <1>1, <1>3

Typed(mk) == mk \in [Symbols -> Nat \cup {NoMark}]

LEMMA SettlePriceType ==
  ASSUME NEW mk, Typed(mk), NEW s \in Options
  PROVE  SettlePrice(s, mk) \in Int
PROOF
<1>1. s \in Symbols /\ Underlying[s] \in Symbols /\ Strike[s] \in Nat
  BY BacktestAssumption
<1>2. mk[s] \in Nat \cup {NoMark} /\ mk[Underlying[s]] \in Nat \cup {NoMark}
  BY <1>1 DEF Typed
<1> QED BY <1>1, <1>2 DEF SettlePrice, Higher

LEMMA SettleTypes ==
  ASSUME AccountTypes, NEW mk, Typed(mk), NEW now \in Nat, Settle(mk, now)
  PROVE  /\ AccountTypes'
         /\ \E n \in Nat :
              /\ Len(fills) <= n /\ DOMAIN fills' = 1 .. n
              /\ \A k \in DOMAIN fills : fills'[k] = fills[k]
              /\ \A k \in 1 .. n : k \notin DOMAIN fills => fills'[k].id = 0 /\ fills'[k].bar = now
PROOF
<1> DEFINE due == {s \in Options : pos[s].qty # 0 /\ s \notin settled /\ now >= Expiry[s]}
           Sale(s) == [id |-> 0, sym |-> s, side |-> Sell, qty |-> pos[s].qty,
                       price |-> SettlePrice(s, mk), fee |-> 0, bar |-> now]
           sales == SetToSeq(due)
           more == [k \in DOMAIN sales |-> Sale(sales[k])]
<1>1. /\ Options \subseteq Symbols /\ IsFiniteSet(Symbols)
      /\ \A s \in Symbols : Mult[s] \in Nat
  BY BacktestAssumption
<1>2. IsFiniteSet(due) /\ due \subseteq Symbols
  BY <1>1, FS_Subset
<1>3. sales \in Seq(due)
  BY <1>2, Listing
<1>4. \A s \in due : SettlePrice(s, mk) \in Int
  BY SettlePriceType
<1>5. \A s \in Symbols : pos[s] \in Positions /\ pos[s].qty \in Int
  BY DEF AccountTypes, Positions
<1>6. \A s \in due : Sale(s) \in Fills /\ Sale(s).id = 0 /\ Sale(s).bar = now
  BY <1>2, <1>4, <1>5 DEF Fills
<1>7. more \in Seq(Fills) /\ \A k \in DOMAIN more : more[k].id = 0 /\ more[k].bar = now
  <2> HIDE DEF due, Sale, sales
  <2>1. DOMAIN sales = 1 .. Len(sales) /\ Len(sales) \in Nat /\ \A k \in DOMAIN sales : sales[k] \in due
    BY <1>3
  <2>2. more = [k \in 1 .. Len(sales) |-> Sale(sales[k])]
    BY <2>1
  <2>3. \A k \in 1 .. Len(sales) : Sale(sales[k]) \in Fills /\ Sale(sales[k]).id = 0
                                  /\ Sale(sales[k]).bar = now
    BY <1>6, <2>1
  <2> QED BY <2>1, <2>2, <2>3
<1>8. fills' = fills \o more /\ fills \in Seq(Fills)
  BY DEF Settle, AccountTypes
<1> HIDE DEF more, sales
<1>9. fills' \in Seq(Fills)
  BY <1>7, <1>8
<1>10. \A s \in due : ApplyFill(pos[s], -pos[s].qty, SettlePrice(s, mk), 0, Mult[s]) \in Positions
  <2> SUFFICES ASSUME NEW s \in due
               PROVE  ApplyFill(pos[s], -pos[s].qty, SettlePrice(s, mk), 0, Mult[s]) \in Positions
    OBVIOUS
  <2>1. pos[s] \in Positions /\ pos[s].qty \in Int /\ pos[s].qty # 0 /\ Mult[s] \in Nat
    BY <1>1, <1>2, <1>5
  <2>2. SettlePrice(s, mk) \in Int
    BY <1>4
  <2>3. -pos[s].qty \in Int /\ -pos[s].qty # 0 /\ 0 \in Int
    BY <2>1
  <2> HIDE DEF due
  <2> QED BY <2>1, <2>2, <2>3, ApplyFillType, Zenon
<1>11. pos' \in [Symbols -> Positions]
  BY <1>5, <1>10 DEF Settle
<1>12. \A s \in due : Recorded(ledger[s], Sell, pos[s].qty, SettlePrice(s, mk), 0) \in Holdings \cup {Broken}
  <2>1. Sell # Buy /\ Sell \in {Buy, Sell}
    BY DEF Sell, Buy
  <2>2. \A s \in due : ledger[s] \in Holdings \cup {Broken}
    BY <1>2 DEF AccountTypes
  <2> HIDE DEF due
  <2> QED BY <1>2, <1>4, <1>5, <2>1, <2>2, RecordedType
<1>13. ledger' \in [Symbols -> Holdings \cup {Broken}]
  BY <1>12 DEF Settle, AccountTypes
<1>14. settled' \subseteq Options
  BY DEF Settle, AccountTypes
<1>15. /\ Len(fills) + Len(more) \in Nat /\ Len(fills) <= Len(fills) + Len(more)
       /\ DOMAIN fills' = 1 .. Len(fills) + Len(more)
       /\ \A k \in DOMAIN fills : fills'[k] = fills[k]
       /\ \A k \in 1 .. Len(fills) + Len(more) : k \notin DOMAIN fills =>
                fills'[k].id = 0 /\ fills'[k].bar = now
  BY <1>7, <1>8
<1> QED BY <1>9, <1>11, <1>13, <1>14, <1>15 DEF AccountTypes

LEMMA SettleAgrees ==
  ASSUME AccountTypes, LongLedgerAgrees, NEW mk, Typed(mk), NEW now \in Nat, Settle(mk, now)
  PROVE  LongLedgerAgrees'
PROOF
<1> DEFINE due == {s \in Options : pos[s].qty # 0 /\ s \notin settled /\ now >= Expiry[s]}
<1>1. SUFFICES ASSUME NEW s \in Symbols, Mult[s] = 1, ledger'[s] # Broken
               PROVE  ledger'[s] = pos'[s]
  BY DEF LongLedgerAgrees
<1>2. CASE s \notin due
  BY <1>1, <1>2 DEF Settle, LongLedgerAgrees
<1>3. CASE s \in due
  <2>1. PICK price : price = SettlePrice(s, mk) /\ price \in Int
    BY <1>3, SettlePriceType
  <2>2. /\ pos'[s] = ApplyFill(pos[s], -pos[s].qty, price, 0, Mult[s])
        /\ ledger'[s] = Recorded(ledger[s], Sell, pos[s].qty, price, 0)
    BY <1>3, <2>1 DEF Settle
  <2> HIDE DEF due
  <2>3. ledger[s] # Broken /\ ledger[s] = pos[s] /\ ledger[s] \in Holdings
    BY <1>1, <2>2 DEF Recorded, LongLedgerAgrees, AccountTypes
  <2>4. pos[s] \in Positions /\ pos[s].qty \in Nat \ {0}
    BY <1>3, <2>3 DEF AccountTypes, Holdings, due
  <2>5. Sell # Buy
    BY DEF Sell, Buy
  <2>6. ledger'[s] = LedgerSell(pos[s], pos[s].qty, price, 0)
    BY <2>2, <2>3, <2>4, <2>5 DEF Recorded
  <2>7. LedgerSell(pos[s], pos[s].qty, price, 0) = ApplyFill(pos[s], -pos[s].qty, price, 0, 1)
    BY <2>1, <2>4, LedgerSellIsApplyFill
  <2> QED BY <1>1, <2>2, <2>6, <2>7
<1> QED BY <1>2, <1>3

(***************************************************************************)
(* The inductive invariant.                                                *)
(***************************************************************************)
\* A cancellation that was asked for is either in force or still to come, and an
\* order is only tried on a bar strictly inside its life.
Life ==
  /\ phase = "fill" =>
       /\ bar \in Nat /\ cancels = {}
       /\ \A i \in Waiting : asked[i] = MaxBars
       /\ \A i \in todo : book[i].at < bar /\ bar < book[i].expires
  /\ phase = "open" => todo = {} /\ \A i \in pending \ cancels : asked[i] = MaxBars
  /\ \A i \in Waiting : book[i].at <= bar

\* Every fill is of an order submitted, or a settlement, and lies in the past.
FillsKnown == \A k \in DOMAIN fills : fills[k].id \in Ids \cup {0} /\ fills[k].bar <= bar

Inv == OrderTypes /\ AccountTypes /\ Life /\ FillsKnown /\ NoFillOutsideLife /\ LongLedgerAgrees

LEMMA InvInit == Init => Inv
PROOF
<1> SUFFICES ASSUME Init PROVE Inv
  OBVIOUS
<1>1. MaxBars \in Nat \ {0}
  BY BacktestAssumption
<1>2. OrderTypes
  BY <1>1 DEF Init, OrderTypes, Waiting, Ids
<1>3. AccountTypes
  BY DEF Init, AccountTypes, Flat, Positions, Holdings
<1>4. Life /\ FillsKnown /\ NoFillOutsideLife /\ LongLedgerAgrees
  BY DEF Init, Life, FillsKnown, NoFillOutsideLife, LongLedgerAgrees, Waiting
<1> QED BY <1>2, <1>3, <1>4 DEF Inv

(***************************************************************************)
(* OpenBar.                                                                *)
(***************************************************************************)
LEMMA OpenBarOrders ==
  ASSUME OrderTypes, OpenBar
  PROVE  OrderTypes' /\ Typed(marks') /\ bar + 1 \in Nat
PROOF
<1>1. bar \in -1 .. MaxBars - 1 /\ bar < MaxBars - 1 /\ bar' = bar + 1 /\ MaxBars \in Nat
  BY BacktestAssumption DEF OrderTypes, OpenBar
<1>2. PICK m \in [Symbols -> UNION {sc.bars[s] : s \in Symbols} \cup {NoBar}] :
        /\ \A s \in Symbols : m[s] \in sc.bars[s] \cup {NoBar}
        /\ market' = m
        /\ marks' = [s \in Symbols |-> IF m[s] = NoBar THEN marks[s] ELSE m[s].close]
  BY DEF OpenBar
<1>3. \A s \in Symbols : m[s] \in Bars \cup {NoBar}
  <2>1. \A s \in Symbols : sc.bars[s] \subseteq Bars
    BY BacktestAssumption DEF OrderTypes
  <2> QED BY <1>2, <2>1
<1>4. market' \in [Symbols -> Bars \cup {NoBar}]
  BY <1>2, <1>3
<1>5. marks \in [Symbols -> Nat \cup {NoMark}]
  BY DEF OrderTypes
<1>6. marks' \in [Symbols -> Nat \cup {NoMark}]
  BY <1>2, <1>3, <1>5 DEF Bars
<1>7. /\ pending' = {} /\ cancels' = {} /\ todo' \subseteq pending
      /\ expired' \subseteq expired \cup pending /\ cancelled' \subseteq cancelled \cup pending
      /\ phase' = "fill" /\ UNCHANGED <<sc, book, left, rejected, trail, asked>>
  BY DEF OpenBar
<1> QED BY <1>1, <1>4, <1>6, <1>7 DEF OrderTypes, Waiting, Ids, Typed

LEMMA OpenBarInv == ASSUME Inv, OpenBar PROVE Inv'
PROOF
<1>1. OrderTypes' /\ Typed(marks') /\ bar + 1 \in Nat
  BY OpenBarOrders DEF Inv
<1>2. /\ AccountTypes /\ OrderTypes /\ Life /\ FillsKnown /\ NoFillOutsideLife /\ LongLedgerAgrees
      /\ bar' = bar + 1 /\ phase = "open" /\ phase' = "fill"
      /\ pending' = {} /\ cancels' = {} /\ UNCHANGED <<book, asked>>
  BY DEF OpenBar, Inv
<1>3. PICK mk, now : mk = marks' /\ now = bar + 1
  OBVIOUS
<1>4. Settle(mk, now) /\ Typed(mk) /\ now \in Nat
  BY <1>1, <1>3 DEF OpenBar
<1>5. /\ AccountTypes'
      /\ \E n \in Nat :
           /\ Len(fills) <= n /\ DOMAIN fills' = 1 .. n
           /\ \A k \in DOMAIN fills : fills'[k] = fills[k]
           /\ \A k \in 1 .. n : k \notin DOMAIN fills => fills'[k].id = 0 /\ fills'[k].bar = now
  BY <1>2, <1>4, SettleTypes
<1>6. bar \in Int /\ Ids' = Ids
  BY <1>2 DEF OrderTypes, Ids
<1>7. Life'
  <2>1. todo' = {i \in pending : ~Due(book[i], bar + 1) /\ i \notin cancels}
    BY DEF OpenBar
  <2>2. \A i \in todo' : /\ i \in pending /\ i \in Waiting /\ i \in Ids /\ i \notin cancels
                         /\ ~(bar + 1 >= book[i].expires)
    BY <1>2, <2>1 DEF Due, Waiting, OrderTypes
  <2>3. \A i \in Ids : book[i].expires \in Nat /\ book[i].at \in Nat
    <3>1. book \in Seq(Orders)
      BY <1>2 DEF OrderTypes
    <3>2. \A i \in Ids : book[i] \in Orders
      BY <3>1 DEF Ids
    <3> QED BY <3>2 DEF Orders
  <2>4. \A i \in todo' : book[i].at <= bar /\ asked[i] = MaxBars /\ bar + 1 < book[i].expires
    BY <1>1, <1>2, <2>2, <2>3 DEF Life
  <2> QED BY <1>1, <1>2, <1>6, <2>2, <2>3, <2>4 DEF Life, Waiting
<1>8. FillsKnown' /\ NoFillOutsideLife'
  <2>1. \A k \in DOMAIN fills' :
          \/ k \in DOMAIN fills /\ fills'[k] = fills[k]
          \/ fills'[k].id = 0 /\ fills'[k].bar = bar'
    BY <1>2, <1>3, <1>5
  <2>2. \A k \in DOMAIN fills : fills[k].bar \in Int
    <3>1. fills \in Seq(Fills)
      BY <1>2 DEF AccountTypes
    <3>2. \A k \in DOMAIN fills : fills[k] \in Fills
      BY <3>1
    <3> QED BY <3>2 DEF Fills
  <2> QED BY <1>2, <1>6, <2>1, <2>2 DEF FillsKnown, NoFillOutsideLife
<1>9. LongLedgerAgrees'
  BY <1>2, <1>4, SettleAgrees
<1> QED BY <1>1, <1>5, <1>7, <1>8, <1>9 DEF Inv

(***************************************************************************)
(* FillNext.                                                               *)
(***************************************************************************)
\* What the three outcomes have in common.
Tried(i) ==
  /\ phase = "fill" /\ i \in todo /\ todo' = todo \ {i}
  /\ UNCHANGED <<sc, phase, bar, market, marks, book, cancels, expired, cancelled, settled, asked>>
  /\ Rest(i) \/ Reject(i) \/ Fill(i)

LEMMA FillOrders ==
  ASSUME OrderTypes, NEW i \in Ids, Tried(i)
  PROVE  OrderTypes'
PROOF
<1>1. /\ book \in Seq(Orders) /\ left \in Seq(Nat) /\ trail \in Seq(Nat \cup {NoMark})
      /\ Len(left) = Len(book) /\ Len(trail) = Len(book) /\ Len(book) \in Nat
      /\ i \in 1 .. Len(book) /\ i \in Waiting /\ i \in todo /\ i \notin pending
      /\ Waiting \subseteq Ids /\ left[i] \in 1 .. book[i].qty
  BY DEF OrderTypes, Ids, Tried, Waiting
<1>2. WaterNow(i) \in Nat \cup {NoMark}
  BY WaterType
<1>3. FillNow(i) \in FillTypes /\ FillNow(i).qty <= left[i]
  BY <1>1, FillNowType
<1>4. PICK f : f = FillNow(i)
  OBVIOUS
<1>5. f.qty \in Nat /\ f.qty <= left[i] /\ left[i] \in Nat
  BY <1>1, <1>3, <1>4 DEF FillTypes
<1>6. trail' \in Seq(Nat \cup {NoMark}) /\ Len(trail') = Len(trail)
  <2>1. PICK v \in Nat \cup {NoMark} : trail' = [trail EXCEPT ![i] = v]
    <3>1. CASE Rest(i) \/ Reject(i)
      BY <1>2, <3>1 DEF Rest, Reject
    <3>2. CASE Fill(i)
      BY <1>2, <3>2 DEF Fill, MarkAfter
    <3> QED BY <3>1, <3>2 DEF Tried
  <2> QED BY <1>1, <2>1
<1>7. /\ left' \in Seq(Nat) /\ Len(left') = Len(left)
      /\ \A j \in Waiting : j # i => left'[j] = left[j]
      /\ pending' \subseteq pending \cup {i}
      /\ i \in pending' => left'[i] \in 1 .. book[i].qty
      /\ rejected' \subseteq rejected \cup {i}
  <2>1. CASE Rest(i) \/ Reject(i)
    BY <1>1, <2>1 DEF Rest, Reject
  <2>2. CASE Fill(i)
    <3>1. left' = [left EXCEPT ![i] = @ - f.qty] /\ rejected' = rejected
      BY <1>4, <2>2 DEF Fill
    <3>2. pending' = IF f.qty < left[i] THEN pending \cup {i} ELSE pending
      BY <1>4, <2>2 DEF Fill, Unfinished
    <3>3. left[i] - f.qty \in Nat /\ (f.qty < left[i] => left[i] - f.qty \in 1 .. book[i].qty)
      <4>0. book[i] \in Orders
        BY <1>1
      <4>1. book[i].qty \in Nat
        BY <4>0 DEF Orders
      <4> QED BY <1>1, <1>5, <4>1
    <3>4. Waiting \subseteq 1 .. Len(left)
      BY <1>1 DEF Ids
    <3> QED BY <1>1, <3>1, <3>2, <3>3, <3>4
  <2> QED BY <2>1, <2>2 DEF Tried
<1>8. Waiting' \subseteq Waiting /\ pending' \cap todo' = {}
  BY <1>1, <1>7 DEF Tried, Waiting, OrderTypes
<1>9. \A j \in Waiting' : left'[j] \in 1 .. book[j].qty
  <2>1. \A j \in Waiting' : j = i => i \in pending'
    BY DEF Waiting, Tried
  <2>2. \A j \in Waiting : left[j] \in 1 .. book[j].qty
    BY DEF OrderTypes
  <2> QED BY <1>7, <1>8, <2>1, <2>2
<1> QED
  BY <1>1, <1>6, <1>7, <1>8, <1>9 DEF OrderTypes, Tried, Ids

LEMMA FillAccount ==
  ASSUME OrderTypes, AccountTypes, LongLedgerAgrees, NEW i \in Ids, Tried(i), bar \in Nat
  PROVE  AccountTypes' /\ LongLedgerAgrees'
PROOF
<1>1. CASE Rest(i) \/ Reject(i)
  <2>1. UNCHANGED <<pos, ledger, fills, settled>>
    BY <1>1 DEF Rest, Reject, account, Tried
  <2> QED BY <2>1 DEF AccountTypes, LongLedgerAgrees
<1>2. CASE Fill(i)
  <2>1. PICK o, f : o = book[i] /\ f = FillNow(i)
    OBVIOUS
  <2>2. o \in Orders /\ o.sym \in Symbols /\ o.side \in {Buy, Sell}
    <3>1. book \in Seq(Orders)
      BY DEF OrderTypes
    <3>2. o \in Orders
      BY <2>1, <3>1 DEF Ids
    <3> QED BY <3>2 DEF Orders
  <2>3. f.qty \in Nat \ {0} /\ f.price \in Int /\ f.fee \in Int
    <3>1. i \in Waiting
      BY DEF Tried, Waiting
    <3>2. f \in FillTypes /\ f.qty # 0
      BY <1>2, <2>1, <3>1, FillNowType DEF Fill
    <3> QED BY <3>2 DEF FillTypes
  <2>4. PICK s, signed, mult : s = o.sym /\ signed = Signed(o.side, f.qty) /\ mult = Mult[o.sym]
    OBVIOUS
  <2>5. s \in Symbols /\ signed \in Int /\ signed # 0 /\ mult \in Nat
    BY <2>2, <2>3, <2>4, BacktestAssumption DEF Signed
  <2>6. /\ pos' = [pos EXCEPT ![s] = ApplyFill(@, signed, f.price, f.fee, mult)]
        /\ ledger' = [ledger EXCEPT ![s] = Recorded(@, o.side, f.qty, f.price, f.fee)]
        /\ fills' = Append(fills, [id |-> i, sym |-> s, side |-> o.side, qty |-> f.qty,
                                   price |-> f.price, fee |-> f.fee, bar |-> bar])
        /\ settled' = settled
    BY <1>2, <2>1, <2>4 DEF Fill, Tried
  <2>7. /\ pos \in [Symbols -> Positions] /\ ledger \in [Symbols -> Holdings \cup {Broken}]
        /\ fills \in Seq(Fills) /\ settled \subseteq Options
    BY DEF AccountTypes
  <2>8. ApplyFill(pos[s], signed, f.price, f.fee, mult) \in Positions
    BY <2>3, <2>5, <2>7, ApplyFillType
  <2>9. Recorded(ledger[s], o.side, f.qty, f.price, f.fee) \in Holdings \cup {Broken}
    BY <2>2, <2>3, <2>5, <2>7, RecordedType
  <2>10. i \in Nat
    BY DEF Ids, OrderTypes
  <2>11. fills' \in Seq(Fills)
    BY <2>2, <2>3, <2>5, <2>6, <2>7, <2>10 DEF Fills
  <2>12. AccountTypes'
    BY <2>5, <2>6, <2>7, <2>8, <2>9, <2>11 DEF AccountTypes
  <2>13. ASSUME Mult[s] = 1, ledger'[s] # Broken
         PROVE  ledger'[s] = pos'[s]
    <3>1. ledger'[s] = Recorded(ledger[s], o.side, f.qty, f.price, f.fee)
      BY <2>5, <2>6, <2>7
    <3>2. ledger[s] # Broken /\ ~(o.side = Sell /\ f.qty > ledger[s].qty)
      BY <2>13, <3>1 DEF Recorded
    <3>3. ledger[s] = pos[s] /\ pos[s] \in Positions /\ pos[s].qty \in Nat
      BY <2>5, <2>7, <2>13, <3>2 DEF LongLedgerAgrees, Holdings
    <3>4. pos'[s] = ApplyFill(pos[s], signed, f.price, f.fee, 1)
      BY <2>4, <2>5, <2>6, <2>7, <2>13
    <3>5. CASE o.side = Buy
      <4>1. ledger'[s] = LedgerBuy(pos[s], f.qty, f.price) /\ signed = f.qty
        BY <2>4, <3>1, <3>2, <3>3, <3>5 DEF Recorded, Signed, Buy, Sell
      <4> QED BY <2>3, <3>3, <3>4, <4>1, LedgerBuyIsApplyFill
    <3>6. CASE o.side = Sell
      <4>1. ledger'[s] = LedgerSell(pos[s], f.qty, f.price, f.fee) /\ signed = -f.qty
        BY <2>4, <3>1, <3>2, <3>3, <3>6 DEF Recorded, Signed, Buy, Sell
      <4>2. f.qty <= pos[s].qty
        BY <2>3, <3>2, <3>3, <3>6
      <4> QED BY <2>3, <3>3, <3>4, <4>1, <4>2, LedgerSellIsApplyFill
    <3> QED BY <2>2, <3>5, <3>6
  <2>14. \A t \in Symbols : t # s => ledger'[t] = ledger[t] /\ pos'[t] = pos[t]
    BY <2>6, <2>7
  <2> QED BY <2>12, <2>13, <2>14 DEF LongLedgerAgrees
<1> QED BY <1>1, <1>2 DEF Tried

LEMMA FillNextInv == ASSUME Inv, FillNext PROVE Inv'
PROOF
<1>1. PICK i \in todo : Tried(i)
  BY DEF FillNext, Tried
<1>2. OrderTypes /\ AccountTypes /\ Life /\ FillsKnown /\ NoFillOutsideLife /\ LongLedgerAgrees
  BY DEF Inv
<1>3. i \in Ids /\ i \in Waiting /\ phase = "fill" /\ bar \in Nat
  BY <1>1, <1>2 DEF OrderTypes, Waiting, Tried, Life
<1>4. OrderTypes' /\ AccountTypes' /\ LongLedgerAgrees'
  BY <1>1, <1>2, <1>3, FillOrders, FillAccount
<1>5. pending' \subseteq pending \cup {i} /\ todo' \subseteq todo
      /\ UNCHANGED <<phase, bar, book, cancels, asked>>
  BY <1>1 DEF Tried, Rest, Reject, Fill
<1>6. Life'
  BY <1>2, <1>3, <1>5 DEF Life, Waiting
<1>7. FillsKnown' /\ NoFillOutsideLife'
  <2>1. CASE fills' = fills
    BY <1>2, <1>5, <2>1 DEF FillsKnown, NoFillOutsideLife, Ids
  <2>2. CASE Fill(i)
    <3>1. PICK new : fills' = Append(fills, new) /\ new.id = i /\ new.bar = bar
      BY <2>2 DEF Fill
    <3>2. fills \in Seq(Fills \cup {new})
      <4>1. fills \in Seq(Fills)
        BY <1>2 DEF AccountTypes
      <4> QED BY <4>1
    <3>3. \A k \in DOMAIN fills' :
            \/ k \in DOMAIN fills /\ fills'[k] = fills[k]
            \/ fills'[k].id = i /\ fills'[k].bar = bar
      <4>1. /\ DOMAIN fills' = 1 .. Len(fills) + 1 /\ DOMAIN fills = 1 .. Len(fills)
            /\ \A k \in 1 .. Len(fills) : fills'[k] = fills[k]
            /\ fills'[Len(fills) + 1] = new /\ Len(fills) \in Nat
        BY <3>1, <3>2
      <4>2. \A k \in 1 .. Len(fills) + 1 : k \in 1 .. Len(fills) \/ k = Len(fills) + 1
        BY <4>1
      <4>3. fills'[Len(fills) + 1].id = i /\ fills'[Len(fills) + 1].bar = bar
        BY <3>1, <4>1
      <4>4. \A k \in 1 .. Len(fills) : k \in DOMAIN fills
        BY <4>1
      <4> SUFFICES ASSUME NEW k \in DOMAIN fills'
                   PROVE  \/ k \in DOMAIN fills /\ fills'[k] = fills[k]
                          \/ fills'[k].id = i /\ fills'[k].bar = bar
        OBVIOUS
      <4>5. k \in 1 .. Len(fills) + 1
        BY <4>1
      <4>6. CASE k \in 1 .. Len(fills)
        BY <4>1, <4>4, <4>6
      <4>7. CASE k = Len(fills) + 1
        BY <4>3, <4>7
      <4> QED BY <4>2, <4>5, <4>6, <4>7
    <3>4. book[i].at < bar /\ bar < book[i].expires /\ asked[i] = MaxBars /\ bar < MaxBars
      BY <1>2, <1>3, BacktestAssumption DEF Life, OrderTypes
    <3>5. book[i].at \in Nat /\ book[i].expires \in Nat
      <4>1. book \in Seq(Orders)
        BY <1>2 DEF OrderTypes
      <4>2. book[i] \in Orders
        BY <1>3, <4>1 DEF Ids
      <4> QED BY <4>2 DEF Orders
    <3>6. bar \in (book[i].at + 1) .. (book[i].expires - 1) /\ bar <= asked[i]
      BY <1>3, <3>4, <3>5, BacktestAssumption
    <3> QED BY <1>2, <1>3, <1>5, <3>3, <3>6 DEF FillsKnown, NoFillOutsideLife, Ids
  <2>3. fills' = fills \/ Fill(i)
    BY <1>1 DEF Tried, Rest, Reject, account
  <2> QED BY <2>1, <2>2, <2>3
<1> QED BY <1>4, <1>6, <1>7 DEF Inv

(***************************************************************************)
(* OnBar.                                                                  *)
(***************************************************************************)
LEMMA Concat ==
  ASSUME NEW S, NEW s \in Seq(S), NEW t \in Seq(S)
  PROVE  /\ s \o t \in Seq(S) /\ Len(s \o t) = Len(s) + Len(t)
         /\ \A i \in 1 .. Len(s) : (s \o t)[i] = s[i]
         /\ \A i \in (Len(s) + 1) .. (Len(s) + Len(t)) : (s \o t)[i] = t[i - Len(s)]
OBVIOUS

LEMMA ElementIn == ASSUME NEW S, NEW s \in Seq(S), NEW i \in DOMAIN s PROVE s[i] \in S
OBVIOUS

LEMMA SubmittedType ==
  ASSUME NEW shape \in Shapes, bar \in Nat
  PROVE  Submitted(shape) \in Orders /\ Submitted(shape).at = bar
                                     /\ Submitted(shape).qty = shape.qty
PROOF
<1>1. /\ shape.sym \in Symbols /\ shape.side \in {Buy, Sell} /\ shape.qty \in Nat \ {0}
      /\ shape.type \in {"market", "limit", "stop", "trail"} /\ shape.price \in Nat /\ shape.life \in Nat
  BY DEF Shapes
<1>2. MaxBars \in Nat /\ bar + shape.life \in Nat
  BY <1>1, BacktestAssumption
<1> QED BY <1>1, <1>2 DEF Submitted, Orders

LEMMA OnBarInv == ASSUME Inv, OnBar PROVE Inv'
PROOF
<1>1. OrderTypes /\ AccountTypes /\ Life /\ FillsKnown /\ NoFillOutsideLife /\ LongLedgerAgrees
  BY DEF Inv
<1>2. /\ phase = "fill" /\ phase' = "open" /\ todo = {} /\ todo' = {} /\ bar \in Nat /\ bar' = bar
      /\ UNCHANGED <<sc, market, marks, expired, cancelled, rejected, pos, ledger, fills, settled>>
  BY <1>1 DEF OnBar, Life, account
<1>3. PICK new \in sc.orders :
        /\ book' = book \o [k \in DOMAIN new |-> Submitted(new[k])]
        /\ left' = left \o [k \in DOMAIN new |-> new[k].qty]
        /\ pending' = pending \cup ((Len(book) + 1) .. (Len(book) + Len(new)))
        /\ trail' = trail \o [k \in DOMAIN new |-> NoMark]
        /\ \E asks \in SUBSET pending' :
             /\ cancels' = asks
             /\ asked' = [i \in DOMAIN book' |->
                  IF i \in DOMAIN asked /\ asked[i] < MaxBars THEN asked[i]
                  ELSE IF i \in asks THEN bar ELSE MaxBars]
  BY DEF OnBar
<1>4. /\ book \in Seq(Orders) /\ left \in Seq(Nat) /\ trail \in Seq(Nat \cup {NoMark})
      /\ asked \in Seq(0 .. MaxBars)
      /\ Len(left) = Len(book) /\ Len(trail) = Len(book) /\ Len(asked) = Len(book) /\ Len(book) \in Nat
  BY <1>1 DEF OrderTypes
<1>5. new \in Seq(Shapes) /\ Len(new) \in Nat /\ \A k \in 1 .. Len(new) : new[k] \in Shapes
  <2>1. new \in Seq(Shapes)
    <3>1. \A c \in Scenarios : c.orders \subseteq Seq(Shapes)
      BY BacktestAssumption
    <3> QED BY <1>1, <1>3, <3>1 DEF OrderTypes
  <2> QED BY <2>1
<1>n. PICK n, m : n = Len(book) /\ m = Len(new) /\ n \in Nat /\ m \in Nat
  BY <1>4, <1>5
<1>s. \A k \in 1 .. m : /\ Submitted(new[k]) \in Orders /\ Submitted(new[k]).at = bar
                        /\ Submitted(new[k]).qty = new[k].qty /\ new[k].qty \in Nat \ {0}
  <2>1. \A shape \in Shapes : shape.qty \in Nat \ {0}
    BY DEF Shapes
  <2> QED BY <1>2, <1>5, <1>n, <2>1, SubmittedType
<1>d. DOMAIN new = 1 .. m /\ DOMAIN book = 1 .. n /\ DOMAIN asked = 1 .. n
  BY <1>4, <1>5, <1>n
<1>6. /\ book' \in Seq(Orders) /\ Len(book') = n + m
      /\ \A i \in 1 .. n : book'[i] = book[i]
      /\ \A i \in (n + 1) .. (n + m) : book'[i].at = bar /\ book'[i].qty = new[i - n].qty
  <2>1. PICK add : add = [k \in 1 .. m |-> Submitted(new[k])]
    OBVIOUS
  <2>2. add \in Seq(Orders) /\ Len(add) = m /\ book' = book \o add
    BY <1>3, <1>n, <1>s, <1>d, <2>1
  <2>3. \A i \in (n + 1) .. (n + m) : i - n \in 1 .. m
    BY <1>n
  <2>4. /\ book' \in Seq(Orders) /\ Len(book') = n + m
        /\ \A i \in 1 .. n : book'[i] = book[i]
        /\ \A i \in (n + 1) .. (n + m) : book'[i] = add[i - n]
    <3>1. book \in Seq(Orders) /\ Len(book) = n
      BY <1>4, <1>n
    <3>2. /\ book \o add \in Seq(Orders) /\ Len(book \o add) = Len(book) + Len(add)
          /\ \A i \in 1 .. Len(book) : (book \o add)[i] = book[i]
          /\ \A i \in (Len(book) + 1) .. (Len(book) + Len(add)) : (book \o add)[i] = add[i - Len(book)]
      BY <2>2, <3>1, Concat, Zenon
    <3> QED BY <2>2, <3>1, <3>2
  <2> QED BY <1>s, <2>1, <2>3, <2>4
<1>7. /\ left' \in Seq(Nat) /\ Len(left') = n + m
      /\ \A i \in 1 .. n : left'[i] = left[i]
      /\ \A i \in (n + 1) .. (n + m) : left'[i] = new[i - n].qty
  <2>1. PICK add : add = [k \in 1 .. m |-> new[k].qty]
    OBVIOUS
  <2>2. add \in Seq(Nat) /\ Len(add) = m /\ left' = left \o add
    BY <1>3, <1>n, <1>s, <1>d, <2>1
  <2>3. \A i \in (n + 1) .. (n + m) : i - n \in 1 .. m
    BY <1>n
  <2>4. /\ left' \in Seq(Nat) /\ Len(left') = n + m
        /\ \A i \in 1 .. n : left'[i] = left[i]
        /\ \A i \in (n + 1) .. (n + m) : left'[i] = add[i - n]
    <3>1. left \in Seq(Nat) /\ Len(left) = n
      BY <1>4, <1>n
    <3>2. /\ left \o add \in Seq(Nat) /\ Len(left \o add) = Len(left) + Len(add)
          /\ \A i \in 1 .. Len(left) : (left \o add)[i] = left[i]
          /\ \A i \in (Len(left) + 1) .. (Len(left) + Len(add)) : (left \o add)[i] = add[i - Len(left)]
      BY <2>2, <3>1, Concat, Zenon
    <3> QED BY <2>2, <3>1, <3>2
  <2> QED BY <2>1, <2>3, <2>4
<1>8. trail' \in Seq(Nat \cup {NoMark}) /\ Len(trail') = n + m
  <2>1. PICK add : add = [k \in 1 .. m |-> NoMark]
    OBVIOUS
  <2>2. add \in Seq(Nat \cup {NoMark}) /\ Len(add) = m /\ trail' = trail \o add
    BY <1>3, <1>n, <1>d, <2>1
  <2>3. trail \in Seq(Nat \cup {NoMark}) /\ Len(trail) = n
    BY <1>4, <1>n
  <2>4. trail \o add \in Seq(Nat \cup {NoMark}) /\ Len(trail \o add) = Len(trail) + Len(add)
    BY <2>2, <2>3, Concat, Zenon
  <2> QED BY <2>2, <2>3, <2>4
<1>9. /\ bar \in 0 .. MaxBars /\ bar < MaxBars /\ MaxBars \in Nat
  BY <1>1, <1>2, BacktestAssumption DEF OrderTypes
<1>10. /\ asked' \in Seq(0 .. MaxBars) /\ Len(asked') = n + m
       /\ cancels' \subseteq pending'
       /\ \A i \in 1 .. n : asked'[i] = asked[i] \/ (asked[i] = MaxBars /\ asked'[i] = bar)
       /\ \A i \in 1 .. (n + m) : i \notin cancels' /\ (i \in 1 .. n => asked[i] = MaxBars)
                                    => asked'[i] = MaxBars
  <2>1. DOMAIN book' = 1 .. (n + m)
    BY <1>6
  <2>2. PICK asks \in SUBSET pending' :
          /\ cancels' = asks
          /\ asked' = [i \in 1 .. (n + m) |->
               IF i \in 1 .. n /\ asked[i] < MaxBars THEN asked[i]
               ELSE IF i \in asks THEN bar ELSE MaxBars]
    BY <1>3, <1>d, <2>1
  <2>3. \A i \in 1 .. n : asked[i] \in 0 .. MaxBars
    <3>1. PICK S : S = 0 .. MaxBars
      OBVIOUS
    <3>2. asked \in Seq(S)
      BY <1>4, <3>1
    <3>3. \A i \in DOMAIN asked : asked[i] \in S
      BY <3>2, ElementIn, Zenon
    <3> QED BY <1>d, <3>1, <3>3
  <2>4. \A i \in 1 .. (n + m) : asked'[i] \in 0 .. MaxBars
    BY <1>9, <2>2, <2>3
  <2>5. n + m \in Nat /\ \A i \in 1 .. n : i \in 1 .. (n + m)
    BY <1>n
  <2>6. asked' \in Seq(0 .. MaxBars) /\ Len(asked') = n + m
    <3>1. PICK S : S = 0 .. MaxBars
      OBVIOUS
    <3>2. PICK f : f = asked'
      OBVIOUS
    <3>3. DOMAIN f = 1 .. (n + m) /\ f = [i \in 1 .. (n + m) |-> f[i]] /\ \A i \in 1 .. (n + m) : f[i] \in S
      <4>1. f = [i \in 1 .. (n + m) |-> f[i]]
        BY <2>2, <3>2
      <4> QED BY <2>4, <3>1, <3>2, <4>1
    <3>4. f \in Seq(S) /\ Len(f) = n + m
      BY <2>5, <3>3
    <3> QED BY <3>1, <3>2, <3>4
  <2> QED BY <1>9, <2>2, <2>3, <2>5, <2>6
<1>11. /\ pending \subseteq 1 .. n /\ pending' = pending \cup ((n + 1) .. (n + m))
       /\ Ids = 1 .. n /\ Ids' = 1 .. (n + m) /\ Waiting = pending /\ Waiting' = pending'
       /\ Ids \subseteq Ids'
  <2>1. Ids = 1 .. n /\ Ids' = 1 .. (n + m) /\ Ids \subseteq Ids'
    BY <1>d, <1>n, <1>6 DEF Ids
  <2>2. Waiting = pending /\ Waiting' = pending' /\ Waiting \subseteq Ids
    BY <1>1, <1>2 DEF Waiting, OrderTypes
  <2> QED BY <1>3, <1>n, <2>1, <2>2
<1>12. \A i \in Waiting' : left'[i] \in 1 .. book'[i].qty
  <2>1. \A i \in pending : left'[i] \in 1 .. book'[i].qty
    BY <1>1, <1>6, <1>7, <1>11 DEF OrderTypes
  <2>2. ASSUME NEW i \in (n + 1) .. (n + m) PROVE left'[i] \in 1 .. book'[i].qty
    <3>1. i - n \in 1 .. m
      BY <1>n
    <3>2. new[i - n].qty \in Nat \ {0}
      BY <1>s, <3>1
    <3> QED BY <1>6, <1>7, <3>2
  <2> QED BY <1>11, <2>1, <2>2
<1>13. OrderTypes'
  <2>1. pending' \subseteq Ids'
    <3>1. \A i \in (n + 1) .. (n + m) : i \in 1 .. (n + m)
      BY <1>n
    <3> QED BY <1>11, <3>1
  <2>2. Waiting' \subseteq Ids' /\ pending' \cap todo' = {}
    BY <1>2, <1>11, <2>1
  <2>3. expired \cup cancelled \cup rejected \subseteq Ids
    BY <1>1 DEF OrderTypes
  <2>4. cancels' \cup expired' \cup cancelled' \cup rejected' \subseteq Ids'
    BY <1>2, <1>10, <1>11, <2>1, <2>3
  <2> QED BY <1>1, <1>2, <1>6, <1>7, <1>8, <1>10, <1>12, <2>2, <2>4 DEF OrderTypes
<1>14. AccountTypes' /\ LongLedgerAgrees'
  BY <1>1, <1>2 DEF AccountTypes, LongLedgerAgrees
<1>15. Life'
  <2>1. \A i \in pending' \ cancels' : asked'[i] = MaxBars
    <3>1. \A i \in pending : asked[i] = MaxBars
      BY <1>1, <1>2, <1>11 DEF Life
    <3>2. \A i \in pending' : i \in 1 .. (n + m) /\ (i \in 1 .. n => i \in pending)
      BY <1>n, <1>11
    <3> QED BY <1>10, <3>1, <3>2
  <2>2. \A i \in Waiting' : book'[i].at <= bar
    BY <1>1, <1>2, <1>6, <1>11 DEF Life
  <2> QED BY <1>2, <2>1, <2>2 DEF Life
<1>16. FillsKnown' /\ NoFillOutsideLife'
  <2>1. \A k \in DOMAIN fills : fills[k].id # 0 =>
          /\ fills[k].id \in 1 .. n /\ book'[fills[k].id] = book[fills[k].id]
          /\ fills[k].bar <= asked'[fills[k].id]
    BY <1>1, <1>6, <1>10, <1>11 DEF FillsKnown, NoFillOutsideLife
  <2> QED BY <1>1, <1>2, <1>11, <2>1 DEF FillsKnown, NoFillOutsideLife
<1> QED BY <1>13, <1>14, <1>15, <1>16 DEF Inv

(***************************************************************************)
(* Theorems.                                                               *)
(***************************************************************************)
LEMMA InvStep == Inv /\ [Next]_vars => Inv'
PROOF
<1> SUFFICES ASSUME Inv, [Next]_vars PROVE Inv'
  OBVIOUS
<1>1. CASE UNCHANGED vars
  BY <1>1 DEF Inv, vars, orders, account, OrderTypes, AccountTypes, Life, FillsKnown,
              NoFillOutsideLife, LongLedgerAgrees, Ids, Waiting
<1> QED BY <1>1, OpenBarInv, FillNextInv, OnBarInv DEF Next

LEMMA InvAlways == Spec => []Inv
BY InvInit, InvStep, PTL DEF Spec

\* No look-ahead, no fill at or after the expiry, none after the bar of a
\* cancellation, for every strategy and every history (engine.run_backtest, phase 2).
THEOREM FillsInsideLife == Spec => []NoFillOutsideLife
PROOF
<1>1. Inv => NoFillOutsideLife
  BY DEF Inv
<1> QED BY <1>1, InvAlways, PTL

\* The live ledger agrees with the backtest's portfolio as long as the symbol is
\* never short, whatever the prices, fees and partial fills (position_math).
THEOREM LedgersAgree == Spec => []LongLedgerAgrees
PROOF
<1>1. Inv => LongLedgerAgrees
  BY DEF Inv
<1> QED BY <1>1, InvAlways, PTL

(***************************************************************************)
(* The marks of trailing stops.                                            *)
(***************************************************************************)
StopInv == HistoryTypes /\ StopsFollowTheMarket

\* One more bar.
LEMMA MarkMoves ==
  ASSUME NEW o, NEW b \in Bars, NEW bs \in SUBSET Bars, NEW prev, IsMark(o.side, bs, prev)
  PROVE  IsMark(o.side, bs \cup {b}, Water(o, prev, b))
PROOF
<1>1. /\ b.high \in Nat /\ b.low \in Nat
      /\ \A c \in bs : c.high \in Nat /\ c.low \in Nat
      /\ NoMark \notin Nat
  BY BacktestAssumption DEF Bars
<1>2. CASE bs = {}
  BY <1>1, <1>2 DEF IsMark, Water
<1>3. CASE bs # {} /\ o.side = Sell
  BY <1>1, <1>3 DEF IsMark, Water, Higher
<1>4. CASE bs # {} /\ o.side # Sell
  BY <1>1, <1>4 DEF IsMark, Water, Lower
<1> QED BY <1>2, <1>3, <1>4

\* A stop that a bar did not fill was not breached, or the bar had no volume for it.
LEMMA WhyItRests ==
  ASSUME NEW o \in Orders, NEW rest \in Nat \ {0}, NEW b \in Bars,
         NEW water \in Nat \cup {NoMark}, o.type = "trail" => water \in Nat,
         o.type \in {"stop", "trail"}, TryFill(o, rest, b, water).qty = 0
  PROVE  ~Breached(o, b, water) \/ (sc.cap /\ b.vol = 0)
PROOF
<1>1. StopFill(o, rest, b, water).qty = 0
  BY DEF TryFill
<1>2. PICK t : t = Trigger(o, water)
  OBVIOUS
<1>3. t \in Int /\ b.low \in Int /\ b.high \in Int /\ b.vol \in Nat
  <2>1. o.price \in Int /\ b.low \in Int /\ b.high \in Int /\ b.vol \in Nat
    BY DEF Orders, Bars
  <2>2. CASE o.type = "stop"
    BY <1>2, <2>1, <2>2 DEF Trigger
  <2>3. CASE o.type = "trail"
    <3>0. water \in Int
      BY <2>3
    <3>1. Pct(water, o.price) \in Int
      BY <2>1, <3>0, PctType
    <3> QED BY <1>2, <2>1, <2>3, <3>0, <3>1 DEF Trigger
  <2> QED BY <2>1, <2>2, <2>3
<1>4. SUFFICES ASSUME Breached(o, b, water)
               PROVE  sc.cap /\ b.vol = 0
  OBVIOUS
<1>5. PICK price : StopFill(o, rest, b, water) = Filled(o, rest, b, price)
  BY <1>2, <1>3, <1>4 DEF Breached, StopFill
<1>6. Fillable(rest, b) = 0
  BY <1>1, <1>5 DEF Filled
<1> QED BY <1>3, <1>6 DEF Fillable, Lower

LEMMA StopsAtOpenBar == ASSUME Inv, StopInv, OpenBar PROVE StopInv'
PROOF
<1>1. /\ pending' = {} /\ todo' \subseteq pending /\ UNCHANGED <<book, trail, seen>>
  BY DEF OpenBar
<1>2. Waiting' \subseteq Waiting
  BY <1>1 DEF Waiting
<1> QED BY <1>1, <1>2 DEF StopInv, HistoryTypes, StopsFollowTheMarket

LEMMA StopsAtFillNext == ASSUME Inv, StopInv, FillNext PROVE StopInv'
PROOF
<1>1. PICK i \in todo : Tried(i) /\ seen' = [seen EXCEPT ![i] = @ \cup LookedAt(i)]
  BY DEF FillNext, Tried
<1>2. /\ OrderTypes /\ AccountTypes /\ HistoryTypes
      /\ i \in Waiting /\ i \in Ids /\ Waiting \subseteq Ids
      /\ UNCHANGED <<sc, bar, market, book>>
  BY <1>1 DEF Inv, StopInv, OrderTypes, Waiting, Tried
<1>3. /\ book \in Seq(Orders) /\ left \in Seq(Nat) /\ trail \in Seq(Nat \cup {NoMark})
      /\ seen \in Seq(SUBSET Bars) /\ Len(left) = Len(book) /\ Len(trail) = Len(book)
      /\ Len(seen) = Len(book) /\ market \in [Symbols -> Bars \cup {NoBar}]
      /\ NoBar \notin Bars
  BY <1>2, BacktestAssumption DEF OrderTypes, HistoryTypes
<1>4. PICK o, b : o = book[i] /\ b = market[o.sym]
  OBVIOUS
<1>5. /\ o \in Orders /\ b \in Bars \cup {NoBar} /\ left[i] \in Nat \ {0}
      /\ trail[i] \in Nat \cup {NoMark} /\ seen[i] \in SUBSET Bars /\ i \in 1 .. Len(book)
  <2>1. /\ o \in Orders /\ i \in 1 .. Len(book)
        /\ trail[i] \in Nat \cup {NoMark} /\ seen[i] \in SUBSET Bars
    BY <1>2, <1>3, <1>4 DEF Ids
  <2>2. left[i] \in 1 .. book[i].qty
    BY <1>2 DEF OrderTypes
  <2>3. o.sym \in Symbols /\ o.qty \in Nat
    BY <2>1 DEF Orders
  <2> QED BY <1>3, <1>4, <2>1, <2>2, <2>3
<1>6. LookedAt(i) = IF o.type = "trail" /\ b # NoBar THEN {b} ELSE {}
  BY <1>4 DEF LookedAt
<1>7. HistoryTypes'
  <2>1. LookedAt(i) \in SUBSET Bars
    BY <1>5, <1>6
  <2>2. PICK v \in SUBSET Bars : seen' = [seen EXCEPT ![i] = v]
    BY <1>1, <1>5, <2>1
  <2>3. PICK S : S = SUBSET Bars
    OBVIOUS
  <2>4. seen \in Seq(S) /\ v \in S /\ i \in 1 .. Len(seen)
    BY <1>3, <1>5, <2>2, <2>3
  <2>5. seen' \in Seq(S) /\ Len(seen') = Len(seen)
    BY <2>2, <2>4
  <2> QED BY <1>2, <1>3, <2>3, <2>5 DEF HistoryTypes
<1>8. /\ pending' \subseteq pending \cup {i} /\ Waiting' \subseteq Waiting
      /\ \A j \in Ids \ {i} : trail'[j] = trail[j] /\ seen'[j] = seen[j]
      /\ i \in Waiting' => trail'[i] = WaterNow(i) /\ (Rest(i) \/ Fill(i))
      /\ seen'[i] = seen[i] \cup LookedAt(i)
  <2>1. /\ pending' \subseteq pending \cup {i}
        /\ i \in pending' => trail' = [trail EXCEPT ![i] = WaterNow(i)] /\ (Rest(i) \/ Fill(i))
        /\ \E v : trail' = [trail EXCEPT ![i] = v]
    <3>1. i \notin pending
      BY <1>1, <1>2 DEF OrderTypes
    <3>2. CASE Rest(i)
      BY <3>2 DEF Rest
    <3>3. CASE Reject(i)
      BY <3>1, <3>3 DEF Reject
    <3>4. CASE Fill(i)
      BY <3>1, <3>4 DEF Fill, MarkAfter
    <3> QED BY <1>1, <3>2, <3>3, <3>4 DEF Tried
  <2>2. todo' = todo \ {i}
    BY <1>1 DEF Tried
  <2>3. i \in Waiting' => i \in pending'
    BY <2>2 DEF Waiting
  <2>4. i \in 1 .. Len(trail) /\ i \in 1 .. Len(seen) /\ DOMAIN trail = 1 .. Len(trail)
        /\ DOMAIN seen = 1 .. Len(seen)
    BY <1>3, <1>5
  <2>5. Ids = 1 .. Len(trail) /\ Ids = 1 .. Len(seen)
    BY <1>3 DEF Ids
  <2> QED BY <1>1, <2>1, <2>2, <2>3, <2>4, <2>5 DEF Waiting
<1>9. ASSUME i \in Waiting', o.type = "trail"
      PROVE  IsMark(o.side, seen'[i], trail'[i])
  <2>1. IsMark(o.side, seen[i], trail[i])
    BY <1>2, <1>4, <1>9 DEF StopInv, StopsFollowTheMarket
  <2>2. CASE b = NoBar
    BY <1>4, <1>6, <1>8, <1>9, <2>1, <2>2 DEF WaterNow
  <2>3. CASE b # NoBar
    <3>1. trail'[i] = Water(o, trail[i], b) /\ seen'[i] = seen[i] \cup {b}
      BY <1>4, <1>6, <1>8, <1>9, <2>3 DEF WaterNow
    <3>2. b \in Bars /\ seen[i] \in SUBSET Bars
      BY <1>5, <2>3
    <3>3. IsMark(o.side, seen[i] \cup {b}, Water(o, trail[i], b))
      BY <2>1, <3>2, MarkMoves
    <3> QED BY <3>1, <3>3, Zenon
  <2> QED BY <2>2, <2>3
<1>10. \A j \in Waiting' : book'[j].type = "trail" => IsMark(book'[j].side, seen'[j], trail'[j])
  <2> SUFFICES ASSUME NEW j \in Waiting', book[j].type = "trail"
               PROVE  IsMark(book[j].side, seen'[j], trail'[j])
    BY <1>2
  <2>1. CASE j = i
    BY <1>4, <1>9, <2>1
  <2>2. CASE j # i
    <3>1. IsMark(book[j].side, seen[j], trail[j]) /\ j \in Ids
      BY <1>2, <1>8 DEF StopInv, StopsFollowTheMarket
    <3> QED BY <1>8, <2>2, <3>1
  <2> QED BY <2>1, <2>2
<1>11. \A k \in DOMAIN fills : k \in DOMAIN fills' /\ fills'[k] = fills[k]
  <2>1. CASE Fill(i)
    <3>1. PICK new : fills' = Append(fills, new)
      BY <2>1 DEF Fill
    <3>2. fills \in Seq(Fills \cup {new})
      <4>1. fills \in Seq(Fills)
        BY <1>2 DEF AccountTypes
      <4> QED BY <4>1
    <3> QED BY <3>1, <3>2
  <2>2. CASE ~Fill(i)
    BY <1>1, <2>2 DEF Tried, Rest, Reject, account
  <2> QED BY <2>1, <2>2
<1>12. \A j \in pending' :
         book[j].type \in {"stop", "trail"} /\ book[j].at < bar /\ market[book[j].sym] # NoBar =>
           \/ ~Breached(book[j], market[book[j].sym], trail'[j])
           \/ sc.cap /\ market[book[j].sym].vol = 0
           \/ \E k \in DOMAIN fills' : fills'[k].id = j /\ fills'[k].bar = bar
  <2> SUFFICES ASSUME NEW j \in pending', book[j].type \in {"stop", "trail"}, book[j].at < bar,
                      market[book[j].sym] # NoBar
               PROVE  \/ ~Breached(book[j], market[book[j].sym], trail'[j])
                      \/ sc.cap /\ market[book[j].sym].vol = 0
                      \/ \E k \in DOMAIN fills' : fills'[k].id = j /\ fills'[k].bar = bar
    OBVIOUS
  <2>1. CASE j # i
    <3>1. j \in pending /\ j \in Ids
      BY <1>2, <1>8, <2>1 DEF Waiting
    <3>2. \/ ~Breached(book[j], market[book[j].sym], trail[j])
          \/ sc.cap /\ market[book[j].sym].vol = 0
          \/ \E k \in DOMAIN fills : fills[k].id = j /\ fills[k].bar = bar
      BY <3>1 DEF StopInv, StopsFollowTheMarket
    <3> QED BY <1>8, <1>11, <2>1, <3>1, <3>2
  <2>2. ASSUME j = i, Rest(i)
        PROVE  ~Breached(o, b, trail'[i]) \/ (sc.cap /\ b.vol = 0)
    <3>1. i \in Waiting'
      BY <2>2 DEF Waiting
    <3>2. trail'[i] = WaterNow(i) /\ b \in Bars /\ o.type \in {"stop", "trail"}
      BY <1>4, <1>5, <1>8, <2>2, <3>1
    <3>3. WaterNow(i) \in Nat \cup {NoMark} /\ (o.type = "trail" => WaterNow(i) \in Nat)
      BY <1>2, <1>3, <1>4, <3>2, WaterType
    <3>4. TryFill(o, left[i], b, WaterNow(i)).qty = 0
      BY <1>3, <1>4, <2>2, <3>2 DEF Rest, FillNow
    <3>5. PICK water \in Nat \cup {NoMark} : water = WaterNow(i)
      BY <3>3
    <3>6. o \in Orders /\ left[i] \in Nat \ {0} /\ b \in Bars
      BY <1>5, <3>2
    <3>7. ~Breached(o, b, water) \/ (sc.cap /\ b.vol = 0)
      BY <3>2, <3>3, <3>4, <3>5, <3>6, WhyItRests
    <3> QED BY <3>2, <3>5, <3>7, Zenon
  <2>3. ASSUME Fill(i)
        PROVE  \E k \in DOMAIN fills' : fills'[k].id = i /\ fills'[k].bar = bar
    <3>1. PICK new : fills' = Append(fills, new) /\ new.id = i /\ new.bar = bar
      BY <2>3 DEF Fill
    <3>2. fills \in Seq(Fills \cup {new})
      <4>1. fills \in Seq(Fills)
        BY <1>2 DEF AccountTypes
      <4> QED BY <4>1
    <3>3. Len(fills) + 1 \in DOMAIN fills' /\ fills'[Len(fills) + 1] = new
      BY <3>1, <3>2
    <3> QED BY <3>1, <3>3
  <2>4. j = i => Rest(i) \/ Fill(i)
    BY <1>8 DEF Waiting
  <2> QED BY <1>4, <2>1, <2>2, <2>3, <2>4
<1> QED BY <1>2, <1>7, <1>10, <1>12 DEF StopInv, StopsFollowTheMarket

LEMMA StopsAtOnBar == ASSUME Inv, StopInv, OnBar, OrderTypes' PROVE StopInv'
PROOF
<1>1. /\ OrderTypes /\ HistoryTypes /\ todo = {} /\ todo' = {}
      /\ UNCHANGED <<sc, bar, market, fills>>
  BY DEF Inv, StopInv, OnBar, account
<1>2. PICK new \in sc.orders :
        /\ book' = book \o [k \in DOMAIN new |-> Submitted(new[k])]
        /\ pending' = pending \cup ((Len(book) + 1) .. (Len(book) + Len(new)))
        /\ trail' = trail \o [k \in DOMAIN new |-> NoMark]
        /\ seen' = seen \o [k \in DOMAIN new |-> {}]
  BY DEF OnBar
<1>3. /\ book \in Seq(Orders) /\ trail \in Seq(Nat \cup {NoMark}) /\ seen \in Seq(SUBSET Bars)
      /\ Len(trail) = Len(book) /\ Len(seen) = Len(book) /\ Len(book) \in Nat
  BY <1>1 DEF OrderTypes, HistoryTypes
<1>4. new \in Seq(Shapes) /\ Len(new) \in Nat /\ DOMAIN new = 1 .. Len(new)
  <2>1. \A c \in Scenarios : c.orders \subseteq Seq(Shapes)
    BY BacktestAssumption
  <2>2. new \in Seq(Shapes)
    BY <1>1, <1>2, <2>1 DEF OrderTypes
  <2> QED BY <2>2
<1>5. PICK n \in Nat : n = Len(book)
  BY <1>3
<1>6. PICK m \in Nat : m = Len(new)
  BY <1>4
<1>7. /\ \A i \in 1 .. n : book'[i] = book[i]
      /\ \A i \in (n + 1) .. (n + m) : book'[i].at = bar
  <2>1. PICK add : add = [k \in 1 .. m |-> Submitted(new[k])]
    OBVIOUS
  <2>2. \A k \in 1 .. m : Submitted(new[k]) \in Orders /\ Submitted(new[k]).at = bar
    <3>1. bar \in Nat
      BY DEF Inv, Life, OnBar
    <3>2. \A k \in 1 .. m : new[k] \in Shapes
      BY <1>4, <1>6
    <3> QED BY <3>1, <3>2, SubmittedType
  <2>3. add \in Seq(Orders) /\ Len(add) = m /\ book' = book \o add
    <3>1. \A k \in 1 .. m : add[k] \in Orders
      BY <2>1, <2>2
    <3>2. add = [k \in 1 .. m |-> add[k]]
      BY <2>1
    <3>3. add \in Seq(Orders) /\ Len(add) = m
      BY <3>1, <3>2
    <3>4. DOMAIN new = 1 .. m
      BY <1>4, <1>6
    <3>5. book' = book \o add
      BY <1>2, <2>1, <3>4
    <3> QED BY <3>3, <3>5
  <2>4. \A i \in (n + 1) .. (n + m) : i - n \in 1 .. m
    BY <1>5, <1>6
  <2>5. \A i \in (n + 1) .. (n + m) : add[i - n].at = bar
    BY <2>1, <2>2, <2>4
  <2>7. /\ \A i \in 1 .. Len(book) : (book \o add)[i] = book[i]
        /\ \A i \in (Len(book) + 1) .. (Len(book) + Len(add)) : (book \o add)[i] = add[i - Len(book)]
    BY <1>3, <2>3, Concat, Zenon
  <2> QED BY <1>5, <2>3, <2>5, <2>7
<1>8. /\ \A i \in 1 .. n : trail'[i] = trail[i]
      /\ \A i \in (n + 1) .. (n + m) : trail'[i] = NoMark
  <2>1. PICK add : add = [k \in 1 .. m |-> NoMark]
    OBVIOUS
  <2>2. add \in Seq(Nat \cup {NoMark}) /\ Len(add) = m /\ trail' = trail \o add
    BY <1>2, <1>4, <1>6, <2>1
  <2>3. \A i \in (n + 1) .. (n + m) : add[i - n] = NoMark
    BY <1>5, <1>6, <2>1
  <2>4. /\ \A i \in 1 .. Len(trail) : (trail \o add)[i] = trail[i]
        /\ \A i \in (Len(trail) + 1) .. (Len(trail) + Len(add)) : (trail \o add)[i] = add[i - Len(trail)]
    BY <1>3, <2>2, Concat, Zenon
  <2> QED BY <1>3, <1>5, <2>2, <2>3, <2>4
<1>9. /\ seen' \in Seq(SUBSET Bars) /\ Len(seen') = n + m
      /\ \A i \in 1 .. n : seen'[i] = seen[i]
      /\ \A i \in (n + 1) .. (n + m) : seen'[i] = {}
  <2>1. PICK S : S = SUBSET Bars
    OBVIOUS
  <2>2. PICK add : add = [k \in 1 .. m |-> {}]
    OBVIOUS
  <2>3. {} \in S /\ seen \in Seq(S)
    BY <1>3, <2>1
  <2>4. add \in Seq(S) /\ Len(add) = m /\ seen' = seen \o add
    BY <1>2, <1>4, <1>6, <2>2, <2>3
  <2>5. \A i \in (n + 1) .. (n + m) : add[i - n] = {}
    BY <1>5, <1>6, <2>2
  <2>6. /\ seen \o add \in Seq(S) /\ Len(seen \o add) = Len(seen) + Len(add)
        /\ \A i \in 1 .. Len(seen) : (seen \o add)[i] = seen[i]
        /\ \A i \in (Len(seen) + 1) .. (Len(seen) + Len(add)) : (seen \o add)[i] = add[i - Len(seen)]
    BY <2>3, <2>4, Concat, Zenon
  <2> QED BY <1>3, <1>5, <2>1, <2>4, <2>5, <2>6
<1>10. /\ Waiting = pending /\ Waiting' = pending' /\ pending \subseteq 1 .. n
       /\ \A i \in pending' : i \in pending \/ i \in (n + 1) .. (n + m)
       /\ Len(book') = n + m
  <2>1. Waiting = pending /\ Waiting' = pending'
    BY <1>1 DEF Waiting
  <2>2. pending \subseteq 1 .. n
    BY <1>1, <1>3, <1>5, <2>1 DEF OrderTypes, Ids
  <2>3. Len(trail') = Len(trail) + m
    <3>1. PICK add : add = [k \in 1 .. m |-> NoMark]
      OBVIOUS
    <3>2. add \in Seq(Nat \cup {NoMark}) /\ Len(add) = m /\ trail' = trail \o add
      BY <1>2, <1>4, <1>6, <3>1
    <3>3. Len(trail \o add) = Len(trail) + Len(add)
      BY <1>3, <3>2, Concat, Zenon
    <3> QED BY <3>2, <3>3
  <2> QED BY <1>2, <1>3, <1>5, <1>6, <2>1, <2>2, <2>3 DEF OrderTypes
<1>11. HistoryTypes'
  BY <1>9, <1>10 DEF HistoryTypes
<1>12. \A i \in Waiting' : book'[i].type = "trail" => IsMark(book'[i].side, seen'[i], trail'[i])
  <2> SUFFICES ASSUME NEW i \in pending', book'[i].type = "trail"
               PROVE  IsMark(book'[i].side, seen'[i], trail'[i])
    BY <1>10
  <2>1. CASE i \in pending
    <3>1. i \in 1 .. n /\ i \in Waiting
      BY <1>10, <2>1
    <3>2. book[i].type = "trail" => IsMark(book[i].side, seen[i], trail[i])
      BY <3>1 DEF StopInv, StopsFollowTheMarket
    <3> QED BY <1>7, <1>8, <1>9, <3>1, <3>2
  <2>2. CASE i \in (n + 1) .. (n + m)
    BY <1>8, <1>9, <2>2 DEF IsMark
  <2> QED BY <1>10, <2>1, <2>2
<1>13. \A i \in pending' :
         book'[i].type \in {"stop", "trail"} /\ book'[i].at < bar' /\ market'[book'[i].sym] # NoBar =>
           \/ ~Breached(book'[i], market'[book'[i].sym], trail'[i])
           \/ sc'.cap /\ market'[book'[i].sym].vol = 0
           \/ \E k \in DOMAIN fills' : fills'[k].id = i /\ fills'[k].bar = bar'
  <2> SUFFICES ASSUME NEW i \in pending', book'[i].type \in {"stop", "trail"}, book'[i].at < bar,
                      market[book'[i].sym] # NoBar
               PROVE  \/ ~Breached(book'[i], market[book'[i].sym], trail'[i])
                      \/ sc.cap /\ market[book'[i].sym].vol = 0
                      \/ \E k \in DOMAIN fills : fills[k].id = i /\ fills[k].bar = bar
    BY <1>1
  <2>1. CASE i \in pending
    <3>1. i \in 1 .. n /\ book'[i] = book[i] /\ trail'[i] = trail[i]
      BY <1>7, <1>8, <1>10, <2>1
    <3> QED BY <2>1, <3>1 DEF StopInv, StopsFollowTheMarket
  <2>2. CASE i \in (n + 1) .. (n + m)
    <3>1. book'[i].at = bar /\ bar \in Int
      BY <1>1, <1>7, <2>2 DEF OrderTypes
    <3> QED BY <3>1
  <2> QED BY <1>10, <2>1, <2>2
<1> QED BY <1>11, <1>12, <1>13 DEF StopInv, StopsFollowTheMarket

LEMMA StopsAlways == Spec => []StopInv
PROOF
<1>1. Init => StopInv
  BY DEF Init, StopInv, HistoryTypes, StopsFollowTheMarket, Waiting
<1>2. Inv /\ Inv' /\ StopInv /\ [Next]_vars => StopInv'
  <2> SUFFICES ASSUME Inv, Inv', StopInv, [Next]_vars PROVE StopInv'
    OBVIOUS
  <2>1. CASE UNCHANGED vars
    BY <2>1 DEF StopInv, HistoryTypes, StopsFollowTheMarket, Waiting, vars, orders, account
  <2>2. OrderTypes'
    BY DEF Inv
  <2> QED BY <2>1, <2>2, StopsAtOpenBar, StopsAtFillNext, StopsAtOnBar DEF Next
<1> QED BY <1>1, <1>2, InvAlways, PTL DEF Spec

\* A resting stop keeps the best price of every bar it was tried on, through partial
\* fills and bars without volume or trade, and it rests on a breached bar only for
\* want of volume (fills.try_fill_stop_order, engine.run_backtest phase 2c).
THEOREM StopsFollow == Spec => []StopsFollowTheMarket
PROOF
<1>1. StopInv => StopsFollowTheMarket
  BY DEF StopInv
<1> QED BY <1>1, StopsAlways, PTL

===============================================================================
