------------------------- MODULE BacktestAccountProofs -------------------------
(***************************************************************************)
(* What a backtest adds up to, for any symbols, prices, scenarios and      *)
(* length of the timeline: the quantities of an order, the money of the    *)
(* account, and the round trips that the analytics cut out of its fills.   *)
(***************************************************************************)
EXTENDS BacktestProofs, ListLemmas

(***************************************************************************)
(* Sums over the symbols.                                                  *)
(***************************************************************************)
\* SetToSeq lists every element once.
LEMMA ListingAll ==
  ASSUME NEW S, IsFiniteSet(S)
  PROVE  LET ord == SetToSeq(S) IN
         /\ ord \in Seq(S)
         /\ \A i, j \in DOMAIN ord : ord[i] = ord[j] => i = j
         /\ \A x \in S : \E i \in DOMAIN ord : ord[i] = x
PROOF
<1>1. Cardinality(S) \in Nat /\ ExistsBijection(1 .. Cardinality(S), S)
  BY FS_CardinalityType
<1>2. \E f \in [1 .. Cardinality(S) -> S] : IsInjective(f)
  BY <1>1 DEF ExistsBijection, Bijection, Injection, IsInjective
<1>3. PICK ord : ord = SetToSeq(S)
  OBVIOUS
<1>4. ord \in [1 .. Cardinality(S) -> S] /\ IsInjective(ord)
  BY <1>2, <1>3 DEF SetToSeq
<1>5. ord \in Injection(1 .. Cardinality(S), S)
  BY <1>4 DEF Injection
<1>6. Cardinality(1 .. Cardinality(S)) = Cardinality(S)
  BY <1>1, FS_Interval
<1>7. ord \in Surjection(1 .. Cardinality(S), S)
  BY <1>5, <1>6, FS_Injection
<1>8. \A x \in S : \E i \in DOMAIN ord : ord[i] = x
  BY <1>7 DEF Surjection
<1>9. ord \in Seq(S)
  BY <1>1, <1>4
<1> QED BY <1>3, <1>4, <1>8, <1>9 DEF IsInjective

\* The sum over the symbols of a function of them.
Listed(v) == [i \in DOMAIN SetToSeq(Symbols) |-> v[SetToSeq(Symbols)[i]]]
SumOf(v) == Total(Listed(v))

LEMMA ListedType ==
  ASSUME NEW v \in [Symbols -> Int]
  PROVE  /\ Listed(v) \in Seq(Int) /\ Len(Listed(v)) = Len(SetToSeq(Symbols))
         /\ \A i \in 1 .. Len(Listed(v)) : Listed(v)[i] = v[SetToSeq(Symbols)[i]]
PROOF
<1>1. PICK ord : ord = SetToSeq(Symbols)
  OBVIOUS
<1>2. ord \in Seq(Symbols)
  BY <1>1, Listing, BacktestAssumption
<1>3. DOMAIN ord = 1 .. Len(ord) /\ Len(ord) \in Nat /\ \A i \in 1 .. Len(ord) : ord[i] \in Symbols
  BY <1>2
<1>4. Listed(v) = [i \in 1 .. Len(ord) |-> v[ord[i]]]
  BY <1>1, <1>3 DEF Listed
<1> QED BY <1>1, <1>3, <1>4

LEMMA SumOfType == ASSUME NEW v \in [Symbols -> Int] PROVE SumOf(v) \in Int
BY ListedType, TotalType DEF SumOf

LEMMA SumOfAdds ==
  ASSUME NEW u \in [Symbols -> Int], NEW v \in [Symbols -> Int], NEW w \in [Symbols -> Int],
         \A s \in Symbols : w[s] = u[s] + v[s]
  PROVE  SumOf(w) = SumOf(u) + SumOf(v)
PROOF
<1>1. PICK ord : ord = SetToSeq(Symbols)
  OBVIOUS
<1>2. ord \in Seq(Symbols)
  BY <1>1, Listing, BacktestAssumption
<1>3. \A i \in 1 .. Len(ord) : ord[i] \in Symbols
  BY <1>2
<1>4. PICK a, b, c : a = Listed(u) /\ b = Listed(v) /\ c = Listed(w)
  OBVIOUS
<1>5. /\ a \in Seq(Int) /\ b \in Seq(Int) /\ c \in Seq(Int)
      /\ Len(a) = Len(ord) /\ Len(b) = Len(ord) /\ Len(c) = Len(ord)
      /\ \A i \in 1 .. Len(ord) : a[i] = u[ord[i]] /\ b[i] = v[ord[i]] /\ c[i] = w[ord[i]]
  BY <1>1, <1>4, ListedType
<1>6. \A i \in 1 .. Len(ord) : c[i] = a[i] + b[i]
  BY <1>3, <1>5
<1>7. Total(c) = Total(a) + Total(b)
  BY <1>5, <1>6, TotalAdds
<1> QED BY <1>4, <1>7 DEF SumOf

\* Two functions that differ at one symbol.
LEMMA SumOfDiffers ==
  ASSUME NEW u \in [Symbols -> Int], NEW v \in [Symbols -> Int], NEW x \in Symbols,
         \A s \in Symbols : s # x => v[s] = u[s]
  PROVE  SumOf(v) = SumOf(u) + (v[x] - u[x])
PROOF
<1>1. PICK ord : ord = SetToSeq(Symbols)
  OBVIOUS
<1>2. /\ ord \in Seq(Symbols)
      /\ \A i, j \in DOMAIN ord : ord[i] = ord[j] => i = j
      /\ \A s \in Symbols : \E i \in DOMAIN ord : ord[i] = s
  BY <1>1, ListingAll, BacktestAssumption
<1>3. DOMAIN ord = 1 .. Len(ord) /\ \A i \in 1 .. Len(ord) : ord[i] \in Symbols
  BY <1>2
<1>4. PICK a, b : a = Listed(u) /\ b = Listed(v)
  OBVIOUS
<1>5. /\ a \in Seq(Int) /\ b \in Seq(Int) /\ Len(a) = Len(ord) /\ Len(b) = Len(ord)
      /\ \A i \in 1 .. Len(ord) : a[i] = u[ord[i]] /\ b[i] = v[ord[i]]
  BY <1>1, <1>4, ListedType
<1>6. PICK j \in 1 .. Len(ord) : ord[j] = x
  BY <1>2, <1>3
<1>7. \A i \in 1 .. Len(a) : i # j => b[i] = a[i]
  <2>1. SUFFICES ASSUME NEW i \in 1 .. Len(ord), i # j PROVE b[i] = a[i]
    BY <1>5
  <2>2. ord[i] \in Symbols /\ ord[i] # x
    BY <1>2, <1>3, <1>6, <2>1
  <2> QED BY <1>5, <2>2
<1>8. Total(b) = Total(a) + (b[j] - a[j])
  BY <1>5, <1>6, <1>7, TotalDiffers
<1>9. a[j] = u[x] /\ b[j] = v[x]
  BY <1>5, <1>6
<1> QED BY <1>4, <1>8, <1>9 DEF SumOf

LEMMA SumOfMonotonic ==
  ASSUME NEW u \in [Symbols -> Int], NEW v \in [Symbols -> Int],
         \A s \in Symbols : u[s] <= v[s]
  PROVE  SumOf(u) <= SumOf(v)
PROOF
<1>1. PICK ord : ord = SetToSeq(Symbols)
  OBVIOUS
<1>2. ord \in Seq(Symbols)
  BY <1>1, Listing, BacktestAssumption
<1>3. \A i \in 1 .. Len(ord) : ord[i] \in Symbols
  BY <1>2
<1>4. PICK a, b : a = Listed(u) /\ b = Listed(v)
  OBVIOUS
<1>5. /\ a \in Seq(Int) /\ b \in Seq(Int) /\ Len(a) = Len(ord) /\ Len(b) = Len(ord)
      /\ \A i \in 1 .. Len(ord) : a[i] = u[ord[i]] /\ b[i] = v[ord[i]]
  BY <1>1, <1>4, ListedType
<1>6. Total(a) <= Total(b)
  BY <1>3, <1>5, TotalMonotonic
<1> QED BY <1>4, <1>6 DEF SumOf

LEMMA SumOfNothing ==
  ASSUME NEW v \in [Symbols -> Int], \A s \in Symbols : v[s] = 0
  PROVE  SumOf(v) = 0
PROOF
<1>1. SumOf(v) = SumOf(v) + SumOf(v)
  BY SumOfAdds
<1> QED BY <1>1, SumOfType

(***************************************************************************)
(* Money is an integer, and the types are complete.                        *)
(***************************************************************************)
LEMMA ValueType ==
  ASSUME marks \in [Symbols -> Nat \cup {NoMark}], NEW s \in Symbols, NEW qty \in Int
  PROVE  /\ ValueAt(s, qty) \in Int
         /\ qty >= 0 => ValueAt(s, qty) >= 0
PROOF
<1>1. Mult[s] \in Nat \ {0} /\ NoMark \notin Nat
  BY BacktestAssumption
<1>2. CASE marks[s] = NoMark
  BY <1>2 DEF ValueAt
<1>3. CASE marks[s] # NoMark
  <2>1. marks[s] \in Nat
    BY <1>3
  <2>2. qty * marks[s] \in Int /\ (qty >= 0 => qty * marks[s] >= 0)
    BY <2>1
  <2>3. PICK x, m : x = qty * marks[s] /\ m = Mult[s]
    OBVIOUS
  <2>4. x * m \in Int /\ (x >= 0 => x * m >= 0)
    <3>1. x \in Int /\ m \in Nat
      BY <1>1, <2>2, <2>3
    <3> QED BY <3>1
  <2> QED BY <2>2, <2>3, <2>4 DEF ValueAt
<1> QED BY <1>2, <1>3

LEMMA PositionsValueIs ==
  ASSUME marks \in [Symbols -> Nat \cup {NoMark}], pos \in [Symbols -> Positions]
  PROVE  PositionsValue \in Int
PROOF
<1> DEFINE v == [s \in Symbols |-> ValueAt(s, pos[s].qty)]
<1>1. \A s \in Symbols : pos[s].qty \in Int
  BY DEF Positions
<1>2. v \in [Symbols -> Int]
  BY <1>1, ValueType
<1>3. PositionsValue = SumOf(v)
  <2>1. PICK ord : ord = SetToSeq(Symbols)
    OBVIOUS
  <2>2. \A i \in DOMAIN ord : ord[i] \in Symbols
    <3>1. ord \in Seq(Symbols)
      BY <2>1, Listing, BacktestAssumption
    <3> QED BY <3>1
  <2>3. \A i \in DOMAIN ord : v[ord[i]] = ValueAt(ord[i], pos[ord[i]].qty)
    BY <2>2
  <2>4. PositionsValue = Total([i \in DOMAIN ord |-> ValueAt(ord[i], pos[ord[i]].qty)])
    BY <2>1 DEF PositionsValue, SumSymbols, SumOver
  <2> HIDE DEF v
  <2>5. [i \in DOMAIN ord |-> ValueAt(ord[i], pos[ord[i]].qty)] = [i \in DOMAIN ord |-> v[ord[i]]]
    BY <2>3
  <2> QED BY <2>1, <2>4, <2>5 DEF SumOf, Listed
<1> QED BY <1>2, <1>3, SumOfType

\* The options that settle on this bar, and what each brings in.
DueNow(now) == {s \in Options : pos[s].qty # 0 /\ s \notin settled /\ now >= Expiry[s]}
Gains(mk, now) ==
  [s \in Symbols |-> IF s \in DueNow(now) THEN pos[s].qty * SettlePrice(s, mk) * Mult[s] ELSE 0]

LEMMA SettleCash ==
  ASSUME AccountTypes, NEW mk, Typed(mk), NEW now \in Nat, Settle(mk, now)
  PROVE  Gains(mk, now) \in [Symbols -> Int] /\ cash' = cash + SumOf(Gains(mk, now))
PROOF
<1> DEFINE G(s) == IF s \in DueNow(now) THEN pos[s].qty * SettlePrice(s, mk) * Mult[s] ELSE 0
           v == [s \in Symbols |-> G(s)]
<1>1. v \in [Symbols -> Int]
  <2>1. SUFFICES ASSUME NEW s \in DueNow(now) PROVE pos[s].qty * SettlePrice(s, mk) * Mult[s] \in Int
    OBVIOUS
  <2>2. s \in Options /\ s \in Symbols /\ Mult[s] \in Nat
    BY BacktestAssumption DEF DueNow
  <2>3. pos[s].qty \in Int /\ SettlePrice(s, mk) \in Int
    BY <2>2, SettlePriceType DEF AccountTypes, Positions
  <2>4. \A x, y \in Int : x * y \in Int
    OBVIOUS
  <2> QED BY <2>2, <2>3, <2>4
<1>2. cash' = cash + SumOf(v)
  <2>1. PICK ord : ord = SetToSeq(Symbols)
    OBVIOUS
  <2>2. \A i \in DOMAIN ord : ord[i] \in Symbols
    <3>1. ord \in Seq(Symbols)
      BY <2>1, Listing, BacktestAssumption
    <3> QED BY <3>1
  <2>3. \A i \in DOMAIN ord : v[ord[i]] = G(ord[i])
    BY <2>2
  <2>4. cash' = cash + Total([i \in DOMAIN ord |-> G(ord[i])])
    BY <2>1 DEF Settle, SumSymbols, SumOver, DueNow
  <2> HIDE DEF v, G
  <2>5. [i \in DOMAIN ord |-> G(ord[i])] = [i \in DOMAIN ord |-> v[ord[i]]]
    BY <2>3
  <2> QED BY <2>1, <2>4, <2>5 DEF SumOf, Listed
<1>3. v = Gains(mk, now)
  BY DEF Gains
<1> QED BY <1>1, <1>2, <1>3

\* What a booked fill is made of.
LEMMA Booked ==
  ASSUME Inv, NEW i \in todo, Fill(i)
  PROVE  LET o == book[i]
             f == FillNow(i)
         IN /\ i \in Ids /\ i \in Nat \ {0} /\ o \in Orders /\ o.sym \in Symbols /\ o.side \in {Buy, Sell}
            /\ f.qty \in Nat \ {0} /\ f.qty <= left[i] /\ left[i] \in Nat /\ left[i] <= o.qty
            /\ f.price \in Int /\ f.fee \in Int
            /\ Signed(o.side, f.qty) \in Int /\ Signed(o.side, f.qty) # 0
            /\ Mult[o.sym] \in Nat \ {0} /\ bar \in Int
            /\ fills \in Seq(Fills) /\ pos \in [Symbols -> Positions]
PROOF
<1>1. OrderTypes /\ AccountTypes /\ i \in Waiting
  BY DEF Inv, Waiting
<1>2. i \in Ids /\ left[i] \in 1 .. book[i].qty /\ bar \in Int /\ book \in Seq(Orders)
  BY <1>1 DEF OrderTypes
<1>3. book[i] \in Orders /\ i \in Nat \ {0}
  BY <1>2 DEF Ids
<1>4. book[i].sym \in Symbols /\ book[i].side \in {Buy, Sell} /\ book[i].qty \in Nat
  BY <1>3 DEF Orders
<1>5. FillNow(i) \in FillTypes /\ FillNow(i).qty <= left[i] /\ FillNow(i).qty # 0
  BY <1>1, FillNowType DEF Fill
<1>6. /\ FillNow(i).qty \in Nat \ {0} /\ FillNow(i).price \in Int /\ FillNow(i).fee \in Int
  BY <1>5 DEF FillTypes
<1>7. Mult[book[i].sym] \in Nat \ {0}
  BY <1>4, BacktestAssumption
<1>8. Signed(book[i].side, FillNow(i).qty) \in Int /\ Signed(book[i].side, FillNow(i).qty) # 0
  BY <1>6 DEF Signed
<1> QED BY <1>1, <1>2, <1>3, <1>4, <1>5, <1>6, <1>7, <1>8 DEF AccountTypes

Money == cash \in Int /\ equity \in Int

LEMMA MoneyStep == Inv /\ Inv' /\ Money /\ [Next]_vars => Money'
PROOF
<1> SUFFICES ASSUME Inv, Inv', Money, [Next]_vars PROVE Money'
  OBVIOUS
<1>1. CASE OpenBar
  <2>1. OrderTypes' /\ Typed(marks') /\ bar + 1 \in Nat
    BY <1>1, OpenBarOrders DEF Inv
  <2>2. PICK mk, now : mk = marks' /\ now = bar + 1
    OBVIOUS
  <2>3. Settle(mk, now) /\ Typed(mk) /\ now \in Nat /\ equity' = equity
    BY <1>1, <2>1, <2>2 DEF OpenBar
  <2>4. Gains(mk, now) \in [Symbols -> Int] /\ cash' = cash + SumOf(Gains(mk, now))
    BY <2>3, SettleCash DEF Inv
  <2> QED BY <2>3, <2>4, SumOfType DEF Money
<1>2. CASE FillNext
  <2>1. PICK i \in todo : Rest(i) \/ Reject(i) \/ Fill(i)
    BY <1>2 DEF FillNext
  <2>2. equity' = equity
    BY <1>2 DEF FillNext
  <2>3. CASE Rest(i) \/ Reject(i)
    BY <2>2, <2>3 DEF Rest, Reject, account, Money
  <2>4. CASE Fill(i)
    <3>1. PICK q, p, m, f : /\ q = Signed(book[i].side, FillNow(i).qty) /\ p = FillNow(i).price
                            /\ m = Mult[book[i].sym] /\ f = FillNow(i).fee
      OBVIOUS
    <3>2. q \in Int /\ p \in Int /\ m \in Int /\ f \in Int
      BY <2>4, <3>1, Booked
    <3>3. cash' = cash - q * p * m - f
      BY <2>4, <3>1 DEF Fill, CashNow, CashAfter
    <3>4. \A x, y \in Int : x * y \in Int
      OBVIOUS
    <3>5. q * p * m \in Int
      BY <3>2, <3>4
    <3> QED BY <2>2, <3>2, <3>3, <3>5 DEF Money
  <2> QED BY <2>1, <2>3, <2>4
<1>3. CASE OnBar
  <2>1. cash' = cash /\ equity' = cash + PositionsValue
    BY <1>3 DEF OnBar, account
  <2>2. PositionsValue \in Int
    BY PositionsValueIs DEF Inv, OrderTypes, AccountTypes
  <2> QED BY <2>1, <2>2 DEF Money
<1>4. CASE UNCHANGED vars
  BY <1>4 DEF vars, account, Money
<1> QED BY <1>1, <1>2, <1>3, <1>4 DEF Next

\* Types: every order that waits does so once, for a quantity it can still fill
\* (engine.run_backtest).
THEOREM Types == Spec => []TypeOK
PROOF
<1>1. Init => Money
  BY BacktestAssumption DEF Init, Money
<1>2. Inv /\ Inv' /\ Money /\ [Next]_vars => Money'
  BY MoneyStep
<1>3. Inv /\ StopInv /\ Money => TypeOK
  BY DEF Inv, StopInv, Money, TypeOK
<1> QED BY <1>1, <1>2, <1>3, InvAlways, StopsAlways, PTL DEF Spec

(***************************************************************************)
(* The quantities of an order.                                             *)
(***************************************************************************)
\* What each fill of the list filled of order i.
Portions(fs, i) == [k \in DOMAIN fs |-> IF fs[k].id = i THEN fs[k].qty ELSE 0]

LEMMA FilledIs == ASSUME NEW i PROVE FilledOf(i) = Total(Portions(fills, i))
BY DEF FilledOf, SumOver, Portions

LEMMA PortionsType ==
  ASSUME NEW fs \in Seq(Fills), NEW i
  PROVE  /\ Portions(fs, i) \in Seq(Int) /\ Len(Portions(fs, i)) = Len(fs)
         /\ \A k \in 1 .. Len(fs) : Portions(fs, i)[k] = IF fs[k].id = i THEN fs[k].qty ELSE 0
PROOF
<1>1. DOMAIN fs = 1 .. Len(fs) /\ Len(fs) \in Nat /\ \A k \in 1 .. Len(fs) : fs[k] \in Fills
  OBVIOUS
<1>2. \A k \in 1 .. Len(fs) : fs[k].qty \in Int
  BY <1>1 DEF Fills
<1>3. Portions(fs, i) = [k \in 1 .. Len(fs) |-> IF fs[k].id = i THEN fs[k].qty ELSE 0]
  BY <1>1 DEF Portions
<1> QED BY <1>1, <1>2, <1>3

\* The three lists of ended orders and the waiting ones have no order in common.
Apart ==
  /\ expired \cap cancelled = {} /\ expired \cap rejected = {} /\ cancelled \cap rejected = {}
  /\ (expired \cup cancelled \cup rejected) \cap Waiting = {}

Ended == expired \cup cancelled \cup rejected

\* What is left and what was filled make up every order, waiting or not; nothing is
\* left of one that was filled whole, something of one that ended otherwise.
Whole ==
  \A i \in Ids :
    /\ FilledOf(i) + left[i] = book[i].qty
    /\ i \notin Waiting /\ i \notin Ended => left[i] = 0
    /\ i \in Ended => left[i] # 0

Quantities == Apart /\ Whole

LEMMA QuantityTypes ==
  ASSUME Inv, NEW i \in Ids
  PROVE  FilledOf(i) \in Int /\ left[i] \in Nat /\ book[i].qty \in Nat /\ i # 0
PROOF
<1>1. /\ fills \in Seq(Fills) /\ left \in Seq(Nat) /\ book \in Seq(Orders) /\ Len(left) = Len(book)
  BY DEF Inv, OrderTypes, AccountTypes
<1>2. book[i] \in Orders /\ left[i] \in Nat /\ i # 0
  BY <1>1 DEF Ids
<1>3. FilledOf(i) \in Int
  BY <1>1, FilledIs, PortionsType, TotalType
<1> QED BY <1>2, <1>3 DEF Orders

LEMMA QuantitiesOpen == ASSUME Inv, Inv', Quantities, OpenBar PROVE Quantities'
PROOF
<1>1. PICK mk, now : mk = marks' /\ now = bar + 1
  OBVIOUS
<1>2. Settle(mk, now) /\ Typed(mk) /\ now \in Nat
  BY <1>1, OpenBarOrders DEF OpenBar, Inv
<1>3. PICK n \in Nat :
        /\ Len(fills) <= n /\ DOMAIN fills' = 1 .. n
        /\ \A k \in DOMAIN fills : fills'[k] = fills[k]
        /\ \A k \in 1 .. n : k \notin DOMAIN fills => fills'[k].id = 0
  BY <1>2, SettleTypes DEF Inv
<1>4. fills \in Seq(Fills) /\ fills' \in Seq(Fills)
  BY DEF Inv, AccountTypes
<1>5. Len(fills') = n /\ DOMAIN fills = 1 .. Len(fills) /\ Len(fills) \in Nat
  BY <1>3, <1>4
<1>6. ASSUME NEW i \in Ids PROVE FilledOf(i)' = FilledOf(i)
  <2>1. PICK a, b : a = Portions(fills, i) /\ b = Portions(fills', i)
    OBVIOUS
  <2>2. /\ a \in Seq(Int) /\ Len(a) = Len(fills)
        /\ \A k \in 1 .. Len(fills) : a[k] = IF fills[k].id = i THEN fills[k].qty ELSE 0
    BY <1>4, <2>1, PortionsType
  <2>3. /\ b \in Seq(Int) /\ Len(b) = n
        /\ \A k \in 1 .. n : b[k] = IF fills'[k].id = i THEN fills'[k].qty ELSE 0
    BY <1>4, <1>5, <2>1, PortionsType, SMTT(30)
  <2>4. i # 0
    BY QuantityTypes
  <2>5. \A k \in 1 .. Len(a) : b[k] = a[k]
    <3>1. \A k \in 1 .. Len(a) : k \in DOMAIN fills /\ k \in 1 .. n
      BY <1>3, <1>5, <2>2
    <3> QED BY <1>3, <1>5, <2>2, <2>3, <3>1
  <2>6. \A k \in (Len(a) + 1) .. Len(b) : b[k] = 0
    <3>1. \A k \in (Len(a) + 1) .. Len(b) : k \in 1 .. n /\ k \notin DOMAIN fills
      BY <1>5, <2>2, <2>3
    <3> QED BY <1>3, <2>3, <2>4, <3>1
  <2>7. Total(b) = Total(a)
    BY <1>3, <2>2, <2>3, <2>5, <2>6, TotalExtends
  <2>8. FilledOf(i)' = Total(Portions(fills', i))
    BY DEF FilledOf, SumOver, Portions
  <2> QED BY <2>1, <2>7, <2>8, FilledIs
<1> DEFINE over == {i \in pending : Due(book[i], bar + 1)}
           gone == (pending \ over) \cap cancels
<1>7. /\ todo = {} /\ Waiting = pending /\ Waiting' = pending \ (over \cup gone)
      /\ expired' = expired \cup over /\ cancelled' = cancelled \cup gone
      /\ UNCHANGED <<book, left, rejected>> /\ Ids' = Ids
  BY DEF OpenBar, Inv, Life, Waiting, Ids
<1>8. over \subseteq Waiting /\ gone \subseteq Waiting /\ over \cap gone = {}
  BY <1>7
<1> HIDE DEF over, gone
<1>9. Apart'
  BY <1>7, <1>8 DEF Quantities, Apart
<1>10. Whole'
  <2> SUFFICES ASSUME NEW i \in Ids
               PROVE  /\ FilledOf(i)' + left[i] = book[i].qty
                      /\ i \notin Waiting' /\ i \notin Ended' => left[i] = 0
                      /\ i \in Ended' => left[i] # 0
    BY <1>7 DEF Whole
  <2>1. i \in Waiting => left[i] # 0
    BY DEF Inv, OrderTypes
  <2> QED BY <1>6, <1>7, <1>8, <2>1 DEF Quantities, Whole, Ended
<1> QED BY <1>9, <1>10 DEF Quantities

LEMMA QuantitiesFill == ASSUME Inv, Inv', Quantities, FillNext PROVE Quantities'
PROOF
<1>1. PICK i \in todo : todo' = todo \ {i} /\ (Rest(i) \/ Reject(i) \/ Fill(i))
  BY DEF FillNext
<1>2. UNCHANGED <<book, expired, cancelled>> /\ Ids' = Ids /\ pending \cap todo = {} /\ i \in Ids
  BY DEF FillNext, Ids, Inv, OrderTypes, Waiting
<1>3. CASE Rest(i)
  <2>1. UNCHANGED <<left, rejected, fills>> /\ pending' = pending \cup {i}
    BY <1>3 DEF Rest, account
  <2>2. Waiting' = Waiting
    BY <1>1, <2>1 DEF Waiting
  <2> QED BY <1>2, <2>1, <2>2 DEF Quantities, Apart, Whole, Ended, FilledOf, SumOver
<1>4. CASE Reject(i)
  <2>1. UNCHANGED <<left, pending, fills>> /\ rejected' = rejected \cup {i}
    BY <1>4 DEF Reject, account
  <2>2. Waiting' = Waiting \ {i} /\ i \in Waiting /\ left[i] # 0
    BY <1>1, <1>2, <2>1 DEF Waiting, Inv, OrderTypes
  <2>3. \A j \in Ids : FilledOf(j)' = FilledOf(j)
    BY <2>1 DEF FilledOf, SumOver
  <2>4. Apart'
    BY <1>2, <2>1, <2>2 DEF Quantities, Apart
  <2>5. Whole'
    BY <1>2, <2>1, <2>2, <2>3 DEF Quantities, Whole, Ended
  <2> QED BY <2>4, <2>5 DEF Quantities
<1>5. CASE Fill(i)
  <2>1. PICK q, new :
          /\ q = FillNow(i).qty /\ new.id = i /\ new.qty = q
          /\ fills' = Append(fills, new) /\ left' = [left EXCEPT ![i] = @ - q]
          /\ pending' = (IF q < left[i] THEN pending \cup {i} ELSE pending) /\ rejected' = rejected
    BY <1>5 DEF Fill, Unfinished
  <2>2. q \in Nat \ {0} /\ q <= left[i] /\ left[i] \in Nat /\ fills \in Seq(Fills)
    BY <1>5, <2>1, Booked
  <2>3. left \in Seq(Nat) /\ Len(left) = Len(book) /\ fills' \in Seq(Fills)
    BY DEF Inv, OrderTypes, AccountTypes
  <2>4. ASSUME NEW j \in Ids PROVE FilledOf(j)' = FilledOf(j) + (IF j = i THEN q ELSE 0)
    <3>1. PICK a, b, x : /\ a = Portions(fills, j) /\ b = Portions(fills', j)
                         /\ x = IF j = i THEN q ELSE 0
      OBVIOUS
    <3>2. /\ a \in Seq(Int) /\ Len(a) = Len(fills)
          /\ \A k \in 1 .. Len(fills) : a[k] = IF fills[k].id = j THEN fills[k].qty ELSE 0
      BY <2>2, <3>1, PortionsType
    <3>3. /\ b \in Seq(Int) /\ Len(b) = Len(fills')
          /\ \A k \in 1 .. Len(fills') : b[k] = IF fills'[k].id = j THEN fills'[k].qty ELSE 0
      BY <2>3, <3>1, PortionsType, SMTT(30)
    <3>4. /\ Len(fills') = Len(fills) + 1 /\ Len(fills) \in Nat
          /\ \A k \in 1 .. Len(fills) : fills'[k] = fills[k]
          /\ fills'[Len(fills) + 1] = new
      BY <2>1, <2>2
    <3>5. b = Append(a, x)
      <4>1. Append(a, x) \in Seq(Int) /\ Len(Append(a, x)) = Len(fills) + 1
        BY <2>2, <3>1, <3>2
      <4>2. b[Len(fills) + 1] = x
        BY <2>1, <3>1, <3>3, <3>4
      <4>3. \A k \in 1 .. Len(fills) : b[k] = a[k] /\ Append(a, x)[k] = a[k]
        <5>1. \A k \in 1 .. Len(fills) : Append(a, x)[k] = a[k]
          BY <3>2
        <5>2. \A k \in 1 .. Len(fills) : k \in 1 .. Len(fills')
          BY <3>4
        <5> QED BY <3>2, <3>3, <3>4, <5>1, <5>2
      <4>4. Append(a, x)[Len(fills) + 1] = x
        BY <3>2
      <4>5. \A k \in 1 .. Len(fills) + 1 : b[k] = Append(a, x)[k]
        <5>1. \A k \in 1 .. Len(fills) + 1 : k \in 1 .. Len(fills) \/ k = Len(fills) + 1
          BY <3>4
        <5> QED BY <4>2, <4>3, <4>4, <5>1
      <4> QED BY <3>3, <3>4, <4>1, <4>5, SeqEqual
    <3>6. Total(b) = Total(a) + x
      <4>1. x \in Int
        BY <2>2, <3>1
      <4> QED BY <3>2, <3>5, <4>1, TotalAppend
    <3>7. FilledOf(j)' = Total(Portions(fills', j))
      BY DEF FilledOf, SumOver, Portions
    <3> QED BY <3>1, <3>6, <3>7, FilledIs
  <2>5. /\ i \in Waiting /\ (q < left[i] => Waiting' = Waiting)
        /\ (~(q < left[i]) => Waiting' = Waiting \ {i})
    BY <1>1, <1>2, <2>1 DEF Waiting
  <2>6. left'[i] = left[i] - q /\ \A j \in Ids : j # i => left'[j] = left[j]
    BY <1>2, <2>1, <2>3 DEF Ids
  <2>7. Apart'
    BY <1>2, <2>1, <2>5 DEF Quantities, Apart
  <2>8. Whole'
    <3> SUFFICES ASSUME NEW j \in Ids
                 PROVE  /\ FilledOf(j)' + left'[j] = book[j].qty
                        /\ j \notin Waiting' /\ j \notin Ended' => left'[j] = 0
                        /\ j \in Ended' => left'[j] # 0
      BY <1>2 DEF Whole
    <3>1. FilledOf(j) \in Int /\ left[j] \in Nat /\ book[j].qty \in Nat
      BY QuantityTypes
    <3>2. Ended' = Ended /\ i \notin Ended
      BY <1>2, <2>1, <2>5 DEF Ended, Quantities, Apart
    <3>3. /\ FilledOf(j) + left[j] = book[j].qty
          /\ j \notin Waiting /\ j \notin Ended => left[j] = 0
          /\ j \in Ended => left[j] # 0
      BY DEF Quantities, Whole
    <3>4. CASE j = i
      BY <2>2, <2>4, <2>5, <2>6, <3>1, <3>2, <3>3, <3>4
    <3>5. CASE j # i
      BY <2>4, <2>5, <2>6, <3>1, <3>2, <3>3, <3>5
    <3> QED BY <3>4, <3>5
  <2> QED BY <2>7, <2>8 DEF Quantities
<1> QED BY <1>1, <1>3, <1>4, <1>5

\* What the strategy adds to the book.
LEMMA BookGrows ==
  ASSUME Inv, OnBar
  PROVE  \E n, m \in Nat :
           /\ Ids = 1 .. n /\ Ids' = 1 .. (n + m) /\ Waiting = pending /\ Waiting \subseteq 1 .. n
           /\ Waiting' = pending \cup ((n + 1) .. (n + m))
           /\ \A i \in 1 .. n : book'[i].qty = book[i].qty /\ left'[i] = left[i]
           /\ \A i \in (n + 1) .. (n + m) : left'[i] = book'[i].qty
PROOF
<1>1. /\ OrderTypes /\ book \in Seq(Orders) /\ left \in Seq(Nat) /\ Len(left) = Len(book)
      /\ todo = {} /\ todo' = {}
  BY DEF Inv, OrderTypes, OnBar
<1>2. PICK new \in sc.orders :
        /\ book' = book \o [k \in DOMAIN new |-> Submitted(new[k])]
        /\ left' = left \o [k \in DOMAIN new |-> new[k].qty]
        /\ pending' = pending \cup ((Len(book) + 1) .. (Len(book) + Len(new)))
  BY DEF OnBar
<1>3. new \in Seq(Shapes)
  <2>1. \A c \in Scenarios : c.orders \subseteq Seq(Shapes)
    BY BacktestAssumption
  <2> QED BY <1>1, <1>2, <2>1 DEF OrderTypes
<1>n. PICK n, m : n = Len(book) /\ m = Len(new) /\ n \in Nat /\ m \in Nat
  <2>1. Len(book) \in Nat /\ Len(new) \in Nat
    BY <1>1, <1>3
  <2> QED BY <2>1
<1>a. PICK a : a = [k \in DOMAIN new |-> Submitted(new[k])]
  OBVIOUS
<1>b. PICK b : b = [k \in DOMAIN new |-> new[k].qty]
  OBVIOUS
<1>4. /\ n = Len(book) /\ m = Len(new) /\ n \in Nat /\ m \in Nat
      /\ a = [k \in DOMAIN new |-> Submitted(new[k])]
      /\ b = [k \in DOMAIN new |-> new[k].qty]
  BY <1>n, <1>a, <1>b
<1>5. bar \in Nat
  BY DEF OnBar, Inv, Life
<1>6. \A k \in 1 .. m : /\ new[k] \in Shapes /\ Submitted(new[k]) \in Orders
                        /\ Submitted(new[k]).qty = new[k].qty /\ new[k].qty \in Nat
  <2>1. \A shape \in Shapes : shape.qty \in Nat
    BY DEF Shapes
  <2>2. \A k \in 1 .. m : new[k] \in Shapes
    BY <1>3, <1>4
  <2> QED BY <1>5, <2>1, <2>2, SubmittedType
<1>7. /\ a \in Seq(Orders) /\ Len(a) = m /\ b \in Seq(Nat) /\ Len(b) = m
      /\ \A k \in 1 .. m : b[k] = a[k].qty
  <2>1. DOMAIN new = 1 .. m
    BY <1>3, <1>4
  <2> QED BY <1>4, <1>6, <2>1
<1>8. /\ book \o a \in Seq(Orders) /\ Len(book \o a) = n + m
      /\ \A i \in 1 .. n : (book \o a)[i] = book[i]
      /\ \A i \in (n + 1) .. (n + m) : (book \o a)[i] = a[i - n]
  <2>1. /\ book \o a \in Seq(Orders) /\ Len(book \o a) = Len(book) + Len(a)
        /\ \A i \in 1 .. Len(book) : (book \o a)[i] = book[i]
        /\ \A i \in (Len(book) + 1) .. (Len(book) + Len(a)) : (book \o a)[i] = a[i - Len(book)]
    BY <1>1, <1>7, Concat, Zenon
  <2> QED BY <1>1, <1>4, <1>7, <2>1
<1>9. /\ \A i \in 1 .. n : (left \o b)[i] = left[i]
      /\ \A i \in (n + 1) .. (n + m) : (left \o b)[i] = b[i - n]
  <2>1. /\ \A i \in 1 .. Len(left) : (left \o b)[i] = left[i]
        /\ \A i \in (Len(left) + 1) .. (Len(left) + Len(b)) : (left \o b)[i] = b[i - Len(left)]
    BY <1>1, <1>7, Concat, Zenon
  <2> QED BY <1>1, <1>4, <1>7, <2>1
<1>10. book' = book \o a /\ left' = left \o b
  BY <1>2, <1>4
<1>11. \A i \in (n + 1) .. (n + m) : i - n \in 1 .. m
  BY <1>4
<1>12. /\ \A i \in 1 .. n : book'[i].qty = book[i].qty /\ left'[i] = left[i]
       /\ \A i \in (n + 1) .. (n + m) : left'[i] = book'[i].qty
  BY <1>7, <1>8, <1>9, <1>10, <1>11
<1>13. Ids = 1 .. n /\ Ids' = 1 .. (n + m)
  <2>1. book \in Seq(Orders) /\ book' \in Seq(Orders) /\ Len(book') = n + m
    BY <1>1, <1>8, <1>10
  <2> QED BY <1>4, <2>1 DEF Ids
<1>14. Waiting = pending /\ Waiting' = pending' /\ Waiting \subseteq Ids
  BY <1>1 DEF Waiting, OrderTypes
<1> QED BY <1>2, <1>4, <1>12, <1>13, <1>14

LEMMA QuantitiesOnBar == ASSUME Inv, Inv', Quantities, OnBar PROVE Quantities'
PROOF
<1>1. PICK n, m \in Nat :
        /\ Ids = 1 .. n /\ Ids' = 1 .. (n + m) /\ Waiting = pending /\ Waiting \subseteq 1 .. n
        /\ Waiting' = pending \cup ((n + 1) .. (n + m))
        /\ \A i \in 1 .. n : book'[i].qty = book[i].qty /\ left'[i] = left[i]
        /\ \A i \in (n + 1) .. (n + m) : left'[i] = book'[i].qty
  BY BookGrows
<1>2. UNCHANGED <<expired, cancelled, rejected, fills>>
  BY DEF OnBar, account
<1>3. Ended \subseteq 1 .. n /\ Ended' = Ended
  BY <1>1, <1>2 DEF Ended, Inv, OrderTypes
<1>4. \A i \in (n + 1) .. (n + m) : i \notin 1 .. n /\ i \in Nat /\ i # 0
  OBVIOUS
<1>5. Apart'
  BY <1>1, <1>2, <1>3, <1>4 DEF Quantities, Apart, Ended
<1>6. ASSUME NEW i PROVE FilledOf(i)' = FilledOf(i)
  BY <1>2 DEF FilledOf, SumOver
<1>7. ASSUME NEW i \in (n + 1) .. (n + m) PROVE FilledOf(i) = 0
  <2>1. fills \in Seq(Fills) /\ \A k \in 1 .. Len(fills) : fills[k].id # i
    <3>1. fills \in Seq(Fills)
      BY DEF Inv, AccountTypes
    <3>2. \A k \in 1 .. Len(fills) : fills[k].id \in (1 .. n) \cup {0}
      BY <1>1, <3>1 DEF Inv, FillsKnown
    <3> QED BY <1>4, <1>7, <3>1, <3>2
  <2>2. /\ Portions(fills, i) \in Seq(Int)
        /\ \A k \in 1 .. Len(Portions(fills, i)) : Portions(fills, i)[k] = 0
    BY <2>1, PortionsType
  <2> QED BY <2>2, FilledIs, TotalZeros
<1>8. Whole'
  <2> SUFFICES ASSUME NEW i \in 1 .. (n + m)
               PROVE  /\ FilledOf(i)' + left'[i] = book'[i].qty
                      /\ i \notin Waiting' /\ i \notin Ended' => left'[i] = 0
                      /\ i \in Ended' => left'[i] # 0
    BY <1>1 DEF Whole
  <2>1. CASE i \in 1 .. n
    BY <1>1, <1>3, <1>6, <2>1 DEF Quantities, Whole
  <2>2. CASE i \notin 1 .. n
    <3>1. i \in (n + 1) .. (n + m)
      BY <2>2
    <3>2. left'[i] \in Nat
      BY <1>1, QuantityTypes DEF Inv, OrderTypes, Ids
    <3>3. FilledOf(i)' = 0 /\ i \in Waiting' /\ i \notin Ended'
      BY <1>1, <1>3, <1>4, <1>6, <1>7, <3>1
    <3> QED BY <1>1, <3>1, <3>2, <3>3
  <2> QED BY <2>1, <2>2
<1> QED BY <1>5, <1>8 DEF Quantities

LEMMA QuantitiesStep == Inv /\ Inv' /\ Quantities /\ [Next]_vars => Quantities'
PROOF
<1> SUFFICES ASSUME Inv, Inv', Quantities, [Next]_vars PROVE Quantities'
  OBVIOUS
<1>1. CASE UNCHANGED vars
  BY <1>1 DEF vars, orders, account, Quantities, Apart, Whole, Ended, Waiting, Ids, FilledOf, SumOver
<1> QED BY <1>1, QuantitiesOpen, QuantitiesFill, QuantitiesOnBar DEF Next

\* In how many of the three lists an order is.
LEMMA EndsCounted ==
  ASSUME Apart, NEW i
  PROVE  LET ends == Cardinality({e \in {"expired", "cancelled", "rejected"} : i \in EndedAs(e)})
         IN ends = IF i \in Ended THEN 1 ELSE 0
PROOF
<1> DEFINE E == {e \in {"expired", "cancelled", "rejected"} : i \in EndedAs(e)}
<1>1. /\ "expired" \in E <=> i \in expired
      /\ "cancelled" \in E <=> i \in cancelled
      /\ "rejected" \in E <=> i \in rejected
      /\ E \subseteq {"expired", "cancelled", "rejected"}
  BY DEF EndedAs
<1> HIDE DEF E
<1>2. CASE i \notin Ended
  <2>1. E = {}
    BY <1>1, <1>2 DEF Ended
  <2> QED BY <1>2, <2>1, FS_EmptySet DEF E
<1>3. CASE i \in Ended
  <2>1. E \in {{"expired"}, {"cancelled"}, {"rejected"}}
    BY <1>1, <1>3 DEF Ended, Apart
  <2>2. Cardinality(E) = 1
    BY <2>1, FS_Singleton
  <2> QED BY <1>3, <2>2 DEF E
<1> QED BY <1>2, <1>3

\* No quantity of an order is lost or filled twice (engine.run_backtest, phase 2): an
\* order waits for what is left of it, was filled whole, or ended in one of the three
\* ways with something left.
THEOREM OrdersAccounted == Spec => []OrderAccounted
PROOF
<1>1. Init => Quantities
  BY DEF Init, Quantities, Apart, Whole, Ended, Waiting, Ids
<1>2. Inv /\ Inv' /\ Quantities /\ [Next]_vars => Quantities'
  BY QuantitiesStep
<1>3. Inv /\ Quantities => OrderAccounted
  <2> SUFFICES ASSUME Inv, Quantities, NEW i \in Ids
               PROVE  LET ends == Cardinality({e \in {"expired", "cancelled", "rejected"} : i \in EndedAs(e)})
                          filled == FilledOf(i)
                      IN IF i \in Waiting THEN ends = 0 /\ filled + left[i] = book[i].qty
                         ELSE \/ ends = 0 /\ filled = book[i].qty
                              \/ ends = 1 /\ filled < book[i].qty
    BY DEF OrderAccounted
  <2>1. PICK ends : ends = Cardinality({e \in {"expired", "cancelled", "rejected"} : i \in EndedAs(e)})
    OBVIOUS
  <2>2. ends = IF i \in Ended THEN 1 ELSE 0
    BY <2>1, EndsCounted DEF Quantities
  <2>3. FilledOf(i) \in Int /\ left[i] \in Nat /\ book[i].qty \in Nat
    BY QuantityTypes
  <2>4. /\ FilledOf(i) + left[i] = book[i].qty
        /\ i \notin Waiting /\ i \notin Ended => left[i] = 0
        /\ i \in Ended => left[i] # 0 /\ i \notin Waiting
    BY DEF Quantities, Whole, Apart, Ended
  <2> QED BY <2>1, <2>2, <2>3, <2>4
<1> QED BY <1>1, <1>2, <1>3, InvAlways, PTL DEF Spec

(***************************************************************************)
(* An account that never goes short.                                       *)
(***************************************************************************)
\* A rate between nothing and all takes between nothing and all.
LEMMA PctBounds ==
  ASSUME NEW x \in Nat, NEW r \in 0 .. 100
  PROVE  Pct(x, r) \in Nat /\ Pct(x, r) <= x
PROOF
<1>1. PICK q, m : q = x \div 100 /\ m = x % 100
  OBVIOUS
<1>2. q \in Nat /\ m \in Nat /\ m < 100 /\ x = 100 * q + m
  BY <1>1
<1>3. PICK a, b : a = q * r /\ b = m * r
  OBVIOUS
<1>4. a \in Nat /\ a <= 100 * q
  <2>1. r \in Nat /\ r <= 100
    OBVIOUS
  <2> QED BY <1>2, <1>3, <2>1
<1>5. b \in Nat /\ b <= 100 * m
  <2>1. r \in Nat /\ r <= 100
    OBVIOUS
  <2> QED BY <1>2, <1>3, <2>1
<1>6. b \div 100 \in Nat /\ b \div 100 <= m
  BY <1>2, <1>5
<1>7. Pct(x, r) = a + b \div 100
  BY <1>1, <1>3 DEF Pct
<1> QED BY <1>2, <1>4, <1>6, <1>7

LEMMA PctAll == ASSUME NEW x \in Int PROVE Pct(x, 100) = x
PROOF
<1>1. PICK q, m : q = x \div 100 /\ m = x % 100
  OBVIOUS
<1>2. q \in Int /\ m \in Int /\ x = 100 * q + m
  BY <1>1
<1>3. (m * 100) \div 100 = m
  BY <1>2
<1>4. q * 100 = 100 * q
  BY <1>2
<1> QED BY <1>1, <1>2, <1>3, <1>4 DEF Pct

\* A sale is never at a negative price, and its fee is the one of the price list.
LEMMA FilledIsSale ==
  ASSUME NEW o, NEW rest, NEW b, NEW price, Filled(o, rest, b, price).qty # 0
  PROVE  /\ Filled(o, rest, b, price).price = price
         /\ Filled(o, rest, b, price).fee = FeeFor(o.sym, price, Filled(o, rest, b, price).qty)
BY DEF Filled, NoFill

LEMMA SalePrice ==
  ASSUME sc \in Scenarios, NEW o \in Orders, NEW rest \in Nat, NEW b \in Bars,
         NEW water \in Nat \cup {NoMark}, o.type = "trail" => water \in Nat,
         o.side = Sell, TryFill(o, rest, b, water).qty # 0
  PROVE  LET f == TryFill(o, rest, b, water) IN
         f.price >= 0 /\ f.fee = FeeFor(o.sym, f.price, f.qty)
PROOF
<1>1. b.open \in Nat /\ b.high \in Nat /\ b.low \in Nat /\ o.price \in Nat /\ Sell # Buy
  BY DEF Bars, Orders, Sell, Buy
<1>2. /\ Slip \in 0 .. 100 /\ sc.through \in 0 .. 100 /\ sc.adverse \in 0 .. 100
  <2>1. Slip \in 0 .. 99 /\ \A c \in Scenarios : c.through \in 0 .. 99 /\ c.adverse \in 0 .. 99
    BY BacktestAssumption
  <2> QED BY <2>1
<1>3. ASSUME NEW p \in Nat PROVE Slipped(Sell, p) \in Int /\ Slipped(Sell, p) >= 0
  <2>1. Pct(p, Slip) <= p /\ Pct(p, Slip) \in Nat
    BY <1>2, PctBounds, Zenon
  <2> QED BY <1>1, <2>1 DEF Slipped
<1>4. ASSUME NEW p, p >= 0, TryFill(o, rest, b, water) = Filled(o, rest, b, p)
      PROVE  LET f == TryFill(o, rest, b, water) IN
             f.price >= 0 /\ f.fee = FeeFor(o.sym, f.price, f.qty)
  BY <1>4, FilledIsSale
<1>5. CASE o.type = "market"
  <2>1. TryFill(o, rest, b, water) = Filled(o, rest, b, Slipped(Sell, b.open))
    BY <1>5 DEF TryFill, MarketFill
  <2> QED BY <1>1, <1>3, <1>4, <2>1
<1>6. CASE o.type = "limit"
  <2>1. PICK p : /\ p \in {o.price - Pct(o.price, sc.adverse), Higher(b.open, o.price)}
                 /\ TryFill(o, rest, b, water) \in {Filled(o, rest, b, p), NoFill}
    BY <1>1, <1>6 DEF TryFill, LimitFill
  <2>2. Pct(o.price, sc.adverse) <= o.price /\ Pct(o.price, sc.adverse) \in Nat
    BY <1>1, <1>2, PctBounds, Zenon
  <2>3. p >= 0
    BY <1>1, <2>1, <2>2 DEF Higher
  <2> QED BY <1>4, <2>1, <2>3 DEF NoFill
<1>7. CASE o.type \in {"stop", "trail"}
  <2>1. PICK t : t = Trigger(o, water)
    OBVIOUS
  <2>2. t \in Int
    <3>1. CASE o.type = "stop"
      BY <1>1, <2>1, <3>1 DEF Trigger
    <3>2. CASE o.type = "trail"
      <4>0. water \in Int /\ o.price \in Int
        BY <1>1, <3>2
      <4>1. Pct(water, o.price) \in Int
        BY <4>0, PctType
      <4> QED BY <1>1, <2>1, <3>2, <4>0, <4>1 DEF Trigger
    <3> QED BY <1>7, <3>1, <3>2
  <2>3. TryFill(o, rest, b, water) =
          IF b.low > t THEN NoFill ELSE Filled(o, rest, b, Slipped(Sell, Lower(b.open, t)))
    BY <1>7, <2>1 DEF TryFill, StopFill
  <2>4. ~(b.low > t)
    BY <2>3 DEF NoFill
  <2>5. Lower(b.open, t) \in Nat
    BY <1>1, <2>2, <2>4 DEF Lower
  <2>6. TryFill(o, rest, b, water) = Filled(o, rest, b, Slipped(Sell, Lower(b.open, t)))
    BY <2>3, <2>4
  <2> QED BY <1>3, <1>4, <2>5, <2>6
<1> QED BY <1>5, <1>6, <1>7 DEF Orders

\* The fee of a stock is part of what it costs.
LEMMA FeeBounded ==
  ASSUME NEW s \in Symbols \ Options, NEW price \in Nat, NEW qty \in Nat, NEW mult \in Nat \ {0}
  PROVE  FeeFor(s, price, qty) <= qty * price * mult /\ FeeFor(s, price, qty) \in Int
PROOF
<1>1. PICK x : x = price * qty
  OBVIOUS
<1>2. x \in Nat /\ x = qty * price
  BY <1>1
<1>3. Fee \in 0 .. 100 /\ Fee \in Int
  <2>1. Fee \in 0 .. 99
    BY BacktestAssumption
  <2> QED BY <2>1
<1>4. Pct(x, Fee) <= x /\ Pct(x, Fee) \in Nat
  BY <1>2, <1>3, PctBounds, Zenon
<1>5. x <= x * mult /\ x * mult \in Int
  BY <1>2
<1>6. FeeFor(s, price, qty) = Pct(x, Fee)
  BY <1>1 DEF FeeFor
<1> QED BY <1>2, <1>4, <1>5, <1>6

LongPositions == ~sc.allowShort => \A s \in Symbols : pos[s].qty >= 0

\* Cash is not borrowed where the orders must be paid in full.
CashHeld == ~sc.allowShort /\ sc.margin = 100 => cash >= 0

\* The sales of options booked so far brought in their fee.
SalesCoverFees ==
  \A k \in DOMAIN fills :
    LET f == fills[k] IN
    f.id # 0 /\ f.side = Sell /\ f.sym \in Options => f.fee <= f.qty * f.price * Mult[f.sym]

LEMMA PositionQty ==
  ASSUME AccountTypes, NEW s \in Symbols
  PROVE  pos[s] \in Positions /\ pos[s].qty \in Int
BY DEF AccountTypes, Positions

LEMMA LongPositionsStep == Inv /\ LongPositions /\ [Next]_vars => LongPositions'
PROOF
<1> SUFFICES ASSUME Inv, LongPositions, [Next]_vars, ~sc'.allowShort, NEW s \in Symbols
             PROVE  pos'[s].qty >= 0
  BY DEF LongPositions
<1>1. sc' = sc
  BY DEF Next, OpenBar, FillNext, OnBar, vars
<1>2. pos[s].qty >= 0 /\ pos[s].qty \in Int
  BY <1>1, PositionQty DEF LongPositions, Inv
<1>3. CASE OpenBar
  <2>1. PICK now : Settle(marks', now)
    BY <1>3 DEF OpenBar
  <2>2. \/ pos'[s] = pos[s]
        \/ \E price : pos'[s] = ApplyFill(pos[s], -pos[s].qty, price, 0, Mult[s])
    BY <2>1 DEF Settle
  <2>3. ASSUME NEW price, pos'[s] = ApplyFill(pos[s], -pos[s].qty, price, 0, Mult[s])
        PROVE  pos'[s].qty = pos[s].qty + (-pos[s].qty)
    BY <2>3 DEF ApplyFill
  <2> QED BY <1>2, <2>2, <2>3
<1>4. CASE FillNext
  <2>1. PICK i \in todo : Rest(i) \/ Reject(i) \/ Fill(i)
    BY <1>4 DEF FillNext
  <2>2. CASE Rest(i) \/ Reject(i)
    BY <1>2, <2>2 DEF Rest, Reject, account
  <2>3. CASE Fill(i)
    <3>1. PICK x, q : x = book[i].sym /\ q = Signed(book[i].side, FillNow(i).qty)
      OBVIOUS
    <3>2. x \in Symbols /\ q \in Int /\ pos \in [Symbols -> Positions]
      BY <2>3, <3>1, Booked
    <3>3. pos[x].qty + q >= 0
      BY <1>1, <2>3, <3>1 DEF Fill, Allowed, ShortAllowed
    <3>4. pos'[x].qty = pos[x].qty + q /\ \A t \in Symbols : t # x => pos'[t] = pos[t]
      BY <2>3, <3>1, <3>2 DEF Fill, ApplyFill
    <3> QED BY <1>2, <3>3, <3>4
  <2> QED BY <2>1, <2>2, <2>3
<1>5. CASE OnBar \/ UNCHANGED vars
  BY <1>2, <1>5 DEF OnBar, vars, account
<1> QED BY <1>3, <1>4, <1>5 DEF Next

\* A purchase that was let through is paid for by cash.
LEMMA CoveredPurchase ==
  ASSUME Inv, LongPositions, ~sc.allowShort, sc.margin = 100,
         NEW s \in Symbols, NEW new \in Nat, new > pos[s].qty, NEW money \in Int,
         Covered(s, pos[s].qty, new, money)
  PROVE  money >= 0
PROOF
<1> DEFINE Held(t) == ProjectedQty(s, new, t)
           v == [t \in Symbols |-> ValueAt(t, Held(t))]
<1>1. \A t \in Symbols : Held(t) \in Int /\ Held(t) >= 0
  <2>1. \A t \in Symbols : pos[t].qty \in Int /\ pos[t].qty >= 0
    BY PositionQty DEF LongPositions, Inv
  <2> QED BY <2>1 DEF ProjectedQty
<1>2. marks \in [Symbols -> Nat \cup {NoMark}]
  BY DEF Inv, OrderTypes
<1>3. \A t \in Symbols : ValueAt(t, Held(t)) \in Int /\ ValueAt(t, Held(t)) >= 0
  <2> HIDE DEF Held
  <2> QED BY <1>1, <1>2, ValueType
<1>4. v \in [Symbols -> Int]
  BY <1>3
<1>5. PICK ord : ord = SetToSeq(Symbols)
  OBVIOUS
<1>6. \A i \in DOMAIN ord : ord[i] \in Symbols
  <2>1. ord \in Seq(Symbols)
    BY <1>5, Listing, BacktestAssumption
  <2> QED BY <2>1
<1>7. /\ ProjectedEquity(s, new, money) = money + Total([i \in DOMAIN ord |-> ValueAt(ord[i], Held(ord[i]))])
      /\ ProjectedGross(s, new) = Total([i \in DOMAIN ord |-> Abs(ValueAt(ord[i], Held(ord[i])))])
  BY <1>5 DEF ProjectedEquity, ProjectedGross, SumSymbols, SumOver
<1>8. \A i \in DOMAIN ord : /\ ValueAt(ord[i], Held(ord[i])) = v[ord[i]]
                            /\ Abs(ValueAt(ord[i], Held(ord[i]))) = v[ord[i]]
  BY <1>3, <1>6 DEF Abs
<1> HIDE DEF v, Held
<1>9. /\ ProjectedEquity(s, new, money) = money + SumOf(v)
      /\ ProjectedGross(s, new) = SumOf(v)
  <2>1. /\ [i \in DOMAIN ord |-> ValueAt(ord[i], Held(ord[i]))] = [i \in DOMAIN ord |-> v[ord[i]]]
        /\ [i \in DOMAIN ord |-> Abs(ValueAt(ord[i], Held(ord[i])))] = [i \in DOMAIN ord |-> v[ord[i]]]
    BY <1>8
  <2> QED BY <1>5, <1>7, <2>1 DEF SumOf, Listed
<1>10. SumOf(v) \in Int
  BY <1>4, SumOfType
<1>11. ~(Abs(new) <= Abs(pos[s].qty))
  <2>1. pos[s].qty \in Int /\ pos[s].qty >= 0
    BY PositionQty DEF LongPositions, Inv
  <2> QED BY <2>1 DEF Abs
<1>12. money + SumOf(v) >= Pct(SumOf(v), 100)
  BY <1>9, <1>11 DEF Covered
<1>13. Pct(SumOf(v), 100) = SumOf(v)
  BY <1>10, PctAll
<1> QED BY <1>10, <1>12, <1>13

LEMMA CashHeldStep ==
  Inv /\ Inv' /\ Money /\ LongPositions /\ LongPositions' /\ CashHeld /\ SalesCoverFees' /\ [Next]_vars
    => CashHeld'
PROOF
<1> SUFFICES ASSUME Inv, Inv', Money, LongPositions, LongPositions', CashHeld, SalesCoverFees',
                    [Next]_vars, ~sc'.allowShort, sc'.margin = 100
             PROVE  cash' >= 0
  BY DEF CashHeld
<1>1. sc' = sc
  BY DEF Next, OpenBar, FillNext, OnBar, vars
<1>2. cash >= 0 /\ cash \in Int
  BY <1>1 DEF CashHeld, Money
<1>3. CASE OpenBar
  <2>1. OrderTypes' /\ Typed(marks') /\ bar + 1 \in Nat
    BY <1>3, OpenBarOrders DEF Inv
  <2>2. PICK mk, now : mk = marks' /\ now = bar + 1
    OBVIOUS
  <2>3. Settle(mk, now) /\ Typed(mk) /\ now \in Nat
    BY <1>3, <2>1, <2>2 DEF OpenBar
  <2>4. PICK g : g = Gains(mk, now)
    OBVIOUS
  <2>5. g \in [Symbols -> Int] /\ cash' = cash + SumOf(g)
    BY <2>3, <2>4, SettleCash DEF Inv
  <2>6. \A s \in Symbols : g[s] >= 0
    <3> SUFFICES ASSUME NEW s \in Symbols, s \in DueNow(now) PROVE g[s] >= 0
      BY <2>4 DEF Gains
    <3>1. s \in Options /\ Mult[s] \in Nat
      BY BacktestAssumption DEF DueNow
    <3>2. pos[s].qty \in Int /\ pos[s].qty >= 0
      BY <1>1, PositionQty DEF LongPositions, Inv
    <3>3. SettlePrice(s, mk) \in Nat
      <4>1. Underlying[s] \in Symbols /\ Strike[s] \in Nat /\ s \in Symbols
        BY <3>1, BacktestAssumption
      <4>2. mk[s] \in Nat \cup {NoMark} /\ mk[Underlying[s]] \in Nat \cup {NoMark}
        BY <2>3, <4>1 DEF Typed
      <4> QED BY <4>1, <4>2 DEF SettlePrice, Higher
    <3>4. PICK q, p, m : q = pos[s].qty /\ p = SettlePrice(s, mk) /\ m = Mult[s]
      OBVIOUS
    <3>5. q * p \in Nat
      BY <3>2, <3>3, <3>4
    <3>6. q * p * m \in Nat
      <4>1. \A x, y \in Nat : x * y \in Nat
        OBVIOUS
      <4> QED BY <3>1, <3>4, <3>5, <4>1
    <3> QED BY <2>4, <3>4, <3>6 DEF Gains
  <2>7. PICK z : z = [s \in Symbols |-> 0]
    OBVIOUS
  <2>8. SumOf(z) = 0 /\ SumOf(z) <= SumOf(g)
    BY <2>5, <2>6, <2>7, SumOfNothing, SumOfMonotonic
  <2>9. SumOf(g) \in Int
    BY <2>5, SumOfType
  <2> QED BY <1>2, <2>5, <2>8, <2>9
<1>4. CASE FillNext
  <2>1. PICK i \in todo : Rest(i) \/ Reject(i) \/ Fill(i)
    BY <1>4 DEF FillNext
  <2>2. CASE Rest(i) \/ Reject(i)
    BY <1>2, <2>2 DEF Rest, Reject, account
  <2>3. CASE Fill(i)
    <3>1. PICK o, f, x, q, m : /\ o = book[i] /\ f = FillNow(i) /\ x = o.sym
                               /\ q = Signed(o.side, f.qty) /\ m = Mult[x]
      OBVIOUS
    <3>2. /\ o \in Orders /\ x \in Symbols /\ o.side \in {Buy, Sell} /\ f.qty \in Nat \ {0}
          /\ f.price \in Int /\ f.fee \in Int /\ q \in Int /\ m \in Nat \ {0}
          /\ fills \in Seq(Fills) /\ pos \in [Symbols -> Positions] /\ i \in Nat \ {0} /\ i \in Ids
      BY <2>3, <3>1, Booked
    <3>3. /\ cash' = cash - q * f.price * m - f.fee
          /\ Covered(x, pos[x].qty, pos[x].qty + q, cash')
      BY <2>3, <3>1 DEF Fill, Allowed, CashNow, CashAfter
    <3>4. CASE o.side = Buy
      <4>1. q = f.qty
        BY <3>1, <3>4 DEF Signed
      <4>2. pos[x].qty \in Int /\ pos[x].qty >= 0
        BY <1>1, <3>2, PositionQty DEF LongPositions, Inv
      <4>3. pos[x].qty + q \in Nat /\ pos[x].qty + q > pos[x].qty
        BY <3>2, <4>1, <4>2
      <4>4. cash' \in Int
        <5>1. \A a, b \in Int : a * b \in Int
          OBVIOUS
        <5> QED BY <1>2, <3>2, <3>3, <5>1
      <4> QED BY <1>1, <3>2, <3>3, <4>3, <4>4, CoveredPurchase
    <3>5. CASE o.side = Sell
      <4>1. q = -f.qty
        BY <3>1, <3>5 DEF Signed, Buy, Sell
      <4>2. f.price >= 0 /\ f.fee = FeeFor(x, f.price, f.qty)
        <5>1. /\ sc \in Scenarios /\ market[x] \in Bars \cup {NoBar} /\ left[i] \in Nat
              /\ WaterNow(i) \in Nat \cup {NoMark}
              /\ o.type = "trail" /\ market[x] # NoBar => WaterNow(i) \in Nat
          BY <2>3, <3>1, <3>2, Booked, WaterType DEF Inv, OrderTypes
        <5>2. market[x] # NoBar /\ f = TryFill(o, left[i], market[x], WaterNow(i)) /\ f.qty # 0
          BY <2>3, <3>1, <3>2 DEF Fill, FillNow, NoFill
        <5>3. PICK rest, b, w : rest = left[i] /\ b = market[x] /\ w = WaterNow(i)
          OBVIOUS
        <5>4. /\ sc \in Scenarios /\ rest \in Nat /\ b \in Bars /\ w \in Nat \cup {NoMark}
              /\ o.type = "trail" => w \in Nat
              /\ f = TryFill(o, rest, b, w) /\ f.qty # 0
          BY <5>1, <5>2, <5>3
        <5>5. f.price >= 0 /\ f.fee = FeeFor(o.sym, f.price, f.qty)
          BY <3>2, <3>5, <5>4, SalePrice
        <5> QED BY <3>1, <5>5
      <4>3. f.fee <= f.qty * f.price * m
        <5>1. CASE x \in Options
          <6>1. /\ fills' \in Seq(Fills) /\ fills' = Append(fills, [id |-> i, sym |-> x, side |-> o.side,
                      qty |-> f.qty, price |-> f.price, fee |-> f.fee, bar |-> bar])
            BY <2>3, <3>1 DEF Fill, Inv, AccountTypes
          <6>2. PICK k \in DOMAIN fills' : fills'[k] = [id |-> i, sym |-> x, side |-> o.side,
                      qty |-> f.qty, price |-> f.price, fee |-> f.fee, bar |-> bar]
            <7>1. Len(fills) + 1 \in DOMAIN fills' /\ fills'[Len(fills) + 1] = [id |-> i, sym |-> x,
                      side |-> o.side, qty |-> f.qty, price |-> f.price, fee |-> f.fee, bar |-> bar]
              BY <3>2, <6>1
            <7> QED BY <7>1
          <6> QED BY <3>1, <3>2, <3>5, <5>1, <6>2, SMTT(30) DEF SalesCoverFees
        <5>2. CASE x \notin Options
          BY <3>2, <4>2, <5>2, FeeBounded
        <5> QED BY <5>1, <5>2
      <4>4. PICK y : y = f.qty * f.price * m
        OBVIOUS
      <4>5. y \in Int /\ q * f.price * m = -y
        <5>1. PICK a, p : a = f.qty /\ p = f.price
          OBVIOUS
        <5>2. a \in Int /\ p \in Int
          BY <3>2, <5>1
        <5>3. a * p \in Int /\ (-a) * p = -(a * p)
          BY <5>2
        <5>4. \A u, w \in Int : u * w \in Int /\ (-u) * w = -(u * w)
          OBVIOUS
        <5> QED BY <3>2, <4>1, <4>4, <5>1, <5>3, <5>4
      <4>6. PICK z : z = q * f.price * m
        OBVIOUS
      <4>7. cash' = cash - z - f.fee /\ z = -y /\ f.fee <= y
        BY <3>3, <4>3, <4>4, <4>5, <4>6
      <4> QED BY <1>2, <3>2, <4>5, <4>7
    <3> QED BY <3>2, <3>4, <3>5
  <2> QED BY <2>1, <2>2, <2>3
<1>5. CASE OnBar \/ UNCHANGED vars
  BY <1>2, <1>5 DEF OnBar, vars, account
<1> QED BY <1>3, <1>4, <1>5 DEF Next

LEMMA MoneyAlways == Spec => []Money
PROOF
<1>1. Init => Money
  BY BacktestAssumption DEF Init, Money
<1> QED BY <1>1, MoneyStep, InvAlways, PTL DEF Spec

\* Where shorting is off no sequence of resting orders, partial fills and
\* settlements makes a position short: the check is on each fill (engine.run_backtest).
THEOREM NeverShort == Spec => []LongPositions
PROOF
<1>1. Init => LongPositions
  BY DEF Init, LongPositions, Flat
<1> QED BY <1>1, LongPositionsStep, InvAlways, PTL DEF Spec

\* And where orders must be paid in full besides, cash is never borrowed, unless an
\* option was sold for less than the fee of its contract (Portfolio.apply_fill and the
\* buying-power check).
THEOREM LongAccount == Spec /\ []SalesCoverFees => []LongOnlyAccount
PROOF
<1>1. Init => CashHeld
  BY BacktestAssumption DEF Init, CashHeld
<1>2. LongPositions /\ CashHeld => LongOnlyAccount
  BY DEF LongPositions, CashHeld, LongOnlyAccount
<1> QED BY <1>1, <1>2, CashHeldStep, NeverShort, MoneyAlways, InvAlways, PTL DEF Spec

(***************************************************************************)
(* What the account holds and what it earned.                              *)
(***************************************************************************)
LEMMA FillsOfType ==
  ASSUME NEW fs \in Seq(Fills), NEW s
  PROVE  FillsOf(fs, s) \in Seq(Fills)
BY PickedPlaces DEF FillsOf

LEMMA FillsOfAppend ==
  ASSUME NEW fs \in Seq(Fills), NEW f \in Fills, NEW s
  PROVE  FillsOf(Append(fs, f), s) = IF f.sym = s THEN Append(FillsOf(fs, s), f) ELSE FillsOf(fs, s)
PROOF
<1>1. PICK q : q = Append(fs, f)
  OBVIOUS
<1>2. PICK P, R : P = {i \in DOMAIN q : q[i].sym = s} /\ R = {i \in DOMAIN fs : fs[i].sym = s}
  OBVIOUS
<1>3. /\ Len(fs) \in Nat /\ DOMAIN fs = 1 .. Len(fs) /\ DOMAIN q = 1 .. (Len(fs) + 1)
      /\ q[Len(fs) + 1] = f /\ \A i \in 1 .. Len(fs) : q[i] = fs[i]
  BY <1>1
<1>4. \A i \in 1 .. Len(fs) : i \in P <=> i \in R
  BY <1>2, <1>3
<1>5. Len(fs) + 1 \in P <=> f.sym = s
  BY <1>2, <1>3
<1>6. Picked(fs, P) = Picked(fs, R)
  BY <1>4, PickedSame, Zenon
<1>7. Picked(q, P) = IF Len(fs) + 1 \in P THEN Append(Picked(fs, P), f) ELSE Picked(fs, P)
  BY <1>1, PickedAppend, Zenon
<1>8. FillsOf(q, s) = Picked(q, P) /\ FillsOf(fs, s) = Picked(fs, R)
  BY <1>2 DEF FillsOf
<1> QED BY <1>1, <1>5, <1>6, <1>7, <1>8

LEMMA FillsOfConcat ==
  ASSUME NEW a \in Seq(Fills), NEW b \in Seq(Fills), NEW s
  PROVE  FillsOf(a \o b, s) = FillsOf(a, s) \o FillsOf(b, s)
PROOF
<1> DEFINE Good(x) == FillsOf(a \o x, s) = FillsOf(a, s) \o FillsOf(x, s)
           S == {n \in Nat : \A x \in Seq(Fills) : Len(x) = n => Good(x)}
<1>1. 0 \in S
  <2>1. SUFFICES ASSUME NEW x \in Seq(Fills), Len(x) = 0 PROVE Good(x)
    OBVIOUS
  <2>2. x = << >> /\ a \o x = a
    BY <2>1
  <2>3. FillsOf(x, s) = << >>
    BY <2>2, PickedEmpty DEF FillsOf
  <2>4. FillsOf(a, s) \o << >> = FillsOf(a, s)
    BY FillsOfType
  <2> QED BY <2>2, <2>3, <2>4
<1>2. ASSUME NEW n \in Nat, n \in S PROVE n + 1 \in S
  <2>1. SUFFICES ASSUME NEW x \in Seq(Fills), Len(x) = n + 1 PROVE Good(x)
    OBVIOUS
  <2>2. PICK p \in Seq(Fills), f \in Fills : x = Append(p, f) /\ Len(p) = n
    BY <2>1, LastOut
  <2>3. Good(p)
    BY <1>2, <2>2
  <2>4. a \o x = Append(a \o p, f) /\ a \o p \in Seq(Fills)
    BY <2>2
  <2>5. FillsOf(a \o x, s) = IF f.sym = s THEN Append(FillsOf(a \o p, s), f) ELSE FillsOf(a \o p, s)
    <3>1. PICK ap : ap = a \o p
      OBVIOUS
    <3>2. ap \in Seq(Fills) /\ a \o x = Append(ap, f)
      BY <2>4, <3>1
    <3>3. FillsOf(Append(ap, f), s) = IF f.sym = s THEN Append(FillsOf(ap, s), f) ELSE FillsOf(ap, s)
      BY <2>2, <3>2, FillsOfAppend
    <3> QED BY <3>1, <3>2, <3>3
  <2>6. FillsOf(x, s) = IF f.sym = s THEN Append(FillsOf(p, s), f) ELSE FillsOf(p, s)
    BY <2>2, FillsOfAppend
  <2>7. PICK u, v : u = FillsOf(a, s) /\ v = FillsOf(p, s)
    OBVIOUS
  <2>8. u \in Seq(Fills) /\ v \in Seq(Fills)
    BY <2>7, FillsOfType
  <2>9. u \o Append(v, f) = Append(u \o v, f)
    BY <2>8
  <2> QED BY <2>3, <2>5, <2>6, <2>7, <2>9
<1> HIDE DEF S
<1>3. Nat \subseteq S
  BY <1>1, <1>2, SetInduction, Zenon
<1>4. Len(b) \in S
  <2>1. Len(b) \in Nat
    OBVIOUS
  <2> QED BY <1>3, <2>1
<1> QED BY <1>4 DEF S

\* The position after the fills of a list.
LEMMA SignedType == ASSUME NEW f \in Fills PROVE SignedFill(f) \in Int
BY DEF Fills, SignedFill, Signed

LEMMA RunningType ==
  ASSUME NEW fs \in Seq(Fills), NEW i \in 0 .. Len(fs)
  PROVE  RunningQty(fs, i) \in Int
PROOF
<1>1. PICK h : h = SubSeq(fs, 1, i)
  OBVIOUS
<1>2. h \in Seq(Fills)
  BY <1>1
<1>3. [j \in DOMAIN h |-> SignedFill(h[j])] \in Seq(Int)
  BY <1>2, SignedType
<1>4. RunningQty(fs, i) = Total([j \in DOMAIN h |-> SignedFill(h[j])])
  BY <1>1 DEF RunningQty, SumOver
<1> QED BY <1>3, <1>4, TotalType

LEMMA RunningEarlier ==
  ASSUME NEW fs \in Seq(Fills), NEW f \in Fills, NEW i \in 0 .. Len(fs)
  PROVE  RunningQty(Append(fs, f), i) = RunningQty(fs, i)
PROOF
<1>1. SubSeq(Append(fs, f), 1, i) = SubSeq(fs, 1, i)
  OBVIOUS
<1> QED BY <1>1 DEF RunningQty

LEMMA RunningAppend ==
  ASSUME NEW fs \in Seq(Fills), NEW f \in Fills
  PROVE  RunningQty(Append(fs, f), Len(fs) + 1) = RunningQty(fs, Len(fs)) + SignedFill(f)
PROOF
<1>1. PICK q : q = Append(fs, f)
  OBVIOUS
<1>2. SubSeq(q, 1, Len(fs) + 1) = q /\ SubSeq(fs, 1, Len(fs)) = fs
  BY <1>1
<1>3. /\ Len(fs) \in Nat /\ DOMAIN fs = 1 .. Len(fs) /\ DOMAIN q = 1 .. (Len(fs) + 1)
      /\ q[Len(fs) + 1] = f /\ \A i \in 1 .. Len(fs) : q[i] = fs[i] /\ fs[i] \in Fills
  BY <1>1
<1>4. PICK a, b : /\ a = [i \in DOMAIN fs |-> SignedFill(fs[i])]
                  /\ b = [i \in DOMAIN q |-> SignedFill(q[i])]
  OBVIOUS
<1>5. SignedFill(f) \in Int /\ a \in Seq(Int) /\ Len(a) = Len(fs)
  BY <1>3, <1>4, SignedType
<1>6. b = Append(a, SignedFill(f))
  BY <1>3, <1>4, <1>5
<1>7. RunningQty(q, Len(fs) + 1) = Total(b) /\ RunningQty(fs, Len(fs)) = Total(a)
  BY <1>2, <1>4 DEF RunningQty, SumOver
<1> QED BY <1>1, <1>5, <1>6, <1>7, TotalAppend

\* Whether a fill opens or extends the position.
Opening(q, signed) == q = 0 \/ SameDirection(q, signed)

LEMMA OpeningFeesAre ==
  ASSUME NEW fs \in Seq(Fills)
  PROVE  LET fees == [i \in DOMAIN fs |->
                        IF Opening(RunningQty(fs, i - 1), SignedFill(fs[i])) THEN fs[i].fee ELSE 0]
         IN OpeningFees(fs) = Total(fees) /\ fees \in Seq(Int) /\ Len(fees) = Len(fs)
PROOF
<1>1. \A i \in 1 .. Len(fs) : fs[i].fee \in Int
  <2>1. \A i \in 1 .. Len(fs) : fs[i] \in Fills
    OBVIOUS
  <2> QED BY <2>1 DEF Fills
<1>2. Len(fs) \in Nat /\ DOMAIN fs = 1 .. Len(fs)
  OBVIOUS
<1>3. OpeningFees(fs) = Total([i \in DOMAIN fs |->
                        IF Opening(RunningQty(fs, i - 1), SignedFill(fs[i])) THEN fs[i].fee ELSE 0])
  BY DEF OpeningFees, Opening
<1> QED BY <1>1, <1>2, <1>3

LEMMA OpeningFeesAppend ==
  ASSUME NEW fs \in Seq(Fills), NEW f \in Fills
  PROVE  /\ OpeningFees(fs) \in Int
         /\ OpeningFees(Append(fs, f)) = OpeningFees(fs) +
              (IF Opening(RunningQty(fs, Len(fs)), SignedFill(f)) THEN f.fee ELSE 0)
PROOF
<1>1. PICK q : q = Append(fs, f)
  OBVIOUS
<1>2. /\ Len(fs) \in Nat /\ DOMAIN fs = 1 .. Len(fs) /\ DOMAIN q = 1 .. (Len(fs) + 1)
      /\ q[Len(fs) + 1] = f /\ (\A i \in 1 .. Len(fs) : q[i] = fs[i])
      /\ q \in Seq(Fills) /\ Len(q) = Len(fs) + 1
  BY <1>1
<1>3. PICK a, b :
        /\ a = [i \in DOMAIN fs |->
                  IF Opening(RunningQty(fs, i - 1), SignedFill(fs[i])) THEN fs[i].fee ELSE 0]
        /\ b = [i \in DOMAIN q |->
                  IF Opening(RunningQty(q, i - 1), SignedFill(q[i])) THEN q[i].fee ELSE 0]
  OBVIOUS
<1>4. /\ OpeningFees(fs) = Total(a) /\ a \in Seq(Int) /\ Len(a) = Len(fs)
      /\ OpeningFees(q) = Total(b) /\ b \in Seq(Int) /\ Len(b) = Len(fs) + 1
  BY <1>2, <1>3, OpeningFeesAre
<1>5. PICK x : x = IF Opening(RunningQty(fs, Len(fs)), SignedFill(f)) THEN f.fee ELSE 0
  OBVIOUS
<1>6. x \in Int
  BY <1>5 DEF Fills
<1>7. \A i \in 0 .. Len(fs) : RunningQty(q, i) = RunningQty(fs, i)
  BY <1>1, RunningEarlier
<1>8. \A i \in 1 .. Len(fs) : b[i] = a[i]
  <2> SUFFICES ASSUME NEW i \in 1 .. Len(fs) PROVE b[i] = a[i]
    OBVIOUS
  <2>1. i - 1 \in 0 .. Len(fs)
    BY <1>2
  <2>2. RunningQty(q, i - 1) = RunningQty(fs, i - 1) /\ q[i] = fs[i] /\ i \in DOMAIN q
    BY <1>2, <1>7, <2>1
  <2> QED BY <1>2, <1>3, <2>2
<1>9. b[Len(fs) + 1] = x
  <2>1. Len(fs) + 1 \in DOMAIN q /\ (Len(fs) + 1) - 1 = Len(fs) /\ Len(fs) \in 0 .. Len(fs)
    BY <1>2
  <2>2. RunningQty(q, Len(fs)) = RunningQty(fs, Len(fs))
    BY <1>7, <2>1
  <2> QED BY <1>2, <1>3, <1>5, <2>1, <2>2
<1>10. b = Append(a, x)
  <2>1. \A i \in 1 .. Len(fs) + 1 : b[i] = Append(a, x)[i]
    BY <1>2, <1>4, <1>6, <1>8, <1>9
  <2> QED BY <1>2, <1>4, <1>6, <2>1
<1>11. Total(a) \in Int /\ Total(b) = Total(a) + x
  BY <1>4, <1>6, <1>10, TotalType, TotalAppend
<1> QED BY <1>1, <1>4, <1>5, <1>11

(***************************************************************************)
(* The fill of one position, in money.                                     *)
(***************************************************************************)
LEMMA Products ==
  \A x, y, z \in Int :
    /\ x * y \in Int /\ (x + y) * z = x * z + y * z /\ (x - y) * z = x * z - y * z
    /\ z * (x + y) = z * x + z * y /\ z * (x - y) = z * x - z * y /\ (-x) * y = -(x * y)
OBVIOUS

LEMMA MinusProduct == \A x, y \in Int : x * (-y) = -(x * y)
OBVIOUS

\* The average of an extended position stands for its cost.
ExactAverage(p, signed, price) ==
  SameDirection(p.qty, signed) =>
    AvgAfter(p, signed, price) * (Abs(p.qty) + Abs(signed)) = Abs(p.qty) * p.avg + Abs(signed) * price

\* Per unit of multiplier, the cost of a position changes by what was paid and by
\* what was earned on the part that was closed.
LEMMA CostMoves ==
  ASSUME NEW p \in Positions, NEW signed \in Int, signed # 0, NEW price \in Int,
         AvgAfter(p, signed, price) \in Int, ExactAverage(p, signed, price)
  PROVE  (p.qty + signed) * AvgAfter(p, signed, price) =
           p.qty * p.avg + signed * price +
             (IF Opening(p.qty, signed) THEN 0 ELSE GrossPnl(p, signed, price))
PROOF
<1>1. PICK q, a, n : q = p.qty /\ a = p.avg /\ n = AvgAfter(p, signed, price)
  OBVIOUS
<1>2. q \in Int /\ a \in Int /\ n \in Int
  BY <1>1 DEF Positions
<1>3. CASE q = 0
  <2>1. n = price /\ q * a = 0
    BY <1>1, <1>2, <1>3 DEF AvgAfter
  <2> QED BY <1>1, <1>2, <1>3, <2>1 DEF Opening
<1>4. CASE SameDirection(q, signed)
  <2>1. n * (Abs(q) + Abs(signed)) = Abs(q) * a + Abs(signed) * price
    BY <1>1, <1>4 DEF ExactAverage
  <2>2. CASE q > 0
    <3>1. signed > 0
      BY <1>2, <1>4, <2>2 DEF SameDirection
    <3>2. Abs(q) = q /\ Abs(signed) = signed
      BY <1>2, <2>2, <3>1 DEF Abs
    <3>3. n * (q + signed) = q * a + signed * price
      BY <2>1, <3>2
    <3>4. n * (q + signed) = (q + signed) * n
      BY <1>2
    <3>5. q * a \in Int /\ signed * price \in Int
      BY <1>2, Products
    <3> QED BY <1>1, <1>4, <3>3, <3>4, <3>5 DEF Opening
  <2>3. CASE ~(q > 0)
    <3>1. signed < 0 /\ q < 0
      BY <1>2, <1>4, <2>3 DEF SameDirection
    <3>2. Abs(q) = -q /\ Abs(signed) = -signed
      BY <1>2, <2>3, <3>1 DEF Abs
    <3>3. n * ((-q) + (-signed)) = (-q) * a + (-signed) * price
      BY <2>1, <3>2
    <3>4. (-q) * a = -(q * a) /\ (-signed) * price = -(signed * price)
      BY <1>2, Products
    <3>5. n * ((-q) + (-signed)) = -((q + signed) * n)
      <4>1. (-q) + (-signed) = -(q + signed) /\ q + signed \in Int
        BY <1>2
      <4>2. n * (-(q + signed)) = -(n * (q + signed)) /\ n * (q + signed) = (q + signed) * n
        BY <1>2, <4>1, MinusProduct
      <4> QED BY <4>1, <4>2
    <3>6. q * a \in Int /\ signed * price \in Int /\ (q + signed) * n \in Int
      <4>1. q + signed \in Int
        BY <1>2
      <4> QED BY <1>2, <4>1, Products
    <3>7. (q + signed) * n = q * a + signed * price
      BY <3>3, <3>4, <3>5, <3>6
    <3> QED BY <1>1, <1>4, <3>6, <3>7 DEF Opening
  <2> QED BY <2>2, <2>3
<1>5. CASE q # 0 /\ ~SameDirection(q, signed)
  <2>1. ~Opening(q, signed)
    BY <1>5 DEF Opening
  <2>2. PICK c : c = Lower(Abs(signed), Abs(q))
    OBVIOUS
  <2>3. GrossPnl(p, signed, price) = IF q > 0 THEN (price - a) * c ELSE (a - price) * c
    BY <1>1, <2>2 DEF GrossPnl
  <2>4. /\ q * price \in Int /\ q * a \in Int /\ signed * price \in Int /\ signed * a \in Int
        /\ (q + signed) * price = q * price + signed * price
        /\ (q + signed) * a = q * a + signed * a
    BY <1>2, Products
  <2>5. CASE Abs(signed) > Abs(q)
    <3>1. n = price /\ c = Abs(q)
      <4>1. n = price
        BY <1>1, <1>5, <2>5 DEF AvgAfter
      <4> QED BY <1>2, <2>2, <2>5, <4>1 DEF Lower, Abs
    <3>2. GrossPnl(p, signed, price) = q * price - q * a
      <4>1. CASE q > 0
        <5>1. c = q
          BY <1>2, <3>1, <4>1 DEF Abs
        <5>2. (price - a) * q = price * q - a * q /\ price * q = q * price /\ a * q = q * a
          BY <1>2, Products
        <5> QED BY <2>3, <4>1, <5>1, <5>2
      <4>2. CASE ~(q > 0)
        <5>1. c = -q
          BY <1>2, <1>5, <3>1, <4>2 DEF Abs
        <5>2. (a - price) * (-q) = -((a - price) * q) /\ (a - price) * q = a * q - price * q
              /\ price * q = q * price /\ a * q = q * a
          <6>1. a - price \in Int
            BY <1>2
          <6>2. (a - price) * (-q) = -((a - price) * q)
            BY <1>2, <6>1, MinusProduct
          <6> QED BY <1>2, <6>2, Products
        <5> QED BY <2>3, <2>4, <4>2, <5>1, <5>2
      <4> QED BY <4>1, <4>2
    <3> QED BY <1>1, <2>1, <2>4, <3>1, <3>2
  <2>6. CASE ~(Abs(signed) > Abs(q))
    <3>1. c = Abs(signed)
      BY <1>2, <2>2, <2>6 DEF Lower, Abs
    <3>2. (q + signed) * n = q * a + signed * a
      <4>1. n = IF q + signed = 0 THEN 0 ELSE a
        BY <1>1, <1>5, <2>6 DEF AvgAfter
      <4>2. CASE q + signed = 0
        <5>1. (q + signed) * n = 0 /\ (q + signed) * a = 0
          BY <1>2, <4>2
        <5> QED BY <2>4, <5>1
      <4>3. CASE q + signed # 0
        BY <2>4, <4>1, <4>3
      <4> QED BY <4>2, <4>3
    <3>3. GrossPnl(p, signed, price) = signed * a - signed * price
      <4>1. CASE q > 0
        <5>1. c = -signed
          BY <1>2, <1>5, <3>1, <4>1 DEF Abs, SameDirection
        <5>2. (price - a) * (-signed) = -((price - a) * signed)
              /\ (price - a) * signed = price * signed - a * signed
              /\ price * signed = signed * price /\ a * signed = signed * a
          <6>1. price - a \in Int
            BY <1>2
          <6>2. (price - a) * (-signed) = -((price - a) * signed)
            BY <6>1, MinusProduct
          <6> QED BY <1>2, <6>2, Products
        <5> QED BY <2>3, <2>4, <4>1, <5>1, <5>2
      <4>2. CASE ~(q > 0)
        <5>1. c = signed
          BY <1>2, <1>5, <3>1, <4>2 DEF Abs, SameDirection
        <5>2. (a - price) * signed = a * signed - price * signed
              /\ price * signed = signed * price /\ a * signed = signed * a
          BY <1>2, Products
        <5> QED BY <2>3, <4>2, <5>1, <5>2
      <4> QED BY <4>1, <4>2
    <3> QED BY <1>1, <2>1, <2>4, <3>2, <3>3
  <2> QED BY <2>5, <2>6
<1> QED BY <1>3, <1>4, <1>5

\* The same on the account: cash and the cost of the position move by what was
\* realised less the fee of an opening fill.
LEMMA FillKeepsMoney ==
  ASSUME NEW p \in Positions, NEW signed \in Int, signed # 0, NEW price \in Int, NEW fee \in Int,
         NEW m \in Int, NEW n, n = ApplyFill(p, signed, price, fee, m),
         AvgAfter(p, signed, price) \in Int, ExactAverage(p, signed, price)
  PROVE  /\ n \in Positions
         /\ p.qty * p.avg * m \in Int /\ n.qty * n.avg * m \in Int /\ signed * price * m \in Int
         /\ n.qty * n.avg * m - p.qty * p.avg * m
              = (n.realized - p.realized) + signed * price * m
                  + (IF Opening(p.qty, signed) THEN 0 ELSE fee)
PROOF
<1>1. PICK q, a, r, g, h : /\ q = p.qty /\ a = p.avg /\ r = p.realized
                           /\ g = GrossPnl(p, signed, price) /\ h = AvgAfter(p, signed, price)
  OBVIOUS
<1>2. q \in Int /\ a \in Int /\ r \in Int /\ h \in Int /\ g \in Int
  <2>1. q \in Int /\ a \in Int /\ r \in Int /\ h \in Int
    BY <1>1 DEF Positions
  <2>2. PICK c : c = Lower(Abs(signed), Abs(q))
    OBVIOUS
  <2>3. c \in Int /\ price - a \in Int /\ a - price \in Int
    BY <2>1, <2>2 DEF Lower, Abs
  <2>4. g = IF q > 0 THEN (price - a) * c ELSE (a - price) * c
    BY <1>1, <2>2 DEF GrossPnl
  <2> QED BY <2>1, <2>3, <2>4, Products
<1>4. /\ n.qty = q + signed /\ n.avg = h
      /\ n.realized = IF Opening(q, signed) THEN r ELSE r + g * m - fee
      /\ n = [qty |-> q + signed, avg |-> h, realized |-> n.realized]
  BY <1>1 DEF ApplyFill, Opening
<1>5. PICK x, y, z, e : /\ x = q * a /\ y = (q + signed) * h /\ z = signed * price
                        /\ e = IF Opening(q, signed) THEN 0 ELSE g
  OBVIOUS
<1>6. x \in Int /\ y \in Int /\ z \in Int /\ e \in Int /\ q + signed \in Int
  BY <1>2, <1>5, Products
<1>7. y = x + z + e
  BY <1>1, <1>5, CostMoves
<1>8. y * m = x * m + z * m + e * m /\ x * m \in Int /\ y * m \in Int /\ z * m \in Int /\ e * m \in Int
  <2>1. PICK u : u = x + z
    OBVIOUS
  <2>2. u \in Int /\ u * m = x * m + z * m
    BY <1>6, <2>1, Products
  <2>3. y = u + e /\ (u + e) * m = u * m + e * m
    BY <1>6, <1>7, <2>1, <2>2, Products
  <2> QED BY <1>6, <2>2, <2>3, Products
<1>9. n.realized = r + e * m - (IF Opening(q, signed) THEN 0 ELSE fee) /\ n.realized \in Int
  <2>1. CASE Opening(q, signed)
    <3>1. e * m = 0
      BY <1>5, <2>1
    <3> QED BY <1>2, <1>4, <2>1, <3>1
  <2>2. CASE ~Opening(q, signed)
    BY <1>2, <1>4, <1>5, <1>8, <2>2
  <2> QED BY <2>1, <2>2
<1>10. n.qty * n.avg * m = y * m /\ p.qty * p.avg * m = x * m /\ signed * price * m = z * m
  BY <1>1, <1>4, <1>5
<1>11. n \in Positions
  BY <1>2, <1>4, <1>6, <1>9 DEF Positions
<1>12. y * m - x * m = (n.realized - r) + z * m + (IF Opening(q, signed) THEN 0 ELSE fee)
  <2>1. PICK ym, xm, zm, em : ym = y * m /\ xm = x * m /\ zm = z * m /\ em = e * m
    OBVIOUS
  <2>2. /\ ym \in Int /\ xm \in Int /\ zm \in Int /\ em \in Int /\ ym = xm + zm + em
        /\ n.realized = r + em - (IF Opening(q, signed) THEN 0 ELSE fee)
    BY <1>8, <1>9, <2>1
  <2>3. ym - xm = (n.realized - r) + zm + (IF Opening(q, signed) THEN 0 ELSE fee)
    BY <1>2, <2>2
  <2> QED BY <2>1, <2>3
<1> QED BY <1>1, <1>8, <1>10, <1>11, <1>12

(***************************************************************************)
(* Positions are what the fills say, and the account adds up.              *)
(***************************************************************************)
\* A position is the running quantity after the fills of its symbol.
PositionsFromFills ==
  \A s \in Symbols : LET fs == FillsOf(fills, s) IN RunningQty(fs, Len(fs)) = pos[s].qty

\* The fill that Fill books, and the position it leaves.
LEMMA FillBooks ==
  ASSUME Inv, NEW i \in todo, Fill(i)
  PROVE  LET o == book[i]
             f == FillNow(i)
             q == Signed(o.side, f.qty)
         IN \E b \in Fills :
              /\ fills' = Append(fills, b)
              /\ b.sym = o.sym /\ b.fee = f.fee /\ b.price = f.price /\ SignedFill(b) = q
              /\ \A s \in Symbols :
                   pos'[s] = IF s = o.sym THEN ApplyFill(pos[s], q, f.price, f.fee, Mult[s]) ELSE pos[s]
              /\ cash' = CashAfter(cash, q, f.price, f.fee, Mult[o.sym])
PROOF
<1>1. PICK o, f : o = book[i] /\ f = FillNow(i)
  OBVIOUS
<1>2. /\ i \in Nat /\ o.sym \in Symbols /\ o.side \in {Buy, Sell} /\ f.qty \in Int
      /\ f.price \in Int /\ f.fee \in Int /\ pos \in [Symbols -> Positions]
  BY <1>1, Booked
<1>3. bar \in Nat
  BY DEF Inv, Life, OrderTypes
<1>4. PICK b : b = [id |-> i, sym |-> o.sym, side |-> o.side, qty |-> f.qty,
                    price |-> f.price, fee |-> f.fee, bar |-> bar]
  OBVIOUS
<1>5. b \in Fills
  BY <1>2, <1>3, <1>4 DEF Fills
<1>6. fills' = Append(fills, b)
  BY <1>1, <1>4 DEF Fill
<1>7. b.sym = o.sym /\ b.fee = f.fee /\ b.price = f.price /\ SignedFill(b) = Signed(o.side, f.qty)
  BY <1>4 DEF SignedFill
<1>8. \A s \in Symbols :
        pos'[s] = IF s = o.sym THEN ApplyFill(pos[s], Signed(o.side, f.qty), f.price, f.fee, Mult[s])
                  ELSE pos[s]
  BY <1>1, <1>2 DEF Fill
<1>9. cash' = CashAfter(cash, Signed(o.side, f.qty), f.price, f.fee, Mult[o.sym])
  BY <1>1 DEF Fill, CashNow
<1> QED BY <1>1, <1>5, <1>6, <1>7, <1>8, <1>9

\* The fills of a settlement: one sale of the whole position of each due option.
LEMMA SettleBooks ==
  ASSUME AccountTypes, NEW mk, Typed(mk), NEW now \in Nat, Settle(mk, now), NEW s \in Symbols
  PROVE  IF s \in DueNow(now)
         THEN \E b \in Fills :
                /\ FillsOf(fills', s) = Append(FillsOf(fills, s), b)
                /\ b.fee = 0 /\ b.price = SettlePrice(s, mk) /\ SignedFill(b) = -pos[s].qty
                /\ pos'[s] = ApplyFill(pos[s], -pos[s].qty, SettlePrice(s, mk), 0, Mult[s])
         ELSE FillsOf(fills', s) = FillsOf(fills, s) /\ pos'[s] = pos[s]
PROOF
<1> DEFINE Sale(x) == [id |-> 0, sym |-> x, side |-> Sell, qty |-> pos[x].qty,
                       price |-> SettlePrice(x, mk), fee |-> 0, bar |-> now]
<1>1. PICK due : due = DueNow(now)
  OBVIOUS
<1>2. due \subseteq Options /\ IsFiniteSet(due) /\ Options \subseteq Symbols
  <2>1. due \subseteq Options /\ Options \subseteq Symbols /\ IsFiniteSet(Symbols)
    BY <1>1, BacktestAssumption DEF DueNow
  <2> QED BY <2>1, FS_Subset
<1>3. PICK ord : ord = SetToSeq(due)
  OBVIOUS
<1>4. /\ ord \in Seq(due)
      /\ \A i, j \in DOMAIN ord : ord[i] = ord[j] => i = j
      /\ \A x \in due : \E i \in DOMAIN ord : ord[i] = x
  BY <1>2, <1>3, ListingAll
<1>5. DOMAIN ord = 1 .. Len(ord) /\ Len(ord) \in Nat /\ \A k \in 1 .. Len(ord) : ord[k] \in due
  BY <1>4
<1>6. PICK sales : sales = [k \in DOMAIN ord |-> Sale(ord[k])]
  OBVIOUS
<1>7. /\ fills' = fills \o sales
      /\ \A x \in Symbols : pos'[x] = IF x \notin due THEN pos[x]
              ELSE ApplyFill(pos[x], -pos[x].qty, SettlePrice(x, mk), 0, Mult[x])
  BY <1>1, <1>3, <1>6 DEF Settle, DueNow
<1>8. \A x \in due : Sale(x) \in Fills
  <2> SUFFICES ASSUME NEW x \in due PROVE Sale(x) \in Fills
    OBVIOUS
  <2>1. pos[x].qty \in Int
    BY <1>2, PositionQty
  <2>2. SettlePrice(x, mk) \in Int
    BY <1>2, SettlePriceType
  <2> QED BY <1>2, <2>1, <2>2 DEF Fills
<1>9. /\ sales \in Seq(Fills) /\ Len(sales) = Len(ord)
      /\ \A k \in 1 .. Len(ord) : sales[k] = Sale(ord[k]) /\ sales[k].sym = ord[k]
  <2> HIDE DEF Sale
  <2>1. sales \in Seq(Fills) /\ Len(sales) = Len(ord) /\ \A k \in 1 .. Len(ord) : sales[k] = Sale(ord[k])
    BY <1>5, <1>6, <1>8
  <2>2. \A x : Sale(x).sym = x
    BY DEF Sale
  <2> QED BY <2>1, <2>2
<1>10. fills \in Seq(Fills)
  BY DEF AccountTypes
<1>11. FillsOf(fills', s) = FillsOf(fills, s) \o FillsOf(sales, s)
  BY <1>7, <1>9, <1>10, FillsOfConcat
<1>12. PICK P : P = {k \in DOMAIN sales : sales[k].sym = s}
  OBVIOUS
<1>13. DOMAIN sales = 1 .. Len(sales) /\ FillsOf(sales, s) = Picked(sales, P)
  BY <1>9, <1>12 DEF FillsOf
<1>14. PICK fs : fs = FillsOf(fills, s)
  OBVIOUS
<1>15. fs \in Seq(Fills)
  BY <1>10, <1>14, FillsOfType
<1>16. CASE s \in due
  <2>1. PICK j \in 1 .. Len(ord) : ord[j] = s
    BY <1>4, <1>5, <1>16
  <2>2. \A k \in 1 .. Len(sales) : k \in P <=> k = j
    BY <1>4, <1>5, <1>9, <1>12, <1>13, <2>1
  <2>3. Picked(sales, P) = <<sales[j]>>
    BY <1>9, <2>1, <2>2, PickedOne, Zenon
  <2>4. PICK b : b = Sale(s)
    OBVIOUS
  <2>5. b \in Fills /\ sales[j] = b
    BY <1>8, <1>9, <1>16, <2>1, <2>4
  <2>6. b.fee = 0 /\ b.price = SettlePrice(s, mk) /\ SignedFill(b) = -pos[s].qty
    BY <2>4 DEF SignedFill, Signed, Buy, Sell
  <2>7. fs \o <<b>> = Append(fs, b)
    BY <1>15, <2>5
  <2>8. FillsOf(fills', s) = Append(fs, b)
    BY <1>11, <1>13, <1>14, <2>3, <2>5, <2>7
  <2> QED BY <1>1, <1>7, <1>14, <1>16, <2>5, <2>6, <2>8
<1>17. CASE s \notin due
  <2>1. \A k \in 1 .. Len(sales) : k \notin P
    BY <1>5, <1>9, <1>12, <1>17
  <2>2. Picked(sales, P) = << >>
    BY <1>9, <2>1, PickedNone
  <2>3. fs \o << >> = fs
    BY <1>15
  <2> QED BY <1>1, <1>7, <1>11, <1>13, <1>14, <1>17, <2>2, <2>3
<1> QED BY <1>1, <1>16, <1>17

LEMMA RunningOn ==
  ASSUME NEW fs \in Seq(Fills), NEW b \in Fills
  PROVE  RunningQty(Append(fs, b), Len(Append(fs, b))) = RunningQty(fs, Len(fs)) + SignedFill(b)
PROOF
<1>1. Len(Append(fs, b)) = Len(fs) + 1
  OBVIOUS
<1> QED BY <1>1, RunningAppend

LEMMA PositionsFromFillsStep == Inv /\ Inv' /\ PositionsFromFills /\ [Next]_vars => PositionsFromFills'
PROOF
<1> SUFFICES ASSUME Inv, Inv', PositionsFromFills, [Next]_vars, NEW s \in Symbols
             PROVE  RunningQty(FillsOf(fills', s), Len(FillsOf(fills', s))) = pos'[s].qty
  BY DEF PositionsFromFills
<1>1. PICK fs, gs : fs = FillsOf(fills, s) /\ gs = FillsOf(fills', s)
  OBVIOUS
<1>2. RunningQty(fs, Len(fs)) = pos[s].qty /\ pos[s].qty \in Int /\ pos \in [Symbols -> Positions]
  BY <1>1, PositionQty DEF PositionsFromFills, Inv, AccountTypes
<1>3. fs \in Seq(Fills)
  BY <1>1, FillsOfType DEF Inv, AccountTypes
<1>4. ASSUME NEW b \in Fills, gs = Append(fs, b), NEW price, NEW fee, NEW m,
             pos'[s] = ApplyFill(pos[s], SignedFill(b), price, fee, m)
      PROVE  RunningQty(gs, Len(gs)) = pos'[s].qty
  BY <1>2, <1>3, <1>4, RunningOn DEF ApplyFill
<1>5. CASE gs = fs /\ pos'[s] = pos[s]
  BY <1>1, <1>2, <1>5
<1>6. CASE OpenBar
  <2>1. OrderTypes' /\ Typed(marks') /\ bar + 1 \in Nat
    BY <1>6, OpenBarOrders DEF Inv
  <2>2. PICK mk, now : mk = marks' /\ now = bar + 1
    OBVIOUS
  <2>3. Settle(mk, now) /\ Typed(mk) /\ now \in Nat
    BY <1>6, <2>1, <2>2 DEF OpenBar
  <2>4. CASE s \in DueNow(now)
    <3>1. PICK b \in Fills : /\ FillsOf(fills', s) = Append(FillsOf(fills, s), b)
                             /\ SignedFill(b) = -pos[s].qty
                             /\ pos'[s] = ApplyFill(pos[s], -pos[s].qty, SettlePrice(s, mk), 0, Mult[s])
      BY <2>3, <2>4, SettleBooks DEF Inv
    <3> QED BY <1>1, <1>4, <3>1
  <2>5. CASE s \notin DueNow(now)
    BY <1>1, <1>5, <2>3, <2>5, SettleBooks DEF Inv
  <2> QED BY <2>4, <2>5
<1>7. CASE FillNext
  <2>1. PICK i \in todo : Rest(i) \/ Reject(i) \/ Fill(i)
    BY <1>7 DEF FillNext
  <2>2. CASE Rest(i) \/ Reject(i)
    BY <1>1, <1>5, <2>2 DEF Rest, Reject, account
  <2>3. CASE Fill(i)
    <3>1. PICK o, f, q : o = book[i] /\ f = FillNow(i) /\ q = Signed(o.side, f.qty)
      OBVIOUS
    <3>2. PICK b \in Fills :
              /\ fills' = Append(fills, b) /\ b.sym = o.sym /\ SignedFill(b) = q
              /\ \A t \in Symbols :
                   pos'[t] = IF t = o.sym THEN ApplyFill(pos[t], q, f.price, f.fee, Mult[t]) ELSE pos[t]
      BY <2>3, <3>1, FillBooks
    <3>3. gs = IF b.sym = s THEN Append(fs, b) ELSE fs
      BY <1>1, <3>2, FillsOfAppend DEF Inv, AccountTypes
    <3>4. CASE b.sym = s
      <4>1. pos'[s] = ApplyFill(pos[s], SignedFill(b), f.price, f.fee, Mult[s]) /\ gs = Append(fs, b)
        BY <3>2, <3>3, <3>4
      <4>2. RunningQty(gs, Len(gs)) = pos'[s].qty
        BY <1>4, <4>1
      <4> QED BY <1>1, <4>2
    <3>5. CASE b.sym # s
      BY <1>5, <3>2, <3>3, <3>5
    <3> QED BY <3>4, <3>5
  <2> QED BY <2>1, <2>2, <2>3
<1>8. CASE OnBar \/ UNCHANGED vars
  BY <1>1, <1>5, <1>8 DEF OnBar, vars, account
<1> QED BY <1>1, <1>6, <1>7, <1>8 DEF Next

\* A position is the running quantity of the symbol's fills, settlements included
\* (Portfolio.apply_fill).
THEOREM PositionsAreFills == Spec => []PositionsFromFills
PROOF
<1>1. Init => PositionsFromFills
  <2> SUFFICES ASSUME Init, NEW s \in Symbols
               PROVE  RunningQty(FillsOf(fills, s), Len(FillsOf(fills, s))) = pos[s].qty
    BY DEF PositionsFromFills
  <2>1. FillsOf(fills, s) = << >> /\ pos[s].qty = 0
    BY PickedEmpty DEF Init, FillsOf, Flat
  <2>2. RunningQty(<< >>, 0) = 0
    <3>1. SubSeq(<< >>, 1, 0) = << >>
      OBVIOUS
    <3>2. [i \in DOMAIN << >> |-> SignedFill(<< >>[i])] = << >>
      OBVIOUS
    <3> QED BY <3>1, <3>2, TotalEmpty DEF RunningQty, SumOver
  <2>3. Len(<< >>) = 0
    OBVIOUS
  <2> QED BY <2>1, <2>2, <2>3
<1> QED BY <1>1, PositionsFromFillsStep, InvAlways, PTL DEF Spec

\* No average had to be rounded: the orders about to be tried that would extend a
\* position reach an average that stands for its cost.  The code divides in floating
\* point; with amounts in a fine enough unit every average is exact.
AveragesExact ==
  \A i \in todo :
    LET o == book[i]
        f == FillNow(i)
    IN ExactAverage(pos[o.sym], Signed(o.side, f.qty), f.price)

\* The cost of what is held, and what was earned, by symbol.
CostsOf(p) == [s \in Symbols |-> p[s].qty * p[s].avg * Mult[s]]
EarningsOf(p, fs) == [s \in Symbols |-> p[s].realized - OpeningFees(FillsOf(fs, s))]
Costs == CostsOf(pos)
Earnings == EarningsOf(pos, fills)

AddsUp == cash + SumOf(Costs) = StartCash + SumOf(Earnings)

LEMMA EarningsType ==
  ASSUME NEW p \in [Symbols -> Positions], NEW fs \in Seq(Fills)
  PROVE  CostsOf(p) \in [Symbols -> Int] /\ EarningsOf(p, fs) \in [Symbols -> Int]
PROOF
<1>1. ASSUME NEW s \in Symbols
      PROVE  p[s].qty \in Int /\ p[s].avg \in Int /\ p[s].realized \in Int /\ Mult[s] \in Int
  <2>1. p[s] \in Positions /\ Mult[s] \in Int
    BY BacktestAssumption
  <2> QED BY <2>1 DEF Positions
<1>2. \A s \in Symbols : p[s].qty * p[s].avg * Mult[s] \in Int
  <2>1. \A x, y \in Int : x * y \in Int
    OBVIOUS
  <2> QED BY <1>1, <2>1
<1>3. \A s \in Symbols : OpeningFees(FillsOf(fs, s)) \in Int
  <2> SUFFICES ASSUME NEW s \in Symbols PROVE OpeningFees(FillsOf(fs, s)) \in Int
    OBVIOUS
  <2>1. PICK gs : gs = FillsOf(fs, s)
    OBVIOUS
  <2>2. gs \in Seq(Fills)
    BY <2>1, FillsOfType
  <2>3. PICK a : a \in Seq(Int) /\ OpeningFees(gs) = Total(a)
    BY <2>2, OpeningFeesAre
  <2> QED BY <2>1, <2>3, TotalType
<1>4. \A s \in Symbols : p[s].realized - OpeningFees(FillsOf(fs, s)) \in Int
  BY <1>1, <1>3
<1> QED BY <1>2, <1>4 DEF CostsOf, EarningsOf

LEMMA AddsUpIs ==
  ASSUME AccountTypes
  PROVE  PnlAddsUp <=> AddsUp
PROOF
<1>1. PICK ord : ord = SetToSeq(Symbols)
  OBVIOUS
<1>2. \A i \in DOMAIN ord : ord[i] \in Symbols
  <2>1. ord \in Seq(Symbols)
    BY <1>1, Listing, BacktestAssumption
  <2> QED BY <2>1
<1>3. /\ [i \in DOMAIN ord |-> pos[ord[i]].qty * pos[ord[i]].avg * Mult[ord[i]]]
           = [i \in DOMAIN ord |-> Costs[ord[i]]]
      /\ [i \in DOMAIN ord |-> pos[ord[i]].realized - OpeningFees(FillsOf(fills, ord[i]))]
           = [i \in DOMAIN ord |-> Earnings[ord[i]]]
  BY <1>2 DEF Costs, Earnings, CostsOf, EarningsOf
<1>4. /\ SumOf(Costs) = Total([i \in DOMAIN ord |-> Costs[ord[i]]])
      /\ SumOf(Earnings) = Total([i \in DOMAIN ord |-> Earnings[ord[i]]])
  BY <1>1 DEF SumOf, Listed
<1>5. PnlAddsUp <=>
        cash + Total([i \in DOMAIN ord |-> pos[ord[i]].qty * pos[ord[i]].avg * Mult[ord[i]]])
          = StartCash + Total([i \in DOMAIN ord |-> pos[ord[i]].realized - OpeningFees(FillsOf(fills, ord[i]))])
  BY <1>1 DEF PnlAddsUp, SumSymbols, SumOver
<1> QED BY <1>3, <1>4, <1>5 DEF AddsUp

\* One symbol's share of the account, over a fill of that symbol.
LEMMA SymbolAddsUp ==
  ASSUME AccountTypes, AccountTypes', PositionsFromFills, NEW s \in Symbols, NEW b \in Fills,
         NEW q \in Int, q # 0, NEW price \in Int, NEW money \in Int,
         FillsOf(fills', s) = Append(FillsOf(fills, s), b), SignedFill(b) = q,
         pos'[s] = ApplyFill(pos[s], q, price, b.fee, Mult[s]), ExactAverage(pos[s], q, price)
  PROVE  /\ CashAfter(money, q, price, b.fee, Mult[s]) \in Int
         /\ (CashAfter(money, q, price, b.fee, Mult[s]) - money) + (Costs'[s] - Costs[s])
              = Earnings'[s] - Earnings[s]
PROOF
<1>1. PICK fs, p, n, m, fee : /\ fs = FillsOf(fills, s) /\ p = pos[s] /\ n = pos'[s] /\ m = Mult[s]
                              /\ fee = b.fee
  OBVIOUS
<1>2. p \in Positions /\ n \in Positions /\ m \in Int /\ fee \in Int
  BY <1>1, BacktestAssumption DEF AccountTypes, Fills
<1>3. fs \in Seq(Fills)
  BY <1>1, FillsOfType DEF AccountTypes
<1>4. n = ApplyFill(p, q, price, fee, m) /\ ExactAverage(p, q, price)
  BY <1>1
<1>5. AvgAfter(p, q, price) \in Int
  BY <1>2, <1>4 DEF ApplyFill, Positions
<1>6. PICK open : open = IF Opening(p.qty, q) THEN fee ELSE 0
  OBVIOUS
<1>7. /\ p.qty * p.avg * m \in Int /\ n.qty * n.avg * m \in Int
      /\ CashAfter(money, q, price, fee, m) \in Int
      /\ (CashAfter(money, q, price, fee, m) - money) + (n.qty * n.avg * m - p.qty * p.avg * m)
           = (n.realized - p.realized) - open
  <2>1. PICK x, y, z : x = p.qty * p.avg * m /\ y = n.qty * n.avg * m /\ z = q * price * m
    OBVIOUS
  <2>2. /\ x \in Int /\ y \in Int /\ z \in Int
        /\ y - x = (n.realized - p.realized) + z + (IF Opening(p.qty, q) THEN 0 ELSE fee)
    BY <1>2, <1>4, <1>5, <2>1, FillKeepsMoney
  <2>3. CashAfter(money, q, price, fee, m) = money - z - fee
    BY <2>1 DEF CashAfter
  <2>4. p.realized \in Int /\ n.realized \in Int
    BY <1>2 DEF Positions
  <2>5. PICK dr, nm : dr = n.realized - p.realized /\ nm = CashAfter(money, q, price, fee, m)
    OBVIOUS
  <2>6. dr \in Int /\ nm = money - z - fee /\ y - x = dr + z + (fee - open) /\ fee \in Int /\ open \in Int
    BY <1>2, <1>6, <2>2, <2>3, <2>4, <2>5
  <2>7. (nm - money) + (y - x) = dr - open /\ nm \in Int
    BY <2>2, <2>6
  <2> QED BY <2>1, <2>2, <2>5, <2>7
<1>8. /\ OpeningFees(fs) \in Int
      /\ OpeningFees(Append(fs, b)) = OpeningFees(fs) + open
  <2>1. RunningQty(fs, Len(fs)) = p.qty
    BY <1>1 DEF PositionsFromFills
  <2> QED BY <1>1, <1>3, <1>6, <2>1, OpeningFeesAppend
<1>9. /\ Costs[s] = p.qty * p.avg * m /\ Costs'[s] = n.qty * n.avg * m
      /\ Earnings[s] = p.realized - OpeningFees(fs)
      /\ Earnings'[s] = n.realized - OpeningFees(Append(fs, b))
  BY <1>1 DEF Costs, Earnings, CostsOf, EarningsOf
<1>10. p.realized \in Int /\ n.realized \in Int /\ open \in Int
  BY <1>2, <1>6 DEF Positions
<1>11. PICK c, o : c = OpeningFees(fs) /\ o = OpeningFees(Append(fs, b))
  OBVIOUS
<1>12. c \in Int /\ o = c + open /\ Earnings[s] = p.realized - c /\ Earnings'[s] = n.realized - o
  BY <1>8, <1>9, <1>11
<1>13. Earnings'[s] - Earnings[s] = (n.realized - p.realized) - open
  BY <1>10, <1>12
<1> QED BY <1>1, <1>7, <1>9, <1>13

LEMMA SettlementAddsUp ==
  ASSUME Inv, Inv', Money, PositionsFromFills, AddsUp, OpenBar
  PROVE  AddsUp'
PROOF
<1>1. OrderTypes' /\ Typed(marks') /\ bar + 1 \in Nat
  BY OpenBarOrders DEF Inv
<1>2. PICK mk, now : mk = marks' /\ now = bar + 1
  OBVIOUS
<1>3. Settle(mk, now) /\ Typed(mk) /\ now \in Nat
  BY <1>1, <1>2 DEF OpenBar
<1>4. PICK g, c, e, d, h : g = Gains(mk, now) /\ c = Costs /\ e = Earnings /\ d = Costs' /\ h = Earnings'
  OBVIOUS
<1>5. g \in [Symbols -> Int] /\ cash' = cash + SumOf(g)
  BY <1>3, <1>4, SettleCash DEF Inv
<1>6. AccountTypes /\ AccountTypes' /\ cash \in Int
  BY DEF Inv, Money
<1>7. c \in [Symbols -> Int] /\ e \in [Symbols -> Int]
  BY <1>4, <1>6, EarningsType DEF AccountTypes, Costs, Earnings
<1>8. d \in [Symbols -> Int] /\ h \in [Symbols -> Int]
  <2>1. Costs' \in [Symbols -> Int] /\ Earnings' \in [Symbols -> Int]
    BY <1>6, EarningsType DEF AccountTypes, Costs, Earnings
  <2> QED BY <1>4, <2>1
<1>9. \A s \in Symbols : g[s] + (d[s] - c[s]) = h[s] - e[s]
  <2> SUFFICES ASSUME NEW s \in Symbols PROVE g[s] + (d[s] - c[s]) = h[s] - e[s]
    OBVIOUS
  <2>1. g[s] \in Int /\ c[s] \in Int /\ d[s] \in Int /\ e[s] \in Int /\ h[s] \in Int
    BY <1>5, <1>7, <1>8
  <2>2. CASE s \in DueNow(now)
    <3>1. PICK b \in Fills :
            /\ FillsOf(fills', s) = Append(FillsOf(fills, s), b) /\ b.fee = 0 /\ SignedFill(b) = -pos[s].qty
            /\ pos'[s] = ApplyFill(pos[s], -pos[s].qty, SettlePrice(s, mk), 0, Mult[s])
      BY <1>3, <1>6, <2>2, SettleBooks
    <3>2. PICK q, price, m : q = pos[s].qty /\ price = SettlePrice(s, mk) /\ m = Mult[s]
      OBVIOUS
    <3>3. q \in Int /\ q # 0 /\ price \in Int /\ m \in Int /\ s \in Options
      <4>1. s \in Options
        BY <2>2 DEF DueNow
      <4> QED BY <1>3, <1>6, <2>2, <3>2, <4>1, PositionQty, SettlePriceType, BacktestAssumption DEF DueNow
    <3>4. ExactAverage(pos[s], -q, price)
      BY <3>2, <3>3 DEF ExactAverage, SameDirection
    <3>5. -q \in Int /\ -q # 0
      BY <3>3
    <3>6. /\ CashAfter(cash, -q, price, 0, m) \in Int
          /\ (CashAfter(cash, -q, price, 0, m) - cash) + (Costs'[s] - Costs[s]) = Earnings'[s] - Earnings[s]
      <4>1. PICK z : z = -q
        OBVIOUS
      <4>2. /\ z \in Int /\ z # 0 /\ ExactAverage(pos[s], z, price)
            /\ pos'[s] = ApplyFill(pos[s], z, price, b.fee, Mult[s]) /\ SignedFill(b) = z
            /\ FillsOf(fills', s) = Append(FillsOf(fills, s), b) /\ price \in Int
        BY <3>1, <3>2, <3>3, <3>4, <3>5, <4>1
      <4>3. /\ CashAfter(cash, z, price, b.fee, Mult[s]) \in Int
            /\ (CashAfter(cash, z, price, b.fee, Mult[s]) - cash) + (Costs'[s] - Costs[s])
                 = Earnings'[s] - Earnings[s]
        BY <1>6, <4>2, SymbolAddsUp, ZenonT(30)
      <4> QED BY <3>1, <3>2, <4>1, <4>3
    <3>7. g[s] = q * price * m
      BY <1>4, <2>2, <3>2 DEF Gains
    <3>8. CashAfter(cash, -q, price, 0, m) = cash + q * price * m
      <4>1. CashAfter(cash, -q, price, 0, m) = cash - (-q) * price * m - 0
        BY DEF CashAfter
      <4>2. (-q) * price = -(q * price) /\ q * price \in Int
        BY <3>3, Products
      <4>3. (-(q * price)) * m = -((q * price) * m) /\ q * price * m \in Int
        BY <3>3, <4>2, Products
      <4> QED BY <1>6, <4>1, <4>2, <4>3
    <3> QED BY <1>4, <1>6, <2>1, <3>6, <3>7, <3>8
  <2>3. CASE s \notin DueNow(now)
    <3>1. FillsOf(fills', s) = FillsOf(fills, s) /\ pos'[s] = pos[s]
      BY <1>3, <1>6, <2>3, SettleBooks
    <3>2. g[s] = 0 /\ d[s] = c[s] /\ h[s] = e[s]
      BY <1>4, <2>3, <3>1 DEF Gains, Costs, Earnings, CostsOf, EarningsOf
    <3> QED BY <2>1, <3>2
  <2> QED BY <2>2, <2>3
<1>10. PICK u, w : u = [s \in Symbols |-> g[s] + d[s]] /\ w = [s \in Symbols |-> u[s] + e[s]]
  OBVIOUS
<1>11. u \in [Symbols -> Int] /\ w \in [Symbols -> Int]
  BY <1>5, <1>7, <1>8, <1>10
<1>12. SumOf(u) = SumOf(g) + SumOf(d)
  BY <1>5, <1>8, <1>10, <1>11, SumOfAdds
<1>13. SumOf(w) = SumOf(u) + SumOf(e)
  BY <1>7, <1>10, <1>11, SumOfAdds
<1>14. \A s \in Symbols : w[s] = h[s] + c[s]
  <2> SUFFICES ASSUME NEW s \in Symbols PROVE w[s] = h[s] + c[s]
    OBVIOUS
  <2>1. g[s] \in Int /\ c[s] \in Int /\ d[s] \in Int /\ e[s] \in Int /\ h[s] \in Int
    BY <1>5, <1>7, <1>8
  <2>2. w[s] = (g[s] + d[s]) + e[s] /\ g[s] + (d[s] - c[s]) = h[s] - e[s]
    BY <1>9, <1>10
  <2> QED BY <2>1, <2>2
<1>15. SumOf(w) = SumOf(h) + SumOf(c)
  BY <1>7, <1>8, <1>11, <1>14, SumOfAdds
<1>16. SumOf(g) \in Int /\ SumOf(c) \in Int /\ SumOf(d) \in Int /\ SumOf(e) \in Int /\ SumOf(h) \in Int
  BY <1>5, <1>7, <1>8, SumOfType
<1>17. cash + SumOf(c) = StartCash + SumOf(e) /\ StartCash \in Int
  BY <1>4, BacktestAssumption DEF AddsUp
<1>18. cash' + SumOf(d) = StartCash + SumOf(h)
  <2>1. PICK sg, sc1, sd, se, sh : /\ sg = SumOf(g) /\ sc1 = SumOf(c) /\ sd = SumOf(d)
                                   /\ se = SumOf(e) /\ sh = SumOf(h)
    OBVIOUS
  <2>2. /\ sg \in Int /\ sc1 \in Int /\ sd \in Int /\ se \in Int /\ sh \in Int
        /\ (sg + sd) + se = sh + sc1 /\ cash' = cash + sg /\ cash + sc1 = StartCash + se
    BY <1>5, <1>12, <1>13, <1>15, <1>16, <1>17, <2>1
  <2>3. cash' + sd = StartCash + sh
    BY <1>6, <1>17, <2>2
  <2> QED BY <2>1, <2>3
<1> QED BY <1>4, <1>18 DEF AddsUp, SumOf, Listed

LEMMA FillAddsUp ==
  ASSUME Inv, Inv', Money, PositionsFromFills, AveragesExact, AddsUp, NEW i \in todo, Fill(i)
  PROVE  AddsUp'
PROOF
<1>1. PICK o, f, x, q : o = book[i] /\ f = FillNow(i) /\ x = o.sym /\ q = Signed(o.side, f.qty)
  OBVIOUS
<1>2. x \in Symbols /\ f.price \in Int /\ f.fee \in Int /\ q \in Int /\ q # 0
  BY <1>1, Booked
<1>3. PICK b \in Fills :
        /\ fills' = Append(fills, b) /\ b.sym = x /\ b.fee = f.fee /\ SignedFill(b) = q
        /\ \A s \in Symbols :
             pos'[s] = IF s = x THEN ApplyFill(pos[s], q, f.price, f.fee, Mult[s]) ELSE pos[s]
        /\ cash' = CashAfter(cash, q, f.price, f.fee, Mult[x])
  BY <1>1, FillBooks
<1>4. AccountTypes /\ AccountTypes' /\ cash \in Int /\ fills \in Seq(Fills)
  BY DEF Inv, Money, AccountTypes
<1>5. \A s \in Symbols : FillsOf(fills', s) = IF s = x THEN Append(FillsOf(fills, s), b) ELSE FillsOf(fills, s)
  BY <1>3, <1>4, FillsOfAppend
<1>6. PICK c, e, d, h : c = Costs /\ e = Earnings /\ d = Costs' /\ h = Earnings'
  OBVIOUS
<1>7. c \in [Symbols -> Int] /\ e \in [Symbols -> Int]
  BY <1>4, <1>6, EarningsType DEF AccountTypes, Costs, Earnings
<1>8. d \in [Symbols -> Int] /\ h \in [Symbols -> Int]
  <2>1. Costs' \in [Symbols -> Int] /\ Earnings' \in [Symbols -> Int]
    BY <1>4, EarningsType DEF AccountTypes, Costs, Earnings
  <2> QED BY <1>6, <2>1
<1>9. \A s \in Symbols : s # x => d[s] = c[s] /\ h[s] = e[s]
  BY <1>3, <1>5, <1>6 DEF Costs, Earnings, CostsOf, EarningsOf
<1>10. cash' \in Int /\ (cash' - cash) + (d[x] - c[x]) = h[x] - e[x]
  <2>1. ExactAverage(pos[x], q, f.price)
    BY <1>1 DEF AveragesExact
  <2>2. /\ FillsOf(fills', x) = Append(FillsOf(fills, x), b)
        /\ pos'[x] = ApplyFill(pos[x], q, f.price, b.fee, Mult[x])
        /\ cash' = CashAfter(cash, q, f.price, b.fee, Mult[x])
    BY <1>2, <1>3, <1>5
  <2>3. PICK price : price = f.price
    OBVIOUS
  <2>4. /\ CashAfter(cash, q, price, b.fee, Mult[x]) \in Int
        /\ (CashAfter(cash, q, price, b.fee, Mult[x]) - cash) + (Costs'[x] - Costs[x])
             = Earnings'[x] - Earnings[x]
    BY <1>2, <1>3, <1>4, <2>1, <2>2, <2>3, SymbolAddsUp, SMTT(30)
  <2> QED BY <1>6, <2>2, <2>3, <2>4
<1>11. SumOf(d) = SumOf(c) + (d[x] - c[x]) /\ SumOf(h) = SumOf(e) + (h[x] - e[x])
  BY <1>2, <1>7, <1>8, <1>9, SumOfDiffers
<1>12. /\ SumOf(c) \in Int /\ SumOf(d) \in Int /\ SumOf(e) \in Int /\ SumOf(h) \in Int
       /\ c[x] \in Int /\ d[x] \in Int /\ e[x] \in Int /\ h[x] \in Int
  BY <1>2, <1>7, <1>8, SumOfType
<1>13. cash + SumOf(c) = StartCash + SumOf(e) /\ StartCash \in Int
  BY <1>6, BacktestAssumption DEF AddsUp
<1>14. cash' + SumOf(d) = StartCash + SumOf(h)
  <2>1. PICK sc1, sd, se, sh, dc, dh :
          /\ sc1 = SumOf(c) /\ sd = SumOf(d) /\ se = SumOf(e) /\ sh = SumOf(h)
          /\ dc = d[x] - c[x] /\ dh = h[x] - e[x]
    OBVIOUS
  <2>2. /\ sc1 \in Int /\ sd \in Int /\ se \in Int /\ sh \in Int /\ dc \in Int /\ dh \in Int
        /\ sd = sc1 + dc /\ sh = se + dh
    BY <1>11, <1>12, <2>1
  <2>3. (cash' - cash) + dc = dh /\ cash + sc1 = StartCash + se
    BY <1>10, <1>13, <2>1
  <2>4. cash \in Int /\ cash' \in Int /\ StartCash \in Int
    BY <1>4, <1>10, <1>13
  <2>5. cash' = cash + (dh - dc)
    <3>1. PICK k, l : k = cash /\ l = cash'
      OBVIOUS
    <3>2. k \in Int /\ l \in Int /\ dc \in Int /\ dh \in Int /\ (l - k) + dc = dh
      BY <2>2, <2>3, <2>4, <3>1
    <3>3. l = k + (dh - dc)
      BY <3>2
    <3> QED BY <3>1, <3>3
  <2>6. cash' + sd = (cash + sc1) + dh
    BY <2>2, <2>4, <2>5
  <2>7. (cash + sc1) + dh = StartCash + sh
    BY <2>2, <2>3, <2>4
  <2> QED BY <2>1, <2>6, <2>7
<1> QED BY <1>6, <1>14 DEF AddsUp, SumOf, Listed

\* Cash and the cost of what is held are the starting cash plus what was earned,
\* over any extensions, reductions, flips through zero and settlements
\* (Portfolio.apply_fill), for as long as the averages are exact.
THEOREM AccountAddsUp == Spec /\ []AveragesExact => []PnlAddsUp
PROOF
<1>1. Inv /\ Init => AddsUp
  <2> SUFFICES ASSUME Inv, Init PROVE AddsUp
    OBVIOUS
  <2>1. Costs \in [Symbols -> Int] /\ Earnings \in [Symbols -> Int]
    BY EarningsType DEF Inv, AccountTypes, Costs, Earnings
  <2>2. \A s \in Symbols : Costs[s] = 0 /\ Earnings[s] = 0
    <3> SUFFICES ASSUME NEW s \in Symbols PROVE Costs[s] = 0 /\ Earnings[s] = 0
      OBVIOUS
    <3>1. FillsOf(fills, s) = << >> /\ pos[s].qty = 0 /\ pos[s].avg = 0 /\ pos[s].realized = 0
      BY PickedEmpty DEF Init, FillsOf, Flat
    <3>2. OpeningFees(<< >>) = 0
      <4>1. PICK a : a \in Seq(Int) /\ Len(a) = Len(<< >>) /\ OpeningFees(<< >>) = Total(a)
        <5>1. << >> \in Seq(Fills)
          OBVIOUS
        <5> QED BY <5>1, OpeningFeesAre
      <4>2. a = << >>
        BY <4>1
      <4> QED BY <4>1, <4>2, TotalEmpty
    <3>3. Mult[s] \in Int
      BY BacktestAssumption
    <3> QED BY <3>1, <3>2, <3>3 DEF Costs, Earnings, CostsOf, EarningsOf
  <2>3. SumOf(Costs) = 0 /\ SumOf(Earnings) = 0
    BY <2>1, <2>2, SumOfNothing
  <2>4. cash = StartCash /\ StartCash \in Int
    BY BacktestAssumption DEF Init
  <2> QED BY <2>3, <2>4 DEF AddsUp
<1>2. Inv /\ Inv' /\ Money /\ PositionsFromFills /\ AveragesExact /\ AddsUp /\ [Next]_vars => AddsUp'
  <2> SUFFICES ASSUME Inv, Inv', Money, PositionsFromFills, AveragesExact, AddsUp, [Next]_vars
               PROVE  AddsUp'
    OBVIOUS
  <2>1. ASSUME UNCHANGED account PROVE AddsUp'
    BY <2>1 DEF account, AddsUp, Costs, Earnings, CostsOf, EarningsOf, SumOf, Listed
  <2>2. CASE OpenBar
    BY <2>2, SettlementAddsUp
  <2>3. CASE FillNext
    <3>1. PICK i \in todo : Rest(i) \/ Reject(i) \/ Fill(i)
      BY <2>3 DEF FillNext
    <3>2. CASE Rest(i) \/ Reject(i)
      BY <2>1, <3>2 DEF Rest, Reject
    <3>3. CASE Fill(i)
      BY <3>3, FillAddsUp
    <3> QED BY <3>1, <3>2, <3>3
  <2>4. CASE OnBar \/ UNCHANGED vars
    BY <2>1, <2>4 DEF OnBar, vars
  <2> QED BY <2>2, <2>3, <2>4 DEF Next
<1>3. Inv /\ AddsUp => PnlAddsUp
  BY AddsUpIs DEF Inv
<1> QED BY <1>1, <1>2, <1>3, PositionsAreFills, MoneyAlways, InvAlways, PTL DEF Spec

(***************************************************************************)
(* Where the round trips of a list of fills lie.                           *)
(***************************************************************************)
\* b is the close before place i, or 0.
CloseBefore(fs, i, b) ==
  /\ b = 0 \/ (b \in Closings(fs) /\ b < i)
  /\ \A e \in Closings(fs) : e < i => e <= b

LEMMA ClosingPlaces ==
  ASSUME NEW fs \in Seq(Fills), NEW e
  PROVE  e \in Closings(fs) <=> e \in 1 .. Len(fs) /\ RunningQty(fs, e) = 0
PROOF
<1>1. DOMAIN fs = 1 .. Len(fs)
  OBVIOUS
<1> QED BY <1>1 DEF Closings

LEMMA CloseBeforeExists ==
  ASSUME NEW fs \in Seq(Fills), NEW i \in Nat
  PROVE  \E b \in 0 .. Len(fs) : CloseBefore(fs, i, b)
PROOF
<1>1. PICK earlier : earlier = {e \in Closings(fs) : e < i}
  OBVIOUS
<1>2. Len(fs) \in Nat /\ earlier \in SUBSET (1 .. Len(fs))
  BY <1>1, ClosingPlaces
<1>3. CASE earlier = {}
  <2>1. CloseBefore(fs, i, 0)
    BY <1>1, <1>3 DEF CloseBefore
  <2> QED BY <1>2, <2>1
<1>4. CASE earlier # {}
  <2>1. PICK b : b \in earlier /\ \A e \in earlier : e <= b
    BY <1>2, <1>4, MaxPlace
  <2>2. CloseBefore(fs, i, b)
    BY <1>1, <2>1 DEF CloseBefore
  <2> QED BY <1>2, <2>1, <2>2
<1> QED BY <1>3, <1>4

\* The trip that ends at place i begins after the close before it.
LEMMA TripIs ==
  ASSUME NEW fs \in Seq(Fills), NEW i \in Nat, NEW b \in Nat, CloseBefore(fs, i, b)
  PROVE  TripEndingAt(fs, i) = SubSeq(fs, b + 1, i)
PROOF
<1>1. PICK earlier : earlier = {e \in Closings(fs) : e < i}
  OBVIOUS
<1>2. \A e \in earlier : e \in Nat /\ e # 0
  BY <1>1, ClosingPlaces
<1>3. PICK before : before = IF earlier = {} THEN 0 ELSE CHOOSE e \in earlier : \A d \in earlier : d <= e
  OBVIOUS
<1>4. TripEndingAt(fs, i) = SubSeq(fs, before + 1, i)
  BY <1>1, <1>3 DEF TripEndingAt
<1>5. CASE earlier = {}
  <2>1. b = 0
    BY <1>1, <1>5 DEF CloseBefore
  <2> QED BY <1>3, <1>4, <1>5, <2>1
<1>6. CASE earlier # {}
  <2>1. PICK e \in earlier : TRUE
    BY <1>6
  <2>2. e <= b
    BY <1>1, <2>1 DEF CloseBefore
  <2>3. b # 0
    BY <1>2, <2>1, <2>2
  <2>4. b \in earlier /\ \A d \in earlier : d <= b
    BY <1>1, <2>3 DEF CloseBefore
  <2>5. before \in earlier /\ \A d \in earlier : d <= before
    BY <1>3, <1>6, <2>4
  <2>6. before <= b /\ b <= before /\ before \in Nat
    BY <1>2, <2>4, <2>5
  <2>7. before = b
    BY <2>6
  <2> QED BY <1>4, <2>7
<1> QED BY <1>5, <1>6

\* One more fill leaves the closes before it where they were.
LEMMA ClosingsAppend ==
  ASSUME NEW p \in Seq(Fills), NEW f \in Fills, NEW n \in Nat, n = Len(p), NEW x, x = Append(p, f)
  PROVE  /\ x \in Seq(Fills) /\ Len(x) = n + 1 /\ x[n + 1] = f /\ \A i \in 1 .. n : x[i] = p[i]
         /\ \A e \in 1 .. n : e \in Closings(x) <=> e \in Closings(p)
         /\ \A e : e \in Closings(p) => e \in 1 .. n
         /\ \A e : e \in Closings(x) => e \in 1 .. n + 1
         /\ \A i \in 1 .. n + 1 : \A b : CloseBefore(x, i, b) <=> CloseBefore(p, i, b)
PROOF
<1>1. x \in Seq(Fills) /\ Len(x) = n + 1 /\ x[n + 1] = f /\ \A i \in 1 .. n : x[i] = p[i]
  OBVIOUS
<1>2. \A e \in 1 .. n : RunningQty(x, e) = RunningQty(p, e)
  BY RunningEarlier
<1>3. \A e \in 1 .. n : e \in 1 .. n + 1
  OBVIOUS
<1>4. \A e \in 1 .. n : e \in Closings(x) <=> e \in Closings(p)
  BY <1>1, <1>2, <1>3, ClosingPlaces
<1>5. \A e : e \in Closings(p) => e \in 1 .. n
  BY ClosingPlaces
<1>6. \A e : e \in Closings(x) => e \in 1 .. n + 1
  BY <1>1, ClosingPlaces
<1>7. ASSUME NEW i \in 1 .. n + 1, NEW e PROVE e \in Closings(x) /\ e < i <=> e \in Closings(p) /\ e < i
  <2>1. e \in Closings(x) /\ e < i => e \in 1 .. n
    BY <1>6
  <2> QED BY <1>4, <1>5, <2>1
<1>8. ASSUME NEW i \in 1 .. n + 1, NEW b PROVE CloseBefore(x, i, b) <=> CloseBefore(p, i, b)
  BY <1>7 DEF CloseBefore
<1> QED BY <1>1, <1>4, <1>5, <1>6, <1>8

LEMMA TripsKept ==
  ASSUME NEW p \in Seq(Fills), NEW f \in Fills, NEW n \in Nat, n = Len(p), NEW x, x = Append(p, f),
         NEW i \in 1 .. n
  PROVE  TripEndingAt(x, i) = TripEndingAt(p, i)
PROOF
<1>1. x \in Seq(Fills) /\ Len(x) = n + 1 /\ \A b : CloseBefore(x, i, b) <=> CloseBefore(p, i, b)
  <2>1. i \in 1 .. n + 1
    OBVIOUS
  <2>2. \A j \in 1 .. n + 1 : \A b : CloseBefore(x, j, b) <=> CloseBefore(p, j, b)
    BY ClosingsAppend
  <2>3. x \in Seq(Fills) /\ Len(x) = n + 1
    OBVIOUS
  <2> QED BY <2>1, <2>2, <2>3
<1>2. PICK b \in 0 .. n : CloseBefore(p, i, b)
  BY CloseBeforeExists
<1>3. TripEndingAt(p, i) = SubSeq(p, b + 1, i)
  BY <1>2, TripIs
<1>4. TripEndingAt(x, i) = SubSeq(x, b + 1, i)
  <2>1. CloseBefore(x, i, b) /\ b \in Nat /\ i \in Nat /\ x \in Seq(Fills)
    BY <1>1, <1>2
  <2> QED BY <2>1, TripIs
<1>5. SubSeq(x, b + 1, i) = SubSeq(p, b + 1, i)
  OBVIOUS
<1> QED BY <1>3, <1>4, <1>5

\* What a trip earned, fill by fill.
Worth(f) == SaleValue(f) - FeeOf(f)

LEMMA WorthType == ASSUME NEW f \in Fills PROVE SaleValue(f) \in Int /\ FeeOf(f) \in Int /\ Worth(f) \in Int
PROOF
<1>1. SignedFill(f) \in Int /\ f.price \in Int /\ f.fee \in Int
  BY SignedType DEF Fills
<1>2. PICK q, x : q = SignedFill(f) /\ x = f.price
  OBVIOUS
<1>3. q * x \in Int /\ -(q * x) \in Int
  BY <1>1, <1>2, Products
<1>4. SaleValue(f) \in Int
  BY <1>2, <1>3 DEF SaleValue
<1> QED BY <1>1, <1>4 DEF Worth, FeeOf

SaleValues(fs) == [i \in DOMAIN fs |-> SaleValue(fs[i])]
FeesOf(fs) == [i \in DOMAIN fs |-> FeeOf(fs[i])]

LEMMA NetPnlIs == ASSUME NEW fs PROVE NetPnl(fs) = Total(SaleValues(fs)) - Total(FeesOf(fs))
BY DEF NetPnl, SumOver, SaleValues, FeesOf

LEMMA NetPnlEmpty == NetPnl(<< >>) = 0
PROOF
<1>1. SaleValues(<< >>) = << >> /\ FeesOf(<< >>) = << >>
  BY DEF SaleValues, FeesOf
<1> QED BY <1>1, NetPnlIs, TotalEmpty

LEMMA NetPnlAppend ==
  ASSUME NEW p \in Seq(Fills), NEW f \in Fills
  PROVE  NetPnl(p) \in Int /\ NetPnl(Append(p, f)) = NetPnl(p) + Worth(f)
PROOF
<1>1. PICK x, a, b, c, d : /\ x = Append(p, f) /\ a = SaleValues(p) /\ b = FeesOf(p)
                           /\ c = SaleValues(x) /\ d = FeesOf(x)
  OBVIOUS
<1>2. PICK u, w : u = SaleValue(f) /\ w = FeeOf(f)
  OBVIOUS
<1>3. u \in Int /\ w \in Int /\ Worth(f) = u - w
  BY <1>2, WorthType DEF Worth
<1>4. /\ Len(p) \in Nat /\ DOMAIN p = 1 .. Len(p) /\ DOMAIN x = 1 .. (Len(p) + 1)
      /\ x[Len(p) + 1] = f /\ \A i \in 1 .. Len(p) : x[i] = p[i] /\ p[i] \in Fills
  BY <1>1
<1>5. \A i \in 1 .. Len(p) : SaleValue(p[i]) \in Int /\ FeeOf(p[i]) \in Int
  BY <1>4, WorthType
<1>6. a \in Seq(Int) /\ Len(a) = Len(p) /\ b \in Seq(Int) /\ Len(b) = Len(p)
  BY <1>1, <1>4, <1>5 DEF SaleValues, FeesOf
<1>7. c = Append(a, u)
  BY <1>1, <1>2, <1>3, <1>4, <1>6 DEF SaleValues
<1>8. d = Append(b, w)
  BY <1>1, <1>2, <1>3, <1>4, <1>6 DEF FeesOf
<1>9. Total(a) \in Int /\ Total(b) \in Int /\ Total(c) = Total(a) + u /\ Total(d) = Total(b) + w
  BY <1>3, <1>6, <1>7, <1>8, TotalType, TotalAppend
<1>10. NetPnl(p) = Total(a) - Total(b) /\ NetPnl(x) = Total(c) - Total(d)
  BY <1>1, NetPnlIs
<1> QED BY <1>1, <1>3, <1>9, <1>10

\* What a set of trips earned.
TripsPnl(trips) == SumOver(SetToSeq(trips), NetPnl)

LEMMA NetPnlType == ASSUME NEW fs \in Seq(Fills) PROVE NetPnl(fs) \in Int
PROOF
<1>1. Fills # {} => NetPnl(fs) \in Int
  BY NetPnlAppend
<1>2. Fills = {} => fs = << >>
  <2>1. SUFFICES ASSUME Fills = {} PROVE Len(fs) = 0
    OBVIOUS
  <2>2. Len(fs) \in Nat /\ \A i \in 1 .. Len(fs) : fs[i] \in Fills
    OBVIOUS
  <2>3. ~(1 \in 1 .. Len(fs))
    BY <2>1, <2>2
  <2> QED BY <2>2, <2>3
<1> QED BY <1>1, <1>2, NetPnlEmpty

LEMMA TripsPnlIs ==
  ASSUME NEW trips \in SUBSET Seq(Fills), IsFiniteSet(trips), NEW v, v = [x \in Seq(Fills) |-> NetPnl(x)]
  PROVE  /\ v \in [Seq(Fills) -> Int] /\ SetToSeq(trips) \in Seq(Seq(Fills))
         /\ TripsPnl(trips) = Total(Values(v, SetToSeq(trips)))
PROOF
<1>1. v \in [Seq(Fills) -> Int]
  BY NetPnlType
<1>2. PICK ord : ord = SetToSeq(trips)
  OBVIOUS
<1>3. ord \in Seq(trips)
  BY <1>2, ListingAll
<1>4. \A i \in DOMAIN ord : ord[i] \in trips
  BY <1>3
<1>5. ord \in Seq(Seq(Fills))
  BY <1>3
<1>6. \A i \in DOMAIN ord : v[ord[i]] = NetPnl(ord[i])
  BY <1>4
<1>7. Values(v, ord) = [i \in DOMAIN ord |-> NetPnl(ord[i])]
  BY <1>6 DEF Values
<1> QED BY <1>1, <1>2, <1>5, <1>7 DEF TripsPnl, SumOver

LEMMA TripsPnlType ==
  ASSUME NEW trips \in SUBSET Seq(Fills), IsFiniteSet(trips)
  PROVE  TripsPnl(trips) \in Int
PROOF
<1>1. PICK v : v = [x \in Seq(Fills) |-> NetPnl(x)]
  OBVIOUS
<1>2. PICK ord : ord = SetToSeq(trips)
  OBVIOUS
<1>3. v \in [Seq(Fills) -> Int] /\ ord \in Seq(Seq(Fills)) /\ TripsPnl(trips) = Total(Values(v, ord))
  BY <1>1, <1>2, TripsPnlIs
<1>4. Values(v, ord) \in Seq(Int)
  BY <1>3, ValuesType
<1> QED BY <1>3, <1>4, TotalType

LEMMA TripsPnlAdd ==
  ASSUME NEW trips \in SUBSET Seq(Fills), IsFiniteSet(trips), NEW t \in Seq(Fills), t \notin trips,
         NEW more, more = trips \cup {t}
  PROVE  IsFiniteSet(more) /\ TripsPnl(more) = TripsPnl(trips) + NetPnl(t)
PROOF
<1>1. IsFiniteSet(more) /\ more \in SUBSET Seq(Fills)
  BY FS_AddElement
<1>2. PICK v : v = [x \in Seq(Fills) |-> NetPnl(x)]
  OBVIOUS
<1>3. PICK T : T = Seq(Fills)
  OBVIOUS
<1>4. PICK a, b : a = SetToSeq(trips) /\ b = SetToSeq(more)
  OBVIOUS
<1>5. v \in [T -> Int] /\ a \in Seq(T) /\ TripsPnl(trips) = Total(Values(v, a))
  BY <1>2, <1>3, <1>4, TripsPnlIs
<1>6. b \in Seq(T) /\ TripsPnl(more) = Total(Values(v, b))
  BY <1>1, <1>2, <1>3, <1>4, TripsPnlIs
<1>7. /\ a \in Seq(trips) /\ \A i, j \in DOMAIN a : a[i] = a[j] => i = j
      /\ \A x \in trips : \E i \in DOMAIN a : a[i] = x
  BY <1>4, ListingAll
<1>8. /\ b \in Seq(more) /\ \A i, j \in DOMAIN b : b[i] = b[j] => i = j
      /\ \A x \in more : \E i \in DOMAIN b : b[i] = x
  BY <1>1, <1>4, ListingAll, ZenonT(30)
<1>9. PICK n \in Nat, m \in Nat : n = Len(a) /\ m = Len(b) /\ DOMAIN a = 1 .. n /\ DOMAIN b = 1 .. m
  <2>1. a \in Seq(trips) /\ b \in Seq(more)
    BY <1>7, <1>8
  <2> QED BY <2>1
<1>10. (\A i \in 1 .. n : a[i] \in trips /\ a[i] # t) /\ \A i \in 1 .. m : b[i] \in more
  <2>1. \A i \in 1 .. n : a[i] \in trips
    BY <1>7, <1>9
  <2>2. \A i \in 1 .. m : b[i] \in more
    BY <1>8, <1>9
  <2> QED BY <2>1, <2>2, Zenon
<1>11. t \in T
  BY <1>3
<1>12. PICK c : c = Append(a, t)
  OBVIOUS
<1>13. c \in Seq(T) /\ Len(c) = n + 1 /\ c[n + 1] = t /\ \A i \in 1 .. n : c[i] = a[i]
  BY <1>5, <1>9, <1>11, <1>12
<1>14. \A i \in 1 .. n + 1 : i = n + 1 \/ i \in 1 .. n
  OBVIOUS
<1>15. OneToOne(c)
  <2>1. SUFFICES ASSUME NEW i \in 1 .. n + 1, NEW j \in 1 .. n + 1, c[i] = c[j] PROVE i = j
    BY <1>13 DEF OneToOne
  <2>2. \A h, k \in 1 .. n : a[h] = a[k] => h = k
    BY <1>7, <1>9
  <2> QED BY <1>10, <1>13, <1>14, <2>1, <2>2
<1>16. OneToOne(b)
  BY <1>8, <1>9 DEF OneToOne
<1>17. Within(c, b)
  <2>1. SUFFICES ASSUME NEW i \in 1 .. n + 1 PROVE \E j \in 1 .. m : c[i] = b[j]
    BY <1>9, <1>13 DEF Within
  <2>2. c[i] \in more
    BY <1>10, <1>13, <1>14
  <2> QED BY <1>8, <1>9, <2>2
<1>18. Within(b, c)
  <2>1. SUFFICES ASSUME NEW j \in 1 .. m PROVE \E i \in 1 .. n + 1 : b[j] = c[i]
    BY <1>9, <1>13 DEF Within
  <2>2. b[j] \in trips \/ b[j] = t
    BY <1>10
  <2>3. n + 1 \in 1 .. n + 1 /\ \A i \in 1 .. n : i \in 1 .. n + 1
    OBVIOUS
  <2> QED BY <1>7, <1>9, <1>13, <2>2, <2>3
<1>19. Total(Values(v, c)) = Total(Values(v, b))
  BY <1>5, <1>6, <1>13, <1>15, <1>16, <1>17, <1>18, OrderIrrelevant
<1>20. Total(Values(v, c)) = Total(Values(v, a)) + v[t]
  <2>1. v \in [T -> Int] /\ a \in Seq(T) /\ t \in T
    BY <1>5, <1>11
  <2>2. Total(Values(v, Append(a, t))) = Total(Values(v, a)) + v[t]
    BY <2>1, ValuesAppend
  <2> QED BY <1>12, <2>2
<1>21. v[t] = NetPnl(t)
  BY <1>2
<1> QED BY <1>1, <1>5, <1>6, <1>19, <1>20, <1>21

\* The fills since the last close, and the trips before it.
OpenFrom(fs, b) == SubSeq(fs, b + 1, Len(fs))

Different(fs) == \A j, k \in 1 .. Len(fs) : fs[j] = fs[k] => j = k

\* The closed trips of a list and what is open since make up the list, in money.
TripsCover(fs) ==
  /\ ClosedTrips(fs) \in SUBSET Seq(Fills) /\ IsFiniteSet(ClosedTrips(fs))
  /\ \A b \in 0 .. Len(fs) : CloseBefore(fs, Len(fs) + 1, b) =>
       TripsPnl(ClosedTrips(fs)) + NetPnl(OpenFrom(fs, b)) = NetPnl(fs)

LEMMA TripsCoverAppend ==
  ASSUME NEW p \in Seq(Fills), NEW f \in Fills, NEW n \in Nat, n = Len(p), NEW x, x = Append(p, f),
         Different(x), TripsCover(p)
  PROVE  TripsCover(x)
PROOF
<1>1. /\ x \in Seq(Fills) /\ Len(x) = n + 1 /\ x[n + 1] = f /\ \A i \in 1 .. n : x[i] = p[i]
      /\ \A e \in 1 .. n : e \in Closings(x) <=> e \in Closings(p)
      /\ \A e : e \in Closings(p) => e \in 1 .. n
      /\ \A e : e \in Closings(x) => e \in 1 .. n + 1
      /\ \A i \in 1 .. n + 1 : \A b : CloseBefore(x, i, b) <=> CloseBefore(p, i, b)
  <2>1. x \in Seq(Fills) /\ Len(x) = n + 1 /\ x[n + 1] = f /\ \A i \in 1 .. n : x[i] = p[i]
    OBVIOUS
  <2>2. \A e \in 1 .. n : e \in Closings(x) <=> e \in Closings(p)
    BY ClosingsAppend
  <2>3. \A e : e \in Closings(p) => e \in 1 .. n
    BY ClosingsAppend
  <2>4. \A e : e \in Closings(x) => e \in 1 .. n + 1
    BY ClosingsAppend
  <2>5. \A i \in 1 .. n + 1 : \A b : CloseBefore(x, i, b) <=> CloseBefore(p, i, b)
    BY ClosingsAppend
  <2> QED BY <2>1, <2>2, <2>3, <2>4, <2>5, Zenon
<1>2. PICK old, new : old = ClosedTrips(p) /\ new = ClosedTrips(x)
  OBVIOUS
<1>3. old \in SUBSET Seq(Fills) /\ IsFiniteSet(old)
  BY <1>2 DEF TripsCover
<1>4. PICK c \in 0 .. n : CloseBefore(p, n + 1, c)
  BY CloseBeforeExists
<1>5. PICK o : o = SubSeq(p, c + 1, n)
  OBVIOUS
<1>6. o \in Seq(Fills) /\ SubSeq(x, c + 1, n + 1) = Append(o, f)
  <2>1. c \in Nat /\ c <= n /\ o \in Seq(Fills)
    BY <1>5
  <2>2. SubSeq(x, c + 1, n + 1) = Append(o, f)
    <3>1. PICK y, z : y = SubSeq(x, c + 1, n + 1) /\ z = Append(o, f)
      OBVIOUS
    <3>2. Len(o) = n - c /\ \A i \in 1 .. n - c : o[i] = p[c + i]
      BY <1>5, <2>1
    <3>3. z \in Seq(Fills) /\ Len(z) = n - c + 1 /\ z[n - c + 1] = f /\ \A i \in 1 .. n - c : z[i] = o[i]
      BY <2>1, <3>1, <3>2
    <3>4. y \in Seq(Fills) /\ Len(y) = n - c + 1 /\ \A i \in 1 .. n - c + 1 : y[i] = x[c + i]
      BY <1>1, <2>1, <3>1
    <3>5. \A i \in 1 .. n - c : c + i \in 1 .. n
      BY <2>1
    <3>6. \A i \in 1 .. n - c + 1 : y[i] = z[i]
      <4> SUFFICES ASSUME NEW i \in 1 .. n - c + 1 PROVE y[i] = z[i]
        OBVIOUS
      <4>1. CASE i = n - c + 1
        BY <1>1, <2>1, <3>3, <3>4, <4>1
      <4>2. CASE i # n - c + 1
        <5>1. i \in 1 .. n - c
          BY <2>1, <4>2
        <5> QED BY <1>1, <3>2, <3>3, <3>4, <3>5, <5>1
      <4> QED BY <4>1, <4>2
    <3> QED BY <3>1, <3>3, <3>4, <3>6, SeqEqual
  <2> QED BY <1>5, <2>1, <2>2
<1>7. /\ NetPnl(o) \in Int /\ NetPnl(Append(o, f)) = NetPnl(o) + Worth(f) /\ Worth(f) \in Int
      /\ NetPnl(p) \in Int /\ NetPnl(x) = NetPnl(p) + Worth(f) /\ NetPnl(Append(o, f)) \in Int
  <2>1. NetPnl(o) \in Int /\ NetPnl(Append(o, f)) = NetPnl(o) + Worth(f)
    BY <1>6, NetPnlAppend
  <2>2. NetPnl(p) \in Int /\ NetPnl(x) = NetPnl(p) + Worth(f)
    BY NetPnlAppend
  <2> QED BY <2>1, <2>2, WorthType
<1>8. TripsPnl(old) + NetPnl(o) = NetPnl(p) /\ TripsPnl(old) \in Int
  <2>1. o = OpenFrom(p, c)
    BY <1>5 DEF OpenFrom
  <2> QED BY <1>2, <1>3, <1>4, <2>1, TripsPnlType DEF TripsCover
<1>9. \A i \in 1 .. n : TripEndingAt(x, i) = TripEndingAt(p, i)
  BY TripsKept, ZenonT(30)
<1>10. old \subseteq new
  <2>1. \A e \in Closings(p) : e \in Closings(x) /\ TripEndingAt(x, e) = TripEndingAt(p, e)
    BY <1>1, <1>9
  <2> QED BY <1>2, <2>1 DEF ClosedTrips
<1>11. \A t \in new : t \in old \/ (n + 1 \in Closings(x) /\ t = TripEndingAt(x, n + 1))
  <2>1. SUFFICES ASSUME NEW e \in Closings(x)
                 PROVE  TripEndingAt(x, e) \in old \/ (n + 1 \in Closings(x) /\ e = n + 1)
    BY <1>2 DEF ClosedTrips
  <2>2. e \in 1 .. n \/ e = n + 1
    BY <1>1
  <2>3. CASE e \in 1 .. n
    BY <1>1, <1>2, <1>9, <2>3 DEF ClosedTrips
  <2> QED BY <2>2, <2>3
<1>12. CASE n + 1 \notin Closings(x)
  <2>1. new = old
    BY <1>10, <1>11, <1>12
  <2>2. \A b \in 0 .. n + 1 : CloseBefore(x, n + 2, b) => b = c
    <3> SUFFICES ASSUME NEW b \in 0 .. n + 1, CloseBefore(x, n + 2, b) PROVE b = c
      OBVIOUS
    <3>1. \A e \in Closings(x) : e \in 1 .. n
      BY <1>1, <1>12
    <3>2. \A e \in Closings(p) : e <= b
      BY <1>1 DEF CloseBefore
    <3>3. b = 0 \/ b \in Closings(p)
      BY <1>1, <3>1 DEF CloseBefore
    <3>4. b <= c
      BY <1>1, <1>4, <3>3 DEF CloseBefore
    <3>5. c <= b
      BY <1>4, <3>2 DEF CloseBefore
    <3> QED BY <3>4, <3>5
  <2>3. OpenFrom(x, c) = Append(o, f)
    BY <1>1, <1>6 DEF OpenFrom
  <2>4. TripsPnl(new) + NetPnl(OpenFrom(x, c)) = NetPnl(x)
    BY <1>7, <1>8, <2>1, <2>3
  <2>5. Len(x) + 1 = n + 2
    BY <1>1
  <2> QED BY <1>1, <1>2, <1>3, <2>1, <2>2, <2>4, <2>5 DEF TripsCover
<1>13. CASE n + 1 \in Closings(x)
  <2>1. PICK t : t = Append(o, f)
    OBVIOUS
  <2>2. TripEndingAt(x, n + 1) = t
    <3>1. CloseBefore(x, n + 1, c) /\ c \in Nat /\ n + 1 \in Nat
      BY <1>1, <1>4
    <3> QED BY <1>1, <1>6, <2>1, <3>1, TripIs
  <2>3. t \in Seq(Fills) /\ t \in new
    BY <1>2, <1>6, <1>13, <2>1, <2>2 DEF ClosedTrips
  <2>4. t \notin old
    <3>1. SUFFICES ASSUME t \in old PROVE FALSE
      OBVIOUS
    <3>2. PICK i \in Closings(p) : t = TripEndingAt(p, i)
      BY <1>2, <3>1 DEF ClosedTrips
    <3>3. i \in 1 .. n
      BY <1>1
    <3>4. PICK b \in 0 .. n : CloseBefore(p, i, b)
      BY <3>3, CloseBeforeExists
    <3>5. b < i
      BY <3>3, <3>4 DEF CloseBefore
    <3>6. t = SubSeq(p, b + 1, i)
      BY <3>2, <3>3, <3>4, TripIs
    <3>7. Len(t) = i - b /\ t[i - b] = p[i]
      BY <3>3, <3>5, <3>6
    <3>8. Len(t) \in Nat /\ t[Len(t)] = f
      BY <1>6, <2>1
    <3>9. x[i] = x[n + 1]
      BY <1>1, <3>3, <3>7, <3>8
    <3>10. i \in 1 .. Len(x) /\ n + 1 \in 1 .. Len(x) /\ i # n + 1
      BY <1>1, <3>3
    <3> QED BY <3>9, <3>10 DEF Different
  <2>5. new = old \cup {t}
    BY <1>10, <1>11, <2>2, <2>3
  <2>6. IsFiniteSet(new) /\ TripsPnl(new) = TripsPnl(old) + NetPnl(t)
    BY <1>3, <2>3, <2>4, <2>5, TripsPnlAdd
  <2>7. \A b \in 0 .. n + 1 : CloseBefore(x, n + 2, b) => b = n + 1
    BY <1>13 DEF CloseBefore
  <2>8. NetPnl(OpenFrom(x, n + 1)) = 0
    <3>1. OpenFrom(x, n + 1) = << >>
      BY <1>1 DEF OpenFrom
    <3> QED BY <3>1, NetPnlEmpty
  <2>9. TripsPnl(new) + NetPnl(OpenFrom(x, n + 1)) = NetPnl(x)
    BY <1>7, <1>8, <2>1, <2>6, <2>8
  <2>10. Len(x) + 1 = n + 2
    BY <1>1
  <2>11. new \in SUBSET Seq(Fills)
    BY <1>3, <2>3, <2>5
  <2> QED BY <1>1, <1>2, <2>6, <2>7, <2>9, <2>10, <2>11 DEF TripsCover
<1> QED BY <1>12, <1>13

LEMMA TripsCoverAll ==
  ASSUME NEW fs \in Seq(Fills), Different(fs)
  PROVE  TripsCover(fs)
PROOF
<1> DEFINE S == {n \in Nat : \A x \in Seq(Fills) : Len(x) = n /\ Different(x) => TripsCover(x)}
<1>1. 0 \in S
  <2>1. SUFFICES ASSUME NEW x \in Seq(Fills), Len(x) = 0 PROVE TripsCover(x)
    OBVIOUS
  <2>2. x = << >>
    BY <2>1
  <2>3. Closings(x) = {}
    <3>1. \A e \in Closings(x) : e \in 1 .. 0
      BY <2>1, ClosingPlaces
    <3> QED BY <3>1
  <2>4. ClosedTrips(x) = {}
    BY <2>3 DEF ClosedTrips
  <2>5. IsFiniteSet({}) /\ Cardinality({}) = 0
    BY FS_EmptySet
  <2>6. TripsPnl({}) = 0
    <3>1. PICK ord : ord = SetToSeq({})
      OBVIOUS
    <3>2. ord \in Seq({})
      BY <2>5, <3>1, ListingAll
    <3>3. ord = << >>
      <4>1. Len(ord) \in Nat /\ \A i \in 1 .. Len(ord) : ord[i] \in {}
        BY <3>2
      <4>2. ~(1 \in 1 .. Len(ord))
        BY <4>1
      <4> QED BY <3>2, <4>1, <4>2
    <3>4. [i \in DOMAIN << >> |-> NetPnl(<< >>[i])] = << >>
      OBVIOUS
    <3> QED BY <3>1, <3>3, <3>4, TotalEmpty DEF TripsPnl, SumOver
  <2>7. \A b \in 0 .. 0 : OpenFrom(x, b) = << >>
    BY <2>2 DEF OpenFrom
  <2> QED BY <2>1, <2>2, <2>4, <2>5, <2>6, <2>7, NetPnlEmpty DEF TripsCover
<1>2. ASSUME NEW n \in Nat, n \in S PROVE n + 1 \in S
  <2>1. SUFFICES ASSUME NEW x \in Seq(Fills), Len(x) = n + 1, Different(x) PROVE TripsCover(x)
    OBVIOUS
  <2>2. PICK p \in Seq(Fills), f \in Fills : x = Append(p, f) /\ Len(p) = n
    BY <2>1, LastOut
  <2>3. Different(p)
    <3>1. \A i \in 1 .. n : i \in 1 .. n + 1 /\ x[i] = p[i]
      BY <2>2
    <3> QED BY <2>1, <2>2, <3>1 DEF Different
  <2>4. TripsCover(p)
    BY <1>2, <2>2, <2>3
  <2> QED BY <2>1, <2>2, <2>4, TripsCoverAppend
<1> HIDE DEF S
<1>3. Nat \subseteq S
  BY <1>1, <1>2, SetInduction, Zenon
<1>4. Len(fs) \in S
  <2>1. Len(fs) \in Nat
    OBVIOUS
  <2> QED BY <1>3, <2>1
<1> QED BY <1>4 DEF S

(***************************************************************************)
(* The fills of a backtest are in the order of their bars, and no two are  *)
(* the same: an order is tried once a bar, an option settled once.         *)
(***************************************************************************)
FillPlaces ==
  /\ \A k \in 1 .. Len(fills) :
       IF fills[k].id = 0 THEN fills[k].sym \in settled
       ELSE fills[k].bar = bar => fills[k].id \notin todo
  /\ Different(fills)
  /\ \A j, k \in 1 .. Len(fills) : j < k => fills[j].bar <= fills[k].bar

LEMMA SalesAre ==
  ASSUME AccountTypes, NEW mk, Typed(mk), NEW now \in Nat, Settle(mk, now)
  PROVE  /\ settled' = settled \cup DueNow(now)
         /\ \E sales \in Seq(Fills) :
              /\ fills' = fills \o sales
              /\ \A k \in 1 .. Len(sales) : /\ sales[k].id = 0 /\ sales[k].bar = now
                                            /\ sales[k].sym \in DueNow(now)
              /\ Different(sales)
PROOF
<1> DEFINE Sale(x) == [id |-> 0, sym |-> x, side |-> Sell, qty |-> pos[x].qty,
                       price |-> SettlePrice(x, mk), fee |-> 0, bar |-> now]
<1>1. PICK due : due = DueNow(now)
  OBVIOUS
<1>2. due \subseteq Options /\ IsFiniteSet(due) /\ Options \subseteq Symbols
  <2>1. due \subseteq Options /\ Options \subseteq Symbols /\ IsFiniteSet(Symbols)
    BY <1>1, BacktestAssumption DEF DueNow
  <2> QED BY <2>1, FS_Subset
<1>3. PICK ord : ord = SetToSeq(due)
  OBVIOUS
<1>4. ord \in Seq(due) /\ \A i, j \in DOMAIN ord : ord[i] = ord[j] => i = j
  BY <1>2, <1>3, ListingAll
<1>5. DOMAIN ord = 1 .. Len(ord) /\ Len(ord) \in Nat /\ \A k \in 1 .. Len(ord) : ord[k] \in due
  BY <1>4
<1>6. PICK sales : sales = [k \in DOMAIN ord |-> Sale(ord[k])]
  OBVIOUS
<1>7. fills' = fills \o sales /\ settled' = settled \cup due
  BY <1>1, <1>3, <1>6 DEF Settle, DueNow
<1>8. \A x \in due : Sale(x) \in Fills
  <2> SUFFICES ASSUME NEW x \in due PROVE Sale(x) \in Fills
    OBVIOUS
  <2>1. pos[x].qty \in Int
    BY <1>2, PositionQty
  <2>2. SettlePrice(x, mk) \in Int
    BY <1>2, SettlePriceType
  <2> QED BY <1>2, <2>1, <2>2 DEF Fills
<1>9. \A x : Sale(x).id = 0 /\ Sale(x).sym = x /\ Sale(x).bar = now
  OBVIOUS
<1> HIDE DEF Sale
<1>10. sales \in Seq(Fills) /\ Len(sales) = Len(ord) /\ \A k \in 1 .. Len(ord) : sales[k] = Sale(ord[k])
  BY <1>5, <1>6, <1>8
<1>11. \A k \in 1 .. Len(sales) : sales[k].id = 0 /\ sales[k].bar = now /\ sales[k].sym = ord[k] /\ ord[k] \in due
  BY <1>5, <1>9, <1>10
<1>12. Different(sales)
  BY <1>4, <1>5, <1>10, <1>11 DEF Different
<1> QED BY <1>1, <1>7, <1>10, <1>11, <1>12

LEMMA FillPlacesOpen == ASSUME Inv, FillPlaces, OpenBar PROVE FillPlaces'
PROOF
<1>1. OrderTypes' /\ Typed(marks') /\ bar + 1 \in Nat /\ bar \in Int
  BY OpenBarOrders DEF Inv, OrderTypes
<1>2. PICK mk, now : mk = marks' /\ now = bar + 1
  OBVIOUS
<1>3. Settle(mk, now) /\ Typed(mk) /\ now \in Nat /\ bar' = now
  BY <1>1, <1>2 DEF OpenBar
<1>4. PICK due : due = DueNow(now)
  OBVIOUS
<1>5. settled' = settled \cup due /\ \A x \in due : x \notin settled
  BY <1>3, <1>4, SalesAre DEF Inv, DueNow
<1>6. PICK sales \in Seq(Fills) :
        /\ fills' = fills \o sales
        /\ \A k \in 1 .. Len(sales) : sales[k].id = 0 /\ sales[k].bar = now /\ sales[k].sym \in due
        /\ Different(sales)
  BY <1>3, <1>4, SalesAre DEF Inv
<1>7. PICK n \in Nat, m \in Nat : n = Len(fills) /\ m = Len(sales)
  <2>1. Len(fills) \in Nat /\ Len(sales) \in Nat
    BY DEF Inv, AccountTypes
  <2> QED BY <2>1
<1>8. /\ fills \in Seq(Fills) /\ Len(fills') = n + m
      /\ \A k \in 1 .. n : fills'[k] = fills[k]
      /\ \A k \in n + 1 .. n + m : fills'[k] = sales[k - n] /\ k - n \in 1 .. m
  <2>1. fills \in Seq(Fills)
    BY DEF Inv, AccountTypes
  <2> QED BY <1>6, <1>7, <2>1, Concat
<1>9. \A k \in 1 .. n + m : k \in 1 .. n \/ k \in n + 1 .. n + m
  OBVIOUS
<1>10. \A k \in 1 .. n : fills[k].bar <= bar /\ fills[k].bar \in Int /\ (fills[k].id = 0 => fills[k].sym \in settled)
  <2>1. \A k \in 1 .. n : fills[k].bar <= bar /\ fills[k] \in Fills
    BY <1>7, <1>8 DEF Inv, FillsKnown
  <2> QED BY <1>7, <2>1 DEF FillPlaces, Fills
<1>11. \A k \in n + 1 .. n + m : fills'[k].id = 0 /\ fills'[k].bar = now /\ fills'[k].sym \in due
  BY <1>6, <1>7, <1>8
<1>12. ASSUME NEW k \in 1 .. n + m
       PROVE  IF fills'[k].id = 0 THEN fills'[k].sym \in settled'
              ELSE fills'[k].bar = bar' => fills'[k].id \notin todo'
  <2>1. CASE k \in 1 .. n
    <3>1. fills'[k] = fills[k] /\ fills'[k].bar # bar'
      BY <1>1, <1>2, <1>3, <1>8, <1>10, <2>1
    <3> QED BY <1>5, <1>10, <2>1, <3>1
  <2>2. CASE k \in n + 1 .. n + m
    BY <1>5, <1>11, <2>2
  <2> QED BY <1>9, <2>1, <2>2
<1>13. ASSUME NEW j \in 1 .. n + m, NEW k \in 1 .. n + m, j < k
       PROVE  fills'[j] # fills'[k] /\ fills'[j].bar <= fills'[k].bar
  <2>1. CASE k \in 1 .. n
    <3>1. j \in 1 .. n
      BY <1>13, <2>1
    <3>2. fills[j] # fills[k] /\ fills[j].bar <= fills[k].bar
      BY <1>7, <1>13, <2>1, <3>1 DEF FillPlaces, Different
    <3> QED BY <1>8, <2>1, <3>1, <3>2
  <2>2. CASE j \in 1 .. n /\ k \in n + 1 .. n + m
    <3>1. fills'[j] = fills[j] /\ fills'[k].id = 0 /\ fills'[k].bar = now /\ fills'[k].sym \in due
      BY <1>8, <1>11, <2>2
    <3>2. fills[j].bar <= now
      BY <1>1, <1>2, <1>10, <2>2
    <3>3. fills[j] # fills'[k]
      BY <1>5, <1>10, <2>2, <3>1
    <3> QED BY <3>1, <3>2, <3>3
  <2>3. CASE j \in n + 1 .. n + m /\ k \in n + 1 .. n + m
    <3>1. sales[j - n] # sales[k - n]
      BY <1>6, <1>7, <1>8, <1>13, <2>3, SMTT(30) DEF Different
    <3>2. fills'[j].bar = now /\ fills'[k].bar = now
      BY <1>11, <2>3
    <3> QED BY <1>3, <1>8, <2>3, <3>1, <3>2
  <2>4. k \in 1 .. n \/ (j \in 1 .. n /\ k \in n + 1 .. n + m) \/ (j \in n + 1 .. n + m /\ k \in n + 1 .. n + m)
    BY <1>13
  <2> QED BY <2>1, <2>2, <2>3, <2>4
<1>14. Different(fills')
  BY <1>8, <1>13 DEF Different
<1> QED BY <1>8, <1>12, <1>13, <1>14 DEF FillPlaces

LEMMA FillPlacesFill == ASSUME Inv, FillPlaces, FillNext PROVE FillPlaces'
PROOF
<1>1. bar' = bar /\ settled' = settled
  BY DEF FillNext
<1>2. PICK i \in todo : todo' = todo \ {i} /\ (Rest(i) \/ Reject(i) \/ Fill(i))
  BY DEF FillNext
<1>3. CASE fills' = fills
  BY <1>1, <1>2, <1>3 DEF FillPlaces, Different
<1>4. CASE Fill(i)
  <2>1. PICK b : b = [id |-> i, sym |-> book[i].sym, side |-> book[i].side, qty |-> FillNow(i).qty,
                      price |-> FillNow(i).price, fee |-> FillNow(i).fee, bar |-> bar]
    OBVIOUS
  <2>2. fills' = Append(fills, b) /\ b.id = i /\ b.bar = bar
    BY <1>4, <2>1 DEF Fill
  <2>3. i # 0 /\ bar \in Int /\ fills \in Seq(Fills)
    <3>1. i \in Ids
      BY DEF Inv, OrderTypes, Waiting
    <3> QED BY <3>1, QuantityTypes DEF Inv, OrderTypes, AccountTypes
  <2>4. PICK n \in Nat : n = Len(fills)
    BY <2>3
  <2>5. Len(fills') = n + 1 /\ fills'[n + 1] = b /\ \A k \in 1 .. n : fills'[k] = fills[k]
    BY <2>2, <2>3, <2>4
  <2>6. \A k \in 1 .. n : fills[k] # b /\ fills[k].bar <= bar
    <3>1. \A k \in 1 .. n : fills[k].bar <= bar
      BY <2>3, <2>4 DEF Inv, FillsKnown
    <3>2. \A k \in 1 .. n : fills[k].id = i /\ fills[k].bar = bar => FALSE
      BY <2>3, <2>4 DEF FillPlaces
    <3> QED BY <2>2, <3>1, <3>2
  <2>7. ASSUME NEW k \in 1 .. n + 1
        PROVE  IF fills'[k].id = 0 THEN fills'[k].sym \in settled'
               ELSE fills'[k].bar = bar' => fills'[k].id \notin todo'
    <3>1. CASE k = n + 1
      BY <1>2, <2>2, <2>3, <2>5, <3>1
    <3>2. CASE k # n + 1
      <4>1. k \in 1 .. n
        BY <3>2
      <4>2. IF fills[k].id = 0 THEN fills[k].sym \in settled
            ELSE fills[k].bar = bar => fills[k].id \notin todo
        BY <2>4, <4>1 DEF FillPlaces
      <4> QED BY <1>1, <1>2, <2>5, <4>1, <4>2
    <3> QED BY <3>1, <3>2
  <2>8. ASSUME NEW j \in 1 .. n + 1, NEW k \in 1 .. n + 1, j < k
        PROVE  fills'[j] # fills'[k] /\ fills'[j].bar <= fills'[k].bar
    <3>1. j \in 1 .. n
      BY <2>8
    <3>2. CASE k = n + 1
      BY <2>2, <2>5, <2>6, <3>1, <3>2
    <3>3. CASE k # n + 1
      <4>1. k \in 1 .. n
        BY <3>3
      <4> QED BY <2>4, <2>5, <2>8, <3>1, <4>1 DEF FillPlaces, Different
    <3> QED BY <3>2, <3>3
  <2>9. Different(fills')
    BY <2>5, <2>8 DEF Different
  <2> QED BY <2>5, <2>7, <2>8, <2>9 DEF FillPlaces
<1> QED BY <1>2, <1>3, <1>4 DEF Rest, Reject, account

LEMMA FillPlacesStep == Inv /\ FillPlaces /\ [Next]_vars => FillPlaces'
PROOF
<1> SUFFICES ASSUME Inv, FillPlaces, [Next]_vars PROVE FillPlaces'
  OBVIOUS
<1>1. CASE OnBar \/ UNCHANGED vars
  <2>1. fills' = fills /\ bar' = bar /\ todo' = todo /\ settled' = settled
    BY <1>1 DEF OnBar, vars, account, orders
  <2> QED BY <2>1 DEF FillPlaces, Different
<1> QED BY <1>1, FillPlacesOpen, FillPlacesFill DEF Next

LEMMA FillPlacesAlways == Spec => []FillPlaces
PROOF
<1>1. Init => FillPlaces
  BY DEF Init, FillPlaces, Different
<1> QED BY <1>1, FillPlacesStep, InvAlways, PTL DEF Spec

LEMMA FillsOfDifferent ==
  ASSUME NEW fs \in Seq(Fills), Different(fs), NEW s
  PROVE  Different(FillsOf(fs, s))
PROOF
<1>1. PICK P : P = {i \in DOMAIN fs : fs[i].sym = s}
  OBVIOUS
<1>2. PICK gs : gs = FillsOf(fs, s) /\ gs = Picked(fs, P)
  BY <1>1 DEF FillsOf
<1>3. PICK at \in Seq(Nat) : PickedAt(fs, P, gs, at)
  BY <1>2, PickedPlaces
<1>4. Len(gs) = Len(at) /\ Len(at) \in Nat
  BY <1>3 DEF PickedAt
<1>5. \A k \in 1 .. Len(at) : at[k] \in 1 .. Len(fs) /\ gs[k] = fs[at[k]]
  BY <1>3, Zenon DEF PickedAt
<1>6. \A j, k \in 1 .. Len(at) : j < k => at[j] < at[k]
  BY <1>3, Zenon DEF PickedAt
<1>7. ASSUME NEW j \in 1 .. Len(at), NEW k \in 1 .. Len(at), gs[j] = gs[k] PROVE j = k
  <2>1. at[j] = at[k]
    BY <1>5, <1>7 DEF Different
  <2>2. at[j] \in Nat /\ at[k] \in Nat /\ ~(j < k) /\ ~(k < j)
    BY <1>5, <1>6, <2>1
  <2> QED BY <2>2
<1> QED BY <1>2, <1>4, <1>7 DEF Different

(***************************************************************************)
(* The fills of a symbol, in money: what its trips and what is open earned *)
(* is what the position realised, less the opening fees and the cost of    *)
(* what is held.                                                           *)
(***************************************************************************)
TripMoney ==
  \A s \in Symbols : Mult[s] = 1 => NetPnl(FillsOf(fills, s)) + Costs[s] = Earnings[s]

LEMMA TripMoneyFill ==
  ASSUME Inv, Inv', PositionsFromFills, NEW s \in Symbols, Mult[s] = 1, NEW b \in Fills,
         NEW q \in Int, q # 0, NEW price \in Int,
         FillsOf(fills', s) = Append(FillsOf(fills, s), b), SignedFill(b) = q, b.price = price,
         pos'[s] = ApplyFill(pos[s], q, price, b.fee, Mult[s]), ExactAverage(pos[s], q, price),
         NetPnl(FillsOf(fills, s)) + Costs[s] = Earnings[s]
  PROVE  NetPnl(FillsOf(fills', s)) + Costs'[s] = Earnings'[s]
PROOF
<1>1. AccountTypes /\ AccountTypes' /\ fills \in Seq(Fills)
  BY DEF Inv, AccountTypes
<1>2. (CashAfter(0, q, price, b.fee, Mult[s]) - 0) + (Costs'[s] - Costs[s]) = Earnings'[s] - Earnings[s]
  <2>1. PICK money : money = 0
    OBVIOUS
  <2>2. money \in Int /\ q # 0
    BY <2>1
  <2>3. SignedFill(b) = q
    OBVIOUS
  <2>4. pos'[s] = ApplyFill(pos[s], q, price, b.fee, Mult[s]) /\ ExactAverage(pos[s], q, price)
    OBVIOUS
  <2>5. FillsOf(fills', s) = Append(FillsOf(fills, s), b)
    OBVIOUS
  <2>6. PositionsFromFills /\ AccountTypes /\ AccountTypes'
    BY <1>1
  <2>7. /\ CashAfter(money, q, price, b.fee, Mult[s]) \in Int
        /\ (CashAfter(money, q, price, b.fee, Mult[s]) - money) + (Costs'[s] - Costs[s])
             = Earnings'[s] - Earnings[s]
    BY <2>2, <2>3, <2>4, <2>5, <2>6, SymbolAddsUp, SMTT(30)
  <2> QED BY <2>1, <2>7
<1>3. CashAfter(0, q, price, b.fee, Mult[s]) = Worth(b) /\ Worth(b) \in Int
  <2>1. PICK z, fee : z = q * price /\ fee = b.fee
    OBVIOUS
  <2>2. z \in Int /\ fee \in Int
    BY <2>1, Products DEF Fills
  <2>3. CashAfter(0, q, price, b.fee, Mult[s]) = 0 - z * 1 - fee
    BY <2>1 DEF CashAfter
  <2>4. Worth(b) = -z - fee
    BY <2>1 DEF Worth, SaleValue, FeeOf
  <2> QED BY <2>2, <2>3, <2>4
<1>4. PICK fs : fs = FillsOf(fills, s)
  OBVIOUS
<1>5. fs \in Seq(Fills)
  BY <1>1, <1>4, FillsOfType
<1>6. NetPnl(fs) \in Int /\ NetPnl(Append(fs, b)) = NetPnl(fs) + Worth(b)
  BY <1>5, NetPnlAppend
<1>7. Costs[s] \in Int /\ Earnings[s] \in Int
  <2>1. Costs \in [Symbols -> Int] /\ Earnings \in [Symbols -> Int]
    BY <1>1, EarningsType DEF AccountTypes, Costs, Earnings
  <2> QED BY <2>1
<1>8. Costs'[s] \in Int /\ Earnings'[s] \in Int
  <2>1. Costs' \in [Symbols -> Int] /\ Earnings' \in [Symbols -> Int]
    BY <1>1, EarningsType DEF AccountTypes, Costs, Earnings
  <2> QED BY <2>1
<1>9. PICK c, e, d, h, w, p : /\ c = Costs[s] /\ e = Earnings[s] /\ d = Costs'[s] /\ h = Earnings'[s]
                              /\ w = Worth(b) /\ p = NetPnl(fs)
  OBVIOUS
<1>10. /\ c \in Int /\ e \in Int /\ d \in Int /\ h \in Int /\ w \in Int /\ p \in Int
       /\ (w - 0) + (d - c) = h - e /\ p + c = e
  BY <1>2, <1>3, <1>4, <1>6, <1>7, <1>8, <1>9
<1>11. (p + w) + d = h
  BY <1>10
<1> QED BY <1>4, <1>6, <1>9, <1>11

LEMMA TripMoneyStep ==
  Inv /\ Inv' /\ PositionsFromFills /\ AveragesExact /\ TripMoney /\ [Next]_vars => TripMoney'
PROOF
<1> SUFFICES ASSUME Inv, Inv', PositionsFromFills, AveragesExact, TripMoney, [Next]_vars,
                    NEW s \in Symbols, Mult[s] = 1
             PROVE  NetPnl(FillsOf(fills', s)) + Costs'[s] = Earnings'[s]
  BY DEF TripMoney
<1>1. NetPnl(FillsOf(fills, s)) + Costs[s] = Earnings[s]
  BY DEF TripMoney
<1>2. ASSUME FillsOf(fills', s) = FillsOf(fills, s), pos'[s] = pos[s]
      PROVE  NetPnl(FillsOf(fills', s)) + Costs'[s] = Earnings'[s]
  BY <1>1, <1>2 DEF Costs, Earnings, CostsOf, EarningsOf
<1>3. CASE OpenBar
  <2>1. OrderTypes' /\ Typed(marks') /\ bar + 1 \in Nat
    BY <1>3, OpenBarOrders DEF Inv
  <2>2. PICK mk, now : mk = marks' /\ now = bar + 1
    OBVIOUS
  <2>3. Settle(mk, now) /\ Typed(mk) /\ now \in Nat /\ AccountTypes
    BY <1>3, <2>1, <2>2 DEF OpenBar, Inv
  <2>4. CASE s \in DueNow(now)
    <3>1. PICK b \in Fills :
            /\ FillsOf(fills', s) = Append(FillsOf(fills, s), b)
            /\ b.fee = 0 /\ b.price = SettlePrice(s, mk) /\ SignedFill(b) = -pos[s].qty
            /\ pos'[s] = ApplyFill(pos[s], -pos[s].qty, SettlePrice(s, mk), 0, Mult[s])
      BY <2>3, <2>4, SettleBooks
    <3>2. PICK q, price : q = -pos[s].qty /\ price = SettlePrice(s, mk)
      OBVIOUS
    <3>3. pos[s].qty \in Int /\ pos[s].qty # 0 /\ price \in Int
      <4>1. s \in Options
        BY <2>4 DEF DueNow
      <4> QED BY <2>3, <2>4, <3>2, <4>1, PositionQty, SettlePriceType DEF DueNow
    <3>4. q \in Int /\ q # 0 /\ ExactAverage(pos[s], q, price)
      BY <3>2, <3>3 DEF ExactAverage, SameDirection
    <3>5. /\ FillsOf(fills', s) = Append(FillsOf(fills, s), b) /\ SignedFill(b) = q /\ b.price = price
          /\ pos'[s] = ApplyFill(pos[s], q, price, b.fee, Mult[s])
      BY <3>1, <3>2
    <3> QED BY <1>1, <3>3, <3>4, <3>5, TripMoneyFill
  <2>5. CASE s \notin DueNow(now)
    <3>1. FillsOf(fills', s) = FillsOf(fills, s) /\ pos'[s] = pos[s]
      BY <2>3, <2>5, SettleBooks
    <3> QED BY <1>2, <3>1
  <2> QED BY <2>4, <2>5
<1>4. CASE FillNext
  <2>1. PICK i \in todo : Rest(i) \/ Reject(i) \/ Fill(i)
    BY <1>4 DEF FillNext
  <2>2. CASE Rest(i) \/ Reject(i)
    BY <1>2, <2>2 DEF Rest, Reject, account
  <2>3. CASE Fill(i)
    <3>1. PICK o, f, q, price : o = book[i] /\ f = FillNow(i) /\ q = Signed(o.side, f.qty) /\ price = f.price
      OBVIOUS
    <3>2. o.sym \in Symbols /\ price \in Int /\ q \in Int /\ q # 0 /\ fills \in Seq(Fills)
      BY <2>3, <3>1, Booked
    <3>3. PICK b \in Fills :
            /\ fills' = Append(fills, b)
            /\ b.sym = o.sym /\ b.fee = f.fee /\ b.price = f.price /\ SignedFill(b) = q
            /\ \A t \in Symbols :
                 pos'[t] = IF t = o.sym THEN ApplyFill(pos[t], q, f.price, f.fee, Mult[t]) ELSE pos[t]
      BY <2>3, <3>1, FillBooks
    <3>4. FillsOf(fills', s) = IF b.sym = s THEN Append(FillsOf(fills, s), b) ELSE FillsOf(fills, s)
      BY <3>2, <3>3, FillsOfAppend
    <3>5. CASE o.sym = s
      <4>1. /\ FillsOf(fills', s) = Append(FillsOf(fills, s), b) /\ SignedFill(b) = q /\ b.price = price
            /\ pos'[s] = ApplyFill(pos[s], q, price, b.fee, Mult[s])
        BY <3>1, <3>3, <3>4, <3>5
      <4>2. ExactAverage(pos[s], q, price)
        BY <3>1, <3>5 DEF AveragesExact
      <4> QED BY <1>1, <3>2, <4>1, <4>2, TripMoneyFill
    <3>6. CASE o.sym # s
      <4>1. FillsOf(fills', s) = FillsOf(fills, s) /\ pos'[s] = pos[s]
        BY <3>3, <3>4, <3>6
      <4> QED BY <1>2, <4>1
    <3> QED BY <3>5, <3>6
  <2> QED BY <2>1, <2>2, <2>3
<1>5. CASE OnBar \/ UNCHANGED vars
  <2>1. fills' = fills /\ pos' = pos
    BY <1>5 DEF OnBar, vars, account
  <2> QED BY <1>2, <2>1
<1> QED BY <1>3, <1>4, <1>5 DEF Next

\* While no average is rounded, the closed round trips of a symbol that is flat earned
\* what its position realised, less the opening fees (analytics._extract_round_trips
\* and Portfolio.apply_fill).
THEOREM TripsMatch == Spec /\ []AveragesExact => []TripsMatchLedger
PROOF
<1>1. Init => TripMoney
  <2> SUFFICES ASSUME Init, NEW s \in Symbols
               PROVE  NetPnl(FillsOf(fills, s)) + Costs[s] = Earnings[s]
    BY DEF TripMoney
  <2>1. FillsOf(fills, s) = << >> /\ pos[s].qty = 0 /\ pos[s].avg = 0 /\ pos[s].realized = 0
    BY PickedEmpty DEF Init, FillsOf, Flat
  <2>2. OpeningFees(<< >>) = 0
    <3>1. PICK a : a \in Seq(Int) /\ Len(a) = Len(<< >>) /\ OpeningFees(<< >>) = Total(a)
      <4>1. << >> \in Seq(Fills)
        OBVIOUS
      <4> QED BY <4>1, OpeningFeesAre
    <3>2. a = << >>
      BY <3>1
    <3> QED BY <3>1, <3>2, TotalEmpty
  <2>3. Mult[s] \in Int
    BY BacktestAssumption
  <2>4. Costs[s] = 0 /\ Earnings[s] = 0
    BY <2>1, <2>2, <2>3 DEF Costs, Earnings, CostsOf, EarningsOf
  <2> QED BY <2>1, <2>4, NetPnlEmpty
<1>2. Inv /\ FillPlaces /\ PositionsFromFills /\ TripMoney => TripsMatchLedger
  <2> SUFFICES ASSUME Inv, FillPlaces, PositionsFromFills, TripMoney, NEW s \in Symbols,
                      pos[s].qty = 0, Mult[s] = 1
               PROVE  TripsPnl(ClosedTrips(FillsOf(fills, s))) = pos[s].realized - OpeningFees(FillsOf(fills, s))
    BY DEF TripsMatchLedger, TripsPnl
  <2>1. PICK fs : fs = FillsOf(fills, s)
    OBVIOUS
  <2>2. fs \in Seq(Fills) /\ Different(fs)
    <3>1. fills \in Seq(Fills) /\ Different(fills)
      BY DEF Inv, AccountTypes, FillPlaces
    <3> QED BY <2>1, <3>1, FillsOfType, FillsOfDifferent
  <2>3. PICK n \in Nat : n = Len(fs)
    BY <2>2
  <2>4. RunningQty(fs, n) = 0
    BY <2>1, <2>3 DEF PositionsFromFills
  <2>5. TripsCover(fs)
    BY <2>2, TripsCoverAll
  <2>6. CloseBefore(fs, n + 1, n)
    <3>1. \A e \in Closings(fs) : e \in 1 .. n
      BY <2>2, <2>3, ClosingPlaces
    <3>2. n = 0 \/ n \in Closings(fs)
      BY <2>2, <2>3, <2>4, ClosingPlaces
    <3> QED BY <3>1, <3>2 DEF CloseBefore
  <2>7. OpenFrom(fs, n) = << >>
    BY <2>2, <2>3 DEF OpenFrom
  <2>8. TripsPnl(ClosedTrips(fs)) + 0 = NetPnl(fs)
    <3>1. TripsPnl(ClosedTrips(fs)) + NetPnl(OpenFrom(fs, n)) = NetPnl(fs)
      BY <2>3, <2>5, <2>6 DEF TripsCover
    <3> QED BY <2>7, <3>1, NetPnlEmpty
  <2>9. TripsPnl(ClosedTrips(fs)) \in Int /\ NetPnl(fs) \in Int
    BY <2>2, <2>5, TripsPnlType, NetPnlType DEF TripsCover
  <2>10. NetPnl(fs) + Costs[s] = Earnings[s]
    BY <2>1 DEF TripMoney
  <2>11. Costs[s] = 0 /\ Earnings[s] = pos[s].realized - OpeningFees(fs)
    <3>1. pos[s].avg \in Int
      BY DEF Inv, AccountTypes, Positions
    <3> QED BY <2>1, <3>1 DEF Costs, Earnings, CostsOf, EarningsOf
  <2> QED BY <2>1, <2>8, <2>9, <2>10, <2>11
<1> QED BY <1>1, <1>2, TripMoneyStep, FillPlacesAlways, PositionsAreFills, InvAlways, PTL DEF Spec

(***************************************************************************)
(* The fills of a test window: the end of the list of fills, since bars    *)
(* only grow, and the round trips that start flat at its first bar.        *)
(***************************************************************************)
Sorted(fs) == \A j, k \in 1 .. Len(fs) : j < k => fs[j].bar <= fs[k].bar

From(fs, k) == Picked(fs, {i \in DOMAIN fs : fs[i].bar >= k})

\* xs, before bar k, and ws, not before it, make up fs.
SplitAt(fs, k, xs, ws) ==
  /\ fs = xs \o ws
  /\ \A i \in 1 .. Len(xs) : xs[i].bar < k
  /\ \A i \in 1 .. Len(ws) : ws[i].bar >= k

LEMMA FromAppend ==
  ASSUME NEW p \in Seq(Fills), NEW f \in Fills, NEW k \in Nat
  PROVE  From(Append(p, f), k) = IF f.bar >= k THEN Append(From(p, k), f) ELSE From(p, k)
PROOF
<1>1. PICK x : x = Append(p, f)
  OBVIOUS
<1>2. PICK P, Q : P = {i \in DOMAIN x : x[i].bar >= k} /\ Q = {i \in DOMAIN p : p[i].bar >= k}
  OBVIOUS
<1>3. /\ Len(p) \in Nat /\ DOMAIN p = 1 .. Len(p) /\ DOMAIN x = 1 .. (Len(p) + 1)
      /\ x[Len(p) + 1] = f /\ \A i \in 1 .. Len(p) : x[i] = p[i]
  BY <1>1
<1>4. \A i \in 1 .. Len(p) : i \in P <=> i \in Q
  BY <1>2, <1>3
<1>5. Len(p) + 1 \in P <=> f.bar >= k
  BY <1>2, <1>3
<1>6. Picked(p, P) = Picked(p, Q)
  BY <1>4, PickedSame, Zenon
<1>7. Picked(x, P) = IF Len(p) + 1 \in P THEN Append(Picked(p, P), f) ELSE Picked(p, P)
  BY <1>1, PickedAppend, Zenon
<1>8. From(x, k) = Picked(x, P) /\ From(p, k) = Picked(p, Q)
  BY <1>2 DEF From
<1> QED BY <1>1, <1>5, <1>6, <1>7, <1>8

LEMMA SplitAppend ==
  ASSUME NEW p \in Seq(Fills), NEW f \in Fills, NEW k \in Nat, Sorted(Append(p, f)),
         NEW xs \in Seq(Fills), SplitAt(p, k, xs, From(p, k))
  PROVE  \E ys \in Seq(Fills) : SplitAt(Append(p, f), k, ys, From(Append(p, f), k))
PROOF
<1>1. PICK x : x = Append(p, f)
  OBVIOUS
<1>2. PICK ws : ws = From(p, k)
  OBVIOUS
<1>3. ws \in Seq(Fills)
  BY <1>2, PickedPlaces DEF From
<1>4. p = xs \o ws /\ (\A i \in 1 .. Len(xs) : xs[i].bar < k) /\ \A i \in 1 .. Len(ws) : ws[i].bar >= k
  BY <1>2 DEF SplitAt
<1>5. PICK n \in Nat, m \in Nat, h \in Nat : n = Len(xs) /\ m = Len(ws) /\ h = Len(p)
  BY <1>3
<1>6. /\ h = n + m /\ (\A i \in 1 .. n : p[i] = xs[i]) /\ \A i \in 1 .. m : p[n + i] = ws[i]
  BY <1>3, <1>4, <1>5
<1>7. f.bar \in Nat /\ \A i \in 1 .. h : p[i].bar \in Nat
  <2>1. \A i \in 1 .. h : p[i] \in Fills
    BY <1>5
  <2> QED BY <2>1 DEF Fills
<1>8. CASE f.bar >= k
  <2>1. From(x, k) = Append(ws, f)
    BY <1>1, <1>2, <1>8, FromAppend
  <2>2. PICK v : v = Append(ws, f)
    OBVIOUS
  <2>3. x = xs \o v
    <3>1. xs \o Append(ws, f) = Append(xs \o ws, f)
      BY <1>3
    <3> QED BY <1>1, <1>4, <2>2, <3>1
  <2>4. Len(v) = m + 1 /\ v[m + 1] = f /\ \A i \in 1 .. m : v[i] = ws[i]
    BY <1>3, <1>5, <2>2
  <2>5. \A i \in 1 .. m + 1 : i = m + 1 \/ i \in 1 .. m
    OBVIOUS
  <2>6. \A i \in 1 .. m : ws[i].bar >= k
    BY <1>4, <1>5
  <2>7. \A i \in 1 .. m + 1 : v[i].bar >= k
    BY <1>8, <2>4, <2>5, <2>6
  <2>8. SplitAt(x, k, xs, v)
    BY <1>4, <2>3, <2>4, <2>7 DEF SplitAt
  <2> QED BY <1>1, <2>1, <2>2, <2>8
<1>9. CASE f.bar < k
  <2>1. From(x, k) = ws
    BY <1>1, <1>2, <1>7, <1>9, FromAppend
  <2>2. x[h + 1] = f /\ Len(x) = h + 1 /\ \A i \in 1 .. h : x[i] = p[i]
    BY <1>1, <1>5
  <2>3. \A i \in 1 .. h : p[i].bar <= f.bar
    <3>1. \A i \in 1 .. h : i \in 1 .. h + 1 /\ h + 1 \in 1 .. h + 1 /\ i < h + 1
      OBVIOUS
    <3> QED BY <1>1, <2>2, <3>1 DEF Sorted
  <2>4. m = 0
    <3>1. SUFFICES ASSUME m # 0 PROVE FALSE
      OBVIOUS
    <3>2. 1 \in 1 .. m /\ n + 1 \in 1 .. h
      BY <1>6, <3>1
    <3>3. ws[1].bar >= k /\ p[n + 1] = ws[1]
      BY <1>4, <1>5, <1>6, <3>2
    <3>4. p[n + 1].bar <= f.bar /\ p[n + 1].bar \in Nat
      BY <1>7, <2>3, <3>2
    <3>5. p[n + 1].bar >= k
      BY <3>3
    <3> QED BY <1>7, <1>9, <3>4, <3>5
  <2>5. ws = << >> /\ x \in Seq(Fills) /\ x = x \o << >>
    <3>1. ws = << >>
      <4>1. \A y \in Seq(Fills) : Len(y) = 0 => y = << >>
        OBVIOUS
      <4>2. Len(ws) = 0
        BY <1>5, <2>4
      <4> QED BY <1>3, <4>1, <4>2
    <3>2. x \in Seq(Fills)
      BY <1>1
    <3> QED BY <3>1, <3>2
  <2>6. \A i \in 1 .. h + 1 : i = h + 1 \/ i \in 1 .. h
    OBVIOUS
  <2>7. \A i \in 1 .. h + 1 : x[i].bar < k
    <3> SUFFICES ASSUME NEW i \in 1 .. h + 1 PROVE x[i].bar < k
      OBVIOUS
    <3>1. CASE i = h + 1
      BY <1>9, <2>2, <3>1
    <3>2. CASE i \in 1 .. h
      <4>1. x[i] = p[i] /\ p[i].bar <= f.bar /\ p[i].bar \in Nat
        BY <1>7, <2>2, <2>3, <3>2
      <4>2. PICK a, b : a = p[i].bar /\ b = f.bar
        OBVIOUS
      <4>3. a < k
        BY <1>7, <1>9, <4>1, <4>2
      <4> QED BY <4>1, <4>2, <4>3
    <3> QED BY <2>6, <3>1, <3>2
  <2>8. SplitAt(x, k, x, << >>)
    BY <2>2, <2>5, <2>7 DEF SplitAt
  <2> QED BY <1>1, <2>1, <2>5, <2>8
<1> QED BY <1>7, <1>8, <1>9

LEMMA SplitExists ==
  ASSUME NEW fs \in Seq(Fills), NEW k \in Nat, Sorted(fs)
  PROVE  \E xs \in Seq(Fills) : SplitAt(fs, k, xs, From(fs, k))
PROOF
<1> DEFINE Good(x) == \E xs \in Seq(Fills) : SplitAt(x, k, xs, From(x, k))
           S == {n \in Nat : \A x \in Seq(Fills) : Len(x) = n /\ Sorted(x) => Good(x)}
<1>1. 0 \in S
  <2>1. SUFFICES ASSUME NEW x \in Seq(Fills), Len(x) = 0 PROVE Good(x)
    OBVIOUS
  <2>2. x = << >>
    BY <2>1
  <2>3. From(x, k) = << >>
    BY <2>2, PickedEmpty DEF From
  <2>4. << >> \in Seq(Fills) /\ << >> \o << >> = << >> /\ Len(<< >>) = 0
    OBVIOUS
  <2>5. SplitAt(x, k, << >>, << >>)
    BY <2>2, <2>4 DEF SplitAt
  <2> QED BY <2>3, <2>4, <2>5
<1>2. ASSUME NEW n \in Nat, n \in S PROVE n + 1 \in S
  <2>1. SUFFICES ASSUME NEW x \in Seq(Fills), Len(x) = n + 1, Sorted(x) PROVE Good(x)
    OBVIOUS
  <2>2. PICK p \in Seq(Fills), f \in Fills : x = Append(p, f) /\ Len(p) = n
    BY <2>1, LastOut
  <2>3. Sorted(p)
    <3>1. \A i \in 1 .. n : i \in 1 .. n + 1 /\ x[i] = p[i]
      BY <2>2
    <3> QED BY <2>1, <2>2, <3>1 DEF Sorted
  <2>4. PICK xs \in Seq(Fills) : SplitAt(p, k, xs, From(p, k))
    BY <1>2, <2>2, <2>3
  <2> QED BY <2>1, <2>2, <2>4, SplitAppend
<1> HIDE DEF S
<1>3. Nat \subseteq S
  BY <1>1, <1>2, SetInduction, Zenon
<1>4. Len(fs) \in S
  <2>1. Len(fs) \in Nat
    OBVIOUS
  <2> QED BY <1>3, <2>1
<1> QED BY <1>4 DEF S

\* Picking a symbol keeps the split.
LEMMA SplitOfSymbol ==
  ASSUME NEW fs \in Seq(Fills), NEW k \in Nat, NEW xs \in Seq(Fills), NEW ws \in Seq(Fills),
         SplitAt(fs, k, xs, ws), NEW s
  PROVE  SplitAt(FillsOf(fs, s), k, FillsOf(xs, s), FillsOf(ws, s))
PROOF
<1>1. FillsOf(fs, s) = FillsOf(xs, s) \o FillsOf(ws, s)
  BY FillsOfConcat DEF SplitAt
<1>2. ASSUME NEW a \in Seq(Fills) PROVE \A i \in 1 .. Len(FillsOf(a, s)) : \E j \in 1 .. Len(a) : FillsOf(a, s)[i] = a[j]
  <2>1. PICK P : P = {i \in DOMAIN a : a[i].sym = s}
    OBVIOUS
  <2>2. PICK g : g = FillsOf(a, s) /\ g = Picked(a, P)
    BY <2>1 DEF FillsOf
  <2>3. PICK at \in Seq(Nat) : PickedAt(a, P, g, at)
    BY <2>2, PickedPlaces
  <2>4. Len(g) = Len(at) /\ \A i \in 1 .. Len(at) : at[i] \in 1 .. Len(a) /\ g[i] = a[at[i]]
    BY <2>3, Zenon DEF PickedAt
  <2> QED BY <2>2, <2>4
<1>3. \A i \in 1 .. Len(FillsOf(xs, s)) : FillsOf(xs, s)[i].bar < k
  <2>1. \A j \in 1 .. Len(xs) : xs[j].bar < k
    BY DEF SplitAt
  <2> QED BY <1>2, <2>1, Zenon
<1>4. \A i \in 1 .. Len(FillsOf(ws, s)) : FillsOf(ws, s)[i].bar >= k
  <2>1. \A j \in 1 .. Len(ws) : ws[j].bar >= k
    BY DEF SplitAt
  <2> QED BY <1>2, <2>1, Zenon
<1> QED BY <1>1, <1>3, <1>4 DEF SplitAt

\* How many fills lie before the window.
LEMMA FillsBefore ==
  ASSUME NEW fs \in Seq(Fills), NEW k \in Nat, NEW xs \in Seq(Fills), NEW ws \in Seq(Fills),
         SplitAt(fs, k, xs, ws)
  PROVE  Cardinality({i \in DOMAIN fs : fs[i].bar < k}) = Len(xs)
PROOF
<1>1. PICK n \in Nat, m \in Nat : n = Len(xs) /\ m = Len(ws)
  OBVIOUS
<1>2. fs = xs \o ws /\ (\A i \in 1 .. n : xs[i].bar < k) /\ \A i \in 1 .. m : ws[i].bar >= k
  BY <1>1 DEF SplitAt
<1>3. DOMAIN fs = 1 .. n + m /\ (\A i \in 1 .. n : fs[i] = xs[i]) /\ \A i \in 1 .. m : fs[n + i] = ws[i]
  BY <1>1, <1>2
<1>4. \A i \in 1 .. n + m : fs[i].bar \in Nat
  <2>1. \A i \in 1 .. n + m : fs[i] \in Fills
    BY <1>3
  <2> QED BY <2>1 DEF Fills
<1>5. \A i \in 1 .. n : i \in 1 .. n + m /\ fs[i].bar < k
  BY <1>2, <1>3, SMTT(30)
<1>6. \A i \in 1 .. n + m : fs[i].bar < k => i \in 1 .. n
  <2> SUFFICES ASSUME NEW i \in 1 .. n + m, fs[i].bar < k, i \notin 1 .. n PROVE FALSE
    OBVIOUS
  <2>1. i - n \in 1 .. m /\ n + (i - n) = i
    OBVIOUS
  <2>2. fs[i].bar >= k
    BY <1>2, <1>3, <2>1
  <2> QED BY <1>4, <2>2
<1>7. {i \in DOMAIN fs : fs[i].bar < k} = 1 .. n
  BY <1>3, <1>5, <1>6
<1>8. Cardinality(1 .. n) = n
  BY FS_Interval
<1> QED BY <1>1, <1>7, <1>8


\* A flat start changes no running position.
LEMMA RunningConcat ==
  ASSUME NEW xs \in Seq(Fills), NEW ws \in Seq(Fills), RunningQty(xs \o ws, Len(xs)) = 0,
         NEW i \in 0 .. Len(ws)
  PROVE  RunningQty(xs \o ws, Len(xs) + i) = RunningQty(ws, i)
PROOF
<1>0. PICK v : v = SubSeq(ws, 1, i)
  OBVIOUS
<1>1. PICK c \in Nat : c = Len(xs)
  OBVIOUS
<1>2. v \in Seq(Fills)
  BY <1>0
<1>3. SubSeq(xs \o ws, 1, c) = xs /\ SubSeq(xs \o ws, 1, c + i) = xs \o v
  <2>1. SubSeq(xs \o ws, 1, c) = xs
    BY <1>1
  <2>2. SubSeq(xs \o ws, 1, c + i) = xs \o v
    BY <1>0, <1>1
  <2> QED BY <2>1, <2>2
<1>4. PICK a, b, d : /\ a = [j \in DOMAIN xs |-> SignedFill(xs[j])]
                     /\ b = [j \in DOMAIN v |-> SignedFill(v[j])]
                     /\ d = [j \in DOMAIN (xs \o v) |-> SignedFill((xs \o v)[j])]
  OBVIOUS
<1>5. (\A j \in 1 .. Len(xs) : SignedFill(xs[j]) \in Int) /\ \A j \in 1 .. Len(v) : SignedFill(v[j]) \in Int
  BY <1>2, SignedType
<1>6. a \in Seq(Int) /\ Len(a) = Len(xs) /\ \A j \in 1 .. Len(xs) : a[j] = SignedFill(xs[j])
  <2>1. DOMAIN xs = 1 .. Len(xs) /\ Len(xs) \in Nat
    OBVIOUS
  <2>2. a = [j \in 1 .. Len(xs) |-> SignedFill(xs[j])]
    BY <1>4, <2>1
  <2> QED BY <1>5, <2>1, <2>2
<1>7. b \in Seq(Int) /\ Len(b) = Len(v) /\ \A j \in 1 .. Len(v) : b[j] = SignedFill(v[j])
  <2>1. DOMAIN v = 1 .. Len(v) /\ Len(v) \in Nat
    BY <1>2
  <2>2. b = [j \in 1 .. Len(v) |-> SignedFill(v[j])]
    BY <1>4, <2>1
  <2> QED BY <1>5, <2>1, <2>2
<1>8. d = a \o b
  <2>1. PICK y : y = xs \o v
    OBVIOUS
  <2>2. /\ DOMAIN y = 1 .. Len(xs) + Len(v) /\ Len(xs) \in Nat /\ Len(v) \in Nat
        /\ \A j \in 1 .. Len(xs) : y[j] = xs[j]
    BY <1>2, <2>1
  <2>3. \A j \in 1 .. Len(xs) + Len(v) : j \notin 1 .. Len(xs) =>
          j - Len(xs) \in 1 .. Len(v) /\ y[j] = v[j - Len(xs)]
    BY <1>2, <2>1
  <2>4. d = [j \in 1 .. Len(xs) + Len(v) |-> SignedFill(y[j])]
    BY <1>4, <2>1, <2>2
  <2>5. PICK g : g = a \o b
    OBVIOUS
  <2>6. /\ g \in Seq(Int) /\ Len(g) = Len(xs) + Len(v)
        /\ \A j \in 1 .. Len(xs) + Len(v) :
             g[j] = IF j \in 1 .. Len(xs) THEN a[j] ELSE b[j - Len(xs)]
    <3>1. a \in Seq(Int) /\ b \in Seq(Int) /\ Len(a) = Len(xs) /\ Len(b) = Len(v)
      BY <1>6, <1>7
    <3>2. g \in Seq(Int) /\ Len(g) = Len(a) + Len(b)
      <4>1. \A p, q \in Seq(Int) : p \o q \in Seq(Int) /\ Len(p \o q) = Len(p) + Len(q)
        OBVIOUS
      <4> QED BY <2>5, <3>1, <4>1
    <3>3. \A j \in 1 .. Len(a) + Len(b) : g[j] = IF j <= Len(a) THEN a[j] ELSE b[j - Len(a)]
      BY <2>5, <3>1
    <3>4. \A j \in 1 .. Len(xs) + Len(v) : j \in 1 .. Len(xs) <=> j <= Len(xs)
      BY <2>2
    <3> QED BY <3>1, <3>2, <3>3, <3>4
  <2>7. ASSUME NEW j \in 1 .. Len(xs) + Len(v) PROVE g[j] = SignedFill(y[j])
    BY <1>6, <1>7, <2>2, <2>3, <2>6
  <2>8. g = [j \in 1 .. Len(xs) + Len(v) |-> g[j]]
    BY <2>2, <2>6
  <2> QED BY <2>4, <2>5, <2>7, <2>8
<1>9. Total(d) = Total(a) + Total(b) /\ Total(a) \in Int /\ Total(b) \in Int
  BY <1>6, <1>7, <1>8, TotalConcat, TotalType
<1>10. RunningQty(xs \o ws, c) = Total(a)
  BY <1>3, <1>4 DEF RunningQty, SumOver
<1>11. RunningQty(xs \o ws, c + i) = Total(d)
  BY <1>3, <1>4 DEF RunningQty, SumOver
<1>12. RunningQty(ws, i) = Total(b)
  BY <1>0, <1>4 DEF RunningQty, SumOver
<1> QED BY <1>1, <1>9, <1>10, <1>11, <1>12

\* After a flat start the trips of the window are trips of the whole list.
LEMMA FlatStartKeepsTrips ==
  ASSUME NEW xs \in Seq(Fills), NEW ws \in Seq(Fills), RunningQty(xs \o ws, Len(xs)) = 0
  PROVE  ClosedTrips(ws) \subseteq ClosedTrips(xs \o ws)
PROOF
<1>0. PICK c \in Nat, m \in Nat : c = Len(xs) /\ m = Len(ws)
  OBVIOUS
<1>1. PICK fs : fs = xs \o ws /\ c = Len(xs) /\ m = Len(ws)
  BY <1>0
<1>2. fs \in Seq(Fills) /\ Len(fs) = c + m
  BY <1>1
<1>3. \A i \in 0 .. m : RunningQty(fs, c + i) = RunningQty(ws, i)
  BY <1>1, RunningConcat
<1>4. \A i \in 1 .. m : c + i \in Closings(fs) <=> i \in Closings(ws)
  <2>1. \A i \in 1 .. m : i \in 0 .. m /\ c + i \in 1 .. c + m
    OBVIOUS
  <2> QED BY <1>1, <1>2, <1>3, <2>1, ClosingPlaces
<1>5. (\A e : e \in Closings(ws) => e \in 1 .. m) /\ \A e : e \in Closings(fs) => e \in 1 .. c + m
  BY <1>1, <1>2, ClosingPlaces
<1>6. c = 0 \/ c \in Closings(fs)
  <2>1. RunningQty(fs, c) = 0 /\ (c # 0 => c \in 1 .. Len(fs))
    BY <1>1, <1>2
  <2> QED BY <1>2, <2>1, ClosingPlaces
<1>7. SUFFICES ASSUME NEW i \in Closings(ws) PROVE TripEndingAt(ws, i) \in ClosedTrips(fs)
  BY <1>1 DEF ClosedTrips
<1>8. i \in 1 .. m /\ c + i \in Closings(fs) /\ i \in Nat /\ c + i \in Nat
  BY <1>4, <1>5
<1>9. PICK b \in 0 .. m : CloseBefore(ws, i, b)
  BY <1>1, <1>8, CloseBeforeExists
<1>10. c + b = 0 \/ (c + b \in Closings(fs) /\ c + b < c + i)
  <2>1. CASE b = 0
    BY <1>6, <1>8, <2>1
  <2>2. CASE b # 0
    <3>1. b \in Closings(ws) /\ b < i
      BY <1>9, <2>2 DEF CloseBefore
    <3> QED BY <1>4, <1>5, <1>8, <3>1
  <2> QED BY <2>1, <2>2
<1>11. ASSUME NEW e \in Closings(fs), e < c + i PROVE e <= c + b
  <2>1. e \in 1 .. c + m
    BY <1>5
  <2>2. CASE e <= c
    BY <1>9, <2>1, <2>2
  <2>3. CASE e > c
    <3>1. PICK d : d = e - c
      OBVIOUS
    <3>2. d \in 1 .. m /\ c + d = e /\ d < i
      BY <1>8, <1>11, <2>1, <2>3, <3>1
    <3>3. d \in Closings(ws)
      BY <1>4, <3>2
    <3>4. d <= b
      BY <1>9, <3>2, <3>3 DEF CloseBefore
    <3> QED BY <1>9, <3>2, <3>4
  <2> QED BY <2>1, <2>2, <2>3
<1>12. CloseBefore(fs, c + i, c + b)
  BY <1>10, <1>11 DEF CloseBefore
<1>13. TripEndingAt(ws, i) = SubSeq(ws, b + 1, i)
  BY <1>8, <1>9, TripIs
<1>14. TripEndingAt(fs, c + i) = SubSeq(fs, c + b + 1, c + i)
  <2>1. c + b \in Nat
    BY <1>9
  <2> QED BY <1>2, <1>8, <1>12, <2>1, TripIs
<1>15. SubSeq(fs, c + b + 1, c + i) = SubSeq(ws, b + 1, i)
  BY <1>1, <1>8, <1>9
<1> QED BY <1>8, <1>13, <1>14, <1>15 DEF ClosedTrips

\* In every backtest a test window that starts with a flat position closes only
\* round trips of the whole run, whatever the bars, orders and settlements
\* (walk_forward._filter_result_to_window, analytics._extract_round_trips).
THEOREM WindowsKeepTrips == Spec => []WindowTripsHonest
PROOF
<1>1. Inv /\ FillPlaces => WindowTripsHonest
  <2> SUFFICES ASSUME Inv, FillPlaces, NEW k \in 0 .. bar, NEW s \in Symbols,
                      RunningQty(FillsOf(fills, s),
                        Cardinality({i \in DOMAIN FillsOf(fills, s) : FillsOf(fills, s)[i].bar < k})) = 0
               PROVE  ClosedTrips(FillsOf(FillsFrom(k), s)) \subseteq ClosedTrips(FillsOf(fills, s))
    BY DEF WindowTripsHonest
  <2>1. k \in Nat
    OBVIOUS
  <2>2. fills \in Seq(Fills) /\ Sorted(fills)
    BY DEF Inv, AccountTypes, FillPlaces, Sorted
  <2>3. PICK later : later = From(fills, k)
    OBVIOUS
  <2>4. later \in Seq(Fills) /\ FillsFrom(k) = later
    BY <2>2, <2>3, PickedPlaces DEF From, FillsFrom
  <2>5. PICK early \in Seq(Fills) : SplitAt(fills, k, early, later)
    BY <2>1, <2>2, <2>3, SplitExists
  <2>6. PICK fs, xs, ws : fs = FillsOf(fills, s) /\ xs = FillsOf(early, s) /\ ws = FillsOf(later, s)
    OBVIOUS
  <2>7. fs \in Seq(Fills) /\ xs \in Seq(Fills) /\ ws \in Seq(Fills)
    BY <2>2, <2>4, <2>6, FillsOfType
  <2>8. SplitAt(fs, k, xs, ws)
    BY <2>1, <2>2, <2>4, <2>5, <2>6, SplitOfSymbol
  <2>9. Cardinality({i \in DOMAIN fs : fs[i].bar < k}) = Len(xs)
    BY <2>1, <2>7, <2>8, FillsBefore
  <2>10. fs = xs \o ws /\ RunningQty(fs, Len(xs)) = 0
    BY <2>6, <2>8, <2>9 DEF SplitAt
  <2>11. ClosedTrips(ws) \subseteq ClosedTrips(fs)
    BY <2>7, <2>10, FlatStartKeepsTrips
  <2> QED BY <2>4, <2>6, <2>11
<1> QED BY <1>1, FillPlacesAlways, InvAlways, PTL

=============================================================================
